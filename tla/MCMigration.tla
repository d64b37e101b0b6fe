---------------------------- MODULE MCMigration ----------------------------
(* A small instance of MigrationJob: items 1 and 2 are documents, which    *)
(* verification does not see, the first under dispute; item 3 is a chapter.*)
(* The decision on item 1 moves the boundary of the batches of two.        *)
EXTENDS MigrationJob
=============================================================================
