----------------------------- MODULE MCPipeline -----------------------------
(* One book and two callers in the same process.                           *)
EXTENDS ChapterPipeline
CONSTANTS b1
=============================================================================
