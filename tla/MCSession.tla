----------------------------- MODULE MCSession -----------------------------
(* Two turns of the agent beside a posted request and a creation.          *)
EXTENDS AgentSession
CONSTANTS t1, t2, p1, c1
=============================================================================
