----------------------------- MODULE MCAgentLoop -----------------------------
(* Small instances of AgentLoop for TLC.                                   *)
EXTENDS AgentLoop

\* No iteration limit, or two; one tool at a time, or two.
MCLimits == {0, 2}
MCBounds == {1, 2}
=============================================================================
