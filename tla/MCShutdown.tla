----------------------------- MODULE MCShutdown -----------------------------
(* Three hooks in two groups (one group of two, so that hooks of a group   *)
(* race) and two callers of Shutdown (so that one blocks in sync.Once).    *)
EXTENDS Shutdown

CONSTANTS h1, h2, h3, c1, c2
MCHook == {h1, h2, h3}
MCCaller == {c1, c2}
MCPrio == [h \in MCHook |-> IF h = h3 THEN 20 ELSE 10]
=============================================================================
