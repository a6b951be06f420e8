--------------------------- MODULE MCRebuildSwap ---------------------------
(***************************************************************************)
(* Small instances of RebuildSwap for TLC.                                 *)
(***************************************************************************)
EXTENDS RebuildSwap

\* Log 1 is cut in two, log 2 has no chunk.
TwoAndNone == [l \in Logs |-> IF l = 1 THEN 2 ELSE 0]

Everything == {"judge", "open", "budget", "episode", "extract", "pending", "mark",
               "rename", "config", "crash"}
=============================================================================
