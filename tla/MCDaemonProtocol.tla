-------------------------- MODULE MCDaemonProtocol --------------------------
(***************************************************************************)
(* Small instances of DaemonProtocol for TLC.                              *)
(***************************************************************************)
EXTENDS DaemonProtocol

CONSTANTS h1, h2, h3, a1, a2, a3, d0, d1, d2, d3

\* One Role function per mix of admin commands.
AllExclusive == [a \in Admins |-> "exclusive"]
ExclusiveAndStop == [a \in Admins |-> IF a = a1 THEN "exclusive" ELSE "stop"]
ExclusiveAndRebuild == [a \in Admins |-> IF a = a1 THEN "exclusive" ELSE "rebuild"]
=============================================================================
