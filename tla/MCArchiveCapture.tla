-------------------------- MODULE MCArchiveCapture --------------------------
(***************************************************************************)
(* Small instances of ArchiveCapture for TLC.                              *)
(***************************************************************************)
EXTENDS ArchiveCapture
=============================================================================
