------------------------- MODULE MCExtractionWorker -------------------------
(***************************************************************************)
(* Small instances of ExtractionWorker for TLC.                            *)
(***************************************************************************)
EXTENDS ExtractionWorker
=============================================================================
