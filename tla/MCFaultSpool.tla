---------------------------- MODULE MCFaultSpool ----------------------------
(***************************************************************************)
(* Small instances of FaultSpool for TLC.                                  *)
(***************************************************************************)
EXTENDS FaultSpool

CONSTANTS h1, h2
=============================================================================
