-------------------------- MODULE MCDispatchQueue --------------------------
(***************************************************************************)
(* A small instance of DispatchQueue for TLC.  Two slots of one worker id  *)
(* serve work items, so that a retry can run beside the attempt it         *)
(* replaces under the same leased_by.                                      *)
(***************************************************************************)
EXTENDS DispatchQueue

CONSTANTS p1,           \* a probe
          w1,           \* the desktop worker
          work1, work2, \* its slots
          hub1          \* a Hub instance

MCWorkerOf == [s \in Slots |-> w1]
MCKindOf   == [s \in Slots |-> "work_item"]
=============================================================================
