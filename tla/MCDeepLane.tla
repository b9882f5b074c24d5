----------------------------- MODULE MCDeepLane -----------------------------
(***************************************************************************)
(* A small instance of DeepLane for TLC: one run that is retried, or two   *)
(* runs of one user that compete for the active place.                     *)
(***************************************************************************)
EXTENDS DeepLane

CONSTANTS t1, t2, w1, work1, work2, hub1

MCWorkerOf == [s \in Slots |-> w1]
MCKindOf   == [s \in Slots |-> "work_item"]

\* The bounds of DeepLane_runs.  A run by itself has two claims, two slots and
\* the reaper.  When a second start competes with it, there is one claim on one
\* slot and nobody reaps, and the second goes no further than its row; who of
\* the two is called t1 does not matter.  What is cut off begins with the start
\* of t2, which no fairness forces: the behaviours of the single run are whole.
Begun(r) == start[r] # "idle"

OneClaim ==
  /\ \A a \in Attempts : exec[t1][a].phase # "none" => a = 1 /\ exec[t1][a].slot = work1
  /\ \A p \in Reapers : pass[p] = IdlePass

Bounds == Begun(t2) => Begun(t1) /\ OneClaim /\ caller[t2] = "idle"
=============================================================================
