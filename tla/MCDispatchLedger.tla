-------------------------- MODULE MCDispatchLedger --------------------------
(***************************************************************************)
(* A small instance of DispatchLedger for TLC: the life of a chat turn, of *)
(* a tool run or of a probe, beside the sweep and a reaper.                *)
(***************************************************************************)
EXTENDS DispatchLedger

CONSTANTS c1, t1, p1, w1, chat, work1, hub1

MCWorkerOf == [s \in Slots |-> w1]
MCKindOf   == [s \in Slots |-> IF s = chat THEN "chat_turn" ELSE "work_item"]

\* The bound of DispatchLedger_each: one job takes part in a behaviour.  What it
\* cuts off begins with the first step of another job, and no fairness forces a
\* job to begin.
TakesPart(j) == caller[j] # "idle" \/ (j \in ChatJobs /\ turn[j].pc # "idle")

OneJob == Cardinality({j \in Jobs : TakesPart(j)}) <= 1
=============================================================================
