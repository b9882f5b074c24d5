---------------------------- MODULE JobLifecycle ----------------------------
(***************************************************************************)
(* What the dispatch queue promises its callers about one job, without     *)
(* leases, workers, statements or clocks: a submitted job is tried at most *)
(* Limit(j) times, is settled once, by an execution or by the queue itself,*)
(* its answer is read at most once, and its record is forgotten some day.  *)
(* DispatchQueue implements this specification.                            *)
(***************************************************************************)
EXTENDS Naturals

CONSTANTS Jobs,
          Limit,   \* Limit[j]: how many times job j may be handed out
          ReadAtOnce  \* jobs whose answer is taken over when it is settled

VARIABLES phase, tries, outcome, read

vars == <<phase, tries, outcome, read>>

Outcomes == {"succeeded", "failed", "cancelled", "expired"}

TypeOK ==
  /\ phase \in [Jobs -> {"unknown", "pending", "settled", "forgotten"}]
  /\ tries \in [Jobs -> Nat]
  /\ outcome \in [Jobs -> {"none"} \cup Outcomes]
  /\ read \in [Jobs -> BOOLEAN]

Init ==
  /\ phase = [j \in Jobs |-> "unknown"]
  /\ tries = [j \in Jobs |-> 0]
  /\ outcome = [j \in Jobs |-> "none"]
  /\ read = [j \in Jobs |-> FALSE]

Submit(j) ==
  /\ phase[j] = "unknown"
  /\ phase' = [phase EXCEPT ![j] = "pending"]
  /\ UNCHANGED <<tries, outcome, read>>

Try(j) ==
  /\ phase[j] = "pending"
  /\ tries[j] < Limit[j]
  /\ tries' = [tries EXCEPT ![j] = @ + 1]
  /\ UNCHANGED <<phase, outcome, read>>

\* An execution settles its job, successfully or not.
Report(j, o) ==
  /\ phase[j] = "pending"
  /\ tries[j] > 0
  /\ o \in {"succeeded", "failed", "cancelled"}
  /\ phase' = [phase EXCEPT ![j] = "settled"]
  /\ outcome' = [outcome EXCEPT ![j] = o]
  /\ read' = [read EXCEPT ![j] = o = "succeeded" /\ j \in ReadAtOnce]
  /\ UNCHANGED tries

\* The queue gives jobs up, several in one statement; it never claims success.
GiveUp(S, o) ==
  /\ S # {}
  /\ \A j \in S : phase[j] = "pending"
  /\ o \in {"cancelled", "expired"}
  /\ phase' = [j \in Jobs |-> IF j \in S THEN "settled" ELSE phase[j]]
  /\ outcome' = [j \in Jobs |-> IF j \in S THEN o ELSE outcome[j]]
  /\ UNCHANGED <<tries, read>>

Read(j) ==
  /\ outcome[j] = "succeeded"
  /\ ~read[j]
  /\ read' = [read EXCEPT ![j] = TRUE]
  /\ UNCHANGED <<phase, tries, outcome>>

Forget(S) ==
  /\ S # {}
  /\ \A j \in S : phase[j] \in {"pending", "settled"}
  /\ phase' = [j \in Jobs |-> IF j \in S THEN "forgotten" ELSE phase[j]]
  /\ tries' = [j \in Jobs |-> IF j \in S THEN 0 ELSE tries[j]]
  /\ outcome' = [j \in Jobs |-> IF j \in S THEN "none" ELSE outcome[j]]
  /\ read' = [j \in Jobs |-> IF j \in S THEN FALSE ELSE read[j]]

Next ==
  \/ \E j \in Jobs : Submit(j) \/ Try(j) \/ Read(j)
  \/ \E j \in Jobs, o \in Outcomes : Report(j, o)
  \/ \E S \in SUBSET Jobs : Forget(S) \/ \E o \in Outcomes : GiveUp(S, o)

Spec == Init /\ [][Next]_vars
=============================================================================
