--------------------------- MODULE DeepLaneProofs ---------------------------
(***************************************************************************)
(* Safety of DeepLane for every number of runs, attempts, POSTs and Hub    *)
(* instances, on the invariant of the queue below it.                      *)
(*                                                                         *)
(* The deep lane never touches the queue but by the queue's own steps, so  *)
(* every theorem about DispatchQueue holds here too (LaneUsesQueue).       *)
(* RunInv(r) relates a run to its job: a run that somebody else ended      *)
(* belongs to a job that no result can reach any more.  Two of its clauses *)
(* need ACTIVE_WINDOW_MS to outlast every job.                             *)
(***************************************************************************)
EXTENDS DeepLane, DispatchQueueProofs

-----------------------------------------------------------------------------
(***************************************************************************)
(* The queue seen from one job                                             *)
(***************************************************************************)

\* What a step of the queue may do to job i.
Moves(i) ==
  /\ caller[i] = "inserted" => caller'[i] = "inserted"
  /\ i \in overdue => i \in overdue'
  /\ \/ State(i)' = State(i)
     \/ State(i) = "absent" /\ State(i)' = "queued" /\ caller'[i] # caller[i]
     \/ State(i) = "queued" /\ State(i)' = "leased" /\ i \notin overdue
     \/ State(i) \in Active /\ State(i)' \in {"queued", "cancelled", "expired"}
     \/ State(i)' = "absent" /\ i \in aged
     \/ State(i) = "leased" /\ State(i)' \in Terminal /\ landed'[i] # landed[i]
  /\ landed'[i] # landed[i] => State(i) = "leased"
  /\ \A a \in Attempts :
       /\ Live(i, a)' => Live(i, a) \/ (State(i) = "queued" /\ i \notin overdue)
       /\ State(i) # "queued" /\ exec[i][a].phase # "running" =>
            exec'[i][a].phase # "running" /\ exec'[i][a].ok = exec[i][a].ok

LEMMA HubMoves ==
  ASSUME IInv, HubStep, NEW i \in Jobs
  PROVE  Moves(i)
<1>1. TypeOK /\ RowInv(i) /\ job[i] \in RowType
  BY DEF IInv, TypeOK
<1>2. ASSUME NEW j \in Jobs, EnqueueCheck(j) PROVE Moves(i)
  BY <1>1, <1>2 DEF EnqueueCheck, Moves, TypeOK, State, clocks, Live
<1>3. ASSUME NEW j \in Jobs, EnqueueInsert(j) PROVE Moves(i)
  <2>1. CASE i = j
    <3>1. State(i) = "absent"
      BY <1>1, <1>3, <2>1 DEF EnqueueInsert, RowInv, State, NoRow
    <3>2. State(i)' = "queued" /\ caller'[i] # caller[i]
      BY <1>1, <1>3, <2>1 DEF EnqueueInsert, TypeOK, State, NoRow
    <3> QED BY <1>1, <1>3, <3>1, <3>2 DEF EnqueueInsert, Moves, TypeOK, clocks, Live
  <2>2. CASE i # j
    BY <1>1, <1>3, <2>2 DEF EnqueueInsert, Moves, TypeOK, State, clocks, Live
  <2> QED BY <2>1, <2>2
<1>4. ASSUME NEW j \in Jobs, CancelQueued(j) PROVE Moves(i)
  <2>1. State(i)' = State(i) \/ (State(i) \in Active /\ State(i)' = "cancelled")
    BY <1>1, <1>4 DEF CancelQueued, Ended, TypeOK, State, Active, RowType
  <2> QED BY <1>1, <1>4, <2>1 DEF CancelQueued, Moves, clocks, Live
<1>5. ASSUME NEW j \in Jobs, CancelLeased(j) PROVE Moves(i)
  <2>1. State(i)' = State(i)
    BY <1>1, <1>5 DEF CancelLeased, TypeOK, State, RowType
  <2> QED BY <1>1, <1>5, <2>1 DEF CancelLeased, Moves, clocks, Live
<1>6. ASSUME NEW j \in Jobs, DeliverResult(j) PROVE Moves(i)
  <2>1. State(i)' = State(i)
    BY <1>1, <1>6 DEF DeliverResult, Delivered, TypeOK, State, RowType
  <2> QED BY <1>1, <1>6, <2>1 DEF DeliverResult, Moves, clocks, Live
<1>7. ASSUME SweepStale PROVE Moves(i)
  <2>1. State(i)' = State(i) \/ (State(i)' = "absent" /\ i \in aged)
    BY <1>1, <1>7 DEF SweepStale, Scrubbed, NoRow, State, RowType
  <2> QED BY <1>1, <1>7, <2>1 DEF SweepStale, Moves, Live
<1> QED BY <1>2, <1>3, <1>4, <1>5, <1>6, <1>7 DEF HubStep

\* A worker's step that is neither a claim nor a result that counts.
LEMMA QuietMoves ==
  ASSUME IInv, NEW i \in Jobs, ExecKept(i), job'[i] = job[i], landed'[i] = landed[i],
         caller' = caller, overdue' = overdue,
         \A a \in Attempts : Live(i, a)' => Live(i, a)
  PROVE  Moves(i)
BY DEF Moves, ExecKept, State

LEMMA WorkerMoves ==
  ASSUME IInv, WorkerStep, NEW i \in Jobs
  PROVE  Moves(i)
<1>1. TypeOK /\ RowInv(i) /\ job[i] \in RowType
  BY DEF IInv, TypeOK
<1>2. ASSUME NEW s \in Slots, NEW j \in Jobs, NEW got \in BOOLEAN, Claim(s, j, got)
      PROVE  Moves(i)
  <2>1. CASE i = j
    <3>1. State(i) = "queued" /\ State(i)' = "leased" /\ i \notin overdue
      BY <1>1, <1>2, <2>1 DEF Claim, Leased, TypeOK, State, RowType
    <3> QED BY <1>2, <3>1 DEF Claim, Moves
  <2>2. CASE i # j
    <3>1. exec'[i] = exec[i] /\ job'[i] = job[i]
      BY <1>1, <1>2, <2>2 DEF Claim, TypeOK
    <3> QED BY <1>2, <3>1 DEF Claim, Moves, Live, State
  <2> QED BY <2>1, <2>2
<1>3. ASSUME NEW j \in Jobs, NEW a \in Attempts, NEW ok \in BOOLEAN,
             exec[j][a].phase = "running", exec' = [exec EXCEPT ![j][a] = Stopped(@, ok)]
      PROVE  ExecKept(i) /\ \A b \in Attempts : Live(i, b)' => Live(i, b)
  <2>1. ExecKept(i)
    BY <1>1, <1>3, StoppedKept
  <2>2. \A b \in Attempts : ~(i = j /\ b = a) => exec'[i][b] = exec[i][b]
    BY <1>1, <1>3 DEF TypeOK
  <2> QED BY <1>3, <2>1, <2>2 DEF Live
<1>4. ASSUME NEW j \in Jobs, NEW a \in Attempts, HeartbeatHeld(j, a) PROVE Moves(i)
  <2>1. ExecKept(i) /\ \A b \in Attempts : Live(i, b)' => Live(i, b)
    <3>1. CASE UNCHANGED exec
      BY <3>1 DEF ExecKept, Live
    <3> QED BY <1>3, <1>4, <3>1 DEF HeartbeatHeld
  <2> QED BY <1>4, <2>1, QuietMoves DEF HeartbeatHeld
<1>5. ASSUME NEW j \in Jobs, NEW a \in Attempts, HeartbeatLost(j, a) PROVE Moves(i)
  BY <1>3, <1>5, QuietMoves DEF HeartbeatLost, clocks
<1>6. ASSUME NEW j \in Jobs, NEW a \in Attempts, NEW ok \in BOOLEAN, FinishRun(j, a, ok)
      PROVE  Moves(i)
  BY <1>3, <1>6, QuietMoves DEF FinishRun, clocks
<1>7. ASSUME NEW j \in Jobs, NEW a \in Attempts, NEW seen \in BOOLEAN,
             Posting(j, a), Posted(j, a, seen)
      PROVE  ExecKept(i) /\ \A b \in Attempts : Live(i, b)' => Live(i, b)
  <2>1. ExecKept(i)
    BY <1>1, <1>7, PostedKept
  <2>2. \A b \in Attempts : ~(i = j /\ b = a) => exec'[i][b] = exec[i][b]
    BY <1>1, <1>7 DEF Posted, TypeOK
  <2> QED BY <1>7, <2>1, <2>2 DEF Posting, Live
<1>8. ASSUME NEW j \in Jobs, NEW a \in Attempts, PostLost(j, a) PROVE Moves(i)
  BY <1>7, <1>8, QuietMoves DEF PostLost, clocks
<1>9. ASSUME NEW j \in Jobs, NEW a \in Attempts, NEW seen \in BOOLEAN,
             PostArrives(j, a, seen)
      PROVE  Moves(i)
  <2>1. ExecKept(i) /\ \A b \in Attempts : Live(i, b)' => Live(i, b)
    BY <1>7, <1>9 DEF PostArrives
  <2>2. CASE job'[i] = job[i] /\ landed'[i] = landed[i]
    BY <1>9, <2>1, <2>2, QuietMoves DEF PostArrives, clocks
  <2>3. CASE ~(job'[i] = job[i] /\ landed'[i] = landed[i])
    <3>1. /\ i = j /\ Outcome(j, a) \in {"recorded", "discarded_cancelled"}
          /\ job'[i] = ResultRow(i, a) /\ landed'[i] = a /\ a # 0
      BY <1>1, <1>9, <2>3 DEF PostArrives, TypeOK, Attempts
    <3>2. State(i) = "leased" /\ landed[i] = 0
      BY <1>1, <3>1 DEF Outcome, RowInv
    <3>3. State(i)' \in Terminal
      BY <1>1, <3>1 DEF ResultRow, Ended, Succeeded, Delivered, State, Terminal, RowType
    <3> QED BY <1>9, <2>1, <3>1, <3>2, <3>3 DEF PostArrives, clocks, Moves, ExecKept
  <2> QED BY <2>2, <2>3
<1>10. ASSUME NEW w \in Workers, WorkerCrash(w) PROVE Moves(i)
  <2>1. ExecKept(i)
    BY <1>1, <1>10, CrashKept
  <2>2. \A b \in Attempts : Live(i, b)' => Live(i, b)
    BY <1>1, <1>10 DEF WorkerCrash, Retired, Live, TypeOK, ExecType
  <2> QED BY <1>10, <2>1, <2>2, QuietMoves DEF WorkerCrash, clocks
<1> QED BY <1>2, <1>4, <1>5, <1>6, <1>8, <1>9, <1>10 DEF WorkerStep

LEMMA ReapMoves ==
  ASSUME IInv, NEW p \in Reapers, ReapStep(p), NEW i \in Jobs
  PROVE  Moves(i)
<1>1. TypeOK /\ RowInv(i) /\ job[i] \in RowType
  BY DEF IInv, TypeOK
<1>2. UNCHANGED <<landed, caller, exec, overdue>>
  BY DEF ReapStep, ReapCancelled, ReapRequeue, ReapLease, ReapDeadline,
         ReapLedger, ReapCrash, clocks
<1>3. ASSUME NEW S, NEW st \in {"cancelled", "expired"}, EndAll(S, st),
             i \in S => State(i) \in Active
      PROVE  State(i)' = State(i) \/ (State(i) \in Active /\ State(i)' = st)
  BY <1>1, <1>3 DEF EndAll, Ended, State, RowType
<1>4. \/ State(i)' = State(i)
      \/ State(i) \in Active /\ State(i)' \in {"queued", "cancelled", "expired"}
  <2>1. CASE ReapCancelled(p)
    BY <1>3, <2>1 DEF ReapCancelled, Active
  <2>2. CASE ReapLease(p)
    BY <1>3, <2>2 DEF ReapLease, DueLease, Active
  <2>3. CASE ReapDeadline(p)
    BY <1>3, <2>3 DEF ReapDeadline, DueDeadline, Active
  <2>4. CASE ReapRequeue(p)
    BY <1>1, <2>4 DEF ReapRequeue, Retryable, DueLease, State, Active, RowType
  <2>5. CASE ReapLedger(p) \/ ReapCrash(p)
    BY <2>5 DEF ReapLedger, ReapCrash, State
  <2> QED BY <2>1, <2>2, <2>3, <2>4, <2>5 DEF ReapStep
<1> QED BY <1>2, <1>4 DEF Moves, Live

LEMMA TimeMoves ==
  ASSUME IInv, TimeStep, NEW i \in Jobs
  PROVE  Moves(i)
<1>1. UNCHANGED <<job, caller, exec, landed>> /\ overdue \subseteq overdue'
  BY DEF TimeStep, LeaseLapses, DeadlinePasses, ContentTtlPasses, RowTtlPasses
<1> QED BY <1>1 DEF Moves, Live, State

LEMMA QueueMoves ==
  ASSUME IInv, [Next]_vars, NEW i \in Jobs
  PROVE  Moves(i)
<1>1. CASE UNCHANGED vars
  BY <1>1 DEF vars, Moves, Live, State
<1> QED BY <1>1, HubMoves, WorkerMoves, ReapMoves, TimeMoves DEF Next

-----------------------------------------------------------------------------
(***************************************************************************)
(* What a reaper pass remembers                                            *)
(***************************************************************************)

\* The rows a pass is going to ledger are ended and not by a result, whatever
\* happens between its statements and its ledger pass.
PassInv ==
  \A p \in Reapers, i \in Jobs :
    i \in pass[p].cancelled \cup pass[p].expired =>
      caller[i] = "inserted" /\ State(i) \in {"cancelled", "expired", "absent"}

\* A step changes what a pass remembers by a statement of that pass only.
LEMMA PassChanges ==
  ASSUME TypeOK, Next, NEW p \in Reapers, NEW i \in Jobs,
         i \in pass'[p].cancelled \cup pass'[p].expired
  PROVE  \/ i \in pass[p].cancelled \cup pass[p].expired
         \/ State(i) \in Active /\ State(i)' \in {"cancelled", "expired"}
<1>1. pass[p] \in PassType /\ job[i] \in RowType
  BY DEF TypeOK
<1>2. CASE /\ pass'[p].cancelled \subseteq pass[p].cancelled
           /\ pass'[p].expired \subseteq pass[p].expired
  BY <1>2
<1>3. ASSUME NEW j \in Jobs, Renew(j)
      PROVE  pass'[p].cancelled = pass[p].cancelled /\ pass'[p].expired = pass[p].expired
  BY <1>1, <1>3 DEF Renew, PassType
<1>4. ASSUME NEW q \in Reapers, q # p, ReapStep(q)
      PROVE  pass'[p].cancelled = pass[p].cancelled /\ pass'[p].expired = pass[p].expired
  <2>1. CASE ReapRequeue(q)
    BY <1>1, <1>4, <2>1 DEF ReapRequeue, PassType
  <2>2. CASE ~ReapRequeue(q)
    <3>1. pass'[p] = pass[p]
      BY <1>4, <2>2 DEF ReapStep, ReapCancelled, ReapLease, ReapDeadline, ReapLedger,
                        ReapCrash, TypeOK
    <3> QED BY <3>1
  <2> QED BY <2>1, <2>2
<1>5. ASSUME NEW S, NEW st \in {"cancelled", "expired"}, EndAll(S, st), i \in S
      PROVE  State(i)' = st
  BY <1>1, <1>5 DEF EndAll, Ended, State, RowType
<1>6. CASE ReapCancelled(p)
  <2> DEFINE due  == {j \in lapsed : State(j) = "leased"}
             dead == {j \in due : job[j].cancelReq}
  <2>1. EndAll(dead, "cancelled") /\ pass'[p].cancelled = dead /\ pass'[p].expired = {}
    BY <1>6 DEF ReapCancelled, TypeOK
  <2> QED BY <1>5, <2>1 DEF Active
<1>7. CASE ReapRequeue(p)
  <2>1. pass'[p].cancelled = pass[p].cancelled /\ pass'[p].expired = pass[p].expired
    BY <1>1, <1>7 DEF ReapRequeue, PassType
  <2> QED BY <2>1
<1>8. CASE ReapLease(p)
  <2>1. pass'[p] = [pass[p] EXCEPT !.pc = "deadline", !.expired = DueLease(p)]
    BY <1>8 DEF ReapLease, TypeOK
  <2>2. pass'[p].cancelled = pass[p].cancelled /\ pass'[p].expired = DueLease(p)
    BY <1>1, <2>1 DEF PassType
  <2> QED BY <1>5, <1>8, <2>2 DEF ReapLease, DueLease, Active
<1>9. CASE ReapDeadline(p)
  <2>1. /\ pass'[p].cancelled = pass[p].cancelled
        /\ pass'[p].expired = pass[p].expired \cup DueDeadline(p)
    BY <1>1, <1>9 DEF ReapDeadline, TypeOK, PassType
  <2> QED BY <1>5, <1>9, <2>1 DEF ReapDeadline, DueDeadline, Active
<1>10. CASE ReapLedger(p) \/ ReapCrash(p)
  BY <1>10 DEF ReapLedger, ReapCrash, IdlePass, TypeOK
<1>11. CASE UNCHANGED pass
  BY <1>2, <1>11
<1>12. CASE HubStep \/ TimeStep
  BY <1>11, <1>12 DEF HubStep, EnqueueCheck, EnqueueInsert, CancelQueued, CancelLeased,
       DeliverResult, SweepStale, TimeStep, LeaseLapses, DeadlinePasses, ContentTtlPasses,
       RowTtlPasses
<1>13. CASE WorkerStep
  <2>1. UNCHANGED pass \/ \E j \in Jobs : Renew(j)
    BY <1>13 DEF WorkerStep, Claim, HeartbeatHeld, HeartbeatLost, FinishRun, PostArrives,
         PostLost, WorkerCrash
  <2> QED BY <1>3, <1>11, <2>1
<1>14. ASSUME NEW q \in Reapers, ReapStep(q)
       PROVE  \/ i \in pass[p].cancelled \cup pass[p].expired
              \/ State(i) \in Active /\ State(i)' \in {"cancelled", "expired"}
  BY <1>4, <1>6, <1>7, <1>8, <1>9, <1>10, <1>14 DEF ReapStep
<1> QED BY <1>12, <1>13, <1>14 DEF Next

\* A row that a pass has ended stays so until it is deleted, and is not
\* inserted again.
LEMMA EndedStays ==
  ASSUME IInv, [Next]_vars, NEW i \in Jobs, caller[i] = "inserted",
         State(i) \in {"cancelled", "expired", "absent"}
  PROVE  caller'[i] = "inserted" /\ State(i)' \in {"cancelled", "expired", "absent"}
<1>1. Moves(i)
  BY QueueMoves
<1>2. caller'[i] \in {"idle", "checked", "refused", "inserted"}
  BY StepIInv DEF IInv, TypeOK
<1> QED BY <1>1, <1>2 DEF Moves, Active

LEMMA PassStep ==
  ASSUME IInv, PassInv, [Next]_vars
  PROVE  PassInv'
<1> SUFFICES ASSUME NEW p \in Reapers, NEW i \in Jobs,
                    i \in pass'[p].cancelled \cup pass'[p].expired
             PROVE  caller'[i] = "inserted" /\ State(i)' \in {"cancelled", "expired", "absent"}
  BY DEF PassInv
<1>1. CASE i \in pass[p].cancelled \cup pass[p].expired
  <2>1. caller[i] = "inserted" /\ State(i) \in {"cancelled", "expired", "absent"}
    BY <1>1 DEF PassInv
  <2> QED BY <2>1, EndedStays
<1>2. CASE State(i) \in Active /\ State(i)' \in {"cancelled", "expired"}
  <2>1. caller[i] = "inserted"
    BY <1>2 DEF IInv, RowInv, NoRow, State, Active
  <2> QED BY <1>2, <2>1, QueueMoves DEF Moves
<1>3. CASE UNCHANGED vars
  BY <1>1, <1>3 DEF vars
<1> QED BY <1>1, <1>2, <1>3, PassChanges DEF IInv

-----------------------------------------------------------------------------
(***************************************************************************)
(* The lane uses the queue by the queue's steps                            *)
(***************************************************************************)

LEMMA LaneStep ==
  ASSUME [DeepNext]_deepVars
  PROVE  [Next]_vars
<1>1. CASE UNCHANGED deepVars
  BY <1>1 DEF deepVars
<1>2. \A r \in Runs : r \in Jobs
  BY JobsAssumption DEF Runs, Jobs
<1>3. ASSUME NEW r \in Runs, StartStep(r) \/ CancelToolRun(r) \/ StandDown(r)
                             \/ StandDownContinues(r) \/ WindowPasses(r)
      PROVE  UNCHANGED vars \/ HubStep
  BY <1>2, <1>3
  DEF StartStep, StartBegins, StartExpires, StartCounts, StartCreates, StartChecks,
      StartInserts, StartThrows, StartWithdraws, StartAttaches, StartDies, CancelToolRun,
      StandDown, StandDownContinues, WindowPasses, HubStep
<1>4. ASSUME NEW r \in Runs, NEW a \in Attempts, NEW seen \in BOOLEAN, PostLands(r, a, seen)
      PROVE  WorkerStep
  BY <1>2, <1>4 DEF PostLands, WorkerStep
<1>5. ASSUME NEW p \in Reapers, ReapLands(p) \/ ReapDies(p) \/ ReapStatement(p)
      PROVE  ReapStep(p)
  BY <1>5 DEF ReapLands, ReapDies, ReapStatement, ReapStep
<1>6. DesktopStep => WorkerStep
  BY DEF DesktopStep, WorkerStep
<1>7. Ageing => TimeStep \/ HubStep
  BY DEF Ageing, TimeStep, HubStep
<1> QED BY <1>1, <1>3, <1>4, <1>5, <1>6, <1>7 DEF DeepNext, Next

\* Every behaviour of the deep lane is one of the queue, so what the queue
\* promises, and what is proved of it, holds of the deep lane.
THEOREM LaneUsesQueue == DeepSpec => Spec
<1>1. DeepInit => Init
  BY DEF DeepInit
<1>2. [DeepNext]_deepVars => [Next]_vars
  BY LaneStep
<1> QED BY <1>1, <1>2, PTL DEF DeepSpec, Spec

-----------------------------------------------------------------------------
(***************************************************************************)
(* Types                                                                   *)
(***************************************************************************)

Endings == {"succeeded", "failed", "cancelled"}
Writers == {"landed", "reaped", "user", "orphaned", "withdrawn"}

\* finishToolRun keeps the shape of a row, and does nothing to an ended one.
LEMMA FinishedType ==
  ASSUME NEW row \in RunType, NEW status \in Endings, NEW report \in 0 .. WorkAttempts,
         NEW why \in Writers
  PROVE  /\ Finished(row, status, report, why) \in RunType
         /\ Finished(row, status, report, why).attached = row.attached
         /\ row.status # "queued" => Finished(row, status, report, why) = row
         /\ row.status = "queued" =>
              /\ Finished(row, status, report, why).status = status
              /\ Finished(row, status, report, why).report = report
              /\ Finished(row, status, report, why).why = why
BY DEF Finished, RunType, Endings, Writers

LEMMA DeepTypeInit == DeepInit => DeepTypeOK
<1>1. NoRun \in RunType
  BY BoundsAssumption DEF NoRun, RunType
<1> QED BY <1>1, TypeInit DEF DeepInit, DeepTypeOK

LEMMA RunTypes ==
  ASSUME DeepTypeOK, NEW r \in Runs
  PROVE  run[r] \in RunType /\ r \in Jobs /\ 0 \in 0 .. WorkAttempts
BY JobsAssumption, BoundsAssumption DEF DeepTypeOK, Runs, Jobs

Places == {"idle", "expire", "count", "create", "enqueue", "withdraw", "attach", "done"}

LEMMA DeepTypeStep ==
  ASSUME DeepTypeOK, TypeOK', [DeepNext]_deepVars
  PROVE  DeepTypeOK'
<1>f. 0 \in 0 .. WorkAttempts
  BY BoundsAssumption
<1>0. ASSUME NEW run1 \in [Runs -> RunType], run' = run1, start' \in [Runs -> Places],
             wanted' \in SUBSET Runs, old' \in SUBSET Runs
      PROVE  DeepTypeOK'
  BY <1>0 DEF DeepTypeOK, Places
<1>1. ASSUME NEW r \in Runs, NEW pc \in Places, Goto(r, pc) PROVE start' \in [Runs -> Places]
  BY <1>1 DEF Goto, DeepTypeOK, Places
<1>2. ASSUME NEW r \in Runs, NEW status \in Endings, NEW why \in Writers,
             FinishRunRow(r, status, 0, why)
      PROVE  run' \in [Runs -> RunType]
  BY <1>2, <1>f, FinishedType DEF FinishRunRow, DeepTypeOK
<1>3. ASSUME UNCHANGED runVars PROVE DeepTypeOK'
  BY <1>3 DEF runVars, DeepTypeOK
<1>4. ASSUME NEW r \in Runs, StartStep(r) PROVE DeepTypeOK'
  <2>1. start' \in [Runs -> Places] /\ UNCHANGED <<wanted, old>>
    <3>1. \E pc \in Places : Goto(r, pc)
      BY <1>4
      DEF StartStep, StartBegins, StartExpires, StartCounts, StartCreates, StartChecks,
          StartInserts, StartThrows, StartWithdraws, StartAttaches, StartDies, Places
    <3>2. UNCHANGED <<wanted, old>>
      BY <1>4
      DEF StartStep, StartBegins, StartExpires, StartCounts, StartCreates, StartChecks,
          StartInserts, StartThrows, StartWithdraws, StartAttaches, StartDies
    <3> QED BY <1>1, <3>1, <3>2
  <2>2. run' \in [Runs -> RunType]
    <3>1. CASE StartExpires(r)
      <4>1. \A q \in Runs : Finished(run[q], "failed", 0, "orphaned") \in RunType
        BY <1>f, FinishedType DEF DeepTypeOK, Endings, Writers
      <4> QED BY <3>1, <4>1 DEF StartExpires, DeepTypeOK
    <3>2. CASE StartCreates(r)
      BY <3>2 DEF StartCreates, DeepTypeOK, RunType
    <3>3. CASE StartWithdraws(r)
      BY <1>2, <3>3 DEF StartWithdraws, DeepTypeOK, Endings, Writers
    <3>4. CASE StartAttaches(r)
      BY <3>4 DEF StartAttaches, DeepTypeOK, RunType
    <3>5. CASE UNCHANGED run
      BY <3>5 DEF DeepTypeOK
    <3> QED BY <1>4, <3>1, <3>2, <3>3, <3>4, <3>5
            DEF StartStep, StartBegins, StartCounts, StartChecks, StartInserts,
                StartThrows, StartDies
  <2> QED BY <1>0, <2>1, <2>2 DEF DeepTypeOK
<1>5. ASSUME NEW r \in Runs, CancelToolRun(r) PROVE DeepTypeOK'
  <2>1. run' \in [Runs -> RunType]
    BY <1>2, <1>5 DEF CancelToolRun, Endings, Writers
  <2> QED BY <1>0, <1>5, <2>1 DEF CancelToolRun, DeepTypeOK, Places
<1>6. ASSUME NEW r \in Runs, StandDown(r) \/ WindowPasses(r) PROVE DeepTypeOK'
  BY <1>6 DEF StandDown, WindowPasses, DeepTypeOK
<1>7. ASSUME NEW r \in Runs, NEW a \in Attempts, NEW seen \in BOOLEAN, PostLands(r, a, seen)
      PROVE  DeepTypeOK'
  <2>1. a \in 0 .. WorkAttempts
    BY BoundsAssumption DEF Attempts
  <2>2. Landed(r, a) \in RunType
    <3>1. \A st \in Endings, report \in 0 .. WorkAttempts, why \in Writers :
            Finished(run[r], st, report, why) \in RunType
      BY FinishedType DEF DeepTypeOK
    <3> QED BY <1>f, <2>1, <3>1 DEF Landed, Endings, Writers
  <2>3. run' \in [Runs -> RunType]
    BY <1>7, <2>2 DEF PostLands, DeepTypeOK
  <2> QED BY <1>0, <1>7, <2>3 DEF PostLands, DeepTypeOK, Places
<1>8. ASSUME NEW p \in Reapers, ReapLands(p) PROVE DeepTypeOK'
  <2>1. \A q \in Runs, st \in Endings : Finished(run[q], st, 0, "reaped") \in RunType
    <3>1. "reaped" \in Writers
      BY DEF Writers
    <3> QED BY <1>f, <3>1, FinishedType DEF DeepTypeOK
  <2>2. run' \in [Runs -> RunType]
    <3>1. \A q \in Runs :
            IF q \in pass[p].cancelled THEN Finished(run[q], "cancelled", 0, "reaped") \in RunType
            ELSE Finished(run[q], "failed", 0, "reaped") \in RunType
      BY <2>1 DEF Endings
    <3>2. \A q \in Runs : run[q] \in RunType
      BY DEF DeepTypeOK
    <3>3. PICK S \in SUBSET ((pass[p].cancelled \cup pass[p].expired) \cap Runs) :
            run' = [q \in Runs |->
              IF q \notin S THEN run[q]
              ELSE Finished(run[q], IF q \in pass[p].cancelled THEN "cancelled" ELSE "failed",
                            0, "reaped")]
      BY <1>8 DEF ReapLands
    <3> QED BY <3>1, <3>2, <3>3
  <2> QED BY <1>0, <1>8, <2>2 DEF ReapLands, DeepTypeOK, Places
<1>9. CASE UNCHANGED runVars
  BY <1>3, <1>9
<1> QED
  BY <1>4, <1>5, <1>6, <1>7, <1>8, <1>9
  DEF DeepNext, StandDownContinues, ReapDies, ReapStatement, DesktopStep, Ageing, deepVars,
      runVars

-----------------------------------------------------------------------------
(***************************************************************************)
(* A run and its job                                                       *)
(***************************************************************************)

Early == {"idle", "expire", "count", "create"}
Gone  == {"cancelled", "expired", "absent"}

\* Before its row there is no job, and an ending names its writer.
Created(r) ==
  /\ start[r] \in Early => run[r].status = "none"
  /\ start[r] \in {"enqueue", "withdraw", "attach"} => run[r].status # "none"
  /\ run[r].status = "none" => caller[r] = "idle"
  /\ run[r].why = "none" <=> run[r].status \in {"none", "queued"}

\* What each writer of an ending knew of the job, and what stays true of it.
Writer(r) ==
  /\ landed[r] # 0 => ~Queued(r)
  /\ run[r].status = "succeeded" =>
       /\ landed[r] # 0 /\ run[r].report = landed[r]
       /\ exec[r][landed[r]].phase # "running" /\ exec[r][landed[r]].ok
  /\ run[r].why = "landed" => landed[r] # 0
  /\ run[r].why = "reaped" => caller[r] = "inserted" /\ State(r) \in Gone
  /\ run[r].why = "orphaned" => r \in old

\* No result can reach a run older than the window.
Dead(r) ==
  /\ start[r] = "done"
  /\ State(r) \in Active => r \in overdue
  /\ WindowOutlastsJobs => \A a \in Attempts : ~Live(r, a)

RunInv(r) ==
  /\ Created(r)
  /\ Writer(r)
  /\ r \in old => Dead(r)
  /\ r \in aged => start[r] = "done" /\ (Queued(r) => r \in old)
  /\ WindowOutlastsJobs /\ State(r) = "succeeded" =>
       run[r].status = "succeeded" \/ run[r].why \in {"user", "withdrawn"}

DInv ==
  /\ IInv
  /\ DeepTypeOK
  /\ PassInv
  /\ \A r \in Runs : RunInv(r)

\* What a step that lands no result may do to a run: nothing, or end it for a
\* reason that Writer admits.
RowKept(r) ==
  /\ run'[r].status = run[r].status
  /\ run'[r].report = run[r].report
  /\ run'[r].why = run[r].why

RowEnds(r) ==
  /\ Queued(r)
  /\ run'[r].status \in {"failed", "cancelled"}
  /\ \/ run'[r].why \in {"user", "withdrawn"}
     \/ run'[r].why = "orphaned" /\ r \in old
     \/ run'[r].why = "reaped" /\ caller[r] = "inserted" /\ State(r) \in Gone

\* And to its startDeepRun call, which alone inserts the job.
CallKept(r) ==
  /\ start[r] = "done" => start'[r] = "done"
  /\ start'[r] \in Early => start[r] \in Early
  /\ start'[r] \in {"enqueue", "withdraw", "attach"} =>
       start[r] \in {"enqueue", "withdraw", "attach"}
  /\ caller'[r] = caller[r] \/ start[r] = "enqueue"

ClocksKept(r) ==
  /\ old \subseteq old'
  /\ r \in old' => r \in old \/ Dead(r)
  /\ r \in aged' => r \in aged \/ (start[r] = "done" /\ (Queued(r) => r \in old))

LEMMA NotYetLanded ==
  ASSUME DInv, NEW r \in Runs, Queued(r)
  PROVE  landed[r] = 0 /\ State(r) # "succeeded"
<1>1. RunInv(r) /\ RowInv(r)
  BY JobsAssumption DEF DInv, IInv, Runs, Jobs
<1> QED BY <1>1 DEF RunInv, Writer, RowInv

LEMMA KeptRun ==
  ASSUME DInv, [Next]_vars, NEW r \in Runs, landed'[r] = landed[r],
         RowKept(r) \/ RowEnds(r), CallKept(r), ClocksKept(r)
  PROVE  RunInv(r)'
<1>1. RunInv(r) /\ r \in Jobs /\ RowInv(r) /\ Moves(r) /\ run[r] \in RunType
  BY QueueMoves, RunTypes DEF DInv, IInv
<1>2. landed[r] # 0 => landed[r] \in Attempts /\ State(r) # "queued"
  BY <1>1, BoundsAssumption DEF DInv, IInv, TypeOK, Attempts, RowInv
<1>3. caller[r] = "inserted" /\ State(r) \in Gone =>
        caller'[r] = "inserted" /\ State(r)' \in Gone
  BY <1>1, EndedStays DEF DInv, Gone
<1>4. RowEnds(r) => landed[r] = 0 /\ State(r) # "succeeded"
  BY NotYetLanded DEF RowEnds
<1>5. State(r)' = "succeeded" => State(r) = "succeeded"
  BY <1>1 DEF Moves
<1>6. Created(r)'
  BY <1>1 DEF RunInv, Created, RowKept, RowEnds, CallKept, Queued, Early
<1>7. Writer(r)'
  <2>1. CASE RowKept(r)
    BY <1>1, <1>2, <1>3, <2>1 DEF RunInv, Writer, RowKept, ClocksKept, Queued, Moves
  <2>2. CASE RowEnds(r)
    BY <1>3, <1>4, <2>2 DEF Writer, RowEnds, ClocksKept, Queued
  <2> QED BY <2>1, <2>2
<1>8. ASSUME r \in old' PROVE Dead(r)'
  <2>1. Dead(r)
    BY <1>1, <1>8 DEF ClocksKept, RunInv
  <2>2. start'[r] = "done" /\ caller'[r] = caller[r]
    BY <2>1 DEF Dead, CallKept
  <2>3. State(r)' \in Active => r \in overdue'
    BY <1>1, <2>1, <2>2 DEF Moves, Dead, Active, Terminal
  <2>4. ASSUME WindowOutlastsJobs, NEW a \in Attempts PROVE ~Live(r, a)'
    BY <1>1, <2>1, <2>4 DEF Moves, Dead, Active
  <2> QED BY <2>2, <2>3, <2>4 DEF Dead
<1>9. r \in aged' => start'[r] = "done" /\ (Queued(r)' => r \in old')
  BY <1>1 DEF RunInv, ClocksKept, CallKept, RowKept, RowEnds, Queued
<1>10. WindowOutlastsJobs /\ State(r)' = "succeeded" =>
         run'[r].status = "succeeded" \/ run'[r].why \in {"user", "withdrawn"}
  BY <1>1, <1>4, <1>5 DEF RunInv, RowKept
<1> QED BY <1>6, <1>7, <1>8, <1>9, <1>10 DEF RunInv

-----------------------------------------------------------------------------
(***************************************************************************)
(* Every step                                                              *)
(***************************************************************************)

\* Steps that touch neither runs nor calls.
LEMMA QuietStep ==
  ASSUME DInv, [Next]_vars, UNCHANGED <<runVars, landed, caller>>, NEW r \in Runs,
         r \in aged' => r \in aged \/ Idle(r)
  PROVE  RunInv(r)'
BY KeptRun DEF runVars, RowKept, CallKept, ClocksKept, Idle

LEMMA RestStep ==
  ASSUME DInv, NEW r \in Runs,
         \/ \E q \in Runs : StandDown(q) \/ StandDownContinues(q)
         \/ \E p \in Reapers : ReapDies(p) \/ ReapStatement(p)
         \/ DesktopStep
         \/ Ageing
         \/ UNCHANGED deepVars
  PROVE  RunInv(r)'
<1>0. [Next]_vars
  BY LaneStep DEF DeepNext
<1>1. ASSUME NEW q \in Runs, StandDown(q) PROVE RunInv(r)'
  <2>1. UNCHANGED <<run, start, old, landed, caller, aged>>
    BY <1>1 DEF StandDown, CancelQueued, vars, clocks
  <2> QED BY <1>0, <2>1, KeptRun DEF RowKept, CallKept, ClocksKept
<1>2. ASSUME NEW q \in Runs, StandDownContinues(q) PROVE RunInv(r)'
  BY <1>0, <1>2, QuietStep DEF StandDownContinues, CancelLeased, clocks
<1>3. ASSUME NEW p \in Reapers, ReapDies(p) \/ ReapStatement(p) PROVE RunInv(r)'
  BY <1>0, <1>3, QuietStep
  DEF ReapDies, ReapCrash, ReapStatement, ReapCancelled, ReapRequeue, ReapLease, ReapDeadline,
      clocks
<1>4. CASE DesktopStep
  <2>1. UNCHANGED <<runVars, landed, caller, aged>>
    BY <1>4
    DEF DesktopStep, Claim, HeartbeatHeld, HeartbeatLost, FinishRun, PostLost, WorkerCrash,
        clocks
  <2> QED BY <1>0, <2>1, QuietStep
<1>5. CASE Ageing
  <2>1. UNCHANGED <<runVars, landed, caller>> /\ (r \in aged' => r \in aged \/ Idle(r))
    BY <1>5 DEF Ageing, LeaseLapses, DeadlinePasses, ContentTtlPasses, RowTtlPasses, SweepStale
  <2> QED BY <1>0, <2>1, QuietStep
<1>6. CASE UNCHANGED deepVars
  BY <1>0, <1>6, QuietStep DEF deepVars, vars
<1> QED BY <1>1, <1>2, <1>3, <1>4, <1>5, <1>6

\* What an ending by finishToolRun does to the runs it is not about.
LEMMA FinishedRow ==
  ASSUME DeepTypeOK, NEW r \in Runs, NEW status \in {"failed", "cancelled"},
         NEW why \in {"user", "withdrawn", "orphaned", "reaped"},
         why = "orphaned" => r \in old,
         why = "reaped" => caller[r] = "inserted" /\ State(r) \in Gone,
         run'[r] = Finished(run[r], status, 0, why)
  PROVE  RowKept(r) \/ RowEnds(r)
<1>1. /\ run[r] \in RunType /\ 0 \in 0 .. WorkAttempts
      /\ status \in Endings /\ why \in Writers
  BY RunTypes DEF Endings, Writers
<1>2. CASE Queued(r)
  <2>1. run'[r].status = status /\ run'[r].why = why
    BY <1>1, <1>2, FinishedType DEF Queued
  <2> QED BY <1>2, <2>1 DEF RowEnds
<1>3. CASE ~Queued(r)
  <2>1. run'[r] = run[r]
    BY <1>1, <1>3, FinishedType DEF Queued
  <2> QED BY <2>1 DEF RowKept
<1> QED BY <1>2, <1>3

LEMMA StartRun ==
  ASSUME DInv, NEW q \in Runs, StartStep(q), NEW r \in Runs
  PROVE  RunInv(r)'
<1>0. [Next]_vars
  BY LaneStep DEF DeepNext
<1>1. DeepTypeOK /\ RunInv(r) /\ TypeOK
  BY DEF DInv, IInv
<1>2. UNCHANGED <<landed, aged, old>>
  BY DEF StartStep, StartBegins, StartExpires, StartCounts, StartCreates, StartChecks,
         StartInserts, StartThrows, StartWithdraws, StartAttaches, StartDies, vars,
         EnqueueCheck, EnqueueInsert, clocks
<1>3. ClocksKept(r)
  BY <1>2 DEF ClocksKept
<1>4. ASSUME NEW pc \in Places, Goto(q, pc)
      PROVE  start'[r] = IF r = q THEN pc ELSE start[r]
  BY <1>1, <1>4 DEF Goto, DeepTypeOK
<1>5. CASE StartBegins(q)
  <2>1. RowKept(r) /\ caller' = caller
    BY <1>5 DEF StartBegins, RowKept, vars
  <2>2. CallKept(r)
    BY <1>4, <1>5, <2>1 DEF StartBegins, CallKept, Early, Places
  <2> QED BY <1>0, <1>2, <1>3, <2>1, <2>2, KeptRun
<1>6. CASE StartExpires(q)
  <2>1. RowKept(r) \/ RowEnds(r)
    <3>1. CASE r \in old
      BY <1>1, <1>6, <3>1, FinishedRow DEF StartExpires
    <3>2. CASE r \notin old
      BY <1>6, <3>2 DEF StartExpires, RowKept
    <3> QED BY <3>1, <3>2
  <2>2. CallKept(r)
    BY <1>4, <1>6 DEF StartExpires, CallKept, Early, Places, vars
  <2> QED BY <1>0, <1>2, <1>3, <2>1, <2>2, KeptRun
<1>7. CASE StartCounts(q) \/ StartThrows(q) \/ StartDies(q)
  <2>1. RowKept(r) /\ caller' = caller
    BY <1>7 DEF StartCounts, StartThrows, StartDies, RowKept, vars
  <2>2. CallKept(r)
    BY <1>4, <1>7, <2>1 DEF StartCounts, StartThrows, StartDies, CallKept, Early, Places
  <2> QED BY <1>0, <1>2, <1>3, <2>1, <2>2, KeptRun
<1>8. CASE StartChecks(q)
  <2>1. RowKept(r)
    BY <1>8 DEF StartChecks, RowKept
  <2>2. caller'[r] = caller[r] \/ r = q
    BY <1>1, <1>8 DEF StartChecks, EnqueueCheck, TypeOK
  <2>3. CallKept(r)
    BY <1>4, <1>8, <2>2 DEF StartChecks, CallKept, Early, Places
  <2> QED BY <1>0, <1>2, <1>3, <2>1, <2>3, KeptRun
<1>9. CASE StartInserts(q)
  <2>1. RowKept(r)
    BY <1>9 DEF StartInserts, RowKept
  <2>2. caller'[r] = caller[r] \/ r = q
    BY <1>1, <1>9 DEF StartInserts, EnqueueInsert, TypeOK
  <2>3. CallKept(r)
    BY <1>4, <1>9, <2>2 DEF StartInserts, CallKept, Early, Places
  <2> QED BY <1>0, <1>2, <1>3, <2>1, <2>3, KeptRun
<1>10. CASE StartWithdraws(q)
  <2>1. RowKept(r) \/ RowEnds(r)
    <3>1. CASE r = q /\ FinishRunRow(q, "failed", 0, "withdrawn")
      BY <1>1, <3>1, FinishedRow DEF FinishRunRow, DeepTypeOK
    <3>2. CASE ~(r = q /\ FinishRunRow(q, "failed", 0, "withdrawn"))
      BY <1>1, <1>10, <3>2 DEF StartWithdraws, FinishRunRow, RowKept, DeepTypeOK
    <3> QED BY <3>1, <3>2
  <2>2. CallKept(r)
    BY <1>4, <1>10 DEF StartWithdraws, CallKept, Early, Places, vars
  <2> QED BY <1>0, <1>2, <1>3, <2>1, <2>2, KeptRun
<1>11. CASE StartAttaches(q)
  <2>1. RowKept(r)
    BY <1>1, <1>11 DEF StartAttaches, RowKept, DeepTypeOK, RunType
  <2>2. CallKept(r)
    BY <1>4, <1>11 DEF StartAttaches, CallKept, Early, Places, vars
  <2> QED BY <1>0, <1>2, <1>3, <2>1, <2>2, KeptRun
<1>12. CASE StartCreates(q)
  <2>1. CASE \E x \in Runs : Queued(x)
    <3>1. RowKept(r) /\ CallKept(r)
      BY <1>4, <1>12, <2>1 DEF StartCreates, RowKept, CallKept, Early, Places, vars
    <3> QED BY <1>0, <1>2, <1>3, <3>1, KeptRun
  <2>2. CASE r # q /\ ~\E x \in Runs : Queued(x)
    <3>1. RowKept(r) /\ CallKept(r)
      BY <1>1, <1>4, <1>12, <2>2
      DEF StartCreates, RowKept, CallKept, Early, Places, vars, DeepTypeOK
    <3> QED BY <1>0, <1>2, <1>3, <3>1, KeptRun
  <2>3. CASE r = q /\ ~\E x \in Runs : Queued(x)
    <3>1. start[r] = "create" /\ run[r].status = "none" /\ caller[r] = "idle"
      BY <1>1, <1>12, <2>3 DEF StartCreates, RunInv, Created, Early
    <3>2. landed[r] = 0 /\ State(r) = "absent" /\ r \notin old /\ r \notin aged
      BY <1>1, <3>1, RunTypes DEF DInv, IInv, RowInv, RunInv, Dead, State, NoRow
    <3>3. run'[r].status = "queued" /\ run'[r].why = run[r].why /\ start'[r] = "enqueue"
      BY <1>1, <1>4, <1>12, <2>3 DEF StartCreates, DeepTypeOK, RunType, Places
    <3>4. run'[r].why = "none"
      BY <1>1, <3>1, <3>3 DEF RunInv, Created
    <3>5. State(r)' = "absent" /\ landed'[r] = 0 /\ r \notin old' /\ r \notin aged'
      BY <1>2, <1>12, <3>2 DEF StartCreates, vars, State
    <3> QED BY <3>3, <3>4, <3>5 DEF RunInv, Created, Writer, Early, Queued
  <2> QED BY <2>1, <2>2, <2>3
<1> QED BY <1>5, <1>6, <1>7, <1>8, <1>9, <1>10, <1>11, <1>12 DEF StartStep

LEMMA CancelRun ==
  ASSUME DInv, NEW q \in Runs, CancelToolRun(q), NEW r \in Runs
  PROVE  RunInv(r)'
<1>0. [Next]_vars
  BY LaneStep DEF DeepNext
<1>1. DeepTypeOK
  BY DEF DInv
<1>2. RowKept(r) \/ RowEnds(r)
  <2>1. CASE r = q
    BY <1>1, <2>1, FinishedRow DEF CancelToolRun, FinishRunRow, DeepTypeOK
  <2>2. CASE r # q
    BY <1>1, <2>2 DEF CancelToolRun, FinishRunRow, RowKept, DeepTypeOK
  <2> QED BY <2>1, <2>2
<1>3. CallKept(r) /\ ClocksKept(r) /\ landed' = landed
  BY DEF CancelToolRun, CallKept, ClocksKept, vars
<1> QED BY <1>0, <1>2, <1>3, KeptRun

LEMMA WindowRun ==
  ASSUME DInv, NEW q \in Runs, WindowPasses(q), NEW r \in Runs
  PROVE  RunInv(r)'
<1>0. [Next]_vars
  BY LaneStep DEF DeepNext
<1>1. RowKept(r) /\ CallKept(r) /\ landed' = landed
  BY DEF WindowPasses, RowKept, CallKept, vars
<1>2. ClocksKept(r)
  BY DEF WindowPasses, ClocksKept, Dead, JobIsDead, vars
<1> QED BY <1>0, <1>1, <1>2, KeptRun

LEMMA ReapedRun ==
  ASSUME DInv, NEW p \in Reapers, ReapLands(p), NEW r \in Runs
  PROVE  RunInv(r)'
<1>0. [Next]_vars
  BY LaneStep DEF DeepNext
<1>1. DeepTypeOK /\ r \in Jobs
  BY RunTypes DEF DInv
<1>2. PICK S \in SUBSET ((pass[p].cancelled \cup pass[p].expired) \cap Runs) :
        run' = [x \in Runs |->
          IF x \notin S THEN run[x]
          ELSE Finished(run[x], IF x \in pass[p].cancelled THEN "cancelled" ELSE "failed",
                        0, "reaped")]
  BY DEF ReapLands
<1>3. RowKept(r) \/ RowEnds(r)
  <2>1. CASE r \in S
    <3>1. caller[r] = "inserted" /\ State(r) \in Gone
      BY <1>1, <2>1 DEF DInv, PassInv, Gone
    <3>2. PICK st \in {"failed", "cancelled"} : run'[r] = Finished(run[r], st, 0, "reaped")
      BY <1>2, <2>1
    <3> QED BY <1>1, <3>1, <3>2, FinishedRow
  <2>2. CASE r \notin S
    BY <1>2, <2>2 DEF RowKept
  <2> QED BY <2>1, <2>2
<1>4. CallKept(r) /\ ClocksKept(r) /\ landed' = landed
  BY DEF ReapLands, ReapLedger, CallKept, ClocksKept, clocks
<1> QED BY <1>0, <1>3, <1>4, KeptRun

\* A landing finds no other writer's ending but those the user or startDeepRun
\* asked for.
LEMMA LandedRun ==
  ASSUME DInv, NEW q \in Runs, NEW a \in Attempts, NEW seen \in BOOLEAN,
         PostLands(q, a, seen), NEW r \in Runs
  PROVE  RunInv(r)'
<1>0. [Next]_vars /\ IInv'
  <2>1. [Next]_vars
    BY LaneStep DEF DeepNext
  <2> QED BY <2>1, StepIInv DEF DInv
<1>1. /\ DeepTypeOK /\ TypeOK /\ RunInv(r) /\ RowInv(r) /\ run[r] \in RunType /\ r \in Jobs
      /\ 0 \in 0 .. WorkAttempts
  BY RunTypes DEF DInv, IInv
<1>2. UNCHANGED <<start, wanted, old, caller, aged, overdue>>
  BY DEF PostLands, PostArrives, clocks
<1>3. CASE r # q \/ Outcome(q, a) \notin {"recorded", "discarded_cancelled"}
  <2>1. RowKept(r) /\ landed'[r] = landed[r]
    BY <1>1, <1>3 DEF PostLands, PostArrives, RowKept, DeepTypeOK, TypeOK
  <2>2. CallKept(r) /\ ClocksKept(r)
    BY <1>2 DEF CallKept, ClocksKept
  <2> QED BY <1>0, <2>1, <2>2, KeptRun
<1>4. CASE r = q /\ Outcome(q, a) \in {"recorded", "discarded_cancelled"}
  <2>1. /\ State(r) = "leased" /\ landed[r] = 0 /\ caller[r] = "inserted"
        /\ Live(r, a) /\ exec[r][a].phase = "posting"
    BY <1>1, <1>4 DEF Outcome, RowInv, NoRow, State, PostLands, PostArrives, Posting, Live
  <2>2. /\ landed'[r] = a /\ a # 0 /\ a \in 0 .. WorkAttempts
        /\ run'[r] = Landed(r, a) /\ job'[r] = ResultRow(r, a)
    BY <1>1, <1>4, BoundsAssumption DEF PostLands, PostArrives, DeepTypeOK, TypeOK, Attempts
  <2>3. exec'[r][a].phase # "running" /\ exec'[r][a].ok = exec[r][a].ok
    BY <1>0, <1>1, <2>1, QueueMoves DEF Moves, DInv
  <2>4. State(r)' \in Terminal \ {"expired"}
    BY <1>1, <2>2 DEF ResultRow, Ended, Succeeded, Delivered, State, RowType, Terminal
  <2>5. State(r)' = "succeeded" => exec[r][a].ok /\ Outcome(r, a) = "recorded"
    BY <1>1, <1>4, <2>2 DEF ResultRow, Ended, State, RowType
  <2>6. run[r].status \notin {"none", "succeeded"} /\ run[r].why \notin {"landed", "reaped"}
    BY <1>1, <2>1 DEF RunInv, Created, Writer, Gone
  <2>7. WindowOutlastsJobs => r \notin old
    BY <1>1, <2>1 DEF RunInv, Dead
  <2>8. r \in old => Dead(r)'
    BY <1>0, <1>1, <1>2, <2>1, <2>4, <2>7 DEF RunInv, Dead, Active, Terminal
  <2>9. CASE Queued(r)
    <3>1. PICK st \in Endings, report \in {0, a} :
            /\ run'[r] = Finished(run[r], st, report, "landed")
            /\ st = "succeeded" => report = a /\ exec[r][a].ok
            /\ exec[r][a].ok /\ Outcome(r, a) = "recorded" => st = "succeeded"
      <4>1. CASE Outcome(r, a) = "discarded_cancelled"
        BY <2>2, <4>1 DEF Landed, Endings
      <4>2. CASE Outcome(r, a) # "discarded_cancelled" /\ exec[r][a].ok
        BY <2>2, <4>2 DEF Landed, Endings
      <4>3. CASE Outcome(r, a) # "discarded_cancelled" /\ ~exec[r][a].ok
        BY <2>2, <4>3 DEF Landed, Endings
      <4> QED BY <4>1, <4>2, <4>3
    <3>2. run'[r].status = st /\ run'[r].report = report /\ run'[r].why = "landed"
      <4>1. "landed" \in Writers /\ report \in 0 .. WorkAttempts
        BY <1>1, <2>2 DEF Writers
      <4> QED BY <1>1, <2>9, <3>1, <4>1, FinishedType DEF Queued
    <3>3. Created(r)'
      BY <1>1, <1>2, <2>1, <2>6, <3>2 DEF RunInv, Created, Endings, Early
    <3>4. Writer(r)'
      BY <2>2, <2>3, <3>1, <3>2 DEF Writer, Endings, Queued
    <3>5. State(r)' = "succeeded" => run'[r].status = "succeeded"
      BY <2>5, <3>1, <3>2
    <3>6. r \in aged' => start'[r] = "done" /\ (Queued(r)' => r \in old')
      BY <1>1, <1>2, <3>2 DEF RunInv, Endings, Queued
    <3> QED BY <1>2, <2>8, <3>3, <3>4, <3>5, <3>6 DEF RunInv
  <2>10. CASE ~Queued(r)
    <3>1. run'[r] = run[r]
      <4>1. \A st, report, why : Finished(run[r], st, report, why) = run[r]
        BY <2>10 DEF Finished, Queued
      <4> QED BY <2>2, <4>1 DEF Landed
    <3>2. run[r].why \in {"none", "user", "orphaned", "withdrawn"} /\ run[r].why # "none"
      BY <1>1, <2>6, <2>10 DEF RunInv, Created, Queued, RunType
    <3> QED
      BY <1>1, <1>2, <2>2, <2>6, <2>7, <2>8, <2>10, <3>1, <3>2
      DEF RunInv, Created, Writer, Queued
  <2> QED BY <2>9, <2>10
<1> QED BY <1>3, <1>4

LEMMA DeepInitInv == DeepInit => DInv
<1> SUFFICES ASSUME DeepInit PROVE DInv
  OBVIOUS
<1>1. IInv /\ DeepTypeOK
  BY InitIInv, DeepTypeInit DEF DeepInit
<1>2. PassInv
  BY DEF DeepInit, Init, PassInv, IdlePass
<1>3. ASSUME NEW r \in Runs PROVE RunInv(r)
  <2>1. r \in Jobs
    BY JobsAssumption DEF Runs, Jobs
  <2>2. /\ run[r] = NoRun /\ start[r] = "idle" /\ r \notin old
        /\ caller[r] = "idle" /\ landed[r] = 0 /\ r \notin aged /\ State(r) = "absent"
    BY <2>1 DEF DeepInit, Init, State, NoRow
  <2> QED BY <2>2 DEF RunInv, Created, Writer, NoRun, Early, Queued
<1> QED BY <1>1, <1>2, <1>3 DEF DInv

LEMMA DeepStepInv ==
  ASSUME DInv, [DeepNext]_deepVars
  PROVE  DInv'
<1>1. [Next]_vars
  BY LaneStep
<1>2. IInv' /\ PassInv'
  BY <1>1, StepIInv, PassStep DEF DInv
<1>3. DeepTypeOK'
  BY <1>2, DeepTypeStep DEF DInv, IInv
<1>4. ASSUME NEW r \in Runs PROVE RunInv(r)'
  <2>1. CASE UNCHANGED deepVars
    BY <2>1, RestStep
  <2>2. CASE DeepNext
    BY <2>2, RestStep, StartRun, CancelRun, WindowRun, ReapedRun, LandedRun DEF DeepNext
  <2> QED BY <2>1, <2>2
<1> QED BY <1>2, <1>3, <1>4 DEF DInv

\* The inductive invariant holds of every behaviour of the deep lane.
THEOREM DeepLaneInvariant == DeepSpec => []DInv
<1>1. DeepInit => DInv
  BY DeepInitInv
<1>2. DInv /\ [DeepNext]_deepVars => DInv'
  BY DeepStepInv
<1> QED BY <1>1, <1>2, PTL DEF DeepSpec

\* The type invariant of the lane and of the queue below it.
THEOREM DeepTypeCorrect == DeepSpec => []DeepTypeOK
<1>1. DInv => DeepTypeOK
  BY DEF DInv
<1> QED BY <1>1, DeepLaneInvariant, PTL

\* The landing in the postResult transaction: a job ended by a POST has no run
\* that is still queued.
THEOREM LandingsAreAtomic == DeepSpec => []LandingIsAtomic
<1>1. DInv => LandingIsAtomic
  BY DEF DInv, RunInv, Writer, LandingIsAtomic
<1> QED BY <1>1, DeepLaneInvariant, PTL

\* With a window that outlasts every job (the default deadlines), the text of a
\* job that succeeded is in tool_runs, whichever calls die and whatever races.
THEOREM ReportsAreKept ==
  ASSUME WindowOutlastsJobs
  PROVE  DeepSpec => []NoReportLost
<1>1. DInv => NoReportLost
  BY DEF DInv, RunInv, Writer, NoReportLost
<1> QED BY <1>1, DeepLaneInvariant, PTL

-----------------------------------------------------------------------------
(***************************************************************************)
(* What the owner is shown                                                 *)
(***************************************************************************)

\* What any step may do to a run, as its view depends on it.
RunMoves(r) ==
  /\ old \subseteq old'
  /\ run[r].attached => run'[r].attached
  /\ start[r] = "done" => run'[r].attached = run[r].attached /\ caller'[r] = caller[r]
  /\ run[r].status \in Endings => run'[r].status = run[r].status
  /\ Queued(r) =>
       \/ run'[r].status \in {"queued", "failed", "cancelled"}
       \/ State(r) = "leased" /\ \E a \in Attempts : Live(r, a)

LEMMA FinishedMoves ==
  ASSUME DeepTypeOK, NEW r \in Runs, NEW st \in Endings, NEW report, NEW why,
         run'[r] = Finished(run[r], st, report, why), caller' = caller, old \subseteq old',
         \/ st # "succeeded"
         \/ State(r) = "leased" /\ \E a \in Attempts : Live(r, a)
  PROVE  RunMoves(r)
<1>1. run[r] \in RunType
  BY RunTypes
<1>2. CASE Queued(r)
  <2>1. run'[r] = [run[r] EXCEPT !.status = st, !.report = report, !.why = why]
    BY <1>2 DEF Finished, Queued
  <2>2. run'[r].attached = run[r].attached /\ run'[r].status = st
    BY <1>1, <2>1 DEF RunType
  <2> QED BY <1>2, <2>2 DEF RunMoves, Queued, Endings
<1>3. CASE ~Queued(r)
  <2>1. run'[r] = run[r]
    BY <1>3 DEF Finished, Queued
  <2> QED BY <1>3, <2>1 DEF RunMoves
<1> QED BY <1>2, <1>3

LEMMA StillMoves ==
  ASSUME NEW r \in Runs, run'[r] = run[r], old \subseteq old',
         caller'[r] = caller[r] \/ start[r] = "enqueue"
  PROVE  RunMoves(r)
BY DEF RunMoves, Queued

LEMMA StartMoves ==
  ASSUME DInv, NEW q \in Runs, StartStep(q), NEW r \in Runs
  PROVE  RunMoves(r)
<1>1. /\ DeepTypeOK /\ TypeOK /\ run[r] \in RunType /\ RunInv(r) /\ r \in Jobs
      /\ "failed" \in Endings
  BY RunTypes DEF DInv, IInv, Endings
<1>2. CASE StartExpires(q)
  <2>1. CASE r \in old
    BY <1>1, <1>2, <2>1, FinishedMoves DEF StartExpires, vars
  <2>2. CASE r \notin old
    BY <1>2, <2>2, StillMoves DEF StartExpires, vars
  <2> QED BY <2>1, <2>2
<1>3. CASE StartCreates(q)
  <2>1. CASE r = q /\ ~\E x \in Runs : Queued(x)
    <3>1. start[r] = "create" /\ run[r].status = "none"
      BY <1>1, <1>3, <2>1 DEF StartCreates, RunInv, Created, Early
    <3>2. run'[r].attached = run[r].attached /\ caller' = caller /\ old' = old
      BY <1>1, <1>3, <2>1 DEF StartCreates, RunType, DeepTypeOK, vars
    <3> QED BY <3>1, <3>2 DEF RunMoves, Endings, Queued
  <2>2. CASE ~(r = q /\ ~\E x \in Runs : Queued(x))
    BY <1>1, <1>3, <2>2, StillMoves DEF StartCreates, DeepTypeOK, vars
  <2> QED BY <2>1, <2>2
<1>4. CASE StartWithdraws(q)
  <2>1. CASE r = q /\ FinishRunRow(q, "failed", 0, "withdrawn")
    BY <1>1, <1>4, <2>1, FinishedMoves DEF StartWithdraws, FinishRunRow, DeepTypeOK, vars
  <2>2. CASE ~(r = q /\ FinishRunRow(q, "failed", 0, "withdrawn"))
    BY <1>1, <1>4, <2>2, StillMoves DEF StartWithdraws, FinishRunRow, DeepTypeOK, vars
  <2> QED BY <2>1, <2>2
<1>5. CASE StartAttaches(q)
  <2>1. /\ run'[r].status = run[r].status /\ caller' = caller /\ old' = old
        /\ run[r].attached => run'[r].attached
        /\ start[r] = "done" => run'[r].attached = run[r].attached
    BY <1>1, <1>5 DEF StartAttaches, DeepTypeOK, RunType, vars
  <2> QED BY <2>1 DEF RunMoves, Queued
<1>6. ASSUME run' = run, old' = old, start[q] = "enqueue",
             EnqueueCheck(q) \/ EnqueueInsert(q)
      PROVE  RunMoves(r)
  <2>1. caller'[r] = caller[r] \/ r = q
    BY <1>1, <1>6 DEF EnqueueCheck, EnqueueInsert, TypeOK
  <2> QED BY <1>6, <2>1, StillMoves
<1>7. CASE StartChecks(q) \/ StartInserts(q)
  BY <1>6, <1>7 DEF StartChecks, StartInserts
<1>8. CASE StartBegins(q) \/ StartCounts(q) \/ StartThrows(q) \/ StartDies(q)
  BY <1>8, StillMoves DEF StartBegins, StartCounts, StartThrows, StartDies, vars
<1> QED BY <1>2, <1>3, <1>4, <1>5, <1>7, <1>8 DEF StartStep

LEMMA LaneMoves ==
  ASSUME DInv, DeepNext, NEW r \in Runs
  PROVE  RunMoves(r)
<1>1. DeepTypeOK /\ TypeOK /\ r \in Jobs
  BY RunTypes DEF DInv, IInv
<1>2. {"failed", "cancelled", "succeeded"} \subseteq Endings
  BY DEF Endings
<1>3. ASSUME NEW q \in Runs, CancelToolRun(q) PROVE RunMoves(r)
  <2>1. CASE r = q
    BY <1>1, <1>2, <1>3, <2>1, FinishedMoves
    DEF CancelToolRun, FinishRunRow, DeepTypeOK, vars
  <2>2. CASE r # q
    BY <1>1, <1>3, <2>2, StillMoves DEF CancelToolRun, FinishRunRow, DeepTypeOK, vars
  <2> QED BY <2>1, <2>2
<1>4. ASSUME NEW q \in Runs, StandDown(q) \/ StandDownContinues(q) \/ WindowPasses(q)
      PROVE  RunMoves(r)
  <2>1. run' = run /\ old \subseteq old' /\ caller' = caller
    BY <1>4 DEF StandDown, CancelQueued, StandDownContinues, CancelLeased, WindowPasses,
                runVars, vars
  <2> QED BY <2>1, StillMoves
<1>5. ASSUME NEW q \in Runs, NEW a \in Attempts, NEW seen \in BOOLEAN, PostLands(q, a, seen)
      PROVE  RunMoves(r)
  <2>1. caller' = caller /\ old' = old
    BY <1>5 DEF PostLands, PostArrives
  <2>2. CASE r = q /\ Outcome(q, a) \in {"recorded", "discarded_cancelled"}
    <3>1. State(r) = "leased" /\ Live(r, a)
      BY <1>5, <2>2 DEF Outcome, PostLands, PostArrives, Posting, Live
    <3>2. run'[r] = Landed(r, a)
      BY <1>1, <1>5, <2>2 DEF PostLands, DeepTypeOK
    <3>3. \E st \in Endings : \E report : run'[r] = Finished(run[r], st, report, "landed")
      <4>1. CASE Outcome(r, a) = "discarded_cancelled"
        BY <1>2, <3>2, <4>1 DEF Landed
      <4>2. CASE Outcome(r, a) # "discarded_cancelled" /\ exec[r][a].ok
        BY <1>2, <3>2, <4>2 DEF Landed
      <4>3. CASE Outcome(r, a) # "discarded_cancelled" /\ ~exec[r][a].ok
        BY <1>2, <3>2, <4>3 DEF Landed
      <4> QED BY <4>1, <4>2, <4>3
    <3>4. PICK st \in Endings : \E report : run'[r] = Finished(run[r], st, report, "landed")
      BY <3>3
    <3>5. PICK report : run'[r] = Finished(run[r], st, report, "landed")
      BY <3>4
    <3> QED BY <1>1, <2>1, <3>1, <3>5, FinishedMoves
  <2>3. CASE ~(r = q /\ Outcome(q, a) \in {"recorded", "discarded_cancelled"})
    <3>1. run'[r] = run[r]
      BY <1>1, <1>5, <2>3 DEF PostLands, DeepTypeOK
    <3> QED BY <2>1, <3>1, StillMoves
  <2> QED BY <2>2, <2>3
<1>6. ASSUME NEW p \in Reapers, ReapLands(p) PROVE RunMoves(r)
  <2>1. caller' = caller /\ old' = old
    BY <1>6 DEF ReapLands, ReapLedger
  <2>2. run'[r] = run[r] \/ \E st \in {"failed", "cancelled"} :
                              run'[r] = Finished(run[r], st, 0, "reaped")
    BY <1>6 DEF ReapLands
  <2> QED BY <1>1, <1>2, <2>1, <2>2, StillMoves, FinishedMoves
<1>7. ASSUME NEW p \in Reapers, ReapDies(p) \/ ReapStatement(p) PROVE RunMoves(r)
  <2>1. run' = run /\ old' = old /\ caller' = caller
    BY <1>7 DEF ReapDies, ReapCrash, ReapStatement, ReapCancelled, ReapRequeue, ReapLease,
                ReapDeadline, runVars
  <2> QED BY <2>1, StillMoves
<1>8. CASE DesktopStep \/ Ageing
  <2>1. run' = run /\ old' = old /\ caller' = caller
    BY <1>8 DEF DesktopStep, Claim, HeartbeatHeld, HeartbeatLost, FinishRun, PostLost,
                WorkerCrash, Ageing, LeaseLapses, DeadlinePasses, ContentTtlPasses,
                RowTtlPasses, SweepStale, runVars
  <2> QED BY <2>1, StillMoves
<1> QED BY <1>3, <1>4, <1>5, <1>6, <1>7, <1>8, StartMoves DEF DeepNext

LEMMA ViewKept ==
  ASSUME WindowOutlastsJobs, DInv, DeepNext, NEW r \in Runs,
         NEW answered \in BOOLEAN, View(r, answered) \in {"failed", "cancelled"}
  PROVE  View(r, answered)' \in {"failed", "cancelled"}
<1>1. /\ RunInv(r) /\ RunMoves(r) /\ run[r] \in RunType /\ job[r] \in RowType
      /\ r \in Jobs
  BY LaneMoves, RunTypes DEF DInv, IInv, TypeOK
<1>2. Moves(r)
  BY <1>1, LaneStep, QueueMoves DEF DInv
<1>3. ASSUME run'[r].status \in {"failed", "cancelled"}
      PROVE  View(r, answered)' \in {"failed", "cancelled"}
  BY <1>3 DEF View, Queued
<1>4. CASE ~Queued(r)
  <2>1. run[r].status \in {"failed", "cancelled"}
    BY <1>4 DEF View
  <2> QED BY <1>1, <1>3, <2>1 DEF RunMoves, Endings
<1>5. CASE Queued(r) /\ ~JobFound(r, answered)
  <2>1. r \in old /\ Dead(r)
    BY <1>1, <1>5 DEF View, RunInv
  <2>2. r \in old' /\ run'[r].status \in {"queued", "failed", "cancelled"}
    BY <1>1, <1>5, <2>1 DEF RunMoves, Dead
  <2>3. ~JobFound(r, answered)'
    BY <1>1, <1>2, <1>5, <2>1 DEF JobFound, RunMoves, Moves, Dead, Active
  <2> QED BY <1>3, <2>2, <2>3 DEF View, Queued
<1>6. CASE Queued(r) /\ JobFound(r, answered)
  <2>1. State(r) \in {"failed", "cancelled", "expired"}
    BY <1>1, <1>6 DEF View, JobFound, State, RowType, Active, Terminal
  <2>2. run'[r].status \in {"queued", "failed", "cancelled"} /\ run'[r].attached
    BY <1>1, <1>6, <2>1 DEF RunMoves, JobFound
  <2>3. State(r)' = State(r) \/ (State(r)' = "absent" /\ r \in aged)
    BY <1>2, <2>1 DEF Moves, Active
  <2>4. CASE State(r)' = State(r)
    <3>1. answered /\ State(r)' \in {"failed", "cancelled", "expired"}
      BY <1>6, <2>1, <2>4 DEF JobFound
    <3>2. JobFound(r, answered)'
      BY <2>2, <3>1 DEF JobFound
    <3>3. CASE run'[r].status = "queued"
      BY <3>1, <3>2, <3>3 DEF View, Queued
    <3> QED BY <1>3, <2>2, <3>3
  <2>5. CASE State(r)' = "absent" /\ r \in aged
    <3>1. r \in old' /\ ~JobFound(r, answered)'
      BY <1>1, <1>6, <2>5 DEF RunInv, RunMoves, JobFound
    <3> QED BY <1>3, <2>2, <3>1 DEF View, Queued
  <2> QED BY <2>3, <2>4, <2>5
<1> QED BY <1>4, <1>5, <1>6

\* Under the same window, an end that deriveRunView has shown the owner, from
\* the run or from its job, is never taken back by a response of the same kind.
THEOREM ViewsStand ==
  ASSUME WindowOutlastsJobs
  PROVE  DeepSpec => ViewStands
<1> DEFINE Kept == \A r \in Runs, answered \in BOOLEAN :
                     View(r, answered) \in {"failed", "cancelled"} =>
                       View(r, answered)' \in {"failed", "cancelled"}
<1>1. DInv /\ [DeepNext]_deepVars => [Kept]_deepVars
  BY ViewKept
<1>2. ViewStands <=> [][Kept]_deepVars
  BY DEF ViewStands
<1> HIDE DEF Kept
<1> QED BY <1>1, <1>2, DeepLaneInvariant, PTL DEF DeepSpec
=============================================================================
