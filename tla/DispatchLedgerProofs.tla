------------------------ MODULE DispatchLedgerProofs ------------------------
(***************************************************************************)
(* Safety of DispatchLedger for every number of jobs, workers, attempts,   *)
(* POSTs and Hub instances, on the invariant of the queue below it.        *)
(*                                                                         *)
(* That an answer is counted once is no fact about one writer: it holds    *)
(* because at any time at most one of the waiting turn, the settlement of  *)
(* an abandoned turn, the result route and the sweep may still write for   *)
(* it.  TurnInv(j) says who; JobInv(j) says why a repeated or late POST is *)
(* never taken for the one that landed.                                    *)
(***************************************************************************)
EXTENDS DispatchLedger, DispatchQueueProofs

\* No execution and no ledger row beyond the newest claim, none for the claim
\* that is out, and the row still names the worker whose POST ended it.
JobInv(j) ==
  /\ caller[j] # "inserted" =>
       \A a \in Attempts : exec[j][a].phase = "none" /\ rows[j][a] = 0
  /\ State(j) # "absent" =>
       \A a \in Attempts : a > job[j].attempt => exec[j][a].phase = "none" /\ rows[j][a] = 0
  /\ State(j) = "leased" => rows[j][job[j].attempt] = 0
  /\ landed[j] # 0 /\ State(j) # "absent" =>
       job[j].leasedBy = WorkerOf[exec[j][landed[j]].slot]
  /\ j \in ToolJobs /\ State(j) = "succeeded" => job[j].delivered
  /\ j \in aged => caller[j] = "inserted"
  /\ j \in sweep.counted => sweep.open /\ j \in stale
  /\ j \in ChatJobs \cup ToolJobs /\ landed[j] # 0 /\ j \notin torn =>
       rows[j][landed[j]] <= 1

Outstanding(j) == turn[j].pc = "answered" \/ settle[j] = "log"

Waiting(j) ==
  turn[j].pc \in {"enqueue", "waiting", "answered"} \/ settle[j] # "none" \/ j \in wanted

\* The content window opens behind the turn; an answer that nobody has taken,
\* or whose taker has yet to write, has no row, and only a sweep counts it else.
TurnInv(j) ==
  /\ turn[j].pc \in {"idle", "enqueue"} => caller[j] # "inserted"
  /\ Waiting(j) => j \notin stale /\ j \notin aged
  /\ settle[j] # "none" \/ j \in wanted => turn[j].pc = "fallen"
  /\ Outstanding(j) =>
       State(j) = "succeeded" /\ job[j].delivered /\ rows[j][landed[j]] = 0
  /\ turn[j].pc = "answered" => j \notin lost
  /\ State(j) \in Active \/ caller[j] # "inserted" => j \notin lost
  /\ State(j) = "succeeded" /\ ~job[j].delivered /\ j \notin stale =>
       j \notin lost /\ rows[j][landed[j]] = 0
  /\ State(j) = "succeeded" /\ ~job[j].delivered /\ ~job[j].scrubbed
     /\ j \notin torn /\ j \notin sweep.counted => rows[j][landed[j]] = 0
  /\ turn[j].pc = "served" =>
       /\ caller[j] = "inserted"
       /\ State(j) \in {"succeeded", "absent"}
       /\ State(j) = "succeeded" => job[j].delivered
       /\ landed[j] = 1
       /\ rows[j][1] = IF j \in lost THEN 0 ELSE 1

LInv ==
  /\ IInv
  /\ LedgerTypeOK
  /\ \A j \in Jobs : JobInv(j)
  /\ \A j \in ChatJobs : TurnInv(j)

-----------------------------------------------------------------------------
(***************************************************************************)
(* The queue seen from one job                                             *)
(***************************************************************************)

\* Executions keep their slots and do not come or go.
ExecsKept(j) ==
  \A a \in Attempts : /\ exec'[j][a].slot = exec[j][a].slot
                      /\ exec'[j][a].phase = "none" <=> exec[j][a].phase = "none"

\* A step of the queue that neither inserts job j, nor lands a result on it, nor
\* sweeps it.
QuietJob(j) ==
  /\ caller'[j] = "inserted" <=> caller[j] = "inserted"
  /\ landed'[j] = landed[j]
  /\ job[j].delivered => job'[j].delivered
  /\ job[j].scrubbed => job'[j].scrubbed
  /\ \/ /\ State(j)' = State(j) /\ ExecsKept(j)
        /\ job'[j].attempt = job[j].attempt /\ job'[j].leasedBy = job[j].leasedBy
     \/ /\ State(j) \in Active /\ State(j)' \in {"queued", "cancelled", "expired"}
        /\ job'[j].attempt = job[j].attempt /\ ExecsKept(j)
     \/ /\ State(j) = "queued" /\ State(j)' = "leased"
        /\ job'[j].attempt = job[j].attempt + 1
        /\ \A a \in Attempts : a > job[j].attempt + 1 => exec'[j][a] = exec[j][a]

LEMMA SameJob ==
  ASSUME NEW j \in Jobs, job'[j] = job[j], landed'[j] = landed[j], ExecsKept(j),
         caller'[j] = "inserted" <=> caller[j] = "inserted"
  PROVE  QuietJob(j)
BY DEF QuietJob, State

LEMMA EndedJob ==
  ASSUME TypeOK, NEW j \in Jobs, State(j) \in Active, NEW st \in {"cancelled", "expired"},
         job'[j] = Ended(job[j], st), landed' = landed, caller' = caller, exec' = exec
  PROVE  QuietJob(j)
BY DEF TypeOK, RowType, Ended, QuietJob, ExecsKept, State

LEMMA CancelQuiet ==
  ASSUME TypeOK, NEW i \in Jobs, CancelQueued(i) \/ CancelLeased(i), NEW j \in Jobs
  PROVE  QuietJob(j)
<1>1. job[j] \in RowType /\ UNCHANGED <<landed, caller, exec>> /\ ExecsKept(j)
  BY DEF TypeOK, CancelQueued, CancelLeased, ExecsKept
<1>2. CASE job'[j] = job[j]
  BY <1>1, <1>2, SameJob
<1>3. CASE CancelQueued(i) /\ job'[j] # job[j]
  <2>1. State(j) = "queued" /\ job'[j] = Ended(job[j], "cancelled")
    BY <1>3 DEF CancelQueued, TypeOK
  <2> QED BY <1>1, <2>1, EndedJob DEF Active
<1>4. CASE CancelLeased(i) /\ job'[j] # job[j]
  <2>1. job'[j] = [job[j] EXCEPT !.cancelReq = TRUE]
    BY <1>4 DEF CancelLeased, TypeOK
  <2> QED BY <1>1, <2>1 DEF RowType, QuietJob, State
<1> QED BY <1>2, <1>3, <1>4

LEMMA DeliverQuiet ==
  ASSUME TypeOK, NEW i \in Jobs, DeliverResult(i), NEW j \in Jobs
  PROVE  QuietJob(j) /\ (j = i => State(j) = "succeeded" /\ job'[j].delivered)
<1>1. job[j] \in RowType /\ UNCHANGED <<landed, caller, exec>> /\ ExecsKept(j)
  BY DEF TypeOK, DeliverResult, ExecsKept
<1>2. CASE j = i
  <2>1. job'[j] = Delivered(job[j]) /\ State(j) = "succeeded"
    BY <1>2 DEF DeliverResult, Deliverable, TypeOK
  <2> QED BY <1>1, <2>1 DEF Delivered, RowType, QuietJob, State
<1>3. CASE j # i
  <2>1. job'[j] = job[j]
    BY <1>3 DEF DeliverResult, TypeOK
  <2> QED BY <1>1, <1>3, <2>1, SameJob
<1> QED BY <1>2, <1>3

LEMMA ReapQuiet ==
  ASSUME TypeOK, NEW p \in Reapers, ReapStep(p), NEW j \in Jobs
  PROVE  QuietJob(j)
<1>1. job[j] \in RowType /\ UNCHANGED <<landed, caller, exec>> /\ ExecsKept(j)
  BY DEF TypeOK, ReapStep, ReapCancelled, ReapRequeue, ReapLease, ReapDeadline,
         ReapLedger, ReapCrash, ExecsKept
<1>2. ASSUME NEW S, NEW st \in {"cancelled", "expired"}, EndAll(S, st),
             j \in S => State(j) \in Active
      PROVE  QuietJob(j)
  <2>1. CASE j \in S
    BY <1>1, <1>2, <2>1, EndedJob DEF EndAll
  <2>2. CASE j \notin S
    BY <1>1, <1>2, <2>2, SameJob DEF EndAll
  <2> QED BY <2>1, <2>2
<1>3. CASE ReapCancelled(p)
  BY <1>2, <1>3 DEF ReapCancelled, Active
<1>4. CASE ReapLease(p)
  BY <1>2, <1>4 DEF ReapLease, DueLease, Active
<1>5. CASE ReapDeadline(p)
  BY <1>2, <1>5 DEF ReapDeadline, DueDeadline, Active
<1>6. CASE ReapRequeue(p)
  <2>1. CASE j \in Retryable(p)
    <3>1. job'[j] = [job[j] EXCEPT !.state = "queued", !.leasedBy = NoWorker]
          /\ State(j) \in Active
      BY <1>6, <2>1 DEF ReapRequeue, Retryable, DueLease, Active
    <3> QED BY <1>1, <3>1 DEF RowType, QuietJob, State
  <2>2. CASE j \notin Retryable(p)
    BY <1>1, <1>6, <2>2, SameJob DEF ReapRequeue
  <2> QED BY <2>1, <2>2
<1>7. CASE ReapLedger(p) \/ ReapCrash(p)
  BY <1>1, <1>7, SameJob DEF ReapLedger, ReapCrash
<1> QED BY <1>3, <1>4, <1>5, <1>6, <1>7 DEF ReapStep

\* Executions change one at a time, and none that has not begun.
LEMMA OneExec ==
  ASSUME TypeOK, NEW i \in Jobs, NEW a \in Attempts, NEW e \in ExecType,
         e.slot = exec[i][a].slot, e.phase # "none", exec[i][a].phase # "none",
         exec' = [exec EXCEPT ![i][a] = e], NEW j \in Jobs
  PROVE  ExecsKept(j)
BY DEF TypeOK, ExecsKept

LEMMA PostedExecs ==
  ASSUME TypeOK, NEW i \in Jobs, NEW a \in Attempts, NEW seen \in BOOLEAN,
         Posting(i, a), Posted(i, a, seen), NEW j \in Jobs
  PROVE  ExecsKept(j)
<1>1. exec[i][a] \in ExecType /\ exec[i][a].phase = "posting"
  BY DEF TypeOK, Posting
<1>2. \A e \in {Retired(exec[i][a]), Tried(exec[i][a])} :
        e.slot = exec[i][a].slot /\ e.phase # "none"
  BY <1>1 DEF Retired, Tried, ExecType
<1>3. PICK e \in {Retired(exec[i][a]), Tried(exec[i][a])} : exec' = [exec EXCEPT ![i][a] = e]
  BY DEF Posted
<1> QED BY <1>1, <1>2, <1>3 DEF TypeOK, ExecsKept

LEMMA DesktopQuiet ==
  ASSUME IInv, DesktopStep, NEW j \in Jobs
  PROVE  QuietJob(j)
<1>1. TypeOK /\ job[j] \in RowType
  BY DEF IInv, TypeOK
<1>2. ASSUME NEW i \in Jobs, NEW a \in Attempts, NEW ok \in BOOLEAN,
             exec[i][a].phase = "running", exec' = [exec EXCEPT ![i][a] = Stopped(@, ok)]
      PROVE  ExecsKept(j)
  <2> DEFINE e == Stopped(exec[i][a], ok)
  <2>1. exec[i][a] \in ExecType
    BY <1>1 DEF TypeOK
  <2>2. e \in ExecType /\ e.slot = exec[i][a].slot /\ e.phase # "none"
    BY <2>1 DEF Stopped, ExecType
  <2>3. exec' = [exec EXCEPT ![i][a] = e] /\ exec[i][a].phase # "none"
    BY <1>2
  <2> HIDE DEF e
  <2> QED BY <1>1, <2>2, <2>3, OneExec
<1>3. ASSUME UNCHANGED <<job, landed, caller>>, ExecsKept(j) PROVE QuietJob(j)
  BY <1>3, SameJob
<1>4. UNCHANGED exec => ExecsKept(j)
  BY DEF ExecsKept
<1>5. ASSUME NEW s \in Slots, NEW i \in Jobs, NEW got \in BOOLEAN, Claim(s, i, got)
      PROVE  QuietJob(j)
  <2>1. CASE i = j
    <3>1. job'[j] = Leased(job[j], s) /\ landed' = landed /\ caller' = caller
      BY <1>1, <1>5, <2>1 DEF Claim, TypeOK
    <3>2. /\ job'[j].state = "leased" /\ job'[j].attempt = job[j].attempt + 1
          /\ job'[j].delivered = job[j].delivered /\ job'[j].scrubbed = job[j].scrubbed
      BY <1>1, <3>1 DEF Leased, RowType
    <3>3. \A a \in Attempts : a > job[j].attempt + 1 => exec'[j][a] = exec[j][a]
      <4>1. job[j].attempt \in Nat
        BY <1>1, BoundsAssumption DEF RowType
      <4>2. \A a \in Attempts : a # job[j].attempt + 1 => exec'[j][a] = exec[j][a]
        BY <1>1, <1>5, <2>1 DEF Claim, TypeOK
      <4> QED BY <4>1, <4>2 DEF Attempts
    <3> QED BY <1>5, <2>1, <3>1, <3>2, <3>3 DEF Claim, QuietJob, State
  <2>2. CASE i # j
    <3>1. job'[j] = job[j] /\ exec'[j] = exec[j] /\ landed' = landed /\ caller' = caller
      BY <1>1, <1>5, <2>2 DEF Claim, TypeOK
    <3> QED BY <3>1, SameJob DEF ExecsKept
  <2> QED BY <2>1, <2>2
<1>6. ASSUME NEW i \in Jobs, NEW a \in Attempts, HeartbeatHeld(i, a) PROVE QuietJob(j)
  BY <1>2, <1>3, <1>4, <1>6 DEF HeartbeatHeld
<1>7. ASSUME NEW i \in Jobs, NEW a \in Attempts,
             HeartbeatLost(i, a) \/ \E ok \in BOOLEAN : FinishRun(i, a, ok)
      PROVE  QuietJob(j)
  BY <1>2, <1>3, <1>7 DEF HeartbeatLost, FinishRun
<1>8. ASSUME NEW i \in Jobs, NEW a \in Attempts, PostLost(i, a) PROVE QuietJob(j)
  BY <1>1, <1>3, <1>8, PostedExecs DEF PostLost
<1>9. ASSUME NEW w \in Workers, WorkerCrash(w) PROVE QuietJob(j)
  <2>1. ExecsKept(j)
    <3>1. ASSUME NEW a \in Attempts, exec'[j][a] # exec[j][a]
          PROVE  exec'[j][a] = Retired(exec[j][a]) /\ exec[j][a].phase # "none"
      BY <1>9, <3>1 DEF WorkerCrash, Live
    <3>2. \A a \in Attempts : /\ Retired(exec[j][a]).slot = exec[j][a].slot
                             /\ Retired(exec[j][a]).phase # "none"
      BY <1>1 DEF Retired, TypeOK, ExecType
    <3> QED BY <3>1, <3>2 DEF ExecsKept
  <2> QED BY <1>3, <1>9, <2>1 DEF WorkerCrash
<1> QED BY <1>5, <1>6, <1>7, <1>8, <1>9 DEF DesktopStep

-----------------------------------------------------------------------------
(***************************************************************************)
(* The Hub and its ledger use the queue by the queue's steps               *)
(***************************************************************************)

LEMMA LedgerStep ==
  ASSUME [LedgerNext]_allVars
  PROVE  [Next]_vars
<1>1. CASE UNCHANGED allVars
  BY <1>1 DEF allVars
<1>2. ASSUME NEW j \in ChatJobs, HubTurn(j) PROVE UNCHANGED vars \/ HubStep
  <2>1. j \in Jobs
    BY DEF Jobs
  <2> QED BY <1>2, <2>1
          DEF HubTurn, TurnBegins, TurnChecks, TurnInserts, TurnThrows, GiveUp, Poll,
              KeepWaiting, FallThroughAndCancel, FallThrough, TakeAnswer, TakeThrows,
              DeliveryThrows, RecordServed, SettleLook, SettleTake, SettleThrows, SettleLog,
              DetachedCancel, HubDies, HubStep, vars
<1>3. ASSUME NEW j \in Jobs, ProbeRead(j) \/ WorkEnqueue(j) \/ WorkCancel(j)
                             \/ CancelContinues(j)
      PROVE  HubStep
  BY <1>3 DEF ProbeRead, WorkEnqueue, WorkCancel, CancelContinues, HubStep
<1>4. ASSUME NEW j \in Jobs, NEW a \in Attempts, NEW seen \in BOOLEAN,
             ResultRoute(j, a, seen)
      PROVE  WorkerStep
  BY <1>4 DEF ResultRoute, WorkerStep
<1>5. SweepCounts \/ SweepCommits \/ SweepRollsBack => UNCHANGED vars \/ HubStep
  BY DEF SweepCounts, SweepCommits, SweepRollsBack, HubStep
<1>6. DesktopStep => WorkerStep
  BY DEF DesktopStep, WorkerStep
<1>7. ASSUME NEW p \in Reapers, ReaperStep(p) PROVE ReapStep(p)
  BY <1>7 DEF ReaperStep
<1>8. Ageing => TimeStep
  BY DEF Ageing, TimeStep
<1> QED BY <1>1, <1>2, <1>3, <1>4, <1>5, <1>6, <1>7, <1>8 DEF LedgerNext, Next

\* Every behaviour of the Hub and its ledger is one of the queue, so what is
\* proved of the queue holds here too.
THEOREM LedgerUsesQueue == LedgerSpec => Spec
<1>1. LedgerInit => Init
  BY DEF LedgerInit
<1>2. [LedgerNext]_allVars => [Next]_vars
  BY LedgerStep
<1> QED BY <1>1, <1>2, PTL DEF LedgerSpec, Spec

-----------------------------------------------------------------------------
(***************************************************************************)
(* Types                                                                   *)
(***************************************************************************)

CountType == [Jobs -> [Attempts -> 0 .. 2]]
Settling  == {"none", "look", "take", "log"}

\* One call of recordAiRun adds one row for one execution, or loses it.
LEMMA RecordRunAdds ==
  ASSUME LedgerTypeOK, NEW j \in Jobs, NEW a \in 0 .. WorkAttempts, RecordRun(j, a)
  PROVE  /\ rows' \in CountType /\ lost' \in SUBSET Jobs /\ lost \subseteq lost'
         /\ \A k \in Jobs : k # j => rows'[k] = rows[k] /\ (k \in lost' <=> k \in lost)
         /\ \A b \in Attempts : b # a => rows'[j][b] = rows[j][b]
         /\ a \in Attempts =>
              \/ j \in lost' /\ rows'[j][a] = rows[j][a]
              \/ lost' = lost /\ rows'[j][a] = AtMostTwo(rows[j][a] + 1)
<1>1. rows \in CountType /\ lost \in SUBSET Jobs
  BY DEF LedgerTypeOK, CountType
<1>2. CASE lost' = lost \cup {j} /\ UNCHANGED rows
  BY <1>1, <1>2
<1>3. CASE lost' = lost /\ rows' = [rows EXCEPT ![j][a] = AtMostTwo(@ + 1)]
  <2>1. PICK n : n = AtMostTwo(rows[j][a] + 1)
    OBVIOUS
  <2>2. rows' = [rows EXCEPT ![j][a] = n]
    BY <1>3, <2>1
  <2>3. a \in Attempts => n \in 0 .. 2
    BY <1>1, <2>1 DEF AtMostTwo, CountType
  <2>4. rows' \in CountType
    BY <1>1, <2>2, <2>3 DEF CountType
  <2> QED BY <1>1, <1>3, <2>1, <2>2, <2>4 DEF CountType
<1> QED BY <1>2, <1>3 DEF RecordRun

LEMMA LedgerTypeInit == LedgerInit => LedgerTypeOK
<1>1. 0 \in 0 .. 2
  OBVIOUS
<1> QED BY <1>1, TypeInit DEF LedgerInit, LedgerTypeOK, TurnType, NoSweep

HubTypeOK ==
  /\ turn \in [ChatJobs -> TurnType]
  /\ wanted \in SUBSET ChatJobs
  /\ settle \in [ChatJobs -> Settling]

CountsTypeOK ==
  /\ sweep \in [open: BOOLEAN, ended: SUBSET Jobs, counted: SUBSET Jobs]
  /\ rows \in CountType
  /\ torn \in SUBSET Jobs
  /\ lost \in SUBSET Jobs
  /\ slipped \in SUBSET Jobs

LEMMA TypesAre == LedgerTypeOK <=> TypeOK /\ HubTypeOK /\ CountsTypeOK
BY DEF LedgerTypeOK, HubTypeOK, CountsTypeOK, CountType, Settling

LEMMA HubTypeStep ==
  ASSUME LedgerTypeOK, NEW j \in ChatJobs, HubTurn(j)
  PROVE  HubTypeOK'
<1>1. TypeOK /\ HubTypeOK /\ j \in Jobs
  BY TypesAre DEF Jobs
<1>2. turn' \in [ChatJobs -> TurnType]
  <2>1. CASE Poll(j)
    <3>1. State(j) \in {"absent"} \cup Active \cup Terminal
      BY <1>1 DEF TypeOK, RowType, State
    <3>2. PICK v : v = IF State(j) = "leased" /\ j \in lapsed THEN "lapsed" ELSE State(j)
      OBVIOUS
    <3>3. turn' = [turn EXCEPT ![j].view = v] /\ v \in {"none", "lapsed", "absent"} \cup Active \cup Terminal
      BY <2>1, <3>1, <3>2 DEF Poll
    <3> QED BY <1>1, <3>3 DEF HubTypeOK, TurnType
  <2>2. CASE UNCHANGED turn
    BY <1>1, <2>2 DEF HubTypeOK
  <2>3. ASSUME NEW pc \in {"enqueue", "waiting", "answered", "served", "fallen", "dead"},
               GoTo(j, pc)
        PROVE  turn' \in [ChatJobs -> TurnType]
    BY <1>1, <2>3 DEF GoTo, HubTypeOK, TurnType
  <2> QED BY <2>1, <2>2, <2>3
          DEF HubTurn, TurnBegins, TurnChecks, TurnInserts, TurnThrows, GiveUp,
              KeepWaiting, FallThroughAndCancel, FallThrough, TakeAnswer, TakeThrows,
              RecordServed, SettleLook, SettleTake, SettleThrows, SettleLog,
              DetachedCancel, HubDies
<1>3. wanted' \in SUBSET ChatJobs
  BY <1>1
  DEF HubTypeOK, HubTurn, TurnBegins, TurnChecks, TurnInserts, TurnThrows, GiveUp, Poll,
      KeepWaiting, FallThroughAndCancel, FallThrough, TakeAnswer, TakeThrows,
      RecordServed, SettleLook, SettleTake, SettleThrows, SettleLog,
      DetachedCancel, HubDies
<1>4. settle' \in [ChatJobs -> Settling]
  BY <1>1
  DEF HubTypeOK, Settling, HubTurn, TurnBegins, TurnChecks, TurnInserts, TurnThrows, GiveUp,
      Poll, KeepWaiting, FallThroughAndCancel, FallThrough, TakeAnswer, TakeThrows,
      RecordServed, SettleLook, SettleTake, SettleThrows, SettleLog,
      DetachedCancel, HubDies
<1> QED BY <1>2, <1>3, <1>4 DEF HubTypeOK

LEMMA CountsTypeStep ==
  ASSUME LedgerTypeOK, LedgerNext
  PROVE  CountsTypeOK'
<1>1. TypeOK /\ CountsTypeOK
  BY TypesAre
<1>2. CASE UNCHANGED ledgerVars
  BY <1>1, <1>2 DEF CountsTypeOK, ledgerVars
<1>3. ASSUME rows' \in CountType, lost' \in SUBSET Jobs, UNCHANGED <<sweep, torn, slipped>>
      PROVE  CountsTypeOK'
  BY <1>1, <1>3 DEF CountsTypeOK
<1>4. ASSUME NEW j \in ChatJobs, HubTurn(j) PROVE CountsTypeOK'
  <2>1. j \in Jobs /\ job[j].attempt \in 0 .. WorkAttempts
    BY <1>1 DEF TypeOK, RowType, Jobs
  <2>2. CASE RecordServed(j) \/ SettleLog(j)
    BY <1>3, <2>1, <2>2, RecordRunAdds DEF RecordServed, SettleLog
  <2>3. CASE TakeThrows(j) \/ SettleThrows(j) \/ HubDies(j)
    <3>1. rows' = rows /\ lost' \in {lost, lost \cup {j}} /\ UNCHANGED <<sweep, torn, slipped>>
      BY <2>3 DEF TakeThrows, SettleThrows, DeliveryThrows, HubDies
    <3> QED BY <1>1, <1>3, <2>1, <3>1 DEF CountsTypeOK
  <2> QED BY <1>2, <1>4, <2>2, <2>3
          DEF HubTurn, TurnBegins, TurnChecks, TurnInserts, TurnThrows, GiveUp, Poll,
              KeepWaiting, FallThroughAndCancel, FallThrough, TakeAnswer,
              SettleLook, SettleTake, DetachedCancel
<1>5. ASSUME NEW j \in Jobs, ProbeRead(j) \/ WorkEnqueue(j) \/ WorkCancel(j)
                             \/ CancelContinues(j)
      PROVE  CountsTypeOK'
  BY <1>2, <1>5 DEF ProbeRead, WorkEnqueue, WorkCancel, CancelContinues
<1>6. ASSUME NEW j \in Jobs, NEW a \in Attempts, NEW seen \in BOOLEAN,
             ResultRoute(j, a, seen)
      PROVE  CountsTypeOK'
  <2>1. a \in 0 .. WorkAttempts
    BY BoundsAssumption DEF Attempts
  <2>2. rows' \in CountType /\ lost' \in SUBSET Jobs
    BY <1>1, <1>6, <2>1, RecordRunAdds DEF ResultRoute, CountsTypeOK
  <2> QED BY <1>3, <1>6, <2>2 DEF ResultRoute
<1>7. CASE SweepCounts
  <2>1. Orphans \in SUBSET Jobs /\ TerminalNow \in SUBSET Jobs
    BY <1>1 DEF Orphans, TerminalNow, TypeOK
  <2>2. PICK written \in SUBSET Orphans :
          /\ rows' = [j \in Jobs |-> [a \in Attempts |->
               IF j \in written /\ a = job[j].attempt
               THEN AtMostTwo(rows[j][a] + 1) ELSE rows[j][a]]]
          /\ lost' = lost \cup (Orphans \ written)
    BY <1>7 DEF SweepCounts
  <2>3. \A j \in Jobs, a \in Attempts :
          rows[j][a] \in 0 .. 2 /\ AtMostTwo(rows[j][a] + 1) \in 0 .. 2
    BY <1>1 DEF CountsTypeOK, CountType, AtMostTwo
  <2>4. rows' \in CountType /\ lost' \in SUBSET Jobs
    BY <1>1, <2>1, <2>2, <2>3 DEF CountType, CountsTypeOK
  <2> QED BY <1>1, <1>7, <2>1, <2>4 DEF SweepCounts, CountsTypeOK
<1>8. CASE SweepCommits \/ SweepRollsBack
  <2>1. Orphans \in SUBSET Jobs
    BY <1>1 DEF Orphans, TypeOK
  <2>2. NoSweep \in [open: BOOLEAN, ended: SUBSET Jobs, counted: SUBSET Jobs]
    BY DEF NoSweep
  <2>3. sweep.counted \in SUBSET Jobs
    BY <1>1 DEF CountsTypeOK
  <2>4. /\ sweep' = NoSweep /\ UNCHANGED <<rows, lost>>
        /\ torn' \in SUBSET Jobs /\ slipped' \in SUBSET Jobs
    BY <1>1, <1>8, <2>1, <2>3 DEF SweepCommits, SweepRollsBack, CountsTypeOK
  <2> QED BY <1>1, <2>2, <2>4 DEF CountsTypeOK
<1>9. CASE DesktopStep \/ (\E p \in Reapers : ReaperStep(p)) \/ Ageing
  BY <1>2, <1>9 DEF DesktopStep, ReaperStep, Ageing
<1> QED BY <1>4, <1>5, <1>6, <1>7, <1>8, <1>9 DEF LedgerNext

LEMMA LedgerTypeStep ==
  ASSUME LedgerTypeOK, TypeOK', [LedgerNext]_allVars
  PROVE  LedgerTypeOK'
<1>1. HubTypeOK /\ CountsTypeOK
  BY TypesAre
<1>2. CASE UNCHANGED allVars
  BY <1>1, <1>2, TypesAre DEF allVars, hubVars, ledgerVars, HubTypeOK, CountsTypeOK, LedgerTypeOK
<1>3. CASE LedgerNext
  <2>1. UNCHANGED hubVars => HubTypeOK'
    BY <1>1 DEF hubVars, HubTypeOK
  <2>2. UNCHANGED hubVars \/ \E j \in ChatJobs : HubTurn(j)
    BY <1>3
    DEF LedgerNext, ProbeRead, WorkEnqueue, WorkCancel, CancelContinues, ResultRoute,
        SweepCounts, SweepCommits, SweepRollsBack, DesktopStep, ReaperStep, Ageing
  <2>3. HubTypeOK' /\ CountsTypeOK'
    BY <1>3, <2>1, <2>2, HubTypeStep, CountsTypeStep
  <2> QED BY <2>3 DEF HubTypeOK, CountsTypeOK, CountType, Settling, LedgerTypeOK
<1> QED BY <1>2, <1>3

-----------------------------------------------------------------------------
(***************************************************************************)
(* Steps that leave the ledger's account of job j as it was                *)
(***************************************************************************)

QuietLedger(j) ==
  /\ rows'[j] = rows[j]
  /\ j \in torn' <=> j \in torn
  /\ sweep' = sweep
  /\ j \in stale => j \in stale'
  /\ j \in aged' => j \in aged \/ State(j) # "absent"

\* The step is the read-once delivery of an answer still within its window.
Taken(j) ==
  /\ State(j) = "succeeded" /\ ~job[j].delivered /\ j \notin stale
  /\ job'[j].delivered

QuietTurn(j) ==
  /\ turn'[j].pc \in {"idle", "enqueue"} => turn[j].pc \in {"idle", "enqueue"}
  /\ Waiting(j)' => /\ Waiting(j) \/ turn[j].pc = "idle"
                    /\ j \in stale' => j \in stale
                    /\ j \in aged' => j \in aged
  /\ settle'[j] # "none" \/ j \in wanted' => turn'[j].pc = "fallen"
  /\ Outstanding(j)' => Outstanding(j) \/ Taken(j)
  /\ turn'[j].pc = "answered" => turn[j].pc = "answered" \/ Taken(j)
  /\ turn'[j].pc = "served" => turn[j].pc = "served"
  /\ j \in lost => j \in lost'
  /\ j \in lost' => \/ j \in lost
                    \/ /\ State(j) = "succeeded" /\ job'[j].delivered
                       /\ turn'[j].pc \notin {"answered", "served"}

\* Before its INSERT a job has nothing that could age.
LEMMA NotInserted ==
  ASSUME LInv, NEW j \in Jobs, caller[j] # "inserted"
  PROVE  /\ State(j) = "absent" /\ landed[j] = 0 /\ j \notin stale /\ j \notin aged
         /\ \A a \in Attempts : exec[j][a].phase = "none" /\ rows[j][a] = 0
BY DEF LInv, IInv, RowInv, JobInv, NoRow, State, Terminal

LEMMA QuietRow ==
  ASSUME LInv, IInv', NEW j \in Jobs, QuietJob(j), QuietLedger(j)
  PROVE  JobInv(j)'
<1>1. JobInv(j) /\ RowInv(j) /\ RowInv(j)' /\ job[j] \in RowType
  BY DEF LInv, IInv, TypeOK
<1>2. job[j].attempt \in Nat /\ \A a \in Attempts : a \in Nat
  BY <1>1, BoundsAssumption DEF RowType, Attempts
<1>3. caller'[j] # "inserted" =>
        \A a \in Attempts : exec'[j][a].phase = "none" /\ rows'[j][a] = 0
  BY <1>1, NotInserted DEF QuietJob, QuietLedger, ExecsKept, Active
<1>4. State(j)' # "absent" =>
        \A a \in Attempts : a > job'[j].attempt => exec'[j][a].phase = "none" /\ rows'[j][a] = 0
  <2>1. CASE State(j)' = State(j) /\ ExecsKept(j) /\ job'[j].attempt = job[j].attempt
    BY <1>1, <2>1 DEF JobInv, QuietLedger, ExecsKept
  <2>2. CASE State(j) \in Active /\ ExecsKept(j) /\ job'[j].attempt = job[j].attempt
    BY <1>1, <2>2 DEF JobInv, QuietLedger, ExecsKept, Active
  <2>3. CASE /\ State(j) = "queued" /\ job'[j].attempt = job[j].attempt + 1
             /\ \A a \in Attempts : a > job[j].attempt + 1 => exec'[j][a] = exec[j][a]
    <3>1. \A a \in Attempts : a > job[j].attempt + 1 => a > job[j].attempt
      BY <1>2
    <3> QED BY <1>1, <2>3, <3>1 DEF JobInv, QuietLedger
  <2> QED BY <2>1, <2>2, <2>3 DEF QuietJob
<1>5. State(j)' = "leased" => rows'[j][job'[j].attempt] = 0
  <2>1. CASE State(j) = "leased" /\ job'[j].attempt = job[j].attempt
    BY <1>1, <2>1 DEF JobInv, QuietLedger
  <2>2. CASE State(j) = "queued" /\ job'[j].attempt = job[j].attempt + 1 /\ State(j)' = "leased"
    <3>1. job'[j].attempt \in Attempts
      BY <1>1, <2>2 DEF RowInv, Active
    <3>2. job'[j].attempt > job[j].attempt
      BY <1>2, <2>2
    <3> QED BY <1>1, <2>2, <3>1, <3>2 DEF JobInv, QuietLedger
  <2> QED BY <2>1, <2>2 DEF QuietJob, Active
<1>6. landed'[j] # 0 /\ State(j)' # "absent" =>
        job'[j].leasedBy = WorkerOf[exec'[j][landed'[j]].slot]
  <2>1. ASSUME landed[j] # 0, State(j)' # "absent"
        PROVE  /\ State(j) \in {"succeeded", "failed", "cancelled"}
               /\ landed[j] \in Attempts
    <3>1. State(j) # "absent"
      BY <2>1 DEF QuietJob, Active
    <3>2. landed[j] \in 0 .. WorkAttempts
      BY DEF LInv, IInv, TypeOK
    <3> QED BY <1>1, <2>1, <3>1, <3>2, BoundsAssumption DEF RowInv, Attempts
  <2>2. ASSUME landed[j] # 0, State(j)' # "absent"
        PROVE  ExecsKept(j) /\ job'[j].leasedBy = job[j].leasedBy /\ State(j) # "absent"
    BY <2>1, <2>2 DEF QuietJob, Active
  <2> QED BY <1>1, <2>1, <2>2 DEF JobInv, QuietJob, ExecsKept
<1>7. j \in ToolJobs /\ State(j)' = "succeeded" => job'[j].delivered
  BY <1>1 DEF JobInv, QuietJob, Active
<1>8. j \in aged' => caller'[j] = "inserted"
  BY <1>1, NotInserted DEF JobInv, QuietJob, QuietLedger
<1>9. j \in sweep'.counted => sweep'.open /\ j \in stale'
  BY <1>1 DEF JobInv, QuietLedger
<1>10. j \in ChatJobs \cup ToolJobs /\ landed'[j] # 0 /\ j \notin torn' =>
         rows'[j][landed'[j]] <= 1
  BY <1>1 DEF JobInv, QuietLedger, QuietJob
<1> QED BY <1>3, <1>4, <1>5, <1>6, <1>7, <1>8, <1>9, <1>10 DEF JobInv

LEMMA QuietTurnKept ==
  ASSUME LInv, NEW j \in ChatJobs, QuietJob(j), QuietLedger(j), QuietTurn(j)
  PROVE  TurnInv(j)'
<1>1. TurnInv(j) /\ j \in Jobs
  BY DEF LInv, Jobs
<1>2. turn'[j].pc \in {"idle", "enqueue"} => caller'[j] # "inserted"
  BY <1>1 DEF TurnInv, QuietTurn, QuietJob
<1>3. Waiting(j)' => j \notin stale' /\ j \notin aged'
  BY <1>1, NotInserted DEF TurnInv, QuietTurn
<1>4. settle'[j] # "none" \/ j \in wanted' => turn'[j].pc = "fallen"
  BY DEF QuietTurn
<1>5. Outstanding(j)' => State(j)' = "succeeded" /\ job'[j].delivered /\ rows'[j][landed'[j]] = 0
  BY <1>1 DEF TurnInv, QuietTurn, QuietJob, QuietLedger, Taken, Active
<1>6. turn'[j].pc = "answered" => j \notin lost'
  BY <1>1 DEF TurnInv, QuietTurn, Taken
<1>7. State(j)' \in Active \/ caller'[j] # "inserted" => j \notin lost'
  BY <1>1, NotInserted DEF TurnInv, QuietTurn, QuietJob, Active
<1>8. State(j)' = "succeeded" /\ ~job'[j].delivered /\ j \notin stale' =>
        j \notin lost' /\ rows'[j][landed'[j]] = 0
  BY <1>1 DEF TurnInv, QuietTurn, QuietJob, QuietLedger, Active
<1>9. State(j)' = "succeeded" /\ ~job'[j].delivered /\ ~job'[j].scrubbed
      /\ j \notin torn' /\ j \notin sweep'.counted => rows'[j][landed'[j]] = 0
  BY <1>1 DEF TurnInv, QuietJob, QuietLedger, Active
<1>10. turn'[j].pc = "served" =>
         /\ caller'[j] = "inserted"
         /\ State(j)' \in {"succeeded", "absent"}
         /\ State(j)' = "succeeded" => job'[j].delivered
         /\ landed'[j] = 1
         /\ rows'[j][1] = IF j \in lost' THEN 0 ELSE 1
  BY <1>1 DEF TurnInv, QuietTurn, QuietJob, QuietLedger, Active
<1> QED BY <1>2, <1>3, <1>4, <1>5, <1>6, <1>7, <1>8, <1>9, <1>10 DEF TurnInv

\* Nobody who acts on the ledger or for the turn of job j takes the step.
LEMMA TurnUntouched ==
  ASSUME LInv, NEW j \in ChatJobs, turn'[j] = turn[j], settle'[j] = settle[j],
         j \in wanted' <=> j \in wanted, j \in lost' <=> j \in lost,
         Waiting(j) => (j \in stale' => j \in stale) /\ (j \in aged' => j \in aged)
  PROVE  QuietTurn(j)
BY DEF LInv, TurnInv, QuietTurn, Waiting, Outstanding

\* A step that neither touches the ledger nor the turn of any chat job.
LEMMA QuietStep ==
  ASSUME LInv, IInv', NEW j \in Jobs, QuietJob(j), QuietLedger(j),
         UNCHANGED <<turn, wanted, settle, lost>>,
         j \in ChatJobs /\ Waiting(j) =>
           (j \in stale' => j \in stale) /\ (j \in aged' => j \in aged)
  PROVE  JobInv(j)' /\ (j \in ChatJobs => TurnInv(j)')
BY QuietRow, QuietTurnKept, TurnUntouched

-----------------------------------------------------------------------------
(***************************************************************************)
(* The turns                                                               *)
(***************************************************************************)

LEMMA InsertRow ==
  ASSUME LInv, NEW i \in Jobs, EnqueueInsert(i), UNCHANGED <<rows, torn, sweep>>
  PROVE  /\ JobInv(i)' /\ State(i)' = "queued" /\ caller'[i] = "inserted"
         /\ i \notin stale' /\ i \notin aged'
         /\ \A j \in Jobs : j # i => QuietJob(j) /\ QuietLedger(j)
<1>1. TypeOK /\ JobInv(i) /\ caller[i] # "inserted"
  BY DEF LInv, IInv, EnqueueInsert
<1>2. job'[i].state = "queued" /\ caller'[i] = "inserted"
  BY <1>1 DEF EnqueueInsert, TypeOK, NoRow
<1>3. UNCHANGED <<exec, landed, clocks>>
  BY DEF EnqueueInsert
<1>4. JobInv(i)'
  BY <1>1, <1>2, <1>3, NotInserted DEF JobInv, State, clocks
<1>5. ASSUME NEW j \in Jobs, j # i PROVE QuietJob(j) /\ QuietLedger(j)
  <2>1. job'[j] = job[j] /\ caller'[j] = caller[j] /\ ExecsKept(j)
    BY <1>1, <1>3, <1>5 DEF EnqueueInsert, TypeOK, ExecsKept
  <2> QED BY <1>3, <2>1, SameJob DEF QuietLedger, clocks
<1> QED BY <1>1, <1>2, <1>3, <1>4, <1>5, NotInserted DEF State, clocks

\* The steps of a turn that insert nothing and write no row.
Plain(i) == HubTurn(i) /\ ~TurnInserts(i) /\ ~RecordServed(i) /\ ~SettleLog(i)

LEMMA PlainRow ==
  ASSUME LInv, NEW i \in ChatJobs, Plain(i), NEW j \in Jobs
  PROVE  QuietJob(j) /\ QuietLedger(j) /\ UNCHANGED <<stale, aged>>
<1>1. TypeOK /\ i \in Jobs
  BY DEF LInv, IInv, Jobs
<1>2. UNCHANGED <<rows, torn, sweep, stale, aged>>
  BY DEF Plain, HubTurn, TurnBegins, TurnChecks, TurnThrows, GiveUp, Poll, KeepWaiting,
         FallThroughAndCancel, FallThrough, TakeAnswer, TakeThrows, DeliveryThrows,
         SettleLook, SettleTake, SettleThrows, DetachedCancel, HubDies, EnqueueCheck,
         DeliverResult, CancelQueued, ledgerVars, vars, clocks
<1>3. UNCHANGED vars \/ EnqueueCheck(i) \/ DeliverResult(i) \/ CancelQueued(i)
  BY DEF Plain, HubTurn, TurnBegins, TurnChecks, TurnThrows, GiveUp, Poll, KeepWaiting,
         FallThroughAndCancel, FallThrough, TakeAnswer, TakeThrows, DeliveryThrows,
         SettleLook, SettleTake, SettleThrows, DetachedCancel, HubDies
<1>4. ASSUME UNCHANGED vars PROVE QuietJob(j)
  BY <1>4, SameJob DEF vars, ExecsKept
<1>5. ASSUME EnqueueCheck(i) PROVE QuietJob(j)
  <2>1. UNCHANGED <<job, exec, landed>> /\ (caller'[j] = "inserted" <=> caller[j] = "inserted")
    BY <1>1, <1>5 DEF EnqueueCheck, TypeOK
  <2> QED BY <2>1, SameJob DEF ExecsKept
<1>6. QuietJob(j)
  BY <1>1, <1>3, <1>4, <1>5, DeliverQuiet, CancelQuiet
<1> QED BY <1>2, <1>6 DEF QuietLedger

\* The other turns are not touched.
LEMMA OtherTurns ==
  ASSUME LInv, NEW i \in ChatJobs, HubTurn(i), UNCHANGED <<stale, aged>>,
         NEW j \in ChatJobs, j # i
  PROVE  QuietTurn(j)
<1>1. HubTypeOK /\ CountsTypeOK /\ j \in Jobs /\ i \in Jobs
  BY TypesAre DEF LInv, Jobs
<1>2. turn'[j] = turn[j] /\ settle'[j] = settle[j] /\ (j \in wanted' <=> j \in wanted)
  BY <1>1
  DEF HubTypeOK, HubTurn, TurnBegins, TurnChecks, TurnInserts, TurnThrows, GiveUp, Poll,
      KeepWaiting, FallThroughAndCancel, FallThrough, TakeAnswer, TakeThrows,
      RecordServed, SettleLook, SettleTake, SettleThrows, SettleLog,
      DetachedCancel, HubDies, GoTo
<1>3. j \in lost' <=> j \in lost
  BY <1>1
  DEF HubTurn, TurnBegins, TurnChecks, TurnInserts, TurnThrows, GiveUp, Poll,
      KeepWaiting, FallThroughAndCancel, FallThrough, TakeAnswer, TakeThrows,
      DeliveryThrows, RecordServed, RecordRun, SettleLook, SettleTake, SettleThrows,
      SettleLog, DetachedCancel, HubDies, ledgerVars
<1> QED BY <1>1, <1>2, <1>3, TurnUntouched

LEMMA PlainTurn ==
  ASSUME LInv, NEW i \in ChatJobs, Plain(i)
  PROVE  QuietTurn(i)
<1>1. TypeOK /\ HubTypeOK /\ TurnInv(i) /\ i \in Jobs
  BY TypesAre DEF LInv, IInv, Jobs
<1>2. UNCHANGED <<stale, aged>>
  BY <1>1, PlainRow
<1>3. ASSUME NEW pc, GoTo(i, pc) PROVE turn'[i].pc = pc
  BY <1>1, <1>3 DEF GoTo, HubTypeOK
<1>4. ASSUME DeliverResult(i) PROVE State(i) = "succeeded" /\ job'[i].delivered /\ ~job[i].delivered
  BY <1>1, <1>4, DeliverQuiet DEF DeliverResult, Deliverable
<1>5. ASSUME DeliveryThrows(i)
      PROVE  lost' = lost \/ (lost' = lost \cup {i} /\ State(i) = "succeeded" /\ job'[i].delivered)
  BY <1>4, <1>5 DEF DeliveryThrows
<1>6. CASE TurnBegins(i)
  BY <1>1, <1>2, <1>3, <1>6
  DEF TurnBegins, TurnInv, QuietTurn, Waiting, Outstanding, ledgerVars
<1>7. CASE TurnChecks(i) \/ TurnThrows(i)
  <2>1. turn[i].pc = "enqueue" /\ turn'[i].pc \in {"enqueue", "fallen"}
        /\ UNCHANGED <<wanted, settle, lost>>
    BY <1>3, <1>7 DEF TurnChecks, TurnThrows, ledgerVars
  <2> QED BY <1>1, <1>2, <2>1 DEF TurnInv, QuietTurn, Waiting, Outstanding
<1>8. CASE GiveUp(i) \/ FallThroughAndCancel(i) \/ FallThrough(i)
  <2>1. /\ turn[i].pc = "waiting" /\ turn'[i].pc = "fallen" /\ lost' = lost
        /\ settle'[i] \in {settle[i], "look"}
    BY <1>1, <1>3, <1>8
    DEF GiveUp, FallThroughAndCancel, FallThrough, Seen, HubTypeOK, ledgerVars
  <2> QED BY <1>1, <1>2, <2>1 DEF TurnInv, QuietTurn, Waiting, Outstanding
<1>9. CASE Poll(i) \/ KeepWaiting(i)
  <2>1. turn[i].pc = "waiting" /\ turn'[i].pc = "waiting" /\ UNCHANGED <<wanted, settle, lost>>
    <3>1. CASE Poll(i)
      BY <1>1, <3>1 DEF Poll, HubTypeOK, TurnType, ledgerVars
    <3>2. CASE KeepWaiting(i)
      BY <1>3, <3>2 DEF KeepWaiting, Seen, ledgerVars
    <3> QED BY <1>9, <3>1, <3>2
  <2> QED BY <1>1, <1>2, <2>1 DEF TurnInv, QuietTurn, Waiting, Outstanding
<1>10. CASE TakeAnswer(i)
  <2>1. /\ turn[i].pc = "waiting" /\ i \notin stale /\ UNCHANGED <<wanted, settle, lost>>
        /\ turn'[i].pc = "fallen" \/ (DeliverResult(i) /\ turn'[i].pc = "answered")
    BY <1>1, <1>3, <1>10 DEF TakeAnswer, Seen, TurnInv, Waiting, ledgerVars
  <2> QED BY <1>1, <1>2, <1>4, <2>1 DEF TurnInv, QuietTurn, Waiting, Outstanding, Taken
<1>11. CASE TakeThrows(i)
  <2>1. turn[i].pc = "waiting" /\ turn'[i].pc = "fallen" /\ UNCHANGED settle
    BY <1>3, <1>11 DEF TakeThrows, Seen
  <2> QED BY <1>1, <1>2, <1>5, <1>11, <2>1
          DEF TakeThrows, TurnInv, QuietTurn, Waiting, Outstanding
<1>12. CASE SettleLook(i)
  <2>1. settle[i] = "look" /\ settle'[i] \in {"take", "none"} /\ UNCHANGED <<turn, wanted, lost>>
    BY <1>1, <1>12 DEF SettleLook, HubTypeOK, ledgerVars
  <2> QED BY <1>1, <1>2, <2>1 DEF TurnInv, QuietTurn, Waiting, Outstanding
<1>13. CASE SettleTake(i)
  <2>1. /\ settle[i] = "take" /\ i \notin stale /\ UNCHANGED <<turn, wanted, lost>>
        /\ settle'[i] = "none" \/ (DeliverResult(i) /\ settle'[i] = "log")
    BY <1>1, <1>13 DEF SettleTake, TurnInv, Waiting, HubTypeOK, ledgerVars
  <2> QED BY <1>1, <1>2, <1>4, <2>1 DEF TurnInv, QuietTurn, Waiting, Outstanding, Taken
<1>14. CASE SettleThrows(i)
  <2>1. settle[i] = "take" /\ settle'[i] = "none" /\ UNCHANGED <<turn, wanted>>
    BY <1>1, <1>14 DEF SettleThrows, HubTypeOK
  <2> QED BY <1>1, <1>2, <1>5, <1>14, <2>1
          DEF SettleThrows, TurnInv, QuietTurn, Waiting, Outstanding
<1>15. CASE DetachedCancel(i)
  <2>1. i \in wanted /\ i \notin wanted' /\ UNCHANGED <<turn, settle, lost>>
    BY <1>15 DEF DetachedCancel, ledgerVars
  <2> QED BY <1>1, <1>2, <2>1 DEF TurnInv, QuietTurn, Waiting, Outstanding
<1>16. CASE HubDies(i)
  <2>1. turn'[i].pc \in {"fallen", "dead"} /\ i \notin wanted' /\ settle'[i] = "none"
    BY <1>1, <1>3, <1>16 DEF HubDies, HubTypeOK
  <2>2. UNCHANGED job /\ (lost' = lost \/ (lost' = lost \cup {i} /\ Outstanding(i)))
    BY <1>16 DEF HubDies, Outstanding, vars
  <2> QED BY <1>1, <1>2, <2>1, <2>2 DEF TurnInv, QuietTurn, Waiting, Outstanding
<1> QED BY <1>6, <1>7, <1>8, <1>9, <1>10, <1>11, <1>12, <1>13, <1>14, <1>15, <1>16
        DEF Plain, HubTurn

LEMMA TurnInsertKept ==
  ASSUME LInv, IInv', NEW i \in ChatJobs, TurnInserts(i), NEW j \in Jobs
  PROVE  JobInv(j)' /\ (j \in ChatJobs => TurnInv(j)')
<1>1. TypeOK /\ HubTypeOK /\ TurnInv(i) /\ i \in Jobs
  BY TypesAre DEF LInv, IInv, Jobs
<1>2. /\ EnqueueInsert(i) /\ turn[i].pc = "enqueue" /\ turn'[i].pc \in {"waiting", "fallen"}
      /\ UNCHANGED <<wanted, settle, rows, torn, sweep, lost>>
  BY <1>1 DEF TurnInserts, GoTo, HubTypeOK, ledgerVars
<1>3. HubTurn(i) /\ UNCHANGED <<stale, aged>>
  BY <1>2 DEF HubTurn, EnqueueInsert, clocks
<1>4. CASE j = i
  <2>1. caller[i] # "inserted" /\ landed' = landed
    BY <1>2 DEF EnqueueInsert
  <2>2. settle[i] = "none" /\ i \notin wanted /\ i \notin lost
    BY <1>1, <1>2, <2>1 DEF TurnInv
  <2>3. TurnInv(i)'
    BY <1>1, <1>2, <2>1, <2>2, InsertRow DEF TurnInv, Waiting, Outstanding, Active
  <2> QED BY <1>1, <1>2, <1>4, <2>3, InsertRow
<1>5. CASE j # i
  <2>1. QuietJob(j) /\ QuietLedger(j)
    BY <1>1, <1>2, <1>5, InsertRow
  <2> QED BY <1>3, <1>5, <2>1, OtherTurns, QuietRow, QuietTurnKept
<1> QED BY <1>4, <1>5

\* A chat turn has one claim, so the answer that landed is that of attempt 1.
LEMMA ChatLandsFirst ==
  ASSUME LInv, NEW j \in ChatJobs
  PROVE  /\ State(j) # "absent" => job[j].attempt <= 1
         /\ State(j) = "succeeded" => landed[j] = 1 /\ job[j].attempt = 1
         /\ 1 \in Attempts /\ j \in Jobs
<1>1. j \in Jobs /\ RowInv(j) /\ job[j].attempt \in Nat
  BY BoundsAssumption DEF LInv, IInv, TypeOK, RowType, Jobs
<1>2. landed[j] \in Nat /\ 1 \in Attempts
  BY <1>1, BoundsAssumption DEF LInv, IInv, TypeOK, Attempts
<1> QED BY <1>1, <1>2 DEF RowInv, MaxAttempts

\* Whoever took the answer writes the only row for it, or loses it.
LEMMA TakerWrites ==
  ASSUME LInv, IInv', NEW i \in ChatJobs, Outstanding(i), RecordRun(i, job[i].attempt),
         UNCHANGED <<vars, sweep, torn>>
  PROVE  /\ JobInv(i)' /\ landed[i] = 1 /\ lost \subseteq lost'
         /\ (rows'[i][1] = 1 /\ lost' = lost) \/ (rows'[i][1] = 0 /\ i \in lost')
         /\ \A j \in Jobs : j # i => QuietJob(j) /\ QuietLedger(j)
<1>1. /\ LedgerTypeOK /\ i \in Jobs /\ JobInv(i) /\ TurnInv(i) /\ RowInv(i)
      /\ State(i) = "succeeded" /\ job[i].delivered /\ landed[i] = 1
      /\ job[i].attempt = 1 /\ 1 \in Attempts /\ rows[i][1] = 0
  BY ChatLandsFirst DEF LInv, IInv, TurnInv
<1>2. 1 \in 0 .. WorkAttempts /\ AtMostTwo(0 + 1) = 1
  BY <1>1 DEF Attempts, AtMostTwo
<1>3. /\ (rows'[i][1] = 1 /\ lost' = lost) \/ (rows'[i][1] = 0 /\ i \in lost')
      /\ \A b \in Attempts : b # 1 => rows'[i][b] = rows[i][b]
      /\ \A j \in Jobs : j # i => rows'[j] = rows[j]
      /\ lost \subseteq lost'
  <2>1. RecordRun(i, 1)
    BY <1>1
  <2>2. /\ \A b \in Attempts : b # 1 => rows'[i][b] = rows[i][b]
        /\ \A j \in Jobs : j # i => rows'[j] = rows[j]
        /\ lost \subseteq lost'
    BY <1>1, <1>2, <2>1, RecordRunAdds
  <2>3. \/ i \in lost' /\ rows'[i][1] = rows[i][1]
        \/ lost' = lost /\ rows'[i][1] = AtMostTwo(rows[i][1] + 1)
    BY <1>1, <1>2, <2>1, RecordRunAdds
  <2> QED BY <1>1, <1>2, <2>2, <2>3
<1>4. JobInv(i)'
  <2>1. caller[i] = "inserted"
    BY <1>1 DEF RowInv, NoRow, State
  <2>2. \A a \in Attempts : a > 1 => a # 1
    OBVIOUS
  <2>3. rows'[i][1] <= 1
    BY <1>3
  <2> QED BY <1>1, <1>3, <2>1, <2>2, <2>3 DEF JobInv, State, vars
<1>5. ASSUME NEW j \in Jobs, j # i PROVE QuietJob(j) /\ QuietLedger(j)
  BY <1>3, <1>5, SameJob DEF vars, ExecsKept, QuietLedger
<1> QED BY <1>1, <1>3, <1>4, <1>5

LEMMA TakerKept ==
  ASSUME LInv, IInv', NEW i \in ChatJobs, RecordServed(i) \/ SettleLog(i), NEW j \in Jobs
  PROVE  JobInv(j)' /\ (j \in ChatJobs => TurnInv(j)')
<1>1. /\ HubTypeOK /\ TurnInv(i) /\ i \in Jobs /\ RowInv(i)
      /\ Outstanding(i) /\ RecordRun(i, job[i].attempt) /\ HubTurn(i)
      /\ UNCHANGED <<vars, sweep, torn, wanted, stale, aged>>
  BY TypesAre DEF LInv, IInv, RecordServed, SettleLog, Outstanding, HubTurn, vars, Jobs
<1>2. /\ State(i) = "succeeded" /\ job[i].delivered /\ caller[i] = "inserted"
      /\ landed[i] = 1 /\ rows[i][1] = 0
  BY <1>1, ChatLandsFirst DEF TurnInv, RowInv, NoRow, State
<1>3. (rows'[i][1] = 1 /\ lost' = lost) \/ (rows'[i][1] = 0 /\ i \in lost')
  BY <1>1, TakerWrites
<1>4. CASE j = i
  <2>1. CASE RecordServed(i)
    <3>1. turn'[i].pc = "served" /\ settle' = settle /\ turn[i].pc = "answered"
      BY <1>1, <2>1 DEF RecordServed, GoTo, HubTypeOK
    <3>2. settle[i] = "none" /\ i \notin wanted /\ i \notin lost
      BY <1>1, <3>1 DEF TurnInv
    <3>3. TurnInv(i)'
      BY <1>1, <1>2, <1>3, <3>1, <3>2 DEF TurnInv, Waiting, Outstanding, State, Active, vars
    <3> QED BY <1>1, <1>4, <3>3, TakerWrites
  <2>2. CASE SettleLog(i)
    <3>1. turn'[i].pc = "fallen" /\ settle'[i] = "none" /\ turn[i].pc = "fallen"
      BY <1>1, <2>2 DEF SettleLog, HubTypeOK, TurnInv
    <3>2. i \in wanted => i \notin stale /\ i \notin aged
      BY <1>1 DEF TurnInv, Waiting
    <3>3. TurnInv(i)'
      BY <1>1, <1>2, <3>1, <3>2 DEF TurnInv, Waiting, Outstanding, State, Active, vars
    <3> QED BY <1>1, <1>4, <3>3, TakerWrites
  <2> QED BY <2>1, <2>2
<1>5. CASE j # i
  <2>1. QuietJob(j) /\ QuietLedger(j)
    BY <1>1, <1>5, TakerWrites
  <2> QED BY <1>1, <1>5, <2>1, OtherTurns, QuietRow, QuietTurnKept
<1> QED BY <1>4, <1>5

LEMMA TurnKept ==
  ASSUME LInv, IInv', NEW i \in ChatJobs, HubTurn(i), NEW j \in Jobs
  PROVE  JobInv(j)' /\ (j \in ChatJobs => TurnInv(j)')
<1>1. CASE Plain(i)
  <2>1. QuietJob(j) /\ QuietLedger(j) /\ UNCHANGED <<stale, aged>>
    BY <1>1, PlainRow
  <2>2. j \in ChatJobs => QuietTurn(j)
    BY <1>1, <2>1, PlainTurn, OtherTurns
  <2> QED BY <2>1, <2>2, QuietRow, QuietTurnKept
<1> QED BY <1>1, TurnInsertKept, TakerKept DEF Plain

-----------------------------------------------------------------------------
(***************************************************************************)
(* The result route                                                        *)
(***************************************************************************)

\* What a POST does to the job it is for.
LEMMA PostOutcome ==
  ASSUME LInv, NEW i \in Jobs, NEW a \in Attempts, NEW seen \in BOOLEAN,
         PostArrives(i, a, seen)
  PROVE  \/ /\ UNCHANGED <<job, landed>>
            /\ Outcome(i, a) \in {"not_found", "duplicate"}
         \/ /\ UNCHANGED <<job, landed>>
            /\ Outcome(i, a) = "discarded_lease_lost"
            /\ State(i) # "absent" /\ ~(State(i) = "leased" /\ Mine(i, a)) /\ a # landed[i]
         \/ /\ Outcome(i, a) \in {"recorded", "discarded_cancelled"}
            /\ State(i) = "leased" /\ Mine(i, a)
            /\ State(i)' \in {"succeeded", "failed", "cancelled"}
            /\ State(i)' = "succeeded" => Outcome(i, a) = "recorded"
            /\ i \in ToolJobs /\ State(i)' = "succeeded" => job'[i].delivered
            /\ landed'[i] = a /\ job'[i].attempt = a
            /\ job'[i].leasedBy = job[i].leasedBy
<1>1. TypeOK /\ RowInv(i) /\ JobInv(i) /\ job[i] \in RowType
  BY DEF LInv, IInv, TypeOK
<1>2. CASE Outcome(i, a) \in {"recorded", "discarded_cancelled"}
  <2>1. State(i) = "leased" /\ Mine(i, a)
    BY <1>2 DEF Outcome
  <2>2. job'[i] = ResultRow(i, a) /\ landed'[i] = a
    BY <1>1, <1>2 DEF PostArrives, TypeOK
  <2>3. CASE Outcome(i, a) = "discarded_cancelled"
    BY <1>1, <2>1, <2>2, <2>3 DEF ResultRow, Ended, RowType, State, Mine
  <2>4. CASE Outcome(i, a) = "recorded" /\ exec[i][a].ok
    BY <1>1, <2>1, <2>2, <2>4 DEF ResultRow, Succeeded, Delivered, RowType, State, Mine
  <2>5. CASE Outcome(i, a) = "recorded" /\ ~exec[i][a].ok
    BY <1>1, <2>1, <2>2, <2>5 DEF ResultRow, Ended, RowType, State, Mine
  <2> QED BY <1>2, <2>3, <2>4, <2>5
<1>3. CASE Outcome(i, a) = "discarded_lease_lost"
  <2>1. /\ State(i) # "absent" /\ ~(State(i) = "leased" /\ Mine(i, a))
        /\ ~(State(i) \in {"succeeded", "failed", "cancelled"} /\ Mine(i, a))
    BY <1>3 DEF Outcome
  <2>2. a # landed[i]
    <3> SUFFICES ASSUME a = landed[i] PROVE FALSE
      OBVIOUS
    <3>1. a # 0
      BY DEF Attempts
    <3> QED BY <1>1, <2>1, <3>1 DEF RowInv, JobInv, Mine
  <2> QED BY <1>3, <2>1, <2>2 DEF PostArrives
<1>4. CASE Outcome(i, a) \in {"not_found", "duplicate"}
  BY <1>4 DEF PostArrives
<1>5. Outcome(i, a) \in {"not_found", "recorded", "discarded_cancelled", "duplicate",
                         "discarded_lease_lost"}
  BY DEF Outcome
<1> QED BY <1>2, <1>3, <1>4, <1>5

\* A POST that is discarded leaves the job's own account alone: an execution
\* that is still posting is no later than the newest claim, and it is neither
\* the holder's nor the one that landed.
LEMMA DiscardedKept ==
  ASSUME LInv, IInv', NEW i \in Jobs, NEW a \in Attempts, NEW seen \in BOOLEAN,
         ResultRoute(i, a, seen), Outcome(i, a) = "discarded_lease_lost"
  PROVE  JobInv(i)' /\ (i \in ChatJobs => TurnInv(i)')
<1>1. /\ LedgerTypeOK /\ RowInv(i) /\ JobInv(i) /\ job[i].attempt \in 0 .. WorkAttempts
      /\ PostArrives(i, a, seen) /\ RecordRun(i, a) /\ exec[i][a].phase = "posting"
      /\ UNCHANGED <<turn, wanted, settle, sweep, torn, slipped, clocks, caller>>
  BY DEF LInv, IInv, TypeOK, RowType, ResultRoute, RouteRecords, PostArrives, Posting, hubVars
<1>2. /\ UNCHANGED <<job, landed>> /\ State(i) # "absent" /\ a # landed[i]
      /\ ~(State(i) = "leased" /\ Mine(i, a))
  BY <1>1, PostOutcome
<1>3. ExecsKept(i) /\ UNCHANGED <<stale, aged>>
  BY <1>1, PostedExecs DEF LInv, IInv, PostArrives, clocks
<1>4. a \in 0 .. WorkAttempts /\ a # 0 /\ a <= job[i].attempt
  <2>1. a \in Nat /\ a # 0 /\ a \in 0 .. WorkAttempts
    BY BoundsAssumption DEF Attempts
  <2>2. ~(a > job[i].attempt)
    BY <1>1, <1>2 DEF JobInv
  <2> QED BY <1>1, <2>1, <2>2, BoundsAssumption
<1>5. /\ \A b \in Attempts : b # a => rows'[i][b] = rows[i][b]
      /\ lost \subseteq lost'
  BY <1>1, <1>4, RecordRunAdds
<1>6. State(i) = "leased" => a # job[i].attempt
  BY <1>1, <1>2 DEF RowInv, Mine
<1>7. caller[i] = "inserted"
  BY <1>1, <1>2 DEF RowInv, NoRow, State
<1>8. landed[i] # 0 => landed[i] \in Attempts
  BY BoundsAssumption DEF LInv, IInv, TypeOK, Attempts
<1>9. JobInv(i)'
  <2>1. \A b \in Attempts : b > job[i].attempt =>
          exec'[i][b].phase = "none" /\ rows'[i][b] = 0
    <3>1. \A b \in Attempts : b > job[i].attempt => b # a
      BY <1>1, <1>4
    <3> QED BY <1>1, <1>2, <1>3, <1>5, <3>1 DEF JobInv, ExecsKept
  <2>2. State(i) = "leased" => rows'[i][job[i].attempt] = 0
    BY <1>1, <1>5, <1>6 DEF RowInv, JobInv
  <2>3. landed[i] # 0 => job[i].leasedBy = WorkerOf[exec'[i][landed[i]].slot]
    BY <1>1, <1>2, <1>3, <1>8 DEF JobInv, ExecsKept
  <2>4. landed[i] # 0 => rows'[i][landed[i]] = rows[i][landed[i]]
    BY <1>2, <1>5, <1>8
  <2> QED BY <1>1, <1>2, <1>3, <1>7, <2>1, <2>2, <2>3, <2>4 DEF JobInv, State
<1>10. ASSUME i \in ChatJobs PROVE TurnInv(i)'
  <2>1. a = 1 /\ job[i].attempt = 1
    BY <1>1, <1>2, <1>4, <1>10, ChatLandsFirst
  <2>2. State(i) \in {"cancelled", "expired"}
    <3>1. State(i) # "queued"
      BY <1>1, <1>10, <2>1 DEF RowInv, MaxAttempts
    <3>2. State(i) # "leased"
      BY <1>6, <2>1
    <3>3. State(i) \notin {"succeeded", "failed"}
      BY <1>1, <1>2, <2>1 DEF RowInv
    <3>4. State(i) \in {"absent"} \cup Active \cup Terminal
      BY DEF LInv, IInv, TypeOK, RowType, State
    <3> QED BY <1>2, <3>1, <3>2, <3>3, <3>4 DEF Active, Terminal
  <2>3. TurnInv(i)
    BY <1>10 DEF LInv
  <2> QED BY <1>1, <1>2, <1>3, <1>7, <2>2, <2>3
          DEF TurnInv, Waiting, Outstanding, State, Active
<1> QED BY <1>9, <1>10

\* The POST that ends a job is the first to write for its attempt, and of a chat
\* turn only what it discards.
LEMMA LandingKept ==
  ASSUME LInv, IInv', NEW i \in Jobs, NEW a \in Attempts, NEW seen \in BOOLEAN,
         ResultRoute(i, a, seen), Outcome(i, a) \in {"recorded", "discarded_cancelled"}
  PROVE  JobInv(i)' /\ (i \in ChatJobs => TurnInv(i)')
<1>1. /\ LedgerTypeOK /\ RowInv(i) /\ JobInv(i) /\ a \in 0 .. WorkAttempts
      /\ PostArrives(i, a, seen)
      /\ UNCHANGED <<turn, wanted, settle, sweep, torn, slipped, clocks, caller>>
  BY BoundsAssumption DEF LInv, IInv, Attempts, ResultRoute, PostArrives, hubVars
<1>2. /\ State(i) = "leased" /\ Mine(i, a)
      /\ State(i)' \in {"succeeded", "failed", "cancelled"}
      /\ State(i)' = "succeeded" => Outcome(i, a) = "recorded"
      /\ i \in ToolJobs /\ State(i)' = "succeeded" => job'[i].delivered
      /\ landed'[i] = a /\ job'[i].attempt = a /\ job'[i].leasedBy = job[i].leasedBy
  BY <1>1, PostOutcome
<1>3. ExecsKept(i) /\ UNCHANGED <<stale, aged>>
  BY <1>1, PostedExecs DEF LInv, IInv, PostArrives, clocks
<1>4. /\ job[i].attempt = a /\ rows[i][a] = 0 /\ caller[i] = "inserted"
      /\ job[i].leasedBy = WorkerOf[exec[i][a].slot] /\ i \notin stale
  BY <1>1, <1>2 DEF JobInv, RowInv, Mine, NoRow, State, Terminal
<1>5. /\ rows'[i][a] \in {0, 1}
      /\ \A b \in Attempts : b # a => rows'[i][b] = rows[i][b]
  <2>1. CASE RecordRun(i, a)
    <3>1. rows'[i][a] = rows[i][a] \/ rows'[i][a] = AtMostTwo(rows[i][a] + 1)
      BY <1>1, <2>1, RecordRunAdds
    <3>2. AtMostTwo(0 + 1) = 1
      BY DEF AtMostTwo
    <3>3. \A b \in Attempts : b # a => rows'[i][b] = rows[i][b]
      BY <1>1, <2>1, RecordRunAdds
    <3> QED BY <1>4, <3>1, <3>2, <3>3
  <2>2. CASE UNCHANGED rows
    BY <1>4, <2>2
  <2> QED BY <2>1, <2>2 DEF ResultRoute
<1>6. JobInv(i)'
  <2>1. \A b \in Attempts : b > a => exec'[i][b].phase = "none" /\ rows'[i][b] = 0
    <3>1. \A b \in Attempts : b > a => b # a
      BY DEF Attempts
    <3> QED BY <1>1, <1>2, <1>3, <1>4, <1>5, <3>1 DEF JobInv, ExecsKept
  <2>2. job'[i].leasedBy = WorkerOf[exec'[i][a].slot]
    BY <1>2, <1>3, <1>4 DEF ExecsKept
  <2>3. rows'[i][a] <= 1
    BY <1>5
  <2>4. i \in aged' => caller'[i] = "inserted"
    BY <1>1, <1>4
  <2>5. i \notin sweep'.counted
    BY <1>1, <1>4 DEF JobInv
  <2> QED BY <1>1, <1>2, <1>4, <2>1, <2>2, <2>3, <2>4, <2>5 DEF JobInv
<1>7. ASSUME i \in ChatJobs PROVE TurnInv(i)'
  <2>1. TurnInv(i) /\ i \notin lost
    BY <1>2, <1>7 DEF LInv, TurnInv, Active
  <2>2. State(i)' = "succeeded" => UNCHANGED <<rows, lost>>
    BY <1>2, <1>7 DEF ResultRoute, RouteRecords, Kind
  <2> QED BY <1>1, <1>2, <1>3, <1>4, <2>1, <2>2
          DEF TurnInv, Waiting, Outstanding, Active
<1> QED BY <1>6, <1>7

LEMMA RouteKept ==
  ASSUME LInv, IInv', NEW i \in Jobs, NEW a \in Attempts, NEW seen \in BOOLEAN,
         ResultRoute(i, a, seen), NEW j \in Jobs
  PROVE  JobInv(j)' /\ (j \in ChatJobs => TurnInv(j)')
<1>1. /\ LedgerTypeOK /\ TypeOK /\ a \in 0 .. WorkAttempts /\ PostArrives(i, a, seen)
      /\ Posting(i, a) /\ Posted(i, a, seen)
      /\ UNCHANGED <<turn, wanted, settle, sweep, torn, stale, aged, caller>>
  BY BoundsAssumption DEF LInv, IInv, Attempts, ResultRoute, PostArrives, hubVars, clocks
<1>2. ExecsKept(j)
  BY <1>1, PostedExecs
<1>3. ASSUME job'[j] = job[j], landed'[j] = landed[j], rows'[j] = rows[j],
             j \in lost' <=> j \in lost
      PROVE  JobInv(j)' /\ (j \in ChatJobs => TurnInv(j)')
  <2>1. QuietJob(j) /\ QuietLedger(j)
    BY <1>1, <1>2, <1>3, SameJob DEF QuietLedger
  <2>2. j \in ChatJobs => QuietTurn(j)
    BY <1>1, <1>3, TurnUntouched
  <2> QED BY <2>1, <2>2, QuietRow, QuietTurnKept
<1>4. CASE j # i
  <2>1. job'[j] = job[j] /\ landed'[j] = landed[j]
    BY <1>1, <1>4 DEF PostArrives, TypeOK
  <2>2. rows'[j] = rows[j] /\ (j \in lost' <=> j \in lost)
    BY <1>1, <1>4, RecordRunAdds DEF ResultRoute
  <2> QED BY <1>3, <2>1, <2>2
<1>5. CASE j = i /\ Outcome(i, a) \in {"not_found", "duplicate"}
  <2>1. UNCHANGED <<job, landed, rows, lost>>
    BY <1>1, <1>5 DEF PostArrives, ResultRoute, RouteRecords
  <2> QED BY <1>3, <2>1
<1> QED BY <1>1, <1>4, <1>5, PostOutcome, DiscardedKept, LandingKept

-----------------------------------------------------------------------------
(***************************************************************************)
(* The sweep, and the rest                                                 *)
(***************************************************************************)

\* The sweep counts an answer nobody took, once its window has closed on a turn
\* that is over; until the sweep commits the job is in counted.
LEMMA CountsKept ==
  ASSUME LInv, IInv', SweepCounts, NEW j \in Jobs
  PROVE  JobInv(j)' /\ (j \in ChatJobs => TurnInv(j)')
<1>1. /\ LedgerTypeOK /\ RowInv(j) /\ JobInv(j) /\ ~sweep.open
      /\ sweep' = [open |-> TRUE, ended |-> TerminalNow, counted |-> Orphans]
      /\ UNCHANGED <<job, caller, exec, landed, stale, aged, turn, wanted, settle, torn>>
  BY DEF LInv, IInv, SweepCounts, vars, hubVars
<1>2. PICK written \in SUBSET Orphans :
        /\ rows' = [k \in Jobs |-> [a \in Attempts |->
             IF k \in written /\ a = job[k].attempt
             THEN AtMostTwo(rows[k][a] + 1) ELSE rows[k][a]]]
        /\ lost' = lost \cup (Orphans \ written)
  BY DEF SweepCounts
<1>3. rows \in CountType /\ Orphans \subseteq Jobs /\ Orphans \subseteq stale
  BY <1>1 DEF LedgerTypeOK, CountType, Orphans, TypeOK
<1>4. ASSUME NEW a \in Attempts, j \notin Orphans \/ a # job[j].attempt
      PROVE  rows'[j][a] = rows[j][a]
  BY <1>2, <1>4
<1>5. landed[j] # 0 => landed[j] \in Attempts
  BY BoundsAssumption DEF LInv, IInv, TypeOK, Attempts
<1>6. CASE j \in Orphans
  <2>1. /\ State(j) = "succeeded" /\ ~job[j].delivered /\ ~job[j].scrubbed /\ j \in stale
        /\ caller[j] = "inserted" /\ landed[j] = job[j].attempt /\ landed[j] # 0
    BY <1>1, <1>6 DEF Orphans, RowInv, NoRow, State
  <2>2. \A a \in Attempts : a > job[j].attempt => rows'[j][a] = rows[j][a]
    <3>1. \A a \in Attempts : a > job[j].attempt => a # job[j].attempt
      BY DEF Attempts, LInv, IInv, TypeOK, RowType
    <3> QED BY <1>4, <3>1
  <2>3. j \in ChatJobs \cup ToolJobs /\ j \notin torn => rows'[j][landed[j]] <= 1
    <3> SUFFICES ASSUME j \in ChatJobs \cup ToolJobs, j \notin torn
                 PROVE  rows'[j][landed[j]] <= 1
      OBVIOUS
    <3>1. j \in ChatJobs
      BY <1>1, <2>1 DEF JobInv
    <3>2. rows[j][landed[j]] = 0
      BY <1>1, <2>1, <3>1 DEF LInv, TurnInv, JobInv
    <3>3. rows'[j][landed[j]] \in {rows[j][landed[j]], AtMostTwo(rows[j][landed[j]] + 1)}
      BY <1>2, <1>5, <2>1
    <3>4. AtMostTwo(0 + 1) = 1
      BY DEF AtMostTwo
    <3> QED BY <3>2, <3>3, <3>4
  <2>4. JobInv(j)'
    BY <1>1, <1>6, <2>1, <2>2, <2>3 DEF JobInv, State
  <2>5. ASSUME j \in ChatJobs PROVE TurnInv(j)'
    <3>1. TurnInv(j)
      BY <2>5 DEF LInv
    <3>2. ~Waiting(j) /\ ~Outstanding(j) /\ turn[j].pc # "served"
      BY <2>1, <3>1 DEF TurnInv
    <3> QED BY <1>1, <1>6, <2>1, <3>1, <3>2
            DEF TurnInv, Waiting, Outstanding, State, Active
  <2> QED BY <2>4, <2>5
<1>7. CASE j \notin Orphans
  <2>1. (\A a \in Attempts : rows'[j][a] = rows[j][a]) /\ (j \in lost' <=> j \in lost)
    BY <1>2, <1>4, <1>7
  <2>2. State(j) = "leased" => job[j].attempt \in Attempts
    BY <1>1 DEF RowInv
  <2>3. JobInv(j)'
    BY <1>1, <1>5, <1>7, <2>1, <2>2 DEF JobInv, State
  <2>4. ASSUME j \in ChatJobs PROVE TurnInv(j)'
    <3>1. TurnInv(j) /\ 1 \in Attempts
      BY <2>4, ChatLandsFirst DEF LInv
    <3>2. State(j) = "succeeded" => landed[j] \in Attempts
      BY <2>4, <3>1, ChatLandsFirst
    <3>3. State(j) = "succeeded" /\ ~job[j].delivered /\ ~job[j].scrubbed =>
            rows[j][landed[j]] = 0
      BY <1>7, <3>1 DEF Orphans, TurnInv
    <3> QED BY <1>1, <1>7, <2>1, <3>1, <3>2, <3>3
            DEF TurnInv, Waiting, Outstanding, State
  <2> QED BY <2>3, <2>4
<1> QED BY <1>6, <1>7

LEMMA CommitsKept ==
  ASSUME LInv, IInv', SweepCommits, NEW j \in Jobs
  PROVE  JobInv(j)' /\ (j \in ChatJobs => TurnInv(j)')
<1>1. /\ RowInv(j) /\ JobInv(j) /\ job[j] \in RowType
      /\ sweep' = [open |-> FALSE, ended |-> {}, counted |-> {}]
      /\ stale' = stale \ aged /\ aged' = {}
      /\ UNCHANGED <<caller, exec, landed, turn, wanted, settle, rows, torn, lost>>
  BY DEF LInv, IInv, TypeOK, SweepCommits, SweepStale, NoSweep, hubVars
<1>2. CASE j \in aged
  <2>1. State(j)' = "absent"
    BY <1>2 DEF SweepCommits, SweepStale, NoRow, State
  <2>2. caller[j] = "inserted"
    BY <1>1, <1>2 DEF JobInv
  <2>3. JobInv(j)'
    BY <1>1, <2>1, <2>2 DEF JobInv
  <2>4. ASSUME j \in ChatJobs PROVE TurnInv(j)'
    BY <1>1, <1>2, <2>1, <2>2, <2>4 DEF LInv, TurnInv, Waiting, Outstanding, Active
  <2> QED BY <2>3, <2>4
<1>3. CASE j \notin aged
  <2>1. /\ State(j)' = State(j) /\ job'[j].attempt = job[j].attempt
        /\ job'[j].leasedBy = job[j].leasedBy /\ job'[j].delivered = job[j].delivered
        /\ j \in stale \/ job[j].scrubbed => job'[j].scrubbed
        /\ j \in stale' <=> j \in stale
    BY <1>1, <1>3 DEF SweepCommits, SweepStale, Scrubbed, RowType, State
  <2>2. JobInv(j)'
    BY <1>1, <2>1 DEF JobInv
  <2>3. ASSUME j \in ChatJobs PROVE TurnInv(j)'
    BY <1>1, <2>1, <2>3 DEF LInv, TurnInv, Waiting, Outstanding
  <2> QED BY <2>2, <2>3
<1> QED BY <1>2, <1>3

LEMMA RollsBackKept ==
  ASSUME LInv, IInv', SweepRollsBack, NEW j \in Jobs
  PROVE  JobInv(j)' /\ (j \in ChatJobs => TurnInv(j)')
<1>1. /\ JobInv(j) /\ torn' = torn \cup sweep.counted
      /\ sweep' = [open |-> FALSE, ended |-> {}, counted |-> {}]
      /\ UNCHANGED <<job, caller, exec, landed, stale, aged, turn, wanted, settle, rows, lost>>
  BY DEF LInv, SweepRollsBack, NoSweep, vars, hubVars
<1>2. JobInv(j)'
  BY <1>1 DEF JobInv, State
<1>3. j \in ChatJobs => TurnInv(j)'
  BY <1>1 DEF LInv, TurnInv, Waiting, Outstanding, State
<1> QED BY <1>2, <1>3

LEMMA AgeingKept ==
  ASSUME LInv, IInv', Ageing, NEW j \in Jobs
  PROVE  JobInv(j)' /\ (j \in ChatJobs => TurnInv(j)')
<1>1. PICK i \in Jobs : \/ LeaseLapses(i) \/ DeadlinePasses(i)
                        \/ Crossing(i) /\ (ContentTtlPasses(i) \/ RowTtlPasses(i))
  BY DEF Ageing
<1>2. UNCHANGED <<job, caller, exec, landed, turn, wanted, settle, sweep, rows, torn, lost>>
  BY <1>1
  DEF Ageing, LeaseLapses, DeadlinePasses, ContentTtlPasses, RowTtlPasses, hubVars, ledgerVars
<1>3. /\ stale \subseteq stale' /\ aged \subseteq aged'
      /\ j \in stale' => j \in stale \/ TurnOver(j)
      /\ j \in aged' => j \in aged \/ (TurnOver(j) /\ State(j) # "absent")
  BY <1>1 DEF LeaseLapses, DeadlinePasses, ContentTtlPasses, RowTtlPasses, Crossing
<1>4. j \in ChatJobs /\ Waiting(j) => ~TurnOver(j)
  BY DEF TurnOver, Waiting
<1>5. QuietJob(j) /\ QuietLedger(j)
  BY <1>2, <1>3, SameJob DEF ExecsKept, QuietLedger
<1> QED BY <1>2, <1>3, <1>4, <1>5, QuietStep

\* The steps of the desktop, the reaper and the work items' callers.
LEMMA OthersKept ==
  ASSUME LInv, IInv', UNCHANGED <<hubVars, ledgerVars>>, NEW j \in Jobs,
         \/ DesktopStep
         \/ \E p \in Reapers : ReaperStep(p)
         \/ \E i \in Jobs : \/ ProbeRead(i) \/ WorkEnqueue(i) \/ WorkCancel(i)
                            \/ CancelContinues(i)
  PROVE  JobInv(j)' /\ (j \in ChatJobs => TurnInv(j)')
<1>1. TypeOK /\ UNCHANGED <<turn, wanted, settle, lost, rows, torn, sweep>>
  BY DEF LInv, IInv, hubVars, ledgerVars
<1>2. ASSUME QuietJob(j), UNCHANGED <<stale, aged>>
      PROVE  JobInv(j)' /\ (j \in ChatJobs => TurnInv(j)')
  BY <1>1, <1>2, QuietStep DEF QuietLedger
<1>3. CASE DesktopStep
  <2>1. UNCHANGED <<stale, aged>>
    BY <1>3 DEF DesktopStep, Claim, HeartbeatHeld, HeartbeatLost, FinishRun, PostLost,
                WorkerCrash, clocks
  <2> QED BY <1>2, <1>3, <2>1, DesktopQuiet DEF LInv
<1>4. ASSUME NEW p \in Reapers, ReaperStep(p)
      PROVE  JobInv(j)' /\ (j \in ChatJobs => TurnInv(j)')
  <2>1. ReapStep(p) /\ UNCHANGED <<stale, aged>>
    BY <1>4 DEF ReaperStep, ReapStep, ReapCancelled, ReapRequeue, ReapLease, ReapDeadline,
                ReapLedger, ReapCrash, clocks
  <2> QED BY <1>1, <1>2, <2>1, ReapQuiet
<1>5. ASSUME NEW i \in Jobs, ProbeRead(i) \/ WorkCancel(i) \/ CancelContinues(i)
      PROVE  JobInv(j)' /\ (j \in ChatJobs => TurnInv(j)')
  <2>1. DeliverResult(i) \/ CancelQueued(i) \/ CancelLeased(i)
    BY <1>5 DEF ProbeRead, WorkCancel, CancelContinues
  <2>2. UNCHANGED <<stale, aged>>
    BY <2>1 DEF DeliverResult, CancelQueued, CancelLeased, clocks
  <2> QED BY <1>1, <1>2, <2>1, <2>2, DeliverQuiet, CancelQuiet
<1>6. ASSUME NEW i \in Jobs, WorkEnqueue(i)
      PROVE  JobInv(j)' /\ (j \in ChatJobs => TurnInv(j)')
  <2>1. CASE EnqueueCheck(i)
    <3>1. /\ UNCHANGED <<job, exec, landed, stale, aged>>
          /\ caller'[j] = "inserted" <=> caller[j] = "inserted"
      BY <1>1, <2>1 DEF EnqueueCheck, TypeOK, clocks
    <3>2. QuietJob(j)
      BY <3>1, SameJob DEF ExecsKept
    <3> QED BY <1>2, <3>1, <3>2
  <2>2. CASE EnqueueInsert(i)
    <3>1. i \notin ChatJobs /\ UNCHANGED <<stale, aged>>
      BY <1>6, <2>2, JobsAssumption DEF WorkEnqueue, EnqueueInsert, clocks
    <3> QED BY <1>1, <1>2, <2>2, <3>1, InsertRow
  <2> QED BY <1>6, <2>1, <2>2 DEF WorkEnqueue
<1> QED BY <1>3, <1>4, <1>5, <1>6

-----------------------------------------------------------------------------
(***************************************************************************)
(* The invariant and what follows from it                                  *)
(***************************************************************************)

LEMMA LedgerInvInit == LedgerInit => LInv
<1> SUFFICES ASSUME LedgerInit PROVE LInv
  OBVIOUS
<1>1. IInv /\ LedgerTypeOK
  BY InitIInv, LedgerTypeInit DEF LedgerInit
<1>2. ASSUME NEW j \in Jobs PROVE JobInv(j)
  BY <1>2 DEF LedgerInit, Init, JobInv, NoSweep, NoRow, NoExec, State, Terminal
<1>3. ASSUME NEW j \in ChatJobs PROVE TurnInv(j)
  BY <1>3 DEF LedgerInit, Init, TurnInv, Waiting, Outstanding, NoRow, State, Jobs, Active
<1> QED BY <1>1, <1>2, <1>3 DEF LInv

LEMMA LedgerInvStep ==
  ASSUME LInv, [LedgerNext]_allVars
  PROVE  LInv'
<1>1. IInv' /\ LedgerTypeOK'
  BY LedgerStep, StepIInv, LedgerTypeStep DEF LInv, IInv
<1>2. ASSUME NEW j \in Jobs PROVE JobInv(j)' /\ (j \in ChatJobs => TurnInv(j)')
  <2>1. CASE UNCHANGED allVars
    <3>1. /\ QuietJob(j) /\ QuietLedger(j)
          /\ UNCHANGED <<turn, wanted, settle, lost, stale, aged>>
      BY <2>1, SameJob DEF allVars, vars, hubVars, ledgerVars, ExecsKept, QuietLedger
    <3> QED BY <1>1, <3>1, QuietStep
  <2>2. CASE DesktopStep \/ (\E p \in Reapers : ReaperStep(p))
    <3>1. UNCHANGED <<hubVars, ledgerVars>>
      BY <2>2 DEF DesktopStep, ReaperStep
    <3> QED BY <1>1, <2>2, <3>1, OthersKept
  <2>3. ASSUME NEW i \in Jobs, ProbeRead(i) \/ WorkEnqueue(i) \/ WorkCancel(i)
                               \/ CancelContinues(i)
        PROVE  JobInv(j)' /\ (j \in ChatJobs => TurnInv(j)')
    <3>1. UNCHANGED <<hubVars, ledgerVars>>
      BY <2>3 DEF ProbeRead, WorkEnqueue, WorkCancel, CancelContinues
    <3> QED BY <1>1, <2>3, <3>1, OthersKept
  <2> QED BY <1>1, <2>1, <2>2, <2>3, TurnKept, RouteKept, CountsKept, CommitsKept,
             RollsBackKept, AgeingKept
          DEF LedgerNext
<1>3. \A j \in ChatJobs : j \in Jobs
  BY DEF Jobs
<1> QED BY <1>1, <1>2, <1>3 DEF LInv

\* LInv holds in every reachable state of the Hub, its ledger and the queue.
THEOREM LedgerInvariant == LedgerSpec => []LInv
<1>1. LedgerInit => LInv
  BY LedgerInvInit
<1>2. LInv /\ [LedgerNext]_allVars => LInv'
  BY LedgerInvStep
<1> QED BY <1>1, <1>2, PTL DEF LedgerSpec

\* The turns, the sweep and the ledger keep the types of the code.
THEOREM LedgerTypeCorrect == LedgerSpec => []LedgerTypeOK
<1>1. LInv => LedgerTypeOK
  BY DEF LInv
<1> QED BY <1>1, LedgerInvariant, PTL

\* However turns, settlements, repeated POSTs and sweeps interleave and die, the
\* answer of a chat turn or a tool run is accounted once, but for a sweep that
\* was rolled back behind its row (postResult, settleAbandoned, sweepStale).
THEOREM AnswersCountedOnce == LedgerSpec => []AnswerCountedOnce
<1>1. LInv => AnswerCountedOnce
  BY JobsAssumption DEF LInv, JobInv, AnswerCountedOnce, Jobs
<1> QED BY <1>1, LedgerInvariant, PTL

\* A served turn has an answer that nobody settled or swept, and its own row is
\* the only one (agy-chat.ts).
THEOREM ServedAreDelivered == LedgerSpec => []ServedIsDelivered
<1>1. LInv => ServedIsDelivered
  BY DEF LInv, TurnInv, ServedIsDelivered
<1> QED BY <1>1, LedgerInvariant, PTL
=============================================================================
