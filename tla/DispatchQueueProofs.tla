------------------------ MODULE DispatchQueueProofs ------------------------
(***************************************************************************)
(* Safety of DispatchQueue for every number of jobs, workers, slots, Hub   *)
(* instances, attempts and POSTs.                                          *)
(*                                                                         *)
(* RowInv(j) says all that the code keeps true of job j between its        *)
(* statements: the parts of the invariants the runs check and, since those *)
(* are not inductive alone, the five facts at its end.                     *)
(*                                                                         *)
(* The second half maps DispatchQueue to JobLifecycle, step by step.       *)
(***************************************************************************)
EXTENDS DispatchQueue, TLAPS

RowInv(j) ==
  \* ClaimsBounded
  /\ job[j].attempt <= MaxAttempts(j)
  /\ State(j) = "queued" => job[j].attempt < MaxAttempts(j)
  \* ContentTransient and NewestClaimLands
  /\ State(j) \notin Active => ~job[j].payload
  /\ job[j].result # 0 =>
       /\ State(j) = "succeeded"
       /\ ~job[j].delivered /\ ~job[j].scrubbed
       /\ j \notin ToolJobs
       /\ job[j].result = landed[j]
       /\ exec[j][landed[j]].ok
  /\ landed[j] # 0 /\ State(j) # "absent" =>
       /\ landed[j] = job[j].attempt
       /\ State(j) \in {"succeeded", "failed", "cancelled"}
  /\ State(j) \in {"succeeded", "failed"} => landed[j] # 0
  \* The row names the worker of the newest claim.
  /\ State(j) = "leased" =>
       /\ job[j].attempt \in Attempts
       /\ exec[j][job[j].attempt].phase # "none"
       /\ job[j].leasedBy = WorkerOf[exec[j][job[j].attempt].slot]
  \* A row in play has not been read, scrubbed or given a text.
  /\ State(j) \in Active =>
       ~job[j].delivered /\ ~job[j].scrubbed /\ job[j].result = 0
  \* No row holds nothing, and before its INSERT a job has left no trace.
  /\ State(j) = "absent" => job[j] = NoRow
  /\ caller[j] # "inserted" => job[j] = NoRow /\ landed[j] = 0
  \* finished_at is set on ended rows only.
  /\ j \in stale => State(j) \in Terminal
  \* The execution whose text the row holds has finished running.
  /\ job[j].result # 0 => exec[j][job[j].result].phase # "running"

IInv == TypeOK /\ \A j \in Jobs : RowInv(j)

-----------------------------------------------------------------------------
(***************************************************************************)
(* Type correctness                                                        *)
(***************************************************************************)

LEMMA MaxAttemptsType ==
  \A j \in Jobs : MaxAttempts(j) \in Attempts
BY BoundsAssumption DEF MaxAttempts, Attempts, Jobs

LEMMA NoRowType == NoRow \in RowType
BY BoundsAssumption DEF NoRow, RowType, Active, Terminal

LEMMA NoExecType == NoExec \in ExecType
BY BoundsAssumption DEF NoExec, ExecType

LEMMA IdlePassType == IdlePass \in PassType
BY DEF IdlePass, PassType

\* The writes of the store keep the shape of a row.
LEMMA RowWrites ==
  ASSUME NEW row \in RowType, NEW st \in Active \cup Terminal
  PROVE  /\ Ended(row, st) \in RowType
         /\ Scrubbed(row) \in RowType
         /\ Delivered(row) \in RowType
         /\ [row EXCEPT !.state = st] \in RowType
         /\ [row EXCEPT !.state = st, !.leasedBy = NoWorker] \in RowType
         /\ [row EXCEPT !.cancelReq = TRUE] \in RowType
<1>1. 0 \in 0 .. WorkAttempts
  BY BoundsAssumption
<1>2. Scrubbed(row) \in RowType
  BY <1>1 DEF Scrubbed, RowType
<1>3. st \in {"absent"} \cup Active \cup Terminal
  OBVIOUS
<1>4. Ended(row, st) \in RowType
  BY <1>1, <1>3 DEF Ended, RowType
<1>5. Delivered(row) \in RowType
  BY <1>1 DEF Delivered, RowType
<1>6. /\ [row EXCEPT !.state = st] \in RowType
      /\ [row EXCEPT !.state = st, !.leasedBy = NoWorker] \in RowType
      /\ [row EXCEPT !.cancelReq = TRUE] \in RowType
  BY <1>3 DEF RowType
<1> QED BY <1>2, <1>4, <1>5, <1>6

\* The writes of the worker keep the shape of an execution.
LEMMA ExecWrites ==
  ASSUME NEW e \in ExecType, NEW ok \in BOOLEAN
  PROVE  /\ Retired(e) \in ExecType
         /\ Stopped(e, ok) \in ExecType
<1>1. 0 \in 0 .. MaxPosts
  BY BoundsAssumption
<1>2. Retired(e) \in ExecType
  BY <1>1 DEF Retired, ExecType
<1>3. Stopped(e, ok) \in ExecType
  BY DEF Stopped, ExecType
<1> QED BY <1>2, <1>3

ExecsType == [Jobs -> [Attempts -> ExecType]]

LEMMA ExecUpdate ==
  ASSUME exec \in ExecsType, NEW j \in Jobs, NEW a \in Attempts, NEW e \in ExecType
  PROVE  [exec EXCEPT ![j][a] = e] \in ExecsType
BY DEF ExecsType

LEMMA TypeInit == Init => TypeOK
BY NoRowType, NoExecType, IdlePassType, BoundsAssumption DEF Init, TypeOK

LEMMA TypeHub ==
  ASSUME TypeOK, HubStep
  PROVE  TypeOK'
<1> USE DEF TypeOK, clocks
<1>1. ASSUME NEW j \in Jobs, EnqueueCheck(j) PROVE TypeOK'
  BY <1>1 DEF EnqueueCheck
<1>2. ASSUME NEW j \in Jobs, EnqueueInsert(j) PROVE TypeOK'
  <2>1. [NoRow EXCEPT !.state = "queued", !.payload = TRUE] \in RowType
    BY NoRowType DEF NoRow, RowType, Active
  <2> QED BY <1>2, <2>1 DEF EnqueueInsert
<1>3. ASSUME NEW j \in Jobs, CancelQueued(j) PROVE TypeOK'
  BY <1>3, RowWrites DEF CancelQueued, Terminal
<1>4. ASSUME NEW j \in Jobs, CancelLeased(j) PROVE TypeOK'
  BY <1>4, RowWrites DEF CancelLeased, Active
<1>5. ASSUME NEW j \in Jobs, DeliverResult(j) PROVE TypeOK'
  BY <1>5, RowWrites DEF DeliverResult, Active
<1>6. ASSUME SweepStale PROVE TypeOK'
  <2>1. \A j \in Jobs : job'[j] \in RowType
    BY <1>6, RowWrites, NoRowType DEF SweepStale, Terminal
  <2>2. job' \in [Jobs -> RowType]
    BY <1>6, <2>1 DEF SweepStale
  <2> QED BY <1>6, <2>2 DEF SweepStale
<1> QED BY <1>1, <1>2, <1>3, <1>4, <1>5, <1>6 DEF HubStep

\* Dropping jobs from the leases a pass has seen keeps its shape.
LEMMA PassWrites ==
  ASSUME TypeOK, NEW q \in Reapers, NEW S,
         NEW pc \in {"idle", "requeue", "lease", "deadline", "ledger"}
  PROVE  /\ [pass[q] EXCEPT !.lapsed = @ \ S] \in PassType
         /\ [pass[q] EXCEPT !.pc = pc, !.lapsed = @ \ S] \in PassType
<1>1. pass[q] \in PassType
  BY DEF TypeOK
<1> QED BY <1>1 DEF PassType

LEMMA TypeRenew ==
  ASSUME TypeOK, NEW j \in Jobs, Renew(j)
  PROVE  pass' \in [Reapers -> PassType] /\ lapsed' \in SUBSET Jobs
<1>1. \A q \in Reapers : [pass[q] EXCEPT !.lapsed = @ \ {j}] \in PassType
  BY PassWrites
<1>2. pass' \in [Reapers -> PassType]
  BY <1>1 DEF Renew
<1> QED BY <1>2 DEF Renew, TypeOK

\* A claim needs more than the types: the job in the queue has a claim left.
LEMMA TypeClaim ==
  ASSUME TypeOK, ClaimsBounded, NEW s \in Slots, NEW j \in Jobs,
         NEW got \in BOOLEAN, Claim(s, j, got)
  PROVE  TypeOK'
<1>1. job[j] \in RowType /\ job[j].attempt \in Nat
  BY BoundsAssumption DEF TypeOK, RowType
<1>2. job[j].attempt + 1 \in Attempts /\ job[j].attempt + 1 \in 0 .. WorkAttempts
  BY <1>1, MaxAttemptsType, BoundsAssumption DEF Claim, ClaimsBounded, Attempts, State
<1>3. Leased(job[j], s) \in RowType
  <2>1. WorkerOf[s] \in Workers \cup {NoWorker}
    BY SlotsAssumption
  <2> QED BY <1>1, <1>2, <2>1 DEF Leased, RowType, Active
<1>4. exec' \in [Jobs -> [Attempts -> ExecType]]
  <2>1. [NoExec EXCEPT !.phase = IF got THEN "running" ELSE "gone", !.slot = s]
          \in ExecType
    BY NoExecType DEF NoExec, ExecType
  <2> QED BY <1>2, <2>1, ExecUpdate DEF Claim, ExecsType, TypeOK
<1>5. pass' \in [Reapers -> PassType] /\ lapsed' \in SUBSET Jobs
  BY TypeRenew DEF Claim
<1> QED BY <1>3, <1>4, <1>5 DEF Claim, TypeOK

LEMMA TypePosted ==
  ASSUME TypeOK, NEW j \in Jobs, NEW a \in Attempts,
         NEW seen \in BOOLEAN, Posting(j, a), Posted(j, a, seen)
  PROVE  exec' \in ExecsType
<1>1. exec[j][a] \in ExecType
  BY DEF TypeOK
<1>2. exec[j][a].posts \in 0 .. MaxPosts
  BY <1>1 DEF ExecType
<1>3. exec[j][a].posts + 1 \in 0 .. MaxPosts
  BY <1>2, BoundsAssumption DEF Posting
<1>4. Retired(exec[j][a]) \in ExecType
  BY <1>1, <1>2, ExecWrites
<1>5. Tried(exec[j][a]) \in ExecType
  BY <1>1, <1>2, <1>3 DEF Tried, ExecType
<1>6. CASE seen \/ exec[j][a].posts + 1 = MaxPosts
  <2>1. exec' = [exec EXCEPT ![j][a] = Retired(exec[j][a])]
    BY <1>6 DEF Posted
  <2> QED BY <1>4, <2>1, ExecUpdate DEF TypeOK, ExecsType
<1>7. CASE ~(seen \/ exec[j][a].posts + 1 = MaxPosts)
  <2>1. exec' = [exec EXCEPT ![j][a] = Tried(exec[j][a])]
    BY <1>7 DEF Posted
  <2> QED BY <1>5, <2>1, ExecUpdate DEF TypeOK, ExecsType
<1> QED BY <1>6, <1>7

LEMMA TypeResultRow ==
  ASSUME TypeOK, NEW j \in Jobs, NEW a \in Attempts
  PROVE  ResultRow(j, a) \in RowType
<1>1. job[j] \in RowType /\ a \in 0 .. WorkAttempts
  BY BoundsAssumption DEF TypeOK, Attempts
<1>2. [job[j] EXCEPT !.state = "succeeded"] \in RowType
  BY <1>1, RowWrites DEF Terminal
<1>3. [job[j] EXCEPT !.state = "succeeded", !.payload = FALSE, !.result = a] \in RowType
  BY <1>1 DEF RowType, Terminal
<1>4. Succeeded(j, a) \in RowType
  BY <1>2, <1>3, RowWrites DEF Succeeded, Terminal
<1> QED BY <1>1, <1>4, RowWrites DEF ResultRow, Terminal

LEMMA TypeWorker ==
  ASSUME TypeOK, ClaimsBounded, WorkerStep
  PROVE  TypeOK'
<1>1. ASSUME NEW s \in Slots, NEW j \in Jobs, NEW got \in BOOLEAN, Claim(s, j, got)
      PROVE  TypeOK'
  BY <1>1, TypeClaim
<1>2. ASSUME NEW j \in Jobs, NEW a \in Attempts, NEW ok \in BOOLEAN
      PROVE  [exec EXCEPT ![j][a] = Stopped(@, ok)] \in ExecsType
  BY ExecWrites, ExecUpdate, BoundsAssumption DEF TypeOK, ExecsType
<1>3. ASSUME NEW j \in Jobs, NEW a \in Attempts, HeartbeatHeld(j, a) PROVE TypeOK'
  <2>1. exec' \in ExecsType
    <3>1. CASE UNCHANGED exec
      BY <3>1 DEF TypeOK, ExecsType
    <3>2. CASE exec' = [exec EXCEPT ![j][a] = Stopped(@, FALSE)]
      BY <1>2, <3>2
    <3> QED BY <1>3, <3>1, <3>2 DEF HeartbeatHeld
  <2>2. pass' \in [Reapers -> PassType] /\ lapsed' \in SUBSET Jobs
    BY <1>3, TypeRenew DEF HeartbeatHeld
  <2> QED BY <1>3, <2>1, <2>2 DEF HeartbeatHeld, TypeOK, ExecsType
<1>4. ASSUME NEW j \in Jobs, NEW a \in Attempts, HeartbeatLost(j, a) PROVE TypeOK'
  BY <1>2, <1>4 DEF HeartbeatLost, TypeOK, ExecsType, clocks
<1>5. ASSUME NEW j \in Jobs, NEW a \in Attempts, NEW ok \in BOOLEAN,
             FinishRun(j, a, ok)
      PROVE  TypeOK'
  BY <1>2, <1>5 DEF FinishRun, TypeOK, ExecsType, clocks
<1>6. ASSUME NEW j \in Jobs, NEW a \in Attempts, NEW seen \in BOOLEAN,
             PostArrives(j, a, seen)
      PROVE  TypeOK'
  <2>1. exec' \in ExecsType
    BY <1>6, TypePosted DEF PostArrives
  <2>2. a \in 0 .. WorkAttempts
    BY BoundsAssumption DEF Attempts
  <2>3. job' \in [Jobs -> RowType] /\ landed' \in [Jobs -> 0 .. WorkAttempts]
    <3>1. CASE UNCHANGED <<job, landed>>
      BY <3>1 DEF TypeOK
    <3>2. CASE /\ job' = [job EXCEPT ![j] = ResultRow(j, a)]
               /\ landed' = [landed EXCEPT ![j] = a]
      BY <2>2, <3>2, TypeResultRow DEF TypeOK
    <3> QED BY <1>6, <3>1, <3>2 DEF PostArrives
  <2> QED
    BY <1>6, <2>1, <2>3 DEF PostArrives, TypeOK, ExecsType, clocks
<1>7. ASSUME NEW j \in Jobs, NEW a \in Attempts, PostLost(j, a) PROVE TypeOK'
  BY <1>7, TypePosted DEF PostLost, TypeOK, ExecsType, clocks
<1>8. ASSUME NEW w \in Workers, WorkerCrash(w) PROVE TypeOK'
  <2>1. \A j \in Jobs, a \in Attempts : Retired(exec[j][a]) \in ExecType
    BY ExecWrites, BoundsAssumption DEF TypeOK
  <2>2. exec' \in ExecsType
    BY <1>8, <2>1 DEF WorkerCrash, TypeOK, ExecsType
  <2> QED BY <1>8, <2>2 DEF WorkerCrash, TypeOK, ExecsType, clocks
<1> QED
  BY <1>1, <1>3, <1>4, <1>5, <1>6, <1>7, <1>8 DEF WorkerStep

LEMMA TypeReap ==
  ASSUME TypeOK, NEW p \in Reapers, ReapStep(p)
  PROVE  TypeOK'
<1>1. ASSUME NEW S, NEW st \in Terminal, EndAll(S, st)
      PROVE  job' \in [Jobs -> RowType]
  BY <1>1, RowWrites DEF EndAll, TypeOK
<1>2. pass[p] \in PassType
  BY DEF TypeOK
<1>3. CASE ReapCancelled(p)
  <2> DEFINE due  == {j \in lapsed : State(j) = "leased"}
             dead == {j \in due : job[j].cancelReq}
             row  == [pc |-> "requeue", lapsed |-> due \ dead,
                      overdue |-> {j \in overdue : State(j) \in Active} \ dead,
                      cancelled |-> dead, expired |-> {}]
  <2>1. /\ EndAll(dead, "cancelled")
        /\ pass' = [pass EXCEPT ![p] = row]
    BY <1>3 DEF ReapCancelled
  <2>2. row \in PassType
    BY DEF PassType, TypeOK
  <2>3. job' \in [Jobs -> RowType]
    BY <1>1, <2>1 DEF Terminal
  <2> HIDE DEF row
  <2>4. pass' \in [Reapers -> PassType]
    BY <2>1, <2>2 DEF TypeOK
  <2> QED BY <1>3, <2>3, <2>4 DEF ReapCancelled, TypeOK, clocks
<1>4. CASE ReapRequeue(p)
  <2>1. job' \in [Jobs -> RowType]
    BY <1>4, RowWrites DEF ReapRequeue, Active, TypeOK
  <2>2. ASSUME NEW q \in Reapers
        PROVE  [pass[q] EXCEPT !.pc = IF q = p THEN "lease" ELSE @,
                               !.lapsed = @ \ Retryable(p)] \in PassType
    <3>1. pass[q].pc \in {"idle", "requeue", "lease", "deadline", "ledger"}
      BY DEF TypeOK, PassType
    <3> QED BY <3>1, PassWrites
  <2>3. pass' \in [Reapers -> PassType]
    BY <1>4, <2>2 DEF ReapRequeue
  <2> QED BY <1>4, <2>1, <2>3 DEF ReapRequeue, TypeOK
<1>5. CASE ReapLease(p)
  <2>1. job' \in [Jobs -> RowType]
    BY <1>1, <1>5 DEF ReapLease, Terminal
  <2>2. DueLease(p) \in SUBSET Jobs
    BY <1>2 DEF DueLease, PassType
  <2>3. pass' \in [Reapers -> PassType]
    BY <1>2, <1>5, <2>2 DEF ReapLease, PassType, TypeOK
  <2> QED BY <1>5, <2>1, <2>3 DEF ReapLease, TypeOK, clocks
<1>6. CASE ReapDeadline(p)
  <2>1. job' \in [Jobs -> RowType]
    BY <1>1, <1>6 DEF ReapDeadline, Terminal
  <2>2. DueDeadline(p) \in SUBSET Jobs
    BY <1>2 DEF DueDeadline, PassType
  <2>3. pass' \in [Reapers -> PassType]
    BY <1>2, <1>6, <2>2 DEF ReapDeadline, PassType, TypeOK
  <2> QED BY <1>6, <2>1, <2>3 DEF ReapDeadline, TypeOK, clocks
<1>7. CASE ReapLedger(p) \/ ReapCrash(p)
  BY <1>7, IdlePassType DEF ReapLedger, ReapCrash, TypeOK, clocks
<1> QED BY <1>3, <1>4, <1>5, <1>6, <1>7 DEF ReapStep

LEMMA TypeTime ==
  ASSUME TypeOK, TimeStep
  PROVE  TypeOK'
BY DEF TypeOK, TimeStep, LeaseLapses, DeadlinePasses, ContentTtlPasses, RowTtlPasses

LEMMA TypeStep ==
  ASSUME TypeOK, ClaimsBounded, [Next]_vars
  PROVE  TypeOK'
<1>1. CASE UNCHANGED vars
  BY <1>1 DEF TypeOK, vars
<1> QED BY <1>1, TypeHub, TypeWorker, TypeReap, TypeTime DEF Next

-----------------------------------------------------------------------------
(***************************************************************************)
(* The inductive invariant                                                 *)
(***************************************************************************)

LEMMA IInvImplies ==
  ASSUME IInv
  PROVE  /\ TypeOK
         /\ ClaimsBounded
         /\ ContentTransient
         /\ NewestClaimLands
<1>1. TypeOK /\ \A j \in Jobs : RowInv(j)
  BY DEF IInv
<1>2. ClaimsBounded
  BY <1>1 DEF RowInv, ClaimsBounded
<1>3. ContentTransient
  BY <1>1 DEF RowInv, ContentTransient
<1>4. NewestClaimLands
  BY <1>1 DEF RowInv, NewestClaimLands
<1> QED BY <1>1, <1>2, <1>3, <1>4

LEMMA InitIInv == Init => IInv
<1> SUFFICES ASSUME Init, NEW j \in Jobs PROVE RowInv(j)
  BY TypeInit DEF IInv
<1>1. /\ job[j] = NoRow /\ landed[j] = 0 /\ caller[j] = "idle"
      /\ MaxAttempts(j) \in Nat \ {0}
  BY MaxAttemptsType, BoundsAssumption DEF Init, Attempts
<1> QED BY <1>1 DEF Init, RowInv, State, NoRow, Active, Terminal

\* What a step may do to the executions of a job whose row it leaves alone: an
\* execution keeps its slot, and one that has stopped keeps its verdict.
ExecKept(j) ==
  \A a \in Attempts :
    /\ exec'[j][a].slot = exec[j][a].slot
    /\ exec[j][a].phase # "none" => exec'[j][a].phase # "none"
    /\ exec[j][a].phase # "running" =>
         exec'[j][a].phase # "running" /\ exec'[j][a].ok = exec[j][a].ok

LEMMA KeptRow ==
  ASSUME TypeOK, NEW j \in Jobs, RowInv(j), ExecKept(j),
         job'[j] = job[j], landed'[j] = landed[j],
         caller[j] = "inserted" => caller'[j] = "inserted",
         j \in stale' => j \in stale \/ State(j) \in Terminal
  PROVE  RowInv(j)'
<1>1. job[j].result \in 0 .. WorkAttempts
  BY DEF TypeOK, RowType
<1>2. job[j].result # 0 => job[j].result \in Attempts
  BY <1>1, BoundsAssumption DEF Attempts
<1> QED BY <1>2 DEF RowInv, ExecKept, State

\* cancelJob and the reaper end rows that are in play.
LEMMA EndedRow ==
  ASSUME TypeOK, NEW j \in Jobs, RowInv(j), State(j) \in Active,
         NEW st \in {"cancelled", "expired"},
         job'[j] = Ended(job[j], st), landed'[j] = landed[j], caller'[j] = caller[j]
  PROVE  RowInv(j)'
<1>1. /\ job'[j].state = st /\ job'[j].attempt = job[j].attempt
      /\ job'[j].payload = FALSE /\ job'[j].result = 0
  BY DEF Ended, TypeOK, RowType
<1>2. caller[j] = "inserted" /\ landed[j] = 0
  BY DEF RowInv, NoRow, State, Active
<1> QED BY <1>1, <1>2 DEF RowInv, State, Active, Terminal

LEMMA EndAllRows ==
  ASSUME IInv, NEW S, NEW st \in {"cancelled", "expired"}, EndAll(S, st),
         \A j \in S : j \in Jobs => State(j) \in Active,
         UNCHANGED <<landed, caller, exec, stale>>, NEW j \in Jobs
  PROVE  RowInv(j)'
<1>1. TypeOK /\ RowInv(j)
  BY DEF IInv
<1>2. CASE j \in S
  <2>1. job'[j] = Ended(job[j], st)
    BY <1>2 DEF EndAll
  <2> QED BY <1>1, <1>2, <2>1, EndedRow
<1>3. CASE j \notin S
  <2>1. job'[j] = job[j]
    BY <1>3 DEF EndAll
  <2>2. ExecKept(j)
    BY DEF ExecKept
  <2> QED BY <1>1, <2>1, <2>2, KeptRow
<1> QED BY <1>2, <1>3

LEMMA StepHub ==
  ASSUME IInv, HubStep, NEW i \in Jobs
  PROVE  RowInv(i)'
<1>1. TypeOK /\ RowInv(i) /\ job[i] \in RowType
  BY DEF IInv, TypeOK
<1>2. UNCHANGED exec => ExecKept(i)
  BY DEF ExecKept
<1>3. ASSUME NEW j \in Jobs, EnqueueCheck(j) PROVE RowInv(i)'
  <2>1. caller[i] = "inserted" => caller'[i] = "inserted"
    BY <1>1, <1>3 DEF EnqueueCheck, TypeOK
  <2> QED BY <1>1, <1>2, <1>3, <2>1, KeptRow DEF EnqueueCheck, clocks
<1>4. ASSUME NEW j \in Jobs, EnqueueInsert(j) PROVE RowInv(i)'
  <2>1. CASE i # j
    BY <1>1, <1>2, <1>4, <2>1, KeptRow DEF EnqueueInsert, clocks, TypeOK
  <2>2. CASE i = j
    <3>1. job[i] = NoRow /\ landed[i] = 0 /\ caller[i] # "inserted"
      BY <1>1, <1>4, <2>2 DEF EnqueueInsert, RowInv
    <3>2. i \notin stale
      BY <1>1, <3>1 DEF RowInv, NoRow, State, Terminal
    <3>3. /\ job'[i] = [NoRow EXCEPT !.state = "queued", !.payload = TRUE]
          /\ caller'[i] = "inserted"
          /\ landed'[i] = 0 /\ i \notin stale'
      BY <1>1, <1>4, <2>2, <3>1, <3>2 DEF EnqueueInsert, clocks, TypeOK
    <3>4. MaxAttempts(i) \in Nat \ {0}
      BY MaxAttemptsType, BoundsAssumption DEF Attempts
    <3> QED BY <3>3, <3>4 DEF RowInv, NoRow, State, Active, Terminal
  <2> QED BY <2>1, <2>2
<1>5. ASSUME NEW j \in Jobs, CancelQueued(j) PROVE RowInv(i)'
  <2>1. CASE i = j /\ State(j) = "queued"
    <3>1. job'[i] = Ended(job[i], "cancelled")
      BY <1>1, <1>5, <2>1 DEF CancelQueued, TypeOK
    <3> QED BY <1>1, <1>5, <2>1, <3>1, EndedRow DEF CancelQueued, Active
  <2>2. CASE ~(i = j /\ State(j) = "queued")
    <3>1. job'[i] = job[i]
      BY <1>1, <1>5, <2>2 DEF CancelQueued, TypeOK
    <3> QED BY <1>1, <1>2, <1>5, <3>1, KeptRow DEF CancelQueued, clocks
  <2> QED BY <2>1, <2>2
<1>6. ASSUME NEW j \in Jobs, CancelLeased(j) PROVE RowInv(i)'
  <2>1. CASE i = j /\ State(j) = "leased"
    <3>1. job'[i] = [job[i] EXCEPT !.cancelReq = TRUE]
      BY <1>1, <1>6, <2>1 DEF CancelLeased, TypeOK
    <3>2. caller[i] = "inserted"
      BY <1>1, <2>1 DEF RowInv, NoRow, State
    <3>3. /\ job'[i].state = job[i].state /\ job'[i].attempt = job[i].attempt
          /\ job'[i].leasedBy = job[i].leasedBy /\ job'[i].result = job[i].result
          /\ job'[i].delivered = job[i].delivered /\ job'[i].scrubbed = job[i].scrubbed
          /\ job'[i].payload = job[i].payload
      BY <1>1, <3>1 DEF RowType
    <3> QED BY <1>1, <1>6, <3>2, <3>3 DEF CancelLeased, clocks, RowInv, State
  <2>2. CASE ~(i = j /\ State(j) = "leased")
    <3>1. job'[i] = job[i]
      BY <1>1, <1>6, <2>2 DEF CancelLeased, TypeOK
    <3> QED BY <1>1, <1>2, <1>6, <3>1, KeptRow DEF CancelLeased, clocks
  <2> QED BY <2>1, <2>2
<1>7. ASSUME NEW j \in Jobs, DeliverResult(j) PROVE RowInv(i)'
  <2>1. CASE i = j
    <3>1. job'[i] = Delivered(job[i])
      BY <1>1, <1>7, <2>1 DEF DeliverResult, TypeOK
    <3>2. /\ job'[i].state = job[i].state /\ job'[i].attempt = job[i].attempt
          /\ job'[i].payload = FALSE /\ job'[i].result = 0
      BY <1>1, <3>1 DEF Delivered, RowType
    <3>3. caller[i] = "inserted" /\ State(i) = "succeeded"
      BY <1>1, <1>7, <2>1 DEF DeliverResult, Deliverable, RowInv, NoRow, State
    <3> QED
      BY <1>1, <1>7, <3>2, <3>3 DEF DeliverResult, clocks, RowInv, State, Active
  <2>2. CASE i # j
    <3>1. job'[i] = job[i]
      BY <1>1, <1>7, <2>2 DEF DeliverResult, TypeOK
    <3> QED BY <1>1, <1>2, <1>7, <3>1, KeptRow DEF DeliverResult, clocks
  <2> QED BY <2>1, <2>2
<1>8. ASSUME SweepStale PROVE RowInv(i)'
  <2>1. CASE i \in aged
    <3>1. job'[i] = NoRow /\ i \notin stale'
      BY <1>8, <2>1 DEF SweepStale
    <3>2. caller'[i] # "inserted" => landed'[i] = 0
      BY <1>1, <1>8 DEF SweepStale, RowInv
    <3>3. MaxAttempts(i) \in Nat \ {0}
      BY MaxAttemptsType, BoundsAssumption DEF Attempts
    <3> QED BY <3>1, <3>2, <3>3 DEF RowInv, NoRow, State, Active
  <2>2. CASE i \notin aged /\ i \in stale /\ ~job[i].scrubbed
    <3>1. job'[i] = Scrubbed(job[i])
      BY <1>8, <2>2 DEF SweepStale
    <3>2. /\ job'[i].state = job[i].state /\ job'[i].attempt = job[i].attempt
          /\ job'[i].payload = FALSE /\ job'[i].result = 0
      BY <1>1, <3>1 DEF Scrubbed, RowType
    <3>3. State(i) \in Terminal /\ caller[i] = "inserted"
      BY <1>1, <2>2 DEF RowInv, NoRow, State, Terminal
    <3> QED
      BY <1>1, <1>8, <3>2, <3>3 DEF SweepStale, RowInv, State, Active, Terminal
  <2>3. CASE i \notin aged /\ ~(i \in stale /\ ~job[i].scrubbed)
    <3>1. job'[i] = job[i]
      BY <1>8, <2>3 DEF SweepStale
    <3> QED BY <1>1, <1>2, <1>8, <3>1, KeptRow DEF SweepStale
  <2> QED BY <2>1, <2>2, <2>3
<1> QED BY <1>3, <1>4, <1>5, <1>6, <1>7, <1>8 DEF HubStep

\* Executions change one at a time, and never back into running.
LEMMA StoppedKept ==
  ASSUME TypeOK, NEW j \in Jobs, NEW a \in Attempts, NEW ok \in BOOLEAN,
         exec[j][a].phase = "running",
         exec' = [exec EXCEPT ![j][a] = Stopped(@, ok)], NEW i \in Jobs
  PROVE  ExecKept(i)
<1>1. exec[j][a] \in ExecType
  BY DEF TypeOK
<1>2. /\ Stopped(exec[j][a], ok).slot = exec[j][a].slot
      /\ Stopped(exec[j][a], ok).phase = "posting"
  BY <1>1 DEF Stopped, ExecType
<1> QED BY <1>2 DEF ExecKept, TypeOK

LEMMA PostedKept ==
  ASSUME TypeOK, NEW j \in Jobs, NEW a \in Attempts,
         NEW seen \in BOOLEAN, Posting(j, a), Posted(j, a, seen), NEW i \in Jobs
  PROVE  ExecKept(i)
<1>1. exec[j][a] \in ExecType /\ exec[j][a].phase = "posting"
  BY DEF TypeOK, Posting
<1>2. /\ Retired(exec[j][a]).slot = exec[j][a].slot
      /\ Retired(exec[j][a]).phase = "gone"
      /\ Retired(exec[j][a]).ok = exec[j][a].ok
  BY <1>1 DEF Retired, ExecType
<1>3. /\ Tried(exec[j][a]).slot = exec[j][a].slot
      /\ Tried(exec[j][a]).phase = "posting"
      /\ Tried(exec[j][a]).ok = exec[j][a].ok
  BY <1>1 DEF Tried, ExecType
<1>4. PICK e : /\ e \in {Retired(exec[j][a]), Tried(exec[j][a])}
               /\ exec' = [exec EXCEPT ![j][a] = e]
  BY DEF Posted
<1>5. e.slot = exec[j][a].slot /\ e.phase \in {"gone", "posting"} /\ e.ok = exec[j][a].ok
  BY <1>2, <1>3, <1>4
<1> QED BY <1>1, <1>4, <1>5 DEF ExecKept, TypeOK

LEMMA CrashKept ==
  ASSUME TypeOK, NEW w \in Workers, WorkerCrash(w), NEW i \in Jobs
  PROVE  ExecKept(i)
<1> SUFFICES ASSUME NEW a \in Attempts
    PROVE  /\ exec'[i][a].slot = exec[i][a].slot
           /\ exec[i][a].phase # "none" => exec'[i][a].phase # "none"
           /\ exec[i][a].phase # "running" =>
                exec'[i][a].phase # "running" /\ exec'[i][a].ok = exec[i][a].ok
  BY DEF ExecKept
<1>1. exec[i][a] \in ExecType
  BY DEF TypeOK
<1>2. /\ Retired(exec[i][a]).slot = exec[i][a].slot
      /\ Retired(exec[i][a]).phase = "gone"
      /\ Retired(exec[i][a]).ok = exec[i][a].ok
  BY <1>1 DEF Retired, ExecType
<1>3. exec'[i][a] \in {Retired(exec[i][a]), exec[i][a]}
  BY DEF WorkerCrash
<1> QED BY <1>2, <1>3

\* The claim opens the execution that the new lease names.
LEMMA ClaimRow ==
  ASSUME IInv, NEW s \in Slots, NEW j \in Jobs, NEW got \in BOOLEAN,
         Claim(s, j, got), NEW i \in Jobs
  PROVE  RowInv(i)'
<1>1. TypeOK /\ RowInv(i) /\ job[i] \in RowType /\ ClaimsBounded
  BY IInvImplies DEF IInv, TypeOK
<1>2. job[j].attempt \in Nat /\ job[j].attempt < MaxAttempts(j)
  BY <1>1, BoundsAssumption DEF Claim, ClaimsBounded, TypeOK, RowType
<1>3. job[j].attempt + 1 \in Attempts /\ job[j].attempt + 1 <= MaxAttempts(j)
  BY <1>2, MaxAttemptsType, BoundsAssumption DEF Attempts
<1>4. CASE i # j
  <2>1. exec'[i] = exec[i] /\ job'[i] = job[i]
    BY <1>1, <1>4 DEF Claim, TypeOK
  <2>2. ExecKept(i)
    BY <2>1 DEF ExecKept
  <2> QED BY <1>1, <2>1, <2>2, KeptRow DEF Claim
<1>5. CASE i = j
  <2>1. job'[i] = Leased(job[i], s)
    BY <1>1, <1>5 DEF Claim, TypeOK
  <2>2. /\ job'[i].state = "leased" /\ job'[i].leasedBy = WorkerOf[s]
        /\ job'[i].attempt = job[i].attempt + 1 /\ job'[i].result = job[i].result
        /\ job'[i].delivered = job[i].delivered /\ job'[i].scrubbed = job[i].scrubbed
    BY <1>1, <2>1 DEF Leased, RowType
  <2>3. /\ exec'[i][job[i].attempt + 1].slot = s
        /\ exec'[i][job[i].attempt + 1].phase # "none"
    BY <1>1, <1>3, <1>5 DEF Claim, TypeOK, NoExec
  <2>4. State(i) = "queued" /\ landed'[i] = landed[i] /\ caller' = caller /\ stale' = stale
    BY <1>5 DEF Claim
  <2>5. caller[i] = "inserted" /\ landed[i] = 0 /\ i \notin stale /\ job[i].result = 0
        /\ ~job[i].delivered /\ ~job[i].scrubbed
    BY <1>1, <2>4 DEF RowInv, NoRow, State, Active, Terminal
  <2> QED
    BY <1>3, <1>5, <2>2, <2>3, <2>4, <2>5 DEF RowInv, State, Active, Terminal
<1> QED BY <1>4, <1>5

\* A POST that passes the compare-and-set is the newest claim's.
LEMMA PostRow ==
  ASSUME IInv, NEW j \in Jobs, NEW a \in Attempts, NEW seen \in BOOLEAN,
         PostArrives(j, a, seen), NEW i \in Jobs
  PROVE  RowInv(i)'
<1>1. TypeOK /\ RowInv(i) /\ job[i] \in RowType
  BY DEF IInv, TypeOK
<1>2. ExecKept(i) /\ caller' = caller /\ stale' = stale
  BY <1>1, PostedKept DEF PostArrives, clocks
<1>3. CASE i # j \/ UNCHANGED <<job, landed>>
  <2>1. job'[i] = job[i] /\ landed'[i] = landed[i]
    BY <1>1, <1>3 DEF PostArrives, TypeOK
  <2> QED BY <1>1, <1>2, <2>1, KeptRow
<1>4. CASE /\ i = j /\ Outcome(j, a) \in {"recorded", "discarded_cancelled"}
           /\ job' = [job EXCEPT ![j] = ResultRow(j, a)]
           /\ landed' = [landed EXCEPT ![j] = a]
  <2>1. State(i) = "leased" /\ job[i].attempt = a
    BY <1>4 DEF Outcome, Mine
  <2>2. job'[i] = ResultRow(i, a) /\ landed'[i] = a /\ a # 0
    BY <1>1, <1>4 DEF TypeOK, Attempts
  <2>3. caller'[i] = "inserted" /\ i \notin stale'
    BY <1>1, <1>2, <2>1 DEF RowInv, NoRow, State, Terminal
  <2>4. exec'[i][a].ok = exec[i][a].ok /\ exec'[i][a].phase # "running"
    BY <1>2, <1>4 DEF ExecKept, PostArrives, Posting
  <2>5. job'[i].attempt <= MaxAttempts(i) \/ job'[i].attempt # a
    BY <1>1, <2>1 DEF RowInv
  <2>6. CASE job'[i] \in {Ended(job[i], "cancelled"), Ended(job[i], "failed")}
    <3>1. /\ job'[i].state \in {"cancelled", "failed"} /\ job'[i].attempt = a
          /\ job'[i].payload = FALSE /\ job'[i].result = 0
      BY <1>1, <2>1, <2>6 DEF Ended, RowType
    <3> QED BY <2>2, <2>3, <2>5, <3>1 DEF RowInv, State, Active, Terminal
  <2>7. CASE job'[i] = Succeeded(i, a) /\ exec[i][a].ok
    <3>1. /\ job'[i].state = "succeeded" /\ job'[i].attempt = a
          /\ job'[i].payload = FALSE
          /\ job'[i].result # 0 => /\ job'[i].result = a /\ i \notin ToolJobs
                                   /\ ~job'[i].delivered /\ ~job'[i].scrubbed
      <4>1. CASE i \in ToolJobs
        BY <1>1, <2>1, <2>7, <4>1 DEF Succeeded, Delivered, RowType
      <4>2. CASE i \notin ToolJobs
        <5>1. job'[i] = [job[i] EXCEPT !.state = "succeeded", !.payload = FALSE,
                                       !.result = a]
          BY <2>7, <4>2 DEF Succeeded
        <5>2. ~job[i].delivered /\ ~job[i].scrubbed
          BY <1>1, <2>1 DEF RowInv, State, Active
        <5> QED BY <1>1, <2>1, <4>2, <5>1, <5>2 DEF RowType
      <4> QED BY <4>1, <4>2
    <3> QED BY <2>2, <2>3, <2>4, <2>5, <2>7, <3>1 DEF RowInv, State, Active, Terminal
  <2>8. job'[i] \in {Ended(job[i], "cancelled"), Ended(job[i], "failed")}
        \/ (job'[i] = Succeeded(i, a) /\ exec[i][a].ok)
    BY <1>4, <2>2 DEF ResultRow
  <2> QED BY <2>6, <2>7, <2>8
<1> QED BY <1>3, <1>4 DEF PostArrives

LEMMA StepWorker ==
  ASSUME IInv, WorkerStep, NEW i \in Jobs
  PROVE  RowInv(i)'
<1>1. TypeOK /\ RowInv(i)
  BY DEF IInv
<1>2. ASSUME ExecKept(i), UNCHANGED <<job, landed, caller, stale>> PROVE RowInv(i)'
  BY <1>1, <1>2, KeptRow
<1>3. ASSUME NEW j \in Jobs, NEW a \in Attempts, HeartbeatHeld(j, a) PROVE RowInv(i)'
  <2>1. ExecKept(i)
    <3>1. CASE UNCHANGED exec
      BY <3>1 DEF ExecKept
    <3>2. CASE ~UNCHANGED exec
      BY <1>1, <1>3, <3>2, StoppedKept DEF HeartbeatHeld
    <3> QED BY <3>1, <3>2
  <2> QED BY <1>2, <1>3, <2>1 DEF HeartbeatHeld
<1>4. ASSUME NEW j \in Jobs, NEW a \in Attempts, HeartbeatLost(j, a) PROVE RowInv(i)'
  BY <1>1, <1>2, <1>4, StoppedKept DEF HeartbeatLost, clocks
<1>5. ASSUME NEW j \in Jobs, NEW a \in Attempts, NEW ok \in BOOLEAN,
             FinishRun(j, a, ok)
      PROVE  RowInv(i)'
  BY <1>1, <1>2, <1>5, StoppedKept DEF FinishRun, clocks
<1>6. ASSUME NEW j \in Jobs, NEW a \in Attempts, PostLost(j, a) PROVE RowInv(i)'
  BY <1>1, <1>2, <1>6, PostedKept DEF PostLost, clocks
<1>7. ASSUME NEW w \in Workers, WorkerCrash(w) PROVE RowInv(i)'
  BY <1>1, <1>2, <1>7, CrashKept DEF WorkerCrash, clocks
<1> QED BY <1>3, <1>4, <1>5, <1>6, <1>7, ClaimRow, PostRow DEF WorkerStep

LEMMA StepReap ==
  ASSUME IInv, NEW p \in Reapers, ReapStep(p), NEW i \in Jobs
  PROVE  RowInv(i)'
<1>1. TypeOK /\ RowInv(i) /\ job[i] \in RowType
  BY DEF IInv, TypeOK
<1>2. ExecKept(i) /\ UNCHANGED <<landed, caller, exec, stale>>
  BY DEF ReapStep, ReapCancelled, ReapRequeue, ReapLease, ReapDeadline,
         ReapLedger, ReapCrash, ExecKept, clocks
<1>3. CASE ReapCancelled(p)
  BY <1>2, <1>3, EndAllRows DEF ReapCancelled, Active
<1>4. CASE ReapLease(p)
  BY <1>2, <1>4, EndAllRows DEF ReapLease, DueLease, Active
<1>5. CASE ReapDeadline(p)
  BY <1>2, <1>5, EndAllRows DEF ReapDeadline, DueDeadline, Active
<1>6. CASE ReapRequeue(p)
  <2>1. CASE i \in Retryable(p)
    <3>1. job'[i] = [job[i] EXCEPT !.state = "queued", !.leasedBy = NoWorker]
      BY <1>6, <2>1 DEF ReapRequeue
    <3>2. /\ job'[i].state = "queued" /\ job'[i].attempt = job[i].attempt
          /\ job'[i].result = job[i].result
          /\ job'[i].delivered = job[i].delivered /\ job'[i].scrubbed = job[i].scrubbed
      BY <1>1, <3>1 DEF RowType
    <3>3. State(i) = "leased" /\ job[i].attempt < MaxAttempts(i)
      BY <2>1 DEF Retryable, DueLease
    <3>4. /\ caller[i] = "inserted" /\ landed[i] = 0 /\ i \notin stale
          /\ job[i].result = 0 /\ ~job[i].delivered /\ ~job[i].scrubbed
          /\ job[i].attempt <= MaxAttempts(i)
      BY <1>1, <3>3 DEF RowInv, NoRow, State, Active, Terminal
    <3> QED BY <1>2, <3>2, <3>3, <3>4 DEF RowInv, State, Active, Terminal
  <2>2. CASE i \notin Retryable(p)
    <3>1. job'[i] = job[i]
      BY <1>6, <2>2 DEF ReapRequeue
    <3> QED BY <1>1, <1>2, <3>1, KeptRow
  <2> QED BY <2>1, <2>2
<1>7. CASE ReapLedger(p) \/ ReapCrash(p)
  BY <1>1, <1>2, <1>7, KeptRow DEF ReapLedger, ReapCrash
<1> QED BY <1>3, <1>4, <1>5, <1>6, <1>7 DEF ReapStep

LEMMA StepTime ==
  ASSUME IInv, TimeStep, NEW i \in Jobs
  PROVE  RowInv(i)'
<1>1. TypeOK /\ RowInv(i)
  BY DEF IInv
<1>2. ExecKept(i) /\ UNCHANGED <<job, landed, caller>>
  BY DEF TimeStep, LeaseLapses, DeadlinePasses, ContentTtlPasses, RowTtlPasses, ExecKept
<1>3. i \in stale' => i \in stale \/ State(i) \in Terminal
  BY DEF TimeStep, LeaseLapses, DeadlinePasses, ContentTtlPasses, RowTtlPasses
<1> QED BY <1>1, <1>2, <1>3, KeptRow

LEMMA StepIInv ==
  ASSUME IInv, [Next]_vars
  PROVE  IInv'
<1>1. TypeOK'
  BY IInvImplies, TypeStep
<1>2. ASSUME NEW i \in Jobs PROVE RowInv(i)'
  <2>1. CASE UNCHANGED vars
    <3>1. TypeOK /\ RowInv(i) /\ ExecKept(i)
      BY <2>1 DEF IInv, ExecKept, vars
    <3> QED BY <2>1, <3>1, KeptRow DEF vars
  <2> QED BY <2>1, StepHub, StepWorker, StepReap, StepTime DEF Next
<1> QED BY <1>1, <1>2 DEF IInv

\* The inductive invariant holds in every reachable state.
THEOREM QueueInvariant == Spec => []IInv
<1>1. Init => IInv
  BY InitIInv
<1>2. IInv /\ [Next]_vars => IInv'
  BY StepIInv
<1> QED BY <1>1, <1>2, PTL DEF Spec

\* Every variable keeps its type; a claim count never exceeds max_attempts.
THEOREM TypeCorrect == Spec => []TypeOK
BY QueueInvariant, IInvImplies, PTL

\* claimNext, postResult and the reaper keep the claims of KIND_POLICY.
THEOREM ClaimsAreBounded == Spec => []ClaimsBounded
BY QueueInvariant, IInvImplies, PTL

\* Prompts and answers leave the row as the content policy of the store says.
THEOREM ContentIsTransient == Spec => []ContentTransient
BY QueueInvariant, IInvImplies, PTL

\* The compare-and-set of postResult takes the newest claim's result only.
THEOREM NewestClaimWins == Spec => []NewestClaimLands
BY QueueInvariant, IInvImplies, PTL

LEMMA EndKept ==
  ASSUME IInv, Next, NEW j \in Jobs, State(j) \in Terminal
  PROVE  State(j)' \in {State(j), "absent"} /\ landed'[j] = landed[j]
<1>1. TypeOK /\ RowInv(j) /\ job[j] \in RowType
  BY DEF IInv, TypeOK
<1>2. State(j) \notin Active /\ caller[j] = "inserted"
  BY <1>1 DEF RowInv, NoRow, State, Terminal, Active
<1>3. ASSUME job'[j] = job[j], landed'[j] = landed[j]
      PROVE  State(j)' \in {State(j), "absent"} /\ landed'[j] = landed[j]
  BY <1>3 DEF State
<1>4. CASE HubStep
  <2>1. ASSUME NEW i \in Jobs, EnqueueCheck(i) \/ EnqueueInsert(i)
                               \/ CancelQueued(i) \/ CancelLeased(i)
        PROVE  job'[j] = job[j] /\ landed'[j] = landed[j]
    BY <1>1, <1>2, <2>1 DEF EnqueueCheck, EnqueueInsert, CancelQueued, CancelLeased,
                            TypeOK, Active
  <2>2. ASSUME NEW i \in Jobs, DeliverResult(i)
        PROVE  State(j)' = State(j) /\ landed'[j] = landed[j]
    <3>1. Delivered(job[j]).state = job[j].state
      BY <1>1 DEF Delivered, RowType
    <3> QED BY <1>1, <2>2, <3>1 DEF DeliverResult, TypeOK, State
  <2>3. ASSUME SweepStale
        PROVE  State(j)' \in {State(j), "absent"} /\ landed'[j] = landed[j]
    <3>1. Scrubbed(job[j]).state = job[j].state /\ NoRow.state = "absent"
      BY <1>1 DEF Scrubbed, RowType, NoRow
    <3> QED BY <2>3, <3>1 DEF SweepStale, State
  <2> QED BY <1>3, <1>4, <2>1, <2>2, <2>3 DEF HubStep
<1>5. CASE WorkerStep
  <2>1. ASSUME NEW s \in Slots, NEW i \in Jobs, NEW got \in BOOLEAN, Claim(s, i, got)
        PROVE  job'[j] = job[j] /\ landed'[j] = landed[j]
    BY <1>1, <1>2, <2>1 DEF Claim, TypeOK, Active
  <2>2. ASSUME NEW i \in Jobs, NEW a \in Attempts, NEW seen \in BOOLEAN,
               PostArrives(i, a, seen)
        PROVE  job'[j] = job[j] /\ landed'[j] = landed[j]
    <3>1. Outcome(i, a) \in {"recorded", "discarded_cancelled"} => State(i) = "leased"
      BY DEF Outcome
    <3> QED BY <1>1, <1>2, <2>2, <3>1 DEF PostArrives, TypeOK, Active
  <2>3. CASE UNCHANGED <<job, landed>>
    BY <1>3, <2>3
  <2> QED
    BY <1>3, <1>5, <2>1, <2>2, <2>3
       DEF WorkerStep, HeartbeatHeld, HeartbeatLost, FinishRun, PostLost, WorkerCrash
<1>6. ASSUME NEW p \in Reapers, ReapStep(p)
      PROVE  job'[j] = job[j] /\ landed'[j] = landed[j]
  BY <1>2, <1>6 DEF ReapStep, ReapCancelled, ReapRequeue, ReapLease, ReapDeadline,
                    ReapLedger, ReapCrash, EndAll, Retryable, DueLease, DueDeadline, Active
<1>7. CASE TimeStep
  BY <1>3, <1>7 DEF TimeStep, LeaseLapses, DeadlinePasses, ContentTtlPasses, RowTtlPasses
<1> QED BY <1>3, <1>4, <1>5, <1>6, <1>7 DEF Next

\* No statement of the store, in any order, changes how a job ended.
THEOREM EndsAreFinal == Spec => EndIsFinal
<1> DEFINE Kept == \A j \in Jobs : State(j) \in Terminal =>
                     /\ State(j)' \in {State(j), "absent"}
                     /\ landed'[j] = landed[j]
<1>1. IInv /\ [Next]_vars => [Kept]_vars
  BY EndKept
<1>2. EndIsFinal <=> [][Kept]_vars
  BY DEF EndIsFinal
<1> HIDE DEF Kept
<1> QED BY <1>1, <1>2, QueueInvariant, PTL DEF Spec

-----------------------------------------------------------------------------
(***************************************************************************)
(* DispatchQueue implements JobLifecycle, for every value of the           *)
(* constants: the mapped initial state is initial, and every step of the   *)
(* queue is a step of the life cycle or changes nothing in it.             *)
(***************************************************************************)

End(j) == IF State(j) \in Terminal THEN State(j) ELSE "none"

\* What JobLifecycle sees of a job.
Shown(j) == <<Phase(j), job[j].attempt, End(j), job[j].delivered>>

LEMMA PhaseIs ==
  ASSUME NEW j \in Jobs
  PROVE  /\ State(j) \in Active => Phase(j) = "pending"
         /\ State(j) \in Terminal => Phase(j) = "settled"
         /\ State(j) = "absent" =>
              Phase(j) = IF caller[j] = "inserted" THEN "forgotten" ELSE "unknown"
BY DEF Phase, Active, Terminal

LEMMA Stutter ==
  ASSUME \A i \in Jobs : Shown(i)' = Shown(i)
  PROVE  UNCHANGED Lifecycle!vars
<1>1. \A i \in Jobs : /\ Phase(i)' = Phase(i)
                      /\ job'[i].attempt = job[i].attempt
                      /\ End(i)' = End(i)
                      /\ job'[i].delivered = job[i].delivered
  BY DEF Shown
<1> QED BY <1>1 DEF Lifecycle!vars, End

LEMMA SameRow ==
  ASSUME NEW i \in Jobs, job'[i] = job[i],
         caller'[i] = caller[i] \/ (caller[i] # "inserted" /\ caller'[i] # "inserted")
  PROVE  Shown(i)' = Shown(i)
BY DEF Shown, Phase, End, State

LEMMA InitLifecycle == Init => Lifecycle!Init
BY DEF Init, Lifecycle!Init, Phase, State, NoRow, Active, Terminal

\* A job that is not absent has been inserted.
LEMMA Present ==
  ASSUME IInv, NEW j \in Jobs
  PROVE  State(j) # "absent" => caller[j] = "inserted"
BY DEF IInv, RowInv, NoRow, State

\* The row of an ended job, seen from the life cycle.
LEMMA EndedShown ==
  ASSUME TypeOK, NEW j \in Jobs, NEW st \in {"cancelled", "expired", "failed"},
         job'[j] = Ended(job[j], st)
  PROVE  /\ Phase(j)' = "settled" /\ End(j)' = st
         /\ job'[j].attempt = job[j].attempt
         /\ job'[j].delivered = job[j].delivered
<1>1. /\ job'[j].state = st
      /\ job'[j].attempt = job[j].attempt
      /\ job'[j].delivered = job[j].delivered
  BY DEF Ended, TypeOK, RowType
<1> QED BY <1>1 DEF Phase, End, State, Active, Terminal

\* cancelJob and the reaper give up a set of jobs, or none.
LEMMA GivesUp ==
  ASSUME TypeOK, NEW S \in SUBSET Jobs, NEW st \in {"cancelled", "expired"},
         \A j \in S : State(j) \in Active,
         \A j \in S : job'[j] = Ended(job[j], st),
         \A j \in Jobs \ S : job'[j] = job[j],
         UNCHANGED caller
  PROVE  [Lifecycle!Next]_(Lifecycle!vars)
<1>1. \A i \in Jobs \ S : Shown(i)' = Shown(i)
  BY SameRow
<1>2. CASE S = {}
  BY <1>1, <1>2, Stutter
<1>3. CASE S # {}
  <2>1. \A i \in S : /\ Phase(i)' = "settled" /\ End(i)' = st /\ Phase(i) = "pending"
                     /\ job'[i].attempt = job[i].attempt
                     /\ job'[i].delivered = job[i].delivered
    BY EndedShown, PhaseIs
  <2>2. \A i \in Jobs \ S : /\ Phase(i)' = Phase(i) /\ End(i)' = End(i)
                            /\ job'[i].attempt = job[i].attempt
                            /\ job'[i].delivered = job[i].delivered
    BY <1>1 DEF Shown
  <2>3. Lifecycle!GiveUp(S, st)
    BY <1>3, <2>1, <2>2 DEF Lifecycle!GiveUp, End
  <2> QED BY <2>3 DEF Lifecycle!Next, Lifecycle!Outcomes
<1> QED BY <1>2, <1>3

LEMMA HubRefines ==
  ASSUME IInv, HubStep
  PROVE  [Lifecycle!Next]_(Lifecycle!vars)
<1>1. TypeOK /\ \A j \in Jobs : RowInv(j) /\ job[j] \in RowType
  BY DEF IInv, TypeOK
<1>2. ASSUME NEW j \in Jobs, EnqueueCheck(j)
      PROVE  [Lifecycle!Next]_(Lifecycle!vars)
  <2>1. \A i \in Jobs : Shown(i)' = Shown(i)
    BY <1>1, <1>2, SameRow DEF EnqueueCheck, TypeOK
  <2> QED BY <2>1, Stutter
<1>3. ASSUME NEW j \in Jobs, EnqueueInsert(j)
      PROVE  [Lifecycle!Next]_(Lifecycle!vars)
  <2>1. \A i \in Jobs \ {j} : Shown(i)' = Shown(i)
    BY <1>1, <1>3, SameRow DEF EnqueueInsert, TypeOK
  <2>2. job[j] = NoRow /\ caller[j] # "inserted"
    BY <1>1, <1>3 DEF EnqueueInsert, RowInv
  <2>3. Shown(j) = <<"unknown", 0, "none", FALSE>>
    BY <2>2, PhaseIs DEF Shown, End, State, NoRow, Terminal
  <2>4. job'[j] = [NoRow EXCEPT !.state = "queued", !.payload = TRUE]
    BY <1>1, <1>3 DEF EnqueueInsert, TypeOK
  <2>5. Shown(j)' = <<"pending", 0, "none", FALSE>>
    <3>1. State(j)' = "queued" /\ job'[j].attempt = 0 /\ job'[j].delivered = FALSE
      BY <2>4 DEF State, NoRow
    <3> QED BY <3>1 DEF Shown, Phase, End, State, Active, Terminal
  <2>6. Lifecycle!Submit(j)
    BY <2>1, <2>3, <2>5 DEF Lifecycle!Submit, Shown, End
  <2> QED BY <2>6 DEF Lifecycle!Next
<1>4. ASSUME NEW j \in Jobs, CancelQueued(j)
      PROVE  [Lifecycle!Next]_(Lifecycle!vars)
  <2>1. CASE State(j) = "queued"
    <3>1. /\ job'[j] = Ended(job[j], "cancelled")
          /\ \A i \in Jobs \ {j} : job'[i] = job[i]
          /\ UNCHANGED caller
      BY <1>1, <1>4, <2>1 DEF CancelQueued, TypeOK
    <3> QED BY <1>1, <2>1, <3>1, GivesUp DEF Active
  <2>2. CASE State(j) # "queued"
    <3>1. \A i \in Jobs : Shown(i)' = Shown(i)
      BY <1>4, <2>2, SameRow DEF CancelQueued
    <3> QED BY <3>1, Stutter
  <2> QED BY <2>1, <2>2
<1>5. ASSUME NEW j \in Jobs, CancelLeased(j)
      PROVE  [Lifecycle!Next]_(Lifecycle!vars)
  <2>1. \A i \in Jobs : /\ job'[i].state = job[i].state
                        /\ job'[i].attempt = job[i].attempt
                        /\ job'[i].delivered = job[i].delivered
    BY <1>1, <1>5 DEF CancelLeased, TypeOK, RowType
  <2>2. \A i \in Jobs : Shown(i)' = Shown(i)
    BY <1>5, <2>1 DEF CancelLeased, Shown, Phase, End, State
  <2> QED BY <2>2, Stutter
<1>6. ASSUME NEW j \in Jobs, DeliverResult(j)
      PROVE  [Lifecycle!Next]_(Lifecycle!vars)
  <2>1. \A i \in Jobs \ {j} : Shown(i)' = Shown(i)
    BY <1>1, <1>6, SameRow DEF DeliverResult, TypeOK
  <2>2. State(j) = "succeeded" /\ job[j].delivered = FALSE
    BY <1>1, <1>6 DEF DeliverResult, Deliverable, RowType
  <2>3. /\ job'[j].state = "succeeded" /\ job'[j].delivered = TRUE
        /\ job'[j].attempt = job[j].attempt
    <3>1. job'[j] = Delivered(job[j])
      BY <1>1, <1>6 DEF DeliverResult, TypeOK
    <3> QED BY <1>1, <2>2, <3>1 DEF Delivered, RowType, State
  <2>4. Phase(j) = "settled" /\ Phase(j)' = "settled"
    BY <2>2, <2>3 DEF Phase, State, Active, Terminal
  <2>5. Lifecycle!Read(j)
    BY <2>1, <2>2, <2>3, <2>4 DEF Lifecycle!Read, Shown, End, State, Terminal
  <2> QED BY <2>5 DEF Lifecycle!Next
<1>7. ASSUME SweepStale
      PROVE  [Lifecycle!Next]_(Lifecycle!vars)
  <2>1. PICK S \in SUBSET Jobs : S = {i \in aged : State(i) # "absent"}
    <3>1. {i \in aged : State(i) # "absent"} \in SUBSET Jobs
      BY <1>1 DEF TypeOK
    <3> QED BY <3>1
  <2>2. ASSUME NEW i \in Jobs \ S PROVE Shown(i)' = Shown(i)
    <3>1. CASE i \in aged
      <4>1. State(i) = "absent" /\ job'[i] = NoRow
        BY <1>7, <2>1, <2>2, <3>1 DEF SweepStale
      <4>2. job[i] = NoRow
        BY <1>1, <4>1 DEF RowInv
      <4> QED BY <1>7, <4>1, <4>2, SameRow DEF SweepStale
    <3>2. CASE i \notin aged /\ i \in stale /\ ~job[i].scrubbed
      <4>1. job'[i] = Scrubbed(job[i])
        BY <1>7, <3>2 DEF SweepStale
      <4>2. /\ job'[i].state = job[i].state /\ job'[i].attempt = job[i].attempt
            /\ job'[i].delivered = job[i].delivered
        BY <1>1, <4>1 DEF Scrubbed, RowType
      <4> QED BY <1>7, <4>2 DEF SweepStale, Shown, Phase, End, State
    <3>3. CASE i \notin aged /\ ~(i \in stale /\ ~job[i].scrubbed)
      BY <1>7, <3>3, SameRow DEF SweepStale
    <3> QED BY <3>1, <3>2, <3>3
  <2>3. CASE S = {}
    BY <2>2, <2>3, Stutter
  <2>4. CASE S # {}
    <3>1. ASSUME NEW i \in S
          PROVE  /\ Phase(i) \in {"pending", "settled"}
                 /\ Shown(i)' = <<"forgotten", 0, "none", FALSE>>
      <4>1. State(i) \in Active \cup Terminal /\ caller[i] = "inserted"
        BY <1>1, <2>1, Present DEF State, RowType
      <4>2. job'[i] = NoRow /\ caller'[i] = "inserted"
        BY <1>7, <2>1, <4>1 DEF SweepStale
      <4>3. Shown(i)' = <<"forgotten", 0, "none", FALSE>>
        BY <4>2 DEF Shown, Phase, End, State, NoRow, Active, Terminal
      <4> QED BY <2>1, <4>1, <4>3, PhaseIs
    <3>2. Lifecycle!Forget(S)
      BY <2>2, <2>4, <3>1 DEF Lifecycle!Forget, Shown, End
    <3> QED BY <3>2 DEF Lifecycle!Next
  <2> QED BY <2>3, <2>4
<1> QED BY <1>2, <1>3, <1>4, <1>5, <1>6, <1>7 DEF HubStep

LEMMA ClaimRefines ==
  ASSUME IInv, NEW s \in Slots, NEW j \in Jobs, NEW got \in BOOLEAN, Claim(s, j, got)
  PROVE  Lifecycle!Next
<1>1. TypeOK /\ job[j] \in RowType /\ ClaimsBounded
  BY IInvImplies DEF IInv, TypeOK
<1>2. \A i \in Jobs \ {j} : Shown(i)' = Shown(i)
  BY <1>1, SameRow DEF Claim, TypeOK
<1>3. /\ job'[j].state = "leased" /\ job'[j].attempt = job[j].attempt + 1
      /\ job'[j].delivered = job[j].delivered
  <2>1. job'[j] = Leased(job[j], s)
    BY <1>1 DEF Claim, TypeOK
  <2> QED BY <1>1, <2>1 DEF Leased, RowType
<1>4. State(j) = "queued" /\ job[j].attempt < MaxAttempts(j)
  BY <1>1 DEF Claim, ClaimsBounded
<1>5. /\ Phase(j) = "pending" /\ Phase(j)' = "pending"
      /\ End(j) = "none" /\ End(j)' = "none"
  BY <1>3, <1>4 DEF Phase, End, State, Active, Terminal
<1>6. Lifecycle!Try(j)
  BY <1>2, <1>3, <1>4, <1>5 DEF Lifecycle!Try, Shown, End
<1> QED BY <1>6 DEF Lifecycle!Next

LEMMA PostRefines ==
  ASSUME IInv, NEW j \in Jobs, NEW a \in Attempts, NEW seen \in BOOLEAN,
         PostArrives(j, a, seen)
  PROVE  [Lifecycle!Next]_(Lifecycle!vars)
<1>1. TypeOK /\ RowInv(j) /\ job[j] \in RowType
  BY DEF IInv, TypeOK
<1>2. CASE UNCHANGED <<job, landed>>
  <2>1. \A i \in Jobs : Shown(i)' = Shown(i)
    BY <1>2, SameRow DEF PostArrives
  <2> QED BY <2>1, Stutter
<1>3. CASE /\ Outcome(j, a) \in {"recorded", "discarded_cancelled"}
           /\ job' = [job EXCEPT ![j] = ResultRow(j, a)]
  <2>1. \A i \in Jobs \ {j} : Shown(i)' = Shown(i)
    BY <1>1, <1>3, SameRow DEF PostArrives, TypeOK
  <2>2. State(j) = "leased" /\ job[j].attempt = a /\ a > 0 /\ job[j].delivered = FALSE
    <3>1. State(j) = "leased" /\ job[j].attempt = a
      BY <1>3 DEF Outcome, Mine
    <3> QED BY <1>1, <3>1 DEF RowInv, Active, Attempts, RowType
  <2>3. job'[j] = ResultRow(j, a)
    BY <1>1, <1>3 DEF TypeOK
  <2>4. PICK o \in {"succeeded", "failed", "cancelled"} :
          /\ job'[j].state = o /\ job'[j].attempt = job[j].attempt
          /\ job'[j].delivered = (o = "succeeded" /\ j \in ToolJobs)
    <3>1. CASE job'[j] \in {Ended(job[j], "cancelled"), Ended(job[j], "failed")}
      BY <1>1, <2>2, <3>1 DEF Ended, RowType
    <3>2. CASE job'[j] = Succeeded(j, a)
      <4>1. CASE j \in ToolJobs
        BY <1>1, <3>2, <4>1 DEF Succeeded, Delivered, RowType
      <4>2. CASE j \notin ToolJobs
        <5>1. job'[j] = [job[j] EXCEPT !.state = "succeeded", !.payload = FALSE,
                                       !.result = a]
          BY <3>2, <4>2 DEF Succeeded
        <5> QED BY <1>1, <2>2, <4>2, <5>1 DEF RowType
      <4> QED BY <4>1, <4>2
    <3> QED BY <2>3, <3>1, <3>2 DEF ResultRow
  <2>5. /\ Phase(j) = "pending" /\ Phase(j)' = "settled"
        /\ End(j) = "none" /\ End(j)' = o
    BY <2>2, <2>4 DEF Phase, End, State, Active, Terminal
  <2>6. Lifecycle!Report(j, o)
    BY <2>1, <2>2, <2>4, <2>5 DEF Lifecycle!Report, Shown, End
  <2> QED BY <2>6 DEF Lifecycle!Next, Lifecycle!Outcomes
<1> QED BY <1>2, <1>3 DEF PostArrives

LEMMA WorkerRefines ==
  ASSUME IInv, WorkerStep
  PROVE  [Lifecycle!Next]_(Lifecycle!vars)
<1>1. ASSUME UNCHANGED <<job, caller>> PROVE [Lifecycle!Next]_(Lifecycle!vars)
  <2>1. \A i \in Jobs : Shown(i)' = Shown(i)
    BY <1>1, SameRow
  <2> QED BY <2>1, Stutter
<1> QED
  BY <1>1, ClaimRefines, PostRefines
     DEF WorkerStep, HeartbeatHeld, HeartbeatLost, FinishRun, PostLost, WorkerCrash

LEMMA ReapRefines ==
  ASSUME IInv, NEW p \in Reapers, ReapStep(p)
  PROVE  [Lifecycle!Next]_(Lifecycle!vars)
<1>1. TypeOK /\ pass[p] \in PassType /\ UNCHANGED caller
  BY DEF IInv, TypeOK, ReapStep, ReapCancelled, ReapRequeue, ReapLease, ReapDeadline,
         ReapLedger, ReapCrash
<1>2. CASE ReapCancelled(p)
  <2> DEFINE dead == {i \in {k \in lapsed : State(k) = "leased"} : job[i].cancelReq}
  <2>1. EndAll(dead, "cancelled") /\ dead \in SUBSET Jobs
    BY <1>1, <1>2 DEF ReapCancelled, TypeOK
  <2> QED BY <1>1, <2>1, GivesUp DEF EndAll, Active
<1>3. CASE ReapLease(p)
  <2>1. EndAll(DueLease(p), "expired") /\ DueLease(p) \in SUBSET Jobs
        /\ \A i \in DueLease(p) : State(i) = "leased"
    BY <1>1, <1>3 DEF ReapLease, DueLease, PassType
  <2> QED BY <1>1, <2>1, GivesUp DEF EndAll, Active
<1>4. CASE ReapDeadline(p)
  <2>1. EndAll(DueDeadline(p), "expired") /\ DueDeadline(p) \in SUBSET Jobs
        /\ \A i \in DueDeadline(p) : State(i) = "queued"
    BY <1>1, <1>4 DEF ReapDeadline, DueDeadline, PassType
  <2> QED BY <1>1, <2>1, GivesUp DEF EndAll, Active
<1>5. CASE ReapRequeue(p)
  <2>1. ASSUME NEW i \in Jobs PROVE Shown(i)' = Shown(i)
    <3>1. CASE i \in Retryable(p)
      <4>1. job'[i] = [job[i] EXCEPT !.state = "queued", !.leasedBy = NoWorker]
        BY <1>5, <3>1 DEF ReapRequeue
      <4>2. /\ job'[i].state = "queued" /\ job'[i].attempt = job[i].attempt
            /\ job'[i].delivered = job[i].delivered /\ job[i].state = "leased"
        BY <1>1, <3>1, <4>1 DEF TypeOK, RowType, Retryable, DueLease, State
      <4>3. /\ Phase(i)' = "pending" /\ Phase(i) = "pending"
            /\ End(i)' = "none" /\ End(i) = "none"
        BY <4>2 DEF Phase, End, State, Active, Terminal
      <4> QED BY <4>2, <4>3 DEF Shown
    <3>2. CASE i \notin Retryable(p)
      BY <1>1, <1>5, <3>2, SameRow DEF ReapRequeue
    <3> QED BY <3>1, <3>2
  <2> QED BY <2>1, Stutter
<1>6. CASE ReapLedger(p) \/ ReapCrash(p)
  <2>1. \A i \in Jobs : Shown(i)' = Shown(i)
    BY <1>1, <1>6, SameRow DEF ReapLedger, ReapCrash
  <2> QED BY <2>1, Stutter
<1> QED BY <1>2, <1>3, <1>4, <1>5, <1>6 DEF ReapStep

LEMMA StepRefines ==
  ASSUME IInv, [Next]_vars
  PROVE  [Lifecycle!Next]_(Lifecycle!vars)
<1>1. ASSUME UNCHANGED <<job, caller>> PROVE [Lifecycle!Next]_(Lifecycle!vars)
  <2>1. \A i \in Jobs : Shown(i)' = Shown(i)
    BY <1>1, SameRow
  <2> QED BY <2>1, Stutter
<1>2. TimeStep \/ UNCHANGED vars => UNCHANGED <<job, caller>>
  BY DEF TimeStep, LeaseLapses, DeadlinePasses, ContentTtlPasses, RowTtlPasses, vars
<1> QED BY <1>1, <1>2, HubRefines, WorkerRefines, ReapRefines DEF Next

\* The statements of the store, interleaved with workers, lost replies, crashes
\* and reapers, keep the promise a caller of the queue reads in its interface.
THEOREM QueueImplementsLifecycle == Spec => KeepsLifecycle
<1>1. IInv /\ [Next]_vars => [Lifecycle!Next]_(Lifecycle!vars)
  BY StepRefines
<1> QED
  BY <1>1, InitLifecycle, QueueInvariant, PTL DEF Spec, KeepsLifecycle, Lifecycle!Spec
=============================================================================
