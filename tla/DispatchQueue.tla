--------------------------- MODULE DispatchQueue ---------------------------
(***************************************************************************)
(* The desktop-dispatch queue: the dispatch_jobs table of                  *)
(* lib/dispatch-store.ts, the worker processes of lib/dispatch-worker.ts   *)
(* that claim from it over HTTP, and the Hub callers that enqueue, cancel, *)
(* reap, read and sweep it.                                                *)
(*                                                                         *)
(* Atomicity.  One action is one SQL statement or one transaction of the   *)
(* store.  cancelJob (two statements), reapExpired (four statements and    *)
(* the ledger pass) and enqueueJob (a count, then an insert) are therefore *)
(* split, and anything may happen between their parts.                     *)
(*                                                                         *)
(* Time.  A timestamp comparison is a fact that becomes true: a lease is   *)
(* in lapsed once lease_expires_at has passed, a job in overdue once       *)
(* deadline_at has, in stale once it finished CONTENT_TTL_MS ago, in aged  *)
(* once its row is ROW_TTL_DAYS old.  The facts come true in every order   *)
(* that the sizes of the constants in the source allow.                    *)
(***************************************************************************)
EXTENDS Naturals, FiniteSets

CONSTANTS
  ChatJobs,       \* jobs of kind chat_turn
  WorkJobs,       \* jobs of kind work_item
  ToolJobs,       \* the work items whose payload_meta carries a toolRunId
  Workers,        \* worker ids
  Slots,          \* worker slots, each a serial claim/execute loop
  WorkerOf,       \* the worker a slot belongs to
  KindOf,         \* the one kind a slot claims
  Reapers,        \* Hub instances that may be inside reapExpired
  WorkAttempts,   \* max_attempts of a work_item (3 in the source)
  MaxPosts,       \* result POSTs a worker tries (3 in the source)
  MaxActiveChat,  \* chat jobs enqueueJob admits (3 in the source)
  MaxQueuedWork,  \* work items enqueueJob admits (10 in the source)
  NoWorker, NoSlot

Jobs     == ChatJobs \cup WorkJobs
Kinds    == {"chat_turn", "work_item"}
Attempts == 1 .. WorkAttempts

ASSUME JobsAssumption ==
  /\ IsFiniteSet(Jobs)
  /\ ChatJobs \cap WorkJobs = {}
  /\ ToolJobs \subseteq WorkJobs
ASSUME SlotsAssumption ==
  /\ WorkerOf \in [Slots -> Workers]
  /\ KindOf \in [Slots -> Kinds]
  /\ NoWorker \notin Workers
  /\ NoSlot \notin Slots
ASSUME BoundsAssumption ==
  /\ WorkAttempts \in Nat \ {0}
  /\ MaxPosts \in Nat \ {0}
  /\ MaxActiveChat \in Nat
  /\ MaxQueuedWork \in Nat

\* KIND_POLICY: a chat turn is claimed at most once, a work item is retried.
Kind(j) == IF j \in ChatJobs THEN "chat_turn" ELSE "work_item"

\* Mutant: one claim too many.
MaxAttemptsOffByOne(j) == IF j \in ChatJobs THEN 1 ELSE WorkAttempts + 1

MaxAttempts(j) == IF j \in ChatJobs THEN 1 ELSE WorkAttempts

-----------------------------------------------------------------------------
VARIABLES
  job,        \* the row of each job (RowType); state "absent" is no row
  caller,     \* how far the enqueueJob call for each job has come
  exec,       \* the execution of each claim of each job, by attempt number
  cancelling, \* jobs with a cancelJob call between its two statements
  pass,       \* the reapExpired call of each Hub instance
  lapsed, overdue, stale, aged,   \* which timestamps have passed
  landed      \* history: the attempt whose result POST ended the job, or 0

vars == <<job, caller, exec, cancelling, pass,
          lapsed, overdue, stale, aged, landed>>

clocks == <<lapsed, overdue, stale, aged>>

Active   == {"queued", "leased"}
Terminal == {"succeeded", "failed", "cancelled", "expired"}

\* result is the attempt whose text result_text holds; 0 is NULL.
RowType ==
  [state: {"absent"} \cup Active \cup Terminal,
   attempt: 0 .. WorkAttempts,
   leasedBy: Workers \cup {NoWorker},
   cancelReq: BOOLEAN,
   payload: BOOLEAN,
   result: 0 .. WorkAttempts,
   delivered: BOOLEAN,
   scrubbed: BOOLEAN]

ExecType ==
  [phase: {"none", "running", "posting", "gone"},
   slot: Slots \cup {NoSlot},
   ok: BOOLEAN,
   posts: 0 .. MaxPosts]

PassType ==
  [pc: {"idle", "requeue", "lease", "deadline", "ledger"},
   lapsed: SUBSET Jobs,     \* leases with lease_expires_at < the pass's now
   overdue: SUBSET Jobs,    \* jobs with deadline_at < the pass's now
   cancelled: SUBSET Jobs,  \* rows this pass cancelled, to be ledgered
   expired: SUBSET Jobs]    \* rows this pass expired, to be ledgered

TypeOK ==
  /\ job \in [Jobs -> RowType]
  /\ caller \in [Jobs -> {"idle", "checked", "refused", "inserted"}]
  /\ exec \in [Jobs -> [Attempts -> ExecType]]
  /\ cancelling \in SUBSET Jobs
  /\ pass \in [Reapers -> PassType]
  /\ lapsed \in SUBSET Jobs
  /\ overdue \in SUBSET Jobs
  /\ stale \in SUBSET Jobs
  /\ aged \in SUBSET Jobs
  /\ landed \in [Jobs -> 0 .. WorkAttempts]

NoRow ==
  [state |-> "absent", attempt |-> 0, leasedBy |-> NoWorker,
   cancelReq |-> FALSE, payload |-> FALSE, result |-> 0,
   delivered |-> FALSE, scrubbed |-> FALSE]

NoExec == [phase |-> "none", slot |-> NoSlot, ok |-> FALSE, posts |-> 0]

IdlePass == [pc |-> "idle", lapsed |-> {}, overdue |-> {},
             cancelled |-> {}, expired |-> {}]

Init ==
  /\ job = [j \in Jobs |-> NoRow]
  /\ caller = [j \in Jobs |-> "idle"]
  /\ exec = [j \in Jobs |-> [a \in Attempts |-> NoExec]]
  /\ cancelling = {}
  /\ pass = [p \in Reapers |-> IdlePass]
  /\ lapsed = {}
  /\ overdue = {}
  /\ stale = {}
  /\ aged = {}
  /\ landed = [j \in Jobs |-> 0]

State(j) == job[j].state

\* Mutant: ending a job leaves the prompt.
EndedKeepsPayload(row, st) ==
  [row EXCEPT !.state = st, !.result = 0, !.scrubbed = TRUE]

\* The statements that end a job all null both texts and stamp scrubbed_at.
Ended(row, st) ==
  [row EXCEPT !.state = st, !.payload = FALSE, !.result = 0, !.scrubbed = TRUE]

EndAll(S, st) ==
  job' = [j \in Jobs |-> IF j \in S THEN Ended(job[j], st) ELSE job[j]]

-----------------------------------------------------------------------------
(***************************************************************************)
(* Hub side: enqueueJob, deliverResult, cancelJob                          *)
(***************************************************************************)

ActiveOf(k) == {j \in Jobs : State(j) \in Active /\ Kind(j) = k}
Cap(k)      == IF k = "chat_turn" THEN MaxActiveChat ELSE MaxQueuedWork

\* The SELECT count(*): an admitted caller goes on to the INSERT.
EnqueueCheck(j) ==
  /\ caller[j] = "idle"
  /\ caller' = [caller EXCEPT ![j] =
       IF Cardinality(ActiveOf(Kind(j))) < Cap(Kind(j))
       THEN "checked" ELSE "refused"]
  /\ UNCHANGED <<job, exec, cancelling, pass, clocks, landed>>

EnqueueInsert(j) ==
  /\ caller[j] = "checked"
  /\ caller' = [caller EXCEPT ![j] = "inserted"]
  /\ job' = [job EXCEPT ![j] = [NoRow EXCEPT !.state = "queued", !.payload = TRUE]]
  /\ UNCHANGED <<exec, cancelling, pass, clocks, landed>>

Deliverable(j) ==
  /\ State(j) = "succeeded"
  /\ ~job[j].delivered
  /\ job[j].result # 0

Delivered(row) ==
  [row EXCEPT !.delivered = TRUE, !.payload = FALSE, !.result = 0, !.scrubbed = TRUE]

\* Reading the text and nulling it are one transaction under FOR UPDATE.
DeliverResult(j) ==
  /\ Deliverable(j)
  /\ job' = [job EXCEPT ![j] = Delivered(@)]
  /\ UNCHANGED <<caller, exec, cancelling, pass, clocks, landed>>

\* cancelJob's first statement; its caller goes on to the second in any case.
CancelQueued(j) ==
  /\ caller[j] = "inserted"
  /\ cancelling' = cancelling \cup {j}
  /\ job' = IF State(j) = "queued"
            THEN [job EXCEPT ![j] = Ended(@, "cancelled")] ELSE job
  /\ UNCHANGED <<caller, exec, pass, clocks, landed>>

CancelLeased(j) ==
  /\ j \in cancelling
  /\ cancelling' = cancelling \ {j}
  /\ job' = IF State(j) = "leased"
            THEN [job EXCEPT ![j].cancelReq = TRUE] ELSE job
  /\ UNCHANGED <<caller, exec, pass, clocks, landed>>

-----------------------------------------------------------------------------
(***************************************************************************)
(* Worker side: claimNext, heartbeatJob, postResult                        *)
(***************************************************************************)

Busy(s) == \E j \in Jobs, a \in Attempts :
             exec[j][a].slot = s /\ exec[j][a].phase \in {"running", "posting"}

\* A claim or a heartbeat moves lease_expires_at beyond the now of every pass
\* that is under way.
Renew(j) ==
  /\ lapsed' = lapsed \ {j}
  /\ pass' = [p \in Reapers |-> [pass[p] EXCEPT !.lapsed = @ \ {j}]]

Leased(row, s) ==
  [row EXCEPT !.state = "leased", !.leasedBy = WorkerOf[s], !.attempt = @ + 1]

\* SKIP LOCKED passes over a row that another statement holds, so any queued
\* row of the slot's kind can be the one picked.  cancel_requested_at is not
\* reset.  got is FALSE when the reply never reaches the slot.
Claim(s, j, got) ==
  /\ ~Busy(s)
  /\ State(j) = "queued"
  /\ j \notin overdue
  /\ Kind(j) = KindOf[s]
  /\ job' = [job EXCEPT ![j] = Leased(@, s)]
  /\ exec' = [exec EXCEPT ![j][job[j].attempt + 1] =
       [NoExec EXCEPT !.phase = IF got THEN "running" ELSE "gone", !.slot = s]]
  /\ Renew(j)
  /\ UNCHANGED <<caller, cancelling, overdue, stale, aged, landed>>

\* Mutant: the compare-and-set forgets the attempt.
MineByWorker(j, a) == job[j].leasedBy = WorkerOf[exec[j][a].slot]

\* leased_by = workerId AND attempt = attempt, in heartbeatJob and postResult.
Mine(j, a) ==
  /\ job[j].leasedBy = WorkerOf[exec[j][a].slot]
  /\ job[j].attempt = a

Live(j, a) == exec[j][a].phase \in {"running", "posting"}

Stopped(e, ok) == [e EXCEPT !.phase = "posting", !.ok = ok]

\* A beat that is still the holder's extends the lease, lapsed or not; the
\* worker may miss the reply, or learn from it that it must abort.
HeartbeatHeld(j, a) ==
  /\ Live(j, a)
  /\ State(j) = "leased"
  /\ Mine(j, a)
  /\ Renew(j)
  /\ \/ UNCHANGED exec
     \/ /\ exec[j][a].phase = "running"
        /\ job[j].cancelReq
        /\ exec' = [exec EXCEPT ![j][a] = Stopped(@, FALSE)]
  /\ UNCHANGED <<job, caller, cancelling, overdue, stale, aged, landed>>

\* Otherwise the reply is lease_lost and the worker aborts its run.
HeartbeatLost(j, a) ==
  /\ exec[j][a].phase = "running"
  /\ ~(State(j) = "leased" /\ Mine(j, a))
  /\ exec' = [exec EXCEPT ![j][a] = Stopped(@, FALSE)]
  /\ UNCHANGED <<job, caller, cancelling, pass, clocks, landed>>

\* runFn resolves or rejects within its timeout; the worker starts to post.
FinishRun(j, a, ok) ==
  /\ exec[j][a].phase = "running"
  /\ exec' = [exec EXCEPT ![j][a] = Stopped(@, ok)]
  /\ UNCHANGED <<job, caller, cancelling, pass, clocks, landed>>

\* Mutant: a late result lands on a row that the reaper has expired.
OutcomeRevives(j, a) ==
  CASE State(j) = "absent" -> "not_found"
    [] State(j) \in {"leased", "expired"} /\ Mine(j, a) ->
         IF job[j].cancelReq THEN "discarded_cancelled" ELSE "recorded"
    [] State(j) \in {"succeeded", "failed", "cancelled"} /\ Mine(j, a) -> "duplicate"
    [] OTHER -> "discarded_lease_lost"

\* The outcome postResult answers to the POST of attempt a.
Outcome(j, a) ==
  CASE State(j) = "absent" -> "not_found"
    [] State(j) = "leased" /\ Mine(j, a) ->
         IF job[j].cancelReq THEN "discarded_cancelled" ELSE "recorded"
    [] State(j) \in {"succeeded", "failed", "cancelled"} /\ Mine(j, a) -> "duplicate"
    [] OTHER -> "discarded_lease_lost"

\* A tool run's text goes to tool_runs in the same transaction and the row
\* counts as delivered at once; other answers wait in result_text.
Succeeded(j, a) ==
  IF j \in ToolJobs
  THEN Delivered([job[j] EXCEPT !.state = "succeeded"])
  ELSE [job[j] EXCEPT !.state = "succeeded", !.payload = FALSE, !.result = a]

ResultRow(j, a) ==
  IF Outcome(j, a) = "discarded_cancelled" THEN Ended(job[j], "cancelled")
  ELSE IF exec[j][a].ok THEN Succeeded(j, a)
  ELSE Ended(job[j], "failed")

Retired(e) == [e EXCEPT !.phase = "gone", !.posts = 0]

Tried(e) == [e EXCEPT !.posts = @ + 1]

\* The worker stops posting when it reads a reply or has used its tries.
Posted(j, a, seen) ==
  exec' = [exec EXCEPT ![j][a] =
    IF seen \/ exec[j][a].posts + 1 = MaxPosts
    THEN Retired(exec[j][a]) ELSE Tried(exec[j][a])]

Posting(j, a) == exec[j][a].phase = "posting" /\ exec[j][a].posts < MaxPosts

PostArrives(j, a, seen) ==
  /\ Posting(j, a)
  /\ IF Outcome(j, a) \in {"recorded", "discarded_cancelled"}
     THEN /\ job' = [job EXCEPT ![j] = ResultRow(j, a)]
          /\ landed' = [landed EXCEPT ![j] = a]
     ELSE UNCHANGED <<job, landed>>
  /\ Posted(j, a, seen)
  /\ UNCHANGED <<caller, cancelling, pass, clocks>>

PostLost(j, a) ==
  /\ Posting(j, a)
  /\ Posted(j, a, FALSE)
  /\ UNCHANGED <<job, caller, cancelling, pass, clocks, landed>>

WorkerCrash(w) ==
  /\ \E s \in Slots : WorkerOf[s] = w /\ Busy(s)
  /\ exec' = [j \in Jobs |-> [a \in Attempts |->
       IF Live(j, a) /\ WorkerOf[exec[j][a].slot] = w
       THEN Retired(exec[j][a]) ELSE exec[j][a]]]
  /\ UNCHANGED <<job, caller, cancelling, pass, clocks, landed>>

-----------------------------------------------------------------------------
(***************************************************************************)
(* reapExpired: four UPDATEs that share the now of the call, then the      *)
(* ledger pass over the rows they returned                                 *)
(***************************************************************************)

\* Mutants: the third statement trusts an earlier look at the leases, or expires
\* chat turns only.
DueLeaseUnchecked(p) == pass[p].lapsed
DueLeaseChatOnly(p)  == {j \in pass[p].lapsed : State(j) = "leased" /\ j \in ChatJobs}

\* lapsed is met by a lease that lapsed before the pass began and has not been
\* renewed since.
DueLease(p)    == {j \in pass[p].lapsed : State(j) = "leased"}
DueDeadline(p) == {j \in pass[p].overdue : State(j) = "queued"}

ReapCancelled(p) ==
  /\ pass[p].pc = "idle"
  /\ LET due  == {j \in lapsed : State(j) = "leased"}
         dead == {j \in due : job[j].cancelReq}
     IN  /\ EndAll(dead, "cancelled")
         /\ pass' = [pass EXCEPT ![p] =
              [pc |-> "requeue", lapsed |-> due \ dead,
               overdue |-> {j \in overdue : State(j) \in Active} \ dead,
               cancelled |-> dead, expired |-> {}]]
  /\ UNCHANGED <<caller, exec, cancelling, clocks, landed>>

\* Mutants: lapsed leases go back to the queue however often they were claimed.
RetryableUnbounded(p) == {j \in DueLease(p) : Kind(j) = "work_item"}
RetryableAlways(p)    == DueLease(p)

Retryable(p) ==
  {j \in DueLease(p) : Kind(j) = "work_item" /\ job[j].attempt < MaxAttempts(j)}

ReapRequeue(p) ==
  /\ pass[p].pc = "requeue"
  /\ job' = [j \in Jobs |-> IF j \in Retryable(p)
       THEN [job[j] EXCEPT !.state = "queued", !.leasedBy = NoWorker]
       ELSE job[j]]
  /\ lapsed' = lapsed \ Retryable(p)
  /\ pass' = [q \in Reapers |->
       [pass[q] EXCEPT !.pc = IF q = p THEN "lease" ELSE @,
                       !.lapsed = @ \ Retryable(p)]]
  /\ UNCHANGED <<caller, exec, cancelling, overdue, stale, aged, landed>>

ReapLease(p) ==
  /\ pass[p].pc = "lease"
  /\ EndAll(DueLease(p), "expired")
  /\ pass' = [pass EXCEPT ![p].pc = "deadline", ![p].expired = DueLease(p)]
  /\ UNCHANGED <<caller, exec, cancelling, clocks, landed>>

ReapDeadline(p) ==
  /\ pass[p].pc = "deadline"
  /\ EndAll(DueDeadline(p), "expired")
  /\ pass' = [pass EXCEPT ![p].pc = "ledger", ![p].expired = @ \cup DueDeadline(p)]
  /\ UNCHANGED <<caller, exec, cancelling, clocks, landed>>

\* ledgerReapedWorkItems: no effect on the queue itself.
ReapLedger(p) ==
  /\ pass[p].pc = "ledger"
  /\ pass' = [pass EXCEPT ![p] = IdlePass]
  /\ UNCHANGED <<job, caller, exec, cancelling, clocks, landed>>

\* The instance dies, or a statement throws, part of the way through.
ReapCrash(p) ==
  /\ pass[p].pc # "idle"
  /\ pass' = [pass EXCEPT ![p] = IdlePass]
  /\ UNCHANGED <<job, caller, exec, cancelling, clocks, landed>>

-----------------------------------------------------------------------------
(***************************************************************************)
(* sweepStale, and the passing of time                                     *)
(***************************************************************************)

\* Mutant: the scrub forgets the answer.
ScrubbedPromptOnly(row) == [row EXCEPT !.payload = FALSE, !.scrubbed = TRUE]

Scrubbed(row) == [row EXCEPT !.payload = FALSE, !.result = 0, !.scrubbed = TRUE]

\* One transaction: scrub what finished CONTENT_TTL_MS ago, delete rows of any
\* state that are ROW_TTL_DAYS old.
SweepStale ==
  /\ job' = [j \in Jobs |->
       IF j \in aged THEN NoRow
       ELSE IF j \in stale /\ ~job[j].scrubbed THEN Scrubbed(job[j])
       ELSE job[j]]
  /\ lapsed' = lapsed \ aged
  /\ stale' = stale \ aged
  /\ aged' = {}
  /\ UNCHANGED <<caller, exec, cancelling, pass, overdue, landed>>

LeaseLapses(j) ==
  /\ State(j) = "leased"
  /\ j \notin lapsed
  /\ lapsed' = lapsed \cup {j}
  /\ UNCHANGED <<job, caller, exec, cancelling, pass, overdue, stale, aged, landed>>

DeadlinePasses(j) ==
  /\ State(j) \in Active
  /\ j \notin overdue
  /\ overdue' = overdue \cup {j}
  /\ UNCHANGED <<job, caller, exec, cancelling, pass, lapsed, stale, aged, landed>>

ContentTtlPasses(j) ==
  /\ State(j) \in Terminal
  /\ j \notin stale
  /\ stale' = stale \cup {j}
  /\ UNCHANGED <<job, caller, exec, cancelling, pass, lapsed, overdue, aged, landed>>

\* Seven days outlast every deadline, run and lease, and the content window.
RowTtlPasses(j) ==
  /\ State(j) # "absent"
  /\ j \notin aged
  /\ \A a \in Attempts : ~Live(j, a)
  /\ State(j) \in Active => j \in overdue
  /\ State(j) = "leased" => j \in lapsed
  /\ State(j) \in Terminal => j \in stale
  /\ aged' = aged \cup {j}
  /\ UNCHANGED <<job, caller, exec, cancelling, pass, lapsed, overdue, stale, landed>>

-----------------------------------------------------------------------------
HubStep ==
  \/ \E j \in Jobs : \/ EnqueueCheck(j) \/ EnqueueInsert(j)
                     \/ CancelQueued(j) \/ CancelLeased(j)
                     \/ DeliverResult(j)
  \/ SweepStale

WorkerStep ==
  \/ \E s \in Slots, j \in Jobs, got \in BOOLEAN : Claim(s, j, got)
  \/ \E j \in Jobs, a \in Attempts :
       \/ HeartbeatHeld(j, a)
       \/ HeartbeatLost(j, a)
       \/ \E ok \in BOOLEAN : FinishRun(j, a, ok)
       \/ \E seen \in BOOLEAN : PostArrives(j, a, seen)
       \/ PostLost(j, a)
  \/ \E w \in Workers : WorkerCrash(w)

ReapStep(p) ==
  \/ ReapCancelled(p) \/ ReapRequeue(p) \/ ReapLease(p)
  \/ ReapDeadline(p) \/ ReapLedger(p) \/ ReapCrash(p)

TimeStep ==
  \E j \in Jobs : \/ LeaseLapses(j) \/ DeadlinePasses(j)
                  \/ ContentTtlPasses(j) \/ RowTtlPasses(j)

Next == HubStep \/ WorkerStep \/ (\E p \in Reapers : ReapStep(p)) \/ TimeStep

Spec == Init /\ [][Next]_vars
-----------------------------------------------------------------------------
(***************************************************************************)
(* Safety                                                                  *)
(***************************************************************************)

\* A chat turn is handed out at most once and a work item at most WorkAttempts
\* times: no job waits in the queue once its claims are spent, whatever order
\* reaper passes, late heartbeats and crashes come in (KIND_POLICY).
ClaimsBounded ==
  \A j \in Jobs : /\ job[j].attempt <= MaxAttempts(j)
                  /\ State(j) = "queued" => job[j].attempt < MaxAttempts(j)

\* Content is transient: an ended job keeps no prompt, and text stays in the row
\* only for an unread answer that nobody else holds a durable copy of.
ContentTransient ==
  \A j \in Jobs :
    /\ State(j) \notin Active => ~job[j].payload
    /\ job[j].result # 0 =>
         /\ State(j) = "succeeded"
         /\ ~job[j].delivered /\ ~job[j].scrubbed
         /\ j \notin ToolJobs

\* A job is ended only by the execution of its newest claim: a worker that lost
\* its lease, even to another slot of the same worker id, cannot have its answer
\* taken for the answer of the retry.
NewestClaimLands ==
  \A j \in Jobs :
    /\ landed[j] # 0 /\ State(j) # "absent" =>
         /\ landed[j] = job[j].attempt
         /\ State(j) \in {"succeeded", "failed", "cancelled"}
    /\ job[j].result # 0 => job[j].result = landed[j] /\ exec[j][landed[j]].ok
    /\ State(j) \in {"succeeded", "failed"} => landed[j] # 0

\* An ended job never leaves its end state: no late POST, heartbeat, cancel or
\* reap revives or relabels it; only the row's deletion follows.
EndIsFinal ==
  [][\A j \in Jobs : State(j) \in Terminal =>
       /\ State(j)' \in {State(j), "absent"}
       /\ landed'[j] = landed[j]]_vars

-----------------------------------------------------------------------------
(***************************************************************************)
(* Refinement.  A row is pending while queued or leased; a row that is     *)
(* gone after its insert is forgotten.                                     *)
(***************************************************************************)
Phase(j) ==
  CASE State(j) \in Active   -> "pending"
    [] State(j) \in Terminal -> "settled"
    [] OTHER -> IF caller[j] = "inserted" THEN "forgotten" ELSE "unknown"

Lifecycle == INSTANCE JobLifecycle WITH
  Limit      <- [j \in Jobs |-> MaxAttempts(j)],
  ReadAtOnce <- ToolJobs,
  phase      <- [j \in Jobs |-> Phase(j)],
  tries      <- [j \in Jobs |-> job[j].attempt],
  outcome    <- [j \in Jobs |-> IF State(j) \in Terminal THEN State(j) ELSE "none"],
  read       <- [j \in Jobs |-> job[j].delivered]

\* The queue keeps the promise of JobLifecycle: bounded tries, one settlement,
\* success only from an execution, an answer read once, under every
\* interleaving of statements, lost replies and crashes.
KeepsLifecycle == Lifecycle!Spec

(***************************************************************************)
(* Liveness                                                                *)
(***************************************************************************)

\* Time passes and runs are bounded by their timeout.  Reaping rides on every
\* claim request and on the hourly alert tick; an instance may die inside a
\* pass, but not at the same statement for ever.
Fairness ==
  /\ \A j \in Jobs : WF_vars(LeaseLapses(j)) /\ WF_vars(DeadlinePasses(j))
  /\ \A j \in Jobs, a \in Attempts :
       /\ WF_vars(\E ok \in BOOLEAN : FinishRun(j, a, ok))
       /\ WF_vars(PostLost(j, a) \/ \E seen \in BOOLEAN : PostArrives(j, a, seen))
  /\ \A p \in Reapers :
       /\ WF_vars(ReapCancelled(p))
       /\ SF_vars(ReapRequeue(p)) /\ SF_vars(ReapLease(p))
       /\ SF_vars(ReapDeadline(p)) /\ WF_vars(ReapLedger(p) \/ ReapCrash(p))

FairSpec == Spec /\ Fairness

\* No job waits or runs for ever, although workers crash, replies are lost and
\* nobody cancels: the lazy reaper ends it or a result does.
EveryJobEnds == \A j \in Jobs : (State(j) \in Active) ~> (State(j) \notin Active)
=============================================================================
