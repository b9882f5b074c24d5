--------------------------- MODULE DispatchLedger ---------------------------
(***************************************************************************)
(* The Hub side of the chat lane, composed with the queue: the wait loop   *)
(* of dispatchGenerateText (lib/agy-dispatch.ts) with its give-up paths,   *)
(* tryAgyChat's ledger row (lib/agy-chat.ts), the result route's ledger    *)
(* row and the sweep's, and so the question who records in ai_runs that an *)
(* execution of the desktop spent allotment.  Work items are the probes of *)
(* app/api/admin/work-probe and tool runs.                                 *)
(*                                                                         *)
(* A row of ai_runs counts here when it accounts for the output of an      *)
(* execution; the error rows that tryAgyChat writes for a turn that fell   *)
(* through, and the reaper's for a work item it ended, are not counted.    *)
(* recordAiRun is best-effort: every write below may fail in silence.      *)
(***************************************************************************)
EXTENDS DispatchQueue

VARIABLES
  turn,     \* the dispatchGenerateText call of each chat job
  wanted,   \* jobs with a detached cancelJob call that has not begun
  settle,   \* the detached settleAbandoned call of each chat job
  sweep,    \* the sweepStale transaction that holds the advisory lock
  rows,     \* rows[j][a]: ledger rows for the output of attempt a; 2 is "many"
  torn,     \* history: jobs counted by a sweep that was then rolled back
  lost,     \* history: jobs whose recorder died or failed to write
  slipped   \* history: answers that a sweep scrubbed without having seen them

hubVars    == <<turn, wanted, settle>>
ledgerVars == <<sweep, rows, torn, lost, slipped>>
allVars    == <<vars, hubVars, ledgerVars>>

TurnType ==
  [pc: {"idle", "enqueue", "waiting", "answered", "served", "fallen", "dead"},
   view: {"none", "lapsed", "absent"} \cup Active \cup Terminal]

LedgerTypeOK ==
  /\ TypeOK
  /\ turn \in [ChatJobs -> TurnType]
  /\ wanted \in SUBSET ChatJobs
  /\ settle \in [ChatJobs -> {"none", "look", "take", "log"}]
  /\ sweep \in [open: BOOLEAN, ended: SUBSET Jobs, counted: SUBSET Jobs]
  /\ rows \in [Jobs -> [Attempts -> 0 .. 2]]
  /\ torn \in SUBSET Jobs
  /\ lost \in SUBSET Jobs
  /\ slipped \in SUBSET Jobs

NoSweep == [open |-> FALSE, ended |-> {}, counted |-> {}]

LedgerInit ==
  /\ Init
  /\ turn = [j \in ChatJobs |-> [pc |-> "idle", view |-> "none"]]
  /\ wanted = {}
  /\ settle = [j \in ChatJobs |-> "none"]
  /\ sweep = NoSweep
  /\ rows = [j \in Jobs |-> [a \in Attempts |-> 0]]
  /\ torn = {}
  /\ lost = {}
  /\ slipped = {}

AtMostTwo(n) == IF n > 2 THEN 2 ELSE n

\* recordAiRun: the row, or a warning in the log.
RecordRun(j, a) ==
  \/ rows' = [rows EXCEPT ![j][a] = AtMostTwo(@ + 1)] /\ UNCHANGED lost
  \/ lost' = lost \cup {j} /\ UNCHANGED rows

GoTo(j, pc) == turn' = [turn EXCEPT ![j] = [pc |-> pc, view |-> "none"]]

-----------------------------------------------------------------------------
(***************************************************************************)
(* dispatchGenerateText                                                    *)
(***************************************************************************)

\* The liveness gate: no fresh worker, and the turn falls through at once.
TurnBegins(j) ==
  /\ turn[j].pc = "idle"
  /\ GoTo(j, "enqueue") \/ GoTo(j, "fallen")
  /\ UNCHANGED <<vars, wanted, settle, ledgerVars>>

TurnChecks(j) ==
  /\ turn[j].pc = "enqueue"
  /\ EnqueueCheck(j)
  /\ GoTo(j, IF caller'[j] = "refused" THEN "fallen" ELSE "enqueue")
  /\ UNCHANGED <<wanted, settle, ledgerVars>>

\* The INSERT may commit and its reply be lost: the turn then falls through
\* without a job id to cancel.
TurnInserts(j) ==
  /\ turn[j].pc = "enqueue"
  /\ EnqueueInsert(j)
  /\ GoTo(j, "waiting") \/ GoTo(j, "fallen")
  /\ UNCHANGED <<wanted, settle, ledgerVars>>

\* Or enqueueJob throws before it has inserted anything.
TurnThrows(j) ==
  /\ turn[j].pc = "enqueue"
  /\ GoTo(j, "fallen")
  /\ UNCHANGED <<vars, wanted, settle, ledgerVars>>

\* The client aborted or the budget is spent, seen at the head of the loop:
\* cancelJob and settleAbandoned are both detached.
GiveUp(j) ==
  /\ turn[j] = [pc |-> "waiting", view |-> "none"]
  /\ GoTo(j, "fallen")
  /\ wanted' = wanted \cup {j}
  /\ settle' = [settle EXCEPT ![j] = "look"]
  /\ UNCHANGED <<vars, ledgerVars>>

\* getJobView; everything decided on it below may find the row changed.
Poll(j) ==
  /\ turn[j] = [pc |-> "waiting", view |-> "none"]
  /\ turn' = [turn EXCEPT ![j].view =
       IF State(j) = "leased" /\ j \in lapsed THEN "lapsed" ELSE State(j)]
  /\ UNCHANGED <<vars, wanted, settle, ledgerVars>>

Seen(j, views) == turn[j].pc = "waiting" /\ turn[j].view \in views

KeepWaiting(j) ==
  /\ Seen(j, Active)
  /\ GoTo(j, "waiting")
  /\ UNCHANGED <<vars, wanted, settle, ledgerVars>>

\* claim_timeout, lease_expired, or a store read that threw.
FallThroughAndCancel(j) ==
  /\ Seen(j, {"none", "queued", "lapsed"})
  /\ GoTo(j, "fallen")
  /\ wanted' = wanted \cup {j}
  /\ UNCHANGED <<vars, settle, ledgerVars>>

\* The row vanished, or the job ended without an answer.
FallThrough(j) ==
  /\ Seen(j, {"absent", "failed", "expired", "cancelled"})
  /\ GoTo(j, "fallen")
  /\ UNCHANGED <<vars, wanted, settle, ledgerVars>>

TakeAnswer(j) ==
  /\ Seen(j, {"succeeded"})
  /\ IF Deliverable(j)
     THEN DeliverResult(j) /\ GoTo(j, "answered")
     ELSE GoTo(j, "fallen") /\ UNCHANGED vars
  /\ UNCHANGED <<wanted, settle, ledgerVars>>

\* deliverResult throws to its caller, before its commit or, with the answer
\* gone from the row, after it.
DeliveryThrows(j) ==
  \/ UNCHANGED <<vars, lost>>
  \/ Deliverable(j) /\ DeliverResult(j) /\ lost' = lost \cup {j}

\* The catch around the loop cancels and falls through.
TakeThrows(j) ==
  /\ Seen(j, {"succeeded"})
  /\ DeliveryThrows(j)
  /\ GoTo(j, "fallen")
  /\ wanted' = wanted \cup {j}
  /\ UNCHANGED <<settle, sweep, rows, torn, slipped>>

\* tryAgyChat's detached recordAiRun.
RecordServed(j) ==
  /\ turn[j].pc = "answered"
  /\ RecordRun(j, job[j].attempt)
  /\ GoTo(j, "served")
  /\ UNCHANGED <<vars, wanted, settle, sweep, torn, slipped>>

\* settleAbandoned: one last look, then the read-once delivery, then its row.
SettleLook(j) ==
  /\ settle[j] = "look"
  /\ settle' = [settle EXCEPT ![j] = IF State(j) = "succeeded" THEN "take" ELSE "none"]
  /\ UNCHANGED <<vars, turn, wanted, ledgerVars>>

SettleTake(j) ==
  /\ settle[j] = "take"
  /\ IF Deliverable(j)
     THEN DeliverResult(j) /\ settle' = [settle EXCEPT ![j] = "log"]
     ELSE settle' = [settle EXCEPT ![j] = "none"] /\ UNCHANGED vars
  /\ UNCHANGED <<turn, wanted, ledgerVars>>

SettleLog(j) ==
  /\ settle[j] = "log"
  /\ RecordRun(j, job[j].attempt)
  /\ settle' = [settle EXCEPT ![j] = "none"]
  /\ UNCHANGED <<vars, turn, wanted, sweep, torn, slipped>>

\* Its rejection is swallowed.
SettleThrows(j) ==
  /\ settle[j] = "take"
  /\ DeliveryThrows(j)
  /\ settle' = [settle EXCEPT ![j] = "none"]
  /\ UNCHANGED <<turn, wanted, sweep, rows, torn, slipped>>

DetachedCancel(j) ==
  /\ j \in wanted
  /\ wanted' = wanted \ {j}
  /\ CancelQueued(j) \/ UNCHANGED vars    \* it may throw, and is swallowed
  /\ UNCHANGED <<turn, settle, ledgerVars>>

\* The instance dies with the turn, its detached calls and its answer.
HubDies(j) ==
  /\ \/ turn[j].pc \in {"enqueue", "waiting", "answered"}
     \/ j \in wanted
     \/ settle[j] # "none"
  /\ GoTo(j, IF turn[j].pc = "fallen" THEN "fallen" ELSE "dead")
  /\ wanted' = wanted \ {j}
  /\ settle' = [settle EXCEPT ![j] = "none"]
  /\ lost' = IF turn[j].pc = "answered" \/ settle[j] = "log"
             THEN lost \cup {j} ELSE lost
  /\ UNCHANGED <<vars, sweep, rows, torn, slipped>>

HubTurn(j) ==
  \/ TurnBegins(j) \/ TurnChecks(j) \/ TurnInserts(j) \/ TurnThrows(j)
  \/ GiveUp(j) \/ Poll(j) \/ KeepWaiting(j)
  \/ FallThroughAndCancel(j) \/ FallThrough(j)
  \/ TakeAnswer(j) \/ TakeThrows(j) \/ RecordServed(j)
  \/ SettleLook(j) \/ SettleTake(j) \/ SettleThrows(j) \/ SettleLog(j)
  \/ DetachedCancel(j) \/ HubDies(j)

-----------------------------------------------------------------------------
(***************************************************************************)
(* The other writers of ledger rows, and everybody else's steps            *)
(***************************************************************************)

\* Mutant: the route records every recorded answer, also of a chat turn.
RouteRecordsAll(j, a) ==
  Outcome(j, a) \in {"discarded_cancelled", "discarded_lease_lost", "recorded"}

\* The route records what was discarded, and every recorded work item.  The
\* call is detached: its instance may die with the reply sent.
RouteRecords(j, a) ==
  \/ Outcome(j, a) \in {"discarded_cancelled", "discarded_lease_lost"}
  \/ Outcome(j, a) = "recorded" /\ Kind(j) = "work_item"

ResultRoute(j, a, seen) ==
  /\ PostArrives(j, a, seen)
  /\ IF RouteRecords(j, a)
     THEN RecordRun(j, a) ELSE UNCHANGED <<rows, lost>>
  /\ UNCHANGED <<hubVars, sweep, torn, slipped>>

\* The admin's GET of a probe delivers its text, and writes no row.
ProbeRead(j) ==
  /\ j \in WorkJobs \ ToolJobs
  /\ DeliverResult(j)
  /\ UNCHANGED <<hubVars, ledgerVars>>

WorkEnqueue(j) ==
  /\ j \in WorkJobs
  /\ EnqueueCheck(j) \/ EnqueueInsert(j)
  /\ UNCHANGED <<hubVars, ledgerVars>>

WorkCancel(j) ==
  /\ j \in ToolJobs
  /\ CancelQueued(j)
  /\ UNCHANGED <<hubVars, ledgerVars>>

CancelContinues(j) ==
  /\ CancelLeased(j)
  /\ UNCHANGED <<hubVars, ledgerVars>>

\* Mutants: the SELECT finds delivered answers too, or runs behind the scrub.
OrphansDelivered  == {j \in stale : State(j) = "succeeded"}
OrphansAfterScrub == {j \in stale : /\ State(j) = "succeeded"
                                    /\ ~job[j].delivered /\ job[j].scrubbed}

\* What the orphan SELECT of sweepStale finds, of every kind.
Orphans == {j \in stale : /\ State(j) = "succeeded"
                          /\ ~job[j].delivered /\ ~job[j].scrubbed}

TerminalNow == {j \in Jobs : State(j) \in Terminal}

\* The rows are written outside the transaction, one connection further.
SweepCounts ==
  /\ ~sweep.open
  /\ sweep' = [open |-> TRUE, ended |-> TerminalNow, counted |-> Orphans]
  /\ \E written \in SUBSET Orphans :
       /\ rows' = [j \in Jobs |-> [a \in Attempts |->
            IF j \in written /\ a = job[j].attempt
            THEN AtMostTwo(rows[j][a] + 1) ELSE rows[j][a]]]
       /\ lost' = lost \cup (Orphans \ written)
  /\ UNCHANGED <<vars, hubVars, torn, slipped>>

\* The scrub reads the clock anew, after the rows have been written.
SweepCommits ==
  /\ sweep.open
  /\ SweepStale
  /\ sweep' = NoSweep
  /\ slipped' = slipped \cup (Orphans \ sweep.counted)
  /\ UNCHANGED <<hubVars, rows, torn, lost>>

SweepRollsBack ==
  /\ sweep.open
  /\ sweep' = NoSweep
  /\ torn' = torn \cup sweep.counted
  /\ UNCHANGED <<vars, hubVars, rows, lost, slipped>>

\* CONTENT_TTL_MS (10 min) outlasts every chat budget (at most 90 s) and the
\* detached calls of a turn that has given up.
TurnOver(j) ==
  j \in ChatJobs => /\ turn[j].pc \notin {"enqueue", "waiting", "answered"}
                    /\ settle[j] = "none"
                    /\ j \notin wanted

\* While a sweep runs, only a job that had ended before can cross the window.
Crossing(j) == TurnOver(j) /\ (sweep.open => j \in sweep.ended)

Ageing ==
  /\ \E j \in Jobs : \/ LeaseLapses(j) \/ DeadlinePasses(j)
                     \/ Crossing(j) /\ (ContentTtlPasses(j) \/ RowTtlPasses(j))
  /\ UNCHANGED <<hubVars, ledgerVars>>

DesktopStep ==
  /\ \/ \E s \in Slots, j \in Jobs, got \in BOOLEAN : Claim(s, j, got)
     \/ \E j \in Jobs, a \in Attempts :
          \/ HeartbeatHeld(j, a) \/ HeartbeatLost(j, a)
          \/ \E ok \in BOOLEAN : FinishRun(j, a, ok)
          \/ PostLost(j, a)
     \/ \E w \in Workers : WorkerCrash(w)
  /\ UNCHANGED <<hubVars, ledgerVars>>

ReaperStep(p) ==
  /\ ReapStep(p)
  /\ UNCHANGED <<hubVars, ledgerVars>>

LedgerNext ==
  \/ \E j \in ChatJobs : HubTurn(j)
  \/ \E j \in Jobs : \/ ProbeRead(j) \/ WorkEnqueue(j) \/ WorkCancel(j)
                     \/ CancelContinues(j)
                     \/ \E a \in Attempts, seen \in BOOLEAN : ResultRoute(j, a, seen)
  \/ SweepCounts \/ SweepCommits \/ SweepRollsBack
  \/ DesktopStep
  \/ \E p \in Reapers : ReaperStep(p)
  \/ Ageing

LedgerSpec == LedgerInit /\ [][LedgerNext]_allVars

-----------------------------------------------------------------------------
(***************************************************************************)
(* Properties                                                              *)
(***************************************************************************)

\* The answer of a chat turn or a tool run is accounted once, although the
\* waiting turn, the settlement of an abandoned turn, the result route and the
\* sweep can all claim it and the worker repeats its POST.  Only a sweep that
\* wrote its row and was then rolled back can count again.
AnswerCountedOnce ==
  \A j \in ChatJobs \cup ToolJobs :
    landed[j] # 0 /\ j \notin torn => rows[j][landed[j]] <= 1

\* The same of a probe, as sweepStale says of every row: "delivered_at excludes
\* every normally-served or race-settled row, so no double count".  It fails:
\* the result route accounts for every recorded work item, and delivered_at of
\* a probe that nobody polls stays NULL, so that the sweep accounts for it too.
ProbeCountedOnce ==
  \A j \in WorkJobs \ ToolJobs :
    landed[j] # 0 /\ j \notin torn => rows[j][landed[j]] <= 1

\* A served turn was served its own execution's answer, and the answer was
\* neither settled as abandoned nor swept as undelivered: the turn's own row is
\* the only one, whatever else ran beside it.
ServedIsDelivered ==
  \A j \in ChatJobs :
    turn[j].pc = "served" =>
      /\ State(j) \in {"succeeded", "absent"}
      /\ settle[j] = "none"
      /\ rows[j][1] = IF j \in lost THEN 0 ELSE 1

LedgerFairness ==
  /\ \A j \in ChatJobs :
       /\ WF_allVars(RecordServed(j))
       /\ WF_allVars(GiveUp(j) \/ Poll(j) \/ KeepWaiting(j)
                     \/ FallThroughAndCancel(j) \/ FallThrough(j)
                     \/ TakeAnswer(j) \/ TakeThrows(j))
       /\ SF_allVars(GiveUp(j) \/ FallThroughAndCancel(j))
       /\ WF_allVars(TurnChecks(j) \/ TurnInserts(j) \/ TurnThrows(j) \/ HubDies(j))
       /\ WF_allVars(SettleLook(j) \/ SettleTake(j) \/ SettleThrows(j) \/ SettleLog(j))
       /\ WF_allVars(DetachedCancel(j))
  /\ \A j \in Jobs :
       /\ WF_allVars(LeaseLapses(j) /\ UNCHANGED <<hubVars, ledgerVars>>)
       /\ WF_allVars(DeadlinePasses(j) /\ UNCHANGED <<hubVars, ledgerVars>>)
       /\ WF_allVars(Crossing(j) /\ ContentTtlPasses(j)
                     /\ UNCHANGED <<hubVars, ledgerVars>>)
       /\ \A a \in Attempts :
            /\ WF_allVars(\E ok \in BOOLEAN : FinishRun(j, a, ok)
                            /\ UNCHANGED <<hubVars, ledgerVars>>)
            /\ WF_allVars(\/ PostLost(j, a) /\ UNCHANGED <<hubVars, ledgerVars>>
                          \/ \E seen \in BOOLEAN : ResultRoute(j, a, seen))
  /\ \A p \in Reapers :
       /\ WF_allVars(ReapCancelled(p) /\ UNCHANGED <<hubVars, ledgerVars>>)
       /\ SF_allVars(ReapRequeue(p) /\ UNCHANGED <<hubVars, ledgerVars>>)
       /\ SF_allVars(ReapLease(p) /\ UNCHANGED <<hubVars, ledgerVars>>)
       /\ SF_allVars(ReapDeadline(p) /\ UNCHANGED <<hubVars, ledgerVars>>)
       /\ WF_allVars((ReapLedger(p) \/ ReapCrash(p)) /\ UNCHANGED <<hubVars, ledgerVars>>)
  /\ WF_allVars(SweepCounts)
  /\ SF_allVars(SweepCommits)

FairLedgerSpec == LedgerSpec /\ LedgerFairness

\* "A late result still lands, so the spend is recorded" (the design's failure
\* mode 4): whatever becomes of the turn, an answer that landed reaches the
\* ledger, unless the instance that had to record it dies, its one write fails,
\* or a sweep slips by.
LandedIsRecorded ==
  \A j \in ChatJobs :
    (landed[j] = 1 /\ exec[j][1].ok)
      ~> (rows[j][1] > 0 \/ j \in lost \cup slipped)

\* Content is transient whoever dies: when the turn is over, the prompt and the
\* answer are eventually gone from the row.
ContentVanishes ==
  \A j \in ChatJobs :
    (turn[j].pc \in {"served", "fallen", "dead"})
      ~> (~job[j].payload /\ job[j].result = 0)
=============================================================================
