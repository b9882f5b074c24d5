------------------------------ MODULE DeepLane ------------------------------
(***************************************************************************)
(* The deep lane on top of the queue: the durable tool_runs rows of        *)
(* lib/tool-runs.ts, startDeepRun (lib/deep-run-start.ts), the cancel      *)
(* route (app/api/deep-runs/[id]), the landing of results inside the       *)
(* postResult transaction, the landing of reaped jobs behind reapExpired,  *)
(* and the view deriveRunView gives the owner.                             *)
(*                                                                         *)
(* A run and the one job it enqueues share their name: the run of job j is *)
(* run[j].  All runs belong to one user of one tenant, the scope of the    *)
(* one-active-run index.                                                   *)
(***************************************************************************)
EXTENDS DispatchQueue

\* Whether ACTIVE_WINDOW_MS (60 min) outlasts the life of every job.  It does
\* with the default deadlines (30 and 16 min); deepToolDeadlineMs also admits
\* 60 min, and then it does not.
CONSTANT WindowOutlastsJobs
ASSUME WindowAssumption == WindowOutlastsJobs \in BOOLEAN

Runs == ToolJobs

VARIABLES
  run,     \* the tool_runs row of each run
  start,   \* the startDeepRun call of each run
  wanted,  \* runs whose cancel request is about to call cancelJob
  old      \* runs created more than ACTIVE_WINDOW_MS ago

runVars  == <<run, start, wanted, old>>
deepVars == <<vars, runVars>>

\* why is history: which writer ended the run.
RunType ==
  [status: {"none", "queued", "succeeded", "failed", "cancelled"},
   report: 0 .. WorkAttempts,    \* the attempt whose text result_md holds
   attached: BOOLEAN,            \* job_id is set
   why: {"none", "landed", "reaped", "user", "orphaned", "withdrawn"}]

DeepTypeOK ==
  /\ TypeOK
  /\ run \in [Runs -> RunType]
  /\ start \in [Runs -> {"idle", "expire", "count", "create", "enqueue",
                         "withdraw", "attach", "done"}]
  /\ wanted \in SUBSET Runs
  /\ old \in SUBSET Runs

NoRun == [status |-> "none", report |-> 0, attached |-> FALSE, why |-> "none"]

DeepInit ==
  /\ Init
  /\ run = [r \in Runs |-> NoRun]
  /\ start = [r \in Runs |-> "idle"]
  /\ wanted = {}
  /\ old = {}

Queued(r) == run[r].status = "queued"

\* finishToolRun: the compare-and-set from 'queued' that every ending uses.
Finished(row, status, report, why) ==
  IF row.status = "queued"
  THEN [row EXCEPT !.status = status, !.report = report, !.why = why]
  ELSE row

FinishRunRow(r, status, report, why) ==
  run' = [run EXCEPT ![r] = Finished(@, status, report, why)]

Goto(r, pc) == start' = [start EXCEPT ![r] = pc]

-----------------------------------------------------------------------------
(***************************************************************************)
(* startDeepRun                                                            *)
(***************************************************************************)

\* The gates: lane enabled, work-capable worker fresh.
StartBegins(r) ==
  /\ start[r] = "idle"
  /\ Goto(r, "expire") \/ Goto(r, "done")
  /\ UNCHANGED <<vars, run, wanted, old>>

\* Mutant: expireStaleToolRuns without its cutoff.
StartExpiresAll(r) ==
  /\ start[r] = "expire"
  /\ run' = [q \in Runs |-> Finished(run[q], "failed", 0, "orphaned")]
  /\ Goto(r, "count")
  /\ UNCHANGED <<vars, wanted, old>>

\* expireStaleToolRuns.
StartExpires(r) ==
  /\ start[r] = "expire"
  /\ run' = [q \in Runs |-> IF q \in old
                            THEN Finished(run[q], "failed", 0, "orphaned")
                            ELSE run[q]]
  /\ Goto(r, "count")
  /\ UNCHANGED <<vars, wanted, old>>

\* countActiveToolRuns, the friendly refusal.
StartCounts(r) ==
  /\ start[r] = "count"
  /\ Goto(r, IF \E q \in Runs \ old : Queued(q) THEN "done" ELSE "create")
  /\ UNCHANGED <<vars, run, wanted, old>>

\* createToolRun, under the partial unique index on queued rows.
StartCreates(r) ==
  /\ start[r] = "create"
  /\ IF \E q \in Runs : Queued(q)
     THEN Goto(r, "done") /\ UNCHANGED run
     ELSE Goto(r, "enqueue") /\ run' = [run EXCEPT ![r].status = "queued"]
  /\ UNCHANGED <<vars, wanted, old>>

StartChecks(r) ==
  /\ start[r] = "enqueue"
  /\ EnqueueCheck(r)
  /\ Goto(r, IF caller'[r] = "refused" THEN "withdraw" ELSE "enqueue")
  /\ UNCHANGED <<run, wanted, old>>

\* The INSERT may commit and enqueueJob throw all the same.
StartInserts(r) ==
  /\ start[r] = "enqueue"
  /\ EnqueueInsert(r)
  /\ Goto(r, "attach") \/ Goto(r, "withdraw")
  /\ UNCHANGED <<run, wanted, old>>

StartThrows(r) ==
  /\ start[r] = "enqueue"
  /\ Goto(r, "withdraw")
  /\ UNCHANGED <<vars, run, wanted, old>>

\* No job, so the row must not sit queued; this write may fail too.
StartWithdraws(r) ==
  /\ start[r] = "withdraw"
  /\ FinishRunRow(r, "failed", 0, "withdrawn") \/ UNCHANGED run
  /\ Goto(r, "done")
  /\ UNCHANGED <<vars, wanted, old>>

\* attachToolRunJob, of any status; best-effort.
StartAttaches(r) ==
  /\ start[r] = "attach"
  /\ run' = [run EXCEPT ![r].attached = TRUE] \/ UNCHANGED run
  /\ Goto(r, "done")
  /\ UNCHANGED <<vars, wanted, old>>

StartDies(r) ==
  /\ start[r] \in {"count", "create", "enqueue", "withdraw", "attach"}
  /\ Goto(r, "done")
  /\ UNCHANGED <<vars, run, wanted, old>>

StartStep(r) ==
  \/ StartBegins(r) \/ StartExpires(r) \/ StartCounts(r) \/ StartCreates(r)
  \/ StartChecks(r) \/ StartInserts(r) \/ StartThrows(r) \/ StartWithdraws(r)
  \/ StartAttaches(r) \/ StartDies(r)

-----------------------------------------------------------------------------
(***************************************************************************)
(* The cancel route: the run first, the job behind it                      *)
(***************************************************************************)

CancelToolRun(r) ==
  /\ Queued(r)
  /\ FinishRunRow(r, "cancelled", 0, "user")
  /\ wanted' = IF run[r].attached THEN wanted \cup {r} ELSE wanted
  /\ UNCHANGED <<vars, start, old>>

\* cancelJob, which may throw or never be reached.
StandDown(r) ==
  /\ r \in wanted
  /\ wanted' = wanted \ {r}
  /\ CancelQueued(r) \/ UNCHANGED vars
  /\ UNCHANGED <<run, start, old>>

StandDownContinues(r) ==
  /\ CancelLeased(r)
  /\ UNCHANGED runVars

-----------------------------------------------------------------------------
(***************************************************************************)
(* Landing                                                                 *)
(***************************************************************************)

\* Mutant: only reports are landed.
LandedReportsOnly(j, a) ==
  IF exec[j][a].ok /\ Outcome(j, a) = "recorded"
  THEN Finished(run[j], "succeeded", a, "landed") ELSE run[j]

\* What the postResult transaction writes to the run it ends.
Landed(j, a) ==
  IF Outcome(j, a) = "discarded_cancelled"
  THEN Finished(run[j], "cancelled", 0, "landed")
  ELSE IF exec[j][a].ok THEN Finished(run[j], "succeeded", a, "landed")
  ELSE Finished(run[j], "failed", 0, "landed")

PostLands(j, a, seen) ==
  /\ PostArrives(j, a, seen)
  /\ run' = IF Outcome(j, a) \in {"recorded", "discarded_cancelled"}
            THEN [run EXCEPT ![j] = Landed(j, a)] ELSE run
  /\ UNCHANGED <<start, wanted, old>>

\* ledgerReapedWorkItems writes the runs one by one, each write best-effort.
ReapLands(p) ==
  /\ ReapLedger(p)
  /\ \E S \in SUBSET ((pass[p].cancelled \cup pass[p].expired) \cap Runs) :
       run' = [r \in Runs |->
         IF r \notin S THEN run[r]
         ELSE Finished(run[r],
                       IF r \in pass[p].cancelled THEN "cancelled" ELSE "failed",
                       0, "reaped")]
  /\ UNCHANGED <<start, wanted, old>>

\* Dying within the ledger pass is ReapLands with some of its writes missing.
ReapDies(p) ==
  /\ pass[p].pc # "ledger"
  /\ ReapCrash(p)
  /\ UNCHANGED runVars

ReapStatement(p) ==
  /\ ReapCancelled(p) \/ ReapRequeue(p) \/ ReapLease(p) \/ ReapDeadline(p)
  /\ UNCHANGED runVars

-----------------------------------------------------------------------------
(***************************************************************************)
(* The worker, and time                                                    *)
(***************************************************************************)

DesktopStep ==
  /\ \/ \E s \in Slots, j \in Jobs, got \in BOOLEAN : Claim(s, j, got)
     \/ \E j \in Jobs, a \in Attempts :
          \/ HeartbeatHeld(j, a) \/ HeartbeatLost(j, a)
          \/ \E ok \in BOOLEAN : FinishRun(j, a, ok)
          \/ PostLost(j, a)
     \/ \E w \in Workers : WorkerCrash(w)
  /\ UNCHANGED runVars

\* Past its lease and its last POST, no result can come.
JobIsDead(j) ==
  /\ State(j) = "leased" => j \in lapsed
  /\ \A a \in Attempts : ~Live(j, a)

\* The window is never shorter than the deadline, which bounds the run; results
\* are posted after it.
WindowPasses(r) ==
  /\ Queued(r)
  /\ r \notin old
  /\ start[r] = "done"
  /\ State(r) \in Active => r \in overdue
  /\ WindowOutlastsJobs => JobIsDead(r)
  /\ old' = old \cup {r}
  /\ UNCHANGED <<vars, run, start, wanted>>

\* Seven days outlast the window, and every call.
Idle(r) == start[r] = "done" /\ r \notin wanted /\ (Queued(r) => r \in old)

Ageing ==
  /\ \/ \E j \in Jobs : \/ LeaseLapses(j) \/ DeadlinePasses(j) \/ ContentTtlPasses(j)
                        \/ Idle(j) /\ RowTtlPasses(j)
     \/ SweepStale
  /\ UNCHANGED runVars

DeepNext ==
  \/ \E r \in Runs : \/ StartStep(r) \/ CancelToolRun(r) \/ StandDown(r)
                     \/ StandDownContinues(r) \/ WindowPasses(r)
                     \/ \E a \in Attempts, seen \in BOOLEAN : PostLands(r, a, seen)
  \/ \E p \in Reapers : ReapLands(p) \/ ReapDies(p) \/ ReapStatement(p)
  \/ DesktopStep
  \/ Ageing

DeepSpec == DeepInit /\ [][DeepNext]_deepVars

DeepFairness ==
  /\ \A r \in Runs :
       /\ WF_deepVars(StartStep(r) /\ start[r] # "idle")
       /\ WF_deepVars(WindowPasses(r))
       /\ WF_deepVars(LeaseLapses(r) /\ UNCHANGED runVars)
       /\ WF_deepVars(DeadlinePasses(r) /\ UNCHANGED runVars)
       /\ \A a \in Attempts :
            /\ WF_deepVars(\E ok \in BOOLEAN : FinishRun(r, a, ok) /\ UNCHANGED runVars)
            /\ WF_deepVars(\/ PostLost(r, a) /\ UNCHANGED runVars
                           \/ \E seen \in BOOLEAN : PostLands(r, a, seen))
  /\ \A p \in Reapers :
       /\ WF_deepVars(ReapCancelled(p) /\ UNCHANGED runVars)
       /\ SF_deepVars(ReapRequeue(p) /\ UNCHANGED runVars)
       /\ SF_deepVars(ReapLease(p) /\ UNCHANGED runVars)
       /\ SF_deepVars(ReapDeadline(p) /\ UNCHANGED runVars)
       /\ WF_deepVars(ReapLands(p))

FairDeepSpec == DeepSpec /\ DeepFairness

-----------------------------------------------------------------------------
(***************************************************************************)
(* viewOf and deriveRunView: the run joined with its job                   *)
(***************************************************************************)

\* getJobDetail was answered with a row.  When the lookup throws, viewOf goes on
\* without a job and the response is flagged partial (emptyOn, x-hub-partial).
JobFound(r, answered) == answered /\ run[r].attached /\ State(r) # "absent"

\* Mutants: a run without a job is an orphan at once, or never.
ViewOrphanAtOnce(r, answered) ==
  IF Queued(r) THEN IF JobFound(r, answered) THEN "queued" ELSE "failed"
  ELSE run[r].status
ViewOrphanNever(r, answered) ==
  CASE ~Queued(r) -> run[r].status
    [] Queued(r) /\ (JobFound(r, answered) => State(r) \in Active) -> "queued"
    [] OTHER -> "failed"

View(r, answered) ==
  CASE ~Queued(r) -> run[r].status
    [] Queued(r) /\ ~JobFound(r, answered) -> IF r \in old THEN "failed" ELSE "queued"
    [] Queued(r) /\ JobFound(r, answered) ->
         CASE State(r) = "queued"    -> "queued"
           [] State(r) = "leased"    -> "running"
           [] State(r) = "succeeded" -> "finishing"
           [] State(r) = "cancelled" -> "cancelled"
           [] OTHER                  -> "failed"

-----------------------------------------------------------------------------
(***************************************************************************)
(* Properties                                                              *)
(***************************************************************************)

\* The queue's end by a result and the durable record move together: no run
\* waits for a job that a worker's POST has ended (the landing in postResult).
LandingIsAtomic ==
  \A r \in Runs : landed[r] # 0 => ~Queued(r)

\* A report is never lost: a job that succeeded has left its text in tool_runs,
\* the text of the attempt that ended it, unless the user had cancelled the run
\* or startDeepRun had withdrawn it (row first, landing by toolRunId).
NoReportLost ==
  \A r \in Runs :
    /\ State(r) = "succeeded" =>
         run[r].status = "succeeded" \/ run[r].why \in {"user", "withdrawn"}
    /\ run[r].status = "succeeded" =>
         run[r].report = landed[r] /\ exec[r][landed[r]].ok

\* Once the owner is shown an end, from the run or from its job, later steps do
\* not take it back: a run shown failed or cancelled is never alive again.  This
\* is said of complete responses among themselves and of partial ones among
\* themselves; a partial response, flagged as such, can show as queued a run
\* whose job has already ended it for the complete ones.
ViewStands ==
  [][\A r \in Runs, answered \in BOOLEAN :
       View(r, answered) \in {"failed", "cancelled"} =>
         View(r, answered)' \in {"failed", "cancelled"}]_deepVars

\* "A deep run must never simply vanish" (the comment of the reap landing):
\* whichever write fails, whoever dies and whether or not the job can be looked
\* up, the owner is shown an end.
NoRunHangs ==
  \A r \in Runs :
    Queued(r) ~> \A answered \in BOOLEAN :
                   View(r, answered) \in {"succeeded", "failed", "cancelled"}
=============================================================================
