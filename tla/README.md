# Hub: dispatch, ledgers and synchronisation in TLA+

The Hub (`src/hub`) is a Next.js application over one Postgres database. It runs
as one to three Cloud Run instances, hands some of its AI work to a *desktop
worker* that polls it over HTTP, and keeps indexes in step with GitHub, Gmail,
Stripe and Drive. This directory specifies the parts of the Hub where several
processes act on the same rows or files, or where work survives the process
that began it: the dispatch queue with its workers and callers, the ledger of
spent runs, the durable deep runs, the hourly alerts, the worker's crash
records, and three synchronisations.

Reading order: `JobLifecycle` (what a caller may rely on), `DispatchQueue` (the
code), `DispatchLedger` and `DeepLane` (its two users), then
`DispatchQueueProofs`, whose second half is the refinement. `FaultSpool`,
`DispatchAlerts`, `VaultSync`, `SemanticSync` and `DriveChanges` stand by
themselves and can be read in any order. The theorems about a module `M` are in
`MProofs`; in each of those, read the inductive invariant (named under Proofs,
with its parts) and the theorems at the end first.

## The system

| Component | State | Operations | Interacts through |
|---|---|---|---|
| Dispatch queue, `lib/dispatch-store.ts` | rows of `dispatch_jobs`: state, attempt, leased_by, lease and deadline, cancel flag, payload and result text, delivered_at, scrubbed_at | `enqueueJob`, `getJobView`, `deliverResult`, `cancelJob`, `claimNext`, `heartbeatJob`, `postResult`, `reapExpired`, `sweepStale` | SQL statements of any instance |
| Desktop worker, `lib/dispatch-worker.ts` | slots, each with the job it runs | claim, heartbeat, run, abort, post up to three times, crash | the `/api/worker/*` routes |
| Chat dispatch, `lib/agy-dispatch.ts`, `lib/agy-chat.ts` | one wait loop per turn, detached cancel and settlement | gate, enqueue, poll, give up, take the answer | the queue, `ai_runs` |
| Run ledger, `lib/runs.ts` and the result route | rows of `ai_runs` | `recordAiRun`, by four different writers | detached inserts |
| Deep lane, `lib/tool-runs.ts`, `lib/deep-run-start.ts`, `lib/deep-runs.ts` | rows of `tool_runs` | start, attach, cancel, expire, land, derive the view | the queue's transactions and the reaper |
| Dispatch alerts, `lib/dispatch-alerts.ts` | recorded alert states | hourly tick: decide, post, record | the queue's tables, Google Chat |
| Fault spool, `lib/fault-spool.ts`, `/api/worker/faults` | two files, a set of seen ids per instance | append, claim by rename, upload, commit, restore | HTTP, file system |
| Vault sync, `lib/vault/sync.ts` | notes, chunks, run records | diff, promote, tombstone | GitHub, Postgres |
| Semantic sync, `lib/semantic-sync/run.ts` | cursor and import queue in one object | collect, write, import, review, store the state | GCS, Vertex |
| Drive notifications, `app/api/webhooks/google` | a page token, an in-process latch | process changes, renew the channel | Google, Postgres |
| Circuit breaker, rate limits, token refresh, report windows | small maps and rows | see `PROJECT.json` | in-process calls, Postgres |

The last row and the rest (user interface, model providers, Workspace clients, search, accounts,
KPIs) is listed in `PROJECT.json` with the reason it is not modelled.

What is hard here, and what must hold:

- **Queue.** Nothing but single statements is atomic. `cancelJob` is two
  statements, `reapExpired` four and a ledger pass, `enqueueJob` a count and an
  insert, and every claim request starts a reap. Leases lapse while their
  holders live; heartbeats renew lapsed leases that nobody has reaped; replies
  get lost; workers and instances die anywhere. Still, a job must not be handed
  out more often than its kind allows, only the newest claim may end it, an
  ended job must stay ended, prompts and answers must not outlive their use,
  and every job must end.
- **Ledger.** Four writers can account for one answer: the turn that served
  it, the settlement of a turn that gave up, the result route, the sweep. One
  row per answer is wanted, whatever order they run in.
- **Deep lane.** A run and its job live in two tables with different
  writers. They are created, attached, cancelled and reaped by separate writes
  that may each fail, and yet a report must not be lost, nobody may be left
  waiting, and the owner must not see an end taken back.

- **Alerts.** What a tick decides depends on what earlier ticks recorded, and
  the post and the record may each fail. Still a deploy failure must not be
  forgotten because a lookup came back empty, an all-clear must be earned, and
  a condition that stays must reach the operator through every suppression.
- **Fault spool.** The process that writes the file is about to die, and the
  one that uploads it may. A claim, a commit and a restore are several file
  operations, and a reply may be lost after the Hub has read the batch.
- **Vault and semantic sync.** A run is a long sequence of calls over data that
  changes under it, cut off by caps, deadlines and crashes; the next run must
  find what was left. Vault runs overlap without a lock. The semantic cursor
  moves past imports whose end is not known yet.
- **Drive.** Notifications are lost, repeated and answered before the work is
  done; the latch that coalesces them is one process's; a renewal writes back
  the cursor it read before two calls to Google.

`PROJECT.json` lists these as hazards, each at its line with the properties that
would catch it.

## Modules

### JobLifecycle: the promise

One job without leases, workers, statements or clocks: *submitted*, *tried* at
most `Limit` times, *settled* once, by the report of an execution or because
the queue gives up (which never counts as success), its answer *read* at most
once, and *forgotten*.

### DispatchQueue: the store, the workers, the reapers

| Variable | Code |
|---|---|
| `job[j]` | the row; `"absent"` before the insert and after the deletion. `result` is the attempt whose text is in `result_text` (0: NULL), `payload` whether `payload_text` is set |
| `caller[j]` | how far the `enqueueJob` call of j has come |
| `exec[j][a]` | the execution of the a-th claim: `running` (in `runFn`), `posting` (in the POST loop), `gone`; the slot, and whether the run succeeded |
| `cancelling` | `cancelJob` calls between their two statements |
| `pass[p]` | the `reapExpired` call of instance p: its next statement, the leases and deadlines that its `now` finds passed, and the rows it must ledger |
| `lapsed`, `overdue`, `stale`, `aged` | which timestamps have passed |
| `landed` | history: the attempt whose POST ended the job |

Each action is one SQL statement or one transaction: `EnqueueCheck` and
`EnqueueInsert`; `CancelQueued` and `CancelLeased`; `ReapCancelled`,
`ReapRequeue`, `ReapLease`, `ReapDeadline`, `ReapLedger`; `Claim`,
`HeartbeatHeld`, `PostArrives`, `DeliverResult`, `SweepStale`. The unreliable
network is in `Claim` (`got = FALSE`: the reply is lost), `PostArrives`
(`seen = FALSE`: it landed and the worker does not know), `PostLost`, and in
`HeartbeatHeld`, whose reply may be missed. Crashes are `WorkerCrash` and
`ReapCrash`.

*Time.* There is no clock. A timestamp that has passed is a member of a set, and
it gets there by an action. `reapExpired` reads the clock once and uses it for
four statements, so a pass remembers which leases and deadlines had passed when
it began; a claim or a heartbeat moves `lease_expires_at` beyond that `now` and
takes the lease out of every pass under way (`Renew`). The relations between the
durations in the source (7 days against 10 minutes against the deadlines) are
the guards of `RowTtlPasses`, and of `Crossing` and `WindowPasses` in the modules
below.

### DispatchLedger: the chat lane and the ledger

Extends the queue with the `dispatchGenerateText` call of each chat turn
(`turn`, with the view it last polled and may act on too late), the detached
`cancelJob` and `settleAbandoned` calls (`wanted`, `settle`), the sweep
transaction (`sweep`) and the ledger (`rows[j][a]`, counting to "many"). Every
`recordAiRun` is best-effort, so each may write nothing (`lost`);
`deliverResult` may throw before or after its commit (`DeliveryThrows`); the
instance may die with everything detached (`HubDies`). Work items are the
admin's probes and, in `ToolJobs`, deep runs.

### DeepLane: tool runs

Extends the queue with the `tool_runs` row of each run, the `startDeepRun` call
that creates it (`StartBegins` .. `StartAttaches`, with a throw or a death after
each), the cancel route, and landing: `PostLands` is `postResult` with the
`finishToolRun` in its transaction, `ReapLands` the reaper's best-effort writes
after its statements. `View` is `viewOf` with `deriveRunView`, for a job lookup that is
answered or that fails (a partial response), `Finished` the compare-and-set
from `'queued'`. `WindowOutlastsJobs` says whether `ACTIVE_WINDOW_MS` exceeds
every job's life: with the default deadlines (16 and 30 minutes) it does, with
the longest admitted one (60 minutes) it does not.

### FaultSpool: the worker's crash records

| Variable | Code |
|---|---|
| `spool`, `inflight` | the two files of `lib/fault-spool.ts`, line by line; absent and empty are the same, but to `Restore`, which removes in two steps what it put in front of an empty file |
| `pc`, `cut`, `answer`, `round` | `uploadSpooledFaults` at boot: where it is, after which line of the in-flight file the batch ends (`Request` before it, `Owed` behind it), the reply, `MAX_UPLOAD_BATCHES` |
| `late` | a request the worker gave up, which a Hub may yet read |
| `seen[h]` | the dedupe set of instance h, at most `SEEN_LIMIT` |
| `reported`, `overtaken`, `repeats`, `lost`, `retried` | history: faults reported; not yet reported when a later one was; reported again; dropped by a rejection or a torn write; not seen to succeed, or not discarded |

Each file operation is a step: `Drain` (the rename), `Commit` or `Restore` (the
write-back, in front of what came since), `Unlink`. Each may fail, and the failure is
swallowed (`DrainFails`, `FileFails`): the in-flight copy stays and the worker goes on.
The process may end between
any two and within a write (`CrashTorn`, `KilledInWriteBack`); `CrashSpooled` is
the exception that leaves a record. A torn line swallows what is written behind
it (`Readable`), and keeps its place as an unparsable line of its own when it is
written back with a newline (`Junk`). `Ingest` is the route: size cap, schema, then
the dedupe and the report of each fault in turn (`SeenAfter`, `Fresh`).

### DispatchAlerts: the hourly tick

`last` is the newest `dispatch.alert` row, `recent` the fingerprints delivered
within `REALERT_MS`, `tick` the tick under way with the row it will write,
`world` what a snapshot sees. `Evaluate` is the snapshot, `decideAlerts`,
`applyDeployCarryForward` and `decidePosting`; `PostAlert`, `PostRecovery`,
`Record` and their failures follow. The history: `told`, the kinds of the
operator's latest news (Chat, or GitHub's mail when the workflow fails); `open`,
the latest known deploy failure and whether a row has it; `cleared`, what was
open when a recovery went out. Two ticks do not overlap: the workflow has a
concurrency group.

### VaultSync: the index of the vault

`note[p]` is the `vault_notes` row of a path and the blob its chunks come from,
`head` the tree of the newest commit, `active` the embedding model of the
deployed revision, `run[r]` a `runVaultSync` call: the tree it read, the notes it
has to index (`todo`, a set: the next one is the least), the paths to tombstone,
its quota and its failures. The actions are its calls: `Start`, `ReadTree`, `ListIndex` with the diff, `Tombstone`,
`Promote` or `NoteFails` note by note, `Deadline`, `BatchEnds`, `Finish`, and
`RunFails` or `RunDies` at any of them. `run[r].alone` is history: no other run
overlapped it.

### SemanticSync: the cursor and the import queue

`state` is `_state.json`: the cursor, whether the last run was truncated, the
imports that have not ended, the abandoned documents. The queue has one place
per operation name (`Operations`), so that the names are what bounds it; two
manifests with the same documents and attempts are one. `run` is `runSourceSync`:
`Begin` reads the state, checks every queued import (`reviewQueue`; all it learns
is a verdict) and computes the window, `Collect` reads the source and writes
content and manifest, `StartImport` starts the import, `Commit` writes the state,
and `RunEnds` ends the run anywhere. `arrived` is what the API lists: mail may be
delivered later than it is dated (`Lag`). History: `landed`, what an import has
indexed; `written`, what committed runs collected; `behind`, what a window left
behind by its own rules.

### DriveChanges: notifications, passes and renewals

`now`, `oldest` and `drive` are Drive's page tokens and files, `live` the channels
that deliver, `notes` the notifications under way. `row` is the
`webhook_channels` row, `pass[h]` and `queued[h]` the `processChanges` call and the
latch of instance h, `renew[r]` a renewal request, `index[f]` the chunks of a
file, each of a version. A pass is `ReadRow`, `List` (which resets a cursor Drive
has forgotten), then for each file `DeleteChunks`, or `ReadFile`, `Clear` and one
`PutChunk` per chunk, then `Save`; the files still to do are a set of listed
changes, and the next is the earliest. A renewal is `RenewReads`, `FetchToken`, `Watch`,
`SaveChannel`, `StopOld`. History: `tried`, the newest change of a file a pass
attempted, when it read it; `gap`, the token up to which a reset or a first
channel gave up; `unheard`, the token up to which notifications came to nothing,
until a pass reads the cursor.

## Runs

All runs check deadlock; some behaviour is always possible because rows age out
or because time goes on. Sizes are distinct states.

| Run | Instance | Shows |
|---|---|---|
| `DispatchQueue_work` | a probe, 2 claims, 2 slots of one worker, 2 POSTs, 1 reaper (95k) | `TypeOK`, `ClaimsBounded`, `ContentTransient`, `NewestClaimLands`, `EndIsFinal`, `EveryJobEnds`; implements `JobLifecycle` |
| `DispatchLedger_each` | a chat turn, a tool run or a probe, one in each behaviour (`OneJob`), 1 claim, 2 POSTs, reaper, sweep (85k) | `AnswerCountedOnce`, `ServedIsDelivered`, `LandedIsRecorded`, `ContentVanishes` |
| `DeepLane_runs` | one run with 2 claims, 2 slots and a reaper, or two competing starts of one user with one claim and no reaper (`Bounds`; 152k) | `LandingIsAtomic`, `NoReportLost`, `ViewStands`, `NoRunHangs` |
| `FaultSpool_upload` | 3 faults (the third malformed), 1 silent kill or failed file operation, caps of 2 lines, 2 batches, 2 Hubs that remember 1 id (191k) | `NothingForgotten`, `OldestFirst`, `RepeatsNeedAFault`, `EveryFaultReported` |
| `DispatchAlerts_hourly` | a calm Hub, a failed deploy, metered turns, too few turns, changing at any time (37k) | `AllClearIsEarned`, `DeployFailureStands`, `AlertReaches` |
| `VaultSync_runs` | 2 runs, 3 notes (the first cannot be indexed, the second changes: `SecondChanges`), 2 contents, 2 models, 1 push, 2 notes a run (179k) | `NoteIsWhole`, `CleanRunIsExact`, `IndexCatchesUp` |
| `SemanticSync_nightly` | 3 messages (one late), 2 a run, 2 attempts, 2 misses, 4 ticks of the clock, 1 lookback, 2 operation names (439k) | `NothingUnwatched`, `NoHole`, `EveryRecordSettles` |
| `DriveChanges_pushed` | 1 file, 2 changes, 1 instance, 1 renewal, 1 fault, 2 channel ids (950k) | `NothingSkipped`, `EveryChangeIsTried` |
| `SemanticSync_second` | two Stripe events of one object in one second | a counterexample to `NewestSnapshotWins` |
| `DriveChanges_mixed` | 2 instances, 2 chunks, nothing fails | a counterexample to `OneVersionAtRest` |
| `DriveChanges_queued` | as `DriveChanges_pushed` | a counterexample to `QueuedPassRuns` |
| `DispatchLedger_probe` | a probe that nobody polls | a counterexample to `ProbeCountedOnce` |

Each passing run also checks the type invariant of its module.

Three runs bound their behaviours by a `CONSTRAINT` of the MC module, named
above. Each cuts a behaviour off where something begins that no fairness forces
to begin: the first step of a second job (`OneJob`), of the start of a second
run that would go beyond its row (`Bounds`), a vault that differs elsewhere
(`SecondChanges`). The liveness properties are therefore checked on whole
behaviours, in which it does not begin.

*Why the bounds are enough.*

- *Queue, ledger, deep lane.* No statement of the store looks at two jobs except
  the admission count and the one-active-run index; the others are row by row.
  One job therefore shows every race on a row, and for the index `DeepLane_runs`
  has a second start. In the ledger a job of each kind has its turn by itself: the
  writers of an answer's row know that job only. Two claims (`WorkAttempts = 2`, three in the source) are
  one requeue, with the old and the new execution side by side; a third adds
  another requeue of the same kind. Two slots of one worker id are the case in
  which `leased_by` alone does not tell the executions apart. Two POSTs are one
  repeat. One instance is inside `reapExpired` at a time in these runs; for any
  number of passes at once, any number of jobs, claims and slots, the safety
  properties of the queue are proved (below).
- *Fault spool.* With a spool, a body and a batch of two lines, three faults fill
  the spool, make a batch leave something behind, and put a write-back in front
  of newer lines. A dedupe set of one id and two instances forget and disagree
  as soon as a batch is repeated. One silent kill beside the three crashes that
  spool a record ends the process within an operation and within its recovery; in
  its place one rename, read, write-back or removal may fail and be swallowed.
- *Alerts.* The four worlds hold the two conditions that later ticks treat
  specially (the deploy failure, which is carried forward, and the allotment
  collapse, whose recovery needs evidence). The other conditions are decided
  alike and only add members to the fingerprint.
- *Vault.* Two notes per run, of which the failing one takes the first place each
  time, make every run end before its work; two runs give
  every overlap in pairs, and the transactions touch one note each, so a third
  run repeats the pattern. Two contents and a removal let an older run write an
  older version; one push and one change of the model each fall between any two
  steps.
- *Semantic.* Three records with two per run make a truncated run and its
  successor. The overlap of one tick is just enough for the late message. Two
  attempts and two misses are one retry and one repeated check; two operation
  names let an import be watched while the next is started.
- *Drive.* Two changes let a pass, a notification or a renewal fall between
  them; two channel ids are the old and the new. One fault, of any kind, comes
  at any step.

### Where the code does not do what the repository says

Four runs end in a counterexample, each for a statement quoted from a comment.
`PROJECT.json` has the quotations.

- `SemanticSync_second`: the events of a window come newest first and are sorted by
  their second, stably. Two events of one object in one second are therefore
  replayed newest first, and the older snapshot is what the document says until
  the object changes again.
- `DriveChanges_mixed`: the latch is one instance's. Two instances ingest one file,
  each with the version it read; their clears and inserts interleave, and chunks
  of both versions stay when both have ended, although nothing failed.
- `DispatchLedger_probe` (`lib/dispatch-store.ts:735`). A probe's answer is recorded by
  the result route when it arrives. If nobody polls the probe, `delivered_at` stays
  NULL, and the sweep, which takes that for an answer nobody accounted for,
  records it again. The comment (`:734`) says "so no double count". Chat turns
  and tool runs are counted once (`AnswerCountedOnce`).
- `DriveChanges_queued` (`app/api/webhooks/google/route.ts:165`). A notification that
  comes during a pass sets the queued flag; if the pass throws, the loop is left,
  and no queued pass runs, which the comment (`:149`) promises. The same happens in
  the moment between the last look at the flag and the opening of the latch.
  Such a notification waits for the next one; a renewal starts no pass.

Other behaviours of the models differ from a comment, or would surprise its
reader, and have no run of their own. The paths are under `src/hub`.

- *Requeued cancel* (`lib/dispatch-store.ts:375`, against `:354`). A cancel that
  lands after `reapExpired`'s first statement does not keep its second from
  requeueing the job, with the flag set: the next worker is told to abort.
- *Lost cancel* (`:188`, `:200`). A job leased at `cancelJob`'s first statement and
  requeued before its second loses the cancel.
- *Admission* (`:104`). Two `enqueueJob` calls that both counted before either
  inserted exceed the cap.
- *The sweep's two clocks* (`:766`, against `:732`). An answer becomes old enough
  between the sweep's SELECT and its scrub, which reads the clock anew: scrubbed,
  never recorded. `LandedIsRecorded` leaves these out, and answers whose recorder
  died.
- *A sweep that rolled back.* Its ledger rows are written on other connections and
  stay, and the next sweep writes them again. `AnswerCountedOnce` leaves these out.
- *Results after the end*. The first POST of an execution is answered `duplicate`
  when the reaper had just ended the job as cancelled, so its output gets no
  ledger row; a repeated POST is answered `discarded_lease_lost` when the row has
  moved on, and gets a ledger row each time.
- *A cancel that finds no job* (`lib/tool-runs.ts:279`, against
  `lib/deep-run-start.ts:215`). A cancel before, or without, the attach finds no
  job to stand down; the worker runs on and its report is discarded.
- *The longest deadline* (`lib/tool-runs.ts:152`, against `:131`). With a deadline
  of 60 minutes a run is expired while its job is executed (`WindowOutlastsJobs`;
  the runs use the default deadlines, for which it is TRUE).
- *A spool beyond its cap* (`lib/fault-spool.ts:140`, against `:20-22`). The cap is
  looked at when a record is appended; a write-back adds to what came since. A
  batch the route finds too large is answered 413 and dropped whole.
- *A deploy failure nobody recorded* (`lib/dispatch-alerts.ts:679`). The carry-forward
  reads the recorded row. If that row could not be written, and the lookup comes
  back empty at the next tick, the failure is forgotten, and a recovery may be
  announced without a success. `AllClearIsEarned` and `DeployFailureStands` are
  about recorded failures.
- *Silent recoveries*. A recovery after a suppressed state is silent although an
  earlier alert was delivered, and one whose post throws is recorded and never
  announced.
- *A partial view* (`app/api/deep-runs/[id]/route.ts:66`). A `getJobDetail` that fails
  is taken for no job, and the response is flagged partial. A reaped run whose
  row could not be written is shown as failed through its job; a partial response
  then shows it as queued, until it is older than the window. `ViewStands`
  therefore compares complete responses with complete ones, and partial ones with
  partial ones; `NoRunHangs` covers both.
- *A batch sent again* (`lib/fault-spool.ts:152`). `commitSpool` swallows a write-back
  or a removal that fails. The in-flight file stays, the worker goes on, and the
  next boot uploads again what was seen to succeed; another instance, or one that
  has forgotten the ids, reports it twice. `RepeatsNeedAFault` counts this failure
  among the causes of a repeat.
- *An import repeated* (`lib/semantic-sync/run.ts:382`). A run that ends between the
  start of an import and the write of the state leaves no trace of the attempt;
  the next run makes it again. The limit of attempts bounds what is stored
  (`SyncTypeOK`), not how often an import is started.
- *Notes that fail for ever* (`lib/vault/sync.ts:28-32`, `:182`, `:240`). The batch is the
  front of what is to be indexed, and a note that cannot be indexed stays in
  front. With `maxNotesPerRun` of them, in a row or not, every batch is spent on
  them; with `MAX_CONSECUTIVE_FAILURES` in a row every run ends there. Nothing
  behind them is indexed. `IndexCatchesUp` is about notes with fewer failing ones
  in front (`InReach`), and about removals.

## Fairness

Every specification that states liveness has its fairness in one definition.
In `DispatchQueue`, `DispatchLedger` and `DeepLane` it assumes:

- *time passes*: leases lapse, deadlines and windows pass (weak fairness);
- *runs end*: `runFn` has a timeout and an abort signal, and the POST loop is
  three tries with a timeout each (weak fairness of `FinishRun` and of the
  POSTs, arrived or lost);
- *somebody reaps*: every claim request calls `reapExpired`, and so does the
  hourly alert tick, so passes begin again and again. An instance may die inside
  a pass, but not at the same statement for ever (strong fairness of each
  statement, weak of the beginning);
- *callers continue*: a wait loop polls until its budget ends, a sweep commits
  now and then.

Nothing is assumed of claims, heartbeats, cancels, lost replies, or of workers
staying alive. In `DispatchLedger_each` and `DeepLane_runs` the instance may die
in any call at any time.

The other modules, where strong fairness always means that what is tried again
and again is not cut off at the same place for ever:

- `FaultSpool`: the container is restarted and the worker takes its steps (weak);
  an upload that is tried for ever is read, and a reply other than a refusal is
  seen, some time (strong). Crashes end because they are bounded.
- `DispatchAlerts`: the cron calls the tick, and the re-alert window passes (weak);
  the post and the end of the tick are reached (strong). Whether a post or a state
  write *succeeds* is not assumed: a failed one reaches the operator by mail.
- `VaultSync`: the scheduler calls one of the two runs again and again; each of its
  calls is reached and succeeds some time, or fails for this note alone (strong).
  Nothing is assumed of the other run.
- `SemanticSync`: time passes and runs end (weak); again and again a run that reads
  of every queued import how it ended gets through (strong). Imports may fail at
  each attempt.
- `DriveChanges`: a notification that is under way is handled, and a pass goes on
  (weak). Nothing is assumed of changes, renewals or further notifications; the
  faults are finitely many. A change whose notification came to nothing is
  therefore tried only if a later pass reads the cursor: `unheard` remembers the
  newest token at such a drop until a pass does, and `EveryChangeIsTried` leaves
  out what is not newer.

## Proofs

TLAPS proves the safety properties below for every value of the constants that
the modules admit: any finite set of jobs, runs, records or files, any number of
slots, workers, Hub instances, passes, claims, POSTs, retries and faults. The
assumptions are those the modules state beside their constants (`JobsAssumption`,
`SlotsAssumption`, `BoundsAssumption`, and one per other module), which TLC
evaluates in the runs, and two that only the theorems naming them use:

- `WindowOutlastsJobs` (`DeepLane`): `ACTIVE_WINDOW_MS` exceeds every job's life. It
  holds with the default deadlines and fails with the longest admitted one, as
  the section above says.
- `LatenessWithinOverlap` (`SemanticSyncProofs`): a message is delivered no later
  after its date than the overlap that a window reaches back for this purpose
  (`OVERLAP_MS`). The code has no defence against later ones.

| Theorem | States |
|---|---|
| `QueueInvariant` | `Spec => []IInv` of the queue |
| `TypeCorrect`, `ClaimsAreBounded`, `ContentIsTransient`, `NewestClaimWins` | the invariants that `DispatchQueue_work` checks |
| `EndsAreFinal` | the action property `EndIsFinal` |
| `QueueImplementsLifecycle` | `Spec => KeepsLifecycle` |
| `LedgerUsesQueue`, `LaneUsesQueue` | the ledger and the deep lane keep the queue's specification, so all of the above holds of them |
| `LedgerInvariant`, `LedgerTypeCorrect`, `AnswersCountedOnce`, `ServedAreDelivered` | `LInv`, and the invariants of `DispatchLedger_each`; `AnswersCountedOnce` is about chat turns and tool runs |
| `DeepLaneInvariant`, `DeepTypeCorrect`, `LandingsAreAtomic` | `DInv`, and invariants of `DeepLane_runs` |
| `ReportsAreKept`, `ViewsStand` | with `WindowOutlastsJobs`: `NoReportLost`, and the action property `ViewStands` (complete responses among themselves, and partial ones) |
| `AlertsInvariant`, `AlertsTypeCorrect`, `AllClearsAreEarned`, `DeployFailuresStand` | `AInv`, and the safety properties of `DispatchAlerts_hourly` |
| `VaultInvariant`, `VaultTypeCorrect`, `NotesAreWhole`, `CleanRunsAreExact` | `VInv`, and the invariants of `VaultSync_runs` |
| `ChangesInvariant`, `DriveTypeCorrect`, `NothingIsSkipped` | `ChangesInv`, and the invariants of `DriveChanges_pushed` |
| `SyncInvariant`, `SyncTypeCorrect`, `EverythingIsWatched` | `SyncInv`, and invariants of `SemanticSync_nightly`; `SyncTypeCorrect` bounds the attempts and missed checks that are stored |
| `WindowsLeaveNoHole` | with `LatenessWithinOverlap`: `NoHole` |
| `SpoolInvariant`, `SpoolTypeCorrect`, `NothingIsForgotten`, `OldestComesFirst`, `RepeatsComeFromRetries` | `SpoolInv`, and the invariants of `FaultSpool_upload` |

None of the properties is inductive by itself. What each needs:

*Queue* (`IInv`). That only the newest claim lands needs that a claim's execution
exists and carries the slot whose worker the row names, that attempts beyond the
row's counter have not begun, that a job with a landed POST is over, and that a
row which exists has been inserted by its caller exactly once; that a reaper's
statements are safe needs only that they look at the state again. `IInv` says
this row by row (`RowInv`), so that a step that touches one job leaves the rest
alone; there is one lemma per action, and the reaper's statements, which touch
many rows, share one. `EndIsFinal` follows from the guards under `IInv`.
The refinement maps step by step: an insert is `Submit`, a claim is
`Try`, a landed POST `Report`, a cancel or a reap `GiveUp` of all the rows it
touches, `DeliverResult` is `Read`, the deletion in `SweepStale` `Forget`, and
everything else a stutter.

*Ledger* (`LInv`). An answer is counted once because at most one writer of its row
is outstanding at a time: the turn that took it, the settlement that took it
after the turn gave up, the result route (for work items), the sweep that has
listed it. `JobInv` says it of each job, next to what the queue's row says of the
answer (unread, delivered, scrubbed); `TurnInv` says what a turn may still act on,
however old its view is. `LedgerUsesQueue` makes every step one of the queue or a
stutter of it, so `IInv` comes for nothing.

*Deep lane* (`DInv`). A run and its job have different writers. `Created` says that
no job is before its run; `Writer` says for each way a run may have ended what its
writer knew of the job and what stays true of it (a run that a reaper ended has a
job that is over without a result, on whichever list of a pass it was, `PassInv`);
`Dead` says that a run older than the window can no longer be reached by a
result, which is where `WindowOutlastsJobs` enters.

*Alerts* (`AInv`). The carry-forward reads a row, and the row a tick will write
was decided some steps before. So the invariant follows the failure through
both: a recorded deploy failure is in the newest row, and in the row that the
tick under way will write, unless that tick saw a success.

*Vault* (`VInv`). `Accounted` holds of a run that nobody has overlapped: a path that
is not as the run's commit and model say is one it still has to do, or has
failed. It shrinks note by note and leaves exactness when nothing is left.

*Drive* (`ChangesInv`). A cursor is at three places, in the row, in a pass that has
listed, and in a renewal that will write back what it read. The invariant says
of each holder that the changes its cursor covers were attempted or given up, or
are, in a pass, still to do. It survives a renewal's
stale write because an attempt stays an attempt: what held of the cursor when
the renewal read it still holds when it is written back.

*Semantic* (`SyncInv`). Documents must not fall between the old queue and the
new: until the commit, each document of a queued import is still in the stored
queue, and what the review decided accounts for it (kept, retried, indexed,
abandoned). For `NoHole`, the cursor that a run is about to store is the stamp of
a record it collected, and what it has not collected of its window is newer than
that, or was not there to be listed.

*Fault spool* (`SpoolInv`). A fault may be in the spool, in the in-flight file and in
a request that is still under way, all at once. `OrderInv` says of each of these
that the older faults are ahead in it, or in what goes before it, or dealt with;
`OwedInv` that the in-flight file holds nothing unaccounted for when it is
removed; `RepeatInv` and `OnceInv` that a fault is in two places, or stored and
reported, only if its upload was not seen to succeed, could not be discarded, or
was accepted a moment ago. Every step then cuts a file in two or puts one in front of another, and the
lemmas `Concat…` and `Split…` say what that does to the faults that can be read,
to their order and to their repeats, a torn last line included.

The provers cannot do induction over data, and no theorem of the library that
takes an operator can be cited. Where the code goes through a list in order, the
proofs use a least element instead: a non-empty finite set with a strict order
has a first one (`FirstOfOrder`), a set of numbers that is not empty a smallest
(`LeastOf`). What the dedupe of a batch returns is proved so, from the first line
for which it would not hold (`RunExists`, `SeenGrows`).

Model-checked only:

- all liveness: `EveryJobEnds`, `LandedIsRecorded`, `ContentVanishes`, `NoRunHangs`,
  `AlertReaches`, `IndexCatchesUp`, `EveryRecordSettles`, `EveryChangeIsTried`,
  `EveryFaultReported`;
- the four properties that the code violates.

## Not modelled

- The order of claims (`priority`, `created_at`): with `SKIP LOCKED` any queued
  row may be the one picked, and no property depends on it.
- The worker registry and its freshness: the gates of the callers are a free
  choice. `agy-chat`'s cooldown likewise.
- Content, error classes, usage and latency; the rows for failed attempts that
  the chat lane and the reaper write to `ai_runs` (they account for no output).
- A Postgres that breaks its promises, clock skew between instances, and two
  workers that use one id on two machines.
- The artifact saved from a landed report and the message in its chat: the save
  is one transaction that locks, looks and inserts, so its idempotence is that of
  a single statement here.
- Vault: which paths are in scope and how a note is cut into chunks. A status of
  `incomplete` counts as success for the freshness shown to operators
  (`lib/vault/store.ts:26`), which no run reads.
- Semantic: the data store is configured; `dryRun`; the cap on the list of
  abandoned documents; a record deleted between its listing and its reading; a
  POST that starts two imports. `LIST_CAP` (5000) throws, and would for ever, on a
  window that holds more. The clock stands still during a run, and runs of a source
  do not overlap (concurrency group of the workflow). A truncated run makes
  progress when fewer than `maxItems` records lie in the second it resumes at; a
  retried older manifest may put an older `structData` in place of a newer one.
- Drive: the legacy per-file channels, the pagination of `changes.list`, which file
  types are read. A file whose ingestion fails stays out of date until its next
  change (`tried` says attempted). A clear that fails is not fatal, and leaves the
  older chunks. Two instances are only in `DriveChanges_mixed`.
- Everything `PROJECT.json` marks `not_modelled`, with the reason there: most of the
  repository by size is React components, prompts, stateless wrappers over REST
  APIs and scripts, in which no state outlives a request.
- `getJobDetail` runs after the run's row was read; `View` takes both at once.
  A run's end and its job's end by a POST are one transaction, so the difference
  is a poll.

## Plan

Done: 1 `JobLifecycle`, 2 `DispatchQueue`, 3 `DispatchQueueProofs`, 4 `DispatchLedger`, 5 `DeepLane`, 6 `DispatchAlerts`,
7 `FaultSpool`, 8 `VaultSync`, 9 `SemanticSync`, 10 `DriveChanges`.

Left, in this order:

| | Module | Properties to state |
|---|---|---|
| 11 | `TokenStore` (`lib/google-token-store.ts`) | a token stored by a sign-in is not cleared by an older refresh |
| 12 | `CircuitBreaker` (`lib/circuit-breaker.ts`) | an open circuit admits no call; a call that began before does not reopen or restart it |
| 13 | `ReportWindow` (`lib/reports/run-guard.ts`) | one report per window; a failed window is offered again |

Every safety property that a run checks and the code keeps has its theorem, for
the constants its assumptions admit.
Proofs to come: the safety of modules 11 to 13.
