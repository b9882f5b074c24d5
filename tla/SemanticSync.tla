---------------------------- MODULE SemanticSync ----------------------------
(***************************************************************************)
(* The nightly sync of one source into the Semantic Brain: runSourceSync   *)
(* (lib/semantic-sync/run.ts), the two collectors and the import           *)
(* operations of Discovery Engine.  Runs of a source do not overlap: one   *)
(* workflow, one concurrency group.                                        *)
(*                                                                         *)
(* A record is an e-mail message or an event of Stripe; the document of an *)
(* event is that of its object.  Records are numbered in the order in      *)
(* which they happened.                                                    *)
(***************************************************************************)
EXTENDS Naturals, FiniteSetsExt

CONSTANTS
  Source,        \* SyncSourceId
  Records,
  Stamp,         \* Stamp[e]: the time e is dated, as fine as its source goes
  Object,        \* Object[e]: the Stripe object of e, named by one of its events
  Lag,           \* Lag[e]: how long e may stay unlisted
  Overlap,       \* OVERLAP_MS
  First,         \* DEFAULT_FIRST_LOOKBACK_HOURS
  CatchUp,       \* MAX_CATCHUP_HOURS
  Backfill,      \* MAX_LOOKBACK_HOURS
  Lookbacks,     \* lookbackHours an operator asks for
  MaxLookbacks,  \* bound: runs an operator asks for
  Second,        \* a second, in ticks of the clock; 0 when a tick is longer
  MaxItems,      \* maxItems
  MaxAttempts,   \* MAX_IMPORT_ATTEMPTS
  MaxMisses,     \* MAX_CHECK_FAILURES
  MaxClock,      \* bound: seconds
  Operations     \* the imports a queue has room for, each under its own name

ASSUME SyncAssumption ==
  /\ Source \in {"gmail", "stripe"}
  /\ Records \subseteq Nat /\ IsFiniteSet(Records)
  /\ Stamp \in [Records -> Nat] /\ Lag \in [Records -> Nat]
  /\ Object \in [Records -> Records]
  /\ \A d, e \in Records : d <= e => Stamp[d] <= Stamp[e]
  /\ Lookbacks \subseteq Nat \ {0}
  /\ {Second, Overlap, First, CatchUp, Backfill} \subseteq Nat
  /\ Second <= Overlap /\ Overlap <= First /\ First <= CatchUp /\ CatchUp <= Backfill
  /\ {MaxClock, MaxLookbacks} \subseteq Nat
  /\ {MaxItems, MaxAttempts, MaxMisses} \subseteq Nat \ {0}

VARIABLES
  clock,
  lookbacks,  \* runs an operator asked for
  arrived,    \* the records the source's API lists
  state,      \* _state.json
  run,        \* the run under way
  landed,     \* ghost: the records whose manifest line an import has indexed
  written,    \* ghost: what committed runs have collected
  behind      \* ghost: what a window left behind by its own rules

env   == <<clock, lookbacks, arrived>>
ghost == <<written, behind>>
vars  == <<env, state, run, landed, ghost>>

Doc(e) == IF Source = "gmail" THEN e ELSE Object[e]

\* The manifests of an import are retried and abandoned together, so that two
\* alike are one.
Manifest == [docs : SUBSET Records, attempts : 1 .. MaxAttempts]
Import   == [manifests : SUBSET Manifest, misses : 0 .. MaxMisses - 1]
Queue    == [Operations -> Import]

NoImport  == [manifests |-> {}, misses |-> 0]
NoImports == [op \in Operations |-> NoImport]
Named(imports) == {op \in Operations : imports[op].manifests # {}}

NoRun == [pc |-> "idle", since |-> 0, until |-> 0, queue |-> NoImports, retry |-> {},
          lost |-> {}, waits |-> FALSE, cut |-> FALSE, left |-> {}, items |-> {},
          docs |-> {}, truncated |-> FALSE]

Time == 0 .. MaxClock

StateType ==
  [cursor : SUBSET Time, truncated : BOOLEAN, imports : Queue, abandoned : SUBSET Records]

RunType ==
  [pc : {"idle", "collect", "import", "state"}, since : Time, until : Time,
   queue : Queue, retry : SUBSET Manifest,  \* still running, to be imported again
   lost : SUBSET Records,                   \* out of attempts
   waits : BOOLEAN,                         \* some import has not ended
   cut : BOOLEAN,                           \* the window does not begin at the cursor
   left : SUBSET Records, items : SUBSET Records, docs : SUBSET Records,
   truncated : BOOLEAN]

SyncTypeOK ==
  /\ clock \in Time /\ lookbacks \in 0 .. MaxLookbacks
  /\ arrived \subseteq Records /\ \A e \in arrived : Stamp[e] <= clock
  /\ written \subseteq arrived /\ behind \subseteq arrived /\ landed \subseteq Records
  /\ state \in StateType /\ run \in RunType
  /\ \A c \in state.cursor : state.cursor = {c} /\ c <= clock

Init ==
  /\ clock = 0
  /\ lookbacks = 0
  /\ state = [cursor |-> {}, truncated |-> FALSE, imports |-> NoImports, abandoned |-> {}]
  /\ run = NoRun
  /\ arrived = {} /\ landed = {} /\ written = {} /\ behind = {}

-----------------------------------------------------------------------------
(***************************************************************************)
(* The window (computeWindow)                                              *)
(***************************************************************************)
Back(t, n) == IF t > n THEN t - n ELSE 0

\* Mutants: a complete run is resumed like a truncated one, or the other way.
ResumeAtCursor(c) == Back(c, Second)
ResumeOverlapping(c) == Back(c, Overlap)

\* Where a run without lookbackHours resumes: a second before the cursor, or
\* an overlap for mail delivered late when the last run was complete.
Resume(c) == Back(c, IF state.truncated THEN Second ELSE Overlap)

Wanted(lookback) ==
  CASE lookback > 0 -> Back(clock, lookback)
    [] lookback = 0 /\ state.cursor # {} -> Resume(CHOOSE c \in state.cursor : TRUE)
    [] lookback = 0 /\ state.cursor = {} -> Back(clock, First)

Floor(lookback) ==
  Back(clock, IF lookback > 0 \/ state.truncated THEN Backfill ELSE CatchUp)

Since(lookback) == Max({Wanted(lookback), Floor(lookback)})

(***************************************************************************)
(* The import queue (reviewQueue).  What a check of an import answers is   *)
(* all a run learns of it: verdict[op] for the import named op.            *)
(***************************************************************************)
Verdict == {"running", "succeeded", "incomplete", "unread"}

\* Checks that fail count as a failed import from the last one on.
Running(verdict, op) ==
  \/ verdict[op] = "running"
  \/ verdict[op] = "unread" /\ state.imports[op].misses + 1 < MaxMisses

Checked(verdict, op) ==
  [state.imports[op] EXCEPT !.misses = IF verdict[op] = "unread" THEN @ + 1 ELSE 0]

Pending(verdict) ==
  [op \in Operations |->
     IF op \in Named(state.imports) /\ Running(verdict, op) THEN Checked(verdict, op)
     ELSE NoImport]

\* Mutant: an import that cannot be read is taken for done.
FailedWhenRead(verdict, op) == verdict[op] = "incomplete"

Failed(verdict, op) ==
  \/ verdict[op] = "incomplete"
  \/ verdict[op] = "unread" /\ state.imports[op].misses + 1 >= MaxMisses

FailedManifests(verdict) ==
  UNION {state.imports[op].manifests : op \in {o \in Named(state.imports) : Failed(verdict, o)}}

\* Every import has ended, and could be read.
Settled(verdict) == \A op \in Named(state.imports) : verdict[op] \in {"succeeded", "incomplete"}

DocsIn(manifests) == UNION {m.docs : m \in manifests}
DocsOf(imports) == UNION {DocsIn(imports[op].manifests) : op \in Operations}

\* An import that succeeded indexed all of its documents, one that did not some.
IndexedBy(verdict, op, part) ==
  CASE verdict[op] = "succeeded"  -> DocsIn(state.imports[op].manifests)
    [] verdict[op] = "incomplete" -> DocsIn(state.imports[op].manifests) \cap part
    [] OTHER                      -> {}

Indexed(verdict, part) ==
  UNION {IndexedBy(verdict, op, part) : op \in Named(state.imports)}

\* Mutant: no limit to the attempts.
CanRetryAlways(m) == TRUE

CanRetry(m) == m.attempts < MaxAttempts

-----------------------------------------------------------------------------
(***************************************************************************)
(* A run                                                                   *)
(***************************************************************************)
\* Bound: a complete run is followed by the next when the clock has moved on, or
\* has come to its end.
NextFiring == clock \notin state.cursor \/ state.truncated \/ clock = MaxClock

\* The guard, the state file, the check of every queued import, the window.
\* Bound: the name of one more import is free.
Begin(lookback, verdict, part) ==
  /\ run.pc = "idle"
  /\ NextFiring
  /\ Named(Pending(verdict)) # Operations
  /\ LET failed == FailedManifests(verdict)
     IN  run' = [NoRun EXCEPT
           !.pc = "collect", !.since = Since(lookback), !.until = clock,
           !.queue = Pending(verdict), !.waits = ~Settled(verdict),
           !.retry = {m \in failed : CanRetry(m)},
           !.lost = DocsIn({m \in failed : ~CanRetry(m)}),
           !.cut = lookback > 0 \/ state.cursor = {} \/ Since(lookback) > Wanted(lookback)]
  /\ landed' = landed \cup Indexed(verdict, part)
  /\ lookbacks' = IF lookback > 0 THEN lookbacks + 1 ELSE lookbacks
  /\ UNCHANGED <<clock, arrived, state, ghost>>

\* Oldest first.  The stable sort keeps what Stripe lists for one second the
\* way it comes, newest first; the list of Gmail is turned round.
Before(d, e) ==
  \/ Stamp[d] < Stamp[e]
  \/ Stamp[d] = Stamp[e] /\ IF Source = "gmail" THEN d < e ELSE e < d

Batch(window) ==
  {e \in window : Cardinality({d \in window : Before(d, e)}) < MaxItems}

\* One document each; the last of the replay wins.
Latest(batch) ==
  {e \in batch : \A d \in batch : Doc(d) = Doc(e) => ~Before(e, d)}

\* Gmail's before: leaves out the second of the run itself.
Window ==
  {e \in arrived :
     /\ run.since <= Stamp[e]
     /\ IF Source = "gmail" THEN Stamp[e] < run.until ELSE Stamp[e] <= run.until}

\* What the window leaves out at its beginning and no run has collected.
Beyond == {e \in arrived \ (written \cup behind) : Stamp[e] < run.since}

\* collect, then every document's content and the manifest into the bucket.
Collect ==
  /\ run.pc = "collect"
  /\ run' = [run EXCEPT
       !.pc = "import", !.left = Beyond, !.items = Batch(Window),
       !.docs = Latest(Batch(Window)), !.truncated = Cardinality(Window) > MaxItems]
  /\ UNCHANGED <<env, state, landed, ghost>>

Inputs ==
  {[m EXCEPT !.attempts = @ + 1] : m \in run.retry}
    \cup IF run.docs = {} THEN {} ELSE {[docs |-> run.docs, attempts |-> 1]}

NewName == CHOOSE op \in Operations : op \notin Named(run.queue)
Started == [run.queue EXCEPT ![NewName] = [manifests |-> Inputs, misses |-> 0]]

\* documents:import, if there is anything to import.
StartImport ==
  /\ run.pc = "import"
  /\ run' = [run EXCEPT !.pc = "state", !.queue = IF Inputs = {} THEN @ ELSE Started]
  /\ UNCHANGED <<env, state, landed, ghost>>

Cursor == IF run.truncated THEN Max({Stamp[e] : e \in run.items}) ELSE run.until

\* _state.json, written last.
Commit ==
  /\ run.pc = "state"
  /\ state' = [cursor |-> {Cursor}, truncated |-> run.truncated, imports |-> run.queue,
               abandoned |-> state.abandoned \cup run.lost]
  /\ written' = written \cup run.items
  /\ behind' = behind \cup run.left
  /\ run' = NoRun
  /\ UNCHANGED <<env, landed>>

\* A call fails, or the deadline or the end of the instance comes: _state.json
\* stays, and an import that was started is not watched: it may add to the index
\* what the next run imports again.
RunEnds ==
  /\ run.pc # "idle"
  /\ run' = NoRun
  /\ UNCHANGED <<env, state, landed, ghost>>

-----------------------------------------------------------------------------
(***************************************************************************)
(* The source and time, which stands still during a run                    *)
(***************************************************************************)
Arrive(e) ==
  /\ run.pc \in {"idle", "collect"}
  /\ e \notin arrived
  /\ clock \in Stamp[e] .. Stamp[e] + Lag[e]
  /\ arrived' = arrived \cup {e}
  /\ UNCHANGED <<clock, lookbacks, state, run, landed, ghost>>

Tick ==
  /\ run.pc = "idle"
  /\ clock < MaxClock
  /\ clock' = clock + 1
  /\ UNCHANGED <<lookbacks, arrived, state, run, landed, ghost>>

\* A run of the workflow, or one an operator asks for.
Fire(verdict, part) ==
  \/ Begin(0, verdict, part)
  \/ lookbacks < MaxLookbacks /\ \E lookback \in Lookbacks : Begin(lookback, verdict, part)

Checks == [Named(state.imports) -> Verdict]
Queued == DocsOf(state.imports)

Next ==
  \/ \E verdict \in Checks, part \in SUBSET Queued : Fire(verdict, part)
  \/ Collect \/ StartImport \/ Commit \/ RunEnds
  \/ \E e \in Records : Arrive(e)
  \/ Tick

Spec == Init /\ [][Next]_vars

\* Runs end, the workflow fires again and again, and again and again a run that
\* reads of every queued import how it ended gets through.
Fairness ==
  /\ WF_vars(Tick) /\ WF_vars(Collect \/ StartImport \/ Commit \/ RunEnds)
  /\ SF_vars(\E verdict \in Checks, part \in SUBSET Queued :
       Settled(verdict) /\ Begin(0, verdict, part))
  /\ SF_vars(~run.waits /\ Collect)
  /\ SF_vars(~run.waits /\ StartImport)
  /\ SF_vars(~run.waits /\ Commit)

FairSpec == Spec /\ Fairness

-----------------------------------------------------------------------------
(***************************************************************************)
(* Properties                                                              *)
(***************************************************************************)
\* As late a record of the same document.
Covers(records, e) == \E d \in records : Doc(d) = Doc(e) /\ Stamp[d] >= Stamp[e]

\* The cursor never passes a record whose indexing nobody watches: what a
\* committed run collected is indexed, or in an import that is still queued, or
\* reported as abandoned, whatever failed, died, was imported twice or could not
\* be read (lib/semantic-sync/run.ts:31-47).
NothingUnwatched ==
  \A e \in written : Covers(landed \cup Queued \cup state.abandoned, e)

\* A run that resumes at the cursor leaves nothing behind it: every record its
\* window lies beyond was collected before, but for what the limits of the
\* catch-up, an operator's lookback, or a late delivery behind a truncated run
\* cut off (computeWindow, lib/semantic-sync/run.ts:158-184).
NoHole ==
  \A e \in run.left : run.cut \/ (state.truncated /\ Lag[e] > 0)

\* Every record reaches the index, is reported as abandoned, or was left behind
\* by the rules of a window, as long as runs go on.
EveryRecordSettles ==
  <>[](\A e \in arrived : e \in behind \/ Covers(landed \cup state.abandoned, e))

\* Stripe: the newest snapshot per object wins (lib/semantic-sync/
\* stripe-source.ts:6-8).  Not so for two events of one second.
NewestSnapshotWins ==
  run.pc = "import" => \A e \in run.items : \E d \in run.docs : Doc(d) = Doc(e) /\ d >= e
=============================================================================
