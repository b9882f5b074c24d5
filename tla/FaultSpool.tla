----------------------------- MODULE FaultSpool -----------------------------
(***************************************************************************)
(* The crash records of the desktop worker: the on-disk spool of           *)
(* lib/fault-spool.ts, its upload at boot (uploadSpooledFaults in          *)
(* lib/dispatch-worker.ts), and the ingest route app/api/worker/faults     *)
(* with its per-instance dedupe (lib/worker-fault-dedupe.ts).              *)
(*                                                                         *)
(* Faults are numbered in the order they are spooled.  A file is a         *)
(* sequence of lines; an absent file is the empty sequence, as an empty    *)
(* one is.  Torn is a line cut off before its newline: what is written     *)
(* behind it becomes part of the same, unparsable line.  Junk is such a    *)
(* line with its newline.                                                  *)
(***************************************************************************)
EXTENDS Naturals, FiniteSets, Sequences, FiniteSetsExt

CONSTANTS
  MaxFaults,    \* bound: faults ever spooled
  MaxKills,     \* bound: ends that spool no record, and file operations that fail
  SpoolCap,     \* MAX_SPOOL_BYTES, in lines
  BatchCap,     \* MAX_DRAIN_RECORDS
  BodyCap,      \* MAX_BODY_BYTES of the route, in lines
  MaxBatches,   \* MAX_UPLOAD_BATCHES
  Hubs,         \* instances of the Hub
  SeenLimit,    \* SEEN_LIMIT of the dedupe
  Malformed,    \* faults the route's schema rejects
  CrashesTear   \* whether a crash may interrupt a write

ASSUME SpoolAssumption ==
  /\ MaxKills \in Nat
  /\ {MaxFaults, SpoolCap, BatchCap, BodyCap, MaxBatches, SeenLimit} \subseteq Nat \ {0}
  /\ Malformed \subseteq 1 .. MaxFaults
  /\ CrashesTear \in BOOLEAN

Faults == 1 .. MaxFaults
Torn == 0
Junk == MaxFaults + 1
Lines == Seq(Faults \cup {Torn, Junk})

VARIABLES
  spool,     \* hub-worker-faults.ndjson
  inflight,  \* hub-worker-faults.ndjson.uploading
  pc,        \* where the worker process is
  cut,       \* the last line of the running upload: the lines behind it are left over
  answer,    \* what the route answered to the running upload
  round,     \* batches uploaded since the boot
  late,      \* the lines of a request the worker gave up and a Hub may yet read
  seen,      \* the dedupe set of each Hub instance, oldest first
  spooled,   \* number of faults spooled so far
  kills,     \* number of ends without a record and of failed file operations
  reported,  \* history: the faults that were reported
  overtaken, \* history: faults not yet reported when a later one was
  repeats,   \* history: faults reported more than once
  lost,      \* history: faults dropped with a rejected batch or a torn write
  retried    \* history: faults whose upload was not seen to succeed, or not discarded

fileVars   == <<spool, inflight>>
uploadVars == <<cut, answer>>
hubVars    == <<late, seen, reported, overtaken, repeats>>
vars == <<fileVars, pc, uploadVars, round, hubVars, spooled, kills, lost, retried>>

NoAnswer == "none"

-----------------------------------------------------------------------------
(***************************************************************************)
(* Files                                                                   *)
(***************************************************************************)

\* The lines drainSpool can parse: whole, and not behind a torn one.
Readable(file) ==
  {i \in DOMAIN file : file[i] \in Faults /\ (i = 1 \/ file[i - 1] # Torn)}

FaultsIn(file) == {file[i] : i \in Readable(file)}

EndsTorn(file) == file # <<>> /\ file[Len(file)] = Torn

\* The fault that a write of the second behind the first makes unreadable.
Swallowed(first, second) ==
  IF EndsTorn(first) /\ second # <<>> THEN {second[1]} \cap Faults ELSE {}

\* The lines a batch takes: those up to its last record, all if it is not full.
Full(file) ==
  {c \in DOMAIN file : Cardinality({i \in Readable(file) : i <= c}) >= BatchCap}

Cut(file) == IF Full(file) = {} THEN Len(file) ELSE Min(Full(file))

\* What the running upload sends.
Upto(file, c) == SubSeq(file, 1, c)

Request == Upto(inflight, cut)

\* Mutants: nothing is written back, or the whole batch.
OwedNothing == <<>>
OwedAll == inflight

\* What commitSpool writes back: the lines beyond the batch cap, each with its
\* newline.
Terminated(lines) ==
  [i \in DOMAIN lines |-> IF i = Len(lines) /\ lines[i] = Torn THEN Junk ELSE lines[i]]

Behind(file, c) == Terminated(SubSeq(file, c + 1, Len(file)))

Owed == Behind(inflight, cut)

SpoolTypeOK ==
  /\ spool \in Lines /\ inflight \in Lines
  /\ pc \in {"down", "drain", "await", "commit", "restore", "unlink", "serve"}
  /\ cut \in 0 .. Len(inflight)
  /\ answer \in {"none", "accepted", "rejected", "refused"}
  /\ round \in 0 .. MaxBatches
  /\ late \in Lines
  /\ seen \in [Hubs -> Seq(Faults)] /\ \A h \in Hubs : Len(seen[h]) <= SeenLimit
  /\ spooled \in 0 .. MaxFaults /\ kills \in 0 .. MaxKills
  /\ {reported, overtaken, repeats, lost, retried} \subseteq SUBSET Faults
  /\ pc \in {"await", "commit", "restore"} => Cardinality(Readable(Request)) \in 1 .. BatchCap

Init ==
  /\ spool = <<>> /\ inflight = <<>>
  /\ pc = "serve"
  /\ cut = 0 /\ answer = NoAnswer /\ round = 0
  /\ late = <<>> /\ seen = [h \in Hubs |-> <<>>]
  /\ spooled = 0 /\ kills = 0
  /\ reported = {} /\ overtaken = {} /\ repeats = {} /\ lost = {} /\ retried = {}

\* Mutant: behind them.
WriteBackBehind(content) == spool' = spool \o content

\* writeBackAhead: in front of what was spooled since the claim.
WriteBackAhead(content) == spool' = content \o spool

-----------------------------------------------------------------------------
(***************************************************************************)
(* Crashing and booting                                                    *)
(***************************************************************************)

\* The process ends.  A request under way may still reach a Hub, and nothing in
\* flight was seen to succeed.
Ends ==
  /\ pc # "down"
  /\ pc' = "down"
  /\ cut' = 0 /\ answer' = NoAnswer /\ round' = 0
  /\ late' = IF pc = "await" /\ answer = NoAnswer THEN Request ELSE late
  /\ retried' = retried \cup FaultsIn(inflight)
  /\ UNCHANGED <<inflight, seen, reported, overtaken, repeats>>

Fault == kills < MaxKills /\ kills' = kills + 1

EndsSilently == Ends /\ Fault /\ UNCHANGED spooled

\* An uncaught exception: appendFaultToSpool writes the record unless the file
\* has reached its cap.
CrashSpooled ==
  /\ Ends
  /\ Len(spool) < SpoolCap
  /\ spooled < MaxFaults
  /\ spooled' = spooled + 1
  /\ spool' = Append(spool, spooled + 1)
  /\ lost' = lost \cup Swallowed(spool, <<spooled + 1>>)
  /\ UNCHANGED kills

\* The append is cut short.
CrashTorn ==
  /\ CrashesTear
  /\ EndsSilently
  /\ Len(spool) < SpoolCap
  /\ spool' = Append(spool, Torn)
  /\ UNCHANGED lost

\* The container is stopped, or the record finds the spool full.
Killed == EndsSilently /\ UNCHANGED <<spool, lost>>

\* writeFileSync truncates the spool before it writes it.
WriteBackIsCut ==
  /\ \/ pc = "commit" /\ Owed # <<>>
     \/ pc = "restore" /\ spool # <<>>
  /\ spool' = <<>>
  /\ lost' = lost \cup FaultsIn(spool)

KilledInWriteBack == CrashesTear /\ EndsSilently /\ WriteBackIsCut

\* The container is restarted while the worker serves.
Restart ==
  /\ pc = "serve"
  /\ pc' = "down"
  /\ cut' = 0 /\ answer' = NoAnswer /\ round' = 0
  /\ UNCHANGED <<fileVars, hubVars, spooled, kills, lost, retried>>

\* startWorker uploads before it opens its slots.
Boot ==
  /\ pc = "down"
  /\ pc' = "drain"
  /\ UNCHANGED <<fileVars, uploadVars, round, hubVars, spooled, kills, lost, retried>>

-----------------------------------------------------------------------------
(***************************************************************************)
(* The upload                                                              *)
(***************************************************************************)

\* Mutant: a new claim replaces what an earlier boot left in flight.
ClaimedAlways == spool # <<>>

\* drainSpool renames the spool aside only if no batch is owed from before.
ClaimsSpool == inflight = <<>>

\* drainSpool, and the test of what it returned: a file without records is
\* removed at once.
Drain ==
  /\ pc = "drain"
  /\ LET claim == IF ClaimsSpool THEN spool ELSE inflight
     IN  /\ spool' = IF ClaimsSpool THEN <<>> ELSE spool
         /\ inflight' = claim
         /\ cut' = Cut(claim)
         /\ pc' = CASE claim = <<>>                          -> "serve"
                    [] claim # <<>> /\ Readable(claim) = {}  -> "unlink"
                    [] OTHER                                 -> "await"
  /\ UNCHANGED <<answer, round, hubVars, spooled, kills, lost, retried>>

\* Its catch: the rename, or the read behind it, fails, and the worker serves.
DrainFails ==
  /\ pc = "drain"
  /\ pc' = "serve"
  /\ \/ UNCHANGED fileVars
     \/ ClaimsSpool /\ inflight' = spool /\ spool' = <<>>
  /\ cut' = 0
  /\ Fault
  /\ UNCHANGED <<answer, round, hubVars, spooled, lost, retried>>

Members(set) == {set[i] : i \in DOMAIN set}

\* Mutant: the dedupe set is never trimmed.
ClaimedUntrimmed(set, f) == IF f \in Members(set) THEN set ELSE Append(set, f)

\* claimFaultId: the oldest id goes when there are too many.
Claimed(set, f) ==
  IF f \in Members(set) THEN set
  ELSE IF Len(set) < SeenLimit THEN Append(set, f)
  ELSE Append(Tail(set), f)

\* The dedupe set after each line of a batch, and the lines found new.
SeenAfter(set, b) ==
  LET known[i \in 0 .. Len(b)] ==
        IF i = 0 THEN set
        ELSE IF i \in Readable(b) THEN Claimed(known[i - 1], b[i])
        ELSE known[i - 1]
  IN  known

Fresh(set, b) ==
  {i \in Readable(b) : b[i] \notin Members(SeenAfter(set, b)[i - 1])}

\* The faults not reported when a later one of the batch is, and those reported
\* again by it.
PassedOver(b, fresh) ==
  {g \in Faults \ reported :
     \E i \in fresh : g < b[i] /\ \A k \in fresh : k < i => b[k] # g}

SentAgain(b, fresh) ==
  {b[i] : i \in {k \in fresh : b[k] \in reported \/ \E m \in fresh : m < k /\ b[m] = b[k]}}

\* The route: the size cap, the schema, then each fault of the batch.
Rejects(b) == Cardinality(Readable(b)) > BodyCap \/ FaultsIn(b) \cap Malformed # {}

Ingest(h, b) ==
  IF Rejects(b) THEN UNCHANGED <<seen, reported, overtaken, repeats>>
  ELSE LET fresh == Fresh(seen[h], b)
       IN  /\ seen' = [seen EXCEPT ![h] = SeenAfter(seen[h], b)[Len(b)]]
           /\ reported' = reported \cup {b[i] : i \in fresh}
           /\ overtaken' = overtaken \cup PassedOver(b, fresh)
           /\ repeats' = repeats \cup SentAgain(b, fresh)

HubReads(h) ==
  /\ pc = "await"
  /\ answer = NoAnswer
  /\ Ingest(h, Request)
  /\ answer' = IF Rejects(Request) THEN "rejected" ELSE "accepted"
  /\ UNCHANGED <<fileVars, pc, cut, round, late, spooled, kills, lost, retried>>

\* 401, 404, 429 and 5xx: read by nobody.
HubRefuses ==
  /\ pc = "await"
  /\ answer = NoAnswer
  /\ answer' = "refused"
  /\ UNCHANGED <<fileVars, pc, cut, round, hubVars, spooled, kills, lost, retried>>

HubReadsLate(h) ==
  /\ late # <<>>
  /\ Ingest(h, late)
  /\ late' = <<>>
  /\ UNCHANGED <<fileVars, pc, uploadVars, round, spooled, kills, lost, retried>>

\* PERMANENTLY_REJECTED drops the batch, every other failure restores it.
Answered ==
  /\ pc = "await"
  /\ answer # NoAnswer
  /\ pc' = IF answer = "refused" THEN "restore" ELSE "commit"
  /\ lost' = IF answer = "rejected" THEN lost \cup FaultsIn(Request) ELSE lost
  /\ UNCHANGED <<fileVars, uploadVars, round, hubVars, spooled, kills, retried>>

\* The timeout, or a reply that does not arrive.
GivesUp ==
  /\ pc = "await"
  /\ pc' = "restore"
  /\ late' = IF answer = NoAnswer THEN Request ELSE late
  /\ answer' = NoAnswer
  /\ retried' = retried \cup FaultsIn(Request)
  /\ UNCHANGED <<fileVars, cut, round, seen, reported, overtaken, repeats, spooled, kills, lost>>

\* commitSpool, its write-back.
Commit ==
  /\ pc = "commit"
  /\ WriteBackAhead(Owed)
  /\ pc' = "unlink"
  /\ UNCHANGED <<inflight, uploadVars, round, hubVars, spooled, kills, lost, retried>>

\* restoreSpool: rename, or write back and remove; also in front of the empty
\* file that an interrupted write-back leaves.
Restore ==
  /\ pc = "restore"
  /\ WriteBackAhead(inflight)
  /\ lost' = lost \cup Swallowed(inflight, spool)
  /\ \/ /\ spool = <<>>
        /\ pc' = "serve" /\ inflight' = <<>> /\ cut' = 0 /\ answer' = NoAnswer
     \/ /\ spool # <<>> \/ CrashesTear
        /\ pc' = "unlink" /\ UNCHANGED <<inflight, uploadVars>>
  /\ UNCHANGED <<round, hubVars, spooled, kills, retried>>

\* The next batch follows an accepted one that left lines behind, up to
\* MAX_UPLOAD_BATCHES of them.
NextBatch ==
  /\ cut' = 0 /\ answer' = NoAnswer
  /\ round' = round + 1
  /\ pc' = IF answer = "accepted" /\ Owed # <<>> /\ round' < MaxBatches
           THEN "drain" ELSE "serve"

\* The in-flight copy goes.
Unlink ==
  /\ pc = "unlink"
  /\ inflight' = <<>>
  /\ NextBatch
  /\ UNCHANGED <<spool, hubVars, spooled, kills, lost, retried>>

\* The catches of commitSpool and restoreSpool: the write-back, the rename or the
\* removal fails, the in-flight copy stays, and the worker goes on all the same.
FileFails ==
  /\ pc \in {"commit", "restore", "unlink"}
  /\ WriteBackIsCut \/ UNCHANGED <<spool, lost>>
  /\ retried' = retried \cup FaultsIn(inflight)
  /\ NextBatch
  /\ Fault
  /\ UNCHANGED <<inflight, hubVars, spooled>>

Next ==
  \/ CrashSpooled \/ CrashTorn \/ Killed \/ KilledInWriteBack
  \/ Restart \/ Boot \/ Drain \/ HubRefuses \/ Answered \/ GivesUp
  \/ Commit \/ Restore \/ Unlink \/ DrainFails \/ FileFails
  \/ \E h \in Hubs : HubReads(h) \/ HubReadsLate(h)

Spec == Init /\ [][Next]_vars

\* The worker takes its steps and is started again and again, and an upload
\* that is tried for ever is read, and its answer seen, some time.
Fairness ==
  /\ WF_vars(Restart) /\ WF_vars(Boot) /\ WF_vars(Drain) /\ WF_vars(Answered)
  /\ WF_vars(Commit) /\ WF_vars(Restore) /\ WF_vars(Unlink)
  /\ SF_vars(\E h \in Hubs : HubReads(h))
  /\ SF_vars(Answered /\ answer # "refused")

FairSpec == Spec /\ Fairness

-----------------------------------------------------------------------------
(***************************************************************************)
(* Properties                                                              *)
(***************************************************************************)
Stored == FaultsIn(spool) \cup FaultsIn(inflight)

\* No spooled fault is forgotten, whatever the moment of a crash, a lost reply
\* or a late request: it is readable in one of the two files, or was reported,
\* or went with a batch the route rejects or with a torn write (the promise of
\* rename, commit and restore in lib/fault-spool.ts).
NothingForgotten ==
  \A f \in 1 .. spooled : f \in Stored \cup reported \cup lost

\* Faults are first reported in the order in which they happened, although
\* batches are written back, sent again and read late (writeBackAhead).  Only a
\* fault that was dropped, with a rejected batch or a torn write, is overtaken.
OldestFirst == overtaken \subseteq lost

\* A fault is reported twice only if the worker had not seen an upload of it
\* succeed before, or could not discard what it had uploaded: a lost reply, a
\* process that ended before the in-flight file was removed, a write-back or a
\* removal that failed (commit-on-success, lib/worker-fault-dedupe.ts:15-17).
RepeatsNeedAFault == repeats \subseteq retried

\* Every fault is reported in the end, or lost in one of those ways: no order of
\* failed uploads, restores and crashes keeps one in the files for ever.
EveryFaultReported ==
  \A f \in Faults : spooled >= f ~> (f \in reported \/ f \in lost)
=============================================================================
