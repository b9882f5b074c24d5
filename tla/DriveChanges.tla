---------------------------- MODULE DriveChanges ----------------------------
(***************************************************************************)
(* Keeping document_chunks in step with Drive: push notifications, the     *)
(* coalescing latch of each Hub instance and a pass over the changes since *)
(* the stored cursor (app/api/webhooks/google/route.ts); the renewal of    *)
(* the channel (renew/route.ts, lib/google/watch-channels.ts).             *)
(*                                                                         *)
(* A change of a file takes the next page token; changes.list since T      *)
(* gives each file whose newest change is later than T, as it is now.      *)
(***************************************************************************)
EXTENDS Naturals, FiniteSetsExt

CONSTANTS
  Files,
  Hubs,          \* instances of the Hub
  Renewals,      \* renewal requests that may be under way at once
  Chunks,        \* chunks of a document
  MaxChanges,    \* bound: changes of files
  MaxNotes,      \* bound: notifications under way
  MaxFaults,     \* bound: calls that fail, instances that end, messages lost
  Channels,      \* channel ids, used again when nothing names them
  NoChannel

ASSUME DriveAssumption ==
  /\ Chunks \in Nat \ {0} /\ {MaxChanges, MaxNotes, MaxFaults} \subseteq Nat
  /\ Cardinality(Channels) > Cardinality(Renewals) /\ NoChannel \notin Channels

VARIABLES
  now,       \* the start page token
  oldest,    \* the oldest page token Drive still serves
  drive,     \* drive[f]: the token of its newest change, whether it is there
  live,      \* the channels that deliver
  notes,     \* notifications under way
  row,       \* the webhook_channels row
  pass,      \* pass[h]: the changes pass of h
  queued,    \* queued[h]: changesRunQueued
  renew,     \* renew[r]: a renewal request
  faults,    \* those there were
  index,     \* index[f]: its chunks, each of a version
  tried,     \* ghost: the newest change of f a pass attempted
  gap,       \* ghost: a token up to which a reset or a first channel gave up
  unheard    \* ghost: a token up to which notifications came to nothing, and
             \* no pass has read the cursor since

source == <<now, oldest, drive>>
hub    == <<pass, queued>>
ghost  == <<tried, gap, unheard>>
vars   == <<source, live, notes, row, hub, renew, faults, index, ghost>>

NoRow     == [channel |-> NoChannel, token |-> 0, life |-> "none"]
NoPass    == [pc |-> "idle", token |-> 0, next |-> 0, todo |-> {},
              version |-> 0, chunk |-> 0, gaveUp |-> FALSE]
NoRenewal == [pc |-> "idle", old |-> NoChannel, channel |-> NoChannel, token |-> 0]

Tokens    == 0 .. MaxChanges
Version   == [at: Tokens, there: BOOLEAN]
Listed    == [file: Files, there: BOOLEAN, at: 1 .. MaxChanges]
ChannelId == Channels \cup {NoChannel}

RowType ==
  [channel: ChannelId, token: Tokens, life: {"none", "good", "due", "dead"}]

PassType ==
  [pc: {"idle", "row", "list", "file", "clear", "put", "save", "ending"},
   token: Tokens, next: Tokens,   \* the cursor it read, the one it will store
   todo: SUBSET Listed,           \* the listed changes not yet through
   version: Tokens, chunk: 0 .. Chunks,
   gaveUp: BOOLEAN]

RenewalType ==
  [pc: {"idle", "start", "watch", "save", "stop"},
   old: ChannelId, channel: ChannelId, token: Tokens]

DriveTypeOK ==
  /\ now \in Tokens /\ oldest \in 0 .. now
  /\ drive \in [Files -> Version]
  /\ live \in SUBSET Channels /\ notes \in 0 .. MaxNotes
  /\ row \in RowType
  /\ pass \in [Hubs -> PassType] /\ queued \in [Hubs -> BOOLEAN]
  /\ renew \in [Renewals -> RenewalType]
  /\ faults \in 0 .. MaxFaults
  /\ index \in [Files -> SUBSET (Tokens \X (1 .. Chunks))]
  /\ tried \in [Files -> Tokens] /\ gap \in 0 .. now /\ unheard \in 0 .. now
  /\ \A f \in Files : tried[f] <= drive[f].at /\ drive[f].at <= now

Init ==
  /\ now = 0 /\ oldest = 0
  /\ drive = [f \in Files |-> [at |-> 0, there |-> TRUE]]
  /\ live = {} /\ notes = 0
  /\ row = NoRow
  /\ pass = [h \in Hubs |-> NoPass]
  /\ queued = [h \in Hubs |-> FALSE]
  /\ renew = [r \in Renewals |-> NoRenewal]
  /\ faults = 0
  /\ index = [f \in Files |-> {}]
  /\ tried = [f \in Files |-> 0]
  /\ gap = 0 /\ unheard = 0

Fault == faults < MaxFaults /\ faults' = faults + 1

\* A notification is gone and nothing will come of it.
Dropped == unheard' = now

-----------------------------------------------------------------------------
(***************************************************************************)
(* Notifications and the latch (POST, processChangesQueue)                 *)
(***************************************************************************)
\* POST for a changes channel; a run is told to go round again.
Deliver(h) ==
  /\ notes > 0
  /\ notes' = notes - 1
  /\ IF pass[h].pc = "idle"
     THEN /\ pass' = [pass EXCEPT ![h].pc = "row"]
          /\ queued' = [queued EXCEPT ![h] = FALSE]
     ELSE /\ queued' = [queued EXCEPT ![h] = TRUE]
          /\ pass' = pass
  /\ UNCHANGED <<source, faults, live, row, renew, index, ghost>>

\* Mutant: the latch does not go round for what is queued.
AgainNever(h) == [NoPass EXCEPT !.pc = "ending"]

\* Where a pass that returned goes on: the loop of the latch.
Again(h) == IF queued[h] THEN [NoPass EXCEPT !.pc = "row"] ELSE [NoPass EXCEPT !.pc = "ending"]
PassReturns(h) ==
  /\ pass' = [pass EXCEPT ![h] = Again(h)]
  /\ queued' = [queued EXCEPT ![h] = FALSE]

\* The latch opens in the finally, some microtasks after the loop looked at
\* queued, or after a pass threw; the flag stays up and nobody acts on it.
Unlatch(h) ==
  /\ pass[h].pc = "ending"
  /\ pass' = [pass EXCEPT ![h] = NoPass]
  /\ IF queued[h] THEN Dropped ELSE unheard' = unheard
  /\ UNCHANGED <<source, faults, live, notes, row, queued, renew, index, tried, gap>>

-----------------------------------------------------------------------------
(***************************************************************************)
(* A pass (processChanges)                                                 *)
(***************************************************************************)
\* Without a row there is no cursor to start from.
ReadRow(h) ==
  /\ pass[h].pc = "row"
  /\ IF row = NoRow THEN PassReturns(h) /\ Dropped
     ELSE /\ pass' = [pass EXCEPT ![h] = [NoPass EXCEPT !.pc = "list", !.token = row.token]]
          /\ unheard' = 0
          /\ queued' = queued
  /\ UNCHANGED <<source, faults, live, notes, row, renew, index, tried, gap>>

ChangesSince(token) ==
  {[file |-> f, there |-> drive[f].there, at |-> drive[f].at] :
     f \in {d \in Files : drive[d].at > token}}

Fetched(token) ==
  IF token < oldest
  THEN [NoPass EXCEPT !.pc = "save", !.next = now, !.gaveUp = TRUE]
  ELSE [NoPass EXCEPT !.pc = "file", !.next = now, !.todo = ChangesSince(token)]

\* listChanges; a cursor too old for Drive is reset to now, unread.
List(h) ==
  /\ pass[h].pc = "list"
  /\ pass' = [pass EXCEPT ![h] = Fetched(pass[h].token)]
  /\ UNCHANGED <<source, faults, live, notes, row, queued, renew, index, ghost>>

\* Changes come in the order in which they were made.
Change(h) == CHOOSE c \in pass[h].todo : \A d \in pass[h].todo : c.at <= d.at
File(h) == Change(h).file
NextFile(h) == [pass[h] EXCEPT !.pc = "file", !.todo = @ \ {Change(h)}, !.version = 0, !.chunk = 0]
NextChunk(h) == [pass[h] EXCEPT !.chunk = @ + 1]
AtFile(h) == pass[h].pc = "file" /\ pass[h].todo # {}

Tried(h, at) == tried' = [tried EXCEPT ![File(h)] = Max({@, at})]

\* deleteChunksForFile, for a file removed or trashed when it was listed.
DeleteChunks(h) ==
  /\ AtFile(h)
  /\ ~Change(h).there
  /\ index' = [index EXCEPT ![File(h)] = {}]
  /\ Tried(h, Change(h).at)
  /\ pass' = [pass EXCEPT ![h] = NextFile(h)]
  /\ UNCHANGED <<source, faults, live, notes, row, queued, renew, gap, unheard>>

\* ingestDriveFile reads the file as it is now, ...
ReadFile(h) ==
  /\ AtFile(h)
  /\ Change(h).there
  /\ Tried(h, drive[File(h)].at)
  /\ pass' = [pass EXCEPT ![h] =
       [@ EXCEPT !.pc = "clear", !.version = drive[File(h)].at, !.chunk = 1]]
  /\ UNCHANGED <<source, faults, live, notes, row, queued, renew, index, gap, unheard>>

\* ... ingestDocument clears the old chunks, which may fail, ...
Clear(h, ok) ==
  /\ pass[h].pc = "clear"
  /\ index' = IF ok THEN [index EXCEPT ![File(h)] = {}] ELSE index
  /\ pass' = [pass EXCEPT ![h].pc = "put"]
  /\ IF ok THEN faults' = faults ELSE Fault
  /\ UNCHANGED <<source, live, notes, row, queued, renew, ghost>>

\* Mutant: the loop over the chunks goes one too far.
LastChunkOffByOne(h) == pass[h].chunk > Chunks

LastChunk(h) == pass[h].chunk = Chunks

\* ... and inserts the new ones.
PutChunk(h) ==
  /\ pass[h].pc = "put"
  /\ index' = [index EXCEPT ![File(h)] = @ \cup {<<pass[h].version, pass[h].chunk>>}]
  /\ pass' = [pass EXCEPT ![h] =
       IF LastChunk(h) THEN NextFile(h) ELSE NextChunk(h)]
  /\ UNCHANGED <<source, faults, live, notes, row, queued, renew, ghost>>

\* A change that fails does not hold up the others.
ChangeFails(h) ==
  /\ AtFile(h) \/ pass[h].pc \in {"clear", "put"}
  /\ Tried(h, Change(h).at)
  /\ pass' = [pass EXCEPT ![h] = NextFile(h)]
  /\ Fault
  /\ UNCHANGED <<source, live, notes, row, queued, renew, index, gap, unheard>>

\* Mutant: the cursor is stored before the changes are attempted.
AttemptedAtOnce(h) == pass[h].pc = "file"

Attempted(h) == pass[h].pc = "file" /\ pass[h].todo = {}

\* updatePageToken, after the whole batch or for a reset.
Save(h) ==
  /\ Attempted(h) \/ pass[h].pc = "save"
  /\ row' = [row EXCEPT !.token = pass[h].next]
  /\ gap' = IF pass[h].gaveUp THEN Max({gap, pass[h].next}) ELSE gap
  /\ PassReturns(h)
  /\ UNCHANGED <<source, faults, live, notes, renew, index, tried, unheard>>

\* The token, the database or changes.list fails: the pass throws, and what is
\* queued stays so.
PassThrows(h) ==
  /\ pass[h].pc \in {"row", "list", "save"} \/ Attempted(h)
  /\ pass' = [pass EXCEPT ![h] = [NoPass EXCEPT !.pc = "ending"]]
  /\ Fault /\ Dropped
  /\ UNCHANGED <<source, live, notes, row, queued, renew, index, tried, gap>>

\* The instance ends; the notification was answered when it came.
HubDies(h) ==
  /\ pass[h].pc # "idle"
  /\ pass' = [pass EXCEPT ![h] = NoPass]
  /\ queued' = [queued EXCEPT ![h] = FALSE]
  /\ Fault /\ Dropped
  /\ UNCHANGED <<source, live, notes, row, renew, index, tried, gap>>

-----------------------------------------------------------------------------
(***************************************************************************)
(* Renewal (POST of renew/route.ts)                                        *)
(***************************************************************************)
RenewalOver(r) == renew' = [renew EXCEPT ![r] = NoRenewal]

\* planChannelAction; a healthy channel ends it, and changes nothing.
NeedsRenewal == row.life # "good"

RenewReads(r) ==
  /\ renew[r].pc = "idle"
  /\ NeedsRenewal
  /\ renew' = [renew EXCEPT ![r] =
       [pc |-> IF row = NoRow THEN "start" ELSE "watch",
        old |-> row.channel, channel |-> NoChannel, token |-> row.token]]
  /\ UNCHANGED <<source, faults, live, notes, row, hub, index, ghost>>

\* fetchStartPageToken, for a first channel.
FetchToken(r) ==
  /\ renew[r].pc = "start"
  /\ renew' = [renew EXCEPT ![r].pc = "watch", ![r].token = now]
  /\ UNCHANGED <<source, faults, live, notes, row, hub, index, ghost>>

Unnamed == {c \in Channels \ live : /\ c # row.channel
                                   /\ \A r \in Renewals : c \notin {renew[r].old, renew[r].channel}}

\* watchChanges; when the answer is lost the channel delivers all the same.
Watch(r, heard) ==
  /\ renew[r].pc = "watch"
  /\ \E c \in Unnamed :
       /\ live' = live \cup {c}
       /\ renew' = [renew EXCEPT ![r] = IF heard THEN [@ EXCEPT !.pc = "save", !.channel = c]
                                       ELSE NoRenewal]
  /\ IF heard THEN faults' = faults ELSE Fault
  /\ UNCHANGED <<source, notes, row, hub, index, ghost>>

\* saveChannel
SaveChannel(r) ==
  /\ renew[r].pc = "save"
  /\ row' = [channel |-> renew[r].channel, token |-> renew[r].token, life |-> "good"]
  /\ gap' = IF renew[r].old = NoChannel THEN Max({gap, renew[r].token}) ELSE gap
  /\ renew' = [renew EXCEPT ![r] = IF @.old = NoChannel THEN NoRenewal ELSE [@ EXCEPT !.pc = "stop"]]
  /\ UNCHANGED <<source, faults, live, notes, hub, index, tried, unheard>>

\* stopChannel, which never throws.
StopOld(r, ok) ==
  /\ renew[r].pc = "stop"
  /\ live' = IF ok THEN live \ {renew[r].old} ELSE live
  /\ RenewalOver(r)
  /\ IF ok THEN faults' = faults ELSE Fault
  /\ UNCHANGED <<source, notes, row, hub, index, ghost>>

\* A call of Google or the database fails, or the instance ends.
RenewFails(r) ==
  /\ renew[r].pc # "idle"
  /\ RenewalOver(r)
  /\ Fault
  /\ UNCHANGED <<source, live, notes, row, hub, index, ghost>>

-----------------------------------------------------------------------------
(***************************************************************************)
(* Drive                                                                   *)
(***************************************************************************)
\* Repeated notifications beyond the bound say no more.
Notified == notes' = IF live = {} THEN notes ELSE Min({notes + 1, MaxNotes})

\* A file is edited, removed or put back.
Edit(f, there) ==
  /\ now < MaxChanges
  /\ now' = now + 1
  /\ drive' = [drive EXCEPT ![f] = [at |-> now + 1, there |-> there]]
  /\ Notified
  /\ unheard' = IF live = {} THEN now' ELSE unheard
  /\ UNCHANGED <<oldest, faults, live, row, hub, renew, index, tried, gap>>

\* Something no pass ingests changes (a folder).
Activity ==
  /\ notes < MaxNotes /\ live # {}
  /\ Notified
  /\ UNCHANGED <<source, faults, live, row, hub, renew, index, ghost>>

LoseNote ==
  /\ notes > 0
  /\ notes' = notes - 1
  /\ Fault /\ Dropped
  /\ UNCHANGED <<source, live, row, hub, renew, index, tried, gap>>

\* Drive serves a token no more.
Forget ==
  /\ oldest < now
  /\ oldest' = oldest + 1
  /\ UNCHANGED <<now, drive, faults, live, notes, row, hub, renew, index, ghost>>

\* The stored channel comes near its end, then ends.
Age ==
  /\ row.life \in {"good", "due"}
  /\ row' = [row EXCEPT !.life = IF @ = "good" THEN "due" ELSE "dead"]
  /\ live' = IF row.life = "due" THEN live \ {row.channel} ELSE live
  /\ UNCHANGED <<source, faults, notes, hub, renew, index, ghost>>

\* A channel nobody wrote down ends by itself.
OrphanEnds(c) ==
  /\ c \in live /\ c # row.channel
  /\ \A r \in Renewals : c # renew[r].channel
  /\ live' = live \ {c}
  /\ UNCHANGED <<source, faults, notes, row, hub, renew, index, ghost>>

-----------------------------------------------------------------------------
Pass(h) ==
  \/ ReadRow(h) \/ List(h) \/ DeleteChunks(h) \/ ReadFile(h)
  \/ \E ok \in BOOLEAN : Clear(h, ok)
  \/ PutChunk(h) \/ Save(h) \/ Unlatch(h)

Renewal(r) ==
  \/ RenewReads(r) \/ FetchToken(r) \/ SaveChannel(r)
  \/ \E heard \in BOOLEAN : Watch(r, heard)
  \/ \E ok \in BOOLEAN : StopOld(r, ok)

Next ==
  \/ \E h \in Hubs : Deliver(h) \/ Pass(h) \/ ChangeFails(h) \/ PassThrows(h) \/ HubDies(h)
  \/ \E r \in Renewals : Renewal(r) \/ RenewFails(r)
  \/ \E f \in Files, there \in BOOLEAN : Edit(f, there)
  \/ Activity \/ LoseNote \/ Forget \/ Age
  \/ \E c \in Channels : OrphanEnds(c)

Spec == Init /\ [][Next]_vars

\* A notification that is under way arrives, and a pass goes on.
Fairness ==
  /\ \A h \in Hubs : WF_vars(Pass(h))
  /\ WF_vars(\E h \in Hubs : Deliver(h))

FairSpec == Spec /\ Fairness

-----------------------------------------------------------------------------
\* A change the stored cursor has passed was attempted: passes of several
\* instances, the renewal that writes back the cursor it read and failures move
\* the cursor, never past a change nobody tried ("Advance the cursor only after
\* the whole batch was attempted", route.ts:218). Left out are the changes given
\* up on aloud: a cursor too old for Drive and a first channel start from now.
NothingSkipped ==
  \A f \in Files : 0 < drive[f].at /\ drive[f].at <= row.token
                  => tried[f] = drive[f].at \/ drive[f].at <= gap

\* The newest change of every file is attempted in the end, also one that was
\* notified in the middle of a pass ("covered by the queued pass", route.ts:150),
\* and also one whose own notification came to nothing, once a later one starts
\* a pass.  Left out is what nothing tells of: a change made while no channel
\* delivers or no cursor is stored, or whose notification was lost, died with
\* its instance or its pass, or fell to the opening latch, with no pass behind.
EveryChangeIsTried ==
  <>[](\A f \in Files : \/ tried[f] = drive[f].at
                        \/ drive[f].at <= gap
                        \/ drive[f].at <= unheard)

\* "A notification landing mid-run is covered by the queued pass" (route.ts:149):
\* a run does not come to its end with a notification queued.  It fails when the
\* pass throws: the loop is left and the flag stays up.
QueuedPassRuns ==
  [][\A h \in Hubs :
       pass[h].pc \notin {"idle", "ending"} /\ pass'[h].pc = "ending" => ~queued'[h]]_vars

\* "the ingest is idempotent per sourceUrl, so duplication is waste, not
\* corruption" (route.ts:147): with no pass under way, the chunks of a file are
\* of one version, when nothing failed or died.
OneVersionAtRest ==
  (\A h \in Hubs : pass[h].pc = "idle")
     => \A f \in Files : Cardinality({c[1] : c \in index[f]}) <= 1
=============================================================================
