------------------------- MODULE DriveChangesProofs -------------------------
(***************************************************************************)
(* Safety of DriveChanges for every set of files, any number of Hub        *)
(* instances and renewals, and any numbers of changes and faults.          *)
(*                                                                         *)
(* The cursor in the row has several writers: the pass that finished its   *)
(* batch, the pass that gave up on a cursor too old, and a renewal that    *)
(* writes back the one it read before.  NothingSkipped says nothing of     *)
(* what they hold while they are under way; PassInv and RenewalInv do.     *)
(***************************************************************************)
EXTENDS DriveChanges, WellFoundedInduction, TLAPS

\* The newest change of f, should it be no later than token, was attempted.
Covered(f, token) ==
  0 < drive[f].at /\ drive[f].at <= token => tried[f] = drive[f].at \/ drive[f].at <= gap

Pending(f, h) == \E c \in pass[h].todo : c.file = f /\ c.at = drive[f].at

AtWork == {"clear", "put"}

PassInv(h) ==
  /\ pass[h].token <= now /\ pass[h].next <= now
  /\ \A c \in pass[h].todo : c.at <= drive[c.file].at
  /\ pass[h].pc \in AtWork =>
       /\ pass[h].todo # {} /\ pass[h].chunk \in 1 .. Chunks
       /\ Covered(File(h), pass[h].next)
  /\ pass[h].pc = "list" => \A f \in Files : Covered(f, pass[h].token)
  /\ pass[h].pc \in {"file"} \cup AtWork =>
       \A f \in Files : Covered(f, pass[h].next) \/ Pending(f, h)
  /\ pass[h].pc = "save" => pass[h].gaveUp

\* A renewal holds the cursor it read, or starts a first channel.
RenewalInv(r) ==
  /\ renew[r].token <= now
  /\ renew[r].pc = "start" => renew[r].old = NoChannel
  /\ renew[r].old = NoChannel \/ \A f \in Files : Covered(f, renew[r].token)

CursorInv == row.token <= now /\ \A f \in Files : Covered(f, row.token)

ChangesInv ==
  /\ DriveTypeOK
  /\ CursorInv
  /\ \A h \in Hubs : PassInv(h)
  /\ \A r \in Renewals : RenewalInv(r)

-----------------------------------------------------------------------------
(***************************************************************************)
(* Least and greatest elements, and the change a pass is at                *)
(***************************************************************************)

LEMMA Bounds ==
  /\ Chunks \in Nat \ {0} /\ MaxChanges \in Nat /\ MaxNotes \in Nat /\ MaxFaults \in Nat
  /\ NoChannel \notin Channels
BY DriveAssumption

LEMMA MaxOfTwo ==
  ASSUME NEW m \in Nat, NEW n \in Nat
  PROVE  Max({m, n}) = IF m >= n THEN m ELSE n
<1>1. \E x \in {m, n} : \A y \in {m, n} : x >= y
  OBVIOUS
<1>2. \A x \in {m, n} : (\A y \in {m, n} : x >= y) => x = IF m >= n THEN m ELSE n
  OBVIOUS
<1> QED BY <1>1, <1>2 DEF Max

LEMMA MinOfTwo ==
  ASSUME NEW m \in Nat, NEW n \in Nat
  PROVE  Min({m, n}) \in {m, n} /\ Min({m, n}) <= n
<1>1. \E x \in {m, n} : \A y \in {m, n} : x =< y
  OBVIOUS
<1>2. Min({m, n}) \in {m, n} /\ \A y \in {m, n} : Min({m, n}) =< y
  BY <1>1 DEF Min
<1> QED BY <1>2

\* A pass that is not through has a first change.
LEMMA ChangeListed ==
  ASSUME DriveTypeOK, NEW h \in Hubs, pass[h].todo # {}
  PROVE  Change(h) \in pass[h].todo /\ Change(h) \in Listed /\ File(h) \in Files
<1>1. pass[h].todo \in SUBSET Listed
  BY DEF DriveTypeOK, PassType
<1>2. PICK S : S = {c.at : c \in pass[h].todo}
  OBVIOUS
<1>3. S \in SUBSET Nat /\ S # {}
  BY <1>1, <1>2, Bounds DEF Listed
<1>4. PICK m \in S : \A n \in S : ~(<<n, m>> \in OpToRel(<, Nat))
  BY <1>3, NatLessThanWellFounded, WFMin
<1>5. \A n \in S : m <= n
  <2>1. \A n \in S : n < m => <<n, m>> \in OpToRel(<, Nat)
    BY <1>3 DEF OpToRel
  <2>2. \A n \in S : ~(n < m)
    BY <1>4, <2>1
  <2> QED BY <1>3, <2>2
<1>6. PICK c \in pass[h].todo : \A d \in pass[h].todo : c.at <= d.at
  BY <1>2, <1>4, <1>5
<1>7. Change(h) \in pass[h].todo
  BY <1>6 DEF Change
<1> QED BY <1>1, <1>7 DEF File, Listed

-----------------------------------------------------------------------------
(***************************************************************************)
(* Types                                                                   *)
(***************************************************************************)

LEMMA NoPassType == NoPass \in PassType
BY Bounds DEF NoPass, PassType, Tokens

LEMMA NoRenewalType == NoRenewal \in RenewalType
BY Bounds DEF NoRenewal, RenewalType, ChannelId, Tokens

PassPlaces == {"idle", "row", "list", "file", "clear", "put", "save", "ending"}

\* The records a pass goes through.
LEMMA PassWrites ==
  ASSUME DriveTypeOK, NEW h \in Hubs
  PROVE  /\ Again(h) \in PassType
         /\ NextFile(h) \in PassType
         /\ Fetched(pass[h].token) \in PassType
         /\ \A pc \in PassPlaces : /\ [NoPass EXCEPT !.pc = pc] \in PassType
                                   /\ [pass[h] EXCEPT !.pc = pc] \in PassType
         /\ \A token \in Tokens : [NoPass EXCEPT !.pc = "list", !.token = token] \in PassType
<1>1. NoPass \in PassType /\ pass[h] \in PassType
  BY NoPassType DEF DriveTypeOK
<1>2. Again(h) \in PassType
  BY <1>1 DEF Again, PassType
<1>3. NextFile(h) \in PassType
  <2>1. PICK rest : rest = pass[h].todo \ {Change(h)}
    OBVIOUS
  <2>2. rest \in SUBSET Listed /\ 0 \in Tokens /\ 0 \in 0 .. Chunks
    BY <1>1, <2>1, Bounds DEF PassType, Tokens
  <2>3. NextFile(h) = [pass[h] EXCEPT !.pc = "file", !.todo = rest, !.version = 0, !.chunk = 0]
    BY <2>1 DEF NextFile
  <2> QED BY <1>1, <2>2, <2>3 DEF PassType
<1>4. Fetched(pass[h].token) \in PassType
  <2>1. now \in Tokens /\ pass[h].token \in Nat
    BY <1>1, Bounds DEF DriveTypeOK, PassType, Tokens
  <2>2. ChangesSince(pass[h].token) \in SUBSET Listed
    <3> SUFFICES ASSUME NEW f \in Files, drive[f].at > pass[h].token
                 PROVE  [file |-> f, there |-> drive[f].there, at |-> drive[f].at] \in Listed
      BY DEF ChangesSince
    <3>1. drive[f].at \in Tokens /\ drive[f].there \in BOOLEAN
      BY DEF DriveTypeOK, Version
    <3>2. drive[f].at \in 1 .. MaxChanges
      BY <2>1, <3>1, Bounds DEF Tokens
    <3> QED BY <3>1, <3>2 DEF Listed
  <2> QED BY <1>1, <2>1, <2>2 DEF Fetched, PassType
<1>5. \A pc \in PassPlaces : /\ [NoPass EXCEPT !.pc = pc] \in PassType
                             /\ [pass[h] EXCEPT !.pc = pc] \in PassType
  BY <1>1 DEF PassPlaces, PassType
<1>6. \A token \in Tokens : [NoPass EXCEPT !.pc = "list", !.token = token] \in PassType
  BY <1>1 DEF PassType
<1> QED BY <1>2, <1>3, <1>4, <1>5, <1>6

LEMMA PassUpdate ==
  ASSUME DriveTypeOK, NEW h \in Hubs, NEW v \in PassType, pass' = [pass EXCEPT ![h] = v]
  PROVE  /\ pass' \in [Hubs -> PassType] /\ pass'[h] = v
         /\ \A g \in Hubs : g # h => pass'[g] = pass[g]
BY DEF DriveTypeOK

LEMMA RenewUpdate ==
  ASSUME DriveTypeOK, NEW r \in Renewals, NEW v \in RenewalType,
         renew' = [renew EXCEPT ![r] = v]
  PROVE  /\ renew' \in [Renewals -> RenewalType] /\ renew'[r] = v
         /\ \A q \in Renewals : q # r => renew'[q] = renew[q]
BY DEF DriveTypeOK

HubStep(h) == Deliver(h) \/ Pass(h) \/ ChangeFails(h) \/ PassThrows(h) \/ HubDies(h)

LEMMA PassTypeStep ==
  ASSUME ChangesInv, NEW h \in Hubs, HubStep(h)
  PROVE  \E v \in PassType : pass' = [pass EXCEPT ![h] = v]
<1>1. DriveTypeOK /\ PassInv(h) /\ pass[h] \in PassType
  BY DEF ChangesInv, DriveTypeOK
<1>2. pass = [pass EXCEPT ![h] = pass[h]]
  BY <1>1 DEF DriveTypeOK
<1>3. "row" \in PassPlaces /\ "put" \in PassPlaces /\ "ending" \in PassPlaces
  BY DEF PassPlaces
<1>4. CASE Deliver(h)
  <2>1. [pass[h] EXCEPT !.pc = "row"] \in PassType
    BY <1>1, <1>3, PassWrites
  <2>2. pass' = [pass EXCEPT ![h] = [pass[h] EXCEPT !.pc = "row"]] \/ pass' = pass
    BY <1>4 DEF Deliver
  <2> QED BY <1>1, <1>2, <2>1, <2>2
<1>5. CASE ReadRow(h)
  <2>1. row.token \in Tokens
    BY <1>1 DEF DriveTypeOK, RowType
  <2> QED BY <1>1, <1>5, <2>1, PassWrites DEF ReadRow, PassReturns
<1>6. CASE List(h)
  BY <1>1, <1>6, PassWrites DEF List
<1>7. CASE DeleteChunks(h) \/ ChangeFails(h)
  BY <1>1, <1>7, PassWrites DEF DeleteChunks, ChangeFails
<1>8. CASE ReadFile(h)
  <2>1. PICK at : at = drive[File(h)].at
    OBVIOUS
  <2>2. at \in Tokens /\ 1 \in 0 .. Chunks
    BY <1>1, <1>8, <2>1, ChangeListed, Bounds DEF ReadFile, AtFile, DriveTypeOK, Version
  <2>3. [pass[h] EXCEPT !.pc = "clear", !.version = at, !.chunk = 1] \in PassType
    BY <1>1, <2>2 DEF PassType
  <2>4. pass' = [pass EXCEPT ![h] =
                  [pass[h] EXCEPT !.pc = "clear", !.version = at, !.chunk = 1]]
    BY <1>8, <2>1 DEF ReadFile
  <2> QED BY <2>3, <2>4
<1>9. ASSUME NEW ok \in BOOLEAN, Clear(h, ok) PROVE \E v \in PassType : pass' = [pass EXCEPT ![h] = v]
  <2>1. [pass[h] EXCEPT !.pc = "put"] \in PassType
    BY <1>1, <1>3, PassWrites
  <2>2. pass' = [pass EXCEPT ![h] = [pass[h] EXCEPT !.pc = "put"]]
    BY <1>9 DEF Clear
  <2> QED BY <2>1, <2>2
<1>10. CASE PutChunk(h)
  <2>1. CASE pass[h].chunk = Chunks
    <3>1. pass' = [pass EXCEPT ![h] = NextFile(h)]
      BY <1>10, <2>1 DEF PutChunk, LastChunk
    <3> QED BY <1>1, <3>1, PassWrites
  <2>2. CASE pass[h].chunk # Chunks
    <3>1. PICK n : n = pass[h].chunk + 1
      OBVIOUS
    <3>2. n \in 0 .. Chunks
      BY <1>1, <1>10, <2>2, <3>1, Bounds DEF PutChunk, PassInv, AtWork
    <3>3. NextChunk(h) = [pass[h] EXCEPT !.chunk = n]
      BY <3>1 DEF NextChunk
    <3>4. NextChunk(h) \in PassType
      BY <1>1, <3>2, <3>3 DEF PassType
    <3>5. pass' = [pass EXCEPT ![h] = NextChunk(h)]
      BY <1>10, <2>2 DEF PutChunk, LastChunk
    <3> QED BY <3>4, <3>5
  <2> QED BY <2>1, <2>2
<1>11. CASE Save(h)
  BY <1>1, <1>11, PassWrites DEF Save, PassReturns
<1>12. CASE PassThrows(h)
  BY <1>1, <1>3, <1>12, PassWrites DEF PassThrows
<1>13. CASE Unlatch(h) \/ HubDies(h)
  BY <1>13, NoPassType DEF Unlatch, HubDies
<1> QED BY <1>4, <1>5, <1>6, <1>7, <1>8, <1>9, <1>10, <1>11, <1>12, <1>13 DEF HubStep, Pass

RenewalStep(r) == Renewal(r) \/ RenewFails(r)

LEMMA RenewTypeStep ==
  ASSUME DriveTypeOK, NEW r \in Renewals, RenewalStep(r)
  PROVE  \E v \in RenewalType : renew' = [renew EXCEPT ![r] = v]
<1>1. renew[r] \in RenewalType /\ row \in RowType /\ now \in Tokens
  BY DEF DriveTypeOK
<1>2. CASE RenewReads(r)
  <2>1. PICK pc : pc = IF row = NoRow THEN "start" ELSE "watch"
    OBVIOUS
  <2>2. [pc |-> pc, old |-> row.channel, channel |-> NoChannel, token |-> row.token]
          \in RenewalType
    BY <1>1, <2>1 DEF RowType, RenewalType, ChannelId
  <2> QED BY <1>2, <2>1, <2>2 DEF RenewReads
<1>3. CASE FetchToken(r)
  <2>1. [renew[r] EXCEPT !.pc = "watch", !.token = now] \in RenewalType
    BY <1>1 DEF RenewalType
  <2>2. renew' = [renew EXCEPT ![r] = [renew[r] EXCEPT !.pc = "watch", !.token = now]]
    BY <1>3 DEF FetchToken
  <2> QED BY <2>1, <2>2
<1>4. ASSUME NEW heard \in BOOLEAN, Watch(r, heard)
      PROVE  \E v \in RenewalType : renew' = [renew EXCEPT ![r] = v]
  <2>1. PICK c \in Unnamed : renew' = [renew EXCEPT ![r] =
          IF heard THEN [renew[r] EXCEPT !.pc = "save", !.channel = c] ELSE NoRenewal]
    BY <1>4 DEF Watch
  <2>2. [renew[r] EXCEPT !.pc = "save", !.channel = c] \in RenewalType
    BY <1>1 DEF RenewalType, ChannelId, Unnamed
  <2> QED BY <2>1, <2>2, NoRenewalType
<1>5. CASE SaveChannel(r)
  <2>1. [renew[r] EXCEPT !.pc = "stop"] \in RenewalType
    BY <1>1 DEF RenewalType
  <2>2. renew' = [renew EXCEPT ![r] = IF renew[r].old = NoChannel THEN NoRenewal
                                      ELSE [renew[r] EXCEPT !.pc = "stop"]]
    BY <1>5 DEF SaveChannel
  <2> QED BY <2>1, <2>2, NoRenewalType
<1>6. CASE (\E ok \in BOOLEAN : StopOld(r, ok)) \/ RenewFails(r)
  BY <1>6, NoRenewalType DEF StopOld, RenewFails, RenewalOver
<1> QED BY <1>2, <1>3, <1>4, <1>5, <1>6 DEF RenewalStep, Renewal

\* No step takes back a change, an attempt or what was given up on, and a change
\* is later than every token there was.
Steady ==
  /\ now <= now' /\ gap <= gap'
  /\ \A f \in Files : /\ tried[f] <= tried'[f]
                      /\ drive'[f] = drive[f] \/ drive'[f].at > now

LEMMA TriedIs ==
  ASSUME ChangesInv, NEW h \in Hubs, pass[h].todo # {},
         NEW at \in Tokens, at <= drive[File(h)].at, Tried(h, at)
  PROVE  /\ tried' \in [Files -> Tokens]
         /\ \A f \in Files : tried[f] <= tried'[f] /\ tried'[f] <= drive[f].at
         /\ tried'[File(h)] >= at
<1>1. DriveTypeOK /\ File(h) \in Files /\ tried[File(h)] \in Tokens
  BY ChangeListed DEF ChangesInv, DriveTypeOK
<1>2. /\ \A f \in Files : /\ tried[f] \in Nat /\ drive[f].at \in Nat
                          /\ tried[f] <= drive[f].at
      /\ at \in Nat
  BY <1>1, Bounds DEF DriveTypeOK, Tokens, Version
<1>3. PICK m : m = Max({tried[File(h)], at})
  OBVIOUS
<1>4. m \in {tried[File(h)], at} /\ m >= at /\ m >= tried[File(h)]
  BY <1>1, <1>2, <1>3, MaxOfTwo
<1>5. tried' = [tried EXCEPT ![File(h)] = m]
  BY <1>3 DEF Tried
<1>6. tried' \in [Files -> Tokens]
  BY <1>1, <1>4, <1>5 DEF DriveTypeOK
<1>7. tried'[File(h)] = m /\ \A f \in Files : f # File(h) => tried'[f] = tried[f]
  BY <1>1, <1>5 DEF DriveTypeOK
<1> QED BY <1>1, <1>2, <1>4, <1>6, <1>7

\* The change a pass is at is no later than the newest one of its file.
LEMMA ChangeBounds ==
  ASSUME ChangesInv, NEW h \in Hubs, pass[h].todo # {}
  PROVE  /\ Change(h).at \in Tokens /\ Change(h).at <= drive[File(h)].at
         /\ drive[File(h)].at \in Tokens /\ drive[File(h)].at <= drive[File(h)].at
<1>1. DriveTypeOK /\ PassInv(h)
  BY DEF ChangesInv
<1>2. Change(h) \in pass[h].todo /\ Change(h) \in Listed /\ File(h) \in Files
  BY <1>1, ChangeListed
<1> QED BY <1>1, <1>2, Bounds DEF PassInv, Listed, Tokens, File, DriveTypeOK, Version

\* What the passes do to the cursor, the index and the record of attempts.
LEMMA HubEffects ==
  ASSUME ChangesInv, NEW h \in Hubs, HubStep(h)
  PROVE  /\ index' \in [Files -> SUBSET (Tokens \X (1 .. Chunks))]
         /\ tried' \in [Files -> Tokens]
         /\ \A f \in Files : tried[f] <= tried'[f] /\ tried'[f] <= drive[f].at
         /\ row' \in RowType /\ gap' \in 0 .. now /\ gap <= gap'
         /\ notes' \in 0 .. MaxNotes /\ faults' \in 0 .. MaxFaults
         /\ queued' \in [Hubs -> BOOLEAN]
         /\ UNCHANGED <<source, live, renew>>
<1>1. DriveTypeOK /\ PassInv(h) /\ pass[h] \in PassType
  BY DEF ChangesInv, DriveTypeOK
<1>2. pass[h].todo # {} => Change(h) \in Listed /\ File(h) \in Files
  BY <1>1, ChangeListed
<1>3. index' \in [Files -> SUBSET (Tokens \X (1 .. Chunks))]
  <2>1. CASE PutChunk(h)
    <3>1. <<pass[h].version, pass[h].chunk>> \in Tokens \X (1 .. Chunks) /\ File(h) \in Files
      BY <1>1, <1>2, <2>1 DEF PutChunk, PassInv, AtWork, PassType
    <3>2. index' = [index EXCEPT ![File(h)] =
                      index[File(h)] \cup {<<pass[h].version, pass[h].chunk>>}]
      BY <2>1 DEF PutChunk
    <3> QED BY <1>1, <3>1, <3>2 DEF DriveTypeOK
  <2>2. CASE index' = index \/ index' = [index EXCEPT ![File(h)] = {}]
    BY <1>1, <2>2 DEF DriveTypeOK
  <2> QED BY <2>1, <2>2
          DEF HubStep, Pass, Deliver, ReadRow, List, DeleteChunks, ReadFile, Clear, Save,
              Unlatch, ChangeFails, PassThrows, HubDies
<1>4. /\ tried' \in [Files -> Tokens]
      /\ \A f \in Files : tried[f] <= tried'[f] /\ tried'[f] <= drive[f].at
  <2>1. CASE tried' = tried
    <3>1. \A f \in Files : tried[f] \in Nat /\ tried[f] <= drive[f].at
      BY <1>1, Bounds DEF DriveTypeOK, Tokens
    <3> QED BY <1>1, <2>1, <3>1 DEF DriveTypeOK
  <2>2. CASE /\ pass[h].todo # {}
             /\ Tried(h, Change(h).at) \/ Tried(h, drive[File(h)].at)
    BY <2>2, TriedIs, ChangeBounds
  <2>3. ~(tried' = tried) => DeleteChunks(h) \/ ReadFile(h) \/ ChangeFails(h)
    BY DEF HubStep, Pass, Deliver, ReadRow, List, Clear, PutChunk, Save, Unlatch, PassThrows,
           HubDies, ghost
  <2>4. DeleteChunks(h) \/ ReadFile(h) \/ ChangeFails(h) =>
          /\ pass[h].todo # {}
          /\ Tried(h, Change(h).at) \/ Tried(h, drive[File(h)].at)
    BY <1>1 DEF DeleteChunks, ReadFile, ChangeFails, AtFile, PassInv, AtWork
  <2> QED BY <2>1, <2>2, <2>3, <2>4
<1>5. row' \in RowType /\ gap' \in 0 .. now /\ gap <= gap'
  <2>1. gap \in Nat /\ gap <= now /\ now \in Nat
    BY <1>1, Bounds DEF DriveTypeOK, Tokens
  <2>2. CASE Save(h)
    <3>1. pass[h].next \in Tokens /\ pass[h].next \in Nat /\ pass[h].next <= now
      BY <1>1, Bounds DEF PassInv, PassType, Tokens
    <3>2. row' \in RowType
      BY <1>1, <2>2, <3>1 DEF Save, DriveTypeOK, RowType
    <3>3. gap' = gap \/ gap' = Max({gap, pass[h].next})
      BY <2>2 DEF Save
    <3> QED BY <2>1, <3>1, <3>2, <3>3, MaxOfTwo
  <2>3. CASE UNCHANGED <<row, gap>>
    BY <1>1, <2>1, <2>3 DEF DriveTypeOK
  <2> QED BY <2>2, <2>3
          DEF HubStep, Pass, Deliver, ReadRow, List, DeleteChunks, ReadFile, Clear, PutChunk,
              Unlatch, ChangeFails, PassThrows, HubDies, ghost
<1>6. notes' \in 0 .. MaxNotes /\ faults' \in 0 .. MaxFaults
  <2>1. notes' = notes \/ (notes > 0 /\ notes' = notes - 1)
    BY DEF HubStep, Pass, Deliver, ReadRow, List, DeleteChunks, ReadFile, Clear, PutChunk,
           Save, Unlatch, ChangeFails, PassThrows, HubDies
  <2>2. faults' = faults \/ (faults < MaxFaults /\ faults' = faults + 1)
    BY DEF HubStep, Pass, Deliver, ReadRow, List, DeleteChunks, ReadFile, Clear, PutChunk,
           Save, Unlatch, ChangeFails, PassThrows, HubDies, Fault
  <2> QED BY <1>1, <2>1, <2>2, Bounds DEF DriveTypeOK
<1>7. queued' \in [Hubs -> BOOLEAN] /\ UNCHANGED <<source, live, renew>>
  BY <1>1
  DEF DriveTypeOK, HubStep, Pass, Deliver, ReadRow, List, DeleteChunks, ReadFile, Clear,
      PutChunk, Save, Unlatch, ChangeFails, PassThrows, HubDies, PassReturns
<1> QED BY <1>3, <1>4, <1>5, <1>6, <1>7

\* The record of notifications that came to nothing reaches no further than the
\* changes there were.
LEMMA UnheardBounded ==
  ASSUME DriveTypeOK, Next
  PROVE  unheard' \in 0 .. now'
<1>1. now \in Nat /\ unheard \in 0 .. now
  BY Bounds DEF DriveTypeOK, Tokens
<1>2. ASSUME NEW h \in Hubs,
             Deliver(h) \/ Pass(h) \/ ChangeFails(h) \/ PassThrows(h) \/ HubDies(h)
      PROVE  now' = now /\ unheard' \in {0, now, unheard}
  <2>1. now' = now
    BY <1>2 DEF Deliver, Pass, ReadRow, List, DeleteChunks, ReadFile, Clear, PutChunk, Save,
                Unlatch, ChangeFails, PassThrows, HubDies, source
  <2>2. unheard' \in {0, now, unheard}
    BY <1>2 DEF Deliver, Pass, ReadRow, List, DeleteChunks, ReadFile, Clear, PutChunk, Save,
                Unlatch, ChangeFails, PassThrows, HubDies, Dropped, ghost
  <2> QED BY <2>1, <2>2
<1>3. ASSUME NEW r \in Renewals, Renewal(r) \/ RenewFails(r)
      PROVE  now' = now /\ unheard' = unheard
  BY <1>3 DEF Renewal, RenewReads, FetchToken, Watch, SaveChannel, StopOld, RenewFails,
              source, ghost
<1>4. ASSUME NEW f \in Files, NEW there \in BOOLEAN, Edit(f, there)
      PROVE  unheard' \in 0 .. now'
  <2>1. now' = now + 1 /\ unheard' \in {now', unheard}
    BY <1>4 DEF Edit
  <2> QED BY <1>1, <2>1
<1>5. CASE Activity \/ LoseNote \/ Forget \/ Age \/ \E c \in Channels : OrphanEnds(c)
  BY <1>1, <1>5 DEF Activity, LoseNote, Forget, Age, OrphanEnds, Dropped, source, ghost
<1> QED BY <1>1, <1>2, <1>3, <1>4, <1>5 DEF Next

LEMMA DriveTypeStep ==
  ASSUME ChangesInv, Next
  PROVE  DriveTypeOK' /\ Steady
<1>0. unheard' \in 0 .. now'
  BY UnheardBounded DEF ChangesInv
<1>1. DriveTypeOK /\ now \in Nat /\ gap \in Nat /\ gap <= now
  BY Bounds DEF ChangesInv, DriveTypeOK, Tokens
<1>2. \A f \in Files : /\ tried[f] \in Nat /\ drive[f].at \in Nat
                       /\ tried[f] <= drive[f].at /\ drive[f].at <= now
  BY <1>1, Bounds DEF DriveTypeOK, Tokens, Version
<1>3. Fault => faults' \in 0 .. MaxFaults
  BY <1>1, Bounds DEF Fault, DriveTypeOK
<1>4. Notified => notes' \in 0 .. MaxNotes
  <2>1. notes \in Nat /\ notes + 1 \in Nat /\ MaxNotes \in Nat
    BY <1>1, Bounds DEF DriveTypeOK
  <2> QED BY <1>1, <2>1, MinOfTwo DEF Notified, DriveTypeOK
<1>5. ASSUME NEW h \in Hubs, HubStep(h) PROVE DriveTypeOK' /\ Steady
  <2>1. pass' \in [Hubs -> PassType]
    BY <1>1, <1>5, PassTypeStep, PassUpdate
  <2>2. UNCHANGED <<now, oldest, drive, live, renew>>
    BY <1>5, HubEffects DEF source
  <2>3. DriveTypeOK'
    BY <1>0, <1>1, <1>2, <1>5, <2>1, <2>2, HubEffects DEF DriveTypeOK
  <2>4. Steady
    BY <1>1, <1>2, <1>5, <2>2, HubEffects DEF Steady
  <2> QED BY <2>3, <2>4
<1>6. ASSUME UNCHANGED <<source, tried>>, gap' \in 0 .. now, gap <= gap',
             live' \in SUBSET Channels, notes' \in 0 .. MaxNotes, row' \in RowType,
             UNCHANGED <<pass, queued, index>>, renew' \in [Renewals -> RenewalType],
             faults' \in 0 .. MaxFaults
      PROVE  DriveTypeOK' /\ Steady
  BY <1>0, <1>1, <1>2, <1>6 DEF source, DriveTypeOK, Steady
<1>7. gap \in 0 .. now /\ gap <= gap
  BY <1>1
<1>8. ASSUME NEW r \in Renewals, RenewalStep(r) PROVE DriveTypeOK' /\ Steady
  <2>1. renew' \in [Renewals -> RenewalType]
    BY <1>1, <1>8, RenewTypeStep, RenewUpdate
  <2>2. UNCHANGED <<source, tried, notes, pass, queued, index>>
    BY <1>8 DEF RenewalStep, Renewal, RenewReads, FetchToken, Watch, SaveChannel, StopOld,
                RenewFails, hub, ghost
  <2>3. live' \in SUBSET Channels
    <3>1. ASSUME NEW heard \in BOOLEAN, Watch(r, heard)
          PROVE  \E c \in Channels : live' = live \cup {c}
      BY <3>1 DEF Watch, Unnamed
    <3>2. \/ live' \subseteq live
          \/ \E heard \in BOOLEAN : Watch(r, heard)
      BY <1>8 DEF RenewalStep, Renewal, RenewReads, FetchToken, SaveChannel, StopOld, RenewFails
    <3> QED BY <1>1, <3>1, <3>2 DEF DriveTypeOK
  <2>4. faults' = faults \/ Fault
    BY <1>8 DEF RenewalStep, Renewal, RenewReads, FetchToken, Watch, SaveChannel, StopOld,
                RenewFails
  <2>5. row' \in RowType /\ gap' \in 0 .. now /\ gap <= gap'
    <3>1. renew[r] \in RenewalType /\ renew[r].token \in Nat /\ renew[r].token <= now
      BY <1>1, Bounds DEF ChangesInv, RenewalInv, DriveTypeOK, RenewalType, Tokens
    <3>2. CASE SaveChannel(r)
      <4>1. row' \in RowType
        BY <3>1, <3>2 DEF SaveChannel, RowType, RenewalType
      <4>2. gap' = gap \/ gap' = Max({gap, renew[r].token})
        BY <3>2 DEF SaveChannel
      <4> QED BY <1>1, <3>1, <4>1, <4>2, MaxOfTwo
    <3>3. CASE UNCHANGED <<row, gap>>
      BY <1>1, <1>7, <3>3 DEF DriveTypeOK
    <3> QED BY <1>8, <3>2, <3>3 DEF RenewalStep, Renewal, RenewReads, FetchToken, Watch,
                                    StopOld, RenewFails, ghost
  <2>6. notes' \in 0 .. MaxNotes /\ faults' \in 0 .. MaxFaults
    BY <1>1, <1>3, <2>2, <2>4 DEF DriveTypeOK
  <2> QED BY <1>6, <2>1, <2>2, <2>3, <2>5, <2>6
<1>9. ASSUME NEW f \in Files, NEW there \in BOOLEAN, Edit(f, there) PROVE DriveTypeOK' /\ Steady
  <2>1. PICK at : at = now + 1
    OBVIOUS
  <2>2. at \in Tokens /\ at \in Nat /\ at > now /\ now' = at
    BY <1>1, <1>9, <2>1, Bounds DEF Edit, Tokens, DriveTypeOK
  <2>3. drive' = [drive EXCEPT ![f] = [at |-> at, there |-> there]]
    BY <1>9, <2>1 DEF Edit
  <2>4. [at |-> at, there |-> there] \in Version
    BY <2>2 DEF Version
  <2>5. /\ drive' \in [Files -> Version] /\ drive'[f].at = at
        /\ \A e \in Files : e # f => drive'[e] = drive[e]
    BY <1>1, <2>3, <2>4 DEF DriveTypeOK
  <2>6. notes' \in 0 .. MaxNotes
           /\ UNCHANGED <<oldest, live, row, pass, queued, renew, faults, index, tried, gap>>
    BY <1>4, <1>9 DEF Edit, hub, ghost
  <2>7. \A e \in Files : tried[e] <= drive'[e].at /\ drive'[e].at <= at
    <3> SUFFICES ASSUME NEW e \in Files PROVE tried[e] <= drive'[e].at /\ drive'[e].at <= at
      OBVIOUS
    <3>1. tried[e] <= now /\ now <= at
      BY <1>1, <1>2, <2>2
    <3> QED BY <1>1, <1>2, <2>2, <2>5, <3>1
  <2>8. oldest \in 0 .. at /\ gap \in 0 .. at
    BY <1>1, <2>2, Bounds DEF DriveTypeOK, Tokens
  <2>9. DriveTypeOK'
    BY <1>0, <1>1, <2>2, <2>5, <2>6, <2>7, <2>8 DEF DriveTypeOK
  <2>10. Steady
    BY <1>1, <1>2, <2>2, <2>5, <2>6 DEF Steady
  <2> QED BY <2>9, <2>10
<1>10. CASE Activity \/ LoseNote \/ \E c \in Channels : OrphanEnds(c)
  <2>1. /\ UNCHANGED <<source, tried, gap, row, pass, queued, index, renew>>
        /\ live' \in SUBSET Channels
    BY <1>1, <1>10 DEF Activity, LoseNote, OrphanEnds, hub, ghost, DriveTypeOK
  <2>2. notes' = notes \/ Notified \/ (notes > 0 /\ notes' = notes - 1)
    BY <1>10 DEF Activity, LoseNote, OrphanEnds
  <2>3. faults' = faults \/ Fault
    BY <1>10 DEF Activity, LoseNote, OrphanEnds
  <2>4. notes' \in 0 .. MaxNotes /\ faults' \in 0 .. MaxFaults
    BY <1>1, <1>3, <1>4, <2>2, <2>3, Bounds DEF DriveTypeOK
  <2>5. row' \in RowType /\ renew' \in [Renewals -> RenewalType]
    BY <1>1, <2>1 DEF DriveTypeOK
  <2> QED BY <1>6, <1>7, <2>1, <2>4, <2>5
<1>11. CASE Forget
  <2>1. oldest' \in 0 .. now
    BY <1>1, <1>11 DEF Forget, DriveTypeOK
  <2>2. UNCHANGED <<now, drive, live, row, pass, queued, renew, index, tried, gap, notes, faults>>
    BY <1>11 DEF Forget, hub, ghost
  <2> QED BY <1>0, <1>1, <1>2, <2>1, <2>2 DEF DriveTypeOK, Steady
<1>12. CASE Age
  <2>1. row' \in RowType
    <3>1. row' = [row EXCEPT !.life = "due"] \/ row' = [row EXCEPT !.life = "dead"]
      BY <1>12 DEF Age
    <3> QED BY <1>1, <3>1 DEF DriveTypeOK, RowType
  <2>2. /\ UNCHANGED <<source, tried, gap, pass, queued, index, renew, notes, faults>>
        /\ live' \in SUBSET Channels
    BY <1>1, <1>12 DEF Age, hub, ghost, DriveTypeOK
  <2> QED BY <1>1, <1>6, <1>7, <2>1, <2>2 DEF DriveTypeOK
<1> QED BY <1>5, <1>8, <1>9, <1>10, <1>11, <1>12 DEF Next, HubStep, RenewalStep

-----------------------------------------------------------------------------
(***************************************************************************)
(* What the holders of a cursor know                                       *)
(***************************************************************************)

LEMMA CoverKept ==
  ASSUME DriveTypeOK, DriveTypeOK', Steady, NEW f \in Files
  PROVE  \A t \in Nat : t <= now /\ Covered(f, t) => Covered(f, t)'
<1> SUFFICES ASSUME NEW t \in Nat, t <= now, Covered(f, t),
                    0 < drive'[f].at, drive'[f].at <= t
             PROVE  tried'[f] = drive'[f].at \/ drive'[f].at <= gap'
  BY DEF Covered
<1>1. /\ drive[f].at \in Nat /\ drive'[f].at \in Nat /\ tried[f] \in Nat /\ tried'[f] \in Nat
      /\ gap \in Nat /\ gap' \in Nat /\ now \in Nat
      /\ tried'[f] <= drive'[f].at
  BY Bounds DEF DriveTypeOK, Tokens, Version
<1>2. drive'[f] = drive[f]
  BY <1>1 DEF Steady
<1>3. tried[f] = drive[f].at \/ drive[f].at <= gap
  BY <1>2 DEF Covered
<1> QED BY <1>1, <1>2, <1>3 DEF Steady

LEMMA Numbers ==
  ASSUME ChangesInv, NEW h \in Hubs
  PROVE  /\ DriveTypeOK /\ PassInv(h) /\ pass[h] \in PassType
         /\ pass[h].token \in Nat /\ pass[h].next \in Nat /\ now \in Nat /\ gap \in Nat
         /\ \A f \in Files : /\ drive[f].at \in Nat /\ tried[f] \in Nat
                             /\ tried[f] <= drive[f].at /\ drive[f].at <= now
         /\ \A c \in pass[h].todo : c \in Listed /\ c.file \in Files /\ c.at \in Nat
BY Bounds DEF ChangesInv, DriveTypeOK, PassType, Tokens, Version, Listed

\* A pass that takes no step keeps what it knows.
LEMMA IdleKept ==
  ASSUME ChangesInv, DriveTypeOK', Steady, NEW h \in Hubs, pass'[h] = pass[h]
  PROVE  PassInv(h)'
<1>1. /\ DriveTypeOK /\ PassInv(h)
      /\ pass[h].token \in Nat /\ pass[h].next \in Nat /\ now \in Nat
      /\ \A c \in pass[h].todo : c.file \in Files /\ c.at \in Nat
  BY Numbers
<1>2. \A f \in Files : drive[f].at \in Nat /\ drive'[f].at \in Nat /\ drive[f].at <= now
  BY Bounds, Numbers DEF DriveTypeOK, Tokens, Version
<1>3. now' \in Nat /\ now <= now'
  BY Bounds DEF DriveTypeOK, Tokens, Steady
<1>4. pass'[h].token <= now' /\ pass'[h].next <= now'
  BY <1>1, <1>3 DEF PassInv
<1>5. \A c \in pass'[h].todo : c.at <= drive'[c.file].at
  <2> SUFFICES ASSUME NEW c \in pass[h].todo PROVE c.at <= drive'[c.file].at
    OBVIOUS
  <2>1. c.at <= drive[c.file].at /\ c.file \in Files /\ c.at \in Nat
    BY <1>1 DEF PassInv
  <2>2. drive'[c.file] = drive[c.file] \/ drive'[c.file].at > now
    BY <2>1 DEF Steady
  <2>3. drive[c.file].at <= now /\ drive[c.file].at \in Nat /\ drive'[c.file].at \in Nat
    BY <1>2, <2>1
  <2> QED BY <1>1, <2>1, <2>2, <2>3
<1>6. \A f \in Files : Covered(f, pass[h].next) => Covered(f, pass[h].next)'
  <2> SUFFICES ASSUME NEW f \in Files, Covered(f, pass[h].next) PROVE Covered(f, pass[h].next)'
    OBVIOUS
  <2>1. PICK t \in Nat : t = pass[h].next
    BY <1>1
  <2>2. t <= now /\ Covered(f, t)
    BY <1>1, <2>1 DEF PassInv, Covered
  <2>3. Covered(f, t)'
    BY <1>1, <2>2, CoverKept
  <2> QED BY <2>1, <2>3 DEF Covered
<1>7. \A f \in Files : Covered(f, pass[h].token) => Covered(f, pass[h].token)'
  <2> SUFFICES ASSUME NEW f \in Files, Covered(f, pass[h].token) PROVE Covered(f, pass[h].token)'
    OBVIOUS
  <2>1. PICK t \in Nat : t = pass[h].token
    BY <1>1
  <2>2. t <= now /\ Covered(f, t)
    BY <1>1, <2>1 DEF PassInv, Covered
  <2>3. Covered(f, t)'
    BY <1>1, <2>2, CoverKept
  <2> QED BY <2>1, <2>3 DEF Covered
<1>8. \A f \in Files : Pending(f, h) => Pending(f, h)' \/ Covered(f, pass[h].next)'
  <2> SUFFICES ASSUME NEW f \in Files, Pending(f, h)
               PROVE  Pending(f, h)' \/ Covered(f, pass[h].next)'
    OBVIOUS
  <2>1. CASE drive'[f] = drive[f]
    BY <2>1 DEF Pending
  <2>2. CASE drive'[f].at > now
    <3>1. ~(drive'[f].at <= pass'[h].next)
      BY <1>1, <1>2, <2>2 DEF PassInv
    <3> QED BY <3>1 DEF Covered
  <2> QED BY <2>1, <2>2 DEF Steady
<1>9. pass[h].todo # {} => File(h) \in Files /\ File(h)' = File(h)
  BY <1>1, ChangeListed DEF File, Change
<1>10. pass'[h].pc \in AtWork =>
         /\ pass'[h].todo # {} /\ pass'[h].chunk \in 1 .. Chunks
         /\ Covered(File(h), pass[h].next)'
  <2> SUFFICES ASSUME pass[h].pc \in AtWork
               PROVE  /\ pass'[h].todo # {} /\ pass'[h].chunk \in 1 .. Chunks
                      /\ Covered(File(h), pass[h].next)'
    OBVIOUS
  <2>1. /\ pass[h].todo # {} /\ pass[h].chunk \in 1 .. Chunks
        /\ Covered(File(h), pass[h].next)
    BY <1>1 DEF PassInv
  <2>2. PICK f \in Files : f = File(h) /\ f = File(h)'
    BY <1>9, <2>1
  <2>3. Covered(f, pass[h].next)'
    BY <1>6, <2>1, <2>2 DEF Covered
  <2> QED BY <2>1, <2>2, <2>3 DEF Covered
<1> QED BY <1>1, <1>4, <1>5, <1>6, <1>7, <1>8, <1>10 DEF PassInv

\* At rest a pass holds no cursor.
LEMMA RestKept ==
  ASSUME ChangesInv, DriveTypeOK', NEW h \in Hubs, NEW pc \in {"idle", "row", "ending"},
         pass'[h] = [NoPass EXCEPT !.pc = pc]
  PROVE  PassInv(h)'
<1>1. /\ pass'[h].pc = pc /\ pass'[h].token = 0 /\ pass'[h].next = 0 /\ pass'[h].todo = {}
      /\ 0 <= now'
  BY Bounds DEF NoPass, DriveTypeOK, Tokens
<1> QED BY <1>1 DEF PassInv, AtWork

\* A pass that starts with the cursor of the row.
LEMMA ReadKept ==
  ASSUME ChangesInv, DriveTypeOK', Steady, NEW h \in Hubs,
         pass'[h] = [NoPass EXCEPT !.pc = "list", !.token = row.token]
  PROVE  PassInv(h)'
<1>1. row.token \in Nat /\ row.token <= now /\ now \in Nat /\ now' \in Nat /\ now <= now'
  BY Bounds DEF ChangesInv, CursorInv, DriveTypeOK, RowType, Tokens, Steady
<1>2. /\ pass'[h].pc = "list" /\ pass'[h].token = row.token /\ pass'[h].next = 0
      /\ pass'[h].todo = {}
  BY DEF NoPass
<1>3. PICK t \in Nat : t = row.token
  BY <1>1
<1>4. \A f \in Files : Covered(f, t)'
  BY <1>1, <1>3, CoverKept DEF ChangesInv, CursorInv, Covered
<1> QED BY <1>1, <1>2, <1>3, <1>4 DEF PassInv, AtWork, Covered

\* A list holds every change since the cursor, or the pass has given up aloud.
LEMMA ListKept ==
  ASSUME ChangesInv, NEW h \in Hubs, List(h)
  PROVE  PassInv(h)'
<1>1. /\ DriveTypeOK /\ PassInv(h) /\ pass[h].token \in Nat /\ now \in Nat
      /\ UNCHANGED <<now, drive, tried, gap>> /\ pass'[h] = Fetched(pass[h].token)
  BY Numbers DEF List, source, ghost, DriveTypeOK
<1>2. \A f \in Files : drive[f].at \in Nat /\ drive[f].at <= now
  BY Numbers
<1>3. CASE pass[h].token < oldest
  <2>1. /\ pass'[h].pc = "save" /\ pass'[h].token = 0 /\ pass'[h].next = now
        /\ pass'[h].todo = {} /\ pass'[h].gaveUp
    BY <1>1, <1>3 DEF Fetched, NoPass
  <2> QED BY <1>1, <2>1 DEF PassInv, AtWork
<1>4. CASE ~(pass[h].token < oldest)
  <2>1. /\ pass'[h].pc = "file" /\ pass'[h].token = 0 /\ pass'[h].next = now
        /\ pass'[h].todo = ChangesSince(pass[h].token)
    BY <1>1, <1>4 DEF Fetched, NoPass
  <2>2. \A c \in pass'[h].todo : c.at <= drive'[c.file].at
    BY <1>1, <1>2, <2>1 DEF ChangesSince
  <2>3. ASSUME NEW f \in Files PROVE Covered(f, pass[h].next)' \/ Pending(f, h)'
    <3>1. CASE drive[f].at > pass[h].token
      <4>1. [file |-> f, there |-> drive[f].there, at |-> drive[f].at] \in pass'[h].todo
        BY <2>1, <3>1 DEF ChangesSince
      <4> QED BY <1>1, <4>1 DEF Pending
    <3>2. CASE drive[f].at <= pass[h].token
      BY <1>1, <2>1, <3>2 DEF List, PassInv, Covered
    <3> QED BY <1>1, <1>2, <3>1, <3>2
  <2> QED BY <1>1, <2>1, <2>2, <2>3 DEF PassInv, AtWork
<1> QED BY <1>3, <1>4

\* A pass goes on to the next change once it has attempted this one.
LEMMA NextKept ==
  ASSUME ChangesInv, DriveTypeOK', Steady, NEW h \in Hubs, UNCHANGED <<now, drive, gap>>,
         pass[h].pc \in {"file"} \cup AtWork, pass[h].todo # {}, pass'[h] = NextFile(h),
         tried'[File(h)] >= Change(h).at \/ Covered(File(h), pass[h].next)
  PROVE  PassInv(h)'
<1>1. /\ DriveTypeOK /\ PassInv(h) /\ pass[h] \in PassType
      /\ \A c \in pass[h].todo : c.file \in Files /\ c.at \in Nat
  BY Numbers
<1>2. Change(h) \in pass[h].todo /\ File(h) \in Files /\ File(h) = Change(h).file
  BY <1>1, ChangeListed DEF File
<1>3. /\ pass'[h].pc = "file" /\ pass'[h].todo = pass[h].todo \ {Change(h)}
      /\ pass'[h].token = pass[h].token /\ pass'[h].next = pass[h].next
  BY <1>1 DEF NextFile, PassType
<1>4. \A f \in Files : Covered(f, pass[h].next) => Covered(f, pass[h].next)'
  <2> SUFFICES ASSUME NEW f \in Files, Covered(f, pass[h].next) PROVE Covered(f, pass[h].next)'
    OBVIOUS
  <2>1. PICK t \in Nat : t = pass[h].next
    BY Numbers
  <2>2. t <= now /\ Covered(f, t)
    BY <1>1, <2>1 DEF PassInv, Covered
  <2>3. Covered(f, t)'
    BY <1>1, <2>2, CoverKept
  <2> QED BY <1>3, <2>1, <2>3 DEF Covered
<1>5. ASSUME NEW f \in Files, Pending(f, h)
      PROVE  Covered(f, pass[h].next)' \/ Pending(f, h)'
  <2>1. PICK c \in pass[h].todo : c.file = f /\ c.at = drive[f].at
    BY <1>5 DEF Pending
  <2>2. CASE c # Change(h)
    BY <1>3, <2>1, <2>2 DEF Pending
  <2>3. CASE c = Change(h) /\ tried'[File(h)] >= Change(h).at
    <3>1. tried'[f] >= drive'[f].at
      BY <1>2, <2>1, <2>3
    <3>2. tried'[f] \in Nat /\ drive'[f].at \in Nat /\ tried'[f] <= drive'[f].at
      BY Bounds DEF DriveTypeOK, Tokens, Version
    <3>3. tried'[f] = drive'[f].at
      BY <3>1, <3>2
    <3> QED BY <3>3 DEF Covered
  <2>4. CASE c = Change(h) /\ Covered(File(h), pass[h].next)
    <3>1. Covered(f, pass[h].next)
      BY <1>2, <2>1, <2>4
    <3> QED BY <1>4, <3>1
  <2> QED BY <2>2, <2>3, <2>4
<1>6. \A f \in Files : Covered(f, pass[h].next)' \/ Pending(f, h)'
  BY <1>1, <1>4, <1>5 DEF PassInv
<1>7. \A c \in pass'[h].todo : c.at <= drive'[c.file].at
  BY <1>1, <1>3 DEF PassInv
<1> QED BY <1>1, <1>3, <1>6, <1>7 DEF PassInv, AtWork

\* A pass that has read the file stays at its change.
LEMMA StayKept ==
  ASSUME ChangesInv, DriveTypeOK', Steady, NEW h \in Hubs, UNCHANGED <<now, drive, gap>>,
         pass[h].pc \in {"file"} \cup AtWork, pass[h].todo # {},
         pass'[h].pc \in AtWork, pass'[h].chunk \in 1 .. Chunks,
         pass'[h].todo = pass[h].todo, pass'[h].token = pass[h].token,
         pass'[h].next = pass[h].next,
         tried'[File(h)] >= drive[File(h)].at \/ Covered(File(h), pass[h].next)
  PROVE  PassInv(h)'
<1>1. DriveTypeOK /\ PassInv(h) /\ pass[h] \in PassType
  BY Numbers
<1>2. File(h) \in Files /\ File(h)' = File(h)
  BY <1>1, ChangeListed DEF File, Change
<1>3. \A f \in Files : Covered(f, pass[h].next) => Covered(f, pass[h].next)'
  <2> SUFFICES ASSUME NEW f \in Files, Covered(f, pass[h].next) PROVE Covered(f, pass[h].next)'
    OBVIOUS
  <2>1. PICK t \in Nat : t = pass[h].next
    BY Numbers
  <2>2. t <= now /\ Covered(f, t)
    BY <1>1, <2>1 DEF PassInv, Covered
  <2>3. Covered(f, t)'
    BY <1>1, <2>2, CoverKept
  <2> QED BY <2>1, <2>3 DEF Covered
<1>4. Covered(File(h), pass[h].next)'
  <2>1. PICK f \in Files : f = File(h) /\ f = File(h)'
    BY <1>2
  <2>2. CASE tried'[f] >= drive[f].at
    <3>1. tried'[f] \in Nat /\ drive'[f].at \in Nat /\ tried'[f] <= drive'[f].at
      BY Bounds DEF DriveTypeOK, Tokens, Version
    <3>2. tried'[f] = drive'[f].at
      BY <2>2, <3>1
    <3> QED BY <2>1, <3>2 DEF Covered
  <2>3. CASE Covered(f, pass[h].next)
    <3>1. Covered(f, pass[h].next)'
      BY <1>3, <2>3
    <3> QED BY <2>1, <3>1 DEF Covered
  <2> QED BY <2>1, <2>2, <2>3
<1>5. \A f \in Files : Pending(f, h) => Pending(f, h)'
  BY DEF Pending
<1>6. \A c \in pass'[h].todo : c.at <= drive'[c.file].at
  BY <1>1 DEF PassInv
<1> QED BY <1>1, <1>3, <1>4, <1>5, <1>6 DEF PassInv, AtWork

LEMMA HubKept ==
  ASSUME ChangesInv, DriveTypeOK', Steady, NEW h \in Hubs, HubStep(h)
  PROVE  PassInv(h)'
<1>1. DriveTypeOK /\ PassInv(h) /\ pass[h] \in PassType /\ pass \in [Hubs -> PassType]
  BY DEF ChangesInv, DriveTypeOK
<1>2. Again(h) \in {[NoPass EXCEPT !.pc = "row"], [NoPass EXCEPT !.pc = "ending"]}
  BY DEF Again
<1>3. NoPass = [NoPass EXCEPT !.pc = "idle"]
  BY DEF NoPass
<1>4. UNCHANGED <<now, drive>>
  BY HubEffects DEF source
<1>5. CASE Deliver(h)
  <2>1. CASE pass[h].pc = "idle"
    <3>1. pass'[h] = [pass[h] EXCEPT !.pc = "row"]
      BY <1>1, <1>5, <2>1 DEF Deliver
    <3>2. /\ pass'[h].pc = "row" /\ pass'[h].token = pass[h].token
          /\ pass'[h].next = pass[h].next /\ pass'[h].todo = pass[h].todo
      BY <1>1, <3>1 DEF PassType
    <3> QED BY <1>1, <1>4, <3>2 DEF PassInv, AtWork
  <2>2. CASE pass[h].pc # "idle"
    <3>1. pass'[h] = pass[h]
      BY <1>5, <2>2 DEF Deliver
    <3> QED BY <3>1, IdleKept
  <2> QED BY <2>1, <2>2
<1>6. CASE ReadRow(h)
  <2>1. \/ pass'[h] = Again(h)
        \/ pass'[h] = [NoPass EXCEPT !.pc = "list", !.token = row.token]
    BY <1>1, <1>6 DEF ReadRow, PassReturns
  <2> QED BY <1>2, <2>1, RestKept, ReadKept
<1>7. CASE List(h)
  BY <1>7, ListKept
<1>8. CASE DeleteChunks(h) \/ ChangeFails(h)
  <2>1. /\ pass[h].pc \in {"file"} \cup AtWork /\ pass[h].todo # {}
        /\ pass'[h] = NextFile(h) /\ Tried(h, Change(h).at) /\ gap' = gap
    BY <1>1, <1>8 DEF DeleteChunks, ChangeFails, AtFile, AtWork, PassInv
  <2>2. tried'[File(h)] >= Change(h).at
    BY <2>1, TriedIs, ChangeBounds
  <2> QED BY <1>4, <2>1, <2>2, NextKept
<1>9. CASE ReadFile(h)
  <2>1. /\ pass[h].pc = "file" /\ pass[h].todo # {} /\ gap' = gap
        /\ Tried(h, drive[File(h)].at)
    BY <1>9 DEF ReadFile, AtFile
  <2>2. /\ pass'[h].pc = "clear" /\ pass'[h].chunk = 1 /\ pass'[h].todo = pass[h].todo
        /\ pass'[h].token = pass[h].token /\ pass'[h].next = pass[h].next
    BY <1>1, <1>9 DEF ReadFile, PassType
  <2>3. tried'[File(h)] >= drive[File(h)].at
    BY <2>1, TriedIs, ChangeBounds
  <2>4. 1 \in 1 .. Chunks
    BY Bounds
  <2> QED BY <1>4, <2>1, <2>2, <2>3, <2>4, StayKept DEF AtWork
<1>10. ASSUME NEW ok \in BOOLEAN, Clear(h, ok) PROVE PassInv(h)'
  <2>1. pass[h].pc \in AtWork /\ gap' = gap
    BY <1>10 DEF Clear, AtWork, ghost
  <2>2. /\ pass'[h].pc = "put" /\ pass'[h].chunk = pass[h].chunk
        /\ pass'[h].todo = pass[h].todo
        /\ pass'[h].token = pass[h].token /\ pass'[h].next = pass[h].next
    BY <1>1, <1>10 DEF Clear, PassType
  <2>3. /\ pass[h].todo # {} /\ pass[h].chunk \in 1 .. Chunks
        /\ Covered(File(h), pass[h].next)
    BY <1>1, <2>1 DEF PassInv
  <2> QED BY <1>4, <2>1, <2>2, <2>3, StayKept DEF AtWork
<1>11. CASE PutChunk(h)
  <2>1. pass[h].pc \in AtWork /\ pass[h].pc = "put" /\ gap' = gap
    BY <1>11 DEF PutChunk, AtWork, ghost
  <2>2. /\ pass[h].todo # {} /\ pass[h].chunk \in 1 .. Chunks
        /\ Covered(File(h), pass[h].next)
    BY <1>1, <2>1 DEF PassInv
  <2>3. CASE pass[h].chunk = Chunks
    <3>1. pass'[h] = NextFile(h)
      BY <1>1, <1>11, <2>3 DEF PutChunk, LastChunk
    <3> QED BY <1>4, <2>1, <2>2, <3>1, NextKept
  <2>4. CASE pass[h].chunk # Chunks
    <3>1. pass'[h] = NextChunk(h)
      BY <1>1, <1>11, <2>4 DEF PutChunk, LastChunk
    <3>2. /\ pass'[h].pc = "put" /\ pass'[h].chunk = pass[h].chunk + 1
          /\ pass'[h].todo = pass[h].todo
          /\ pass'[h].token = pass[h].token /\ pass'[h].next = pass[h].next
      BY <1>1, <2>1, <3>1 DEF NextChunk, PassType
    <3>3. pass'[h].chunk \in 1 .. Chunks
      BY <2>2, <2>4, <3>2, Bounds
    <3> QED BY <1>4, <2>1, <2>2, <3>2, <3>3, StayKept DEF AtWork
  <2> QED BY <2>3, <2>4
<1>12. CASE Save(h)
  BY <1>1, <1>2, <1>12, RestKept DEF Save, PassReturns
<1>13. CASE PassThrows(h)
  BY <1>1, <1>13, RestKept DEF PassThrows
<1>14. CASE Unlatch(h) \/ HubDies(h)
  <2>1. pass'[h] = [NoPass EXCEPT !.pc = "idle"]
    BY <1>1, <1>3, <1>14 DEF Unlatch, HubDies
  <2> QED BY <2>1, RestKept
<1> QED BY <1>5, <1>6, <1>7, <1>8, <1>9, <1>10, <1>11, <1>12, <1>13, <1>14 DEF HubStep, Pass

LEMMA RenewalIdle ==
  ASSUME ChangesInv, DriveTypeOK', Steady, NEW r \in Renewals, renew'[r] = renew[r]
  PROVE  RenewalInv(r)'
<1>1. /\ DriveTypeOK /\ RenewalInv(r) /\ renew[r].token \in Nat
      /\ now \in Nat /\ now' \in Nat /\ now <= now'
  BY Bounds DEF ChangesInv, DriveTypeOK, RenewalType, Tokens, Steady
<1>2. PICK t \in Nat : t = renew[r].token
  BY <1>1
<1>3. t <= now
  BY <1>1, <1>2 DEF RenewalInv
<1>4. \A f \in Files : Covered(f, t) => Covered(f, t)'
  BY <1>1, <1>3, CoverKept
<1> QED BY <1>1, <1>2, <1>4 DEF RenewalInv, Covered

\* A renewal carries the cursor it read, or says that the channel is the first.
LEMMA RenewalKept ==
  ASSUME ChangesInv, DriveTypeOK', Steady, NEW r \in Renewals, RenewalStep(r)
  PROVE  RenewalInv(r)'
<1>1. /\ DriveTypeOK /\ RenewalInv(r) /\ renew[r] \in RenewalType
      /\ now \in Nat /\ now' = now /\ UNCHANGED <<drive, tried>>
  <2>1. /\ DriveTypeOK /\ RenewalInv(r)
    BY DEF ChangesInv
  <2>2. renew[r] \in RenewalType /\ now \in Nat
    BY <2>1, Bounds DEF DriveTypeOK, Tokens
  <2>3. UNCHANGED <<source, tried>>
    <3>1. CASE RenewReads(r) \/ FetchToken(r)
      BY <3>1 DEF RenewReads, FetchToken, ghost
    <3>2. CASE SaveChannel(r)
      BY <3>2 DEF SaveChannel
    <3>3. CASE \E heard \in BOOLEAN : Watch(r, heard)
      BY <3>3 DEF Watch, ghost
    <3>4. CASE (\E ok \in BOOLEAN : StopOld(r, ok)) \/ RenewFails(r)
      BY <3>4 DEF StopOld, RenewFails, ghost
    <3> QED BY <3>1, <3>2, <3>3, <3>4 DEF RenewalStep, Renewal
  <2> QED BY <2>1, <2>2, <2>3 DEF source
<1>2. \A f \in Files, t \in Nat : t <= now /\ Covered(f, t) => Covered(f, t)'
  BY <1>1, CoverKept
<1>3. ASSUME renew'[r] = NoRenewal PROVE RenewalInv(r)'
  BY <1>1, <1>3 DEF NoRenewal, RenewalInv
<1>4. ASSUME renew'[r].old = renew[r].old, renew'[r].pc # "start",
             renew'[r].token = renew[r].token
      PROVE  RenewalInv(r)'
  <2>1. PICK t \in Nat : t = renew[r].token
    BY <1>1, Bounds DEF RenewalType, Tokens
  <2> QED BY <1>1, <1>2, <1>4, <2>1 DEF RenewalInv, Covered
<1>5. CASE RenewReads(r)
  <2>1. PICK pc : pc = IF row = NoRow THEN "start" ELSE "watch"
    OBVIOUS
  <2>2. renew'[r] = [pc |-> pc, old |-> row.channel, channel |-> NoChannel,
                     token |-> row.token]
    BY <1>1, <1>5, <2>1 DEF RenewReads, DriveTypeOK
  <2>3. pc = "start" => row.channel = NoChannel
    BY <2>1 DEF NoRow
  <2>4. PICK t \in Nat : t = row.token
    BY <1>1, Bounds DEF DriveTypeOK, RowType, Tokens
  <2>5. \A f \in Files : Covered(f, t)'
    BY <1>2, <2>4 DEF ChangesInv, CursorInv, Covered
  <2> QED BY <1>1, <2>2, <2>3, <2>4, <2>5 DEF RenewalInv, ChangesInv, CursorInv, Covered
<1>6. CASE FetchToken(r)
  <2>1. /\ renew'[r].pc = "watch" /\ renew'[r].old = renew[r].old
        /\ renew'[r].token = now
    BY <1>1, <1>6 DEF FetchToken, DriveTypeOK, RenewalType
  <2>2. renew[r].old = NoChannel
    BY <1>1, <1>6 DEF FetchToken, RenewalInv
  <2> QED BY <1>1, <2>1, <2>2 DEF RenewalInv
<1>7. ASSUME NEW heard \in BOOLEAN, Watch(r, heard) PROVE RenewalInv(r)'
  <2>1. PICK c \in Unnamed : renew' = [renew EXCEPT ![r] =
          IF heard THEN [renew[r] EXCEPT !.pc = "save", !.channel = c] ELSE NoRenewal]
    BY <1>7 DEF Watch
  <2>2. CASE heard
    <3>1. renew'[r] = [renew[r] EXCEPT !.pc = "save", !.channel = c]
      BY <1>1, <2>1, <2>2 DEF DriveTypeOK
    <3>2. /\ renew'[r].pc = "save" /\ renew'[r].old = renew[r].old
          /\ renew'[r].token = renew[r].token
      BY <1>1, <3>1 DEF RenewalType
    <3> QED BY <1>4, <3>2
  <2>3. CASE ~heard
    <3>1. renew'[r] = NoRenewal
      BY <1>1, <2>1, <2>3 DEF DriveTypeOK
    <3> QED BY <1>3, <3>1
  <2> QED BY <2>2, <2>3
<1>8. CASE SaveChannel(r)
  <2>1. renew'[r] = NoRenewal \/ renew'[r] = [renew[r] EXCEPT !.pc = "stop"]
    BY <1>1, <1>8 DEF SaveChannel, DriveTypeOK
  <2>2. CASE renew'[r] = [renew[r] EXCEPT !.pc = "stop"]
    <3>1. /\ renew'[r].pc = "stop" /\ renew'[r].old = renew[r].old
          /\ renew'[r].token = renew[r].token
      BY <1>1, <2>2 DEF RenewalType
    <3> QED BY <1>4, <3>1
  <2> QED BY <1>3, <2>1, <2>2
<1>9. CASE (\E ok \in BOOLEAN : StopOld(r, ok)) \/ RenewFails(r)
  <2>1. renew'[r] = NoRenewal
    BY <1>1, <1>9 DEF StopOld, RenewFails, RenewalOver, DriveTypeOK
  <2> QED BY <1>3, <2>1
<1> QED BY <1>5, <1>6, <1>7, <1>8, <1>9 DEF RenewalStep, Renewal

LEMMA CursorIdle ==
  ASSUME ChangesInv, DriveTypeOK', Steady, row'.token = row.token
  PROVE  CursorInv'
<1>1. /\ DriveTypeOK /\ CursorInv /\ row.token \in Nat
      /\ now \in Nat /\ now' \in Nat /\ now <= now'
  BY Bounds DEF ChangesInv, DriveTypeOK, RowType, Tokens, Steady
<1>2. PICK t \in Nat : t = row.token
  BY <1>1
<1>3. t <= now
  BY <1>1, <1>2 DEF CursorInv
<1>4. \A f \in Files : Covered(f, t) => Covered(f, t)'
  BY <1>1, <1>3, CoverKept
<1> QED BY <1>1, <1>2, <1>4 DEF CursorInv, Covered

\* The cursor a pass stores covers its whole batch, or what it gave up on.
LEMMA SaveKept ==
  ASSUME ChangesInv, NEW h \in Hubs, Save(h)
  PROVE  CursorInv'
<1>1. /\ DriveTypeOK /\ PassInv(h) /\ pass[h].next \in Nat /\ gap \in Nat
      /\ UNCHANGED <<now, drive, tried>>
      /\ row' = [row EXCEPT !.token = pass[h].next]
      /\ gap' = IF pass[h].gaveUp THEN Max({gap, pass[h].next}) ELSE gap
  BY Numbers DEF Save, source
<1>2. row'.token = pass[h].next /\ pass[h].next <= now
  BY <1>1 DEF DriveTypeOK, RowType, PassInv
<1>3. gap <= gap' /\ gap' \in Nat /\ (pass[h].gaveUp => pass[h].next <= gap')
  BY <1>1, MaxOfTwo
<1>4. ASSUME NEW f \in Files PROVE Covered(f, row.token)'
  <2>1. drive[f].at \in Nat
    BY Numbers
  <2>2. CASE Attempted(h)
    <3>1. Covered(f, pass[h].next)
      BY <1>1, <2>2 DEF Attempted, PassInv, Pending
    <3> QED BY <1>1, <1>2, <1>3, <2>1, <3>1 DEF Covered
  <2>3. CASE pass[h].pc = "save"
    <3>1. pass[h].next <= gap'
      BY <1>1, <1>3, <2>3 DEF PassInv
    <3> QED BY <1>1, <1>2, <1>3, <2>1, <3>1 DEF Covered
  <2> QED BY <2>2, <2>3 DEF Save
<1> QED BY <1>1, <1>2, <1>4 DEF CursorInv

\* A renewal writes back a cursor that was covered, or gives up what came before
\* the first channel.
LEMMA SaveChannelKept ==
  ASSUME ChangesInv, NEW r \in Renewals, SaveChannel(r)
  PROVE  CursorInv'
<1>1. /\ DriveTypeOK /\ RenewalInv(r) /\ renew[r].token \in Nat /\ gap \in Nat
      /\ UNCHANGED <<now, drive, tried>> /\ row'.token = renew[r].token
      /\ gap' = IF renew[r].old = NoChannel THEN Max({gap, renew[r].token}) ELSE gap
  BY Bounds DEF SaveChannel, source, ChangesInv, DriveTypeOK, RenewalType, Tokens
<1>2. gap <= gap' /\ gap' \in Nat /\ (renew[r].old = NoChannel => renew[r].token <= gap')
  BY <1>1, MaxOfTwo
<1>3. ASSUME NEW f \in Files PROVE Covered(f, row.token)'
  <2>1. drive[f].at \in Nat
    BY <1>1, Bounds DEF DriveTypeOK, Version, Tokens
  <2> QED BY <1>1, <1>2, <2>1 DEF RenewalInv, Covered
<1> QED BY <1>1, <1>3 DEF CursorInv, RenewalInv

-----------------------------------------------------------------------------
(***************************************************************************)
(* The invariant and what follows from it                                  *)
(***************************************************************************)

LEMMA ChangesInit == Init => ChangesInv
<1> SUFFICES ASSUME Init PROVE ChangesInv
  OBVIOUS
<1>1. 0 \in Tokens /\ 0 \in 0 .. 0 /\ 0 \in 0 .. MaxNotes /\ 0 \in 0 .. MaxFaults
  BY Bounds DEF Tokens
<1>2. NoRow \in RowType /\ NoPass \in PassType /\ NoRenewal \in RenewalType
  BY <1>1, NoPassType, NoRenewalType DEF NoRow, RowType, ChannelId
<1>3. [at |-> 0, there |-> TRUE] \in Version
  BY <1>1 DEF Version
<1>4. DriveTypeOK
  BY <1>1, <1>2, <1>3 DEF Init, DriveTypeOK
<1>5. CursorInv
  BY DEF Init, CursorInv, Covered, NoRow
<1>6. \A h \in Hubs : PassInv(h)
  BY DEF Init, PassInv, NoPass, AtWork
<1>7. \A r \in Renewals : RenewalInv(r)
  BY DEF Init, RenewalInv, NoRenewal
<1> QED BY <1>4, <1>5, <1>6, <1>7 DEF ChangesInv

LEMMA ChangesStep ==
  ASSUME ChangesInv, [Next]_vars
  PROVE  ChangesInv'
<1>1. CASE UNCHANGED vars
  BY <1>1
  DEF ChangesInv, vars, source, hub, ghost, DriveTypeOK, CursorInv, PassInv, RenewalInv,
      Covered, Pending, File, Change
<1>2. CASE Next
  <2>1. DriveTypeOK /\ DriveTypeOK' /\ Steady
    BY <1>2, DriveTypeStep DEF ChangesInv
  <2>2. ASSUME NEW h \in Hubs PROVE PassInv(h)'
    <3>1. CASE HubStep(h)
      BY <2>1, <3>1, HubKept
    <3>2. ASSUME NEW g \in Hubs, g # h, HubStep(g) PROVE pass'[h] = pass[h]
      BY <2>1, <3>2, PassTypeStep, PassUpdate
    <3>3. pass' = pass \/ \E g \in Hubs : HubStep(g)
      BY <1>2
      DEF Next, HubStep, Renewal, RenewReads, FetchToken, Watch, SaveChannel, StopOld,
          RenewFails, Edit, Activity, LoseNote, Forget, Age, OrphanEnds, hub
    <3> QED BY <2>1, <3>1, <3>2, <3>3, IdleKept
  <2>3. ASSUME NEW r \in Renewals PROVE RenewalInv(r)'
    <3>1. CASE RenewalStep(r)
      BY <2>1, <3>1, RenewalKept
    <3>2. ASSUME NEW q \in Renewals, q # r, RenewalStep(q) PROVE renew'[r] = renew[r]
      BY <2>1, <3>2, RenewTypeStep, RenewUpdate
    <3>3. ASSUME NEW h \in Hubs, HubStep(h) PROVE renew' = renew
      BY <3>3, HubEffects
    <3>4. renew' = renew \/ \E q \in Renewals : RenewalStep(q)
      BY <1>2, <3>3
      DEF Next, HubStep, RenewalStep, Edit, Activity, LoseNote, Forget, Age, OrphanEnds
    <3> QED BY <2>1, <3>1, <3>2, <3>4, RenewalIdle
  <2>4. CursorInv'
    <3>1. \/ row'.token = row.token
          \/ \E h \in Hubs : Save(h)
          \/ \E r \in Renewals : SaveChannel(r)
      <4>1. row.token = [row EXCEPT !.life = "due"].token
            /\ row.token = [row EXCEPT !.life = "dead"].token
        BY <2>1 DEF DriveTypeOK, RowType
      <4>2. CASE Age
        BY <4>1, <4>2 DEF Age
      <4>3. ASSUME NEW h \in Hubs, HubStep(h), ~Save(h) PROVE row' = row
        BY <4>3
        DEF HubStep, Pass, Deliver, ReadRow, List, DeleteChunks, ReadFile, Clear, PutChunk,
            Unlatch, ChangeFails, PassThrows, HubDies
      <4>4. ASSUME NEW r \in Renewals, RenewalStep(r), ~SaveChannel(r) PROVE row' = row
        BY <4>4 DEF RenewalStep, Renewal, RenewReads, FetchToken, Watch, StopOld, RenewFails
      <4> QED BY <1>2, <4>2, <4>3, <4>4
              DEF Next, HubStep, RenewalStep, Edit, Activity, LoseNote, Forget, OrphanEnds
    <3> QED BY <2>1, <3>1, CursorIdle, SaveKept, SaveChannelKept
  <2> QED BY <2>1, <2>2, <2>3, <2>4 DEF ChangesInv
<1> QED BY <1>1, <1>2

\* ChangesInv holds in every reachable state.
THEOREM ChangesInvariant == Spec => []ChangesInv
<1>1. Init => ChangesInv
  BY ChangesInit
<1>2. ChangesInv /\ [Next]_vars => ChangesInv'
  BY ChangesStep
<1> QED BY <1>1, <1>2, PTL DEF Spec

\* The channels, the passes and the index keep the types of the code, and no
\* attempt is of a change that was not made.
THEOREM DriveTypeCorrect == Spec => []DriveTypeOK
<1>1. ChangesInv => DriveTypeOK
  BY DEF ChangesInv
<1> QED BY <1>1, ChangesInvariant, PTL

\* "Advance the cursor only after the whole batch was attempted"
\* (webhooks/google/route.ts): whichever pass or renewal wrote the cursor last,
\* it has not passed a change that nobody tried, but for those given up on aloud.
THEOREM NothingIsSkipped == Spec => []NothingSkipped
<1>1. ChangesInv => NothingSkipped
  BY DEF ChangesInv, CursorInv, Covered, NothingSkipped
<1> QED BY <1>1, ChangesInvariant, PTL
=============================================================================
