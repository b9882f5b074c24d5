------------------------ MODULE SemanticSyncProofs ------------------------
(***************************************************************************)
(* Safety of SemanticSync for every finite set of records, any stamps and  *)
(* objects, any limits and any number of imports.                          *)
(*                                                                         *)
(* The cursor and the queue are written last, in one object, so what they  *)
(* say together is decided by everything the run did before.  Watched says *)
(* where the documents of the old queue have gone meanwhile, Follows what  *)
(* a cursor promises of a record no run has collected.                     *)
(***************************************************************************)
EXTENDS SemanticSync, FiniteSetTheorems, WellFoundedInduction, TLAPS

\* Mail is delivered late by no more than the overlap of two windows.
LatenessWithinOverlap == \A e \in Records : Lag[e] <= Overlap

\* What a record that was not collected has to do with the cursor c.
Follows(e, c, truncated) ==
  IF truncated THEN c <= Stamp[e] \/ Lag[e] > 0 ELSE c <= Stamp[e] + Lag[e]

CursorInv ==
  \A c \in state.cursor : \A e \in arrived \ (written \cup behind) :
    Follows(e, c, state.truncated)

Collected == {"import", "state"}

WindowInv ==
  run.pc # "idle" =>
    /\ run.until = clock
    /\ run.cut \/ \E c \in state.cursor : run.since = Resume(c)

\* Every document of the old queue is indexed, watched, to be imported again,
\* or given up.
Watched ==
  run.pc # "idle" =>
    Queued \subseteq landed \cup run.lost \cup DocsOf(run.queue)
                     \cup IF run.pc = "state" THEN {} ELSE DocsIn(run.retry)

\* What the run collected is in the manifest, then in the import.
Imported ==
  run.pc \in Collected =>
    \A e \in run.items :
      Covers(IF run.pc = "import" THEN run.docs ELSE DocsOf(run.queue), e)

CollectedInv ==
  run.pc \in Collected =>
    /\ run.items \subseteq arrived /\ run.left \subseteq arrived
    /\ run.truncated => run.items # {}
    /\ \A e \in arrived \ (written \cup behind \cup run.items \cup run.left) :
         Follows(e, Cursor, run.truncated)

NameFree == run.pc \in {"collect", "import"} => Named(run.queue) # Operations

RetriesLeft == \A m \in run.retry : CanRetry(m)

SyncInv ==
  /\ SyncTypeOK /\ RetriesLeft
  /\ CursorInv /\ WindowInv /\ Watched /\ Imported /\ CollectedInv /\ NameFree
  /\ NothingUnwatched
  /\ run.pc \notin Collected => run.left = {}
  /\ LatenessWithinOverlap => NoHole

-----------------------------------------------------------------------------
(***************************************************************************)
(* Records in the order in which they are replayed                         *)
(***************************************************************************)

LEMMA Bounds ==
  /\ MaxClock \in Nat /\ MaxLookbacks \in Nat /\ MaxItems \in Nat \ {0}
  /\ MaxAttempts \in Nat \ {0} /\ MaxMisses \in Nat \ {0}
  /\ Second \in Nat /\ Overlap \in Nat /\ First \in Nat /\ CatchUp \in Nat /\ Backfill \in Nat
  /\ Lookbacks \subseteq Nat
  /\ Stamp \in [Records -> Nat] /\ Lag \in [Records -> Nat]
  /\ Records \subseteq Nat /\ IsFiniteSet(Records)
BY SyncAssumption

\* A strict order on a finite set that is not empty has a first element: one with
\* fewest before it.  R[x] is what lies before x.
LEMMA FirstOfOrder ==
  ASSUME NEW S, IsFiniteSet(S), S # {}, NEW R \in [S -> SUBSET S],
         \A x \in S : x \notin R[x],
         \A x \in S : \A y \in R[x] : R[y] \subseteq R[x]
  PROVE  \E x \in S : R[x] = {}
<1> DEFINE Rank(x) == Cardinality(R[x])
<1>1. \A x \in S : IsFiniteSet(R[x]) /\ Rank(x) \in Nat
  BY FS_Subset, FS_CardinalityType
<1>2. {Rank(x) : x \in S} \in SUBSET Nat /\ {Rank(x) : x \in S} # {}
  BY <1>1
<1>3. PICK m \in {Rank(x) : x \in S} :
        \A n \in {Rank(x) : x \in S} : ~(<<n, m>> \in OpToRel(<, Nat))
  BY <1>2, NatLessThanWellFounded, WFMin
<1>4. PICK x \in S : m = Rank(x)
  BY <1>3
<1>5. ASSUME NEW y \in R[x] PROVE FALSE
  <2>1. y \in S /\ R[y] \in SUBSET (R[x] \ {y})
    BY <1>5
  <2>2. IsFiniteSet(R[x] \ {y}) /\ Cardinality(R[x] \ {y}) = Rank(x) - 1
    BY <1>1, <1>5, FS_RemoveElement
  <2>3. Rank(y) <= Rank(x) - 1
    BY <2>1, <2>2, FS_Subset
  <2>4. Rank(y) < Rank(x)
    BY <1>1, <2>1, <2>3
  <2>5. <<Rank(y), m>> \in OpToRel(<, Nat)
    BY <1>1, <1>4, <2>1, <2>4 DEF OpToRel
  <2> QED BY <1>3, <2>1, <2>5
<1> QED BY <1>5

LEMMA BeforeOrder ==
  /\ \A e \in Records : ~Before(e, e)
  /\ \A c, d, e \in Records : Before(c, d) /\ Before(d, e) => Before(c, e)
  /\ \A d, e \in Records : ~Before(d, e) => Stamp[e] <= Stamp[d]
<1>1. \A e \in Records : Stamp[e] \in Nat /\ e \in Nat
  BY Bounds
<1>2. CASE Source = "gmail"
  BY <1>1, <1>2 DEF Before
<1>3. CASE Source # "gmail"
  BY <1>1, <1>3 DEF Before
<1> QED BY <1>2, <1>3

\* Every set of records that is not empty has a first and a last one.
LEMMA FirstAndLast ==
  ASSUME NEW S \in SUBSET Records, S # {}
  PROVE  /\ \E e \in S : \A d \in S : ~Before(d, e)
         /\ \E e \in S : \A d \in S : ~Before(e, d)
<1>1. IsFiniteSet(S)
  BY Bounds, FS_Subset
<1>2. \E e \in S : \A d \in S : ~Before(d, e)
  <2> DEFINE R == [e \in S |-> {d \in S : Before(d, e)}]
  <2>1. R \in [S -> SUBSET S]
    OBVIOUS
  <2>2. \A x \in S : x \notin R[x]
    BY BeforeOrder
  <2>3. \A x \in S : \A y \in R[x] : R[y] \subseteq R[x]
    BY BeforeOrder
  <2> HIDE DEF R
  <2>4. PICK e \in S : R[e] = {}
    BY <1>1, <2>1, <2>2, <2>3, FirstOfOrder
  <2> QED BY <2>4 DEF R
<1>3. \E e \in S : \A d \in S : ~Before(e, d)
  <2> DEFINE R == [e \in S |-> {d \in S : Before(e, d)}]
  <2>1. R \in [S -> SUBSET S]
    OBVIOUS
  <2>2. \A x \in S : x \notin R[x]
    BY BeforeOrder
  <2>3. \A x \in S : \A y \in R[x] : R[y] \subseteq R[x]
    BY BeforeOrder
  <2> HIDE DEF R
  <2>4. PICK e \in S : R[e] = {}
    BY <1>1, <2>1, <2>2, <2>3, FirstOfOrder
  <2> QED BY <2>4 DEF R
<1> QED BY <1>2, <1>3

\* The newest stamp of some records is one of theirs, and none is newer.
LEMMA NewestStamp ==
  ASSUME NEW S \in SUBSET Records, S # {}
  PROVE  /\ \E e \in S : Max({Stamp[d] : d \in S}) = Stamp[e]
         /\ \A e \in S : Stamp[e] <= Max({Stamp[d] : d \in S})
<1>1. PICK e \in S : \A d \in S : ~Before(e, d)
  BY FirstAndLast
<1>2. \A d \in S : Stamp[d] <= Stamp[e]
  BY <1>1, BeforeOrder
<1>3. \E m \in {Stamp[d] : d \in S} : \A n \in {Stamp[d] : d \in S} : m >= n
  BY <1>2, Bounds
<1>4. /\ Max({Stamp[d] : d \in S}) \in {Stamp[d] : d \in S}
      /\ \A n \in {Stamp[d] : d \in S} : Max({Stamp[d] : d \in S}) >= n
  BY <1>3 DEF Max
<1> QED BY <1>4, Bounds

\* One document of each batch is the last of its name, and as late as any other.
LEMMA LatestCovers ==
  ASSUME NEW S \in SUBSET Records, NEW e \in S
  PROVE  Covers(Latest(S), e)
<1> DEFINE Same == {d \in S : Doc(d) = Doc(e)}
<1>1. Same \in SUBSET Records /\ e \in Same
  OBVIOUS
<1>2. PICK d \in Same : \A x \in Same : ~Before(d, x)
  BY <1>1, FirstAndLast
<1>3. d \in Latest(S)
  BY <1>2 DEF Latest
<1>4. Stamp[d] >= Stamp[e]
  BY <1>1, <1>2, BeforeOrder, Bounds
<1> QED BY <1>2, <1>3, <1>4 DEF Covers

\* A batch is all of a window that is not too large, else its beginning.
LEMMA BatchBegins ==
  ASSUME NEW S \in SUBSET Records
  PROVE  /\ Batch(S) \subseteq S
         /\ Cardinality(S) <= MaxItems => Batch(S) = S
         /\ S # {} => Batch(S) # {}
         /\ \A e \in Batch(S) : \A d \in S : Before(d, e) => d \in Batch(S)
<1> DEFINE Ahead(e) == {d \in S : Before(d, e)}
<1>1. IsFiniteSet(S) /\ Cardinality(S) \in Nat
  BY Bounds, FS_Subset, FS_CardinalityType
<1>2. \A e \in S : IsFiniteSet(Ahead(e)) /\ Cardinality(Ahead(e)) \in Nat
  BY <1>1, FS_Subset, FS_CardinalityType
<1>3. ASSUME NEW e \in S PROVE Cardinality(Ahead(e)) < Cardinality(S)
  <2>1. Ahead(e) \in SUBSET (S \ {e})
    BY BeforeOrder
  <2>2. IsFiniteSet(S \ {e}) /\ Cardinality(S \ {e}) = Cardinality(S) - 1
    BY <1>1, FS_RemoveElement
  <2>3. Cardinality(Ahead(e)) <= Cardinality(S) - 1
    BY <2>1, <2>2, FS_Subset
  <2> QED BY <1>1, <1>2, <2>3
<1>4. Cardinality(S) <= MaxItems => \A e \in S : Cardinality(Ahead(e)) < MaxItems
  BY <1>1, <1>2, <1>3, Bounds
<1>5. ASSUME S # {} PROVE Batch(S) # {}
  <2>1. PICK e \in S : \A d \in S : ~Before(d, e)
    BY <1>5, FirstAndLast
  <2>2. Cardinality(Ahead(e)) = 0
    BY <2>1, FS_EmptySet
  <2> QED BY <2>2, Bounds DEF Batch
<1>6. ASSUME NEW e \in Batch(S), NEW d \in S, Before(d, e) PROVE d \in Batch(S)
  <2>1. e \in S /\ Cardinality(Ahead(e)) < MaxItems
    BY <1>6 DEF Batch
  <2>2. Ahead(d) \in SUBSET Ahead(e)
    BY <1>6, <2>1, BeforeOrder
  <2>3. Cardinality(Ahead(d)) <= Cardinality(Ahead(e))
    BY <1>2, <2>1, <2>2, FS_Subset
  <2>4. Cardinality(Ahead(d)) < MaxItems
    BY <1>2, <2>1, <2>3, Bounds
  <2> QED BY <2>4 DEF Batch
<1> QED BY <1>4, <1>5, <1>6 DEF Batch

-----------------------------------------------------------------------------
(***************************************************************************)
(* The queue and its review                                                *)
(***************************************************************************)

LEMMA DocsType ==
  /\ \A ms \in SUBSET Manifest : DocsIn(ms) \in SUBSET Records
  /\ \A q \in Queue : DocsOf(q) \in SUBSET Records
BY DEF DocsIn, DocsOf, Queue, Import, Manifest

LEMMA NoRunType == NoRun \in RunType /\ NoImports \in Queue /\ DocsOf(NoImports) = {}
<1>1. NoImport \in Import
  BY Bounds DEF NoImport, Import
<1>2. NoImports \in Queue /\ DocsOf(NoImports) = {}
  BY <1>1 DEF NoImports, NoImport, Queue, DocsOf, DocsIn
<1>3. "idle" \in {"idle", "collect", "import", "state"} /\ 0 \in Time
  BY Bounds DEF Time
<1> QED BY <1>2, <1>3 DEF NoRun, RunType

\* The review keeps the types: what is still watched has not been missed too
\* often.
LEMMA ReviewType ==
  ASSUME SyncTypeOK, NEW verdict \in Checks
  PROVE  /\ Pending(verdict) \in Queue
         /\ FailedManifests(verdict) \in SUBSET Manifest
<1>1. state.imports \in Queue
  BY DEF SyncTypeOK, StateType
<1>2. NoImport \in Import
  BY Bounds DEF NoImport, Import
<1>3. ASSUME NEW op \in Operations, Running(verdict, op)
      PROVE  Checked(verdict, op) \in Import
  <2>1. state.imports[op] \in [manifests : SUBSET Manifest, misses : 0 .. MaxMisses - 1]
    BY <1>1 DEF Queue, Import
  <2>2. PICK n : n = IF verdict[op] = "unread" THEN state.imports[op].misses + 1 ELSE 0
    OBVIOUS
  <2>3. n \in 0 .. MaxMisses - 1
    BY <1>3, <2>1, <2>2, Bounds DEF Running
  <2>4. Checked(verdict, op) = [state.imports[op] EXCEPT !.misses = n]
    BY <2>2 DEF Checked
  <2> QED BY <2>1, <2>3, <2>4 DEF Import
<1>4. Pending(verdict) \in Queue
  BY <1>2, <1>3 DEF Pending, Queue
<1>5. FailedManifests(verdict) \in SUBSET Manifest
  BY <1>1 DEF FailedManifests, Named, Queue, Import
<1> QED BY <1>4, <1>5

\* No document leaves the queue but for the index, a retry or the end of its
\* attempts.
LEMMA ReviewKeepsDocs ==
  ASSUME SyncTypeOK, NEW verdict \in Checks, NEW part
  PROVE  Queued \subseteq Indexed(verdict, part) \cup DocsIn(FailedManifests(verdict))
                          \cup DocsOf(Pending(verdict))
<1> SUFFICES ASSUME NEW op \in Operations, NEW m \in state.imports[op].manifests,
                    NEW d \in m.docs
             PROVE  d \in Indexed(verdict, part) \cup DocsIn(FailedManifests(verdict))
                          \cup DocsOf(Pending(verdict))
  BY DEF Queued, DocsOf, DocsIn
<1>1. op \in Named(state.imports)
  BY DEF Named
<1>2. verdict[op] \in Verdict
  BY <1>1 DEF Checks
<1>3. CASE verdict[op] = "succeeded"
  <2>1. d \in IndexedBy(verdict, op, part)
    BY <1>3 DEF IndexedBy, DocsIn
  <2> QED BY <1>1, <2>1 DEF Indexed
<1>4. CASE Failed(verdict, op)
  <2>1. m \in FailedManifests(verdict)
    BY <1>1, <1>4 DEF FailedManifests
  <2> QED BY <2>1 DEF DocsIn
<1>5. CASE Running(verdict, op)
  <2>1. state.imports[op] \in [manifests : SUBSET Manifest, misses : 0 .. MaxMisses - 1]
    BY DEF SyncTypeOK, StateType, Queue, Import
  <2>2. Pending(verdict)[op] = Checked(verdict, op)
    BY <1>1, <1>5 DEF Pending
  <2>3. Checked(verdict, op).manifests = state.imports[op].manifests
    BY <2>1 DEF Checked
  <2>4. m \in Pending(verdict)[op].manifests
    BY <2>2, <2>3
  <2> QED BY <2>4 DEF DocsOf, DocsIn
<1>6. verdict[op] = "succeeded" \/ Failed(verdict, op) \/ Running(verdict, op)
  <2>1. state.imports[op].misses + 1 < MaxMisses \/ state.imports[op].misses + 1 >= MaxMisses
    BY Bounds DEF SyncTypeOK, StateType, Queue, Import
  <2> QED BY <1>2, <2>1 DEF Verdict, Failed, Running
<1> QED BY <1>3, <1>4, <1>5, <1>6

\* What an import indexes was in the queue.
LEMMA IndexedType ==
  ASSUME SyncTypeOK, NEW verdict \in Checks, NEW part
  PROVE  Indexed(verdict, part) \in SUBSET Records
<1>1. state.imports \in Queue
  BY DEF SyncTypeOK, StateType
<1>2. ASSUME NEW op \in Named(state.imports)
      PROVE  IndexedBy(verdict, op, part) \in SUBSET Records
  <2>1. DocsIn(state.imports[op].manifests) \in SUBSET Records
    BY <1>1, DocsType DEF Named, Queue, Import
  <2>2. CASE verdict[op] = "succeeded"
    BY <2>1, <2>2 DEF IndexedBy
  <2>3. CASE verdict[op] = "incomplete"
    BY <2>1, <2>3 DEF IndexedBy
  <2>4. CASE verdict[op] \notin {"succeeded", "incomplete"}
    BY <2>4 DEF IndexedBy
  <2> QED BY <2>2, <2>3, <2>4
<1> QED BY <1>2 DEF Indexed

-----------------------------------------------------------------------------
(***************************************************************************)
(* The window                                                              *)
(***************************************************************************)

LEMMA BackType ==
  ASSUME NEW t \in Time, NEW n \in Nat
  PROVE  Back(t, n) \in Time /\ Back(t, n) <= t
BY Bounds DEF Back, Time

LEMMA MaxOfTwo ==
  ASSUME NEW m \in Time, NEW n \in Time
  PROVE  Max({m, n}) \in {m, n} /\ Max({m, n}) >= m
<1>1. m \in Nat /\ n \in Nat
  BY Bounds DEF Time
<1>2. \E x \in {m, n} : \A y \in {m, n} : x >= y
  BY <1>1
<1>3. Max({m, n}) \in {m, n} /\ \A y \in {m, n} : Max({m, n}) >= y
  BY <1>2 DEF Max
<1> QED BY <1>3

\* A window begins at a time that was, and where the cursor says unless a limit
\* cuts it short.
LEMMA SinceType ==
  ASSUME SyncTypeOK, NEW lookback \in Lookbacks \cup {0}
  PROVE  /\ Since(lookback) \in Time
         /\ \/ lookback > 0 \/ state.cursor = {} \/ Since(lookback) > Wanted(lookback)
            \/ \E c \in state.cursor : Since(lookback) = Resume(c)
<1>1. clock \in Time /\ state.cursor \in SUBSET Time /\ lookback \in Nat
  BY Bounds DEF SyncTypeOK, StateType
<1>2. Floor(lookback) \in Time
  BY <1>1, BackType, Bounds DEF Floor
<1>3. \A c \in state.cursor : Resume(c) \in Time
  BY <1>1, BackType, Bounds DEF Resume
<1>4. Wanted(lookback) \in Time
  <2>1. CASE lookback > 0
    BY <1>1, <2>1, BackType DEF Wanted
  <2>2. CASE lookback = 0 /\ state.cursor # {}
    BY <1>3, <2>2 DEF Wanted
  <2>3. CASE lookback = 0 /\ state.cursor = {}
    BY <1>1, <2>3, BackType, Bounds DEF Wanted
  <2> QED BY <1>1, <2>1, <2>2, <2>3
<1>5. Since(lookback) \in Time /\ Since(lookback) >= Wanted(lookback)
  BY <1>2, <1>4, MaxOfTwo DEF Since
<1>6. ASSUME ~(lookback > 0), state.cursor # {}, ~(Since(lookback) > Wanted(lookback))
      PROVE  \E c \in state.cursor : Since(lookback) = Resume(c)
  <2>1. lookback = 0
    BY <1>1, <1>6
  <2>2. Wanted(lookback) = Resume(CHOOSE c \in state.cursor : TRUE)
    BY <1>6, <2>1 DEF Wanted
  <2>3. Since(lookback) = Wanted(lookback)
    BY <1>4, <1>5, <1>6, Bounds DEF Time
  <2> QED BY <1>6, <2>2, <2>3
<1> QED BY <1>5, <1>6

-----------------------------------------------------------------------------
(***************************************************************************)
(* Each action keeps the invariant                                         *)
(***************************************************************************)

LEMMA SyncInitial == Init => SyncInv
<1> SUFFICES ASSUME Init PROVE SyncInv
  OBVIOUS
<1>1. run \in RunType /\ run.pc = "idle" /\ run.left = {}
  BY NoRunType DEF Init, NoRun
<1>2. state \in StateType /\ state.cursor = {} /\ Queued = {}
  BY NoRunType DEF Init, StateType, Queued
<1>3. SyncTypeOK
  BY <1>1, <1>2, Bounds DEF Init, SyncTypeOK, Time
<1> QED
  BY <1>1, <1>2, <1>3
  DEF Init, NoRun, RetriesLeft, SyncInv, CursorInv, WindowInv, Watched, Imported, CollectedInv, NameFree,
      Collected, NothingUnwatched, NoHole

LEMMA BeginKept ==
  ASSUME SyncInv, NEW lookback \in Lookbacks \cup {0}, NEW verdict \in Checks, NEW part,
         lookback = 0 \/ lookbacks < MaxLookbacks, Begin(lookback, verdict, part)
  PROVE  SyncInv'
<1> DEFINE failed == FailedManifests(verdict)
<1>1. /\ run'.pc = "collect" /\ run'.since = Since(lookback) /\ run'.until = clock
      /\ run'.queue = Pending(verdict) /\ run'.left = {}
      /\ run'.retry = {m \in failed : CanRetry(m)}
      /\ run'.lost = DocsIn({m \in failed : ~CanRetry(m)})
      /\ run'.cut = (lookback > 0 \/ state.cursor = {} \/ Since(lookback) > Wanted(lookback))
  BY DEF Begin, NoRun
<1>2. UNCHANGED <<clock, arrived, state, written, behind>>
      /\ landed' = landed \cup Indexed(verdict, part)
  BY DEF Begin, ghost
<1>3. SyncTypeOK'
  <2>1. SyncTypeOK
    BY DEF SyncInv
  <2>2. lookbacks' \in 0 .. MaxLookbacks
    BY <2>1, Bounds DEF SyncTypeOK, Begin
  <2>3. landed' \subseteq Records
    BY <1>2, <2>1, IndexedType DEF SyncTypeOK
  <2>4. run' \in RunType
    <3>1. "collect" \in {"idle", "collect", "import", "state"}
      OBVIOUS
    <3>2. Since(lookback) \in Time /\ clock \in Time
      BY <2>1, SinceType DEF SyncTypeOK
    <3>3. Pending(verdict) \in Queue /\ failed \in SUBSET Manifest
      BY <2>1, ReviewType
    <3>4. {m \in failed : CanRetry(m)} \in SUBSET Manifest
      BY <3>3
    <3>5. DocsIn({m \in failed : ~CanRetry(m)}) \in SUBSET Records
      BY <3>3, DocsType
    <3>6. PICK since \in Time, queue \in Queue, retry \in SUBSET Manifest,
               lost \in SUBSET Records, waits \in BOOLEAN, cut \in BOOLEAN :
            run' = [NoRun EXCEPT !.pc = "collect", !.since = since, !.until = clock,
                      !.queue = queue, !.waits = waits, !.retry = retry, !.lost = lost,
                      !.cut = cut]
      BY <3>2, <3>3, <3>4, <3>5 DEF Begin
    <3> QED BY <3>1, <3>2, <3>6, NoRunType DEF RunType
  <2> QED BY <1>2, <2>1, <2>2, <2>3, <2>4 DEF SyncTypeOK
<1>4. CursorInv'
  BY <1>2 DEF SyncInv, CursorInv
<1>5. WindowInv'
  <2>1. \/ lookback > 0 \/ state.cursor = {} \/ Since(lookback) > Wanted(lookback)
        \/ \E c \in state.cursor : Since(lookback) = Resume(c)
    BY SinceType DEF SyncInv
  <2> QED BY <1>1, <1>2, <2>1 DEF WindowInv, Resume
<1>6. Watched'
  <2>1. DocsIn(failed) \subseteq DocsIn(run'.retry) \cup run'.lost
    BY <1>1 DEF DocsIn
  <2>2. Queued' = Queued
    BY <1>2 DEF Queued
  <2>3. Queued \subseteq landed' \cup run'.lost \cup DocsOf(run'.queue) \cup DocsIn(run'.retry)
    BY <1>1, <1>2, <2>1, ReviewKeepsDocs DEF SyncInv
  <2> QED BY <1>1, <2>2, <2>3 DEF Watched
<1>7. NameFree' /\ Imported' /\ CollectedInv'
  BY <1>1 DEF Begin, NameFree, Imported, CollectedInv, Collected
<1>8. NothingUnwatched'
  BY <1>2 DEF SyncInv, NothingUnwatched, Covers, Queued
<1>9. NoHole' /\ RetriesLeft'
  BY <1>1 DEF NoHole, RetriesLeft, CanRetry
<1> QED BY <1>1, <1>3, <1>4, <1>5, <1>6, <1>7, <1>8, <1>9 DEF SyncInv

LEMMA CollectKept ==
  ASSUME SyncInv, Collect
  PROVE  SyncInv'
<1>1. /\ SyncTypeOK /\ run \in RunType /\ run.pc = "collect"
      /\ UNCHANGED <<clock, lookbacks, arrived, state, landed, written, behind>>
  BY DEF SyncInv, SyncTypeOK, Collect, env, ghost
<1>2. /\ run'.pc = "import" /\ run'.left = Beyond /\ run'.items = Batch(Window)
      /\ run'.docs = Latest(Batch(Window)) /\ (run'.truncated <=> Cardinality(Window) > MaxItems)
      /\ run'.since = run.since /\ run'.until = run.until /\ run'.queue = run.queue
      /\ run'.retry = run.retry /\ run'.lost = run.lost /\ run'.cut = run.cut
  BY <1>1 DEF Collect, RunType
<1>3. arrived \in SUBSET Records /\ Window \in SUBSET arrived /\ Beyond \in SUBSET arrived
  BY <1>1 DEF SyncTypeOK, Window, Beyond
<1>4. Batch(Window) \in SUBSET Window /\ Latest(Batch(Window)) \in SUBSET Window
  BY <1>3, BatchBegins DEF Latest
<1>5. SyncTypeOK'
  <2>1. Batch(Window) \in SUBSET Records /\ Latest(Batch(Window)) \in SUBSET Records
        /\ Beyond \in SUBSET Records
    BY <1>3, <1>4
  <2>2. "import" \in {"idle", "collect", "import", "state"}
    OBVIOUS
  <2>3. PICK cut \in BOOLEAN : cut = (Cardinality(Window) > MaxItems)
    <3>1. Cardinality(Window) \in Nat
      BY <1>3, Bounds, FS_Subset, FS_CardinalityType
    <3>2. CASE Cardinality(Window) > MaxItems
      <4>1. (Cardinality(Window) > MaxItems) = TRUE
        BY <3>2
      <4> QED BY <4>1
    <3>3. CASE ~(Cardinality(Window) > MaxItems)
      <4>1. (Cardinality(Window) > MaxItems) = FALSE
        BY <3>1, <3>3, Bounds
      <4> QED BY <4>1
    <3> QED BY <3>2, <3>3
  <2>4. run' = [run EXCEPT !.pc = "import", !.left = Beyond, !.items = Batch(Window),
                           !.docs = Latest(Batch(Window)), !.truncated = cut]
    BY <2>3 DEF Collect
  <2>5. run' \in RunType
    BY <1>1, <2>1, <2>2, <2>4 DEF RunType
  <2> QED BY <1>1, <2>5 DEF SyncTypeOK
<1>6. Imported'
  <2>1. \A e \in Batch(Window) : Covers(Latest(Batch(Window)), e)
    BY <1>3, <1>4, LatestCovers
  <2> QED BY <1>2, <2>1 DEF Imported
<1>7. CollectedInv'
  <2>1. run'.truncated => run'.items # {}
    <3>1. IsFiniteSet(Window) /\ Cardinality(Window) \in Nat
      BY <1>3, Bounds, FS_Subset, FS_CardinalityType
    <3>2. Window = {} => Cardinality(Window) = 0
      BY FS_EmptySet
    <3>3. run'.truncated => Window # {}
      BY <1>2, <3>1, <3>2, Bounds
    <3>4. Window # {} => Batch(Window) # {}
      BY <1>3, BatchBegins
    <3> QED BY <1>2, <3>3, <3>4
  <2>2. ASSUME NEW e \in arrived \ (written \cup behind \cup Batch(Window) \cup Beyond)
        PROVE  Follows(e, Cursor', run'.truncated)
    <3>1. e \in Records /\ Stamp[e] \in Nat /\ Lag[e] \in Nat
      BY <1>3, Bounds
    <3>2. run.since \in Nat /\ run.until \in Nat
      BY <1>1, Bounds DEF RunType, Time
    <3>3. run.since <= Stamp[e]
      BY <3>1, <3>2 DEF Beyond
    <3>4. CASE ~run'.truncated
      <4>1. Batch(Window) = Window
        <5>1. Cardinality(Window) \in Nat
          BY <1>3, Bounds, FS_Subset, FS_CardinalityType
        <5>2. Cardinality(Window) <= MaxItems
          BY <1>2, <3>4, <5>1, Bounds
        <5> QED BY <1>3, <5>2, BatchBegins
      <4>2. ~(IF Source = "gmail" THEN Stamp[e] < run.until ELSE Stamp[e] <= run.until)
        BY <3>3, <4>1 DEF Window
      <4>3. run.until <= Stamp[e] + Lag[e]
        BY <3>1, <3>2, <4>2
      <4>4. Cursor' = run.until
        BY <1>2, <3>4 DEF Cursor
      <4> QED BY <3>4, <4>3, <4>4 DEF Follows
    <3>5. CASE run'.truncated
      <4>1. Batch(Window) \in SUBSET Records /\ Batch(Window) # {}
        BY <1>2, <1>3, <1>4, <2>1, <3>5
      <4>2. PICK i \in Batch(Window) : Cursor' = Stamp[i]
        BY <1>2, <3>5, <4>1, NewestStamp DEF Cursor
      <4>3. i \in Window /\ i \in Records /\ Stamp[i] \in Nat
        BY <1>3, <1>4, Bounds
      <4>4. CASE e \in Window
        <5>1. ~Before(e, i)
          BY <1>3, <4>4, BatchBegins
        <5>2. Stamp[i] <= Stamp[e]
          BY <3>1, <4>3, <5>1, BeforeOrder
        <5> QED BY <3>5, <4>2, <5>2 DEF Follows
      <4>5. CASE e \notin Window
        <5>1. run.until <= Stamp[e]
          BY <3>1, <3>2, <3>3, <4>5 DEF Window
        <5>2. Stamp[i] <= run.until
          BY <3>2, <4>3 DEF Window
        <5>3. Stamp[i] <= Stamp[e]
          BY <3>1, <3>2, <4>3, <5>1, <5>2
        <5> QED BY <3>5, <4>2, <5>3 DEF Follows
      <4> QED BY <4>4, <4>5
    <3> QED BY <3>4, <3>5
  <2> QED BY <1>1, <1>2, <1>3, <1>4, <2>1, <2>2 DEF CollectedInv
<1>8. LatenessWithinOverlap => NoHole'
  <2> SUFFICES ASSUME LatenessWithinOverlap, NEW e \in Beyond, ~run.cut
               PROVE  state.truncated /\ Lag[e] > 0
    BY <1>1, <1>2 DEF NoHole
  <2>1. PICK c \in state.cursor : run.since = Resume(c)
    BY <1>1 DEF SyncInv, WindowInv
  <2>2. Follows(e, c, state.truncated)
    BY <2>1 DEF SyncInv, CursorInv, Beyond
  <2>3. /\ c \in Nat /\ Stamp[e] \in Nat /\ Lag[e] \in Nat /\ Lag[e] <= Overlap
    BY <1>1, <1>3, <2>1, Bounds DEF SyncTypeOK, StateType, Time, LatenessWithinOverlap
  <2>4. Stamp[e] < Resume(c)
    BY <2>1 DEF Beyond
  <2>5. CASE ~state.truncated
    <3>1. Stamp[e] < Back(c, Overlap) /\ c <= Stamp[e] + Lag[e]
      BY <2>2, <2>4, <2>5 DEF Resume, Follows
    <3> QED BY <2>3, <3>1, Bounds DEF Back
  <2>6. CASE state.truncated
    <3>1. Stamp[e] < Back(c, Second) /\ (c <= Stamp[e] \/ Lag[e] > 0)
      BY <2>2, <2>4, <2>6 DEF Resume, Follows
    <3> QED BY <2>3, <2>6, <3>1, Bounds DEF Back
  <2> QED BY <2>5, <2>6
<1>9. CursorInv' /\ WindowInv' /\ NameFree' /\ NothingUnwatched' /\ RetriesLeft'
  BY <1>1, <1>2
  DEF SyncInv, CursorInv, WindowInv, Resume, NameFree, NothingUnwatched, Queued, RetriesLeft,
      CanRetry
<1>10. Watched'
  <2>1. Queued' = Queued
    BY <1>1 DEF Queued
  <2> QED BY <1>1, <1>2, <2>1 DEF SyncInv, Watched
<1> QED BY <1>2, <1>5, <1>6, <1>7, <1>8, <1>9, <1>10 DEF SyncInv, Collected

\* The inputs of an import are manifests with attempts left, and hold all that
\* is to be imported.
LEMMA InputsType ==
  ASSUME SyncInv
  PROVE  /\ Inputs \in SUBSET Manifest
         /\ DocsIn(run.retry) \cup run.docs \subseteq DocsIn(Inputs)
<1>1. run.retry \in SUBSET Manifest /\ run.docs \in SUBSET Records
  BY DEF SyncInv, SyncTypeOK, RunType
<1>2. ASSUME NEW m \in run.retry
      PROVE  /\ [m EXCEPT !.attempts = @ + 1] \in Manifest
             /\ [m EXCEPT !.attempts = @ + 1].docs = m.docs
  <2>1. m \in Manifest /\ m.attempts < MaxAttempts
    BY <1>1, <1>2 DEF SyncInv, RetriesLeft, CanRetry
  <2>2. m.attempts + 1 \in 1 .. MaxAttempts
    BY <2>1, Bounds DEF Manifest
  <2> QED BY <2>1, <2>2 DEF Manifest
<1>3. [docs |-> run.docs, attempts |-> 1] \in Manifest
  BY <1>1, Bounds DEF Manifest
<1>4. Inputs \in SUBSET Manifest
  BY <1>2, <1>3 DEF Inputs
<1>5. DocsIn(run.retry) \subseteq DocsIn(Inputs)
  BY <1>2 DEF Inputs, DocsIn
<1>6. run.docs \subseteq DocsIn(Inputs)
  <2>1. CASE run.docs = {}
    BY <2>1
  <2>2. CASE run.docs # {}
    <3>1. [docs |-> run.docs, attempts |-> 1] \in Inputs
      BY <2>2 DEF Inputs
    <3> QED BY <3>1 DEF DocsIn
  <2> QED BY <2>1, <2>2
<1> QED BY <1>4, <1>5, <1>6

\* The new import takes a name that nothing has, and replaces no other.
LEMMA StartedType ==
  ASSUME SyncInv, run.pc = "import"
  PROVE  /\ Started \in Queue
         /\ DocsOf(Started) = DocsOf(run.queue) \cup DocsIn(Inputs)
<1>1. run.queue \in Queue
  BY DEF SyncInv, SyncTypeOK, RunType
<1>2. NewName \in Operations /\ NewName \notin Named(run.queue)
  <2>1. \E op \in Operations : op \notin Named(run.queue)
    BY DEF SyncInv, NameFree, Named
  <2> QED BY <2>1 DEF NewName
<1>3. run.queue[NewName].manifests = {}
  BY <1>2 DEF Named
<1>4. [manifests |-> Inputs, misses |-> 0] \in Import
  BY InputsType, Bounds DEF Import
<1>5. /\ Started \in Queue
      /\ Started[NewName].manifests = Inputs
      /\ \A op \in Operations \ {NewName} : Started[op] = run.queue[op]
  BY <1>1, <1>2, <1>4 DEF Started, Queue
<1>6. DocsOf(Started) \subseteq DocsOf(run.queue) \cup DocsIn(Inputs)
  <2> SUFFICES ASSUME NEW op \in Operations, NEW d \in DocsIn(Started[op].manifests)
               PROVE  d \in DocsOf(run.queue) \cup DocsIn(Inputs)
    BY DEF DocsOf
  <2>1. CASE op = NewName
    BY <1>5, <2>1
  <2>2. CASE op # NewName
    BY <1>5, <2>2 DEF DocsOf
  <2> QED BY <2>1, <2>2
<1>7. DocsIn(Inputs) \subseteq DocsOf(Started)
  BY <1>2, <1>5 DEF DocsOf
<1>8. DocsOf(run.queue) \subseteq DocsOf(Started)
  <2> SUFFICES ASSUME NEW op \in Operations, NEW d \in DocsIn(run.queue[op].manifests)
               PROVE  d \in DocsOf(Started)
    BY DEF DocsOf
  <2>1. op # NewName
    BY <1>3 DEF DocsIn
  <2> QED BY <1>5, <2>1 DEF DocsOf
<1> QED BY <1>5, <1>6, <1>7, <1>8

LEMMA StartImportKept ==
  ASSUME SyncInv, StartImport
  PROVE  SyncInv'
<1>1. /\ SyncTypeOK /\ run \in RunType /\ run.pc = "import"
      /\ UNCHANGED <<clock, lookbacks, arrived, state, landed, written, behind>>
  BY DEF SyncInv, SyncTypeOK, StartImport, env, ghost
<1>2. PICK queue : queue = IF Inputs = {} THEN run.queue ELSE Started
  OBVIOUS
<1>3. run' = [run EXCEPT !.pc = "state", !.queue = queue]
  BY <1>2 DEF StartImport
<1>4. queue \in Queue /\ DocsOf(queue) = DocsOf(run.queue) \cup DocsIn(Inputs)
  <2>1. CASE Inputs = {}
    BY <1>1, <1>2, <2>1 DEF RunType, DocsIn
  <2>2. CASE Inputs # {}
    BY <1>1, <1>2, <2>2, StartedType
  <2> QED BY <2>1, <2>2
<1>5. /\ run'.pc = "state" /\ run'.queue = queue
      /\ run'.since = run.since /\ run'.until = run.until /\ run'.retry = run.retry
      /\ run'.lost = run.lost /\ run'.cut = run.cut /\ run'.left = run.left
      /\ run'.items = run.items /\ run'.docs = run.docs /\ run'.truncated = run.truncated
  BY <1>1, <1>3 DEF RunType
<1>6. SyncTypeOK'
  <2>1. "state" \in {"idle", "collect", "import", "state"}
    OBVIOUS
  <2>2. run' \in RunType
    BY <1>1, <1>3, <1>4, <2>1 DEF RunType
  <2> QED BY <1>1, <2>2 DEF SyncTypeOK
<1>7. Watched'
  <2>1. Queued' = Queued
    BY <1>1 DEF Queued
  <2>2. Queued \subseteq landed \cup run.lost \cup DocsOf(run.queue) \cup DocsIn(run.retry)
    BY <1>1 DEF SyncInv, Watched
  <2>3. Queued \subseteq landed \cup run.lost \cup DocsOf(queue)
    BY <1>4, <2>2, InputsType
  <2> QED BY <1>1, <1>5, <2>1, <2>3 DEF Watched
<1>8. Imported'
  <2>1. run.docs \subseteq DocsOf(queue)
    BY <1>4, InputsType
  <2>2. \A e \in run.items : Covers(run.docs, e)
    BY <1>1 DEF SyncInv, Imported, Collected
  <2>3. \A e \in run.items : Covers(DocsOf(queue), e)
    BY <2>1, <2>2 DEF Covers
  <2> QED BY <1>5, <2>3 DEF Imported
<1>9. CollectedInv'
  <2>1. Cursor' = Cursor
    BY <1>5 DEF Cursor
  <2> QED BY <1>1, <1>5, <2>1 DEF SyncInv, CollectedInv, Collected
<1>10. /\ CursorInv' /\ WindowInv' /\ NameFree' /\ NothingUnwatched' /\ RetriesLeft'
       /\ LatenessWithinOverlap => NoHole'
  BY <1>1, <1>5
  DEF SyncInv, CursorInv, WindowInv, Resume, NameFree, NothingUnwatched, Queued, RetriesLeft,
      CanRetry, NoHole
<1> QED BY <1>5, <1>6, <1>7, <1>8, <1>9, <1>10 DEF SyncInv, Collected

\* The end of a run, whether it has written the state or not.
LEMMA OverType ==
  ASSUME run' = NoRun
  PROVE  /\ run' \in RunType /\ run'.pc = "idle" /\ run'.left = {}
         /\ WindowInv' /\ Watched' /\ Imported' /\ CollectedInv' /\ NameFree' /\ RetriesLeft'
         /\ NoHole'
<1>1. run' \in RunType /\ run'.pc = "idle" /\ run'.left = {} /\ run'.retry = {}
  BY NoRunType DEF NoRun
<1> QED
  BY <1>1
  DEF WindowInv, Watched, Imported, CollectedInv, Collected, NameFree, RetriesLeft, NoHole

\* What is committed moves together: the cursor, what it has passed, the imports
\* that hold it and what was given up.
LEMMA CommitKept ==
  ASSUME SyncInv, Commit
  PROVE  SyncInv'
<1>1. /\ SyncTypeOK /\ run \in RunType /\ state \in StateType /\ run.pc = "state"
      /\ UNCHANGED <<clock, lookbacks, arrived, landed>> /\ run' = NoRun
      /\ written' = written \cup run.items /\ behind' = behind \cup run.left
  BY DEF SyncInv, SyncTypeOK, Commit, env
<1>2. /\ state'.cursor = {Cursor} /\ state'.truncated = run.truncated
      /\ state'.imports = run.queue /\ state'.abandoned = state.abandoned \cup run.lost
  BY DEF Commit
<1>3. CollectedInv /\ run.items \in SUBSET arrived /\ run.left \in SUBSET arrived
  BY <1>1 DEF SyncInv, CollectedInv, Collected
<1>4. Cursor \in Time /\ Cursor <= clock
  <2>1. CASE ~run.truncated
    BY <1>1, <2>1, Bounds DEF SyncInv, WindowInv, SyncTypeOK, Cursor, Time
  <2>2. CASE run.truncated
    <3>1. run.items \in SUBSET Records /\ run.items # {}
      BY <1>1, <1>3, <2>2 DEF SyncTypeOK, CollectedInv, Collected
    <3>2. PICK e \in run.items : Cursor = Stamp[e]
      BY <2>2, <3>1, NewestStamp DEF Cursor
    <3>3. e \in arrived /\ Stamp[e] <= clock /\ Stamp[e] \in Nat
      BY <1>1, <1>3, <3>1, Bounds DEF SyncTypeOK
    <3> QED BY <1>1, <3>2, <3>3, Bounds DEF SyncTypeOK, Time
  <2> QED BY <2>1, <2>2
<1>5. SyncTypeOK'
  <2>1. state' \in StateType
    BY <1>1, <1>4 DEF Commit, StateType, RunType
  <2> QED BY <1>1, <1>2, <1>3, <1>4, <2>1, OverType DEF SyncTypeOK
<1>6. CursorInv'
  <2> SUFFICES ASSUME NEW e \in arrived \ (written' \cup behind')
               PROVE  Follows(e, Cursor, run.truncated)
    BY <1>1, <1>2 DEF CursorInv
  <2>1. e \in arrived \ (written \cup behind \cup run.items \cup run.left)
    BY <1>1
  <2> QED BY <1>1, <1>3, <2>1 DEF CollectedInv, Collected
<1>7. NothingUnwatched'
  <2> SUFFICES ASSUME NEW e \in written'
               PROVE  Covers(landed \cup DocsOf(run.queue) \cup state.abandoned \cup run.lost, e)
    BY <1>1, <1>2 DEF NothingUnwatched, Queued, Covers
  <2>1. CASE e \in run.items
    <3>1. Covers(DocsOf(run.queue), e)
      BY <1>1, <2>1 DEF SyncInv, Imported, Collected
    <3> QED BY <3>1 DEF Covers
  <2>2. CASE e \in written
    <3>1. Queued \subseteq landed \cup run.lost \cup DocsOf(run.queue)
      BY <1>1 DEF SyncInv, Watched
    <3>2. Covers(landed \cup Queued \cup state.abandoned, e)
      BY <2>2 DEF SyncInv, NothingUnwatched
    <3> QED BY <3>1, <3>2 DEF Covers
  <2> QED BY <1>1, <2>1, <2>2
<1> QED BY <1>1, <1>5, <1>6, <1>7, OverType DEF SyncInv

LEMMA RunEndsKept ==
  ASSUME SyncInv, RunEnds
  PROVE  SyncInv'
<1>1. UNCHANGED <<clock, lookbacks, arrived, state, landed, written, behind>> /\ run' = NoRun
  BY DEF RunEnds, env, ghost
<1>2. SyncTypeOK'
  BY <1>1, OverType DEF SyncInv, SyncTypeOK
<1>3. CursorInv' /\ NothingUnwatched'
  BY <1>1 DEF SyncInv, CursorInv, NothingUnwatched, Queued
<1> QED BY <1>1, <1>2, <1>3, OverType DEF SyncInv

\* A record is listed no later than its lag allows.
LEMMA ArriveKept ==
  ASSUME SyncInv, NEW e \in Records, Arrive(e)
  PROVE  SyncInv'
<1>1. /\ SyncTypeOK /\ run.pc \notin Collected /\ arrived' = arrived \cup {e}
      /\ UNCHANGED <<clock, lookbacks, state, run, landed, written, behind>>
  BY DEF SyncInv, Arrive, Collected, ghost
<1>2. /\ Stamp[e] \in Nat /\ Lag[e] \in Nat /\ clock \in Nat
      /\ Stamp[e] <= clock /\ clock <= Stamp[e] + Lag[e]
  BY <1>1, Bounds DEF SyncTypeOK, Arrive, Time
<1>3. SyncTypeOK'
  BY <1>1, <1>2 DEF SyncTypeOK
<1>4. CursorInv'
  <2> SUFFICES ASSUME NEW c \in state.cursor, NEW d \in arrived' \ (written \cup behind)
               PROVE  Follows(d, c, state.truncated)
    BY <1>1 DEF CursorInv
  <2>1. c \in Nat /\ c <= clock
    BY <1>1, Bounds DEF SyncTypeOK, StateType, Time
  <2>2. CASE d = e
    BY <1>2, <2>1, <2>2 DEF Follows
  <2>3. CASE d \in arrived
    BY <2>3 DEF SyncInv, CursorInv
  <2> QED BY <1>1, <2>2, <2>3
<1>5. /\ WindowInv' /\ Watched' /\ Imported' /\ CollectedInv' /\ NameFree' /\ RetriesLeft'
      /\ NothingUnwatched' /\ (run.pc \notin Collected => run.left = {})'
      /\ (LatenessWithinOverlap => NoHole)'
  BY <1>1
  DEF SyncInv, WindowInv, Resume, Watched, Queued, Imported, CollectedInv, NameFree, RetriesLeft,
      CanRetry, NothingUnwatched, NoHole
<1> QED BY <1>3, <1>4, <1>5 DEF SyncInv

LEMMA TickKept ==
  ASSUME SyncInv, Tick
  PROVE  SyncInv'
<1>1. /\ SyncTypeOK /\ run.pc = "idle" /\ clock' = clock + 1 /\ clock < MaxClock
      /\ UNCHANGED <<lookbacks, arrived, state, run, landed, written, behind>>
  BY DEF SyncInv, Tick, ghost
<1>2. SyncTypeOK'
  <2>1. clock' \in Time /\ clock \in Nat
    BY <1>1, Bounds DEF SyncTypeOK, Time
  <2>2. \A e \in arrived : Stamp[e] <= clock'
    BY <1>1, <2>1, Bounds DEF SyncTypeOK
  <2>3. \A c \in state.cursor : c <= clock'
    BY <1>1, <2>1, Bounds DEF SyncTypeOK, StateType, Time
  <2> QED BY <1>1, <2>1, <2>2, <2>3 DEF SyncTypeOK
<1>3. /\ CursorInv' /\ WindowInv' /\ Watched' /\ Imported' /\ CollectedInv' /\ NameFree'
      /\ RetriesLeft' /\ NothingUnwatched' /\ (run.pc \notin Collected => run.left = {})'
      /\ (LatenessWithinOverlap => NoHole)'
  BY <1>1
  DEF SyncInv, CursorInv, WindowInv, Watched, Queued, Imported, CollectedInv, Collected, NameFree,
      RetriesLeft, CanRetry, NothingUnwatched, NoHole
<1> QED BY <1>2, <1>3 DEF SyncInv

-----------------------------------------------------------------------------
(***************************************************************************)
(* Theorems                                                                *)
(***************************************************************************)

LEMMA SyncStep == SyncInv /\ [Next]_vars => SyncInv'
<1> SUFFICES ASSUME SyncInv, [Next]_vars PROVE SyncInv'
  OBVIOUS
<1>1. ASSUME NEW verdict \in Checks, NEW part \in SUBSET Queued, Fire(verdict, part)
      PROVE  SyncInv'
  BY <1>1, BeginKept DEF Fire
<1>2. CASE \E e \in Records : Arrive(e)
  BY <1>2, ArriveKept
<1>3. CASE Collect \/ StartImport \/ Commit \/ RunEnds \/ Tick
  BY <1>3, CollectKept, StartImportKept, CommitKept, RunEndsKept, TickKept
<1>4. CASE UNCHANGED vars
  <2>1. UNCHANGED <<clock, lookbacks, arrived, state, run, landed, written, behind>>
    BY <1>4 DEF vars, env, ghost
  <2> QED
    BY <2>1
    DEF SyncInv, SyncTypeOK, CursorInv, WindowInv, Resume, Watched, Queued, Imported,
        CollectedInv, Cursor, NameFree, RetriesLeft, CanRetry, NothingUnwatched, NoHole
<1> QED BY <1>1, <1>2, <1>3, <1>4 DEF Next

\* The inductive invariant holds of every behaviour.
THEOREM SyncInvariant == Spec => []SyncInv
<1>1. Init => SyncInv
  BY SyncInitial
<1>2. SyncInv /\ [Next]_vars => SyncInv'
  BY SyncStep
<1> QED BY <1>1, <1>2, PTL DEF Spec

\* State, queue and run keep their types; the attempts and the missed checks that
\* the state stores stay within their limits. Only what is stored is bounded: a run
\* that ends after StartImport stores nothing, and the next one repeats the attempt.
THEOREM SyncTypeCorrect == Spec => []SyncTypeOK
<1>1. SyncInv => SyncTypeOK
  BY DEF SyncInv
<1> QED BY <1>1, SyncInvariant, PTL

\* The cursor never passes a record whose indexing nobody watches, whatever the
\* imports of several runs answer and wherever a run ends.
THEOREM EverythingIsWatched == Spec => []NothingUnwatched
<1>1. SyncInv => NothingUnwatched
  BY DEF SyncInv
<1> QED BY <1>1, SyncInvariant, PTL

\* With mail no later than the overlap, a run that resumes at the cursor leaves
\* no record behind it that was not collected, but behind a truncated run.
THEOREM WindowsLeaveNoHole ==
  ASSUME LatenessWithinOverlap
  PROVE  Spec => []NoHole
<1>1. SyncInv => NoHole
  BY DEF SyncInv
<1> QED BY <1>1, SyncInvariant, PTL
=============================================================================
