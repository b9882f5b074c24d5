-------------------------- MODULE VaultSyncProofs --------------------------
(***************************************************************************)
(* Safety of VaultSync for every finite set of paths and models, any       *)
(* contents, any number of overlapping runs and any number of commits.     *)
(*                                                                         *)
(* NoteIsWhole is kept by each transaction alone.  CleanRunIsExact is not: *)
(* what a run that ends may claim was settled by its diff, its tombstones  *)
(* and each of its promotions.  Accounted(r) carries it through the run:   *)
(* as long as no other run overlaps r, a path that is not at r's commit is *)
(* still to be done, or failed.                                            *)
(***************************************************************************)
EXTENDS VaultSync, WellFoundedInduction, TLAPS

Working(r) == run[r].pc \in {"notes", "finish"}

Indexed(r) == run[r].pc = "tombstone" \/ Working(r)

Accounted(r) ==
  /\ \A q \in Runs \ {r} : ~Underway(q)
  /\ Indexed(r) => \A p \in run[r].todo : run[r].tree[p] # Absent
  /\ run[r].pc = "tombstone" =>
       \A p \in Paths :
         IF run[r].tree[p] = Absent THEN note[p].live => p \in run[r].gone
         ELSE p \notin run[r].gone /\ (Unchanged(p, r) \/ p \in run[r].todo)
  /\ Working(r) =>
       \A p \in Paths :
         IF run[r].tree[p] = Absent THEN ~note[p].live
         ELSE Unchanged(p, r) \/ p \in run[r].todo \cup run[r].failed

\* Only a run that has stopped has reached the limit of failures in a row.
StreakBounded == \A r \in Runs : run[r].pc # "finish" => run[r].streak < MaxFailures

VInv ==
  /\ VaultTypeOK
  /\ StreakBounded
  /\ NoteIsWhole
  /\ \A r \in Runs : Underway(r) /\ run[r].alone => Accounted(r)

-----------------------------------------------------------------------------
(***************************************************************************)
(* Least elements                                                          *)
(***************************************************************************)

\* Every set of numbers that is not empty has its minimum among its members.
LEMMA MinOfNats ==
  ASSUME NEW S \in SUBSET Nat, S # {}
  PROVE  Min(S) \in S
<1>1. PICK m \in S : \A n \in S : ~(<<n, m>> \in OpToRel(<, Nat))
  BY NatLessThanWellFounded, WFMin
<1>2. \A n \in S : n < m => <<n, m>> \in OpToRel(<, Nat)
  BY DEF OpToRel
<1>3. \A n \in S : ~(n < m)
  BY <1>1, <1>2
<1>4. \A n \in S : m =< n
  BY <1>3
<1> QED BY <1>4 DEF Min

LEMMA Bounds == MaxNotes \in Nat \ {0} /\ MaxFailures \in Nat \ {0} /\ MaxPushes \in Nat
BY VaultAssumption

LEMMA NextNoteType ==
  ASSUME VaultTypeOK, NEW r \in Runs, MoreNotes(r)
  PROVE  NextNote(r) \in run[r].todo /\ NextNote(r) \in Paths
<1>1. run[r].todo \in SUBSET Nat /\ run[r].todo # {} /\ run[r].todo \subseteq Paths
  BY VaultAssumption DEF VaultTypeOK, Run, MoreNotes
<1> QED BY <1>1, MinOfNats DEF NextNote

LEMMA NoRunType ==
  ASSUME VaultTypeOK
  PROVE  NoRun \in Run /\ NoRun.pc = "idle" /\ NoRun.streak = 0
BY Bounds DEF VaultTypeOK, NoRun, Run, Tree

-----------------------------------------------------------------------------
(***************************************************************************)
(* Types                                                                   *)
(***************************************************************************)

LEMMA VaultInit == Init => VInv
<1> SUFFICES ASSUME Init PROVE VInv
  OBVIOUS
<1>1. active \in Models
  <2>1. Models \in SUBSET Nat /\ Models # {}
    BY VaultAssumption
  <2> QED BY <2>1, MinOfNats DEF Init
<1>2. NoRun \in Run
  BY <1>1, Bounds DEF NoRun, Run, Tree
<1>3. VaultTypeOK
  BY <1>1, <1>2, Bounds DEF Init, VaultTypeOK, Note
<1>4. \A r \in Runs : run[r].pc = "idle"
  BY DEF Init, NoRun
<1>6. StreakBounded
  BY Bounds DEF Init, NoRun, StreakBounded
<1>5. NoteIsWhole
  BY DEF Init, NoteIsWhole
<1> QED BY <1>3, <1>4, <1>5, <1>6 DEF VInv, Underway

\* A step of a run rewrites its record, and may end it.
LEMMA RunUpdate ==
  ASSUME VaultTypeOK, StreakBounded, NEW r \in Runs, NEW v \in Run,
         v.pc # "finish" => v.streak < MaxFailures,
         run' = [run EXCEPT ![r] = v]
  PROVE  run' \in [Runs -> Run] /\ StreakBounded'
BY DEF VaultTypeOK, StreakBounded

LEMMA VaultTypeStep ==
  ASSUME VaultTypeOK, StreakBounded, NEW r \in Runs, Step(r)
  PROVE  VaultTypeOK' /\ StreakBounded'
<1>r. run[r] \in Run
  BY DEF VaultTypeOK
<1>1. CASE Start(r)
  <2>1. [NoRun EXCEPT !.pc = "head", !.alone = {q \in Runs \ {r} : Underway(q)} = {}] \in Run
    BY NoRunType DEF Run
  <2>2. \A q \in Runs : [run[q] EXCEPT !.alone = FALSE] \in Run
    BY DEF Run, VaultTypeOK
  <2>3. run' \in [Runs -> Run]
    BY <1>1, <2>1, <2>2 DEF Start, VaultTypeOK
  <2>4. StreakBounded'
    <3>1. run'[r].streak = 0
      BY <1>1, NoRunType DEF Start, Run
    <3>2. \A q \in Runs \ {r} : run'[q].streak = run[q].streak /\ run'[q].pc = run[q].pc
      BY <1>1 DEF Start, VaultTypeOK, Run
    <3> QED BY <3>1, <3>2, Bounds DEF StreakBounded
  <2> QED BY <1>1, <2>3, <2>4 DEF Start, VaultTypeOK
<1>2. CASE ReadTree(r)
  <2> DEFINE v == [run[r] EXCEPT !.pc = "list", !.tree = head]
  <2>1. v \in Run /\ v.streak < MaxFailures
    BY <1>2, <1>r DEF ReadTree, Run, VaultTypeOK, StreakBounded
  <2>2. run' = [run EXCEPT ![r] = v]
    BY <1>2 DEF ReadTree
  <2> HIDE DEF v
  <2> QED BY <1>2, <2>1, <2>2, RunUpdate DEF ReadTree, VaultTypeOK
<1>3. CASE ListIndex(r)
  <2>1. PICK todo \in SUBSET Paths, gone \in SUBSET Paths :
          run' = [run EXCEPT ![r] = [run[r] EXCEPT !.pc = "tombstone", !.todo = todo,
                                                   !.gone = gone, !.quota = MaxNotes]]
    BY <1>3 DEF ListIndex
  <2> DEFINE v == [run[r] EXCEPT !.pc = "tombstone", !.todo = todo, !.gone = gone,
                                 !.quota = MaxNotes]
  <2>2. v \in Run /\ v.streak < MaxFailures
    <3>1. MaxNotes \in 0 .. MaxNotes /\ run[r].streak < MaxFailures
      BY <1>3, Bounds DEF ListIndex, StreakBounded
    <3> QED BY <1>r, <3>1 DEF Run
  <2>3. run' = [run EXCEPT ![r] = v]
    BY <2>1
  <2> HIDE DEF v
  <2> QED BY <1>3, <2>2, <2>3, RunUpdate DEF ListIndex, VaultTypeOK
<1>4. CASE Tombstone(r)
  <2>1. \A p \in Paths : Tombstoned(note[p]) \in Note
    BY DEF Tombstoned, Note, VaultTypeOK
  <2> DEFINE v == [run[r] EXCEPT !.pc = "notes"]
  <2>2. v \in Run /\ v.streak < MaxFailures
    BY <1>4, <1>r DEF Tombstone, Run, StreakBounded
  <2>3. run' = [run EXCEPT ![r] = v]
    BY <1>4 DEF Tombstone
  <2> HIDE DEF v
  <2> QED BY <1>4, <2>1, <2>2, <2>3, RunUpdate DEF Tombstone, VaultTypeOK
<1>5. CASE Promote(r)
  <2>1. NextNote(r) \in Paths
    BY <1>5, NextNoteType DEF Promote
  <2> DEFINE v == [run[r] EXCEPT !.todo = run[r].todo \ {NextNote(r)},
                                 !.quota = run[r].quota - 1, !.streak = 0]
  <2>2. v \in Run /\ v.streak < MaxFailures
    <3>1. run[r].quota \in 0 .. MaxNotes /\ run[r].quota > 0
      BY <1>5, <1>r DEF Promote, MoreNotes, Run
    <3>2. run[r].quota - 1 \in 0 .. MaxNotes /\ 0 \in 0 .. MaxFailures /\ 0 < MaxFailures
      BY <3>1, Bounds
    <3> QED BY <1>r, <3>2 DEF Run
  <2>3. run' = [run EXCEPT ![r] = v]
    BY <1>5 DEF Promote
  <2>4. note' \in [Paths -> Note]
    BY <1>5, <1>r, <2>1 DEF Promote, Note, Run, Tree, VaultTypeOK
  <2> HIDE DEF v
  <2> QED BY <1>5, <2>2, <2>3, <2>4, RunUpdate DEF Promote, VaultTypeOK
<1>6. ASSUME NEW systemic \in BOOLEAN, NoteFails(r, systemic)
      PROVE  VaultTypeOK' /\ StreakBounded'
  <2>1. NextNote(r) \in Paths
    BY <1>6, NextNoteType DEF NoteFails
  <2> DEFINE stops == systemic \/ run[r].streak + 1 >= MaxFailures
             v == [run[r] EXCEPT !.pc = IF stops THEN "finish" ELSE "notes",
                                 !.todo = run[r].todo \ {NextNote(r)},
                                 !.failed = run[r].failed \cup {NextNote(r)},
                                 !.quota = run[r].quota - 1, !.streak = run[r].streak + 1]
  <2>2. /\ run[r].streak \in 0 .. MaxFailures /\ run[r].streak < MaxFailures
        /\ run[r].quota \in 0 .. MaxNotes /\ run[r].quota > 0
    BY <1>6, <1>r DEF NoteFails, MoreNotes, StreakBounded, Run
  <2>3. v \in Run /\ (v.pc # "finish" => v.streak < MaxFailures)
    <3>1. /\ run[r].quota - 1 \in 0 .. MaxNotes
          /\ run[r].streak + 1 \in 0 .. MaxFailures
          /\ ~stops => run[r].streak + 1 < MaxFailures
      BY <2>2, Bounds
    <3> HIDE DEF stops
    <3> QED BY <1>r, <2>1, <3>1 DEF Run
  <2>4. run' = [run EXCEPT ![r] = v]
    BY <1>6 DEF NoteFails
  <2> HIDE DEF v
  <2> QED BY <1>6, <2>3, <2>4, RunUpdate DEF NoteFails, VaultTypeOK
<1>7. CASE Deadline(r) \/ BatchEnds(r)
  <2> DEFINE v == [run[r] EXCEPT !.pc = "finish"]
  <2>1. v \in Run /\ v.pc = "finish"
    BY <1>r DEF Run
  <2>2. run' = [run EXCEPT ![r] = v]
    BY <1>7 DEF Deadline, BatchEnds
  <2> HIDE DEF v
  <2> QED BY <1>7, <2>1, <2>2, RunUpdate DEF Deadline, BatchEnds, VaultTypeOK
<1>8. CASE Finish(r) \/ RunFails(r) \/ RunDies(r)
  <2> DEFINE v == NoRun
  <2>1. v \in Run /\ v.streak < MaxFailures
    BY NoRunType, Bounds
  <2>2. run' = [run EXCEPT ![r] = v]
    BY <1>8 DEF Finish, RunFails, RunDies, Over
  <2> HIDE DEF v
  <2> QED BY <1>8, <2>1, <2>2, RunUpdate DEF Finish, RunFails, RunDies, VaultTypeOK
<1> QED BY <1>1, <1>2, <1>3, <1>4, <1>5, <1>6, <1>7, <1>8 DEF Step

\* A commit and a new revision touch neither notes nor runs.
LEMMA WorldTypeStep ==
  ASSUME VaultTypeOK, Push \/ NewModel
  PROVE  VaultTypeOK' /\ UNCHANGED <<note, run>>
<1>1. CASE Push
  <2>1. pushes' \in 0 .. MaxPushes
    BY <1>1, Bounds DEF Push, VaultTypeOK
  <2>2. head' \in Tree
    BY <1>1 DEF Push, VaultTypeOK, Tree
  <2> QED BY <1>1, <2>1, <2>2 DEF Push, VaultTypeOK
<1>2. CASE NewModel
  <2> DEFINE later == {m \in Models : m > active}
  <2>1. later \in SUBSET Nat /\ later \subseteq Models
    BY VaultAssumption
  <2>2. later # {} /\ active' = Min(later)
    BY <1>2 DEF NewModel
  <2> HIDE DEF later
  <2>3. active' \in Models
    BY <2>1, <2>2, MinOfNats
  <2> QED BY <1>2, <2>3 DEF NewModel, VaultTypeOK
<1> QED BY <1>1, <1>2

-----------------------------------------------------------------------------
(***************************************************************************)
(* Notes                                                                   *)
(***************************************************************************)

\* Each transaction leaves a row and its chunks in step.
LEMMA WholeStep ==
  ASSUME VaultTypeOK, NoteIsWhole, NEW r \in Runs, Step(r)
  PROVE  NoteIsWhole'
<1>1. CASE Tombstone(r)
  BY <1>1 DEF Tombstone, Tombstoned, NoteIsWhole, VaultTypeOK, Note
<1>2. CASE Promote(r)
  <2>1. NextNote(r) \in Paths
    BY <1>2, NextNoteType DEF Promote
  <2> QED BY <1>2, <2>1 DEF Promote, NoteIsWhole, VaultTypeOK, Note
<1>3. CASE UNCHANGED note
  BY <1>3 DEF NoteIsWhole
<1> QED
  BY <1>1, <1>2, <1>3
  DEF Step, Start, ReadTree, ListIndex, NoteFails, Deadline, BatchEnds, Finish, RunFails, RunDies

-----------------------------------------------------------------------------
(***************************************************************************)
(* A run alone                                                             *)
(***************************************************************************)

\* A step that begins no run is one of a run under way, and touches no other.
LEMMA OwnStep ==
  ASSUME NEW r \in Runs, Step(r), ~Start(r)
  PROVE  Underway(r) /\ \E v : run' = [run EXCEPT ![r] = v]
<1>1. ASSUME NEW systemic \in BOOLEAN, NoteFails(r, systemic)
      PROVE  Underway(r) /\ \E v : run' = [run EXCEPT ![r] = v]
  BY <1>1 DEF NoteFails, MoreNotes, Underway
<1> QED
  BY <1>1
  DEF Step, ReadTree, ListIndex, Tombstone, Promote, MoreNotes, Deadline, BatchEnds,
      Finish, RunFails, RunDies, Over, Underway

\* So a run that is alone after a step of another run was not under way.
LEMMA NotAnother ==
  ASSUME VInv, NEW r \in Runs, Step(r), NEW q \in Runs \ {r}
  PROVE  ~(Underway(q)' /\ run'[q].alone)
<1>1. CASE Start(r)
  BY <1>1 DEF Start, Underway, VInv, VaultTypeOK, Run
<1>2. CASE ~Start(r)
  <2>1. run'[q] = run[q] /\ Underway(r)
    BY <1>2, OwnStep DEF VInv, VaultTypeOK
  <2>2. Underway(q) /\ run[q].alone => Accounted(q)
    BY DEF VInv
  <2> QED BY <2>1, <2>2 DEF Accounted, Underway
<1> QED BY <1>1, <1>2

LEMMA AccountedStep ==
  ASSUME VInv, NEW r \in Runs, Step(r), Underway(r)', run'[r].alone
  PROVE  Accounted(r)'
<1>r. VaultTypeOK /\ run[r] \in Run /\ (Underway(r) /\ run[r].alone => Accounted(r))
  BY DEF VInv, VaultTypeOK
<1>1. CASE Start(r)
  <2>1. run'[r].pc = "head" /\ \A q \in Runs \ {r} : ~Underway(q)
    BY <1>1, <1>r, NoRunType DEF Start, Underway, Run
  <2>2. \A q \in Runs \ {r} : run'[q] = run[q]
    BY <1>1, <2>1 DEF Start
  <2> QED BY <2>1, <2>2 DEF Accounted, Underway, Indexed, Working
<1>2. CASE ~Start(r)
  <2>1. Underway(r) /\ \A q \in Runs \ {r} : run'[q] = run[q]
    BY <1>2, <1>r, OwnStep DEF VaultTypeOK
  <2>2. run[r].alone => Accounted(r) /\ \A q \in Runs \ {r} : ~Underway(q)'
    BY <2>1, <1>r DEF Accounted, Underway
  <2>3. CASE ReadTree(r)
    <3>1. run'[r].pc = "list" /\ run[r].alone
      BY <2>3, <1>r DEF ReadTree, VaultTypeOK, Run
    <3> QED BY <3>1, <2>2 DEF Accounted, Indexed, Working
  <2>4. CASE ListIndex(r)
    <3> DEFINE present == {p \in Paths : run[r].tree[p] # Absent}
    <3>1. /\ run'[r].pc = "tombstone" /\ run'[r].tree = run[r].tree
          /\ run'[r].model = run[r].model /\ run[r].alone
          /\ run'[r].todo = {p \in present : ~Unchanged(p, r)}
          /\ run'[r].gone = {p \in Paths \ present : note[p].live}
          /\ note' = note
      BY <2>4, <1>r DEF ListIndex, VaultTypeOK, Run
    <3>2. \A p \in Paths : Unchanged(p, r)' <=> Unchanged(p, r)
      BY <3>1 DEF Unchanged
    <3> QED BY <3>1, <3>2, <2>2 DEF Accounted, Indexed, Working
  <2>5. CASE Tombstone(r)
    <3>1. /\ run[r].pc = "tombstone" /\ run'[r].pc = "notes" /\ run[r].alone
          /\ run'[r].tree = run[r].tree /\ run'[r].model = run[r].model
          /\ run'[r].todo = run[r].todo /\ run'[r].failed = run[r].failed
      BY <2>5, <1>r DEF Tombstone, VaultTypeOK, Run
    <3>2. \A p \in Paths :
            IF p \in run[r].gone /\ note[p].live THEN ~note'[p].live
            ELSE note'[p] = note[p]
      BY <2>5, <1>r DEF Tombstone, Tombstoned, VaultTypeOK, Note
    <3>3. \A p \in Paths :
            IF run[r].tree[p] = Absent THEN note[p].live => p \in run[r].gone
            ELSE p \notin run[r].gone /\ (Unchanged(p, r) \/ p \in run[r].todo)
      BY <3>1, <2>2 DEF Accounted
    <3>4. \A p \in Paths : note'[p] = note[p] => (Unchanged(p, r)' <=> Unchanged(p, r))
      BY <3>1 DEF Unchanged
    <3> QED BY <3>1, <3>2, <3>3, <3>4, <2>2 DEF Accounted, Indexed, Working
  <2>6. CASE Promote(r)
    <3>1. PICK n \in Paths : n = NextNote(r) /\ n \in run[r].todo
      BY <2>6, <1>r, NextNoteType DEF Promote
    <3>2. /\ run[r].pc = "notes" /\ run'[r].pc = "notes" /\ run[r].alone
          /\ run'[r].tree = run[r].tree /\ run'[r].model = run[r].model
          /\ run'[r].todo = run[r].todo \ {n} /\ run'[r].failed = run[r].failed
      BY <2>6, <1>r, <3>1 DEF Promote, MoreNotes, VaultTypeOK, Run
    <3>3. /\ note'[n] = [live |-> TRUE, blob |-> run[r].tree[n], model |-> run[r].model,
                         chunks |-> run[r].tree[n]]
          /\ \A p \in Paths \ {n} : note'[p] = note[p]
      BY <2>6, <1>r, <3>1 DEF Promote, VaultTypeOK
    <3>4. Unchanged(n, r)'
      BY <3>2, <3>3 DEF Unchanged
    <3>5. \A p \in Paths \ {n} : Unchanged(p, r)' <=> Unchanged(p, r)
      BY <3>2, <3>3 DEF Unchanged
    <3>6. \A p \in Paths :
            IF run[r].tree[p] = Absent THEN ~note[p].live
            ELSE Unchanged(p, r) \/ p \in run[r].todo \cup run[r].failed
      BY <3>2, <2>2 DEF Accounted, Indexed, Working
    <3> QED BY <3>1, <3>2, <3>3, <3>4, <3>5, <3>6, <2>2 DEF Accounted, Indexed, Working
  <2>7. ASSUME NEW systemic \in BOOLEAN, NoteFails(r, systemic)
        PROVE  Accounted(r)'
    <3>1. PICK n \in Paths : n = NextNote(r) /\ n \in run[r].todo
      BY <2>7, <1>r, NextNoteType DEF NoteFails
    <3>2. /\ run[r].pc = "notes" /\ run'[r].pc \in {"notes", "finish"} /\ run[r].alone
          /\ run'[r].tree = run[r].tree /\ run'[r].model = run[r].model
          /\ run'[r].todo = run[r].todo \ {n} /\ run'[r].failed = run[r].failed \cup {n}
          /\ note' = note
      BY <2>7, <1>r, <3>1 DEF NoteFails, MoreNotes, VaultTypeOK, Run
    <3>3. \A p \in Paths : Unchanged(p, r)' <=> Unchanged(p, r)
      BY <3>2 DEF Unchanged
    <3> QED BY <3>1, <3>2, <3>3, <2>2 DEF Accounted, Indexed, Working
  <2>8. CASE Deadline(r) \/ BatchEnds(r)
    <3>1. /\ run[r].pc = "notes" /\ run'[r].pc = "finish" /\ run[r].alone
          /\ run'[r].tree = run[r].tree /\ run'[r].model = run[r].model
          /\ run'[r].todo = run[r].todo /\ run'[r].failed = run[r].failed
          /\ note' = note
      BY <2>8, <1>r DEF Deadline, BatchEnds, MoreNotes, VaultTypeOK, Run
    <3>2. \A p \in Paths : Unchanged(p, r)' <=> Unchanged(p, r)
      BY <3>1 DEF Unchanged
    <3> QED BY <3>1, <3>2, <2>2 DEF Accounted, Indexed, Working
  <2>9. CASE Finish(r) \/ RunFails(r) \/ RunDies(r)
    <3>1. run'[r].pc = "idle"
      BY <2>9, <1>r DEF Finish, RunFails, RunDies, Over, NoRun, VaultTypeOK
    <3> QED BY <3>1 DEF Underway
  <2> QED BY <1>2, <2>3, <2>4, <2>5, <2>6, <2>7, <2>8, <2>9 DEF Step
<1> QED BY <1>1, <1>2

-----------------------------------------------------------------------------
(***************************************************************************)
(* The theorems                                                            *)
(***************************************************************************)

LEMMA VaultStep == VInv /\ [Next]_vars => VInv'
<1> SUFFICES ASSUME VInv, [Next]_vars PROVE VInv'
  OBVIOUS
<1>1. ASSUME NEW r \in Runs, Step(r) PROVE VInv'
  <2>1. VaultTypeOK' /\ StreakBounded' /\ NoteIsWhole'
    BY <1>1, VaultTypeStep, WholeStep DEF VInv
  <2>2. \A q \in Runs : Underway(q)' /\ run'[q].alone => Accounted(q)'
    BY <1>1, NotAnother, AccountedStep
  <2> QED BY <2>1, <2>2 DEF VInv
<1>2. ASSUME VaultTypeOK', UNCHANGED <<note, run>> PROVE VInv'
  <2>1. \A q \in Runs : \A p \in Paths : Unchanged(p, q)' <=> Unchanged(p, q)
    BY <1>2 DEF Unchanged
  <2>2. \A q \in Runs : Accounted(q)' <=> Accounted(q)
    BY <1>2, <2>1 DEF Accounted, Indexed, Working, Underway
  <2> QED BY <1>2, <2>2 DEF VInv, StreakBounded, NoteIsWhole, Underway
<1>3. CASE UNCHANGED vars
  BY <1>2, <1>3 DEF vars, VInv, VaultTypeOK
<1> QED BY <1>1, <1>2, <1>3, WorldTypeStep DEF Next, VInv

\* The inductive invariant holds of every behaviour of the sync.
THEOREM VaultInvariant == Spec => []VInv
BY VaultInit, VaultStep, PTL DEF Spec

\* The type invariant: among others, the quota and the streak of failures stay
\* within their limits and a tombstone list within the paths.
THEOREM VaultTypeCorrect == Spec => []VaultTypeOK
<1>1. VInv => VaultTypeOK
  BY DEF VInv
<1> QED BY <1>1, VaultInvariant, PTL

\* A note's chunks are those of its row, or gone with it, however runs overlap,
\* fail or die (promoteNote and tombstoneNotes, lib/vault/store.ts).
THEOREM NotesAreWhole == Spec => []NoteIsWhole
<1>1. VInv => NoteIsWhole
  BY DEF VInv
<1> QED BY <1>1, VaultInvariant, PTL

\* A run no other overlapped that reports completed or noop has left the index
\* at exactly its commit and model (the counts of runVaultSync).
THEOREM CleanRunsAreExact == Spec => []CleanRunIsExact
<1>1. VInv => CleanRunIsExact
  <2> SUFFICES ASSUME VInv, NEW r \in Runs, run[r].pc = "finish", run[r].alone,
                      Status(r) \in {"completed", "noop"}, NEW p \in Paths
               PROVE  Current(p, run[r].tree, run[r].model)
    BY DEF CleanRunIsExact
  <2>1. run[r].todo = {} /\ run[r].failed = {}
    BY DEF Status
  <2>2. Accounted(r)
    BY DEF VInv, Underway
  <2> QED BY <2>1, <2>2 DEF Accounted, Working, Current, Unchanged
<1> QED BY <1>1, VaultInvariant, PTL
=============================================================================
