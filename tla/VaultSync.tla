----------------------------- MODULE VaultSync ------------------------------
(***************************************************************************)
(* The incremental sync of the vault repository into vault_notes and       *)
(* vault_chunks: runVaultSync (lib/vault/sync.ts) over the transactions of *)
(* lib/vault/store.ts.  Nothing keeps two runs from overlapping.           *)
(*                                                                         *)
(* A tree maps each in-scope path to its blob, or to Absent.               *)
(***************************************************************************)
EXTENDS Naturals, FiniteSetsExt

CONSTANTS
  Paths,          \* in-scope paths, numbered in tree order
  Blobs,          \* contents, by their SHA
  Models,         \* embedding models, numbered in the order of their use
  Runs,           \* sync runs that may be under way at once
  Scheduled,      \* those a scheduler calls again and again
  Poison,         \* paths whose note cannot be indexed
  MaxNotes,       \* maxNotesPerRun
  MaxFailures,    \* MAX_CONSECUTIVE_FAILURES
  MaxPushes,      \* bound: commits of the vault after the first
  Absent

ASSUME VaultAssumption ==
  /\ Paths \subseteq Nat /\ IsFiniteSet(Paths)
  /\ Models \subseteq Nat /\ Models # {} /\ IsFiniteSet(Models)
  /\ Poison \subseteq Paths /\ Scheduled \subseteq Runs
  /\ {MaxNotes, MaxFailures} \subseteq Nat \ {0} /\ MaxPushes \in Nat
  /\ Absent \notin Blobs

VARIABLES
  head,     \* the tree of the vault's newest commit
  pushes,   \* number of commits
  active,   \* EMBEDDING_MODEL of the deployed revision
  note,     \* the vault_notes row and the chunks of each path
  run       \* the sync runs

vars == <<head, pushes, active, note, run>>

Tree == [Paths -> Blobs \cup {Absent}]
Note == [live : BOOLEAN, blob : Blobs \cup {Absent}, model : Models,
         chunks : Blobs \cup {Absent}]
Run  == [pc : {"idle", "head", "list", "tombstone", "notes", "finish"}, tree : Tree,
         model : Models, todo : SUBSET Paths, gone : SUBSET Paths, quota : 0 .. MaxNotes,
         failed : SUBSET Paths, streak : 0 .. MaxFailures, alone : BOOLEAN]
NoRun == [pc |-> "idle", tree |-> [p \in Paths |-> Absent], model |-> active,
          todo |-> {}, gone |-> {}, quota |-> 0, failed |-> {}, streak |-> 0,
          alone |-> TRUE]

VaultTypeOK ==
  /\ head \in Tree
  /\ pushes \in 0 .. MaxPushes
  /\ active \in Models
  /\ note \in [Paths -> Note]
  /\ run \in [Runs -> Run]

Init ==
  /\ head \in Tree
  /\ pushes = 0
  /\ active = Min(Models)
  /\ note = [p \in Paths |-> [live |-> FALSE, blob |-> Absent, model |-> active,
                              chunks |-> Absent]]
  /\ run = [r \in Runs |-> NoRun]

Underway(r) == run[r].pc # "idle"
Over(r) == run' = [run EXCEPT ![r] = NoRun]

\* Mutant: a tombstoned note whose blob comes back is taken for indexed.
UnchangedDead(p, r) ==
  note[p].blob = run[r].tree[p] /\ note[p].model = run[r].model

\* A note that needs no indexing (the filter for toIndex).
Unchanged(p, r) ==
  /\ note[p].live
  /\ note[p].blob = run[r].tree[p]
  /\ note[p].model = run[r].model

-----------------------------------------------------------------------------
(***************************************************************************)
(* A run                                                                   *)
(***************************************************************************)
\* startRun.
Start(r) ==
  /\ ~Underway(r)
  /\ LET others == {q \in Runs \ {r} : Underway(q)}
     IN  run' = [q \in Runs |->
           IF q = r THEN [NoRun EXCEPT !.pc = "head", !.alone = others = {}]
           ELSE IF q \in others THEN [run[q] EXCEPT !.alone = FALSE]
           ELSE run[q]]
  /\ UNCHANGED <<head, pushes, active, note>>

\* getHead and getTree; the tree of a commit does not change.
ReadTree(r) ==
  /\ run[r].pc = "head"
  /\ run' = [run EXCEPT ![r] = [@ EXCEPT !.pc = "list", !.tree = head]]
  /\ UNCHANGED <<head, pushes, active, note>>

\* listNoteIndex, and the diff.
ListIndex(r) ==
  /\ run[r].pc = "list"
  /\ LET present == {p \in Paths : run[r].tree[p] # Absent}
         changed == {p \in present : ~Unchanged(p, r)}
     IN  run' = [run EXCEPT ![r] = [@ EXCEPT
           !.pc = "tombstone",
           !.todo = changed,
           !.gone = {p \in Paths \ present : note[p].live},
           !.quota = MaxNotes]]
  /\ UNCHANGED <<head, pushes, active, note>>

\* Mutant: the chunks stay.
TombstonedRowOnly(n) == [n EXCEPT !.live = FALSE]

\* tombstoneNotes: one transaction over the rows that are still live.
Tombstoned(n) == [n EXCEPT !.live = FALSE, !.chunks = Absent]

Tombstone(r) ==
  /\ run[r].pc = "tombstone"
  /\ note' = [p \in Paths |->
                IF p \in run[r].gone /\ note[p].live THEN Tombstoned(note[p])
                ELSE note[p]]
  /\ run' = [run EXCEPT ![r].pc = "notes"]
  /\ UNCHANGED <<head, pushes, active>>

\* Mutant: the batch is not cut off.
MoreNotesUnbounded(r) == run[r].pc = "notes" /\ run[r].todo # {}

MoreNotes(r) == run[r].pc = "notes" /\ run[r].todo # {} /\ run[r].quota > 0

\* Notes are indexed in tree order.
NextNote(r) == Min(run[r].todo)

\* getBlob, every embedding, then promoteNote, one transaction.
Promote(r) ==
  /\ MoreNotes(r)
  /\ LET p == NextNote(r)
     IN  /\ p \notin Poison
         /\ note' = [note EXCEPT ![p] =
              [live |-> TRUE, blob |-> run[r].tree[p], model |-> run[r].model,
               chunks |-> run[r].tree[p]]]
  /\ run' = [run EXCEPT ![r] = [@ EXCEPT
       !.todo = run[r].todo \ {NextNote(r)}, !.quota = run[r].quota - 1, !.streak = 0]]
  /\ UNCHANGED <<head, pushes, active>>

\* Any of them fails; the previous version stays.  systemic: the failure of a
\* provider, which every further note would meet.
NoteFails(r, systemic) ==
  /\ MoreNotes(r)
  /\ LET stops == systemic \/ run[r].streak + 1 >= MaxFailures
     IN  run' = [run EXCEPT ![r] = [@ EXCEPT
           !.pc = IF stops THEN "finish" ELSE "notes",
           !.todo = run[r].todo \ {NextNote(r)},
           !.failed = run[r].failed \cup {NextNote(r)},
           !.quota = run[r].quota - 1, !.streak = run[r].streak + 1]]
  /\ UNCHANGED <<head, pushes, active, note>>

\* The run's deadline, looked at before each note.
Deadline(r) ==
  /\ MoreNotes(r)
  /\ run' = [run EXCEPT ![r].pc = "finish"]
  /\ UNCHANGED <<head, pushes, active, note>>

BatchEnds(r) ==
  /\ run[r].pc = "notes"
  /\ ~MoreNotes(r)
  /\ run' = [run EXCEPT ![r].pc = "finish"]
  /\ UNCHANGED <<head, pushes, active, note>>

\* Mutant: notes beyond the batch are forgotten.
StatusOfBatch(r) ==
  IF run[r].failed # {} THEN "completed_with_failures" ELSE "completed"

\* What the run reports; a run with nothing to index or tombstone is a no-op.
Status(r) ==
  CASE run[r].todo # {} -> "incomplete"
    [] run[r].todo = {} /\ run[r].failed # {} -> "completed_with_failures"
    [] run[r].todo = {} /\ run[r].failed = {} ->
         IF run[r].quota = MaxNotes /\ run[r].gone = {} THEN "noop" ELSE "completed"

\* finishRun, best-effort: no later run reads the status.
Finish(r) ==
  /\ run[r].pc = "finish"
  /\ Over(r)
  /\ UNCHANGED <<head, pushes, active, note>>

\* GitHub or the store fails, or the tree comes truncated.
RunFails(r) ==
  /\ run[r].pc \in {"head", "list", "tombstone"}
  /\ Over(r)
  /\ UNCHANGED <<head, pushes, active, note>>

\* The instance dies; the ledger row stays 'running'.
RunDies(r) ==
  /\ Underway(r)
  /\ Over(r)
  /\ UNCHANGED <<head, pushes, active, note>>

-----------------------------------------------------------------------------
(***************************************************************************)
(* The vault and the deployment                                            *)
(***************************************************************************)
Push ==
  /\ pushes < MaxPushes
  /\ pushes' = pushes + 1
  /\ \E p \in Paths, b \in Blobs \cup {Absent} :
       head[p] # b /\ head' = [head EXCEPT ![p] = b]
  /\ UNCHANGED <<active, note, run>>

\* A revision with the next model is deployed; a run of the old one goes on.
NewModel ==
  /\ LET later == {m \in Models : m > active}
     IN  later # {} /\ active' = Min(later)
  /\ UNCHANGED <<head, pushes, note, run>>

Step(r) ==
  \/ Start(r) \/ ReadTree(r) \/ ListIndex(r) \/ Tombstone(r) \/ Promote(r)
  \/ \E systemic \in BOOLEAN : NoteFails(r, systemic)
  \/ Deadline(r) \/ BatchEnds(r) \/ Finish(r) \/ RunFails(r) \/ RunDies(r)

Next == Push \/ NewModel \/ \E r \in Runs : Step(r)

Spec == Init /\ [][Next]_vars

\* The scheduler calls again and again; what is tried for ever succeeds, or
\* fails for this note alone, some time.
Fairness ==
  \A r \in Scheduled :
    /\ WF_vars(Start(r)) /\ WF_vars(BatchEnds(r)) /\ WF_vars(Finish(r))
    /\ SF_vars(ReadTree(r)) /\ SF_vars(ListIndex(r)) /\ SF_vars(Tombstone(r))
    /\ SF_vars(Promote(r)) /\ SF_vars(NoteFails(r, FALSE))

FairSpec == Spec /\ Fairness

-----------------------------------------------------------------------------
(***************************************************************************)
(* Properties                                                              *)
(***************************************************************************)
Current(p, tree, model) ==
  IF tree[p] = Absent THEN ~note[p].live
  ELSE note[p].live /\ note[p].blob = tree[p] /\ note[p].model = model

\* What search can find of a note is what its row says, whole, also when runs
\* overlap, fail or die at any note: old chunks until new ones are complete,
\* none for a tombstone (atomic promotion, lib/vault/sync.ts:18-25).
NoteIsWhole ==
  \A p \in Paths : note[p].chunks = IF note[p].live THEN note[p].blob ELSE Absent

\* A run no other run overlapped that calls itself complete, or finds nothing
\* to do, leaves the index exactly at its commit and its model.
CleanRunIsExact ==
  \A r \in Runs :
    run[r].pc = "finish" /\ run[r].alone /\ Status(r) \in {"completed", "noop"} =>
      \A p \in Paths : Current(p, run[r].tree, run[r].model)

\* The batch is the front of toIndex, and a note that cannot be indexed stays in
\* front in every run: notes behind MaxNotes such notes, or MaxFailures of them
\* in a row, are never come to.  Counted here are all in front, in a row or not.
InReach(p) ==
  Cardinality({q \in Poison : q < p /\ head[q] # Absent}) < Min({MaxNotes, MaxFailures})

\* Once the vault rests, the index reaches its newest commit and stays there,
\* past notes that fail and whatever overlapping runs of older commits wrote
\* before: "the next run picks up where this one stopped because the diff is by
\* SHA, not by run" (lib/vault/sync.ts:30-32), for the notes in reach.
IndexCatchesUp ==
  <>[](\A p \in Paths \ Poison :
         head[p] = Absent \/ InReach(p) => Current(p, head, active))
=============================================================================
