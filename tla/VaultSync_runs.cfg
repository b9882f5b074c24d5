CONSTANTS
  a = a
  b = b
  r1 = r1
  r2 = r2
  Paths = {1, 2, 3}
  Blobs = {a, b}
  Models = {1, 2}
  Runs = {r1, r2}
  Scheduled = {r1}
  Poison = {1}
  MaxNotes = 2
  MaxFailures = 2
  MaxPushes = 1
  Absent = Absent
SPECIFICATION FairSpec
CONSTRAINT SecondChanges
INVARIANTS VaultTypeOK NoteIsWhole CleanRunIsExact
PROPERTIES IndexCatchesUp
