SPECIFICATION Spec
CONSTANTS
  Files = {1}
  Hubs = {h1}
  Renewals = {r1}
  Chunks = 1
  MaxChanges = 2
  MaxNotes = 1
  MaxFaults = 1
  Channels = {c1, c2}
  NoChannel = none
PROPERTY QueuedPassRuns
