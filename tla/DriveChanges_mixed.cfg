SPECIFICATION SmoothSpec
CONSTANTS
  Files = {1}
  Hubs = {h1, h2}
  Renewals = {r1}
  Chunks = 2
  MaxChanges = 2
  MaxNotes = 2
  MaxFaults = 0
  Channels = {c1, c2}
  NoChannel = none
INVARIANTS OneVersionAtRest
