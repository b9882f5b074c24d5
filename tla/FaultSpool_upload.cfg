CONSTANTS
  h1 = h1
  h2 = h2
  MaxFaults = 3
  MaxKills = 1
  SpoolCap = 2
  BatchCap = 2
  BodyCap = 2
  MaxBatches = 2
  Hubs = {h1, h2}
  SeenLimit = 1
  Malformed = {3}
  CrashesTear = TRUE
SPECIFICATION FairSpec
INVARIANTS SpoolTypeOK NothingForgotten OldestFirst RepeatsNeedAFault
PROPERTIES EveryFaultReported
