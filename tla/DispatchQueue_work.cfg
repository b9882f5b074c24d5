CONSTANTS
  p1 = p1
  w1 = w1
  work1 = work1
  work2 = work2
  hub1 = hub1
  ChatJobs = {}
  WorkJobs = {p1}
  ToolJobs = {}
  Workers = {w1}
  Slots = {work1, work2}
  WorkerOf <- MCWorkerOf
  KindOf <- MCKindOf
  Reapers = {hub1}
  WorkAttempts = 2
  MaxPosts = 2
  MaxActiveChat = 1
  MaxQueuedWork = 1
  NoWorker = NoWorker
  NoSlot = NoSlot
SPECIFICATION FairSpec
INVARIANTS TypeOK ClaimsBounded ContentTransient NewestClaimLands
PROPERTIES EndIsFinal KeepsLifecycle EveryJobEnds
