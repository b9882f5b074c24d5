CONSTANTS
  c1 = c1
  t1 = t1
  p1 = p1
  w1 = w1
  chat = chat
  work1 = work1
  hub1 = hub1
  ChatJobs = {}
  WorkJobs = {p1}
  ToolJobs = {}
  Workers = {w1}
  Slots = {work1}
  WorkerOf <- MCWorkerOf
  KindOf <- MCKindOf
  Reapers = {}
  WorkAttempts = 1
  MaxPosts = 2
  MaxActiveChat = 1
  MaxQueuedWork = 1
  NoWorker = NoWorker
  NoSlot = NoSlot
SPECIFICATION LedgerSpec
INVARIANT ProbeCountedOnce
