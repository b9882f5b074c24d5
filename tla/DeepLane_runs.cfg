CONSTANTS
  t1 = t1
  t2 = t2
  w1 = w1
  work1 = work1
  work2 = work2
  hub1 = hub1
  ChatJobs = {}
  WorkJobs = {t1, t2}
  ToolJobs = {t1, t2}
  Workers = {w1}
  Slots = {work1, work2}
  WorkerOf <- MCWorkerOf
  KindOf <- MCKindOf
  Reapers = {hub1}
  WorkAttempts = 2
  MaxPosts = 1
  MaxActiveChat = 1
  MaxQueuedWork = 2
  NoWorker = NoWorker
  NoSlot = NoSlot
  WindowOutlastsJobs = TRUE
SPECIFICATION FairDeepSpec
CONSTRAINT Bounds
INVARIANTS DeepTypeOK LandingIsAtomic NoReportLost
PROPERTIES ViewStands NoRunHangs
