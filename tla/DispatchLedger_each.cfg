CONSTANTS
  c1 = c1
  t1 = t1
  p1 = p1
  w1 = w1
  chat = chat
  work1 = work1
  hub1 = hub1
  ChatJobs = {c1}
  WorkJobs = {t1, p1}
  ToolJobs = {t1}
  Workers = {w1}
  Slots = {chat, work1}
  WorkerOf <- MCWorkerOf
  KindOf <- MCKindOf
  Reapers = {hub1}
  WorkAttempts = 1
  MaxPosts = 2
  MaxActiveChat = 1
  MaxQueuedWork = 1
  NoWorker = NoWorker
  NoSlot = NoSlot
SPECIFICATION FairLedgerSpec
CONSTRAINT OneJob
INVARIANTS LedgerTypeOK AnswerCountedOnce ServedIsDelivered
PROPERTIES LandedIsRecorded ContentVanishes
