CONSTANTS
  users = users
  posts = posts
  t1 = t1
  t2 = t2
  NoLock = NoLock
  Threads <- TwoThreads
  Tables <- OneTable
  Locks <- AllLocks
  Programs <- CallPrograms
  Calls <- QueryCalls
  TableRank <- UsersFirst
  TopRank = 2
  JoinPairs <- NoJoins
SPECIFICATION Spec
INVARIANT NoDeadlock
