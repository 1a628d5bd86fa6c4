CONSTANTS
  users = users
  posts = posts
  t1 = t1
  t2 = t2
  NoLock = NoLock
  Threads <- TwoThreads
  Tables <- TwoTables
  Locks <- AllLocks
  Programs <- CallPrograms
  Calls <- OrderedCalls
  TableRank <- UsersFirst
  TopRank = 2
  JoinPairs <- UsersPosts
SPECIFICATION Spec
INVARIANTS TypeOK NoDeadlock LocksInOrder
PROPERTY CallsReturn
