SPECIFICATION Spec
CONSTANTS
  n1 = n1
  n2 = n2
  t1 = t1
  t2 = t2
  a = a
  b = b
  Names = {n1, n2}
  SweepOrder <- MCSweepOrder
  Wanted = {n1}
  None = None
  Owners = {o1}
  Sweeper = Sweeper
  Shapes <- MCShapes
  FirstShape <- MCFirst
  MaxMoments = 3
  MaxIds = 3
  MaxChanges <- MCChanges
CHECK_DEADLOCK FALSE
INVARIANTS TypeOK NothingOutlivesItsSource CatalogFresh NothingObservedIsLost AnswerWhole SweepAccounts
PROPERTY ImplementsPromise
