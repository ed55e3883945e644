SPECIFICATION FairSpec
CONSTANTS
  Producers = {p1, p2}
  Elements = {e1, e2, e3, e4}
  MaxSize = 2
  NULL = NULL
INVARIANTS FifoDelivery OwnElementBack OneHolder IInv
PROPERTIES ImplementsQueue AddReturns
