SPECIFICATION Spec
CONSTANTS
  Sessions = {s1, s2}
  Cancellers = {k1}
  Destructor = Destructor
  Worker = Worker
  MaxAttempts = 2
  Nothing = Nothing
SYMMETRY Symmetry
CHECK_DEADLOCK FALSE
INVARIANTS TypeOK HandleOwned WorkHasThread DestructorBarrier
PROPERTIES ImplementsSessions
