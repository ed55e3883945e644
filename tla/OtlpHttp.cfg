SPECIFICATION FairSpec
CONSTANTS
  Exports = {e1, e2}
  Sync = {e1}
  MaxRunning = 1
  Users = {u1}
  Patient = {}
  Destructor = Destructor
  Background = Background
  Nobody = Nobody
CHECK_DEADLOCK FALSE
INVARIANTS CallbackOnce SyncExportHonest FlushHonest DestructorBarrier OInv
PROPERTIES CallsReturn
