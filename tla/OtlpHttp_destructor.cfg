SPECIFICATION FairSpec
CONSTANTS
  Exports = {e1}
  Sync = {}
  MaxRunning = 1
  Users = {u1}
  Patient = {}
  Destructor = Destructor
  Background = Background
  Nobody = Nobody
CHECK_DEADLOCK FALSE
PROPERTIES NeverWaitsForever
