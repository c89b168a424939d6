SPECIFICATION Spec
CONSTANTS
  imu = imu
  gps = gps
  w1 = w1
  w2 = w2
  fuser = fuser
  plain = plain
  None = None
  Nothing = Nothing
  Channels = {imu, gps}
  Writers = {w1, w2}
  Readers = {fuser, plain}
  Plans <- MCPlans
  Inputs <- MCInputs
  Size <- MCSize
INVARIANTS TypeOK FusedInOrder NothingUnseen
PROPERTY ImplementsView
CHECK_DEADLOCK FALSE
