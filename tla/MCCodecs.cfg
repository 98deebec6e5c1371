SPECIFICATION CodecsSpec
CONSTANTS
  Formats <- AnyFormat
  Data = {a, b}
  IdBound = 5
  MaxStreams = 2
  MaxPushes = 3
INVARIANTS OwnOutput Released
PROPERTY NeverRevived
CHECK_DEADLOCK FALSE
