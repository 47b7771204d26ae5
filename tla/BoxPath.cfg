SPECIFICATION Spec
CONSTANTS
  T0 = T0
  T4 = T4
  Boxes = {1, 2}
  Slots = {T0, T4}
  BoxOf <- OneEach
  Troubled = {1}
  MaxLost = 1
  Statuses = {"fatal", "stalled"}
  External = External
  None = None
  Commands = {"load", "unload", "cut", "buffer", "check"}
INVARIANTS TypeOK PathExclusive RunoutOfPath OperationsDeliver
PROPERTIES FaultTrue
