SPECIFICATION LiveSpec
CONSTANTS
  Kinematic = {x}
  Extruder = e
  Populated = TRUE
  Handlers = {h1}
PROPERTIES FaultAnswered
CHECK_DEADLOCK FALSE
