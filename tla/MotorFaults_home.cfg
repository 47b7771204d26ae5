SPECIFICATION Spec
CONSTANTS
  Kinematic = {x}
  Extruder = e
  Populated = TRUE
  Handlers = {h1}
PROPERTIES AfterHomeClears
CHECK_DEADLOCK FALSE
