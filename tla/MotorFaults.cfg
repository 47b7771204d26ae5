SPECIFICATION Spec
CONSTANTS
  Kinematic = {x}
  Extruder = e
  Populated = TRUE
  Handlers = {h1, h2}
SYMMETRY HandlerSymmetry
INVARIANTS TypeOK StepsAttempted
PROPERTIES ResumeClean
CHECK_DEADLOCK FALSE
