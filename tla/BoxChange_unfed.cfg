SPECIFICATION Spec
CONSTANTS
  Slots = {s1, s2}
  External = external
  NoSlot = NoSlot
  NoRequest = NoRequest
  NoRecovery = NoRecovery
  CutterReady = TRUE
  Commanded = {s1, s2}
  Flushes = {TRUE}
  Manual = {}
  ResumeChecked = TRUE
SYMMETRY SlotSymmetry
INVARIANTS ChangeDelivers
