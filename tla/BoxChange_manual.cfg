SPECIFICATION Spec
CONSTANTS
  Slots = {s1}
  External = external
  NoSlot = NoSlot
  NoRequest = NoRequest
  NoRecovery = NoRecovery
  CutterReady = FALSE
  Commanded = {s1, external}
  Flushes = {TRUE}
  Manual = {"BOX_LOAD", "BOX_UNLOAD"}
  ResumeChecked = TRUE
INVARIANTS PendingBlocks NeverBlind
 
