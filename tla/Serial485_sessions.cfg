SPECIFICATION LiveSpec
CONSTANTS
  Clients = {c1, c2}
  Addrs = {a1}
  Broadcast = bc
  Targets = {a1}
  Funcs = {f1}
  MaxFrames = 2
  MaxAttempts = 1
  MaxReq = 3
  NoRequest = NoRequest
  NoFrame = NoFrame
INVARIANTS RequestConserved OneLateFrame AnswerCurrent
PROPERTIES EveryRequestCompletes HandlersReturn ServesBus
CHECK_DEADLOCK FALSE
