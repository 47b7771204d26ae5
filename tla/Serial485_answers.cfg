SPECIFICATION Spec
CONSTANTS
  Clients = {c1}
  Addrs = {a1, a2}
  Broadcast = bc
  Targets = {a1, bc}
  Funcs = {f1}
  MaxFrames = 1
  MaxAttempts = 2
  MaxReq = 2
  NoRequest = NoRequest
  NoFrame = NoFrame
INVARIANTS TypeOK AnswerFits
CHECK_DEADLOCK FALSE
PROPERTIES OneReader
