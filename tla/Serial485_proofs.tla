-------------------------- MODULE Serial485_proofs --------------------------
(***************************************************************************)
(* Theorems about the transport, for every set of clients and addresses,   *)
(* every deque bound and every number of requests.                         *)
(***************************************************************************)
EXTENDS Serial485, SequenceTheorems, TLAPS

\* The deque keeps its type and bound when frames are taken from its head or
\* appended to it.
LEMMA DequeTail ==
  ASSUME NEW s \in Seq(Frame), NEW i \in 1..Len(s)
  PROVE  /\ SubSeq(s, i + 1, Len(s)) \in Seq(Frame)
         /\ Len(SubSeq(s, i + 1, Len(s))) <= Len(s)
OBVIOUS

LEMMA DequeAppend ==
  ASSUME NEW s \in Seq(Frame), Len(s) <= MaxFrames, NEW f \in Frame
  PROVE  LET q == Append(IF Len(s) >= MaxFrames THEN Tail(s) ELSE s, f)
         IN  q \in Seq(Frame) /\ Len(q) <= MaxFrames
<1>1. CASE Len(s) >= MaxFrames
  <2>1. s # <<>>
    BY <1>1, BoundsAssumption
  <2>2. Tail(s) \in Seq(Frame) /\ Len(Tail(s)) = Len(s) - 1
    BY <2>1, HeadTailProperties
  <2>3. Append(Tail(s), f) \in Seq(Frame) /\ Len(Append(Tail(s), f)) = Len(s)
    BY <2>2
  <2> QED BY <1>1, <2>3
<1>2. CASE ~(Len(s) >= MaxFrames)
  <2>1. Append(s, f) \in Seq(Frame) /\ Len(Append(s, f)) = Len(s) + 1
    OBVIOUS
  <2> QED BY <1>2, <2>1, BoundsAssumption
<1> QED BY <1>1, <1>2

-----------------------------------------------------------------------------
\* The request the worker holds: one exactly while it is between the pop and
\* the completion.
Holding == WorkerPc \ {"dead", "loop"}
ActiveWhileHolding == active # None <=> pc["worker"] \in Holding

\* Nothing refers to a request before it is submitted.
OnlySubmitted ==
  /\ \A r \in 1..nreq : req[r] \in Request
  /\ queue \subseteq 1..nreq
  /\ active \in 0..nreq
  /\ \A c \in Clients : awaiting[c] \in 0..nreq

\* Only a data request is exchanged with a device.
ExchangeIsData == pc["worker"] \in Holding \ {"process"} => req[active].kind = "data"

TypeInv == TypeOK /\ ActiveWhileHolding /\ OnlySubmitted /\ ExchangeIsData

\* A new request takes the next id.
LEMMA SubmitType ==
  ASSUME TypeInv, NEW c \in Clients, NEW r \in Request, Submit(c, r),
         inside' \in [Clients -> {None} \cup ReqIds]
  PROVE  TypeInv'
<1>1. nreq + 1 \in ReqIds /\ nreq' \in 0..MaxReq
  BY BoundsAssumption DEF Submit, TypeInv, TypeOK, ReqIds
<1>2. pc' \in [Threads -> ReactorPc \cup WorkerPc]
        /\ pc'["reactor"] \in ReactorPc /\ pc'["worker"] \in WorkerPc
  BY DEF Submit, TypeInv, TypeOK, Threads, WorkerPc
<1>3. pc["worker"] \in Holding <=> pc'["worker"] \in Holding
  BY DEF Submit, TypeInv, TypeOK, Threads, Holding, WorkerPc
<1>4. OnlySubmitted'
  <2>1. nreq \in Nat /\ nreq' = nreq + 1 /\ UNCHANGED active
    BY DEF Submit, TypeInv, TypeOK
  <2>2. req' = [req EXCEPT ![nreq + 1] = r] /\ queue' = queue \cup {nreq + 1}
          /\ awaiting' = [awaiting EXCEPT ![c] = nreq + 1]
    BY DEF Submit
  <2>3. nreq + 1 \in DOMAIN req /\ 1..nreq \subseteq DOMAIN req
    BY <1>1, <2>1, BoundsAssumption DEF TypeInv, TypeOK, ReqIds
  <2>4. \A q \in 1..(nreq + 1) : req'[q] \in Request
    BY <2>1, <2>2, <2>3 DEF TypeInv, OnlySubmitted
  <2>5. \A d \in Clients : awaiting'[d] \in 0..(nreq + 1)
    BY <2>1, <2>2 DEF TypeInv, TypeOK, OnlySubmitted
  <2> QED BY <2>1, <2>2, <2>4, <2>5 DEF TypeInv, OnlySubmitted
<1>5. ExchangeIsData'
  <2>1. CASE pc["worker"] \in Holding
    <3>1. active \in 1..nreq /\ nreq \in Nat
      BY <2>1 DEF TypeInv, TypeOK, ActiveWhileHolding, OnlySubmitted, None
    <3>2. req'[active] = req[active] /\ UNCHANGED <<pc, active>>
      BY <2>1, <3>1, <1>1
      DEF Submit, TypeInv, TypeOK, ReqIds, Holding
    <3> QED BY <3>2 DEF TypeInv, ExchangeIsData
  <2> QED BY <1>3, <2>1 DEF ExchangeIsData
<1> QED
  BY <1>1, <1>2, <1>3, <1>4, <1>5
  DEF Submit, TypeInv, TypeOK, ActiveWhileHolding, hostVars, portVars, wireVars

\* The worker's request completes.
LEMMA CompleteType ==
  ASSUME TypeInv, pc["worker"] \in Holding, NEW o \in {"reply", "none", "error"},
         Complete(o)
  PROVE  /\ outcome' \in [ReqIds -> {"unused", "pending", "reply", "none", "error"}]
         /\ active' = None
         /\ pc' \in [Threads -> ReactorPc \cup WorkerPc]
         /\ pc'["reactor"] = pc["reactor"] /\ pc'["worker"] = "loop"
BY DEF Complete, Goto, TypeInv, TypeOK, ActiveWhileHolding, Threads, WorkerPc

LEMMA GotoType ==
  ASSUME TypeInv, NEW t \in Threads, NEW p, Goto(t, p),
         p \in (IF t = "reactor" THEN ReactorPc ELSE WorkerPc)
  PROVE  /\ pc' \in [Threads -> ReactorPc \cup WorkerPc]
         /\ pc' = [pc EXCEPT ![t] = p] /\ pc'[t] = p
         /\ \A u \in Threads \ {t} : pc'[u] = pc[u]
         /\ pc'["reactor"] \in ReactorPc /\ pc'["worker"] \in WorkerPc
BY DEF Goto, TypeInv, TypeOK, Threads

LEMMA ClientType ==
  ASSUME TypeInv, NEW c \in Clients, Client(c)
  PROVE  TypeInv'
<1>1. CASE SendData(c)
  <2>1. PICK a \in Targets, f \in Funcs, n \in 1..MaxAttempts :
          Submit(c, [kind |-> "data", client |-> c, session |-> inside[c],
                     addr |-> a, func |-> f, attempts |-> n])
    BY <1>1 DEF SendData
  <2>2. [kind |-> "data", client |-> c, session |-> inside[c], addr |-> a,
         func |-> f, attempts |-> n] \in Request
    BY AddressAssumption DEF Request, DataRequest, TypeInv, TypeOK
  <2>3. UNCHANGED inside
    BY <1>1 DEF SendData
  <2> QED BY <2>1, <2>2, <2>3, SubmitType DEF TypeInv, TypeOK
<1>2. CASE EnterSession(c)
  <2>1. nreq + 1 \in ReqIds
    BY <1>2, BoundsAssumption DEF EnterSession, Submit, TypeInv, TypeOK, ReqIds
  <2>2. [kind |-> "begin", client |-> c, session |-> nreq + 1] \in Request
    BY <2>1 DEF Request, ControlRequest
  <2>3. UNCHANGED inside
    BY <1>2 DEF EnterSession
  <2> QED BY <1>2, <2>2, <2>3, SubmitType DEF TypeInv, TypeOK, EnterSession
<1>3. CASE LeaveSession(c)
  <2>1. inside' \in [Clients -> {None} \cup ReqIds]
    BY <1>3 DEF LeaveSession, TypeInv, TypeOK
  <2>2. [kind |-> "end", client |-> c, session |-> inside[c]] \in Request
    BY <1>3 DEF LeaveSession, Request, ControlRequest, TypeInv, TypeOK
  <2>3. CASE host = "up"
    BY <1>3, <2>1, <2>2, <2>3, SubmitType DEF LeaveSession
  <2>4. CASE host # "up"
    BY <1>3, <2>1, <2>4
    DEF LeaveSession, TypeInv, TypeOK, ActiveWhileHolding, OnlySubmitted,
        ExchangeIsData, hostVars, portVars, workVars, wireVars
  <2> QED BY <2>3, <2>4
<1>4. CASE ReceiveResult(c)
  <2>1. awaiting[c] \in ReqIds /\ awaiting' \in [Clients -> {None} \cup ReqIds]
    BY <1>4 DEF ReceiveResult, TypeInv, TypeOK
  <2>2. req[awaiting[c]] \in Request
    BY <2>1 DEF TypeInv, TypeOK, OnlySubmitted, ReqIds
  <2>3. req[awaiting[c]].kind = "begin" => req[awaiting[c]].session \in ReqIds
    BY <2>2 DEF Request, DataRequest, ControlRequest
  <2>4. inside' \in [Clients -> {None} \cup ReqIds]
    BY <1>4, <2>3 DEF ReceiveResult, TypeInv, TypeOK
  <2>5. OnlySubmitted'
    BY <1>4
    DEF ReceiveResult, TypeInv, TypeOK, OnlySubmitted, workVars, None
  <2> QED
    BY <1>4, <2>1, <2>4, <2>5
    DEF ReceiveResult, TypeInv, TypeOK, ActiveWhileHolding, ExchangeIsData,
        hostVars, portVars, workVars, wireVars
<1> QED BY <1>1, <1>2, <1>3, <1>4 DEF Client

LEMMA WorkerType ==
  ASSUME TypeInv, Worker
  PROVE  TypeInv'
<1> USE DEF TypeInv
<1>1. CASE WorkerPop
  <2>1. PICK r \in Eligible : active' = r /\ queue' = queue \ {r}
    BY <1>1 DEF WorkerPop, TakeOldest
  <2>2. r \in queue
    BY DEF Eligible
  <2>3. r \in 1..nreq /\ r \in ReqIds
    BY <2>2 DEF OnlySubmitted, TypeOK
  <2>4. r # None
    BY <2>3 DEF None
  <2>5. pc'["worker"] = "process" /\ pc'["reactor"] \in ReactorPc
          /\ pc' \in [Threads -> ReactorPc \cup WorkerPc]
    BY <1>1, GotoType DEF WorkerPop, TakeOldest, WorkerPc, Threads
  <2>6. "process" \in Holding /\ "process" \in WorkerPc
    BY DEF Holding, WorkerPc
  <2>7. OnlySubmitted'
    BY <1>1, <2>1, <2>3
    DEF WorkerPop, TakeOldest, OnlySubmitted, TypeOK, clientVars
  <2>8. queue' \subseteq ReqIds /\ active' \in {None} \cup ReqIds
    BY <2>1, <2>3 DEF TypeOK
  <2>9. TypeOK'
    BY <1>1, <2>5, <2>6, <2>8
    DEF WorkerPop, TakeOldest, TypeOK, hostVars, portVars, clientVars, wireVars
  <2> QED
    BY <2>1, <2>4, <2>5, <2>6, <2>7, <2>9
    DEF ActiveWhileHolding, ExchangeIsData
<1>2. CASE WorkerDrain
  BY <1>2
  DEF WorkerDrain, Drained, TypeOK, ActiveWhileHolding, OnlySubmitted,
      ExchangeIsData, hostVars, portVars, clientVars, wireVars
<1>3. CASE WorkerExit
  BY <1>3, GotoType
  DEF WorkerExit, Working, TypeOK, ActiveWhileHolding, OnlySubmitted,
      ExchangeIsData, Holding, WorkerPc, Threads, hostVars, portVars, clientVars, workVars, wireVars
<1>4. ASSUME pc["worker"] \in Holding, NEW o \in {"reply", "none", "error"},
             Complete(o),
             UNCHANGED <<hostVars, lock, portVars, clientVars, stopWorker, queue>>,
             UNCHANGED <<attempt, bus, txn, downTxn>>,
             session' \in {None} \cup ReqIds,
             answer' \in [ReqIds -> Frame \cup {NoFrame}],
             rx' \in Seq(Frame), Len(rx') <= MaxFrames
      PROVE  TypeInv'
  <2>1. /\ outcome' \in [ReqIds -> {"unused", "pending", "reply", "none", "error"}]
        /\ active' = None
        /\ pc' \in [Threads -> ReactorPc \cup WorkerPc]
        /\ pc'["reactor"] = pc["reactor"] /\ pc'["worker"] = "loop"
    BY <1>4, CompleteType
  <2>2. TypeOK'
    BY <1>4, <2>1
    DEF TypeOK, hostVars, portVars, clientVars, WorkerPc, None
  <2>3. OnlySubmitted'
    BY <1>4, <2>1 DEF OnlySubmitted, TypeOK, clientVars, None
  <2> QED BY <2>1, <2>2, <2>3 DEF ActiveWhileHolding, ExchangeIsData, Holding
<1>5. CASE ProcessBegin \/ ProcessEnd
  <2>1. pc["worker"] \in Holding
    BY <1>5 DEF ProcessBegin, ProcessEnd, Working, Holding, WorkerPc
  <2>2. active \in 1..nreq
    BY <2>1 DEF ActiveWhileHolding, OnlySubmitted, TypeOK, None
  <2>3. req[active] \in Request
    BY <2>2 DEF OnlySubmitted
  <2>4. req[active].kind = "begin" => req[active].session \in ReqIds
    BY <2>3 DEF Request, DataRequest, ControlRequest
  <2>5. session' \in {None} \cup ReqIds
    BY <1>5, <2>4 DEF ProcessBegin, ProcessEnd, TypeOK
  <2> QED
    BY <1>4, <1>5, <2>1, <2>5
    DEF ProcessBegin, ProcessEnd, TypeOK, wireVars
<1>6. CASE WaitStopped
  <2>1. pc["worker"] \in Holding
    BY <1>6 DEF WaitStopped, Working, Holding, WorkerPc
  <2> QED
    BY <1>4, <1>6, <2>1 DEF WaitStopped, TypeOK, wireVars
<1>7. CASE WaitAccept
  <2>1. pc["worker"] \in Holding
    BY <1>7 DEF WaitAccept, Working, Holding, WorkerPc
  <2>2. PICK i \in Matching :
          /\ answer' = [answer EXCEPT ![active] = rx[i]]
          /\ rx' = SubSeq(rx, i + 1, Len(rx))
    BY <1>7 DEF WaitAccept
  <2>3. i \in 1..Len(rx) /\ rx[i] \in Frame
    BY DEF Matching, TypeOK
  <2>4. rx' \in Seq(Frame) /\ Len(rx') <= MaxFrames
    <3>1. Len(rx') <= Len(rx) /\ rx' \in Seq(Frame)
      BY <2>2, <2>3, DequeTail DEF TypeOK
    <3> QED BY <3>1, BoundsAssumption DEF TypeOK
  <2>5. answer' \in [ReqIds -> Frame \cup {NoFrame}]
    BY <2>2, <2>3 DEF TypeOK
  <2> QED
    BY <1>4, <1>7, <2>1, <2>4, <2>5 DEF WaitAccept, TypeOK
<1>8. ASSUME NEW p \in Holding, Goto("worker", p), pc["worker"] \in Holding,
             req[active].kind = "data",
             UNCHANGED <<hostVars, lock, portVars, clientVars, downTxn, stopWorker,
                         outcome, answer, queue, active, session>>,
             attempt' \in 1..MaxAttempts, txn' \in Nat, bus' \subseteq Frame,
             rx' \in Seq(Frame), Len(rx') <= MaxFrames
      PROVE  TypeInv'
  <2>1. /\ pc' \in [Threads -> ReactorPc \cup WorkerPc]
        /\ pc'["worker"] = p /\ pc'["reactor"] \in ReactorPc
    BY <1>8, GotoType DEF Holding, Threads
  <2>2. TypeOK'
    BY <1>8, <2>1 DEF TypeOK, Holding, hostVars, portVars, clientVars
  <2> QED
    BY <1>8, <2>1, <2>2
    DEF ActiveWhileHolding, OnlySubmitted, ExchangeIsData, clientVars
<1>9. CASE ProcessData \/ EnsureConnected \/ WriteFails
  <2>1. pc["worker"] \in Holding /\ req[active].kind = "data"
    BY <1>9
    DEF ProcessData, EnsureConnected, WriteFails, Working, Holding, WorkerPc,
        ExchangeIsData
  <2>2. {"ensure", "clear", "c.lock", "d.lock"} \subseteq Holding
    BY DEF Holding, WorkerPc, ConnectPc, DisconnectPc
  <2>3. 1 \in 1..MaxAttempts
    BY BoundsAssumption
  <2> QED
    BY <1>8, <1>9, <2>1, <2>2, <2>3
    DEF ProcessData, EnsureConnected, WriteFails, TypeOK, workVars, wireVars
<1>10. CASE ClearPendingFrames
  <2>1. pc["worker"] \in Holding /\ "write" \in Holding
    BY <1>10 DEF ClearPendingFrames, Working, Holding, WorkerPc
  <2>data. req[active].kind = "data"
    BY <1>10, <2>1 DEF ClearPendingFrames, Working, ExchangeIsData
  <2>2. rx' \in Seq(Frame) /\ Len(rx') <= MaxFrames
    BY <1>10, BoundsAssumption DEF ClearPendingFrames
  <2> QED
    BY <1>8, <1>10, <2>1, <2>data, <2>2
    DEF ClearPendingFrames, TypeOK, workVars
<1>11. CASE WriteFrame
  <2>1. pc["worker"] \in Holding /\ "wait" \in Holding
    BY <1>11 DEF WriteFrame, Working, Holding, WorkerPc
  <2>data. req[active].kind = "data"
    BY <1>11, <2>1 DEF WriteFrame, Working, ExchangeIsData
  <2>2. PICK A \in SUBSET Answerers(req[active]) :
          bus' = bus \cup {[addr |-> a, func |-> req[active].func, src |-> active,
                            try |-> attempt, seen |-> None] : a \in A}
    BY <1>11 DEF WriteFrame
  <2>3. bus' \subseteq Frame
    <3>1. active \in 1..nreq /\ active \in ReqIds
      BY <2>1 DEF ActiveWhileHolding, OnlySubmitted, TypeOK, None
    <3>2. req[active] \in DataRequest
      BY <3>1, <2>data DEF OnlySubmitted, Request, ControlRequest
    <3>3. req[active].func \in Funcs /\ req[active].addr \in Targets
      BY <3>2 DEF DataRequest
    <3>4. Answerers(req[active]) \subseteq Addrs
      BY <3>3, AddressAssumption DEF Answerers
    <3>5. \A a \in A : [addr |-> a, func |-> req[active].func, src |-> active,
                        try |-> attempt, seen |-> None] \in Frame
      BY <3>1, <3>3, <3>4 DEF Frame, TypeOK
    <3> QED BY <2>2, <3>5 DEF TypeOK
  <2>4. txn' \in Nat
    BY <1>11 DEF WriteFrame, TypeOK
  <2> QED
    BY <1>8, <1>11, <2>1, <2>data, <2>3, <2>4 DEF WriteFrame, TypeOK, workVars
<1>12. CASE WaitTimeout
  <2>1. pc["worker"] \in Holding
    BY <1>12 DEF WaitTimeout, Working, Holding, WorkerPc
  <2>2. req[active].kind = "data"
    BY <1>12, <2>1 DEF WaitTimeout, Working, ExchangeIsData
  <2>3. rx' \in Seq(Frame) /\ Len(rx') <= MaxFrames
    BY <1>12, BoundsAssumption DEF WaitTimeout
  <2>4. CASE MoreAttempts
    <3>1. active \in 1..nreq
      BY <2>1 DEF ActiveWhileHolding, OnlySubmitted, TypeOK, None
    <3>2. req[active] \in DataRequest
      BY <3>1, <2>2 DEF OnlySubmitted, Request, ControlRequest
    <3>3. attempt + 1 \in 1..MaxAttempts
      BY <2>4, <3>2, BoundsAssumption DEF MoreAttempts, DataRequest, TypeOK
    <3>4. "ensure" \in Holding
      BY DEF Holding, WorkerPc
    <3> QED
      BY <1>8, <1>12, <2>1, <2>2, <2>3, <2>4, <3>3, <3>4
      DEF WaitTimeout, TypeOK
  <2>5. CASE ~MoreAttempts
    BY <1>4, <1>12, <2>1, <2>3, <2>5 DEF WaitTimeout, TypeOK
  <2> QED BY <2>4, <2>5
<1> QED
  BY <1>1, <1>2, <1>3, <1>5, <1>6, <1>7, <1>9, <1>10, <1>11, <1>12 DEF Worker

\* _connect and _disconnect, by either thread; the worker runs them for the
\* request it holds.
LEMMA ConnectType ==
  ASSUME TypeInv, NEW t \in Threads, Connect(t) \/ Disconnect(t)
  PROVE  TypeInv'
<1> USE DEF TypeInv
<1> DEFINE Pcs == pc' \in [Threads -> ReactorPc \cup WorkerPc]
                    /\ pc'["reactor"] \in ReactorPc /\ pc'["worker"] \in WorkerPc
<1>1. {"c.lock", "c.settle", "d.lock", "d.join"} \subseteq Holding
  BY DEF Holding, WorkerPc, ConnectPc, DisconnectPc
<1>2. {"free", "exited", "d.stop", "d.lock", "d.join", "c.settle"} \subseteq ReactorPc
  BY DEF ReactorPc, ConnectPc, DisconnectPc
<1>3. {"loop", "clear", "d.join", "c.settle"} \subseteq WorkerPc
        /\ {"clear", "d.join", "c.settle"} \subseteq Holding
  BY DEF Holding, WorkerPc, ConnectPc, DisconnectPc
\* What becomes of the request the worker holds.
<1> DEFINE SameRequest == UNCHANGED <<outcome, active>>
                            /\ (pc'["worker"] \in Holding <=> pc["worker"] \in Holding)
                            /\ (pc'["worker"] = "process" <=> pc["worker"] = "process")
           RequestDone == outcome' \in [ReqIds -> {"unused", "pending", "reply", "none",
                                                  "error"}]
                            /\ active' = None /\ pc'["worker"] = "loop"
<1>4. ASSUME Pcs, SameRequest \/ RequestDone,
             UNCHANGED <<host, clientVars, answer, queue, session, attempt, txn, bus>>,
             reason' \in {"shutdown", "firmware_restart", "disconnect"},
             lock' \in Threads \cup {"none"},
             {port', connected', reader', stopReader', stopWorker'} \subseteq BOOLEAN,
             rx' \in Seq(Frame), Len(rx') <= MaxFrames, downTxn' \in Int
      PROVE  TypeInv'
  <2>1. TypeOK'
    BY <1>4 DEF TypeOK, clientVars
  <2>2. OnlySubmitted'
    BY <1>4 DEF OnlySubmitted, TypeOK, clientVars, None
  <2>3. ActiveWhileHolding' /\ ExchangeIsData'
    BY <1>4 DEF ActiveWhileHolding, ExchangeIsData, clientVars, Holding
  <2> QED BY <2>1, <2>2, <2>3
<1>5. ASSUME NEW p, Goto(t, p), UNCHANGED <<outcome, active>>,
             pc[t] \in {"c.lock", "c.settle", "d.lock", "d.join"},
             IF t = "reactor" THEN p \in ReactorPc ELSE p \in {"clear", "d.join", "c.settle"}
      PROVE  Pcs /\ SameRequest
  <2>1. IF t = "reactor" THEN TRUE ELSE p \in WorkerPc
    BY <1>3, <1>5
  <2>2. Pcs /\ pc'[t] = p /\ \A u \in Threads \ {t} : pc'[u] = pc[u]
    BY <1>5, <2>1, GotoType
  <2> QED BY <1>1, <1>3, <1>5, <2>2 DEF Threads
<1>6. ASSUME Complete("error"), t = "worker",
             pc[t] \in {"c.lock", "c.settle", "d.lock", "d.join"}
      PROVE  Pcs /\ RequestDone
  BY <1>1, <1>3, <1>6, CompleteType DEF TypeOK
<1>7. <<>> \in Seq(Frame) /\ Len(<<>>) <= MaxFrames
  BY BoundsAssumption
<1>9. CASE ConnectSettled(t)
  <2>1. pc[t] \in {"c.lock", "c.settle"} /\ UNCHANGED <<outcome, active>>
          /\ Goto(t, IF t = "reactor" THEN "free" ELSE "clear")
    BY <1>9 DEF ConnectSettled, Return, Goto
  <2>2. Pcs /\ SameRequest
    BY <1>2, <1>5, <2>1
  <2> QED
    BY <1>4, <1>9, <2>2
    DEF ConnectSettled, TypeOK, hostVars, wireVars
<1>10. ASSUME pc[t] = "c.lock", NEW p, Revive([pc EXCEPT ![t] = p]),
              UNCHANGED <<outcome, active>>,
              IF t = "reactor" THEN p \in ReactorPc ELSE p = "c.settle"
       PROVE  Pcs /\ SameRequest /\ stopWorker' \in BOOLEAN
  <2>1. Goto(t, p) \/ pc["worker"] = "dead"
    BY <1>10 DEF Revive, Goto
  <2>2. CASE pc["worker"] = "dead"
    <3>1. t = "reactor" /\ pc' = [[pc EXCEPT ![t] = p] EXCEPT !["worker"] = "loop"]
      BY <1>10, <2>2 DEF Revive, Threads
    <3>2. pc'["reactor"] = p /\ pc'["worker"] = "loop" /\ Pcs
      BY <1>3, <1>10, <3>1 DEF TypeOK, Threads
    <3> QED BY <1>10, <2>2, <3>2 DEF Revive, Holding
  <2>3. CASE pc["worker"] # "dead"
    <3>1. Goto(t, p) /\ stopWorker' = stopWorker
      BY <1>10, <2>3 DEF Revive, Goto
    <3> QED BY <1>5, <1>10, <3>1 DEF TypeOK
  <2> QED BY <2>2, <2>3
<1>11. CASE ConnectOpen(t)
  <2>1. Pcs /\ SameRequest /\ stopWorker' \in BOOLEAN
    BY <1>2, <1>10, <1>11 DEF ConnectOpen
  <2> QED
    BY <1>4, <1>7, <1>11, <2>1 DEF ConnectOpen, TypeOK, hostVars
<1>12. CASE ConnectRefused(t)
  <2>1. CASE t = "reactor"
    <3>1. Pcs /\ SameRequest /\ stopWorker' \in BOOLEAN
      BY <1>2, <1>10, <1>12, <2>1 DEF ConnectRefused
    <3> QED
      BY <1>4, <1>12, <3>1 DEF ConnectRefused, TypeOK, hostVars, portVars, wireVars
  <2>2. CASE t # "reactor"
    <3>1. Pcs /\ RequestDone
      BY <1>6, <1>12, <2>2 DEF ConnectRefused, Threads
    <3> QED
      BY <1>4, <1>12, <2>2, <3>1
      DEF ConnectRefused, TypeOK, hostVars, portVars, wireVars
  <2> QED BY <2>1, <2>2
<1>13. ASSUME DisconnectDone(t), pc[t] \in {"d.lock", "d.join"}
       PROVE  /\ Pcs /\ (SameRequest \/ RequestDone)
              /\ reason' \in {"shutdown", "firmware_restart", "disconnect"}
              /\ downTxn' \in Int
  <2>1. CASE t = "reactor"
    <3>1. PICK p \in {"free", "d.lock", "exited"} : Goto(t, p)
      BY <1>13, <2>1 DEF DisconnectDone, HandlerDone, Goto, TypeOK
    <3>2. Pcs /\ SameRequest
      BY <1>2, <1>5, <1>13, <2>1, <3>1 DEF DisconnectDone
    <3> QED BY <1>13, <2>1, <3>2 DEF DisconnectDone, HandlerDone, TypeOK
  <2>2. CASE t = "worker"
    BY <1>6, <1>13, <2>2 DEF DisconnectDone, Raise, TypeOK
  <2> QED BY <2>1, <2>2 DEF Threads
<1>14. CASE DisconnectNothing(t)
  BY <1>4, <1>13, <1>14 DEF DisconnectNothing, TypeOK, portVars, wireVars
<1>15. CASE DisconnectBegin(t)
  <2>1. Pcs /\ SameRequest
    BY <1>2, <1>5, <1>15 DEF DisconnectBegin, workVars
  <2> QED
    BY <1>4, <1>15, <2>1 DEF DisconnectBegin, TypeOK, hostVars, workVars, wireVars
<1>16. CASE DisconnectJoinReader(t)
  <2>1. CASE t = "reactor" /\ Stopping
    <3>1. Pcs /\ SameRequest
      BY <1>2, <1>5, <1>16, <2>1 DEF DisconnectJoinReader
    <3> QED
      BY <1>4, <1>7, <1>16, <2>1, <3>1 DEF DisconnectJoinReader, TypeOK, portVars
  <2>2. CASE ~(t = "reactor" /\ Stopping)
    BY <1>4, <1>7, <1>13, <1>16, <2>2 DEF DisconnectJoinReader, TypeOK, portVars
  <2> QED BY <2>1, <2>2
<1> QED BY <1>9, <1>11, <1>12, <1>14, <1>15, <1>16 DEF Connect, Disconnect

\* The stop sequence of the worker, the lifecycle events and the reader.
LEMMA HostType ==
  ASSUME TypeInv,
         \/ StopWorker \/ JoinWorker \/ JoinTimeout
         \/ KlippyConnect \/ KlippyShutdown \/ KlippyEnd
  PROVE  TypeInv'
<1> USE DEF TypeInv
<1>1. {"free", "exited", "d.lock", "d.wjoin", "c.lock"} \subseteq ReactorPc
  BY DEF ReactorPc, ConnectPc, DisconnectPc
<1>2. ASSUME NEW p \in ReactorPc, Goto("reactor", p)
      PROVE  /\ pc' \in [Threads -> ReactorPc \cup WorkerPc]
             /\ pc'["reactor"] \in ReactorPc /\ pc'["worker"] = pc["worker"]
  BY <1>2, GotoType DEF Threads, TypeOK
<1>3. CASE StopWorker
  BY <1>1, <1>2, <1>3
  DEF StopWorker, TypeOK, ActiveWhileHolding, OnlySubmitted, ExchangeIsData,
      hostVars, portVars, clientVars, wireVars
<1>4. ASSUME HandlerDone
      PROVE  /\ pc' \in [Threads -> ReactorPc \cup WorkerPc]
             /\ pc'["reactor"] \in ReactorPc /\ pc'["worker"] = pc["worker"]
             /\ reason' = "disconnect" /\ downTxn' \in Int
  <2>1. PICK p \in {"free", "d.lock", "exited"} : Goto("reactor", p)
    BY <1>4 DEF HandlerDone, Goto, TypeOK
  <2> QED BY <1>1, <1>2, <1>4, <2>1 DEF HandlerDone, TypeOK
<1>5. CASE JoinWorker
  BY <1>4, <1>5
  DEF JoinWorker, TypeOK, ActiveWhileHolding, OnlySubmitted, ExchangeIsData, None,
      Holding, portVars, clientVars, wireVars
<1>6. CASE JoinTimeout
  BY <1>4, <1>6
  DEF JoinTimeout, TypeOK, ActiveWhileHolding, OnlySubmitted, ExchangeIsData,
      portVars, clientVars, workVars, wireVars
<1>7. ASSUME NEW h \in {"up", "shutdown", "ended"}, NEW p \in ReactorPc,
             NEW r \in {"shutdown", "firmware_restart", "disconnect"}, Handle(h, r, p)
      PROVE  TypeInv'
  BY <1>2, <1>7
  DEF Handle, TypeOK, ActiveWhileHolding, OnlySubmitted, ExchangeIsData,
      portVars, clientVars, workVars, wireVars
<1>8. CASE KlippyConnect
  BY <1>1, <1>7, <1>8 DEF KlippyConnect, TypeOK
<1>9. CASE KlippyShutdown
  BY <1>1, <1>7, <1>9 DEF KlippyShutdown
<1>10. CASE KlippyEnd
  BY <1>1, <1>7, <1>10 DEF KlippyEnd
<1> QED BY <1>3, <1>5, <1>6, <1>8, <1>9, <1>10

LEMMA ReaderType ==
  ASSUME TypeInv, ReaderReceive \/ ReaderFails \/ ReaderExit
  PROVE  TypeInv'
<1> USE DEF TypeInv
<1>1. CASE ReaderReceive
  <2>1. PICK f \in bus :
          /\ bus' = bus \ {f}
          /\ rx' = Append(IF Len(rx) >= MaxFrames THEN Tail(rx) ELSE rx,
                          [f EXCEPT !.seen = active])
    BY <1>1 DEF ReaderReceive
  <2>2. [f EXCEPT !.seen = active] \in Frame
    BY DEF TypeOK, Frame
  <2>3. rx' \in Seq(Frame) /\ Len(rx') <= MaxFrames
    BY <2>1, <2>2, DequeAppend DEF TypeOK
  <2> QED
    BY <1>1, <2>1, <2>3
    DEF ReaderReceive, TypeOK, ActiveWhileHolding, OnlySubmitted, ExchangeIsData,
        hostVars, portVars, clientVars, workVars
<1>2. CASE ReaderFails \/ ReaderExit
  BY <1>2
  DEF ReaderFails, ReaderExit, TypeOK, ActiveWhileHolding, OnlySubmitted,
      ExchangeIsData, hostVars, clientVars, workVars, wireVars
<1> QED BY <1>1, <1>2

LEMMA TypeInvInit == Init => TypeInv
<1> SUFFICES ASSUME Init PROVE TypeInv
  OBVIOUS
<1>1. pc["reactor"] = "free" /\ pc["worker"] = "dead"
        /\ pc \in [Threads -> ReactorPc \cup WorkerPc]
  BY DEF Init, Threads, ReactorPc, WorkerPc
<1>2. 1 \in 1..MaxAttempts /\ 0 \in 0..MaxReq /\ <<>> \in Seq(Frame)
        /\ Len(<<>>) <= MaxFrames
  BY BoundsAssumption
<1>3. TypeOK
  <2>1. pc["reactor"] \in ReactorPc /\ pc["worker"] \in WorkerPc
    BY <1>1 DEF ReactorPc, WorkerPc
  <2>2. txn \in Nat /\ downTxn \in Int
    BY DEF Init
  <2>3. rx \in Seq(Frame) /\ Len(rx) <= MaxFrames
    BY <1>2 DEF Init
  <2>4. /\ req \in [ReqIds -> Request \cup {NoRequest}]
        /\ outcome \in [ReqIds -> {"unused", "pending", "reply", "none", "error"}]
        /\ answer \in [ReqIds -> Frame \cup {NoFrame}]
        /\ inside \in [Clients -> {None} \cup ReqIds]
        /\ awaiting \in [Clients -> {None} \cup ReqIds]
    BY DEF Init
  <2> QED BY <1>1, <1>2, <2>1, <2>2, <2>3, <2>4 DEF Init, TypeOK, None
<1> QED
  BY <1>1, <1>3
  DEF TypeInv, Init, ActiveWhileHolding, OnlySubmitted, ExchangeIsData, Holding,
      None

LEMMA TypeInvNext == TypeInv /\ [Next]_vars => TypeInv'
<1> SUFFICES ASSUME TypeInv, [Next]_vars PROVE TypeInv'
  OBVIOUS
<1>1. CASE \E c \in Clients : Client(c)
  BY <1>1, ClientType
<1>2. CASE WorkerStep
  BY <1>2, WorkerType, ConnectType DEF WorkerStep, Threads
<1>3. CASE Handler
  BY <1>3, HostType, ConnectType DEF Handler, Threads
<1>4. CASE KlippyConnect \/ KlippyShutdown \/ KlippyEnd
  BY <1>4, HostType
<1>5. CASE ReaderReceive \/ ReaderFails \/ ReaderExit
  BY <1>5, ReaderType
<1>6. CASE UNCHANGED vars
  BY <1>6
  DEF vars, TypeInv, TypeOK, ActiveWhileHolding, OnlySubmitted, ExchangeIsData
<1> QED BY <1>1, <1>2, <1>3, <1>4, <1>5, <1>6 DEF Next

LEMMA TypeInvariant == Spec => []TypeInv
BY TypeInvInit, TypeInvNext, PTL DEF Spec

\* The fields of the transport keep their types: request ids in range, the
\* deque below max_queued_frames, the attempt counter below the request's
\* attempts (Serial_485_Wrapper).
THEOREM TypeCorrect == Spec => []TypeOK
BY TypeInvariant, PTL DEF TypeInv

-----------------------------------------------------------------------------
(* No request is lost: a pending request is the active one or in the queue. *)

\* The steps that move no request.
Bystander == UNCHANGED <<nreq, queue, active, outcome>>

\* The four ways a request moves.
LEMMA SubmitConserves ==
  ASSUME TypeInv, RequestConserved, NEW c \in Clients, NEW r, Submit(c, r)
  PROVE  RequestConserved'
<1>1. /\ nreq + 1 \in ReqIds /\ nreq \in Nat /\ active \in 0..nreq
      /\ queue \subseteq 1..nreq
  BY BoundsAssumption DEF Submit, TypeInv, TypeOK, OnlySubmitted, ReqIds
<1>2. /\ nreq' = nreq + 1 /\ active' = active /\ queue' = queue \cup {nreq + 1}
      /\ outcome' = [outcome EXCEPT ![nreq + 1] = "pending"]
  BY DEF Submit
<1>3. active' \notin queue'
  BY <1>1, <1>2 DEF RequestConserved
<1>4. ASSUME NEW q \in ReqIds
      PROVE  /\ outcome'[q] = "unused" <=> q > nreq'
             /\ outcome'[q] = "pending" <=> q \in queue' \/ (q = active' /\ q # None)
  <2>1. q \in Nat /\ q # None
    BY <1>4 DEF ReqIds, None
  <2>2. CASE q = nreq + 1
    BY <1>1, <1>2, <2>1, <2>2 DEF TypeInv, TypeOK
  <2>3. CASE q # nreq + 1
    <3>1. outcome'[q] = outcome[q] /\ (q \in queue' <=> q \in queue)
      BY <1>2, <1>4, <2>3 DEF TypeInv, TypeOK
    <3>2. q > nreq' <=> q > nreq
      BY <1>1, <1>2, <2>1, <2>3
    <3> QED BY <1>2, <1>4, <3>1, <3>2 DEF RequestConserved
  <2> QED BY <2>2, <2>3
<1> QED BY <1>3, <1>4 DEF RequestConserved

LEMMA PopConserves ==
  ASSUME TypeInv, RequestConserved, WorkerPop
  PROVE  RequestConserved'
<1>1. active = None
  BY DEF WorkerPop, Working, TypeInv, ActiveWhileHolding, Holding
<1>2. PICK r \in Eligible : active' = r /\ queue' = queue \ {r}
  BY DEF WorkerPop, TakeOldest
<1>3. r \in queue /\ r \in 1..nreq
  BY <1>2 DEF Eligible, TypeInv, OnlySubmitted
<1>4. UNCHANGED <<nreq, outcome>>
  BY DEF WorkerPop, TakeOldest, clientVars
<1> QED BY <1>1, <1>2, <1>3, <1>4 DEF RequestConserved, None

LEMMA DrainConserves ==
  ASSUME TypeInv, RequestConserved, WorkerDrain
  PROVE  RequestConserved'
<1>1. active = None /\ active' = active /\ queue' = {} /\ nreq' = nreq
  BY DEF WorkerDrain, Working, TypeInv, ActiveWhileHolding, Holding, clientVars
<1>2. outcome' = [r \in ReqIds |-> IF r \in queue THEN "error" ELSE outcome[r]]
  BY DEF WorkerDrain, Drained
<1> QED BY <1>1, <1>2 DEF RequestConserved, None

LEMMA CompleteConserves ==
  ASSUME TypeInv, RequestConserved, pc["worker"] \in Holding,
         NEW o \in {"reply", "none", "error"}, Complete(o), UNCHANGED <<nreq, queue>>
  PROVE  RequestConserved'
<1>1. active \in 1..nreq /\ active \in ReqIds /\ active # None
  BY DEF TypeInv, TypeOK, ActiveWhileHolding, OnlySubmitted, None
<1>2. outcome' = [outcome EXCEPT ![active] = o] /\ active' = None
  BY DEF Complete
<1>3. ASSUME NEW q \in ReqIds
      PROVE  /\ outcome'[q] = "unused" <=> q > nreq
             /\ outcome'[q] = "pending" <=> q \in queue
  <2>1. CASE q = active
    BY <1>1, <1>2, <2>1 DEF RequestConserved, TypeInv, TypeOK
  <2>2. CASE q # active
    BY <1>2, <2>2 DEF RequestConserved, TypeInv, TypeOK
  <2> QED BY <2>1, <2>2
<1> QED BY <1>1, <1>2, <1>3 DEF RequestConserved, TypeInv, TypeOK, ReqIds, None

LEMMA BystanderConserves ==
  ASSUME RequestConserved, Bystander PROVE RequestConserved'
BY DEF RequestConserved, Bystander

LEMMA ConservedClient ==
  ASSUME TypeInv, RequestConserved, NEW c \in Clients, Client(c)
  PROVE  RequestConserved'
<1>1. CASE \E r : Submit(c, r)
  BY <1>1, SubmitConserves
<1>2. CASE ReceiveResult(c) \/ (LeaveSession(c) /\ host # "up")
  <2>1. Bystander
    BY <1>2 DEF ReceiveResult, LeaveSession, Bystander, workVars
  <2> QED BY <2>1, BystanderConserves
<1> QED
  BY <1>1, <1>2 DEF Client, SendData, EnterSession, LeaveSession

LEMMA ConservedWorker ==
  ASSUME TypeInv, RequestConserved, Worker
  PROVE  RequestConserved'
<1>1. CASE WorkerPop \/ WorkerDrain
  BY <1>1, PopConserves, DrainConserves
<1>2. CASE ProcessBegin \/ ProcessEnd \/ WaitStopped \/ WaitAccept
             \/ (WaitTimeout /\ ~MoreAttempts)
  <2>1. pc["worker"] \in Holding
    BY <1>2
    DEF ProcessBegin, ProcessEnd, WaitStopped, WaitAccept, WaitTimeout, Working,
        Holding, WorkerPc
  <2>2. UNCHANGED <<nreq, queue>>
    BY <1>2
    DEF ProcessBegin, ProcessEnd, WaitStopped, WaitAccept, WaitTimeout, clientVars
  <2>3. \E o \in {"reply", "none", "error"} : Complete(o)
    BY <1>2 DEF ProcessBegin, ProcessEnd, WaitStopped, WaitAccept, WaitTimeout
  <2> QED BY <2>1, <2>2, <2>3, CompleteConserves
<1>3. CASE WorkerExit \/ ProcessData \/ EnsureConnected \/ ClearPendingFrames
             \/ WriteFrame \/ WriteFails \/ (WaitTimeout /\ MoreAttempts)
  <2>1. Bystander
    BY <1>3
    DEF WorkerExit, ProcessData, EnsureConnected, ClearPendingFrames, WriteFrame,
        WriteFails, WaitTimeout, Bystander, clientVars, workVars
  <2> QED BY <2>1, BystanderConserves
<1> QED BY <1>1, <1>2, <1>3 DEF Worker

LEMMA ConservedConnect ==
  ASSUME TypeInv, RequestConserved, NEW t \in Threads, Connect(t) \/ Disconnect(t)
  PROVE  RequestConserved'
<1>1. UNCHANGED <<nreq, queue>>
  BY DEF Connect, Disconnect, ConnectOpen, ConnectRefused,
         ConnectSettled, DisconnectNothing, DisconnectBegin,
         DisconnectJoinReader, clientVars, workVars
<1>2. CASE t = "worker" /\ Complete("error")
  <2>1. pc["worker"] \in Holding
    BY <1>2
    DEF Connect, Disconnect, ConnectOpen, ConnectRefused,
        ConnectSettled, DisconnectNothing, DisconnectBegin, DisconnectJoinReader,
        Holding, WorkerPc, ConnectPc, DisconnectPc
  <2> QED BY <1>1, <1>2, <2>1, CompleteConserves
<1>3. CASE ~(t = "worker" /\ Complete("error"))
  <2>1. UNCHANGED <<outcome, active>>
    BY <1>3
    DEF Connect, Disconnect, ConnectOpen, ConnectRefused,
        ConnectSettled, DisconnectNothing, DisconnectBegin, DisconnectJoinReader,
        DisconnectDone, Return, Raise, Threads, workVars
  <2> QED BY <1>1, <2>1, BystanderConserves DEF Bystander
<1> QED BY <1>2, <1>3

LEMMA ConservedNext == TypeInv /\ RequestConserved /\ [Next]_vars => RequestConserved'
<1> SUFFICES ASSUME TypeInv, RequestConserved, [Next]_vars PROVE RequestConserved'
  OBVIOUS
<1>1. CASE \E c \in Clients : Client(c)
  BY <1>1, ConservedClient
<1>2. CASE WorkerStep
  BY <1>2, ConservedWorker, ConservedConnect DEF WorkerStep, Threads
<1>3. CASE Connect("reactor") \/ Disconnect("reactor")
  BY <1>3, ConservedConnect DEF Threads
\* _stop_request_worker_thread forgets the active request of a dead worker:
\* it had none.
<1>4. CASE JoinWorker
  <2>1. active = None
    BY <1>4 DEF JoinWorker, TypeInv, ActiveWhileHolding, Holding
  <2> QED
    BY <1>4, <2>1, BystanderConserves DEF JoinWorker, Bystander, clientVars
<1>5. CASE StopWorker \/ JoinTimeout \/ KlippyConnect \/ KlippyShutdown \/ KlippyEnd
             \/ ReaderReceive \/ ReaderFails \/ ReaderExit \/ UNCHANGED vars
  <2>1. Bystander
    BY <1>5
    DEF StopWorker, JoinTimeout, KlippyConnect, KlippyShutdown, KlippyEnd, Handle,
        ReaderReceive, ReaderFails, ReaderExit, vars, Bystander, clientVars,
        workVars
  <2> QED BY <2>1, BystanderConserves
<1> QED BY <1>1, <1>2, <1>3, <1>4, <1>5 DEF Next, Handler

\* No request is lost between the queue, the stop flag, the worker's exit and
\* its revival, whatever the interleaving of greenlets, worker and handlers:
\* whoever waits for a request waits for one the transport still holds.
THEOREM NoRequestLost == Spec => []RequestConserved
<1>1. Init => RequestConserved
  BY BoundsAssumption DEF Init, RequestConserved, ReqIds, None
<1> QED BY <1>1, TypeInvariant, ConservedNext, PTL DEF Spec

-----------------------------------------------------------------------------
(* _connect_lock and the reader thread.                                    *)

\* The points at which a thread is inside "with self._connect_lock".
Locked == {"c.settle", "d.join", "d.stop", "d.wjoin"}

\* The lock excludes: who is inside is its owner.
LockHeld == \A t \in Threads : pc[t] \in Locked => lock = t

\* A reader without a port is one that a thread is waiting for.
ReaderAttached == reader => port \/ \E t \in Threads : pc[t] = "d.join"

ReaderInv == LockHeld /\ ReaderAttached

\* A step of the reactor's or the worker's code that neither takes nor gives
\* the lock, opens nor closes the port, nor waits for the reader.
Aloof(t) ==
  /\ UNCHANGED <<lock, port, reader>>
  /\ pc[t] \notin Locked
  /\ \E p : p \notin Locked /\ Goto(t, p)

LEMMA AloofKeeps ==
  ASSUME TypeInv, ReaderInv, NEW t \in Threads, Aloof(t)
  PROVE  ReaderInv'
<1>1. pc'[t] \notin Locked /\ \A u \in Threads \ {t} : pc'[u] = pc[u]
  BY DEF Aloof, Goto, TypeInv, TypeOK
<1> QED
  BY <1>1 DEF Aloof, ReaderInv, LockHeld, ReaderAttached, Locked

LEMMA WorkerAloof ==
  ASSUME TypeInv, Worker PROVE Aloof("worker") \/ UNCHANGED <<pc, lock, port, reader>>
<1>1. UNCHANGED <<lock, port, reader>>
  BY DEF Worker, WorkerPop, TakeOldest, WorkerDrain, WorkerExit, ProcessBegin,
         ProcessEnd, ProcessData, EnsureConnected, ClearPendingFrames, WriteFrame,
         WriteFails, WaitStopped, WaitAccept, WaitTimeout, portVars
<1>2. pc["worker"] \notin Locked
  BY DEF Worker, WorkerPop, TakeOldest, WorkerDrain, WorkerExit, ProcessBegin,
         ProcessEnd, ProcessData, EnsureConnected, ClearPendingFrames, WriteFrame,
         WriteFails, WaitStopped, WaitAccept, WaitTimeout, Working, Locked
<1>3. (\E p : p \notin Locked /\ Goto("worker", p)) \/ UNCHANGED pc
  BY DEF Worker, WorkerPop, TakeOldest, WorkerDrain, WorkerExit, ProcessBegin,
         ProcessEnd, ProcessData, EnsureConnected, ClearPendingFrames, WriteFrame,
         WriteFails, WaitStopped, WaitAccept, WaitTimeout, Complete, Locked
<1> QED BY <1>1, <1>2, <1>3 DEF Aloof

\* _connect and _disconnect: the lock is taken when it is free and given back
\* by its owner, and the port closes before the reader is waited for.
LEMMA LockKept ==
  ASSUME TypeInv, ReaderInv, NEW t \in Threads, Connect(t) \/ Disconnect(t)
  PROVE  ReaderInv'
<1>1. \A u \in Threads \ {t} : pc'[u] = pc[u] \/ (u = "worker" /\ pc'[u] \notin Locked
                                                  /\ pc[u] = "dead")
  <2>1. CASE ConnectOpen(t) \/ ConnectRefused(t)
    BY <2>1
    DEF ConnectOpen, ConnectRefused, Revive, Complete, Goto, Threads, TypeInv,
        TypeOK, Locked
  <2>2. CASE ConnectSettled(t)
    BY <2>2 DEF ConnectSettled, Return, Threads, TypeInv, TypeOK
  <2>3. CASE Disconnect(t)
    BY <2>3
    DEF Disconnect, DisconnectNothing, DisconnectBegin, DisconnectJoinReader,
        DisconnectDone, HandlerDone, Raise, Complete, Goto, Threads, TypeInv,
        TypeOK
  <2> QED BY <2>1, <2>2, <2>3 DEF Connect
<1>2. CASE ConnectRefused(t) \/ DisconnectNothing(t)
  <2>1. pc'[t] \notin Locked /\ pc[t] \notin Locked
    BY <1>2
    DEF ConnectRefused, DisconnectNothing, Return, Revive, Complete,
        Goto, DisconnectDone, HandlerDone, Raise, Threads, TypeInv, TypeOK, Locked
  <2>2. UNCHANGED <<lock, port, reader>>
    BY <1>2 DEF ConnectRefused, DisconnectNothing, portVars
  <2> QED
    BY <1>1, <2>1, <2>2 DEF ReaderInv, LockHeld, ReaderAttached, Locked
<1>3. CASE ConnectOpen(t) \/ DisconnectBegin(t)
  <2>1. \A u \in Threads : pc[u] \notin Locked
    BY <1>3
    DEF ConnectOpen, DisconnectBegin, ReaderInv, LockHeld, Threads
  <2>2. lock' = t /\ (port' \/ pc'[t] = "d.join")
    BY <1>3 DEF ConnectOpen, DisconnectBegin, Goto, TypeInv, TypeOK
  <2> QED BY <1>1, <2>1, <2>2 DEF ReaderInv, LockHeld, ReaderAttached
<1>4. CASE ConnectSettled(t) \/ DisconnectJoinReader(t)
  <2>1. pc[t] \in Locked /\ lock = t
    BY <1>4
    DEF ConnectSettled, DisconnectJoinReader, ReaderInv, LockHeld, Locked
  <2>2. \A u \in Threads \ {t} : pc'[u] \notin Locked
    BY <1>1, <2>1 DEF ReaderInv, LockHeld
  <2>3. (pc'[t] \notin Locked /\ lock' = "none") \/ lock' = t
    BY <1>4, <2>1
    DEF ConnectSettled, DisconnectJoinReader, Return, DisconnectDone, HandlerDone,
        Raise, Complete, Goto, Threads, TypeInv, TypeOK, Locked
  <2>4. LockHeld'
    BY <2>2, <2>3 DEF LockHeld
  <2>5. ReaderAttached'
    <3>1. CASE DisconnectJoinReader(t)
      BY <3>1
      DEF DisconnectJoinReader, ReaderJoined, portVars, ReaderAttached
    <3>2. CASE ConnectSettled(t)
      <4>1. \A u \in Threads : pc[u] # "d.join"
        BY <2>1, <3>2 DEF ConnectSettled, ReaderInv, LockHeld, Locked
      <4> QED
        BY <3>2, <4>1 DEF ConnectSettled, ReaderInv, ReaderAttached
    <3> QED BY <1>4, <3>1, <3>2
  <2> QED BY <2>4, <2>5 DEF ReaderInv
<1> QED BY <1>2, <1>3, <1>4 DEF Connect, Disconnect

LEMMA ReaderInvNext == TypeInv /\ ReaderInv /\ [Next]_vars => ReaderInv'
<1> SUFFICES ASSUME TypeInv, ReaderInv, [Next]_vars PROVE ReaderInv'
  OBVIOUS
<1>1. ASSUME UNCHANGED <<pc, lock, port>>, reader' => reader PROVE ReaderInv'
  BY <1>1 DEF ReaderInv, LockHeld, ReaderAttached
\* Submitting may revive the worker.
<1>2. CASE \E c \in Clients : Client(c)
  <2>1. UNCHANGED <<lock, port, reader>>
    BY <1>2
    DEF Client, SendData, EnterSession, LeaveSession, ReceiveResult, Submit,
        portVars
  <2>2. \/ UNCHANGED pc
        \/ pc["worker"] = "dead" /\ pc' = [pc EXCEPT !["worker"] = "loop"]
    BY <1>2
    DEF Client, SendData, EnterSession, LeaveSession, ReceiveResult, Submit
  <2>3. UNCHANGED pc \/ Aloof("worker")
    BY <2>1, <2>2 DEF Aloof, Goto, Locked
  <2> QED BY <1>1, <2>1, <2>3, AloofKeeps DEF Threads
<1>3. CASE WorkerStep
  BY <1>1, <1>3, WorkerAloof, AloofKeeps, LockKept DEF WorkerStep, Threads
<1>4. CASE Connect("reactor") \/ Disconnect("reactor")
  BY <1>4, LockKept DEF Threads
<1>5. CASE StopWorker \/ JoinWorker \/ JoinTimeout
  <2>1. pc["reactor"] \in Locked /\ lock = "reactor" /\ UNCHANGED <<port, reader>>
    BY <1>5
    DEF StopWorker, JoinWorker, JoinTimeout, ReaderInv, LockHeld, Locked, Threads,
        portVars
  <2>2. pc'["worker"] = pc["worker"] /\ pc["worker"] \notin Locked
    BY <1>5, <2>1
    DEF StopWorker, JoinWorker, JoinTimeout, HandlerDone, Goto, ReaderInv,
        LockHeld, Threads, TypeInv, TypeOK
  <2>3. (pc'["reactor"] \notin Locked /\ lock' = "none") \/ lock' = "reactor"
    BY <1>5, <2>1
    DEF StopWorker, JoinWorker, JoinTimeout, HandlerDone, Goto, Threads, TypeInv,
        TypeOK, Locked
  <2>4. \A t \in Threads : pc[t] # "d.join"
    BY <1>5, <2>2
    DEF StopWorker, JoinWorker, JoinTimeout, Locked, Threads
  <2> QED
    BY <2>1, <2>2, <2>3, <2>4 DEF ReaderInv, LockHeld, ReaderAttached, Threads
<1>6. CASE KlippyConnect \/ KlippyShutdown \/ KlippyEnd
  <2>1. Aloof("reactor")
    BY <1>6
    DEF KlippyConnect, KlippyShutdown, KlippyEnd, Handle, Aloof, Locked, portVars
  <2> QED BY <2>1, AloofKeeps DEF Threads
<1>7. CASE ReaderReceive \/ ReaderFails \/ ReaderExit
  BY <1>1, <1>7 DEF ReaderReceive, ReaderFails, ReaderExit, portVars
<1>8. CASE UNCHANGED vars
  BY <1>1, <1>8 DEF vars
<1> QED BY <1>2, <1>3, <1>4, <1>5, <1>6, <1>7, <1>8 DEF Next, Handler

\* The port opens only when it is free of the lock, so nobody waits for the
\* previous reader any more, and a reader nobody waits for has a port.
LEMMA OpensWithoutReader ==
  ASSUME TypeInv, ReaderInv, [Next]_vars, port' /\ ~port
  PROVE  ~reader
<1>1. PICK t \in Threads : ConnectOpen(t)
  BY DEF Next, Client, SendData, EnterSession, LeaveSession, ReceiveResult, Submit,
         WorkerStep, Worker, WorkerPop, TakeOldest, WorkerDrain, WorkerExit,
         ProcessBegin, ProcessEnd, ProcessData, EnsureConnected,
         ClearPendingFrames, WriteFrame, WriteFails, WaitStopped, WaitAccept,
         WaitTimeout, Connect, ConnectRefused, ConnectSettled,
         Disconnect, DisconnectNothing, DisconnectBegin, DisconnectJoinReader,
         Handler, StopWorker, JoinWorker, JoinTimeout, KlippyConnect,
         KlippyShutdown, KlippyEnd, Handle, ReaderReceive, ReaderFails,
         ReaderExit, portVars, vars, Threads
<1> QED
  BY <1>1
  DEF ConnectOpen, ReaderInv, LockHeld, ReaderAttached, Locked, Threads

\* A connection never starts beside the reader thread of the previous one, so
\* two threads never parse into the same _rx_buffer, whichever of the reactor
\* and the worker opens and closes the port (_connect, _disconnect).
THEOREM OneReaderThread == Spec => OneReader
<1>1. Init => ReaderInv
  BY DEF Init, ReaderInv, LockHeld, ReaderAttached, Locked, Threads
<1>2. TypeInv /\ ReaderInv /\ [Next]_vars => [port' /\ ~port => ~reader]_vars
  BY OpensWithoutReader
<1> QED
  BY <1>1, <1>2, TypeInvariant, ReaderInvNext, PTL DEF Spec, OneReader
-----------------------------------------------------------------------------
(***************************************************************************)
(* After a stopping handler.  Nobody submits any more, the stop flag stays *)
(* set as long as the worker lives, and the worker may only finish the     *)
(* request it holds: it has either transmitted it, or not yet.             *)
(***************************************************************************)
Unsent == {"process", "ensure", "c.lock", "c.settle", "clear", "write"}

StopAhead == pc["worker"] = "dead" \/ stopWorker

DownInv ==
  /\ Stopping => host \in {"shutdown", "ended"}
  /\ pc["reactor"] \in ConnectPc => host = "up"
  /\ pc["reactor"] = "d.wjoin" => StopAhead
  /\ downTxn # -1 =>
       /\ host \in {"shutdown", "ended"} /\ StopAhead
       /\ txn <= downTxn + 1
       /\ pc["worker"] \in Unsent => txn <= downTxn

\* What the worker does: it begins nothing once it is to stop, and transmits
\* what it holds once.
Subdued ==
  /\ UNCHANGED <<host, reason, downTxn>>
  /\ pc'["reactor"] = pc["reactor"]
  /\ StopAhead => StopAhead'
  /\ \/ /\ txn' = txn
        /\ pc'["worker"] \in Unsent =>
             pc["worker"] \in Unsent \/ (~stopWorker /\ pc["worker"] # "dead")
     \/ txn' = txn + 1 /\ pc["worker"] \in Unsent /\ pc'["worker"] \notin Unsent

LEMMA SubduedKeeps ==
  ASSUME TypeInv, DownInv, Subdued
  PROVE  DownInv'
<1>1. txn \in Nat /\ downTxn \in Int
  BY DEF TypeInv, TypeOK
<1>2. Stopping' = Stopping
  BY DEF Subdued, Stopping
<1>3. downTxn # -1 /\ pc'["worker"] \in Unsent => pc["worker"] \in Unsent /\ txn' = txn
  BY DEF DownInv, Subdued, StopAhead
<1>4. downTxn # -1 => txn' <= downTxn + 1
  BY <1>1 DEF DownInv, Subdued
<1> QED BY <1>1, <1>2, <1>3, <1>4 DEF DownInv, Subdued

LEMMA WorkerSubdued ==
  ASSUME TypeInv, Worker
  PROVE  Subdued
<1>1. UNCHANGED <<host, reason, downTxn>> /\ pc'["reactor"] = pc["reactor"]
  BY DEF Worker, WorkerPop, TakeOldest, WorkerDrain, WorkerExit, ProcessBegin,
         ProcessEnd, ProcessData, EnsureConnected, ClearPendingFrames, WriteFrame,
         WriteFails, WaitStopped, WaitAccept, WaitTimeout, Complete, Goto, hostVars,
         TypeInv, TypeOK, Threads
<1>2. stopWorker' = stopWorker
  BY DEF Worker, WorkerPop, TakeOldest, WorkerDrain, WorkerExit, ProcessBegin,
         ProcessEnd, ProcessData, EnsureConnected, ClearPendingFrames, WriteFrame,
         WriteFails, WaitStopped, WaitAccept, WaitTimeout, workVars
<1>3. pc["worker"] # "dead"
  BY DEF Worker, WorkerPop, WorkerDrain, WorkerExit, ProcessBegin,
         ProcessEnd, ProcessData, EnsureConnected, ClearPendingFrames, WriteFrame,
         WriteFails, WaitStopped, WaitAccept, WaitTimeout, Working
<1>4. CASE WriteFrame
  <2>1. pc["worker"] = "write" /\ pc'["worker"] = "wait" /\ txn' = txn + 1
    BY <1>4 DEF WriteFrame, Working, Goto, TypeInv, TypeOK, Threads
  <2> QED BY <1>1, <1>2, <1>3, <2>1 DEF Subdued, StopAhead, Unsent
<1>5. CASE WorkerPop \/ WaitTimeout
  <2>1. ~stopWorker /\ txn' = txn
    BY <1>5 DEF WorkerPop, TakeOldest, WaitTimeout, wireVars
  <2> QED BY <1>1, <1>2, <1>3, <2>1 DEF Subdued, StopAhead
<1>6. CASE ProcessData \/ EnsureConnected \/ ClearPendingFrames
  <2>1. pc["worker"] \in Unsent /\ txn' = txn
    BY <1>6 DEF ProcessData, EnsureConnected, ClearPendingFrames, Working, wireVars, Unsent
  <2> QED BY <1>1, <1>2, <1>3, <2>1 DEF Subdued, StopAhead
<1>7. CASE WorkerDrain \/ WorkerExit \/ ProcessBegin \/ ProcessEnd \/ WriteFails
             \/ WaitStopped \/ WaitAccept
  <2>1. /\ pc["worker"] \in {"loop", "process", "write", "wait"} /\ txn' = txn
        /\ pc'["worker"] \in {"loop", "dead", "d.lock"}
    BY <1>7
    DEF WorkerDrain, WorkerExit, ProcessBegin, ProcessEnd, WriteFails, WaitStopped,
        WaitAccept, Working, Complete, Goto, wireVars, TypeInv, TypeOK, Threads
  <2> QED BY <1>1, <1>2, <1>3, <2>1 DEF Subdued, StopAhead, Unsent
<1> QED BY <1>4, <1>5, <1>6, <1>7 DEF Worker

LEMMA WorkerConnectSubdued ==
  ASSUME TypeInv, Connect("worker") \/ Disconnect("worker")
  PROVE  Subdued
<1>1. pc["worker"] \in ConnectPc \cup DisconnectPc /\ pc["worker"] # "dead"
  BY DEF Connect, Disconnect, ConnectOpen, ConnectRefused, ConnectSettled,
         DisconnectNothing, DisconnectBegin, DisconnectJoinReader, ConnectPc,
         DisconnectPc
<1>2. /\ UNCHANGED <<host, reason, downTxn, stopWorker, txn>>
      /\ \/ pc["worker"] \in Unsent /\ pc' = [pc EXCEPT !["worker"] = "c.settle"]
         \/ pc["worker"] \in Unsent /\ pc' = [pc EXCEPT !["worker"] = "clear"]
         \/ pc' = [pc EXCEPT !["worker"] = "loop"]
         \/ pc' = [pc EXCEPT !["worker"] = "d.join"]
  BY <1>1
  DEF Connect, Disconnect, ConnectOpen, ConnectRefused, ConnectSettled, Revive,
      Return, Raise, Complete, Goto, DisconnectNothing, DisconnectBegin,
      DisconnectJoinReader, DisconnectDone, hostVars, workVars, wireVars, Unsent
<1>3. /\ pc'["reactor"] = pc["reactor"]
      /\ pc'["worker"] \in {"loop", "d.join"} \/ pc["worker"] \in Unsent
  BY <1>2 DEF TypeInv, TypeOK, Threads
<1> QED BY <1>1, <1>2, <1>3 DEF Subdued, StopAhead, Unsent

\* A handler returns: if it was one that stops, nothing is left to begin.
LEMMA DoneKeeps ==
  ASSUME TypeInv, DownInv, HandlerDone, Stopping => StopAhead,
         UNCHANGED <<host, stopWorker, txn>>
  PROVE  DownInv'
<1>1. /\ txn \in Nat /\ downTxn \in Int /\ pc'["worker"] = pc["worker"]
      /\ pc'["reactor"] \in {"free", "d.lock", "exited"}
  BY DEF HandlerDone, TypeInv, TypeOK, Threads
<1>2. ~Stopping' /\ StopAhead' = StopAhead
  BY <1>1 DEF HandlerDone, Stopping, StopAhead
<1>3. CASE Stopping /\ downTxn = -1
  <2>1. downTxn' = txn
    BY <1>3 DEF HandlerDone
  <2> QED BY <1>1, <1>2, <1>3, <2>1 DEF DownInv, ConnectPc
<1>4. CASE ~(Stopping /\ downTxn = -1)
  <2>1. downTxn' = downTxn
    BY <1>4 DEF HandlerDone
  <2> QED BY <1>1, <1>2, <2>1 DEF DownInv, ConnectPc
<1> QED BY <1>3, <1>4

LEMMA DownNext == TypeInv /\ DownInv /\ [Next]_vars => DownInv'
<1> SUFFICES ASSUME TypeInv, DownInv, [Next]_vars PROVE DownInv'
  OBVIOUS
\* Before a stopping handler has returned, only the reactor's place matters.
<1>1. ASSUME host = "up", UNCHANGED <<host, reason, downTxn>>,
             pc'["reactor"] \in {"free", "c.settle"}
      PROVE  DownInv'
  BY <1>1 DEF DownInv, Stopping
<1>2. CASE \E c \in Clients : \E r : host = "up" /\ ReactorFree /\ Submit(c, r)
  <2>1. UNCHANGED <<host, reason, downTxn>> /\ pc'["reactor"] = "free"
    BY <1>2 DEF Submit, ReactorFree, hostVars, TypeInv, TypeOK, Threads
  <2> QED BY <1>1, <1>2, <2>1
<1>3. CASE \E c \in Clients : ReceiveResult(c) \/ (LeaveSession(c) /\ host # "up")
  <2>1. UNCHANGED <<host, reason, downTxn, pc, stopWorker, txn>>
    BY <1>3 DEF ReceiveResult, LeaveSession, hostVars, workVars, wireVars
  <2> QED BY <2>1 DEF DownInv, StopAhead, Stopping
<1>4. CASE WorkerStep
  BY <1>4, WorkerSubdued, WorkerConnectSubdued, SubduedKeeps DEF WorkerStep
<1>5. CASE Connect("reactor")
  <2>1. host = "up"
    BY <1>5
    DEF Connect, ConnectOpen, ConnectRefused, ConnectSettled, ConnectPc, DownInv
  <2>2. UNCHANGED <<host, reason, downTxn>> /\ pc'["reactor"] \in {"free", "c.settle"}
    BY <1>5
    DEF Connect, ConnectOpen, ConnectRefused, ConnectSettled, Revive, Return, hostVars,
        TypeInv, TypeOK, Threads
  <2> QED BY <1>1, <2>1, <2>2
<1>6. CASE DisconnectNothing("reactor")
  BY <1>6, DoneKeeps DEF DisconnectNothing, DisconnectDone, StopAhead, wireVars
<1>7. CASE DisconnectBegin("reactor") \/ (DisconnectJoinReader("reactor") /\ Stopping)
  <2>1. UNCHANGED <<host, reason, downTxn, txn, stopWorker>>
    BY <1>7 DEF DisconnectBegin, DisconnectJoinReader, hostVars, workVars, wireVars
  <2>2. pc'["worker"] = pc["worker"] /\ pc'["reactor"] \in {"d.join", "d.stop"}
    BY <1>7 DEF DisconnectBegin, DisconnectJoinReader, Goto, TypeInv, TypeOK, Threads
  <2> QED BY <2>1, <2>2 DEF DownInv, StopAhead, Stopping, ConnectPc
<1>12. CASE StopWorker
  <2>1. UNCHANGED <<host, reason, downTxn, txn>> /\ StopAhead'
    BY <1>12 DEF StopWorker, StopAhead, Goto, hostVars, wireVars, TypeInv, TypeOK, Threads
  <2>2. pc'["worker"] = pc["worker"] /\ pc'["reactor"] = "d.wjoin"
    BY <1>12 DEF StopWorker, Goto, TypeInv, TypeOK, Threads
  <2> QED BY <2>1, <2>2 DEF DownInv, Stopping, ConnectPc
<1>8. CASE DisconnectJoinReader("reactor") /\ ~Stopping
  BY <1>8, DoneKeeps DEF DisconnectJoinReader, DisconnectDone
<1>9. CASE JoinWorker \/ JoinTimeout
  <2>1. StopAhead
    BY <1>9 DEF JoinWorker, JoinTimeout, DownInv
  <2> QED BY <1>9, <2>1, DoneKeeps DEF JoinWorker, JoinTimeout, workVars, wireVars
<1>10. CASE KlippyConnect \/ KlippyShutdown \/ KlippyEnd
  <2>1. /\ UNCHANGED <<downTxn, stopWorker, txn>> /\ pc'["worker"] = pc["worker"]
        /\ pc'["reactor"] \in {"c.lock", "d.lock"}
    BY <1>10
    DEF KlippyConnect, KlippyShutdown, KlippyEnd, Handle, workVars, wireVars, Goto,
        TypeInv, TypeOK, Threads
  <2>2. /\ host' \in {"up", "shutdown", "ended"} /\ (host' = "up" => host = "init" /\ ~Stopping')
        /\ pc'["reactor"] = "c.lock" => host' = "up"
    BY <1>10
    DEF KlippyConnect, KlippyShutdown, KlippyEnd, Handle, Goto, Stopping, DownInv,
        TypeInv, TypeOK, Threads
  <2> QED BY <2>1, <2>2 DEF DownInv, StopAhead, ConnectPc
<1>11. CASE ReaderReceive \/ ReaderFails \/ ReaderExit \/ UNCHANGED vars
  <2>1. UNCHANGED <<host, reason, downTxn, pc, stopWorker, txn>>
    BY <1>11
    DEF ReaderReceive, ReaderFails, ReaderExit, hostVars, workVars, wireVars, vars
  <2> QED BY <2>1 DEF DownInv, StopAhead, Stopping
<1> QED
  BY <1>2, <1>3, <1>4, <1>5, <1>6, <1>7, <1>8, <1>9, <1>10, <1>11, <1>12
  DEF Next, Client, SendData, EnterSession, LeaveSession, Handler, Disconnect

\* Of all that waits when the shutdown or firmware-restart handler returns, at
\* most the request the worker holds is still transmitted, and only once,
\* whether the worker was joined or outlives the join
\* (_stop_request_worker_thread, _request_worker_loop, _wait_for_response).
THEOREM LateFrameIsLast == Spec => []OneLateFrame
<1>1. Init => DownInv
  BY DEF Init, DownInv, Stopping, ConnectPc, Threads
<1>2. DownInv => OneLateFrame
  BY DEF DownInv, OneLateFrame
<1> QED BY <1>1, <1>2, TypeInvariant, DownNext, PTL DEF Spec
-----------------------------------------------------------------------------
(***************************************************************************)
(* The answers.  From the clearing of the deque to the end of the wait all *)
(* that is queued was queued for the active request.                       *)
(***************************************************************************)
QueuedForActive ==
  pc["worker"] \in {"write", "wait"} => \A i \in DOMAIN rx : rx[i].seen = active

CurrentInv == AnswerCurrent /\ QueuedForActive

\* The deque after a frame is queued or after the first ones are taken.
LEMMA DequeQueued ==
  ASSUME NEW s \in Seq(Frame), NEW f
  PROVE  LET q == Append(IF Len(s) >= MaxFrames THEN Tail(s) ELSE s, f)
         IN  \A i \in DOMAIN q : q[i] = f \/ \E j \in DOMAIN s : q[i] = s[j]
OBVIOUS

LEMMA CurrentNext == TypeInv /\ CurrentInv /\ [Next]_vars => CurrentInv'
<1> SUFFICES ASSUME TypeInv, CurrentInv, [Next]_vars PROVE CurrentInv'
  OBVIOUS
<1>1. CASE WaitAccept
  <2>1. PICK i \in DOMAIN rx : answer' = [answer EXCEPT ![active] = rx[i]]
    BY <1>1 DEF WaitAccept, Matching
  <2>2. rx[i].seen = active /\ pc'["worker"] = "loop"
    BY <1>1 DEF WaitAccept, Working, Complete, Goto, CurrentInv, QueuedForActive, TypeInv, TypeOK, Threads
  <2> QED BY <2>1, <2>2 DEF CurrentInv, QueuedForActive, AnswerCurrent, TypeInv, TypeOK
<1>2. CASE ReaderReceive
  <2>1. PICK f \in bus : rx' = Append(IF Len(rx) >= MaxFrames THEN Tail(rx) ELSE rx,
                                      [f EXCEPT !.seen = active])
    BY <1>2 DEF ReaderReceive
  <2>2. [f EXCEPT !.seen = active].seen = active /\ UNCHANGED <<active, pc, answer>>
    BY <1>2 DEF ReaderReceive, TypeInv, TypeOK, Frame, workVars
  <2>3. \A i \in DOMAIN rx' : rx'[i].seen = active \/ \E j \in DOMAIN rx : rx'[i] = rx[j]
    BY <2>1, <2>2, DequeQueued DEF TypeInv, TypeOK
  <2> QED BY <2>2, <2>3 DEF CurrentInv, QueuedForActive, AnswerCurrent
<1>3. ASSUME answer' = answer, rx' = <<>>
      PROVE  CurrentInv'
  BY <1>3 DEF CurrentInv, QueuedForActive, AnswerCurrent
<1>4. ASSUME answer' = answer, UNCHANGED rx,
             pc'["worker"] \in {"write", "wait"} =>
               pc["worker"] \in {"write", "wait"} /\ active' = active
      PROVE  CurrentInv'
  BY <1>4 DEF CurrentInv, QueuedForActive, AnswerCurrent
<1>5. CASE ClearPendingFrames \/ WaitTimeout \/ \E t \in Threads : ConnectOpen(t) \/ DisconnectJoinReader(t)
  BY <1>3, <1>5 DEF ClearPendingFrames, WaitTimeout, ConnectOpen, DisconnectJoinReader, workVars
<1>6. CASE WorkerPop \/ WorkerDrain \/ WorkerExit \/ ProcessBegin \/ ProcessEnd \/ ProcessData
           \/ EnsureConnected \/ WriteFrame \/ WriteFails \/ WaitStopped
  <2>1. UNCHANGED <<answer, rx>>
    BY <1>6
    DEF WorkerPop, TakeOldest, WorkerDrain, WorkerExit, ProcessBegin, ProcessEnd, ProcessData,
        EnsureConnected, WriteFrame, WriteFails, WaitStopped, workVars, wireVars
  <2>2. pc'["worker"] \in {"write", "wait"} => pc["worker"] = "write" /\ active' = active
    BY <1>6
    DEF WorkerPop, TakeOldest, WorkerDrain, WorkerExit, ProcessBegin, ProcessEnd, ProcessData,
        EnsureConnected, WriteFrame, WriteFails, WaitStopped, workVars, Working, Complete, Goto,
        TypeInv, TypeOK, Threads
  <2> QED BY <1>4, <2>1, <2>2
<1>7. CASE \E t \in Threads : ConnectRefused(t) \/ ConnectSettled(t) \/ DisconnectNothing(t)
                              \/ DisconnectBegin(t)
  <2>1. PICK t \in Threads : ConnectRefused(t) \/ ConnectSettled(t) \/ DisconnectNothing(t)
                             \/ DisconnectBegin(t)
    BY <1>7
  <2>2. UNCHANGED <<answer, rx>>
    BY <2>1
    DEF ConnectRefused, ConnectSettled, DisconnectNothing, DisconnectBegin, workVars, wireVars
  <2>3. pc'["worker"] \in {"loop", "clear", "d.join"} \/ (pc'["worker"] = pc["worker"] /\ UNCHANGED active)
    BY <2>1
    DEF ConnectRefused, ConnectSettled, DisconnectNothing, DisconnectBegin, Revive, Return,
        DisconnectDone, HandlerDone, Raise, Complete, Goto, workVars, TypeInv, TypeOK, Threads
  <2> QED BY <1>4, <2>2, <2>3
<1>8. CASE StopWorker \/ JoinWorker \/ JoinTimeout \/ KlippyConnect \/ KlippyShutdown \/ KlippyEnd
           \/ ReaderFails \/ ReaderExit \/ UNCHANGED vars
  <2>1. UNCHANGED <<answer, rx>>
    BY <1>8
    DEF StopWorker, JoinWorker, JoinTimeout, KlippyConnect, KlippyShutdown, KlippyEnd, Handle,
        ReaderFails, ReaderExit, workVars, wireVars, vars
  <2>2. pc'["worker"] = pc["worker"] /\ (UNCHANGED active \/ pc["worker"] = "dead")
    BY <1>8
    DEF StopWorker, JoinWorker, JoinTimeout, KlippyConnect, KlippyShutdown, KlippyEnd, Handle,
        HandlerDone, Goto, ReaderFails, ReaderExit, workVars, vars, TypeInv, TypeOK, Threads
  <2> QED BY <1>4, <2>1, <2>2
<1>9. CASE \E c \in Clients : Client(c)
  <2>1. UNCHANGED <<answer, rx, active>>
    BY <1>9 DEF Client, SendData, EnterSession, LeaveSession, ReceiveResult, Submit, workVars, wireVars
  <2>2. pc' = pc \/ pc' = [pc EXCEPT !["worker"] = "loop"]
    BY <1>9 DEF Client, SendData, EnterSession, LeaveSession, ReceiveResult, Submit
  <2>3. pc'["worker"] \in {pc["worker"], "loop"}
    BY <2>2 DEF TypeInv, TypeOK, Threads
  <2> QED BY <1>4, <2>1, <2>3
<1> QED
  BY <1>1, <1>2, <1>5, <1>6, <1>7, <1>8, <1>9
  DEF Next, WorkerStep, Worker, Handler, Connect, Disconnect, Threads

\* No request returns a frame that was queued before the request was processed:
\* what late answers, closed ports and dead readers leave in the deque is gone
\* when the request is transmitted (_process_request, _clear_pending_frames).
THEOREM AnswersAreCurrent == Spec => []AnswerCurrent
<1>1. Init => CurrentInv
  BY DEF Init, CurrentInv, QueuedForActive, AnswerCurrent, Threads
<1>2. CurrentInv => AnswerCurrent
  BY DEF CurrentInv
<1> QED BY <1>1, <1>2, TypeInvariant, CurrentNext, PTL DEF Spec
-----------------------------------------------------------------------------
(***************************************************************************)
(* Whose answers.  The answer to a request that is sent once, to one       *)
(* device, exists once: on the wire, in the deque or returned.             *)
(***************************************************************************)
Sole(s) == req[s].kind = "data" /\ req[s].addr # Broadcast /\ req[s].attempts = 1

OnBus(s)    == \E f \in bus : f.src = s
InDeque(s)  == \E i \in DOMAIN rx : rx[i].src = s
Returned(s) == \E r \in ReqIds : answer[r] # NoFrame /\ answer[r].src = s

\* Nothing can answer s yet.
NotYet(s) == s > nreq \/ s \in queue \/ (s = active /\ pc["worker"] \in Unsent /\ Sole(s))
Unanswered == \A s \in ReqIds : NotYet(s) => ~OnBus(s) /\ ~InDeque(s) /\ ~Returned(s)

Once(s) ==
  /\ \A f, g \in bus : f.src = s /\ g.src = s => f = g
  /\ \A i, j \in DOMAIN rx : rx[i].src = s /\ rx[j].src = s => i = j
  /\ \A q, r \in ReqIds : /\ answer[q] # NoFrame /\ answer[q].src = s
                          /\ answer[r] # NoFrame /\ answer[r].src = s
                          => q = r
  /\ OnBus(s) => ~InDeque(s) /\ ~Returned(s)
  /\ InDeque(s) => ~Returned(s)
SoleOnce == \A s \in 1..nreq : Sole(s) => Once(s)

\* Only data requests are answered.
OfData ==
  \A s \in ReqIds : OnBus(s) \/ InDeque(s) \/ Returned(s) => s <= nreq /\ req[s].kind = "data"

Fitting ==
  \A r \in ReqIds : answer[r] # NoFrame =>
    /\ r <= nreq
    /\ answer[r].func = req[r].func
    /\ req[r].addr # Broadcast => answer[r].addr = req[r].addr

FitsInv == Unanswered /\ SoleOnce /\ OfData /\ Fitting

\* A step after which nothing new can be answered and no answer is made.
Quiet ==
  /\ UNCHANGED <<nreq, req, answer>>
  /\ bus' \subseteq bus /\ (rx' = rx \/ rx' = <<>>)
  /\ queue' \subseteq queue
  /\ pc'["worker"] \in Unsent =>
       \/ pc["worker"] \in Unsent /\ active' = active
       \/ active' \in queue
       \/ ~Sole(active')

LEMMA QuietKeeps ==
  ASSUME FitsInv, Quiet
  PROVE  FitsInv'
<1>1. \A s : /\ NotYet(s)' => NotYet(s)
             /\ Sole(s)' = Sole(s) /\ Returned(s)' = Returned(s)
             /\ OnBus(s)' => OnBus(s)
             /\ InDeque(s)' => InDeque(s)
  BY DEF Quiet, NotYet, Sole, Returned, OnBus, InDeque
<1>2. \A s : Once(s) => Once(s)'
  <2>1. DOMAIN rx' \subseteq DOMAIN rx /\ \A i \in DOMAIN rx' : rx'[i] = rx[i]
    BY DEF Quiet
  <2> QED BY <1>1, <2>1 DEF Quiet, Once
<1>3. Unanswered'
  BY <1>1 DEF FitsInv, Unanswered
<1>4. SoleOnce'
  BY <1>1, <1>2 DEF FitsInv, SoleOnce, Quiet
<1>5. OfData'
  BY <1>1 DEF FitsInv, OfData, Quiet
<1>6. Fitting'
  BY DEF FitsInv, Fitting, Quiet
<1> QED BY <1>3, <1>4, <1>5, <1>6 DEF FitsInv

\* A request that is submitted: nothing knows its id.
LEMMA SubmitFits ==
  ASSUME TypeInv, FitsInv, NEW c \in Clients, NEW r, Submit(c, r)
  PROVE  FitsInv'
<1>1. /\ nreq \in Nat /\ nreq' = nreq + 1 /\ nreq + 1 \in ReqIds /\ queue' = queue \cup {nreq + 1}
      /\ active \in 0..nreq /\ queue \subseteq 1..nreq
      /\ UNCHANGED <<bus, rx, answer, active>>
  BY BoundsAssumption DEF Submit, TypeInv, TypeOK, OnlySubmitted, ReqIds, workVars, wireVars
<1>2. \A s : s # nreq + 1 => req'[s] = req[s]
  BY DEF Submit, TypeInv, TypeOK
<1>3. pc'["worker"] \in Unsent => pc["worker"] \in Unsent
  BY DEF Submit, TypeInv, TypeOK, Threads, Unsent
<1>4. \A s : /\ OnBus(s)' = OnBus(s) /\ InDeque(s)' = InDeque(s) /\ Returned(s)' = Returned(s)
             /\ Once(s)' = Once(s)
             /\ s # nreq + 1 => Sole(s)' = Sole(s)
  BY <1>1, <1>2 DEF OnBus, InDeque, Returned, Once, Sole
<1>5. ~OnBus(nreq + 1) /\ ~InDeque(nreq + 1) /\ ~Returned(nreq + 1)
  BY <1>1 DEF FitsInv, Unanswered, NotYet
<1>6. Unanswered'
  <2> SUFFICES ASSUME NEW s \in ReqIds, NotYet(s)', s # nreq + 1 PROVE NotYet(s)
    BY <1>4, <1>5 DEF FitsInv, Unanswered
  <2> QED BY <1>1, <1>3, <1>4 DEF NotYet, ReqIds
<1>7. SoleOnce'
  <2> SUFFICES ASSUME NEW s \in 1..nreq', Sole(s)' PROVE Once(s)
    BY <1>4 DEF SoleOnce
  <2>1. CASE s = nreq + 1
    BY <1>5, <2>1 DEF Once, OnBus, InDeque, Returned
  <2>2. CASE s # nreq + 1
    BY <1>1, <1>4, <2>2 DEF FitsInv, SoleOnce
  <2> QED BY <2>1, <2>2
<1>8. OfData'
  BY <1>1, <1>2, <1>4, <1>5 DEF FitsInv, OfData, ReqIds
<1>9. Fitting'
  BY <1>1, <1>2 DEF FitsInv, Fitting, ReqIds
<1> QED BY <1>6, <1>7, <1>8, <1>9 DEF FitsInv

\* Transmitting: only the device that is asked may answer, and it has not yet.
LEMMA WriteFits ==
  ASSUME TypeInv, RequestConserved, FitsInv, WriteFrame
  PROVE  FitsInv'
<1> DEFINE answers(A) == {[addr |-> a, func |-> req[active].func, src |-> active,
                           try |-> attempt, seen |-> None] : a \in A}
<1>1. PICK A \in SUBSET Answerers(req[active]) : bus' = bus \cup answers(A)
  BY DEF WriteFrame
<1>2. /\ UNCHANGED <<nreq, req, answer, rx, queue, active>>
      /\ pc["worker"] = "write" /\ pc'["worker"] = "wait"
  BY DEF WriteFrame, Working, Goto, clientVars, workVars, TypeInv, TypeOK, Threads
<1>3. /\ active \in 1..nreq /\ active \in ReqIds /\ req[active].kind = "data"
      /\ active \notin queue /\ nreq \in Nat
  BY <1>2 DEF TypeInv, TypeOK, ActiveWhileHolding, ExchangeIsData, OnlySubmitted, Holding, WorkerPc,
              None, RequestConserved
<1>4. \A f \in answers(A) : f.src = active
  OBVIOUS
<1>5. Sole(active) => \A f, g \in answers(A) : f = g
  BY DEF Sole, Answerers
<1> HIDE DEF answers
<1>6. /\ \A s : /\ InDeque(s)' = InDeque(s) /\ Returned(s)' = Returned(s) /\ Sole(s)' = Sole(s)
                /\ NotYet(s)' => NotYet(s) /\ s # active
      /\ \A s : s # active => (OnBus(s)' <=> OnBus(s))
  <2>1. \A s : InDeque(s)' = InDeque(s) /\ Returned(s)' = Returned(s) /\ Sole(s)' = Sole(s)
    BY <1>2 DEF InDeque, Returned, Sole
  <2>2. \A s : (NotYet(s)' => NotYet(s) /\ s # active)
    BY <1>2, <1>3 DEF NotYet, Unsent
  <2>3. \A s : s # active => (OnBus(s)' <=> OnBus(s))
    BY <1>1, <1>4 DEF OnBus
  <2> QED BY <2>1, <2>2, <2>3
<1>7. Sole(active) => ~OnBus(active) /\ ~InDeque(active) /\ ~Returned(active)
  BY <1>2, <1>3 DEF FitsInv, Unanswered, NotYet, Unsent
<1>8. Unanswered'
  <2> SUFFICES ASSUME NEW s \in ReqIds, NotYet(s)'
               PROVE  ~OnBus(s)' /\ ~InDeque(s)' /\ ~Returned(s)'
    BY DEF Unanswered
  <2>1. s # active /\ NotYet(s)
    BY <1>6
  <2>2. ~OnBus(s) /\ ~InDeque(s) /\ ~Returned(s)
    BY <2>1 DEF FitsInv, Unanswered
  <2> QED BY <1>6, <2>1, <2>2
<1>9. ASSUME NEW s \in 1..nreq', Sole(s)' PROVE Once(s)'
  <2>1. Sole(s) /\ s \in 1..nreq
    BY <1>2, <1>6, <1>9
  <2>2. CASE s = active
    <3>1. \A f, g \in bus' : f.src = s /\ g.src = s => f = g
      BY <1>1, <1>5, <1>7, <2>1, <2>2 DEF OnBus
    <3> QED BY <1>2, <1>6, <1>7, <2>1, <2>2, <3>1 DEF Once, InDeque, Returned
  <2>3. CASE s # active
    <3>1. Once(s)
      BY <2>1 DEF FitsInv, SoleOnce
    <3>2. \A f, g \in bus' : f.src = s /\ g.src = s => f = g
      BY <1>1, <1>4, <2>3, <3>1 DEF Once
    <3> QED BY <1>2, <1>6, <2>3, <3>1, <3>2 DEF Once
  <2> QED BY <2>2, <2>3
<1>10. OfData'
  <2> SUFFICES ASSUME NEW s \in ReqIds, OnBus(s)' \/ InDeque(s)' \/ Returned(s)'
               PROVE  s <= nreq /\ req[s].kind = "data"
    BY <1>2 DEF OfData
  <2>1. CASE s = active
    BY <1>3, <2>1
  <2>2. CASE s # active
    BY <1>6, <2>2 DEF FitsInv, OfData
  <2> QED BY <2>1, <2>2
<1>11. Fitting'
  BY <1>2 DEF FitsInv, Fitting
<1> QED BY <1>8, <1>9, <1>10, <1>11 DEF FitsInv, SoleOnce

\* A frame that is queued moves from the wire to the deque.
LEMMA ReceiveFits ==
  ASSUME TypeInv, FitsInv, ReaderReceive
  PROVE  FitsInv'
<1>1. PICK f \in bus :
        /\ bus' = bus \ {f}
        /\ rx' = Append(IF Len(rx) >= MaxFrames THEN Tail(rx) ELSE rx, [f EXCEPT !.seen = active])
  BY DEF ReaderReceive
<1>2. UNCHANGED <<nreq, req, answer, queue, active, pc>>
  BY DEF ReaderReceive, clientVars, workVars
<1>3. f \in Frame /\ [f EXCEPT !.seen = active].src = f.src /\ f.src \in ReqIds
  BY DEF TypeInv, TypeOK, Frame
<1> DEFINE Dropped(old) ==
             /\ DOMAIN rx' = 1..(Len(rx) + 1 - old)
             /\ \A i \in 1..(Len(rx) - old) : rx'[i] = rx[i + old]
             /\ rx'[Len(rx) + 1 - old] = [f EXCEPT !.seen = active]
             /\ Len(rx) \in Nat /\ Len(rx) >= old /\ DOMAIN rx = 1..Len(rx)
<1>4. PICK old \in {0, 1} : Dropped(old)
  <2>1. CASE Len(rx) >= MaxFrames
    <3>1. rx \in Seq(Frame) /\ rx # <<>>
      BY <2>1, BoundsAssumption DEF TypeInv, TypeOK
    <3>2. Tail(rx) \in Seq(Frame) /\ Len(Tail(rx)) = Len(rx) - 1
          /\ \A i \in 1..Len(Tail(rx)) : Tail(rx)[i] = rx[i + 1]
      BY <3>1
    <3>3. rx' = Append(Tail(rx), [f EXCEPT !.seen = active])
      BY <1>1, <2>1
    <3>4. Len(rx) \in Nat /\ DOMAIN rx = 1..Len(rx) /\ Len(rx) >= 1
      BY <3>1
    <3>5. DOMAIN rx' = 1..Len(rx) /\ rx'[Len(rx)] = [f EXCEPT !.seen = active]
          /\ \A i \in 1..(Len(rx) - 1) : rx'[i] = rx[i + 1]
      BY <3>2, <3>3, <3>4
    <3>6. Dropped(1)
      BY <3>4, <3>5
    <3> QED BY <3>6
  <2>2. CASE ~(Len(rx) >= MaxFrames)
    <3>1. rx \in Seq(Frame) /\ rx' = Append(rx, [f EXCEPT !.seen = active])
      BY <1>1, <2>2 DEF TypeInv, TypeOK
    <3>2. Dropped(0)
      BY <3>1
    <3> QED BY <3>2
  <2> QED BY <2>1, <2>2
<1>5. \A s : /\ Sole(s)' = Sole(s) /\ Returned(s)' = Returned(s) /\ NotYet(s)' = NotYet(s)
             /\ OnBus(s)' => OnBus(s)
             /\ InDeque(s)' => InDeque(s) \/ s = f.src
  <2>1. \A s : Sole(s)' = Sole(s) /\ Returned(s)' = Returned(s) /\ NotYet(s)' = NotYet(s)
    BY <1>2 DEF Sole, Returned, NotYet
  <2>2. \A s : OnBus(s)' => OnBus(s)
    BY <1>1 DEF OnBus
  <2>3. \A s : InDeque(s)' => InDeque(s) \/ s = f.src
    <3> SUFFICES ASSUME NEW s, s # f.src, NEW i \in DOMAIN rx', rx'[i].src = s PROVE InDeque(s)
      BY DEF InDeque
    <3>0. i # Len(rx) + 1 - old
      BY <1>3, <1>4
    <3>1. i \in 1..(Len(rx) - old)
      BY <1>4, <3>0
    <3>2. i + old \in DOMAIN rx /\ rx[i + old].src = s
      BY <1>4, <3>1
    <3> QED BY <3>2 DEF InDeque
  <2> QED BY <2>1, <2>2, <2>3
<1>6. OnBus(f.src)
  BY DEF OnBus
<1>7. Unanswered'
  BY <1>5, <1>6 DEF FitsInv, Unanswered
<1>8. ASSUME NEW s \in 1..nreq', Sole(s)' PROVE Once(s)'
  <2>1. Once(s)
    BY <1>2, <1>5, <1>8 DEF FitsInv, SoleOnce
  <2>2. \A g, h \in bus' : g.src = s /\ h.src = s => g = h
    BY <1>1, <2>1 DEF Once
  <2>3. CASE s = f.src
    <3>1. ~OnBus(s)'
      BY <1>1, <2>1, <2>3 DEF Once, OnBus
    <3>2. ~InDeque(s) /\ ~Returned(s)
      BY <1>6, <2>1, <2>3 DEF Once
    <3>3. \A i \in 1..(Len(rx) - old) : rx'[i].src # s
      BY <1>4, <3>2 DEF InDeque
    <3>4. \A i, j \in DOMAIN rx' : rx'[i].src = s /\ rx'[j].src = s => i = j
      BY <1>4, <3>3
    <3> QED BY <1>2, <1>5, <2>1, <2>2, <3>1, <3>2, <3>4 DEF Once
  <2>4. CASE s # f.src
    <3>1. \A i \in DOMAIN rx' : rx'[i].src = s => i + old \in DOMAIN rx /\ rx[i + old].src = s
      <4> SUFFICES ASSUME NEW i \in DOMAIN rx', rx'[i].src = s
                   PROVE  i + old \in DOMAIN rx /\ rx[i + old].src = s
        OBVIOUS
      <4>0. i # Len(rx) + 1 - old
        BY <1>3, <1>4, <2>4
      <4>1. i \in 1..(Len(rx) - old)
        BY <1>4, <4>0
      <4> QED BY <1>4, <4>1
    <3>2. \A i, j \in DOMAIN rx' : rx'[i].src = s /\ rx'[j].src = s => i = j
      BY <1>4, <2>1, <3>1 DEF Once
    <3> QED BY <1>2, <1>5, <2>1, <2>2, <2>4, <3>2 DEF Once
  <2> QED BY <2>3, <2>4
<1>9. OfData'
  BY <1>2, <1>3, <1>5, <1>6 DEF FitsInv, OfData
<1>10. Fitting'
  BY <1>2 DEF FitsInv, Fitting
<1> QED BY <1>7, <1>8, <1>9, <1>10 DEF FitsInv, SoleOnce

\* A frame that is accepted moves from the deque to its request.
LEMMA AcceptFits ==
  ASSUME TypeInv, FitsInv, WaitAccept
  PROVE  FitsInv'
<1>1. PICK k \in Matching :
        /\ answer' = [answer EXCEPT ![active] = rx[k]]
        /\ rx' = SubSeq(rx, k + 1, Len(rx))
  BY DEF WaitAccept
<1>2. /\ UNCHANGED <<nreq, req, bus, queue>> /\ active' = None
      /\ pc["worker"] = "wait" /\ pc'["worker"] = "loop"
  BY DEF WaitAccept, Working, Complete, Goto, clientVars, TypeInv, TypeOK, Threads
<1>3. /\ active \in 1..nreq /\ active \in ReqIds /\ nreq \in Nat
      /\ k \in DOMAIN rx /\ k \in 1..Len(rx) /\ rx[k] \in Frame /\ Matches(req[active], rx[k])
  BY <1>2 DEF TypeInv, TypeOK, ActiveWhileHolding, OnlySubmitted, Holding, WorkerPc, None, Matching
<1>4. DOMAIN rx' = 1..(Len(rx) - k) /\ \A i \in DOMAIN rx' : i + k \in DOMAIN rx /\ rx'[i] = rx[i + k]
  <2>1. rx \in Seq(Frame) /\ Len(rx) \in Nat
    BY DEF TypeInv, TypeOK
  <2>2. Len(rx') = Len(rx) - k /\ rx' \in Seq(Frame)
    BY <1>1, <1>3, <2>1
  <2> QED BY <1>1, <1>3, <2>1, <2>2
<1>5. \A r \in ReqIds : answer'[r] = IF r = active THEN rx[k] ELSE answer[r]
  BY <1>1, <1>3 DEF TypeInv, TypeOK
<1>6. \A s : /\ Sole(s)' = Sole(s) /\ OnBus(s)' = OnBus(s)
             /\ NotYet(s)' => NotYet(s)
             /\ InDeque(s)' => InDeque(s)
             /\ Returned(s)' => Returned(s) \/ s = rx[k].src
  <2>1. \A s : /\ Sole(s)' = Sole(s) /\ OnBus(s)' = OnBus(s)
    BY <1>2 DEF Sole, OnBus
  <2>2. \A s : (NotYet(s)' => NotYet(s))
    BY <1>2 DEF NotYet, Unsent
  <2>3. \A s : (InDeque(s)' => InDeque(s))
    BY <1>4 DEF InDeque
  <2>4. \A s : Returned(s)' => Returned(s) \/ s = rx[k].src
    BY <1>5 DEF Returned
  <2> QED BY <2>1, <2>2, <2>3, <2>4
<1>7. InDeque(rx[k].src) /\ rx[k].src \in ReqIds
  BY <1>3 DEF InDeque, Frame
<1>8. Unanswered'
  BY <1>6, <1>7 DEF FitsInv, Unanswered
<1>9. ASSUME NEW s \in 1..nreq', Sole(s)' PROVE Once(s)'
  <2>1. Once(s)
    BY <1>2, <1>6, <1>9 DEF FitsInv, SoleOnce
  <2>2. \A i, j \in DOMAIN rx' : rx'[i].src = s /\ rx'[j].src = s => i = j
    <3> SUFFICES ASSUME NEW i \in DOMAIN rx', NEW j \in DOMAIN rx', rx'[i].src = s, rx'[j].src = s
                 PROVE  i = j
      OBVIOUS
    <3>1. i + k = j + k
      BY <1>4, <2>1 DEF Once
    <3> QED BY <1>3, <1>4, <3>1
  <2>3. CASE s = rx[k].src
    <3>1. ~InDeque(s)'
      <4> SUFFICES ASSUME NEW i \in DOMAIN rx', rx'[i].src = s PROVE FALSE
        BY DEF InDeque
      <4>1. i + k = k
        BY <1>3, <1>4, <2>1, <2>3 DEF Once
      <4> QED BY <1>3, <1>4, <4>1
    <3>2. ~Returned(s) /\ ~OnBus(s)
      BY <1>7, <2>1, <2>3 DEF Once
    <3>3. \A r \in ReqIds : answer'[r] # NoFrame /\ answer'[r].src = s => r = active
      BY <1>5, <3>2 DEF Returned
    <3> QED BY <1>2, <1>6, <2>1, <2>2, <3>1, <3>2, <3>3 DEF Once
  <2>4. CASE s # rx[k].src
    <3>1. \A r \in ReqIds : answer'[r] # NoFrame /\ answer'[r].src = s
                            => answer[r] # NoFrame /\ answer[r].src = s
      BY <1>5, <2>4
    <3> QED BY <1>2, <1>6, <2>1, <2>2, <2>4, <3>1 DEF Once
  <2> QED BY <2>3, <2>4
<1>10. OfData'
  BY <1>2, <1>6, <1>7 DEF FitsInv, OfData
<1>11. Fitting'
  <2> SUFFICES ASSUME NEW r \in ReqIds, answer'[r] # NoFrame
               PROVE  /\ r <= nreq
                      /\ answer'[r].func = req[r].func
                      /\ req[r].addr # Broadcast => answer'[r].addr = req[r].addr
    BY <1>2 DEF Fitting
  <2>1. CASE r = active
    BY <1>3, <1>5, <2>1 DEF Matches
  <2>2. CASE r # active
    BY <1>5, <2>2 DEF FitsInv, Fitting
  <2> QED BY <2>1, <2>2
<1> QED BY <1>8, <1>9, <1>10, <1>11 DEF FitsInv, SoleOnce

LEMMA FitsNext == TypeInv /\ RequestConserved /\ FitsInv /\ [Next]_vars => FitsInv'
<1> SUFFICES ASSUME TypeInv, RequestConserved, FitsInv, [Next]_vars PROVE FitsInv'
  OBVIOUS
<1>1. CASE \E c \in Clients : \E r : Submit(c, r)
  BY <1>1, SubmitFits
<1>2. CASE WriteFrame \/ WaitAccept \/ ReaderReceive
  BY <1>2, WriteFits, AcceptFits, ReceiveFits
<1>3. ASSUME UNCHANGED <<nreq, req, answer, bus, queue>>, rx' = rx \/ rx' = <<>>,
             pc'["worker"] \in Unsent => pc["worker"] \in Unsent /\ active' = active
      PROVE  FitsInv'
  BY <1>3, QuietKeeps DEF Quiet
<1>4. CASE \E c \in Clients : ReceiveResult(c) \/ (LeaveSession(c) /\ host # "up")
  BY <1>3, <1>4 DEF ReceiveResult, LeaveSession, workVars, wireVars
<1>5. CASE WorkerPop \/ WorkerDrain
  <2>1. UNCHANGED <<nreq, req, answer, bus, rx>> /\ queue' \subseteq queue
        /\ (pc'["worker"] \in Unsent => active' \in queue)
    BY <1>5
    DEF WorkerPop, WorkerDrain, TakeOldest, Eligible, Working, clientVars, wireVars, TypeInv, TypeOK,
        Unsent, Threads
  <2> QED BY <2>1, QuietKeeps DEF Quiet
<1>6. CASE WorkerExit \/ ProcessBegin \/ ProcessEnd \/ ProcessData \/ EnsureConnected
           \/ ClearPendingFrames \/ WriteFails \/ WaitStopped
  <2>1. UNCHANGED <<nreq, req, answer, bus, queue>> /\ (rx' = rx \/ rx' = <<>>)
    BY <1>6
    DEF WorkerExit, ProcessBegin, ProcessEnd, ProcessData, EnsureConnected, ClearPendingFrames,
        WriteFails, WaitStopped, clientVars, workVars, wireVars
  <2>2. pc'["worker"] \in Unsent => pc["worker"] \in Unsent /\ active' = active
    BY <1>6
    DEF WorkerExit, ProcessBegin, ProcessEnd, ProcessData, EnsureConnected, ClearPendingFrames,
        WriteFails, WaitStopped, Working, Complete, Goto, workVars, TypeInv, TypeOK, Threads, Unsent
  <2> QED BY <1>3, <2>1, <2>2
\* A request of one attempt is not sent again.
<1>7. CASE WaitTimeout
  <2>1. UNCHANGED <<nreq, req, answer, bus, queue>> /\ rx' = <<>>
    BY <1>7 DEF WaitTimeout, clientVars
  <2>2. CASE MoreAttempts
    <3>1. active' = active /\ attempt \in 1..MaxAttempts /\ attempt < req[active].attempts
      BY <1>7, <2>2 DEF WaitTimeout, MoreAttempts, TypeInv, TypeOK
    <3>2. ~Sole(active)
      BY <3>1, BoundsAssumption DEF Sole
    <3>3. ~Sole(active')
      BY <3>1, <3>2
    <3> QED BY <2>1, <3>3, QuietKeeps DEF Quiet
  <2>3. CASE ~MoreAttempts
    <3>1. pc'["worker"] = "loop"
      BY <1>7, <2>3 DEF WaitTimeout, Complete, Goto, TypeInv, TypeOK, Threads
    <3> QED BY <1>3, <2>1, <3>1 DEF Unsent
  <2> QED BY <2>2, <2>3
<1>8. CASE \E t \in Threads : Connect(t) \/ Disconnect(t)
  <2>1. PICK t \in Threads : Connect(t) \/ Disconnect(t)
    BY <1>8
  <2>2. UNCHANGED <<nreq, req, answer, bus, queue>> /\ (rx' = rx \/ rx' = <<>>)
    BY <2>1
    DEF Connect, Disconnect, ConnectOpen, ConnectRefused, ConnectSettled, DisconnectNothing,
        DisconnectBegin, DisconnectJoinReader, clientVars, workVars, wireVars
  <2>3. CASE t = "reactor"
    <3>1. UNCHANGED active /\ pc'["worker"] \in {pc["worker"], "loop"}
      BY <2>1, <2>3
      DEF Connect, Disconnect, ConnectOpen, ConnectRefused, ConnectSettled, Revive, Return,
          DisconnectNothing, DisconnectBegin, DisconnectJoinReader, DisconnectDone, HandlerDone, Goto,
          workVars, TypeInv, TypeOK, Threads
    <3> QED BY <1>3, <2>2, <3>1 DEF Unsent
  <2>4. CASE t = "worker"
    <3>1. \/ pc'["worker"] \in {"loop", "d.join"}
          \/ UNCHANGED active /\ pc["worker"] \in {"c.lock", "c.settle"}
      BY <2>1, <2>4
      DEF Connect, Disconnect, ConnectOpen, ConnectRefused, ConnectSettled, Revive, Return,
          DisconnectNothing, DisconnectBegin, DisconnectJoinReader, DisconnectDone, Raise, Complete,
          Goto, workVars, TypeInv, TypeOK, Threads
    <3> QED BY <1>3, <2>2, <3>1 DEF Unsent
  <2> QED BY <2>3, <2>4 DEF Threads
<1>9. CASE StopWorker \/ JoinWorker \/ JoinTimeout \/ KlippyConnect \/ KlippyShutdown \/ KlippyEnd
           \/ ReaderFails \/ ReaderExit \/ UNCHANGED vars
  <2>1. UNCHANGED <<nreq, req, answer, bus, queue, rx>>
    BY <1>9
    DEF StopWorker, JoinWorker, JoinTimeout, KlippyConnect, KlippyShutdown, KlippyEnd, Handle,
        ReaderFails, ReaderExit, clientVars, workVars, wireVars, vars
  <2>2. pc'["worker"] = pc["worker"] /\ (UNCHANGED active \/ pc["worker"] = "dead")
    BY <1>9
    DEF StopWorker, JoinWorker, JoinTimeout, KlippyConnect, KlippyShutdown, KlippyEnd, Handle,
        HandlerDone, Goto, ReaderFails, ReaderExit, workVars, vars, TypeInv, TypeOK, Threads
  <2> QED BY <1>3, <2>1, <2>2 DEF Unsent
<1> QED
  BY <1>1, <1>2, <1>4, <1>5, <1>6, <1>7, <1>8, <1>9
  DEF Next, Client, SendData, EnterSession, LeaveSession, WorkerStep, Worker, Handler, Threads

\* A request returns a frame of its own device and function; one that answers
\* another request only if that was broadcast, retried or left without its own
\* answer: over any number of late, lost and surplus answers, since an answer to
\* a request sent once exists once (_matches_response, _write_frame, _feed_rx).
THEOREM AnswersFit == Spec => []AnswerFits
<1>1. Init => FitsInv
  BY DEF Init, FitsInv, Unanswered, SoleOnce, OfData, Fitting, OnBus, InDeque, Returned
<1>2. TypeInv /\ FitsInv => AnswerFits
  <2> SUFFICES ASSUME TypeInv, FitsInv, NEW r \in ReqIds, answer[r] # NoFrame,
                      answer[r].src # r, req[answer[r].src].addr # Broadcast,
                      ~(req[answer[r].src].attempts > 1),
                      answer[answer[r].src] # NoFrame, answer[answer[r].src].src = answer[r].src
               PROVE  FALSE
    BY DEF AnswerFits, FitsInv, Fitting
  <2> DEFINE s == answer[r].src
  <2>1. s \in ReqIds /\ Returned(s)
    BY DEF TypeInv, TypeOK, Frame, Returned
  <2>2. s \in 1..nreq /\ req[s].kind = "data"
    BY <2>1 DEF FitsInv, OfData, ReqIds, TypeInv, TypeOK
  <2>3. req[s] \in DataRequest
    BY <2>2 DEF TypeInv, OnlySubmitted, Request, ControlRequest
  <2>4. req[s].attempts = 1
    BY <2>3, BoundsAssumption DEF DataRequest
  <2>5. Once(s)
    BY <2>2, <2>4 DEF FitsInv, SoleOnce, Sole
  <2> QED BY <2>1, <2>5 DEF Once
<1> QED BY <1>1, <1>2, TypeInvariant, NoRequestLost, FitsNext, PTL DEF Spec
=============================================================================
