----------------------- MODULE Serial485_service_proofs -----------------------
(***************************************************************************)
(* The transport implements the service: every step of Serial485 is a step *)
(* of BusService or changes nothing the service shows.                     *)
(***************************************************************************)
EXTENDS Serial485_service, Serial485_proofs

\* A worker that is gone left nothing behind.
DeadIdle == pc["worker"] = "dead" => queue = {}

LinkInv == TypeInv /\ RequestConserved /\ DeadIdle

LEMMA DeadIdleNext == TypeInv /\ DeadIdle /\ [Next]_vars => DeadIdle'
<1> SUFFICES ASSUME TypeInv, DeadIdle, [Next]_vars PROVE DeadIdle'
  OBVIOUS
<1>1. CASE \E c \in Clients : \E r : Submit(c, r)
  BY <1>1 DEF Submit, DeadIdle, TypeInv, TypeOK, Threads
<1>2. CASE WorkerExit
  BY <1>2 DEF WorkerExit, DeadIdle, workVars
<1>3. CASE Worker /\ ~WorkerExit
  <2>1. pc'["worker"] # "dead"
    BY <1>3
    DEF Worker, WorkerPop, TakeOldest, WorkerDrain, ProcessBegin, ProcessEnd, ProcessData,
        EnsureConnected, ClearPendingFrames, WriteFrame, WriteFails, WaitStopped, WaitAccept,
        WaitTimeout, Working, Complete, Goto, TypeInv, TypeOK, Threads
  <2> QED BY <2>1 DEF DeadIdle
<1>4. ASSUME queue' = queue, pc'["worker"] = "dead" => pc["worker"] = "dead" PROVE DeadIdle'
  BY <1>4 DEF DeadIdle
<1>5. CASE \E t \in Threads : Connect(t) \/ Disconnect(t)
  <2>1. queue' = queue
    BY <1>5
    DEF Connect, Disconnect, ConnectOpen, ConnectRefused, ConnectSettled, DisconnectNothing,
        DisconnectBegin, DisconnectJoinReader, workVars
  <2>2. pc'["worker"] = "dead" => pc["worker"] = "dead"
    BY <1>5
    DEF Connect, Disconnect, ConnectOpen, ConnectRefused, ConnectSettled, Revive, Return,
        DisconnectNothing, DisconnectBegin, DisconnectJoinReader, DisconnectDone, HandlerDone, Raise,
        Complete, Goto, TypeInv, TypeOK, Threads
  <2> QED BY <1>4, <2>1, <2>2
<1>6. CASE \/ \E c \in Clients : ReceiveResult(c) \/ (LeaveSession(c) /\ host # "up")
           \/ StopWorker \/ JoinWorker \/ JoinTimeout \/ KlippyConnect \/ KlippyShutdown \/ KlippyEnd
           \/ ReaderReceive \/ ReaderFails \/ ReaderExit \/ UNCHANGED vars
  <2>1. queue' = queue
    BY <1>6
    DEF ReceiveResult, LeaveSession, StopWorker, JoinWorker, JoinTimeout, KlippyConnect,
        KlippyShutdown, KlippyEnd, Handle, ReaderReceive, ReaderFails, ReaderExit, workVars, vars
  <2>2. pc'["worker"] = pc["worker"]
    BY <1>6
    DEF ReceiveResult, LeaveSession, StopWorker, JoinWorker, JoinTimeout, KlippyConnect,
        KlippyShutdown, KlippyEnd, Handle, HandlerDone, Goto, ReaderReceive, ReaderFails, ReaderExit,
        vars, TypeInv, TypeOK, Threads
  <2> QED BY <1>4, <2>1, <2>2
<1> QED
  BY <1>1, <1>2, <1>3, <1>5, <1>6
  DEF Next, Client, SendData, EnterSession, LeaveSession, WorkerStep, Handler, Threads

-----------------------------------------------------------------------------
\* The requests as the service sees them.
LEMMA SubmittedIs ==
  /\ Submitted(Status) = [r \in 1..nreq |-> outcome[r]]
  /\ Submitted(Kind) = [r \in 1..nreq |-> req[r].kind]
  /\ Submitted(Owner) = [r \in 1..nreq |-> req[r].session]
BY DEF Submitted, Status, Kind, Owner

LEMMA PendingIs ==
  ASSUME LinkInv PROVE Service!Pending = queue
<1>1. DOMAIN Submitted(Status) = 1..nreq /\ \A r \in 1..nreq : Submitted(Status)[r] = outcome[r]
  BY SubmittedIs
<1>2. /\ queue \subseteq 1..nreq /\ nreq \in 0..MaxReq /\ 1..nreq \subseteq ReqIds
      /\ active \notin queue
      /\ \A r \in 1..nreq : outcome[r] = "pending" <=> r \in queue \/ r = active
  BY BoundsAssumption DEF LinkInv, TypeInv, TypeOK, OnlySubmitted, RequestConserved, ReqIds, None
<1> QED BY <1>1, <1>2 DEF Service!Pending
\* The same, in the next state.
LEMMA SubmittedNextIs ==
  /\ Submitted(Status)' = [r \in 1..nreq' |-> outcome'[r]]
  /\ Submitted(Kind)' = [r \in 1..nreq' |-> req'[r].kind]
  /\ Submitted(Owner)' = [r \in 1..nreq' |-> req'[r].session]
BY DEF Submitted, Status, Kind, Owner

\* A request that is being served has been submitted.
LEMMA ServedIs ==
  ASSUME LinkInv, active # None
  PROVE  /\ active \in 1..nreq /\ 1..nreq \subseteq ReqIds
         /\ Submitted(Kind)[active] = req[active].kind
         /\ Submitted(Owner)[active] = req[active].session
<1>1. active \in 1..nreq /\ 1..nreq \subseteq ReqIds
  BY BoundsAssumption DEF LinkInv, TypeInv, TypeOK, OnlySubmitted, ReqIds, None
<1> QED BY <1>1, SubmittedIs

\* Nothing is on the wire while the worker has no request.
LEMMA IdleIsSilent ==
  ASSUME LinkInv, pc["worker"] \notin Holding
  PROVE  active = None /\ OnWire = FALSE
BY DEF LinkInv, TypeInv, ActiveWhileHolding, OnWire, Holding, WorkerPc

LEMMA AppendIs ==
  ASSUME NEW n \in Nat, NEW f, NEW g, NEW e, g[n + 1] = e,
         \A r \in 1..n : g[r] = f[r]
  PROVE  Append([r \in 1..n |-> f[r]], e) = [r \in 1..(n + 1) |-> g[r]]
<1> DEFINE S == {f[r] : r \in 1..n} \cup {e}
           s == [r \in 1..n |-> f[r]]
           u == [r \in 1..(n + 1) |-> g[r]]
<1>1. s \in Seq(S) /\ Len(s) = n /\ e \in S
  OBVIOUS
<1>2. \A r \in 1..(n + 1) : u[r] = IF r = n + 1 THEN e ELSE s[r]
  OBVIOUS
<1>3. u \in Seq(S) /\ Len(u) = n + 1
  OBVIOUS
<1> HIDE DEF S, s, u
<1>4. Append(s, e) \in Seq(S) /\ Len(Append(s, e)) = n + 1
      /\ \A r \in 1..(n + 1) : Append(s, e)[r] = IF r = n + 1 THEN e ELSE s[r]
  BY <1>1
<1>5. Append(s, e) = u
  BY <1>2, <1>3, <1>4
<1> QED BY <1>5 DEF s, u

-----------------------------------------------------------------------------
\* Steps of the service.
LEMMA StutterStep ==
  ASSUME UNCHANGED <<nreq, req, outcome, active, session, txn>>, OnWire' = OnWire
  PROVE  UNCHANGED Service!vars
BY SubmittedIs, SubmittedNextIs DEF Service!vars

LEMMA SubmitStep ==
  ASSUME LinkInv, NEW c \in Clients, NEW r \in Request, Submit(c, r)
  PROVE  Service!Next
<1>1. nreq \in Nat /\ nreq' = nreq + 1 /\ nreq + 1 \in ReqIds /\ 1..nreq \subseteq ReqIds
  BY BoundsAssumption DEF Submit, LinkInv, TypeInv, TypeOK, ReqIds
<1>2. /\ outcome'[nreq + 1] = "pending" /\ \A q \in 1..nreq : outcome'[q] = outcome[q]
      /\ req'[nreq + 1] = r /\ \A q \in 1..nreq : req'[q] = req[q]
  BY <1>1 DEF Submit, LinkInv, TypeInv, TypeOK
<1>3. Submitted(Status)' = Append(Submitted(Status), "pending")
  BY <1>1, <1>2, AppendIs, SubmittedIs, SubmittedNextIs
<1>4. Submitted(Kind)' = Append(Submitted(Kind), r.kind)
  <2> DEFINE f == [q \in ReqIds |-> req[q].kind] g == [q \in ReqIds |-> req'[q].kind]
  <2>1. g[nreq + 1] = r.kind /\ \A q \in 1..nreq : g[q] = f[q]
    BY <1>1, <1>2
  <2>2. Append([q \in 1..nreq |-> f[q]], r.kind) = [q \in 1..(nreq + 1) |-> g[q]]
    <3> HIDE DEF f, g
    <3> QED BY <1>1, <2>1, AppendIs
  <2>3. /\ [q \in 1..nreq |-> f[q]] = [q \in 1..nreq |-> req[q].kind]
        /\ [q \in 1..(nreq + 1) |-> g[q]] = [q \in 1..(nreq + 1) |-> req'[q].kind]
    BY <1>1
  <2> QED BY <1>1, <2>2, <2>3, SubmittedIs, SubmittedNextIs
<1>5. Submitted(Owner)' = Append(Submitted(Owner), r.session)
  <2> DEFINE f == [q \in ReqIds |-> req[q].session] g == [q \in ReqIds |-> req'[q].session]
  <2>1. g[nreq + 1] = r.session /\ \A q \in 1..nreq : g[q] = f[q]
    BY <1>1, <1>2
  <2>2. Append([q \in 1..nreq |-> f[q]], r.session) = [q \in 1..(nreq + 1) |-> g[q]]
    <3> HIDE DEF f, g
    <3> QED BY <1>1, <2>1, AppendIs
  <2>3. /\ [q \in 1..nreq |-> f[q]] = [q \in 1..nreq |-> req[q].session]
        /\ [q \in 1..(nreq + 1) |-> g[q]] = [q \in 1..(nreq + 1) |-> req'[q].session]
    BY <1>1
  <2> QED BY <1>1, <2>2, <2>3, SubmittedIs, SubmittedNextIs
<1>6. r.kind \in {"data", "begin", "end"} /\ r.session \in ReqIds \cup {None}
  BY DEF Request, DataRequest, ControlRequest
<1>7. UNCHANGED <<active, session, txn>>
  BY DEF Submit, wireVars
<1>8. OnWire' = OnWire
  BY DEF Submit, OnWire, LinkInv, TypeInv, TypeOK, ActiveWhileHolding, Threads, Holding
<1>9. Service!Ask(r.kind, r.session)
  BY <1>3, <1>4, <1>5, <1>7, <1>8 DEF Service!Ask
<1> QED BY <1>6, <1>9 DEF Service!Next

LEMMA EndsStep ==
  ASSUME LinkInv, active # None, NEW o, Complete(o), UNCHANGED <<nreq, req, txn>>
  PROVE  Service!Ends(o)
<1>1. OnWire' = FALSE
  BY DEF Complete, Goto, OnWire, LinkInv, TypeInv, TypeOK, Threads
<1>2. Submitted(Status)' = [Submitted(Status) EXCEPT ![active] = o]
  <2>1. outcome' = [outcome EXCEPT ![active] = o] /\ DOMAIN outcome = ReqIds
    BY DEF Complete, LinkInv, TypeInv, TypeOK
  <2> QED BY <2>1, ServedIs, SubmittedIs, SubmittedNextIs
<1>3. Submitted(Kind)' = Submitted(Kind) /\ Submitted(Owner)' = Submitted(Owner)
  BY SubmittedIs, SubmittedNextIs
<1> QED BY <1>1, <1>2, <1>3 DEF Service!Ends, Complete

\* Whoever gives up fails the request that was being served.
LEMMA FailedStep ==
  ASSUME LinkInv, pc["worker"] \in Holding \ {"process"}, Complete("error"),
         UNCHANGED <<nreq, req, session, txn>>
  PROVE  Service!Next
<1>1. active # None /\ req[active].kind = "data"
  BY DEF LinkInv, TypeInv, ActiveWhileHolding, ExchangeIsData
<1> QED BY <1>1, EndsStep, ServedIs DEF Service!Next, Service!Finish

-----------------------------------------------------------------------------
\* The worker.
LEMMA ServeStep == LinkInv /\ WorkerPop => Service!Next
<1> SUFFICES ASSUME LinkInv, WorkerPop PROVE Service!Next
  OBVIOUS
<1>1. active = None
  BY IdleIsSilent DEF WorkerPop, Working, Holding
<1>2. OnWire' = FALSE
  BY DEF WorkerPop, TakeOldest, Working, Goto, OnWire, LinkInv, TypeInv, TypeOK, Threads
<1>3. UNCHANGED <<nreq, req, outcome, session, txn>>
  BY DEF WorkerPop, TakeOldest, clientVars, wireVars
<1>4. UNCHANGED <<Submitted(Status), Submitted(Kind), Submitted(Owner)>>
  BY <1>3, SubmittedIs, SubmittedNextIs
<1>5. Service!Allowed = Eligible
  <2>1. queue \subseteq 1..nreq
    BY DEF LinkInv, TypeInv, OnlySubmitted
  <2>2. \A r \in queue : Submitted(Owner)[r] = req[r].session
    BY <2>1, SubmittedIs
  <2> QED BY <2>2, PendingIs DEF Service!Allowed, Eligible
<1>6. \E r \in Eligible : (\A q \in Eligible : r <= q) /\ active' = r
  BY DEF WorkerPop, TakeOldest
<1>7. Service!Serve
  BY <1>1, <1>2, <1>3, <1>4, <1>5, <1>6 DEF Service!Serve
<1> QED BY <1>7 DEF Service!Next

LEMMA RefuseStep == LinkInv /\ WorkerDrain => Service!Next
<1> SUFFICES ASSUME LinkInv, WorkerDrain PROVE Service!Next
  OBVIOUS
<1>1. active = None /\ UNCHANGED <<nreq, req, active, session, txn>>
  BY IdleIsSilent DEF WorkerDrain, Working, Holding, clientVars, wireVars
<1>2. OnWire' = OnWire
  BY DEF WorkerDrain, OnWire
<1>3. Submitted(Status)' = [r \in DOMAIN Submitted(Status) |->
                              IF r \in Service!Pending THEN "error" ELSE Submitted(Status)[r]]
  <2>1. 1..nreq \subseteq ReqIds
    BY BoundsAssumption DEF LinkInv, TypeInv, TypeOK, ReqIds
  <2>2. \A r \in 1..nreq : outcome'[r] = IF r \in queue THEN "error" ELSE outcome[r]
    BY <2>1 DEF WorkerDrain, Drained
  <2> QED BY <1>1, <2>2, PendingIs, SubmittedIs, SubmittedNextIs
<1>4. Submitted(Kind)' = Submitted(Kind) /\ Submitted(Owner)' = Submitted(Owner)
  BY <1>1, SubmittedIs, SubmittedNextIs
<1>5. Service!Refuse
  BY <1>1, <1>2, <1>3, <1>4 DEF Service!Refuse
<1> QED BY <1>5 DEF Service!Next

LEMMA ControlStep == LinkInv /\ (ProcessBegin \/ ProcessEnd) => Service!Next
<1> SUFFICES ASSUME LinkInv, ProcessBegin \/ ProcessEnd PROVE Service!Next
  OBVIOUS
<1>1. active # None /\ UNCHANGED <<nreq, req, txn>>
  BY DEF ProcessBegin, ProcessEnd, Working, LinkInv, TypeInv, ActiveWhileHolding, Holding, WorkerPc,
         clientVars, wireVars
<1>2. CASE ProcessBegin
  <2>1. Service!Open
    BY <1>1, <1>2, EndsStep, ServedIs DEF ProcessBegin, Service!Open
  <2> QED BY <2>1 DEF Service!Next
<1>3. CASE ProcessEnd
  <2>1. Service!Close
    BY <1>1, <1>3, EndsStep, ServedIs DEF ProcessEnd, Service!Close
  <2> QED BY <2>1 DEF Service!Next
<1> QED BY <1>2, <1>3

LEMMA TransmitStep == LinkInv /\ WriteFrame => Service!Next
<1> SUFFICES ASSUME LinkInv, WriteFrame PROVE Service!Next
  OBVIOUS
<1>1. active # None /\ req[active].kind = "data"
  BY DEF WriteFrame, Working, LinkInv, TypeInv, ActiveWhileHolding, ExchangeIsData, Holding, WorkerPc
<1>2. OnWire' = TRUE
  BY DEF WriteFrame, Goto, OnWire, LinkInv, TypeInv, TypeOK, Threads
<1>3. UNCHANGED <<nreq, req, outcome, active, session>> /\ txn' = txn + 1
  BY DEF WriteFrame, clientVars, workVars
<1>4. UNCHANGED <<Submitted(Status), Submitted(Kind), Submitted(Owner)>>
  BY <1>3, SubmittedIs, SubmittedNextIs
<1>5. Service!Transmit
  BY <1>1, <1>2, <1>3, <1>4, ServedIs DEF Service!Transmit
<1> QED BY <1>5 DEF Service!Next

\* A wait ends with an answer, without one, or with another attempt.
LEMMA WaitStep ==
  ASSUME LinkInv, WaitStopped \/ WaitAccept \/ WaitTimeout
  PROVE  Service!Next \/ UNCHANGED Service!vars
<1>1. /\ pc["worker"] = "wait" /\ active # None /\ req[active].kind = "data" /\ OnWire
      /\ UNCHANGED <<nreq, req, session, txn>>
  BY DEF WaitStopped, WaitAccept, WaitTimeout, Working, LinkInv, TypeInv, ActiveWhileHolding,
         ExchangeIsData, Holding, WorkerPc, OnWire, clientVars, wireVars
<1>2. CASE WaitStopped
  BY <1>1, <1>2, FailedStep DEF WaitStopped, Holding, WorkerPc
<1>3. CASE WaitAccept \/ (WaitTimeout /\ ~MoreAttempts)
  <2>1. Complete("reply") \/ Complete("none")
    BY <1>3 DEF WaitAccept, WaitTimeout
  <2>2. Service!Ends("reply") \/ Service!Ends("none")
    BY <1>1, <2>1, EndsStep
  <2>3. Service!Finish
    BY <1>1, <2>2, ServedIs DEF Service!Finish
  <2> QED BY <2>3 DEF Service!Next
<1>4. CASE WaitTimeout /\ MoreAttempts
  <2>1. attempt' = attempt + 1 /\ pc'["worker"] = "ensure" /\ UNCHANGED <<outcome, active>>
    BY <1>4 DEF WaitTimeout, Goto, LinkInv, TypeInv, TypeOK, Threads
  <2>2. attempt' > 1
    BY <2>1 DEF LinkInv, TypeInv, TypeOK
  <2>3. OnWire' = OnWire
    BY <1>1, <2>1, <2>2 DEF OnWire
  <2> QED BY <1>1, <2>1, <2>3, StutterStep
<1> QED BY <1>2, <1>3, <1>4

\* Between two exchanges the worker keeps its request and its attempt.
LEMMA PrivateStep ==
  ASSUME LinkInv,
         WorkerExit \/ ProcessData \/ EnsureConnected \/ ClearPendingFrames \/ WriteFails
  PROVE  UNCHANGED Service!vars
<1>1. UNCHANGED <<nreq, req, outcome, active, session, txn>>
  BY DEF WorkerExit, ProcessData, EnsureConnected, ClearPendingFrames, WriteFails, clientVars,
         workVars, wireVars
<1>2. CASE WorkerExit
  <2>1. OnWire' = FALSE /\ OnWire = FALSE
    BY <1>1, <1>2, IdleIsSilent
    DEF WorkerExit, Working, Goto, OnWire, Holding, LinkInv, TypeInv, TypeOK, Threads
  <2> QED BY <1>1, <2>1, StutterStep
<1>3. CASE ProcessData
  <2>1. OnWire' = FALSE /\ OnWire = FALSE
    BY <1>3 DEF ProcessData, Working, Goto, OnWire, LinkInv, TypeInv, TypeOK, Threads
  <2> QED BY <1>1, <2>1, StutterStep
<1>4. CASE EnsureConnected \/ ClearPendingFrames \/ WriteFails
  <2>1. pc["worker"] \notin {"wait", "process"} /\ pc'["worker"] \notin {"wait", "process"}
        /\ attempt' = attempt
    BY <1>4 DEF EnsureConnected, ClearPendingFrames, WriteFails, Working, Goto, workVars,
                LinkInv, TypeInv, TypeOK, Threads
  <2>2. OnWire' = OnWire
    BY <1>1, <2>1 DEF OnWire
  <2> QED BY <1>1, <2>2, StutterStep
<1> QED BY <1>2, <1>3, <1>4

-----------------------------------------------------------------------------
\* The port: the service sees only the request a failure ends.
LEMMA PortStep ==
  ASSUME LinkInv, NEW t \in Threads, Connect(t) \/ Disconnect(t)
  PROVE  Service!Next \/ UNCHANGED Service!vars
<1>1. UNCHANGED <<nreq, req, session, txn>>
  BY DEF Connect, Disconnect, ConnectOpen, ConnectRefused, ConnectSettled, DisconnectNothing,
         DisconnectBegin, DisconnectJoinReader, clientVars, wireVars, workVars
<1>2. CASE t = "worker" /\ Complete("error")
  <2>1. pc["worker"] \in Holding \ {"process"}
    BY <1>2 DEF Connect, Disconnect, ConnectOpen, ConnectRefused, ConnectSettled, DisconnectNothing,
                DisconnectBegin, DisconnectJoinReader, Holding, WorkerPc, ConnectPc, DisconnectPc
  <2> QED BY <1>1, <1>2, <2>1, FailedStep
<1>3. CASE ~(t = "worker" /\ Complete("error"))
  <2>1. UNCHANGED <<outcome, active, attempt>>
    BY <1>3 DEF Connect, Disconnect, ConnectOpen, ConnectRefused, ConnectSettled, DisconnectNothing,
           DisconnectBegin, DisconnectJoinReader, DisconnectDone, Raise, Return, workVars, Threads
  <2>2. \/ pc'["worker"] = pc["worker"]
        \/ pc["worker"] = "dead" /\ pc'["worker"] = "loop"
        \/ pc["worker"] \notin {"wait", "process"} /\ pc'["worker"] \notin {"wait", "process"}
    BY <1>3 DEF Connect, Disconnect, ConnectOpen, ConnectRefused, ConnectSettled, DisconnectNothing,
           DisconnectBegin, DisconnectJoinReader, DisconnectDone, HandlerDone, Raise, Return, Revive,
           Goto, Threads, LinkInv, TypeInv, TypeOK
  <2>3. OnWire' = OnWire
    BY <2>1, <2>2 DEF OnWire, LinkInv, TypeInv, ActiveWhileHolding, Holding, WorkerPc
  <2> QED BY <1>1, <2>1, <2>3, StutterStep
<1> QED BY <1>2, <1>3

\* A handler that finds the worker gone forgets the open session.
LEMMA AbandonStep == LinkInv /\ JoinWorker => Service!Next
<1> SUFFICES ASSUME LinkInv, JoinWorker PROVE Service!Next
  OBVIOUS
<1>1. active = None /\ OnWire = FALSE
  BY IdleIsSilent DEF JoinWorker, Holding
<1>2. /\ UNCHANGED <<nreq, req, outcome, txn>> /\ active' = None /\ session' = None
      /\ pc'["worker"] = pc["worker"] /\ UNCHANGED attempt
  BY DEF JoinWorker, HandlerDone, clientVars, wireVars, LinkInv, TypeInv, TypeOK, Threads
<1>3. OnWire' = OnWire
  BY <1>1, <1>2 DEF OnWire
<1>4. Service!Pending = {}
  BY PendingIs DEF LinkInv, DeadIdle, JoinWorker
<1>5. UNCHANGED <<Submitted(Status), Submitted(Kind), Submitted(Owner)>>
  BY <1>2, SubmittedIs, SubmittedNextIs
<1>6. Service!Abandon
  BY <1>1, <1>2, <1>3, <1>4, <1>5 DEF Service!Abandon
<1> QED BY <1>6 DEF Service!Next

\* The service does not see the users take their results, the reader, or the
\* lifecycle handlers enter and give up.
LEMMA UnseenStep ==
  ASSUME LinkInv,
         \/ \E c \in Clients : ReceiveResult(c) \/ (LeaveSession(c) /\ host # "up")
         \/ StopWorker \/ JoinTimeout \/ KlippyConnect \/ KlippyShutdown \/ KlippyEnd
         \/ ReaderReceive \/ ReaderFails \/ ReaderExit \/ UNCHANGED vars
  PROVE  UNCHANGED Service!vars
<1>1. UNCHANGED <<nreq, req, outcome, active, session, txn, attempt>>
  BY DEF ReceiveResult, LeaveSession, StopWorker, JoinTimeout, KlippyConnect, KlippyShutdown,
         KlippyEnd, Handle, ReaderReceive, ReaderFails, ReaderExit, clientVars, workVars, wireVars, vars
<1>2. pc'["worker"] = pc["worker"]
  BY DEF ReceiveResult, LeaveSession, StopWorker, JoinTimeout, KlippyConnect, KlippyShutdown,
         KlippyEnd, Handle, HandlerDone, Goto, ReaderReceive, ReaderFails, ReaderExit, vars,
         LinkInv, TypeInv, TypeOK, Threads
<1>3. OnWire' = OnWire
  BY <1>1, <1>2 DEF OnWire
<1> QED BY <1>1, <1>3, StutterStep

-----------------------------------------------------------------------------
LEMMA ServiceInit == Init => Service!Init
<1> SUFFICES ASSUME Init PROVE Service!Init
  OBVIOUS
<1>1. nreq = 0 /\ active = None /\ session = None /\ txn = 0 /\ pc["worker"] = "dead"
  BY DEF Init, Threads
<1>2. Submitted(Status) = <<>> /\ Submitted(Kind) = <<>> /\ Submitted(Owner) = <<>>
  BY <1>1, SubmittedIs
<1>3. OnWire = FALSE
  BY <1>1 DEF OnWire
<1> QED BY <1>1, <1>2, <1>3 DEF Service!Init

LEMMA ServiceNext == LinkInv /\ [Next]_vars => [Service!Next]_(Service!vars)
<1> SUFFICES ASSUME LinkInv, [Next]_vars PROVE Service!Next \/ UNCHANGED Service!vars
  OBVIOUS
<1>1. CASE \E c \in Clients, r \in Request : Submit(c, r)
  BY <1>1, SubmitStep
<1>2. CASE \E c \in Clients : Client(c)
  <2> PICK c \in Clients : Client(c)
    BY <1>2
  <2>1. CASE SendData(c)
    <3>1. PICK a \in Targets, f \in Funcs, n \in 1..MaxAttempts :
            Submit(c, [kind |-> "data", client |-> c, session |-> inside[c],
                       addr |-> a, func |-> f, attempts |-> n])
      BY <2>1 DEF SendData
    <3>2. inside[c] \in {None} \cup ReqIds
      BY DEF LinkInv, TypeInv, TypeOK
    <3>3. [kind |-> "data", client |-> c, session |-> inside[c],
           addr |-> a, func |-> f, attempts |-> n] \in Request
      BY <3>2 DEF Request, DataRequest
    <3> QED BY <1>1, <3>1, <3>3
  <2>2. CASE EnterSession(c)
    <3>1. Submit(c, [kind |-> "begin", client |-> c, session |-> nreq + 1])
      BY <2>2 DEF EnterSession
    <3>2. nreq + 1 \in ReqIds
      BY <3>1, BoundsAssumption DEF Submit, LinkInv, TypeInv, TypeOK, ReqIds
    <3>3. [kind |-> "begin", client |-> c, session |-> nreq + 1] \in Request
      BY <3>2 DEF Request, ControlRequest
    <3> QED BY <1>1, <3>1, <3>3
  <2>3. CASE LeaveSession(c) /\ host = "up"
    <3>1. Submit(c, [kind |-> "end", client |-> c, session |-> inside[c]]) /\ inside[c] # None
      BY <2>3 DEF LeaveSession
    <3>2. inside[c] \in ReqIds
      BY <3>1 DEF LinkInv, TypeInv, TypeOK
    <3>3. [kind |-> "end", client |-> c, session |-> inside[c]] \in Request
      BY <3>2 DEF Request, ControlRequest
    <3> QED BY <1>1, <3>1, <3>3
  <2>4. CASE ReceiveResult(c) \/ (LeaveSession(c) /\ host # "up")
    BY <2>4, UnseenStep
  <2> QED BY <2>1, <2>2, <2>3, <2>4 DEF Client
<1>3. CASE Worker
  BY <1>3, ServeStep, RefuseStep, ControlStep, TransmitStep, WaitStep, PrivateStep DEF Worker
<1>4. CASE \E t \in Threads : Connect(t) \/ Disconnect(t)
  BY <1>4, PortStep
<1>5. CASE JoinWorker
  BY <1>5, AbandonStep
<1>6. CASE \/ StopWorker \/ JoinTimeout \/ KlippyConnect \/ KlippyShutdown \/ KlippyEnd
           \/ ReaderReceive \/ ReaderFails \/ ReaderExit \/ UNCHANGED vars
  BY <1>6, UnseenStep
<1> QED BY <1>2, <1>3, <1>4, <1>5, <1>6 DEF Next, WorkerStep, Handler, Threads

\* The transport serves the bus as promised, for any number of requests,
\* clients and devices (the whole of serial_485.py above _feed_rx).
THEOREM ServesItsUsers == Spec => ServesBus
<1>1. Spec => []DeadIdle
  <2>1. Init => DeadIdle
    BY DEF Init, DeadIdle
  <2> QED BY <2>1, DeadIdleNext, TypeInvariant, PTL DEF Spec
<1>2. Spec => []LinkInv
  BY <1>1, TypeInvariant, NoRequestLost, PTL DEF LinkInv
<1> QED BY <1>2, ServiceInit, ServiceNext, PTL DEF Spec, ServesBus, Service!Spec
=============================================================================
