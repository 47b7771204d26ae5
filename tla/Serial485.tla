------------------------------ MODULE Serial485 ------------------------------
(***************************************************************************)
(* The RS-485 transport of files/serial_485.py: klippy greenlets submit    *)
(* requests to a queue, one worker thread transmits them and waits for the *)
(* answers a reader thread puts into a bounded deque, and the klippy       *)
(* lifecycle handlers open and close the port under _connect_lock.         *)
(*                                                                         *)
(* Three threads interleave: the reactor thread (all the greenlets and the *)
(* lifecycle handlers: a handler that blocks stops every greenlet), the    *)
(* request worker and the reader.  An action is what a thread does between *)
(* two points where another thread can see the difference.                 *)
(***************************************************************************)
EXTENDS Integers, Sequences, FiniteSets

CONSTANTS
  Clients,      \* the greenlets that use the transport
  Addrs,        \* bus addresses of the devices
  Broadcast,    \* 0xFE / 0xFF: a request any device may answer
  Targets,      \* the addresses requests are sent to
  Funcs,        \* function codes
  MaxFrames,    \* max_queued_frames, the bound of _rx_frames
  MaxAttempts,  \* bound: the largest "attempts" a request asks for
  MaxReq,       \* bound: how many requests a behaviour submits
  NoRequest,    \* an unused entry of req
  NoFrame       \* no answer

ASSUME BoundsAssumption ==
  /\ MaxFrames \in Nat \ {0}
  /\ MaxAttempts \in Nat \ {0}
  /\ MaxReq \in Nat

ASSUME AddressAssumption ==
  Broadcast \notin Addrs /\ Targets \subseteq Addrs \cup {Broadcast}

ReqIds  == 1..MaxReq      \* _request_seq counts from 1
None    == 0              \* Python's None where a request or token may be
Threads == {"reactor", "worker"}

\* A queued request.  Its session is the token of a _Serial485Session: the
\* identity of the request that opened it, or None outside a session.
DataRequest ==
  [kind : {"data"}, client : Clients, session : {None} \cup ReqIds,
   addr : Targets, func : Funcs, attempts : 1..MaxAttempts]
ControlRequest ==
  [kind : {"begin", "end"}, client : Clients, session : ReqIds]
Request == DataRequest \cup ControlRequest

\* A response frame: who sent it and its function code; then what the code
\* cannot see: the request and the attempt the device was answering, and the
\* request that was active when the reader queued it (None on the wire).
Frame == [addr : Addrs, func : Funcs, src : ReqIds, try : 1..MaxAttempts,
          seen : {None} \cup ReqIds]

VARIABLES
  host,        \* klippy lifecycle: "init", "up", "shutdown", "ended"
  reason,      \* argument of the _disconnect the reactor thread runs
  pc,          \* what each of the two threads is doing
  lock,        \* owner of _connect_lock, or "none"
  port,        \* _serial is not None
  connected,   \* _connected
  reader,      \* the reader thread is alive
  stopReader,  \* _stop_reader
  stopWorker,  \* _stop_request_worker
  nreq,        \* _request_seq
  req,         \* the requests by id
  outcome,     \* completion of each request
  answer,      \* the frame a request returned
  queue,       \* _request_queue: ids are appended in increasing order, so
               \* the deque is the set of its ids, the oldest the smallest
  active,      \* _active_request
  session,     \* _request_session
  attempt,     \* loop counter of _process_request
  inside,      \* session token of the "with" block each client is in
  awaiting,    \* the request each client waits for
  bus,         \* answers on their way to the reader
  rx,          \* _rx_frames
  txn,         \* _stats["tx_frames"]
  downTxn      \* history: txn when a stopping handler returned, or -1

hostVars   == <<host, reason>>
portVars   == <<port, connected, reader, stopReader>>
clientVars == <<nreq, req, inside, awaiting>>
workVars   == <<stopWorker, outcome, answer, queue, active, session, attempt>>
wireVars   == <<bus, rx, txn>>
vars == <<host, reason, pc, lock, port, connected, reader, stopReader,
          stopWorker, nreq, req, outcome, answer, queue, active, session,
          attempt, inside, awaiting, bus, rx, txn, downTxn>>

ConnectPc    == {"c.lock", "c.settle"}
DisconnectPc == {"d.lock", "d.join"}
ReactorPc == {"free", "exited", "d.stop", "d.wjoin"} \cup ConnectPc \cup DisconnectPc
WorkerPc  == {"dead", "loop", "process", "ensure", "clear", "write", "wait"}
               \cup ConnectPc \cup DisconnectPc

Init ==
  /\ host = "init" /\ reason = "disconnect"
  /\ pc = [t \in Threads |-> IF t = "reactor" THEN "free" ELSE "dead"]
  /\ lock = "none"
  /\ port = FALSE /\ connected = FALSE
  /\ reader = FALSE /\ stopReader = FALSE /\ stopWorker = FALSE
  /\ nreq = 0
  /\ req = [r \in ReqIds |-> NoRequest]
  /\ outcome = [r \in ReqIds |-> "unused"]
  /\ answer = [r \in ReqIds |-> NoFrame]
  /\ queue = {} /\ active = None /\ session = None /\ attempt = 1
  /\ inside = [c \in Clients |-> None]
  /\ awaiting = [c \in Clients |-> None]
  /\ bus = {} /\ rx = <<>> /\ txn = 0 /\ downTxn = -1

-----------------------------------------------------------------------------
(* Clients: greenlets of the reactor thread.                               *)

\* No lifecycle handler occupies the reactor thread.
ReactorFree == pc["reactor"] = "free" /\ host \in {"up", "shutdown"}

\* _submit_request: revive the worker if it is gone, queue, wait.
Submit(c, r) ==
  /\ nreq < MaxReq
  /\ nreq' = nreq + 1
  /\ req' = [req EXCEPT ![nreq + 1] = r]
  /\ outcome' = [outcome EXCEPT ![nreq + 1] = "pending"]
  /\ queue' = queue \cup {nreq + 1}
  /\ awaiting' = [awaiting EXCEPT ![c] = nreq + 1]
  /\ IF pc["worker"] = "dead"
     THEN pc' = [pc EXCEPT !["worker"] = "loop"] /\ stopWorker' = FALSE
     ELSE UNCHANGED <<pc, stopWorker>>
  /\ UNCHANGED <<hostVars, lock, portVars, answer, active, session, attempt,
                 wireVars, downTxn>>

\* Clients that will still need an id for their "end".
Unfinished ==
  {c \in Clients : \/ inside[c] # None
                   \/ awaiting[c] # None /\ req[awaiting[c]].kind = "begin"}

\* Room for n more requests under the bound MaxReq, keeping one id for the
\* "end" of every session that is open or being opened.
Room(n) == nreq + n + Cardinality(Unfinished) <= MaxReq

\* cmd_send_data_with_response, of the wrapper or of an open session.
SendData(c) ==
  /\ ReactorFree /\ host = "up"
  /\ awaiting[c] = None
  /\ Room(1)
  /\ \E a \in Targets, f \in Funcs, n \in 1..MaxAttempts :
       Submit(c, [kind |-> "data", client |-> c, session |-> inside[c],
                  addr |-> a, func |-> f, attempts |-> n])
  /\ UNCHANGED inside

\* __enter__ of a new session: its token is this request.
EnterSession(c) ==
  /\ ReactorFree /\ host = "up"
  /\ awaiting[c] = None /\ inside[c] = None
  /\ Room(2)
  /\ Submit(c, [kind |-> "begin", client |-> c, session |-> nreq + 1])
  /\ UNCHANGED inside

\* __exit__: after a shutdown _submit_request raises and nothing is queued.
LeaveSession(c) ==
  /\ ReactorFree
  /\ awaiting[c] = None /\ inside[c] # None
  /\ inside' = [inside EXCEPT ![c] = None]
  /\ IF host = "up"
     THEN Submit(c, [kind |-> "end", client |-> c, session |-> inside[c]])
     ELSE UNCHANGED <<hostVars, pc, lock, portVars, workVars, nreq, req,
                      awaiting, wireVars, downTxn>>

\* _await_request_completion returns or raises; __enter__ marks the session
\* active only when "begin" succeeded.
ReceiveResult(c) ==
  /\ ReactorFree
  /\ awaiting[c] # None
  /\ outcome[awaiting[c]] # "pending"
  /\ awaiting' = [awaiting EXCEPT ![c] = None]
  /\ LET r == awaiting[c] IN
       inside' = IF req[r].kind = "begin" /\ outcome[r] = "reply"
                 THEN [inside EXCEPT ![c] = req[r].session]
                 ELSE inside
  /\ UNCHANGED <<hostVars, pc, lock, portVars, workVars, nreq, req, wireVars,
                 downTxn>>

Client(c) ==
  SendData(c) \/ EnterSession(c) \/ LeaveSession(c) \/ ReceiveResult(c)

-----------------------------------------------------------------------------
(* The request worker.                                                     *)

Working(p) == pc["worker"] = p
Goto(t, p) == pc' = [pc EXCEPT ![t] = p]

\* The active request completes: done.set() and async_complete.
Complete(o) ==
  /\ outcome' = [outcome EXCEPT ![active] = o]
  /\ active' = None
  /\ Goto("worker", "loop")

\* Faulty variant: sessions are ignored.
EligibleToAll == queue

\* What _pop_request may take: with a session open, only that session's.
Eligible ==
  IF session = None THEN queue ELSE {r \in queue : req[r].session = session}

\* _request_worker_loop takes the oldest eligible request; with none it
\* waits on _request_cond.
TakeOldest ==
  /\ \E r \in Eligible :
       /\ \A q \in Eligible : r <= q
       /\ active' = r
       /\ queue' = queue \ {r}
  /\ Goto("worker", "process")
  /\ UNCHANGED <<hostVars, lock, portVars, clientVars, stopWorker, outcome,
                 answer, session, attempt, wireVars, downTxn>>

\* Faulty variant: the stop flag is not tested.
WorkerPopStopped == Working("loop") /\ TakeOldest

WorkerPop == Working("loop") /\ ~stopWorker /\ TakeOldest

\* Faulty variant: only what the session may run is failed.
DrainedOfSession == Eligible

\* The stop flag: everything queued fails, session or not.
Drained == queue

WorkerDrain ==
  /\ Working("loop") /\ stopWorker
  /\ queue # {}
  /\ outcome' = [r \in ReqIds |-> IF r \in Drained THEN "error" ELSE outcome[r]]
  /\ queue' = {}
  /\ UNCHANGED <<hostVars, pc, lock, portVars, clientVars, stopWorker, answer,
                 active, session, attempt, wireVars, downTxn>>

WorkerExit ==
  /\ Working("loop") /\ stopWorker
  /\ queue = {}
  /\ Goto("worker", "dead")
  /\ UNCHANGED <<hostVars, lock, portVars, clientVars, workVars, wireVars, downTxn>>

\* _process_request of a control request.
ProcessBegin ==
  /\ Working("process") /\ req[active].kind = "begin"
  /\ IF session # None
     THEN Complete("error") /\ UNCHANGED session
     ELSE Complete("reply") /\ session' = req[active].session
  /\ UNCHANGED <<hostVars, lock, portVars, clientVars, stopWorker, answer,
                 queue, attempt, wireVars, downTxn>>

\* Faulty variant: the session stays open.
ProcessEndForgets ==
  /\ Working("process") /\ req[active].kind = "end"
  /\ Complete("reply")
  /\ UNCHANGED <<hostVars, lock, portVars, clientVars, stopWorker, answer,
                 queue, session, attempt, wireVars, downTxn>>

ProcessEnd ==
  /\ Working("process") /\ req[active].kind = "end"
  /\ IF session # req[active].session
     THEN Complete("error") /\ UNCHANGED session
     ELSE Complete("reply") /\ session' = None
  /\ UNCHANGED <<hostVars, lock, portVars, clientVars, stopWorker, answer,
                 queue, attempt, wireVars, downTxn>>

ProcessData ==
  /\ Working("process") /\ req[active].kind = "data"
  /\ attempt' = 1
  /\ Goto("worker", "ensure")
  /\ UNCHANGED <<hostVars, lock, portVars, clientVars, stopWorker, outcome,
                 answer, queue, active, session, wireVars, downTxn>>

\* _ensure_connected reads both fields without the lock.
EnsureConnected ==
  /\ Working("ensure")
  /\ Goto("worker", IF connected /\ port THEN "clear" ELSE "c.lock")
  /\ UNCHANGED <<hostVars, lock, portVars, clientVars, workVars, wireVars, downTxn>>

\* Faulty variant: the deque is not cleared.
ClearNothing ==
  /\ Working("clear")
  /\ Goto("worker", "write")
  /\ UNCHANGED <<hostVars, lock, portVars, clientVars, workVars, wireVars, downTxn>>

ClearPendingFrames ==
  /\ Working("clear")
  /\ rx' = <<>>
  /\ Goto("worker", "write")
  /\ UNCHANGED <<hostVars, lock, portVars, clientVars, workVars, bus, txn, downTxn>>

\* Devices a request can be answered by.
Answerers(r) == IF r.addr = Broadcast THEN Addrs ELSE {r.addr}

\* _write_frame succeeds; any of these devices answer, at any later time.
WriteFrame ==
  /\ Working("write") /\ port
  /\ txn' = txn + 1
  /\ \E A \in SUBSET Answerers(req[active]) :
       bus' = bus \cup {[addr |-> a, func |-> req[active].func, src |-> active,
                         try |-> attempt, seen |-> None] : a \in A}
  /\ Goto("worker", "wait")
  /\ UNCHANGED <<hostVars, lock, portVars, clientVars, workVars, rx, downTxn>>

\* _serial is None, or the write on an open or just closed port raises.
WriteFails ==
  /\ Working("write")
  /\ Goto("worker", "d.lock")
  /\ UNCHANGED <<hostVars, lock, portVars, clientVars, workVars, wireVars, downTxn>>

\* Faulty variant: the address is not compared.
MatchesAnyAddr(r, f) == f.func = r.func

\* _matches_response
Matches(r, f) ==
  /\ r.addr # Broadcast => f.addr = r.addr
  /\ f.func = r.func

Matching == {i \in DOMAIN rx : Matches(req[active], rx[i])}

\* _wait_for_response sees the stop flag first.
WaitStopped ==
  /\ Working("wait") /\ stopWorker
  /\ Complete("error")
  /\ UNCHANGED <<hostVars, lock, portVars, clientVars, stopWorker, answer,
                 queue, session, attempt, wireVars, downTxn>>

\* It pops frames up to the first that matches.
WaitAccept ==
  /\ Working("wait") /\ ~stopWorker
  /\ \E i \in Matching :
       /\ \A j \in Matching : i <= j
       /\ answer' = [answer EXCEPT ![active] = rx[i]]
       /\ rx' = SubSeq(rx, i + 1, Len(rx))
  /\ Complete("reply")
  /\ UNCHANGED <<hostVars, lock, portVars, clientVars, stopWorker, queue,
                 session, attempt, bus, txn, downTxn>>

\* Faulty variant: one attempt too many.
MoreAttemptsOffByOne == attempt <= req[active].attempts

\* range(1, attempts + 1) has another number.
MoreAttempts == attempt < req[active].attempts

\* No match before the deadline: what was queued has been discarded.  The
\* next attempt goes through _ensure_connected again.
WaitTimeout ==
  /\ Working("wait") /\ ~stopWorker
  /\ Matching = {}
  /\ rx' = <<>>
  /\ IF MoreAttempts
     THEN attempt' = attempt + 1 /\ Goto("worker", "ensure")
                                 /\ UNCHANGED <<outcome, active>>
     ELSE Complete("none") /\ UNCHANGED attempt
  /\ UNCHANGED <<hostVars, lock, portVars, clientVars, stopWorker, answer,
                 queue, session, bus, txn, downTxn>>

Worker ==
  \/ WorkerPop \/ WorkerDrain \/ WorkerExit
  \/ ProcessBegin \/ ProcessEnd \/ ProcessData
  \/ EnsureConnected \/ ClearPendingFrames \/ WriteFrame \/ WriteFails
  \/ WaitStopped \/ WaitAccept \/ WaitTimeout

-----------------------------------------------------------------------------
(* _connect and _disconnect, run by either thread under _connect_lock.     *)

\* The call ends: the reactor handler returns, the worker goes on to p.
Return(t, p) ==
  /\ pc' = [pc EXCEPT ![t] = IF t = "reactor" THEN "free" ELSE p]
  /\ UNCHANGED <<outcome, active>>

\* The call ends in an exception: _handle_connect logs it, the worker fails
\* the request it was processing.
Raise(t) ==
  IF t = "reactor" THEN Return(t, "free") ELSE Complete("error")

\* _ensure_request_worker precedes the opening of the port; only the reactor
\* thread can find the worker gone.
Revive(next) ==
  IF pc["worker"] = "dead"
  THEN pc' = [next EXCEPT !["worker"] = "loop"] /\ stopWorker' = FALSE
  ELSE pc' = next /\ UNCHANGED stopWorker

\* The port opens and the reader starts; connect_settle begins.  _connect's
\* early return when already connected never happens: the handler connects
\* before there are requests, and from then on only the worker does.
ConnectOpen(t) ==
  /\ pc[t] = "c.lock" /\ lock = "none"
  /\ ~connected
  /\ lock' = t
  /\ port' = TRUE /\ rx' = <<>>
  /\ stopReader' = FALSE /\ reader' = TRUE
  /\ Revive([pc EXCEPT ![t] = "c.settle"])
  /\ UNCHANGED <<hostVars, connected, clientVars, outcome, answer, queue, active,
                 session, attempt, bus, txn, downTxn>>

\* serial.Serial raises.
ConnectRefused(t) ==
  /\ pc[t] = "c.lock" /\ lock = "none"
  /\ ~connected
  /\ IF t = "reactor"
     THEN Revive([pc EXCEPT ![t] = "free"]) /\ UNCHANGED <<outcome, active>>
     ELSE Complete("error") /\ UNCHANGED stopWorker
  /\ UNCHANGED <<hostVars, lock, portVars, clientVars, answer, queue, session,
                 attempt, wireVars, downTxn>>

ConnectSettled(t) ==
  /\ pc[t] = "c.settle"
  /\ connected' = TRUE
  /\ lock' = "none"
  /\ Return(t, "clear")
  /\ UNCHANGED <<hostVars, port, reader, stopReader, clientVars, stopWorker,
                 answer, queue, session, attempt, wireVars, downTxn>>

Stopping == reason \in {"shutdown", "firmware_restart"}

\* A lifecycle handler returns: klippy:firmware_restart is followed by
\* klippy:disconnect, which ends the reactor thread's part.
HandlerDone ==
  /\ pc' = [pc EXCEPT !["reactor"] =
              CASE reason = "shutdown" -> "free"
                [] reason = "firmware_restart" -> "d.lock"
                [] reason = "disconnect" -> "exited"]
  /\ reason' = "disconnect"
  /\ downTxn' = IF Stopping /\ downTxn = -1 THEN txn ELSE downTxn

\* _disconnect returns to its caller.
DisconnectDone(t) ==
  IF t = "reactor"
  THEN HandlerDone /\ UNCHANGED <<outcome, active>>
  ELSE Raise(t) /\ UNCHANGED <<reason, downTxn>>

DisconnectNothing(t) ==
  /\ pc[t] = "d.lock" /\ lock = "none"
  /\ ~port /\ ~connected /\ pc["worker"] = "dead"
  /\ DisconnectDone(t)
  /\ UNCHANGED <<host, lock, portVars, clientVars, stopWorker, answer, queue,
                 session, attempt, wireVars>>

DisconnectBegin(t) ==
  /\ pc[t] = "d.lock" /\ lock = "none"
  /\ port \/ connected \/ pc["worker"] # "dead"
  /\ lock' = t
  /\ stopReader' = TRUE
  /\ port' = FALSE /\ connected' = FALSE
  /\ Goto(t, "d.join")
  /\ UNCHANGED <<hostVars, reader, clientVars, workVars, wireVars, downTxn>>

\* Faulty variant: the reader is not joined.
ReaderAbandoned == TRUE

\* reader.join: a read returns within read_timeout, far below the join's.
ReaderJoined == ~reader

DisconnectJoinReader(t) ==
  /\ pc[t] = "d.join"
  /\ ReaderJoined
  /\ rx' = <<>>
  /\ IF t = "reactor" /\ Stopping
     THEN Goto(t, "d.stop") /\ UNCHANGED <<reason, lock, outcome, active, downTxn>>
     ELSE DisconnectDone(t) /\ lock' = "none"
  /\ UNCHANGED <<host, portVars, clientVars, stopWorker, answer, queue,
                 session, attempt, bus, txn>>

\* _stop_request_worker_thread, under _connect_lock.
StopWorker ==
  /\ pc["reactor"] = "d.stop"
  /\ stopWorker' = (pc["worker"] # "dead" \/ stopWorker)
  /\ Goto("reactor", "d.wjoin")
  /\ UNCHANGED <<hostVars, lock, portVars, clientVars, outcome, answer, queue,
                 active, session, attempt, wireVars, downTxn>>

\* thread.join(timeout=1.0) finds the worker gone.
JoinWorker ==
  /\ pc["reactor"] = "d.wjoin"
  /\ pc["worker"] = "dead"
  /\ active' = None /\ session' = None
  /\ lock' = "none"
  /\ HandlerDone
  /\ UNCHANGED <<host, portVars, clientVars, stopWorker, outcome, answer, queue,
                 attempt, wireVars>>

\* Faulty variant: join() without a timeout.
JoinForever == FALSE

\* The join times out: the handler gives up and releases the lock.
JoinTimeout ==
  /\ pc["reactor"] = "d.wjoin"
  /\ pc["worker"] # "dead"
  /\ lock' = "none"
  /\ HandlerDone
  /\ UNCHANGED <<host, portVars, clientVars, workVars, wireVars>>

Connect(t) ==
  ConnectOpen(t) \/ ConnectRefused(t) \/ ConnectSettled(t)

Disconnect(t) ==
  DisconnectNothing(t) \/ DisconnectBegin(t) \/ DisconnectJoinReader(t)

Handler ==
  \/ Connect("reactor") \/ Disconnect("reactor")
  \/ StopWorker \/ JoinWorker \/ JoinTimeout

-----------------------------------------------------------------------------
(* klippy's lifecycle events and the reader thread.                        *)

\* The reactor thread enters a handler.
Handle(h, r, p) ==
  /\ pc["reactor"] = "free"
  /\ host' = h /\ reason' = r
  /\ Goto("reactor", p)
  /\ UNCHANGED <<lock, portVars, clientVars, workVars, wireVars, downTxn>>

KlippyConnect  == host = "init" /\ Handle("up", reason, "c.lock")
KlippyShutdown == host = "up" /\ Handle("shutdown", "shutdown", "d.lock")
KlippyEnd ==
  /\ host \in {"up", "shutdown"}
  /\ \E r \in {"firmware_restart", "disconnect"} : Handle("ended", r, "d.lock")

\* _feed_rx queues a frame, dropping the oldest of a full deque.
ReaderReceive ==
  /\ reader
  /\ \E f \in bus :
       /\ bus' = bus \ {f}
       /\ rx' = Append(IF Len(rx) >= MaxFrames THEN Tail(rx) ELSE rx,
                       [f EXCEPT !.seen = active])
  /\ UNCHANGED <<hostVars, pc, lock, portVars, clientVars, workVars, txn, downTxn>>

\* read raises: the thread ends and nobody is told.
ReaderFails ==
  /\ reader /\ ~stopReader
  /\ reader' = FALSE
  /\ UNCHANGED <<hostVars, pc, lock, port, connected, stopReader, clientVars,
                 workVars, wireVars, downTxn>>

ReaderExit ==
  /\ reader /\ (stopReader \/ ~port)
  /\ reader' = FALSE
  /\ UNCHANGED <<hostVars, pc, lock, port, connected, stopReader, clientVars,
                 workVars, wireVars, downTxn>>

WorkerStep == Worker \/ Connect("worker") \/ Disconnect("worker")

Next ==
  \/ \E c \in Clients : Client(c)
  \/ WorkerStep
  \/ Handler
  \/ KlippyConnect \/ KlippyShutdown \/ KlippyEnd
  \/ ReaderReceive \/ ReaderFails \/ ReaderExit

Spec == Init /\ [][Next]_vars

\* The OS schedules the threads, the reactor runs a greenlet whose completion
\* is done, and a "with" block ends.  klippy, the wire and the clients' other
\* requests owe nothing.  Both outcomes of a race (JoinWorker or JoinTimeout,
\* WriteFrame or WriteFails) stay open.
Fairness ==
  /\ WF_vars(WorkerStep) /\ WF_vars(Handler) /\ WF_vars(ReaderExit)
  /\ \A c \in Clients :
       WF_vars(ReceiveResult(c)) /\ WF_vars(LeaveSession(c))

LiveSpec == Spec /\ Fairness

-----------------------------------------------------------------------------
(* Properties.                                                             *)

\* Type invariant of the transport's fields and of the histories.
TypeOK ==
  /\ host \in {"init", "up", "shutdown", "ended"}
  /\ reason \in {"shutdown", "firmware_restart", "disconnect"}
  /\ pc \in [Threads -> ReactorPc \cup WorkerPc]
  /\ pc["reactor"] \in ReactorPc /\ pc["worker"] \in WorkerPc
  /\ lock \in Threads \cup {"none"}
  /\ {port, connected, reader, stopReader, stopWorker} \subseteq BOOLEAN
  /\ nreq \in 0..MaxReq
  /\ req \in [ReqIds -> Request \cup {NoRequest}]
  /\ outcome \in [ReqIds -> {"unused", "pending", "reply", "none", "error"}]
  /\ answer \in [ReqIds -> Frame \cup {NoFrame}]
  /\ queue \subseteq ReqIds
  /\ active \in {None} \cup ReqIds
  /\ session \in {None} \cup ReqIds
  /\ attempt \in 1..MaxAttempts
  /\ inside \in [Clients -> {None} \cup ReqIds]
  /\ awaiting \in [Clients -> {None} \cup ReqIds]
  /\ bus \subseteq Frame
  /\ rx \in Seq(Frame) /\ Len(rx) <= MaxFrames
  /\ txn \in Nat
  /\ downTxn \in Int

\* A submitted request is unfinished exactly while the transport still holds
\* it, queued or active and never both: no greenlet waits for a request that
\* was lost between the queue, the stop flag and the worker's exit
\* (_submit_request, _request_worker_loop, _stop_request_worker_thread).
RequestConserved ==
  /\ active \notin queue
  /\ \A r \in ReqIds :
       /\ outcome[r] = "unused" <=> r > nreq
       /\ outcome[r] = "pending" <=> r \in queue \/ (r = active /\ r # None)

\* A request returns only a frame the reader queued while that request was
\* being processed: whatever an earlier exchange left in the deque is gone
\* (_clear_pending_frames, _connect, _disconnect).
AnswerCurrent ==
  \A r \in ReqIds : answer[r] # NoFrame => answer[r].seen = r

\* A request that returns the answer to another one returns a frame from the
\* device it addressed, of its own function code, and only if that earlier
\* request was broadcast, was retried or did not get its own answer
\* (_matches_response has no sequence number to tell the two apart).
AnswerFits ==
  \A r \in ReqIds : answer[r] # NoFrame =>
    LET s == answer[r].src IN
      /\ answer[r].func = req[r].func
      /\ req[r].addr # Broadcast => answer[r].addr = req[r].addr
      /\ s # r => \/ req[s].addr = Broadcast
                  \/ req[s].attempts > 1
                  \/ answer[s] = NoFrame
                  \/ answer[s].src # s

\* Two reader threads never share _rx_buffer: the port is opened again only
\* after the previous connection's reader has ended (_disconnect joins it
\* under _connect_lock before _connect can run).
OneReader == [][port' /\ ~port => ~reader]_vars

\* Once the shutdown or firmware-restart handler has returned, at most the
\* request the worker was already processing still reaches the wire: nothing
\* that was queued (_stop_request_worker_thread, _request_worker_loop).
OneLateFrame == downTxn # -1 => txn <= downTxn + 1

\* Every request completes, whatever the wire loses, whether or not the reader
\* thread survives and whichever handler interrupts it: no greenlet hangs in
\* _await_request_completion.  The one exception is a host that ends with a
\* bare klippy:disconnect, which does not stop the worker: what waits behind
\* an open session then waits for ever.
EveryRequestCompletes ==
  \A r \in ReqIds :
    outcome[r] = "pending" ~>
      \/ outcome[r] \in {"reply", "none", "error"}
      \/ pc["reactor"] = "exited" /\ ~stopWorker /\ session # None

\* A lifecycle handler always gives the reactor thread back: waiting for the
\* worker under _connect_lock, which the worker may want, ends.
HandlersReturn ==
  pc["reactor"] \notin {"free", "exited"} ~> pc["reactor"] \in {"free", "exited"}
=============================================================================
