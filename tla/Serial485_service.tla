-------------------------- MODULE Serial485_service --------------------------
(***************************************************************************)
(* The transport of Serial485 implements the service of BusService.        *)
(***************************************************************************)
EXTENDS Serial485

\* The submitted requests, in the order of their ids.
Submitted(f(_)) == [r \in 1..nreq |-> f(r)]

Status(r) == outcome[r]
Kind(r)   == req[r].kind
Owner(r)  == req[r].session

\* The active request has been on the wire, in this attempt or an earlier.
OnWire ==
  \/ pc["worker"] = "wait"
  \/ active # None /\ pc["worker"] # "process" /\ attempt > 1

Service == INSTANCE BusService WITH
  Ids <- ReqIds, Nobody <- None,
  Waiting <- "pending", Answered <- "reply", Silent <- "none", Failed <- "error",
  status <- Submitted(Status), kind <- Submitted(Kind), owner <- Submitted(Owner),
  served <- active, sent <- OnWire, holder <- session, sends <- txn

\* The threads, the lock and the port together serve the bus as promised: one
\* request at a time in the order of submission, a session alone, nothing
\* transmitted for a request that is not being served, no request ended twice
\* or answered without having been sent, and nothing refused but by a stop
\* (_request_worker_loop, _pop_request, _process_request and the lifecycle
\* handlers).
ServesBus == Service!Spec
=============================================================================
