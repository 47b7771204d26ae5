----------------------------- MODULE BusService -----------------------------
(***************************************************************************)
(* What files/serial_485.py promises its users, without threads, locks,    *)
(* ports or frames: requests are served one at a time, the oldest first,   *)
(* except that an open session is alone on the bus; only the request being *)
(* served is transmitted; each ends exactly once, and a reply or a timeout *)
(* only after it was transmitted.  A service that is being stopped may     *)
(* refuse all that waits.                                                  *)
(***************************************************************************)
EXTENDS Integers, Sequences

CONSTANTS
  Ids,       \* the requests, numbered in the order they are submitted
  Waiting,   \* the states of a request: not finished,
  Answered,  \* ended with a reply,
  Silent,    \* without one,
  Failed,    \* or with an error
  Nobody     \* no request, no session

VARIABLES
  status,  \* of each submitted request
  kind,    \* "data", "begin" or "end", of each submitted request
  owner,   \* the session each submitted request belongs to, or Nobody
  served,  \* the request being served, or Nobody
  sent,    \* the request being served has been transmitted
  holder,  \* the open session, or Nobody
  sends    \* how many frames were transmitted

vars == <<status, kind, owner, served, sent, holder, sends>>

Init ==
  /\ status = <<>> /\ kind = <<>> /\ owner = <<>>
  /\ served = Nobody /\ sent = FALSE
  /\ holder = Nobody
  /\ sends = 0

Pending == {r \in DOMAIN status : status[r] = Waiting /\ r # served}

\* A new request, younger than all there are.
Ask(k, s) ==
  /\ status' = Append(status, Waiting)
  /\ kind' = Append(kind, k)
  /\ owner' = Append(owner, s)
  /\ UNCHANGED <<served, sent, holder, sends>>

\* What may be served: with a session open, only its own.
Allowed == {r \in Pending : holder # Nobody => owner[r] = holder}

Serve ==
  /\ served = Nobody
  /\ \E r \in Allowed :
       /\ \A q \in Allowed : r <= q
       /\ served' = r
  /\ sent' = FALSE
  /\ UNCHANGED <<status, kind, owner, holder, sends>>

Transmit ==
  /\ served # Nobody /\ kind[served] = "data"
  /\ sent' = TRUE
  /\ sends' = sends + 1
  /\ UNCHANGED <<status, kind, owner, served, holder>>

\* The request being served ends as o.
Ends(o) ==
  /\ status' = [status EXCEPT ![served] = o]
  /\ served' = Nobody /\ sent' = FALSE
  /\ UNCHANGED <<kind, owner, sends>>

Finish ==
  /\ served # Nobody /\ kind[served] = "data"
  /\ \/ Ends(Failed)
     \/ sent /\ (Ends(Answered) \/ Ends(Silent))
  /\ UNCHANGED holder

\* Sessions do not nest, and only its own "end" closes one.
Open ==
  /\ served # Nobody /\ kind[served] = "begin"
  /\ IF holder = Nobody
     THEN Ends(Answered) /\ holder' = owner[served]
     ELSE Ends(Failed) /\ UNCHANGED holder

Close ==
  /\ served # Nobody /\ kind[served] = "end"
  /\ IF holder = owner[served]
     THEN Ends(Answered) /\ holder' = Nobody
     ELSE Ends(Failed) /\ UNCHANGED holder

\* The service stops: all that waits fails at once; a session that is left
\* open ends when nothing is left to do.
Refuse ==
  /\ served = Nobody
  /\ status' = [r \in DOMAIN status |->
                  IF r \in Pending THEN Failed ELSE status[r]]
  /\ UNCHANGED <<kind, owner, served, sent, holder, sends>>

Abandon ==
  /\ served = Nobody /\ Pending = {}
  /\ holder' = Nobody
  /\ UNCHANGED <<status, kind, owner, served, sent, sends>>

Next ==
  \/ \E k \in {"data", "begin", "end"}, s \in Ids \cup {Nobody} : Ask(k, s)
  \/ Serve \/ Transmit \/ Finish \/ Open \/ Close
  \/ Refuse \/ Abandon

Spec == Init /\ [][Next]_vars
=============================================================================
