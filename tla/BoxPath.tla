------------------------------ MODULE BoxPath -------------------------------
(***************************************************************************)
(* The filament path of the CFS boxes (files/box.py): the poll that reads  *)
(* the live state, the tracking owner, the episodes of faults and runouts, *)
(* and the operations that load, unload and retract.  The clog check only  *)
(* appears as a pause that comes at any time.                              *)
(*                                                                         *)
(* The poll and the G-code command that runs an operation are greenlets;   *)
(* a step is one exchange with a box, at the moment of its reply, or a     *)
(* step of the toolhead.  The transport answers requests in the order they *)
(* were made, so the two take turns, except that a load session keeps the  *)
(* poll's requests waiting.  Queries whose answer decides nothing (of      *)
(* presence, buffer and encoder) are part of the step they belong to.  An  *)
(* exchange may be lost, before or after it had its effect.                *)
(*                                                                         *)
(* The printhead sensor has no error, advisory statuses and box states     *)
(* other than IDLE, PRINT and ERROR are left out.  What RESUME, pause and  *)
(* retries make of a failure is modelled in BoxChange.                     *)
(***************************************************************************)
EXTENDS Naturals, FiniteSets, FiniteSetsExt

CONSTANTS Boxes,     \* the addresses of the boxes
          Slots,     \* the slots in play, of all boxes
          BoxOf,     \* the box of a slot
          Troubled,  \* the boxes that report faults and runouts
          MaxLost,   \* bound: state queries that stay unanswered
          Statuses,  \* faults met: "fatal", "stalled" (BUFFER_REFILL_STALLED)
          External,  \* the external spool's slot
          None,      \* no slot, no reply, no episode
          Commands   \* those given, of "load", "unload", "cut", "buffer", "check"

ASSUME SlotsAssumption ==
  /\ Slots # {} /\ Boxes \subseteq Nat /\ BoxOf \in [Slots -> Boxes]
  /\ \A b \in Boxes : \E s \in Slots : BoxOf[s] = b
  /\ External \notin Slots /\ None \notin Slots \cup {External}
  /\ Statuses \cap {"ok", "runout"} = {}

VARIABLES box,        \* per box its state and status
          path,       \* per box the slot whose filament is in the hub
          head,       \* whose filament the printhead sensor detects
          owner,      \* tracking_owner's slot
          pathOwner,  \* path_owner
          episodes,   \* fault_episodes
          runout,     \* runout_active, and runout_key with its slot
          read,       \* per greenlet, its read_live_state
          op,         \* the operation that runs, how far it is, and whether a fault
                      \* or a PAUSE came since it began
          turn,       \* the greenlet whose request is the next, or "any"
          lost        \* how many state queries stayed unanswered

world == <<box, path, head>>
track == <<owner, pathOwner, runout>>
vars  == <<world, track, episodes, read, op, turn, lost>>

Idle     == [state |-> "idle", status |-> "ok"]
Printing == [state |-> "print", status |-> "ok"]
Ran      == [state |-> "print", status |-> "runout"]
Failed(status) == [state |-> "error", status |-> status]

\* What a box replies to a state query; no reply is something else.
Replies == [state : {"idle", "print", "error"}, status : {"ok", "runout"} \cup Statuses,
            path : Slots \cup {None}]

ASSUME NoneAssumption == None \notin Replies

\* An episode is of the current tracking epoch or of an earlier one.
Episode(status, kind) == [status |-> status, kind |-> kind, current |-> TRUE]
NoRunout == [active |-> FALSE, slot |-> None]
NoRead   == [at |-> "no", left |-> {}, got |-> [b \in Boxes |-> None], seen |-> FALSE,
             loaded |-> None, ahead |-> FALSE]  \* ahead: begun while a cut was reading
NoOp     == [name |-> "none", at |-> "idle", slot |-> None, retried |-> FALSE, abort |-> FALSE]

Init ==
  /\ box = [b \in Boxes |-> Idle]
  /\ path = [b \in Boxes |-> None] /\ head \in {None, External}
  /\ owner = None /\ pathOwner = None /\ runout = NoRunout
  /\ episodes = [b \in Boxes |-> None]
  /\ read = [p \in {"poll", "op"} |-> NoRead]
  /\ op = NoOp /\ turn = "any" /\ lost = 0

\* operation_depth is positive; the cut and the runout check read before or without it.
Operating == op.at \notin {"idle", "ahead"}
InSession == op.name = "load" /\ op.at \in {"stage4", "stage5", "stage6", "stop"}

\* Whose exchange may end now, and whose is the next.
Exchange(p) ==
  /\ turn \in {p, "any"}
  /\ p = "poll" => ~InSession
  /\ turn' = IF p = "op" /\ read["poll"].at # "no" /\ ~InSession THEN "poll" ELSE "any"

-----------------------------------------------------------------------------
(***************************************************************************)
(* Boxes and filament.                                                     *)
(***************************************************************************)
Host == <<track, episodes, read, op, turn, lost>>

\* A box changes before it is asked; that it does earlier makes no difference.
Asked(b) == \E p \in {"poll", "op"} : b \in read[p].left

BoxFails ==
  /\ \E b \in Troubled, s \in Statuses :
       /\ Asked(b) /\ box[b].state = "print" /\ path[b] # None
       /\ box' = [box EXCEPT ![b] = Failed(s)]
  /\ UNCHANGED <<path, head, Host>>

SpoolEnds ==
  /\ \E b \in Troubled :
       /\ Asked(b) /\ box[b] = Printing /\ path[b] # None
       /\ box' = [box EXCEPT ![b] = Ran]
  /\ UNCHANGED <<path, head, Host>>

\* While something is extruded, the end of the filament passes the hub, and
\* later the printhead.
TailPasses ==
  /\ op = NoOp
  /\ \/ /\ \E b \in Boxes : box[b] = Ran /\ path[b] = head /\ path' = [path EXCEPT ![b] = None]
        /\ UNCHANGED head
     \/ /\ head \in Slots /\ \A b \in Boxes : path[b] # head
        /\ head' = None /\ UNCHANGED path
  /\ UNCHANGED <<box, Host>>

\* The user changes the external filament while nothing else is there.
ExternalChanges ==
  /\ op = NoOp /\ pathOwner = None
  /\ \/ head = None /\ (\A b \in Boxes : path[b] = None) /\ head' = External
     \/ head = External /\ head' = None
  /\ UNCHANGED <<box, path, Host>>

-----------------------------------------------------------------------------
(***************************************************************************)
(* Tracking and faults.                                                    *)
(***************************************************************************)
\* tracking_epoch += 1, and what the box's episode was is forgotten.
NewEpoch(ep, b) ==
  [c \in Boxes |-> IF c = b \/ ep[c] = None THEN None ELSE [ep[c] EXCEPT !.current = FALSE]]

\* _set_tracking_owner, _clear_tracking_owner: the host's view h after them.
\* Faulty variant: what was known of a runout is kept.
OwnKeepsRunout(h, s) ==
  [h EXCEPT !.owner = s, !.pathOwner = s, !.ep = NewEpoch(h.ep, BoxOf[s])]

Own(h, s) ==
  [owner |-> s, pathOwner |-> s, ep |-> NewEpoch(h.ep, BoxOf[s]), runout |-> NoRunout]

Disown(h, b) ==
  IF h.owner # None /\ BoxOf[h.owner] = b
  THEN [h EXCEPT !.owner = None, !.ep = NewEpoch(h.ep, b)] ELSE h

View == [owner |-> owner, pathOwner |-> pathOwner, ep |-> episodes, runout |-> runout]

BecomeView(h) ==
  owner' = h.owner /\ pathOwner' = h.pathOwner /\ runout' = h.runout

\* _latch_fatal_fault of the boxes in bs, once per episode.
Latch(old, bs) ==
  op' = [op EXCEPT !.abort = @ \/ (op # NoOp /\ \E b \in bs : old[b] # episodes'[b])]

-----------------------------------------------------------------------------
(***************************************************************************)
(* read_live_state.                                                        *)
(***************************************************************************)
Reply(b) == [state |-> box[b].state, status |-> box[b].status, path |-> path[b]]

StartReading == [NoRead EXCEPT !.at = "boxes", !.left = Boxes, !.seen = head # None]

Answered(got) == {b \in Boxes : got[b] # None}
PathsOf(got) == {got[b].path : b \in Answered(got)} \ {None}

\* _reconcile_tracking_owner: boxes that print without a fault propose a path.
Candidates(got) ==
  {got[b].path : b \in {c \in Answered(got) : got[c].state = "print" /\ got[c].status = "ok"}}
    \ {None}

OwnerGone(h, got) ==
  /\ h.owner # None
  /\ LET r == got[BoxOf[h.owner]] IN
     IF r = None THEN Candidates(got) # {} ELSE r.state = "idle" /\ r.status = "ok"

Reconciled(h, got) ==
  LET h1 == IF OwnerGone(h, got) THEN Disown(h, BoxOf[h.owner]) ELSE h
      c  == CHOOSE s \in Candidates(got) : TRUE
  IN IF Cardinality(Candidates(got)) # 1 \/ h1.owner # None THEN h1 ELSE Own(h1, c)

\* A path proposed beside another owner is refused.
Conflict(h, got) ==
  /\ Cardinality(Candidates(got)) = 1 /\ h.owner # None
  /\ ~OwnerGone(h, got) /\ h.owner \notin Candidates(got)

\* _observe_fault
Observed(h, b, r) ==
  IF r = None THEN h.ep[b]
  ELSE CASE r.status = "ok" -> None
         [] r.status = "runout" ->
              Episode("runout",
                IF h.owner # None /\ BoxOf[h.owner] = b THEN "runout" ELSE "advisory")
         [] OTHER ->
              Episode(r.status,
                IF r.status = "stalled" /\ h.runout.slot # None /\ BoxOf[h.runout.slot] = b
                THEN "runout"
                ELSE IF h.pathOwner # None /\ BoxOf[h.pathOwner] = b THEN "fatal" ELSE "advisory")

RunoutSeen(h, got) ==
  h.owner # None /\ got[BoxOf[h.owner]] # None /\ got[BoxOf[h.owner]].status = "runout"

\* The box whose reply the snapshot shows.
PathBox(got, loaded) == CASE loaded \in Slots -> BoxOf[loaded]
                          [] loaded \notin Slots /\ Answered(got) # {} -> Min(Answered(got))
                          [] OTHER -> None

\* What the replies of all boxes make of the host's view.
Settle(p, got) ==
  LET paths == PathsOf(got)
      seen == read[p].seen
      known == CASE paths # {} -> CHOOSE s \in paths : TRUE
                 [] paths = {} /\ ~seen -> None
                 [] OTHER -> pathOwner
      h0 == [View EXCEPT !.pathOwner = known]
      h1 == IF Conflict(h0, got) THEN h0 ELSE Reconciled(h0, got)
      h2 == IF ~Conflict(h0, got) /\ RunoutSeen(h1, got)
            THEN [h1 EXCEPT !.runout = [active |-> TRUE, slot |-> h1.owner]] ELSE h1
      loaded == CASE paths # {} -> known
                  [] paths = {} /\ seen /\ h2.pathOwner # None -> h2.pathOwner
                  [] paths = {} /\ seen /\ h2.pathOwner = None -> External
                  [] OTHER -> None
  IN /\ BecomeView(h2)
     /\ IF Conflict(h0, got)
        THEN /\ read' = [read EXCEPT ![p] = [NoRead EXCEPT !.at = "raised"]]
             /\ UNCHANGED <<episodes, op>>
        ELSE /\ read' = [read EXCEPT ![p] =
                  IF p = "poll" THEN [NoRead EXCEPT !.at = "tail"]
                  ELSE [at |-> "tail", left |-> {}, seen |-> seen, loaded |-> loaded,
                        ahead |-> FALSE,
                        got |-> [b \in Boxes |-> IF b = PathBox(got, loaded)
                                                THEN got[b] ELSE None]]]
             /\ episodes' = [b \in Boxes |-> Observed(h1, b, got[b])]
             /\ Latch(h1.ep, {b \in Boxes : episodes'[b] # None /\ episodes'[b].kind = "fatal"})

\* One box is asked; two loaded paths are an error before anything is settled.
ReadBox(p) ==
  /\ read[p].at = "boxes" /\ Exchange(p)
  /\ \E r \in {Reply(Min(read[p].left)), None} :
       LET b   == Min(read[p].left)
           got == [read[p].got EXCEPT ![b] = r]
       IN
       /\ lost' = lost + (IF r = None THEN 1 ELSE 0) /\ lost' <= MaxLost
       /\ IF Cardinality(PathsOf(got)) > 1
          THEN /\ read' = [read EXCEPT ![p] = [NoRead EXCEPT !.at = "raised"]]
               /\ UNCHANGED <<track, episodes, op>>
          ELSE IF read[p].left = {b} THEN Settle(p, got)
          ELSE /\ read' = [read EXCEPT ![p].left = @ \ {b}, ![p].got = got]
               /\ UNCHANGED <<track, episodes, op>>
  /\ UNCHANGED world

FatalEpisode(b, status) ==
  episodes[b] # None /\ episodes[b].kind = "fatal" /\ episodes[b].status = status

Tracking(r) ==
  /\ owner # None /\ PathBox(r.got, r.loaded) = BoxOf[owner] /\ r.got[BoxOf[owner]] # None
  /\ LET reply == r.got[BoxOf[owner]] IN
     reply.state = "print" /\ ~FatalEpisode(BoxOf[owner], reply.status)

Result == read["op"]

-----------------------------------------------------------------------------
(***************************************************************************)
(* The poll.                                                               *)
(***************************************************************************)
\* Faulty variant: it runs during operations as well.
PollMayAlways == TRUE
PollMay == ~Operating

PollBegins ==
  /\ PollMay /\ read["poll"].at = "no"
  /\ read' = [read EXCEPT !["poll"] = [StartReading EXCEPT !.ahead = op.name = "cut"]]
  /\ UNCHANGED <<world, track, episodes, op, turn, lost>>

PollEnds ==
  /\ read["poll"].at = "tail" /\ Exchange("poll")
  /\ read' = [read EXCEPT !["poll"] = NoRead]
  /\ UNCHANGED <<world, track, episodes, op, lost>>

PollRaises ==
  /\ read["poll"].at = "raised"
  /\ read' = [read EXCEPT !["poll"] = NoRead]
  /\ turn' = IF turn = "poll" THEN "any" ELSE turn
  /\ UNCHANGED <<world, track, episodes, op, lost>>

-----------------------------------------------------------------------------
(***************************************************************************)
(* Operations.                                                             *)
(***************************************************************************)
Ends == op' = NoOp
Fails == Ends  \* raised to the caller, whatever that makes of it
Becomes(o) == op' = o

\* check_operation_abort, then on.  The buffer retract command does not check.
Go(at) ==
  IF op.abort /\ op.name # "buffer" THEN Fails
  ELSE Becomes([op EXCEPT !.at = at])

Begin(name, at, slot) ==
  /\ op = NoOp /\ name \in Commands
  /\ op' = [NoOp EXCEPT !.name = name, !.at = at, !.slot = slot]
  /\ read' = [read EXCEPT !["op"] = StartReading]
  /\ UNCHANGED <<world, track, episodes, turn, lost>>

BeginOp ==
  \/ \E s \in Slots : Begin("load", "read", s)
  \/ \E n \in {"unload", "buffer"} : Begin(n, "read", None)
  \/ \E n \in {"cut", "check"} : Begin(n, "ahead", None)

\* Faulty variants: another slot's filament is not in the way of a load, and
\* what is loaded can always be unloaded.
MayLoadBehind(loaded) == loaded # External
Unloads(loaded) == loaded # None

MayLoad(loaded) == loaded \in {None, op.slot}
Unloadable(loaded) == loaded \in Slots

\* What each operation makes of the live state.
Decide ==
  LET loaded == Result.loaded IN
  \/ /\ op.name = "load"
     /\ CASE ~MayLoad(loaded) -> Fails
          [] loaded = op.slot /\ Result.seen ->
               LET r == Result.got[BoxOf[op.slot]] IN
               IF r # None /\ FatalEpisode(BoxOf[op.slot], r.status)
               THEN Becomes([op EXCEPT !.name = "recover", !.at = "off"])
               ELSE Becomes([op EXCEPT !.name = "track", !.at = "on"])
          [] OTHER -> Becomes([op EXCEPT !.at = "off"])
  \/ /\ op.name = "unload"
     /\ IF Unloadable(loaded) THEN Becomes([op EXCEPT !.at = "off", !.slot = loaded])
        ELSE Ends
  \/ /\ op.name = "cut"
     /\ IF Unloadable(loaded) THEN Becomes([op EXCEPT !.at = "off", !.slot = loaded])
        ELSE Fails
  \/ /\ op.name = "buffer"
     /\ LET any == CHOOSE s \in Slots : BoxOf[s] = Min(Boxes) IN
        Becomes([op EXCEPT !.at = "off", !.slot = IF loaded \in Slots THEN loaded ELSE any])

\* runout_recovery adopts what the owner's box reports.
CheckEnds ==
  /\ Ends
  /\ LET b == PathBox(Result.got, Result.loaded) IN
     IF b # None /\ owner # None /\ BoxOf[owner] = b /\ Result.got[b] # None
        /\ Result.got[b].status = "runout"
     THEN runout' = [active |-> TRUE, slot |-> owner]
     ELSE UNCHANGED runout

FirstRead ==
  /\ op.at \in {"read", "ahead"}
  /\ \/ /\ Result.at = "tail" /\ Exchange("op")
        /\ IF op.name = "check" THEN CheckEnds
           ELSE /\ UNCHANGED runout
                /\ IF op.abort /\ op.name # "buffer" THEN Fails ELSE Decide
     \/ Result.at \in {"tail", "raised"} /\ Fails /\ UNCHANGED <<turn, runout>>
  /\ read' = [read EXCEPT !["op"] = NoRead]
  /\ UNCHANGED <<world, owner, pathOwner, episodes, lost>>

\* An exchange of the operation, with the box of its slot.
OpExchange(at) == op.at = at /\ Exchange("op") /\ UNCHANGED <<read, lost>>

B == BoxOf[op.slot]

Untouched == UNCHANGED <<track, episodes>>

\* The exchange fails, having had its effect or not; a command fault is latched.
Refused ==
  /\ Fails
  /\ \/ Untouched
     \/ /\ episodes' = [episodes EXCEPT ![B] = Episode("fatal", "fatal")]
        /\ UNCHANGED track

\* set_tracking(None) stops the box, and with it what it complains of.
TrackingOff ==
  /\ OpExchange("off")
  /\ \/ /\ box' = [box EXCEPT ![B] = Idle]
        /\ LET h == Disown(View, B) IN BecomeView(h) /\ episodes' = h.ep
        /\ CASE op.name = "load" -> Go("stage0")
             [] op.name = "recover" -> Go("stage6")
             [] op.name = "unload" /\ op.retried -> Go("path")
             [] OTHER -> Go("retract")
     \/ box' \in {box, [box EXCEPT ![B] = Idle]} /\ Refused
  /\ UNCHANGED <<path, head>>

\* Stage 0 brings the filament into the hub, stage 5 to the printhead.
LoadStage0 ==
  /\ OpExchange("stage0")
  /\ \/ path' = [path EXCEPT ![B] = op.slot] /\ Untouched /\ Go("stage4")
     \/ path' \in {path, [path EXCEPT ![B] = op.slot]} /\ Refused
  /\ UNCHANGED <<box, head>>

\* Stage 4 may stay unanswered.
LoadStage4 ==
  /\ OpExchange("stage4")
  /\ \/ Untouched /\ Go("stage5")
     \/ Untouched /\ Fails
  /\ UNCHANGED world

\* Each turn of the loop begins with a look at the sensor; a stall is retried
\* once, after the toolhead has moved.
LoadStage5 ==
  /\ OpExchange("stage5")
  /\ head' \in {head, IF head = None THEN op.slot ELSE head}
  /\ \/ Untouched /\ Go(IF head' # None THEN "stage6" ELSE "stage5")
     \/ /\ ~op.retried /\ Untouched
        /\ IF op.abort THEN Fails
           ELSE Becomes([op EXCEPT !.at = IF head' # None THEN "stage6" ELSE "stage4",
                                 !.retried = TRUE])
     \/ Refused
  /\ UNCHANGED <<box, path>>

\* The deadline passed: stop, and fail in any case.
LoadTimeout ==
  /\ op.at = "stage5" /\ turn # "poll"
  /\ op' = [op EXCEPT !.at = "stop"]
  /\ UNCHANGED <<world, track, episodes, read, turn, lost>>

LoadStops ==
  /\ OpExchange("stop") /\ Refused /\ UNCHANGED world

LoadStage6 ==
  /\ OpExchange("stage6")
  /\ \/ Untouched /\ Go(IF op.name = "load" THEN "stage7" ELSE "on")
     \/ Refused
  /\ UNCHANGED world

\* Stage 7 may stay unanswered or reach nothing.
LoadStage7 ==
  /\ OpExchange("stage7")
  /\ \/ Untouched /\ Go("on")
     \/ Untouched /\ Fails
  /\ UNCHANGED world

\* activate_tracking; a slot that is loaded already needs no more.
TrackingOn ==
  /\ OpExchange("on")
  /\ \/ /\ box' = [box EXCEPT ![B] = Printing]
        /\ LET h == Own(View, op.slot) IN BecomeView(h) /\ episodes' = h.ep
        /\ IF op.name = "track" THEN Ends
           ELSE Becomes([op EXCEPT !.at = "wait"])
     \/ box' \in {box, [box EXCEPT ![B] = Printing]} /\ Refused
  /\ UNCHANGED <<path, head>>

\* The buffer and the extruder pull the filament back, several times; it may
\* leave the printhead.  A clog of the buffer is a command fault.
Retracts ==
  /\ OpExchange("retract")
  /\ head' \in {head, IF head = op.slot THEN None ELSE head}
  /\ \/ /\ Untouched
        /\ CASE op.name = "unload" -> Go("retract") \/ Go("path")
             [] op.name = "cut" -> Go("retract") \/ (IF op.abort THEN Fails ELSE Ends)
             [] OTHER -> Ends
     \/ Refused
  /\ UNCHANGED <<box, path>>

\* The extruder need not retract: it is cold, or a cut has been made.
RetractSkipped ==
  /\ op.name = "unload" /\ op.at = "retract" /\ turn # "poll"
  /\ op' = [op EXCEPT !.at = "path"]
  /\ UNCHANGED <<world, track, episodes, read, turn, lost>>

\* The box pulls the filament back to its slot; a blocked motor is retried once.
UnloadPath ==
  /\ OpExchange("path")
  /\ \/ /\ path' = [path EXCEPT ![B] = None]
        /\ head' \in {head, IF head = op.slot THEN None ELSE head}
        /\ \/ Untouched /\ Go("wait")
           \/ Untouched /\ Fails
     \/ /\ UNCHANGED <<path, head>>
        /\ \/ Refused
           \/ /\ ~op.retried /\ Untouched
              /\ IF op.abort THEN Fails
                 ELSE Becomes([op EXCEPT !.at = "off", !.retried = TRUE])
  /\ UNCHANGED box

\* _wait_for_state reads until what it wants, a fault or its deadline.
WaitReads ==
  /\ op.at = "wait" /\ Result.at = "no"
  /\ read' = [read EXCEPT !["op"] = StartReading]
  /\ UNCHANGED <<world, track, episodes, op, turn, lost>>

\* Faulty variant: what the box reported is enough.
VerifiedByReply == op.name = "unload" \/ Result.loaded = op.slot

Verified ==
  IF op.name = "unload"
  THEN Result.loaded = None /\ ~Result.seen
  ELSE /\ Result.loaded = op.slot /\ Result.seen /\ Tracking(Result)
       /\ op.name = "recover" => Result.got[B].status = "ok"

InFatal ==
  LET b == PathBox(Result.got, Result.loaded) IN b # None /\ episodes[b] # None /\ episodes[b].kind = "fatal"

\* A load ends the runout but keeps its key; an unload forgets path and runout.
Succeeds ==
  /\ Ends
  /\ CASE op.name = "load" ->
            runout' = [runout EXCEPT !.active = FALSE] /\ UNCHANGED pathOwner
       [] op.name = "unload" -> runout' = NoRunout /\ pathOwner' = None
       [] OTHER -> UNCHANGED <<runout, pathOwner>>

WaitEnds ==
  /\ op.at = "wait"
  /\ \/ /\ Result.at = "tail" /\ Exchange("op")
        /\ IF op.abort \/ InFatal THEN Fails /\ UNCHANGED <<runout, pathOwner>>
           ELSE \/ Verified /\ Succeeds
                \/ ~Verified /\ UNCHANGED <<op, runout, pathOwner>>
                \/ ~Verified /\ Fails /\ UNCHANGED <<runout, pathOwner>>
     \/ Result.at \in {"tail", "raised"} /\ Fails /\ UNCHANGED <<turn, runout, pathOwner>>
  /\ read' = [read EXCEPT !["op"] = NoRead]
  /\ UNCHANGED <<world, owner, episodes, lost>>

\* A pause is requested, by the user, a fault or a clog; the macro runs when the
\* operation has ended, and before the next.
PauseSent ==
  /\ op # NoOp /\ op' = [op EXCEPT !.abort = TRUE]
  /\ UNCHANGED <<world, track, episodes, read, turn, lost>>

\* note_external_source, when a change takes the external spool.
NoteExternal ==
  /\ op = NoOp /\ head = External
  /\ LET h == IF owner = None THEN [View EXCEPT !.ep = [b \in Boxes |-> None]]
              ELSE Disown(View, BoxOf[owner]) IN
     BecomeView([h EXCEPT !.runout = NoRunout, !.pathOwner = None]) /\ episodes' = h.ep
  /\ UNCHANGED <<world, read, op, turn, lost>>

-----------------------------------------------------------------------------
World == BoxFails \/ SpoolEnds \/ TailPasses \/ ExternalChanges

Poll == PollBegins \/ ReadBox("poll") \/ PollEnds \/ PollRaises

\* Each ends an exchange that moves filament or tracking.
Moves ==
  \/ TrackingOff \/ TrackingOn
  \/ LoadStage0 \/ LoadStage4 \/ LoadStage5 \/ LoadStops \/ LoadStage6 \/ LoadStage7
  \/ Retracts \/ UnloadPath

Operation ==
  \/ ReadBox("op") \/ FirstRead \/ Moves \/ LoadTimeout \/ RetractSkipped
  \/ WaitReads \/ WaitEnds

Next ==
  \/ World \/ Poll \/ Operation \/ BeginOp
  \/ PauseSent \/ NoteExternal

Spec == Init /\ [][Next]_vars

-----------------------------------------------------------------------------
(***************************************************************************)
(* Properties.                                                             *)
(***************************************************************************)
\* Types, and an operation that is under way has its slot.
TypeOK ==
  /\ box \in [Boxes -> [state : {"idle", "print", "error"},
                        status : {"ok", "runout"} \cup Statuses]]
  /\ path \in [Boxes -> Slots \cup {None}]
  /\ {head, pathOwner, owner} \subseteq Slots \cup {External, None}
  /\ turn \in {"any", "poll"}
  /\ op.name = "none" <=> op.at = "idle"
  /\ op.at \notin {"idle", "read", "ahead"} => op.slot \in Slots
  /\ read["op"].at # "no" => op # NoOp

\* What was read last verifies the operation.
Accepted(name) ==
  op.name = name /\ op.at = "wait" /\ Result.at = "tail" /\ Verified /\ ~op.abort /\ ~InFatal

\* What is taken as verified has happened, whatever the exchanges' effects were:
\* a loaded filament, and no other, is in the hub and at the printhead and its
\* box tracks it; an unloaded one has left hub and printhead and is not tracked.
\* The reply of the last stage, or the sensor, alone would not show it
\* (physical_load, 2670-2677, physical_unload, 2794-2812).
OperationsDeliver ==
  /\ Accepted("load") => head = op.slot /\ path[B] = op.slot /\ owner = op.slot
  /\ Accepted("unload") => head \notin Slots /\ path[B] = None /\ owner # op.slot

\* Filament of two boxes is never in the shared path: a load refuses what else
\* is loaded (2541-2548).  It holds as long as every box answers; a box that
\* missed its status query counts as empty.
PathExclusive == lost = 0 => Cardinality({b \in Boxes : path[b] # None}) <= 1

\* A runout in progress is that of the path that is tracked; when another path
\* is adopted the runout of the former is forgotten (2117-2128).
RunoutOfPath == runout.active => owner \in {runout.slot, None}

\* The reading was begun under the operation's exclusion of the poll.
Whole(p) == ~read[p].ahead

\* A fault that a reading latches, in an episode of the current epoch, is there:
\* the poll and an operation that silences the box cannot cross, but for the cut,
\* which reads first and excludes the poll afterwards (2254-2262, 2378-2380).
FaultTrue ==
  [][\A b \in Boxes :
       /\ episodes'[b] # episodes[b] /\ episodes'[b] # None
       /\ episodes'[b].kind = "fatal" /\ episodes'[b].current
       /\ \E p \in {"poll", "op"} : ReadBox(p) /\ Whole(p)
       => box[b].state = "error"]_vars
=============================================================================
