------------------------------- MODULE BoxRfid -------------------------------
(***************************************************************************)
(* What the printer believes about the spools of one CFS box (files/box.py):*)
(* presence and slot events, the reading of RFID tags and of what remains  *)
(* on a spool, the profile a slot is given, and the requests to Spoolman   *)
(* that are answered from another thread.                                  *)
(*                                                                         *)
(* A step of the poll, of a load or of the start is one exchange with the  *)
(* box, at the moment of its reply, with all the code does before its next *)
(* one.  In which order the exchanges of two greenlets are served is left  *)
(* open.  Slots that each need an exchange are served in any order.        *)
(*                                                                         *)
(* Of a record only the spool it was read from is kept, of a profile also  *)
(* who gave it, of a Spoolman token whether it is still the slot's.  The   *)
(* path of the filament is modelled in BoxPath; a load here always gets    *)
(* as far as its deferred reading.                                         *)
(***************************************************************************)
EXTENDS Naturals, FiniteSets

CONSTANTS Slots,       \* the slots of the box
          External,    \* the external spool's profile key
          Spools,      \* the spools, each with a tag of its own
          WithId,      \* those whose tag names a Spoolman spool
          Known,       \* those whose material code the catalogue resolves
          None,        \* no spool, no record
          MaxFuss      \* bound: spools moved, exchanges unanswered and commands of the
                       \* user, taken together

ASSUME SpoolsAssumption ==
  /\ External \notin Slots /\ None \notin Spools \cup {"start"}
  /\ Spools \cap {"none", "busy", "unread"} = {}
  /\ WithId \subseteq Spools /\ Known \subseteq Spools /\ MaxFuss \in Nat

VARIABLES inside,         \* the spool in a slot
          cache,          \* what the box answers to a query of the slot's record
          event,          \* the slot event the box has not reported
          reading,        \* the slots whose reader is at work
          insertReading,  \* rfid_insert_reading_enabled
          slot,           \* what Box knows of a slot, see Unknown
          mapped,         \* rfid_mappings: spools whose code the user mapped
          proc,           \* what each greenlet is at
          since,          \* history: the spools that were in a slot since Box last
                          \* took note of a change there
          fuss            \* how much of the bound is used

world  == <<inside, cache, event, reading>>
known  == <<insertReading, slot, mapped>>
vars  == <<world, known, proc, since, fuss>>

Keys     == Slots \cup {External}
Greens   == {"poll", "op"}
Answers  == Spools \cup {"none", "busy", "unread"}
Events   == {"no", "inserted", "removed", "read"}
Tasks    == {"no", "snapshot", "read", "remaining"}
NoTasks  == [s \in Slots |-> "no"]
NoEvents == [s \in Slots |-> "no"]
NoProfile == [by |-> "nobody", spool |-> None]

\* present: rfid_presence, None before its baseline; pending, snap, seen: rfid_pending, rfid_snapshot and
\* rfid_seen_invalid; live, percent: rfid_live_slots and the spool rfid_percent is
\* of; unknown: unknown_rfid; asked: the Spoolman requests without an answer.
Unknown == [present |-> None, pending |-> FALSE, snap |-> None, seen |-> FALSE,
            live |-> FALSE, percent |-> None, profile |-> NoProfile, unknown |-> None,
            asked |-> {}]

At(place) == [at |-> place, then |-> "idle", todo |-> NoTasks, events |-> NoEvents,
              load |-> None, mask |-> {}]

InSlots(where) == {s \in Slots : where[s] # None}
InSlot(s) == {inside[s]} \ {None}

Init ==
  /\ inside \in [Slots -> Spools \cup {None}]
  /\ \A s, t \in InSlots(inside) : inside[s] = inside[t] => s = t
  /\ cache \in [Slots -> Answers \ {"busy"}]
  /\ \A s \in Slots : cache[s] \in Spools => cache[s] = inside[s]
  /\ event = NoEvents /\ reading = {}
  /\ insertReading \in BOOLEAN
  /\ slot = [k \in Keys |-> Unknown] /\ mapped = {}
  /\ proc = [p \in Greens |-> IF p = "op" THEN [At("baseline") EXCEPT !.load = "start"] ELSE At("idle")]
  /\ since = [s \in Slots |-> InSlot(s)]
  /\ fuss = 0

\* Between two exchanges a greenlet is not interrupted.
Running == \E p \in Greens : proc[p].at \in {"watch", "events", "loading"}
Awaits(p, places) == ~Running /\ proc[p].at \in places

-----------------------------------------------------------------------------
(***************************************************************************)
(* The spools and the box.                                                 *)
(***************************************************************************)
Host == <<known, proc>>
More == ~Running /\ fuss < MaxFuss /\ fuss' = fuss + 1

\* The record of the spool before stays in the box until the tag is read.
SpoolInserted ==
  /\ More
  /\ \E s \in Slots, x \in Spools :
       /\ inside[s] = None /\ x \notin {inside[t] : t \in Slots}
       /\ inside' = [inside EXCEPT ![s] = x]
       /\ event' = [event EXCEPT ![s] = "inserted"]
       /\ reading' = IF insertReading THEN reading \cup {s} ELSE reading
       /\ since' = [since EXCEPT ![s] = @ \cup {x}]
  /\ UNCHANGED <<cache, Host>>

SpoolRemoved ==
  /\ More
  /\ \E s \in Slots :
       /\ inside[s] # None
       /\ inside' = [inside EXCEPT ![s] = None]
       /\ event' = [event EXCEPT ![s] = "removed"]
       /\ reading' = reading \ {s}
       /\ \E c \in {cache[s], "none"} \ {"busy"} : cache' = [cache EXCEPT ![s] = c]
  /\ UNCHANGED <<since, Host>>

ReaderBusy ==
  /\ ~Running
  /\ \E s \in reading : cache[s] # "busy" /\ cache' = [cache EXCEPT ![s] = "busy"]
  /\ UNCHANGED <<inside, event, reading, since, fuss, Host>>

ReaderDone ==
  /\ ~Running
  /\ \E s \in reading : \E c \in {inside[s], "unread"} :
       /\ cache' = [cache EXCEPT ![s] = c]
       /\ event' = [event EXCEPT ![s] = "read"]
       /\ reading' = reading \ {s}
  /\ UNCHANGED <<inside, since, fuss, Host>>

-----------------------------------------------------------------------------
(***************************************************************************)
(* What Box does with a slot: its record r after each helper.              *)
(***************************************************************************)
Resolved(x) == x \in Known \cup mapped

\* _invalidate_spoolman: the slot's token moves on.
Invalidated(r) == [r EXCEPT !.asked = {[q EXCEPT !.current = FALSE] : q \in r.asked}]

\* _clear_rfid_watch
Unwatched(r) == [r EXCEPT !.pending = FALSE, !.snap = None, !.seen = FALSE]

Inserted(r) ==
  [Invalidated(r) EXCEPT !.live = FALSE, !.percent = None, !.snap = None, !.seen = FALSE,
                         !.pending = @ \/ insertReading]

\* Faulty variant: what remained on the spool is kept.
RemovedKeepsPercent(r) == [Unwatched(Invalidated(r)) EXCEPT !.live = FALSE]

Removed(r) == [Unwatched(Invalidated(r)) EXCEPT !.live = FALSE, !.percent = None]

\* _apply_rfid_profile; without a code that resolves it does nothing.
Profiled(r, x, by) ==
  IF Resolved(x) THEN [r EXCEPT !.unknown = None, !.profile = [by |-> by, spool |-> x]] ELSE r

NotedUnknown(r, x) == IF Resolved(x) THEN r ELSE [r EXCEPT !.unknown = x]

\* _apply_rfid_record
Applied(r, x) ==
  IF x \in WithId
  THEN [Invalidated(r) EXCEPT !.asked = @ \cup {[spool |-> x, current |-> TRUE]}]
  ELSE NotedUnknown(Profiled(Invalidated(r), x, "tag"), x)

\* _rfid_should_apply
ShouldApply(r, c) == c \in Spools /\ (r.seen \/ (r.snap # None /\ c # r.snap))

-----------------------------------------------------------------------------
(***************************************************************************)
(* Greenlets.                                                              *)
(***************************************************************************)
Forced == IF proc["op"].at \in {"force", "records"} THEN proc["op"].mask ELSE {}

\* operation_depth; the poll's timer is set when all boxes are initialized.
Operating == proc["op"].load # None

Goes(p, q) == proc' = [proc EXCEPT ![p] = q]
GoesTo(p, place) == Goes(p, [proc[p] EXCEPT !.at = place])
GoesOn(p, place) == Goes(p, [proc[p] EXCEPT !.at = place, !.mask = {},
                             !.events = IF place = "events" THEN @ ELSE NoEvents])

\* The slots of todo need an exchange each before the greenlet goes on.
Works(p, q, todo, then) ==
  Goes(p, [q EXCEPT !.at = IF todo = NoTasks THEN then ELSE "work", !.todo = todo,
                    !.then = IF todo = NoTasks THEN "idle" ELSE then,
                    !.events = IF q.at = "told" THEN @ ELSE NoEvents])

\* Box takes note of a change in the slots of S.  One that is being forced to read
\* is taken as it was.
Notes(S) == since' = [s \in Slots |-> IF s \in S \ Forced THEN InSlot(s) ELSE since[s]]

\* The slots of ins and rem are found inserted and removed; before it goes on,
\* the greenlet reads the records that todo names and those of the inserted slots.
Finds(p, ins, rem, now, todo, then) ==
  /\ slot' = [k \in Keys |-> LET r == [slot[k] EXCEPT !.present = IF k \in Slots THEN now[k] ELSE @]
                             IN  IF k \in ins THEN Inserted(r) ELSE IF k \in rem THEN Removed(r) ELSE r]
  /\ Notes(ins \cup rem)
  /\ Works(p, proc[p], [s \in Slots |-> IF s \in ins /\ insertReading THEN "snapshot" ELSE todo[s]], then)

Believed == [s \in Slots |-> slot[s].present]
Seen     == [s \in Slots |-> inside[s] # None]
Appeared == {s \in Slots : Seen[s] /\ Believed[s] = FALSE}
Vanished == {s \in Slots : ~Seen[s] /\ Believed[s] = TRUE}

PollBegins ==
  /\ Awaits("poll", {"idle"}) /\ ~Operating
  /\ \E place \in {"presence", "watch"} : GoesTo("poll", place)
  /\ UNCHANGED <<world, known, since, fuss>>

\* A load reads the live state first.
LoadBegins ==
  /\ Awaits("op", {"idle"})
  /\ \E s \in Slots : Goes("op", [At("watch") EXCEPT !.load = s])
  /\ UNCHANGED <<world, known, since, fuss>>

\* _query_presence, before the state is read or after it told of events.
Presence(p) ==
  /\ Awaits(p, {"presence"})
  /\ Finds(p, Appeared, Vanished, Seen, NoTasks, "watch")
  /\ UNCHANGED <<world, insertReading, mapped, fuss>>

\* _watch_pending_rfid: the slots that are pending as it asks.
Watch(p) ==
  /\ proc[p].at = "watch"
  /\ LET pending == {s \in Slots : slot[s].pending}
     IN  Goes(p, [proc[p] EXCEPT !.at = IF pending = {} THEN "state" ELSE "watching", !.mask = pending])
  /\ UNCHANGED <<world, known, since, fuss>>

Watched(p) ==
  /\ Awaits(p, {"watching"})
  /\ slot' = [k \in Keys |->
                IF k \in proc[p].mask /\ cache[k] \notin Spools
                THEN [slot[k] EXCEPT !.seen = TRUE] ELSE slot[k]]
  /\ Goes(p, [proc[p] EXCEPT !.at = "state", !.mask = {}])
  /\ UNCHANGED <<world, insertReading, mapped, since, fuss>>

Finished(p) == IF p = "op" THEN "ready" ELSE "refresh"

\* query_box_state: the box reports its events once, or its state; unless it still
\* preloads, the pending slots are read.
State(p) ==
  /\ Awaits(p, {"state"})
  /\ \/ /\ event # NoEvents
        /\ Goes(p, [proc[p] EXCEPT !.at = "told", !.events = event])
        /\ event' = NoEvents
     \/ /\ event = NoEvents /\ UNCHANGED event
        /\ \E preload \in BOOLEAN :
             Works(p, proc[p],
                   [s \in Slots |-> IF slot[s].pending /\ ~preload THEN "read" ELSE "no"], Finished(p))
  /\ UNCHANGED <<inside, cache, reading, known, since, fuss>>

\* The presence is read again.  What it shows comes first and is then acted on
\* again for each event.
Told(p) ==
  /\ Awaits(p, {"told"})
  /\ Finds(p, Appeared, Vanished, Seen, NoTasks, "events")
  /\ UNCHANGED <<world, insertReading, mapped, fuss>>

\* _handle_slot_events
SlotEvents(p) ==
  LET e == proc[p].events
      Of(kind) == {s \in Slots : e[s] = kind}
      read == [s \in Slots |-> IF e[s] = "read" /\ insertReading THEN "read" ELSE "no"]
  IN  /\ proc[p].at = "events"
      /\ Finds(p, Of("inserted"), Of("removed"), Believed, read, "watch")
      /\ UNCHANGED <<world, insertReading, mapped, fuss>>

-----------------------------------------------------------------------------
(***************************************************************************)
(* The exchanges for a slot.                                               *)
(***************************************************************************)
\* Slot s is served; further is what it needs next.
Serves(p, s, further) ==
  Works(p, proc[p], [proc[p].todo EXCEPT ![s] = further], proc[p].then)

Becomes(s, r) == slot' = [slot EXCEPT ![s] = r]

\* _snapshot_rfid_cache.  rfid_snapshot also keeps records that are not ready.
Snapshot(p, s) ==
  /\ ~Running /\ proc[p].todo[s] = "snapshot"
  /\ Becomes(s, [slot[s] EXCEPT !.snap = cache[s], !.seen = @ \/ cache[s] \notin Spools])
  /\ Serves(p, s, "no")
  /\ UNCHANGED <<world, insertReading, mapped, since, fuss>>

\* _read_rfid_result
ReadResult(p, s) ==
  LET r == slot[s]
      c == cache[s]
      read == ShouldApply(r, c)
  IN  /\ ~Running /\ proc[p].todo[s] = "read"
      /\ \/ c = "busy"   /\ Becomes(s, [r EXCEPT !.seen = TRUE])
         \/ c = "none"   /\ Becomes(s, Removed(r))
         \/ c = "unread" /\ Becomes(s, [r EXCEPT !.seen = TRUE, !.live = FALSE, !.percent = None])
         \/ c \in Spools /\ ~read /\ UNCHANGED slot
         \/ c \in Spools /\ read /\ Becomes(s, [Applied(Unwatched(r), c) EXCEPT !.live = TRUE])
      /\ Notes(IF c = "none" THEN {s} ELSE {})
      /\ Serves(p, s, IF read THEN "remaining" ELSE "no")
      /\ UNCHANGED <<world, insertReading, mapped, fuss>>

\* _read_rfid_remaining and _refresh_rfid_remaining: the box answers for the record
\* it holds, and the answer counts only while the slot is live.  Faulty variant:
\* whatever it answers counts.
RemainsAny(r, s) == IF r.live THEN [r EXCEPT !.percent = cache[s]] ELSE r
Remains(r, s) ==
  IF r.live /\ cache[s] \in Spools THEN [r EXCEPT !.percent = cache[s]] ELSE r

Remaining(p, s) ==
  /\ ~Running /\ proc[p].todo[s] = "remaining"
  /\ Becomes(s, Remains(slot[s], s))
  /\ Serves(p, s, "no")
  /\ UNCHANGED <<world, insertReading, mapped, since, fuss>>

Refresh ==
  /\ Awaits("poll", {"refresh"}) /\ ~Operating
  /\ slot' = [k \in Keys |-> IF k \in Slots THEN Remains(slot[k], k) ELSE slot[k]]
  /\ Goes("poll", At("idle"))
  /\ UNCHANGED <<world, insertReading, mapped, since, fuss>>

\* It is not its time, nothing is live, or an operation began.
PollEnds ==
  /\ Awaits("poll", {"refresh"})
  /\ Goes("poll", At("idle"))
  /\ UNCHANGED <<world, known, since, fuss>>

\* An exchange without an answer: the greenlet goes on without it, or what it
\* read for the box is given up.
Unanswered(p) ==
  /\ More
  /\ \/ /\ proc[p].at \in {"presence", "watching", "told"} /\ UNCHANGED event
        /\ \/ GoesOn(p, [presence |-> "watch", watching |-> "state", told |-> "events"][proc[p].at])
           \/ proc[p].at # "watching" /\ GoesOn(p, Finished(p))
     \/ /\ proc[p].at = "state" /\ GoesOn(p, Finished(p))
        /\ event' \in {event, NoEvents}
     \/ /\ proc[p].at = "work" /\ UNCHANGED event
        /\ \E s \in Slots : proc[p].todo[s] # "no" /\ Serves(p, s, "no")
     \/ /\ proc[p].at \in {"baseline", "cached", "ready"} /\ UNCHANGED event
        /\ Goes(p, At("idle"))
     \/ /\ proc[p].at \in {"sample", "force", "records"} /\ UNCHANGED event
        /\ GoesOn(p, "loading")
  /\ UNCHANGED <<inside, cache, reading, known, since>>

-----------------------------------------------------------------------------
(***************************************************************************)
(* Forced readings: at the start, and at the load of a slot that is still   *)
(* pending.                                                                *)
(***************************************************************************)
\* _initialize_rfid: what is present now is no insertion.
Baseline ==
  /\ Awaits("op", {"baseline"})
  /\ slot' = [k \in Keys |-> IF k \in Slots THEN [slot[k] EXCEPT !.present = Seen[k]] ELSE slot[k]]
  /\ Notes(Slots)
  /\ \/ GoesTo("op", "cached") /\ InSlots(inside) # {}  \* rfid_startup_reading_enabled
     \/ Goes("op", At("idle"))
  /\ UNCHANGED <<world, insertReading, mapped, fuss>>

StartCached ==
  LET unread == {s \in Slots : slot[s].present /\ cache[s] \in {"none", "unread"}}
  IN  /\ Awaits("op", {"cached"})
      /\ Goes("op", IF unread = {} THEN At("idle") ELSE [proc["op"] EXCEPT !.at = "force", !.mask = unread])
      /\ UNCHANGED <<world, known, since, fuss>>

\* physical_load, its live state read: only an idle box with an empty path and the
\* spool still there is made to read.
LoadReady ==
  LET s == proc["op"].load
  IN  /\ Awaits("op", {"ready"})
      /\ \E idle \in BOOLEAN :
           Finds("op", Appeared, Vanished, Seen, NoTasks,
                 IF idle /\ slot'[s].pending /\ Seen[s] THEN "sample" ELSE "loading")
      /\ UNCHANGED <<world, insertReading, mapped, fuss>>

LoadSample ==
  LET s == proc["op"].load
  IN  /\ Awaits("op", {"sample"})
      /\ Goes("op", IF cache[s] = "busy" THEN [proc["op"] EXCEPT !.at = "loading"]
                    ELSE [proc["op"] EXCEPT !.at = "force", !.mask = {s}])
      /\ UNCHANGED <<world, known, since, fuss>>

ForceRead ==
  LET mask == proc["op"].mask
  IN  /\ Awaits("op", {"force"})
      /\ \E c \in [Slots -> Answers] :
           /\ \A s \in Slots : IF s \in mask THEN c[s] \in InSlot(s) \cup {"none", "unread"} ELSE c[s] = cache[s]
           /\ cache' = c
      /\ reading' = reading \ mask
      /\ GoesTo("op", "records")
      /\ UNCHANGED <<inside, event, known, since, fuss>>

\* _force_rfid_results takes what the box read without comparing it.
Records ==
  LET got == {s \in proc["op"].mask : cache[s] \in Spools}
  IN  /\ Awaits("op", {"records"})
      /\ slot' = [k \in Keys |->
                    IF k \in got THEN [Unwatched(Applied(slot[k], cache[k])) EXCEPT !.live = TRUE]
                    ELSE slot[k]]
      /\ Works("op", [proc["op"] EXCEPT !.mask = {}],
               [s \in Slots |-> IF s \in got THEN "remaining" ELSE "no"], "loading")
      /\ UNCHANGED <<world, insertReading, mapped, since, fuss>>

\* The load goes on, without metadata if there is none; so does the start.
Loading ==
  /\ proc["op"].at = "loading"
  /\ slot' = [k \in Keys |-> IF k = proc["op"].load THEN Unwatched(slot[k]) ELSE slot[k]]
  /\ Goes("op", At("idle"))
  /\ UNCHANGED <<world, insertReading, mapped, since, fuss>>

-----------------------------------------------------------------------------
(***************************************************************************)
(* Spoolman, the user and the external reader.                             *)
(***************************************************************************)
Quiet == <<world, proc, since>>

\* complete, on the reactor's thread.  Faulty variant: the token is not compared.
AcceptsAny(q) == TRUE
Accepts(q) == q.current

SpoolmanAnswers ==
  /\ ~Running
  /\ \E k \in Keys : \E q \in slot[k].asked :
       LET r == [slot[k] EXCEPT !.asked = @ \ {q}]
       IN  \/ ~Accepts(q) /\ Becomes(k, r)
           \/ /\ Accepts(q)
              /\ \/ Becomes(k, [r EXCEPT !.unknown = None,
                                         !.profile = [by |-> "spoolman", spool |-> q.spool]])
                 \/ Becomes(k, NotedUnknown(Profiled(r, q.spool, "tag"), q.spool))
  /\ UNCHANGED <<insertReading, mapped, Quiet, fuss>>

\* cmd_slot_set and cmd_slot_clear leave requests and unknown tags as they are.
SlotSet ==
  /\ More
  /\ \E k \in Keys, who \in {"user", "nobody"} :
       Becomes(k, [slot[k] EXCEPT !.profile = [by |-> who, spool |-> None]])
  /\ UNCHANGED <<insertReading, mapped, Quiet>>

\* cmd_rfid_insert
RfidInsert ==
  /\ More
  /\ insertReading' = ~insertReading
  /\ slot' = [k \in Keys |-> IF insertReading THEN Unwatched(slot[k]) ELSE slot[k]]
  /\ UNCHANGED <<mapped, Quiet>>

\* cmd_rfid_map_set and _apply_new_mapping, cmd_rfid_map_delete
MapSet ==
  /\ More
  /\ \E x \in Spools :
       /\ mapped' = mapped \cup {x}
       /\ slot' = [k \in Keys |->
                     IF slot[k].unknown # x THEN slot[k]
                     ELSE [Invalidated(slot[k]) EXCEPT
                             !.unknown = None, !.profile = [by |-> "mapping", spool |-> x]]]
  /\ UNCHANGED <<insertReading, Quiet>>

MapDelete ==
  /\ More
  /\ \E x \in mapped : mapped' = mapped \ {x}
  /\ UNCHANGED <<insertReading, slot, Quiet>>

\* _external_rfid_record: the external spool comes and goes unnoticed.
ExternalRead ==
  /\ More
  /\ \E x \in Spools : Becomes(External, Applied(slot[External], x))
  /\ UNCHANGED <<insertReading, mapped, Quiet>>

\* _disconnect: no request of the session is accepted any more.
Disconnect ==
  /\ ~Running
  /\ slot' = [k \in Keys |-> Invalidated(slot[k])]
  /\ UNCHANGED <<insertReading, mapped, Quiet, fuss>>

Exchange(p) ==
  \/ Presence(p) \/ Watched(p) \/ State(p) \/ Told(p) \/ Unanswered(p)
  \/ \E s \in Slots : Snapshot(p, s) \/ ReadResult(p, s) \/ Remaining(p, s)

Next ==
  \/ SpoolInserted \/ SpoolRemoved \/ ReaderBusy \/ ReaderDone
  \/ PollBegins \/ LoadBegins \/ Refresh \/ PollEnds \/ Loading
  \/ \E p \in Greens : Exchange(p) \/ Watch(p) \/ SlotEvents(p)
  \/ Baseline \/ StartCached \/ LoadReady \/ LoadSample \/ ForceRead \/ Records
  \/ SpoolmanAnswers \/ SlotSet \/ RfidInsert \/ MapSet \/ MapDelete \/ ExternalRead \/ Disconnect

Spec == Init /\ [][Next]_vars

-----------------------------------------------------------------------------
(***************************************************************************)
(* Properties.                                                             *)
(***************************************************************************)
\* Each variable keeps its type: a slot's record names a spool or nobody, never the
\* box's code for an unknown tag (_read_rfid_remaining, decode_rfid_records), and no
\* greenlet is without a place in its exchanges.
TypeOK ==
  /\ inside \in [Slots -> Spools \cup {None}] /\ cache \in [Slots -> Answers]
  /\ event \in [Slots -> Events] /\ reading \subseteq Slots
  /\ insertReading \in BOOLEAN /\ mapped \subseteq Spools
  /\ slot \in [Keys -> [present : {TRUE, FALSE, None}, pending : BOOLEAN,
                        snap : Answers \cup {None}, seen : BOOLEAN, live : BOOLEAN,
                        percent : Spools \cup {None}, unknown : Spools \cup {None},
                        profile : [by : {"nobody", "user", "tag", "spoolman", "mapping"},
                                   spool : Spools \cup {None}],
                        asked : SUBSET [spool : Spools, current : BOOLEAN]]]
  /\ \A p \in Greens :
       /\ proc[p].at \in {"idle", "presence", "watch", "watching", "state", "told", "events", "work",
                          "refresh", "baseline", "cached", "ready", "sample", "force", "records", "loading"}
       /\ proc[p].todo \in [Slots -> Tasks] /\ proc[p].events \in [Slots -> Events]
       /\ proc[p].load \in Slots \cup {None, "start"} /\ proc[p].mask \subseteq Slots
       /\ proc[p].at = "work" <=> proc[p].todo # NoTasks
  /\ since \in [Slots -> SUBSET Spools]
  /\ fuss \in 0 .. MaxFuss

\* What is shown to remain on a slot's spool, and a request to Spoolman whose answer
\* would be taken for it, are of a spool that was there since Box last took note of
\* a change: the code cannot know better (_rfid_inserted, _rfid_removed).
OfSpoolThere ==
  \A s \in Slots :
    /\ slot[s].percent \in since[s] \cup {None}
    /\ \A q \in slot[s].asked : q.current => q.spool \in since[s]

\* The profile that a tag or Spoolman gives a slot is of a spool that was there since
\* Box last took note of a change: a record that the box still holds of the spool
\* before is not applied, nor an answer that comes too late (_rfid_should_apply,
\* complete).
ProfileOfSpool ==
  [][\A s \in Slots :
       LET q == slot'[s].profile
       IN  q # slot[s].profile /\ q.by \in {"tag", "spoolman"} => q.spool \in since[s]]_vars
=============================================================================
