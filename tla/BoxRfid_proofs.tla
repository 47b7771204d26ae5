--------------------------- MODULE BoxRfid_proofs ---------------------------
(***************************************************************************)
(* Theorems about the records of the spools, for every number of slots and *)
(* spools and any number of disturbances.                                  *)
(***************************************************************************)
EXTENDS BoxRfid, TLAPS

Requests == SUBSET [spool : Spools, current : BOOLEAN]
Record ==
  [present : {TRUE, FALSE, None}, pending : BOOLEAN,
   snap : Answers \cup {None}, seen : BOOLEAN, live : BOOLEAN,
   percent : Spools \cup {None}, unknown : Spools \cup {None},
   profile : [by : {"nobody", "user", "tag", "spoolman", "mapping"},
              spool : Spools \cup {None}],
   asked : Requests]

Places == {"idle", "presence", "watch", "watching", "state", "told", "events", "work",
           "refresh", "baseline", "cached", "ready", "sample", "force", "records", "loading"}
\* Where a greenlet goes when no slot needs an exchange any more.
Thens == {"idle", "watch", "events", "ready", "refresh", "sample", "loading"}
Place == [at : Places, then : Thens, todo : [Slots -> Tasks],
          events : [Slots -> Events], load : Slots \cup {None, "start"}, mask : SUBSET Slots]

\* Where the greenlet of a load can only be with a slot to load.
LoadPlaces == {"presence", "watch", "watching", "state", "told", "events", "ready", "sample"}
OfLoad(q) == q.at \in LoadPlaces \/ (q.at = "work" /\ q.then \in LoadPlaces)

Sane(p, q) ==
  /\ q \in Place
  /\ q.at = "work" <=> q.todo # NoTasks
  /\ p = "op" /\ OfLoad(q) => q.load \in Slots

ProcInv == proc \in [Greens -> Place] /\ \A p \in Greens : Sane(p, proc[p])
WorldType ==
  /\ inside \in [Slots -> Spools \cup {None}] /\ cache \in [Slots -> Answers]
  /\ event \in [Slots -> Events] /\ reading \subseteq Slots
  /\ since \in [Slots -> SUBSET Spools] /\ fuss \in 0 .. MaxFuss
  /\ \A s \in reading : inside[s] # None
KnownType ==
  insertReading \in BOOLEAN /\ mapped \subseteq Spools /\ slot \in [Keys -> Record]

TypeInv == ProcInv /\ WorldType /\ KnownType

LEMMA SlotIsKey == Slots \subseteq Keys /\ External \in Keys /\ External \notin Slots
BY SpoolsAssumption DEF Keys

-----------------------------------------------------------------------------
\* What the helpers make of a record.
LEMMA InvalidatedType == \A r \in Record : Invalidated(r) \in Record
<1> SUFFICES ASSUME NEW r \in Record PROVE Invalidated(r) \in Record
  OBVIOUS
<1>1. r.asked \in Requests
  BY DEF Record
<1>2. \A q \in r.asked : [q EXCEPT !.current = FALSE] \in [spool : Spools, current : BOOLEAN]
  BY <1>1 DEF Requests
<1>3. {[q EXCEPT !.current = FALSE] : q \in r.asked} \in Requests
  BY <1>2 DEF Requests
<1> QED BY <1>3 DEF Invalidated, Record

LEMMA UnwatchedType == \A r \in Record : Unwatched(r) \in Record
<1> None \in Answers \cup {None}
  OBVIOUS
<1> QED BY DEF Unwatched, Record

LEMMA InsertedType ==
  ASSUME NEW r \in Record, insertReading \in BOOLEAN PROVE Inserted(r) \in Record
<1>1. Invalidated(r) \in Record
  BY InvalidatedType
<1>2. (Invalidated(r).pending \/ insertReading) \in BOOLEAN
  OBVIOUS
<1> QED BY <1>1, <1>2 DEF Inserted, Record

LEMMA RemovedType == \A r \in Record : Removed(r) \in Record
<1> SUFFICES ASSUME NEW r \in Record PROVE Removed(r) \in Record
  OBVIOUS
<1>1. Unwatched(Invalidated(r)) \in Record
  BY InvalidatedType, UnwatchedType
<1> QED BY <1>1 DEF Removed, Record

LEMMA ProfiledType ==
  ASSUME NEW r \in Record, NEW x \in Spools, NEW by \in {"nobody", "user", "tag", "spoolman", "mapping"}
  PROVE  Profiled(r, x, by) \in Record /\ NotedUnknown(r, x) \in Record
<1>1. x \in Spools \cup {None} /\ None \in Spools \cup {None}
      /\ [by |-> by, spool |-> x] \in
           [by : {"nobody", "user", "tag", "spoolman", "mapping"}, spool : Spools \cup {None}]
  OBVIOUS
<1>2. Profiled(r, x, by) \in Record
  <2> DEFINE given == [by |-> by, spool |-> x]
  <2>1. ASSUME NEW g \in [by : {"nobody", "user", "tag", "spoolman", "mapping"}, spool : Spools \cup {None}]
        PROVE  [r EXCEPT !.unknown = None, !.profile = g] \in Record
    BY <1>1 DEF Record
  <2>2. Profiled(r, x, by) = IF Resolved(x) THEN [r EXCEPT !.unknown = None, !.profile = given] ELSE r
    BY DEF Profiled
  <2> HIDE DEF given
  <2> QED BY <1>1, <2>1, <2>2 DEF given
<1>3. NotedUnknown(r, x) \in Record
  BY <1>1 DEF NotedUnknown, Record
<1> QED BY <1>2, <1>3

LEMMA AppliedType ==
  ASSUME NEW r \in Record, NEW x \in Spools PROVE Applied(r, x) \in Record
<1>1. Invalidated(r) \in Record
  BY InvalidatedType
<1>2. NotedUnknown(Profiled(Invalidated(r), x, "tag"), x) \in Record
  BY <1>1, ProfiledType
<1>3. [Invalidated(r) EXCEPT !.asked = @ \cup {[spool |-> x, current |-> TRUE]}] \in Record
  <2>1. Invalidated(r).asked \cup {[spool |-> x, current |-> TRUE]} \in Requests
    <3>1. Invalidated(r).asked \in Requests
      BY <1>1 DEF Record
    <3>2. [spool |-> x, current |-> TRUE] \in [spool : Spools, current : BOOLEAN]
      OBVIOUS
    <3> QED BY <3>1, <3>2 DEF Requests
  <2> QED BY <1>1, <2>1 DEF Record
<1> QED BY <1>2, <1>3 DEF Applied

LEMMA RemainsType ==
  ASSUME WorldType, NEW r \in Record, NEW s \in Slots PROVE Remains(r, s) \in Record
BY DEF Remains, Record, WorldType

-----------------------------------------------------------------------------
\* Where the greenlets go.
LEMMA NothingToDo == NoTasks \in [Slots -> Tasks] /\ NoEvents \in [Slots -> Events]
BY DEF NoTasks, NoEvents, Tasks, Events

LEMMA AtSane ==
  ASSUME NEW p, NEW place \in Places \ {"work"}, p = "op" => place \notin LoadPlaces
  PROVE  Sane(p, At(place))
BY NothingToDo DEF Sane, At, Place, Places, Thens, OfLoad

LEMMA GoesSane ==
  ASSUME ProcInv, NEW p \in Greens, NEW q, Sane(p, q), Goes(p, q)
  PROVE  ProcInv'
BY DEF ProcInv, Goes, Sane

\* A greenlet that is not at work moves on.
LEMMA GoesToSane ==
  ASSUME ProcInv, NEW p \in Greens, proc[p].at # "work", NEW place \in Places \ {"work"},
         p = "op" /\ place \in LoadPlaces => proc[p].load \in Slots,
         GoesTo(p, place) \/ GoesOn(p, place)
  PROVE  ProcInv'
<1>1. proc[p] \in Place /\ proc[p].todo = NoTasks
  BY DEF ProcInv, Sane
<1>2. Sane(p, [proc[p] EXCEPT !.at = place])
  BY <1>1 DEF Sane, Place, OfLoad
<1>3. Sane(p, [proc[p] EXCEPT !.at = place, !.mask = {}, !.events = IF place = "events" THEN @ ELSE NoEvents])
  BY <1>1, NothingToDo DEF Sane, Place, OfLoad
<1> QED BY <1>2, <1>3, GoesSane DEF GoesTo, GoesOn

LEMMA WorksSane ==
  ASSUME ProcInv, NEW p \in Greens, NEW q \in Place, NEW todo \in [Slots -> Tasks],
         NEW then \in Thens, p = "op" /\ then \in LoadPlaces => q.load \in Slots,
         Works(p, q, todo, then)
  PROVE  ProcInv'
<1> DEFINE at == IF todo = NoTasks THEN then ELSE "work"
           next == IF todo = NoTasks THEN "idle" ELSE then
           events == IF q.at = "told" THEN q.events ELSE NoEvents
           g == [q EXCEPT !.at = at, !.todo = todo, !.then = next, !.events = events]
<1>1. at \in Places /\ next \in Thens /\ events \in [Slots -> Events]
  BY NothingToDo DEF Place, Places, Thens
<1>2. at = "work" <=> todo # NoTasks
  BY DEF Thens
<1>3. at \in LoadPlaces \/ (at = "work" /\ next \in LoadPlaces) <=> then \in LoadPlaces
  BY DEF LoadPlaces
<1>4. Goes(p, g)
  BY DEF Works
<1> HIDE DEF at, next, events
<1>5. /\ g \in Place /\ g.at = at /\ g.todo = todo /\ g.then = next /\ g.load = q.load
  BY <1>1 DEF Place
<1>6. Sane(p, g)
  BY <1>2, <1>3, <1>5 DEF Sane, OfLoad
<1> QED BY <1>4, <1>6, GoesSane

\* The steps of the spools and the box, and those of the users, leave the
\* greenlets where they are.
LEMMA WorldStepType ==
  ASSUME TypeInv, SpoolInserted \/ SpoolRemoved \/ ReaderBusy \/ ReaderDone
  PROVE  TypeInv'
<1>1. ProcInv' /\ KnownType'
  BY DEF TypeInv, SpoolInserted, SpoolRemoved, ReaderBusy, ReaderDone, Host, known, ProcInv, Sane, KnownType
<1>2. fuss' \in 0 .. MaxFuss
  BY SpoolsAssumption
  DEF TypeInv, WorldType, SpoolInserted, SpoolRemoved, ReaderBusy, ReaderDone, More
<1>3. CASE SpoolInserted
  <2>1. PICK s \in Slots, x \in Spools :
          /\ inside' = [inside EXCEPT ![s] = x]
          /\ event' = [event EXCEPT ![s] = "inserted"]
          /\ reading' = IF insertReading THEN reading \cup {s} ELSE reading
          /\ since' = [since EXCEPT ![s] = @ \cup {x}]
    BY <1>3 DEF SpoolInserted
  <2>2. UNCHANGED cache
    BY <1>3 DEF SpoolInserted
  <2>3. x # None
    BY SpoolsAssumption
  <2>4. WorldType'
    BY <1>2, <2>1, <2>2, <2>3 DEF TypeInv, WorldType, Events
  <2> QED BY <1>1, <2>4 DEF TypeInv
<1>4. CASE SpoolRemoved
  <2>1. PICK s \in Slots, c \in Answers :
          /\ inside' = [inside EXCEPT ![s] = None]
          /\ event' = [event EXCEPT ![s] = "removed"]
          /\ reading' = reading \ {s}
          /\ cache' = [cache EXCEPT ![s] = c]
    BY <1>4 DEF SpoolRemoved, TypeInv, WorldType, Answers
  <2>2. UNCHANGED since
    BY <1>4 DEF SpoolRemoved
  <2>3. WorldType'
    BY <1>2, <2>1, <2>2 DEF TypeInv, WorldType, Events
  <2> QED BY <1>1, <2>3 DEF TypeInv
<1>5. CASE ReaderBusy
  <2>1. WorldType'
    BY <1>2, <1>5 DEF ReaderBusy, TypeInv, WorldType, Answers
  <2> QED BY <1>1, <2>1 DEF TypeInv
<1>6. CASE ReaderDone
  <2>1. PICK s \in reading : \E c \in {inside[s], "unread"} :
          /\ cache' = [cache EXCEPT ![s] = c]
          /\ event' = [event EXCEPT ![s] = "read"]
          /\ reading' = reading \ {s}
    BY <1>6 DEF ReaderDone
  <2>2. s \in Slots /\ {inside[s], "unread"} \subseteq Answers
    BY DEF TypeInv, WorldType, Answers
  <2>3. UNCHANGED <<inside, since>>
    BY <1>6 DEF ReaderDone
  <2>4. WorldType'
    BY <1>2, <2>1, <2>2, <2>3 DEF TypeInv, WorldType, Events
  <2> QED BY <1>1, <2>4 DEF TypeInv
<1> QED BY <1>3, <1>4, <1>5, <1>6

LEMMA SlotStepType ==
  ASSUME TypeInv,
         SpoolmanAnswers \/ SlotSet \/ RfidInsert \/ MapSet \/ MapDelete \/ ExternalRead \/ Disconnect
  PROVE  TypeInv'
<1>1. ProcInv'
  BY DEF TypeInv, SpoolmanAnswers, SlotSet, RfidInsert, MapSet, MapDelete, ExternalRead, Disconnect,
         Quiet, ProcInv, Sane
<1>2. fuss' \in 0 .. MaxFuss
  <2>1. UNCHANGED fuss \/ (fuss < MaxFuss /\ fuss' = fuss + 1)
    BY DEF SpoolmanAnswers, SlotSet, RfidInsert, MapSet, MapDelete, ExternalRead, Disconnect, More
  <2> QED BY <2>1, SpoolsAssumption DEF TypeInv, WorldType
<1>3. WorldType'
  BY <1>2 DEF TypeInv, WorldType, SpoolmanAnswers, SlotSet, RfidInsert, MapSet, MapDelete, ExternalRead,
              Disconnect, Quiet, world
<1>4. insertReading' \in BOOLEAN /\ mapped' \subseteq Spools
  BY DEF TypeInv, KnownType, SpoolmanAnswers, SlotSet, RfidInsert, MapSet, MapDelete, ExternalRead, Disconnect
<1>5. \A k \in Keys : slot[k] \in Record
  BY DEF TypeInv, KnownType
<1>6. ASSUME NEW k \in Keys, NEW r \in Record, Becomes(k, r) PROVE TypeInv'
  <2>1. slot' \in [Keys -> Record]
    BY <1>6 DEF Becomes, TypeInv, KnownType
  <2> QED BY <1>1, <1>3, <1>4, <2>1 DEF TypeInv, KnownType
<1>7. CASE SpoolmanAnswers
  <2>1. PICK k \in Keys : \E q \in slot[k].asked :
          LET r == [slot[k] EXCEPT !.asked = @ \ {q}]
          IN  \/ Becomes(k, r)
              \/ Becomes(k, [r EXCEPT !.unknown = None, !.profile = [by |-> "spoolman", spool |-> q.spool]])
              \/ Becomes(k, NotedUnknown(Profiled(r, q.spool, "tag"), q.spool))
    BY <1>7 DEF SpoolmanAnswers
  <2> PICK q \in slot[k].asked :
          LET r == [slot[k] EXCEPT !.asked = @ \ {q}]
          IN  \/ Becomes(k, r)
              \/ Becomes(k, [r EXCEPT !.unknown = None, !.profile = [by |-> "spoolman", spool |-> q.spool]])
              \/ Becomes(k, NotedUnknown(Profiled(r, q.spool, "tag"), q.spool))
    BY <2>1
  <2> DEFINE r == [slot[k] EXCEPT !.asked = @ \ {q}]
  <2>2. slot[k].asked \in Requests
    BY <1>5 DEF Record
  <2>3. q.spool \in Spools
    BY <2>2 DEF Requests
  <2>4. slot[k].asked \ {q} \in Requests
    BY <2>2 DEF Requests
  <2>5. r \in Record
    BY <1>5, <2>4 DEF Record
  <2> HIDE DEF r
  <2>6. [r EXCEPT !.unknown = None, !.profile = [by |-> "spoolman", spool |-> q.spool]] \in Record
    BY <2>3, <2>5 DEF Record
  <2>7. NotedUnknown(Profiled(r, q.spool, "tag"), q.spool) \in Record
    BY <2>3, <2>5, ProfiledType
  <2>8. \/ Becomes(k, r)
        \/ Becomes(k, [r EXCEPT !.unknown = None, !.profile = [by |-> "spoolman", spool |-> q.spool]])
        \/ Becomes(k, NotedUnknown(Profiled(r, q.spool, "tag"), q.spool))
    BY DEF r
  <2> QED BY <1>6, <2>5, <2>6, <2>7, <2>8
<1>8. CASE SlotSet
  <2>1. PICK k \in Keys, who \in {"user", "nobody"} :
          Becomes(k, [slot[k] EXCEPT !.profile = [by |-> who, spool |-> None]])
    BY <1>8 DEF SlotSet
  <2>2. [slot[k] EXCEPT !.profile = [by |-> who, spool |-> None]] \in Record
    BY <1>5 DEF Record
  <2> QED BY <1>6, <2>1, <2>2
<1>9. CASE RfidInsert
  <2>1. slot' \in [Keys -> Record]
    BY <1>5, <1>9, UnwatchedType DEF RfidInsert
  <2> QED BY <1>1, <1>3, <1>4, <2>1 DEF TypeInv, KnownType
<1>10. CASE MapSet
  <2>1. PICK x \in Spools :
          slot' = [k \in Keys |->
                     IF slot[k].unknown # x THEN slot[k]
                     ELSE [Invalidated(slot[k]) EXCEPT
                             !.unknown = None, !.profile = [by |-> "mapping", spool |-> x]]]
    BY <1>10 DEF MapSet
  <2>2. \A r \in Record : [r EXCEPT !.unknown = None, !.profile = [by |-> "mapping", spool |-> x]] \in Record
    BY DEF Record
  <2>3. slot' \in [Keys -> Record]
    BY <1>5, <2>1, <2>2, InvalidatedType
  <2> QED BY <1>1, <1>3, <1>4, <2>3 DEF TypeInv, KnownType
<1>11. CASE MapDelete
  <2>1. slot' \in [Keys -> Record]
    BY <1>11 DEF MapDelete, TypeInv, KnownType
  <2> QED BY <1>1, <1>3, <1>4, <2>1 DEF TypeInv, KnownType
<1>12. CASE ExternalRead
  <2>1. PICK x \in Spools : Becomes(External, Applied(slot[External], x))
    BY <1>12 DEF ExternalRead
  <2>2. Applied(slot[External], x) \in Record
    BY <1>5, SlotIsKey, AppliedType
  <2> QED BY <1>6, <2>1, <2>2, SlotIsKey
<1>13. CASE Disconnect
  <2>1. slot' \in [Keys -> Record]
    BY <1>5, <1>13, InvalidatedType DEF Disconnect
  <2> QED BY <1>1, <1>3, <1>4, <2>1 DEF TypeInv, KnownType
<1> QED BY <1>7, <1>8, <1>9, <1>10, <1>11, <1>12, <1>13

-----------------------------------------------------------------------------
\* The exchanges of the greenlets.
LEMMA FindsType ==
  ASSUME TypeInv, NEW p \in Greens, NEW ins, NEW rem, NEW now \in [Slots -> {TRUE, FALSE, None}],
         NEW todo \in [Slots -> Tasks], NEW then \in Thens,
         p = "op" /\ then \in LoadPlaces => proc[p].load \in Slots,
         Finds(p, ins, rem, now, todo, then), UNCHANGED <<insertReading, mapped>>
  PROVE  ProcInv' /\ KnownType' /\ since' \in [Slots -> SUBSET Spools]
<1>1. slot' = [k \in Keys |-> LET r == [slot[k] EXCEPT !.present = IF k \in Slots THEN now[k] ELSE @]
                              IN  IF k \in ins THEN Inserted(r) ELSE IF k \in rem THEN Removed(r) ELSE r]
  BY DEF Finds
<1>2. \A k \in Keys : [slot[k] EXCEPT !.present = IF k \in Slots THEN now[k] ELSE @] \in Record
  <2> SUFFICES ASSUME NEW k \in Keys
               PROVE  [slot[k] EXCEPT !.present = IF k \in Slots THEN now[k] ELSE @] \in Record
    OBVIOUS
  <2>1. slot[k] \in Record
    BY DEF TypeInv, KnownType
  <2>2. (IF k \in Slots THEN now[k] ELSE slot[k].present) \in {TRUE, FALSE, None}
    BY <2>1 DEF Record
  <2> QED BY <2>1, <2>2 DEF Record
<1>3. slot' \in [Keys -> Record]
  BY <1>1, <1>2, InsertedType, RemovedType DEF TypeInv, KnownType
<1>4. since' \in [Slots -> SUBSET Spools]
  BY DEF Finds, Notes, InSlot, TypeInv, WorldType
<1>5. ProcInv'
  <2> DEFINE all == [s \in Slots |-> IF s \in ins /\ insertReading THEN "snapshot" ELSE todo[s]]
  <2>1. all \in [Slots -> Tasks]
    BY DEF Tasks
  <2>2. Works(p, proc[p], all, then)
    BY DEF Finds
  <2>3. proc[p] \in Place
    BY DEF TypeInv, ProcInv
  <2> HIDE DEF all
  <2> QED BY <2>1, <2>2, <2>3, WorksSane DEF TypeInv
<1> QED BY <1>3, <1>4, <1>5 DEF TypeInv, KnownType

LEMMA FindsTypes ==
  ASSUME TypeInv, NEW p \in Greens, NEW ins, NEW rem, NEW now \in [Slots -> {TRUE, FALSE, None}],
         NEW todo \in [Slots -> Tasks], NEW then \in Thens,
         p = "op" /\ then \in LoadPlaces => proc[p].load \in Slots,
         Finds(p, ins, rem, now, todo, then), UNCHANGED <<world, insertReading, mapped, fuss>>
  PROVE  TypeInv'
<1>1. ProcInv' /\ KnownType' /\ since' \in [Slots -> SUBSET Spools]
  BY FindsType
<1>2. WorldType'
  BY <1>1 DEF TypeInv, WorldType, world
<1> QED BY <1>1, <1>2 DEF TypeInv

\* What a greenlet may find, and where it goes.
LEMMA SeenType ==
  ASSUME TypeInv
  PROVE  Seen \in [Slots -> {TRUE, FALSE, None}] /\ Believed \in [Slots -> {TRUE, FALSE, None}]
<1>1. \A s \in Slots : slot[s].present \in {TRUE, FALSE, None}
  BY SlotIsKey DEF TypeInv, KnownType, Record
<1> QED BY <1>1 DEF Seen, Believed

\* An exchange that moves the greenlet and changes nothing of the box.
LEMMA MovesType ==
  ASSUME TypeInv, ProcInv', slot' \in [Keys -> Record],
         UNCHANGED <<world, insertReading, mapped, since, fuss>>
  PROVE  TypeInv'
BY DEF TypeInv, WorldType, KnownType, world

LEMMA StateType ==
  ASSUME TypeInv, NEW p \in Greens,
         Presence(p) \/ Watch(p) \/ Watched(p) \/ State(p) \/ Told(p) \/ SlotEvents(p)
  PROVE  TypeInv'
<1>1. /\ proc[p] \in Place /\ (proc[p].at = "work" <=> proc[p].todo # NoTasks)
      /\ p = "op" /\ OfLoad(proc[p]) => proc[p].load \in Slots
  BY DEF TypeInv, ProcInv, Sane
<1>2. slot \in [Keys -> Record] /\ event \in [Slots -> Events]
  BY DEF TypeInv, KnownType, WorldType
<1>3. CASE Presence(p)
  <2>1. p = "op" => proc[p].load \in Slots
    BY <1>1, <1>3 DEF Presence, Awaits, OfLoad, LoadPlaces
  <2>2. Finds(p, Appeared, Vanished, Seen, NoTasks, "watch")
        /\ UNCHANGED <<world, insertReading, mapped, fuss>>
    BY <1>3 DEF Presence
  <2>3. "watch" \in Thens
    BY DEF Places, Thens
  <2> QED BY <2>1, <2>2, <2>3, SeenType, NothingToDo, FindsTypes
<1>4. CASE Watch(p)
  <2> DEFINE pending == {s \in Slots : slot[s].pending}
             q == [proc[p] EXCEPT !.at = IF pending = {} THEN "state" ELSE "watching", !.mask = pending]
  <2>1. proc[p].at = "watch" /\ Goes(p, q)
    BY <1>4 DEF Watch
  <2>2. Sane(p, q)
    BY <1>1, <2>1 DEF Sane, Place, Places, Thens, OfLoad, LoadPlaces
  <2> HIDE DEF q
  <2>3. ProcInv'
    BY <2>1, <2>2, GoesSane DEF TypeInv
  <2>4. UNCHANGED <<world, insertReading, mapped, since, fuss, slot>>
    BY <1>4 DEF Watch, known
  <2> QED BY <1>2, <2>3, <2>4, MovesType
<1>5. CASE Watched(p)
  <2>1. proc[p].at = "watching" /\ Goes(p, [proc[p] EXCEPT !.at = "state", !.mask = {}])
    BY <1>5 DEF Watched, Awaits
  <2>2. Sane(p, [proc[p] EXCEPT !.at = "state", !.mask = {}])
    BY <1>1, <2>1 DEF Sane, Place, Places, Thens, OfLoad, LoadPlaces
  <2>3. ProcInv'
    BY <2>1, <2>2, GoesSane DEF TypeInv
  <2>4. \A r \in Record : [r EXCEPT !.seen = TRUE] \in Record
    BY DEF Record
  <2>5. slot' \in [Keys -> Record]
    BY <1>2, <1>5, <2>4 DEF Watched
  <2> QED BY <1>5, <2>3, <2>5, MovesType DEF Watched
<1>6. CASE State(p)
  <2>1. proc[p].at = "state" /\ (p = "op" => proc[p].load \in Slots)
    BY <1>1, <1>6 DEF State, Awaits, OfLoad, LoadPlaces
  <2>2. UNCHANGED <<inside, cache, reading, since, fuss, insertReading, mapped, slot>>
        /\ event' \in {event, NoEvents}
    BY <1>6 DEF State, known
  <2>3. KnownType' /\ WorldType'
    BY <2>2, NothingToDo DEF TypeInv, KnownType, WorldType
  <2>4. CASE Goes(p, [proc[p] EXCEPT !.at = "told", !.events = event])
    <3>1. Sane(p, [proc[p] EXCEPT !.at = "told", !.events = event])
      BY <1>1, <1>2, <2>1 DEF Sane, Place, Places, Thens, OfLoad, LoadPlaces
    <3> QED BY <2>3, <2>4, <3>1, GoesSane DEF TypeInv
  <2>5. ASSUME NEW preload \in BOOLEAN,
               Works(p, proc[p],
                     [s \in Slots |-> IF slot[s].pending /\ ~preload THEN "read" ELSE "no"], Finished(p))
        PROVE  TypeInv'
    <3>1. [s \in Slots |-> IF slot[s].pending /\ ~preload THEN "read" ELSE "no"] \in [Slots -> Tasks]
      BY DEF Tasks
    <3>2. Finished(p) \in Thens
      BY DEF Finished, Places, Thens
    <3>3. ProcInv'
      BY <1>1, <2>1, <2>5, <3>1, <3>2, WorksSane DEF TypeInv
    <3> QED BY <2>3, <3>3 DEF TypeInv
  <2> QED BY <1>6, <2>4, <2>5 DEF State
<1>7. CASE Told(p)
  <2>1. p = "op" => proc[p].load \in Slots
    BY <1>1, <1>7 DEF Told, Awaits, OfLoad, LoadPlaces
  <2>2. Finds(p, Appeared, Vanished, Seen, NoTasks, "events")
        /\ UNCHANGED <<world, insertReading, mapped, fuss>>
    BY <1>7 DEF Told
  <2>3. "events" \in Thens
    BY DEF Places, Thens
  <2> QED BY <2>1, <2>2, <2>3, SeenType, NothingToDo, FindsTypes
<1>8. CASE SlotEvents(p)
  <2>1. p = "op" => proc[p].load \in Slots
    BY <1>1, <1>8 DEF SlotEvents, OfLoad, LoadPlaces
  <2> DEFINE read == [s \in Slots |-> IF proc[p].events[s] = "read" /\ insertReading THEN "read" ELSE "no"]
  <2>2. Finds(p, {s \in Slots : proc[p].events[s] = "inserted"},
              {s \in Slots : proc[p].events[s] = "removed"}, Believed, read, "watch")
        /\ UNCHANGED <<world, insertReading, mapped, fuss>>
    BY <1>8 DEF SlotEvents
  <2>3. "watch" \in Thens
    BY DEF Places, Thens
  <2>4. read \in [Slots -> Tasks]
    BY DEF Tasks
  <2> HIDE DEF read
  <2> QED BY <2>1, <2>2, <2>3, <2>4, SeenType, FindsTypes
<1> QED BY <1>3, <1>4, <1>5, <1>6, <1>7, <1>8

LEMMA ServesSane ==
  ASSUME TypeInv, NEW p \in Greens, NEW s \in Slots, NEW t \in Tasks, proc[p].todo[s] # "no",
         Serves(p, s, t)
  PROVE  ProcInv'
<1>1. /\ proc[p] \in Place /\ proc[p].at = "work"
      /\ p = "op" /\ proc[p].then \in LoadPlaces => proc[p].load \in Slots
  BY DEF TypeInv, ProcInv, Sane, OfLoad, NoTasks
<1>2. [proc[p].todo EXCEPT ![s] = t] \in [Slots -> Tasks] /\ proc[p].then \in Thens
  BY <1>1 DEF Place
<1> QED BY <1>1, <1>2, WorksSane DEF Serves, TypeInv

LEMMA ServeType ==
  ASSUME TypeInv, NEW p \in Greens, NEW s \in Slots,
         Snapshot(p, s) \/ ReadResult(p, s) \/ Remaining(p, s)
  PROVE  TypeInv'
<1>1. slot \in [Keys -> Record] /\ slot[s] \in Record /\ cache[s] \in Answers
  BY SlotIsKey DEF TypeInv, KnownType, WorldType
<1>2. {"no", "remaining"} \subseteq Tasks
  BY DEF Tasks
<1>3. ASSUME NEW r \in Record, Becomes(s, r) \/ UNCHANGED slot PROVE slot' \in [Keys -> Record]
  BY <1>1, <1>3, SlotIsKey DEF Becomes
<1>4. CASE Snapshot(p, s)
  <2>1. [slot[s] EXCEPT !.snap = cache[s], !.seen = @ \/ cache[s] \notin Spools] \in Record
    <3>1. (slot[s].seen \/ cache[s] \notin Spools) \in BOOLEAN /\ cache[s] \in Answers \cup {None}
      BY <1>1
    <3> QED BY <1>1, <3>1 DEF Record
  <2>2. ProcInv'
    BY <1>2, <1>4, ServesSane DEF Snapshot
  <2>3. slot' \in [Keys -> Record]
    BY <1>3, <1>4, <2>1 DEF Snapshot
  <2> QED BY <1>4, <2>2, <2>3, MovesType DEF Snapshot
<1>5. CASE Remaining(p, s)
  <2>1. Remains(slot[s], s) \in Record
    BY <1>1, RemainsType DEF TypeInv
  <2>2. ProcInv'
    BY <1>2, <1>5, ServesSane DEF Remaining
  <2>3. slot' \in [Keys -> Record]
    BY <1>3, <1>5, <2>1 DEF Remaining
  <2> QED BY <1>5, <2>2, <2>3, MovesType DEF Remaining
<1>6. CASE ReadResult(p, s)
  <2> DEFINE r == slot[s] c == cache[s]
  <2>1. ProcInv'
    BY <1>2, <1>6, ServesSane DEF ReadResult
  <2>2. \/ UNCHANGED slot
        \/ Becomes(s, [r EXCEPT !.seen = TRUE])
        \/ Becomes(s, Removed(r))
        \/ Becomes(s, [r EXCEPT !.seen = TRUE, !.live = FALSE, !.percent = None])
        \/ c \in Spools /\ Becomes(s, [Applied(Unwatched(r), c) EXCEPT !.live = TRUE])
    BY <1>6 DEF ReadResult
  <2>3. [r EXCEPT !.seen = TRUE] \in Record
    BY <1>1 DEF Record
  <2>4. Removed(r) \in Record
    BY <1>1, RemovedType
  <2>5. [r EXCEPT !.seen = TRUE, !.live = FALSE, !.percent = None] \in Record
    BY <1>1 DEF Record
  <2>6. c \in Spools => [Applied(Unwatched(r), c) EXCEPT !.live = TRUE] \in Record
    <3>1. c \in Spools => Applied(Unwatched(r), c) \in Record
      BY <1>1, UnwatchedType, AppliedType
    <3> QED BY <3>1 DEF Record
  <2> HIDE DEF r, c
  <2>7. slot' \in [Keys -> Record]
    BY <1>1, <1>3, <2>2, <2>3, <2>4, <2>5, <2>6
  <2>8. since' \in [Slots -> SUBSET Spools]
    BY <1>6 DEF ReadResult, Notes, InSlot, TypeInv, WorldType
  <2>9. UNCHANGED <<world, insertReading, mapped, fuss>>
    BY <1>6 DEF ReadResult
  <2> QED BY <2>1, <2>7, <2>8, <2>9 DEF TypeInv, WorldType, KnownType, world
<1> QED BY <1>4, <1>5, <1>6

LEMMA UnansweredType ==
  ASSUME TypeInv, NEW p \in Greens, Unanswered(p)
  PROVE  TypeInv'
<1>1. /\ proc[p] \in Place /\ (proc[p].at = "work" <=> proc[p].todo # NoTasks)
      /\ p = "op" /\ OfLoad(proc[p]) => proc[p].load \in Slots
  BY DEF TypeInv, ProcInv, Sane
<1>2. KnownType' /\ WorldType'
  <2>1. event' \in {event, NoEvents} /\ UNCHANGED <<inside, cache, reading, known, since>>
        /\ fuss < MaxFuss /\ fuss' = fuss + 1
    BY DEF Unanswered, More
  <2> QED BY <2>1, NothingToDo, SpoolsAssumption DEF TypeInv, KnownType, WorldType, known
<1>3. CASE proc[p].at \in {"presence", "watching", "told", "state"}
  <2>1. p = "op" => proc[p].load \in Slots
    BY <1>1, <1>3 DEF OfLoad, LoadPlaces
  <2>2. PICK place \in {"watch", "state", "events", "ready", "refresh"} : GoesOn(p, place)
    BY <1>3 DEF Unanswered, Finished
  <2>3. place \in Places \ {"work"}
    BY DEF Places, Thens
  <2>4. ProcInv'
    BY <1>3, <2>1, <2>2, <2>3, GoesToSane DEF TypeInv
  <2> QED BY <1>2, <2>4 DEF TypeInv
<1>4. CASE proc[p].at = "work"
  <2>1. PICK s \in Slots : proc[p].todo[s] # "no" /\ Serves(p, s, "no")
    BY <1>4 DEF Unanswered
  <2>2. ProcInv'
    BY <2>1, ServesSane DEF Tasks
  <2> QED BY <1>2, <2>2 DEF TypeInv
<1>5. CASE proc[p].at \in {"baseline", "cached", "ready"}
  <2>1. Goes(p, At("idle"))
    BY <1>5 DEF Unanswered
  <2>2. Sane(p, At("idle"))
    BY AtSane DEF Places, Thens, LoadPlaces
  <2>3. ProcInv'
    BY <2>1, <2>2, GoesSane DEF TypeInv
  <2> QED BY <1>2, <2>3 DEF TypeInv
<1>6. CASE proc[p].at \in {"sample", "force", "records"}
  <2>1. GoesOn(p, "loading")
    BY <1>6 DEF Unanswered
  <2>2. "loading" \in Places \ {"work"} /\ "loading" \notin LoadPlaces
    BY DEF Places, Thens, LoadPlaces
  <2>3. ProcInv'
    BY <1>6, <2>1, <2>2, GoesToSane DEF TypeInv
  <2> QED BY <1>2, <2>3 DEF TypeInv
<1> QED BY <1>3, <1>4, <1>5, <1>6 DEF Unanswered

LEMMA PollType ==
  ASSUME TypeInv, PollBegins \/ LoadBegins \/ Refresh \/ PollEnds
  PROVE  TypeInv'
<1>1. CASE PollBegins
  <2>1. PICK place \in {"presence", "watch"} : GoesTo("poll", place)
    BY <1>1 DEF PollBegins
  <2>2. proc["poll"].at = "idle" /\ "poll" \in Greens
    BY <1>1 DEF PollBegins, Awaits, Greens
  <2>3. ProcInv'
    BY <2>1, <2>2, GoesToSane DEF TypeInv, Places, Thens
  <2>4. UNCHANGED <<world, known, since, fuss>>
    BY <1>1 DEF PollBegins
  <2> QED BY <2>3, <2>4, MovesType DEF known, TypeInv, KnownType
<1>2. CASE LoadBegins
  <2>1. PICK s \in Slots : Goes("op", [At("watch") EXCEPT !.load = s])
    BY <1>2 DEF LoadBegins
  <2>2. Sane("op", [At("watch") EXCEPT !.load = s])
    BY NothingToDo DEF Sane, At, Place, Places, Thens, OfLoad, LoadPlaces
  <2>3. ProcInv'
    BY <2>1, <2>2, GoesSane DEF TypeInv, Greens
  <2>4. UNCHANGED <<world, known, since, fuss>>
    BY <1>2 DEF LoadBegins
  <2> QED BY <2>3, <2>4, MovesType DEF known, TypeInv, KnownType
<1>3. CASE Refresh \/ PollEnds
  <2>1. Goes("poll", At("idle"))
    BY <1>3 DEF Refresh, PollEnds
  <2>2. Sane("poll", At("idle"))
    BY AtSane DEF Places, Thens, LoadPlaces
  <2>3. ProcInv'
    BY <2>1, <2>2, GoesSane DEF TypeInv, Greens
  <2>4. slot' \in [Keys -> Record]
    BY <1>3, RemainsType DEF Refresh, PollEnds, known, TypeInv, KnownType
  <2>5. UNCHANGED <<world, insertReading, mapped, since, fuss>>
    BY <1>3 DEF Refresh, PollEnds, known
  <2> QED BY <2>3, <2>4, <2>5, MovesType
<1> QED BY <1>1, <1>2, <1>3

-----------------------------------------------------------------------------
\* The forced readings.
LEMMA ForceType ==
  ASSUME TypeInv, Baseline \/ StartCached \/ LoadReady \/ LoadSample \/ ForceRead \/ Records \/ Loading
  PROVE  TypeInv'
<1> USE DEF Greens
<1>1. /\ proc["op"] \in Place /\ (proc["op"].at = "work" <=> proc["op"].todo # NoTasks)
      /\ OfLoad(proc["op"]) => proc["op"].load \in Slots
  BY DEF TypeInv, ProcInv, Sane
<1>2. slot \in [Keys -> Record]
  BY DEF TypeInv, KnownType
<1>3. Sane("op", At("idle"))
  BY AtSane DEF Places, Thens, LoadPlaces
<1>4. ASSUME proc["op"].at # "work", NEW place \in {"cached", "force", "records", "loading"},
             NEW mask \in SUBSET Slots
      PROVE  Sane("op", [proc["op"] EXCEPT !.at = place, !.mask = mask])
  BY <1>1, <1>4 DEF Sane, Place, Places, Thens, OfLoad, LoadPlaces
<1>5. proc["op"].mask \in SUBSET Slots
  BY <1>1 DEF Place
<1>6. CASE Baseline
  <2>1. proc["op"].at = "baseline"
    BY <1>6 DEF Baseline, Awaits
  <2>2. ProcInv'
    <3>1. CASE GoesTo("op", "cached")
      BY <2>1, <3>1, GoesToSane DEF TypeInv, Places, Thens, LoadPlaces
    <3>2. CASE Goes("op", At("idle"))
      BY <1>3, <3>2, GoesSane DEF TypeInv
    <3> QED BY <1>6, <3>1, <3>2 DEF Baseline
  <2>3. slot' \in [Keys -> Record]
    <3>1. \A k \in Slots : Seen[k] \in {TRUE, FALSE, None}
      BY DEF Seen
    <3>2. \A k \in Slots, r \in Record : [r EXCEPT !.present = Seen[k]] \in Record
      BY <3>1 DEF Record
    <3> QED BY <1>2, <1>6, <3>2 DEF Baseline
  <2>4. since' \in [Slots -> SUBSET Spools]
    BY <1>6 DEF Baseline, Notes, InSlot, TypeInv, WorldType
  <2>5. UNCHANGED <<world, insertReading, mapped, fuss>>
    BY <1>6 DEF Baseline
  <2> QED BY <2>2, <2>3, <2>4, <2>5 DEF TypeInv, WorldType, KnownType, world
<1>7. CASE StartCached
  <2> DEFINE unread == {s \in Slots : slot[s].present /\ cache[s] \in {"none", "unread"}}
  <2>1. /\ proc["op"].at = "cached" /\ UNCHANGED <<world, known, since, fuss>>
        /\ Goes("op", IF unread = {} THEN At("idle") ELSE [proc["op"] EXCEPT !.at = "force", !.mask = unread])
    BY <1>7 DEF StartCached, Awaits
  <2>2. unread \in SUBSET Slots
    OBVIOUS
  <2> HIDE DEF unread
  <2>3. Sane("op", IF unread = {} THEN At("idle") ELSE [proc["op"] EXCEPT !.at = "force", !.mask = unread])
    BY <1>3, <1>4, <2>1, <2>2
  <2>4. ProcInv'
    BY <2>1, <2>3, GoesSane DEF TypeInv
  <2> QED BY <1>2, <2>1, <2>4, MovesType DEF known
<1>8. CASE LoadReady
  <2>1. PICK place \in {"sample", "loading"} : Finds("op", Appeared, Vanished, Seen, NoTasks, place)
    BY <1>8 DEF LoadReady
  <2>2. proc["op"].load \in Slots
    BY <1>1, <1>8 DEF LoadReady, Awaits, OfLoad, LoadPlaces
  <2>3. UNCHANGED <<world, insertReading, mapped, fuss>>
    BY <1>8 DEF LoadReady
  <2>4. place \in Thens
    BY DEF Places, Thens
  <2> QED BY <2>1, <2>2, <2>3, <2>4, SeenType, NothingToDo, FindsTypes
<1>9. CASE LoadSample
  <2> DEFINE s == proc["op"].load
             q == IF cache[s] = "busy" THEN [proc["op"] EXCEPT !.at = "loading"]
                  ELSE [proc["op"] EXCEPT !.at = "force", !.mask = {s}]
  <2>1. proc["op"].at = "sample" /\ Goes("op", q) /\ UNCHANGED <<world, known, since, fuss>>
    BY <1>9 DEF LoadSample, Awaits
  <2>2. {s} \in SUBSET Slots
    BY <1>1, <2>1 DEF OfLoad, LoadPlaces
  <2>3. Sane("op", [proc["op"] EXCEPT !.at = "loading"])
    BY <1>1, <2>1 DEF Sane, Place, Places, Thens, OfLoad, LoadPlaces
  <2>4. Sane("op", q)
    BY <1>4, <2>1, <2>2, <2>3
  <2> HIDE DEF q
  <2>5. ProcInv'
    BY <2>1, <2>4, GoesSane DEF TypeInv
  <2> QED BY <1>2, <2>1, <2>5, MovesType DEF known
<1>10. CASE ForceRead
  <2>1. proc["op"].at = "force" /\ GoesTo("op", "records") /\ UNCHANGED <<inside, event, known, since, fuss>>
    BY <1>10 DEF ForceRead, Awaits
  <2>2. ProcInv'
    BY <2>1, GoesToSane DEF TypeInv, Places, Thens, LoadPlaces
  <2>3. cache' \in [Slots -> Answers] /\ reading' \subseteq reading
    <3>1. reading' = reading \ proc["op"].mask
      BY <1>10 DEF ForceRead
    <3>2. cache' \in [Slots -> Answers]
      BY <1>10 DEF ForceRead
    <3> QED BY <3>1, <3>2
  <2> QED BY <2>1, <2>2, <2>3 DEF TypeInv, WorldType, KnownType, known
<1>11. CASE Records
  <2> DEFINE got == {s \in proc["op"].mask : cache[s] \in Spools}
             todo == [s \in Slots |-> IF s \in got THEN "remaining" ELSE "no"]
  <2>1. /\ proc["op"].at = "records"
        /\ Works("op", [proc["op"] EXCEPT !.mask = {}], todo, "loading")
    BY <1>11 DEF Records, Awaits
  <2>2. todo \in [Slots -> Tasks] /\ "loading" \in Thens /\ "loading" \notin LoadPlaces
    BY DEF Tasks, Places, Thens, LoadPlaces
  <2>3. [proc["op"] EXCEPT !.mask = {}] \in Place
    BY <1>1 DEF Place
  <2>4. ProcInv'
    <3> HIDE DEF todo
    <3> QED BY <2>1, <2>2, <2>3, WorksSane DEF TypeInv
  <2>5. slot' \in [Keys -> Record]
    <3>1. ASSUME NEW r \in Record, NEW x \in Spools
          PROVE  [Unwatched(Applied(r, x)) EXCEPT !.live = TRUE] \in Record
      <4>1. Unwatched(Applied(r, x)) \in Record
        BY AppliedType, UnwatchedType
      <4> QED BY <4>1 DEF Record
    <3>2. slot' = [k \in Keys |->
                    IF k \in got THEN [Unwatched(Applied(slot[k], cache[k])) EXCEPT !.live = TRUE]
                    ELSE slot[k]]
      BY <1>11 DEF Records
    <3> QED BY <1>2, <3>1, <3>2
  <2>6. UNCHANGED <<world, insertReading, mapped, since, fuss>>
    BY <1>11 DEF Records
  <2> QED BY <2>4, <2>5, <2>6, MovesType
<1>12. CASE Loading
  <2>1. ProcInv'
    BY <1>3, <1>12, GoesSane DEF Loading, TypeInv
  <2>2. slot' \in [Keys -> Record]
    BY <1>2, <1>12, UnwatchedType DEF Loading
  <2>3. UNCHANGED <<world, insertReading, mapped, since, fuss>>
    BY <1>12 DEF Loading
  <2> QED BY <2>1, <2>2, <2>3, MovesType
<1> QED BY <1>6, <1>7, <1>8, <1>9, <1>10, <1>11, <1>12

-----------------------------------------------------------------------------
LEMMA TypeInvInit == Init => TypeInv
<1> SUFFICES ASSUME Init PROVE TypeInv
  OBVIOUS
<1>1. Unknown \in Record
  <2>1. NoProfile \in [by : {"nobody", "user", "tag", "spoolman", "mapping"}, spool : Spools \cup {None}]
    BY DEF NoProfile
  <2>2. {} \in Requests
    BY DEF Requests
  <2> QED BY <2>1, <2>2 DEF Unknown, Record
<1>2. KnownType
  BY <1>1 DEF Init, KnownType
<1>3. WorldType
  BY NothingToDo, SpoolsAssumption DEF Init, WorldType, InSlot, Answers
<1>4. ProcInv
  <2>1. Sane("poll", At("idle"))
    BY AtSane DEF Places, Thens, LoadPlaces
  <2>2. Sane("op", [At("baseline") EXCEPT !.load = "start"])
    BY NothingToDo DEF Sane, At, Place, Places, Thens, OfLoad, LoadPlaces
  <2>3. proc["poll"] = At("idle") /\ proc["op"] = [At("baseline") EXCEPT !.load = "start"]
        /\ proc = [p \in Greens |-> proc[p]]
    BY DEF Init, Greens
  <2> QED BY <2>1, <2>2, <2>3 DEF ProcInv, Sane, Greens
<1> QED BY <1>2, <1>3, <1>4 DEF TypeInv

LEMMA TypeInvNext == TypeInv /\ [Next]_vars => TypeInv'
<1> SUFFICES ASSUME TypeInv, [Next]_vars PROVE TypeInv'
  OBVIOUS
<1>1. CASE UNCHANGED vars
  BY <1>1 DEF vars, world, known, TypeInv, WorldType, KnownType, ProcInv, Sane
<1>2. CASE \E p \in Greens : Exchange(p) \/ Watch(p) \/ SlotEvents(p)
  BY <1>2, StateType, UnansweredType, ServeType DEF Exchange
<1> QED
  BY <1>1, <1>2, WorldStepType, SlotStepType, PollType, ForceType DEF Next

LEMMA TypeInvariant == Spec => []TypeInv
BY TypeInvInit, TypeInvNext, PTL DEF Spec

\* Each variable keeps its type: a slot's record names a spool or nobody, never the
\* box's code for an unknown tag (decode_rfid_records, _read_rfid_remaining), and a
\* greenlet is at work exactly while a slot still needs an exchange.
THEOREM TypeCorrect == Spec => []TypeOK
<1>1. TypeInv => TypeOK
  BY DEF TypeInv, TypeOK, ProcInv, Sane, Place, Places, Thens, WorldType, KnownType, Record, Requests
<1> QED BY <1>1, TypeInvariant, PTL

-----------------------------------------------------------------------------
\* Why what is believed of a slot is of a spool that was there.  The box keeps the
\* record of the spool before, so a record it holds may be of a spool that left
\* before Box last took note of a change.  Box uses it only if the slot is live, if
\* it saw the slot without a record since that note, or if the record is not the one
\* it found then; the reader has read the tag since in each of these cases (Good).
\* A record that a forced reading left is used without a comparison: notes that are
\* taken meanwhile do not count for it (Forced, RecordsHeld).
Held(c, S) == c \in Spools => c \in S

Good(r, c, S) ==
  /\ r.percent \in S \cup {None}
  /\ \A q \in r.asked : q.current => q.spool \in S
  /\ r.seen \/ r.live \/ (r.snap # None /\ r.snap # c) => Held(c, S)

\* Nothing is believed.
Clean(r) ==
  /\ r.percent = None /\ ~r.seen /\ ~r.live /\ r.snap = None
  /\ \A q \in r.asked : ~q.current

\* A tag or Spoolman gives the profile of r only if it is of a spool in S.
Gives(r, old, S) ==
  r.profile # old.profile /\ r.profile.by \in {"tag", "spoolman"} => r.profile.spool \in S

RecordsHeld ==
  proc["op"].at = "records" => \A s \in proc["op"].mask : Held(cache[s], since[s])
AtStart ==
  proc["op"].at = "baseline" =>
    /\ proc["op"].load = "start" /\ proc["poll"].at = "idle"
    /\ \A s \in Slots : Clean(slot[s])
SpoolInv ==
  /\ \A s \in Slots : InSlot(s) \subseteq since[s] /\ Good(slot[s], cache[s], since[s])
  /\ RecordsHeld /\ AtStart

\* What any step does to a slot.
Step(s) ==
  /\ InSlot(s)' \subseteq since'[s]
  /\ cache'[s] = cache[s] \/ Held(cache'[s], since'[s])
  /\ \/ Good(slot'[s], cache[s], since[s]) /\ since[s] \subseteq since'[s]
     \/ Clean(slot'[s]) /\ (since[s] \subseteq since'[s] \/ s \notin Forced)
  /\ Gives(slot'[s], slot[s], since[s])

-----------------------------------------------------------------------------
\* What the helpers keep.
LEMMA SameGood ==
  ASSUME NEW r \in Record, NEW r2 \in Record, NEW c, NEW S,
         r2.percent = r.percent, r2.asked = r.asked, r2.seen = r.seen, r2.live = r.live,
         r2.snap = r.snap
  PROVE  (Good(r, c, S) => Good(r2, c, S)) /\ (Clean(r) => Clean(r2))
BY DEF Good, Clean

LEMMA CleanGood == ASSUME NEW r, NEW c, NEW S, Clean(r) PROVE Good(r, c, S)
BY DEF Good, Clean

LEMMA GoodStays ==
  ASSUME NEW r, NEW c, NEW S, NEW c2, NEW S2, Good(r, c, S), S \subseteq S2,
         c2 = c \/ Held(c2, S2)
  PROVE  Good(r, c2, S2)
BY DEF Good, Held

LEMMA InvalidatedGood ==
  ASSUME NEW r \in Record, NEW c, NEW S
  PROVE  /\ Good(r, c, S) => Good(Invalidated(r), c, S)
         /\ Clean(r) => Clean(Invalidated(r))
         /\ Invalidated(r).profile = r.profile
         /\ \A q \in Invalidated(r).asked : ~q.current
<1>1. Invalidated(r).asked = {[q EXCEPT !.current = FALSE] : q \in r.asked}
  BY DEF Invalidated, Record
<1>2. \A q \in r.asked : [q EXCEPT !.current = FALSE].current = FALSE
  BY DEF Record, Requests
<1>3. \A q \in Invalidated(r).asked : ~q.current
  BY <1>1, <1>2
<1>4. /\ Invalidated(r).percent = r.percent /\ Invalidated(r).seen = r.seen
      /\ Invalidated(r).live = r.live /\ Invalidated(r).snap = r.snap
      /\ Invalidated(r).profile = r.profile
  BY DEF Invalidated, Record
<1> QED BY <1>3, <1>4 DEF Good, Clean

LEMMA UnwatchedGood ==
  ASSUME NEW r \in Record, NEW c, NEW S
  PROVE  /\ Good(r, c, S) => Good(Unwatched(r), c, S)
         /\ Clean(r) => Clean(Unwatched(r))
         /\ Unwatched(r).profile = r.profile
<1>1. /\ Unwatched(r).percent = r.percent /\ Unwatched(r).asked = r.asked /\ ~Unwatched(r).seen
      /\ Unwatched(r).live = r.live /\ Unwatched(r).snap = None /\ Unwatched(r).profile = r.profile
  BY DEF Unwatched, Record
<1> QED BY <1>1 DEF Good, Clean

LEMMA NotedClean ==
  ASSUME NEW r \in Record
  PROVE  /\ Clean(Inserted(r)) /\ Inserted(r).profile = r.profile
         /\ Clean(Removed(r)) /\ Removed(r).profile = r.profile
<1>1. /\ Invalidated(r) \in Record /\ \A q \in Invalidated(r).asked : ~q.current
      /\ Invalidated(r).profile = r.profile
  BY InvalidatedType, InvalidatedGood
<1>2. /\ Inserted(r).percent = None /\ ~Inserted(r).seen /\ ~Inserted(r).live /\ Inserted(r).snap = None
      /\ Inserted(r).asked = Invalidated(r).asked /\ Inserted(r).profile = Invalidated(r).profile
  BY <1>1 DEF Inserted, Record
<1>3. Unwatched(Invalidated(r)) \in Record
  BY <1>1, UnwatchedType
<1>4. /\ ~Unwatched(Invalidated(r)).seen /\ Unwatched(Invalidated(r)).snap = None
      /\ Unwatched(Invalidated(r)).asked = Invalidated(r).asked
      /\ Unwatched(Invalidated(r)).profile = Invalidated(r).profile
  BY <1>1 DEF Unwatched, Record
<1>5. /\ Removed(r).percent = None /\ ~Removed(r).seen /\ ~Removed(r).live /\ Removed(r).snap = None
      /\ Removed(r).asked = Invalidated(r).asked /\ Removed(r).profile = Invalidated(r).profile
  BY <1>3, <1>4 DEF Removed, Record
<1> QED BY <1>1, <1>2, <1>5 DEF Clean

\* A profile is given to a slot for the spool it is of.
LEMMA ProfiledGood ==
  ASSUME NEW r \in Record, NEW x \in Spools, NEW c, NEW S
  PROVE  LET n == NotedUnknown(Profiled(r, x, "tag"), x)
         IN  /\ Good(r, c, S) => Good(n, c, S)
             /\ n.profile = r.profile \/ n.profile.spool = x
             /\ n.asked = r.asked
<1> DEFINE q == Profiled(r, x, "tag") n == NotedUnknown(q, x)
<1>1. /\ q \in Record /\ q.percent = r.percent /\ q.asked = r.asked /\ q.seen = r.seen
      /\ q.live = r.live /\ q.snap = r.snap /\ (q.profile = r.profile \/ q.profile.spool = x)
  <2> DEFINE e == [r EXCEPT !.unknown = None, !.profile = [by |-> "tag", spool |-> x]]
  <2>1. q \in Record
    BY ProfiledType
  <2>2. /\ e.percent = r.percent /\ e.asked = r.asked /\ e.seen = r.seen /\ e.live = r.live
        /\ e.snap = r.snap /\ e.profile = [by |-> "tag", spool |-> x]
    BY DEF Record
  <2>3. q = IF Resolved(x) THEN e ELSE r
    BY DEF Profiled
  <2> HIDE DEF e, q
  <2> QED BY <2>1, <2>2, <2>3
<1> HIDE DEF q
<1>2. /\ n \in Record /\ n.percent = q.percent /\ n.asked = q.asked /\ n.seen = q.seen
      /\ n.live = q.live /\ n.snap = q.snap /\ n.profile = q.profile
  <2> DEFINE e == [q EXCEPT !.unknown = x]
  <2>1. n \in Record /\ n = IF Resolved(x) THEN q ELSE e
    BY <1>1, ProfiledType DEF NotedUnknown
  <2>2. /\ e.percent = q.percent /\ e.asked = q.asked /\ e.seen = q.seen
        /\ e.live = q.live /\ e.snap = q.snap /\ e.profile = q.profile
    BY <1>1 DEF Record
  <2> HIDE DEF e, n
  <2> QED BY <2>1, <2>2
<1> HIDE DEF n
<1>3. Good(r, c, S) => Good(n, c, S)
  BY <1>1, <1>2, SameGood
<1>4. (n.profile = r.profile \/ n.profile.spool = x) /\ n.asked = r.asked
  BY <1>1, <1>2
<1> QED BY <1>3, <1>4 DEF n, q

LEMMA AppliedGood ==
  ASSUME NEW r \in Record, NEW x \in Spools, NEW c, NEW S, Good(r, c, S), x \in S
  PROVE  /\ Good(Applied(r, x), c, S)
         /\ Applied(r, x).profile = r.profile \/ Applied(r, x).profile.spool = x
<1> DEFINE i == Invalidated(r) a == [i EXCEPT !.asked = @ \cup {[spool |-> x, current |-> TRUE]}]
<1>1. i \in Record /\ Good(i, c, S) /\ i.profile = r.profile
  BY InvalidatedType, InvalidatedGood
<1>2. Applied(r, x) = IF x \in WithId THEN a ELSE NotedUnknown(Profiled(i, x, "tag"), x)
  BY DEF Applied
<1> HIDE DEF i
<1>3. /\ a.percent = i.percent /\ a.seen = i.seen /\ a.live = i.live /\ a.snap = i.snap
      /\ a.profile = i.profile /\ a.asked = i.asked \cup {[spool |-> x, current |-> TRUE]}
  BY <1>1 DEF Record
<1>4. Good(a, c, S)
  BY <1>1, <1>3 DEF Good
<1> QED BY <1>1, <1>2, <1>3, <1>4, ProfiledGood

LEMMA RemainsGood ==
  ASSUME NEW r \in Record, NEW s, Good(r, cache[s], since[s])
  PROVE  Good(Remains(r, s), cache[s], since[s]) /\ Remains(r, s).profile = r.profile
<1> DEFINE m == [r EXCEPT !.percent = cache[s]]
<1>1. /\ m.percent = cache[s] /\ m.asked = r.asked /\ m.seen = r.seen /\ m.live = r.live /\ m.snap = r.snap
      /\ m.profile = r.profile
  BY DEF Record
<1>2. Remains(r, s) = IF r.live /\ cache[s] \in Spools THEN m ELSE r
  BY DEF Remains
<1> HIDE DEF m
<1> QED BY <1>1, <1>2 DEF Good, Held

-----------------------------------------------------------------------------
\* Every step does to a slot what Step says.
SlotFacts(s) ==
  s \in Keys /\ slot[s] \in Record /\ Good(slot[s], cache[s], since[s]) /\ InSlot(s) \subseteq since[s]

LEMMA FactsOfSlot == TypeInv /\ SpoolInv => \A s \in Slots : SlotFacts(s)
BY SlotIsKey DEF TypeInv, KnownType, SpoolInv, SlotFacts

\* A step of the greenlets or the users that takes no note of a change.
LEMMA ServedStep ==
  ASSUME NEW s \in Slots, SlotFacts(s), UNCHANGED <<inside, cache, since>>,
         Good(slot'[s], cache[s], since[s]), Gives(slot'[s], slot[s], since[s])
  PROVE  Step(s)
BY DEF SlotFacts, Step, InSlot

LEMMA SameStep ==
  ASSUME NEW s \in Slots, SlotFacts(s), UNCHANGED <<inside, cache, since>>, slot'[s] = slot[s]
  PROVE  Step(s)
BY ServedStep DEF SlotFacts, Gives

\* A note of a change in s, as the code takes it or for a slot being forced to read.
LEMMA NoteStep ==
  ASSUME NEW s \in Slots, SlotFacts(s), UNCHANGED <<inside, cache>>, NEW S,
         Notes(S), s \in S => Clean(slot'[s]), s \notin S => Good(slot'[s], cache[s], since[s]),
         Gives(slot'[s], slot[s], since[s])
  PROVE  Step(s)
<1>1. since'[s] = IF s \in S \ Forced THEN InSlot(s) ELSE since[s]
  BY DEF Notes
<1>2. InSlot(s)' = InSlot(s)
  BY DEF InSlot
<1> QED BY <1>1, <1>2 DEF SlotFacts, Step

LEMMA WorldSteps ==
  ASSUME TypeInv, SpoolInv, SpoolInserted \/ SpoolRemoved \/ ReaderBusy \/ ReaderDone, NEW s \in Slots
  PROVE  Step(s)
<1>1. SlotFacts(s) /\ slot'[s] = slot[s]
  BY FactsOfSlot
  DEF SpoolInserted, SpoolRemoved, ReaderBusy, ReaderDone, Host, known
<1>2. Good(slot'[s], cache[s], since[s]) /\ Gives(slot'[s], slot[s], since[s])
  BY <1>1 DEF SlotFacts, Gives
<1>3. since[s] \subseteq since'[s]
  BY DEF SpoolInserted, SpoolRemoved, ReaderBusy, ReaderDone, TypeInv, WorldType
<1>4. InSlot(s)' \subseteq since'[s]
  <2>1. inside'[s] = inside[s] \/ inside'[s] = None \/ inside'[s] \in since'[s]
    BY DEF SpoolInserted, SpoolRemoved, ReaderBusy, ReaderDone, TypeInv, WorldType
  <2> QED BY <1>1, <1>3, <2>1 DEF InSlot, SlotFacts
<1>5. cache'[s] = cache[s] \/ Held(cache'[s], since'[s])
  <2>1. CASE SpoolInserted
    BY <2>1 DEF SpoolInserted
  <2>2. CASE SpoolRemoved
    <3>1. cache'[s] \in {cache[s], "none"}
      BY <2>2 DEF SpoolRemoved, TypeInv, WorldType
    <3> QED BY <3>1, SpoolsAssumption DEF Held
  <2>3. CASE ReaderBusy
    <3>1. cache'[s] \in {cache[s], "busy"}
      BY <2>3 DEF ReaderBusy, TypeInv, WorldType
    <3> QED BY <3>1, SpoolsAssumption DEF Held
  <2>4. CASE ReaderDone
    <3>1. cache'[s] \in {cache[s], inside[s], "unread"} /\ since' = since
      BY <2>4 DEF ReaderDone, TypeInv, WorldType
    <3>2. inside[s] \in Spools => inside[s] \in since[s]
      BY <1>1, SpoolsAssumption DEF SlotFacts, InSlot
    <3> QED BY <3>1, <3>2, SpoolsAssumption DEF Held
  <2> QED BY <2>1, <2>2, <2>3, <2>4
<1> QED BY <1>2, <1>3, <1>4, <1>5 DEF Step

LEMMA SlotSteps ==
  ASSUME TypeInv, SpoolInv, NEW s \in Slots,
         SpoolmanAnswers \/ SlotSet \/ RfidInsert \/ MapSet \/ MapDelete \/ ExternalRead \/ Disconnect
  PROVE  Step(s)
<1>1. SlotFacts(s) /\ UNCHANGED <<inside, cache, since>>
  BY FactsOfSlot
  DEF SpoolmanAnswers, SlotSet, RfidInsert, MapSet, MapDelete, ExternalRead, Disconnect, Quiet, world
<1>2. slot \in [Keys -> Record] /\ slot[s] \in Record
  BY <1>1 DEF TypeInv, KnownType, SlotFacts
<1>3. CASE slot'[s] = slot[s]
  BY <1>1, <1>3, SameStep
<1>4. CASE SpoolmanAnswers
  <2>1. PICK k \in Keys : \E q \in slot[k].asked :
          LET r == [slot[k] EXCEPT !.asked = @ \ {q}]
          IN  \/ Becomes(k, r)
              \/ q.current /\ Becomes(k, [r EXCEPT !.unknown = None,
                                                   !.profile = [by |-> "spoolman", spool |-> q.spool]])
              \/ q.current /\ Becomes(k, NotedUnknown(Profiled(r, q.spool, "tag"), q.spool))
    BY <1>4 DEF SpoolmanAnswers, Accepts
  <2>2. CASE k # s
    <3>1. \E r : slot' = [slot EXCEPT ![k] = r]
      BY <2>1 DEF Becomes
    <3>2. slot'[s] = slot[s]
      BY <2>2, <3>1
    <3> QED BY <1>3, <3>2
  <2>3. CASE k = s
    <3>1. PICK q \in slot[s].asked :
          LET r == [slot[s] EXCEPT !.asked = @ \ {q}]
          IN  \/ slot'[s] = r
              \/ q.current /\ slot'[s] = [r EXCEPT !.unknown = None,
                                                   !.profile = [by |-> "spoolman", spool |-> q.spool]]
              \/ q.current /\ slot'[s] = NotedUnknown(Profiled(r, q.spool, "tag"), q.spool)
      BY <1>1, <1>2, <2>1, <2>3 DEF Becomes, SlotFacts
    <3> DEFINE r == [slot[s] EXCEPT !.asked = @ \ {q}]
               m == [r EXCEPT !.unknown = None, !.profile = [by |-> "spoolman", spool |-> q.spool]]
    <3>2. q.spool \in Spools /\ slot[s].asked \ {q} \in Requests
      BY <1>2 DEF Record, Requests
    <3>3. /\ r \in Record /\ r.percent = slot[s].percent /\ r.seen = slot[s].seen
          /\ r.live = slot[s].live /\ r.snap = slot[s].snap /\ r.profile = slot[s].profile
          /\ r.asked = slot[s].asked \ {q}
      BY <1>2, <3>2 DEF Record
    <3> HIDE DEF r
    <3>4. Good(r, cache[s], since[s])
      BY <1>1, <3>3 DEF Good, SlotFacts
    <3>5. q.current => q.spool \in since[s]
      BY <1>1 DEF Good, SlotFacts
    <3>6. m.profile.spool = q.spool /\ Good(m, cache[s], since[s])
      <4>1. /\ m.percent = r.percent /\ m.seen = r.seen /\ m.live = r.live /\ m.snap = r.snap
            /\ m.asked = r.asked /\ m.profile.spool = q.spool
        BY <3>3 DEF Record
      <4> QED BY <3>4, <4>1 DEF Good
    <3> HIDE DEF m
    <3>7. slot'[s] = r \/ (q.current /\ slot'[s] = m)
          \/ (q.current /\ slot'[s] = NotedUnknown(Profiled(r, q.spool, "tag"), q.spool))
      BY <3>1 DEF r, m
    <3>8. Good(slot'[s], cache[s], since[s])
      BY <3>2, <3>3, <3>4, <3>6, <3>7, ProfiledGood
    <3>9. Gives(slot'[s], slot[s], since[s])
      BY <3>2, <3>3, <3>5, <3>6, <3>7, ProfiledGood DEF Gives
    <3> QED BY <1>1, <3>8, <3>9, ServedStep
  <2> QED BY <2>2, <2>3
<1>5. CASE SlotSet
  <2>1. PICK k \in Keys, who \in {"user", "nobody"} :
          Becomes(k, [slot[k] EXCEPT !.profile = [by |-> who, spool |-> None]])
    BY <1>5 DEF SlotSet
  <2> DEFINE m == [slot[s] EXCEPT !.profile = [by |-> who, spool |-> None]]
  <2>2. slot'[s] = slot[s] \/ slot'[s] = m
    BY <1>1, <1>2, <2>1 DEF Becomes, SlotFacts
  <2>3. /\ m.percent = slot[s].percent /\ m.seen = slot[s].seen /\ m.live = slot[s].live
        /\ m.snap = slot[s].snap /\ m.asked = slot[s].asked /\ m.profile.by = who
    BY <1>2 DEF Record
  <2> HIDE DEF m
  <2>4. Good(m, cache[s], since[s])
    BY <1>1, <2>3 DEF Good, SlotFacts
  <2>5. Gives(m, slot[s], since[s])
    BY <2>3 DEF Gives
  <2> QED BY <1>1, <1>3, <2>2, <2>4, <2>5, ServedStep
<1>6. CASE RfidInsert
  <2>1. slot'[s] = slot[s] \/ slot'[s] = Unwatched(slot[s])
    BY <1>1, <1>6 DEF RfidInsert, SlotFacts
  <2>2. Good(Unwatched(slot[s]), cache[s], since[s]) /\ Gives(Unwatched(slot[s]), slot[s], since[s])
    BY <1>1, <1>2, UnwatchedGood DEF SlotFacts, Gives
  <2> QED BY <1>1, <1>3, <2>1, <2>2, ServedStep
<1>7. CASE MapSet
  <2>1. PICK x \in Spools :
          slot' = [k \in Keys |->
                     IF slot[k].unknown # x THEN slot[k]
                     ELSE [Invalidated(slot[k]) EXCEPT
                             !.unknown = None, !.profile = [by |-> "mapping", spool |-> x]]]
    BY <1>7 DEF MapSet
  <2> DEFINE i == Invalidated(slot[s])
             m == [i EXCEPT !.unknown = None, !.profile = [by |-> "mapping", spool |-> x]]
  <2>2. slot'[s] = slot[s] \/ slot'[s] = m
    BY <1>1, <2>1 DEF SlotFacts
  <2>3. i \in Record /\ Good(i, cache[s], since[s])
    BY <1>1, <1>2, InvalidatedType, InvalidatedGood DEF SlotFacts
  <2> HIDE DEF i
  <2>4. /\ m.percent = i.percent /\ m.seen = i.seen /\ m.live = i.live
        /\ m.snap = i.snap /\ m.asked = i.asked /\ m.profile.by = "mapping"
    BY <2>3 DEF Record
  <2> HIDE DEF m
  <2>5. Good(m, cache[s], since[s])
    BY <2>3, <2>4 DEF Good
  <2>6. Gives(m, slot[s], since[s])
    BY <2>4 DEF Gives
  <2> QED BY <1>1, <1>3, <2>2, <2>5, <2>6, ServedStep
<1>8. CASE MapDelete
  BY <1>3, <1>8 DEF MapDelete
<1>9. CASE ExternalRead
  <2>1. s # External
    BY SlotIsKey
  <2>2. slot'[s] = slot[s]
    BY <1>1, <1>2, <1>9, <2>1 DEF ExternalRead, Becomes, SlotFacts
  <2> QED BY <1>3, <2>2
<1>10. CASE Disconnect
  <2>1. slot'[s] = Invalidated(slot[s])
    BY <1>1, <1>10 DEF Disconnect, SlotFacts
  <2>2. Good(Invalidated(slot[s]), cache[s], since[s]) /\ Gives(Invalidated(slot[s]), slot[s], since[s])
    BY <1>1, <1>2, InvalidatedGood DEF SlotFacts, Gives
  <2> QED BY <1>1, <2>1, <2>2, ServedStep
<1> QED BY <1>4, <1>5, <1>6, <1>7, <1>8, <1>9, <1>10

\* A note of what a greenlet finds.
LEMMA FindsStep ==
  ASSUME TypeInv, SpoolInv, NEW p \in Greens, NEW ins, NEW rem,
         NEW now \in [Slots -> {TRUE, FALSE, None}], NEW todo, NEW then,
         Finds(p, ins, rem, now, todo, then), UNCHANGED world, NEW s \in Slots
  PROVE  Step(s)
<1>1. SlotFacts(s) /\ UNCHANGED <<inside, cache>>
  BY FactsOfSlot DEF world
<1> DEFINE r == [slot[s] EXCEPT !.present = now[s]]
<1>2. slot'[s] = IF s \in ins THEN Inserted(r) ELSE IF s \in rem THEN Removed(r) ELSE r
  BY <1>1 DEF Finds, SlotFacts
<1>3. /\ r \in Record /\ r.percent = slot[s].percent /\ r.asked = slot[s].asked /\ r.seen = slot[s].seen
      /\ r.live = slot[s].live /\ r.snap = slot[s].snap /\ r.profile = slot[s].profile
  BY <1>1 DEF SlotFacts, Record
<1> HIDE DEF r
<1>4. Good(r, cache[s], since[s])
  BY <1>1, <1>3, SameGood DEF SlotFacts
<1>5. s \in ins \cup rem => Clean(slot'[s])
  BY <1>2, <1>3, NotedClean
<1>6. s \notin ins \cup rem => Good(slot'[s], cache[s], since[s])
  BY <1>2, <1>4
<1>7. Gives(slot'[s], slot[s], since[s])
  BY <1>2, <1>3, NotedClean DEF Gives
<1>8. Notes(ins \cup rem)
  BY DEF Finds
<1> QED BY <1>1, <1>5, <1>6, <1>7, <1>8, NoteStep

LEMMA StateSteps ==
  ASSUME TypeInv, SpoolInv, NEW p \in Greens, NEW s \in Slots,
         Presence(p) \/ Watch(p) \/ Watched(p) \/ State(p) \/ Told(p) \/ SlotEvents(p) \/ Unanswered(p)
  PROVE  Step(s)
<1>1. SlotFacts(s) /\ slot[s] \in Record
  BY FactsOfSlot DEF SlotFacts
<1>2. CASE Presence(p)
  <2>1. Finds(p, Appeared, Vanished, Seen, NoTasks, "watch") /\ UNCHANGED world
    BY <1>2 DEF Presence
  <2> QED BY <2>1, SeenType, FindsStep
<1>5. CASE Told(p)
  <2>1. Finds(p, Appeared, Vanished, Seen, NoTasks, "events") /\ UNCHANGED world
    BY <1>5 DEF Told
  <2> QED BY <2>1, SeenType, FindsStep
<1>6. CASE SlotEvents(p)
  <2>1. \E todo :
          Finds(p, {t \in Slots : proc[p].events[t] = "inserted"},
                {t \in Slots : proc[p].events[t] = "removed"}, Believed, todo, "watch")
    BY <1>6 DEF SlotEvents
  <2>2. UNCHANGED world
    BY <1>6 DEF SlotEvents
  <2> QED BY <2>1, <2>2, SeenType, FindsStep
<1>3. CASE Watch(p) \/ State(p) \/ Unanswered(p)
  <2>1. UNCHANGED <<inside, cache, since, slot>>
    BY <1>3 DEF Watch, State, Unanswered, world, known
  <2> QED BY <1>1, <2>1, SameStep
<1>4. CASE Watched(p)
  <2>1. UNCHANGED <<inside, cache, since>>
    BY <1>4 DEF Watched, world
  <2>2. slot'[s] = slot[s] \/ (cache[s] \notin Spools /\ slot'[s] = [slot[s] EXCEPT !.seen = TRUE])
    BY <1>1, <1>4 DEF Watched, SlotFacts
  <2> DEFINE m == [slot[s] EXCEPT !.seen = TRUE]
  <2>3. /\ m.percent = slot[s].percent /\ m.asked = slot[s].asked /\ m.live = slot[s].live
        /\ m.snap = slot[s].snap /\ m.profile = slot[s].profile
    BY <1>1 DEF Record
  <2>4. slot'[s] = slot[s] \/ (cache[s] \notin Spools /\ slot'[s] = m)
    BY <2>2
  <2> HIDE DEF m
  <2>5. cache[s] \notin Spools => Good(m, cache[s], since[s])
    BY <1>1, <2>3 DEF Good, Held, SlotFacts
  <2>6. Gives(slot'[s], slot[s], since[s])
    BY <2>3, <2>4 DEF Gives
  <2> QED BY <1>1, <2>1, <2>4, <2>5, <2>6, ServedStep DEF SlotFacts
<1> QED BY <1>2, <1>3, <1>4, <1>5, <1>6

LEMMA ServeSteps ==
  ASSUME TypeInv, SpoolInv, NEW p \in Greens, NEW t \in Slots, NEW s \in Slots,
         Snapshot(p, t) \/ ReadResult(p, t) \/ Remaining(p, t)
  PROVE  Step(s)
<1>1. /\ SlotFacts(s) /\ slot[s] \in Record /\ Good(slot[s], cache[s], since[s])
      /\ UNCHANGED <<inside, cache>> /\ slot \in [Keys -> Record]
  BY FactsOfSlot DEF SlotFacts, Snapshot, ReadResult, Remaining, world, TypeInv, KnownType
<1>2. CASE t # s
  <2>1. slot'[s] = slot[s]
    <3>1. slot' = slot \/ \E r : slot' = [slot EXCEPT ![t] = r]
      <4>1. CASE Snapshot(p, t)
        BY <4>1 DEF Snapshot, Becomes
      <4>2. CASE ReadResult(p, t)
        BY <4>2 DEF ReadResult, Becomes
      <4>3. CASE Remaining(p, t)
        BY <4>3 DEF Remaining, Becomes
      <4> QED BY <4>1, <4>2, <4>3
    <3> QED BY <1>1, <1>2, <3>1 DEF SlotFacts
  <2>2. since'[s] = since[s]
    BY <1>2 DEF Snapshot, ReadResult, Remaining, Notes
  <2>3. Gives(slot'[s], slot[s], since[s])
    BY <2>1 DEF Gives
  <2> QED BY <1>1, <2>1, <2>2, <2>3 DEF Step, SlotFacts, InSlot
<1>3. CASE t = s /\ Snapshot(p, t)
  <2> DEFINE m == [slot[s] EXCEPT !.snap = cache[s], !.seen = @ \/ cache[s] \notin Spools]
  <2>1. slot'[s] = m /\ UNCHANGED since
    BY <1>1, <1>3 DEF Snapshot, Becomes, SlotFacts
  <2>2. /\ m.percent = slot[s].percent /\ m.asked = slot[s].asked /\ m.live = slot[s].live
        /\ m.snap = cache[s] /\ m.profile = slot[s].profile
        /\ m.seen <=> slot[s].seen \/ cache[s] \notin Spools
    BY <1>1 DEF Record
  <2> HIDE DEF m
  <2>3. Good(m, cache[s], since[s]) /\ Gives(m, slot[s], since[s])
    BY <1>1, <2>2 DEF Good, Held, Gives
  <2> QED BY <1>1, <2>1, <2>3, ServedStep
<1>4. CASE t = s /\ Remaining(p, t)
  <2>1. slot'[s] = Remains(slot[s], s) /\ UNCHANGED since
    BY <1>1, <1>4 DEF Remaining, Becomes, SlotFacts
  <2>2. Good(slot'[s], cache[s], since[s]) /\ Gives(slot'[s], slot[s], since[s])
    BY <1>1, <2>1, RemainsGood DEF Gives
  <2> QED BY <1>1, <2>1, <2>2, ServedStep
<1>5. CASE t = s /\ ReadResult(p, t)
  <2> DEFINE r == slot[s] c == cache[s] a == Applied(Unwatched(r), c)
  <2>1. \/ c = "none" /\ slot'[s] = Removed(r)
        \/ c = "busy" /\ slot'[s] = [r EXCEPT !.seen = TRUE]
        \/ c = "unread" /\ slot'[s] = [r EXCEPT !.seen = TRUE, !.live = FALSE, !.percent = None]
        \/ c \in Spools /\ slot'[s] = slot[s]
        \/ c \in Spools /\ ShouldApply(r, c) /\ slot'[s] = [a EXCEPT !.live = TRUE]
    BY <1>1, <1>5 DEF ReadResult, Becomes, SlotFacts
  <2>2. Notes(IF c = "none" THEN {s} ELSE {})
    BY <1>5 DEF ReadResult
  <2>3. c = "none" \/ since'[s] = since[s]
    BY <2>2 DEF Notes
  <2>4. CASE c = "none"
    <3>1. slot'[s] = Removed(r)
      BY <2>1, <2>4, SpoolsAssumption
    <3>2. Clean(slot'[s]) /\ Gives(slot'[s], slot[s], since[s])
      BY <1>1, <3>1, NotedClean DEF Gives
    <3>3. Notes({s})
      BY <2>2, <2>4
    <3> QED BY <1>1, <3>2, <3>3, NoteStep
  <2>5. CASE c \in {"busy", "unread"}
    <3> DEFINE m == [r EXCEPT !.seen = TRUE] u == [r EXCEPT !.seen = TRUE, !.live = FALSE, !.percent = None]
    <3>1. c \notin Spools /\ (slot'[s] = m \/ slot'[s] = u)
      BY <2>1, <2>5, SpoolsAssumption
    <3>2. /\ m.percent = r.percent /\ m.asked = r.asked /\ m.profile = r.profile
          /\ u.percent = None /\ u.asked = r.asked /\ u.profile = r.profile
      BY <1>1 DEF Record
    <3> HIDE DEF m, u
    <3>3. Good(slot'[s], c, since[s]) /\ Gives(slot'[s], slot[s], since[s])
      BY <1>1, <3>1, <3>2 DEF Good, Held, Gives
    <3> QED BY <1>1, <2>3, <2>5, <3>3 DEF Step, SlotFacts, InSlot
  <2>6. CASE c \in Spools /\ slot'[s] = slot[s]
    <3>1. since'[s] = since[s]
      BY <2>3, <2>6, SpoolsAssumption
    <3>2. Gives(slot'[s], slot[s], since[s])
      BY <2>6 DEF Gives
    <3> QED BY <1>1, <2>6, <3>1, <3>2 DEF Step, SlotFacts, InSlot
  <2>7. CASE c \in Spools /\ ShouldApply(r, c) /\ slot'[s] = [a EXCEPT !.live = TRUE]
    <3>1. since'[s] = since[s]
      BY <2>3, <2>7, SpoolsAssumption
    <3>2. c \in since[s]
      BY <1>1, <2>7 DEF ShouldApply, Good, Held
    <3>3. Unwatched(r) \in Record /\ Good(Unwatched(r), c, since[s]) /\ Unwatched(r).profile = r.profile
      BY <1>1, UnwatchedType, UnwatchedGood
    <3>4. a \in Record /\ Good(a, c, since[s]) /\ (a.profile = r.profile \/ a.profile.spool = c)
      BY <2>7, <3>2, <3>3, AppliedType, AppliedGood
    <3> DEFINE m == [a EXCEPT !.live = TRUE]
    <3> HIDE DEF a
    <3>5. /\ m.percent = a.percent /\ m.asked = a.asked /\ m.profile = a.profile
      BY <3>4 DEF Record
    <3> HIDE DEF m
    <3>6. Good(m, c, since[s])
      BY <3>2, <3>4, <3>5 DEF Good, Held
    <3>7. Gives(m, slot[s], since[s])
      BY <3>2, <3>4, <3>5 DEF Gives
    <3>8. slot'[s] = m
      BY <2>7 DEF m
    <3> QED BY <1>1, <3>1, <3>6, <3>7, <3>8 DEF Step, SlotFacts, InSlot
  <2> QED BY <2>1, <2>4, <2>5, <2>6, <2>7
<1> QED BY <1>2, <1>3, <1>4, <1>5

LEMMA OtherSteps ==
  ASSUME TypeInv, SpoolInv, NEW s \in Slots,
         \/ PollBegins \/ LoadBegins \/ Refresh \/ PollEnds
         \/ Baseline \/ StartCached \/ LoadReady \/ LoadSample \/ ForceRead \/ Records \/ Loading
  PROVE  Step(s)
<1>1. /\ SlotFacts(s) /\ slot[s] \in Record /\ Good(slot[s], cache[s], since[s])
      /\ slot \in [Keys -> Record]
  BY FactsOfSlot DEF SlotFacts, TypeInv, KnownType
<1>2. CASE PollBegins \/ LoadBegins \/ PollEnds \/ StartCached \/ LoadSample
  <2>1. UNCHANGED <<inside, cache, since, slot>>
    BY <1>2 DEF PollBegins, LoadBegins, PollEnds, StartCached, LoadSample, world, known
  <2> QED BY <1>1, <2>1, SameStep
<1>3. CASE Refresh
  <2>1. slot'[s] = Remains(slot[s], s) /\ UNCHANGED <<inside, cache, since>>
    BY <1>1, <1>3 DEF Refresh, SlotFacts, world
  <2>2. Good(slot'[s], cache[s], since[s]) /\ Gives(slot'[s], slot[s], since[s])
    BY <1>1, <2>1, RemainsGood DEF Gives
  <2> QED BY <1>1, <2>1, <2>2, ServedStep
<1>4. CASE Baseline
  <2>1. slot'[s] = [slot[s] EXCEPT !.present = Seen[s]] /\ UNCHANGED <<inside, cache>> /\ Notes(Slots)
    BY <1>1, <1>4 DEF Baseline, SlotFacts, world
  <2>2. Clean(slot[s])
    BY <1>4 DEF Baseline, Awaits, SpoolInv, AtStart
  <2> DEFINE m == [slot[s] EXCEPT !.present = Seen[s]]
  <2>3. /\ m.percent = slot[s].percent /\ m.asked = slot[s].asked /\ m.seen = slot[s].seen
        /\ m.live = slot[s].live /\ m.snap = slot[s].snap /\ m.profile = slot[s].profile
    BY <1>1 DEF Record
  <2>4. slot'[s] = m
    BY <2>1
  <2> HIDE DEF m
  <2>5. Clean(slot'[s]) /\ Gives(slot'[s], slot[s], since[s])
    BY <2>2, <2>3, <2>4 DEF Clean, Gives
  <2> QED BY <1>1, <2>1, <2>5, NoteStep
<1>5. CASE LoadReady
  <2>1. PICK place : Finds("op", Appeared, Vanished, Seen, NoTasks, place)
    BY <1>5 DEF LoadReady
  <2>2. UNCHANGED world
    BY <1>5 DEF LoadReady
  <2> QED BY <2>1, <2>2, SeenType, FindsStep DEF Greens
<1>6. CASE ForceRead
  <2>1. slot'[s] = slot[s] /\ UNCHANGED <<inside, since>>
    BY <1>6 DEF ForceRead, known
  <2>2. cache'[s] = cache[s] \/ cache'[s] \in InSlot(s) \cup {"none", "unread"}
    BY <1>6 DEF ForceRead
  <2>3. cache'[s] = cache[s] \/ Held(cache'[s], since'[s])
    BY <1>1, <2>1, <2>2, SpoolsAssumption DEF Held, SlotFacts
  <2>4. Gives(slot'[s], slot[s], since[s])
    BY <2>1 DEF Gives
  <2> QED BY <1>1, <2>1, <2>3, <2>4 DEF Step, SlotFacts, InSlot
<1>7. CASE Records
  <2> DEFINE a == Applied(slot[s], cache[s]) u == Unwatched(a) m == [u EXCEPT !.live = TRUE]
  <2>1. /\ proc["op"].at = "records" /\ UNCHANGED <<inside, cache, since>>
        /\ slot'[s] = IF s \in proc["op"].mask /\ cache[s] \in Spools THEN m ELSE slot[s]
    BY <1>1, <1>7 DEF Records, Awaits, SlotFacts, world
  <2>2. CASE slot'[s] = slot[s]
    BY <1>1, <2>1, <2>2, SameStep
  <2>3. CASE s \in proc["op"].mask /\ cache[s] \in Spools
    <3>1. cache[s] \in since[s]
      BY <2>1, <2>3 DEF SpoolInv, RecordsHeld, Held
    <3>2. /\ a \in Record /\ Good(a, cache[s], since[s])
          /\ a.profile = slot[s].profile \/ a.profile.spool = cache[s]
      BY <1>1, <2>3, <3>1, AppliedType, AppliedGood
    <3> HIDE DEF a
    <3>3. u \in Record /\ Good(u, cache[s], since[s]) /\ u.profile = a.profile
      BY <3>2, UnwatchedType, UnwatchedGood
    <3> HIDE DEF u
    <3>4. m.percent = u.percent /\ m.asked = u.asked /\ m.profile = u.profile
      BY <3>3 DEF Record
    <3> HIDE DEF m
    <3>5. Good(m, cache[s], since[s]) /\ Gives(m, slot[s], since[s])
      BY <3>1, <3>2, <3>3, <3>4 DEF Good, Held, Gives
    <3> QED BY <1>1, <2>1, <2>3, <3>5, ServedStep
  <2> QED BY <2>1, <2>2, <2>3
<1>8. CASE Loading
  <2>1. (slot'[s] = slot[s] \/ slot'[s] = Unwatched(slot[s])) /\ UNCHANGED <<inside, cache, since>>
    BY <1>1, <1>8 DEF Loading, SlotFacts, world
  <2>2. Good(slot'[s], cache[s], since[s]) /\ Gives(slot'[s], slot[s], since[s])
    BY <1>1, <2>1, UnwatchedGood DEF Gives
  <2> QED BY <1>1, <2>1, <2>2, ServedStep
<1> QED BY <1>2, <1>3, <1>4, <1>5, <1>6, <1>7, <1>8

LEMMA EveryStep ==
  ASSUME TypeInv, SpoolInv, [Next]_vars
  PROVE  \A s \in Slots : Step(s)
<1> SUFFICES ASSUME NEW s \in Slots PROVE Step(s)
  OBVIOUS
<1>1. CASE UNCHANGED vars
  BY <1>1, FactsOfSlot, SameStep DEF vars, world, known
<1>2. CASE \E p \in Greens : Exchange(p) \/ Watch(p) \/ SlotEvents(p)
  BY <1>2, StateSteps, ServeSteps DEF Exchange
<1> QED BY <1>1, <1>2, WorldSteps, SlotSteps, OtherSteps DEF Next

-----------------------------------------------------------------------------
\* How the greenlets move: nothing goes back to the start's first query, and only a
\* forced reading leads to records that are taken as they are.
Elsewhere(p) ==
  /\ proc'[p].at \notin {"records", "baseline"}
  /\ \A q \in Greens \ {p} : proc'[q] = proc[q]

LEMMA GoesElsewhere ==
  ASSUME TypeInv, NEW p \in Greens, NEW q, q.at \notin {"records", "baseline"}, Goes(p, q)
  PROVE  Elsewhere(p)
BY DEF TypeInv, ProcInv, Goes, Elsewhere

LEMMA WorksElsewhere ==
  ASSUME TypeInv, NEW p \in Greens, NEW q \in Place, NEW todo, NEW then \in Thens,
         Works(p, q, todo, then)
  PROVE  Elsewhere(p)
<1> DEFINE at == IF todo = NoTasks THEN then ELSE "work"
           next == IF todo = NoTasks THEN "idle" ELSE then
           events == IF q.at = "told" THEN q.events ELSE NoEvents
           g == [q EXCEPT !.at = at, !.todo = todo, !.then = next, !.events = events]
<1>1. Goes(p, g)
  BY DEF Works
<1>2. at \notin {"records", "baseline"}
  BY DEF Thens
<1> HIDE DEF at, next, events
<1>3. g.at = at
  BY DEF Place
<1> HIDE DEF g
<1> QED BY <1>1, <1>2, <1>3, GoesElsewhere

LEMMA OnElsewhere ==
  ASSUME TypeInv, NEW p \in Greens, NEW place, place \notin {"records", "baseline"},
         GoesTo(p, place) \/ GoesOn(p, place)
  PROVE  Elsewhere(p)
<1>1. proc[p] \in Place
  BY DEF TypeInv, ProcInv
<1> DEFINE g == [proc[p] EXCEPT !.at = place]
           h == [proc[p] EXCEPT !.at = place, !.mask = {},
                                !.events = IF place = "events" THEN @ ELSE NoEvents]
<1>2. g.at = place /\ h.at = place
  BY <1>1 DEF Place
<1>3. Goes(p, g) \/ Goes(p, h)
  BY DEF GoesTo, GoesOn
<1> HIDE DEF g, h
<1> QED BY <1>2, <1>3, GoesElsewhere

LEMMA ExchangeElsewhere ==
  ASSUME TypeInv, NEW p \in Greens, Exchange(p) \/ Watch(p) \/ SlotEvents(p)
  PROVE  Elsewhere(p) /\ proc[p].at # "idle"
<1>1. proc[p] \in Place /\ (proc[p].at = "work" <=> proc[p].todo # NoTasks)
  BY DEF TypeInv, ProcInv, Sane
<1>2. CASE Presence(p) \/ Told(p) \/ SlotEvents(p)
  <2>1. PICK todo : \/ Works(p, proc[p], todo, "watch")
                    \/ Works(p, proc[p], todo, "events")
    BY <1>2 DEF Presence, Told, SlotEvents, Finds
  <2>2. proc[p].at # "idle"
    BY <1>2 DEF Presence, Told, SlotEvents, Awaits
  <2> QED BY <1>1, <2>1, <2>2, WorksElsewhere DEF Thens
<1>3. CASE Watch(p) \/ Watched(p)
  <2>1. \/ \E mask : Goes(p, [proc[p] EXCEPT !.at = "state", !.mask = mask])
        \/ \E mask : Goes(p, [proc[p] EXCEPT !.at = "watching", !.mask = mask])
    BY <1>3 DEF Watch, Watched
  <2>2. \A mask : /\ [proc[p] EXCEPT !.at = "state", !.mask = mask].at = "state"
                  /\ [proc[p] EXCEPT !.at = "watching", !.mask = mask].at = "watching"
    BY <1>1 DEF Place
  <2>3. proc[p].at # "idle"
    BY <1>3 DEF Watch, Watched, Awaits
  <2> QED BY <2>1, <2>2, <2>3, GoesElsewhere
<1>4. CASE State(p)
  <2>1. proc[p].at = "state"
    BY <1>4 DEF State, Awaits
  <2>2. Goes(p, [proc[p] EXCEPT !.at = "told", !.events = event])
        \/ \E todo : Works(p, proc[p], todo, Finished(p))
    BY <1>4 DEF State
  <2>3. [proc[p] EXCEPT !.at = "told", !.events = event].at = "told"
    BY <1>1 DEF Place
  <2>4. Finished(p) \in Thens
    BY DEF Finished, Thens
  <2> QED BY <1>1, <2>1, <2>2, <2>3, <2>4, GoesElsewhere, WorksElsewhere
<1>5. ASSUME NEW s \in Slots, proc[p].todo[s] # "no", NEW t, Serves(p, s, t)
      PROVE  Elsewhere(p) /\ proc[p].at # "idle"
  <2>1. proc[p].todo # NoTasks
    BY <1>5 DEF NoTasks
  <2>2. proc[p].then \in Thens
    BY <1>1 DEF Place
  <2> QED BY <1>1, <1>5, <2>1, <2>2, WorksElsewhere DEF Serves
<1>6. CASE \E s \in Slots : Snapshot(p, s) \/ ReadResult(p, s) \/ Remaining(p, s)
  <2>1. \E s \in Slots : proc[p].todo[s] # "no" /\ \E t : Serves(p, s, t)
    BY <1>6 DEF Snapshot, ReadResult, Remaining
  <2> QED BY <1>5, <2>1
<1>7. CASE Unanswered(p)
  <2>1. CASE proc[p].at = "work"
    <3>1. \E s \in Slots : proc[p].todo[s] # "no" /\ Serves(p, s, "no")
      BY <1>7, <2>1 DEF Unanswered
    <3> QED BY <1>5, <3>1
  <2>2. CASE proc[p].at \in {"baseline", "cached", "ready"}
    <3>1. Goes(p, At("idle"))
      BY <1>7, <2>2 DEF Unanswered
    <3>2. At("idle").at = "idle"
      BY DEF At
    <3> QED BY <2>2, <3>1, <3>2, GoesElsewhere
  <2>3. CASE proc[p].at \in {"presence", "watching", "told", "state", "sample", "force", "records"}
    <3>1. \E place \in {"watch", "state", "events", "ready", "refresh", "loading"} : GoesOn(p, place)
      BY <1>7, <2>3 DEF Unanswered, Finished
    <3> QED BY <2>3, <3>1, OnElsewhere
  <2> QED BY <1>7, <2>1, <2>2, <2>3 DEF Unanswered
<1> QED BY <1>2, <1>3, <1>4, <1>6, <1>7 DEF Exchange

\* From the start's first query only the start itself moves on.
LEMMA OpMoves ==
  ASSUME TypeInv, AtStart, [Next]_vars
  PROVE  \/ proc' = proc
         \/ proc'["op"] = proc["op"] /\ proc["op"].at # "baseline"
         \/ proc'["op"].at \notin {"records", "baseline"}
         \/ ForceRead /\ proc'["op"].at = "records" /\ proc'["op"].mask = proc["op"].mask
<1> USE DEF Greens
<1>1. proc["op"] \in Place
  BY DEF TypeInv, ProcInv
<1>2. CASE \E p \in Greens : Exchange(p) \/ Watch(p) \/ SlotEvents(p)
  <2>1. PICK p \in Greens : Exchange(p) \/ Watch(p) \/ SlotEvents(p)
    BY <1>2
  <2>2. Elsewhere(p) /\ proc[p].at # "idle"
    BY <2>1, ExchangeElsewhere
  <2> QED BY <2>2 DEF Elsewhere, AtStart
<1>3. CASE PollBegins \/ Refresh \/ PollEnds
  <2>1. proc'["op"] = proc["op"]
    BY <1>3 DEF PollBegins, Refresh, PollEnds, GoesTo, Goes, TypeInv, ProcInv
  <2>2. proc["op"].load = "start" => ~PollBegins
    BY SpoolsAssumption DEF PollBegins, Operating
  <2>3. proc["op"].at # "baseline"
    BY <1>3, <2>2 DEF Refresh, PollEnds, Awaits, AtStart
  <2> QED BY <2>1, <2>3
<1>4. CASE LoadBegins
  <2>1. PICK s \in Slots : Goes("op", [At("watch") EXCEPT !.load = s])
    BY <1>4 DEF LoadBegins
  <2>2. [At("watch") EXCEPT !.load = s].at = "watch"
    BY DEF At
  <2> QED BY <2>1, <2>2, GoesElsewhere DEF Elsewhere
<1>5. At("idle").at = "idle"
  BY DEF At
<1>6. CASE Baseline
  <2>1. GoesTo("op", "cached") \/ Goes("op", At("idle"))
    BY <1>6 DEF Baseline
  <2> QED BY <1>5, <2>1, GoesElsewhere, OnElsewhere DEF Elsewhere
<1>7. CASE StartCached \/ LoadSample
  <2>1. \/ Goes("op", At("idle"))
        \/ Goes("op", [proc["op"] EXCEPT !.at = "loading"])
        \/ \E mask : Goes("op", [proc["op"] EXCEPT !.at = "force", !.mask = mask])
    BY <1>7 DEF StartCached, LoadSample
  <2>2. /\ [proc["op"] EXCEPT !.at = "loading"].at = "loading"
        /\ \A mask : [proc["op"] EXCEPT !.at = "force", !.mask = mask].at = "force"
    BY <1>1 DEF Place
  <2> QED BY <1>5, <2>1, <2>2, GoesElsewhere DEF Elsewhere
<1>8. CASE LoadReady
  <2>1. \E todo, place : place \in Thens /\ Works("op", proc["op"], todo, place)
    BY <1>8 DEF LoadReady, Finds, Thens
  <2> QED BY <1>1, <2>1, WorksElsewhere DEF Elsewhere
<1>9. CASE ForceRead
  <2>1. proc' = [proc EXCEPT !["op"] = [proc["op"] EXCEPT !.at = "records"]]
    BY <1>9 DEF ForceRead, GoesTo, Goes
  <2>2. proc'["op"] = [proc["op"] EXCEPT !.at = "records"]
    BY <2>1 DEF TypeInv, ProcInv
  <2> QED BY <1>1, <1>9, <2>2 DEF Place
<1>10. CASE Records
  <2>1. \E todo : Works("op", [proc["op"] EXCEPT !.mask = {}], todo, "loading")
    BY <1>10 DEF Records
  <2>2. [proc["op"] EXCEPT !.mask = {}] \in Place
    BY <1>1 DEF Place
  <2> QED BY <2>1, <2>2, WorksElsewhere DEF Elsewhere, Thens
<1>11. CASE Loading
  <2>1. Goes("op", At("idle"))
    BY <1>11 DEF Loading
  <2> QED BY <1>5, <2>1, GoesElsewhere DEF Elsewhere
<1>12. CASE \/ SpoolInserted \/ SpoolRemoved \/ ReaderBusy \/ ReaderDone
            \/ SpoolmanAnswers \/ SlotSet \/ RfidInsert \/ MapSet \/ MapDelete \/ ExternalRead \/ Disconnect
            \/ UNCHANGED vars
  BY <1>12
  DEF SpoolInserted, SpoolRemoved, ReaderBusy, ReaderDone, SpoolmanAnswers, SlotSet, RfidInsert,
      MapSet, MapDelete, ExternalRead, Disconnect, Quiet, Host, vars
<1> QED
  BY <1>2, <1>3, <1>4, <1>6, <1>7, <1>8, <1>9, <1>10, <1>11, <1>12 DEF Next

\* Until the start has asked which slots are occupied, nothing is believed of them.
LEMMA StartClean ==
  ASSUME TypeInv, SpoolInv, [Next]_vars, proc["op"].at = "baseline", proc'["op"].at = "baseline",
         NEW s \in Slots
  PROVE  Clean(slot'[s])
<1> USE DEF Greens
<1>1. proc["op"].load = "start" /\ proc["poll"].at = "idle" /\ Clean(slot[s])
  BY DEF SpoolInv, AtStart
<1>2. s \in Keys /\ slot \in [Keys -> Record] /\ slot[s] \in Record
  BY SlotIsKey DEF TypeInv, KnownType
<1>3. CASE slot'[s] = slot[s]
  BY <1>1, <1>3
<1>4. CASE \E p \in Greens : Exchange(p) \/ Watch(p) \/ SlotEvents(p)
  <2>1. PICK p \in Greens : Exchange(p) \/ Watch(p) \/ SlotEvents(p)
    BY <1>4
  <2> QED BY <1>1, <2>1, ExchangeElsewhere DEF Elsewhere
<1>5. CASE SpoolmanAnswers
  <2>1. PICK k \in Keys : \E q \in slot[k].asked :
          LET r == [slot[k] EXCEPT !.asked = @ \ {q}]
          IN  Becomes(k, r) \/ (q.current /\ \E r2 : Becomes(k, r2))
    BY <1>5 DEF SpoolmanAnswers, Accepts
  <2>2. CASE k # s
    <3>1. \E r : slot' = [slot EXCEPT ![k] = r]
      BY <2>1 DEF Becomes
    <3>2. slot'[s] = slot[s]
      BY <1>2, <2>2, <3>1
    <3> QED BY <1>3, <3>2
  <2>3. CASE k = s
    <3>1. PICK q \in slot[s].asked :
            LET r == [slot[s] EXCEPT !.asked = @ \ {q}]
            IN  Becomes(s, r) \/ (q.current /\ \E r2 : Becomes(s, r2))
      BY <2>1, <2>3
    <3> DEFINE r == [slot[s] EXCEPT !.asked = @ \ {q}]
    <3>2. slot'[s] = r
      BY <1>1, <1>2, <3>1 DEF Becomes, Clean
    <3>3. /\ r.percent = slot[s].percent /\ r.seen = slot[s].seen /\ r.live = slot[s].live
          /\ r.snap = slot[s].snap /\ r.asked = slot[s].asked \ {q}
      BY <1>2 DEF Record
    <3> HIDE DEF r
    <3> QED BY <1>1, <3>2, <3>3 DEF Clean
  <2> QED BY <2>2, <2>3
<1>6. CASE SlotSet
  <2>1. PICK k \in Keys, who \in {"user", "nobody"} :
          Becomes(k, [slot[k] EXCEPT !.profile = [by |-> who, spool |-> None]])
    BY <1>6 DEF SlotSet
  <2> DEFINE m == [slot[s] EXCEPT !.profile = [by |-> who, spool |-> None]]
  <2>2. slot'[s] = slot[s] \/ slot'[s] = m
    BY <1>2, <2>1 DEF Becomes
  <2>3. /\ m.percent = slot[s].percent /\ m.seen = slot[s].seen /\ m.live = slot[s].live
        /\ m.snap = slot[s].snap /\ m.asked = slot[s].asked
    BY <1>2 DEF Record
  <2> HIDE DEF m
  <2> QED BY <1>1, <1>3, <2>2, <2>3 DEF Clean
<1>7. CASE RfidInsert
  <2>1. slot'[s] = slot[s] \/ slot'[s] = Unwatched(slot[s])
    BY <1>2, <1>7 DEF RfidInsert
  <2> QED BY <1>1, <1>2, <1>3, <2>1, UnwatchedGood
<1>8. CASE MapSet
  <2>1. PICK x \in Spools :
          slot' = [k \in Keys |->
                     IF slot[k].unknown # x THEN slot[k]
                     ELSE [Invalidated(slot[k]) EXCEPT
                             !.unknown = None, !.profile = [by |-> "mapping", spool |-> x]]]
    BY <1>8 DEF MapSet
  <2> DEFINE i == Invalidated(slot[s])
             m == [i EXCEPT !.unknown = None, !.profile = [by |-> "mapping", spool |-> x]]
  <2>2. slot'[s] = slot[s] \/ slot'[s] = m
    BY <1>2, <2>1
  <2>3. i \in Record /\ Clean(i)
    BY <1>1, <1>2, InvalidatedType, InvalidatedGood
  <2> HIDE DEF i
  <2>4. /\ m.percent = i.percent /\ m.seen = i.seen /\ m.live = i.live
        /\ m.snap = i.snap /\ m.asked = i.asked
    BY <2>3 DEF Record
  <2> HIDE DEF m
  <2> QED BY <1>1, <1>3, <2>2, <2>3, <2>4 DEF Clean
<1>9. CASE ExternalRead
  <2>1. s # External
    BY SlotIsKey
  <2>2. slot'[s] = slot[s]
    BY <1>2, <1>9, <2>1 DEF ExternalRead, Becomes
  <2> QED BY <1>3, <2>2
<1>10. CASE Disconnect
  <2>1. slot'[s] = Invalidated(slot[s])
    BY <1>2, <1>10 DEF Disconnect
  <2> QED BY <1>1, <1>2, <2>1, InvalidatedGood
<1>11. CASE \/ SpoolInserted \/ SpoolRemoved \/ ReaderBusy \/ ReaderDone \/ MapDelete
            \/ UNCHANGED vars
  BY <1>3, <1>11
  DEF SpoolInserted, SpoolRemoved, ReaderBusy, ReaderDone, MapDelete, Host, known, vars
<1>12. ~(PollBegins \/ LoadBegins \/ Refresh \/ PollEnds)
  BY <1>1, SpoolsAssumption DEF PollBegins, LoadBegins, Refresh, PollEnds, Awaits, Operating
<1>13. ~(StartCached \/ LoadReady \/ LoadSample \/ ForceRead \/ Records \/ Loading)
  BY DEF StartCached, LoadReady, LoadSample, ForceRead, Records, Loading, Awaits
<1>14. ~Baseline
  <2> SUFFICES ASSUME Baseline PROVE FALSE
    OBVIOUS
  <2>1. GoesTo("op", "cached") \/ Goes("op", At("idle"))
    BY DEF Baseline
  <2>2. At("idle").at = "idle"
    BY DEF At
  <2> QED BY <2>1, <2>2, GoesElsewhere, OnElsewhere DEF Elsewhere
<1> QED
  BY <1>4, <1>5, <1>6, <1>7, <1>8, <1>9, <1>10, <1>11, <1>12, <1>13, <1>14 DEF Next

-----------------------------------------------------------------------------
LEMMA SpoolInit == Init => SpoolInv
<1> SUFFICES ASSUME Init PROVE SpoolInv
  OBVIOUS
<1>1. ASSUME NEW s \in Slots
      PROVE  InSlot(s) \subseteq since[s] /\ Clean(slot[s]) /\ Good(slot[s], cache[s], since[s])
  <2>1. since[s] = InSlot(s)
    BY DEF Init
  <2>2. slot[s] = Unknown
    BY SlotIsKey DEF Init
  <2>3. Clean(slot[s])
    BY <2>2 DEF Clean, Unknown
  <2> QED BY <2>1, <2>3, CleanGood
<1>2. proc["op"] = [At("baseline") EXCEPT !.load = "start"] /\ proc["poll"] = At("idle")
  BY DEF Init, Greens
<1>3. RecordsHeld /\ AtStart
  BY <1>1, <1>2 DEF RecordsHeld, AtStart, At
<1> QED BY <1>1, <1>3 DEF SpoolInv

LEMMA SpoolNext == TypeInv /\ SpoolInv /\ [Next]_vars => SpoolInv'
<1> SUFFICES ASSUME TypeInv, SpoolInv, [Next]_vars PROVE SpoolInv'
  OBVIOUS
<1>1. \A s \in Slots : Step(s)
  BY EveryStep
<1>2. ASSUME NEW s \in Slots
      PROVE  InSlot(s)' \subseteq since'[s] /\ Good(slot'[s], cache'[s], since'[s])
  <2>1. CASE Clean(slot'[s])
    BY <1>1, <2>1, CleanGood DEF Step
  <2>2. CASE Good(slot'[s], cache[s], since[s]) /\ since[s] \subseteq since'[s]
    BY <1>1, <2>2, GoodStays DEF Step
  <2> QED BY <1>1, <2>1, <2>2 DEF Step
<1>3. RecordsHeld'
  <2> SUFFICES ASSUME proc'["op"].at = "records", NEW s \in proc'["op"].mask
               PROVE  Held(cache'[s], since'[s])
    BY DEF RecordsHeld
  <2>1. s \in Slots
    BY TypeInvNext DEF TypeInv, ProcInv, Place, Greens
  <2>2. CASE proc'["op"] = proc["op"]
    <3>1. Held(cache[s], since[s]) /\ s \in Forced
      BY <2>2 DEF SpoolInv, RecordsHeld, Forced
    <3>2. since[s] \subseteq since'[s] /\ (cache'[s] = cache[s] \/ Held(cache'[s], since'[s]))
      BY <1>1, <2>1, <3>1 DEF Step
    <3> QED BY <3>1, <3>2 DEF Held
  <2>3. CASE ForceRead /\ proc'["op"].mask = proc["op"].mask
    <3>1. cache'[s] \in InSlot(s) \cup {"none", "unread"} /\ UNCHANGED since
      BY <2>1, <2>3 DEF ForceRead
    <3>2. InSlot(s) \subseteq since[s]
      BY <2>1 DEF SpoolInv
    <3> QED BY <3>1, <3>2, SpoolsAssumption DEF Held
  <2> QED BY <2>2, <2>3, OpMoves DEF SpoolInv
<1>4. AtStart'
  <2> SUFFICES ASSUME proc'["op"].at = "baseline"
               PROVE  /\ proc'["op"].load = "start" /\ proc'["poll"].at = "idle"
                      /\ \A s \in Slots : Clean(slot'[s])
    BY DEF AtStart
  <2>1. proc' = proc
    BY OpMoves DEF SpoolInv
  <2>2. \A s \in Slots : Clean(slot'[s])
    BY <2>1, StartClean
  <2> QED BY <2>1, <2>2 DEF SpoolInv, AtStart
<1> QED BY <1>2, <1>3, <1>4 DEF SpoolInv

LEMMA SpoolInvariant == Spec => [](TypeInv /\ SpoolInv)
<1>1. Init => TypeInv /\ SpoolInv
  BY TypeInvInit, SpoolInit
<1>2. TypeInv /\ SpoolInv /\ [Next]_vars => (TypeInv /\ SpoolInv)'
  BY TypeInvNext, SpoolNext
<1> QED BY <1>1, <1>2, PTL DEF Spec

\* What is shown to remain on a slot's spool, and a request to Spoolman whose answer
\* would be taken for it, are of a spool that was there since Box last took note of
\* a change (_rfid_inserted, _rfid_removed).
THEOREM SpoolsOfSlot == Spec => []OfSpoolThere
<1>1. SpoolInv => OfSpoolThere
  BY DEF SpoolInv, Good, OfSpoolThere
<1> QED BY <1>1, SpoolInvariant, PTL

\* The profile that a tag or Spoolman gives a slot is of a spool that was there since
\* Box last took note of a change: neither a record the box still holds of the spool
\* before nor a late answer gives it (_rfid_should_apply, complete).
THEOREM ProfilesOfSlot == Spec => ProfileOfSpool
<1>1. TypeInv /\ SpoolInv /\ [Next]_vars =>
        [\A s \in Slots :
           LET q == slot'[s].profile
           IN  q # slot[s].profile /\ q.by \in {"tag", "spoolman"} => q.spool \in since[s]]_vars
  <2> SUFFICES ASSUME TypeInv, SpoolInv, [Next]_vars, NEW s \in Slots
               PROVE  slot'[s].profile # slot[s].profile /\ slot'[s].profile.by \in {"tag", "spoolman"}
                      => slot'[s].profile.spool \in since[s]
    OBVIOUS
  <2>1. Step(s)
    BY EveryStep
  <2> QED BY <2>1 DEF Step, Gives
<1> QED BY <1>1, SpoolInvariant, PTL DEF Spec, ProfileOfSpool
=============================================================================
