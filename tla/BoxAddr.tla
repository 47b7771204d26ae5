------------------------------- MODULE BoxAddr -------------------------------
(***************************************************************************)
(* CFS box enumeration: AutoAddressManager.enumerate (files/box_addr.py),  *)
(* run once per klippy start by Box._enumerate (files/box.py), over boxes  *)
(* that are switched on and off and a bus that may lose replies.           *)
(*                                                                         *)
(* One exchange on the bus is one step, so boxes and restarts interleave   *)
(* with the enumeration as they can with its seconds of timeouts.  The     *)
(* persisted map outlives a restart; the boxes forget their address when   *)
(* they lose power, which is why the host persists it.                     *)
(***************************************************************************)
EXTENDS Integers, FiniteSets

CONSTANTS
  Boxes,         \* UniIDs of the boxes that exist
  NoBox,         \* no box: an absent key, or no reply
  MaxAddresses,  \* MAX_ADDRESSES
  TargetCount    \* target_count, the configured box_count

ASSUME BoxAssumption ==
  /\ NoBox \notin Boxes
  /\ MaxAddresses \in Nat /\ TargetCount \in Nat

Addrs == 1..MaxAddresses
Unaddressed == 0
AddrMap == [Addrs -> Boxes \cup {NoBox}]   \* a dict from address to UniID
EmptyMap == [a \in Addrs |-> NoBox]

VARIABLES
  phase,     \* the exchange enumerate is at; "off": not running, "done": returned
  cursor,    \* loop variable of the query phase
  known,     \* local copy of the persisted map
  online,    \* boxes found at their address
  occupied,  \* addresses a box answered at
  seen,      \* seen_discoveries
  uniid,     \* the box being assigned
  target,    \* the address it is being assigned
  saved,     \* data["addresses"] of the store
  where,     \* each box's address
  power,     \* boxes that are switched on
  lossy,     \* the bus may lose or delay a frame
  late,      \* query answers still on their way: <<address, box>>
  switched   \* history: boxes switched on or off since enumerate began

localVars == <<cursor, known, online, occupied, seen, uniid, target>>
vars == <<phase, cursor, known, online, occupied, seen, uniid, target, saved,
          where, power, lossy, late, switched>>

Init ==
  /\ phase = "off"
  /\ cursor = 1 /\ known = EmptyMap /\ online = EmptyMap /\ occupied = {}
  /\ seen = {} /\ uniid = NoBox /\ target = 1
  /\ saved = EmptyMap
  /\ where = [u \in Boxes |-> Unaddressed]
  /\ power \in SUBSET Boxes
  /\ lossy = FALSE /\ late = {} /\ switched = {}

-----------------------------------------------------------------------------
(* The boxes on the bus.                                                   *)

At(a) == {u \in power : where[u] = a}

\* Replies to a message: of one of the boxes U; of none if there is none or
\* the bus loses it.
Replies(U) == U \cup (IF U = {} \/ lossy THEN {NoBox} ELSE {})

\* Two boxes that answer a query of one address may garble each other;
\* "discovery returns one unaddressed box at a time".
QueryReplies(a) ==
  Replies(At(a)) \cup (IF Cardinality(At(a)) > 1 THEN {NoBox} ELSE {})
DiscoverReplies == Replies(At(Unaddressed))

-----------------------------------------------------------------------------
(* enumerate                                                               *)

\* Faulty variant: a box may keep its old entry.
RememberTwice(m, a, u) == [m EXCEPT ![a] = u]

\* _remember: a box has one address, and an address one box.
Remember(m, a, u) ==
  [b \in Addrs |-> IF b = a THEN u ELSE IF m[b] = u THEN NoBox ELSE m[b]]

OnlineAddrs == {a \in Addrs : online[a] # NoBox}
Wanted == Cardinality(OnlineAddrs) < TargetCount

\* enumerate returns and _enumerate saves what it learned.
Return ==
  /\ phase' = "done"
  /\ saved' = known
  /\ UNCHANGED <<localVars, where, power, late, switched>>

\* Faulty variant: the persisted map is not copied.
KnownInputIgnored == EmptyMap

\* dict(known_ids): the map the store had persisted.
KnownInput == saved

\* klippy starts: a new manager reads the persisted map.
Enumerate ==
  /\ phase = "off"
  /\ phase' = "query"
  /\ cursor' = 1 /\ known' = KnownInput
  /\ online' = EmptyMap /\ occupied' = {} /\ seen' = {}
  /\ late' = {} /\ switched' = {}
  /\ UNCHANGED <<uniid, target, saved, where, power>>

\* Faulty variant: range(1, MAX_ADDRESSES).
LastQueryShort == MaxAddresses - 1

\* Faulty variant: range(1, MAX_ADDRESSES + 2).
LastQueryLong == MaxAddresses + 1

\* The loop that asks each address who is there.
LastQuery == MaxAddresses

Query ==
  /\ phase = "query" /\ cursor <= LastQuery /\ Wanted
  /\ cursor' = cursor + 1
  /\ \E u \in QueryReplies(cursor) :
       IF u = NoBox
       THEN /\ \/ UNCHANGED late
               \/ lossy /\ \E v \in At(cursor) : late' = late \cup {<<cursor, v>>}
            /\ UNCHANGED <<known, online, occupied>>
       ELSE /\ known' = Remember(known, cursor, u)
            /\ online' = [online EXCEPT ![cursor] = u]
            /\ occupied' = occupied \cup {cursor}
            /\ UNCHANGED late
  /\ UNCHANGED <<phase, seen, uniid, target, saved, where, power, switched>>

QueryEnd ==
  /\ phase = "query" /\ (cursor > LastQuery \/ ~Wanted)
  /\ phase' = "discover"
  /\ UNCHANGED <<localVars, saved, where, power, late, switched>>

\* Faulty variant: the addresses in use are not skipped.
FreeAddrsAll == Addrs

\* The address a discovered box is to get: its persisted one if nobody
\* answered there, else any where nobody answered; the
\* smallest of these.
Preferred(u) == {a \in Addrs : known[a] = u /\ a \notin occupied}
FreeAddrs == Addrs \ occupied
Candidates(u) == IF Preferred(u) # {} THEN Preferred(u) ELSE FreeAddrs

Discover ==
  /\ phase = "discover" /\ Wanted
  /\ \E u \in DiscoverReplies :
       IF u = NoBox \/ u \in seen \/ FreeAddrs = {}
       THEN Return
       ELSE /\ phase' = "assign"
            /\ seen' = seen \cup {u}
            /\ uniid' = u
            /\ \E a \in Candidates(u) :
                 (\A b \in Candidates(u) : a <= b) /\ target' = a
            /\ UNCHANGED <<cursor, known, online, occupied, saved, where, power,
                           late, switched>>

DiscoverEnd == phase = "discover" /\ ~Wanted /\ Return

\* Faulty variant: the assignment is believed without an answer.
AssignTrusted ==
  /\ phase = "assign"
  /\ phase' = "discover"
  /\ \/ uniid \in power /\ where' = [where EXCEPT ![uniid] = target]
     \/ (uniid \notin power \/ lossy) /\ UNCHANGED where
  /\ known' = Remember(known, target, uniid)
  /\ online' = [online EXCEPT ![target] = uniid]
  /\ occupied' = occupied \cup {target}
  /\ UNCHANGED <<cursor, seen, uniid, target, saved, power, late, switched>>

\* The box takes the address if the message reaches it.  Without its answer
\* enumerate gives up on the whole discovery.
Assign ==
  /\ phase = "assign"
  /\ \/ /\ uniid \in power
        /\ where' = [where EXCEPT ![uniid] = target]
        /\ \/ phase' = "verify" /\ UNCHANGED saved
           \/ lossy /\ phase' = "done" /\ saved' = known
     \/ /\ uniid \notin power \/ lossy
        /\ phase' = "done" /\ saved' = known
        /\ UNCHANGED where
  /\ UNCHANGED <<localVars, power, late, switched>>

\* A second query must name the same box; an answer to the first query of
\* this address may come now.
Verify ==
  /\ phase = "verify"
  /\ \E u \in QueryReplies(target) \cup {v \in Boxes : <<target, v>> \in late} :
       IF u # uniid
       THEN Return
       ELSE /\ phase' = "discover"
            /\ known' = Remember(known, target, u)
            /\ online' = [online EXCEPT ![target] = u]
            /\ occupied' = occupied \cup {target}
            /\ UNCHANGED <<cursor, seen, uniid, target, saved, where, power, late,
                           switched>>

-----------------------------------------------------------------------------
(* What happens around it.                                                 *)

\* klippy restarts, possibly in the middle of enumerate: nothing is saved.
Restart ==
  /\ phase # "off"
  /\ phase' = "off"
  /\ UNCHANGED <<localVars, saved, where, power, late, switched>>

PowerOff(u) ==
  /\ u \in power
  /\ power' = power \ {u}
  /\ where' = [where EXCEPT ![u] = Unaddressed]
  /\ switched' = switched \cup {u}
  /\ UNCHANGED <<phase, localVars, saved, late>>

PowerOn(u) ==
  /\ u \notin power
  /\ power' = power \cup {u}
  /\ switched' = switched \cup {u}
  /\ UNCHANGED <<phase, localVars, saved, where, late>>

\* From some time on the bus loses and delays frames.
BusDegrades ==
  /\ ~lossy /\ lossy' = TRUE
  /\ UNCHANGED <<phase, localVars, saved, where, power, late, switched>>

Step ==
  \/ Enumerate \/ Query \/ QueryEnd \/ Discover \/ DiscoverEnd \/ Assign
  \/ Verify \/ Restart
  \/ \E u \in Boxes : PowerOff(u) \/ PowerOn(u)

Next == (Step /\ UNCHANGED lossy) \/ BusDegrades

Spec == Init /\ [][Next]_vars

-----------------------------------------------------------------------------
(* Properties.                                                             *)

\* Type invariant.
TypeOK ==
  /\ phase \in {"off", "query", "discover", "assign", "verify", "done"}
  /\ cursor \in 1..(MaxAddresses + 1)
  /\ known \in AddrMap /\ online \in AddrMap /\ saved \in AddrMap
  /\ occupied \subseteq Addrs
  /\ seen \subseteq Boxes
  /\ uniid \in Boxes \cup {NoBox}
  /\ target \in Nat
  /\ phase \in {"assign", "verify"} => uniid \in Boxes /\ target \in Addrs
  /\ where \in [Boxes -> Addrs \cup {Unaddressed}]
  /\ power \subseteq Boxes
  /\ late \subseteq Addrs \X Boxes
  /\ switched \subseteq Boxes

OneAddressEach(m) ==
  \A a, b \in Addrs : m[a] # NoBox /\ m[a] = m[b] => a = b

\* The persisted map never gives a box two addresses, however boxes move,
\* answer late or come back after a restart (_remember): the error "box has
\* multiple persisted addresses" needs a file edited by hand.
SavedOneAddressEach == OneAddressEach(saved)

\* An enumeration, complete or given up half way, never makes the store
\* forget a box unless another box now holds its address (_known_input is
\* the start of known, and errors only end the loop); a box switched meanwhile
\* may take the address and move on.
IdentityKept ==
  [][\A a \in Addrs : saved[a] # NoBox /\ saved'[a] = NoBox =>
       (\E b \in Addrs : saved'[b] = saved[a]) \/ switched # {}]_vars

\* A driver is made for a box only at the address that box has, though
\* assignments and answers get lost and an answer to an old query may arrive
\* while the new one is verified; a box whose power was switched meanwhile
\* excepted.
OnlineTrue ==
  \A a \in Addrs : online[a] # NoBox /\ online[a] \notin switched =>
    where[online[a]] = a

Distinct == \A u, v \in Boxes : where[u] = where[v] /\ u # v => where[u] = Unaddressed

\* As long as the bus loses nothing no two boxes have the same address,
\* whatever the persisted map says and whenever klippy restarts or boxes are
\* switched (occupied, and the query of every address before discovery).
AddressesDistinct == ~lossy => Distinct

\* As long as the bus loses nothing enumerate finds every box that is there the
\* whole time, up to the configured count and the number of addresses: none
\* is missed because its persisted address was taken or a restart cut an
\* earlier enumeration short.
Complete ==
  phase = "done" /\ switched = {} /\ ~lossy =>
    \E n \in {TargetCount, MaxAddresses, Cardinality(power)} :
      /\ Cardinality(OnlineAddrs) = n
      /\ n <= TargetCount /\ n <= MaxAddresses /\ n <= Cardinality(power)
=============================================================================
