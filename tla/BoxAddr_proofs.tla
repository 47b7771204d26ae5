--------------------------- MODULE BoxAddr_proofs ---------------------------
(***************************************************************************)
(* Theorems about the enumeration, for every set of boxes, number of       *)
(* addresses and number of restarts.  None needs the boxes to be finitely  *)
(* many.                                                                   *)
(***************************************************************************)
EXTENDS BoxAddr, FiniteSetTheorems, TLAPS

\* The map after _remember is a map, with one address for each box if the
\* map before had one.
LEMMA RememberType ==
  ASSUME NEW m \in AddrMap, NEW a \in Addrs, NEW u \in Boxes
  PROVE  Remember(m, a, u) \in AddrMap
BY DEF Remember, AddrMap

LEMMA RememberOneAddress ==
  ASSUME NEW m \in AddrMap, NEW a \in Addrs, NEW u \in Boxes, OneAddressEach(m)
  PROVE  OneAddressEach(Remember(m, a, u))
BY BoxAssumption DEF Remember, AddrMap, OneAddressEach

\* What a reply can be.
LEMMA QueryReplyIsBox ==
  ASSUME TypeOK, NEW a, NEW u \in QueryReplies(a), u # NoBox
  PROVE  u \in Boxes /\ u \in power /\ where[u] = a
BY DEF TypeOK, QueryReplies, Replies, At

LEMMA DiscoverReplyIsBox ==
  ASSUME TypeOK, NEW u \in DiscoverReplies, u # NoBox
  PROVE  u \in Boxes /\ u \in power /\ where[u] = Unaddressed
BY DEF TypeOK, DiscoverReplies, Replies, At

-----------------------------------------------------------------------------
\* Every field keeps its type: in particular an address is assigned only
\* from 1..MAX_ADDRESSES, to a box that exists.
THEOREM TypeCorrect == Spec => []TypeOK
<1>1. Init => TypeOK
  BY BoxAssumption DEF Init, TypeOK, AddrMap, EmptyMap, Addrs, Unaddressed
<1>2. TypeOK /\ [Next]_vars => TypeOK'
  <2> SUFFICES ASSUME TypeOK, [Next]_vars PROVE TypeOK'
    OBVIOUS
  <2> USE DEF TypeOK
  <2>1. CASE Enumerate
    BY <2>1, BoxAssumption DEF Enumerate, KnownInput, AddrMap, EmptyMap
  <2>2. CASE Query
    <3>1. PICK u \in QueryReplies(cursor) :
            IF u = NoBox
            THEN /\ \/ UNCHANGED late
                    \/ lossy /\ \E v \in At(cursor) : late' = late \cup {<<cursor, v>>}
                 /\ UNCHANGED <<known, online, occupied>>
            ELSE /\ known' = Remember(known, cursor, u)
                 /\ online' = [online EXCEPT ![cursor] = u]
                 /\ occupied' = occupied \cup {cursor}
                 /\ UNCHANGED late
      BY <2>2 DEF Query
    <3>2. cursor \in Addrs
      BY <2>2, BoxAssumption DEF Query, LastQuery, Addrs
    <3>3. cursor' \in 1..(MaxAddresses + 1)
      BY <2>2, BoxAssumption DEF Query, LastQuery
    <3>4. UNCHANGED <<phase, seen, uniid, target, saved, where, power, switched>>
      BY <2>2 DEF Query
    <3>5. CASE u = NoBox
      <4>1. late' \subseteq Addrs \X Boxes
        BY <3>1, <3>2, <3>5 DEF At
      <4> QED BY <3>1, <3>3, <3>4, <3>5, <4>1
    <3>6. CASE u # NoBox
      <4>1. u \in Boxes
        BY <3>6, QueryReplyIsBox
      <4>2. known' \in AddrMap
        BY <3>1, <3>2, <3>6, <4>1, RememberType
      <4> QED BY <3>1, <3>2, <3>3, <3>4, <3>6, <4>1, <4>2 DEF AddrMap
    <3> QED BY <3>5, <3>6
  <2>3. CASE QueryEnd
    BY <2>3 DEF QueryEnd, localVars
  <2>4. CASE Return
    BY <2>4 DEF Return, localVars
  <2>5. CASE Discover
    <3>1. PICK u \in DiscoverReplies :
            IF u = NoBox \/ u \in seen \/ FreeAddrs = {}
            THEN Return
            ELSE /\ phase' = "assign"
                 /\ seen' = seen \cup {u}
                 /\ uniid' = u
                 /\ \E a \in Candidates(u) :
                      (\A b \in Candidates(u) : a <= b) /\ target' = a
                 /\ UNCHANGED <<cursor, known, online, occupied, saved, where,
                                power, late, switched>>
      BY <2>5 DEF Discover
    <3>2. CASE u = NoBox \/ u \in seen \/ FreeAddrs = {}
      BY <2>4, <3>1, <3>2
    <3>3. CASE ~(u = NoBox \/ u \in seen \/ FreeAddrs = {})
      <4>1. u \in Boxes
        BY <3>3, DiscoverReplyIsBox
      <4>2. target' \in Addrs
        BY <3>1, <3>3 DEF Candidates, Preferred, FreeAddrs
      <4>3. target' \in Nat
        BY <4>2, BoxAssumption DEF Addrs
      <4> QED BY <3>1, <3>3, <4>1, <4>2, <4>3
    <3> QED BY <3>2, <3>3
  <2>6. CASE DiscoverEnd
    BY <2>4, <2>6 DEF DiscoverEnd
  <2>7. CASE Assign
    BY <2>7 DEF Assign, localVars
  <2>8. CASE Verify
    <3>1. PICK u : IF u # uniid
                   THEN Return
                   ELSE /\ phase' = "discover"
                        /\ known' = Remember(known, target, u)
                        /\ online' = [online EXCEPT ![target] = u]
                        /\ occupied' = occupied \cup {target}
                        /\ UNCHANGED <<cursor, seen, uniid, target, saved, where,
                                       power, late, switched>>
      BY <2>8 DEF Verify
    <3>2. uniid \in Boxes /\ target \in Addrs
      BY <2>8 DEF Verify
    <3>3. CASE u # uniid
      BY <2>4, <3>1, <3>3
    <3>4. CASE u = uniid
      <4>1. known' \in AddrMap
        BY <3>1, <3>2, <3>4, RememberType
      <4> QED BY <3>1, <3>2, <3>4, <4>1 DEF AddrMap
    <3> QED BY <3>3, <3>4
  <2>9. CASE Restart
    BY <2>9 DEF Restart, localVars
  <2>10. ASSUME NEW u \in Boxes, PowerOff(u) \/ PowerOn(u) PROVE TypeOK'
    BY <2>10 DEF PowerOff, PowerOn, localVars
  <2>11. CASE BusDegrades \/ UNCHANGED vars
    BY <2>11 DEF BusDegrades, localVars, vars
  <2> QED
    BY <2>1, <2>2, <2>3, <2>5, <2>6, <2>7, <2>8, <2>9, <2>10, <2>11 DEF Next, Step
<1> QED
  BY <1>1, <1>2, PTL DEF Spec

-----------------------------------------------------------------------------
\* The persisted map gives each box one address: the copy enumerate works on
\* does, at every point where it may be saved.
MapsSound == OneAddressEach(known) /\ OneAddressEach(saved)

\* What is saved is the copy, and the copy changes by _remember only.
LEMMA KnownSteps ==
  ASSUME TypeOK, [Next]_vars
  PROVE  /\ saved' \in {saved, known}
         /\ \/ known' \in {known, saved}
            \/ \E a \in Addrs, u \in Boxes : known' = Remember(known, a, u)
<1>1. CASE Query
  <2>1. PICK u \in QueryReplies(cursor) :
          /\ u = NoBox => UNCHANGED known
          /\ u # NoBox => known' = Remember(known, cursor, u)
    BY <1>1 DEF Query
  <2>2. cursor \in Addrs
    BY <1>1, BoxAssumption DEF TypeOK, Query, LastQuery, Addrs
  <2>3. u # NoBox => u \in Boxes
    BY QueryReplyIsBox
  <2>4. UNCHANGED saved
    BY <1>1 DEF Query
  <2> QED BY <2>1, <2>2, <2>3, <2>4
<1>2. CASE Verify
  <2>1. CASE Return
    BY <2>1 DEF Return, localVars
  <2>2. CASE known' = Remember(known, target, uniid) /\ UNCHANGED saved
    BY <1>2, <2>2 DEF TypeOK, Verify
  <2> QED BY <1>2, <2>1, <2>2 DEF Verify
<1>3. CASE Enumerate \/ QueryEnd \/ DiscoverEnd \/ Restart \/ BusDegrades \/ UNCHANGED vars
  BY <1>3 DEF Enumerate, KnownInput, QueryEnd, DiscoverEnd, Return, Restart,
              BusDegrades, localVars, vars
<1>4. CASE Discover \/ Assign
  BY <1>4 DEF Discover, Assign, Return, localVars
<1>5. CASE \E u \in Boxes : PowerOff(u) \/ PowerOn(u)
  BY <1>5 DEF PowerOff, PowerOn, localVars
<1> QED BY <1>1, <1>2, <1>3, <1>4, <1>5 DEF Next, Step

LEMMA MapsStaySound == Spec => []MapsSound
<1>1. Init => MapsSound
  BY DEF Init, MapsSound, OneAddressEach, EmptyMap
<1>2. TypeOK /\ MapsSound /\ [Next]_vars => MapsSound'
  <2> SUFFICES ASSUME TypeOK, MapsSound, [Next]_vars PROVE MapsSound'
    OBVIOUS
  <2>1. OneAddressEach(saved)'
    BY KnownSteps DEF MapsSound, OneAddressEach
  <2>2. CASE known' \in {known, saved}
    BY <2>1, <2>2 DEF MapsSound, OneAddressEach
  <2>3. ASSUME NEW a \in Addrs, NEW u \in Boxes, known' = Remember(known, a, u)
        PROVE  OneAddressEach(known)'
    <3>1. OneAddressEach(Remember(known, a, u))
      BY RememberOneAddress DEF TypeOK, MapsSound
    <3> QED BY <2>3, <3>1 DEF OneAddressEach
  <2> QED BY <2>1, <2>2, <2>3, KnownSteps DEF MapsSound
<1> QED BY <1>1, <1>2, TypeCorrect, PTL DEF Spec

\* The store never holds a box under two addresses.
THEOREM SavedUnique == Spec => []SavedOneAddressEach
<1>1. MapsSound => SavedOneAddressEach
  BY DEF MapsSound, SavedOneAddressEach
<1> QED BY <1>1, MapsStaySound, PTL

-----------------------------------------------------------------------------
\* Why a driver talks to the box it was made for.  A box that nobody switched
\* and that is known at an address, online or by an answer still on its way,
\* has that address, and so is not the unaddressed box being assigned one.
LateTrue ==
  \A a \in Addrs, v \in Boxes :
    <<a, v>> \in late /\ v \notin switched => where[v] = a
AssignFresh ==
  phase = "assign" /\ uniid \notin switched => where[uniid] = Unaddressed
Truthful == OnlineTrue /\ LateTrue /\ AssignFresh

\* Steps that leave the boxes and what is known of them alone.
LEMMA TruthfulKept ==
  ASSUME Truthful, UNCHANGED <<online, where, late, switched>>,
         UNCHANGED <<phase, uniid>> \/ phase' # "assign"
  PROVE  Truthful'
BY DEF Truthful, OnlineTrue, LateTrue, AssignFresh

LEMMA StaysTruthful == Spec => []Truthful
<1>1. Init => Truthful
  BY DEF Init, Truthful, OnlineTrue, LateTrue, AssignFresh, EmptyMap
<1>2. TypeOK /\ Truthful /\ [Next]_vars => Truthful'
  <2> SUFFICES ASSUME TypeOK, Truthful, [Next]_vars PROVE Truthful'
    OBVIOUS
  <2>1. CASE Enumerate
    BY <2>1 DEF Enumerate, Truthful, OnlineTrue, LateTrue, AssignFresh, EmptyMap
  <2>2. CASE Query
    <3>1. PICK u \in QueryReplies(cursor) :
            IF u = NoBox
            THEN /\ \/ UNCHANGED late
                    \/ lossy /\ \E v \in At(cursor) : late' = late \cup {<<cursor, v>>}
                 /\ UNCHANGED <<known, online, occupied>>
            ELSE /\ known' = Remember(known, cursor, u)
                 /\ online' = [online EXCEPT ![cursor] = u]
                 /\ occupied' = occupied \cup {cursor}
                 /\ UNCHANGED late
      BY <2>2 DEF Query
    <3>2. u # NoBox => where[u] = cursor
      BY QueryReplyIsBox
    <3>3. phase' = "query" /\ UNCHANGED <<where, switched>>
      BY <2>2 DEF Query
    <3>4. OnlineTrue'
      BY <3>1, <3>2, <3>3 DEF TypeOK, AddrMap, Truthful, OnlineTrue
    <3>5. LateTrue'
      BY <3>1, <3>3 DEF Truthful, LateTrue, At
    <3> QED BY <3>3, <3>4, <3>5 DEF Truthful, AssignFresh
  <2>3. CASE QueryEnd \/ Return \/ DiscoverEnd \/ Restart
    BY <2>3, TruthfulKept DEF QueryEnd, DiscoverEnd, Return, Restart, localVars
  <2>4. CASE Discover
    <3>1. CASE Return
      BY <2>3, <3>1
    <3>2. PICK u \in DiscoverReplies :
            \/ Return
            \/ /\ u # NoBox /\ uniid' = u
               /\ UNCHANGED <<online, where, late, switched>>
      BY <2>4 DEF Discover
    <3>3. CASE u # NoBox /\ uniid' = u /\ UNCHANGED <<online, where, late, switched>>
      <4>1. where[u] = Unaddressed
        BY <3>3, DiscoverReplyIsBox
      <4> QED
        BY <3>3, <4>1 DEF Truthful, OnlineTrue, LateTrue, AssignFresh
    <3> QED BY <3>1, <3>2, <3>3
  <2>5. CASE Assign
    <3>1. UNCHANGED <<online, late, switched, uniid>> /\ phase' # "assign"
      BY <2>5 DEF Assign, localVars
    <3>2. CASE UNCHANGED where
      BY <3>1, <3>2, TruthfulKept
    <3>3. CASE where' = [where EXCEPT ![uniid] = target]
      <4>1. uniid \in switched \/ where[uniid] = Unaddressed
        BY <2>5 DEF Truthful, AssignFresh, Assign
      <4>2. Unaddressed \notin Addrs
        BY DEF Unaddressed, Addrs
      <4>3. \A a \in Addrs : online[a] # NoBox /\ online[a] \notin switched =>
              online[a] \in Boxes /\ online[a] # uniid
        BY <4>1, <4>2 DEF Truthful, OnlineTrue, TypeOK, AddrMap
      <4>4. OnlineTrue'
        BY <3>1, <3>3, <4>3 DEF Truthful, OnlineTrue, TypeOK
      <4>5. LateTrue'
        BY <3>1, <3>3, <4>1, <4>2 DEF Truthful, LateTrue, TypeOK
      <4> QED BY <3>1, <4>4, <4>5 DEF Truthful, AssignFresh
    <3> QED BY <2>5, <3>2, <3>3 DEF Assign
  <2>6. CASE Verify
    <3>1. CASE Return
      BY <2>3, <3>1
    <3>2. CASE /\ uniid \in QueryReplies(target) \/ <<target, uniid>> \in late
               /\ phase' = "discover"
               /\ online' = [online EXCEPT ![target] = uniid]
               /\ UNCHANGED <<where, late, switched>>
      <4>1. uniid \in Boxes /\ target \in Addrs
        BY <2>6 DEF Verify, TypeOK
      <4>2. uniid \in switched \/ where[uniid] = target
        BY <3>2, <4>1, QueryReplyIsBox, BoxAssumption DEF Truthful, LateTrue
      <4> QED
        BY <3>2, <4>1, <4>2
        DEF Truthful, OnlineTrue, LateTrue, AssignFresh, TypeOK, AddrMap
    <3> QED BY <2>6, <3>1, <3>2 DEF Verify
  <2>7. ASSUME NEW u \in Boxes, PowerOff(u) \/ PowerOn(u) PROVE Truthful'
    BY <2>7
    DEF PowerOff, PowerOn, localVars, Truthful, OnlineTrue, LateTrue,
        AssignFresh, TypeOK, AddrMap
  <2>8. CASE BusDegrades \/ UNCHANGED vars
    BY <2>8, TruthfulKept DEF BusDegrades, localVars, vars
  <2> QED BY <2>1, <2>2, <2>3, <2>4, <2>5, <2>6, <2>7, <2>8 DEF Next, Step
<1> QED BY <1>1, <1>2, TypeCorrect, PTL DEF Spec

\* A driver is made only for a box that has the address it is made for.
THEOREM OnlineTruthful == Spec => []OnlineTrue
<1>1. Truthful => OnlineTrue
  BY DEF Truthful
<1> QED BY <1>1, StaysTruthful, PTL

-----------------------------------------------------------------------------
\* Why addresses stay distinct as long as the bus loses nothing.  The scan leaves
\* no addressed box behind it (Scanned), so when a box is being assigned an
\* address every other addressed box sits at an occupied one, and the
\* address is not occupied.
Addressed == {u \in Boxes : where[u] # Unaddressed}

Scanned ==
  /\ phase = "query" =>
       \A u \in Addressed : where[u] < cursor => where[u] \in occupied
  /\ phase = "discover" /\ Wanted => \A u \in Addressed : where[u] \in occupied
  /\ phase = "assign" =>
       target \notin occupied /\ \A u \in Addressed : where[u] \in occupied
  /\ phase = "verify" =>
       \A u \in Addressed : where[u] \in occupied \cup {target}

Separate == Addressed \subseteq power /\ Distinct /\ Scanned

AsLong == ~lossy => Separate

\* Somebody answers a query if exactly one box is there to do so.
LEMMA LoneBoxAnswers ==
  ASSUME ~lossy, TypeOK, Distinct, NEW a \in Addrs, At(a) # {}
  PROVE  NoBox \notin QueryReplies(a)
<1>1. PICK u \in At(a) : TRUE
  OBVIOUS
<1>2. At(a) = {u}
  BY <1>1 DEF At, Distinct, TypeOK, Addrs, Unaddressed
<1>3. Cardinality(At(a)) = 1
  BY <1>2, FS_Singleton
<1>4. NoBox \notin At(a)
  BY BoxAssumption DEF At, TypeOK
<1> QED BY <1>1, <1>3, <1>4 DEF QueryReplies, Replies

\* Steps that change no address and reach no stage of the enumeration.
LEMMA SeparateKept ==
  ASSUME Separate, UNCHANGED <<where, power>>,
         \/ UNCHANGED <<phase, cursor, online, occupied, target>>
         \/ phase' \in {"off", "done"}
  PROVE  Separate'
BY DEF Separate, Addressed, Distinct, Scanned, Wanted, OnlineAddrs

LEMMA StaySeparate == Spec => []AsLong
<1>1. Init => AsLong
  BY DEF Init, AsLong, Separate, Addressed, Distinct, Scanned
<1>2. TypeOK /\ AsLong /\ [Next]_vars => AsLong'
  <2> SUFFICES ASSUME TypeOK, AsLong, [Next]_vars, ~lossy' PROVE Separate'
    BY DEF AsLong
  <2> ~lossy
    BY DEF Next, BusDegrades, vars
  <2> Separate
    BY DEF AsLong
  <2> USE DEF Separate, Addressed
  <2>1. CASE Enumerate
    BY <2>1 DEF Enumerate, Distinct, Scanned, TypeOK, Addrs
  <2>2. CASE Query
    <3>1. cursor \in Addrs /\ cursor' = cursor + 1
      BY <2>2, BoxAssumption DEF Query, LastQuery, TypeOK, Addrs
    <3>2. At(cursor) # {} => occupied' = occupied \cup {cursor}
      BY <2>2, <3>1, LoneBoxAnswers DEF Query
    <3>3. occupied \subseteq occupied'
      BY <2>2 DEF Query
    <3>4. phase = "query" /\ phase' = "query" /\ UNCHANGED <<where, power>>
      BY <2>2 DEF Query
    <3>5. ASSUME NEW u \in Addressed, where[u] < cursor + 1
          PROVE  where[u] \in occupied'
      <4>1. where[u] \in Addrs
        BY <3>5 DEF TypeOK
      <4>2. CASE where[u] < cursor
        BY <3>3, <3>4, <3>5, <4>2 DEF Scanned
      <4>3. CASE where[u] = cursor
        BY <3>2, <3>5, <4>3 DEF At
      <4> QED BY <3>1, <3>5, <4>1, <4>2, <4>3 DEF Addrs
    <3> QED BY <3>1, <3>4, <3>5 DEF Scanned, Distinct
  <2>3. CASE QueryEnd
    <3>1. phase = "query" /\ phase' = "discover"
      BY <2>3 DEF QueryEnd
    <3>2. UNCHANGED <<where, power, online, occupied>>
      BY <2>3 DEF QueryEnd, localVars
    <3>3. CASE ~Wanted
      <4>1. ~Wanted'
        BY <3>2, <3>3 DEF Wanted, OnlineAddrs
      <4> QED BY <3>1, <3>2, <4>1 DEF Scanned, Distinct
    <3>4. CASE cursor > MaxAddresses
      <4>1. \A u \in Addressed : where[u] < cursor
        BY <3>4, BoxAssumption DEF TypeOK, Addrs
      <4> QED BY <3>1, <3>2, <4>1 DEF Scanned, Distinct
    <3> QED BY <2>3, <3>3, <3>4 DEF QueryEnd, LastQuery
  <2>4. CASE Return
    BY <2>4, SeparateKept DEF Return
  <2>5. CASE Discover
    <3>1. CASE Return
      BY <2>4, <3>1
    <3>2. CASE /\ phase' = "assign"
               /\ FreeAddrs # {}
               /\ \E u : target' \in Candidates(u)
               /\ UNCHANGED <<occupied, where, power>>
      <4>1. target' \notin occupied
        BY <3>2 DEF Candidates, Preferred, FreeAddrs
      <4> QED BY <2>5, <3>2, <4>1 DEF Discover, Scanned, Distinct
    <3> QED BY <2>5, <3>1, <3>2 DEF Discover
  <2>6. CASE DiscoverEnd
    BY <2>4, <2>6 DEF DiscoverEnd
  <2>7. CASE Assign
    <3>1. phase = "assign" /\ uniid \in Boxes /\ target \in Addrs
      BY <2>7 DEF Assign, TypeOK
    <3>2. UNCHANGED <<occupied, target, power>>
      BY <2>7 DEF Assign, localVars
    <3>3. CASE UNCHANGED where /\ phase' = "done"
      BY <3>2, <3>3, SeparateKept
    <3>4. CASE /\ uniid \in power /\ phase' = "verify"
               /\ where' = [where EXCEPT ![uniid] = target]
      <4>1. \A u \in Boxes : where'[u] = IF u = uniid THEN target ELSE where[u]
        BY <3>4 DEF TypeOK
      <4>2. \A u \in Addressed : where[u] \in occupied /\ where[u] # target
        BY <3>1 DEF Scanned
      <4>3. Distinct'
        BY <4>1, <4>2 DEF Distinct
      <4>4. Scanned'
        BY <3>2, <3>4, <4>1, <4>2 DEF Scanned
      <4> QED BY <3>2, <3>4, <4>1, <4>3, <4>4
    <3> QED BY <2>7, <3>3, <3>4 DEF Assign
  <2>8. CASE Verify
    <3>1. CASE Return
      BY <2>4, <3>1
    <3>2. CASE /\ phase' = "discover"
               /\ occupied' = occupied \cup {target}
               /\ UNCHANGED <<where, power>>
      BY <2>8, <3>2 DEF Verify, Scanned, Distinct
    <3> QED BY <2>8, <3>1, <3>2 DEF Verify
  <2>9. CASE Restart
    BY <2>9, SeparateKept DEF Restart
  <2>10. ASSUME NEW u \in Boxes, PowerOff(u) PROVE Separate'
    <3>1. \A v \in Boxes : where'[v] = IF v = u THEN Unaddressed ELSE where[v]
      BY <2>10 DEF PowerOff, TypeOK
    <3>2. UNCHANGED <<phase, cursor, online, occupied, target>>
      BY <2>10 DEF PowerOff, localVars
    <3>3. power' = power \ {u}
      BY <2>10 DEF PowerOff
    <3>4. Wanted' = Wanted
      BY <3>2 DEF Wanted, OnlineAddrs
    <3>5. Distinct'
      BY <3>1 DEF Distinct
    <3>6. Scanned'
      BY <3>1, <3>2, <3>4 DEF Scanned
    <3> QED BY <3>1, <3>3, <3>5, <3>6
  <2>11. ASSUME NEW u \in Boxes, PowerOn(u) PROVE Separate'
    <3>1. UNCHANGED <<phase, cursor, online, occupied, target, where>>
      BY <2>11 DEF PowerOn, localVars
    <3>2. power' = power \cup {u}
      BY <2>11 DEF PowerOn
    <3>3. Wanted' = Wanted
      BY <3>1 DEF Wanted, OnlineAddrs
    <3> QED BY <3>1, <3>2, <3>3 DEF Scanned, Distinct
  <2>12. CASE UNCHANGED vars
    BY <2>12, SeparateKept DEF vars
  <2> QED BY <2>1, <2>2, <2>3, <2>5, <2>6, <2>7, <2>8, <2>9, <2>10, <2>11,
             <2>12 DEF Next, Step, BusDegrades
<1> QED BY <1>1, <1>2, TypeCorrect, PTL DEF Spec

\* No two boxes share an address as long as the bus loses nothing.
THEOREM DistinctAddresses == Spec => []AddressesDistinct
<1>1. AsLong => AddressesDistinct
  BY DEF AsLong, Separate, AddressesDistinct
<1> QED BY <1>1, StaySeparate, PTL

-----------------------------------------------------------------------------
\* Why the store forgets nobody.  While enumerate runs and nobody is switched,
\* its copy of the map differs from the store's only where a box answered
\* (LearnedOnly), and it has lost a box from its place only to give it another
\* (NobodyLost).  An address is learned once, so a box is never overwritten at
\* the place it was just given.
Running == phase \in {"query", "discover", "assign", "verify"}

LearnedOnly ==
  \A a \in Addrs :
    /\ a \in occupied <=> online[a] # NoBox
    /\ known[a] = online[a] \/ (a \notin occupied /\ known[a] \in {saved[a], NoBox})
NobodyLost ==
  \A a \in Addrs : saved[a] # NoBox /\ known[a] = NoBox => \E b \in Addrs : known[b] = saved[a]
LearnedOnce ==
  /\ phase = "query" => \A a \in occupied : a < cursor
  /\ phase \in {"assign", "verify"} => target \notin occupied
  /\ phase = "verify" => where[uniid] = target

Kept == LearnedOnly /\ NobodyLost /\ LearnedOnce
KeptAsLong == Running /\ switched = {} => Kept

\* A box that answers at an address that is not occupied is remembered there.
LEMMA RememberKeeps ==
  ASSUME TypeOK, Truthful, MapsSound, LearnedOnly, NobodyLost, switched = {},
         NEW c \in Addrs, c \notin occupied, NEW u \in Boxes, where[u] = c,
         known' = Remember(known, c, u), online' = [online EXCEPT ![c] = u],
         occupied' = occupied \cup {c}, UNCHANGED saved
  PROVE  LearnedOnly' /\ NobodyLost'
<1> USE BoxAssumption
<1>1. \A a \in Addrs : known'[a] = IF a = c THEN u ELSE IF known[a] = u THEN NoBox ELSE known[a]
  BY DEF Remember
<1>2. \A a \in Addrs : online'[a] = IF a = c THEN u ELSE online[a]
  BY DEF TypeOK, AddrMap
<1>3. \A a \in occupied : a \in Addrs => online[a] # u
  BY DEF Truthful, OnlineTrue, LearnedOnly
<1>4. LearnedOnly'
  BY <1>1, <1>2, <1>3 DEF LearnedOnly
<1>5. NobodyLost'
  <2> SUFFICES ASSUME NEW a \in Addrs, saved[a] # NoBox, known'[a] = NoBox
               PROVE  \E b \in Addrs : known'[b] = saved[a]
    BY DEF NobodyLost
  <2>1. CASE known[a] = u
    <3>1. a \notin occupied
      BY <1>3, <2>1 DEF LearnedOnly
    <3>2. saved[a] = u
      BY <2>1, <3>1 DEF LearnedOnly
    <3> QED BY <1>1, <3>2
  <2>2. CASE known[a] # u
    <3>1. known[a] = NoBox
      BY <1>1, <2>2
    <3>2. PICK b \in Addrs : known[b] = saved[a]
      BY <3>1 DEF NobodyLost
    <3>3. b # c
      <4>1. b # a
        BY <3>1, <3>2
      <4>2. b \notin occupied => known[b] = saved[b]
        BY <3>2 DEF LearnedOnly
      <4>3. saved[b] # saved[a]
        BY <4>1 DEF MapsSound, OneAddressEach
      <4> QED BY <3>2, <4>2, <4>3
    <3> QED BY <1>1, <3>2, <3>3
  <2> QED BY <2>1, <2>2
<1> QED BY <1>4, <1>5

\* Steps that learn nothing.
LEMMA KeptStays ==
  ASSUME Kept, UNCHANGED <<known, online, occupied, saved>>, LearnedOnce'
  PROVE  Kept'
BY DEF Kept, LearnedOnly, NobodyLost

LEMMA KeptNext ==
  TypeOK /\ Truthful /\ MapsSound /\ KeptAsLong /\ [Next]_vars => KeptAsLong'
<1> SUFFICES ASSUME TypeOK, Truthful, MapsSound, KeptAsLong, [Next]_vars, Running', switched' = {}
             PROVE  Kept'
  BY DEF KeptAsLong
<1>1. CASE Enumerate
  <2>1. \A a \in Addrs : online'[a] = NoBox /\ known'[a] = saved'[a]
    BY <1>1 DEF Enumerate, KnownInput, EmptyMap
  <2>2. occupied' = {} /\ phase' = "query"
    BY <1>1 DEF Enumerate
  <2> QED BY <2>1, <2>2 DEF Kept, LearnedOnly, NobodyLost, LearnedOnce
<1>2. CASE Query
  <2>1. /\ phase = "query" /\ phase' = "query" /\ cursor \in Addrs /\ cursor' = cursor + 1
        /\ UNCHANGED <<saved, where, switched>>
    BY <1>2, BoxAssumption DEF TypeOK, Query, LastQuery, Addrs
  <2>2. Kept /\ switched = {}
    BY <2>1 DEF KeptAsLong, Running
  <2>3. PICK u \in QueryReplies(cursor) :
          /\ u = NoBox => UNCHANGED <<known, online, occupied>>
          /\ u # NoBox => /\ known' = Remember(known, cursor, u)
                          /\ online' = [online EXCEPT ![cursor] = u]
                          /\ occupied' = occupied \cup {cursor}
    BY <1>2 DEF Query
  <2>4. LearnedOnce'
    <3>1. \A a \in occupied : a \in Int /\ a < cursor
      BY <2>1, <2>2 DEF Kept, LearnedOnce, TypeOK, Addrs
    <3>2. occupied' \subseteq occupied \cup {cursor} /\ cursor \in Int
      BY <2>1, <2>3 DEF Addrs
    <3> QED BY <2>1, <3>1, <3>2 DEF LearnedOnce
  <2>5. CASE u = NoBox
    BY <2>1, <2>2, <2>3, <2>4, <2>5, KeptStays
  <2>6. CASE u # NoBox
    <3>1. u \in Boxes /\ where[u] = cursor
      BY <2>6, QueryReplyIsBox
    <3>2. cursor \notin occupied
      BY <2>1, <2>2 DEF Kept, LearnedOnce, Addrs
    <3>3. LearnedOnly' /\ NobodyLost'
      BY <2>1, <2>2, <2>3, <2>6, <3>1, <3>2, RememberKeeps DEF Kept
    <3> QED BY <2>4, <3>3 DEF Kept
  <2> QED BY <2>5, <2>6
<1>3. CASE QueryEnd
  <2>1. Kept
    BY <1>3 DEF QueryEnd, KeptAsLong, Running
  <2>2. LearnedOnce'
    BY <1>3 DEF QueryEnd, LearnedOnce
  <2> QED BY <1>3, <2>1, <2>2, KeptStays DEF QueryEnd, localVars
<1>4. CASE Return \/ DiscoverEnd \/ Restart
  BY <1>4 DEF Return, DiscoverEnd, Restart, Running
<1>5. CASE Discover
  <2>1. CASE Return
    BY <1>4, <2>1
  <2>2. CASE ~Return
    <3>1. /\ phase' = "assign" /\ \E u : target' \in Candidates(u)
          /\ UNCHANGED <<known, online, occupied, saved, switched>>
      BY <1>5, <2>2 DEF Discover
    <3>2. Kept
      BY <1>5, <3>1 DEF Discover, KeptAsLong, Running
    <3>3. LearnedOnce'
      BY <3>1 DEF LearnedOnce, Candidates, Preferred, FreeAddrs
    <3> QED BY <3>1, <3>2, <3>3, KeptStays
  <2> QED BY <2>1, <2>2
<1>6. CASE Assign
  <2>1. /\ phase = "assign" /\ phase' \in {"verify", "done"}
        /\ UNCHANGED <<known, online, occupied, target, uniid, switched>>
    BY <1>6 DEF Assign, localVars
  <2>2. phase' = "verify"
    BY <2>1 DEF Running
  <2>3. UNCHANGED saved /\ where' = [where EXCEPT ![uniid] = target]
    BY <1>6, <2>2 DEF Assign
  <2>4. Kept /\ uniid \in Boxes
    BY <2>1 DEF KeptAsLong, Running, TypeOK
  <2>5. LearnedOnce'
    BY <2>1, <2>2, <2>3, <2>4 DEF Kept, LearnedOnce, TypeOK
  <2> QED BY <2>1, <2>3, <2>4, <2>5, KeptStays
<1>7. CASE Verify
  <2>1. CASE Return
    BY <1>4, <2>1
  <2>2. CASE ~Return
    <3>1. /\ phase = "verify" /\ phase' = "discover" /\ known' = Remember(known, target, uniid)
          /\ online' = [online EXCEPT ![target] = uniid] /\ occupied' = occupied \cup {target}
          /\ UNCHANGED <<saved, where, switched>>
      BY <1>7, <2>2 DEF Verify
    <3>2. Kept /\ switched = {} /\ uniid \in Boxes /\ target \in Addrs
      BY <3>1 DEF KeptAsLong, Running, TypeOK
    <3>3. LearnedOnly' /\ NobodyLost'
      BY <3>1, <3>2, RememberKeeps DEF Kept, LearnedOnce
    <3>4. LearnedOnce'
      BY <3>1 DEF LearnedOnce
    <3> QED BY <3>3, <3>4 DEF Kept
  <2> QED BY <2>1, <2>2
<1>8. CASE \E u \in Boxes : PowerOff(u) \/ PowerOn(u)
  BY <1>8 DEF PowerOff, PowerOn
<1>9. CASE BusDegrades \/ UNCHANGED vars
  <2>1. UNCHANGED <<phase, cursor, known, online, occupied, uniid, target, saved, where, switched>>
    BY <1>9 DEF BusDegrades, localVars, vars
  <2>2. Kept
    BY <2>1 DEF KeptAsLong, Running
  <2>3. LearnedOnce'
    BY <2>1, <2>2 DEF Kept, LearnedOnce
  <2> QED BY <2>1, <2>2, <2>3, KeptStays
<1> QED BY <1>1, <1>2, <1>3, <1>4, <1>5, <1>6, <1>7, <1>8, <1>9 DEF Next, Step

\* What an enumeration saves, however it ends.
LEMMA ReturnKeeps ==
  ASSUME TypeOK, KeptAsLong, [Next]_vars
  PROVE  \A a \in Addrs : saved[a] # NoBox /\ saved'[a] = NoBox =>
           (\E b \in Addrs : saved'[b] = saved[a]) \/ switched # {}
<1>1. UNCHANGED saved \/ (saved' = known /\ Running)
  BY DEF Next, Step, Enumerate, Query, QueryEnd, Discover, DiscoverEnd, Assign, Verify, Return,
         Restart, PowerOff, PowerOn, BusDegrades, vars, Running
<1> QED BY <1>1 DEF KeptAsLong, Kept, NobodyLost

\* An enumeration makes the store forget no box, whatever the bus loses and
\* wherever a restart cuts it short.
THEOREM NobodyForgotten == Spec => IdentityKept
<1>1. Init => KeptAsLong
  BY DEF Init, KeptAsLong, Running
<1>2. Spec => []KeptAsLong
  BY <1>1, KeptNext, TypeCorrect, StaysTruthful, MapsStaySound, PTL DEF Spec
<1> QED BY <1>2, ReturnKeeps, TypeCorrect, PTL DEF Spec, IdentityKept

-----------------------------------------------------------------------------
\* Why no box is missed.  As long as the bus loses nothing and nobody is
\* switched, every box that is known to be online is there, at its own address,
\* and their number never passes target_count (Counted); a box that was
\* discovered before has an address, so discovery cannot return it again, and
\* the box being assigned is there to answer (Progress).  Enumerate then ends
\* only because it has enough boxes, no address is free or nobody is left.
Counted ==
  /\ \A a \in Addrs : a \in occupied <=> online[a] # NoBox
  /\ Cardinality(OnlineAddrs) <= TargetCount
Progress ==
  /\ late = {}
  /\ \A u \in seen : u \in Addressed \/ (phase = "assign" /\ u = uniid)
  /\ phase \in {"assign", "verify"} => Wanted /\ uniid \in power /\ target \notin occupied
  /\ phase = "verify" => where[uniid] = target
  /\ phase = "query" => \A a \in occupied : a < cursor

Sound == ~lossy /\ switched = {} /\ Running => Counted /\ Progress
NothingLate == ~lossy => late = {}
CompleteInv == Sound /\ NothingLate /\ Complete

\* Each address that is online is of another box, and of one that is there.
LEMMA OnlineCount ==
  ASSUME TypeOK, IsFiniteSet(Boxes), OnlineTrue, switched = {}, Addressed \subseteq power
  PROVE  /\ IsFiniteSet(OnlineAddrs) /\ Cardinality(OnlineAddrs) \in Nat
         /\ IsFiniteSet(power) /\ Cardinality(power) \in Nat
         /\ Cardinality(OnlineAddrs) <= Cardinality(power)
         /\ Cardinality(OnlineAddrs) <= MaxAddresses
         /\ OnlineAddrs = Addrs => Cardinality(OnlineAddrs) = MaxAddresses
         /\ (\A u \in power : \E a \in OnlineAddrs : online[a] = u) =>
              Cardinality(OnlineAddrs) = Cardinality(power)
<1> DEFINE f == [a \in OnlineAddrs |-> online[a]]
<1>1. IsFiniteSet(Addrs) /\ Cardinality(Addrs) = MaxAddresses
  BY BoxAssumption, FS_Interval DEF Addrs
<1>2. OnlineAddrs \in SUBSET Addrs
  BY DEF OnlineAddrs
<1>3. /\ IsFiniteSet(OnlineAddrs) /\ Cardinality(OnlineAddrs) \in Nat
      /\ Cardinality(OnlineAddrs) <= MaxAddresses
  BY <1>1, <1>2, FS_Subset, FS_CardinalityType
<1>4. IsFiniteSet(power) /\ Cardinality(power) \in Nat
  BY FS_Subset, FS_CardinalityType DEF TypeOK
<1>5. \A a \in OnlineAddrs : online[a] \in power /\ where[online[a]] = a
  BY DEF OnlineAddrs, OnlineTrue, TypeOK, AddrMap, Addressed, Addrs, Unaddressed
<1>6. f \in Injection(OnlineAddrs, power)
  BY <1>5 DEF Injection, IsInjective
<1>7. Cardinality(OnlineAddrs) <= Cardinality(power)
      /\ (Cardinality(OnlineAddrs) = Cardinality(power) <=> f \in Surjection(OnlineAddrs, power))
  BY <1>4, <1>6, FS_Injection
<1>8. ASSUME \A u \in power : \E a \in OnlineAddrs : online[a] = u
      PROVE  f \in Surjection(OnlineAddrs, power)
  BY <1>5, <1>8 DEF Surjection
<1> HIDE DEF f
<1> QED BY <1>1, <1>3, <1>4, <1>7, <1>8

\* One more box is found, and one more was wanted.
LEMMA OneMore ==
  ASSUME TypeOK, Counted, Wanted, IsFiniteSet(OnlineAddrs), Cardinality(OnlineAddrs) \in Nat,
         NEW c \in Addrs, c \notin occupied, NEW u \in Boxes,
         online' = [online EXCEPT ![c] = u], occupied' = occupied \cup {c}
  PROVE  Counted'
<1>1. \A a \in Addrs : online'[a] = IF a = c THEN u ELSE online[a]
  BY DEF TypeOK, AddrMap
<1>2. OnlineAddrs' = OnlineAddrs \cup {c}
  BY <1>1, BoxAssumption DEF OnlineAddrs
<1>3. Cardinality(OnlineAddrs \cup {c}) = Cardinality(OnlineAddrs) + 1
  <2>1. c \notin OnlineAddrs
    BY DEF OnlineAddrs, Counted
  <2> QED BY <2>1, FS_AddElement
<1>4. Cardinality(OnlineAddrs') <= TargetCount
  <2> DEFINE n == Cardinality(OnlineAddrs)
  <2>1. n \in Nat /\ n < TargetCount /\ Cardinality(OnlineAddrs') = n + 1
    BY <1>2, <1>3 DEF Wanted
  <2> HIDE DEF n
  <2> QED BY <2>1, BoxAssumption
<1>5. \A a \in Addrs : a \in occupied' <=> online'[a] # NoBox
  BY <1>1, BoxAssumption DEF Counted
<1> QED BY <1>4, <1>5 DEF Counted

LEMMA CountedStays ==
  ASSUME Counted, UNCHANGED <<online, occupied>>
  PROVE  Counted' /\ (Wanted' <=> Wanted)
BY DEF Counted, Wanted, OnlineAddrs

\* Enumerate gives up discovery only when it may.
LEMMA DiscoveryEnds ==
  ASSUME TypeOK, IsFiniteSet(Boxes), OnlineTrue, Separate, Counted, Progress, ~lossy, switched = {},
         phase = "discover", Wanted, NEW u \in DiscoverReplies, u = NoBox \/ u \in seen \/ FreeAddrs = {}
  PROVE  \/ Cardinality(OnlineAddrs) = MaxAddresses
         \/ Cardinality(OnlineAddrs) = Cardinality(power)
<1>1. Addressed \subseteq power
  BY DEF Separate
<1>2. CASE FreeAddrs = {}
  <2>1. OnlineAddrs = Addrs
    BY <1>2 DEF FreeAddrs, OnlineAddrs, Counted
  <2> QED BY <1>1, <2>1, OnlineCount
<1>3. CASE u = NoBox
  <2>1. At(Unaddressed) = {}
    BY <1>3, BoxAssumption DEF DiscoverReplies, Replies, At, TypeOK
  <2>2. ASSUME NEW v \in power PROVE \E a \in OnlineAddrs : online[a] = v
    <3>1. v \in Addressed /\ where[v] \in Addrs
      BY <2>1 DEF At, Addressed, TypeOK
    <3>2. where[v] \in occupied
      BY <3>1 DEF Separate, Scanned
    <3>3. where[v] \in OnlineAddrs /\ online[where[v]] \in Boxes
      BY <3>1, <3>2 DEF Counted, OnlineAddrs, TypeOK, AddrMap
    <3>4. where[online[where[v]]] = where[v]
      BY <3>1, <3>3 DEF OnlineTrue, OnlineAddrs
    <3>5. online[where[v]] = v
      BY <3>1, <3>3, <3>4 DEF Separate, Distinct, Addressed
    <3> QED BY <3>3, <3>5
  <2> QED BY <1>1, <2>2, OnlineCount
<1>4. CASE u \in seen /\ u # NoBox
  <2>1. where[u] = Unaddressed
    BY <1>4, DiscoverReplyIsBox
  <2> QED BY <1>4, <2>1 DEF Progress, Addressed
<1> QED BY <1>2, <1>3, <1>4

\* What is complete stays so while nothing changes.
LEMMA CompleteIs ==
  ASSUME TypeOK, IsFiniteSet(Boxes), OnlineTrue, Separate, switched = {},
         Cardinality(OnlineAddrs) <= TargetCount,
         \/ Cardinality(OnlineAddrs) = TargetCount
         \/ Cardinality(OnlineAddrs) = MaxAddresses
         \/ Cardinality(OnlineAddrs) = Cardinality(power),
         UNCHANGED <<online, power>>
  PROVE  Complete'
<1>1. Addressed \subseteq power
  BY DEF Separate
<1>2. /\ Cardinality(OnlineAddrs) <= Cardinality(power)
      /\ Cardinality(OnlineAddrs) <= MaxAddresses
  BY <1>1, OnlineCount
<1>3. \E n \in {TargetCount, MaxAddresses, Cardinality(power)} :
        /\ Cardinality(OnlineAddrs) = n
        /\ n <= TargetCount /\ n <= MaxAddresses /\ n <= Cardinality(power)
  BY <1>2
<1>4. OnlineAddrs' = OnlineAddrs
  BY DEF OnlineAddrs
<1> QED BY <1>3, <1>4 DEF Complete

LEMMA CompleteNext ==
  ASSUME IsFiniteSet(Boxes), TypeOK, Truthful, AsLong, CompleteInv, [Next]_vars
  PROVE  CompleteInv'
<1>1. NothingLate'
  <2>1. \/ UNCHANGED late \/ late' = {} \/ lossy
    BY DEF Next, Step, Enumerate, Query, QueryEnd, Discover, DiscoverEnd, Assign, Verify, Return,
           Restart, PowerOff, PowerOn, BusDegrades, vars
  <2>2. lossy => lossy'
    BY DEF Next, BusDegrades, vars
  <2> QED BY <2>1, <2>2 DEF CompleteInv, NothingLate
<1> SUFFICES ASSUME ~lossy', switched' = {}
             PROVE  (Running' => Counted' /\ Progress') /\ Complete'
  BY <1>1 DEF CompleteInv, Sound, Complete
<1>2. ~lossy /\ Separate /\ OnlineTrue
  BY DEF Next, BusDegrades, vars, AsLong, Truthful
<1>3. ASSUME Running, UNCHANGED switched
      PROVE  /\ switched = {} /\ Counted /\ Progress
             /\ IsFiniteSet(OnlineAddrs) /\ Cardinality(OnlineAddrs) \in Nat
  <2>1. switched = {}
    BY <1>3
  <2>2. Addressed \subseteq power
    BY <1>2 DEF Separate
  <2> QED BY <1>2, <1>3, <2>1, <2>2, OnlineCount DEF CompleteInv, Sound
<1>4. CASE Enumerate
  <2>1. /\ \A a \in Addrs : online'[a] = NoBox
        /\ occupied' = {} /\ late' = {} /\ seen' = {} /\ phase' = "query"
    BY <1>4 DEF Enumerate, EmptyMap
  <2>2. OnlineAddrs' = {}
    BY <2>1 DEF OnlineAddrs
  <2>3. Cardinality(OnlineAddrs') <= TargetCount
    BY <2>2, FS_EmptySet, BoxAssumption
  <2> QED BY <2>1, <2>3 DEF Counted, Progress, Complete
<1>5. CASE Query
  <2>1. /\ phase = "query" /\ phase' = "query" /\ cursor \in Addrs /\ cursor' = cursor + 1 /\ Wanted
        /\ UNCHANGED <<where, seen, switched>>
    BY <1>5, BoxAssumption DEF TypeOK, Query, LastQuery, Addrs
  <2>2. /\ switched = {} /\ Counted /\ Progress
        /\ IsFiniteSet(OnlineAddrs) /\ Cardinality(OnlineAddrs) \in Nat
    BY <1>3, <2>1 DEF Running
  <2>3. PICK u \in QueryReplies(cursor) :
          /\ u = NoBox => UNCHANGED <<online, occupied>>
          /\ u # NoBox => /\ online' = [online EXCEPT ![cursor] = u]
                          /\ occupied' = occupied \cup {cursor}
    BY <1>5 DEF Query
  <2>4. \A a \in occupied' : a < cursor'
    <3>1. \A a \in occupied : a \in Int /\ a < cursor
      BY <2>1, <2>2 DEF Progress, TypeOK, Addrs
    <3>2. occupied' \subseteq occupied \cup {cursor} /\ cursor \in Int
      BY <2>1, <2>3 DEF Addrs
    <3> QED BY <2>1, <3>1, <3>2
  <2>5. Progress'
    BY <1>1, <2>1, <2>2, <2>4 DEF Progress, NothingLate, Addressed
  <2>6. Counted'
    <3>1. CASE u = NoBox
      BY <2>2, <2>3, <3>1, CountedStays
    <3>2. CASE u # NoBox
      <4>1. u \in Boxes
        BY <3>2, QueryReplyIsBox
      <4>2. cursor \notin occupied
        BY <2>1, <2>2 DEF Progress, Addrs
      <4> QED BY <2>1, <2>2, <2>3, <3>2, <4>1, <4>2, OneMore
    <3> QED BY <3>1, <3>2
  <2> QED BY <2>1, <2>5, <2>6 DEF Complete
<1>6. CASE QueryEnd
  <2>1. /\ phase = "query" /\ phase' = "discover"
        /\ UNCHANGED <<online, occupied, seen, late, where, switched>>
    BY <1>6 DEF QueryEnd, localVars
  <2>2. Counted /\ Progress
    BY <1>3, <2>1 DEF Running
  <2>3. Counted'
    BY <2>1, <2>2, CountedStays
  <2>4. Progress'
    BY <2>1, <2>2 DEF Progress, Addressed
  <2> QED BY <2>1, <2>3, <2>4 DEF Complete
<1>7. CASE DiscoverEnd
  <2>1. /\ phase = "discover" /\ phase' = "done" /\ ~Wanted /\ UNCHANGED <<online, power, switched>>
    BY <1>7 DEF DiscoverEnd, Return, localVars
  <2>2. /\ switched = {} /\ Counted /\ Cardinality(OnlineAddrs) \in Nat
    BY <1>3, <2>1 DEF Running
  <2>3. Cardinality(OnlineAddrs) <= TargetCount /\ ~(Cardinality(OnlineAddrs) < TargetCount)
    BY <2>1, <2>2 DEF Counted, Wanted
  <2>4. Cardinality(OnlineAddrs) = TargetCount
    BY <2>2, <2>3, BoxAssumption
  <2>5. Complete'
    BY <1>2, <2>1, <2>2, <2>3, <2>4, CompleteIs
  <2> QED BY <2>1, <2>5 DEF Running
<1>8. CASE Discover
  <2>1. /\ phase = "discover" /\ Wanted /\ UNCHANGED <<switched, online, occupied, where, power, late>>
    BY <1>8 DEF Discover, Return, localVars
  <2>2. switched = {} /\ Counted /\ Progress
    BY <1>3, <2>1 DEF Running
  <2>3. PICK u \in DiscoverReplies :
          IF u = NoBox \/ u \in seen \/ FreeAddrs = {}
          THEN Return
          ELSE /\ phase' = "assign" /\ seen' = seen \cup {u} /\ uniid' = u /\ target' \in Candidates(u)
    BY <1>8 DEF Discover
  <2>4. CASE u = NoBox \/ u \in seen \/ FreeAddrs = {}
    <3>1. phase' = "done"
      BY <2>3, <2>4 DEF Return
    <3>2. \/ Cardinality(OnlineAddrs) = MaxAddresses
          \/ Cardinality(OnlineAddrs) = Cardinality(power)
      BY <1>2, <2>1, <2>2, <2>4, DiscoveryEnds
    <3>3. Complete'
      BY <1>2, <2>1, <2>2, <3>2, CompleteIs DEF Counted
    <3> QED BY <3>1, <3>3 DEF Running
  <2>5. CASE ~(u = NoBox \/ u \in seen \/ FreeAddrs = {})
    <3>1. u \in power
      BY <2>5, DiscoverReplyIsBox
    <3>2. Counted' /\ Wanted'
      BY <2>1, <2>2, CountedStays
    <3>3. target' \notin occupied'
      BY <2>1, <2>3, <2>5 DEF Candidates, Preferred, FreeAddrs
    <3>4. Progress'
      BY <2>1, <2>2, <2>3, <2>5, <3>1, <3>2, <3>3 DEF Progress, Addressed
    <3> QED BY <2>3, <2>5, <3>2, <3>4 DEF Complete
  <2> QED BY <2>4, <2>5
<1>9. CASE Assign
  <2>1. /\ phase = "assign" /\ UNCHANGED <<switched, online, occupied, seen, target, uniid, late, power>>
        /\ uniid \in Boxes /\ target \in Addrs
    BY <1>9 DEF Assign, localVars, TypeOK
  <2>2. switched = {} /\ Counted /\ Progress
    BY <1>3, <2>1 DEF Running
  <2>3. uniid \in power /\ target \notin occupied /\ Wanted
    BY <2>1, <2>2 DEF Progress
  <2>4. phase' = "verify" /\ where' = [where EXCEPT ![uniid] = target]
    BY <1>2, <1>9, <2>3 DEF Assign
  <2>5. Counted' /\ Wanted'
    BY <2>1, <2>2, <2>3, CountedStays
  <2>6. \A v \in Boxes : where'[v] = IF v = uniid THEN target ELSE where[v]
    BY <2>4 DEF TypeOK
  <2>7. \A v \in seen : v \in Addressed'
    BY <2>1, <2>2, <2>6 DEF Progress, Addressed, Addrs, Unaddressed, TypeOK
  <2>8. Progress'
    BY <2>1, <2>2, <2>3, <2>4, <2>5, <2>6, <2>7 DEF Progress
  <2> QED BY <2>4, <2>5, <2>8 DEF Complete
<1>10. CASE Verify
  <2>1. phase = "verify" /\ uniid \in Boxes /\ target \in Addrs /\ UNCHANGED switched
    BY <1>10 DEF Verify, TypeOK, Return
  <2>2. /\ switched = {} /\ Counted /\ Progress
        /\ IsFiniteSet(OnlineAddrs) /\ Cardinality(OnlineAddrs) \in Nat
    BY <1>3, <2>1 DEF Running
  <2>3. uniid \in power /\ where[uniid] = target /\ target \notin occupied /\ Wanted /\ late = {}
    BY <2>1, <2>2 DEF Progress
  <2>4. \A u \in QueryReplies(target) : u = uniid
    <3>1. At(target) # {}
      BY <2>3 DEF At
    <3>2. NoBox \notin QueryReplies(target)
      BY <1>2, <2>1, <3>1, LoneBoxAnswers DEF Separate
    <3>3. \A u \in QueryReplies(target) : u \in Boxes /\ where[u] = target
      BY <3>2, QueryReplyIsBox
    <3> QED BY <1>2, <2>1, <2>3, <3>3 DEF Separate, Distinct, Addrs, Unaddressed
  <2>5. /\ phase' = "discover" /\ online' = [online EXCEPT ![target] = uniid]
        /\ occupied' = occupied \cup {target} /\ UNCHANGED <<seen, where, late>>
    BY <1>10, <2>3, <2>4 DEF Verify
  <2>6. Counted'
    BY <2>1, <2>2, <2>3, <2>5, OneMore
  <2>7. Progress'
    BY <2>1, <2>2, <2>5 DEF Progress, Addressed
  <2> QED BY <2>5, <2>6, <2>7 DEF Complete
<1>11. CASE Restart
  BY <1>11 DEF Restart, Running, Complete
<1>12. CASE UNCHANGED vars
  <2>1. UNCHANGED <<phase, cursor, online, occupied, seen, uniid, target, where, power, late, switched>>
    BY <1>12 DEF vars
  <2>2. OnlineAddrs' = OnlineAddrs
    BY <2>1 DEF OnlineAddrs
  <2>3. Complete'
    BY <1>2, <2>1, <2>2 DEF CompleteInv, Complete
  <2>4. ASSUME Running' PROVE Counted' /\ Progress'
    <3>1. Counted /\ Progress
      BY <1>3, <2>1, <2>4 DEF Running
    <3>2. Counted' /\ (Wanted' <=> Wanted)
      BY <2>1, <3>1, CountedStays
    <3> QED BY <2>1, <3>1, <3>2 DEF Progress, Addressed
  <2> QED BY <2>3, <2>4
<1>13. CASE \E u \in Boxes : PowerOff(u) \/ PowerOn(u)
  BY <1>13 DEF PowerOff, PowerOn
<1> QED BY <1>2, <1>4, <1>5, <1>6, <1>7, <1>8, <1>9, <1>10, <1>11, <1>12, <1>13 DEF Next, Step, BusDegrades

\* As long as the bus loses nothing, enumerate finds every box that is there
\* the whole time, up to the configured count and the number of addresses,
\* whatever the store held and however often klippy was restarted before.
THEOREM FindsEveryBox == ASSUME IsFiniteSet(Boxes) PROVE Spec => []Complete
<1>1. Init => CompleteInv
  BY DEF Init, CompleteInv, Sound, NothingLate, Complete, Running
<1>2. TypeOK /\ Truthful /\ AsLong /\ CompleteInv /\ [Next]_vars => CompleteInv'
  BY CompleteNext
<1>3. CompleteInv => Complete
  BY DEF CompleteInv
<1> QED BY <1>1, <1>2, <1>3, TypeCorrect, StaysTruthful, StaySeparate, PTL DEF Spec
=============================================================================
