---------------------------- MODULE BoxPath_proofs ----------------------------
(***************************************************************************)
(* Theorems about the filament path: for every number of boxes and slots,  *)
(* whatever is lost, and in every order of the poll and the operations.    *)
(***************************************************************************)
EXTENDS BoxPath, FiniteSetTheorems, WellFoundedInduction, TLAPS

Readers  == {"poll", "op"}
BoxType  == [state : {"idle", "print", "error"}, status : {"ok", "runout"} \cup Statuses]
ReadType == [at : {"no", "boxes", "tail", "raised"}, left : SUBSET Boxes,
             got : [Boxes -> Replies \cup {None}], seen : BOOLEAN,
             loaded : Slots \cup {External, None}, ahead : BOOLEAN]
OpType   == [name : {"none", "load", "unload", "cut", "buffer", "check", "recover", "track"},
             at : {"idle", "read", "ahead", "off", "stage0", "stage4", "stage5", "stop", "stage6",
                   "stage7", "on", "wait", "retract", "path"},
             slot : Slots \cup {None}, retried : BOOLEAN, abort : BOOLEAN]
EpisodeType == [status : {"runout", "fatal"} \cup Statuses,
                kind : {"runout", "advisory", "fatal"}, current : BOOLEAN]
RunoutType  == [active : BOOLEAN, slot : Slots \cup {None}]

TypeWorld ==
  /\ box \in [Boxes -> BoxType] /\ path \in [Boxes -> Slots \cup {None}]
  /\ head \in Slots \cup {External, None}
TypeTrack ==
  /\ owner \in Slots \cup {None} /\ pathOwner \in Slots \cup {None} /\ runout \in RunoutType
  /\ episodes \in [Boxes -> EpisodeType \cup {None}]
TypeRest == read \in [Readers -> ReadType] /\ op \in OpType
TypeInv ==
  /\ TypeWorld /\ TypeTrack /\ TypeRest
  /\ turn \in {"any", "poll"} /\ lost \in Nat

\* The steps that each operation goes through.
OpInv ==
  /\ (op.name = "none") <=> (op.at = "idle")
  /\ op.at \notin {"idle", "read", "ahead"} => op.slot \in Slots
  /\ op.name = "load" => op.slot \in Slots
  /\ op.at = "read" => op.name \in {"load", "unload", "buffer"}
  /\ op.at = "ahead" => op.name \in {"cut", "check"}
  /\ op.at = "off" => op.name \in {"load", "recover", "unload", "cut", "buffer"}
  /\ op.at \in {"stage0", "stage4", "stage5", "stop", "stage7"} => op.name = "load"
  /\ op.at = "stage6" => op.name \in {"load", "recover"}
  /\ op.at = "on" => op.name \in {"load", "recover", "track"}
  /\ op.at = "wait" => op.name \in {"load", "recover", "unload"}
  /\ op.at = "retract" => op.name \in {"unload", "cut", "buffer"}
  /\ op.at = "path" => op.name = "unload"
  /\ read["op"].at # "no" => op.at \in {"read", "ahead", "wait"}

\* A reading that is under way has boxes left to ask, and the filament does not
\* move while an operation reads.
ReadInv ==
  /\ \A p \in Readers : (read[p].at = "boxes") <=> (read[p].left # {})
  /\ read["op"].at = "boxes" =>
       \A b \in Boxes :
         /\ read["op"].got[b] # None => read["op"].got[b].path = path[b]
         /\ lost = 0 /\ b \notin read["op"].left => read["op"].got[b] # None
  /\ read["op"].at \in {"boxes", "tail"} => (read["op"].seen <=> (head # None))
  /\ read["op"].at = "tail" =>
       /\ read["op"].loaded = None => ~read["op"].seen
       /\ lost = 0 => \A b \in Boxes : path[b] \in {None, read["op"].loaded}

\* The poll's reading is the further, by at most the request whose turn it is:
\* what an operation that excludes the poll reads is settled after it.  Only a
\* poll that began while a cut was reading is not.
Apart == op.name = "cut" => ~read["poll"].ahead

Nested ==
  /\ (op.at \in {"read", "ahead"} /\ op.name # "check" /\ Apart
      /\ read["op"].at \in {"boxes", "tail"} /\ read["poll"].at = "boxes") =>
       IF turn = "any" THEN read["poll"].left \subseteq read["op"].left
       ELSE read["poll"].left \ {Min(read["poll"].left)} \subseteq read["op"].left
  /\ (op.at \notin {"idle", "read", "ahead"} /\ Apart) => read["poll"].at # "boxes"

\* A box fails before a reading finds it failed, and stays so.
BoxInv ==
  /\ \A b \in Boxes : box[b].status \in Statuses => box[b].state = "error"
  /\ \A p \in Readers, b \in Boxes :
       /\ read[p].at = "boxes" /\ Whole(p)
       /\ read[p].got[b] # None /\ read[p].got[b].status \in Statuses
       => box[b].state = "error"

\* The shared path, and how a load that saw nothing else keeps it to itself.
PathInv ==
  /\ \A b \in Boxes : path[b] # None => BoxOf[path[b]] = b
  /\ lost = 0 => \A b, c \in Boxes : path[b] # None /\ path[c] # None => b = c
  /\ lost = 0 /\ op.name = "load" /\ op.at \in {"off", "stage0"} =>
       \A b \in Boxes : path[b] \in {None, op.slot}

\* What a load or an unload has brought about, step by step.
LoadInv ==
  op.name = "load" =>
    /\ op.at # "read" => head \in {None, op.slot}
    /\ op.at \notin {"read", "off", "stage0"} => path[B] = op.slot
    /\ op.at = "wait" /\ owner # None /\ BoxOf[owner] = B => owner = op.slot

RunoutInv == runout.active => owner \in {runout.slot, None}

UnloadInv ==
  op.name = "unload" =>
    /\ op.at \in {"retract", "path", "wait"} /\ owner # None => BoxOf[owner] # B
    /\ op.at = "wait" => path[B] = None

IInv ==
  /\ TypeInv /\ OpInv /\ ReadInv /\ Nested /\ BoxInv
  /\ PathInv /\ RunoutInv /\ LoadInv /\ UnloadInv

-----------------------------------------------------------------------------
(***************************************************************************)
(* The operators.                                                          *)
(***************************************************************************)
LEMMA MinIs ==
  ASSUME NEW T \in SUBSET Boxes, T # {}
  PROVE  Min(T) \in T /\ \A x \in T : Min(T) <= x
<1>0. T \in SUBSET Nat
  BY SlotsAssumption
<1> DEFINE R == {p \in Nat \X Nat : p[1] < p[2]}
<1>1. IsWellFoundedOn(R, Nat)
  BY NatLessThanWellFounded DEF OpToRel
<1>2. \E x \in T : \A y \in T : <<y, x>> \notin R
  <2> HIDE DEF R
  <2> QED BY <1>0, <1>1, WFMin
<1>3. \A x, y \in Nat : <<y, x>> \notin R => x <= y
  OBVIOUS
<1>4. \E x \in T : \A y \in T : x <= y
  BY <1>0, <1>2, <1>3
<1> QED BY <1>4 DEF Min

LEMMA BoxOfSlot == \A s \in Slots : BoxOf[s] \in Boxes /\ s # None /\ s # External
BY SlotsAssumption

LEMMA SomeBox == Boxes # {}
BY SlotsAssumption

\* No reply is the absence of one.
LEMMA ReplyIs ==
  ASSUME TypeWorld, NEW b \in Boxes
  PROVE  /\ Reply(b) \in Replies /\ Reply(b) # None
         /\ Reply(b).status = box[b].status /\ Reply(b).path = path[b]
<1>1. Reply(b) \in Replies
  BY DEF Reply, Replies, TypeWorld, BoxType
<1> QED BY <1>1, NoneAssumption DEF Reply

\* Where the filament is and what owns the path, as the host sees it.
EpisodesType == [Boxes -> EpisodeType \cup {None}]
ViewType == [owner : Slots \cup {None}, pathOwner : Slots \cup {None}, ep : EpisodesType,
             runout : RunoutType]
Gots == [Boxes -> Replies \cup {None}]

LEMMA ViewIs ==
  ASSUME TypeTrack
  PROVE  /\ View \in ViewType /\ View.owner = owner /\ View.pathOwner = pathOwner
         /\ View.ep = episodes /\ View.runout = runout
BY DEF TypeTrack, View, ViewType, EpisodesType

\* In a new epoch no episode begins.
Fades(ep, new) ==
  \A b \in Boxes : new[b] \in {ep[b], None} \/ new[b].current = FALSE

LEMMA FadesOn ==
  ASSUME NEW e1, NEW e2, NEW e3, Fades(e1, e2), Fades(e2, e3)
  PROVE  Fades(e1, e3)
<1> SUFFICES ASSUME NEW b \in Boxes PROVE e3[b] \in {e1[b], None} \/ e3[b].current = FALSE
  BY DEF Fades
<1>1. e2[b] \in {e1[b], None} \/ e2[b].current = FALSE
  BY DEF Fades
<1>2. e3[b] \in {e2[b], None} \/ e3[b].current = FALSE
  BY DEF Fades
<1> QED BY <1>1, <1>2

LEMMA NewEpochType ==
  ASSUME NEW ep \in EpisodesType, NEW b
  PROVE  NewEpoch(ep, b) \in EpisodesType /\ Fades(ep, NewEpoch(ep, b))
BY DEF NewEpoch, EpisodesType, EpisodeType, Fades

LEMMA OwnIs ==
  ASSUME NEW h \in ViewType, NEW s \in Slots
  PROVE  /\ Own(h, s) \in ViewType /\ Own(h, s).owner = s /\ Own(h, s).runout = NoRunout
         /\ Fades(h.ep, Own(h, s).ep)
BY NewEpochType DEF Own, ViewType, NoRunout, RunoutType

LEMMA DisownIs ==
  ASSUME NEW h \in ViewType, NEW b \in Boxes
  PROVE  /\ Disown(h, b) \in ViewType
         /\ Disown(h, b).owner \in {h.owner, None}
         /\ Disown(h, b).owner # None => BoxOf[Disown(h, b).owner] # b
         /\ Disown(h, b).runout = h.runout
         /\ Fades(h.ep, Disown(h, b).ep)
<1>1. Fades(h.ep, h.ep)
  BY DEF Fades
<1> QED BY <1>1, NewEpochType DEF Disown, ViewType

\* What reconciling may make of the owner.
Adopted(got, s) == s \in Slots /\ \E b \in Boxes : got[b] # None /\ got[b].path = s

LEMMA ReconciledIs ==
  ASSUME NEW h \in ViewType, NEW got \in Gots
  PROVE  /\ Reconciled(h, got) \in ViewType /\ Fades(h.ep, Reconciled(h, got).ep)
         /\ \/ Reconciled(h, got).owner \in {h.owner, None} /\ Reconciled(h, got).runout = h.runout
            \/ Adopted(got, Reconciled(h, got).owner) /\ Reconciled(h, got).runout = NoRunout
<1> DEFINE h1 == IF OwnerGone(h, got) THEN Disown(h, BoxOf[h.owner]) ELSE h
           c  == CHOOSE s \in Candidates(got) : TRUE
<1>1. h1 \in ViewType /\ h1.owner \in {h.owner, None} /\ h1.runout = h.runout
      /\ Fades(h.ep, h1.ep)
  <2>1. CASE OwnerGone(h, got)
    <3>1. BoxOf[h.owner] \in Boxes
      BY <2>1, BoxOfSlot DEF OwnerGone, ViewType
    <3> QED BY <2>1, <3>1, DisownIs
  <2> QED BY <2>1 DEF Fades
<1>2. CASE Cardinality(Candidates(got)) # 1 \/ h1.owner # None
  BY <1>1, <1>2 DEF Reconciled
<1>3. CASE Cardinality(Candidates(got)) = 1 /\ h1.owner = None
  <2>1. Candidates(got) # {}
    BY <1>3, FS_EmptySet
  <2>2. c \in Candidates(got)
    BY <2>1
  <2>3. Adopted(got, c)
    BY <2>2 DEF Candidates, Answered, Adopted, Gots, Replies
  <2>4. Reconciled(h, got) = Own(h1, c)
    BY <1>3 DEF Reconciled
  <2> HIDE DEF h1, c
  <2>5. Own(h1, c) \in ViewType /\ Own(h1, c).owner = c /\ Own(h1, c).runout = NoRunout
        /\ Fades(h.ep, Own(h1, c).ep)
    BY <1>1, <2>3, OwnIs, FadesOn DEF Adopted
  <2> QED BY <2>3, <2>4, <2>5
<1> QED BY <1>2, <1>3

LEMMA ObservedIs ==
  ASSUME NEW h \in ViewType, NEW b \in Boxes, NEW r \in Replies \cup {None}
  PROVE  /\ Observed(h, b, r) \in EpisodeType \cup {None}
         /\ \/ r = None /\ Observed(h, b, r) = h.ep[b]
            \/ r # None /\ r.status \in Statuses
            \/ Observed(h, b, r) = None \/ Observed(h, b, r).kind # "fatal"
<1>1. CASE r = None
  BY <1>1 DEF Observed, ViewType, EpisodesType
<1>2. CASE r # None /\ r.status \in {"ok", "runout"}
  BY <1>2 DEF Observed, Episode, EpisodeType
<1>3. CASE r # None /\ r.status \in Statuses
  <2>1. r.status \notin {"ok", "runout"}
    BY <1>3, SlotsAssumption
  <2>2. PICK k \in {"runout", "fatal", "advisory"} : Observed(h, b, r) = Episode(r.status, k)
    BY <1>3, <2>1 DEF Observed
  <2>3. Episode(r.status, k) \in EpisodeType
    BY <1>3 DEF Episode, EpisodeType
  <2> QED BY <1>3, <2>2, <2>3
<1> QED BY <1>1, <1>2, <1>3 DEF Replies

LEMMA NoReadIs ==
  /\ NoRead \in ReadType /\ NoRead.left = {} /\ NoRead.at = "no" /\ ~NoRead.ahead
  /\ StartReading \in ReadType /\ StartReading.left = Boxes /\ StartReading.at = "boxes"
  /\ StartReading.seen = (head # None) /\ ~StartReading.ahead
  /\ \A b \in Boxes : StartReading.got[b] = None
BY DEF NoRead, StartReading, ReadType

\* What settling does, whatever the host believed before.
Settled(p, got, r) ==
  /\ r \in ReadType /\ read' = [read EXCEPT ![p] = r] /\ r.left = {} /\ r.at \in {"tail", "raised"}
  /\ p = "op" /\ r.at = "tail" =>
       /\ r.seen = read[p].seen /\ (r.loaded = None => ~r.seen)
       /\ PathsOf(got) # {} => r.loaded \in PathsOf(got)

LEMMA SettleIs ==
  ASSUME TypeInv, NEW p \in Readers, NEW got \in Gots, Settle(p, got)
  PROVE  /\ TypeTrack'
         /\ owner' \in {owner, None} \/ Adopted(got, owner')
         /\ (owner' \in {owner, None} /\ runout' = runout) \/ ~runout'.active \/ runout'.slot = owner'
         /\ \E abort \in BOOLEAN : op' = [op EXCEPT !.abort = abort]
         /\ \E r : Settled(p, got, r)
         /\ \A b \in Boxes :
              /\ episodes'[b] # episodes[b] /\ episodes'[b] # None
              /\ episodes'[b].kind = "fatal" /\ episodes'[b].current
              => got[b] # None /\ got[b].status \in Statuses
<1> DEFINE paths == PathsOf(got)
           seen  == read[p].seen
           known == CASE paths # {} -> CHOOSE s \in paths : TRUE
                      [] paths = {} /\ ~seen -> None
                      [] OTHER -> pathOwner
           h0 == [View EXCEPT !.pathOwner = known]
           h1 == IF Conflict(h0, got) THEN h0 ELSE Reconciled(h0, got)
           h2 == IF ~Conflict(h0, got) /\ RunoutSeen(h1, got)
                 THEN [h1 EXCEPT !.runout = [active |-> TRUE, slot |-> h1.owner]] ELSE h1
           loaded == CASE paths # {} -> known
                       [] paths = {} /\ seen /\ h2.pathOwner # None -> h2.pathOwner
                       [] paths = {} /\ seen /\ h2.pathOwner = None -> External
                       [] OTHER -> None
           kept == [b \in Boxes |-> IF b = PathBox(got, loaded) THEN got[b] ELSE None]
           mine == [at |-> "tail", left |-> {}, seen |-> seen, loaded |-> loaded, ahead |-> FALSE,
                    got |-> kept]
<1>1. paths \subseteq Slots /\ seen \in BOOLEAN
  BY DEF PathsOf, Answered, Gots, Replies, TypeInv, TypeRest, ReadType
<1>2. known \in Slots \cup {None} /\ (paths # {} => known \in paths)
  BY <1>1 DEF TypeInv, TypeTrack
<1>3. BecomeView(h2)
  BY DEF Settle
<1>4. IF Conflict(h0, got)
      THEN /\ read' = [read EXCEPT ![p] = [NoRead EXCEPT !.at = "raised"]]
           /\ UNCHANGED <<episodes, op>>
      ELSE /\ read' = [read EXCEPT ![p] =
                IF p = "poll" THEN [NoRead EXCEPT !.at = "tail"] ELSE mine]
           /\ episodes' = [b \in Boxes |-> Observed(h1, b, got[b])]
           /\ Latch(h1.ep, {b \in Boxes : episodes'[b] # None /\ episodes'[b].kind = "fatal"})
  BY DEF Settle
<1> HIDE DEF known
<1>5. /\ h0 \in ViewType /\ h0.owner = owner /\ h0.runout = runout /\ h0.ep = episodes
  BY <1>2, ViewIs DEF TypeInv, ViewType
<1> HIDE DEF h0
<1>6. /\ h1 \in ViewType /\ Fades(episodes, h1.ep)
      /\ \/ h1.owner \in {owner, None} /\ h1.runout = runout
         \/ Adopted(got, h1.owner) /\ ~h1.runout.active
      /\ Conflict(h0, got) => h1 = h0
  <2>1. Fades(episodes, episodes) /\ ~NoRunout.active
    BY DEF Fades, NoRunout
  <2>2. CASE Conflict(h0, got)
    BY <1>5, <2>1, <2>2
  <2>3. CASE ~Conflict(h0, got)
    <3>1. h1 = Reconciled(h0, got)
      BY <2>3
    <3> HIDE DEF h1
    <3> QED BY <1>5, <2>1, <2>3, <3>1, ReconciledIs
  <2> QED BY <2>2, <2>3
<1> HIDE DEF h1
<1>7. /\ h2 \in ViewType /\ h2.owner = h1.owner /\ h2.ep = h1.ep
      /\ h2.runout = h1.runout \/ h2.runout.slot = h1.owner
  <2>1. [active |-> TRUE, slot |-> h1.owner] \in RunoutType
    BY <1>6 DEF ViewType, RunoutType
  <2> QED BY <1>6, <2>1 DEF RunoutSeen, ViewType
<1> HIDE DEF h2
<1>8. loaded \in Slots \cup {External, None} /\ (loaded = None => ~seen)
      /\ (paths # {} => loaded \in paths)
  BY <1>1, <1>2, <1>7, SlotsAssumption DEF ViewType
<1> HIDE DEF loaded, paths, seen
<1>9. mine \in ReadType
  <2>1. kept \in [Boxes -> Replies \cup {None}]
    BY DEF Gots
  <2> HIDE DEF kept
  <2> QED BY <1>1, <1>8, <2>1 DEF ReadType
<1>10. \A b \in Boxes : got[b] \in Replies \cup {None}
  BY DEF Gots
<1>11. TypeTrack'
  <2>1. episodes' \in [Boxes -> EpisodeType \cup {None}]
    BY <1>4, <1>6, <1>10, ObservedIs DEF TypeInv, TypeTrack
  <2> QED BY <1>3, <1>7, <2>1 DEF BecomeView, ViewType, TypeTrack
<1>12. /\ owner' \in {owner, None} \/ Adopted(got, owner')
       /\ (owner' \in {owner, None} /\ runout' = runout) \/ ~runout'.active \/ runout'.slot = owner'
  BY <1>3, <1>6, <1>7 DEF BecomeView
<1>13. \E abort \in BOOLEAN : op' = [op EXCEPT !.abort = abort]
  <2>1. op' = op \/ \E bs : Latch(h1.ep, bs)
    BY <1>4
  <2>2. ASSUME NEW bs, Latch(h1.ep, bs)
        PROVE  \E abort \in BOOLEAN : op' = [op EXCEPT !.abort = abort]
    <3>1. (op.abort \/ (op # NoOp /\ \E b \in bs : h1.ep[b] # episodes'[b])) \in BOOLEAN
      BY DEF TypeInv, TypeRest, OpType
    <3> QED BY <2>2, <3>1 DEF Latch
  <2>3. op = [op EXCEPT !.abort = op.abort] /\ op.abort \in BOOLEAN
    BY DEF TypeInv, TypeRest, OpType
  <2> QED BY <2>1, <2>2, <2>3
<1>14. \E r : Settled(p, got, r)
  <2>1. [NoRead EXCEPT !.at = "raised"] \in ReadType /\ [NoRead EXCEPT !.at = "tail"] \in ReadType
    BY DEF NoRead, ReadType
  <2>2. CASE Conflict(h0, got)
    <3>1. Settled(p, got, [NoRead EXCEPT !.at = "raised"])
      BY <1>4, <2>1, <2>2 DEF Settled, NoRead
    <3> QED BY <3>1
  <2>3. CASE ~Conflict(h0, got) /\ p = "poll"
    <3>1. Settled(p, got, [NoRead EXCEPT !.at = "tail"])
      BY <1>4, <2>1, <2>3 DEF Settled, NoRead
    <3> QED BY <3>1
  <2>4. CASE ~Conflict(h0, got) /\ p # "poll"
    <3>1. read' = [read EXCEPT ![p] = mine]
      BY <1>4, <2>4
    <3>2. Settled(p, got, mine)
      BY <1>8, <1>9, <3>1 DEF Settled, paths, seen
    <3> QED BY <3>2
  <2> QED BY <2>2, <2>3, <2>4
<1>15. ASSUME NEW b \in Boxes, episodes'[b] # episodes[b], episodes'[b] # None,
              episodes'[b].kind = "fatal", episodes'[b].current
       PROVE  got[b] # None /\ got[b].status \in Statuses
  <2>1. episodes'[b] = Observed(h1, b, got[b])
    BY <1>4, <1>15
  <2>2. got[b] = None => episodes'[b] = h1.ep[b]
    BY <2>1 DEF Observed
  <2>3. got[b] # None
    BY <1>6, <1>15, <2>2 DEF Fades
  <2> QED BY <1>6, <1>10, <1>15, <2>1, <2>3, ObservedIs
<1> QED BY <1>11, <1>12, <1>13, <1>14, <1>15

-----------------------------------------------------------------------------
(***************************************************************************)
(* A reply, or none.  Of all that may follow, an invariant needs to know:  *)
(***************************************************************************)
Asking(p, got, r) ==
  /\ UNCHANGED world /\ Exchange(p) /\ lost' \in Nat /\ (lost' = 0 => lost = 0)
  /\ read' = [read EXCEPT ![p] = r] /\ r \in ReadType
  /\ TypeTrack' /\ \E abort \in BOOLEAN : op' = [op EXCEPT !.abort = abort]
  /\ owner' \in {owner, None} \/ Adopted(got, owner')
  /\ (owner' \in {owner, None} /\ runout' = runout) \/ ~runout'.active \/ runout'.slot = owner'

\* the reading goes on,
GoesOn(p, got, r) ==
  /\ r.at = "boxes" /\ r.left = read[p].left \ {Min(read[p].left)} /\ r.left # {}
  /\ r.got = got /\ r.seen = read[p].seen /\ r.ahead = read[p].ahead
  /\ p = "op" /\ lost' = 0 => \A b \in Boxes \ r.left : got[b] # None

\* or it ends: for an operation with what it knows to be loaded.
Concludes(p, r) ==
  /\ r.at \in {"tail", "raised"} /\ r.left = {}
  /\ r.at = "tail" => read[p].left \ {Min(read[p].left)} = {}
  /\ p = "op" /\ r.at = "tail" =>
       /\ r.seen = read[p].seen /\ (r.loaded = None => ~r.seen)
       /\ lost' = 0 => \A b \in Boxes : path[b] \in {None, r.loaded}

\* What was replied is so.
TrueReplies(p, got) ==
  /\ p = "op" => \A b \in Boxes : got[b] # None => got[b].path = path[b]
  /\ Whole(p) => \A b \in Boxes : got[b] # None /\ got[b].status \in Statuses => box[b].state = "error"

LatchesTrue(got) ==
  \A b \in Boxes :
    /\ episodes'[b] # episodes[b] /\ episodes'[b] # None
    /\ episodes'[b].kind = "fatal" /\ episodes'[b].current
    => got[b] # None /\ got[b].status \in Statuses

LEMMA ReadBoxIs ==
  ASSUME IInv, NEW p \in Readers, ReadBox(p)
  PROVE  \E got \in Gots : \E r :
            /\ Asking(p, got, r) /\ TrueReplies(p, got) /\ LatchesTrue(got)
            /\ GoesOn(p, got, r) \/ Concludes(p, r)
<1> DEFINE b == Min(read[p].left)
<1>1. /\ read[p] \in ReadType /\ read[p].at = "boxes" /\ read[p].left \in SUBSET Boxes
      /\ read[p].left # {} /\ read[p].got \in Gots
  BY DEF ReadBox, IInv, TypeInv, TypeRest, ReadType, Gots, ReadInv
<1>2. b \in read[p].left /\ b \in Boxes
  BY <1>1, MinIs
<1> HIDE DEF b
<1>3. PICK reply \in {Reply(b), None} :
        LET got == [read[p].got EXCEPT ![b] = reply] IN
        /\ lost' = lost + (IF reply = None THEN 1 ELSE 0)
        /\ IF Cardinality(PathsOf(got)) > 1
           THEN /\ read' = [read EXCEPT ![p] = [NoRead EXCEPT !.at = "raised"]]
                /\ UNCHANGED <<track, episodes, op>>
           ELSE IF read[p].left = {b} THEN Settle(p, got)
           ELSE /\ read' = [read EXCEPT ![p].left = @ \ {b}, ![p].got = got]
                /\ UNCHANGED <<track, episodes, op>>
  BY DEF ReadBox, b
<1> DEFINE got == [read[p].got EXCEPT ![b] = reply]
<1>4. Reply(b) \in Replies /\ Reply(b) # None /\ Reply(b).status = box[b].status /\ Reply(b).path = path[b]
  BY <1>2, ReplyIs DEF IInv, TypeInv
<1>5. /\ got \in Gots /\ got[b] = reply
      /\ \A c \in Boxes : c # b => got[c] = read[p].got[c]
  BY <1>1, <1>2, <1>3, <1>4 DEF Gots
<1> HIDE DEF got
<1>6. TrueReplies(p, got)
  <2>1. \A c \in Boxes : p = "op" /\ got[c] # None => got[c].path = path[c]
    BY <1>1, <1>3, <1>4, <1>5 DEF IInv, ReadInv
  <2>2. ASSUME Whole(p), NEW c \in Boxes, got[c] # None, got[c].status \in Statuses
        PROVE  box[c].state = "error"
    BY <1>1, <1>3, <1>4, <1>5, <2>2 DEF IInv, BoxInv
  <2> QED BY <2>1, <2>2 DEF TrueReplies
<1>7. /\ UNCHANGED world /\ Exchange(p) /\ lost' \in Nat
      /\ lost' = 0 => lost = 0 /\ reply # None
  BY <1>3 DEF ReadBox, IInv, TypeInv
<1>8. p = "op" /\ lost' = 0 => \A c \in Boxes : c \notin read[p].left \ {b} => got[c] # None
  BY <1>1, <1>2, <1>5, <1>7 DEF IInv, ReadInv
<1>a. op.abort \in BOOLEAN /\ op = [op EXCEPT !.abort = op.abort]
  BY DEF IInv, TypeInv, TypeRest, OpType
<1>b. UNCHANGED <<track, episodes, op>> =>
        /\ TypeTrack' /\ LatchesTrue(got) /\ owner' = owner /\ runout' = runout
        /\ \E abort \in BOOLEAN : op' = [op EXCEPT !.abort = abort]
  BY <1>a DEF track, IInv, TypeInv, TypeTrack, LatchesTrue
<1>9. CASE Cardinality(PathsOf(got)) > 1
  <2> DEFINE r == [NoRead EXCEPT !.at = "raised"]
  <2>1. r \in ReadType /\ r.at = "raised" /\ r.left = {}
    BY DEF NoRead, ReadType
  <2>2. read' = [read EXCEPT ![p] = r] /\ UNCHANGED <<track, episodes, op>>
    BY <1>3, <1>9 DEF got
  <2> HIDE DEF r
  <2>3. Asking(p, got, r) /\ Concludes(p, r)
    BY <1>7, <1>b, <2>1, <2>2 DEF Asking, Concludes
  <2> QED BY <1>5, <1>6, <1>b, <2>2, <2>3
<1>10. CASE ~(Cardinality(PathsOf(got)) > 1) /\ read[p].left = {b}
  <2>1. Settle(p, got)
    BY <1>3, <1>10 DEF got
  <2>2. PICK r : Settled(p, got, r)
    BY <1>5, <2>1, SettleIs DEF IInv
  <2>3. Asking(p, got, r) /\ LatchesTrue(got)
    BY <1>5, <1>7, <2>1, <2>2, SettleIs DEF IInv, Asking, Settled, LatchesTrue
  <2>4. ASSUME p = "op", lost' = 0, r.at = "tail", NEW c \in Boxes
        PROVE  path[c] \in {None, r.loaded}
    <3> SUFFICES ASSUME path[c] # None PROVE path[c] = r.loaded
      OBVIOUS
    <3>1. \A d \in Boxes : got[d] # None /\ got[d].path = path[d]
      BY <1>6, <1>8, <1>10, <2>4 DEF TrueReplies
    <3>2. PathsOf(got) = {path[d] : d \in Boxes} \ {None}
      BY <3>1 DEF PathsOf, Answered
    <3>3. r.loaded \in PathsOf(got)
      BY <2>2, <2>4, <3>2 DEF Settled
    <3>4. PICK d \in Boxes : r.loaded = path[d] /\ path[d] # None
      BY <3>2, <3>3
    <3> QED BY <1>7, <2>4, <3>4 DEF IInv, PathInv
  <2>5. Concludes(p, r)
    BY <1>10, <2>2, <2>4 DEF Settled, Concludes, b
  <2> QED BY <1>5, <1>6, <2>3, <2>5
<1>11. CASE ~(Cardinality(PathsOf(got)) > 1) /\ read[p].left # {b}
  <2> DEFINE r == [read[p] EXCEPT !.left = @ \ {b}, !.got = got]
  <2>1. read' = [read EXCEPT ![p].left = @ \ {b}, ![p].got = got] /\ UNCHANGED <<track, episodes, op>>
    BY <1>3, <1>11 DEF got
  <2>2. read' = [read EXCEPT ![p] = r]
    BY <2>1 DEF IInv, TypeInv, TypeRest, ReadType
  <2>3. /\ r \in ReadType /\ r.at = "boxes" /\ r.left = read[p].left \ {b} /\ r.got = got
        /\ r.seen = read[p].seen /\ r.ahead = read[p].ahead
    BY <1>1, <1>5 DEF ReadType, Gots
  <2>4. r.left # {}
    BY <1>2, <1>11, <2>3
  <2> HIDE DEF r
  <2>5. Asking(p, got, r)
    BY <1>7, <1>b, <2>1, <2>2, <2>3 DEF Asking
  <2>6. GoesOn(p, got, r)
    BY <1>8, <2>3, <2>4 DEF GoesOn, b
  <2> QED BY <1>5, <1>6, <1>b, <2>1, <2>5, <2>6
<1> QED BY <1>9, <1>10, <1>11

\* Two readings in the order of the boxes: the one ahead asks, the other follows.
LEMMA Follows ==
  ASSUME NEW S \in SUBSET Boxes, NEW T \in SUBSET Boxes, S \subseteq T, S # {}
  PROVE  S \ {Min(S)} \subseteq T \ {Min(T)}
<1> SUFFICES ASSUME NEW x \in S, x # Min(S), x = Min(T) PROVE FALSE
  OBVIOUS
<1>1. Min(S) \in S /\ Min(S) <= x
  BY MinIs
<1>2. x <= Min(S)
  BY <1>1, MinIs
<1>3. x \in Nat /\ Min(S) \in Nat
  BY <1>1, SlotsAssumption
<1> QED BY <1>1, <1>2, <1>3

\* A slot that settling adopts has its filament in the hub of its box.
LEMMA AdoptedIs ==
  ASSUME IInv, NEW got, TrueReplies("op", got), NEW s, Adopted(got, s)
  PROVE  path[BoxOf[s]] = s
BY BoxOfSlot DEF Adopted, TrueReplies, IInv, PathInv

LEMMA ReadBoxKeeps ==
  ASSUME IInv, NEW p \in Readers, ReadBox(p)
  PROVE  IInv'
<1>0. PICK got \in Gots : \E r :
        /\ Asking(p, got, r) /\ TrueReplies(p, got) /\ LatchesTrue(got)
        /\ GoesOn(p, got, r) \/ Concludes(p, r)
  BY ReadBoxIs
<1>1. PICK r : /\ Asking(p, got, r) /\ TrueReplies(p, got) /\ LatchesTrue(got)
               /\ GoesOn(p, got, r) \/ Concludes(p, r)
  BY <1>0
<1>2. PICK abort \in BOOLEAN : op' = [op EXCEPT !.abort = abort]
  BY <1>1 DEF Asking
<1>3. /\ op' \in OpType /\ op'.name = op.name /\ op'.at = op.at /\ op'.slot = op.slot
      /\ op \in OpType /\ read[p] \in ReadType /\ read[p].at = "boxes"
      /\ read["poll"] \in ReadType /\ read["op"] \in ReadType
  BY <1>2 DEF IInv, TypeInv, TypeRest, OpType, ReadBox, Readers
<1>4. /\ UNCHANGED <<box, path, head>> /\ lost' \in Nat /\ (lost' = 0 => lost = 0)
      /\ r \in ReadType /\ read' \in [Readers -> ReadType] /\ read'[p] = r
      /\ \A q \in Readers : q # p => read'[q] = read[q]
      /\ turn \in {p, "any"} /\ turn' \in {"any", "poll"}
  BY <1>1 DEF Asking, Exchange, world, IInv, TypeInv, TypeRest
<1>5. TypeInv'
  BY <1>1, <1>3, <1>4 DEF IInv, TypeInv, TypeWorld, TypeRest, Asking
<1>6. OpInv'
  BY <1>3, <1>4 DEF IInv, OpInv, Readers
<1>7. ReadInv'
  <2>1. \A q \in Readers : (read'[q].at = "boxes") <=> (read'[q].left # {})
    BY <1>1, <1>4 DEF GoesOn, Concludes, IInv, ReadInv
  <2>2. CASE p = "poll"
    BY <1>4, <2>1, <2>2 DEF IInv, ReadInv, Readers
  <2>3. CASE p = "op"
    <3>1. CASE GoesOn(p, got, r)
      BY <1>1, <1>3, <1>4, <2>1, <2>3, <3>1 DEF IInv, ReadInv, Readers, GoesOn, TrueReplies
    <3>2. CASE Concludes(p, r)
      BY <1>1, <1>3, <1>4, <2>1, <2>3, <3>2 DEF IInv, ReadInv, Readers, Concludes
    <3> QED BY <1>1, <3>1, <3>2
  <2> QED BY <2>2, <2>3 DEF Readers
<1>8. Nested'
  <2>1. CASE p = "poll"
    <3>1. turn' = "any" /\ read'["op"] = read["op"] /\ read'["poll"] = r
      BY <1>1, <1>4, <2>1 DEF Asking, Exchange, Readers
    <3>2. CASE GoesOn(p, got, r)
      BY <1>3, <1>4, <2>1, <3>1, <3>2 DEF IInv, Nested, Apart, GoesOn
    <3>3. CASE Concludes(p, r)
      BY <1>3, <1>4, <2>1, <3>1, <3>3 DEF IInv, Nested, Apart, Concludes
    <3> QED BY <1>1, <3>2, <3>3
  <2>2. CASE p = "op"
    <3>1. read'["poll"] = read["poll"] /\ read'["op"] = r /\ turn = "any"
      BY <1>4, <2>2 DEF Readers, IInv, TypeInv
    <3>2. SUFFICES ASSUME op.at \in {"read", "ahead"}, op.name # "check", Apart,
                          r.at \in {"boxes", "tail"}, read["poll"].at = "boxes"
                   PROVE  turn' = "poll" /\ read["poll"].left \ {Min(read["poll"].left)} \subseteq r.left
      BY <1>3, <1>4, <3>1 DEF IInv, Nested, Apart
    <3>3. turn' = "poll"
      BY <1>1, <2>2, <3>2 DEF Asking, Exchange, InSession
    <3>4. /\ read["poll"].left \subseteq read["op"].left /\ read["poll"].left # {}
          /\ read["poll"].left \in SUBSET Boxes /\ read["op"].left \in SUBSET Boxes
      BY <1>3, <2>2, <3>1, <3>2 DEF IInv, Nested, ReadInv, Readers, ReadType
    <3>5. read["poll"].left \ {Min(read["poll"].left)} \subseteq read["op"].left \ {Min(read["op"].left)}
      BY <3>4, Follows
    <3>6. r.left = read["op"].left \ {Min(read["op"].left)}
      BY <1>1, <2>2, <3>2 DEF GoesOn, Concludes
    <3> QED BY <3>3, <3>5, <3>6
  <2> QED BY <2>1, <2>2 DEF Readers
<1>9. BoxInv'
  BY <1>1, <1>4 DEF GoesOn, Concludes, TrueReplies, Whole, IInv, BoxInv
<1>10. PathInv'
  BY <1>3, <1>4 DEF IInv, PathInv
<1>11. RunoutInv'
  BY <1>1 DEF IInv, RunoutInv, Asking
<1>12. op.at = "wait" /\ op.name # "cut" => p = "op"
  BY <1>3 DEF IInv, Nested, Apart, Readers
<1>13. owner' \in {owner, None} \/ (Adopted(got, owner') /\ (p = "op" => path[BoxOf[owner']] = owner'))
  BY <1>1, AdoptedIs DEF Asking
<1>14. LoadInv'
  BY <1>3, <1>4, <1>12, <1>13 DEF IInv, LoadInv, B
<1>15. UnloadInv'
  <2>1. op.at \in {"retract", "path"} => p = "poll"
    BY <1>3 DEF IInv, OpInv, Readers
  <2>2. op.at \in {"retract", "path"} /\ op.name = "unload" => p # "poll"
    BY <1>3 DEF IInv, Nested, Apart
  <2>3. Adopted(got, owner') => owner' # None
    BY BoxOfSlot DEF Adopted
  <2> QED BY <1>3, <1>4, <1>12, <1>13, <2>1, <2>2, <2>3 DEF IInv, UnloadInv, B
<1> QED BY <1>5, <1>6, <1>7, <1>8, <1>9, <1>10, <1>11, <1>14, <1>15 DEF IInv

-----------------------------------------------------------------------------
(***************************************************************************)
(* The poll, and what happens without the host.                            *)
(***************************************************************************)
LEMMA InitHolds == Init => IInv
<1> SUFFICES ASSUME Init PROVE IInv
  OBVIOUS
<1> USE DEF Init
<1>1. TypeInv
  <2>1. NoRead \in ReadType
    BY NoReadIs
  <2> QED BY <2>1 DEF TypeInv, TypeWorld, TypeTrack, TypeRest, Idle, BoxType, NoRunout, RunoutType,
               NoOp, OpType, Readers
<1>2. OpInv /\ ReadInv /\ Nested
  BY NoReadIs DEF OpInv, ReadInv, Nested, NoOp, Readers
<1>3. BoxInv /\ PathInv
  BY NoReadIs, SlotsAssumption DEF BoxInv, PathInv, Idle, Readers
<1>4. RunoutInv /\ LoadInv /\ UnloadInv
  BY DEF RunoutInv, LoadInv, UnloadInv, NoRunout, NoOp
<1> QED BY <1>1, <1>2, <1>3, <1>4 DEF IInv

LEMMA WorldKeeps ==
  ASSUME IInv, World
  PROVE  IInv'
<1> USE DEF IInv
<1>1. UNCHANGED <<owner, pathOwner, runout, episodes, read, op, turn, lost>>
  BY DEF World, BoxFails, SpoolEnds, TailPasses, ExternalChanges, Host, track
<1>2. CASE BoxFails
  <2>1. PICK b \in Troubled, s \in Statuses :
          path[b] # None /\ Asked(b) /\ box' = [box EXCEPT ![b] = Failed(s)]
    BY <1>2 DEF BoxFails
  <2>2. path' = path /\ head' = head
    BY <1>2 DEF BoxFails
  <2>3. Failed(s) \in BoxType /\ Failed(s).state = "error"
    BY DEF Failed, BoxType
  <2>4. box' \in [Boxes -> BoxType]
    BY <2>1, <2>3 DEF TypeInv, TypeWorld
  <2>5. TypeInv'
    BY <1>1, <2>2, <2>4 DEF TypeInv, TypeWorld, TypeTrack, TypeRest
  <2>6. BoxInv'
    BY <1>1, <2>1, <2>3 DEF BoxInv, Whole, TypeInv, TypeWorld
  <2> QED BY <1>1, <2>2, <2>5, <2>6 DEF OpInv, ReadInv, Nested, Apart, PathInv, RunoutInv, LoadInv,
               UnloadInv, B
<1>3. CASE SpoolEnds
  <2>1. PICK b \in Troubled : box[b] = Printing /\ Asked(b) /\ box' = [box EXCEPT ![b] = Ran]
    BY <1>3 DEF SpoolEnds
  <2>2. path' = path /\ head' = head
    BY <1>3 DEF SpoolEnds
  <2>3. Ran \in BoxType /\ Ran.status \notin Statuses /\ Printing.state # "error"
    BY SlotsAssumption DEF Ran, BoxType, Printing
  <2>4. box' \in [Boxes -> BoxType]
    BY <2>1, <2>3 DEF TypeInv, TypeWorld
  <2>5. TypeInv'
    BY <1>1, <2>2, <2>4 DEF TypeInv, TypeWorld, TypeTrack, TypeRest
  <2>6. BoxInv'
    BY <1>1, <2>1, <2>3 DEF BoxInv, Whole, TypeInv, TypeWorld
  <2> QED BY <1>1, <2>2, <2>5, <2>6 DEF OpInv, ReadInv, Nested, Apart, PathInv, RunoutInv, LoadInv,
               UnloadInv, B
<1>4. CASE TailPasses \/ ExternalChanges
  <2>1. box' = box /\ op = NoOp
    BY <1>4 DEF TailPasses, ExternalChanges
  <2>2. /\ op.at = "idle" /\ op.name = "none" /\ read["op"].at = "no"
    BY <2>1 DEF NoOp, OpInv
  <2>3. head' \in Slots \cup {External, None}
    BY <1>4 DEF TailPasses, ExternalChanges, TypeInv, TypeWorld
  <2>4. /\ path' \in [Boxes -> Slots \cup {None}] /\ \A b \in Boxes : path'[b] \in {path[b], None}
    BY <1>4 DEF TailPasses, ExternalChanges, TypeInv, TypeWorld
  <2>5. TypeInv'
    BY <1>1, <2>1, <2>3, <2>4 DEF TypeInv, TypeWorld, TypeTrack, TypeRest
  <2>6. PathInv'
    BY <1>1, <2>2, <2>4 DEF PathInv
  <2>7. OpInv' /\ ReadInv' /\ Nested'
    BY <1>1, <2>2 DEF OpInv, ReadInv, Nested, Apart, Readers
  <2>8. BoxInv' /\ RunoutInv' /\ LoadInv' /\ UnloadInv'
    BY <1>1, <2>1, <2>2 DEF BoxInv, Whole, RunoutInv, LoadInv, UnloadInv
  <2> QED BY <2>5, <2>6, <2>7, <2>8
<1> QED BY <1>2, <1>3, <1>4 DEF World

LEMMA PollKeeps ==
  ASSUME IInv, PollBegins \/ PollEnds \/ PollRaises
  PROVE  IInv'
<1> USE DEF IInv
<1>1. UNCHANGED <<box, path, head, owner, pathOwner, runout, episodes, op, lost>>
  BY DEF PollBegins, PollEnds, PollRaises, world, track
<1>2. PICK r \in ReadType :
        /\ read' = [read EXCEPT !["poll"] = r] /\ (r.at = "boxes" <=> r.left # {}) /\ r.left \in SUBSET Boxes
        /\ \A b \in Boxes : r.got[b] = None
        /\ r.at = "boxes" => op.at \in {"idle", "ahead"} /\ (op.name = "cut" => r.ahead)
  <2>1. CASE PollBegins
    <3> DEFINE r == [StartReading EXCEPT !.ahead = op.name = "cut"]
    <3>1. r \in ReadType /\ r.at = "boxes" /\ r.left = Boxes /\ r.ahead = (op.name = "cut")
          /\ r.got = StartReading.got
      BY NoReadIs DEF ReadType
    <3>2. read' = [read EXCEPT !["poll"] = r] /\ op.at \in {"idle", "ahead"}
      BY <2>1 DEF PollBegins, PollMay, Operating
    <3> HIDE DEF r
    <3> QED BY <3>1, <3>2, NoReadIs, SomeBox
  <2>2. CASE PollEnds \/ PollRaises
    <3>1. NoRead \in ReadType /\ \A b \in Boxes : NoRead.got[b] = None
      BY NoReadIs DEF NoRead
    <3> QED BY <2>2, <3>1, NoReadIs DEF PollEnds, PollRaises
  <2> QED BY <2>1, <2>2
<1>3. /\ read' \in [Readers -> ReadType] /\ read'["poll"] = r /\ read'["op"] = read["op"]
  BY <1>2 DEF TypeInv, TypeRest, Readers
<1>4. turn' \in {"any", "poll"} /\ (turn' = turn \/ turn' = "any")
  BY DEF PollBegins, PollEnds, PollRaises, Exchange, TypeInv
<1>5. TypeInv'
  BY <1>1, <1>3, <1>4 DEF TypeInv, TypeWorld, TypeTrack, TypeRest
<1>6. OpInv' /\ ReadInv' /\ BoxInv'
  BY <1>1, <1>2, <1>3 DEF OpInv, ReadInv, BoxInv, Whole, Readers
<1>7. Nested'
  BY <1>1, <1>2, <1>3 DEF Nested, Apart, OpInv
<1>8. PathInv' /\ RunoutInv' /\ LoadInv' /\ UnloadInv'
  BY <1>1 DEF PathInv, RunoutInv, LoadInv, UnloadInv, B
<1> QED BY <1>5, <1>6, <1>7, <1>8

-----------------------------------------------------------------------------
(***************************************************************************)
(* What an operation reads, and what it makes of it.                       *)
(***************************************************************************)
\* A reading that an operation begins has learnt nothing yet.
LEMMA Begun ==
  ASSUME IInv, read' = [read EXCEPT !["op"] = StartReading],
         UNCHANGED <<box, path, head, owner, pathOwner, runout, episodes, turn, lost>>,
         op' \in OpType, OpInv',
         op'.at \in {"read", "ahead"} \/ (op' = op /\ op.at = "wait"),
         op'.name = "cut" \/ op'.at \in {"read", "ahead"} \/ (op' = op /\ op.at = "wait")
  PROVE  TypeInv' /\ ReadInv' /\ Nested' /\ BoxInv'
<1> USE DEF IInv
<1>1. /\ read' \in [Readers -> ReadType] /\ read'["op"] = StartReading /\ read'["poll"] = read["poll"]
      /\ read["poll"] \in ReadType
  BY NoReadIs DEF TypeInv, TypeRest, Readers
<1>2. TypeInv'
  BY <1>1 DEF TypeInv, TypeWorld, TypeTrack, TypeRest
<1>3. ReadInv'
  BY <1>1, NoReadIs, SomeBox DEF ReadInv, Readers
<1>4. Nested'
  BY <1>1, NoReadIs DEF Nested, Apart, ReadType
<1>5. BoxInv'
  BY <1>1, NoReadIs DEF BoxInv, Whole, Readers
<1> QED BY <1>2, <1>3, <1>4, <1>5

LEMMA BeginOpKeeps ==
  ASSUME IInv, BeginOp
  PROVE  IInv'
<1>1. PICK name \in {"load", "unload", "buffer", "cut", "check"}, at \in {"read", "ahead"},
           slot \in Slots \cup {None} :
        /\ Begin(name, at, slot) /\ (name = "load" => slot \in Slots)
        /\ (at = "ahead") <=> (name \in {"cut", "check"})
  <2>1. CASE \E s \in Slots : Begin("load", "read", s)
    BY <2>1
  <2>2. CASE \E n \in {"unload", "buffer"} : Begin(n, "read", None)
    BY <2>2
  <2>3. CASE \E n \in {"cut", "check"} : Begin(n, "ahead", None)
    BY <2>3
  <2> QED BY <2>1, <2>2, <2>3 DEF BeginOp
<1>2. /\ op = NoOp /\ read' = [read EXCEPT !["op"] = StartReading]
      /\ UNCHANGED <<box, path, head, owner, pathOwner, runout, episodes, turn, lost>>
  BY <1>1 DEF Begin, world, track
<1>3. op' \in OpType /\ op'.name = name /\ op'.at = at /\ op'.slot = slot
  BY <1>1 DEF Begin, NoOp, OpType
<1>4. OpInv'
  BY <1>1, <1>3 DEF OpInv
<1>5. TypeInv' /\ ReadInv' /\ Nested' /\ BoxInv'
  BY <1>2, <1>3, <1>4, Begun
<1>6. PathInv' /\ RunoutInv' /\ LoadInv' /\ UnloadInv'
  BY <1>1, <1>2, <1>3 DEF IInv, PathInv, RunoutInv, LoadInv, UnloadInv
<1> QED BY <1>4, <1>5, <1>6 DEF IInv

LEMMA WaitReadsKeeps ==
  ASSUME IInv, WaitReads
  PROVE  IInv'
<1>1. /\ op' = op /\ op.at = "wait" /\ read' = [read EXCEPT !["op"] = StartReading]
      /\ UNCHANGED <<box, path, head, owner, pathOwner, runout, episodes, turn, lost>>
  BY DEF WaitReads, world, track
<1>2. op' \in OpType /\ OpInv'
  BY <1>1 DEF IInv, TypeInv, TypeRest, OpInv
<1>3. TypeInv' /\ ReadInv' /\ Nested' /\ BoxInv'
  BY <1>1, <1>2, Begun
<1>4. PathInv' /\ RunoutInv' /\ LoadInv' /\ UnloadInv'
  BY <1>1 DEF IInv, PathInv, RunoutInv, LoadInv, UnloadInv, B
<1> QED BY <1>2, <1>3, <1>4 DEF IInv

\* The operation has read, and goes on where nothing of the poll can cross it.
Proceeds ==
  \/ op' = NoOp
  \/ /\ op' \in OpType /\ op'.at \notin {"idle", "read", "ahead"}
     /\ op'.name = "cut" <=> op.name = "cut"

LEMMA NoOpIs == /\ NoOp \in OpType /\ NoOp.name = "none" /\ NoOp.at = "idle"
BY DEF NoOp, OpType

LEMMA HasRead ==
  ASSUME IInv, read' = [read EXCEPT !["op"] = NoRead], turn' \in {"any", "poll"},
         UNCHANGED <<box, path, head, lost>>, TypeTrack', Proceeds, OpInv',
         op' # NoOp => read["op"].at = "tail" /\ (turn = "any") /\ op.name # "check"
  PROVE  TypeInv' /\ ReadInv' /\ Nested' /\ BoxInv'
<1> USE DEF IInv
<1>1. /\ read' \in [Readers -> ReadType] /\ read'["op"] = NoRead /\ read'["poll"] = read["poll"]
      /\ read["poll"] \in ReadType
  BY NoReadIs DEF TypeInv, TypeRest, Readers
<1>2. op' \in OpType
  BY NoOpIs DEF Proceeds
<1>3. TypeInv'
  BY <1>1, <1>2 DEF TypeInv, TypeWorld, TypeTrack, TypeRest
<1>4. ReadInv' /\ BoxInv'
  BY <1>1, NoReadIs DEF ReadInv, BoxInv, Whole, Readers
<1>5. read["op"].at = "tail" => read["op"].left = {}
  BY DEF ReadInv, Readers
<1>6. (op' # NoOp /\ Apart) => read["poll"].at # "boxes"
  <2> SUFFICES ASSUME op' # NoOp, Apart, read["poll"].at = "boxes" PROVE FALSE
    OBVIOUS
  <2>1. read["poll"].left \subseteq {} /\ read["poll"].left # {}
    BY <1>5 DEF OpInv, Nested, ReadInv, Readers
  <2> QED BY <2>1
<1>7. Nested'
  BY <1>1, <1>6, NoOpIs DEF Nested, Apart, Proceeds
<1> QED BY <1>3, <1>4, <1>7

LEMMA WaitEndsKeeps ==
  ASSUME IInv, WaitEnds
  PROVE  IInv'
<1> USE DEF IInv
<1>1. /\ op.at = "wait" /\ read' = [read EXCEPT !["op"] = NoRead]
      /\ UNCHANGED <<box, path, head, owner, episodes, lost>>
  BY DEF WaitEnds, world
<1>2. CASE op' = NoOp
  <2>1. turn' \in {"any", "poll"}
    BY DEF WaitEnds, Exchange, TypeInv
  <2>2. /\ pathOwner' \in {pathOwner, None}
        /\ runout' \in {runout, NoRunout, [runout EXCEPT !.active = FALSE]}
    BY DEF WaitEnds, Succeeds
  <2>a. NoRunout \in RunoutType /\ ~NoRunout.active /\ runout \in RunoutType
    BY DEF NoRunout, RunoutType, TypeInv, TypeTrack
  <2>b. /\ [runout EXCEPT !.active = FALSE] \in RunoutType
        /\ ~[runout EXCEPT !.active = FALSE].active
    BY <2>a DEF RunoutType
  <2>3. TypeTrack' /\ RunoutInv'
    BY <1>1, <2>2, <2>a, <2>b DEF TypeInv, TypeTrack, RunoutInv
  <2>4. OpInv'
    BY <1>1, <1>2, NoOpIs, NoReadIs DEF OpInv, TypeInv, TypeRest, Readers
  <2>5. TypeInv' /\ ReadInv' /\ Nested' /\ BoxInv'
    BY <1>1, <1>2, <2>1, <2>3, <2>4, HasRead DEF Proceeds
  <2>6. PathInv' /\ LoadInv' /\ UnloadInv'
    BY <1>1, <1>2, NoOpIs DEF PathInv, LoadInv, UnloadInv
  <2> QED BY <2>3, <2>4, <2>5, <2>6
<1>3. CASE op' # NoOp
  <2>1. /\ op' = op /\ Exchange("op") /\ Result.at = "tail" /\ UNCHANGED <<runout, pathOwner>>
    BY <1>3 DEF WaitEnds, Fails, Ends, Succeeds
  <2>2. turn = "any" /\ turn' \in {"any", "poll"}
    BY <2>1 DEF Exchange, TypeInv
  <2>3. TypeTrack'
    BY <1>1, <2>1 DEF TypeInv, TypeTrack
  <2>4. OpInv'
    BY <1>1, <2>1, NoReadIs DEF OpInv, TypeInv, TypeRest, Readers
  <2>5. Proceeds /\ op.name # "check"
    BY <1>1, <2>1 DEF Proceeds, TypeInv, TypeRest, OpInv
  <2>6. TypeInv' /\ ReadInv' /\ Nested' /\ BoxInv'
    BY <1>1, <2>1, <2>2, <2>3, <2>4, <2>5, HasRead DEF Result
  <2>7. PathInv' /\ LoadInv' /\ UnloadInv' /\ RunoutInv'
    BY <1>1, <2>1 DEF PathInv, LoadInv, UnloadInv, RunoutInv, B
  <2> QED BY <2>4, <2>6, <2>7
<1> QED BY <1>2, <1>3

\* What follows from what an operation found loaded.
LEMMA DecideIs ==
  ASSUME IInv, op.at \in {"read", "ahead"}, read["op"].at = "tail", Decide
  PROVE  \/ op' = NoOp
         \/ /\ op' \in OpType /\ op'.slot \in Slots
            /\ op'.name = "cut" <=> op.name = "cut"
            /\ \/ op'.at = "off" /\ op'.name \in {"unload", "cut", "buffer", "recover"}
               \/ op'.at = "on" /\ op'.name = "track"
               \/ /\ op'.at = "off" /\ op'.name = "load"
                  /\ head \in {None, op'.slot}
                  /\ lost = 0 => \A b \in Boxes : path[b] \in {None, op'.slot}
<1> USE DEF IInv
<1>1. op \in OpType /\ read["op"] \in ReadType
  BY DEF TypeInv, TypeRest, Readers
<1>2. CASE op.name = "load"
  <2>1. op.slot \in Slots
    BY <1>2 DEF OpInv
  <2>2. CASE ~MayLoad(read["op"].loaded)
    BY <1>2, <2>2 DEF Decide, Result, Fails, Ends, MayLoad
  <2>3. CASE MayLoad(read["op"].loaded) /\ read["op"].loaded = op.slot /\ read["op"].seen
    <3>1. \/ op' = [op EXCEPT !.name = "recover", !.at = "off"]
          \/ op' = [op EXCEPT !.name = "track", !.at = "on"]
      <4> DEFINE known == LET r == read["op"].got[BoxOf[op.slot]] IN
                          r # None /\ FatalEpisode(BoxOf[op.slot], r.status)
      <4>1. IF known THEN op' = [op EXCEPT !.name = "recover", !.at = "off"]
            ELSE op' = [op EXCEPT !.name = "track", !.at = "on"]
        BY <1>2, <2>3 DEF Decide, Result, Becomes
      <4> HIDE DEF known
      <4> QED BY <4>1
    <3> QED BY <1>1, <1>2, <2>1, <3>1 DEF OpType
  <2>4. CASE MayLoad(read["op"].loaded) /\ ~(read["op"].loaded = op.slot /\ read["op"].seen)
    <3>1. op' = [op EXCEPT !.at = "off"]
      BY <1>2, <2>4 DEF Decide, Result, Becomes
    <3>2. ~read["op"].seen
      BY <2>4 DEF MayLoad, ReadInv
    <3>3. head = None
      BY <3>2 DEF ReadInv
    <3>4. lost = 0 => \A b \in Boxes : path[b] \in {None, op.slot}
      BY <2>4 DEF MayLoad, ReadInv
    <3> QED BY <1>1, <1>2, <2>1, <3>1, <3>3, <3>4 DEF OpType
  <2> QED BY <2>2, <2>3, <2>4
<1>3. CASE op.name \in {"unload", "cut"}
  <2>1. \/ op' = NoOp
        \/ read["op"].loaded \in Slots /\ op' = [op EXCEPT !.at = "off", !.slot = read["op"].loaded]
    BY <1>3 DEF Decide, Result, Becomes, Fails, Ends, Unloadable
  <2> QED BY <1>1, <1>3, <2>1 DEF OpType
<1>4. CASE op.name = "buffer"
  <2> DEFINE any == CHOOSE s \in Slots : BoxOf[s] = Min(Boxes)
             slot == IF read["op"].loaded \in Slots THEN read["op"].loaded ELSE any
  <2>1. any \in Slots
    BY MinIs, SomeBox, SlotsAssumption
  <2> HIDE DEF any
  <2>2. op' = [op EXCEPT !.at = "off", !.slot = slot]
    BY <1>4 DEF Decide, Result, Becomes, any
  <2>3. slot \in Slots
    BY <2>1
  <2> HIDE DEF slot
  <2> QED BY <1>1, <1>4, <2>2, <2>3 DEF OpType
<1> QED BY <1>2, <1>3, <1>4 DEF Decide

LEMMA FirstReadKeeps ==
  ASSUME IInv, FirstRead
  PROVE  IInv'
<1> USE DEF IInv
<1>1. /\ op.at \in {"read", "ahead"} /\ read' = [read EXCEPT !["op"] = NoRead]
      /\ UNCHANGED <<box, path, head, owner, pathOwner, episodes, lost>>
  BY DEF FirstRead, world
<1>2. turn' \in {"any", "poll"}
  BY DEF FirstRead, Exchange, TypeInv
<1>3. runout' = runout \/ (op' = NoOp /\ owner # None /\ runout' = [active |-> TRUE, slot |-> owner])
  BY DEF FirstRead, CheckEnds, Ends
<1>a. ASSUME owner # None, runout' = [active |-> TRUE, slot |-> owner]
      PROVE  runout' \in RunoutType /\ runout'.slot = owner
  BY <1>a DEF RunoutType, TypeInv, TypeTrack
<1>b. runout' = runout \/ (owner # None /\ runout' \in RunoutType /\ runout'.slot = owner)
  BY <1>3, <1>a
<1>4. TypeTrack' /\ RunoutInv'
  BY <1>1, <1>b DEF TypeInv, TypeTrack, RunoutInv
<1>5. CASE op' = NoOp
  <2>1. OpInv'
    BY <1>1, <1>5, NoOpIs, NoReadIs DEF OpInv, TypeInv, TypeRest, Readers
  <2>2. TypeInv' /\ ReadInv' /\ Nested' /\ BoxInv'
    BY <1>1, <1>2, <1>4, <1>5, <2>1, HasRead DEF Proceeds
  <2>3. PathInv' /\ LoadInv' /\ UnloadInv'
    BY <1>1, <1>5, NoOpIs DEF PathInv, LoadInv, UnloadInv
  <2> QED BY <1>4, <2>1, <2>2, <2>3
<1>6. CASE op' # NoOp
  <2>1. read["op"].at = "tail" /\ Exchange("op") /\ op.name # "check" /\ Decide
    BY <1>6 DEF FirstRead, Result, CheckEnds, Fails, Ends
  <2>2. turn = "any"
    BY <2>1 DEF Exchange, TypeInv
  <2>3. /\ op' \in OpType /\ op'.slot \in Slots
        /\ op'.name = "cut" <=> op.name = "cut"
        /\ \/ op'.at = "off" /\ op'.name \in {"unload", "cut", "buffer", "recover"}
           \/ op'.at = "on" /\ op'.name = "track"
           \/ /\ op'.at = "off" /\ op'.name = "load"
              /\ head \in {None, op'.slot}
              /\ lost = 0 => \A b \in Boxes : path[b] \in {None, op'.slot}
    BY <1>1, <1>6, <2>1, DecideIs
  <2>4. OpInv'
    BY <1>1, <2>3, NoReadIs DEF OpInv, TypeInv, TypeRest, Readers
  <2>5. TypeInv' /\ ReadInv' /\ Nested' /\ BoxInv'
    BY <1>1, <1>2, <1>4, <2>1, <2>2, <2>3, <2>4, HasRead DEF Proceeds
  <2>6. PathInv' /\ LoadInv' /\ UnloadInv'
    BY <1>1, <2>3 DEF PathInv, LoadInv, UnloadInv
  <2> QED BY <1>4, <2>4, <2>5, <2>6
<1> QED BY <1>5, <1>6

LEMMA PauseSentKeeps ==
  ASSUME IInv, PauseSent
  PROVE  IInv'
<1>1. /\ op' = [op EXCEPT !.abort = TRUE] /\ op # NoOp
      /\ UNCHANGED <<box, path, head, owner, pathOwner, runout, episodes, read, turn, lost>>
  BY DEF PauseSent, world, track
<1>2. /\ op' \in OpType /\ op'.name = op.name /\ op'.at = op.at /\ op'.slot = op.slot
  BY <1>1 DEF IInv, TypeInv, TypeRest, OpType
<1>3. TypeInv'
  BY <1>1, <1>2 DEF IInv, TypeInv, TypeWorld, TypeTrack, TypeRest
<1>4. OpInv' /\ ReadInv' /\ Nested' /\ BoxInv'
  BY <1>1, <1>2 DEF IInv, OpInv, ReadInv, Nested, Apart, BoxInv, Whole
<1>5. PathInv' /\ RunoutInv' /\ LoadInv' /\ UnloadInv'
  BY <1>1, <1>2 DEF IInv, PathInv, RunoutInv, LoadInv, UnloadInv, B
<1> QED BY <1>3, <1>4, <1>5 DEF IInv

LEMMA NoteExternalKeeps ==
  ASSUME IInv, NoteExternal
  PROVE  IInv'
<1> DEFINE h == IF owner = None THEN [View EXCEPT !.ep = [b \in Boxes |-> None]]
                ELSE Disown(View, BoxOf[owner])
<1>1. /\ op = NoOp /\ BecomeView([h EXCEPT !.runout = NoRunout, !.pathOwner = None])
      /\ episodes' = h.ep
      /\ UNCHANGED <<box, path, head, read, op, turn, lost>>
  BY DEF NoteExternal, world
<1>2. View \in ViewType /\ [b \in Boxes |-> None] \in EpisodesType
  BY ViewIs DEF IInv, TypeInv, EpisodesType
<1>3. h \in ViewType
  <2>1. CASE owner = None
    BY <1>2, <2>1 DEF ViewType
  <2>2. CASE owner # None
    BY <1>2, <2>2, DisownIs, BoxOfSlot DEF IInv, TypeInv, TypeTrack
  <2> QED BY <2>1, <2>2
<1> HIDE DEF h
<1>4. NoRunout \in RunoutType /\ ~NoRunout.active
  BY DEF NoRunout, RunoutType
<1>5. TypeTrack' /\ RunoutInv'
  BY <1>1, <1>3, <1>4 DEF BecomeView, ViewType, EpisodesType, TypeTrack, RunoutInv
<1>6. TypeInv'
  BY <1>1, <1>5 DEF IInv, TypeInv, TypeWorld, TypeRest
<1>7. OpInv' /\ ReadInv' /\ Nested' /\ BoxInv'
  BY <1>1 DEF IInv, OpInv, ReadInv, Nested, Apart, BoxInv, Whole
<1>8. PathInv' /\ LoadInv' /\ UnloadInv'
  BY <1>1, NoOpIs DEF IInv, PathInv, LoadInv, UnloadInv
<1> QED BY <1>5, <1>6, <1>7, <1>8 DEF IInv

-----------------------------------------------------------------------------
(***************************************************************************)
(* The steps that move filament or tracking.                               *)
(***************************************************************************)
Acting == op.at \notin {"idle", "read", "ahead", "wait"}

\* The operation ends, or goes on to the step at.
Onward(at) == \E retried \in BOOLEAN : op' = [op EXCEPT !.at = at, !.retried = retried]
EndsOr(ats) == op' = NoOp \/ \E at \in ats : Onward(at)

LEMMA OnwardIs ==
  ASSUME IInv, NEW at, Onward(at)
  PROVE  /\ op'.at = at /\ op'.name = op.name /\ op'.slot = op.slot
         /\ at \in {"off", "stage0", "stage4", "stage5", "stop", "stage6", "stage7", "on", "wait",
                    "retract", "path"} => op' \in OpType
BY DEF Onward, IInv, TypeInv, TypeRest, OpType

LEMMA GoIs ==
  ASSUME IInv, NEW at, Go(at)
  PROVE  EndsOr({at})
<1>1. op = [op EXCEPT !.retried = op.retried] /\ op.retried \in BOOLEAN
  BY DEF IInv, TypeInv, TypeRest, OpType
<1>2. [op EXCEPT !.at = at] = [op EXCEPT !.at = at, !.retried = op.retried]
  BY DEF IInv, TypeInv, TypeRest, OpType
<1> QED BY <1>1, <1>2 DEF Go, Fails, Ends, Becomes, EndsOr, Onward

LEMMA RefusedIs ==
  ASSUME IInv, Refused, Acting
  PROVE  op' = NoOp /\ owner' = owner /\ pathOwner' = pathOwner /\ runout' = runout
         /\ TypeTrack'
<1>1. Episode("fatal", "fatal") \in EpisodeType
  BY DEF Episode, EpisodeType
<1>2. episodes' \in [Boxes -> EpisodeType \cup {None}]
  BY <1>1 DEF Refused, Untouched, IInv, TypeInv, TypeTrack
<1> QED BY <1>2 DEF Refused, Untouched, Fails, Ends, track, IInv, TypeInv, TypeTrack

\* The next steps of each step, by operation.
LEMMA MoveKeeps ==
  ASSUME IInv, Acting, UNCHANGED <<read, lost>>, turn' \in {"any", "poll"},
         TypeWorld', TypeTrack', OpInv',
         NEW ats \in SUBSET {"off", "stage0", "stage4", "stage5", "stop", "stage6", "stage7", "on",
                             "wait", "retract", "path"},
         EndsOr(ats), \A b \in Boxes : box'[b].status \in Statuses => box'[b].state = "error"
  PROVE  TypeInv' /\ ReadInv' /\ Nested' /\ BoxInv'
<1> USE DEF IInv
<1>1. read["op"].at = "no"
  BY DEF OpInv, Acting, TypeInv, TypeRest, Readers, ReadType
<1>2. ~(read["poll"].at = "boxes" /\ Apart)
  BY DEF Nested, Acting
<1>3. \/ op' = NoOp
      \/ /\ op' \in OpType /\ op'.at \notin {"idle", "read", "ahead"}
         /\ op'.name = op.name /\ op'.slot = op.slot
  BY OnwardIs DEF EndsOr
<1>4. TypeInv'
  BY <1>3, NoOpIs DEF TypeInv, TypeRest
<1>5. ReadInv'
  BY <1>1 DEF ReadInv
<1>6. Nested'
  BY <1>2, <1>3, NoOpIs DEF Nested, Apart
<1>7. BoxInv'
  BY <1>1, <1>2 DEF BoxInv, Apart, Whole, Readers
<1> QED BY <1>4, <1>5, <1>6, <1>7

LEMMA MovesIs ==
  ASSUME IInv, Moves
  PROVE  /\ Acting /\ UNCHANGED <<read, lost>> /\ turn' \in {"any", "poll"}
         /\ read["op"].at = "no" /\ op.slot \in Slots /\ B \in Boxes
<1>1. \E at \in {"off", "stage0", "stage4", "stage5", "stop", "stage6", "stage7", "on", "retract",
                  "path"} : OpExchange(at)
  BY DEF Moves, TrackingOff, TrackingOn, LoadStage0, LoadStage4, LoadStage5, LoadStops, LoadStage6,
         LoadStage7, Retracts, UnloadPath
<1>2. Acting /\ UNCHANGED <<read, lost>> /\ turn' \in {"any", "poll"}
  BY <1>1 DEF OpExchange, Exchange, Acting
<1>3. op.slot \in Slots /\ read["op"].at = "no"
  BY <1>2 DEF Acting, IInv, OpInv, TypeInv, TypeRest, Readers, ReadType
<1> QED BY <1>2, <1>3, BoxOfSlot DEF B

\* What a step leaves that changes neither tracking nor faults.
LEMMA UntouchedIs ==
  ASSUME IInv, Untouched
  PROVE  TypeTrack' /\ RunoutInv' /\ owner' = owner
BY DEF Untouched, track, IInv, TypeInv, TypeTrack, RunoutInv

\* An operation that is at an end has nothing more to keep.
LEMMA EndKeeps ==
  ASSUME IInv, Acting, UNCHANGED <<read, lost>>, turn' \in {"any", "poll"}, op' = NoOp,
         TypeWorld', TypeTrack', RunoutInv',
         \A b \in Boxes : box'[b].status \in Statuses => box'[b].state = "error",
         \A b \in Boxes : path'[b] # None => BoxOf[path'[b]] = b,
         lost = 0 => \A b, c \in Boxes : path'[b] # None /\ path'[c] # None => b = c
  PROVE  IInv'
<1>1. OpInv'
  BY NoOpIs DEF IInv, OpInv, Acting, TypeInv, TypeRest, Readers, ReadType
<1>2. EndsOr({})
  BY DEF EndsOr
<1>3. TypeInv' /\ ReadInv' /\ Nested' /\ BoxInv'
  BY <1>1, <1>2, MoveKeeps
<1>4. PathInv' /\ LoadInv' /\ UnloadInv'
  BY NoOpIs DEF PathInv, LoadInv, UnloadInv
<1> QED BY <1>1, <1>3, <1>4 DEF IInv

LEMMA TrackingOffKeeps ==
  ASSUME IInv, TrackingOff
  PROVE  IInv'
<1>1. /\ Acting /\ UNCHANGED <<read, lost>> /\ turn' \in {"any", "poll"}
      /\ read["op"].at = "no" /\ op.slot \in Slots /\ B \in Boxes /\ Moves
  BY MovesIs DEF Moves
<1>2. op.at = "off" /\ UNCHANGED <<path, head>> /\ op.name \in {"load", "recover", "unload", "cut", "buffer"}
  BY DEF TrackingOff, OpExchange, IInv, OpInv
<1>3. box' \in {box, [box EXCEPT ![B] = Idle]}
  BY DEF TrackingOff
<1>4. TypeWorld' /\ \A b \in Boxes : box'[b].status \in Statuses => box'[b].state = "error"
  <2>1. Idle \in BoxType /\ Idle.status \notin Statuses
    BY SlotsAssumption DEF Idle, BoxType
  <2>2. box' \in [Boxes -> BoxType]
    BY <1>1, <1>3, <2>1 DEF IInv, TypeInv, TypeWorld
  <2> QED BY <1>1, <1>2, <1>3, <2>1, <2>2 DEF IInv, TypeInv, TypeWorld, BoxInv
<1>5. CASE Refused
  BY <1>1, <1>2, <1>4, <1>5, RefusedIs, EndKeeps DEF IInv, PathInv, RunoutInv
<1>6. CASE ~Refused
  <2> DEFINE h == Disown(View, B)
  <2>1. /\ BecomeView(h) /\ episodes' = h.ep
        /\ CASE op.name = "load" -> Go("stage0")
             [] op.name = "recover" -> Go("stage6")
             [] op.name = "unload" /\ op.retried -> Go("path")
             [] OTHER -> Go("retract")
    BY <1>6 DEF TrackingOff
  <2>2. /\ h \in ViewType /\ h.owner \in {owner, None} /\ (h.owner # None => BoxOf[h.owner] # B)
        /\ h.runout = runout
    BY <1>1, DisownIs, ViewIs DEF IInv, TypeInv
  <2> HIDE DEF h
  <2>3. TypeTrack' /\ RunoutInv' /\ (owner' # None => BoxOf[owner'] # B)
    BY <2>1, <2>2 DEF BecomeView, ViewType, EpisodesType, TypeTrack, IInv, RunoutInv
  <2>4. CASE op' = NoOp
    BY <1>1, <1>2, <1>4, <2>3, <2>4, EndKeeps DEF IInv, PathInv
  <2>5. CASE op' # NoOp
    <3>1. PICK at \in {"stage0", "stage6", "path", "retract"} :
            /\ Onward(at)
            /\ \/ op.name = "load" /\ at = "stage0"
               \/ op.name = "recover" /\ at = "stage6"
               \/ op.name = "unload" /\ at \in {"path", "retract"}
               \/ op.name \in {"cut", "buffer"} /\ at = "retract"
      <4>1. \/ op.name = "load" /\ Go("stage0")
            \/ op.name = "recover" /\ Go("stage6")
            \/ op.name = "unload" /\ (Go("path") \/ Go("retract"))
            \/ op.name \in {"cut", "buffer"} /\ Go("retract")
        BY <1>2, <2>1
      <4>2. \A a : Go(a) => Onward(a)
        BY <2>5, GoIs DEF EndsOr
      <4> QED BY <4>1, <4>2
    <3>2. /\ op'.at = at /\ op'.name = op.name /\ op'.slot = op.slot
      BY <3>1, OnwardIs
    <3>3. OpInv'
      BY <1>1, <3>1, <3>2 DEF OpInv
    <3>4. TypeInv' /\ ReadInv' /\ Nested' /\ BoxInv'
      <4>1. EndsOr({"stage0", "stage6", "path", "retract"})
        BY <3>1 DEF EndsOr
      <4> QED BY <1>1, <1>4, <2>3, <3>3, <4>1, MoveKeeps
    <3>5. PathInv' /\ LoadInv' /\ UnloadInv'
      BY <1>1, <1>2, <2>3, <3>1, <3>2 DEF IInv, PathInv, LoadInv, UnloadInv, B
    <3> QED BY <2>3, <3>3, <3>4, <3>5 DEF IInv
  <2> QED BY <2>4, <2>5
<1> QED BY <1>5, <1>6

\* An operation ends, or goes on as each of its operations allows.
Ats == {"off", "stage0", "stage4", "stage5", "stop", "stage6", "stage7", "on", "wait", "retract",
        "path"}

LEMMA StepKeeps ==
  ASSUME IInv, Acting, UNCHANGED <<read, lost>>, turn' \in {"any", "poll"},
         TypeWorld', TypeTrack', RunoutInv', NEW ats \in SUBSET Ats, EndsOr(ats),
         \A b \in Boxes : box'[b].status \in Statuses => box'[b].state = "error",
         \A b \in Boxes : path'[b] # None => BoxOf[path'[b]] = b,
         lost = 0 => \A b, c \in Boxes : path'[b] # None /\ path'[c] # None => b = c,
         \A at \in ats : Onward(at) => OpInv' /\ PathInv' /\ LoadInv' /\ UnloadInv'
  PROVE  IInv'
<1>1. CASE op' = NoOp
  BY <1>1, EndKeeps
<1>2. CASE op' # NoOp
  <2>1. OpInv' /\ PathInv' /\ LoadInv' /\ UnloadInv'
    BY <1>2 DEF EndsOr
  <2>2. TypeInv' /\ ReadInv' /\ Nested' /\ BoxInv'
    BY <2>1, MoveKeeps DEF Ats
  <2> QED BY <2>1, <2>2 DEF IInv
<1> QED BY <1>1, <1>2

LEMMA TrackingOnKeeps ==
  ASSUME IInv, TrackingOn
  PROVE  IInv'
<1>1. /\ Acting /\ UNCHANGED <<read, lost>> /\ turn' \in {"any", "poll"}
      /\ read["op"].at = "no" /\ op.slot \in Slots /\ B \in Boxes /\ Moves
  BY MovesIs DEF Moves
<1>2. op.at = "on" /\ UNCHANGED <<path, head>> /\ op.name \in {"load", "recover", "track"}
  BY DEF TrackingOn, OpExchange, IInv, OpInv
<1>3. box' \in {box, [box EXCEPT ![B] = Printing]}
  BY DEF TrackingOn
<1>4. TypeWorld' /\ \A b \in Boxes : box'[b].status \in Statuses => box'[b].state = "error"
  <2>1. Printing \in BoxType /\ Printing.status \notin Statuses
    BY SlotsAssumption DEF Printing, BoxType
  <2>2. box' \in [Boxes -> BoxType]
    BY <1>1, <1>3, <2>1 DEF IInv, TypeInv, TypeWorld
  <2> QED BY <1>1, <1>2, <1>3, <2>1, <2>2 DEF IInv, TypeInv, TypeWorld, BoxInv
<1>5. CASE Refused
  BY <1>1, <1>2, <1>4, <1>5, RefusedIs, EndKeeps DEF IInv, PathInv, RunoutInv
<1>6. CASE ~Refused
  <2> DEFINE h == Own(View, op.slot)
  <2>1. /\ BecomeView(h) /\ episodes' = h.ep
        /\ IF op.name = "track" THEN Ends ELSE Becomes([op EXCEPT !.at = "wait"])
    BY <1>6 DEF TrackingOn
  <2>2. h \in ViewType /\ h.owner = op.slot /\ h.runout = NoRunout
    BY <1>1, OwnIs, ViewIs DEF IInv, TypeInv
  <2> HIDE DEF h
  <2>a. ~NoRunout.active
    BY DEF NoRunout
  <2>3. TypeTrack' /\ RunoutInv' /\ owner' = op.slot
    BY <2>1, <2>2, <2>a DEF BecomeView, ViewType, EpisodesType, TypeTrack, RunoutInv
  <2>4. op' = NoOp \/ (op' = [op EXCEPT !.at = "wait"] /\ op.name \in {"load", "recover"})
    BY <1>2, <2>1 DEF Ends, Becomes
  <2>5. EndsOr({"wait"})
    <3>1. /\ [op EXCEPT !.at = "wait"] = [op EXCEPT !.at = "wait", !.retried = op.retried]
          /\ op.retried \in BOOLEAN
      BY DEF IInv, TypeInv, TypeRest, OpType
    <3> QED BY <2>4, <3>1 DEF EndsOr, Onward
  <2>6. ASSUME Onward("wait") PROVE OpInv' /\ PathInv' /\ LoadInv' /\ UnloadInv'
    <3>1. op'.at = "wait" /\ op'.name = op.name /\ op'.slot = op.slot
      BY <2>6, OnwardIs
    <3>2. op.name \in {"load", "recover"}
      BY <2>4, <3>1, NoOpIs
    <3> QED BY <1>1, <1>2, <2>3, <3>1, <3>2 DEF IInv, OpInv, PathInv, LoadInv, UnloadInv, B
  <2> QED BY <1>1, <1>2, <1>4, <2>3, <2>5, <2>6, StepKeeps DEF IInv, PathInv, Ats
<1> QED BY <1>5, <1>6

LEMMA LoadStage0Keeps ==
  ASSUME IInv, LoadStage0
  PROVE  IInv'
<1>1. /\ Acting /\ UNCHANGED <<read, lost>> /\ turn' \in {"any", "poll"}
      /\ read["op"].at = "no" /\ op.slot \in Slots /\ B \in Boxes /\ Moves
  BY MovesIs DEF Moves
<1>2. op.at = "stage0" /\ UNCHANGED <<box, head>> /\ op.name = "load"
  BY DEF LoadStage0, OpExchange, IInv, OpInv
<1>3. path' \in {path, [path EXCEPT ![B] = op.slot]}
  BY DEF LoadStage0
<1>4. /\ TypeWorld' /\ \A b \in Boxes : box'[b].status \in Statuses => box'[b].state = "error"
      /\ \A b \in Boxes : path'[b] = path[b] \/ (b = B /\ path'[b] = op.slot)
  BY <1>1, <1>2, <1>3 DEF IInv, TypeInv, TypeWorld, BoxInv
<1>5. \A b \in Boxes : path'[b] # None => BoxOf[path'[b]] = b
  BY <1>4 DEF IInv, PathInv, B
<1>6. lost = 0 => \A b, c \in Boxes : path'[b] # None /\ path'[c] # None => b = c
  <2> SUFFICES ASSUME lost = 0, NEW b \in Boxes, path'[b] # None PROVE b = B
    OBVIOUS
  <2>1. path'[b] = op.slot
    BY <1>2, <1>4 DEF IInv, PathInv
  <2> QED BY <1>5, <2>1 DEF B
<1>7. CASE Refused
  BY <1>1, <1>4, <1>5, <1>6, <1>7, RefusedIs, EndKeeps DEF IInv, RunoutInv
<1>8. CASE ~Refused
  <2>1. path'[B] = op.slot /\ Untouched /\ EndsOr({"stage4"})
    BY <1>1, <1>8, GoIs DEF LoadStage0, IInv, TypeInv, TypeWorld
  <2>2. ASSUME Onward("stage4") PROVE OpInv' /\ PathInv' /\ LoadInv' /\ UnloadInv'
    <3>1. op'.at = "stage4" /\ op'.name = op.name /\ op'.slot = op.slot
      BY <2>2, OnwardIs
    <3> QED BY <1>1, <1>2, <1>4, <1>5, <1>6, <2>1, <3>1 DEF IInv, OpInv, PathInv, LoadInv, UnloadInv, B
  <2> QED BY <1>1, <1>4, <1>5, <1>6, <2>1, <2>2, UntouchedIs, StepKeeps DEF Ats
<1> QED BY <1>7, <1>8

\* Stages 4, 5, 6, 7 and the stop leave boxes and hub as they are.
LEMMA LoadStageKeeps ==
  ASSUME IInv, LoadStage4 \/ LoadStage5 \/ LoadStops \/ LoadStage6 \/ LoadStage7
  PROVE  IInv'
<1>1. /\ Acting /\ UNCHANGED <<read, lost>> /\ turn' \in {"any", "poll"}
      /\ read["op"].at = "no" /\ op.slot \in Slots /\ B \in Boxes /\ Moves
  BY MovesIs DEF Moves
<1>2. /\ op.at \in {"stage4", "stage5", "stop", "stage6", "stage7"} /\ UNCHANGED <<box, path>>
      /\ op.name \in {"load", "recover"} /\ (op.at # "stage6" => op.name = "load")
      /\ head' = head \/ (op.at = "stage5" /\ head = None /\ head' = op.slot)
  BY DEF LoadStage4, LoadStage5, LoadStops, LoadStage6, LoadStage7, OpExchange, world, IInv, OpInv
<1>3. TypeWorld' /\ \A b \in Boxes : box'[b].status \in Statuses => box'[b].state = "error"
  BY <1>1, <1>2 DEF IInv, TypeInv, TypeWorld, BoxInv
<1>4. CASE Refused
  BY <1>1, <1>2, <1>3, <1>4, RefusedIs, EndKeeps DEF IInv, PathInv, RunoutInv
<1>5. CASE ~Refused
  <2>1. Untouched
    BY <1>5 DEF LoadStage4, LoadStage5, LoadStops, LoadStage6, LoadStage7
  <2>2. EndsOr({"stage4", "stage5", "stage6", "stage7", "on"})
    <3>1. \A at : Go(at) => EndsOr({at})
      BY GoIs
    <3>2. \A at : op' = [op EXCEPT !.at = at, !.retried = TRUE] => Onward(at)
      BY DEF Onward
    <3> QED BY <1>5, <3>1, <3>2 DEF LoadStage4, LoadStage5, LoadStops, LoadStage6, LoadStage7, Fails, Ends,
               Becomes, EndsOr
  <2>3. ASSUME NEW at \in {"stage4", "stage5", "stage6", "stage7", "on"}, Onward(at)
        PROVE  OpInv' /\ PathInv' /\ LoadInv' /\ UnloadInv'
    <3>1. op'.at = at /\ op'.name = op.name /\ op'.slot = op.slot
      BY <2>3, OnwardIs
    <3>2. at # "stage6" /\ at # "on" => op.name = "load"
      <4>1. op' # NoOp
        BY <3>1, NoOpIs
      <4>2. Go("on") => op'.at = "on"
        BY <4>1, GoIs, OnwardIs DEF EndsOr
      <4> QED BY <1>2, <1>5, <3>1, <4>1, <4>2 DEF LoadStage6, LoadStage4, LoadStage5, LoadStops,
                 LoadStage7, OpExchange, Fails, Ends
    <3>3. OpInv'
      BY <1>1, <1>2, <2>3, <3>1, <3>2 DEF IInv, OpInv
    <3>4. owner' = owner
      BY <2>1 DEF Untouched, track
    <3> QED BY <1>1, <1>2, <2>3, <3>1, <3>3, <3>4 DEF IInv, PathInv, LoadInv, UnloadInv, B
  <2> QED BY <1>1, <1>2, <1>3, <2>1, <2>2, <2>3, UntouchedIs, StepKeeps DEF IInv, PathInv, Ats
<1> QED BY <1>4, <1>5

LEMMA RetractsKeeps ==
  ASSUME IInv, Retracts
  PROVE  IInv'
<1>1. /\ Acting /\ UNCHANGED <<read, lost>> /\ turn' \in {"any", "poll"}
      /\ read["op"].at = "no" /\ op.slot \in Slots /\ B \in Boxes /\ Moves
  BY MovesIs DEF Moves
<1>2. op.at = "retract" /\ UNCHANGED <<box, path>> /\ op.name \in {"unload", "cut", "buffer"}
      /\ head' \in {head, None}
  BY DEF Retracts, OpExchange, IInv, OpInv
<1>3. TypeWorld' /\ \A b \in Boxes : box'[b].status \in Statuses => box'[b].state = "error"
  BY <1>1, <1>2 DEF IInv, TypeInv, TypeWorld, BoxInv
<1>4. CASE Refused
  BY <1>1, <1>2, <1>3, <1>4, RefusedIs, EndKeeps DEF IInv, PathInv, RunoutInv
<1>5. CASE ~Refused
  <2>1. /\ Untouched
        /\ CASE op.name = "unload" -> Go("retract") \/ Go("path")
             [] op.name = "cut" -> Go("retract") \/ (IF op.abort THEN Fails ELSE Ends)
             [] OTHER -> Ends
    BY <1>5 DEF Retracts
  <2>2. \/ op' = NoOp
        \/ op.name = "unload" /\ (Go("retract") \/ Go("path"))
        \/ op.name = "cut" /\ Go("retract")
    BY <1>2, <2>1 DEF Fails, Ends
  <2>3. \/ op' = NoOp
        \/ op.name = "unload" /\ (Onward("retract") \/ Onward("path"))
        \/ op.name = "cut" /\ Onward("retract")
    BY <2>2, GoIs DEF EndsOr
  <2>4. EndsOr({"retract", "path"})
    BY <2>3 DEF EndsOr
  <2>5. ASSUME NEW at \in {"retract", "path"}, Onward(at)
        PROVE  OpInv' /\ PathInv' /\ LoadInv' /\ UnloadInv'
    <3>1. op'.at = at /\ op'.name = op.name /\ op'.slot = op.slot
      BY <2>5, OnwardIs
    <3>2. op.name = "unload" \/ (op.name = "cut" /\ at = "retract")
      BY <2>3, <3>1, NoOpIs, OnwardIs
    <3>3. owner' = owner
      BY <2>1 DEF Untouched, track
    <3> QED BY <1>1, <1>2, <3>1, <3>2, <3>3 DEF IInv, OpInv, PathInv, LoadInv, UnloadInv, B
  <2> QED BY <1>1, <1>2, <1>3, <2>1, <2>4, <2>5, UntouchedIs, StepKeeps DEF IInv, PathInv, Ats
<1> QED BY <1>4, <1>5

LEMMA UnloadPathKeeps ==
  ASSUME IInv, UnloadPath
  PROVE  IInv'
<1>1. /\ Acting /\ UNCHANGED <<read, lost>> /\ turn' \in {"any", "poll"}
      /\ read["op"].at = "no" /\ op.slot \in Slots /\ B \in Boxes /\ Moves
  BY MovesIs DEF Moves
<1>2. /\ op.at = "path" /\ UNCHANGED box /\ op.name = "unload"
      /\ head' \in {head, None} /\ path' \in {path, [path EXCEPT ![B] = None]}
  BY DEF UnloadPath, OpExchange, IInv, OpInv
<1>3. /\ TypeWorld' /\ \A b \in Boxes : box'[b].status \in Statuses => box'[b].state = "error"
      /\ \A b \in Boxes : path'[b] \in {path[b], None}
  BY <1>1, <1>2 DEF IInv, TypeInv, TypeWorld, BoxInv
<1>4. /\ \A b \in Boxes : path'[b] # None => BoxOf[path'[b]] = b
      /\ lost = 0 => \A b, c \in Boxes : path'[b] # None /\ path'[c] # None => b = c
  BY <1>3 DEF IInv, PathInv
<1>5. CASE Refused
  BY <1>1, <1>3, <1>4, <1>5, RefusedIs, EndKeeps DEF IInv, RunoutInv
<1>6. CASE ~Refused
  <2>1. Untouched
    BY <1>6 DEF UnloadPath
  <2>2. \/ op' = NoOp
        \/ path' = [path EXCEPT ![B] = None] /\ Onward("wait")
        \/ Onward("off")
    <3>1. \A at : Go(at) => EndsOr({at})
      BY GoIs
    <3>2. op' = [op EXCEPT !.at = "off", !.retried = TRUE] => Onward("off")
      BY DEF Onward
    <3> QED BY <1>6, <3>1, <3>2 DEF UnloadPath, Fails, Ends, Becomes, EndsOr
  <2>3. EndsOr({"wait", "off"})
    BY <2>2 DEF EndsOr
  <2>4. ASSUME NEW at \in {"wait", "off"}, Onward(at)
        PROVE  OpInv' /\ PathInv' /\ LoadInv' /\ UnloadInv'
    <3>1. op'.at = at /\ op'.name = op.name /\ op'.slot = op.slot
      BY <2>4, OnwardIs
    <3>2. at = "wait" => path'[B] = None
      BY <1>1, <2>2, <3>1, NoOpIs, OnwardIs DEF IInv, TypeInv, TypeWorld
    <3>3. owner' = owner
      BY <2>1 DEF Untouched, track
    <3>4. OpInv'
      BY <1>1, <1>2, <3>1 DEF OpInv
    <3> QED BY <1>1, <1>2, <1>4, <3>1, <3>2, <3>3, <3>4 DEF IInv, PathInv, LoadInv, UnloadInv, B
  <2> QED BY <1>1, <1>3, <1>4, <2>1, <2>3, <2>4, UntouchedIs, StepKeeps DEF Ats
<1> QED BY <1>5, <1>6

\* A deadline, and a retraction that is not made.
LEMMA SkipsKeep ==
  ASSUME IInv, LoadTimeout \/ RetractSkipped
  PROVE  IInv'
<1>1. /\ UNCHANGED <<box, path, head, owner, pathOwner, runout, episodes, read, turn, lost>>
      /\ \/ op.at = "stage5" /\ op' = [op EXCEPT !.at = "stop"]
         \/ op.name = "unload" /\ op.at = "retract" /\ op' = [op EXCEPT !.at = "path"]
  BY DEF LoadTimeout, RetractSkipped, world, track
<1>2. /\ op' \in OpType /\ op'.name = op.name /\ op'.slot = op.slot /\ op.retried \in BOOLEAN
      /\ [op EXCEPT !.at = "stop"] = [op EXCEPT !.at = "stop", !.retried = op.retried]
      /\ [op EXCEPT !.at = "path"] = [op EXCEPT !.at = "path", !.retried = op.retried]
      /\ op'.at \in {"stop", "path"} /\ (op'.at = "stop" => op.at = "stage5")
      /\ (op'.at = "path" => op.name = "unload" /\ op.at = "retract")
  BY <1>1 DEF IInv, TypeInv, TypeRest, OpType
<1>3. Acting /\ EndsOr({"stop", "path"}) /\ turn' \in {"any", "poll"}
  BY <1>1, <1>2 DEF Acting, EndsOr, Onward, IInv, TypeInv
<1>4. /\ TypeWorld' /\ TypeTrack' /\ RunoutInv'
      /\ \A b \in Boxes : box'[b].status \in Statuses => box'[b].state = "error"
  BY <1>1 DEF IInv, TypeInv, TypeWorld, TypeTrack, RunoutInv, BoxInv
<1>5. OpInv'
  BY <1>1, <1>2 DEF IInv, OpInv
<1>6. PathInv' /\ LoadInv' /\ UnloadInv'
  BY <1>1, <1>2 DEF IInv, PathInv, LoadInv, UnloadInv, B
<1> QED BY <1>1, <1>3, <1>4, <1>5, <1>6, StepKeeps DEF IInv, PathInv, Ats

-----------------------------------------------------------------------------
(***************************************************************************)
(* The theorems.                                                           *)
(***************************************************************************)
LEMMA Invariant == Spec => []IInv
<1>1. IInv /\ [Next]_vars => IInv'
  <2> SUFFICES ASSUME IInv, [Next]_vars PROVE IInv'
    OBVIOUS
  <2>1. CASE World
    BY <2>1, WorldKeeps
  <2>2. CASE Poll
    BY <2>2, PollKeeps, ReadBoxKeeps DEF Poll, Readers
  <2>3. CASE Moves
    BY <2>3, TrackingOffKeeps, TrackingOnKeeps, LoadStage0Keeps, LoadStageKeeps, RetractsKeeps,
       UnloadPathKeeps DEF Moves
  <2>4. CASE ReadBox("op") \/ FirstRead \/ LoadTimeout \/ RetractSkipped \/ WaitReads \/ WaitEnds
    BY <2>4, ReadBoxKeeps, FirstReadKeeps, SkipsKeep, WaitReadsKeeps, WaitEndsKeeps DEF Readers
  <2>5. CASE BeginOp \/ PauseSent \/ NoteExternal
    BY <2>5, BeginOpKeeps, PauseSentKeeps, NoteExternalKeeps
  <2>6. CASE UNCHANGED vars
    <3>1. UNCHANGED <<box, path, head, owner, pathOwner, runout, episodes, read, op, turn, lost>>
      BY <2>6 DEF vars, world, track
    <3> QED BY <3>1 DEF IInv, TypeInv, TypeWorld, TypeTrack, TypeRest, OpInv, ReadInv, Nested, Apart, BoxInv,
               Whole, PathInv, RunoutInv, LoadInv, UnloadInv, B
  <2> QED BY <2>1, <2>2, <2>3, <2>4, <2>5, <2>6 DEF Next, Operation
<1> QED BY <1>1, InitHolds, PTL DEF Spec

\* Types, and an operation that is under way has its slot (box.py, 2541-2548, 2736-2760).
THEOREM TypeCorrect == Spec => []TypeOK
<1>1. IInv => TypeOK
  <2>1. ASSUME IInv PROVE read["op"].at # "no" => op # NoOp
    BY <2>1, NoOpIs DEF IInv, OpInv
  <2> QED BY <2>1 DEF IInv, TypeInv, TypeWorld, TypeTrack, BoxType, OpInv, TypeOK
<1> QED BY <1>1, Invariant, PTL

\* As long as every box answers, whatever order the poll and the operations take,
\* no load brings filament into a hub beside that of another box.
THEOREM PathStaysExclusive == Spec => []PathExclusive
<1>1. IInv => PathExclusive
  <2> SUFFICES ASSUME IInv, lost = 0
               PROVE  Cardinality({b \in Boxes : path[b] # None}) <= 1
    BY DEF PathExclusive
  <2> DEFINE S == {b \in Boxes : path[b] # None}
  <2>1. \A b, c \in S : b = c
    BY DEF IInv, PathInv
  <2>2. CASE S = {}
    BY <2>2, FS_EmptySet
  <2>3. CASE S # {}
    <3>1. PICK b \in S : TRUE
      BY <2>3
    <3>2. S = {b}
      BY <2>1, <3>1
    <3> HIDE DEF S
    <3>3. Cardinality({b}) = 1
      BY FS_Singleton
    <3>4. Cardinality(S) <= 1
      BY <3>2, <3>3
    <3> QED BY <3>4 DEF S
  <2> QED BY <2>2, <2>3
<1> QED BY <1>1, Invariant, PTL

\* A runout in progress is that of the path that is tracked, or nothing is tracked.
THEOREM RunoutIsOfPath == Spec => []RunoutOfPath
<1>1. IInv => RunoutOfPath
  BY DEF IInv, RunoutInv, RunoutOfPath
<1> QED BY <1>1, Invariant, PTL

\* A load or an unload that is taken as verified has brought about what it says,
\* whatever the boxes did with exchanges that failed.
THEOREM Delivered == Spec => []OperationsDeliver
<1>1. ASSUME IInv, Accepted("load")
      PROVE  head = op.slot /\ path[B] = op.slot /\ owner = op.slot
  <2>1. /\ op.name = "load" /\ op.at = "wait" /\ read["op"].at = "tail"
        /\ read["op"].loaded = op.slot /\ read["op"].seen /\ Tracking(read["op"])
    BY <1>1 DEF Accepted, Verified, Result
  <2>2. op.slot \in Slots /\ head \in {None, op.slot} /\ path[B] = op.slot
    BY <1>1, <2>1 DEF IInv, OpInv, LoadInv
  <2>3. head # None
    BY <1>1, <2>1 DEF IInv, ReadInv
  <2>4. owner # None /\ BoxOf[owner] = B
    BY <2>1, <2>2 DEF Tracking, PathBox, B
  <2> QED BY <1>1, <2>1, <2>2, <2>3, <2>4 DEF IInv, LoadInv
<1>2. ASSUME IInv, Accepted("unload")
      PROVE  head \notin Slots /\ path[B] = None /\ owner # op.slot
  <2>1. op.name = "unload" /\ op.at = "wait" /\ read["op"].at = "tail" /\ ~read["op"].seen
    BY <1>2 DEF Accepted, Verified, Result
  <2>2. head = None /\ op.slot \in Slots
    BY <1>2, <2>1 DEF IInv, ReadInv, OpInv
  <2>3. path[B] = None /\ (owner # None => BoxOf[owner] # B)
    BY <1>2, <2>1 DEF IInv, UnloadInv
  <2> QED BY <2>2, <2>3, BoxOfSlot DEF B
<1>3. IInv => OperationsDeliver
  BY <1>1, <1>2 DEF OperationsDeliver
<1> QED BY <1>3, Invariant, PTL

\* A reading that latches a fault in an episode of the current epoch finds the box
\* failed, unless it began while a cut was still reading.
THEOREM FaultsAreTrue == Spec => FaultTrue
<1>1. ASSUME IInv, NEW b \in Boxes, NEW p \in Readers, ReadBox(p), Whole(p),
             episodes'[b] # episodes[b], episodes'[b] # None,
             episodes'[b].kind = "fatal", episodes'[b].current
      PROVE  box[b].state = "error"
  <2>1. PICK got \in Gots : TrueReplies(p, got) /\ LatchesTrue(got)
    BY <1>1, ReadBoxIs
  <2> QED BY <1>1, <2>1 DEF TrueReplies, LatchesTrue
<1>2. IInv =>
       [\A b \in Boxes :
         /\ episodes'[b] # episodes[b] /\ episodes'[b] # None
         /\ episodes'[b].kind = "fatal" /\ episodes'[b].current
         /\ \E p \in {"poll", "op"} : ReadBox(p) /\ Whole(p)
         => box[b].state = "error"]_vars
  BY <1>1 DEF Readers
<1> QED BY <1>2, Invariant, PTL DEF FaultTrue
===============================================================================
