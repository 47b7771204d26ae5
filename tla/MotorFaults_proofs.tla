-------------------------- MODULE MotorFaults_proofs --------------------------
(***************************************************************************)
(* Theorems about the protection of the motors, for every set of motors,   *)
(* any number of startup handlers that overlap, and slots empty or not.    *)
(***************************************************************************)
EXTENDS MotorFaults, TLAPS

PollType    == [at : {"idle", "read", "clear", "recheck"}, left : SUBSET Motors,
                found : SUBSET Motors, homing : BOOLEAN]
PendingType == [pending : BOOLEAN, axes : SUBSET Motors, homing : BOOLEAN, startup : BOOLEAN]
CleanType   == [at : {"clear", "verify"}, axes : SUBSET Motors, startup : BOOLEAN]
StartupType == [started : BOOLEAN, complete : BOOLEAN, index : Nat]
HistType    == [attempted : SUBSET (1..NSteps), overlap : BOOLEAN, freed : BOOLEAN]
Timers      == {"startup", "poll", "cleanup"}

TypeStart == startup \in StartupType /\ running \in [Handlers -> 0..NSteps] /\ ready \in BOOLEAN
TypeGuard ==
  /\ poll \in PollType /\ cleanup \in PendingType /\ cleaning \subseteq CleanType
  /\ stall \in [Kinematic -> {"none", "queued", "query"}]
TypeUser ==
  /\ cmd \in {"idle", "home", "home.check", "clear.query", "clear.clear",
              "resume.query", "resume.clear", "resume.recheck"}
  /\ targets \subseteq Motors /\ homing \in BOOLEAN
  /\ print \in {"printing", "pausing", "paused"}
TypeInv ==
  /\ latched \subseteq Motors /\ timer \subseteq Timers /\ down \in BOOLEAN /\ hist \in HistType
  /\ TypeStart /\ TypeGuard /\ TypeUser

\* There are two steps.
LEMMA StepCount == NSteps = 2
BY DEF NSteps, Steps

-----------------------------------------------------------------------------
\* The parts of a step that several actions take.
LEMMA ClearOfType ==
  ASSUME latched \subseteq Motors, NEW axes, NEW l \in ClearOf(axes)
  PROVE  l \subseteq Motors
BY DEF ClearOf

LEMMA FreedType ==
  ASSUME hist \in HistType
  PROVE  /\ Freed \in HistType /\ Freed.attempted = hist.attempted /\ Freed.overlap = hist.overlap
         /\ Freed.freed = (Requiring /\ (hist.freed \/ Extruder \notin latched'))
<1>1. (Requiring /\ (hist.freed \/ Extruder \notin latched')) \in BOOLEAN
  BY DEF Requiring
<1> QED BY <1>1 DEF Freed, HistType

LEMMA HaltsType ==
  ASSUME TypeInv, UserHalts
  PROVE  TypeUser' /\ hist' \in HistType
BY DEF TypeInv, TypeUser, UserHalts, HistType

LEMMA ShutdownType ==
  ASSUME TypeInv, NEW rearmed \in SUBSET Timers, Shutdown(rearmed)
  PROVE  /\ TypeUser' /\ hist' \in HistType /\ timer' \subseteq Timers
         /\ down' \in BOOLEAN /\ ready' \in BOOLEAN
BY HaltsType DEF Shutdown

LEMMA ScheduleType ==
  ASSUME TypeInv, NEW axes \in SUBSET Motors, NEW during, NEW rearmed \in SUBSET Timers,
         Schedule(axes, during, rearmed)
  PROVE  cleanup' \in PendingType /\ timer' \subseteq Timers /\ UNCHANGED <<ready, user, down, hist>>
BY DEF Schedule, TypeInv, TypeGuard, PendingType, Timers

LEMMA FaultType ==
  ASSUME TypeInv, NEW axes \in SUBSET Motors, NEW during, NEW rearmed \in SUBSET Timers,
         KinematicFault(axes, during, rearmed)
  PROVE  /\ TypeUser' /\ hist' \in HistType /\ timer' \subseteq Timers
         /\ down' \in BOOLEAN /\ ready' \in BOOLEAN /\ cleanup' \in PendingType
<1>1. CASE during = "homing"
  BY <1>1, ScheduleType DEF KinematicFault, TypeInv, TypeStart, TypeUser, user
<1>2. CASE during # "homing"
  BY <1>2, ShutdownType DEF KinematicFault, TypeInv, TypeGuard
<1> QED BY <1>1, <1>2

LEMMA StartupStepType ==
  ASSUME TypeInv, Startup
  PROVE  TypeInv'
<1> USE StepCount DEF TypeInv, TypeStart, guard, user
<1>1. ASSUME NEW h \in Handlers, StartupFires(h)
      PROVE  TypeInv'
  <2>1. CASE AllTried
    BY <1>1, <2>1 DEF StartupFires, StartupDone, StartupType, Timers, TypeGuard, TypeUser
  <2>2. CASE ~AllTried
    <3>1. startup.index + 1 \in 0..NSteps
      BY <2>2 DEF AllTried, StartupType
    <3> QED BY <1>1, <2>2, <3>1 DEF StartupFires, TypeGuard, TypeUser
  <2> QED BY <2>1, <2>2
<1>2. ASSUME NEW h \in Handlers, StepEnds(h)
      PROVE  TypeInv'
  <2>1. latched' \subseteq Motors
    BY <1>2, ClearOfType DEF StepEnds, StepWorks
  <2>2. startup' \in StartupType /\ running' \in [Handlers -> 0..NSteps] /\ timer' \subseteq Timers
    BY <1>2 DEF StepEnds, StepReturns, StartupType, Timers
  <2>3. hist' \in HistType
    <3>1. running[h] \in 1..NSteps /\ hist.attempted \in SUBSET (1..NSteps)
      BY <1>2 DEF StepEnds, HistType
    <3> QED BY <1>2, <3>1, FreedType DEF StepEnds, HistType
  <2> QED BY <1>2, <2>1, <2>2, <2>3 DEF StepEnds, TypeGuard, TypeUser
<1>3. CASE StartupFiresLate
  BY <1>3 DEF StartupFiresLate, start, TypeGuard, TypeUser
<1> QED BY <1>1, <1>2, <1>3 DEF Startup

LEMMA CleanupStepType ==
  ASSUME TypeInv, Cleanup
  PROVE  TypeInv'
<1> USE DEF TypeInv, TypeGuard, start, user
<1>a. ASSUME NEW c \in cleaning, CleanupEnds(c)
      PROVE  cleanup' \in PendingType /\ cleaning' \subseteq CleanType /\ timer' \subseteq Timers
  BY <1>a DEF CleanupEnds, NoCleanup, PendingType
<1>1. CASE CleanupFires
  <2>1. [at |-> "clear", axes |-> cleanup.axes, startup |-> cleanup.startup] \in CleanType
    BY DEF CleanType, PendingType
  <2> QED BY <1>1, <2>1 DEF CleanupFires, TypeStart, TypeUser
<1>2. ASSUME NEW c \in cleaning, CleanupClears(c)
      PROVE  TypeInv'
  <2>1. latched' \subseteq Motors
    BY <1>2, ClearOfType DEF CleanupClears
  <2>2. cleanup' \in PendingType /\ cleaning' \subseteq CleanType /\ timer' \subseteq Timers
    <3>1. [c EXCEPT !.at = "verify"] \in CleanType
      BY DEF CleanType
    <3> QED BY <1>2, <1>a, <3>1 DEF CleanupClears
  <2>3. hist' \in HistType
    BY <1>2, FreedType DEF CleanupClears
  <2> QED BY <1>2, <2>1, <2>2, <2>3 DEF CleanupClears, TypeStart, TypeUser
<1>3. ASSUME NEW c \in cleaning, CleanupVerifies(c)
      PROVE  TypeInv'
  BY <1>3, <1>a DEF CleanupVerifies, TypeStart, TypeUser
<1> QED BY <1>1, <1>2, <1>3 DEF Cleanup

LEMMA PollStepType ==
  ASSUME TypeInv, Poll
  PROVE  TypeInv'
<1> USE DEF TypeInv, TypeGuard, start, user
<1>a. IdlePoll \in PollType /\ \A a \in Motors : Kinematic \subseteq Motors
  BY DEF IdlePoll, PollType, Motors
<1>b. ASSUME NEW found \in SUBSET Motors, NEW during, PollEnds(found, during)
      PROVE  /\ poll' \in PollType /\ TypeUser' /\ hist' \in HistType /\ timer' \subseteq Timers
             /\ down' \in BOOLEAN /\ ready' \in BOOLEAN /\ cleanup' \in PendingType
  <2>1. CASE found \cap Kinematic = {}
    BY <1>a, <1>b, <2>1 DEF PollEnds, Timers, TypeStart, TypeUser
  <2>2. CASE found \cap Kinematic # {}
    <3>1. found \cap Kinematic \in SUBSET Motors /\ {"poll"} \in SUBSET Timers
      BY DEF Timers
    <3> QED BY <1>a, <1>b, <2>2, <3>1, FaultType DEF PollEnds
  <2> QED BY <2>1, <2>2
<1>1. CASE PollFires
  <2>1. CASE PollSkips /\ UNCHANGED <<latched, start, guard, user, down, hist>>
    BY <2>1 DEF PollSkips, guard, TypeStart, TypeUser
  <2>2. CASE poll' = [IdlePoll EXCEPT !.at = "read", !.left = Motors] /\ timer' = timer \ {"poll"}
    <3>1. poll' \in PollType
      BY <2>2 DEF IdlePoll, PollType
    <3> QED BY <1>1, <2>2, <3>1 DEF PollFires, PollSkips, guard, TypeStart, TypeUser
  <2> QED BY <1>1, <2>1, <2>2 DEF PollFires
<1>2. ASSUME NEW a \in Motors, PollReads(a)
      PROVE  TypeInv'
  <2>1. PICK f \in SUBSET Motors :
          poll' = [poll EXCEPT !.left = @ \ {a}, !.found = @ \cup f]
    BY <1>2 DEF PollReads
  <2>2. poll' \in PollType
    BY <2>1 DEF PollType
  <2> QED BY <1>2, <2>2 DEF PollReads, TypeStart, TypeUser
<1>3. ASSUME NEW a \in Motors, PollJudges(a)
      PROVE  TypeInv'
  <2>1. PICK f \in SUBSET Motors :
          LET found == poll.found \cup f IN
          IF found # {} /\ Starting
          THEN /\ Schedule(found, "startup", {"poll"})
               /\ poll' = IdlePoll
          ELSE IF Extruder \in found
          THEN /\ poll' = [at |-> "clear", left |-> {}, found |-> found, homing |-> homing]
               /\ print' = Paused(print)
               /\ UNCHANGED <<ready, timer, cleanup, cmd, targets, homing, down, hist>>
          ELSE PollEnds(found, IF homing THEN "homing" ELSE "no")
    BY <1>3 DEF PollJudges
  <2> DEFINE found == poll.found \cup f
  <2>2. found \in SUBSET Motors /\ {"poll"} \in SUBSET Timers
    BY DEF PollType, Timers
  <2> HIDE DEF found
  <2>3. UNCHANGED <<latched, startup, running, cleaning, stall>>
    BY <1>3 DEF PollJudges
  <2>4. CASE Schedule(found, "startup", {"poll"}) /\ poll' = IdlePoll
    BY <1>a, <2>2, <2>3, <2>4, ScheduleType DEF TypeStart, TypeUser
  <2>5. CASE /\ poll' = [at |-> "clear", left |-> {}, found |-> found, homing |-> homing]
             /\ print' = Paused(print)
             /\ UNCHANGED <<ready, timer, cleanup, cmd, targets, homing, down, hist>>
    <3>1. poll' \in PollType
      BY <2>2, <2>5 DEF PollType, TypeUser
    <3> QED BY <2>3, <2>5, <3>1 DEF Paused, TypeStart, TypeUser
  <2>6. CASE PollEnds(found, IF homing THEN "homing" ELSE "no")
    BY <1>b, <2>2, <2>3, <2>6 DEF TypeStart
  <2> QED BY <2>1, <2>4, <2>5, <2>6 DEF found
<1>4. CASE PollClears
  <2>1. latched' \subseteq Motors /\ poll' \in PollType /\ hist' \in HistType
    BY <1>4, ClearOfType, FreedType DEF PollClears, PollType
  <2> QED BY <1>4, <2>1 DEF PollClears, TypeStart, TypeUser
<1>5. CASE PollRechecks
  <2>1. poll.found \in SUBSET Motors
    BY DEF PollType
  <2> QED BY <1>5, <1>b, <2>1 DEF PollRechecks, TypeStart
<1> QED BY <1>1, <1>2, <1>3, <1>4, <1>5 DEF Poll

LEMMA StallStepType ==
  ASSUME TypeInv, StallQuery \/ \E a \in Kinematic : StallPin(a)
  PROVE  TypeInv'
<1> USE DEF TypeInv, TypeGuard, start, user
<1>1. ASSUME NEW a \in Kinematic, StallPin(a) \/ StallStarts(a)
      PROVE  TypeInv'
  BY <1>1 DEF StallPin, StallStarts, TypeStart, TypeUser
<1>2. ASSUME NEW a \in Kinematic, StallVerified(a)
      PROVE  TypeInv'
  <2>1. {a} \in SUBSET Motors /\ {} \in SUBSET Timers
    BY DEF Motors
  <2>2. stall' \in [Kinematic -> {"none", "queued", "query"}]
        /\ UNCHANGED <<latched, startup, running, poll, cleaning>>
    BY <1>2 DEF StallVerified
  <2>3. CASE UNCHANGED <<ready, timer, cleanup, user, down, hist>>
    BY <2>2, <2>3 DEF TypeStart, TypeUser
  <2>4. CASE Schedule({a}, "startup", {})
    BY <2>1, <2>2, <2>4, ScheduleType DEF TypeStart, TypeUser
  <2>5. CASE KinematicFault({a}, "no", {})
    BY <2>1, <2>2, <2>5, FaultType DEF TypeStart
  <2> QED BY <1>2, <2>3, <2>4, <2>5 DEF StallVerified
<1> QED BY <1>1, <1>2 DEF StallQuery

LEMMA CommandStepType ==
  ASSUME TypeInv, Command \/ HomingMove
  PROVE  TypeInv'
<1> USE DEF TypeInv, TypeStart, TypeGuard, TypeUser, start, guard, Becomes
<1>1. CASE HomeEnds \/ CheckAfterHome \/ HomingMove
  BY <1>1 DEF HomeEnds, CheckAfterHome, HomingMove
<1>2. CASE HomingFails
  BY <1>2 DEF HomingFails, ErrorEndsHoming, Timers
<1>3. CASE ClearErrorQueries
  BY <1>3 DEF ClearErrorQueries
<1>4. CASE ClearErrorClears
  <2>1. latched' \subseteq Motors /\ hist' \in HistType
    BY <1>4, ClearOfType, FreedType DEF ClearErrorClears
  <2> QED BY <1>4, <2>1 DEF ClearErrorClears
<1>a. Require \in HistType /\ Unasked \in HistType
  BY DEF Require, Unasked, HistType
<1>5. CASE ResumeQueries
  BY <1>5, <1>a DEF ResumeQueries, RequirePasses, RequireFails
<1>6. CASE ResumeClears
  <2>1. latched' \subseteq Motors /\ hist' \in HistType
    BY <1>6, <1>a, ClearOfType, FreedType DEF ResumeClears
  <2> QED BY <1>6, <2>1 DEF ResumeClears
<1>7. CASE ResumeRechecks
  BY <1>7, <1>a DEF ResumeRechecks, RequirePasses, RequireFails
<1> QED BY <1>1, <1>2, <1>3, <1>4, <1>5, <1>6, <1>7 DEF Command

LEMMA UserStepType ==
  ASSUME TypeInv, User \/ SerialReady \/ KlippyShutdown \/ MotorError
  PROVE  TypeInv'
<1> USE DEF TypeInv, TypeStart, TypeGuard, start, guard, user
<1>a. ASSUME ResetStartupState
      PROVE  /\ startup' \in StartupType /\ ready' \in BOOLEAN /\ cleanup' \in PendingType
             /\ timer' \subseteq Timers
  BY <1>a DEF ResetStartupState, StartupType, NoCleanup, PendingType, Timers
<1>1. CASE SerialReady
  BY <1>1, <1>a DEF SerialReady, TypeUser
<1>2. CASE RetryStartup
  <2>1. Stepping \in BOOLEAN
    BY DEF Stepping
  <2>2. hist' \in HistType
    BY <1>2, <2>1 DEF RetryStartup, HistType
  <2> QED BY <1>2, <1>a, <2>2 DEF RetryStartup, TypeUser
<1>3. CASE HomeBegins \/ ClearErrorBegins \/ PauseSent \/ PauseRuns
  BY <1>3 DEF HomeBegins, ClearErrorBegins, PauseSent, PauseRuns, Becomes, TypeUser
<1>4. CASE ResumeBegins
  BY <1>4 DEF ResumeBegins, Becomes, Require, HistType, TypeUser
<1>5. CASE KlippyShutdown
  <2>1. {} \in SUBSET Timers
    OBVIOUS
  <2> QED BY <1>5, <2>1, ShutdownType DEF KlippyShutdown
<1>6. CASE MotorError
  BY <1>6 DEF MotorError, TypeUser
<1> QED BY <1>1, <1>2, <1>3, <1>4, <1>5, <1>6 DEF User

LEMMA TypeStep ==
  ASSUME TypeInv, [Next]_vars
  PROVE  TypeInv'
<1>1. CASE Next
  BY <1>1, StartupStepType, CleanupStepType, PollStepType, StallStepType, CommandStepType,
     UserStepType DEF Next
<1>2. CASE UNCHANGED vars
  BY <1>2 DEF vars, start, guard, user, TypeInv, TypeStart, TypeGuard, TypeUser
<1> QED BY <1>1, <1>2

LEMMA TypeInit == Init => TypeInv
<1> SUFFICES ASSUME Init PROVE TypeInv
  OBVIOUS
<1>1. TypeStart
  <2>1. startup \in StartupType
    BY DEF Init, StartupType
  <2>2. running \in [Handlers -> 0..NSteps] /\ ready \in BOOLEAN
    <3>1. 0 \in 0..NSteps
      BY StepCount
    <3> QED BY <3>1 DEF Init
  <2> QED BY <2>1, <2>2 DEF TypeStart
<1>2. TypeGuard
  BY DEF Init, TypeGuard, IdlePoll, NoCleanup, PollType, PendingType
<1>3. TypeUser /\ hist \in HistType
  BY DEF Init, TypeUser, HistType
<1> QED BY <1>1, <1>2, <1>3 DEF Init, TypeInv

\* The fields of the motors and the places of the handlers have their types; the
\* index of the startup has no bound, as every handler that overlaps raises it.
THEOREM TypeCorrect == Spec => []TypeOK
<1>1. TypeInv => TypeOK
  BY DEF TypeInv, TypeStart, TypeGuard, TypeUser, PollType, PendingType, CleanType, StartupType,
     HistType, Timers, TypeOK
<1> QED BY <1>1, TypeInit, TypeStep, PTL DEF Spec

-----------------------------------------------------------------------------
(* Startup: what makes StepsAttempted inductive.                           *)

\* Nothing of the startup has happened before serial_485:ready.
Unstarted ==
  ~startup.started =>
    /\ startup.index = 0 /\ ~startup.complete
    /\ ~Stepping /\ "startup" \notin timer /\ ~hist.overlap

\* Unless a startup was begun over a running step, one step runs at a time, the
\* timer is not armed meanwhile, and index is the number of the steps tried.
OneByOne ==
  /\ "startup" \in timer => ~Stepping
  /\ \A g, h \in Handlers : running[g] # 0 /\ running[h] # 0 => g = h
  /\ \A h \in Handlers : running[h] # 0 => ~startup.complete /\ running[h] = startup.index + 1
  /\ startup.index <= NSteps /\ hist.attempted = 1..startup.index
  /\ startup.complete => startup.index = NSteps /\ "startup" \notin timer

StartupInv ==
  /\ ready => startup.complete
  /\ Unstarted
  /\ ~hist.overlap => OneByOne

\* While a RESUME waits for the extruder, it has been clear, or it is not.
LatchInv == Requiring => hist.freed \/ Extruder \in latched

\* A step that is not of the startup leaves what it needs alone: the timer may be
\* stopped, by a shutdown, but is not armed.
Aside ==
  /\ UNCHANGED <<startup, running>> /\ (ready' => ready)
  /\ "startup" \in timer' => "startup" \in timer
  /\ hist'.attempted = hist.attempted /\ hist'.overlap = hist.overlap

LEMMA AsideKeeps ==
  ASSUME TypeInv, StartupInv, Aside
  PROVE  StartupInv'
BY DEF StartupInv, Unstarted, OneByOne, Aside, Stepping

LEMMA ShutdownAside ==
  ASSUME TypeInv, NEW rearmed \in SUBSET {"poll"}, Shutdown(rearmed)
  PROVE  /\ ready' => ready
         /\ "startup" \in timer' => "startup" \in timer
         /\ hist'.attempted = hist.attempted /\ hist'.overlap = hist.overlap
BY DEF Shutdown, UserHalts, TypeInv, HistType

LEMMA FaultAside ==
  ASSUME TypeInv, NEW axes, NEW during, NEW rearmed \in SUBSET {"poll"},
         Schedule(axes, during, rearmed) \/ KinematicFault(axes, during, rearmed)
  PROVE  /\ ready' => ready
         /\ "startup" \in timer' => "startup" \in timer
         /\ hist'.attempted = hist.attempted /\ hist'.overlap = hist.overlap
<1>1. CASE Schedule(axes, during, rearmed)
  BY <1>1 DEF Schedule
<1>2. CASE Shutdown(rearmed)
  BY <1>2, ShutdownAside
<1> QED BY <1>1, <1>2 DEF KinematicFault

LEMMA PollAside ==
  ASSUME TypeInv, Poll
  PROVE  Aside
<1> USE DEF Aside, start, guard, user
<1>1. CASE PollFires
  BY <1>1 DEF PollFires, PollSkips
<1>2. ASSUME NEW a \in Motors, PollReads(a)
      PROVE  Aside
  BY <1>2 DEF PollReads
<1>a. ASSUME NEW found, NEW during, PollEnds(found, during), UNCHANGED <<startup, running>>
      PROVE  Aside
  <2>1. CASE found \cap Kinematic = {}
    BY <1>a, <2>1 DEF PollEnds
  <2>2. CASE KinematicFault(found \cap Kinematic, during, {"poll"})
    BY <1>a, <2>2, FaultAside
  <2> QED BY <1>a, <2>1, <2>2 DEF PollEnds
<1>3. ASSUME NEW a \in Motors, PollJudges(a)
      PROVE  Aside
  <2>1. PICK found :
          \/ Schedule(found, "startup", {"poll"})
          \/ UNCHANGED <<ready, timer, cleanup, cmd, targets, homing, down, hist>>
          \/ PollEnds(found, IF homing THEN "homing" ELSE "no")
    BY <1>3 DEF PollJudges
  <2>2. UNCHANGED <<startup, running>>
    BY <1>3 DEF PollJudges
  <2>3. CASE Schedule(found, "startup", {"poll"})
    BY <2>2, <2>3, FaultAside
  <2>4. CASE UNCHANGED <<ready, timer, cleanup, cmd, targets, homing, down, hist>>
    BY <2>2, <2>4
  <2> QED BY <1>a, <2>1, <2>2, <2>3, <2>4
<1>4. CASE PollClears
  BY <1>4, FreedType DEF PollClears, TypeInv
<1>5. CASE PollRechecks
  BY <1>5, <1>a DEF PollRechecks
<1> QED BY <1>1, <1>2, <1>3, <1>4, <1>5 DEF Poll

LEMMA GuardAside ==
  ASSUME TypeInv, Cleanup \/ StallQuery \/ (\E a \in Kinematic : StallPin(a)) \/ KlippyShutdown
  PROVE  Aside
<1> USE DEF Aside, start, guard, user
<1>1. CASE CleanupFires
  BY <1>1 DEF CleanupFires
<1>2. ASSUME NEW c \in cleaning, CleanupClears(c) \/ CleanupVerifies(c)
      PROVE  Aside
  BY <1>2, FreedType DEF CleanupClears, CleanupVerifies, CleanupEnds, TypeInv
<1>3. ASSUME NEW a \in Kinematic, StallStarts(a) \/ StallPin(a)
      PROVE  Aside
  BY <1>3 DEF StallStarts, StallPin
<1>4. ASSUME NEW a \in Kinematic, StallVerified(a)
      PROVE  Aside
  <2>1. UNCHANGED <<startup, running>>
    BY <1>4 DEF StallVerified
  <2>2. CASE UNCHANGED <<ready, timer, cleanup, user, down, hist>>
    BY <2>1, <2>2
  <2>3. CASE Schedule({a}, "startup", {}) \/ KinematicFault({a}, "no", {})
    BY <2>1, <2>3, FaultAside
  <2> QED BY <1>4, <2>2, <2>3 DEF StallVerified
<1>5. CASE KlippyShutdown
  BY <1>5, ShutdownAside DEF KlippyShutdown
<1> QED BY <1>1, <1>2, <1>3, <1>4, <1>5 DEF Cleanup, StallQuery

LEMMA CommandAside ==
  ASSUME TypeInv, Command \/ HomingMove \/ MotorError
  PROVE  Aside
<1> USE DEF Aside, start, guard, user, TypeInv
<1>a. ASSUME NEW freed, hist' = [hist EXCEPT !.freed = freed]
      PROVE  hist'.attempted = hist.attempted /\ hist'.overlap = hist.overlap
  BY <1>a DEF HistType
<1>1. CASE HomeEnds \/ CheckAfterHome \/ HomingMove \/ HomingFails \/ MotorError
  BY <1>1 DEF HomeEnds, CheckAfterHome, HomingMove, HomingFails, MotorError
<1>2. CASE ClearErrorQueries
  BY <1>2 DEF ClearErrorQueries
<1>3. CASE ClearErrorClears
  BY <1>3, FreedType DEF ClearErrorClears
<1>4. CASE ResumeQueries
  BY <1>4, <1>a DEF ResumeQueries, RequirePasses, RequireFails, Require, Unasked
<1>5. CASE ResumeClears
  BY <1>5, <1>a, FreedType DEF ResumeClears, Unasked
<1>6. CASE ResumeRechecks
  BY <1>6, <1>a DEF ResumeRechecks, RequirePasses, RequireFails, Require, Unasked
<1> QED BY <1>1, <1>2, <1>3, <1>4, <1>5, <1>6 DEF Command

\* The startup's own steps.
LEMMA StartupKeeps ==
  ASSUME TypeInv, StartupInv, Startup
  PROVE  StartupInv'
<1> USE StepCount DEF StartupInv, Unstarted, Stepping
<1>1. ASSUME NEW h \in Handlers, StartupFires(h)
      PROVE  StartupInv'
  <2>0. startup.started /\ ~startup.complete /\ UNCHANGED hist /\ startup.index \in Nat
    BY <1>1 DEF StartupFires, TypeInv, TypeStart, StartupType
  <2>1. CASE AllTried
    <3>1. /\ startup' = [startup EXCEPT !.complete = TRUE] /\ UNCHANGED running
          /\ "startup" \notin timer'
      BY <1>1, <2>1 DEF StartupFires, StartupDone
    <3>2. startup'.complete /\ startup'.started /\ startup'.index = startup.index
      BY <2>0, <3>1 DEF TypeInv, TypeStart, StartupType
    <3>3. ASSUME ~hist.overlap PROVE OneByOne'
      <4>1. ~Stepping /\ startup.index = NSteps
        BY <1>1, <2>0, <2>1, <3>3 DEF OneByOne, AllTried, StartupFires
      <4> QED BY <2>0, <3>1, <3>2, <3>3, <4>1 DEF OneByOne
    <3> QED BY <2>0, <3>1, <3>2, <3>3
  <2>2. CASE ~AllTried
    <3>1. /\ running' = [running EXCEPT ![h] = startup.index + 1] /\ "startup" \notin timer'
          /\ UNCHANGED <<startup, ready>>
      BY <1>1, <2>2 DEF StartupFires
    <3>2. ASSUME ~hist.overlap PROVE OneByOne'
      <4>1. \A g \in Handlers : running[g] = 0
        BY <1>1, <3>2 DEF OneByOne, StartupFires
      <4>2. \A g \in Handlers : running'[g] # 0 => g = h /\ running'[g] = startup.index + 1
        BY <3>1, <4>1 DEF TypeInv, TypeStart
      <4> QED BY <2>0, <3>1, <3>2, <4>2 DEF OneByOne
    <3> QED BY <2>0, <3>1, <3>2
  <2> QED BY <2>1, <2>2
<1>2. ASSUME NEW h \in Handlers, StepEnds(h)
      PROVE  StartupInv'
  <2>1. /\ running[h] # 0 /\ running' = [running EXCEPT ![h] = 0]
        /\ startup' = [startup EXCEPT !.index = @ + 1] /\ UNCHANGED ready
    BY <1>2 DEF StepEnds
  <2>2. /\ startup'.index = startup.index + 1 /\ startup'.started = startup.started
        /\ startup'.complete = startup.complete /\ startup.index \in Nat
    BY <2>1 DEF TypeInv, TypeStart, StartupType
  <2>3. startup.started
    BY <2>1
  <2>4. /\ hist'.overlap = hist.overlap
        /\ ~hist.overlap => hist'.attempted = hist.attempted \cup {running[h]}
    BY <1>2, FreedType DEF StepEnds, TypeInv, HistType
  <2>5. ASSUME ~hist.overlap PROVE OneByOne'
    <3>1. /\ running[h] = startup.index + 1 /\ ~startup.complete
          /\ hist.attempted = 1..startup.index
      BY <2>1, <2>5 DEF OneByOne
    <3>2. startup.index + 1 <= NSteps
      BY <3>1 DEF TypeInv, TypeStart
    <3>3. hist'.attempted = 1..(startup.index + 1)
      <4>1. \A n \in Nat : (1..n) \cup {n + 1} = 1..(n + 1)
        OBVIOUS
      <4> QED BY <2>2, <2>4, <2>5, <3>1, <4>1
    <3>4. \A g \in Handlers : running'[g] = 0
      BY <2>1, <2>5 DEF OneByOne, TypeInv, TypeStart
    <3> QED BY <2>2, <3>1, <3>2, <3>3, <3>4 DEF OneByOne
  <2> QED BY <2>1, <2>2, <2>3, <2>4, <2>5
<1>3. CASE StartupFiresLate
  BY <1>3 DEF StartupFiresLate, start, OneByOne
<1> QED BY <1>1, <1>2, <1>3 DEF Startup

\* A startup begins, or begins again.
LEMMA ResetKeeps ==
  ASSUME TypeInv, StartupInv, SerialReady \/ RetryStartup
  PROVE  StartupInv'
<1> USE StepCount DEF StartupInv, Unstarted
<1>1. /\ startup' = [started |-> TRUE, complete |-> FALSE, index |-> 0] /\ ready' = FALSE
      /\ UNCHANGED running /\ Stepping' = Stepping
  BY DEF SerialReady, RetryStartup, ResetStartupState, Stepping
<1>2. hist'.overlap = Stepping /\ (~hist'.overlap => hist'.attempted = {})
  <2>1. CASE SerialReady
    <3>1. startup.index = 0 /\ ~Stepping /\ ~hist.overlap /\ UNCHANGED hist
      BY <2>1 DEF SerialReady
    <3>2. hist.overlap \in BOOLEAN /\ Stepping \in BOOLEAN
      BY DEF TypeInv, HistType, Stepping
    <3>3. hist.attempted = 1..0
      BY <3>1 DEF OneByOne
    <3> QED BY <3>1, <3>2, <3>3
  <2>2. CASE RetryStartup
    BY <2>2 DEF RetryStartup, TypeInv, HistType
  <2> QED BY <2>1, <2>2
<1>3. ASSUME ~Stepping, hist'.attempted = {} PROVE OneByOne'
  BY <1>1, <1>3 DEF OneByOne, Stepping
<1> QED BY <1>1, <1>2, <1>3

LEMMA StartupStep ==
  ASSUME TypeInv, StartupInv, [Next]_vars
  PROVE  StartupInv'
<1>1. CASE UNCHANGED vars
  BY <1>1, AsideKeeps DEF vars, start, Aside
<1>2. CASE HomeBegins \/ ClearErrorBegins \/ PauseSent \/ PauseRuns \/ ResumeBegins
  <2>1. Aside
    BY <1>2 DEF HomeBegins, ClearErrorBegins, PauseSent, PauseRuns, ResumeBegins, Require, start,
       guard, Aside, TypeInv, HistType
  <2> QED BY <2>1, AsideKeeps
<1> QED BY <1>1, <1>2, AsideKeeps, PollAside, GuardAside, CommandAside, StartupKeeps, ResetKeeps
        DEF Next, User

\* The motors are reported ready only when every step of the startup was tried,
\* unless it was begun again while a step was waiting for the bus.
THEOREM StartupComplete == Spec => []StepsAttempted
<1>1. Init => TypeInv /\ StartupInv
  BY TypeInit, StepCount DEF Init, StartupInv, Unstarted, OneByOne, Stepping
<1>2. TypeInv /\ StartupInv => StepsAttempted
  BY DEF StartupInv, OneByOne, StepsAttempted
<1> QED BY <1>1, <1>2, TypeStep, StartupStep, PTL DEF Spec
-----------------------------------------------------------------------------
(* RESUME: what makes ResumeClean hold of every step.                      *)

\* A step keeps LatchInv when it ends the command, sets no latch free, or notes
\* that it does.
LEMMA NotedKeeps ==
  ASSUME LatchInv,
         \/ ~Requiring'
         \/ UNCHANGED cmd /\ hist'.freed = hist.freed /\ latched \subseteq latched'
         \/ UNCHANGED cmd /\ hist'.freed = (Requiring /\ (hist.freed \/ Extruder \notin latched'))
  PROVE  LatchInv'
BY DEF LatchInv, Requiring

LEMMA FaultNotes ==
  ASSUME LatchInv, UNCHANGED latched, NEW axes, NEW during, NEW rearmed,
         Schedule(axes, during, rearmed) \/ KinematicFault(axes, during, rearmed)
  PROVE  LatchInv'
<1>1. CASE Schedule(axes, during, rearmed)
  BY <1>1, NotedKeeps DEF Schedule, user
<1>2. CASE Shutdown(rearmed)
  BY <1>2, NotedKeeps DEF Shutdown, UserHalts, Requiring
<1> QED BY <1>1, <1>2 DEF KinematicFault

LEMMA PollNotes ==
  ASSUME TypeInv, LatchInv, Poll
  PROVE  LatchInv'
<1> USE DEF user
<1>1. CASE PollFires \/ \E a \in Motors : PollReads(a)
  BY <1>1, NotedKeeps DEF PollFires, PollReads
<1>a. ASSUME NEW found, NEW during, PollEnds(found, during), UNCHANGED latched
      PROVE  LatchInv'
  BY <1>a, NotedKeeps, FaultNotes DEF PollEnds
<1>2. ASSUME NEW a \in Motors, PollJudges(a)
      PROVE  LatchInv'
  <2>1. PICK found :
          \/ Schedule(found, "startup", {"poll"})
          \/ UNCHANGED <<ready, timer, cleanup, cmd, targets, homing, down, hist>>
          \/ PollEnds(found, IF homing THEN "homing" ELSE "no")
    BY <1>2 DEF PollJudges
  <2>2. UNCHANGED latched
    BY <1>2 DEF PollJudges
  <2> QED BY <1>a, <2>1, <2>2, NotedKeeps, FaultNotes
<1>3. CASE PollClears
  BY <1>3, FreedType, NotedKeeps DEF PollClears, TypeInv
<1>4. CASE PollRechecks
  BY <1>4, <1>a DEF PollRechecks
<1> QED BY <1>1, <1>2, <1>3, <1>4 DEF Poll

LEMMA GuardNotes ==
  ASSUME TypeInv, LatchInv,
         \/ Cleanup \/ StallQuery \/ (\E a \in Kinematic : StallPin(a)) \/ KlippyShutdown
         \/ Startup \/ SerialReady \/ RetryStartup
  PROVE  LatchInv'
<1> USE DEF user
<1>1. ASSUME CleanupFires \/ StartupFiresLate \/ SerialReady
      PROVE  LatchInv'
  BY <1>1, NotedKeeps DEF CleanupFires, StartupFiresLate, SerialReady
<1>2. ASSUME NEW c \in cleaning, CleanupClears(c) \/ CleanupVerifies(c)
      PROVE  LatchInv'
  BY <1>2, FreedType, NotedKeeps DEF CleanupClears, CleanupVerifies, TypeInv
<1>3. ASSUME NEW a \in Kinematic, StallStarts(a) \/ StallPin(a) \/ StallVerified(a)
      PROVE  LatchInv'
  BY <1>3, NotedKeeps, FaultNotes DEF StallStarts, StallPin, StallVerified
<1>4. CASE KlippyShutdown
  BY <1>4, NotedKeeps DEF KlippyShutdown, Shutdown, UserHalts, Requiring
<1>5. ASSUME NEW h \in Handlers, StartupFires(h)
      PROVE  LatchInv'
  BY <1>5, NotedKeeps DEF StartupFires
<1>6. ASSUME NEW h \in Handlers, StepEnds(h)
      PROVE  LatchInv'
  <2>1. hist'.freed = (Requiring /\ (hist.freed \/ Extruder \notin latched')) /\ UNCHANGED cmd
    BY <1>6, FreedType DEF StepEnds, TypeInv, HistType
  <2> QED BY <2>1, NotedKeeps
<1>7. CASE RetryStartup
  <2>1. hist'.freed = hist.freed /\ UNCHANGED <<cmd, latched>>
    BY <1>7 DEF RetryStartup, TypeInv, HistType
  <2> QED BY <2>1, NotedKeeps
<1> QED BY <1>1, <1>2, <1>3, <1>4, <1>5, <1>6, <1>7 DEF Cleanup, StallQuery, Startup

LEMMA CommandNotes ==
  ASSUME TypeInv, LatchInv,
         \/ Command \/ HomingMove \/ MotorError
         \/ HomeBegins \/ ClearErrorBegins \/ PauseSent \/ PauseRuns \/ ResumeBegins
  PROVE  LatchInv'
<1> USE DEF TypeInv, Becomes, Requiring
<1>1. CASE \/ HomeEnds \/ CheckAfterHome \/ HomingFails \/ ClearErrorQueries
           \/ HomeBegins \/ ClearErrorBegins
  BY <1>1, NotedKeeps DEF HomeEnds, CheckAfterHome, HomingFails, ClearErrorQueries, HomeBegins,
     ClearErrorBegins
<1>2. CASE HomingMove \/ MotorError \/ PauseSent \/ PauseRuns
  BY <1>2, NotedKeeps DEF HomingMove, MotorError, PauseSent, PauseRuns, user
<1>3. CASE ClearErrorClears
  BY <1>3, NotedKeeps DEF ClearErrorClears
<1>a. ASSUME hist' = Require, UNCHANGED latched PROVE LatchInv'
  BY <1>a DEF Require, HistType, LatchInv
<1>4. CASE ResumeBegins
  BY <1>4, <1>a DEF ResumeBegins
<1>5. CASE ResumeQueries
  BY <1>5, <1>a DEF ResumeQueries, RequirePasses, RequireFails, LatchInv
<1>6. CASE ResumeClears
  BY <1>6, FreedType DEF ResumeClears, LatchInv
<1>7. CASE ResumeRechecks
  BY <1>7, <1>a DEF ResumeRechecks, RequirePasses, RequireFails, LatchInv
<1> QED BY <1>1, <1>2, <1>3, <1>4, <1>5, <1>6, <1>7 DEF Command

LEMMA LatchStep ==
  ASSUME TypeInv, LatchInv, [Next]_vars
  PROVE  LatchInv'
<1>1. CASE UNCHANGED vars
  BY <1>1, NotedKeeps DEF vars, user
<1> QED BY <1>1, PollNotes, GuardNotes, CommandNotes DEF Next, User

\* Who lets the print go on.
LEMMA PrintGoesOn ==
  ASSUME TypeInv, [Next]_vars, print = "paused", print' = "printing", ~down'
  PROVE  /\ ResumeQueries \/ ResumeRechecks
         /\ RequirePasses /\ Extruder \notin latched /\ Requiring
<1> USE DEF user
<1>a. ASSUME NEW axes, NEW during, NEW rearmed
      PROVE  ~Schedule(axes, during, rearmed) /\ ~KinematicFault(axes, during, rearmed)
  BY DEF KinematicFault, Schedule, Shutdown
<1>1. ~SerialReady /\ ~RetryStartup /\ ~Startup
  BY DEF SerialReady, RetryStartup, Startup, StartupFires, StepEnds, StartupFiresLate
<1>2. ~Cleanup
  BY DEF Cleanup, CleanupFires, CleanupClears, CleanupVerifies
<1>3. ~Poll
  <2>1. ASSUME NEW found, NEW during PROVE ~PollEnds(found, during)
    BY <1>a DEF PollEnds
  <2>2. ASSUME NEW a \in Motors PROVE ~PollJudges(a)
    <3>1. SUFFICES ASSUME PollJudges(a) PROVE FALSE
      OBVIOUS
    <3>2. PICK found :
            \/ Schedule(found, "startup", {"poll"})
            \/ print' = Paused(print)
            \/ PollEnds(found, IF homing THEN "homing" ELSE "no")
      BY <3>1 DEF PollJudges
    <3> QED BY <1>a, <2>1, <3>2 DEF Paused
  <2>3. ~PollFires /\ ~PollClears /\ \A a \in Motors : ~PollReads(a)
    BY DEF PollFires, PollClears, PollReads
  <2> QED BY <2>1, <2>2, <2>3 DEF Poll, PollRechecks
<1>4. ~StallQuery /\ \A a \in Kinematic : ~StallPin(a)
  BY <1>a DEF StallQuery, StallPin, StallStarts, StallVerified
<1>5. ~HomingMove /\ ~KlippyShutdown /\ ~MotorError
  BY DEF HomingMove, KlippyShutdown, Shutdown, MotorError
<1>6. ~HomeBegins /\ ~ClearErrorBegins /\ ~PauseSent /\ ~PauseRuns /\ ~ResumeBegins
  BY DEF HomeBegins, ClearErrorBegins, PauseSent, PauseRuns, ResumeBegins
<1>7. /\ ~HomeEnds /\ ~CheckAfterHome /\ ~HomingFails
      /\ ~ClearErrorQueries /\ ~ClearErrorClears /\ ~ResumeClears
  BY DEF HomeEnds, CheckAfterHome, HomingFails, ClearErrorQueries, ClearErrorClears, ResumeClears
<1>8. ResumeQueries \/ ResumeRechecks
  BY <1>1, <1>2, <1>3, <1>4, <1>5, <1>6, <1>7 DEF Next, User, Command, vars
<1> QED BY <1>8 DEF ResumeQueries, ResumeRechecks, RequireFails, RecheckClear, Requiring

\* RESUME_BASE is reached only if the extruder's error was clear at some time of
\* the REQUIRE_EXTRUDER_CLEAR before it, whoever cleared it.
THEOREM ResumeIsClean == Spec => ResumeClean
<1>1. Init => TypeInv /\ LatchInv
  BY TypeInit DEF Init, LatchInv, Requiring
<1>2. ASSUME TypeInv, LatchInv, [Next]_vars
      PROVE  [print = "paused" /\ print' = "printing" /\ ~down' => hist.freed]_vars
  BY <1>2, PrintGoesOn DEF LatchInv
<1> QED BY <1>1, <1>2, TypeStep, LatchStep, PTL DEF Spec, ResumeClean
=============================================================================
