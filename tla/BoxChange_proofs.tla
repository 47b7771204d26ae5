-------------------------- MODULE BoxChange_proofs --------------------------
(***************************************************************************)
(* Theorems about the change engine, for every set of slots, with and      *)
(* without a cutter, whatever fails and whichever commands are given.      *)
(***************************************************************************)
EXTENDS BoxChange, TLAPS

CommandFields ==
  {"name", "at", "target", "flush", "within", "fault", "prepared", "sensorBefore"}

-----------------------------------------------------------------------------
(***************************************************************************)
(* The sensor.  Only an unload disables it, and every unload found it      *)
(* enabled: what it restores when it fails is therefore enabled.           *)
(***************************************************************************)
SensorKept ==
  /\ DOMAIN cmd = CommandFields
  /\ cmd.sensorBefore = TRUE
  /\ cmd.at # "unload" => sensorOn = TRUE

LEMMA RestoredSensor ==
  ASSUME SensorKept, RestoreSensor
  PROVE  sensorOn' = TRUE
BY DEF SensorKept, RestoreSensor

\* A command that ends leaves the sensor as the engine keeps it.
LEMMA EndKeepsSensor ==
  ASSUME cmd' = NoCommand, sensorOn' = TRUE
  PROVE  SensorKept'
BY DEF SensorKept, NoCommand, CommandFields

LEMMA SensorStep == SensorKept /\ [Next]_vars => SensorKept'
<1> SUFFICES ASSUME SensorKept, [Next]_vars PROVE SensorKept'
  OBVIOUS
<1>1. CASE UNCHANGED <<cmd, sensorOn>>
  BY <1>1 DEF SensorKept
<1>2. CASE ChangeCommand \/ ResumeCheck
  <2>1. cmd = NoCommand /\ UNCHANGED sensorOn
    BY <1>2 DEF ChangeCommand, ResumeCheck, Accepts, Free
  <2>2. \E name, target, flush, within : Begin(name, target, flush, within)
    BY <1>2 DEF ChangeCommand, ResumeCheck
  <2> QED BY <2>1, <2>2 DEF SensorKept, Begin, NoCommand, CommandFields
<1>3. CASE ReadFails \/ DecideAborts \/ Attend
  <2>1. cmd.at = "decide" /\ cmd' = NoCommand /\ UNCHANGED sensorOn
    BY <1>3 DEF ReadFails, DecideAborts, Attend, Deciding, OperationFailed
  <2> QED BY <2>1, EndKeepsSensor DEF SensorKept
<1>4. CASE NothingToDo \/ Execute \/ RetryRunout
  <2>1. cmd.at = "decide" /\ sensorOn = TRUE
    BY <1>4 DEF NothingToDo, Execute, RetryRunout, Deciding, SensorKept
  <2>2. \E at, r : GoTo(at, r) /\ (at # "unload" => sensorOn' = TRUE)
    BY <1>4, <2>1 DEF NothingToDo, Execute, RetryRunout, RunoutWork, Unloading
  <2> QED BY <2>1, <2>2 DEF SensorKept, GoTo, CommandFields
<1>5. CASE Retract \/ Cut
  BY <1>5 DEF Retract, Cut, SensorKept
<1>6. CASE Pull \/ PhysicalLoad \/ LoadExternal
  <2>1. sensorOn' = TRUE /\ \E at : Advance(at)
    BY <1>6 DEF Pull, PhysicalLoad, LoadExternal
  <2> QED BY <2>1 DEF SensorKept, Advance, CommandFields
<1>7. CASE Flush \/ NoFlush \/ FinalTemperature \/ Finish
  <2>1. cmd.at # "unload" /\ UNCHANGED sensorOn /\ \E at : Advance(at)
    BY <1>7 DEF Flush, NoFlush, FinalTemperature, Finish, Working
  <2> QED BY <2>1 DEF SensorKept, Advance, CommandFields
<1>8. CASE Succeed
  BY <1>8, EndKeepsSensor DEF Succeed, SensorKept
<1>9. CASE StepFails
  <2>1. cmd' = NoCommand /\ RestoreSensor
    BY <1>9 DEF StepFails, OperationFailed, RunoutFailed, PauseRunout
  <2> QED BY <2>1, RestoredSensor, EndKeepsSensor
<1>10. CASE RunoutSwap
  <2>1. sensorOn = TRUE
    BY <1>10 DEF RunoutSwap, Accepts, Free, NoCommand, SensorKept
  <2> QED BY <1>10, <2>1 DEF RunoutSwap, SensorKept, NoCommand, CommandFields
<1>11. CASE RunoutPause
  <2>1. cmd = NoCommand /\ cmd' = NoCommand /\ UNCHANGED sensorOn
    BY <1>11 DEF RunoutPause, Accepts, Free, PauseRunout
  <2> QED BY <2>1 DEF SensorKept
<1>12. CASE UnloadCommand
  <2>1. cmd = NoCommand /\ sensorOn = TRUE
    BY <1>12 DEF UnloadCommand, Free, NoCommand, SensorKept
  <2> QED BY <1>12, <2>1 DEF UnloadCommand, SensorKept, NoCommand, CommandFields
<1>13. CASE UnloadDone
  BY <1>13, EndKeepsSensor DEF UnloadDone
<1>14. CASE UnloadFails
  BY <1>14, RestoredSensor, EndKeepsSensor DEF UnloadFails
<1>15. CASE LoadCommand
  BY <1>15 DEF LoadCommand, Free, NoCommand, SensorKept, CommandFields
<1>16. CASE FaultLatched
  BY <1>16 DEF FaultLatched, SensorKept, CommandFields
<1>17. CASE ClogDetected \/ UserPause \/ Pause \/ Resume \/ InsertExternal
            \/ PrintStarts \/ PrintEnds
  <2>1. UNCHANGED <<cmd, sensorOn>>
    BY <1>17 DEF ClogDetected, UserPause, Pause, Resume, InsertExternal, PrintStarts, PrintEnds
  <2> QED BY <2>1, <1>1
<1> QED
  BY <1>1, <1>2, <1>3, <1>4, <1>5, <1>6, <1>7, <1>8, <1>9, <1>10, <1>11, <1>12, <1>13,
     <1>14, <1>15, <1>16, <1>17 DEF Next, Decide, Work, ManualCommands, Events, vars

\* Whatever fails, aborts or is retried, between commands the printhead sensor
\* is enabled (_unload_physical, _unload_external, physical_unload, unload).
THEOREM SensorNeverBlind == Spec => []NeverBlind
<1>1. Init => SensorKept
  BY DEF Init, SensorKept, NoCommand, CommandFields
<1>2. SensorKept => NeverBlind
  BY DEF SensorKept, NeverBlind, Free, NoCommand
<1> QED BY <1>1, <1>2, SensorStep, PTL DEF Spec
-----------------------------------------------------------------------------
(***************************************************************************)
(* The lock on RESUME.  A command that works on the request (InHand) need  *)
(* not hold the lock, since RESUME waits for it: but it knows the request  *)
(* is for the print, so its failure locks RESUME for that request's target.*)
(***************************************************************************)
RequestFields ==
  {"target", "source", "kind", "retracted", "cut", "flush", "flushDone", "printContext",
   "resume", "runoutRecovery", "origin", "serviceZ", "rebase", "lastStep", "inherited"}

HostFields == {"print", "pauseSent", "userPause", "head", "pauseAt"}

PrintOn == host.print # "idle"

\* A request that was made, or taken over, during the print that is on.
ForPrint(r) ==
  /\ DOMAIN r = RequestFields
  /\ r.target \in Targets
  /\ PrintOn => r.printContext = TRUE

InHand == cmd.name \in {"change", "runout"} /\ cmd.at # "decide"

LockedFor(r) == recovery # NoRecovery /\ recovery.target = r.target

CommandKnown ==
  /\ DOMAIN cmd = CommandFields
  /\ cmd.name \in {"change", "runout"} => cmd.target \in Targets
  /\ cmd.name \notin {"change", "runout"} => cmd.at \in {"idle", "unload"}
  /\ cmd.name = "runout" => cmd.at # "decide" /\ PrintOn

RetryKnown ==
  recovery # NoRecovery /\ recovery.automatic => recovery.target \in Targets

RequestKnown == pending # NoRequest \/ InHand => ForPrint(pending)

LockKept == PrintOn /\ ~InHand /\ pending # NoRequest => LockedFor(pending)

LockInv ==
  /\ DOMAIN host = HostFields
  /\ CommandKnown /\ RetryKnown /\ RequestKnown /\ LockKept

\* The same request in what the lock depends on.
Same(q, r) ==
  DOMAIN q = DOMAIN r /\ q.target = r.target /\ q.printContext = r.printContext

PrintAsBefore == DOMAIN host' = HostFields /\ (host'.print = "idle" <=> host.print = "idle")

LEMMA CapturedSame ==
  ASSUME NEW r, DOMAIN r = RequestFields
  PROVE  Same(Captured(r), r)
BY DEF Captured, Same, RequestFields

LEMMA ServicedSame ==
  ASSUME NEW r, DOMAIN r = RequestFields
  PROVE  Same(Serviced(r), r)
<1>1. Same(Captured(r), r)
  BY CapturedSame
<1> QED BY <1>1 DEF Serviced, Same, RequestFields

\* What blocks RESUME is the request, if it is for the print; and whatever it
\* is, a retry that it allows has a target.
LEMMA BlockedLocks ==
  ASSUME NEW p, NEW target, NEW automatic,
         p # NoRequest, p.printContext = TRUE, p.target \in Targets
  PROVE  /\ Blocked(p, target, automatic) # NoRecovery
         /\ Blocked(p, target, automatic).target = p.target
<1>1. Blocked(p, target, automatic) = [target |-> p.target, automatic |-> automatic # "no"]
  BY DEF Blocked
<1>2. [target |-> p.target, automatic |-> automatic # "no"] \in Recovery
  BY DEF Recovery
<1> QED BY <1>1, <1>2, NoneAssumption

LEMMA BlockedRetry ==
  ASSUME NEW p, NEW target, NEW automatic,
         p # NoRequest => p.target \in Targets,
         automatic = "yes" => target \in Targets,
         Blocked(p, target, automatic).automatic
  PROVE  Blocked(p, target, automatic).target \in Targets
BY DEF Blocked

\* A step of the work goes on with the same request.
LEMMA WorkKeepsLock ==
  ASSUME LockInv, InHand, PrintAsBefore, Same(pending', pending),
         UNCHANGED cmd \/ (\E at : at # "decide" /\ Advance(at)),
         UNCHANGED recovery
  PROVE  LockInv'
<1>1. /\ cmd'.name = cmd.name /\ cmd'.at # "decide" /\ cmd'.target = cmd.target
      /\ DOMAIN cmd' = CommandFields
  BY DEF LockInv, CommandKnown, CommandFields, InHand, Advance
<1>2. CommandKnown' /\ InHand'
  BY <1>1 DEF LockInv, CommandKnown, InHand, PrintAsBefore, PrintOn
<1>3. ForPrint(pending)'
  BY DEF LockInv, RequestKnown, ForPrint, Same, PrintAsBefore, PrintOn
<1> QED BY <1>2, <1>3 DEF LockInv, RetryKnown, RequestKnown, LockKept, PrintAsBefore

\* A command that ends in failure locks RESUME for its request.
LEMMA FailureLocks ==
  ASSUME LockInv, NEW r, NEW h, ForPrint(r), OperationFailed(r, h),
         DOMAIN h = HostFields, h.print = "idle" <=> host.print = "idle"
  PROVE  LockInv'
<1> DEFINE q == [r EXCEPT !.resume = @ /\ ~Abort]
<1>1. pending' = q /\ cmd' = NoCommand
  BY DEF OperationFailed
<1>2. Same(q, r)
  BY DEF ForPrint, Same, RequestFields
<1>3. DOMAIN host' = HostFields /\ (host'.print = "idle" <=> host.print = "idle")
  BY DEF OperationFailed, PausePrint, HostFields
<1>4. ForPrint(pending)'
  BY <1>1, <1>2, <1>3 DEF ForPrint, Same, PrintOn
<1>5. CommandKnown' /\ ~InHand'
  BY <1>1 DEF CommandKnown, InHand, NoCommand, CommandFields
<1>6. q.printContext => recovery' = Blocked(q, NoSlot, "unset")
  BY DEF OperationFailed
<1>7. RetryKnown'
  <2>1. CASE q.printContext
    BY <1>1, <1>4, <1>6, <2>1, BlockedRetry DEF RetryKnown, ForPrint
  <2>2. CASE ~q.printContext
    BY <2>2 DEF OperationFailed, RetryKnown, LockInv
  <2> QED BY <2>1, <2>2
<1>8. LockKept'
  <2> SUFFICES ASSUME PrintOn', pending' # NoRequest PROVE LockedFor(pending)'
    BY DEF LockKept
  <2>1. q.printContext = TRUE /\ q.target \in Targets /\ q # NoRequest
    BY <1>1, <1>4 DEF ForPrint
  <2>2. recovery' = Blocked(q, NoSlot, "unset")
    BY <1>6, <2>1
  <2> HIDE DEF q
  <2>3. /\ Blocked(q, NoSlot, "unset") # NoRecovery
        /\ Blocked(q, NoSlot, "unset").target = q.target
    BY <2>1, BlockedLocks
  <2> QED BY <1>1, <2>2, <2>3 DEF LockedFor
<1> QED BY <1>3, <1>4, <1>5, <1>7, <1>8 DEF LockInv, RequestKnown

\* So does a runout that pauses the print.
LEMMA RunoutLocks ==
  ASSUME LockInv, NEW p, NEW h, pending' = p, PauseRunout(p, h),
         p # NoRequest => DOMAIN p = RequestFields /\ p.target \in Targets
                          /\ p.printContext = TRUE,
         DOMAIN h = HostFields
  PROVE  LockInv'
<1>1. DOMAIN host' = HostFields /\ PrintOn'
  BY DEF PauseRunout, PausedNow, HostFields, PrintOn
<1>2. CommandKnown' /\ ~InHand'
  BY DEF PauseRunout, CommandKnown, InHand, NoCommand, CommandFields
<1>3. RequestKnown'
  BY <1>2 DEF RequestKnown, ForPrint
<1>4. PICK target, automatic : /\ recovery' = Blocked(p, target, automatic)
                               /\ automatic = "yes" => target \in Targets
  <2>1. PICK target : recovery' = Blocked(p, target, IF target \in Targets THEN "yes" ELSE "no")
    BY DEF PauseRunout
  <2> QED BY <2>1
<1>5. RetryKnown'
  BY <1>4, BlockedRetry DEF RetryKnown
<1>6. LockKept'
  BY <1>4, BlockedLocks DEF LockKept, LockedFor
<1> QED BY <1>1, <1>2, <1>3, <1>5, <1>6 DEF LockInv

LEMMA ChosenForPrint ==
  ASSUME LockInv, cmd.name = "change"
  PROVE  ForPrint(Chosen)
<1>1. cmd.target \in Targets
  BY DEF LockInv, CommandKnown
<1>2. ForPrint(FreshRequest(cmd.target, cmd.flush))
  BY <1>1 DEF FreshRequest, ForPrint, RequestFields, PrintOn
<1>3. pending # NoRequest => ForPrint(pending)
  BY DEF LockInv, RequestKnown
<1>4. ForPrint(NewRequest(cmd.target, cmd.flush))
  <2>1. CASE Inheritable(pending, cmd.target)
    <3>1. ForPrint(pending)
      BY <1>3, <2>1 DEF Inheritable
    <3> QED BY <1>1, <2>1, <3>1 DEF NewRequest, ForPrint, RequestFields
  <2>2. CASE ~Inheritable(pending, cmd.target)
    BY <1>2, <2>2 DEF NewRequest
  <2> QED BY <2>1, <2>2
<1> QED BY <1>3, <1>4 DEF Chosen

\* A command that has decided works on a request for the print.
LEMMA DecisionKeepsLock ==
  ASSUME LockInv, cmd.name = "change", PrintAsBefore, UNCHANGED recovery,
         NEW r, ForPrint(r), Same(pending', r),
         \E at, s : at # "decide" /\ GoTo(at, s)
  PROVE  LockInv'
<1>1. /\ cmd'.name = "change" /\ cmd'.at # "decide" /\ cmd'.target \in Targets
      /\ DOMAIN cmd' = CommandFields
  BY DEF GoTo, LockInv, CommandKnown, CommandFields
<1>2. CommandKnown' /\ InHand'
  BY <1>1 DEF CommandKnown, InHand
<1>3. ForPrint(pending)'
  BY DEF ForPrint, Same, PrintAsBefore, PrintOn
<1> QED BY <1>2, <1>3 DEF LockInv, RetryKnown, RequestKnown, LockKept, PrintAsBefore

\* Steps of nobody's work: the request, the lock and whether a print is on stay,
\* and the command, if there is one, is as far as it was, or a manual one.
LEMMA OtherStepKeepsLock ==
  ASSUME LockInv, UNCHANGED <<pending, recovery>>, PrintAsBefore, CommandKnown',
         InHand' <=> InHand
  PROVE  LockInv'
BY DEF LockInv, RetryKnown, RequestKnown, ForPrint, LockKept, LockedFor, PrintAsBefore, PrintOn

LEMMA LockStep == LockInv /\ [Next]_vars => LockInv'
<1> SUFFICES ASSUME LockInv, [Next]_vars PROVE LockInv'
  OBVIOUS
<1> USE DEF PrintAsBefore
<1>0. DOMAIN host = HostFields
  BY DEF LockInv
<1>1. CASE UNCHANGED vars
  <2>1. UNCHANGED <<pending, recovery, cmd, host>>
    BY <1>1 DEF vars
  <2> QED BY <2>1, <1>0, OtherStepKeepsLock DEF LockInv, CommandKnown, InHand, PrintOn
<1>2. CASE ChangeCommand
  <2>1. cmd = NoCommand /\ UNCHANGED <<pending, recovery, host>>
    BY <1>2 DEF ChangeCommand, Accepts, Free
  <2>2. PICK t, flush : t \in Targets /\ Begin("change", t, flush, FALSE)
    BY <1>2, SlotsAssumption DEF ChangeCommand, Targets
  <2>3. CommandKnown' /\ ~InHand /\ ~InHand'
    BY <2>1, <2>2 DEF Begin, NoCommand, CommandKnown, CommandFields, InHand
  <2> QED BY <2>1, <2>3, <1>0, OtherStepKeepsLock
<1>3. CASE ResumeCheck
  <2>1. cmd = NoCommand /\ UNCHANGED <<recovery, host>> /\ recovery.target \in Targets
    BY <1>3 DEF ResumeCheck, Free, Retryable, LockInv, RetryKnown
  <2>2. PICK flush : Begin("change", recovery.target, flush, TRUE)
    BY <1>3 DEF ResumeCheck
  <2>3. CommandKnown' /\ ~InHand /\ ~InHand'
    BY <2>1, <2>2 DEF Begin, NoCommand, CommandKnown, CommandFields, InHand
  <2>4. CASE pending' = pending
    BY <2>1, <2>3, <2>4, <1>0, OtherStepKeepsLock
  <2>5. CASE pending' # pending
    <3>1. /\ recovery.target = External /\ recovery # NoRecovery
          /\ pending' = [FreshRequest(External, TRUE) EXCEPT
                           !.source = store.lastLoaded, !.printContext = TRUE,
                           !.resume = FALSE, !.lastStep = "attendance"]
      BY <1>3, <2>5 DEF ResumeCheck, Retryable
    <3>2. DOMAIN pending' = RequestFields /\ pending'.target = External
          /\ pending'.printContext = TRUE
      BY <3>1 DEF FreshRequest, RequestFields
    <3>3. RequestKnown' /\ LockKept'
      BY <2>1, <3>1, <3>2 DEF RequestKnown, ForPrint, LockKept, LockedFor, Targets
    <3> QED BY <2>1, <2>3, <3>3 DEF LockInv, RetryKnown
  <2> QED BY <2>4, <2>5
<1>4. CASE ReadFails
  <2>1. CASE OperationFailed(pending, host) /\ pending # NoRequest
    BY <2>1, <1>0, FailureLocks DEF LockInv, RequestKnown
  <2>2. CASE cmd' = NoCommand /\ UNCHANGED <<pending, recovery, host>>
    <3>1. ~InHand /\ ~InHand' /\ CommandKnown'
      BY <1>4, <2>2 DEF ReadFails, InHand, NoCommand, CommandKnown, CommandFields
    <3> QED BY <2>2, <3>1, <1>0, OtherStepKeepsLock
  <2> QED BY <1>4, <2>1, <2>2 DEF ReadFails
<1>5. CASE DecideAborts
  BY <1>0, <1>5, ChosenForPrint, FailureLocks DEF DecideAborts
<1>6. CASE Attend
  <2> DEFINE r == [Captured(Chosen) EXCEPT !.lastStep = "attendance"]
  <2>1. /\ pending' = r /\ recovery' = Blocked(r, NoSlot, "unset")
        /\ host' = PausePrint(host) /\ cmd' = NoCommand
    BY <1>6 DEF Attend
  <2>2. ForPrint(Chosen)
    BY <1>6, ChosenForPrint DEF Attend, Deciding
  <2>3. Same(Captured(Chosen), Chosen)
    BY <2>2, CapturedSame DEF ForPrint
  <2>4. Same(r, Chosen)
    BY <2>2, <2>3 DEF Same, ForPrint, RequestFields
  <2>5. DOMAIN host' = HostFields /\ (host'.print = "idle" <=> host.print = "idle")
    BY <1>0, <2>1 DEF PausePrint, HostFields
  <2> HIDE DEF r
  <2>6. ForPrint(pending)' /\ r.target \in Targets
    BY <2>1, <2>2, <2>4, <2>5 DEF ForPrint, Same, PrintOn
  <2>7. CommandKnown' /\ ~InHand'
    BY <2>1 DEF CommandKnown, InHand, NoCommand, CommandFields
  <2>8. RetryKnown'
    BY <2>1, <2>6, BlockedRetry DEF RetryKnown
  <2>9. LockKept'
    <3> SUFFICES ASSUME PrintOn', pending' # NoRequest PROVE LockedFor(pending)'
      BY DEF LockKept
    <3>1. r # NoRequest /\ r.printContext = TRUE
      BY <2>1, <2>6 DEF ForPrint
    <3>2. /\ Blocked(r, NoSlot, "unset") # NoRecovery
          /\ Blocked(r, NoSlot, "unset").target = r.target
      BY <2>6, <3>1, BlockedLocks
    <3> QED BY <2>1, <3>2 DEF LockedFor
  <2> QED BY <2>5, <2>6, <2>7, <2>8, <2>9 DEF LockInv, RequestKnown
<1>7. CASE NothingToDo
  <2>1. cmd.name = "change" /\ pending' = Chosen /\ UNCHANGED <<recovery, host>>
    BY <1>7 DEF NothingToDo, Deciding
  <2>2. \E at, s : at # "decide" /\ GoTo(at, s)
    BY <1>7 DEF NothingToDo
  <2> QED BY <1>0, <2>1, <2>2, ChosenForPrint, DecisionKeepsLock DEF Same
<1>8. CASE Execute
  <2>1. cmd.name = "change" /\ pending' = Captured(Chosen) /\ UNCHANGED <<recovery, host>>
    BY <1>8 DEF Execute, Deciding
  <2>2. FirstPhase(Chosen) # "decide"
    BY DEF FirstPhase
  <2>3. \E at, s : at # "decide" /\ GoTo(at, s)
    BY <1>8, <2>2 DEF Execute
  <2>4. ForPrint(Chosen)
    BY <2>1, ChosenForPrint
  <2>5. Same(Captured(Chosen), Chosen)
    BY <2>4, CapturedSame DEF ForPrint
  <2> QED BY <1>0, <2>1, <2>3, <2>4, <2>5, DecisionKeepsLock
<1>9. CASE RetryRunout
  <2>1. cmd.name = "change" /\ UNCHANGED recovery /\ ForPrint(pending)
    BY <1>9, ChosenForPrint DEF RetryRunout, Deciding
  <2>2. RunoutPhase(pending) # "decide"
    BY DEF RunoutPhase, FirstPhase
  <2>3. \E at, s : at # "decide" /\ GoTo(at, s)
    BY <1>9, <2>2 DEF RetryRunout, RunoutWork
  <2>4. PrintAsBefore
    BY <1>0, <1>9 DEF RetryRunout, Away, HostFields
  <2>5. Same(Serviced(pending), pending)
    BY <2>1, ServicedSame DEF ForPrint
  <2>6. Same(pending', pending)
    BY <1>9, <2>5 DEF RetryRunout, RunoutWork, Same
  <2> QED BY <2>1, <2>3, <2>4, <2>6, DecisionKeepsLock
<1>10. CASE Retract \/ Cut
  <2>1. InHand /\ UNCHANGED <<recovery, cmd>>
    BY <1>10 DEF Retract, Cut, Working, InHand
  <2>2. DOMAIN pending = RequestFields /\ Same(Serviced(pending), pending)
    BY <2>1, ServicedSame DEF LockInv, RequestKnown, ForPrint
  <2>3. Same(pending', pending)
    BY <1>10, <2>2 DEF Retract, Cut, Same, RequestFields
  <2>4. PrintAsBefore
    BY <1>0, <1>10 DEF Retract, Cut, Away, HostFields
  <2> QED BY <2>1, <2>3, <2>4, WorkKeepsLock
<1>11. CASE Pull \/ PhysicalLoad \/ LoadExternal
  <2>1. InHand /\ UNCHANGED recovery /\ \E at : at # "decide" /\ Advance(at)
    BY <1>11 DEF Pull, PhysicalLoad, LoadExternal, Working, InHand
  <2>2. DOMAIN pending = RequestFields /\ Same(Serviced(pending), pending)
    BY <2>1, ServicedSame DEF LockInv, RequestKnown, ForPrint
  <2>3. Same(pending', pending)
    BY <1>11, <2>2 DEF Pull, PhysicalLoad, LoadExternal, Same, RequestFields
  <2>4. PrintAsBefore
    BY <1>0, <1>11 DEF Pull, PhysicalLoad, LoadExternal, Away, HostFields
  <2> QED BY <2>1, <2>3, <2>4, WorkKeepsLock
<1>12. CASE Flush \/ NoFlush \/ FinalTemperature
  <2>1. InHand /\ UNCHANGED recovery /\ \E at : at # "decide" /\ Advance(at)
    BY <1>12 DEF Flush, NoFlush, FinalTemperature, Working, InHand
  <2>2. DOMAIN pending = RequestFields /\ Same(Serviced(pending), pending)
    BY <2>1, ServicedSame DEF LockInv, RequestKnown, ForPrint
  <2>3. Same(pending', pending)
    BY <1>12, <2>2 DEF Flush, NoFlush, FinalTemperature, Same, RequestFields
  <2>4. PrintAsBefore
    BY <1>0, <1>12 DEF Flush, NoFlush, FinalTemperature, Away, HostFields
  <2> QED BY <2>1, <2>3, <2>4, WorkKeepsLock
<1>13. CASE Finish
  <2>1. InHand /\ UNCHANGED recovery /\ \E at : at # "decide" /\ Advance(at)
    BY <1>13 DEF Finish, InHand, LockInv, CommandKnown
  <2>2. Same(pending', pending)
    BY <1>13, <2>1 DEF Finish, Same, RequestFields, LockInv, RequestKnown, ForPrint
  <2>3. PrintAsBefore
    BY <1>0, <1>13 DEF Finish, HostFields
  <2> QED BY <2>1, <2>2, <2>3, WorkKeepsLock
<1>14. CASE Succeed
  <2>1. pending' = NoRequest /\ recovery' = NoRecovery /\ cmd' = NoCommand
    BY <1>14 DEF Succeed
  <2>2. DOMAIN host' = HostFields
    BY <1>0, <1>14 DEF Succeed, Resumed, HostFields
  <2>3. CommandKnown' /\ ~InHand'
    BY <2>1 DEF CommandKnown, InHand, NoCommand, CommandFields
  <2> QED BY <2>1, <2>2, <2>3 DEF LockInv, RetryKnown, RequestKnown, LockKept
<1>15. CASE StepFails
  <2>1. InHand
    BY <1>15 DEF StepFails, InHand
  <2>2. ForPrint(pending)
    BY <2>1 DEF LockInv, RequestKnown
  <2>3. PICK left, r, head :
          /\ r \in RequestAfter(left)
          /\ IF cmd.name = "change" THEN OperationFailed(r, [host EXCEPT !.head = head])
             ELSE RunoutFailed(r, [host EXCEPT !.head = head])
    BY <1>15 DEF StepFails
  <2> DEFINE h == [host EXCEPT !.head = head]
  <2>4. DOMAIN h = HostFields /\ (h.print = "idle" <=> host.print = "idle")
    BY <1>0 DEF HostFields
  <2>5. Same(Serviced(pending), pending)
    BY <2>2, ServicedSame DEF ForPrint
  <2>6. ForPrint(r)
    BY <2>2, <2>3, <2>5 DEF RequestAfter, ForPrint, Same, RequestFields
  <2>7. CASE cmd.name = "change"
    <3>1. OperationFailed(r, h)
      BY <2>3, <2>7
    <3> HIDE DEF h
    <3> QED BY <2>4, <2>6, <3>1, FailureLocks
  <2>8. CASE cmd.name # "change"
    <3>1. PrintOn
      BY <1>15, <2>8 DEF StepFails, LockInv, CommandKnown
    <3>2. RunoutFailed(r, h)
      BY <2>3, <2>8
    <3> DEFINE q == [r EXCEPT !.resume = ~Abort]
    <3>3. pending' = q /\ PauseRunout(q, h)
      BY <3>2 DEF RunoutFailed
    <3>4. DOMAIN q = RequestFields /\ q.target \in Targets /\ q.printContext = TRUE
      BY <2>6, <3>1 DEF ForPrint, RequestFields
    <3> HIDE DEF q, h
    <3> QED BY <2>4, <3>3, <3>4, RunoutLocks
  <2> QED BY <2>7, <2>8
<1>16. CASE RunoutSwap
  <2>1. host.print # "idle" /\ host' = Away /\ UNCHANGED recovery
    BY <1>16 DEF RunoutSwap, Printing
  <2>2. PICK t, path :
          /\ t \in Slots /\ pending' = Serviced(RunoutRequest(t))
          /\ cmd' = [NoCommand EXCEPT !.name = "runout", !.target = t,
                       !.at = IF path = NoSlot THEN "load" ELSE "unload",
                       !.sensorBefore = path # NoSlot => sensorOn]
    BY <1>16 DEF RunoutSwap
  <2>3. DOMAIN host' = HostFields /\ PrintOn'
    BY <1>0, <2>1 DEF Away, HostFields, PrintOn
  <2>4. CommandKnown' /\ InHand'
    BY <2>2, <2>3 DEF CommandKnown, InHand, NoCommand, CommandFields, Targets
  <2>5. DOMAIN RunoutRequest(t) = RequestFields
    BY DEF RunoutRequest, RequestFields
  <2>6. Same(Serviced(RunoutRequest(t)), RunoutRequest(t))
    BY <2>5, ServicedSame
  <2>7. ForPrint(pending)'
    BY <2>2, <2>5, <2>6 DEF Same, ForPrint, RunoutRequest, Targets
  <2> QED BY <2>1, <2>3, <2>4, <2>7 DEF LockInv, RetryKnown, RequestKnown, LockKept
<1>17. CASE RunoutPause
  <2>1. pending' = pending /\ PauseRunout(pending, host) /\ PrintOn
    BY <1>17 DEF RunoutPause, Printing, PrintOn
  <2>2. pending # NoRequest => DOMAIN pending = RequestFields /\ pending.target \in Targets
                               /\ pending.printContext = TRUE
    BY <2>1 DEF LockInv, RequestKnown, ForPrint
  <2> QED BY <1>0, <2>1, <2>2, RunoutLocks
<1>18. CASE UnloadCommand \/ UnloadDone \/ UnloadFails \/ LoadCommand
  <2>1. UNCHANGED <<pending, recovery>> /\ PrintAsBefore
    BY <1>0, <1>18 DEF UnloadCommand, UnloadDone, UnloadFails, LoadCommand, Away, HostFields
  <2>2. cmd = NoCommand \/ cmd.name = "unload"
    BY <1>18 DEF UnloadCommand, UnloadDone, UnloadFails, LoadCommand, Free
  <2>3. \/ cmd' = cmd \/ cmd' = NoCommand
        \/ cmd' = [NoCommand EXCEPT !.name = "unload", !.at = "unload",
                                    !.sensorBefore = sensorOn]
    BY <1>18 DEF UnloadCommand, UnloadDone, UnloadFails, LoadCommand
  <2>4. /\ DOMAIN NoCommand = CommandFields
        /\ NoCommand.name = "none" /\ NoCommand.at = "idle"
    BY DEF NoCommand, CommandFields
  <2>5. ~InHand
    BY <2>2 DEF NoCommand, InHand
  <2>6. CASE cmd' = cmd
    BY <2>1, <2>5, <2>6, OtherStepKeepsLock DEF LockInv, CommandKnown, InHand, PrintOn
  <2>7. CASE cmd' # cmd
    <3>1. /\ DOMAIN cmd' = CommandFields
          /\ cmd'.name \in {"none", "unload"} /\ cmd'.at \in {"idle", "unload"}
      BY <2>3, <2>4, <2>7 DEF CommandFields
    <3>2. CommandKnown' /\ ~InHand'
      BY <3>1 DEF InHand, CommandKnown
    <3> QED BY <2>1, <2>5, <3>2, OtherStepKeepsLock
  <2> QED BY <2>6, <2>7
<1>19. CASE FaultLatched
  <2>1. /\ filament.path \in Targets /\ pending' = pending
        /\ DOMAIN host' = HostFields /\ (host'.print = "idle" <=> host.print = "idle")
    BY <1>0, <1>19 DEF FaultLatched, PausePrint, HostFields, Targets
  <2>2. CommandKnown' /\ (InHand' <=> InHand)
    BY <1>19, <2>1 DEF FaultLatched, LockInv, CommandKnown, CommandFields, InHand, PrintOn
  <2>3. CASE UNCHANGED recovery
    BY <2>1, <2>2, <2>3, OtherStepKeepsLock
  <2>4. CASE PrintOn /\ \E automatic : recovery' = Blocked(pending, filament.path, automatic)
    <3>1. PICK automatic : recovery' = Blocked(pending, filament.path, automatic)
      BY <2>4
    <3>2. pending # NoRequest => pending.target \in Targets /\ pending.printContext = TRUE
      BY <2>4 DEF LockInv, RequestKnown, ForPrint
    <3>3. RetryKnown'
      BY <2>1, <3>1, <3>2, BlockedRetry DEF RetryKnown
    <3>4. LockKept'
      BY <2>1, <3>1, <3>2, BlockedLocks DEF LockKept, LockedFor
    <3> QED BY <2>1, <2>2, <3>3, <3>4 DEF LockInv, RequestKnown, ForPrint, PrintOn
  <2> QED BY <1>19, <2>3, <2>4 DEF FaultLatched, PrintOn
<1>20. CASE ClogDetected
  <2>1. /\ pending' = pending /\ cmd' = cmd /\ PrintOn
        /\ recovery' = Blocked(pending, filament.path, "no")
        /\ DOMAIN host' = HostFields /\ (host'.print = "idle" <=> host.print = "idle")
    BY <1>0, <1>20 DEF ClogDetected, Printing, PausePrint, HostFields, PrintOn
  <2>2. CommandKnown' /\ (InHand' <=> InHand)
    BY <2>1 DEF LockInv, CommandKnown, InHand, PrintOn
  <2>3. pending # NoRequest => pending.target \in Targets /\ pending.printContext = TRUE
    BY <2>1 DEF LockInv, RequestKnown, ForPrint
  <2>4. RetryKnown'
    BY <2>1, <2>3, BlockedRetry DEF RetryKnown
  <2>5. LockKept'
    BY <2>1, <2>3, BlockedLocks DEF LockKept, LockedFor
  <2> QED BY <2>1, <2>2, <2>4, <2>5 DEF LockInv, RequestKnown, ForPrint, PrintOn
<1>21. CASE UserPause \/ Pause \/ Resume \/ InsertExternal
  <2>1. UNCHANGED <<pending, recovery, cmd>>
    BY <1>21 DEF UserPause, Pause, Resume, InsertExternal
  <2>2. UserPause \/ InsertExternal => PrintAsBefore
    BY <1>0 DEF UserPause, InsertExternal, HostFields
  <2>3. Pause => PrintAsBefore
    BY <1>0 DEF Pause, PausedNow, Printing, HostFields
  <2>4. Resume => PrintAsBefore
    BY <1>0 DEF Resume, Resumed, Paused, HostFields
  <2>5. PrintAsBefore
    BY <1>21, <2>2, <2>3, <2>4
  <2> QED BY <2>1, <2>5, OtherStepKeepsLock DEF LockInv, CommandKnown, InHand, PrintOn
<1>22. CASE PrintStarts \/ PrintEnds
  <2>1. pending' = NoRequest /\ recovery' = NoRecovery /\ cmd = NoCommand /\ cmd' = cmd
    BY <1>22 DEF PrintStarts, PrintEnds, ResetRecovery, Free
  <2>2. DOMAIN host' = HostFields
    BY <1>0, <1>22 DEF PrintStarts, PrintEnds, HostFields
  <2>3. CommandKnown' /\ ~InHand'
    BY <2>1 DEF CommandKnown, InHand, NoCommand, CommandFields
  <2> QED BY <2>1, <2>2, <2>3 DEF LockInv, RetryKnown, RequestKnown, LockKept
<1> QED
  BY <1>1, <1>2, <1>3, <1>4, <1>5, <1>6, <1>7, <1>8, <1>9, <1>10, <1>11, <1>12, <1>13,
     <1>14, <1>15, <1>16, <1>17, <1>18, <1>19, <1>20, <1>21, <1>22
  DEF Next, Decide, Work, ManualCommands, Events

\* While a print is on, no failed or aborted change and no runout is left
\* without a lock on RESUME for its own target, whichever fault, clog or pause
\* blocked RESUME in the meantime (_operation_failed, _pause_runout,
\* _block_resume): a RESUME that asks first retries what failed.
THEOREM RequestsStayLocked == Spec => []PendingBlocks
<1>1. Init => LockInv
  BY DEF Init, LockInv, CommandKnown, RetryKnown, RequestKnown, LockKept, ForPrint, PrintOn,
         InHand, NoCommand, CommandFields, HostFields
<1>2. LockInv => PendingBlocks
  BY DEF LockInv, LockKept, LockedFor, PendingBlocks, Free, NoCommand, InHand, PrintOn
<1> QED BY <1>1, <1>2, LockStep, PTL DEF Spec

-----------------------------------------------------------------------------
(***************************************************************************)
(* Types, and whose the request is that a command works on.                *)
(***************************************************************************)
WorkKnown ==
  /\ InHand => pending # NoRequest /\ pending.target = cmd.target
  /\ (cmd.name = "none") <=> (cmd.at = "idle")
  /\ cmd.name = "runout" => Printing /\ pending.kind = "runout"
  /\ cmd.name = "unload" => ~Printing
  /\ pending # NoRequest /\ pending.kind = "runout" => pending.flush /\ pending.target \in Slots

LEMMA LoadedType ==
  ASSUME filament \in Filament
  PROVE  Loaded \in Targets \union {NoSlot} /\ (Loaded \in Slots <=> filament.path \in Slots)
BY SlotsAssumption DEF Loaded, Filament, Targets

LEMMA CapturedType ==
  ASSUME NEW r \in Request, host \in Host
  PROVE  Captured(r) \in Request /\ Serviced(r) \in Request
<1>1. Captured(r) \in Request
  <2>1. host.head \in Places \union {"none"} /\ (~Paused) \in BOOLEAN
    BY DEF Host, Paused
  <2>2. \A o \in Places \union {"none"}, v \in BOOLEAN : [r EXCEPT !.origin = o, !.rebase = v] \in Request
    BY DEF Request
  <2>3. [r EXCEPT !.origin = host.head, !.rebase = ~Paused] \in Request
    BY <2>1, <2>2
  <2> QED BY <2>3 DEF Captured
<1>2. Serviced(r) \in Request
  <2> DEFINE q == Captured(r)
  <2> HIDE DEF q
  <2>1. [q EXCEPT !.serviceZ = TRUE] \in Request
    BY <1>1 DEF Request, q
  <2> QED BY <2>1 DEF Serviced, q
<1> QED BY <1>1, <1>2

LEMMA FreshType ==
  ASSUME TypeOK, NEW t \in Targets, NEW flush \in BOOLEAN
  PROVE  FreshRequest(t, flush) \in Request
<1>1. Loaded \in Targets \union {NoSlot} /\ store.lastLoaded \in Targets \union {NoSlot}
  BY LoadedType DEF TypeOK, Store
<1>2. (host.print # "idle") \in BOOLEAN /\ Printing \in BOOLEAN
  BY DEF Printing
<1> QED BY <1>1, <1>2 DEF FreshRequest, Request, LastSteps

LEMMA ChosenType ==
  ASSUME TypeOK, cmd.target \in Targets
  PROVE  Chosen \in Request /\ Chosen.target = cmd.target
<1>1. cmd.flush \in BOOLEAN
  BY DEF TypeOK, Command
<1>2. FreshRequest(cmd.target, cmd.flush) \in Request
      /\ FreshRequest(cmd.target, cmd.flush).target = cmd.target
  BY <1>1, FreshType DEF FreshRequest
<1>3. NewRequest(cmd.target, cmd.flush) \in Request
      /\ NewRequest(cmd.target, cmd.flush).target = cmd.target
  <2>1. CASE Inheritable(pending, cmd.target)
    <3>1. pending \in Request
      BY <2>1 DEF TypeOK, Inheritable
    <3> DEFINE f == cmd.flush t == cmd.target
               q == [pending EXCEPT !.target = t, !.kind = "normal", !.flush = f,
                                    !.flushDone = FALSE, !.lastStep = "none", !.inherited = TRUE]
    <3>2. f \in BOOLEAN /\ t \in Targets /\ "none" \in LastSteps
      BY <1>1 DEF LastSteps
    <3>3. NewRequest(cmd.target, cmd.flush) = q
      BY <2>1 DEF NewRequest
    <3> HIDE DEF f, t
    <3>4. ASSUME NEW r \in Request, r.target = t
          PROVE  /\ [r EXCEPT !.kind = "normal"] \in Request /\ [r EXCEPT !.kind = "normal"].target = t
                 /\ [r EXCEPT !.flush = f] \in Request /\ [r EXCEPT !.flush = f].target = t
                 /\ [r EXCEPT !.flushDone = FALSE] \in Request /\ [r EXCEPT !.flushDone = FALSE].target = t
                 /\ [r EXCEPT !.lastStep = "none"] \in Request /\ [r EXCEPT !.lastStep = "none"].target = t
                 /\ [r EXCEPT !.inherited = TRUE] \in Request /\ [r EXCEPT !.inherited = TRUE].target = t
      <4>1. [r EXCEPT !.kind = "normal"] \in Request /\ [r EXCEPT !.kind = "normal"].target = t
        BY <3>4 DEF Request
      <4>2. [r EXCEPT !.flush = f] \in Request /\ [r EXCEPT !.flush = f].target = t
        BY <3>2, <3>4 DEF Request
      <4>3. [r EXCEPT !.flushDone = FALSE] \in Request /\ [r EXCEPT !.flushDone = FALSE].target = t
        BY <3>4 DEF Request
      <4>4. [r EXCEPT !.lastStep = "none"] \in Request /\ [r EXCEPT !.lastStep = "none"].target = t
        BY <3>2, <3>4 DEF Request
      <4>5. [r EXCEPT !.inherited = TRUE] \in Request /\ [r EXCEPT !.inherited = TRUE].target = t
        BY <3>4 DEF Request
      <4> QED BY <4>1, <4>2, <4>3, <4>4, <4>5
    <3> DEFINE p1 == [pending EXCEPT !.target = t]
               p2 == [p1 EXCEPT !.kind = "normal"]
               p3 == [p2 EXCEPT !.flush = f]
               p4 == [p3 EXCEPT !.flushDone = FALSE]
               p5 == [p4 EXCEPT !.lastStep = "none"]
    <3>5. p1 \in Request /\ p1.target = t
      BY <3>1, <3>2 DEF Request
    <3>6. q = [p5 EXCEPT !.inherited = TRUE]
      OBVIOUS
    <3> HIDE DEF q, p1, p2, p3, p4, p5
    <3>7. p2 \in Request /\ p2.target = t
      BY <3>4, <3>5 DEF p2
    <3>8. p3 \in Request /\ p3.target = t
      BY <3>4, <3>7 DEF p3
    <3>9. p4 \in Request /\ p4.target = t
      BY <3>4, <3>8 DEF p4
    <3>10. p5 \in Request /\ p5.target = t
      BY <3>4, <3>9 DEF p5
    <3>11. q \in Request /\ q.target = t
      BY <3>4, <3>6, <3>10
    <3> QED BY <3>3, <3>11 DEF t
  <2>2. CASE ~Inheritable(pending, cmd.target)
    BY <1>2, <2>2 DEF NewRequest
  <2> QED BY <2>1, <2>2
<1> QED BY <1>3 DEF Chosen, TypeOK

LEMMA BlockedType ==
  ASSUME NEW p \in Request \union {NoRequest}, NEW target \in Targets \union {NoSlot}, NEW automatic
  PROVE  Blocked(p, target, automatic) \in Recovery
<1>1. (automatic # "no") \in BOOLEAN /\ (automatic = "yes") \in BOOLEAN
  OBVIOUS
<1>2. p # NoRequest => p.target \in Targets
  BY DEF Request
<1> QED BY <1>1, <1>2 DEF Blocked, Recovery

LEMMA PausedTypes ==
  ASSUME NEW h \in Host
  PROVE  PausePrint(h) \in Host /\ PausedNow(h) \in Host
BY DEF PausePrint, PausedNow, Host, Places, Printing

LEMMA NoCommandType == NoCommand \in Command
BY DEF NoCommand, Command

\* A command that ends in failure leaves everything well formed.
LEMMA FailedTypes ==
  ASSUME TypeOK, NEW r \in Request, NEW h \in Host, OperationFailed(r, h)
  PROVE  /\ pending' \in Request /\ recovery' \in Recovery \union {NoRecovery}
         /\ host' \in Host /\ cmd' \in Command
<1> DEFINE q == [r EXCEPT !.resume = @ /\ ~Abort]
<1>1. q \in Request
  <2>1. (r.resume /\ ~Abort) \in BOOLEAN
    OBVIOUS
  <2>2. \A v \in BOOLEAN : [r EXCEPT !.resume = v] \in Request
    BY DEF Request
  <2> QED BY <2>1, <2>2
<1>2. /\ pending' = q /\ cmd' = NoCommand
      /\ IF q.printContext
         THEN recovery' = Blocked(q, NoSlot, "unset") /\ host' = PausePrint(h)
         ELSE recovery' = recovery /\ host' = h
  BY DEF OperationFailed
<1> HIDE DEF q
<1> QED BY <1>1, <1>2, BlockedType, PausedTypes, NoCommandType DEF TypeOK

LEMMA RunoutTypes ==
  ASSUME TypeOK, NEW p \in Request \union {NoRequest}, NEW h \in Host, PauseRunout(p, h)
  PROVE  recovery' \in Recovery /\ host' \in Host /\ cmd' \in Command
<1>1. PICK target \in IF p # NoRequest THEN {p.target} ELSE {filament.path, store.lastLoaded} :
        recovery' = Blocked(p, target, IF target \in Targets THEN "yes" ELSE "no")
  BY DEF PauseRunout
<1>2. target \in Targets \union {NoSlot}
  BY DEF TypeOK, Request, Filament, Store, Targets
<1> QED BY <1>1, <1>2, BlockedType, PausedTypes, NoCommandType DEF PauseRunout

LEMMA FedType ==
  /\ Empty \in Filament /\ \A t \in Slots : Fed(t) \in Filament
BY DEF Empty, Fed, Filament, Tips

\* Whatever a step that fails leaves of the filament.
LEMMA PartsType ==
  ASSUME filament \in Filament
  PROVE  /\ PartRetracted \subseteq Filament /\ PartPulled \subseteq Filament
         /\ \A t : PartLoaded(t) \subseteq Filament
<1>1. PartRetracted \subseteq Filament
  BY DEF PartRetracted, Filament, Tips
<1>2. PartPulled \subseteq Filament
  <2>1. Empty \in Filament /\ [filament EXCEPT !.tracking = FALSE] \in Filament
    BY FedType DEF Filament
  <2>2. [Empty EXCEPT !.path = filament.path] \in Filament
    BY <2>1 DEF Filament, Empty
  <2> QED BY <2>1, <2>2 DEF PartPulled
<1>3. ASSUME NEW t PROVE PartLoaded(t) \subseteq Filament
  <2>1. /\ [filament EXCEPT !.tracking = TRUE] \in Filament
        /\ t \in Slots => [filament EXCEPT !.path = t, !.tracking = FALSE] \in Filament
    BY DEF Filament
  <2>2. t \in Slots => Fed(t) \in Filament /\ [Fed(t) EXCEPT !.tracking = FALSE] \in Filament
    BY DEF Fed, Filament, Tips
  <2> QED BY <2>1, <2>2 DEF PartLoaded
<1> QED BY <1>1, <1>2, <1>3

LEMMA ResidueType ==
  ASSUME filament \in Filament
  PROVE  Residue \subseteq Filament
<1>1. [filament EXCEPT !.tip = "hotend"] \in Filament
  BY DEF Filament, Tips
<1>2. \/ Residue = PartLoaded(cmd.target) \/ Residue = PartRetracted
      \/ Residue = PartRetracted \union PartPulled
      \/ Residue = {filament, [filament EXCEPT !.tip = "hotend"]} \/ Residue = {filament}
  BY DEF Residue
<1> QED BY <1>1, <1>2, PartsType

\* A command that goes on is a command.
Phases == {"decide", "unload", "load", "flush", "final", "finish", "end"}

LEMMA GoesType ==
  ASSUME TypeOK, NEW at \in Phases
  PROVE  /\ Advance(at) => cmd' \in Command
         /\ \A r : GoTo(at, r) => cmd' \in Command
         /\ \A name \in {"change", "runout", "unload"}, t \in Targets, flush \in BOOLEAN,
               within \in BOOLEAN : Begin(name, t, flush, within) => cmd' \in Command
<1>1. Advance(at) => cmd' \in Command
  BY DEF Advance, TypeOK, Command, Phases
<1>2. ASSUME NEW r, GoTo(at, r) PROVE cmd' \in Command
  <2>1. (at = "unload" => sensorOn) \in BOOLEAN
        /\ (at = "unload" /\ r.retracted = Loaded /\ r.cut = Loaded) \in BOOLEAN
    OBVIOUS
  <2>2. \A u, v \in BOOLEAN : [cmd EXCEPT !.at = at, !.flush = FALSE, !.sensorBefore = u,
                                         !.prepared = v] \in Command
    BY DEF TypeOK, Command, Phases
  <2> QED BY <1>2, <2>1, <2>2 DEF GoTo
<1>3. ASSUME NEW name \in {"change", "runout", "unload"}, NEW t \in Targets, NEW flush \in BOOLEAN,
             NEW within \in BOOLEAN, Begin(name, t, flush, within)
      PROVE  cmd' \in Command
  BY <1>3 DEF Begin, NoCommand, Command
<1> QED BY <1>1, <1>2, <1>3

\* What the work on a request writes into it.
LEMMA NotesType ==
  ASSUME NEW r \in Request
  PROVE  /\ \A step \in LastSteps : [r EXCEPT !.lastStep = step] \in Request
         /\ \A step \in LastSteps, v \in BOOLEAN :
              /\ [r EXCEPT !.flushDone = v, !.lastStep = step] \in Request
              /\ [r EXCEPT !.runoutRecovery = v, !.lastStep = step] \in Request
<1>1. \A step \in LastSteps : [r EXCEPT !.lastStep = step] \in Request
  BY DEF Request
<1>2. \A step \in LastSteps, v \in BOOLEAN : [r EXCEPT !.flushDone = v, !.lastStep = step] \in Request
  BY DEF Request
<1>3. \A step \in LastSteps, v \in BOOLEAN :
        [r EXCEPT !.runoutRecovery = v, !.lastStep = step] \in Request
  BY DEF Request
<1> QED BY <1>1, <1>2, <1>3

LEMMA SourceType ==
  ASSUME NEW r \in Request, NEW z \in Targets \union {NoSlot}, NEW step \in LastSteps
  PROVE  /\ [r EXCEPT !.source = z, !.lastStep = step] \in Request
         /\ [r EXCEPT !.retracted = z, !.source = z, !.lastStep = step] \in Request
         /\ [r EXCEPT !.cut = z, !.source = z, !.lastStep = step] \in Request
<1>1. [r EXCEPT !.source = z, !.lastStep = step] \in Request
  BY DEF Request
<1>2. [r EXCEPT !.retracted = z, !.source = z, !.lastStep = step] \in Request
  BY DEF Request
<1>3. [r EXCEPT !.cut = z, !.source = z, !.lastStep = step] \in Request
  BY DEF Request
<1> QED BY <1>1, <1>2, <1>3

LEMMA StoreType ==
  ASSUME TypeOK
  PROVE  /\ \A t \in Targets : Commit(t) \in Store
         /\ \A t : ClearFeed(t) \in Store
         /\ Remembered \subseteq Store
         /\ \A x \in Targets \union {NoSlot} : [store EXCEPT !.feedPending = x] \in Store
         /\ \A t \in Targets, x \in Targets \union {NoSlot}, v \in BOOLEAN :
              [Commit(t) EXCEPT !.feedPending = x, !.primed = v] \in Store
BY DEF TypeOK, Store, Commit, ClearFeed, Remembered

LEMMA TypeStep == TypeOK /\ LockInv /\ WorkKnown /\ [Next]_vars => TypeOK'
<1> SUFFICES ASSUME TypeOK, LockInv, WorkKnown, [Next]_vars PROVE TypeOK'
  OBVIOUS
<1>a. /\ filament \in Filament /\ store \in Store /\ host \in Host /\ cmd \in Command
      /\ pending \in Request \union {NoRequest} /\ recovery \in Recovery \union {NoRecovery}
      /\ sensorOn \in BOOLEAN
  BY DEF TypeOK
<1>b. cmd.name \in {"change", "runout"} => cmd.target \in Targets
  BY DEF LockInv, CommandKnown
<1>c. InHand => pending \in Request /\ pending.target \in Targets
  BY <1>a DEF WorkKnown, Request
<1>d. Away \in Host /\ Loaded \in Targets \union {NoSlot}
  BY <1>a, LoadedType DEF Away, Host, Places
<1>1. CASE UNCHANGED vars
  BY <1>a, <1>1 DEF TypeOK, vars
<1>2. CASE ChangeCommand
  <2>1. PICK t \in Commanded, flush \in Flushes : Begin("change", t, flush, FALSE)
    BY <1>2 DEF ChangeCommand
  <2>2. t \in Targets /\ flush \in BOOLEAN
    BY SlotsAssumption DEF Targets
  <2>3. cmd' \in Command
    BY <2>1, <2>2, GoesType DEF Phases
  <2> QED BY <1>2, <1>a, <2>3 DEF ChangeCommand, TypeOK
<1>3. CASE ResumeCheck
  <2> DEFINE flush == (pending # NoRequest /\ pending.target = recovery.target) => pending.flush
             r == [FreshRequest(External, TRUE) EXCEPT
                     !.source = store.lastLoaded, !.printContext = TRUE,
                     !.resume = FALSE, !.lastStep = "attendance"]
  <2>1. recovery.target \in Targets
    BY <1>3, <1>a DEF ResumeCheck, Retryable, Recovery
  <2>2. Begin("change", recovery.target, flush, TRUE) /\ flush \in BOOLEAN
    BY <1>3 DEF ResumeCheck
  <2>3. cmd' \in Command
    BY <2>1, <2>2, GoesType DEF Phases
  <2>4. r \in Request
    <3>1. FreshRequest(External, TRUE) \in Request
      BY FreshType DEF Targets
    <3> QED BY <1>a, <3>1 DEF Request, Store, LastSteps
  <2>5. pending' \in {pending, r}
    BY <1>3 DEF ResumeCheck
  <2> HIDE DEF r
  <2> QED BY <1>3, <1>a, <2>3, <2>4, <2>5 DEF ResumeCheck, TypeOK
<1>4. CASE ReadFails
  <2>1. CASE OperationFailed(pending, host) /\ pending # NoRequest
    BY <1>4, <1>a, <2>1, FailedTypes DEF ReadFails, TypeOK
  <2>2. CASE cmd' = NoCommand /\ UNCHANGED <<pending, recovery, host>>
    BY <1>4, <1>a, <2>2, NoCommandType DEF ReadFails, TypeOK
  <2> QED BY <1>4, <2>1, <2>2 DEF ReadFails
<1>5. CASE DecideAborts
  <2>1. Chosen \in Request /\ OperationFailed(Chosen, host)
    BY <1>5, <1>b, ChosenType DEF DecideAborts
  <2> QED BY <1>5, <1>a, <2>1, FailedTypes DEF DecideAborts, TypeOK
<1>6. CASE Attend
  <2> DEFINE r == [Captured(Chosen) EXCEPT !.lastStep = "attendance"]
  <2>1. r \in Request
    <3>1. Captured(Chosen) \in Request
      BY <1>6, <1>a, <1>b, ChosenType, CapturedType DEF Attend, Deciding
    <3> QED BY <3>1, NotesType DEF LastSteps
  <2>2. /\ pending' = r /\ recovery' = Blocked(r, NoSlot, "unset") /\ host' = PausePrint(host)
        /\ cmd' = NoCommand /\ UNCHANGED <<filament, store, sensorOn>>
    BY <1>6 DEF Attend
  <2> HIDE DEF r
  <2> QED BY <1>a, <2>1, <2>2, BlockedType, PausedTypes, NoCommandType DEF TypeOK
<1>7. CASE NothingToDo \/ Execute
  <2>1. Chosen \in Request /\ cmd.target \in Targets
    BY <1>7, <1>b, ChosenType DEF NothingToDo, Execute, Deciding
  <2>2. pending' \in Request
    BY <1>7, <1>a, <2>1, CapturedType DEF NothingToDo, Execute
  <2>3. cmd' \in Command
    <3>1. FirstPhase(Chosen) \in Phases
      BY DEF FirstPhase, Phases
    <3> QED BY <1>7, <3>1, GoesType DEF NothingToDo, Execute, Phases
  <2>4. sensorOn' \in BOOLEAN /\ store' \in Store
    BY <1>7, <1>a, <2>1, StoreType DEF NothingToDo, Execute, Unloading
  <2> QED BY <1>7, <1>a, <2>2, <2>3, <2>4 DEF NothingToDo, Execute, TypeOK
<1>8. CASE RetryRunout
  <2>1. Chosen \in Request /\ Chosen = pending
    BY <1>8, <1>b, ChosenType DEF RetryRunout, Deciding
  <2>2. RunoutPhase(pending) \in Phases
    BY DEF RunoutPhase, FirstPhase, Phases
  <2>3. cmd' \in Command
    BY <1>8, <2>2, GoesType DEF RetryRunout, RunoutWork, Phases
  <2>4. pending' \in Request /\ sensorOn' \in BOOLEAN /\ host' \in Host
    BY <1>8, <1>a, <1>d, <2>1, CapturedType DEF RetryRunout, RunoutWork, Unloading
  <2> QED BY <1>8, <1>a, <2>3, <2>4 DEF RetryRunout, TypeOK
<1>9. CASE Retract \/ Cut
  <2>1. pending \in Request /\ Serviced(pending) \in Request /\ UnloadStep \in LastSteps
    BY <1>9, <1>a, <1>c, CapturedType DEF Retract, Cut, Working, InHand, UnloadStep, LastSteps, Request
  <2>2. PICK q \in {pending, Serviced(pending)} :
          \/ pending' = [q EXCEPT !.retracted = Loaded, !.source = Loaded, !.lastStep = UnloadStep]
          \/ pending' = [q EXCEPT !.cut = Loaded, !.source = Loaded, !.lastStep = UnloadStep]
    BY <1>9 DEF Retract, Cut
  <2>3. pending' \in Request
    <3>1. q \in Request
      BY <2>1
    <3>2. /\ [q EXCEPT !.retracted = Loaded, !.source = Loaded, !.lastStep = UnloadStep] \in Request
          /\ [q EXCEPT !.cut = Loaded, !.source = Loaded, !.lastStep = UnloadStep] \in Request
      BY <1>d, <2>1, <3>1, SourceType
    <3> QED BY <2>2, <3>2
  <2>4. filament' \in Filament
    BY <1>9, <1>a DEF Retract, Cut, Filament, Tips
  <2> QED BY <1>9, <1>a, <1>d, <2>3, <2>4 DEF Retract, Cut, TypeOK
<1>10. CASE Pull \/ PhysicalLoad \/ LoadExternal
  <2>1. /\ pending \in Request /\ Serviced(pending) \in Request /\ UnloadStep \in LastSteps
        /\ cmd.target \in Targets
    BY <1>10, <1>a, <1>b, <1>c, CapturedType DEF Pull, PhysicalLoad, LoadExternal, Working, InHand, UnloadStep,
       LastSteps, Request
  <2>2. PICK q \in {pending, Serviced(pending)} :
          \/ \E z \in {q.source, Loaded} : pending' = [q EXCEPT !.source = z, !.lastStep = UnloadStep]
          \/ pending' = [q EXCEPT !.lastStep = "load"]
    <3>1. CASE Pull
      BY <3>1 DEF Pull
    <3>2. CASE PhysicalLoad \/ LoadExternal
      BY <3>2 DEF PhysicalLoad, LoadExternal
    <3> QED BY <1>10, <3>1, <3>2
  <2>3. pending' \in Request
    <3>1. q \in Request /\ q.source \in Targets \union {NoSlot} /\ "load" \in LastSteps
      BY <2>1, <2>2 DEF Request, LastSteps
    <3>2. \A z \in {q.source, Loaded} : [q EXCEPT !.source = z, !.lastStep = UnloadStep] \in Request
      BY <1>d, <2>1, <3>1, SourceType
    <3> QED BY <2>2, <3>1, <3>2, NotesType
  <2>4. filament' \in Filament
    <3>1. CASE Pull
      BY <3>1, FedType DEF Pull
    <3>2. CASE PhysicalLoad \/ LoadExternal
      <4>1. /\ [filament EXCEPT !.tracking = TRUE] \in Filament
            /\ [filament EXCEPT !.tip = "gears"] \in Filament
        BY <1>a DEF Filament, Tips
      <4> QED BY <3>2, <4>1, FedType DEF PhysicalLoad, LoadExternal
    <3> QED BY <1>10, <3>1, <3>2
  <2>5. store' \in Store
    <3>1. External \in Targets \union {NoSlot} /\ cmd.target \in Targets \union {NoSlot}
      BY <2>1 DEF Targets
    <3> QED BY <1>10, <1>a, <3>1, StoreType DEF Pull, PhysicalLoad, LoadExternal
  <2>6. cmd' \in Command
    BY <1>10, GoesType DEF Pull, PhysicalLoad, LoadExternal, Phases
  <2>7. sensorOn' \in BOOLEAN /\ host' \in Host /\ recovery' = recovery
    BY <1>10, <1>a, <1>d DEF Pull, PhysicalLoad, LoadExternal
  <2> QED BY <1>a, <2>3, <2>4, <2>5, <2>6, <2>7 DEF TypeOK
<1>11. CASE Flush \/ NoFlush
  <2>1. /\ pending \in Request /\ Serviced(pending) \in Request /\ cmd.target \in Targets
    BY <1>11, <1>a, <1>b, <1>c, CapturedType DEF Flush, NoFlush, Working, InHand
  <2>2. pending' \in Request
    <3>1. \A q \in {pending, Serviced(pending)}, step \in {"restore", "final", "flush"} :
            [q EXCEPT !.flushDone = TRUE, !.lastStep = step] \in Request
      BY <2>1, NotesType DEF LastSteps
    <3>2. CASE Flush
      BY <3>1, <3>2 DEF Flush
    <3>3. CASE NoFlush
      BY <2>1, <3>3, NotesType DEF NoFlush, LastSteps
    <3> QED BY <1>11, <3>2, <3>3
  <2>3. filament' \in Filament
    BY <1>11, <1>a DEF Flush, NoFlush, Filament, Tips
  <2>4. store' \in Store
    <3>1. \A v \in {NoSlot, Commit(cmd.target).feedPending} : v \in Targets \union {NoSlot}
      BY <1>a DEF Store, Commit
    <3>2. (Commit(cmd.target).primed \/ pending.printContext) \in BOOLEAN
      OBVIOUS
    <3>3. CASE Flush
      BY <2>1, <3>1, <3>2, <3>3, StoreType DEF Flush
    <3>4. CASE NoFlush
      BY <2>1, <3>4, StoreType DEF NoFlush
    <3> QED BY <1>11, <3>3, <3>4
  <2>5. cmd' \in Command
    BY <1>11, GoesType DEF Flush, NoFlush, Phases
  <2> QED BY <1>11, <1>a, <1>d, <2>2, <2>3, <2>4, <2>5 DEF Flush, NoFlush, TypeOK
<1>12. CASE FinalTemperature
  <2>1. Serviced(pending) \in Request /\ pending \in Request
    BY <1>12, <1>a, <1>c, CapturedType DEF FinalTemperature, Working, InHand
  <2>2. cmd' \in Command
    BY <1>12, GoesType DEF FinalTemperature, Phases
  <2> QED BY <1>12, <1>a, <1>d, <2>1, <2>2 DEF FinalTemperature, TypeOK
<1>13. CASE Finish
  <2>1. pending \in Request
    BY <1>13, <1>c DEF Finish, InHand, LockInv, CommandKnown
  <2>2. pending' \in Request
    <3>1. pending.lastStep \in LastSteps
      BY <2>1 DEF Request
    <3> QED BY <1>13, <2>1, <3>1, NotesType DEF Finish, LastSteps
  <2>3. cmd' \in Command
    BY <1>13, GoesType DEF Finish, Phases
  <2>4. host' \in Host
    <3>1. (IF Returns(pending) THEN pending.origin ELSE host.head) \in Places
      BY <1>a, <2>1 DEF Returns, Request, Host
    <3>2. \A x \in Places, y \in Places : [host EXCEPT !.head = x, !.pauseAt = y] \in Host
      BY <1>a DEF Host
    <3>3. host.pauseAt \in Places
      BY <1>a DEF Host
    <3> QED BY <1>13, <3>1, <3>2, <3>3 DEF Finish
  <2> QED BY <1>13, <1>a, <2>2, <2>3, <2>4 DEF Finish, TypeOK
<1>14. CASE Succeed
  <2>1. Disowned \in Filament
    BY <1>a DEF Disowned, Filament, Tips
  <2>2. Resumed \in Host
    BY <1>a DEF Resumed, Host, Places
  <2> QED BY <1>14, <1>a, <2>1, <2>2, NoCommandType DEF Succeed, TypeOK
<1>15. CASE StepFails
  <2>1. InHand /\ pending \in Request /\ Serviced(pending) \in Request /\ cmd.target \in Targets
    BY <1>15, <1>a, <1>b, <1>c, CapturedType DEF StepFails, InHand
  <2>2. filament' \in Filament /\ sensorOn' \in BOOLEAN /\ store' \in Store
    BY <1>15, <1>a, <2>1, ResidueType, StoreType DEF StepFails, RestoreSensor, Command
  <2>3. PICK left, r, head :
          /\ r \in RequestAfter(left) /\ head \in HeadAfter(left)
          /\ IF cmd.name = "change" THEN OperationFailed(r, [host EXCEPT !.head = head])
             ELSE RunoutFailed(r, [host EXCEPT !.head = head])
    BY <1>15 DEF StepFails
  <2> DEFINE h == [host EXCEPT !.head = head]
  <2>4. StepsAfter \subseteq LastSteps
    <3>1. pending.lastStep \in LastSteps /\ UnloadStep \in LastSteps
      BY <2>1 DEF Request, UnloadStep, LastSteps
    <3> QED BY <3>1 DEF StepsAfter, LastSteps
  <2>5. r \in Request
    <3>1. PICK step \in StepsAfter : r = [(IF left THEN Serviced(pending) ELSE pending) EXCEPT !.lastStep = step]
      BY <2>3 DEF RequestAfter
    <3> QED BY <2>1, <2>4, <3>1, NotesType
  <2>6. h \in Host
    <3>1. head \in Places
      BY <1>a, <2>1, <2>3 DEF HeadAfter, Host, Places, Returns, Request
    <3> QED BY <1>a, <3>1 DEF Host
  <2> HIDE DEF h
  <2>7. CASE cmd.name = "change"
    <3>1. OperationFailed(r, h)
      BY <2>3, <2>7 DEF h
    <3> QED BY <2>2, <2>5, <2>6, <3>1, FailedTypes DEF TypeOK
  <2>8. CASE cmd.name # "change"
    <3> DEFINE q == [r EXCEPT !.resume = ~Abort]
    <3>1. pending' = q /\ PauseRunout(q, h)
      BY <2>3, <2>8 DEF h, RunoutFailed
    <3>2. q \in Request
      <4>1. \A v \in BOOLEAN : [r EXCEPT !.resume = v] \in Request
        BY <2>5 DEF Request
      <4> QED BY <4>1
    <3> HIDE DEF q
    <3> QED BY <2>2, <2>6, <3>1, <3>2, RunoutTypes DEF TypeOK
  <2> QED BY <2>7, <2>8
<1>16. CASE RunoutSwap
  <2>1. PICK t \in Slots \ {filament.path}, path \in {filament.path, NoSlot} :
          /\ filament' = [TailEnds EXCEPT !.path = path]
          /\ pending' = Serviced(RunoutRequest(t))
          /\ cmd' = [NoCommand EXCEPT !.name = "runout", !.target = t,
                       !.at = IF path = NoSlot THEN "load" ELSE "unload",
                       !.sensorBefore = path # NoSlot => sensorOn]
          /\ sensorOn' = IF path = NoSlot THEN sensorOn ELSE FALSE
    BY <1>16 DEF RunoutSwap
  <2>2. RunoutRequest(t) \in Request
    BY <1>16 DEF RunoutSwap, RunoutRequest, Request, Targets, Places, LastSteps
  <2>3. pending' \in Request
    BY <1>a, <2>1, <2>2, CapturedType
  <2>4. filament' \in Filament /\ sensorOn' \in BOOLEAN
    BY <1>a, <2>1 DEF TailEnds, Filament, Tips
  <2>5. cmd' \in Command
    <3>1. \A v \in BOOLEAN, at \in {"load", "unload"} :
            [NoCommand EXCEPT !.name = "runout", !.target = t, !.at = at, !.sensorBefore = v] \in Command
      BY DEF NoCommand, Command, Targets
    <3>2. (path # NoSlot => sensorOn) \in BOOLEAN
      OBVIOUS
    <3> QED BY <2>1, <3>1, <3>2
  <2> QED BY <1>16, <1>a, <1>d, <2>3, <2>4, <2>5 DEF RunoutSwap, TypeOK
<1>17. CASE RunoutPause
  <2>1. PauseRunout(pending, host) /\ UNCHANGED <<pending, sensorOn>>
    BY <1>17 DEF RunoutPause
  <2>2. recovery' \in Recovery /\ host' \in Host /\ cmd' \in Command
    BY <1>a, <2>1, RunoutTypes
  <2>3. filament' \in Filament /\ store' \in Store
    BY <1>17, <1>a, StoreType DEF RunoutPause, TailEnds, Filament, Tips
  <2> QED BY <1>a, <2>1, <2>2, <2>3 DEF TypeOK
<1>18. CASE UnloadCommand
  <2>1. store' \in Store
    BY <1>18, <1>a, StoreType DEF UnloadCommand
  <2>2. cmd' \in Command
    <3>1. [NoCommand EXCEPT !.name = "unload", !.at = "unload", !.sensorBefore = sensorOn] \in Command
      BY <1>a DEF NoCommand, Command
    <3> QED BY <1>18, <1>a, <3>1 DEF UnloadCommand
  <2> QED BY <1>18, <1>a, <2>1, <2>2 DEF UnloadCommand, TypeOK
<1>19. CASE UnloadDone \/ UnloadFails
  <2>1. filament' \in Filament /\ store' \in Store
    BY <1>19, <1>a, StoreType, PartsType, FedType DEF UnloadDone, UnloadFails
  <2> QED BY <1>19, <1>a, <1>d, <2>1, NoCommandType DEF UnloadDone, UnloadFails, RestoreSensor, Command, TypeOK
<1>20. CASE LoadCommand
  <2>1. PICK t \in Slots :
     \/ /\ filament' = Fed(t)
        /\ store' = [store EXCEPT !.lastLoaded = t, !.feedPending = t]
        /\ sensorOn' = TRUE
     \/ /\ filament' = [filament EXCEPT !.tracking = TRUE]
        /\ store' = Commit(t)
        /\ sensorOn' = TRUE
     \/ filament' \in PartLoaded(t) /\ UNCHANGED <<store, sensorOn>>
    BY <1>20 DEF LoadCommand
  <2>2. filament' \in Filament
    BY <1>a, <2>1, FedType, PartsType DEF Filament
  <2>3. store' \in Store
    BY <1>a, <2>1 DEF Store, Commit, Targets
  <2> QED BY <1>20, <1>a, <2>1, <2>2, <2>3 DEF LoadCommand, TypeOK
<1>21. CASE FaultLatched \/ ClogDetected
  <2>1. host' \in Host /\ cmd' \in Command
    <3>1. [cmd EXCEPT !.fault = TRUE] \in Command
      BY <1>a DEF Command
    <3> QED BY <1>21, <1>a, <3>1, PausedTypes DEF FaultLatched, ClogDetected
  <2>2. recovery' \in Recovery \union {NoRecovery}
    <3>1. filament.path \in Targets \union {NoSlot}
      BY <1>21 DEF FaultLatched, ClogDetected, Targets
    <3> QED BY <1>21, <1>a, <3>1, BlockedType DEF FaultLatched, ClogDetected
  <2> QED BY <1>21, <1>a, <2>1, <2>2 DEF FaultLatched, ClogDetected, TypeOK
<1>22. CASE UserPause \/ Pause \/ Resume
  <2>1. host' \in Host
    <3>1. [host EXCEPT !.pauseSent = TRUE, !.userPause = TRUE] \in Host /\ Resumed \in Host
      BY <1>a DEF Host, Resumed, Places
    <3> QED BY <1>22, <1>a, <3>1, PausedTypes DEF UserPause, Pause, Resume
  <2> QED BY <1>22, <1>a, <2>1 DEF UserPause, Pause, Resume, TypeOK
<1>23. CASE InsertExternal
  BY <1>23, <1>a DEF InsertExternal, TypeOK, Empty, Filament, Tips
<1>24. CASE PrintStarts \/ PrintEnds
  <2>1. Disowned \in Filament
    BY <1>a DEF Disowned, Filament, Tips
  <2>2. host' \in Host
    BY <1>24, <1>a DEF PrintStarts, PrintEnds, Host, Places
  <2>3. store' \in Store
    BY <1>24, <1>a DEF PrintStarts, PrintEnds, Store
  <2> QED BY <1>24, <1>a, <2>1, <2>2, <2>3 DEF PrintStarts, PrintEnds, ResetRecovery, TypeOK
<1> QED
  BY <1>1, <1>2, <1>3, <1>4, <1>5, <1>6, <1>7, <1>8, <1>9, <1>10, <1>11, <1>12, <1>13,
     <1>14, <1>15, <1>16, <1>17, <1>18, <1>19, <1>20, <1>21, <1>22, <1>23, <1>24
  DEF Next, Decide, Work, ManualCommands, Events

-----------------------------------------------------------------------------
(***************************************************************************)
(* What the steps do to a request, by the fields that the invariants are   *)
(* about: what was done for it, and where it left the part.                *)
(***************************************************************************)
SameRequest(q, r) ==
  /\ q.target = r.target /\ q.kind = r.kind /\ q.flush = r.flush
  /\ q.printContext = r.printContext /\ q.inherited = r.inherited

Done(q, r) ==
  /\ q.retracted = r.retracted /\ q.cut = r.cut /\ q.flushDone = r.flushDone

Placed(q, r) ==
  /\ q.origin = r.origin /\ q.serviceZ = r.serviceZ /\ q.rebase = r.rebase

Base == TypeOK /\ LockInv /\ WorkKnown

\* The position is noted once, when the request is for the print.
Captures(q, r) ==
  IF r.printContext /\ r.origin = "none"
  THEN q.origin = host.head /\ q.rebase = ~Paused
  ELSE q.origin = r.origin /\ q.rebase = r.rebase

LEMMA CapturedIs ==
  ASSUME host \in Host, NEW r \in Request, NEW q \in {Captured(r), Serviced(r)}
  PROVE  /\ SameRequest(q, r) /\ Done(q, r) /\ q \in Request /\ Captures(q, r)
         /\ q.resume = r.resume /\ q.runoutRecovery = r.runoutRecovery /\ q.lastStep = r.lastStep
         /\ r.serviceZ => q.serviceZ
         /\ q = Serviced(r) => q.serviceZ
<1>1. Captured(r) \in Request /\ Serviced(r) \in Request
  BY CapturedType
<1>2. /\ SameRequest(Captured(r), r) /\ Done(Captured(r), r) /\ Captures(Captured(r), r)
      /\ Captured(r).resume = r.resume /\ Captured(r).runoutRecovery = r.runoutRecovery
      /\ Captured(r).lastStep = r.lastStep /\ Captured(r).serviceZ = r.serviceZ
  BY DEF Captured, SameRequest, Done, Request, Captures
<1> DEFINE c == Captured(r)
<1>3. Serviced(r) = [c EXCEPT !.serviceZ = TRUE] /\ c \in Request
  BY <1>1 DEF Serviced
<1> HIDE DEF c
<1>4. /\ SameRequest(Serviced(r), c) /\ Done(Serviced(r), c)
      /\ Serviced(r).resume = c.resume /\ Serviced(r).runoutRecovery = c.runoutRecovery
      /\ Serviced(r).lastStep = c.lastStep /\ Serviced(r).serviceZ = TRUE
      /\ Serviced(r).origin = c.origin /\ Serviced(r).rebase = c.rebase
  BY <1>3 DEF SameRequest, Done, Request
<1> QED BY <1>1, <1>2, <1>4 DEF c, SameRequest, Done, Captures

\* What the work notes in a request changes nothing else of it.
Noted(p, q) ==
  /\ p \in Request /\ SameRequest(p, q) /\ Placed(p, q)
  /\ p.resume = q.resume /\ p.runoutRecovery = q.runoutRecovery

LEMMA NotedIs ==
  ASSUME NEW q \in Request, NEW z \in Targets \union {NoSlot}, NEW step \in LastSteps
  PROVE  /\ Noted(q, q) /\ Noted([q EXCEPT !.lastStep = step], q)
         /\ Noted([q EXCEPT !.source = z, !.lastStep = step], q)
         /\ Noted([q EXCEPT !.retracted = z, !.source = z, !.lastStep = step], q)
         /\ Noted([q EXCEPT !.cut = z, !.source = z, !.lastStep = step], q)
         /\ Noted([q EXCEPT !.flushDone = TRUE, !.lastStep = step], q)
<1>1. Noted(q, q) /\ Noted([q EXCEPT !.lastStep = step], q)
  <2>1. [q EXCEPT !.lastStep = step] \in Request
    BY NotesType
  <2> QED BY <2>1 DEF Noted, SameRequest, Placed, Request
<1>2. Noted([q EXCEPT !.source = z, !.lastStep = step], q)
  <2>1. [q EXCEPT !.source = z, !.lastStep = step] \in Request
    BY SourceType
  <2> QED BY <2>1 DEF Noted, SameRequest, Placed, Request
<1>3. Noted([q EXCEPT !.retracted = z, !.source = z, !.lastStep = step], q)
  <2>1. [q EXCEPT !.retracted = z, !.source = z, !.lastStep = step] \in Request
    BY SourceType
  <2> QED BY <2>1 DEF Noted, SameRequest, Placed, Request
<1>4. Noted([q EXCEPT !.cut = z, !.source = z, !.lastStep = step], q)
  <2>1. [q EXCEPT !.cut = z, !.source = z, !.lastStep = step] \in Request
    BY SourceType
  <2> QED BY <2>1 DEF Noted, SameRequest, Placed, Request
<1>5. Noted([q EXCEPT !.flushDone = TRUE, !.lastStep = step], q)
  <2>1. [q EXCEPT !.flushDone = TRUE, !.lastStep = step] \in Request
    BY NotesType
  <2> QED BY <2>1 DEF Noted, SameRequest, Placed, Request
<1> QED BY <1>1, <1>2, <1>3, <1>4, <1>5

\* The work on a request goes on, at the part or away from it.
Works == Retract \/ Cut \/ Pull \/ PhysicalLoad \/ LoadExternal \/ Flush \/ NoFlush \/ FinalTemperature

LEMMA WorksIs ==
  ASSUME Base, Works
  PROVE  /\ InHand /\ InHand' /\ pending \in Request /\ pending' \in Request
         /\ cmd'.name = cmd.name /\ cmd'.target = cmd.target /\ ~Abort
         /\ SameRequest(pending', pending) /\ pending'.resume = pending.resume
         /\ pending'.runoutRecovery = pending.runoutRecovery
         /\ \/ Placed(pending', pending) /\ host' = host
            \/ Placed(pending', Serviced(pending)) /\ host' = Away
<1>1. Working(cmd.at) /\ cmd.at \in {"unload", "load", "flush", "final"}
  BY DEF Works, Retract, Cut, Pull, PhysicalLoad, LoadExternal, Flush, NoFlush, FinalTemperature, Working
<1>2. InHand /\ pending \in Request /\ ~Abort
  BY <1>1 DEF Working, InHand, Base, WorkKnown, TypeOK
<1>3. cmd \in Command /\ (cmd' = cmd \/ \E at \in {"load", "flush", "final", "finish"} : Advance(at))
  BY DEF Works, Retract, Cut, Pull, PhysicalLoad, LoadExternal, Flush, NoFlush, FinalTemperature, Base, TypeOK
<1>4. /\ InHand' /\ cmd'.name = cmd.name /\ cmd'.target = cmd.target
  BY <1>2, <1>3 DEF InHand, Advance, Command
<1>5. /\ Serviced(pending) \in Request /\ SameRequest(Serviced(pending), pending)
      /\ Serviced(pending).resume = pending.resume
      /\ Serviced(pending).runoutRecovery = pending.runoutRecovery
  BY <1>2, CapturedIs DEF Base, TypeOK
<1>6. Loaded \in Targets \union {NoSlot} /\ UnloadStep \in LastSteps /\ pending.source \in Targets \union {NoSlot}
  BY <1>2, LoadedType DEF Base, TypeOK, UnloadStep, LastSteps, Request
<1>7. \A q \in {pending, Serviced(pending)}, z \in Targets \union {NoSlot}, step \in LastSteps :
        /\ Noted(q, q) /\ Noted([q EXCEPT !.lastStep = step], q)
        /\ Noted([q EXCEPT !.source = z, !.lastStep = step], q)
        /\ Noted([q EXCEPT !.retracted = z, !.source = z, !.lastStep = step], q)
        /\ Noted([q EXCEPT !.cut = z, !.source = z, !.lastStep = step], q)
        /\ Noted([q EXCEPT !.flushDone = TRUE, !.lastStep = step], q)
  BY <1>2, <1>5, NotedIs
<1>8. \/ Noted(pending', pending) /\ host' = host
      \/ Noted(pending', Serviced(pending)) /\ host' = Away
  <2>0. LastSteps = {"none", "attendance", "load", "flush", "final", "restore", "moving"}
    BY DEF LastSteps
  <2>1. CASE Retract
    BY <2>1, <1>6, <1>7 DEF Retract
  <2>2. CASE Cut
    BY <2>2, <1>6, <1>7 DEF Cut
  <2>3. CASE Pull
    <3> DEFINE q == IF filament.detected THEN Serviced(pending) ELSE pending
    <3>1. q.source \in Targets \union {NoSlot}
      BY <1>5, <1>6 DEF Request
    <3>2. pending' = [q EXCEPT !.source = IF Swapping THEN q.source ELSE Loaded, !.lastStep = UnloadStep]
      BY <2>3 DEF Pull
    <3>3. Noted(pending', q)
      BY <1>6, <1>7, <3>1, <3>2
    <3> QED BY <2>3, <3>3 DEF Pull
  <2>4. CASE PhysicalLoad \/ LoadExternal
    BY <2>0, <2>4, <1>6, <1>7 DEF PhysicalLoad, LoadExternal
  <2>5. CASE Flush
    <3> DEFINE q == IF Extrudes THEN Serviced(pending) ELSE pending
    <3>1. PICK step \in LastSteps : pending' = [q EXCEPT !.flushDone = TRUE, !.lastStep = step]
      BY <2>0, <2>5 DEF Flush
    <3>2. Noted(pending', q)
      BY <1>6, <1>7, <3>1
    <3> QED BY <2>5, <3>2 DEF Flush
  <2>6. CASE NoFlush
    BY <2>0, <2>6, <1>6, <1>7 DEF NoFlush
  <2>7. CASE FinalTemperature
    BY <2>0, <2>7, <1>6, <1>7 DEF FinalTemperature
  <2> QED BY <2>1, <2>2, <2>3, <2>4, <2>5, <2>6, <2>7 DEF Works
<1> QED BY <1>2, <1>4, <1>5, <1>8 DEF Noted, SameRequest, Placed

LEMMA ServicedIs ==
  ASSUME Base, pending \in Request
  PROVE  /\ Serviced(pending) \in Request /\ SameRequest(Serviced(pending), pending)
         /\ Done(Serviced(pending), pending) /\ Captures(Serviced(pending), pending)
         /\ Serviced(pending).resume = pending.resume
         /\ Serviced(pending).runoutRecovery = pending.runoutRecovery
         /\ Serviced(pending).lastStep = pending.lastStep /\ Serviced(pending).serviceZ
BY CapturedIs DEF Base, TypeOK

\* The request after a failure, and the host.
KeptHost(h) ==
  /\ host'.print = h.print /\ host'.head = h.head /\ host'.pauseAt = h.pauseAt
  /\ host'.userPause = h.userPause

LEMMA FailedIs ==
  ASSUME NEW r \in Request, NEW h \in Host, OperationFailed(r, h)
  PROVE  /\ cmd' = NoCommand /\ pending' \in Request
         /\ SameRequest(pending', r) /\ Done(pending', r) /\ Placed(pending', r)
         /\ pending'.runoutRecovery = r.runoutRecovery /\ pending'.lastStep = r.lastStep
         /\ pending'.resume = (r.resume /\ ~Abort)
         /\ KeptHost(h)
         /\ host'.pauseSent <=> h.pauseSent \/ (r.printContext /\ Printing)
<1> DEFINE q == [r EXCEPT !.resume = @ /\ ~Abort]
<1>1. q \in Request
  <2>1. \A v \in BOOLEAN : [r EXCEPT !.resume = v] \in Request
    BY DEF Request
  <2>2. (r.resume /\ ~Abort) \in BOOLEAN
    OBVIOUS
  <2> QED BY <2>1, <2>2
<1>2. /\ SameRequest(q, r) /\ Done(q, r) /\ Placed(q, r) /\ q.runoutRecovery = r.runoutRecovery
      /\ q.lastStep = r.lastStep /\ q.printContext = r.printContext
  BY DEF SameRequest, Done, Placed, Request
<1>3. q.resume = (r.resume /\ ~Abort)
  BY DEF Request
<1>4. /\ pending' = q /\ cmd' = NoCommand
      /\ host' = IF q.printContext THEN PausePrint(h) ELSE h
  BY DEF OperationFailed
<1> HIDE DEF q
<1>5. /\ PausePrint(h).print = h.print /\ PausePrint(h).head = h.head
      /\ PausePrint(h).pauseAt = h.pauseAt /\ PausePrint(h).userPause = h.userPause
      /\ PausePrint(h).pauseSent = (h.pauseSent \/ Printing)
  BY DEF PausePrint, Host
<1> QED BY <1>1, <1>2, <1>3, <1>4, <1>5 DEF KeptHost

\* A print that is paused at once.
PausedHost(h) ==
  /\ host'.print = "paused" /\ host'.pauseSent = TRUE /\ host'.userPause = h.userPause
  /\ host'.pauseAt = h.head /\ host'.head = "away"

LEMMA PausedIs ==
  ASSUME NEW h \in Host, host' = PausedNow(h)
  PROVE  PausedHost(h)
BY DEF PausedNow, PausedHost, Host

LEMMA StepFailsIs ==
  ASSUME Base, StepFails
  PROVE  /\ InHand /\ pending \in Request /\ pending' \in Request /\ cmd' = NoCommand
         /\ cmd.name \in {"change", "runout"} /\ cmd.at # "decide"
         /\ SameRequest(pending', pending) /\ Done(pending', pending)
         /\ pending'.runoutRecovery = pending.runoutRecovery /\ pending'.lastStep \in StepsAfter
         /\ cmd.name = "change" => pending'.resume = (pending.resume /\ ~Abort)
         /\ cmd.name = "runout" => pending'.resume = ~Abort
         /\ \E left \in {FALSE, Leaves(cmd.at)} : \E head \in HeadAfter(left) :
              /\ Placed(pending', IF left THEN Serviced(pending) ELSE pending)
              /\ head \in Places
              /\ cmd.name = "change" =>
                   /\ KeptHost([host EXCEPT !.head = head])
                   /\ host'.pauseSent <=> host.pauseSent \/ (pending.printContext /\ Printing)
              /\ cmd.name = "runout" => PausedHost([host EXCEPT !.head = head])
<1>1. /\ InHand /\ pending \in Request /\ host \in Host
      /\ cmd.name \in {"change", "runout"} /\ cmd.at # "decide"
  BY DEF StepFails, InHand, Base, WorkKnown, TypeOK
<1>2. PICK left \in {FALSE, Leaves(cmd.at)} : \E r \in RequestAfter(left), head \in HeadAfter(left) :
        IF cmd.name = "change" THEN OperationFailed(r, [host EXCEPT !.head = head])
        ELSE RunoutFailed(r, [host EXCEPT !.head = head])
  BY DEF StepFails
<1>3. PICK r \in RequestAfter(left), head \in HeadAfter(left) :
        IF cmd.name = "change" THEN OperationFailed(r, [host EXCEPT !.head = head])
        ELSE RunoutFailed(r, [host EXCEPT !.head = head])
  BY <1>2
<1> DEFINE h == [host EXCEPT !.head = head]
           q == IF left THEN Serviced(pending) ELSE pending
<1>4. head \in Places
  BY <1>1 DEF HeadAfter, Host, Places, Returns, Request
<1>5. h \in Host /\ h.pauseSent = host.pauseSent /\ h.print = host.print
  BY <1>1, <1>4 DEF Host
<1>6. /\ q \in Request /\ SameRequest(q, pending) /\ Done(q, pending)
      /\ q.resume = pending.resume /\ q.runoutRecovery = pending.runoutRecovery
  <2>1. SameRequest(pending, pending) /\ Done(pending, pending)
    BY DEF SameRequest, Done
  <2> QED BY <1>1, <2>1, ServicedIs
<1>7. PICK step \in StepsAfter : r = [q EXCEPT !.lastStep = step]
  BY <1>3 DEF RequestAfter
<1>8. StepsAfter \subseteq LastSteps
  <2>1. pending.lastStep \in LastSteps /\ UnloadStep \in LastSteps
    BY <1>1 DEF Request, UnloadStep, LastSteps
  <2> QED BY <2>1 DEF StepsAfter, LastSteps
<1> HIDE DEF q, h
<1>9. /\ r \in Request /\ SameRequest(r, q) /\ Done(r, q) /\ Placed(r, q)
      /\ r.resume = q.resume /\ r.runoutRecovery = q.runoutRecovery /\ r.lastStep = step
  <2>1. r \in Request
    BY <1>6, <1>7, <1>8, NotesType
  <2> QED BY <1>6, <1>7, <2>1 DEF SameRequest, Done, Placed, Request
<1>10. r.printContext = pending.printContext
  BY <1>6, <1>9 DEF SameRequest
<1>11. /\ cmd' = NoCommand /\ pending' \in Request
       /\ SameRequest(pending', r) /\ Done(pending', r) /\ Placed(pending', r)
       /\ pending'.runoutRecovery = r.runoutRecovery /\ pending'.lastStep = r.lastStep
       /\ cmd.name = "change" =>
            /\ pending'.resume = (r.resume /\ ~Abort) /\ KeptHost(h)
            /\ host'.pauseSent <=> h.pauseSent \/ (r.printContext /\ Printing)
       /\ cmd.name = "runout" => pending'.resume = ~Abort /\ PausedHost(h)
  <2>1. CASE cmd.name = "change"
    <3>1. OperationFailed(r, h)
      BY <1>3, <2>1 DEF h
    <3> QED BY <1>5, <1>9, <2>1, <3>1, FailedIs
  <2>2. CASE cmd.name = "runout"
    <3> DEFINE p == [r EXCEPT !.resume = ~Abort]
    <3>1. pending' = p /\ PauseRunout(p, h)
      BY <1>3, <2>2 DEF h, RunoutFailed
    <3>2. p \in Request
      <4>1. \A v \in BOOLEAN : [r EXCEPT !.resume = v] \in Request
        BY <1>9 DEF Request
      <4> QED BY <4>1
    <3>3. /\ SameRequest(p, r) /\ Done(p, r) /\ Placed(p, r) /\ p.resume = ~Abort
          /\ p.runoutRecovery = r.runoutRecovery /\ p.lastStep = r.lastStep
      BY <1>9 DEF SameRequest, Done, Placed, Request
    <3> HIDE DEF p
    <3>4. cmd' = NoCommand /\ host' = PausedNow(h)
      BY <3>1 DEF PauseRunout
    <3> QED BY <1>5, <2>2, <3>1, <3>2, <3>3, <3>4, PausedIs
  <2> QED BY <1>1, <2>1, <2>2
<1>12. /\ SameRequest(pending', pending) /\ Done(pending', pending) /\ Placed(pending', q)
       /\ pending'.runoutRecovery = pending.runoutRecovery /\ pending'.lastStep \in StepsAfter
       /\ r.resume = pending.resume
  BY <1>6, <1>7, <1>9, <1>11 DEF SameRequest, Done, Placed
<1> QED BY <1>1, <1>4, <1>5, <1>10, <1>11, <1>12 DEF q, h

\* The request a change works on is the one that waits, one that takes over its
\* checkpoints, or a new one.
TakenOver(r) ==
  /\ pending \in Request /\ pending.target # cmd.target
  /\ Done([r EXCEPT !.flushDone = pending.flushDone], pending) /\ Placed(r, pending)
  /\ r.printContext = pending.printContext /\ r.runoutRecovery = pending.runoutRecovery
  /\ r.resume = pending.resume
  /\ r.kind = "normal" /\ r.flushDone = FALSE /\ r.inherited = TRUE /\ r.lastStep = "none"

LEMMA ChosenIs ==
  ASSUME Base, cmd.name = "change"
  PROVE  /\ Chosen \in Request /\ cmd.target \in Targets /\ Chosen.target = cmd.target
         /\ PrintOn => Chosen.printContext
         /\ \/ Chosen = pending
            \/ TakenOver(Chosen)
            \/ ~Inheritable(pending, cmd.target) /\ Chosen = FreshRequest(cmd.target, cmd.flush)
<1>1. cmd.target \in Targets /\ TypeOK
  BY DEF Base, LockInv, CommandKnown
<1>2. Chosen \in Request /\ Chosen.target = cmd.target
  BY <1>1, ChosenType
<1>3. PrintOn => Chosen.printContext
  BY ChosenForPrint DEF Base, ForPrint
<1>4. \/ Chosen = pending \/ TakenOver(Chosen)
      \/ ~Inheritable(pending, cmd.target) /\ Chosen = FreshRequest(cmd.target, cmd.flush)
  <2>1. CASE pending # NoRequest /\ pending.target = cmd.target
    BY <2>1 DEF Chosen
  <2>2. CASE ~(pending # NoRequest /\ pending.target = cmd.target) /\ ~Inheritable(pending, cmd.target)
    BY <2>2 DEF Chosen, NewRequest
  <2>3. CASE Inheritable(pending, cmd.target)
    <3>1. pending \in Request /\ pending.target # cmd.target
      BY <1>1, <2>3 DEF Inheritable, TypeOK
    <3>2. Chosen = [pending EXCEPT !.target = cmd.target, !.kind = "normal", !.flush = cmd.flush,
                                   !.flushDone = FALSE, !.lastStep = "none", !.inherited = TRUE]
      BY <2>3, <3>1 DEF Chosen, NewRequest
    <3>3. TakenOver(Chosen)
      BY <1>2, <3>1, <3>2 DEF TakenOver, Done, Placed, Request
    <3> QED BY <3>3
  <2> QED BY <2>1, <2>2, <2>3
<1> QED BY <1>1, <1>2, <1>3, <1>4

LEMMA DecidesIs ==
  ASSUME Base, NothingToDo \/ Execute \/ RetryRunout
  PROVE  /\ cmd.name = "change" /\ cmd.at = "decide" /\ ~Abort /\ ~Unattended(cmd.target)
         /\ InHand' /\ cmd'.name = "change" /\ cmd'.target = cmd.target
         /\ pending' \in Request /\ SameRequest(pending', Chosen) /\ Done(pending', Chosen)
         /\ pending'.resume = Chosen.resume /\ pending'.lastStep = Chosen.lastStep
         /\ pending'.runoutRecovery = Chosen.runoutRecovery
         /\ \/ Placed(pending', Chosen) /\ host' = host /\ ~Execute
            \/ Execute /\ pending' = Captured(Chosen) /\ host' = host
            \/ Chosen = pending /\ Placed(pending', Serviced(pending)) /\ host' = Away
<1>1. cmd.name = "change" /\ cmd.at = "decide" /\ ~Abort /\ ~Unattended(cmd.target) /\ cmd \in Command
  BY DEF NothingToDo, Execute, RetryRunout, Deciding, Base, TypeOK
<1>2. PICK at \in {"unload", "load", "flush", "finish", "end"} : \E s : GoTo(at, s)
  BY DEF NothingToDo, Execute, RetryRunout, FirstPhase, RunoutWork, RunoutPhase
<1>3. InHand' /\ cmd'.name = "change" /\ cmd'.target = cmd.target
  BY <1>1, <1>2 DEF GoTo, InHand, Command
<1>4. Chosen \in Request /\ host \in Host
  BY <1>1, ChosenIs DEF Base, TypeOK
<1>5. \/ pending' = Chosen /\ host' = host /\ ~Execute
      \/ Execute /\ pending' = Captured(Chosen) /\ host' = host
      \/ Chosen = pending /\ pending' = Serviced(pending) /\ host' = Away
  <2>1. CASE NothingToDo
    <3>1. ~Execute
      BY <2>1 DEF NothingToDo, Execute
    <3> QED BY <2>1, <3>1 DEF NothingToDo
  <2>2. CASE Execute
    BY <2>2 DEF Execute
  <2>3. CASE RetryRunout
    <3>1. ~Execute
      BY <2>3 DEF RetryRunout, Execute
    <3> QED BY <2>3, <3>1 DEF RetryRunout, RunoutWork
  <2> QED BY <2>1, <2>2, <2>3
<1>6. SameRequest(Chosen, Chosen) /\ Done(Chosen, Chosen) /\ Placed(Chosen, Chosen)
      /\ Placed(Serviced(pending), Serviced(pending))
  BY DEF SameRequest, Done, Placed
<1>7. \A q \in {Captured(Chosen), Serviced(Chosen)} :
        /\ SameRequest(q, Chosen) /\ Done(q, Chosen) /\ q \in Request
        /\ q.resume = Chosen.resume /\ q.runoutRecovery = Chosen.runoutRecovery
        /\ q.lastStep = Chosen.lastStep
  BY <1>4, CapturedIs
<1>8. pending' \in {Chosen, Captured(Chosen), Serviced(Chosen)}
  BY <1>5
<1>9. /\ pending' \in Request /\ SameRequest(pending', Chosen) /\ Done(pending', Chosen)
      /\ pending'.resume = Chosen.resume /\ pending'.lastStep = Chosen.lastStep
      /\ pending'.runoutRecovery = Chosen.runoutRecovery
  BY <1>4, <1>6, <1>7, <1>8
<1> QED BY <1>1, <1>3, <1>5, <1>6, <1>9

\* A decision that fails, and one that waits for somebody.
LEMMA GivesUpIs ==
  ASSUME Base, DecideAborts \/ Attend \/ (ReadFails /\ pending # NoRequest /\ pending.target = cmd.target)
  PROVE  /\ cmd.name = "change" /\ cmd.at = "decide" /\ cmd' = NoCommand
         /\ pending' \in Request /\ SameRequest(pending', Chosen) /\ Done(pending', Chosen)
         /\ pending'.runoutRecovery = Chosen.runoutRecovery
         /\ \/ pending'.lastStep = Chosen.lastStep
            \/ pending'.lastStep = "attendance" /\ Loaded # Chosen.target
         /\ \/ Placed(pending', Chosen) /\ pending'.resume = (Chosen.resume /\ ~Abort)
            \/ Placed(pending', Captured(Chosen)) /\ pending'.resume = Chosen.resume /\ ~Abort
         /\ KeptHost(host)
         /\ PrintOn => (host'.pauseSent <=> host.pauseSent \/ Printing)
         /\ UNCHANGED <<filament, store>>
<1>1. /\ cmd.name = "change" /\ cmd.at = "decide" /\ host \in Host /\ Chosen \in Request
      /\ UNCHANGED <<filament, store>> /\ (PrintOn => Chosen.printContext) /\ Chosen.target = cmd.target
  BY ChosenIs DEF DecideAborts, Attend, Deciding, ReadFails, Base, TypeOK
<1>2. CASE DecideAborts \/ (ReadFails /\ pending # NoRequest /\ pending.target = cmd.target)
  <2>1. OperationFailed(Chosen, host)
    BY <1>2 DEF DecideAborts, ReadFails, Chosen
  <2> QED BY <1>1, <2>1, FailedIs
<1>3. CASE Attend
  <2> DEFINE c == Captured(Chosen)
             r == [c EXCEPT !.lastStep = "attendance"]
  <2>1. /\ c \in Request /\ SameRequest(c, Chosen) /\ Done(c, Chosen) /\ c.resume = Chosen.resume
        /\ c.runoutRecovery = Chosen.runoutRecovery
    BY <1>1, CapturedIs
  <2>2. /\ pending' = r /\ host' = PausePrint(host) /\ cmd' = NoCommand /\ ~Abort
        /\ Loaded # Chosen.target
    BY <1>1, <1>3 DEF Attend, Deciding, Unattended
  <2> HIDE DEF c
  <2>3. r \in Request
    BY <2>1, NotesType DEF LastSteps
  <2>4. /\ SameRequest(r, c) /\ Done(r, c) /\ Placed(r, c) /\ r.resume = c.resume
        /\ r.runoutRecovery = c.runoutRecovery /\ r.lastStep = "attendance"
    BY <2>1 DEF SameRequest, Done, Placed, Request
  <2>5. /\ PausePrint(host).print = host.print /\ PausePrint(host).head = host.head
        /\ PausePrint(host).pauseAt = host.pauseAt /\ PausePrint(host).userPause = host.userPause
        /\ PausePrint(host).pauseSent = (host.pauseSent \/ Printing)
    BY <1>1 DEF PausePrint, Host
  <2>6. KeptHost(host) /\ (PrintOn => (host'.pauseSent <=> host.pauseSent \/ Printing))
    BY <2>2, <2>5 DEF KeptHost
  <2> HIDE DEF r
  <2>7. SameRequest(r, Chosen) /\ Done(r, Chosen)
    BY <2>1, <2>4 DEF SameRequest, Done
  <2> QED BY <1>1, <2>1, <2>2, <2>3, <2>4, <2>6, <2>7 DEF c
<1> QED BY <1>2, <1>3

\* Nobody works on the request, or the one that does goes on.
LEMMA WorkStep == Base /\ [Next]_vars => WorkKnown'
<1> SUFFICES ASSUME Base, [Next]_vars PROVE WorkKnown'
  OBVIOUS
<1> DEFINE RunoutKnown(r) == r # NoRequest /\ r.kind = "runout" => r.flush /\ r.target \in Slots
<1>a. /\ TypeOK /\ WorkKnown /\ RunoutKnown(pending) /\ host \in Host /\ cmd \in Command
      /\ NoCommand.name = "none" /\ NoCommand.at = "idle"
  BY DEF Base, TypeOK, WorkKnown, NoCommand
<1>b. ASSUME cmd' = NoCommand, RunoutKnown(pending') PROVE WorkKnown'
  BY <1>a, <1>b DEF WorkKnown, InHand
<1>c. ASSUME NEW q, NEW r, SameRequest(q, r), RunoutKnown(r), q # NoRequest, r # NoRequest
      PROVE  RunoutKnown(q)
  BY <1>c DEF SameRequest
<1>d. ASSUME cmd.name = "change" PROVE RunoutKnown(Chosen) /\ Chosen # NoRequest
  <2>1. Chosen \in Request
    BY <1>d, ChosenIs
  <2>2. Chosen = pending \/ Chosen.kind = "normal"
    <3>1. TakenOver(Chosen) => Chosen.kind = "normal"
      BY DEF TakenOver
    <3>2. FreshRequest(cmd.target, cmd.flush).kind = "normal"
      BY DEF FreshRequest
    <3> QED BY <1>d, <3>1, <3>2, ChosenIs
  <2> QED BY <1>a, <2>1, <2>2, NoneAssumption
<1>1. CASE UNCHANGED vars
  BY <1>a, <1>1 DEF vars, WorkKnown, InHand, Printing
<1>2. CASE ChangeCommand \/ ResumeCheck
  <2>1. PICK t, flush, within : Begin("change", t, flush, within)
    BY <1>2 DEF ChangeCommand, ResumeCheck
  <2>2. cmd'.name = "change" /\ cmd'.at = "decide"
    BY <2>1 DEF Begin, NoCommand
  <2>3. RunoutKnown(pending')
    <3>1. pending' = pending \/ pending'.kind = "normal"
      BY <1>2 DEF ChangeCommand, ResumeCheck, FreshRequest
    <3> QED BY <1>a, <3>1
  <2> QED BY <2>2, <2>3 DEF WorkKnown, InHand
<1>3. CASE ReadFails /\ UNCHANGED pending
  <2>1. cmd' = NoCommand
    BY <1>3 DEF ReadFails, OperationFailed
  <2> QED BY <1>a, <1>b, <1>3, <2>1
<1>4. CASE DecideAborts \/ Attend \/ (ReadFails /\ pending # NoRequest /\ pending.target = cmd.target)
  <2>1. /\ cmd.name = "change" /\ cmd' = NoCommand /\ pending' \in Request
        /\ SameRequest(pending', Chosen)
    BY <1>4, GivesUpIs
  <2>2. RunoutKnown(pending')
    BY <1>c, <1>d, <2>1, NoneAssumption
  <2> QED BY <1>b, <2>1, <2>2
<1>5. CASE NothingToDo \/ Execute \/ RetryRunout
  <2>1. /\ cmd.name = "change" /\ cmd'.name = "change" /\ cmd'.target = cmd.target /\ InHand'
        /\ SameRequest(pending', Chosen) /\ pending' \in Request /\ Chosen.target = cmd.target
    BY <1>5, DecidesIs, ChosenIs
  <2>2. RunoutKnown(pending')
    BY <1>c, <1>d, <2>1, NoneAssumption
  <2>3. pending'.target = cmd'.target /\ cmd'.at # "idle"
    <3>1. PICK at \in {"unload", "load", "flush", "finish", "end"} : \E s : GoTo(at, s)
      BY <1>5 DEF NothingToDo, Execute, RetryRunout, FirstPhase, RunoutWork, RunoutPhase
    <3> QED BY <1>a, <2>1, <3>1 DEF SameRequest, GoTo, Command
  <2> QED BY <2>1, <2>2, <2>3, NoneAssumption DEF WorkKnown
<1>6. CASE Works
  <2>1. /\ InHand /\ InHand' /\ pending \in Request /\ pending' \in Request
        /\ cmd'.name = cmd.name /\ cmd'.target = cmd.target /\ SameRequest(pending', pending)
        /\ host' \in {host, Away}
    BY <1>6, WorksIs
  <2>2. Away.print = host.print
    BY <1>a DEF Away, Host
  <2>3. cmd'.at # "idle"
    <3>1. cmd' = cmd \/ \E at \in {"load", "flush", "final", "finish"} : Advance(at)
      BY <1>6 DEF Works, Retract, Cut, Pull, PhysicalLoad, LoadExternal, Flush, NoFlush, FinalTemperature
    <3> QED BY <1>a, <2>1, <3>1 DEF WorkKnown, InHand, Advance, Command
  <2>4. RunoutKnown(pending')
    BY <1>a, <1>c, <2>1, NoneAssumption
  <2> QED BY <1>a, <2>1, <2>2, <2>3, <2>4, NoneAssumption
          DEF WorkKnown, InHand, SameRequest, Printing
<1>7. CASE Finish
  <2>1. InHand /\ pending \in Request
    BY <1>7 DEF Finish, InHand, Base, LockInv, CommandKnown, WorkKnown, TypeOK
  <2>2. /\ pending' = [pending EXCEPT !.runoutRecovery = FALSE,
                         !.lastStep = IF Returns(pending) THEN "moving"
                                      ELSE IF pending.runoutRecovery THEN "restore" ELSE @]
        /\ cmd' = [cmd EXCEPT !.at = "end", !.prepared = FALSE, !.sensorBefore = TRUE]
        /\ \E x, y : host' = [host EXCEPT !.head = x, !.pauseAt = y]
    BY <1>7 DEF Finish, Advance
  <2>3. SameRequest(pending', pending)
    BY <2>1, <2>2 DEF SameRequest, Request
  <2>4. cmd'.name = cmd.name /\ cmd'.target = cmd.target /\ cmd'.at = "end"
    BY <1>a, <2>2 DEF Command
  <2>5. host'.print = host.print
    BY <1>a, <2>2 DEF Host
  <2>6. pending' # NoRequest
    <3>1. pending.lastStep \in LastSteps /\ {"moving", "restore"} \subseteq LastSteps
      BY <2>1 DEF Request, LastSteps
    <3>2. \A step \in LastSteps : [pending EXCEPT !.runoutRecovery = FALSE, !.lastStep = step] \in Request
      BY <2>1, NotesType
    <3> QED BY <2>2, <3>1, <3>2, NoneAssumption
  <2>7. RunoutKnown(pending')
    BY <1>a, <1>c, <2>1, <2>3, <2>6, NoneAssumption
  <2> QED BY <1>a, <2>1, <2>3, <2>4, <2>5, <2>6, <2>7 DEF WorkKnown, InHand, SameRequest, Printing
<1>8. CASE Succeed
  BY <1>b, <1>8 DEF Succeed
<1>9. CASE StepFails
  <2>1. /\ cmd' = NoCommand /\ pending \in Request /\ pending' \in Request
        /\ SameRequest(pending', pending)
    BY <1>9, StepFailsIs
  <2> QED BY <1>a, <1>b, <1>c, <2>1, NoneAssumption
<1>10. CASE RunoutSwap
  <2>1. PICK t \in Slots : \E path, u :
          /\ pending' = Serviced(RunoutRequest(t))
          /\ cmd' = [NoCommand EXCEPT !.name = "runout", !.target = t,
                       !.at = IF path = NoSlot THEN "load" ELSE "unload", !.sensorBefore = u]
    BY <1>10 DEF RunoutSwap
  <2>2. RunoutRequest(t) \in Request
    BY <1>10, <1>a DEF RunoutSwap, RunoutRequest, Request, Targets, Places, LastSteps
  <2>3. pending' \in Request /\ SameRequest(pending', RunoutRequest(t))
    BY <1>a, <2>1, <2>2, CapturedIs
  <2>4. pending'.kind = "runout" /\ pending'.target = t /\ pending'.flush
    BY <2>3 DEF SameRequest, RunoutRequest
  <2>5. cmd'.name = "runout" /\ cmd'.target = t /\ cmd'.at \in {"load", "unload"}
    BY <2>1 DEF NoCommand
  <2>6. Printing'
    BY <1>10, <1>a DEF RunoutSwap, Printing, Away, Host
  <2> QED BY <2>3, <2>4, <2>5, <2>6, NoneAssumption DEF WorkKnown, InHand
<1>11. CASE RunoutPause
  BY <1>a, <1>b, <1>11 DEF RunoutPause, PauseRunout
<1>12. CASE UnloadCommand
  <2>1. UNCHANGED <<pending, host>>
    BY <1>12 DEF UnloadCommand
  <2>2. CASE cmd' = cmd
    BY <1>a, <2>1, <2>2 DEF WorkKnown, InHand, Printing
  <2>3. CASE cmd' # cmd
    <3>1. cmd'.name = "unload" /\ cmd'.at = "unload" /\ ~Printing
      BY <1>12, <2>3 DEF UnloadCommand, NoCommand
    <3> QED BY <1>a, <2>1, <3>1 DEF WorkKnown, InHand, Printing
  <2> QED BY <2>2, <2>3
<1>13. CASE UnloadDone \/ UnloadFails \/ LoadCommand
  BY <1>a, <1>b, <1>13 DEF UnloadDone, UnloadFails, LoadCommand, Free
<1>14. CASE FaultLatched \/ ClogDetected \/ UserPause
  <2>1. host'.print = host.print /\ UNCHANGED pending
    BY <1>14, <1>a DEF FaultLatched, ClogDetected, UserPause, PausePrint, Host
  <2>2. cmd'.name = cmd.name /\ cmd'.target = cmd.target /\ cmd'.at = cmd.at
    BY <1>14, <1>a DEF FaultLatched, ClogDetected, UserPause, Command
  <2> QED BY <1>a, <2>1, <2>2 DEF WorkKnown, InHand, Printing
<1>15. CASE Pause \/ Resume \/ PrintStarts \/ PrintEnds
  BY <1>a, <1>b, <1>15 DEF Pause, Resume, PrintStarts, PrintEnds, ResetRecovery, Free
<1>16. CASE InsertExternal
  BY <1>a, <1>16 DEF InsertExternal, WorkKnown, InHand, Printing
<1>17. ReadFails => UNCHANGED pending \/ (pending # NoRequest /\ pending.target = cmd.target)
  BY DEF ReadFails
<1> QED
  BY <1>1, <1>2, <1>3, <1>4, <1>5, <1>6, <1>7, <1>8, <1>9, <1>10, <1>11, <1>12, <1>13,
     <1>14, <1>15, <1>16, <1>17
  DEF Next, Decide, Work, Works, ManualCommands, Events

LEMMA BaseStep == Base /\ [Next]_vars => Base'
BY TypeStep, LockStep, WorkStep DEF Base

LEMMA BaseInit == Init => Base
<1> SUFFICES ASSUME Init PROVE Base
  OBVIOUS
<1>1. LockInv
  BY DEF Init, LockInv, CommandKnown, RetryKnown, RequestKnown, LockKept, ForPrint, PrintOn,
         InHand, NoCommand, CommandFields, HostFields
<1>2. WorkKnown
  BY DEF Init, WorkKnown, InHand, NoCommand
<1>3. filament \in Filament
  <2>1. \A t \in Slots : [Fed(t) EXCEPT !.tip = "hotend"] \in Filament
    BY DEF Fed, Filament, Tips
  <2> QED BY <2>1, FedType DEF Init
<1>4. TypeOK
  BY <1>3, NoCommandType DEF Init, TypeOK, Host, Places, Store, Filament, Targets
<1> QED BY <1>1, <1>2, <1>4 DEF Base

\* The engine's state stays well formed, whatever fails in whatever phase: a
\* request, a recovery and a command are never left half written.
THEOREM TypeCorrect == Spec => []TypeOK
BY BaseInit, BaseStep, PTL DEF Spec, Base

-----------------------------------------------------------------------------
(***************************************************************************)
(* The filament's end.  What has retracted or cut it is noted in a request *)
(* that has left the part, so that the next request takes over its notes.  *)
(***************************************************************************)

\* What retracts or cuts the loaded filament is noted in a request that a later
\* one takes over.
TipKept ==
  filament.detected /\ filament.tip \in {"retracted", "cut"} =>
    /\ pending # NoRequest /\ pending.retracted = Loaded /\ pending.serviceZ
    /\ filament.tip = "cut" => pending.cut = Loaded

\* Nothing has retracted or cut in this step; what it has is still loaded.
TipStill ==
  filament'.detected /\ filament'.tip \in {"retracted", "cut"} =>
    filament.detected /\ filament'.tip = filament.tip /\ Loaded' = Loaded

NotesStay ==
  pending # NoRequest /\ pending.serviceZ =>
    /\ pending' # NoRequest /\ pending'.serviceZ
    /\ pending'.retracted = pending.retracted /\ pending'.cut = pending.cut

LEMMA TipStays ==
  ASSUME TipKept, TipStill, NotesStay
  PROVE  TipKept'
BY DEF TipKept, TipStill, NotesStay

LEMMA PartsStill ==
  ASSUME filament \in Filament, NEW t,
         filament' \in PartLoaded(t) \union PartRetracted \union PartPulled
  PROVE  TipStill
<1>1. CASE filament' \in PartLoaded(t)
  <2>1. CASE filament' = filament \/ filament' = [filament EXCEPT !.tracking = TRUE]
    BY <2>1 DEF TipStill, Loaded, Filament
  <2>2. CASE t \in Slots /\ filament' \in {Fed(t), [Fed(t) EXCEPT !.tracking = FALSE]}
    BY <2>2 DEF TipStill, Fed
  <2>3. CASE /\ t \in Slots /\ Loaded \in {NoSlot, t}
             /\ filament' = [filament EXCEPT !.path = t, !.tracking = FALSE]
    BY <2>3, SlotsAssumption DEF TipStill, Loaded, Filament
  <2> QED BY <1>1, <2>1, <2>2, <2>3 DEF PartLoaded
<1>2. CASE filament' \in PartRetracted
  BY <1>2 DEF PartRetracted, TipStill, Loaded, Filament
<1>3. CASE filament' \in PartPulled
  <2>1. ~Empty.detected /\ ~[Empty EXCEPT !.path = filament.path].detected
    BY DEF Empty
  <2>2. filament' = [filament EXCEPT !.tracking = FALSE] => TipStill
    BY DEF TipStill, Loaded, Filament
  <2> QED BY <1>3, <2>1, <2>2 DEF PartPulled, TipStill, Loaded
<1> QED BY <1>1, <1>2, <1>3

LEMMA ResidueStill ==
  ASSUME filament \in Filament, filament' \in Residue
  PROVE  TipStill
<1>1. CASE filament' \in PartLoaded(cmd.target) \union PartRetracted \union PartPulled
  BY <1>1, PartsStill
<1>2. CASE filament' \in {filament, [filament EXCEPT !.tip = "hotend"]}
  BY <1>2 DEF TipStill, Loaded, Filament
<1> QED BY <1>1, <1>2 DEF Residue

\* The request that a change works on has the notes of the one it found.
LEMMA ChosenNotes ==
  ASSUME Base, TipKept, cmd.name = "change", NEW q \in Request,
         pending' = q, q.retracted = Chosen.retracted, q.cut = Chosen.cut,
         Chosen.serviceZ => q.serviceZ, filament' = filament
  PROVE  TipKept'
<1>1. CASE pending # NoRequest /\ pending.serviceZ
  <2>1. ~Inheritable(pending, cmd.target) => Chosen = pending
    BY <1>1 DEF Inheritable, Chosen
  <2>2. TakenOver(Chosen) => /\ Chosen.retracted = pending.retracted /\ Chosen.cut = pending.cut
                             /\ Chosen.serviceZ = pending.serviceZ
    <3>1. Chosen \in Request
      BY ChosenIs
    <3> QED BY <3>1 DEF TakenOver, Done, Placed, Request
  <2>3. /\ Chosen.retracted = pending.retracted /\ Chosen.cut = pending.cut
        /\ Chosen.serviceZ = pending.serviceZ
    BY <2>1, <2>2, ChosenIs
  <2> QED BY <1>1, <2>3, TipStays, NoneAssumption DEF NotesStay, TipStill, Loaded
<1>2. CASE ~(pending # NoRequest /\ pending.serviceZ)
  BY <1>2 DEF TipKept, Loaded
<1> QED BY <1>1, <1>2

LEMMA TipStep == Base /\ TipKept /\ [Next]_vars => TipKept'
<1> SUFFICES ASSUME Base, TipKept, [Next]_vars PROVE TipKept'
  OBVIOUS
<1>a. /\ filament \in Filament /\ (pending # NoRequest => pending \in Request) /\ host \in Host
  BY DEF Base, TypeOK
<1>b. filament' = filament \/ filament' = [filament EXCEPT !.tracking = TRUE] => TipStill
  BY <1>a DEF TipStill, Loaded, Filament
<1>c. pending' = pending => NotesStay
  BY DEF NotesStay
<1>d. Disowned.tip \notin {"retracted", "cut"}
  BY <1>a DEF Disowned, Filament
<1>1. CASE UNCHANGED vars
  BY <1>1, <1>b, <1>c, TipStays DEF vars
<1>2. CASE ChangeCommand \/ ResumeCheck
  <2>1. filament' = filament /\ NotesStay
    BY <1>2 DEF ChangeCommand, ResumeCheck, NotesStay
  <2> QED BY <1>b, <2>1, TipStays
<1>3. CASE ReadFails /\ UNCHANGED pending
  <2>1. filament' = filament
    BY <1>3 DEF ReadFails
  <2> QED BY <1>b, <1>c, <1>3, <2>1, TipStays
<1>4. CASE DecideAborts \/ Attend \/ (ReadFails /\ pending # NoRequest /\ pending.target = cmd.target)
  <2>1. /\ cmd.name = "change" /\ pending' \in Request /\ Done(pending', Chosen)
        /\ Placed(pending', Chosen) \/ Placed(pending', Captured(Chosen))
        /\ filament' = filament
    BY <1>4, GivesUpIs
  <2>2. Chosen \in Request
    BY <2>1, ChosenIs
  <2>3. Chosen.serviceZ => Captured(Chosen).serviceZ
    BY <1>a, <2>2, CapturedIs
  <2> QED BY <2>1, <2>3, ChosenNotes DEF Done, Placed
<1>5. CASE NothingToDo \/ Execute \/ RetryRunout
  <2>1. /\ cmd.name = "change" /\ pending' \in Request /\ Done(pending', Chosen)
        /\ \/ Placed(pending', Chosen)
           \/ pending' = Captured(Chosen)
           \/ Chosen = pending /\ Placed(pending', Serviced(pending))
    BY <1>5, DecidesIs
  <2>2. Chosen \in Request
    BY <2>1, ChosenIs
  <2>3. Chosen.serviceZ => Captured(Chosen).serviceZ /\ Serviced(Chosen).serviceZ
    BY <1>a, <2>2, CapturedIs
  <2>4. filament' = filament
    BY <1>5 DEF NothingToDo, Execute, RetryRunout
  <2> QED BY <2>1, <2>3, <2>4, ChosenNotes DEF Done, Placed
<1>6. CASE Works
  <2>1. /\ pending \in Request /\ pending' \in Request
        /\ Placed(pending', pending) \/ Placed(pending', Serviced(pending))
    BY <1>6, WorksIs
  <2>2. Serviced(pending).serviceZ
    BY <2>1, ServicedIs
  <2>3. pending.serviceZ => pending'.serviceZ
    BY <2>1, <2>2 DEF Placed
  <2>s. Serviced(pending) \in Request /\ Done(Serviced(pending), pending)
    BY <2>1, ServicedIs
  <2>4. CASE Retract
    <3>1. pending' = [Serviced(pending) EXCEPT !.retracted = Loaded, !.source = Loaded,
                                               !.lastStep = UnloadStep]
          /\ filament' = [filament EXCEPT !.tip = "retracted", !.tracking = FALSE]
      BY <2>4 DEF Retract
    <3>2. pending'.retracted = Loaded /\ pending'.serviceZ
      BY <2>s, <2>2, <3>1 DEF Request
    <3>3. Loaded' = Loaded /\ filament'.tip = "retracted"
      BY <1>a, <3>1 DEF Loaded, Filament
    <3> QED BY <2>1, <3>2, <3>3, NoneAssumption DEF TipKept
  <2>5. CASE Cut
    <3>1. /\ ~NeedsRetract(pending) /\ NeedsCut(pending)
          /\ filament' = IF CutterReady THEN [filament EXCEPT !.tip = "cut"] ELSE filament
          /\ pending' = [(IF CutterReady THEN Serviced(pending) ELSE pending)
                           EXCEPT !.cut = Loaded, !.source = Loaded, !.lastStep = UnloadStep]
      BY <2>5 DEF Cut
    <3>2. pending.retracted = Loaded
      BY <3>1 DEF NeedsRetract, NeedsCut
    <3>3. pending'.retracted = Loaded /\ pending'.cut = Loaded /\ (CutterReady => pending'.serviceZ)
      BY <2>1, <2>s, <2>2, <3>1, <3>2 DEF Request, Done
    <3>4. Loaded' = Loaded /\ (CutterReady \/ filament' = filament)
      BY <1>a, <3>1 DEF Loaded, Filament
    <3> QED BY <2>1, <2>3, <3>3, <3>4, NoneAssumption DEF TipKept
  <2>6. CASE Pull \/ PhysicalLoad \/ LoadExternal \/ Flush \/ NoFlush \/ FinalTemperature
    <3>1. TipStill
      <4>1. CASE filament' = Empty \/ filament' = Fed(cmd.target)
        BY <4>1 DEF Empty, Fed, TipStill
      <4>2. CASE filament' = [filament EXCEPT !.tip = "gears"] \/ filament' = [filament EXCEPT !.tip = "hotend"]
        BY <1>a, <4>2 DEF TipStill, Filament
      <4> QED BY <1>b, <2>6, <4>1, <4>2
            DEF Pull, PhysicalLoad, LoadExternal, Flush, NoFlush, FinalTemperature
    <3>2. pending'.retracted = pending.retracted /\ pending'.cut = pending.cut
      <4>1. PICK q \in {pending, Serviced(pending)} :
              \/ pending' = q
              \/ \E step, z : \/ pending' = [q EXCEPT !.lastStep = step]
                              \/ pending' = [q EXCEPT !.source = z, !.lastStep = step]
                              \/ pending' = [q EXCEPT !.flushDone = TRUE, !.lastStep = step]
        <5>1. CASE Pull
          BY <5>1 DEF Pull
        <5>2. CASE PhysicalLoad \/ LoadExternal
          BY <5>2 DEF PhysicalLoad, LoadExternal
        <5>3. CASE Flush
          BY <5>3 DEF Flush
        <5>4. CASE NoFlush \/ FinalTemperature
          BY <5>4 DEF NoFlush, FinalTemperature
        <5> QED BY <2>6, <5>1, <5>2, <5>3, <5>4
      <4>2. q \in Request /\ q.retracted = pending.retracted /\ q.cut = pending.cut
        BY <2>1, <2>s DEF Done
      <4> QED BY <4>1, <4>2 DEF Request
    <3> QED BY <2>1, <2>3, <3>1, <3>2, TipStays, NoneAssumption DEF NotesStay
  <2> QED BY <1>6, <2>4, <2>5, <2>6 DEF Works
<1>7. CASE Finish
  <2>1. InHand /\ pending \in Request
    BY <1>7, <1>a DEF Finish, InHand, Base, LockInv, CommandKnown, WorkKnown
  <2>2. PICK step : pending' = [pending EXCEPT !.runoutRecovery = FALSE, !.lastStep = step]
    BY <1>7 DEF Finish
  <2>3. Base' /\ InHand'
    <3>1. cmd' = [cmd EXCEPT !.at = "end", !.prepared = FALSE, !.sensorBefore = TRUE] /\ cmd \in Command
      BY <1>7 DEF Finish, Advance, Base, TypeOK
    <3> QED BY <2>1, <3>1, BaseStep DEF InHand, Command
  <2>4. NotesStay
    BY <2>1, <2>2, <2>3 DEF NotesStay, Request, Base, WorkKnown
  <2> QED BY <1>7, <1>b, <2>4, TipStays DEF Finish
<1>8. CASE Succeed \/ PrintStarts \/ PrintEnds
  BY <1>8, <1>d DEF Succeed, PrintStarts, PrintEnds, ResetRecovery, TipKept
<1>9. CASE StepFails
  <2>1. /\ pending \in Request /\ pending' \in Request /\ Done(pending', pending)
        /\ Placed(pending', pending) \/ Placed(pending', Serviced(pending))
    BY <1>9, StepFailsIs
  <2>2. Serviced(pending).serviceZ
    BY <2>1, ServicedIs
  <2>3. TipStill
    BY <1>9, <1>a, ResidueStill DEF StepFails
  <2> QED BY <2>1, <2>2, <2>3, TipStays, NoneAssumption DEF NotesStay, Done, Placed
<1>10. CASE RunoutSwap \/ RunoutPause
  <2>1. PICK path : filament' = [TailEnds EXCEPT !.path = path]
    BY <1>10 DEF RunoutSwap, RunoutPause
  <2>2. ~filament'.detected
    BY <1>a, <2>1 DEF TailEnds, Filament
  <2> QED BY <2>2 DEF TipKept
<1>11. CASE UnloadCommand \/ UnloadDone \/ UnloadFails \/ LoadCommand
  <2>1. NotesStay
    BY <1>11, <1>c DEF UnloadCommand, UnloadDone, UnloadFails, LoadCommand
  <2>2. TipStill
    <3>1. CASE UnloadCommand
      BY <3>1, <1>b DEF UnloadCommand
    <3>2. CASE UnloadDone
      BY <3>2 DEF UnloadDone, Empty, TipStill
    <3>3. CASE UnloadFails
      BY <3>3, <1>a, PartsStill DEF UnloadFails
    <3>4. CASE LoadCommand
      <4>1. PICK t : \/ filament' = Fed(t) \/ filament' = [filament EXCEPT !.tracking = TRUE]
                     \/ filament' \in PartLoaded(t)
        BY <3>4 DEF LoadCommand
      <4>2. filament' = Fed(t) => TipStill
        BY DEF TipStill, Fed
      <4> QED BY <1>a, <1>b, <4>1, <4>2, PartsStill
    <3> QED BY <1>11, <3>1, <3>2, <3>3, <3>4
  <2> QED BY <2>1, <2>2, TipStays
<1>12. CASE FaultLatched \/ ClogDetected \/ UserPause \/ Pause \/ Resume
  <2>1. UNCHANGED <<pending, filament>>
    BY <1>12 DEF FaultLatched, ClogDetected, UserPause, Pause, Resume
  <2> QED BY <1>b, <1>c, <2>1, TipStays
<1>13. CASE InsertExternal
  BY <1>13 DEF InsertExternal, Empty, TipKept
<1>14. ReadFails => UNCHANGED pending \/ (pending # NoRequest /\ pending.target = cmd.target)
  BY DEF ReadFails
<1> QED
  BY <1>1, <1>2, <1>3, <1>4, <1>5, <1>6, <1>7, <1>8, <1>9, <1>10, <1>11, <1>12, <1>13, <1>14
  DEF Next, Decide, Work, Works, ManualCommands, Events

\* However often a change fails, is retried or is replaced, with whichever
\* manual commands in between, the source is not retracted or cut a second time
\* (_prepare_normal_unload, _new_request): the checkpoint is in the request, and
\* a request that left the part is never dropped for a new one.
THEOREM RetractedAndCutOnce == Spec => []IrreversibleOnce
<1>1. Init => TipKept
  <2>1. Empty.tip = "none" /\ \A t : [Fed(t) EXCEPT !.tip = "hotend"].tip = "hotend"
    BY DEF Empty, Fed
  <2> QED BY <2>1 DEF Init, TipKept
<1>2. TipKept => IrreversibleOnce
  BY DEF TipKept, IrreversibleOnce, NeedsRetract, NeedsCut
<1> QED BY <1>1, <1>2, BaseInit, BaseStep, TipStep, PTL DEF Spec

-----------------------------------------------------------------------------
(***************************************************************************)
(* A request's own checkpoints.  Only BOX_LOAD can load the filament again *)
(* that a request has retracted: what the request itself loads is its      *)
(* target, which it never unloads.                                         *)
(***************************************************************************)
OwnKept(r) ==
  ~r.inherited =>
    /\ r.retracted # r.target
    /\ filament.detected /\ Loaded \in Slots /\ filament.tip \in {"gears", "hotend"} =>
         r.retracted # Loaded

CheckpointKept ==
  /\ InHand /\ cmd.at = "unload" => Loaded # cmd.target
  /\ cmd.at = "flush" => Loaded = cmd.target
  /\ pending # NoRequest => OwnKept(pending)

\* What is fed after this step was fed before it, or is the command's target.
FedStill ==
  filament'.detected /\ filament'.tip \in {"gears", "hotend"} /\ Loaded' \in Slots =>
    \/ filament.detected /\ Loaded' = Loaded /\ filament.tip \in {"gears", "hotend"}
    \/ cmd.name \in {"change", "runout"} /\ Loaded' = cmd.target

LEMMA OwnStays ==
  ASSUME NEW r, OwnKept(r), NEW q, pending' = q, FedStill,
         q.inherited = r.inherited, q.target = r.target, q.retracted = r.retracted,
         cmd.name \in {"change", "runout"} => r.target = cmd.target
  PROVE  (pending # NoRequest => OwnKept(pending))'
BY DEF OwnKept, FedStill

LEMMA SameFilamentFed ==
  ASSUME filament \in Filament,
         filament' \in {filament, [filament EXCEPT !.tracking = TRUE], [filament EXCEPT !.tip = "loose", !.tracking = FALSE]}
                       \union PartRetracted \union PartPulled
  PROVE  FedStill
<1>1. CASE filament' \in {filament, [filament EXCEPT !.tracking = TRUE]}
  BY <1>1 DEF FedStill, Loaded, Filament
<1>2. CASE filament' \in {[filament EXCEPT !.tip = "loose", !.tracking = FALSE]} \union PartRetracted
  BY <1>2 DEF FedStill, PartRetracted, Loaded, Filament
<1>3. CASE filament' \in PartPulled
  <2>1. ~Empty.detected /\ ~[Empty EXCEPT !.path = filament.path].detected
    BY DEF Empty
  <2>2. filament' = [filament EXCEPT !.tracking = FALSE] => FedStill
    BY DEF FedStill, Loaded, Filament
  <2>3. filament' = filament => FedStill
    BY DEF FedStill, Loaded
  <2> QED BY <1>3, <2>1, <2>2, <2>3 DEF PartPulled, FedStill
<1> QED BY <1>1, <1>2, <1>3

LEMMA PartLoadedFed ==
  ASSUME filament \in Filament, cmd.name \in {"change", "runout"}, filament' \in PartLoaded(cmd.target)
  PROVE  FedStill
<1>1. CASE filament' = filament \/ filament' = [filament EXCEPT !.tracking = TRUE]
  BY <1>1, SameFilamentFed
<1>2. CASE cmd.target \in Slots /\ filament' \in {Fed(cmd.target), [Fed(cmd.target) EXCEPT !.tracking = FALSE]}
  BY <1>2, SlotsAssumption DEF FedStill, Fed, Loaded
<1>3. CASE cmd.target \in Slots /\ filament' = [filament EXCEPT !.path = cmd.target, !.tracking = FALSE]
  BY <1>3, SlotsAssumption DEF FedStill, Loaded, Filament
<1> QED BY <1>1, <1>2, <1>3 DEF PartLoaded

\* Which slot is loaded while the work goes on.
LEMMA WhereStep ==
  ASSUME Base, CheckpointKept, [Next]_vars, "BOX_LOAD" \notin Manual
  PROVE  /\ InHand' /\ cmd'.at = "unload" => Loaded' # cmd'.target
         /\ cmd'.at = "flush" => Loaded' = cmd'.target
<1> DEFINE Where == /\ InHand' /\ cmd'.at = "unload" => Loaded' # cmd'.target
                    /\ cmd'.at = "flush" => Loaded' = cmd'.target
<1>a. filament \in Filament /\ cmd \in Command /\ NoCommand.at = "idle" /\ NoCommand.name = "none"
  BY DEF Base, TypeOK, NoCommand
<1>b. ASSUME cmd'.at \notin {"unload", "flush"} PROVE Where
  BY <1>b
<1>c. ASSUME cmd'.at = cmd.at, cmd'.target = cmd.target, cmd'.name = cmd.name, Loaded' = Loaded PROVE Where
  BY <1>c DEF CheckpointKept, InHand
<1>1. CASE UNCHANGED vars
  BY <1>1, <1>c DEF vars, Loaded
<1>2. CASE ChangeCommand \/ ResumeCheck
  BY <1>2, <1>b DEF ChangeCommand, ResumeCheck, Begin, NoCommand
<1>3. CASE cmd' = NoCommand
  BY <1>3, <1>a, <1>b
<1>4. CASE NothingToDo \/ Execute \/ RetryRunout
  <2>1. cmd'.target = cmd.target /\ cmd.name = "change" /\ filament' = filament
    BY <1>4, DecidesIs DEF NothingToDo, Execute, RetryRunout
  <2>2. Chosen.target = cmd.target
    BY <2>1, ChosenIs
  <2>3. PICK at, s : GoTo(at, s) /\ at \in {"finish", "end", "load", FirstPhase(Chosen)}
    BY <1>4 DEF NothingToDo, Execute, RetryRunout, RunoutWork, RunoutPhase
  <2>4. cmd'.at = at
    BY <1>a, <2>3 DEF GoTo, Command
  <2>5. FirstPhase(Chosen) = "unload" => Loaded # cmd.target
    BY <2>2 DEF FirstPhase
  <2>6. FirstPhase(Chosen) = "flush" => Loaded = cmd.target
    BY <2>2 DEF FirstPhase
  <2> QED BY <2>1, <2>3, <2>4, <2>5, <2>6 DEF Loaded
<1>5. CASE Retract \/ Cut
  <2>1. Loaded' = Loaded /\ cmd' = cmd
    BY <1>5, <1>a DEF Retract, Cut, Loaded, Filament
  <2> QED BY <2>1, <1>c
<1>6. CASE Pull \/ NoFlush \/ Flush \/ FinalTemperature \/ Finish
  <2>1. PICK at \in {"load", "final", "finish", "end"} : Advance(at)
    BY <1>6 DEF Pull, NoFlush, Flush, FinalTemperature, Finish
  <2> QED BY <1>a, <1>b, <2>1 DEF Advance, Command
<1>7. CASE PhysicalLoad
  <2>1. cmd'.at = "flush" /\ cmd'.target = cmd.target
    BY <1>7, <1>a DEF PhysicalLoad, Advance, Command
  <2>2. Loaded' = cmd.target
    <3>1. CASE filament.detected
      <4>1. Loaded' = Loaded
        BY <1>7, <1>a, <3>1 DEF PhysicalLoad, Loaded, Filament
      <4> QED BY <1>7, <3>1, <4>1, SlotsAssumption DEF PhysicalLoad, Loaded
    <3>2. CASE ~filament.detected
      BY <1>7, <3>2, SlotsAssumption DEF PhysicalLoad, Fed, Loaded
    <3> QED BY <3>1, <3>2
  <2> QED BY <2>1, <2>2
<1>8. CASE LoadExternal
  <2>1. cmd'.at = "flush" /\ cmd'.target = cmd.target
    BY <1>8, <1>a DEF LoadExternal, Advance, Command
  <2>2. Loaded' = Loaded
    BY <1>8, <1>a DEF LoadExternal, Loaded, Filament
  <2> QED BY <1>8, <2>1, <2>2 DEF LoadExternal
<1>9. CASE RunoutSwap
  <2>1. PICK t \in Slots \ {filament.path}, path \in {filament.path, NoSlot} :
          /\ filament' = [TailEnds EXCEPT !.path = path]
          /\ \E u : cmd' = [NoCommand EXCEPT !.name = "runout", !.target = t,
                       !.at = IF path = NoSlot THEN "load" ELSE "unload", !.sensorBefore = u]
    BY <1>9 DEF RunoutSwap
  <2>2. cmd'.target = t /\ cmd'.at = IF path = NoSlot THEN "load" ELSE "unload"
    BY <2>1 DEF NoCommand
  <2>3. Loaded' = path
    BY <1>a, <2>1 DEF Loaded, TailEnds, Filament
  <2> QED BY <2>1, <2>2, <2>3, SlotsAssumption
<1>10. CASE UnloadCommand
  <2>1. cmd' = cmd \/ (cmd'.name = "unload" /\ cmd'.at = "unload")
    BY <1>10 DEF UnloadCommand, NoCommand
  <2>2. Loaded' = Loaded
    BY <1>10 DEF UnloadCommand, Loaded
  <2> QED BY <1>c, <2>1, <2>2 DEF InHand
<1>11. CASE FaultLatched \/ ClogDetected \/ UserPause
  <2>1. /\ cmd'.at = cmd.at /\ cmd'.target = cmd.target /\ cmd'.name = cmd.name
        /\ filament' = filament
    BY <1>11, <1>a DEF FaultLatched, ClogDetected, UserPause, Command
  <2> QED BY <1>c, <2>1 DEF Loaded
<1>12. CASE Pause \/ Resume \/ PrintStarts \/ PrintEnds
  BY <1>12, <1>3 DEF Pause, Resume, PrintStarts, PrintEnds, Free
<1>13. CASE InsertExternal
  BY <1>13, <1>a, <1>b DEF InsertExternal, Free
<1>14. CASE ReadFails \/ DecideAborts \/ Attend \/ Succeed \/ StepFails \/ RunoutPause
            \/ UnloadDone \/ UnloadFails
  BY <1>14, <1>3 DEF ReadFails, DecideAborts, Attend, Succeed, StepFails, RunoutPause,
     UnloadDone, UnloadFails, OperationFailed, RunoutFailed, PauseRunout
<1>15. ~LoadCommand
  BY DEF LoadCommand
<1> QED
  BY <1>1, <1>2, <1>4, <1>5, <1>6, <1>7, <1>8, <1>9, <1>10, <1>11, <1>12, <1>13, <1>14, <1>15
  DEF Next, Decide, Work, ManualCommands, Events

LEMMA CheckpointStep ==
  ASSUME "BOX_LOAD" \notin Manual
  PROVE  Base /\ CheckpointKept /\ [Next]_vars => CheckpointKept'
<1> SUFFICES ASSUME Base, CheckpointKept, [Next]_vars PROVE (pending # NoRequest => OwnKept(pending))'
  BY WhereStep DEF CheckpointKept
<1> DEFINE Kept == pending # NoRequest => OwnKept(pending)
<1>a. filament \in Filament /\ (pending # NoRequest => pending \in Request) /\ Kept
  BY DEF Base, TypeOK, CheckpointKept
<1>b. InHand => pending # NoRequest /\ pending.target = cmd.target
  BY DEF Base, WorkKnown
\* Nobody retracts, nobody feeds.
<1>c. ASSUME pending' = pending,
             filament' \in {filament, [filament EXCEPT !.tracking = TRUE]} \union PartRetracted \union PartPulled
      PROVE  Kept'
  <2>1. \/ filament.detected /\ Loaded' = Loaded /\ filament.tip \in {"gears", "hotend"}
        \/ ~(filament'.detected /\ filament'.tip \in {"gears", "hotend"} /\ Loaded' \in Slots)
    <3>1. CASE filament' \in {filament, [filament EXCEPT !.tracking = TRUE]}
      BY <3>1, <1>a DEF Loaded, Filament
    <3>2. CASE filament' \in PartRetracted
      BY <3>2, <1>a DEF PartRetracted, Loaded, Filament
    <3>3. CASE filament' \in PartPulled
      <4>1. ~Empty.detected /\ ~[Empty EXCEPT !.path = filament.path].detected
        BY DEF Empty
      <4> QED BY <3>3, <4>1, <1>a DEF PartPulled, Loaded, Filament
    <3> QED BY <1>c, <3>1, <3>2, <3>3
  <2> QED BY <1>a, <1>c, <2>1 DEF OwnKept
<1>d. ASSUME ~filament'.detected \/ filament'.tip \notin {"gears", "hotend"} \/ Loaded' \notin Slots,
             pending' # NoRequest => pending'.inherited \/ pending'.retracted # pending'.target
      PROVE  Kept'
  BY <1>d DEF OwnKept
<1>1. CASE UNCHANGED vars
  BY <1>1, <1>c DEF vars
<1>2. CASE ChangeCommand \/ ResumeCheck
  <2>1. CASE pending' = pending
    BY <1>2, <1>c, <2>1 DEF ChangeCommand, ResumeCheck
  <2>2. CASE /\ pending' = [FreshRequest(External, TRUE) EXCEPT
                              !.source = store.lastLoaded, !.printContext = TRUE,
                              !.resume = FALSE, !.lastStep = "attendance"]
    <3>1. pending'.retracted = NoSlot /\ pending'.target = External
      BY <2>2 DEF FreshRequest
    <3> QED BY <3>1, SlotsAssumption DEF OwnKept
  <2> QED BY <1>2, <2>1, <2>2 DEF ChangeCommand, ResumeCheck
<1>3. ASSUME cmd.name = "change"
      PROVE  /\ OwnKept(Chosen) /\ Chosen \in Request /\ Chosen.target = cmd.target
  <2>1. Chosen \in Request /\ Chosen.target = cmd.target /\ cmd.target \in Targets
    BY <1>3, ChosenIs
  <2>2. TakenOver(Chosen) => OwnKept(Chosen)
    BY DEF TakenOver, OwnKept
  <2>3. OwnKept(FreshRequest(cmd.target, cmd.flush))
    <3>1. FreshRequest(cmd.target, cmd.flush).retracted = NoSlot
          /\ FreshRequest(cmd.target, cmd.flush).target = cmd.target
      BY DEF FreshRequest
    <3> QED BY <2>1, <3>1, SlotsAssumption DEF OwnKept, Targets
  <2> QED BY <1>3, <1>a, <2>1, <2>2, <2>3, ChosenIs, NoneAssumption
<1>4. ASSUME cmd.name = "change", SameRequest(pending', Chosen), Done(pending', Chosen), filament' = filament
      PROVE  Kept'
  <2>1. FedStill
    BY <1>a, <1>4, SameFilamentFed
  <2> QED BY <1>3, <1>4, <2>1, OwnStays DEF SameRequest, Done
<1>5. CASE ReadFails /\ UNCHANGED pending
  BY <1>5, <1>c DEF ReadFails
<1>6. CASE DecideAborts \/ Attend \/ (ReadFails /\ pending # NoRequest /\ pending.target = cmd.target)
  <2>1. /\ cmd.name = "change" /\ SameRequest(pending', Chosen) /\ Done(pending', Chosen)
        /\ filament' = filament
    BY <1>6, GivesUpIs
  <2> QED BY <1>4, <2>1
<1>7. CASE NothingToDo \/ Execute \/ RetryRunout
  <2>1. cmd.name = "change" /\ SameRequest(pending', Chosen) /\ Done(pending', Chosen)
    BY <1>7, DecidesIs
  <2>2. filament' = filament
    BY <1>7 DEF NothingToDo, Execute, RetryRunout
  <2> QED BY <1>4, <2>1, <2>2
<1>8. CASE Works
  <2>1. /\ InHand /\ pending \in Request /\ SameRequest(pending', pending)
        /\ cmd.name \in {"change", "runout"}
    BY <1>8, WorksIs DEF InHand
  <2>2. pending.target = cmd.target
    BY <1>b, <2>1
  <2>s. Serviced(pending) \in Request /\ Done(Serviced(pending), pending)
    BY <2>1, ServicedIs
  <2>3. CASE Retract
    <3>1. pending' = [Serviced(pending) EXCEPT !.retracted = Loaded, !.source = Loaded,
                                               !.lastStep = UnloadStep]
          /\ filament' = [filament EXCEPT !.tip = "retracted", !.tracking = FALSE]
          /\ cmd.at = "unload"
      BY <2>3 DEF Retract, Working
    <3>2. pending'.retracted = Loaded
      BY <2>s, <3>1 DEF Request
    <3>3. Loaded # cmd.target
      BY <2>1, <3>1 DEF CheckpointKept
    <3>4. filament'.tip = "retracted" /\ pending'.target = pending.target
      BY <1>a, <2>1, <3>1 DEF Filament, SameRequest
    <3> QED BY <1>d, <2>2, <3>2, <3>3, <3>4
  <2>4. CASE ~Retract
    <3>1. pending'.retracted = pending.retracted
      <4>1. PICK q \in {pending, Serviced(pending)} :
              \/ pending' = q
              \/ \E step, z : \/ pending' = [q EXCEPT !.lastStep = step]
                              \/ pending' = [q EXCEPT !.source = z, !.lastStep = step]
                              \/ pending' = [q EXCEPT !.cut = z, !.source = z, !.lastStep = step]
                              \/ pending' = [q EXCEPT !.flushDone = TRUE, !.lastStep = step]
        <5>1. CASE Pull
          BY <5>1 DEF Pull
        <5>2. CASE PhysicalLoad \/ LoadExternal
          BY <5>2 DEF PhysicalLoad, LoadExternal
        <5>3. CASE Flush
          BY <5>3 DEF Flush
        <5>4. CASE NoFlush \/ FinalTemperature
          BY <5>4 DEF NoFlush, FinalTemperature
        <5>5. CASE Cut
          BY <5>5 DEF Cut
        <5> QED BY <1>8, <2>4, <5>1, <5>2, <5>3, <5>4, <5>5 DEF Works
      <4>2. q \in Request /\ q.retracted = pending.retracted
        BY <2>1, <2>s DEF Done
      <4> QED BY <4>1, <4>2 DEF Request
    <3>2. FedStill
      <4>1. filament' \in {filament, [filament EXCEPT !.tracking = TRUE]} => FedStill
        BY <1>a, SameFilamentFed
      <4>2. CASE Pull
        BY <4>2 DEF Pull, Empty, FedStill
      <4>3. CASE PhysicalLoad
        <5>1. filament' = Fed(cmd.target) => FedStill
          BY <2>1, SlotsAssumption DEF Fed, FedStill, Loaded
        <5> QED BY <4>1, <4>3, <5>1 DEF PhysicalLoad
      <4>4. CASE LoadExternal
        <5>1. Loaded' = Loaded /\ Loaded = External
          BY <1>a, <4>4 DEF LoadExternal, Loaded, Filament
        <5> QED BY <5>1, SlotsAssumption DEF FedStill
      <4>5. CASE Flush
        <5>1. Loaded' = Loaded /\ Loaded = cmd.target
          BY <1>a, <4>5 DEF Flush, Working, CheckpointKept, Loaded, Filament
        <5> QED BY <2>1, <5>1 DEF FedStill
      <4>6. CASE Cut
        <5>1. filament' = filament \/ filament'.tip = "cut"
          BY <1>a, <4>6 DEF Cut, Filament
        <5> QED BY <4>1, <5>1 DEF FedStill
      <4>7. CASE NoFlush \/ FinalTemperature
        BY <4>1, <4>7 DEF NoFlush, FinalTemperature
      <4> QED BY <1>8, <2>4, <4>2, <4>3, <4>4, <4>5, <4>6, <4>7 DEF Works
    <3> QED BY <1>a, <2>1, <2>2, <3>1, <3>2, OwnStays, NoneAssumption DEF SameRequest
  <2> QED BY <2>3, <2>4
<1>9. CASE Finish
  <2>1. InHand /\ pending \in Request /\ pending # NoRequest
    BY <1>9, <1>a DEF Finish, InHand, Base, LockInv, CommandKnown, WorkKnown
  <2>2. PICK step : pending' = [pending EXCEPT !.runoutRecovery = FALSE, !.lastStep = step]
    BY <1>9 DEF Finish
  <2>3. /\ pending'.inherited = pending.inherited /\ pending'.target = pending.target
        /\ pending'.retracted = pending.retracted
    BY <2>1, <2>2 DEF Request
  <2>4. FedStill
    BY <1>9, <1>a, SameFilamentFed DEF Finish
  <2> QED BY <1>a, <1>b, <2>1, <2>3, <2>4, OwnStays
<1>10. CASE Succeed \/ PrintStarts \/ PrintEnds
  BY <1>10 DEF Succeed, PrintStarts, PrintEnds, ResetRecovery
<1>11. CASE StepFails
  <2>1. /\ InHand /\ pending \in Request /\ SameRequest(pending', pending) /\ Done(pending', pending)
        /\ cmd.name \in {"change", "runout"}
    BY <1>11, StepFailsIs
  <2>2. FedStill
    <3>1. filament' \in Residue
      BY <1>11 DEF StepFails
    <3>2. cmd.at = "load" => filament' \in PartLoaded(cmd.target)
      BY <3>1 DEF Residue
    <3>3. CASE cmd.at = "load"
      BY <1>a, <2>1, <3>2, <3>3, PartLoadedFed
    <3>4. CASE cmd.at = "flush"
      <4>1. filament' \in {filament, [filament EXCEPT !.tip = "hotend"]}
        BY <3>1, <3>4 DEF Residue
      <4>2. Loaded' = Loaded /\ Loaded = cmd.target
        BY <1>a, <3>4, <4>1 DEF CheckpointKept, Loaded, Filament
      <4> QED BY <2>1, <4>2 DEF FedStill
    <3>5. CASE cmd.at \notin {"load", "flush"}
      <4>1. filament' \in {filament} \union PartRetracted \union PartPulled
        BY <3>1, <3>5 DEF Residue
      <4> QED BY <1>a, <4>1, SameFilamentFed
    <3> QED BY <3>3, <3>4, <3>5
  <2> QED BY <1>a, <1>b, <2>1, <2>2, OwnStays, NoneAssumption DEF SameRequest, Done
<1>12. CASE RunoutSwap
  <2>1. PICK t \in Slots \ {filament.path} : \E path :
          filament' = [TailEnds EXCEPT !.path = path] /\ pending' = Serviced(RunoutRequest(t))
    BY <1>12 DEF RunoutSwap
  <2>2. RunoutRequest(t) \in Request
    BY <1>12, <1>a DEF RunoutSwap, RunoutRequest, Request, Targets, Places, LastSteps
  <2>3. SameRequest(pending', RunoutRequest(t)) /\ Done(pending', RunoutRequest(t))
    BY <2>1, <2>2, CapturedIs DEF Base, TypeOK
  <2>4. pending'.target = t /\ pending'.retracted = filament.path
    BY <2>3 DEF SameRequest, Done, RunoutRequest
  <2>5. ~filament'.detected
    BY <1>a, <2>1 DEF TailEnds, Filament
  <2> QED BY <1>d, <2>1, <2>4, <2>5
<1>13. CASE RunoutPause
  <2>1. ~filament'.detected /\ pending' = pending
    BY <1>13, <1>a DEF RunoutPause, TailEnds, Filament
  <2> QED BY <1>a, <1>d, <2>1 DEF OwnKept
<1>14. CASE UnloadCommand \/ UnloadFails
  BY <1>14, <1>c DEF UnloadCommand, UnloadFails
<1>15. CASE UnloadDone
  <2>1. ~filament'.detected /\ pending' = pending
    BY <1>15 DEF UnloadDone, Empty
  <2> QED BY <1>a, <1>d, <2>1 DEF OwnKept
<1>16. CASE FaultLatched \/ ClogDetected \/ UserPause \/ Pause \/ Resume
  BY <1>16, <1>c DEF FaultLatched, ClogDetected, UserPause, Pause, Resume
<1>17. CASE InsertExternal
  <2>1. Loaded' = External /\ pending' = pending
    BY <1>17 DEF InsertExternal, Loaded, Empty
  <2> QED BY <1>a, <1>d, <2>1, SlotsAssumption DEF OwnKept
<1>18. ~LoadCommand
  BY DEF LoadCommand
<1>19. ReadFails => UNCHANGED pending \/ (pending # NoRequest /\ pending.target = cmd.target)
  BY DEF ReadFails
<1> QED
  BY <1>1, <1>2, <1>5, <1>6, <1>7, <1>8, <1>9, <1>10, <1>11, <1>12, <1>13, <1>14, <1>15,
     <1>16, <1>17, <1>18, <1>19
  DEF Next, Decide, Work, Works, ManualCommands, Events

\* Unless filament is loaded by hand (BOX_LOAD), a request's own checkpoints are
\* true of what is loaded, over any number of retries: the box never pulls at
\* filament that nobody has retracted since it was fed (_prepare_normal_unload,
\* _unload_physical).
THEOREM CheckpointsTrue ==
  ASSUME "BOX_LOAD" \notin Manual
  PROVE  Spec => []OwnCheckpointsTrue
<1>1. Init => CheckpointKept
  BY DEF Init, CheckpointKept, InHand, NoCommand
<1>2. Base /\ CheckpointKept => OwnCheckpointsTrue
  BY SlotsAssumption DEF Base, WorkKnown, InHand, CheckpointKept, OwnKept, OwnCheckpointsTrue, PullsAlone,
     NeedsRetract, Loaded
<1> QED BY <1>1, <1>2, BaseInit, BaseStep, CheckpointStep, PTL DEF Spec

-----------------------------------------------------------------------------
(***************************************************************************)
(* Pauses.  A request that waits has paused the print, and it has given up *)
(* its own RESUME if it was the user who paused.  Both rest on the lock on *)
(* RESUME (LockInv), which is why the user has to respect it.              *)
(***************************************************************************)
PauseKept ==
  /\ Paused => host.pauseSent
  /\ host.userPause => host.pauseSent /\ PrintOn
  /\ PrintOn /\ pending # NoRequest /\ ~InHand => host.pauseSent
  /\ host.userPause /\ pending # NoRequest /\ pending.resume => InHand /\ Printing

\* The pause is as it was, or has been sent for another reason than the user's.
PauseSame ==
  /\ host'.print = host.print /\ host'.userPause = host.userPause
  /\ host.pauseSent => host'.pauseSent

LEMMA PauseStep ==
  ASSUME ResumeChecked
  PROVE  Base /\ PauseKept /\ [Next]_vars => PauseKept'
<1> SUFFICES ASSUME Base, PauseKept, [Next]_vars PROVE PauseKept'
  OBVIOUS
<1>a. host \in Host /\ cmd \in Command /\ NoCommand.name = "none"
  BY DEF Base, TypeOK, NoCommand
<1>b. ASSUME PauseSame, InHand' <=> InHand,
             pending' # NoRequest => pending # NoRequest /\ pending'.resume = pending.resume
      PROVE  PauseKept'
  BY <1>b DEF PauseKept, PauseSame, Paused, Printing, PrintOn
\* A command that gives up, with a request that will not resume a user's pause.
<1>c. ASSUME PauseSame, pending' # NoRequest /\ PrintOn => host'.pauseSent,
             pending' # NoRequest /\ host.userPause => ~pending'.resume
      PROVE  PauseKept'
  BY <1>c DEF PauseKept, PauseSame, Paused, Printing, PrintOn
<1>e. Away.print = host.print /\ Away.pauseSent = host.pauseSent /\ Away.userPause = host.userPause
  BY <1>a DEF Away, Host
<1>f. PrintOn <=> Printing \/ Paused
  BY <1>a DEF PrintOn, Printing, Paused, Host
<1>1. CASE UNCHANGED vars
  BY <1>1, <1>b DEF vars, PauseSame, InHand
<1>2. CASE ChangeCommand \/ ResumeCheck
  <2>1. UNCHANGED host /\ cmd = NoCommand /\ cmd'.at = "decide"
    BY <1>2 DEF ChangeCommand, ResumeCheck, Accepts, Free, Begin, NoCommand
  <2>2. PauseSame /\ ~InHand /\ ~InHand'
    BY <1>a, <2>1 DEF PauseSame, InHand
  <2>3. CASE pending' = pending
    BY <1>b, <2>2, <2>3
  <2>4. CASE ResumeCheck /\ pending' = [FreshRequest(External, TRUE) EXCEPT
                              !.source = store.lastLoaded, !.printContext = TRUE,
                              !.resume = FALSE, !.lastStep = "attendance"]
    <3>1. pending'.resume = FALSE
      BY <2>4 DEF FreshRequest
    <3>2. host'.pauseSent
      BY <2>1, <2>4 DEF ResumeCheck, PauseKept
    <3> QED BY <1>c, <2>2, <3>1, <3>2
  <2> QED BY <1>2, <2>3, <2>4 DEF ChangeCommand, ResumeCheck
<1>3. CASE ReadFails /\ UNCHANGED <<pending, host>>
  <2>1. ~InHand /\ ~InHand'
    BY <1>3, <1>a DEF ReadFails, OperationFailed, InHand
  <2> QED BY <1>3, <1>b, <2>1 DEF PauseSame
\* What a change decides on has no RESUME left that the user's pause forbids.
<1>4. ASSUME cmd.name = "change", cmd.at = "decide", host.userPause, Chosen.resume
      PROVE  Abort
  <2>1. ~InHand
    BY <1>4 DEF InHand
  <2>2. host.pauseSent /\ (pending # NoRequest => ~pending.resume)
    BY <1>4, <2>1 DEF PauseKept
  <2>3. Chosen = FreshRequest(cmd.target, cmd.flush)
    <3>1. Chosen \in Request
      BY <1>4, ChosenIs
    <3>2. ~TakenOver(Chosen)
      BY <1>4, <2>2, NoneAssumption DEF TakenOver
    <3> QED BY <1>4, <2>2, <3>1, <3>2, ChosenIs, NoneAssumption
  <2>4. Printing
    BY <1>4, <2>3 DEF FreshRequest
  <2> QED BY <2>2, <2>4 DEF Abort, Printing, Paused
<1>5. CASE DecideAborts \/ Attend \/ (ReadFails /\ pending # NoRequest /\ pending.target = cmd.target)
  <2>1. /\ cmd.name = "change" /\ cmd.at = "decide" /\ KeptHost(host)
        /\ pending'.resume = (Chosen.resume /\ ~Abort) \/ (pending'.resume = Chosen.resume /\ ~Abort)
        /\ PrintOn => (host'.pauseSent <=> host.pauseSent \/ Printing)
    BY <1>5, GivesUpIs
  <2>2. host.pauseSent => host'.pauseSent
    <3>1. CASE PrintOn
      BY <2>1, <3>1
    <3>2. CASE ~PrintOn
      <4>1. ~Printing
        BY <3>2 DEF PrintOn, Printing
      <4>2. host' = host \/ host' = PausePrint(host)
        BY <1>5 DEF DecideAborts, Attend, ReadFails, OperationFailed
      <4>3. PausePrint(host).pauseSent = (host.pauseSent \/ Printing)
        BY <1>a DEF PausePrint, Host
      <4> QED BY <4>2, <4>3
    <3> QED BY <3>1, <3>2
  <2>3. PrintOn => host'.pauseSent
    BY <1>f, <2>1 DEF PauseKept
  <2>4. host.userPause => ~pending'.resume
    BY <1>4, <2>1
  <2> QED BY <1>c, <2>1, <2>2, <2>3, <2>4 DEF PauseSame, KeptHost
<1>6. CASE NothingToDo \/ Execute \/ RetryRunout
  <2>1. /\ cmd.name = "change" /\ cmd.at = "decide" /\ ~Abort /\ InHand'
        /\ pending'.resume = Chosen.resume /\ (host' = host \/ host' = Away)
    BY <1>6, DecidesIs
  <2>2. PauseSame
    BY <1>e, <2>1 DEF PauseSame
  <2>3. host.userPause => ~pending'.resume
    BY <1>4, <2>1
  <2> QED BY <2>1, <2>2, <2>3 DEF PauseKept, PauseSame, Paused, Printing, PrintOn
<1>7. CASE Works
  <2>1. /\ InHand /\ InHand' /\ pending \in Request /\ pending'.resume = pending.resume
        /\ host' = host \/ host' = Away
    BY <1>7, WorksIs
  <2> QED BY <1>b, <1>e, <2>1, NoneAssumption DEF PauseSame
<1>8. CASE Finish
  <2>1. InHand /\ pending \in Request
    BY <1>8 DEF Finish, InHand, Base, LockInv, CommandKnown, WorkKnown, TypeOK
  <2>2. /\ \E step : pending' = [pending EXCEPT !.runoutRecovery = FALSE, !.lastStep = step]
        /\ cmd' = [cmd EXCEPT !.at = "end", !.prepared = FALSE, !.sensorBefore = TRUE]
        /\ \E x, y : host' = [host EXCEPT !.head = x, !.pauseAt = y]
    BY <1>8 DEF Finish, Advance
  <2>3. InHand'
    BY <1>a, <2>1, <2>2 DEF InHand, Command
  <2>4. PauseSame
    BY <1>a, <2>2 DEF PauseSame, Host
  <2>5. pending'.resume = pending.resume
    BY <2>1, <2>2 DEF Request
  <2> QED BY <1>b, <2>1, <2>3, <2>4, <2>5, NoneAssumption
<1>9. CASE Succeed
  <2>1. pending' = NoRequest
    BY <1>9 DEF Succeed
  <2>2. CASE host' = host
    BY <1>c, <2>1, <2>2 DEF PauseSame
  <2>3. CASE host' = Resumed
    <3>1. host'.print = "printing" /\ ~host'.userPause
      BY <1>a, <2>3 DEF Resumed, Host
    <3> QED BY <2>1, <3>1 DEF PauseKept, Paused
  <2> QED BY <1>9, <2>2, <2>3 DEF Succeed
<1>10. CASE StepFails
  <2>1. /\ InHand /\ cmd.name \in {"change", "runout"} /\ pending \in Request
        /\ cmd.name = "change" => pending'.resume = (pending.resume /\ ~Abort)
        /\ cmd.name = "runout" => pending'.resume = ~Abort
    BY <1>10, StepFailsIs
  <2>2. PICK head : /\ head \in Places
                    /\ cmd.name = "change" =>
                         /\ KeptHost([host EXCEPT !.head = head])
                         /\ host'.pauseSent <=> host.pauseSent \/ (pending.printContext /\ Printing)
                    /\ cmd.name = "runout" => PausedHost([host EXCEPT !.head = head])
    BY <1>10, StepFailsIs
  <2>3. /\ [host EXCEPT !.head = head].print = host.print
        /\ [host EXCEPT !.head = head].userPause = host.userPause
    BY <1>a DEF Host
  <2>4. host.userPause => ~pending'.resume
    <3> SUFFICES ASSUME host.userPause, pending'.resume PROVE FALSE
      OBVIOUS
    <3>1. ~Abort /\ host.pauseSent
      BY <2>1 DEF PauseKept
    <3>2. Printing
      <4>1. CASE cmd.name = "change"
        BY <2>1, <4>1, NoneAssumption DEF PauseKept
      <4>2. CASE cmd.name = "runout"
        BY <4>2 DEF Base, WorkKnown
      <4> QED BY <2>1, <4>1, <4>2
    <3> QED BY <3>1, <3>2 DEF Abort, Printing, Paused
  <2>5. CASE cmd.name = "change"
    <3>1. PauseSame
      BY <2>2, <2>3, <2>5 DEF PauseSame, KeptHost
    <3>2. PrintOn => host'.pauseSent
      <4>1. PrintOn => pending.printContext = TRUE
        BY <2>1 DEF Base, LockInv, RequestKnown, ForPrint
      <4> QED BY <1>f, <2>2, <2>5, <4>1 DEF PauseKept
    <3> QED BY <1>c, <2>4, <3>1, <3>2
  <2>6. CASE cmd.name = "runout"
    <3>1. host'.print = "paused" /\ host'.pauseSent /\ host'.userPause = host.userPause
      BY <2>2, <2>3, <2>6 DEF PausedHost
    <3> QED BY <2>4, <3>1 DEF PauseKept, Paused, Printing, PrintOn
  <2> QED BY <2>1, <2>5, <2>6
<1>11. CASE RunoutSwap
  <2>1. InHand' /\ Printing /\ ~host.pauseSent /\ host' = Away
    BY <1>11 DEF RunoutSwap, Accepts, InHand, NoCommand
  <2> QED BY <1>e, <2>1 DEF PauseKept, Paused, Printing, PrintOn
<1>12. CASE RunoutPause
  <2>1. /\ Printing /\ ~host.pauseSent /\ pending' = pending /\ host' = PausedNow(host)
        /\ cmd = NoCommand
    BY <1>12 DEF RunoutPause, Accepts, Free, PauseRunout
  <2>2. PausedHost(host)
    BY <1>a, <2>1, PausedIs
  <2> QED BY <2>1, <2>2 DEF PausedHost, PauseKept, Paused, Printing, PrintOn
<1>13. CASE UnloadCommand \/ UnloadDone \/ UnloadFails \/ LoadCommand
  <2>1. pending' = pending /\ (host' = host \/ host' = Away)
    BY <1>13 DEF UnloadCommand, UnloadDone, UnloadFails, LoadCommand
  <2>2. (cmd.name = "unload" \/ cmd = NoCommand)
        /\ (cmd'.name = "unload" \/ cmd' = NoCommand \/ cmd' = cmd)
    BY <1>13 DEF UnloadCommand, UnloadDone, UnloadFails, LoadCommand, Free, NoCommand
  <2>3. ~InHand /\ ~InHand'
    BY <1>a, <2>2 DEF InHand
  <2> QED BY <1>b, <1>e, <2>1, <2>3 DEF PauseSame
<1>14. CASE FaultLatched \/ ClogDetected
  <2>1. pending' = pending /\ (host' = host \/ host' = PausePrint(host))
        /\ (cmd' = cmd \/ cmd' = [cmd EXCEPT !.fault = TRUE])
    BY <1>14 DEF FaultLatched, ClogDetected
  <2>2. PauseSame /\ (InHand' <=> InHand)
    BY <1>a, <2>1 DEF PauseSame, PausePrint, Host, InHand, Command
  <2> QED BY <1>b, <2>1, <2>2
<1>15. CASE UserPause
  <2>1. /\ Printing /\ ~host.pauseSent /\ UNCHANGED <<pending, cmd>>
        /\ host'.print = host.print /\ host'.pauseSent
    BY <1>15, <1>a DEF UserPause, Host
  <2> QED BY <1>f, <2>1 DEF PauseKept, Paused, Printing, PrintOn, InHand
<1>16. CASE Pause
  <2>1. cmd = NoCommand /\ cmd' = cmd /\ pending' = pending /\ PausedHost(host) /\ Printing
    BY <1>16, <1>a, PausedIs DEF Pause, Free
  <2>2. ~InHand
    BY <1>a, <2>1 DEF InHand
  <2> QED BY <2>1, <2>2 DEF PausedHost, PauseKept, Paused, Printing, PrintOn
<1>17. CASE Resume
  <2>1. cmd = NoCommand /\ Paused /\ recovery = NoRecovery /\ pending' = pending
    BY <1>17 DEF Resume, Free
  <2>2. pending = NoRequest
    BY <1>a, <1>f, <2>1 DEF Base, LockInv, LockKept, LockedFor, InHand
  <2>3. host'.print = "printing" /\ ~host'.userPause
    BY <1>17, <1>a DEF Resume, Resumed, Host
  <2> QED BY <2>1, <2>2, <2>3 DEF PauseKept, Paused
<1>18. CASE PrintStarts
  <2>1. pending' = NoRequest /\ host'.print = "printing" /\ host'.userPause = host.userPause
        /\ ~PrintOn
    BY <1>18, <1>a DEF PrintStarts, ResetRecovery, PrintOn, Host
  <2> QED BY <2>1 DEF PauseKept, Paused
<1>19. CASE PrintEnds
  <2>1. pending' = NoRequest /\ host'.print = "idle" /\ ~host'.userPause
    BY <1>19, <1>a DEF PrintEnds, ResetRecovery, Host
  <2> QED BY <2>1 DEF PauseKept, Paused
<1>20. CASE InsertExternal
  BY <1>20, <1>b DEF InsertExternal, PauseSame, InHand
<1>21. ReadFails => UNCHANGED <<pending, host>> \/ (pending # NoRequest /\ pending.target = cmd.target)
  BY DEF ReadFails
<1> QED
  BY <1>1, <1>2, <1>3, <1>5, <1>6, <1>7, <1>8, <1>9, <1>10, <1>11, <1>12, <1>13, <1>14,
     <1>15, <1>16, <1>17, <1>18, <1>19, <1>20, <1>21
  DEF Next, Decide, Work, Works, ManualCommands, Events

-----------------------------------------------------------------------------
(***************************************************************************)
(* Where the part is.  If the toolhead, or the place that RESUME returns   *)
(* to, is not at the part, then the request knows where the part is, and   *)
(* that the pause position is its to rewrite: its work is not over before  *)
(* both are back.                                                          *)
(***************************************************************************)
AtPart == (Printing => host.head = "print") /\ (Paused => host.pauseAt = "print")

PlaceOf(r) ==
  /\ Printing /\ r.origin # "none" => r.origin = "print" /\ r.rebase
  /\ r.rebase => r.origin = "print"
  /\ r.runoutRecovery => r.origin # "none" /\ r.serviceZ
  /\ r.kind = "runout" /\ ~r.runoutRecovery => AtPart
  /\ r.printContext => PrintOn
  /\ ~AtPart => r.origin = "print" /\ r.serviceZ /\ r.rebase

PlaceKept ==
  /\ pending = NoRequest => AtPart
  /\ pending # NoRequest => PlaceOf(pending)
  /\ InHand /\ cmd.at # "end" /\ pending.kind = "runout" => pending.runoutRecovery
  /\ cmd.at = "end" => AtPart

HostStill == host'.print = host.print /\ host'.head = host.head /\ host'.pauseAt = host.pauseAt

SamePlace(q, r) ==
  Placed(q, r) /\ q.kind = r.kind /\ q.printContext = r.printContext
  /\ q.runoutRecovery = r.runoutRecovery

LEMMA PlaceStays ==
  ASSUME NEW r, PlaceOf(r), NEW q, SamePlace(q, r), HostStill
  PROVE  PlaceOf(q)'
BY DEF PlaceOf, SamePlace, Placed, HostStill, AtPart, Printing, Paused, PrintOn

\* A position that is noted while it prints is the part's.
LEMMA PlaceNoted ==
  ASSUME Base, NEW r \in Request, PlaceOf(r), NEW q \in {Captured(r), Serviced(r)}
  PROVE  /\ PlaceOf(q) /\ SameRequest(q, r) /\ q.runoutRecovery = r.runoutRecovery
         /\ Printing /\ r.printContext => q.origin = "print" /\ q.rebase
<1>1. /\ SameRequest(q, r) /\ Captures(q, r) /\ q.runoutRecovery = r.runoutRecovery
      /\ r.serviceZ => q.serviceZ
      /\ r.origin = "none" \/ (q.origin = r.origin /\ q.rebase = r.rebase)
  BY CapturedIs DEF Base, TypeOK, Captures
<1>2. CASE r.printContext /\ r.origin = "none"
  <2>1. q.origin = host.head /\ q.rebase = ~Paused /\ AtPart /\ PrintOn
    BY <1>1, <1>2 DEF Captures, PlaceOf
  <2>2. Printing <=> ~Paused
    BY <2>1 DEF Base, TypeOK, Host, PrintOn, Printing, Paused
  <2>3. host.head \in Places
    BY DEF Base, TypeOK, Host
  <2> QED BY <1>1, <1>2, <2>1, <2>2, <2>3 DEF PlaceOf, SameRequest, AtPart, Places
<1>3. CASE ~(r.printContext /\ r.origin = "none")
  <2>1. q.origin = r.origin /\ q.rebase = r.rebase
    BY <1>1, <1>3 DEF Captures
  <2> QED BY <1>1, <1>3, <2>1 DEF PlaceOf, SameRequest
<1> QED BY <1>2, <1>3

\* A request whose work leaves the part knows where it is.
LEMMA PlaceAway ==
  ASSUME Base, NEW r \in Request, PlaceOf(r), PrintOn => r.printContext,
         r.kind = "runout" => r.runoutRecovery,
         NEW q, SameRequest(q, r), q.runoutRecovery = r.runoutRecovery, Placed(q, Serviced(r)),
         host'.print = host.print, host'.head = "away", host'.pauseAt = host.pauseAt
  PROVE  PlaceOf(q)'
<1> DEFINE s == Serviced(r)
<1>1. /\ PlaceOf(s) /\ SameRequest(s, r) /\ s.runoutRecovery = r.runoutRecovery
      /\ Printing /\ r.printContext => s.origin = "print" /\ s.rebase
  BY PlaceNoted
<1>2. s.serviceZ
  BY CapturedIs DEF Base, TypeOK
<1> HIDE DEF s
<1>3. Printing => PrintOn
  BY DEF Printing, PrintOn
<1>4. Placed(q, s) /\ q.kind = s.kind /\ q.printContext = s.printContext
      /\ q.runoutRecovery = s.runoutRecovery
  BY <1>1 DEF SameRequest, s
<1>5. s.kind = "runout" => s.runoutRecovery
  BY <1>1 DEF SameRequest
<1>6. Printing => s.origin = "print" /\ s.rebase
  BY <1>1, <1>3
<1> QED BY <1>1, <1>2, <1>4, <1>5, <1>6 DEF PlaceOf, Placed, AtPart, Printing, Paused, PrintOn

LEMMA ChosenPlace ==
  ASSUME Base, PlaceKept, cmd.name = "change", cmd.at = "decide"
  PROVE  PlaceOf(Chosen) /\ Chosen \in Request /\ (PrintOn => Chosen.printContext)
<1>1. Chosen \in Request /\ (PrintOn => Chosen.printContext)
  BY ChosenIs
<1>2. CASE Chosen = pending
  BY <1>1, <1>2, NoneAssumption DEF PlaceKept
<1>3. CASE TakenOver(Chosen)
  <2>1. PlaceOf(pending) /\ Placed(Chosen, pending) /\ Chosen.printContext = pending.printContext
        /\ Chosen.runoutRecovery = pending.runoutRecovery /\ Chosen.kind = "normal"
    BY <1>3, NoneAssumption DEF PlaceKept, TakenOver
  <2> QED BY <1>1, <2>1 DEF PlaceOf, Placed
<1>4. CASE ~Inheritable(pending, cmd.target) /\ Chosen = FreshRequest(cmd.target, cmd.flush) /\ Chosen # pending
  <2>1. AtPart
    <3>1. CASE pending = NoRequest
      BY <3>1 DEF PlaceKept
    <3>2. CASE pending # NoRequest
      <4>1. pending.target # cmd.target
        BY <1>4, <3>2 DEF Chosen
      <4>2. pending.origin = "none"
        BY <1>4, <3>2, <4>1 DEF Inheritable
      <4> QED BY <3>2, <4>2 DEF PlaceKept, PlaceOf
    <3> QED BY <3>1, <3>2
  <2>2. /\ Chosen.origin = "none" /\ Chosen.rebase = FALSE /\ Chosen.runoutRecovery = FALSE
        /\ Chosen.kind = "normal" /\ Chosen.printContext = PrintOn
    BY <1>4 DEF FreshRequest, PrintOn
  <2> QED BY <1>1, <2>1, <2>2 DEF PlaceOf
<1> QED BY <1>1, <1>2, <1>3, <1>4, ChosenIs

LEMMA PlaceStep == Base /\ PauseKept /\ PlaceKept /\ [Next]_vars /\ ResumeChecked => PlaceKept'
<1> SUFFICES ASSUME Base, PauseKept, PlaceKept, [Next]_vars, ResumeChecked PROVE PlaceKept'
  OBVIOUS
<1>a. /\ host \in Host /\ cmd \in Command /\ NoCommand.name = "none" /\ NoCommand.at = "idle"
      /\ (pending # NoRequest => pending \in Request)
  BY DEF Base, TypeOK, NoCommand
<1>b. HostStill => (AtPart' <=> AtPart)
  BY DEF HostStill, AtPart, Printing, Paused
<1>c. /\ Away.print = host.print /\ Away.head = "away" /\ Away.pauseAt = host.pauseAt
      /\ PausePrint(host).print = host.print /\ PausePrint(host).head = host.head
      /\ PausePrint(host).pauseAt = host.pauseAt
  BY <1>a DEF Away, PausePrint, Host
<1>d. KeptHost(host) => HostStill
  BY DEF KeptHost, HostStill
\* The same request, and no command that is at its end.
<1>e. ASSUME HostStill, pending' = pending, cmd'.at # "end", ~InHand' \/ (InHand /\ cmd.at # "end")
      PROVE  PlaceKept'
  <2>1. SamePlace(pending, pending)
    BY DEF SamePlace, Placed
  <2>2. pending # NoRequest => PlaceOf(pending)'
    <3>1. CASE pending # NoRequest
      <4>1. PlaceOf(pending)
        BY <3>1 DEF PlaceKept
      <4> QED BY <1>e, <2>1, <4>1, PlaceStays
    <3> QED BY <3>1
  <2> QED BY <1>b, <1>e, <2>2 DEF PlaceKept
\* Nothing moves and no command goes on or ends.
<1>f. ASSUME HostStill, pending' = pending, cmd'.at = cmd.at, cmd'.name = cmd.name PROVE PlaceKept'
  <2>1. SamePlace(pending, pending)
    BY DEF SamePlace, Placed
  <2>2. pending # NoRequest => PlaceOf(pending)'
    <3>1. CASE pending # NoRequest
      <4>1. PlaceOf(pending)
        BY <3>1 DEF PlaceKept
      <4> QED BY <1>f, <2>1, <4>1, PlaceStays
    <3> QED BY <3>1
  <2> QED BY <1>b, <1>f, <2>2 DEF PlaceKept, InHand
<1>1. CASE UNCHANGED vars
  BY <1>1, <1>f DEF vars, HostStill
<1>2. CASE ChangeCommand \/ ResumeCheck
  <2>1. HostStill /\ cmd'.at = "decide"
    BY <1>2 DEF ChangeCommand, ResumeCheck, Begin, NoCommand, HostStill
  <2>2. CASE pending' = pending
    BY <1>e, <2>1, <2>2 DEF InHand
  <2>3. CASE /\ pending = NoRequest /\ Paused
             /\ pending' = [FreshRequest(External, TRUE) EXCEPT
                              !.source = store.lastLoaded, !.printContext = TRUE,
                              !.resume = FALSE, !.lastStep = "attendance"]
    <3>1. /\ pending'.origin = "none" /\ pending'.rebase = FALSE /\ pending'.kind = "normal"
          /\ pending'.runoutRecovery = FALSE
      BY <2>3 DEF FreshRequest
    <3>2. AtPart' /\ PrintOn'
      BY <1>b, <2>1, <2>3 DEF PlaceKept, HostStill, PrintOn, Paused
    <3> QED BY <2>1, <3>1, <3>2 DEF PlaceKept, PlaceOf, InHand
  <2> QED BY <1>2, <2>2, <2>3 DEF ChangeCommand, ResumeCheck
<1>3. CASE ReadFails /\ UNCHANGED <<pending, host>>
  <2>1. cmd' = NoCommand
    BY <1>3 DEF ReadFails, OperationFailed
  <2> QED BY <1>3, <1>a, <1>e, <2>1 DEF HostStill, InHand
<1>4. CASE DecideAborts \/ Attend \/ (ReadFails /\ pending # NoRequest /\ pending.target = cmd.target)
  <2>1. /\ cmd.name = "change" /\ cmd.at = "decide" /\ cmd' = NoCommand /\ pending' \in Request
        /\ SameRequest(pending', Chosen) /\ pending'.runoutRecovery = Chosen.runoutRecovery
        /\ Placed(pending', Chosen) \/ Placed(pending', Captured(Chosen))
    BY <1>4, <1>d, GivesUpIs
  <2>2. HostStill
    BY <1>4, <1>d, GivesUpIs
  <2>3. PICK q \in {Chosen, Captured(Chosen)} : Placed(pending', q)
    BY <2>1
  <2>4. Chosen \in Request /\ PlaceOf(Chosen)
    BY <2>1, ChosenPlace
  <2>5. PlaceOf(q) /\ SameRequest(q, Chosen) /\ q.runoutRecovery = Chosen.runoutRecovery
    <3>1. SameRequest(Chosen, Chosen)
      BY DEF SameRequest
    <3> QED BY <2>3, <2>4, <3>1, PlaceNoted
  <2>6. SamePlace(pending', q)
    BY <2>1, <2>3, <2>5 DEF SamePlace, SameRequest
  <2>7. PlaceOf(pending)'
    BY <2>2, <2>5, <2>6, PlaceStays
  <2> QED BY <1>a, <2>1, <2>7, NoneAssumption DEF PlaceKept, InHand
<1>5. CASE NothingToDo \/ Execute \/ RetryRunout
  <2>1. /\ cmd.name = "change" /\ cmd.at = "decide" /\ pending' \in Request
        /\ SameRequest(pending', Chosen) /\ pending'.runoutRecovery = Chosen.runoutRecovery
        /\ cmd'.name = "change"
    BY <1>5, DecidesIs
  <2>2. Chosen \in Request /\ PlaceOf(Chosen) /\ (PrintOn => Chosen.printContext)
    BY <2>1, ChosenPlace
  <2>3. RetryRunout \/ Chosen.kind = "normal"
    BY <1>5 DEF NothingToDo, Execute
  <2>4. PICK at : /\ \E s : GoTo(at, s)
                  /\ Chosen.kind = "runout" /\ ~Chosen.runoutRecovery => at = "end" /\ host' = host
                  /\ at = "end" => /\ host' = host /\ pending' = pending /\ Chosen = pending
                                   /\ pending.kind = "runout" /\ ~pending.runoutRecovery
    <3>1. CASE NothingToDo
      BY <3>1 DEF NothingToDo
    <3>2. CASE Execute
      BY <3>2 DEF Execute, FirstPhase
    <3>3. CASE RetryRunout
      <4>1. CASE ~pending.runoutRecovery
        <5>1. GoTo("end", pending) /\ host' = host /\ pending' = pending /\ Chosen = pending
              /\ pending.kind = "runout"
          BY <3>3, <4>1 DEF RetryRunout
        <5> QED BY <4>1, <5>1
      <4>2. CASE pending.runoutRecovery
        <5>1. PICK at : GoTo(at, pending) /\ at # "end"
          BY <3>3, <4>2 DEF RetryRunout, RunoutWork, RunoutPhase, FirstPhase
        <5> QED BY <3>3, <4>2, <5>1 DEF RetryRunout
      <4> QED BY <4>1, <4>2
    <3> QED BY <1>5, <3>1, <3>2, <3>3
  <2>5. cmd'.at = at
    BY <1>a, <2>4 DEF GoTo, Command
  <2>6. PlaceOf(pending)'
    <3>1. CASE host' = host
      <4>1. PICK q \in {Chosen, Captured(Chosen), Serviced(Chosen)} : Placed(pending', q)
        <5>1. \/ Placed(pending', Chosen) \/ pending' = Captured(Chosen)
              \/ (Chosen = pending /\ Placed(pending', Serviced(pending)))
          BY <1>5, DecidesIs
        <5> QED BY <5>1 DEF Placed
      <4>2. PlaceOf(q) /\ SameRequest(q, Chosen) /\ q.runoutRecovery = Chosen.runoutRecovery
        <5>1. SameRequest(Chosen, Chosen)
          BY DEF SameRequest
        <5> QED BY <4>1, <2>2, <5>1, PlaceNoted
      <4>3. SamePlace(pending', q)
        BY <2>1, <4>1, <4>2 DEF SamePlace, SameRequest
      <4> QED BY <3>1, <4>2, <4>3, PlaceStays DEF HostStill
    <3>2. CASE host' # host
      <4>1. Chosen = pending /\ Placed(pending', Serviced(pending)) /\ host' = Away
        BY <1>5, <3>2, DecidesIs
      <4>2. Chosen.kind = "runout" => Chosen.runoutRecovery
        BY <2>4, <3>2
      <4> QED BY <1>c, <2>1, <2>2, <4>1, <4>2, PlaceAway
    <3> QED BY <3>1, <3>2
  <2>7. at # "end" /\ pending'.kind = "runout" => pending'.runoutRecovery
    BY <2>1, <2>4 DEF SameRequest
  <2>8. at = "end" => AtPart'
    <3>1. CASE at = "end"
      <4>1. AtPart
        BY <2>2, <2>4, <3>1 DEF PlaceOf
      <4> QED BY <1>b, <2>4, <3>1, <4>1 DEF HostStill
    <3> QED BY <3>1
  <2> QED BY <2>1, <2>5, <2>6, <2>7, <2>8, NoneAssumption DEF PlaceKept, InHand
<1>6. CASE Works
  <2>1. /\ InHand /\ InHand' /\ pending \in Request /\ pending' \in Request
        /\ SameRequest(pending', pending) /\ pending'.runoutRecovery = pending.runoutRecovery
        /\ \/ Placed(pending', pending) /\ host' = host
           \/ Placed(pending', Serviced(pending)) /\ host' = Away
    BY <1>6, WorksIs
  <2>2. cmd.at # "end" /\ cmd'.at # "end"
    <3>1. cmd' = cmd \/ \E at \in {"load", "flush", "final", "finish"} : Advance(at)
      BY <1>6 DEF Works, Retract, Cut, Pull, PhysicalLoad, LoadExternal, Flush, NoFlush, FinalTemperature
    <3>2. cmd.at \in {"unload", "load", "flush", "final"}
      BY <1>6 DEF Works, Retract, Cut, Pull, PhysicalLoad, LoadExternal, Flush, NoFlush, FinalTemperature,
         Working
    <3> QED BY <1>a, <3>1, <3>2 DEF Advance, Command
  <2>3. PlaceOf(pending) /\ (pending.kind = "runout" => pending.runoutRecovery)
    BY <2>1, <2>2, NoneAssumption DEF PlaceKept
  <2>4. PrintOn => pending.printContext
    BY <2>1 DEF Base, LockInv, RequestKnown, ForPrint
  <2>5. PlaceOf(pending)'
    <3>1. CASE Placed(pending', pending) /\ host' = host
      <4>1. SamePlace(pending', pending)
        BY <2>1, <3>1 DEF SamePlace, SameRequest
      <4> QED BY <2>3, <3>1, <4>1, PlaceStays DEF HostStill
    <3>2. CASE Placed(pending', Serviced(pending)) /\ host' = Away
      BY <1>c, <2>1, <2>3, <2>4, <3>2, PlaceAway
    <3> QED BY <2>1, <3>1, <3>2
  <2> QED BY <2>1, <2>2, <2>3, <2>5, NoneAssumption DEF PlaceKept, SameRequest
<1>7. CASE Finish
  <2> DEFINE home == IF Returns(pending) THEN pending.origin ELSE host.head
             rebased == pending.rebase /\ Paused /\ (Returns(pending) \/ pending.runoutRecovery)
  <2>1. InHand /\ pending \in Request /\ pending # NoRequest
    BY <1>7, <1>a DEF Finish, InHand, Base, LockInv, CommandKnown, WorkKnown
  <2>2. /\ \E step : pending' = [pending EXCEPT !.runoutRecovery = FALSE, !.lastStep = step]
        /\ cmd' = [cmd EXCEPT !.at = "end", !.prepared = FALSE, !.sensorBefore = TRUE]
        /\ host' = [host EXCEPT !.head = home, !.pauseAt = IF rebased THEN home ELSE @]
    BY <1>7 DEF Finish, Advance
  <2>3. /\ host'.print = host.print /\ host'.head = home
        /\ host'.pauseAt = IF rebased THEN home ELSE host.pauseAt
    BY <1>a, <2>2 DEF Host
  <2>4. PlaceOf(pending)
    BY <2>1 DEF PlaceKept
  <2>5. Printing => home = "print"
    BY <2>4 DEF PlaceOf, Returns, AtPart
  <2>6. Paused => host'.pauseAt = "print"
    <3> SUFFICES ASSUME Paused PROVE host'.pauseAt = "print"
      OBVIOUS
    <3>1. rebased => home = "print"
      BY <2>4 DEF PlaceOf, Returns
    <3>2. ~rebased => host.pauseAt = "print"
      BY <2>4 DEF PlaceOf, Returns, AtPart
    <3> QED BY <2>3, <3>1, <3>2
  <2> HIDE DEF home, rebased
  <2>7. AtPart'
    BY <2>3, <2>5, <2>6 DEF AtPart, Printing, Paused
  <2>8. Placed(pending', pending) /\ pending'.printContext = pending.printContext /\ pending'.runoutRecovery = FALSE
    BY <2>1, <2>2 DEF Placed, Request
  <2>9. PlaceOf(pending)'
    BY <2>3, <2>4, <2>7, <2>8 DEF PlaceOf, Placed, Printing, PrintOn
  <2>10. cmd'.at = "end"
    BY <1>a, <2>2 DEF Command
  <2> QED BY <2>7, <2>9, <2>10 DEF PlaceKept
<1>8. CASE Succeed
  <2>1. pending' = NoRequest /\ cmd' = NoCommand /\ AtPart
    BY <1>8 DEF Succeed, PlaceKept
  <2>2. AtPart'
    <3>1. CASE host' = host
      BY <1>b, <2>1, <3>1 DEF HostStill
    <3>2. CASE host' = Resumed /\ Paused
      <4>1. host'.print = "printing" /\ host'.head = host.pauseAt
        BY <1>a, <3>2 DEF Resumed, Host
      <4> QED BY <2>1, <3>2, <4>1 DEF AtPart, Printing, Paused
    <3> QED BY <1>8, <3>1, <3>2 DEF Succeed, ResumesItself
  <2> QED BY <1>a, <2>1, <2>2 DEF PlaceKept, InHand
<1>9. CASE StepFails
  <2>1. /\ InHand /\ pending \in Request /\ pending' \in Request /\ cmd' = NoCommand
        /\ cmd.name \in {"change", "runout"}
        /\ SameRequest(pending', pending) /\ pending'.runoutRecovery = pending.runoutRecovery
    BY <1>9, StepFailsIs
  <2>2. PICK left \in {FALSE, Leaves(cmd.at)} : \E head \in HeadAfter(left) :
              /\ Placed(pending', IF left THEN Serviced(pending) ELSE pending)
              /\ head \in Places
              /\ cmd.name = "change" => KeptHost([host EXCEPT !.head = head])
              /\ cmd.name = "runout" => PausedHost([host EXCEPT !.head = head])
    BY <1>9, StepFailsIs
  <2>3. PICK head \in HeadAfter(left) :
              /\ Placed(pending', IF left THEN Serviced(pending) ELSE pending)
              /\ head \in Places
              /\ cmd.name = "change" => KeptHost([host EXCEPT !.head = head])
              /\ cmd.name = "runout" => PausedHost([host EXCEPT !.head = head])
    BY <2>2
  <2>4. /\ PlaceOf(pending) /\ (PrintOn => pending.printContext)
        /\ cmd.at # "end" /\ pending.kind = "runout" => pending.runoutRecovery
        /\ cmd.at = "end" => AtPart /\ ~left
    <3>1. PrintOn => pending.printContext
      BY <2>1 DEF Base, LockInv, RequestKnown, ForPrint
    <3> QED BY <2>1, <2>2, <3>1, NoneAssumption DEF PlaceKept, Leaves
  <2>5. /\ [host EXCEPT !.head = head].print = host.print
        /\ [host EXCEPT !.head = head].head = head
        /\ [host EXCEPT !.head = head].pauseAt = host.pauseAt
    BY <1>a DEF Host
  <2>6. left => head = "away"
    BY <2>3 DEF HeadAfter
  <2>7. ~left => /\ Placed(pending', pending)
                 /\ head = host.head \/ (Returns(pending) /\ head = pending.origin)
    BY <2>3 DEF HeadAfter
  <2>8. CASE cmd.name = "change"
    <3>1. host'.print = host.print /\ host'.head = head /\ host'.pauseAt = host.pauseAt
      BY <2>3, <2>5, <2>8 DEF KeptHost
    <3>2. PlaceOf(pending)'
      <4>1. CASE left
        <5>1. pending.kind = "runout" => pending.runoutRecovery
          BY <2>4, <4>1
        <5>2. Placed(pending', Serviced(pending))
          BY <2>3, <4>1
        <5> QED BY <2>1, <2>4, <2>6, <3>1, <4>1, <5>1, <5>2, PlaceAway
      <4>2. CASE ~left
        <5>1. AtPart => AtPart'
          BY <2>4, <2>7, <3>1, <4>2 DEF AtPart, PlaceOf, Returns, Printing, Paused
        <5> QED BY <2>1, <2>4, <2>7, <3>1, <4>2, <5>1
              DEF PlaceOf, Placed, SameRequest, Printing, PrintOn
      <4> QED BY <4>1, <4>2
    <3> QED BY <1>a, <2>1, <3>2, NoneAssumption DEF PlaceKept, InHand
  <2>9. CASE cmd.name = "runout"
    <3>1. host'.print = "paused" /\ host'.pauseAt = head /\ Printing
      BY <2>3, <2>5, <2>9 DEF PausedHost, Base, WorkKnown
    <3>2. PlaceOf(pending)'
      <4>1. CASE left
        <5> DEFINE s == Serviced(pending)
        <5>1. /\ PlaceOf(s) /\ SameRequest(s, pending) /\ s.runoutRecovery = pending.runoutRecovery
              /\ s.origin = "print" /\ s.rebase
          <6>1. PrintOn
            BY <3>1 DEF Printing, PrintOn
          <6> QED BY <2>1, <2>4, <3>1, <6>1, PlaceNoted
        <5>2. s.serviceZ
          BY <2>1, ServicedIs
        <5>3. Placed(pending', s)
          BY <2>3, <4>1
        <5>4. pending.kind = "runout" => pending.runoutRecovery
          BY <2>4, <4>1
        <5> HIDE DEF s
        <5> QED BY <2>1, <3>1, <5>1, <5>2, <5>3, <5>4
              DEF PlaceOf, Placed, SameRequest, Printing, PrintOn
      <4>2. CASE ~left
        <5>1. AtPart => AtPart'
          BY <2>4, <2>7, <3>1, <4>2 DEF AtPart, PlaceOf, Returns, Printing, Paused
        <5> QED BY <2>1, <2>4, <2>7, <3>1, <4>2, <5>1
              DEF PlaceOf, Placed, SameRequest, Printing, PrintOn
      <4> QED BY <4>1, <4>2
    <3> QED BY <1>a, <2>1, <3>2, NoneAssumption DEF PlaceKept, InHand
  <2> QED BY <2>1, <2>8, <2>9
<1>10. CASE RunoutSwap
  <2>1. /\ cmd = NoCommand /\ Printing /\ ~host.pauseSent /\ host' = Away
    BY <1>10 DEF RunoutSwap, Accepts, Free
  <2>2. pending = NoRequest
    BY <1>a, <2>1 DEF PauseKept, InHand, PrintOn, Printing
  <2>3. AtPart
    BY <2>2 DEF PlaceKept
  <2>4. PICK t \in Slots : /\ pending' = Serviced(RunoutRequest(t))
                           /\ \E path, u : cmd' = [NoCommand EXCEPT !.name = "runout", !.target = t,
                                !.at = IF path = NoSlot THEN "load" ELSE "unload", !.sensorBefore = u]
    BY <1>10 DEF RunoutSwap
  <2> DEFINE r == RunoutRequest(t)
  <2>5. r \in Request
    BY <1>10, <1>a DEF RunoutSwap, RunoutRequest, Request, Targets, Places, LastSteps
  <2>6. Captures(pending', r) /\ SameRequest(pending', r) /\ pending'.runoutRecovery /\ pending'.serviceZ
    <3>1. r.runoutRecovery
      BY DEF RunoutRequest
    <3> HIDE DEF r
    <3>2. pending' = Serviced(r)
      BY <2>4 DEF r
    <3> QED BY <2>5, <3>1, <3>2, CapturedIs DEF Base, TypeOK
  <2>7. pending'.origin = "print" /\ pending'.rebase
    <3>1. r.printContext /\ r.origin = "none"
      BY DEF RunoutRequest
    <3> HIDE DEF r
    <3>2. pending'.origin = host.head /\ pending'.rebase = ~Paused
      BY <2>6, <3>1 DEF Captures
    <3> QED BY <2>1, <2>3, <3>2 DEF AtPart, Printing, Paused
  <2>8. host'.print = "printing" /\ cmd'.at # "end"
    BY <1>c, <2>1, <2>4 DEF Printing, NoCommand
  <2>9. PlaceOf(pending)'
    BY <2>6, <2>7, <2>8 DEF PlaceOf, PrintOn
  <2>10. pending' # NoRequest
    BY <2>4, <2>5, <1>a, CapturedType, NoneAssumption
  <2> QED BY <2>6, <2>8, <2>9, <2>10 DEF PlaceKept
<1>11. CASE RunoutPause
  <2>1. Printing /\ pending' = pending /\ PausedHost(host) /\ cmd' = NoCommand
    <3>1. host' = PausedNow(host) /\ Printing /\ pending' = pending /\ cmd' = NoCommand
      BY <1>11 DEF RunoutPause, PauseRunout
    <3> QED BY <1>a, <3>1, PausedIs
  <2> QED BY <1>a, <2>1 DEF PlaceKept, PlaceOf, PausedHost, AtPart, Printing, Paused, PrintOn, InHand
<1>12. CASE UnloadDone
  <2>1. /\ pending' = pending /\ cmd' = NoCommand /\ ~Printing /\ (host' = host \/ host' = Away)
    BY <1>12 DEF UnloadDone, Base, WorkKnown
  <2>2. host'.print = host.print /\ host'.pauseAt = host.pauseAt
    BY <1>c, <2>1
  <2> QED BY <1>a, <2>1, <2>2 DEF PlaceKept, PlaceOf, AtPart, Printing, Paused, PrintOn, InHand
<1>13. CASE UnloadCommand \/ UnloadFails \/ LoadCommand
  <2>1. HostStill /\ pending' = pending
    BY <1>13 DEF UnloadCommand, UnloadFails, LoadCommand, HostStill
  <2>2. cmd' = cmd \/ cmd' = NoCommand \/ (cmd'.name = "unload" /\ cmd'.at = "unload")
    BY <1>13 DEF UnloadCommand, UnloadFails, LoadCommand, NoCommand
  <2> QED BY <1>a, <1>e, <1>f, <2>1, <2>2 DEF InHand
<1>14. CASE FaultLatched \/ ClogDetected \/ UserPause
  <2>1. pending' = pending /\ cmd'.at = cmd.at /\ cmd'.name = cmd.name
    BY <1>14, <1>a DEF FaultLatched, ClogDetected, UserPause, Command
  <2>2. HostStill
    <3>1. [host EXCEPT !.pauseSent = TRUE, !.userPause = TRUE].print = host.print
          /\ [host EXCEPT !.pauseSent = TRUE, !.userPause = TRUE].head = host.head
          /\ [host EXCEPT !.pauseSent = TRUE, !.userPause = TRUE].pauseAt = host.pauseAt
      BY <1>a DEF Host
    <3> QED BY <1>14, <1>c, <3>1 DEF FaultLatched, ClogDetected, UserPause, HostStill
  <2> QED BY <1>f, <2>1, <2>2
<1>15. CASE Pause
  <2>1. Printing /\ pending' = pending /\ PausedHost(host) /\ cmd' = NoCommand
    BY <1>15, <1>a, PausedIs DEF Pause, Free
  <2> QED BY <1>a, <2>1 DEF PlaceKept, PlaceOf, PausedHost, AtPart, Printing, Paused, PrintOn, InHand
<1>16. CASE Resume
  <2>1. cmd = NoCommand /\ cmd' = NoCommand /\ Paused /\ recovery = NoRecovery /\ pending' = pending
    BY <1>16 DEF Resume, Free
  <2>2. pending = NoRequest
    BY <1>a, <2>1 DEF Base, LockInv, LockKept, LockedFor, InHand, PrintOn, Paused
  <2>3. host'.print = "printing" /\ host'.head = host.pauseAt
    BY <1>16, <1>a DEF Resume, Resumed, Host
  <2> QED BY <1>a, <2>1, <2>2, <2>3 DEF PlaceKept, AtPart, Printing, Paused, InHand
<1>17. CASE PrintStarts \/ PrintEnds
  <2>1. pending' = NoRequest /\ cmd' = NoCommand
    BY <1>17 DEF PrintStarts, PrintEnds, ResetRecovery, Free
  <2>2. (host'.print = "printing" /\ host'.head = "print") \/ host'.print = "idle"
    BY <1>17, <1>a DEF PrintStarts, PrintEnds, Host
  <2> QED BY <1>a, <2>1, <2>2 DEF PlaceKept, AtPart, Printing, Paused, InHand
<1>18. CASE InsertExternal
  BY <1>18, <1>f DEF InsertExternal, HostStill
<1>19. ReadFails => UNCHANGED <<pending, host>> \/ (pending # NoRequest /\ pending.target = cmd.target)
  BY DEF ReadFails
<1> QED
  BY <1>1, <1>2, <1>3, <1>4, <1>5, <1>6, <1>7, <1>8, <1>9, <1>10, <1>11, <1>12, <1>13, <1>14,
     <1>15, <1>16, <1>17, <1>18, <1>19
  DEF Next, Decide, Work, Works, ManualCommands, Events

\* Only RESUME, and a change that resumes by itself, let the print go on.
LEMMA GoesOn ==
  ASSUME Base, [Next]_vars, PrintGoesOn
  PROVE  host' = Resumed /\ (Succeed \/ Resume)
<1>a. host \in Host /\ Paused /\ host'.print = "printing"
  BY DEF Base, TypeOK, PrintGoesOn
<1>b. ASSUME host'.print \in {host.print, "paused"} PROVE FALSE
  BY <1>a, <1>b DEF Paused
<1>c. Away.print = host.print /\ PausePrint(host).print = host.print /\ PausedNow(host).print = "paused"
  BY <1>a DEF Away, PausePrint, PausedNow, Host
<1>1. CASE DecideAborts \/ Attend \/ ReadFails
  BY <1>b, <1>c, <1>1 DEF DecideAborts, Attend, ReadFails, OperationFailed
<1>2. CASE NothingToDo \/ Execute \/ RetryRunout
  BY <1>b, <1>c, <1>2, DecidesIs
<1>3. CASE Works
  BY <1>b, <1>c, <1>3, WorksIs
<1>4. CASE Finish
  BY <1>a, <1>b, <1>4 DEF Finish, Host
<1>5. CASE StepFails
  <2>1. PICK head : \/ KeptHost([host EXCEPT !.head = head])
                    \/ PausedHost([host EXCEPT !.head = head])
    BY <1>5, StepFailsIs
  <2> QED BY <1>a, <1>b, <2>1 DEF KeptHost, PausedHost, Host
<1>6. CASE UnloadDone
  BY <1>b, <1>c, <1>6 DEF UnloadDone
<1>7. CASE FaultLatched \/ ClogDetected \/ UserPause
  BY <1>a, <1>b, <1>c, <1>7 DEF FaultLatched, ClogDetected, UserPause, Host
<1>8. CASE RunoutSwap \/ RunoutPause \/ Pause
  BY <1>b, <1>c, <1>8 DEF RunoutSwap, RunoutPause, PauseRunout, Pause
<1>9. CASE ChangeCommand \/ ResumeCheck \/ UnloadCommand \/ LoadCommand \/ UnloadFails
           \/ InsertExternal \/ UNCHANGED vars
  BY <1>b, <1>9 DEF ChangeCommand, ResumeCheck, UnloadCommand, LoadCommand, UnloadFails,
     InsertExternal, vars
<1>10. CASE PrintStarts \/ PrintEnds
  BY <1>a, <1>10 DEF PrintStarts, PrintEnds, Paused, Host
<1>11. CASE Succeed \/ Resume
  BY <1>b, <1>11 DEF Succeed, Resume
<1> QED
  BY <1>1, <1>2, <1>3, <1>4, <1>5, <1>6, <1>7, <1>8, <1>9, <1>10, <1>11
  DEF Next, Decide, Work, Works, ManualCommands, Events

\* A change lets the print go on by itself only from its own pause: whenever the
\* user asks for one, while it works, waits or is retried, it stays
\* (_operation_failed, _restore_and_resume), if RESUME is respected as locked.
THEOREM UsersPauseStays ==
  ASSUME ResumeChecked
  PROVE  Spec => UserPauseStays
<1>1. Init => PauseKept
  BY DEF Init, PauseKept, Paused, PrintOn
<1>2. Base /\ PauseKept /\ [Next]_vars => [PrintGoesOn /\ cmd.name = "change" => ~host.userPause]_vars
  <2> SUFFICES ASSUME Base, PauseKept, [Next]_vars, PrintGoesOn, cmd.name = "change", host.userPause
               PROVE  FALSE
    OBVIOUS
  <2>1. host' = Resumed /\ Succeed /\ Paused /\ host' # host
    <3>1. host' = Resumed /\ (Succeed \/ Resume) /\ Paused /\ host'.print = "printing"
      BY GoesOn DEF PrintGoesOn
    <3>2. ~Resume
      BY DEF Resume, Free, NoCommand
    <3> QED BY <3>1, <3>2 DEF Paused
  <2>2. pending.resume /\ cmd.at = "end" /\ InHand
    BY <2>1 DEF Succeed, ResumesItself, InHand
  <2> QED BY <2>1, <2>2 DEF PauseKept, Base, WorkKnown, Printing, Paused
<1>3. Spec => [](Base /\ PauseKept)
  BY <1>1, BaseInit, BaseStep, PauseStep, PTL DEF Spec
<1>4. UserPauseStays <=> [][PrintGoesOn /\ cmd.name = "change" => ~host.userPause]_vars
  BY DEF UserPauseStays
<1> QED BY <1>2, <1>3, <1>4, PTL DEF Spec

\* However often a change fails, is retried or is replaced by another, and
\* whether the user, a fault, a runout or the change itself paused it, the print
\* goes on at the part (_capture_position, _return_from_service, _rebase_pause).
THEOREM ResumesAtThePart ==
  ASSUME ResumeChecked
  PROVE  Spec => ResumesWhereItStopped
<1>1. Init => PauseKept /\ PlaceKept
  BY DEF Init, PauseKept, PlaceKept, AtPart, Printing, Paused, PrintOn, NoCommand, InHand
<1>2. Base /\ PlaceKept /\ [Next]_vars => [PrintGoesOn => host'.head = "print"]_vars
  <2> SUFFICES ASSUME Base, PlaceKept, [Next]_vars, PrintGoesOn PROVE host'.head = "print"
    OBVIOUS
  <2>1. host' = Resumed /\ (Succeed \/ Resume) /\ Paused
    BY GoesOn DEF PrintGoesOn
  <2>2. AtPart
    <3>1. CASE Succeed
      BY <3>1 DEF Succeed, PlaceKept
    <3>2. CASE Resume
      <4>1. recovery = NoRecovery /\ cmd = NoCommand
        BY <3>2 DEF Resume, Free
      <4>2. pending = NoRequest
        BY <2>1, <4>1 DEF Base, LockInv, LockKept, LockedFor, InHand, PrintOn, Paused, NoCommand
      <4> QED BY <4>2 DEF PlaceKept
    <3> QED BY <2>1, <3>1, <3>2
  <2>3. host'.head = host.pauseAt
    BY <2>1 DEF Resumed, Base, TypeOK, Host
  <2> QED BY <2>1, <2>2, <2>3 DEF AtPart
<1>3. Spec => [](Base /\ PauseKept /\ PlaceKept)
  BY <1>1, BaseInit, BaseStep, PauseStep, PlaceStep, PTL DEF Spec
<1>4. ResumesWhereItStopped <=> [][PrintGoesOn => host'.head = "print"]_vars
  BY DEF ResumesWhereItStopped
<1> QED BY <1>2, <1>3, <1>4, PTL DEF Spec

-----------------------------------------------------------------------------
(***************************************************************************)
(* The feed.  A flush that is done stays true of the filament until        *)
(* another is asked for.  Manual commands would unload what was flushed;   *)
(* a runout would do it too, but not while a request waits, since then the *)
(* print is paused.                                                        *)
(***************************************************************************)
FeedOf(r) ==
  /\ r.flushDone => /\ TargetReady(r.target) /\ store.feedPending # r.target
                    /\ r.lastStep \notin {"attendance", "load"}
  /\ r.kind = "runout" /\ (r.lastStep = "restore" \/ ~r.runoutRecovery) => r.flushDone

FeedKept ==
  /\ cmd.name # "unload"
  /\ cmd.at = "flush" => TargetReady(cmd.target)
  /\ InHand /\ cmd.at \in {"unload", "load"} => ~pending.flushDone
  /\ pending # NoRequest => FeedOf(pending)
  /\ cmd.at \in {"final", "finish"} /\ pending.kind = "runout" => pending.flushDone
  /\ cmd.at \in {"final", "finish", "end"} /\ pending.flush => store.feedPending # cmd.target

SameFeed(q, r) ==
  /\ q.target = r.target /\ q.kind = r.kind /\ q.flushDone = r.flushDone
  /\ q.runoutRecovery = r.runoutRecovery /\ q.lastStep = r.lastStep

LEMMA FeedStays ==
  ASSUME NEW r, FeedOf(r), NEW q, SameFeed(q, r), UNCHANGED filament,
         store'.feedPending = store.feedPending
  PROVE  FeedOf(q)'
BY DEF FeedOf, SameFeed, TargetReady, Loaded

LEMMA ChosenFeed ==
  ASSUME Base, FeedKept, cmd.name = "change"
  PROVE  /\ FeedOf(Chosen) /\ Chosen \in Request /\ Chosen.target = cmd.target
         /\ Chosen.kind = "runout" \/ Chosen.flushDone => Chosen = pending
<1>1. Chosen \in Request /\ Chosen.target = cmd.target
  BY ChosenIs
<1>2. CASE Chosen = pending
  BY <1>1, <1>2, NoneAssumption DEF FeedKept
<1>3. CASE TakenOver(Chosen)
  BY <1>1, <1>3 DEF TakenOver, FeedOf
<1>4. CASE Chosen = FreshRequest(cmd.target, cmd.flush)
  <2>1. Chosen.flushDone = FALSE /\ Chosen.kind = "normal"
    BY <1>4 DEF FreshRequest
  <2> QED BY <1>1, <2>1 DEF FeedOf
<1> QED BY <1>2, <1>3, <1>4, ChosenIs

\* A request whose flush is done does not load or unload again.
LEMMA FlushedPhase ==
  ASSUME NEW r \in Request, FeedOf(r), r.flushDone
  PROVE  FirstPhase(r) = "flush"
<1>1. TargetReady(r.target) /\ r.lastStep \notin {"attendance", "load"}
  BY DEF FeedOf
<1>2. Loaded = r.target
  BY <1>1 DEF TargetReady
<1>3. ~ExternalCapture(r)
  BY <1>1 DEF ExternalCapture
<1>4. r.target # NoSlot
  BY SlotsAssumption DEF Request, Targets
<1> QED BY <1>1, <1>2, <1>3, <1>4 DEF FirstPhase

LEMMA FeedStep ==
  ASSUME ResumeChecked, Manual = {}
  PROVE  Base /\ PauseKept /\ FeedKept /\ [Next]_vars => FeedKept'
<1> SUFFICES ASSUME Base, PauseKept, FeedKept, [Next]_vars PROVE FeedKept'
  OBVIOUS
<1>a. /\ host \in Host /\ cmd \in Command /\ NoCommand.name = "none" /\ NoCommand.at = "idle"
      /\ filament \in Filament /\ store \in Store
      /\ (pending # NoRequest => pending \in Request)
  BY DEF Base, TypeOK, NoCommand
<1>b. ASSUME cmd' = NoCommand, pending' # NoRequest => FeedOf(pending)' PROVE FeedKept'
  BY <1>a, <1>b DEF FeedKept, InHand
<1>c. ASSUME UNCHANGED <<pending, filament, store>>, cmd'.name = cmd.name, cmd'.at = cmd.at,
             cmd'.target = cmd.target
      PROVE  FeedKept'
  BY <1>c DEF FeedKept, FeedOf, InHand, TargetReady, Loaded
<1>d. ASSUME UNCHANGED <<pending, filament, store>>
      PROVE  pending' # NoRequest => FeedOf(pending)'
  BY <1>d DEF FeedKept, FeedOf, TargetReady, Loaded
<1>e. \A t : Commit(t).feedPending = store.feedPending
  BY <1>a DEF Commit, Store
<1>1. CASE UNCHANGED vars
  BY <1>1, <1>c DEF vars
<1>2. CASE ChangeCommand \/ ResumeCheck
  <2>1. cmd'.name = "change" /\ cmd'.at = "decide" /\ UNCHANGED <<filament, store>>
    BY <1>2 DEF ChangeCommand, ResumeCheck, Begin, NoCommand
  <2>2. CASE pending' = pending
    BY <1>d, <2>1, <2>2 DEF FeedKept, InHand
  <2>3. CASE pending' = [FreshRequest(External, TRUE) EXCEPT
                              !.source = store.lastLoaded, !.printContext = TRUE,
                              !.resume = FALSE, !.lastStep = "attendance"]
    <3>1. pending'.flushDone = FALSE /\ pending'.kind = "normal"
      BY <2>3 DEF FreshRequest
    <3> QED BY <2>1, <3>1 DEF FeedKept, FeedOf, InHand
  <2> QED BY <1>2, <2>2, <2>3 DEF ChangeCommand, ResumeCheck
<1>3. CASE ReadFails /\ UNCHANGED pending
  <2>1. cmd' = NoCommand /\ UNCHANGED <<filament, store>>
    BY <1>3 DEF ReadFails, OperationFailed
  <2> QED BY <1>3, <1>b, <1>d, <2>1
<1>4. CASE DecideAborts \/ Attend \/ (ReadFails /\ pending # NoRequest /\ pending.target = cmd.target)
  <2>1. /\ cmd.name = "change" /\ cmd' = NoCommand
        /\ SameRequest(pending', Chosen) /\ Done(pending', Chosen)
        /\ pending'.runoutRecovery = Chosen.runoutRecovery
        /\ \/ pending'.lastStep = Chosen.lastStep
           \/ pending'.lastStep = "attendance" /\ Loaded # Chosen.target
        /\ UNCHANGED <<filament, store>>
    BY <1>4, GivesUpIs
  <2>2. FeedOf(Chosen)
    BY <2>1, ChosenFeed
  <2>3. FeedOf(pending)'
    BY <2>1, <2>2 DEF FeedOf, SameRequest, Done, TargetReady, Loaded
  <2> QED BY <1>b, <2>1, <2>3
<1>5. CASE NothingToDo \/ Execute \/ RetryRunout
  <2>1. /\ cmd.name = "change" /\ cmd.at = "decide" /\ cmd'.name = "change" /\ cmd'.target = cmd.target
        /\ SameRequest(pending', Chosen) /\ Done(pending', Chosen)
        /\ pending'.runoutRecovery = Chosen.runoutRecovery /\ pending'.lastStep = Chosen.lastStep
    BY <1>5, DecidesIs
  <2>2. /\ FeedOf(Chosen) /\ Chosen \in Request /\ Chosen.target = cmd.target
        /\ Chosen.kind = "runout" \/ Chosen.flushDone => Chosen = pending
    BY <2>1, ChosenFeed
  <2>3. SameFeed(pending', Chosen) /\ pending'.flush = Chosen.flush
    BY <2>1 DEF SameFeed, SameRequest, Done
  <2>4. UNCHANGED filament
    BY <1>5 DEF NothingToDo, Execute, RetryRunout
  <2>5. CASE NothingToDo
    <3>1. /\ cmd'.at = "finish" /\ store'.feedPending = store.feedPending
          /\ Chosen.kind = "normal" /\ AlreadyPrepared(Chosen)
      BY <2>5, <1>a, <1>e DEF NothingToDo, GoTo, Command
    <3>2. Chosen.flush => store.feedPending # Chosen.target
      BY <3>1 DEF AlreadyPrepared, NeedsPreparation
    <3>3. FeedOf(pending)'
      BY <2>2, <2>3, <2>4, <3>1, FeedStays
    <3> QED BY <2>1, <2>2, <2>3, <3>1, <3>2, <3>3 DEF FeedKept, SameFeed
  <2>6. CASE Execute
    <3>1. /\ cmd'.at = FirstPhase(Chosen) /\ Chosen.kind = "normal"
          /\ store' = store \/ (FirstPhase(Chosen) = "unload" /\ store' \in Remembered)
      BY <2>6, <1>a DEF Execute, GoTo, Command
    <3>2. FirstPhase(Chosen) \in {"unload", "load", "flush"}
          /\ (FirstPhase(Chosen) = "flush" => TargetReady(Chosen.target))
      BY DEF FirstPhase
    <3>3. Chosen.flushDone => FirstPhase(Chosen) = "flush"
      BY <2>2, FlushedPhase
    <3>4. FeedOf(pending)'
      <4>1. CASE Chosen.flushDone
        <5>1. store' = store
          BY <3>1, <3>3, <4>1
        <5> QED BY <2>2, <2>3, <2>4, <5>1, FeedStays
      <4>2. CASE ~Chosen.flushDone
        BY <2>3, <3>1, <4>2 DEF FeedOf, SameFeed
      <4> QED BY <4>1, <4>2
    <3>5. cmd'.at = "flush" => TargetReady(cmd.target)'
      BY <2>1, <2>2, <2>4, <3>1, <3>2 DEF TargetReady, Loaded
    <3> QED BY <2>1, <2>3, <3>1, <3>2, <3>3, <3>4, <3>5 DEF FeedKept, SameFeed
  <2>7. CASE RetryRunout
    <3>1. Chosen = pending /\ pending.kind = "runout" /\ store' = store
      BY <2>7 DEF RetryRunout
    <3>2. FeedOf(pending)'
      BY <2>2, <2>3, <2>4, <3>1, FeedStays
    <3>3. CASE ~pending.runoutRecovery \/ pending.lastStep = "restore"
      <4>1. PICK at \in {"finish", "end", "load", "flush", "unload"} : GoTo(at, pending)
        BY <2>7 DEF RetryRunout, RunoutWork, RunoutPhase, FirstPhase
      <4>2. at \in {"finish", "end"} /\ cmd'.at = at
        <5>1. cmd'.at \in {"finish", "end"}
          BY <2>7, <3>3, <1>a DEF RetryRunout, GoTo, Command
        <5>2. cmd'.at = at
          BY <1>a, <4>1 DEF GoTo, Command
        <5> QED BY <5>1, <5>2
      <4>3. pending.flushDone /\ store.feedPending # cmd.target
        BY <2>2, <3>1, <3>3 DEF FeedOf
      <4> QED BY <2>1, <2>3, <3>1, <3>2, <4>2, <4>3 DEF FeedKept, SameFeed
    <3>4. CASE pending.runoutRecovery /\ pending.lastStep # "restore"
      <4>1. cmd'.at = RunoutPhase(pending)
        BY <2>7, <3>4, <1>a DEF RetryRunout, RunoutWork, GoTo, Command
      <4>2. RunoutPhase(pending) \in {"unload", "load", "flush"}
            /\ (RunoutPhase(pending) = "flush" => TargetReady(pending.target))
        BY DEF RunoutPhase, FirstPhase
      <4>3. pending.flushDone => RunoutPhase(pending) = "flush"
        <5>1. pending \in Request /\ pending.target \in Slots
          BY <2>1, <3>1, ChosenFeed, NoneAssumption DEF Base, WorkKnown
        <5>2. CASE pending.flushDone
          <6>1. FirstPhase(pending) = "flush"
            BY <2>2, <3>1, <5>1, <5>2, FlushedPhase
          <6>2. Loaded = pending.target
            BY <2>2, <3>1, <5>2 DEF FeedOf, TargetReady
          <6> QED BY <5>1, <6>1, <6>2, SlotsAssumption DEF RunoutPhase
        <5> QED BY <5>2
      <4>4. cmd'.at = "flush" => TargetReady(cmd.target)'
        BY <2>1, <2>2, <2>4, <3>1, <4>1, <4>2 DEF TargetReady, Loaded
      <4> QED BY <2>1, <2>3, <3>1, <3>2, <4>1, <4>2, <4>3, <4>4 DEF FeedKept, SameFeed
    <3> QED BY <3>3, <3>4
  <2> QED BY <1>5, <2>5, <2>6, <2>7
<1>6. CASE Works
  <2>1. /\ InHand /\ InHand' /\ pending \in Request /\ pending' \in Request
        /\ SameRequest(pending', pending) /\ pending'.runoutRecovery = pending.runoutRecovery
        /\ cmd'.name = cmd.name /\ cmd'.target = cmd.target
    BY <1>6, WorksIs
  <2>2. /\ FeedOf(pending) /\ pending.target = cmd.target
        /\ pending.kind = "runout" => pending.flush /\ pending.target \in Slots
    BY <2>1, NoneAssumption DEF FeedKept, Base, WorkKnown
  <2>3. \A q \in {pending, Serviced(pending)} :
          q \in Request /\ q.flushDone = pending.flushDone /\ q.lastStep = pending.lastStep
    BY <2>1, ServicedIs DEF Done
  <2>4. cmd'.name # "unload" /\ pending'.flush = pending.flush /\ pending'.kind = pending.kind
        /\ pending'.target = cmd.target
    BY <2>1, <2>2 DEF FeedKept, SameRequest
  \* Before the flush nothing of it is done.
  <2>5. ASSUME ~pending.flushDone, pending'.flushDone = FALSE, pending'.lastStep # "restore"
        PROVE  FeedOf(pending)'
    BY <2>1, <2>2, <2>4, <2>5 DEF FeedOf
  <2>6. CASE Retract \/ Cut
    <3>1. cmd' = cmd /\ cmd.at = "unload" /\ ~Swapping
      BY <2>6 DEF Retract, Cut, Working
    <3>2. ~pending.flushDone
      BY <2>1, <3>1 DEF FeedKept
    <3>3. pending'.flushDone = FALSE
      <4>1. PICK q \in {pending, Serviced(pending)} : \E z, step :
              \/ pending' = [q EXCEPT !.retracted = z, !.source = z, !.lastStep = step]
              \/ pending' = [q EXCEPT !.cut = z, !.source = z, !.lastStep = step]
        BY <2>6 DEF Retract, Cut
      <4> QED BY <2>3, <3>2, <4>1 DEF Request
    <3>4. FeedOf(pending)'
      BY <2>4, <3>1, <3>3 DEF FeedOf, Swapping
    <3> QED BY <2>4, <3>1, <3>3, <3>4 DEF FeedKept
  <2>7. CASE Pull
    <3>1. cmd.at = "unload" /\ cmd'.at = "load"
      BY <2>7, <1>a DEF Pull, Working, Advance, Command
    <3>2. ~pending.flushDone
      BY <2>1, <3>1 DEF FeedKept
    <3>3. pending'.flushDone = FALSE /\ pending'.lastStep = UnloadStep
      <4>1. PICK q \in {pending, Serviced(pending)} : \E z :
              pending' = [q EXCEPT !.source = z, !.lastStep = UnloadStep]
        BY <2>7 DEF Pull
      <4> QED BY <2>3, <3>2, <4>1 DEF Request
    <3>4. FeedOf(pending)'
      BY <2>1, <2>2, <2>4, <3>2, <3>3 DEF FeedOf, UnloadStep
    <3> QED BY <2>4, <3>1, <3>3, <3>4 DEF FeedKept
  <2>8. CASE PhysicalLoad \/ LoadExternal
    <3>1. cmd.at = "load" /\ cmd'.at = "flush"
      BY <2>8, <1>a DEF PhysicalLoad, LoadExternal, Working, Advance, Command
    <3>2. ~pending.flushDone
      BY <2>1, <3>1 DEF FeedKept
    <3>3. pending'.flushDone = FALSE /\ pending'.lastStep = "load"
      <4>1. PICK q \in {pending, Serviced(pending)} : pending' = [q EXCEPT !.lastStep = "load"]
        BY <2>8 DEF PhysicalLoad, LoadExternal
      <4> QED BY <2>3, <3>2, <4>1 DEF Request
    <3>4. FeedOf(pending)'
      BY <2>5, <3>2, <3>3
    <3>5. TargetReady(cmd.target)'
      <4>1. CASE PhysicalLoad
        <5>1. cmd.target \in Slots /\ Loaded \in {NoSlot, cmd.target}
          BY <4>1 DEF PhysicalLoad
        <5>2. CASE filament.detected
          <6>1. Loaded = cmd.target
            BY <5>1, <5>2, SlotsAssumption DEF Loaded
          <6>2. Loaded' = Loaded /\ filament'.detected /\ filament'.tracking
            BY <1>a, <4>1, <5>2 DEF PhysicalLoad, Loaded, Filament
          <6> QED BY <2>1, <6>1, <6>2 DEF TargetReady
        <5>3. CASE ~filament.detected
          <6>1. filament' = Fed(cmd.target)
            BY <4>1, <5>3 DEF PhysicalLoad
          <6> QED BY <2>1, <5>1, <6>1, SlotsAssumption DEF TargetReady, Loaded, Fed
        <5> QED BY <5>2, <5>3
      <4>2. CASE LoadExternal
        <5>1. cmd.target = External /\ Loaded = External
          BY <4>2 DEF LoadExternal
        <5>2. filament.detected
          BY <1>a, <5>1, SlotsAssumption DEF Loaded, Filament
        <5>3. Loaded' = Loaded /\ filament'.detected = filament.detected
          BY <1>a, <4>2 DEF LoadExternal, Loaded, Filament
        <5> QED BY <2>1, <5>1, <5>2, <5>3, SlotsAssumption DEF TargetReady
      <4> QED BY <2>8, <4>1, <4>2
    <3> QED BY <2>4, <3>1, <3>4, <3>5 DEF FeedKept
  <2>9. CASE Flush
    <3>1. /\ cmd.at = "flush" /\ cmd'.at \in {"final", "finish"}
      BY <2>9, <1>a DEF Flush, Working, Advance, Command
    <3>2. TargetReady(pending.target)'
      <4>1. TargetReady(cmd.target)
        BY <3>1 DEF FeedKept
      <4>2. Loaded' = Loaded /\ filament'.detected = filament.detected /\ filament'.tracking = filament.tracking
        BY <2>9, <1>a DEF Flush, Loaded, Filament
      <4> QED BY <2>4, <4>1, <4>2 DEF TargetReady
    <3>3. pending'.flushDone /\ pending'.lastStep \in {"restore", "final", "flush"}
      <4>1. PICK q \in {pending, Serviced(pending)}, step \in {"restore", "final", "flush"} :
              pending' = [q EXCEPT !.flushDone = TRUE, !.lastStep = step]
        BY <2>9 DEF Flush
      <4> QED BY <2>3, <4>1 DEF Request
    <3>4. store'.feedPending # cmd.target
      <4>1. store'.feedPending = IF Extrudes THEN NoSlot ELSE store.feedPending
        <5>1. Commit(cmd.target).feedPending = store.feedPending
          BY <1>e
        <5>2. DOMAIN Commit(cmd.target) = DOMAIN store
          BY DEF Commit
        <5>3. "feedPending" \in DOMAIN store
          BY <1>a DEF Store
        <5> DEFINE c == Commit(cmd.target)
        <5>4. \E u : store' = [c EXCEPT !.feedPending = IF Extrudes THEN NoSlot ELSE c.feedPending,
                                        !.primed = u]
          BY <2>9 DEF Flush
        <5> HIDE DEF c
        <5> QED BY <5>1, <5>2, <5>3, <5>4 DEF c
      <4>2. ~Extrudes => store.feedPending # cmd.target
        BY DEF Extrudes
      <4>3. cmd.target # NoSlot
        BY <2>1, <2>2, SlotsAssumption DEF Request, Targets
      <4> QED BY <4>1, <4>2, <4>3
    <3>5. FeedOf(pending)'
      BY <2>4, <3>2, <3>3, <3>4 DEF FeedOf
    <3> QED BY <2>1, <2>4, <3>1, <3>3, <3>4, <3>5 DEF FeedKept
  <2>10. CASE NoFlush
    <3>1. /\ cmd.at = "flush" /\ cmd'.at \in {"final", "finish"} /\ (~pending.flush \/ pending.flushDone)
          /\ UNCHANGED filament
          /\ pending' = pending \/ (Swapping /\ pending' = [pending EXCEPT !.lastStep = "restore"])
      BY <2>10, <1>a DEF NoFlush, Working, Advance, Command
    <3>2. store'.feedPending = store.feedPending
      BY <2>10, <1>e DEF NoFlush
    <3>3. pending.kind = "runout" => pending.flushDone
      BY <2>2, <3>1
    <3>4. /\ pending'.flushDone = pending.flushDone
          /\ pending'.lastStep = pending.lastStep \/ (Swapping /\ pending'.lastStep = "restore")
      BY <2>1, <3>1 DEF Request
    <3>5. FeedOf(pending)'
      BY <2>2, <2>4, <3>1, <3>2, <3>3, <3>4 DEF FeedOf, TargetReady, Loaded, Swapping
    <3>6. pending.flush => store.feedPending # cmd.target
      BY <2>2, <3>1 DEF FeedOf
    <3> QED BY <2>1, <2>4, <3>1, <3>2, <3>3, <3>4, <3>5, <3>6 DEF FeedKept
  <2>11. CASE FinalTemperature
    <3>1. /\ cmd.at = "final" /\ cmd'.at = "finish" /\ UNCHANGED <<filament, store>>
          /\ pending' \in {pending, Serviced(pending)}
      BY <2>11, <1>a DEF FinalTemperature, Working, Advance, Command
    <3>2. SameFeed(pending', pending)
      BY <2>1, <2>3, <2>4, <3>1 DEF SameFeed, SameRequest
    <3>3. FeedOf(pending)'
      BY <2>2, <3>1, <3>2, FeedStays
    <3> QED BY <2>1, <2>4, <3>1, <3>2, <3>3 DEF FeedKept, SameFeed
  <2> QED BY <1>6, <2>6, <2>7, <2>8, <2>9, <2>10, <2>11 DEF Works
<1>7. CASE Finish
  <2>1. InHand /\ pending \in Request /\ pending # NoRequest /\ cmd.at = "finish"
    BY <1>7, <1>a DEF Finish, InHand, Base, LockInv, CommandKnown, WorkKnown
  <2>2. /\ \E step \in {"moving", "restore", pending.lastStep} :
             pending' = [pending EXCEPT !.runoutRecovery = FALSE, !.lastStep = step]
        /\ cmd' = [cmd EXCEPT !.at = "end", !.prepared = FALSE, !.sensorBefore = TRUE]
        /\ UNCHANGED <<filament, store>>
    BY <1>7 DEF Finish, Advance
  <2>3. /\ pending'.target = pending.target /\ pending'.kind = pending.kind
        /\ pending'.flushDone = pending.flushDone /\ pending'.flush = pending.flush
        /\ pending'.lastStep \in {"moving", "restore", pending.lastStep}
    BY <2>1, <2>2 DEF Request
  <2>4. FeedOf(pending) /\ (pending.kind = "runout" => pending.flushDone)
        /\ (pending.flush => store.feedPending # cmd.target) /\ cmd.name # "unload"
    BY <2>1 DEF FeedKept
  <2>5. FeedOf(pending)'
    BY <2>2, <2>3, <2>4 DEF FeedOf, TargetReady, Loaded
  <2>6. cmd'.at = "end" /\ cmd'.name = cmd.name /\ cmd'.target = cmd.target
    BY <1>a, <2>2 DEF Command
  <2> QED BY <2>2, <2>3, <2>4, <2>5, <2>6 DEF FeedKept
<1>8. CASE Succeed \/ PrintStarts \/ PrintEnds
  BY <1>8, <1>b DEF Succeed, PrintStarts, PrintEnds, ResetRecovery, Free
<1>9. CASE StepFails
  <2>1. /\ InHand /\ pending \in Request /\ cmd' = NoCommand /\ pending # NoRequest
        /\ SameRequest(pending', pending) /\ Done(pending', pending)
        /\ pending'.runoutRecovery = pending.runoutRecovery /\ pending'.lastStep \in StepsAfter
    BY <1>9, StepFailsIs, NoneAssumption
  <2>2. cmd.at \in {"unload", "load", "flush", "final", "finish", "end"} /\ filament' \in Residue
        /\ store'.feedPending = store.feedPending
    BY <1>9, <1>e DEF StepFails
  <2>3. FeedOf(pending) /\ pending.target = cmd.target
    BY <2>1 DEF FeedKept, Base, WorkKnown
  <2>4. /\ pending'.target = pending.target /\ pending'.kind = pending.kind
        /\ pending'.flushDone = pending.flushDone
    BY <2>1 DEF SameRequest, Done
  <2>5. FeedOf(pending)'
    <3>1. CASE cmd.at \in {"unload", "load"}
      <4>1. ~pending.flushDone
        BY <2>1, <3>1 DEF FeedKept
      <4>2. pending.kind = "runout" => pending.lastStep # "restore" /\ pending.runoutRecovery
        BY <2>3, <4>1 DEF FeedOf
      <4>3. pending'.lastStep \in {pending.lastStep, "moving", "load"}
        BY <2>1, <3>1 DEF StepsAfter, UnloadStep
      <4> QED BY <2>1, <2>4, <4>1, <4>2, <4>3 DEF FeedOf
    <3>2. CASE cmd.at \notin {"unload", "load"}
      <4>1. filament' \in {filament, [filament EXCEPT !.tip = "hotend"]}
        BY <2>2, <3>2 DEF Residue
      <4>2. Loaded' = Loaded /\ filament'.detected = filament.detected /\ filament'.tracking = filament.tracking
        BY <1>a, <4>1 DEF Loaded, Filament
      <4>3. pending'.lastStep \in {pending.lastStep, "flush", "final", "moving", "restore"}
        BY <2>1, <3>2 DEF StepsAfter
      <4>4. pending'.lastStep = "restore" => pending.lastStep = "restore" \/ cmd.at = "finish"
        BY <2>1, <2>2, <3>2 DEF StepsAfter
      <4>5. cmd.at = "finish" /\ pending.kind = "runout" => pending.flushDone
        BY DEF FeedKept
      <4> QED BY <2>1, <2>2, <2>3, <2>4, <4>2, <4>3, <4>4, <4>5 DEF FeedOf, TargetReady
    <3> QED BY <3>1, <3>2
  <2> QED BY <1>b, <2>1, <2>5
<1>10. CASE RunoutSwap
  <2>1. PICK t \in Slots : /\ pending' = Serviced(RunoutRequest(t))
                           /\ \E path, u : cmd' = [NoCommand EXCEPT !.name = "runout", !.target = t,
                                !.at = IF path = NoSlot THEN "load" ELSE "unload", !.sensorBefore = u]
    BY <1>10 DEF RunoutSwap
  <2> DEFINE r == RunoutRequest(t)
  <2>2. r \in Request /\ r.flushDone = FALSE /\ r.runoutRecovery /\ r.lastStep = "none"
    BY <1>10, <1>a DEF RunoutSwap, RunoutRequest, Request, Targets, Places, LastSteps
  <2>3. pending' = Serviced(r)
    BY <2>1
  <2> HIDE DEF r
  <2>4. pending'.flushDone = FALSE /\ pending'.runoutRecovery /\ pending'.lastStep = "none"
    BY <1>a, <2>2, <2>3, CapturedIs DEF Done
  <2>5. cmd'.name = "runout" /\ cmd'.at \in {"load", "unload"}
    BY <2>1 DEF NoCommand
  <2> QED BY <2>4, <2>5 DEF FeedKept, FeedOf
<1>11. CASE RunoutPause
  <2>1. /\ cmd = NoCommand /\ Printing /\ ~host.pauseSent /\ pending' = pending /\ cmd' = NoCommand
    BY <1>11 DEF RunoutPause, Accepts, Free, PauseRunout
  <2>2. pending = NoRequest
    BY <1>a, <2>1 DEF PauseKept, InHand, PrintOn, Printing
  <2> QED BY <1>b, <2>1, <2>2
<1>12. ~UnloadCommand /\ ~UnloadDone /\ ~UnloadFails /\ ~LoadCommand
  BY DEF UnloadCommand, UnloadDone, UnloadFails, LoadCommand, FeedKept
<1>13. CASE FaultLatched \/ ClogDetected \/ UserPause \/ Pause \/ Resume
  BY <1>13, <1>a, <1>c DEF FaultLatched, ClogDetected, UserPause, Pause, Resume, Command
<1>14. CASE InsertExternal
  <2>1. UNCHANGED <<pending, cmd, store>> /\ Loaded = NoSlot /\ cmd.at # "flush"
    BY <1>14, <1>a DEF InsertExternal, Free
  <2>2. pending # NoRequest => FeedOf(pending)'
    <3>1. CASE pending # NoRequest
      <4>1. pending.target # NoSlot /\ FeedOf(pending)
        BY <1>a, <3>1, SlotsAssumption DEF FeedKept, Request, Targets
      <4>2. ~pending.flushDone
        BY <2>1, <4>1 DEF FeedOf, TargetReady
      <4> QED BY <2>1, <4>1, <4>2 DEF FeedOf
    <3> QED BY <3>1
  <2> QED BY <2>1, <2>2 DEF FeedKept, InHand
<1>15. ReadFails => UNCHANGED pending \/ (pending # NoRequest /\ pending.target = cmd.target)
  BY DEF ReadFails
<1> QED
  BY <1>1, <1>2, <1>3, <1>4, <1>5, <1>6, <1>7, <1>8, <1>9, <1>10, <1>11, <1>12, <1>13, <1>14, <1>15
  DEF Next, Decide, Work, Works, ManualCommands, Events

\* A change with flush does not succeed while its target still has to be fed to
\* the hotend, whichever attempt loaded it and whatever failed in between
\* (_prepare_filament, _already_prepared), if filament is changed by T commands
\* alone: a BOX_UNLOAD after the flush makes the retry load without flushing.
THEOREM NoFeedForgotten ==
  ASSUME ResumeChecked, Manual = {}
  PROVE  Spec => []FeedNotForgotten
<1>1. Init => PauseKept /\ FeedKept
  BY DEF Init, PauseKept, FeedKept, Paused, PrintOn, NoCommand, InHand
<1>2. FeedKept => FeedNotForgotten
  BY DEF FeedKept, FeedNotForgotten
<1> QED BY <1>1, <1>2, BaseInit, BaseStep, PauseStep, FeedStep, PTL DEF Spec
=============================================================================
