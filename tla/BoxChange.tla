----------------------------- MODULE BoxChange -----------------------------
(***************************************************************************)
(* The tool-change engine (files/box_change.py): T commands, BOX_UNLOAD,   *)
(* the runout swap and the retry of a failed change, with the checkpoints  *)
(* that a ChangeRequest keeps between attempts, the lock on RESUME, and    *)
(* the PAUSE and RESUME macros the engine works with.                      *)
(*                                                                         *)
(* G-code commands run one at a time, under klippy's G-code mutex: cmd is  *)
(* the one that runs and how far it is.  Between any two of its steps the  *)
(* poll greenlet may latch a fault or a clog and the user may request a    *)
(* pause; every step that drives hardware may fail.  Temperatures, purge   *)
(* lengths, fans and the cleaning of the nozzle are left out, as are the   *)
(* commands for power-loss recovery.  Z is homed.                          *)
(***************************************************************************)
CONSTANTS Slots,         \* physical slots of the boxes that are online
          External,      \* the external spool's slot
          NoSlot, NoRequest, NoRecovery,
          CutterReady,   \* the cutter is calibrated
          Commanded,     \* the targets of the T commands that are given
          Flushes,       \* the FLUSH parameters they are given with
          Manual,        \* the commands used between changes, of "BOX_LOAD", "BOX_UNLOAD"
          ResumeChecked  \* the user runs RESUME only if nothing is reported as blocked

ASSUME SlotsAssumption ==
  /\ External \notin Slots
  /\ NoSlot \notin Slots \union {External}
  /\ Commanded \subseteq Slots \union {External} /\ Flushes \subseteq BOOLEAN
  /\ CutterReady \in BOOLEAN /\ ResumeChecked \in BOOLEAN
  /\ Manual \subseteq {"BOX_LOAD", "BOX_UNLOAD"}

VARIABLES pending,   \* the engine's ChangeRequest, or NoRequest
          recovery,  \* the engine's resume_recovery, or NoRecovery
          cmd,       \* the running command
          filament,  \* what is at the printhead and which box feeds it
          store,     \* the persisted runtime state the engine decides on
          sensorOn,  \* the printhead filament sensor is enabled
          host       \* print, pause, and where the toolhead is

vars == <<pending, recovery, cmd, filament, store, sensorOn, host>>

Targets == Slots \union {External}
Places == {"print", "away"}  \* where the part was left; the wastebin or the cutter

\* "moving" stands for the steps that no decision distinguishes.
LastSteps == {"none", "attendance", "load", "flush", "final", "restore", "moving"}

\* inherited is a history field: the request took over another's checkpoints.
Request ==
  [target : Targets, source : Targets \union {NoSlot}, kind : {"normal", "runout"},
   retracted : Targets \union {NoSlot}, cut : Targets \union {NoSlot},
   flush : BOOLEAN, flushDone : BOOLEAN, printContext : BOOLEAN, resume : BOOLEAN,
   runoutRecovery : BOOLEAN, origin : Places \union {"none"}, serviceZ : BOOLEAN,
   rebase : BOOLEAN, lastStep : LastSteps, inherited : BOOLEAN]

Recovery == [target : Targets \union {NoSlot}, automatic : BOOLEAN]

\* tip: the end of the filament.  It is at the extruder's "gears", in the
\* "hotend", "retracted" or "cut" by the requests since pending was last empty,
\* or "loose": moved in some other way.
Tips == {"none", "gears", "hotend", "retracted", "cut", "loose"}

\* fault: fault_generation is no longer the one the command read at its start.
Command ==
  [name : {"none", "change", "runout", "unload"},
   at : {"idle", "decide", "unload", "load", "flush", "final", "finish", "end"},
   target : Targets \union {NoSlot}, flush : BOOLEAN, within : BOOLEAN,
   fault : BOOLEAN, prepared : BOOLEAN, sensorBefore : BOOLEAN]

Filament ==
  [path : Slots \union {NoSlot}, detected : BOOLEAN, tip : Tips, tracking : BOOLEAN]

Store ==
  [lastLoaded : Targets \union {NoSlot}, feedPending : Targets \union {NoSlot},
   primed : BOOLEAN]

Host ==
  [print : {"idle", "printing", "paused"}, pauseSent : BOOLEAN, userPause : BOOLEAN,
   head : Places, pauseAt : Places]

\* A request and a recovery are not None.
ASSUME NoneAssumption == NoRequest \notin Request /\ NoRecovery \notin Recovery

TypeOK ==
  /\ pending \in Request \union {NoRequest}
  /\ recovery \in Recovery \union {NoRecovery}
  /\ cmd \in Command
  /\ filament \in Filament /\ store \in Store /\ host \in Host
  /\ sensorOn \in BOOLEAN

NoCommand ==
  [name |-> "none", at |-> "idle", target |-> NoSlot, flush |-> FALSE, within |-> FALSE,
   fault |-> FALSE, prepared |-> FALSE, sensorBefore |-> TRUE]

Empty == [path |-> NoSlot, detected |-> FALSE, tip |-> "none", tracking |-> FALSE]
Fed(t) == [path |-> t, detected |-> TRUE, tip |-> "gears", tracking |-> TRUE]

Init ==
  /\ pending = NoRequest /\ recovery = NoRecovery /\ cmd = NoCommand
  /\ filament \in {Empty} \union {[Fed(t) EXCEPT !.tip = "hotend"] : t \in Slots}
  /\ store = [lastLoaded |-> filament.path, feedPending |-> NoSlot, primed |-> FALSE]
  /\ sensorOn = TRUE
  /\ host = [print |-> "idle", pauseSent |-> FALSE, userPause |-> FALSE,
             head |-> "away", pauseAt |-> "away"]

-----------------------------------------------------------------------------
(***************************************************************************)
(* What the engine reads.                                                  *)
(***************************************************************************)
\* A detected filament that no box feeds is the external one.
Loaded == IF filament.path = NoSlot /\ filament.detected THEN External ELSE filament.path

TargetReady(t) == Loaded = t /\ filament.detected /\ (t \in Slots => filament.tracking)

Printing == host.print = "printing"
Paused == host.print = "paused"

Abort == cmd.fault \/ (host.pauseSent /\ ~Paused)

\* Faulty variant: RESUME is blocked for the cause at hand, not for the request.
BlockedByCause(p, target, automatic) ==
  [target |-> target, automatic |-> automatic = "yes"]

\* automatic is "yes", "no" or "unset".
Blocked(p, target, automatic) ==
  IF p # NoRequest /\ p.printContext
  THEN [target |-> p.target, automatic |-> automatic # "no"]
  ELSE [target |-> target, automatic |-> automatic = "yes"]

PausePrint(h) == [h EXCEPT !.pauseSent = @ \/ Printing]

PausedNow(h) == [h EXCEPT !.print = "paused", !.pauseSent = TRUE,
                          !.pauseAt = h.head, !.head = "away"]

\* Faulty variant: every attempt captures the position anew.
CapturedEachTime(r) ==
  IF r.printContext THEN [r EXCEPT !.origin = host.head, !.rebase = ~Paused] ELSE r

Captured(r) ==
  IF r.printContext /\ r.origin = "none"
  THEN [r EXCEPT !.origin = host.head, !.rebase = ~Paused]
  ELSE r

Serviced(r) == [Captured(r) EXCEPT !.serviceZ = TRUE]

\* Whether _return_from_service moves.
Returns(r) == r.origin # "none" /\ r.serviceZ

Commit(t) == [store EXCEPT !.lastLoaded = t]

Away == [host EXCEPT !.head = "away"]

-----------------------------------------------------------------------------
(***************************************************************************)
(* Failure.  An exception ends the command: the filament is where the      *)
(* failing step left it, a change keeps its request and blocks RESUME, a   *)
(* runout pauses at once.                                                  *)
(***************************************************************************)
NeedsRetract(r) == filament.detected /\ r.retracted # Loaded
NeedsCut(r) == filament.detected /\ r.cut # Loaded

\* What a load that does not finish may leave.
PartLoaded(t) ==
  {filament} \union
  (IF t \in Slots /\ Loaded \in {NoSlot, t}
   THEN {[filament EXCEPT !.path = t, !.tracking = FALSE]}
        \union (IF filament.detected THEN {[filament EXCEPT !.tracking = TRUE]}
                ELSE {Fed(t), [Fed(t) EXCEPT !.tracking = FALSE]})
   ELSE {})

\* Retracting that does not finish, or a cut that was not noted.
PartRetracted ==
  {filament} \union
  (IF filament.detected THEN {[filament EXCEPT !.tip = "loose", !.tracking = FALSE]} ELSE {})

\* A pull that does not finish; it may fail when all is done but verified.
PartPulled ==
  {filament, Empty} \union
  (IF filament.path \in Slots
   THEN {[Empty EXCEPT !.path = filament.path], [filament EXCEPT !.tracking = FALSE]}
   ELSE {})

Preparing(r) == r.kind = "normal" /\ (NeedsRetract(r) \/ NeedsCut(r))

Residue ==
  CASE cmd.at = "load" -> PartLoaded(cmd.target)
    [] cmd.at = "unload" /\ Preparing(pending) -> PartRetracted
    [] cmd.at = "unload" /\ ~Preparing(pending) -> PartRetracted \union PartPulled
    [] cmd.at = "flush" /\ filament.detected -> {filament, [filament EXCEPT !.tip = "hotend"]}
    [] OTHER -> {filament}

\* The unload of the external spool does not note its steps.
UnloadStep == IF filament.path \in Slots THEN "moving" ELSE pending.lastStep

\* What a phase leaves as last_step; it may fail before it notes its own.
StepsAfter ==
  CASE cmd.at = "finish" ->
         {IF pending.runoutRecovery THEN "restore" ELSE pending.lastStep}
         \union (IF Returns(pending) THEN {"moving"} ELSE {})
    [] cmd.at = "unload" -> {pending.lastStep, UnloadStep}
    [] cmd.at \in {"load", "flush", "final"} -> {pending.lastStep, cmd.at}
    [] OTHER -> {pending.lastStep}

\* The phases that leave the part, at some point.
Leaves(at) ==
  \/ at = "unload" /\ pending.kind = "normal" /\ filament.detected
  \/ at = "load" /\ (pending.flush \/ cmd.target = External)
  \/ at \in {"flush", "final"}

\* Faulty variant: the checkpoints are set though the step failed.
RequestAfterEager(left) ==
  {[(IF left THEN Serviced(pending) ELSE pending) EXCEPT
      !.lastStep = step,
      !.retracted = IF cmd.at = "unload" THEN Loaded ELSE @,
      !.cut = IF cmd.at = "unload" THEN Loaded ELSE @] : step \in StepsAfter}

\* The request as a failing step may leave it, with the part left or not.
RequestAfter(left) ==
  {[(IF left THEN Serviced(pending) ELSE pending) EXCEPT !.lastStep = step] :
     step \in StepsAfter}

HeadAfter(left) ==
  IF left THEN {"away"}
  ELSE {host.head} \union (IF cmd.at = "finish" /\ Returns(pending) THEN {pending.origin} ELSE {})

\* Faulty variant: only an unload that succeeds enables the sensor again.
SensorNotRestored == UNCHANGED sensorOn

RestoreSensor == sensorOn' = IF cmd.at = "unload" THEN cmd.sensorBefore ELSE sensorOn

\* Faulty variant: an abort does not revoke the change's own RESUME.
OperationFailedResumes(r, h) ==
  /\ pending' = r
  /\ IF r.printContext
     THEN recovery' = Blocked(r, NoSlot, "unset") /\ host' = PausePrint(h)
     ELSE recovery' = recovery /\ host' = h
  /\ cmd' = NoCommand

\* h is the host at the time of the failure.
OperationFailed(r, h) ==
  LET q == [r EXCEPT !.resume = @ /\ ~Abort] IN
  /\ pending' = q
  /\ IF q.printContext
     THEN recovery' = Blocked(q, NoSlot, "unset") /\ host' = PausePrint(h)
     ELSE recovery' = recovery /\ host' = h
  /\ cmd' = NoCommand

PauseRunout(p, h) ==
  /\ \E target \in IF p # NoRequest THEN {p.target} ELSE {filament.path, store.lastLoaded} :
       recovery' = Blocked(p, target, IF target \in Targets THEN "yes" ELSE "no")
  /\ host' = PausedNow(h)
  /\ cmd' = NoCommand

RunoutFailed(r, h) ==
  LET q == [r EXCEPT !.resume = ~Abort] IN pending' = q /\ PauseRunout(q, h)

StepFails ==
  /\ cmd.at \in {"unload", "load", "flush", "final", "finish", "end"}
  /\ cmd.at = "end" => Abort
  /\ cmd.name \in {"change", "runout"}
  /\ filament' \in Residue
  /\ RestoreSensor
  /\ \E left \in {FALSE, Leaves(cmd.at)} :
     \E r \in RequestAfter(left), head \in HeadAfter(left) :
       LET h == [host EXCEPT !.head = head] IN
       /\ filament' # filament =>
            r.lastStep = IF cmd.at = "unload" THEN UnloadStep ELSE cmd.at
       /\ IF cmd.name = "change" THEN OperationFailed(r, h) ELSE RunoutFailed(r, h)
  /\ store' \in IF cmd.at = "flush" THEN {store, Commit(cmd.target)} ELSE {store}

-----------------------------------------------------------------------------
(***************************************************************************)
(* T commands, and the retry by _BOX_RESUME_CHECK RETRY=1.                 *)
(***************************************************************************)
Free == cmd = NoCommand

\* While it prints, commands come from the print file, of which no line is
\* started once a pause has been sent; none is typed meanwhile.
Accepts == Free /\ (Printing => ~host.pauseSent)

Begin(name, target, flush, within) ==
  cmd' = [NoCommand EXCEPT !.name = name, !.at = "decide", !.target = target,
                           !.flush = flush, !.within = within]

ChangeCommand ==
  /\ Accepts
  /\ \E t \in Commanded, flush \in Flushes : Begin("change", t, flush, FALSE)
  /\ UNCHANGED <<pending, recovery, filament, store, sensorOn, host>>

Inheritable(p, t) ==
  p # NoRequest /\ p.target # t /\ (p.runoutRecovery \/ p.origin # "none" \/ p.serviceZ)

FreshRequest(t, flush) ==
  [target |-> t, source |-> IF Loaded = NoSlot THEN store.lastLoaded ELSE Loaded,
   kind |-> "normal", retracted |-> NoSlot, cut |-> NoSlot, flush |-> flush,
   flushDone |-> FALSE, printContext |-> host.print # "idle", resume |-> Printing,
   runoutRecovery |-> FALSE, origin |-> "none", serviceZ |-> FALSE, rebase |-> FALSE,
   lastStep |-> "none", inherited |-> FALSE]

\* Faulty variants: the new request drops the checkpoints, or keeps the flush.
NewRequestRepeats(t, flush) ==
  IF Inheritable(pending, t)
  THEN [pending EXCEPT !.target = t, !.kind = "normal", !.flush = flush,
                       !.retracted = NoSlot, !.cut = NoSlot,
                       !.flushDone = FALSE, !.lastStep = "none", !.inherited = TRUE]
  ELSE FreshRequest(t, flush)

NewRequestFlushed(t, flush) ==
  IF Inheritable(pending, t)
  THEN [pending EXCEPT !.target = t, !.kind = "normal", !.flush = flush,
                       !.lastStep = "none", !.inherited = TRUE]
  ELSE FreshRequest(t, flush)

NewRequest(t, flush) ==
  IF Inheritable(pending, t)
  THEN [pending EXCEPT !.target = t, !.kind = "normal", !.flush = flush,
                       !.flushDone = FALSE, !.lastStep = "none", !.inherited = TRUE]
  ELSE FreshRequest(t, flush)

\* The request this command works on.
Chosen ==
  IF pending # NoRequest /\ pending.target = cmd.target
  THEN pending ELSE NewRequest(cmd.target, cmd.flush)

\* Faulty variant: retries whatever blocked RESUME.
RetryableAlways == recovery # NoRecovery

Retryable == recovery # NoRecovery /\ recovery.automatic /\ recovery.target # NoSlot

ResumeCheck ==
  /\ Free /\ Paused /\ Retryable
  /\ pending' = IF pending = NoRequest /\ recovery.target = External
                THEN [FreshRequest(External, TRUE) EXCEPT
                        !.source = store.lastLoaded, !.printContext = TRUE,
                        !.resume = FALSE, !.lastStep = "attendance"]
                ELSE pending
  /\ Begin("change", recovery.target,
           (pending # NoRequest /\ pending.target = recovery.target) => pending.flush, TRUE)
  /\ UNCHANGED <<recovery, filament, store, sensorOn, host>>

\* read_live_state raises before there is a request to blame.
ReadFails ==
  /\ cmd.at = "decide" /\ cmd.name = "change"
  /\ IF pending # NoRequest /\ pending.target = cmd.target
     THEN OperationFailed(pending, host)
     ELSE cmd' = NoCommand /\ UNCHANGED <<pending, recovery, host>>
  /\ UNCHANGED <<filament, store, sensorOn>>

DecideAborts ==
  /\ cmd.at = "decide" /\ cmd.name = "change" /\ Abort
  /\ OperationFailed(Chosen, host)
  /\ UNCHANGED <<filament, store, sensorOn>>

Deciding == cmd.at = "decide" /\ cmd.name = "change" /\ ~Abort

Unattended(t) == t = External /\ Loaded # t /\ Printing

\* The external spool needs somebody to insert it: pause and block.
Attend ==
  /\ Deciding /\ Unattended(cmd.target)
  /\ LET r == [Captured(Chosen) EXCEPT !.lastStep = "attendance"] IN
     pending' = r /\ recovery' = Blocked(r, NoSlot, "unset")
  /\ host' = PausePrint(host)
  /\ cmd' = NoCommand
  /\ UNCHANGED <<filament, store, sensorOn>>

-----------------------------------------------------------------------------
(***************************************************************************)
(* Which work a request needs.                                             *)
(***************************************************************************)
ExternalCapture(r) ==
  /\ r.target = External /\ TargetReady(External)
  /\ r.lastStep \in {"attendance", "load"}
  /\ store.feedPending # External

NeedsPreparation(r) ==
  /\ r.flush
  /\ \/ r.runoutRecovery /\ ~r.flushDone
     \/ store.feedPending = r.target
     \/ host.print # "idle" /\ ~store.primed

AlreadyPrepared(r) ==
  /\ TargetReady(r.target) /\ ~ExternalCapture(r) /\ ~NeedsPreparation(r)
  /\ r.lastStep \notin {"flush", "final"}

\* The first phase of the hardware work.
FirstPhase(r) ==
  CASE Loaded = r.target ->
         IF TargetReady(r.target) /\ ~ExternalCapture(r) THEN "flush" ELSE "load"
    [] Loaded = NoSlot -> "load"
    [] OTHER -> "unload"

Unloading(at) == IF at = "unload" THEN FALSE ELSE sensorOn

\* prepared and sensorBefore are locals of the unload.
GoTo(at, r) ==
  cmd' = [cmd EXCEPT !.at = at, !.flush = FALSE,
                     !.sensorBefore = at = "unload" => sensorOn,
                     !.prepared = at = "unload" /\ r.retracted = Loaded /\ r.cut = Loaded]

\* Noting what is in the hotend before an unload may drop another slot's mark.
Remembered ==
  {store} \union
  (IF store.feedPending # Loaded THEN {[store EXCEPT !.feedPending = NoSlot]} ELSE {})

NothingToDo ==
  /\ Deciding /\ ~Unattended(cmd.target)
  /\ Chosen.kind = "normal" /\ AlreadyPrepared(Chosen)
  /\ pending' = Chosen
  /\ GoTo("finish", Chosen)
  /\ store' = Commit(cmd.target)
  /\ UNCHANGED <<recovery, filament, sensorOn, host>>

Execute ==
  /\ Deciding /\ ~Unattended(cmd.target)
  /\ Chosen.kind = "normal" /\ ~AlreadyPrepared(Chosen)
  /\ pending' = Captured(Chosen)
  /\ GoTo(FirstPhase(Chosen), Chosen)
  /\ sensorOn' = Unloading(FirstPhase(Chosen))
  /\ store' \in IF FirstPhase(Chosen) = "unload" THEN Remembered ELSE {store}
  /\ UNCHANGED <<recovery, filament, host>>

\* External filament makes the swap raise before it moves anything; here the
\* load phase, which cannot proceed either, does.
RunoutPhase(r) == IF Loaded = External THEN "load" ELSE FirstPhase(r)

RunoutWork(r, at) ==
  /\ pending' = Serviced(r)
  /\ GoTo(at, r)
  /\ sensorOn' = Unloading(at)

\* Reissuing the target of a runout swap goes on with the swap.
RetryRunout ==
  /\ Deciding /\ ~Unattended(cmd.target)
  /\ Chosen = pending /\ pending.kind = "runout"
  /\ \/ ~pending.runoutRecovery /\ GoTo("end", pending)
        /\ UNCHANGED <<pending, sensorOn, host>>
     \/ pending.runoutRecovery /\ pending.lastStep = "restore" /\ GoTo("finish", pending)
        /\ UNCHANGED <<pending, sensorOn, host>>
     \/ pending.runoutRecovery /\ pending.lastStep # "restore"
        /\ RunoutWork(pending, RunoutPhase(pending)) /\ host' = Away
  /\ UNCHANGED <<recovery, filament, store>>

-----------------------------------------------------------------------------
(***************************************************************************)
(* The hardware work of a change, shared by a runout swap: unload what is  *)
(* there, load the target, prepare it, return.                             *)
(***************************************************************************)
Working(at) == cmd.at = at /\ cmd.name \in {"change", "runout"} /\ ~Abort

Advance(at) == cmd' = [cmd EXCEPT !.at = at, !.prepared = FALSE, !.sensorBefore = TRUE]

Swapping == pending.kind = "runout"

\* Before the source is pulled it is retracted and cut, each once.
Retract ==
  /\ Working("unload") /\ ~Swapping /\ NeedsRetract(pending)
  /\ filament' = [filament EXCEPT !.tip = "retracted", !.tracking = FALSE]
  /\ pending' = [Serviced(pending) EXCEPT !.retracted = Loaded, !.source = Loaded,
                                          !.lastStep = UnloadStep]
  /\ host' = Away
  /\ UNCHANGED <<recovery, cmd, store, sensorOn>>

\* Without a calibrated cutter the checkpoint is set all the same.
Cut ==
  /\ Working("unload") /\ ~Swapping /\ ~NeedsRetract(pending) /\ NeedsCut(pending)
  /\ filament' = IF CutterReady THEN [filament EXCEPT !.tip = "cut"] ELSE filament
  /\ pending' = [(IF CutterReady THEN Serviced(pending) ELSE pending)
                   EXCEPT !.cut = Loaded, !.source = Loaded, !.lastStep = UnloadStep]
  /\ host' = IF CutterReady THEN Away ELSE host
  /\ UNCHANGED <<recovery, cmd, store, sensorOn>>

\* The extruder helps to free the filament unless this is a retry.
ExtruderRetracts == filament.detected /\ ~cmd.prepared /\ ~Swapping

ClearFeed(slot) == [store EXCEPT !.feedPending = IF @ = slot THEN NoSlot ELSE @]

\* A box pulls its filament back; the external one the user pulls out.
Pull ==
  /\ Working("unload")
  /\ Swapping \/ ~(NeedsRetract(pending) \/ NeedsCut(pending))
  /\ filament' = Empty
  /\ store' = ClearFeed(Loaded)
  /\ sensorOn' = TRUE
  /\ pending' = [(IF filament.detected THEN Serviced(pending) ELSE pending)
                   EXCEPT !.source = IF Swapping THEN @ ELSE Loaded, !.lastStep = UnloadStep]
  /\ host' = IF filament.detected THEN Away ELSE host
  /\ Advance("load")
  /\ UNCHANGED recovery

\* The hotend is heated over the wastebin unless nothing will be flushed.
PhysicalLoad ==
  /\ Working("load") /\ cmd.target \in Slots /\ Loaded \in {NoSlot, cmd.target}
  /\ IF filament.detected
     THEN filament' = [filament EXCEPT !.tracking = TRUE] /\ UNCHANGED store
     ELSE /\ filament' = Fed(cmd.target)
          /\ store' = [store EXCEPT !.feedPending = cmd.target]
  /\ pending' = [(IF pending.flush THEN Serviced(pending) ELSE pending)
                   EXCEPT !.lastStep = "load"]
  /\ host' = IF pending.flush THEN Away ELSE host
  /\ sensorOn' = TRUE
  /\ Advance("flush")
  /\ UNCHANGED recovery

LoadExternal ==
  /\ Working("load") /\ cmd.target = External /\ Loaded = External
  /\ filament' = [filament EXCEPT !.tip = "gears"]
  /\ store' = [store EXCEPT !.feedPending = External]
  /\ pending' = [Serviced(pending) EXCEPT !.lastStep = "load"]
  /\ host' = Away
  /\ sensorOn' = TRUE
  /\ Advance("flush")
  /\ UNCHANGED recovery

\* Whether _prepare_filament extrudes: a feed, a purge or a prime.
Extrudes ==
  \/ store.feedPending = cmd.target
  \/ ~Swapping /\ pending.source # cmd.target
  \/ host.print # "idle" /\ ~store.primed

Flush ==
  /\ Working("flush")
  /\ pending.flush /\ ~pending.flushDone
  /\ filament' = IF Extrudes /\ filament.detected
                 THEN [filament EXCEPT !.tip = "hotend"] ELSE filament
  /\ store' = [Commit(cmd.target) EXCEPT
                 !.feedPending = IF Extrudes THEN NoSlot ELSE @,
                 !.primed = @ \/ pending.printContext]
  /\ pending' = [(IF Extrudes THEN Serviced(pending) ELSE pending) EXCEPT
                   !.flushDone = TRUE,
                   !.lastStep = IF Swapping THEN "restore"
                                ELSE IF pending.printContext THEN "final" ELSE "flush"]
  /\ host' = IF Extrudes THEN Away ELSE host
  /\ Advance(IF ~Swapping /\ pending.printContext THEN "final" ELSE "finish")
  /\ UNCHANGED <<recovery, sensorOn>>

NoFlush ==
  /\ Working("flush")
  /\ ~pending.flush \/ pending.flushDone
  /\ store' = Commit(cmd.target)
  /\ pending' = IF Swapping THEN [pending EXCEPT !.lastStep = "restore"] ELSE pending
  /\ Advance(IF /\ ~Swapping /\ pending.flush /\ pending.printContext
                /\ pending.lastStep = "final"
             THEN "final" ELSE "finish")
  /\ UNCHANGED <<recovery, filament, sensorOn, host>>

\* A long wait ends with a cleaning at the wastebin.
FinalTemperature ==
  /\ Working("final")
  /\ \/ UNCHANGED <<pending, host>>
     \/ pending' = Serviced(pending) /\ host' = Away
  /\ Advance("finish")
  /\ UNCHANGED <<recovery, filament, store, sensorOn>>

\* Back to where the print was left, which PAUSE_STATE must then name.
Finish ==
  /\ cmd.at = "finish"
  /\ LET home == IF Returns(pending) THEN pending.origin ELSE host.head
         rebased == pending.rebase /\ Paused /\ (Returns(pending) \/ pending.runoutRecovery) IN
     host' = [host EXCEPT !.head = home, !.pauseAt = IF rebased THEN home ELSE @]
  /\ pending' = [pending EXCEPT !.runoutRecovery = FALSE,
                                !.lastStep = IF Returns(pending) THEN "moving"
                                             ELSE IF pending.runoutRecovery THEN "restore" ELSE @]
  /\ Advance("end")
  /\ UNCHANGED <<recovery, filament, store, sensorOn>>

\* RESUME_BASE moves to where PAUSE was run and lets the print go on.
Resumed == [host EXCEPT !.print = "printing", !.pauseSent = FALSE,
                        !.userPause = FALSE, !.head = host.pauseAt, !.pauseAt = "away"]

ResumesItself == cmd.name = "change" /\ pending.resume /\ ~cmd.within /\ Paused

\* Work on the filament that no request can know of any more.
Disowned == [filament EXCEPT !.tip = IF @ \in {"retracted", "cut"} THEN "loose" ELSE @]

\* The change has succeeded.  Its RESUME may be refused by the extruder's
\* protection, outside this module.
Succeed ==
  /\ cmd.at = "end" /\ ~Abort
  /\ pending' = NoRequest /\ recovery' = NoRecovery
  /\ cmd' = NoCommand
  /\ \/ host' = host
     \/ ResumesItself /\ host' = Resumed
  /\ filament' = Disowned
  /\ UNCHANGED <<store, sensorOn>>

-----------------------------------------------------------------------------
(***************************************************************************)
(* The runout swap.  The tail of the source has left the sensor.           *)
(***************************************************************************)
TailEnds == [filament EXCEPT !.detected = FALSE, !.tip = "none"]

RunoutRequest(t) ==
  [target |-> t, source |-> filament.path, kind |-> "runout",
   retracted |-> filament.path, cut |-> filament.path, flush |-> TRUE,
   flushDone |-> FALSE, printContext |-> TRUE, resume |-> FALSE,
   runoutRecovery |-> TRUE, origin |-> "none", serviceZ |-> FALSE, rebase |-> FALSE,
   lastStep |-> "none", inherited |-> FALSE]

\* The part is left to feed the tail, then the swap goes on as a change does.
RunoutSwap ==
  /\ Accepts /\ Printing /\ filament.path \in Slots
  /\ \E t \in Slots \ {filament.path}, path \in {filament.path, NoSlot} :
       LET r == RunoutRequest(t) IN
       /\ filament' = [TailEnds EXCEPT !.path = path]
       /\ pending' = Serviced(r)
       /\ cmd' = [NoCommand EXCEPT !.name = "runout", !.target = t,
                    !.at = IF path = NoSlot THEN "load" ELSE "unload",
                    !.sensorBefore = path # NoSlot => sensorOn]
       /\ sensorOn' = IF path = NoSlot THEN sensorOn ELSE FALSE
  /\ host' = Away
  /\ UNCHANGED <<recovery, store>>

\* No replacement, swapping disabled, the external spool, or no answer.
RunoutPause ==
  /\ Accepts /\ Printing /\ filament.detected
  /\ \E path \in {filament.path, NoSlot} : filament' = [TailEnds EXCEPT !.path = path]
  /\ PauseRunout(pending, host)
  /\ store' \in IF Loaded = External THEN Remembered ELSE {store}
  /\ UNCHANGED <<pending, sensorOn>>

-----------------------------------------------------------------------------
(***************************************************************************)
(* BOX_UNLOAD and BOX_LOAD, which keep no checkpoints.                     *)
(***************************************************************************)
UnloadCommand ==
  /\ "BOX_UNLOAD" \in Manual /\ Free /\ ~Printing
  /\ IF Loaded = NoSlot
     THEN sensorOn' = TRUE /\ store' = [store EXCEPT !.feedPending = NoSlot] /\ UNCHANGED cmd
     ELSE /\ cmd' = [NoCommand EXCEPT !.name = "unload", !.at = "unload",
                                      !.sensorBefore = sensorOn]
          /\ sensorOn' = FALSE
          /\ store' \in Remembered
  /\ UNCHANGED <<pending, recovery, filament, host>>

UnloadDone ==
  /\ cmd.name = "unload" /\ ~Abort
  /\ filament' = Empty
  /\ store' = ClearFeed(Loaded)
  /\ sensorOn' = TRUE
  /\ host' \in {host, Away}
  /\ cmd' = NoCommand
  /\ UNCHANGED <<pending, recovery>>

UnloadFails ==
  /\ cmd.name = "unload"
  /\ filament' \in PartRetracted \union PartPulled
  /\ RestoreSensor
  /\ cmd' = NoCommand
  /\ UNCHANGED <<pending, recovery, store, host>>

LoadCommand ==
  /\ "BOX_LOAD" \in Manual /\ Free /\ ~Printing
  /\ \E t \in Slots :
     \/ /\ Loaded \in {NoSlot, t} /\ ~filament.detected
        /\ filament' = Fed(t)
        /\ store' = [store EXCEPT !.lastLoaded = t, !.feedPending = t]
        /\ sensorOn' = TRUE
     \/ /\ Loaded = t /\ filament.detected
        /\ filament' = [filament EXCEPT !.tracking = TRUE]
        /\ store' = Commit(t)
        /\ sensorOn' = TRUE
     \/ filament' \in PartLoaded(t) /\ UNCHANGED <<store, sensorOn>>
  /\ UNCHANGED <<pending, recovery, cmd, host>>

-----------------------------------------------------------------------------
(***************************************************************************)
(* Faults, clogs and pauses come at any time; a queued PAUSE, RESUME and   *)
(* the start and end of a print wait for the running command.              *)
(***************************************************************************)
\* The poll latches a new fatal fault of the loaded path.
FaultLatched ==
  /\ filament.path \in Slots
  /\ cmd' = IF Free THEN cmd ELSE [cmd EXCEPT !.fault = TRUE]
  /\ IF host.print = "idle" THEN UNCHANGED <<recovery, host>>
     ELSE /\ recovery' = Blocked(pending, filament.path,
                                 IF pending # NoRequest THEN "unset" ELSE "yes")
          /\ host' = PausePrint(host)
  /\ UNCHANGED <<pending, filament, store, sensorOn>>

\* The extruder moves and the box's encoder does not.
ClogDetected ==
  /\ Printing /\ filament.path \in Slots /\ filament.tracking
  /\ Free \/ cmd.at = "flush"
  /\ recovery' = Blocked(pending, filament.path, "no")
  /\ host' = PausePrint(host)
  /\ UNCHANGED <<pending, cmd, filament, store, sensorOn>>

UserPause ==
  /\ Printing /\ ~host.pauseSent
  /\ host' = [host EXCEPT !.pauseSent = TRUE, !.userPause = TRUE]
  /\ UNCHANGED <<pending, recovery, cmd, filament, store, sensorOn>>

Pause ==
  /\ Free /\ Printing /\ host.pauseSent
  /\ host' = PausedNow(host)
  /\ UNCHANGED <<pending, recovery, cmd, filament, store, sensorOn>>

\* The RESUME macro does not ask the engine.
Resume ==
  /\ Free /\ Paused
  /\ ResumeChecked => recovery = NoRecovery
  /\ host' = Resumed
  /\ UNCHANGED <<pending, recovery, cmd, filament, store, sensorOn>>

InsertExternal ==
  /\ External \in Commanded /\ Loaded = NoSlot
  /\ Free \/ (cmd.at = "load" /\ cmd.target = External)
  /\ filament' = [Empty EXCEPT !.detected = TRUE, !.tip = "gears"]
  /\ UNCHANGED <<pending, recovery, cmd, store, sensorOn, host>>

ResetRecovery ==
  pending' = NoRequest /\ recovery' = NoRecovery /\ filament' = Disowned

PrintStarts ==
  /\ Free /\ host.print = "idle"
  /\ ResetRecovery
  /\ host' = [host EXCEPT !.print = "printing", !.head = "print"]
  /\ store' = [store EXCEPT !.primed = FALSE]
  /\ UNCHANGED <<cmd, sensorOn>>

\* Complete, cancelled or failed; each clears the pause state.
PrintEnds ==
  /\ Free /\ host.print # "idle"
  /\ ResetRecovery
  /\ host' = [host EXCEPT !.print = "idle", !.pauseSent = FALSE, !.userPause = FALSE,
                          !.head = "away", !.pauseAt = "away"]
  /\ store' = [store EXCEPT !.primed = FALSE]
  /\ UNCHANGED <<cmd, sensorOn>>

-----------------------------------------------------------------------------
Decide == ReadFails \/ DecideAborts \/ Attend \/ NothingToDo \/ Execute \/ RetryRunout

Work == Retract \/ Cut \/ Pull \/ PhysicalLoad \/ LoadExternal \/ Flush \/ NoFlush
        \/ FinalTemperature \/ Finish \/ Succeed \/ StepFails

ManualCommands == UnloadCommand \/ UnloadDone \/ UnloadFails \/ LoadCommand

Events == FaultLatched \/ ClogDetected \/ UserPause \/ Pause \/ Resume
          \/ InsertExternal \/ PrintStarts \/ PrintEnds

Next == ChangeCommand \/ ResumeCheck \/ Decide \/ Work \/ RunoutSwap \/ RunoutPause
        \/ ManualCommands \/ Events

Spec == Init /\ [][Next]_vars

-----------------------------------------------------------------------------
(***************************************************************************)
(* Properties.                                                             *)
(***************************************************************************)

\* While a print is on, a request that did not succeed blocks RESUME, and the
\* retry that RESUME would make is of that request: no failed change is left
\* behind without its lock, whatever blocked RESUME in the meantime.
PendingBlocks ==
  (Free /\ host.print # "idle" /\ pending # NoRequest)
    => recovery # NoRecovery /\ recovery.target = pending.target

\* A failed, repeated or aborted unload never leaves the printhead sensor
\* disabled, which would blind the print to the next runout.
NeverBlind == Free => sensorOn

PrintGoesOn == Paused /\ host'.print = "printing"

\* However often a change failed, was retried or replaced, a print goes on
\* where it was left and not where the failure parked the toolhead: the request
\* keeps the first position and a success rewrites the pause position.
ResumesWhereItStopped == [][PrintGoesOn => host'.head = "print"]_vars

\* A change resumes the print by itself only if it paused it: a pause that the
\* user asked for stays until the user ends it, though the change fails for it.
UserPauseStays == [][PrintGoesOn /\ cmd.name = "change" => ~host.userPause]_vars

\* The retries of a change, and the changes that replace it, do not retract the
\* source again once that is done, nor cut it again.
IrreversibleOnce ==
  (cmd.name = "change" /\ cmd.at = "unload" /\ pending.kind = "normal")
    => /\ NeedsRetract(pending) => filament.tip \notin {"retracted", "cut"}
       /\ NeedsCut(pending) => filament.tip # "cut"

\* The box is about to pull a filament that the printhead still detects, without
\* help from the extruder.
PullsAlone ==
  /\ cmd.name = "change" /\ cmd.at = "unload"
  /\ filament.path \in Slots /\ filament.detected
  /\ ~ExtruderRetracts /\ ~NeedsRetract(pending) /\ ~NeedsCut(pending)

\* A request's own checkpoints are true of the filament that is loaded: the box
\* never pulls at one that nobody has retracted since it was fed.  A request that
\* replaced another inherits its source's, which may have been loaded again.
OwnCheckpointsTrue == PullsAlone /\ ~pending.inherited => filament.tip \notin {"gears", "hotend"}

\* A change with flush does not succeed, with filament that still has to be fed
\* from the gears to the hotend, whatever attempt it was that loaded it.
FeedNotForgotten ==
  (cmd.at = "end" /\ pending.flush) => store.feedPending # cmd.target

\* What a change that succeeds promises to the print: the target's filament,
\* ready in the hotend.
ChangeDelivers ==
  (cmd.at = "end" /\ pending.flush)
    => Loaded = cmd.target /\ filament.tip = "hotend"
=============================================================================
