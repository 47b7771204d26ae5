---------------------------- MODULE MotorFaults -----------------------------
(***************************************************************************)
(* Protection of the closed-loop motors (files/motor_control.py): the      *)
(* startup timer, the protection poll, stall-pin events, the deferred      *)
(* cleanup, and the commands that query and clear the motors' latches.     *)
(*                                                                         *)
(* Timer callbacks, async callbacks and G-code commands are greenlets of   *)
(* one reactor: a step ends where one of them waits for the bus.  A timer  *)
(* is disarmed while its callback runs and set to what the callback        *)
(* returns, whatever update_timer did in between.  Warnings only print     *)
(* messages, and the cached codes are only reported: both are left out.    *)
(* The homing object is klipper's v0.13, without the session API.          *)
(***************************************************************************)
EXTENDS Naturals, Sequences

CONSTANTS Kinematic,  \* the motors with a stall pin on the RS-485 bus
          Extruder,   \* the motor behind the nozzle MCU
          Populated,  \* every slot of ALL_AXES has a motor; z and z1 of a base K2 do not
          Handlers    \* invocations of the startup handler that may overlap

ASSUME MotorsAssumption ==
  /\ Extruder \notin Kinematic
  /\ Populated \in BOOLEAN

Motors == Kinematic \cup {Extruder}

\* _startup_steps: the check of the protection (protect_check, protect_clear and
\* protect_recheck) is one here, the parameters and modes set after it another;
\* those before it, which only wake the motors up, would be like the latter.
Steps == <<"protect", "configure">>
NSteps == Len(Steps)

VARIABLES latched,      \* motors whose protection error is latched
          startup,      \* _startup_started, _startup_complete, _startup_step_index
          running,      \* the step each startup handler is in, or 0
          ready,        \* is_ready and motor_params_init, assigned together
          timer,        \* the armed timers
          poll,         \* the protection poll: what it does, has read and found
          cleanup,      \* _fault_cleanup_pending, its axes and flags
          cleaning,     \* cleanup handlers that wait for the bus
          stall,        \* per stall pin, the async query
          cmd,          \* the G-code command that runs, and how far it is
          targets,      \* the motors MOTOR_CLEAR_ERROR will clear
          homing,       \* is_homing: a homing move is on
          print,        \* "printing", "pausing" (PAUSE is sent) or "paused"
          down,         \* klippy has shut down
          hist          \* history, for the properties

start  == <<startup, running, ready>>
guard  == <<poll, cleanup, cleaning, stall>>
user   == <<cmd, targets, homing, print>>
vars   == <<latched, start, timer, guard, user, down, hist>>

IdlePoll  == [at |-> "idle", left |-> {}, found |-> {}, homing |-> FALSE]
NoCleanup == [pending |-> FALSE, axes |-> {}, homing |-> FALSE, startup |-> FALSE]

\* attempted: steps tried since startup last began; overlap: it was begun again
\* while a step was running; freed: the extruder's latch was clear at some time
\* of the running REQUIRE_EXTRUDER_CLEAR.
Init ==
  /\ latched \in SUBSET Motors
  /\ startup = [started |-> FALSE, complete |-> FALSE, index |-> 0]
  /\ running = [h \in Handlers |-> 0] /\ ready = FALSE
  /\ timer = {} /\ poll = IdlePoll /\ cleanup = NoCleanup /\ cleaning = {}
  /\ stall = [a \in Kinematic |-> "none"]
  /\ cmd = "idle" /\ targets = {} /\ homing = FALSE /\ print = "printing"
  /\ down = FALSE
  /\ hist = [attempted |-> {}, overlap |-> FALSE, freed |-> FALSE]

Starting == startup.started /\ ~startup.complete
Requiring == cmd \in {"resume.query", "resume.clear", "resume.recheck"}
Stepping == \E h \in Handlers : running[h] # 0

\* A bus that answers may do so; it never does once the host is down, nor for a
\* query of all axes when a slot is empty.
Answers == ~down
AllAnswer == Answers /\ Populated

\* The extruder's latch, as the running command may have seen it.
Freed == [hist EXCEPT !.freed = Requiring /\ (@ \/ Extruder \notin latched')]

\* What a clear, which is not acknowledged, may leave latched.
ClearOf(axes) == {latched \ c : c \in SUBSET axes}

-----------------------------------------------------------------------------
(* Startup.                                                                *)

\* Faulty variant: the steps go on from where the last startup was.
ResetKeepsIndex ==
  /\ startup' = [startup EXCEPT !.started = TRUE, !.complete = FALSE]
  /\ ready' = FALSE /\ cleanup' = NoCleanup /\ timer' = {"startup"}

\* _reset_startup_state, and the arming of the timer by _begin_startup.
ResetStartupState ==
  /\ startup' = [started |-> TRUE, complete |-> FALSE, index |-> 0]
  /\ ready' = FALSE
  /\ cleanup' = NoCleanup
  /\ timer' = {"startup"}

\* serial_485:ready; later ones do nothing.
SerialReady ==
  /\ ~startup.started /\ ~down
  /\ ResetStartupState
  /\ UNCHANGED <<latched, running, poll, cleaning, stall, user, down, hist>>

\* MOTOR_RETRY_STARTUP.
RetryStartup ==
  /\ cmd = "idle" /\ ~down
  /\ \E h \in Handlers : running[h] = 0
  /\ ResetStartupState
  /\ hist' = [hist EXCEPT !.attempted = {}, !.overlap = Stepping]
  /\ UNCHANGED <<latched, running, poll, cleaning, stall, user, down>>

StartupDone ==
  /\ startup' = [startup EXCEPT !.complete = TRUE]
  /\ ready' = TRUE
  /\ timer' = (timer \ {"startup"}) \cup {"poll"}

\* Faulty variant: off by one.
AllTriedLate == startup.index > NSteps

AllTried == startup.index >= NSteps

\* The timer fires: the next step begins, or all have been tried.
StartupFires(h) ==
  /\ "startup" \in timer /\ running[h] = 0
  /\ ~startup.complete
  /\ IF AllTried
     THEN StartupDone /\ UNCHANGED running
     ELSE /\ running' = [running EXCEPT ![h] = startup.index + 1]
          /\ timer' = timer \ {"startup"}
          /\ UNCHANGED <<startup, ready>>
  /\ UNCHANGED <<latched, guard, user, down, hist>>

\* The timer was set by a handler that another one overtook.
StartupFiresLate ==
  /\ "startup" \in timer /\ startup.complete
  /\ timer' = timer \ {"startup"}
  /\ UNCHANGED <<latched, start, guard, user, down, hist>>

\* What a step does to the latches: those found set are cleared.
StepWorks(step) ==
  IF step = "protect" /\ AllAnswer THEN latched' \in ClearOf(latched)
  ELSE UNCHANGED latched

\* Well or not, the next step is due at once.
StepReturns(h) == timer' = timer \cup {"startup"}

\* A step that raises is logged and skipped.
StepEnds(h) ==
  /\ running[h] # 0
  /\ \/ StepWorks(Steps[running[h]])
     \/ UNCHANGED latched
  /\ running' = [running EXCEPT ![h] = 0]
  /\ startup' = [startup EXCEPT !.index = @ + 1]
  /\ StepReturns(h)
  /\ hist' = [Freed EXCEPT !.attempted = IF hist.overlap THEN {} ELSE @ \cup {running[h]}]
  /\ UNCHANGED <<ready, guard, user, down>>

-----------------------------------------------------------------------------
(* Faults: shutdown, or a cleanup that is put off.                         *)

\* Commands fail, queued callbacks give up: nothing of them is followed further.
UserHalts ==
  /\ cmd' = "idle" /\ targets' = {} /\ homing' = FALSE /\ print' = "printing"
  /\ hist' = [hist EXCEPT !.freed = FALSE]

\* _handle_shutdown; a callback that asked for it re-arms its timer afterwards.
Shutdown(rearmed) ==
  /\ down' = TRUE /\ ready' = FALSE
  /\ timer' = rearmed
  /\ UserHalts

\* Something else shuts klippy down.
KlippyShutdown ==
  /\ ~down
  /\ Shutdown({})
  /\ UNCHANGED <<latched, startup, running, guard>>

\* _schedule_fault_cleanup
Schedule(axes, during, rearmed) ==
  /\ cleanup' = [pending |-> TRUE, axes |-> cleanup.axes \cup axes,
                 homing |-> cleanup.homing \/ during = "homing",
                 startup |-> cleanup.startup \/ during = "startup"]
  /\ timer' = timer \cup {"cleanup"} \cup rearmed
  /\ UNCHANGED <<ready, user, down, hist>>

\* A kinematic motor has an error: homing is let finish, anything else is not.
KinematicFault(axes, during, rearmed) ==
  IF during = "homing" THEN Schedule(axes, during, rearmed)
  ELSE Shutdown(rearmed) /\ UNCHANGED cleanup

\* _fault_cleanup_ready.  The queue of moves may delay any cleanup.
CleanupReady == cleanup.homing => ~homing

\* The handler invalidates the homing of the axes and clears their latches.  A
\* cleanup that is no longer pending has had its timer stopped.
CleanupFires ==
  /\ "cleanup" \in timer /\ cleanup.pending
  /\ CleanupReady /\ cleaning = {}
  /\ timer' = timer \ {"cleanup"}
  /\ cleaning' = cleaning \cup
       {[at |-> "clear", axes |-> cleanup.axes, startup |-> cleanup.startup]}
  /\ UNCHANGED <<latched, start, poll, cleanup, stall, user, down, hist>>

\* The handler ends: what was scheduled meanwhile is dropped with the rest.
CleanupEnds(c) ==
  /\ cleaning' = cleaning \ {c}
  /\ cleanup' = NoCleanup
  /\ timer' = timer \ {"cleanup"}

\* The motors are switched off; after a startup fault they are queried again,
\* which only decides the message.
CleanupClears(c) ==
  /\ c.at = "clear"
  /\ \/ Answers /\ latched' \in ClearOf(c.axes) /\ ~c.startup /\ CleanupEnds(c)
     \/ /\ Answers /\ latched' \in ClearOf(c.axes) /\ c.startup
        /\ cleaning' = (cleaning \ {c}) \cup {[c EXCEPT !.at = "verify"]}
        /\ UNCHANGED <<cleanup, timer>>
     \/ UNCHANGED latched /\ CleanupEnds(c)
  /\ hist' = Freed
  /\ UNCHANGED <<start, poll, stall, user, down>>

CleanupVerifies(c) ==
  /\ c.at = "verify"
  /\ CleanupEnds(c)
  /\ UNCHANGED <<latched, start, poll, stall, user, down, hist>>

-----------------------------------------------------------------------------
(* The protection poll.                                                    *)

\* Faulty variant: no further poll is due while a cleanup is pending.
PollSkipsForGood == "poll" \in timer /\ cleanup.pending /\ timer' = timer \ {"poll"}

\* Not ready, or a cleanup pending: the handler returns the next time.
PollSkips == "poll" \in timer /\ ~(startup.complete /\ ready /\ ~cleanup.pending)
             /\ UNCHANGED timer

PollFires ==
  \/ PollSkips /\ UNCHANGED <<latched, start, guard, user, down, hist>>
  \/ /\ "poll" \in timer /\ poll = IdlePoll
     /\ startup.complete /\ ready /\ ~cleanup.pending
     /\ timer' = timer \ {"poll"}
     /\ poll' = [IdlePoll EXCEPT !.at = "read", !.left = Motors]
     /\ UNCHANGED <<latched, start, cleanup, cleaning, stall, user, down, hist>>

\* Kinematic motors first, one exchange each; one that fails is skipped.
Reads(a) ==
  /\ poll.at = "read" /\ a \in poll.left
  /\ a = Extruder => poll.left = {a}

PollReads(a) ==
  /\ Reads(a) /\ poll.left # {a}
  /\ \E f \in {{}} \cup IF Answers THEN {latched \cap {a}} ELSE {} :
       poll' = [poll EXCEPT !.left = @ \ {a}, !.found = @ \cup f]
  /\ UNCHANGED <<latched, start, timer, cleanup, cleaning, stall, user, down, hist>>

\* _handle_active_fault for the kinematic motors, and the poll's return.
PollEnds(found, during) ==
  /\ poll' = IdlePoll
  /\ IF found \cap Kinematic = {}
     THEN /\ timer' = timer \cup {"poll"}
          /\ UNCHANGED <<ready, cleanup, user, down, hist>>
     ELSE KinematicFault(found \cap Kinematic, during, {"poll"})

Paused(p) == IF p = "printing" THEN "pausing" ELSE p

\* The last reply, and what follows from all of them: the extruder's error
\* pauses the print and is recovered from first.
PollJudges(a) ==
  /\ Reads(a) /\ poll.left = {a}
  /\ \E f \in {{}} \cup IF Answers THEN {latched \cap {a}} ELSE {} :
     LET found == poll.found \cup f IN
     IF found # {} /\ Starting
     THEN /\ Schedule(found, "startup", {"poll"})
          /\ poll' = IdlePoll
     ELSE IF Extruder \in found
     THEN /\ poll' = [at |-> "clear", left |-> {}, found |-> found, homing |-> homing]
          /\ print' = Paused(print)
          /\ UNCHANGED <<ready, timer, cleanup, cmd, targets, homing, down, hist>>
     ELSE PollEnds(found, IF homing THEN "homing" ELSE "no")
  /\ UNCHANGED <<latched, startup, running, cleaning, stall>>

\* The extruder is cleared, without an acknowledgement, and queried again.
PollClears ==
  /\ poll.at = "clear"
  /\ latched' \in IF Answers THEN ClearOf({Extruder}) ELSE {latched}
  /\ poll' = [poll EXCEPT !.at = "recheck"]
  /\ hist' = Freed
  /\ UNCHANGED <<start, timer, cleanup, cleaning, stall, user, down>>

\* Whatever the answer, or without one; homing is as it was at the judgement.
PollRechecks ==
  /\ poll.at = "recheck"
  /\ PollEnds(poll.found, IF poll.homing THEN "homing" ELSE "no")
  /\ UNCHANGED <<latched, startup, running, cleaning, stall>>

-----------------------------------------------------------------------------
(* Stall pins and errors of the motors.                                    *)

MotorError ==
  /\ \E a \in Motors \ latched : latched' = latched \cup {a}
  /\ UNCHANGED <<start, timer, guard, user, down, hist>>

\* note_stall_pin_event.  During homing the query is left to the command that
\* ends homing; the calibration of the cutter, which takes a stall of its axis
\* for its result, keeps events from coming that need not come here.
StallPin(a) ==
  /\ startup.complete /\ ready
  /\ stall[a] = "none"
  /\ ~homing
  /\ stall' = [stall EXCEPT ![a] = "queued"]
  /\ UNCHANGED <<latched, start, timer, poll, cleanup, cleaning, user, down, hist>>

\* _reactor_stall_query, up to its query.
StallStarts(a) ==
  /\ stall[a] = "queued"
  /\ stall' = [stall EXCEPT ![a] = IF down \/ homing THEN "none" ELSE "query"]
  /\ UNCHANGED <<latched, start, timer, poll, cleanup, cleaning, user, down, hist>>

\* An answer without error ends it; an error, and no answer, are a fault.
StallVerified(a) ==
  /\ stall[a] = "query"
  /\ stall' = [stall EXCEPT ![a] = "none"]
  /\ \/ /\ Answers /\ a \notin latched
        /\ UNCHANGED <<ready, timer, cleanup, user, down, hist>>
     \/ IF Starting THEN Schedule({a}, "startup", {})
        ELSE KinematicFault({a}, "no", {})
  /\ UNCHANGED <<latched, startup, running, poll, cleaning>>

-----------------------------------------------------------------------------
(* Commands: homing, MOTOR_CLEAR_ERROR, and the print with its RESUME.     *)

Becomes(from, to) == cmd = from /\ cmd' = to

HomeBegins ==
  /\ Becomes("idle", "home") /\ ~down
  /\ UNCHANGED <<latched, start, timer, guard, targets, homing, print, down, hist>>

\* homing:homing_move_begin and homing_move_end
HomingMove ==
  /\ cmd = "home" /\ (homing \/ ~down)
  /\ homing' = ~homing
  /\ UNCHANGED <<latched, start, timer, guard, cmd, targets, print, down, hist>>

HomeEnds ==
  /\ Becomes("home", "home.check") /\ ~homing
  /\ UNCHANGED <<latched, start, timer, guard, targets, homing, print, down, hist>>

\* MOTOR_CHECK_PROTECTION_AFTER_HOME calls a method that MotorAxisController
\* does not have; the exception is reported as a bus timeout.
CheckAfterHome ==
  /\ Becomes("home.check", "idle")
  /\ UNCHANGED <<latched, start, timer, guard, targets, homing, print, down, hist>>

\* _handle_gcode_command_error
ErrorEndsHoming == homing' = FALSE

\* A homing move is abandoned by an error; a cleanup that waited is due.
HomingFails ==
  /\ cmd = "home"
  /\ cmd' = "idle"
  /\ ErrorEndsHoming
  /\ timer' = IF homing /\ cleanup.pending /\ cleanup.homing
              THEN timer \cup {"cleanup"} ELSE timer
  /\ UNCHANGED <<latched, start, guard, targets, print, down, hist>>

\* MOTOR_CLEAR_ERROR: query all, clear what is active; what the query after that
\* answers is only reported.
ClearErrorBegins ==
  /\ Becomes("idle", "clear.query") /\ ~down
  /\ UNCHANGED <<latched, start, timer, guard, targets, homing, print, down, hist>>

ClearErrorQueries ==
  /\ cmd = "clear.query"
  /\ \/ /\ AllAnswer
        /\ cmd' = IF latched = {} THEN "idle" ELSE "clear.clear"
        /\ targets' = latched
     \/ cmd' = "idle" /\ UNCHANGED targets
  /\ UNCHANGED <<latched, start, timer, guard, homing, print, down, hist>>

ClearErrorClears ==
  /\ Becomes("clear.clear", "idle")
  /\ \/ Answers /\ latched' \in ClearOf(targets)
     \/ UNCHANGED latched
  /\ targets' = {}
  /\ hist' = Freed
  /\ UNCHANGED <<start, timer, guard, homing, print, down>>

\* The user or the print asks for a pause; the macro runs when it can.
PauseSent ==
  /\ print = "printing" /\ print' = "pausing" /\ ~down
  /\ UNCHANGED <<latched, start, timer, guard, cmd, targets, homing, down, hist>>

PauseRuns ==
  /\ cmd = "idle" /\ print = "pausing" /\ print' = "paused"
  /\ UNCHANGED <<latched, start, timer, guard, cmd, targets, homing, down, hist>>

Unasked == [hist EXCEPT !.freed = FALSE]

\* One of the REQUIRE_EXTRUDER_CLEAR of the RESUME macro begins.
Require == [hist EXCEPT !.freed = Extruder \notin latched]

ResumeBegins ==
  /\ Becomes("idle", "resume.query") /\ print = "paused" /\ ~down
  /\ hist' = Require
  /\ UNCHANGED <<latched, start, timer, guard, targets, homing, print, down>>

\* It passes: the macro goes on to the next, or to RESUME_BASE.
RequirePasses ==
  \/ cmd' = "resume.query" /\ hist' = Require /\ UNCHANGED print
  \/ cmd' = "idle" /\ print' = "printing" /\ hist' = Unasked

RequireFails == cmd' = "idle" /\ hist' = Unasked /\ UNCHANGED print

ResumeQueries ==
  /\ cmd = "resume.query"
  /\ \/ Answers /\ Extruder \notin latched /\ RequirePasses
     \/ Answers /\ Extruder \in latched /\ cmd' = "resume.clear" /\ UNCHANGED <<print, hist>>
     \/ RequireFails
  /\ UNCHANGED <<latched, start, timer, guard, targets, homing, down>>

ResumeClears ==
  /\ cmd = "resume.clear"
  /\ \/ Answers /\ latched' \in ClearOf({Extruder}) /\ cmd' = "resume.recheck"
     \/ UNCHANGED latched /\ cmd' = "idle"
  /\ hist' = IF cmd' = "idle" THEN Unasked ELSE Freed
  /\ UNCHANGED <<start, timer, guard, targets, homing, print, down>>

\* Faulty variant: the clear is taken as done.
RecheckTrusted == TRUE

RecheckClear == Extruder \notin latched

ResumeRechecks ==
  /\ cmd = "resume.recheck"
  /\ \/ Answers /\ RecheckClear /\ RequirePasses
     \/ RequireFails
  /\ UNCHANGED <<latched, start, timer, guard, targets, homing, down>>

-----------------------------------------------------------------------------
Startup ==
  \/ \E h \in Handlers : StartupFires(h) \/ StepEnds(h)
  \/ StartupFiresLate

Cleanup ==
  \/ CleanupFires
  \/ \E c \in cleaning : CleanupClears(c) \/ CleanupVerifies(c)

Poll ==
  \/ PollFires \/ PollClears \/ PollRechecks
  \/ \E a \in Motors : PollReads(a) \/ PollJudges(a)

StallQuery == \E a \in Kinematic : StallStarts(a) \/ StallVerified(a)

\* A command that has begun.
Command ==
  \/ HomeEnds \/ CheckAfterHome \/ HomingFails
  \/ ClearErrorQueries \/ ClearErrorClears
  \/ ResumeQueries \/ ResumeClears \/ ResumeRechecks

User ==
  \/ RetryStartup \/ HomeBegins \/ ClearErrorBegins \/ PauseSent \/ PauseRuns \/ ResumeBegins

Next ==
  \/ SerialReady \/ Startup \/ Cleanup \/ Poll \/ StallQuery \/ Command \/ User
  \/ HomingMove \/ KlippyShutdown \/ MotorError
  \/ \E a \in Kinematic : StallPin(a)

Spec == Init /\ [][Next]_vars

\* A reply that tells of a's error, and a clear of it that arrives.
Learns(a) == PollReads(a) /\ a \in poll'.found
Cleans(a) == \E c \in cleaning : CleanupClears(c) /\ a \in latched /\ a \notin latched'

HomingMoveEnds == homing /\ HomingMove

\* The reactor runs what is due, and a homing move ends; the bus does not lose
\* everything, and the moves a cleanup waits for end again and again.
Fairness ==
  /\ WF_vars(HomingMoveEnds)
  /\ WF_vars(Startup) /\ WF_vars(Cleanup) /\ SF_vars(CleanupFires)
  /\ WF_vars(Poll) /\ WF_vars(StallQuery)
  /\ \A a \in Kinematic : SF_vars(Learns(a)) /\ SF_vars(Cleans(a))

LiveSpec == Spec /\ Fairness

-----------------------------------------------------------------------------
(* Properties.                                                             *)

\* Type invariant of the fields and of the handlers' places.
TypeOK ==
  /\ latched \subseteq Motors
  /\ startup \in [started : BOOLEAN, complete : BOOLEAN, index : Nat]
  /\ running \in [Handlers -> 0..NSteps]
  /\ {ready, homing, down} \subseteq BOOLEAN
  /\ timer \subseteq {"startup", "poll", "cleanup"}
  /\ poll \in [at : {"idle", "read", "clear", "recheck"}, left : SUBSET Motors,
               found : SUBSET Motors, homing : BOOLEAN]
  /\ cleanup \in [pending : BOOLEAN, axes : SUBSET Motors, homing : BOOLEAN,
                  startup : BOOLEAN]
  /\ cleaning \subseteq [at : {"clear", "verify"}, axes : SUBSET Motors, startup : BOOLEAN]
  /\ stall \in [Kinematic -> {"none", "queued", "query"}]
  /\ cmd \in {"idle", "home", "home.check", "clear.query", "clear.clear",
              "resume.query", "resume.clear", "resume.recheck"}
  /\ targets \subseteq Motors
  /\ hist \in [attempted : SUBSET (1..NSteps), overlap : BOOLEAN, freed : BOOLEAN]
  /\ print \in {"printing", "pausing", "paused"}

\* The motors are reported ready only when every step of the startup was tried,
\* unless MOTOR_RETRY_STARTUP came while a step was waiting for the bus: that
\* step then counts as the first of the new startup (_startup_handler).
StepsAttempted == ready /\ ~hist.overlap => hist.attempted = 1..NSteps

\* RESUME_BASE is reached only if, at some time of the last
\* REQUIRE_EXTRUDER_CLEAR, the extruder had no error: the clear it relies on is
\* not acknowledged (cmd_REQUIRE_EXTRUDER_CLEAR).
ResumeClean == [][print = "paused" /\ print' = "printing" /\ ~down' => hist.freed]_vars

\* A motor's error is never left to itself while the motors are ready: it ends
\* in a shutdown or is cleared, also if it came during homing, when its stall
\* pin is ignored (_protection_poll_handler, _fault_cleanup_handler).
FaultAnswered ==
  \A a \in Kinematic : (ready /\ a \in latched) ~> (~ready \/ down \/ a \notin latched)

\* What MOTOR_CHECK_PROTECTION_AFTER_HOME is for: when it has run, no latch of
\* the homed motors is set.
AfterHomeClears ==
  [][cmd = "home.check" /\ cmd' = "idle" /\ ~down' => latched' \cap Kinematic = {}]_vars
=============================================================================
