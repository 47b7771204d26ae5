------------------------------- MODULE PRTouch -------------------------------
(***************************************************************************)
(* The nozzle probe (files/prtouch.py): arming two MCUs that together make *)
(* an endstop, touching the bed with the nozzle, retrying a touch that did *)
(* not trigger, and the commands that are made of touches.                 *)
(*                                                                         *)
(* The step MCU records steps, the pressure MCU watches the load cell and  *)
(* asserts the swap line, which the step MCU reads as the endstop.  Each   *)
(* does what it is sent in the order sent, and acknowledges a start at     *)
(* some time after.  A step of a command is one wait of its greenlet; the  *)
(* homing move itself, and what klippy does before and after it, are       *)
(* external.                                                               *)
(*                                                                         *)
(* Heights are numbers in units of which Tolerance is the sample range     *)
(* allowed.  XY moves, temperatures, the pressure buffer read after a      *)
(* touch without trigger, and what Cartographer does are left out.         *)
(***************************************************************************)
EXTENDS Integers, Sequences, FiniteSets

CONSTANTS Commands,    \* those given, of "G28", "PRTOUCH_HOME", "SCAN", "TWIST", "SCRUB"
          Heights,     \* at which a touch can trigger
          Samples,     \* home_samples
          MaxNoisy,    \* home_max_noisy
          MaxSamples,  \* home_max_samples
          Tolerance,   \* home_sample_range
          Retries,     \* no_trigger_retries
          MaxFaults,   \* bound: touches without trigger, noise, MCUs that refuse
          MaxLate      \* bound: acknowledgements that come after the timeout

ASSUME SamplesAssumption ==
  /\ Samples \in Nat \ {0} /\ MaxSamples \in Nat /\ Samples <= MaxSamples
  /\ {MaxNoisy, Retries, MaxFaults, MaxLate, Tolerance} \subseteq Nat
  /\ Heights \subseteq Int

VARIABLES queue,    \* per MCU what it was sent and has not done yet
          runs,     \* the MCUs that capture or watch
          ack,      \* per MCU the acknowledgement in _ack_by_source_oid
          swap,     \* the swap line is asserted
          armed,    \* _armed
          ratio,    \* _pres_hold_ratio is raised
          homed,    \* klippy counts Z as homed
          basis,    \* what Z is counted from: "none", "seed", "touch"
          cmd,      \* the command that runs and how far it is
          down,     \* klippy is shut down
          stale,    \* history: an earlier start's acknowledgement was taken for this touch's
          faults, late

probe == <<armed, ratio>>
zaxis == <<homed, basis>>
mcus  == <<queue, runs, ack, swap>>
vars  == <<mcus, probe, zaxis, cmd, down, stale, faults, late>>

Mcus   == {"step", "pres"}
NoAck  == [ok |-> FALSE, is |-> "none"]
Idle   == [name |-> "none", at |-> "idle", seeded |-> FALSE, retry |-> 0,
           end |-> "none", z |-> 0, touches |-> 0, collected |-> <<>>]

Init ==
  /\ queue = [m \in Mcus |-> <<>>] /\ runs = {} /\ ack = [m \in Mcus |-> NoAck]
  /\ swap = FALSE /\ armed = FALSE /\ ratio = FALSE
  /\ homed = FALSE /\ basis = "none"
  /\ cmd = Idle /\ down = FALSE /\ stale = FALSE /\ faults = 0 /\ late = 0

At(place)   == cmd.at = place
Goes(place) == cmd' = [cmd EXCEPT !.at = place]
Fault == faults < MaxFaults /\ faults' = faults + 1

-----------------------------------------------------------------------------
(***************************************************************************)
(* The MCUs.  A start is "new" while the greenlet waits for it, else "old".*)
(***************************************************************************)

\* A start is acknowledged; one that is refused has an error.
McuStarts(m) ==
  /\ queue[m] # <<>> /\ Head(queue[m]) \in {"new", "old"}
  /\ queue' = [queue EXCEPT ![m] = Tail(@)]
  /\ \/ /\ runs' = runs \cup {m} /\ UNCHANGED faults
        /\ ack' = [ack EXCEPT ![m] = [ok |-> TRUE, is |-> Head(queue[m])]]
     \/ /\ Fault /\ UNCHANGED runs
        /\ ack' = [ack EXCEPT ![m] = [ok |-> FALSE, is |-> Head(queue[m])]]
  /\ UNCHANGED <<swap, probe, zaxis, cmd, down, stale, late>>

\* A stopped pressure MCU drives the line idle.
McuStops(m) ==
  /\ queue[m] # <<>> /\ Head(queue[m]) = "stop"
  /\ queue' = [queue EXCEPT ![m] = Tail(@)]
  /\ runs' = runs \ {m}
  /\ swap' = (swap /\ m # "pres")
  /\ UNCHANGED <<ack, probe, zaxis, cmd, down, stale, faults, late>>

\* The load cell is disturbed while it watches.
Noise ==
  /\ "pres" \in runs /\ ~swap
  /\ Fault /\ swap' = TRUE
  /\ UNCHANGED <<queue, runs, ack, probe, zaxis, cmd, down, stale, late>>

\* Starts that nobody waits for any more are old; a second stop changes nothing.
Aged(q) == [i \in DOMAIN q |-> IF q[i] = "new" THEN "old" ELSE q[i]]
Stopped(q) == IF q # <<>> /\ q[Len(q)] = "stop" THEN q ELSE Append(Aged(q), "stop")

\* _disarm: the pressure MCU first, so that the line is idle.  Faulty variant: only
\* the pressure MCU is stopped.
StopsPressOnly ==
  /\ queue' = [queue EXCEPT !["pres"] = IF down THEN @ ELSE Stopped(@), !["step"] = Aged(@)]
  /\ armed' = FALSE
Disarms ==
  /\ queue' = IF down THEN queue ELSE [m \in Mcus |-> Stopped(queue[m])]
  /\ armed' = FALSE

\* klippy:shutdown runs _force_disarm, and the MCUs shut down as well.
Shutdown ==
  /\ ~down /\ down' = TRUE
  /\ queue' = [m \in Mcus |-> <<>>] /\ runs' = {} /\ swap' = FALSE /\ armed' = FALSE
  /\ UNCHANGED <<ack, ratio, zaxis, cmd, stale, faults, late>>

-----------------------------------------------------------------------------
(***************************************************************************)
(* One touch: what runs when the homing move begins, the move, its end.    *)
(***************************************************************************)

\* The line is read behind all that was sent to the step MCU before.  A klippy that
\* is down raises, unless the answer had come already.
LineRead == down \/ queue["step"] = <<>>

\* _arm begins with a _disarm.  Without Z homed klippy refuses the move.
TouchBegins ==
  /\ At("touch")
  /\ IF homed THEN Disarms /\ Goes("release") ELSE UNCHANGED <<queue, armed>> /\ Goes("failed")
  /\ stale' = FALSE
  /\ UNCHANGED <<runs, ack, swap, ratio, zaxis, down, faults, late>>

\* _run_checked: an acknowledgement of before is forgotten, then the start is sent.
Starts(m) ==
  /\ queue' = [queue EXCEPT ![m] = IF down THEN @ ELSE Append(@, "new")]
  /\ ack' = [ack EXCEPT ![m] = NoAck]

\* _wait_for_swap_release: released, or the timeout.
Released ==
  /\ At("release")
  /\ \/ LineRead /\ ~swap /\ Starts("step") /\ Goes("ackStep")
     \/ (swap \/ down) /\ LineRead /\ Goes("failed") /\ UNCHANGED <<queue, ack>>
  /\ UNCHANGED <<runs, swap, probe, zaxis, down, stale, faults, late>>

\* _await_ack_ok: the acknowledgement or its error.  Faulty variant: the start that
\* was sent is enough.
Awaits(m) == At(IF m = "step" THEN "ackStep" ELSE "ackPres")
AckedSent(m) == ack[m].is = "none" \/ ack[m].ok
Acked(m)     == ack[m].is # "none" /\ ack[m].ok

Acknowledged(m) ==
  /\ Awaits(m) /\ Acked(m)
  /\ stale' = (stale \/ ack[m].is = "old")
  /\ \/ m = "step" /\ Starts("pres") /\ Goes("ackPres")
     \/ m = "pres" /\ Goes("armed?") /\ UNCHANGED <<queue, ack>>
  /\ UNCHANGED <<runs, swap, probe, zaxis, down, faults, late>>

\* A refused start, or none of its acknowledgement in time.
NotAcknowledged(m) ==
  /\ Awaits(m)
  /\ \/ ack[m].is # "none" /\ ~ack[m].ok /\ UNCHANGED late
     \/ ack[m].is = "none" /\ down /\ UNCHANGED late
     \/ ack[m].is = "none" /\ queue[m] # <<>> /\ late < MaxLate /\ late' = late + 1
  /\ Disarms /\ Goes("failed")
  /\ UNCHANGED <<runs, ack, swap, ratio, zaxis, down, stale, faults>>

\* The end of _arm: the line has to be idle still.
Arms ==
  /\ At("armed?") /\ LineRead
  /\ \/ ~swap /\ armed' = TRUE /\ Goes("move") /\ UNCHANGED queue
     \/ (swap \/ down) /\ Disarms /\ Goes("failed")
  /\ UNCHANGED <<runs, ack, swap, ratio, zaxis, down, stale, faults, late>>

\* home_start, and the move down to a height where the nozzle is pressed.  A trigger
\* needs both MCUs; one at work already, or a shutdown, ends the move with an error.
Moves ==
  /\ At("move")
  /\ \/ /\ ~down /\ ~swap /\ runs = Mcus /\ swap' = TRUE /\ UNCHANGED <<queue, armed, faults>>
        /\ \E h \in Heights : cmd' = [cmd EXCEPT !.at = "finish", !.end = "trigger", !.z = h]
     \/ /\ ~down /\ ~swap /\ (runs = Mcus => faults < MaxFaults)
        /\ faults' = IF runs = Mcus THEN faults + 1 ELSE faults
        /\ cmd' = [cmd EXCEPT !.at = "finish", !.end = "no trigger"]
        /\ UNCHANGED <<queue, armed, swap>>
     \/ /\ swap \/ down
        /\ cmd' = [cmd EXCEPT !.at = "finish", !.end = "error"]
        /\ UNCHANGED <<queue, armed, swap, faults>>
     \/ /\ down /\ IF armed THEN Disarms ELSE UNCHANGED <<queue, armed>>   \* home_start
        /\ Goes("failed") /\ UNCHANGED <<swap, faults>>
  /\ UNCHANGED <<runs, ack, ratio, zaxis, down, stale, late>>

\* probe_finish.  Who is no longer armed was shut down, and is not cleaned up.
Finishes ==
  /\ At("finish")
  /\ \/ armed /\ Disarms /\ Goes("cleanup")
     \/ ~armed /\ Goes("failed") /\ UNCHANGED <<queue, armed>>
  /\ UNCHANGED <<runs, ack, swap, ratio, zaxis, down, stale, faults, late>>

\* probing_move tries once more what did not trigger; homing does not come this way.
\* Faulty variant: however often it did not.
MayRetryAlways == ~down /\ homed /\ cmd.name # "G28"
MayRetry       == ~down /\ homed /\ cmd.name # "G28" /\ cmd.retry < Retries

\* The line is idle again: the touch counts, is retried or has failed.
CleansUp ==
  /\ At("cleanup") /\ LineRead
  /\ \/ ~swap /\ cmd.end = "trigger" /\ Goes("touched")
     \/ /\ ~swap /\ cmd.end = "no trigger" /\ MayRetry
        /\ cmd' = [cmd EXCEPT !.at = "touch", !.retry = @ + 1, !.end = "none"]
     \/ /\ swap \/ down \/ cmd.end = "error" \/ (cmd.end = "no trigger" /\ ~MayRetry)
        /\ Goes("failed")
  /\ UNCHANGED <<mcus, probe, zaxis, down, stale, faults, late>>

-----------------------------------------------------------------------------
(***************************************************************************)
(* Several touches: _multi_sample_probe_z.                                 *)
(***************************************************************************)
LastOf(n, q) == SubSeq(q, IF Len(q) > n THEN Len(q) - n + 1 ELSE 1, Len(q))

\* sorted(): the values as one of their orders puts them.
Orders(values) ==
  {p \in [DOMAIN values -> DOMAIN values] :
     /\ \A i, j \in DOMAIN values : i < j => p[i] # p[j] /\ values[p[i]] <= values[p[j]]
     /\ \A k \in DOMAIN values : \E i \in DOMAIN values : p[i] = k}
InOrder(values) ==
  LET p == CHOOSE p \in Orders(values) : TRUE IN [i \in DOMAIN values |-> values[p[i]]]

\* _best_subset, the tightest size values, in order; and their median.  Faulty
\* variant: the values are not put in order.
Tightest(s, size) ==
  LET width(i) == s[i + size - 1] - s[i]
      starts   == 1 .. Len(s) - size + 1
      first    == CHOOSE i \in starts : \A j \in starts :
                    width(i) < width(j) \/ (width(i) = width(j) /\ i <= j)
  IN  SubSeq(s, first, first + size - 1)
TightestUnsorted(values, size) == Tightest(values, size)
BestSubset(values, size)       == Tightest(InOrder(values), size)
Median(s) == (s[(Len(s) + 1) \div 2] + s[Len(s) \div 2 + 1]) \div 2
SampleRange(s) == s[Len(s)] - s[1]

Sampling == {"PRTOUCH_HOME", "SCAN", "TWIST"}
NextTouch(c) == [c EXCEPT !.at = "touch", !.retry = 0, !.end = "none", !.z = 0]

Sampled ==
  /\ At("touched") /\ cmd.name \in Sampling
  /\ LET collected == Append(cmd.collected, cmd.z)
         window    == LastOf(Samples + MaxNoisy, collected)
         found     == Len(window) >= Samples /\ SampleRange(BestSubset(window, Samples)) <= Tolerance
     IN  cmd' = IF found
                THEN [cmd EXCEPT !.at = "found", !.collected = collected,
                                 !.z = Median(BestSubset(window, Samples))]
                ELSE IF Len(collected) < MaxSamples
                THEN [NextTouch(cmd) EXCEPT !.collected = collected]
                ELSE [cmd EXCEPT !.at = "failed"]
  /\ UNCHANGED <<mcus, probe, zaxis, down, stale, faults, late>>

-----------------------------------------------------------------------------
(***************************************************************************)
(* The commands.                                                           *)
(***************************************************************************)
Ready(name) == At("idle") /\ ~down /\ name \in Commands
Began(name) == [Idle EXCEPT !.name = name, !.at = "touch"]
OnlyZ == UNCHANGED <<mcus, probe, down, stale, late>>

\* G28 Z: klippy sets a position to home from.
BeginG28 ==
  /\ Ready("G28")
  /\ cmd' = Began("G28") /\ homed' = TRUE /\ basis' = "seed"
  /\ OnlyZ /\ UNCHANGED faults

\* A Z that is not homed gets a seed.
SeedsZ == homed' = TRUE /\ basis' = IF homed THEN basis ELSE "seed"

\* PRTOUCH_HOME, and PRTOUCH_SCAN_CALIBRATE, which establishes a nozzle zero for
\* Cartographer.  The moves to the place may fail.
BeginHome ==
  /\ Ready("PRTOUCH_HOME") /\ SeedsZ
  /\ \/ cmd' = [Began("PRTOUCH_HOME") EXCEPT !.seeded = ~homed] /\ UNCHANGED faults
     \/ cmd' = [Began("PRTOUCH_HOME") EXCEPT !.seeded = ~homed, !.at = "failed"] /\ Fault
  /\ OnlyZ

BeginScan ==
  /\ Ready("SCAN") /\ SeedsZ
  /\ cmd' = [Began("SCAN") EXCEPT !.seeded = ~homed]
  /\ OnlyZ /\ UNCHANGED faults

\* The contacts of PRTOUCH_AXIS_TWIST_COMPENSATION; PRTOUCH_SCRUB, which homes first.
BeginTwist ==
  /\ Ready("TWIST") /\ cmd' = Began("TWIST")
  /\ OnlyZ /\ UNCHANGED <<zaxis, faults>>

BeginScrub ==
  /\ Ready("SCRUB") /\ homed /\ cmd' = Began("SCRUB")
  /\ OnlyZ /\ UNCHANGED <<zaxis, faults>>

\* Z is counted from a touch: of the homing move, or the median of those that agree,
\* after a seed is forgotten.
ZFromTouch == homed' = TRUE /\ basis' = "touch" /\ cmd' = Idle

Homed ==
  /\ At("touched") /\ cmd.name = "G28" /\ ZFromTouch
  /\ OnlyZ /\ UNCHANGED faults

HomeZeroed ==
  /\ At("found") /\ cmd.name = "PRTOUCH_HOME" /\ ZFromTouch
  /\ OnlyZ /\ UNCHANGED faults

\* _establish_nozzle_z_zero; the rest is Cartographer's calibration.
ScanZeroed ==
  /\ At("found") /\ cmd.name = "SCAN" /\ ZFromTouch
  /\ OnlyZ /\ UNCHANGED faults

\* A contact of Cartographer's macro, which asks for more or ends.
Contacted ==
  /\ At("found") /\ cmd.name = "TWIST"
  /\ cmd' \in {Idle, [NextTouch(cmd) EXCEPT !.collected = <<>>]}
  /\ OnlyZ /\ UNCHANGED <<zaxis, faults>>

\* PRTOUCH_SCRUB: six touches at the centre, every other with the ratio raised; two
\* on the line, and two after each of at most three wipes, which have to agree.
Raised(n)    == n \in {2, 4, 6}
WipeEnds(n)  == n \in {10, 12, 14}
LineTried(n) == n \in {8, 10, 12, 14}

Scrubbed ==
  /\ At("touched") /\ cmd.name = "SCRUB"
  /\ LET n == cmd.touches + 1 IN
     \/ /\ n < 14
        /\ cmd' = [NextTouch(cmd) EXCEPT !.touches = n]
        /\ ratio' = Raised(n + 1) /\ UNCHANGED faults
     \/ WipeEnds(n) /\ cmd' = Idle /\ ratio' = FALSE /\ UNCHANGED faults
     \/ LineTried(n) /\ Fault /\ cmd' = [cmd EXCEPT !.at = "failed"] /\ ratio' = FALSE
  /\ UNCHANGED <<mcus, armed, zaxis, down, stale, late>>

\* What a failed command undoes: the ratio; who is armed is disarmed by
\* multi_probe_end; a seed is forgotten; and a G28 that failed turns the motors off,
\* with _force_disarm, except when klippy is down.  Faulty variant: the seed stays.
UnhomesG28 == cmd.name = "G28" /\ ~down
Unhomes    == cmd.seeded \/ (cmd.name = "G28" /\ ~down)
Fails ==
  /\ At("failed")
  /\ IF armed \/ (cmd.name = "G28" /\ ~down) THEN Disarms ELSE UNCHANGED <<queue, armed>>
  /\ IF Unhomes THEN homed' = FALSE /\ basis' = "none" ELSE UNCHANGED zaxis
  /\ ratio' = FALSE /\ cmd' = Idle
  /\ UNCHANGED <<runs, ack, swap, down, stale, faults, late>>

\* stepper_enable:motor_off, at M84 or when the printer idles.
MotorOff ==
  /\ At("idle") /\ ~down /\ homed
  /\ Disarms /\ homed' = FALSE /\ basis' = "none"
  /\ UNCHANGED <<runs, ack, swap, ratio, cmd, down, stale, faults, late>>

\* FIRMWARE_RESTART after a shutdown.
Restart ==
  /\ down /\ At("idle")
  /\ down' = FALSE /\ homed' = FALSE /\ basis' = "none" /\ stale' = FALSE
  /\ ack' = [m \in Mcus |-> NoAck]
  /\ UNCHANGED <<queue, runs, swap, probe, cmd, faults, late>>

Next ==
  \/ \E m \in Mcus : McuStarts(m) \/ McuStops(m) \/ Acknowledged(m) \/ NotAcknowledged(m)
  \/ Noise \/ Shutdown \/ Restart \/ MotorOff
  \/ TouchBegins \/ Released \/ Arms \/ Moves \/ Finishes \/ CleansUp
  \/ BeginG28 \/ BeginHome \/ BeginScan \/ BeginTwist \/ BeginScrub
  \/ Sampled \/ Homed \/ HomeZeroed \/ ScanZeroed \/ Contacted \/ Scrubbed \/ Fails

Spec == Init /\ [][Next]_vars

-----------------------------------------------------------------------------
(***************************************************************************)
(* Properties.                                                             *)
(***************************************************************************)

\* Each variable keeps its type, and no command outlives its touches: the samples, the
\* retries and the scrub's touches stay within their limits (_multi_sample_probe_z,
\* probing_move, cmd_PRTOUCH_SCRUB).
TypeOK ==
  /\ \A m \in Mcus : /\ \A i \in DOMAIN queue[m] : queue[m][i] \in {"new", "old", "stop"}
                     /\ ack[m] \in [ok : BOOLEAN, is : {"none", "new", "old"}]
  /\ runs \subseteq Mcus /\ {swap, armed, ratio, homed, down, stale} \subseteq BOOLEAN
  /\ basis \in {"none", "seed", "touch"}
  /\ cmd.name \in Commands \cup {"none"} /\ cmd.seeded \in BOOLEAN
  /\ cmd.at \in {"idle", "touch", "release", "ackStep", "ackPres", "armed?", "move",
                 "finish", "cleanup", "touched", "found", "failed"}
  /\ cmd.end \in {"none", "trigger", "no trigger", "error"}
  /\ cmd.retry \in 0..Retries /\ cmd.touches \in 0..13 /\ Len(cmd.collected) <= MaxSamples

\* The nozzle only moves down while the step MCU captures and the pressure MCU watches
\* (_arm: "both MCUs must ack start ok ... Probe motion is only allowed after this
\* returns"), except where the acknowledgement of an earlier start was taken for that
\* of the last (_await_ack_ok cannot tell them apart), or the printer shut down since.
MotionArmed == At("move") => runs = Mcus \/ stale \/ down

\* Between commands nothing is left armed, whatever failed: klippy does not think it
\* is, the last thing each MCU did or will do is stop, and the trigger threshold that
\* PRTOUCH_SCRUB raises is the normal one (_disarm, multi_probe_end, _scrub_probe).
DisarmedAtRest ==
  At("idle") /\ ~down =>
    /\ ~armed /\ ~ratio
    /\ \A m \in Mcus : IF queue[m] = <<>> THEN m \notin runs ELSE queue[m][Len(queue[m])] = "stop"

\* A position that was made up so that the probe may move is never left as the homed
\* one: at rest Z is homed only by a touch (_seed_z_homed_if_needed, the finally of
\* cmd_PRTOUCH_HOME and _establish_nozzle_z_zero, and klippy's G28).
SeedNeverKept == At("idle") /\ ~down /\ homed => basis = "touch"

\* Touches agree exactly when some Samples of the last Samples + MaxNoisy are within
\* Tolerance of each other, and Z is counted from a height among those; as long as
\* none do another touch is made (_multi_sample_probe_z, _best_subset).
Agreed(q) ==
  {S \in SUBSET DOMAIN q :
     Cardinality(S) = Samples /\ \A i, j \in S : q[i] - q[j] <= Tolerance}
ZeroAgreed ==
  LET window == LastOf(Samples + MaxNoisy, cmd.collected) IN
  /\ At("found") => \E S \in Agreed(window) : \E i, j \in S :
                       window[i] <= cmd.z /\ cmd.z <= window[j]
  /\ At("touch") /\ cmd.collected # <<>> => Agreed(window) = {}
=============================================================================
