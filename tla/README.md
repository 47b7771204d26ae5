# Verification of the K2 CFS stack

This directory holds a TLA+ verification project for the printer software in
`src/`: klipper extras for the Creality K2 that drive CFS filament boxes, the
closed-loop motors and a pressure probe over one RS-485 bus. The specifications
are written from the Python source; TLC checks them on small instances, and
TLAPS proves every safety property that holds, and the refinement, for every
value of the constants.

## The system

All extras run inside klippy: one *reactor* thread runs timers, callbacks and
G-code commands as greenlets, which switch only where they wait. The transport
adds two OS threads. Everything that touches hardware goes through the
transport's queue.

| component | source | state | operations | talks to |
|---|---|---|---|---|
| RS-485 transport | `files/serial_485.py` | port, `_connected`, reader, worker, `_request_queue`, `_active_request`, `_request_session`, `_rx_frames`, two stop flags, `_connect_lock` | submit, session begin/end, worker loop, reader loop, connect, disconnect, shutdown | every device driver (calls and completions), klippy lifecycle events, emits `serial_485:ready` |
| frame parser | `files/serial_485.py` | `_rx_buffer` | `_extract_one_frame`, `_feed_rx` | reader thread |
| protocol codec | `files/box_protocol.py` | none | decode replies, `BoxDriver` exchanges | transport |
| box enumeration | `files/box_addr.py`, `Box._enumerate` | local maps `known`, `online`, `occupied`; the persisted map | query, discover, assign, verify, save | transport, store |
| live state and tracking | `files/box.py` | `snapshot`, `box_replies`, `tracking_owner`, `tracking_epoch`, `path_owner`, `fault_episodes`, `fault_generation`, runout latch, clog baseline | `_poll`, `read_live_state`, `_observe_fault`, `_check_clog` | box drivers, change engine, `PAUSE` |
| physical operations | `files/box.py` | `operation_depth`, sensor enable, `hotend_feed_pending` | `physical_load`, `physical_unload`, `retract_for_cut`, `_recover_loaded_path` | box drivers (a whole load stage sequence in one session), tracking |
| change engine | `files/box_change.py` | `pending` request with its checkpoints, `resume_recovery`, `resume_prepared` | `change`, `unload`, `runout`, `block_resume`, `resume_check` | physical operations, `PAUSE`/`RESUME` |
| store, RFID | `files/box.py` | JSON file, RFID watch and pending sets | setters, presence reconciliation, RFID reads, spoolman thread | box drivers, HTTP |
| motor control | `files/motor_control.py` | startup step index, three timers, pending cleanup, protection poll, stall monitors, parameter registry | startup and retry, poll, stall query, cleanup, clear, check after homing, guard of `RESUME` | transport, nozzle MCU, homing, `PAUSE`, shutdown |
| PRTouch | `files/prtouch.py` | `_armed`, acknowledgements of two MCUs, hold ratio, outcome of the last touch | arm, disarm, touch and retry, sampling, five commands | step MCU, nozzle MCU, homing, toolhead |
| LED idle manager | `files/led_idle_manager.py` | enabled, `manually_off`, last activity, believed light | timer, user activity, commands | `SET_PIN` |
| force-stop homing | `files/force_stop_homing.py` | none | one endpoint | homing object |
| motion limits | `files/motion_limits.py` | dictionary of saved limits | save, restore | `SET_VELOCITY_LIMIT` |
| others | `lis2dw.py`, `box_catalog.py`, macros, scripts, `c_helper.so` | | | |

What is hard, and what makes each component correct:

* **Transport.** Three threads and several locks; the shutdown handler waits for
  the worker under a lock the worker may want; sessions reorder the queue;
  answers are late, lost or surplus and carry no sequence number; port and
  reader fail at any time. Correct means: it implements the service
  `BusService`; no request is lost and every one completes; an answer belongs
  to the request as far as address and function tell; one reader at a time;
  (almost) nothing is sent after a shutdown.
* **Enumeration.** Boxes are power-cycled and klippy restarts between any two
  exchanges, exchanges time out, answers come late. Correct means: distinct
  addresses, every box found, drivers only for boxes that are where they are
  thought to be, and a persisted map without duplicates or forgotten boxes.
* **Live state and physical operations.** `read_live_state` waits between its
  queries, so a poll that is under way mixes with a command that starts; stages
  move filament whether or not their reply arrives; a fault or a `PAUSE` comes
  between any two exchanges. Correct means: two filaments never share the tube,
  what an operation reports has happened, a runout belongs to the path it ended,
  and a fault that is latched is there.
* **Change engine.** Long sequences with a failure possible after every step,
  retries that must not repeat irreversible steps, pauses requested in the
  middle, and resume blocked until the cause is gone.
* **RFID.** Spools are exchanged between polls and during loads that suspend
  them; the box answers from a cache, and Spoolman answers late. Correct means:
  percentage, profile and the expected answer are of the spool that is there.
* **Motors.** Three timers, an async query per stall pin and the commands all
  wait for one lossy bus, and may start each other again. Correct means: ready
  only after every startup step was tried, an error is never left to itself, and
  a print resumes only with an extruder seen clear.
* **PRTouch.** Two MCUs form one endstop; acknowledgements come late, twice or
  not at all; touches fail and are retried. Correct means: no downward move
  unless both are armed, nothing left armed, no made-up position left homed, and
  a zero that the touches agree on.

## Modules

| module | models | proofs |
|---|---|---|
| `BusService` | the transport's promise (abstract) | |
| `Serial485` | the transport | `Serial485_proofs` |
| `Serial485_service` | the refinement mapping from `Serial485` to `BusService` | `Serial485_service_proofs` |
| `BoxAddr` | the enumeration | `BoxAddr_proofs` |
| `BoxPath` | live state, tracking and physical operations of the boxes | `BoxPath_proofs` |
| `BoxRfid` | presence, RFID and profiles of the slots | `BoxRfid_proofs` |
| `BoxChange` | the change engine | `BoxChange_proofs` |
| `MotorFaults` | startup and protection of the motors | `MotorFaults_proofs` |
| `PRTouch` | the nozzle probe and its commands | `PRTouch_proofs` |

Each `X_MC` extends `X` for TLC (symmetry sets and small functions only).
Definitions keep the names of the source; `PROJECT.json` maps each to its lines.
Operators marked "Faulty variant" are plausible mistakes kept beside the
definition they would break, to show that a property notices them.

### Serial485

The threads are the reactor thread (all greenlets, and the lifecycle handlers
during which no greenlet runs), the request worker and the reader.
`pc["reactor"]` and `pc["worker"]` say where two of them are; the reader's loop
has one state. A step ends where another thread can see the difference: at lock
operations, blocking calls, and the reads and writes of shared fields that are
not under the lock (`_ensure_connected` and `_write_frame` read `_serial` that
way). What the code does in one critical section is one step.

* The queue is the set of request ids, since ids are handed out and appended in
  the same order. A session token is the identity of its `begin` request.
* A frame is its address and function, and, invisible to the code, the request
  and attempt it answers and the request that was active when it was queued.
* `WriteFrame` lets any subset of the addressed devices answer, at any later
  time or never; a retried request can thus be answered twice.
* `thread.join(timeout=1.0)` of the worker has two outcomes; a timeout is possible
  whenever the worker is still alive. The reader's join waits for the reader,
  whose read returns within `read_timeout` (50 ms).
* `klippy:firmware_restart` is followed by `klippy:disconnect`; a plain restart
  only sends the latter. `klippy:shutdown` happens at most once. Greenlets stop
  when the host has ended; after a shutdown they run but submit nothing.

### BusService and Serial485_service

The service knows requests, sessions and transmissions, and neither threads nor
frames: the oldest allowed request is served, only it is transmitted, it ends
once, and only a stop refuses what waits. `Serial485_service` maps `outcome`,
`req`, `active`, `session` and `txn` to it; `sent` is computed from the
worker's place and attempt. Every step of the threads is a step of the service
or invisible to it.

### BoxAddr

One exchange on the bus per step of `enumerate`, so restarts and power switches
fall between any two. A box forgets its address when it loses power, and
discovery names one unaddressed box at a time (the comment at
`box_addr.py:66`): both are facts about the boxes, outside this repository.
From some time on (`BusDegrades`) the bus may lose a request or reply, and a
query's answer may arrive late enough to be taken for the answer to the
verification of that address.

### BoxPath

What the box really does (`box`, `path`, `head`: its state, the filament in its
hub, the filament at the printhead) against what `Box` believes (`owner`,
`pathOwner`, `episodes`, `runout`). The poll and one operation each read the
boxes reply by reply (`read`), and every stage of `physical_load`,
`physical_unload`, `retract_for_cut` and `_recover_loaded_path` is one exchange
on the transport, whose effect and whose reply are chosen apart: the effect may
happen without a reply. `turn` is the transport's queue, as far as it decides
who may exchange next.

* A poll that runs when an operation begins goes on reading; no new one begins
  (`Operating`). The cut reads ahead, before it excludes the poll.
* `op.abort` stands for `fault_generation` having moved or a `PAUSE` having been
  requested since the operation began: `check_operation_abort` tests both.
* `MaxLost` bounds how many replies to a reading are lost; lost replies of
  stages are not bounded. `Statuses` are the fault codes, by kind.
* `PathExclusive` is stated for boxes that all answered: a box that misses its
  query counts as empty. `FaultTrue` excepts a reading that the cut overlaps.

### BoxRfid

A slot's spool (`inside`), what the box's reader holds of it (`cache`) and has to
report (`event`), against the record `Box` keeps (`slot`). Two greenlets, the
poll and the command, take turns at the bus (`proc`); the reading of a
snapshot, the insert and remove events, the watch over a pending RFID, the
refresh of percentages, the sample of a load and a forced read are steps of one
exchange each. `asked` are the requests to Spoolman that are under way, with
whether their token is current. `since` is history: the spools that were in the
slot since `Box` last took note of a change. `MaxFuss` bounds the spools moved,
the exchanges that stay unanswered and the user's commands, taken together.

### MotorFaults

Timers are a set of armed names; a handler's timer is disarmed while it runs and
set to what the handler returns, whatever happened to it meanwhile, as klippy's
reactor does. Each wait for the bus ends a step: a startup step, a clear and a
verify of the cleanup, one read per motor of the poll, the recovery of the
extruder, and the parts of each command. A query is answered or not; a clear,
which is not acknowledged, may clear any part of what it was sent to.

* `_startup_steps` is abstracted to a step that checks and clears the latches and
  one that configures; `startup.index` runs over them as in the code, where
  `MOTOR_RETRY_STARTUP` during a step advances it twice.
* At most one cleanup handler waits for the bus; the poll never overlaps itself.
  After a shutdown commands are not followed further.
* `Populated = FALSE` (a base K2 without z motors on the bus) would make every
  query of all axes fail; the runs use TRUE.
* The homing object is klipper's v0.13; a homing move ends or fails.

### PRTouch

The two MCUs do what they are sent in order, at any later time, and acknowledge
a start when they get to it; a start is "new" while the greenlet waits for it,
so that the acknowledgement of an old one can be told from it by the model and
not by the code. One touch is `_arm` (release of the line, start of the step
MCU, start of the pressure MCU, a last look at the line), the homing move,
`probe_finish` and the verdict of `probing_move`. The commands are sequences of
touches; klippy's own homing (`BeginG28`, `Homed`) and the moves are external.

* Heights are small numbers; `Tolerance` is the allowed range of the samples.
* `MaxFaults` bounds noise, refused starts, touches without trigger and failed
  moves; `MaxLate` the acknowledgements that miss their timeout.
* `no_trigger_retry_max_distance` is assumed met, and `PRTOUCH_SCRUB` starts with
  Z homed (`HOME_IF_NEEDED` is external). A restart follows every shutdown, so
  deadlock is checked.

### BoxChange

Commands run one at a time under klippy's G-code mutex, so `cmd` is the running
command and its phase: decide, unload, load, flush, final temperature, finish,
end. Concurrency comes from the poll, which latches faults and clogs between any
two steps, from the user's pause and from hands at the external spool; every
phase may fail after any part of its work.

* `pending` is the engine's `ChangeRequest`, `recovery` its `resume_recovery`,
  `store` the persisted last slot and feed mark plus `prepared_epoch`
  (`primed`). `inherited` and `filament.tip` are history: the code does not see
  them, the properties do.
* A physical operation is one step with the states it may leave: complete
  (`PhysicalLoad`, `Pull`, `Retract`, `Cut`) or, when it fails, any member of
  `Residue`, such as a loaded path whose tracking is on but whose feed was not
  noted. `StepFails` then does what the exception handlers do.
* `host` is klippy's print and pause state and the toolhead's place: at the part
  or away from it. `PAUSE` and `RESUME` are the macros of `config/macros.cfg`.
* Assumed of the environment: Z is homed; all slots are online; a purge between
  different slots is longer than zero; while a print runs, commands come from
  the print file, and none starts once a pause has been sent.
* Left out: purge volumes and temperatures, heater targets, `resume_prepared`
  and `prepared_filament`, `parse_flush_volumes`, the power-loss commands.

## Runs

| run | instance | shows |
|---|---|---|
| `serial_sessions` | 2 clients, 3 requests, 1 attempt, deque of 2, fair threads | the transport implements `BusService`; no request lost, each completes; handlers return; at most one frame after a stopping handler; no stale frame returned |
| `serial_answers` | 1 client, 2 devices, one addressed and one broadcast target, deque of 1, 2 requests of up to 2 attempts | which late or surplus frames a request may return; bounds and types; readers never overlap, whatever fails |
| `addr_boxes` | 3 boxes (symmetric), 2 addresses, 2 wanted, a bus that degrades at some time | distinct addresses and complete enumeration until then; always a sound persisted map and drivers only for boxes at their address |
| `box_path` | 2 boxes of one slot each, external spool, one box that fails, one lost reading | filaments do not meet, verified operations have happened, the runout is of its path, a latched fault is there |
| `box_rfid` | 1 slot and the external spool, 2 spools (the tag of one names a Spoolman spool, the catalogue knows the other), 3 disturbances | percentage, profile and expected answer are of the spool that is there |
| `change_retries` | 2 slots (symmetric), T commands with and without flush | checkpoints over retries and replacements: no second retract or cut, own checkpoints true, nothing left unfed; a user's pause kept |
| `change_manual` | 1 slot, external spool, `BOX_LOAD`, `BOX_UNLOAD`, no cutter | an unfinished change blocks `RESUME` under its own target; the sensor is enabled again; a print goes on where it was left |
| `motor_startup` | 1 kinematic motor and the extruder, 2 startup handlers (symmetric) | ready means every step was tried; a print resumes only with an extruder seen clear |
| `motor_live` | 1 kinematic motor and the extruder, fair reactor | an error ends in a shutdown or is cleared |
| `prtouch` | 5 commands, 3 heights, 2 of 3 samples to agree, 1 retry, 3 faults, 2 late acknowledgements | no move unless both MCUs are armed; nothing armed or made up is left; zero is what touches agree on |
| `change_unfed` | 2 slots | **violation**: a retry reports success with the filament at the gears |
| `motor_home` | 1 kinematic motor | **violation**: the check after homing clears nothing |

Bounds. `MaxReq` bounds the requests of a behaviour: a session needs two ids, so
three allow a session of one client against another client's request. Two allow
a request, its late answer and the request that could take it for its own;
`MaxAttempts` 2 makes a retry, and up to four frames for a deque of one or two.
Two devices and one function are enough to distinguish a right from a wrong
sender. In `BoxAddr` three boxes compete for two addresses, so that one is
always new, off or in another's way; the number of restarts and power cycles is
not bounded. In `BoxPath` two boxes with a slot each are what can meet in the
tube, and one that fails is enough, since faults are kept per box. In `BoxRfid`
two spools can be taken for each other, and three disturbances allow an
exchange during a read and a command before its answer. In `BoxChange` two slots
are a source and a target, and the way back; with the external spool one slot
suffices. Nothing is bounded there: requests, retries, faults and prints go on
for ever, in a finite state space. `ResumeChecked` lets the user heed "Resume
blocked". In `MotorFaults` the number of errors, retries and lost replies is not
bounded; two handlers are the most that `MOTOR_RETRY_STARTUP` makes overlap
before one of them ends. In `PRTouch` a window of three samples of which two
have to agree, among three heights of which one is far from the others, makes
agreement come at once, late or never.

Deadlock is not checked in the transport's runs (a host that has ended, or has
used up `MaxReq`, stops) and in those of the motors (klippy stays shut down).

Fairness. `serial_sessions`: the operating system runs the worker, the handlers
and the reader's exit; the reactor resumes a greenlet whose completion is done
and a `with` block is left eventually. Nothing is assumed of klippy's events,
the devices, the wire or of which way a race goes. `motor_live`: the reactor runs
timers and callbacks that are due, a homing move ends, and the bus, asked again
and again, answers a query and delivers a clear in the end (strong fairness,
per motor). The moves that hold back a cleanup end again and again: without that
the code waits as well. No command and no print has to make progress.

### Disagreements between code and text

Checked by a run:

* `change_unfed`: a load that ends between `activate_tracking` and
  `mark_hotend_feed_pending` is taken for a primed one by the retry. A print
  that has not been primed yet is spared: `_print_needs_prime` forces the flush.
* `motor_home`: `cmd_MOTOR_CHECK_PROTECTION_AFTER_HOME` calls
  `query_protection_status`, which `MotorAxisController` does not have; the
  exception is reported as a bus timeout and nothing is cleared. Stalls during
  homing are left to that command. `FaultAnswered` shows that the poll finds
  them later.

Met while modelling, and visible in the models:

* The worker reads `_connected` without the lock and waits for `_connect_lock`,
  which the shutdown handler holds while it joins the worker for one second
  (`serial_485.py:415`); the worker then reopens the port and sends its frame,
  although the transport reports itself unavailable after a shutdown
  (`serial_485.py:596`). `OneLateFrame` shows that one frame is the limit.
* Offline identities are documented as soft reservations (`box_addr.py:29`), but
  the fallback address ignores the persisted map (`box_addr.py:87`), so a new
  box can get the address of one that is off while another is free.
* `_BOX_RESUME_CHECK` guards `RESUME` by its description (`box.py:521`) and by
  the engine's messages (`box_change.py:564`, `579`), but the `RESUME` macro
  (`macros.cfg:168`) and all others never run it.
* Checkpoints name a slot (`box_change.py:186`), though only the position is said
  to be retained (`box_change.py:66`). T1 fails after T0 was unloaded; T0 is
  loaded again and fails at its flush; T1, whose request inherited "T0 is
  retracted and cut", lets the box pull at the uncut filament.
  `OwnCheckpointsTrue` shows that only inheritance does this.
* `flush_done` outlives a `BOX_UNLOAD` between two attempts, so the retry loads
  the filament again and does not flush it. `FeedNotForgotten` therefore holds
  in `change_retries`, where changes are the only commands.
* `_arm` promises that motion is only allowed after both MCUs acknowledged
  (`prtouch.py:457`), but acknowledgements name only MCU and kind of start: one
  that comes after its timeout satisfies a later start (`prtouch.py:295`).
  `MotionArmed` shows that nothing else lets the nozzle move unarmed.
* A load that succeeds ends the runout but keeps its key (`box.py:2676`), and a
  reading that the cut overlaps may use replies older than its silencing of the
  box (`box.py:2289`), though a snapshot is meant to be of one moment.
* Motors: the startup timer is armed again by the value its handler returns after
  `_handle_shutdown` had set it to never; a cleanup drops the axes scheduled
  while it waited (`motor_control.py:4065`), which the poll finds again; the
  comment of the stall handler rules out blocking queries during homing
  (`motor_control.py:4540`), which the poll makes.
* RFID: `BOX_SLOT_SET` leaves the Spoolman request of the slot valid, so its
  answer overwrites what the user set; an unknown tag is remembered after its
  spool left, and a mapping added later is applied to the spool that is there.

## Proofs

Every invariant and action property of the passing runs is a theorem, and so is
the refinement of the transport. The theorems hold for every value of the
constants under the named assumptions of the modules: `BoundsAssumption` and
`AddressAssumption` (`Serial485`), `BoxAssumption` (`BoxAddr`), `SlotsAssumption`
(`BoxChange`, `BoxPath`), `NoneAssumption` (the same two), `SpoolsAssumption`
(`BoxRfid`), `MotorsAssumption` and `SamplesAssumption` (`PRTouch`). They say that
model values that must differ do, that bounds are numbers, and what the
configuration enforces (`home_max_samples` is at least `home_samples`). The TLC
bounds `MaxReq`, `MaxLost`, `MaxFaults`, `MaxLate`, `MaxFuss` may be any number.

In each proof module a type invariant comes first, then the inductive invariant
of each property with one step per action, then the theorems. What the
invariants add, and why it is needed:

* `Serial485_proofs`. `TypeInv` adds what keeps types inductive: the worker holds
  a request exactly between pop and completion, nothing refers to an id not yet
  submitted, only data requests are exchanged with a device. `NoRequestLost`:
  four ways a request moves, everything else is a bystander. `OneReaderThread`:
  the mutual exclusion of `_connect_lock`, and a reader without a port is being
  joined by the owner of the lock. `LateFrameIsLast` (`DownInv`): once a stopping
  handler is past its join the queue takes nothing more, and the worker's one
  request is sent at most once because a retry first sees the flag.
  `AnswersAreCurrent` (`CurrentInv`): everything in the deque was queued after
  the request that transmits or waits had cleared it. `AnswersFit` (`FitsInv`) counts answers: a
  request sent once to one device has one answer, and it is on the wire, in
  the deque or returned, never two of these.
* `Serial485_service_proofs`. `ServesItsUsers`: each thread's step is a submit, an
  end, a serve, a refusal, a control or a transmission of `BusService`, or
  invisible to it. It rests on `TypeInv`, on the conservation of requests, and on
  `DeadIdle`: a worker that has exited leaves no request in the queue.
* `BoxAddr_proofs`. `SavedUnique`: the local copy is unique because `Remember` is.
  `OnlineTruthful`: the verification names the box, and a late answer can only
  name one that had that address. `DistinctAddresses`: without losses `occupied`
  holds every address in use when one is assigned. `NobodyForgotten`, unless
  a box is switched meanwhile: until it is saved the local map only differs from
  the store by what was learned (`LearnedOnly`), and what left an address was
  entered at another (`NobodyLost`). `FindsEveryBox`, for finitely many
  boxes: every box powered throughout is counted in `online`, or still to be
  queried or discovered (`Counted`, `Progress`), so that a loop that ends has found
  the wanted number of boxes, has no address left, or has no box left.
* `BoxChange_proofs`. `RequestsStayLocked`: a step finds `pending` unlocked only
  while a command works on it (`LockKept`), and that command's failure locks it
  because a request made or taken over in a print has `printContext`
  (`ForPrint`); a retry that a lock allows has a target (`RetryKnown`).
  `SensorNeverBlind`: an unload found the sensor enabled, so what it restores
  is enabled (`SensorKept`). `RetractedAndCutOnce` (`TipKept`): a tip that is
  retracted or cut is in the checkpoints of the request that is pending.
  `CheckpointsTrue` (`CheckpointKept`), `UsersPauseStays` and `ResumesAtThePart`
  (`PauseKept`, `PlaceKept`) and `NoFeedForgotten` (`FeedKept`) relate request,
  recovery, host and filament in the same way.
* `BoxPath_proofs`. `PathStaysExclusive` and `Delivered` need that what an
  operation reads is still so when it acts: the poll's reading is the further one
  of two that overlap (`Nested`), no filament moves while an operation reads
  (`ReadInv`), and a load that found the tube free keeps it (`PathInv`,
  `LoadInv`). `RunoutIsOfPath` needs only `RunoutInv`. `FaultsAreTrue`: a box seen
  failed stays failed until its fault is cleared, which the reading excludes
  (`BoxInv`).
* `BoxRfid_proofs`. The box keeps the record of the spool before. `SpoolsOfSlot`
  and `ProfilesOfSlot` rest on `Good`: whenever the code would use a record (the
  slot is live, it was seen without a record, or the record differs from the
  snapshot), the reader has read the tag since the last change `Box` noted.
  `RecordsHeld` says the same of a forced reading, which compares nothing, and
  `AtStart` that nothing is believed before the start's first query.
* `MotorFaults_proofs`. `StartupComplete` (`OneByOne`): without an overlap one step
  runs at a time and `index` is the number of steps tried. `ResumeIsClean`
  (`LatchInv`): an extruder that has not been clear since the command began
  is still latched.
* `PRTouch_proofs`. `RestIsDisarmed`, `MovesArmed` and `SeedForgotten` need the
  order in each MCU's queue (`QueueInv`: only the last start is new, and a stop
  comes last at rest), what an acknowledgement then proves (`StartInv`), and
  which command may leave a made-up Z (`CommandInv`). `ZeroFromAgreement` needs
  that sorting the window finds the tightest touches. What `sorted` returns is
  an order of its argument (`Orders`); this, and that a smallest window exists,
  is proved for every length by the least number principle, since the
  library's induction theorems cannot be instantiated.

Four theorems are conditional, and the runs of these properties meet the
conditions:

* `UsersPauseStays`, `ResumesAtThePart`: `ResumeChecked`, that is `RESUME` is only
  given when `_BOX_RESUME_CHECK` lets it. The macro itself does not ask.
* `CheckpointsTrue`: `"BOX_LOAD" \notin Manual`. `BOX_LOAD` feeds filament that a
  pending request has noted as retracted.
* `NoFeedForgotten`: `ResumeChecked` and `Manual = {}`, because of `BOX_UNLOAD`
  after the flush (above).

What the proofs showed about the models, since corrected:

* `_startup_step_index` has no bound: with three overlapping handlers it passes
  the number of steps by more than one. The type had said otherwise, and two
  handlers could not tell.
* `FaultTrue` held only because `MaxLost` was 1: with more lost replies a reading
  may still touch an episode of an earlier epoch. It now speaks of episodes of
  the current one, the ones that pause the print.
* What a reading observes (`Observed` in `BoxPath`) was a `CASE` with overlapping
  guards, where the code's `if` and `elif` decide.
* That the external spool is no slot, and "none" and the like are no spool or
  reply, was tacit; the assumptions now say so.

Only model-checked: the liveness properties (`EveryRequestCompletes`,
`HandlersReturn`, `FaultAnswered`), which are out of the prover's reach, and the two
runs that find violations. No module uses a recursive operator.

## Plan

What is left:

1. The late cases the conditional theorems exclude, as theorems of their own:
   what `BOX_LOAD` and `BOX_UNLOAD` between two attempts can still not break.
2. Lemmas towards liveness that are safety: a stopped worker with a queue is
   always about to be revived, and a latched motor always has a timer, a
   cleanup or a poll that will look at it.
3. The hazards without a property: the parser's loop on bytes, and the fallback
   address against the persisted map.

## Not modelled

* Frame parser: one thread scanning one buffer. A frame it holds back until more
  bytes arrive is, for the transport, one the wire delays.
* Protocol codec, catalogue, parameter decoding: stateless.
* LED idle manager, motion limits, force-stop homing: one actor and no step that
  waits. (Within a second of `LED_IDLE_MANAGER_STATUS` a user's `SET_PIN 0` is
  ignored, so the timer may turn the light on again.)
* Of the motor control: what a startup step writes, the parameter and debug
  commands, calibration of the cutter, and the power-loss commands of the box:
  each one exchange and a message, or arithmetic.
* `lis2dw.py`, the compiled stepper helper, scripts, macros other than those
  named above, and klipper itself, whose behaviour appears as the events it may
  send.
