# FlyingSquirrel in TLA+

FlyingSquirrel runs on a companion computer beside an autopilot. It integrates
the IMU into a dead-reckoned track, compares every GPS fix with it, and, when
the two disagree for long enough, tells the autopilot to stop using GPS, tells
it to return, and checks that it did both. This directory models the parts of
that program that decide and that run concurrently, checks them with TLC on
small instances, and proves the central results with TLAPS for all values of
their constants.

Paths below are relative to `src/src/` of the repository, except those that
begin with `watch/`, which are relative to `src/`.

## 1. The system

```
 serial GPS ----\                              /--> sever_gps, engage_rtb --> autopilot
 I2C IMU --------+--> ingest --> Fusion -------+--> read-back tasks <-- monitor
 MAVLink socket -/   (bounded   (dead reckoner,+--> forensic dump           ^
        |             channels)  detector)     \--> events --> log          |
        |---- heartbeats, acknowledgements, parameter echoes ---------------/
        \---- heartbeats --> monitor --> link watchdog --> events --> log --> dashboard
 operator: reset --> Fusion        signal, dead task --> supervisor --> shutdown
```

| Component (code) | State | Operations | What is hard | What makes it correct |
|---|---|---|---|---|
| Detector (`detect/state_machine.rs`) | state, start of the dwell, clean streak, dropout streak, pause budget | `evaluate`, the per-fix flags, veto or commit of a clearing, `manual_reset` | long sequences of legal fixes: gaps pause the dwell, vetoes undo a clearing, stamps repeat or step back | the dwell of an episode is cumulative; a sustained attack latches within a bound; only the operator releases a latch |
| Fusion (`fusion.rs`) | preflight, last fix time, IMU snapshots, one detector, one reckoner, one controller | `on_imu`, `on_gps`, preflight, response to a latch, operator reset | suspended at awaits; several early returns on which state must agree | each latch is answered once, sever before return; no aiding under suspicion; silent before preflight is done |
| Dead reckoner (`nav/`) | attitude, velocity, position, anchor, copy of the detector's state | static initialisation, `step`, `on_gps_fix` | which path anchors, which blends | follows the detector |
| Clock aligners and residual buffer (`mav/mod.rs`, `detect/residual.rs`) | one anchor per stream; times of snapshots | `align`, `push`, `interpolate`, `clear` | autopilot reboots, clock drift, delayed and reordered messages | stamps near arrival; a fix is compared with fresh snapshots around it |
| Flight controller (`mav/controller.rs`) | send times, echo baseline | `sever_gps`, `engage_rtb`, `verify_*`, `reset` | read-backs overlap resets and the next latch | a confirmation rests on later evidence of that very latch |
| Monitor (`mav/monitor.rs`) | separate atomics and a bounded echo table; source lock | `record_*` | stores of one message interleave with a poll's loads; eviction | what a verifier takes for evidence came after its command, although a poll may pair a new time with an old mode |
| Listener and ingest (`mav/mod.rs`, `ingest/`) | bounded channels | receive, filter, lock, record, send | a send into a full channel stops reception | one peer; a send into a stream that is read always gets its room |
| Supervisor and shutdown (`bin/flyingsquirrel.rs`, `runtime.rs`) | join handles, background tasks, events | `select`, join Fusion, drain, flush, exit, drop of the runtime | a task may end at any moment; the dump or the log may hang | main is done in bounded time; the event trail is complete |
| Forensic dump (`forensic.rs`, `fusion.rs`) | one claim per process; the files | claim, create, write, sync, rename, sync of the directory, give the claim back | failure after a reset; failure, abort or death between two file operations; errors that arrive late | one dump per process; a file under a final name was synced first; a reported dump is there |
| I2C IMU (`hw/i2c_imu.rs`, `hw/mpu6050.rs`) | error count, repetition count, last frame | open, read, re-initialise, end | two counters that reset each other on different conditions | repetitions and blindness are bounded; gives up only when exhausted |
| Serial GPS (`hw/serial_gps.rs`, `hw/nmea_link.rs`) | times of last byte, sentence, fix, report; backoff | connect, frame, probe, report, reconnect | the diagnosis, and with it the grace, changes while a report is due | a link without fixes is reported, repeated, withdrawn in time |
| Drift and jump detectors, side checks (`detect/drift.rs`, `detect/jump.rs`, `fusion.rs`) | four learned noise floors, six CUSUMs, warm-up count, mismatch count, Doppler gate, anchor of a standstill | `evaluate`, `reset`, the gate, the stuck-receiver and vertical-rate checks | floors learn from what they judge; missing Doppler, turns, gaps and unserved fixes between the fixes of an attack | an attack, a walk-off and a stuck receiver are raised in a bounded number of fixes |
| Link watchdog (`mav/mod.rs`) | seen flag, link flag, time of the last mode change | poll, emit | races the listener's stores | a silent link and a changed mode are reported |
| Event bus, log and dashboard (`runtime.rs`, `mav/controller.rs`, `action/console.rs`, `watch/src/main.rs`) | channel of 32 events, log file, snapshot | send, take, write, read, apply | the channel overwrites; a write fails half way; a line is read before its end is written | no alarm disappears without a trace |

`PROJECT.json` lists all components, also the ones left out, and the hazards,
each at its line.

## 2. Modules

| Module | Models | Kind |
|---|---|---|
| `Detector` | the state machine, fix by fix | component, proved in `DetectorProofs` |
| `Fusion` | the fusion task with reckoner and controller; EXTENDS `Detector` | composition, proved in `FusionProofs` |
| `SpoofResponse` | what the operator is promised: an alarm raised, dismissed or latched, and one response per latch | abstract specification, implemented by `Fusion` |
| `Alignment` | aligners, time-step gate and snapshot buffer | component, proved in `AlignmentProofs` |
| `Residuals` | decoding of a GPS message, drift and jump detectors, Doppler gate and side checks; EXTENDS `Detector`, whose inputs it computes | composition, proved in `ResidualsProofs` |
| `RtbReadback`, `SeverReadback` | controller, monitor and verify tasks, store by store and load by load | compositions, proved in `MavProofs` and `SeverReadbackProofs` |
| `MavListener` | listener with its filters, decoding and plausibility gates, two ingest tasks and Fusion's loop over bounded channels | composition, proved in `MavProofs` |
| `Shutdown` | background tasks, the dump operation by operation, supervisor, drain, flush and the end of the runtime | composition, proved in `RuntimeProofs` |
| `OperatorView` | monitor, link watchdog, broadcast channel, log file and dashboard | composition across two processes, proved in `RuntimeProofs` |
| `ImuSource` | read loop, health ladder, chip and bus | component with environment, proved in `HwProofs` |
| `SerialGps` | reconnect loop, codec outcomes, link health | component with environment, proved in `HwProofs` |
| `MC*` | constants for TLC | model-checking instances |

Conventions. Variables and actions keep the source's names. A variable under
"history, not part of the code" records what happened for a property to refer
to, and no guard reads it. An operator marked "Mutant" is a plausible slip in
the definition that follows it; it is used only to see that a property notices
it. Time is an integer number of ticks. External parties (autopilot, chip,
wire, disk, operator) may do anything the code has to cope with.

### Correspondence

**Detector.** One action per path a fix can take through `evaluate` in each
state, the whole call sequence of `Fusion::on_gps` for that fix being one
step: the per-fix flags, the dropout bookkeeping, the pause, the state change
and, for a clearing, the veto or the commit. Whether a detector fired and
whether the sample is quiet are inputs here and are computed in `Residuals`.
`FixSkipped` is a fix that sets flags and is not evaluated.

**Residuals.** A step is one fix of an armed detector, from the message on the
wire to the verdict. `EvaluatedFix` follows `on_gps`: dropout, stuck receiver,
vertical rate, the streak without Doppler and the gate; then
`StateMachine::evaluate`: floors (`Learned`), sums (`Accumulated`), counter
(`Mismatches`), the verdicts `Firing` and `SampleClean`, and with them
`Detector`'s own step. `UnservedFix` is a fix the snapshot buffer misses.
A message carries its wire fields, unknown markers included, and the residual
it meets, since the reckoner's arithmetic is not modelled. Quantities are
integers in one small unit, and divisions round down. The position sums are a
function over lanes; `FloorOf` says which floor a lane reads.

**Fusion.** `OnImu`; the fix that arrives before, during and after preflight;
a fix that misses the buffer (`SkippedFix`) and one that is evaluated
(`EvaluatedFix`, which takes the detector's step too); the two awaits of the
response (`SeverGps`, `EngageRtb`), each of which may fail; `OperatorReset`.
Between the awaits `pc` says where the handler is suspended. Both controllers
are there: the console one keeps "already done" latches, the MAVLink one does
not. The reckoner's copy of the state is a variable of its own. It is written
where `on_gps` writes it, from the transitions that `evaluate` returns
(`Transitions`) less the clearing that the plausibility check vetoes
(`Emitted`), while the machine's own state is what `Detector` makes of the same
fix, the veto's repair included; that the two agree is what
`NoAidingUnderSuspicion` says. Whether the reckoner freezes its blend under
suspicion is the configuration's `FreezeOnSuspicious`.

**Alignment.** `OnImu` aligns the stamp, applies the time-step gate of the
reckoner and pushes a snapshot; `OnGps` aligns and interpolates, and a served
fix may clear the buffer.

**RtbReadback.** A heartbeat is recorded by `HeartbeatTime` and
`HeartbeatMode`, because a poll can see the first store without the second. A
verify task loads its send time, seeds its last heartbeat, and then polls:
mode, then heartbeat and decision. **SeverReadback.** The baseline is stored,
then the command sent and the task spawned; the echo table has a capacity and
evicts.

**MavListener.** A packet has a source, a system, a kind and the fields the
gates look at. `Parses`, `GpsFromMsg`, `GpsFixIsPlausible`, `ImuFromMsg` and
`ImuSampleIsPlausible` decide its `StreamOf`; the filters and the lock decide
whether it is `Accepted`. Then come the sends into bounded channels, the ingest
tasks and the fusion loop, which takes an IMU sample whenever there is one.
Behind the listener items are counted. `Consumed` names the streams whose
receiver is read.

**Shutdown.** Latches, the claim of the dump, its stages (create the temporary
file, write, sync, rename, sync the directory), each of which may fail or hang,
the read-backs, a signal or the death of any task in the supervisor's `select`,
then main's sequence. A failed sync of the directory is logged and the dump
reported all the same. The file library (tokio's, external) is modelled by two
things it does: `write_all` hands over its last piece and returns, and `sync_all`
waits for that piece but keeps its error, so a file may be `"short"`; and an
operation it has begun goes on when the task that awaits it is aborted (`pool`).
After a failure main calls `process::exit`, which waits for nothing; after an
orderly stop it returns and the drop of the runtime waits for the pool.

**OperatorView.** A heartbeat is two steps, because a poll can fall between the
store of the mode and that of its time. A poll is `Poll` (freshness and link
edge), `PollChange` (load of the time of the last change) and `PollFirst` or
`PollMode` (load of the mode, and the event). The logging task writes a line
and its end separately, as the code does, and after a failed line tries the end
(console controller) or not (MAVLink controller); the dashboard's `ReadLine` takes
whatever is there. `Send` overwrites the oldest event of a full channel. Of the
kinds of event those are told apart that change link, mode or alarm count; a
transition into another state stands for the rest.

**ImuSource.** `Read` is one turn of the loop with the whole of
`ReadHealth::on_ok` or `on_err` and what the loop does with the answer,
re-initialisation included.

**SerialGps.** One action per thing the codec can hand up (unfinished line, no
sentence, sentence without fix, fix, implausible fix), and the probe in its
three outcomes.

## 3. What TLC checks

| Run | Properties | Result | States |
|---|---|---|---|
| `MCFusion` | `EscalationInv`, `DwellNeverRestarts`, `FiringFixEscalates`, `StallBound`, `CleanStreakUnbroken`, `SpoofedLatched`, `NoAidingUnderSuspicion`, `SilentBeforeReady`, `EachLatchAnswered`, `ImplementsSpoofResponse` | hold | 42,970 |
| `MCRtbReadback` | `ConfirmedOnLaterEvidence`, `RefusedOnlyAfterReset` | hold | 3,705,812 |
| `MCSeverReadback` | `ConfirmedByLaterZero`, `ConfirmedByDwell`, `VerifyReturns` | hold | 124,229 |
| `MCMavListener` | `OnePeer`, `ConsumedStreamsDrain` | hold | 2,594 |
| `MCMavListenerUnread` | `NeverSilentlyDeaf` | violated |  |
| `MCShutdown` | `OneDumpPerProcess`, `DumpsIntact`, `EventTrailComplete`, `StopEnds` | hold | 526,369 |
| `MCImuSource` | `StaleSamplesBounded`, `NeverBlindForLong`, `EndsOnlyWhenExhausted`, `SleeperNoticed` | hold | 4,342 |
| `MCSerialGps` | `NoBytesIsTrue`, `FixlessLinkReported`, `ReportWithdrawn`, `PortReopened` | hold | 33,434 |
| `MCAlignment` | `ServedOnFreshImu`, `Bracketed`, `JitterFree` | hold | 508,300 |
| `MCResiduals` | `AttackRaised`, `WalkOffRaised`, `StuckReceiverRaised`, `GateLeavesNoTrace` | hold | 446,484 |
| `MCResidualsClear` | `EveryCusumQuiescentAtClear` | violated |  |
| `MCOperatorView` | `AlarmsAccountedFor`, `LinkShown`, `ModeShown` | hold | 593,298 |

What the passing runs show:

- **Detector.** The start of the dwell is never moved by more than the pause
  budget records, also by vetoes; a firing fix past the dwell latches; an
  episode in which every fix fires is latched within twice the dwell, the
  budget and its own longest gap, whatever the cadence; nothing but the operator's reset
  leaves Spoofed.
- **Fusion.** The reckoner's copy of the state agrees with the machine on every
  path, also on the one on which a clearing is vetoed; before preflight is done no fix leaves a trace that could raise an
  alarm; sever precedes return, a failed sever is announced and followed by the
  return all the same, and a second latch after a reset is not swallowed. The
  composition implements `SpoofResponse`, liveness included.
- **Read-backs.** No interleaving of the listener's stores, a verifier's loads,
  a reset and a second latch yields a confirmation on earlier evidence. A poll
  may see the time of a heartbeat with the mode of the one before. The change of
  mode, the acknowledgement and the heartbeats counted came after the command;
  that the mode is that of the last heartbeat counted is not claimed.
- **Listener.** Everything used came from one peer and one system, and a packet
  a filter drops never takes the lock; with both streams consumed a waiting
  listener always returns to the socket.
- **Residuals.** A biased position, in any mixture of directions and claimed
  quality, leaves Normal after a number of fixes the configuration gives,
  although the floors learn and although gaps and unserved fixes lie between;
  so does a velocity walk-off, whatever trained the velocity floor before it;
  so does a receiver that stands still while the IMU moves. What a lane held
  when Doppler was lost cannot fire when it returns.
- **Shutdown.** From any moment a stop brings main to its end in bounded time,
  and the process to its end unless a file operation hangs after an orderly stop
  (see below); what background tasks reported is logged; the dump is claimed
  once; whichever file operation fails, is left behind or is the last before
  death, a file under a dump's final name was synced before the rename, and a
  reported dump is there, in a directory that was synced or whose failed sync
  the log tells of.
- **Operator's view.** However the listener's stores fall between a poll's
  loads, a link that went silent is shown as down in the end and the mode shown
  is the autopilot's, unless an event was lost. An alarm is counted on the
  display or its loss shows, as a parse error or as a report.
- **IMU.** Fewer than the freeze threshold repetitions reach the reckoner
  between two new frames, and the stream shows a new frame or ends within
  freeze threshold times bus-down threshold reads, however errors, equal frames
  and re-initialisations alternate.
- **Serial GPS.** A connection without plausible fixes has a standing report
  one probe after the longest grace, although the diagnosis may change at the
  last moment; it is withdrawn in time, and a device that is there is reopened.
- **Alignment.** Two stamps of one anchor keep the spacing of their sensor
  times, a fix is served on fresh snapshots only, and an interpolated fix lies
  within the pair of snapshots picked for it although the buffer may be
  unsorted.

### Where the program and its text differ

Two runs expect a violation.

`MCResidualsClear`. The comment on the quiescent fraction
(`detect/state_machine.rs:90-91`) says "Clearing also requires every drift CUSUM
to be below this fraction". `cusum_peak` (line 308) is over the five position
lanes, so a clear is accepted, and all detectors reset, while the velocity lane
holds more. In the default units this is a velocity sum from 6.25 up to its
firing threshold of 8. For the same reason `WalkOffRaised` counts the fixes
since the last accepted clear.

`MCMavListenerUnread`. `bin/flyingsquirrel.rs:411-413` says the receiver of an
unused stream "is dropped". It is kept in a local (line 419), so the channel
stays open, fills, and the listener waits for room for ever (`mav/mod.rs:343`).
Lines 648-654 name this wiring, a MAVLink controller with serial or I2C sources,
and say that the process exits "instead of silently leaving the detector deaf on
its command/verify link"; a listener that waits neither panics nor ends. What the
operator sees is the link watchdog's report of a lost link.

Differences met while modelling, stated here and not as runs.

Detection:

- `detect/state_machine.rs:208-209` says the pause takes out the gap, "as if
  those seconds hadn't passed". On the first recovery fix of a streak
  `last_dropout_t` is `None`, the pause is measured from `suspicious_since`
  (line 235), and the whole dwell accrued so far is taken out. `StallBound` says
  what this costs: the bound has two dwells in it.
- `detect/jump.rs:67-69` says its persistence "truly requires consecutive firing
  fixes". A fix without Doppler only takes one off the counter: with the default
  of 2 a mismatch alone fires again after three mismatches and such a fix, and
  with 3 or more the first alarm need not rest on consecutive mismatches.
- A floor learns from the last fix before a lane rises, so one residual below
  twice the jump limit, claimed as poor quality, teaches it a twentieth of
  itself (`detect/drift.rs:54`). `AttackRaised` therefore speaks of residuals up
  to that limit and of attacks that begin on an honest floor. An attack that is
  already there during warm-up trains the position floors and is outside it;
  the velocity floor learns from quiet fixes only, also during warm-up, so
  `WalkOffRaised` has no such condition.
- `nav/mod.rs:513` says "On SUSPICIOUS/SPOOFED: freeze blend, never anchor".
  `on_gps_fix` looks at the anchor before it looks at the state (line 556), so
  a fix that misses the buffer re-anchors an unlocked reckoner while Suspicious.
- `fusion.rs:868-869` says that there is no re-anchoring after Ready, while a
  fix that completes preflight does not reach the reckoner and may leave the
  anchor unlocked.
- `detect/residual.rs:149` says the scan goes from the back while it goes from
  the front; from the back it would pick a pair that does not enclose the fix
  in an unsorted buffer.
- The fallback time step of `nav/mod.rs` is unreachable once static
  initialisation is done.

Autopilot:

- `mav/controller.rs:71-72` asks for distinct zero echoes, while echoes of any
  value are counted and only the last must be zero.
- `mav/monitor.rs:366-368` says a parameter download "must not stomp the one
  echo we care about", while the table of 64 evicts it and its count starts
  again.
- `mav/mod.rs:237-238` says the first heartbeat sets the source lock, while any
  accepted message kind does.
- `mav/monitor.rs:298-300` counts the first heartbeat as a change of mode. The
  answer is not used, and the first mode is given only with the first
  `LinkRestored`.
- The drain of 7 s (`runtime.rs:224-225`) is shorter than the 10 s return window
  (`mav/controller.rs:51`).

Events, dump and sources:

- `runtime.rs:223-224` bounds the drain because "a hung disk shouldn't block
  process exit indefinitely". The drain is bounded, but `#[tokio::main]`
  (`bin/flyingsquirrel.rs:221`) drops the runtime when main returns, and that
  waits for the file operations its threads have begun. `Shutdown` has this
  behaviour; `StopEnds` says that it is the only way not to end, and that it
  takes an orderly stop.
- `forensic.rs:23-25` says "the file either doesn't exist or has the complete
  payload". `write_all` is followed by `sync_all` without a `flush`, and an error
  of the last piece is kept by tokio's file for a write or flush that never
  comes. A full disk, for one, can leave a short file that is renamed and
  reported. `Shutdown` has this behaviour too (content `"short"`), which is why
  `DumpsIntact` says synced and not complete.
- Link and mode events carry the state Normal, and the dashboard takes its state
  from every event (`watch/src/main.rs:237`): a link edge during a latch shows
  Normal until the next transition. The alarm count is not affected.
- The console controller does not report a failed write of an event; the MAVLink
  one does.
- `forensic.rs:27-28` says "Never overwrite an existing dump". Creating anew
  protects the temporary name only; it is the claim that keeps a second dump
  from the final one. A failed sync leaves the temporary file, so a retry in the
  same second fails to create it.
- A link's grace is measured from the last fix and not from the start of the
  condition; `LinkHealth` is per connection, so a port that flaps faster than
  the grace is not diagnosed.

### Bounds

The constants of the code are scaled down so that every branch that compares
them is reached with room on both sides; the relations between them that
matter are ASSUMEs.

- `MCFusion`: dwell 2, clear 1, budget 2, dropout limit 2, steps {0, 1, 2}, time
  up to 9, both controllers: an episode can use up its budget, exceed the dropout
  limit, clear, be vetoed and start again, and a latch, its response, a reset and
  a second latch fit. Stamps that step back, which the detector has to bear, are
  left to the theorems: they hold for every set of steps.
- `MCRtbReadback`: two latches, two modes, a dwell of 2 polls, window 2, time
  up to 3: the first verifier is still running at the second latch.
- `MCSeverReadback`: two latches, an echo table of capacity 1 with one other
  parameter (so that every other echo evicts), dwell 2, window 2, time up to 5.
- `MCMavListener`: three sources and two systems, values on either side of every
  gate, all channels of capacity 2. The address filter is off (as under
  `--mav-no-source-filter`) so that the lock has something to decide.
  `MCMavListenerUnread` is the same with no stream consumed.
- `MCShutdown`: two latches, windows 2 and 1, drain 1, flush 1. The drain is
  shorter than one window and as long as the other. Time before the drain does
  not pass (`MaxTime = 0`); a read-back may still end at any moment, so nothing
  depends on its age before the drain. Both dumps bear the same name then,
  which is the hard case.
- `MCImuSource`: warn 3, re-initialise 2, down 6, frozen 3, two frames. The
  counters are bounded by the thresholds; no other bound.
- `MCSerialGps`: window 3, graces 4 and 6, repeat 5, poll 2, backoff 1 to 3,
  time up to 13 per connection: a report, its repetition, a recovery and a
  second report fit.
- `MCAlignment`: skew 1, time step 2, window 2, capacity 3, extrapolation 1,
  sensor times 0 to 3 with 0 unknown, time up to 4: re-anchoring in both
  directions and an unsorted buffer occur.

- `MCResiduals`: eleven kinds of message (honest, biased in one direction or
  circling, mismatching, without Doppler, walking off, turning, stuck, creeping
  and climbing, without a fix), steps 1 and 3 with a freeze gap of 2, time up to
  9, warm-up of 1 fix, persistence and gate of 2, and at most 3 irregularities
  (`MaxChurn`: a change of kind, a gap, an unserved fix, a reset). An honest
  stretch, an interruption and an attack up to its bound fit; the bounds of the
  properties are 7, 3 and 3 fixes. Thresholds keep the code's order and
  proportion, not their values.
- `MCOperatorView`: two modes, heartbeats up to time 2, clock up to 3, staleness
  0, a channel of 2 events, one alarm, one failed write: the link comes up, is
  lost and restored, the mode changes and changes back, and three events wait
  for the channel of two.

Deadlock is not checked where the program may stop or the bound on time ends
the behaviour: `Shutdown`, `ImuSource`, the read-backs and others say so in
their `.cfg`.

### Fairness

Each assumption is weak fairness of something the runtime or a timer does:

- `Fusion`: the controller's calls return, since each send is bounded by its
  repeats (`mav/controller.rs:39-41`).
- `SeverReadback`: time passes and a spawned task is polled.
- `MavListener`: a send whose channel has room, an ingest task and the fusion
  loop are polled. Nothing makes a datagram arrive, so receiving is not fair.
- `Shutdown`: time passes; main, the pending response, Fusion after its
  channels close, and read-backs, which have deadlines, go on. The dump may
  take for ever, the logger is not assumed to run, and an operation left to the
  file library is not assumed to return.
- `OperatorView`: time passes, a heartbeat once begun is stored, the watchdog's
  ticker fires, the logging task serves its channel, the dashboard polls. The
  autopilot is free to be silent.
- `ImuSource`: the ticker makes the loop read. `SerialGps`: attempts to open
  and sleeps end.

## 4. What is proved

For all values of the constants that satisfy the ASSUMEs. The bounds of the
models (time, latches, irregularities) are among these constants, so a theorem
covers behaviours of any length. Each inductive invariant was checked by TLC on
the instance of section 3 before it was proved.

**`DetectorProofs`.** `TypeCorrect`; `Escalation`, the inductive invariant
`EscalationInv`; from it `DwellIsCumulative` (`DwellNeverRestarts`),
`FiringFixes` (`FiringFixEscalates`) and `SustainedAttackLatches`
(`StallBound`); `Latched` (`SpoofedLatched`); `CleanStreak`
(`CleanStreakUnbroken`), which is inductive as it stands. The bound on an
episode is not inductive: it needs that a firing fix leaves less than one dwell
on the clock, that a sustained episode's last fix fired, and that the dropout
streak belongs to the last fix, so that the pause absorbed by one more recovery
fix is less than a dwell and a gap. `EscalationInv` is the conjunction of these,
and is itself checked by `MCFusion`. Assumed: positive dwells and budget,
which `FusionConfig::validate` enforces. Nothing is assumed of the spacing of
fixes: the gap in the bound is the longest that occurred in the episode
(`longest_gap`), and it counts once however many gaps there are.

**`FusionProofs`.** `FusionImplementsDetector`: the calls the fusion task makes
on its state machine are a behaviour of `Detector` (its initial state is one of
`Detector`'s, and each handler is a step of it or leaves it alone). So
`Detector`'s theorems hold of the task; `FusionLatches` and `FusionKeepsDwell`
state them there. `PreflightGate` (`SilentBeforeReady`) rests on `GateInv`, which adds that
a finished static initialisation means an initialised, anchored reckoner. `Aiding`
(`NoAidingUnderSuspicion`) rests on `EmittedIsTheStep`: on every fix the
transition that was emitted, if any, leads to the state the machine ends in. `LatchAnswered` (`EachLatchAnswered`)
is about commands that are issued over several awaits: `LatchInv` adds, for each
place at which the handler may be suspended, the state the detector is in and
what the console controller's "already done" latches hold there.
`ResponseSafety` uses it to show that every step is a step of `SpoofResponse` or
a stutter.

**`ResidualsProofs`.** `Accumulation` is the inductive invariant `RInv`: while
the state is Normal no sum is at its threshold (`NormalIsQuiet`), and each
counted fix has added at least its share (`WalkAccumulates`,
`AttackAccumulates`, `StandstillAccrues`). The floors are what makes this hard,
since a lane's reference rises with what it learns: `VelFloorBounded` bounds the
velocity floor over any flight, and `AttackAccumulates` carries a bound for the
position floor, which learns from the first fix of an attack at most. From it
`AttacksAreRaised`, `WalkOffsAreRaised`, `StuckReceiversAreRaised`. `GateIsClean`
(`GateLeavesNoTrace`) is inductive with the types. `ResidualsImplementDetector`:
the verdicts drive the state machine as `Detector` says, for which one must know
that a sample called clean has nothing firing; `ResidualsLatch` carries the
bound on an episode and the latch over. Assumed, besides the ranges
`validate` enforces: messages have the types of their wire fields (`WellTyped`),
the steps of `Detector` include every difference of two instants, and the
attack of the property is larger than what the thresholds absorb (`Gain` and
`WalkGain` are positive, and `4 * Gain >= H`).

**`RuntimeProofs`, the shutdown.** `ShutdownInvariant`, and from it `OneDump`
(`OneDumpPerProcess`), `DumpsAreIntact` (`DumpsIntact`) and `EventTrail`
(`EventTrailComplete`). None is inductive. `ClaimAccounted` says who holds the claim, by naming the one dump and
not by counting; `FilesFollowStages` says what the temporary and the final file of a dump are
at each stage, for a dump under way and for the operation an aborted one left
behind, which a step can only keep because there is no second dump;
`LogOutlivesDrain` says that the logger ends on an empty channel, which rests on
`DrainInOrder`: when the channel closes, Fusion has ended and no task is left
that could send. No relation between the windows and the timeouts is assumed.
`SeverIsJoined` is about that relation: `ReadbacksInTime` keeps every read-back
within its window and the drain's deadline a full timeout after the start of
every task, so that what the drain gives up has a window at least as long as its
timeout. The sever read-back (3 s against 7 s) is never given up; the return
read-back (10 s) may be, see section 3. TLC checked this invariant on an instance
with windows 3 and 1 and a drain of 2.

**`RuntimeProofs`, the operator's view.** `ViewInvariant`, and from it
`AlarmsNotLost` (`AlarmsAccountedFor`), `LinkIsSettled` and `ModeIsSettled`. The
last two are the safety halves of `LinkShown` and `ModeShown`: when channel and
log are empty and nothing was lost, the display shows the link as the watchdog
last found it, and the autopilot's mode unless a change is still to be stamped,
polled or sent. `ViewInv` has a part for each thing on its way.

- `AlarmCount`: unless a loss shows, the alarms are those on the display plus
  those in the log and in the channel. They are counted as the cardinality of
  the set of their positions, so that taking the head of a sequence off is a
  bijection (`AlarmsTail`) and no induction; which pieces the dashboard takes
  with a line is lemma `LineRead`, from the least position of a line end.
- `LinkTold`, `ModeTold` and `NoModeSaid`: of the events that speak of link or
  mode, the last one under way says what the watchdog knows, or there is none and
  the display shows it (`Said`). That this survives sending, writing and reading
  are the lemmas `SenderCarries`, `LoggerCarries` and `ReaderCarries`.
- `LogShape`: while no write failed, no two events share a line and every line
  that is not being written is ended, so no line is read as a parse error.
- `StampsGrow`: a change of mode is stamped later than every stamp the watchdog
  has seen, so that no change hides behind an older one.
- `FirstReport`: before its first report the watchdog has sent no mode.

Assumed: the capacity is positive, and the model's `Nothing` is neither an event
nor a heartbeat record.

**`HwProofs`, the IMU.** `StaleBounded`, `BlindnessBounded`,
`GivesUpOnlyExhausted`, `TypeCorrect`. Two counters reset each other on
different conditions, so neither bound is inductive. `LadderInv` relates them:
the run of equal frames is less than its threshold plus the errors, and the
reads without a new frame are at most one full ladder per repetition that can
still reset the error count, plus the errors. `StreakInv` adds how many
re-initialisations an error count stands for; the arithmetic behind it, when
counting one further passes a multiple, is the lemma `NextQuotient`.

**`HwProofs`, the serial GPS.** `NoBytesSound`, `FixlessReported`,
`ReportsWithdrawn`. The last two speak of an instant, the code acts at probes:
`LinkInv` says where the last probe stood. Without a standing report it was
within the grace (`GraceAtProbe`), and a fix that came after a standing report
came after the last probe too (`FixSinceProbe`). Assumed, as in the source: the
probe interval is shorter than the activity window, and neither the window nor
the short grace is longer than the long grace. The repeat interval plays no
part.

**`MavProofs`.** The return read-back: `ReadbackInvariant`, and from it
`ConfirmationIsCausal` (`ConfirmedOnLaterEvidence`) and `RefusalIsReset`
(`RefusedOnlyAfterReset`). A verify task may pick up the send time of a later
latch, never of an earlier one; its dwell counter, and the heartbeat it has not
looked at yet, are covered by heartbeats heard since its first look; and what it
loaded in the first half of a poll is still true in the second, because the
monitor's stamps only grow (`StampsInOrder`). The listener: `ListenerHasOnePeer`
(`OnePeer`), inductive once it is known that the first message used takes the
lock. `ConsumedStreamsDrain` needs fairness, but what fairness is applied to is
proved: `ListenerNeverWedged` (while the listener waits for a channel that is
read, listener, ingest tasks and Fusion never all wait for each other) and
`WaitingCountsDown` (until the send completes, every step lowers `Work`, the
number of moves the items behind the listener have before them).

**`SeverReadbackProofs`.** `SeverInvariant`, and from it
`SeverConfirmedByLaterZero` (`ConfirmedByLaterZero`) and `SeverConfirmedByDwell`
(`ConfirmedByDwell`). Eviction is the hard case: the entry's count starts again,
so `EchoesCounted` bounds the count by the baseline and the echoes since.

**`AlignmentProofs`.** `StampsNearArrival`, `FreshImu`, `FixesBracketed`,
`NoJitter`. `AlignmentInv` adds that a stream's last stamp is what its anchor
gives for its sensor time (`AnchorExplainsStamp`, needed for jitter), and that
the newest snapshot is stamped within the skew of its sample's arrival
(`NewestNearArrival`, needed for freshness). That a pair around the fix exists
in a buffer in any order is the least-element argument of lemma `Least`, from
the library's well-foundedness of the naturals.

Only model-checked:

- all liveness (`VerifyReturns`, `ConsumedStreamsDrain`, `StopEnds`, `LinkShown`,
  `ModeShown`, `SleeperNoticed`, `PortReopened`, and of `ImplementsSpoofResponse`
  the fairness of `SpoofResponse`), which needs fairness and ENABLED. The safety
  halves of `ConsumedStreamsDrain`, `LinkShown` and `ModeShown` are the theorems
  above.

The invariants and action properties of the passing runs are theorems; of the
refinement `ImplementsSpoofResponse` the initial states and the steps are. They
are theorems about the models, with what section 5 leaves out left out.

## 5. What is not modelled

- Attitude and strapdown: floating-point arithmetic. The residual a fix meets is
  an input of `Residuals`, so nothing is shown about how the blend and an
  attack interact over time, and rounding of the detectors' own arithmetic is
  that of integers.
- The scaling of MAVLink values and the wire encoding, the sentence parser, the
  axis map: stateless conversions.
- Configuration, attestation, logging text: straight-line I/O. Validated ranges
  appear as ASSUMEs.
- The forensic ring buffers, trimmed by age and count (a skipped fix is not in
  them). `DumpsIntact` does not say that a dump has its whole payload, see
  section 3, nor that a directory whose sync failed keeps its entry.
- Of the dashboard: the list of events, keys, drawing, and starting at the end
  of the log. A line becomes visible in two pieces, not byte by byte.
- Simulators and fuzz targets: not the deployed detector.
- The bus of `Shutdown` loses nothing while its reader runs; the channel that
  overwrites is in `OperatorView`.
- How long a saturated IMU stream holds back fixes in the biased `select`
  (`fusion.rs:402`): a matter of rates.

## 6. Plan

Done: the modules above, in the order detector, fusion and its abstract
specification, read-backs, listener, shutdown, sources, alignment, residuals,
operator's view; and proofs of the invariants and action properties that TLC
checks.

Next, to prove: `Fusion` and `Residuals` together. The two share `Detector`, and
each is shown to implement it; one module with both would carry `AttackRaised`
over to the response.

Next, to model: the forensic ring buffers, and the residual as a function of the
reckoner's track on a one-dimensional grid, which would put the blend into
`Residuals`.
