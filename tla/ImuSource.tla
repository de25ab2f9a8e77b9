----------------------------- MODULE ImuSource ------------------------------
(***************************************************************************)
(* The I2C IMU source: the read loop of src/src/hw/i2c_imu.rs and the      *)
(* decision core ReadHealth of src/src/hw/mpu6050.rs, which counts bad     *)
(* reads and bit-identical frames and climbs a ladder: warn, re-open and   *)
(* re-initialise the chip, end the stream.                                 *)
(*                                                                         *)
(* The chip and the bus are external.  An awake chip refreshes its         *)
(* registers, possibly with what they held before; a chip asleep after a   *)
(* brown-out answers reads with registers that do not change; on a faulty  *)
(* bus every transaction fails.  A frame is a model value: every 16-bit    *)
(* reading scales to less than the plausibility gate's limits, so the gate *)
(* in front of the yield refuses none.                                     *)
(***************************************************************************)
EXTENDS Integers

CONSTANTS
  DegradedThreshold,     \* DEGRADED_THRESHOLD
  ReinitInterval,        \* REINIT_INTERVAL
  BusDownThreshold,      \* BUS_DOWN_THRESHOLD
  FrozenOutputThreshold, \* FROZEN_OUTPUT_THRESHOLD
  Frames,                \* raw 14-byte frames
  NoFrame

ASSUME LadderAssumption ==
  /\ DegradedThreshold \in Nat \ {0}
  /\ ReinitInterval \in Nat \ {0}
  /\ BusDownThreshold \in Nat \ {0}
  /\ FrozenOutputThreshold \in Nat \ {0}
  /\ DegradedThreshold < BusDownThreshold
  /\ NoFrame \notin Frames

VARIABLES
  stream,             \* "opening", "reading" or "ended"
  consecutive_errors, \* ReadHealth: length of the bad streak
  last_raw,           \* ReadHealth: last frame, or NoFrame
  frozen_run,         \* ReadHealth: repetitions of it
  \* external
  chip,               \* "awake", "asleep", "faulty" or "foreign"
  reg,                \* what its registers hold
  \* history, not part of the code
  unmeasured,         \* reads since the last one that showed a new frame
  stale,              \* repetitions yielded since then
  warned,             \* the warning of this streak was given
  reinits             \* re-initialisations tried in this streak

health == <<consecutive_errors, last_raw, frozen_run>>
history == <<unmeasured, stale, warned, reinits>>
vars == <<stream, health, chip, reg, history>>

\* The SLEEP bit is set at power-on; "foreign" is a substitute chip, which the
\* WHO_AM_I check refuses.
Init ==
  /\ stream = "opening"
  /\ consecutive_errors = 0
  /\ last_raw = NoFrame
  /\ frozen_run = 0
  /\ chip \in {"asleep", "faulty", "foreign"}
  /\ reg \in Frames
  /\ unmeasured = 0
  /\ stale = 0
  /\ warned = FALSE
  /\ reinits = 0
-----------------------------------------------------------------------------
(***************************************************************************)
(* open_and_init: the bus opens, WHO_AM_I matches, and clearing PWR_MGMT_1 *)
(* wakes the chip.                                                         *)
(***************************************************************************)
InitSucceeds == chip \in {"awake", "asleep"}

\* The first one decides whether there is a stream at all: a failure is
\* yielded as an error and ends it.
Open ==
  /\ stream = "opening"
  /\ IF InitSucceeds
     THEN stream' = "reading" /\ chip' = "awake"
     ELSE stream' = "ended" /\ UNCHANGED chip
  /\ UNCHANGED <<health, reg, history>>

\* The history variables count no further than what the properties forbid.
Blind == FrozenOutputThreshold * BusDownThreshold

CountedTo(limit, n) == IF n <= limit THEN n + 1 ELSE n
-----------------------------------------------------------------------------
(***************************************************************************)
(* ReadHealth.                                                             *)
(***************************************************************************)
Repeats(frame) == last_raw = frame

\* Mutant: a repeated frame is not counted.
FrozenRunUncounted(frame) == 0

\* frozen_run after this frame.  It stays far below the u32 at which the code
\* saturates it: see TypeOK.
FrozenRun(frame) == IF Repeats(frame) THEN frozen_run + 1 ELSE 0

IsFrozen(frame) == Repeats(frame) /\ FrozenRun(frame) >= FrozenOutputThreshold

\* escalate() counts the bad read and decides.
EndStream == consecutive_errors + 1 >= BusDownThreshold

Reinit == ~EndStream /\ (consecutive_errors + 1) % ReinitInterval = 0

\* Mutant: a re-initialisation starts the ladder again.
EscalateFromScratch ==
  /\ consecutive_errors' = IF Reinit THEN 0 ELSE consecutive_errors + 1
  /\ warned' = (warned \/ consecutive_errors + 1 = DegradedThreshold)
  /\ stream' = IF EndStream THEN "ended" ELSE stream
  /\ reinits' = IF Reinit THEN reinits + 1 ELSE reinits
  /\ chip' = IF Reinit /\ InitSucceeds THEN "awake" ELSE chip

\* escalate(), and what the read loop does with its answer.  A successful
\* re-initialisation does not touch the ladder: only a good read resets it.
Escalate ==
  /\ consecutive_errors' = consecutive_errors + 1
  /\ warned' = (warned \/ consecutive_errors + 1 = DegradedThreshold)
  /\ stream' = IF EndStream THEN "ended" ELSE stream
  /\ reinits' = IF Reinit THEN reinits + 1 ELSE reinits
  /\ chip' = IF Reinit /\ InitSucceeds THEN "awake" ELSE chip

\* Mutant: recovery leaves the error count.
RecoverKeepsCount ==
  /\ warned' = FALSE
  /\ reinits' = 0
  /\ UNCHANGED <<consecutive_errors, stream, chip>>

\* A good read ends the streak.
Recover ==
  /\ consecutive_errors' = 0
  /\ warned' = FALSE
  /\ reinits' = 0
  /\ UNCHANGED <<stream, chip>>

\* on_read_ok.  A repeated frame below the threshold counts as fresh and is
\* yielded; one at or past it is not yielded and escalates.
ReadOk(frame) ==
  /\ stream = "reading"
  /\ chip = "awake" \/ (chip = "asleep" /\ frame = reg)
  /\ reg' = frame
  /\ last_raw' = frame
  /\ frozen_run' = FrozenRun(frame)
  /\ IF IsFrozen(frame) THEN Escalate ELSE Recover
  /\ unmeasured' = IF Repeats(frame) THEN CountedTo(Blind, unmeasured) ELSE 0
  /\ stale' = IF ~Repeats(frame) THEN 0
              ELSE IF IsFrozen(frame) THEN stale
              ELSE CountedTo(FrozenOutputThreshold, stale)

\* Mutant: an error between two equal frames ends the run.
ReadErrEndsRun ==
  /\ stream = "reading"
  /\ chip = "faulty"
  /\ Escalate
  /\ unmeasured' = CountedTo(Blind, unmeasured)
  /\ frozen_run' = 0
  /\ UNCHANGED <<last_raw, reg, stale>>

\* on_read_err keeps the last frame and the run.
ReadErr ==
  /\ stream = "reading"
  /\ chip = "faulty"
  /\ Escalate
  /\ unmeasured' = CountedTo(Blind, unmeasured)
  /\ UNCHANGED <<last_raw, frozen_run, reg, stale>>

Read == ReadErr \/ \E frame \in Frames : ReadOk(frame)
-----------------------------------------------------------------------------
(***************************************************************************)
(* The chip and the bus.                                                   *)
(***************************************************************************)
BrownOut ==
  /\ chip = "awake"
  /\ chip' = "asleep"
  /\ reg' \in Frames
  /\ UNCHANGED <<stream, health, history>>

Fault ==
  /\ chip \in {"awake", "asleep"}
  /\ chip' = "faulty"
  /\ UNCHANGED <<stream, health, reg, history>>

Repaired ==
  /\ chip = "faulty"
  /\ chip' \in {"awake", "asleep"}
  /\ UNCHANGED <<stream, health, reg, history>>

Next == Open \/ Read \/ BrownOut \/ Fault \/ Repaired

\* The ticker makes the loop read again and again.
Spec == Init /\ [][Next]_vars /\ WF_vars(Read)
-----------------------------------------------------------------------------
(***************************************************************************)
(* Properties.                                                             *)
(***************************************************************************)

\* Every variable has its type.  The run of equal frames is bounded by the
\* ladder it feeds, so the saturating counters never saturate.
TypeOK ==
  /\ stream \in {"opening", "reading", "ended"}
  /\ consecutive_errors \in 0 .. BusDownThreshold
  /\ last_raw \in Frames \cup {NoFrame}
  /\ frozen_run \in 0 .. (FrozenOutputThreshold + BusDownThreshold)
  /\ chip \in {"awake", "asleep", "faulty", "foreign"}
  /\ reg \in Frames
  /\ unmeasured \in Nat
  /\ stale \in Nat
  /\ warned \in BOOLEAN
  /\ reinits \in Nat

\* However read errors, brown-outs and re-initialisations interleave, fewer
\* than FROZEN_OUTPUT_THRESHOLD repetitions of one frame reach the dead
\* reckoner: an error between two equal frames does not restart the run
\* (mpu6050.rs, on_read_err).
StaleSamplesBounded == stale < FrozenOutputThreshold

\* The source never stays blind: within a fixed number of reads it shows a new
\* frame or ends the stream, so that the process is restarted.  Each repeated
\* frame below the freeze threshold resets the ladder, so the bound is the
\* product of the two thresholds and not BUS_DOWN_THRESHOLD alone.
NeverBlindForLong ==
  /\ unmeasured <= Blind
  /\ stream = "reading" => unmeasured < Blind

\* The stream of a chip that was opened ends only after a streak in which the
\* operator was warned, every re-initialisation of the ladder was tried and no
\* new frame was seen: one good read really starts the ladder again.
EndsOnlyWhenExhausted ==
  stream = "ended" /\ unmeasured > 0 =>
    /\ unmeasured >= BusDownThreshold
    /\ warned
    /\ reinits = (BusDownThreshold - 1) \div ReinitInterval

\* A chip that fell asleep is woken in process, or the stream ends: frozen
\* registers are always noticed, whatever they hold.
SleeperNoticed ==
  (stream = "reading" /\ chip = "asleep")
    ~> (stream = "ended" \/ chip # "asleep")
=============================================================================
