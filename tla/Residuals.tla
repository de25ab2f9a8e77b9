----------------------------- MODULE Residuals ------------------------------
(***************************************************************************)
(* What Detector takes as given: how one fix becomes "a detector fired"    *)
(* and "the sample is clean".  Modelled are the decoding of a GPS message  *)
(* (gps_from_msg of src/src/mav/mod.rs), the drift detector with its       *)
(* noise floors and CUSUMs, the jump detector (src/src/detect), and what   *)
(* Fusion::on_gps of src/src/fusion.rs adds around them: the stuck         *)
(* receiver, the vertical rate and the gate that silences the position     *)
(* detectors while Doppler is missing.  A step handles one fix of an armed *)
(* detector, or the operator's reset.                                      *)
(*                                                                         *)
(* Floating-point quantities are integers in some fixed small unit, and a  *)
(* division rounds down.  Residuals are finite: on_gps never forms another *)
(* one, and evaluate() would skip it.                                      *)
(***************************************************************************)
EXTENDS Detector

CONSTANTS
  FreezeGap,           \* gps_dropout_freeze_s
  K, H,                \* cusum_k_m, cusum_h_m
  MagK, MagH,          \* mag_cusum_k_m, mag_cusum_h_m
  VelK, VelH,          \* vel_aiding_cusum_k_mps, vel_aiding_cusum_h
  MaxJump,             \* max_jump_m
  MaxMismatch,         \* max_velocity_mismatch_mps
  Persist,             \* jump_persist_fixes
  MaxClimb,            \* max_vertical_rate_mps
  HdopLimit, SatsLimit,\* hdop_multipath_threshold, sats_low_threshold
  Memory, VelMemory,   \* 1 / MAG_NOISE_ALPHA and 1 / VEL_AIDING_NOISE_ALPHA
  WarmupFixes,         \* WARMUP_FIXES
  GateStreak,          \* NO_DOPPLER_GATE_STREAK
  FrozenRadius,        \* FROZEN_FIX_RADIUS_M
  FrozenMinVel,        \* FROZEN_FIX_MIN_IMU_VEL_MPS
  FrozenMinPath,       \* FROZEN_MIN_IMU_DISPLACEMENT_M
  Messages,            \* the GPS messages, each with the residual it meets
  FixSteps,            \* time from one fix to the next
  Bias, HonestFloor,   \* parameters of AttackRaised
  WalkOff,             \* parameter of WalkOffRaised
  MaxChurn             \* bound of the model on irregularities, see Churn

Abs(x) == IF x < 0 THEN -x ELSE x
Larger(x, y) == IF x < y THEN y ELSE x
NonNegative(x) == Larger(0, x)

\* The most of a non-firing fix that the magnitude floor learns before the
\* attack it belongs to freezes it, and what each fix of the attack then adds.
TaughtFloor == HonestFloor + ((2 * MaxJump - HonestFloor) \div Memory)
Gain == Bias - Larger(MagK, (3 * TaughtFloor) \div 2)
WalkGain == WalkOff - 2 * VelK

\* The fields of a message are the integers of the wire; the sizes of its
\* residuals and the inertial speed are norms.
WellTyped(m) ==
  /\ {m.fix_type, m.vel, m.cog, m.eph, m.sats, m.alt, m.n, m.e, m.moved}
       \subseteq Int
  /\ {m.mag, m.dvel, m.dvel_free, m.imu_speed} \subseteq Nat
  /\ m.maneuvering \in BOOLEAN

\* FusionConfig::validate, as far as it looks at these parameters.
ValidConfig ==
  /\ {MaxJump, MaxMismatch, Persist, K, H, MagK, MagH, MaxClimb}
       \subseteq Nat \ {0}
  /\ K < H
  /\ MagK < MagH

\* A configuration that is accepted, the other parameters and the constants of
\* the code, and parameters of the properties that can be told from noise.
\* Unserved fixes lengthen the time between two evaluated ones, so every
\* difference of two instants of the model is a step of the detector.
ASSUME ResidualsAssumption ==
  /\ ValidConfig
  /\ {VelK, VelH, FreezeGap} \subseteq Nat \ {0}
  /\ {HdopLimit, SatsLimit, FrozenMinVel} \subseteq Nat
  /\ {Memory, VelMemory, WarmupFixes, GateStreak, FrozenRadius, FrozenMinPath}
       \subseteq Nat \ {0}
  /\ FixSteps \subseteq Int
  /\ \A t, u \in 0 .. MaxTime : t - u \in Steps
  /\ \A m \in Messages : WellTyped(m)
  /\ {Bias, WalkOff} \subseteq Nat
  /\ HonestFloor \in 0 .. 2 * MaxJump
  /\ 4 * Gain >= H
  /\ WalkGain > 0
  /\ MaxChurn \in Nat

VARIABLES
  floor,               \* the learned noise floors
  sum,                 \* CusumState
  warmup,              \* fixes the floors have learned from, up to WarmupFixes
  mismatches,          \* consecutive_vmismatch
  enabled,             \* pos_detectors_enabled
  no_doppler_streak,
  frozen_offset,       \* way from frozen_anchor_lla to the last fix, or None
  frozen_path,         \* frozen_imu_displacement_m
  last_gps_t,          \* last_gps_t_secs
  last_gps_alt,        \* altitude and time of the last evaluated fix, or None
  \* history, not part of the code
  clock,               \* time of the last fix
  last_kind,           \* kind of the last message
  churn,               \* irregularities so far
  attack_run,          \* fixes of the present position attack
  walk_run,            \* fixes of the present velocity walk-off
  stuck_run,           \* fixes of the present standstill in flight
  erased               \* the sums that the last accepted clear threw away

drift == <<floor, sum, warmup>>
sides == <<no_doppler_streak, frozen_offset, frozen_path, last_gps_t,
           last_gps_alt>>
runs == <<attack_run, walk_run, stuck_run>>
vars == <<fsmVars, drift, mismatches, enabled, sides, clock, last_kind, churn,
          runs, erased>>

\* The lanes of CusumState and the noise floor each of them reads.
FloorOf == [np |-> "n", nn |-> "n", ep |-> "e", en |-> "e",
            mag |-> "mag", vel |-> "vel"]
Lanes == DOMAIN FloorOf
Floors == {"n", "e", "mag", "vel"}
Zero == [l \in Lanes |-> 0]

RInit ==
  /\ Init
  /\ floor = [f \in Floors |-> 0]
  /\ sum = Zero
  /\ warmup = 0
  /\ mismatches = 0
  /\ enabled = TRUE
  /\ no_doppler_streak = 0
  /\ frozen_offset = None
  /\ frozen_path = 0
  /\ last_gps_t = None
  /\ last_gps_alt = None
  /\ clock = 0
  /\ last_kind = None
  /\ churn = 0
  /\ attack_run = 0
  /\ walk_run = 0
  /\ stuck_run = 0
  /\ erased = Zero
-----------------------------------------------------------------------------
(***************************************************************************)
(* A message, as it is on the wire, and the residual on_gps forms from it. *)
(* Unknown fields carry the largest value of their type.                   *)
(***************************************************************************)
U16Unknown == 65535
U8Unknown == 255
MaxCourse == 35999

\* gps_from_msg: no fix, no GpsFix.
HasFix(m) == m.fix_type >= 2

\* Both speed and course are there: the velocity residual is known.
Doppler(m) == m.vel # U16Unknown /\ m.cog <= MaxCourse

\* Both quality fields are there and both are bad.
Degraded(m) ==
  /\ m.eph # U16Unknown
  /\ m.eph > HdopLimit
  /\ m.sats # U8Unknown
  /\ m.sats < SatsLimit

Widened(x, m) == IF Degraded(m) THEN (3 * x) \div 2 ELSE x

\* mag_vel and mag_vel_free, zero without Doppler.
MagVel(m) == IF Doppler(m) THEN m.dvel ELSE 0
MagVelFree(m) == IF Doppler(m) THEN m.dvel_free ELSE 0
-----------------------------------------------------------------------------
(***************************************************************************)
(* DriftDetector::evaluate.                                                *)
(***************************************************************************)
Warming == warmup < WarmupFixes

\* One step of a running mean over w samples, or of an average that forgets
\* at the rate 1/w.
Toward(x, sample, w) == x + ((sample - x) \div w)

Sample(m) == [n |-> Abs(m.n), e |-> Abs(m.e), mag |-> m.mag,
              vel |-> MagVelFree(m)]

\* The velocity lane holds still in a turn and without Doppler.
Heard(m) == Doppler(m) /\ ~m.maneuvering

\* Mutant: the velocity floor learns from any fix it hears.
TeachableLoud(f, m) == f = "vel" => Heard(m)

\* The velocity floor learns from clearly quiet fixes only.
Teachable(f, m) == f = "vel" => Heard(m) /\ MagVelFree(m) < VelK

\* Mutant: a floor goes on learning while its lane accumulates.
QuiescentAlways(f) == TRUE

Quiescent(f) == \A l \in Lanes : FloorOf[l] = f => sum[l] = 0

Rate(f) ==
  IF Warming THEN warmup + 1 ELSE IF f = "vel" THEN VelMemory ELSE Memory

Learned(m) ==
  [f \in Floors |->
     IF Teachable(f, m) /\ (Warming \/ Quiescent(f))
     THEN Toward(floor[f], Sample(m)[f], Rate(f))
     ELSE floor[f]]

\* The base reference and the noise factor of a lane (2.5, 1.5 and 2 times).
BaseK == [n |-> K, e |-> K, mag |-> MagK, vel |-> VelK]
HalfFactor == [n |-> 5, e |-> 5, mag |-> 3, vel |-> 4]
EffK(f, fl) == Larger(BaseK[f], (HalfFactor[f] * fl[f]) \div 2)

Excess(m) == [np |-> m.n, nn |-> -m.n, ep |-> m.e, en |-> -m.e,
              mag |-> m.mag, vel |-> MagVelFree(m)]

\* fl is Learned(m): the floors are brought up to date first.
Accumulated(m, fl) ==
  [l \in Lanes |->
     IF Warming THEN 0
     ELSE IF l = "vel" /\ ~Heard(m) THEN sum[l]
     ELSE NonNegative(sum[l] + Excess(m)[l] - EffK(FloorOf[l], fl))]

Threshold(l, m) ==
  IF l = "vel" THEN VelH ELSE Widened(IF l = "mag" THEN MagH ELSE H, m)

DriftFires(m, s) == ~Warming /\ \E l \in Lanes : s[l] >= Threshold(l, m)
-----------------------------------------------------------------------------
(***************************************************************************)
(* JumpDetector::evaluate.  The counter is a u8 and saturates.             *)
(***************************************************************************)
Mismatch(m) == Doppler(m) /\ MagVel(m) > Widened(MaxMismatch, m)

Mismatches(m) ==
  IF ~Doppler(m) THEN NonNegative(mismatches - 1)
  ELSE IF ~Mismatch(m) THEN 0
  ELSE IF mismatches < StreakMax THEN mismatches + 1 ELSE StreakMax

VelocityMismatch(m) == Mismatch(m) /\ Mismatches(m) >= Persist

HardResidual(m) == m.mag > (IF Degraded(m) THEN 2 * MaxJump ELSE MaxJump)

JumpFires(m) == VelocityMismatch(m) \/ HardResidual(m)
-----------------------------------------------------------------------------
(***************************************************************************)
(* The checks of on_gps itself.  t is the time of the fix.                 *)
(***************************************************************************)
DropoutSeconds(t) == IF last_gps_t = None THEN 0 ELSE t - last_gps_t
InDropoutRecovery(t) == DropoutSeconds(t) > FreezeGap

\* The fix is still within the radius of the streak's anchor.
FrozenCandidate(m) ==
  frozen_offset # None /\ Abs(frozen_offset + m.moved) < FrozenRadius

FrozenOffset(m) == IF FrozenCandidate(m) THEN frozen_offset + m.moved ELSE 0
FrozenPathKept(m) == IF FrozenCandidate(m) THEN frozen_path ELSE 0

\* The gap, cut to the dropout threshold.
AccruedTime(t) ==
  IF InDropoutRecovery(t) THEN FreezeGap ELSE NonNegative(DropoutSeconds(t))

\* Mutant: a gap starts the inertial path afresh.
FrozenPathUnbroken(m, t) ==
  IF ~FrozenCandidate(m) \/ InDropoutRecovery(t) THEN 0
  ELSE IF m.imu_speed > FrozenMinVel
  THEN frozen_path + m.imu_speed * AccruedTime(t)
  ELSE frozen_path

FrozenPath(m, t) ==
  IF FrozenCandidate(m) /\ m.imu_speed > FrozenMinVel
  THEN frozen_path + m.imu_speed * AccruedTime(t)
  ELSE FrozenPathKept(m)

FrozenGps(m, t) == FrozenCandidate(m) /\ FrozenPath(m, t) >= FrozenMinPath

\* Judged only over a normal interval between two evaluated fixes.
VerticalRate(m, t) ==
  /\ last_gps_alt # None
  /\ t - last_gps_alt.t \in 1 .. FreezeGap
  /\ Abs(m.alt - last_gps_alt.alt) > MaxClimb * (t - last_gps_alt.t)

NoDopplerStreak(m) == IF Doppler(m) THEN 0 ELSE no_doppler_streak + 1

\* set_pos_detectors_enabled, as on_gps calls it.
GateOpen(m) == Doppler(m) \/ NoDopplerStreak(m) < GateStreak
Closing(m) == enabled /\ ~GateOpen(m)
-----------------------------------------------------------------------------
(***************************************************************************)
(* StateMachine::evaluate up to its match on the state.                    *)
(***************************************************************************)
Active(m) == GateOpen(m) /\ state # "Spoofed"

\* The detectors' state as evaluate() leaves it.
FloorAfter(m) == IF Active(m) THEN Learned(m) ELSE floor

\* Mutant: the gate closes over what has accumulated.
SumAfterKept(m, fl) == IF Active(m) THEN Accumulated(m, fl) ELSE sum

SumAfter(m, fl) ==
  IF Active(m) THEN Accumulated(m, fl) ELSE IF Closing(m) THEN Zero ELSE sum

MismatchesAfter(m) ==
  IF Active(m) THEN Mismatches(m) ELSE IF Closing(m) THEN 0 ELSE mismatches

Firing(m, t, s) ==
  \/ Active(m) /\ (JumpFires(m) \/ DriftFires(m, s))
  \/ FrozenGps(m, t)
  \/ VerticalRate(m, t)

PosClean(m, fl) ==
  2 * m.mag < Larger(IF Doppler(m) THEN 2 * K ELSE K, 6 * fl.mag)
VelClean(m) == 4 * MagVel(m) < MaxMismatch

\* The peak is over the position lanes; the velocity lane is not in it.
DriftQuiescent(s) == \A l \in Lanes \ {"vel"} : 4 * s[l] < H

SampleClean(m, fl, s, firing) ==
  PosClean(m, fl) /\ VelClean(m) /\ DriftQuiescent(s) /\ ~firing
-----------------------------------------------------------------------------
(***************************************************************************)
(* History.  A position attack begins on an honest magnitude floor; it and *)
(* a walk-off go on while every fix the detectors evaluate belongs to it.  *)
(***************************************************************************)
InAttack(m) == Doppler(m) /\ m.mag \in Bias .. 2 * MaxJump

AttackRun(m) ==
  IF InAttack(m) /\ ~Warming /\ (attack_run > 0 \/ floor.mag <= HonestFloor)
  THEN attack_run + 1
  ELSE 0

WalkRun(m) ==
  IF ~Active(m) \/ Warming THEN 0
  ELSE IF ~Heard(m) THEN walk_run
  ELSE IF MagVelFree(m) >= WalkOff THEN walk_run + 1 ELSE 0

StuckRun(m, t) ==
  IF /\ m.moved = 0
     /\ m.imu_speed > FrozenMinVel
     /\ frozen_offset # None
     /\ DropoutSeconds(t) >= 1
  THEN stuck_run + 1
  ELSE 0

(***************************************************************************)
(* A bound of the model: a behaviour is a few stretches of regular fixes   *)
(* of one kind.  A change of kind, an irregular step, a skipped fix and a  *)
(* reset each count against MaxChurn.                                      *)
(***************************************************************************)
Odd(condition) == IF condition THEN 1 ELSE 0

FixOdds(m, d) == Odd(last_kind \notin {None, m.kind}) + Odd(d # 1)

Churn(irregularities) ==
  /\ churn + irregularities <= MaxChurn
  /\ churn' = churn + irregularities

\* The messages that may come next, each with its distance from the last fix.
Arrivals ==
  {a \in Messages \X FixSteps :
     /\ HasFix(a[1])
     /\ clock + a[2] \in 0 .. MaxTime
     /\ churn + FixOdds(a[1], a[2]) <= MaxChurn}
-----------------------------------------------------------------------------
\* Set by every fix the buffer can serve, before evaluate().
SideState(m, t) ==
  /\ last_gps_t' = t
  /\ frozen_offset' = FrozenOffset(m)
  /\ frozen_path' = FrozenPath(m, t)
  /\ last_gps_alt' = [alt |-> m.alt, t |-> t]
  /\ no_doppler_streak' = NoDopplerStreak(m)
  /\ clock' = t
  /\ last_kind' = m.kind

\* A fix the IMU buffer can serve: the floors fl, the sums s and the verdicts
\* firing and clean are what the detectors make of it.
EvaluatedFix(m, d) ==
  \E t \in {clock + d}, fl \in {FloorAfter(m)} :
  \E s \in {SumAfter(m, fl)} :
  \E firing \in {Firing(m, t, s)} :
  \E clean \in {SampleClean(m, fl, s, firing)} :
  LET cleared == state = "Suspicious" /\ state' = "Normal"
  IN  /\ Churn(FixOdds(m, d))
      /\ \/ FixWhileSpoofed
         \/ \E plausible \in BOOLEAN :
              FixEvaluated(t, InDropoutRecovery(t), firing, clean, plausible)
      /\ SideState(m, t)
      /\ enabled' = GateOpen(m)
      /\ floor' = fl
      /\ warmup' = IF Active(m) /\ Warming THEN warmup + 1 ELSE warmup
      /\ sum' = IF cleared THEN Zero ELSE s
      /\ mismatches' = IF cleared THEN 0 ELSE MismatchesAfter(m)
      /\ attack_run' = AttackRun(m)
      /\ walk_run' = IF cleared THEN 0 ELSE WalkRun(m)
      /\ stuck_run' = StuckRun(m, t)
      /\ erased' = IF cleared THEN s ELSE erased

\* A fix the IMU buffer cannot serve leaves the detectors as they are.
UnservedFix(m, d) ==
  LET t == clock + d
  IN  /\ Churn(FixOdds(m, d) + 1)
      /\ FixSkipped(InDropoutRecovery(t))
      /\ last_gps_t' = t
      /\ frozen_offset' = FrozenOffset(m)
      /\ frozen_path' = FrozenPathKept(m)
      /\ clock' = t
      /\ last_kind' = m.kind
      /\ stuck_run' = IF FrozenCandidate(m) THEN stuck_run ELSE 0
      /\ UNCHANGED <<drift, mismatches, enabled, no_doppler_streak,
                     last_gps_alt, attack_run, walk_run, erased>>

\* The operator's reset: the machine's and Fusion's own.
OperatorReset ==
  /\ Churn(1)
  /\ ManualReset
  /\ sum' = Zero
  /\ mismatches' = 0
  /\ no_doppler_streak' = 0
  /\ frozen_offset' = None
  /\ frozen_path' = 0
  /\ last_gps_t' = None
  /\ last_gps_alt' = None
  /\ attack_run' = 0
  /\ walk_run' = 0
  /\ stuck_run' = 0
  /\ UNCHANGED <<floor, warmup, enabled, clock, last_kind, erased>>

RNext ==
  \/ \E a \in Arrivals : EvaluatedFix(a[1], a[2])
  \/ \E a \in Arrivals : UnservedFix(a[1], a[2])
  \/ OperatorReset

RSpec == RInit /\ [][RNext]_vars
-----------------------------------------------------------------------------
(***************************************************************************)
(* Properties.                                                             *)
(***************************************************************************)

\* The fixes a lane that gains g on each of them needs to reach h.
FixesToReach(h, g) == (h + g - 1) \div g

\* A position attack is raised.  Fixes whose residual is at least Bias, in any
\* mixture of sizes, directions and claimed quality, that begin when the
\* magnitude floor is honest, leave Normal after a number of fixes fixed by
\* the configuration: they neither teach the floor nor are taken for clean,
\* and gaps and fixes without a residual between them do not help.
AttackRaised ==
  attack_run >= FixesToReach((3 * MagH) \div 2, Gain) => state # "Normal"

\* A walk-off whose velocity the blend has imported is raised.  Whatever the
\* flight before it, the warmup included, the velocity floor stays below the
\* base reference, so a free-inertial residual of WalkOff leaves Normal in a
\* bounded number of the fixes that are heard since the last accepted clear.
WalkOffRaised ==
  walk_run >= FixesToReach(VelH, WalkGain) => state # "Normal"

\* A stuck or replayed receiver is raised: fixes that stand still while the
\* inertial speed says otherwise leave Normal once their least possible path
\* is long enough, whatever gaps and unserved fixes lie between them.
StuckReceiverRaised ==
  stuck_run * (FrozenMinVel + 1) >= FrozenMinPath => state # "Normal"

\* Closing the Doppler gate leaves no trace: nothing accumulated before it
\* can fire on the fix with which Doppler returns.
GateLeavesNoTrace == ~enabled => sum = Zero /\ mismatches = 0

\* "Clearing also requires every drift CUSUM to be below this fraction of the
\* firing threshold `cusum_h_m`" (src/src/detect/state_machine.rs,
\* CLEAR_QUIESCENT_FRACTION): no accepted clear throws away a larger sum.
EveryCusumQuiescentAtClear == \A l \in Lanes : 4 * erased[l] < H
=============================================================================
