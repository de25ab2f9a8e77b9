-------------------------- MODULE ResidualsProofs ---------------------------
(***************************************************************************)
(* Proofs about Residuals, for every configuration, every set of messages  *)
(* and every spacing of the fixes that the assumptions of the module       *)
(* allow: what the drift detector and the stuck-receiver check accumulate  *)
(* over an attack, whatever the flight before it, raises the alarm; and    *)
(* the verdicts they reach drive the state machine as Detector says, so    *)
(* that its theorems hold of them.                                         *)
(***************************************************************************)
EXTENDS Residuals, DetectorProofs

(***************************************************************************)
(* The inductive invariant.                                                *)
(***************************************************************************)
RTypeOK ==
  /\ floor \in [Floors -> Int]
  /\ sum \in [Lanes -> Nat]
  /\ warmup \in Nat
  /\ frozen_offset \in Int \cup {None}
  /\ frozen_path \in Nat
  /\ last_gps_t \in Int \cup {None}
  /\ clock \in Int
  /\ {attack_run, walk_run, stuck_run} \subseteq Nat

\* Normal means that what has accumulated does not fire.
NormalIsQuiet ==
  state = "Normal" =>
    /\ sum["mag"] < (3 * MagH) \div 2
    /\ sum["vel"] < VelH
    /\ frozen_path < FrozenMinPath

\* No flight, the warmup included, lifts the velocity floor past the base
\* reference, so the lane's reference is at most twice that.
VelFloorBounded == floor["vel"] \in 0 .. VelK

\* Each heard fix of a walk-off adds at least WalkGain to the velocity lane.
WalkAccumulates == sum["vel"] >= WalkGain * walk_run

\* Each fix of an attack adds at least Gain to the magnitude lane, whose floor
\* has learned from the first of them at most.
AttackAccumulates ==
  attack_run > 0 /\ state # "Spoofed" =>
    /\ floor["mag"] <= TaughtFloor
    /\ sum["mag"] >= Gain * attack_run

\* Each fix of a standstill adds at least one second at the least speed that
\* counts, and none of them leaves the anchor's radius.
StandstillAccrues ==
  /\ frozen_offset # None => Abs(frozen_offset) < FrozenRadius
  /\ stuck_run > 0 => frozen_offset # None
  /\ frozen_path >= stuck_run * (FrozenMinVel + 1)

RInv ==
  /\ RTypeOK
  /\ NormalIsQuiet
  /\ VelFloorBounded
  /\ WalkAccumulates
  /\ AttackAccumulates
  /\ StandstillAccrues

(***************************************************************************)
(* Arithmetic.                                                             *)
(***************************************************************************)
\* A step of a running mean lies between the mean and the sample.
LEMMA TowardBetween ==
  ASSUME NEW x \in Int, NEW s \in Int, NEW w \in Nat \ {0}
  PROVE  /\ Toward(x, s, w) \in Int
         /\ x <= Toward(x, s, w) \/ s <= Toward(x, s, w)
         /\ Toward(x, s, w) <= x \/ Toward(x, s, w) <= s
BY DEF Toward

\* A step of a running mean grows with the mean and with the sample.
LEMMA TowardMonotone ==
  ASSUME NEW x \in Int, NEW y \in Int, NEW s \in Int, NEW u \in Int,
         NEW w \in Nat \ {0}, x <= y, s <= u
  PROVE  Toward(x, s, w) <= Toward(y, u, w)
BY DEF Toward

\* A lane that gains g on each of r fixes, r at least FixesToReach, reaches h.
LEMMA Reached ==
  ASSUME NEW h \in Int, NEW g \in Nat \ {0}, NEW r \in Int,
         r >= FixesToReach(h, g)
  PROVE  g * r >= h
<1> DEFINE q == (h + g - 1) \div g
<1>1. q \in Int /\ h + g - 1 < g * q + g
  OBVIOUS
<1>2. r >= q
  BY DEF FixesToReach
<1> HIDE DEF q
<1>3. h <= g * q
  BY <1>1
<1>4. g * r >= g * q
  BY <1>1, <1>2
<1> QED BY <1>1, <1>3, <1>4

\* One more fix is one more gain.
LEMMA OneMore ==
  ASSUME NEW g \in Int, NEW r \in Int
  PROVE  /\ g * (r + 1) = g * r + g
         /\ (r + 1) * g = r * g + g
         /\ g * 0 = 0
         /\ 0 * g = 0
OBVIOUS

\* The parameters of the properties are numbers, and what they gain is positive.
LEMMA Gains ==
  /\ TaughtFloor \in Int
  /\ HonestFloor \in Nat
  /\ HonestFloor <= TaughtFloor
  /\ Gain \in Nat \ {0}
  /\ 4 * Gain >= H
  /\ WalkGain \in Nat \ {0}
<1>1. /\ HonestFloor \in Nat /\ MaxJump \in Nat /\ HonestFloor <= 2 * MaxJump
      /\ Memory \in Nat \ {0}
  BY ResidualsAssumption DEF ValidConfig
<1>2. TaughtFloor \in Int /\ HonestFloor <= TaughtFloor
  BY <1>1 DEF TaughtFloor
<1>3. Gain \in Int /\ WalkGain \in Int
  BY <1>2, ResidualsAssumption DEF Gain, WalkGain, Larger, ValidConfig
<1> QED BY <1>1, <1>2, <1>3, ResidualsAssumption DEF ValidConfig

(***************************************************************************)
(* What the detectors compute for one message.                             *)
(***************************************************************************)
\* The lanes by name.
LEMMA LaneNames == Lanes = {"np", "nn", "ep", "en", "mag", "vel"}
BY DEF Lanes, FloorOf

\* Samples, excesses and references are integers, and so is every sum.
LEMMA ComputedTypes ==
  ASSUME RTypeOK, NEW m \in Messages
  PROVE  /\ \A f \in Floors : Sample(m)[f] \in Int /\ Rate(f) \in Nat \ {0}
         /\ \A l \in Lanes : Excess(m)[l] \in Int
         /\ MagVelFree(m) \in Nat
         /\ FloorAfter(m) \in [Floors -> Int]
         /\ \A fl \in [Floors -> Int] :
              /\ \A f \in Floors : EffK(f, fl) \in Int
              /\ SumAfter(m, fl) \in [Lanes -> Nat]
<1>1. WellTyped(m)
  BY ResidualsAssumption
<1>2. MagVelFree(m) \in Nat
  BY <1>1 DEF MagVelFree, WellTyped
<1>3. ASSUME NEW f \in Floors
      PROVE  Sample(m)[f] \in Int /\ Rate(f) \in Nat \ {0}
  <2>1. Sample(m)[f] \in Int
    BY <1>1, <1>2 DEF Sample, Floors, Abs, WellTyped
  <2>2. Rate(f) \in Nat \ {0}
    BY ResidualsAssumption DEF Rate, RTypeOK
  <2> QED BY <2>1, <2>2
<1>4. ASSUME NEW l \in Lanes
      PROVE  Excess(m)[l] \in Int
  BY <1>1, <1>2, LaneNames DEF Excess, WellTyped
<1>5. ASSUME NEW fl \in [Floors -> Int], NEW f \in Floors
      PROVE  EffK(f, fl) \in Int
  BY <1>5, ResidualsAssumption
     DEF EffK, Floors, BaseK, HalfFactor, Larger, ValidConfig
<1>6. FloorAfter(m) \in [Floors -> Int]
  <2>1. ASSUME NEW f \in Floors
        PROVE  Toward(floor[f], Sample(m)[f], Rate(f)) \in Int
    BY <1>3, <2>1, TowardBetween DEF RTypeOK
  <2> QED BY <2>1 DEF FloorAfter, Learned, RTypeOK
<1>7. ASSUME NEW fl \in [Floors -> Int]
      PROVE  SumAfter(m, fl) \in [Lanes -> Nat]
  <2>1. ASSUME NEW l \in Lanes
        PROVE  FloorOf[l] \in Floors
    BY LaneNames DEF FloorOf, Floors
  <2>2. ASSUME NEW l \in Lanes
        PROVE  NonNegative(sum[l] + Excess(m)[l] - EffK(FloorOf[l], fl)) \in Nat
    BY <1>4, <1>5, <2>1 DEF NonNegative, Larger, RTypeOK
  <2>3. Accumulated(m, fl) \in [Lanes -> Nat]
    BY <2>2 DEF Accumulated, RTypeOK
  <2> QED BY <2>3 DEF SumAfter, Zero, RTypeOK
<1> QED BY <1>2, <1>3, <1>4, <1>5, <1>6, <1>7

\* What one evaluated fix does outside the state machine, and what the machine
\* concludes from it: Normal after the fix means that nothing fired on it, and
\* an accepted clear that the position lanes were quiescent.
LEMMA Evaluated ==
  ASSUME NEW m \in Messages, NEW d \in FixSteps, EvaluatedFix(m, d),
         NEW fl, fl = FloorAfter(m), NEW s, s = SumAfter(m, fl)
  PROVE  /\ floor' = fl
         /\ warmup' = IF Active(m) /\ Warming THEN warmup + 1 ELSE warmup
         /\ enabled' = GateOpen(m)
         /\ SideState(m, clock + d)
         /\ attack_run' = AttackRun(m)
         /\ stuck_run' = StuckRun(m, clock + d)
         /\ \/ /\ ~(state = "Suspicious" /\ state' = "Normal")
               /\ sum' = s
               /\ walk_run' = WalkRun(m)
               /\ mismatches' = MismatchesAfter(m)
            \/ /\ sum' = Zero
               /\ walk_run' = 0
               /\ mismatches' = 0
               /\ DriftQuiescent(s)
         /\ state = "Spoofed" => state' = "Spoofed"
         /\ state' = "Normal" => /\ state \in {"Normal", "Suspicious"}
                                 /\ ~Firing(m, clock + d, s)
<1> DEFINE t == clock + d
           firing == Firing(m, t, s)
           clean == SampleClean(m, fl, s, firing)
<1>1. /\ floor' = fl
      /\ warmup' = IF Active(m) /\ Warming THEN warmup + 1 ELSE warmup
      /\ enabled' = GateOpen(m)
      /\ SideState(m, t)
      /\ attack_run' = AttackRun(m)
      /\ stuck_run' = StuckRun(m, t)
  BY DEF EvaluatedFix
<1>2. \/ FixWhileSpoofed
      \/ \E plausible \in BOOLEAN :
           FixEvaluated(t, InDropoutRecovery(t), firing, clean, plausible)
  BY DEF EvaluatedFix
<1>3. \/ /\ ~(state = "Suspicious" /\ state' = "Normal")
         /\ sum' = s
         /\ walk_run' = WalkRun(m)
         /\ mismatches' = MismatchesAfter(m)
      \/ /\ state = "Suspicious" /\ state' = "Normal"
         /\ sum' = Zero
         /\ walk_run' = 0
         /\ mismatches' = 0
  BY DEF EvaluatedFix
<1>4. clean => DriftQuiescent(s) /\ ~firing
  BY DEF SampleClean
<1> HIDE DEF t, firing, clean
<1>5. /\ state = "Spoofed" => state' = "Spoofed"
      /\ state' = "Normal" => state \in {"Normal", "Suspicious"} /\ ~firing
      /\ state = "Suspicious" /\ state' = "Normal" => clean
  <2>1. CASE FixWhileSpoofed
    BY <2>1 DEF FixWhileSpoofed
  <2>2. ASSUME NEW plausible \in BOOLEAN,
               FixEvaluated(t, InDropoutRecovery(t), firing, clean, plausible)
        PROVE  /\ state # "Spoofed"
               /\ state' = "Normal" =>
                    \/ state = "Normal" /\ ~firing
                    \/ state = "Suspicious" /\ clean
    BY <2>2 DEF FixEvaluated, StayNormal, EnterSuspicious, StaySuspicious, Veto,
       Clear, Escalate, ClearDue
  <2> QED BY <1>2, <1>4, <2>1, <2>2
<1> QED BY <1>1, <1>3, <1>4, <1>5 DEF t, firing

(***************************************************************************)
(* An evaluated fix preserves the inductive invariant, part by part.       *)
(***************************************************************************)
\* The types.
LEMMA EvaluatedTypes ==
  ASSUME RTypeOK, NEW m \in Messages, NEW d \in FixSteps, EvaluatedFix(m, d)
  PROVE  RTypeOK'
<1> DEFINE fl == FloorAfter(m)
           s == SumAfter(m, fl)
<1>1. fl \in [Floors -> Int] /\ s \in [Lanes -> Nat]
  BY ComputedTypes
<1>2. WellTyped(m) /\ d \in Int /\ clock \in Int
  BY ResidualsAssumption DEF RTypeOK
<1>3. /\ floor' = fl
      /\ sum' = s \/ sum' = Zero
      /\ warmup' = IF Active(m) /\ Warming THEN warmup + 1 ELSE warmup
      /\ SideState(m, clock + d)
      /\ attack_run' = AttackRun(m)
      /\ stuck_run' = StuckRun(m, clock + d)
      /\ walk_run' = WalkRun(m) \/ walk_run' = 0
  BY Evaluated
<1> HIDE DEF fl, s
<1>4. floor' \in [Floors -> Int] /\ sum' \in [Lanes -> Nat] /\ warmup' \in Nat
  BY <1>1, <1>3 DEF Zero, RTypeOK
<1>5. /\ frozen_offset' \in Int \cup {None}
      /\ last_gps_t' \in Int \cup {None}
      /\ clock' \in Int
  BY <1>2, <1>3 DEF SideState, FrozenOffset, FrozenCandidate, WellTyped, RTypeOK
<1>6. frozen_path' \in Nat
  <2>1. AccruedTime(clock + d) \in Nat
    BY <1>2, ResidualsAssumption, ConfigAssumption
       DEF AccruedTime, InDropoutRecovery, DropoutSeconds, NonNegative, Larger,
           RTypeOK
  <2>2. m.imu_speed * AccruedTime(clock + d) \in Nat
    BY <1>2, <2>1 DEF WellTyped
  <2> QED BY <1>3, <2>2 DEF SideState, FrozenPath, FrozenPathKept, RTypeOK
<1>7. {attack_run', walk_run', stuck_run'} \subseteq Nat
  BY <1>3 DEF AttackRun, WalkRun, StuckRun, RTypeOK
<1> QED BY <1>4, <1>5, <1>6, <1>7 DEF RTypeOK

\* Normal after the fix: no lane and no standstill has reached its threshold.
LEMMA EvaluatedQuiet ==
  ASSUME RTypeOK, NormalIsQuiet,
         NEW m \in Messages, NEW d \in FixSteps, EvaluatedFix(m, d)
  PROVE  NormalIsQuiet'
<1> SUFFICES ASSUME state' = "Normal"
             PROVE  /\ sum'["mag"] < (3 * MagH) \div 2
                    /\ sum'["vel"] < VelH
                    /\ frozen_path' < FrozenMinPath
  BY DEF NormalIsQuiet
<1> DEFINE fl == FloorAfter(m)
           s == SumAfter(m, fl)
           t == clock + d
<1>1. fl \in [Floors -> Int] /\ s \in [Lanes -> Nat]
  BY ComputedTypes
<1>2. /\ sum' = Zero \/ (sum' = s /\ state = "Normal")
      /\ SideState(m, t)
      /\ ~Firing(m, t, s)
  BY Evaluated
<1>3. /\ VelH \in Nat \ {0} /\ MagH \in Nat \ {0} /\ FrozenMinPath \in Nat \ {0}
      /\ 0 < (3 * MagH) \div 2 /\ MagH <= (3 * MagH) \div 2
  BY ResidualsAssumption DEF ValidConfig
<1>4. {"mag", "vel"} \subseteq Lanes /\ Zero["mag"] = 0 /\ Zero["vel"] = 0
  BY LaneNames DEF Zero
<1>5. frozen_path' < FrozenMinPath
  <2>1. frozen_path' = FrozenPath(m, t) /\ ~FrozenGps(m, t)
    BY <1>2 DEF SideState, Firing
  <2>2. CASE FrozenCandidate(m)
    <3>1. frozen_path' \in Nat
      BY EvaluatedTypes DEF RTypeOK
    <3> QED BY <1>3, <2>1, <2>2, <3>1 DEF FrozenGps
  <2>3. CASE ~FrozenCandidate(m)
    BY <1>3, <2>1, <2>3 DEF FrozenPath, FrozenPathKept
  <2> QED BY <2>2, <2>3
<1>6. ASSUME state = "Normal"
      PROVE  s["mag"] < (3 * MagH) \div 2 /\ s["vel"] < VelH
  <2>1. CASE Active(m) /\ ~Warming
    <3>1. \A l \in Lanes : ~(s[l] >= Threshold(l, m))
      BY <1>2, <2>1 DEF Firing, DriftFires
    <3>2. /\ Threshold("vel", m) = VelH
          /\ Threshold("mag", m) \in {MagH, (3 * MagH) \div 2}
      BY DEF Threshold, Widened
    <3> HIDE DEF s
    <3>3. s["mag"] \in Nat /\ s["vel"] \in Nat
      BY <1>1, <1>4
    <3> QED BY <1>3, <1>4, <3>1, <3>2, <3>3
  <2>2. CASE Active(m) /\ Warming
    BY <1>3, <1>4, <2>2 DEF SumAfter, Accumulated
  <2>3. CASE ~Active(m)
    BY <1>3, <1>4, <1>6, <2>3 DEF SumAfter, NormalIsQuiet
  <2> QED BY <2>1, <2>2, <2>3
<1> HIDE DEF s
<1> QED BY <1>2, <1>3, <1>4, <1>5, <1>6

\* The velocity floor learns from samples below the base reference only.
LEMMA EvaluatedVelFloor ==
  ASSUME RTypeOK, VelFloorBounded,
         NEW m \in Messages, NEW d \in FixSteps, EvaluatedFix(m, d)
  PROVE  VelFloorBounded' /\ FloorAfter(m)["vel"] \in 0 .. VelK
<1>1. floor' = FloorAfter(m)
  BY Evaluated
<1>2. /\ MagVelFree(m) \in Nat /\ Rate("vel") \in Nat \ {0}
      /\ Sample(m)["vel"] = MagVelFree(m) /\ VelK \in Nat \ {0}
      /\ "vel" \in Floors
  BY ComputedTypes, ResidualsAssumption DEF Floors, Sample
<1>3. floor["vel"] \in 0 .. VelK
  BY DEF VelFloorBounded
<1>4. ASSUME MagVelFree(m) < VelK
      PROVE  Toward(floor["vel"], MagVelFree(m), Rate("vel")) \in 0 .. VelK
  <2> DEFINE x == floor["vel"]
             v == MagVelFree(m)
             w == Rate("vel")
  <2>1. /\ x \in 0 .. VelK /\ v \in Nat /\ v < VelK
        /\ w \in Nat \ {0} /\ VelK \in Nat
    BY <1>2, <1>3, <1>4
  <2> SUFFICES Toward(x, v, w) \in 0 .. VelK
    OBVIOUS
  <2> HIDE DEF x, v, w
  <2>2. x \in Int /\ v \in Int
    BY <2>1
  <2> QED BY <2>1, <2>2 DEF Toward
<1>5. FloorAfter(m)["vel"] \in 0 .. VelK
  BY <1>2, <1>3, <1>4 DEF FloorAfter, Learned, Teachable
<1> QED BY <1>1, <1>5 DEF VelFloorBounded

\* A fix that counts in the walk-off adds its gain to the velocity lane.
LEMMA EvaluatedWalk ==
  ASSUME RTypeOK, VelFloorBounded, WalkAccumulates,
         NEW m \in Messages, NEW d \in FixSteps, EvaluatedFix(m, d)
  PROVE  WalkAccumulates'
<1> DEFINE fl == FloorAfter(m)
           s == SumAfter(m, fl)
<1>1. fl \in [Floors -> Int] /\ s \in [Lanes -> Nat]
  BY ComputedTypes
<1>2. \/ sum' = s /\ walk_run' = WalkRun(m)
      \/ sum' = Zero /\ walk_run' = 0
  BY Evaluated
<1>3. WalkGain \in Nat \ {0} /\ "vel" \in Lanes /\ Zero["vel"] = 0
  BY Gains, LaneNames DEF Zero
<1>4. s["vel"] \in Nat /\ sum["vel"] \in Nat /\ walk_run \in Nat
  BY <1>1, <1>3 DEF RTypeOK
<1>5. s["vel"] >= WalkGain * WalkRun(m)
  <2>1. CASE WalkRun(m) = 0
    BY <1>3, <1>4, <2>1
  <2>2. CASE /\ Active(m) /\ ~Warming
             /\ ~Heard(m)
             /\ WalkRun(m) = walk_run
    <3>1. s["vel"] = sum["vel"]
      BY <1>3, <2>2 DEF SumAfter, Accumulated
    <3> QED BY <2>2, <3>1 DEF WalkAccumulates
  <2>3. CASE /\ Active(m) /\ ~Warming
             /\ Heard(m)
             /\ MagVelFree(m) >= WalkOff
             /\ WalkRun(m) = walk_run + 1
    <3>1. FloorOf["vel"] = "vel" /\ Excess(m)["vel"] = MagVelFree(m)
      BY DEF FloorOf, Excess
    <3>2. EffK("vel", fl) \in Int /\ EffK("vel", fl) <= 2 * VelK
      <4>1. fl["vel"] \in 0 .. VelK
        BY EvaluatedVelFloor
      <4> HIDE DEF fl
      <4>2. EffK("vel", fl) = Larger(VelK, (4 * fl["vel"]) \div 2)
        BY DEF EffK, BaseK, HalfFactor
      <4> QED BY <4>1, <4>2, ResidualsAssumption DEF Larger
    <3> HIDE DEF fl
    <3>3. s["vel"] = NonNegative(sum["vel"] + MagVelFree(m) - EffK("vel", fl))
      BY <1>3, <2>3, <3>1 DEF SumAfter, Accumulated
    <3> HIDE DEF s
    <3>4. MagVelFree(m) \in Nat /\ VelK \in Nat /\ WalkOff \in Nat
      BY ComputedTypes, ResidualsAssumption
    <3>5. s["vel"] >= sum["vel"] + WalkGain
      BY <1>4, <2>3, <3>2, <3>3, <3>4 DEF NonNegative, Larger, WalkGain
    <3>6. WalkGain * (walk_run + 1) = WalkGain * walk_run + WalkGain
      BY <1>3, <1>4, OneMore
    <3>7. WalkGain * walk_run \in Int
      BY <1>3, <1>4
    <3> QED BY <1>3, <1>4, <2>3, <3>5, <3>6, <3>7 DEF WalkAccumulates
  <2> QED BY <2>1, <2>2, <2>3 DEF WalkRun
<1> HIDE DEF s
<1>6. WalkGain * 0 = 0
  BY <1>3
<1> QED BY <1>2, <1>3, <1>5, <1>6 DEF WalkAccumulates

\* A fix of the attack leaves the magnitude floor at what its first fix could
\* teach it, adds its gain to the magnitude lane, and cannot be a clear.
LEMMA EvaluatedAttack ==
  ASSUME RTypeOK, AttackAccumulates,
         NEW m \in Messages, NEW d \in FixSteps, EvaluatedFix(m, d)
  PROVE  AttackAccumulates'
<1> SUFFICES ASSUME attack_run' > 0, state' # "Spoofed"
             PROVE  /\ floor'["mag"] <= TaughtFloor
                    /\ sum'["mag"] >= Gain * attack_run'
  BY DEF AttackAccumulates
<1> DEFINE fl == FloorAfter(m)
           s == SumAfter(m, fl)
<1>1. fl \in [Floors -> Int] /\ s \in [Lanes -> Nat]
  BY ComputedTypes
<1>2. /\ floor' = fl
      /\ attack_run' = AttackRun(m)
      /\ sum' = s \/ DriftQuiescent(s)
      /\ state # "Spoofed"
  BY Evaluated
<1>3. /\ InAttack(m) /\ ~Warming
      /\ attack_run > 0 \/ floor["mag"] <= HonestFloor
      /\ attack_run' = attack_run + 1
  BY <1>2 DEF AttackRun
<1>4. Active(m)
  BY <1>2, <1>3 DEF Active, GateOpen, InAttack
<1>5. /\ "mag" \in Lanes /\ "mag" \in Floors /\ FloorOf["mag"] = "mag"
      /\ Sample(m)["mag"] = m.mag /\ Excess(m)["mag"] = m.mag
  BY LaneNames DEF FloorOf, Floors, Sample, Excess
<1>6. /\ Gain \in Nat \ {0} /\ 4 * Gain >= H /\ H \in Nat
      /\ TaughtFloor \in Int /\ HonestFloor \in Nat /\ HonestFloor <= TaughtFloor
  BY Gains, ResidualsAssumption DEF ValidConfig
<1>7. /\ m.mag \in Nat /\ Bias <= m.mag /\ m.mag <= 2 * MaxJump
      /\ Bias \in Nat /\ MaxJump \in Nat /\ MagK \in Nat /\ Memory \in Nat \ {0}
  <2>1. m.mag \in Nat /\ Bias \in Nat /\ MaxJump \in Nat
    BY ResidualsAssumption DEF WellTyped, ValidConfig
  <2> QED BY <1>3, <2>1, ResidualsAssumption DEF InAttack, ValidConfig
<1>8. floor["mag"] \in Int /\ sum["mag"] \in Nat /\ attack_run \in Nat
  BY <1>5 DEF RTypeOK
<1>9. attack_run > 0 => sum["mag"] > 0
  <2>1. attack_run > 0 => Gain * attack_run > 0
    BY <1>6, <1>8
  <2> QED BY <1>2, <1>6, <1>8, <2>1 DEF AttackAccumulates
<1>10. fl["mag"] <= TaughtFloor
  <2>1. \/ fl["mag"] = floor["mag"]
        \/ fl["mag"] = Toward(floor["mag"], m.mag, Memory) /\ sum["mag"] = 0
    BY <1>3, <1>4, <1>5 DEF FloorAfter, Learned, Rate, Quiescent
  <2>2. CASE fl["mag"] = floor["mag"]
    BY <1>2, <1>3, <1>6, <1>8, <2>2 DEF AttackAccumulates
  <2>3. CASE fl["mag"] = Toward(floor["mag"], m.mag, Memory) /\ sum["mag"] = 0
    <3>1. floor["mag"] <= HonestFloor
      BY <1>3, <1>9, <2>3
    <3>2. TaughtFloor = Toward(HonestFloor, 2 * MaxJump, Memory)
      BY DEF TaughtFloor, Toward
    <3>3. 2 * MaxJump \in Int /\ m.mag \in Int /\ HonestFloor \in Int
      BY <1>6, <1>7
    <3>4. Toward(floor["mag"], m.mag, Memory)
            <= Toward(HonestFloor, 2 * MaxJump, Memory)
      BY <1>7, <1>8, <3>1, <3>3, TowardMonotone
    <3> QED BY <2>3, <3>2, <3>4
  <2> QED BY <2>1, <2>2, <2>3
<1>11. /\ EffK("mag", fl) \in Int
       /\ EffK("mag", fl) <= Larger(MagK, (3 * TaughtFloor) \div 2)
  <2>1. fl["mag"] \in Int
    BY <1>1, <1>5
  <2> HIDE DEF fl
  <2>2. EffK("mag", fl) = Larger(MagK, (3 * fl["mag"]) \div 2)
    BY DEF EffK, BaseK, HalfFactor
  <2> QED BY <1>6, <1>7, <1>10, <2>1, <2>2 DEF Larger
<1>12. s["mag"] = NonNegative(sum["mag"] + m.mag - EffK("mag", fl))
  <2> HIDE DEF fl
  <2> QED BY <1>3, <1>4, <1>5 DEF SumAfter, Accumulated
<1>13. s["mag"] \in Nat /\ s["mag"] >= sum["mag"] + Gain
  <2>1. Larger(MagK, (3 * TaughtFloor) \div 2) \in Int
    BY <1>6, <1>7 DEF Larger
  <2> HIDE DEF s, fl
  <2> QED BY <1>1, <1>5, <1>7, <1>8, <1>11, <1>12, <2>1
          DEF NonNegative, Larger, Gain
<1> HIDE DEF s, fl
<1>14. sum' = s
  <2>1. 4 * s["mag"] >= H
    BY <1>6, <1>8, <1>13
  <2>2. ~DriftQuiescent(s)
    BY <1>5, <1>6, <1>13, <2>1 DEF DriftQuiescent
  <2> QED BY <1>2, <2>2
<1>15. sum'["mag"] >= Gain * attack_run'
  <2>1. Gain * (attack_run + 1) = Gain * attack_run + Gain
    BY <1>6, <1>8, OneMore
  <2>2. Gain * attack_run \in Int /\ (attack_run = 0 => Gain * attack_run = 0)
    BY <1>6, <1>8
  <2>3. sum["mag"] >= Gain * attack_run
    BY <1>2, <1>8, <2>2 DEF AttackAccumulates
  <2> QED BY <1>3, <1>6, <1>8, <1>13, <1>14, <2>1, <2>2, <2>3
<1> QED BY <1>2, <1>10, <1>15

\* A fix that stands still stays within the radius and adds its least way.
LEMMA EvaluatedStandstill ==
  ASSUME RTypeOK, StandstillAccrues,
         NEW m \in Messages, NEW d \in FixSteps, EvaluatedFix(m, d)
  PROVE  StandstillAccrues'
<1> DEFINE t == clock + d
<1>1. /\ frozen_offset' = FrozenOffset(m)
      /\ frozen_path' = FrozenPath(m, t)
      /\ stuck_run' = StuckRun(m, t)
  BY Evaluated DEF SideState
<1>2. /\ m.moved \in Int /\ m.imu_speed \in Nat /\ d \in Int /\ clock \in Int
      /\ FrozenMinVel \in Nat /\ FreezeGap \in Nat \ {0}
      /\ FrozenRadius \in Nat \ {0}
  BY ResidualsAssumption DEF WellTyped, RTypeOK
<1>3. frozen_path \in Nat /\ stuck_run \in Nat /\ frozen_path' \in Nat
  BY EvaluatedTypes DEF RTypeOK
<1>4. frozen_offset' \in Int /\ Abs(frozen_offset') < FrozenRadius
  BY <1>1, <1>2 DEF FrozenOffset, FrozenCandidate, Abs, RTypeOK
<1>5. frozen_path' >= stuck_run' * (FrozenMinVel + 1)
  <2>1. CASE stuck_run' = 0
    BY <1>2, <1>3, <2>1
  <2>2. CASE stuck_run' # 0
    <3>1. /\ m.moved = 0 /\ m.imu_speed > FrozenMinVel
          /\ frozen_offset # None /\ DropoutSeconds(t) >= 1
          /\ stuck_run' = stuck_run + 1
      BY <1>1, <2>2 DEF StuckRun
    <3>2. FrozenCandidate(m)
      BY <3>1 DEF FrozenCandidate, StandstillAccrues, RTypeOK
    <3>3. frozen_path' = frozen_path + m.imu_speed * AccruedTime(t)
      BY <1>1, <3>1, <3>2 DEF FrozenPath
    <3>4. DropoutSeconds(t) \in Int
      BY <1>2 DEF DropoutSeconds, RTypeOK
    <3>5. AccruedTime(t) \in Nat \ {0}
      BY <1>2, <3>1, <3>4 DEF AccruedTime, InDropoutRecovery, NonNegative, Larger
    <3> HIDE DEF t
    <3>6. m.imu_speed * AccruedTime(t) >= FrozenMinVel + 1
      BY <1>2, <3>1, <3>5
    <3>7. m.imu_speed * AccruedTime(t) \in Nat
      BY <1>2, <3>5
    <3>8. (stuck_run + 1) * (FrozenMinVel + 1)
            = stuck_run * (FrozenMinVel + 1) + (FrozenMinVel + 1)
      BY <1>2, <1>3, OneMore
    <3>9. stuck_run * (FrozenMinVel + 1) \in Int
      BY <1>2, <1>3
    <3> QED BY <1>2, <1>3, <3>1, <3>3, <3>6, <3>7, <3>8, <3>9
            DEF StandstillAccrues
  <2> QED BY <2>1, <2>2
<1> QED BY <1>4, <1>5, ConfigAssumption DEF StandstillAccrues

(***************************************************************************)
(* The other steps, and the invariance theorem.                            *)
(***************************************************************************)
\* At start nothing has accumulated.
LEMMA RInvInit == RInit => RInv
<1> SUFFICES ASSUME RInit PROVE RInv OBVIOUS
<1>1. /\ "mag" \in Lanes /\ "vel" \in Lanes /\ sum["mag"] = 0 /\ sum["vel"] = 0
      /\ "vel" \in Floors /\ floor["vel"] = 0
  BY LaneNames DEF RInit, Zero, Floors
<1>2. RTypeOK
  BY DEF RInit, RTypeOK, Zero
<1>3. NormalIsQuiet
  BY <1>1, ResidualsAssumption DEF RInit, NormalIsQuiet, ValidConfig
<1>4. VelFloorBounded
  BY <1>1, ResidualsAssumption DEF VelFloorBounded
<1>5. WalkAccumulates
  BY <1>1, Gains DEF RInit, WalkAccumulates
<1>6. AttackAccumulates /\ StandstillAccrues
  BY ResidualsAssumption DEF RInit, AttackAccumulates, StandstillAccrues
<1> QED BY <1>2, <1>3, <1>4, <1>5, <1>6 DEF RInv

\* A fix the buffer cannot serve moves the anchored fix at most.
LEMMA UnservedStep ==
  ASSUME RInv, NEW m \in Messages, NEW d \in FixSteps, UnservedFix(m, d)
  PROVE  RInv'
<1> USE DEF RInv
<1>1. /\ UNCHANGED <<floor, sum, warmup, state, attack_run, walk_run>>
      /\ last_gps_t' = clock + d
      /\ clock' = clock + d
      /\ frozen_offset' = FrozenOffset(m)
      /\ frozen_path' = FrozenPathKept(m)
      /\ stuck_run' = IF FrozenCandidate(m) THEN stuck_run ELSE 0
  BY DEF UnservedFix, FixSkipped, drift
<1>2. /\ m.moved \in Int /\ d \in Int /\ clock \in Int
      /\ FrozenMinVel \in Nat /\ FrozenRadius \in Nat \ {0}
      /\ FrozenMinPath \in Nat \ {0}
  BY ResidualsAssumption DEF WellTyped, RTypeOK
<1>3. frozen_offset' \in Int /\ Abs(frozen_offset') < FrozenRadius
  BY <1>1, <1>2 DEF FrozenOffset, FrozenCandidate, Abs, RTypeOK
<1>4. /\ frozen_path' \in Nat /\ stuck_run' \in Nat
      /\ frozen_path' = frozen_path \/ frozen_path' = 0
      /\ frozen_path' >= stuck_run' * (FrozenMinVel + 1)
  <2>1. CASE FrozenCandidate(m)
    BY <1>1, <2>1 DEF FrozenPathKept, RTypeOK, StandstillAccrues
  <2>2. CASE ~FrozenCandidate(m)
    BY <1>1, <1>2, <2>2 DEF FrozenPathKept
  <2> QED BY <2>1, <2>2
<1>5. RTypeOK'
  BY <1>1, <1>2, <1>3, <1>4 DEF RTypeOK
<1>6. NormalIsQuiet'
  BY <1>1, <1>2, <1>4 DEF NormalIsQuiet
<1>7. VelFloorBounded' /\ WalkAccumulates' /\ AttackAccumulates'
  BY <1>1 DEF VelFloorBounded, WalkAccumulates, AttackAccumulates
<1>8. StandstillAccrues'
  BY <1>3, <1>4, ConfigAssumption DEF StandstillAccrues
<1> QED BY <1>5, <1>6, <1>7, <1>8

\* The operator's reset throws away what has accumulated and keeps the floors.
LEMMA ResetStep ==
  ASSUME RInv, OperatorReset
  PROVE  RInv'
<1> USE DEF RInv
<1>1. /\ sum' = Zero
      /\ frozen_offset' = None /\ frozen_path' = 0 /\ last_gps_t' = None
      /\ attack_run' = 0 /\ walk_run' = 0 /\ stuck_run' = 0
      /\ UNCHANGED <<floor, warmup, clock>>
  BY DEF OperatorReset
<1>2. "mag" \in Lanes /\ "vel" \in Lanes /\ Zero["mag"] = 0 /\ Zero["vel"] = 0
  BY LaneNames DEF Zero
<1>3. RTypeOK'
  BY <1>1 DEF RTypeOK, Zero
<1>4. NormalIsQuiet'
  BY <1>1, <1>2, ResidualsAssumption DEF NormalIsQuiet, ValidConfig
<1>5. VelFloorBounded'
  BY <1>1 DEF VelFloorBounded
<1>6. WalkAccumulates'
  BY <1>1, <1>2, Gains DEF WalkAccumulates
<1>7. AttackAccumulates' /\ StandstillAccrues'
  BY <1>1, ResidualsAssumption DEF AttackAccumulates, StandstillAccrues
<1> QED BY <1>3, <1>4, <1>5, <1>6, <1>7

\* The inductive invariant holds in every behaviour.
THEOREM Accumulation == RSpec => []RInv
<1>1. RInv /\ [RNext]_vars => RInv'
  <2> SUFFICES ASSUME RInv, [RNext]_vars
               PROVE  RInv'
    OBVIOUS
  <2>1. ASSUME NEW a \in Arrivals
        PROVE  a[1] \in Messages /\ a[2] \in FixSteps
    BY DEF Arrivals
  <2>2. ASSUME NEW a \in Arrivals, EvaluatedFix(a[1], a[2])
        PROVE  RInv'
    <3>1. RTypeOK'
      BY <2>1, <2>2, EvaluatedTypes DEF RInv
    <3>2. NormalIsQuiet'
      BY <2>1, <2>2, EvaluatedQuiet DEF RInv
    <3>3. VelFloorBounded'
      BY <2>1, <2>2, EvaluatedVelFloor DEF RInv
    <3>4. WalkAccumulates'
      BY <2>1, <2>2, EvaluatedWalk DEF RInv
    <3>5. AttackAccumulates'
      BY <2>1, <2>2, EvaluatedAttack DEF RInv
    <3>6. StandstillAccrues'
      BY <2>1, <2>2, EvaluatedStandstill DEF RInv
    <3> QED BY <3>1, <3>2, <3>3, <3>4, <3>5, <3>6 DEF RInv
  <2>3. ASSUME NEW a \in Arrivals, UnservedFix(a[1], a[2])
        PROVE  RInv'
    BY <2>1, <2>3, UnservedStep
  <2>4. CASE OperatorReset
    BY <2>4, ResetStep
  <2>5. CASE UNCHANGED vars
    BY <2>5 DEF vars, fsmVars, drift, sides, runs, RInv, RTypeOK, NormalIsQuiet,
       VelFloorBounded, WalkAccumulates, AttackAccumulates, StandstillAccrues
  <2> QED BY <2>2, <2>3, <2>4, <2>5 DEF RNext
<1> QED BY <1>1, RInvInit, PTL DEF RSpec

\* A position attack that begins on an honest floor leaves Normal within a
\* number of fixes fixed by the configuration, whatever its sizes, directions
\* and claimed quality.
THEOREM AttacksAreRaised == RSpec => []AttackRaised
<1>1. RInv => AttackRaised
  <2> SUFFICES ASSUME RInv, state = "Normal",
                      attack_run >= FixesToReach((3 * MagH) \div 2, Gain)
               PROVE  FALSE
    BY DEF AttackRaised
  <2>1. /\ attack_run \in Nat /\ sum["mag"] \in Nat
        /\ Gain \in Nat \ {0} /\ (3 * MagH) \div 2 \in Nat \ {0}
    BY Gains, LaneNames, ResidualsAssumption DEF RInv, RTypeOK, ValidConfig
  <2>2. Gain * attack_run >= (3 * MagH) \div 2
    BY <2>1, Reached
  <2>3. sum["mag"] < (3 * MagH) \div 2
    BY DEF RInv, NormalIsQuiet
  <2>4. Gain * attack_run \in Int /\ (attack_run = 0 => Gain * attack_run = 0)
    BY <2>1
  <2>5. attack_run > 0 => sum["mag"] >= Gain * attack_run
    BY DEF RInv, AttackAccumulates
  <2> QED BY <2>1, <2>2, <2>3, <2>4, <2>5
<1> QED BY <1>1, Accumulation, PTL

\* A walk-off that the blended velocity hides from the other lanes leaves
\* Normal within a bounded number of heard fixes, whatever the floor learned.
THEOREM WalkOffsAreRaised == RSpec => []WalkOffRaised
<1>1. RInv => WalkOffRaised
  <2> SUFFICES ASSUME RInv, state = "Normal",
                      walk_run >= FixesToReach(VelH, WalkGain)
               PROVE  FALSE
    BY DEF WalkOffRaised
  <2>1. /\ walk_run \in Nat /\ sum["vel"] \in Nat
        /\ WalkGain \in Nat \ {0} /\ VelH \in Nat
    BY Gains, LaneNames, ResidualsAssumption DEF RInv, RTypeOK
  <2>2. WalkGain * walk_run >= VelH /\ WalkGain * walk_run \in Int
    BY <2>1, Reached
  <2>3. sum["vel"] < VelH /\ sum["vel"] >= WalkGain * walk_run
    BY DEF RInv, NormalIsQuiet, WalkAccumulates
  <2> QED BY <2>1, <2>2, <2>3
<1> QED BY <1>1, Accumulation, PTL

\* A receiver that stands still in flight leaves Normal once its least path is
\* long enough, through gaps and unserved fixes.
THEOREM StuckReceiversAreRaised == RSpec => []StuckReceiverRaised
<1>1. RInv => StuckReceiverRaised
  <2> SUFFICES ASSUME RInv, state = "Normal",
                      stuck_run * (FrozenMinVel + 1) >= FrozenMinPath
               PROVE  FALSE
    BY DEF StuckReceiverRaised
  <2>1. /\ stuck_run \in Nat /\ frozen_path \in Nat
        /\ FrozenMinVel \in Nat /\ FrozenMinPath \in Nat
    BY ResidualsAssumption DEF RInv, RTypeOK
  <2>2. stuck_run * (FrozenMinVel + 1) \in Int
    BY <2>1
  <2> QED BY <2>1, <2>2 DEF RInv, NormalIsQuiet, StandstillAccrues
<1> QED BY <1>1, Accumulation, PTL

(***************************************************************************)
(* The Doppler gate.                                                       *)
(***************************************************************************)
\* While the gate is closed the sums and the mismatch counter are zero: the
\* fix that closes it clears them, and no fix behind it adds to them.
THEOREM GateIsClean == RSpec => []GateLeavesNoTrace
<1> USE DEF GateLeavesNoTrace
<1>1. RInit => GateLeavesNoTrace
  BY DEF RInit
<1>2. GateLeavesNoTrace /\ [RNext]_vars => GateLeavesNoTrace'
  <2> SUFFICES ASSUME GateLeavesNoTrace, [RNext]_vars
               PROVE  GateLeavesNoTrace'
    OBVIOUS
  <2>1. ASSUME NEW a \in Arrivals, EvaluatedFix(a[1], a[2])
        PROVE  GateLeavesNoTrace'
    <3> DEFINE m == a[1]
               fl == FloorAfter(m)
               s == SumAfter(m, fl)
    <3>1. m \in Messages /\ a[2] \in FixSteps
      BY DEF Arrivals
    <3>2. /\ enabled' = GateOpen(m)
          /\ \/ sum' = s /\ mismatches' = MismatchesAfter(m)
             \/ sum' = Zero /\ mismatches' = 0
      BY <2>1, <3>1, Evaluated
    <3>3. ~GateOpen(m) => s = Zero /\ MismatchesAfter(m) = 0
      BY DEF SumAfter, MismatchesAfter, Active, Closing
    <3> HIDE DEF m, s, fl
    <3> QED BY <3>2, <3>3 DEF Zero
  <2>2. ASSUME NEW a \in Arrivals, UnservedFix(a[1], a[2])
        PROVE  GateLeavesNoTrace'
    BY <2>2 DEF UnservedFix, drift, Zero
  <2>3. CASE OperatorReset
    BY <2>3 DEF OperatorReset, Zero
  <2>4. CASE UNCHANGED vars
    BY <2>4 DEF vars, drift, Zero
  <2> QED BY <2>1, <2>2, <2>3, <2>4 DEF RNext
<1> QED BY <1>1, <1>2, PTL DEF RSpec

(***************************************************************************)
(* The residual detectors drive the state machine as Detector allows.      *)
(***************************************************************************)
\* The times of the last fix and of the last evaluated one.
ClocksOK == now \in 0 .. MaxTime /\ clock \in 0 .. MaxTime

\* Every step is a step of the state machine or leaves it alone, and keeps the
\* times within the model.
LEMMA MachineStep ==
  ClocksOK /\ [RNext]_vars => ClocksOK' /\ [Next]_fsmVars
<1> SUFFICES ASSUME ClocksOK, [RNext]_vars
             PROVE  ClocksOK' /\ [Next]_fsmVars
  OBVIOUS
<1>1. ASSUME NEW a \in Arrivals
      PROVE  clock + a[2] \in 0 .. MaxTime
  BY DEF Arrivals
<1>a. ASSUME NEW t \in 0 .. MaxTime
      PROVE  t - now \in Steps /\ now + (t - now) = t
  <2>1. t - now \in Steps
    BY ResidualsAssumption DEF ClocksOK
  <2>2. now + (t - now) = t
    BY ConfigAssumption DEF ClocksOK
  <2> QED BY <2>1, <2>2
<1>2. ASSUME NEW a \in Arrivals, EvaluatedFix(a[1], a[2])
      PROVE  ClocksOK' /\ Next
  <2> DEFINE t == clock + a[2]
             fl == FloorAfter(a[1])
             s == SumAfter(a[1], fl)
             firing == Firing(a[1], t, s)
             clean == SampleClean(a[1], fl, s, firing)
             drop == InDropoutRecovery(t)
  <2>1. /\ clock' = t
        /\ \/ FixWhileSpoofed
           \/ \E plausible \in BOOLEAN :
                FixEvaluated(t, drop, firing, clean, plausible)
    BY <1>2 DEF EvaluatedFix, SideState
  <2>2. firing \in BOOLEAN /\ clean \in BOOLEAN /\ drop \in BOOLEAN
    BY DEF Firing, SampleClean, InDropoutRecovery
  <2>3. t \in 0 .. MaxTime
    BY <1>1
  <2> DEFINE d == t - now
  <2> HIDE DEF t, s, fl, firing, clean, drop
  <2>4. CASE FixWhileSpoofed
    BY <2>1, <2>3, <2>4 DEF FixWhileSpoofed, Next, ClocksOK
  <2>5. ASSUME NEW plausible \in BOOLEAN,
               FixEvaluated(t, drop, firing, clean, plausible)
        PROVE  ClocksOK' /\ Next
    <3>1. ClocksOK'
      BY <2>1, <2>3, <2>5 DEF FixEvaluated, ClocksOK
    <3>2. d \in Steps /\ now + d = t
      BY <2>3, <1>a
    <3> HIDE DEF d
    <3>3. FixEvaluated(now + d, drop, firing, clean, plausible)
      BY <2>5, <3>2
    <3>4. now + d \in 0 .. MaxTime
      BY <2>3, <3>2
    <3>5. Evaluation
      BY <2>2, <3>2, <3>3, <3>4 DEF Evaluation
    <3> QED BY <3>1, <3>5 DEF Next
  <2> QED BY <2>1, <2>4, <2>5
<1>3. ASSUME NEW a \in Arrivals, UnservedFix(a[1], a[2])
      PROVE  ClocksOK' /\ Next
  <2>1. /\ FixSkipped(InDropoutRecovery(clock + a[2]))
        /\ InDropoutRecovery(clock + a[2]) \in BOOLEAN
        /\ clock' = clock + a[2]
    BY <1>3 DEF UnservedFix, InDropoutRecovery
  <2>2. Next
    BY <2>1 DEF Next
  <2> QED BY <1>1, <2>1, <2>2 DEF FixSkipped, ClocksOK
<1>4. CASE OperatorReset
  BY <1>4 DEF OperatorReset, ManualReset, Next, ClocksOK
<1>5. CASE UNCHANGED vars
  BY <1>5 DEF vars, fsmVars, ClocksOK
<1> QED BY <1>2, <1>3, <1>4, <1>5 DEF RNext

\* What the residual detectors make of the fixes is a behaviour of Detector:
\* in particular no sample they call clean has a detector firing.
THEOREM ResidualsImplementDetector == RSpec => Spec
<1>1. RInit => Init /\ ClocksOK
  BY ConfigAssumption DEF RInit, Init, ClocksOK
<1> QED BY <1>1, MachineStep, PTL DEF RSpec, Spec

\* Hence an alarm that the residual detectors keep firing is latched within the
\* detector's bound, whatever the floors learn and the gate lets through, and
\* only the operator's reset releases it; and the streak that clears an alarm
\* holds samples only that every detector calls clean.
THEOREM ResidualsLatch ==
  RSpec => []StallBound /\ SpoofedLatched /\ []CleanStreakUnbroken
BY ResidualsImplementDetector, SustainedAttackLatches, Latched, CleanStreak, PTL
=============================================================================
