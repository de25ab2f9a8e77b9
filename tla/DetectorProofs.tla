--------------------------- MODULE DetectorProofs ---------------------------
(***************************************************************************)
(* Proofs about Detector, for every configuration that                     *)
(* FusionConfig::validate accepts and every set of inter-fix times, with   *)
(* or without an upper bound.                                              *)
(***************************************************************************)
EXTENDS Detector, TLAPS

USE DEF Instants, NavStateKind, FixKind

(***************************************************************************)
(* The quantities evaluate() computes ahead of its match have the expected *)
(* types and ranges.                                                       *)
(***************************************************************************)

\* The time a recovery fix absorbs is a natural number, and the dropout
\* streak stays within its saturating counter.
LEMMA AbsorbedType ==
  ASSUME TypeOK, EpisodeBookkeeping, NEW t \in Int, NEW rec \in BOOLEAN
  PROVE  /\ Absorbed(t, rec) \in Nat
         /\ Streak(rec) \in 0 .. StreakMax
         /\ state = "Suspicious" => DwellStart(t, rec) \in Int
<1> USE DEF TypeOK, FieldsOK
<1>1. state = "Suspicious" => PauseOrigin \in Int
  BY ConfigAssumption DEF PauseOrigin, EpisodeBookkeeping
<1>2. Absorbed(t, rec) \in Nat
  BY <1>1 DEF Absorbed
<1>3. Streak(rec) \in 0 .. StreakMax
  BY ConfigAssumption DEF Streak
<1>4. state = "Suspicious" => DwellStart(t, rec) \in Int
  BY <1>2 DEF DwellStart, EpisodeBookkeeping
<1> QED BY <1>2, <1>3, <1>4

\* What a recovery fix absorbs in a sustained episode is less than a dwell and
\* the gap before it: it starts counting at the previous fix, or at the start of a dwell
\* that had not run out at the previous fix.
LEMMA AbsorbedBound ==
  ASSUME TypeOK, EscalationInv, state = "Suspicious", last_fix = "firing",
         NEW t \in Int, NEW rec \in BOOLEAN
  PROVE  /\ Absorbed(t, rec) < SpoofedDwell + GapUpTo(t)
         /\ Absorbed(t, rec) > 0 => paused_cumulative_s < MaxDwellPause
<1>1. /\ SpoofedDwell \in Nat \ {0}
      /\ GapUpTo(t) \in Nat
      /\ t - now <= GapUpTo(t)
  BY ConfigAssumption DEF TypeOK, FieldsOK, GapUpTo
<1>2. suspicious_since \in Int /\ now \in Int
  BY DEF TypeOK, FieldsOK, EscalationInv, EpisodeBookkeeping
<1>3. PauseOrigin \in {suspicious_since, now}
  BY DEF PauseOrigin, EscalationInv, StreakIsCurrent
<1>4. now - suspicious_since < SpoofedDwell
  BY DEF EscalationInv
<1>5. Absorbed(t, rec) < SpoofedDwell + GapUpTo(t)
  BY <1>1, <1>2, <1>3, <1>4 DEF Absorbed
<1>6. Absorbed(t, rec) > 0 => paused_cumulative_s < MaxDwellPause
  BY DEF Absorbed, WithinCaps, BudgetOk
<1> QED BY <1>5, <1>6

(***************************************************************************)
(* Type correctness and the bookkeeping of an episode, which the types of  *)
(* the dwell rest on.                                                      *)
(***************************************************************************)
\* The initial state is well typed and carries no episode.
LEMMA TypeInit == Init => TypeOK /\ EpisodeBookkeeping
<1>1. Init => FlagsOK
  BY DEF Init, FlagsOK
<1>2. Init => FieldsOK
  BY ConfigAssumption DEF Init, FieldsOK
<1>3. Init => EpisodeBookkeeping
  BY DEF Init, EpisodeBookkeeping
<1> QED BY <1>1, <1>2, <1>3 DEF TypeOK

\* Every step keeps the flags Boolean.
LEMMA FlagsStep == FlagsOK /\ [Next]_fsmVars => FlagsOK'
<1> SUFFICES ASSUME FlagsOK, [Next]_fsmVars
             PROVE  FlagsOK'
  OBVIOUS
<1> USE DEF FlagsOK
<1>1. ASSUME NEW t, NEW drop \in BOOLEAN, NEW firing \in BOOLEAN,
             NEW clean \in BOOLEAN, NEW plausible \in BOOLEAN,
             FixEvaluated(t, drop, firing, clean, plausible)
      PROVE  FlagsOK'
  <2>1. dropout_recovery' \in BOOLEAN /\ dwell_pause_exceeded_pending' \in BOOLEAN
    BY <1>1, Zenon DEF FixEvaluated, CapNotice
  <2>2. pause_budget_warned' \in BOOLEAN /\ sustained' \in BOOLEAN
    <3>1. CASE StayNormal(firing)
      BY <3>1 DEF StayNormal, pause, history
    <3>2. CASE EnterSuspicious(t, firing)
      BY <3>2 DEF EnterSuspicious
    <3>3. CASE StaySuspicious(t, Recovering(drop), firing, clean)
      BY <3>3, Zenon DEF StaySuspicious, Warned, CapNotice
    <3>4. CASE Veto(t, Recovering(drop), clean)
      BY <3>4, Zenon DEF Veto, Warned, CapNotice
    <3>5. CASE Clear(t, clean)
      BY <3>5 DEF Clear, EpisodeOver
    <3>6. CASE Escalate(t, Recovering(drop), firing)
      BY <3>6, Zenon DEF Escalate, Warned, CapNotice, EpisodeOver
    <3> QED BY <1>1, <3>1, <3>2, <3>3, <3>4, <3>5, <3>6 DEF FixEvaluated
  <2> QED BY <2>1, <2>2
<1>2. CASE FixWhileSpoofed
  BY <1>2 DEF FixWhileSpoofed, pause, history
<1>3. ASSUME NEW drop \in BOOLEAN, FixSkipped(drop)
      PROVE  FlagsOK'
  BY <1>3, Zenon DEF FixSkipped, Recovering, pause, history
<1>4. CASE ManualReset
  BY <1>4 DEF ManualReset, EpisodeOver
<1>5. CASE UNCHANGED fsmVars
  BY <1>5 DEF fsmVars, pause, history
<1> QED BY <1>1, <1>2, <1>3, <1>4, <1>5 DEF Next, Evaluation

\* Every step of the machine preserves the types and the bookkeeping.
LEMMA FieldsStep ==
  TypeOK /\ EpisodeBookkeeping /\ [Next]_fsmVars
    => FieldsOK' /\ EpisodeBookkeeping'
<1> SUFFICES ASSUME TypeOK, EpisodeBookkeeping, [Next]_fsmVars
             PROVE  FieldsOK' /\ EpisodeBookkeeping'
  OBVIOUS
<1> USE ConfigAssumption DEF EpisodeBookkeeping, FieldsOK
<1>0. FieldsOK
  BY DEF TypeOK
<1>1. ASSUME NEW d \in Steps, NEW drop \in BOOLEAN, NEW firing \in BOOLEAN,
             NEW clean \in BOOLEAN, NEW plausible \in BOOLEAN,
             FixEvaluated(now + d, drop, firing, clean, plausible)
      PROVE  FieldsOK' /\ EpisodeBookkeeping'
  <2> DEFINE t == now + d
             rec == Recovering(drop)
  <2>1. t \in Int /\ rec \in BOOLEAN
    BY <1>0 DEF Recovering, TypeOK, FlagsOK
  <2> HIDE DEF t, rec
  <2>2. /\ Absorbed(t, rec) \in Nat
        /\ Streak(rec) \in 0 .. StreakMax
        /\ state = "Suspicious" => DwellStart(t, rec) \in Int
    BY <2>1, AbsorbedType
  <2>3. /\ now' = t
        /\ consecutive_dropout' = Streak(rec)
        /\ last_dropout_t' = IF rec THEN t ELSE None
    BY <1>1 DEF FixEvaluated, t, rec
  <2>4. /\ now' \in Int
        /\ consecutive_dropout' \in 0 .. StreakMax
        /\ last_dropout_t' \in Instants
    BY <2>1, <2>2, <2>3
  <2>5. CASE StayNormal(firing)
    BY <1>0, <2>4, <2>5 DEF StayNormal, dwell, pause, history
  <2>6. CASE EnterSuspicious(t, firing)
    BY <1>0, <2>1, <2>4, <2>6 DEF EnterSuspicious
  <2>7. CASE StaySuspicious(t, rec, firing, clean)
    <3>1. CleanSince(t) \in Int /\ GapUpTo(t) \in Nat
      BY <1>0, <2>1 DEF CleanSince, GapUpTo
    <3> QED BY <1>0, <2>2, <2>4, <2>7, <3>1 DEF StaySuspicious
  <2>8. CASE Veto(t, rec, clean)
    BY <1>0, <2>2, <2>4, <2>8 DEF Veto
  <2>9. CASE Clear(t, clean)
    BY <1>0, <2>4, <2>9 DEF Clear, EpisodeOver
  <2>10. CASE Escalate(t, rec, firing)
    BY <1>0, <2>2, <2>4, <2>10 DEF Escalate, EpisodeOver
  <2> QED
    BY <1>1, <2>5, <2>6, <2>7, <2>8, <2>9, <2>10 DEF FixEvaluated, t, rec
<1>2. CASE FixWhileSpoofed
  BY <1>0, <1>2 DEF FixWhileSpoofed, dwell, streak, pause, history
<1>3. ASSUME NEW drop \in BOOLEAN, FixSkipped(drop)
      PROVE  FieldsOK' /\ EpisodeBookkeeping'
  BY <1>0, <1>3 DEF FixSkipped, dwell, streak, pause, history
<1>4. CASE ManualReset
  BY <1>0, <1>4 DEF ManualReset, EpisodeOver
<1>5. CASE UNCHANGED fsmVars
  BY <1>0, <1>5 DEF fsmVars, dwell, streak, pause, history
<1> QED BY <1>1, <1>2, <1>3, <1>4, <1>5 DEF Next, Evaluation

\* Every field keeps its type in every behaviour of the machine, and the dwell
\* clock runs exactly while it is Suspicious.
THEOREM TypeCorrect == Spec => []TypeOK /\ []EpisodeBookkeeping
<1>1. TypeOK /\ EpisodeBookkeeping /\ [Next]_fsmVars
        => (TypeOK /\ EpisodeBookkeeping)'
  BY FlagsStep, FieldsStep DEF TypeOK
<1> QED BY <1>1, TypeInit, PTL DEF Spec

(***************************************************************************)
(* The bounds on an episode, from the inductive invariant EscalationInv.   *)
(***************************************************************************)
\* The initial state satisfies the inductive invariant.
LEMMA EscalationInit == Init => EscalationInv
  BY DEF Init, EscalationInv, EpisodeBookkeeping, StreakIsCurrent,
     DwellNeverRestarts

\* Every evaluated fix keeps the dropout streak tied to the last fix.
LEMMA StreakStep ==
  ASSUME TypeOK, StreakIsCurrent, [Next]_fsmVars
  PROVE  StreakIsCurrent'
<1> USE ConfigAssumption DEF StreakIsCurrent
<1>0. FieldsOK
  BY DEF TypeOK
<1>1. ASSUME NEW d \in Steps, NEW drop \in BOOLEAN, NEW firing \in BOOLEAN,
             NEW clean \in BOOLEAN, NEW plausible \in BOOLEAN,
             FixEvaluated(now + d, drop, firing, clean, plausible)
      PROVE  StreakIsCurrent'
  <2>1. now + d \in Int /\ Recovering(drop) \in BOOLEAN
    BY <1>0 DEF Recovering, TypeOK, FlagsOK, FieldsOK
  <2>2. /\ now' = now + d
        /\ consecutive_dropout' = Streak(Recovering(drop))
        /\ last_dropout_t' = IF Recovering(drop) THEN now + d ELSE None
    BY <1>1 DEF FixEvaluated
  <2>3. Streak(Recovering(drop)) = 0 <=> ~Recovering(drop)
    BY <1>0, <2>1 DEF Streak, FieldsOK
  <2> QED BY <2>1, <2>2, <2>3
<1>2. CASE FixWhileSpoofed
  BY <1>2 DEF FixWhileSpoofed, streak
<1>3. ASSUME NEW drop \in BOOLEAN, FixSkipped(drop)
      PROVE  StreakIsCurrent'
  BY <1>3 DEF FixSkipped, streak
<1>4. CASE ManualReset
  BY <1>4 DEF ManualReset
<1>5. CASE UNCHANGED fsmVars
  BY <1>5 DEF fsmVars, streak
<1> QED BY <1>1, <1>2, <1>3, <1>4, <1>5 DEF Next, Evaluation

\* Every step preserves the inductive invariant.
LEMMA EscalationStep ==
  TypeOK /\ EscalationInv /\ [Next]_fsmVars => EscalationInv'
<1> SUFFICES ASSUME TypeOK, EscalationInv, [Next]_fsmVars
             PROVE  EscalationInv'
  OBVIOUS
<1> USE ConfigAssumption
<1>0. FieldsOK /\ EpisodeBookkeeping /\ StreakIsCurrent /\ DwellNeverRestarts
  BY DEF TypeOK, EscalationInv
<1>a. EpisodeBookkeeping' /\ StreakIsCurrent' /\ FieldsOK'
  BY <1>0, FieldsStep, StreakStep
<1> DEFINE DwellNotOver ==
             state = "Suspicious" /\ last_fix = "firing" =>
               now - suspicious_since < SpoofedDwell
           PauseBounded ==
             state = "Suspicious" /\ sustained =>
               /\ last_fix = "firing"
               /\ paused_cumulative_s < MaxDwellPause + SpoofedDwell + longest_gap
<1> SUFFICES DwellNeverRestarts' /\ DwellNotOver' /\ PauseBounded'
  BY <1>a DEF EscalationInv
<1>b. DwellNotOver /\ PauseBounded
  BY DEF EscalationInv
<1>1. ASSUME NEW d \in Steps, NEW drop \in BOOLEAN, NEW firing \in BOOLEAN,
             NEW clean \in BOOLEAN, NEW plausible \in BOOLEAN,
             FixEvaluated(now + d, drop, firing, clean, plausible)
      PROVE  DwellNeverRestarts' /\ DwellNotOver' /\ PauseBounded'
  <2> DEFINE t == now + d
             rec == Recovering(drop)
  <2>1. t \in Int /\ rec \in BOOLEAN /\ now' = t
    BY <1>0, <1>1 DEF Recovering, TypeOK, FlagsOK, FieldsOK, FixEvaluated
  <2>2. Absorbed(t, rec) \in Nat
    BY <1>0, <2>1, AbsorbedType
  <2>3. state = "Suspicious" /\ sustained =>
          /\ Absorbed(t, rec) < SpoofedDwell + GapUpTo(t)
          /\ Absorbed(t, rec) > 0 => paused_cumulative_s < MaxDwellPause
    BY <1>b, <2>1, AbsorbedBound
  <2>4. ~(firing /\ clean)
    BY <1>1 DEF FixEvaluated
  <2> HIDE DEF t, rec
  <2>5. CASE StayNormal(firing)
    BY <2>5 DEF StayNormal, DwellNeverRestarts
  <2>6. CASE EnterSuspicious(t, firing)
    BY <2>1, <2>6 DEF EnterSuspicious, DwellNeverRestarts
  <2>7. CASE StaySuspicious(t, rec, firing, clean)
    <3>1. /\ suspicious_since \in Int
          /\ episode_start \in Int
          /\ paused_cumulative_s \in Nat
      BY <1>0, <2>7 DEF FieldsOK, EpisodeBookkeeping, StaySuspicious
    <3>2. DwellNeverRestarts'
      BY <1>0, <2>2, <2>7, <3>1
         DEF StaySuspicious, DwellStart, DwellNeverRestarts
    <3>3. DwellNotOver'
      BY <2>1, <2>2, <2>7, <3>1 DEF StaySuspicious, SpoofedDue, DwellStart
    <3>4. state = "Suspicious" /\ (sustained' => sustained /\ firing)
      BY <2>7 DEF StaySuspicious
    <3>5. sustained' => last_fix' = "firing"
      BY <2>4, <2>7, <3>4 DEF StaySuspicious
    <3>6. sustained' =>
            paused_cumulative_s' < MaxDwellPause + SpoofedDwell + longest_gap'
      <4>1. /\ GapUpTo(t) \in Nat
            /\ longest_gap \in Nat
            /\ longest_gap <= GapUpTo(t)
        BY <1>0, <2>1 DEF GapUpTo, FieldsOK
      <4>2. sustained' => longest_gap' = GapUpTo(t)
        BY <2>7 DEF StaySuspicious
      <4>3. paused_cumulative_s' = paused_cumulative_s + Absorbed(t, rec)
        BY <2>7 DEF StaySuspicious
      <4> QED BY <1>b, <2>2, <2>3, <3>1, <3>4, <4>1, <4>2, <4>3
    <3> QED BY <3>2, <3>3, <3>5, <3>6
  <2>8. CASE Veto(t, rec, clean)
    <3>1. /\ suspicious_since \in Int
          /\ episode_start \in Int
          /\ paused_cumulative_s \in Nat
      BY <1>0, <2>8 DEF FieldsOK, EpisodeBookkeeping, Veto
    <3>2. DwellNeverRestarts'
      BY <1>0, <2>2, <2>8, <3>1 DEF Veto, DwellNeverRestarts
    <3> QED BY <2>8, <3>2 DEF Veto
  <2>9. CASE Clear(t, clean)
    BY <2>9 DEF Clear, DwellNeverRestarts
  <2>10. CASE Escalate(t, rec, firing)
    BY <2>10 DEF Escalate, DwellNeverRestarts
  <2> QED
    BY <1>1, <2>5, <2>6, <2>7, <2>8, <2>9, <2>10 DEF FixEvaluated, t, rec
<1>2. CASE FixWhileSpoofed
  BY <1>0, <1>b, <1>2
     DEF FixWhileSpoofed, DwellNeverRestarts, dwell, pause, history
<1>3. ASSUME NEW drop \in BOOLEAN, FixSkipped(drop)
      PROVE  DwellNeverRestarts' /\ DwellNotOver' /\ PauseBounded'
  BY <1>0, <1>b, <1>3
     DEF FixSkipped, DwellNeverRestarts, dwell, pause, history
<1>4. CASE ManualReset
  BY <1>4 DEF ManualReset, DwellNeverRestarts
<1>5. CASE UNCHANGED fsmVars
  BY <1>0, <1>b, <1>5 DEF fsmVars, DwellNeverRestarts, dwell, pause, history
<1> QED BY <1>1, <1>2, <1>3, <1>4, <1>5 DEF Next, Evaluation

\* The inductive invariant holds in every behaviour.
THEOREM Escalation == Spec => []EscalationInv
<1>1. TypeOK /\ EscalationInv /\ [Next]_fsmVars => EscalationInv'
  BY EscalationStep
<1> QED BY <1>1, EscalationInit, TypeCorrect, PTL DEF Spec

\* No veto and no pattern of dropouts moves the start of the dwell further
\* than the pause charged to the episode's budget.
THEOREM DwellIsCumulative == Spec => []DwellNeverRestarts
<1>1. EscalationInv => DwellNeverRestarts
  BY DEF EscalationInv
<1> QED BY <1>1, Escalation, PTL

\* A firing fix that does not escalate is early in its episode.
THEOREM FiringFixes == Spec => []FiringFixEscalates
<1>1. TypeOK /\ EscalationInv => FiringFixEscalates
  <2> SUFFICES ASSUME TypeOK, EscalationInv, state = "Suspicious",
                      last_fix = "firing"
               PROVE  now < episode_start + paused_cumulative_s + SpoofedDwell
    BY DEF FiringFixEscalates
  <2>1. /\ suspicious_since \in Int
        /\ episode_start \in Int
        /\ paused_cumulative_s \in Nat
        /\ now \in Int
    BY DEF EscalationInv, EpisodeBookkeeping, TypeOK, FieldsOK
  <2> QED BY <2>1, ConfigAssumption DEF EscalationInv, DwellNeverRestarts
<1> QED BY <1>1, Escalation, TypeCorrect, PTL

\* However an attacker spaces the fixes, a sustained attack is Spoofed once
\* this bound has passed: two dwells, the pause budget and the longest gap the
\* attack itself has left between two of its fixes, counted once.
THEOREM SustainedAttackLatches == Spec => []StallBound
<1>1. TypeOK /\ EscalationInv => StallBound
  <2> SUFFICES ASSUME TypeOK, EscalationInv, state = "Suspicious", sustained
               PROVE  now - episode_start
                        < MaxDwellPause + 2 * SpoofedDwell + longest_gap
    BY DEF StallBound
  <2>1. /\ suspicious_since \in Int
        /\ episode_start \in Int
        /\ paused_cumulative_s \in Nat
        /\ now \in Int
        /\ longest_gap \in Nat
    BY DEF EscalationInv, EpisodeBookkeeping, TypeOK, FieldsOK
  <2>2. /\ now - suspicious_since < SpoofedDwell
        /\ suspicious_since <= episode_start + paused_cumulative_s
        /\ paused_cumulative_s < MaxDwellPause + SpoofedDwell + longest_gap
    BY DEF EscalationInv, DwellNeverRestarts
  <2> QED BY <2>1, <2>2, ConfigAssumption
<1> QED BY <1>1, Escalation, TypeCorrect, PTL

\* Spoofed is entered from Suspicious and left by the operator's reset only.
THEOREM Latched == Spec => SpoofedLatched
<1>1. [Next]_fsmVars =>
        [/\ state = "Spoofed" => state' = "Spoofed" \/ ManualReset
         /\ state' = "Spoofed" => state \in {"Suspicious", "Spoofed"}]_fsmVars
  BY DEF Next, Evaluation, FixEvaluated, FixWhileSpoofed, FixSkipped,
     ManualReset, StayNormal, EnterSuspicious, StaySuspicious, Veto, Clear,
     Escalate, fsmVars
<1> QED BY <1>1, PTL DEF Spec, SpoofedLatched

(***************************************************************************)
(* The clean streak.                                                       *)
(***************************************************************************)
\* Every step keeps the streak running exactly while the last fix is clean.
LEMMA CleanStreakStep ==
  TypeOK /\ CleanStreakUnbroken /\ [Next]_fsmVars => CleanStreakUnbroken'
<1> SUFFICES ASSUME TypeOK, CleanStreakUnbroken, [Next]_fsmVars
             PROVE  CleanStreakUnbroken'
  OBVIOUS
<1> USE DEF CleanStreakUnbroken
<1>1. ASSUME NEW d \in Steps, NEW drop \in BOOLEAN, NEW firing \in BOOLEAN,
             NEW clean \in BOOLEAN, NEW plausible \in BOOLEAN,
             FixEvaluated(now + d, drop, firing, clean, plausible)
      PROVE  CleanStreakUnbroken'
  <2>1. CASE StayNormal(firing)
    BY <2>1 DEF StayNormal, dwell, history
  <2>2. CASE EnterSuspicious(now + d, firing)
    BY <2>2 DEF EnterSuspicious
  <2>3. CASE StaySuspicious(now + d, Recovering(drop), firing, clean)
    <3>1. CleanSince(now + d) # None
      BY ConfigAssumption DEF CleanSince, TypeOK, FieldsOK
    <3> QED BY <2>3, <3>1 DEF StaySuspicious
  <2>4. CASE Veto(now + d, Recovering(drop), clean)
    BY <2>4 DEF Veto
  <2>5. CASE Clear(now + d, clean)
    BY <2>5 DEF Clear, EpisodeOver
  <2>6. CASE Escalate(now + d, Recovering(drop), firing)
    BY <2>6 DEF Escalate, EpisodeOver
  <2> QED BY <1>1, <2>1, <2>2, <2>3, <2>4, <2>5, <2>6 DEF FixEvaluated
<1>2. CASE FixWhileSpoofed
  BY <1>2 DEF FixWhileSpoofed, dwell, history
<1>3. ASSUME NEW drop \in BOOLEAN, FixSkipped(drop)
      PROVE  CleanStreakUnbroken'
  BY <1>3 DEF FixSkipped, dwell, history
<1>4. CASE ManualReset
  BY <1>4 DEF ManualReset, EpisodeOver
<1>5. CASE UNCHANGED fsmVars
  BY <1>5 DEF fsmVars, dwell, history
<1> QED BY <1>1, <1>2, <1>3, <1>4, <1>5 DEF Next, Evaluation

\* No fix that is not clean, and no vetoed clearing, lies inside the streak
\* that evaluate() measures against the clear dwell.
THEOREM CleanStreak == Spec => []CleanStreakUnbroken
<1>1. Init => CleanStreakUnbroken
  BY DEF Init, CleanStreakUnbroken
<1>2. TypeOK /\ CleanStreakUnbroken /\ [Next]_fsmVars => CleanStreakUnbroken'
  BY CleanStreakStep
<1> QED BY <1>1, <1>2, TypeCorrect, PTL DEF Spec
=============================================================================
