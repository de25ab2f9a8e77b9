---------------------------- MODULE FusionProofs ----------------------------
(***************************************************************************)
(* Proofs about Fusion, for every configuration and every spacing of the   *)
(* fixes: the fusion task drives the state machine of Detector as Detector *)
(* says, so its theorems hold of the task; the three safety properties of  *)
(* the task; and the step simulation of SpoofResponse.                     *)
(***************************************************************************)
EXTENDS Fusion, DetectorProofs, SequenceTheorems

(***************************************************************************)
(* The fusion task implements Detector.                                    *)
(***************************************************************************)

\* The times the handler keeps are instants of the model.
TimesOK ==
  /\ now \in 0 .. MaxTime
  /\ last_gps_t \in 0 .. MaxTime \cup {None}

\* A fix handled next has an instant of the model for its time.
LEMMA FixTimesOK ==
  ASSUME TimesOK, NEW t \in FixTimes
  PROVE  t \in 0 .. MaxTime /\ t - now \in Steps /\ now + (t - now) = t
<1>1. t \in 0 .. MaxTime
  BY ConfigAssumption DEF TimesOK, FixTimes
<1>2. t - now \in Steps
  BY <1>1, FusionAssumption DEF TimesOK
<1>3. now + (t - now) = t
  BY <1>1, ConfigAssumption DEF TimesOK
<1> QED BY <1>1, <1>2, <1>3

\* Every handler keeps the times.
LEMMA TimesStep == TimesOK /\ [FNext]_vars => TimesOK'
<1> SUFFICES ASSUME TimesOK, [FNext]_vars
             PROVE  TimesOK'
  OBVIOUS
<1> USE DEF TimesOK
<1>1. ASSUME NEW done \in BOOLEAN, NEW in_gate \in BOOLEAN, OnImu(done, in_gate)
      PROVE  TimesOK'
  BY <1>1 DEF OnImu, fsmVars
<1>2. CASE BootFixRejected
  BY <1>2 DEF BootFixRejected, vars, fsmVars
<1>3. ASSUME NEW hb \in BOOLEAN, FirstFix(hb)
      PROVE  TimesOK'
  BY <1>3 DEF FirstFix, fsmVars
<1>4. ASSUME NEW hb \in BOOLEAN, NEW served \in BOOLEAN, PreflightFix(hb, served)
      PROVE  TimesOK'
  BY <1>4 DEF PreflightFix, fsmVars
<1>5. ASSUME NEW t \in FixTimes, SkippedFix(t)
      PROVE  TimesOK'
  BY <1>5, FixTimesOK DEF SkippedFix, Armed, FixSkipped
<1>6. ASSUME NEW t \in FixTimes, NEW firing \in BOOLEAN, NEW clean \in BOOLEAN,
             NEW plausible \in BOOLEAN, EvaluatedFix(t, firing, clean, plausible)
      PROVE  TimesOK'
  BY <1>6, FixTimesOK DEF EvaluatedFix, Armed, FixWhileSpoofed, FixEvaluated
<1>7. ASSUME NEW ok \in BOOLEAN, SeverGps(ok)
      PROVE  TimesOK'
  BY <1>7 DEF SeverGps, fsmVars
<1>8. ASSUME NEW ok \in BOOLEAN, EngageRtb(ok)
      PROVE  TimesOK'
  BY <1>8 DEF EngageRtb, fsmVars
<1>9. CASE OperatorReset
  BY <1>9 DEF OperatorReset, ManualReset
<1>10. CASE ControllerReset
  BY <1>10 DEF ControllerReset, fsmVars
<1>11. CASE UNCHANGED vars
  BY <1>11 DEF vars, fsmVars
<1> QED
  BY <1>1, <1>2, <1>3, <1>4, <1>5, <1>6, <1>7, <1>8, <1>9, <1>10, <1>11
  DEF FNext

\* Every handler takes a step of the state machine or leaves it alone.
LEMMA DetectorStep == TimesOK /\ [FNext]_vars => [Next]_fsmVars
<1> SUFFICES ASSUME TimesOK, [FNext]_vars
             PROVE  [Next]_fsmVars
  OBVIOUS
<1>1. ASSUME NEW done \in BOOLEAN, NEW in_gate \in BOOLEAN, OnImu(done, in_gate)
      PROVE  UNCHANGED fsmVars
  BY <1>1 DEF OnImu
<1>2. CASE BootFixRejected
  BY <1>2 DEF BootFixRejected, vars
<1>3. ASSUME NEW hb \in BOOLEAN, FirstFix(hb)
      PROVE  UNCHANGED fsmVars
  BY <1>3 DEF FirstFix
<1>4. ASSUME NEW hb \in BOOLEAN, NEW served \in BOOLEAN, PreflightFix(hb, served)
      PROVE  UNCHANGED fsmVars
  BY <1>4 DEF PreflightFix
<1>5. ASSUME NEW t \in FixTimes, SkippedFix(t)
      PROVE  Next
  <2>1. FixSkipped(Dropout(t)) /\ Dropout(t) \in BOOLEAN
    BY <1>5 DEF SkippedFix, Dropout
  <2> QED BY <2>1 DEF Next
<1>6. ASSUME NEW t \in FixTimes, NEW firing \in BOOLEAN, NEW clean \in BOOLEAN,
             NEW plausible \in BOOLEAN, EvaluatedFix(t, firing, clean, plausible)
      PROVE  Next
  <2>1. CASE FixWhileSpoofed
    BY <2>1 DEF Next
  <2>2. CASE FixEvaluated(t, Dropout(t), firing, clean, plausible)
    <3> DEFINE d == t - now
    <3>1. d \in Steps /\ now + d = t /\ t \in 0 .. MaxTime
      BY FixTimesOK
    <3>2. Dropout(t) \in BOOLEAN
      BY DEF Dropout
    <3> HIDE DEF d
    <3>3. FixEvaluated(now + d, Dropout(t), firing, clean, plausible)
      BY <2>2, <3>1
    <3>4. now + d \in 0 .. MaxTime
      BY <3>1
    <3> QED BY <3>1, <3>2, <3>3, <3>4 DEF Next, Evaluation
  <2> QED BY <1>6, <2>1, <2>2 DEF EvaluatedFix
<1>7. ASSUME NEW ok \in BOOLEAN, SeverGps(ok)
      PROVE  UNCHANGED fsmVars
  BY <1>7 DEF SeverGps
<1>8. ASSUME NEW ok \in BOOLEAN, EngageRtb(ok)
      PROVE  UNCHANGED fsmVars
  BY <1>8 DEF EngageRtb
<1>9. CASE OperatorReset
  BY <1>9 DEF OperatorReset, Next
<1>10. CASE ControllerReset
  BY <1>10 DEF ControllerReset
<1>11. CASE UNCHANGED vars
  BY <1>11 DEF vars
<1> QED
  BY <1>1, <1>2, <1>3, <1>4, <1>5, <1>6, <1>7, <1>8, <1>9, <1>10, <1>11
  DEF FNext

\* The state machine inside the fusion task behaves as Detector specifies:
\* whatever the preflight gate, the skipped fixes and the awaits of the flight
\* controller do to the sequence of calls, it is one that Detector allows.
THEOREM FusionImplementsDetector == FSpec => Spec
<1>1. FInit => Init /\ TimesOK
  BY ConfigAssumption DEF FInit, Init, TimesOK
<1> QED BY <1>1, TimesStep, DetectorStep, PTL DEF FSpec, Spec

\* Hence the bound on an attack that keeps firing, and the latch, hold of the
\* fusion task, whose fixes may be skipped and whose handlers may be suspended.
THEOREM FusionLatches == FSpec => []StallBound /\ SpoofedLatched
BY FusionImplementsDetector, SustainedAttackLatches, Latched, PTL

\* And so do the bookkeeping of the dwell and the streak that clears an alarm:
\* skipped fixes and suspended handlers neither restart the dwell nor hide a fix
\* from the streak.
THEOREM FusionKeepsDwell ==
  FSpec => []DwellNeverRestarts /\ []FiringFixEscalates /\ []CleanStreakUnbroken
BY FusionImplementsDetector, DwellIsCumulative, FiringFixes, CleanStreak, PTL

(***************************************************************************)
(* The transitions on_gps emits.                                           *)
(***************************************************************************)

\* What evaluate() reports and no veto drops is what the machine does: on_gps
\* emits nothing for a fix that leaves the machine where it was, a vetoed
\* clearing included, and otherwise the state the machine ends in, alone.
LEMMA EmittedIsTheStep ==
  ASSUME NEW t \in FixTimes, NEW firing \in BOOLEAN, NEW clean \in BOOLEAN,
         NEW plausible \in BOOLEAN, EvaluatedFix(t, firing, clean, plausible)
  PROVE  LET emitted == Emitted(t, firing, clean, plausible)
         IN  /\ emitted = {} => state' = state
             /\ emitted # {} => emitted = {state'}
             /\ "Normal" \in emitted <=> state = "Suspicious" /\ state' = "Normal"
             /\ "Spoofed" \in emitted <=> state = "Suspicious" /\ state' = "Spoofed"
<1> DEFINE emitted == Emitted(t, firing, clean, plausible)
           rec == Recovering(Dropout(t))
<1>1. CASE FixWhileSpoofed
  <2>1. emitted = {}
    BY <1>1 DEF FixWhileSpoofed, Emitted, Transitions
  <2>2. state = "Spoofed" /\ state' = state
    BY <1>1 DEF FixWhileSpoofed
  <2> QED BY <2>1, <2>2
<1>2. CASE FixEvaluated(t, Dropout(t), firing, clean, plausible)
  <2>0. ~(firing /\ clean)
    BY <1>2 DEF FixEvaluated
  <2>1. CASE StayNormal(firing)
    <3>1. emitted = {}
      BY <2>1 DEF StayNormal, Emitted, Transitions
    <3> QED BY <2>1, <3>1 DEF StayNormal
  <2>2. CASE EnterSuspicious(t, firing)
    <3>1. emitted = {"Suspicious"}
      BY <2>2 DEF EnterSuspicious, Emitted, Transitions, NavStateKind
    <3> QED BY <2>2, <3>1 DEF EnterSuspicious
  <2>3. CASE StaySuspicious(t, rec, firing, clean)
    <3>1. emitted = {}
      BY <2>3 DEF StaySuspicious, Emitted, Transitions
    <3> QED BY <2>3, <3>1 DEF StaySuspicious
  <2>4. CASE ~plausible /\ Veto(t, rec, clean)
    <3>1. ~SpoofedDue(t, rec, firing)
      BY <2>0, <2>4 DEF Veto, ClearDue, SpoofedDue
    <3>2. emitted = {}
      BY <2>4, <3>1 DEF Veto, Emitted, Transitions
    <3> QED BY <2>4, <3>2 DEF Veto
  <2>5. CASE plausible /\ Clear(t, clean)
    <3>1. ~SpoofedDue(t, rec, firing)
      BY <2>0, <2>5 DEF Clear, ClearDue, SpoofedDue
    <3>2. emitted = {"Normal"}
      BY <2>5, <3>1 DEF Clear, Emitted, Transitions, NavStateKind
    <3> QED BY <2>5, <3>2 DEF Clear
  <2>6. CASE Escalate(t, rec, firing)
    <3>1. ~ClearDue(t, clean)
      BY <2>0, <2>6 DEF Escalate, ClearDue, SpoofedDue
    <3>2. emitted = {"Spoofed"}
      BY <2>6, <3>1 DEF Escalate, Emitted, Transitions, NavStateKind
    <3> QED BY <2>6, <3>2 DEF Escalate
  <2> QED BY <1>2, <2>1, <2>2, <2>3, <2>4, <2>5, <2>6 DEF FixEvaluated
<1> QED BY <1>1, <1>2 DEF EvaluatedFix

(***************************************************************************)
(* The preflight gate.                                                     *)
(***************************************************************************)

\* Static init is complete for the checklist only with an origin, and the
\* detector is armed only with the checklist complete.
GateInv ==
  /\ static_init_done => nav_initialized /\ anchor # "none"
  /\ SilentBeforeReady

\* No handler arms the detector early or leaves a trace in it before it is armed.
LEMMA GateStep == GateInv /\ [FNext]_vars => GateInv'
<1> SUFFICES ASSUME GateInv, [FNext]_vars
             PROVE  GateInv'
  OBVIOUS
<1> USE DEF GateInv, SilentBeforeReady
<1>1. ASSUME NEW done \in BOOLEAN, NEW in_gate \in BOOLEAN, OnImu(done, in_gate)
      PROVE  GateInv'
  BY <1>1 DEF OnImu, StaticInit, fsmVars, streak
<1>2. CASE BootFixRejected
  BY <1>2 DEF BootFixRejected, vars, fsmVars, boot, reckoner, streak
<1>3. ASSUME NEW hb \in BOOLEAN, FirstFix(hb)
      PROVE  GateInv'
  BY <1>3 DEF FirstFix, NavOnGpsFix, RefreshPreflight, fsmVars, streak
<1>4. ASSUME NEW hb \in BOOLEAN, NEW served \in BOOLEAN, PreflightFix(hb, served)
      PROVE  GateInv'
  <2>1. anchor' # "none"
    BY <1>4 DEF PreflightFix, NavOnGpsFix, NavUnused
  <2> QED BY <1>4, <2>1 DEF PreflightFix, RefreshPreflight, fsmVars, streak
<1>5. ASSUME NEW t \in FixTimes, SkippedFix(t)
      PROVE  GateInv'
  BY <1>5 DEF SkippedFix, Armed, NavOnGpsFix, boot
<1>6. ASSUME NEW t \in FixTimes, NEW firing \in BOOLEAN, NEW clean \in BOOLEAN,
             NEW plausible \in BOOLEAN, EvaluatedFix(t, firing, clean, plausible)
      PROVE  GateInv'
  <2>1. preflight = "Ready" /\ UNCHANGED <<boot, nav_initialized>>
    BY <1>6 DEF EvaluatedFix, Armed
  <2>2. anchor # "none" => anchor' # "none"
    BY <1>6 DEF EvaluatedFix, NavOnGpsFix, NavUnused, ReAnchored
  <2> QED BY <2>1, <2>2 DEF boot
<1>7. ASSUME NEW ok \in BOOLEAN, SeverGps(ok)
      PROVE  GateInv'
  BY <1>7 DEF SeverGps, fsmVars, boot, reckoner, streak
<1>8. ASSUME NEW ok \in BOOLEAN, EngageRtb(ok)
      PROVE  GateInv'
  BY <1>8 DEF EngageRtb, fsmVars, boot, reckoner, streak
<1>9. CASE OperatorReset
  BY <1>9 DEF OperatorReset, ManualReset, boot
<1>10. CASE ControllerReset
  BY <1>10 DEF ControllerReset, fsmVars, boot, reckoner, streak
<1>11. CASE UNCHANGED vars
  BY <1>11 DEF vars, fsmVars, boot, reckoner, streak
<1> QED
  BY <1>1, <1>2, <1>3, <1>4, <1>5, <1>6, <1>7, <1>8, <1>9, <1>10, <1>11
  DEF FNext

\* The detector is armed only with a completed static init and an origin, and
\* until then nothing a fix does is kept in it.
THEOREM PreflightGate == FSpec => []SilentBeforeReady
<1>1. FInit => GateInv
  BY DEF FInit, NavInit, Init, GateInv, SilentBeforeReady
<1>2. GateInv => SilentBeforeReady
  BY DEF GateInv
<1> QED BY <1>1, <1>2, GateStep, PTL DEF FSpec

(***************************************************************************)
(* The dead reckoner's copy of the state.                                  *)
(***************************************************************************)
\* Every handler that changes the state tells the dead reckoner, and none
\* blends in a fix that ends with the alarm raised.
LEMMA AidingStep ==
  NoAidingUnderSuspicion /\ [FNext]_vars => NoAidingUnderSuspicion'
<1> SUFFICES ASSUME NoAidingUnderSuspicion, [FNext]_vars
             PROVE  NoAidingUnderSuspicion'
  OBVIOUS
<1> USE DEF NoAidingUnderSuspicion
<1>1. ASSUME NEW done \in BOOLEAN, NEW in_gate \in BOOLEAN, OnImu(done, in_gate)
      PROVE  NoAidingUnderSuspicion'
  BY <1>1 DEF OnImu, fsmVars
<1>2. CASE BootFixRejected
  BY <1>2 DEF BootFixRejected, vars, fsmVars, reckoner
<1>3. ASSUME NEW hb \in BOOLEAN, FirstFix(hb)
      PROVE  NoAidingUnderSuspicion'
  BY <1>3 DEF FirstFix, NavOnGpsFix, fsmVars
<1>4. ASSUME NEW hb \in BOOLEAN, NEW served \in BOOLEAN, PreflightFix(hb, served)
      PROVE  NoAidingUnderSuspicion'
  BY <1>4 DEF PreflightFix, NavOnGpsFix, NavUnused, BlendAllowed, fsmVars
<1>5. ASSUME NEW t \in FixTimes, SkippedFix(t)
      PROVE  NoAidingUnderSuspicion'
  BY <1>5 DEF SkippedFix, FixSkipped, NavOnGpsFix, BlendAllowed
<1>6. ASSUME NEW t \in FixTimes, NEW firing \in BOOLEAN, NEW clean \in BOOLEAN,
             NEW plausible \in BOOLEAN, EvaluatedFix(t, firing, clean, plausible)
      PROVE  NoAidingUnderSuspicion'
  <2> DEFINE emitted == Emitted(t, firing, clean, plausible)
  <2>1. nav_state' = state'
    <3>1. nav_state' \in IF emitted = {} THEN {nav_state} ELSE emitted
      BY <1>6 DEF EvaluatedFix
    <3>2. /\ emitted = {} => state' = state
          /\ emitted # {} => emitted = {state'}
      BY <1>6, EmittedIsTheStep
    <3> HIDE DEF emitted
    <3> QED BY <3>1, <3>2
  <2>2. state' # "Normal" => nav_use' = "none"
    BY <1>6 DEF EvaluatedFix, NavUnused
  <2> QED BY <2>1, <2>2
<1>7. ASSUME NEW ok \in BOOLEAN, SeverGps(ok)
      PROVE  NoAidingUnderSuspicion'
  BY <1>7 DEF SeverGps, fsmVars, reckoner
<1>8. ASSUME NEW ok \in BOOLEAN, EngageRtb(ok)
      PROVE  NoAidingUnderSuspicion'
  BY <1>8 DEF EngageRtb, fsmVars, reckoner
<1>9. CASE OperatorReset
  BY <1>9 DEF OperatorReset, ManualReset
<1>10. CASE ControllerReset
  BY <1>10 DEF ControllerReset, fsmVars, reckoner
<1>11. CASE UNCHANGED vars
  BY <1>11 DEF vars, fsmVars, reckoner
<1> QED
  BY <1>1, <1>2, <1>3, <1>4, <1>5, <1>6, <1>7, <1>8, <1>9, <1>10, <1>11
  DEF FNext

\* At every await and after every handler the dead reckoner knows the state,
\* and no fix is blended in while the alarm is raised or latched, whether or
\* not the fix was evaluated and whatever was vetoed.
THEOREM Aiding == FSpec => []NoAidingUnderSuspicion
<1>1. FInit => NoAidingUnderSuspicion
  BY DEF FInit, NavInit, Init, NoAidingUnderSuspicion
<1> QED BY <1>1, AidingStep, PTL DEF FSpec

(***************************************************************************)
(* The response to a latch.                                                *)
(***************************************************************************)

\* The handler is suspended in a response only while the machine is Spoofed
\* and in a reset only after it left Spoofed; a controller that still has an
\* action of the response ahead of it has not latched that action.
LatchInv ==
  /\ pc \in {"idle", "sever", "rtb", "reset"}
  /\ controller \in {"console", "mav"}
  /\ pc \in {"sever", "rtb"} => state = "Spoofed"
  /\ pc = "reset" => state = "Normal"
  /\ state # "Spoofed" /\ pc # "reset" => ~gps_severed /\ ~rtb_engaged
  /\ pc = "sever" => ~gps_severed /\ ~rtb_engaged
  /\ pc = "rtb" => ~rtb_engaged
  /\ EachLatchAnswered

\* The two results of an action that is not latched.
LEMMA Results ==
  ASSUME LatchInv, NEW ok \in BOOLEAN
  PROVE  /\ ~gps_severed => SeverResult(ok) \in SeverOutcomes
         /\ ~rtb_engaged => RtbResult(ok) \in RtbOutcomes
BY DEF LatchInv, SeverResult, RtbResult, SeverOutcomes, RtbOutcomes

Words == {"sever", "sever_failed", "critical", "rtb", "rtb_failed"}

\* The outcomes are sequences of words, of length one or two.
LEMMA OutcomesType ==
  /\ SeverOutcomes \subseteq Seq(Words)
  /\ RtbOutcomes \subseteq Seq(Words)
<1>1. <<"sever">> \in Seq(Words) /\ <<"sever_failed", "critical">> \in Seq(Words)
  BY DEF Words
<1>2. <<"rtb">> \in Seq(Words) /\ <<"rtb_failed">> \in Seq(Words)
  BY DEF Words
<1> QED BY <1>1, <1>2 DEF SeverOutcomes, RtbOutcomes

\* An outcome appended to nothing is the outcome.
LEMMA FirstOrder ==
  ASSUME NEW s \in SeverOutcomes
  PROVE  <<>> \o s = s
BY OutcomesType, ConcatEmptySeq

\* A complete response is longer than, or ends otherwise than, a sever outcome.
LEMMA ResponseIsLater ==
  ASSUME NEW r \in Responses
  PROVE  r # <<>> /\ r \notin SeverOutcomes
<1>1. PICK s \in SeverOutcomes, t \in RtbOutcomes : r = s \o t
  BY DEF Responses
<1>2. s \in Seq(Words) /\ t \in Seq(Words)
  BY OutcomesType
<1>3. Len(r) = Len(s) + 1 /\ r[Len(s) + 1] = t[1]
  BY <1>1, <1>2 DEF RtbOutcomes
<1>4. /\ Len(<<>>) = 0 /\ Len(<<"sever">>) = 1
      /\ Len(<<"sever_failed", "critical">>) = 2
      /\ <<"sever_failed", "critical">>[2] = "critical"
  OBVIOUS
<1>5. CASE s = <<"sever">>
  <2>1. Len(r) = 2 /\ r[2] \in {"rtb", "rtb_failed"}
    BY <1>3, <1>5 DEF RtbOutcomes
  <2>2. Len(r) # 0 /\ Len(r) # 1 /\ r[2] # "critical"
    BY <2>1
  <2>3. r # <<>> /\ r # <<"sever">> /\ r # <<"sever_failed", "critical">>
    BY <1>4, <2>2, Zenon
  <2> QED BY <2>3, Zenon DEF SeverOutcomes
<1>6. CASE s = <<"sever_failed", "critical">>
  <2>1. Len(r) = 3
    BY <1>3, <1>6
  <2>2. Len(r) # 0 /\ Len(r) # 1 /\ Len(r) # 2
    BY <2>1
  <2>3. r # <<>> /\ r # <<"sever">> /\ r # <<"sever_failed", "critical">>
    BY <1>4, <2>2, Zenon
  <2> QED BY <2>3, Zenon DEF SeverOutcomes
<1> QED BY <1>5, <1>6 DEF SeverOutcomes

\* Every handler preserves the account of the response.
LEMMA LatchStep == LatchInv /\ [FNext]_vars => LatchInv'
<1> SUFFICES ASSUME LatchInv, [FNext]_vars
             PROVE  LatchInv'
  OBVIOUS
<1> USE DEF LatchInv, EachLatchAnswered
<1>1. ASSUME NEW done \in BOOLEAN, NEW in_gate \in BOOLEAN, OnImu(done, in_gate)
      PROVE  LatchInv'
  BY <1>1 DEF OnImu, fsmVars, ctl
<1>2. CASE BootFixRejected
  BY <1>2 DEF BootFixRejected, vars, fsmVars, ctl
<1>3. ASSUME NEW hb \in BOOLEAN, FirstFix(hb)
      PROVE  LatchInv'
  BY <1>3 DEF FirstFix, fsmVars, ctl
<1>4. ASSUME NEW hb \in BOOLEAN, NEW served \in BOOLEAN, PreflightFix(hb, served)
      PROVE  LatchInv'
  BY <1>4 DEF PreflightFix, fsmVars, ctl
<1>5. ASSUME NEW t \in FixTimes, SkippedFix(t)
      PROVE  LatchInv'
  BY <1>5 DEF SkippedFix, FixSkipped, ctl
<1>6. ASSUME NEW t \in FixTimes, NEW firing \in BOOLEAN, NEW clean \in BOOLEAN,
             NEW plausible \in BOOLEAN, EvaluatedFix(t, firing, clean, plausible)
      PROVE  LatchInv'
  <2>1. /\ pc = "idle"
        /\ pc' = IF state = "Suspicious" /\ state' = "Spoofed" THEN "sever" ELSE pc
        /\ UNCHANGED <<controller, gps_severed, rtb_engaged, orders>>
    <3>1. /\ pc = "idle"
          /\ pc' = IF "Spoofed" \in Emitted(t, firing, clean, plausible)
                   THEN "sever" ELSE pc
          /\ UNCHANGED <<controller, gps_severed, rtb_engaged, orders>>
      BY <1>6 DEF EvaluatedFix, Armed, ctl
    <3>2. "Spoofed" \in Emitted(t, firing, clean, plausible)
            <=> state = "Suspicious" /\ state' = "Spoofed"
      BY <1>6, EmittedIsTheStep
    <3> QED BY <3>1, <3>2
  <2>2. CASE FixWhileSpoofed
    BY <2>1, <2>2 DEF FixWhileSpoofed
  <2>3. CASE FixEvaluated(t, Dropout(t), firing, clean, plausible)
    <3>1. state # "Spoofed" /\ (state' = "Spoofed" => state = "Suspicious")
      BY <2>3 DEF FixEvaluated, StayNormal, EnterSuspicious, StaySuspicious,
         Veto, Clear, Escalate
    <3> QED BY <2>1, <3>1
  <2> QED BY <1>6, <2>2, <2>3 DEF EvaluatedFix
<1>7. ASSUME NEW ok \in BOOLEAN, SeverGps(ok)
      PROVE  LatchInv'
  <2>1. orders' = <<>> \o SeverResult(ok)
    BY <1>7 DEF SeverGps
  <2>2. SeverResult(ok) \in SeverOutcomes
    BY <1>7, Results DEF SeverGps
  <2>3. orders' \in SeverOutcomes
    BY <2>1, <2>2, FirstOrder
  <2> QED BY <1>7, <2>3 DEF SeverGps, fsmVars
<1>8. ASSUME NEW ok \in BOOLEAN, EngageRtb(ok)
      PROVE  LatchInv'
  <2>1. orders' = orders \o RtbResult(ok) /\ orders \in SeverOutcomes
    BY <1>8 DEF EngageRtb
  <2>2. RtbResult(ok) \in RtbOutcomes
    BY <1>8, Results DEF EngageRtb
  <2>3. orders' \in Responses
    BY <2>1, <2>2 DEF Responses
  <2> QED BY <1>8, <2>3 DEF EngageRtb, fsmVars
<1>9. CASE OperatorReset
  BY <1>9 DEF OperatorReset, ManualReset, ctl
<1>10. CASE ControllerReset
  BY <1>10 DEF ControllerReset, fsmVars
<1>11. CASE UNCHANGED vars
  BY <1>11 DEF vars, fsmVars, ctl
<1> QED
  BY <1>1, <1>2, <1>3, <1>4, <1>5, <1>6, <1>7, <1>8, <1>9, <1>10, <1>11
  DEF FNext

\* The account of the response holds in every behaviour.
LEMMA LatchInvariant == FSpec => []LatchInv
<1>1. FInit => LatchInv
  BY DEF FInit, Init, LatchInv, EachLatchAnswered
<1> QED BY <1>1, LatchStep, PTL DEF FSpec

\* Every latch is answered once and in order, through failures of the flight
\* controller and through earlier latches and resets.
THEOREM LatchAnswered == FSpec => []EachLatchAnswered
<1>1. LatchInv => EachLatchAnswered
  BY DEF LatchInv
<1> QED BY <1>1, LatchInvariant, PTL

(***************************************************************************)
(* The step simulation of SpoofResponse.                                   *)
(***************************************************************************)

\* Every handler is a step of the promised response or a stutter of it.
LEMMA ResponseStep ==
  ASSUME FieldsOK, FieldsOK', LatchInv, [FNext]_vars
  PROVE  [Response!Next]_(Response!svars)
<1> DEFINE Alarm == CASE state = "Normal" -> "clear"
                      [] state = "Suspicious" -> "raised"
                      [] state = "Spoofed" -> "latched"
           Answer == IF orders = <<>> THEN "none"
                     ELSE IF orders \in SeverOutcomes THEN "severed"
                     ELSE "returning"
<1>0. /\ state = "Normal" => Alarm = "clear"
      /\ state = "Suspicious" => Alarm = "raised"
      /\ state = "Spoofed" => Alarm = "latched"
      /\ state' = "Normal" => Alarm' = "clear"
      /\ state' = "Suspicious" => Alarm' = "raised"
      /\ state' = "Spoofed" => Alarm' = "latched"
  OBVIOUS
<1>a. state \in NavStateKind /\ state' \in NavStateKind
  BY DEF FieldsOK
<1>b. SeverOutcomes = SeverOutcomes' /\ Responses = Responses'
  BY DEF SeverOutcomes, Responses, RtbOutcomes
<1>c. <<>> \notin SeverOutcomes
  BY DEF SeverOutcomes
<1>d. EachLatchAnswered
  BY DEF LatchInv
<1> SUFFICES \/ UNCHANGED <<Alarm, Answer>>
             \/ Alarm = "clear" /\ Alarm' = "raised" /\ Answer' = Answer
             \/ Alarm = "raised" /\ Alarm' = "clear" /\ Answer' = Answer
             \/ Alarm = "raised" /\ Alarm' = "latched" /\ Answer' = Answer
             \/ /\ Alarm = "latched" /\ Answer = "none"
                /\ Answer' = "severed" /\ Alarm' = Alarm
             \/ /\ Alarm = "latched" /\ Answer = "severed"
                /\ Answer' = "returning" /\ Alarm' = Alarm
             \/ /\ Alarm = "latched" => Answer = "returning"
                /\ Alarm' = "clear" /\ Answer' = "none"
  BY DEF Response!Next, Response!svars, Response!Raise, Response!Dismiss,
     Response!Latch, Response!SeverGps, Response!ReturnToBase, Response!Release
<1>e. UNCHANGED <<state, orders>> => UNCHANGED <<Alarm, Answer>>
  BY <1>b
<1> HIDE DEF Alarm
<1>1. ASSUME NEW done \in BOOLEAN, NEW in_gate \in BOOLEAN, OnImu(done, in_gate)
      PROVE  UNCHANGED <<state, orders>>
  BY <1>1 DEF OnImu, fsmVars
<1>2. CASE BootFixRejected
  BY <1>2, <1>e DEF BootFixRejected, vars, fsmVars
<1>3. ASSUME NEW hb \in BOOLEAN, FirstFix(hb)
      PROVE  UNCHANGED <<state, orders>>
  BY <1>3 DEF FirstFix, fsmVars
<1>4. ASSUME NEW hb \in BOOLEAN, NEW served \in BOOLEAN, PreflightFix(hb, served)
      PROVE  UNCHANGED <<state, orders>>
  BY <1>4 DEF PreflightFix, fsmVars
<1>5. ASSUME NEW t \in FixTimes, SkippedFix(t)
      PROVE  UNCHANGED <<state, orders>>
  BY <1>5 DEF SkippedFix, FixSkipped
<1>6. ASSUME NEW t \in FixTimes, NEW firing \in BOOLEAN, NEW clean \in BOOLEAN,
             NEW plausible \in BOOLEAN, EvaluatedFix(t, firing, clean, plausible)
      PROVE  /\ orders' = orders
             /\ \/ state' = state
                \/ state = "Normal" /\ state' = "Suspicious"
                \/ state = "Suspicious" /\ state' = "Normal"
                \/ state = "Suspicious" /\ state' = "Spoofed"
  BY <1>6 DEF EvaluatedFix, FixWhileSpoofed, FixEvaluated, StayNormal,
     EnterSuspicious, StaySuspicious, Veto, Clear, Escalate
<1>7. ASSUME NEW ok \in BOOLEAN, SeverGps(ok)
      PROVE  /\ state = "Spoofed" /\ state' = state
             /\ Answer = "none" /\ Answer' = "severed"
  <2>1. state = "Spoofed" /\ state' = state /\ orders = <<>>
    BY <1>7, <1>d DEF SeverGps, fsmVars, LatchInv, EachLatchAnswered
  <2>2. orders' = <<>> \o SeverResult(ok) /\ SeverResult(ok) \in SeverOutcomes
    BY <1>7, <2>1, Results DEF SeverGps, LatchInv
  <2>3. orders' \in SeverOutcomes
    BY <2>2, FirstOrder
  <2> QED BY <2>1, <2>3, <1>b, <1>c
<1>8. ASSUME NEW ok \in BOOLEAN, EngageRtb(ok)
      PROVE  /\ state = "Spoofed" /\ state' = state
             /\ Answer = "severed" /\ Answer' = "returning"
  <2>1. state = "Spoofed" /\ state' = state /\ orders \in SeverOutcomes
    BY <1>8, <1>d DEF EngageRtb, fsmVars, LatchInv, EachLatchAnswered
  <2>2. orders' = orders \o RtbResult(ok) /\ RtbResult(ok) \in RtbOutcomes
    BY <1>8, Results DEF EngageRtb, LatchInv
  <2>3. orders' \in Responses
    BY <2>1, <2>2 DEF Responses
  <2>4. orders' # <<>> /\ orders' \notin SeverOutcomes
    BY <2>3, ResponseIsLater
  <2> QED BY <2>1, <2>4, <1>b, <1>c
<1>9. ASSUME OperatorReset
      PROVE  /\ state = "Spoofed" => Answer = "returning"
             /\ state' = "Normal" /\ Answer' = "none"
  <2>1. state' = "Normal" /\ orders' = <<>> /\ pc = "idle"
    BY <1>9 DEF OperatorReset, ManualReset
  <2>2. state = "Spoofed" => orders \in Responses
    BY <2>1, <1>d DEF EachLatchAnswered
  <2>3. state = "Spoofed" => orders # <<>> /\ orders \notin SeverOutcomes
    BY <2>2, ResponseIsLater
  <2> QED BY <2>1, <2>3
<1>10. CASE ControllerReset
  BY <1>10, <1>e DEF ControllerReset, fsmVars
<1>11. CASE UNCHANGED vars
  BY <1>11, <1>e DEF vars, fsmVars
<1>12. ASSUME orders' = orders
       PROVE  Answer' = Answer
  BY <1>12, <1>b
<1> HIDE DEF Answer
<1>13. ASSUME NEW t \in FixTimes, NEW firing \in BOOLEAN, NEW clean \in BOOLEAN,
              NEW plausible \in BOOLEAN, EvaluatedFix(t, firing, clean, plausible)
       PROVE  \/ UNCHANGED <<Alarm, Answer>>
              \/ Alarm = "clear" /\ Alarm' = "raised" /\ Answer' = Answer
              \/ Alarm = "raised" /\ Alarm' = "clear" /\ Answer' = Answer
              \/ Alarm = "raised" /\ Alarm' = "latched" /\ Answer' = Answer
  BY <1>13, <1>0, <1>6, <1>12, <1>e
<1>14. ASSUME NEW ok \in BOOLEAN, SeverGps(ok) \/ EngageRtb(ok)
       PROVE  \/ /\ Alarm = "latched" /\ Answer = "none"
                 /\ Answer' = "severed" /\ Alarm' = Alarm
              \/ /\ Alarm = "latched" /\ Answer = "severed"
                 /\ Answer' = "returning" /\ Alarm' = Alarm
  BY <1>14, <1>0, <1>7, <1>8
<1>15. ASSUME OperatorReset
       PROVE  /\ Alarm = "latched" => Answer = "returning"
              /\ Alarm' = "clear" /\ Answer' = "none"
  BY <1>15, <1>0, <1>9, <1>a DEF NavStateKind
<1> QED
  BY <1>1, <1>2, <1>3, <1>4, <1>5, <1>10, <1>11, <1>13, <1>14, <1>15, <1>e
  DEF FNext

\* What the operator is promised, its liveness apart: the alarm and the
\* response of the fusion task start and move as SpoofResponse allows.  In
\* particular no reset releases a latch whose response is still under way.
THEOREM ResponseSafety ==
  FSpec => Response!Init /\ [][Response!Next]_(Response!svars)
<1>1. FInit => Response!Init
  BY DEF FInit, Init, Response!Init
<1>2. /\ FieldsOK /\ FieldsOK' /\ LatchInv /\ [FNext]_vars
        => [Response!Next]_(Response!svars)
  BY ResponseStep
<1>3. TypeOK => FieldsOK
  BY DEF TypeOK
<1> QED
  BY <1>1, <1>2, <1>3, FusionImplementsDetector, TypeCorrect, LatchInvariant, PTL
  DEF FSpec
=============================================================================
