------------------------------ MODULE Detector ------------------------------
(***************************************************************************)
(* The detector state machine, NORMAL -> SUSPICIOUS -> SPOOFED (latched),  *)
(* of src/src/detect/state_machine.rs, driven fix by fix in the order in   *)
(* which Fusion::on_gps calls it: the per-fix flags, the Doppler gate,     *)
(* evaluate(), and then either the re-anchor veto or the commit of a       *)
(* Suspicious -> Normal transition.  Fusion owns the machine and runs one  *)
(* handler at a time, so the calls made for one fix are one atomic step.   *)
(*                                                                         *)
(* What the residual detectors compute is abstracted to what the machine   *)
(* reads from them: whether one fired, and whether the sample is quiet     *)
(* enough to count towards clearing.  Their own state, and the Doppler     *)
(* gate in front of them, is in Fusion.  Time is an integer number of      *)
(* ticks.                                                                  *)
(***************************************************************************)
EXTENDS Integers

CONSTANTS
  SpoofedDwell,          \* suspicious_to_spoofed_dwell_s
  ClearDwell,            \* normal_clear_dwell_s
  MaxDwellPause,         \* max_dwell_pause_s
  MaxConsecutiveDropout, \* MAX_CONSECUTIVE_DROPOUT
  StreakMax,             \* where the u8 consecutive_dropout saturates
  None,                  \* Option::None
  Steps,                 \* time from one fix to the next, in ticks
  MaxTime                \* bound of the model: no fix is later than this

\* FusionConfig::validate rejects dwell times and a pause budget that are not
\* positive.  Fix times come from a clock aligner and may repeat or step back,
\* so Steps may hold zero and negative numbers.
ASSUME ConfigAssumption ==
  /\ SpoofedDwell \in Nat \ {0}
  /\ ClearDwell \in Nat \ {0}
  /\ MaxDwellPause \in Nat \ {0}
  /\ MaxConsecutiveDropout \in Nat \ {0}
  /\ StreakMax \in Nat
  /\ StreakMax > MaxConsecutiveDropout + 1
  /\ None \notin Int
  /\ Steps \subseteq Int
  /\ MaxTime \in Nat

VARIABLES
  state,                        \* NavStateKind
  suspicious_since,             \* start of the dwell, or None
  last_clean_since,             \* start of the clean streak, or None
  dropout_recovery,             \* per-fix flag, drained by evaluate()
  last_dropout_t,               \* last fix of the current dropout streak
  consecutive_dropout,          \* length of that streak
  paused_cumulative_s,          \* pause absorbed in the current episode
  pause_budget_warned,          \* budget notice given in this episode
  dwell_pause_exceeded_pending, \* notice waiting for Fusion
  now,                          \* time of the last fix that was evaluated
  \* history, not part of the code
  episode_start,                \* time the current episode began, or None
  last_fix,                     \* what the episode's last fix was
  sustained,                    \* every fix of this episode so far fired
  longest_gap                   \* between two fixes of such an episode

streak == <<last_dropout_t, consecutive_dropout>>
pause == <<paused_cumulative_s, pause_budget_warned>>
dwell == <<suspicious_since, last_clean_since>>
history == <<episode_start, last_fix, sustained, longest_gap>>

fsmVars == <<state, dwell, dropout_recovery, streak, pause,
             dwell_pause_exceeded_pending, now, history>>

NavStateKind == {"Normal", "Suspicious", "Spoofed"}
FixKind == {"none", "firing", "clean", "neither", "vetoed"}
Instants == Int \cup {None}

Init ==
  /\ state = "Normal"
  /\ suspicious_since = None
  /\ last_clean_since = None
  /\ dropout_recovery = FALSE
  /\ last_dropout_t = None
  /\ consecutive_dropout = 0
  /\ paused_cumulative_s = 0
  /\ pause_budget_warned = FALSE
  /\ dwell_pause_exceeded_pending = FALSE
  /\ now = 0
  /\ episode_start = None
  /\ last_fix = "none"
  /\ sustained = FALSE
  /\ longest_gap = 0
-----------------------------------------------------------------------------
(***************************************************************************)
(* The parts of evaluate() ahead of the match on the state.  rec is the    *)
(* drained dropout flag: it was left set by an earlier fix, or this fix    *)
(* follows a gap.                                                          *)
(***************************************************************************)
Recovering(drop) == dropout_recovery \/ drop

Streak(rec) ==
  IF ~rec THEN 0
  ELSE IF consecutive_dropout < StreakMax THEN consecutive_dropout + 1
  ELSE StreakMax

\* Mutant: no budget.
BudgetUnlimited == TRUE

BudgetOk == paused_cumulative_s < MaxDwellPause

WithinCaps(rec) == Streak(rec) <= MaxConsecutiveDropout /\ BudgetOk

\* The instant from which a pause absorbs time: the previous fix of the
\* streak, and for the first fix of a streak the start of the dwell itself.
PauseOrigin ==
  IF last_dropout_t = None THEN suspicious_since ELSE last_dropout_t

Absorbed(t, rec) ==
  IF /\ rec
     /\ state = "Suspicious"
     /\ WithinCaps(rec)
     /\ t > PauseOrigin
  THEN t - PauseOrigin
  ELSE 0

CapNotice(rec) ==
  /\ rec
  /\ state = "Suspicious"
  /\ ~WithinCaps(rec)
  /\ \/ Streak(rec) = MaxConsecutiveDropout + 1
     \/ ~BudgetOk /\ ~pause_budget_warned

Warned(rec) == pause_budget_warned \/ (CapNotice(rec) /\ ~BudgetOk)

DwellStart(t, rec) == suspicious_since + Absorbed(t, rec)

CleanSince(t) == IF last_clean_since = None THEN t ELSE last_clean_since
-----------------------------------------------------------------------------
(***************************************************************************)
(* The outcomes of the match on the state, each with the calls Fusion      *)
(* makes for the transition it reports.  firing is detector_firing and     *)
(* clean is sample_clean.                                                  *)
(***************************************************************************)
StayNormal(firing) ==
  /\ state = "Normal"
  /\ ~firing
  /\ UNCHANGED <<state, dwell, pause, history>>

EnterSuspicious(t, firing) ==
  /\ state = "Normal"
  /\ firing
  /\ state' = "Suspicious"
  /\ suspicious_since' = t
  /\ last_clean_since' = None
  /\ paused_cumulative_s' = 0
  /\ pause_budget_warned' = FALSE
  /\ episode_start' = t
  /\ last_fix' = "firing"
  /\ sustained' = TRUE
  /\ longest_gap' = 0

EpisodeOver ==
  /\ episode_start' = None
  /\ last_fix' = "none"
  /\ sustained' = FALSE
  /\ longest_gap' = 0

\* The longest gap so far, once the gap before the fix at t is counted.
GapUpTo(t) == IF t - now > longest_gap THEN t - now ELSE longest_gap

ClearDue(t, clean) == clean /\ t - CleanSince(t) >= ClearDwell

\* Mutant: one tick late.
SpoofedDueLate(t, rec, firing) ==
  firing /\ t - DwellStart(t, rec) > SpoofedDwell

SpoofedDue(t, rec, firing) ==
  firing /\ t - DwellStart(t, rec) >= SpoofedDwell

StaySuspicious(t, rec, firing, clean) ==
  /\ state = "Suspicious"
  /\ ~ClearDue(t, clean)
  /\ ~SpoofedDue(t, rec, firing)
  /\ suspicious_since' = DwellStart(t, rec)
  /\ last_clean_since' = IF clean THEN CleanSince(t) ELSE None
  /\ paused_cumulative_s' = paused_cumulative_s + Absorbed(t, rec)
  /\ pause_budget_warned' = Warned(rec)
  /\ last_fix' = IF clean THEN "clean" ELSE IF firing THEN "firing" ELSE "neither"
  /\ sustained' = (sustained /\ firing)
  /\ longest_gap' = IF sustained' THEN GapUpTo(t) ELSE 0
  /\ UNCHANGED <<state, episode_start>>

\* Mutant: a veto starts a new dwell.
VetoRestartsDwell(t, rec, clean) ==
  /\ state = "Suspicious"
  /\ ClearDue(t, clean)
  /\ suspicious_since' = t
  /\ last_clean_since' = None
  /\ paused_cumulative_s' = paused_cumulative_s + Absorbed(t, rec)
  /\ pause_budget_warned' = Warned(rec)
  /\ last_fix' = "vetoed"
  /\ sustained' = FALSE
  /\ longest_gap' = 0
  /\ UNCHANGED <<state, episode_start>>

\* Mutant: a veto leaves the clean streak running.
VetoKeepsStreak(t, rec, clean) ==
  /\ state = "Suspicious"
  /\ ClearDue(t, clean)
  /\ last_clean_since' = CleanSince(t)
  /\ paused_cumulative_s' = paused_cumulative_s + Absorbed(t, rec)
  /\ pause_budget_warned' = Warned(rec)
  /\ last_fix' = "vetoed"
  /\ sustained' = FALSE
  /\ longest_gap' = 0
  /\ UNCHANGED <<state, suspicious_since, episode_start>>

\* evaluate() cleared, the fix is too far from the dead-reckoned position, and
\* Fusion calls force_back_to_suspicious with the dwell start it captured
\* before evaluate().
Veto(t, rec, clean) ==
  /\ state = "Suspicious"
  /\ ClearDue(t, clean)
  /\ suspicious_since' = suspicious_since
  /\ last_clean_since' = None
  /\ paused_cumulative_s' = paused_cumulative_s + Absorbed(t, rec)
  /\ pause_budget_warned' = Warned(rec)
  /\ last_fix' = "vetoed"
  /\ sustained' = FALSE
  /\ longest_gap' = 0
  /\ UNCHANGED <<state, episode_start>>

\* evaluate() cleared and Fusion accepts it with commit_susp_to_normal.
Clear(t, clean) ==
  /\ state = "Suspicious"
  /\ ClearDue(t, clean)
  /\ state' = "Normal"
  /\ suspicious_since' = None
  /\ last_clean_since' = None
  /\ paused_cumulative_s' = 0
  /\ pause_budget_warned' = FALSE
  /\ EpisodeOver

Escalate(t, rec, firing) ==
  /\ state = "Suspicious"
  /\ SpoofedDue(t, rec, firing)
  /\ state' = "Spoofed"
  /\ suspicious_since' = None
  /\ last_clean_since' = None
  /\ paused_cumulative_s' = paused_cumulative_s + Absorbed(t, rec)
  /\ pause_budget_warned' = Warned(rec)
  /\ EpisodeOver
-----------------------------------------------------------------------------
(***************************************************************************)
(* One fix, evaluated.  drop: the gap before it exceeded the dropout       *)
(* threshold.  firing: jump, drift or an external detector fired (the      *)
(* external_anomaly flag is set and drained by one fix).  clean:           *)
(* sample_clean, never with a detector firing.  plausible: the fix is      *)
(* within re_anchor_max_distance_m of the dead-reckoned position.          *)
(***************************************************************************)

\* Mutant: a later fix releases the latch.
FixReleasesLatch ==
  /\ state = "Spoofed"
  /\ state' = "Normal"
  /\ dropout_recovery' = FALSE
  /\ dwell_pause_exceeded_pending' = FALSE
  /\ UNCHANGED <<dwell, streak, pause, now, history>>

FixWhileSpoofed ==
  /\ state = "Spoofed"
  /\ dropout_recovery' = FALSE
  /\ dwell_pause_exceeded_pending' = FALSE
  /\ UNCHANGED <<state, dwell, streak, pause, now, history>>

FixEvaluated(t, drop, firing, clean, plausible) ==
  LET rec == Recovering(drop)
  IN  /\ state # "Spoofed"
      /\ ~(firing /\ clean)
      /\ now' = t
      /\ dropout_recovery' = FALSE
      /\ dwell_pause_exceeded_pending' = CapNotice(rec)
      /\ consecutive_dropout' = Streak(rec)
      /\ last_dropout_t' = IF rec THEN t ELSE None
      /\ \/ StayNormal(firing)
         \/ EnterSuspicious(t, firing)
         \/ StaySuspicious(t, rec, firing, clean)
         \/ ~plausible /\ Veto(t, rec, clean)
         \/ plausible /\ Clear(t, clean)
         \/ Escalate(t, rec, firing)

\* Mutant: a skipped fix counts in the streak without being its last fix.
FixSkippedCounts(drop) ==
  /\ dropout_recovery' = FALSE
  /\ dwell_pause_exceeded_pending' = FALSE
  /\ consecutive_dropout' = Streak(Recovering(drop))
  /\ UNCHANGED <<state, dwell, last_dropout_t, pause, now, history>>

\* A fix whose time the IMU buffer cannot serve: on_gps notes the dropout,
\* consumes a pending notice and returns before evaluate().
FixSkipped(drop) ==
  /\ dropout_recovery' = Recovering(drop)
  /\ dwell_pause_exceeded_pending' = FALSE
  /\ UNCHANGED <<state, dwell, streak, pause, now, history>>

\* manual_reset_to_normal.
ManualReset ==
  /\ state' = "Normal"
  /\ suspicious_since' = None
  /\ last_clean_since' = None
  /\ dropout_recovery' = FALSE
  /\ last_dropout_t' = None
  /\ consecutive_dropout' = 0
  /\ paused_cumulative_s' = 0
  /\ pause_budget_warned' = FALSE
  /\ dwell_pause_exceeded_pending' = FALSE
  /\ EpisodeOver
  /\ UNCHANGED now

Evaluation ==
  \E d \in Steps, drop, firing, clean, plausible \in BOOLEAN :
    /\ now + d \in 0 .. MaxTime
    /\ FixEvaluated(now + d, drop, firing, clean, plausible)

Next ==
  \/ Evaluation
  \/ FixWhileSpoofed
  \/ \E drop \in BOOLEAN : FixSkipped(drop)
  \/ ManualReset

Spec == Init /\ [][Next]_fsmVars
-----------------------------------------------------------------------------
(***************************************************************************)
(* Properties.                                                             *)
(***************************************************************************)

FlagsOK ==
  /\ dropout_recovery \in BOOLEAN
  /\ pause_budget_warned \in BOOLEAN
  /\ dwell_pause_exceeded_pending \in BOOLEAN
  /\ sustained \in BOOLEAN

FieldsOK ==
  /\ state \in NavStateKind
  /\ suspicious_since \in Instants
  /\ last_clean_since \in Instants
  /\ last_dropout_t \in Instants
  /\ consecutive_dropout \in 0 .. StreakMax
  /\ paused_cumulative_s \in Nat
  /\ now \in Int
  /\ longest_gap \in Nat
  /\ episode_start \in Instants
  /\ last_fix \in FixKind

\* Every field has its type.
TypeOK == FlagsOK /\ FieldsOK

\* The dwell clock runs exactly while the machine is Suspicious, and Normal
\* carries nothing of an earlier episode: no consumed pause budget, no given
\* notice, no clean streak.
EpisodeBookkeeping ==
  /\ state = "Suspicious" <=> suspicious_since # None
  /\ state = "Suspicious" <=> episode_start # None
  /\ state = "Normal" => /\ paused_cumulative_s = 0
                         /\ ~pause_budget_warned
                         /\ last_clean_since = None

\* A dropout streak is recorded by the last evaluated fix and by no older one.
StreakIsCurrent ==
  /\ last_dropout_t = None <=> consecutive_dropout = 0
  /\ state # "Spoofed" /\ last_dropout_t # None => last_dropout_t = now

\* Over all vetoes and pauses of one episode, the start of the dwell never
\* moves ahead of the start of the episode by more than the pause charged to
\* the budget: a vetoed clearing gives no fresh dwell.
DwellNeverRestarts ==
  state = "Suspicious" =>
    suspicious_since <= episode_start + paused_cumulative_s

\* A firing fix that leaves the machine Suspicious is less than one dwell,
\* plus the pause charged to the budget, after the start of the episode.
FiringFixEscalates ==
  state = "Suspicious" /\ last_fix = "firing" =>
    now < episode_start + paused_cumulative_s + SpoofedDwell

\* Under a sustained attack, one whose every fix fires, no pattern of gaps
\* holds off Spoofed beyond this bound, in which the gap counts once: the
\* longest between two fixes that were evaluated in the episode.
StallBound ==
  state = "Suspicious" /\ sustained =>
    now - episode_start < MaxDwellPause + 2 * SpoofedDwell + longest_gap

\* The inductive invariant behind the two bounds above.  It adds that the
\* dwell of a firing fix has not run out, that a sustained episode's last fix
\* fired, and hence that the pause absorbed by one more recovery fix is less
\* than a dwell and that fix's gap.
EscalationInv ==
  /\ EpisodeBookkeeping
  /\ StreakIsCurrent
  /\ DwellNeverRestarts
  /\ state = "Suspicious" /\ last_fix = "firing" =>
       now - suspicious_since < SpoofedDwell
  /\ state = "Suspicious" /\ sustained =>
       /\ last_fix = "firing"
       /\ paused_cumulative_s < MaxDwellPause + SpoofedDwell + longest_gap

\* Only the operator's reset takes the machine out of Spoofed, and Spoofed is
\* entered from Suspicious only.
SpoofedLatched ==
  [][/\ state = "Spoofed" => state' = "Spoofed" \/ ManualReset
     /\ state' = "Spoofed" => state \in {"Suspicious", "Spoofed"}]_fsmVars

\* The clean streak that clears Suspicious is unbroken: it is running exactly
\* when the last fix was clean, so a firing fix, a fix that is neither clean
\* nor firing, a vetoed clearing and a new episode all make it start again.
CleanStreakUnbroken ==
  last_clean_since # None <=> last_fix = "clean"
=============================================================================
