------------------------------- MODULE Fusion -------------------------------
(***************************************************************************)
(* The fusion task of src/src/fusion.rs around the detector state machine: *)
(* the preflight gate, the anchor and the velocity blend of the dead       *)
(* reckoner (src/src/nav/mod.rs), the IMU snapshot buffer, the response to *)
(* a latched Spoofed, and the operator's reset.                            *)
(*                                                                         *)
(* Fusion::run handles one IMU sample, one fix or one reset at a time.  A  *)
(* handler is one step, except where it awaits the flight controller:      *)
(* there it is suspended (pc), with the state it has changed so far        *)
(* visible to the rest of the program, and no other handler runs.          *)
(***************************************************************************)
EXTENDS Detector, Sequences

CONSTANTS
  FreezeGap,           \* gps_dropout_freeze_s: a longer gap is a dropout
  FreezeOnSuspicious,  \* dead_reckon_freeze_on_suspicious, TRUE by default
  FixSteps             \* time from one fix to the next

\* Skipped fixes lengthen the time between two evaluated ones, so every
\* difference of two instants of the model is a step of the detector.
ASSUME FusionAssumption ==
  /\ FreezeGap \in Nat \ {0}
  /\ FreezeOnSuspicious \in BOOLEAN
  /\ FixSteps \subseteq Int
  /\ \A t, u \in 0 .. MaxTime : t - u \in Steps

VARIABLES
  preflight,         \* PreflightState
  nav_initialized,   \* DeadReckoner::initialized, static init has run
  static_init_done,  \* the checklist's copy, taken once there is an origin
  anchor,            \* origin and anchor_locked of the dead reckoner
  nav_state,         \* the dead reckoner's copy of the detector's state
  buffer,            \* the IMU snapshots: "empty" or "fed"
  last_gps_t,        \* last_gps_t_secs
  pc,                \* where the running handler is suspended
  controller,        \* which FlightController is in use, fixed at start
  gps_severed,       \* latches of the console controller
  rtb_engaged,
  \* history, not part of the code
  nav_use,           \* what the dead reckoner did with the fix just handled
  orders             \* what was done in response to the present latch

boot == <<preflight, static_init_done>>
reckoner == <<nav_initialized, anchor, nav_state>>
ctl == <<controller, gps_severed, rtb_engaged>>

vars == <<fsmVars, boot, reckoner, buffer, last_gps_t, pc, ctl, nav_use, orders>>

NavInit ==
  /\ nav_initialized = FALSE
  /\ anchor = "none"
  /\ nav_state = "Normal"

FInit ==
  /\ Init
  /\ NavInit
  /\ preflight = "Initializing"
  /\ static_init_done = FALSE
  /\ buffer = "empty"
  /\ last_gps_t = None
  /\ pc = "idle"
  /\ controller \in {"console", "mav"}
  /\ gps_severed = FALSE
  /\ rtb_engaged = FALSE
  /\ nav_use = "none"
  /\ orders = <<>>
-----------------------------------------------------------------------------
(***************************************************************************)
(* DeadReckoner::on_gps_fix: until the anchor is locked the fix becomes    *)
(* the origin, and the first one after static init locks it; from then on  *)
(* its velocity is blended in, unless the dead reckoner's own copy of the  *)
(* state freezes the blend.  from and kind are the anchor and that copy as *)
(* the handler has left them when it makes the call.                       *)
(***************************************************************************)
BlendAllowed(kind) == kind = "Normal" \/ ~FreezeOnSuspicious

NavOnGpsFix(from, kind) ==
  IF from # "locked"
  THEN /\ anchor' = IF nav_initialized THEN "locked" ELSE "free"
       /\ nav_use' = "anchor"
  ELSE /\ anchor' = from
       /\ nav_use' = IF BlendAllowed(kind) THEN "blend" ELSE "none"

NavUnused == nav_use' = "none" /\ UNCHANGED anchor

\* re_anchor_after_clearing moves the origin to the fix, locked or not.
ReAnchored == IF anchor = "none" THEN "free" ELSE anchor

\* nav.step counts the sample towards the static init, and completes it.
StaticInit(done) == nav_initialized' = (nav_initialized \/ done)

\* nav.step integrates the sample and returns a snapshot, unless it is still
\* initializing, has no origin, or the time step fails the rate gate.
Integrated(in_gate) == in_gate /\ nav_initialized /\ anchor # "none"

OnImu(done, in_gate) ==
  /\ pc = "idle"
  /\ StaticInit(done)
  /\ static_init_done' =
       (static_init_done \/ (nav_initialized' /\ anchor # "none"))
  /\ buffer' = IF Integrated(in_gate) THEN "fed" ELSE buffer
  /\ nav_use' = "none"
  /\ UNCHANGED <<fsmVars, preflight, anchor, nav_state, last_gps_t, pc, ctl,
                 orders>>
-----------------------------------------------------------------------------
(***************************************************************************)
(* on_gps before the detector is armed.  hb: the heartbeat is fresh and    *)
(* the autopilot is the expected one (or no MAVLink monitor is in use).    *)
(* first_fix_accepted of the checklist is anchor # "none".                 *)
(***************************************************************************)

\* Mutant: armed without static init.
RefreshPreflightUngated(hb) ==
  preflight' = IF hb THEN "Ready" ELSE preflight

RefreshPreflight(hb) ==
  preflight' = IF static_init_done /\ hb THEN "Ready" ELSE preflight

\* The first fix is too far from the expected home: refused, nothing changes.
BootFixRejected ==
  /\ pc = "idle"
  /\ anchor = "none"
  /\ UNCHANGED vars

FirstFix(hb) ==
  /\ pc = "idle"
  /\ anchor = "none"
  /\ NavOnGpsFix(anchor, nav_state)
  /\ RefreshPreflight(hb)
  /\ UNCHANGED <<fsmVars, nav_initialized, static_init_done, nav_state, buffer,
                 last_gps_t, pc, ctl, orders>>

\* served: the buffer can be interpolated at the time of the fix.  on_gps then
\* leaves the dead reckoner alone.
PreflightFix(hb, served) ==
  /\ pc = "idle"
  /\ anchor # "none"
  /\ preflight # "Ready"
  /\ served => buffer = "fed"
  /\ RefreshPreflight(hb)
  /\ IF served THEN NavUnused ELSE NavOnGpsFix(anchor, nav_state)
  /\ UNCHANGED <<fsmVars, nav_initialized, static_init_done, nav_state, buffer,
                 last_gps_t, pc, ctl, orders>>
-----------------------------------------------------------------------------
(***************************************************************************)
(* on_gps with the detector armed.                                         *)
(***************************************************************************)
FixTimes ==
  IF last_gps_t = None THEN now .. MaxTime
  ELSE {last_gps_t + d : d \in FixSteps} \cap (0 .. MaxTime)

Dropout(t) == last_gps_t # None /\ t - last_gps_t > FreezeGap

Armed(t) ==
  /\ pc = "idle"
  /\ preflight = "Ready"
  /\ last_gps_t' = t

\* The buffer cannot serve the fix: SyncWarning, no evaluation, but the dead
\* reckoner still gets the fix.
SkippedFix(t) ==
  /\ Armed(t)
  /\ FixSkipped(Dropout(t))
  /\ NavOnGpsFix(anchor, nav_state)
  /\ UNCHANGED <<boot, nav_initialized, nav_state, buffer, pc, ctl, orders>>

\* The Transition events evaluate() returns for the fix, by their "to" state:
\* computed from the machine as the fix finds it, ahead of any veto.
Transitions(t, firing, clean) ==
  {to \in NavStateKind :
     \/ state = "Normal" /\ firing /\ to = "Suspicious"
     \/ state = "Suspicious" /\ ClearDue(t, clean) /\ to = "Normal"
     \/ /\ state = "Suspicious"
        /\ SpoofedDue(t, Recovering(Dropout(t)), firing)
        /\ to = "Spoofed"}

\* Mutant: the veto forces the machine back but lets the event through.
EmittedDespiteVeto(t, firing, clean, plausible) ==
  Transitions(t, firing, clean)

\* The ones on_gps goes on with: the vetoed clearing is dropped.
Emitted(t, firing, clean, plausible) ==
  {to \in Transitions(t, firing, clean) : to = "Normal" => plausible}

\* The detector evaluates the fix, and on_gps acts on the transitions that it
\* emits.  Each is handed to the dead reckoner; a clearing re-anchors on the
\* fix and drops the snapshots taken relative to the old origin; a latch
\* starts the response.  Last, and by what the machine itself then says, a fix
\* that leaves it Normal goes to the dead reckoner.
EvaluatedFix(t, firing, clean, plausible) ==
  LET emitted == Emitted(t, firing, clean, plausible)
  IN  /\ Armed(t)
      /\ buffer = "fed"
      /\ \/ FixWhileSpoofed
         \/ FixEvaluated(t, Dropout(t), firing, clean, plausible)
      /\ nav_state' \in IF emitted = {} THEN {nav_state} ELSE emitted
      /\ buffer' = IF "Normal" \in emitted THEN "empty" ELSE buffer
      /\ IF state' = "Normal"
         THEN NavOnGpsFix(IF "Normal" \in emitted THEN ReAnchored ELSE anchor,
                          nav_state')
         ELSE NavUnused
      /\ pc' = IF "Spoofed" \in emitted THEN "sever" ELSE pc
      /\ UNCHANGED <<boot, nav_initialized, ctl, orders>>
-----------------------------------------------------------------------------
(***************************************************************************)
(* The flight controller, as the suspended handler sees it.  The console   *)
(* controller latches each action and does nothing when it is engaged      *)
(* already; the MAVLink controller keeps no latch, and an action of it     *)
(* fails when none of its repeated datagrams can be sent.                  *)
(***************************************************************************)

SeverResult(ok) ==
  IF controller = "console"
  THEN IF gps_severed THEN <<>> ELSE <<"sever">>
  ELSE IF ok THEN <<"sever">> ELSE <<"sever_failed", "critical">>

RtbResult(ok) ==
  IF controller = "console"
  THEN IF rtb_engaged THEN <<>> ELSE <<"rtb">>
  ELSE IF ok THEN <<"rtb">> ELSE <<"rtb_failed">>

\* Mutant: a failed sever ends the response.
SeverGpsGivesUp(ok) ==
  /\ pc = "sever"
  /\ controller = "console" => ok
  /\ orders' = orders \o SeverResult(ok)
  /\ gps_severed' = (gps_severed \/ controller = "console")
  /\ pc' = IF ok THEN "rtb" ELSE "idle"
  /\ nav_use' = "none"
  /\ UNCHANGED <<fsmVars, boot, reckoner, buffer, last_gps_t, controller,
                 rtb_engaged>>

\* sever_gps returns; after a failure the CRITICAL event goes out before RTL.
SeverGps(ok) ==
  /\ pc = "sever"
  /\ controller = "console" => ok
  /\ orders' = orders \o SeverResult(ok)
  /\ gps_severed' = (gps_severed \/ controller = "console")
  /\ pc' = "rtb"
  /\ nav_use' = "none"
  /\ UNCHANGED <<fsmVars, boot, reckoner, buffer, last_gps_t, controller,
                 rtb_engaged>>

\* engage_rtb returns, whatever became of sever_gps, and the handler ends.
EngageRtb(ok) ==
  /\ pc = "rtb"
  /\ controller = "console" => ok
  /\ orders' = orders \o RtbResult(ok)
  /\ rtb_engaged' = (rtb_engaged \/ controller = "console")
  /\ pc' = "idle"
  /\ nav_use' = "none"
  /\ UNCHANGED <<fsmVars, boot, reckoner, buffer, last_gps_t, controller,
                 gps_severed>>

\* The reset branch of run(), up to its await of controller.reset().
OperatorReset ==
  /\ pc = "idle"
  /\ ManualReset
  /\ nav_state' = "Normal"
  /\ last_gps_t' = None
  /\ pc' = "reset"
  /\ orders' = <<>>
  /\ nav_use' = "none"
  /\ UNCHANGED <<boot, nav_initialized, anchor, buffer, ctl>>

\* Mutant: the RTL latch survives the reset.
ControllerResetKeepsRtb ==
  /\ pc = "reset"
  /\ gps_severed' = FALSE
  /\ pc' = "idle"
  /\ nav_use' = "none"
  /\ UNCHANGED <<fsmVars, boot, reckoner, buffer, last_gps_t, controller,
                 rtb_engaged, orders>>

ControllerReset ==
  /\ pc = "reset"
  /\ gps_severed' = FALSE
  /\ rtb_engaged' = FALSE
  /\ pc' = "idle"
  /\ nav_use' = "none"
  /\ UNCHANGED <<fsmVars, boot, reckoner, buffer, last_gps_t, controller,
                 orders>>

FNext ==
  \/ \E done, in_gate \in BOOLEAN : OnImu(done, in_gate)
  \/ BootFixRejected
  \/ \E hb \in BOOLEAN : FirstFix(hb)
  \/ \E hb, served \in BOOLEAN : PreflightFix(hb, served)
  \/ \E t \in FixTimes : SkippedFix(t)
  \/ \E t \in FixTimes, firing, clean, plausible \in BOOLEAN :
       EvaluatedFix(t, firing, clean, plausible)
  \/ \E ok \in BOOLEAN : SeverGps(ok)
  \/ \E ok \in BOOLEAN : EngageRtb(ok)
  \/ OperatorReset
  \/ ControllerReset

\* Every controller call returns: the console's are local, and the MAVLink
\* controller's send a fixed number of datagrams with a fixed spacing.
ControllerReturns ==
  /\ WF_vars(\E ok \in BOOLEAN : SeverGps(ok))
  /\ WF_vars(\E ok \in BOOLEAN : EngageRtb(ok))
  /\ WF_vars(ControllerReset)

FSpec == FInit /\ [][FNext]_vars /\ ControllerReturns
-----------------------------------------------------------------------------
(***************************************************************************)
(* Properties.                                                             *)
(***************************************************************************)

SeverOutcomes == {<<"sever">>, <<"sever_failed", "critical">>}
RtbOutcomes == {<<"rtb">>, <<"rtb_failed">>}
Responses == {s \o r : s \in SeverOutcomes, r \in RtbOutcomes}

\* The dead reckoner's copy of the detector's state, which decides whether GPS
\* velocity is blended in, is written from the transitions on_gps emits, and
\* the machine is moved by evaluate(), by the veto and by the reset.  The two
\* agree after every handler and at every await, so no vetoed clearing and no
\* reset leaves the blend open; and no fix is blended in while the alarm is
\* raised or latched, on the evaluated path and on the path that skips
\* evaluation, unless the operator opted out of the freeze.
NoAidingUnderSuspicion ==
  /\ nav_state = state
  /\ nav_use = "blend" /\ FreezeOnSuspicious => state = "Normal"

\* The detector is armed only with a completed static init and an origin, and
\* until then no fix has left a trace in it that could raise an alarm later.
SilentBeforeReady ==
  /\ preflight = "Ready" => nav_initialized /\ anchor # "none"
  /\ preflight # "Ready" =>
       /\ state = "Normal"
       /\ ~dropout_recovery
       /\ consecutive_dropout = 0
       /\ last_gps_t = None

\* Each latch is answered once and in order: GPS is severed first, a failure to
\* do so is announced before RTL is commanded, RTL is commanded even so, and no
\* latch that survived an operator's reset turns a command into a no-op.
EachLatchAnswered ==
  /\ state # "Spoofed" => orders = <<>>
  /\ state = "Spoofed" =>
       \/ pc = "sever" /\ orders = <<>>
       \/ pc = "rtb" /\ orders \in SeverOutcomes
       \/ pc = "idle" /\ orders \in Responses

\* The promise of SpoofResponse is kept, its liveness included.
Response ==
  INSTANCE SpoofResponse WITH
    alarm <- CASE state = "Normal" -> "clear"
               [] state = "Suspicious" -> "raised"
               [] state = "Spoofed" -> "latched",
    response <- IF orders = <<>> THEN "none"
                ELSE IF orders \in SeverOutcomes THEN "severed"
                ELSE "returning"

ImplementsSpoofResponse == Response!Spec
=============================================================================
