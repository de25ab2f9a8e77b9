---------------------------- MODULE RtbReadback ----------------------------
(***************************************************************************)
(* The closed-loop check that the autopilot engaged RTL: engage_rtb, reset *)
(* and verify_rtb_engaged of src/src/mav/controller.rs against the shared  *)
(* monitor of src/src/mav/monitor.rs.                                      *)
(*                                                                         *)
(* Three parties run concurrently: the fusion task, which sends the        *)
(* command, spawns one verify task per latch and may be reset by the       *)
(* operator; the listener, which records heartbeats and acknowledgements;  *)
(* and the verify tasks.  The monitor is a set of separate atomics, so a   *)
(* heartbeat is recorded by several stores and a poll makes several loads, *)
(* which interleave.  Each side is split at the point where a poll can see *)
(* the time of a heartbeat without its mode.  The autopilot is external:   *)
(* any message may arrive.                                                 *)
(***************************************************************************)
EXTENDS Integers, FiniteSets

CONSTANTS
  Alarms,       \* the latches of Spoofed, numbered from 1
  Modes,        \* values of custom_mode
  Mode0,        \* the one the monitor starts with
  RtlModes,     \* those is_rtl_mode accepts
  DwellPolls,   \* RTB_VERIFY_DWELL_POLLS
  Window,       \* RTB_VERIFY_WINDOW
  MaxTime       \* bound of the model: last instant of the clock

ASSUME ReadbackAssumption ==
  /\ IsFiniteSet(Alarms)
  /\ Alarms = 1 .. Cardinality(Alarms)
  /\ Mode0 \in Modes \ RtlModes
  /\ RtlModes \subseteq Modes
  /\ DwellPolls \in Nat \ {0}
  /\ Window \in Nat \ {0}
  /\ MaxTime \in Nat \ {0}

VARIABLES
  now,              \* the clock the monitor and the controller share
  alarm,            \* number of the last latch; 0 before the first
  latched,          \* the detector is Spoofed
  rtb_sent_at,      \* rtb_sent_at_ns, 0 for no send
  hb,               \* last_heartbeat_ns, 0 for none
  mode,             \* current_custom_mode
  armed,            \* SAFETY_ARMED is set in current_base_mode
  mode_changed_at,  \* mode_changed_at_ns
  ack,              \* latest COMMAND_ACK for the RTL command
  recording,        \* the heartbeat the listener is storing
  task,             \* the verify task of each latch
  \* history, not part of the code
  sent,             \* when each latch's command was sent
  heard             \* heartbeats stored since each task took its first look

monitor == <<hb, mode, armed, mode_changed_at, ack, recording>>
vars == <<now, alarm, latched, rtb_sent_at, monitor, task, sent, heard>>

NoAck == [accepted |-> FALSE, at |-> 0]
NoHeartbeat == [at |-> 0, mode |-> Mode0, armed |-> FALSE]
NoTask == [pc |-> "none", sent_at |-> 0, deadline |-> 0, hb_seen |-> 0,
           count |-> 0, ack_ok |-> FALSE, rtl |-> FALSE, causal |-> FALSE,
           verdict |-> "none"]

Init ==
  /\ now = 1
  /\ alarm = 0
  /\ latched = FALSE
  /\ rtb_sent_at = 0
  /\ hb = 0
  /\ mode = Mode0
  /\ armed = FALSE
  /\ mode_changed_at = 0
  /\ ack = NoAck
  /\ recording = NoHeartbeat
  /\ task = [a \in Alarms |-> NoTask]
  /\ sent = [a \in Alarms |-> 0]
  /\ heard = [a \in Alarms |-> 0]

Tick ==
  /\ now < MaxTime
  /\ now' = now + 1
  /\ UNCHANGED <<alarm, latched, rtb_sent_at, monitor, task, sent, heard>>
-----------------------------------------------------------------------------
(***************************************************************************)
(* The fusion task.                                                        *)
(***************************************************************************)

\* Mutant: the send time is not recorded.
EngageRtbUnstamped ==
  /\ ~latched
  /\ alarm + 1 \in Alarms
  /\ alarm' = alarm + 1
  /\ latched' = TRUE
  /\ sent' = [sent EXCEPT ![alarm + 1] = now]
  /\ task' = [task EXCEPT ![alarm + 1].pc = "spawned"]
  /\ UNCHANGED <<now, rtb_sent_at, monitor, heard>>

\* engage_rtb records the send time before the first datagram, and the handler
\* of the latch spawns the verify task when it returns.
EngageRtb ==
  /\ ~latched
  /\ alarm + 1 \in Alarms
  /\ alarm' = alarm + 1
  /\ latched' = TRUE
  /\ rtb_sent_at' = now
  /\ sent' = [sent EXCEPT ![alarm + 1] = now]
  /\ task' = [task EXCEPT ![alarm + 1].pc = "spawned"]
  /\ UNCHANGED <<now, monitor, heard>>

\* reset, called from the operator's reset.
Reset ==
  /\ latched
  /\ latched' = FALSE
  /\ rtb_sent_at' = 0
  /\ UNCHANGED <<now, alarm, monitor, task, sent, heard>>
-----------------------------------------------------------------------------
(***************************************************************************)
(* The listener.  record_heartbeat stores the receipt time, then the mode  *)
(* and the arming flag, then the time of a mode change.  The clock tells   *)
(* two heartbeats, and two acknowledgements, apart.                        *)
(***************************************************************************)
HeartbeatTime(m, arm) ==
  /\ recording = NoHeartbeat
  /\ hb < now
  /\ recording' = [at |-> now, mode |-> m, armed |-> arm]
  /\ hb' = now
  /\ heard' = [a \in Alarms |->
                 IF task[a].pc \notin {"none", "spawned"} /\ heard[a] < DwellPolls
                 THEN heard[a] + 1 ELSE heard[a]]
  /\ UNCHANGED <<now, alarm, latched, rtb_sent_at, mode, armed,
                 mode_changed_at, ack, task, sent>>

HeartbeatMode ==
  /\ recording # NoHeartbeat
  /\ mode' = recording.mode
  /\ armed' = recording.armed
  /\ mode_changed_at' =
       IF recording.mode # mode THEN recording.at ELSE mode_changed_at
  /\ recording' = NoHeartbeat
  /\ UNCHANGED <<now, alarm, latched, rtb_sent_at, hb, ack, task, sent, heard>>

\* record_ack, for the command the controller sends.
RecordAck(accepted) ==
  /\ recording = NoHeartbeat
  /\ ack.at < now
  /\ ack' = [accepted |-> accepted, at |-> now]
  /\ UNCHANGED <<now, alarm, latched, rtb_sent_at, hb, mode, armed,
                 mode_changed_at, recording, task, sent, heard>>
-----------------------------------------------------------------------------
(***************************************************************************)
(* verify_rtb_engaged of latch a.                                          *)
(***************************************************************************)
Update(a, t) ==
  /\ task' = [task EXCEPT ![a] = t]
  /\ UNCHANGED <<now, alarm, latched, rtb_sent_at, monitor, sent, heard>>

\* The end of the window, or of the model's time.
Deadline == IF now + Window <= MaxTime THEN now + Window ELSE MaxTime

\* Mutant: the cached heartbeat counts as a new one.
VerifyBeginUnseeded(a) ==
  /\ task[a].pc = "spawned"
  /\ Update(a, IF rtb_sent_at = 0
               THEN [task[a] EXCEPT !.pc = "done", !.verdict = "unconfirmed"]
               ELSE [task[a] EXCEPT !.pc = "mode", !.sent_at = rtb_sent_at,
                                    !.deadline = Deadline, !.hb_seen = 0])

VerifyBegin(a) ==
  /\ task[a].pc = "spawned"
  /\ Update(a, IF rtb_sent_at = 0
               THEN [task[a] EXCEPT !.pc = "done", !.verdict = "unconfirmed"]
               ELSE [task[a] EXCEPT !.pc = "mode", !.sent_at = rtb_sent_at,
                                    !.deadline = Deadline, !.hb_seen = hb])

\* The loads of the acknowledgement, the mode and its arming flag.
PollMode(a) ==
  /\ task[a].pc = "mode"
  /\ Update(a, [task[a] EXCEPT
                  !.pc = "heartbeat",
                  !.ack_ok = ack.accepted /\ ack.at > task[a].sent_at,
                  !.rtl = mode \in RtlModes,
                  !.causal = /\ mode_changed_at > task[a].sent_at
                             /\ mode \in RtlModes
                             /\ armed])

FreshHeartbeat(a) == hb > task[a].hb_seen

Dwell(a) ==
  IF ~task[a].rtl THEN 0
  ELSE IF FreshHeartbeat(a) /\ task[a].count < DwellPolls THEN task[a].count + 1
  ELSE task[a].count

Confirmed(a) ==
  /\ task[a].ack_ok
  /\ task[a].causal
  /\ Dwell(a) >= DwellPolls

\* The load of the heartbeat time, the dwell counter and the decision.  The
\* loads of a poll are forgotten when it is over, and the next poll follows
\* after a sleep.
PollHeartbeat(a) ==
  /\ task[a].pc = "heartbeat"
  /\ LET polled == [NoTask EXCEPT !.sent_at = task[a].sent_at,
                                  !.deadline = task[a].deadline,
                                  !.hb_seen = hb,
                                  !.count = Dwell(a)]
     IN  Update(a, IF Confirmed(a)
                   THEN [polled EXCEPT !.pc = "done", !.verdict = "confirmed"]
                   ELSE IF now >= task[a].deadline
                   THEN [polled EXCEPT !.pc = "done", !.verdict = "unconfirmed"]
                   ELSE [polled EXCEPT !.pc = "mode"])

Verify(a) == VerifyBegin(a) \/ PollMode(a) \/ PollHeartbeat(a)

Next ==
  \/ Tick
  \/ EngageRtb
  \/ Reset
  \/ \E m \in Modes, arm \in BOOLEAN : HeartbeatTime(m, arm)
  \/ HeartbeatMode
  \/ \E accepted \in BOOLEAN : RecordAck(accepted)
  \/ \E a \in Alarms : Verify(a)

Spec == Init /\ [][Next]_vars
-----------------------------------------------------------------------------
(***************************************************************************)
(* Properties.                                                             *)
(***************************************************************************)
\* RTL is reported as confirmed for a latch only on evidence from after that
\* latch's own command: an acknowledgement, a change of mode and, since the
\* task's first look, as many heartbeats as the dwell asks for.  A mode the
\* autopilot was in before, a cached heartbeat, an earlier latch's answer and
\* an operator's reset in between do not confirm it.
ConfirmedOnLaterEvidence ==
  \A a \in Alarms : task[a].verdict = "confirmed" =>
    /\ ack.at > sent[a]
    /\ mode_changed_at > sent[a]
    /\ heard[a] >= DwellPolls

\* A verify task gives up without looking only when the operator's reset
\* overtook it.
RefusedOnlyAfterReset ==
  \A a \in Alarms : task[a].pc = "done" /\ task[a].sent_at = 0 =>
    ~latched \/ alarm > a
=============================================================================
