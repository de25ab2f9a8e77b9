---------------------------- MODULE OperatorView ----------------------------
(***************************************************************************)
(* What the operator gets to see, from the autopilot's heartbeat to the    *)
(* dashboard: the listener's stores into the monitor                       *)
(* (src/src/mav/monitor.rs), the heartbeat watchdog that polls them        *)
(* (src/src/mav/mod.rs), the detector's transitions, the bounded broadcast *)
(* channel and the task that logs its events (src/src/runtime.rs,          *)
(* src/src/mav/controller.rs, src/src/action/console.rs), the log file,    *)
(* and the dashboard that follows it (src/watch/src/main.rs), a process of *)
(* its own.                                                                *)
(*                                                                         *)
(* The monitor is a set of separate atomics: a heartbeat is several stores *)
(* and a poll several loads.  An event goes to the file in two writes, the *)
(* line and its end, either of which may fail.  The dashboard is one that  *)
(* began at the start of the log; of its snapshot the fields the           *)
(* properties speak of are kept, and the list of events it draws is left   *)
(* out.  The autopilot is external.  Time is an integer number of ticks.   *)
(***************************************************************************)
EXTENDS Integers, Sequences, SequencesExt

CONSTANTS
  States,         \* states a transition may enter
  Modes,          \* values of custom_mode
  Mode0,          \* the one the monitor starts with
  Staleness,      \* the staleness threshold of the watchdog
  BusCap,         \* capacity of the broadcast channel
  Nothing,        \* Option::None
  LastHeartbeat,  \* bound of the model: no heartbeat is received after this
  LastTick,       \* bound of the model: last instant of the clock
  MaxTransitions, \* bound of the model: transitions of the detector
  MaxFailures     \* bound of the model: writes to the log that fail

\* The kinds of event that are told apart, and the fields the dashboard looks at.
EventKinds == {"LinkRestored", "LinkDown", "PilotModeChange", "StateTransition"}
Events == [kind : EventKinds, state : States \cup {"Normal"},
           mode : Modes \cup {Nothing}]

\* The clock runs long enough for a silence to be seen, and Nothing is neither
\* an event nor a heartbeat.
ASSUME ViewAssumption ==
  /\ Mode0 \in Modes
  /\ Staleness \in Nat
  /\ BusCap \in Nat \ {0}
  /\ LastHeartbeat \in Nat
  /\ LastTick \in Nat
  /\ LastTick > LastHeartbeat + Staleness
  /\ MaxTransitions \in Nat
  /\ MaxFailures \in Nat
  /\ Nothing \notin Events
  /\ Nothing \notin [at : Nat, changed : BOOLEAN]

VARIABLES
  now,
  last_heartbeat,    \* last_heartbeat_ns
  heartbeat_ever,
  mode,              \* current_custom_mode
  mode_changed_at,   \* mode_changed_at_ns
  recording,         \* the heartbeat whose last stores are still to come
  watchdog,          \* the locals of the watchdog task, and where it is
  transitions,       \* transitions the detector made
  events,            \* those in the channel that the action task has not taken
  logging,           \* the event whose line is written and not yet ended
  file,              \* what the log holds that the dashboard has not read
  snap,              \* the dashboard's Snapshot
  \* history, not part of the code
  first_mode,        \* the mode given with the first LinkRestored
  alarms,            \* transitions into Spoofed
  lagged,            \* the channel overwrote an event
  unwritten,         \* events whose line was not written, or not whole
  unended            \* lines whose end was not written

monitor == <<last_heartbeat, heartbeat_ever, mode, mode_changed_at>>
detected == <<transitions, alarms>>
channel == <<events, lagged>>
log == <<logging, file, unwritten, unended>>
viewVars == <<now, monitor, recording, watchdog, first_mode, detected, channel,
              log, snap>>

ViewInit ==
  /\ now = 1
  /\ last_heartbeat = 0
  /\ heartbeat_ever = FALSE
  /\ mode = Mode0
  /\ mode_changed_at = 0
  /\ recording = Nothing
  /\ watchdog = [pc |-> "idle", seen |-> FALSE, up |-> FALSE,
                 mode_change |-> 0]
  /\ transitions = 0
  /\ events = <<>>
  /\ logging = Nothing
  /\ file = <<>>
  /\ snap = [link |-> Nothing, mode |-> Nothing, spoofed |-> 0,
             parse_errors |-> 0]
  /\ first_mode = Nothing
  /\ alarms = 0
  /\ lagged = FALSE
  /\ unwritten = 0
  /\ unended = 0

ViewTick ==
  /\ now < LastTick
  /\ now' = now + 1
  /\ UNCHANGED <<monitor, recording, watchdog, first_mode, detected, channel,
                 log, snap>>

(***************************************************************************)
(* The broadcast channel: a full one overwrites its oldest event, and the  *)
(* action task is told how many it missed.                                 *)
(***************************************************************************)
Send(e) ==
  IF Len(events) < BusCap
  THEN events' = Append(events, e) /\ UNCHANGED lagged
  ELSE events' = Append(Tail(events), e) /\ lagged' = TRUE

\* The dashboard takes no mode from a link event.
LinkEvent(up) ==
  [kind |-> IF up THEN "LinkRestored" ELSE "LinkDown", state |-> "Normal",
   mode |-> Nothing]
ModeEvent == [kind |-> "PilotModeChange", state |-> "Normal", mode |-> mode]
TransitionEvent(s) ==
  [kind |-> "StateTransition", state |-> s, mode |-> Nothing]
-----------------------------------------------------------------------------
(***************************************************************************)
(* record_heartbeat.  A poll may fall between the store of the mode and    *)
(* that of the time at which it changed; the earlier stores, which a poll  *)
(* does not compare with each other, are one step.                         *)
(***************************************************************************)
HeartbeatMode(m) ==
  /\ recording = Nothing
  /\ now \in last_heartbeat + 1 .. LastHeartbeat
  /\ last_heartbeat' = now
  /\ mode' = m
  /\ recording' = [at |-> now, changed |-> m # mode]
  /\ UNCHANGED <<now, heartbeat_ever, mode_changed_at, watchdog, first_mode,
                 detected, channel, log, snap>>

\* The time is that of the receipt.
HeartbeatChange ==
  /\ recording # Nothing
  /\ recording' = Nothing
  /\ mode_changed_at' = IF recording.changed THEN recording.at
                        ELSE mode_changed_at
  /\ heartbeat_ever' = TRUE
  /\ UNCHANGED <<now, last_heartbeat, mode, watchdog, first_mode, detected,
                 channel, log, snap>>
-----------------------------------------------------------------------------
(***************************************************************************)
(* The watchdog.                                                           *)
(***************************************************************************)
\* heartbeat_fresh.  Its difference saturates at zero, so a heartbeat stored
\* after the poll took its time counts as one stored before.
HeartbeatFresh == heartbeat_ever /\ now - last_heartbeat <= Staleness

\* Mutant: a restored link is not remembered, so its next silence is no edge.
PollOneEdge ==
  LET up == HeartbeatFresh
  IN  /\ watchdog.pc = "idle"
      /\ watchdog' =
           [watchdog EXCEPT
              !.pc = IF watchdog.seen \/ up THEN "change" ELSE "idle",
              !.up = FALSE]
      /\ IF watchdog.seen /\ up # watchdog.up
         THEN Send(LinkEvent(up)) ELSE UNCHANGED channel
      /\ UNCHANGED <<now, monitor, recording, first_mode, detected, log, snap>>

\* Until the first heartbeat a silent link is no news; later an edge is.
Poll ==
  LET up == HeartbeatFresh
  IN  /\ watchdog.pc = "idle"
      /\ watchdog' =
           [watchdog EXCEPT
              !.pc = IF watchdog.seen \/ up THEN "change" ELSE "idle",
              !.up = up]
      /\ IF watchdog.seen /\ up # watchdog.up
         THEN Send(LinkEvent(up)) ELSE UNCHANGED channel
      /\ UNCHANGED <<now, monitor, recording, first_mode, detected, log, snap>>

\* Mutant: the change is remembered by the time of the poll.
PollChangeByPoll ==
  /\ watchdog.pc = "change"
  /\ watchdog' =
       IF watchdog.seen /\ mode_changed_at <= watchdog.mode_change
       THEN [watchdog EXCEPT !.pc = "idle"]
       ELSE [watchdog EXCEPT
               !.pc = IF watchdog.seen THEN "mode" ELSE "first",
               !.mode_change = now]
  /\ UNCHANGED <<now, monitor, recording, first_mode, detected, channel, log,
                 snap>>

PollChange ==
  /\ watchdog.pc = "change"
  /\ watchdog' =
       IF watchdog.seen /\ mode_changed_at <= watchdog.mode_change
       THEN [watchdog EXCEPT !.pc = "idle"]
       ELSE [watchdog EXCEPT
               !.pc = IF watchdog.seen THEN "mode" ELSE "first",
               !.mode_change = mode_changed_at]
  /\ UNCHANGED <<now, monitor, recording, first_mode, detected, channel, log,
                 snap>>

\* The first heartbeat is reported as a restored link.
PollFirst ==
  /\ watchdog.pc = "first"
  /\ watchdog' = [watchdog EXCEPT !.pc = "idle", !.seen = TRUE]
  /\ first_mode' = mode
  /\ Send(LinkEvent(TRUE))
  /\ UNCHANGED <<now, monitor, recording, detected, log, snap>>

PollMode ==
  /\ watchdog.pc = "mode"
  /\ watchdog' = [watchdog EXCEPT !.pc = "idle"]
  /\ Send(ModeEvent)
  /\ UNCHANGED <<now, monitor, recording, first_mode, detected, log, snap>>
-----------------------------------------------------------------------------
\* A transition of the detector; which may follow which is in Detector.
Transition(s) ==
  /\ transitions < MaxTransitions
  /\ transitions' = transitions + 1
  /\ alarms' = IF s = "Spoofed" THEN alarms + 1 ELSE alarms
  /\ Send(TransitionEvent(s))
  /\ UNCHANGED <<now, monitor, recording, watchdog, first_mode, log, snap>>
-----------------------------------------------------------------------------
(***************************************************************************)
(* on_event of the controllers.  The file is a sequence of pieces: whole   *)
(* lines, torn ones, and line ends.                                        *)
(***************************************************************************)
LineEnd == [kind |-> "end", state |-> Nothing, mode |-> Nothing]
Torn == [kind |-> "torn", state |-> Nothing, mode |-> Nothing]

MayFail == unwritten + unended < MaxFailures

TakeEvent ==
  /\ logging = Nothing
  /\ events # <<>>
  /\ events' = Tail(events)

WriteLine ==
  /\ TakeEvent
  /\ logging' = Head(events)
  /\ file' = Append(file, Head(events))
  /\ UNCHANGED <<now, monitor, recording, watchdog, first_mode, detected,
                 lagged, unwritten, unended, snap>>

\* The line does not get into the file, or not whole.  The MAVLink controller
\* does not try its end then, the console controller does.
WriteLineFails ==
  /\ TakeEvent
  /\ MayFail
  /\ logging' \in {logging, Head(events)}
  /\ unwritten' = unwritten + 1
  /\ file' \in {file, Append(file, Torn)}
  /\ UNCHANGED <<now, monitor, recording, watchdog, first_mode, detected,
                 lagged, unended, snap>>

WriteEnd ==
  /\ logging # Nothing
  /\ logging' = Nothing
  /\ file' = Append(file, LineEnd)
  /\ UNCHANGED <<now, monitor, recording, watchdog, first_mode, detected,
                 channel, unwritten, unended, snap>>

WriteEndFails ==
  /\ logging # Nothing
  /\ MayFail
  /\ logging' = Nothing
  /\ unended' = unended + 1
  /\ UNCHANGED <<now, monitor, recording, watchdog, first_mode, detected,
                 channel, file, unwritten, snap>>
-----------------------------------------------------------------------------
(***************************************************************************)
(* The dashboard.                                                          *)
(***************************************************************************)
IsAlarm(p) == p.kind = "StateTransition" /\ p.state = "Spoofed"

\* read_line returns what there is up to the next line end, or to the end of
\* the file.
NextEnd == SelectInSeq(file, LAMBDA p : p = LineEnd)
Line == IF NextEnd = 0 THEN file ELSE SubSeq(file, 1, NextEnd - 1)
Unread == IF NextEnd = 0 THEN <<>> ELSE SubSeq(file, NextEnd + 1, Len(file))

Parses == Len(Line) = 1 /\ Line[1] # Torn

\* apply_to_snapshot.
Applied(e) ==
  [snap EXCEPT
     !.link = CASE e.kind = "LinkRestored" -> "Up"
                [] e.kind = "LinkDown" -> "Down"
                [] OTHER -> @,
     !.mode = IF e.kind = "PilotModeChange" THEN e.mode ELSE @,
     !.spoofed = IF IsAlarm(e) THEN @ + 1 ELSE @]

\* Mutant: a line that does not parse is dropped without a trace.
UnparsedDropped == snap

Unparsed == [snap EXCEPT !.parse_errors = @ + 1]

ReadLine ==
  /\ file # <<>>
  /\ file' = Unread
  /\ snap' = IF Line = <<>> THEN snap
             ELSE IF Parses THEN Applied(Line[1])
             ELSE Unparsed
  /\ UNCHANGED <<now, monitor, recording, watchdog, first_mode, detected,
                 channel, logging, unwritten, unended>>
-----------------------------------------------------------------------------
Watchdog == Poll \/ PollChange \/ PollFirst \/ PollMode
Logger == WriteLine \/ WriteLineFails \/ WriteEnd \/ WriteEndFails

ViewNext ==
  \/ ViewTick
  \/ \E m \in Modes : HeartbeatMode(m)
  \/ HeartbeatChange
  \/ Watchdog
  \/ \E s \in States : Transition(s)
  \/ Logger
  \/ ReadLine

\* Time passes, a heartbeat once begun is stored, the watchdog's ticker fires,
\* the action task serves its channel, and the dashboard polls the log.
\* Nothing is assumed of the autopilot or of the operator.
ViewFairness ==
  /\ WF_viewVars(ViewTick)
  /\ WF_viewVars(HeartbeatChange)
  /\ WF_viewVars(Watchdog)
  /\ WF_viewVars(Logger)
  /\ WF_viewVars(ReadLine)

ViewSpec == ViewInit /\ [][ViewNext]_viewVars /\ ViewFairness
-----------------------------------------------------------------------------
(***************************************************************************)
(* Properties.                                                             *)
(***************************************************************************)

\* Every event since the start has reached the dashboard, or will reach it.
Undisturbed == ~lagged /\ unwritten = 0 /\ unended = 0

\* A link that has been up is shown as down in the end once it is silent for
\* good, whatever edges came before and however the listener's stores fell
\* between the watchdog's loads (mav/mod.rs:404-421), provided no event was
\* lost on the way.
LinkShown ==
  <>[](watchdog.seen /\ Undisturbed => snap.link = "Down")

\* The mode shown in the end is the autopilot's: no change of mode falls
\* between two loads of a poll (mav/mod.rs:428-432), and no older event is
\* applied after a newer one.  None is shown as long as the mode is the one
\* the link came up with.
ModeShown ==
  <>[](watchdog.seen /\ Undisturbed =>
         \/ snap.mode = mode
         \/ snap.mode = Nothing /\ first_mode = mode)

\* An alarm that is in neither the channel nor the log is counted on the
\* display, or its loss shows: as a parse error in the header, also when the
\* end of a line failed and two events share a line, or as the report of a
\* failed write or of a lagging subscriber (runtime.rs:177-181,
\* watch/src/main.rs:157-166; only the MAVLink controller reports the write).
AlarmsAccountedFor ==
  /\ events = <<>>
  /\ file = <<>>
  /\ snap.spoofed < alarms
  => snap.parse_errors > 0 \/ unwritten > 0 \/ lagged
=============================================================================
