--------------------------- MODULE SeverReadback ---------------------------
(***************************************************************************)
(* The closed-loop check that the autopilot disabled GPS: sever_gps, reset *)
(* and verify_sever_engaged of src/src/mav/controller.rs against the map   *)
(* of parameter echoes of src/src/mav/monitor.rs.                          *)
(*                                                                         *)
(* The fusion task, the listener that records PARAM_VALUE messages, and    *)
(* one verify task per latch run concurrently.  The controller's two       *)
(* atomics are stored and loaded one after the other.  The autopilot and   *)
(* the ground stations that read its parameters are external: any echo may *)
(* arrive at any time.                                                     *)
(***************************************************************************)
EXTENDS Integers, FiniteSets

CONSTANTS
  Alarms,       \* the latches of Spoofed, numbered from 1
  SeverParam,   \* the parameter that sever_gps zeroes
  OtherParams,  \* other parameters the autopilot reports
  Capacity,     \* entries the map of echoes holds (64)
  DwellEchoes,  \* SEVER_VERIFY_DWELL_ECHOES
  Window,       \* SEVER_VERIFY_WINDOW
  MaxTime       \* bound of the model: last instant of the clock

ASSUME ReadbackAssumption ==
  /\ IsFiniteSet(Alarms)
  /\ Alarms = 1 .. Cardinality(Alarms)
  /\ SeverParam \notin OtherParams
  /\ Capacity \in Nat \ {0}
  /\ DwellEchoes \in Nat \ {0}
  /\ Window \in Nat \ {0}
  /\ MaxTime \in Nat \ {0}

VARIABLES
  now,                  \* the clock the monitor and the controller share
  alarm,                \* number of the last latch; 0 before the first
  latched,              \* the detector is Spoofed
  sending,              \* where sever_gps is
  sever_sent_at,        \* sever_sent_at_ns, 0 for no send
  sever_echo_baseline,
  params,               \* params_by_name
  task,                 \* the verify task of each latch
  \* history, not part of the code
  sent,                 \* when each latch's PARAM_SET was sent
  echoes,               \* echoes of SeverParam since each latch's baseline
  zeros                 \* those that came after the send, zero, of its type

controller == <<alarm, latched, sending, sever_sent_at, sever_echo_baseline>>
vars == <<now, controller, params, task, sent, echoes, zeros>>

Params == {SeverParam} \cup OtherParams
NoEcho == [disabled |-> FALSE, at |-> 0, count |-> 0]
NoTask == [pc |-> "none", sent_at |-> 0, baseline |-> 0, deadline |-> 0,
           verdict |-> "none"]

Init ==
  /\ now = 0
  /\ alarm = 0
  /\ latched = FALSE
  /\ sending = "no"
  /\ sever_sent_at = 0
  /\ sever_echo_baseline = 0
  /\ params = [p \in Params |-> NoEcho]
  /\ task = [a \in Alarms |-> NoTask]
  /\ sent = [a \in Alarms |-> 0]
  /\ echoes = [a \in Alarms |-> 0]
  /\ zeros = [a \in Alarms |-> 0]

\* The clock counts nanoseconds: what it stamps gets a time of its own.
Stamp == now < MaxTime /\ now' = now + 1

Tick ==
  /\ Stamp
  /\ UNCHANGED <<controller, params, task, sent, echoes, zeros>>
-----------------------------------------------------------------------------
(***************************************************************************)
(* The fusion task.                                                        *)
(***************************************************************************)

\* sever_gps, its first store: the echoes counted so far.
SnapshotBaseline ==
  /\ ~latched
  /\ alarm + 1 \in Alarms
  /\ alarm' = alarm + 1
  /\ latched' = TRUE
  /\ sending' = "baseline"
  /\ sever_echo_baseline' = params[SeverParam].count
  /\ UNCHANGED <<now, sever_sent_at, params, task, sent, echoes, zeros>>

\* Its second store, just before the first datagram.  The handler of the latch
\* spawns the verify task when the send, and engage_rtb, have returned.
SendAndSpawn ==
  /\ sending = "baseline"
  /\ sending' = "no"
  /\ Stamp
  /\ sever_sent_at' = now'
  /\ sent' = [sent EXCEPT ![alarm] = now']
  /\ task' = [task EXCEPT ![alarm].pc = "spawned"]
  /\ UNCHANGED <<alarm, latched, sever_echo_baseline, params, echoes, zeros>>

\* reset, called from the operator's reset.
Reset ==
  /\ latched
  /\ sending = "no"
  /\ latched' = FALSE
  /\ sever_sent_at' = 0
  /\ sever_echo_baseline' = 0
  /\ UNCHANGED <<now, alarm, sending, params, task, sent, echoes, zeros>>
-----------------------------------------------------------------------------
(***************************************************************************)
(* The listener.  record_param_value updates the entry of the parameter,   *)
(* or makes a new one, and when the map has outgrown its capacity removes  *)
(* the entry with the oldest receipt.  disabled: the value is zero and the *)
(* type is the one sever_gps sets.                                         *)
(***************************************************************************)
Held(map) == {p \in Params : map[p].at > 0}

Oldest(map) == {p \in Held(map) : \A q \in Held(map) : map[p].at <= map[q].at}

Recorded(p, echo) ==
  LET map == [params EXCEPT ![p] = echo]
  IN  IF Cardinality(Held(map)) <= Capacity THEN {map}
      ELSE {[map EXCEPT ![q] = NoEcho] : q \in Oldest(map)}

RecordOther(p) ==
  /\ Stamp
  /\ params' \in Recorded(p, [disabled |-> FALSE, at |-> now', count |-> 1])
  /\ UNCHANGED <<controller, task, sent, echoes, zeros>>

Since(a) == alarm >= a /\ task[a].pc # "done"

RecordSever(disabled) ==
  /\ Stamp
  /\ params' \in Recorded(SeverParam,
                          [disabled |-> disabled, at |-> now',
                           count |-> params[SeverParam].count + 1])
  /\ echoes' = [a \in Alarms |->
                  IF Since(a) /\ echoes[a] < DwellEchoes
                  THEN echoes[a] + 1 ELSE echoes[a]]
  /\ zeros' = [a \in Alarms |->
                 IF /\ Since(a) /\ zeros[a] < DwellEchoes
                    /\ disabled /\ sent[a] > 0
                 THEN zeros[a] + 1 ELSE zeros[a]]
  /\ UNCHANGED <<controller, task, sent>>
-----------------------------------------------------------------------------
(***************************************************************************)
(* verify_sever_engaged of latch a.                                        *)
(***************************************************************************)
Update(a, t) ==
  /\ task' = [task EXCEPT ![a] = t]
  /\ UNCHANGED <<now, controller, params, sent, echoes, zeros>>

\* The end of the window, or of the model's time.
Deadline == IF now + Window <= MaxTime THEN now + Window ELSE MaxTime

VerifyBegin(a) ==
  /\ task[a].pc = "spawned"
  /\ Update(a, IF sever_sent_at = 0
               THEN [task[a] EXCEPT !.pc = "done", !.verdict = "unconfirmed"]
               ELSE [task[a] EXCEPT !.pc = "load", !.sent_at = sever_sent_at])

LoadBaseline(a) ==
  /\ task[a].pc = "load"
  /\ Update(a, [task[a] EXCEPT !.pc = "poll", !.deadline = Deadline,
                               !.baseline = sever_echo_baseline])

\* Mutant: an echo of any age will do.
SeverEchoConfirmsAnyTime(a) ==
  LET echo == params[SeverParam]
  IN  /\ echo.disabled
      /\ echo.count - task[a].baseline >= DwellEchoes

\* Mutant: one echo too few.
SeverEchoConfirmsEarly(a) ==
  LET echo == params[SeverParam]
  IN  /\ echo.at > task[a].sent_at
      /\ echo.disabled
      /\ echo.count - task[a].baseline >= DwellEchoes - 1

\* sever_echo_confirms.
SeverEchoConfirms(a) ==
  LET echo == params[SeverParam]
  IN  /\ echo.at > task[a].sent_at
      /\ echo.disabled
      /\ echo.count - task[a].baseline >= DwellEchoes

\* Mutant: no deadline.
PollForever(a) ==
  /\ task[a].pc = "poll"
  /\ SeverEchoConfirms(a)
  /\ Update(a, [task[a] EXCEPT !.pc = "done", !.verdict = "confirmed"])

Poll(a) ==
  /\ task[a].pc = "poll"
  /\ \/ /\ SeverEchoConfirms(a)
        /\ Update(a, [task[a] EXCEPT !.pc = "done", !.verdict = "confirmed"])
     \/ /\ ~SeverEchoConfirms(a)
        /\ now >= task[a].deadline
        /\ Update(a, [task[a] EXCEPT !.pc = "done", !.verdict = "unconfirmed"])

Verify(a) == VerifyBegin(a) \/ LoadBaseline(a) \/ Poll(a)

Next ==
  \/ Tick
  \/ SnapshotBaseline
  \/ SendAndSpawn
  \/ Reset
  \/ \E p \in OtherParams : RecordOther(p)
  \/ \E disabled \in BOOLEAN : RecordSever(disabled)
  \/ \E a \in Alarms : Verify(a)

\* A spawned task is polled until it returns, and time passes.
Spec ==
  /\ Init
  /\ [][Next]_vars
  /\ WF_vars(Tick)
  /\ \A a \in Alarms : WF_vars(Verify(a))
-----------------------------------------------------------------------------
(***************************************************************************)
(* Properties.                                                             *)
(***************************************************************************)

\* A sever is confirmed only when the autopilot echoed a zero of the right type
\* after that latch's own PARAM_SET, whatever echoes, resets and later latches
\* came in between.
ConfirmedByLaterZero ==
  \A a \in Alarms : task[a].verdict = "confirmed" => zeros[a] > 0

\* While the latch stands, a confirmation also means that the full number of
\* echoes arrived since the count was taken: losing the entry to the map's
\* capacity, and counting again from one, never makes up for a missing echo.
ConfirmedByDwell ==
  \A a \in Alarms :
    task[a].verdict = "confirmed" /\ latched /\ alarm = a =>
      echoes[a] >= DwellEchoes

\* Every verify task returns, so an unconfirmed sever is always reported.
VerifyReturns == \A a \in Alarms : task[a].pc = "spawned" ~> task[a].pc = "done"
=============================================================================
