----------------------------- MODULE MavProofs ------------------------------
(***************************************************************************)
(* Proofs about the return-to-base read-back and about the listener, for   *)
(* any number of latches, any modes, dwells and windows, any set of        *)
(* packets, and every interleaving of the loads of the verify tasks with   *)
(* the stores of the listener and of the fusion task.                      *)
(***************************************************************************)
EXTENDS RtbReadback, MavListener, FiniteSetTheorems, TLAPS

(***************************************************************************)
(* RtbReadback: the inductive invariant.                                   *)
(***************************************************************************)
TaskType ==
  [pc : {"none", "spawned", "mode", "heartbeat", "done"},
   sent_at : Nat, deadline : Nat, hb_seen : Nat, count : Nat,
   ack_ok : BOOLEAN, rtl : BOOLEAN, causal : BOOLEAN,
   verdict : {"none", "confirmed", "unconfirmed"}]

ReadbackTypeOK ==
  /\ now \in Nat \ {0}
  /\ alarm \in Nat
  /\ rtb_sent_at \in Nat
  /\ hb \in Nat
  /\ mode_changed_at \in Nat
  /\ ack \in [accepted : BOOLEAN, at : Nat]
  /\ recording \in [at : Nat, mode : Modes, armed : BOOLEAN]
  /\ sent \in [Alarms -> Nat]
  /\ heard \in [Alarms -> Nat]
  /\ task \in [Alarms -> TaskType]

\* A change of mode is stamped with the heartbeat that brought it, which is not
\* older than the changes before it.
StampsInOrder ==
  /\ hb <= now
  /\ recording.at <= hb
  /\ mode_changed_at <= hb
  /\ recording # NoHeartbeat => mode_changed_at <= recording.at

\* The send time the controller keeps is the last one, and a standing latch has
\* one.
LastSend ==
  /\ latched => rtb_sent_at # 0
  /\ \A a \in Alarms : sent[a] <= now
  /\ rtb_sent_at # 0 => \A a \in Alarms : sent[a] <= rtb_sent_at

\* A heartbeat the next look at the monitor will find to be new.
Unseen(t) == IF hb > t.hb_seen THEN 1 ELSE 0

\* What a task that looks at the monitor has in hand.  Its send time may be
\* that of a later latch, never of an earlier one; its counter, with the
\* heartbeat it has not seen yet, is covered by heartbeats; and what it loaded
\* in the first half of a poll was evidence then and is now.
Polling(a) ==
  task[a].pc \in {"mode", "heartbeat"} =>
    /\ task[a].verdict = "none"
    /\ task[a].sent_at > 0
    /\ task[a].sent_at >= sent[a]
    /\ task[a].hb_seen <= hb
    /\ heard[a] >= DwellPolls \/ heard[a] >= task[a].count + Unseen(task[a])

Loaded(a) ==
  task[a].pc = "heartbeat" =>
    /\ task[a].ack_ok => ack.at > sent[a]
    /\ task[a].causal => mode_changed_at > sent[a]

\* A task that has not looked yet knows nothing, and a verdict is the end.
Unstarted(a) ==
  /\ a > alarm => task[a].pc = "none"
  /\ task[a].pc \in {"none", "spawned"} =>
       task[a].verdict = "none" /\ task[a].count = 0 /\ task[a].sent_at = 0

Evidence(a) ==
  task[a].verdict = "confirmed" =>
    /\ ack.at > sent[a]
    /\ mode_changed_at > sent[a]
    /\ heard[a] >= DwellPolls

Refusal(a) ==
  task[a].pc = "done" /\ task[a].sent_at = 0 => ~latched \/ alarm > a

AlarmInv(a) ==
  Polling(a) /\ Loaded(a) /\ Unstarted(a) /\ Evidence(a) /\ Refusal(a)

ReadbackInv ==
  /\ ReadbackTypeOK
  /\ StampsInOrder
  /\ LastSend
  /\ \A a \in Alarms : AlarmInv(a)

(***************************************************************************)
(* RtbReadback: facts about the operators.                                 *)
(***************************************************************************)
\* The latches are numbered.
LEMMA AlarmsAreNumbers == Alarms \subseteq Nat
<1>1. Cardinality(Alarms) \in Nat
  BY ReadbackAssumption, FS_CardinalityType
<1> QED BY <1>1, ReadbackAssumption

\* The records of the module.
LEMMA RecordTypes ==
  /\ NoTask \in TaskType
  /\ NoAck \in [accepted : BOOLEAN, at : Nat]
  /\ NoHeartbeat \in [at : Nat, mode : Modes, armed : BOOLEAN]
BY ReadbackAssumption DEF NoTask, TaskType, NoAck, NoHeartbeat

\* Evidence does not go away: what a task holds stays true while the monitor
\* moves on and the task and its send stand.
LEMMA EvidenceStays ==
  ASSUME ReadbackTypeOK, ReadbackTypeOK', NEW a \in Alarms, AlarmInv(a),
         UNCHANGED <<task, alarm, hb>>, sent'[a] = sent[a],
         latched' => latched,
         ack'.at >= ack.at, mode_changed_at' >= mode_changed_at,
         heard'[a] >= heard[a]
  PROVE  AlarmInv(a)'
<1> USE ReadbackAssumption DEF ReadbackTypeOK
<1>0. /\ sent[a] \in Nat /\ heard[a] \in Nat /\ heard'[a] \in Nat
      /\ ack.at \in Nat /\ ack'.at \in Nat
      /\ mode_changed_at \in Nat /\ mode_changed_at' \in Nat
      /\ task[a].count \in Nat /\ Unseen(task[a]) \in Nat
  BY DEF TaskType, Unseen
<1>1. Unseen(task[a])' = Unseen(task[a])
  BY DEF Unseen
<1>2. Polling(a)'
  BY <1>0, <1>1 DEF AlarmInv, Polling
<1>3. Loaded(a)'
  BY <1>0 DEF AlarmInv, Loaded
<1>4. Unstarted(a)'
  BY DEF AlarmInv, Unstarted
<1>5. Evidence(a)'
  BY <1>0 DEF AlarmInv, Evidence
<1>6. Refusal(a)'
  BY DEF AlarmInv, Refusal
<1> QED BY <1>2, <1>3, <1>4, <1>5, <1>6 DEF AlarmInv

(***************************************************************************)
(* RtbReadback: the steps of a verify task.                                *)
(***************************************************************************)
\* What the three steps make of the task's record.
LEMMA VerifyRecord ==
  ASSUME ReadbackTypeOK, StampsInOrder, LastSend,
         NEW a \in Alarms, AlarmInv(a), Verify(a)
  PROVE  /\ task' = [task EXCEPT ![a] = task'[a]]
         /\ UNCHANGED <<now, alarm, latched, rtb_sent_at, monitor, sent, heard>>
         /\ task'[a] \in TaskType
         /\ AlarmInv(a)'
<1> USE ReadbackAssumption DEF ReadbackTypeOK
<1>0. /\ task[a] \in TaskType /\ a \in Nat
      /\ sent[a] \in Nat /\ heard[a] \in Nat /\ ack.at \in Nat
  BY AlarmsAreNumbers
<1>1. ASSUME NEW t \in TaskType, Update(a, t)
      PROVE  /\ task'[a] = t
             /\ task' = [task EXCEPT ![a] = task'[a]]
             /\ UNCHANGED <<now, alarm, latched, rtb_sent_at, sent, heard>>
             /\ UNCHANGED <<hb, mode, armed, mode_changed_at, ack, recording>>
  BY <1>1 DEF Update, monitor
<1>2. Deadline \in Nat
  BY DEF Deadline
<1>3. CASE VerifyBegin(a)
  <2>1. task[a].pc = "spawned" /\ task[a].verdict = "none"
        /\ task[a].count = 0 /\ task[a].sent_at = 0 /\ ~(a > alarm)
    BY <1>3 DEF VerifyBegin, AlarmInv, Unstarted
  <2>2. CASE rtb_sent_at = 0
    <3> DEFINE t == [task[a] EXCEPT !.pc = "done", !.verdict = "unconfirmed"]
    <3>1. t \in TaskType /\ t.pc = "done" /\ t.verdict = "unconfirmed"
      BY <1>0 DEF TaskType
    <3>2. Update(a, t)
      BY <1>3, <2>2 DEF VerifyBegin
    <3> HIDE DEF t
    <3>3. /\ task'[a] = t /\ ~latched'
          /\ task' = [task EXCEPT ![a] = task'[a]]
          /\ UNCHANGED <<now, alarm, latched, rtb_sent_at, monitor, sent, heard>>
      BY <1>1, <2>2, <3>1, <3>2 DEF LastSend, monitor
    <3>4. AlarmInv(a)'
      BY <2>1, <3>1, <3>3
      DEF AlarmInv, Polling, Loaded, Unstarted, Evidence, Refusal
    <3> QED BY <3>1, <3>3, <3>4
  <2>3. CASE rtb_sent_at # 0
    <3> DEFINE t == [task[a] EXCEPT !.pc = "mode", !.sent_at = rtb_sent_at,
                                    !.deadline = Deadline, !.hb_seen = hb]
    <3>1. /\ t \in TaskType /\ t.pc = "mode" /\ t.verdict = "none"
          /\ t.sent_at = rtb_sent_at /\ t.hb_seen = hb /\ t.count = 0
      BY <1>0, <1>2, <2>1 DEF TaskType
    <3>2. Update(a, t)
      BY <1>3, <2>3 DEF VerifyBegin
    <3> HIDE DEF t
    <3>3. /\ task'[a] = t /\ sent[a] <= rtb_sent_at
          /\ task' = [task EXCEPT ![a] = task'[a]]
          /\ UNCHANGED <<now, alarm, latched, rtb_sent_at, monitor, sent, heard>>
      BY <1>1, <2>3, <3>1, <3>2 DEF LastSend, monitor
    <3>4. Polling(a)'
      BY <1>0, <2>3, <3>1, <3>3 DEF Polling, Unseen, monitor
    <3>5. Loaded(a)' /\ Unstarted(a)' /\ Evidence(a)' /\ Refusal(a)'
      BY <2>1, <3>1, <3>3 DEF Loaded, Unstarted, Evidence, Refusal
    <3> QED BY <3>1, <3>3, <3>4, <3>5 DEF AlarmInv
  <2> QED BY <2>2, <2>3
<1>4. CASE PollMode(a)
  <2> DEFINE ok == ack.accepted /\ ack.at > task[a].sent_at
             causal == /\ mode_changed_at > task[a].sent_at
                       /\ mode \in RtlModes
                       /\ armed
             rtl == mode \in RtlModes
             t == [task[a] EXCEPT !.pc = "heartbeat", !.ack_ok = ok,
                                  !.rtl = rtl, !.causal = causal]
  <2>1. Update(a, t) /\ task[a].pc = "mode"
    BY <1>4 DEF PollMode
  <2>2. ok \in BOOLEAN /\ causal \in BOOLEAN /\ rtl \in BOOLEAN
    <3>1. rtl \in BOOLEAN
      OBVIOUS
    <3>2. ok \in BOOLEAN /\ causal \in BOOLEAN
      BY Zenon
    <3> QED BY <3>1, <3>2
  <2>3. /\ ok => ack.at > task[a].sent_at
        /\ causal => mode_changed_at > task[a].sent_at
    OBVIOUS
  <2> HIDE DEF ok, causal, rtl
  <2>4. /\ t \in TaskType /\ t.pc = "heartbeat" /\ t.verdict = task[a].verdict
        /\ t.sent_at = task[a].sent_at /\ t.hb_seen = task[a].hb_seen
        /\ t.count = task[a].count /\ t.ack_ok = ok /\ t.causal = causal
    BY <1>0, <2>2 DEF TaskType
  <2> HIDE DEF t
  <2>5. /\ task'[a] = t
        /\ task' = [task EXCEPT ![a] = task'[a]]
        /\ UNCHANGED <<now, alarm, latched, rtb_sent_at, sent, heard>>
        /\ UNCHANGED <<hb, mode, armed, mode_changed_at, ack, recording>>
    BY <1>1, <2>1, <2>4
  <2>6. Polling(a)'
    BY <2>1, <2>4, <2>5 DEF AlarmInv, Polling, Unseen
  <2>7. task[a].sent_at >= sent[a] /\ task[a].sent_at \in Nat
    BY <1>0, <2>1 DEF AlarmInv, Polling, TaskType
  <2>8. Loaded(a)'
    BY <1>0, <2>3, <2>4, <2>5, <2>7 DEF Loaded
  <2>9. Unstarted(a)' /\ Evidence(a)' /\ Refusal(a)'
    BY <2>1, <2>4, <2>5 DEF AlarmInv, Polling, Unstarted, Evidence, Refusal
  <2> QED BY <2>4, <2>5, <2>6, <2>8, <2>9 DEF AlarmInv, monitor
<1>5. CASE PollHeartbeat(a)
  <2> DEFINE polled == [NoTask EXCEPT !.sent_at = task[a].sent_at,
                                      !.deadline = task[a].deadline,
                                      !.hb_seen = hb,
                                      !.count = Dwell(a)]
             t == IF Confirmed(a)
                  THEN [polled EXCEPT !.pc = "done", !.verdict = "confirmed"]
                  ELSE IF now >= task[a].deadline
                  THEN [polled EXCEPT !.pc = "done", !.verdict = "unconfirmed"]
                  ELSE [polled EXCEPT !.pc = "mode"]
  <2>1. Update(a, t) /\ task[a].pc = "heartbeat"
    BY <1>5 DEF PollHeartbeat
  <2>2. /\ Dwell(a) \in Nat
        /\ heard[a] >= DwellPolls \/ heard[a] >= Dwell(a)
    <3>1. task[a].count \in Nat /\ task[a].hb_seen \in Nat /\ heard[a] \in Nat
          /\ task[a].rtl \in BOOLEAN
      BY <1>0 DEF TaskType
    <3>2. \/ heard[a] >= DwellPolls
          \/ heard[a] >= task[a].count + (IF hb > task[a].hb_seen THEN 1 ELSE 0)
      BY <2>1 DEF AlarmInv, Polling, Unseen
    <3> QED BY <3>1, <3>2 DEF Dwell, FreshHeartbeat
  <2>3. polled \in TaskType /\ polled.sent_at = task[a].sent_at
        /\ polled.hb_seen = hb /\ polled.count = Dwell(a)
        /\ polled.verdict = "none"
    BY <1>0, <2>2, RecordTypes DEF TaskType, NoTask
  <2> HIDE DEF polled
  <2>4. /\ t \in TaskType /\ t.pc \in {"done", "mode"}
        /\ t.sent_at = task[a].sent_at /\ t.hb_seen = hb /\ t.count = Dwell(a)
        /\ t.pc = "mode" => t.verdict = "none"
        /\ t.verdict = "confirmed" => Confirmed(a)
    BY <2>3 DEF TaskType
  <2> HIDE DEF t
  <2>5. /\ task'[a] = t
        /\ task' = [task EXCEPT ![a] = task'[a]]
        /\ UNCHANGED <<now, alarm, latched, rtb_sent_at, sent, heard>>
        /\ UNCHANGED <<hb, mode, armed, mode_changed_at, ack, recording>>
    BY <1>1, <2>1, <2>4
  <2>6. task[a].sent_at > 0 /\ task[a].sent_at >= sent[a]
    BY <2>1 DEF AlarmInv, Polling
  <2>7. Polling(a)'
    BY <1>0, <2>2, <2>4, <2>5, <2>6 DEF Polling, Unseen
  <2>8. Loaded(a)' /\ Unstarted(a)'
    BY <2>1, <2>4, <2>5 DEF AlarmInv, Loaded, Unstarted
  <2>9. Evidence(a)'
    <3>1. Confirmed(a) => ack.at > sent[a] /\ mode_changed_at > sent[a]
                            /\ Dwell(a) >= DwellPolls
      BY <2>1 DEF Confirmed, AlarmInv, Loaded
    <3> QED BY <1>0, <2>2, <2>4, <2>5, <3>1 DEF Evidence
  <2>10. Refusal(a)'
    BY <1>0, <2>4, <2>5, <2>6 DEF Refusal, TaskType
  <2> QED BY <2>4, <2>5, <2>7, <2>8, <2>9, <2>10 DEF AlarmInv, monitor
<1> QED BY <1>3, <1>4, <1>5 DEF Verify

(***************************************************************************)
(* RtbReadback: the steps of the others.                                   *)
(***************************************************************************)
\* A step of a verify task.
LEMMA VerifyStep ==
  ASSUME ReadbackInv, NEW a \in Alarms, Verify(a)
  PROVE  ReadbackInv'
<1> USE DEF ReadbackInv
<1>1. /\ task' = [task EXCEPT ![a] = task'[a]]
      /\ UNCHANGED <<now, alarm, latched, rtb_sent_at, sent, heard>>
      /\ UNCHANGED <<hb, mode_changed_at, ack, recording>>
      /\ task'[a] \in TaskType
      /\ AlarmInv(a)'
  BY VerifyRecord DEF monitor
<1>2. ReadbackTypeOK'
  BY <1>1 DEF ReadbackTypeOK
<1>3. StampsInOrder' /\ LastSend'
  BY <1>1 DEF StampsInOrder, LastSend
<1>4. ASSUME NEW b \in Alarms
      PROVE  AlarmInv(b)'
  <2>1. CASE b = a
    BY <1>1, <2>1
  <2>2. CASE b # a
    <3>1. task'[b] = task[b]
      BY <1>1, <2>2 DEF ReadbackTypeOK
    <3> QED BY <1>1, <3>1 DEF AlarmInv, Polling, Unseen, Loaded, Unstarted,
       Evidence, Refusal
  <2> QED BY <2>1, <2>2
<1> QED BY <1>2, <1>3, <1>4

\* A new latch: its command is the last, and its task knows nothing.
LEMMA EngageStep ==
  ASSUME ReadbackInv, EngageRtb
  PROVE  ReadbackInv'
<1> USE DEF ReadbackInv
<1> DEFINE a == alarm + 1
           t == [task[a] EXCEPT !.pc = "spawned"]
<1>1. /\ a \in Alarms /\ a \in Nat /\ alarm \in Nat
      /\ alarm' = a /\ rtb_sent_at' = now
      /\ sent' = [sent EXCEPT ![a] = now]
      /\ task' = [task EXCEPT ![a] = t]
      /\ UNCHANGED <<now, hb, mode, armed, mode_changed_at, ack, recording, heard>>
  BY DEF EngageRtb, monitor, ReadbackTypeOK
<1>2. a > alarm
  BY <1>1
<1>3. task[a] \in TaskType /\ task[a].pc = "none"
  BY <1>1, <1>2 DEF AlarmInv, Unstarted, ReadbackTypeOK
<1>4. t \in TaskType /\ t.pc = "spawned" /\ t.verdict = task[a].verdict
      /\ t.count = task[a].count /\ t.sent_at = task[a].sent_at
  BY <1>3 DEF TaskType
<1> HIDE DEF t
<1>5. ReadbackTypeOK'
  BY <1>1, <1>4 DEF ReadbackTypeOK
<1>6. StampsInOrder'
  BY <1>1 DEF StampsInOrder
<1>7. LastSend'
  BY <1>1 DEF LastSend, ReadbackTypeOK
<1>8. ASSUME NEW b \in Alarms
      PROVE  AlarmInv(b)'
  <2>0. b \in Nat
    BY AlarmsAreNumbers
  <2>1. CASE b = a
    <3>1. task'[b] = t
      BY <1>1, <2>1 DEF ReadbackTypeOK
    <3>2. task[b].verdict = "none" /\ task[b].count = 0 /\ task[b].sent_at = 0
      BY <1>3, <2>1 DEF AlarmInv, Unstarted
    <3>3. Unstarted(b)'
      BY <1>1, <1>4, <2>0, <2>1, <3>1, <3>2 DEF Unstarted
    <3>4. Polling(b)' /\ Loaded(b)' /\ Evidence(b)' /\ Refusal(b)'
      BY <1>4, <2>1, <3>1, <3>2 DEF Polling, Loaded, Evidence, Refusal
    <3> QED BY <3>3, <3>4 DEF AlarmInv
  <2>2. CASE b # a
    <3>1. task'[b] = task[b] /\ sent'[b] = sent[b]
      BY <1>1, <2>2 DEF ReadbackTypeOK
    <3>2. Polling(b)' /\ Loaded(b)' /\ Evidence(b)'
      BY <1>1, <3>1 DEF AlarmInv, Polling, Unseen, Loaded, Evidence
    <3>3. Unstarted(b)'
      BY <1>1, <2>0, <3>1 DEF AlarmInv, Unstarted
    <3>4. Refusal(b)'
      <4>1. task[b].pc = "done" => alarm' > b
        BY <1>1, <2>0 DEF AlarmInv, Unstarted
      <4> QED BY <3>1, <4>1 DEF Refusal
    <3> QED BY <3>2, <3>3, <3>4 DEF AlarmInv
  <2> QED BY <2>1, <2>2
<1> QED BY <1>5, <1>6, <1>7, <1>8

\* The operator's reset, the clock and the listener's stores other than that of
\* a heartbeat's time move no task and only add evidence.
LEMMA MonitorStep ==
  ASSUME ReadbackInv,
         \/ Tick
         \/ Reset
         \/ HeartbeatMode
         \/ \E accepted \in BOOLEAN : RecordAck(accepted)
         \/ UNCHANGED vars
  PROVE  ReadbackInv'
<1> USE DEF ReadbackInv
<1>1. UNCHANGED <<alarm, hb, task, sent, heard>>
  BY DEF Tick, Reset, HeartbeatMode, RecordAck, vars, monitor
<1>2. latched' => latched
  BY DEF Tick, Reset, HeartbeatMode, RecordAck, vars
<1>3. now' \in Nat \ {0} /\ now' >= now
  BY DEF Tick, Reset, HeartbeatMode, RecordAck, vars, ReadbackTypeOK
<1>4. rtb_sent_at' \in Nat /\ (rtb_sent_at' = rtb_sent_at \/ Reset)
  BY DEF Tick, Reset, HeartbeatMode, RecordAck, vars, ReadbackTypeOK
<1>5. ack' \in [accepted : BOOLEAN, at : Nat] /\ ack'.at >= ack.at
  <2>1. CASE \E accepted \in BOOLEAN : RecordAck(accepted)
    BY <2>1 DEF RecordAck, ReadbackTypeOK
  <2>2. CASE ack' = ack
    BY <2>2 DEF ReadbackTypeOK
  <2> QED BY <2>1, <2>2 DEF Tick, Reset, HeartbeatMode, vars, monitor
<1>6. /\ recording' \in [at : Nat, mode : Modes, armed : BOOLEAN]
      /\ mode_changed_at' \in Nat /\ mode_changed_at' >= mode_changed_at
      /\ StampsInOrder'
  <2>1. CASE HeartbeatMode
    <3>1. NoHeartbeat.at = 0
      BY DEF NoHeartbeat
    <3> QED BY <1>1, <2>1, <3>1, RecordTypes
        DEF HeartbeatMode, ReadbackTypeOK, StampsInOrder
  <2>2. CASE UNCHANGED <<recording, mode_changed_at>>
    BY <1>1, <1>3, <2>2 DEF ReadbackTypeOK, StampsInOrder
  <2> QED BY <2>1, <2>2 DEF Tick, Reset, RecordAck, vars, monitor
<1>7. ReadbackTypeOK'
  BY <1>1, <1>3, <1>4, <1>5, <1>6 DEF ReadbackTypeOK
<1>8. LastSend'
  <2>1. latched' => rtb_sent_at' # 0
    BY <1>2, <1>4 DEF LastSend, Reset
  <2>2. \A a \in Alarms : sent'[a] <= now'
    BY <1>1, <1>3 DEF LastSend, ReadbackTypeOK
  <2>3. rtb_sent_at' # 0 => rtb_sent_at' = rtb_sent_at
    BY <1>4 DEF Reset
  <2> QED BY <1>1, <2>1, <2>2, <2>3 DEF LastSend
<1>9. ASSUME NEW a \in Alarms
      PROVE  AlarmInv(a)'
  <2>1. heard[a] \in Nat
    BY DEF ReadbackTypeOK
  <2> QED BY <1>1, <1>2, <1>5, <1>6, <1>7, <2>1, EvidenceStays
<1> QED BY <1>6, <1>7, <1>8, <1>9

\* The time of a heartbeat becomes visible: every task that polls may count one
\* more, and it was heard.
LEMMA HeartbeatStep ==
  ASSUME ReadbackInv, NEW m \in Modes, NEW arm \in BOOLEAN, HeartbeatTime(m, arm)
  PROVE  ReadbackInv'
<1> USE ReadbackAssumption DEF ReadbackInv
<1>1. /\ hb < now /\ hb' = now /\ recording = NoHeartbeat
      /\ recording' = [at |-> now, mode |-> m, armed |-> arm]
      /\ heard' = [a \in Alarms |->
                     IF task[a].pc \notin {"none", "spawned"} /\ heard[a] < DwellPolls
                     THEN heard[a] + 1 ELSE heard[a]]
      /\ UNCHANGED <<now, alarm, latched, rtb_sent_at, mode_changed_at, ack,
                     task, sent>>
  BY DEF HeartbeatTime
<1>2. ReadbackTypeOK'
  BY <1>1 DEF ReadbackTypeOK
<1>3. StampsInOrder'
  BY <1>1 DEF StampsInOrder, ReadbackTypeOK
<1>4. LastSend'
  BY <1>1 DEF LastSend
<1>5. ASSUME NEW a \in Alarms
      PROVE  AlarmInv(a)'
  <2>1. /\ heard'[a] = IF /\ task[a].pc \notin {"none", "spawned"}
                          /\ heard[a] < DwellPolls
                       THEN heard[a] + 1 ELSE heard[a]
        /\ heard[a] \in Nat
    BY <1>1 DEF ReadbackTypeOK
  <2>2. task[a].count \in Nat /\ task[a].hb_seen \in Nat
    BY DEF ReadbackTypeOK, TaskType
  <2>3. Polling(a)'
    BY <1>1, <2>1, <2>2 DEF AlarmInv, Polling, Unseen, ReadbackTypeOK
  <2>4. Loaded(a)' /\ Unstarted(a)' /\ Refusal(a)'
    BY <1>1 DEF AlarmInv, Loaded, Unstarted, Refusal
  <2>5. Evidence(a)'
    BY <1>1, <2>1 DEF AlarmInv, Evidence
  <2> QED BY <2>3, <2>4, <2>5 DEF AlarmInv
<1> QED BY <1>2, <1>3, <1>4, <1>5

(***************************************************************************)
(* RtbReadback: the theorems.                                              *)
(***************************************************************************)
\* The inductive invariant holds in every reachable state.
THEOREM ReadbackInvariant == Spec => []ReadbackInv
<1>1. Init => ReadbackInv
  <2> SUFFICES ASSUME Init
               PROVE  ReadbackInv
    OBVIOUS
  <2> USE DEF Init
  <2>1. ReadbackTypeOK
    BY RecordTypes DEF ReadbackTypeOK
  <2>2. StampsInOrder
    BY DEF StampsInOrder, NoHeartbeat
  <2>3. LastSend
    BY DEF LastSend
  <2>4. ASSUME NEW a \in Alarms
        PROVE  AlarmInv(a)
    BY DEF AlarmInv, Polling, Loaded, Unstarted, Evidence, Refusal, NoTask
  <2> QED BY <2>1, <2>2, <2>3, <2>4 DEF ReadbackInv
<1>2. ReadbackInv /\ [Next]_vars => ReadbackInv'
  BY MonitorStep, EngageStep, HeartbeatStep, VerifyStep DEF Next
<1> QED BY <1>1, <1>2, PTL DEF Spec

\* RTL is confirmed for a latch only on evidence from after its own command
\* (controller.rs, verify_rtb_engaged).
THEOREM ConfirmationIsCausal == Spec => []ConfirmedOnLaterEvidence
<1>1. ReadbackInv => ConfirmedOnLaterEvidence
  BY DEF ReadbackInv, AlarmInv, Evidence, ConfirmedOnLaterEvidence
<1> QED BY <1>1, ReadbackInvariant, PTL

\* A verify task gives up without looking only when the operator's reset
\* overtook it (controller.rs, verify_rtb_engaged and reset).
THEOREM RefusalIsReset == Spec => []RefusedOnlyAfterReset
<1>1. ReadbackInv => RefusedOnlyAfterReset
  BY DEF ReadbackInv, AlarmInv, Refusal, RefusedOnlyAfterReset
<1> QED BY <1>1, ReadbackInvariant, PTL
-----------------------------------------------------------------------------
(***************************************************************************)
(* MavListener.                                                            *)
(***************************************************************************)
\* OnePeer is inductive once it is known that the lock is taken by the first
\* message that is used.
PeerInv ==
  /\ OnePeer
  /\ locked_source = None => used = {}

\* Only the receipt of an accepted message touches the lock.
LEMMA LockFrame ==
  ASSUME [ListenerNext]_listenerVars
  PROVE  \/ \E p \in Packets : LockSource(p)
         \/ UNCHANGED <<locked_source, used>>
<1>1. CASE Listener
  BY <1>1 DEF Listener, ReceiveDropped, ReceiveRecorded,
     ReceiveStream, FatalRecvError, SendStream,
     listenerVars
<1>2. ASSUME NEW s \in Streams, Ingest(s)
      PROVE  UNCHANGED <<locked_source, used>>
  BY <1>2 DEF Ingest, IngestTake, IngestPass
<1>3. CASE RunLoop
  BY <1>3 DEF RunLoop, FusionTake
<1>4. CASE UNCHANGED listenerVars
  BY <1>4 DEF listenerVars
<1> QED BY <1>1, <1>2, <1>3, <1>4 DEF ListenerNext

\* Every message the process uses comes from one peer, which passes the filters
\* (mav/mod.rs, check_or_lock_source before every message kind).
THEOREM ListenerHasOnePeer == ListenerSpec => []OnePeer
<1>1. ListenerInit => PeerInv
  BY DEF ListenerInit, PeerInv, OnePeer
<1>2. PeerInv /\ [ListenerNext]_listenerVars => PeerInv'
  <2> SUFFICES ASSUME PeerInv, [ListenerNext]_listenerVars
               PROVE  PeerInv'
    OBVIOUS
  <2>1. ASSUME NEW p \in Packets, LockSource(p)
        PROVE  PeerInv'
    <3> DEFINE message == [src |-> p.src, sysid |-> p.sysid]
    <3>1. /\ Accepted(p)
          /\ locked_source' = p.src /\ used' = used \cup {message}
      BY <2>1 DEF LockSource
    <3>2. message.src = p.src /\ message.sysid = p.sysid
      OBVIOUS
    <3>3. p.src # None
      BY ListenerAssumption
    <3> HIDE DEF message
    <3>4. \A m \in used : m.src = p.src
      BY <3>1 DEF Accepted, SourceAccepted, PeerInv,
         OnePeer
    <3>5. /\ IpAllowed(p.src) /\ SysidAllowed(p.sysid)
          /\ ExpectedPort # None => p.src.port = ExpectedPort
      <4>1. CASE locked_source = None
        BY <3>1, <4>1 DEF Accepted, SourceAccepted
      <4>2. CASE locked_source # None
        BY <3>1, <3>4, <4>2 DEF Accepted, PeerInv, OnePeer
      <4> QED BY <4>1, <4>2
    <3> QED BY <3>1, <3>2, <3>3, <3>4, <3>5
        DEF PeerInv, OnePeer, IpAllowed, SysidAllowed
  <2>2. CASE UNCHANGED <<locked_source, used>>
    BY <2>2 DEF PeerInv, OnePeer, IpAllowed,
       SysidAllowed
  <2> QED BY <2>1, <2>2, LockFrame
<1>3. PeerInv => OnePeer
  BY DEF PeerInv
<1> QED BY <1>1, <1>2, <1>3, PTL DEF ListenerSpec

(***************************************************************************)
(* MavListener: why the wait for room in a channel ends.  Fairness is out  *)
(* of reach here; what it is applied to is not.                            *)
(***************************************************************************)
\* The channels are bounded, and an ingest task holds one item at most.
ChainType ==
  /\ pc \in Streams \cup {"recv", "dead"}
  /\ link \in [Streams -> 0 .. ListenerCap]
  /\ hand \in [Streams -> 0 .. 1]
  /\ inbox \in [Streams -> 0 .. FusionCap]

\* How many moves the items behind the listener still have before them.
MovesLeft(s) == 3 * link[s] + 2 * hand[s] + inbox[s]
Work == MovesLeft("gps") + MovesLeft("imu")

\* Listener, ingest tasks and Fusion never all wait for each other: while the
\* listener waits for a channel that is read, one of them can go on
\* (mav/mod.rs:199-330, and the biased select, fusion.rs:402).
NeverWedged ==
  pc \in Consumed =>
    \E s \in Streams : \/ pc = s /\ link[s] < ListenerCap
                       \/ s \in Consumed /\ hand[s] = 0 /\ link[s] > 0
                       \/ hand[s] = 1 /\ inbox[s] < FusionCap
                       \/ Selectable(s)

\* While it waits, every step completes its send or leaves less to be done
\* before it; in particular nothing new enters the channels.
SendNearsItsEnd ==
  [][(pc \in Streams) => (pc' = "recv" \/ Work' < Work)]_listenerVars

\* The moves of an item count down.
LEMMA MovesType ==
  ASSUME ChainType
  PROVE  Work \in Nat /\ \A s \in Streams : MovesLeft(s) \in Nat
<1>1. ASSUME NEW s \in Streams PROVE MovesLeft(s) \in Nat
  <2>1. link[s] \in Nat /\ hand[s] \in Nat /\ inbox[s] \in Nat
    BY ListenerAssumption DEF ChainType
  <2> QED BY <2>1 DEF MovesLeft
<1> QED BY <1>1 DEF Work, Streams

\* What moves one item leaves less to be done.
LEMMA OneMoveLess ==
  ASSUME ChainType, NEW s \in Streams, MovesLeft(s)' = MovesLeft(s) - 1,
         \A r \in Streams \ {s} : MovesLeft(r)' = MovesLeft(r)
  PROVE  Work' < Work
<1> DEFINE g == MovesLeft("gps")
           i == MovesLeft("imu")
<1>1. g \in Nat /\ i \in Nat /\ Work = g + i /\ Work' = g' + i'
  BY MovesType DEF Work, Streams
<1>2. (g' = g - 1 /\ i' = i) \/ (g' = g /\ i' = i - 1)
  BY DEF Streams
<1> HIDE DEF g, i
<1> QED BY <1>1, <1>2

\* Every step keeps the bounds, and while the listener waits it brings the end
\* of its send nearer.
LEMMA ChainStep ==
  ASSUME ChainType, [ListenerNext]_listenerVars
  PROVE  /\ ChainType'
         /\ (pc \in Streams) =>
              (pc' = "recv" \/ Work' < Work \/ UNCHANGED listenerVars)
<1>0. /\ ListenerCap \in Nat /\ FusionCap \in Nat
      /\ \A s \in Streams : link[s] \in Nat /\ hand[s] \in Nat /\ inbox[s] \in Nat
  BY ListenerAssumption DEF ChainType
<1>1. CASE \/ (\E p \in Packets : ReceiveDropped(p) \/ ReceiveRecorded(p)
                                   \/ ReceiveStream(p))
           \/ FatalRecvError
  <2>1. pc = "recv" /\ UNCHANGED <<link, hand, inbox>>
        /\ pc' \in Streams \cup {"recv", "dead"}
    BY <1>1 DEF ReceiveDropped, ReceiveRecorded, ReceiveStream, FatalRecvError,
       LockSource, StreamOf, Streams, listenerVars
  <2> QED BY <2>1 DEF ChainType, Streams
<1>2. ASSUME NEW s \in Streams, SendStream(s)
      PROVE  ChainType' /\ pc' = "recv"
  <2>1. link[s] + 1 \in 0 .. ListenerCap
    BY <1>0, <1>2 DEF SendStream
  <2> QED BY <1>2, <2>1 DEF SendStream, ChainType
<1>3. ASSUME NEW s \in Streams, IngestTake(s)
      PROVE  ChainType' /\ Work' < Work
  <2>1. /\ link' = [link EXCEPT ![s] = link[s] - 1] /\ hand' = [hand EXCEPT ![s] = 1]
        /\ hand[s] = 0 /\ link[s] > 0 /\ UNCHANGED <<pc, inbox>>
    BY <1>3 DEF IngestTake
  <2>2. link[s] - 1 \in 0 .. ListenerCap
    BY <1>0, <2>1 DEF ChainType
  <2>3. ChainType'
    BY <2>1, <2>2 DEF ChainType
  <2>4. /\ link'[s] = link[s] - 1 /\ hand'[s] = 1 /\ inbox'[s] = inbox[s]
        /\ \A r \in Streams \ {s} : /\ link'[r] = link[r] /\ hand'[r] = hand[r]
                                     /\ inbox'[r] = inbox[r]
    BY <2>1 DEF ChainType
  <2>5. MovesLeft(s)' = MovesLeft(s) - 1
    BY <1>0, <2>1, <2>4 DEF MovesLeft
  <2>6. \A r \in Streams \ {s} : MovesLeft(r)' = MovesLeft(r)
    BY <2>4 DEF MovesLeft
  <2> QED BY <2>3, <2>5, <2>6, OneMoveLess
<1>4. ASSUME NEW s \in Streams, IngestPass(s)
      PROVE  ChainType' /\ Work' < Work
  <2>1. /\ hand' = [hand EXCEPT ![s] = 0] /\ inbox' = [inbox EXCEPT ![s] = inbox[s] + 1]
        /\ hand[s] = 1 /\ inbox[s] < FusionCap /\ UNCHANGED <<pc, link>>
    BY <1>4 DEF IngestPass
  <2>2. inbox[s] + 1 \in 0 .. FusionCap
    BY <1>0, <2>1 DEF ChainType
  <2>3. ChainType'
    BY <2>1, <2>2 DEF ChainType
  <2>4. /\ link'[s] = link[s] /\ hand'[s] = 0 /\ inbox'[s] = inbox[s] + 1
        /\ \A r \in Streams \ {s} : /\ link'[r] = link[r] /\ hand'[r] = hand[r]
                                     /\ inbox'[r] = inbox[r]
    BY <2>1 DEF ChainType
  <2>5. MovesLeft(s)' = MovesLeft(s) - 1
    BY <1>0, <2>1, <2>4 DEF MovesLeft
  <2>6. \A r \in Streams \ {s} : MovesLeft(r)' = MovesLeft(r)
    BY <2>4 DEF MovesLeft
  <2> QED BY <2>3, <2>5, <2>6, OneMoveLess
<1>5. ASSUME NEW s \in Streams, FusionTake(s)
      PROVE  ChainType' /\ Work' < Work
  <2>1. /\ inbox' = [inbox EXCEPT ![s] = inbox[s] - 1]
        /\ inbox[s] > 0 /\ UNCHANGED <<pc, link, hand>>
    BY <1>5 DEF FusionTake, Selectable
  <2>2. inbox[s] - 1 \in 0 .. FusionCap
    BY <1>0, <2>1 DEF ChainType
  <2>3. ChainType'
    BY <2>1, <2>2 DEF ChainType
  <2>4. /\ link'[s] = link[s] /\ hand'[s] = hand[s] /\ inbox'[s] = inbox[s] - 1
        /\ \A r \in Streams \ {s} : /\ link'[r] = link[r] /\ hand'[r] = hand[r]
                                     /\ inbox'[r] = inbox[r]
    BY <2>1 DEF ChainType
  <2>5. MovesLeft(s)' = MovesLeft(s) - 1
    BY <1>0, <2>1, <2>4 DEF MovesLeft
  <2>6. \A r \in Streams \ {s} : MovesLeft(r)' = MovesLeft(r)
    BY <2>4 DEF MovesLeft
  <2> QED BY <2>3, <2>5, <2>6, OneMoveLess
<1>6. CASE UNCHANGED listenerVars
  BY <1>6 DEF listenerVars, ChainType
<1> QED BY <1>1, <1>2, <1>3, <1>4, <1>5, <1>6
    DEF ListenerNext, Listener, Ingest, RunLoop

\* The chain of bounded channels has no deadlock, for all capacities.
THEOREM ListenerNeverWedged == ListenerSpec => []NeverWedged
<1>1. ListenerInit => ChainType
  BY ListenerAssumption DEF ListenerInit, ChainType
<1>2. ChainType /\ [ListenerNext]_listenerVars => ChainType'
  BY ChainStep
<1>3. ChainType => NeverWedged
  <2> SUFFICES ASSUME ChainType, pc \in Consumed
               PROVE  \E s \in Streams : \/ pc = s /\ link[s] < ListenerCap
                                         \/ s \in Consumed /\ hand[s] = 0 /\ link[s] > 0
                                         \/ hand[s] = 1 /\ inbox[s] < FusionCap
                                         \/ Selectable(s)
    BY DEF NeverWedged
  <2>1. /\ pc \in Streams /\ ListenerCap \in Nat \ {0} /\ FusionCap \in Nat \ {0}
        /\ \A s \in Streams : /\ link[s] \in 0 .. ListenerCap /\ hand[s] \in 0 .. 1
                              /\ inbox[s] \in 0 .. FusionCap
    BY ListenerAssumption DEF ChainType
  <2>2. CASE link[pc] < ListenerCap
    BY <2>1, <2>2
  <2>3. CASE ~(link[pc] < ListenerCap) /\ hand[pc] = 0
    BY <2>1, <2>3
  <2>4. CASE hand[pc] = 1 /\ inbox[pc] < FusionCap
    BY <2>1, <2>4
  <2>5. CASE ~(inbox[pc] < FusionCap)
    <3>1. inbox[pc] > 0
      BY <2>1, <2>5
    <3>2. CASE inbox["imu"] > 0
      BY <3>2 DEF Selectable, Streams
    <3>3. CASE ~(inbox["imu"] > 0)
      <4>1. inbox["imu"] = 0
        BY <2>1, <3>3 DEF Streams
      <4>2. Selectable(pc)
        BY <3>1, <4>1 DEF Selectable
      <4> QED BY <2>1, <4>2
    <3> QED BY <3>2, <3>3
  <2>6. hand[pc] = 0 \/ hand[pc] = 1
    BY <2>1
  <2> QED BY <2>2, <2>3, <2>4, <2>5, <2>6
<1> QED BY <1>1, <1>2, <1>3, PTL DEF ListenerSpec

\* A waiting send is brought nearer to its end by every step that is taken: with
\* ListenerNeverWedged, and a count that cannot fall for ever, fairness makes
\* the listener come back from a stream that is read, which is
\* ConsumedStreamsDrain.
THEOREM WaitingCountsDown == ListenerSpec => SendNearsItsEnd
<1>1. ListenerInit => ChainType
  BY ListenerAssumption DEF ListenerInit, ChainType
<1>2. ChainType /\ [ListenerNext]_listenerVars => ChainType'
  BY ChainStep
<1>3. ChainType /\ [ListenerNext]_listenerVars
        => [(pc \in Streams) => (pc' = "recv" \/ Work' < Work)]_listenerVars
  BY ChainStep
<1> QED BY <1>1, <1>2, <1>3, PTL DEF ListenerSpec, SendNearsItsEnd
=============================================================================
