------------------------- MODULE SeverReadbackProofs -------------------------
(***************************************************************************)
(* Proofs about the read-back of the sever, for any number of latches, any *)
(* set of parameters and any capacity of their map, any dwell and window,  *)
(* and every interleaving of the loads of the verify tasks with the stores *)
(* of the listener and of the fusion task.                                 *)
(***************************************************************************)
EXTENDS SeverReadback, FiniteSetTheorems, TLAPS

(***************************************************************************)
(* The inductive invariant.                                                *)
(***************************************************************************)
SeverTaskType ==
  [pc : {"none", "spawned", "load", "poll", "done"},
   sent_at : Nat, baseline : Nat, deadline : Nat,
   verdict : {"none", "confirmed", "unconfirmed"}]

EchoType == [disabled : BOOLEAN, at : Nat, count : Nat]

SeverTypeOK ==
  /\ now \in Nat
  /\ alarm \in Nat
  /\ sever_sent_at \in Nat
  /\ sever_echo_baseline \in Nat
  /\ params \in [Params -> EchoType]
  /\ sent \in [Alarms -> Nat]
  /\ echoes \in [Alarms -> Nat]
  /\ zeros \in [Alarms -> Nat]
  /\ task \in [Alarms -> SeverTaskType]

\* No echo and no send is from the future, the send time the controller keeps
\* is the last one, and a latch that is being sent has no task yet.
SeverSends ==
  /\ params[SeverParam].at <= now
  /\ \A a \in Alarms : sent[a] <= now
  /\ sever_sent_at # 0 => \A a \in Alarms : sent[a] <= sever_sent_at
  /\ sending = "baseline" => alarm \in Alarms /\ task[alarm].pc = "none"

\* A task that has not looked yet knows nothing; one that has holds a send time
\* that is not older than its own latch's.
SeverTaskOK(a) ==
  /\ a > alarm => task[a].pc = "none" /\ sent[a] = 0
  /\ task[a].pc # "none" => sent[a] > 0
  /\ task[a].pc # "done" => task[a].verdict = "none"
  /\ task[a].pc \in {"load", "poll"} => task[a].sent_at >= sent[a]

\* A zero that is newer than the latch's send was counted.
ZeroCounted(a) ==
  /\ sent[a] > 0
  /\ task[a].pc # "done"
  /\ params[SeverParam].disabled
  /\ params[SeverParam].at > sent[a]
  => zeros[a] > 0

\* While the latch stands, the entry of the map has not gained more than the
\* echoes since the baseline, also when it was lost and made anew, and the
\* baseline is the one the task loads.
EchoesCounted(a) ==
  latched /\ alarm = a =>
    /\ task[a].pc # "done" =>
         \/ echoes[a] >= DwellEchoes
         \/ params[SeverParam].count <= sever_echo_baseline + echoes[a]
    /\ task[a].pc = "poll" => task[a].baseline = sever_echo_baseline

SeverVerdict(a) ==
  task[a].verdict = "confirmed" =>
    /\ zeros[a] > 0
    /\ latched /\ alarm = a => echoes[a] >= DwellEchoes

SeverAlarmInv(a) ==
  SeverTaskOK(a) /\ ZeroCounted(a) /\ EchoesCounted(a) /\ SeverVerdict(a)

SeverInv ==
  /\ SeverTypeOK
  /\ SeverSends
  /\ \A a \in Alarms : SeverAlarmInv(a)

(***************************************************************************)
(* Facts about the operators.                                              *)
(***************************************************************************)
\* The latches are numbered.
LEMMA AlarmsAreNumbers == Alarms \subseteq Nat
<1>1. Cardinality(Alarms) \in Nat
  BY ReadbackAssumption, FS_CardinalityType
<1> QED BY <1>1, ReadbackAssumption

\* The records of the module.
LEMMA SeverRecordTypes ==
  NoTask \in SeverTaskType /\ NoEcho \in EchoType
BY DEF NoTask, NoEcho, SeverTaskType, EchoType

\* Recording an echo leaves the other entries alone, or loses one.
LEMMA RecordedEntry ==
  ASSUME SeverTypeOK, NEW p \in Params, NEW echo \in EchoType,
         NEW map \in Recorded(p, echo)
  PROVE  /\ map \in [Params -> EchoType]
         /\ map[SeverParam] \in
              {NoEcho, IF p = SeverParam THEN echo ELSE params[SeverParam]}
<1> DEFINE plain == [params EXCEPT ![p] = echo]
<1>1. SeverParam \in Params
  BY DEF Params
<1>2. /\ plain \in [Params -> EchoType]
      /\ plain[SeverParam] = IF p = SeverParam THEN echo ELSE params[SeverParam]
  BY <1>1 DEF SeverTypeOK
<1>3. map = plain \/ \E q \in Params : map = [plain EXCEPT ![q] = NoEcho]
  BY DEF Recorded, Oldest, Held
<1> HIDE DEF plain
<1> QED BY <1>1, <1>2, <1>3, SeverRecordTypes

(***************************************************************************)
(* The steps.                                                              *)
(***************************************************************************)
\* What the steps of a verify task make of its record.
LEMMA SeverVerifyRecord ==
  ASSUME SeverTypeOK, SeverSends,
         NEW a \in Alarms, SeverAlarmInv(a), Verify(a)
  PROVE  /\ task' = [task EXCEPT ![a] = task'[a]]
         /\ UNCHANGED <<now, controller, params, sent, echoes, zeros>>
         /\ task'[a] \in SeverTaskType
         /\ task[a].pc # "none"
         /\ SeverAlarmInv(a)'
<1> USE DEF SeverTypeOK
<1>0. /\ task[a] \in SeverTaskType /\ a \in Nat
      /\ sent[a] \in Nat /\ zeros[a] \in Nat /\ echoes[a] \in Nat
  BY AlarmsAreNumbers
<1>1. ASSUME NEW t \in SeverTaskType, Update(a, t)
      PROVE  /\ task'[a] = t
             /\ task' = [task EXCEPT ![a] = task'[a]]
             /\ UNCHANGED <<now, alarm, latched, sending, sever_sent_at,
                            sever_echo_baseline>>
             /\ UNCHANGED <<params, sent, echoes, zeros>>
  BY <1>1 DEF Update, controller
<1>2. Deadline \in Nat
  BY ReadbackAssumption DEF Deadline
<1>3. CASE VerifyBegin(a)
  <2>1. task[a].pc = "spawned" /\ task[a].verdict = "none"
        /\ ~(a > alarm) /\ sent[a] > 0
    BY <1>3 DEF VerifyBegin, SeverAlarmInv, SeverTaskOK
  <2>2. CASE sever_sent_at = 0
    <3> DEFINE t == [task[a] EXCEPT !.pc = "done", !.verdict = "unconfirmed"]
    <3>1. t \in SeverTaskType /\ t.pc = "done" /\ t.verdict = "unconfirmed"
      BY <1>0 DEF SeverTaskType
    <3>2. Update(a, t)
      BY <1>3, <2>2 DEF VerifyBegin
    <3> HIDE DEF t
    <3>3. SeverAlarmInv(a)'
      BY <1>1, <2>1, <3>1, <3>2 DEF SeverAlarmInv, SeverTaskOK, ZeroCounted,
         EchoesCounted, SeverVerdict
    <3> QED BY <1>1, <2>1, <3>1, <3>2, <3>3 DEF controller
  <2>3. CASE sever_sent_at # 0
    <3> DEFINE t == [task[a] EXCEPT !.pc = "load", !.sent_at = sever_sent_at]
    <3>1. t \in SeverTaskType /\ t.pc = "load" /\ t.verdict = "none"
          /\ t.sent_at = sever_sent_at
      BY <1>0, <2>1 DEF SeverTaskType
    <3>2. Update(a, t)
      BY <1>3, <2>3 DEF VerifyBegin
    <3> HIDE DEF t
    <3>3. sever_sent_at >= sent[a]
      BY <1>0, <2>3 DEF SeverSends
    <3>4. SeverAlarmInv(a)'
      BY <1>1, <2>1, <3>1, <3>2, <3>3 DEF SeverAlarmInv, SeverTaskOK, ZeroCounted,
         EchoesCounted, SeverVerdict
    <3> QED BY <1>1, <2>1, <3>1, <3>2, <3>4 DEF controller
  <2> QED BY <2>2, <2>3
<1>4. CASE LoadBaseline(a)
  <2> DEFINE t == [task[a] EXCEPT !.pc = "poll", !.deadline = Deadline,
                                        !.baseline = sever_echo_baseline]
  <2>1. task[a].pc = "load" /\ Update(a, t)
    BY <1>4 DEF LoadBaseline
  <2>2. t \in SeverTaskType /\ t.pc = "poll" /\ t.verdict = task[a].verdict
        /\ t.sent_at = task[a].sent_at /\ t.baseline = sever_echo_baseline
    BY <1>0, <1>2 DEF SeverTaskType
  <2> HIDE DEF t
  <2>3. SeverAlarmInv(a)'
    BY <1>1, <2>1, <2>2 DEF SeverAlarmInv, SeverTaskOK, ZeroCounted,
       EchoesCounted, SeverVerdict
  <2> QED BY <1>1, <2>1, <2>2, <2>3 DEF controller
<1>5. CASE Poll(a)
  <2> DEFINE t(v) == [task[a] EXCEPT !.pc = "done", !.verdict = v]
  <2>1. PICK v \in {"confirmed", "unconfirmed"} :
          /\ task[a].pc = "poll"
          /\ Update(a, t(v))
          /\ v = "confirmed" => SeverEchoConfirms(a)
    BY <1>5 DEF Poll
  <2>2. t(v) \in SeverTaskType /\ t(v).pc = "done" /\ t(v).verdict = v
    BY <1>0 DEF SeverTaskType
  <2> HIDE DEF t
  <2>3. task'[a] = t(v) /\ UNCHANGED <<alarm, latched, sent, echoes, zeros>>
    BY <1>1, <2>1, <2>2
  <2>4. sent[a] > 0 /\ ~(a > alarm)
    BY <2>1 DEF SeverAlarmInv, SeverTaskOK
  <2>5. ASSUME v = "confirmed"
        PROVE  zeros[a] > 0 /\ (latched /\ alarm = a => echoes[a] >= DwellEchoes)
    <3>1. /\ params[SeverParam].at > task[a].sent_at
          /\ params[SeverParam].disabled
          /\ params[SeverParam].count - task[a].baseline >= DwellEchoes
      BY <2>1, <2>5 DEF SeverEchoConfirms
    <3>2. params[SeverParam] \in EchoType
      BY DEF Params
    <3>3. params[SeverParam].at \in Nat /\ params[SeverParam].count \in Nat
          /\ task[a].sent_at \in Nat /\ task[a].baseline \in Nat
      BY <1>0, <3>2 DEF EchoType, SeverTaskType
    <3>4. params[SeverParam].at > sent[a]
      BY <1>0, <2>1, <3>1, <3>3 DEF SeverAlarmInv, SeverTaskOK
    <3>5. zeros[a] > 0
      BY <2>1, <2>4, <3>1, <3>4 DEF SeverAlarmInv, ZeroCounted
    <3>6. DwellEchoes \in Nat
      BY ReadbackAssumption
    <3>7. latched /\ alarm = a => echoes[a] >= DwellEchoes
      BY <1>0, <2>1, <3>1, <3>3, <3>6 DEF SeverAlarmInv, EchoesCounted
    <3> QED BY <3>5, <3>7
  <2>6. SeverAlarmInv(a)'
    BY <2>2, <2>3, <2>4, <2>5 DEF SeverAlarmInv, SeverTaskOK, ZeroCounted,
       EchoesCounted, SeverVerdict
  <2> QED BY <1>1, <2>1, <2>2, <2>6 DEF controller
<1> QED BY <1>3, <1>4, <1>5 DEF Verify

\* A step of a verify task.
LEMMA SeverVerifyStep ==
  ASSUME SeverInv, NEW a \in Alarms, Verify(a)
  PROVE  SeverInv'
<1> USE DEF SeverInv
<1>1. /\ task' = [task EXCEPT ![a] = task'[a]]
      /\ UNCHANGED <<now, alarm, latched, sending, sever_sent_at,
                     sever_echo_baseline>>
      /\ UNCHANGED <<params, sent, echoes, zeros>>
      /\ task'[a] \in SeverTaskType
      /\ task[a].pc # "none"
      /\ SeverAlarmInv(a)'
  BY SeverVerifyRecord DEF controller
<1>2. \A b \in Alarms : b # a => task'[b] = task[b]
  BY <1>1 DEF SeverTypeOK
<1>3. SeverTypeOK'
  BY <1>1 DEF SeverTypeOK
<1>4. SeverSends'
  BY <1>1, <1>2 DEF SeverSends
<1>5. ASSUME NEW b \in Alarms
      PROVE  SeverAlarmInv(b)'
  <2>1. CASE b = a
    BY <1>1, <2>1
  <2>2. CASE b # a
    BY <1>1, <1>2, <2>2 DEF SeverAlarmInv, SeverTaskOK, ZeroCounted,
       EchoesCounted, SeverVerdict
  <2> QED BY <2>1, <2>2
<1> QED BY <1>3, <1>4, <1>5

\* The latch: the baseline is what the map holds, and no echo has come since.
LEMMA SnapshotStep ==
  ASSUME SeverInv, SnapshotBaseline
  PROVE  SeverInv'
<1> USE DEF SeverInv
<1> DEFINE a == alarm + 1
<1>1. /\ a \in Alarms /\ alarm \in Nat /\ alarm' = a /\ ~latched
      /\ sever_echo_baseline' = params[SeverParam].count
      /\ UNCHANGED <<now, sever_sent_at, params, task, sent, echoes,
                     zeros>>
  BY DEF SnapshotBaseline, SeverTypeOK
<1>2. params[SeverParam].count \in Nat
  BY DEF SeverTypeOK, Params, EchoType
<1>3. task[a].pc = "none"
  BY <1>1 DEF SeverAlarmInv, SeverTaskOK
<1>4. SeverTypeOK'
  BY <1>1, <1>2 DEF SeverTypeOK
<1>5. SeverSends'
  BY <1>1, <1>3 DEF SeverSends
<1>6. ASSUME NEW b \in Alarms
      PROVE  SeverAlarmInv(b)'
  <2>1. b \in Nat /\ echoes[b] \in Nat
    BY AlarmsAreNumbers DEF SeverTypeOK
  <2>2. SeverTaskOK(b)' /\ ZeroCounted(b)'
    BY <1>1, <2>1 DEF SeverAlarmInv, SeverTaskOK, ZeroCounted
  <2>3. EchoesCounted(b)'
    BY <1>1, <1>2, <1>3, <2>1 DEF EchoesCounted
  <2>4. SeverVerdict(b)'
    <3>1. CASE b = a
      <4>1. task[b].verdict = "none"
        BY <1>3, <3>1 DEF SeverAlarmInv, SeverTaskOK
      <4> QED BY <1>1, <4>1 DEF SeverVerdict
    <3>2. CASE b # a
      BY <1>1, <3>2 DEF SeverAlarmInv, SeverVerdict
    <3> QED BY <3>1, <3>2
  <2> QED BY <2>2, <2>3, <2>4 DEF SeverAlarmInv
<1> QED BY <1>4, <1>5, <1>6

\* The send: every echo the map holds is older.
LEMMA SendStep ==
  ASSUME SeverInv, SendAndSpawn
  PROVE  SeverInv'
<1> USE DEF SeverInv
<1> DEFINE t == [task[alarm] EXCEPT !.pc = "spawned"]
<1>1. /\ sending = "baseline" /\ sending' = "no"
      /\ now \in Nat /\ now' = now + 1 /\ sever_sent_at' = now'
      /\ sent' = [sent EXCEPT ![alarm] = now']
      /\ task' = [task EXCEPT ![alarm] = t]
      /\ UNCHANGED <<alarm, latched, sever_echo_baseline, params, echoes, zeros>>
  BY DEF SendAndSpawn, Stamp, SeverTypeOK
<1>2. alarm \in Alarms /\ alarm \in Nat /\ task[alarm].pc = "none"
  BY <1>1 DEF SeverSends, SeverTypeOK
<1>3. task[alarm] \in SeverTaskType
  BY <1>2 DEF SeverTypeOK
<1>4. t \in SeverTaskType /\ t.pc = "spawned"
      /\ t.verdict = task[alarm].verdict
  BY <1>3 DEF SeverTaskType
<1> HIDE DEF t
<1>5. /\ params[SeverParam].at \in Nat
      /\ params[SeverParam].at <= now
  BY DEF SeverTypeOK, Params, EchoType, SeverSends
<1>6. SeverTypeOK'
  BY <1>1, <1>2, <1>4 DEF SeverTypeOK
<1>7. SeverSends'
  <2>1. \A b \in Alarms : sent[b] \in Nat /\ sent[b] <= now
    BY DEF SeverTypeOK, SeverSends
  <2>2. \A b \in Alarms : sent'[b] <= now'
    BY <1>1, <2>1 DEF SeverTypeOK
  <2> QED BY <1>1, <1>5, <2>2 DEF SeverSends
<1>8. ASSUME NEW b \in Alarms
      PROVE  SeverAlarmInv(b)'
  <2>0. b \in Nat
    BY AlarmsAreNumbers
  <2>1. CASE b = alarm
    <3>1. task'[b] = t /\ sent'[b] = now + 1
      BY <1>1, <1>2, <2>1 DEF SeverTypeOK
    <3>2. t.verdict = "none"
      BY <1>2, <1>4 DEF SeverAlarmInv, SeverTaskOK
    <3>3. SeverTaskOK(b)' /\ SeverVerdict(b)'
      BY <1>1, <1>2, <1>4, <2>1, <3>1, <3>2 DEF SeverTaskOK, SeverVerdict
    <3>4. ZeroCounted(b)'
      BY <1>1, <1>5, <3>1 DEF ZeroCounted
    <3>5. EchoesCounted(b)'
      BY <1>1, <1>2, <1>4, <2>1, <3>1 DEF SeverAlarmInv, EchoesCounted
    <3> QED BY <3>3, <3>4, <3>5 DEF SeverAlarmInv
  <2>2. CASE b # alarm
    <3>1. task'[b] = task[b] /\ sent'[b] = sent[b]
      BY <1>1, <1>2, <2>2 DEF SeverTypeOK
    <3> QED BY <1>1, <3>1 DEF SeverAlarmInv, SeverTaskOK, ZeroCounted,
       EchoesCounted, SeverVerdict
  <2> QED BY <2>1, <2>2
<1> QED BY <1>6, <1>7, <1>8

\* Time passes, another parameter is recorded, which may cost the entry, or the
\* operator resets: no echo is gained and no task moves.
LEMMA NoEchoStep ==
  ASSUME SeverInv,
         \/ Tick
         \/ Reset
         \/ \E p \in OtherParams : RecordOther(p)
         \/ UNCHANGED vars
  PROVE  SeverInv'
<1> USE DEF SeverInv
<1>1. UNCHANGED <<alarm, task, sent, echoes, zeros>>
  BY DEF Tick, Reset, RecordOther, vars, controller
<1>2. \/ UNCHANGED <<latched, sever_sent_at, sever_echo_baseline>>
      \/ ~latched' /\ sever_sent_at' = 0 /\ sever_echo_baseline' = 0
  <2>1. CASE Reset
    BY <2>1 DEF Reset
  <2>2. CASE ~Reset
    BY <2>2 DEF Tick, RecordOther, vars, controller
  <2> QED BY <2>1, <2>2
<1>3. sending' = sending
  BY DEF Tick, Reset, RecordOther, vars, controller
<1>4. now \in Nat /\ now' \in Nat /\ now <= now'
  BY DEF Tick, Reset, RecordOther, Stamp, vars,
     SeverTypeOK
<1>5. /\ params' \in [Params -> EchoType]
      /\ params'[SeverParam] \in {NoEcho, params[SeverParam]}
  <2>1. CASE params' = params
    BY <2>1 DEF SeverTypeOK
  <2>2. ASSUME NEW p \in OtherParams, RecordOther(p)
        PROVE  /\ params' \in [Params -> EchoType]
               /\ params'[SeverParam] \in {NoEcho, params[SeverParam]}
    <3> DEFINE echo == [disabled |-> FALSE, at |-> now', count |-> 1]
    <3>1. params' \in Recorded(p, echo)
      BY <2>2 DEF RecordOther
    <3>2. echo \in EchoType
      BY <1>4 DEF EchoType
    <3>3. p \in Params /\ p # SeverParam
      BY ReadbackAssumption DEF Params
    <3> HIDE DEF echo
    <3> QED BY <3>1, <3>2, <3>3, RecordedEntry
  <2> QED BY <2>1, <2>2 DEF Tick, Reset, vars
<1>6. /\ params[SeverParam].at \in Nat /\ params[SeverParam].count \in Nat
      /\ NoEcho.at = 0 /\ NoEcho.count = 0 /\ ~NoEcho.disabled
  BY DEF SeverTypeOK, Params, EchoType, NoEcho
<1>7. SeverTypeOK'
  BY <1>1, <1>2, <1>4, <1>5 DEF SeverTypeOK
<1>8. SeverSends'
  <2>1. params'[SeverParam].at <= now'
    BY <1>4, <1>5, <1>6 DEF SeverSends
  <2>2. \A a \in Alarms : sent[a] \in Nat
    BY DEF SeverTypeOK
  <2>3. \A a \in Alarms : sent'[a] <= now'
    BY <1>1, <1>4, <2>2 DEF SeverSends
  <2>4. sever_sent_at' # 0 => sever_sent_at' = sever_sent_at
    BY <1>2
  <2> QED BY <1>1, <1>3, <2>1, <2>3, <2>4 DEF SeverSends
<1>9. ASSUME NEW a \in Alarms
      PROVE  SeverAlarmInv(a)'
  <2>1. echoes[a] \in Nat /\ sever_echo_baseline \in Nat
    BY DEF SeverTypeOK
  <2>2. SeverTaskOK(a)'
    BY <1>1 DEF SeverAlarmInv, SeverTaskOK
  <2>3. ZeroCounted(a)'
    BY <1>1, <1>5, <1>6 DEF SeverAlarmInv, ZeroCounted
  <2>4. EchoesCounted(a)'
    <3>1. params'[SeverParam].count \in {0, params[SeverParam].count}
      BY <1>5, <1>6
    <3>2. CASE UNCHANGED <<latched, sever_sent_at, sever_echo_baseline>>
      BY <1>1, <1>6, <2>1, <3>1, <3>2 DEF SeverAlarmInv, EchoesCounted
    <3>3. CASE ~latched'
      BY <3>3 DEF EchoesCounted
    <3> QED BY <1>2, <3>2, <3>3
  <2>5. SeverVerdict(a)'
    BY <1>1, <1>2 DEF SeverAlarmInv, SeverVerdict
  <2> QED BY <2>2, <2>3, <2>4, <2>5 DEF SeverAlarmInv
<1> QED BY <1>7, <1>8, <1>9

\* An echo of the parameter: the entry and the counts of the open latches gain
\* one each, unless the entry is lost at once.
LEMMA EchoStep ==
  ASSUME SeverInv,
         NEW disabled \in BOOLEAN, RecordSever(disabled)
  PROVE  SeverInv'
<1> USE DEF SeverInv
<1> DEFINE echo == [disabled |-> disabled, at |-> now',
                    count |-> params[SeverParam].count + 1]
<1>0. DwellEchoes \in Nat \ {0}
  BY ReadbackAssumption
<1>1. /\ now \in Nat /\ now' = now + 1
      /\ params' \in Recorded(SeverParam, echo)
      /\ UNCHANGED <<alarm, latched, sending, sever_sent_at, sever_echo_baseline>>
      /\ UNCHANGED <<task, sent>>
  BY DEF RecordSever, Stamp, controller, SeverTypeOK
<1>2. /\ params[SeverParam].count \in Nat
      /\ NoEcho.at = 0 /\ NoEcho.count = 0 /\ ~NoEcho.disabled
  BY DEF SeverTypeOK, Params, EchoType, NoEcho
<1>3. /\ echo \in EchoType /\ echo.at = now + 1
      /\ echo.count = params[SeverParam].count + 1 /\ echo.disabled = disabled
  BY <1>1, <1>2 DEF EchoType
<1> HIDE DEF echo
<1>4. /\ params' \in [Params -> EchoType]
      /\ params'[SeverParam] \in {NoEcho, echo}
  <2>1. SeverParam \in Params
    BY DEF Params
  <2> QED BY <1>1, <1>3, <2>1, RecordedEntry
<1>5. /\ echoes' = [a \in Alarms |->
                      IF Since(a) /\ echoes[a] < DwellEchoes
                      THEN echoes[a] + 1 ELSE echoes[a]]
      /\ zeros' = [a \in Alarms |->
                     IF /\ Since(a) /\ zeros[a] < DwellEchoes
                        /\ disabled /\ sent[a] > 0
                     THEN zeros[a] + 1 ELSE zeros[a]]
  BY DEF RecordSever
<1>6. SeverTypeOK'
  BY <1>1, <1>4, <1>5 DEF SeverTypeOK
<1>7. SeverSends'
  <2>1. \A a \in Alarms : sent[a] \in Nat
    BY DEF SeverTypeOK
  <2> QED BY <1>1, <1>2, <1>3, <1>4, <2>1 DEF SeverSends
<1>8. ASSUME NEW a \in Alarms
      PROVE  SeverAlarmInv(a)'
  <2>0. a \in Nat /\ alarm \in Nat /\ echoes[a] \in Nat /\ zeros[a] \in Nat
        /\ sever_echo_baseline \in Nat /\ sent[a] \in Nat
    BY AlarmsAreNumbers DEF SeverTypeOK
  <2>1. /\ echoes'[a] = IF Since(a) /\ echoes[a] < DwellEchoes
                        THEN echoes[a] + 1 ELSE echoes[a]
        /\ zeros'[a] = IF /\ Since(a) /\ zeros[a] < DwellEchoes
                          /\ disabled /\ sent[a] > 0
                       THEN zeros[a] + 1 ELSE zeros[a]
    BY <1>5
  <2>2. Since(a) <=> alarm >= a /\ task[a].pc # "done"
    BY DEF Since
  <2>3. SeverTaskOK(a)'
    BY <1>1 DEF SeverAlarmInv, SeverTaskOK
  <2>4. ZeroCounted(a)'
    <3> SUFFICES ASSUME sent[a] > 0, task[a].pc # "done",
                        params'[SeverParam].disabled
                 PROVE  zeros'[a] > 0
      BY <1>1 DEF ZeroCounted
    <3>1. disabled
      BY <1>2, <1>3, <1>4
    <3>2. Since(a)
      BY <2>0, <2>2 DEF SeverAlarmInv, SeverTaskOK
    <3> QED BY <1>0, <2>0, <2>1, <3>1, <3>2
  <2>5. EchoesCounted(a)'
    <3> SUFFICES ASSUME latched, alarm = a
                 PROVE  /\ task[a].pc # "done" =>
                             \/ echoes'[a] >= DwellEchoes
                             \/ params'[SeverParam].count
                                  <= sever_echo_baseline + echoes'[a]
                        /\ task[a].pc = "poll" =>
                             task[a].baseline = sever_echo_baseline
      BY <1>1 DEF EchoesCounted
    <3>1. task[a].pc = "poll" =>
            task[a].baseline = sever_echo_baseline
      BY DEF SeverAlarmInv, EchoesCounted
    <3>2. ASSUME task[a].pc # "done"
          PROVE  \/ echoes'[a] >= DwellEchoes
                 \/ params'[SeverParam].count <= sever_echo_baseline + echoes'[a]
      <4>1. Since(a)
        BY <2>0, <2>2, <3>2
      <4>2. \/ echoes[a] >= DwellEchoes
            \/ params[SeverParam].count <= sever_echo_baseline + echoes[a]
        BY <3>2 DEF SeverAlarmInv, EchoesCounted
      <4>3. params'[SeverParam].count \in {0, params[SeverParam].count + 1}
        BY <1>2, <1>3, <1>4
      <4> QED BY <1>0, <1>2, <2>0, <2>1, <4>1, <4>2, <4>3
    <3> QED BY <3>1, <3>2
  <2>6. SeverVerdict(a)'
    BY <1>0, <1>1, <2>0, <2>1 DEF SeverAlarmInv, SeverVerdict
  <2> QED BY <2>3, <2>4, <2>5, <2>6 DEF SeverAlarmInv
<1> QED BY <1>6, <1>7, <1>8

(***************************************************************************)
(* SeverReadback: the theorems.                                            *)
(***************************************************************************)
\* The inductive invariant holds in every reachable state.
THEOREM SeverInvariant == Spec => []SeverInv
<1>1. Init => SeverInv
  <2> SUFFICES ASSUME Init
               PROVE  SeverInv
    OBVIOUS
  <2> USE DEF Init
  <2>1. SeverTypeOK
    BY SeverRecordTypes DEF SeverTypeOK
  <2>2. SeverSends
    BY DEF SeverSends, Params, NoEcho
  <2>3. ASSUME NEW a \in Alarms
        PROVE  SeverAlarmInv(a)
    BY DEF SeverAlarmInv, SeverTaskOK, ZeroCounted, EchoesCounted, SeverVerdict,
       NoTask
  <2> QED BY <2>1, <2>2, <2>3 DEF SeverInv
<1>2. SeverInv /\ [Next]_vars => SeverInv'
  BY NoEchoStep, SnapshotStep, SendStep, EchoStep, SeverVerifyStep DEF Next
<1> QED BY <1>1, <1>2, PTL DEF Spec

\* A sever is confirmed only by a zero that the autopilot echoed after that
\* latch's own PARAM_SET (controller.rs, sever_echo_confirms).
THEOREM SeverConfirmedByLaterZero == Spec => []ConfirmedByLaterZero
<1>1. SeverInv => ConfirmedByLaterZero
  BY DEF SeverInv, SeverAlarmInv, SeverVerdict, ConfirmedByLaterZero
<1> QED BY <1>1, SeverInvariant, PTL

\* While the latch stands, a confirmation means the full number of echoes, also
\* when the map lost the entry in between (monitor.rs, record_param_value).
THEOREM SeverConfirmedByDwell == Spec => []ConfirmedByDwell
<1>1. SeverInv => ConfirmedByDwell
  BY DEF SeverInv, SeverAlarmInv, SeverVerdict, ConfirmedByDwell
<1> QED BY <1>1, SeverInvariant, PTL
=============================================================================
