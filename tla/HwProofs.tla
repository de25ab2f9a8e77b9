------------------------------ MODULE HwProofs ------------------------------
(***************************************************************************)
(* Proofs about the two hardware sources: ImuSource, for every choice of   *)
(* the four thresholds and every set of frames; SerialGps, for every       *)
(* choice of the windows, graces and intervals that LinkAssumption allows  *)
(* and for anything that may arrive on the port.                           *)
(***************************************************************************)
EXTENDS ImuSource, SerialGps, TLAPS

(***************************************************************************)
(* ImuSource: the inductive invariant.                                     *)
(***************************************************************************)
\* How often a good read may have reset the ladder since the last new frame:
\* once per repetition below the freeze threshold.
Resets(run) == IF run < FrozenOutputThreshold THEN run ELSE FrozenOutputThreshold - 1

\* The inductive invariant.  A stream that goes on has budget left; past the
\* freeze threshold the run grows only with the error count; the repetitions
\* yielded are those of the run below the threshold; and the reads without a
\* new frame are the present streak and, for each reset, at most one streak
\* that fell short of BUS_DOWN_THRESHOLD together with the read that ended it.
LadderInv ==
  /\ TypeOK
  /\ stream # "ended" => consecutive_errors < BusDownThreshold
  /\ frozen_run < FrozenOutputThreshold + consecutive_errors
  /\ stale <= frozen_run
  /\ stale < FrozenOutputThreshold
  /\ unmeasured <= Resets(frozen_run) * BusDownThreshold + consecutive_errors

\* The ladder starts at the bottom.
LEMMA LadderInit == Init => LadderInv
<1> SUFFICES ASSUME Init PROVE LadderInv OBVIOUS
<1>1. warned \in BOOLEAN
  BY DEF Init
<1>2. Resets(0) * BusDownThreshold = 0
  BY LadderAssumption DEF Resets
<1> QED BY <1>1, <1>2, LadderAssumption DEF Init, LadderInv, TypeOK

\* A bad read, an error or a frame past the threshold, keeps the types of what
\* escalate() and the read loop change, and counts one more error.
LEMMA EscalateStep ==
  ASSUME LadderInv, stream = "reading", Escalate
  PROVE  /\ stream' \in {"reading", "ended"}
         /\ stream' # "ended" => consecutive_errors' < BusDownThreshold
         /\ consecutive_errors' = consecutive_errors + 1
         /\ consecutive_errors' \in 0 .. BusDownThreshold
         /\ chip' \in {"awake", "asleep", "faulty", "foreign"}
         /\ warned' \in BOOLEAN
         /\ reinits' \in Nat
<1>1. /\ stream' \in {"reading", "ended"}
      /\ stream' # "ended" => consecutive_errors' < BusDownThreshold
      /\ consecutive_errors' = consecutive_errors + 1
      /\ consecutive_errors' \in 0 .. BusDownThreshold
  BY LadderAssumption DEF LadderInv, TypeOK, Escalate, EndStream
<1>2. chip' \in {"awake", "asleep", "faulty", "foreign"} /\ reinits' \in Nat
  BY DEF LadderInv, TypeOK, Escalate
<1>3. warned' \in BOOLEAN
  BY Zenon DEF LadderInv, TypeOK, Escalate
<1> QED BY <1>1, <1>2, <1>3

\* One more reset is one more streak.
LEMMA NextMultiple ==
  ASSUME NEW m \in Nat, NEW n \in Nat
  PROVE  (m + 1) * n = m * n + n
OBVIOUS

\* A new frame, a repetition below the threshold, which resets the ladder, and
\* one at or past it, which escalates.
LEMMA ReadOkStep ==
  ASSUME LadderInv, NEW frame \in Frames, ReadOk(frame)
  PROVE  LadderInv'
<1>1. /\ stream = "reading"
      /\ reg' \in Frames
      /\ last_raw' \in Frames \cup {NoFrame}
  BY DEF ReadOk
<1>2. /\ consecutive_errors \in 0 .. (BusDownThreshold - 1)
      /\ frozen_run \in Nat /\ stale \in Nat /\ unmeasured \in Nat
      /\ BusDownThreshold \in Nat \ {0} /\ FrozenOutputThreshold \in Nat \ {0}
  BY <1>1, LadderAssumption DEF LadderInv, TypeOK
<1>3. CASE ~Repeats(frame)
  <2>1. Recover /\ frozen_run' = 0 /\ unmeasured' = 0 /\ stale' = 0
    BY <1>3 DEF ReadOk, IsFrozen, FrozenRun
  <2>2. /\ stream' = stream /\ chip' = chip
        /\ consecutive_errors' = 0 /\ reinits' = 0
        /\ warned' \in BOOLEAN
    BY <2>1 DEF Recover
  <2>3. Resets(0) * BusDownThreshold = 0
    BY <1>2 DEF Resets
  <2> QED BY <1>1, <1>2, <2>1, <2>2, <2>3 DEF LadderInv, TypeOK
<1>4. CASE Repeats(frame) /\ ~IsFrozen(frame)
  <2>1. /\ Recover
        /\ frozen_run' = frozen_run + 1
        /\ frozen_run + 1 < FrozenOutputThreshold
        /\ unmeasured' \in Nat /\ unmeasured' <= unmeasured + 1
        /\ stale' \in Nat /\ stale' <= stale + 1
    BY <1>2, <1>4 DEF ReadOk, IsFrozen, FrozenRun, CountedTo
  <2>2. /\ stream' = stream /\ chip' = chip
        /\ consecutive_errors' = 0 /\ reinits' = 0
        /\ warned' \in BOOLEAN
    BY <2>1 DEF Recover
  <2>3. unmeasured <= frozen_run * BusDownThreshold + consecutive_errors
    BY <1>2, <2>1 DEF LadderInv, Resets
  <2>4. (frozen_run + 1) * BusDownThreshold
          = frozen_run * BusDownThreshold + BusDownThreshold
    BY <1>2, NextMultiple
  <2>5. /\ unmeasured' <= Resets(frozen_run') * BusDownThreshold
        /\ Resets(frozen_run') * BusDownThreshold \in Nat
    BY <1>2, <2>1, <2>3, <2>4 DEF Resets
  <2>6. stale' <= frozen_run' /\ stale' < FrozenOutputThreshold
    BY <1>2, <2>1 DEF LadderInv
  <2> QED BY <1>1, <1>2, <2>1, <2>2, <2>5, <2>6 DEF LadderInv, TypeOK
<1>5. CASE IsFrozen(frame)
  <2>1. /\ Escalate
        /\ Repeats(frame)
        /\ frozen_run' = frozen_run + 1
        /\ frozen_run + 1 >= FrozenOutputThreshold
        /\ unmeasured' \in Nat /\ unmeasured' <= unmeasured + 1
        /\ stale' = stale
    BY <1>2, <1>5 DEF ReadOk, IsFrozen, FrozenRun, CountedTo
  <2>2. Resets(frozen_run') = Resets(frozen_run)
    BY <1>2, <2>1 DEF Resets
  <2>3. Resets(frozen_run) * BusDownThreshold \in Nat
    BY <1>2 DEF Resets
  <2> QED
    BY <1>1, <1>2, <2>1, <2>2, <2>3, EscalateStep DEF LadderInv, TypeOK
<1> QED BY <1>3, <1>4, <1>5

\* A failed transaction escalates and leaves the run of frames alone.
LEMMA ReadErrStep ==
  ASSUME LadderInv, ReadErr
  PROVE  LadderInv'
<1>1. stream = "reading" /\ Escalate
  BY DEF ReadErr
<1>2. /\ unmeasured \in Nat /\ unmeasured' \in Nat
      /\ unmeasured' <= unmeasured + 1
      /\ UNCHANGED <<last_raw, frozen_run, reg, stale>>
  BY DEF ReadErr, CountedTo, LadderInv, TypeOK
<1>3. Resets(frozen_run) * BusDownThreshold \in Nat
  BY LadderAssumption DEF Resets, LadderInv, TypeOK
<1> QED
  BY <1>1, <1>2, <1>3, EscalateStep, LadderAssumption DEF LadderInv, TypeOK, Resets

\* Every step of the loop, of the chip and of the bus keeps the invariant.
LEMMA LadderStep == LadderInv /\ [Next]_vars => LadderInv'
<1> SUFFICES ASSUME LadderInv, [Next]_vars PROVE LadderInv' OBVIOUS
<1>1. CASE Open
  BY <1>1 DEF Open, InitSucceeds, LadderInv, TypeOK, Resets, health, history
<1>2. CASE Read
  BY <1>2, ReadOkStep, ReadErrStep DEF Read
<1>3. CASE BrownOut
  BY <1>3 DEF BrownOut, LadderInv, TypeOK, Resets, health, history
<1>4. CASE Fault
  BY <1>4 DEF Fault, LadderInv, TypeOK, Resets, health, history
<1>5. CASE Repaired
  BY <1>5 DEF Repaired, LadderInv, TypeOK, Resets, health, history
<1>6. CASE UNCHANGED vars
  BY <1>6 DEF vars, LadderInv, TypeOK, Resets, health, history
<1> QED BY <1>1, <1>2, <1>3, <1>4, <1>5, <1>6 DEF Next

\* The invariant holds in every behaviour of the read loop.
THEOREM Ladder == Spec => []LadderInv
BY LadderInit, LadderStep, PTL DEF Spec

\* The variables of the loop keep their types: the run of equal frames is
\* bounded by the ladder, so the saturating counters of ReadHealth never
\* saturate when the thresholds fit in a u32.
THEOREM TypeCorrect == Spec => []TypeOK
<1>1. LadderInv => TypeOK
  BY DEF LadderInv
<1> QED BY Ladder, <1>1, PTL

\* However errors, brown-outs and re-initialisations interleave, fewer than
\* FROZEN_OUTPUT_THRESHOLD repetitions of one frame are yielded.
THEOREM StaleBounded == Spec => []StaleSamplesBounded
<1>1. LadderInv => StaleSamplesBounded
  BY DEF LadderInv, StaleSamplesBounded
<1> QED BY Ladder, <1>1, PTL

\* The read loop shows a new frame or ends within FROZEN_OUTPUT_THRESHOLD times
\* BUS_DOWN_THRESHOLD reads.
THEOREM BlindnessBounded == Spec => []NeverBlindForLong
<1>1. ASSUME LadderInv PROVE NeverBlindForLong
  <2> DEFINE F == FrozenOutputThreshold
             B == BusDownThreshold
  <2>1. /\ F \in Nat \ {0} /\ B \in Nat \ {0}
        /\ Resets(frozen_run) \in 0 .. (F - 1)
        /\ consecutive_errors \in 0 .. B
        /\ unmeasured \in Nat
    BY <1>1, LadderAssumption DEF LadderInv, TypeOK, Resets
  <2>2. Resets(frozen_run) * B <= (F - 1) * B
    BY <2>1
  <2>3. (F - 1) * B + B = F * B
    BY <2>1
  <2>4. unmeasured <= Resets(frozen_run) * B + consecutive_errors
    BY <1>1 DEF LadderInv
  <2>5. stream = "reading" => consecutive_errors < B
    BY <1>1 DEF LadderInv
  <2>6. Resets(frozen_run) * B \in Int /\ (F - 1) * B \in Int /\ F * B \in Int
    BY <2>1
  <2> HIDE DEF F, B
  <2>7. unmeasured <= F * B /\ (stream = "reading" => unmeasured < F * B)
    BY <2>1, <2>2, <2>3, <2>4, <2>5, <2>6
  <2> QED BY <2>7 DEF NeverBlindForLong, Blind, F, B
<1> QED BY Ladder, <1>1, PTL

(***************************************************************************)
(* Giving up.                                                              *)
(***************************************************************************)

\* What the error count says about the streak: it is at most the reads without
\* a new frame, the warning was given when it passed the threshold, and the
\* re-initialisations tried are its multiples of REINIT_INTERVAL, but not the
\* one at which the stream ends.
StreakInv ==
  /\ consecutive_errors <= unmeasured
  /\ consecutive_errors >= DegradedThreshold => warned
  /\ consecutive_errors < BusDownThreshold =>
       reinits = consecutive_errors \div ReinitInterval
  /\ consecutive_errors = BusDownThreshold =>
       reinits = (BusDownThreshold - 1) \div ReinitInterval
  /\ stream = "ended" => consecutive_errors = BusDownThreshold \/ unmeasured = 0
  /\ stream = "opening" => unmeasured = 0

\* Counting one further passes a multiple exactly when it reaches one.
LEMMA NextQuotient ==
  ASSUME NEW n \in Nat, NEW k \in Nat \ {0}
  PROVE  (n + 1) \div k = IF (n + 1) % k = 0 THEN n \div k + 1 ELSE n \div k
<1>1. PICK q \in Nat, r \in Nat : q = n \div k /\ r = n % k
  OBVIOUS
<1>2. n = k * q + r /\ r < k
  BY <1>1
<1>3. PICK p \in Nat, s \in Nat : p = (n + 1) \div k /\ s = (n + 1) % k
  OBVIOUS
<1>4. n + 1 = k * p + s /\ s < k
  BY <1>3
<1>5. k * p + s = k * q + r + 1
  BY <1>2, <1>4
<1>6. q <= p /\ p <= q + 1
  BY <1>2, <1>4, <1>5
<1>7. p = q => s # 0
  BY <1>5
<1>8. p = q + 1 => s = 0
  BY <1>2, <1>5
<1> QED BY <1>1, <1>3, <1>6, <1>7, <1>8

\* Zero divided by anything is zero.
LEMMA ZeroQuotient == 0 \div ReinitInterval = 0
BY LadderAssumption

\* A bad read moves the count, the warning and the re-initialisations together.
LEMMA StreakEscalates ==
  ASSUME LadderInv, StreakInv, stream = "reading", Escalate,
         unmeasured' = unmeasured + 1
  PROVE  StreakInv'
<1> DEFINE e == consecutive_errors
<1>1. /\ e \in 0 .. (BusDownThreshold - 1)
      /\ BusDownThreshold \in Nat \ {0}
      /\ DegradedThreshold \in Nat \ {0}
      /\ ReinitInterval \in Nat \ {0}
      /\ unmeasured \in Nat
      /\ e' = e + 1
  BY LadderAssumption DEF LadderInv, TypeOK, Escalate
<1>2. e' <= unmeasured'
  BY <1>1 DEF StreakInv
<1>3. e' >= DegradedThreshold => warned'
  <2>1. CASE e + 1 = DegradedThreshold
    BY <2>1 DEF Escalate
  <2>2. CASE e >= DegradedThreshold
    BY <2>2 DEF Escalate, StreakInv
  <2> QED BY <1>1, <2>1, <2>2
<1>4. reinits = e \div ReinitInterval
  BY <1>1 DEF StreakInv
<1>5. CASE EndStream
  <2>1. /\ e' = BusDownThreshold /\ e = BusDownThreshold - 1
        /\ reinits' = reinits
        /\ stream' = "ended"
    BY <1>1, <1>5 DEF Escalate, EndStream, Reinit
  <2> QED BY <1>1, <1>2, <1>3, <1>4, <2>1 DEF StreakInv
<1>6. CASE ~EndStream
  <2>1. e' < BusDownThreshold /\ stream' = "reading"
    BY <1>1, <1>6 DEF Escalate, EndStream
  <2>2. reinits' = IF (e + 1) % ReinitInterval = 0 THEN reinits + 1 ELSE reinits
    BY <1>6 DEF Escalate, Reinit
  <2>3. (e + 1) \div ReinitInterval
          = IF (e + 1) % ReinitInterval = 0 THEN e \div ReinitInterval + 1
            ELSE e \div ReinitInterval
    <3>1. e \in Nat
      BY <1>1
    <3> HIDE DEF e
    <3> QED BY <1>1, <3>1, NextQuotient, Zenon
  <2>4. reinits' = (e + 1) \div ReinitInterval
    BY <1>4, <2>2, <2>3
  <2> QED BY <1>1, <1>2, <1>3, <2>1, <2>4 DEF StreakInv
<1> QED BY <1>5, <1>6

\* A good read ends the streak, a bad one extends it, and nothing else moves it.
LEMMA StreakStep ==
  ASSUME LadderInv, NeverBlindForLong, StreakInv, [Next]_vars
  PROVE  StreakInv'
<1>1. unmeasured \in Nat /\ CountedTo(Blind, unmeasured) = unmeasured + 1
  BY DEF LadderInv, TypeOK, NeverBlindForLong, CountedTo
<1>2. CASE ReadErr
  BY <1>1, <1>2, StreakEscalates DEF ReadErr
<1>3. ASSUME NEW frame \in Frames, ReadOk(frame), IsFrozen(frame)
      PROVE  StreakInv'
  BY <1>1, <1>3, StreakEscalates DEF ReadOk, IsFrozen
<1>4. ASSUME NEW frame \in Frames, ReadOk(frame), ~IsFrozen(frame)
      PROVE  StreakInv'
  <2>1. /\ consecutive_errors' = 0 /\ reinits' = 0
        /\ unmeasured' \in Nat
        /\ stream' = "reading"
    BY <1>1, <1>4 DEF ReadOk, Recover
  <2>2. /\ consecutive_errors' <= unmeasured'
        /\ ~(consecutive_errors' >= DegradedThreshold)
        /\ consecutive_errors' # BusDownThreshold
    BY <2>1, LadderAssumption
  <2>3. reinits' = consecutive_errors' \div ReinitInterval
    BY <2>1, ZeroQuotient
  <2> QED BY <2>1, <2>2, <2>3 DEF StreakInv
<1>5. CASE Open
  BY <1>5 DEF Open, StreakInv, health, history
<1>6. CASE BrownOut
  BY <1>6 DEF BrownOut, StreakInv, health, history
<1>7. CASE Fault
  BY <1>7 DEF Fault, StreakInv, health, history
<1>8. CASE Repaired
  BY <1>8 DEF Repaired, StreakInv, health, history
<1>9. CASE UNCHANGED vars
  BY <1>9 DEF vars, StreakInv, health, history
<1> QED
  BY <1>2, <1>3, <1>4, <1>5, <1>6, <1>7, <1>8, <1>9 DEF Next, Read

\* The stream of a chip that was opened ends only after a full streak: warned,
\* every re-initialisation tried, no new frame seen.
THEOREM GivesUpOnlyExhausted == Spec => []EndsOnlyWhenExhausted
<1>1. Init => StreakInv
  BY LadderAssumption, ZeroQuotient DEF Init, StreakInv
<1>2. LadderInv /\ NeverBlindForLong /\ StreakInv /\ [Next]_vars => StreakInv'
  BY StreakStep
<1>3. StreakInv => EndsOnlyWhenExhausted
  BY LadderAssumption DEF StreakInv, EndsOnlyWhenExhausted
<1> QED BY Ladder, BlindnessBounded, <1>1, <1>2, <1>3, PTL DEF Spec
-----------------------------------------------------------------------------
(***************************************************************************)
(* SerialGps: the inductive invariant.                                     *)
(***************************************************************************)
Stamps == {t \in Nat : t <= now} \cup {None}

\* What has a time lies in the past, and the next probe is at most one interval
\* away: the probe before it was at probe - PollInterval.
TimesOK ==
  /\ now \in Nat
  /\ probe \in Nat
  /\ now <= probe
  /\ probe <= now + PollInterval
  /\ arrived \in Stamps
  /\ last_byte_at \in Stamps
  /\ last_nmea_line_at \in Stamps
  /\ last_fix_at \in Stamps
  /\ last_report_at \in Stamps
  /\ yielded \in Nat
  /\ yielded <= now

\* The tracker knows of the last byte, or the codec's count is ahead of it.
BytesKnown ==
  arrived # None =>
    unobserved \/ (last_byte_at # None /\ last_byte_at >= arrived)

\* The tracker's fix is the one that was yielded.
FixKnown == yielded = IF last_fix_at = None THEN 0 ELSE last_fix_at

\* The two report fields are set and cleared together.
ReportPaired == reported = None <=> last_report_at = None

\* Without a standing report the last probe was still within the grace.
GraceAtProbe ==
  pc = "connected" /\ reported = None =>
    probe - PollInterval - yielded < NoFixGrace

\* A fix that came after a standing report came after the last probe too.
FixSinceProbe ==
  reported # None /\ yielded > last_report_at => yielded >= probe - PollInterval

LinkInv ==
  /\ TimesOK
  /\ BytesKnown
  /\ FixKnown
  /\ ReportPaired
  /\ GraceAtProbe
  /\ FixSinceProbe
  /\ NoBytesIsTrue

(***************************************************************************)
(* The probe.                                                              *)
(***************************************************************************)
\* Only the probe has something to say, and it observes the codec's count.
Probe == ProbeHealthy \/ ProbeTrouble \/ ProbeQuiet

\* Bytes that the codec counted are recent, so "no bytes" is not said of them.
LEMMA NoBytesSaid ==
  ASSUME TimesOK, BytesKnown, arrived # None, LinkState = "NoBytes"
  PROVE  now - arrived >= ActivityWindow
<1>1. ~Recent(ObservedByte)
  BY DEF LinkState
<1>2. ~unobserved
  BY <1>1, LinkAssumption DEF Recent, ObservedByte, TimesOK
<1>3. now - last_byte_at >= ActivityWindow
  BY <1>1, <1>2, LinkAssumption
  DEF Recent, ObservedByte, TimesOK, BytesKnown, Stamps
<1> QED BY <1>2, <1>3, LinkAssumption DEF TimesOK, BytesKnown, Stamps

\* The tracker measures the time since the last fix was yielded.
LEMMA SilenceMeasured ==
  ASSUME TimesOK, FixKnown
  PROVE  /\ SilentFor = Fixless
         /\ Fixless \in Nat
         /\ LinkState = "Healthy" => Fixless < ActivityWindow
         /\ LinkState # "Healthy" /\ last_fix_at # None
              => Fixless >= ActivityWindow
<1>1. SilentFor = Fixless /\ Fixless \in Nat
  BY LinkAssumption DEF TimesOK, FixKnown, SilentFor, Fixless, Stamps
<1>2. LinkState = "Healthy" <=> Recent(last_fix_at)
  BY DEF LinkState
<1>3. Recent(last_fix_at) <=> last_fix_at # None /\ Fixless < ActivityWindow
  BY LinkAssumption DEF TimesOK, FixKnown, Recent, Fixless, Stamps
<1>4. last_fix_at # None => (Fixless < ActivityWindow \/ Fixless >= ActivityWindow)
  BY <1>1, LinkAssumption
<1> QED BY <1>1, <1>2, <1>3, <1>4

\* A probe keeps the invariant.
LEMMA ProbeStep ==
  ASSUME LinkInv, Probe
  PROVE  LinkInv'
<1> USE LinkAssumption DEF LinkInv
<1>1. /\ pc = "connected" /\ pc' = pc
      /\ now = probe /\ now' = now
      /\ probe' = now + PollInterval
      /\ last_byte_at' = ObservedByte
      /\ unobserved' = FALSE
      /\ UNCHANGED <<last_nmea_line_at, last_fix_at, arrived, yielded>>
  BY DEF Probe, ProbeHealthy, ProbeTrouble, ProbeQuiet, ProbeDue, TimesOK, wire
<1>2. last_byte_at' \in Stamps
  BY DEF TimesOK, ObservedByte, Stamps, Probe, ProbeHealthy, ProbeTrouble,
     ProbeQuiet, ProbeDue
<1>3. last_report_at' \in {last_report_at, now, None}
  BY DEF Probe, ProbeHealthy, ProbeTrouble, ProbeQuiet, reports
<1>4. TimesOK'
  BY <1>1, <1>2, <1>3 DEF TimesOK, Stamps
<1>5. BytesKnown'
  BY <1>1 DEF BytesKnown, TimesOK, ObservedByte, Stamps
<1>6. FixKnown'
  BY <1>1 DEF FixKnown
<1>7. LinkState # "Healthy" => LinkState \in LinkStates
  BY DEF LinkState, LinkStates
<1>8. ReportPaired'
  BY <1>1, <1>7 DEF ReportPaired, TimesOK, Probe, ProbeHealthy, ProbeTrouble,
     ProbeQuiet, reports
<1>9. GraceAtProbe'
  <2> SUFFICES ASSUME reported' = None
               PROVE  Fixless < NoFixGrace
    BY <1>1 DEF GraceAtProbe, TimesOK, Fixless
  <2>1. CASE ProbeHealthy
    BY <2>1, SilenceMeasured DEF ProbeHealthy
  <2>2. CASE ProbeTrouble
    BY <1>7, <2>2 DEF ProbeTrouble
  <2>3. CASE ProbeQuiet
    <3>1. last_report_at = None /\ ~ReportDue
      BY <2>3 DEF ProbeQuiet, reports, ReportPaired
    <3>2. ~(SilentFor >= Grace(LinkState))
      BY <3>1 DEF ReportDue
    <3>3. Grace(LinkState) <= NoFixGrace /\ Grace(LinkState) \in Nat
      BY DEF Grace
    <3> QED BY <3>2, <3>3, SilenceMeasured
  <2> QED BY <2>1, <2>2, <2>3 DEF Probe
<1>10. FixSinceProbe'
  <2> SUFFICES ASSUME reported' # None, yielded > last_report_at'
               PROVE  FALSE
    BY <1>1 DEF FixSinceProbe
  <2>1. CASE ProbeHealthy
    BY <2>1 DEF ProbeHealthy
  <2>2. CASE ProbeTrouble
    BY <2>2 DEF ProbeTrouble, TimesOK
  <2>3. CASE ProbeQuiet
    <3>1. /\ reported # None /\ yielded > last_report_at
          /\ LinkState # "Healthy"
      BY <2>3 DEF ProbeQuiet, reports
    <3>2. last_report_at \in Nat
      BY <3>1 DEF ReportPaired, TimesOK, Stamps
    <3>3. last_fix_at # None
      BY <3>1, <3>2 DEF FixKnown
    <3>4. Fixless >= ActivityWindow
      BY <3>1, <3>3, SilenceMeasured
    <3>5. Fixless <= PollInterval
      BY <1>1, <3>1 DEF FixSinceProbe, Fixless, TimesOK
    <3> QED BY <3>4, <3>5, SilenceMeasured
  <2> QED BY <2>1, <2>2, <2>3 DEF Probe
<1>11. NoBytesIsTrue'
  <2> SUFFICES ASSUME said' = "NoBytes", arrived # None
               PROVE  now - arrived >= ActivityWindow
    BY <1>1 DEF NoBytesIsTrue
  <2>1. LinkState = "NoBytes"
    BY DEF Probe, ProbeHealthy, ProbeTrouble, ProbeQuiet, LinkStates
  <2> QED BY <2>1, NoBytesSaid
<1> QED BY <1>4, <1>5, <1>6, <1>8, <1>9, <1>10, <1>11

(***************************************************************************)
(* The other steps.                                                        *)
(***************************************************************************)
\* What arrives on the port, with the fields each kind of arrival stamps.
LEMMA ArrivalStep ==
  ASSUME LinkInv,
         PartialLine \/ NoSentence \/ FixlessSentence \/ Fix \/ ImplausibleFix
  PROVE  LinkInv'
<1> USE LinkAssumption DEF LinkInv
<1>1. /\ pc = "connected" /\ arrived' = now /\ unobserved' = TRUE /\ said' = None
      /\ UNCHANGED <<pc, now, probe, last_report_at, reported>>
  BY DEF PartialLine, NoSentence, FixlessSentence, Fix, ImplausibleFix, Arrival,
     reports
<1>2. /\ last_byte_at' \in {last_byte_at, now}
      /\ last_nmea_line_at' \in {last_nmea_line_at, now}
      /\ \/ UNCHANGED <<last_fix_at, yielded>>
         \/ last_fix_at' = now /\ yielded' = now
  BY DEF PartialLine, NoSentence, FixlessSentence, Fix, ImplausibleFix, stamps
<1>3. TimesOK'
  BY <1>1, <1>2 DEF TimesOK, Stamps
<1>4. BytesKnown' /\ ReportPaired'
  BY <1>1 DEF BytesKnown, ReportPaired
<1>5. FixKnown'
  BY <1>2 DEF FixKnown, TimesOK
<1>6. GraceAtProbe'
  BY <1>1, <1>2 DEF GraceAtProbe, TimesOK
<1>7. FixSinceProbe'
  BY <1>1, <1>2 DEF FixSinceProbe, TimesOK
<1>8. NoBytesIsTrue'
  BY <1>1 DEF NoBytesIsTrue, LinkStates
<1> QED BY <1>3, <1>4, <1>5, <1>6, <1>7, <1>8

\* A new tracker satisfies the invariant.
LEMMA NewConnectionStep ==
  ASSUME NewConnection
  PROVE  LinkInv'
<1> USE LinkAssumption DEF NewConnection
<1>1. TimesOK'
  BY DEF TimesOK, Stamps
<1>2. BytesKnown' /\ FixKnown' /\ ReportPaired' /\ FixSinceProbe'
  BY DEF BytesKnown, FixKnown, ReportPaired, FixSinceProbe
<1>3. GraceAtProbe'
  BY DEF GraceAtProbe
<1>4. NoBytesIsTrue'
  BY DEF NoBytesIsTrue, LinkStates
<1> QED BY <1>1, <1>2, <1>3, <1>4 DEF LinkInv

\* Time passes up to the next probe.
LEMMA TickStep ==
  ASSUME LinkInv, Tick
  PROVE  LinkInv'
<1> USE LinkAssumption DEF LinkInv
<1>1. /\ now < probe /\ now' = now + 1 /\ said' = None
      /\ UNCHANGED <<pc, probe, unobserved, last_byte_at, last_nmea_line_at,
                     last_fix_at, last_report_at, reported, arrived, yielded>>
  BY DEF Tick, stamps, reports, wire
<1>2. TimesOK'
  BY <1>1 DEF TimesOK, Stamps
<1>3. BytesKnown' /\ FixKnown' /\ ReportPaired' /\ GraceAtProbe' /\ FixSinceProbe'
  BY <1>1 DEF BytesKnown, FixKnown, ReportPaired, GraceAtProbe, FixSinceProbe
<1>4. NoBytesIsTrue'
  BY <1>1 DEF NoBytesIsTrue, LinkStates
<1> QED BY <1>2, <1>3, <1>4

\* The reconnect loop outside a connection leaves the tracker alone.
LEMMA ClosedStep ==
  ASSUME LinkInv, OpenFails \/ Wake \/ Replug
  PROVE  LinkInv'
<1> USE LinkAssumption DEF LinkInv
<1>1. /\ pc' # "connected" /\ said' = None
      /\ UNCHANGED <<now, probe, unobserved, last_byte_at, last_nmea_line_at,
                     last_fix_at, last_report_at, reported, arrived, yielded>>
  BY DEF OpenFails, Wake, Replug, stamps, reports, wire
<1>2. TimesOK'
  BY <1>1 DEF TimesOK, Stamps
<1>3. BytesKnown' /\ FixKnown' /\ ReportPaired' /\ GraceAtProbe' /\ FixSinceProbe'
  BY <1>1 DEF BytesKnown, FixKnown, ReportPaired, GraceAtProbe, FixSinceProbe
<1>4. NoBytesIsTrue'
  BY <1>1 DEF NoBytesIsTrue, LinkStates
<1> QED BY <1>2, <1>3, <1>4

(***************************************************************************)
(* The theorems.                                                           *)
(***************************************************************************)
\* The inductive invariant holds in every reachable state.
THEOREM LinkInvariant == GpsSpec => []LinkInv
<1>1. GpsInit => LinkInv
  <2> SUFFICES ASSUME GpsInit
               PROVE  LinkInv
    OBVIOUS
  <2> USE LinkAssumption DEF GpsInit
  <2>1. TimesOK
    BY DEF TimesOK, Stamps
  <2>2. BytesKnown /\ FixKnown /\ ReportPaired /\ GraceAtProbe /\ FixSinceProbe
    BY DEF BytesKnown, FixKnown, ReportPaired, GraceAtProbe, FixSinceProbe
  <2>3. NoBytesIsTrue
    BY DEF NoBytesIsTrue, LinkStates
  <2> QED BY <2>1, <2>2, <2>3 DEF LinkInv
<1>2. LinkInv /\ [GpsNext]_gpsVars => LinkInv'
  <2> SUFFICES ASSUME LinkInv, [GpsNext]_gpsVars
               PROVE  LinkInv'
    OBVIOUS
  <2>1. CASE OpenPort \/ Disconnected
    BY <2>1, NewConnectionStep DEF OpenPort, Disconnected
  <2>2. CASE OpenFails \/ Wake \/ Replug
    BY <2>2, ClosedStep
  <2>3. CASE PartialLine \/ NoSentence \/ FixlessSentence \/ Fix \/ ImplausibleFix
    BY <2>3, ArrivalStep
  <2>4. CASE ProbeHealthy \/ ProbeTrouble \/ ProbeQuiet
    BY <2>4, ProbeStep DEF Probe
  <2>5. CASE Tick
    BY <2>5, TickStep
  <2>6. CASE UNCHANGED gpsVars
    BY <2>6 DEF gpsVars, stamps, reports, wire, LinkInv, TimesOK, Stamps, BytesKnown,
       FixKnown, ReportPaired, GraceAtProbe, FixSinceProbe, NoBytesIsTrue
  <2> QED BY <2>1, <2>2, <2>3, <2>4, <2>5, <2>6 DEF GpsNext
<1> QED BY <1>1, <1>2, PTL DEF GpsSpec

\* "No bytes at all" is said only of a port on which none arrived during the
\* activity window (nmea_link.rs, observe_bytes and classify).
THEOREM NoBytesSound == GpsSpec => []NoBytesIsTrue
<1>1. LinkInv => NoBytesIsTrue
  BY DEF LinkInv
<1> QED BY <1>1, LinkInvariant, PTL

\* A link without a plausible fix does not stay unreported, whatever arrives on
\* it (nmea_link.rs, poll).
THEOREM FixlessReported == GpsSpec => []FixlessLinkReported
<1>1. LinkInv => FixlessLinkReported
  <2> SUFFICES ASSUME TimesOK, GraceAtProbe, pc = "connected", reported = None
               PROVE  ~(Fixless >= NoFixGrace + PollInterval)
    BY DEF LinkInv, FixlessLinkReported
  <2> QED BY LinkAssumption DEF TimesOK, GraceAtProbe, Fixless
<1> QED BY <1>1, LinkInvariant, PTL

\* A report is withdrawn within one probe of the next fix, and its repeat timer
\* with it (nmea_link.rs, poll).
THEOREM ReportsWithdrawn == GpsSpec => []ReportWithdrawn
<1>1. LinkInv => ReportWithdrawn
  <2> SUFFICES ASSUME LinkInv
               PROVE  ReportWithdrawn
    OBVIOUS
  <2>1. reported # None /\ yielded > last_report_at => Fixless <= PollInterval
    BY LinkAssumption DEF LinkInv, TimesOK, FixSinceProbe, Fixless
  <2> QED BY <2>1 DEF LinkInv, ReportPaired, ReportWithdrawn
<1> QED BY <1>1, LinkInvariant, PTL
=============================================================================
