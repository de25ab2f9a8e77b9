-------------------------- MODULE AlignmentProofs ---------------------------
(***************************************************************************)
(* Proofs about Alignment, for every skew, gate, window, capacity and      *)
(* extrapolation limit, and every set of sensor times.                     *)
(***************************************************************************)
EXTENDS Alignment, WellFoundedInduction, TLAPS

USE DEF Streams, Anchors

\* The last stamp of a stream is where its anchor puts it.
AnchorExplainsStamp ==
  \A s \in Streams : last[s] # None =>
    /\ anchor[s] # None
    /\ last[s].t - last[s].sensor = anchor[s].arrival - anchor[s].sensor

\* The newest snapshot is stamped near the arrival of its sample.
NewestNearArrival ==
  buf # <<>> =>
    /\ Latest - imu_arrival <= MaxSkew
    /\ imu_arrival - Latest <= MaxSkew

\* The inductive invariant: a fix that is served lies between its snapshots and
\* close behind the newest of them, because both streams are stamped near their
\* arrivals.
AlignmentInv ==
  /\ TypeOK
  /\ StampNearArrival
  /\ AnchorExplainsStamp
  /\ NewestNearArrival
  /\ ServedOnFreshImu
  /\ Bracketed

\* Every set of naturals has a least element.
LEMMA Least ==
  ASSUME NEW T, T \subseteq Nat, T # {}
  PROVE  \E m \in T : \A k \in T : m <= k
<1> DEFINE R == OpToRel(<, Nat)
<1>1. IsWellFoundedOn(R, Nat)
  BY NatLessThanWellFounded
<1>2. PICK m \in T : \A k \in T : ~(<<k, m>> \in R)
  <2> HIDE DEF R
  <2> QED BY <1>1, WFMin
<1>3. \A k \in T : ~(k < m)
  BY <1>2 DEF OpToRel
<1> QED BY <1>3

(***************************************************************************)
(* The aligner.                                                            *)
(***************************************************************************)

\* A sensor time on the wire is a number or unknown.
LEMMA SensorTimeType ==
  ASSUME NEW raw \in SensorTimes
  PROVE  SensorTime(raw) \in Int \cup {None}
BY AlignmentAssumption DEF SensorTime

\* A stamp is a number within the skew of the arrival, whatever the anchor.
LEMMA StampNear ==
  ASSUME TypeOK, NEW s \in Streams, NEW sensor \in Int \cup {None}
  PROVE  /\ Stamp(s, sensor) \in Int
         /\ Stamp(s, sensor) - clock <= MaxSkew
         /\ clock - Stamp(s, sensor) <= MaxSkew
<1>1. MaxSkew \in Nat /\ clock \in Int /\ None \notin Int
  BY AlignmentAssumption DEF TypeOK
<1>2. CASE sensor # None /\ AnchorHolds(anchor[s], sensor)
  <2>1. anchor[s].arrival \in Int /\ anchor[s].sensor \in Int /\ sensor \in Int
    BY <1>2 DEF TypeOK, AnchorHolds
  <2> QED BY <1>1, <1>2, <2>1 DEF Stamp, AnchorHolds, Aligned, Elapsed
<1>3. CASE ~(sensor # None /\ AnchorHolds(anchor[s], sensor))
  BY <1>1, <1>3 DEF Stamp
<1> QED BY <1>2, <1>3

\* A message keeps the aligner's types and leaves stamps near their arrivals
\* and explained by their anchors.
LEMMA AlignStep ==
  ASSUME AlignmentInv, NEW s \in Streams, NEW sensor \in Int \cup {None},
         Align(s, sensor)
  PROVE  /\ anchor' \in [Streams -> Anchors \cup {None}]
         /\ last' \in [Streams -> [arrival : Int, sensor : Int, t : Int] \cup {None}]
         /\ StampNearArrival'
         /\ AnchorExplainsStamp'
<1> DEFINE new == [arrival |-> clock, sensor |-> sensor]
           msg == [arrival |-> clock, sensor |-> sensor, t |-> Stamp(s, sensor)]
<1>1. clock \in Int /\ None \notin Int /\ None \notin Anchors
  BY AlignmentAssumption DEF AlignmentInv, TypeOK
<1>2. /\ Stamp(s, sensor) \in Int
      /\ Stamp(s, sensor) - clock <= MaxSkew
      /\ clock - Stamp(s, sensor) <= MaxSkew
  BY StampNear DEF AlignmentInv
<1>3. /\ anchor \in [Streams -> Anchors \cup {None}]
      /\ last \in [Streams -> [arrival : Int, sensor : Int, t : Int] \cup {None}]
  BY DEF AlignmentInv, TypeOK
<1>4. CASE sensor = None
  <2>1. anchor' = anchor /\ last' = last
    BY <1>3, <1>4 DEF Align
  <2> QED BY <1>3, <2>1 DEF AlignmentInv, StampNearArrival, AnchorExplainsStamp
<1>5. CASE sensor # None
  <2>1. sensor \in Int
    BY <1>5
  <2>2. new \in Anchors /\ new # None
    BY <1>1, <2>1
  <2>3. msg \in [arrival : Int, sensor : Int, t : Int]
    BY <1>1, <1>2, <2>1
  <2>4. last' = [last EXCEPT ![s] = msg]
    BY <1>5 DEF Align
  <2>5. anchor' = [anchor EXCEPT ![s] = IF AnchorHolds(@, sensor) THEN @ ELSE new]
    BY <1>5 DEF Align
  <2>6. /\ anchor' \in [Streams -> Anchors \cup {None}]
        /\ last' \in [Streams -> [arrival : Int, sensor : Int, t : Int] \cup {None}]
    BY <1>3, <2>2, <2>3, <2>4, <2>5
  <2>7. StampNearArrival'
    BY <1>2, <1>3, <2>4 DEF StampNearArrival, AlignmentInv
  <2>8. /\ anchor'[s] # None
        /\ msg.t - sensor = anchor'[s].arrival - anchor'[s].sensor
    <3>1. CASE AnchorHolds(anchor[s], sensor)
      <4>1. anchor'[s] = anchor[s] /\ anchor[s] \in Anchors
        BY <1>3, <2>5, <3>1 DEF AnchorHolds
      <4>2. Stamp(s, sensor) = Aligned(anchor[s], sensor)
        BY <1>5, <3>1 DEF Stamp
      <4> QED BY <1>1, <2>1, <4>1, <4>2 DEF Aligned
    <3>2. CASE ~AnchorHolds(anchor[s], sensor)
      <4>1. anchor'[s] = new /\ Stamp(s, sensor) = clock
        BY <1>3, <2>5, <3>2 DEF Stamp
      <4> QED BY <1>1, <2>1, <2>2, <4>1
    <3> QED BY <3>1, <3>2
  <2>9. AnchorExplainsStamp'
    BY <1>3, <2>4, <2>5, <2>8 DEF AnchorExplainsStamp, AlignmentInv
  <2> QED BY <2>6, <2>7, <2>9
<1> QED BY <1>4, <1>5

(***************************************************************************)
(* The buffer.                                                             *)
(***************************************************************************)

\* A suffix keeps the last element.
LEMMA Suffix ==
  ASSUME NEW s \in Seq(Int), NEW m \in 1 .. Len(s)
  PROVE  /\ SubSeq(s, m, Len(s)) \in Seq(Int)
         /\ Len(SubSeq(s, m, Len(s))) = Len(s) - m + 1
         /\ SubSeq(s, m, Len(s))[Len(s) - m + 1] = s[Len(s)]
OBVIOUS

\* After a push the buffer is a sequence of times within its capacity, and the
\* newest snapshot is the one pushed, out of order or not.
LEMMA PushedProperties ==
  ASSUME TypeOK, NEW t \in Int
  PROVE  /\ Pushed(t) \in Seq(Int)
         /\ Len(Pushed(t)) \in 1 .. Capacity
         /\ Pushed(t)[Len(Pushed(t))] = t
<1> DEFINE all == Append(buf, t)
           live == {i \in 1 .. Len(all) : t - all[i] <= WindowSecs}
           first == CHOOSE i \in live : \A j \in live : i <= j
           excess == Len(all) - Capacity + 1
           front == IF first >= excess THEN first ELSE excess
<1>1. buf \in Seq(Int) /\ Capacity \in Nat \ {0} /\ WindowSecs \in Nat
  BY AlignmentAssumption DEF TypeOK
<1>2. /\ all \in Seq(Int) /\ Len(all) = Len(buf) + 1
      /\ all[Len(all)] = t
      /\ Len(all) \in Nat \ {0}
  BY <1>1
<1>3. Len(all) \in live
  BY <1>1, <1>2
<1>4. first \in live
  <2>1. \E i \in live : \A j \in live : i <= j
    <3>1. live \subseteq Nat /\ live # {}
      BY <1>2, <1>3
    <3> HIDE DEF live
    <3> QED BY <3>1, Least
  <2> HIDE DEF live
  <2> QED BY <2>1
<1>5. first \in 1 .. Len(all)
  BY <1>4
<1>6. front \in 1 .. Len(all) /\ Len(all) - front + 1 <= Capacity
  <2> HIDE DEF all, first
  <2> QED BY <1>1, <1>2, <1>5
<1>7. Pushed(t) = SubSeq(all, front, Len(all))
  BY DEF Pushed
<1> HIDE DEF all, front
<1>8. Len(all) - front + 1 \in 1 .. Capacity
  BY <1>1, <1>2, <1>6
<1> QED BY <1>2, <1>6, <1>7, <1>8, Suffix

\* The two snapshots of a fix in the span of the buffer enclose it, although
\* the buffer need not be sorted.
LEMMA BetweenEncloses ==
  ASSUME TypeOK, NEW t \in Int, InSpan(t)
  PROVE  /\ Between(t).a \in Int /\ Between(t).b \in Int
         /\ Between(t).a # Between(t).b => Between(t).a < t /\ t <= Between(t).b
<1>1. buf \in Seq(Int) /\ Len(buf) \in Nat \ {0}
  BY DEF TypeOK, InSpan
<1>2. Earliest \in Int /\ Latest \in Int
  BY <1>1 DEF Earliest, Latest
<1>3. CASE t >= Latest \/ t <= Earliest
  BY <1>2, <1>3 DEF Between
<1>4. CASE Earliest < t /\ t < Latest
  <2> DEFINE ahead == {i \in 1 .. Len(buf) : buf[i] >= t}
             P(i) == buf[i] >= t /\ \A j \in 1 .. (i - 1) : buf[j] < t
             k == CHOOSE i \in 1 .. Len(buf) : P(i)
  <2>1. PICK m \in ahead : \A j \in ahead : m <= j
    <3>1. Len(buf) \in ahead
      BY <1>1, <1>2, <1>4 DEF Latest
    <3>2. ahead \subseteq Nat /\ ahead # {}
      BY <1>1, <3>1
    <3> HIDE DEF ahead
    <3> QED BY <3>2, Least
  <2>2. m \in 1 .. Len(buf) /\ P(m)
    <3>1. m \in 1 .. Len(buf) /\ buf[m] >= t
      BY <2>1
    <3>2. ASSUME NEW j \in 1 .. (m - 1) PROVE buf[j] < t
      <4>1. j \in 1 .. Len(buf) /\ ~(m <= j)
        BY <1>1, <3>1
      <4>2. j \notin ahead
        BY <2>1, <4>1
      <4>3. buf[j] \in Int
        BY <1>1, <4>1
      <4> QED BY <4>1, <4>2, <4>3
    <3> QED BY <3>1, <3>2
  <2>3. k \in 1 .. Len(buf) /\ P(k)
    <3> HIDE DEF P
    <3> QED BY <2>2
  <2>4. Bracket(t) = [a |-> buf[IF k = 1 THEN 1 ELSE k - 1], b |-> buf[k]]
    BY DEF Bracket
  <2> HIDE DEF k
  <2>5. k # 1
    BY <1>2, <1>4, <2>3 DEF Earliest
  <2>6. Between(t) = [a |-> buf[k - 1], b |-> buf[k]]
    BY <1>2, <1>4, <2>4, <2>5 DEF Between
  <2>7. k - 1 \in 1 .. (k - 1) /\ k - 1 \in 1 .. Len(buf)
    BY <1>1, <2>3, <2>5
  <2>8. buf[k - 1] \in Int /\ buf[k] \in Int /\ buf[k - 1] < t /\ buf[k] >= t
    BY <1>1, <2>3, <2>7
  <2> QED BY <2>6, <2>8
<1> QED BY <1>2, <1>3, <1>4

(***************************************************************************)
(* The steps.                                                              *)
(***************************************************************************)

\* Nothing has arrived yet.
LEMMA AlignmentInit == Init => AlignmentInv
BY AlignmentAssumption
DEF Init, AlignmentInv, TypeOK, StampNearArrival, AnchorExplainsStamp,
    NewestNearArrival, ServedOnFreshImu, Bracketed

\* A sample, integrated or skipped.
LEMMA OnImuStep ==
  ASSUME AlignmentInv, NEW raw \in SensorTimes, OnImu(raw)
  PROVE  AlignmentInv'
<1> DEFINE t == Stamp("imu", SensorTime(raw))
<1>1. /\ t \in Int
      /\ t - clock <= MaxSkew /\ clock - t <= MaxSkew
  BY SensorTimeType, StampNear DEF AlignmentInv
<1>2. Align("imu", SensorTime(raw)) /\ last_imu_mono' = t
  BY DEF OnImu
<1>3. /\ anchor' \in [Streams -> Anchors \cup {None}]
      /\ last' \in [Streams -> [arrival : Int, sensor : Int, t : Int] \cup {None}]
      /\ StampNearArrival'
      /\ AnchorExplainsStamp'
  BY <1>2, AlignStep, SensorTimeType
<1>4. served' = None /\ clock' = clock
  BY DEF OnImu
<1>5. ServedOnFreshImu' /\ Bracketed'
  BY <1>4 DEF ServedOnFreshImu, Bracketed
<1>6. CASE InGate(t)
  <2>1. buf' = Pushed(t) /\ imu_arrival' = clock
    BY <1>6 DEF OnImu
  <2>2. /\ buf' \in Seq(Int) /\ Len(buf') <= Capacity
        /\ Latest' = t
    <3>1. TypeOK
      BY DEF AlignmentInv
    <3> HIDE DEF t
    <3>2. /\ Pushed(t) \in Seq(Int)
          /\ Len(Pushed(t)) \in 1 .. Capacity
          /\ Pushed(t)[Len(Pushed(t))] = t
      BY <1>1, <3>1, PushedProperties
    <3> QED BY <2>1, <3>2, AlignmentAssumption DEF Latest
  <2>3. NewestNearArrival'
    BY <1>1, <2>1, <2>2 DEF NewestNearArrival
  <2> HIDE DEF t
  <2> QED
    BY <1>1, <1>2, <1>3, <1>4, <1>5, <2>1, <2>2, <2>3 DEF AlignmentInv, TypeOK
<1>7. CASE ~InGate(t)
  <2>1. buf' = buf /\ imu_arrival' = imu_arrival
    BY <1>7 DEF OnImu
  <2>2. NewestNearArrival'
    BY <2>1 DEF AlignmentInv, NewestNearArrival, Latest
  <2> HIDE DEF t
  <2> QED
    BY <1>1, <1>2, <1>3, <1>4, <1>5, <2>1, <2>2 DEF AlignmentInv, TypeOK
<1> QED BY <1>6, <1>7

\* A fix, served or not, with or without a re-anchor.
LEMMA OnGpsStep ==
  ASSUME AlignmentInv, NEW raw \in SensorTimes, NEW clears \in BOOLEAN,
         OnGps(raw, clears)
  PROVE  AlignmentInv'
<1> DEFINE t == Stamp("gps", SensorTime(raw))
<1>1. /\ t \in Int
      /\ t - clock <= MaxSkew /\ clock - t <= MaxSkew
  BY SensorTimeType, StampNear DEF AlignmentInv
<1>2. /\ Align("gps", SensorTime(raw))
      /\ UNCHANGED <<clock, last_imu_mono, imu_arrival>>
      /\ buf' = buf \/ buf' = <<>>
  BY DEF OnGps
<1>3. /\ anchor' \in [Streams -> Anchors \cup {None}]
      /\ last' \in [Streams -> [arrival : Int, sensor : Int, t : Int] \cup {None}]
      /\ StampNearArrival'
      /\ AnchorExplainsStamp'
  BY <1>2, AlignStep, SensorTimeType
<1>4. buf' \in Seq(Int) /\ Len(buf') <= Capacity /\ NewestNearArrival'
  <2>1. CASE buf' = buf
    BY <1>2, <2>1 DEF AlignmentInv, TypeOK, NewestNearArrival, Latest
  <2>2. CASE buf' = <<>>
    BY <2>2, AlignmentAssumption DEF NewestNearArrival
  <2> QED BY <1>2, <2>1, <2>2
<1>5. /\ served' \in [t : Int, arrival : Int, a : Int, b : Int] \cup {None}
      /\ ServedOnFreshImu' /\ Bracketed'
  <2>1. CASE ~InSpan(t)
    <3>1. served' = None
      BY <2>1 DEF OnGps
    <3> QED BY <3>1 DEF ServedOnFreshImu, Bracketed
  <2>2. CASE InSpan(t)
    <3>1. served' = [t |-> t, arrival |-> clock, a |-> Between(t).a,
                     b |-> Between(t).b]
      BY <2>2 DEF OnGps
    <3>2. /\ Between(t).a \in Int /\ Between(t).b \in Int
          /\ Between(t).a # Between(t).b =>
               Between(t).a < t /\ t <= Between(t).b
      BY <1>1, <2>2, BetweenEncloses DEF AlignmentInv
    <3>3. /\ clock \in Int /\ imu_arrival \in Int
          /\ MaxSkew \in Nat /\ MaxExtrapolation \in Nat
          /\ Latest \in Int
      BY <2>2, AlignmentAssumption DEF AlignmentInv, TypeOK, InSpan, Latest
    <3>4. clock - imu_arrival <= MaxExtrapolation + 2 * MaxSkew
      <4>1. t <= Latest + MaxExtrapolation /\ Latest - imu_arrival <= MaxSkew
        BY <2>2 DEF InSpan, AlignmentInv, NewestNearArrival
      <4> HIDE DEF t
      <4> QED BY <1>1, <3>3, <4>1
    <3> HIDE DEF t
    <3>5. served' \in [t : Int, arrival : Int, a : Int, b : Int]
      BY <1>1, <3>1, <3>2, <3>3
    <3>6. ServedOnFreshImu'
      BY <1>2, <3>1, <3>4 DEF ServedOnFreshImu
    <3>7. Bracketed'
      BY <3>1, <3>2 DEF Bracketed
    <3> QED BY <3>5, <3>6, <3>7
  <2> QED BY <2>1, <2>2
<1> QED BY <1>2, <1>3, <1>4, <1>5 DEF AlignmentInv, TypeOK

\* Every step keeps the invariant.
LEMMA AlignmentStep == AlignmentInv /\ [Next]_vars => AlignmentInv'
<1> SUFFICES ASSUME AlignmentInv, [Next]_vars PROVE AlignmentInv' OBVIOUS
<1> USE DEF AlignmentInv, TypeOK, StampNearArrival, AnchorExplainsStamp,
            NewestNearArrival, Latest, ServedOnFreshImu, Bracketed
<1>1. CASE Tick
  BY <1>1, AlignmentAssumption DEF Tick
<1>2. ASSUME NEW raw \in SensorTimes, OnImu(raw) PROVE AlignmentInv'
  BY <1>2, OnImuStep
<1>3. ASSUME NEW raw \in SensorTimes, NEW clears \in BOOLEAN, OnGps(raw, clears)
      PROVE  AlignmentInv'
  BY <1>3, OnGpsStep
<1>4. CASE UNCHANGED vars
  BY <1>4 DEF vars
<1> QED BY <1>1, <1>2, <1>3, <1>4 DEF Next

\* The invariant holds in every behaviour.
THEOREM AlignmentHolds == Spec => []AlignmentInv
BY AlignmentInit, AlignmentStep, PTL DEF Spec

\* Types and the capacity of the buffer.
THEOREM TypeCorrect == Spec => []TypeOK
<1>1. AlignmentInv => TypeOK
  BY DEF AlignmentInv
<1> QED BY AlignmentHolds, <1>1, PTL

\* ClockAligner::align stamps every message within CLOCK_ALIGN_MAX_SKEW of its
\* arrival, whatever the sensor clock does.
THEOREM StampsNearArrival == Spec => []StampNearArrival
<1>1. AlignmentInv => StampNearArrival
  BY DEF AlignmentInv
<1> QED BY AlignmentHolds, <1>1, PTL

\* ResidualBuffer::interpolate serves a fix only from a fresh IMU.
THEOREM FreshImu == Spec => []ServedOnFreshImu
<1>1. AlignmentInv => ServedOnFreshImu
  BY DEF AlignmentInv
<1> QED BY AlignmentHolds, <1>1, PTL

\* ResidualBuffer::interpolate never leaves the two snapshots it interpolates
\* between, in a buffer that need not be sorted.
THEOREM FixesBracketed == Spec => []Bracketed
<1>1. AlignmentInv => Bracketed
  BY DEF AlignmentInv
<1> QED BY AlignmentHolds, <1>1, PTL

\* As long as its anchor stays, a stream's stamps are as far apart as its sensor
\* times: the jitter of arrival does not reach the residual.
THEOREM NoJitter == Spec => JitterFree
<1>1. ASSUME AlignmentInv, AlignmentInv', NEW s \in Streams,
             last[s] # None, last'[s] # None, anchor'[s] = anchor[s]
      PROVE  last'[s].t - last[s].t = last'[s].sensor - last[s].sensor
  <2>1. /\ last[s].t - last[s].sensor = anchor[s].arrival - anchor[s].sensor
        /\ last'[s].t - last'[s].sensor = anchor[s].arrival - anchor[s].sensor
    BY <1>1 DEF AlignmentInv, AnchorExplainsStamp
  <2>2. /\ last[s].t \in Int /\ last[s].sensor \in Int
        /\ last'[s].t \in Int /\ last'[s].sensor \in Int
    BY <1>1 DEF AlignmentInv, TypeOK
  <2> QED BY <2>1, <2>2
<1>2. AlignmentInv /\ AlignmentInv' =>
        \A s \in Streams :
          last[s] # None /\ last'[s] # None /\ anchor'[s] = anchor[s] =>
            last'[s].t - last[s].t = last'[s].sensor - last[s].sensor
  BY <1>1
<1> QED BY AlignmentHolds, <1>2, PTL DEF JitterFree
=============================================================================
