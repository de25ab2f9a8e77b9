----------------------------- MODULE Alignment ------------------------------
(***************************************************************************)
(* How a GPS fix is brought together with the IMU: the two clock aligners  *)
(* of src/src/mav/mod.rs, which map the autopilot's sensor times onto the  *)
(* local clock, the time-step gate of DeadReckoner::step (src/src/nav/     *)
(* mod.rs), which decides whether a sample becomes a snapshot, and the     *)
(* snapshot buffer of src/src/detect/residual.rs, at which a fix is        *)
(* interpolated.                                                           *)
(*                                                                         *)
(* Messages of the two streams arrive in any order and with any sensor     *)
(* time: the autopilot may reboot, its clock may run fast or slow, and     *)
(* messages may be delayed.  Only the times of the snapshots are modelled. *)
(* The reckoner has its origin and has just ended its static               *)
(* initialisation, whose samples set last_imu_mono.  Times are integers.   *)
(***************************************************************************)
EXTENDS Integers, Sequences

CONSTANTS
  MaxSkew,          \* CLOCK_ALIGN_MAX_SKEW
  MaxImuDt,         \* max_imu_dt_s
  WindowSecs,       \* ResidualBuffer::window_secs
  Capacity,         \* ResidualBuffer::capacity
  MaxExtrapolation, \* max_extrapolation_s
  BackTolerance,    \* back_tolerance of interpolate
  SensorTimes,      \* time_usec or time_boot_ms on the wire; 0 is unknown
  None,             \* Option::None
  MaxTime           \* bound of the model: last instant of the local clock

ASSUME AlignmentAssumption ==
  /\ {MaxSkew, WindowSecs, MaxExtrapolation, BackTolerance, MaxTime} \subseteq Nat
  /\ {MaxImuDt, Capacity} \subseteq Nat \ {0}
  /\ SensorTimes \subseteq Nat
  /\ None \notin Int
  /\ None \notin [arrival : Int, sensor : Int]

Streams == {"gps", "imu"}

VARIABLES
  clock,         \* the local clock, which stamps arrivals
  anchor,        \* ClockAligner::anchor of each stream
  last_imu_mono, \* DeadReckoner: time of the last sample
  buf,           \* times of the snapshots, in the order they were pushed
  \* history, not part of the code
  last,          \* the last message of each stream that had a sensor time
  imu_arrival,   \* when the sample behind the newest snapshot arrived
  served         \* what became of the fix just handled, or None

vars == <<clock, anchor, last_imu_mono, buf, last, imu_arrival, served>>

Init ==
  /\ clock = 0
  /\ anchor = [s \in Streams |-> None]
  /\ last_imu_mono = 0
  /\ buf = <<>>
  /\ last = [s \in Streams |-> None]
  /\ imu_arrival = 0
  /\ served = None
-----------------------------------------------------------------------------
(***************************************************************************)
(* ClockAligner::align for a message that arrives now.                     *)
(***************************************************************************)

\* gps_sensor_us and imu_sensor_us: zero on the wire means unknown.
SensorTime(raw) == IF raw = 0 THEN None ELSE raw

Elapsed(a) == clock - a.arrival

Aligned(a, sensor) == a.arrival + (sensor - a.sensor)

\* The anchor still explains this sensor time: it has not gone back, it is not
\* ahead of the local clock by more than the skew (checked before the sum is
\* formed), and not behind it by more than the skew.
AnchorHolds(a, sensor) ==
  /\ a # None
  /\ sensor >= a.sensor
  /\ sensor - a.sensor <= Elapsed(a) + MaxSkew
  /\ clock - Aligned(a, sensor) <= MaxSkew

\* The stamp the message gets: its arrival when there is no sensor time or the
\* anchor does not hold.
Stamp(s, sensor) ==
  IF sensor # None /\ AnchorHolds(anchor[s], sensor)
  THEN Aligned(anchor[s], sensor)
  ELSE clock

\* Mutant: an anchor that does not hold is kept.
AlignKeepsAnchor(s, sensor) ==
  /\ anchor' = [anchor EXCEPT ![s] =
       IF sensor = None \/ @ # None THEN @
       ELSE [arrival |-> clock, sensor |-> sensor]]
  /\ last' = [last EXCEPT ![s] =
       IF sensor = None THEN @
       ELSE [arrival |-> clock, sensor |-> sensor, t |-> Stamp(s, sensor)]]

\* A new anchor is set when there is none and when the old one does not hold;
\* a message without sensor time leaves it alone.
Align(s, sensor) ==
  /\ anchor' = [anchor EXCEPT ![s] =
       IF sensor = None \/ AnchorHolds(anchor[s], sensor) THEN @
       ELSE [arrival |-> clock, sensor |-> sensor]]
  /\ last' = [last EXCEPT ![s] =
       IF sensor = None THEN @
       ELSE [arrival |-> clock, sensor |-> sensor, t |-> Stamp(s, sensor)]]
-----------------------------------------------------------------------------
(***************************************************************************)
(* An IMU sample: Fusion::on_imu.                                          *)
(***************************************************************************)

\* A sample is integrated only when time went forward, and not too far.
InGate(t) == t - last_imu_mono \in 1 .. MaxImuDt

\* ResidualBuffer::push: snapshots leave at the front, first those older than
\* the window, up to the first that is not, then those beyond the capacity.
Pushed(t) ==
  LET all == Append(buf, t)
      live == {i \in 1 .. Len(all) : t - all[i] <= WindowSecs}
      first == CHOOSE i \in live : \A j \in live : i <= j
      excess == Len(all) - Capacity + 1
  IN  SubSeq(all, IF first >= excess THEN first ELSE excess, Len(all))

OnImu(raw) ==
  LET t == Stamp("imu", SensorTime(raw))
  IN  /\ Align("imu", SensorTime(raw))
      /\ last_imu_mono' = t
      /\ IF InGate(t)
         THEN buf' = Pushed(t) /\ imu_arrival' = clock
         ELSE UNCHANGED <<buf, imu_arrival>>
      /\ served' = None
      /\ UNCHANGED clock
-----------------------------------------------------------------------------
(***************************************************************************)
(* A fix: ResidualBuffer::interpolate at its stamp.                        *)
(***************************************************************************)
Earliest == buf[1]
Latest == buf[Len(buf)]

\* Mutant: no limit on extrapolation.
InSpanAhead(t) == buf # <<>> /\ t >= Earliest - BackTolerance

InSpan(t) ==
  /\ buf # <<>>
  /\ t >= Earliest - BackTolerance
  /\ t <= Latest + MaxExtrapolation

\* Mutant: the newest snapshots are looked at first.
BracketFromBack(t) ==
  LET i == CHOOSE i \in 1 .. Len(buf) :
             buf[i] >= t /\ \A j \in (i + 1) .. Len(buf) : buf[j] < t
  IN  [a |-> buf[IF i = 1 THEN 1 ELSE i - 1], b |-> buf[i]]

\* bracket(): the first snapshot, in buffer order, that is not older than the
\* fix, and the one before it.
Bracket(t) ==
  LET i == CHOOSE i \in 1 .. Len(buf) :
             buf[i] >= t /\ \A j \in 1 .. (i - 1) : buf[j] < t
  IN  [a |-> buf[IF i = 1 THEN 1 ELSE i - 1], b |-> buf[i]]

\* The snapshots the fix is compared with: the newest, extrapolated; the
\* oldest; or a pair, interpolated.
Between(t) ==
  IF t >= Latest THEN [a |-> Latest, b |-> Latest]
  ELSE IF t <= Earliest THEN [a |-> Earliest, b |-> Earliest]
  ELSE Bracket(t)

\* The fix is served or it misses the buffer.  One that is served may make the
\* detector clear an episode, clears, which re-anchors the reckoner and discards
\* the snapshots.
OnGps(raw, clears) ==
  LET t == Stamp("gps", SensorTime(raw))
  IN  /\ Align("gps", SensorTime(raw))
      /\ served' = IF InSpan(t)
                   THEN [t |-> t, arrival |-> clock, a |-> Between(t).a,
                         b |-> Between(t).b]
                   ELSE None
      /\ buf' = IF InSpan(t) /\ clears THEN <<>> ELSE buf
      /\ UNCHANGED <<clock, last_imu_mono, imu_arrival>>

Tick ==
  /\ clock < MaxTime
  /\ clock' = clock + 1
  /\ served' = None
  /\ UNCHANGED <<anchor, last_imu_mono, buf, last, imu_arrival>>

Next ==
  \/ Tick
  \/ \E raw \in SensorTimes : OnImu(raw)
  \/ \E raw \in SensorTimes, clears \in BOOLEAN : OnGps(raw, clears)

Spec == Init /\ [][Next]_vars
-----------------------------------------------------------------------------
(***************************************************************************)
(* Properties.                                                             *)
(***************************************************************************)
Anchors == [arrival : Int, sensor : Int]

\* Every variable has its type and the buffer respects its capacity.
TypeOK ==
  /\ clock \in 0 .. MaxTime
  /\ anchor \in [Streams -> Anchors \cup {None}]
  /\ last_imu_mono \in Int
  /\ buf \in Seq(Int)
  /\ Len(buf) <= Capacity
  /\ last \in [Streams -> [arrival : Int, sensor : Int, t : Int] \cup {None}]
  /\ imu_arrival \in 0 .. MaxTime
  /\ served \in [t : Int, arrival : Int, a : Int, b : Int] \cup {None}

\* Whatever the autopilot's clock does, a message is stamped within the allowed
\* skew of its arrival, on either side: no sensor time pulls a stamp out of the
\* range of the buffer (mav/mod.rs:672-699).
StampNearArrival ==
  \A s \in Streams : last[s] # None =>
    /\ last[s].t - last[s].arrival <= MaxSkew
    /\ last[s].arrival - last[s].t <= MaxSkew

\* The jitter of arrival does not reach the stamps: as long as the anchor of a
\* stream stays, two of its messages are as far apart as their sensor times,
\* also when messages without a sensor time came in between.
JitterFree ==
  [][\A s \in Streams :
       last[s] # None /\ last'[s] # None /\ anchor'[s] = anchor[s] =>
         last'[s].t - last[s].t = last'[s].sensor - last[s].sensor]_vars

\* A fix is never compared with a stalled IMU: the sample behind the newest
\* snapshot arrived at most the extrapolation limit, and the skew of both
\* streams, before the fix.
ServedOnFreshImu ==
  served # None =>
    served.arrival - imu_arrival <= MaxExtrapolation + 2 * MaxSkew

\* A fix inside the span of the buffer lies between the two snapshots it is
\* interpolated from, although stamps that step back at a new anchor leave the
\* buffer out of order: the factor is never clamped.
Bracketed ==
  served # None /\ served.a # served.b =>
    served.a < served.t /\ served.t <= served.b
=============================================================================
