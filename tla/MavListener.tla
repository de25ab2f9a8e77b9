----------------------------- MODULE MavListener ----------------------------
(***************************************************************************)
(* The MAVLink listener task of src/src/mav/mod.rs and the pipeline it     *)
(* feeds.  One task reads the socket, drops what the ingress filters and   *)
(* the source lock refuse, records heartbeats, acknowledgements and        *)
(* parameter echoes for the controller's read-backs, and sends GPS fixes   *)
(* and IMU samples into two bounded channels.  A send into a full channel  *)
(* waits, and while it waits nothing is read from the socket.              *)
(*                                                                         *)
(* A channel whose stream is the configured source is read by an ingest    *)
(* task, which passes one item at a time into the bounded channel of       *)
(* Fusion, whose loop takes an IMU sample whenever there is one.  The      *)
(* receiver of a stream that is not the configured source stays in a local *)
(* of the main function until the process ends: nobody reads it, and it is *)
(* not closed either.                                                      *)
(*                                                                         *)
(* A packet keeps what decides its way through the listener: its source,   *)
(* system, kind and the fields the plausibility gates look at, in the      *)
(* units of the wire.  Behind the listener items are counted, not named:   *)
(* no property here is about their content.                                *)
(* Shutdown, which closes the channels, is not modelled in this module.    *)
(***************************************************************************)
EXTENDS Integers

CONSTANTS
  Packets,      \* the datagrams that may arrive
  AllowedIp,    \* filter.allowed_source_ip, or None
  Sysid,        \* filter.autopilot_sysid, or None
  ExpectedPort, \* remote.port(), or None under allow_any_source_port
  Consumed,     \* the streams whose receiver an ingest task reads
  ListenerCap,  \* capacity of the listener's channels
  FusionCap,    \* capacity of Fusion's channels
  None

Streams == {"gps", "imu"}

ASSUME ListenerAssumption ==
  /\ \A p \in Packets : {"src", "sysid", "kind"} \subseteq DOMAIN p
  /\ None \notin {p.src : p \in Packets}
  /\ Consumed \subseteq Streams
  /\ ListenerCap \in Nat \ {0}
  /\ FusionCap \in Nat \ {0}

VARIABLES
  locked_source, \* MavMonitor::locked_source
  pc,            \* "recv", a stream whose send is waiting, or "dead"
  link,          \* fill of each listener channel
  hand,          \* the item an ingest task took and has not passed on yet
  inbox,         \* fill of each Fusion channel
  \* history, not part of the code
  used           \* source and system of the messages that were accepted

listenerVars == <<locked_source, pc, link, hand, inbox, used>>

ListenerInit ==
  /\ locked_source = None
  /\ pc = "recv"
  /\ link = [s \in Streams |-> 0]
  /\ hand = [s \in Streams |-> 0]
  /\ inbox = [s \in Streams |-> 0]
  /\ used = {}

(***************************************************************************)
(* Decoding and the plausibility gates.                                    *)
(***************************************************************************)

\* Long enough for a frame, and a frame of the version its first byte claims.
Parses(p) == p.kind # "garbage"

Absolute(x) == IF x < 0 THEN -x ELSE x

\* gps_from_msg: a message without a fix yields none.
GpsFromMsg(p) == p.kind = "GPS_RAW_INT" /\ p.fix_type >= 2

\* gps_fix_is_plausible in 1e-7 degrees and millimetres.  A speed or course
\* that fits its field is in range, and an integer field is finite.
GpsFixIsPlausible(p) ==
  /\ Absolute(p.lat) <= 900000000
  /\ Absolute(p.lon) <= 1800000000
  /\ Absolute(p.alt) <= 100000000

ScaledImu == {"SCALED_IMU", "SCALED_IMU2", "SCALED_IMU3"}
ImuFromMsg(p) == p.kind \in ScaledImu \cup {"HIGHRES_IMU"}

\* imu_sample_is_plausible.  acc is the largest acceleration: in milli-g, where
\* 20394 is the last value within 200 m/s2, or in m/s2 and possibly no number.
\* A rate in milliradians per second that fits its field is in range; gyro is
\* the largest rate in rad/s.
ImuSampleIsPlausible(p) ==
  IF p.kind \in ScaledImu
  THEN p.acc <= 20394
  ELSE /\ None \notin {p.acc, p.gyro}
       /\ p.acc <= 200
       /\ p.gyro <= 35

\* The channel the message goes to, or None: it is recorded in the monitor,
\* offered to the diagnostic channel, which never waits, or implausible.
StreamOf(p) ==
  IF GpsFromMsg(p) THEN IF GpsFixIsPlausible(p) THEN "gps" ELSE None
  ELSE IF ImuFromMsg(p) /\ ImuSampleIsPlausible(p) THEN "imu"
  ELSE None
-----------------------------------------------------------------------------
(***************************************************************************)
(* The listener.                                                           *)
(***************************************************************************)
IpAllowed(src) == AllowedIp = None \/ src.ip = AllowedIp
SysidAllowed(sysid) == Sysid = None \/ sysid = Sysid

\* Mutant: the lock is not consulted.
SourceAcceptedUnpinned(src) == ExpectedPort = None \/ src.port = ExpectedPort

\* check_or_lock_source answers yes to this source.
SourceAccepted(src) ==
  IF locked_source # None
  THEN locked_source = src
  ELSE ExpectedPort = None \/ src.port = ExpectedPort

Accepted(p) ==
  /\ Parses(p)
  /\ IpAllowed(p.src)
  /\ SysidAllowed(p.sysid)
  /\ SourceAccepted(p.src)

\* A dropped packet changes counters only.
ReceiveDropped(p) ==
  /\ pc = "recv"
  /\ ~Accepted(p)
  /\ UNCHANGED listenerVars

\* check_or_lock_source on a message of any kind: the first accepted source
\* becomes the lock.
LockSource(p) ==
  /\ pc = "recv"
  /\ Accepted(p)
  /\ locked_source' = p.src
  /\ used' = used \cup {[src |-> p.src, sysid |-> p.sysid]}

\* The listener is done with the message and reads the next packet.
ReceiveRecorded(p) ==
  /\ LockSource(p)
  /\ StreamOf(p) = None
  /\ UNCHANGED <<pc, link, hand, inbox>>

\* A plausible fix or sample: the listener starts its send.
ReceiveStream(p) ==
  /\ LockSource(p)
  /\ StreamOf(p) # None
  /\ pc' = StreamOf(p)
  /\ UNCHANGED <<link, hand, inbox>>

\* The send completes once the channel has room.
SendStream(s) ==
  /\ pc = s
  /\ link[s] < ListenerCap
  /\ link' = [link EXCEPT ![s] = @ + 1]
  /\ pc' = "recv"
  /\ UNCHANGED <<locked_source, hand, inbox, used>>

\* A fatal socket error ends the task; the supervisor then ends the process.
FatalRecvError ==
  /\ pc = "recv"
  /\ pc' = "dead"
  /\ UNCHANGED <<locked_source, link, hand, inbox, used>>

(***************************************************************************)
(* The ingest tasks and the loop of Fusion.                                *)
(***************************************************************************)

\* An ingest task takes the next item of its stream.
IngestTake(s) ==
  /\ s \in Consumed
  /\ hand[s] = 0
  /\ link[s] > 0
  /\ link' = [link EXCEPT ![s] = @ - 1]
  /\ hand' = [hand EXCEPT ![s] = 1]
  /\ UNCHANGED <<locked_source, pc, inbox, used>>

\* It passes the item on, waiting while the channel of Fusion is full.
IngestPass(s) ==
  /\ hand[s] = 1
  /\ inbox[s] < FusionCap
  /\ hand' = [hand EXCEPT ![s] = 0]
  /\ inbox' = [inbox EXCEPT ![s] = @ + 1]
  /\ UNCHANGED <<locked_source, pc, link, used>>

\* Mutant: a fix is served only together with a sample.
SelectableWithSample(s) == inbox[s] > 0 /\ inbox["imu"] > 0

\* The biased select of Fusion::run: a fix is taken only when no sample waits.
Selectable(s) ==
  /\ inbox[s] > 0
  /\ s = "gps" => inbox["imu"] = 0

FusionTake(s) ==
  /\ Selectable(s)
  /\ inbox' = [inbox EXCEPT ![s] = @ - 1]
  /\ UNCHANGED <<locked_source, pc, link, hand, used>>

Listener ==
  \/ \E p \in Packets : ReceiveDropped(p)
  \/ \E p \in Packets : ReceiveRecorded(p)
  \/ \E p \in Packets : ReceiveStream(p)
  \/ FatalRecvError
  \/ \E s \in Streams : SendStream(s)

Ingest(s) == IngestTake(s) \/ IngestPass(s)

RunLoop == \E s \in Streams : FusionTake(s)

ListenerNext ==
  \/ Listener
  \/ \E s \in Streams : Ingest(s)
  \/ RunLoop

\* The runtime polls a task that can make progress.  Nothing makes a packet
\* arrive, so only the listener's sends are fair, not its receives.
Fairness ==
  /\ \A s \in Streams : WF_listenerVars(SendStream(s))
  /\ \A s \in Streams : WF_listenerVars(Ingest(s))
  /\ WF_listenerVars(RunLoop)

ListenerSpec == ListenerInit /\ [][ListenerNext]_listenerVars /\ Fairness

-----------------------------------------------------------------------------

\* Over the whole life of the process, whatever arrives in whatever order,
\* every message that reached the monitor or a channel came from one single
\* (ip, port) pair and the configured system, which pass the filters; a packet
\* that a filter drops does not take the lock either (the check of every message
\* kind against the lock, mav/mod.rs:199-330).
OnePeer ==
  /\ \A m \in used :
       /\ m.src = locked_source
       /\ IpAllowed(m.src)
       /\ SysidAllowed(m.sysid)
       /\ ExpectedPort # None => m.src.port = ExpectedPort
  /\ locked_source # None => used # {}

\* A listener that waits for room in a channel that somebody reads comes back to
\* its socket: the chain of bounded channels always drains, although the loop of
\* Fusion serves samples before fixes, because a waiting listener adds no samples
\* (the sends, mav/mod.rs:343 and 353, and the biased select, fusion.rs:402).
ConsumedStreamsDrain == \A s \in Consumed : pc = s ~> pc = "recv"

\* What the process claims of every wiring, naming a MAVLink controller beside a
\* serial or I2C source as the example: it ends with an error rather than leave
\* the detector deaf on its command and verify link in silence
\* (bin/flyingsquirrel.rs:648-654).  A listener that waits in a send comes back
\* to its socket, whether or not somebody reads the stream.
NeverSilentlyDeaf == pc \in Streams ~> pc = "recv"
=============================================================================
