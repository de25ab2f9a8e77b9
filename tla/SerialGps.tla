----------------------------- MODULE SerialGps ------------------------------
(***************************************************************************)
(* The serial GPS source: the reconnect loop and the connection of         *)
(* src/src/hw/serial_gps.rs, with the codec and the link-health tracker    *)
(* LinkHealth of src/src/hw/nmea_link.rs.                                  *)
(*                                                                         *)
(* A connection reads whatever the codec frames and, at a fixed interval,  *)
(* asks the tracker what the link is doing.  The tracker names the stage   *)
(* of the pipeline the data does not reach, after a period of grace, and   *)
(* again while it lasts; it never ends a connection.  What is on the wire  *)
(* is external and abstracted to how far it gets: bytes of a line that is  *)
(* not finished, a line or a discarded buffer that is no sentence, and a   *)
(* sentence with its outcome.  Time is counted from the opening of the     *)
(* port.                                                                   *)
(***************************************************************************)
EXTENDS Integers

CONSTANTS
  ActivityWindow,   \* ACTIVITY_WINDOW
  QuietLinkGrace,   \* QUIET_LINK_GRACE
  NoFixGrace,       \* NO_FIX_GRACE
  RepeatInterval,   \* REPEAT_INTERVAL
  PollInterval,     \* HEALTH_POLL_INTERVAL
  BackoffInitial,   \* RECONNECT_BACKOFF_INITIAL
  BackoffMax,       \* RECONNECT_BACKOFF_MAX
  None,             \* Option::None
  MaxTime           \* bound of the model: the latest instant of a connection

\* The states a report may name.
LinkStates == {"NoBytes", "NoSentences", "NoFix", "FixesRejected"}

\* The relations between the source's constants that the properties rest on.
ASSUME LinkAssumption ==
  /\ {ActivityWindow, QuietLinkGrace, NoFixGrace, RepeatInterval, PollInterval}
       \subseteq Nat \ {0}
  /\ {BackoffInitial, BackoffMax, MaxTime} \subseteq Nat \ {0}
  /\ PollInterval < ActivityWindow
  /\ ActivityWindow <= NoFixGrace
  /\ QuietLinkGrace <= NoFixGrace
  /\ BackoffInitial <= BackoffMax
  /\ None \notin Nat \cup LinkStates

VARIABLES
  pc,                 \* "opening", "connected" or "asleep"
  backoff,            \* delay before the next attempt
  now,                \* time since the port opened
  probe,              \* when the next tick of the health interval is due
  unobserved,         \* bytes_seen of the codec is ahead of counts.bytes
  last_byte_at,       \* LinkHealth
  last_nmea_line_at,
  last_fix_at,
  rejected,           \* rejected_since_fix > 0
  last_report_at,
  reported,           \* the state of the last trouble report, or None
  \* external
  present,            \* the device can be opened
  \* history, not part of the code
  arrived,            \* when the last byte arrived on the wire, or None
  yielded,            \* when the last fix was yielded, 0 before the first
  said                \* what the step just taken logged, or None

stamps == <<last_byte_at, last_nmea_line_at, last_fix_at, rejected>>
reports == <<last_report_at, reported>>
wire == <<arrived, yielded>>
gpsVars == <<pc, backoff, now, probe, unobserved, stamps, reports, present,
          wire, said>>

-----------------------------------------------------------------------------
(***************************************************************************)
(* The reconnect loop.                                                     *)
(***************************************************************************)

\* A new codec, a new tracker and a new interval for each connection.
NewConnection ==
  /\ now' = 0
  /\ probe' = PollInterval
  /\ unobserved' = FALSE
  /\ last_byte_at' = None
  /\ last_nmea_line_at' = None
  /\ last_fix_at' = None
  /\ rejected' = FALSE
  /\ last_report_at' = None
  /\ reported' = None
  /\ arrived' = None
  /\ yielded' = 0
  /\ said' = None

GpsInit ==
  /\ pc = "opening"
  /\ backoff = BackoffInitial
  /\ now = 0
  /\ probe = PollInterval
  /\ unobserved = FALSE
  /\ last_byte_at = None
  /\ last_nmea_line_at = None
  /\ last_fix_at = None
  /\ rejected = FALSE
  /\ last_report_at = None
  /\ reported = None
  /\ present \in BOOLEAN
  /\ arrived = None
  /\ yielded = 0
  /\ said = None

\* A clean open resets the backoff.
OpenPort ==
  /\ pc = "opening"
  /\ present
  /\ pc' = "connected"
  /\ backoff' = BackoffInitial
  /\ NewConnection
  /\ UNCHANGED present

OpenFails ==
  /\ pc = "opening"
  /\ ~present
  /\ pc' = "asleep"
  /\ said' = None
  /\ UNCHANGED <<backoff, now, probe, unobserved, stamps, reports, present,
                 wire>>

\* End of file, or an I/O error: the connection is over.  A framing fault is
\* neither.
Disconnected ==
  /\ pc = "connected"
  /\ pc' = "asleep"
  /\ NewConnection
  /\ UNCHANGED <<backoff, present>>

DoubledBackoff == IF 2 * backoff <= BackoffMax THEN 2 * backoff ELSE BackoffMax

\* Mutant: no attempt after the longest delay.
WakeUnlessMax ==
  /\ pc = "asleep"
  /\ backoff < BackoffMax
  /\ pc' = "opening"
  /\ backoff' = DoubledBackoff
  /\ said' = None
  /\ UNCHANGED <<now, probe, unobserved, stamps, reports, present, wire>>

\* The sleep is over; the delay of the next attempt doubles.
Wake ==
  /\ pc = "asleep"
  /\ pc' = "opening"
  /\ backoff' = DoubledBackoff
  /\ said' = None
  /\ UNCHANGED <<now, probe, unobserved, stamps, reports, present, wire>>

\* The device is plugged in or disappears while the port is closed.
Replug ==
  /\ pc # "connected"
  /\ present' = ~present
  /\ said' = None
  /\ UNCHANGED <<pc, backoff, now, probe, unobserved, stamps, reports, wire>>
-----------------------------------------------------------------------------
(***************************************************************************)
(* What arrives on the port.  The codec counts every byte, and any framed  *)
(* item also tells the tracker that bytes arrived.                         *)
(***************************************************************************)
Arrival ==
  /\ pc = "connected"
  /\ arrived' = now
  /\ unobserved' = TRUE
  /\ said' = None
  /\ UNCHANGED <<pc, backoff, now, probe, reports, present>>

\* Bytes of a line that is not finished: the codec yields nothing.
PartialLine ==
  /\ Arrival
  /\ UNCHANGED <<stamps, yielded>>

\* A line without '$', a line that is not UTF-8, a discarded buffer.
NoSentence ==
  /\ Arrival
  /\ last_byte_at' = now
  /\ UNCHANGED <<last_nmea_line_at, last_fix_at, rejected, yielded>>

\* A sentence that does not decode, or decodes without a position.
FixlessSentence ==
  /\ Arrival
  /\ last_byte_at' = now
  /\ last_nmea_line_at' = now
  /\ UNCHANGED <<last_fix_at, rejected, yielded>>

\* A plausible fix, which is yielded.
Fix ==
  /\ Arrival
  /\ last_byte_at' = now
  /\ last_nmea_line_at' = now
  /\ last_fix_at' = now
  /\ rejected' = FALSE
  /\ yielded' = now

\* Mutant: a refused fix counts as a fix.
ImplausibleFixCounts ==
  /\ Arrival
  /\ last_byte_at' = now
  /\ last_nmea_line_at' = now
  /\ last_fix_at' = now
  /\ rejected' = TRUE
  /\ UNCHANGED yielded

\* A fix the plausibility gate refuses.
ImplausibleFix ==
  /\ Arrival
  /\ last_byte_at' = now
  /\ last_nmea_line_at' = now
  /\ rejected' = TRUE
  /\ UNCHANGED <<last_fix_at, yielded>>
-----------------------------------------------------------------------------
(***************************************************************************)
(* The probe: observe_bytes, then poll.                                    *)
(***************************************************************************)

\* Mutant: bytes of an unfinished line are not looked at.
ObservedByteUnread == last_byte_at

ObservedByte == IF unobserved THEN now ELSE last_byte_at

Recent(t) == t # None /\ now - t < ActivityWindow

\* classify, with the bytes just observed.
LinkState ==
  IF Recent(last_fix_at) THEN "Healthy"
  ELSE IF ~Recent(ObservedByte) THEN "NoBytes"
  ELSE IF ~Recent(last_nmea_line_at) THEN "NoSentences"
  ELSE IF rejected THEN "FixesRejected"
  ELSE "NoFix"

Grace(state) == IF state = "NoFix" THEN NoFixGrace ELSE QuietLinkGrace

SilentFor == IF last_fix_at = None THEN now ELSE now - last_fix_at

ReportDue ==
  /\ SilentFor >= Grace(LinkState)
  /\ last_report_at # None => now - last_report_at >= RepeatInterval

ProbeDue ==
  /\ pc = "connected"
  /\ now >= probe
  /\ probe' = now + PollInterval
  /\ last_byte_at' = ObservedByte
  /\ unobserved' = FALSE
  /\ UNCHANGED <<pc, backoff, now, last_nmea_line_at, last_fix_at, rejected,
                 present, wire>>

\* Mutant: recovery leaves the repeat timer running.
ProbeHealthyKeepsTimer ==
  /\ ProbeDue
  /\ LinkState = "Healthy"
  /\ said' = IF reported = None THEN None ELSE "Recovered"
  /\ reported' = None
  /\ UNCHANGED last_report_at

\* Recovered is said once, and both report fields are cleared.
ProbeHealthy ==
  /\ ProbeDue
  /\ LinkState = "Healthy"
  /\ said' = IF reported = None THEN None ELSE "Recovered"
  /\ reported' = None
  /\ last_report_at' = IF reported = None THEN last_report_at ELSE None

ProbeTrouble ==
  /\ ProbeDue
  /\ LinkState # "Healthy"
  /\ ReportDue
  /\ said' = LinkState
  /\ reported' = LinkState
  /\ last_report_at' = now

ProbeQuiet ==
  /\ ProbeDue
  /\ LinkState # "Healthy"
  /\ ~ReportDue
  /\ said' = None
  /\ UNCHANGED reports

\* The select is not biased, so a due tick is served before time passes.
Tick ==
  /\ pc = "connected"
  /\ now < MaxTime
  /\ now < probe
  /\ now' = now + 1
  /\ said' = None
  /\ UNCHANGED <<pc, backoff, probe, unobserved, stamps, reports, present,
                 wire>>

GpsNext ==
  \/ OpenPort \/ OpenFails \/ Disconnected \/ Wake \/ Replug
  \/ PartialLine \/ NoSentence \/ FixlessSentence \/ Fix \/ ImplausibleFix
  \/ ProbeHealthy \/ ProbeTrouble \/ ProbeQuiet
  \/ Tick

\* The task runs: it tries to open and its sleeps end.
GpsSpec ==
  /\ GpsInit
  /\ [][GpsNext]_gpsVars
  /\ WF_gpsVars(OpenPort \/ OpenFails)
  /\ WF_gpsVars(Wake)
-----------------------------------------------------------------------------
(***************************************************************************)
(* Properties.                                                             *)
(***************************************************************************)
\* "No bytes at all on the port" is said only when none arrived during the
\* activity window: half a sentence, which the codec never yields, is enough to
\* rule it out (nmea_link.rs:100-108).
NoBytesIsTrue ==
  said = "NoBytes" /\ arrived # None => now - arrived >= ActivityWindow

\* Time since a plausible fix last left the source, or since the port opened.
Fixless == now - yielded

\* A link that delivers no plausible fix cannot stay unreported, whatever else
\* arrives on it, implausible fixes included, and however the diagnosis changes:
\* one probe after the longest grace a report is standing.
FixlessLinkReported ==
  pc = "connected" /\ Fixless >= NoFixGrace + PollInterval => reported # None

\* A standing report is withdrawn within one probe of the next fix, and the
\* repeat timer does not outlive it to hold back the report of a new episode.
ReportWithdrawn ==
  /\ reported # None /\ yielded > last_report_at => Fixless <= PollInterval
  /\ reported = None => last_report_at = None

\* A device that is there gets opened, however often it was not.
PortReopened == pc # "connected" ~> (pc = "connected" \/ ~present)
=============================================================================
