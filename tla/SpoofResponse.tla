--------------------------- MODULE SpoofResponse ---------------------------
(***************************************************************************)
(* What the detector promises the operator, without saying how it decides: *)
(* an alarm that is raised, dismissed or latched, and for every latch one  *)
(* response, in which the autopilot is first told to stop using GPS and    *)
(* then to return.  A latch is released by the operator only, and only     *)
(* when its response is complete.                                          *)
(***************************************************************************)

VARIABLES
  alarm,    \* "clear", "raised" or "latched"
  response  \* how far the response to the latch has come

svars == <<alarm, response>>

Init == alarm = "clear" /\ response = "none"

Raise == alarm = "clear" /\ alarm' = "raised" /\ UNCHANGED response

Dismiss == alarm = "raised" /\ alarm' = "clear" /\ UNCHANGED response

Latch == alarm = "raised" /\ alarm' = "latched" /\ UNCHANGED response

SeverGps ==
  /\ alarm = "latched" /\ response = "none"
  /\ response' = "severed"
  /\ UNCHANGED alarm

ReturnToBase ==
  /\ alarm = "latched" /\ response = "severed"
  /\ response' = "returning"
  /\ UNCHANGED alarm

Release ==
  /\ alarm = "latched" => response = "returning"
  /\ alarm' = "clear"
  /\ response' = "none"

Next == Raise \/ Dismiss \/ Latch \/ SeverGps \/ ReturnToBase \/ Release

Spec ==
  /\ Init
  /\ [][Next]_svars
  /\ WF_svars(SeverGps)
  /\ WF_svars(ReturnToBase)
=============================================================================
