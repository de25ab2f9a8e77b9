---------------------------- MODULE MCMavListener ---------------------------
(***************************************************************************)
(* Instances of MavListener for TLC: the autopilot, another process and    *)
(* another system on the same host, and another host, each with messages   *)
(* on either side of every gate.  Both streams come over MAVLink, or, in   *)
(* MCMavListenerUnread, neither does and the link serves the controller.   *)
(***************************************************************************)
EXTENDS MavListener, TLC

Peers == {[ip |-> "autopilot", port |-> 14550],
          [ip |-> "autopilot", port |-> 40000],
          [ip |-> "elsewhere", port |-> 14550]}

Fix(type, lat, alt) ==
  [kind |-> "GPS_RAW_INT", fix_type |-> type, lat |-> lat, lon |-> 0,
   alt |-> alt]

Imu(kind, acc, gyro) == [kind |-> kind, acc |-> acc, gyro |-> gyro]

Messages ==
  {[kind |-> "garbage"], [kind |-> "HEARTBEAT"],
   Fix(1, 0, 0), Fix(2, 900000000, 0), Fix(3, 0, -100000000),
   Fix(3, -900000001, 0), Fix(3, 0, 100000001),
   Imu("HIGHRES_IMU", 200, 35), Imu("HIGHRES_IMU", None, 0),
   Imu("HIGHRES_IMU", 0, 36), Imu("SCALED_IMU", 20394, 0),
   Imu("SCALED_IMU2", 20395, 0), Imu("SCALED_IMU3", 0, 0)}

Datagrams ==
  {[src |-> s, sysid |-> i] @@ m : s \in Peers, i \in {1, 2}, m \in Messages}

\* Both streams come over MAVLink.
BothConsumed == {"gps", "imu"}
=============================================================================
