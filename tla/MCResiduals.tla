---------------------------- MODULE MCResiduals -----------------------------
(***************************************************************************)
(* An instance of Residuals for TLC.                                       *)
(***************************************************************************)
EXTENDS Residuals

Every == -MaxTime .. MaxTime

Honest == [kind |-> "honest", fix_type |-> 3, n |-> 3, e |-> -4, mag |-> 5,
           dvel |-> 5, dvel_free |-> 2, maneuvering |-> FALSE,
           vel |-> 1200, cog |-> 9000, eph |-> 80, sats |-> 12,
           moved |-> 12, imu_speed |-> 12, alt |-> 0]

Poor == [Honest EXCEPT !.eph = 900, !.sats = 4]

Kinds == {
  Honest,
  [Honest EXCEPT !.kind = "nofix", !.fix_type = 1],
  [Honest EXCEPT !.kind = "offset", !.n = -50, !.e = 0, !.mag = 50],
  [Poor EXCEPT !.kind = "circle", !.n = 35, !.e = -35, !.mag = 50],
  [Poor EXCEPT !.kind = "circle", !.n = -35, !.e = 35, !.mag = 50],
  [Honest EXCEPT !.kind = "mismatch", !.dvel = 90],
  [Honest EXCEPT !.kind = "blind", !.cog = 36000, !.n = 40, !.e = 0,
                 !.mag = 40, !.eph = U16Unknown, !.sats = U8Unknown],
  [Honest EXCEPT !.kind = "walkoff", !.dvel_free = 22],
  [Honest EXCEPT !.kind = "turn", !.dvel_free = 22, !.maneuvering = TRUE],
  [Honest EXCEPT !.kind = "stuck", !.moved = 0],
  [Honest EXCEPT !.kind = "creep", !.moved = 2, !.alt = 90]
}
=============================================================================
