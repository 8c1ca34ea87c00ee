---------------------------- MODULE MCCheckQueue ----------------------------
(***************************************************************************)
(* Two workers and the master, and blocks of up to three checks, one of    *)
(* them bad.                                                               *)
(***************************************************************************)
EXTENDS CheckQueue

CONSTANTS w1, w2, c1, c2, c3

MCWorkers == {w1, w2}
MCChecks == {c1, c2, c3}
MCBad == {c3}
=============================================================================
