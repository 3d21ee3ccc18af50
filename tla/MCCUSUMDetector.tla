--------------------------- MODULE MCCUSUMDetector ---------------------------
(***************************************************************************)
(* Bounded instances of CUSUMDetector; the .cfg files give the values.     *)
(* One step is half a standard unit, so that k = 0.5 and h = 5.0 are the   *)
(* integers 1 and 10.                                                      *)
(***************************************************************************)
EXTENDS CUSUMDetector

\* In control, inside the slack, a step up and a step down.
MCValues == {-6, 0, 4, 14}
=============================================================================
