---------------------------- MODULE MCEventTimer ----------------------------
(***************************************************************************)
(* An instance of EventTimer for TLC: two of the three addresses print     *)
(* alike.                                                                  *)
(***************************************************************************)
EXTENDS EventTimer, TLC

CONSTANTS a1, a2, a3, x, y

Truncated == (a1 :> x) @@ (a2 :> x) @@ (a3 :> y)
=============================================================================
