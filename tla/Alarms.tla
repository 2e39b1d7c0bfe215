------------------------------- MODULE Alarms -------------------------------
(***************************************************************************)
(* What setTimeout, setInterval and their clear functions promise a        *)
(* script: an alarm rings only while it is armed; one that was cancelled   *)
(* never rings again; one that is not repeating rings once; and no alarm   *)
(* rings while another does.  EventTimer implements this specification.    *)
(***************************************************************************)
CONSTANTS
  Timers,
  Nil        (* no timer                                                   *)

VARIABLES
  made,      (* the alarms set so far                                      *)
  every,     (* those of them that repeat                                  *)
  armed,     (* those that can still ring                                  *)
  ringing    (* the alarm whose function is being called, or Nil           *)

vars == <<made, every, armed, ringing>>

Init ==
  /\ made = {}
  /\ every = {}
  /\ armed = {}
  /\ ringing = Nil

(***************************************************************************)
(* A new alarm, which may cost others their place.                         *)
(***************************************************************************)
Set(t) ==
  /\ t \notin made
  /\ made' = made \union {t}
  /\ every' \in {every, every \union {t}}
  /\ \E gone \in SUBSET armed : armed' = (armed \ gone) \union {t}
  /\ UNCHANGED ringing

Cancel ==
  /\ \E gone \in SUBSET armed : armed' = armed \ gone
  /\ UNCHANGED <<made, every, ringing>>

Ring(t) ==
  /\ ringing = Nil
  /\ t \in armed
  /\ ringing' = t
  /\ armed' = IF t \in every THEN armed ELSE armed \ {t}
  /\ UNCHANGED <<made, every>>

Silence ==
  /\ ringing # Nil
  /\ ringing' = Nil
  /\ UNCHANGED <<made, every, armed>>

Next ==
  \/ \E t \in Timers : Set(t) \/ Ring(t)
  \/ Cancel
  \/ Silence

Spec == Init /\ [][Next]_vars
=============================================================================
