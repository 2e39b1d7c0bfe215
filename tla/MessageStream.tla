---------------------------- MODULE MessageStream ---------------------------
(***************************************************************************)
(* What a WebSocket promises its script: the messages of the peer are      *)
(* heard once each, whole and in order, between onopen and the end, and    *)
(* after the end nothing is.                                               *)
(***************************************************************************)
EXTENDS Naturals, Sequences

CONSTANT Messages

VARIABLES
  phase,     (* "connecting", "open", "ended"                              *)
  written,   (* the messages that the peer wrote                           *)
  received   (* the messages that the script heard                         *)

vars == <<phase, written, received>>

Init ==
  /\ phase = "connecting"
  /\ written = <<>>
  /\ received = <<>>

Write ==
  /\ phase # "ended"
  /\ written' # <<>>
  /\ LET m == written'[Len(written')] IN m \in Messages /\ written' = Append(written, m)
  /\ UNCHANGED <<phase, received>>

Open ==
  /\ phase = "connecting"
  /\ phase' = "open"
  /\ UNCHANGED <<written, received>>

Receive ==
  /\ phase = "open"
  /\ Len(received) < Len(written)
  /\ received' = Append(received, written[Len(received) + 1])
  /\ UNCHANGED <<phase, written>>

End ==
  /\ phase # "ended"
  /\ phase' = "ended"
  /\ UNCHANGED <<written, received>>

Next ==
  \/ Write
  \/ Open
  \/ Receive
  \/ End

Spec == Init /\ [][Next]_vars
=============================================================================
