------------------------------ MODULE Requests ------------------------------
(***************************************************************************)
(* What Http promises to a script: a request that was sent is answered at  *)
(* most once, by a call of onload or of onfail, and not after the script   *)
(* has cancelled it or the Http is gone.                                   *)
(*                                                                         *)
(* HttpTask!Spec implements this specification (HttpTask!RQ).              *)
(***************************************************************************)
EXTENDS Sequences, Functions

CONSTANT Tasks     (* the requests that can be sent                        *)

VARIABLES
  sent,      (* requests handed to send()                                  *)
  answered,  (* requests answered, in order                                *)
  dropped,   (* requests cancelled                                         *)
  open       (* the Http exists                                            *)

vars == <<sent, answered, dropped, open>>

Init ==
  /\ sent = {}
  /\ answered = <<>>
  /\ dropped = {}
  /\ open = TRUE

Send(t) ==
  /\ open
  /\ t \notin sent
  /\ sent' = sent \union {t}
  /\ UNCHANGED <<answered, dropped, open>>

(***************************************************************************)
(* A request that cannot be made is answered before send() returns.        *)
(***************************************************************************)
Reject(t) ==
  /\ open
  /\ t \notin sent
  /\ sent' = sent \union {t}
  /\ answered' = Append(answered, t)
  /\ UNCHANGED <<dropped, open>>

Answer(t) ==
  /\ open
  /\ t \in sent \ (dropped \union Range(answered))
  /\ answered' = Append(answered, t)
  /\ UNCHANGED <<sent, dropped, open>>

Cancel(t) ==
  /\ t \in sent
  /\ dropped' = dropped \union {t}
  /\ UNCHANGED <<sent, answered, open>>

Shutdown ==
  /\ open
  /\ open' = FALSE
  /\ UNCHANGED <<sent, answered, dropped>>

Next ==
  \/ \E t \in Tasks : Send(t) \/ Reject(t) \/ Answer(t) \/ Cancel(t)
  \/ Shutdown

Spec == Init /\ [][Next]_vars
=============================================================================
