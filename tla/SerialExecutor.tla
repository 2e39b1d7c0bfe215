--------------------------- MODULE SerialExecutor ---------------------------
(***************************************************************************)
(* What a DispatchQueue promises to the threads that use it, without the   *)
(* channel, the timer, the mutexes or the condition variables that keep    *)
(* the promise:                                                            *)
(*                                                                         *)
(*   - tasks are executed one at a time, each at most once, in the order   *)
(*     in which they were submitted;                                       *)
(*   - a caller that asked to wait for its task (DispatchQueue::sync) goes *)
(*     on only after the task was executed;                                *)
(*   - once a task has stopped the executor, or its last user has left it, *)
(*     it may execute nothing any more, and what is left in the inbox is   *)
(*     discarded with the executor.                                        *)
(*                                                                         *)
(* DispatchQueue!Spec implements this specification (DispatchQueue!SE).    *)
(***************************************************************************)
EXTENDS Naturals, Sequences

CONSTANTS
  Clients,   (* the threads that submit tasks                              *)
  Tasks,     (* the tasks that can be submitted, each at most once         *)
  Nil        (* no task                                                    *)

VARIABLES
  inbox,     (* tasks submitted and not executed, oldest first             *)
  executed,  (* tasks executed, in order of execution (history)            *)
  used,      (* tasks submitted so far                                     *)
  caller,    (* the task each client is waiting for, Nil if it is not      *)
  users,     (* clients that have not left                                 *)
  open       (* FALSE once the executor has stopped                        *)

vars == <<inbox, executed, used, caller, users, open>>

Init ==
  /\ inbox = <<>>
  /\ executed = <<>>
  /\ used = {}
  /\ caller = [c \in Clients |-> Nil]
  /\ users = Clients
  /\ open = TRUE

(***************************************************************************)
(* A thread submits task t; it is accepted even by a stopped executor.     *)
(***************************************************************************)
Submit(t) ==
  /\ t \notin used
  /\ used' = used \union {t}
  /\ inbox' = Append(inbox, t)
  /\ UNCHANGED <<executed, caller, users, open>>

(***************************************************************************)
(* Client c submits task t and waits for it.                               *)
(***************************************************************************)
Call(c, t) ==
  /\ c \in users
  /\ caller[c] = Nil
  /\ t \notin used
  /\ used' = used \union {t}
  /\ inbox' = Append(inbox, t)
  /\ caller' = [caller EXCEPT ![c] = t]
  /\ UNCHANGED <<executed, users, open>>

(***************************************************************************)
(* Client c goes on: the task it waited for was executed.                  *)
(***************************************************************************)
Return(c) ==
  /\ caller[c] \in {executed[i] : i \in 1 .. Len(executed)}
  /\ caller' = [caller EXCEPT ![c] = Nil]
  /\ UNCHANGED <<inbox, executed, used, users, open>>

(***************************************************************************)
(* The oldest task is executed.  While it runs it may submit one more task *)
(* or stop the executor.                                                   *)
(***************************************************************************)
Execute ==
  /\ open
  /\ inbox # <<>>
  /\ executed' = Append(executed, Head(inbox))
  /\ \/ /\ inbox' = Tail(inbox)
        /\ open' \in BOOLEAN
        /\ UNCHANGED used
     \/ \E t \in Tasks \ used :
          /\ inbox' = Append(Tail(inbox), t)
          /\ used' = used \union {t}
          /\ UNCHANGED open
  /\ UNCHANGED <<caller, users>>

(***************************************************************************)
(* Client c leaves; when nobody is left the executor need not go on.       *)
(***************************************************************************)
Leave(c) ==
  /\ c \in users
  /\ caller[c] = Nil
  /\ users' = users \ {c}
  /\ \/ UNCHANGED open
     \/ users' = {} /\ open' = FALSE
  /\ UNCHANGED <<inbox, executed, used, caller>>

(***************************************************************************)
(* A stopped executor is destroyed with what is left in its inbox.         *)
(***************************************************************************)
Discard ==
  /\ ~open
  /\ inbox # <<>>
  /\ inbox' = <<>>
  /\ UNCHANGED <<executed, used, caller, users, open>>

Next ==
  \/ \E t \in Tasks : Submit(t)
  \/ \E c \in Clients, t \in Tasks : Call(c, t)
  \/ \E c \in Clients : Return(c) \/ Leave(c)
  \/ Execute
  \/ Discard

Spec == Init /\ [][Next]_vars

(***************************************************************************)
(* An open executor keeps executing.                                       *)
(***************************************************************************)
FairSpec == Spec /\ WF_vars(Execute)
=============================================================================
