------------------------------ MODULE Ownership ------------------------------
(***************************************************************************)
(* What reference counting promises, without counts, queues or mutexes:    *)
(* an object is created with a holder, a holder can be added only while    *)
(* there is one, and an object is reclaimed at most once and only after    *)
(* its last holder has let go.  RefCount implements this specification     *)
(* when its threads use no Weak variables or there is only one thread, and *)
(* otherwise until a Weak revives an object.                               *)
(***************************************************************************)
CONSTANTS
  Objects,
  Tokens     (* whatever can hold a reference                              *)

VARIABLES
  born,      (* objects created so far                                     *)
  gone,      (* objects reclaimed so far                                   *)
  refs       (* the holders of each object                                 *)

vars == <<born, gone, refs>>

Init ==
  /\ born = {}
  /\ gone = {}
  /\ refs = [o \in Objects |-> {}]

Create(o, h) ==
  /\ o \notin born
  /\ born' = born \union {o}
  /\ refs' = [refs EXCEPT ![o] = {h}]
  /\ UNCHANGED gone

Acquire(o, h) ==
  /\ refs[o] # {}
  /\ h \notin refs[o]
  /\ refs' = [refs EXCEPT ![o] = @ \union {h}]
  /\ UNCHANGED <<born, gone>>

Drop(o, h) ==
  /\ h \in refs[o]
  /\ refs' = [refs EXCEPT ![o] = @ \ {h}]
  /\ UNCHANGED <<born, gone>>

(***************************************************************************)
(* A reference moves from one holder to another.                           *)
(***************************************************************************)
Pass(o, g, h) ==
  /\ g \in refs[o]
  /\ h \notin refs[o]
  /\ refs' = [refs EXCEPT ![o] = (@ \ {g}) \union {h}]
  /\ UNCHANGED <<born, gone>>

Reclaim(o) ==
  /\ o \in born \ gone
  /\ refs[o] = {}
  /\ gone' = gone \union {o}
  /\ UNCHANGED <<born, refs>>

Next ==
  \E o \in Objects :
    \/ \E h \in Tokens : Create(o, h) \/ Acquire(o, h) \/ Drop(o, h)
    \/ \E g, h \in Tokens : Pass(o, g, h)
    \/ Reclaim(o)

Spec == Init /\ [][Next]_vars
=============================================================================
