------------------------------- MODULE Binary -------------------------------
(***************************************************************************)
(* kk-binary.cc: how the arguments of postMessage cross to another thread. *)
(* BinaryAlloc turns a value into a chain of nodes, BinaryAdd hangs a      *)
(* chain behind the last node of another, and BinaryPushContext turns a    *)
(* chain into values again.                                                *)
(*                                                                         *)
(* A value is [type, of]: "of" is empty but for arrays and for objects,    *)
(* whose keys and values alternate.  A node is its type.                   *)
(***************************************************************************)
EXTENDS Naturals, Sequences, SequencesExt

CONSTANT Values   (* the values that the scripts send, and their elements  *)

Containers == {"array", "object"}
Types ==
  {"undefined", "null", "boolean", "number", "string", "binary", "function"} \union Containers

ASSUME ValuesAssumption ==
  \A v \in Values :
    /\ v = [type |-> v.type, of |-> v.of]
    /\ v.type \in Types /\ v.of \in Seq(Values)
    /\ v.type \notin Containers => v.of = <<>>
    /\ v.type = "object" => Len(v.of) % 2 = 0

(***************************************************************************)
(* Values are finite trees: among any of them is one that contains none of *)
(* the others.  (BinaryAlloc does not end for an array in itself.)         *)
(***************************************************************************)
ASSUME FiniteAssumption ==
  \A S \in SUBSET Values : S # {} => \E v \in S : \A i \in DOMAIN v.of : v.of[i] \notin S

Plain(t) == [type |-> t, of |-> <<>>]

(***************************************************************************)
(* The first node: BinaryAlloc knows no null and no undefined.             *)
(***************************************************************************)
Node(v) == IF v.type \in {"null", "undefined"} THEN "nil" ELSE v.type

(***************************************************************************)
(* BinaryAdd, for all elements of a container or all arguments.            *)
(***************************************************************************)
AddMutant(chains) == [i \in DOMAIN chains |-> Head(chains[i])]   \* hangs behind the first node

Add(chains) == FlattenSeq(chains)

(***************************************************************************)
(* BinaryAlloc.  The end goes behind the first node of the last element,   *)
(* whatever hangs there.                                                   *)
(***************************************************************************)
Elements(chains) ==
  IF chains = <<>> THEN <<>> ELSE Append(Add(Front(chains)), Head(Last(chains)))

Alloc[v \in Values] ==
  IF v.type \in Containers
    THEN <<v.type>> \o Elements([i \in DOMAIN v.of |-> Alloc[v.of[i]]]) \o <<"end">>
    ELSE <<Node(v)>>

Chain(args) == Add([i \in DOMAIN args |-> Alloc[args[i]]])

(***************************************************************************)
(* BinaryPushContext calls itself for the elements of a container, so that *)
(* the containers that are being read are a stack: the arguments first,    *)
(* each with what it has got.  The loop over an array looks for the end at *)
(* each element, the one over an object at each key.                       *)
(***************************************************************************)
Put(stack, v) == [stack EXCEPT ![Len(stack)].of = Append(@, v)]

AtEnd(c) == c.type = "array" \/ (c.type = "object" /\ Len(c.of) % 2 = 0)

Push(stack, node) ==
  IF node \in Containers THEN Append(stack, Plain(node))
  ELSE IF node = "end" /\ AtEnd(Last(stack)) THEN Put(Front(stack), Last(stack))
  ELSE Put(stack, Plain(IF node \in {"nil", "end"} THEN "undefined" ELSE node))

Pushed(chain) ==
  LET after[n \in 0 .. Len(chain)] ==
        IF n = 0 THEN <<Plain("arguments")>> ELSE Push(after[n - 1], chain[n])
  IN after[Len(chain)]

(***************************************************************************)
(* At the end of the chain an array looks at a node that is not there; an  *)
(* object drops a key without a value, and goes to the one around it.      *)
(***************************************************************************)
FollowsNull(stack) == \E n \in DOMAIN stack : stack[n].type = "array"

Closed(stack) ==
  LET whole[n \in DOMAIN stack] ==
        LET of == IF n = Len(stack) THEN stack[n].of ELSE Append(stack[n].of, whole[n + 1]) IN
        [type |-> stack[n].type,
         of   |-> IF stack[n].type = "object" /\ Len(of) % 2 = 1 THEN Front(of) ELSE of]
  IN whole[1].of

(***************************************************************************)
(* What the receiver pushes, or Broken if it follows a null pointer or     *)
(* pushes fewer values than the n it calls onmessage with (which takes     *)
(* what is below them for arguments, and pops too much).                   *)
(***************************************************************************)
Broken == <<Plain("broken")>>

Received(args) ==
  LET stack == Pushed(Chain(args)) IN
  IF ~FollowsNull(stack) /\ Len(Closed(stack)) = Len(args) THEN Closed(stack) ELSE Broken

-----------------------------------------------------------------------------
(***************************************************************************)
(* What the receiver should get: there is no null among the nodes.         *)
(***************************************************************************)
Normal[v \in Values] ==
  [type |-> IF v.type = "null" THEN "undefined" ELSE v.type,
   of   |-> [i \in DOMAIN v.of |-> Normal[v.of[i]]]]

(***************************************************************************)
(* The values without a container that ends with a container.              *)
(***************************************************************************)
Flat(S) ==
  \A v \in S : Range(v.of) \subseteq S /\ (v.of = <<>> \/ Last(v.of).type \notin Containers)

Unnested == UNION {S \in SUBSET Values : Flat(S)}
=============================================================================
