-------------------------- MODULE ScriptHeapProofs --------------------------
(***************************************************************************)
(* Proofs about ScriptHeap for any number of addresses, script::Objects,   *)
(* emitters and WeakMaps, and any keys that the addresses show.            *)
(***************************************************************************)
EXTENDS ScriptHeap, TLAPS

(***************************************************************************)
(* The inductive invariant, in named parts, which hold as long as no freed *)
(* object was used.                                                        *)
(*                                                                         *)
(* Stores: the histories are about addresses that are stored; what is      *)
(* stored is in the heap or known to be stale; a script::Object and an     *)
(* emitter store one address at most.                                      *)
(***************************************************************************)
Owners == Handles \union Emitters

Stores ==
  /\ \A x \in Holders, a \in Addrs :
       <<x, a>> \in stale \/ <<x, a>> \in unrooted => a \in ptr[x]
  /\ \A x \in Holders : \A a \in ptr[x] : a \in heap \/ <<x, a>> \in stale
  /\ \A x \in Owners : \A a, b \in ptr[x] : a = b

(***************************************************************************)
(* Roots: what a script::Object or an emitter stores is rooted, unless     *)
(* somebody took the root away.                                            *)
(***************************************************************************)
Roots ==
  open => \A x \in Owners : \A a \in ptr[x] : a \in rooted \/ <<x, a>> \in unrooted

(***************************************************************************)
(* Lost: so nobody else's function or shell is freed.                      *)
(***************************************************************************)
Lost ==
  open => \A x \in Owners, a \in Addrs : <<x, a>> \in stale => <<x, a>> \in unrooted

(***************************************************************************)
(* Reached: what a script, a root or an object of the heap refers to has   *)
(* not been freed, and finalizers are due only for what was.               *)
(***************************************************************************)
Reached ==
  /\ rooted \subseteq heap
  /\ held \intersect Addrs \subseteq heap /\ held \intersect Maps \subseteq live
  /\ held \intersect final = {}
  /\ final \intersect heap = {}
  /\ watched \subseteq heap \union final
  /\ ~open => final = {}
  /\ \A a \in heap : proto[a] = "none" \/ proto[a] \in heap

(***************************************************************************)
(* Registered: whoever a WeakObject tells exists and stores the object it  *)
(* hangs on, unless it was registered with a prototype.                    *)
(***************************************************************************)
Registered ==
  \A a \in Addrs : \A x \in watch[a] :
    /\ a \in watched
    /\ x \in misled \/ (x \in live /\ a \in ptr[x])

(***************************************************************************)
(* Keys: a WeakMap is told of each of its keys, and has a value for it     *)
(* unless another key shows the same 32 bits.                              *)
(***************************************************************************)
Keys ==
  \A m \in Maps \ misled : \A a \in ptr[m] :
    /\ m \in watch[a]
    /\ <<m, a>> \notin stale \/ a \in final
    /\ a \in slot[m] \/ SameKey({a}) # {a}

(***************************************************************************)
(* Shells: an emitter is registered once, with its shell or with the       *)
(* prototype of its shell; a shell's emitter is alive and stores it.       *)
(***************************************************************************)
Shells ==
  /\ \A a \in Addrs, e \in Emitters : e \in watch[a] =>
       /\ ptr[e] # {}
       /\ \A b \in ptr[e] : b = a \/ (proto[b] = a /\ b \notin watched) \/ <<e, b>> \in stale
       /\ \A b \in Addrs : e \in watch[b] => b = a
  /\ \A a \in heap : object[a] \in Emitters =>
       /\ object[a] \in live
       /\ ptr[object[a]] = {a}
       /\ <<object[a], a>> \notin stale

Sound == Stores /\ Roots /\ Reached /\ Registered /\ Keys /\ Shells

IInv == TypeOK /\ Lost /\ (~crashed => Sound)

-----------------------------------------------------------------------------
(***************************************************************************)
(* Pairs of a holder and an address, in what is stored and in the          *)
(* histories after a step.                                                 *)
(***************************************************************************)
LEMMA StoredPairs ==
  ASSUME NEW X, NEW A, NEW x, NEW a
  PROVE  <<x, a>> \in Stored(X, A) <=> x \in X /\ a \in A /\ a \in ptr[x]
  BY DEF Stored, StoredBy

LEMMA StoredType ==
  ASSUME TypeOK, NEW X \in SUBSET Holders, NEW A
  PROVE  Stored(X, A) \in SUBSET Pairs
  BY DEF Stored, StoredBy, TypeOK, Pairs

LEMMA FollowPairs ==
  ASSUME NEW N, NEW U, Follow(N, U), NEW x, NEW a
  PROVE  /\ <<x, a>> \in stale' <=> (<<x, a>> \in stale \/ <<x, a>> \in N) /\ a \in ptr'[x]
         /\ <<x, a>> \in unrooted' <=> (<<x, a>> \in unrooted \/ <<x, a>> \in U) /\ a \in ptr'[x]
  BY DEF Follow

LEMMA FollowNone ==
  ASSUME NEW U, Follow({}, U), NEW x, NEW a
  PROVE  /\ <<x, a>> \in stale' <=> <<x, a>> \in stale /\ a \in ptr'[x]
         /\ <<x, a>> \in unrooted' <=> (<<x, a>> \in unrooted \/ <<x, a>> \in U) /\ a \in ptr'[x]
  BY DEF Follow

LEMMA StaleKept ==
  ASSUME Stores, NEW U, Follow({}, U), NEW x \in Holders, NEW a \in Addrs, ptr'[x] = ptr[x]
  PROVE  <<x, a>> \in stale' <=> <<x, a>> \in stale
<1>1. <<x, a>> \in stale' <=> <<x, a>> \in stale /\ a \in ptr'[x]
  BY FollowNone
<1> QED
  BY <1>1 DEF Stores

LEMMA FollowType ==
  ASSUME TypeOK, NEW N \in SUBSET Pairs, NEW U \in SUBSET Pairs, Follow(N, U)
  PROVE  stale' \in SUBSET Pairs /\ unrooted' \in SUBSET Pairs
  BY DEF Follow, TypeOK

(***************************************************************************)
(* An object shows the same bits as itself; who shares an object's bits    *)
(* shares them both ways.                                                  *)
(***************************************************************************)
LEMMA SameKeyFacts ==
  /\ \A a \in Addrs : a \in SameKey({a})
  /\ \A a, b \in Addrs : b \in SameKey({a}) => a \in SameKey({b})
  /\ \A A : SameKey(A) \subseteq Addrs
  /\ \A A : \A a \in A : SameKey({a}) \subseteq SameKey(A)
  BY DEF SameKey

LEMMA SameKeyKept ==
  ASSUME UNCHANGED key, NEW A
  PROVE  SameKey(A)' = SameKey(A)
  BY DEF SameKey

(***************************************************************************)
(* The initial states satisfy the inductive invariant.                     *)
(***************************************************************************)
LEMMA InitIInv == Init => IInv
<1> SUFFICES ASSUME Init PROVE IInv
  OBVIOUS
<1> USE DEF Init
<1>1. TypeOK
  BY DEF TypeOK, Holders
<1>2. Lost /\ Stores /\ Roots
  BY DEF Lost, Stores, Roots, Owners, Holders
<1>3. Reached /\ Registered /\ Keys
  BY DEF Reached, Registered, Keys, Holders
<1>4. Shells
  BY KindsAssumption DEF Shells, Holders
<1> QED
  BY <1>1, <1>2, <1>3, <1>4 DEF IInv, Sound

-----------------------------------------------------------------------------
(***************************************************************************)
(* Steps that leave the holders, the roots and the WeakObjects alone: a    *)
(* reference of a script is dropped or gained, an emitter or a WeakMap is  *)
(* made.                                                                   *)
(***************************************************************************)
LEMMA HeldIInv ==
  ASSUME IInv, ~crashed, TypeOK',
         held' \intersect Addrs \subseteq heap, held' \intersect Maps \subseteq live',
         held' \intersect final = {}, live \subseteq live',
         UNCHANGED <<fixed, heap, proto, object, rooted, ptr, watched, watch, slot, final, crashed,
                     histories, misled>>
  PROVE  IInv'
<1> USE DEF fixed, histories
<1>a. TypeOK /\ Lost /\ Stores /\ Roots /\ Reached /\ Registered /\ Keys /\ Shells
  BY DEF IInv, Sound
<1>1. Lost' /\ Stores' /\ Roots'
  BY <1>a DEF Lost, Stores, Roots
<1>2. Reached' /\ Registered'
  BY <1>a DEF Reached, Registered
<1>3. Keys'
  BY <1>a, SameKeyKept DEF Keys
<1>4. Shells'
  BY <1>a DEF Shells
<1> QED
  BY <1>1, <1>2, <1>3, <1>4 DEF IInv, Sound

LEMMA DropIInv ==
  ASSUME IInv, NEW x, Drop(x)
  PROVE  IInv'
<1> USE DEF Drop, Running, Quiet, fixed, holderVars
<1>a. TypeOK /\ Reached
  BY DEF IInv, Sound
<1>1. TypeOK'
  BY <1>a DEF TypeOK, histories
<1>2. held' \intersect Addrs \subseteq heap /\ held' \intersect Maps \subseteq live' /\ held' \intersect final = {}
  BY <1>a DEF Reached
<1> QED
  BY <1>1, <1>2, HeldIInv

LEMMA MakeIInv ==
  ASSUME IInv, NEW e \in Emitters, Make(e)
  PROVE  IInv'
<1> USE DEF Make, Quiet, scriptVars
<1>a. TypeOK /\ Reached
  BY DEF IInv, Sound
<1>1. TypeOK'
  BY <1>a DEF TypeOK, histories, fixed
<1>2. held' \intersect Addrs \subseteq heap /\ held' \intersect Maps \subseteq live' /\ held' \intersect final = {}
  BY <1>a DEF Reached
<1> QED
  BY <1>1, <1>2, HeldIInv

LEMMA NewMapIInv ==
  ASSUME IInv, NEW m \in Maps, NewMap(m)
  PROVE  IInv'
<1> USE DEF NewMap, Running, Quiet
<1>a. TypeOK /\ Reached
  BY DEF IInv, Sound
<1>1. TypeOK'
  BY <1>a DEF TypeOK, histories, fixed
<1>2. held' \intersect Addrs \subseteq heap /\ held' \intersect Maps \subseteq live' /\ held' \intersect final = {}
  BY <1>a, KindsAssumption DEF Reached
<1> QED
  BY <1>1, <1>2, HeldIInv

(***************************************************************************)
(* What is pushed is alive, or the behaviour ends.                         *)
(***************************************************************************)
LEMMA PushIInv ==
  ASSUME IInv, NEW x \in Owners, Push(x)
  PROVE  IInv'
<1> USE DEF Push, Running, Quiet, fixed, holderVars
<1>a. TypeOK /\ Lost /\ Stores /\ Reached
  BY DEF IInv, Sound
<1>b. x \in Holders /\ ptr[x] \in SUBSET Addrs
  BY <1>a DEF TypeOK, Holders, Owners
<1>1. TypeOK'
  BY <1>a, <1>b DEF TypeOK, histories
<1>2. CASE StoredBy(x, Addrs) \subseteq stale
  BY <1>a, <1>1, <1>2 DEF IInv, Lost, histories
<1>3. CASE ~(StoredBy(x, Addrs) \subseteq stale)
  <2>1. PICK a \in ptr[x] : <<x, a>> \notin stale
    BY <1>3 DEF StoredBy
  <2>2. ptr[x] \subseteq heap
    BY <1>a, <1>b, <2>1 DEF Stores
  <2>3. held' \intersect Addrs \subseteq heap /\ held' \intersect Maps \subseteq live' /\ held' \intersect final = {}
    BY <1>a, <1>b, <1>3, <2>2, KindsAssumption DEF Reached, TypeOK
  <2> QED
    BY <1>1, <1>3, <2>3, HeldIInv
<1> QED
  BY <1>2, <1>3

-----------------------------------------------------------------------------
(***************************************************************************)
(* Steps that change what is stored or rooted: whatever is stored anew is  *)
(* in the heap and rooted, whatever loses its root is recorded.            *)
(***************************************************************************)
LEMMA StoreStep ==
  ASSUME TypeOK, Stores, Roots, Lost, TypeOK', NEW U, Follow({}, U),
         heap \subseteq heap', open' => open,
         \A x \in Holders : \A b \in ptr'[x] : b \in ptr[x] \/ b \in heap',
         \A x \in Owners : \A b \in ptr'[x] : b \in ptr[x] \/ b \in rooted',
         \A x \in Owners : \A b, c \in ptr'[x] : b = c,
         \A x \in Owners : \A b \in ptr[x] : b \in rooted => b \in rooted' \/ <<x, b>> \in U
  PROVE  Stores' /\ Roots' /\ Lost'
<1>1. \A x, a : /\ <<x, a>> \in stale' <=> <<x, a>> \in stale /\ a \in ptr'[x]
                /\ <<x, a>> \in unrooted' <=> (<<x, a>> \in unrooted \/ <<x, a>> \in U) /\ a \in ptr'[x]
  BY FollowNone
<1>2. Stores'
  <2>1. \A x \in Holders : \A a \in ptr'[x] : a \in heap' \/ <<x, a>> \in stale'
    BY <1>1 DEF Stores
  <2> QED
    BY <1>1, <2>1 DEF Stores
<1>3. Roots'
  BY <1>1 DEF Roots
<1>4. Lost'
  BY <1>1 DEF Lost
<1> QED
  BY <1>2, <1>3, <1>4

(***************************************************************************)
(* A new object is neither stored nor the shell of an emitter.             *)
(***************************************************************************)
LEMMA NewIInv ==
  ASSUME IInv, NEW a \in Addrs, NEW p \in Addrs \union {"none"}, New(a, p)
  PROVE  IInv'
<1> USE DEF fixed, histories, holderVars
<1>a. TypeOK /\ Lost /\ Stores /\ Roots /\ Reached /\ Registered /\ Keys /\ Shells
  BY DEF IInv, Sound, New, Running, Quiet
<1>b. /\ ~crashed /\ open /\ final = {} /\ a \notin heap /\ (p = "none" \/ p \in held)
      /\ heap' = heap \union {a} /\ held' = held \union {a}
      /\ proto' = [proto EXCEPT ![a] = p] /\ object' = [object EXCEPT ![a] = "plain"]
      /\ UNCHANGED <<fixed, rooted, ptr, watched, watch, slot, holderVars, final, crashed,
                     histories, misled>>
  BY DEF New, Running, Quiet, Place
<1>c. /\ proto'[a] = p /\ \A b \in Addrs : b # a => proto'[b] = proto[b]
      /\ object'[a] = "plain" /\ \A b \in Addrs : b # a => object'[b] = object[b]
  BY <1>a, <1>b DEF TypeOK
<1>1. TypeOK'
  <2>1. /\ proto' \in [Addrs -> Addrs \union {"none"}]
        /\ object' \in [Addrs -> Emitters \union {"plain", "none"}]
    BY <1>a, <1>b DEF TypeOK
  <2> QED
    BY <1>a, <1>b, <2>1 DEF TypeOK
<1>2. Lost' /\ Stores' /\ Roots'
  BY <1>a, <1>b DEF Lost, Stores, Roots
<1>3. Reached'
  <2>1. held' \intersect Addrs \subseteq heap' /\ held' \intersect Maps \subseteq live'
    BY <1>a, <1>b, KindsAssumption DEF Reached
  <2>2. \A b \in heap' : proto'[b] = "none" \/ proto'[b] \in heap'
    <3> SUFFICES ASSUME NEW b \in heap' PROVE proto'[b] = "none" \/ proto'[b] \in heap'
      OBVIOUS
    <3>1. b \in Addrs /\ (p = "none" \/ p \in heap)
      BY <1>a, <1>b DEF Reached, TypeOK
    <3> QED
      BY <1>a, <1>b, <1>c, <3>1 DEF Reached
  <2>3. rooted' \subseteq heap' /\ held' \intersect final' = {} /\ final' \intersect heap' = {}
    BY <1>a, <1>b DEF Reached
  <2>4. watched' \subseteq heap' \union final' /\ (~open' => final' = {})
    BY <1>a, <1>b DEF Reached
  <2> QED
    BY <2>1, <2>2, <2>3, <2>4 DEF Reached
<1>4. Registered'
  BY <1>a, <1>b DEF Registered
<1>5. Keys'
  BY <1>a, <1>b, SameKeyKept DEF Keys
<1>6. Shells'
  <2>1. ASSUME NEW b \in Addrs, NEW e \in Emitters, e \in watch'[b]
        PROVE  /\ ptr'[e] # {}
               /\ \A c \in ptr'[e] : c = b \/ (proto'[c] = b /\ c \notin watched') \/ <<e, c>> \in stale'
               /\ \A c \in Addrs : e \in watch'[c] => c = b
    <3>1. <<e, a>> \in stale \/ a \notin ptr[e]
      <4>1. e \in Holders
        BY DEF Holders
      <4> QED
        BY <1>a, <1>b, <4>1 DEF Stores
    <3>2. ptr[e] \subseteq Addrs
      BY <1>a DEF TypeOK, Holders
    <3> QED
      BY <1>a, <1>b, <1>c, <2>1, <3>1, <3>2 DEF Shells
  <2>2. \A b \in heap' : object'[b] \in Emitters =>
          object'[b] \in live' /\ ptr'[object'[b]] = {b} /\ <<object'[b], b>> \notin stale'
    <3> SUFFICES ASSUME NEW b \in heap', object'[b] \in Emitters
                 PROVE  object'[b] \in live' /\ ptr'[object'[b]] = {b} /\ <<object'[b], b>> \notin stale'
      OBVIOUS
    <3>1. b # a /\ b \in heap /\ b \in Addrs
      BY <1>a, <1>b, <1>c, KindsAssumption DEF TypeOK
    <3> QED
      BY <1>a, <1>b, <1>c, <3>1 DEF Shells
  <2> QED
    BY <2>1, <2>2 DEF Shells
<1> QED
  BY <1>1, <1>2, <1>3, <1>4, <1>5, <1>6 DEF IInv, Sound

(***************************************************************************)
(* A script::Object is made or destroyed: roots change, and what it alone  *)
(* stores.                                                                 *)
(***************************************************************************)
LEMMA HandleIInv ==
  ASSUME IInv, ~crashed, TypeOK', Lost', Stores', Roots',
         NEW h \in Handles, \A x \in Holders : x # h => ptr'[x] = ptr[x],
         NEW U, Follow({}, U), rooted' \subseteq heap,
         UNCHANGED <<scriptVars, watched, watch, slot, holderVars, final, crashed, misled>>
  PROVE  IInv'
<1> USE DEF scriptVars, fixed, holderVars
<1>a. TypeOK /\ Stores /\ Reached /\ Registered /\ Keys /\ Shells
  BY DEF IInv, Sound
<1>b. \A x \in Emitters \union Maps : x \in Holders /\ x # h /\ ptr'[x] = ptr[x]
  BY KindsAssumption DEF Holders
<1>c. \A x \in Emitters \union Maps, a \in Addrs : <<x, a>> \in stale' <=> <<x, a>> \in stale
  <2> SUFFICES ASSUME NEW x \in Emitters \union Maps, NEW a \in Addrs
               PROVE  <<x, a>> \in stale' <=> <<x, a>> \in stale
    OBVIOUS
  <2>1. <<x, a>> \in stale' <=> <<x, a>> \in stale /\ a \in ptr'[x]
    BY FollowNone
  <2>2. <<x, a>> \in stale => a \in ptr[x]
    BY <1>a, <1>b DEF Stores
  <2> QED
    BY <1>b, <2>1, <2>2
<1>1. Reached'
  BY <1>a DEF Reached
<1>2. Registered'
  BY <1>a, <1>b DEF Registered, TypeOK
<1>3. Keys'
  <2>1. \A m \in Maps : ptr[m] \subseteq Addrs
    BY <1>a, <1>b DEF TypeOK
  <2> QED
    BY <1>a, <1>b, <1>c, <2>1, SameKeyKept DEF Keys
<1>4. Shells'
  <2>1. \A e \in Emitters : ptr[e] \subseteq Addrs
    BY <1>a, <1>b DEF TypeOK
  <2> QED
    BY <1>a, <1>b, <1>c, <2>1 DEF Shells, TypeOK
<1> QED
  BY <1>1, <1>2, <1>3, <1>4 DEF IInv, Sound

LEMMA WrapIInv ==
  ASSUME IInv, NEW h \in Handles, NEW a \in Addrs, Wrap(h, a)
  PROVE  IInv'
<1> DEFINE U == Stored(Holders \ Maps, SameKey({a}) \ {a})
<1>a. TypeOK /\ Lost /\ Stores /\ Roots /\ Reached
  BY DEF IInv, Sound, Wrap, Running, Quiet
<1>b. /\ ~crashed /\ open /\ a \in held /\ ptr' = [ptr EXCEPT ![h] = {a}]
      /\ rooted' = (rooted \ SameKey({a})) \union {a} /\ Follow({}, U)
      /\ UNCHANGED <<scriptVars, watched, watch, slot, holderVars, final, crashed, misled>>
  BY DEF Wrap, Running, Quiet, Keep, Root
<1>c. h \in Holders /\ ptr'[h] = {a} /\ \A x \in Holders : x # h => ptr'[x] = ptr[x]
  BY <1>a, <1>b DEF TypeOK, Holders
<1>d. a \in heap
  BY <1>a, <1>b DEF Reached
<1>1. TypeOK'
  <2>1. ptr' \in [Holders -> SUBSET Addrs] /\ rooted' \in SUBSET Addrs
    BY <1>a, <1>b DEF TypeOK
  <2>2. U \in SUBSET Pairs
    BY <1>a, StoredType
  <2>3. stale' \in SUBSET Pairs /\ unrooted' \in SUBSET Pairs
    BY <1>a, <1>b, <2>2, FollowType
  <2> QED
    BY <1>a, <1>b, <2>1, <2>3 DEF TypeOK, scriptVars, fixed, holderVars
<1>2. Lost' /\ Stores' /\ Roots'
  <2>1. \A x \in Owners : x \in Holders \ Maps
    BY KindsAssumption DEF Owners, Holders
  <2>2. \A x \in Owners : \A b \in ptr[x] : b \in rooted => b \in rooted' \/ <<x, b>> \in U
    <3> SUFFICES ASSUME NEW x \in Owners, NEW b \in ptr[x], b \in rooted
                 PROVE  b \in rooted' \/ <<x, b>> \in U
      OBVIOUS
    <3>1. <<x, b>> \in U <=> b \in SameKey({a}) \ {a}
      BY <2>1 DEF Stored, StoredBy
    <3> QED
      BY <1>b, <3>1
  <2>3. \A x \in Holders : \A b \in ptr'[x] : b \in ptr[x] \/ (b = a /\ b \in heap' /\ b \in rooted')
    BY <1>b, <1>c, <1>d DEF scriptVars
  <2>4. \A x \in Owners : \A b, c \in ptr'[x] : b = c
    BY <1>a, <1>c, <2>1 DEF Stores
  <2>5. heap \subseteq heap' /\ (open' => open)
    BY <1>b DEF scriptVars
  <2> HIDE DEF U
  <2> QED
    BY <1>a, <1>b, <1>1, <2>1, <2>2, <2>3, <2>4, <2>5, StoreStep
<1>3. rooted' \subseteq heap
  BY <1>a, <1>b, <1>d DEF Reached
<1> HIDE DEF U
<1> QED
  BY <1>b, <1>c, <1>1, <1>2, <1>3, HandleIInv

LEMMA UnwrapIInv ==
  ASSUME IInv, NEW h \in Handles, Unwrap(h)
  PROVE  IInv'
<1> DEFINE U == Stored(Holders \ Maps, SameKey(ptr[h]))
<1>a. TypeOK /\ Lost /\ Stores /\ Roots /\ Reached
  BY DEF IInv, Sound, Unwrap, Quiet
<1>b. /\ ~crashed /\ ptr' = [ptr EXCEPT ![h] = {}]
      /\ rooted' = rooted \ SameKey(ptr[h]) \/ rooted' = rooted
      /\ Follow({}, U)
      /\ UNCHANGED <<scriptVars, watched, watch, slot, holderVars, final, crashed, misled>>
  BY DEF Unwrap, Quiet, Unroot
<1>c. h \in Holders /\ ptr'[h] = {} /\ \A x \in Holders : x # h => ptr'[x] = ptr[x]
  BY <1>a, <1>b DEF TypeOK, Holders
<1>1. TypeOK'
  <2>1. ptr' \in [Holders -> SUBSET Addrs] /\ rooted' \in SUBSET Addrs
    BY <1>a, <1>b DEF TypeOK
  <2>2. U \in SUBSET Pairs
    BY <1>a, StoredType
  <2>3. stale' \in SUBSET Pairs /\ unrooted' \in SUBSET Pairs
    BY <1>a, <1>b, <2>2, FollowType
  <2> QED
    BY <1>a, <1>b, <2>1, <2>3 DEF TypeOK, scriptVars, fixed, holderVars
<1>2. Lost' /\ Stores' /\ Roots'
  <2>1. \A x \in Owners : x \in Holders \ Maps
    BY KindsAssumption DEF Owners, Holders
  <2>2. \A x \in Owners : \A b \in ptr[x] : b \in rooted => b \in rooted' \/ <<x, b>> \in U
    BY <1>b, <2>1, StoredPairs
  <2>3. \A x \in Holders : \A b \in ptr'[x] : b \in ptr[x]
    BY <1>c
  <2>4. \A x \in Owners : \A b, c \in ptr'[x] : b = c
    BY <1>a, <1>c, <2>1 DEF Stores
  <2>5. heap \subseteq heap' /\ (open' => open)
    BY <1>b DEF scriptVars, fixed
  <2> HIDE DEF U
  <2> QED
    BY <1>a, <1>b, <1>1, <2>1, <2>2, <2>3, <2>4, <2>5, StoreStep
<1>3. rooted' \subseteq heap
  BY <1>a, <1>b DEF Reached
<1> HIDE DEF U
<1> QED
  BY <1>b, <1>c, <1>1, <1>2, <1>3, HandleIInv

(***************************************************************************)
(* An emitter gets its shell: it is not registered anywhere before, and    *)
(* nothing is registered with an object that did not exist.                *)
(***************************************************************************)
LEMMA ReflectIInv ==
  ASSUME IInv, NEW e \in Emitters, NEW a \in Addrs, NEW p \in Addrs \union {"none"},
         Reflect(e, a, p)
  PROVE  IInv'
<1> DEFINE U == Stored(Holders \ Maps, SameKey({a}) \ {a})
           w == IF p \in watched THEN p ELSE a
<1>a. TypeOK /\ Lost /\ Stores /\ Roots /\ Reached /\ Registered /\ Keys /\ Shells
  BY DEF IInv, Sound, Reflect, Running, Quiet
<1>b. /\ ~crashed /\ open /\ final = {} /\ a \notin heap /\ (p = "none" \/ p \in held)
      /\ ptr[e] = {}
      /\ heap' = heap \union {a} /\ held' = held \union {a}
      /\ proto' = [proto EXCEPT ![a] = p] /\ object' = [object EXCEPT ![a] = e]
      /\ made' = made \union {e} /\ live' = live \union {e} /\ scoped' = scoped \union {e}
      /\ ptr' = [ptr EXCEPT ![e] = {a}]
      /\ watched' = watched \union {w} /\ watch' = [watch EXCEPT ![w] = @ \union {e}]
      /\ misled' = IF w = a THEN misled ELSE misled \union {e}
      /\ rooted' = (rooted \ SameKey({a})) \union {a}
      /\ Follow({}, U)
      /\ UNCHANGED <<key, open, slot, own, final, crashed>>
  BY DEF Reflect, Running, Quiet, Place, ReflectRoot, Root, fixed
<1>c. /\ proto'[a] = p /\ \A b \in Addrs : b # a => proto'[b] = proto[b]
      /\ object'[a] = e /\ \A b \in Addrs : b # a => object'[b] = object[b]
  BY <1>a, <1>b DEF TypeOK
<1>d. /\ e \in Holders /\ e \in Owners /\ ptr'[e] = {a}
      /\ \A x \in Holders : x # e => ptr'[x] = ptr[x]
  BY <1>a, <1>b DEF TypeOK, Holders, Owners
<1>e. a \notin watched /\ w \in Addrs /\ w \in heap' /\ (w = a \/ (w = p /\ w \in watched))
  BY <1>a, <1>b DEF Reached, TypeOK
<1>f. /\ watch'[w] = watch[w] \union {e}
      /\ \A b \in Addrs : b # w => watch'[b] = watch[b]
  BY <1>a, <1>b, <1>e DEF TypeOK
<1>g. \A b \in Addrs : e \notin watch[b]
  BY <1>a, <1>b DEF Shells
<1>h. \A x \in Holders, b \in Addrs : x # e => (<<x, b>> \in stale' <=> <<x, b>> \in stale)
  <2> HIDE DEF U
  <2> QED
    BY <1>a, <1>b, <1>d, StaleKept
<1>i. <<e, a>> \notin stale'
  <2>1. <<e, a>> \notin stale
    BY <1>a, <1>b, <1>d DEF Stores
  <2> QED
    BY <1>b, <2>1 DEF Follow
<1>1. TypeOK'
  <2>1. /\ proto' \in [Addrs -> Addrs \union {"none"}]
        /\ object' \in [Addrs -> Emitters \union {"plain", "none"}]
    BY <1>a, <1>b DEF TypeOK
  <2>2. ptr' \in [Holders -> SUBSET Addrs] /\ rooted' \in SUBSET Addrs
    BY <1>a, <1>b DEF TypeOK
  <2>3. watch' \in [Addrs -> SUBSET (Emitters \union Maps)]
    BY <1>a, <1>b, <1>e DEF TypeOK
  <2>4. U \in SUBSET Pairs
    BY <1>a, StoredType
  <2>5. stale' \in SUBSET Pairs /\ unrooted' \in SUBSET Pairs
    BY <1>a, <1>b, <2>4, FollowType
  <2>6. watched' \in SUBSET Addrs /\ misled' \in SUBSET (Emitters \union Maps)
    BY <1>a, <1>b, <1>e DEF TypeOK
  <2> HIDE DEF U, w
  <2> QED
    BY <1>a, <1>b, <2>1, <2>2, <2>3, <2>5, <2>6 DEF TypeOK
<1>2. Lost' /\ Stores' /\ Roots'
  <2>1. \A x \in Owners : x \in Holders \ Maps
    BY KindsAssumption DEF Owners, Holders
  <2>2. \A x \in Owners : \A b \in ptr[x] : b \in rooted => b \in rooted' \/ <<x, b>> \in U
    <3> SUFFICES ASSUME NEW x \in Owners, NEW b \in ptr[x], b \in rooted
                 PROVE  b \in rooted' \/ <<x, b>> \in U
      OBVIOUS
    <3>1. <<x, b>> \in U <=> b \in SameKey({a}) \ {a}
      BY <2>1 DEF Stored, StoredBy
    <3> QED
      BY <1>b, <3>1
  <2>3. \A x \in Holders : \A b \in ptr'[x] : b \in ptr[x] \/ (b = a /\ b \in heap' /\ b \in rooted')
    BY <1>b, <1>d
  <2>4. \A x \in Owners : \A b, c \in ptr'[x] : b = c
    BY <1>a, <1>d, <2>1 DEF Stores
  <2>5. heap \subseteq heap' /\ (open' => open)
    BY <1>b
  <2> HIDE DEF U, w
  <2> QED
    BY <1>a, <1>b, <1>1, <2>1, <2>2, <2>3, <2>4, <2>5, StoreStep
<1>3. Reached'
  <2>1. held' \intersect Addrs \subseteq heap' /\ held' \intersect Maps \subseteq live'
    BY <1>a, <1>b, KindsAssumption DEF Reached
  <2>2. \A b \in heap' : proto'[b] = "none" \/ proto'[b] \in heap'
    <3> SUFFICES ASSUME NEW b \in heap' PROVE proto'[b] = "none" \/ proto'[b] \in heap'
      OBVIOUS
    <3>1. b \in Addrs /\ (p = "none" \/ p \in heap)
      BY <1>a, <1>b DEF Reached, TypeOK
    <3> QED
      BY <1>a, <1>b, <1>c, <3>1 DEF Reached
  <2>3. rooted' \subseteq heap' /\ held' \intersect final' = {} /\ final' \intersect heap' = {}
    BY <1>a, <1>b DEF Reached
  <2>4. watched' \subseteq heap' \union final' /\ (~open' => final' = {})
    BY <1>a, <1>b, <1>e DEF Reached
  <2> QED
    BY <2>1, <2>2, <2>3, <2>4 DEF Reached
<1>4. Registered'
  <2> SUFFICES ASSUME NEW b \in Addrs, NEW x \in watch'[b]
               PROVE  b \in watched' /\ (x \in misled' \/ (x \in live' /\ b \in ptr'[x]))
    BY DEF Registered
  <2>1. CASE x = e
    <3>1. b = w
      BY <1>e, <1>f, <1>g, <2>1
    <3> QED
      BY <1>b, <1>d, <2>1, <3>1
  <2>2. CASE x # e
    <3>1. x \in watch[b] /\ x \in Holders
      BY <1>a, <1>e, <1>f, <2>2 DEF TypeOK, Holders
    <3> QED
      BY <1>a, <1>b, <1>d, <2>2, <3>1 DEF Registered
  <2> QED
    BY <2>1, <2>2
<1>5. Keys'
  <2> SUFFICES ASSUME NEW m \in Maps \ misled', NEW b \in ptr'[m]
               PROVE  /\ m \in watch'[b]
                      /\ <<m, b>> \notin stale' \/ b \in final'
                      /\ b \in slot'[m] \/ SameKey({b})' # {b}
    BY SameKeyKept, <1>b DEF Keys
  <2>1. m \in Holders /\ m # e /\ m \in Maps \ misled
    BY <1>b, KindsAssumption DEF Holders
  <2>2. b \in ptr[m] /\ b \in Addrs
    BY <1>a, <1>d, <2>1 DEF TypeOK
  <2>3. m \in watch[b] /\ (<<m, b>> \notin stale \/ b \in final) /\ (b \in slot[m] \/ SameKey({b}) # {b})
    BY <1>a, <2>1, <2>2 DEF Keys
  <2>4. m \in watch'[b]
    BY <1>e, <1>f, <2>2, <2>3
  <2>5. SameKey({b})' = SameKey({b})
    BY <1>b, SameKeyKept
  <2> QED
    BY <1>b, <1>h, <2>1, <2>2, <2>3, <2>4, <2>5
<1>6. Shells'
  <2>1. ASSUME NEW b \in Addrs, NEW f \in Emitters, f \in watch'[b]
        PROVE  /\ ptr'[f] # {}
               /\ \A c \in ptr'[f] : c = b \/ (proto'[c] = b /\ c \notin watched') \/ <<f, c>> \in stale'
               /\ \A c \in Addrs : f \in watch'[c] => c = b
    <3>1. CASE f = e
      BY <1>b, <1>c, <1>d, <1>e, <1>f, <1>g, <2>1, <3>1
    <3>2. CASE f # e
      <4>1. f \in watch[b] /\ f \in Holders /\ ptr'[f] = ptr[f] /\ ptr[f] \subseteq Addrs
        BY <1>a, <1>d, <1>e, <1>f, <2>1, <3>2 DEF Holders, TypeOK
      <4>2. a \in ptr[f] => <<f, a>> \in stale
        BY <1>a, <1>b, <4>1 DEF Stores
      <4>3. \A c \in Addrs : f \in watch'[c] => c = b
        BY <1>a, <1>e, <1>f, <3>2, <4>1 DEF Shells
      <4>4. ASSUME NEW c \in ptr'[f]
            PROVE  c = b \/ (proto'[c] = b /\ c \notin watched') \/ <<f, c>> \in stale'
        <5>1. c = b \/ (proto[c] = b /\ c \notin watched) \/ <<f, c>> \in stale
          BY <1>a, <4>1, <4>4 DEF Shells
        <5>2. c \in Addrs /\ (<<f, c>> \in stale' <=> <<f, c>> \in stale)
          BY <1>h, <3>2, <4>1, <4>4
        <5> QED
          BY <1>b, <1>c, <1>e, <4>1, <4>2, <4>4, <5>1, <5>2
      <4> QED
        BY <1>a, <4>1, <4>3, <4>4 DEF Shells
    <3> QED
      BY <3>1, <3>2
  <2>2. ASSUME NEW b \in heap', object'[b] \in Emitters
        PROVE  object'[b] \in live' /\ ptr'[object'[b]] = {b} /\ <<object'[b], b>> \notin stale'
    <3>1. CASE b = a
      BY <1>b, <1>c, <1>d, <1>i, <3>1
    <3>2. CASE b # a
      <4>1. b \in heap /\ b \in Addrs /\ object'[b] = object[b]
        BY <1>a, <1>b, <1>c, <3>2 DEF TypeOK
      <4>2. object[b] \in live /\ ptr[object[b]] = {b} /\ <<object[b], b>> \notin stale
        BY <1>a, <2>2, <4>1 DEF Shells
      <4>3. object[b] \in Holders /\ object[b] # e
        BY <1>b, <2>2, <4>1, <4>2 DEF Holders
      <4> QED
        BY <1>b, <1>d, <1>h, <4>1, <4>2, <4>3
    <3> QED
      BY <3>1, <3>2
  <2> QED
    BY <2>1, <2>2 DEF Shells
<1> QED
  BY <1>1, <1>2, <1>3, <1>4, <1>5, <1>6 DEF IInv, Sound

(***************************************************************************)
(* Emitters are deleted: none of them stays registered, because what each  *)
(* of them stores still says with whom it is registered.                   *)
(***************************************************************************)
LEMMA DeleteIInv ==
  ASSUME IInv, ~crashed, NEW E \in SUBSET Emitters, Delete(E),
         own' \in SUBSET Emitters, scoped' \in SUBSET Emitters,
         UNCHANGED <<fixed, heap, held, proto, watched, slot, made, final, misled>>
  PROVE  IInv'
<1> DEFINE shells == UNION {ptr[e] : e \in E}
           U == Stored(Holders \ Maps, SameKey(shells))
<1> USE DEF fixed
<1>a. TypeOK /\ Lost /\ Stores /\ Roots /\ Reached /\ Registered /\ Keys /\ Shells
  BY DEF IInv, Sound
<1>b. live' = live \ E
  BY DEF Delete
<1>c. \A x \in E : x \in Holders /\ x \in Owners /\ ptr[x] \in SUBSET Addrs
  BY <1>a DEF TypeOK, Holders, Owners
<1>1. CASE Stored(E, Addrs) \intersect stale # {}
  <2>1. crashed' = TRUE /\ UNCHANGED <<object, rooted, ptr, watch, stale, unrooted>>
    BY <1>1 DEF Delete, histories
  <2>2. TypeOK'
    BY <1>a, <1>b, <2>1 DEF TypeOK
  <2>3. Lost'
    BY <1>a, <2>1 DEF Lost
  <2> QED
    BY <2>1, <2>2, <2>3 DEF IInv
<1>2. CASE Stored(E, Addrs) \intersect stale = {}
  <2>a. /\ object' = [a \in Addrs |-> IF a \in shells THEN "none" ELSE object[a]]
        /\ rooted' = rooted \ SameKey(shells)
        /\ watch' = [b \in Addrs |->
                       IF \E a \in shells : Watcher(a) = b THEN watch[b] \ E ELSE watch[b]]
        /\ ptr' = [x \in Holders |-> IF x \in E THEN {} ELSE ptr[x]]
        /\ Follow({}, U)
        /\ UNCHANGED crashed
    BY <1>2 DEF Delete, Bare, Unroot, Unwatch
  <2>b. \A x \in E : \A b \in ptr[x] : <<x, b>> \notin stale
    BY <1>2, <1>c DEF Stored, StoredBy
  <2>c. \A x \in Holders : ptr'[x] = IF x \in E THEN {} ELSE ptr[x]
    BY <2>a
  <2>d. \A b \in Addrs : watch'[b] \subseteq watch[b] /\ watch[b] \ E \subseteq watch'[b]
    BY <2>a
  <2>e. \A b \in Addrs : watch'[b] \intersect E = {}
    <3> SUFFICES ASSUME NEW b \in Addrs, NEW e \in E, e \in watch'[b] PROVE FALSE
      OBVIOUS
    <3>1. e \in watch[b] /\ b \in watched
      BY <1>a, <2>d DEF Registered
    <3>2. PICK c \in ptr[e] : c = b \/ (proto[c] = b /\ c \notin watched)
      <4>1. e \in Emitters /\ ptr[e] # {}
        BY <1>a, <3>1 DEF Shells
      <4>2. PICK c \in ptr[e] : TRUE
        BY <4>1
      <4>3. c = b \/ (proto[c] = b /\ c \notin watched) \/ <<e, c>> \in stale
        BY <1>a, <3>1, <4>1 DEF Shells
      <4> QED
        BY <2>b, <4>2, <4>3
    <3>3. Watcher(c) = b
      BY <3>1, <3>2 DEF Watcher
    <3>4. c \in shells
      BY <3>2
    <3> HIDE DEF shells
    <3> QED
      BY <2>a, <3>3, <3>4
  <2>f. \A x \in Holders, b \in Addrs : x \notin E => (<<x, b>> \in stale' <=> <<x, b>> \in stale)
    <3> HIDE DEF U, shells
    <3> QED
      BY <1>a, <2>a, <2>c, StaleKept
  <2>1. TypeOK'
    <3>1. object' \in [Addrs -> Emitters \union {"plain", "none"}]
      BY <1>a, <2>a DEF TypeOK
    <3>2. ptr' \in [Holders -> SUBSET Addrs] /\ rooted' \in SUBSET Addrs
      BY <1>a, <2>a DEF TypeOK
    <3>3. watch' \in [Addrs -> SUBSET (Emitters \union Maps)]
      BY <1>a, <2>a DEF TypeOK
    <3>4. U \in SUBSET Pairs
      BY <1>a, StoredType
    <3>5. stale' \in SUBSET Pairs /\ unrooted' \in SUBSET Pairs
      BY <1>a, <2>a, <3>4, FollowType
    <3> HIDE DEF U, shells
    <3> QED
      BY <1>a, <1>b, <2>a, <3>1, <3>2, <3>3, <3>5 DEF TypeOK
  <2>2. Lost' /\ Stores' /\ Roots'
    <3>1. \A x \in Owners : x \in Holders \ Maps
      BY KindsAssumption DEF Owners, Holders
    <3>2. \A x \in Owners : \A b \in ptr[x] : b \in rooted => b \in rooted' \/ <<x, b>> \in U
      <4> SUFFICES ASSUME NEW x \in Owners, NEW b \in ptr[x], b \in rooted
                   PROVE  b \in rooted' \/ <<x, b>> \in U
        OBVIOUS
      <4>1. <<x, b>> \in U <=> b \in SameKey(shells)
        <5> HIDE DEF shells
        <5> QED
          BY <3>1 DEF Stored, StoredBy
      <4> QED
        BY <2>a, <4>1
    <3>3. \A x \in Holders : \A b \in ptr'[x] : b \in ptr[x]
      BY <2>c
    <3>4. \A x \in Owners : \A b, c \in ptr'[x] : b = c
      BY <1>a, <2>c, <3>1 DEF Stores
    <3>5. heap \subseteq heap' /\ (open' => open)
      OBVIOUS
    <3> HIDE DEF U, shells
    <3> QED
      BY <1>a, <2>a, <2>1, <3>1, <3>2, <3>3, <3>4, <3>5, StoreStep
  <2>3. Reached'
    <3>1. held' \intersect Maps \subseteq live'
      BY <1>a, <1>b, KindsAssumption DEF Reached
    <3>2. rooted' \subseteq heap'
      BY <1>a, <2>a DEF Reached
    <3> QED
      BY <1>a, <3>1, <3>2 DEF Reached
  <2>4. Registered'
    <3> SUFFICES ASSUME NEW b \in Addrs, NEW x \in watch'[b]
                 PROVE  b \in watched' /\ (x \in misled' \/ (x \in live' /\ b \in ptr'[x]))
      BY DEF Registered
    <3>1. x \in watch[b] /\ x \in Holders /\ x \notin E
      BY <1>a, <2>d, <2>e DEF TypeOK, Holders
    <3> QED
      BY <1>a, <1>b, <2>c, <3>1 DEF Registered
  <2>5. Keys'
    <3> SUFFICES ASSUME NEW m \in Maps \ misled', NEW b \in ptr'[m]
                 PROVE  /\ m \in watch'[b]
                        /\ <<m, b>> \notin stale' \/ b \in final'
                        /\ b \in slot'[m] \/ SameKey({b})' # {b}
      BY SameKeyKept DEF Keys
    <3>1. m \in Holders /\ m \notin E /\ m \in Maps \ misled
      BY KindsAssumption DEF Holders
    <3>2. b \in ptr[m] /\ b \in Addrs
      BY <1>a, <2>c, <3>1 DEF TypeOK
    <3>3. m \in watch[b] /\ (<<m, b>> \notin stale \/ b \in final) /\ (b \in slot[m] \/ SameKey({b}) # {b})
      BY <1>a, <3>1, <3>2 DEF Keys
    <3>4. m \in watch'[b]
      BY <2>d, <3>1, <3>2, <3>3
    <3>5. SameKey({b})' = SameKey({b})
      BY SameKeyKept
    <3> QED
      BY <2>f, <3>1, <3>2, <3>3, <3>4, <3>5
  <2>6. Shells'
    <3>1. ASSUME NEW b \in Addrs, NEW f \in Emitters, f \in watch'[b]
          PROVE  /\ ptr'[f] # {}
                 /\ \A c \in ptr'[f] : c = b \/ (proto'[c] = b /\ c \notin watched') \/ <<f, c>> \in stale'
                 /\ \A c \in Addrs : f \in watch'[c] => c = b
      <4>1. f \in watch[b] /\ f \notin E /\ f \in Holders /\ ptr'[f] = ptr[f] /\ ptr[f] \subseteq Addrs
        BY <1>a, <2>c, <2>d, <2>e, <3>1 DEF Holders, TypeOK
      <4>2. \A c \in Addrs : f \in watch'[c] => c = b
        BY <1>a, <2>d, <4>1 DEF Shells
      <4>3. ASSUME NEW c \in ptr'[f]
            PROVE  c = b \/ (proto'[c] = b /\ c \notin watched') \/ <<f, c>> \in stale'
        <5>1. c = b \/ (proto[c] = b /\ c \notin watched) \/ <<f, c>> \in stale
          BY <1>a, <4>1, <4>3 DEF Shells
        <5>2. c \in Addrs /\ (<<f, c>> \in stale' <=> <<f, c>> \in stale)
          BY <2>f, <4>1, <4>3
        <5> QED
          BY <5>1, <5>2
      <4> QED
        BY <1>a, <4>1, <4>2, <4>3 DEF Shells
    <3>2. ASSUME NEW b \in heap', object'[b] \in Emitters
          PROVE  object'[b] \in live' /\ ptr'[object'[b]] = {b} /\ <<object'[b], b>> \notin stale'
      <4>1. b \in heap /\ b \in Addrs /\ b \notin shells /\ object'[b] = object[b]
        BY <1>a, <2>a, <3>2, KindsAssumption DEF TypeOK
      <4>2. object[b] \in live /\ ptr[object[b]] = {b} /\ <<object[b], b>> \notin stale
        BY <1>a, <3>2, <4>1 DEF Shells
      <4>3. object[b] \in Holders /\ object[b] \notin E
        BY <3>2, <4>1, <4>2 DEF Holders
      <4> QED
        BY <1>b, <2>c, <2>f, <4>1, <4>2, <4>3
    <3> QED
      BY <3>1, <3>2 DEF Shells
  <2> QED
    BY <2>1, <2>2, <2>3, <2>4, <2>5, <2>6 DEF IInv, Sound
<1> QED
  BY <1>1, <1>2

LEMMA ReleaseIInv ==
  ASSUME IInv, NEW e \in Emitters, Release(e)
  PROVE  IInv'
<1>1. TypeOK
  BY DEF IInv
<1>2. /\ ~crashed /\ {e} \ scoped \in SUBSET Emitters /\ Delete({e} \ scoped)
      /\ own' \in SUBSET Emitters /\ scoped' \in SUBSET Emitters
      /\ UNCHANGED <<fixed, heap, held, proto, watched, slot, made, final, misled>>
  BY <1>1 DEF Release, Quiet, TypeOK
<1> QED
  BY <1>2, DeleteIInv

LEMMA EndScopeIInv ==
  ASSUME IInv, EndScope
  PROVE  IInv'
<1>1. TypeOK
  BY DEF IInv
<1>2. /\ ~crashed /\ scoped \ own \in SUBSET Emitters /\ Delete(scoped \ own)
      /\ own' \in SUBSET Emitters /\ scoped' \in SUBSET Emitters
      /\ UNCHANGED <<fixed, heap, held, proto, watched, slot, made, final, misled>>
  BY <1>1 DEF EndScope, Quiet, TypeOK
<1> QED
  BY <1>2, DeleteIInv

(***************************************************************************)
(* A WeakMap learns a key: it is registered with the key, or is misled.    *)
(***************************************************************************)
LEMMA SetIInv ==
  ASSUME IInv, NEW m \in Maps, NEW a \in Addrs, Set(m, a)
  PROVE  IInv'
<1> USE DEF scriptVars, fixed, holderVars
<1>a. TypeOK /\ Lost /\ Stores /\ Roots /\ Reached /\ Registered /\ Keys /\ Shells
  BY DEF IInv, Sound, Set, Running, Quiet
<1>b. /\ ~crashed /\ open /\ m \in held /\ a \in held /\ final = {}
      /\ ptr' = [ptr EXCEPT ![m] = @ \union {a}]
      /\ slot' = [slot EXCEPT ![m] = (@ \ SameKey({a})) \union {a}]
      /\ IF a \in ptr[m] THEN UNCHANGED <<watched, watch, misled>> ELSE Watch(m, a)
      /\ Follow({}, {})
      /\ UNCHANGED <<scriptVars, rooted, holderVars, final, crashed>>
  BY DEF Set, Running, Quiet
<1>c. /\ m \in Holders /\ m \notin Owners /\ m \notin Emitters
      /\ ptr'[m] = ptr[m] \union {a} /\ \A x \in Holders : x # m => ptr'[x] = ptr[x]
      /\ slot'[m] = (slot[m] \ SameKey({a})) \union {a}
      /\ \A n \in Maps : n # m => slot'[n] = slot[n]
  BY <1>a, <1>b, KindsAssumption DEF TypeOK, Holders, Owners
<1>d. a \in heap /\ m \in live
  BY <1>a, <1>b DEF Reached
<1>e. Watcher(a) \in heap /\ Watcher(a) \in Addrs /\ (proto[a] \in watched => Watcher(a) \in watched)
  BY <1>a, <1>d, KindsAssumption DEF Watcher, Reached, TypeOK
<1>f. /\ watched \subseteq watched' /\ watched' \subseteq watched \union {Watcher(a)}
      /\ misled \subseteq misled' /\ misled' \subseteq misled \union {m}
      /\ \A b \in Addrs : /\ watch[b] \subseteq watch'[b] /\ watch'[b] \subseteq watch[b] \union {m}
                          /\ m \in watch'[b] => \/ m \in watch[b]
                                                \/ b \in watched' /\ (b = a \/ m \in misled')
      /\ a \notin ptr[m] => m \in misled' \/ m \in watch'[a]
  <2>1. CASE a \in ptr[m]
    BY <1>b, <2>1
  <2>2. CASE a \notin ptr[m]
    <3>1. /\ watched' = watched \union {Watcher(a)}
          /\ watch' = [watch EXCEPT ![Watcher(a)] = @ \union {m}]
          /\ misled' = IF Watcher(a) = a THEN misled ELSE misled \union {m}
      BY <1>b, <2>2 DEF Watch
    <3>2. /\ watch'[Watcher(a)] = watch[Watcher(a)] \union {m}
          /\ \A b \in Addrs : b # Watcher(a) => watch'[b] = watch[b]
      BY <1>a, <1>e, <3>1 DEF TypeOK
    <3> QED
      BY <3>1, <3>2
  <2> QED
    BY <2>1, <2>2
<1>g. \A x \in Holders, b \in Addrs :
        x # m \/ b \in ptr[m] => (<<x, b>> \in stale' <=> <<x, b>> \in stale)
  <2> SUFFICES ASSUME NEW x \in Holders, NEW b \in Addrs, x # m \/ b \in ptr[m]
               PROVE  <<x, b>> \in stale' <=> <<x, b>> \in stale
    OBVIOUS
  <2>1. <<x, b>> \in stale' <=> <<x, b>> \in stale /\ b \in ptr'[x]
    BY <1>b, FollowNone
  <2>2. <<x, b>> \in stale => b \in ptr[x]
    BY <1>a DEF Stores
  <2> QED
    BY <1>c, <2>1, <2>2
<1>h. a \notin ptr[m] => <<m, a>> \notin stale'
  <2>1. <<m, a>> \in stale' => <<m, a>> \in stale
    BY <1>b, FollowNone
  <2> QED
    BY <1>a, <1>c, <2>1 DEF Stores
<1>1. TypeOK'
  <2>1. ptr' \in [Holders -> SUBSET Addrs] /\ slot' \in [Maps -> SUBSET Addrs]
    BY <1>a, <1>b DEF TypeOK
  <2>2. stale' \in SUBSET Pairs /\ unrooted' \in SUBSET Pairs
    BY <1>a, <1>b, FollowType
  <2>3. watch' \in [Addrs -> SUBSET (Emitters \union Maps)]
    BY <1>a, <1>b, <1>e DEF TypeOK, Watch
  <2>4. watched' \in SUBSET Addrs /\ misled' \in SUBSET (Emitters \union Maps)
    BY <1>a, <1>e, <1>f DEF TypeOK
  <2> QED
    BY <1>a, <1>b, <2>1, <2>2, <2>3, <2>4 DEF TypeOK
<1>2. Lost' /\ Stores' /\ Roots'
  <2>1. \A x \in Owners : x \in Holders /\ ptr'[x] = ptr[x]
    BY <1>c DEF Owners, Holders
  <2>2. \A x \in Owners : \A b \in ptr[x] : b \in rooted => b \in rooted' \/ <<x, b>> \in {}
    BY <1>b
  <2>3. \A x \in Holders : \A b \in ptr'[x] : b \in ptr[x] \/ b \in heap'
    BY <1>b, <1>c, <1>d
  <2>4. \A x \in Owners : \A b, c \in ptr'[x] : b = c
    BY <1>a, <2>1 DEF Stores
  <2>5. heap \subseteq heap' /\ (open' => open)
    BY <1>b
  <2>6. \A x \in Owners : \A b \in ptr'[x] : b \in ptr[x] \/ b \in rooted'
    BY <2>1
  <2> QED
    BY <1>a, <1>b, <1>1, <2>2, <2>3, <2>4, <2>5, <2>6, StoreStep
<1>3. Reached'
  BY <1>a, <1>b, <1>e, <1>f DEF Reached
<1>4. Registered'
  <2> SUFFICES ASSUME NEW b \in Addrs, NEW x \in watch'[b]
               PROVE  b \in watched' /\ (x \in misled' \/ (x \in live' /\ b \in ptr'[x]))
    BY DEF Registered
  <2>1. CASE x \in watch[b]
    <3>1. x \in Holders
      BY <1>a, <2>1 DEF TypeOK, Holders
    <3> QED
      BY <1>a, <1>b, <1>c, <1>f, <2>1, <3>1 DEF Registered
  <2>2. CASE x \notin watch[b]
    <3>1. x = m
      BY <1>f, <2>2
    <3> QED
      BY <1>b, <1>c, <1>d, <1>f, <2>2, <3>1
  <2> QED
    BY <2>1, <2>2
<1>5. Keys'
  <2> SUFFICES ASSUME NEW n \in Maps \ misled', NEW b \in ptr'[n]
               PROVE  /\ n \in watch'[b]
                      /\ <<n, b>> \notin stale' \/ b \in final'
                      /\ b \in slot'[n] \/ SameKey({b})' # {b}
    BY <1>b, SameKeyKept DEF Keys
  <2>a. n \in Holders /\ n \in Maps \ misled /\ b \in Addrs
    BY <1>1, <1>f DEF Holders, TypeOK
  <2>b. SameKey({b})' = SameKey({b})
    BY <1>b, SameKeyKept
  <2>1. CASE b \in ptr[n]
    <3>1. n \in watch[b] /\ (<<n, b>> \notin stale \/ b \in final) /\ (b \in slot[n] \/ SameKey({b}) # {b})
      BY <1>a, <2>a, <2>1 DEF Keys
    <3>2. n \in watch'[b] /\ (<<n, b>> \notin stale' \/ b \in final')
      BY <1>b, <1>f, <1>g, <2>a, <2>1, <3>1
    <3>3. b \in slot'[n] \/ SameKey({b}) # {b}
      <4>1. CASE n # m
        BY <1>c, <2>a, <3>1, <4>1
      <4>2. CASE n = m /\ b \in SameKey({a})
        BY <1>c, <2>a, <4>2, SameKeyFacts
      <4>3. CASE n = m /\ b \notin SameKey({a})
        BY <1>c, <2>a, <3>1, <4>3
      <4> QED
        BY <4>1, <4>2, <4>3
    <3> QED
      BY <2>b, <3>2, <3>3
  <2>2. CASE b \notin ptr[n]
    <3>1. n = m /\ b = a
      BY <1>c, <2>a, <2>2
    <3> QED
      BY <1>c, <1>f, <1>h, <2>2, <3>1
  <2> QED
    BY <2>1, <2>2
<1>6. Shells'
  <2>1. ASSUME NEW b \in Addrs, NEW f \in Emitters, f \in watch'[b]
        PROVE  /\ ptr'[f] # {}
               /\ \A c \in ptr'[f] : c = b \/ (proto'[c] = b /\ c \notin watched') \/ <<f, c>> \in stale'
               /\ \A c \in Addrs : f \in watch'[c] => c = b
    <3>1. f \in watch[b] /\ f # m /\ f \in Holders /\ ptr'[f] = ptr[f] /\ ptr[f] \subseteq Addrs
      BY <1>a, <1>c, <1>f, <2>1 DEF Holders, TypeOK
    <3>2. \A c \in Addrs : f \in watch'[c] => c = b
      BY <1>a, <1>f, <3>1 DEF Shells
    <3>3. ASSUME NEW c \in ptr'[f]
          PROVE  c = b \/ (proto'[c] = b /\ c \notin watched') \/ <<f, c>> \in stale'
      <4>1. c = b \/ (proto[c] = b /\ c \notin watched) \/ <<f, c>> \in stale
        BY <1>a, <3>1, <3>3 DEF Shells
      <4>2. c \in Addrs /\ (<<f, c>> \in stale' <=> <<f, c>> \in stale)
        BY <1>g, <3>1, <3>3
      <4>3. b \in watched
        BY <1>a, <3>1 DEF Registered
      <4>4. proto[c] = b /\ c \notin watched => c \notin watched'
        BY <1>f, <4>2, <4>3 DEF Watcher
      <4> QED
        BY <1>b, <4>1, <4>2, <4>4
    <3> QED
      BY <1>a, <3>1, <3>2, <3>3 DEF Shells
  <2>2. ASSUME NEW b \in heap', object'[b] \in Emitters
        PROVE  object'[b] \in live' /\ ptr'[object'[b]] = {b} /\ <<object'[b], b>> \notin stale'
    <3>1. b \in heap /\ b \in Addrs /\ object'[b] = object[b]
      BY <1>a, <1>b DEF TypeOK
    <3>2. object[b] \in live /\ ptr[object[b]] = {b} /\ <<object[b], b>> \notin stale
      BY <1>a, <2>2, <3>1 DEF Shells
    <3>3. object[b] \in Holders /\ object[b] # m
      BY <1>c, <2>2, <3>1 DEF Holders
    <3> QED
      BY <1>b, <1>c, <1>g, <3>1, <3>2, <3>3
  <2> QED
    BY <2>1, <2>2 DEF Shells
<1> QED
  BY <1>b, <1>1, <1>2, <1>3, <1>4, <1>5, <1>6 DEF IInv, Sound

(***************************************************************************)
(* A WeakMap forgets a key that a script still has.                        *)
(***************************************************************************)
LEMMA RemoveIInv ==
  ASSUME IInv, NEW m \in Maps, NEW a \in Addrs, Remove(m, a)
  PROVE  IInv'
<1> USE DEF scriptVars, fixed, holderVars
<1>a. TypeOK /\ Lost /\ Stores /\ Roots /\ Reached /\ Registered /\ Keys /\ Shells
  BY DEF IInv, Sound, Remove, Running, Quiet
<1>b. /\ ~crashed /\ open /\ a \in ptr[m]
      /\ ptr' = [ptr EXCEPT ![m] = @ \ {a}]
      /\ slot' = [slot EXCEPT ![m] = @ \ SameKey({a})]
      /\ watch' = [b \in Addrs |->
                     IF \E c \in {a} : Watcher(c) = b THEN watch[b] \ {m} ELSE watch[b]]
      /\ Follow({}, {})
      /\ UNCHANGED <<scriptVars, rooted, watched, holderVars, final, crashed, misled>>
  BY DEF Remove, Running, Quiet, Unwatch
<1>c. /\ m \in Holders /\ m \notin Owners /\ m \notin Emitters
      /\ ptr'[m] = ptr[m] \ {a} /\ \A x \in Holders : x # m => ptr'[x] = ptr[x]
      /\ slot'[m] = slot[m] \ SameKey({a})
      /\ \A n \in Maps : n # m => slot'[n] = slot[n]
  BY <1>a, <1>b, KindsAssumption DEF TypeOK, Holders, Owners
<1>d. /\ \A b \in Addrs : /\ watch'[b] \subseteq watch[b] /\ watch[b] \ {m} \subseteq watch'[b]
                          /\ b # Watcher(a) => watch'[b] = watch[b]
      /\ m \notin watch'[Watcher(a)] \/ Watcher(a) \notin Addrs
  BY <1>b
<1>e. \A x \in Holders, b \in Addrs :
        x # m \/ b # a => (<<x, b>> \in stale' <=> <<x, b>> \in stale)
  <2> SUFFICES ASSUME NEW x \in Holders, NEW b \in Addrs, x # m \/ b # a
               PROVE  <<x, b>> \in stale' <=> <<x, b>> \in stale
    OBVIOUS
  <2>1. <<x, b>> \in stale' <=> <<x, b>> \in stale /\ b \in ptr'[x]
    BY <1>b, FollowNone
  <2>2. <<x, b>> \in stale => b \in ptr[x]
    BY <1>a DEF Stores
  <2> QED
    BY <1>c, <2>1, <2>2
<1>1. TypeOK'
  <2>1. ptr' \in [Holders -> SUBSET Addrs] /\ slot' \in [Maps -> SUBSET Addrs]
    BY <1>a, <1>b DEF TypeOK
  <2>2. stale' \in SUBSET Pairs /\ unrooted' \in SUBSET Pairs
    BY <1>a, <1>b, FollowType
  <2>3. watch' \in [Addrs -> SUBSET (Emitters \union Maps)]
    BY <1>a, <1>b DEF TypeOK
  <2> QED
    BY <1>a, <1>b, <2>1, <2>2, <2>3 DEF TypeOK
<1>2. Lost' /\ Stores' /\ Roots'
  <2>1. \A x \in Owners : x \in Holders /\ ptr'[x] = ptr[x]
    BY <1>c DEF Owners, Holders
  <2>2. \A x \in Owners : \A b \in ptr[x] : b \in rooted => b \in rooted' \/ <<x, b>> \in {}
    BY <1>b
  <2>3. \A x \in Holders : \A b \in ptr'[x] : b \in ptr[x] \/ b \in heap'
    BY <1>c
  <2>4. \A x \in Owners : \A b, c \in ptr'[x] : b = c
    BY <1>a, <2>1 DEF Stores
  <2>5. heap \subseteq heap' /\ (open' => open)
    BY <1>b
  <2>6. \A x \in Owners : \A b \in ptr'[x] : b \in ptr[x] \/ b \in rooted'
    BY <2>1
  <2> QED
    BY <1>a, <1>b, <1>1, <2>2, <2>3, <2>4, <2>5, <2>6, StoreStep
<1>3. Reached'
  BY <1>a, <1>b DEF Reached
<1>4. Registered'
  <2> SUFFICES ASSUME NEW b \in Addrs, NEW x \in watch'[b]
               PROVE  b \in watched' /\ (x \in misled' \/ (x \in live' /\ b \in ptr'[x]))
    BY DEF Registered
  <2>1. x \in watch[b] /\ x \in Holders
    BY <1>a, <1>d DEF TypeOK, Holders
  <2>2. b \in watched /\ (x \in misled \/ (x \in live /\ b \in ptr[x]))
    BY <1>a, <2>1 DEF Registered
  <2>3. x = m => b # a
    BY <1>d, <2>2 DEF Watcher
  <2> QED
    BY <1>b, <1>c, <2>1, <2>2, <2>3
<1>5. Keys'
  <2> SUFFICES ASSUME NEW n \in Maps \ misled', NEW b \in ptr'[n]
               PROVE  /\ n \in watch'[b]
                      /\ <<n, b>> \notin stale' \/ b \in final'
                      /\ b \in slot'[n] \/ SameKey({b})' # {b}
    BY <1>b, SameKeyKept DEF Keys
  <2>a. n \in Holders /\ n \in Maps \ misled /\ b \in Addrs /\ b \in ptr[n] /\ (n = m => b # a)
    BY <1>1, <1>b, <1>c DEF Holders, TypeOK
  <2>b. SameKey({b})' = SameKey({b})
    BY <1>b, SameKeyKept
  <2>1. n \in watch[b] /\ (<<n, b>> \notin stale \/ b \in final) /\ (b \in slot[n] \/ SameKey({b}) # {b})
    BY <1>a, <2>a DEF Keys
  <2>2. n \in watch'[b]
    <3>1. CASE n # m
      BY <1>d, <2>a, <2>1, <3>1
    <3>2. CASE n = m
      <4>1. m \in watch[a]
        BY <1>a, <1>b, <2>a, <3>2 DEF Keys
      <4>2. Watcher(a) = a
        BY <1>a, <4>1 DEF Registered, Watcher
      <4> QED
        BY <1>d, <2>a, <2>1, <3>2, <4>2
    <3> QED
      BY <3>1, <3>2
  <2>3. b \in slot'[n] \/ SameKey({b}) # {b}
    <3>1. CASE n # m
      BY <1>c, <2>1, <3>1
    <3>2. CASE n = m /\ b \in SameKey({a})
      BY <2>a, <3>2, SameKeyFacts
    <3>3. CASE n = m /\ b \notin SameKey({a})
      BY <1>c, <2>1, <3>3
    <3> QED
      BY <3>1, <3>2, <3>3
  <2> QED
    BY <1>b, <1>e, <2>a, <2>b, <2>1, <2>2, <2>3
<1>6. Shells'
  <2>1. ASSUME NEW b \in Addrs, NEW f \in Emitters, f \in watch'[b]
        PROVE  /\ ptr'[f] # {}
               /\ \A c \in ptr'[f] : c = b \/ (proto'[c] = b /\ c \notin watched') \/ <<f, c>> \in stale'
               /\ \A c \in Addrs : f \in watch'[c] => c = b
    <3>1. f \in watch[b] /\ f # m /\ f \in Holders /\ ptr'[f] = ptr[f] /\ ptr[f] \subseteq Addrs
      BY <1>a, <1>c, <1>d, <2>1 DEF Holders, TypeOK
    <3>2. \A c \in Addrs : f \in watch'[c] => c = b
      BY <1>a, <1>d, <3>1 DEF Shells
    <3>3. ASSUME NEW c \in ptr'[f]
          PROVE  c = b \/ (proto'[c] = b /\ c \notin watched') \/ <<f, c>> \in stale'
      <4>1. c = b \/ (proto[c] = b /\ c \notin watched) \/ <<f, c>> \in stale
        BY <1>a, <3>1, <3>3 DEF Shells
      <4>2. c \in Addrs /\ (<<f, c>> \in stale' <=> <<f, c>> \in stale)
        BY <1>e, <3>1, <3>3
      <4> QED
        BY <1>b, <4>1, <4>2
    <3> QED
      BY <1>a, <3>1, <3>2, <3>3 DEF Shells
  <2>2. ASSUME NEW b \in heap', object'[b] \in Emitters
        PROVE  object'[b] \in live' /\ ptr'[object'[b]] = {b} /\ <<object'[b], b>> \notin stale'
    <3>1. b \in heap /\ b \in Addrs /\ object'[b] = object[b]
      BY <1>a, <1>b DEF TypeOK
    <3>2. object[b] \in live /\ ptr[object[b]] = {b} /\ <<object[b], b>> \notin stale
      BY <1>a, <2>2, <3>1 DEF Shells
    <3>3. object[b] \in Holders /\ object[b] # m
      BY <1>c, <2>2, <3>1 DEF Holders
    <3> QED
      BY <1>b, <1>c, <1>e, <3>1, <3>2, <3>3
  <2> QED
    BY <2>1, <2>2 DEF Shells
<1> QED
  BY <1>b, <1>1, <1>2, <1>3, <1>4, <1>5, <1>6 DEF IInv, Sound

-----------------------------------------------------------------------------
(***************************************************************************)
(* The collector frees objects: those a script::Object or an emitter       *)
(* stores had lost their root, those a WeakMap stores are watched, so that *)
(* a finalizer is due.                                                     *)
(***************************************************************************)
LEMMA SweepIInv ==
  ASSUME IInv, NEW S \in SUBSET heap, NEW M \in SUBSET (live \intersect Maps), Sweep(S, M)
  PROVE  IInv'
<1> USE DEF fixed, holderVars
<1> DEFINE N == Stored(Holders, S)
<1>a. TypeOK /\ Lost /\ Stores /\ Roots /\ Reached /\ Registered /\ Keys /\ Shells
  BY DEF IInv, Sound, Sweep, Running, Quiet
<1>b. /\ ~crashed /\ open /\ final = {}
      /\ S \intersect (held \union rooted) = {} /\ \A a \in heap \ S : proto[a] \notin S
      /\ M \intersect held = {}
      /\ heap' = heap \ S
      /\ proto' = [a \in Addrs |-> IF a \in S THEN "none" ELSE proto[a]]
      /\ object' = [a \in Addrs |-> IF a \in S THEN "plain" ELSE object[a]]
      /\ final' = (S \intersect watched) \union M
      /\ ptr' = ptr
      /\ Follow(N, {})
      /\ UNCHANGED <<fixed, held, rooted, watched, watch, slot, holderVars, crashed, misled>>
  BY DEF Sweep, Running, Quiet
<1>c. S \in SUBSET Addrs
  BY <1>a DEF TypeOK
<1>d. \A x \in Holders, b \in Addrs :
        /\ <<x, b>> \in stale' <=> <<x, b>> \in stale \/ (b \in S /\ b \in ptr[x])
        /\ <<x, b>> \in unrooted' <=> <<x, b>> \in unrooted
  <2> SUFFICES ASSUME NEW x \in Holders, NEW b \in Addrs
               PROVE  /\ <<x, b>> \in stale' <=> <<x, b>> \in stale \/ (b \in S /\ b \in ptr[x])
                      /\ <<x, b>> \in unrooted' <=> <<x, b>> \in unrooted
    OBVIOUS
  <2>1. /\ <<x, b>> \in stale' <=> (<<x, b>> \in stale \/ <<x, b>> \in N) /\ b \in ptr'[x]
        /\ <<x, b>> \in unrooted' <=> <<x, b>> \in unrooted /\ b \in ptr'[x]
    BY <1>b DEF Follow
  <2>2. <<x, b>> \in N <=> b \in S /\ b \in ptr[x]
    BY StoredPairs
  <2>3. <<x, b>> \in stale \/ <<x, b>> \in unrooted => b \in ptr[x]
    BY <1>a DEF Stores
  <2> HIDE DEF N
  <2> QED
    BY <1>b, <2>1, <2>2, <2>3
<1>1. TypeOK'
  <2>1. /\ proto' \in [Addrs -> Addrs \union {"none"}]
        /\ object' \in [Addrs -> Emitters \union {"plain", "none"}]
    BY <1>a, <1>b DEF TypeOK
  <2>2. N \in SUBSET Pairs
    BY <1>a, StoredType
  <2>3. stale' \in SUBSET Pairs /\ unrooted' \in SUBSET Pairs
    BY <1>a, <1>b, <2>2, FollowType
  <2>4. heap' \in SUBSET Addrs /\ final' \in SUBSET (Addrs \union Maps)
    BY <1>a, <1>b, <1>c DEF TypeOK
  <2> HIDE DEF N
  <2> QED
    BY <1>a, <1>b, <2>1, <2>3, <2>4 DEF TypeOK
<1> HIDE DEF N
<1>2. Stores' /\ Roots'
  <2>1. \A x \in Owners : x \in Holders
    BY DEF Owners, Holders
  <2>2. \A x \in Holders : ptr[x] \in SUBSET Addrs
    BY <1>a DEF TypeOK
  <2>3. Stores'
    BY <1>a, <1>b, <1>d, <2>1, <2>2 DEF Stores
  <2>4. Roots'
    BY <1>a, <1>b, <1>d, <2>1, <2>2 DEF Roots
  <2> QED
    BY <2>3, <2>4
<1>3. Lost'
  <2> SUFFICES ASSUME NEW x \in Owners, NEW b \in Addrs, <<x, b>> \in stale'
               PROVE  <<x, b>> \in unrooted'
    BY DEF Lost
  <2>1. x \in Holders
    BY DEF Owners, Holders
  <2>2. CASE <<x, b>> \in stale
    BY <1>a, <1>b, <1>d, <2>1, <2>2 DEF Lost
  <2>3. CASE b \in S /\ b \in ptr[x]
    BY <1>a, <1>b, <1>d, <2>1, <2>3 DEF Roots
  <2> QED
    BY <1>d, <2>1, <2>2, <2>3
<1>4. Reached'
  <2>1. held' \intersect Addrs \subseteq heap' /\ held' \intersect Maps \subseteq live'
    BY <1>a, <1>b DEF Reached
  <2>2. held' \intersect final' = {} /\ rooted' \subseteq heap' /\ watched' \subseteq heap' \union final'
    BY <1>a, <1>b DEF Reached
  <2>3. final' \intersect heap' = {}
    BY <1>a, <1>b, KindsAssumption DEF Reached, TypeOK
  <2>4. \A b \in heap' : proto'[b] = "none" \/ proto'[b] \in heap'
    <3> SUFFICES ASSUME NEW b \in heap' PROVE proto'[b] = "none" \/ proto'[b] \in heap'
      OBVIOUS
    <3>1. b \in Addrs /\ b \in heap /\ b \notin S /\ proto'[b] = proto[b]
      BY <1>a, <1>b DEF TypeOK
    <3> QED
      BY <1>a, <1>b, <3>1 DEF Reached
  <2> QED
    BY <1>b, <2>1, <2>2, <2>3, <2>4 DEF Reached
<1>5. Registered'
  BY <1>a, <1>b DEF Registered
<1>6. Keys'
  <2> SUFFICES ASSUME NEW n \in Maps \ misled', NEW b \in ptr'[n]
               PROVE  /\ n \in watch'[b]
                      /\ <<n, b>> \notin stale' \/ b \in final'
                      /\ b \in slot'[n] \/ SameKey({b})' # {b}
    BY <1>b, SameKeyKept DEF Keys
  <2>1. n \in Holders /\ n \in Maps \ misled /\ b \in Addrs /\ b \in ptr[n]
    BY <1>1, <1>b DEF Holders, TypeOK
  <2>2. SameKey({b})' = SameKey({b})
    BY <1>b, SameKeyKept
  <2>3. n \in watch[b] /\ (<<n, b>> \notin stale \/ b \in final) /\ (b \in slot[n] \/ SameKey({b}) # {b})
    BY <1>a, <2>1 DEF Keys
  <2>4. b \in watched
    BY <1>a, <2>1, <2>3 DEF Registered
  <2>5. <<n, b>> \notin stale' \/ b \in final'
    BY <1>b, <1>d, <2>1, <2>3, <2>4
  <2> QED
    BY <1>b, <2>2, <2>3, <2>5
<1>7. Shells'
  <2>1. ASSUME NEW b \in Addrs, NEW f \in Emitters, f \in watch'[b]
        PROVE  /\ ptr'[f] # {}
               /\ \A c \in ptr'[f] : c = b \/ (proto'[c] = b /\ c \notin watched') \/ <<f, c>> \in stale'
               /\ \A c \in Addrs : f \in watch'[c] => c = b
    <3>1. f \in watch[b] /\ f \in Holders /\ ptr'[f] = ptr[f] /\ ptr[f] \subseteq Addrs
      BY <1>a, <1>b, <2>1 DEF Holders, TypeOK
    <3>2. \A c \in Addrs : f \in watch'[c] => c = b
      BY <1>a, <1>b, <3>1 DEF Shells
    <3>3. ASSUME NEW c \in ptr'[f]
          PROVE  c = b \/ (proto'[c] = b /\ c \notin watched') \/ <<f, c>> \in stale'
      <4>1. c = b \/ (proto[c] = b /\ c \notin watched) \/ <<f, c>> \in stale
        BY <1>a, <3>1, <3>3 DEF Shells
      <4>2. c \in Addrs /\ (<<f, c>> \in stale' <=> <<f, c>> \in stale \/ c \in S)
        BY <1>d, <3>1, <3>3
      <4>3. c \notin S => proto'[c] = proto[c]
        BY <1>b, <4>2
      <4> QED
        BY <1>b, <4>1, <4>2, <4>3
    <3> QED
      BY <1>a, <3>1, <3>2, <3>3 DEF Shells
  <2>2. ASSUME NEW b \in heap', object'[b] \in Emitters
        PROVE  object'[b] \in live' /\ ptr'[object'[b]] = {b} /\ <<object'[b], b>> \notin stale'
    <3>1. b \in heap /\ b \in Addrs /\ b \notin S /\ object'[b] = object[b]
      BY <1>a, <1>b DEF TypeOK
    <3>2. object[b] \in live /\ ptr[object[b]] = {b} /\ <<object[b], b>> \notin stale
      BY <1>a, <2>2, <3>1 DEF Shells
    <3>3. object[b] \in Holders
      BY <2>2, <3>1 DEF Holders
    <3> QED
      BY <1>b, <1>d, <3>1, <3>2, <3>3
  <2> QED
    BY <2>1, <2>2 DEF Shells
<1> QED
  BY <1>b, <1>1, <1>2, <1>3, <1>4, <1>5, <1>6, <1>7 DEF IInv, Sound

(***************************************************************************)
(* The finalizers.  An emitter that is told has lost its shell, and is     *)
(* registered nowhere else; a WeakMap that is told loses that key only.    *)
(***************************************************************************)
LEMMA FinalizeKeyIInv ==
  ASSUME IInv, NEW a \in Addrs, FinalizeKey(a)
  PROVE  IInv'
<1> USE DEF scriptVars, fixed, holderVars
<1>a. TypeOK /\ Lost /\ Stores /\ Roots /\ Reached /\ Registered /\ Keys /\ Shells
  BY DEF IInv, Sound, FinalizeKey
<1>b. /\ ~crashed /\ a \in final /\ a \notin heap
      /\ final' = final \ {a} /\ watched' = watched \ {a}
      /\ watch' = [watch EXCEPT ![a] = {}]
      /\ UNCHANGED <<scriptVars, rooted, holderVars, misled>>
  BY <1>a DEF FinalizeKey, Reached
<1>c. watch'[a] = {} /\ \A b \in Addrs : b # a => watch'[b] = watch[b]
  BY <1>a, <1>b DEF TypeOK
<1>d. watch' \in [Addrs -> SUBSET (Emitters \union Maps)]
  BY <1>a, <1>b DEF TypeOK
<1>1. CASE ~(watch[a] \subseteq live)
  <2>1. crashed' = TRUE /\ UNCHANGED <<ptr, slot, stale, unrooted>>
    BY <1>1 DEF FinalizeKey, histories
  <2>2. TypeOK'
    BY <1>a, <1>b, <1>d, <2>1 DEF TypeOK
  <2>3. Lost'
    BY <1>a, <1>b, <2>1 DEF Lost
  <2> QED
    BY <2>1, <2>2, <2>3 DEF IInv
<1>2. CASE watch[a] \subseteq live
  <2>a. /\ ptr' = [x \in Holders |-> IF x \in watch[a] THEN Forget(x, a) ELSE ptr[x]]
        /\ slot' = [m \in Maps |-> IF m \in watch[a] /\ a \in ptr[m]
                                     THEN slot[m] \ SameKey({a}) ELSE slot[m]]
        /\ Follow({}, {})
        /\ UNCHANGED crashed
    BY <1>2 DEF FinalizeKey
  <2>b. \A x \in Holders : /\ ptr'[x] \subseteq ptr[x]
                           /\ x \notin watch[a] => ptr'[x] = ptr[x]
                           /\ x \in Maps /\ x \in watch[a] => ptr'[x] = ptr[x] \ {a}
    BY <2>a, KindsAssumption DEF Forget
  <2>c. \A x \in Holders, b \in Addrs : <<x, b>> \in stale' <=> <<x, b>> \in stale /\ b \in ptr'[x]
    BY <2>a, FollowNone
  <2>1. TypeOK'
    <3>1. ptr' \in [Holders -> SUBSET Addrs] /\ slot' \in [Maps -> SUBSET Addrs]
      BY <1>a, <2>a DEF TypeOK, Forget
    <3>2. stale' \in SUBSET Pairs /\ unrooted' \in SUBSET Pairs
      BY <1>a, <2>a, FollowType
    <3> QED
      BY <1>a, <1>b, <1>d, <2>a, <3>1, <3>2 DEF TypeOK
  <2>2. Lost' /\ Stores' /\ Roots'
    <3>1. \A x \in Owners : x \in Holders
      BY DEF Owners, Holders
    <3>2. \A x \in Owners : \A b \in ptr[x] : b \in rooted => b \in rooted' \/ <<x, b>> \in {}
      BY <1>b
    <3>3. \A x \in Holders : \A b \in ptr'[x] : b \in ptr[x]
      BY <2>b
    <3>4. \A x \in Owners : \A b, c \in ptr'[x] : b = c
      BY <1>a, <2>b, <3>1 DEF Stores
    <3>5. heap \subseteq heap' /\ (open' => open)
      BY <1>b
    <3> QED
      BY <1>a, <2>a, <2>1, <3>1, <3>2, <3>3, <3>4, <3>5, StoreStep
  <2>3. Reached'
    BY <1>a, <1>b DEF Reached
  <2>4. Registered'
    <3> SUFFICES ASSUME NEW b \in Addrs, NEW x \in watch'[b]
                 PROVE  b \in watched' /\ (x \in misled' \/ (x \in live' /\ b \in ptr'[x]))
      BY DEF Registered
    <3>1. b # a /\ x \in watch[b] /\ x \in Holders /\ x \in Emitters \union Maps
      BY <1>a, <1>c DEF TypeOK, Holders
    <3>2. b \in watched /\ (x \in misled \/ (x \in live /\ b \in ptr[x]))
      BY <1>a, <3>1 DEF Registered
    <3>3. x \in watch[a] => x \in Maps
      BY <1>a, <3>1 DEF Shells
    <3> QED
      BY <1>b, <2>b, <3>1, <3>2, <3>3
  <2>5. Keys'
    <3> SUFFICES ASSUME NEW n \in Maps \ misled', NEW b \in ptr'[n]
                 PROVE  /\ n \in watch'[b]
                        /\ <<n, b>> \notin stale' \/ b \in final'
                        /\ b \in slot'[n] \/ SameKey({b})' # {b}
      BY <1>b, SameKeyKept DEF Keys
    <3>1. n \in Holders /\ n \in Maps \ misled
      BY <1>b DEF Holders
    <3>2. b \in ptr[n] /\ b \in Addrs
      BY <1>a, <2>b, <3>1 DEF TypeOK
    <3>3. n \in watch[b] /\ (<<n, b>> \notin stale \/ b \in final) /\ (b \in slot[n] \/ SameKey({b}) # {b})
      BY <1>a, <3>1, <3>2 DEF Keys
    <3>4. b # a
      <4>1. CASE n \in watch[a]
        BY <2>b, <3>1, <4>1
      <4>2. CASE n \notin watch[a]
        BY <1>a, <3>1, <3>2, <4>2 DEF Keys
      <4> QED
        BY <4>1, <4>2
    <3>5. n \in watch'[b] /\ (<<n, b>> \notin stale' \/ b \in final')
      BY <1>b, <1>c, <2>c, <3>1, <3>2, <3>3, <3>4
    <3>6. b \in slot'[n] \/ SameKey({b}) # {b}
      <4>1. CASE b \in SameKey({a})
        BY <3>2, <3>4, <4>1, SameKeyFacts
      <4>2. CASE b \notin SameKey({a})
        BY <2>a, <3>1, <3>3, <4>2
      <4> QED
        BY <4>1, <4>2
    <3>7. SameKey({b})' = SameKey({b})
      BY <1>b, SameKeyKept
    <3> QED
      BY <3>5, <3>6, <3>7
  <2>6. Shells'
    <3>1. ASSUME NEW b \in Addrs, NEW f \in Emitters, f \in watch'[b]
          PROVE  /\ ptr'[f] # {}
                 /\ \A c \in ptr'[f] : c = b \/ (proto'[c] = b /\ c \notin watched') \/ <<f, c>> \in stale'
                 /\ \A c \in Addrs : f \in watch'[c] => c = b
      <4>1. b # a /\ f \in watch[b] /\ f \in Holders /\ ptr[f] \subseteq Addrs
        BY <1>a, <1>c, <3>1 DEF Holders, TypeOK
      <4>2. f \notin watch[a]
        BY <1>a, <4>1 DEF Shells
      <4>3. ptr'[f] = ptr[f]
        BY <2>b, <4>1, <4>2
      <4>4. \A c \in Addrs : f \in watch'[c] => c = b
        BY <1>a, <1>c, <4>1 DEF Shells
      <4>5. ASSUME NEW c \in ptr'[f]
            PROVE  c = b \/ (proto'[c] = b /\ c \notin watched') \/ <<f, c>> \in stale'
        <5>1. c = b \/ (proto[c] = b /\ c \notin watched) \/ <<f, c>> \in stale
          BY <1>a, <4>1, <4>3, <4>5 DEF Shells
        <5>2. c \in Addrs /\ (<<f, c>> \in stale' <=> <<f, c>> \in stale)
          BY <2>c, <4>1, <4>3, <4>5
        <5> QED
          BY <1>b, <5>1, <5>2
      <4> QED
        BY <1>a, <4>1, <4>3, <4>4, <4>5 DEF Shells
    <3>2. ASSUME NEW b \in heap', object'[b] \in Emitters
          PROVE  object'[b] \in live' /\ ptr'[object'[b]] = {b} /\ <<object'[b], b>> \notin stale'
      <4>1. b \in heap /\ b \in Addrs /\ b # a /\ object'[b] = object[b]
        BY <1>a, <1>b DEF TypeOK
      <4>2. object[b] \in live /\ ptr[object[b]] = {b} /\ <<object[b], b>> \notin stale
        BY <1>a, <3>2, <4>1 DEF Shells
      <4>3. object[b] \in Holders /\ object[b] \in Emitters
        BY <3>2, <4>1 DEF Holders
      <4>4. object[b] \notin watch[a]
        <5>1. proto[b] # a
          BY <1>a, <1>b, <4>1, KindsAssumption DEF Reached
        <5> QED
          BY <1>a, <4>1, <4>2, <4>3, <5>1 DEF Shells
      <4> QED
        BY <1>b, <2>b, <2>c, <4>1, <4>2, <4>3, <4>4
    <3> QED
      BY <3>1, <3>2 DEF Shells
  <2> QED
    BY <2>1, <2>2, <2>3, <2>4, <2>5, <2>6 DEF IInv, Sound
<1> QED
  BY <1>1, <1>2

LEMMA FinalizeMapIInv ==
  ASSUME IInv, NEW m \in Maps, FinalizeMap(m)
  PROVE  IInv'
<1> USE DEF scriptVars, fixed
<1>a. TypeOK /\ Lost /\ Stores /\ Roots /\ Reached /\ Registered /\ Keys /\ Shells
  BY DEF IInv, Sound, FinalizeMap
<1>b. /\ ~crashed /\ m \in final /\ m \notin held
      /\ final' = final \ {m} /\ live' = live \ {m}
      /\ UNCHANGED <<scriptVars, rooted, watched, own, scoped, made, misled>>
  BY <1>a DEF FinalizeMap, Reached
<1>c. m \in Holders /\ m \notin Owners /\ m \notin Emitters /\ m \notin Addrs
  BY KindsAssumption DEF Holders, Owners
<1>1. CASE StoredBy(m, Addrs) \intersect stale # {}
  <2>1. crashed' = TRUE /\ UNCHANGED <<ptr, slot, watch, stale, unrooted>>
    BY <1>1 DEF FinalizeMap, histories
  <2>2. TypeOK'
    BY <1>a, <1>b, <2>1 DEF TypeOK
  <2>3. Lost'
    BY <1>a, <1>b, <2>1 DEF Lost
  <2> QED
    BY <2>1, <2>2, <2>3 DEF IInv
<1>2. CASE StoredBy(m, Addrs) \intersect stale = {}
  <2>a. /\ ptr' = [ptr EXCEPT ![m] = {}] /\ slot' = [slot EXCEPT ![m] = {}]
        /\ watch' = [b \in Addrs |->
                       IF \E c \in ptr[m] : Watcher(c) = b THEN watch[b] \ {m} ELSE watch[b]]
        /\ Follow({}, {})
        /\ UNCHANGED crashed
    BY <1>2 DEF FinalizeMap, Unwatch
  <2>b. /\ ptr'[m] = {} /\ \A x \in Holders : x # m => ptr'[x] = ptr[x]
        /\ \A n \in Maps : n # m => slot'[n] = slot[n]
    BY <1>a, <1>c, <2>a DEF TypeOK
  <2>c. \A b \in Addrs : watch'[b] \subseteq watch[b] /\ watch[b] \ {m} \subseteq watch'[b]
    BY <2>a
  <2>d. \A x \in Holders, b \in Addrs : x # m => (<<x, b>> \in stale' <=> <<x, b>> \in stale)
    BY <1>a, <2>a, <2>b, StaleKept
  <2>1. TypeOK'
    <3>1. ptr' \in [Holders -> SUBSET Addrs] /\ slot' \in [Maps -> SUBSET Addrs]
      BY <1>a, <2>a DEF TypeOK
    <3>2. stale' \in SUBSET Pairs /\ unrooted' \in SUBSET Pairs
      BY <1>a, <2>a, FollowType
    <3>3. watch' \in [Addrs -> SUBSET (Emitters \union Maps)]
      BY <1>a, <2>a DEF TypeOK
    <3> QED
      BY <1>a, <1>b, <2>a, <3>1, <3>2, <3>3 DEF TypeOK
  <2>2. Lost' /\ Stores' /\ Roots'
    <3>1. \A x \in Owners : x \in Holders /\ ptr'[x] = ptr[x]
      BY <1>c, <2>b DEF Owners, Holders
    <3>2. \A x \in Owners : \A b \in ptr[x] : b \in rooted => b \in rooted' \/ <<x, b>> \in {}
      BY <1>b
    <3>3. \A x \in Holders : \A b \in ptr'[x] : b \in ptr[x]
      BY <2>b
    <3>4. \A x \in Owners : \A b, c \in ptr'[x] : b = c
      BY <1>a, <3>1 DEF Stores
    <3>5. heap \subseteq heap' /\ (open' => open)
      BY <1>b
    <3>6. \A x \in Owners : \A b \in ptr'[x] : b \in ptr[x] \/ b \in rooted'
      BY <3>1
    <3> QED
      BY <1>a, <2>a, <2>1, <3>2, <3>3, <3>4, <3>5, <3>6, StoreStep
  <2>3. Reached'
    <3>1. watched' \subseteq heap' \union final'
      BY <1>a, <1>b, <1>c DEF Reached, TypeOK
    <3>2. held' \intersect Maps \subseteq live' /\ held' \intersect final' = {}
      BY <1>a, <1>b DEF Reached
    <3>3. final' \intersect heap' = {} /\ (~open' => final' = {})
      BY <1>a, <1>b DEF Reached
    <3> QED
      BY <1>a, <1>b, <3>1, <3>2, <3>3 DEF Reached
  <2>4. Registered'
    <3> SUFFICES ASSUME NEW b \in Addrs, NEW x \in watch'[b]
                 PROVE  b \in watched' /\ (x \in misled' \/ (x \in live' /\ b \in ptr'[x]))
      BY DEF Registered
    <3>1. x \in watch[b] /\ x \in Holders
      BY <1>a, <2>c DEF TypeOK, Holders
    <3>2. b \in watched /\ (x \in misled \/ (x \in live /\ b \in ptr[x]))
      BY <1>a, <3>1 DEF Registered
    <3>3. x = m => x \in misled
      <4>1. Watcher(b) = b
        BY <3>2 DEF Watcher
      <4> QED
        BY <2>a, <3>2, <4>1
    <3> QED
      BY <1>b, <2>b, <3>1, <3>2, <3>3
  <2>5. Keys'
    <3> SUFFICES ASSUME NEW n \in Maps \ misled', NEW b \in ptr'[n]
                 PROVE  /\ n \in watch'[b]
                        /\ <<n, b>> \notin stale' \/ b \in final'
                        /\ b \in slot'[n] \/ SameKey({b})' # {b}
      BY <1>b, SameKeyKept DEF Keys
    <3>1. n \in Holders /\ n \in Maps \ misled /\ n # m
      BY <1>b, <2>b DEF Holders
    <3>2. b \in ptr[n] /\ b \in Addrs /\ b # m
      BY <1>a, <1>c, <2>b, <3>1 DEF TypeOK
    <3>3. n \in watch[b] /\ (<<n, b>> \notin stale \/ b \in final) /\ (b \in slot[n] \/ SameKey({b}) # {b})
      BY <1>a, <3>1, <3>2 DEF Keys
    <3>4. n \in watch'[b]
      BY <2>c, <3>1, <3>2, <3>3
    <3>5. SameKey({b})' = SameKey({b})
      BY <1>b, SameKeyKept
    <3> QED
      BY <1>b, <2>b, <2>d, <3>1, <3>2, <3>3, <3>4, <3>5
  <2>6. Shells'
    <3>1. ASSUME NEW b \in Addrs, NEW f \in Emitters, f \in watch'[b]
          PROVE  /\ ptr'[f] # {}
                 /\ \A c \in ptr'[f] : c = b \/ (proto'[c] = b /\ c \notin watched') \/ <<f, c>> \in stale'
                 /\ \A c \in Addrs : f \in watch'[c] => c = b
      <4>1. f \in watch[b] /\ f # m /\ f \in Holders /\ ptr'[f] = ptr[f] /\ ptr[f] \subseteq Addrs
        BY <1>a, <1>c, <2>b, <2>c, <3>1 DEF Holders, TypeOK
      <4>2. \A c \in Addrs : f \in watch'[c] => c = b
        BY <1>a, <2>c, <4>1 DEF Shells
      <4>3. ASSUME NEW c \in ptr'[f]
            PROVE  c = b \/ (proto'[c] = b /\ c \notin watched') \/ <<f, c>> \in stale'
        <5>1. c = b \/ (proto[c] = b /\ c \notin watched) \/ <<f, c>> \in stale
          BY <1>a, <4>1, <4>3 DEF Shells
        <5>2. c \in Addrs /\ (<<f, c>> \in stale' <=> <<f, c>> \in stale)
          BY <2>d, <4>1, <4>3
        <5> QED
          BY <1>b, <5>1, <5>2
      <4> QED
        BY <1>a, <4>1, <4>2, <4>3 DEF Shells
    <3>2. ASSUME NEW b \in heap', object'[b] \in Emitters
          PROVE  object'[b] \in live' /\ ptr'[object'[b]] = {b} /\ <<object'[b], b>> \notin stale'
      <4>1. b \in heap /\ b \in Addrs /\ object'[b] = object[b]
        BY <1>a, <1>b DEF TypeOK
      <4>2. object[b] \in live /\ ptr[object[b]] = {b} /\ <<object[b], b>> \notin stale
        BY <1>a, <3>2, <4>1 DEF Shells
      <4>3. object[b] \in Holders /\ object[b] # m
        BY <1>c, <3>2, <4>1 DEF Holders
      <4> QED
        BY <1>b, <2>b, <2>d, <4>1, <4>2, <4>3
    <3> QED
      BY <3>1, <3>2 DEF Shells
  <2> QED
    BY <2>1, <2>2, <2>3, <2>4, <2>5, <2>6 DEF IInv, Sound
<1> QED
  BY <1>1, <1>2

(***************************************************************************)
(* The heap is destroyed: whatever is still stored is stale then.          *)
(***************************************************************************)
LEMMA DestroyIInv ==
  ASSUME IInv, Destroy
  PROVE  IInv'
<1> DEFINE N == Stored(Holders, Addrs)
<1>a. TypeOK /\ Lost /\ Stores /\ Roots /\ Reached /\ Registered /\ Keys /\ Shells
  BY DEF IInv, Sound, Destroy, Running, Quiet
<1>b. /\ ~crashed /\ final = {} /\ open' = FALSE
      /\ UNCHANGED <<key, own, scoped, made, final, misled>>
  BY DEF Destroy, Running, Quiet
<1>1. CASE crashed' = TRUE
  <2>1. crashed' = TRUE /\ UNCHANGED <<heap, held, rooted, watched, proto, object, ptr, watch,
                                       slot, live, stale, unrooted>>
    BY <1>1, <1>b, Zenon DEF Destroy, histories
  <2>2. TypeOK'
    BY <1>a, <1>b, <2>1 DEF TypeOK
  <2> QED
    BY <1>b, <2>1, <2>2 DEF IInv, Lost
<1>2. CASE crashed' = crashed
  <2>a. /\ heap' = {} /\ held' = {} /\ rooted' = {} /\ watched' = {}
        /\ proto' = [a \in Addrs |-> "none"] /\ object' = [a \in Addrs |-> "plain"]
        /\ ptr' = [x \in Holders |->
                     IF x \in Maps \/ \E a \in watched : x \in watch[a] THEN {} ELSE ptr[x]]
        /\ watch' = [a \in Addrs |-> {}] /\ slot' = [m \in Maps |-> {}]
        /\ live' = live \ Maps
        /\ Follow(N, {})
        /\ UNCHANGED crashed
    BY <1>2, <1>b, Zenon DEF Destroy
  <2>1. TypeOK'
    <3>1. ptr' \in [Holders -> SUBSET Addrs]
      BY <1>a, <2>a DEF TypeOK
    <3>2. N \in SUBSET Pairs
      BY <1>a, StoredType
    <3>3. stale' \in SUBSET Pairs /\ unrooted' \in SUBSET Pairs
      BY <1>a, <2>a, <3>2, FollowType
    <3>4. proto' \in [Addrs -> Addrs \union {"none"}] /\ slot' \in [Maps -> SUBSET Addrs]
      BY <2>a
    <3>5. /\ object' \in [Addrs -> Emitters \union {"plain", "none"}]
          /\ watch' \in [Addrs -> SUBSET (Emitters \union Maps)]
      BY <2>a
    <3> HIDE DEF N
    <3> QED
      BY <1>a, <1>b, <2>a, <3>1, <3>3, <3>4, <3>5 DEF TypeOK
  <2>2. Stores'
    <3>1. \A x \in Holders : ptr'[x] \subseteq ptr[x] /\ ptr[x] \subseteq Addrs
      BY <1>a, <2>a DEF TypeOK
    <3>2. \A x \in Holders, a \in Addrs :
            /\ <<x, a>> \in stale' <=> (<<x, a>> \in stale \/ <<x, a>> \in N) /\ a \in ptr'[x]
            /\ <<x, a>> \in unrooted' => a \in ptr'[x]
      BY <2>a DEF Follow
    <3>3. \A x \in Holders, a \in Addrs : <<x, a>> \in N <=> a \in ptr[x]
      BY StoredPairs
    <3>4. \A x \in Owners : x \in Holders
      BY DEF Owners, Holders
    <3>5. \A x \in Owners : \A a, b \in ptr'[x] : a = b
      BY <1>a, <3>1, <3>4 DEF Stores
    <3> HIDE DEF N
    <3> QED
      BY <3>1, <3>2, <3>3, <3>5 DEF Stores
  <2>3. Lost' /\ Roots' /\ Reached' /\ Registered'
    BY <1>b, <2>a DEF Lost, Roots, Reached, Registered
  <2>4. Keys'
    BY <2>a DEF Keys, Holders
  <2>5. Shells'
    BY <2>a DEF Shells
  <2> QED
    BY <2>1, <2>2, <2>3, <2>4, <2>5 DEF IInv, Sound
<1> QED
  BY <1>1, <1>2 DEF Destroy

LEMMA StutterIInv ==
  ASSUME IInv, UNCHANGED vars
  PROVE  IInv'
<1> USE DEF vars, scriptVars, fixed, histories, holderVars
<1>1. SameKey({}) = SameKey({})' /\ \A a : SameKey({a})' = SameKey({a})
  BY SameKeyKept
<1>2. TypeOK'
  BY DEF IInv, TypeOK
<1>3. Lost' /\ (~crashed' => Stores' /\ Roots' /\ Reached' /\ Registered' /\ Shells')
  BY DEF IInv, Sound, Lost, Stores, Roots, Reached, Registered, Shells
<1>4. ~crashed' => Keys'
  BY <1>1 DEF IInv, Sound, Keys
<1> QED
  BY <1>2, <1>3, <1>4 DEF IInv, Sound

LEMMA NextIInv == IInv /\ [Next]_vars => IInv'
<1> SUFFICES ASSUME IInv, [Next]_vars PROVE IInv'
  OBVIOUS
<1>1. CASE Script
  <2>1. ASSUME NEW a \in Addrs, NEW p \in Addrs \union {"none"}, New(a, p) PROVE IInv'
    BY <2>1, NewIInv
  <2>2. ASSUME NEW x \in Addrs \union Maps, Drop(x) PROVE IInv'
    BY <2>2, DropIInv
  <2>3. ASSUME NEW m \in Maps, NewMap(m) PROVE IInv'
    BY <2>3, NewMapIInv
  <2>4. ASSUME NEW m \in Maps, NEW a \in Addrs, Set(m, a) PROVE IInv'
    BY <2>4, SetIInv
  <2>5. ASSUME NEW m \in Maps, NEW a \in Addrs, Remove(m, a) PROVE IInv'
    BY <2>5, RemoveIInv
  <2> QED
    BY <1>1, <2>1, <2>2, <2>3, <2>4, <2>5 DEF Script
<1>2. CASE Native
  <2>1. ASSUME NEW h \in Handles, Unwrap(h) PROVE IInv'
    BY <2>1, UnwrapIInv
  <2>2. ASSUME NEW h \in Handles, NEW a \in Addrs, Wrap(h, a) PROVE IInv'
    BY <2>2, WrapIInv
  <2>3. ASSUME NEW x \in Handles \union Emitters, Push(x) PROVE IInv'
    BY <2>3, PushIInv DEF Owners
  <2>4. ASSUME NEW e \in Emitters, Make(e) PROVE IInv'
    BY <2>4, MakeIInv
  <2>5. ASSUME NEW e \in Emitters, Release(e) PROVE IInv'
    BY <2>5, ReleaseIInv
  <2>6. ASSUME NEW e \in Emitters, NEW a \in Addrs, NEW p \in Addrs \union {"none"},
               Reflect(e, a, p)
        PROVE  IInv'
    BY <2>6, ReflectIInv
  <2>7. CASE EndScope
    BY <2>7, EndScopeIInv
  <2> QED
    BY <1>2, <2>1, <2>2, <2>3, <2>4, <2>5, <2>6, <2>7 DEF Native
<1>3. CASE Collector
  <2>1. ASSUME NEW S \in SUBSET heap, NEW M \in SUBSET (live \intersect Maps), Sweep(S, M)
        PROVE  IInv'
    BY <2>1, SweepIInv
  <2>2. ASSUME NEW a \in Addrs, FinalizeKey(a) PROVE IInv'
    BY <2>2, FinalizeKeyIInv
  <2>3. ASSUME NEW m \in Maps, FinalizeMap(m) PROVE IInv'
    BY <2>3, FinalizeMapIInv
  <2>4. CASE Destroy
    BY <2>4, DestroyIInv
  <2> QED
    BY <1>3, <2>1, <2>2, <2>3, <2>4 DEF Collector
<1>4. CASE UNCHANGED vars
  BY <1>4, StutterIInv
<1> QED
  BY <1>1, <1>2, <1>3, <1>4 DEF Next

-----------------------------------------------------------------------------
(***************************************************************************)
(* The inductive invariant holds in every reachable state.                 *)
(***************************************************************************)
THEOREM Invariance == Spec => []IInv
<1>1. Init => IInv
  BY InitIInv
<1>2. IInv /\ [Next]_vars => IInv'
  BY NextIInv
<1> QED
  BY <1>1, <1>2, PTL DEF Spec

(***************************************************************************)
(* A script's function that C++ code keeps is not freed, unless another    *)
(* holder has taken its root away (script::Object::Object, ~Object).       *)
(***************************************************************************)
THEOREM FunctionsStay == Spec => []FunctionsKept
<1>1. IInv => FunctionsKept
  <2> SUFFICES ASSUME TypeOK, Lost, open, NEW p \in stale, p[1] \in Handles
               PROVE  p \in unrooted
    BY DEF IInv, FunctionsKept
  <2>1. p = <<p[1], p[2]>> /\ p[2] \in Addrs /\ p[1] \in Owners
    BY DEF TypeOK, Pairs, Owners
  <2> QED
    BY <2>1 DEF Lost
<1> QED
  BY <1>1, Invariance, PTL

(***************************************************************************)
(* As long as nothing freed was used, an emitter and its shell know each   *)
(* other, and whoever a finalizer calls is alive, or was registered with a *)
(* prototype (ReflectObject::~ReflectObject, WeakMap::recycle).            *)
(***************************************************************************)
THEOREM PointersStay == Spec => []PointersMatch
<1>1. IInv => PointersMatch
  <2> SUFFICES ASSUME TypeOK, Registered, Shells
               PROVE  /\ \A a \in heap : object[a] \in Emitters =>
                           object[a] \in live /\ ptr[object[a]] = {a}
                      /\ \A a \in watched : watch[a] \subseteq live \union misled
    BY DEF IInv, Sound, PointersMatch
  <2>1. \A a \in heap : object[a] \in Emitters => object[a] \in live /\ ptr[object[a]] = {a}
    BY DEF Shells
  <2>2. \A a \in watched : watch[a] \subseteq live \union misled
    BY DEF Registered, TypeOK
  <2> QED
    BY <2>1, <2>2
<1> QED
  BY <1>1, Invariance, PTL

(***************************************************************************)
(* Between collections a WeakMap has no freed key and finds the value of   *)
(* each, unless the key shares its WeakObject or its 32 bits with another  *)
(* (WeakMap::set, recycle).                                                *)
(***************************************************************************)
THEOREM WeakMapsStay == Spec => []WeakMapsForget
<1>1. IInv => WeakMapsForget
  <2> SUFFICES ASSUME TypeOK, Stores, Keys, final = {},
                      NEW m \in Maps, NEW a \in Addrs, a \in ptr[m], m \notin misled
               PROVE  a \in heap /\ <<m, a>> \notin stale /\ (a \in slot[m] \/ SameKey({a}) # {a})
    BY DEF IInv, Sound, WeakMapsForget
  <2>1. <<m, a>> \notin stale /\ (a \in slot[m] \/ SameKey({a}) # {a})
    BY DEF Keys
  <2>2. a \in heap
    BY <2>1 DEF Stores, Holders
  <2> QED
    BY <2>1, <2>2
<1> QED
  BY <1>1, Invariance, PTL

(***************************************************************************)
(* An emitter that exists keeps its shell, and with it the listeners of    *)
(* scripts, while the heap exists, unless another object with the same 32  *)
(* bits has taken the root (ReflectObject::addReflect, recycle).           *)
(***************************************************************************)
THEOREM ShellsKept == Spec => ShellsStay
<1> DEFINE Kept == \A e \in Emitters :
                     ptr[e] # {} /\ e \in live' /\ open' =>
                       ptr'[e] = ptr[e] \/ StoredBy(e, Addrs) \subseteq unrooted
<1>1. ASSUME IInv, [Next]_vars PROVE [Kept]_vars
  <2> SUFFICES ASSUME Next, NEW e \in Emitters, ptr[e] # {}, e \in live', open',
                      ptr'[e] # ptr[e]
               PROVE  StoredBy(e, Addrs) \subseteq unrooted
    BY <1>1
  <2>a. TypeOK /\ Lost /\ (~crashed => Sound)
    BY <1>1 DEF IInv
  <2>b. e \in Holders /\ e \notin Handles /\ e \notin Maps
    BY KindsAssumption DEF Holders
  <2>1. CASE Script
    <3>1. ASSUME NEW a, NEW p, New(a, p) PROVE FALSE
      BY <3>1 DEF New
    <3>2. ASSUME NEW x, Drop(x) PROVE FALSE
      BY <3>2 DEF Drop
    <3>3. ASSUME NEW m, NewMap(m) PROVE FALSE
      BY <3>3 DEF NewMap
    <3>4. ASSUME NEW m \in Maps, NEW a, Set(m, a) PROVE FALSE
      BY <2>a, <2>b, <3>4 DEF Set, TypeOK
    <3>5. ASSUME NEW m \in Maps, NEW a, Remove(m, a) PROVE FALSE
      BY <2>a, <2>b, <3>5 DEF Remove, TypeOK
    <3> QED
      BY <2>1, <3>1, <3>2, <3>3, <3>4, <3>5 DEF Script
  <2>2. CASE Native
    <3>1. ASSUME NEW h \in Handles, Unwrap(h) PROVE FALSE
      BY <2>a, <2>b, <3>1 DEF Unwrap, TypeOK
    <3>2. ASSUME NEW h \in Handles, NEW a, Wrap(h, a) PROVE FALSE
      BY <2>a, <2>b, <3>2 DEF Wrap, TypeOK
    <3>3. ASSUME NEW x, Push(x) PROVE FALSE
      BY <3>3 DEF Push
    <3>4. ASSUME NEW f, Make(f) PROVE FALSE
      BY <3>4 DEF Make
    <3>5. ASSUME NEW f \in Emitters, NEW a, NEW p, Reflect(f, a, p) PROVE FALSE
      <4>1. f # e /\ ptr' = [ptr EXCEPT ![f] = {a}]
        BY <3>5 DEF Reflect
      <4> QED
        BY <2>a, <2>b, <4>1 DEF TypeOK
    <3>6. ASSUME NEW E, Delete(E) PROVE FALSE
      <4>1. e \notin E
        BY <3>6 DEF Delete
      <4>2. ptr' = ptr \/ ptr' = [x \in Holders |-> IF x \in E THEN {} ELSE ptr[x]]
        BY <3>6 DEF Delete
      <4> QED
        BY <2>b, <4>1, <4>2
    <3> QED
      BY <2>2, <3>1, <3>2, <3>3, <3>4, <3>5, <3>6 DEF Native, Release, EndScope
  <2>3. CASE Collector
    <3>1. ASSUME NEW S, NEW M, Sweep(S, M) PROVE FALSE
      BY <3>1 DEF Sweep
    <3>2. ASSUME NEW a \in Addrs, FinalizeKey(a) PROVE StoredBy(e, Addrs) \subseteq unrooted
      <4>a. Stores /\ Reached /\ Shells /\ a \in final /\ a \notin heap /\ open
        BY <2>a, <3>2 DEF Sound, FinalizeKey, Reached
      <4>1. e \in watch[a]
        BY <2>b, <3>2 DEF FinalizeKey
      <4> SUFFICES ASSUME NEW b \in Addrs, b \in ptr[e] PROVE <<e, b>> \in unrooted
        BY DEF StoredBy
      <4>2. <<e, b>> \in stale
        <5>1. b = a \/ proto[b] = a \/ <<e, b>> \in stale
          BY <4>a, <4>1 DEF Shells
        <5>2. b \in heap \/ <<e, b>> \in stale
          BY <2>b, <4>a DEF Stores
        <5>3. b \in heap => b # a /\ proto[b] # a
          BY <4>a, KindsAssumption DEF Reached
        <5> QED
          BY <5>1, <5>2, <5>3
      <4> QED
        BY <2>a, <4>a, <4>2 DEF Lost, Owners
    <3>3. ASSUME NEW m \in Maps, FinalizeMap(m) PROVE FALSE
      BY <2>a, <2>b, <3>3 DEF FinalizeMap, TypeOK
    <3>4. CASE Destroy
      BY <3>4 DEF Destroy
    <3> QED
      BY <2>3, <3>1, <3>2, <3>3, <3>4 DEF Collector
  <2> QED
    BY <2>1, <2>2, <2>3 DEF Next
<1>2. IInv /\ [Next]_vars => [Kept]_vars
  BY <1>1
<1>3. [][Kept]_vars <=> ShellsStay
  BY DEF ShellsStay
<1> QED
  BY <1>2, <1>3, Invariance, PTL DEF Spec

=============================================================================
