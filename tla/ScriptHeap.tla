----------------------------- MODULE ScriptHeap -----------------------------
(***************************************************************************)
(* How C++ objects and the objects of a Duktape heap hold each other       *)
(* (kk-script.cc), in one Context:                                         *)
(*                                                                         *)
(*   - a script::Object keeps a script's function: it stores its address   *)
(*     and roots it in the global object under a key made of the address;  *)
(*   - a ReflectObject (an EventEmitter) is shown to scripts by one        *)
(*     object, its shell, rooted the same way for as long as it lives; the *)
(*     shell has a raw pointer back;                                       *)
(*   - a WeakMap stores the addresses of its keys.  It and the             *)
(*     ReflectObjects are told when an object is freed by the WeakObject   *)
(*     that hangs on it, whose finalizer calls recycle().                  *)
(*                                                                         *)
(* The collector frees any objects that nothing refers to, and then runs   *)
(* the finalizers that are due, in an order nobody promised; addresses are *)
(* used again.  The key of a root has 32 bits ("0x%x"), so that objects    *)
(* may share one.  A use of a freed object ends the behaviour (crashed).   *)
(*                                                                         *)
(* Bounds: prototype chains have one link; the prototype of an object is   *)
(* set when it is made; what a WeakMap stores for a key refers to nothing. *)
(*                                                                         *)
(* A definition named ...Mutant is a plausible mistake in the definition   *)
(* that follows it, kept to show that a property notices it.               *)
(***************************************************************************)
EXTENDS Naturals

CONSTANTS
  Addrs,      (* where objects of the heap can be                          *)
  Keyings,    (* functions: the 32 bits that the key shows of an address   *)
  Handles,    (* script::Objects                                           *)
  Emitters,   (* ReflectObjects                                            *)
  Maps        (* WeakMaps                                                  *)

ASSUME KindsAssumption ==
  /\ Handles \intersect Emitters = {} /\ (Handles \union Emitters \union Addrs) \intersect Maps = {}
  /\ "none" \notin Addrs \union Emitters /\ "plain" \notin Emitters

Holders == Handles \union Emitters \union Maps

VARIABLES
  key,        (* the addresses that this process gets: one of Keyings      *)
  open,       (* the heap of the Context exists                            *)
  heap,       (* the addresses in use                                      *)
  held,       (* objects and WeakMaps that scripts refer to                *)
  proto,      (* the prototype of an object, or "none"                     *)
  object,     (* "plain", or for a shell its __object: an emitter or "none" *)
  rooted,     (* objects that are properties of the global object          *)
  ptr,        (* the addresses a holder stores: _heapptr, _heapptrs, _keys *)
  watched,    (* objects with a WeakObject of their own                    *)
  watch,      (* what it tells: WeakObject::_objects                       *)
  slot,       (* for each WeakMap, the keys whose value its properties hold *)
  own,        (* emitters that C++ code refers to                          *)
  scoped,     (* emitters the current Scope refers to                      *)
  live,       (* emitters and WeakMaps that exist                          *)
  made,       (* emitters and WeakMaps that have existed                   *)
  final,      (* freed objects and WeakMaps whose finalizer has not run    *)
  crashed,    (* a freed object was used                                   *)
  stale,      (* history: stored addresses whose object was freed          *)
  unrooted,   (* history: ... whose root somebody else took away           *)
  misled      (* history: who was registered with the WeakObject of a prototype *)

fixed == <<key, open>>
scriptVars == <<fixed, heap, held, proto, object>>
histories == <<stale, unrooted>>
holderVars == <<own, scoped, live, made>>
vars == <<scriptVars, rooted, ptr, watched, watch, slot, holderVars, final, crashed,
          histories, misled>>

Init ==
  /\ key \in Keyings
  /\ open = TRUE
  /\ heap = {} /\ held = {}
  /\ proto = [a \in Addrs |-> "none"]
  /\ object = [a \in Addrs |-> "plain"]
  /\ rooted = {}
  /\ ptr = [x \in Holders |-> {}]
  /\ watched = {}
  /\ watch = [a \in Addrs |-> {}]
  /\ slot = [m \in Maps |-> {}]
  /\ own = {} /\ scoped = {} /\ live = {} /\ made = {}
  /\ final = {}
  /\ crashed = FALSE
  /\ stale = {} /\ unrooted = {} /\ misled = {}

(***************************************************************************)
(* Scripts and C++ code run while no finalizer is due.                     *)
(***************************************************************************)
Quiet == ~crashed /\ final = {}

Running == open /\ Quiet

SameKey(A) == {b \in Addrs : \E a \in A : key[b] = key[a]}

StoredBy(x, A) == {x} \X (ptr[x] \intersect A)
Stored(X, A) == UNION {StoredBy(x, A) : x \in X}

(***************************************************************************)
(* The histories follow what is stored, and gain new pairs.                *)
(***************************************************************************)
Follow(newStale, newUnrooted) ==
  LET still(P) == {p \in P : p[2] \in ptr'[p[1]]} IN
    /\ stale' = still(stale \union newStale)
    /\ unrooted' = still(unrooted \union newUnrooted)

(***************************************************************************)
(* Objects of the script.                                                  *)
(***************************************************************************)
Place(a, p, what) ==
  /\ a \notin heap
  /\ p = "none" \/ (p \in held /\ proto[p] = "none" /\ object[p] = "plain")
  /\ heap' = heap \union {a}
  /\ held' = held \union {a}
  /\ proto' = [proto EXCEPT ![a] = p]
  /\ object' = [object EXCEPT ![a] = what]

New(a, p) ==
  /\ Running
  /\ Place(a, p, "plain")
  /\ UNCHANGED <<fixed, rooted, ptr, watched, watch, slot, holderVars, final, crashed,
                 histories, misled>>

Drop(x) ==
  /\ Running
  /\ x \in held
  /\ held' = held \ {x}
  /\ UNCHANGED <<fixed, heap, proto, object, rooted, ptr, watched, watch, slot, holderVars,
                 final, crashed, histories, misled>>

(***************************************************************************)
(* A key belongs to the last object rooted under it.  The roots that       *)
(* addReflect makes cannot be written: the constructor of a script::Object *)
(* throws when it meets one.                                               *)
(***************************************************************************)
Root(a) == rooted' = (rooted \ SameKey({a})) \union {a}

Unroot(A) == rooted' = rooted \ SameKey(A)

Locked == rooted \intersect UNION {ptr[e] : e \in Emitters}

(***************************************************************************)
(* script::Object: constructor, destructor, and PushObject of one.  The    *)
(* destructor removes the root whoever else needs it.                      *)
(***************************************************************************)
KeepMutant(a) == UNCHANGED rooted   \* the constructor stores the address only

Keep(a) == Root(a)

Wrap(h, a) ==
  /\ Running
  /\ ptr[h] = {}
  /\ a \in held \intersect Addrs
  /\ object[a] = "plain"
  /\ SameKey({a}) \intersect Locked = {}
  /\ ptr' = [ptr EXCEPT ![h] = {a}]
  /\ Keep(a)
  /\ Follow({}, Stored(Holders \ Maps, SameKey({a}) \ {a}))
  /\ UNCHANGED <<scriptVars, watched, watch, slot, holderVars, final, crashed, misled>>

Unwrap(h) ==
  /\ Quiet
  /\ ptr[h] # {}
  /\ ptr' = [ptr EXCEPT ![h] = {}]
  /\ IF open THEN Unroot(ptr[h]) ELSE UNCHANGED rooted
  /\ Follow({}, Stored(Holders \ Maps, SameKey(ptr[h])))
  /\ UNCHANGED <<scriptVars, watched, watch, slot, holderVars, final, crashed, misled>>

(***************************************************************************)
(* PushObject of a script::Object, or of a ReflectObject that has a shell. *)
(***************************************************************************)
Push(x) ==
  /\ Running
  /\ ptr[x] # {}
  /\ IF StoredBy(x, Addrs) \subseteq stale
       THEN crashed' = TRUE /\ UNCHANGED held
       ELSE held' = held \union ptr[x] /\ UNCHANGED crashed
  /\ UNCHANGED <<fixed, heap, proto, object, rooted, ptr, watched, watch, slot, holderVars,
                 final, histories, misled>>

(***************************************************************************)
(* duk_getWeakObject reads the property __weakObject, which an object may  *)
(* inherit; when there is none, the object gets its own.                   *)
(***************************************************************************)
Watcher(a) == IF a \notin watched /\ proto[a] \in watched THEN proto[a] ELSE a

Watch(x, a) ==
  /\ watched' = watched \union {Watcher(a)}
  /\ watch' = [watch EXCEPT ![Watcher(a)] = @ \union {x}]
  /\ misled' = IF Watcher(a) = a THEN misled ELSE misled \union {x}

Unwatch(X, A) ==
  watch' = [b \in Addrs |-> IF \E a \in A : Watcher(a) = b THEN watch[b] \ X ELSE watch[b]]

(***************************************************************************)
(* PushObject and InitObject of a ReflectObject without a shell: one that  *)
(* C++ code owns, or one that a script allocates, which only the Scope     *)
(* refers to.                                                              *)
(***************************************************************************)
Make(e) ==
  /\ Quiet
  /\ e \notin made
  /\ made' = made \union {e}
  /\ live' = live \union {e}
  /\ own' = own \union {e}
  /\ UNCHANGED <<scriptVars, rooted, ptr, watched, watch, slot, scoped, final, crashed,
                 histories, misled>>

ReflectRootMutant(a) == UNCHANGED rooted   \* addReflect does not root the shell

ReflectRoot(a) == Root(a)

Reflect(e, a, p) ==
  /\ Running
  /\ e \in live \/ e \notin made
  /\ ptr[e] = {}
  /\ Place(a, p, e)
  /\ made' = made \union {e}
  /\ live' = live \union {e}
  /\ scoped' = scoped \union {e}
  /\ ptr' = [ptr EXCEPT ![e] = {a}]
  /\ LET w == IF p \in watched THEN p ELSE a IN
       /\ watched' = watched \union {w}
       /\ watch' = [watch EXCEPT ![w] = @ \union {e}]
       /\ misled' = IF w = a THEN misled ELSE misled \union {e}
  /\ ReflectRoot(a)
  /\ Follow({}, Stored(Holders \ Maps, SameKey({a}) \ {a}))
  /\ UNCHANGED <<fixed, slot, own, final, crashed>>

(***************************************************************************)
(* ~ReflectObject, for the emitters of E: the shell is no longer watched,  *)
(* loses its pointer and its root.                                         *)
(***************************************************************************)
BareMutant(A) == UNCHANGED object   \* the pointer stays

Bare(A) == object' = [a \in Addrs |-> IF a \in A THEN "none" ELSE object[a]]

Delete(E) ==
  LET shells == UNION {ptr[e] : e \in E} IN
    /\ live' = live \ E
    /\ IF Stored(E, Addrs) \intersect stale # {}
         THEN /\ crashed' = TRUE
              /\ UNCHANGED <<object, rooted, ptr, watch, histories>>
         ELSE /\ Bare(shells)
              /\ Unroot(shells)
              /\ Unwatch(E, shells)
              /\ ptr' = [x \in Holders |-> IF x \in E THEN {} ELSE ptr[x]]
              /\ Follow({}, Stored(Holders \ Maps, SameKey(shells)))
              /\ UNCHANGED crashed

Release(e) ==
  /\ Quiet
  /\ e \in own
  /\ own' = own \ {e}
  /\ Delete({e} \ scoped)
  /\ UNCHANGED <<fixed, heap, held, proto, watched, slot, scoped, made, final, misled>>

EndScope ==
  /\ Quiet
  /\ scoped # {}
  /\ scoped' = {}
  /\ Delete(scoped \ own)
  /\ UNCHANGED <<fixed, heap, held, proto, watched, slot, own, made, final, misled>>

(***************************************************************************)
(* WeakMap: new, set, delete.  A key is watched when it is first set.      *)
(***************************************************************************)
NewMap(m) ==
  /\ Running
  /\ m \notin made
  /\ made' = made \union {m}
  /\ live' = live \union {m}
  /\ held' = held \union {m}
  /\ UNCHANGED <<fixed, heap, proto, object, rooted, ptr, watched, watch, slot, own, scoped,
                 final, crashed, histories, misled>>

Set(m, a) ==
  /\ Running
  /\ m \in held
  /\ a \in held \intersect Addrs
  /\ ptr' = [ptr EXCEPT ![m] = @ \union {a}]
  /\ slot' = [slot EXCEPT ![m] = (@ \ SameKey({a})) \union {a}]
  /\ IF a \in ptr[m]
       THEN UNCHANGED <<watched, watch, misled>>
       ELSE Watch(m, a)
  /\ Follow({}, {})
  /\ UNCHANGED <<scriptVars, rooted, holderVars, final, crashed>>

Remove(m, a) ==
  /\ Running
  /\ m \in held
  /\ a \in held \intersect ptr[m]
  /\ ptr' = [ptr EXCEPT ![m] = @ \ {a}]
  /\ slot' = [slot EXCEPT ![m] = @ \ SameKey({a})]
  /\ Unwatch({m}, {a})
  /\ Follow({}, {})
  /\ UNCHANGED <<scriptVars, rooted, watched, holderVars, final, crashed, misled>>

(***************************************************************************)
(* The collector (external): it frees objects that neither scripts nor     *)
(* roots nor the objects that stay refer to, and finds WeakMaps that       *)
(* nothing refers to.  Their finalizers and those of the WeakObjects of    *)
(* the freed objects are then due.                                         *)
(***************************************************************************)
Sweep(S, M) ==
  /\ Running
  /\ S \union M # {}
  /\ S \intersect (held \union rooted) = {}
  /\ \A a \in heap \ S : proto[a] \notin S
  /\ M \intersect held = {}
  /\ heap' = heap \ S
  /\ proto' = [a \in Addrs |-> IF a \in S THEN "none" ELSE proto[a]]
  /\ object' = [a \in Addrs |-> IF a \in S THEN "plain" ELSE object[a]]
  /\ final' = (S \intersect watched) \union M
  /\ ptr' = ptr
  /\ Follow(Stored(Holders, S), {})
  /\ UNCHANGED <<fixed, held, rooted, watched, watch, slot, holderVars, crashed, misled>>

(***************************************************************************)
(* WeakObject_dealloc and recycle(): a ReflectObject forgets its shell, a  *)
(* WeakMap the key.                                                        *)
(***************************************************************************)
ForgetMutant(x, a) == IF x \in Emitters THEN {} ELSE ptr[x]   \* WeakMap: the key stays

Forget(x, a) == IF x \in Emitters THEN {} ELSE ptr[x] \ {a}

FinalizeKey(a) ==
  /\ ~crashed
  /\ a \in final \intersect Addrs
  /\ final' = final \ {a}
  /\ watched' = watched \ {a}
  /\ watch' = [watch EXCEPT ![a] = {}]
  /\ IF watch[a] \subseteq live
       THEN /\ ptr' = [x \in Holders |-> IF x \in watch[a] THEN Forget(x, a) ELSE ptr[x]]
            /\ slot' = [m \in Maps |-> IF m \in watch[a] /\ a \in ptr[m]
                                         THEN slot[m] \ SameKey({a}) ELSE slot[m]]
            /\ Follow({}, {})
            /\ UNCHANGED crashed
       ELSE crashed' = TRUE /\ UNCHANGED <<ptr, slot, histories>>
  /\ UNCHANGED <<scriptVars, rooted, holderVars, misled>>

(***************************************************************************)
(* WeakMap_dealloc looks at every key.                                     *)
(***************************************************************************)
FinalizeMap(m) ==
  /\ ~crashed
  /\ m \in final \intersect Maps
  /\ final' = final \ {m}
  /\ live' = live \ {m}
  /\ IF StoredBy(m, Addrs) \intersect stale = {}
       THEN /\ ptr' = [ptr EXCEPT ![m] = {}]
            /\ Unwatch({m}, ptr[m])
            /\ slot' = [slot EXCEPT ![m] = {}]
            /\ Follow({}, {})
            /\ UNCHANGED crashed
       ELSE crashed' = TRUE /\ UNCHANGED <<ptr, slot, watch, histories>>
  /\ UNCHANGED <<scriptVars, rooted, watched, own, scoped, made, misled>>

(***************************************************************************)
(* ~Context: duk_destroy_heap runs all finalizers, in any order, before it *)
(* frees objects.  No order helps who meets a freed key, or tells who is   *)
(* deleted.  An unlucky order runs the WeakObject of a prototype before a  *)
(* WeakMap with a key registered there: the map finds it by the key, and   *)
(* uses it (WeakObject_dealloc leaves __object as it was).                 *)
(***************************************************************************)
Doomed ==
  \/ Stored(Maps, Addrs) \intersect stale # {}
  \/ \E a \in watched : ~(watch[a] \subseteq live)

Unlucky == \E m \in Maps : \E a \in ptr[m] : Watcher(a) # a

Destroy ==
  /\ Running
  /\ open' = FALSE
  /\ \/ /\ ~Doomed
        /\ heap' = {} /\ held' = {} /\ rooted' = {} /\ watched' = {}
        /\ proto' = [a \in Addrs |-> "none"]
        /\ object' = [a \in Addrs |-> "plain"]
        /\ ptr' = [x \in Holders |->
                     IF x \in Maps \/ \E a \in watched : x \in watch[a] THEN {} ELSE ptr[x]]
        /\ watch' = [a \in Addrs |-> {}]
        /\ slot' = [m \in Maps |-> {}]
        /\ live' = live \ Maps
        /\ Follow(Stored(Holders, Addrs), {})
        /\ UNCHANGED crashed
     \/ /\ Doomed \/ Unlucky
        /\ crashed' = TRUE
        /\ UNCHANGED <<heap, held, rooted, watched, proto, object, ptr, watch, slot, live,
                       histories>>
  /\ UNCHANGED <<key, own, scoped, made, final, misled>>

-----------------------------------------------------------------------------
Script ==
  \/ \E a \in Addrs, p \in Addrs \union {"none"} : New(a, p)
  \/ \E x \in Addrs \union Maps : Drop(x)
  \/ \E m \in Maps : NewMap(m) \/ \E a \in Addrs : Set(m, a) \/ Remove(m, a)

Native ==
  \/ \E h \in Handles : Unwrap(h) \/ \E a \in Addrs : Wrap(h, a)
  \/ \E x \in Handles \union Emitters : Push(x)
  \/ \E e \in Emitters :
       \/ Make(e) \/ Release(e)
       \/ \E a \in Addrs, p \in Addrs \union {"none"} : Reflect(e, a, p)
  \/ EndScope

Collector ==
  \/ \E S \in SUBSET heap, M \in SUBSET (live \intersect Maps) : Sweep(S, M)
  \/ \E a \in Addrs : FinalizeKey(a)
  \/ \E m \in Maps : FinalizeMap(m)
  \/ Destroy

Next == Script \/ Native \/ Collector

Spec == Init /\ [][Next]_vars

-----------------------------------------------------------------------------
(* Properties.                                                             *)

(***************************************************************************)
(* Every variable keeps its type.                                          *)
(***************************************************************************)
Pairs == Holders \X Addrs

TypeOK ==
  /\ open \in BOOLEAN /\ crashed \in BOOLEAN
  /\ heap \in SUBSET Addrs /\ rooted \in SUBSET Addrs /\ watched \in SUBSET Addrs
  /\ held \in SUBSET (Addrs \union Maps) /\ final \in SUBSET (Addrs \union Maps)
  /\ proto \in [Addrs -> Addrs \union {"none"}]
  /\ object \in [Addrs -> Emitters \union {"plain", "none"}]
  /\ ptr \in [Holders -> SUBSET Addrs]
  /\ watch \in [Addrs -> SUBSET (Emitters \union Maps)]
  /\ slot \in [Maps -> SUBSET Addrs]
  /\ own \in SUBSET Emitters /\ scoped \in SUBSET Emitters
  /\ live \in SUBSET (Emitters \union Maps) /\ made \in SUBSET (Emitters \union Maps)
  /\ stale \in SUBSET Pairs /\ unrooted \in SUBSET Pairs
  /\ misled \in SUBSET (Emitters \union Maps)

(***************************************************************************)
(* The function of a script::Object is not freed while the object exists,  *)
(* unless another holder of the same function, or of one with the same 32  *)
(* bits, has taken the root away (script::Object::Object, ~Object).        *)
(***************************************************************************)
FunctionsKept ==
  open => \A p \in stale : p[1] \in Handles => p \in unrooted

(***************************************************************************)
(* No shell points to a deleted emitter, and an emitter and its shell know *)
(* each other; no WeakObject would tell a deleted emitter or WeakMap,      *)
(* unless that one was registered with the WeakObject of a prototype       *)
(* (ReflectObject::~ReflectObject, WeakMap::recycle).                      *)
(***************************************************************************)
PointersMatch ==
  ~crashed =>
    /\ \A a \in heap : object[a] \in Emitters => object[a] \in live /\ ptr[object[a]] = {a}
    /\ \A a \in watched : watch[a] \subseteq live \union misled

(***************************************************************************)
(* Once the finalizers have run, a WeakMap has no freed key, so that a new *)
(* object at the same address is not taken for it, and finds for each key  *)
(* what was set for it: unless the key shares the WeakObject of another,   *)
(* or the 32 bits of another (WeakMap::set, recycle).                      *)
(***************************************************************************)
WeakMapsForget ==
  ~crashed /\ final = {} => \A m \in Maps, a \in Addrs : a \in ptr[m] =>
    \/ m \in misled
    \/ /\ a \in heap /\ <<m, a>> \notin stale
       /\ a \in slot[m] \/ SameKey({a}) # {a}

(***************************************************************************)
(* An emitter keeps the address of its shell as long as it and the heap    *)
(* exist: it is never told that the shell is freed, which would lose the   *)
(* listeners of the scripts, unless another object with the same 32 bits   *)
(* has taken the root (ReflectObject::addReflect, recycle).                *)
(***************************************************************************)
ShellsStay ==
  [][\A e \in Emitters :
       ptr[e] # {} /\ e \in live' /\ open' =>
         ptr'[e] = ptr[e] \/ StoredBy(e, Addrs) \subseteq unrooted]_vars
=============================================================================
