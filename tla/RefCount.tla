------------------------------ MODULE RefCount ------------------------------
(***************************************************************************)
(* kk::Object's reference count, kk::Strong, kk::Weak and the global       *)
(* kk::MutexAtomic (kk-object.cc), used by several threads.                *)
(*                                                                         *)
(* Every retain, release, weak and unWeak is a critical section of the     *)
(* global mutex _lock.  release() does not delete an object whose count    *)
(* falls to zero: it queues it, and MutexAtomic::unlock, which ends every  *)
(* one of these sections, empties the queue after _lock was released.  So  *)
(* an object is deleted by whichever thread unlocks first, and the count   *)
(* is looked at once more, without the mutex, before the delete.           *)
(*                                                                         *)
(* A counted reference is a Strong variable, here a slot.  A slot belongs  *)
(* to a thread (a local, or the context of a call it was handed), or to an *)
(* object (a member, released by that object's destructor).  A member is   *)
(* read and set by a thread that knows the object and takes it for its own *)
(* meanwhile: kk leaves it to the program that two threads do not work on  *)
(* one variable at a time.  Each thread has one Weak variable.  After a    *)
(* use of a deleted object ("fault") nothing is defined any more and the   *)
(* model stops.                                                            *)
(***************************************************************************)
EXTENDS Integers, Sequences, FiniteSets, Functions

CONSTANTS
  Threads,
  Objects,   (* the objects that can be created (bounds the runs)          *)
  Slots,     (* the Strong variables                                       *)
  Nil,
  WeakOps    (* TRUE if the threads also use their Weak variables          *)

ASSUME KindsAssumption ==
  /\ Nil \notin Threads \union Objects \union Slots
  /\ Threads \intersect Objects = {}
  /\ Threads \intersect Slots = {}
ASSUME FiniteAssumption == IsFiniteSet(Threads) /\ IsFiniteSet(Slots)
ASSUME WeakAssumption == WeakOps \in BOOLEAN

VARIABLES
  state,     (* of each object: unborn, live, deleting (in its destructor  *)
             (* before ~Object), deleted                                   *)
  count,     (* _retainCount                                               *)
  pend,      (* MutexAtomic::_objects                                      *)
  mutex,     (* the thread that holds _lock between two actions, or Nil    *)
  holds,     (* the object each slot refers to, or Nil                     *)
  owner,     (* the thread or the object each slot belongs to              *)
  pc,        (* where each thread is                                       *)
  next,      (* where it goes on once the queue is empty and no destructor *)
             (* is left to finish                                          *)
  arg,       (* the argument of the set() it is inside of                  *)
  target,    (* the slot that Strong::set is called on                     *)
  obj,       (* "this" of release() and unWeak(), or "v" of unlock()       *)
  stack,     (* the objects whose destructors the thread is inside of,     *)
             (* innermost first                                            *)
  weak,      (* the object the thread's Weak refers to, or Nil             *)
  watchers,  (* _weakObjects of each object                                *)
  revived,   (* history: a count has left zero after it had fallen to zero *)
  fault      (* the use of a deleted object that ended the run, if any     *)

vars == <<state, count, pend, mutex, holds, owner, pc, next, arg, target, obj,
          stack, weak, watchers, revived, fault>>
weakVars == <<weak, watchers, revived>>
slotVars == <<holds, owner>>
callVars == <<next, arg, target>>

States == {"unborn", "live", "deleting", "deleted"}
PCs == {"idle", "append", "drain", "check", "delete", "dtor", "assign",
        "weakOld", "weakAssign", "upgrade", "unweak"}
Faults == {"none", "release", "check", "delete", "use", "retain", "unweak"}

Init ==
  /\ state = [o \in Objects |-> "unborn"]
  /\ count = [o \in Objects |-> 0]
  /\ pend = <<>>
  /\ mutex = Nil
  /\ holds = [s \in Slots |-> Nil]
  /\ owner \in [Slots -> Threads]
  /\ pc = [t \in Threads |-> "idle"]
  /\ next = [t \in Threads |-> "idle"]
  /\ arg = [t \in Threads |-> Nil]
  /\ target = [t \in Threads |-> Nil]
  /\ obj = [t \in Threads |-> Nil]
  /\ stack = [t \in Threads |-> <<>>]
  /\ weak = [t \in Threads |-> Nil]
  /\ watchers = [o \in Objects |-> {}]
  /\ revived = FALSE
  /\ fault = "none"

Goto(t, l) == pc' = [pc EXCEPT ![t] = l]

(***************************************************************************)
(* The thread can name o: one of its own slots refers to it.               *)
(***************************************************************************)
Known(t, o) == \E s \in Slots : owner[s] = t /\ holds[s] = o

-----------------------------------------------------------------------------
(* Object::retain and Object::release.                                     *)

(***************************************************************************)
(* Object::retain, called by Strong::set before the old value is released. *)
(* Its unlock() empties the queue.                                         *)
(***************************************************************************)
RetainOnceMutant(t, s, o) ==   \* a second reference is not counted
  /\ mutex = Nil
  /\ count' = [count EXCEPT ![o] = 1]
  /\ target' = [target EXCEPT ![t] = s]
  /\ arg' = [arg EXCEPT ![t] = o]
  /\ next' = [next EXCEPT ![t] = "assign"]
  /\ Goto(t, "drain")

Retain(t, s, o) ==
  /\ mutex = Nil
  /\ count' = [count EXCEPT ![o] = @ + 1]
  /\ target' = [target EXCEPT ![t] = s]
  /\ arg' = [arg EXCEPT ![t] = o]
  /\ next' = [next EXCEPT ![t] = "assign"]
  /\ Goto(t, "drain")

(***************************************************************************)
(* Object::release for the reference in slot s, up to the queueing of an   *)
(* object whose count has fallen to zero.                                  *)
(***************************************************************************)
ReleaseLateMutant(t, s) ==   \* the object is queued one reference too early
  LET o == holds[s] IN
  /\ mutex = Nil
  /\ holds' = [holds EXCEPT ![s] = Nil]
  /\ count' = [count EXCEPT ![o] = @ - 1]
  /\ IF count[o] <= 2
       THEN mutex' = t /\ obj' = [obj EXCEPT ![t] = o] /\ Goto(t, "append")
       ELSE Goto(t, "drain") /\ UNCHANGED <<mutex, obj>>
  /\ UNCHANGED fault

Release(t, s) ==
  LET o == holds[s] IN
  /\ mutex = Nil
  /\ holds' = [holds EXCEPT ![s] = Nil]
  /\ IF state[o] = "deleted"
       THEN fault' = "release" /\ UNCHANGED <<count, mutex, obj, pc>>
       ELSE /\ count' = [count EXCEPT ![o] = @ - 1]
            /\ IF count[o] = 1
                 THEN mutex' = t /\ obj' = [obj EXCEPT ![t] = o] /\ Goto(t, "append")
                 ELSE Goto(t, "drain") /\ UNCHANGED <<mutex, obj>>
            /\ UNCHANGED fault

(***************************************************************************)
(* MutexAtomic::addObject, still inside release()'s critical section.      *)
(***************************************************************************)
AddObjectLostMutant(t) ==   \* the object is not queued
  /\ pc[t] = "append"
  /\ obj' = [obj EXCEPT ![t] = Nil]
  /\ mutex' = Nil
  /\ Goto(t, "drain")
  /\ UNCHANGED <<pend, state, count, slotVars, callVars, stack, weakVars, fault>>

AddObject(t) ==
  /\ pc[t] = "append"
  /\ pend' = Append(pend, obj[t])
  /\ obj' = [obj EXCEPT ![t] = Nil]
  /\ mutex' = Nil
  /\ Goto(t, "drain")
  /\ UNCHANGED <<state, count, slotVars, callVars, stack, weakVars, fault>>

-----------------------------------------------------------------------------
(* MutexAtomic::unlock, after it has released _lock.                       *)

PopPending(t) ==
  /\ pc[t] = "drain"
  /\ pend # <<>>
  /\ obj' = [obj EXCEPT ![t] = Head(pend)]
  /\ pend' = Tail(pend)
  /\ Goto(t, "check")
  /\ UNCHANGED <<state, count, mutex, slotVars, callVars, stack, weakVars, fault>>

(***************************************************************************)
(* The queue is empty: the thread goes on with the innermost destructor it *)
(* is inside of, or else with the call that came to unlock().              *)
(***************************************************************************)
Drained(t) ==
  /\ pc[t] = "drain"
  /\ pend = <<>>
  /\ Goto(t, IF stack[t] # <<>> THEN "dtor" ELSE next[t])
  /\ UNCHANGED <<state, count, pend, mutex, slotVars, callVars, obj, stack, weakVars, fault>>

(***************************************************************************)
(* v->retainCount() == 0, read without _lock.                              *)
(***************************************************************************)
CheckCount(t) ==
  /\ pc[t] = "check"
  /\ \/ /\ state[obj[t]] = "deleted"
        /\ fault' = "check"
        /\ UNCHANGED <<pc, obj>>
     \/ /\ state[obj[t]] # "deleted"
        /\ count[obj[t]] = 0
        /\ Goto(t, "delete")
        /\ UNCHANGED <<obj, fault>>
     \/ /\ state[obj[t]] # "deleted"
        /\ count[obj[t]] # 0
        /\ Goto(t, "drain")
        /\ obj' = [obj EXCEPT ![t] = Nil]
        /\ UNCHANGED fault
  /\ UNCHANGED <<state, count, pend, mutex, slotVars, callVars, stack, weakVars>>

Delete(t) ==
  /\ pc[t] = "delete"
  /\ \/ /\ state[obj[t]] = "live"
        /\ state' = [state EXCEPT ![obj[t]] = "deleting"]
        /\ stack' = [stack EXCEPT ![t] = <<obj[t]>> \o @]
        /\ Goto(t, "dtor")
        /\ UNCHANGED fault
     \/ /\ state[obj[t]] # "live"
        /\ fault' = "delete"
        /\ UNCHANGED <<state, stack, pc>>
  /\ obj' = [obj EXCEPT ![t] = Nil]
  /\ UNCHANGED <<count, pend, mutex, slotVars, callVars, weakVars>>

(***************************************************************************)
(* The destructor of the innermost object releases its members one by one. *)
(***************************************************************************)
Members(o) == {s \in Slots : owner[s] = o /\ holds[s] # Nil}

DtorMember(t) ==
  /\ pc[t] = "dtor"
  /\ \E s \in Members(Head(stack[t])) : Release(t, s)
  /\ UNCHANGED <<state, pend, owner, callVars, stack, weakVars>>

(***************************************************************************)
(* ~Object, the last of the destructors: under _lock every Weak that       *)
(* refers to the object is set to null.  Its unlock() empties the queue.   *)
(***************************************************************************)
NullWeakMutant(o) == UNCHANGED weak   \* the Weak variables are not set to null

NullWeak(o) ==
  weak' = [t \in Threads |-> IF t \in watchers[o] THEN Nil ELSE weak[t]]

DtorObject(t) ==
  LET o == Head(stack[t]) IN
  /\ pc[t] = "dtor"
  /\ Members(o) = {}
  /\ mutex = Nil
  /\ state' = [state EXCEPT ![o] = "deleted"]
  /\ NullWeak(o)
  /\ stack' = [stack EXCEPT ![t] = Tail(@)]
  /\ Goto(t, "drain")
  /\ UNCHANGED <<count, pend, mutex, slotVars, callVars, obj, watchers, revived, fault>>

-----------------------------------------------------------------------------
(* Strong.                                                                 *)

(***************************************************************************)
(* Strong::set on slot s with a new object, whose count is zero, or with   *)
(* another object the thread has a reference to.                           *)
(***************************************************************************)
SetNew(t, s, o) ==
  /\ pc[t] = "idle"
  /\ owner[s] = t
  /\ state[o] = "unborn"
  /\ state' = [state EXCEPT ![o] = "live"]
  /\ Retain(t, s, o)
  /\ UNCHANGED <<pend, mutex, slotVars, obj, stack, weakVars, fault>>

SetKnown(t, s, o) ==
  /\ pc[t] = "idle"
  /\ owner[s] = t
  /\ holds[s] # o
  /\ Known(t, o)
  /\ state[o] # "deleted"
  /\ Retain(t, s, o)
  /\ UNCHANGED <<state, pend, mutex, slotVars, obj, stack, weakVars, fault>>

(***************************************************************************)
(* The rest of set(): the old value is released, then the new one stored.  *)
(***************************************************************************)
SetReleaseOld(t) ==
  /\ pc[t] = "assign"
  /\ holds[target[t]] # Nil
  /\ Release(t, target[t])
  /\ UNCHANGED <<state, pend, owner, callVars, stack, weakVars>>

SetAssign(t) ==
  /\ pc[t] = "assign"
  /\ holds[target[t]] = Nil
  /\ holds' = [holds EXCEPT ![target[t]] = arg[t]]
  /\ Goto(t, "idle")
  /\ next' = [next EXCEPT ![t] = "idle"]
  /\ arg' = [arg EXCEPT ![t] = Nil]
  /\ target' = [target EXCEPT ![t] = Nil]
  /\ UNCHANGED <<state, count, pend, mutex, owner, obj, stack, weakVars, fault>>

(***************************************************************************)
(* ~Strong, or set(nullptr).                                               *)
(***************************************************************************)
Clear(t, s) ==
  /\ pc[t] = "idle"
  /\ owner[s] = t
  /\ holds[s] # Nil
  /\ Release(t, s)
  /\ UNCHANGED <<state, pend, owner, callVars, stack, weakVars>>

(***************************************************************************)
(* A Strong on the heap changes hands: it goes with the context of a call  *)
(* to another thread, or becomes a member of an object the thread knows.   *)
(***************************************************************************)
HandOver(t, s, u) ==
  /\ pc[t] = "idle"
  /\ owner[s] = t
  /\ \/ u \in Threads \ {t}
     \/ u \in Objects /\ Known(t, u) /\ holds[s] # u /\ state[u] # "deleted"
  /\ owner' = [owner EXCEPT ![s] = u]
  /\ UNCHANGED <<state, count, pend, mutex, holds, pc, callVars, obj, stack, weakVars, fault>>

(***************************************************************************)
(* A member of an object that the thread knows: the thread uses it as one  *)
(* of its own, and may make it a member again by HandOver.                 *)
(***************************************************************************)
TakeBack(t, s) ==
  /\ pc[t] = "idle"
  /\ owner[s] \in Objects
  /\ Known(t, owner[s])
  /\ state[owner[s]] # "deleted"
  /\ owner' = [owner EXCEPT ![s] = t]
  /\ UNCHANGED <<state, count, pend, mutex, holds, pc, callVars, obj, stack, weakVars, fault>>

(***************************************************************************)
(* The same uses of a Strong when the object it refers to is deleted: set, *)
(* weak and the assignment of a member touch the memory of the object.     *)
(***************************************************************************)
UseDeleted(t, o) ==
  /\ pc[t] = "idle"
  /\ Known(t, o)
  /\ state[o] = "deleted"
  /\ fault' = "use"
  /\ UNCHANGED <<state, count, pend, mutex, slotVars, pc, callVars, obj, stack, weakVars>>

-----------------------------------------------------------------------------
(* Weak.                                                                   *)

(***************************************************************************)
(* Weak::set: the new object learns of the variable under _lock, then the  *)
(* old one, if it is still there, is told to forget it, and the variable   *)
(* is assigned without _lock.                                              *)
(***************************************************************************)
WeakSet(t, o) ==
  /\ WeakOps
  /\ pc[t] = "idle"
  /\ weak[t] # o
  /\ Known(t, o)
  /\ state[o] # "deleted"
  /\ mutex = Nil
  /\ watchers' = [watchers EXCEPT ![o] = @ \union {t}]
  /\ arg' = [arg EXCEPT ![t] = o]
  /\ next' = [next EXCEPT ![t] = "weakOld"]
  /\ Goto(t, "drain")
  /\ UNCHANGED <<state, count, pend, mutex, slotVars, target, obj, stack, weak, revived, fault>>

(***************************************************************************)
(* ~Weak, or set(nullptr).                                                 *)
(***************************************************************************)
WeakClear(t) ==
  /\ WeakOps
  /\ pc[t] = "idle"
  /\ weak[t] # Nil
  /\ arg' = [arg EXCEPT ![t] = Nil]
  /\ next' = [next EXCEPT ![t] = "weakOld"]
  /\ Goto(t, "weakOld")
  /\ UNCHANGED <<state, count, pend, mutex, slotVars, target, obj, stack, weakVars, fault>>

(***************************************************************************)
(* The old pointer is read without the mutex, then unWeak is called on     *)
(* what was read.                                                          *)
(***************************************************************************)
WeakOld(t) ==
  /\ pc[t] = "weakOld"
  /\ \/ /\ weak[t] = Nil
        /\ next' = [next EXCEPT ![t] = "weakAssign"]
        /\ Goto(t, "weakAssign")
        /\ UNCHANGED obj
     \/ /\ weak[t] # Nil
        /\ obj' = [obj EXCEPT ![t] = weak[t]]
        /\ Goto(t, "unweak")
        /\ UNCHANGED next
  /\ UNCHANGED <<state, count, pend, mutex, slotVars, arg, target, stack, weakVars, fault>>

ForgetNewMutant(t) ==   \* unWeak is called on the new object
  LET o == IF arg[t] = Nil THEN obj[t] ELSE arg[t] IN
  /\ pc[t] = "unweak"
  /\ mutex = Nil
  /\ state[o] # "deleted"
  /\ watchers' = [watchers EXCEPT ![o] = @ \ {t}]
  /\ obj' = [obj EXCEPT ![t] = Nil]
  /\ next' = [next EXCEPT ![t] = "weakAssign"]
  /\ Goto(t, "drain")
  /\ UNCHANGED <<state, count, pend, mutex, slotVars, arg, target, stack, weak, revived, fault>>

UnWeak(t) ==
  LET o == obj[t] IN
  /\ pc[t] = "unweak"
  /\ mutex = Nil
  /\ \/ /\ state[o] = "deleted"
        /\ fault' = "unweak"
        /\ UNCHANGED <<watchers, next, obj, pc>>
     \/ /\ state[o] # "deleted"
        /\ watchers' = [watchers EXCEPT ![o] = @ \ {t}]
        /\ obj' = [obj EXCEPT ![t] = Nil]
        /\ next' = [next EXCEPT ![t] = "weakAssign"]
        /\ Goto(t, "drain")
        /\ UNCHANGED fault
  /\ UNCHANGED <<state, count, pend, mutex, slotVars, arg, target, stack, weak, revived>>

WeakAssign(t) ==
  /\ pc[t] = "weakAssign"
  /\ weak' = [weak EXCEPT ![t] = arg[t]]
  /\ arg' = [arg EXCEPT ![t] = Nil]
  /\ next' = [next EXCEPT ![t] = "idle"]
  /\ Goto(t, "idle")
  /\ UNCHANGED <<state, count, pend, mutex, slotVars, target, obj, stack, watchers, revived, fault>>

(***************************************************************************)
(* Strong::operator=(Ref&) from a Weak: get() reads the pointer without    *)
(* the mutex, then set() retains what was read.                            *)
(***************************************************************************)
WeakGet(t, s) ==
  /\ WeakOps
  /\ pc[t] = "idle"
  /\ weak[t] # Nil
  /\ owner[s] = t
  /\ holds[s] # weak[t]
  /\ arg' = [arg EXCEPT ![t] = weak[t]]
  /\ target' = [target EXCEPT ![t] = s]
  /\ Goto(t, "upgrade")
  /\ UNCHANGED <<state, count, pend, mutex, slotVars, next, obj, stack, weakVars, fault>>

WeakRetain(t) ==
  LET o == arg[t] IN
  /\ pc[t] = "upgrade"
  /\ mutex = Nil
  /\ \/ /\ state[o] = "deleted"
        /\ fault' = "retain"
        /\ UNCHANGED <<count, pc, next, target, arg, revived>>
     \/ /\ state[o] # "deleted"
        /\ Retain(t, target[t], o)
        /\ revived' = (revived \/ count[o] = 0)
        /\ UNCHANGED fault
  /\ UNCHANGED <<state, pend, mutex, slotVars, obj, stack, weak, watchers>>

-----------------------------------------------------------------------------
(***************************************************************************)
(* What a thread does of itself once it is inside a call, and the calls.   *)
(***************************************************************************)
Continue(t) ==
  \/ AddObject(t)
  \/ PopPending(t)
  \/ Drained(t)
  \/ CheckCount(t)
  \/ Delete(t)
  \/ DtorMember(t)
  \/ DtorObject(t)
  \/ SetReleaseOld(t)
  \/ SetAssign(t)
  \/ WeakOld(t)
  \/ UnWeak(t)
  \/ WeakAssign(t)
  \/ WeakRetain(t)

Use(t) ==
  \/ \E s \in Slots, o \in Objects : SetNew(t, s, o) \/ SetKnown(t, s, o)
  \/ \E s \in Slots : Clear(t, s) \/ TakeBack(t, s) \/ WeakGet(t, s)
  \/ \E s \in Slots, u \in Threads \union Objects : HandOver(t, s, u)
  \/ \E o \in Objects : WeakSet(t, o) \/ UseDeleted(t, o)
  \/ WeakClear(t)

Next == fault = "none" /\ \E t \in Threads : Continue(t) \/ Use(t)

Spec == Init /\ [][Next]_vars

(***************************************************************************)
(* A thread inside a call goes on; it is granted _lock sooner or later     *)
(* even if other threads keep taking it.                                   *)
(***************************************************************************)
FairSpec == Spec /\ \A t \in Threads : SF_vars(fault = "none" /\ Continue(t))

-----------------------------------------------------------------------------
(* Properties.                                                             *)

(***************************************************************************)
(* Every variable keeps its type.                                          *)
(***************************************************************************)
TypeOK ==
  /\ state \in [Objects -> States]
  /\ count \in [Objects -> Nat]
  /\ pend \in Seq(Objects)
  /\ mutex \in Threads \union {Nil}
  /\ holds \in [Slots -> Objects \union {Nil}]
  /\ owner \in [Slots -> Threads \union Objects]
  /\ pc \in [Threads -> PCs]
  /\ next \in [Threads -> {"idle", "assign", "weakOld", "weakAssign"}]
  /\ arg \in [Threads -> Objects \union {Nil}]
  /\ target \in [Threads -> Slots \union {Nil}]
  /\ obj \in [Threads -> Objects \union {Nil}]
  /\ stack \in [Threads -> Seq(Objects)]
  /\ weak \in [Threads -> Objects \union {Nil}]
  /\ watchers \in [Objects -> SUBSET Threads]
  /\ revived \in BOOLEAN
  /\ fault \in Faults

(***************************************************************************)
(* The counted references to o: the slots that refer to it, and the        *)
(* threads inside a set() that have retained it and not yet stored it.     *)
(***************************************************************************)
Holders(o) ==
  {s \in Slots : holds[s] = o} \union {t \in Threads : next[t] = "assign" /\ arg[t] = o}

(***************************************************************************)
(* While nothing has faulted, _retainCount is the number of references.    *)
(***************************************************************************)
CountIsHolders ==
  fault = "none" => \A o \in Objects : count[o] = Cardinality(Holders(o))

(***************************************************************************)
(* The promise of a Strong: as long as a reference is counted its object   *)
(* is neither deleted nor being deleted, whichever thread empties the      *)
(* queue.  It can fail only after a Weak has revived an object.            *)
(***************************************************************************)
HeldIsLive ==
  ~revived => \A o \in Objects : Holders(o) # {} => state[o] = "live"

(***************************************************************************)
(* The threads that are about to queue, to check or to delete o.           *)
(***************************************************************************)
Handling(o) == {t \in Threads : pc[t] \in {"append", "check", "delete"} /\ obj[t] = o}

(***************************************************************************)
(* An object whose count has fallen to zero is on its way to one delete,   *)
(* once: in the queue, or with one thread, or in one destructor.           *)
(***************************************************************************)
DeletedOnce ==
  ~revived =>
    /\ IsInjective(pend)
    /\ \A o \in Objects :
         /\ Cardinality(Handling(o)) <= 1
         /\ o \in Range(pend) => Handling(o) = {}
         /\ o \in Range(pend) \/ Handling(o) # {} => state[o] = "live" /\ count[o] = 0
         /\ state[o] = "live" /\ count[o] = 0 => o \in Range(pend) \/ Handling(o) # {}

(***************************************************************************)
(* A deleted object is used only by a thread that goes through its Weak,   *)
(* or after such a thread has revived an object from count zero.           *)
(***************************************************************************)
FaultsAreWeak == fault \in {"release", "check", "delete", "use"} => revived

(***************************************************************************)
(* Threads that use only Strong variables never use a deleted object, and  *)
(* neither does a thread that is alone, whatever it uses.                  *)
(***************************************************************************)
NoFault == fault = "none"

(***************************************************************************)
(* A Weak never refers to a deleted object (~Object, Weak::set), but for   *)
(* the end of a set() on it: the old object has forgotten the variable and *)
(* the new one is not assigned yet.                                        *)
(***************************************************************************)
WeakIsNulled ==
  ~revived => \A t \in Threads :
                weak[t] # Nil /\ next[t] # "weakAssign" => state[weak[t]] # "deleted"

(***************************************************************************)
(* An object that nothing refers to any more is deleted.                   *)
(***************************************************************************)
UnreferencedIsDeleted ==
  \A o \in Objects : state[o] = "live" /\ count[o] = 0 ~> state[o] = "deleted"

-----------------------------------------------------------------------------
(***************************************************************************)
(* The holders of an object are those of Ownership, and an object is       *)
(* reclaimed when ~Object has run.                                         *)
(***************************************************************************)
OW == INSTANCE Ownership WITH
        Tokens <- Threads \union Slots,
        born   <- {o \in Objects : state[o] # "unborn"},
        gone   <- {o \in Objects : state[o] = "deleted"},
        refs   <- [o \in Objects |-> Holders(o)]

(***************************************************************************)
(* Retain, release, set() and the deferred delete together implement       *)
(* ownership: no object is reclaimed early, twice, or revived.             *)
(***************************************************************************)
ImplementsOwnership == OW!Spec
=============================================================================
