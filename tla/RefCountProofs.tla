--------------------------- MODULE RefCountProofs ---------------------------
(***************************************************************************)
(* Proofs about RefCount for any number of threads, objects and Strong     *)
(* variables.  What is true whatever the threads do with their Weak        *)
(* variables comes first; then what holds of threads that use none, and of *)
(* a thread that is alone.                                                 *)
(***************************************************************************)
EXTENDS RefCount, SequenceTheorems, TLAPS, FiniteSetTheorems

-----------------------------------------------------------------------------
(* Sequences.                                                              *)

(***************************************************************************)
(* Append adds its argument to the elements of a sequence.                 *)
(***************************************************************************)
LEMMA RangeAppend ==
  ASSUME NEW S, NEW s \in Seq(S), NEW t \in S
  PROVE  Range(Append(s, t)) = Range(s) \union {t}
<1>1. Len(Append(s, t)) = Len(s) + 1 /\ Len(s) \in Nat
  OBVIOUS
<1>2. \A i \in 1 .. Len(s) : Append(s, t)[i] = s[i]
  OBVIOUS
<1>3. Append(s, t)[Len(s) + 1] = t
  OBVIOUS
<1> QED
  BY <1>1, <1>2, <1>3 DEF Range

(***************************************************************************)
(* The elements of a sequence over S are in S; the empty one has none.     *)
(***************************************************************************)
LEMMA RangeType ==
  ASSUME NEW S
  PROVE  /\ Range(<<>>) = {}
         /\ \A s \in Seq(S) : Range(s) \subseteq S
  BY ElementOfSeq DEF Range

(***************************************************************************)
(* A non-empty sequence is its head and its tail.                          *)
(***************************************************************************)
LEMMA RangeHeadTail ==
  ASSUME NEW S, NEW s \in Seq(S), s # <<>>
  PROVE  /\ Head(s) \in S
         /\ Tail(s) \in Seq(S)
         /\ Range(s) = {Head(s)} \union Range(Tail(s))
<1>1. /\ Head(s) \in S /\ Tail(s) \in Seq(S) /\ Len(s) \in Nat \ {0}
      /\ Len(Tail(s)) = Len(s) - 1
      /\ \A i \in 1 .. Len(Tail(s)) : Tail(s)[i] = s[i + 1]
  BY HeadTailProperties, EmptySeq
<1>2. Head(s) = s[1]
  OBVIOUS
<1>3. \A i \in 1 .. Len(s) : i = 1 \/ (i - 1 \in 1 .. Len(Tail(s)) /\ s[i] = Tail(s)[i - 1])
  BY <1>1
<1>d. DOMAIN s = 1 .. Len(s) /\ DOMAIN Tail(s) = 1 .. Len(Tail(s))
  BY <1>1
<1>4. Range(s) \subseteq {Head(s)} \union Range(Tail(s))
  <2> SUFFICES ASSUME NEW i \in 1 .. Len(s) PROVE s[i] \in {Head(s)} \union Range(Tail(s))
    BY <1>d DEF Range
  <2>1. CASE i = 1
    BY <1>2, <2>1
  <2>2. CASE i # 1
    <3>1. i - 1 \in DOMAIN Tail(s) /\ s[i] = Tail(s)[i - 1]
      BY <1>d, <1>3, <2>2
    <3> QED
      BY <3>1 DEF Range
  <2> QED
    BY <2>1, <2>2
<1>5. Head(s) \in Range(s)
  BY <1>1, <1>2 DEF Range
<1>6. \A i \in 1 .. Len(Tail(s)) : Tail(s)[i] \in Range(s)
  BY <1>1 DEF Range
<1> QED
  BY <1>d, <1>1, <1>4, <1>5, <1>6 DEF Range

(***************************************************************************)
(* Appending a new element keeps a sequence without repetition.            *)
(***************************************************************************)
LEMMA InjectiveAppend ==
  ASSUME NEW S, NEW s \in Seq(S), NEW t \in S, IsInjective(s), t \notin Range(s)
  PROVE  IsInjective(Append(s, t))
<1>1. Len(Append(s, t)) = Len(s) + 1 /\ Len(s) \in Nat
  OBVIOUS
<1>2. \A i \in 1 .. Len(s) : Append(s, t)[i] = s[i] /\ s[i] # t
  BY DEF Range
<1>3. Append(s, t)[Len(s) + 1] = t
  OBVIOUS
<1> QED
  BY <1>1, <1>2, <1>3 DEF IsInjective

(***************************************************************************)
(* The head of a sequence without repetition is not in its tail, which has *)
(* no repetition either.                                                   *)
(***************************************************************************)
LEMMA InjectiveTail ==
  ASSUME NEW S, NEW s \in Seq(S), s # <<>>, IsInjective(s)
  PROVE  IsInjective(Tail(s)) /\ Head(s) \notin Range(Tail(s))
<1>1. /\ Tail(s) \in Seq(S) /\ Len(s) \in Nat \ {0}
      /\ Len(Tail(s)) = Len(s) - 1
      /\ \A i \in 1 .. Len(Tail(s)) : Tail(s)[i] = s[i + 1] /\ i + 1 \in 1 .. Len(s)
  BY HeadTailProperties, EmptySeq
<1>2. Head(s) = s[1] /\ 1 \in 1 .. Len(s)
  BY <1>1
<1>3. IsInjective(Tail(s))
  BY <1>1 DEF IsInjective
<1>4. \A i \in 1 .. Len(Tail(s)) : Tail(s)[i] # Head(s)
  BY <1>1, <1>2 DEF IsInjective
<1> QED
  BY <1>3, <1>4 DEF Range

(***************************************************************************)
(* Putting an element in front of a sequence.                              *)
(***************************************************************************)
LEMMA Prepend ==
  ASSUME NEW S, NEW s \in Seq(S), NEW t \in S
  PROVE  /\ <<t>> \o s \in Seq(S) /\ <<t>> \o s # <<>>
         /\ Range(<<t>> \o s) = {t} \union Range(s)
         /\ IsInjective(s) /\ t \notin Range(s) => IsInjective(<<t>> \o s)
<1> DEFINE r == <<t>> \o s
<1>1. /\ r \in Seq(S) /\ Len(r) = Len(s) + 1 /\ Len(s) \in Nat
      /\ DOMAIN r = 1 .. Len(r) /\ DOMAIN s = 1 .. Len(s)
  OBVIOUS
<1>2. r[1] = t /\ \A i \in 1 .. Len(s) : r[i + 1] = s[i]
  OBVIOUS
<1>3. \A i \in 1 .. Len(r) : i = 1 \/ (i - 1 \in 1 .. Len(s) /\ r[i] = s[i - 1])
  BY <1>1, <1>2
<1>4. r # <<>>
  BY <1>1
<1>5. Range(r) = {t} \union Range(s)
  <2>1. Range(r) \subseteq {t} \union Range(s)
    BY <1>1, <1>2, <1>3 DEF Range
  <2>2. t \in Range(r)
    BY <1>1, <1>2 DEF Range
  <2>3. \A i \in 1 .. Len(s) : i + 1 \in 1 .. Len(r) /\ s[i] = r[i + 1]
    BY <1>1, <1>2
  <2>4. Range(s) \subseteq Range(r)
    BY <1>1, <2>3 DEF Range
  <2> QED
    BY <2>1, <2>2, <2>4
<1>6. ASSUME IsInjective(s), t \notin Range(s) PROVE IsInjective(r)
  <2>1. \A i \in 1 .. Len(s) : s[i] # t
    BY <1>1, <1>6 DEF Range
  <2> QED
    BY <1>1, <1>2, <1>3, <1>6, <2>1 DEF IsInjective
<1> QED
  BY <1>1, <1>4, <1>5, <1>6

(***************************************************************************)
(* The inductive invariant, in named parts.  Besides the parts below it    *)
(* has CountIsHolders, HeldIsLive and FaultsAreWeak.                       *)
(*                                                                         *)
(* Calls: the local variables of a call hold what the thread's place in    *)
(* the code says.  A thread inside Weak::set (Setting) has a Strong on the *)
(* new object, which knows of the variable.                                *)
(***************************************************************************)
Setting(t) == next[t] \in {"weakOld", "weakAssign"}

Calls ==
  fault = "none" => \A t \in Threads :
    /\ next[t] = "assign" => arg[t] \in Objects /\ target[t] \in Slots /\ owner[target[t]] = t
    /\ Setting(t) /\ arg[t] # Nil => Known(t, arg[t]) /\ t \in watchers[arg[t]]
    /\ next[t] = "weakOld" => weak[t] = Nil \/ weak[t] # arg[t]
    /\ pc[t] \in {"assign", "weakOld", "weakAssign"} => next[t] = pc[t]
    /\ pc[t] \in {"idle", "upgrade"} => next[t] = "idle"
    /\ pc[t] = "upgrade" => arg[t] \in Objects /\ target[t] \in Slots /\ owner[target[t]] = t
    /\ pc[t] = "unweak" => next[t] = "weakOld" /\ obj[t] # arg[t]
    /\ pc[t] = "dtor" => stack[t] # <<>>
    /\ pc[t] \in {"append", "check", "delete", "unweak"} => obj[t] \in Objects

(***************************************************************************)
(* Condemned: until a Weak revives an object, a live object whose count is *)
(* zero is in the queue or with a thread, in one place only, and nothing   *)
(* else is there.                                                          *)
(***************************************************************************)
Handler(t, o) == pc[t] \in {"append", "check", "delete"} /\ obj[t] = o

Condemned ==
  ~revived =>
    /\ IsInjective(pend)
    /\ \A o \in Range(pend) : state[o] = "live" /\ count[o] = 0
    /\ \A t \in Threads, o \in Objects : Handler(t, o) =>
         /\ state[o] = "live" /\ count[o] = 0 /\ o \notin Range(pend)
         /\ \A u \in Threads : Handler(u, o) => u = t
    /\ \A o \in Objects : state[o] = "live" /\ count[o] = 0 =>
         o \in Range(pend) \/ \E t \in Threads : Handler(t, o)

(***************************************************************************)
(* Destructors: an object is being destroyed by one thread, once.          *)
(***************************************************************************)
Destructors ==
  /\ \A t \in Threads : IsInjective(stack[t])
  /\ \A t \in Threads : \A o \in Range(stack[t]) : state[o] = "deleting"
  /\ \A t, u \in Threads : t # u => Range(stack[t]) \intersect Range(stack[u]) = {}
  /\ \A o \in Objects : state[o] = "deleting" => \E t \in Threads : o \in Range(stack[t])

(***************************************************************************)
(* Watched: an object knows the Weak variables that refer to it, and they  *)
(* are null once it is deleted, but for one that is about to be assigned.  *)
(***************************************************************************)
Watched ==
  \A t \in Threads : weak[t] # Nil /\ next[t] # "weakAssign" =>
    /\ t \in watchers[weak[t]]
    /\ ~revived => state[weak[t]] \in {"live", "deleting"}

IInv ==
  /\ TypeOK
  /\ Calls
  /\ CountIsHolders
  /\ HeldIsLive
  /\ Condemned
  /\ Destructors
  /\ Watched
  /\ FaultsAreWeak

(***************************************************************************)
(* StrongOnly: without Weak variables no thread is inside an operation of  *)
(* one, so nothing is revived and nothing faults.                          *)
(***************************************************************************)
StrongOnly ==
  /\ \A t \in Threads : pc[t] \notin {"weakOld", "unweak", "weakAssign", "upgrade"} /\ ~Setting(t)
  /\ ~revived
  /\ fault = "none"

(***************************************************************************)
(* Quiet: a thread that is alone leaves no deletion undone when a call     *)
(* returns, so what its Weak refers to is alive when it goes through it.   *)
(***************************************************************************)
Quiet ==
  /\ ~revived
  /\ fault = "none"
  /\ \A t \in Threads :
       /\ pc[t] \in {"idle", "assign", "weakOld", "unweak", "weakAssign", "upgrade"} =>
            pend = <<>> /\ stack[t] = <<>>
       /\ pc[t] = "upgrade" => weak[t] = arg[t]
       /\ pc[t] = "unweak" => weak[t] = obj[t]

-----------------------------------------------------------------------------
(***************************************************************************)
(* The holders of an object are finitely many threads and slots.           *)
(***************************************************************************)
LEMMA HoldersFinite ==
  \A o \in Objects : IsFiniteSet(Holders(o)) /\ Holders(o) \subseteq Slots \union Threads
<1> SUFFICES ASSUME NEW o \in Objects
             PROVE  IsFiniteSet(Holders(o)) /\ Holders(o) \subseteq Slots \union Threads
  OBVIOUS
<1>1. Holders(o) \subseteq Slots \union Threads
  BY DEF Holders
<1>2. IsFiniteSet(Slots \union Threads)
  BY FiniteAssumption, FS_Union
<1> QED
  BY <1>1, <1>2, FS_Subset

(***************************************************************************)
(* The count is zero exactly if nothing holds the object.                  *)
(***************************************************************************)
LEMMA ZeroIsUnheld ==
  ASSUME CountIsHolders, fault = "none", NEW o \in Objects
  PROVE  /\ count[o] = Cardinality(Holders(o)) /\ count[o] \in Nat
         /\ count[o] = 0 <=> Holders(o) = {}
<1>1. count[o] = Cardinality(Holders(o))
  BY DEF CountIsHolders
<1>2. Cardinality(Holders(o)) \in Nat /\ (Cardinality(Holders(o)) = 0 <=> Holders(o) = {})
  BY HoldersFinite, FS_CardinalityType, FS_EmptySet
<1> QED
  BY <1>1, <1>2

(***************************************************************************)
(* The initial states satisfy the inductive invariant.                     *)
(***************************************************************************)
LEMMA InitIInv == Init => IInv
<1> SUFFICES ASSUME Init PROVE IInv
  OBVIOUS
<1> USE KindsAssumption DEF Init
<1>1. <<>> \in Seq(Objects) /\ Range(<<>>) = {} /\ IsInjective(<<>>)
  BY RangeType DEF IsInjective
<1>2. TypeOK
  <2>1. state \in [Objects -> States] /\ count \in [Objects -> Nat] /\ pend \in Seq(Objects)
    BY <1>1 DEF States
  <2>2. holds \in [Slots -> Objects \union {Nil}] /\ owner \in [Slots -> Threads \union Objects]
    OBVIOUS
  <2>3. /\ pc \in [Threads -> PCs] /\ next \in [Threads -> {"idle", "assign", "weakOld", "weakAssign"}]
        /\ arg \in [Threads -> Objects \union {Nil}] /\ target \in [Threads -> Slots \union {Nil}]
        /\ obj \in [Threads -> Objects \union {Nil}] /\ weak \in [Threads -> Objects \union {Nil}]
    BY DEF PCs
  <2>4. stack \in [Threads -> Seq(Objects)] /\ watchers \in [Objects -> SUBSET Threads]
    BY <1>1
  <2> QED
    BY <2>1, <2>2, <2>3, <2>4 DEF TypeOK, Faults
<1>3. Calls /\ Watched /\ FaultsAreWeak
  BY DEF Calls, Watched, FaultsAreWeak
<1>4. \A o \in Objects : Holders(o) = {}
  BY DEF Holders
<1>5. CountIsHolders /\ HeldIsLive
  BY <1>4, FS_EmptySet DEF CountIsHolders, HeldIsLive
<1>6. Condemned
  BY <1>1 DEF Condemned, Handler
<1>7. Destructors
  BY <1>1 DEF Destructors
<1> QED
  BY <1>2, <1>3, <1>5, <1>6, <1>7 DEF IInv

(***************************************************************************)
(* Steps that touch no counted reference leave the counts right.           *)
(***************************************************************************)
LEMMA SameHolders ==
  ASSUME UNCHANGED <<holds, next, arg>>, NEW o \in Objects
  PROVE  Holders(o)' = Holders(o)
  BY DEF Holders

(***************************************************************************)
(* A step that ends the run leaves all but local variables alone; a fault  *)
(* that is not the Weak's own takes a revived object.                      *)
(***************************************************************************)
LEMMA FaultIInv ==
  ASSUME IInv, TypeOK', fault' # "none", fault' \in {"release", "check", "delete", "use"} => revived,
         UNCHANGED <<state, count, pend, owner, pc, next, stack, weak, watchers, revived>>,
         UNCHANGED <<holds, obj>> \/ revived,
         \A s \in Slots : holds'[s] = holds[s] \/ holds'[s] = Nil,
         \A o \in Objects : Holders(o)' \subseteq Holders(o)
  PROVE  IInv'
<1>a. TypeOK /\ HeldIsLive /\ Condemned /\ Destructors /\ Watched
  BY DEF IInv
<1>1. Calls' /\ CountIsHolders' /\ FaultsAreWeak'
  BY DEF Calls, CountIsHolders, FaultsAreWeak
<1>2. HeldIsLive'
  BY <1>a DEF HeldIsLive
<1>3. Condemned'
  <2>1. ~revived => \A u \in Threads, p \in Objects : Handler(u, p)' <=> Handler(u, p)
    BY DEF Handler
  <2> QED
    BY <1>a, <2>1 DEF Condemned
<1>4. Destructors' /\ Watched'
  BY <1>a DEF Destructors, Watched
<1> QED
  BY <1>1, <1>2, <1>3, <1>4 DEF IInv

-----------------------------------------------------------------------------
(***************************************************************************)
(* A retain, of a new object, of one the thread has a reference to, or of  *)
(* what was read from a Weak: the object gains the thread as a holder.     *)
(***************************************************************************)
LEMMA RetainIInv ==
  ASSUME IInv, fault = "none", NEW t \in Threads, NEW s \in Slots, NEW o \in Objects,
         pc[t] \in {"idle", "upgrade"}, owner[s] = t, Retain(t, s, o),
         \/ state[o] = "unborn" /\ state' = [state EXCEPT ![o] = "live"] /\ revived' = revived
         \/ state' = state /\ revived' = (revived \/ count[o] = 0),
         UNCHANGED <<pend, mutex, slotVars, obj, stack, weak, watchers, fault>>
  PROVE  IInv'
<1> USE DEF slotVars
<1>a. /\ TypeOK /\ Calls /\ CountIsHolders /\ HeldIsLive /\ Condemned /\ Destructors
      /\ Watched
  BY DEF IInv
<1>b. /\ count' = [count EXCEPT ![o] = @ + 1]
      /\ target' = [target EXCEPT ![t] = s]
      /\ arg' = [arg EXCEPT ![t] = o]
      /\ next' = [next EXCEPT ![t] = "assign"]
      /\ pc' = [pc EXCEPT ![t] = "drain"]
  BY DEF Retain, Goto
<1>c. next[t] = "idle" /\ t \notin Holders(o)
  BY <1>a, KindsAssumption DEF Calls, Holders
<1>d. /\ Holders(o)' = Holders(o) \union {t}
      /\ \A p \in Objects : p # o => Holders(p)' = Holders(p)
  BY <1>a, <1>b, <1>c DEF Holders, TypeOK
<1>e. /\ Cardinality(Holders(o)') = Cardinality(Holders(o)) + 1
      /\ \A p \in Objects : count[p] = Cardinality(Holders(p)) /\ count[p] \in Nat
      /\ count[o] = 0 <=> Holders(o) = {}
  <2>1. Cardinality(Holders(o)') = Cardinality(Holders(o)) + 1
    <3>1. IsFiniteSet(Holders(o))
      BY HoldersFinite
    <3>2. Cardinality(Holders(o) \union {t}) = Cardinality(Holders(o)) + 1
      BY <1>c, <3>1, FS_AddElement
    <3> QED
      BY <1>d, <3>2
  <2>2. \A p \in Objects : /\ count[p] = Cardinality(Holders(p)) /\ count[p] \in Nat
                           /\ count[p] = 0 <=> Holders(p) = {}
    BY <1>a, ZeroIsUnheld
  <2> QED
    BY <2>1, <2>2
<1>f. /\ count' \in [Objects -> Nat] /\ count'[o] = count[o] + 1
      /\ \A p \in Objects : p # o => count'[p] = count[p]
  BY <1>a, <1>b, <1>e DEF TypeOK
<1>g. ~revived' => ~revived /\ state'[o] = "live" /\ (state[o] = "unborn" \/ count[o] # 0)
  BY <1>a, <1>e DEF HeldIsLive, TypeOK
<1>h. /\ \A p \in Objects : p # o => state'[p] = state[p]
      /\ state'[o] = state[o] \/ (state[o] = "unborn" /\ state'[o] = "live")
  BY <1>a DEF TypeOK
<1>1. TypeOK'
  <2>1. state' \in [Objects -> States] /\ revived' \in BOOLEAN
    BY <1>a DEF TypeOK, States
  <2>2. /\ target' \in [Threads -> Slots \union {Nil}]
        /\ arg' \in [Threads -> Objects \union {Nil}]
        /\ next' \in [Threads -> {"idle", "assign", "weakOld", "weakAssign"}]
        /\ pc' \in [Threads -> PCs]
    BY <1>a, <1>b DEF TypeOK, PCs
  <2> QED
    BY <1>a, <1>f, <2>1, <2>2 DEF TypeOK
<1>2. Calls'
  BY <1>a, <1>b DEF Calls, Setting, Known, TypeOK
<1>3. CountIsHolders' /\ HeldIsLive'
  <2>1. CountIsHolders'
    BY <1>d, <1>e, <1>f DEF CountIsHolders
  <2>2. HeldIsLive'
    BY <1>a, <1>d, <1>g, <1>h DEF HeldIsLive
  <2> QED
    BY <2>1, <2>2
<1>4. Condemned'
  <2> SUFFICES ASSUME ~revived' PROVE Condemned'
    BY DEF Condemned
  <2>1. o \notin Range(pend) /\ \A u \in Threads : ~Handler(u, o)
    BY <1>a, <1>g DEF Condemned
  <2>2. \A u \in Threads, p \in Objects : Handler(u, p)' <=> Handler(u, p)
    BY <1>a, <1>b DEF Handler, TypeOK
  <2>3. count'[o] # 0
    BY <1>e, <1>f
  <2>4. Range(pend) \subseteq Objects
    BY <1>a, RangeType DEF TypeOK
  <2> QED
    BY <1>a, <1>f, <1>g, <1>h, <2>1, <2>2, <2>3, <2>4 DEF Condemned
<1>5. Destructors'
  <2>1. \A u \in Threads : Range(stack[u]) \subseteq Objects
    BY <1>a, RangeType DEF TypeOK
  <2> QED
    BY <1>a, <1>h, <2>1 DEF Destructors
<1>6. Watched'
  <2>1. \A u \in Threads : next'[u] # "weakAssign" => next[u] # "weakAssign"
    BY <1>a, <1>b, <1>c DEF TypeOK
  <2> QED
    BY <1>a, <1>g, <1>h, <2>1 DEF Watched, TypeOK
<1>7. FaultsAreWeak'
  BY <1>a, <1>h DEF FaultsAreWeak
<1> QED
  BY <1>1, <1>2, <1>3, <1>4, <1>5, <1>6, <1>7 DEF IInv

(***************************************************************************)
(* Object::release: the slot is no holder any more; with the last holder   *)
(* the object comes to be handled by the releasing thread.                 *)
(***************************************************************************)
LEMMA ReleaseIInv ==
  ASSUME IInv, fault = "none", NEW t \in Threads, NEW s \in Slots, NEW o \in Objects, holds[s] = o,
         owner[s] \in Threads => ~Setting(owner[s]),
         pc[t] \in {"idle", "assign", "dtor"}, Release(t, s),
         UNCHANGED <<state, pend, owner, callVars, stack, weakVars>>
  PROVE  IInv'
<1> USE DEF callVars, weakVars
<1>a. /\ TypeOK /\ Calls /\ CountIsHolders /\ HeldIsLive /\ Condemned /\ Destructors
      /\ Watched
  BY DEF IInv
<1>b. s \in Holders(o) /\ holds' = [holds EXCEPT ![s] = Nil] /\ (~revived => state[o] = "live")
  BY <1>a DEF Release, Holders, HeldIsLive
<1>d. /\ Holders(o)' = Holders(o) \ {s}
      /\ \A p \in Objects : p # o => Holders(p)' = Holders(p)
  BY <1>a, <1>b, KindsAssumption DEF Holders, TypeOK
<1>t. /\ holds' \in [Slots -> Objects \union {Nil}]
      /\ \A r \in Slots : holds'[r] = (IF r = s THEN Nil ELSE holds[r])
  BY <1>a, <1>b DEF TypeOK
<1>p. CASE state[o] = "deleted"
  <2>1. fault' = "release" /\ revived /\ UNCHANGED <<count, mutex, obj, pc>>
    BY <1>b, <1>p DEF Release
  <2>2. TypeOK'
    BY <1>a, <1>t, <2>1 DEF TypeOK, Faults
  <2>3. \A p \in Objects : Holders(p)' \subseteq Holders(p)
    BY <1>d
  <2>4. UNCHANGED <<state, count, pend, owner, pc, next, stack, weak, watchers, revived>>
    BY <2>1
  <2>5. \A r \in Slots : holds'[r] = holds[r] \/ holds'[r] = Nil
    BY <1>t
  <2>6. fault' # "none" /\ (fault' \in {"release", "check", "delete", "use"} => revived)
    BY <2>1
  <2>7. UNCHANGED <<holds, obj>> \/ revived
    BY <2>1
  <2> QED
    BY <2>2, <2>3, <2>4, <2>5, <2>6, <2>7, FaultIInv
<1>q. CASE state[o] # "deleted"
  <2>c. /\ count' = [count EXCEPT ![o] = @ - 1]
        /\ \/ /\ count[o] = 1 /\ mutex' = t
              /\ obj' = [obj EXCEPT ![t] = o] /\ pc' = [pc EXCEPT ![t] = "append"]
           \/ /\ count[o] # 1 /\ UNCHANGED <<mutex, obj>>
              /\ pc' = [pc EXCEPT ![t] = "drain"]
        /\ UNCHANGED fault
    BY <1>q DEF Release, Goto
  <2>e. /\ Cardinality(Holders(o)') = Cardinality(Holders(o)) - 1
        /\ \A p \in Objects : count[p] = Cardinality(Holders(p)) /\ count[p] \in Nat
        /\ count[o] # 0
    <3>1. Cardinality(Holders(o)') = Cardinality(Holders(o)) - 1
      BY <1>b, <1>d, HoldersFinite, FS_RemoveElement, FS_CardinalityType
    <3>2. \A p \in Objects : /\ count[p] = Cardinality(Holders(p)) /\ count[p] \in Nat
                             /\ count[p] = 0 <=> Holders(p) = {}
      BY <1>a, ZeroIsUnheld
    <3> QED
      BY <1>b, <3>1, <3>2
  <2>f. /\ count' \in [Objects -> Nat] /\ count'[o] = count[o] - 1
        /\ \A p \in Objects : p # o => count'[p] = count[p]
    BY <1>a, <1>b, <2>c, <2>e DEF TypeOK
  <2>1. TypeOK'
    <3>1. mutex' \in Threads \union {Nil} /\ obj' \in [Threads -> Objects \union {Nil}]
      BY <1>a, <2>c DEF TypeOK
    <3>2. pc' \in [Threads -> PCs]
      <4>1. pc \in [Threads -> PCs]
        BY <1>a DEF TypeOK
      <4>2. pc' = [pc EXCEPT ![t] = "append"] \/ pc' = [pc EXCEPT ![t] = "drain"]
        BY <2>c
      <4> QED
        BY <4>1, <4>2 DEF PCs
    <3>3. /\ state' \in [Objects -> States] /\ pend' \in Seq(Objects)
          /\ owner' \in [Slots -> Threads \union Objects]
          /\ next' \in [Threads -> {"idle", "assign", "weakOld", "weakAssign"}]
      BY <1>a DEF TypeOK
    <3>4. /\ arg' \in [Threads -> Objects \union {Nil}]
          /\ target' \in [Threads -> Slots \union {Nil}]
          /\ stack' \in [Threads -> Seq(Objects)]
      BY <1>a DEF TypeOK
    <3>5. /\ weak' \in [Threads -> Objects \union {Nil}]
          /\ watchers' \in [Objects -> SUBSET Threads]
          /\ revived' \in BOOLEAN /\ fault' \in Faults
      BY <1>a, <2>c DEF TypeOK
    <3> QED
      BY <1>t, <2>f, <3>1, <3>2, <3>3, <3>4, <3>5 DEF TypeOK
  <2>2. Calls'
    <3>1. /\ pc'[t] = "drain" \/ (pc'[t] = "append" /\ obj'[t] \in Objects)
          /\ \A u \in Threads : u # t => pc'[u] = pc[u] /\ obj'[u] = obj[u]
      BY <1>a, <2>c DEF TypeOK
    <3>2. ASSUME NEW u \in Threads, Setting(u), arg[u] # Nil PROVE Known(u, arg[u])'
      <4>1. PICK r \in Slots : owner[r] = u /\ holds[r] = arg[u]
        BY <1>a, <3>2 DEF Calls, Setting, Known
      <4>2. r # s
        BY <3>2, <4>1
      <4> QED
        BY <1>t, <4>1, <4>2 DEF Known
    <3> QED
      BY <1>a, <3>1, <3>2 DEF Calls, Setting
  <2>3. CountIsHolders' /\ HeldIsLive'
    <3>1. CountIsHolders'
      BY <1>d, <2>e, <2>f DEF CountIsHolders
    <3>2. HeldIsLive'
      BY <1>a, <1>d DEF HeldIsLive
    <3> QED
      BY <3>1, <3>2
  <2>4. Condemned'
    <3> SUFFICES ASSUME ~revived PROVE Condemned'
      BY DEF Condemned
    <3>1. o \notin Range(pend) /\ \A u \in Threads : ~Handler(u, o)
      BY <1>a, <2>e DEF Condemned
    <3>2. Range(pend) \subseteq Objects
      BY <1>a, RangeType DEF TypeOK
    <3>3. \A u \in Threads, p \in Objects :
            Handler(u, p)' <=> Handler(u, p) \/ (u = t /\ p = o /\ count[o] = 1)
      BY <1>a, <2>c DEF Handler, TypeOK
    <3>4. count[o] = 1 => count'[o] = 0 /\ Handler(t, o)'
      BY <2>f, <3>3
    <3>5. count[o] # 1 => count'[o] # 0
      BY <2>f, <2>e
    <3>6. IsInjective(pend)' /\ \A p \in Range(pend)' : (state[p] = "live" /\ count[p] = 0)'
      BY <1>a, <2>f, <3>1, <3>2 DEF Condemned
    <3>7. \A u \in Threads, p \in Objects : Handler(u, p)' =>
            /\ (state[p] = "live" /\ count[p] = 0 /\ p \notin Range(pend))'
            /\ \A w \in Threads : Handler(w, p)' => w = u
      BY <1>a, <1>b, <2>f, <3>1, <3>3, <3>4 DEF Condemned
    <3>8. \A p \in Objects : (state[p] = "live" /\ count[p] = 0)' =>
            p \in Range(pend)' \/ \E u \in Threads : Handler(u, p)'
      BY <1>a, <2>f, <3>3, <3>4, <3>5 DEF Condemned
    <3> QED
      BY <3>6, <3>7, <3>8 DEF Condemned
  <2>5. Destructors' /\ Watched'
    BY <1>a DEF Destructors, Watched
  <2>6. FaultsAreWeak'
    BY <1>a, <1>t, <2>c DEF FaultsAreWeak
  <2> QED
    BY <2>1, <2>2, <2>3, <2>4, <2>5, <2>6 DEF IInv
<1> QED
  BY <1>p, <1>q

(***************************************************************************)
(* The second half of Strong::set: the thread's hold becomes the slot's.   *)
(***************************************************************************)
LEMMA SetAssignIInv ==
  ASSUME IInv, fault = "none", NEW t \in Threads, SetAssign(t),
         NEW o \in Objects, arg[t] = o, NEW s \in Slots, target[t] = s
  PROVE  IInv'
<1> USE DEF slotVars, weakVars
<1>a. /\ TypeOK /\ Calls /\ CountIsHolders /\ HeldIsLive /\ Condemned /\ Destructors
      /\ Watched
  BY DEF IInv
<1>b. pc[t] = "assign" /\ next[t] = "assign" /\ owner[s] = t /\ holds[s] = Nil
  BY <1>a DEF SetAssign, Calls
<1>c. /\ holds' = [holds EXCEPT ![s] = o] /\ pc' = [pc EXCEPT ![t] = "idle"]
      /\ next' = [next EXCEPT ![t] = "idle"] /\ arg' = [arg EXCEPT ![t] = Nil]
      /\ target' = [target EXCEPT ![t] = Nil]
      /\ UNCHANGED <<state, count, pend, mutex, owner, obj, stack, weakVars, fault>>
  BY DEF SetAssign, Goto
<1>d. /\ Holders(o)' = (Holders(o) \ {t}) \union {s}
      /\ \A p \in Objects : p # o => Holders(p)' = Holders(p)
      /\ t \in Holders(o) /\ s \notin Holders(o) /\ s # t
  BY <1>a, <1>b, <1>c, KindsAssumption DEF Holders, TypeOK
<1>e. Cardinality(Holders(o)') = Cardinality(Holders(o))
  <2>1. /\ IsFiniteSet(Holders(o) \ {t}) /\ Cardinality(Holders(o)) \in Nat
        /\ Cardinality(Holders(o) \ {t}) = Cardinality(Holders(o)) - 1
    BY <1>b, <1>d, HoldersFinite, FS_RemoveElement, FS_CardinalityType
  <2>2. s \notin Holders(o) \ {t}
    BY <1>d
  <2>3. Cardinality((Holders(o) \ {t}) \union {s}) = Cardinality(Holders(o) \ {t}) + 1
    BY <2>1, <2>2, FS_AddElement
  <2> QED
    BY <1>d, <2>1, <2>3
<1>1. TypeOK'
  <2>1. holds' \in [Slots -> Objects \union {Nil}]
    BY <1>a, <1>c DEF TypeOK
  <2>2. /\ target' \in [Threads -> Slots \union {Nil}]
        /\ arg' \in [Threads -> Objects \union {Nil}]
        /\ next' \in [Threads -> {"idle", "assign", "weakOld", "weakAssign"}]
        /\ pc' \in [Threads -> PCs]
    BY <1>a, <1>c DEF TypeOK, PCs
  <2> QED
    BY <1>a, <1>c, <2>1, <2>2 DEF TypeOK
<1>2. Calls'
  <2>1. ASSUME NEW u \in Threads, Setting(u), arg[u] # Nil PROVE Known(u, arg[u])'
    <3>1. arg[u] \in Objects /\ Known(u, arg[u]) /\ u # t
      BY <1>a, <1>b, <2>1 DEF Calls, Setting, TypeOK
    <3>2. PICK r \in Slots : owner[r] = u /\ holds[r] = arg[u]
      BY <3>1 DEF Known
    <3>3. r # s /\ arg'[u] = arg[u]
      BY <1>a, <1>b, <1>c, <3>1, <3>2, KindsAssumption DEF TypeOK
    <3>4. owner'[r] = u /\ holds'[r] = arg'[u]
      BY <1>a, <1>c, <3>2, <3>3 DEF TypeOK
    <3> QED
      BY <3>4 DEF Known
  <2>2. /\ pc'[t] = "idle" /\ next'[t] = "idle"
        /\ \A u \in Threads : u # t => /\ pc'[u] = pc[u] /\ next'[u] = next[u] /\ arg'[u] = arg[u]
                                       /\ target'[u] = target[u]
    BY <1>a, <1>c DEF TypeOK
  <2> QED
    BY <1>a, <1>c, <2>1, <2>2 DEF Calls, Setting
<1>3. CountIsHolders' /\ HeldIsLive'
  <2>1. Holders(o) # {}
    BY <1>d
  <2>2. CountIsHolders'
    BY <1>a, <1>c, <1>d, <1>e DEF CountIsHolders
  <2>3. HeldIsLive'
    BY <1>a, <1>c, <1>d, <2>1 DEF HeldIsLive
  <2> QED
    BY <2>2, <2>3
<1>4. Condemned'
  <2>1. \A u \in Threads, p \in Objects : Handler(u, p)' <=> Handler(u, p)
    BY <1>a, <1>b, <1>c DEF Handler, TypeOK
  <2> QED
    BY <1>a, <1>c, <2>1 DEF Condemned
<1>5. Destructors' /\ Watched' /\ FaultsAreWeak'
  <2>1. \A u \in Threads : next'[u] # "weakAssign" => next[u] # "weakAssign"
    BY <1>a, <1>b, <1>c DEF TypeOK
  <2> QED
    BY <1>a, <1>c, <2>1 DEF Destructors, Watched, FaultsAreWeak
<1> QED
  BY <1>1, <1>2, <1>3, <1>4, <1>5 DEF IInv

(***************************************************************************)
(* Steps that change only a thread's place in the code, the object it      *)
(* works on and the queue leave the other parts of the invariant alone.    *)
(***************************************************************************)
LEMMA LocalIInv ==
  ASSUME IInv, fault = "none", TypeOK', Calls', Condemned', fault' = "none",
         UNCHANGED <<state, count, holds, owner, callVars, stack, weakVars>>
  PROVE  IInv'
<1> USE DEF callVars, weakVars
<1>a. /\ TypeOK /\ CountIsHolders /\ HeldIsLive /\ Destructors /\ Watched
  BY DEF IInv
<1>1. \A o \in Objects : Holders(o)' = Holders(o)
  BY SameHolders
<1>2. CountIsHolders'
  BY <1>a, <1>1 DEF CountIsHolders
<1>3. HeldIsLive'
  BY <1>a, <1>1 DEF HeldIsLive
<1>4. Destructors' /\ Watched' /\ FaultsAreWeak'
  BY <1>a DEF Destructors, Watched, FaultsAreWeak
<1> QED
  BY <1>2, <1>3, <1>4 DEF IInv

(***************************************************************************)
(* MutexAtomic::addObject: the condemned object goes from the thread that  *)
(* released it to the queue.                                               *)
(***************************************************************************)
LEMMA AddObjectIInv ==
  ASSUME IInv, fault = "none", NEW t \in Threads, NEW o \in Objects, obj[t] = o, AddObject(t)
  PROVE  IInv'
<1> USE DEF callVars, slotVars, weakVars
<1>a. TypeOK /\ Calls /\ Condemned
  BY DEF IInv
<1>b. /\ pc[t] = "append" /\ pend' = Append(pend, o) /\ obj' = [obj EXCEPT ![t] = Nil]
      /\ mutex' = Nil /\ pc' = [pc EXCEPT ![t] = "drain"]
      /\ UNCHANGED <<state, count, slotVars, callVars, stack, weakVars, fault>>
  BY DEF AddObject, Goto
<1>c. ~revived => /\ o \notin Range(pend) /\ state[o] = "live" /\ count[o] = 0
                  /\ \A u \in Threads : Handler(u, o) => u = t
  BY <1>a, <1>b DEF Condemned, Handler
<1>d. pend' \in Seq(Objects) /\ Range(pend') = Range(pend) \union {o} /\ Range(pend) \subseteq Objects
  BY <1>a, <1>b, RangeAppend, RangeType DEF TypeOK
<1>1. TypeOK'
  <2>1. obj' \in [Threads -> Objects \union {Nil}] /\ pc' \in [Threads -> PCs]
    BY <1>a, <1>b DEF TypeOK, PCs
  <2> QED
    BY <1>a, <1>b, <1>d, <2>1 DEF TypeOK
<1>2. Calls'
  BY <1>a, <1>b DEF Calls, Setting, Known, TypeOK
<1>4. Condemned'
  <2> SUFFICES ASSUME ~revived PROVE Condemned'
    BY <1>b DEF Condemned
  <2>1. \A u \in Threads, p \in Objects : Handler(u, p)' <=> Handler(u, p) /\ u # t
    BY <1>a, <1>b, KindsAssumption DEF Handler, TypeOK
  <2>2. \A u \in Threads, p \in Objects : Handler(u, p)' => p # o
    BY <1>c, <2>1
  <2>3. Handler(t, o) /\ \A p \in Objects : Handler(t, p) => p = o
    BY <1>b DEF Handler
  <2>4. IsInjective(pend')
    BY <1>a, <1>b, <1>c, InjectiveAppend DEF TypeOK, Condemned
  <2> QED
    BY <1>a, <1>b, <1>c, <1>d, <2>1, <2>2, <2>3, <2>4 DEF Condemned
<1>5. UNCHANGED <<state, count, holds, owner, callVars, stack, weakVars>> /\ fault' = "none"
  BY <1>b
<1> QED
  BY <1>1, <1>2, <1>4, <1>5, LocalIInv

(***************************************************************************)
(* MutexAtomic::unlock takes an object from the queue.                     *)
(***************************************************************************)
LEMMA PopPendingIInv ==
  ASSUME IInv, fault = "none", NEW t \in Threads, NEW o \in Objects, PopPending(t), o = Head(pend)
  PROVE  IInv'
<1> USE DEF callVars, slotVars, weakVars
<1>a. TypeOK /\ Calls /\ Condemned
  BY DEF IInv
<1>b. /\ pc[t] = "drain" /\ pend # <<>> /\ pend' = Tail(pend) /\ obj' = [obj EXCEPT ![t] = o]
      /\ pc' = [pc EXCEPT ![t] = "check"]
      /\ UNCHANGED <<state, count, mutex, slotVars, callVars, stack, weakVars, fault>>
  BY DEF PopPending, Goto
<1>c. /\ pend' \in Seq(Objects)
      /\ Range(pend) = {o} \union Range(pend') /\ Range(pend) \subseteq Objects
  BY <1>a, <1>b, RangeHeadTail, RangeType DEF TypeOK
<1>1. TypeOK'
  <2>1. obj' \in [Threads -> Objects \union {Nil}] /\ pc' \in [Threads -> PCs]
    BY <1>a, <1>b DEF TypeOK, PCs
  <2> QED
    BY <1>a, <1>b, <1>c, <2>1 DEF TypeOK
<1>2. Calls'
  BY <1>a, <1>b DEF Calls, Setting, Known, TypeOK
<1>4. Condemned'
  <2> SUFFICES ASSUME ~revived PROVE Condemned'
    BY <1>b DEF Condemned
  <2>1. \A u \in Threads, p \in Objects : Handler(u, p)' <=> Handler(u, p) \/ (u = t /\ p = o)
    BY <1>a, <1>b DEF Handler, TypeOK
  <2>2. \A u \in Threads : ~Handler(u, o)
    BY <1>a, <1>c DEF Condemned
  <2>3. \A p \in Objects : ~Handler(t, p)
    BY <1>b DEF Handler
  <2>4. IsInjective(pend') /\ o \notin Range(pend')
    BY <1>a, <1>b, InjectiveTail DEF TypeOK, Condemned
  <2> QED
    BY <1>a, <1>b, <1>c, <2>1, <2>2, <2>3, <2>4 DEF Condemned
<1>5. UNCHANGED <<state, count, holds, owner, callVars, stack, weakVars>> /\ fault' = "none"
  BY <1>b
<1> QED
  BY <1>1, <1>2, <1>4, <1>5, LocalIInv

(***************************************************************************)
(* The queue is empty: the thread goes on with a destructor or its call.   *)
(***************************************************************************)
LEMMA DrainedIInv ==
  ASSUME IInv, fault = "none", NEW t \in Threads, Drained(t)
  PROVE  IInv'
<1> USE DEF callVars, slotVars, weakVars
<1>a. TypeOK /\ Calls /\ Condemned
  BY DEF IInv
<1>b. /\ pc[t] = "drain"
      /\ \/ stack[t] # <<>> /\ pc' = [pc EXCEPT ![t] = "dtor"]
         \/ stack[t] = <<>> /\ pc' = [pc EXCEPT ![t] = next[t]]
      /\ next[t] \in {"idle", "assign", "weakOld", "weakAssign"}
      /\ UNCHANGED <<obj, state, count, pend, mutex, slotVars, callVars, stack, weakVars, fault>>
  BY <1>a DEF Drained, Goto, TypeOK
<1>1. TypeOK'
  <2>1. pc' \in [Threads -> PCs]
    BY <1>a, <1>b, ZenonT(40) DEF TypeOK, PCs
  <2> QED
    BY <1>a, <1>b, <2>1 DEF TypeOK
<1>2. Calls'
  BY <1>a, <1>b DEF Calls, Setting, Known, TypeOK
<1>4. Condemned'
  <2>1. \A u \in Threads, p \in Objects : Handler(u, p)' <=> Handler(u, p)
    BY <1>a, <1>b DEF Handler, TypeOK
  <2> QED
    BY <1>a, <1>b, <2>1 DEF Condemned
<1>5. UNCHANGED <<state, count, holds, owner, callVars, stack, weakVars>> /\ fault' = "none"
  BY <1>b
<1> QED
  BY <1>1, <1>2, <1>4, <1>5, LocalIInv

(***************************************************************************)
(* The second look at the count: unless a Weak has revived an object, the  *)
(* count is still zero, since nobody can name the object any more.         *)
(***************************************************************************)
LEMMA CheckCountIInv ==
  ASSUME IInv, fault = "none", NEW t \in Threads, CheckCount(t)
  PROVE  IInv'
<1> USE DEF callVars, slotVars, weakVars
<1>a. TypeOK /\ Calls /\ Condemned
  BY DEF IInv
<1>b. /\ pc[t] = "check" /\ obj[t] \in Objects
      /\ UNCHANGED <<state, count, pend, mutex, slotVars, callVars, stack, weakVars>>
  BY <1>a DEF CheckCount, Calls
<1>c. ~revived => state[obj[t]] = "live" /\ count[obj[t]] = 0
  BY <1>a, <1>b DEF Condemned, Handler
<1>1. CASE state[obj[t]] = "deleted"
  <2>1. fault' = "check" /\ UNCHANGED <<pc, obj>> /\ revived
    BY <1>1, <1>c DEF CheckCount
  <2>2. TypeOK'
    BY <1>a, <1>b, <2>1 DEF TypeOK, Faults
  <2>3. \A o \in Objects : Holders(o)' \subseteq Holders(o)
    BY <1>b, SameHolders
  <2>4. /\ UNCHANGED <<state, count, pend, owner, pc, next, stack, weak, watchers, revived>>
        /\ \A s \in Slots : holds'[s] = holds[s] \/ holds'[s] = Nil
    BY <1>b, <2>1
  <2> QED
    BY <2>1, <2>2, <2>3, <2>4, FaultIInv
<1>2. CASE state[obj[t]] # "deleted"
  <2>1. /\ fault' = "none"
        /\ \/ pc' = [pc EXCEPT ![t] = "delete"] /\ obj' = obj
           \/ /\ revived /\ pc' = [pc EXCEPT ![t] = "drain"]
              /\ obj' = [obj EXCEPT ![t] = Nil]
    BY <1>2, <1>c DEF CheckCount, Goto
  <2>2. TypeOK'
    <3>1. pc' \in [Threads -> PCs] /\ obj' \in [Threads -> Objects \union {Nil}]
      BY <1>a, <2>1, ZenonT(40) DEF TypeOK, PCs
    <3> QED
      BY <1>a, <1>b, <2>1, <3>1 DEF TypeOK
  <2>3. Calls'
    <3>1. /\ pc'[t] \in {"delete", "drain"} /\ (pc'[t] = "delete" => obj'[t] \in Objects)
          /\ \A u \in Threads : u # t => pc'[u] = pc[u] /\ obj'[u] = obj[u]
      BY <1>a, <1>b, <2>1 DEF TypeOK
    <3> QED
      BY <1>a, <1>b, <3>1 DEF Calls, Setting, Known
  <2>4. Condemned'
    <3>1. ~revived => \A u \in Threads, p \in Objects : Handler(u, p)' <=> Handler(u, p)
      BY <1>a, <1>b, <2>1 DEF Handler, TypeOK
    <3> QED
      BY <1>a, <1>b, <3>1 DEF Condemned
  <2>5. UNCHANGED <<state, count, holds, owner, callVars, stack, weakVars>>
    BY <1>b
  <2> QED
    BY <2>1, <2>2, <2>3, <2>4, <2>5, LocalIInv
<1> QED
  BY <1>1, <1>2

(***************************************************************************)
(* delete: the thread enters the object's destructor.  That the object is  *)
(* in a destructor already, or gone, takes a revived object.               *)
(***************************************************************************)
LEMMA DeleteIInv ==
  ASSUME IInv, fault = "none", NEW t \in Threads, NEW o \in Objects, Delete(t), o = obj[t]
  PROVE  IInv'
<1> USE DEF callVars, slotVars, weakVars
<1>a. /\ TypeOK /\ Calls /\ CountIsHolders /\ HeldIsLive /\ Condemned /\ Destructors
      /\ Watched
  BY DEF IInv
<1>b. /\ pc[t] = "delete" /\ obj' = [obj EXCEPT ![t] = Nil]
      /\ UNCHANGED <<count, pend, mutex, slotVars, callVars, weakVars>>
  BY DEF Delete
<1>c. ~revived => /\ state[o] = "live" /\ count[o] = 0 /\ o \notin Range(pend)
                  /\ \A u \in Threads : Handler(u, o) => u = t
  BY <1>a, <1>b DEF Condemned, Handler
<1>o. obj' \in [Threads -> Objects \union {Nil}]
  BY <1>a, <1>b DEF TypeOK
<1>p. CASE state[o] # "live"
  <2>1. fault' = "delete" /\ UNCHANGED <<state, stack, pc>> /\ revived
    BY <1>p, <1>c DEF Delete
  <2>2. TypeOK'
    BY <1>a, <1>b, <1>o, <2>1 DEF TypeOK, Faults
  <2>3. \A p \in Objects : Holders(p)' \subseteq Holders(p)
    BY <1>b, SameHolders
  <2>4. /\ UNCHANGED <<state, count, pend, owner, pc, next, stack, weak, watchers, revived>>
        /\ \A s \in Slots : holds'[s] = holds[s] \/ holds'[s] = Nil
    BY <1>b, <2>1
  <2> QED
    BY <2>1, <2>2, <2>3, <2>4, FaultIInv
<1>q. CASE state[o] = "live"
  <2>c. /\ state' = [state EXCEPT ![o] = "deleting"] /\ pc' = [pc EXCEPT ![t] = "dtor"]
        /\ stack' = [stack EXCEPT ![t] = <<o>> \o @] /\ fault' = "none"
    BY <1>q DEF Delete, Goto
  <2>e. /\ \A u \in Threads : o \notin Range(stack[u]) /\ stack[u] \in Seq(Objects)
        /\ \A u \in Threads : Range(stack[u]) \subseteq Objects
    BY <1>a, <1>q, RangeType DEF Destructors, TypeOK
  <2>f. /\ stack'[t] \in Seq(Objects) /\ stack'[t] # <<>>
        /\ Range(stack'[t]) = {o} \union Range(stack[t]) /\ IsInjective(stack'[t])
        /\ \A u \in Threads : u # t => stack'[u] = stack[u]
    <3>1. stack'[t] = <<o>> \o stack[t] /\ \A u \in Threads : u # t => stack'[u] = stack[u]
      BY <1>a, <2>c DEF TypeOK
    <3> QED
      BY <1>a, <2>e, <3>1, Prepend DEF Destructors
  <2>g. state'[o] = "deleting" /\ \A p \in Objects : p # o => state'[p] = state[p]
    BY <1>a, <2>c DEF TypeOK
  <2>h. \A p \in Objects : Holders(p)' = Holders(p)
    BY <1>b, SameHolders
  <2>1. TypeOK'
    <3>1. pc' \in [Threads -> PCs] /\ state' \in [Objects -> States]
      BY <1>a, <2>c DEF TypeOK, PCs, States
    <3>2. stack' \in [Threads -> Seq(Objects)]
      BY <1>a, <2>c, <2>f DEF TypeOK
    <3> QED
      BY <1>a, <1>b, <1>o, <2>c, <3>1, <3>2 DEF TypeOK, Faults
  <2>2. Calls'
    <3>1. /\ pc'[t] = "dtor" /\ \A u \in Threads : u # t => pc'[u] = pc[u] /\ obj'[u] = obj[u]
      BY <1>a, <1>b, <2>c DEF TypeOK
    <3> QED
      BY <1>a, <1>b, <2>f, <3>1 DEF Calls, Setting, Known
  <2>3. CountIsHolders' /\ HeldIsLive'
    <3>1. ~revived => Holders(o) = {}
      BY <1>a, <1>c, ZeroIsUnheld
    <3> QED
      BY <1>a, <1>b, <2>g, <2>h, <3>1 DEF CountIsHolders, HeldIsLive
  <2>4. Condemned'
    <3> SUFFICES ASSUME ~revived PROVE Condemned'
      BY <1>b DEF Condemned
    <3>1. \A u \in Threads, p \in Objects : Handler(u, p)' <=> Handler(u, p) /\ u # t
      BY <1>a, <1>b, <2>c, KindsAssumption DEF Handler, TypeOK
    <3>2. \A p \in Objects : Handler(t, p) => p = o
      BY DEF Handler
    <3>3. Range(pend) \subseteq Objects
      BY <1>a, RangeType DEF TypeOK
    <3>4. \A u \in Threads, p \in Objects : Handler(u, p)' => p # o
      BY <1>c, <3>1
    <3> QED
      BY <1>a, <1>b, <1>c, <2>g, <3>1, <3>2, <3>3, <3>4 DEF Condemned
  <2>5. Destructors'
    <3>1. \A u \in Threads : IsInjective(stack'[u])
      BY <1>a, <2>f DEF Destructors
    <3>2. \A u \in Threads : \A p \in Range(stack'[u]) : state'[p] = "deleting"
      BY <1>a, <2>e, <2>f, <2>g DEF Destructors
    <3>3. \A u \in Threads, p \in Objects :
            p \in Range(stack'[u]) <=> p \in Range(stack[u]) \/ (u = t /\ p = o)
      BY <2>f
    <3>4. \A u \in Threads : Range(stack'[u]) \subseteq Objects
      BY <2>e, <2>f
    <3>5. ASSUME NEW u \in Threads, NEW w \in Threads, u # w, NEW p \in Objects,
                 p \in Range(stack'[u]), p \in Range(stack'[w])
          PROVE  FALSE
      <4>1. p \in Range(stack[u]) \/ (u = t /\ p = o)
        BY <3>3, <3>5
      <4>2. p \in Range(stack[w]) \/ (w = t /\ p = o)
        BY <3>3, <3>5
      <4>3. ~(p \in Range(stack[u]) /\ p \in Range(stack[w]))
        BY <1>a, <3>5 DEF Destructors
      <4> QED
        BY <2>e, <3>5, <4>1, <4>2, <4>3
    <3>6. \A u, w \in Threads : u # w => Range(stack'[u]) \intersect Range(stack'[w]) = {}
      BY <3>4, <3>5
    <3>7. ASSUME NEW p \in Objects, state'[p] = "deleting"
          PROVE  \E u \in Threads : p \in Range(stack'[u])
      <4>1. CASE p = o
        BY <3>3, <4>1
      <4>2. CASE p # o
        BY <1>a, <2>g, <3>3, <3>7, <4>2 DEF Destructors
      <4> QED
        BY <4>1, <4>2
    <3> QED
      BY <3>1, <3>2, <3>6, <3>7 DEF Destructors
  <2>6. Watched'
    BY <1>a, <1>b, <2>g DEF Watched, TypeOK
  <2>7. FaultsAreWeak'
    BY <1>a, <1>b, <2>c, <2>g DEF FaultsAreWeak
  <2> QED
    BY <2>1, <2>2, <2>3, <2>4, <2>5, <2>6, <2>7 DEF IInv
<1> QED
  BY <1>p, <1>q

(***************************************************************************)
(* ~Object: the innermost destructor ends, and the Weak variables that     *)
(* refer to its object become null.                                        *)
(***************************************************************************)
LEMMA DtorObjectIInv ==
  ASSUME IInv, fault = "none", NEW t \in Threads, NEW o \in Objects, DtorObject(t),
         o = Head(stack[t])
  PROVE  IInv'
<1> USE DEF callVars, slotVars
<1>a. /\ TypeOK /\ Calls /\ CountIsHolders /\ HeldIsLive /\ Condemned /\ Destructors
      /\ Watched
  BY DEF IInv
<1>b. /\ pc[t] = "dtor" /\ Members(o) = {} /\ state' = [state EXCEPT ![o] = "deleted"]
      /\ stack' = [stack EXCEPT ![t] = Tail(@)] /\ pc' = [pc EXCEPT ![t] = "drain"]
      /\ weak' = [u \in Threads |-> IF u \in watchers[o] THEN Nil ELSE weak[u]]
      /\ UNCHANGED <<count, pend, mutex, slotVars, callVars, obj, watchers, revived, fault>>
  BY DEF DtorObject, Goto, NullWeak
<1>c. /\ stack[t] # <<>> /\ IsInjective(stack[t])
      /\ \A u \in Threads : stack[u] \in Seq(Objects) /\ Range(stack[u]) \subseteq Objects
  BY <1>a, <1>b, RangeType DEF Calls, TypeOK, Destructors
<1>d. /\ stack'[t] = Tail(stack[t]) /\ \A u \in Threads : u # t => stack'[u] = stack[u]
      /\ stack'[t] \in Seq(Objects) /\ IsInjective(stack'[t]) /\ o \notin Range(stack'[t])
      /\ Range(stack[t]) = {o} \union Range(stack'[t])
  <2>1. stack'[t] = Tail(stack[t]) /\ \A u \in Threads : u # t => stack'[u] = stack[u]
    BY <1>a, <1>b DEF TypeOK
  <2> QED
    BY <1>c, <2>1, RangeHeadTail, InjectiveTail
<1>e. state[o] = "deleting" /\ (~revived => Holders(o) = {})
  BY <1>a, <1>d DEF Destructors, HeldIsLive
<1>f. state'[o] = "deleted" /\ \A p \in Objects : p # o => state'[p] = state[p]
  BY <1>a, <1>b DEF TypeOK
<1>h. \A p \in Objects : Holders(p)' = Holders(p)
  BY <1>b, SameHolders
<1>1. TypeOK'
  <2>1. weak' \in [Threads -> Objects \union {Nil}] /\ pc' \in [Threads -> PCs]
    BY <1>a, <1>b DEF TypeOK, PCs
  <2>2. state' \in [Objects -> States]
    BY <1>a, <1>b DEF TypeOK, States
  <2>3. stack' \in [Threads -> Seq(Objects)]
    BY <1>a, <1>b, <1>d DEF TypeOK
  <2> QED
    BY <1>a, <1>b, <2>1, <2>2, <2>3 DEF TypeOK
<1>2. Calls'
  <2>1. pc'[t] = "drain" /\ \A u \in Threads : u # t => pc'[u] = pc[u]
    BY <1>a, <1>b DEF TypeOK
  <2> QED
    BY <1>a, <1>b, <1>d, <2>1 DEF Calls, Setting, Known
<1>3. CountIsHolders' /\ HeldIsLive'
  BY <1>a, <1>b, <1>e, <1>f, <1>h DEF CountIsHolders, HeldIsLive
<1>4. Condemned'
  <2> SUFFICES ASSUME ~revived PROVE Condemned'
    BY <1>b DEF Condemned
  <2>1. \A u \in Threads, p \in Objects : Handler(u, p)' <=> Handler(u, p)
    BY <1>a, <1>b DEF Handler, TypeOK
  <2>2. Range(pend) \subseteq Objects /\ o \notin Range(pend) /\ \A u \in Threads : ~Handler(u, o)
    BY <1>a, <1>e, RangeType DEF TypeOK, Condemned
  <2> QED
    BY <1>a, <1>b, <1>e, <1>f, <2>1, <2>2 DEF Condemned
<1>5. Destructors'
  <2>1. \A u \in Threads : IsInjective(stack'[u])
    BY <1>a, <1>d DEF Destructors
  <2>2. \A u \in Threads : Range(stack'[u]) \subseteq Range(stack[u]) /\ o \notin Range(stack'[u])
    BY <1>a, <1>d DEF Destructors
  <2>3. \A u \in Threads : \A p \in Range(stack'[u]) : state'[p] = "deleting"
    BY <1>a, <1>c, <1>f, <2>2, SMTT(30) DEF Destructors
  <2>4. \A u, w \in Threads : u # w => Range(stack'[u]) \intersect Range(stack'[w]) = {}
    <3>1. \A u, w \in Threads : u # w => Range(stack[u]) \intersect Range(stack[w]) = {}
      BY <1>a, Zenon DEF Destructors
    <3> QED
      BY <2>2, <3>1
  <2>5. \A u \in Threads, p \in Objects : p # o => (p \in Range(stack[u]) => p \in Range(stack'[u]))
    BY <1>d
  <2>6. \A p \in Objects : state'[p] = "deleting" => \E u \in Threads : p \in Range(stack'[u])
    BY <1>a, <1>f, <2>5 DEF Destructors
  <2> QED
    BY <2>1, <2>3, <2>4, <2>6 DEF Destructors
<1>6. Watched'
  <2>1. ASSUME NEW u \in Threads, weak'[u] # Nil, next'[u] # "weakAssign"
        PROVE  weak'[u] = weak[u] /\ weak[u] # o /\ weak[u] \in Objects /\ next[u] # "weakAssign"
    BY <1>a, <1>b, <2>1 DEF Watched, TypeOK
  <2> QED
    BY <1>a, <1>b, <1>f, <2>1 DEF Watched
<1>7. FaultsAreWeak'
  BY <1>a, <1>b, <1>f DEF FaultsAreWeak
<1> QED
  BY <1>1, <1>2, <1>3, <1>4, <1>5, <1>6, <1>7 DEF IInv

(***************************************************************************)
(* A Strong changes hands, which no thread is at work on.                  *)
(***************************************************************************)
LEMMA OwnerIInv ==
  ASSUME IInv, fault = "none", NEW s \in Slots, NEW u \in Threads \union Objects,
         owner' = [owner EXCEPT ![s] = u],
         owner[s] \in Threads => next[owner[s]] = "idle" /\ pc[owner[s]] # "upgrade",
         UNCHANGED <<state, count, pend, mutex, holds, pc, callVars, obj, stack, weakVars, fault>>
  PROVE  IInv'
<1> USE DEF callVars, weakVars
<1>a. TypeOK /\ Calls /\ CountIsHolders /\ HeldIsLive /\ Condemned /\ Destructors /\ Watched
  BY DEF IInv
<1>c. \A r \in Slots : owner'[r] = (IF r = s THEN u ELSE owner[r])
  BY <1>a DEF TypeOK
<1>1. TypeOK'
  <2>1. owner' \in [Slots -> Threads \union Objects]
    BY <1>a DEF TypeOK
  <2> QED
    BY <1>a, <2>1 DEF TypeOK
<1>2. Calls'
  <2>1. \A w \in Threads, r \in Slots :
          owner[r] = w /\ (next[w] # "idle" \/ pc[w] = "upgrade") => owner'[r] = w
    BY <1>c
  <2>2. \A w \in Threads : Setting(w) /\ Known(w, arg[w]) => Known(w, arg[w])'
    BY <2>1 DEF Known, Setting
  <2> QED
    BY <1>a, <2>1, <2>2 DEF Calls, Setting
<1>3. CountIsHolders' /\ HeldIsLive'
  <2>1. \A p \in Objects : Holders(p)' = Holders(p)
    BY SameHolders
  <2> QED
    BY <1>a, <2>1 DEF CountIsHolders, HeldIsLive
<1>4. Condemned' /\ Destructors' /\ Watched' /\ FaultsAreWeak'
  <2>1. \A w \in Threads, p \in Objects : Handler(w, p)' <=> Handler(w, p)
    BY DEF Handler
  <2> QED
    BY <1>a, <2>1 DEF Condemned, Destructors, Watched, FaultsAreWeak
<1> QED
  BY <1>1, <1>2, <1>3, <1>4 DEF IInv

(***************************************************************************)
(* A deleted object is used through a Strong: some object was revived.     *)
(***************************************************************************)
LEMMA UseDeletedIInv ==
  ASSUME IInv, NEW t \in Threads, NEW o \in Objects, UseDeleted(t, o)
  PROVE  IInv'
<1> USE DEF callVars, slotVars, weakVars
<1>1. fault' = "use" /\ Holders(o) # {} /\ state[o] = "deleted"
      /\ UNCHANGED <<state, count, pend, mutex, slotVars, pc, callVars, obj, stack, weakVars>>
  BY DEF UseDeleted, Known, Holders
<1>2. revived
  BY <1>1 DEF IInv, HeldIsLive
<1>3. TypeOK'
  BY <1>1 DEF IInv, TypeOK, Faults
<1>4. \A p \in Objects : Holders(p)' \subseteq Holders(p)
  BY <1>1, SameHolders
<1>5. /\ UNCHANGED <<state, count, pend, owner, pc, next, stack, weak, watchers, revived>>
      /\ \A s \in Slots : holds'[s] = holds[s] \/ holds'[s] = Nil
  BY <1>1
<1>6. fault' # "none" /\ (fault' \in {"release", "check", "delete", "use"} => revived)
  BY <1>1, <1>2
<1> QED
  BY <1>2, <1>3, <1>4, <1>5, <1>6, FaultIInv

-----------------------------------------------------------------------------
(* The operations of Weak.                                                 *)

(***************************************************************************)
(* Steps that change only local variables of a call to a Weak, Weak        *)
(* variables and the objects' knowledge of them: the books of the counts   *)
(* are not touched.                                                        *)
(***************************************************************************)
LEMMA WeakStepIInv ==
  ASSUME IInv, fault = "none", NEW t \in Threads, TypeOK', Calls', Watched', fault' = "none",
         next[t] # "assign", next'[t] # "assign",
         pc[t] \notin {"append", "check", "delete"}, pc'[t] \notin {"append", "check", "delete"},
         \A u \in Threads : u # t => /\ next'[u] = next[u] /\ arg'[u] = arg[u]
                                     /\ pc'[u] = pc[u] /\ obj'[u] = obj[u],
         UNCHANGED <<state, count, pend, holds, owner, stack, revived>>
  PROVE  IInv'
<1>a. /\ CountIsHolders /\ HeldIsLive /\ Condemned /\ Destructors
  BY DEF IInv
<1>1. \A o \in Objects : Holders(o)' = Holders(o)
  BY DEF Holders
<1>2. \A u \in Threads, p \in Objects : Handler(u, p)' <=> Handler(u, p)
  BY DEF Handler
<1>3. CountIsHolders' /\ HeldIsLive'
  BY <1>a, <1>1 DEF CountIsHolders, HeldIsLive
<1>4. Condemned'
  BY <1>a, <1>2 DEF Condemned
<1>5. Destructors' /\ FaultsAreWeak'
  BY <1>a DEF Destructors, FaultsAreWeak
<1> QED
  BY <1>3, <1>4, <1>5 DEF IInv

(***************************************************************************)
(* Weak::set begins: the object learns of the variable.                    *)
(***************************************************************************)
LEMMA WeakSetIInv ==
  ASSUME IInv, fault = "none", NEW t \in Threads, NEW o \in Objects, WeakSet(t, o)
  PROVE  IInv'
<1> USE DEF slotVars
<1>a. TypeOK /\ Calls /\ Watched
  BY DEF IInv
<1>b. /\ pc[t] = "idle" /\ Known(t, o) /\ weak[t] # o
      /\ watchers' = [watchers EXCEPT ![o] = @ \union {t}] /\ arg' = [arg EXCEPT ![t] = o]
      /\ next' = [next EXCEPT ![t] = "weakOld"] /\ pc' = [pc EXCEPT ![t] = "drain"]
      /\ UNCHANGED <<state, count, pend, mutex, slotVars, target, obj, stack, weak, revived, fault>>
  BY DEF WeakSet, Goto
<1>c. /\ pc'[t] = "drain" /\ next'[t] = "weakOld" /\ arg'[t] = o
      /\ \A u \in Threads : u # t => /\ next'[u] = next[u] /\ arg'[u] = arg[u]
                                     /\ pc'[u] = pc[u] /\ obj'[u] = obj[u]
  BY <1>a, <1>b DEF TypeOK
<1>d. t \in watchers'[o] /\ \A p \in Objects : watchers[p] \subseteq watchers'[p]
  BY <1>a, <1>b DEF TypeOK
<1>n. next[t] = "idle"
  BY <1>a, <1>b DEF Calls
<1>1. TypeOK'
  <2>1. watchers' \in [Objects -> SUBSET Threads]
    BY <1>a, <1>b DEF TypeOK
  <2>2. /\ arg' \in [Threads -> Objects \union {Nil}] /\ pc' \in [Threads -> PCs]
        /\ next' \in [Threads -> {"idle", "assign", "weakOld", "weakAssign"}]
    BY <1>a, <1>b DEF TypeOK, PCs
  <2> QED
    BY <1>a, <1>b, <2>1, <2>2 DEF TypeOK
<1>2. Calls'
  <2>1. \A u \in Threads : Setting(u) /\ u # t /\ arg[u] # Nil => Known(u, arg[u])' /\ u \in watchers'[arg'[u]]
    BY <1>a, <1>b, <1>c, <1>d DEF Calls, Known, TypeOK
  <2>2. Known(t, arg[t])'
    BY <1>b, <1>c DEF Known
  <2> QED
    BY <1>a, <1>b, <1>c, <1>d, <2>1, <2>2 DEF Calls, Setting
<1>3. Watched'
  BY <1>a, <1>b, <1>c, <1>d, <1>n DEF Watched, TypeOK
<1>5. UNCHANGED <<state, count, pend, holds, owner, stack, revived>> /\ fault' = "none"
  BY <1>b
<1>6. /\ pc[t] \notin {"append", "check", "delete"} /\ pc'[t] \notin {"append", "check", "delete"}
      /\ next[t] # "assign" /\ next'[t] # "assign"
  BY <1>b, <1>c, <1>n
<1> QED
  BY <1>1, <1>2, <1>3, <1>5, <1>6, <1>c, WeakStepIInv

(***************************************************************************)
(* It ends: the variable refers to the object, which a Strong of the       *)
(* thread has kept alive.                                                  *)
(***************************************************************************)
LEMMA WeakAssignIInv ==
  ASSUME IInv, fault = "none", NEW t \in Threads, WeakAssign(t)
  PROVE  IInv'
<1> USE DEF slotVars
<1>a. TypeOK /\ Calls /\ Watched /\ HeldIsLive
  BY DEF IInv
<1>b. /\ pc[t] = "weakAssign" /\ weak' = [weak EXCEPT ![t] = arg[t]]
      /\ arg' = [arg EXCEPT ![t] = Nil]
      /\ next' = [next EXCEPT ![t] = "idle"] /\ pc' = [pc EXCEPT ![t] = "idle"]
      /\ UNCHANGED <<state, count, pend, mutex, slotVars, target, obj, stack, watchers, revived, fault>>
  BY DEF WeakAssign, Goto
<1>c. /\ pc'[t] = "idle" /\ next'[t] = "idle" /\ weak'[t] = arg[t]
      /\ \A u \in Threads : u # t => /\ next'[u] = next[u] /\ arg'[u] = arg[u] /\ weak'[u] = weak[u]
                                     /\ pc'[u] = pc[u] /\ obj'[u] = obj[u]
  BY <1>a, <1>b DEF TypeOK
<1>d. /\ next[t] = "weakAssign"
      /\ arg[t] # Nil => arg[t] \in Objects /\ t \in watchers[arg[t]] /\ Holders(arg[t]) # {}
  BY <1>a, <1>b DEF Calls, Setting, Known, Holders, TypeOK
<1>1. TypeOK'
  <2>1. weak' \in [Threads -> Objects \union {Nil}] /\ arg' \in [Threads -> Objects \union {Nil}]
    BY <1>a, <1>b DEF TypeOK
  <2>2. next' \in [Threads -> {"idle", "assign", "weakOld", "weakAssign"}] /\ pc' \in [Threads -> PCs]
    BY <1>a, <1>b DEF TypeOK, PCs
  <2> QED
    BY <1>a, <1>b, <2>1, <2>2 DEF TypeOK
<1>2. Calls'
  BY <1>a, <1>b, <1>c DEF Calls, Setting, Known
<1>3. Watched'
  <2>1. arg[t] # Nil /\ ~revived => state[arg[t]] = "live"
    BY <1>a, <1>d DEF HeldIsLive
  <2> QED
    BY <1>a, <1>b, <1>c, <1>d, <2>1 DEF Watched
<1>5. UNCHANGED <<state, count, pend, holds, owner, stack, revived>> /\ fault' = "none"
  BY <1>b
<1>6. /\ pc[t] \notin {"append", "check", "delete"} /\ pc'[t] \notin {"append", "check", "delete"}
      /\ next[t] # "assign" /\ next'[t] # "assign"
  BY <1>b, <1>c, <1>d
<1> QED
  BY <1>1, <1>2, <1>3, <1>5, <1>6, <1>c, WeakStepIInv

(***************************************************************************)
(* A Weak is read, to be retained.                                         *)
(***************************************************************************)
LEMMA WeakGetIInv ==
  ASSUME IInv, fault = "none", NEW t \in Threads, NEW s \in Slots, WeakGet(t, s)
  PROVE  IInv'
<1> USE DEF slotVars, weakVars
<1>a. TypeOK /\ Calls /\ Watched
  BY DEF IInv
<1>b. /\ pc[t] = "idle" /\ weak[t] # Nil /\ arg' = [arg EXCEPT ![t] = weak[t]]
      /\ owner[s] = t /\ target' = [target EXCEPT ![t] = s] /\ pc' = [pc EXCEPT ![t] = "upgrade"]
      /\ UNCHANGED <<state, count, pend, mutex, slotVars, next, obj, stack, weakVars, fault>>
  BY DEF WeakGet, Goto
<1>c. /\ next[t] = "idle" /\ weak[t] \in Objects
      /\ \A u \in Threads : u # t => /\ next'[u] = next[u] /\ arg'[u] = arg[u] /\ target'[u] = target[u]
                                     /\ pc'[u] = pc[u] /\ obj'[u] = obj[u]
      /\ arg'[t] = weak[t] /\ pc'[t] = "upgrade" /\ target'[t] = s
  BY <1>a, <1>b DEF TypeOK, Calls
<1>1. TypeOK'
  <2>1. target' \in [Threads -> Slots \union {Nil}] /\ pc' \in [Threads -> PCs]
    BY <1>a, <1>b DEF TypeOK, PCs
  <2>2. arg' \in [Threads -> Objects \union {Nil}]
    <3>1. arg \in [Threads -> Objects \union {Nil}]
      BY <1>a DEF TypeOK
    <3> QED
      BY <1>b, <1>c, <3>1
  <2> QED
    BY <1>a, <1>b, <2>1, <2>2 DEF TypeOK
<1>2. Calls'
  BY <1>a, <1>b, <1>c DEF Calls, Setting, Known
<1>3. Watched'
  BY <1>a, <1>b DEF Watched
<1>5. UNCHANGED <<state, count, pend, holds, owner, stack, revived>> /\ fault' = "none"
  BY <1>b
<1>6. /\ pc[t] \notin {"append", "check", "delete"} /\ pc'[t] \notin {"append", "check", "delete"}
      /\ next[t] # "assign" /\ next'[t] # "assign"
  BY <1>b, <1>c
<1> QED
  BY <1>1, <1>2, <1>3, <1>5, <1>6, <1>c, WeakStepIInv

(***************************************************************************)
(* set(nullptr) begins: there is no new object.                            *)
(***************************************************************************)
LEMMA WeakClearIInv ==
  ASSUME IInv, fault = "none", NEW t \in Threads, WeakClear(t)
  PROVE  IInv'
<1> USE DEF slotVars, weakVars
<1>a. TypeOK /\ Calls /\ Watched
  BY DEF IInv
<1>b. /\ pc[t] = "idle" /\ weak[t] # Nil /\ arg' = [arg EXCEPT ![t] = Nil]
      /\ next' = [next EXCEPT ![t] = "weakOld"] /\ pc' = [pc EXCEPT ![t] = "weakOld"]
      /\ UNCHANGED <<state, count, pend, mutex, slotVars, target, obj, stack, weakVars, fault>>
  BY DEF WeakClear, Goto
<1>c. /\ next[t] = "idle"
      /\ \A u \in Threads : u # t => /\ next'[u] = next[u] /\ arg'[u] = arg[u]
                                     /\ pc'[u] = pc[u] /\ obj'[u] = obj[u]
      /\ arg'[t] = Nil /\ pc'[t] = "weakOld" /\ next'[t] = "weakOld"
  BY <1>a, <1>b DEF TypeOK, Calls
<1>1. TypeOK'
  <2>1. /\ arg' \in [Threads -> Objects \union {Nil}] /\ pc' \in [Threads -> PCs]
        /\ next' \in [Threads -> {"idle", "assign", "weakOld", "weakAssign"}]
    BY <1>a, <1>b DEF TypeOK, PCs
  <2> QED
    BY <1>a, <1>b, <2>1 DEF TypeOK
<1>2. Calls'
  BY <1>a, <1>b, <1>c DEF Calls, Setting, Known
<1>3. Watched'
  BY <1>a, <1>b, <1>c DEF Watched
<1>5. UNCHANGED <<state, count, pend, holds, owner, stack, revived>> /\ fault' = "none"
  BY <1>b
<1>6. /\ pc[t] \notin {"append", "check", "delete"} /\ pc'[t] \notin {"append", "check", "delete"}
      /\ next[t] # "assign" /\ next'[t] # "assign"
  BY <1>b, <1>c
<1> QED
  BY <1>1, <1>2, <1>3, <1>5, <1>6, <1>c, WeakStepIInv

(***************************************************************************)
(* The old object, if ~Object has not set the variable to null meanwhile,  *)
(* is another one than the new.                                            *)
(***************************************************************************)
LEMMA WeakOldIInv ==
  ASSUME IInv, fault = "none", NEW t \in Threads, WeakOld(t)
  PROVE  IInv'
<1> USE DEF slotVars, weakVars
<1>a. TypeOK /\ Calls /\ Watched
  BY DEF IInv
<1>b. /\ pc[t] = "weakOld" /\ next[t] = "weakOld"
      /\ \/ /\ weak[t] = Nil /\ next' = [next EXCEPT ![t] = "weakAssign"]
            /\ pc' = [pc EXCEPT ![t] = "weakAssign"] /\ obj' = obj
         \/ /\ weak[t] \in Objects /\ weak[t] # arg[t] /\ obj' = [obj EXCEPT ![t] = weak[t]]
            /\ pc' = [pc EXCEPT ![t] = "unweak"] /\ next' = next
      /\ UNCHANGED <<state, count, pend, mutex, slotVars, arg, target, stack, weakVars, fault>>
  BY <1>a DEF WeakOld, Goto, Calls, TypeOK
<1>c. /\ \A u \in Threads : u # t => next'[u] = next[u] /\ pc'[u] = pc[u] /\ obj'[u] = obj[u]
      /\ \/ weak[t] = Nil /\ pc'[t] = "weakAssign" /\ next'[t] = "weakAssign"
         \/ /\ pc'[t] = "unweak" /\ next'[t] = "weakOld" /\ obj'[t] = weak[t]
            /\ weak[t] \in Objects /\ weak[t] # arg[t]
  BY <1>a, <1>b DEF TypeOK
<1>1. TypeOK'
  <2>1. /\ obj' \in [Threads -> Objects \union {Nil}] /\ pc' \in [Threads -> PCs]
        /\ next' \in [Threads -> {"idle", "assign", "weakOld", "weakAssign"}]
    <3>1. /\ obj \in [Threads -> Objects \union {Nil}] /\ pc \in [Threads -> PCs]
          /\ next \in [Threads -> {"idle", "assign", "weakOld", "weakAssign"}]
      BY <1>a DEF TypeOK
    <3>2. CASE weak[t] = Nil
      <4>1. /\ next' = [next EXCEPT ![t] = "weakAssign"]
            /\ pc' = [pc EXCEPT ![t] = "weakAssign"] /\ obj' = obj
        BY <1>b, <3>2, KindsAssumption
      <4> QED
        BY <3>1, <4>1 DEF PCs
    <3>3. CASE weak[t] # Nil
      <4>1. /\ weak[t] \in Objects /\ obj' = [obj EXCEPT ![t] = weak[t]]
            /\ pc' = [pc EXCEPT ![t] = "unweak"] /\ next' = next
        BY <1>b, <3>3
      <4> QED
        BY <3>1, <4>1 DEF PCs
    <3> QED
      BY <3>2, <3>3
  <2> QED
    BY <1>a, <1>b, <2>1 DEF TypeOK
<1>2. Calls'
  <2>1. \A u \in Threads : Setting(u)' <=> Setting(u)
    BY <1>b, <1>c DEF Setting
  <2> QED
    BY <1>a, <1>b, <1>c, <2>1 DEF Calls, Known
<1>3. Watched'
  BY <1>a, <1>b, <1>c DEF Watched
<1>5. UNCHANGED <<state, count, pend, holds, owner, stack, revived>> /\ fault' = "none"
  BY <1>b
<1>6. /\ pc[t] \notin {"append", "check", "delete"} /\ pc'[t] \notin {"append", "check", "delete"}
      /\ next[t] # "assign" /\ next'[t] # "assign"
      /\ \A u \in Threads : u # t => /\ next'[u] = next[u] /\ arg'[u] = arg[u]
                                     /\ pc'[u] = pc[u] /\ obj'[u] = obj[u]
  BY <1>b, <1>c
<1> QED
  BY <1>1, <1>2, <1>3, <1>5, <1>6, WeakStepIInv

(***************************************************************************)
(* Object::unWeak: the old object forgets the variable, the new one does   *)
(* not.                                                                    *)
(***************************************************************************)
LEMMA UnWeakIInv ==
  ASSUME IInv, fault = "none", NEW t \in Threads, NEW o \in Objects, UnWeak(t), o = obj[t]
  PROVE  IInv'
<1> USE DEF slotVars
<1>a. TypeOK /\ Calls /\ Watched
  BY DEF IInv
<1>b. /\ pc[t] = "unweak" /\ next[t] = "weakOld" /\ o # arg[t]
      /\ UNCHANGED <<state, count, pend, mutex, slotVars, arg, target, stack, weak, revived>>
  BY <1>a DEF UnWeak, Calls
<1>1. CASE state[o] = "deleted"
  <2>1. fault' = "unweak" /\ UNCHANGED <<watchers, next, obj, pc>>
    BY <1>1 DEF UnWeak
  <2>2. TypeOK'
    BY <1>a, <1>b, <2>1 DEF TypeOK, Faults
  <2>3. \A p \in Objects : Holders(p)' \subseteq Holders(p)
    BY <1>b, <2>1 DEF Holders
  <2>4. /\ UNCHANGED <<state, count, pend, owner, pc, next, stack, weak, watchers, revived>>
        /\ UNCHANGED <<holds, obj>>
    BY <1>b, <2>1
  <2>5. \A s \in Slots : holds'[s] = holds[s] \/ holds'[s] = Nil
    BY <2>4
  <2>6. fault' # "none" /\ (fault' \in {"release", "check", "delete", "use"} => revived)
    BY <2>1
  <2> QED
    BY <2>2, <2>3, <2>4, <2>5, <2>6, FaultIInv
<1>2. CASE state[o] # "deleted"
  <2>1. /\ watchers' = [watchers EXCEPT ![o] = @ \ {t}] /\ obj' = [obj EXCEPT ![t] = Nil]
        /\ next' = [next EXCEPT ![t] = "weakAssign"]
        /\ pc' = [pc EXCEPT ![t] = "drain"] /\ fault' = "none"
    BY <1>2 DEF UnWeak, Goto
  <2>2. /\ pc'[t] = "drain" /\ next'[t] = "weakAssign"
        /\ \A u \in Threads : u # t => pc'[u] = pc[u] /\ next'[u] = next[u] /\ obj'[u] = obj[u]
        /\ \A u \in Threads, p \in Objects :
             (u # t \/ p # o) /\ u \in watchers[p] => u \in watchers'[p]
    BY <1>a, <2>1 DEF TypeOK
  <2>3. TypeOK'
    <3>1. /\ watchers' \in [Objects -> SUBSET Threads] /\ pc' \in [Threads -> PCs]
          /\ next' \in [Threads -> {"idle", "assign", "weakOld", "weakAssign"}]
          /\ obj' \in [Threads -> Objects \union {Nil}]
      BY <1>a, <2>1 DEF TypeOK, PCs
    <3> QED
      BY <1>a, <1>b, <2>1, <3>1 DEF TypeOK, Faults
  <2>4. Calls'
    <3>1. \A u \in Threads : Setting(u)' <=> Setting(u)
      BY <1>b, <2>2 DEF Setting
    <3>2. \A u \in Threads : Setting(u) /\ arg[u] # Nil => Known(u, arg[u])' /\ u \in watchers'[arg'[u]]
      BY <1>a, <1>b, <2>2 DEF Calls, Known, TypeOK
    <3> QED
      BY <1>a, <1>b, <2>2, <3>1, <3>2 DEF Calls
  <2>5. Watched'
    <3> SUFFICES ASSUME NEW u \in Threads, weak'[u] # Nil, next'[u] # "weakAssign"
                 PROVE  /\ u \in watchers'[weak'[u]]
                        /\ ~revived' => state'[weak'[u]] \in {"live", "deleting"}
      BY DEF Watched
    <3>1. u # t /\ weak'[u] = weak[u] /\ next[u] # "weakAssign"
      BY <1>b, <2>2
    <3>2. weak[u] \in Objects
      BY <1>a, <3>1 DEF TypeOK
    <3>3. /\ u \in watchers[weak[u]]
          /\ ~revived => state[weak[u]] \in {"live", "deleting"}
      BY <1>a, <3>1 DEF Watched
    <3> QED
      BY <1>b, <2>2, <3>1, <3>2, <3>3
  <2>6. UNCHANGED <<state, count, pend, holds, owner, stack, revived>> /\ fault' = "none"
    BY <1>b, <2>1
  <2>7. /\ pc[t] \notin {"append", "check", "delete"} /\ pc'[t] \notin {"append", "check", "delete"}
        /\ next[t] # "assign" /\ next'[t] # "assign"
    BY <1>b, <2>2
  <2>8. \A u \in Threads : u # t => /\ next'[u] = next[u] /\ arg'[u] = arg[u]
                                    /\ pc'[u] = pc[u] /\ obj'[u] = obj[u]
    BY <1>b, <2>2
  <2> QED
    BY <2>3, <2>4, <2>5, <2>6, <2>7, <2>8, WeakStepIInv
<1> QED
  BY <1>1, <1>2

(***************************************************************************)
(* The retain of what was read from a Weak, which may be deleted by now.   *)
(***************************************************************************)
LEMMA WeakRetainIInv ==
  ASSUME IInv, fault = "none", NEW t \in Threads, WeakRetain(t)
  PROVE  IInv'
<1> USE DEF slotVars
<1>a. TypeOK /\ Calls
  BY DEF IInv
<1>b. /\ pc[t] = "upgrade" /\ arg[t] \in Objects
      /\ target[t] \in Slots /\ owner[target[t]] = t
      /\ UNCHANGED <<state, pend, mutex, slotVars, obj, stack, weak, watchers>>
  BY <1>a DEF WeakRetain, Calls
<1>1. CASE state[arg[t]] = "deleted"
  <2>1. fault' = "retain" /\ UNCHANGED <<count, pc, next, target, arg, revived>>
    BY <1>1 DEF WeakRetain
  <2>2. TypeOK'
    BY <1>a, <1>b, <2>1 DEF TypeOK, Faults
  <2>3. \A p \in Objects : Holders(p)' \subseteq Holders(p)
    BY <1>b, <2>1, SameHolders
  <2>4. /\ UNCHANGED <<state, count, pend, owner, pc, next, stack, weak, watchers, revived>>
        /\ UNCHANGED <<holds, obj>>
    BY <1>b, <2>1
  <2>5. \A s \in Slots : holds'[s] = holds[s] \/ holds'[s] = Nil
    BY <2>4
  <2>6. fault' # "none" /\ (fault' \in {"release", "check", "delete", "use"} => revived)
    BY <2>1
  <2> QED
    BY <2>2, <2>3, <2>4, <2>5, <2>6, FaultIInv
<1>2. CASE state[arg[t]] # "deleted"
  BY <1>b, <1>2, RetainIInv DEF WeakRetain
<1> QED
  BY <1>1, <1>2

-----------------------------------------------------------------------------
(***************************************************************************)
(* Every step of the program keeps the inductive invariant.                *)
(***************************************************************************)
LEMMA StutterIInv ==
  ASSUME IInv, UNCHANGED vars
  PROVE  IInv'
<1>1. \A o \in Objects : Holders(o)' = Holders(o)
  BY SameHolders DEF vars
<1>2. \A t \in Threads, o \in Objects : Handler(t, o)' <=> Handler(t, o)
  BY DEF vars, Handler
<1>3. TypeOK' /\ Watched' /\ FaultsAreWeak' /\ Destructors'
  BY DEF vars, IInv, TypeOK, Watched, FaultsAreWeak, Destructors
<1>4. Calls'
  BY DEF vars, IInv, Calls, Setting, Known
<1>5. CountIsHolders' /\ HeldIsLive'
  BY <1>1 DEF vars, IInv, CountIsHolders, HeldIsLive
<1>6. Condemned'
  BY <1>2 DEF vars, IInv, Condemned
<1> QED
  BY <1>3, <1>4, <1>5, <1>6 DEF IInv

LEMMA NextIInv ==
  ASSUME IInv, [Next]_vars
  PROVE  IInv'
<1>a. TypeOK /\ Calls /\ CountIsHolders
  BY DEF IInv
<1>1. CASE UNCHANGED vars
  BY <1>1, StutterIInv
<1>2. ASSUME fault = "none", NEW t \in Threads, Continue(t) PROVE IInv'
  <2>1. CASE AddObject(t)
    BY <1>2, <1>a, <2>1, AddObjectIInv DEF AddObject, Calls
  <2>2. CASE PopPending(t)
    <3>1. Head(pend) \in Objects
      BY <1>a, <2>2, RangeHeadTail DEF PopPending, TypeOK
    <3> QED
      BY <1>2, <2>2, <3>1, PopPendingIInv
  <2>3. CASE Drained(t) \/ CheckCount(t)
    BY <1>2, <2>3, DrainedIInv, CheckCountIInv
  <2>4. CASE Delete(t)
    BY <1>2, <1>a, <2>4, DeleteIInv DEF Delete, Calls
  <2>5. CASE DtorMember(t)
    <3>1. pc[t] = "dtor" /\ UNCHANGED <<state, pend, owner, callVars, stack, weakVars>>
          /\ Head(stack[t]) \in Objects
      BY <1>2, <1>a, <2>5, RangeHeadTail DEF DtorMember, Calls, TypeOK
    <3>2. PICK s \in Slots : owner[s] = Head(stack[t]) /\ holds[s] # Nil /\ Release(t, s)
      BY <2>5 DEF DtorMember, Members
    <3>3. holds[s] \in Objects /\ owner[s] \notin Threads
      BY <1>a, <3>1, <3>2, KindsAssumption DEF TypeOK
    <3> QED
      BY <1>2, <3>1, <3>2, <3>3, ReleaseIInv
  <2>6. CASE DtorObject(t)
    <3>1. Head(stack[t]) \in Objects
      BY <1>2, <1>a, <2>6, RangeHeadTail DEF DtorObject, TypeOK, Calls
    <3> QED
      BY <1>2, <2>6, <3>1, DtorObjectIInv
  <2>7. CASE SetReleaseOld(t)
    <3>1. /\ target[t] \in Slots /\ holds[target[t]] \in Objects
          /\ owner[target[t]] = t /\ ~Setting(t) /\ pc[t] = "assign"
      BY <1>2, <1>a, <2>7 DEF SetReleaseOld, Calls, TypeOK, Setting
    <3>2. Release(t, target[t]) /\ UNCHANGED <<state, pend, owner, callVars, stack, weakVars>>
      BY <2>7 DEF SetReleaseOld
    <3> QED
      BY <1>2, <3>1, <3>2, ReleaseIInv
  <2>8. CASE SetAssign(t)
    BY <1>2, <1>a, <2>8, SetAssignIInv DEF SetAssign, Calls
  <2>9. CASE WeakOld(t) \/ WeakAssign(t) \/ WeakRetain(t)
    BY <1>2, <2>9, WeakOldIInv, WeakAssignIInv, WeakRetainIInv
  <2>10. CASE UnWeak(t)
    BY <1>2, <1>a, <2>10, UnWeakIInv DEF UnWeak, Calls
  <2> QED
    BY <1>2, <2>1, <2>2, <2>3, <2>4, <2>5, <2>6, <2>7, <2>8, <2>9, <2>10 DEF Continue
<1>3. ASSUME fault = "none", NEW t \in Threads, Use(t) PROVE IInv'
  <2>1. ASSUME NEW s \in Slots, NEW o \in Objects, SetNew(t, s, o) PROVE IInv'
    BY <1>3, <2>1, RetainIInv DEF SetNew, weakVars
  <2>2. ASSUME NEW s \in Slots, NEW o \in Objects, SetKnown(t, s, o) PROVE IInv'
    <3>1. count[o] # 0
      BY <1>3, <1>a, <2>2, ZeroIsUnheld DEF SetKnown, Known, Holders
    <3>2. /\ state' = state /\ revived' = (revived \/ count[o] = 0)
          /\ pc[t] \in {"idle", "upgrade"} /\ owner[s] = t /\ Retain(t, s, o)
          /\ UNCHANGED <<pend, mutex, slotVars, obj, stack, weak, watchers, fault>>
      BY <1>a, <2>2, <3>1 DEF SetKnown, weakVars, TypeOK
    <3> QED
      BY <1>3, <3>2, RetainIInv
  <2>3. ASSUME NEW s \in Slots, Clear(t, s) PROVE IInv'
    <3>1. /\ holds[s] \in Objects /\ owner[s] = t /\ ~Setting(t) /\ pc[t] = "idle"
          /\ Release(t, s) /\ UNCHANGED <<state, pend, owner, callVars, stack, weakVars>>
      BY <1>3, <1>a, <2>3 DEF Clear, TypeOK, Calls, Setting
    <3> QED
      BY <1>3, <3>1, ReleaseIInv
  <2>4. ASSUME NEW s \in Slots, NEW u \in Threads \union Objects, HandOver(t, s, u) PROVE IInv'
    BY <1>3, <1>a, <2>4, OwnerIInv DEF HandOver, Calls
  <2>5. ASSUME NEW o \in Objects, WeakSet(t, o) \/ UseDeleted(t, o) PROVE IInv'
    BY <1>3, <2>5, WeakSetIInv, UseDeletedIInv
  <2>6. ASSUME (\E s \in Slots : WeakGet(t, s)) \/ WeakClear(t) PROVE IInv'
    BY <1>3, <2>6, WeakGetIInv, WeakClearIInv
  <2>7. ASSUME NEW s \in Slots, TakeBack(t, s) PROVE IInv'
    <3>1. owner[s] \notin Threads /\ t \in Threads \union Objects
      BY <2>7, KindsAssumption DEF TakeBack
    <3> QED
      BY <1>3, <2>7, <3>1, OwnerIInv DEF TakeBack
  <2> QED
    BY <1>3, <2>1, <2>2, <2>3, <2>4, <2>5, <2>6, <2>7 DEF Use
<1> QED
  BY <1>1, <1>2, <1>3 DEF Next

-----------------------------------------------------------------------------
(* What holds whatever the threads do with their Weak variables.           *)

(***************************************************************************)
(* The inductive invariant holds throughout: retain, release, the queue of *)
(* MutexAtomic, the destructors and the Weak variables keep their books.   *)
(***************************************************************************)
THEOREM Invariance == Spec => []IInv
<1>1. Init => IInv
  BY InitIInv
<1>2. IInv /\ [Next]_vars => IInv'
  BY NextIInv
<1> QED
  BY <1>1, <1>2, PTL DEF Spec

(***************************************************************************)
(* Every variable of the model keeps its type.                             *)
(***************************************************************************)
THEOREM TypeCorrect == Spec => []TypeOK
<1>1. IInv => TypeOK
  BY DEF IInv
<1> QED
  BY <1>1, Invariance, PTL

(***************************************************************************)
(* _retainCount is the number of references, in Strong variables and in    *)
(* the hands of threads inside Strong::set, revived objects included.      *)
(***************************************************************************)
THEOREM CountCorrect == Spec => []CountIsHolders
<1>1. IInv => CountIsHolders
  BY DEF IInv
<1> QED
  BY <1>1, Invariance, PTL

(***************************************************************************)
(* Until a Weak revives an object, a Strong never refers to one that is    *)
(* deleted or being deleted.                                               *)
(***************************************************************************)
THEOREM NoDangling == Spec => []HeldIsLive
<1>1. IInv => HeldIsLive
  BY DEF IInv
<1> QED
  BY <1>1, Invariance, PTL

(***************************************************************************)
(* A deleted object is released, checked, deleted again or used through a  *)
(* Strong only after a Weak has revived an object.                         *)
(***************************************************************************)
THEOREM StrongFaultsNeedWeak == Spec => []FaultsAreWeak
<1>1. IInv => FaultsAreWeak
  BY DEF IInv
<1> QED
  BY <1>1, Invariance, PTL

(***************************************************************************)
(* Until a Weak revives an object, no Weak refers to a deleted one.        *)
(***************************************************************************)
THEOREM WeakNulled == Spec => []WeakIsNulled
<1>1. IInv => WeakIsNulled
  BY DEF IInv, Watched, WeakIsNulled
<1> QED
  BY <1>1, Invariance, PTL

(***************************************************************************)
(* An object whose count is zero is queued once, or with one thread, and   *)
(* an object that is referred to is never in the queue.                    *)
(***************************************************************************)
THEOREM SingleDelete == Spec => []DeletedOnce
<1>1. ASSUME IInv, ~revived PROVE DeletedOnce
  <2>a. Condemned /\ TypeOK
    BY <1>1 DEF IInv
  <2>1. \A o \in Objects : Handling(o) \subseteq Threads /\ \A t \in Threads : t \in Handling(o) <=> Handler(t, o)
    BY DEF Handling, Handler
  <2>2. ASSUME NEW o \in Objects PROVE Cardinality(Handling(o)) <= 1
    <3>1. CASE Handling(o) = {}
      BY <3>1, FS_EmptySet
    <3>2. CASE Handling(o) # {}
      <4>1. PICK t : t \in Handling(o)
        BY <3>2
      <4>2. Handling(o) = {t}
        BY <1>1, <2>a, <2>1, <4>1 DEF Condemned
      <4> QED
        BY <4>2, FS_Singleton
    <3> QED
      BY <3>1, <3>2
  <2>3. Range(pend) \subseteq Objects
    BY <2>a, RangeType DEF TypeOK
  <2>4. \A o \in Objects :
          /\ o \in Range(pend) => Handling(o) = {}
          /\ o \in Range(pend) \/ Handling(o) # {} => state[o] = "live" /\ count[o] = 0
          /\ state[o] = "live" /\ count[o] = 0 => o \in Range(pend) \/ Handling(o) # {}
    BY <1>1, <2>a, <2>1 DEF Condemned
  <2> QED
    BY <1>1, <2>a, <2>2, <2>4 DEF DeletedOnce, Condemned
<1>2. IInv => DeletedOnce
  BY <1>1 DEF DeletedOnce
<1> QED
  BY <1>2, Invariance, PTL

-----------------------------------------------------------------------------
(* Threads that use no Weak, and a thread that is alone.                   *)

(***************************************************************************)
(* Without Weak variables no thread gets inside an operation of one.       *)
(***************************************************************************)
LEMMA StrongOnlyStep ==
  ASSUME ~WeakOps, IInv, StrongOnly, [Next]_vars
  PROVE  StrongOnly'
<1>a. TypeOK /\ FaultsAreWeak'
  BY NextIInv DEF IInv
<1>b. \A t \in Threads : next[t] \in {"idle", "assign"}
  BY <1>a DEF StrongOnly, TypeOK, Setting
<1>1. CASE UNCHANGED vars
  BY <1>1 DEF vars, StrongOnly, Setting
<1>2. ASSUME NEW t \in Threads, Continue(t) \/ Use(t) PROVE StrongOnly'
  <2>1. /\ UNCHANGED revived /\ fault' \in {"none", "release", "check", "delete", "use"}
        /\ next' = next \/ next' = [next EXCEPT ![t] = "idle"] \/ next' = [next EXCEPT ![t] = "assign"]
    BY <1>2, SMTT(30) DEF StrongOnly, Continue, Use, AddObject, PopPending, Drained, CheckCount, Delete,
         DtorMember, DtorObject, SetReleaseOld, SetAssign, WeakOld, WeakAssign, WeakRetain, UnWeak, SetNew,
         SetKnown, Clear, HandOver, TakeBack, UseDeleted, WeakSet, WeakGet, WeakClear, Release, Retain,
         weakVars, callVars
  <2>2. pc' = pc \/ \E l \in {"append", "drain", "check", "delete", "dtor", "idle", next[t]} :
                       pc' = [pc EXCEPT ![t] = l]
    BY <1>2 DEF StrongOnly, Continue, Use, AddObject, PopPending, Drained, CheckCount, Delete,
         DtorMember, DtorObject, SetReleaseOld, SetAssign, WeakOld, WeakAssign, WeakRetain, UnWeak, SetNew,
         SetKnown, Clear, HandOver, TakeBack, UseDeleted, WeakSet, WeakGet, WeakClear, Release, Retain, Goto
  <2>3. \A u \in Threads : /\ pc'[u] \notin {"weakOld", "unweak", "weakAssign", "upgrade"}
                           /\ Setting(u)' = FALSE
    BY <1>a, <1>b, <2>1, <2>2 DEF StrongOnly, TypeOK, Setting
  <2> QED
    BY <1>a, <2>1, <2>3, SMTT(30) DEF StrongOnly, FaultsAreWeak
<1> QED
  BY <1>1, <1>2 DEF Next

LEMMA StrongOnlyAlways == ASSUME ~WeakOps PROVE Spec => []StrongOnly
<1>1. Init => StrongOnly
  BY DEF Init, StrongOnly, Setting
<1>2. IInv /\ StrongOnly /\ [Next]_vars => StrongOnly'
  BY StrongOnlyStep
<1> QED
  BY <1>1, <1>2, Invariance, PTL DEF Spec

(***************************************************************************)
(* Threads that use only Strong variables never use a deleted object.      *)
(***************************************************************************)
THEOREM StrongIsSafe == ASSUME ~WeakOps PROVE Spec => []NoFault
<1>1. StrongOnly => NoFault
  BY DEF StrongOnly, NoFault
<1> QED
  BY <1>1, StrongOnlyAlways, PTL

(***************************************************************************)
(* The object a thread that is alone reads from its Weak is alive, and no  *)
(* deletion of it is under way.                                            *)
(***************************************************************************)
LEMMA AloneIsAlive ==
  ASSUME NEW t \in Threads, Threads = {t}, IInv, Quiet, NEW o \in Objects, weak[t] = o,
         pc[t] \in {"upgrade", "unweak"}
  PROVE  state[o] = "live" /\ count[o] # 0
<1>a. TypeOK /\ Calls /\ Condemned /\ Destructors /\ Watched
  BY DEF IInv
<1>b. pend = <<>> /\ stack[t] = <<>> /\ ~revived /\ fault = "none" /\ next[t] # "weakAssign"
  BY <1>a DEF Quiet, Calls
<1>d. state[o] \in {"live", "deleting"}
  BY <1>a, <1>b, KindsAssumption DEF Watched
<1>e. Range(<<>>) = {}
  BY RangeType
<1>f. state[o] # "deleting"
  BY <1>a, <1>b, <1>e DEF Destructors
<1>g. ~Handler(t, o)
  BY DEF Handler
<1>h. count[o] # 0
  BY <1>a, <1>b, <1>d, <1>e, <1>f, <1>g DEF Condemned
<1> QED
  BY <1>d, <1>f, <1>h

LEMMA QuietStep ==
  ASSUME NEW t \in Threads, Threads = {t}, IInv, Quiet, [Next]_vars
  PROVE  Quiet'
<1>a. TypeOK /\ Calls /\ FaultsAreWeak' /\ ~revived /\ fault = "none"
  BY NextIInv DEF IInv, Quiet
<1>b. pc[t] \in {"idle", "assign", "weakOld", "unweak", "weakAssign", "upgrade"} =>
        pend = <<>> /\ stack[t] = <<>>
  BY DEF Quiet
<1>1. CASE UNCHANGED vars
  BY <1>1 DEF vars, Quiet
<1>2. ASSUME Continue(t) PROVE Quiet'
  <2>1. CASE AddObject(t) \/ PopPending(t) \/ CheckCount(t) \/ Delete(t) \/ DtorMember(t) \/ DtorObject(t)
             \/ SetReleaseOld(t)
    <3>1. UNCHANGED revived /\ fault' \in {"none", "release", "check", "delete"}
      BY <1>a, <2>1 DEF AddObject, PopPending, CheckCount, Delete, DtorMember, DtorObject,
           SetReleaseOld, Release, weakVars
    <3>2. fault' = "none"
      BY <1>a, <3>1 DEF FaultsAreWeak
    <3>3. \E l \in {"append", "drain", "check", "delete", "dtor"} : pc' = [pc EXCEPT ![t] = l]
      BY <2>1, <3>2 DEF AddObject, PopPending, CheckCount, Delete, DtorMember, DtorObject,
           SetReleaseOld, Release, Goto
    <3>4. pc'[t] \in {"append", "drain", "check", "delete", "dtor"}
      BY <1>a, <3>3 DEF TypeOK
    <3> QED
      BY <1>a, <3>1, <3>2, <3>4 DEF Quiet
  <2>2. CASE Drained(t)
    <3>1. /\ pend' = <<>> /\ stack' = stack /\ UNCHANGED <<revived, fault>>
          /\ pc'[t] = IF stack[t] # <<>> THEN "dtor" ELSE next[t]
      BY <1>a, <2>2 DEF Drained, Goto, TypeOK, weakVars
    <3>2. next[t] \in {"idle", "assign", "weakOld", "weakAssign"}
      BY <1>a DEF TypeOK
    <3> QED
      BY <1>a, <3>1, <3>2 DEF Quiet
  <2>3. CASE SetAssign(t) \/ WeakAssign(t)
    <3>1. /\ UNCHANGED <<pend, stack, revived, fault>> /\ pc' = [pc EXCEPT ![t] = "idle"]
          /\ pc[t] \in {"assign", "weakAssign"}
      BY <2>3 DEF SetAssign, WeakAssign, Goto, weakVars
    <3>2. pc'[t] = "idle"
      BY <1>a, <3>1 DEF TypeOK
    <3> QED
      BY <1>a, <1>b, <3>1, <3>2 DEF Quiet
  <2>4. CASE WeakRetain(t)
    <3>1. state[arg[t]] = "live" /\ count[arg[t]] # 0
      BY <1>a, <2>4, AloneIsAlive DEF WeakRetain, Calls, Quiet
    <3>2. revived' = FALSE /\ fault' = "none" /\ pc' = [pc EXCEPT ![t] = "drain"]
      BY <1>a, <2>4, <3>1 DEF WeakRetain, Retain, Goto
    <3>3. pc'[t] = "drain"
      BY <1>a, <3>2 DEF TypeOK
    <3> QED
      BY <3>2, <3>3 DEF Quiet
  <2>5. CASE UnWeak(t)
    <3>1. state[obj[t]] = "live"
      BY <1>a, <2>5, AloneIsAlive DEF UnWeak, Calls, Quiet
    <3>2. UNCHANGED revived /\ fault' = "none" /\ pc' = [pc EXCEPT ![t] = "drain"]
      BY <1>a, <2>5, <3>1 DEF UnWeak, Goto
    <3>3. pc'[t] = "drain"
      BY <1>a, <3>2 DEF TypeOK
    <3> QED
      BY <1>a, <3>2, <3>3 DEF Quiet
  <2>6. CASE WeakOld(t)
    <3>1. /\ UNCHANGED <<pend, stack, weak, revived, fault>> /\ pc[t] = "weakOld"
          /\ \/ pc' = [pc EXCEPT ![t] = "weakAssign"]
             \/ pc' = [pc EXCEPT ![t] = "unweak"] /\ obj' = [obj EXCEPT ![t] = weak[t]]
      BY <2>6 DEF WeakOld, Goto, weakVars
    <3>2. pc'[t] = "weakAssign" \/ (pc'[t] = "unweak" /\ obj'[t] = weak[t])
      BY <1>a, <3>1 DEF TypeOK
    <3> QED
      BY <1>a, <1>b, <3>1, <3>2 DEF Quiet
  <2> QED
    BY <1>2, <2>1, <2>2, <2>3, <2>4, <2>5, <2>6 DEF Continue
<1>3. ASSUME Use(t) PROVE Quiet'
  <2>1. CASE \E o \in Objects : UseDeleted(t, o)
    BY <1>a, <2>1 DEF UseDeleted, FaultsAreWeak, weakVars
  <2>2. CASE \E s \in Slots : Clear(t, s)
    <3>1. UNCHANGED revived /\ fault' \in {"none", "release"}
      BY <1>a, <2>2 DEF Clear, Release, weakVars
    <3>2. fault' = "none"
      BY <1>a, <3>1 DEF FaultsAreWeak
    <3>3. pc' = [pc EXCEPT ![t] = "append"] \/ pc' = [pc EXCEPT ![t] = "drain"]
      BY <2>2, <3>2 DEF Clear, Release, Goto
    <3>4. pc'[t] \in {"append", "drain"}
      BY <1>a, <3>3 DEF TypeOK
    <3> QED
      BY <1>a, <3>1, <3>2, <3>4 DEF Quiet
  <2>3. CASE \/ \E s \in Slots, o \in Objects : SetNew(t, s, o) \/ SetKnown(t, s, o)
             \/ \E o \in Objects : WeakSet(t, o)
    <3>1. UNCHANGED <<revived, fault>> /\ pc' = [pc EXCEPT ![t] = "drain"]
      BY <2>3 DEF SetNew, SetKnown, WeakSet, Retain, Goto, weakVars
    <3>2. pc'[t] = "drain"
      BY <1>a, <3>1 DEF TypeOK
    <3> QED
      BY <1>a, <3>1, <3>2 DEF Quiet
  <2>4. CASE (\E s \in Slots : WeakGet(t, s)) \/ WeakClear(t)
    <3>1. /\ UNCHANGED <<pend, stack, weak, revived, fault>> /\ pc[t] = "idle"
          /\ \/ pc' = [pc EXCEPT ![t] = "upgrade"] /\ arg' = [arg EXCEPT ![t] = weak[t]]
             \/ pc' = [pc EXCEPT ![t] = "weakOld"]
      BY <2>4 DEF WeakGet, WeakClear, Goto, weakVars
    <3>2. (pc'[t] = "upgrade" /\ arg'[t] = weak[t]) \/ pc'[t] = "weakOld"
      BY <1>a, <3>1 DEF TypeOK
    <3> QED
      BY <1>a, <1>b, <3>1, <3>2 DEF Quiet
  <2>5. CASE \/ \E s \in Slots, u \in Threads \union Objects : HandOver(t, s, u)
             \/ \E s \in Slots : TakeBack(t, s)
    <3>1. UNCHANGED <<pend, stack, weak, revived, fault, arg, pc, obj>>
      BY <2>5 DEF HandOver, TakeBack, weakVars, callVars
    <3> QED
      BY <3>1 DEF Quiet
  <2> QED
    BY <1>3, <2>1, <2>2, <2>3, <2>4, <2>5 DEF Use
<1> QED
  BY <1>1, <1>2, <1>3 DEF Next

LEMMA QuietAlways == ASSUME NEW t \in Threads, Threads = {t} PROVE Spec => []Quiet
<1>1. Init => Quiet
  BY DEF Init, Quiet
<1>2. IInv /\ Quiet /\ [Next]_vars => Quiet'
  BY QuietStep
<1> QED
  BY <1>1, <1>2, Invariance, PTL DEF Spec

(***************************************************************************)
(* A program with one thread never uses a deleted object, whatever it does *)
(* with its Strong and Weak variables.                                     *)
(***************************************************************************)
THEOREM AloneIsSafe == ASSUME NEW t \in Threads, Threads = {t} PROVE Spec => []NoFault
<1>1. Quiet => NoFault
  BY DEF Quiet, NoFault
<1> QED
  BY <1>1, QuietAlways, PTL

-----------------------------------------------------------------------------
(***************************************************************************)
(* Refinement: a retain adds a holder, a release drops one, set() passes   *)
(* one from the thread to the slot, and ~Object reclaims.                  *)
(***************************************************************************)
Born == {o \in Objects : state[o] # "unborn"}
Gone == {o \in Objects : state[o] = "deleted"}
Refs == [o \in Objects |-> Holders(o)]

(***************************************************************************)
(* Until a Weak revives an object, every step is one of Ownership.         *)
(***************************************************************************)
OwnedUntilRevived == [][~revived' => [OW!Next]_OW!vars]_vars

(***************************************************************************)
(* A thread inside set() gains a reference.                                *)
(***************************************************************************)
LEMMA RetainImplements ==
  ASSUME IInv, fault = "none", ~revived, NEW t \in Threads, NEW s \in Slots, NEW o \in Objects,
         pc[t] \in {"idle", "upgrade"}, Retain(t, s, o), UNCHANGED holds,
         \/ state[o] = "unborn" /\ state' = [state EXCEPT ![o] = "live"]
         \/ count[o] # 0 /\ state' = state
  PROVE  OW!Next
<1>a. TypeOK /\ Calls /\ CountIsHolders /\ HeldIsLive
  BY DEF IInv
<1>b. arg' = [arg EXCEPT ![t] = o] /\ next' = [next EXCEPT ![t] = "assign"] /\ holds' = holds
  BY DEF Retain
<1>c. next[t] = "idle" /\ t \notin Holders(o)
  BY <1>a, KindsAssumption DEF Calls, Holders
<1>d. /\ Holders(o)' = Holders(o) \union {t}
      /\ \A p \in Objects : p # o => Holders(p)' = Holders(p)
  BY <1>a, <1>b, <1>c DEF Holders, TypeOK
<1>1. CASE state[o] = "unborn" /\ state' = [state EXCEPT ![o] = "live"]
  <2>1. Holders(o) = {}
    BY <1>a, <1>1 DEF HeldIsLive
  <2>2. Refs' = [Refs EXCEPT ![o] = {t}]
    BY <1>d, <2>1 DEF Refs
  <2>3. o \notin Born /\ Born' = Born \union {o} /\ Gone' = Gone
    BY <1>a, <1>1 DEF Born, Gone, TypeOK
  <2>4. OW!Create(o, t)
    BY <2>2, <2>3 DEF OW!Create, Refs, Born, Gone
  <2> QED
    BY <2>4 DEF OW!Next
<1>2. CASE count[o] # 0 /\ state' = state
  <2>1. Holders(o) # {}
    BY <1>a, <1>2, ZeroIsUnheld
  <2>2. Refs' = [Refs EXCEPT ![o] = @ \union {t}]
    BY <1>d DEF Refs
  <2>3. Refs[o] # {} /\ t \notin Refs[o] /\ Born' = Born /\ Gone' = Gone
    BY <1>c, <1>2, <2>1 DEF Refs, Born, Gone
  <2>4. OW!Acquire(o, t)
    BY <2>2, <2>3 DEF OW!Acquire, Refs, Born, Gone
  <2> QED
    BY <2>4 DEF OW!Next
<1> QED
  BY <1>1, <1>2

(***************************************************************************)
(* A release drops the slot's reference.                                   *)
(***************************************************************************)
LEMMA ReleaseImplements ==
  ASSUME IInv, NEW t \in Threads, NEW s \in Slots, NEW o \in Objects, holds[s] = o,
         Release(t, s), UNCHANGED <<state, next, arg>>
  PROVE  OW!Next
<1>a. TypeOK
  BY DEF IInv
<1>b. holds' = [holds EXCEPT ![s] = Nil]
  BY DEF Release
<1>c. /\ s \in Holders(o) /\ Holders(o)' = Holders(o) \ {s}
      /\ \A p \in Objects : p # o => Holders(p)' = Holders(p)
  BY <1>a, <1>b, KindsAssumption DEF Holders, TypeOK
<1>d. Refs' = [Refs EXCEPT ![o] = @ \ {s}] /\ s \in Refs[o] /\ Born' = Born /\ Gone' = Gone
  BY <1>c DEF Refs, Born, Gone
<1>e. OW!Drop(o, s)
  BY <1>d DEF OW!Drop, Refs, Born, Gone
<1> QED
  BY <1>e DEF OW!Next

(***************************************************************************)
(* set() stores its argument: the reference passes to the slot.            *)
(***************************************************************************)
LEMMA SetAssignImplements ==
  ASSUME IInv, fault = "none", NEW t \in Threads, SetAssign(t),
         NEW o \in Objects, arg[t] = o, NEW s \in Slots, target[t] = s
  PROVE  OW!Next
<1>a. TypeOK /\ Calls
  BY DEF IInv
<1>b. /\ pc[t] = "assign" /\ next[t] = "assign" /\ holds[s] = Nil
      /\ holds' = [holds EXCEPT ![s] = o] /\ UNCHANGED state
      /\ next' = [next EXCEPT ![t] = "idle"] /\ arg' = [arg EXCEPT ![t] = Nil]
  BY <1>a DEF SetAssign, Calls
<1>c. /\ Holders(o)' = (Holders(o) \ {t}) \union {s}
      /\ \A p \in Objects : p # o => Holders(p)' = Holders(p)
      /\ t \in Holders(o) /\ s \notin Holders(o)
  BY <1>a, <1>b, KindsAssumption DEF Holders, TypeOK
<1>d. /\ Refs' = [Refs EXCEPT ![o] = (@ \ {t}) \union {s}]
      /\ t \in Refs[o] /\ s \notin Refs[o] /\ Born' = Born /\ Gone' = Gone
  BY <1>b, <1>c DEF Refs, Born, Gone
<1>e. OW!Pass(o, t, s)
  BY <1>d DEF OW!Pass, Refs, Born, Gone
<1> QED
  BY <1>e DEF OW!Next

(***************************************************************************)
(* ~Object reclaims an object without holders.                             *)
(***************************************************************************)
LEMMA DtorImplements ==
  ASSUME IInv, fault = "none", ~revived, NEW t \in Threads, NEW o \in Objects, DtorObject(t), o = Head(stack[t])
  PROVE  OW!Next
<1>a. TypeOK /\ Calls /\ HeldIsLive /\ Destructors
  BY DEF IInv
<1>b. pc[t] = "dtor" /\ state' = [state EXCEPT ![o] = "deleted"] /\ UNCHANGED <<holds, next, arg>>
  BY DEF DtorObject, slotVars, callVars
<1>c. o \in Range(stack[t])
  BY <1>a, <1>b, RangeHeadTail DEF Calls, TypeOK
<1>d. state[o] = "deleting" /\ Holders(o) = {}
  BY <1>a, <1>c DEF Destructors, HeldIsLive
<1>e. Refs' = Refs /\ Refs[o] = {}
  BY <1>b, <1>d, SameHolders DEF Refs
<1>f. o \in Born \ Gone /\ Born' = Born /\ Gone' = Gone \union {o}
  BY <1>a, <1>b, <1>d DEF Born, Gone, TypeOK
<1>g. OW!Reclaim(o)
  BY <1>e, <1>f DEF OW!Reclaim, Refs, Born, Gone
<1> QED
  BY <1>g DEF OW!Next

(***************************************************************************)
(* The queueing, the second look at the count, the delete, the change of   *)
(* owner and the bookkeeping of the Weak variables leave the abstract      *)
(* state alone.                                                            *)
(***************************************************************************)
LEMMA OtherImplements ==
  ASSUME IInv, UNCHANGED holds,
         \A t \in Threads : \/ next'[t] = next[t] /\ arg'[t] = arg[t]
                            \/ next[t] # "assign" /\ next'[t] # "assign",
         \/ UNCHANGED state
         \/ \E o \in Objects : state[o] = "live" /\ state' = [state EXCEPT ![o] = "deleting"]
  PROVE  UNCHANGED OW!vars
<1>1. Refs' = Refs
  BY DEF Refs, Holders
<1>2. Born' = Born /\ Gone' = Gone
  BY DEF Born, Gone, IInv, TypeOK
<1> QED
  BY <1>1, <1>2 DEF OW!vars, Refs, Born, Gone

(***************************************************************************)
(* Every step that leaves no object revived is a step of Ownership or      *)
(* changes nothing there.                                                  *)
(***************************************************************************)
LEMMA StepImplements ==
  ASSUME IInv, [Next]_vars, ~revived'
  PROVE  [OW!Next]_OW!vars
<1>a. TypeOK /\ Calls /\ CountIsHolders
  BY DEF IInv
<1>1. CASE UNCHANGED vars
  BY <1>1, OtherImplements DEF vars
<1>2. ASSUME fault = "none", NEW t \in Threads, Continue(t) PROVE [OW!Next]_OW!vars
  <2>r. ~revived
    BY <1>2 DEF Continue, AddObject, PopPending, Drained, CheckCount, Delete, DtorMember, DtorObject,
         SetReleaseOld, SetAssign, WeakOld, WeakAssign, WeakRetain, UnWeak, weakVars
  <2>1. CASE AddObject(t) \/ PopPending(t) \/ Drained(t) \/ CheckCount(t)
    BY <2>1, OtherImplements DEF AddObject, PopPending, Drained, CheckCount, slotVars, callVars
  <2>2. CASE Delete(t)
    <3>1. obj[t] \in Objects
      BY <1>2, <1>a, <2>2 DEF Delete, Calls
    <3>2. UNCHANGED <<holds, next, arg>>
      BY <2>2 DEF Delete, slotVars, callVars
    <3>3. \/ UNCHANGED state
          \/ state[obj[t]] = "live" /\ state' = [state EXCEPT ![obj[t]] = "deleting"]
      BY <2>2 DEF Delete
    <3> QED
      BY <3>1, <3>2, <3>3, OtherImplements
  <2>3. CASE DtorMember(t)
    <3>1. UNCHANGED <<state, next, arg>>
      BY <2>3 DEF DtorMember, callVars
    <3>2. PICK s \in Slots : holds[s] # Nil /\ Release(t, s)
      BY <2>3 DEF DtorMember, Members
    <3>3. holds[s] \in Objects
      BY <1>a, <3>2 DEF TypeOK
    <3> QED
      BY <3>1, <3>2, <3>3, ReleaseImplements
  <2>4. CASE DtorObject(t)
    <3>1. Head(stack[t]) \in Objects
      BY <1>2, <1>a, <2>4, RangeHeadTail DEF DtorObject, TypeOK, Calls
    <3> QED
      BY <1>2, <2>r, <2>4, <3>1, DtorImplements
  <2>5. CASE SetReleaseOld(t)
    <3>1. target[t] \in Slots /\ holds[target[t]] \in Objects /\ UNCHANGED <<state, next, arg>>
      BY <1>2, <1>a, <2>5 DEF SetReleaseOld, Calls, TypeOK, callVars
    <3> QED
      BY <2>5, <3>1, ReleaseImplements DEF SetReleaseOld
  <2>6. CASE SetAssign(t)
    BY <1>2, <1>a, <2>6, SetAssignImplements DEF SetAssign, Calls
  <2>7. CASE WeakRetain(t)
    <3>1. pc[t] = "upgrade" /\ arg[t] \in Objects /\ target[t] \in Slots /\ UNCHANGED <<state, holds>>
      BY <1>2, <1>a, <2>7 DEF WeakRetain, Calls, slotVars
    <3>2. CASE state[arg[t]] = "deleted"
      BY <2>7, <3>1, <3>2, OtherImplements DEF WeakRetain
    <3>3. CASE state[arg[t]] # "deleted"
      BY <1>2, <2>r, <2>7, <3>1, <3>3, RetainImplements DEF WeakRetain
    <3> QED
      BY <3>2, <3>3
  <2>8. CASE WeakOld(t) \/ WeakAssign(t) \/ UnWeak(t)
    <3>1. UNCHANGED <<state, holds>> /\ next[t] # "assign"
      BY <1>2, <1>a, <2>8 DEF WeakOld, WeakAssign, UnWeak, Calls, slotVars
    <3>2. /\ arg' = arg \/ arg' = [arg EXCEPT ![t] = Nil]
          /\ \/ next' = next \/ next' = [next EXCEPT ![t] = "idle"]
             \/ next' = [next EXCEPT ![t] = "weakAssign"]
      BY <2>8 DEF WeakOld, WeakAssign, UnWeak
    <3>3. /\ next'[t] # "assign"
          /\ \A u \in Threads : u # t => next'[u] = next[u] /\ arg'[u] = arg[u]
      BY <1>a, <3>1, <3>2 DEF TypeOK
    <3> QED
      BY <3>1, <3>3, OtherImplements
  <2> QED
    BY <1>2, <2>1, <2>2, <2>3, <2>4, <2>5, <2>6, <2>7, <2>8 DEF Continue
<1>3. ASSUME fault = "none", NEW t \in Threads, Use(t) PROVE [OW!Next]_OW!vars
  <2>r. ~revived
    BY <1>3 DEF Use, SetNew, SetKnown, Clear, WeakGet, HandOver, TakeBack, WeakSet,
         UseDeleted, WeakClear, weakVars
  <2>1. ASSUME NEW s \in Slots, NEW o \in Objects, SetNew(t, s, o) PROVE OW!Next
    BY <1>3, <2>r, <2>1, RetainImplements DEF SetNew, slotVars
  <2>2. ASSUME NEW s \in Slots, NEW o \in Objects, SetKnown(t, s, o) PROVE OW!Next
    <3>1. count[o] # 0
      BY <1>3, <1>a, <2>2, ZeroIsUnheld DEF SetKnown, Known, Holders
    <3> QED
      BY <1>3, <2>r, <2>2, <3>1, RetainImplements DEF SetKnown, slotVars
  <2>3. ASSUME NEW s \in Slots, Clear(t, s) PROVE OW!Next
    <3>1. holds[s] \in Objects /\ UNCHANGED <<state, next, arg>>
      BY <1>a, <2>3 DEF Clear, TypeOK, callVars
    <3> QED
      BY <2>3, <3>1, ReleaseImplements DEF Clear
  <2>4. ASSUME \/ \E s \in Slots, u \in Threads \union Objects : HandOver(t, s, u)
               \/ \E s \in Slots : TakeBack(t, s)
               \/ \E o \in Objects : UseDeleted(t, o)
        PROVE  UNCHANGED OW!vars
    BY <2>4, OtherImplements DEF HandOver, TakeBack, UseDeleted, callVars, slotVars
  <2>5. ASSUME \/ \E s \in Slots : WeakGet(t, s)
               \/ \E o \in Objects : WeakSet(t, o)
               \/ WeakClear(t)
        PROVE  UNCHANGED OW!vars
    <3>1. UNCHANGED <<state, holds>> /\ next[t] # "assign"
      BY <1>3, <1>a, <2>5 DEF WeakGet, WeakSet, WeakClear, Calls, slotVars
    <3>2. /\ \E p : arg' = [arg EXCEPT ![t] = p]
          /\ next' = next \/ next' = [next EXCEPT ![t] = "weakOld"]
      BY <2>5 DEF WeakGet, WeakSet, WeakClear
    <3>3. /\ next'[t] # "assign"
          /\ \A u \in Threads : u # t => next'[u] = next[u] /\ arg'[u] = arg[u]
      BY <1>a, <3>1, <3>2 DEF TypeOK
    <3> QED
      BY <3>1, <3>3, OtherImplements
  <2> QED
    BY <1>3, <2>1, <2>2, <2>3, <2>4, <2>5 DEF Use
<1> QED
  BY <1>1, <1>2, <1>3 DEF Next

LEMMA InitImplements == Init => OW!Init
<1> SUFFICES ASSUME Init PROVE OW!Init
  OBVIOUS
<1>1. \A o \in Objects : state[o] = "unborn" /\ Holders(o) = {}
  BY KindsAssumption DEF Init, Holders
<1> QED
  BY <1>1 DEF OW!Init

(***************************************************************************)
(* Until a Weak revives an object, retain, release, set() and the deferred *)
(* delete go by the rules of ownership.                                    *)
(***************************************************************************)
THEOREM Owned == Spec => OwnedUntilRevived
<1>1. IInv /\ [Next]_vars => [~revived' => [OW!Next]_OW!vars]_vars
  BY StepImplements
<1> QED
  BY <1>1, Invariance, PTL DEF Spec, OwnedUntilRevived

(***************************************************************************)
(* Threads that use only Strong variables implement Ownership: no object   *)
(* is reclaimed while it is referred to, twice, or revived.                *)
(***************************************************************************)
THEOREM Implementation == ASSUME ~WeakOps PROVE Spec => ImplementsOwnership
<1>1. IInv /\ StrongOnly' /\ [Next]_vars => [OW!Next]_OW!vars
  BY StepImplements DEF StrongOnly
<1> QED
  BY <1>1, InitImplements, Invariance, StrongOnlyAlways, PTL DEF Spec, OW!Spec, ImplementsOwnership

(***************************************************************************)
(* So does a thread that is alone, its Weak variables included.            *)
(***************************************************************************)
THEOREM AloneImplementation ==
  ASSUME NEW t \in Threads, Threads = {t} PROVE Spec => ImplementsOwnership
<1>1. IInv /\ Quiet' /\ [Next]_vars => [OW!Next]_OW!vars
  BY StepImplements DEF Quiet
<1> QED
  BY <1>1, InitImplements, Invariance, QuietAlways, PTL DEF Spec, OW!Spec, ImplementsOwnership
=============================================================================
