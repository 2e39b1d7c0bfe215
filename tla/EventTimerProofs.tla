-------------------------- MODULE EventTimerProofs --------------------------
(***************************************************************************)
(* Proofs about EventTimer for any number of timers and addresses and any  *)
(* printing of addresses as ids.  TypeOK and Registered are inductive      *)
(* together with the fact that only timers that were made are recycled.    *)
(***************************************************************************)
EXTENDS EventTimer, TLAPS

Named == \A t \in recycled : id[t] # Nil

IInv == TypeOK /\ Registered /\ Named

(***************************************************************************)
(* What a property owns is one allocated timer, under its own id.          *)
(***************************************************************************)
LEMMA OwnedIsLive ==
  ASSUME IInv, NEW i \in Ids
  PROVE  /\ OwnedBy(i) \subseteq Timers
         /\ \A t \in OwnedBy(i) : t = global[i] /\ Live(t) /\ t \notin recycled /\ id[t] = i
  BY DEF IInv, TypeOK, Registered, Named, OwnedBy

(***************************************************************************)
(* The initial states satisfy the invariant.                               *)
(***************************************************************************)
LEMMA InitIInv == Init => IInv
  BY NilAssumption DEF Init, IInv, TypeOK, Registered, Named, Live, OwnedBy

(***************************************************************************)
(* setTimeout and setInterval keep the invariant.                          *)
(***************************************************************************)
LEMMA NewTimerIInv ==
  ASSUME IInv, NEW t \in Timers, NEW a \in Addrs, NEW r \in BOOLEAN, NewTimer(t, a, r)
  PROVE  IInv'
<1> DEFINE i == IdOf[a]
           displaced == OwnedBy(i)
           dead == displaced \ {running}
<1>a. TypeOK /\ Registered /\ Named /\ i \in Ids
  BY IdAssumption DEF IInv
<1>b. /\ id[t] = Nil
      /\ \A u \in Timers : addr[u] # a
      /\ addr' = [u \in Timers |-> IF u = t THEN a ELSE IF u \in dead THEN Nil ELSE addr[u]]
      /\ id' = [id EXCEPT ![t] = i]
      /\ repeat' = IF r THEN repeat \union {t} ELSE repeat
      /\ pending' = (pending \ dead) \union {t}
      /\ global' = [global EXCEPT ![i] = t]
      /\ recycled' = recycled \union displaced
      /\ UNCHANGED <<running, closed, cleared, fired>>
  BY DEF NewTimer, Deleted
<1>c. displaced \subseteq Timers /\ \A u \in displaced : u = global[i] /\ Live(u) /\ u \notin recycled /\ id[u] = i
  BY <1>a, OwnedIsLive
<1>d. ~Live(t) /\ t \notin displaced /\ t \notin pending /\ t # running /\ a # Nil /\ i # Nil /\ t # Nil
  BY <1>a, <1>b, <1>c, NilAssumption, IdAssumption DEF Registered, Live, TypeOK
<1>1. TypeOK'
  BY <1>a, <1>b, <1>c DEF TypeOK
<1>2. Registered'
  <2>1. \A u \in Timers : Live(u)' <=> u = t \/ (Live(u) /\ u \notin dead)
    BY <1>b, <1>d DEF Live
  <2>2. \A j \in Ids : j # i => global'[j] = global[j] /\ global[j] \notin displaced
    <3> SUFFICES ASSUME NEW j \in Ids, j # i PROVE global'[j] = global[j] /\ global[j] \notin displaced
      OBVIOUS
    <3>1. global[j] # Nil => id[global[j]] = j
      BY <1>a DEF Registered
    <3>2. \A u \in displaced : u # Nil /\ id[u] = i
      BY <1>c, NilAssumption
    <3> QED
      BY <1>a, <1>b, <3>1, <3>2 DEF TypeOK
  <2>3. global'[i] = t /\ id'[t] = i /\ addr'[t] = a /\ t \notin recycled'
    BY <1>a, <1>b, <1>d DEF TypeOK, Named
  <2>4. \A u \in Timers : u # t => id'[u] = id[u] /\ (Live(u)' => addr'[u] = addr[u] /\ Live(u))
    BY <1>a, <1>b, <2>1 DEF TypeOK, Live
  <2>5. \A j \in Ids : (global[j] # Nil =>
           Live(global[j]) /\ global[j] \notin recycled /\ id[global[j]] = j)'
    BY <1>a, <1>b, <2>1, <2>2, <2>3, <2>4, NilAssumption DEF Registered, TypeOK
  <2>6. \A u \in Timers : (Live(u) => id[u] = IdOf[addr[u]] /\ (global[id[u]] = u \/ u = running))'
    <3> SUFFICES ASSUME NEW u \in Timers, Live(u)', u # t
                 PROVE  (id[u] = IdOf[addr[u]] /\ (global[id[u]] = u \/ u = running))'
      BY <1>d, <2>3
    <3>1. Live(u) /\ u \notin dead /\ id'[u] = id[u] /\ id[u] = IdOf[addr[u]] /\ addr'[u] = addr[u]
      BY <1>a, <2>1, <2>4 DEF Registered
    <3>2. id[u] \in Ids
      BY <1>a, <3>1, IdAssumption DEF TypeOK, Live
    <3>3. CASE u = running
      BY <1>b, <3>1, <3>3
    <3>4. CASE u # running
      <4>1. global[id[u]] = u /\ u \notin displaced
        BY <1>a, <3>1, <3>4 DEF Registered
      <4>2. id[u] # i
        BY <4>1, NilAssumption DEF OwnedBy
      <4> QED
        BY <2>2, <3>1, <3>2, <4>1, <4>2
    <3> QED
      BY <3>3, <3>4
  <2>7. \A u \in Timers : (Live(u) /\ u = running /\ u \notin recycled => global[id[u]] = u)'
    <3> SUFFICES ASSUME NEW u \in Timers, Live(u)', u = running, u \notin recycled'
                 PROVE  global'[id'[u]] = u
      BY <1>b
    <3>1. u # t /\ Live(u) /\ u \notin displaced /\ id'[u] = id[u] /\ u \notin recycled
      BY <1>b, <1>d, <2>4
    <3>2. global[id[u]] = u /\ id[u] \in Ids
      BY <1>a, <3>1, IdAssumption DEF Registered, TypeOK, Live
    <3>3. id[u] # i
      BY <3>1, <3>2, NilAssumption DEF OwnedBy
    <3> QED
      BY <2>2, <3>1, <3>2, <3>3
  <2>8. \A u \in pending' : (Live(u) /\ u # running /\ u \notin recycled)'
    BY <1>a, <1>b, <1>d, <2>1, <2>3 DEF Registered, TypeOK
  <2>9. (running # Nil => Live(running))'
    BY <1>a, <1>b, <2>1 DEF Registered, TypeOK
  <2> QED
    BY <2>5, <2>6, <2>7, <2>8, <2>9 DEF Registered
<1>3. Named'
  BY <1>a, <1>b, <1>c, <1>d, NilAssumption DEF Named, TypeOK
<1> QED
  BY <1>1, <1>2, <1>3 DEF IInv

(***************************************************************************)
(* clearTimeout and clearInterval keep it.                                 *)
(***************************************************************************)
LEMMA ClearIInv ==
  ASSUME IInv, NEW t \in Timers, Clear(t)
  PROVE  IInv'
<1> DEFINE i == id[t]
           owned == OwnedBy(i)
           dead == owned \ {running}
<1>a. TypeOK /\ Registered /\ Named /\ i \in Ids
  BY DEF IInv, Clear, TypeOK
<1>b. /\ global' = [global EXCEPT ![i] = Nil]
      /\ addr' = [u \in Timers |-> IF u \in dead THEN Nil ELSE addr[u]]
      /\ pending' = pending \ dead
      /\ recycled' = recycled \union owned
      /\ cleared' = cleared \union {t}
      /\ UNCHANGED <<id, repeat, running, closed, fired>>
  BY DEF Clear, Deleted
<1>c. owned \subseteq Timers /\ \A u \in owned : u = global[i] /\ Live(u) /\ u \notin recycled /\ id[u] = i
  BY <1>a, OwnedIsLive
<1>1. TypeOK'
  BY <1>a, <1>b, <1>c DEF TypeOK
<1>2. Registered'
  BY <1>a, <1>b, <1>c, NilAssumption DEF Registered, OwnedBy, TypeOK, Live
<1>3. Named'
  BY <1>a, <1>b, <1>c, NilAssumption DEF Named, TypeOK
<1> QED
  BY <1>1, <1>2, <1>3 DEF IInv

(***************************************************************************)
(* A callback begins, and returns.                                         *)
(***************************************************************************)
LEMMA FireIInv ==
  ASSUME IInv, NEW t \in Timers, Fire(t)
  PROVE  IInv'
  BY NilAssumption DEF IInv, TypeOK, Registered, Named, Fire, OwnedBy, Live

LEMMA ReturnIInv ==
  ASSUME IInv, Return
  PROVE  IInv'
<1>a. /\ TypeOK /\ Registered /\ Named /\ running \in Timers /\ Live(running) /\ running' = Nil
      /\ UNCHANGED <<id, repeat, closed, cleared, fired>>
  BY DEF IInv, Return, TypeOK, Registered
<1>b. Nil \notin Timers
  BY NilAssumption
<1>1. CASE ReturnRecycled
  BY <1>a, <1>b, <1>1 DEF ReturnRecycled, IInv, TypeOK, Registered, Named, OwnedBy, Live
<1>2. CASE ReturnRearm
  BY <1>a, <1>b, <1>2 DEF ReturnRearm, IInv, TypeOK, Registered, Named, OwnedBy, Live
<1>3. CASE ReturnDone
  <2> DEFINE i == id[running]
             gone == OwnedBy(i)
  <2>1. i \in Ids
    BY <1>a, IdAssumption DEF Registered, TypeOK, Live
  <2>2. gone = {running}
    BY <1>a, <1>b, <1>3 DEF ReturnDone, Registered, OwnedBy
  <2>3. /\ global' = [global EXCEPT ![i] = Nil]
        /\ recycled' = recycled \union {running}
        /\ addr' = [u \in Timers |-> IF u = running THEN Nil ELSE addr[u]]
        /\ pending' = pending \ {running}
    BY <1>3, <2>2 DEF ReturnDone
  <2>4. TypeOK'
    BY <1>a, <2>3 DEF TypeOK
  <2>5. Registered'
    <3>1. \A u \in Timers : /\ Live(u)' <=> Live(u) /\ u # running
                            /\ Live(u)' => addr'[u] = addr[u]
      BY <2>3 DEF Live
    <3>2. global[i] = running /\ \A j \in Ids : j # i => global'[j] = global[j] /\ global[j] # running
      BY <1>a, <1>b, <1>3, <2>1, <2>3 DEF ReturnDone, Registered, TypeOK
    <3>3. global'[i] = Nil
      BY <1>a, <2>1, <2>3 DEF TypeOK
    <3>4. \A j \in Ids : (global[j] # Nil =>
             Live(global[j]) /\ global[j] \notin recycled /\ id[global[j]] = j)'
      BY <1>a, <2>3, <3>1, <3>2, <3>3 DEF Registered, TypeOK
    <3>5. \A u \in Timers : (Live(u) => id[u] = IdOf[addr[u]] /\ (global[id[u]] = u \/ u = running))'
      <4> SUFFICES ASSUME NEW u \in Timers, Live(u)'
                   PROVE  id[u] = IdOf[addr[u]] /\ addr'[u] = addr[u] /\ global'[id[u]] = u
        BY <1>a
      <4>1. u # running /\ id[u] = IdOf[addr[u]] /\ addr'[u] = addr[u] /\ global[id[u]] = u /\ id[u] \in Ids
        BY <1>a, <3>1, IdAssumption DEF Registered, TypeOK, Live
      <4> QED
        BY <3>2, <4>1
    <3>6. \A u \in pending' : (Live(u) /\ u # running /\ u \notin recycled)'
      BY <1>a, <1>b, <2>3, <3>1 DEF Registered, TypeOK
    <3> QED
      BY <1>a, <1>b, <3>4, <3>5, <3>6 DEF Registered
  <2>6. Named'
    BY <1>a, <2>1, <2>3, NilAssumption DEF Named
  <2> QED
    BY <2>4, <2>5, <2>6 DEF IInv
<1> QED
  BY <1>1, <1>2, <1>3 DEF Return

(***************************************************************************)
(* The heap is destroyed.                                                  *)
(***************************************************************************)
LEMMA CloseIInv ==
  ASSUME IInv, Close
  PROVE  IInv'
<1> DEFINE gone == UNION {OwnedBy(i) : i \in Ids}
<1>a. /\ TypeOK /\ Registered /\ Named /\ running = Nil /\ running' = Nil /\ closed' = TRUE
      /\ global' = [i \in Ids |-> Nil]
      /\ recycled' = recycled \union gone
      /\ addr' = [u \in Timers |-> IF u \in gone THEN Nil ELSE addr[u]]
      /\ pending' = pending \ gone
      /\ UNCHANGED <<id, repeat, cleared, fired>>
  BY DEF Close, IInv
<1>b. gone \subseteq Timers
  BY OwnedIsLive
<1>c. \A u \in Timers : Live(u) => u \in gone
  <2> SUFFICES ASSUME NEW u \in Timers, Live(u) PROVE u \in gone
    OBVIOUS
  <2>1. id[u] \in Ids /\ global[id[u]] = u
    BY <1>a, NilAssumption, IdAssumption DEF Registered, TypeOK, Live
  <2>2. u \in OwnedBy(id[u])
    BY <2>1, NilAssumption DEF OwnedBy
  <2> QED
    BY <2>1, <2>2
<1>1. TypeOK'
  BY <1>a, <1>b DEF TypeOK
<1>2. Registered'
  BY <1>a, <1>c DEF Registered, OwnedBy, TypeOK, Live
<1>3. Named'
  <2>1. \A u \in gone : id[u] # Nil
    BY OwnedIsLive, NilAssumption
  <2> QED
    BY <1>a, <2>1 DEF Named
<1> QED
  BY <1>1, <1>2, <1>3 DEF IInv

(***************************************************************************)
(* Every step keeps the invariant.                                         *)
(***************************************************************************)
LEMMA NextIInv == IInv /\ [Next]_vars => IInv'
<1> SUFFICES ASSUME IInv, [Next]_vars PROVE IInv'
  OBVIOUS
<1>1. CASE UNCHANGED vars
  BY <1>1 DEF vars, IInv, TypeOK, Registered, Named, OwnedBy, Live
<1> QED
  BY <1>1, NewTimerIInv, ClearIInv, FireIInv, ReturnIInv, CloseIInv DEF Next, Script

-----------------------------------------------------------------------------
(***************************************************************************)
(* Every variable keeps its type.                                          *)
(***************************************************************************)
THEOREM TypeCorrect == Spec => []TypeOK
<1>1. IInv => TypeOK
  BY DEF IInv
<1> QED
  BY <1>1, InitIInv, NextIInv, PTL DEF Spec

(***************************************************************************)
(* Properties and EventTimers agree throughout: no dangling pointer in the *)
(* script heap or in the event base, no timer without an owner.            *)
(***************************************************************************)
THEOREM Registration == Spec => []Registered
<1>1. IInv => Registered
  BY DEF IInv
<1> QED
  BY <1>1, InitIInv, NextIInv, PTL DEF Spec

-----------------------------------------------------------------------------
(***************************************************************************)
(* Every step of the timers is a step of Alarms or leaves it alone.        *)
(***************************************************************************)
Made == {t \in Timers : id[t] # Nil}

LEMMA StepImplements == ASSUME IInv, [Next]_vars PROVE [AL!Next]_AL!vars
<1>a. TypeOK /\ Registered /\ Named
  BY DEF IInv
<1>b. \A u \in pending : u \in Armed
  BY <1>a DEF Registered, TypeOK, Armed
<1>1. ASSUME NEW t \in Timers, NEW a \in Addrs, NEW r \in BOOLEAN, NewTimer(t, a, r) PROVE AL!Set(t)
  <2> DEFINE displaced == OwnedBy(IdOf[a])
             dead == displaced \ {running}
  <2>1. /\ id[t] = Nil
        /\ addr' = [u \in Timers |-> IF u = t THEN a ELSE IF u \in dead THEN Nil ELSE addr[u]]
        /\ id' = [id EXCEPT ![t] = IdOf[a]]
        /\ repeat' \in {repeat, repeat \union {t}}
        /\ recycled' = recycled \union displaced
        /\ running' = running
    BY <1>1 DEF NewTimer, Deleted
  <2>2. t \notin Made /\ Made' = Made \union {t}
    BY <1>a, <2>1, NilAssumption, IdAssumption DEF Made, TypeOK
  <2>3. IdOf[a] \in Ids /\ \A u \in displaced : u \in Timers /\ Live(u) /\ u \notin recycled /\ id[u] # Nil
    BY IdAssumption, NilAssumption, OwnedIsLive
  <2>4. a # Nil /\ ~Live(t) /\ t # running /\ t \notin displaced
    BY <1>a, <2>1, <2>3, NilAssumption, IdAssumption DEF Registered, Live, TypeOK
  <2>5. t \notin recycled
    BY <1>a, <2>1 DEF Named
  <2>6. Armed' = (Armed \ displaced) \union {t}
    BY <2>1, <2>3, <2>4, <2>5 DEF Armed, Live
  <2>7. \E gone \in SUBSET Armed : Armed' = (Armed \ gone) \union {t}
    <3>1. Armed \ (displaced \intersect Armed) = Armed \ displaced
      OBVIOUS
    <3> QED
      BY <2>6, <3>1
  <2> QED
    BY <2>1, <2>2, <2>7 DEF AL!Set, Made
<1>2. ASSUME NEW t \in Timers, Clear(t) PROVE AL!Cancel
  <2> DEFINE owned == OwnedBy(id[t])
             dead == owned \ {running}
  <2>1. /\ addr' = [u \in Timers |-> IF u \in dead THEN Nil ELSE addr[u]]
        /\ recycled' = recycled \union owned
        /\ UNCHANGED <<id, repeat, running>>
    BY <1>2 DEF Clear, Deleted
  <2>2. Armed' = Armed \ owned
    BY <2>1 DEF Armed, Live
  <2>3. Armed \ (owned \intersect Armed) = Armed \ owned
    OBVIOUS
  <2> QED
    BY <2>1, <2>2, <2>3 DEF AL!Cancel
<1>3. ASSUME NEW t \in Timers, Fire(t) PROVE AL!Ring(t)
  <2>1. running = Nil /\ t \in Armed /\ running' = t /\ UNCHANGED <<addr, id, repeat, recycled>>
    BY <1>3, <1>b DEF Fire
  <2>2. Armed' = IF t \in repeat THEN Armed ELSE Armed \ {t}
    BY <2>1, NilAssumption DEF Armed, Live
  <2> QED
    BY <2>1, <2>2 DEF AL!Ring
<1>4. CASE Return
  <2>1. running \in Timers /\ Live(running) /\ running' = Nil /\ UNCHANGED <<id, repeat>>
    BY <1>a, <1>4 DEF Return, TypeOK, Registered
  <2>2. Armed' = Armed
    <3>1. CASE ReturnRecycled
      BY <1>a, <2>1, <3>1, NilAssumption DEF ReturnRecycled, Armed, Live, TypeOK
    <3>2. CASE ReturnRearm
      BY <1>a, <2>1, <3>2, NilAssumption DEF ReturnRearm, Armed, Live, TypeOK
    <3>3. CASE ReturnDone
      <4>1. OwnedBy(id[running]) = {running}
        BY <1>a, <2>1, <3>3, NilAssumption DEF ReturnDone, Registered, OwnedBy
      <4> QED
        BY <1>a, <2>1, <3>3, <4>1, NilAssumption DEF ReturnDone, Armed, Live, TypeOK
    <3> QED
      BY <1>4, <3>1, <3>2, <3>3 DEF Return
  <2> QED
    BY <2>1, <2>2, NilAssumption DEF AL!Silence, AL!Next
<1>5. CASE Close
  <2> DEFINE gone == UNION {OwnedBy(i) : i \in Ids}
  <2>1. /\ addr' = [u \in Timers |-> IF u \in gone THEN Nil ELSE addr[u]]
        /\ recycled' = recycled \union gone
        /\ UNCHANGED <<id, repeat, running>>
    BY <1>5 DEF Close
  <2>2. Armed' = Armed \ gone
    BY <2>1 DEF Armed, Live
  <2>3. Armed \ (gone \intersect Armed) = Armed \ gone
    OBVIOUS
  <2> QED
    BY <2>1, <2>2, <2>3 DEF AL!Cancel, AL!Next
<1>6. CASE UNCHANGED vars
  BY <1>6 DEF vars, AL!vars, Armed, Live
<1> QED
  BY <1>1, <1>2, <1>3, <1>4, <1>5, <1>6 DEF Next, Script, AL!Next

(***************************************************************************)
(* setTimeout, setInterval, the clear functions and the callbacks          *)
(* implement Alarms, whatever the ids of the timers.                       *)
(***************************************************************************)
THEOREM Implementation == Spec => ImplementsAlarms
<1>1. Init => AL!Init
  BY NilAssumption DEF Init, AL!Init, Armed, Live
<1> QED
  BY <1>1, InitIInv, NextIInv, StepImplements, PTL DEF Spec, AL!Spec, ImplementsAlarms
=============================================================================
