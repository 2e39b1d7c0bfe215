--------------------------- MODULE HttpTaskProofs ---------------------------
(***************************************************************************)
(* Proofs about HttpTask, for any set of tasks: whatever libevent answers  *)
(* and whatever scripts do in their callbacks.                             *)
(***************************************************************************)
EXTENDS HttpTask, SequenceTheorems, TLAPS

-----------------------------------------------------------------------------
(* Sequences.                                                              *)

(***************************************************************************)
(* Append adds its argument to the elements of a sequence.                 *)
(***************************************************************************)
LEMMA RangeAppend ==
  ASSUME NEW S, NEW s \in Seq(S), NEW t \in S
  PROVE  Range(Append(s, t)) = Range(s) \union {t}
<1>1. Len(Append(s, t)) = Len(s) + 1 /\ Len(s) \in Nat
  OBVIOUS
<1>2. \A i \in 1 .. Len(s) : Append(s, t)[i] = s[i]
  OBVIOUS
<1>3. Append(s, t)[Len(s) + 1] = t
  OBVIOUS
<1> QED
  BY <1>1, <1>2, <1>3 DEF Range

(***************************************************************************)
(* The elements of a sequence over S are in S; the empty one has none.     *)
(***************************************************************************)
LEMMA RangeType ==
  ASSUME NEW S
  PROVE  /\ Range(<<>>) = {}
         /\ \A s \in Seq(S) : Range(s) \subseteq S
  BY ElementOfSeq DEF Range

(***************************************************************************)
(* The inductive invariant, in named parts.                                *)
(*                                                                         *)
(* Places: no task calls a script twice at the same time.                  *)
(***************************************************************************)
Places == \A i, j \in DOMAIN stack : stack[i].task = stack[j].task => i = j

(***************************************************************************)
(* Counted: _retainCount is the number of references, of the script        *)
(* object, of _tasks and of open(), and a task is deleted when it is zero. *)
(***************************************************************************)
One(b) == IF b THEN 1 ELSE 0

Counted(t) ==
  /\ count[t] = One(t \in wrapped) + One(t \in tasks) + One("retained" \in fate[t])
  /\ t \in deleted <=> t \in made /\ count[t] = 0 /\ "thrown" \notin fate[t]

(***************************************************************************)
(* Nowhere: what has not been made, or was lost in send(), is nowhere.     *)
(***************************************************************************)
Everywhere == {"open", "load", "error"}

Nowhere(t) ==
  /\ t \notin made => fate[t] = {} /\ t \notin Range(heard)
  /\ t \notin made \/ "thrown" \in fate[t] =>
       /\ t \notin wrapped \union tasks \union wire
       /\ "retained" \notin fate[t]
       /\ ~Inside(t, Everywhere)

(***************************************************************************)
(* Known: _tasks holds the tasks with a request; each of them is on its    *)
(* way, was never sent, or is calling a script.                            *)
(***************************************************************************)
Known(t) ==
  /\ t \in req <=> t \in tasks
  /\ t \in tasks => http
  /\ t \in wire =>
       /\ t \in tasks
       /\ "retained" \in fate[t] /\ "cancelled" \notin fate[t]
       /\ ~Inside(t, Everywhere)
       /\ t \notin Range(heard)
  /\ t \in tasks \ wire => "unsent" \in fate[t] \/ Inside(t, Everywhere) \/ crashed

(***************************************************************************)
(* Retained: open's reference is there while libevent may call back, and   *)
(* stays when it never will.                                               *)
(***************************************************************************)
Retained(t) ==
  /\ InCallback(t) => "retained" \in fate[t]
  /\ Inside(t, {"open"}) => t \in tasks \intersect wrapped /\ "retained" \notin fate[t]
  /\ "retained" \in fate[t] =>
       \/ t \in wire \/ InCallback(t) \/ crashed
       \/ "unsent" \in fate[t] /\ t \in tasks
       \/ fate[t] \intersect {"cancelled", "lost"} # {}

(***************************************************************************)
(* Faults: the error callback runs for requests that failed.               *)
(***************************************************************************)
Faults(t) ==
  /\ Inside(t, {"error"}) => "failed" \in fate[t]
  /\ "faulty" \in fate[t] => fate[t] \intersect {"failed", "unsent", "reentered"} # {}

TaskOK(t) == Counted(t) /\ Nowhere(t) /\ Known(t) /\ Retained(t) /\ Faults(t)

IInv == TypeOK /\ Places /\ \A t \in Tasks : TaskOK(t)

-----------------------------------------------------------------------------
(***************************************************************************)
(* The calls in progress, when a script is called and when it returns.     *)
(***************************************************************************)
OneEach(s) == \A i, j \in DOMAIN s : s[i].task = s[j].task => i = j

LEMMA EmptyStack ==
  ASSUME NEW t, NEW where
  PROVE  ~CalledFrom(<<>>, t, where) /\ OneEach(<<>>)
  BY DEF CalledFrom, OneEach

LEMMA FirstCall ==
  ASSUME NEW f \in Frame
  PROVE  /\ <<f>> \in Seq(Frame) /\ OneEach(<<f>>)
         /\ \A t, where : CalledFrom(<<f>>, t, where) <=> t = f.task /\ f.at \in where
<1>1. DOMAIN <<f>> = 1 .. 1 /\ <<f>>[1] = f
  OBVIOUS
<1> QED
  BY <1>1 DEF CalledFrom, OneEach

LEMMA NextCall ==
  ASSUME NEW s \in Seq(Frame), NEW f \in Frame
  PROVE  /\ Append(s, f) \in Seq(Frame)
         /\ \A t, where : CalledFrom(Append(s, f), t, where)
                            <=> CalledFrom(s, t, where) \/ (t = f.task /\ f.at \in where)
         /\ OneEach(s) /\ ~CalledFrom(s, f.task, Everywhere) => OneEach(Append(s, f))
<1>1. /\ Len(s) \in Nat /\ DOMAIN s = 1 .. Len(s)
      /\ DOMAIN Append(s, f) = 1 .. Len(s) + 1
      /\ \A i \in 1 .. Len(s) : Append(s, f)[i] = s[i]
      /\ Append(s, f)[Len(s) + 1] = f
      /\ Append(s, f) \in Seq(Frame)
  OBVIOUS
<1>2. \A i \in 1 .. Len(s) : s[i] \in Frame
  BY <1>1, ElementOfSeq
<1>3. ASSUME NEW t, NEW where
      PROVE  CalledFrom(Append(s, f), t, where)
               <=> CalledFrom(s, t, where) \/ (t = f.task /\ f.at \in where)
  <2>1. \A i \in 1 .. Len(s) + 1 : i \in 1 .. Len(s) \/ i = Len(s) + 1
    BY <1>1
  <2>2. Len(s) + 1 \in 1 .. Len(s) + 1 /\ 1 .. Len(s) \subseteq 1 .. Len(s) + 1
    BY <1>1
  <2> QED
    BY <1>1, <2>1, <2>2 DEF CalledFrom
<1>4. ASSUME OneEach(s), ~CalledFrom(s, f.task, Everywhere)
      PROVE  OneEach(Append(s, f))
  <2>1. \A i \in 1 .. Len(s) : s[i].task # f.task
    BY <1>1, <1>2, <1>4 DEF CalledFrom, Frame, Everywhere
  <2>2. \A i \in 1 .. Len(s) + 1 : i \in 1 .. Len(s) \/ i = Len(s) + 1
    BY <1>1
  <2> QED
    BY <1>1, <1>4, <2>1, <2>2 DEF OneEach
<1> QED
  BY <1>1, <1>3, <1>4

LEMMA LastReturns ==
  ASSUME NEW s \in Seq(Frame), s # <<>>, OneEach(s)
  PROVE  /\ Last(s) \in Frame /\ Front(s) \in Seq(Frame) /\ OneEach(Front(s))
         /\ CalledFrom(s, Last(s).task, {Last(s).at})
         /\ \A t, where : CalledFrom(Front(s), t, where)
                            <=> CalledFrom(s, t, where) /\ t # Last(s).task
<1>1. Len(s) \in Nat \ {0} /\ DOMAIN s = 1 .. Len(s)
  BY EmptySeq
<1>2. /\ DOMAIN Front(s) = 1 .. Len(s) - 1
      /\ \A i \in 1 .. Len(s) - 1 : Front(s)[i] = s[i]
      /\ Front(s) \in Seq(Frame)
  <2>1. 1 .. Len(s) - 1 \subseteq 1 .. Len(s)
    BY <1>1
  <2>2. \A i \in 1 .. Len(s) - 1 : s[i] \in Frame
    BY <1>1, <2>1, ElementOfSeq
  <2> QED
    BY <1>1, <2>2 DEF Front
<1>3. Last(s) = s[Len(s)] /\ Last(s) \in Frame
  BY <1>1, ElementOfSeq DEF Last
<1>4. \A n \in Nat \ {0} :
        /\ \A i \in 1 .. n : i = n \/ i \in 1 .. n - 1
        /\ 1 .. n - 1 \subseteq 1 .. n /\ n \in 1 .. n /\ n \notin 1 .. n - 1
  BY SMTT(30)
<1>5. /\ \A i \in 1 .. Len(s) : i = Len(s) \/ i \in 1 .. Len(s) - 1
      /\ 1 .. Len(s) - 1 \subseteq 1 .. Len(s) /\ Len(s) \in 1 .. Len(s)
      /\ Len(s) \notin 1 .. Len(s) - 1
  BY <1>1, <1>4, ZenonT(40)
<1>6. \A i \in 1 .. Len(s) : s[i].task = Last(s).task => i = Len(s)
  <2> SUFFICES ASSUME NEW i \in 1 .. Len(s), s[i].task = s[Len(s)].task
               PROVE  i = Len(s)
    BY <1>3, SMTT(30)
  <2> QED
    BY <1>1, <1>5 DEF OneEach
<1>7. OneEach(Front(s))
  BY <1>1, <1>2, <1>5, ZenonT(40) DEF OneEach
<1>8. CalledFrom(s, Last(s).task, {Last(s).at})
  BY <1>1, <1>3, <1>5 DEF CalledFrom
<1>9. ASSUME NEW t, NEW where
      PROVE  CalledFrom(Front(s), t, where) <=> CalledFrom(s, t, where) /\ t # Last(s).task
  <2>1. ASSUME NEW i \in 1 .. Len(s) - 1, Front(s)[i].task = t, Front(s)[i].at \in where
        PROVE  CalledFrom(s, t, where) /\ t # Last(s).task
    BY <1>1, <1>2, <1>5, <1>6, <2>1 DEF CalledFrom
  <2>2. ASSUME NEW i \in 1 .. Len(s), s[i].task = t, s[i].at \in where, t # Last(s).task
        PROVE  CalledFrom(Front(s), t, where)
    <3>1. i \in 1 .. Len(s) - 1
      BY <1>3, <1>5, <2>2
    <3> QED
      BY <1>2, <2>2, <3>1 DEF CalledFrom
  <2> QED
    BY <1>1, <1>2, <2>1, <2>2, SMTT(30) DEF CalledFrom
<1> QED
  BY <1>2, <1>3, <1>7, <1>8, <1>9

(***************************************************************************)
(* "everywhere" and "in a callback" are made of the single places.         *)
(***************************************************************************)
LEMMA PlacesOf ==
  ASSUME NEW s, NEW t
  PROVE  /\ CalledFrom(s, t, Everywhere) <=>
              CalledFrom(s, t, {"open"}) \/ CalledFrom(s, t, {"load"}) \/ CalledFrom(s, t, {"error"})
         /\ CalledFrom(s, t, {"load", "error"}) <=>
              CalledFrom(s, t, {"load"}) \/ CalledFrom(s, t, {"error"})
  BY DEF CalledFrom, Everywhere

LEMMA InitIInv == Init => IInv
<1> SUFFICES ASSUME Init PROVE IInv
  OBVIOUS
<1>1. TypeOK
  <2>1. fate \in [Tasks -> SUBSET Fates]
    BY DEF Init
  <2>2. stack \in Seq(Frame) /\ heard \in Seq(Tasks)
    BY DEF Init
  <2> QED
    BY <2>1, <2>2 DEF Init, TypeOK
<1>2. Places
  BY DEF Init, Places
<1>3. ASSUME NEW t \in Tasks
      PROVE  TaskOK(t)
  <2>1. \A where : ~Inside(t, where)
    BY EmptyStack DEF Init, Inside
  <2>2. Range(heard) = {}
    BY RangeType DEF Init
  <2> QED
    BY <2>1, <2>2 DEF Init, TaskOK, Counted, Nowhere, Known, Retained, Faults, One, InCallback
<1> QED
  BY <1>1, <1>2, <1>3 DEF IInv

-----------------------------------------------------------------------------
(***************************************************************************)
(* Each action preserves the inductive invariant.  The tasks other than    *)
(* the one that an action is about stay as they are.                       *)
(***************************************************************************)
LEMMA SameTask ==
  ASSUME NEW u \in Tasks, TaskOK(u),
         \A where : Inside(u, where)' <=> Inside(u, where),
         http' = http,
         u \in tasks' <=> u \in tasks, u \in made' <=> u \in made,
         u \in wrapped' <=> u \in wrapped, u \in req' <=> u \in req,
         u \in wire' <=> u \in wire, u \in deleted' <=> u \in deleted,
         count'[u] = count[u], fate'[u] = fate[u],
         u \in Range(heard') <=> u \in Range(heard),
         ~crashed
  PROVE  TaskOK(u)'
  BY DEF TaskOK, Counted, Nowhere, Known, Retained, Faults, One, InCallback

LEMMA SendThrowsIInv ==
  ASSUME IInv, ~crashed, NEW t \in Tasks, SendThrows(t)
  PROVE  IInv'
<1>a. TypeOK /\ Places /\ \A u \in Tasks : TaskOK(u)
  BY DEF IInv
<1> USE DEF SendThrows, New, refVars, Mark
<1>1. TypeOK'
  BY <1>a DEF TypeOK, Fates
<1>2. Places'
  BY <1>a DEF Places
<1>3. ASSUME NEW u \in Tasks
      PROVE  TaskOK(u)'
  <2>1. \A where : Inside(u, where)' <=> Inside(u, where)
    BY DEF Inside
  <2>2. fate' \in [Tasks -> SUBSET Fates] /\ u # t => fate'[u] = fate[u]
    BY <1>1, <1>a DEF TypeOK
  <2>3. CASE u # t
    BY <1>a, <2>1, <2>2, <2>3, SameTask
  <2>4. CASE u = t
    <3>1. fate'[t] = {"thrown"} /\ fate[t] = {}
      BY <1>a DEF TaskOK, Nowhere, TypeOK
    <3> QED
      BY <1>a, <2>1, <2>4, <3>1
      DEF TypeOK, TaskOK, Counted, Nowhere, Known, Retained, Faults, One, InCallback, Everywhere
  <2> QED
    BY <2>3, <2>4
<1> QED
  BY <1>1, <1>2, <1>3 DEF IInv

LEMMA SendIInv ==
  ASSUME IInv, ~crashed, NEW t \in Tasks, Send(t)
  PROVE  IInv'
<1>a. TypeOK /\ Places /\ \A u \in Tasks : TaskOK(u)
  BY DEF IInv
<1> USE DEF Send, New, Mark, Refs
<1>1. TypeOK'
  BY <1>a DEF TypeOK, Fates
<1>2. Places'
  BY <1>a DEF Places
<1>3. ASSUME NEW u \in Tasks
      PROVE  TaskOK(u)'
  <2>1. \A where : Inside(u, where)' <=> Inside(u, where)
    BY DEF Inside
  <2>2. u # t => fate'[u] = fate[u] /\ count'[u] = count[u]
    BY <1>a DEF TypeOK
  <2>3. CASE u # t
    BY <1>a, <2>1, <2>2, <2>3, SameTask
  <2>4. CASE u = t
    <3>1. /\ fate[t] = {} /\ t \notin made /\ t \notin Range(heard) /\ t \notin deleted
          /\ ~Inside(t, Everywhere)
      BY <1>a DEF TaskOK, Nowhere, Counted
    <3>2. count'[t] = 3
      BY <1>a DEF TypeOK
    <3>3. \/ fate'[t] = {"retained"} /\ t \in wire'
          \/ fate'[t] = {"retained", "unsent"} /\ wire' = wire
      BY <1>a, <3>1 DEF TypeOK
    <3>4. t \notin wire
      BY <1>a, <3>1 DEF TaskOK, Nowhere
    <3>5. ~Inside(t, {"open"})' /\ ~InCallback(t)' /\ ~Inside(t, {"error"})'
          /\ ~Inside(t, Everywhere)'
      BY <3>1, PlacesOf DEF Inside, InCallback
    <3>6. /\ t \in made' /\ t \in tasks' /\ t \in wrapped' /\ t \in req' /\ http'
          /\ t \notin deleted' /\ t \notin Range(heard') /\ "retained" \in fate'[t]
          /\ fate'[t] \intersect {"thrown", "cancelled", "faulty"} = {}
      BY <3>1, <3>3
    <3>7. Counted(t)' /\ Nowhere(t)'
      BY <3>2, <3>5, <3>6 DEF Counted, Nowhere, One
    <3>8. Known(t)' /\ Retained(t)' /\ Faults(t)'
      BY <3>3, <3>4, <3>5, <3>6 DEF Known, Retained, Faults
    <3> QED
      BY <2>4, <3>7, <3>8 DEF TaskOK
  <2> QED
    BY <2>3, <2>4
<1> QED
  BY <1>1, <1>2, <1>3 DEF IInv

LEMMA SendBadUrlIInv ==
  ASSUME IInv, ~crashed, NEW t \in Tasks, SendBadUrl(t)
  PROVE  IInv'
<1>a. TypeOK /\ Places /\ \A u \in Tasks : TaskOK(u)
  BY DEF IInv
<1> DEFINE f == [task |-> t, at |-> "open"]
<1> USE DEF SendBadUrl, New
<1>b. f \in Frame /\ f.task = t /\ f.at = "open"
  BY DEF Frame
<1>c. /\ fate[t] = {} /\ t \notin made /\ t \notin Range(heard) /\ t \notin deleted
      /\ t \notin wire /\ ~Inside(t, Everywhere)
  BY <1>a DEF TaskOK, Nowhere, Counted
<1>d. stack \in Seq(Frame) /\ stack' = Append(stack, f) /\ OneEach(stack)
  BY <1>a DEF TypeOK, Places, OneEach
<1>e. /\ stack' \in Seq(Frame) /\ OneEach(stack')
      /\ \A u, where : Inside(u, where)' <=> Inside(u, where) \/ (u = t /\ "open" \in where)
  BY <1>b, <1>c, <1>d, NextCall DEF Inside
<1>f. heard' \in Seq(Tasks) /\ Range(heard') = Range(heard) \union {t}
  BY <1>a, RangeAppend DEF TypeOK
<1>1. TypeOK'
  BY <1>a, <1>e, <1>f DEF TypeOK
<1>2. Places'
  BY <1>e DEF Places, OneEach
<1>3. ASSUME NEW u \in Tasks
      PROVE  TaskOK(u)'
  <2>1. CASE u # t
    <3>1. \A where : Inside(u, where)' <=> Inside(u, where)
      BY <1>e, <2>1
    <3>2. count'[u] = count[u]
      BY <1>a, <2>1 DEF TypeOK
    <3> QED
      BY <1>a, <1>f, <2>1, <3>1, <3>2, SameTask
  <2>2. CASE u = t
    <3>1. count'[t] = 2 /\ fate'[t] = {}
      BY <1>a, <1>c DEF TypeOK
    <3>2. Inside(t, {"open"})' /\ Inside(t, Everywhere)'
      BY <1>e DEF Everywhere
    <3>3. ~Inside(t, {"load", "error"}) /\ ~Inside(t, {"error"})
      BY <1>c, PlacesOf DEF Inside
    <3>4. ~InCallback(t)' /\ ~Inside(t, {"error"})'
      BY <1>e, <3>3 DEF InCallback
    <3>5. /\ t \in made' /\ t \in tasks' /\ t \in wrapped' /\ t \in req' /\ http'
          /\ t \notin deleted' /\ t \notin wire'
      BY <1>c
    <3> QED
      BY <2>2, <3>1, <3>2, <3>4, <3>5 DEF TaskOK, Counted, Nowhere, Known, Retained, Faults, One
  <2> QED
    BY <2>1, <2>2
<1> QED
  BY <1>1, <1>2, <1>3 DEF IInv

(***************************************************************************)
(* libevent calls back: the task leaves the wire and calls the script.     *)
(***************************************************************************)
LEMMA EnterFacts ==
  ASSUME IInv, ~crashed, NEW t \in Tasks, NEW at \in {"load", "error"}, Enter(t, at)
  PROVE  /\ stack' \in Seq(Frame) /\ Places'
         /\ heard' \in Seq(Tasks) /\ Range(heard') = Range(heard) \union {t}
         /\ \A u, where : Inside(u, where)' <=> (u = t /\ at \in where)
         /\ \A u, where : ~Inside(u, where)
<1>a. TypeOK
  BY DEF IInv
<1> DEFINE f == [task |-> t, at |-> at]
<1>1. f \in Frame /\ f.task = t /\ f.at = at /\ stack' = <<f>> /\ stack = <<>>
  BY DEF Frame, Enter
<1>2. heard' \in Seq(Tasks) /\ Range(heard') = Range(heard) \union {t}
  BY <1>a, RangeAppend DEF TypeOK, Enter
<1>3. /\ stack' \in Seq(Frame) /\ OneEach(stack')
      /\ \A u, where : Inside(u, where)' <=> (u = t /\ at \in where)
  BY <1>1, FirstCall DEF Inside
<1>4. \A u, where : ~Inside(u, where)
  BY <1>1, EmptyStack DEF Inside
<1> QED
  BY <1>2, <1>3, <1>4 DEF Places, OneEach

LEMMA CompleteIInv ==
  ASSUME IInv, ~crashed, NEW t \in Tasks, Complete(t) \/ Fails(t) \/ Eof(t)
  PROVE  IInv'
<1>a. TypeOK /\ Places /\ \A u \in Tasks : TaskOK(u)
  BY DEF IInv
<1> USE DEF refVars
<1>b. /\ t \in wire /\ wire' = wire \ {t}
      /\ UNCHANGED <<http, tasks, made, wrapped, count, deleted, req>>
  BY DEF Complete, Fails, Eof, Enter
<1>c. /\ t \in tasks /\ t \in req /\ http /\ "retained" \in fate[t] /\ t \in made
      /\ "thrown" \notin fate[t]
  BY <1>a, <1>b DEF TaskOK, Known, Nowhere
<1>d. \E more \in {{}, {"failed"}, {"failed", "faulty"}} :
        fate' = [u \in Tasks |-> IF u = t THEN fate[u] \union more ELSE fate[u]]
  <2>1. CASE Complete(t)
    <3>1. fate' = [u \in Tasks |-> IF u = t THEN fate[u] \union {} ELSE fate[u]]
      BY <1>a, <2>1 DEF Complete, TypeOK
    <3> QED
      BY <3>1
  <2>2. CASE Fails(t)
    <3>1. fate' = [u \in Tasks |-> IF u = t THEN fate[u] \union {"failed"} ELSE fate[u]]
      BY <2>2 DEF Fails, Mark
    <3> QED
      BY <3>1
  <2>3. CASE Eof(t)
    <3>1. fate' = [u \in Tasks |-> IF u = t THEN fate[u] \union {"failed", "faulty"} ELSE fate[u]]
      BY <2>3 DEF Eof, Mark
    <3> QED
      BY <3>1
  <2> QED
    BY <2>1, <2>2, <2>3
<1>e. PICK more \in {{}, {"failed"}, {"failed", "faulty"}} :
        fate' = [u \in Tasks |-> IF u = t THEN fate[u] \union more ELSE fate[u]]
  BY <1>d
<1>f. /\ fate' \in [Tasks -> SUBSET Fates] /\ fate'[t] = fate[t] \union more
      /\ \A u \in Tasks \ {t} : fate'[u] = fate[u]
  BY <1>a, <1>e DEF TypeOK, Fates
<1>1. ASSUME NEW at \in {"load", "error"}, Enter(t, at), UNCHANGED crashed,
             at = "error" => "failed" \in fate'[t]
      PROVE  IInv'
  <2>a. /\ stack' \in Seq(Frame) /\ Places'
        /\ heard' \in Seq(Tasks) /\ Range(heard') = Range(heard) \union {t}
        /\ \A u, where : Inside(u, where)' <=> (u = t /\ at \in where)
        /\ \A u, where : ~Inside(u, where)
    BY <1>1, EnterFacts
  <2>1. TypeOK'
    BY <1>a, <1>b, <1>f, <1>1, <2>a DEF TypeOK
  <2>2. ASSUME NEW u \in Tasks \ {t}
        PROVE  TaskOK(u)'
    BY <1>a, <1>b, <1>f, <2>a, SameTask
  <2>3. TaskOK(t)'
    <3>1. InCallback(t)' /\ ~Inside(t, {"open"})' /\ (Inside(t, {"error"})' => "failed" \in fate'[t])
          /\ Inside(t, Everywhere)'
      BY <1>f, <1>1, <2>a DEF InCallback, Everywhere
    <3>2. /\ count'[t] = count[t] /\ (t \in wrapped' <=> t \in wrapped)
          /\ "retained" \in fate'[t] /\ "thrown" \notin fate'[t]
          /\ t \notin wire' /\ t \in tasks' /\ t \in req' /\ http' /\ t \in made'
          /\ (t \in deleted' <=> t \in deleted) /\ t \in tasks /\ t \in made
          /\ "retained" \in fate[t] /\ "thrown" \notin fate[t]
      BY <1>b, <1>c, <1>f
    <3>3. Counted(t)'
      BY <1>a, <1>c, <3>2 DEF TaskOK, Counted, One
    <3>4. "faulty" \in fate'[t] => fate'[t] \intersect {"failed", "unsent", "reentered"} # {}
      BY <1>a, <1>f DEF TaskOK, Faults
    <3> QED
      BY <3>1, <3>2, <3>3, <3>4 DEF TaskOK, Nowhere, Known, Retained, Faults
  <2> QED
    BY <2>1, <2>2, <2>3, <2>a DEF IInv
<1>2. CASE Complete(t)
  BY <1>1, <1>2 DEF Complete
<1>3. CASE Fails(t)
  <2>1. "failed" \in fate'[t]
    BY <1>3, <1>f, <1>a DEF Fails, Mark, TypeOK
  <2> QED
    BY <1>1, <1>3, <2>1 DEF Fails
<1>4. CASE Eof(t)
  <2>1. CASE Enter(t, "load") /\ crashed' = FALSE
    <3>1. UNCHANGED crashed
      BY <1>a, <2>1 DEF TypeOK
    <3> QED
      BY <1>1, <2>1, <3>1
  <2>2. CASE crashed' = TRUE /\ UNCHANGED <<stack, heard>>
    <3>1. TypeOK'
      BY <1>a, <1>b, <1>f, <2>2 DEF TypeOK
    <3>2. Places'
      BY <1>a, <2>2 DEF Places
    <3>3. ASSUME NEW u \in Tasks
          PROVE  TaskOK(u)'
      <4>1. \A where : Inside(u, where)' <=> Inside(u, where)
        BY <2>2 DEF Inside
      <4>2. u \in wire' => u \in wire
        BY <1>b
      <4>3. CASE u # t
        BY <1>a, <1>b, <1>f, <2>2, <4>1, <4>3, SameTask
      <4>4. CASE u = t
        BY <1>a, <1>b, <1>c, <1>f, <2>2, <4>1, <4>4
        DEF TaskOK, Counted, Nowhere, Known, Retained, Faults, One, InCallback
      <4> QED
        BY <4>3, <4>4
    <3> QED
      BY <3>1, <3>2, <3>3 DEF IInv
  <2> QED
    BY <1>4, <2>1, <2>2 DEF Eof
<1> QED
  BY <1>2, <1>3, <1>4

LEMMA ReturnIInv ==
  ASSUME IInv, ~crashed, Return
  PROVE  IInv'
<1>a. TypeOK /\ Places /\ (\A u \in Tasks : TaskOK(u)) /\ OneEach(stack)
  BY DEF IInv, Places, OneEach
<1>p. /\ stack # <<>> /\ stack \in Seq(Frame) /\ stack' = Front(stack)
      /\ Last(stack) \in Frame
  BY <1>a, LastReturns DEF Return, TypeOK
<1>d. PICK t \in Tasks, at \in Everywhere : t = Last(stack).task /\ at = Last(stack).at
  BY <1>p DEF Frame, Everywhere
<1>b. /\ tasks' = tasks \ {t} /\ req' = req \ {t}
      /\ UNCHANGED <<http, made, wrapped, wire, heard>>
  BY <1>d DEF Return, Forgotten
<1>c. /\ stack' \in Seq(Frame) /\ OneEach(stack')
      /\ Inside(t, {at})
      /\ \A u, where : Inside(u, where)' <=> Inside(u, where) /\ u # t
  BY <1>a, <1>d, <1>p, LastReturns DEF Inside
<1>e. /\ Inside(t, Everywhere) /\ t \in made /\ "thrown" \notin fate[t] /\ t \notin wire
      /\ http \in BOOLEAN /\ (at \in {"load", "error"} => InCallback(t))
  <2>1. Inside(t, Everywhere) /\ (at \in {"load", "error"} => InCallback(t))
    BY <1>c, <1>d, PlacesOf DEF Inside, InCallback, Everywhere
  <2> QED
    BY <1>a, <1>d, <2>1 DEF TaskOK, Nowhere, Known, TypeOK
<1>f. /\ at = "open" => t \in wrapped \intersect tasks /\ "retained" \notin fate[t]
      /\ at # "open" => "retained" \in fate[t]
      /\ at = "error" => "failed" \in fate[t]
  BY <1>a, <1>c, <1>d, <1>e DEF TaskOK, Retained, Faults, Everywhere
<1>g. /\ count[t] \in Nat /\ t \notin deleted
      /\ count[t] = One(t \in wrapped) + One(t \in tasks) + One("retained" \in fate[t])
  BY <1>a, <1>d, <1>f DEF TaskOK, Counted, TypeOK, One
<1> DEFINE n == InMap(t) + (IF at = "load" THEN 1 ELSE 0)
<1>h. ReleaseAll({t}, n)
  BY <1>d DEF Return, InMap, Everywhere
<1>i. /\ count' \in [Tasks -> Nat] /\ deleted' \in SUBSET Tasks
      /\ count'[t] = count[t] - n /\ (t \in deleted' <=> count'[t] = 0)
      /\ \A u \in Tasks \ {t} : count'[u] = count[u] /\ (u \in deleted' <=> u \in deleted)
  <2>1. n \in Nat /\ n <= count[t]
    BY <1>f, <1>g DEF InMap, One
  <2>2. \A x, y \in Nat : y <= x => x - y \in Nat /\ (x <= y <=> x - y = 0)
    OBVIOUS
  <2>3. count[t] - n \in Nat /\ (count[t] <= n <=> count[t] - n = 0)
    BY <1>g, <2>1, <2>2
  <2> QED
    BY <1>a, <1>d, <1>g, <1>h, <2>3 DEF ReleaseAll, TypeOK
<1>j. /\ fate' \in [Tasks -> SUBSET Fates] /\ crashed' \in BOOLEAN
      /\ \A u \in Tasks \ {t} : fate'[u] = fate[u]
      /\ \/ at = "open" /\ fate'[t] = fate[t] /\ crashed' = FALSE
         \/ at = "load" /\ fate'[t] = fate[t] \ {"retained"} /\ crashed' = FALSE
         \/ at = "error" /\ fate'[t] = fate[t] \union {"faulty"} /\ crashed' = TRUE
  <2>1. CASE at = "open"
    BY <1>a, <1>d, <2>1 DEF Return, TypeOK
  <2>2. CASE at = "load"
    <3>1. fate' = [fate EXCEPT ![t] = @ \ {"retained"}] /\ crashed' = crashed
      BY <1>d, <2>2 DEF Return
    <3> QED
      BY <1>a, <2>2, <3>1 DEF TypeOK
  <2>3. CASE at = "error"
    <3>1. fate' = [u \in Tasks |-> IF u \in {t} THEN fate[u] \union {"faulty"} ELSE fate[u]]
          /\ crashed' = TRUE
      BY <1>d, <2>3 DEF Return, Mark
    <3>2. "faulty" \in Fates
      BY DEF Fates
    <3> QED
      BY <1>a, <2>3, <3>1, <3>2 DEF TypeOK
  <2> QED
    BY <2>1, <2>2, <2>3 DEF Everywhere
<1>1. TypeOK'
  BY <1>a, <1>b, <1>c, <1>i, <1>j DEF TypeOK
<1>2. Places'
  BY <1>c DEF Places, OneEach
<1>3. ASSUME NEW u \in Tasks
      PROVE  TaskOK(u)'
  <2>1. CASE u # t
    BY <1>a, <1>b, <1>c, <1>i, <1>j, <2>1, SameTask
  <2>2. CASE u = t
    <3>1. \A where : ~Inside(t, where)'
      BY <1>c
    <3>2. /\ t \in made' /\ t \notin tasks' /\ t \notin req' /\ t \notin wire'
          /\ "thrown" \notin fate'[t] /\ (t \in wrapped' <=> t \in wrapped)
      BY <1>b, <1>e, <1>j
    <3>3. Counted(t)'
      BY <1>d, <1>f, <1>g, <1>i, <1>j, <3>2 DEF Counted, One, InMap, Everywhere
    <3>4. Nowhere(t)' /\ Known(t)'
      BY <3>1, <3>2 DEF Nowhere, Known
    <3>5. Retained(t)' /\ Faults(t)'
      BY <1>a, <1>d, <1>f, <1>j, <3>1 DEF TaskOK, Retained, Faults, InCallback
    <3> QED
      BY <2>2, <3>3, <3>4, <3>5 DEF TaskOK
  <2> QED
    BY <2>1, <2>2
<1> QED
  BY <1>1, <1>2, <1>3 DEF IInv

(***************************************************************************)
(* The script cancels a task or loses it.                                  *)
(***************************************************************************)
LEMMA CancelIInv ==
  ASSUME IInv, ~crashed, NEW t \in Tasks, Cancel(t)
  PROVE  IInv'
<1>a. TypeOK /\ Places /\ \A u \in Tasks : TaskOK(u)
  BY DEF IInv
<1>b. /\ t \in wrapped /\ t \in req /\ t \in tasks /\ ~Inside(t, {"open"})
      /\ tasks' = tasks \ {t} /\ req' = req \ {t} /\ wire' = wire \ {t}
      /\ UNCHANGED <<http, made, wrapped, stack, heard>>
  BY <1>a DEF Cancel, Opening, Unwire, Forgotten, TaskOK, Known
<1>c. \A u, where : Inside(u, where)' <=> Inside(u, where)
  BY <1>b DEF Inside
<1>d. t \in made /\ "thrown" \notin fate[t]
  BY <1>a, <1>b DEF TaskOK, Nowhere
<1>e. /\ count[t] \in Nat /\ count[t] = 2 + One("retained" \in fate[t]) /\ t \notin deleted
  BY <1>a, <1>b DEF TaskOK, Counted, TypeOK, One
<1>f. /\ count' \in [Tasks -> Nat] /\ deleted' = deleted /\ count'[t] = count[t] - 1
      /\ \A u \in Tasks \ {t} : count'[u] = count[u]
  <2>1. ReleaseAll({t}, 1)
    BY <1>b DEF Cancel, InMap
  <2>2. count[t] - 1 \in Nat /\ ~(count[t] <= 1)
    BY <1>e DEF One
  <2> QED
    BY <1>a, <2>1, <2>2 DEF ReleaseAll, TypeOK
<1>g. t \in Misused({t}) => InCallback(t) \/ "unsent" \in fate[t]
  BY <1>a, <1>b, PlacesOf DEF Misused, TaskOK, Known, Inside, InCallback
<1>h. /\ fate' \in [Tasks -> SUBSET Fates]
      /\ \A u \in Tasks \ {t} : fate'[u] = fate[u]
      /\ "cancelled" \in fate'[t] /\ fate[t] \subseteq fate'[t]
      /\ fate'[t] \subseteq fate[t] \union {"cancelled", "reentered", "faulty"}
      /\ "faulty" \in fate'[t] \ fate[t] => "reentered" \in fate'[t] \/ "unsent" \in fate[t]
  <2>1. Misused({t}) = {} \/ Misused({t}) = {t}
    BY DEF Misused
  <2> DEFINE more == {"cancelled"} \union (IF InCallback(t) THEN {"reentered"} ELSE {})
                         \union (IF Misused({t}) # {} THEN {"faulty"} ELSE {})
  <2>2. fate' = [u \in Tasks |-> IF u \in {t} THEN fate[u] \union more ELSE fate[u]]
    BY DEF Cancel, Mark
  <2>3. /\ more \in SUBSET {"cancelled", "reentered", "faulty"} /\ "cancelled" \in more
        /\ "faulty" \in more => "reentered" \in more \/ "unsent" \in fate[t]
    BY <1>g, <2>1
  <2> HIDE DEF more
  <2>4. fate'[t] = fate[t] \union more /\ \A u \in Tasks \ {t} : fate'[u] = fate[u]
    BY <2>2
  <2>5. fate' \in [Tasks -> SUBSET Fates]
    BY <1>a, <2>2, <2>3 DEF TypeOK, Fates
  <2> QED
    BY <2>3, <2>4, <2>5
<1>1. TypeOK'
  <2>1. crashed' \in BOOLEAN
    BY DEF Cancel, Survive
  <2> QED
    BY <1>a, <1>b, <1>f, <1>h, <2>1 DEF TypeOK
<1>2. Places'
  BY <1>a, <1>b DEF Places
<1>3. ASSUME NEW u \in Tasks
      PROVE  TaskOK(u)'
  <2>1. CASE u # t
    BY <1>a, <1>b, <1>c, <1>f, <1>h, <2>1, SameTask
  <2>2. CASE u = t
    <3>1. Counted(t)'
      BY <1>b, <1>d, <1>e, <1>f, <1>h DEF Counted, One
    <3>2. Nowhere(t)' /\ Known(t)'
      BY <1>b, <1>d, <1>h DEF Nowhere, Known
    <3>3. Retained(t)'
      BY <1>a, <1>b, <1>c, <1>h DEF TaskOK, Retained, InCallback
    <3>4. Faults(t)'
      BY <1>a, <1>c, <1>h DEF TaskOK, Faults
    <3> QED
      BY <2>2, <3>1, <3>2, <3>3, <3>4 DEF TaskOK
  <2> QED
    BY <2>1, <2>2
<1> QED
  BY <1>1, <1>2, <1>3 DEF IInv

LEMMA CollectIInv ==
  ASSUME IInv, ~crashed, NEW t \in Tasks, Collect(t)
  PROVE  IInv'
<1>a. TypeOK /\ Places /\ \A u \in Tasks : TaskOK(u)
  BY DEF IInv
<1>b. /\ t \in wrapped /\ ~Inside(t, {"open"}) /\ wrapped' = wrapped \ {t}
      /\ UNCHANGED <<http, tasks, made, req, wire, stack, crashed, heard, fate>>
  BY DEF Collect, Opening
<1>c. \A u, where : Inside(u, where)' <=> Inside(u, where)
  BY <1>b DEF Inside
<1>d. t \in made /\ "thrown" \notin fate[t]
  BY <1>a, <1>b DEF TaskOK, Nowhere
<1>e. /\ count[t] = 1 + One(t \in tasks) + One("retained" \in fate[t]) /\ t \notin deleted
  BY <1>a, <1>b DEF TaskOK, Counted, TypeOK, One
<1>f. /\ count' \in [Tasks -> Nat] /\ deleted' \in SUBSET Tasks
      /\ count'[t] = count[t] - 1 /\ (t \in deleted' <=> count'[t] = 0)
      /\ \A u \in Tasks \ {t} : count'[u] = count[u] /\ (u \in deleted' <=> u \in deleted)
  <2>1. count[t] - 1 \in Nat /\ (count[t] <= 1 <=> count[t] - 1 = 0)
    BY <1>e DEF One
  <2> QED
    BY <1>a, <1>e, <2>1 DEF Collect, ReleaseAll, TypeOK
<1>1. TypeOK'
  BY <1>a, <1>b, <1>f DEF TypeOK
<1>2. Places'
  BY <1>a, <1>b DEF Places
<1>3. ASSUME NEW u \in Tasks
      PROVE  TaskOK(u)'
  <2>1. CASE u # t
    BY <1>a, <1>b, <1>c, <1>f, <2>1, SameTask
  <2>2. CASE u = t
    <3>1. Counted(t)'
      BY <1>b, <1>d, <1>e, <1>f DEF Counted, One
    <3>2. Nowhere(t)' /\ Known(t)' /\ Retained(t)' /\ Faults(t)'
      BY <1>a, <1>b, <1>c, <1>d DEF TaskOK, Nowhere, Known, Retained, Faults, InCallback
    <3> QED
      BY <2>2, <3>1, <3>2 DEF TaskOK
  <2> QED
    BY <2>1, <2>2
<1> QED
  BY <1>1, <1>2, <1>3 DEF IInv

(***************************************************************************)
(* ~Http, which no task's open() is waiting for.                           *)
(***************************************************************************)
LEMMA CollectHttpIInv ==
  ASSUME IInv, ~crashed, CollectHttp
  PROVE  IInv'
<1>a. TypeOK /\ Places /\ \A u \in Tasks : TaskOK(u)
  BY DEF IInv
<1>b. /\ http /\ http' = FALSE /\ tasks' = {} /\ req' = req \ tasks /\ wire' = wire \ tasks
      /\ \A u \in Tasks : ~Inside(u, {"open"})
      /\ UNCHANGED <<made, wrapped, stack, heard>>
  BY DEF CollectHttp, Opening, Unwire
<1>c. \A u, where : Inside(u, where)' <=> Inside(u, where)
  BY <1>b DEF Inside
<1>1. ASSUME NEW u \in Tasks
      PROVE  /\ count'[u] \in Nat /\ count'[u] = count[u] - One(u \in tasks)
             /\ (u \in deleted' <=> u \in deleted \/ (u \in tasks /\ count[u] = 1))
  <2>1. /\ count'[u] = IF u \in tasks THEN count[u] - 1 ELSE count[u]
        /\ deleted' = deleted \union {v \in tasks : count[v] <= 1}
    BY DEF CollectHttp, ReleaseAll
  <2>2. count[u] \in Nat /\ (u \in tasks => count[u] >= 1)
    <3>1. count[u] \in Nat /\ count[u] = One(u \in wrapped) + One(u \in tasks)
                                          + One("retained" \in fate[u])
      BY <1>a DEF TypeOK, TaskOK, Counted
    <3> QED
      BY <3>1 DEF One
  <2> QED
    BY <2>1, <2>2 DEF One
<1>2. ASSUME NEW u \in Tasks
      PROVE  /\ fate'[u] \in SUBSET Fates /\ fate[u] \subseteq fate'[u]
             /\ fate'[u] \subseteq fate[u] \union {"lost", "reentered", "faulty"}
             /\ (u \in tasks => "lost" \in fate'[u])
             /\ (u \notin tasks => fate'[u] = fate[u])
             /\ ("faulty" \in fate'[u] \ fate[u] =>
                   "reentered" \in fate'[u] \/ "unsent" \in fate[u])
  <2>1. fate'[u] = fate[u] \union (IF u \in tasks THEN {"lost"} ELSE {})
                     \union (IF u \in tasks /\ InCallback(u) THEN {"reentered"} ELSE {})
                     \union (IF u \in Misused(tasks) THEN {"faulty"} ELSE {})
    BY DEF CollectHttp
  <2>2. u \in Misused(tasks) => u \in tasks /\ (InCallback(u) \/ "unsent" \in fate[u])
    BY <1>a, <1>b, PlacesOf DEF Misused, TaskOK, Known, Inside, InCallback, IInv
  <2>3. fate[u] \in SUBSET Fates
    BY <1>a DEF TypeOK
  <2> QED
    BY <2>1, <2>2, <2>3 DEF Fates
<1>3. TypeOK'
  <2>1. crashed' \in BOOLEAN
    BY DEF CollectHttp, Survive
  <2>2. fate' = [u \in Tasks |-> fate'[u]] /\ count' = [u \in Tasks |-> count'[u]]
    BY DEF CollectHttp, ReleaseAll
  <2>3. fate' \in [Tasks -> SUBSET Fates] /\ count' \in [Tasks -> Nat]
    BY <1>1, <1>2, <2>2
  <2>4. deleted' \in SUBSET Tasks
    BY <1>a DEF CollectHttp, ReleaseAll, TypeOK
  <2> QED
    BY <1>a, <1>b, <2>1, <2>3, <2>4 DEF TypeOK
<1>4. Places'
  BY <1>a, <1>b DEF Places
<1>5. ASSUME NEW u \in Tasks
      PROVE  TaskOK(u)'
  <2>1. u \notin tasks' /\ u \notin wire' /\ u \notin req'
    BY <1>a, <1>b DEF TaskOK, Known
  <2>2. Counted(u)'
    <3>1. u \in tasks => u \in made /\ "thrown" \notin fate[u] /\ u \notin deleted
      BY <1>a DEF TaskOK, Nowhere, Counted, One, TypeOK
    <3>2. /\ count[u] = One(u \in wrapped) + One(u \in tasks) + One("retained" \in fate[u])
          /\ (u \in deleted <=> u \in made /\ count[u] = 0 /\ "thrown" \notin fate[u])
          /\ count[u] \in Nat
      BY <1>a DEF TaskOK, Counted, TypeOK
    <3>3. /\ count'[u] = One(u \in wrapped) + One("retained" \in fate[u])
          /\ (u \in wrapped' <=> u \in wrapped) /\ (u \in made' <=> u \in made)
          /\ ("retained" \in fate'[u] <=> "retained" \in fate[u])
          /\ ("thrown" \in fate'[u] <=> "thrown" \in fate[u])
      BY <1>b, <1>1, <1>2, <3>2 DEF One
    <3>4. u \in deleted' <=> u \in made /\ count'[u] = 0 /\ "thrown" \notin fate[u]
      BY <1>1, <3>1, <3>2 DEF One
    <3> QED
      BY <2>1, <3>3, <3>4 DEF Counted, One
  <2>3. Nowhere(u)' /\ Known(u)'
    BY <1>a, <1>b, <1>c, <1>2, <2>1 DEF TaskOK, Nowhere, Known
  <2>4. Retained(u)'
    BY <1>a, <1>b, <1>c, <1>2, <2>1 DEF TaskOK, Retained, Known, InCallback
  <2>5. Faults(u)'
    BY <1>a, <1>c, <1>2 DEF TaskOK, Faults
  <2> QED
    BY <2>2, <2>3, <2>4, <2>5 DEF TaskOK
<1> QED
  BY <1>3, <1>4, <1>5 DEF IInv

LEMMA NextIInv == IInv /\ [Next]_vars => IInv'
<1> SUFFICES ASSUME IInv, [Next]_vars PROVE IInv'
  OBVIOUS
<1>1. CASE UNCHANGED vars
  BY <1>1 DEF vars, refVars, IInv, TypeOK, Places, TaskOK, Counted, Nowhere, Known, Retained,
              Faults, InCallback, Inside, CalledFrom, Frame
<1>2. CASE Next
  BY <1>2, SendThrowsIInv, SendIInv, SendBadUrlIInv, CompleteIInv, ReturnIInv, CancelIInv,
     CollectIInv, CollectHttpIInv DEF Next, Script, Loop
<1> QED
  BY <1>1, <1>2

-----------------------------------------------------------------------------
(***************************************************************************)
(* The theorems.                                                           *)
(*                                                                         *)
(* The invariant holds, and with it every variable keeps its type.         *)
(***************************************************************************)
THEOREM Invariance == Spec => []IInv
  BY InitIInv, NextIInv, PTL DEF Spec

(***************************************************************************)
(* No pointer that libevent, the map of the Http, a script object or a     *)
(* method in progress holds is to a deleted task (HttpTask::open,          *)
(* HttpRequest_cb, HttpTask::remove, ~Http).                               *)
(***************************************************************************)
THEOREM NoDanglingTask == Spec => []TargetAlive
<1>1. IInv => TargetAlive
  <2> SUFFICES ASSUME IInv, NEW t \in deleted
               PROVE  /\ t \notin tasks \union wrapped \union wire
                      /\ ~Inside(t, {"open", "load", "error"})
    BY DEF TargetAlive
  <2>1. t \in Tasks /\ TaskOK(t)
    BY DEF IInv, TypeOK
  <2>2. t \notin wrapped /\ t \notin tasks /\ "retained" \notin fate[t]
    BY <2>1 DEF TaskOK, Counted, One
  <2>3. t \notin wire /\ ~InCallback(t) /\ ~Inside(t, {"open"})
    BY <2>1, <2>2 DEF TaskOK, Known, Retained
  <2> QED
    BY <2>2, <2>3, PlacesOf DEF Inside, InCallback, Everywhere
<1> QED
  BY <1>1, Invariance, PTL

(***************************************************************************)
(* A freed or null request is used only where the request failed, was not  *)
(* made, or was cancelled inside its own callback (HttpTask::onLoad,       *)
(* HttpTask::cancel, ~Http).                                               *)
(***************************************************************************)
THEOREM OnlyKnownFaults == Spec => []FaultsExplained
<1>1. IInv => FaultsExplained
  BY DEF IInv, TaskOK, Faults, FaultsExplained
<1> QED
  BY <1>1, Invariance, PTL

(***************************************************************************)
(* A task out of reach that is not deleted was lost by send() or keeps the *)
(* reference that open() took for a callback that cancel() and ~Http       *)
(* prevent.                                                                *)
(***************************************************************************)
THEOREM OnlyKnownLeaks == Spec => []LeaksExplained
<1>1. IInv => LeaksExplained
  <2> SUFFICES ASSUME IInv, NEW t \in made \ deleted,
                      t \notin tasks \union wrapped \union wire, ~InCallback(t),
                      "thrown" \notin fate[t], ~crashed
               PROVE  /\ "retained" \in fate[t]
                      /\ fate[t] \intersect {"cancelled", "lost"} # {}
    BY DEF LeaksExplained, InCallback
  <2>1. TaskOK(t) /\ count[t] \in Nat
    BY DEF IInv, TypeOK
  <2>2. "retained" \in fate[t]
    BY <2>1 DEF TaskOK, Counted, One
  <2> QED
    BY <2>1, <2>2 DEF TaskOK, Retained
<1> QED
  BY <1>1, Invariance, PTL

(***************************************************************************)
(* Each step is a step of Requests or leaves its variables alone.          *)
(***************************************************************************)
LEMMA StepImplements ==
  ASSUME IInv, [Next]_vars
  PROVE  [RQ!Next]_RQ!vars
<1> DEFINE dropped == {t \in Tasks : "cancelled" \in fate[t]}
<1>a. TypeOK /\ \A u \in Tasks : TaskOK(u)
  BY DEF IInv
<1>1. ASSUME NEW t \in Tasks, SendThrows(t) \/ Send(t)
      PROVE  RQ!Send(t)
  <2>1. \A u \in Tasks : "cancelled" \in fate'[u] <=> "cancelled" \in fate[u]
    BY <1>1, <1>a DEF SendThrows, Send, Mark
  <2> QED
    BY <1>1, <2>1 DEF SendThrows, Send, New, RQ!Send
<1>2. ASSUME NEW t \in Tasks, SendBadUrl(t)
      PROVE  RQ!Reject(t)
  BY <1>2 DEF SendBadUrl, New, RQ!Reject
<1>3. ASSUME NEW t \in Tasks, NEW at, Enter(t, at),
             \A u \in Tasks : "cancelled" \in fate'[u] <=> "cancelled" \in fate[u]
      PROVE  RQ!Answer(t)
  <2>1. t \in made /\ t \notin Range(heard) /\ "cancelled" \notin fate[t] /\ http
    BY <1>a, <1>3 DEF Enter, TaskOK, Known, Nowhere
  <2>2. dropped' = dropped /\ t \notin dropped
    BY <1>3, <2>1
  <2> QED
    BY <1>3, <2>1, <2>2 DEF Enter, RQ!Answer, RQ!Range, Range
<1>4. ASSUME NEW t \in Tasks, Loop(t)
      PROVE  [RQ!Answer(t)]_RQ!vars
  <2>1. \A u \in Tasks : "cancelled" \in fate'[u] <=> "cancelled" \in fate[u]
    BY <1>4, <1>a DEF Loop, Complete, Fails, Eof, Mark
  <2>2. CASE \E at : Enter(t, at)
    BY <1>3, <2>1, <2>2
  <2>3. CASE UNCHANGED <<made, heard, http>>
    BY <2>1, <2>3 DEF RQ!vars
  <2> QED
    BY <1>4, <2>2, <2>3 DEF Loop, Complete, Fails, Eof
<1>5. CASE Return
  <2>1. \A u \in Tasks : "cancelled" \in fate'[u] <=> "cancelled" \in fate[u]
    <3>1. \A u \in Tasks : \/ fate'[u] = fate[u]
                            \/ fate'[u] = fate[u] \ {"retained"}
                            \/ fate'[u] = fate[u] \union {"faulty"}
      <4> DEFINE t == Last(stack).task
      <4>1. \/ fate' = fate
            \/ fate' = [fate EXCEPT ![t] = fate[t] \ {"retained"}]
            \/ fate' = [u \in Tasks |-> IF u \in {t} THEN fate[u] \union {"faulty"} ELSE fate[u]]
        BY <1>5 DEF Return, Mark
      <4> QED
        BY <4>1, <1>a DEF TypeOK
    <3> QED
      BY <3>1
  <2> QED
    BY <1>5, <2>1 DEF Return, RQ!vars
<1>6. ASSUME NEW t \in Tasks, Cancel(t)
      PROVE  RQ!Cancel(t)
  <2>1. t \in made
    BY <1>a, <1>6 DEF Cancel, TaskOK, Nowhere
  <2>2. \A u \in Tasks : "cancelled" \in fate'[u] <=> "cancelled" \in fate[u] \/ u = t
    BY <1>6, <1>a DEF Cancel, Mark
  <2>3. dropped' = dropped \union {t}
    BY <2>2
  <2> QED
    BY <1>6, <2>1, <2>3 DEF Cancel, RQ!Cancel
<1>7. ASSUME NEW t \in Tasks, Collect(t)
      PROVE  UNCHANGED RQ!vars
  BY <1>7 DEF Collect, RQ!vars
<1>8. CASE CollectHttp
  <2>1. \A u \in Tasks : "cancelled" \in fate'[u] <=> "cancelled" \in fate[u]
    BY <1>8 DEF CollectHttp
  <2> QED
    BY <1>8, <2>1 DEF CollectHttp, RQ!Shutdown, RQ!Next
<1>9. CASE UNCHANGED vars
  BY <1>9 DEF vars, RQ!vars
<1> QED
  BY <1>1, <1>2, <1>4, <1>5, <1>6, <1>7, <1>8, <1>9 DEF Next, Script, RQ!Next

(***************************************************************************)
(* send, the answers of libevent, cancel and the collection of the Http    *)
(* implement Requests: a request is answered once at most.                 *)
(***************************************************************************)
THEOREM Implementation == Spec => ImplementsRequests
<1>1. Init => RQ!Init
  BY DEF Init, RQ!Init
<1> QED
  BY <1>1, InitIInv, NextIInv, StepImplements, PTL DEF Spec, RQ!Spec, ImplementsRequests
=============================================================================
