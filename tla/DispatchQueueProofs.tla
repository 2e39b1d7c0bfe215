------------------------- MODULE DispatchQueueProofs -------------------------
(***************************************************************************)
(* Proofs about DispatchQueue, for any set of clients and of objects, with *)
(* and without spurious wake-ups.                                          *)
(***************************************************************************)
EXTENDS DispatchQueue, SequenceTheorems, TLAPS

-----------------------------------------------------------------------------
(* Sequences.                                                              *)

(***************************************************************************)
(* Append adds its argument to the elements of a sequence.                 *)
(***************************************************************************)
LEMMA RangeAppend ==
  ASSUME NEW S, NEW s \in Seq(S), NEW t \in S
  PROVE  Range(Append(s, t)) = Range(s) \union {t}
<1>1. Len(Append(s, t)) = Len(s) + 1 /\ Len(s) \in Nat
  OBVIOUS
<1>2. \A i \in 1 .. Len(s) : Append(s, t)[i] = s[i]
  OBVIOUS
<1>3. Append(s, t)[Len(s) + 1] = t
  OBVIOUS
<1> QED
  BY <1>1, <1>2, <1>3 DEF Range

(***************************************************************************)
(* The elements of a sequence over S are in S; the empty one has none.     *)
(***************************************************************************)
LEMMA RangeType ==
  ASSUME NEW S
  PROVE  /\ Range(<<>>) = {}
         /\ \A s \in Seq(S) : Range(s) \subseteq S
  BY ElementOfSeq DEF Range

(***************************************************************************)
(* A non-empty sequence is its head and its tail.                          *)
(***************************************************************************)
LEMMA RangeHeadTail ==
  ASSUME NEW S, NEW s \in Seq(S), s # <<>>
  PROVE  /\ Head(s) \in S
         /\ Tail(s) \in Seq(S)
         /\ Range(s) = {Head(s)} \union Range(Tail(s))
<1>1. /\ Head(s) \in S /\ Tail(s) \in Seq(S) /\ Len(s) \in Nat \ {0}
      /\ Len(Tail(s)) = Len(s) - 1
      /\ \A i \in 1 .. Len(Tail(s)) : Tail(s)[i] = s[i + 1]
  BY HeadTailProperties, EmptySeq
<1>2. Head(s) = s[1]
  OBVIOUS
<1>3. \A i \in 1 .. Len(s) : i = 1 \/ (i - 1 \in 1 .. Len(Tail(s)) /\ s[i] = Tail(s)[i - 1])
  BY <1>1
<1>d. DOMAIN s = 1 .. Len(s) /\ DOMAIN Tail(s) = 1 .. Len(Tail(s))
  BY <1>1
<1>4. Range(s) \subseteq {Head(s)} \union Range(Tail(s))
  <2> SUFFICES ASSUME NEW i \in 1 .. Len(s) PROVE s[i] \in {Head(s)} \union Range(Tail(s))
    BY <1>d DEF Range
  <2>1. CASE i = 1
    BY <1>2, <2>1
  <2>2. CASE i # 1
    <3>1. i - 1 \in DOMAIN Tail(s) /\ s[i] = Tail(s)[i - 1]
      BY <1>d, <1>3, <2>2
    <3> QED
      BY <3>1 DEF Range
  <2> QED
    BY <2>1, <2>2
<1>5. Head(s) \in Range(s)
  BY <1>1, <1>2 DEF Range
<1>6. \A i \in 1 .. Len(Tail(s)) : Tail(s)[i] \in Range(s)
  BY <1>1 DEF Range
<1> QED
  BY <1>d, <1>1, <1>4, <1>5, <1>6 DEF Range

(***************************************************************************)
(* Appending a new element keeps a sequence without repetition.            *)
(***************************************************************************)
LEMMA InjectiveAppend ==
  ASSUME NEW S, NEW s \in Seq(S), NEW t \in S, IsInjective(s), t \notin Range(s)
  PROVE  IsInjective(Append(s, t))
<1>1. Len(Append(s, t)) = Len(s) + 1 /\ Len(s) \in Nat
  OBVIOUS
<1>2. \A i \in 1 .. Len(s) : Append(s, t)[i] = s[i] /\ s[i] # t
  BY DEF Range
<1>3. Append(s, t)[Len(s) + 1] = t
  OBVIOUS
<1> QED
  BY <1>1, <1>2, <1>3 DEF IsInjective

(***************************************************************************)
(* The head of a sequence without repetition is not in its tail, which has *)
(* no repetition either.                                                   *)
(***************************************************************************)
LEMMA InjectiveTail ==
  ASSUME NEW S, NEW s \in Seq(S), s # <<>>, IsInjective(s)
  PROVE  IsInjective(Tail(s)) /\ Head(s) \notin Range(Tail(s))
<1>1. /\ Tail(s) \in Seq(S) /\ Len(s) \in Nat \ {0}
      /\ Len(Tail(s)) = Len(s) - 1
      /\ \A i \in 1 .. Len(Tail(s)) : Tail(s)[i] = s[i + 1] /\ i + 1 \in 1 .. Len(s)
  BY HeadTailProperties, EmptySeq
<1>2. Head(s) = s[1] /\ 1 \in 1 .. Len(s)
  BY <1>1
<1>3. IsInjective(Tail(s))
  BY <1>1 DEF IsInjective
<1>4. \A i \in 1 .. Len(Tail(s)) : Tail(s)[i] # Head(s)
  BY <1>1, <1>2 DEF IsInjective
<1> QED
  BY <1>3, <1>4 DEF Range

(***************************************************************************)
(* Appending to a concatenation; moving the head of its right part to the  *)
(* end of its left part.                                                   *)
(***************************************************************************)
LEMMA ConcatAppend ==
  ASSUME NEW S, NEW r \in Seq(S), NEW s \in Seq(S), NEW t \in S
  PROVE  r \o Append(s, t) = Append(r \o s, t)
<1>1. /\ Append(s, t) = s \o <<t>>
      /\ Append(r \o s, t) = (r \o s) \o <<t>>
      /\ <<t>> \in Seq(S)
  BY AppendIsConcat, ConcatProperties
<1> QED
  BY <1>1, ConcatAssociative

LEMMA ConcatHeadTail ==
  ASSUME NEW S, NEW r \in Seq(S), NEW s \in Seq(S), s # <<>>
  PROVE  r \o s = Append(r, Head(s)) \o Tail(s)
<1>1. /\ Head(s) \in S /\ Tail(s) \in Seq(S) /\ <<Head(s)>> \in Seq(S)
      /\ Append(r, Head(s)) = r \o <<Head(s)>>
  BY HeadTailProperties, AppendIsConcat
<1>2. s = <<Head(s)>> \o Tail(s)
  BY <1>1
<1> QED
  BY <1>1, <1>2, ConcatAssociative

(***************************************************************************)
(* The inductive invariant, in named parts.                                *)
(*                                                                         *)
(* Loop: run() goes round only while the loop is not broken, and the       *)
(* thread ends only after it was.                                          *)
(***************************************************************************)
Loop ==
  /\ qpc \in {"loop", "pop", "run"} => ~loopbreak
  /\ qpc = "exited" => loopbreak

(***************************************************************************)
(* Objects: each created object is in exactly one place, the channel, the  *)
(* queue thread's hand or the set of the deleted ones.                     *)
(***************************************************************************)
Objects ==
  /\ IsInjective(chan)
  /\ \A t \in Range(chan) : kind[t] # "none" /\ t \notin freed /\ t # cur
  /\ cur # Nil => kind[cur] # "none" /\ cur \notin freed
  /\ \A t \in freed : kind[t] # "none"
  /\ \A t \in Tasks : kind[t] # "none" => t \in Range(chan) \union freed \union {cur}

(***************************************************************************)
(* Holders: a client has dropped its reference exactly when it is gone or  *)
(* runs the destructor, at most one client runs it, and the queue thread   *)
(* has ended once nobody is left who waits for its end.                    *)
(***************************************************************************)
Holders ==
  /\ \A c \in Clients : c \in refs <=> pc[c] \notin InDtor \union {"gone"}
  /\ \A c, d \in Clients : pc[c] \in InDtor /\ c # d => pc[d] = "gone"
  /\ \A c \in Clients : pc[c] = "joining" => c = Owner /\ joined
  /\ \A c \in Clients : pc[c] \in InDtor => joined
  /\ \/ ~joined
     \/ qpc = "exited"
     \/ pc[Owner] = "joining"
     \/ \E c \in Clients : pc[c] \in {"dtorBreak", "dtorJoin"}
  /\ refs = {} => joined
  /\ Destroyed => qpc = "exited" /\ chan = <<>>

(***************************************************************************)
(* Waiters: a client inside sync() has an object of its own; it holds the  *)
(* object's mutex until it waits, and the broadcast is then still to come. *)
(***************************************************************************)
Waiters ==
  /\ \A c \in Clients :
       IF pc[c] \in {"locked", "waiting", "woken"}
         THEN call[c] \in Tasks /\ kind[call[c]] = "sync"
         ELSE call[c] = Nil
  /\ \A c, d \in Clients : call[c] = call[d] /\ call[c] # Nil => c = d
  /\ \A c \in Clients : pc[c] = "locked" => call[c] \in locked
  /\ \A c \in Clients : pc[c] \in {"locked", "waiting"} =>
       \/ call[c] \in Range(chan)
       \/ call[c] = cur /\ qpc \in {"run", "join"}

(***************************************************************************)
(* Histories: what was pushed and what ran, related to the objects.        *)
(***************************************************************************)
Histories ==
  /\ IsInjective(pushed)
  /\ \A t \in Range(pushed) : kind[t] # "none"
  /\ ~Destroyed => pushed = ran \o InHand \o chan
  /\ qpc \in {"join", "release"} => cur \in Range(ran)
  /\ ~Destroyed => freed \subseteq Range(ran)
  /\ Range(ran) \subseteq freed \union {cur}
  /\ \A t \in touched : kind[t] = "sync" /\ t \in Range(ran)
  /\ \A c \in Clients : ~Spurious /\ pc[c] = "woken" => call[c] \in Range(ran)

IInv == TypeOK /\ Loop /\ Objects /\ Holders /\ Waiters /\ Histories /\ PollNeverLost

-----------------------------------------------------------------------------
(***************************************************************************)
(* The initial states satisfy the inductive invariant.                     *)
(***************************************************************************)
LEMMA InitIInv == Init => IInv
<1> SUFFICES ASSUME Init PROVE IInv
  OBVIOUS
<1> USE OwnerAssumption, NilAssumption, FlagAssumption DEF Init
<1>1. <<>> \in Seq(Tasks) /\ Range(<<>>) = {} /\ IsInjective(<<>>) /\ <<>> \o <<>> \o <<>> = <<>>
  BY RangeType, ConcatEmptySeq DEF IsInjective
<1>2. TypeOK
  BY <1>1 DEF TypeOK, Kinds, ClientPCs, QueuePCs
<1>3. Loop /\ PollNeverLost
  BY DEF Loop, PollNeverLost
<1>4. Objects
  BY <1>1 DEF Objects
<1>5. Holders
  BY DEF Holders, Destroyed, InDtor
<1>6. Waiters
  BY DEF Waiters
<1>7. InHand = <<>> /\ ~Destroyed
  BY DEF InHand, Destroyed, InDtor
<1>8. Histories
  BY <1>1, <1>7 DEF Histories
<1> QED
  BY <1>2, <1>3, <1>4, <1>5, <1>6, <1>8 DEF IInv

(***************************************************************************)
(* Pushing a new object: it is new to the channel, to the queue thread, to *)
(* the deleted objects and to the history, and follows all of them.        *)
(***************************************************************************)
LEMMA PushFacts ==
  ASSUME TypeOK, Objects, Histories,
         NEW t \in Tasks, NEW k \in Kinds \ {"none"}, Create(t, k), Push(t)
  PROVE  /\ chan' \in Seq(Tasks) /\ pushed' \in Seq(Tasks)
         /\ Range(chan') = Range(chan) \union {t} /\ IsInjective(chan')
         /\ Range(pushed') = Range(pushed) \union {t} /\ IsInjective(pushed')
         /\ t \notin Range(chan) /\ t \notin freed /\ t # cur /\ t \notin touched
         /\ kind' \in [Tasks -> Kinds] /\ kind'[t] = k /\ kind[t] = "none"
         /\ \A u \in Tasks : u # t => kind'[u] = kind[u]
         /\ chan' # <<>>
         /\ \A p \in Seq(Tasks) : pushed = p \o chan => pushed' = p \o chan'
<1>1. kind[t] = "none" /\ kind' = [kind EXCEPT ![t] = k]
  BY DEF Create
<1>2. chan' = Append(chan, t) /\ pushed' = Append(pushed, t)
  BY DEF Push
<1>3. chan \in Seq(Tasks) /\ pushed \in Seq(Tasks) /\ kind \in [Tasks -> Kinds]
  BY DEF TypeOK
<1>4. t \notin Range(chan) /\ t \notin freed /\ t # cur /\ t \notin touched
  BY <1>1, NilAssumption DEF Objects, Histories
<1>5. t \notin Range(pushed)
  BY <1>1 DEF Histories
<1>6. IsInjective(chan) /\ IsInjective(pushed)
  BY DEF Objects, Histories
<1>7. /\ Range(chan') = Range(chan) \union {t} /\ IsInjective(chan')
      /\ Range(pushed') = Range(pushed) \union {t} /\ IsInjective(pushed')
  BY <1>2, <1>3, <1>4, <1>5, <1>6, RangeAppend, InjectiveAppend
<1>8. chan' \in Seq(Tasks) /\ pushed' \in Seq(Tasks) /\ chan' # <<>>
  BY <1>2, <1>3, AppendProperties
<1>9. \A p \in Seq(Tasks) : pushed = p \o chan => pushed' = p \o chan'
  BY <1>2, <1>3, ConcatAppend
<1> QED
  BY <1>1, <1>3, <1>4, <1>7, <1>8, <1>9

(***************************************************************************)
(* The history and the hand of the queue thread are sequences of objects.  *)
(***************************************************************************)
LEMMA HandFacts ==
  ASSUME TypeOK
  PROVE  /\ InHand \in Seq(Tasks) /\ ran \o InHand \in Seq(Tasks)
         /\ Range(chan) \subseteq Tasks /\ Range(ran) \subseteq Tasks
         /\ Range(pushed) \subseteq Tasks
<1>1. ran \in Seq(Tasks) /\ chan \in Seq(Tasks) /\ pushed \in Seq(Tasks)
  BY DEF TypeOK
<1>2. InHand \in Seq(Tasks)
  BY DEF TypeOK, InHand
<1> QED
  BY <1>1, <1>2, ConcatProperties, RangeType

(***************************************************************************)
(* async() and the foreign loopbreak(): one more object in the channel.    *)
(***************************************************************************)
LEMMA PushOnlyIInv ==
  ASSUME IInv, NEW t \in Tasks, NEW k \in {"async", "break"},
         Create(t, k), Push(t),
         \E c \in Clients : pc[c] = "idle",
         UNCHANGED <<freed, locked, clientVars, threadVars, timer, joined, ran, touched>>
  PROVE  IInv'
<1> USE DEF clientVars, threadVars
<1>a. TypeOK /\ Loop /\ Objects /\ Holders /\ Waiters /\ Histories /\ PollNeverLost
  BY DEF IInv
<1>b. k \in Kinds \ {"none"}
  BY DEF Kinds
<1>c. /\ chan' \in Seq(Tasks) /\ pushed' \in Seq(Tasks)
      /\ Range(chan') = Range(chan) \union {t} /\ IsInjective(chan')
      /\ Range(pushed') = Range(pushed) \union {t} /\ IsInjective(pushed')
      /\ t \notin Range(chan) /\ t \notin freed /\ t # cur /\ t \notin touched
      /\ kind' \in [Tasks -> Kinds] /\ kind'[t] = k /\ kind[t] = "none"
      /\ \A u \in Tasks : u # t => kind'[u] = kind[u]
      /\ \A p \in Seq(Tasks) : pushed = p \o chan => pushed' = p \o chan'
  BY <1>a, <1>b, PushFacts
<1>d. ~Destroyed /\ ~Destroyed'
  BY <1>a DEF Destroyed, Holders, InDtor
<1>1. TypeOK'
  BY <1>a, <1>c DEF TypeOK
<1>2. Loop' /\ PollNeverLost'
  BY <1>a DEF Loop, PollNeverLost
<1>3. Objects'
  BY <1>a, <1>c, HandFacts DEF Objects, TypeOK
<1>4. Holders'
  BY <1>a, <1>d DEF Holders
<1>5. Waiters'
  BY <1>a, <1>c DEF Waiters, TypeOK
<1>6. Histories'
  <2>1. InHand' = InHand
    BY DEF InHand
  <2>2. pushed' = ran' \o InHand' \o chan'
    BY <1>a, <1>c, <1>d, <2>1, HandFacts DEF Histories
  <2>3. \A u \in touched : kind'[u] = kind[u]
    BY <1>a, <1>c DEF TypeOK
  <2> QED
    BY <1>a, <1>c, <1>d, <2>2, <2>3, HandFacts DEF Histories, TypeOK
<1> QED
  BY <1>1, <1>2, <1>3, <1>4, <1>5, <1>6 DEF IInv

(***************************************************************************)
(* sync(): the object is pushed with its mutex held by the client.         *)
(***************************************************************************)
LEMMA SyncPushIInv ==
  ASSUME IInv, NEW c \in Clients, NEW t \in Tasks, SyncPush(c, t)
  PROVE  IInv'
<1> USE DEF clientVars, threadVars
<1>a. TypeOK /\ Loop /\ Objects /\ Holders /\ Waiters /\ Histories /\ PollNeverLost
  BY DEF IInv
<1>b. /\ pc[c] = "idle" /\ Create(t, "sync") /\ Push(t)
      /\ locked' = locked \union {t}
      /\ pc' = [pc EXCEPT ![c] = "locked"] /\ call' = [call EXCEPT ![c] = t]
      /\ UNCHANGED <<freed, refs, threadVars, timer, joined, ran, touched>>
  BY DEF SyncPush
<1>c. /\ chan' \in Seq(Tasks) /\ pushed' \in Seq(Tasks)
      /\ Range(chan') = Range(chan) \union {t} /\ IsInjective(chan')
      /\ Range(pushed') = Range(pushed) \union {t} /\ IsInjective(pushed')
      /\ t \notin Range(chan) /\ t \notin freed /\ t # cur /\ t \notin touched
      /\ kind' \in [Tasks -> Kinds] /\ kind'[t] = "sync" /\ kind[t] = "none"
      /\ \A u \in Tasks : u # t => kind'[u] = kind[u]
      /\ \A p \in Seq(Tasks) : pushed = p \o chan => pushed' = p \o chan'
  BY <1>a, <1>b, PushFacts DEF Kinds
<1>d. ~Destroyed /\ ~Destroyed' /\ c \in refs
  BY <1>a, <1>b DEF Destroyed, Holders, InDtor
<1>e. /\ pc'[c] = "locked" /\ call'[c] = t
      /\ \A d \in Clients : d # c => pc'[d] = pc[d] /\ call'[d] = call[d]
  BY <1>a, <1>b DEF TypeOK
<1>f. \A d \in Clients : call[d] # t
  BY <1>a, <1>c, NilAssumption DEF Waiters
<1>1. TypeOK'
  BY <1>a, <1>b, <1>c DEF TypeOK, ClientPCs
<1>2. Loop' /\ PollNeverLost'
  BY <1>a, <1>b DEF Loop, PollNeverLost
<1>3. Objects'
  BY <1>a, <1>b, <1>c, HandFacts DEF Objects, TypeOK
<1>4. Holders'
  BY <1>a, <1>b, <1>d, <1>e DEF Holders, InDtor
<1>5. Waiters'
  BY <1>a, <1>b, <1>c, <1>e, <1>f DEF Waiters, TypeOK
<1>6. Histories'
  <2>1. InHand' = InHand
    BY <1>b DEF InHand
  <2>2. pushed' = ran' \o InHand' \o chan'
    BY <1>a, <1>b, <1>c, <1>d, <2>1, HandFacts DEF Histories
  <2>3. \A u \in touched : kind'[u] = kind[u]
    BY <1>a, <1>c DEF TypeOK
  <2> QED
    BY <1>a, <1>b, <1>c, <1>d, <1>e, <2>2, <2>3, HandFacts DEF Histories, TypeOK
<1> QED
  BY <1>1, <1>2, <1>3, <1>4, <1>5, <1>6 DEF IInv

(***************************************************************************)
(* join() and the destructor push a Break and wait for the thread to end.  *)
(***************************************************************************)
LEMMA PushBreakIInv ==
  ASSUME IInv, NEW c \in Clients, NEW t \in Tasks, NEW at \in ClientPCs,
         Create(t, "break"), Push(t),
         pc' = [pc EXCEPT ![c] = at], joined',
         \/ pc[c] = "idle" /\ c = Owner /\ at = "joining" /\ ~joined
         \/ pc[c] = "dtorBreak" /\ at = "dtorJoin" /\ joined,
         UNCHANGED <<freed, locked, call, refs, threadVars, timer, ran, touched>>
  PROVE  IInv'
<1> USE DEF threadVars
<1>a. TypeOK /\ Loop /\ Objects /\ Holders /\ Waiters /\ Histories /\ PollNeverLost
  BY DEF IInv
<1>c. /\ chan' \in Seq(Tasks) /\ pushed' \in Seq(Tasks)
      /\ Range(chan') = Range(chan) \union {t} /\ IsInjective(chan')
      /\ Range(pushed') = Range(pushed) \union {t} /\ IsInjective(pushed')
      /\ t \notin Range(chan) /\ t \notin freed /\ t # cur /\ t \notin touched
      /\ kind' \in [Tasks -> Kinds] /\ kind'[t] = "break" /\ kind[t] = "none"
      /\ \A u \in Tasks : u # t => kind'[u] = kind[u]
      /\ \A p \in Seq(Tasks) : pushed = p \o chan => pushed' = p \o chan'
  BY <1>a, PushFacts DEF Kinds
<1>e. pc'[c] = at /\ \A d \in Clients : d # c => pc'[d] = pc[d]
  BY <1>a DEF TypeOK
<1>d. ~Destroyed /\ ~Destroyed'
  BY <1>a, <1>e DEF Destroyed, Holders, InDtor
<1>1. TypeOK'
  BY <1>a, <1>c DEF TypeOK
<1>2. Loop' /\ PollNeverLost'
  BY <1>a DEF Loop, PollNeverLost
<1>3. Objects'
  BY <1>a, <1>c, HandFacts DEF Objects, TypeOK
<1>4. Holders'
  BY <1>a, <1>d, <1>e, OwnerAssumption DEF Holders, InDtor
<1>5. Waiters'
  BY <1>a, <1>c, <1>e DEF Waiters, TypeOK
<1>6. Histories'
  <2>1. InHand' = InHand
    BY DEF InHand
  <2>2. pushed' = ran' \o InHand' \o chan'
    BY <1>a, <1>c, <1>d, <2>1, HandFacts DEF Histories
  <2>3. \A u \in touched : kind'[u] = kind[u]
    BY <1>a, <1>c DEF TypeOK
  <2> QED
    BY <1>a, <1>c, <1>d, <1>e, <2>2, <2>3, HandFacts DEF Histories, TypeOK
<1> QED
  BY <1>1, <1>2, <1>3, <1>4, <1>5, <1>6 DEF IInv

(***************************************************************************)
(* The steps of sync() after the push: the mutex is released, the wait     *)
(* ends, the call returns.                                                 *)
(***************************************************************************)
LEMMA SyncStepsIInv ==
  ASSUME IInv, NEW c \in Clients,
         SyncWait(c) \/ SpuriousWakeup(c) \/ SyncReturn(c)
  PROVE  IInv'
<1> USE DEF chanVars, objVars, threadVars
<1>a. TypeOK /\ Loop /\ Objects /\ Holders /\ Waiters /\ Histories /\ PollNeverLost
  BY DEF IInv
<1>b. UNCHANGED <<chan, pushed, kind, freed, refs, qpc, cur, loopbreak, timer, joined, ran>>
  BY DEF SyncWait, SpuriousWakeup, SyncReturn
<1>c. /\ pc[c] \in {"locked", "waiting", "woken"}
      /\ pc'[c] \in {"waiting", "woken", "idle", "undefined"}
      /\ pc' = [pc EXCEPT ![c] = pc'[c]]
      /\ \A d \in Clients : d # c => pc'[d] = pc[d] /\ call'[d] = call[d]
      /\ pc'[c] \in {"waiting", "woken"} => call'[c] = call[c]
      /\ pc'[c] = "waiting" => pc[c] = "locked"
      /\ pc'[c] \in {"idle", "undefined"} => call'[c] = Nil
      /\ pc'[c] = "woken" => Spurious
      /\ locked' \in {locked, locked \ {call[c]}}
      /\ call' \in [Clients -> Tasks \union {Nil}]
  BY <1>a DEF TypeOK, SyncWait, SpuriousWakeup, SyncReturn
<1>d. ~Destroyed /\ ~Destroyed' /\ c \in refs
  BY <1>a, <1>b, <1>c DEF Destroyed, Holders, InDtor
<1>e. touched' = touched \/ (touched' = touched \union {call[c]} /\ call[c] \in freed)
  BY DEF SyncWait, SpuriousWakeup, SyncReturn
<1>f. call[c] \in Tasks /\ kind[call[c]] = "sync"
  BY <1>a, <1>c DEF Waiters
<1>1. TypeOK'
  BY <1>a, <1>b, <1>c, <1>e, <1>f DEF TypeOK, ClientPCs
<1>2. Loop' /\ PollNeverLost'
  BY <1>a, <1>b DEF Loop, PollNeverLost
<1>3. Objects'
  BY <1>a, <1>b DEF Objects
<1>4. Holders'
  BY <1>a, <1>b, <1>c, <1>d, OwnerAssumption DEF Holders, InDtor
<1>5. Waiters'
  <2>1. \A d \in Clients : pc'[d] = "locked" => call'[d] \in locked'
    BY <1>a, <1>c, <1>f, NilAssumption DEF Waiters
  <2> QED
    BY <1>a, <1>b, <1>c, <1>f, <2>1 DEF Waiters
<1>6. Histories'
  <2>1. InHand' = InHand
    BY <1>b DEF InHand
  <2> QED
    BY <1>a, <1>b, <1>c, <1>d, <1>e, <1>f, <2>1 DEF Histories
<1> QED
  BY <1>1, <1>2, <1>3, <1>4, <1>5, <1>6 DEF IInv

(***************************************************************************)
(* The end of join(), dropping a reference, and waiting in the destructor. *)
(***************************************************************************)
LEMMA HoldersStepsIInv ==
  ASSUME IInv, NEW c \in Clients,
         (c = Owner /\ JoinEnd) \/ Drop(c) \/ DtorJoin(c)
  PROVE  IInv'
<1> USE DEF chanVars, objVars, threadVars
<1>a. TypeOK /\ Loop /\ Objects /\ Holders /\ Waiters /\ Histories /\ PollNeverLost
  BY DEF IInv
<1>b. UNCHANGED <<chan, pushed, kind, freed, locked, call, qpc, cur, loopbreak, ran, touched>>
  BY DEF JoinEnd, Drop, DtorJoin
<1>c. /\ pc[c] \in {"joining", "idle", "dtorJoin"}
      /\ pc'[c] \in {"idle", "gone", "dtorBreak", "dtorFree"}
      /\ pc' = [pc EXCEPT ![c] = pc'[c]]
      /\ \A d \in Clients : d # c => pc'[d] = pc[d]
  BY <1>a DEF TypeOK, JoinEnd, Drop, DtorJoin
<1>d. ~Destroyed
  BY <1>a, <1>c DEF Destroyed, Holders, InDtor
<1>1. TypeOK'
  BY <1>a, <1>b, <1>c DEF TypeOK, ClientPCs, InDtor, JoinEnd, Drop, DtorJoin
<1>2. Loop' /\ PollNeverLost'
  BY <1>a, <1>b DEF Loop, PollNeverLost, Holders, JoinEnd, Drop, DtorJoin, ThreadEnded, TypeOK
<1>3. Objects'
  BY <1>a, <1>b DEF Objects
<1>4. ~Destroyed' /\ Holders'
  <2>1. CASE c = Owner /\ JoinEnd
    BY <1>a, <1>b, <1>c, <1>d, <2>1 DEF JoinEnd, ThreadEnded, Holders, Destroyed, InDtor
  <2>2. CASE DtorJoin(c)
    BY <1>a, <1>b, <1>c, <1>d, <2>2 DEF DtorJoin, ThreadEnded, Holders, Destroyed, InDtor
  <2>3. CASE Drop(c) /\ refs # {c}
    <3>1. pc'[c] = "gone" /\ refs' = refs \ {c} /\ refs' # {} /\ joined' = joined
      BY <1>a, <1>c, <2>3 DEF Drop, TypeOK
    <3> QED
      BY <1>a, <1>b, <1>c, <2>3, <3>1, OwnerAssumption DEF Drop, Holders, Destroyed, InDtor
  <2>4. CASE Drop(c) /\ refs = {c}
    <3>1. \A d \in Clients : d # c => pc[d] \in InDtor \union {"gone"}
      BY <1>a, <2>4 DEF Holders
    <3>2. pc[c] = "idle" /\ \A d \in Clients : d # c => pc[d] = "gone"
      BY <1>a, <2>4, <3>1 DEF Holders, Drop, InDtor
    <3>3. refs' = {} /\ pc'[c] \in {"dtorFree", "dtorBreak"} /\ joined'
      BY <1>a, <1>c, <2>4 DEF Drop, TypeOK
    <3>4. joined => pc'[c] = "dtorFree" /\ qpc = "exited"
      BY <1>a, <2>4, <3>2, OwnerAssumption DEF Drop, Holders, TypeOK
    <3>5. ~joined => pc'[c] = "dtorBreak"
      BY <1>a, <2>4 DEF Drop, TypeOK
    <3> QED
      BY <1>a, <1>b, <1>c, <3>2, <3>3, <3>4, <3>5, OwnerAssumption DEF Holders, Destroyed, InDtor, TypeOK
  <2> QED
    BY <2>1, <2>2, <2>3, <2>4
<1>5. Waiters'
  BY <1>a, <1>b, <1>c DEF Waiters
<1>6. Histories'
  <2>1. InHand' = InHand
    BY <1>b DEF InHand
  <2> QED
    BY <1>a, <1>b, <1>c, <1>d, <1>4, <2>1 DEF Histories
<1> QED
  BY <1>1, <1>2, <1>3, <1>4, <1>5, <1>6 DEF IInv

(***************************************************************************)
(* ~Chan deletes what is left in the channel.                              *)
(***************************************************************************)
LEMMA DtorFreeIInv ==
  ASSUME IInv, NEW c \in Clients, DtorFree(c)
  PROVE  IInv'
<1> USE DEF threadVars
<1>a. TypeOK /\ Loop /\ Objects /\ Holders /\ Waiters /\ Histories /\ PollNeverLost
  BY DEF IInv
<1>b. /\ pc[c] = "dtorFree" /\ chan' = <<>> /\ freed' = freed \union Range(chan)
      /\ UNCHANGED <<pushed, kind, locked, call, refs, threadVars, timer, joined, ran, touched>>
  BY DEF DtorFree
<1>c. /\ pc' = [pc EXCEPT ![c] = "gone"] /\ pc'[c] = "gone"
      /\ \A d \in Clients : d # c => pc[d] = "gone" /\ pc'[d] = "gone"
  BY <1>a DEF TypeOK, DtorFree, Holders, InDtor
<1>d. Destroyed' /\ qpc = "exited" /\ cur = Nil
  BY <1>a, <1>b, <1>c, OwnerAssumption DEF Holders, Destroyed, InDtor, TypeOK
<1>e. Range(<<>>) = {} /\ IsInjective(<<>>) /\ <<>> \in Seq(Tasks)
  BY RangeType DEF IsInjective
<1>1. TypeOK'
  BY <1>a, <1>b, <1>c, <1>e, HandFacts DEF TypeOK, ClientPCs
<1>2. Loop' /\ PollNeverLost'
  BY <1>a, <1>b DEF Loop, PollNeverLost
<1>3. Objects'
  BY <1>a, <1>b, <1>d, <1>e DEF Objects
<1>4. Holders'
  BY <1>a, <1>b, <1>c, <1>d DEF Holders, InDtor
<1>5. Waiters'
  BY <1>a, <1>b, <1>c DEF Waiters
<1>6. Histories'
  BY <1>a, <1>b, <1>c, <1>d DEF Histories
<1> QED
  BY <1>1, <1>2, <1>3, <1>4, <1>5, <1>6 DEF IInv

(***************************************************************************)
(* The steps of the queue thread that move no object.                      *)
(***************************************************************************)
LEMMA IdleStepsIInv ==
  ASSUME IInv, Fire \/ PopEmpty \/ Rearm \/ Exit
  PROVE  IInv'
<1> USE DEF chanVars, objVars, clientVars
<1>a. TypeOK /\ Loop /\ Objects /\ Holders /\ Waiters /\ Histories /\ PollNeverLost
  BY DEF IInv
<1>b. UNCHANGED <<chan, pushed, kind, freed, locked, pc, call, refs, cur, loopbreak, joined, ran, touched>>
  BY DEF Fire, PopEmpty, Rearm, Exit
<1>c. /\ qpc \in {"loop", "pop", "rearm"} /\ cur = Nil
      /\ qpc' \in {"pop", "rearm", "loop", "exited"}
      /\ ~Destroyed
  BY <1>a DEF Fire, PopEmpty, Rearm, Exit, TypeOK, Holders
<1>d. ~Destroyed' /\ InHand = <<>> /\ InHand' = <<>>
  BY <1>b, <1>c DEF Destroyed, InHand
<1>1. TypeOK'
  BY <1>a, <1>b, <1>c DEF TypeOK, QueuePCs, Fire, PopEmpty, Rearm, Exit
<1>2. Loop' /\ PollNeverLost'
  BY <1>a, <1>b DEF Loop, PollNeverLost, Fire, PopEmpty, Rearm, Exit
<1>3. Objects'
  BY <1>a, <1>b DEF Objects
<1>4. Holders'
  BY <1>a, <1>b, <1>c, <1>d DEF Holders
<1>5. Waiters'
  BY <1>a, <1>b, <1>c, NilAssumption DEF Waiters
<1>6. Histories'
  BY <1>a, <1>b, <1>c, <1>d DEF Histories
<1> QED
  BY <1>1, <1>2, <1>3, <1>4, <1>5, <1>6 DEF IInv

(***************************************************************************)
(* pop(): the oldest object goes from the channel to the thread's hand.    *)
(***************************************************************************)
LEMMA PopIInv ==
  ASSUME IInv, Pop
  PROVE  IInv'
<1> USE DEF objVars, clientVars
<1>a. TypeOK /\ Loop /\ Objects /\ Holders /\ Waiters /\ Histories /\ PollNeverLost
  BY DEF IInv
<1>b. /\ qpc = "pop" /\ chan # <<>> /\ cur' = Head(chan) /\ chan' = Tail(chan) /\ qpc' = "run"
      /\ UNCHANGED <<pushed, kind, freed, locked, pc, call, refs, timer, loopbreak, joined, ran, touched>>
  BY DEF Pop
<1>c. /\ cur' \in Tasks /\ chan' \in Seq(Tasks) /\ cur' # Nil
      /\ Range(chan) = Range(chan') \union {cur'}
      /\ IsInjective(chan') /\ cur' \notin Range(chan')
  BY <1>a, <1>b, RangeHeadTail, InjectiveTail, NilAssumption DEF TypeOK, Objects
<1>d. cur = Nil /\ ~Destroyed /\ ~Destroyed'
  BY <1>a, <1>b DEF TypeOK, Holders, Destroyed
<1>1. TypeOK'
  BY <1>a, <1>b, <1>c DEF TypeOK, QueuePCs
<1>2. Loop' /\ PollNeverLost'
  BY <1>a, <1>b DEF Loop, PollNeverLost
<1>3. Objects'
  BY <1>a, <1>b, <1>c, <1>d, NilAssumption, HandFacts DEF Objects
<1>4. Holders'
  BY <1>a, <1>b, <1>d DEF Holders
<1>5. Waiters'
  BY <1>a, <1>b, <1>c DEF Waiters
<1>6. Histories'
  <2>1. InHand = <<>> /\ InHand' = <<Head(chan)>>
    BY <1>b DEF InHand
  <2>2. ran \in Seq(Tasks) /\ chan \in Seq(Tasks) /\ Append(ran, Head(chan)) = ran \o <<Head(chan)>>
    BY <1>a, <1>b, <1>c, AppendIsConcat, ZenonT(40) DEF TypeOK
  <2>3. pushed = ran \o chan
    BY <1>a, <1>d, <2>1, <2>2, ConcatEmptySeq DEF Histories
  <2>4. pushed' = (ran' \o InHand') \o chan'
    BY <1>b, <2>1, <2>2, <2>3, ConcatHeadTail
  <2> QED
    BY <1>a, <1>b, <1>d, <2>4, NilAssumption, HandFacts DEF Histories
<1> QED
  BY <1>1, <1>2, <1>3, <1>4, <1>5, <1>6 DEF IInv

(***************************************************************************)
(* A task runs: it enters the history, and may push or break the loop.     *)
(***************************************************************************)
LEMMA RunIInv ==
  ASSUME IInv, Run
  PROVE  IInv'
<1> USE DEF clientVars
<1>a. TypeOK /\ Loop /\ Objects /\ Holders /\ Waiters /\ Histories /\ PollNeverLost
  BY DEF IInv
<1>b. /\ qpc = "run" /\ ran' = Append(ran, cur) /\ qpc' = "join"
      /\ UNCHANGED <<freed, locked, pc, call, refs, cur, timer, joined, touched>>
  BY DEF Run
<1>c. /\ cur \in Tasks /\ ran \in Seq(Tasks) /\ ran' \in Seq(Tasks)
      /\ Range(ran') = Range(ran) \union {cur} /\ ran' = ran \o <<cur>>
  BY <1>a, <1>b, RangeAppend, AppendIsConcat, AppendProperties DEF TypeOK
<1>d. ~Destroyed /\ ~Destroyed'
  BY <1>a, <1>b DEF Holders, Destroyed
<1>e. InHand = <<cur>> /\ InHand' = <<>>
  BY <1>b DEF InHand
<1>f. ran' \o InHand' = ran \o InHand
  BY <1>c, <1>e, ConcatEmptySeq
<1>1. CASE UNCHANGED <<chan, pushed, kind>> /\ loopbreak' \in BOOLEAN
  <2>1. TypeOK' /\ Objects'
    BY <1>a, <1>b, <1>c, <1>1, NilAssumption DEF TypeOK, QueuePCs, Objects
  <2>2. Loop' /\ PollNeverLost' /\ Holders'
    BY <1>a, <1>b, <1>d DEF Loop, PollNeverLost, Holders
  <2>3. Waiters'
    BY <1>a, <1>b, <1>1 DEF Waiters
  <2>4. Histories'
    BY <1>a, <1>b, <1>c, <1>d, <1>f, <1>1 DEF Histories
  <2> QED
    BY <2>1, <2>2, <2>3, <2>4 DEF IInv
<1>2. ASSUME NEW t \in Tasks, Create(t, "async"), Push(t), UNCHANGED loopbreak
      PROVE  IInv'
  <2>c. /\ chan' \in Seq(Tasks) /\ pushed' \in Seq(Tasks)
        /\ Range(chan') = Range(chan) \union {t} /\ IsInjective(chan')
        /\ Range(pushed') = Range(pushed) \union {t} /\ IsInjective(pushed')
        /\ t \notin Range(chan) /\ t \notin freed /\ t # cur /\ t \notin touched
        /\ kind' \in [Tasks -> Kinds] /\ kind'[t] = "async" /\ kind[t] = "none"
        /\ \A u \in Tasks : u # t => kind'[u] = kind[u]
        /\ \A p \in Seq(Tasks) : pushed = p \o chan => pushed' = p \o chan'
    BY <1>a, <1>2, PushFacts DEF Kinds
  <2>1. TypeOK'
    BY <1>a, <1>b, <1>c, <1>2, <2>c DEF TypeOK, QueuePCs
  <2>2. Loop' /\ PollNeverLost' /\ Holders'
    BY <1>a, <1>b, <1>d DEF Loop, PollNeverLost, Holders
  <2>3. Waiters'
    BY <1>a, <1>b, <2>c DEF Waiters, TypeOK
  <2>4. Objects'
    BY <1>a, <1>b, <1>c, <2>c, HandFacts DEF Objects, TypeOK
  <2>5. pushed' = ran' \o InHand' \o chan'
    BY <1>a, <1>d, <1>f, <2>c, HandFacts DEF Histories
  <2>6. \A u \in touched : kind'[u] = kind[u]
    BY <1>a, <2>c DEF TypeOK
  <2>7. Histories'
    BY <1>a, <1>b, <1>c, <1>d, <2>c, <2>5, <2>6, HandFacts DEF Histories, TypeOK
  <2> QED
    BY <2>1, <2>2, <2>3, <2>4, <2>7 DEF IInv
<1> QED
  BY <1>a, <1>1, <1>2 DEF Run, TypeOK, chanVars

(***************************************************************************)
(* The waiter of the object in hand is signalled.                          *)
(***************************************************************************)
LEMMA JoinObjectIInv ==
  ASSUME IInv, JoinObject
  PROVE  IInv'
<1> USE DEF chanVars, objVars
<1>a. TypeOK /\ Loop /\ Objects /\ Holders /\ Waiters /\ Histories /\ PollNeverLost
  BY DEF IInv
<1>b. /\ qpc = "join" /\ cur \notin locked /\ qpc' = "release"
      /\ UNCHANGED <<chan, pushed, kind, freed, locked, call, refs, cur, timer, loopbreak, joined, ran, touched>>
  BY DEF JoinObject
<1>c. /\ pc' \in [Clients -> ClientPCs]
      /\ \A c \in Clients : pc'[c] = IF pc[c] = "waiting" /\ call[c] = cur
                                       THEN "woken" ELSE pc[c]
  BY <1>a DEF JoinObject, TypeOK, ClientPCs
<1>d. ~Destroyed /\ ~Destroyed'
  BY <1>a, <1>b, <1>c DEF Holders, Destroyed, InDtor
<1>e. \A c \in Clients : pc[c] = "locked" => call[c] # cur
  BY <1>a, <1>b DEF Waiters
<1>1. TypeOK'
  BY <1>a, <1>b, <1>c DEF TypeOK, QueuePCs
<1>2. Loop' /\ PollNeverLost'
  BY <1>a, <1>b DEF Loop, PollNeverLost
<1>3. Objects'
  BY <1>a, <1>b DEF Objects
<1>4. Holders'
  BY <1>a, <1>b, <1>c, <1>d, OwnerAssumption DEF Holders, InDtor
<1>5. Waiters'
  BY <1>a, <1>b, <1>c, <1>e DEF Waiters
<1>6. Histories'
  <2>1. InHand = <<>> /\ InHand' = <<>>
    BY <1>b DEF InHand
  <2> QED
    BY <1>a, <1>b, <1>c, <1>d, <2>1 DEF Histories
<1> QED
  BY <1>1, <1>2, <1>3, <1>4, <1>5, <1>6 DEF IInv

(***************************************************************************)
(* The object in hand is deleted.                                          *)
(***************************************************************************)
LEMMA ReleaseObjectIInv ==
  ASSUME IInv, ReleaseObject
  PROVE  IInv'
<1> USE DEF chanVars, clientVars
<1>a. TypeOK /\ Loop /\ Objects /\ Holders /\ Waiters /\ Histories /\ PollNeverLost
  BY DEF IInv
<1>b. /\ qpc = "release" /\ freed' = freed \union {cur} /\ cur' = Nil
      /\ qpc' \in {"pop", "rearm"} /\ (qpc' = "pop" => ~loopbreak)
      /\ UNCHANGED <<chan, pushed, kind, locked, pc, call, refs, timer, loopbreak, joined, ran, touched>>
  BY DEF ReleaseObject, NextPop
<1>c. cur \in Tasks /\ ~Destroyed /\ ~Destroyed'
  BY <1>a, <1>b DEF TypeOK, Holders, Destroyed
<1>1. TypeOK'
  BY <1>a, <1>b, <1>c DEF TypeOK, QueuePCs
<1>2. Loop' /\ PollNeverLost'
  BY <1>a, <1>b DEF Loop, PollNeverLost
<1>3. Objects'
  BY <1>a, <1>b, <1>c, NilAssumption, HandFacts DEF Objects
<1>4. Holders'
  BY <1>a, <1>b, <1>c DEF Holders
<1>5. Waiters'
  BY <1>a, <1>b DEF Waiters
<1>6. Histories'
  <2>1. InHand = <<>> /\ InHand' = <<>>
    BY <1>b DEF InHand
  <2> QED
    BY <1>a, <1>b, <1>c, <2>1 DEF Histories
<1> QED
  BY <1>1, <1>2, <1>3, <1>4, <1>5, <1>6 DEF IInv

(***************************************************************************)
(* The inductive invariant holds in every reachable state.                 *)
(***************************************************************************)
LEMMA NextIInv == IInv /\ [Next]_vars => IInv'
<1> SUFFICES ASSUME IInv, [Next]_vars PROVE IInv'
  OBVIOUS
<1>1. ASSUME NEW c \in Clients, NEW t \in Tasks, Async(c, t) PROVE IInv'
  BY <1>1, PushOnlyIInv DEF Async
<1>2. ASSUME NEW c \in Clients, NEW t \in Tasks, LoopBreak(c, t) PROVE IInv'
  BY <1>2, PushOnlyIInv DEF LoopBreak
<1>3. ASSUME NEW c \in Clients, NEW t \in Tasks, SyncPush(c, t) PROVE IInv'
  BY <1>3, SyncPushIInv
<1>4. ASSUME NEW t \in Tasks, JoinBegin(t) PROVE IInv'
  BY <1>4, PushBreakIInv, OwnerAssumption DEF JoinBegin, ClientPCs
<1>5. ASSUME NEW c \in Clients, NEW t \in Tasks, DtorBreak(c, t) PROVE IInv'
  <2>1. joined
    BY <1>5 DEF DtorBreak, IInv, Holders, InDtor
  <2> QED
    BY <1>5, <2>1, PushBreakIInv DEF DtorBreak, ClientPCs, InDtor
<1>6. CASE UNCHANGED vars
  BY <1>6 DEF vars, IInv, TypeOK, Loop, Objects, Holders, Waiters, Histories,
              PollNeverLost, Destroyed, InHand
<1> QED
  BY <1>1, <1>2, <1>3, <1>4, <1>5, <1>6, SyncStepsIInv, HoldersStepsIInv, DtorFreeIInv,
     IdleStepsIInv, PopIInv, RunIInv, JoinObjectIInv, ReleaseObjectIInv
  DEF Next, ClientCalls, ClientMoves, QueueStep

(***************************************************************************)
(* The inductive invariant is an invariant.                                *)
(***************************************************************************)
THEOREM Invariance == Spec => []IInv
<1> QED
  BY InitIInv, NextIInv, PTL DEF Spec

-----------------------------------------------------------------------------
(***************************************************************************)
(* Every variable keeps its type (DispatchQueue, Chan, DispatchObject).    *)
(***************************************************************************)
THEOREM TypeCorrect == Spec => []TypeOK
<1>1. IInv => TypeOK
  BY DEF IInv
<1> QED
  BY <1>1, Invariance, PTL

(***************************************************************************)
(* Objects run in the order of their pushes, once, and none is lost        *)
(* (Chan::push, Chan::pop, DispatchQueue::run).                            *)
(***************************************************************************)
THEOREM Order == Spec => []ExactlyOnceInOrder
<1>1. IInv => ExactlyOnceInOrder
  BY DEF IInv, Histories, ExactlyOnceInOrder
<1> QED
  BY <1>1, Invariance, PTL

(***************************************************************************)
(* A blocked sync() is still to be signalled (DispatchObject::wait, join). *)
(***************************************************************************)
THEOREM WakeupPending == Spec => []NoLostWakeup
<1>1. IInv => NoLostWakeup
  BY DEF IInv, Waiters, NoLostWakeup
<1> QED
  BY <1>1, Invariance, PTL

(***************************************************************************)
(* A DispatchObject is deleted once, after it ran or with the channel, and *)
(* used after that only by the waiter that was already signalled.          *)
(***************************************************************************)
THEOREM Lifetime == Spec => []ObjectLifetime
<1>1. IInv => ObjectLifetime
  BY NilAssumption DEF IInv, TypeOK, Objects, Waiters, Histories, ObjectLifetime
<1> QED
  BY <1>1, Invariance, PTL

(***************************************************************************)
(* The poll timer is lost only to a destructor without a join() before it. *)
(***************************************************************************)
THEOREM Polling == Spec => []PollNeverLost
<1>1. IInv => PollNeverLost
  BY DEF IInv
<1> QED
  BY <1>1, Invariance, PTL

(***************************************************************************)
(* The destructor frees the queue after its thread has ended, with no      *)
(* client inside a call, and leaves no DispatchObject behind.              *)
(***************************************************************************)
THEOREM Destruction == Spec => []CleanDestruction
<1>1. IInv => CleanDestruction
  <2> SUFFICES ASSUME IInv PROVE CleanDestruction
    OBVIOUS
  <2>1. Holders /\ Objects /\ TypeOK
    BY DEF IInv
  <2>2. ASSUME NEW c \in Clients, pc[c] = "dtorFree" PROVE qpc = "exited"
    <3>1. pc[Owner] # "joining" /\ \A d \in Clients : pc[d] \notin {"dtorBreak", "dtorJoin"}
      BY <2>1, <2>2, OwnerAssumption DEF Holders, InDtor
    <3> QED
      BY <2>1, <2>2, <3>1 DEF Holders, InDtor
  <2>3. ASSUME Destroyed
        PROVE  /\ \A c \in Clients : pc[c] = "gone"
               /\ \A t \in Tasks : kind[t] # "none" => t \in freed
    <3>1. \A c \in Clients : pc[c] = "gone"
      BY <2>1, <2>3 DEF Holders, Destroyed
    <3>2. Range(chan) = {} /\ cur = Nil
      BY <2>1, <2>3, RangeType DEF Holders, TypeOK
    <3> QED
      BY <2>1, <3>1, <3>2, NilAssumption DEF Objects
  <2> QED
    BY <2>2, <2>3 DEF CleanDestruction
<1> QED
  BY <1>1, Invariance, PTL

(***************************************************************************)
(* Nothing runs once the loop is broken (while(!_loopbreak)).              *)
(***************************************************************************)
THEOREM BreakIsFinal == Spec => NothingAfterBreak
<1>1. IInv /\ [Next]_vars => [loopbreak => ran' = ran]_vars
  <2> SUFFICES ASSUME IInv, [Next]_vars, loopbreak
               PROVE  ran' = ran
    OBVIOUS
  <2>1. ~Run
    BY DEF IInv, Loop, Run
  <2> QED
    BY <2>1 DEF Next, ClientCalls, ClientMoves, QueueStep, vars, Async, SyncPush, SyncWait,
       SpuriousWakeup, SyncReturn, LoopBreak, JoinBegin, JoinEnd, Drop, DtorBreak, DtorJoin,
       DtorFree, Fire, Pop, PopEmpty, JoinObject, ReleaseObject, Rearm, Exit
<1> QED
  BY <1>1, Invariance, PTL DEF Spec, NothingAfterBreak

(***************************************************************************)
(* When join() returns the queue thread has ended and holds no object.     *)
(***************************************************************************)
THEOREM JoinIsQuiet == Spec => JoinQuiesces
<1> DEFINE A == pc[Owner] = "joining" /\ pc'[Owner] = "idle" =>
                  qpc = "exited" /\ cur = Nil /\ Range(ran) \subseteq freed
<1>1. IInv /\ [Next]_vars => [A]_vars
  <2> SUFFICES ASSUME IInv, [Next]_vars, pc[Owner] = "joining", pc'[Owner] = "idle"
               PROVE  qpc = "exited" /\ cur = Nil /\ Range(ran) \subseteq freed
    OBVIOUS
  <2> USE OwnerAssumption
  <2>a. TypeOK /\ Histories
    BY DEF IInv
  <2>1. JoinEnd
    <3>1. \A c \in Clients :
            /\ \A t \in Tasks : /\ ~Async(c, t) /\ ~SyncPush(c, t) /\ ~LoopBreak(c, t)
                                /\ ~DtorBreak(c, t) /\ ~JoinBegin(t)
            /\ ~SyncWait(c) /\ ~SpuriousWakeup(c) /\ ~SyncReturn(c)
            /\ ~Drop(c) /\ ~DtorJoin(c) /\ ~DtorFree(c)
      BY <2>a DEF TypeOK, clientVars, Async, SyncPush, LoopBreak, DtorBreak, JoinBegin,
         SyncWait, SpuriousWakeup, SyncReturn, Drop, DtorJoin, DtorFree
    <3>2. ~QueueStep /\ ~UNCHANGED vars
      BY <2>a DEF TypeOK, vars, clientVars, QueueStep, Fire, Pop, PopEmpty, Run, JoinObject,
         ReleaseObject, Rearm, Exit
    <3> QED
      BY <3>1, <3>2 DEF Next, ClientCalls, ClientMoves
  <2>2. qpc = "exited" /\ cur = Nil
    BY <2>1, <2>a DEF JoinEnd, ThreadEnded, TypeOK
  <2>3. Range(ran) \subseteq Tasks
    BY <2>a, HandFacts
  <2> QED
    BY <2>a, <2>2, <2>3, NilAssumption DEF Histories
<1> QED
  BY <1>1, Invariance, PTL DEF Spec, JoinQuiesces

(***************************************************************************)
(* sync() returns only after its function ran.                             *)
(***************************************************************************)
THEOREM SyncIsSynchronous == Spec => SyncAfterRun
<1> DEFINE A == \A c \in Clients :
                  ~Spurious /\ pc[c] \in {"locked", "waiting", "woken"} /\ pc'[c] = "idle"
                    => call[c] \in Range(ran)
<1>1. IInv /\ [Next]_vars => [A]_vars
  <2> SUFFICES ASSUME IInv, [Next]_vars, NEW c \in Clients, ~Spurious,
                      pc[c] \in {"locked", "waiting", "woken"}, pc'[c] = "idle"
               PROVE  call[c] \in Range(ran)
    OBVIOUS
  <2> USE OwnerAssumption
  <2>a. TypeOK /\ Histories
    BY DEF IInv
  <2>1. pc[c] = "woken"
    <3>1. \A d \in Clients :
            /\ \A t \in Tasks : /\ ~Async(d, t) /\ ~LoopBreak(d, t)
                                /\ ~SyncPush(d, t) /\ ~DtorBreak(d, t) /\ ~JoinBegin(t)
            /\ ~SyncWait(d) /\ ~SpuriousWakeup(d) /\ ~JoinEnd
            /\ ~Drop(d) /\ ~DtorJoin(d) /\ ~DtorFree(d)
      BY <2>a DEF TypeOK, clientVars, Async, SyncPush, LoopBreak, DtorBreak, JoinBegin,
         SyncWait, SpuriousWakeup, JoinEnd, Drop, DtorJoin, DtorFree
    <3>2. ~QueueStep /\ ~UNCHANGED vars
      BY <2>a DEF TypeOK, vars, clientVars, QueueStep, Fire, Pop, PopEmpty, Run, JoinObject,
         ReleaseObject, Rearm, Exit
    <3>3. \E d \in Clients : SyncReturn(d)
      BY <3>1, <3>2 DEF Next, ClientCalls, ClientMoves
    <3> QED
      BY <3>3, <2>a DEF SyncReturn, TypeOK
  <2> QED
    BY <2>1, <2>a DEF Histories
<1> QED
  BY <1>1, Invariance, PTL DEF Spec, SyncAfterRun

-----------------------------------------------------------------------------
(***************************************************************************)
(* The inbox of the executor under a push, and in the queue thread's hand. *)
(***************************************************************************)
LEMMA InboxFacts ==
  ASSUME TypeOK
  PROVE  /\ \A t \in Tasks : InHand \o Append(chan, t) = Append(InHand \o chan, t)
         /\ \A s \in Seq(Tasks) : <<>> \o s = s
         /\ chan # <<>> => <<Head(chan)>> \o Tail(chan) = chan
         /\ \A t \in Tasks : /\ <<t>> \o chan # <<>>
                             /\ Head(<<t>> \o chan) = t /\ Tail(<<t>> \o chan) = chan
<1>1. chan \in Seq(Tasks) /\ InHand \in Seq(Tasks)
  BY HandFacts DEF TypeOK
<1>2. <<>> \in Seq(Tasks)
  OBVIOUS
<1>3. chan # <<>> => <<Head(chan)>> \o Tail(chan) = chan
  BY <1>1, <1>2, ConcatHeadTail, ConcatEmptySeq, HeadTailProperties, AppendIsConcat
<1>4. ASSUME NEW t \in Tasks
      PROVE  <<t>> \o chan # <<>> /\ Head(<<t>> \o chan) = t /\ Tail(<<t>> \o chan) = chan
  BY <1>1
<1> QED
  BY <1>1, <1>3, <1>4, ConcatAppend, ConcatEmptySeq

(***************************************************************************)
(* Every step of the queue is a step of the executor or leaves it alone:   *)
(* a push is a Submit or a Call, running an object is Execute, the return  *)
(* of sync() is Return, and emptying the channel is Discard.               *)
(***************************************************************************)
LEMMA StepImplements ==
  ASSUME ~Spurious, IInv, [Next]_vars
  PROVE  [SE!Next]_SE!vars
<1> USE DEF chanVars, objVars, clientVars, threadVars
<1>a. TypeOK /\ Loop /\ Objects /\ Holders /\ Waiters /\ Histories
  BY DEF IInv
<1> DEFINE used == {t \in Tasks : kind[t] # "none"}
           open == ~loopbreak /\ ~Asleep
<1>b. ASSUME NEW t \in Tasks, NEW k \in Kinds \ {"none"}, Create(t, k)
      PROVE  t \notin used /\ used' = used \union {t}
  BY <1>a, <1>b DEF Create, TypeOK
<1>c. ASSUME UNCHANGED <<chan, kind, qpc, cur, ran, call, refs, timer, loopbreak>>
      PROVE  UNCHANGED SE!vars
  BY <1>c DEF SE!vars, InHand, Asleep
<1>1. ASSUME NEW t \in Tasks, NEW k \in Kinds \ {"none"}, Create(t, k), Push(t),
             UNCHANGED <<qpc, cur, ran, call, refs, timer, loopbreak>>
      PROVE  SE!Submit(t)
  <2>1. (InHand \o chan)' = Append(InHand \o chan, t)
    BY <1>a, <1>1, InboxFacts DEF Push, InHand
  <2> QED
    BY <1>b, <1>1, <2>1 DEF SE!Submit, Asleep
<1>2. ASSUME NEW c \in Clients, NEW t \in Tasks, SyncPush(c, t)
      PROVE  SE!Call(c, t)
  <2>1. (InHand \o chan)' = Append(InHand \o chan, t)
    BY <1>a, <1>2, InboxFacts DEF Push, InHand, SyncPush
  <2>2. call[c] = Nil /\ c \in refs
    BY <1>a, <1>2 DEF SyncPush, Waiters, Holders, InDtor
  <2> QED
    BY <1>b, <1>2, <2>1, <2>2 DEF SE!Call, SyncPush, Kinds, Asleep
<1>3. ASSUME NEW c \in Clients, SyncReturn(c)
      PROVE  SE!Return(c)
  <2>1. call[c] \in Range(ran)
    BY <1>a, <1>3 DEF SyncReturn, Histories
  <2>2. Range(ran) = {ran[i] : i \in 1 .. Len(ran)}
    BY <1>a, RangeEquality DEF TypeOK
  <2>3. UNCHANGED <<InHand \o chan, ran, used, refs, open>>
    BY <1>3 DEF SyncReturn, InHand, Asleep
  <2> QED
    BY <1>3, <2>1, <2>2, <2>3 DEF SE!Return, SyncReturn
<1>4. ASSUME Run
      PROVE  SE!Execute
  <2>1. /\ InHand = <<cur>> /\ InHand' = <<>> /\ cur \in Tasks /\ ~loopbreak
        /\ ~Asleep /\ ~Asleep'
    BY <1>a, <1>4 DEF Run, InHand, TypeOK, Loop, Asleep
  <2>2. /\ InHand \o chan # <<>> /\ Head(InHand \o chan) = cur
        /\ Tail(InHand \o chan) = chan
    <3>1. /\ <<cur>> \o chan # <<>>
          /\ Head(<<cur>> \o chan) = cur /\ Tail(<<cur>> \o chan) = chan
      BY <1>a, <2>1, InboxFacts, Zenon
    <3> QED
      BY <2>1, <3>1, Zenon
  <2>3. CASE UNCHANGED <<chan, kind>> /\ loopbreak' \in BOOLEAN
    <3>1. (InHand \o chan)' = Tail(InHand \o chan)
      <4>1. chan \in Seq(Tasks)
        BY <1>a DEF TypeOK
      <4>2. <<>> \o chan = chan
        BY <1>a, <4>1, InboxFacts, Zenon
      <4> QED
        BY <2>1, <2>2, <2>3, <4>2
    <3>2. UNCHANGED used
      BY <2>3
    <3> QED
      BY <1>4, <2>1, <2>2, <2>3, <3>1, <3>2 DEF SE!Execute, Run
  <2>4. ASSUME NEW t \in Tasks, Create(t, "async"), Push(t), UNCHANGED loopbreak
        PROVE  SE!Execute
    <3>1. (InHand \o chan)' = Append(Tail(InHand \o chan), t)
      BY <1>a, <2>1, <2>2, <2>4, InboxFacts, AppendProperties DEF Push, TypeOK
    <3>2. t \in Tasks \ used /\ used' = used \union {t}
      BY <1>b, <2>4 DEF Kinds
    <3> QED
      BY <1>4, <2>1, <2>2, <2>4, <3>1, <3>2 DEF SE!Execute, Run
  <2> QED
    BY <1>a, <1>4, <2>3, <2>4 DEF Run, TypeOK
<1>5. ASSUME NEW c \in Clients, DtorFree(c)
      PROVE  SE!Discard \/ UNCHANGED SE!vars
  <2>1. qpc = "exited" /\ loopbreak
    <3>1. pc[Owner] # "joining" /\ \A d \in Clients : pc[d] \notin {"dtorBreak", "dtorJoin"}
      BY <1>a, <1>5, OwnerAssumption DEF DtorFree, Holders, InDtor
    <3> QED
      BY <1>a, <1>5, <3>1 DEF DtorFree, Holders, InDtor, Loop
  <2>2. InHand \o chan = chan /\ (InHand \o chan)' = <<>>
    BY <1>a, <1>5, <2>1, InboxFacts DEF DtorFree, InHand, TypeOK
  <2>3. UNCHANGED <<ran, used, call, refs, open>>
    BY <1>5 DEF DtorFree, Asleep
  <2> QED
    BY <2>1, <2>2, <2>3, <1>5 DEF SE!Discard, SE!vars, DtorFree
<1>6. ASSUME Pop
      PROVE  UNCHANGED SE!vars
  <2>1. InHand \o chan = chan /\ (InHand \o chan)' = chan
    BY <1>a, <1>6, InboxFacts DEF Pop, InHand, TypeOK
  <2> QED
    BY <1>6, <2>1 DEF Pop, SE!vars, Asleep
<1>7. ASSUME Fire \/ PopEmpty \/ JoinObject \/ ReleaseObject \/ Rearm \/ Exit
      PROVE  UNCHANGED SE!vars
  <2>1. UNCHANGED InHand
    BY <1>7 DEF Fire, PopEmpty, JoinObject, ReleaseObject, Rearm, Exit, InHand, NextPop
  <2>2. UNCHANGED <<chan, kind, ran, call, refs, loopbreak>>
    BY <1>7 DEF Fire, PopEmpty, JoinObject, ReleaseObject, Rearm, Exit
  <2>3. ~Asleep /\ ~Asleep'
    BY <1>7 DEF Fire, PopEmpty, JoinObject, ReleaseObject, Rearm, Exit, NextPop, Asleep
  <2> QED
    BY <2>1, <2>2, <2>3 DEF SE!vars
<1>8. ASSUME NEW c \in Clients, SyncWait(c) \/ DtorJoin(c)
      PROVE  UNCHANGED SE!vars
  BY <1>c, <1>8 DEF SyncWait, DtorJoin
<1>9. ASSUME NEW c \in Clients, NEW t \in Tasks,
             Async(c, t) \/ LoopBreak(c, t) \/ JoinBegin(t) \/ DtorBreak(c, t)
      PROVE  SE!Submit(t)
  BY <1>1, <1>9 DEF Async, LoopBreak, JoinBegin, DtorBreak, Kinds
<1>10. CASE UNCHANGED vars
  BY <1>c, <1>10 DEF vars
<1>11. CASE JoinEnd
  <2>1. UNCHANGED <<InHand, chan, kind, ran, call, refs, loopbreak>>
    BY <1>11 DEF JoinEnd, InHand
  <2>2. ~Asleep /\ ~Asleep'
    BY <1>11 DEF JoinEnd, ThreadEnded, Asleep
  <2> QED
    BY <2>1, <2>2 DEF SE!vars
<1>12. ASSUME NEW c \in Clients, Drop(c)
       PROVE  SE!Leave(c)
  <2>1. call[c] = Nil /\ c \in refs /\ refs' = refs \ {c}
    BY <1>a, <1>12 DEF Drop, Waiters
  <2>2. UNCHANGED <<InHand, InHand \o chan, ran, used, call>>
    BY <1>12 DEF Drop, InHand
  <2>3. UNCHANGED open \/ (refs' = {} /\ ~open')
    BY <1>12 DEF Drop, Asleep
  <2> QED
    BY <2>1, <2>2, <2>3 DEF SE!Leave
<1> QED
  BY <1>2, <1>3, <1>4, <1>5, <1>6, <1>7, <1>8, <1>9, <1>10, <1>11, <1>12
  DEF Next, ClientCalls, ClientMoves, QueueStep, SpuriousWakeup, SE!Next

(***************************************************************************)
(* DispatchQueue implements SerialExecutor, when pthread_cond_wait ends    *)
(* only on a broadcast: tasks are executed in order, one at a time, and    *)
(* sync() is synchronous.                                                  *)
(***************************************************************************)
THEOREM Implementation == ASSUME ~Spurious PROVE Spec => ImplementsExecutor
<1>1. Init => SE!Init
  BY ConcatEmptySeq DEF Init, SE!Init, InHand, Asleep
<1>2. IInv /\ [Next]_vars => [SE!Next]_SE!vars
  BY StepImplements
<1> QED
  BY <1>1, <1>2, Invariance, PTL DEF Spec, SE!Spec, ImplementsExecutor
=============================================================================
