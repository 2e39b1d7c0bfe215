------------------------- MODULE EventEmitterProofs -------------------------
(***************************************************************************)
(* Proofs about EventEmitter, for any names, callbacks, functions and any  *)
(* nesting of emit().                                                      *)
(***************************************************************************)
EXTENDS EventEmitter, SequenceTheorems, TLAPS

(***************************************************************************)
(* The inductive invariant, in named parts.                                *)
(***************************************************************************)
Entry == [name : AnyName, func : Funcs \union {NoFunc}] \union {Hole}

Typed ==
  /\ native \subseteq made /\ made \subseteq Callbacks /\ deleted \subseteq made
  /\ name \in [Callbacks -> Names]
  /\ counts \in [Names -> Nat]
  /\ frames \in Seq(SUBSET Callbacks) /\ InFrames(frames) \subseteq made
  /\ events \in Seq(Entry)

(***************************************************************************)
(* Whole: only off() with a function damages an entry.                     *)
(***************************************************************************)
Whole ==
  \A i \in DOMAIN events : events[i].name \in Names \ misnamed => events[i].func \in Funcs

(***************************************************************************)
(* Counted: what is not counted is not there, a count of one is one        *)
(* listener at most, and exactly one when off() could read the names.      *)
(***************************************************************************)
Counted(n) ==
  n \notin misnamed =>
    /\ counts[n] = 0 => Nobody(n)
    /\ counts[n] = 1 => Nobody(n) \/ Sole(n)
    /\ counts[n] = 1 /\ n \notin unread => Sole(n)

IInv == Typed /\ Whole /\ DueAreAlive /\ \A n \in Names : Counted(n)

-----------------------------------------------------------------------------
(***************************************************************************)
(* What happens to a name: nothing, one listener more, or some fewer.      *)
(***************************************************************************)
LEMMA Same ==
  ASSUME NEW n \in Names, Counted(n), counts'[n] = counts[n],
         NativeFor(n)' = NativeFor(n), EntriesFor(n)' = EntriesFor(n),
         misnamed \subseteq misnamed', unread \subseteq unread'
  PROVE  Counted(n)'
<1>1. Nobody(n)' <=> Nobody(n)
  BY DEF Nobody
<1>2. Sole(n) => Sole(n)'
  <2>1. ASSUME NEW c \in native, NativeFor(n) = {c}, EntriesFor(n) = {}
        PROVE  Sole(n)'
    <3>1. c \in native' /\ NativeFor(n)' = {c} /\ EntriesFor(n)' = {}
      BY <2>1 DEF NativeFor
    <3> QED
      BY <3>1 DEF Sole
  <2>2. ASSUME NEW i \in DOMAIN events, EntriesFor(n) = {i}, NativeFor(n) = {}
        PROVE  Sole(n)'
    <3>1. i \in DOMAIN events' /\ EntriesFor(n)' = {i} /\ NativeFor(n)' = {}
      BY <2>2 DEF EntriesFor
    <3> QED
      BY <3>1 DEF Sole
  <2> QED
    BY <2>1, <2>2 DEF Sole
<1> QED
  BY <1>1, <1>2 DEF Counted

LEMMA OneMore ==
  ASSUME NEW n \in Names, Counted(n), counts[n] \in Nat, counts'[n] = counts[n] + 1,
         Nobody(n) => Sole(n)', misnamed \subseteq misnamed'
  PROVE  Counted(n)'
<1>1. counts'[n] # 0 /\ (counts'[n] = 1 => counts[n] = 0)
  OBVIOUS
<1> QED
  BY <1>1 DEF Counted

LEMMA SomeFewer ==
  ASSUME NEW n \in Names, Counted(n), counts[n] \in Nat,
         NativeFor(n)' \subseteq NativeFor(n), EntriesFor(n)' \subseteq EntriesFor(n),
         NativeFor(n)' # NativeFor(n) \/ EntriesFor(n)' # EntriesFor(n),
         misnamed \subseteq misnamed',
         \/ counts'[n] = IF counts[n] <= 1 THEN 0 ELSE counts[n]
         \/ counts'[n] = counts[n] /\ n \in unread'
  PROVE  Counted(n)'
<1> SUFFICES ASSUME n \notin misnamed PROVE Counted(n)'
  BY DEF Counted
<1>1. ~Nobody(n)
  BY DEF Nobody
<1>2. counts[n] # 0
  BY <1>1 DEF Counted
<1>3. CASE counts[n] = 1
  <2>1. Sole(n)
    BY <1>1, <1>3 DEF Counted
  <2>2. Nobody(n)'
    BY <2>1 DEF Sole, Nobody
  <2>3. counts'[n] = 0 \/ n \in unread'
    BY <1>3
  <2> QED
    BY <2>2, <2>3, <1>3 DEF Counted
<1>4. CASE counts[n] # 1
  <2>1. counts'[n] # 0 /\ counts'[n] # 1
    BY <1>2, <1>4
  <2> QED
    BY <2>1 DEF Counted
<1> QED
  BY <1>3, <1>4

LEMMA Removed ==
  ASSUME NEW N, RemoveNames(N), counts \in [Names -> Nat]
  PROVE  /\ counts' \in [Names -> Nat]
         /\ \A n \in Names \ N : counts'[n] = counts[n]
         /\ \A n \in Names \intersect N :
              counts'[n] = IF counts[n] <= 1 THEN 0 ELSE counts[n]
  BY DEF RemoveNames, Drops

(***************************************************************************)
(* Entries and holes.                                                      *)
(***************************************************************************)
LEMMA Entries ==
  ASSUME events \in Seq(Entry)
  PROVE  /\ Len(events) \in Nat /\ DOMAIN events = 1 .. Len(events)
         /\ \A i \in DOMAIN events : events[i] \in Entry
         /\ Scanned \subseteq DOMAIN events
  BY ElementOfSeq DEF Scanned

LEMMA InitIInv == Init => IInv
  BY DEF Init, IInv, Typed, Whole, DueAreAlive, Counted, Nobody, NativeFor, EntriesFor, InFrames

-----------------------------------------------------------------------------
(***************************************************************************)
(* Each action preserves the inductive invariant.                          *)
(***************************************************************************)
LEMMA OnIInv ==
  ASSUME IInv, NEW c \in Callbacks, On(c)
  PROVE  IInv'
<1>a. Typed /\ Whole /\ DueAreAlive /\ \A n \in Names : Counted(n)
  BY DEF IInv
<1> USE DEF On
<1>b. name[c] \in Names /\ c \notin native /\ c \notin deleted
  BY <1>a DEF Typed
<1>1. Typed'
  <2>1. counts' \in [Names -> Nat]
    BY <1>a, <1>b DEF Typed, Add
  <2>2. InFrames(frames)' = InFrames(frames)
    BY DEF InFrames
  <2> QED
    BY <1>a, <2>1, <2>2 DEF Typed
<1>2. Whole' /\ DueAreAlive'
  BY <1>a, <1>b DEF Whole, DueAreAlive, InFrames
<1>3. ASSUME NEW n \in Names
      PROVE  Counted(n)'
  <2>1. EntriesFor(n)' = EntriesFor(n)
    BY DEF EntriesFor
  <2>2. NativeFor(n)' = NativeFor(n) \union (IF name[c] = n THEN {c} ELSE {})
    BY <1>b DEF NativeFor
  <2>3. CASE n # name[c]
    <3>1. counts'[n] = counts[n]
      BY <1>a, <1>b, <2>3 DEF Add, Typed
    <3> QED
      BY <1>a, <2>1, <2>2, <2>3, <3>1, Same
  <2>4. CASE n = name[c]
    <3>1. counts'[n] = counts[n] + 1 /\ counts[n] \in Nat
      BY <1>a, <1>b, <2>4 DEF Add, Typed
    <3>2. Nobody(n) => Sole(n)'
      BY <2>1, <2>2, <2>4 DEF Nobody, Sole
    <3> QED
      BY <1>a, <3>1, <3>2, OneMore
  <2> QED
    BY <2>3, <2>4
<1> QED
  BY <1>1, <1>2, <1>3 DEF IInv

LEMMA OffIInv ==
  ASSUME IInv, NEW C, Off(C)
  PROVE  IInv'
<1>a. Typed /\ Whole /\ DueAreAlive /\ \A n \in Names : Counted(n)
  BY DEF IInv
<1> DEFINE freed == C \ Retained
<1>b. /\ C # {} /\ C \subseteq native /\ native' = native \ C /\ deleted' = deleted \union freed
      /\ UNCHANGED <<name, made, events, frames>>
  BY DEF Off
<1>d. PICK read \in [C -> AnyName] : RemoveRead([c \in C |-> name[c]], read)
  BY DEF Off
<1> DEFINE N == {read[c] : c \in C}
<1>c. /\ RemoveNames(N)
      /\ misnamed \subseteq misnamed' /\ unread \subseteq unread'
      /\ \A c \in C : name[c] \in Names => name[c] \in N \union unread'
      /\ \A n \in N \intersect Names : n \in {name[c] : c \in C} \union misnamed'
  BY <1>d DEF RemoveRead
<1> HIDE DEF N
<1>1. Typed'
  <2>1. counts' \in [Names -> Nat]
    BY <1>a, <1>c, Removed DEF Typed
  <2>2. InFrames(frames)' = InFrames(frames)
    BY <1>b DEF InFrames
  <2> QED
    BY <1>a, <1>b, <2>1, <2>2 DEF Typed
<1>2. Whole' /\ DueAreAlive'
  BY <1>a, <1>b, <1>c DEF Whole, DueAreAlive, InFrames, Retained
<1>3. ASSUME NEW n \in Names
      PROVE  Counted(n)'
  <2>1. EntriesFor(n)' = EntriesFor(n) /\ NativeFor(n)' = NativeFor(n) \ C
    BY <1>b DEF EntriesFor, NativeFor
  <2>0. SUFFICES ASSUME n \notin misnamed' PROVE Counted(n)'
    BY DEF Counted
  <2>2. CASE n \notin {name[c] : c \in C}
    <3>1. NativeFor(n)' = NativeFor(n)
      BY <1>b, <2>1, <2>2 DEF NativeFor
    <3>2. counts'[n] = counts[n]
      BY <1>a, <1>c, <2>0, <2>2, Removed DEF Typed
    <3> QED
      BY <1>a, <1>b, <1>c, <2>1, <3>1, <3>2, Same
  <2>3. ASSUME NEW c \in C, n = name[c]
        PROVE  Counted(n)'
    <3>1. c \in NativeFor(n) /\ c \notin NativeFor(n)'
      BY <1>b, <2>1, <2>3 DEF NativeFor
    <3>2. n \in N \/ (n \notin N /\ n \in unread')
      BY <1>c, <2>3
    <3>3. \/ counts'[n] = IF counts[n] <= 1 THEN 0 ELSE counts[n]
          \/ counts'[n] = counts[n] /\ n \in unread'
      BY <1>a, <1>c, <3>2, Removed DEF Typed
    <3> QED
      BY <1>a, <1>b, <1>c, <2>1, <3>1, <3>3, SomeFewer DEF Typed
  <2> QED
    BY <2>2, <2>3
<1> QED
  BY <1>1, <1>2, <1>3 DEF IInv

LEMMA DukOnIInv ==
  ASSUME IInv, NEW m \in Names, NEW f \in Funcs, DukOn(m, f)
  PROVE  IInv'
<1>a. Typed /\ Whole /\ DueAreAlive /\ \A n \in Names : Counted(n)
  BY DEF IInv
<1> DEFINE e == [name |-> m, func |-> f]
           k == Len(events) + 1
<1>b. /\ events' = Append(events, e) /\ Add(m)
      /\ UNCHANGED <<native, name, made, deleted, frames, misnamed, unread>>
  BY DEF DukOn
<1>c. /\ k \in DOMAIN events' /\ DOMAIN events' = DOMAIN events \union {k} /\ k \notin DOMAIN events
      /\ events'[k] = e /\ \A i \in DOMAIN events : events'[i] = events[i]
      /\ events' \in Seq(Entry)
  <2>1. e \in Entry
    BY DEF Entry, AnyName
  <2>2. Len(events) \in Nat /\ DOMAIN events = 1 .. Len(events) /\ events \in Seq(Entry)
    BY <1>a, Entries DEF Typed
  <2>3. \A j \in Nat : /\ 1 .. j + 1 = 1 .. j \union {j + 1} /\ j + 1 \notin 1 .. j
    OBVIOUS
  <2> QED
    BY <1>b, <2>1, <2>2, <2>3
<1>1. Typed'
  <2>1. counts' \in [Names -> Nat]
    BY <1>a, <1>b DEF Typed, Add
  <2>2. InFrames(frames)' = InFrames(frames)
    BY <1>b DEF InFrames
  <2> QED
    BY <1>a, <1>b, <1>c, <2>1, <2>2 DEF Typed
<1>2. Whole' /\ DueAreAlive'
  BY <1>a, <1>b, <1>c DEF Whole, DueAreAlive, InFrames
<1>3. ASSUME NEW n \in Names
      PROVE  Counted(n)'
  <2>1. NativeFor(n)' = NativeFor(n)
    BY <1>b DEF NativeFor
  <2>2. EntriesFor(n)' = EntriesFor(n) \union (IF m = n THEN {k} ELSE {})
    BY <1>c DEF EntriesFor
  <2>3. CASE n # m
    <3>1. counts'[n] = counts[n]
      BY <1>a, <1>b, <2>3 DEF Add, Typed
    <3> QED
      BY <1>a, <1>b, <2>1, <2>2, <2>3, <3>1, Same
  <2>4. CASE n = m
    <3>1. counts'[n] = counts[n] + 1 /\ counts[n] \in Nat
      BY <1>a, <1>b, <2>4 DEF Add, Typed
    <3>2. Nobody(n) => Sole(n)'
      BY <1>c, <2>1, <2>2, <2>4 DEF Nobody, Sole
    <3> QED
      BY <1>a, <1>b, <3>1, <3>2, OneMore
  <2> QED
    BY <2>3, <2>4
<1> QED
  BY <1>1, <1>2, <1>3 DEF IInv

(***************************************************************************)
(* off() of scripts without a function, for the entries of gone.           *)
(***************************************************************************)
LEMMA DeletedIInv ==
  ASSUME IInv, NEW gone \in SUBSET DOMAIN events, NEW N, NEW lost,
         events' = [i \in DOMAIN events |-> IF i \in gone THEN Hole ELSE events[i]],
         RemoveNames(N), unread' = unread \union lost,
         misnamed \subseteq misnamed',
         \A n \in Names \ misnamed' : n \in N \union lost <=> \E i \in gone : events[i].name = n,
         UNCHANGED <<native, name, made, deleted, frames>>
  PROVE  IInv'
<1>a. Typed /\ Whole /\ DueAreAlive /\ \A n \in Names : Counted(n)
  BY DEF IInv
<1>b. /\ Len(events) \in Nat /\ DOMAIN events = 1 .. Len(events)
      /\ \A i \in DOMAIN events : events[i] \in Entry
      /\ DOMAIN events' = DOMAIN events
  BY <1>a, Entries DEF Typed
<1>1. Typed'
  <2>1. counts' \in [Names -> Nat]
    BY <1>a, Removed DEF Typed
  <2>2. InFrames(frames)' = InFrames(frames)
    BY DEF InFrames
  <2>3. events' \in Seq(Entry)
    <3>1. \A i \in 1 .. Len(events) : events'[i] \in Entry
      BY <1>b DEF Entry
    <3>2. events' = [i \in 1 .. Len(events) |-> events'[i]]
      BY <1>b
    <3>3. \A s : s = [i \in 1 .. Len(events) |-> s[i]] /\ (\A i \in 1 .. Len(events) : s[i] \in Entry)
                  => s \in Seq(Entry)
      BY <1>b
    <3> QED
      BY <3>1, <3>2, <3>3
  <2> QED
    BY <1>a, <2>1, <2>2, <2>3 DEF Typed
<1>2. Whole' /\ DueAreAlive'
  BY <1>a, <1>b, MarkAssumption DEF Whole, DueAreAlive, InFrames
<1>3. ASSUME NEW n \in Names
      PROVE  Counted(n)'
  <2>1. NativeFor(n)' = NativeFor(n)
    BY DEF NativeFor
  <2>2. EntriesFor(n)' = EntriesFor(n) \ gone
    BY <1>b, MarkAssumption DEF EntriesFor
  <2>3. CASE n \notin N \union lost /\ n \notin misnamed'
    <3>1. EntriesFor(n)' = EntriesFor(n)
      BY <2>2, <2>3 DEF EntriesFor
    <3>2. counts'[n] = counts[n]
      BY <1>a, <2>3, Removed DEF Typed
    <3> QED
      BY <1>a, <2>1, <3>1, <3>2, Same
  <2>4. CASE n \in N \union lost /\ n \notin misnamed'
    <3>1. PICK i \in gone : events[i].name = n
      BY <2>4
    <3>2. i \in EntriesFor(n) /\ i \notin EntriesFor(n)'
      BY <1>a, <2>2, <2>4, <3>1 DEF Whole, EntriesFor
    <3>3. \/ counts'[n] = IF counts[n] <= 1 THEN 0 ELSE counts[n]
          \/ counts'[n] = counts[n] /\ n \in unread'
      BY <1>a, <2>4, Removed DEF Typed
    <3> QED
      BY <1>a, <2>1, <2>2, <3>2, <3>3, SomeFewer DEF Typed
  <2>5. CASE n \in misnamed'
    BY <2>5 DEF Counted
  <2> QED
    BY <2>3, <2>4, <2>5
<1> QED
  BY <1>1, <1>2, <1>3 DEF IInv

LEMMA DukOffNameIInv ==
  ASSUME IInv, NEW m \in Names, DukOffName(m)
  PROVE  IInv'
<1> DEFINE gone == {i \in Scanned : events[i].name = m}
<1>1. gone \in SUBSET DOMAIN events /\ gone # {}
  BY DEF DukOffName, Scanned
<1>2. /\ events' = [i \in DOMAIN events |-> IF i \in gone THEN Hole ELSE events[i]]
      /\ RemoveNames({m})
      /\ unread' = unread \union {}
      /\ UNCHANGED <<native, name, made, deleted, frames, misnamed>>
  BY DEF DukOffName
<1>3. \A n \in Names : n \in {m} \union {} <=> \E i \in gone : events[i].name = n
  BY <1>1
<1> HIDE DEF gone
<1> QED
  BY <1>1, <1>2, <1>3, DeletedIInv

LEMMA DukOffAllIInv ==
  ASSUME IInv, DukOffAll
  PROVE  IInv'
<1>1. PICK read \in [Scanned -> AnyName] : RemoveRead([i \in Scanned |-> events[i].name], read)
  BY DEF DukOffAll
<1>2. Scanned \in SUBSET DOMAIN events
  BY DEF Scanned
<1> DEFINE N == {read[i] : i \in Scanned}
           lost == {events[i].name : i \in {j \in Scanned : read[j] # events[j].name}}
                     \intersect Names
<1>3. RemoveNames(N) /\ unread' = unread \union lost /\ misnamed \subseteq misnamed'
  BY <1>1 DEF RemoveRead
<1>4. ASSUME NEW n \in Names \ misnamed'
      PROVE  n \in N \union lost <=> \E i \in Scanned : events[i].name = n
  <2>1. \A i \in Scanned : read[i] = n => events[i].name = n
    BY <1>1, <1>4 DEF RemoveRead
  <2> QED
    BY <2>1
<1>5. /\ events' = [i \in DOMAIN events |-> IF i \in Scanned THEN Hole ELSE events[i]]
      /\ UNCHANGED <<native, name, made, deleted, frames>>
  BY DEF DukOffAll
<1> HIDE DEF N, lost
<1> QED
  BY <1>2, <1>3, <1>4, <1>5, DeletedIInv

LEMMA DukOffFuncIInv ==
  ASSUME IInv, NEW N, NEW f \in Funcs, DukOffFunc(N, f)
  PROVE  IInv'
<1>a. Typed /\ Whole /\ DueAreAlive /\ \A n \in Names : Counted(n)
  BY DEF IInv
<1>b. PICK i \in Scanned, read \in AnyName :
        /\ events[i].func = f
        /\ events' = [events EXCEPT ![i] = Damaged(@, i)]
        /\ misnamed' = misnamed \union ({events[i].name, read} \intersect Names)
        /\ RemoveNames({read})
        /\ UNCHANGED <<native, name, made, deleted, frames, unread>>
  BY DEF DukOffFunc
<1>c. /\ Len(events) \in Nat /\ DOMAIN events = 1 .. Len(events)
      /\ (\A j \in DOMAIN events : events[j] \in Entry) /\ events \in Seq(Entry)
      /\ i \in DOMAIN events
  BY <1>a, Entries DEF Typed
<1>d. /\ DOMAIN events' = DOMAIN events
      /\ \A j \in DOMAIN events \ {i} : events'[j] = events[j]
      /\ events'[i] = Damaged(events[i], i)
  BY <1>b, <1>c
<1>e. /\ events'[i] \in Entry
      /\ events'[i].name \in {events[i].name, Undefined}
      /\ events'[i].func \in {events[i].func, NoFunc}
  <2>1. events[i] \in [name : AnyName, func : Funcs \union {NoFunc}]
    BY <1>b, <1>c, MarkAssumption DEF Entry
  <2>2. \/ events'[i] = [events[i] EXCEPT !.name = Undefined]
        \/ events'[i] = [events[i] EXCEPT !.func = NoFunc]
        \/ events'[i] = events[i]
    BY <1>d DEF Damaged
  <2> QED
    BY <2>1, <2>2 DEF Entry, AnyName
<1>1. Typed'
  <2>1. counts' \in [Names -> Nat]
    BY <1>a, <1>b, Removed DEF Typed
  <2>2. InFrames(frames)' = InFrames(frames)
    BY <1>b DEF InFrames
  <2>3. events' \in Seq(Entry)
    BY <1>b, <1>c, <1>d, <1>e
  <2> QED
    BY <1>a, <1>b, <2>1, <2>2, <2>3 DEF Typed
<1>2. Whole' /\ DueAreAlive'
  BY <1>a, <1>b, <1>d, <1>e, MarkAssumption DEF Whole, DueAreAlive, InFrames
<1>3. ASSUME NEW n \in Names
      PROVE  Counted(n)'
  <2>1. CASE n \in {events[i].name, read}
    BY <1>b, <2>1 DEF Counted
  <2>2. CASE n \notin {events[i].name, read}
    <3>1. NativeFor(n)' = NativeFor(n)
      BY <1>b DEF NativeFor
    <3>2. EntriesFor(n)' = EntriesFor(n)
      BY <1>d, <1>e, <2>2, MarkAssumption DEF EntriesFor
    <3>3. counts'[n] = counts[n]
      BY <1>a, <1>b, <2>2, Removed DEF Typed
    <3> QED
      BY <1>a, <1>b, <3>1, <3>2, <3>3, Same
  <2> QED
    BY <2>1, <2>2
<1> QED
  BY <1>1, <1>2, <1>3 DEF IInv

LEMMA EmitIInv ==
  ASSUME IInv, (\E n \in Names : Emit(n)) \/ Finish
  PROVE  IInv'
<1>a. Typed /\ Whole /\ DueAreAlive /\ \A n \in Names : Counted(n)
  BY DEF IInv
<1>b. UNCHANGED <<native, name, made, events, counts, misnamed, unread>>
  BY DEF Emit, Finish
<1>c. /\ Len(frames) \in Nat /\ DOMAIN frames = 1 .. Len(frames)
      /\ \A i \in DOMAIN frames : frames[i] \in SUBSET Callbacks
  BY <1>a, ElementOfSeq DEF Typed
<1>1. /\ frames' \in Seq(SUBSET Callbacks) /\ deleted' \subseteq made
      /\ InFrames(frames') \subseteq InFrames(frames) \union native
      /\ InFrames(frames') \intersect (deleted' \ deleted) = {}
      /\ native \intersect deleted' = {}
  <2>1. ASSUME NEW n \in Names, Emit(n)
        PROVE  /\ frames' \in Seq(SUBSET Callbacks) /\ deleted' \subseteq made
               /\ InFrames(frames') \subseteq InFrames(frames) \union native
               /\ InFrames(frames') \intersect (deleted' \ deleted) = {}
               /\ native \intersect deleted' = {}
    <3> DEFINE due == {c \in native : <<name[c], n>> \in Covers}
    <3>1. frames' = Append(frames, due) /\ deleted' = deleted
      BY <2>1 DEF Emit
    <3>2. due \in SUBSET Callbacks /\ frames \in Seq(SUBSET Callbacks)
      BY <1>a DEF Typed
    <3>3. /\ frames' \in Seq(SUBSET Callbacks) /\ DOMAIN frames' = 1 .. Len(frames) + 1
          /\ \A i \in 1 .. Len(frames) : frames'[i] = frames[i]
          /\ frames'[Len(frames) + 1] = due
      BY <1>c, <3>1, <3>2
    <3>4. \A i \in 1 .. Len(frames) + 1 : i \in 1 .. Len(frames) \/ i = Len(frames) + 1
      BY <1>c
    <3>5. InFrames(frames') \subseteq InFrames(frames) \union due
      BY <1>c, <3>3, <3>4 DEF InFrames
    <3> QED
      BY <1>a, <3>1, <3>3, <3>5 DEF Typed, DueAreAlive
  <2>2. CASE Finish
    <3>1. /\ frames # <<>> /\ frames' = Front(frames)
          /\ deleted' = deleted \union ((Last(frames) \ native) \ InFrames(Front(frames)))
      BY <2>2 DEF Finish
    <3>2. Len(frames) \in 1 .. Len(frames)
      BY <1>a, <1>c, <3>1, EmptySeq DEF Typed
    <3>3. Last(frames) \subseteq InFrames(frames)
      BY <1>c, <3>2 DEF Last, InFrames
    <3>4. /\ DOMAIN Front(frames) = 1 .. Len(frames) - 1
          /\ \A i \in 1 .. Len(frames) - 1 : Front(frames)[i] = frames[i]
          /\ 1 .. Len(frames) - 1 \subseteq 1 .. Len(frames)
          /\ Front(frames) \in Seq(SUBSET Callbacks)
      <4>1. 1 .. Len(frames) - 1 \subseteq 1 .. Len(frames)
        BY <1>c
      <4>2. \A i \in 1 .. Len(frames) - 1 : frames[i] \in SUBSET Callbacks
        BY <1>c, <4>1
      <4> QED
        BY <1>c, <3>2, <4>1, <4>2 DEF Front
    <3>5. InFrames(Front(frames)) \subseteq InFrames(frames)
      BY <1>c, <3>4 DEF InFrames
    <3> QED
      BY <1>a, <3>1, <3>3, <3>4, <3>5 DEF Typed, DueAreAlive
  <2> QED
    BY <2>1, <2>2
<1>2. Typed' /\ Whole' /\ DueAreAlive'
  BY <1>a, <1>b, <1>1 DEF Typed, Whole, DueAreAlive
<1>3. ASSUME NEW n \in Names
      PROVE  Counted(n)'
  BY <1>a, <1>b, Same DEF NativeFor, EntriesFor
<1> QED
  BY <1>2, <1>3 DEF IInv

LEMMA NextIInv == IInv /\ [Next]_vars => IInv'
<1> SUFFICES ASSUME IInv, [Next]_vars PROVE IInv'
  OBVIOUS
<1>1. CASE UNCHANGED vars
  <2>1. Typed' /\ Whole' /\ DueAreAlive'
    BY <1>1 DEF vars, IInv, Typed, Whole, DueAreAlive
  <2>2. \A n \in Names : Counted(n)'
    BY <1>1, Same DEF vars, IInv, NativeFor, EntriesFor
  <2> QED
    BY <2>1, <2>2 DEF IInv
<1>2. CASE Next
  BY <1>2, OnIInv, OffIInv, DukOnIInv, DukOffNameIInv, DukOffAllIInv, DukOffFuncIInv, EmitIInv
     DEF Next
<1> QED
  BY <1>1, <1>2

-----------------------------------------------------------------------------
(***************************************************************************)
(* The theorems.                                                           *)
(***************************************************************************)
LEMMA Invariance == Spec => []IInv
  BY InitIInv, NextIInv, PTL DEF Spec

(***************************************************************************)
(* A callback that emit() has yet to call is alive, however deep the calls *)
(* of emit() are nested (EventEmitter::emit, off).                         *)
(***************************************************************************)
THEOREM CallbacksAlive == Spec => []DueAreAlive
<1>1. IInv => DueAreAlive
  BY DEF IInv
<1> QED
  BY <1>1, Invariance, PTL

(***************************************************************************)
(* has() knows what emit() would be heard for, unless off() was called     *)
(* with a function or took a freed name for it (EventEmitter::has, add,    *)
(* remove, duk_off).                                                       *)
(***************************************************************************)
THEOREM HasIsComplete == Spec => []HasKnows
<1>1. IInv => HasKnows
  <2> SUFFICES ASSUME IInv, NEW m \in Names, NEW n \in Names, <<m, n>> \in Covers, ~Nobody(m),
                      m \notin misnamed
               PROVE  Has(n)
    BY DEF HasKnows
  <2>1. counts[m] \in Nat /\ counts[m] # 0
    BY DEF IInv, Typed, Counted
  <2> QED
    BY <2>1 DEF Has
<1> QED
  BY <1>1, Invariance, PTL

(***************************************************************************)
(* A name counted once has its one listener, unless off() was called with  *)
(* a function or read a name it had freed (EventEmitter::off, remove).     *)
(***************************************************************************)
THEOREM CountOfOne == Spec => []ForgottenWhenAlone
<1>1. IInv => ForgottenWhenAlone
  BY DEF IInv, Counted, ForgottenWhenAlone
<1> QED
  BY <1>1, Invariance, PTL
=============================================================================
