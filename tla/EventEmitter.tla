---------------------------- MODULE EventEmitter ----------------------------
(***************************************************************************)
(* kk::EventEmitter (kk-event.cc): the listeners of C++ code are a list of *)
(* callbacks, those of scripts an array __events of the emitter's script   *)
(* object, and _keyCounts knows the names that somebody listens to, which  *)
(* is what has() answers from.  A name that ends with * stands for all     *)
(* names it is a prefix of.                                                *)
(*                                                                         *)
(* emit() works on copies: of the list, whose callbacks it retains, and    *)
(* then of the functions in __events.  Callbacks and functions may emit,   *)
(* add and remove listeners.  A removed entry leaves a hole in __events,   *)
(* and reading an entry from a hole throws, which ends off().              *)
(*                                                                         *)
(* off() reads the name of a callback that it has just released, or of an  *)
(* entry that it has just deleted: when nothing else held it, it may read  *)
(* that name, any other, or nothing that is known.                         *)
(*                                                                         *)
(* A definition named ...Mutant is a plausible mistake in the definition   *)
(* that follows it, kept to show that a property notices it.               *)
(***************************************************************************)
EXTENDS Naturals, Sequences, SequencesExt

CONSTANTS
  Names,        (* names that listeners are added for                      *)
  Covers,       (* pairs: a listener for the first hears the second        *)
  Callbacks,    (* the EventCallbacks that can be made (bound)             *)
  Funcs,        (* functions of scripts                                    *)
  MaxEvents,    (* bound: the length of __events                           *)
  MaxDepth      (* bound: calls of emit() in progress                      *)

ASSUME EventAssumption ==
  Covers \subseteq Names \X Names /\ MaxEvents \in Nat /\ MaxDepth \in Nat

VARIABLES
  native,     (* _callbacks                                                *)
  name,       (* the name of each callback                                 *)
  made,       (* callbacks that have been made                             *)
  deleted,    (* callbacks that have been deleted                          *)
  events,     (* __events: entries, or Hole                                *)
  counts,     (* _keyCounts, 0 for a name that is not there                *)
  frames,     (* the calls of emit() in progress: the callbacks still due  *)
  misnamed,   (* history: names for which the count may be wrong: off()    *)
              (* was called with a function, or took a freed name for them *)
  unread      (* history: names that off() could not read any more         *)

vars == <<native, name, made, deleted, events, counts, frames, misnamed, unread>>

Hole == [name |-> "hole", func |-> "hole"]
NoFunc == "none"              \* a deleted element of an entry is undefined
Undefined == "undefined"      \* and its string
AnyName == Names \union {Undefined}

ASSUME MarkAssumption ==
  /\ Hole.name \notin Names /\ Undefined \notin Names
  /\ NoFunc \notin Funcs /\ Hole.func \notin Funcs

Init ==
  /\ native = {} /\ made = {} /\ deleted = {}
  /\ name \in [Callbacks -> Names]
  /\ events = <<>>
  /\ counts = [n \in Names |-> 0]
  /\ frames = <<>>
  /\ misnamed = {} /\ unread = {}

InFrames(s) == UNION {s[i] : i \in DOMAIN s}

(***************************************************************************)
(* add() and remove(), once for each name of N.  remove() never lowers a   *)
(* count: it drops a name whose count is 1, once or many times alike.      *)
(***************************************************************************)
Add(n) == counts' = [counts EXCEPT ![n] = @ + 1]

DropsMutant(n) == counts[n] < 1   \* < for <=

DropsAllMutant(n) == TRUE   \* the count is ignored

Drops(n) == counts[n] <= 1

RemoveNames(N) == counts' = [n \in Names |-> IF n \in N /\ Drops(n) THEN 0 ELSE counts[n]]

(***************************************************************************)
(* The same by names that are read too late: was tells the names, read     *)
(* what is read for them, Undefined for what nobody listens to.            *)
(***************************************************************************)
RemoveRead(was, read) ==
  LET wrong == {x \in DOMAIN was : read[x] # was[x]} IN
    /\ RemoveNames({read[x] : x \in DOMAIN was})
    /\ unread' = unread \union ({was[x] : x \in wrong} \intersect Names)
    /\ misnamed' = misnamed \union ({read[x] : x \in wrong} \intersect Names)

(***************************************************************************)
(* on() and off() of C++ code.  off() may remove any set of callbacks: its *)
(* name may be empty, and several callbacks may have the same function.    *)
(***************************************************************************)
On(c) ==
  /\ c \notin made
  /\ made' = made \union {c}
  /\ native' = native \union {c}
  /\ Add(name[c])
  /\ UNCHANGED <<name, deleted, events, frames, misnamed, unread>>

RetainedMutant == {}   \* emit() copies the pointers and retains nothing

Retained == InFrames(frames)

Off(C) ==
  LET freed == C \ Retained IN
    /\ C # {} /\ C \subseteq native
    /\ native' = native \ C
    /\ deleted' = deleted \union freed
    /\ \E read \in [C -> AnyName] :
         /\ \A c \in C \ freed : read[c] = name[c]
         /\ RemoveRead([c \in C |-> name[c]], read)
    /\ UNCHANGED <<name, made, events, frames>>

(***************************************************************************)
(* duk_on: an entry is put behind the last one, holes included.            *)
(***************************************************************************)
DukOn(n, f) ==
  /\ Len(events) < MaxEvents
  /\ events' = Append(events, [name |-> n, func |-> f])
  /\ Add(n)
  /\ UNCHANGED <<native, name, made, deleted, frames, misnamed, unread>>

(***************************************************************************)
(* duk_off goes from the last entry down to a hole, where it throws.       *)
(***************************************************************************)
Scanned == {i \in DOMAIN events : \A j \in i .. Len(events) : events[j] # Hole}

(***************************************************************************)
(* Without a function: the entries of the name, or all of them, are        *)
(* deleted; without a name theirs may be gone when it is read.             *)
(***************************************************************************)
DukOffName(n) ==
  LET gone == {i \in Scanned : events[i].name = n} IN
    /\ gone # {}
    /\ events' = [i \in DOMAIN events |-> IF i \in gone THEN Hole ELSE events[i]]
    /\ RemoveNames({n})
    /\ UNCHANGED <<native, name, made, deleted, frames, misnamed, unread>>

DukOffAll ==
  /\ Scanned # {}
  /\ events' = [i \in DOMAIN events |-> IF i \in Scanned THEN Hole ELSE events[i]]
  /\ \E read \in [Scanned -> AnyName] : RemoveRead([i \in Scanned |-> events[i].name], read)
  /\ UNCHANGED <<native, name, made, deleted, frames>>

(***************************************************************************)
(* With a function: the value stack is one off, and what is deleted is the *)
(* element of the entry with the entry's index; from there on the entry is *)
(* taken for the array, and nothing else is removed.  When that element is *)
(* the name, it may be gone when it is read, unless off() has it from its  *)
(* caller.  The index n of the code is i - 1 here.                         *)
(***************************************************************************)
Damaged(e, i) ==
  CASE i = 1 -> [e EXCEPT !.name = Undefined]
    [] i = 2 -> [e EXCEPT !.func = NoFunc]
    [] OTHER -> e

DukOffFunc(N, f) ==
  \E i \in Scanned, read \in AnyName :
    LET n == events[i].name IN
      /\ n \in N /\ events[i].func = f
      /\ \A j \in Scanned : j > i => ~(events[j].name \in N /\ events[j].func = f)
      /\ events' = [events EXCEPT ![i] = Damaged(@, i)]
      /\ read = n \/ (i = 1 /\ N # {n})
      /\ RemoveNames({read})
      /\ misnamed' = misnamed \union ({n, read} \intersect Names)
      /\ UNCHANGED <<native, name, made, deleted, frames, unread>>

(***************************************************************************)
(* emit(): first the callbacks of the copy, one after the other.  Then the *)
(* functions, from a copy of its own; what they do is done by the other    *)
(* actions.  The copy of the list goes last.                               *)
(***************************************************************************)
Emit(n) ==
  /\ Len(frames) < MaxDepth
  /\ frames' = Append(frames, {c \in native : <<name[c], n>> \in Covers})
  /\ UNCHANGED <<native, name, made, deleted, events, counts, misnamed, unread>>

Finish ==
  /\ frames # <<>>
  /\ frames' = Front(frames)
  /\ deleted' = deleted \union ((Last(frames) \ native) \ InFrames(Front(frames)))
  /\ UNCHANGED <<native, name, made, events, counts, misnamed, unread>>

-----------------------------------------------------------------------------
Next ==
  \/ \E c \in Callbacks : On(c)
  \/ \E C \in SUBSET native : Off(C)
  \/ \E n \in Names, f \in Funcs : DukOn(n, f)
  \/ \E n \in Names : DukOffName(n) \/ Emit(n)
  \/ DukOffAll
  \/ \E f \in Funcs : DukOffFunc(AnyName, f) \/ \E n \in Names : DukOffFunc({n}, f)
  \/ Finish

Spec == Init /\ [][Next]_vars

-----------------------------------------------------------------------------
(* Properties.                                                             *)

(***************************************************************************)
(* Every variable keeps its type.                                          *)
(***************************************************************************)
TypeOK ==
  /\ native \subseteq made /\ made \subseteq Callbacks /\ deleted \subseteq made
  /\ name \in [Callbacks -> Names]
  /\ \A i \in DOMAIN events :
       events[i] = Hole \/ events[i] \in [name : AnyName, func : Funcs \union {NoFunc}]
  /\ counts \in [Names -> Nat]
  /\ \A i \in DOMAIN frames : frames[i] \subseteq made
  /\ misnamed \subseteq Names /\ unread \subseteq Names

(***************************************************************************)
(* The callbacks that emit() is about to call are not deleted, whatever    *)
(* the callbacks before them remove (EventEmitter::emit, the list cbs).    *)
(***************************************************************************)
DueAreAlive == (native \union InFrames(frames)) \intersect deleted = {}

(***************************************************************************)
(* has() knows every name whose emission somebody would hear, unless a     *)
(* listener of a script for a name that covers it was removed by function, *)
(* or that name was read in the place of a freed one                       *)
(* (EventEmitter::has, add, remove).                                       *)
(***************************************************************************)
NativeFor(n) == {c \in native : name[c] = n}
EntriesFor(n) == {i \in DOMAIN events : events[i].name = n /\ events[i].func \in Funcs}
Nobody(n) == NativeFor(n) = {} /\ EntriesFor(n) = {}
Sole(n) ==
  \/ (\E c \in native : NativeFor(n) = {c}) /\ EntriesFor(n) = {}
  \/ NativeFor(n) = {} /\ (\E i \in DOMAIN events : EntriesFor(n) = {i})

Has(n) == \E m \in Names : <<m, n>> \in Covers /\ counts[m] > 0

HasKnows ==
  \A m, n \in Names : <<m, n>> \in Covers /\ ~Nobody(m) => Has(n) \/ m \in misnamed

(***************************************************************************)
(* A name that was added only once since it was last forgotten has its     *)
(* listener: when that is removed, has() forgets the name, unless off()    *)
(* was called with a function, or read something else where the name, or   *)
(* this name where another, was freed (EventEmitter::off, remove, duk_off).*)
(***************************************************************************)
ForgottenWhenAlone ==
  \A n \in Names : counts[n] = 1 => Sole(n) \/ n \in misnamed \union unread
=============================================================================
