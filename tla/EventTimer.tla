----------------------------- MODULE EventTimer -----------------------------
(***************************************************************************)
(* The timers of kk-ev.cc: setTimeout, setInterval, clearTimeout and       *)
(* clearInterval of one script heap on one event loop.                     *)
(*                                                                         *)
(* A timer is a C++ EventTimer.  The global object owns it through a       *)
(* property whose value has a finalizer, which recycles the timer; the     *)
(* script knows it by the name of that property, its id, which is the      *)
(* address of the EventTimer printed with "%x".  So an id is used again    *)
(* when the memory is, and two addresses that differ only above 32 bits    *)
(* have the same id.  A timer that is recycled inside its own callback is  *)
(* deleted when the callback has returned.                                 *)
(*                                                                         *)
(* The loop runs one callback at a time.  A script can set and clear       *)
(* timers inside a timer's callback and, from other events, outside.       *)
(***************************************************************************)
CONSTANTS
  Timers,    (* the timers that can be made (bounds the runs)              *)
  Addrs,     (* the memory that an EventTimer can be allocated at          *)
  Ids,
  IdOf,      (* "__0x%x" of an address                                     *)
  Nil,
  Stale      (* TRUE if a script may clear an id after its timer has gone  *)

ASSUME NilAssumption == Nil \notin Timers \union Addrs \union Ids
ASSUME IdAssumption == IdOf \in [Addrs -> Ids]
ASSUME StaleAssumption == Stale \in BOOLEAN

VARIABLES
  addr,      (* where each timer's EventTimer is, Nil if it has none       *)
  id,        (* the id that setTimeout returned for each timer             *)
  repeat,    (* timers with _rv # 0                                        *)
  pending,   (* timers whose _event is pending in the event base           *)
  global,    (* the timer that the property of each id owns, or Nil        *)
  recycled,  (* _isRecycled                                                *)
  running,   (* the timer whose callback runs (_isCalling), or Nil         *)
  closed,    (* the heap was destroyed                                     *)
  cleared,   (* history: timers that were cleared by their id              *)
  fired      (* history: timers whose callback was called                  *)

vars == <<addr, id, repeat, pending, global, recycled, running, closed, cleared, fired>>

Init ==
  /\ addr = [t \in Timers |-> Nil]
  /\ id = [t \in Timers |-> Nil]
  /\ repeat = {}
  /\ pending = {}
  /\ global = [i \in Ids |-> Nil]
  /\ recycled = {}
  /\ running = Nil
  /\ closed = FALSE
  /\ cleared = {}
  /\ fired = {}

Live(t) == addr[t] # Nil

(***************************************************************************)
(* EventTimer::recycle: of the timers in T, those that are deleted now.    *)
(***************************************************************************)
DeleteCallingMutant(T) == T   \* also the timer whose callback is running

Deleted(T) == T \ {running}

(***************************************************************************)
(* The timer owned by the property of id i.                                *)
(***************************************************************************)
OwnedBy(i) == {global[i]} \ {Nil}

(***************************************************************************)
(* setTimeout and setInterval.  The interval is zero for setTimeout and    *)
(* for setInterval(f, 0).  A property with the new timer's id is           *)
(* overwritten, and its timer recycled.                                    *)
(***************************************************************************)
NewTimer(t, a, r) ==
  LET displaced == OwnedBy(IdOf[a])
      dead == Deleted(displaced) IN
  /\ ~closed
  /\ id[t] = Nil
  /\ \A u \in Timers : addr[u] # a
  /\ addr' = [u \in Timers |-> IF u = t THEN a ELSE IF u \in dead THEN Nil ELSE addr[u]]
  /\ id' = [id EXCEPT ![t] = IdOf[a]]
  /\ repeat' = IF r THEN repeat \union {t} ELSE repeat
  /\ pending' = (pending \ dead) \union {t}
  /\ global' = [global EXCEPT ![IdOf[a]] = t]
  /\ recycled' = recycled \union displaced
  /\ UNCHANGED <<running, closed, cleared, fired>>

(***************************************************************************)
(* clearTimeout or clearInterval with the id of timer t: the property is   *)
(* deleted, whichever timer it owns by now.                                *)
(***************************************************************************)
Clear(t) ==
  LET dead == Deleted(OwnedBy(id[t])) IN
  /\ ~closed
  /\ id[t] # Nil
  /\ Stale \/ (Live(t) /\ t \notin recycled)
  /\ global' = [global EXCEPT ![id[t]] = Nil]
  /\ addr' = [u \in Timers |-> IF u \in dead THEN Nil ELSE addr[u]]
  /\ pending' = pending \ dead
  /\ recycled' = recycled \union OwnedBy(id[t])
  /\ cleared' = cleared \union {t}
  /\ UNCHANGED <<id, repeat, running, closed, fired>>

(***************************************************************************)
(* ev_Timeout_cb, then EventTimer::call up to the call of the function.    *)
(* Its two early returns are not taken (Registered).                       *)
(***************************************************************************)
FireAllMutant(t) ==   \* the other pending timers are forgotten
  /\ running = Nil
  /\ t \in pending
  /\ pending' = {}
  /\ running' = t
  /\ fired' = fired \union {t}
  /\ UNCHANGED <<addr, id, repeat, global, recycled, closed, cleared>>

Fire(t) ==
  /\ running = Nil
  /\ t \in pending
  /\ pending' = pending \ {t}
  /\ running' = t
  /\ fired' = fired \union {t}
  /\ UNCHANGED <<addr, id, repeat, global, recycled, closed, cleared>>

(***************************************************************************)
(* EventTimer::call once the function has returned: a recycled timer is    *)
(* deleted, an interval is armed again, and any other timer gives up its   *)
(* property, whose finalizer recycles it.                                  *)
(***************************************************************************)
ReturnRecycled ==
  /\ running \in recycled
  /\ addr' = [addr EXCEPT ![running] = Nil]
  /\ UNCHANGED <<pending, global, recycled>>

RearmRecycledMutant ==   \* _isRecycled is not looked at
  /\ running \in repeat
  /\ pending' = pending \union {running}
  /\ UNCHANGED <<addr, global, recycled>>

ReturnRearm ==
  /\ running \notin recycled
  /\ running \in repeat
  /\ pending' = pending \union {running}
  /\ UNCHANGED <<addr, global, recycled>>

ReturnDone ==
  LET gone == OwnedBy(id[running]) IN
  /\ running \notin recycled
  /\ running \notin repeat
  /\ global' = [global EXCEPT ![id[running]] = Nil]
  /\ recycled' = recycled \union gone
  /\ addr' = [u \in Timers |-> IF u \in gone THEN Nil ELSE addr[u]]
  /\ pending' = pending \ gone

Return ==
  /\ running # Nil
  /\ ReturnRecycled \/ ReturnRearm \/ ReturnDone
  /\ running' = Nil
  /\ UNCHANGED <<id, repeat, closed, cleared, fired>>

(***************************************************************************)
(* The heap is destroyed: the finalizers of all properties are run.        *)
(***************************************************************************)
Close ==
  /\ ~closed
  /\ running = Nil
  /\ closed' = TRUE
  /\ LET gone == UNION {OwnedBy(i) : i \in Ids} IN
       /\ global' = [i \in Ids |-> Nil]
       /\ recycled' = recycled \union gone
       /\ addr' = [u \in Timers |-> IF u \in gone THEN Nil ELSE addr[u]]
       /\ pending' = pending \ gone
  /\ UNCHANGED <<id, repeat, running, cleared, fired>>

Script ==
  \/ \E t \in Timers, a \in Addrs, r \in BOOLEAN : NewTimer(t, a, r)
  \/ \E t \in Timers : Clear(t)

Next ==
  \/ Script
  \/ \E t \in Timers : Fire(t)
  \/ Return
  \/ Close

Spec == Init /\ [][Next]_vars

(***************************************************************************)
(* The event loop calls the callback of every timer that is due, and the   *)
(* functions return.                                                       *)
(***************************************************************************)
FairSpec ==
  /\ Spec
  /\ WF_vars(Return)
  /\ \A t \in Timers : SF_vars(Fire(t))

-----------------------------------------------------------------------------
(* Properties.                                                             *)

(***************************************************************************)
(* Every variable keeps its type.                                          *)
(***************************************************************************)
TypeOK ==
  /\ addr \in [Timers -> Addrs \union {Nil}]
  /\ id \in [Timers -> Ids \union {Nil}]
  /\ repeat \in SUBSET Timers
  /\ pending \in SUBSET Timers
  /\ global \in [Ids -> Timers \union {Nil}]
  /\ recycled \in SUBSET Timers
  /\ running \in Timers \union {Nil}
  /\ closed \in BOOLEAN
  /\ cleared \in SUBSET Timers
  /\ fired \in SUBSET Timers

(***************************************************************************)
(* Properties and EventTimers agree: a property owns an EventTimer that is *)
(* allocated and not recycled, under its own id; an EventTimer without a   *)
(* property is the one inside its callback, which deletes it (no leak, no  *)
(* dangling pointer); and the event base knows only allocated ones.        *)
(***************************************************************************)
Registered ==
  /\ \A i \in Ids : global[i] # Nil =>
       Live(global[i]) /\ global[i] \notin recycled /\ id[global[i]] = i
  /\ \A t \in Timers : Live(t) => id[t] = IdOf[addr[t]] /\ (global[id[t]] = t \/ t = running)
  /\ \A t \in Timers : Live(t) /\ t = running /\ t \notin recycled => global[id[t]] = t
  /\ \A t \in pending : Live(t) /\ t # running /\ t \notin recycled
  /\ running # Nil => Live(running)

(***************************************************************************)
(* Every timer that was set is called, unless it is cleared, its heap is   *)
(* destroyed, or another timer was given the same id: then setTimeout for  *)
(* that one, or a script that clears the id of one long gone, silently     *)
(* cancels it (ev_newTimer, ev_clear, EventTimer::call).                   *)
(***************************************************************************)
SharesId(t) == \E u \in Timers \ {t} : id[u] = id[t]

EveryTimerFires ==
  \A t \in Timers :
    id[t] # Nil ~> t \in fired \union cleared \/ closed \/ SharesId(t)

-----------------------------------------------------------------------------
(***************************************************************************)
(* A timer is armed while it is allocated and not recycled, a timeout only *)
(* until its callback is called.                                           *)
(***************************************************************************)
Armed == {t \in Timers : Live(t) /\ t \notin recycled /\ (t # running \/ t \in repeat)}

AL == INSTANCE Alarms WITH
        made    <- {t \in Timers : id[t] # Nil},
        every   <- repeat,
        armed   <- Armed,
        ringing <- running

(***************************************************************************)
(* A timer that was cleared, or that lost its id to another timer, is not  *)
(* called any more; a timeout is called once; callbacks do not nest        *)
(* (EventTimer::call, EventTimer::recycle).                                *)
(***************************************************************************)
ImplementsAlarms == AL!Spec
=============================================================================
