---------------------------- MODULE DispatchQueue ----------------------------
(***************************************************************************)
(* kk::DispatchQueue (kk-dispatch.cc) with the kk::Chan it owns            *)
(* (kk-chan.cc) and the DispatchObjects that travel through it.            *)
(*                                                                         *)
(* Client threads push DispatchObjects into the channel: async() returns   *)
(* at once, sync() blocks on a condition variable of its object.  The      *)
(* queue thread sleeps in event_base_dispatch until the poll timer fires;  *)
(* run() then pops, runs, signals and deletes objects until the channel is *)
(* empty and re-arms the timer, or until a Break object has set            *)
(* _loopbreak, after which the thread leaves its event loop.  join() and   *)
(* the destructor push such a Break and wait for the thread to end.        *)
(*                                                                         *)
(* One action is what a thread does between two points where another       *)
(* thread can be observed: a critical section of a mutex, a wait, the body *)
(* of a task.  The queue models the constructor that starts a thread of    *)
(* its own (_attach = false).                                              *)
(*                                                                         *)
(* A definition named ...Mutant is a plausible mistake in the definition   *)
(* that follows it, kept to show that a property notices it.               *)
(***************************************************************************)
EXTENDS Integers, Sequences, Functions

CONSTANTS
  Clients,    (* threads, other than the queue's, that hold a reference    *)
  Owner,      (* the client that may call join()                           *)
  Tasks,      (* the DispatchObjects that can be created (bounds the runs) *)
  Nil,        (* no object                                                 *)
  Spurious    (* TRUE if pthread_cond_wait may return without a broadcast  *)

ASSUME OwnerAssumption == Owner \in Clients
ASSUME NilAssumption == Nil \notin Tasks
ASSUME FlagAssumption == Spurious \in BOOLEAN

VARIABLES
  chan,       (* Chan::_queue, oldest first                                *)
  kind,       (* of each object: "none" while it has not been created      *)
  freed,      (* objects deleted                                           *)
  locked,     (* objects whose _lock a client holds between two actions    *)
  pc,         (* where each client is                                      *)
  call,       (* the object each client's sync() waits on                  *)
  refs,       (* clients that still hold their reference to the queue      *)
  qpc,        (* where the queue thread is                                 *)
  cur,        (* the local "object" of run()                               *)
  timer,      (* _event is pending in the event base                       *)
  loopbreak,  (* _loopbreak                                                *)
  joined,     (* _joined                                                   *)
  pushed,     (* history: every object pushed, in order                    *)
  ran,        (* history: every object run, in order                       *)
  touched     (* history: objects used by a client after their deletion    *)

chanVars == <<chan, pushed>>
objVars == <<kind, freed, locked>>
clientVars == <<pc, call, refs>>
threadVars == <<qpc, cur, loopbreak>>
vars == <<chan, kind, freed, locked, pc, call, refs, qpc, cur, timer,
          loopbreak, joined, pushed, ran, touched>>

Kinds == {"none", "async", "sync", "break"}

(***************************************************************************)
(* pc of a client: idle; in sync() with the object's mutex held (locked),  *)
(* blocked in the condition wait, woken but not yet owning the mutex       *)
(* again; blocked in join(); in the destructor (dtorBreak, dtorJoin,       *)
(* dtorFree); gone once its reference is dropped; undefined once it used   *)
(* a deleted object and did not survive it.                                *)
(***************************************************************************)
InDtor == {"dtorBreak", "dtorJoin", "dtorFree"}
ClientPCs == {"idle", "locked", "waiting", "woken", "joining", "gone",
              "undefined"} \union InDtor

(***************************************************************************)
(* qpc of the queue thread: asleep in the event loop; at the three calls   *)
(* of run()'s loop body; at the end of run(); after pthread_exit.          *)
(***************************************************************************)
QueuePCs == {"loop", "pop", "run", "join", "release", "rearm", "exited"}

Init ==
  /\ chan = <<>>
  /\ kind = [t \in Tasks |-> "none"]
  /\ freed = {}
  /\ locked = {}
  /\ pc = [c \in Clients |-> "idle"]
  /\ call = [c \in Clients |-> Nil]
  /\ refs = Clients
  /\ qpc = "loop"
  /\ cur = Nil
  /\ timer = TRUE
  /\ loopbreak = FALSE
  /\ joined = FALSE
  /\ pushed = <<>>
  /\ ran = <<>>
  /\ touched = {}

(***************************************************************************)
(* new DispatchObject(...) followed by Chan::push.                         *)
(***************************************************************************)
Create(t, k) == kind[t] = "none" /\ kind' = [kind EXCEPT ![t] = k]

PushFrontMutant(t) ==   \* a stack instead of a queue
  /\ chan' = <<t>> \o chan
  /\ pushed' = Append(pushed, t)

Push(t) ==
  /\ chan' = Append(chan, t)
  /\ pushed' = Append(pushed, t)

-----------------------------------------------------------------------------
(* The clients.                                                            *)

Async(c, t) ==
  /\ pc[c] = "idle"
  /\ Create(t, "async")
  /\ Push(t)
  /\ UNCHANGED <<freed, locked, clientVars, threadVars, timer, joined, ran, touched>>

(***************************************************************************)
(* DispatchObject::wait locks the object's mutex and pushes the object; it *)
(* still holds the mutex, so join() cannot broadcast before the wait.      *)
(***************************************************************************)
SyncPushUnlockedMutant(c, t) ==   \* the push precedes the lock
  /\ pc[c] = "idle"
  /\ Create(t, "sync")
  /\ Push(t)
  /\ pc' = [pc EXCEPT ![c] = "locked"]
  /\ call' = [call EXCEPT ![c] = t]
  /\ UNCHANGED <<freed, locked, refs, threadVars, timer, joined, ran, touched>>

SyncPush(c, t) ==
  /\ pc[c] = "idle"
  /\ Create(t, "sync")
  /\ Push(t)
  /\ locked' = locked \union {t}
  /\ pc' = [pc EXCEPT ![c] = "locked"]
  /\ call' = [call EXCEPT ![c] = t]
  /\ UNCHANGED <<freed, refs, threadVars, timer, joined, ran, touched>>

(***************************************************************************)
(* pthread_cond_wait releases the mutex and blocks.                        *)
(***************************************************************************)
SyncWait(c) ==
  /\ pc[c] = "locked"
  /\ locked' = locked \ {call[c]}
  /\ pc' = [pc EXCEPT ![c] = "waiting"]
  /\ UNCHANGED <<chanVars, kind, freed, call, refs, threadVars, timer, joined, ran, touched>>

(***************************************************************************)
(* The wait is not in a loop on a predicate: a wake-up that POSIX allows   *)
(* without a broadcast ends it too.                                        *)
(***************************************************************************)
SpuriousWakeup(c) ==
  /\ Spurious
  /\ pc[c] = "waiting"
  /\ pc' = [pc EXCEPT ![c] = "woken"]
  /\ UNCHANGED <<chanVars, objVars, call, refs, threadVars, timer, joined, ran, touched>>

(***************************************************************************)
(* The woken thread takes the mutex again, unlocks it and returns.  The    *)
(* queue thread may have deleted the object since it was signalled: then   *)
(* both operations are on a destroyed mutex, and the thread either gets    *)
(* through them or does not.                                               *)
(***************************************************************************)
SyncReturn(c) ==
  /\ pc[c] = "woken"
  /\ \/ /\ call[c] \notin freed
        /\ pc' = [pc EXCEPT ![c] = "idle"]
        /\ UNCHANGED touched
     \/ /\ call[c] \in freed
        /\ touched' = touched \union {call[c]}
        /\ \E after \in {"idle", "undefined"} : pc' = [pc EXCEPT ![c] = after]
  /\ call' = [call EXCEPT ![c] = Nil]
  /\ UNCHANGED <<chanVars, objVars, refs, threadVars, timer, joined, ran>>

(***************************************************************************)
(* loopbreak() on a thread other than the queue's (WebWorker::terminate).  *)
(***************************************************************************)
LoopBreak(c, t) ==
  /\ pc[c] = "idle"
  /\ ~loopbreak
  /\ Create(t, "break")
  /\ Push(t)
  /\ UNCHANGED <<freed, locked, clientVars, threadVars, timer, joined, ran, touched>>

(***************************************************************************)
(* join(): push a Break, wait for the thread, delete the timer.            *)
(***************************************************************************)
JoinBegin(t) ==
  /\ pc[Owner] = "idle"
  /\ ~joined
  /\ joined' = TRUE
  /\ Create(t, "break")
  /\ Push(t)
  /\ pc' = [pc EXCEPT ![Owner] = "joining"]
  /\ UNCHANGED <<freed, locked, call, refs, threadVars, timer, ran, touched>>

ThreadEndedMutant == loopbreak   \* the loop is broken, the thread has not ended

ThreadEnded == qpc = "exited"

JoinEnd ==
  /\ pc[Owner] = "joining"
  /\ ThreadEnded
  /\ timer' = FALSE
  /\ pc' = [pc EXCEPT ![Owner] = "idle"]
  /\ UNCHANGED <<chanVars, objVars, call, refs, threadVars, joined, ran, touched>>

(***************************************************************************)
(* A client drops its reference; the thread that drops the last one runs   *)
(* the destructor, which deletes the timer first unless join() was called. *)
(***************************************************************************)
Drop(c) ==
  /\ pc[c] = "idle"
  /\ c \in refs
  /\ refs' = refs \ {c}
  /\ \/ /\ refs # {c}
        /\ pc' = [pc EXCEPT ![c] = "gone"]
        /\ UNCHANGED <<timer, joined>>
     \/ /\ refs = {c}
        /\ joined
        /\ pc' = [pc EXCEPT ![c] = "dtorFree"]
        /\ UNCHANGED <<timer, joined>>
     \/ /\ refs = {c}
        /\ ~joined
        /\ joined' = TRUE
        /\ timer' = FALSE
        /\ pc' = [pc EXCEPT ![c] = "dtorBreak"]
  /\ UNCHANGED <<chanVars, objVars, call, threadVars, ran, touched>>

DtorBreak(c, t) ==
  /\ pc[c] = "dtorBreak"
  /\ Create(t, "break")
  /\ Push(t)
  /\ pc' = [pc EXCEPT ![c] = "dtorJoin"]
  /\ UNCHANGED <<freed, locked, call, refs, threadVars, timer, joined, ran, touched>>

DtorJoin(c) ==
  /\ pc[c] = "dtorJoin"
  /\ ThreadEnded
  /\ pc' = [pc EXCEPT ![c] = "dtorFree"]
  /\ UNCHANGED <<chanVars, objVars, call, refs, threadVars, timer, joined, ran, touched>>

(***************************************************************************)
(* _chan->release() runs ~Chan, which deletes what is left in the channel. *)
(***************************************************************************)
DtorFree(c) ==
  /\ pc[c] = "dtorFree"
  /\ freed' = freed \union Range(chan)
  /\ chan' = <<>>
  /\ pc' = [pc EXCEPT ![c] = "gone"]
  /\ UNCHANGED <<pushed, kind, locked, call, refs, threadVars, timer, joined, ran, touched>>

-----------------------------------------------------------------------------
(* The queue thread.                                                       *)

(***************************************************************************)
(* The one-shot poll timer fires and its callback enters run().            *)
(***************************************************************************)
Fire ==
  /\ qpc = "loop"
  /\ timer
  /\ timer' = FALSE
  /\ qpc' = "pop"
  /\ UNCHANGED <<chanVars, objVars, clientVars, cur, loopbreak, joined, ran, touched>>

Pop ==
  /\ qpc = "pop"
  /\ chan # <<>>
  /\ cur' = Head(chan)
  /\ chan' = Tail(chan)
  /\ qpc' = "run"
  /\ UNCHANGED <<pushed, objVars, clientVars, timer, loopbreak, joined, ran, touched>>

PopEmpty ==
  /\ qpc = "pop"
  /\ chan = <<>>
  /\ qpc' = "rearm"
  /\ UNCHANGED <<chanVars, objVars, clientVars, cur, timer, loopbreak, joined, ran, touched>>

(***************************************************************************)
(* object->run(this).  A Break calls loopbreak() on the queue's thread.  A *)
(* client's function returns after doing nothing to the queue, or after    *)
(* one async() or one loopbreak() on it.                                   *)
(***************************************************************************)
Run ==
  /\ qpc = "run"
  /\ ran' = Append(ran, cur)
  /\ qpc' = "join"
  /\ \/ /\ kind[cur] # "break"
        /\ UNCHANGED <<chanVars, kind, loopbreak>>
     \/ /\ kind[cur] # "break"
        /\ \E t \in Tasks : Create(t, "async") /\ Push(t)
        /\ UNCHANGED loopbreak
     \/ /\ loopbreak' = TRUE
        /\ UNCHANGED <<chanVars, kind>>
  /\ UNCHANGED <<freed, locked, clientVars, cur, timer, joined, touched>>

(***************************************************************************)
(* object->join(): a synced object's mutex is taken, its waiter signalled. *)
(***************************************************************************)
JoinNoLockMutant ==   \* the broadcast is made without the mutex
  /\ qpc = "join"
  /\ pc' = [c \in Clients |-> IF pc[c] = "waiting" /\ call[c] = cur
                                THEN "woken" ELSE pc[c]]
  /\ qpc' = "release"
  /\ UNCHANGED <<chanVars, objVars, call, refs, cur, timer, loopbreak, joined, ran, touched>>

JoinObject ==
  /\ qpc = "join"
  /\ cur \notin locked
  /\ pc' = [c \in Clients |-> IF pc[c] = "waiting" /\ call[c] = cur
                                THEN "woken" ELSE pc[c]]
  /\ qpc' = "release"
  /\ UNCHANGED <<chanVars, objVars, call, refs, cur, timer, loopbreak, joined, ran, touched>>

(***************************************************************************)
(* _chan->releaseObject deletes the object; while(!_loopbreak).            *)
(***************************************************************************)
NextPop == IF loopbreak THEN "rearm" ELSE "pop"

ReleaseObject ==
  /\ qpc = "release"
  /\ freed' = freed \union {cur}
  /\ cur' = Nil
  /\ qpc' = NextPop
  /\ UNCHANGED <<chanVars, kind, locked, clientVars, timer, loopbreak, joined, ran, touched>>

(***************************************************************************)
(* The end of run(): the timer is armed again, unless the loop was broken; *)
(* then event_base_dispatch returns and the thread ends.                   *)
(***************************************************************************)
RearmBrokenMutant ==   \* the one-shot timer is not armed again
  /\ qpc = "rearm"
  /\ ~loopbreak
  /\ qpc' = "loop"
  /\ UNCHANGED <<chanVars, objVars, clientVars, cur, timer, loopbreak, joined, ran, touched>>

Rearm ==
  /\ qpc = "rearm"
  /\ ~loopbreak
  /\ timer' = TRUE
  /\ qpc' = "loop"
  /\ UNCHANGED <<chanVars, objVars, clientVars, cur, loopbreak, joined, ran, touched>>

Exit ==
  /\ qpc = "rearm"
  /\ loopbreak
  /\ qpc' = "exited"
  /\ UNCHANGED <<chanVars, objVars, clientVars, cur, timer, loopbreak, joined, ran, touched>>

-----------------------------------------------------------------------------
ClientMoves(c) ==
  \/ SyncWait(c)
  \/ SyncReturn(c)
  \/ c = Owner /\ JoinEnd
  \/ \E t \in Tasks : DtorBreak(c, t)
  \/ DtorJoin(c)
  \/ DtorFree(c)

ClientCalls(c) ==
  \/ \E t \in Tasks : Async(c, t) \/ SyncPush(c, t) \/ LoopBreak(c, t)
  \/ c = Owner /\ \E t \in Tasks : JoinBegin(t)
  \/ Drop(c)

QueueStep ==
  \/ Fire
  \/ Pop
  \/ PopEmpty
  \/ Run
  \/ JoinObject
  \/ ReleaseObject
  \/ Rearm
  \/ Exit

Next ==
  \/ \E c \in Clients : ClientCalls(c) \/ ClientMoves(c) \/ SpuriousWakeup(c)
  \/ QueueStep

Spec == Init /\ [][Next]_vars

(***************************************************************************)
(* The operating system schedules every thread that can run, the event     *)
(* loop fires a pending timer, and every task returns.  Nothing obliges a  *)
(* client to make a call.                                                  *)
(***************************************************************************)
Fairness ==
  /\ WF_vars(QueueStep)
  /\ \A c \in Clients : WF_vars(ClientMoves(c))

FairSpec == Spec /\ Fairness

-----------------------------------------------------------------------------
(* Properties.                                                             *)

(***************************************************************************)
(* Every variable keeps its type; the queue thread holds an object exactly *)
(* between pop and the end of releaseObject (DispatchQueue::run).          *)
(***************************************************************************)
TypeOK ==
  /\ chan \in Seq(Tasks)
  /\ kind \in [Tasks -> Kinds]
  /\ freed \in SUBSET Tasks
  /\ locked \in SUBSET Tasks
  /\ pc \in [Clients -> ClientPCs]
  /\ call \in [Clients -> Tasks \union {Nil}]
  /\ refs \in SUBSET Clients
  /\ qpc \in QueuePCs
  /\ cur \in Tasks \union {Nil}
  /\ timer \in BOOLEAN
  /\ loopbreak \in BOOLEAN
  /\ joined \in BOOLEAN
  /\ pushed \in Seq(Tasks)
  /\ ran \in Seq(Tasks)
  /\ touched \in SUBSET Tasks
  /\ (cur = Nil) <=> (qpc \in {"loop", "pop", "rearm", "exited"})

InHand == IF qpc = "run" THEN <<cur>> ELSE <<>>

Destroyed == refs = {} /\ \A c \in Clients : pc[c] \notin InDtor

(***************************************************************************)
(* Objects are run in the order in which they were pushed, by whatever     *)
(* mixture of threads, each at most once, and none is lost: until the      *)
(* destructor drops the channel, what was pushed is what ran, then the     *)
(* object in hand, then the channel (Chan::push, Chan::pop, run()).        *)
(***************************************************************************)
ExactlyOnceInOrder ==
  /\ IsInjective(pushed)
  /\ ~Destroyed => pushed = ran \o InHand \o chan

(***************************************************************************)
(* No lost wake-up: while a thread is blocked in sync()'s condition wait,  *)
(* the broadcast that ends the wait is still to come.  The object is       *)
(* pushed inside the mutex because of this (DispatchObject::wait, join).   *)
(***************************************************************************)
NoLostWakeup ==
  \A c \in Clients : pc[c] = "waiting" =>
    \/ call[c] \in Range(chan)
    \/ call[c] = cur /\ qpc \in {"run", "join"}

(***************************************************************************)
(* A DispatchObject is deleted once, by the queue thread after it ran or   *)
(* by ~Chan if it never will: nothing in the channel or in hand is ever a  *)
(* deleted object.  A client uses a deleted object only in the window      *)
(* between the queue thread's broadcast and its own return from sync(),    *)
(* never while it is still to be signalled.  That window exists: wait()    *)
(* unlocks a mutex that run() may already have destroyed.                  *)
(***************************************************************************)
ObjectLifetime ==
  /\ \A t \in freed : t \notin Range(chan) /\ t # cur
  /\ \A c \in Clients : pc[c] \in {"locked", "waiting"} => call[c] \notin freed
  /\ \A t \in touched : kind[t] = "sync" /\ t \in Range(ran)

(***************************************************************************)
(* Once a task or a Break has broken the loop, nothing is run any more,    *)
(* whatever is still in the channel (while(!_loopbreak)).                  *)
(***************************************************************************)
NothingAfterBreak == [][loopbreak => ran' = ran]_vars

(***************************************************************************)
(* The poll is never lost: the queue thread sleeps without a pending timer *)
(* only after a destructor that was not preceded by join() has deleted it. *)
(***************************************************************************)
PollNeverLost == qpc = "loop" /\ ~timer => refs = {} /\ joined

(***************************************************************************)
(* When join() returns, the queue thread has ended: it holds no object and *)
(* has deleted every object that it ran.                                   *)
(***************************************************************************)
JoinQuiesces ==
  [][pc[Owner] = "joining" /\ pc'[Owner] = "idle" =>
       /\ qpc = "exited"
       /\ cur = Nil
       /\ Range(ran) \subseteq freed]_vars

(***************************************************************************)
(* The destructor frees the channel and the event base only after the      *)
(* thread that uses them has ended, when no client is inside a call, and   *)
(* then no DispatchObject is left over (~DispatchQueue, ~Chan).            *)
(***************************************************************************)
CleanDestruction ==
  /\ (\E c \in Clients : pc[c] = "dtorFree") => qpc = "exited"
  /\ Destroyed =>
       /\ \A c \in Clients : pc[c] = "gone"
       /\ \A t \in Tasks : kind[t] # "none" => t \in freed

(***************************************************************************)
(* sync() returns only after its function was run, unless the condition    *)
(* wait ended without a broadcast.                                         *)
(***************************************************************************)
SyncAfterRun ==
  [][\A c \in Clients :
       ~Spurious /\ pc[c] \in {"locked", "waiting", "woken"} /\ pc'[c] = "idle"
         => call[c] \in Range(ran)]_vars

(***************************************************************************)
(* A thread blocked in sync() is woken, unless the loop was broken before  *)
(* its object was reached; then it is blocked for ever.                    *)
(***************************************************************************)
SyncWakes ==
  \A c \in Clients :
    pc[c] = "waiting" ~> (pc[c] # "waiting" \/ qpc = "exited")

(***************************************************************************)
(* join() returns: the Break, or an earlier one, ends the queue thread.    *)
(***************************************************************************)
JoinReturns == pc[Owner] = "joining" ~> pc[Owner] = "idle"

(***************************************************************************)
(* A destructor that join() did not precede deletes the poll timer before  *)
(* it pushes its Break.  It is sure to end if the queue thread was inside  *)
(* run() at that moment, for then run() finds the Break or arms the timer  *)
(* again; PollNeverLost names the other case, in which it waits for ever.  *)
(***************************************************************************)
DestructorEnds ==
  \A c \in Clients :
    pc[c] = "dtorJoin" /\ (timer \/ qpc # "loop") ~> pc[c] = "gone"

-----------------------------------------------------------------------------
(***************************************************************************)
(* The queue implements the executor of SerialExecutor.  Its inbox is the  *)
(* object in hand and the channel; a client waits from the push until it   *)
(* returns from sync() or is lost in it.  The executor stops when its loop *)
(* is broken, or when the destructor deletes the timer of a queue asleep.  *)
(***************************************************************************)
Asleep == qpc = "loop" /\ ~timer

SE == INSTANCE SerialExecutor WITH
        inbox    <- InHand \o chan,
        executed <- ran,
        used     <- {t \in Tasks : kind[t] # "none"},
        caller   <- call,
        users    <- refs,
        open     <- ~loopbreak /\ ~Asleep

(***************************************************************************)
(* The safety part of the executor's promise, and the whole of it.         *)
(***************************************************************************)
ImplementsExecutor == SE!Spec
ImplementsFairExecutor == SE!FairSpec
=============================================================================
