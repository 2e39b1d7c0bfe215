------------------------------ MODULE WebWorker ------------------------------
(***************************************************************************)
(* kk::WebWorker (kk-wk.cc): a script on a thread of its own, with a       *)
(* DispatchQueue, that exchanges messages with the script that made it.    *)
(*                                                                         *)
(* The object that script has holds the only lasting reference to the      *)
(* WebWorker.  Every task that is queued knows it by a Weak, which is      *)
(* null only after ~Object: a task of the worker's queue makes a reference *)
(* of it for the call of onmessage, one of the main queue uses it as it    *)
(* is.  ~WebWorker joins the worker's thread before it frees script and    *)
(* queue.                                                                  *)
(*                                                                         *)
(* release() does not delete: it queues the object in MutexAtomic, and the *)
(* thread that next leaves any of its sections deletes it (RefCount).  If  *)
(* that is the worker's thread, the join fails at once.                    *)
(*                                                                         *)
(* Both scripts have an onmessage.  After a fault the model stops.         *)
(* A definition named ...Mutant is a plausible mistake in the definition   *)
(* that follows it, kept to show that a property notices it.               *)
(***************************************************************************)
EXTENDS Binary

CONSTANTS
  Payloads,    (* the lists of arguments that postMessage is called with   *)
  MaxToWorker, (* bound: messages posted to the worker                     *)
  MaxToMain    (* bound: messages posted by it                             *)

(***************************************************************************)
(* A postMessage without arguments does nothing.                           *)
(***************************************************************************)
ASSUME PayloadsAssumption == Payloads \subseteq Seq(Values) \ {<<>>}
ASSUME MaxAssumption == MaxToWorker \in Nat /\ MaxToMain \in Nat

VARIABLES
  refs,       (* _retainCount                                              *)
  shell,      (* the script that made the worker still has its object      *)
  life,       (* the WebWorker is live, deleting or deleted                *)
  pending,    (* it is in MutexAtomic::_objects                            *)
  deleters,   (* history: the threads that have begun to delete it         *)
  inq,        (* tasks of the worker's queue: Open, Break or a message     *)
  outq,       (* messages in the main queue                                *)
  wpc, mpc,   (* where the two threads are                                 *)
  holds,      (* the worker's task holds a reference                       *)
  toWorker, toMain,         (* history: messages posted                    *)
  heardWorker, heardMain,   (* history: what onmessage was called with     *)
  broken,     (* history: messages that had been posted before Break, or   *)
              (* Never                                                     *)
  fault

Reception == [args \in Payloads |-> Received(args)]

threads == <<wpc, mpc, holds>>
posts == <<toWorker, toMain>>
heards == <<heardWorker, heardMain>>
object == <<refs, life, pending, deleters>>
vars == <<object, shell, inq, outq, threads, posts, heards, broken, fault>>

Open == <<Plain("open")>>
Break == <<Plain("break")>>
Never == MaxToWorker + 1

(***************************************************************************)
(* After WebWorkerAlloc, with open().                                      *)
(***************************************************************************)
Init ==
  /\ refs = 1 /\ shell = TRUE /\ life = "live" /\ pending = FALSE /\ deleters = {}
  /\ inq = <<Open>> /\ outq = <<>>
  /\ wpc = "loop" /\ mpc = "loop" /\ holds = FALSE
  /\ toWorker = <<>> /\ toMain = <<>> /\ heardWorker = <<>> /\ heardMain = <<>>
  /\ broken = Never /\ fault = "none"

-----------------------------------------------------------------------------
(* The object.                                                             *)

Release ==
  /\ refs' = refs - 1
  /\ pending' = (pending \/ refs = 1)
  /\ UNCHANGED <<life, deleters>>

(***************************************************************************)
(* MutexAtomic::unlock takes the object from its queue, on whichever       *)
(* thread comes by.  Somebody may have retained it since.                  *)
(***************************************************************************)
Spare ==
  /\ pending /\ refs > 0
  /\ pending' = FALSE
  /\ UNCHANGED <<refs, shell, life, deleters, inq, outq, threads, posts, heards, broken, fault>>

(***************************************************************************)
(* DispatchQueue::async(DispatchQueueBreak).                               *)
(***************************************************************************)
QueueBreakMutant ==   \* the thread is not told to end
  /\ UNCHANGED inq
  /\ broken' = IF broken = Never THEN Len(toWorker) ELSE broken

QueueBreak ==
  /\ inq' = Append(inq, Break)
  /\ broken' = IF broken = Never THEN Len(toWorker) ELSE broken

(***************************************************************************)
(* ~WebWorker on the main thread: join() queues a Break and waits for the  *)
(* end of the thread.                                                      *)
(***************************************************************************)
DeleteOnMain ==
  /\ pending /\ refs = 0 /\ mpc = "loop" /\ life = "live"
  /\ pending' = FALSE /\ life' = "deleting" /\ deleters' = {"main"}
  /\ QueueBreak
  /\ mpc' = "join"
  /\ UNCHANGED <<refs, shell, outq, wpc, holds, posts, heards, fault>>

JoinMutant ==   \* the destructor does not wait for the thread
  /\ mpc = "join"
  /\ mpc' = "loop"

Join ==
  /\ mpc = "join" /\ wpc = "exited"
  /\ mpc' = "loop"

Joined ==
  /\ Join
  /\ life' = "deleted" /\ inq' = <<>>
  /\ UNCHANGED <<refs, shell, pending, deleters, outq, wpc, holds, posts, heards, broken, fault>>

(***************************************************************************)
(* ~WebWorker on the worker's thread: pthread_join refuses to wait for the *)
(* thread itself, and _joined keeps a second destructor from it.           *)
(***************************************************************************)
DeleteOnWorker ==
  /\ pending /\ refs = 0 /\ wpc \in {"script", "return"}
  /\ pending' = FALSE /\ deleters' = deleters \union {"worker"}
  /\ life' = "deleted"
  /\ fault' = IF life = "live" THEN fault ELSE "twice"
  /\ UNCHANGED <<refs, shell, inq, outq, threads, posts, heards, broken>>

-----------------------------------------------------------------------------
(* The thread of the script that made the worker.                          *)

(***************************************************************************)
(* postMessage.  A function that cannot be dumped throws before anything   *)
(* is posted: that call is a step that changes nothing here, and what it   *)
(* leaks are nodes of a message that nobody sees.                          *)
(***************************************************************************)
PostToWorker(args) ==
  /\ shell /\ mpc \in {"loop", "call"}
  /\ Len(toWorker) < MaxToWorker
  /\ toWorker' = Append(toWorker, args)
  /\ inq' = Append(inq, args)
  /\ UNCHANGED <<object, shell, outq, threads, toMain, heards, broken, fault>>

Terminate ==
  /\ shell /\ mpc \in {"loop", "call"}
  /\ wpc # "exited" /\ broken = Never
  /\ QueueBreak
  /\ UNCHANGED <<object, shell, outq, threads, posts, heards, fault>>

(***************************************************************************)
(* The script's object is collected (ScriptObjectDeallocFunc).             *)
(***************************************************************************)
DropShell ==
  /\ shell /\ mpc = "loop"
  /\ shell' = FALSE
  /\ Release
  /\ UNCHANGED <<inq, outq, threads, posts, heards, broken, fault>>

(***************************************************************************)
(* WebWorkerPostMessageDispatchFunc reads the Weak, then postMessage calls *)
(* onmessage of the script's object, if there is one.                      *)
(***************************************************************************)
TakeOnMain ==
  /\ mpc = "loop" /\ outq # <<>>
  /\ IF life = "deleted"
       THEN outq' = Tail(outq) /\ UNCHANGED mpc
       ELSE mpc' = "read" /\ UNCHANGED outq
  /\ UNCHANGED <<object, shell, inq, wpc, holds, posts, heards, broken, fault>>

CallOnMain ==
  /\ mpc = "read"
  /\ outq' = Tail(outq)
  /\ mpc' = IF shell THEN "call" ELSE "loop"
  /\ heardMain' = IF shell THEN Append(heardMain, Reception[Head(outq)]) ELSE heardMain
  /\ fault' = IF life = "deleted" THEN "dangling"
              ELSE IF shell /\ Reception[Head(outq)] = Broken THEN "misread" ELSE fault
  /\ UNCHANGED <<object, shell, inq, wpc, holds, posts, heardWorker, broken>>

ReturnOnMain ==
  /\ mpc = "call"
  /\ mpc' = "loop"
  /\ UNCHANGED <<object, shell, inq, outq, wpc, holds, posts, heards, broken, fault>>

-----------------------------------------------------------------------------
(* The worker's thread.                                                    *)

(***************************************************************************)
(* DispatchQueue::run takes a task.  ~Object has not run before the thread *)
(* has ended, so that the Weak is not null.                                *)
(***************************************************************************)
Take ==
  /\ wpc = "loop" /\ inq # <<>> /\ life # "deleted"
  /\ \/ Head(inq) = Open /\ wpc' = "script" /\ inq' = Tail(inq)
     \/ Head(inq) = Break /\ wpc' = "exited" /\ inq' = Tail(inq)
     \/ Head(inq) \in Payloads /\ wpc' = "read" /\ UNCHANGED inq
  /\ UNCHANGED <<object, shell, outq, mpc, holds, posts, heards, broken, fault>>

(***************************************************************************)
(* WebWorkerPostMessageFunc makes a Strong of what it has read, and calls  *)
(* the script.                                                             *)
(***************************************************************************)
Retain == refs' = refs + 1 /\ UNCHANGED <<life, pending, deleters>>

Call ==
  /\ wpc = "read"
  /\ Retain
  /\ holds' = TRUE
  /\ wpc' = "script"
  /\ inq' = Tail(inq)
  /\ heardWorker' = Append(heardWorker, Reception[Head(inq)])
  /\ fault' = IF Reception[Head(inq)] = Broken THEN "misread" ELSE fault
  /\ UNCHANGED <<shell, outq, mpc, posts, heardMain, broken>>

(***************************************************************************)
(* The script's timers and sockets call it, too.                           *)
(***************************************************************************)
Event ==
  /\ wpc = "loop" /\ life # "deleted"
  /\ ~Contains(inq, Open)
  /\ wpc' = "script"
  /\ UNCHANGED <<object, shell, inq, outq, mpc, holds, posts, heards, broken, fault>>

PostToMain(args) ==
  /\ wpc = "script" /\ life # "deleted"
  /\ Len(toMain) < MaxToMain
  /\ toMain' = Append(toMain, args)
  /\ outq' = Append(outq, args)
  /\ UNCHANGED <<object, shell, inq, threads, toWorker, heards, broken, fault>>

(***************************************************************************)
(* The script is done, and the reference goes.                             *)
(***************************************************************************)
Done ==
  /\ wpc = "script" /\ life # "deleted"
  /\ IF holds THEN Release ELSE UNCHANGED object
  /\ holds' = FALSE
  /\ wpc' = "return"
  /\ UNCHANGED <<shell, inq, outq, mpc, posts, heards, broken, fault>>

(***************************************************************************)
(* Back in the loop, which finds that its queue is gone if the thread has  *)
(* deleted the WebWorker.                                                  *)
(***************************************************************************)
Return ==
  /\ wpc = "return" \/ (wpc = "script" /\ life = "deleted")
  /\ IF life = "deleted"
       THEN fault' = "unqueued" /\ UNCHANGED wpc
       ELSE wpc' = "loop" /\ UNCHANGED fault
  /\ UNCHANGED <<object, shell, inq, outq, mpc, holds, posts, heards, broken>>

-----------------------------------------------------------------------------
OnMain == DeleteOnMain \/ Joined \/ TakeOnMain \/ CallOnMain \/ ReturnOnMain
OnWorker == Call \/ Done \/ Return

Next ==
  /\ fault = "none"
  /\ \/ OnMain \/ OnWorker \/ Take
     \/ Spare \/ DeleteOnWorker
     \/ \E args \in Payloads : PostToWorker(args) \/ PostToMain(args)
     \/ Terminate \/ DropShell \/ Event

Spec == Init /\ [][Next]_vars

(***************************************************************************)
(* Both threads run, and the worker's loop comes to its queue however busy *)
(* timers and sockets keep it.                                             *)
(***************************************************************************)
FairSpec ==
  /\ Spec
  /\ WF_vars(fault = "none" /\ OnMain)
  /\ WF_vars(fault = "none" /\ OnWorker)
  /\ SF_vars(fault = "none" /\ Take)

-----------------------------------------------------------------------------
(* Properties.                                                             *)

Heard == Seq({Reception[args] : args \in Payloads})

(***************************************************************************)
(* Every variable keeps its type.                                          *)
(***************************************************************************)
TypeOK ==
  /\ refs \in Nat /\ shell \in BOOLEAN /\ pending \in BOOLEAN /\ holds \in BOOLEAN
  /\ life \in {"live", "deleting", "deleted"} /\ deleters \subseteq {"main", "worker"}
  /\ inq \in Seq(Payloads \union {Open, Break}) /\ outq \in Seq(Payloads)
  /\ wpc \in {"loop", "read", "script", "return", "exited"}
  /\ mpc \in {"loop", "read", "call", "join"}
  /\ toWorker \in Seq(Payloads) /\ Len(toWorker) <= MaxToWorker
  /\ toMain \in Seq(Payloads) /\ Len(toMain) <= MaxToMain
  /\ heardWorker \in Heard /\ heardMain \in Heard
  /\ broken \in 0 .. Never
  /\ fault \in {"none", "misread", "dangling", "twice", "unqueued"}

(***************************************************************************)
(* A worker whose object the script keeps is alive, and nothing goes wrong *)
(* but the decoding of a container that ends with a container; when        *)
(* something else does, the worker's own thread has deleted the WebWorker  *)
(* (~WebWorker, WebWorkerPostMessageFunc).                                 *)
(***************************************************************************)
Sent == Range(toWorker) \union Range(toMain)
Sound == {args \in Payloads : \A i \in DOMAIN args : args[i] \in Unnested}

OnlyOwnThreadHarms ==
  /\ shell => life = "live" /\ refs > 0
  /\ fault = "misread" => ~ Sent \subseteq Sound
  /\ fault \notin {"none", "misread"} => ~shell /\ "worker" \in deleters

(***************************************************************************)
(* onmessage is called with what was posted, in that order, on either      *)
(* side, and not for what was posted after terminate() or behind the end   *)
(* of the worker; only the contents of a container that ends with a        *)
(* container may be lost (BinaryAlloc, BinaryPushContext, postMessage).    *)
(***************************************************************************)
Wanted == [args \in Payloads |-> [i \in DOMAIN args |-> Normal[args[i]]]]

As(heard, sent) ==
  \A i \in DOMAIN heard :
    i \in DOMAIN sent /\ (sent[i] \in Sound => heard[i] = Wanted[sent[i]])

HeardAsPosted ==
  As(heardWorker, toWorker) /\ As(heardMain, toMain) /\ Len(heardWorker) <= broken

(***************************************************************************)
(* What was posted before terminate() is heard while the script keeps the  *)
(* worker, and a WebWorker without references is deleted: the destructor   *)
(* does not wait for ever (DispatchQueue::join, kk-wk.cc postMessage).     *)
(***************************************************************************)
Over == ~shell \/ fault # "none"

MessagesArrive ==
  /\ \A n \in 1 .. MaxToWorker :
       Len(toWorker) >= n /\ n <= broken ~> Len(heardWorker) >= n \/ Over
  /\ \A n \in 1 .. MaxToMain : Len(toMain) >= n ~> Len(heardMain) >= n \/ Over
  /\ refs = 0 ~> life = "deleted" \/ fault # "none"
=============================================================================
