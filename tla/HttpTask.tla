------------------------------ MODULE HttpTask ------------------------------
(***************************************************************************)
(* kk::Http and its HttpTasks (kk-http.cc): requests over libevent's       *)
(* evhttp, with the references that keep a task alive while libevent or    *)
(* the script may still come back to it.                                   *)
(*                                                                         *)
(* send() makes a task that is referred to by its script object, by the    *)
(* map _tasks of the Http and, once the request is made, by a reference    *)
(* that open() takes for libevent and HttpRequest_cb gives back.  libevent *)
(* answers with the request's callback; when the request fails it frees    *)
(* the request and calls the error callback and then the same callback     *)
(* (event2/http.h, evhttp_request_set_error_cb).  Everything happens on    *)
(* one thread, but scripts called back may do anything: send, cancel,      *)
(* lose their last reference to a task or to the Http.                     *)
(*                                                                         *)
(* A definition named ...Mutant is a plausible mistake in the definition   *)
(* that follows it, kept to show that a property notices it.               *)
(***************************************************************************)
EXTENDS Integers, Sequences, Functions, SequencesExt

CONSTANT Tasks       (* the HttpTasks that can be made (bounds the runs)   *)

VARIABLES
  http,      (* the Http exists                                            *)
  tasks,     (* Http::_tasks                                               *)
  made,      (* tasks that send() has made                                 *)
  wrapped,   (* tasks whose script object has not been collected           *)
  count,     (* _retainCount of each task                                  *)
  deleted,   (* tasks deleted                                              *)
  req,       (* tasks whose _req, and with it _conn, is not null           *)
  wire,      (* tasks whose request libevent has not finished              *)
  stack,     (* the calls of onload and onfail in progress, oldest first   *)
  crashed,   (* the program did not survive a bad pointer                  *)
  heard,     (* history: tasks whose onload or onfail was called, in order *)
  fate       (* history: what happened to each task                        *)

refVars == <<wrapped, count, deleted>>
vars == <<http, tasks, made, wrapped, count, deleted, req, wire, stack,
          crashed, heard, fate>>

(***************************************************************************)
(* fate: open() took its reference and it was not given back; send() threw *)
(* or could not make the request; libevent reported a failure; the script  *)
(* cancelled the task, or the Http was deleted with it; that happened in   *)
(* the task's own callback; a request was used after libevent freed it, or *)
(* a null one.                                                             *)
(***************************************************************************)
Fates == {"retained", "thrown", "unsent", "failed", "cancelled", "lost",
          "reentered", "faulty"}

(***************************************************************************)
(* Where a call of a script's function comes from: HttpTask::open,         *)
(* HttpTask::onLoad (200 or not), HttpTask_error_cb.                       *)
(***************************************************************************)
Frame == [task : Tasks, at : {"open", "load", "error"}]

Init ==
  /\ http = TRUE
  /\ tasks = {}
  /\ made = {}
  /\ wrapped = {}
  /\ count = [t \in Tasks |-> 0]
  /\ deleted = {}
  /\ req = {}
  /\ wire = {}
  /\ stack = <<>>
  /\ crashed = FALSE
  /\ heard = <<>>
  /\ fate = [t \in Tasks |-> {}]

CalledFrom(s, t, where) == \E i \in DOMAIN s : s[i].task = t /\ s[i].at \in where
Inside(t, where) == CalledFrom(stack, t, where)
InCallback(t) == Inside(t, {"load", "error"})
Opening == {t \in Tasks : Inside(t, {"open"})}

(***************************************************************************)
(* Object::release on the tasks of T, n times each.                        *)
(***************************************************************************)
ReleaseAll(T, n) ==
  /\ count' = [t \in Tasks |-> IF t \in T THEN count[t] - n ELSE count[t]]
  /\ deleted' = deleted \union {t \in T : count[t] <= n}

Mark(T, what) == [t \in Tasks |-> IF t \in T THEN fate[t] \union what ELSE fate[t]]

(***************************************************************************)
(* The pointers of the tasks in T that were used are bad, or may be: the   *)
(* program survives it or does not.                                        *)
(***************************************************************************)
Survive(T) == crashed' \in (IF T = {} THEN {FALSE} ELSE BOOLEAN)

(***************************************************************************)
(* Http::send.  With a "headers" property that has a member the loop over  *)
(* it calls duk_next on the member, which throws: task and request stay.   *)
(***************************************************************************)
New(t) == http /\ t \notin made /\ made' = made \union {t}

SendThrows(t) ==
  /\ New(t)
  /\ fate' = Mark({t}, {"thrown"})
  /\ UNCHANGED <<http, tasks, refVars, req, wire, stack, crashed, heard>>

(***************************************************************************)
(* PushObject, the entry in _tasks and the reference that open() takes,    *)
(* whether or not evhttp_make_request succeeded: on failure libevent has   *)
(* freed the request and will not call back.                               *)
(***************************************************************************)
RefsUnretainedMutant == 2   \* open() does not retain the task for libevent

Refs == 3

Send(t) ==
  /\ New(t)
  /\ tasks' = tasks \union {t}
  /\ wrapped' = wrapped \union {t}
  /\ count' = [count EXCEPT ![t] = Refs]
  /\ req' = req \union {t}
  /\ \/ /\ wire' = wire \union {t}
        /\ fate' = Mark({t}, {"retained"})
     \/ /\ fate' = Mark({t}, {"retained", "unsent"})
        /\ UNCHANGED wire
  /\ UNCHANGED <<http, deleted, stack, crashed, heard>>

(***************************************************************************)
(* A URL without a host: onfail is called inside open().                   *)
(***************************************************************************)
SendBadUrl(t) ==
  /\ New(t)
  /\ tasks' = tasks \union {t}
  /\ wrapped' = wrapped \union {t}
  /\ count' = [count EXCEPT ![t] = 2]
  /\ req' = req \union {t}
  /\ stack' = Append(stack, [task |-> t, at |-> "open"])
  /\ heard' = Append(heard, t)
  /\ UNCHANGED <<http, deleted, wire, crashed, fate>>

(***************************************************************************)
(* libevent's loop: the request is complete, or the connection was refused *)
(* (HttpRequest_cb, onLoad); the request failed with a timeout or an error *)
(* (HttpTask_error_cb, onFail); the peer closed the connection, which the  *)
(* error callback ignores, so that onLoad looks at the freed request.      *)
(***************************************************************************)
Enter(t, at) ==
  /\ stack = <<>>
  /\ t \in wire
  /\ wire' = wire \ {t}
  /\ stack' = <<[task |-> t, at |-> at]>>
  /\ heard' = Append(heard, t)
  /\ UNCHANGED <<http, tasks, made, refVars, req>>

Complete(t) == Enter(t, "load") /\ UNCHANGED <<crashed, fate>>

Fails(t) == Enter(t, "error") /\ fate' = Mark({t}, {"failed"}) /\ UNCHANGED crashed

Eof(t) ==
  /\ fate' = Mark({t}, {"failed", "faulty"})
  /\ \/ Enter(t, "load") /\ crashed' = FALSE
     \/ /\ stack = <<>>
        /\ t \in wire
        /\ wire' = wire \ {t}
        /\ crashed' = TRUE
        /\ UNCHANGED <<http, tasks, made, refVars, req, stack, heard>>

(***************************************************************************)
(* HttpTask::remove: the task leaves _tasks, if the Http still exists and  *)
(* knows it, is released for that, and forgets its request.                *)
(***************************************************************************)
ForgottenMutant(t) == {}   \* _req is kept

Forgotten(t) == {t}

InMapMutant(t) == 0   \* remove() does not release the task

InMap(t) == IF t \in tasks THEN 1 ELSE 0

(***************************************************************************)
(* The script's function returns.  open() and onFail go on with remove();  *)
(* after onLoad, HttpRequest_cb gives open's reference back; after the     *)
(* error callback libevent calls HttpRequest_cb, whose onLoad finds _req   *)
(* null.                                                                   *)
(***************************************************************************)
Return ==
  /\ stack # <<>>
  /\ LET t == Last(stack).task IN
       /\ stack' = Front(stack)
       /\ tasks' = tasks \ {t}
       /\ req' = req \ Forgotten(t)
       /\ \/ /\ Last(stack).at = "open"
             /\ ReleaseAll({t}, InMap(t))
             /\ UNCHANGED <<crashed, fate>>
          \/ /\ Last(stack).at = "load"
             /\ ReleaseAll({t}, InMap(t) + 1)
             /\ fate' = [fate EXCEPT ![t] = @ \ {"retained"}]
             /\ UNCHANGED crashed
          \/ /\ Last(stack).at = "error"
             /\ ReleaseAll({t}, InMap(t))
             /\ fate' = Mark({t}, {"faulty"})
             /\ crashed' = TRUE
  /\ UNCHANGED <<http, made, wrapped, wire, heard>>

(***************************************************************************)
(* HttpTask::cancel, called by a script that has the task: the request is  *)
(* cancelled, and neither callback of libevent calls the script.  Then the *)
(* connection is freed, which libevent was told to free by itself once the *)
(* last request has completed or failed, and may have freed in cancelling  *)
(* the request: no cancel() is known to be safe.                           *)
(***************************************************************************)
UnwireMutant(T) == {}   \* the request is not cancelled

UnwireSharedMutant(T) == wire   \* the tasks share the connection that is freed

Unwire(T) == T

Misused(T) == (T \intersect req) \ wire

Cancel(t) ==
  /\ t \in wrapped \ Opening
  /\ t \in req
  /\ wire' = wire \ Unwire({t})
  /\ tasks' = tasks \ {t}
  /\ req' = req \ Forgotten(t)
  /\ ReleaseAll({t}, InMap(t))
  /\ Survive({t})
  /\ fate' = Mark({t}, {"cancelled"} \union (IF InCallback(t) THEN {"reentered"} ELSE {})
                         \union (IF Misused({t}) # {} THEN {"faulty"} ELSE {}))
  /\ UNCHANGED <<http, made, wrapped, stack, heard>>

(***************************************************************************)
(* The heap collects the script object of a task (ScriptObjectDeallocFunc) *)
(* or of the Http, whose destructor cancels and releases all its tasks.    *)
(* An object that a method is running on is not collected.                 *)
(***************************************************************************)
Collect(t) ==
  /\ t \in wrapped \ Opening
  /\ wrapped' = wrapped \ {t}
  /\ ReleaseAll({t}, 1)
  /\ UNCHANGED <<http, tasks, made, req, wire, stack, crashed, heard, fate>>

CollectHttp ==
  /\ http
  /\ Opening = {}
  /\ http' = FALSE
  /\ tasks' = {}
  /\ req' = req \ tasks
  /\ wire' = wire \ Unwire(tasks)
  /\ ReleaseAll(tasks, 1)
  /\ Survive(Misused(tasks))
  /\ fate' = [t \in Tasks |->
                fate[t] \union (IF t \in tasks THEN {"lost"} ELSE {})
                        \union (IF t \in tasks /\ InCallback(t) THEN {"reentered"} ELSE {})
                        \union (IF t \in Misused(tasks) THEN {"faulty"} ELSE {})]
  /\ UNCHANGED <<made, wrapped, stack, heard>>

-----------------------------------------------------------------------------
Loop(t) == Complete(t) \/ Fails(t) \/ Eof(t)

Script ==
  \/ \E t \in Tasks : SendThrows(t) \/ Send(t) \/ SendBadUrl(t) \/ Cancel(t) \/ Collect(t)
  \/ CollectHttp

Next ==
  /\ ~crashed
  /\ Script \/ Return \/ \E t \in Tasks : Loop(t)

Spec == Init /\ [][Next]_vars

(***************************************************************************)
(* Functions of scripts return, and libevent finishes every request: the   *)
(* connection has a timeout (evhttp_connection_set_timeout).               *)
(***************************************************************************)
FairSpec ==
  /\ Spec
  /\ WF_vars(~crashed /\ Return)
  /\ \A t \in Tasks : SF_vars(~crashed /\ Loop(t))

-----------------------------------------------------------------------------
(* Properties.                                                             *)

(***************************************************************************)
(* Every variable keeps its type; no count falls below zero.               *)
(***************************************************************************)
TypeOK ==
  /\ http \in BOOLEAN
  /\ tasks \in SUBSET Tasks
  /\ made \in SUBSET Tasks
  /\ wrapped \in SUBSET Tasks
  /\ count \in [Tasks -> Nat]
  /\ deleted \in SUBSET Tasks
  /\ req \in SUBSET Tasks
  /\ wire \in SUBSET Tasks
  /\ stack \in Seq(Frame)
  /\ crashed \in BOOLEAN
  /\ heard \in Seq(Tasks)
  /\ fate \in [Tasks -> SUBSET Fates]

(***************************************************************************)
(* libevent and the script hold raw pointers to tasks: as callback         *)
(* argument, as "this" of a method that has called a script, in _tasks, in *)
(* the script object.  None of these tasks is deleted, whatever a callback *)
(* cancels, drops or sends (HttpTask::open, HttpRequest_cb, ~Http).        *)
(***************************************************************************)
TargetAlive ==
  \A t \in deleted :
    t \notin tasks \union wrapped \union wire /\ ~Inside(t, {"open", "load", "error"})

(***************************************************************************)
(* A request that libevent has freed, or a null one, is used only for a    *)
(* task whose request failed or was never made, or that was cancelled by   *)
(* its own callback.  At any other time, even long after the answer,       *)
(* cancel() and ~Http use no bad request; of the connection that cancel()  *)
(* frees this says nothing (HttpTask::cancel, remove, dealloc).            *)
(***************************************************************************)
FaultsExplained ==
  \A t \in Tasks : "faulty" \in fate[t] =>
    fate[t] \intersect {"failed", "unsent", "reentered"} # {}

(***************************************************************************)
(* A task that nobody can reach any more is deleted, unless send() threw   *)
(* or the reference that open() took waits for a callback that never comes *)
(* because the task was cancelled or lost with its Http (HttpTask::open,   *)
(* HttpRequest_cb).  Until then the task is where the code can find it.    *)
(***************************************************************************)
LeaksExplained ==
  \A t \in made \ deleted :
    \/ t \in tasks \union wrapped \union wire
    \/ Inside(t, {"load", "error"})
    \/ "thrown" \in fate[t] \/ crashed
    \/ "retained" \in fate[t] /\ fate[t] \intersect {"cancelled", "lost"} # {}

(***************************************************************************)
(* Every request that is on its way is answered, cancelled, or lost with   *)
(* its Http, if the program lives.                                         *)
(***************************************************************************)
EveryRequestAnswered ==
  \A t \in Tasks :
    t \in wire ~> t \in Range(heard) \/ fate[t] \intersect {"cancelled", "lost"} # {} \/ crashed

-----------------------------------------------------------------------------
RQ == INSTANCE Requests WITH
        sent     <- made,
        answered <- heard,
        dropped  <- {t \in Tasks : "cancelled" \in fate[t]},
        open     <- http

(***************************************************************************)
(* A script hears of a request once at most, and of none that it has       *)
(* cancelled or that was lost with its Http.                               *)
(***************************************************************************)
ImplementsRequests == RQ!Spec
=============================================================================
