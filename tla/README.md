# Verification of kk-object

kk-object is a C++ runtime for scripts: reference-counted objects, event
emitters, dispatch queues with threads of their own, a binding to the Duktape
interpreter, and timers, HTTP, WebSockets and workers on libevent. This directory
holds TLA+ models of its parts, the configurations with which TLC checks them on
small instances, and proofs for instances of any size, which TLAPS checks.
Paths below are relative to the repository (`src/...` in `PROJECT.json`); every
definition is mapped there to the lines that it models.

    tlc  -workers 2 -config dq_safety.cfg MCDispatchQueue    # a run
    tlapm DispatchQueueProofs.tla                            # a proof

## 1. Inventory

### The parts that are modelled

**DispatchQueue, Chan** (`src/kk-dispatch.cc`, `src/kk-chan.cc`). A thread with
an event base, and a channel of `DispatchObject`s. *State*: `Chan::_queue`, the
one-shot poll timer `_event`, `_loopbreak`, `_joined`; per object a mutex and a
condition variable. *Operations*: `async`, `sync`, `loopbreak`, `join`, the
destructor; on the queue's thread `run()`. *Interaction*: any thread pushes; the
queue thread polls the channel every time its timer fires, runs what it pops,
signals the thread that waits for it and deletes it. *Hard*: no wake-up but the
timer, so one path that does not arm it again stops the queue; the broadcast
against the wait; who deletes what is left in the channel; the order of join,
destructor and a Break pushed by somebody else. *Correct if* objects are run once
each and in order, a `sync()` returns after its function and is woken, `join()`
returns and leaves the queue quiet, and nothing is leaked or used after deletion.

**Object, Strong, Weak, MutexAtomic** (`src/kk-object.cc`). Reference counts under
one global mutex. *State*: `_retainCount` and `_weakObjects` of each object,
`MutexAtomic::_objects`, the objects whose count fell to zero. *Operations*:
`retain`, `release`, `weak`, `unWeak`, `Strong::set`, `Weak::set`, the
destructors. *Interaction*: every part of the runtime holds its objects in
`Strong`s and hands them from thread to thread in the context of a block. *Hard*:
an object is not deleted where it is released but by whichever thread unlocks the
mutex next, after a look at the count without the mutex; destructors release
members, so deletions nest; a `Weak` is read in one step and retained in
another. *Correct if* an object is deleted once, after its last reference and
not before, and a `Weak` never refers to a deleted object.

**EventTimer** (`src/kk-ev.cc`). `setTimeout`, `setInterval` and their clear
functions. *State*: the timers, which of them are pending in the event base, the
properties of the global object that own them. *Interaction*: the script's heap
owns a timer through a property with a finalizer; the event loop calls it. *Hard*:
a timer can be cleared, or lose its id to a new timer, inside its own callback;
an id is a memory address printed with `%x`, so ids come back and may collide.
*Correct if* properties and timers agree, a cleared timer is never called, a
timeout is called once, and a timer that nobody cleared is called.

**WebSocket** (`src/kk-ws.cc`). A client for RFC 6455 on a libevent bufferevent.
*State*: `_state`, `_bev`, `_body`, `_bodyType`, `_bodyLength`, the input buffer.
*Operations*: open, resolve, connect, the handshake, the reading of frames, close,
the destructor. *Interaction*: libevent and evdns call the handlers, the handlers
call the script, the script calls the socket back. *Hard*: TCP cuts frames
anywhere, the peer cuts messages; callbacks re-enter the handler that called them;
evdns keeps a raw `this`. *Correct if* the script hears `onopen`, then messages,
then `onclose`, the messages whole, in order and all of them, and no handler uses
what a callback has freed.

**Http, HttpTask** (`src/kk-http.cc`). Requests of scripts over libevent's evhttp.
*State*: `Http::_tasks`; per task its reference count, `_req` and `_conn`, and what
libevent still has on the wire. *Operations*: `send` (with `open`), the error
callback and the callback of a request, `cancel`, `~Http`. *Interaction*: libevent
calls a task back through a raw pointer, for which `open` takes a reference; the
task calls the script, which may send, cancel and lose its references. *Hard*: a
request that fails is freed by libevent between two callbacks; who gives back which
reference. *Correct if* no raw pointer is to a deleted task, a request is answered
once at most and, unless cancelled, at last; bad requests and leaks come only from
the causes that are known.

**Script binding** (`src/kk-script.cc`): `script::Object`, `ReflectObject`,
`WeakObject` and `WeakMap`. *State*: the objects of the heap and who roots them, the
addresses that C++ objects store, the finalizers that are due. *Interaction*: C++
objects root heap objects in the global object, shells in the heap point back, the
collector tells both through finalizers. *Hard*: finalizers run in any order and
after other objects have gone; addresses are used again; keys have 32 bits of an
address. *Correct if* what is stored is not freed, or the holder is told.

**EventEmitter** (`src/kk-event.cc`). *State*: the list of native callbacks, the
array `__events` of the script's listeners, the counts behind `has()`. *Operations*:
`on`, `off`, `emit`, and the same for scripts. *Hard*: listeners change the lists
during an `emit`; `off` reads names of what it has just released; counts are never
lowered. *Correct if* no callback is called after its deletion, and `has()` does not
deny a listener.

**WebWorker, Binary, BlockContext** (`src/kk-wk.cc`, `src/kk-binary.cc`). A script on a
thread with a DispatchQueue of its own. *Operations*: `postMessage` both ways,
`terminate`, the destructor. *Interaction*: tasks know the worker by a `Weak` in the
context of a block; arguments are copied into a chain of nodes (`Binary`) that the
other heap reads. *Hard*: the last reference may go on either thread, and the
destructor joins one of them. *Correct if* messages are heard once, in order and
unchanged, none after `terminate`, and the thread that deletes the worker may.

### The parts that are not modelled

| Part | Source | Why not |
|---|---|---|
| the map of a BlockContext | `src/kk-block.cc` | a map from names to references that the caller gives and takes back; what happens to the references is in `RefCount!HandOver` and `WebWorker` |
| Scope, as the list of references of a C++ block | `src/kk-object.cc` | `ScriptHeap!EndScope` has what its end does to emitters; the list is local to a thread |
| accessors, method tables, `compile`, JSON, `Map` | `src/kk-script.cc` | they move values between C++ and Duktape's stack and keep no state between calls |
| Bio, String | `src/kk-bio.cc`, `-string` | pure functions on bytes, used by nothing that is modelled |
| Crypto | `src/kk-crypto.cc` | pure functions on bytes. (`gzip` and `gunzip` test the result of zlib's init the wrong way round, 236 and 283: `gunzip` always returns an empty buffer. One call shows this, there is nothing to model) |
| Lock | `src/kk-lock-pthread.cc` | wrappers of pthreads; mutexes and conditions are modelled by meaning where they are used |
| Script debugger | `src/kk-script-debugger.cc` | blocking I/O of a tool for development |
| libevent, Duktape, MD5, framework, build files | `lib/`, `KKObject*`, `Makefile` | not this project's code; modelled from how the code uses them |

`PROJECT.json` lists under *hazards* what is hard to test in this code, line by
line, with the properties that watch it or the reason why none does.

## 2. The modules

| Module | Role |
|---|---|
| `SerialExecutor` | abstract: what a dispatch queue promises |
| `DispatchQueue` | the queue, its channel, the threads that use it |
| `DispatchQueueProofs` | its inductive invariant and 11 theorems |
| `MCDispatchQueue` | instances for TLC |
| `Ownership` | abstract: what reference counting promises |
| `RefCount` | counts, deferred deletion, destructors, weak references |
| `RefCountProofs` | its inductive invariant and 12 theorems |
| `MCRefCount` | instances for TLC |
| `Alarms` | abstract: what timers promise to a script |
| `EventTimer` | timers, ids, properties, finalizers |
| `EventTimerProofs` | its inductive invariant and 3 theorems |
| `MCEventTimer` | instances for TLC |
| `MessageStream` | abstract: what a socket promises to its script |
| `WebSocket` | handshake, framing, callbacks, lifetime |
| `WebSocketProofs` | its inductive invariants and 5 theorems |
| `MCWebSocket` | instances for TLC |
| `Requests` | abstract: what Http promises to a script |
| `HttpTask` | tasks, their references, libevent's callbacks; its own instance for TLC |
| `HttpTaskProofs` | its inductive invariant and 5 theorems |
| `ScriptHeap`, `MCScriptHeap` | roots, shells, WeakMaps, finalizers, the collector |
| `ScriptHeapProofs` | its inductive invariant and 5 theorems |
| `EventEmitter`, `MCEventEmitter` | listeners, counts, nested `emit` |
| `EventEmitterProofs` | its inductive invariant and 3 theorems |
| `Binary` | a value as a chain of nodes, and back (pure) |
| `WebWorker`, `MCWebWorker` | two threads, two queues, one worker, on top of `Binary` |
| `WebWorkerProofs` | what `Binary` computes, the worker's inductive invariant and 4 theorems |

A definition named `...Mutant` is a plausible mistake in the definition that
follows it: a forgotten guard, a missing reset, steps in the wrong order. With it
in place of the right one, TLC finds the property that `PROJECT.json` names with
it violated; this shows that the property says something about the code.

### DispatchQueue

An action is what a thread does between two points where another can look: a
critical section, a wait, the body of a task. `sync()` is three actions (the push
under the object's mutex, the wait, the return after the wake-up), because the
queue thread may broadcast, destroy the mutex and delete the object in between.
`run()` is one action for each call of its loop body. The destructor deletes the
poll timer, pushes a Break, waits for the thread, frees the channel: four steps,
which the queue thread interleaves with. `SpuriousWakeup` is in the model because
the wait in `DispatchObject::wait` has no predicate around it. A task may do
nothing, push once, or break the loop. The mutex of the channel protects single
critical sections and is not a variable.

Not modelled: the constructor that attaches to an existing event base, `sync`,
`join` and the destructor called on the queue's own thread (the first two wait
for themselves), and the creation of the thread-local key.

### RefCount

Every critical section of the global mutex is one action; `release()` is two,
since it looks at the count in one and appends the object in the other with the
mutex held throughout (`mutex`). `MutexAtomic::unlock` is the loop `drain`,
`check`, `delete`: pop under the mutex, look at the count without it, delete.
Deleting enters the destructor of the class (`dtor`), which releases the members
one after the other, each through the same code, and then `~Object`; the
destructors that a thread is inside of are its `stack`. `Strong::set` retains,
releases and stores in separate actions. A `Strong` is a *slot*: it belongs to a
thread or, as a member, to an object; `HandOver` moves it to another thread or
into an object, as a block's context does, and a thread that knows the object may go on
with the member (`TakeBack`): read it, set it, clear it. One thread at a time works on a variable or member: the
counting does not synchronize access to the variables themselves, so this is a
restriction on its clients. `Weak::set` tells the new object, then the old one, then
assigns (`WeakSet`, `UnWeak`, `WeakAssign`); a thread has one `Weak` at most.
`UseDeleted` is any call of a method of an object that the
thread knows and that is deleted. The first use of a deleted object sets `fault` and
stops the model, since nothing is defined after it; `revived` is history: a `Weak`
has raised a count from zero.

Not modelled: `Scope`, and the race of the first two calls of `atomic()`.

### EventTimer

The event loop is single-threaded, so an action is a whole call from the script
(`NewTimer`, `Clear`), the start of a callback (`Fire`), its end (`Return`), or
the destruction of the heap (`Close`). `global` is the property that owns a timer;
overwriting or deleting it runs the finalizer at once. `IdOf` is the printing of an
address: in `MCEventTimer` two of three addresses print alike, which is what `%x`
does to a 64-bit pointer. Addresses are reused.

### WebSocket

The unit of the wire is a whole frame header, or one unit of payload: the code
waits until a header is complete, and cuts of the payload are what it has to
reassemble. `Arrive` delivers any prefix of what is on its way, then `onReading`
goes through the input one frame at a time; each call of the script ends an action,
so that what the script does during the call comes before the rest of the handler.
`pc = "crash"` is a use of the null `_bev` or of a deleted socket; the model stops
there, as the code does not say what follows. Payload may come to be parsed as a header
(of a pong, or a part of a frame, of which the rest comes later). The code goes on, and so
does the model: the header says anything in `Readings`, and so does every later one, for
the place in the stream is lost; `astray` remembers it. What the socket holds on the
value stack during a call it pops before its handler goes on (218, 435, 498), and a
script that has cleared its references deletes the socket there: `Drop` in a callback
leaves it to `ScriptReturns` and `CloseReturns`. `Env` names what the surroundings may
do: cut frames; end the connection in the read that opened it; close or drop the socket
while its name is being resolved; close or drop it in `onopen` or `ondata`, or drop it in
the `onclose` that a frame has led to.

Not modelled: `send`, which masks a frame and adds it to the output buffer (nothing
reads that buffer but TCP); the characters of the handshake; the reading of an
extended length that is only partly there; the end of the peer's stream, which the
code does not look at.

### HttpTask

Everything is on one thread, and a call of a script is where it may be interrupted.
`send` makes the task and its request (`Send` and its failures); the error callback,
the callback of the request and their calls of the script are actions that push a
frame on `stack`; `Return` pops it and does what the handler does after the call:
remove the task, release what was taken. Between push and pop any other action may
happen, on this task or another. `_req` after its request was freed is `req` without
`wire`; using it may or may not end the program (`Survive`), after which nothing
happens. So may any `cancel()`: it frees the connection, which libevent also frees with its
last request (97, 156). The request and the URI that `send` leaks on a bad URL are not
tracked, nor is a connection. `fate` is history: it says what happened to a task, so that
the properties can name the causes of faults and leaks.

### ScriptHeap

One heap; an object is an address. `Sweep` is the collector: it frees any set of
objects that nothing refers to, and the finalizers of the WeakObjects and WeakMaps
among them then run in any order (`FinalizeKey`, `FinalizeMap`) before the script
goes on. `Destroy` is the end of the heap: everything is finalized, in any order, and
freed; in some orders a WeakMap calls a WeakObject that is deleted (963, after 847), and
the program may end there (`Doomed`, `Unlucky`). `key` is the printing
of an address with `0x%x`: `MCScriptHeap` checks both an injective one and one that
is not. Histories say which stored addresses are of freed objects (`stale`), and whose
root another holder took away (`unrooted`).

Not modelled: prototype chains longer than one link, changes of a prototype, values
in a WeakMap that refer to further objects, several contexts.

### EventEmitter

Each operation is one action. `frames` is the stack of calls of `emit`, each with
the native callbacks it retains; the calls that callbacks and functions make are the
other actions, taken while the frame is there. `off` reads the name of a callback
that it has released: if that was the last reference, it reads the name, or any other
name that it knows, or nothing that it knows (`RemoveRead`); `unread` has the names that
were not read, `misnamed` those that were read in their place. `duk_off` with a function
leaves the entry, damaged (`Damaged`).

Not modelled: a callback that deletes the emitter whose `emit` calls it; several
contexts on one emitter.

### WebWorker and Binary

`Binary` has the encoder as a recursive function on the values (finite trees, given by
`Values`: an array in itself would have no end), and the decoder as a reader with a
stack of the containers that are open, which is what the recursion of
`BinaryPushContext` amounts to. `Received` gives what `onmessage` is called with, or
`Broken`. `WebWorker` has the
worker's object (`refs`, `life`, `pending` as in RefCount, one object seen from two
threads), the two queues as sequences, and a position per thread. Reading the `Weak`
(`Take`) and retaining what it gave (`Call`) are two actions. The destructor is
entered by whichever thread leaves the mutex next; on the main thread it waits for
the worker's (`Joined`), on the worker's thread the join fails. The poll loop of the
queue is not repeated here: `DispatchQueue` shows that it is a serial executor, and
`WebWorker` uses it as one. `fault` ends the model: `misread` (the chain ends where a
value is expected), `dangling` (the main thread uses the deleted worker), `twice` (a
second destructor), `unqueued` (the thread goes on without its queue). A `postMessage`
with a function that cannot be dumped throws before it posts: for the worker nothing
happens (the nodes made so far leak).

Not modelled: workers made by workers, and scripts without `onmessage`.

## 3. What TLC checks

| Run | Instance | States | Question |
|---|---|---|---|
| `dq_safety` | 2 threads, 4 objects, spurious wake-ups, any order of join and destructor | 111,659 | order, lifetime, wake-ups, destruction |
| `dq_live` | 2 threads, 3 objects, any order of join and destructor | 76,742 | is it a fair executor; do `sync`, `join` and the destructor return |
| `rc_strong` | 2 threads, 2 objects, 3 slots, strong references | 12,860 | is it ownership; deleted once and at last |
| `rc_weak` | 2 threads, 2 objects, 3 slots, weak references | 568,572 | what survives when weak references are upgraded |
| `rc_single` | 1 thread, 3 objects, 4 slots, weak references | 15,707 | is a thread that is alone safe |
| `et_timers` | 3 timers, 3 addresses, 2 of which print alike, stale ids | 29,998 | do properties and timers agree; are they alarms; is every timer called |
| `ws_messages` | 3 frames, one per message, any cuts | 20,894 | is it a message stream; is everything heard; no fault |
| `ws_rough` | 3 frames, fragments, pings, pongs, 5 readings of payload, every behaviour of `Env` | 688,880 | order of callbacks and of payload at the worst |
| `http_tasks` | 3 tasks, nested callbacks | 97,752 | lifetime, causes of faults and leaks; are they requests; is each answered |
| `sh_heap` | 2 addresses with equal or different keys, 2 handles, 1 emitter, 1 WeakMap | 1,935,457 | is what C++ stores alive, or forgotten |
| `ee_emitter` | 2 names (one a prefix), 2 callbacks, 2 functions, 3 entries, `emit` in `emit` | 679,139 | are due callbacks alive; does `has()` know |
| `ww_worker` | 2 messages to the worker, 1 back, 5 lists of arguments | 69,146 | messages as posted; who is harmed by the deletion |

`SYMMETRY` is used in runs of safety properties only. Deadlock is not checked:
threads drop their references and end, a fault ends a model, and the supplies of
objects, timers and frames run out.

**Bounds.** The constants `Tasks`, `Objects`, `Slots`, `Timers`, `Addrs`, `Frames`,
`MaxFrames`, `Readings`, `Handles`, `Emitters`, `Maps`, `Callbacks`, `Funcs`, `MaxEvents`,
`MaxDepth`, `Payloads`, `MaxToWorker` and `MaxToMain` bound the runs; no action has
another bound. They are large enough for what is hard to happen:

* 4 dispatch objects are two in `sync()` from two threads, the Break of a `join()`
  and one more behind it that is never run; 3 are one `sync()`, the Break of the
  join or destructor, and one push from inside a task.
* 2 objects and 3 slots are an object that owns another, with a reference to it from
  each of two threads: a destructor inside a destructor, and a `Strong` overwritten
  with an object that its old value owns. 3 and 4 (`rc_single`) are a chain of two.
* 3 timers on 3 addresses are a reused address, and an address printed like one
  that is in use, inside the callback of the timer that it displaces.
* Frames of 0, 2 and 3 units can be cut at the beginning, in the middle and at the
  end, and arrive together with the next; 3 frames are a message in three fragments,
  or in two with a control frame between them; payload read as a header is a message that
  is there, or in part, an end of one, a pong or a close.
* 3 tasks are one in its callback, one that this callback cancels and one it sends.
* 2 addresses are a function or shell and another object with the same 32 bits, or a
  key and its prototype; each address is used again and again. 2 handles share one
  function.
* 2 callbacks and 3 entries are a callback that removes one that is still due in two
  nested `emit`s, and an array with a hole between two listeners of one name.
* 2 messages and a `terminate` are one heard and one that comes too late; the lists of
  arguments are one that is flat, one container that ends well, and three that end
  with a container, each read in another way.

**Fairness.** `DispatchQueue`: weak fairness of the queue thread and of each client
that is inside a call, as the operating system runs every thread that can run, the
event loop fires a pending timer, and tasks return. Nobody is obliged to make a
call. A client that waits for an object's mutex or for a wake-up becomes able to
continue once and for all, so weak fairness is enough. `RefCount`: strong fairness of
each thread inside a call, because others may take the global mutex again and
again in between. POSIX promises no such fairness; the assumption is that a thread
that asks for a mutex whose critical sections are a few instructions long is
granted it in the end. `EventTimer`: weak fairness of the end of a
callback, strong fairness of each timer's callback, as libevent calls due timers
in the order of their time, and a timer with a period does not overtake another
for ever. `WebSocket`: TCP delivers, `onReading` goes on, the script's functions
return; nothing obliges the peer to write or the script to close. `HttpTask`:
functions of scripts return, and libevent ends each request (strong fairness, since
callbacks of others come in between; `open` gives every connection a timeout).
`WebWorker`: weak fairness of each thread, and strong fairness of the worker's poll
timer, because the loop also serves the timers and sockets of its script, and
libevent serves what is due in turn. `RefCount` is told nothing about destructors
that never return: those of the modelled classes do.

### What the runs show

* **A dispatch queue is a serial executor** (`ImplementsFairExecutor`,
  `ExactlyOnceInOrder`). The push inside the object's mutex is what makes the
  wait safe (`NoLostWakeup`, `SyncWakes`): with the push before the lock the
  wake-up is lost, as the mutant shows.
* **The window after the broadcast is real, and the only one** (`ObjectLifetime`).
  A woken `sync()` unlocks a mutex that `run()` may already have destroyed. The
  model allows it, and shows that no object is used after its deletion outside of
  this window. Without spurious wake-ups `sync()` returns after its function
  (`SyncAfterRun`); with them it need not. `dq_live`, which asks whether the queue is an
  executor and whether `sync()` returns, is without them.
* **A destructor without `join()` may wait for ever.** It deletes the poll timer
  before it pushes its Break; if the queue thread sleeps at that moment nothing
  wakes it up. `PollNeverLost` says that this is the only way to lose the poll,
  and `DestructorEnds` that the destructor ends whenever the thread was in `run()`.
* **Strong references are safe with any number of threads** (`NoFault`, by
  theorem; `DeletedOnce`, `UnreferencedIsDeleted`, `ImplementsOwnership`), in spite of the
  second look at the count without the mutex: an object that reached zero has no
  holder left who could retain it.
* **Weak references are safe with one thread** (`rc_single`, and `AloneIsSafe` by
  theorem) **and not with two.**
  An upgrade reads the pointer and retains it in two steps, and the destructor of a
  `Weak` reads it without the mutex. `FaultsAreWeak` and `WeakIsNulled` say exactly
  how far the damage goes: as long as no count has risen from zero, only the thread
  that goes through its `Weak` uses a deleted object, and every `Weak` is nulled.
* **Timers are alarms** (`ImplementsAlarms`, `Registered`), whichever ids collide
  and whatever is cleared in a callback. A timer that was set is called unless it is
  cleared, or shared its id with another timer (`EveryTimerFires`): such a collision, or
  the clearing of an id long gone, cancels a timer without notice. That timers are called
  is libevent's doing; the mutant of this property is a wrong use of it.
* **A WebSocket whose peer writes whole messages is a message stream**, however
  TCP cuts it (`ImplementsMessageStream`, by theorem in any surroundings;
  `EveryMessageHeard`), and a close frame is reported (`CloseIsHeard`) unless the script
  has closed or dropped the socket.
* **Its callbacks may not do much to it** (`NoFault`). When the script closes the socket
  in `onopen` or `ondata`, or drops its last reference there, the handlers go on with a
  null `_bev` or a deleted socket (220, 292, 299, 402, 444); when it drops it in the
  `onclose` of a frame, `close()` is called on a deleted socket (314, 322, 328, 334, 340);
  with a close frame in the read that opens the socket, `onOpen` goes on with a null `_bev`
  (444); a socket closed or collected while its name is resolved is used by evdns (664).
  `NoFault` says that there are no other crashes, and that payload is parsed as a header
  only if the peer writes pongs or messages in several frames.
* **At the worst, the order of callbacks survives** (`HeardInOrder`). A fragmented message
  is heard in pieces, or held back by a fragment that never matches `_bodyLength`. What is
  heard is a prefix of what was written (`PayloadPreserved`) *until payload is parsed as a
  header*, and this happens: of a pong of which only a part is there the rest is taken for
  frames (364-366), and a pong that contains the bytes of a text frame is then heard as a
  message, or ends the connection.
* **A request is answered once at most, and at last** (`ImplementsRequests`,
  `EveryRequestAnswered`), and raw pointers to tasks are safe (`TargetAlive`). The
  request behind a task is not: the error callback's `remove()` makes `_req` null and
  `onLoad` reads it, so a request that fails ends the program or reads freed memory
  (111, 200). `FaultsExplained` says that this, a request that could not be made, and
  a `cancel()` inside the task's own callback are the only ways to use a *request* that is
  freed or null. (A connection may be freed twice by any `cancel`, see above; no property
  is about it.) `LeaksExplained` says that a *task* is leaked only by `cancel`, `~Http` or
  a throw of `duk_next` in `send` (384).
* **The binding keeps what it stores, up to 32 bits** (`FunctionsKept`, `ShellsStay`,
  `WeakMapsForget`, `PointersMatch`). Two `script::Object`s of one function, or two
  objects whose addresses print alike, share a root, and the first to go takes it from
  the other; `__weakObject` is inherited, so a key may be registered with its
  prototype's (858); a WeakMap freed in one collection with its key, and finalized
  first, uses the freed key (960). Until the end of the heap, which some orders of
  finalizers do not survive (`Destroy`), what the properties say holds but for these cases:
  `FunctionsKept` but for a root taken away; `WeakMapsForget` but for a key registered with
  its prototype, or with the 32 bits of another; `PointersMatch` but for an emitter or map
  registered with a prototype, of which a WeakObject may still know when it is deleted.
  `ShellsStay` is about the address that an emitter stores.
* **`emit` calls no deleted callback** (`DueAreAlive`), however deep calls nest; and
  `has()` knows every listener (`HasKnows`), but for names that `duk_off` was called for
  with a function, where an index of the value stack is one off (364), and names that `off`
  read in the place of one it had freed (56). The other
  direction is weaker: a name that was counted twice is never forgotten
  (`ForgottenWhenAlone` is about names counted once).
* **Messages of workers are heard as posted** (`HeardAsPosted`, `MessagesArrive`),
  except for arguments with a container that ends with a container (`Sound` are those
  without; by theorem for any such values). If the
  worker's own thread comes to delete the worker, the join fails and the thread goes
  on without its queue; if its upgrade of the `Weak` meets the destructor, the worker
  is deleted twice. `OnlyOwnThreadHarms` says that every fault but the misread message
  needs this.

No comment, document, assertion or test of the repository claims the opposite of
what the code does in these points, so no finding is recorded; they are hazards.

## 4. What is proved

The theorems hold for every value of the constants that satisfies the named
assumptions of the modules (kinds of values that are distinct, as threads, objects and
slots in `RefCount`, holders and addresses in `ScriptHeap`; flags that are flags; in
`RefCount` finitely many threads and slots, because counts are cardinalities; in `Binary`
values that are finite trees of the types the code knows, of which `WebWorker` sends
lists that are not empty).

**DispatchQueue** (any number of threads and objects; with and without spurious
wake-ups). The safety properties are not inductive: `NoLostWakeup` follows only
because a client between push and wait holds the mutex of its object, and
`CleanDestruction` only because at most one thread is in the destructor. The
inductive invariant `IInv` adds `Loop` (where the thread may be once the loop is
broken), `Objects` (a created object is in the channel, in hand or deleted, in
exactly one of them), `Holders` (references against positions in the code: who
waits for the end of the thread, and that somebody does unless it ended),
`Waiters` (an object per waiter, its mutex held until the wait, its broadcast
still to come) and `Histories` (`pushed = ran \o InHand \o chan`). From it follow
`TypeCorrect`, `Order`, `WakeupPending`, `Lifetime`, `Polling`, `Destruction` and, for
steps, `BreakIsFinal`, `JoinIsQuiet`, `SyncIsSynchronous`. `Implementation` proves that
without spurious wake-ups every step is a step of `SerialExecutor` or a stutter.

**RefCount** (any number of threads, objects and slots). `IInv` adds `Calls` (what a
thread's registers mean at each of its positions), `CountIsHolders` and `HeldIsLive`
(the count of an object is the number of its holders, which refer to live objects),
`Condemned` (a live object with count zero is in the queue once or with one thread, and
only such objects are), `Destructors` (each object in its destructor is on one stack,
once) and `Watched` (an object knows the `Weak`s that refer to it, but for the old value of
one that is being assigned). The core of the argument is that a thread retains only what it can name, what it can name has a holder, and what has a holder is not condemned; the
parts that a revival ends say so, and the rest holds even after it. With weak references
follow `CountCorrect` and, until an object is revived,
`NoDangling`, `SingleDelete`, `WeakNulled`, `StrongFaultsNeedWeak` and `Owned` (each step
is one of `Ownership`). Two further invariants show where nothing is revived and nothing
faults: `StrongOnly`, without weak references, and `Quiet`, with a thread that is alone:
when it is outside of a call, no object with count zero is left, so what its `Weak`
gives it has a holder (`StrongIsSafe`, `AloneIsSafe`, and `Implementation` and
`AloneImplementation` of `Ownership`).

**EventTimer** (any timers, addresses, ids and any `IdOf`). `Registered` is inductive
with the type invariant and `Named` (only timers that were made are recycled).
`Implementation` proves the refinement of `Alarms`.

**WebSocket** (any set of frames). `CallbackOrder` proves `HeardInOrder` for
everything that `Env` may do. `NeverFaults` proves `NoFault`: its first part with
`Pointers`, that in calm surroundings a handler that will use `_bev` finds it, and the
socket not dropped; its second, that the peer's whole messages keep payload from being
taken for a header, with `Following`.

`Streaming` proves `ImplementsMessageStream`, under the property's own premise that the
peer writes whole messages, for anything that `Env` may do. `Following` says where onReading is
by two numbers: as long as the socket is not over, it has read `p` frames of what was
written and so much of the next one as is in `_body` (`Reads`), input and wire hold the rest
of the stream unit by unit (`Left`), and the messages heard are those in the first `p`
frames (`Hears`). `Marks` gives for each frame the number of units and of messages before
its end; the peer adds to them, TCP changes nothing, and each step of onReading moves `p` or
`_body` on. Over this the messages are flattened sequences, on which the recursion of
`FlattenSeq` is unfolded (`Flattened`, `FlattenAppend`) by induction over the *set* of the
lengths for which a claim holds, from the well-foundedness of the numbers: the library's
induction theorems, which take an operator, are not needed. When the socket is over, nothing
is written or heard any more (`OverStays`).

`PayloadKept` proves `PayloadPreserved` where that alignment may be lost: the peer
fragments, pongs are cut. The stream as TCP delivers it stays `Intact` (in order, each
header with its payload), whatever onReading makes of it. As long as no header was misread,
`InPlace` says where onReading is: it completes a ping, or a part of a message, or is at a
header, and everything written as data has been heard, or is in `_body`, or still to come,
in this order (`NothingLost`); or it is about to leave its place: `_body` is longer than
its frame, the comparison of lengths never holds and nothing is read any more (`Stuck`),
or payload is where it looks for a header (`Astray`), or will be after a ping (`Dropped`).
From the last two the next thing it reads is a misread header, after which nothing is
claimed. "A prefix" is stated
by the positions of units in the stream, not by flattening messages into one sequence.

**HttpTask** (any tasks). `IInv` adds `Places` (a task is in one call of a script at a
time) and, per task, `Counted` (its count is the number of references of the script
object, the map and `open`), `Nowhere` (what was not made, or was lost in `send`, is
nowhere), `Known` (the map holds exactly the tasks with a request, each on its way,
never sent, or calling a script), `Retained` (the reference of `open` is there while
libevent may call back) and `Faults`. `NoDanglingTask`,
`OnlyKnownFaults`, `OnlyKnownLeaks` and `Implementation` (of `Requests`) follow: the
lifetime of a task is safe because each raw pointer to it is matched by one
reference, whatever a callback does.

**ScriptHeap** (any addresses, handles, emitters, WeakMaps, and any printing of
addresses). The four properties speak of what is stored and freed; whether it may be
freed depends on the roots and on who is told. `IInv` adds `Stores` (what is stored is in
the heap, or known to be stale), `Roots` (what is stored is rooted, unless an equal key
took the root), `Lost` (only such an owner's object is freed under it), `Reached` (what a
script, a root or the heap refers to is in the heap), `Registered` (who a finalizer will
tell is alive and stores the object, unless registered with a prototype), `Keys` (a
WeakMap is told of each of its keys) and `Shells` (shell and emitter name each other, and
the emitter is registered once). All but `Lost` end where a freed object is used
(`crashed`). `FunctionsStay`, `PointersStay`, `WeakMapsStay` and `ShellsKept` follow.

**EventEmitter** (any names, rule of prefixes, callbacks and functions). `IInv` adds
`Whole` (only `off` with a function damages an entry) and `Counted` (a name that is not
counted has no listener, and one that is counted once has one at most, and exactly one
if `off` could read every name; names that `off` was called for with a function are
left out). `CallbacksAlive`, `HasIsComplete`
and `CountOfOne` follow.

**WebWorker, Binary** (any finite trees as values, any lists of them, any bounds).
`Decoded` says that a list of arguments in which no container ends with a container is
received as it is (null as undefined), and never broken. `Alloc` and `Normal` are recursive
functions: on finite trees they exist (`TreeRecursion`), since otherwise a set of values
without the one among them that `FiniteAssumption` promises would be left; the same argument
gives a least counterexample to `AllReadable`, that reading the chain of a value puts this
value into the container on top of the stack and leaves the rest of the stack as it was.
`BinaryAdd` is where it would fail: the end hangs behind the *first* node of the last
element, which is its last node only if it is no container (`WholeElements`).

`IInv` adds `Owners` (what `refs` counts: the script's object and the task that calls the
worker's script), `Threads` (only the worker's own thread deletes a worker that somebody
still uses), `Line` (the worker's queue is the script to open, then exactly the messages
not yet heard, then the Break of `terminate` or the destructor), `Mail` (the main queue is
the end of what the worker posted) and `Spoken` (the i-th call of `onmessage` has what the
chain of the i-th message gives). `HarmIsOwn` and `MessagesExact` follow, the latter with
`Decoded`: without `Line` a Break could overtake a message, or a message be heard twice.

Some properties are stated by theorems alone, and by no run, because the proof covers
every instance: the type invariants, `PollNeverLost`, `NothingAfterBreak`,
`JoinQuiesces`, `SyncAfterRun`, `CountIsHolders` and what `Received` computes (`Decoded`).

**Only model-checked.** Liveness (`ImplementsFairExecutor` as to its fairness,
`SyncWakes`, `JoinReturns`, `DestructorEnds`, `UnreferencedIsDeleted`,
`EveryTimerFires`, `EveryMessageHeard`, `CloseIsHeard`, `EveryRequestAnswered`,
`MessagesArrive`), since the prover has no rules for fairness and `ENABLED`. Every other
property that a run checks is also a theorem.

## 5. Plan

Done: (1) DispatchQueue with Chan against SerialExecutor; (2) RefCount against
Ownership; (3) EventTimer against Alarms; (4) WebSocket against MessageStream; (5)
HttpTask against Requests; (6) ScriptHeap; (7) EventEmitter; (8) WebWorker with Binary;
(9) proofs of every invariant, action property and refinement that the runs check.

Next:

10. `WebSocket::send` and the encoding of lengths; an emitter that is deleted in its
    own `emit`; a queue that is attached to an event base.
