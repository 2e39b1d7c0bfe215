------------------------------ MODULE WebSocket -----------------------------
(***************************************************************************)
(* One WebSocket of kk-ws.cc: opening, the handshake, the reassembly of    *)
(* frames from what TCP delivers, and the callbacks of its script.         *)
(*                                                                         *)
(* The event loop is single-threaded: it calls one handler at a time, and  *)
(* a handler calls the script, which may call the socket back.  What the   *)
(* peer writes is a sequence of units: the answer to the handshake, the    *)
(* header of a frame, one unit of payload.  A header is one unit, because  *)
(* the code waits until all of it is there.  The script listens to every   *)
(* event from the start (duk_on) and what it sends (send) only adds to the *)
(* output buffer; neither is modelled.  Nor is the end of the peer's       *)
(* stream: WebSocket_event_cb ignores BEV_EVENT_EOF.                       *)
(***************************************************************************)
EXTENDS Integers, Sequences, SequencesExt

CONSTANTS
  Frames,     (* the frames that the peer may write: [op, fin, len]        *)
  MaxFrames,  (* how many it writes at most (bounds the runs)              *)
  Readings,   (* what payload may say when it is parsed as a header        *)
  Env         (* what the surroundings of the socket may do:
                 "split"      TCP delivers a frame in pieces;
                 "abrupt"     a frame that ends the connection comes in the
                              very read that delivers the handshake;
                 "hasty"      the script closes or drops the socket while
                              its host name is being resolved;
                 "reentrant"  the script closes or drops it in onopen or
                              ondata, or drops it in the onclose that a
                              frame has led to                             *)

Opcodes == {"text", "binary", "continue", "ping", "pong",
            "close"}   \* also every frame that is refused (masked, RSV, ...)

ASSUME FramesAssumption ==
  \A f \in Frames : f.op \in Opcodes /\ f.fin \in BOOLEAN /\ f.len \in Nat
ASSUME ReadingsAssumption == Readings \subseteq [op : Opcodes, fin : BOOLEAN, len : Nat]
ASSUME MaxAssumption == MaxFrames \in Nat
ASSUME EnvAssumption == Env \subseteq {"split", "abrupt", "hasty", "reentrant"}

VARIABLES
  state,       (* _state                                                   *)
  bev,         (* _bev # nullptr                                           *)
  resolving,   (* evdns will call WebSocket_evdns_cb with this             *)
  gone,        (* the script's last reference is gone: the destructor has  *)
               (* run, or will before the callback that is running returns *)
  closed,      (* history: the script has closed the socket                *)
  asked,       (* the request is written and EV_READ enabled               *)
  sent,        (* history: what the peer wrote, handshake first            *)
  wire,        (* the units that are still on their way                    *)
  input,       (* the units in the input buffer of _bev                    *)
  body,        (* _body                                                    *)
  bodyType,    (* _bodyType                                                *)
  bodyLength,  (* _bodyLength                                              *)
  pc,          (* "new", then "idle", or what the event loop is doing:
                  "reading" in onReading, "script" in onopen or ondata,
                  "closing" in onclose, "refusing" in the onclose that
                  onReading calls for a frame; or "crash" (a null or
                  dangling pointer was used): the code does not say what
                  next, and the model stops                                *)
  inOpen,      (* onOpen is on the stack                                   *)
  astray,      (* history: payload was parsed as a header                  *)
  heard        (* history: the calls of onopen, ondata and onclose         *)

connection == <<state, bev, resolving, gone, closed, asked>>
buffers == <<input, body, bodyType, bodyLength, astray>>
vars == <<connection, sent, wire, buffers, pc, inOpen, heard>>

Init ==
  /\ state = "None"
  /\ bev = FALSE
  /\ resolving = FALSE
  /\ gone = FALSE
  /\ closed = FALSE
  /\ asked = FALSE
  /\ sent = <<>>
  /\ wire = <<>>
  /\ input = <<>>
  /\ body = <<>>
  /\ bodyType = "none"
  /\ bodyLength = 0
  /\ pc = "new"
  /\ inOpen = FALSE
  /\ astray = FALSE
  /\ heard = <<>>

-----------------------------------------------------------------------------
(* The peer.                                                               *)

(***************************************************************************)
(* The payload of the frame f that the peer wrote as its i-th, and all its *)
(* units.                                                                  *)
(***************************************************************************)
Payload(i, f) == [k \in 1..f.len |-> [op |-> "byte", id |-> i, fin |-> FALSE, len |-> k]]

Units(i, f) == <<[op |-> f.op, id |-> i, fin |-> f.fin, len |-> f.len]>> \o Payload(i, f)

IsData(f) == f.op \in {"text", "binary", "continue"}

(***************************************************************************)
(* The peer has begun a message that it has not finished.                  *)
(***************************************************************************)
InMessage == LET data == SelectSeq(sent, IsData) IN data # <<>> /\ ~Last(data).fin

Answers == {[op |-> a, fin |-> TRUE, len |-> 0] : a \in {"101", "refused"}}

(***************************************************************************)
(* The peer answers the request, then writes frames as the protocol has    *)
(* it: a message is one frame or several that continue it.                 *)
(***************************************************************************)
PeerWrites(f) ==
  /\ asked
  /\ bev
  /\ pc \in {"idle", "script"}
  /\ Len(sent) <= MaxFrames
  /\ IF sent = <<>> THEN f \in Answers
     ELSE /\ f \in Frames
          /\ Last(sent).op \notin {"refused", "close"}
          /\ IsData(f) => (f.op = "continue" <=> InMessage)
  /\ sent' = Append(sent, f)
  /\ wire' = wire \o Units(Len(sent) + 1, f)
  /\ UNCHANGED <<connection, buffers, pc, inOpen, heard>>

-----------------------------------------------------------------------------
(* Callbacks of the script.                                                *)

Call(cb, type, data) == Append(heard, [cb |-> cb, type |-> type, data |-> data])

(***************************************************************************)
(* onClose, up to the call of the function; the shell is rooted, and the   *)
(* socket retained, until that returns.                                    *)
(***************************************************************************)
OnClose(at) ==
  /\ state # "Closed"
  /\ state' = "Closed"
  /\ heard' = Call("close", "none", <<>>)
  /\ pc' = at

(***************************************************************************)
(* onClose after it: _bev is freed, with all that is in it, and release()  *)
(* deletes the socket if the script has dropped it.  onReading goes on     *)
(* with close(); when onOpen is on the stack it takes the output buffer of *)
(* the null pointer.                                                       *)
(***************************************************************************)
Free ==
  /\ bev' = FALSE
  /\ wire' = <<>>
  /\ input' = <<>>

CloseReturns ==
  /\ pc \in {"closing", "refusing"}
  /\ Free
  /\ pc' = IF inOpen \/ (pc = "refusing" /\ gone) THEN "crash" ELSE "idle"
  /\ inOpen' = FALSE
  /\ UNCHANGED <<state, resolving, gone, closed, asked, sent, body, bodyType, bodyLength, astray, heard>>

(***************************************************************************)
(* onData with the body, which is then cleared.  A ping is not heard, and  *)
(* a body without a type is binary.                                        *)
(***************************************************************************)
OnDataKeepsMutant(type, data) ==   \* _body is not drained
  /\ IF type = "ping"
     THEN heard' = heard /\ pc' = "reading"
     ELSE heard' = Call("data", IF type = "text" THEN type ELSE "binary", data) /\ pc' = "script"
  /\ bodyType' = "none"
  /\ bodyLength' = 0
  /\ UNCHANGED body

OnData(type, data) ==
  /\ IF type = "ping"
     THEN heard' = heard /\ pc' = "reading"
     ELSE heard' = Call("data", IF type = "text" THEN type ELSE "binary", data) /\ pc' = "script"
  /\ body' = <<>>
  /\ bodyType' = "none"
  /\ bodyLength' = 0

(***************************************************************************)
(* onopen or ondata returns.  The handler pops the script's object, whose  *)
(* finalizer deletes the socket if that was the last reference; and all    *)
(* handlers go on with this and with _bev.                                 *)
(***************************************************************************)
ScriptReturns ==
  /\ pc = "script"
  /\ IF gone
     THEN Free /\ pc' = "crash"
     ELSE /\ pc' = IF bev THEN "reading" ELSE "crash"
          /\ UNCHANGED <<bev, wire, input>>
  /\ UNCHANGED <<state, resolving, gone, closed, asked, sent, body, bodyType, bodyLength, astray, inOpen, heard>>

-----------------------------------------------------------------------------
(* Opening.                                                                *)

(***************************************************************************)
(* WebSocketAlloc and open: the URL is bad, or has an address, or a name.  *)
(***************************************************************************)
Open ==
  /\ pc = "new"
  /\ pc' = "idle"
  /\ \/ UNCHANGED <<state, bev, resolving>>
     \/ bev' = TRUE /\ state' = "Resolve" /\ UNCHANGED resolving
     \/ bev' = TRUE /\ resolving' = TRUE /\ UNCHANGED state
  /\ UNCHANGED <<gone, closed, asked, sent, wire, buffers, inOpen, heard>>

(***************************************************************************)
(* WebSocket_evdns_cb, with the pointer that open gave it.                 *)
(***************************************************************************)
Resolved ==
  \/ gone /\ pc' = "crash" /\ UNCHANGED <<state, heard>>
  \/ /\ ~gone
     /\ state = "None"
     /\ IF bev THEN state' = "Resolve" /\ UNCHANGED pc
               ELSE pc' = "crash" /\ UNCHANGED state   \* connects the null pointer
     /\ UNCHANGED heard

ResolveFailed ==
  \/ gone /\ pc' = "crash" /\ UNCHANGED <<state, heard>>
  \/ ~gone /\ OnClose("closing")

DnsAnswers ==
  /\ resolving
  /\ pc = "idle"
  /\ resolving' = FALSE
  /\ Resolved \/ ResolveFailed
  /\ UNCHANGED <<bev, gone, closed, asked, sent, wire, buffers, inOpen>>

Connect ==
  /\ bev
  /\ pc = "idle"
  /\ state = "Resolve"
  /\ state' = "Connected"
  /\ UNCHANGED <<bev, resolving, gone, closed, asked, sent, wire, buffers, pc, inOpen, heard>>

(***************************************************************************)
(* onWritting: the request has been written.                               *)
(***************************************************************************)
Written ==
  /\ bev
  /\ pc = "idle"
  /\ state = "Connected"
  /\ asked' = TRUE
  /\ UNCHANGED <<state, bev, resolving, gone, closed, sent, wire, buffers, pc, inOpen, heard>>

(***************************************************************************)
(* BEV_EVENT_ERROR: refused, reset, unreachable.                           *)
(***************************************************************************)
Error ==
  /\ bev
  /\ pc = "idle"
  /\ state # "None"
  /\ OnClose("closing")
  /\ UNCHANGED <<bev, resolving, gone, closed, asked, sent, wire, buffers, inOpen>>

-----------------------------------------------------------------------------
(* Reading.                                                                *)

(***************************************************************************)
(* TCP delivers the next k units and WebSocket_data_rd calls onReading.    *)
(***************************************************************************)
Ops(s) == {s[i].op : i \in DOMAIN s}

Refused(h) == h.op = "close" \/ (h.op = "ping" /\ ~h.fin)

Arrive(k) ==
  LET buffer == input \o SubSeq(wire, 1, k) IN
  /\ bev
  /\ asked
  /\ pc = "idle"
  /\ k < Len(wire) /\ wire[k + 1].op = "byte" => "split" \in Env
  /\ "101" \in Ops(buffer) /\ (\E u \in Range(buffer) : Refused(u)) => "abrupt" \in Env
  /\ input' = buffer
  /\ wire' = SubSeq(wire, k + 1, Len(wire))
  /\ pc' = "reading"
  /\ UNCHANGED <<connection, sent, body, bodyType, bodyLength, astray, inOpen, heard>>

(***************************************************************************)
(* The answer to the handshake: onOpen calls onopen and reads on.          *)
(***************************************************************************)
HandshakeSilentMutant ==   \* onOpen reads on before it calls onopen
  /\ pc = "reading"
  /\ state = "Connected"
  /\ input # <<>>
  /\ input' = Tail(input)
  /\ state' = "Opened"
  /\ inOpen' = TRUE
  /\ UNCHANGED <<bev, resolving, gone, closed, asked, sent, wire, body, bodyType, bodyLength, astray, pc, heard>>

Handshake ==
  /\ pc = "reading"
  /\ state = "Connected"
  /\ input # <<>>
  /\ input' = Tail(input)
  /\ IF Head(input).op = "101"
     THEN /\ state' = "Opened"
          /\ heard' = Call("open", "none", <<>>)
          /\ pc' = "script"
          /\ inOpen' = TRUE
     ELSE OnClose("closing") /\ UNCHANGED inOpen
  /\ UNCHANGED <<bev, resolving, gone, closed, asked, sent, wire, body, bodyType, bodyLength, astray>>

(***************************************************************************)
(* A body was begun and there is more input.  What is there is taken only  *)
(* when it completes the body, otherwise onReading returns.                *)
(***************************************************************************)
BodyBegun == bodyType # "none" /\ bodyLength > 0 /\ input # <<>>

Missing == bodyLength - Len(body)

TakesBody == Missing > 0 /\ Len(input) >= Missing

CompleteBody ==
  LET whole == IF TakesBody THEN body \o SubSeq(input, 1, Missing) ELSE body IN
  /\ Len(whole) = bodyLength
  /\ input' = IF TakesBody THEN SubSeq(input, Missing + 1, Len(input)) ELSE input
  /\ OnData(bodyType, whole)
  /\ UNCHANGED <<astray, inOpen>>

AwaitBodyTakesMutant ==   \* what is there is added and not drained
  /\ ~TakesBody
  /\ Missing # 0
  /\ body' = body \o input
  /\ pc' = "idle"
  /\ inOpen' = FALSE
  /\ UNCHANGED <<input, bodyType, bodyLength, astray, heard>>

AwaitBody ==
  /\ ~TakesBody
  /\ Missing # 0
  /\ pc' = "idle"
  /\ inOpen' = FALSE
  /\ UNCHANGED <<buffers, heard>>

ReadBody ==
  /\ pc = "reading"
  /\ state = "Opened"
  /\ BodyBegun
  /\ CompleteBody \/ AwaitBody
  /\ UNCHANGED <<connection, sent, wire>>

(***************************************************************************)
(* A header is next.  Payload that is parsed as one may say anything, and  *)
(* once that has happened so may whatever comes, for the place in the      *)
(* stream is lost.                                                         *)
(***************************************************************************)
Frame == Head(input)

Misread == input # <<>> /\ (astray \/ Frame.op = "byte")

Headers == IF Misread THEN Readings ELSE {Frame}

(***************************************************************************)
(* A pong is skipped, as far as it is there.  A data frame or a ping adds  *)
(* to the body what is there of it, and is heard if it is final and the    *)
(* body is as long as the frame; otherwise _bodyLength is the length of    *)
(* this frame.                                                             *)
(***************************************************************************)
There(h) == IF h.len < Len(input) THEN h.len ELSE Len(input) - 1
DrainedHeaderMutant(h) == Tail(input)   \* only the header is drained
Drained(h) == SubSeq(input, There(h) + 2, Len(input))

SkipPong(h) ==
  /\ h.op = "pong"
  /\ input' = Drained(h)
  /\ UNCHANGED <<body, bodyType, bodyLength, pc, heard>>

TypeAfter(h) == IF h.op = "continue" THEN bodyType ELSE h.op

AddFrameEarlyMutant(h) ==   \* the length of the body is not looked at
  LET more == body \o SubSeq(input, 2, There(h) + 1) IN
  /\ h.op \in {"text", "binary", "continue", "ping"}
  /\ ~Refused(h)
  /\ input' = Drained(h)
  /\ IF h.fin
     THEN OnData(TypeAfter(h), more)
     ELSE /\ body' = more
          /\ bodyType' = TypeAfter(h)
          /\ bodyLength' = h.len
          /\ UNCHANGED <<pc, heard>>

AddFrame(h) ==
  LET more == body \o SubSeq(input, 2, There(h) + 1) IN
  /\ h.op \in {"text", "binary", "continue", "ping"}
  /\ ~Refused(h)
  /\ input' = Drained(h)
  /\ IF h.fin /\ Len(more) = h.len
     THEN OnData(TypeAfter(h), more)
     ELSE /\ body' = more
          /\ bodyType' = TypeAfter(h)
          /\ bodyLength' = h.len
          /\ UNCHANGED <<pc, heard>>

ReadsHeader ==
  /\ pc = "reading"
  /\ state = "Opened"
  /\ ~BodyBegun
  /\ input # <<>>
  /\ astray' = Misread

ReadFrame ==
  /\ ReadsHeader
  /\ \E h \in Headers : SkipPong(h) \/ AddFrame(h)
  /\ UNCHANGED <<connection, sent, wire, inOpen>>

(***************************************************************************)
(* A close frame, or one that is refused.                                  *)
(***************************************************************************)
ReadCloseSkipsMutant ==   \* a close frame is skipped like a pong
  /\ ReadsHeader
  /\ \E h \in Headers : Refused(h) /\ input' = Drained(h)
  /\ UNCHANGED <<connection, sent, wire, body, bodyType, bodyLength, pc, inOpen, heard>>

ReadClose ==
  /\ ReadsHeader
  /\ \E h \in Headers : Refused(h)
  /\ OnClose("refusing")
  /\ UNCHANGED <<bev, resolving, gone, closed, asked, sent, wire, input, body, bodyType, bodyLength, inOpen>>

(***************************************************************************)
(* Less is there than a header.  Of payload any part may be too short.     *)
(***************************************************************************)
AwaitFrame ==
  /\ pc = "reading"
  /\ state \in {"Connected", "Opened"}
  /\ input = <<>> \/ (~BodyBegun /\ Misread)
  /\ astray' = (astray \/ Misread)
  /\ pc' = "idle"
  /\ inOpen' = FALSE
  /\ UNCHANGED <<connection, sent, wire, input, body, bodyType, bodyLength, heard>>

Read == Handshake \/ ReadBody \/ ReadFrame \/ ReadClose \/ AwaitFrame

-----------------------------------------------------------------------------
(* The script.                                                             *)

(***************************************************************************)
(* duk_close: _bev is freed; _state stays and nothing is reported.         *)
(***************************************************************************)
Close ==
  /\ bev
  /\ ~gone
  /\ pc \in {"idle", "closing", "refusing"} \/ (pc = "script" /\ "reentrant" \in Env)
  /\ resolving => "hasty" \in Env
  /\ closed' = TRUE
  /\ Free
  /\ UNCHANGED <<state, resolving, gone, asked, sent, body, bodyType, bodyLength, astray, pc, inOpen, heard>>

(***************************************************************************)
(* The script's last reference goes: the finalizer releases the socket and *)
(* ~WebSocket frees it.  During a callback the handler still has the       *)
(* script's object on the value stack (ScriptReturns, CloseReturns).       *)
(***************************************************************************)
Drop ==
  /\ ~gone
  /\ pc \in {"idle", "closing"} \/ (pc \in {"script", "refusing"} /\ "reentrant" \in Env)
  /\ resolving => "hasty" \in Env
  /\ gone' = TRUE
  /\ IF pc = "idle" THEN Free ELSE UNCHANGED <<bev, wire, input>>
  /\ UNCHANGED <<state, resolving, closed, asked, sent, body, bodyType, bodyLength, astray, pc, inOpen, heard>>

Next ==
  \/ \E f \in Answers \union Frames : PeerWrites(f)
  \/ Open \/ DnsAnswers \/ Connect \/ Written \/ Error
  \/ \E k \in 1..Len(wire) : Arrive(k)
  \/ Read \/ ScriptReturns \/ CloseReturns
  \/ Close \/ Drop

Spec == Init /\ [][Next]_vars

(***************************************************************************)
(* TCP delivers what was written, onReading and the script's functions     *)
(* return.                                                                 *)
(***************************************************************************)
FairSpec ==
  /\ Spec
  /\ WF_vars(\E k \in 1..Len(wire) : Arrive(k))
  /\ WF_vars(Read)
  /\ WF_vars(ScriptReturns)
  /\ WF_vars(CloseReturns)

-----------------------------------------------------------------------------
(* Properties.                                                             *)

UnitsSent == [op : Opcodes \union {"101", "refused", "byte"}, id : Nat, fin : BOOLEAN, len : Nat]

(***************************************************************************)
(* Every variable keeps its type.                                          *)
(***************************************************************************)
TypeOK ==
  /\ state \in {"None", "Resolve", "Connected", "Opened", "Closed"}
  /\ {bev, resolving, gone, closed, asked, inOpen, astray} \subseteq BOOLEAN
  /\ sent \in Seq(Answers \union Frames)
  /\ wire \in Seq(UnitsSent) /\ input \in Seq(UnitsSent) /\ body \in Seq(UnitsSent)
  /\ bodyType \in {"none", "text", "binary", "ping"}
  /\ bodyLength \in Nat
  /\ pc \in {"new", "idle", "reading", "script", "closing", "refusing", "crash"}
  /\ heard \in Seq([cb : {"open", "data", "close"}, type : {"none", "text", "binary"}, data : Seq(UnitsSent)])

(***************************************************************************)
(* The script hears onopen at most once and before any data, and onclose   *)
(* at most once and last, whatever the network and the script do (onOpen,  *)
(* onData, onClose).                                                       *)
(***************************************************************************)
HeardInOrder ==
  \A i \in DOMAIN heard :
    /\ heard[i].cb = "open" => i = 1
    /\ heard[i].cb = "data" => heard[1].cb = "open"
    /\ heard[i].cb = "close" => i = Len(heard)

(***************************************************************************)
(* The units of payload that were written as data and that the script has  *)
(* heard, and their place in the stream.                                   *)
(***************************************************************************)
PayloadWritten(frames) ==
  UNION {Range(Payload(i, frames[i])) : i \in {n \in DOMAIN frames : IsData(frames[n])}}

PayloadHeard(calls) == UNION {Range(calls[i].data) : i \in DOMAIN calls}

Precedes(u, v) == u.id < v.id \/ (u.id = v.id /\ u.len < v.len)

Precede(U, V) == \A u \in U, v \in V : Precedes(u, v)

(***************************************************************************)
(* However TCP cuts the stream and the peer cuts its messages, and         *)
(* whatever the script does: until payload is parsed as a header, what the *)
(* script hears is a prefix of what the peer wrote as data.  It is in the  *)
(* order of the stream, in a call and from call to call, nothing else is   *)
(* heard, and nothing is left out before what is heard (onReading).        *)
(***************************************************************************)
PayloadPreserved ==
  ~astray =>
    /\ \A i \in DOMAIN heard : \A j, k \in DOMAIN heard[i].data :
         j < k => Precedes(heard[i].data[j], heard[i].data[k])
    /\ \A i, j \in DOMAIN heard : i < j => Precede(Range(heard[i].data), Range(heard[j].data))
    /\ PayloadHeard(heard) \subseteq PayloadWritten(sent)
    /\ \A u \in PayloadWritten(sent) \ PayloadHeard(heard), v \in PayloadHeard(heard) : ~Precedes(u, v)

(***************************************************************************)
(* No null or dangling pointer is used in calm surroundings: when the      *)
(* script lets the socket resolve, closes it outside of onopen and ondata, *)
(* and drops it outside of these and of the onclose that a frame has led   *)
(* to, and no frame ends the connection in the read that opens it.  When   *)
(* the peer writes every message in one frame and no pong, no payload is   *)
(* parsed as a header (onReading, onOpen, onClose, WebSocket_evdns_cb).    *)
(***************************************************************************)
Calm == Env \subseteq {"split"}
WholeMessages == \A f \in Frames : f.fin /\ f.op \notin {"continue", "pong"}

NoFault ==
  /\ Calm => pc # "crash"
  /\ WholeMessages => ~astray

(***************************************************************************)
(* The messages that the peer wrote, each in one frame.                    *)
(***************************************************************************)
Message(i, f) == IF IsData(f) THEN <<[type |-> f.op, data |-> Payload(i, f)]>> ELSE <<>>

MessagesSent == FlattenSeq([i \in DOMAIN sent |-> Message(i, sent[i])])

MessageHeard(h) == IF h.cb = "data" THEN <<[type |-> h.type, data |-> h.data]>> ELSE <<>>

MessagesHeard == FlattenSeq([i \in DOMAIN heard |-> MessageHeard(heard[i])])

Over == state = "Closed" \/ (~bev /\ pc # "new")

MS == INSTANCE MessageStream WITH
        Messages <- [type : {"text", "binary"}, data : Seq(UnitsSent)],
        phase    <- IF Over THEN "ended" ELSE IF state = "Opened" THEN "open" ELSE "connecting",
        written  <- MessagesSent,
        received <- MessagesHeard

(***************************************************************************)
(* When the peer writes each message in one frame, the script hears the    *)
(* messages, whole, in order and with their type, however TCP cuts them    *)
(* (onReading).                                                            *)
(***************************************************************************)
ImplementsMessageStream == MS!Spec

(***************************************************************************)
(* Every message that was written is heard, unless the connection is over: *)
(* onReading never stops with a whole message in its buffers.              *)
(***************************************************************************)
EveryMessageHeard ==
  \A n \in 1..MaxFrames : Len(MessagesSent) >= n ~> Len(MessagesHeard) >= n \/ Over

(***************************************************************************)
(* A close frame of the peer reaches the script as onclose, unless the     *)
(* script has closed or dropped the socket (onReading, onClose).           *)
(***************************************************************************)
CloseIsHeard ==
  "close" \in Ops(sent) ~> (heard # <<>> /\ Last(heard).cb = "close") \/ closed \/ gone
=============================================================================
