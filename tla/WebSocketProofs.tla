--------------------------- MODULE WebSocketProofs --------------------------
(***************************************************************************)
(* Proofs about WebSocket, for any frames, any number of them and any      *)
(* surroundings: its types, the order of the script's callbacks, when it   *)
(* does not fault, that what the script hears is a prefix of what the peer *)
(* wrote, and that the socket implements MessageStream.                    *)
(***************************************************************************)
EXTENDS WebSocket, SequenceTheorems, WellFoundedInduction, TLAPS

Calls == [cb : {"open", "data", "close"}, type : {"none", "text", "binary"}, data : Seq(UnitsSent)]

(***************************************************************************)
(* What was heard goes with _state.                                        *)
(***************************************************************************)
HeardSoFar ==
  /\ state \in {"None", "Resolve", "Connected"} => heard = <<>>
  /\ state = "Opened" =>
       /\ heard # <<>>
       /\ \A i \in 1..Len(heard) : heard[i].cb # "close" /\ (heard[i].cb = "open" <=> i = 1)
  /\ state = "Closed" => HeardInOrder

(***************************************************************************)
(* open is called on a new socket.                                         *)
(***************************************************************************)
Fresh == pc = "new" => state = "None"

(***************************************************************************)
(* onClose, whoever calls it.                                              *)
(***************************************************************************)
Closes == OnClose("closing") \/ OnClose("refusing")

-----------------------------------------------------------------------------
(* Types.                                                                  *)

(***************************************************************************)
(* A part of a sequence of units is one.                                   *)
(***************************************************************************)
LEMMA PartType ==
  ASSUME NEW S, NEW s \in Seq(S), NEW m \in Nat \ {0}, NEW n \in Int, n <= Len(s)
  PROVE  /\ SubSeq(s, m, n) \in Seq(S)
         /\ Len(SubSeq(s, m, n)) = IF m <= n THEN n - m + 1 ELSE 0
         /\ \A i \in 1..Len(SubSeq(s, m, n)) : SubSeq(s, m, n)[i] = s[m + i - 1]
<1>1. \A i \in m..n : s[i] \in S
  <2> SUFFICES ASSUME NEW i \in m..n PROVE s[i] \in S
    OBVIOUS
  <2>1. i \in 1..Len(s)
    OBVIOUS
  <2> QED
    BY <2>1, ElementOfSeq
<1> QED
  BY <1>1, SubSeqProperties

(***************************************************************************)
(* The units of a frame.                                                   *)
(***************************************************************************)
LEMMA UnitsType ==
  ASSUME NEW f \in Answers \union Frames, NEW i \in Nat
  PROVE  /\ f.len \in Nat
         /\ Payload(i, f) \in Seq(UnitsSent)
         /\ Len(Payload(i, f)) = f.len
         /\ \A k \in 1..f.len : Payload(i, f)[k].op = "byte"
         /\ Units(i, f) \in Seq(UnitsSent)
         /\ Len(Units(i, f)) = f.len + 1
         /\ Units(i, f)[1].op = f.op
         /\ Units(i, f)[1].len = f.len
         /\ Units(i, f)[1].fin = f.fin
         /\ \A k \in 2..(f.len + 1) : Units(i, f)[k].op = "byte"
<1>1. /\ f.op \in Opcodes \union {"101", "refused"}
      /\ f.fin \in BOOLEAN
      /\ f.len \in Nat
  <2>1. CASE f \in Frames
    BY <2>1, FramesAssumption
  <2>2. CASE f \in Answers
    <3>1. PICK a \in {"101", "refused"} : f = [op |-> a, fin |-> TRUE, len |-> 0]
      BY <2>2 DEF Answers
    <3> QED
      BY <3>1
  <2> QED
    BY <2>1, <2>2
<1>2. Payload(i, f) \in [1..f.len -> UnitsSent]
  BY <1>1 DEF Payload, UnitsSent
<1>3. Payload(i, f) \in Seq(UnitsSent) /\ Len(Payload(i, f)) = f.len
  BY <1>1, <1>2
<1>4. \A k \in 1..f.len : Payload(i, f)[k].op = "byte"
  BY <1>1 DEF Payload
<1> DEFINE h == [op |-> f.op, id |-> i, fin |-> f.fin, len |-> f.len]
<1>5. h \in UnitsSent
  BY <1>1 DEF UnitsSent
<1>6. <<h>> \in Seq(UnitsSent) /\ Len(<<h>>) = 1 /\ <<h>>[1] = h
  BY <1>5
<1>7. /\ <<h>> \o Payload(i, f) \in Seq(UnitsSent)
      /\ Len(<<h>> \o Payload(i, f)) = f.len + 1
      /\ \A k \in 1..(f.len + 1) :
           (<<h>> \o Payload(i, f))[k] = IF k <= 1 THEN <<h>>[k] ELSE Payload(i, f)[k - 1]
  <2> HIDE DEF h
  <2> QED
    BY <1>1, <1>3, <1>6, ConcatProperties
<1>8. /\ (<<h>> \o Payload(i, f))[1] = h
      /\ \A k \in 2..(f.len + 1) : (<<h>> \o Payload(i, f))[k] = Payload(i, f)[k - 1]
  BY <1>1, <1>6, <1>7
<1>9. \A k \in 2..(f.len + 1) : (<<h>> \o Payload(i, f))[k].op = "byte"
  <2> SUFFICES ASSUME NEW k \in 2..(f.len + 1)
               PROVE  (<<h>> \o Payload(i, f))[k].op = "byte"
    OBVIOUS
  <2>1. k - 1 \in 1..f.len
    BY <1>1
  <2>2. (<<h>> \o Payload(i, f))[k] = Payload(i, f)[k - 1]
    BY <1>8
  <2> QED
    BY <2>1, <2>2, <1>4
<1> QED
  BY <1>1, <1>3, <1>4, <1>7, <1>8, <1>9 DEF Units

LEMMA InitType == Init => TypeOK
<1>1. \A S : <<>> \in Seq(S)
  BY EmptySeq
<1>2. ASSUME Init PROVE TypeOK
  <2>1. /\ sent \in Seq(Answers \union Frames)
        /\ wire \in Seq(UnitsSent) /\ input \in Seq(UnitsSent) /\ body \in Seq(UnitsSent)
        /\ heard \in Seq(Calls)
    BY <1>1, <1>2 DEF Init
  <2> QED
    BY <1>2, <2>1 DEF Init, TypeOK, Calls
<1> QED
  BY <1>2

(***************************************************************************)
(* OnClose and OnData keep the types of what they change.                  *)
(***************************************************************************)
LEMMA OnCloseType ==
  ASSUME TypeOK, Closes
  PROVE  /\ state' \in {"None", "Resolve", "Connected", "Opened", "Closed"}
         /\ pc' \in {"new", "idle", "reading", "script", "closing", "refusing", "crash"}
         /\ heard' \in Seq(Calls)
<1>1. [cb |-> "close", type |-> "none", data |-> <<>>] \in Calls
  BY DEF Calls
<1>2. heard \in Seq(Calls)
  BY DEF TypeOK, Calls
<1> QED
  BY <1>1, <1>2 DEF Closes, OnClose, Call

LEMMA OnDataType ==
  ASSUME TypeOK, NEW type \in {"none", "text", "binary", "ping"}, NEW data \in Seq(UnitsSent),
         pc = "reading", OnData(type, data)
  PROVE  /\ pc' \in {"reading", "script"}
         /\ heard' \in Seq(Calls)
         /\ body' = <<>> /\ body' \in Seq(UnitsSent)
         /\ bodyType' = "none"
         /\ bodyLength' = 0
<1>1. [cb |-> "data", type |-> IF type = "text" THEN type ELSE "binary", data |-> data] \in Calls
  BY DEF Calls
<1>2. heard \in Seq(Calls)
  BY DEF TypeOK, Calls
<1>3. Call("data", IF type = "text" THEN type ELSE "binary", data) \in Seq(Calls)
  BY <1>1, <1>2 DEF Call
<1>4. /\ pc' \in {"reading", "script"}
      /\ heard' \in {heard, Call("data", IF type = "text" THEN type ELSE "binary", data)}
      /\ body' = <<>> /\ bodyType' = "none" /\ bodyLength' = 0
  BY DEF OnData
<1> QED
  BY <1>2, <1>3, <1>4

(***************************************************************************)
(* The parts of the input that onReading takes and leaves.                 *)
(***************************************************************************)
LEMMA HeaderType ==
  ASSUME TypeOK, input # <<>>, NEW h, h.len \in Nat
  PROVE  /\ There(h) \in 0..(Len(input) - 1)
         /\ There(h) <= h.len
         /\ There(h) < h.len => There(h) = Len(input) - 1
         /\ Drained(h) \in Seq(UnitsSent)
         /\ Len(Drained(h)) = Len(input) - 1 - There(h)
         /\ \A i \in 1..Len(Drained(h)) : Drained(h)[i] = input[There(h) + 1 + i]
         /\ body \o SubSeq(input, 2, There(h) + 1) \in Seq(UnitsSent)
         /\ Len(body \o SubSeq(input, 2, There(h) + 1)) = Len(body) + There(h)
<1>1. input \in Seq(UnitsSent) /\ Len(input) \in Nat \ {0} /\ body \in Seq(UnitsSent)
  BY EmptySeq DEF TypeOK
<1>4. There(h) \in 0..(Len(input) - 1) /\ There(h) <= h.len /\ (There(h) < h.len => There(h) = Len(input) - 1)
  BY <1>1 DEF There
<1>5. /\ Drained(h) \in Seq(UnitsSent)
      /\ Len(Drained(h)) = Len(input) - 1 - There(h)
      /\ \A i \in 1..Len(Drained(h)) : Drained(h)[i] = input[There(h) + 1 + i]
  <2>1. PICK m \in Nat : m = There(h) + 2 /\ m \in 2..(Len(input) + 1)
    BY <1>1, <1>4
  <2>2. /\ SubSeq(input, m, Len(input)) \in Seq(UnitsSent)
        /\ Len(SubSeq(input, m, Len(input))) = IF m <= Len(input) THEN Len(input) - m + 1 ELSE 0
        /\ \A i \in 1..Len(SubSeq(input, m, Len(input))) : SubSeq(input, m, Len(input))[i] = input[m + i - 1]
    BY <1>1, <2>1, PartType
  <2>3. Drained(h) = SubSeq(input, m, Len(input))
    BY <2>1 DEF Drained
  <2>4. PICK l \in Nat : l = There(h)
    BY <1>1, <1>4
  <2>5. m = l + 2 /\ Len(input) - m + 1 = Len(input) - 1 - l /\ (m <= Len(input) \/ Len(input) - 1 - l = 0)
    BY <1>1, <1>4, <2>1, <2>4
  <2>6. Len(Drained(h)) = Len(input) - 1 - l
    BY <2>2, <2>3, <2>5
  <2>7. ASSUME NEW i \in 1..Len(Drained(h))
        PROVE  Drained(h)[i] = input[There(h) + 1 + i]
    <3>0. i \in Nat
      BY <1>1, <2>6
    <3>1. m + i - 1 = l + 1 + i
      <4>1. m = l + 2
        BY <2>5
      <4> QED
        BY <3>0, <4>1
    <3>2. Drained(h)[i] = input[m + i - 1]
      BY <2>2, <2>3
    <3> QED
      BY <2>4, <3>1, <3>2
  <2> QED
    BY <2>2, <2>3, <2>4, <2>6, <2>7
<1>6. /\ SubSeq(input, 2, There(h) + 1) \in Seq(UnitsSent)
      /\ Len(SubSeq(input, 2, There(h) + 1)) = There(h)
  BY <1>1, <1>4, PartType
<1>7. /\ body \o SubSeq(input, 2, There(h) + 1) \in Seq(UnitsSent)
      /\ Len(body \o SubSeq(input, 2, There(h) + 1)) = Len(body) + Len(SubSeq(input, 2, There(h) + 1))
  <2>1. PICK t \in Seq(UnitsSent) : t = SubSeq(input, 2, There(h) + 1)
    BY <1>6
  <2>2. body \o t \in Seq(UnitsSent) /\ Len(body \o t) = Len(body) + Len(t)
    BY <1>1, ConcatProperties
  <2> QED
    BY <2>1, <2>2, Zenon
<1>8. Len(body \o SubSeq(input, 2, There(h) + 1)) = Len(body) + There(h)
  BY <1>6, <1>7, Zenon
<1> QED
  BY <1>4, <1>5, <1>7, <1>8, ZenonT(40)

LEMMA FrameType ==
  ASSUME TypeOK, input # <<>>
  PROVE  /\ Frame \in UnitsSent
         /\ Frame = input[1]
         /\ There(Frame) \in 0..(Len(input) - 1)
         /\ There(Frame) <= Frame.len
         /\ There(Frame) < Frame.len => There(Frame) = Len(input) - 1
         /\ Len(input) \in Nat \ {0}
         /\ Drained(Frame) \in Seq(UnitsSent)
         /\ Len(Drained(Frame)) = Len(input) - 1 - There(Frame)
         /\ \A i \in 1..Len(Drained(Frame)) : Drained(Frame)[i] = input[There(Frame) + 1 + i]
         /\ body \o SubSeq(input, 2, There(Frame) + 1) \in Seq(UnitsSent)
         /\ Len(body \o SubSeq(input, 2, There(Frame) + 1)) = Len(body) + There(Frame)
<1>1. input \in Seq(UnitsSent) /\ Len(input) \in Nat \ {0}
  BY EmptySeq DEF TypeOK
<1>2. Frame \in UnitsSent /\ Frame = input[1]
  BY <1>1 DEF Frame
<1>3. Frame.len \in Nat
  BY <1>2 DEF UnitsSent
<1> HIDE DEF Frame
<1> QED
  BY <1>1, <1>2, <1>3, HeaderType

(***************************************************************************)
(* What a header says, and when it says what was written.                  *)
(***************************************************************************)
LEMMA HeaderSays ==
  ASSUME TypeOK, input # <<>>, NEW h \in Headers
  PROVE  /\ h.op \in Opcodes \union {"101", "refused", "byte"}
         /\ h.fin \in BOOLEAN
         /\ h.len \in Nat
         /\ ~Misread => h = Frame /\ ~astray /\ Frame.op # "byte"
<1>1. CASE Misread
  <2>1. h \in Readings
    BY <1>1 DEF Headers
  <2>2. h \in [op : Opcodes, fin : BOOLEAN, len : Nat]
    BY <2>1, ReadingsAssumption
  <2> QED
    BY <1>1, <2>2
<1>2. CASE ~Misread
  <2>1. h = Frame
    BY <1>2 DEF Headers
  <2>2. Frame \in UnitsSent
    BY FrameType
  <2> QED
    BY <1>2, <2>1, <2>2 DEF UnitsSent, Misread
<1> QED
  BY <1>1, <1>2

LEMMA BodyType ==
  ASSUME TypeOK, TakesBody
  PROVE  /\ Missing \in Nat \ {0}
         /\ Len(input) \in Nat \ {0} /\ Missing <= Len(input)
         /\ body \o SubSeq(input, 1, Missing) \in Seq(UnitsSent)
         /\ Len(body \o SubSeq(input, 1, Missing)) = bodyLength
         /\ SubSeq(input, Missing + 1, Len(input)) \in Seq(UnitsSent)
         /\ Len(SubSeq(input, Missing + 1, Len(input))) = Len(input) - Missing
         /\ \A i \in 1..Len(SubSeq(input, Missing + 1, Len(input))) :
              SubSeq(input, Missing + 1, Len(input))[i] = input[Missing + i]
<1>1. /\ input \in Seq(UnitsSent) /\ Len(input) \in Nat
      /\ body \in Seq(UnitsSent) /\ Len(body) \in Nat
      /\ bodyLength \in Nat
  BY DEF TypeOK
<1>2. Missing \in Nat \ {0} /\ Missing <= Len(input) /\ Len(body) + Missing = bodyLength
  BY <1>1 DEF TakesBody, Missing
<1>3. /\ SubSeq(input, 1, Missing) \in Seq(UnitsSent)
      /\ Len(SubSeq(input, 1, Missing)) = Missing
  BY <1>1, <1>2, PartType
<1>4. /\ SubSeq(input, Missing + 1, Len(input)) \in Seq(UnitsSent)
      /\ Len(SubSeq(input, Missing + 1, Len(input))) = Len(input) - Missing
      /\ \A i \in 1..Len(SubSeq(input, Missing + 1, Len(input))) :
           SubSeq(input, Missing + 1, Len(input))[i] = input[Missing + i]
  BY <1>1, <1>2, PartType
<1> QED
  BY <1>1, <1>2, <1>3, <1>4, ConcatProperties

(***************************************************************************)
(* Every step keeps the types.                                             *)
(***************************************************************************)
LEMMA NextType == TypeOK /\ [Next]_vars => TypeOK'
<1> SUFFICES ASSUME TypeOK, [Next]_vars
             PROVE  TypeOK'
  OBVIOUS
<1>s. <<>> \in Seq(UnitsSent)
  OBVIOUS
<1>1. ASSUME NEW f \in Answers \union Frames, PeerWrites(f)
      PROVE  TypeOK'
  <2>1. Len(sent) + 1 \in Nat /\ Append(sent, f) \in Seq(Answers \union Frames)
    BY DEF TypeOK
  <2>2. Units(Len(sent) + 1, f) \in Seq(UnitsSent)
    BY <2>1, UnitsType
  <2>3. wire \o Units(Len(sent) + 1, f) \in Seq(UnitsSent)
    BY <2>2, ConcatProperties DEF TypeOK
  <2> QED
    BY <1>1, <2>1, <2>3 DEF TypeOK, PeerWrites, connection, buffers
<1>2. CASE Open
  BY <1>2 DEF TypeOK, Open, buffers
<1>3. CASE DnsAnswers
  <2>1. CASE ResolveFailed /\ Closes
    BY <1>3, <2>1, OnCloseType DEF TypeOK, DnsAnswers, buffers, Calls
  <2>2. CASE Resolved \/ (ResolveFailed /\ ~Closes)
    BY <1>3, <2>2 DEF TypeOK, DnsAnswers, Resolved, ResolveFailed, buffers, Closes
  <2> QED
    BY <1>3, <2>1, <2>2 DEF DnsAnswers
<1>4. CASE Connect
  BY <1>4 DEF TypeOK, Connect, buffers
<1>5. CASE Written
  BY <1>5 DEF TypeOK, Written, buffers
<1>6. CASE Error
  BY <1>6, OnCloseType DEF TypeOK, Error, buffers, Calls, Closes
<1>7. ASSUME NEW k \in 1..Len(wire), Arrive(k)
      PROVE  TypeOK'
  <2>1. wire \in Seq(UnitsSent) /\ Len(wire) \in Nat /\ input \in Seq(UnitsSent)
    BY DEF TypeOK
  <2>2. SubSeq(wire, 1, k) \in Seq(UnitsSent) /\ SubSeq(wire, k + 1, Len(wire)) \in Seq(UnitsSent)
    BY <2>1, PartType
  <2>3. input \o SubSeq(wire, 1, k) \in Seq(UnitsSent)
    BY <2>1, <2>2, ConcatProperties
  <2> QED
    BY <1>7, <2>2, <2>3 DEF TypeOK, Arrive, connection
<1>8. CASE Handshake
  <2>1. input # <<>> => Tail(input) \in Seq(UnitsSent)
    BY HeadTailProperties DEF TypeOK
  <2>2. [cb |-> "open", type |-> "none", data |-> <<>>] \in Calls
    BY DEF Calls
  <2>5. heard \in Seq(Calls) /\ input # <<>>
    BY <1>8 DEF TypeOK, Calls, Handshake
  <2>3. CASE Head(input).op = "101"
    <3>1. heard' = Append(heard, [cb |-> "open", type |-> "none", data |-> <<>>])
      BY <1>8, <2>3 DEF Handshake, Call
    <3>2. heard' \in Seq(Calls)
      BY <2>2, <2>5, <3>1
    <3> QED
      BY <1>8, <2>1, <2>3, <2>5, <3>2 DEF TypeOK, Handshake, Calls
  <2>4. CASE Head(input).op # "101"
    <3>1. Closes
      BY <1>8, <2>4 DEF Handshake, Closes
    <3> QED
      BY <1>8, <2>1, <2>4, <2>5, <3>1, OnCloseType DEF TypeOK, Handshake, Calls
  <2> QED
    BY <2>3, <2>4
<1>9. CASE ReadBody
  <2>1. CASE CompleteBody
    <3> DEFINE whole == IF TakesBody THEN body \o SubSeq(input, 1, Missing) ELSE body
    <3>1. whole \in Seq(UnitsSent)
      BY BodyType DEF TypeOK
    <3>2. OnData(bodyType, whole) /\ pc = "reading" /\ bodyType \in {"none", "text", "binary", "ping"}
      BY <1>9, <2>1 DEF CompleteBody, ReadBody, TypeOK
    <3>3. input' \in Seq(UnitsSent) /\ inOpen' = inOpen /\ astray' = astray
      BY <2>1, BodyType DEF CompleteBody, TypeOK
    <3>4. /\ pc' \in {"reading", "script"} /\ heard' \in Seq(Calls)
          /\ body' \in Seq(UnitsSent) /\ bodyType' = "none" /\ bodyLength' = 0
      <4> HIDE DEF whole
      <4> QED
        BY <3>1, <3>2, OnDataType
    <3> QED
      BY <1>9, <3>3, <3>4 DEF TypeOK, ReadBody, connection, Calls
  <2>2. CASE AwaitBody
    BY <1>9, <2>2 DEF TypeOK, ReadBody, AwaitBody, connection, buffers
  <2> QED
    BY <1>9, <2>1, <2>2 DEF ReadBody
<1>10. CASE ReadFrame
  <2>0. input # <<>> /\ pc = "reading" /\ astray' = Misread
    BY <1>10 DEF ReadFrame, ReadsHeader
  <2>1. Misread \in BOOLEAN
    BY DEF Misread, TypeOK
  <2>2. PICK h \in Headers : SkipPong(h) \/ AddFrame(h)
    BY <1>10 DEF ReadFrame
  <2>3. h.op \in Opcodes \union {"101", "refused", "byte"} /\ h.len \in Nat
    BY <2>0, HeaderSays
  <2> DEFINE more == body \o SubSeq(input, 2, There(h) + 1)
  <2>4. more \in Seq(UnitsSent) /\ Drained(h) \in Seq(UnitsSent)
    BY <2>0, <2>3, HeaderType
  <2>5. CASE SkipPong(h)
    BY <1>10, <2>0, <2>1, <2>4, <2>5 DEF TypeOK, ReadFrame, SkipPong, connection
  <2>6. CASE AddFrame(h)
    <3>1. TypeAfter(h) \in {"none", "text", "binary", "ping"}
      BY <2>3, <2>6 DEF AddFrame, TypeAfter, TypeOK
    <3>3. /\ input' = Drained(h)
          /\ \/ OnData(TypeAfter(h), more)
             \/ body' = more /\ bodyType' = TypeAfter(h) /\ bodyLength' = h.len /\ UNCHANGED <<pc, heard>>
      BY <2>6 DEF AddFrame
    <3> HIDE DEF more
    <3>4. /\ pc' \in {"reading", "script"} /\ heard' \in Seq(Calls)
          /\ body' \in Seq(UnitsSent) /\ bodyType' \in {"none", "text", "binary", "ping"} /\ bodyLength' \in Nat
      <4>1. CASE OnData(TypeAfter(h), more)
        BY <2>0, <2>4, <3>1, <4>1, OnDataType
      <4>2. CASE UNCHANGED <<pc, heard>> /\ body' = more /\ bodyType' = TypeAfter(h) /\ bodyLength' = h.len
        BY <2>0, <2>3, <2>4, <3>1, <4>2 DEF TypeOK, Calls
      <4> QED
        BY <3>3, <4>1, <4>2
    <3> QED
      BY <1>10, <2>0, <2>1, <2>4, <3>3, <3>4 DEF TypeOK, ReadFrame, connection, Calls
  <2> QED
    BY <2>2, <2>5, <2>6
<1>11. CASE ReadClose
  <2>1. Closes /\ Misread \in BOOLEAN
    BY <1>11 DEF ReadClose, Closes, Misread, TypeOK
  <2> QED
    BY <1>11, <2>1, OnCloseType DEF TypeOK, ReadClose, ReadsHeader, Calls
<1>12. CASE AwaitFrame
  <2>1. Misread \in BOOLEAN
    BY DEF Misread, TypeOK
  <2> QED
    BY <1>12, <2>1 DEF TypeOK, AwaitFrame, connection
<1>13. CASE ScriptReturns
  BY <1>13, <1>s DEF TypeOK, ScriptReturns, Free
<1>14. CASE CloseReturns
  BY <1>14, <1>s DEF TypeOK, CloseReturns, Free
<1>15. CASE Close
  BY <1>15, <1>s DEF TypeOK, Close, Free
<1>16. CASE Drop
  BY <1>16, <1>s DEF TypeOK, Drop, Free
<1>17. CASE UNCHANGED vars
  BY <1>17 DEF TypeOK, vars, connection, buffers
<1> QED
  BY <1>1, <1>2, <1>3, <1>4, <1>5, <1>6, <1>7, <1>8, <1>9, <1>10, <1>11, <1>12, <1>13,
     <1>14, <1>15, <1>16, <1>17 DEF Next, Read

(***************************************************************************)
(* The variables keep their types.                                         *)
(***************************************************************************)
THEOREM TypeCorrect == Spec => []TypeOK
<1>1. TypeOK /\ [Next]_vars => TypeOK'
  BY NextType
<1> QED
  BY InitType, <1>1, PTL DEF Spec

-----------------------------------------------------------------------------
(* The order of the callbacks.                                             *)

(***************************************************************************)
(* A call that is added to what was heard.                                 *)
(***************************************************************************)
LEMMA CallFact ==
  ASSUME heard \in Seq(Calls), NEW cb, NEW type, NEW data
  PROVE  /\ Len(Call(cb, type, data)) = Len(heard) + 1
         /\ Len(heard) \in Nat
         /\ \A i \in 1..Len(heard) : Call(cb, type, data)[i] = heard[i]
         /\ Call(cb, type, data)[Len(heard) + 1].cb = cb
  BY DEF Call

LEMMA HeardInit == Init => HeardSoFar
  BY DEF Init, HeardSoFar

(***************************************************************************)
(* onclose is the last call.                                               *)
(***************************************************************************)
LEMMA HeardClose ==
  ASSUME TypeOK, HeardSoFar, Closes
  PROVE  HeardSoFar'
<1>1. heard \in Seq(Calls)
  BY DEF TypeOK, Calls
<1>2. /\ Len(heard') = Len(heard) + 1
      /\ Len(heard) \in Nat
      /\ \A i \in 1..Len(heard) : heard'[i] = heard[i]
      /\ heard'[Len(heard) + 1].cb = "close"
  BY <1>1, CallFact DEF Closes, OnClose
<1>3. heard' \in Seq(Calls)
  BY OnCloseType
<1>4. DOMAIN heard' = 1..(Len(heard) + 1)
  BY <1>2, <1>3
<1>5. state \in {"None", "Resolve", "Connected", "Opened"} /\ state' = "Closed"
  BY DEF TypeOK, Closes, OnClose
<1>6. CASE state = "Opened"
  <2>1. /\ Len(heard) >= 1
        /\ \A i \in 1..Len(heard) : heard'[i].cb # "close" /\ (heard'[i].cb = "open" <=> i = 1)
    BY <1>1, <1>2, <1>6, EmptySeq DEF HeardSoFar
  <2>2. heard'[1].cb = "open"
    BY <1>2, <2>1
  <2>3. HeardInOrder'
    BY <1>2, <1>4, <2>1, <2>2 DEF HeardInOrder
  <2> QED
    BY <1>5, <2>3 DEF HeardSoFar
<1>7. CASE state # "Opened"
  <2>1. Len(heard) = 0
    BY <1>5, <1>7 DEF HeardSoFar
  <2>2. HeardInOrder'
    BY <1>2, <1>4, <2>1 DEF HeardInOrder
  <2> QED
    BY <1>5, <2>2 DEF HeardSoFar
<1> QED
  BY <1>6, <1>7

(***************************************************************************)
(* ondata is called only in the state Opened.                              *)
(***************************************************************************)
LEMMA HeardData ==
  ASSUME TypeOK, HeardSoFar, state = "Opened", UNCHANGED state, NEW type, NEW data, OnData(type, data)
  PROVE  HeardSoFar'
<1>1. CASE heard' = heard
  BY <1>1 DEF HeardSoFar, HeardInOrder
<1>2. CASE type # "ping"
  <2>1. heard \in Seq(Calls) /\ heard # <<>>
    BY DEF TypeOK, Calls, HeardSoFar
  <2>2. /\ Len(heard') = Len(heard) + 1
        /\ Len(heard) \in Nat \ {0}
        /\ \A i \in 1..Len(heard) : heard'[i] = heard[i]
        /\ heard'[Len(heard) + 1].cb = "data"
    BY <1>2, <2>1, CallFact, EmptySeq DEF OnData
  <2>3. \A i \in 1..Len(heard') : i \in 1..Len(heard) \/ i = Len(heard) + 1
    BY <2>2
  <2>4. \A i \in 1..Len(heard') : heard'[i].cb # "close" /\ (heard'[i].cb = "open" <=> i = 1)
    BY <2>2, <2>3 DEF HeardSoFar
  <2>5. heard' # <<>>
    BY <2>2
  <2> QED
    BY <2>4, <2>5 DEF HeardSoFar
<1> QED
  BY <1>1, <1>2 DEF OnData

LEMMA FreshNext == Fresh /\ [Next]_vars => Fresh'
  BY DEF Fresh, Next, Read, vars, connection, buffers, PeerWrites, Open, DnsAnswers, Resolved,
         ResolveFailed, Closes, OnClose, OnData, Connect, Written, Error, Arrive, Handshake, ReadBody,
         CompleteBody, AwaitBody, ReadFrame, ReadsHeader, SkipPong, AddFrame, ReadClose, AwaitFrame,
         ScriptReturns, CloseReturns, Close, Drop

LEMMA HeardNext == TypeOK /\ Fresh /\ HeardSoFar /\ [Next]_vars => HeardSoFar'
<1> SUFFICES ASSUME TypeOK, Fresh, HeardSoFar, [Next]_vars
             PROVE  HeardSoFar'
  OBVIOUS
<1>1. ASSUME UNCHANGED <<state, heard>>
      PROVE  HeardSoFar'
  BY <1>1 DEF HeardSoFar, HeardInOrder
<1>2. ASSUME heard' = heard, state \in {"None", "Resolve"}, state' \in {"Resolve", "Connected"}
      PROVE  HeardSoFar'
  BY <1>2 DEF HeardSoFar
<1>3. ASSUME Closes
      PROVE  HeardSoFar'
  BY <1>3, HeardClose
<1>4. CASE Open
  BY <1>4 DEF Open, HeardSoFar, Fresh
<1>5. CASE DnsAnswers
  BY <1>1, <1>2, <1>3, <1>5 DEF DnsAnswers, Resolved, ResolveFailed, Closes
<1>6. CASE Handshake
  <2>1. CASE Head(input).op # "101"
    BY <1>3, <1>6, <2>1 DEF Handshake, Closes
  <2>2. CASE Head(input).op = "101"
    <3>1. heard = <<>> /\ heard \in Seq(Calls)
      BY <1>6 DEF Handshake, HeardSoFar, TypeOK, Calls
    <3>2. heard' = Call("open", "none", <<>>) /\ state' = "Opened"
      BY <1>6, <2>2 DEF Handshake
    <3>3. Len(heard') = 1 /\ heard'[1].cb = "open" /\ heard' # <<>>
      BY <3>1, <3>2, CallFact
    <3> QED
      BY <3>2, <3>3 DEF HeardSoFar
  <2> QED
    BY <2>1, <2>2
<1>7. CASE ReadBody
  <2>1. state = "Opened" /\ UNCHANGED state
    BY <1>7 DEF ReadBody, connection
  <2> QED
    BY <1>1, <1>7, <2>1, HeardData DEF ReadBody, CompleteBody, AwaitBody
<1>8. CASE ReadFrame
  <2>1. state = "Opened" /\ UNCHANGED state
    BY <1>8 DEF ReadFrame, ReadsHeader, connection
  <2>2. PICK h \in Headers : SkipPong(h) \/ AddFrame(h)
    BY <1>8 DEF ReadFrame
  <2>3. CASE UNCHANGED heard
    BY <1>1, <2>1, <2>3
  <2>4. CASE ~UNCHANGED heard
    BY <2>1, <2>2, <2>4, HeardData DEF AddFrame, SkipPong
  <2> QED
    BY <2>3, <2>4
<1>9. CASE Connect
  BY <1>2, <1>9 DEF Connect
<1>10. CASE Error \/ ReadClose
  BY <1>3, <1>10 DEF Error, ReadClose, Closes
<1>11. CASE \/ \E f \in Answers \union Frames : PeerWrites(f)
            \/ \E k \in 1..Len(wire) : Arrive(k)
            \/ Written \/ AwaitFrame \/ ScriptReturns \/ CloseReturns \/ Close \/ Drop
            \/ UNCHANGED vars
  BY <1>1, <1>11 DEF PeerWrites, Arrive, Written, AwaitFrame, ScriptReturns, CloseReturns,
                     Close, Drop, vars, connection
<1> QED
  BY <1>4, <1>5, <1>6, <1>7, <1>8, <1>9, <1>10, <1>11 DEF Next, Read

(***************************************************************************)
(* onopen comes at most once and first, onclose at most once and last.     *)
(***************************************************************************)
THEOREM CallbackOrder == Spec => []HeardInOrder
<1>1. Init => TypeOK /\ Fresh /\ HeardSoFar
  BY InitType, HeardInit DEF Init, Fresh
<1>2. TypeOK /\ Fresh /\ HeardSoFar /\ [Next]_vars => (TypeOK /\ Fresh /\ HeardSoFar)'
  BY NextType, FreshNext, HeardNext
<1>3. TypeOK /\ HeardSoFar => HeardInOrder
  <2> SUFFICES ASSUME TypeOK, HeardSoFar PROVE HeardInOrder
    OBVIOUS
  <2>1. DOMAIN heard = 1..Len(heard)
    BY DEF TypeOK
  <2>2. CASE state = "Opened"
    BY <2>1, <2>2 DEF HeardSoFar, HeardInOrder
  <2>3. CASE state # "Opened"
    BY <2>1, <2>3 DEF TypeOK, HeardSoFar, HeardInOrder
  <2> QED
    BY <2>2, <2>3
<1> QED
  BY <1>1, <1>2, <1>3, PTL DEF Spec

-----------------------------------------------------------------------------
(* No fault.                                                               *)

(***************************************************************************)
(* _bev is there, and the socket not dropped, when a handler goes on with  *)
(* them; evdns has a live socket; and while onOpen is on the stack no      *)
(* frame in the input ends the connection.                                 *)
(***************************************************************************)
Ending(s) == \E u \in Range(s) : Refused(u)

Pointers ==
  /\ resolving => ~gone /\ bev /\ state = "None" /\ pc = "idle"
  /\ pc \in {"reading", "script"} => bev
  /\ gone => ~bev \/ pc = "closing"
  /\ pc = "refusing" => ~gone
  /\ pc = "reading" /\ state = "Connected" => ~("101" \in Ops(input) /\ Ending(input))
  /\ pc = "script" => state = "Opened"
  /\ inOpen => pc \in {"reading", "script"} /\ state = "Opened" /\ ~Ending(input)
  /\ pc = "new" => ~resolving /\ ~gone
  /\ asked => state # "None"
  /\ pc # "crash"

(***************************************************************************)
(* What onOpen's call of onReading has before it is a header, and never    *)
(* payload: a frame that is cut is the last in the input.                  *)
(***************************************************************************)
OpenPlace ==
  inOpen /\ input # <<>> => ~Misread /\ (bodyType = "none" \/ Len(body) >= bodyLength)

(***************************************************************************)
(* The units in a part of a sequence, and in what is left of the input.    *)
(***************************************************************************)
LEMMA OpsPart ==
  ASSUME NEW s \in Seq(UnitsSent), NEW t \in Seq(UnitsSent), NEW d \in 0..Len(s),
         Len(t) = Len(s) - d, \A i \in 1..Len(t) : t[i] = s[d + i]
  PROVE  Range(t) \subseteq Range(s)
<1> SUFFICES ASSUME NEW i \in DOMAIN t PROVE t[i] \in Range(s)
  BY DEF Range
<1>1. i \in 1..Len(t) /\ t[i] = s[d + i] /\ d + i \in 1..Len(s)
  OBVIOUS
<1>2. d + i \in DOMAIN s
  BY <1>1
<1> QED
  BY <1>1, <1>2 DEF Range

LEMMA OpsLeft ==
  ASSUME TypeOK, input # <<>>
  PROVE  /\ Range(Tail(input)) \subseteq Range(input)
         /\ \A h : h.len \in Nat => Range(Drained(h)) \subseteq Range(input)
         /\ Frame \in Range(input) /\ Frame.op \in Ops(input)
<1>1. input \in Seq(UnitsSent) /\ Len(input) \in Nat \ {0}
  BY EmptySeq DEF TypeOK
<1>2. Range(Tail(input)) \subseteq Range(input)
  <2>1. Tail(input) \in Seq(UnitsSent) /\ Len(Tail(input)) = Len(input) - 1
        /\ \A i \in 1..Len(Tail(input)) : Tail(input)[i] = input[1 + i]
    BY <1>1, HeadTailProperties
  <2>2. 1 \in 0..Len(input)
    BY <1>1
  <2> QED
    BY <1>1, <2>1, <2>2, OpsPart
<1>3. ASSUME NEW h, h.len \in Nat PROVE Range(Drained(h)) \subseteq Range(input)
  <2>1. PICK m \in 0..Len(input) : m = There(h) + 1
    BY <1>1, <1>3, HeaderType
  <2>2. /\ Drained(h) \in Seq(UnitsSent)
        /\ Len(Drained(h)) = Len(input) - 1 - There(h)
        /\ \A i \in 1..Len(Drained(h)) : Drained(h)[i] = input[There(h) + 1 + i]
        /\ There(h) \in 0..(Len(input) - 1)
    BY <1>3, HeaderType
  <2>3. Len(Drained(h)) = Len(input) - m /\ \A i \in 1..Len(Drained(h)) : Drained(h)[i] = input[m + i]
    BY <1>1, <2>1, <2>2
  <2> QED
    BY <1>1, <2>1, <2>2, <2>3, OpsPart
<1>4. Frame = input[1] /\ 1 \in DOMAIN input
  BY <1>1 DEF Frame
<1> QED
  BY <1>2, <1>3, <1>4 DEF Range, Ops

LEMMA PointersNext ==
  ASSUME Calm, TypeOK, Fresh, Pointers, OpenPlace, [Next]_vars
  PROVE  Pointers'
<1>e. /\ "hasty" \notin Env /\ "abrupt" \notin Env /\ "reentrant" \notin Env
  BY DEF Calm
<1>t. bev \in BOOLEAN /\ resolving \in BOOLEAN /\ gone \in BOOLEAN /\ inOpen \in BOOLEAN
  BY DEF TypeOK
<1>f. Range(<<>>) = {}
  BY DEF Range
<1>1. CASE \E f \in Answers \union Frames : PeerWrites(f)
  BY <1>1 DEF Pointers, PeerWrites, connection, buffers, Ending
<1>2. CASE Open
  BY <1>2 DEF Pointers, Open, Fresh, buffers, Ending
<1>3. CASE DnsAnswers
  BY <1>3, <1>t DEF Pointers, DnsAnswers, Resolved, ResolveFailed, OnClose, buffers, Ending
<1>4. CASE Connect \/ Written \/ Error
  <2>1. CASE Connect
    BY <2>1, <1>t DEF Pointers, Connect, buffers, Ending
  <2>2. CASE Written
    BY <2>2, <1>t DEF Pointers, Written, buffers, Ending
  <2>3. CASE Error
    BY <2>3, <1>t DEF Pointers, Error, OnClose, buffers, Ending
  <2> QED
    BY <1>4, <2>1, <2>2, <2>3
<1>5. ASSUME NEW k \in 1..Len(wire), Arrive(k)
      PROVE  Pointers'
  <2>1. ~("101" \in Ops(input') /\ Ending(input'))
    BY <1>5, <1>e DEF Arrive, Ending
  <2>2. ~("101" \in Ops(input)' /\ Ending(input)')
    BY <2>1 DEF Ops, Ending
  <2> QED
    BY <1>5, <1>t, <2>2 DEF Pointers, Arrive, connection
<1>6. CASE Handshake
  <2>1. input # <<>> /\ pc = "reading" /\ state = "Connected" /\ ~inOpen /\ input' = Tail(input)
    BY <1>6, <1>t DEF Handshake, Pointers
  <2>2. Head(input).op = "101" => ~Ending(input)'
    BY <2>1, OpsLeft DEF Pointers, Ending, Frame
  <2> QED
    BY <1>6, <1>t, <2>1, <2>2 DEF Pointers, Handshake, OnClose
<1>7. CASE ReadBody
  <2>1. CASE CompleteBody
    <3>1. Range(input') \subseteq Range(input)
      <4>1. CASE TakesBody
        <5>1. /\ input \in Seq(UnitsSent) /\ input' \in Seq(UnitsSent) /\ Missing \in 0..Len(input)
              /\ Len(input') = Len(input) - Missing
              /\ \A i \in 1..Len(input') : input'[i] = input[Missing + i]
          BY <2>1, <4>1, BodyType, SMTT(30) DEF CompleteBody, TypeOK
        <5> HIDE DEF Missing
        <5> QED
          BY <5>1, OpsPart
      <4>2. CASE ~TakesBody
        BY <2>1, <4>2 DEF CompleteBody
      <4> QED
        BY <4>1, <4>2
    <3>2. pc' \in {"reading", "script"} /\ inOpen' = inOpen /\ (Ending(input)' => Ending(input))
      BY <1>7, <2>1, <3>1 DEF ReadBody, CompleteBody, OnData, Ending
    <3> QED
      BY <1>7, <3>2 DEF Pointers, ReadBody, connection
  <2>2. CASE AwaitBody
    BY <1>7, <2>2 DEF Pointers, ReadBody, AwaitBody, connection, buffers
  <2> QED
    BY <1>7, <2>1, <2>2 DEF ReadBody
<1>8. CASE ReadFrame
  <2>1. PICK h \in Headers : SkipPong(h) \/ AddFrame(h)
    BY <1>8 DEF ReadFrame
  <2>2. input # <<>> /\ input' = Drained(h) /\ pc' \in {"reading", "script"}
    BY <1>8, <2>1 DEF ReadFrame, ReadsHeader, SkipPong, AddFrame, OnData
  <2>3. Ending(input)' => Ending(input)
    BY <2>2, HeaderSays, OpsLeft DEF Ending
  <2> QED
    BY <1>8, <2>2, <2>3 DEF Pointers, ReadFrame, ReadsHeader, connection
<1>9. CASE ReadClose
  <2>1. /\ pc = "reading" /\ state = "Opened" /\ input # <<>> /\ state' = "Closed" /\ pc' = "refusing"
        /\ UNCHANGED <<bev, resolving, gone, asked, input, inOpen>>
    BY <1>9 DEF ReadClose, ReadsHeader, OnClose
  <2>2. ~inOpen
    <3> SUFFICES ASSUME inOpen PROVE FALSE
      OBVIOUS
    <3>1. PICK h \in Headers : Refused(h)
      BY <1>9 DEF ReadClose
    <3>2. h = Frame
      BY <2>1, <3>1, HeaderSays DEF OpenPlace
    <3> QED
      BY <2>1, <3>1, <3>2, OpsLeft DEF Pointers, Ending
  <2> QED
    BY <1>t, <2>1, <2>2 DEF Pointers
<1>10. CASE AwaitFrame
  BY <1>10, <1>t DEF Pointers, AwaitFrame, connection, Ending
<1>11. CASE ScriptReturns \/ CloseReturns
  BY <1>11, <1>t DEF Pointers, ScriptReturns, CloseReturns, Free, connection, buffers, Ending
<1>12. CASE Close \/ Drop
  BY <1>12, <1>e, <1>t, <1>f DEF Pointers, Close, Drop, Free, Ops, Ending
<1>13. CASE UNCHANGED vars
  BY <1>13 DEF Pointers, vars, connection, buffers, Ending
<1> QED
  BY <1>1, <1>2, <1>3, <1>4, <1>5, <1>6, <1>7, <1>8, <1>9, <1>10, <1>11, <1>12, <1>13 DEF Next, Read

-----------------------------------------------------------------------------
(* The stream: what is in the input and what is still on its way.          *)

Rest == input \o wire

(***************************************************************************)
(* After its first m units the stream goes on with a header.               *)
(***************************************************************************)
Starts(r, m) == m <= Len(r) /\ (m < Len(r) => r[m + 1].op # "byte")

(***************************************************************************)
(* The units of a sequence are typed.                                      *)
(***************************************************************************)
LEMMA UnitAt ==
  ASSUME NEW r \in Seq(UnitsSent)
  PROVE  /\ Len(r) \in Nat
         /\ \A j \in 1..Len(r) : r[j] \in UnitsSent /\ r[j].len \in Nat
<1>1. ASSUME NEW j \in 1..Len(r)
      PROVE  r[j] \in UnitsSent /\ r[j].len \in Nat
  <2>1. r[j] \in UnitsSent
    BY ElementOfSeq
  <2> QED
    BY <2>1 DEF UnitsSent
<1> QED
  BY <1>1

(***************************************************************************)
(* Where the next header is, when the stream loses its first units, or     *)
(* has more frames at its end.                                             *)
(***************************************************************************)
LEMMA StartsShift ==
  ASSUME NEW r \in Seq(UnitsSent), NEW t \in Seq(UnitsSent), NEW d \in 0..Len(r),
         Len(t) = Len(r) - d, \A i \in 1..Len(t) : t[i] = r[d + i],
         NEW m \in Nat, Starts(r, d + m)
  PROVE  Starts(t, m)
<1>1. Len(r) \in Nat /\ Len(t) \in Nat
  OBVIOUS
<1>2. m <= Len(t)
  BY <1>1 DEF Starts
<1>3. ASSUME m < Len(t)
      PROVE  t[m + 1].op # "byte"
  <2>1. m + 1 \in 1..Len(t) /\ d + m < Len(r) /\ d + (m + 1) = d + m + 1
    BY <1>1, <1>3
  <2>2. t[m + 1] = r[d + m + 1]
    BY <2>1
  <2> QED
    BY <2>1, <2>2 DEF Starts
<1> QED
  BY <1>2, <1>3 DEF Starts

LEMMA StartsAppend ==
  ASSUME NEW r \in Seq(UnitsSent), NEW u \in Seq(UnitsSent), Len(u) > 0, u[1].op # "byte",
         NEW m \in Nat, Starts(r, m)
  PROVE  Starts(r \o u, m)
<1> DEFINE q == r \o u
<1>1. /\ Len(r) \in Nat /\ Len(u) \in Nat
      /\ Len(q) = Len(r) + Len(u)
      /\ \A j \in 1..Len(r) + Len(u) : q[j] = IF j <= Len(r) THEN r[j] ELSE u[j - Len(r)]
  BY ConcatProperties
<1> HIDE DEF q
<1>2. m <= Len(r) /\ m < Len(q)
  BY <1>1 DEF Starts
<1>3. CASE m < Len(r)
  <2>1. m + 1 \in 1..Len(r) + Len(u) /\ m + 1 <= Len(r)
    BY <1>1, <1>3
  <2> QED
    BY <1>1, <1>2, <1>3, <2>1 DEF Starts, q
<1>4. CASE m = Len(r)
  <2>1. m + 1 \in 1..Len(r) + Len(u) /\ ~(m + 1 <= Len(r)) /\ (m + 1) - Len(r) = 1
    BY <1>1, <1>4
  <2>2. q[m + 1] = u[1]
    BY <1>1, <2>1
  <2> QED
    BY <1>1, <1>2, <2>2 DEF Starts, q
<1> QED
  BY <1>1, <1>2, <1>3, <1>4

(***************************************************************************)
(* When the input is left without its first d units, so is the stream.     *)
(***************************************************************************)
LEMMA RestParts ==
  ASSUME TypeOK, NEW d \in 0..Len(input), UNCHANGED wire,
         input' \in Seq(UnitsSent), Len(input') = Len(input) - d,
         \A i \in 1..Len(input') : input'[i] = input[d + i]
  PROVE  /\ Rest \in Seq(UnitsSent) /\ Rest' \in Seq(UnitsSent)
         /\ d \in 0..Len(Rest) /\ Len(Rest') = Len(Rest) - d
         /\ \A i \in 1..Len(Rest') : Rest'[i] = Rest[d + i]
         /\ \A i \in 1..Len(input) : Rest[i] = input[i]
<1>1. input \in Seq(UnitsSent) /\ wire \in Seq(UnitsSent)
  BY DEF TypeOK
<1>2. /\ Rest \in Seq(UnitsSent) /\ Len(Rest) = Len(input) + Len(wire)
      /\ \A i \in 1..Len(input) + Len(wire) :
           Rest[i] = IF i <= Len(input) THEN input[i] ELSE wire[i - Len(input)]
  BY <1>1, ConcatProperties DEF Rest
<1>3. Rest' = input' \o wire
  BY DEF Rest
<1>4. /\ Rest' \in Seq(UnitsSent) /\ Len(Rest') = Len(input') + Len(wire)
      /\ \A i \in 1..Len(input') + Len(wire) :
           Rest'[i] = IF i <= Len(input') THEN input'[i] ELSE wire[i - Len(input')]
  BY <1>1, <1>3, ConcatProperties
<1>5. Len(input) \in Nat /\ Len(wire) \in Nat /\ Len(input') \in Nat
  BY <1>1
<1>6. \A i \in 1..Len(Rest') : Rest'[i] = Rest[d + i]
  <2> SUFFICES ASSUME NEW i \in 1..Len(Rest') PROVE Rest'[i] = Rest[d + i]
    OBVIOUS
  <2>1. i \in 1..Len(input') + Len(wire) /\ d + i \in 1..Len(input) + Len(wire)
    BY <1>4, <1>5
  <2>2. CASE i <= Len(input')
    <3>1. i \in 1..Len(input') /\ d + i <= Len(input)
      BY <1>5, <2>1, <2>2
    <3>2. Rest'[i] = input'[i] /\ Rest[d + i] = input[d + i]
      BY <1>2, <1>4, <2>1, <2>2, <3>1, ZenonT(40)
    <3> QED
      BY <3>1, <3>2
  <2>3. CASE i > Len(input')
    <3>1. (d + i) - Len(input) = i - Len(input') /\ ~(d + i <= Len(input)) /\ ~(i <= Len(input'))
      BY <1>5, <2>3
    <3> QED
      BY <1>2, <1>4, <2>1, <3>1
  <2> QED
    BY <1>5, <2>2, <2>3
<1>7. d \in 0..Len(Rest) /\ Len(Rest') = Len(Rest) - d
  BY <1>2, <1>4, <1>5, SMTT(30)
<1>8. \A i \in 1..Len(input) : Rest[i] = input[i]
  BY <1>2, <1>5
<1> QED
  BY <1>2, <1>4, <1>6, <1>7, <1>8

(***************************************************************************)
(* The stream may be cut anywhere.                                         *)
(***************************************************************************)
LEMMA CutAnywhere ==
  ASSUME NEW s \in Seq(UnitsSent), NEW t \in Seq(UnitsSent), NEW u \in Seq(UnitsSent)
  PROVE  (s \o t) \o u = s \o (t \o u)
  OBVIOUS

(***************************************************************************)
(* What the peer writes is added to the stream; what TCP delivers is in it *)
(* already.                                                                *)
(***************************************************************************)
LEMMA RestPeer ==
  ASSUME TypeOK, NEW f \in Answers \union Frames, PeerWrites(f)
  PROVE  Rest \in Seq(UnitsSent) /\ Rest' = Rest \o Units(Len(sent) + 1, f)
<1> DEFINE u == Units(Len(sent) + 1, f)
<1>1. input \in Seq(UnitsSent) /\ wire \in Seq(UnitsSent) /\ Len(sent) + 1 \in Nat
  BY DEF TypeOK
<1>2. u \in Seq(UnitsSent)
  BY <1>1, UnitsType
<1>3. wire' = wire \o u /\ input' = input
  BY DEF PeerWrites, buffers
<1> HIDE DEF u
<1>4. Rest' = input \o (wire \o u)
  BY <1>3 DEF Rest
<1>5. (input \o wire) \o u = input \o (wire \o u)
  BY <1>1, <1>2, CutAnywhere
<1>6. input \o wire \in Seq(UnitsSent)
  BY <1>1, ConcatProperties
<1> QED
  BY <1>4, <1>5, <1>6 DEF Rest, u

LEMMA RestArrive ==
  ASSUME TypeOK, NEW k \in 1..Len(wire), Arrive(k)
  PROVE  Rest' = Rest
<1>1. input \in Seq(UnitsSent) /\ wire \in Seq(UnitsSent) /\ Len(wire) \in Nat
  BY DEF TypeOK
<1>2. SubSeq(wire, 1, k) \in Seq(UnitsSent) /\ SubSeq(wire, k + 1, Len(wire)) \in Seq(UnitsSent)
  BY <1>1, PartType
<1>3. SubSeq(wire, 1, k) \o SubSeq(wire, k + 1, Len(wire)) = wire
  <2>1. SubSeq(wire, 1, k) \o SubSeq(wire, k + 1, Len(wire)) = SubSeq(wire, 1, Len(wire))
    BY <1>1, ConcatAdjacentSubSeq
  <2> QED
    BY <1>1, <2>1, SubSeqFull
<1>4. Rest' = (input \o SubSeq(wire, 1, k)) \o SubSeq(wire, k + 1, Len(wire))
  BY DEF Arrive, Rest
<1>5. (input \o SubSeq(wire, 1, k)) \o SubSeq(wire, k + 1, Len(wire))
        = input \o (SubSeq(wire, 1, k) \o SubSeq(wire, k + 1, Len(wire)))
  BY <1>1, <1>2, CutAnywhere
<1> QED
  BY <1>3, <1>4, <1>5 DEF Rest

(***************************************************************************)
(* The first unit of the input is that of the stream.                      *)
(***************************************************************************)
LEMMA RestHead ==
  ASSUME TypeOK, input # <<>>
  PROVE  Len(Rest) \in Nat \ {0} /\ Rest[1] = input[1] /\ Len(input) <= Len(Rest) /\ Len(input) \in Nat \ {0}
<1>1. input \in Seq(UnitsSent) /\ wire \in Seq(UnitsSent) /\ Len(input) \in Nat \ {0} /\ Len(wire) \in Nat
  BY EmptySeq DEF TypeOK
<1> QED
  BY <1>1, ConcatProperties DEF Rest

-----------------------------------------------------------------------------
(* No payload is lost.                                                     *)

(***************************************************************************)
(* The payload in a sequence of units is in the order of the stream.       *)
(***************************************************************************)
InOrder(s) ==
  \A i, j \in 1..Len(s) : i < j /\ s[i].op = "byte" /\ s[j].op = "byte" => Precedes(s[i], s[j])

(***************************************************************************)
(* A part r of the stream in which the frames were written: a header comes *)
(* with the payload of its frame, and what follows that is no payload.     *)
(***************************************************************************)
Intact(r, frames) ==
  /\ InOrder(r)
  /\ \A j \in 1..Len(r) :
       /\ r[j].id \in 1..Len(frames)
       /\ r[j].op = "byte" => r[j].fin = FALSE /\ r[j].len \in 1..frames[r[j].id].len
       /\ r[j].op # "byte" =>
            /\ r[j].op = frames[r[j].id].op /\ r[j].fin = frames[r[j].id].fin
            /\ \A k \in (j + 1)..(j + r[j].len) :
                 k \in 1..Len(r) /\ r[k].op = "byte" /\ r[k].id = r[j].id
            /\ Starts(r, j + r[j].len)

(***************************************************************************)
(* What was written as data, W, is heard, H, or in the body b, or in the   *)
(* rest r of the stream, in this order.                                    *)
(***************************************************************************)
NothingLost(W, H, b, r) ==
  /\ W \subseteq H \union Range(b) \union Range(r)
  /\ Precede(H, (Range(b) \union Range(r)) \intersect W)

(***************************************************************************)
(* The body is data, in order, and before the rest.                        *)
(***************************************************************************)
InBody(W, b, r) ==
  /\ Range(b) \subseteq W
  /\ InOrder(b)
  /\ Precede(Range(b), Range(r) \intersect W)

(***************************************************************************)
(* What onReading does next depends on the type and the length of the      *)
(* body: it completes a ping, or a part of a message, or reads a header.   *)
(***************************************************************************)
BodyOpen(type, len) == type # "none" /\ len > 0

InPing(W, b, type, len, r) ==
  /\ BodyOpen(type, len)
  /\ type = "ping"
  /\ len - Len(b) \in 0..Len(r)
  /\ Starts(r, len - Len(b))
  /\ Range(b) \intersect W = {}
  /\ \A i \in 1..(len - Len(b)) : r[i] \notin W

InMessagePart(W, b, type, len, r) ==
  /\ BodyOpen(type, len)
  /\ type # "ping"
  /\ InBody(W, b, r)
  /\ len - Len(b) \in 0..Len(r)
  /\ \A i \in 1..(len - Len(b)) : r[i] \in W

AtHeader(W, b, type, len, r) ==
  /\ ~BodyOpen(type, len)
  /\ InBody(W, b, r)
  /\ Starts(r, 0)
  /\ type = "ping" => b # <<>>

(***************************************************************************)
(* Or it is about to lose its place: the body is longer than its frame,    *)
(* and never completed; payload is where a header should be, and the next  *)
(* header is misread; or it will be when a body is dropped as a ping.      *)
(***************************************************************************)
Stuck(b, type, len) == BodyOpen(type, len) /\ Len(b) > len

Astray(type, len, r) == ~BodyOpen(type, len) /\ r # <<>> /\ r[1].op = "byte"

Dropped(b, type, len, r) ==
  /\ BodyOpen(type, len)
  /\ type = "ping"
  /\ len - Len(b) \in 0..(Len(r) - 1)
  /\ r[len - Len(b) + 1].op = "byte"

Place(W, H, b, type, len, r) ==
  \/ Stuck(b, type, len)
  \/ Astray(type, len, r)
  \/ Dropped(b, type, len, r)
  \/ /\ NothingLost(W, H, b, r)
     /\ \/ InPing(W, b, type, len, r)
        \/ InMessagePart(W, b, type, len, r)
        \/ AtHeader(W, b, type, len, r)

InPlace ==
  /\ pc = "reading" => bev
  /\ (bev \/ pc = "new") /\ state # "Closed" =>
       /\ Intact(Rest, sent)
       /\ \A u \in Range(body) : u.id \in 1..Len(sent)
       /\ state # "Opened" => bodyType = "none"
       /\ Place(PayloadWritten(sent), PayloadHeard(heard), body, bodyType, bodyLength, Rest)

(***************************************************************************)
(* What the calls have delivered is a prefix of W.                         *)
(***************************************************************************)
HeardPrefix(calls, W) ==
  /\ \A i \in DOMAIN calls : \A j, k \in DOMAIN calls[i].data :
       j < k => Precedes(calls[i].data[j], calls[i].data[k])
  /\ \A i, j \in DOMAIN calls : i < j => Precede(Range(calls[i].data), Range(calls[j].data))
  /\ PayloadHeard(calls) \subseteq W
  /\ \A u \in W \ PayloadHeard(calls), v \in PayloadHeard(calls) : ~Precedes(u, v)

(***************************************************************************)
(* The stream r is m units, then a, then t.                                *)
(***************************************************************************)
Cut(r, m, a, t) ==
  /\ Len(r) = m + Len(a) + Len(t)
  /\ \A i \in 1..Len(a) : a[i] = r[m + i]
  /\ \A i \in 1..Len(t) : t[i] = r[m + Len(a) + i]

(***************************************************************************)
(* The elements of a concatenation, and of a sequence that is cut.         *)
(***************************************************************************)
LEMMA RangeConcat ==
  ASSUME NEW S, NEW s \in Seq(S), NEW t \in Seq(S)
  PROVE  Range(s \o t) = Range(s) \union Range(t)
<1>1. /\ Len(s) \in Nat /\ Len(t) \in Nat /\ s \o t \in Seq(S) /\ Len(s \o t) = Len(s) + Len(t)
      /\ \A i \in 1..Len(s) + Len(t) : (s \o t)[i] = IF i <= Len(s) THEN s[i] ELSE t[i - Len(s)]
  BY ConcatProperties
<1> DEFINE q == s \o t
<1>2. DOMAIN q = 1..Len(s) + Len(t) /\ DOMAIN s = 1..Len(s) /\ DOMAIN t = 1..Len(t)
  BY <1>1
<1>3. \A i \in 1..Len(s) + Len(t) : q[i] = IF i <= Len(s) THEN s[i] ELSE t[i - Len(s)]
  BY <1>1
<1> HIDE DEF q
<1>4. ASSUME NEW u \in Range(q) PROVE u \in Range(s) \union Range(t)
  <2>1. PICK i \in 1..Len(s) + Len(t) : u = q[i]
    BY <1>2, <1>4 DEF Range
  <2>2. CASE i <= Len(s)
    BY <1>1, <1>2, <1>3, <2>1, <2>2 DEF Range
  <2>3. CASE i > Len(s)
    <3>1. i - Len(s) \in 1..Len(t) /\ u = t[i - Len(s)]
      BY <1>1, <1>3, <2>1, <2>3
    <3> QED
      BY <1>2, <3>1 DEF Range
  <2> QED
    BY <1>1, <2>2, <2>3
<1>5. ASSUME NEW u \in Range(s) PROVE u \in Range(q)
  <2>1. PICK i \in 1..Len(s) : u = s[i]
    BY <1>2, <1>5 DEF Range
  <2>2. i \in DOMAIN q /\ q[i] = s[i]
    BY <1>1, <1>2, <1>3
  <2> QED
    BY <2>1, <2>2 DEF Range
<1>6. ASSUME NEW u \in Range(t) PROVE u \in Range(q)
  <2>1. PICK i \in 1..Len(t) : u = t[i]
    BY <1>2, <1>6 DEF Range
  <2>2. Len(s) + i \in DOMAIN q /\ q[Len(s) + i] = t[i]
    BY <1>1, <1>2, <1>3
  <2> QED
    BY <2>1, <2>2 DEF Range
<1> QED
  BY <1>4, <1>5, <1>6 DEF q

LEMMA PartRange ==
  ASSUME NEW r \in Seq(UnitsSent), NEW a \in Seq(UnitsSent), NEW d \in 0..Len(r), NEW m \in 0..d,
         Len(a) = d - m, \A i \in 1..Len(a) : a[i] = r[m + i]
  PROVE  \A u : u \in Range(a) <=> \E i \in (m + 1)..d : u = r[i]
<1>1. Len(r) \in Nat /\ Len(a) \in Nat /\ DOMAIN a = 1..Len(a)
  OBVIOUS
<1>2. ASSUME NEW u \in Range(a) PROVE \E i \in (m + 1)..d : u = r[i]
  <2>1. PICK i \in 1..Len(a) : u = a[i]
    BY <1>1, <1>2 DEF Range
  <2>2. m + i \in (m + 1)..d /\ u = r[m + i]
    BY <1>1, <2>1
  <2> QED
    BY <2>2
<1>3. ASSUME NEW i \in (m + 1)..d PROVE r[i] \in Range(a)
  <2>1. i - m \in 1..Len(a) /\ m + (i - m) = i
    BY <1>1
  <2>2. a[i - m] = r[i]
    BY <2>1
  <2> QED
    BY <1>1, <2>1, <2>2 DEF Range
<1> QED
  BY <1>2, <1>3

LEMMA CutRange ==
  ASSUME NEW r \in Seq(UnitsSent), NEW a \in Seq(UnitsSent), NEW t \in Seq(UnitsSent),
         NEW m \in Nat, Cut(r, m, a, t)
  PROVE  /\ Range(a) \subseteq Range(r) /\ Range(t) \subseteq Range(r)
         /\ \A u \in Range(r) : u \in Range(a) \union Range(t) \/ \E i \in 1..m : u = r[i]
         /\ \A u \in Range(a) : \E i \in (m + 1)..(m + Len(a)) : u = r[i]
         /\ InOrder(r) => /\ InOrder(a)
                          /\ \A u \in Range(a), v \in Range(t) :
                               u.op = "byte" /\ v.op = "byte" => Precedes(u, v)
<1>0. PICK d \in Nat : d = m + Len(a)
  OBVIOUS
<1>1. /\ Len(r) \in Nat /\ Len(a) \in Nat /\ Len(t) \in Nat
      /\ DOMAIN r = 1..Len(r) /\ DOMAIN a = 1..Len(a) /\ DOMAIN t = 1..Len(t)
      /\ d \in 0..Len(r) /\ m \in 0..d
      /\ Len(a) = d - m /\ \A i \in 1..Len(a) : a[i] = r[m + i]
      /\ Len(t) = Len(r) - d /\ \A i \in 1..Len(t) : t[i] = r[d + i]
  <2>1. /\ Len(r) = m + Len(a) + Len(t)
        /\ \A i \in 1..Len(a) : a[i] = r[m + i]
        /\ \A i \in 1..Len(t) : t[i] = r[m + Len(a) + i]
    BY DEF Cut
  <2>2. \A i \in 1..Len(t) : t[i] = r[d + i]
    BY <1>0, <2>1
  <2>3. /\ Len(r) \in Nat /\ Len(a) \in Nat /\ Len(t) \in Nat
        /\ DOMAIN r = 1..Len(r) /\ DOMAIN a = 1..Len(a) /\ DOMAIN t = 1..Len(t)
    OBVIOUS
  <2>4. d \in 0..Len(r) /\ m \in 0..d /\ Len(a) = d - m /\ Len(t) = Len(r) - d
    BY <1>0, <2>1, <2>3
  <2> QED
    BY <2>1, <2>2, <2>3, <2>4
<1>2. \A u : u \in Range(a) <=> \E i \in (m + 1)..d : u = r[i]
  BY <1>1, PartRange
<1>3. \A u : u \in Range(t) <=> \E i \in (d + 1)..Len(r) : u = r[i]
  <2>1. Len(r) \in 0..Len(r) /\ d \in 0..Len(r)
    BY <1>1
  <2> QED
    BY <1>1, <2>1, PartRange
<1>4. \A u : u \in Range(r) <=> \E i \in 1..Len(r) : u = r[i]
  BY <1>1 DEF Range
<1>5. 1..Len(r) = (1..m) \union ((m + 1)..d) \union ((d + 1)..Len(r))
  BY <1>1
<1>6. /\ Range(a) \subseteq Range(r) /\ Range(t) \subseteq Range(r)
      /\ \A u \in Range(r) : u \in Range(a) \union Range(t) \/ \E i \in 1..m : u = r[i]
  BY <1>2, <1>3, <1>4, <1>5
<1>7. ASSUME InOrder(r) PROVE InOrder(a)
  <2> SUFFICES ASSUME NEW i \in 1..Len(a), NEW j \in 1..Len(a), i < j, a[i].op = "byte", a[j].op = "byte"
               PROVE  Precedes(a[i], a[j])
    BY DEF InOrder
  <2>1. m + i \in 1..Len(r) /\ m + j \in 1..Len(r) /\ m + i < m + j /\ a[i] = r[m + i] /\ a[j] = r[m + j]
    BY <1>1, SMTT(30)
  <2> QED
    BY <1>7, <2>1 DEF InOrder
<1>8. ASSUME InOrder(r), NEW u \in Range(a), NEW v \in Range(t), u.op = "byte", v.op = "byte"
      PROVE  Precedes(u, v)
  <2>1. PICK i \in (m + 1)..d : u = r[i]
    BY <1>2, <1>8
  <2>2. PICK j \in (d + 1)..Len(r) : v = r[j]
    BY <1>3, <1>8
  <2>3. i \in 1..Len(r) /\ j \in 1..Len(r) /\ i < j
    BY <1>1
  <2> QED
    BY <1>8, <2>1, <2>2, <2>3 DEF InOrder
<1> QED
  BY <1>0, <1>2, <1>6, <1>7, <1>8

(***************************************************************************)
(* What the units of a frame are.                                          *)
(***************************************************************************)
LEMMA UnitsContent ==
  ASSUME NEW f \in Answers \union Frames, NEW n \in Nat
  PROVE  /\ f.len \in Nat
         /\ f.op # "byte"
         /\ DOMAIN Payload(n, f) = 1..f.len
         /\ \A k \in 1..f.len :
              Payload(n, f)[k] = [op |-> "byte", id |-> n, fin |-> FALSE, len |-> k]
         /\ Units(n, f) \in Seq(UnitsSent)
         /\ Len(Units(n, f)) = f.len + 1
         /\ Units(n, f)[1] = [op |-> f.op, id |-> n, fin |-> f.fin, len |-> f.len]
         /\ \A k \in 1..f.len :
              Units(n, f)[k + 1] = [op |-> "byte", id |-> n, fin |-> FALSE, len |-> k]
<1>1. /\ f.len \in Nat
      /\ Payload(n, f) \in Seq(UnitsSent)
      /\ Len(Payload(n, f)) = f.len
      /\ Units(n, f) \in Seq(UnitsSent)
      /\ Len(Units(n, f)) = f.len + 1
  BY UnitsType
<1>2. f.op # "byte" /\ f.op \in Opcodes \union {"101", "refused"} /\ f.fin \in BOOLEAN
  <2>1. CASE f \in Frames
    BY <2>1, FramesAssumption DEF Opcodes
  <2>2. CASE f \in Answers
    <3>1. PICK a \in {"101", "refused"} : f = [op |-> a, fin |-> TRUE, len |-> 0]
      BY <2>2 DEF Answers
    <3> QED
      BY <3>1
  <2> QED
    BY <2>1, <2>2
<1>3. DOMAIN Payload(n, f) = 1..f.len
  BY DEF Payload
<1>4. \A k \in 1..f.len : Payload(n, f)[k] = [op |-> "byte", id |-> n, fin |-> FALSE, len |-> k]
  BY DEF Payload
<1> DEFINE h == [op |-> f.op, id |-> n, fin |-> f.fin, len |-> f.len]
           u == Units(n, f)
<1>5. h \in UnitsSent
  BY <1>1, <1>2 DEF UnitsSent
<1>6. u = <<h>> \o Payload(n, f)
  BY DEF Units
<1> HIDE DEF h, u
<1>7. <<h>> \in Seq(UnitsSent) /\ Len(<<h>>) = 1 /\ <<h>>[1] = h
  BY <1>5
<1>8. \A k \in 1..(1 + f.len) : u[k] = IF k <= 1 THEN <<h>>[k] ELSE Payload(n, f)[k - 1]
  BY <1>1, <1>6, <1>7, ConcatProperties
<1>9. u[1] = h
  BY <1>1, <1>7, <1>8
<1>10. ASSUME NEW k \in 1..f.len
       PROVE  u[k + 1] = Payload(n, f)[k]
  <2>1. k + 1 \in 1..(1 + f.len) /\ ~(k + 1 <= 1) /\ (k + 1) - 1 = k
    BY <1>1
  <2> QED
    BY <1>8, <2>1
<1> QED
  BY <1>1, <1>2, <1>3, <1>4, <1>9, <1>10 DEF u, h

(***************************************************************************)
(* Which units are data that was written.                                  *)
(***************************************************************************)
LEMMA WrittenAt ==
  ASSUME NEW frames \in Seq(Answers \union Frames), NEW u
  PROVE  u \in PayloadWritten(frames) <=>
           /\ u \in UnitsSent /\ u.op = "byte" /\ u.fin = FALSE
           /\ u.id \in 1..Len(frames) /\ u.len \in 1..frames[u.id].len
           /\ IsData(frames[u.id])
<1>1. DOMAIN frames = 1..Len(frames) /\ Len(frames) \in Nat
  OBVIOUS
<1>2. ASSUME NEW i \in 1..Len(frames)
      PROVE  /\ i \in Nat
             /\ frames[i].len \in Nat
             /\ DOMAIN Payload(i, frames[i]) = 1..frames[i].len
             /\ \A k \in 1..frames[i].len :
                  Payload(i, frames[i])[k] = [op |-> "byte", id |-> i, fin |-> FALSE, len |-> k]
  <2>1. frames[i] \in Answers \union Frames /\ i \in Nat
    BY <1>1, ElementOfSeq
  <2> QED
    BY <2>1, UnitsContent, ZenonT(40)
<1>3. ASSUME u \in PayloadWritten(frames)
      PROVE  /\ u \in UnitsSent /\ u.op = "byte" /\ u.fin = FALSE
             /\ u.id \in 1..Len(frames) /\ u.len \in 1..frames[u.id].len
             /\ IsData(frames[u.id])
  <2>1. PICK i \in DOMAIN frames : IsData(frames[i]) /\ u \in Range(Payload(i, frames[i]))
    BY <1>3 DEF PayloadWritten
  <2>2. i \in 1..Len(frames)
    BY <1>1
  <2>3. PICK k \in 1..frames[i].len : u = Payload(i, frames[i])[k]
    BY <1>2, <2>1, <2>2 DEF Range
  <2>4. u = [op |-> "byte", id |-> i, fin |-> FALSE, len |-> k]
    BY <1>2, <2>2, <2>3
  <2>5. k \in Nat /\ i \in Nat
    BY <1>2, <2>2
  <2>6. u \in UnitsSent
    BY <2>4, <2>5 DEF UnitsSent
  <2> QED
    BY <2>1, <2>2, <2>4, <2>6
<1>4. ASSUME u \in UnitsSent, u.op = "byte", u.fin = FALSE,
             u.id \in 1..Len(frames), u.len \in 1..frames[u.id].len, IsData(frames[u.id])
      PROVE  u \in PayloadWritten(frames)
  <2>1. u = [op |-> "byte", id |-> u.id, fin |-> FALSE, len |-> u.len]
    BY <1>4 DEF UnitsSent
  <2>2. u = Payload(u.id, frames[u.id])[u.len] /\ u.len \in DOMAIN Payload(u.id, frames[u.id])
    BY <1>2, <1>4, <2>1
  <2>3. u \in Range(Payload(u.id, frames[u.id]))
    BY <2>2 DEF Range
  <2>4. u.id \in {n \in DOMAIN frames : IsData(frames[n])}
    BY <1>1, <1>4
  <2> QED
    BY <2>3, <2>4 DEF PayloadWritten
<1> QED
  BY <1>3, <1>4

(***************************************************************************)
(* One more frame adds its own payload at most.                            *)
(***************************************************************************)
LEMMA WrittenGrows ==
  ASSUME NEW frames \in Seq(Answers \union Frames), NEW f \in Answers \union Frames
  PROVE  /\ PayloadWritten(frames) \subseteq PayloadWritten(Append(frames, f))
         /\ \A u \in PayloadWritten(frames) : u.id \in 1..Len(frames) /\ u.op = "byte"
         /\ \A u \in PayloadWritten(Append(frames, f)) :
              u \in PayloadWritten(frames)
                \/ (u.id = Len(frames) + 1 /\ u \in Range(Units(Len(frames) + 1, f)))
         /\ \A u \in PayloadWritten(Append(frames, f)) :
              u.id \in 1..Len(frames) => u \in PayloadWritten(frames)
<1> DEFINE n == Len(frames)
           g == Append(frames, f)
<1>1. /\ n \in Nat /\ g \in Seq(Answers \union Frames) /\ Len(g) = n + 1
      /\ \A i \in 1..n : g[i] = frames[i]
      /\ g[n + 1] = f
  OBVIOUS
<1> HIDE DEF g
<1>2. \A u : u \in PayloadWritten(frames) <=>
           /\ u \in UnitsSent /\ u.op = "byte" /\ u.fin = FALSE
           /\ u.id \in 1..n /\ u.len \in 1..frames[u.id].len
           /\ IsData(frames[u.id])
  BY WrittenAt
<1>3. \A u : u \in PayloadWritten(g) <=>
           /\ u \in UnitsSent /\ u.op = "byte" /\ u.fin = FALSE
           /\ u.id \in 1..(n + 1) /\ u.len \in 1..g[u.id].len
           /\ IsData(g[u.id])
  BY <1>1, WrittenAt
<1> HIDE DEF n
<1>4. ASSUME NEW u \in PayloadWritten(frames)
      PROVE  u \in PayloadWritten(g) /\ u.id \in 1..n /\ u.op = "byte"
  <2>1. u.id \in 1..n /\ u.id \in 1..(n + 1) /\ g[u.id] = frames[u.id]
    BY <1>1, <1>2
  <2> QED
    BY <1>2, <1>3, <2>1
<1>5. ASSUME NEW u \in PayloadWritten(g), u.id \in 1..n
      PROVE  u \in PayloadWritten(frames)
  <2>1. g[u.id] = frames[u.id]
    BY <1>1, <1>5
  <2> QED
    BY <1>2, <1>3, <1>5, <2>1
<1>6. ASSUME NEW u \in PayloadWritten(g), u.id \notin 1..n
      PROVE  u.id = n + 1 /\ u \in Range(Units(n + 1, f))
  <2>1. u.id = n + 1
    BY <1>1, <1>3, <1>6
  <2>2. u \in UnitsSent /\ u.op = "byte" /\ u.fin = FALSE /\ u.len \in 1..f.len
    BY <1>1, <1>3, <2>1
  <2>3. u = [op |-> "byte", id |-> n + 1, fin |-> FALSE, len |-> u.len]
    BY <2>1, <2>2 DEF UnitsSent
  <2>4. /\ f.len \in Nat /\ Units(n + 1, f) \in Seq(UnitsSent) /\ Len(Units(n + 1, f)) = f.len + 1
        /\ \A k \in 1..f.len :
             Units(n + 1, f)[k + 1] = [op |-> "byte", id |-> n + 1, fin |-> FALSE, len |-> k]
    <3>1. n + 1 \in Nat
      BY <1>1
    <3> QED
      BY <3>1, UnitsContent, ZenonT(40)
  <2>5. u.len + 1 \in 1..Len(Units(n + 1, f)) /\ u = Units(n + 1, f)[u.len + 1]
    BY <2>2, <2>3, <2>4
  <2>6. u.len + 1 \in DOMAIN Units(n + 1, f)
    BY <2>4, <2>5
  <2> QED
    BY <2>1, <2>5, <2>6 DEF Range
<1> QED
  BY <1>4, <1>5, <1>6 DEF n, g

(***************************************************************************)
(* A part of the stream that loses its first units is intact.              *)
(***************************************************************************)
LEMMA IntactShift ==
  ASSUME NEW frames, NEW r \in Seq(UnitsSent), NEW t \in Seq(UnitsSent), NEW d \in 0..Len(r),
         Len(t) = Len(r) - d, \A i \in 1..Len(t) : t[i] = r[d + i],
         Intact(r, frames)
  PROVE  Intact(t, frames)
<1>1. Len(r) \in Nat /\ Len(t) \in Nat
  OBVIOUS
<1>2. \A j \in 1..Len(t) : d + j \in 1..Len(r) /\ t[j] = r[d + j]
  BY <1>1
<1>3. InOrder(t)
  <2> SUFFICES ASSUME NEW i \in 1..Len(t), NEW j \in 1..Len(t), i < j, t[i].op = "byte", t[j].op = "byte"
               PROVE  Precedes(t[i], t[j])
    BY DEF InOrder
  <2>1. d + i < d + j
    OBVIOUS
  <2> QED
    BY <1>2, <2>1 DEF Intact, InOrder
<1>4. ASSUME NEW j \in 1..Len(t)
      PROVE  /\ t[j].id \in 1..Len(frames)
             /\ t[j].op = "byte" => t[j].fin = FALSE /\ t[j].len \in 1..frames[t[j].id].len
             /\ t[j].op # "byte" => t[j].op = frames[t[j].id].op /\ t[j].fin = frames[t[j].id].fin
  <2>1. PICK e \in 1..Len(r) : e = d + j /\ t[j] = r[e]
    BY <1>2
  <2> QED
    BY <2>1 DEF Intact
<1>5. ASSUME NEW j \in 1..Len(t), t[j].op # "byte"
      PROVE  /\ \A k \in (j + 1)..(j + t[j].len) :
                  k \in 1..Len(t) /\ t[k].op = "byte" /\ t[k].id = t[j].id
             /\ Starts(t, j + t[j].len)
  <2>1. PICK n \in Nat : n = t[j].len
    BY UnitAt
  <2>2. /\ \A k \in (d + j + 1)..(d + j + n) :
             k \in 1..Len(r) /\ r[k].op = "byte" /\ r[k].id = t[j].id
        /\ Starts(r, d + j + n)
    <3>1. PICK e \in 1..Len(r) : e = d + j /\ t[j] = r[e]
      BY <1>2
    <3>2. /\ \A k \in (e + 1)..(e + r[e].len) :
               k \in 1..Len(r) /\ r[k].op = "byte" /\ r[k].id = r[e].id
          /\ Starts(r, e + r[e].len)
      BY <1>5, <3>1 DEF Intact
    <3> QED
      BY <2>1, <3>1, <3>2
  <2>3. ASSUME NEW k \in (j + 1)..(j + n)
        PROVE  k \in 1..Len(t) /\ t[k].op = "byte" /\ t[k].id = t[j].id
    <3>1. d + k \in (d + j + 1)..(d + j + n)
      BY <2>1
    <3>2. d + k \in 1..Len(r) /\ r[d + k].op = "byte" /\ r[d + k].id = t[j].id
      BY <2>2, <3>1
    <3>3. k \in 1..Len(t)
      BY <1>1, <3>2
    <3> QED
      BY <1>2, <3>2, <3>3
  <2>4. j + n \in Nat /\ d + (j + n) = d + j + n
    BY <2>1, SMTT(30)
  <2>5. Starts(r, d + (j + n))
    BY <2>2, <2>4
  <2>6. Starts(t, j + n)
    BY <2>4, <2>5, StartsShift
  <2> QED
    BY <2>1, <2>3, <2>6
<1> QED
  BY <1>3, <1>4, <1>5 DEF Intact

(***************************************************************************)
(* It is intact with another frame that is written.                        *)
(***************************************************************************)
LEMMA IntactAppend ==
  ASSUME NEW frames \in Seq(Answers \union Frames), NEW f \in Answers \union Frames,
         NEW r \in Seq(UnitsSent), Intact(r, frames)
  PROVE  Intact(r \o Units(Len(frames) + 1, f), Append(frames, f))
<1> DEFINE n == Len(frames)
           g == Append(frames, f)
           u == Units(n + 1, f)
           q == r \o u
<1>1. /\ n \in Nat /\ n + 1 \in Nat /\ Len(g) = n + 1
      /\ \A i \in 1..n : g[i] = frames[i]
      /\ g[n + 1] = f
  OBVIOUS
<1>0. PICK l \in Nat : l = f.len
  BY UnitsContent
<1>2. /\ u \in Seq(UnitsSent) /\ Len(u) = l + 1 /\ f.op # "byte"
      /\ u[1] = [op |-> f.op, id |-> n + 1, fin |-> f.fin, len |-> l]
      /\ \A k \in 1..l : u[k + 1] = [op |-> "byte", id |-> n + 1, fin |-> FALSE, len |-> k]
  BY <1>0, <1>1, UnitsContent, ZenonT(40)
<1> HIDE DEF g, u
<1>3. /\ Len(r) \in Nat
      /\ Len(q) = Len(r) + l + 1
      /\ \A j \in 1..(Len(r) + l + 1) : q[j] = IF j <= Len(r) THEN r[j] ELSE u[j - Len(r)]
  <2>1. /\ Len(q) = Len(r) + Len(u)
        /\ \A j \in 1..Len(r) + Len(u) : q[j] = IF j <= Len(r) THEN r[j] ELSE u[j - Len(r)]
    BY <1>2, ConcatProperties, ZenonT(40)
  <2>2. Len(r) \in Nat /\ Len(r) + Len(u) = Len(r) + l + 1
    BY <1>2
  <2> HIDE DEF q
  <2> QED
    BY <2>1, <2>2
<1>4. \A m \in Nat : Starts(r, m) => Starts(q, m)
  BY <1>2, StartsAppend
<1> HIDE DEF q
<1>5. \A j \in 1..Len(r) : j \in 1..Len(q) /\ q[j] = r[j] /\ r[j].id \in 1..n /\ r[j].len \in Nat
  BY <1>3, UnitAt DEF Intact
<1>6. Len(r) + 1 \in 1..Len(q) /\ q[Len(r) + 1] = u[1]
  BY <1>3
<1>7. \A j \in (Len(r) + 2)..Len(q) :
        /\ (j - Len(r)) - 1 \in 1..l
        /\ q[j].op = "byte" /\ q[j].id = n + 1 /\ q[j].fin = FALSE /\ q[j].len = (j - Len(r)) - 1
  <2> SUFFICES ASSUME NEW j \in (Len(r) + 2)..Len(q)
               PROVE  /\ (j - Len(r)) - 1 \in 1..l
                      /\ q[j].op = "byte" /\ q[j].id = n + 1 /\ q[j].fin = FALSE
                      /\ q[j].len = (j - Len(r)) - 1
    OBVIOUS
  <2> DEFINE k == (j - Len(r)) - 1
  <2>1. k \in 1..l /\ k + 1 = j - Len(r) /\ j \in 1..(Len(r) + l + 1) /\ ~(j <= Len(r))
    BY <1>3
  <2>2. q[j] = u[j - Len(r)]
    BY <1>3, <2>1
  <2> HIDE DEF k
  <2>3. q[j] = u[k + 1]
    BY <2>1, <2>2
  <2>4. q[j] = [op |-> "byte", id |-> n + 1, fin |-> FALSE, len |-> k]
    BY <1>2, <2>1, <2>3
  <2> QED
    BY <2>1, <2>4 DEF k
<1>8. \A j \in 1..Len(q) : j \in 1..Len(r) \/ j = Len(r) + 1 \/ j \in (Len(r) + 2)..Len(q)
  BY <1>3
<1>9. \A j \in 1..Len(q) : q[j].op = "byte" /\ j \notin 1..Len(r) => j \in (Len(r) + 2)..Len(q)
  BY <1>2, <1>6, <1>8
<1>10. InOrder(q)
  <2> SUFFICES ASSUME NEW i \in 1..Len(q), NEW j \in 1..Len(q), i < j, q[i].op = "byte", q[j].op = "byte"
               PROVE  Precedes(q[i], q[j])
    BY DEF InOrder
  <2>1. CASE j \in 1..Len(r)
    <3>1. i \in 1..Len(r)
      BY <1>3, <2>1
    <3> QED
      BY <1>5, <2>1, <3>1 DEF Intact, InOrder
  <2>2. CASE j \notin 1..Len(r) /\ i \in 1..Len(r)
    <3>1. q[j].id = n + 1
      BY <1>7, <1>9, <2>2
    <3>2. q[i].id \in 1..n
      BY <1>5, <2>2
    <3> QED
      BY <1>1, <3>1, <3>2 DEF Precedes
  <2>3. CASE j \notin 1..Len(r) /\ i \notin 1..Len(r)
    <3>1. q[j].id = n + 1 /\ q[j].len = (j - Len(r)) - 1
      BY <1>7, <1>9, <2>3
    <3>2. q[i].id = n + 1 /\ q[i].len = (i - Len(r)) - 1
      BY <1>7, <1>9, <2>3
    <3>3. (i - Len(r)) - 1 < (j - Len(r)) - 1
      BY <1>3
    <3> QED
      BY <3>1, <3>2, <3>3 DEF Precedes
  <2> QED
    BY <2>1, <2>2, <2>3
<1>11. ASSUME NEW j \in 1..Len(q)
       PROVE  /\ q[j].id \in 1..Len(g)
              /\ q[j].op = "byte" => q[j].fin = FALSE /\ q[j].len \in 1..g[q[j].id].len
              /\ q[j].op # "byte" => q[j].op = g[q[j].id].op /\ q[j].fin = g[q[j].id].fin
  <2>1. CASE j \in 1..Len(r)
    <3>1. q[j] = r[j] /\ r[j].id \in 1..n /\ r[j].id \in 1..Len(g) /\ g[r[j].id] = frames[r[j].id]
      BY <1>1, <1>5, <2>1
    <3> QED
      BY <2>1, <3>1 DEF Intact
  <2>2. CASE j = Len(r) + 1
    BY <1>1, <1>2, <1>6, <2>2
  <2>3. CASE j \in (Len(r) + 2)..Len(q)
    <3>1. /\ q[j].op = "byte" /\ q[j].id = n + 1 /\ q[j].fin = FALSE /\ q[j].len \in 1..l
      BY <1>7, <2>3
    <3>2. n + 1 \in 1..Len(g) /\ g[n + 1].len = l
      BY <1>0, <1>1
    <3> QED
      BY <3>1, <3>2
  <2> QED
    BY <1>8, <2>1, <2>2, <2>3
<1>12. ASSUME NEW j \in 1..Len(q), q[j].op # "byte"
       PROVE  /\ \A k \in (j + 1)..(j + q[j].len) :
                   k \in 1..Len(q) /\ q[k].op = "byte" /\ q[k].id = q[j].id
              /\ Starts(q, j + q[j].len)
  <2>1. CASE j \in 1..Len(r)
    <3>1. q[j] = r[j] /\ r[j].len \in Nat /\ j + r[j].len \in Nat
      BY <1>5, <2>1
    <3>2. /\ \A k \in (j + 1)..(j + r[j].len) :
               k \in 1..Len(r) /\ r[k].op = "byte" /\ r[k].id = r[j].id
          /\ Starts(r, j + r[j].len)
      BY <1>12, <2>1, <3>1 DEF Intact
    <3>3. Starts(q, j + r[j].len)
      BY <1>4, <3>1, <3>2
    <3> QED
      BY <1>5, <3>1, <3>2, <3>3
  <2>2. CASE j = Len(r) + 1
    <3>1. q[j].len = l /\ q[j].id = n + 1
      BY <1>2, <1>6, <2>2
    <3>2. ASSUME NEW k \in (j + 1)..(j + l)
          PROVE  k \in 1..Len(q) /\ q[k].op = "byte" /\ q[k].id = n + 1
      <4>1. k \in (Len(r) + 2)..Len(q) /\ k \in 1..Len(q)
        BY <1>3, <2>2
      <4> QED
        BY <1>7, <4>1
    <3>3. Starts(q, j + l)
      BY <1>3, <2>2 DEF Starts
    <3> QED
      BY <3>1, <3>2, <3>3
  <2> QED
    BY <1>7, <1>8, <1>12, <2>1, <2>2
<1>13. Len(g) = n + 1
  BY <1>1
<1> QED
  BY <1>10, <1>11, <1>12 DEF Intact, q, u, g

(***************************************************************************)
(* The frame whose header is next: its payload follows, and is data if the *)
(* frame is.                                                               *)
(***************************************************************************)
LEMMA HeadFrame ==
  ASSUME NEW frames \in Seq(Answers \union Frames), NEW r \in Seq(UnitsSent), Intact(r, frames),
         Len(r) > 0, r[1].op # "byte"
  PROVE  /\ r[1].len \in Nat
         /\ r[1] \notin PayloadWritten(frames)
         /\ \A k \in 2..(r[1].len + 1) :
              /\ k \in 1..Len(r) /\ r[k].op = "byte"
              /\ r[k] \in PayloadWritten(frames) <=> IsData(r[1])
         /\ r[1].len + 1 <= Len(r)
         /\ Starts(r, r[1].len + 1)
<1>1. Len(r) \in Nat /\ 1 \in 1..Len(r)
  OBVIOUS
<1>2. \A j \in 1..Len(r) : r[j] \in UnitsSent /\ r[j].len \in Nat
  BY UnitAt
<1> DEFINE m == r[1].id
<1>3. /\ m \in 1..Len(frames)
      /\ r[1].op = frames[m].op /\ r[1].fin = frames[m].fin
      /\ \A k \in 2..(r[1].len + 1) : k \in 1..Len(r) /\ r[k].op = "byte" /\ r[k].id = m
      /\ Starts(r, r[1].len + 1)
  <2>1. /\ m \in 1..Len(frames)
        /\ r[1].op = frames[m].op /\ r[1].fin = frames[m].fin
        /\ \A k \in (1 + 1)..(1 + r[1].len) : k \in 1..Len(r) /\ r[k].op = "byte" /\ r[k].id = m
        /\ Starts(r, 1 + r[1].len)
    BY <1>1 DEF Intact
  <2>2. 1 + 1 = 2 /\ 1 + r[1].len = r[1].len + 1
    BY <1>1, <1>2
  <2> QED
    BY <2>1, <2>2
<1>4. r[1] \notin PayloadWritten(frames)
  BY WrittenAt
<1>5. ASSUME NEW k \in 2..(r[1].len + 1)
      PROVE  r[k] \in PayloadWritten(frames) <=> IsData(r[1])
  <2>1. k \in 1..Len(r) /\ r[k].op = "byte" /\ r[k].id = m
    BY <1>3
  <2>2. r[k] \in UnitsSent /\ r[k].fin = FALSE /\ r[k].len \in 1..frames[m].len
    BY <1>2, <2>1 DEF Intact
  <2>3. r[k] \in PayloadWritten(frames) <=> IsData(frames[m])
    BY <1>3, <2>1, <2>2, WrittenAt
  <2> QED
    BY <1>3, <2>3 DEF IsData
<1>6. r[1].len + 1 <= Len(r)
  BY <1>3 DEF Starts
<1> QED
  BY <1>2, <1>3, <1>4, <1>5, <1>6

-----------------------------------------------------------------------------
(* What has been heard.                                                    *)

(***************************************************************************)
(* The payload of one more call.                                           *)
(***************************************************************************)
LEMMA HeardMore ==
  ASSUME NEW calls \in Seq(Calls), NEW call \in Calls
  PROVE  PayloadHeard(Append(calls, call)) = PayloadHeard(calls) \union Range(call.data)
<1> DEFINE g == Append(calls, call)
<1>1. /\ Len(calls) \in Nat /\ g \in Seq(Calls) /\ Len(g) = Len(calls) + 1
      /\ \A i \in 1..Len(calls) : g[i] = calls[i]
      /\ g[Len(calls) + 1] = call
      /\ DOMAIN calls = 1..Len(calls)
  OBVIOUS
<1> HIDE DEF g
<1>2. DOMAIN g = 1..(Len(calls) + 1)
  BY <1>1
<1>3. ASSUME NEW u \in PayloadHeard(g)
      PROVE  u \in PayloadHeard(calls) \union Range(call.data)
  <2>1. PICK i \in 1..(Len(calls) + 1) : u \in Range(g[i].data)
    BY <1>2 DEF PayloadHeard
  <2>2. CASE i \in 1..Len(calls)
    BY <1>1, <2>1, <2>2 DEF PayloadHeard
  <2>3. CASE i \notin 1..Len(calls)
    <3>1. i = Len(calls) + 1
      BY <1>1, <2>3
    <3> QED
      BY <1>1, <2>1, <3>1
  <2> QED
    BY <2>2, <2>3
<1>4. ASSUME NEW u \in PayloadHeard(calls)
      PROVE  u \in PayloadHeard(g)
  <2>1. PICK i \in 1..Len(calls) : u \in Range(calls[i].data)
    BY <1>1 DEF PayloadHeard
  <2>2. i \in 1..(Len(calls) + 1) /\ u \in Range(g[i].data)
    BY <1>1, <2>1
  <2> QED
    BY <1>2, <2>2 DEF PayloadHeard
<1>5. ASSUME NEW u \in Range(call.data)
      PROVE  u \in PayloadHeard(g)
  <2>1. Len(calls) + 1 \in 1..(Len(calls) + 1) /\ u \in Range(g[Len(calls) + 1].data)
    BY <1>1
  <2> QED
    BY <1>2, <2>1 DEF PayloadHeard
<1> QED
  BY <1>3, <1>4, <1>5 DEF g

(***************************************************************************)
(* A call that comes next, and leaves nothing out, extends the prefix.     *)
(***************************************************************************)
LEMMA PrefixExtends ==
  ASSUME NEW W, \A u \in W : u \in UnitsSent /\ u.op = "byte",
         NEW calls \in Seq(Calls), NEW call \in Calls, HeardPrefix(calls, W),
         Range(call.data) \subseteq W, InOrder(call.data),
         Precede(PayloadHeard(calls), Range(call.data)),
         \A u \in W, v \in Range(call.data) :
           Precedes(u, v) => u \in PayloadHeard(calls) \union Range(call.data)
  PROVE  HeardPrefix(Append(calls, call), W)
<1> DEFINE g == Append(calls, call)
           H == PayloadHeard(calls)
           n == Len(calls)
<1>1. /\ n \in Nat /\ g \in Seq(Calls) /\ Len(g) = n + 1
      /\ \A i \in 1..n : g[i] = calls[i]
      /\ g[n + 1] = call
      /\ DOMAIN calls = 1..n
  OBVIOUS
<1>2. PayloadHeard(g) = H \union Range(call.data)
  BY HeardMore
<1> HIDE DEF g, n
<1>3. DOMAIN g = 1..(n + 1)
  BY <1>1
<1>4. \A i \in 1..(n + 1) : (i \in 1..n /\ g[i] = calls[i]) \/ (i = n + 1 /\ g[i] = call)
  BY <1>1
<1>5. ASSUME NEW i \in DOMAIN g
      PROVE  \A j, k \in DOMAIN g[i].data : j < k => Precedes(g[i].data[j], g[i].data[k])
  <2>1. CASE i \in 1..n /\ g[i] = calls[i]
    BY <1>1, <2>1 DEF HeardPrefix
  <2>2. CASE g[i] = call
    <3>1. call.data \in Seq(UnitsSent)
      BY DEF Calls
    <3>2. DOMAIN call.data = 1..Len(call.data)
      BY <3>1
    <3>3. \A j \in 1..Len(call.data) : call.data[j].op = "byte"
      BY <3>2 DEF Range
    <3> QED
      BY <2>2, <3>2, <3>3 DEF InOrder
  <2> QED
    BY <1>3, <1>4, <2>1, <2>2
<1>6. ASSUME NEW i \in DOMAIN g, NEW j \in DOMAIN g, i < j
      PROVE  Precede(Range(g[i].data), Range(g[j].data))
  <2>1. i \in 1..n /\ g[i] = calls[i]
    BY <1>1, <1>3, <1>4, <1>6
  <2>2. CASE j \in 1..n /\ g[j] = calls[j]
    BY <1>1, <1>6, <2>1, <2>2 DEF HeardPrefix
  <2>3. CASE g[j] = call
    <3>1. Range(calls[i].data) \subseteq H
      BY <1>1, <2>1 DEF PayloadHeard
    <3> QED
      BY <2>1, <2>3, <3>1 DEF Precede
  <2> QED
    BY <1>3, <1>4, <2>2, <2>3
<1>7. PayloadHeard(g) \subseteq W
  BY <1>2 DEF HeardPrefix
<1>8. ASSUME NEW u \in W \ PayloadHeard(g), NEW v \in PayloadHeard(g)
      PROVE  ~Precedes(u, v)
  BY <1>2 DEF HeardPrefix
<1> QED
  BY <1>5, <1>6, <1>7, <1>8 DEF HeardPrefix, g

(***************************************************************************)
(* A call without payload does not touch the prefix, nor does a frame that *)
(* is written.                                                             *)
(***************************************************************************)
LEMMA PrefixEmptyCall ==
  ASSUME NEW W, \A u \in W : u \in UnitsSent /\ u.op = "byte",
         NEW calls \in Seq(Calls), NEW call \in Calls, HeardPrefix(calls, W), call.data = <<>>
  PROVE  /\ HeardPrefix(Append(calls, call), W)
         /\ PayloadHeard(Append(calls, call)) = PayloadHeard(calls)
<1>1. Range(call.data) = {} /\ InOrder(call.data)
  BY DEF Range, InOrder
<1>2. HeardPrefix(Append(calls, call), W)
  BY <1>1, PrefixExtends DEF Precede
<1> QED
  BY <1>1, <1>2, HeardMore

LEMMA PrefixWritten ==
  ASSUME NEW frames \in Seq(Answers \union Frames), NEW f \in Answers \union Frames,
         NEW calls, HeardPrefix(calls, PayloadWritten(frames))
  PROVE  HeardPrefix(calls, PayloadWritten(Append(frames, f)))
<1> DEFINE W == PayloadWritten(frames)
           V == PayloadWritten(Append(frames, f))
           n == Len(frames)
<1>1. /\ W \subseteq V /\ n \in Nat
      /\ \A u \in W : u.id \in 1..n
      /\ \A u \in V : u \in W \/ u.id = n + 1
  BY WrittenGrows
<1> HIDE DEF W, V, n
<1>2. ASSUME NEW u \in V \ PayloadHeard(calls), NEW v \in PayloadHeard(calls)
      PROVE  ~Precedes(u, v)
  <2>1. v \in W
    BY DEF HeardPrefix, W
  <2>2. CASE u \in W
    BY <2>2 DEF HeardPrefix, W
  <2>3. CASE u.id = n + 1
    BY <1>1, <2>1, <2>3 DEF Precedes
  <2> QED
    BY <1>1, <2>2, <2>3
<1> QED
  BY <1>1, <1>2 DEF HeardPrefix, W, V

-----------------------------------------------------------------------------
(* The place in the stream.                                                *)

LEMMA CutFacts ==
  ASSUME NEW frames, NEW r \in Seq(UnitsSent), NEW a \in Seq(UnitsSent), NEW t \in Seq(UnitsSent),
         NEW m \in Nat, Cut(r, m, a, t), Intact(r, frames)
  PROVE  /\ Range(a) \subseteq Range(r) /\ Range(t) \subseteq Range(r)
         /\ \A u \in Range(r) : u \in Range(a) \union Range(t) \/ \E i \in 1..m : u = r[i]
         /\ \A u \in Range(a) : \E i \in (m + 1)..(m + Len(a)) : u = r[i]
         /\ InOrder(a)
         /\ \A u \in Range(a), v \in Range(t) : u.op = "byte" /\ v.op = "byte" => Precedes(u, v)
         /\ Intact(t, frames)
         /\ \A k \in Nat : Starts(r, m + Len(a) + k) => Starts(t, k)
<1>1. InOrder(r)
  BY DEF Intact
<1>2. /\ Range(a) \subseteq Range(r) /\ Range(t) \subseteq Range(r)
      /\ \A u \in Range(r) : u \in Range(a) \union Range(t) \/ \E i \in 1..m : u = r[i]
      /\ \A u \in Range(a) : \E i \in (m + 1)..(m + Len(a)) : u = r[i]
      /\ InOrder(a)
      /\ \A u \in Range(a), v \in Range(t) : u.op = "byte" /\ v.op = "byte" => Precedes(u, v)
  BY <1>1, CutRange, SMTT(30)
<1>3. PICK d \in Nat : d = m + Len(a)
  OBVIOUS
<1>4. /\ Len(r) = d + Len(t) /\ Len(r) \in Nat /\ Len(t) \in Nat
      /\ \A i \in 1..Len(t) : t[i] = r[d + i]
  <2>1. /\ Len(r) = m + Len(a) + Len(t)
        /\ \A i \in 1..Len(t) : t[i] = r[m + Len(a) + i]
    BY DEF Cut
  <2> QED
    BY <1>3, <2>1
<1>5. d \in 0..Len(r) /\ Len(t) = Len(r) - d
  BY <1>4
<1>6. Intact(t, frames)
  BY <1>4, <1>5, IntactShift
<1>7. \A k \in Nat : Starts(r, d + k) => Starts(t, k)
  BY <1>4, <1>5, StartsShift
<1> QED
  BY <1>2, <1>3, <1>6, <1>7

(***************************************************************************)
(* Units move from the stream to the body, or others are dropped.          *)
(***************************************************************************)
LEMMA StillNothingLost ==
  ASSUME NEW W, NEW H, NEW b, NEW r, NEW c, NEW t, NothingLost(W, H, b, r),
         (Range(b) \union Range(r)) \intersect W \subseteq Range(c) \union Range(t),
         Range(c) \union Range(t) \subseteq Range(b) \union Range(r)
  PROVE  NothingLost(W, H, c, t)
BY DEF NothingLost, Precede

LEMMA BodyGrows ==
  ASSUME NEW W, \A u \in W : u \in UnitsSent /\ u.op = "byte",
         NEW b \in Seq(UnitsSent), NEW a \in Seq(UnitsSent), NEW r, NEW t,
         InBody(W, b, r), Range(a) \subseteq W, Range(a) \subseteq Range(r), Range(t) \subseteq Range(r),
         InOrder(a),
         \A u \in Range(a), v \in Range(t) : u.op = "byte" /\ v.op = "byte" => Precedes(u, v)
  PROVE  /\ b \o a \in Seq(UnitsSent)
         /\ Len(b \o a) = Len(b) + Len(a)
         /\ Range(b \o a) = Range(b) \union Range(a)
         /\ InBody(W, b \o a, t)
<1> DEFINE c == b \o a
<1>1. /\ Len(b) \in Nat /\ Len(a) \in Nat /\ c \in Seq(UnitsSent) /\ Len(c) = Len(b) + Len(a)
      /\ \A i \in 1..Len(b) + Len(a) : c[i] = IF i <= Len(b) THEN b[i] ELSE a[i - Len(b)]
      /\ DOMAIN a = 1..Len(a) /\ DOMAIN b = 1..Len(b)
  BY ConcatProperties
<1>2. Range(c) = Range(b) \union Range(a)
  BY RangeConcat
<1> HIDE DEF c
<1>3. \A i \in 1..Len(c) :
        \/ i <= Len(b) /\ i \in 1..Len(b) /\ c[i] = b[i]
        \/ i > Len(b) /\ i - Len(b) \in 1..Len(a) /\ c[i] = a[i - Len(b)]
  BY <1>1
<1>4. InOrder(c)
  <2> SUFFICES ASSUME NEW i \in 1..Len(c), NEW j \in 1..Len(c), i < j, c[i].op = "byte", c[j].op = "byte"
               PROVE  Precedes(c[i], c[j])
    BY DEF InOrder
  <2>1. CASE j <= Len(b)
    <3>1. i <= Len(b) /\ j \in 1..Len(b) /\ i \in 1..Len(b) /\ c[i] = b[i] /\ c[j] = b[j]
      BY <1>1, <1>3, <2>1
    <3> QED
      BY <3>1 DEF InBody, InOrder
  <2>2. CASE i <= Len(b) /\ j > Len(b)
    <3>1. i \in 1..Len(b) /\ c[i] = b[i] /\ j - Len(b) \in 1..Len(a) /\ c[j] = a[j - Len(b)]
      BY <1>1, <1>3, <2>2
    <3>2. c[i] \in Range(b) /\ c[j] \in Range(a)
      BY <1>1, <3>1 DEF Range
    <3> QED
      BY <3>2 DEF InBody, Precede
  <2>3. CASE i > Len(b)
    <3>1. /\ i - Len(b) \in 1..Len(a) /\ j - Len(b) \in 1..Len(a) /\ i - Len(b) < j - Len(b)
          /\ c[i] = a[i - Len(b)] /\ c[j] = a[j - Len(b)]
      BY <1>1, <1>3, <2>3
    <3> QED
      BY <3>1 DEF InOrder
  <2> QED
    BY <1>1, <2>1, <2>2, <2>3
<1>5. Range(c) \subseteq W
  BY <1>2 DEF InBody
<1>6. Precede(Range(c), Range(t) \intersect W)
  <2> SUFFICES ASSUME NEW u \in Range(c), NEW v \in Range(t) \intersect W
               PROVE  Precedes(u, v)
    BY DEF Precede
  <2>1. CASE u \in Range(b)
    BY <2>1 DEF InBody, Precede
  <2>2. CASE u \in Range(a)
    BY <2>2
  <2> QED
    BY <1>2, <2>1, <2>2
<1> QED
  BY <1>1, <1>2, <1>4, <1>5, <1>6 DEF InBody, c

(***************************************************************************)
(* After a body onReading is at a header, or astray.                       *)
(***************************************************************************)
LEMMA AfterBody ==
  ASSUME NEW W, NEW H, NEW t \in Seq(UnitsSent), Starts(t, 0) => NothingLost(W, H, <<>>, t)
  PROVE  Place(W, H, <<>>, "none", 0, t)
<1>1. Range(<<>>) = {} /\ Len(<<>>) = 0 /\ ~BodyOpen("none", 0) /\ Len(t) \in Nat
  BY DEF Range, BodyOpen
<1>2. CASE t # <<>> /\ t[1].op = "byte"
  BY <1>1, <1>2 DEF Place, Astray
<1>3. CASE t = <<>> \/ t[1].op # "byte"
  <2>1. Starts(t, 0)
    BY <1>1, <1>3 DEF Starts
  <2>2. InBody(W, <<>>, t)
    BY <1>1 DEF InBody, InOrder, Precede
  <2> QED
    BY <1>1, <2>1, <2>2 DEF Place, AtHeader
<1> QED
  BY <1>2, <1>3

(***************************************************************************)
(* The body is heard.                                                      *)
(***************************************************************************)
LEMMA Delivered ==
  ASSUME NEW W, \A u \in W : u \in UnitsSent /\ u.op = "byte",
         NEW calls \in Seq(Calls), NEW call \in Calls, HeardPrefix(calls, W),
         NEW b, NEW r, NEW t, NothingLost(W, PayloadHeard(calls), b, r),
         InBody(W, call.data, t),
         (Range(b) \union Range(r)) \intersect W \subseteq Range(call.data) \union Range(t),
         Range(call.data) \subseteq Range(b) \union Range(r), Range(t) \subseteq Range(r)
  PROVE  /\ HeardPrefix(Append(calls, call), W)
         /\ NothingLost(W, PayloadHeard(Append(calls, call)), <<>>, t)
<1> DEFINE H == PayloadHeard(calls)
<1>1. PayloadHeard(Append(calls, call)) = H \union Range(call.data)
  BY HeardMore
<1>2. Range(call.data) \subseteq W /\ InOrder(call.data)
  BY DEF InBody
<1>3. Precede(H, Range(call.data))
  BY <1>2 DEF NothingLost, Precede
<1>4. ASSUME NEW u \in W, NEW v \in Range(call.data), Precedes(u, v)
      PROVE  u \in H \union Range(call.data)
  <2>1. CASE u \in Range(t)
    <3>1. Precedes(v, u)
      BY <2>1 DEF InBody, Precede
    <3>2. u.id \in Nat /\ v.id \in Nat /\ u.len \in Nat /\ v.len \in Nat
      BY <1>2 DEF UnitsSent
    <3> QED
      BY <1>4, <3>1, <3>2 DEF Precedes
  <2> QED
    BY <2>1 DEF NothingLost
<1>5. HeardPrefix(Append(calls, call), W)
  BY <1>2, <1>3, <1>4, PrefixExtends
<1>6. Range(<<>>) = {}
  BY DEF Range
<1>7. W \subseteq H \union Range(call.data) \union Range(t)
  BY DEF NothingLost
<1>8. Precede(H \union Range(call.data), Range(t) \intersect W)
  BY DEF NothingLost, InBody, Precede
<1> QED
  BY <1>1, <1>5, <1>6, <1>7, <1>8 DEF NothingLost

LEMMA UnitsId ==
  ASSUME NEW f \in Answers \union Frames, NEW n \in Nat
  PROVE  \A x \in Range(Units(n, f)) : x.id = n
<1> DEFINE u == Units(n, f)
<1>0. PICK l \in Nat : l = f.len
  BY UnitsContent
<1>1. /\ u \in Seq(UnitsSent) /\ Len(u) = l + 1
      /\ u[1] = [op |-> f.op, id |-> n, fin |-> f.fin, len |-> l]
      /\ \A k \in 1..l : u[k + 1] = [op |-> "byte", id |-> n, fin |-> FALSE, len |-> k]
  BY <1>0, UnitsContent
<1> HIDE DEF u
<1>2. DOMAIN u = 1..(l + 1)
  BY <1>1
<1>3. ASSUME NEW k \in 1..(l + 1) PROVE u[k].id = n
  <2>1. CASE k = 1
    BY <1>1, <2>1
  <2>2. CASE k # 1
    <3>1. k - 1 \in 1..l /\ (k - 1) + 1 = k
      BY <2>2
    <3>2. u[(k - 1) + 1] = [op |-> "byte", id |-> n, fin |-> FALSE, len |-> k - 1]
      BY <1>1, <3>1
    <3>3. u[k] = [op |-> "byte", id |-> n, fin |-> FALSE, len |-> k - 1]
      BY <3>1, <3>2
    <3> QED
      BY <3>3
  <2> QED
    BY <2>1, <2>2
<1> QED
  BY <1>2, <1>3 DEF Range, u

(***************************************************************************)
(* Another frame is written.                                               *)
(***************************************************************************)
LEMMA PlacePeer ==
  ASSUME NEW frames \in Seq(Answers \union Frames), NEW f \in Answers \union Frames,
         NEW H, H \subseteq PayloadWritten(frames),
         NEW b \in Seq(UnitsSent), \A u \in Range(b) : u.id \in 1..Len(frames),
         NEW type, NEW len \in Nat, NEW r \in Seq(UnitsSent), Intact(r, frames),
         Place(PayloadWritten(frames), H, b, type, len, r)
  PROVE  Place(PayloadWritten(Append(frames, f)), H, b, type, len, r \o Units(Len(frames) + 1, f))
<1> DEFINE W == PayloadWritten(frames)
           V == PayloadWritten(Append(frames, f))
           n == Len(frames)
           u == Units(n + 1, f)
           q == r \o u
<1>1. /\ W \subseteq V
      /\ \A x \in W : x.id \in 1..n
      /\ \A x \in V : x \in W \/ (x.id = n + 1 /\ x \in Range(u))
      /\ \A x \in V : x.id \in 1..n => x \in W
  BY WrittenGrows
<1>2. n + 1 \in Nat /\ n \in Nat
  OBVIOUS
<1>3. u \in Seq(UnitsSent) /\ Len(u) > 0 /\ u[1].op # "byte"
  <2>0. PICK l \in Nat : l = f.len
    BY UnitsContent
  <2>1. /\ u \in Seq(UnitsSent) /\ Len(u) = l + 1 /\ f.op # "byte"
        /\ u[1] = [op |-> f.op, id |-> n + 1, fin |-> f.fin, len |-> l]
    BY <1>2, <2>0, UnitsContent
  <2> HIDE DEF u
  <2> QED
    BY <2>1
<1>4. /\ Len(r) \in Nat /\ Len(b) \in Nat /\ Len(u) \in Nat
      /\ q \in Seq(UnitsSent) /\ Len(q) = Len(r) + Len(u)
      /\ \A j \in 1..Len(r) + Len(u) : q[j] = IF j <= Len(r) THEN r[j] ELSE u[j - Len(r)]
  <2>1. u \in Seq(UnitsSent)
    BY <1>3
  <2> HIDE DEF u
  <2> QED
    BY <2>1, ConcatProperties
<1>5. \A j \in 1..Len(r) : q[j] = r[j] /\ r[j].id \in 1..n
  BY <1>4 DEF Intact
<1>6. Range(q) = Range(r) \union Range(u)
  BY <1>3, RangeConcat
<1>7. \A m \in Nat : Starts(r, m) => Starts(q, m)
  BY <1>3, StartsAppend
<1>8. \A x \in Range(r) : x.id \in 1..n
  <2> HIDE DEF W, V, n, u, q
  <2> SUFFICES ASSUME NEW j \in 1..Len(r) PROVE r[j].id \in 1..n
    BY DEF Range
  <2> QED
    BY <1>5
<1>9. \A x \in Range(u) : x.id = n + 1
  BY <1>2, UnitsId
<1> HIDE DEF W, V, n, u, q
<1>10. CASE Stuck(b, type, len)
  BY <1>10 DEF Place
<1>11. CASE Astray(type, len, r)
  <2>1. 1 \in 1..Len(r)
    BY <1>4, <1>11 DEF Astray
  <2>2. q[1].op = "byte" /\ q # <<>>
    BY <1>3, <1>4, <1>5, <1>11, <2>1 DEF Astray
  <2> QED
    BY <1>11, <2>2 DEF Astray, Place, n, q, u
<1>12. CASE Dropped(b, type, len, r)
  <2>1. len - Len(b) + 1 \in 1..Len(r) /\ len - Len(b) \in 0..(Len(q) - 1)
    BY <1>3, <1>4, <1>12, SMTT(30) DEF Dropped
  <2>2. q[len - Len(b) + 1].op = "byte"
    BY <1>5, <1>12, <2>1 DEF Dropped
  <2> QED
    BY <1>12, <2>1, <2>2 DEF Dropped, Place, n, q, u
<1>13. ASSUME NothingLost(W, H, b, r)
       PROVE  NothingLost(V, H, b, q)
  <2>1. V \subseteq H \union Range(b) \union Range(q)
    BY <1>1, <1>6, <1>13 DEF NothingLost
  <2>2. ASSUME NEW x \in H, NEW y \in (Range(b) \union Range(q)) \intersect V
        PROVE  Precedes(x, y)
    <3>1. x.id \in 1..n
      BY <1>1 DEF W
    <3>2. CASE y \in Range(b) \union Range(r)
      <4>1. y \in W
        BY <1>1, <1>8, <2>2, <3>2 DEF n
      <4> QED
        BY <1>13, <2>2, <3>2, <4>1 DEF NothingLost, Precede
    <3>3. CASE y \in Range(u)
      BY <1>9, <1>2, <3>1, <3>3 DEF Precedes
    <3> QED
      BY <1>6, <2>2, <3>2, <3>3
  <2> QED
    BY <2>1, <2>2 DEF NothingLost, Precede
<1>14. ASSUME InBody(W, b, r)
       PROVE  InBody(V, b, q)
  <2>1. ASSUME NEW x \in Range(b), NEW y \in Range(q) \intersect V
        PROVE  Precedes(x, y)
    <3>1. x.id \in 1..n
      BY DEF n
    <3>2. CASE y \in Range(r)
      <4>1. y \in W
        BY <1>1, <1>8, <2>1, <3>2
      <4> QED
        BY <1>14, <2>1, <3>2, <4>1 DEF InBody, Precede
    <3>3. CASE y \in Range(u)
      BY <1>9, <1>2, <3>1, <3>3 DEF Precedes
    <3> QED
      BY <1>6, <2>1, <3>2, <3>3
  <2> QED
    BY <1>1, <1>14, <2>1 DEF InBody, Precede
<1>15. CASE NothingLost(W, H, b, r) /\ InPing(W, b, type, len, r)
  <2>1. len - Len(b) \in 0..Len(q) /\ len - Len(b) \in Nat
    BY <1>4, <1>15 DEF InPing
  <2>2. Starts(q, len - Len(b))
    BY <1>7, <1>15, <2>1 DEF InPing
  <2>3. Range(b) \intersect V = {}
    BY <1>1, <1>15 DEF InPing, n
  <2>4. ASSUME NEW i \in 1..(len - Len(b))
        PROVE  q[i] \notin V
    <3>1. i \in 1..Len(r)
      BY <1>4, <1>15 DEF InPing
    <3>2. q[i] = r[i] /\ r[i].id \in 1..n /\ r[i] \notin W
      BY <1>5, <1>15, <3>1 DEF InPing
    <3> QED
      BY <1>1, <3>2
  <2>5. InPing(V, b, type, len, q)
    BY <1>15, <2>1, <2>2, <2>3, <2>4 DEF InPing
  <2> QED
    BY <1>13, <1>15, <2>5 DEF Place, V, n, q, u
<1>16. CASE NothingLost(W, H, b, r) /\ InMessagePart(W, b, type, len, r)
  <2>1. len - Len(b) \in 0..Len(q)
    BY <1>4, <1>16 DEF InMessagePart
  <2>2. ASSUME NEW i \in 1..(len - Len(b))
        PROVE  q[i] \in V
    <3>1. i \in 1..Len(r)
      BY <1>4, <1>16 DEF InMessagePart
    <3> QED
      BY <1>1, <1>5, <1>16, <3>1 DEF InMessagePart
  <2>3. InMessagePart(V, b, type, len, q)
    BY <1>14, <1>16, <2>1, <2>2 DEF InMessagePart
  <2> QED
    BY <1>13, <1>16, <2>3 DEF Place, V, n, q, u
<1>17. CASE NothingLost(W, H, b, r) /\ AtHeader(W, b, type, len, r)
  <2>1. AtHeader(V, b, type, len, q)
    BY <1>7, <1>14, <1>17 DEF AtHeader
  <2> QED
    BY <1>13, <1>17, <2>1 DEF Place, V, n, q, u
<1>18. \/ Stuck(b, type, len) \/ Astray(type, len, r) \/ Dropped(b, type, len, r)
       \/ (NothingLost(W, H, b, r) /\ InPing(W, b, type, len, r))
       \/ (NothingLost(W, H, b, r) /\ InMessagePart(W, b, type, len, r))
       \/ (NothingLost(W, H, b, r) /\ AtHeader(W, b, type, len, r))
  BY DEF Place, W
<1> QED
  BY <1>10, <1>11, <1>12, <1>15, <1>16, <1>17, <1>18

(***************************************************************************)
(* The rest a of a body is there: the body is dropped as a ping, or heard. *)
(***************************************************************************)
LEMMA PlaceBody ==
  ASSUME NEW W, \A u \in W : u \in UnitsSent /\ u.op = "byte",
         NEW frames, NEW calls \in Seq(Calls), HeardPrefix(calls, W),
         NEW r \in Seq(UnitsSent), NEW a \in Seq(UnitsSent), NEW t \in Seq(UnitsSent),
         Cut(r, 0, a, t), Intact(r, frames),
         NEW b \in Seq(UnitsSent), NEW type, NEW len \in Nat, BodyOpen(type, len),
         Len(b) + Len(a) = len, Place(W, PayloadHeard(calls), b, type, len, r)
  PROVE  /\ type = "ping" => Place(W, PayloadHeard(calls), <<>>, "none", 0, t)
         /\ \A call \in Calls : type # "ping" /\ call.data = b \o a =>
              /\ HeardPrefix(Append(calls, call), W)
              /\ Place(W, PayloadHeard(Append(calls, call)), <<>>, "none", 0, t)
<1> DEFINE H == PayloadHeard(calls)
<1>1. PICK d \in Nat : d = Len(a)
  OBVIOUS
<1>2. /\ Len(r) \in Nat /\ Len(t) \in Nat /\ Len(b) \in Nat /\ len - Len(b) = d /\ Len(r) = d + Len(t)
      /\ \A i \in 1..Len(t) : t[i] = r[d + i]
  <2>1. Len(r) = 0 + Len(a) + Len(t)
    BY DEF Cut
  <2>2. \A i \in 1..Len(t) : t[i] = r[0 + Len(a) + i]
    BY DEF Cut
  <2>3. 0 + Len(a) = d
    BY <1>1
  <2>4. \A i \in 1..Len(t) : t[i] = r[d + i]
    BY <2>2, <2>3
  <2>5. /\ Len(r) \in Nat /\ Len(t) \in Nat /\ Len(b) \in Nat
        /\ Len(r) = d + Len(t) /\ len - Len(b) = d
    BY <1>1, <2>1
  <2> QED
    BY <2>4, <2>5
<1>3. /\ Range(a) \subseteq Range(r) /\ Range(t) \subseteq Range(r)
      /\ Range(r) = Range(a) \union Range(t)
      /\ \A u \in Range(a) : \E i \in 1..d : u = r[i]
      /\ InOrder(a)
      /\ \A u \in Range(a), v \in Range(t) : u.op = "byte" /\ v.op = "byte" => Precedes(u, v)
      /\ Starts(r, d) => Starts(t, 0)
  <2>1. 0 \in Nat
    OBVIOUS
  <2>2. /\ Range(a) \subseteq Range(r) /\ Range(t) \subseteq Range(r)
        /\ \A u \in Range(r) : u \in Range(a) \union Range(t) \/ \E i \in 1..0 : u = r[i]
        /\ \A u \in Range(a) : \E i \in (0 + 1)..(0 + Len(a)) : u = r[i]
        /\ InOrder(a)
        /\ \A u \in Range(a), v \in Range(t) : u.op = "byte" /\ v.op = "byte" => Precedes(u, v)
        /\ \A k \in Nat : Starts(r, 0 + Len(a) + k) => Starts(t, k)
    BY <2>1, CutFacts
  <2>3. 0 + 1 = 1 /\ 0 + Len(a) = d /\ 0 + Len(a) + 0 = d /\ 1..0 = {}
    BY <1>1
  <2>4. Starts(r, d) => Starts(t, 0)
    BY <2>1, <2>2, <2>3
  <2> QED
    BY <2>2, <2>3, <2>4
<1>4. CASE Dropped(b, type, len, r)
  <2>1. type = "ping" /\ d <= Len(r) - 1 /\ r[d + 1].op = "byte"
    BY <1>2, <1>4 DEF Dropped
  <2>2. 1 \in 1..Len(t)
    BY <1>1, <1>2, <2>1
  <2>3. t[1].op = "byte" /\ 0 < Len(t) /\ 0 + 1 = 1
    BY <1>2, <2>1, <2>2
  <2>4. ~Starts(t, 0)
    BY <2>3 DEF Starts
  <2> QED
    BY <2>1, <2>4, AfterBody
<1>5. CASE NothingLost(W, H, b, r) /\ InPing(W, b, type, len, r)
  <2>1. /\ type = "ping" /\ Starts(t, 0) /\ Range(b) \intersect W = {}
        /\ \A i \in 1..d : r[i] \notin W
    BY <1>2, <1>3, <1>5 DEF InPing
  <2>2. Range(<<>>) = {}
    BY DEF Range
  <2>3. /\ NothingLost(W, H, b, r)
        /\ (Range(b) \union Range(r)) \intersect W \subseteq Range(<<>>) \union Range(t)
        /\ Range(<<>>) \union Range(t) \subseteq Range(b) \union Range(r)
    <3>1. \A x \in Range(a) : x \notin W
      BY <1>3, <2>1
    <3>2. (Range(b) \union Range(r)) \intersect W \subseteq Range(t)
      BY <1>3, <2>1, <3>1
    <3>3. Range(t) \subseteq Range(r)
      BY <1>3
    <3> QED
      BY <1>5, <2>2, <3>2, <3>3
  <2>4. NothingLost(W, H, <<>>, t)
    BY <2>3, StillNothingLost
  <2> QED
    BY <2>1, <2>4, AfterBody
<1>6. CASE NothingLost(W, H, b, r) /\ InMessagePart(W, b, type, len, r)
  <2>1. type # "ping" /\ InBody(W, b, r) /\ \A i \in 1..d : r[i] \in W
    BY <1>2, <1>6 DEF InMessagePart
  <2>2. Range(a) \subseteq W
    BY <1>3, <2>1
  <2>3. Range(b \o a) = Range(b) \union Range(a) /\ InBody(W, b \o a, t)
    <3>1. /\ InBody(W, b, r) /\ Range(a) \subseteq W /\ Range(a) \subseteq Range(r)
          /\ Range(t) \subseteq Range(r) /\ InOrder(a)
      BY <1>3, <2>1, <2>2
    <3>2. \A u \in Range(a), v \in Range(t) : u.op = "byte" /\ v.op = "byte" => Precedes(u, v)
      BY <1>3
    <3>3. /\ b \o a \in Seq(UnitsSent)
          /\ Len(b \o a) = Len(b) + Len(a)
          /\ Range(b \o a) = Range(b) \union Range(a)
          /\ InBody(W, b \o a, t)
      BY ONLY <3>1, <3>2, BodyGrows, \A u \in W : u \in UnitsSent /\ u.op = "byte",
              b \in Seq(UnitsSent), a \in Seq(UnitsSent)
    <3> QED
      BY <3>3
  <2>4. ASSUME NEW call \in Calls, call.data = b \o a
        PROVE  /\ HeardPrefix(Append(calls, call), W)
               /\ Place(W, PayloadHeard(Append(calls, call)), <<>>, "none", 0, t)
    <3> DEFINE data == call.data
    <3>1. /\ InBody(W, call.data, t)
          /\ (Range(b) \union Range(r)) \intersect W \subseteq Range(call.data) \union Range(t)
          /\ Range(call.data) \subseteq Range(b) \union Range(r) /\ Range(t) \subseteq Range(r)
      BY <1>3, <2>3, <2>4
    <3>2. NothingLost(W, PayloadHeard(calls), b, r)
      BY <1>6
    <3>3. /\ HeardPrefix(Append(calls, call), W)
          /\ NothingLost(W, PayloadHeard(Append(calls, call)), <<>>, t)
      BY <3>1, <3>2, Delivered
    <3> QED
      BY <3>3, AfterBody
  <2> QED
    BY <2>1, <2>4
<1>7. ~Stuck(b, type, len) /\ ~Astray(type, len, r) /\ ~AtHeader(W, b, type, len, r)
  BY <1>1, <1>2 DEF Stuck, Astray, AtHeader
<1> QED
  BY <1>4, <1>5, <1>6, <1>7 DEF Place

(***************************************************************************)
(* At the header of a frame: what is there of its payload, a, and what     *)
(* follows that, t.                                                        *)
(***************************************************************************)
LEMMA FrameTaken ==
  ASSUME NEW frames \in Seq(Answers \union Frames),
         NEW r \in Seq(UnitsSent), NEW a \in Seq(UnitsSent), NEW t \in Seq(UnitsSent),
         Cut(r, 1, a, t), Intact(r, frames), r[1].op # "byte", Len(a) <= r[1].len
  PROVE  /\ r[1].len \in Nat
         /\ Range(a) \subseteq Range(r) /\ Range(t) \subseteq Range(r)
         /\ Range(r) \intersect PayloadWritten(frames) \subseteq Range(a) \union Range(t)
         /\ IsData(r[1]) => Range(a) \subseteq PayloadWritten(frames)
         /\ ~IsData(r[1]) => Range(a) \intersect PayloadWritten(frames) = {}
         /\ InOrder(a)
         /\ \A u \in Range(a), v \in Range(t) : u.op = "byte" /\ v.op = "byte" => Precedes(u, v)
         /\ r[1].len - Len(a) <= Len(t) /\ Starts(t, r[1].len - Len(a))
         /\ \A i \in 1..(r[1].len - Len(a)) :
              t[i].op = "byte" /\ (t[i] \in PayloadWritten(frames) <=> IsData(r[1]))
         /\ Len(a) < r[1].len => t # <<>> /\ t[1].op = "byte" /\ ~Starts(t, 0)
<1> DEFINE W == PayloadWritten(frames)
<1>1. PICK n \in Nat : n = r[1].len
  <2>1. Len(r) > 0
    BY DEF Cut
  <2> QED
    BY <2>1, HeadFrame
<1>2. PICK h \in Nat : h = Len(a)
  OBVIOUS
<1>3. Len(r) = 1 + h + Len(t)
  BY <1>2 DEF Cut
<1>4. \A i \in 1..h : a[i] = r[1 + i]
  BY <1>2 DEF Cut
<1>5. \A i \in 1..Len(t) : t[i] = r[1 + h + i]
  BY <1>2 DEF Cut
<1>6. Len(r) \in Nat /\ Len(t) \in Nat /\ Len(r) > 0 /\ DOMAIN a = 1..h /\ DOMAIN t = 1..Len(t)
  BY <1>2, <1>3
<1>7. /\ n \in Nat
      /\ r[1] \notin W
      /\ \A k \in 2..(n + 1) : k \in 1..Len(r) /\ r[k].op = "byte" /\ (r[k] \in W <=> IsData(r[1]))
      /\ n + 1 <= Len(r)
      /\ Starts(r, n + 1)
  BY <1>1, <1>6, HeadFrame
<1> HIDE DEF W
<1>8. /\ Range(a) \subseteq Range(r) /\ Range(t) \subseteq Range(r)
      /\ \A u \in Range(r) : u \in Range(a) \union Range(t) \/ \E i \in 1..1 : u = r[i]
      /\ InOrder(a)
      /\ \A u \in Range(a), v \in Range(t) : u.op = "byte" /\ v.op = "byte" => Precedes(u, v)
      /\ \A k \in Nat : Starts(r, 1 + Len(a) + k) => Starts(t, k)
  <2>1. 1 \in Nat
    OBVIOUS
  <2> QED
    BY <2>1, CutFacts
<1>9. Range(r) \intersect W \subseteq Range(a) \union Range(t)
  BY <1>7, <1>8
<1>10. \A i \in 1..h : a[i] \in W <=> IsData(r[1])
  <2> SUFFICES ASSUME NEW i \in 1..h PROVE a[i] \in W <=> IsData(r[1])
    OBVIOUS
  <2>1. 1 + i \in 2..(n + 1)
    BY <1>1, <1>2, <1>7
  <2> QED
    BY <1>4, <1>7, <2>1
<1>11. \A u \in Range(a) : u \in W <=> IsData(r[1])
  BY <1>6, <1>10 DEF Range
<1>12. n - h \in Nat /\ n - h <= Len(t) /\ 1 + h + (n - h) = n + 1
  BY <1>1, <1>2, <1>3, <1>6, <1>7
<1>13. Starts(t, n - h)
  <2>1. Starts(r, 1 + Len(a) + (n - h))
    BY <1>2, <1>7, <1>12
  <2> QED
    BY <1>8, <1>12, <2>1
<1>14. \A i \in 1..(n - h) : t[i].op = "byte" /\ (t[i] \in W <=> IsData(r[1]))
  <2> SUFFICES ASSUME NEW i \in 1..(n - h)
               PROVE  t[i].op = "byte" /\ (t[i] \in W <=> IsData(r[1]))
    OBVIOUS
  <2>0. n \in Nat /\ Len(t) \in Nat /\ n - h <= Len(t)
    BY <1>6, <1>7, <1>12
  <2>1. 1 + h + i \in 2..(n + 1) /\ i \in 1..Len(t)
    BY <2>0
  <2> QED
    BY <1>5, <1>7, <2>1
<1>15. ASSUME h < n
       PROVE  t # <<>> /\ t[1].op = "byte" /\ ~Starts(t, 0)
  <2>1. 1 \in 1..(n - h) /\ Len(t) > 0
    BY <1>2, <1>6, <1>7, <1>12, <1>15
  <2>2. t[0 + 1].op = "byte" /\ 0 < Len(t)
    BY <1>14, <2>1
  <2> QED
    BY <2>2 DEF Starts
<1> QED
  BY <1>1, <1>2, <1>7, <1>8, <1>9, <1>11, <1>12, <1>13, <1>14, <1>15 DEF W

(***************************************************************************)
(* What onReading's place is when it is at a header.                       *)
(***************************************************************************)
LEMMA HeaderPlace ==
  ASSUME NEW W, NEW H, NEW b, NEW type, NEW len, NEW r, Place(W, H, b, type, len, r),
         ~BodyOpen(type, len), r # <<>>, r[1].op # "byte"
  PROVE  NothingLost(W, H, b, r) /\ InBody(W, b, r) /\ (type = "ping" => b # <<>>)
BY DEF Place, Stuck, Astray, Dropped, InPing, InMessagePart, AtHeader

(***************************************************************************)
(* What is no data and adds nothing to the body is skipped: a pong, or the *)
(* answer to the handshake.                                                *)
(***************************************************************************)
LEMMA PlaceSkip ==
  ASSUME NEW frames \in Seq(Answers \union Frames), NEW H, NEW b, NEW type, NEW len,
         NEW r \in Seq(UnitsSent), NEW a \in Seq(UnitsSent), NEW t \in Seq(UnitsSent),
         Cut(r, 1, a, t), Intact(r, frames), Len(a) <= r[1].len,
         Place(PayloadWritten(frames), H, b, type, len, r), ~BodyOpen(type, len),
         r # <<>>, r[1].op # "byte", ~IsData(r[1])
  PROVE  Place(PayloadWritten(frames), H, b, type, len, t)
<1> DEFINE W == PayloadWritten(frames)
           n == r[1].len
<1>1. NothingLost(W, H, b, r) /\ InBody(W, b, r) /\ (type = "ping" => b # <<>>)
  BY HeaderPlace
<1>2. /\ n \in Nat
      /\ Range(t) \subseteq Range(r)
      /\ Range(r) \intersect W \subseteq Range(a) \union Range(t)
      /\ Range(a) \intersect W = {}
      /\ Starts(t, n - Len(a))
      /\ Len(a) < n => t # <<>> /\ t[1].op = "byte"
  BY FrameTaken, ZenonT(40)
<1>3. Len(a) <= n
  OBVIOUS
<1> HIDE DEF W, n
<1>4. CASE Len(a) < n
  BY <1>2, <1>4 DEF Place, Astray
<1>5. CASE Len(a) = n
  <2>1. n - Len(a) = 0
    BY <1>2, <1>5
  <2>2. Starts(t, 0)
    BY <1>2, <2>1
  <2>3. InBody(W, b, t)
    BY <1>1, <1>2 DEF InBody, Precede
  <2>4. NothingLost(W, H, b, t)
    BY <1>1, <1>2 DEF NothingLost, Precede
  <2> QED
    BY <1>1, <2>2, <2>3, <2>4 DEF Place, AtHeader, W
<1> QED
  BY <1>2, <1>4, <1>5, <1>3

(***************************************************************************)
(* The type of the body after the header of a frame.                       *)
(***************************************************************************)
After(op, type) == IF op = "continue" THEN type ELSE op

(***************************************************************************)
(* A frame adds to the body what is there of its payload, a; the body is   *)
(* not complete.                                                           *)
(***************************************************************************)
LEMMA PlaceAdd ==
  ASSUME NEW frames \in Seq(Answers \union Frames), NEW H,
         NEW b \in Seq(UnitsSent), NEW type, NEW len,
         NEW r \in Seq(UnitsSent), NEW a \in Seq(UnitsSent), NEW t \in Seq(UnitsSent),
         Cut(r, 1, a, t), Intact(r, frames), Len(a) <= r[1].len,
         Place(PayloadWritten(frames), H, b, type, len, r), ~BodyOpen(type, len),
         r # <<>>, r[1].op \in {"text", "binary", "continue", "ping"}, ~Refused(r[1]),
         ~(r[1].fin /\ Len(b \o a) = r[1].len)
  PROVE  Place(PayloadWritten(frames), H, b \o a, After(r[1].op, type), r[1].len, t)
<1> DEFINE W == PayloadWritten(frames)
           n == r[1].len
           after == After(r[1].op, type)
           c == b \o a
<1>1. r[1].op # "byte" /\ (IsData(r[1]) <=> r[1].op # "ping")
  BY DEF IsData
<1>2. NothingLost(W, H, b, r) /\ InBody(W, b, r) /\ (type = "ping" => b # <<>>)
  BY <1>1, HeaderPlace
<1>3. /\ n \in Nat
      /\ Range(a) \subseteq Range(r) /\ Range(t) \subseteq Range(r)
      /\ Range(r) \intersect W \subseteq Range(a) \union Range(t)
      /\ IsData(r[1]) => Range(a) \subseteq W
      /\ ~IsData(r[1]) => Range(a) \intersect W = {}
      /\ InOrder(a)
      /\ Starts(t, n - Len(a))
      /\ n - Len(a) <= Len(t)
      /\ \A i \in 1..(n - Len(a)) : t[i].op = "byte" /\ (t[i] \in W <=> IsData(r[1]))
      /\ Len(a) < n => t # <<>> /\ t[1].op = "byte" /\ ~Starts(t, 0)
  <2>1. /\ n \in Nat
        /\ Range(a) \subseteq Range(r) /\ Range(t) \subseteq Range(r)
        /\ Range(r) \intersect W \subseteq Range(a) \union Range(t)
        /\ IsData(r[1]) => Range(a) \subseteq W
        /\ ~IsData(r[1]) => Range(a) \intersect W = {}
    BY <1>1, FrameTaken, SMTT(30)
  <2>2. /\ InOrder(a)
        /\ Starts(t, n - Len(a))
        /\ Len(a) < n => t # <<>> /\ t[1].op = "byte" /\ ~Starts(t, 0)
    BY <1>1, FrameTaken
  <2>3. n - Len(a) <= Len(t)
    BY <1>1, FrameTaken
  <2>4. \A i \in 1..(n - Len(a)) : t[i].op = "byte" /\ (t[i] \in W <=> IsData(r[1]))
    BY <1>1, FrameTaken
  <2> QED
    BY <2>1, <2>2, <2>3, <2>4
<1>4. \A u \in Range(a), v \in Range(t) : u.op = "byte" /\ v.op = "byte" => Precedes(u, v)
  BY <1>1, FrameTaken
<1>5. Range(c) = Range(b) \union Range(a) /\ Len(c) = Len(b) + Len(a)
  BY RangeConcat, ConcatProperties
<1>6. \A u \in W : u \in UnitsSent /\ u.op = "byte"
  BY WrittenAt
<1>7. Len(a) \in Nat /\ Len(b) \in Nat /\ Len(t) \in Nat /\ n - Len(a) \in Nat
  <2>1. Len(a) \in Nat /\ Len(b) \in Nat /\ Len(t) \in Nat
    OBVIOUS
  <2> QED
    BY <1>3, <2>1
<1>8. after = "ping" => IF IsData(r[1]) THEN type = "ping" ELSE r[1].op = "ping"
  BY <1>1 DEF After
<1>9. after # "ping" => IsData(r[1])
  BY <1>1 DEF After
<1> HIDE DEF W, c, n, after
<1>10. NothingLost(W, H, c, t)
  <2>1. /\ (Range(b) \union Range(r)) \intersect W \subseteq Range(c) \union Range(t)
        /\ Range(c) \union Range(t) \subseteq Range(b) \union Range(r)
    BY <1>3, <1>5
  <2> QED
    BY <1>2, <2>1, StillNothingLost
<1>11. Range(a) \subseteq W => InBody(W, c, t)
  <2>1. /\ InBody(W, b, r) /\ Range(a) \subseteq Range(r)
        /\ Range(t) \subseteq Range(r) /\ InOrder(a)
    BY <1>2, <1>3
  <2>2. ASSUME Range(a) \subseteq W
        PROVE  /\ b \o a \in Seq(UnitsSent)
               /\ Len(b \o a) = Len(b) + Len(a)
               /\ Range(b \o a) = Range(b) \union Range(a)
               /\ InBody(W, b \o a, t)
    BY ONLY <1>4, <1>6, <2>1, <2>2, BodyGrows, b \in Seq(UnitsSent), a \in Seq(UnitsSent)
  <2> QED
    BY <2>2 DEF c
<1>12. CASE BodyOpen(after, n) /\ Len(c) > n
  BY <1>12 DEF Place, Stuck, W, c, n, after
<1>13. CASE BodyOpen(after, n) /\ Len(c) <= n /\ b # <<>> /\ after = "ping"
  <2>1. Len(b) > 0
    BY <1>7, <1>13
  <2>2. /\ n - Len(c) \in 0..(Len(t) - 1)
        /\ n - Len(c) + 1 \in 1..(n - Len(a))
    <3>1. /\ n \in Nat /\ Len(c) \in Nat /\ Len(c) <= n /\ Len(c) = Len(b) + Len(a)
          /\ n - Len(a) <= Len(t)
      BY <1>3, <1>5, <1>7, <1>13
    <3> QED
      BY <1>7, <2>1, <3>1
  <2> QED
    BY <1>3, <1>13, <2>2 DEF Place, Dropped, W, c, n, after
<1>14. CASE BodyOpen(after, n) /\ Len(c) <= n /\ b = <<>> /\ after = "ping"
  <2>1. Range(b) = {} /\ Len(b) = 0 /\ r[1].op = "ping"
    BY <1>1, <1>2, <1>14, <1>8 DEF Range
  <2>2. n - Len(c) = n - Len(a) /\ n - Len(c) \in 0..Len(t)
    BY <1>3, <1>5, <1>7, <2>1
  <2>3. Starts(t, n - Len(c)) /\ Range(c) \intersect W = {} /\ \A i \in 1..(n - Len(c)) : t[i] \notin W
    BY <1>1, <1>3, <1>5, <2>1, <2>2
  <2> QED
    BY <1>10, <1>14, <2>2, <2>3 DEF Place, InPing, W, c, n, after
<1>15. CASE BodyOpen(after, n) /\ Len(c) <= n /\ after # "ping"
  <2>1. IsData(r[1]) /\ InBody(W, c, t)
    BY <1>3, <1>11, <1>15, <1>9
  <2>2. n - Len(c) \in 0..Len(t) /\ \A i \in 1..(n - Len(c)) : i \in 1..(n - Len(a))
    BY <1>3, <1>5, <1>7, <1>15, SMTT(30)
  <2>3. \A i \in 1..(n - Len(c)) : t[i] \in W
    BY <1>3, <2>1, <2>2
  <2> QED
    BY <1>10, <1>15, <2>1, <2>2, <2>3 DEF Place, InMessagePart, W, c, n, after
<1>16. CASE ~BodyOpen(after, n) /\ Len(a) < n
  BY <1>3, <1>16 DEF Place, Astray, W, c, n, after
<1>17. CASE ~BodyOpen(after, n) /\ Len(a) = n
  <2>1. n - Len(a) = 0 /\ Starts(t, 0)
    <3>1. n - Len(a) = 0
      BY <1>3, <1>17
    <3> QED
      BY <1>3, <3>1
  <2>2. CASE IsData(r[1])
    <3>1. InBody(W, c, t)
      BY <1>3, <1>11, <2>2
    <3>2. after = "ping" => c # <<>>
      <4> SUFFICES ASSUME after = "ping" PROVE Len(c) > 0
        BY DEF c
      <4>1. b # <<>>
        BY <1>2, <1>8, <2>2
      <4>2. Len(b) > 0
        BY <1>7, <4>1
      <4> QED
        BY <1>5, <1>7, <4>2
    <3> QED
      BY <1>10, <1>17, <2>1, <3>1, <3>2 DEF Place, AtHeader, W, c, n, after
  <2>3. CASE ~IsData(r[1])
    <3>1. r[1].op = "ping" /\ r[1].fin /\ n = 0
      <4>1. r[1].op = "ping"
        BY <1>1, <2>3
      <4>2. r[1].fin
        BY <4>1 DEF Refused
      <4> QED
        BY <1>3, <1>17, <4>1, <4>2 DEF BodyOpen, After, after
    <3>2. Len(a) = 0 /\ Len(c) = Len(b) /\ Len(c) # 0
      BY <1>5, <1>7, <1>17, <3>1 DEF c, n
    <3>3. Range(a) = {}
      BY <3>2 DEF Range
    <3>4. InBody(W, c, t)
      BY <1>11, <3>3
    <3>5. c # <<>>
      BY <3>2
    <3> QED
      BY <1>10, <1>17, <2>1, <3>4, <3>5 DEF Place, AtHeader, W, c, n, after
  <2> QED
    BY <2>2, <2>3
<1>18. Len(a) < n \/ Len(a) = n
  BY <1>3, <1>7
<1>19. Len(c) <= n \/ Len(c) > n
  BY <1>3, <1>5, <1>7
<1> QED
  BY <1>12, <1>13, <1>14, <1>15, <1>16, <1>17, <1>18, <1>19

(***************************************************************************)
(* Or the body is complete: it is dropped as a ping, or heard.             *)
(***************************************************************************)
LEMMA PlaceHeard ==
  ASSUME NEW frames \in Seq(Answers \union Frames),
         NEW calls \in Seq(Calls), HeardPrefix(calls, PayloadWritten(frames)),
         NEW b \in Seq(UnitsSent), NEW type, NEW len,
         NEW r \in Seq(UnitsSent), NEW a \in Seq(UnitsSent), NEW t \in Seq(UnitsSent),
         Cut(r, 1, a, t), Intact(r, frames), Len(a) <= r[1].len,
         Place(PayloadWritten(frames), PayloadHeard(calls), b, type, len, r), ~BodyOpen(type, len),
         r # <<>>, r[1].op \in {"text", "binary", "continue", "ping"}, Len(b \o a) = r[1].len
  PROVE  /\ After(r[1].op, type) = "ping" =>
              Place(PayloadWritten(frames), PayloadHeard(calls), <<>>, "none", 0, t)
         /\ \A call \in Calls : After(r[1].op, type) # "ping" /\ call.data = b \o a =>
              /\ HeardPrefix(Append(calls, call), PayloadWritten(frames))
              /\ Place(PayloadWritten(frames), PayloadHeard(Append(calls, call)), <<>>, "none", 0, t)
<1> DEFINE W == PayloadWritten(frames)
           H == PayloadHeard(calls)
           n == r[1].len
           after == After(r[1].op, type)
<1>1. r[1].op # "byte" /\ (IsData(r[1]) <=> r[1].op # "ping")
  BY DEF IsData
<1>2. NothingLost(W, H, b, r) /\ InBody(W, b, r) /\ (type = "ping" => b # <<>>)
  BY <1>1, HeaderPlace
<1>3. /\ n \in Nat
      /\ Range(a) \subseteq Range(r) /\ Range(t) \subseteq Range(r)
      /\ Range(r) \intersect W \subseteq Range(a) \union Range(t)
      /\ IsData(r[1]) => Range(a) \subseteq W
      /\ ~IsData(r[1]) => Range(a) \intersect W = {}
      /\ InOrder(a)
      /\ Len(a) < n => t # <<>> /\ t[1].op = "byte" /\ ~Starts(t, 0)
  <2>1. /\ n \in Nat
        /\ Range(a) \subseteq Range(r) /\ Range(t) \subseteq Range(r)
        /\ Range(r) \intersect W \subseteq Range(a) \union Range(t)
    BY <1>1, FrameTaken, ZenonT(40)
  <2>2. /\ IsData(r[1]) => Range(a) \subseteq W
        /\ ~IsData(r[1]) => Range(a) \intersect W = {}
        /\ InOrder(a)
        /\ Len(a) < n => t # <<>> /\ t[1].op = "byte" /\ ~Starts(t, 0)
    BY <1>1, FrameTaken
  <2> QED
    BY <2>1, <2>2
<1>4. \A u \in Range(a), v \in Range(t) : u.op = "byte" /\ v.op = "byte" => Precedes(u, v)
  BY <1>1, FrameTaken
<1>5. Len(b \o a) = Len(b) + Len(a) /\ Len(a) \in Nat /\ Len(b) \in Nat
  BY ConcatProperties
<1>6. \A u \in W : u \in UnitsSent /\ u.op = "byte"
  BY WrittenAt
<1>7. after = "ping" => IF IsData(r[1]) THEN type = "ping" ELSE r[1].op = "ping"
  BY <1>1 DEF After
<1>8. after # "ping" => IsData(r[1])
  BY <1>1 DEF After
<1>9. Len(b \o a) = n
  OBVIOUS
<1> HIDE DEF W, H, n, after
<1>10. CASE after = "ping" /\ b # <<>>
  <2>1. Len(b) > 0
    BY <1>5, <1>10
  <2>2. Len(a) < n
    BY <1>5, <1>9, <2>1
  <2>3. Place(W, H, <<>>, "none", 0, t)
    BY <1>3, <2>2, AfterBody
  <2> QED
    BY <1>10, <2>3 DEF W, H, after
<1>11. CASE after = "ping" /\ b = <<>>
  <2>1. ~IsData(r[1]) /\ Range(b) = {} /\ Range(<<>>) = {}
    BY <1>1, <1>2, <1>11, <1>7 DEF Range
  <2>2. /\ (Range(b) \union Range(r)) \intersect W \subseteq Range(<<>>) \union Range(t)
        /\ Range(<<>>) \union Range(t) \subseteq Range(b) \union Range(r)
    BY <1>3, <2>1
  <2>3. NothingLost(W, H, <<>>, t)
    BY <1>2, <2>2, StillNothingLost
  <2>4. Place(W, H, <<>>, "none", 0, t)
    BY <2>3, AfterBody
  <2> QED
    BY <1>11, <2>4 DEF W, H, after
<1>12. CASE after # "ping"
  <2> SUFFICES ASSUME NEW call \in Calls, call.data = b \o a
               PROVE  /\ HeardPrefix(Append(calls, call), W)
                      /\ Place(W, PayloadHeard(Append(calls, call)), <<>>, "none", 0, t)
    BY <1>12 DEF W, after
  <2>0. Range(a) \subseteq W
    BY <1>3, <1>12, <1>8
  <2>1. /\ InBody(W, b, r) /\ Range(a) \subseteq Range(r)
        /\ Range(t) \subseteq Range(r) /\ InOrder(a)
    BY <1>2, <1>3
  <2>2. /\ b \o a \in Seq(UnitsSent)
        /\ Len(b \o a) = Len(b) + Len(a)
        /\ Range(b \o a) = Range(b) \union Range(a)
        /\ InBody(W, b \o a, t)
    BY ONLY <1>4, <1>6, <2>0, <2>1, BodyGrows, b \in Seq(UnitsSent), a \in Seq(UnitsSent)
  <2>3. /\ InBody(W, call.data, t)
        /\ (Range(b) \union Range(r)) \intersect W \subseteq Range(call.data) \union Range(t)
        /\ Range(call.data) \subseteq Range(b) \union Range(r) /\ Range(t) \subseteq Range(r)
    BY <1>3, <2>2
  <2>4. NothingLost(W, PayloadHeard(calls), b, r) /\ HeardPrefix(calls, W)
    BY <1>2 DEF W, H
  <2>5. /\ HeardPrefix(Append(calls, call), W)
        /\ NothingLost(W, PayloadHeard(Append(calls, call)), <<>>, t)
    BY <1>6, <2>3, <2>4, Delivered
  <2> QED
    BY <2>5, AfterBody
<1> QED
  BY <1>10, <1>11, <1>12 DEF W, H, after

(***************************************************************************)
(* What has been heard so far is a prefix of what was written.             *)
(***************************************************************************)
PayloadSoFar == HeardPrefix(heard, PayloadWritten(sent))

(***************************************************************************)
(* What is taken of the input is taken of the stream.                      *)
(***************************************************************************)
LEMMA CutInput ==
  ASSUME TypeOK, NEW m \in Nat, NEW a \in Seq(UnitsSent), m + Len(a) <= Len(input),
         \A i \in 1..Len(a) : a[i] = input[m + i], UNCHANGED wire,
         input' \in Seq(UnitsSent), Len(input') = Len(input) - (m + Len(a)),
         \A i \in 1..Len(input') : input'[i] = input[m + Len(a) + i]
  PROVE  Rest \in Seq(UnitsSent) /\ Rest' \in Seq(UnitsSent) /\ Cut(Rest, m, a, Rest')
<1>1. PICK d \in Nat : d = m + Len(a)
  OBVIOUS
<1>2. Len(input) \in Nat /\ Len(a) \in Nat
  BY DEF TypeOK
<1>3. d \in 0..Len(input) /\ Len(input') = Len(input) - d
  BY <1>1, <1>2
<1>4. \A i \in 1..Len(input') : input'[i] = input[d + i]
  BY <1>1
<1>5. /\ Rest \in Seq(UnitsSent) /\ Rest' \in Seq(UnitsSent)
      /\ d \in 0..Len(Rest) /\ Len(Rest') = Len(Rest) - d
      /\ \A i \in 1..Len(Rest') : Rest'[i] = Rest[d + i]
      /\ \A i \in 1..Len(input) : Rest[i] = input[i]
  BY <1>3, <1>4, RestParts
<1>6. \A i \in 1..Len(a) : a[i] = Rest[m + i]
  <2> SUFFICES ASSUME NEW i \in 1..Len(a) PROVE a[i] = Rest[m + i]
    OBVIOUS
  <2>1. m + i \in 1..Len(input)
    BY <1>2
  <2> QED
    BY <1>5, <2>1
<1>7. Len(Rest) = m + Len(a) + Len(Rest')
  BY <1>1, <1>5
<1>8. \A i \in 1..Len(Rest') : Rest'[i] = Rest[m + Len(a) + i]
  BY <1>1, <1>5
<1> QED
  BY <1>5, <1>6, <1>7, <1>8 DEF Cut

(***************************************************************************)
(* What InPlace says of a socket that is open.                             *)
(***************************************************************************)
LEMMA PlaceNow ==
  ASSUME TypeOK, InPlace, pc = "reading", state # "Closed"
  PROVE  /\ bev /\ Intact(Rest, sent)
         /\ \A u \in Range(body) : u.id \in 1..Len(sent)
         /\ state # "Opened" => bodyType = "none"
         /\ Place(PayloadWritten(sent), PayloadHeard(heard), body, bodyType, bodyLength, Rest)
         /\ sent \in Seq(Answers \union Frames) /\ heard \in Seq(Calls)
         /\ body \in Seq(UnitsSent) /\ bodyLength \in Nat
         /\ \A u \in PayloadWritten(sent) : u \in UnitsSent /\ u.op = "byte"
<1>1. sent \in Seq(Answers \union Frames) /\ heard \in Seq(Calls)
      /\ body \in Seq(UnitsSent) /\ bodyLength \in Nat
  BY DEF TypeOK, Calls
<1>2. \A u \in PayloadWritten(sent) : u \in UnitsSent /\ u.op = "byte"
  BY <1>1, WrittenAt
<1> QED
  BY <1>1, <1>2 DEF InPlace

(***************************************************************************)
(* Steps that leave the stream and the body alone, and what ends it all.   *)
(***************************************************************************)
LEMMA PlaceSame ==
  ASSUME InPlace, PayloadSoFar, UNCHANGED <<sent, wire, input, body, bodyType, bodyLength, heard>>,
         pc' = "reading" => bev',
         bev' \/ pc' = "new" => bev \/ pc = "new",
         state' # "Closed" => state # "Closed",
         state' \notin {"Opened", "Closed"} => state # "Opened"
  PROVE  InPlace' /\ PayloadSoFar'
<1>1. Rest' = Rest
  BY DEF Rest
<1>2. PayloadSoFar'
  BY DEF PayloadSoFar
<1>3. InPlace'
  BY <1>1 DEF InPlace
<1> QED
  BY <1>2, <1>3

LEMMA PlaceOver ==
  ASSUME InPlace, PayloadSoFar, UNCHANGED <<sent, heard>>, pc' # "reading",
         state' = "Closed" \/ (~bev' /\ pc' # "new")
  PROVE  InPlace' /\ PayloadSoFar'
BY DEF InPlace, PayloadSoFar

LEMMA PlaceClosed ==
  ASSUME TypeOK, PayloadSoFar, Closes, UNCHANGED sent
  PROVE  InPlace' /\ PayloadSoFar'
<1> DEFINE call == [cb |-> "close", type |-> "none", data |-> <<>>]
<1>1. sent \in Seq(Answers \union Frames) /\ heard \in Seq(Calls) /\ call \in Calls
  BY DEF TypeOK, Calls
<1>2. \A u \in PayloadWritten(sent) : u \in UnitsSent /\ u.op = "byte"
  BY <1>1, WrittenAt
<1>3. heard' = Append(heard, call) /\ state' = "Closed" /\ pc' # "reading" /\ call.data = <<>>
  BY DEF Closes, OnClose, Call
<1> HIDE DEF call
<1>4. HeardPrefix(Append(heard, call), PayloadWritten(sent))
  BY <1>1, <1>2, <1>3, PrefixEmptyCall DEF PayloadSoFar
<1> QED
  BY <1>3, <1>4 DEF InPlace, PayloadSoFar

(***************************************************************************)
(* The body has been taken: what OnData makes of the place.                *)
(***************************************************************************)
LEMMA PlaceOnData ==
  ASSUME TypeOK, PayloadSoFar, NEW type, NEW data \in Seq(UnitsSent), OnData(type, data),
         bev, UNCHANGED <<state, bev, sent>>, Intact(Rest', sent),
         type = "ping" =>
           Place(PayloadWritten(sent), PayloadHeard(heard), <<>>, "none", 0, Rest'),
         \A call \in Calls : type # "ping" /\ call.data = data =>
           /\ HeardPrefix(Append(heard, call), PayloadWritten(sent))
           /\ Place(PayloadWritten(sent), PayloadHeard(Append(heard, call)), <<>>, "none", 0, Rest')
  PROVE  InPlace' /\ PayloadSoFar'
<1>1. bev' /\ sent' = sent /\ state' = state /\ body' = <<>> /\ bodyType' = "none" /\ bodyLength' = 0
  BY DEF OnData
<1>2. Range(body') = {}
  BY <1>1 DEF Range
<1>3. CASE type = "ping"
  <2>1. heard' = heard
    BY <1>3 DEF OnData
  <2>2. Place(PayloadWritten(sent'), PayloadHeard(heard'), body', bodyType', bodyLength', Rest')
    BY <1>1, <1>3, <2>1
  <2> QED
    BY <1>1, <1>2, <2>1, <2>2 DEF InPlace, PayloadSoFar
<1>4. CASE type # "ping"
  <2> DEFINE call == [cb |-> "data", type |-> IF type = "text" THEN type ELSE "binary", data |-> data]
  <2>1. call \in Calls /\ call.data = data
    BY DEF Calls
  <2>2. heard' = Append(heard, call)
    BY <1>4 DEF OnData, Call
  <2> HIDE DEF call
  <2>3. /\ HeardPrefix(heard', PayloadWritten(sent))
        /\ Place(PayloadWritten(sent), PayloadHeard(heard'), <<>>, "none", 0, Rest')
    BY <1>4, <2>1, <2>2
  <2>4. Place(PayloadWritten(sent'), PayloadHeard(heard'), body', bodyType', bodyLength', Rest')
    BY <1>1, <2>3
  <2> QED
    BY <1>1, <1>2, <2>3, <2>4 DEF InPlace, PayloadSoFar
<1> QED
  BY <1>3, <1>4

(***************************************************************************)
(* The actions that move the place.                                        *)
(***************************************************************************)
LEMMA PlacePeerWrites ==
  ASSUME TypeOK, InPlace, PayloadSoFar, NEW f \in Answers \union Frames, PeerWrites(f)
  PROVE  InPlace' /\ PayloadSoFar'
<1>1. /\ sent \in Seq(Answers \union Frames) /\ body \in Seq(UnitsSent) /\ bodyLength \in Nat
      /\ heard \in Seq(Calls)
  BY DEF TypeOK, Calls
<1>2. /\ sent' = Append(sent, f)
      /\ UNCHANGED <<state, bev, body, bodyType, bodyLength, pc, heard>>
      /\ bev /\ pc # "reading"
  BY DEF PeerWrites, connection, buffers
<1>3. Rest \in Seq(UnitsSent) /\ Rest' = Rest \o Units(Len(sent) + 1, f)
  BY RestPeer
<1>4. PayloadSoFar'
  BY <1>1, <1>2, PrefixWritten DEF PayloadSoFar
<1>5. ASSUME state # "Closed"
      PROVE  /\ Intact(Rest', sent')
             /\ \A u \in Range(body) : u.id \in 1..Len(sent')
             /\ state # "Opened" => bodyType = "none"
             /\ Place(PayloadWritten(sent'), PayloadHeard(heard), body, bodyType, bodyLength, Rest')
  <2>1. /\ Intact(Rest, sent)
        /\ \A u \in Range(body) : u.id \in 1..Len(sent)
        /\ state # "Opened" => bodyType = "none"
        /\ Place(PayloadWritten(sent), PayloadHeard(heard), body, bodyType, bodyLength, Rest)
    BY <1>2, <1>5 DEF InPlace
  <2>2. Intact(Rest', sent')
    BY <1>1, <1>2, <1>3, <2>1, IntactAppend
  <2>3. PayloadHeard(heard) \subseteq PayloadWritten(sent)
    BY DEF PayloadSoFar, HeardPrefix
  <2>4. Place(PayloadWritten(sent'), PayloadHeard(heard), body, bodyType, bodyLength, Rest')
    BY <1>1, <1>2, <1>3, <2>1, <2>3, PlacePeer
  <2>5. Len(sent) \in Nat /\ Len(sent') = Len(sent) + 1
    BY <1>1, <1>2
  <2>6. 1..Len(sent) \subseteq 1..Len(sent')
    BY <2>5
  <2> QED
    BY <2>1, <2>2, <2>4, <2>6
<1> QED
  BY <1>2, <1>4, <1>5 DEF InPlace

LEMMA PlaceArrive ==
  ASSUME TypeOK, InPlace, PayloadSoFar, NEW k \in 1..Len(wire), Arrive(k)
  PROVE  InPlace' /\ PayloadSoFar'
<1>1. /\ UNCHANGED <<state, bev, sent, body, bodyType, bodyLength, heard>>
      /\ bev /\ Rest' = Rest
  BY RestArrive DEF Arrive, connection
<1>2. PayloadSoFar'
  BY <1>1 DEF PayloadSoFar
<1>3. InPlace'
  BY <1>1 DEF InPlace
<1> QED
  BY <1>2, <1>3

LEMMA PlaceHandshake ==
  ASSUME TypeOK, InPlace, PayloadSoFar, Handshake
  PROVE  InPlace' /\ PayloadSoFar'
<1>1. /\ pc = "reading" /\ state = "Connected" /\ input # <<>> /\ input' = Tail(input)
      /\ UNCHANGED <<bev, sent, wire, body, bodyType, bodyLength>>
  BY DEF Handshake
<1>2. CASE Head(input).op # "101"
  BY <1>1, <1>2, PlaceClosed DEF Handshake, Closes
<1>3. CASE Head(input).op = "101"
  <2> DEFINE call == [cb |-> "open", type |-> "none", data |-> <<>>]
             W == PayloadWritten(sent)
  <2>1. state' = "Opened" /\ heard' = Append(heard, call) /\ pc' = "script"
    BY <1>3 DEF Handshake, Call
  <2>2. call \in Calls /\ call.data = <<>>
    BY DEF Calls
  <2>3. /\ bev /\ Intact(Rest, sent) /\ bodyType = "none"
        /\ \A u \in Range(body) : u.id \in 1..Len(sent)
        /\ Place(W, PayloadHeard(heard), body, bodyType, bodyLength, Rest)
        /\ sent \in Seq(Answers \union Frames) /\ heard \in Seq(Calls)
        /\ \A u \in W : u \in UnitsSent /\ u.op = "byte"
    BY <1>1, PlaceNow
  <2>4. <<>> \in Seq(UnitsSent) /\ Len(<<>>) = 0
    OBVIOUS
  <2>5. /\ input \in Seq(UnitsSent) /\ Len(input) \in Nat \ {0} /\ input' \in Seq(UnitsSent)
        /\ Len(input') = Len(input) - 1 /\ \A i \in 1..Len(input') : input'[i] = input[1 + i]
        /\ input[1].op = "101"
    BY <1>1, <1>3, HeadTailProperties DEF TypeOK
  <2>6. Rest \in Seq(UnitsSent) /\ Rest' \in Seq(UnitsSent) /\ Cut(Rest, 1, <<>>, Rest')
    <3>1. 1 + Len(<<>>) = 1 /\ 1 \in Nat /\ 1 + Len(<<>>) <= Len(input)
      BY <2>4, <2>5
    <3>2. \A i \in 1..Len(<<>>) : <<>>[i] = input[1 + i]
      BY <2>4
    <3>3. Len(input') = Len(input) - (1 + Len(<<>>))
      BY <2>5, <3>1
    <3>4. \A i \in 1..Len(input') : input'[i] = input[1 + Len(<<>>) + i]
      BY <2>5, <3>1
    <3> QED
      BY <1>1, <2>4, <2>5, <3>1, <3>2, <3>3, <3>4, CutInput
  <2>7. Len(Rest) > 0 /\ Rest # <<>> /\ Rest[1].op = "101" /\ Len(<<>>) <= Rest[1].len
    <3>1. Len(Rest) \in Nat \ {0} /\ Rest[1] = input[1]
      BY <1>1, RestHead
    <3>2. 1 \in 1..Len(Rest) /\ Rest # <<>>
      BY <3>1
    <3>3. Rest[1].len \in Nat
      BY <2>6, <3>2, UnitAt
    <3> QED
      BY <2>4, <2>5, <3>1, <3>2, <3>3
  <2>8. Rest[1].op # "byte" /\ ~IsData(Rest[1]) /\ ~BodyOpen(bodyType, bodyLength)
    BY <2>3, <2>7 DEF IsData, BodyOpen
  <2>9. Place(W, PayloadHeard(heard), body, bodyType, bodyLength, Rest')
    BY <2>3, <2>4, <2>6, <2>7, <2>8, PlaceSkip
  <2>10. Intact(Rest', sent)
    BY <2>3, <2>4, <2>6, CutFacts
  <2> HIDE DEF call
  <2>11. /\ HeardPrefix(Append(heard, call), W)
         /\ PayloadHeard(Append(heard, call)) = PayloadHeard(heard)
    BY <2>2, <2>3, PrefixEmptyCall DEF PayloadSoFar
  <2>12. PayloadSoFar'
    BY <1>1, <2>1, <2>11 DEF PayloadSoFar
  <2>13. InPlace'
    BY <1>1, <2>1, <2>3, <2>9, <2>10, <2>11 DEF InPlace
  <2> QED
    BY <2>12, <2>13
<1> QED
  BY <1>2, <1>3

LEMMA PlaceReadBody ==
  ASSUME TypeOK, InPlace, PayloadSoFar, ReadBody
  PROVE  InPlace' /\ PayloadSoFar'
<1>1. /\ pc = "reading" /\ state = "Opened" /\ UNCHANGED <<state, bev, sent, wire>>
      /\ BodyOpen(bodyType, bodyLength)
  BY DEF ReadBody, BodyBegun, BodyOpen, connection
<1>2. CASE AwaitBody
  BY <1>1, <1>2, PlaceSame DEF AwaitBody, buffers
<1>3. CASE CompleteBody
  <2> DEFINE a == IF TakesBody THEN SubSeq(input, 1, Missing) ELSE <<>>
             W == PayloadWritten(sent)
  <2>1. /\ bev /\ Intact(Rest, sent)
        /\ Place(W, PayloadHeard(heard), body, bodyType, bodyLength, Rest)
        /\ sent \in Seq(Answers \union Frames) /\ heard \in Seq(Calls)
        /\ body \in Seq(UnitsSent) /\ bodyLength \in Nat
        /\ \A u \in W : u \in UnitsSent /\ u.op = "byte"
    BY <1>1, PlaceNow
  <2>2. /\ a \in Seq(UnitsSent) /\ Len(a) <= Len(input) /\ Len(body) + Len(a) = bodyLength
        /\ \A i \in 1..Len(a) : a[i] = input[i]
        /\ input' \in Seq(UnitsSent) /\ Len(input') = Len(input) - Len(a)
        /\ \A i \in 1..Len(input') : input'[i] = input[Len(a) + i]
        /\ OnData(bodyType, body \o a)
    <3>0. input \in Seq(UnitsSent) /\ Len(input) \in Nat /\ Len(body) \in Nat
      BY DEF TypeOK
    <3>1. CASE TakesBody
      <4>1. /\ Missing \in Nat \ {0} /\ Missing <= Len(input) /\ Len(body) + Missing = bodyLength
        BY <2>1, <3>0, <3>1 DEF TakesBody, Missing
      <4>2. PICK m \in Nat \ {0} : m = Missing
        BY <4>1
      <4>3. /\ a = SubSeq(input, 1, m)
            /\ input' = SubSeq(input, m + 1, Len(input))
            /\ OnData(bodyType, body \o a)
        BY <1>3, <3>1, <4>2 DEF CompleteBody
      <4>4. m <= Len(input) /\ Len(body) + m = bodyLength
        BY <4>1, <4>2
      <4> HIDE DEF a
      <4>5. a \in Seq(UnitsSent) /\ Len(a) = m /\ \A i \in 1..Len(a) : a[i] = input[1 + i - 1]
        BY <3>0, <4>3, <4>4, PartType
      <4>6. /\ input' \in Seq(UnitsSent) /\ Len(input') = Len(input) - m
            /\ \A i \in 1..Len(input') : input'[i] = input[m + 1 + i - 1]
        BY <3>0, <4>3, <4>4, PartType
      <4>7. \A i \in 1..Len(a) : a[i] = input[i]
        BY <4>5
      <4>8. \A i \in 1..Len(input') : input'[i] = input[Len(a) + i]
        BY <4>5, <4>6
      <4> QED
        BY <4>3, <4>4, <4>5, <4>6, <4>7, <4>8
    <3>2. CASE ~TakesBody
      <4>1. a = <<>> /\ input' = input /\ Len(body) = bodyLength /\ OnData(bodyType, body)
        BY <1>3, <3>2 DEF CompleteBody
      <4> HIDE DEF a
      <4>2. body \o a = body /\ Len(a) = 0 /\ a \in Seq(UnitsSent)
        BY <2>1, <4>1, ConcatEmptySeq
      <4> QED
        BY <3>0, <4>1, <4>2
    <3> QED
      BY <3>1, <3>2
  <2> HIDE DEF a
  <2>3. Rest \in Seq(UnitsSent) /\ Rest' \in Seq(UnitsSent) /\ Cut(Rest, 0, a, Rest')
    <3>1. 0 + Len(a) = Len(a) /\ 0 \in Nat /\ \A i \in 1..Len(a) : 0 + i = i
      BY <2>2
    <3>2. /\ 0 + Len(a) <= Len(input)
          /\ Len(input') = Len(input) - (0 + Len(a))
      BY <2>2, <3>1
    <3>3. \A i \in 1..Len(a) : a[i] = input[0 + i]
      BY <2>2, <3>1
    <3>4. \A i \in 1..Len(input') : input'[i] = input[0 + Len(a) + i]
      BY <2>2, <3>1
    <3> QED
      BY <1>1, <2>2, <3>1, <3>2, <3>3, <3>4, CutInput
  <2>4. Intact(Rest', sent)
    <3>1. 0 \in Nat
      OBVIOUS
    <3> QED
      BY <2>1, <2>2, <2>3, <3>1, CutFacts
  <2>5. HeardPrefix(heard, W)
    BY DEF PayloadSoFar
  <2> HIDE DEF W
  <2>6. /\ a \in Seq(UnitsSent) /\ body \in Seq(UnitsSent) /\ bodyLength \in Nat /\ heard \in Seq(Calls)
        /\ BodyOpen(bodyType, bodyLength) /\ Len(body) + Len(a) = bodyLength /\ Intact(Rest, sent)
        /\ Place(W, PayloadHeard(heard), body, bodyType, bodyLength, Rest)
    BY <1>1, <2>1, <2>2
  <2>7. \A u \in W : u \in UnitsSent /\ u.op = "byte"
    BY <2>1
  <2>8. bodyType = "ping" => Place(W, PayloadHeard(heard), <<>>, "none", 0, Rest')
    BY <2>3, <2>5, <2>6, <2>7, PlaceBody
  <2>9. ASSUME NEW call \in Calls, bodyType # "ping", call.data = body \o a
        PROVE  /\ HeardPrefix(Append(heard, call), W)
               /\ Place(W, PayloadHeard(Append(heard, call)), <<>>, "none", 0, Rest')
    BY <2>3, <2>5, <2>6, <2>7, <2>9, PlaceBody
  <2>10. body \o a \in Seq(UnitsSent)
    BY <2>1, <2>2, ConcatProperties
  <2> QED
    BY <1>1, <2>1, <2>2, <2>4, <2>8, <2>9, <2>10, PlaceOnData DEF W
<1> QED
  BY <1>2, <1>3 DEF ReadBody

LEMMA PlaceReadFrame ==
  ASSUME TypeOK, InPlace, PayloadSoFar, ReadFrame, ~Misread
  PROVE  InPlace' /\ PayloadSoFar'
<1> DEFINE a == SubSeq(input, 2, There(Frame) + 1)
           W == PayloadWritten(sent)
<1>1. /\ pc = "reading" /\ state = "Opened" /\ UNCHANGED <<state, bev, sent, wire>>
      /\ input # <<>> /\ ~BodyOpen(bodyType, bodyLength)
  BY DEF ReadFrame, ReadsHeader, BodyBegun, BodyOpen, connection
<1>2. /\ bev /\ Intact(Rest, sent)
      /\ \A u \in Range(body) : u.id \in 1..Len(sent)
      /\ Place(W, PayloadHeard(heard), body, bodyType, bodyLength, Rest)
      /\ sent \in Seq(Answers \union Frames) /\ heard \in Seq(Calls)
      /\ body \in Seq(UnitsSent) /\ bodyLength \in Nat
    BY <1>1, PlaceNow
<1>3. SkipPong(Frame) \/ AddFrame(Frame)
  BY <1>1, HeaderSays DEF ReadFrame
<1>4. Rest[1] = Frame /\ Rest # <<>> /\ Len(Rest) > 0
  <2>1. Len(Rest) \in Nat \ {0} /\ Rest[1] = input[1]
    BY <1>1, RestHead
  <2>2. Frame = input[1]
    BY <1>1, FrameType
  <2> QED
    BY <2>1, <2>2
<1>5. ASSUME input' = Drained(Frame)
      PROVE  /\ a \in Seq(UnitsSent) /\ Len(a) <= Rest[1].len
             /\ Rest \in Seq(UnitsSent) /\ Rest' \in Seq(UnitsSent) /\ Cut(Rest, 1, a, Rest')
             /\ Intact(Rest', sent)
  <2>1. PICK h \in Nat : h = There(Frame)
    BY <1>1, FrameType
  <2>2. /\ h \in 0..(Len(input) - 1) /\ h <= Frame.len /\ Len(input) \in Nat \ {0}
        /\ input' \in Seq(UnitsSent) /\ Len(input') = Len(input) - 1 - h
        /\ \A i \in 1..Len(input') : input'[i] = input[h + 1 + i]
    BY <1>1, <1>5, <2>1, FrameType
  <2>3. a = SubSeq(input, 2, h + 1) /\ input \in Seq(UnitsSent)
    BY <2>1 DEF TypeOK
  <2> HIDE DEF a
  <2>4. a \in Seq(UnitsSent) /\ Len(a) = h /\ \A i \in 1..Len(a) : a[i] = input[2 + i - 1]
    BY <2>2, <2>3, PartType
  <2>5. 1 + Len(a) <= Len(input) /\ Len(input') = Len(input) - (1 + Len(a)) /\ 1 \in Nat
    BY <2>2, <2>4
  <2>6. \A i \in 1..Len(a) : a[i] = input[1 + i]
    BY <2>4
  <2>7. \A i \in 1..Len(input') : input'[i] = input[1 + Len(a) + i]
    BY <2>2, <2>4
  <2>8. Rest \in Seq(UnitsSent) /\ Rest' \in Seq(UnitsSent) /\ Cut(Rest, 1, a, Rest')
    BY <1>1, <2>2, <2>4, <2>5, <2>6, <2>7, CutInput
  <2>9. Intact(Rest', sent)
    BY <1>2, <2>4, <2>5, <2>8, CutFacts
  <2> QED
    BY <1>4, <2>2, <2>4, <2>8, <2>9
<1> HIDE DEF a, W
<1>6. CASE SkipPong(Frame)
  <2>1. /\ input' = Drained(Frame) /\ UNCHANGED <<body, bodyType, bodyLength, pc, heard>>
        /\ Frame.op = "pong"
    BY <1>6 DEF SkipPong
  <2>2. Rest[1].op # "byte" /\ ~IsData(Rest[1])
    BY <1>4, <2>1 DEF IsData
  <2>3. Place(W, PayloadHeard(heard), body, bodyType, bodyLength, Rest')
    BY <1>1, <1>2, <1>4, <1>5, <2>1, <2>2, PlaceSkip DEF W
  <2>4. InPlace'
    BY <1>1, <1>2, <1>5, <2>1, <2>3 DEF InPlace, W
  <2>5. PayloadSoFar'
    BY <1>1, <2>1 DEF PayloadSoFar
  <2> QED
    BY <2>4, <2>5
<1>7. CASE AddFrame(Frame)
  <2>1. /\ input' = Drained(Frame) /\ ~Refused(Rest[1])
        /\ Rest[1].op \in {"text", "binary", "continue", "ping"}
    BY <1>4, <1>7 DEF AddFrame
  <2>2. TypeAfter(Frame) = After(Rest[1].op, bodyType)
    BY <1>4 DEF TypeAfter, After
  <2>3. body \o a \in Seq(UnitsSent) /\ Range(body \o a) = Range(body) \union Range(a)
    BY <1>2, <1>5, <2>1, ConcatProperties, RangeConcat
  <2>4. CASE Rest[1].fin /\ Len(body \o a) = Rest[1].len
    <3>1. OnData(TypeAfter(Frame), body \o a)
      BY <1>4, <1>7, <2>4 DEF AddFrame, a
    <3>2. HeardPrefix(heard, W)
      BY DEF PayloadSoFar, W
    <3>3. TypeAfter(Frame) = "ping" => Place(W, PayloadHeard(heard), <<>>, "none", 0, Rest')
      BY <1>1, <1>2, <1>4, <1>5, <2>1, <2>2, <2>4, <3>2, PlaceHeard DEF W
    <3>4. ASSUME NEW call \in Calls, TypeAfter(Frame) # "ping", call.data = body \o a
          PROVE  /\ HeardPrefix(Append(heard, call), W)
                 /\ Place(W, PayloadHeard(Append(heard, call)), <<>>, "none", 0, Rest')
      BY <1>1, <1>2, <1>4, <1>5, <2>1, <2>2, <2>4, <3>2, <3>4, PlaceHeard DEF W
    <3> QED
      BY <1>1, <1>2, <1>5, <2>1, <2>3, <3>1, <3>3, <3>4, PlaceOnData, ZenonT(60) DEF W
  <2>5. CASE ~(Rest[1].fin /\ Len(body \o a) = Rest[1].len)
    <3>1. /\ body' = body \o a /\ bodyType' = TypeAfter(Frame) /\ bodyLength' = Rest[1].len
          /\ UNCHANGED <<pc, heard>>
      BY <1>4, <1>7, <2>5 DEF AddFrame, a
    <3>2. Place(W, PayloadHeard(heard), body \o a, TypeAfter(Frame), Rest[1].len, Rest')
      BY <1>1, <1>2, <1>4, <1>5, <2>1, <2>2, <2>5, PlaceAdd DEF W
    <3>3. \A u \in Range(body \o a) : u.id \in 1..Len(sent)
      <4>1. Range(a) \subseteq Range(Rest)
        BY <1>2, <1>5, <2>1, CutFacts
      <4>2. \A u \in Range(Rest) : u.id \in 1..Len(sent)
        BY <1>2, <1>5, <2>1 DEF Intact, Range
      <4> QED
        BY <1>2, <2>3, <4>1, <4>2
    <3>4. InPlace'
      BY <1>1, <1>2, <1>5, <2>1, <3>1, <3>2, <3>3 DEF InPlace, W
    <3>5. PayloadSoFar'
      BY <1>1, <3>1 DEF PayloadSoFar
    <3> QED
      BY <3>4, <3>5
  <2> QED
    BY <2>4, <2>5
<1> QED
  BY <1>3, <1>6, <1>7

LEMMA PlaceInit == Init => InPlace /\ PayloadSoFar
<1> SUFFICES ASSUME Init PROVE InPlace /\ PayloadSoFar
  OBVIOUS
<1>1. /\ Rest = <<>> /\ sent = <<>> /\ heard = <<>> /\ body = <<>> /\ bodyType = "none" /\ bodyLength = 0
      /\ state = "None" /\ pc = "new"
  BY DEF Init, Rest
<1>2. Range(<<>>) = {} /\ DOMAIN <<>> = {} /\ Len(<<>>) = 0 /\ <<>> \in Seq(UnitsSent)
  BY DEF Range
<1>3. PayloadWritten(<<>>) = {} /\ PayloadHeard(<<>>) = {}
  BY <1>2 DEF PayloadWritten, PayloadHeard
<1>4. HeardPrefix(<<>>, {})
  BY <1>2, <1>3 DEF HeardPrefix
<1>5. Intact(<<>>, <<>>)
  BY <1>2 DEF Intact, InOrder
<1>6. Place({}, {}, <<>>, "none", 0, <<>>)
  BY <1>2, AfterBody DEF NothingLost, Precede
<1>7. InPlace
  BY <1>1, <1>2, <1>3, <1>5, <1>6 DEF InPlace
<1>8. PayloadSoFar
  BY <1>1, <1>3, <1>4 DEF PayloadSoFar
<1> QED
  BY <1>7, <1>8

(***************************************************************************)
(* As long as no payload is parsed as a header, every step keeps the place *)
(* in the stream and the prefix.                                           *)
(***************************************************************************)
Placed == ~astray => InPlace /\ PayloadSoFar

LEMMA PlaceNext ==
  ASSUME TypeOK, Fresh, Placed, [Next]_vars
  PROVE  Placed'
<1> SUFFICES ASSUME ~astray'
             PROVE  InPlace' /\ PayloadSoFar'
  BY DEF Placed
<1>a. ~astray /\ (ReadFrame \/ AwaitFrame => ~Misread)
  <2>1. CASE ReadsHeader
    BY <2>1 DEF ReadsHeader, Misread, AwaitFrame
  <2>2. CASE AwaitFrame
    BY <2>2 DEF AwaitFrame, ReadFrame, ReadsHeader
  <2>3. CASE ~ReadsHeader /\ ~AwaitFrame
    <3>1. ~ReadFrame /\ ~ReadClose
      BY <2>3 DEF ReadFrame, ReadClose
    <3>2. astray' = astray
      BY <2>3, <3>1 DEF Next, Read, vars, connection, buffers, PeerWrites, Open, DnsAnswers, Connect, Written,
         Error, Arrive, Handshake, ReadBody, CompleteBody, AwaitBody, ScriptReturns, CloseReturns, Close, Drop
    <3> QED
      BY <2>3, <3>1, <3>2
  <2> QED
    BY <2>1, <2>2, <2>3
<1>b. InPlace /\ PayloadSoFar
  BY <1>a DEF Placed
<1>1. ASSUME NEW f \in Answers \union Frames, PeerWrites(f)
      PROVE  InPlace' /\ PayloadSoFar'
  BY <1>1, <1>b, PlacePeerWrites
<1>2. CASE Open
  BY <1>2, <1>b, PlaceSame DEF Open, Fresh, buffers
<1>3. CASE DnsAnswers
  <2>1. CASE Closes
    BY <1>3, <1>b, <2>1, PlaceClosed DEF DnsAnswers
  <2>2. CASE ~Closes
    BY <1>3, <1>b, <2>2, PlaceSame DEF DnsAnswers, Resolved, ResolveFailed, Closes, buffers
  <2> QED
    BY <2>1, <2>2
<1>4. CASE Connect
  BY <1>4, <1>b, PlaceSame DEF Connect, buffers
<1>5. CASE Written
  BY <1>5, <1>b, PlaceSame DEF Written, buffers
<1>6. CASE Error
  BY <1>6, <1>b, PlaceClosed DEF Error, Closes
<1>7. ASSUME NEW k \in 1..Len(wire), Arrive(k)
      PROVE  InPlace' /\ PayloadSoFar'
  BY <1>7, <1>b, PlaceArrive
<1>8. CASE Handshake
  BY <1>8, <1>b, PlaceHandshake
<1>9. CASE ReadBody
  BY <1>9, <1>b, PlaceReadBody
<1>10. CASE ReadFrame
  BY <1>10, <1>a, <1>b, PlaceReadFrame
<1>11. CASE ReadClose
  BY <1>11, <1>b, PlaceClosed DEF ReadClose, Closes
<1>12. CASE AwaitFrame
  BY <1>12, <1>b, PlaceSame DEF AwaitFrame, connection
<1>13. CASE ScriptReturns
  <2>1. CASE gone
    BY <1>13, <1>b, <2>1, PlaceOver DEF ScriptReturns, Free
  <2>2. CASE ~gone
    BY <1>13, <1>b, <2>2, PlaceSame DEF ScriptReturns
  <2> QED
    BY <2>1, <2>2
<1>14. CASE CloseReturns
  BY <1>14, <1>b, PlaceOver DEF CloseReturns, Free
<1>15. CASE Close
  BY <1>15, <1>b, PlaceOver DEF Close, Free
<1>16. CASE Drop
  <2>1. CASE pc = "idle"
    BY <1>16, <1>b, <2>1, PlaceOver DEF Drop, Free
  <2>2. CASE pc # "idle"
    BY <1>16, <1>b, <2>2, PlaceSame DEF Drop
  <2> QED
    BY <2>1, <2>2
<1>17. CASE UNCHANGED vars
  BY <1>17, <1>b, PlaceSame DEF vars, connection, buffers, InPlace
<1> QED
  BY <1>1, <1>2, <1>3, <1>4, <1>5, <1>6, <1>7, <1>8, <1>9, <1>10, <1>11, <1>12, <1>13,
     <1>14, <1>15, <1>16, <1>17 DEF Next, Read

(***************************************************************************)
(* Until payload is parsed as a header, what the script hears is a prefix  *)
(* of what the peer wrote as data: however TCP cuts the stream and the     *)
(* peer its messages, whatever the script does, the payload is heard in    *)
(* order and nothing is left out before what is heard (onReading).         *)
(***************************************************************************)
THEOREM PayloadKept == Spec => []PayloadPreserved
<1>1. Init => TypeOK /\ Fresh /\ Placed
  BY InitType, PlaceInit DEF Init, Fresh, Placed
<1>2. TypeOK /\ Fresh /\ Placed /\ [Next]_vars => (TypeOK /\ Fresh /\ Placed)'
  BY NextType, FreshNext, PlaceNext
<1>3. Placed => PayloadPreserved
  BY DEF Placed, PayloadSoFar, HeardPrefix, PayloadPreserved
<1> QED
  BY <1>1, <1>2, <1>3, PTL DEF Spec

-----------------------------------------------------------------------------
(* The socket is a message stream.                                         *)

(***************************************************************************)
(* Induction over numbers, in the form of sets.                            *)
(***************************************************************************)
LEMMA LeastNat ==
  ASSUME NEW T, T \subseteq Nat, T # {}
  PROVE  \E n \in T : \A m \in T : n <= m
<1>1. PICK x \in T : \A y \in T : <<y, x>> \notin OpToRel(<, Nat)
  BY NatLessThanWellFounded, WFMin, Zenon
<1>2. \A y \in T : ~(y < x)
  <2> SUFFICES ASSUME NEW y \in T PROVE ~(y < x)
    OBVIOUS
  <2>1. x \in Nat /\ y \in Nat /\ <<y, x>> \notin OpToRel(<, Nat)
    BY <1>1
  <2> QED
    BY <2>1, Zenon DEF OpToRel
<1> QED
  BY <1>2

LEMMA Induct ==
  ASSUME NEW T, 0 \in T, \A n \in Nat : n \in T => n + 1 \in T
  PROVE  Nat \subseteq T
<1> DEFINE U == {n \in Nat : n \notin T}
<1> SUFFICES ASSUME U # {} PROVE FALSE
  OBVIOUS
<1>1. PICK n \in U : \A m \in U : n <= m
  BY LeastNat
<1>2. n # 0 /\ n - 1 \in Nat /\ n - 1 \in T
  BY <1>1
<1> QED
  BY <1>1, <1>2

(***************************************************************************)
(* The recursion of FlattenSeq: done[i] is the first i sequences, one      *)
(* behind the other.                                                       *)
(***************************************************************************)
Joined(s, t) == s \o t

Upto(seqs, done, k) ==
  /\ DOMAIN done = 0..k
  /\ done[0] = <<>>
  /\ \A i \in 1..k : done[i] = Joined(done[i - 1], seqs[i])

Flattens(seqs, done) == Upto(seqs, done, Len(seqs))

LEMMA FlattensExists ==
  ASSUME NEW seqs, Len(seqs) \in Nat
  PROVE  \E done : Flattens(seqs, done)
<1> DEFINE T == {k \in Nat : \E done : Upto(seqs, done, k)}
<1>1. 0 \in T
  <2>1. Upto(seqs, [i \in 0..0 |-> <<>>], 0)
    BY DEF Upto
  <2> QED
    BY <2>1
<1>2. ASSUME NEW k \in Nat, k \in T PROVE k + 1 \in T
  <2>1. PICK done : Upto(seqs, done, k)
    BY <1>2
  <2> DEFINE more == [i \in 0..(k + 1) |-> IF i = k + 1 THEN Joined(done[k], seqs[k + 1]) ELSE done[i]]
  <2>2. more[0] = <<>> /\ DOMAIN more = 0..(k + 1)
    BY <2>1 DEF Upto
  <2>3. ASSUME NEW i \in 1..(k + 1) PROVE more[i] = Joined(more[i - 1], seqs[i])
    <3>1. CASE i = k + 1
      BY <3>1
    <3>2. CASE i \in 1..k
      <4>1. more[i] = done[i] /\ more[i - 1] = done[i - 1]
        BY <3>2
      <4> QED
        BY <2>1, <3>2, <4>1 DEF Upto
    <3> QED
      BY <3>1, <3>2
  <2> HIDE DEF more
  <2>4. Upto(seqs, more, k + 1)
    BY <2>2, <2>3 DEF Upto
  <2> QED
    BY <2>4
<1> HIDE DEF T
<1>3. Nat \subseteq T
  BY <1>1, <1>2, Induct
<1>4. Len(seqs) \in T
  BY <1>3
<1> QED
  BY <1>4 DEF T, Flattens

LEMMA FlattensType ==
  ASSUME NEW S, NEW seqs \in Seq(Seq(S)), NEW done, Flattens(seqs, done)
  PROVE  \A i \in 0..Len(seqs) : done[i] \in Seq(S)
<1> DEFINE T == {k \in Nat : k <= Len(seqs) => done[k] \in Seq(S)}
<1>1. 0 \in T
  <2>1. done[0] = <<>>
    BY Zenon DEF Flattens, Upto
  <2>2. <<>> \in Seq(S)
    OBVIOUS
  <2>3. done[0] \in Seq(S)
    BY <2>1, <2>2, Zenon
  <2> QED
    BY <2>3
<1>2. ASSUME NEW k \in Nat, k \in T PROVE k + 1 \in T
  <2>1. CASE k + 1 <= Len(seqs)
    <3>1. k <= Len(seqs) /\ k + 1 \in 1..Len(seqs) /\ (k + 1) - 1 = k
      BY <2>1
    <3>2. done[k + 1] = Joined(done[k], seqs[k + 1])
      BY <3>1 DEF Flattens, Upto
    <3>3. seqs[k + 1] \in Seq(S) /\ done[k] \in Seq(S)
      BY <1>2, <3>1
    <3>4. done[k] \o seqs[k + 1] \in Seq(S)
      BY <3>3
    <3>5. done[k + 1] \in Seq(S)
      BY <3>2, <3>4, Zenon DEF Joined
    <3> QED
      BY <3>5
  <2>2. CASE ~(k + 1 <= Len(seqs))
    BY <2>2
  <2> QED
    BY <2>1, <2>2
<1> HIDE DEF T
<1>3. Nat \subseteq T
  BY <1>1, <1>2, Induct
<1> QED
  BY <1>3 DEF T

(***************************************************************************)
(* FlattenSeq is the end of its recursion.                                 *)
(***************************************************************************)
LEMMA Flattened ==
  ASSUME NEW S, NEW seqs \in Seq(Seq(S)), NEW done, Flattens(seqs, done)
  PROVE  FlattenSeq(seqs) = done[Len(seqs)]
<1> DEFINE n == Len(seqs)
           Same(f) == f = [i \in 1..n |-> IF i = 1 THEN seqs[i] ELSE Joined(f[i - 1], seqs[i])]
           flatten == CHOOSE f : Same(f)
<1>0. n \in Nat /\ done[0] = <<>> /\ \A i \in 1..n : done[i] = Joined(done[i - 1], seqs[i])
  BY DEF Flattens, Upto
<1>1. n # 0 => done[1] = seqs[1]
  <2> SUFFICES ASSUME n # 0 PROVE done[1] = seqs[1]
    OBVIOUS
  <2>1. 1 \in 1..n /\ seqs[1] \in Seq(S)
    BY <1>0
  <2>2. done[1] = Joined(<<>>, seqs[1])
    BY <1>0, <2>1
  <2>3. <<>> \o seqs[1] = seqs[1]
    BY <2>1, ConcatEmptySeq
  <2> QED
    BY <2>2, <2>3 DEF Joined
<1>2. CASE n = 0
  <2>1. seqs = <<>>
    BY <1>2
  <2> QED
    BY <1>0, <1>2, <2>1 DEF FlattenSeq
<1>3. CASE n # 0
  <2>1. Same([i \in 1..n |-> done[i]])
    <3> DEFINE f == [i \in 1..n |-> done[i]]
    <3>1. ASSUME NEW i \in 1..n PROVE f[i] = IF i = 1 THEN seqs[i] ELSE Joined(f[i - 1], seqs[i])
      <4>1. CASE i = 1
        BY <1>1, <1>3, <4>1
      <4>2. CASE i # 1
        <5>1. i - 1 \in 1..n
          BY <1>0, <4>2
        <5> QED
          BY <1>0, <4>2, <5>1
      <4> QED
        BY <4>1, <4>2
    <3> QED
      BY <3>1
  <2>2. Same(flatten)
    BY <2>1
  <2>3. FlattenSeq(seqs) = flatten[n]
    BY <1>3 DEF FlattenSeq, Joined
  <2> HIDE DEF flatten
  <2>4. \A i \in 1..n : flatten[i] = IF i = 1 THEN seqs[i] ELSE Joined(flatten[i - 1], seqs[i])
    BY <2>2
  <2> DEFINE T == {k \in Nat : k + 1 <= n => flatten[k + 1] = done[k + 1]}
  <2>5. 0 \in T
    BY <1>0, <1>1, <1>3, <2>4
  <2>6. ASSUME NEW k \in Nat, k \in T PROVE k + 1 \in T
    <3>1. CASE (k + 1) + 1 <= n
      <4>1. (k + 1) + 1 \in 1..n /\ ((k + 1) + 1) - 1 = k + 1 /\ (k + 1) + 1 # 1 /\ k + 1 <= n
        BY <1>0, <3>1
      <4>2. flatten[(k + 1) + 1] = Joined(flatten[k + 1], seqs[(k + 1) + 1])
        BY <2>4, <4>1
      <4>3. done[(k + 1) + 1] = Joined(done[k + 1], seqs[(k + 1) + 1])
        BY <1>0, <4>1
      <4> QED
        BY <2>6, <4>1, <4>2, <4>3
    <3>2. CASE ~((k + 1) + 1 <= n)
      BY <3>2
    <3> QED
      BY <3>1, <3>2
  <2> HIDE DEF T
  <2>7. Nat \subseteq T
    BY <2>5, <2>6, Induct
  <2>8. n - 1 \in T
    BY <1>0, <1>3, <2>7
  <2> QED
    BY <1>0, <1>3, <2>3, <2>8 DEF T
<1> QED
  BY <1>2, <1>3

(***************************************************************************)
(* One more sequence is added at the end.                                  *)
(***************************************************************************)
LEMMA FlattenAppend ==
  ASSUME NEW S, NEW seqs \in Seq(Seq(S)), NEW c \in Seq(S)
  PROVE  /\ FlattenSeq(seqs) \in Seq(S)
         /\ FlattenSeq(Append(seqs, c)) = FlattenSeq(seqs) \o c
<1> DEFINE n == Len(seqs)
           more == Append(seqs, c)
<1>1. n \in Nat
  OBVIOUS
<1>2. PICK done : Flattens(seqs, done)
  BY <1>1, FlattensExists
<1>3. FlattenSeq(seqs) = done[n] /\ done[n] \in Seq(S)
  BY <1>1, <1>2, Flattened, FlattensType
<1>4. /\ more \in Seq(Seq(S)) /\ Len(more) = n + 1 /\ more[n + 1] = c
      /\ \A i \in 1..n : more[i] = seqs[i]
  OBVIOUS
<1> DEFINE again == [i \in 0..(n + 1) |-> IF i = n + 1 THEN Joined(done[n], c) ELSE done[i]]
<1>5. Upto(seqs, done, n)
  BY <1>2 DEF Flattens
<1> HIDE DEF more, n
<1>6. again[0] = <<>> /\ DOMAIN again = 0..(n + 1)
  BY <1>1, <1>5 DEF Upto
<1>7. ASSUME NEW i \in 1..(n + 1) PROVE again[i] = Joined(again[i - 1], more[i])
  <2>1. CASE i = n + 1
    BY <1>1, <1>4, <2>1
  <2>2. CASE i \in 1..n
    <3>1. again[i] = done[i] /\ again[i - 1] = done[i - 1]
      BY <1>1, <2>2
    <3> QED
      BY <1>4, <1>5, <2>2, <3>1 DEF Upto
  <2> QED
    BY <1>1, <2>1, <2>2
<1>8. again[n + 1] = Joined(done[n], c)
  BY <1>1
<1> HIDE DEF again
<1>9. Flattens(more, again)
  BY <1>4, <1>6, <1>7 DEF Flattens, Upto
<1>10. FlattenSeq(more) = again[n + 1]
  BY <1>4, <1>9, Flattened
<1> QED
  BY <1>3, <1>8, <1>10 DEF Joined, more

(***************************************************************************)
(* The messages that were written, and that were heard.                    *)
(***************************************************************************)
Mail == [type : Opcodes \union {"none"}, data : Seq(UnitsSent)]

LEMMA MessageType ==
  ASSUME NEW f \in Answers \union Frames, NEW i \in Nat
  PROVE  /\ Message(i, f) \in Seq(Mail)
         /\ Len(Message(i, f)) = IF IsData(f) THEN 1 ELSE 0
         /\ IsData(f) => Message(i, f)[1] = [type |-> f.op, data |-> Payload(i, f)]
<1>1. CASE IsData(f)
  <2>1. f.op \in Opcodes
    BY <1>1 DEF IsData, Opcodes
  <2> DEFINE m == [type |-> f.op, data |-> Payload(i, f)]
  <2>2. m \in Mail
    BY <2>1, UnitsType DEF Mail
  <2> HIDE DEF m
  <2>3. <<m>> \in Seq(Mail) /\ Len(<<m>>) = 1 /\ <<m>>[1] = m
    BY <2>2
  <2> QED
    BY <1>1, <2>3 DEF Message, m
<1>2. CASE ~IsData(f)
  BY <1>2 DEF Message
<1> QED
  BY <1>1, <1>2

LEMMA MessageHeardType ==
  ASSUME NEW h \in Calls
  PROVE  /\ MessageHeard(h) \in Seq(Mail)
         /\ h.cb # "data" => MessageHeard(h) = <<>>
<1>1. CASE h.cb = "data"
  <2> DEFINE m == [type |-> h.type, data |-> h.data]
  <2>1. m \in Mail
    BY DEF Mail, Calls, Opcodes
  <2> HIDE DEF m
  <2>2. <<m>> \in Seq(Mail)
    BY <2>1
  <2> QED
    BY <1>1, <2>2 DEF MessageHeard, m
<1>2. CASE h.cb # "data"
  BY <1>2 DEF MessageHeard
<1> QED
  BY <1>1, <1>2

(***************************************************************************)
(* A sequence with one element more.                                       *)
(***************************************************************************)
LEMMA LastOne ==
  ASSUME NEW S, NEW s \in Seq(S), NEW c \in S, NEW n \in Nat, Len(s) = n,
         NEW g, \A i \in 1..(n + 1) : Append(s, c)[i] = g[i]
  PROVE  [i \in 1..(n + 1) |-> g[i]] = Append(s, c)
<1>1. /\ Append(s, c) \in Seq(S) /\ Len(Append(s, c)) = n + 1
  OBVIOUS
<1> DEFINE t == Append(s, c)
           more == [i \in 1..(n + 1) |-> g[i]]
<1>2. t \in Seq(S) /\ Len(t) = n + 1
  BY <1>1
<1> HIDE DEF t
<1>3. \A i \in 1..(n + 1) : more[i] = t[i] /\ t[i] \in S
  BY <1>2 DEF t
<1>4. more \in [1..(n + 1) -> S]
  BY <1>3
<1>5. more \in Seq(S) /\ Len(more) = n + 1
  BY <1>4
<1>6. more = t
  BY <1>2, <1>3, <1>5, SeqEqual
<1> QED
  BY <1>6 DEF t

LEMMA SentGrows ==
  ASSUME TypeOK
  PROVE  /\ MessagesSent \in Seq(Mail)
         /\ \A f \in Answers \union Frames :
              sent' = Append(sent, f) => MessagesSent' = MessagesSent \o Message(Len(sent) + 1, f)
<1> DEFINE n == Len(sent)
           seqs == [i \in DOMAIN sent |-> Message(i, sent[i])]
<1>1. sent \in Seq(Answers \union Frames) /\ n \in Nat /\ DOMAIN sent = 1..n
  BY DEF TypeOK
<1>2. \A i \in 1..n : sent[i] \in Answers \union Frames
  BY <1>1
<1>3. seqs \in Seq(Seq(Mail)) /\ Len(seqs) = n
  <2>1. \A i \in 1..n : Message(i, sent[i]) \in Seq(Mail)
    <3> SUFFICES ASSUME NEW i \in 1..n PROVE Message(i, sent[i]) \in Seq(Mail)
      OBVIOUS
    <3>1. sent[i] \in Answers \union Frames /\ i \in Nat
      BY <1>1, <1>2
    <3> QED
      BY <3>1, MessageType
  <2>2. seqs \in [1..n -> Seq(Mail)]
    BY <1>1, <2>1
  <2> HIDE DEF seqs, n
  <2> QED
    BY <1>1, <2>2
<1>4. FlattenSeq(seqs) \in Seq(Mail)
  <2>1. <<>> \in Seq(Mail)
    OBVIOUS
  <2> HIDE DEF seqs
  <2> QED
    BY <1>3, <2>1, FlattenAppend
<1>5. ASSUME NEW f \in Answers \union Frames, sent' = Append(sent, f)
      PROVE  MessagesSent' = MessagesSent \o Message(Len(sent) + 1, f)
  <2> DEFINE c == Message(n + 1, f)
             more == [i \in 1..(n + 1) |-> Message(i, sent'[i])]
  <2>1. c \in Seq(Mail)
    <3>1. n + 1 \in Nat
      BY <1>1
    <3> HIDE DEF n
    <3> QED
      BY <3>1, MessageType
  <2>2. /\ DOMAIN sent' = 1..(n + 1) /\ sent'[n + 1] = f
        /\ \A i \in 1..n : sent'[i] = sent[i]
    BY <1>1, <1>5
  <2>3. more = Append(seqs, c)
    <3>1. /\ Append(seqs, c) \in Seq(Seq(Mail)) /\ Len(Append(seqs, c)) = n + 1
          /\ Append(seqs, c)[n + 1] = c
          /\ \A i \in 1..n : Append(seqs, c)[i] = seqs[i]
      <4> HIDE DEF seqs, c, n
      <4> QED
        BY <1>3, <2>1
    <3>2. \A i \in 1..n : seqs[i] = Message(i, sent[i])
      BY <1>1
    <3> HIDE DEF seqs
    <3>3. \A i \in 1..(n + 1) : Append(seqs, c)[i] = more[i]
      BY <1>1, <2>2, <3>1, <3>2
    <3>4. more = [i \in 1..(n + 1) |-> more[i]]
      OBVIOUS
    <3> DEFINE S == Seq(Mail)
    <3>5. seqs \in Seq(S) /\ Len(seqs) = n /\ c \in S /\ n \in Nat
      BY <1>1, <1>3, <2>1
    <3> HIDE DEF more, c, n, S
    <3> QED
      BY <3>3, <3>4, <3>5, LastOne
  <2>4. MessagesSent' = FlattenSeq(more)
    BY <2>2 DEF MessagesSent
  <2>5. FlattenSeq(Append(seqs, c)) = FlattenSeq(seqs) \o c
    <3> HIDE DEF seqs, c
    <3> QED
      BY <1>3, <2>1, FlattenAppend
  <2> QED
    BY <2>3, <2>4, <2>5 DEF MessagesSent
<1> QED
  BY <1>4, <1>5 DEF MessagesSent

LEMMA HeardGrows ==
  ASSUME TypeOK
  PROVE  /\ MessagesHeard \in Seq(Mail)
         /\ \A h \in Calls :
              heard' = Append(heard, h) => MessagesHeard' = MessagesHeard \o MessageHeard(h)
<1> DEFINE n == Len(heard)
           seqs == [i \in DOMAIN heard |-> MessageHeard(heard[i])]
<1>1. heard \in Seq(Calls) /\ n \in Nat /\ DOMAIN heard = 1..n
  BY DEF TypeOK, Calls
<1>2. \A i \in 1..n : heard[i] \in Calls
  BY <1>1
<1>3. seqs \in Seq(Seq(Mail)) /\ Len(seqs) = n
  <2>1. \A i \in 1..n : MessageHeard(heard[i]) \in Seq(Mail)
    BY <1>2, MessageHeardType
  <2>2. seqs \in [1..n -> Seq(Mail)]
    BY <1>1, <2>1
  <2> HIDE DEF seqs, n
  <2> QED
    BY <1>1, <2>2
<1>4. FlattenSeq(seqs) \in Seq(Mail)
  <2>1. <<>> \in Seq(Mail)
    OBVIOUS
  <2> HIDE DEF seqs
  <2> QED
    BY <1>3, <2>1, FlattenAppend
<1>5. ASSUME NEW h \in Calls, heard' = Append(heard, h)
      PROVE  MessagesHeard' = MessagesHeard \o MessageHeard(h)
  <2> DEFINE c == MessageHeard(h)
             more == [i \in 1..(n + 1) |-> MessageHeard(heard'[i])]
  <2>1. c \in Seq(Mail)
    BY MessageHeardType
  <2>2. /\ DOMAIN heard' = 1..(n + 1) /\ heard'[n + 1] = h
        /\ \A i \in 1..n : heard'[i] = heard[i]
    BY <1>1, <1>5
  <2>3. more = Append(seqs, c)
    <3>1. /\ Append(seqs, c) \in Seq(Seq(Mail)) /\ Len(Append(seqs, c)) = n + 1
          /\ Append(seqs, c)[n + 1] = c
          /\ \A i \in 1..n : Append(seqs, c)[i] = seqs[i]
      <4> HIDE DEF seqs, c, n
      <4> QED
        BY <1>3, <2>1
    <3>2. \A i \in 1..n : seqs[i] = MessageHeard(heard[i])
      BY <1>1
    <3> HIDE DEF seqs
    <3>3. \A i \in 1..(n + 1) : Append(seqs, c)[i] = more[i]
      BY <1>1, <2>2, <3>1, <3>2
    <3>4. more = [i \in 1..(n + 1) |-> more[i]]
      OBVIOUS
    <3> DEFINE S == Seq(Mail)
    <3>5. seqs \in Seq(S) /\ Len(seqs) = n /\ c \in S /\ n \in Nat
      BY <1>1, <1>3, <2>1
    <3> HIDE DEF more, c, n, S
    <3> QED
      BY <3>3, <3>4, <3>5, LastOne
  <2>4. MessagesHeard' = FlattenSeq(more)
    BY <2>2 DEF MessagesHeard
  <2>5. FlattenSeq(Append(seqs, c)) = FlattenSeq(seqs) \o c
    <3> HIDE DEF seqs, c
    <3> QED
      BY <1>3, <2>1, FlattenAppend
  <2> QED
    BY <2>3, <2>4, <2>5 DEF MessagesHeard
<1> QED
  BY <1>4, <1>5 DEF MessagesHeard

(***************************************************************************)
(* at[i] units of the stream, and nth[i] messages, are in the first i      *)
(* frames.                                                                 *)
(***************************************************************************)
Marks(at, nth) ==
  /\ at \in [0..Len(sent) -> Nat] /\ nth \in [0..Len(sent) -> Nat]
  /\ at[0] = 0 /\ nth[0] = 0 /\ nth[Len(sent)] = Len(MessagesSent)
  /\ \A i \in 1..Len(sent) :
       /\ at[i] = at[i - 1] + 1 + sent[i].len /\ at[i] <= at[Len(sent)]
       /\ nth[i] = nth[i - 1] + Len(Message(i, sent[i])) /\ nth[i] <= Len(MessagesSent)
       /\ IsData(sent[i]) => MessagesSent[nth[i]] = Message(i, sent[i])[1]

(***************************************************************************)
(* Input and wire hold what comes after k units of the stream.             *)
(***************************************************************************)
Left(at, k) ==
  /\ k \in Nat /\ at[Len(sent)] = k + Len(Rest)
  /\ \A i \in 1..Len(sent) : \A j \in 1..(1 + sent[i].len) :
       at[i - 1] + j > k => Rest[at[i - 1] + j - k] = Units(i, sent[i])[j]

(***************************************************************************)
(* p frames are read, and of the next one, if its header is, as much of    *)
(* its payload as is in the body.                                          *)
(***************************************************************************)
Reads(at, p) ==
  /\ bodyType = "none" => body = <<>> /\ Left(at, at[p])
  /\ bodyType # "none" =>
       /\ p < Len(sent)
       /\ bodyType = sent[p + 1].op
       /\ bodyLength = sent[p + 1].len
       /\ Len(body) < bodyLength
       /\ \A j \in 1..Len(body) : body[j] = Payload(p + 1, sent[p + 1])[j]
       /\ Left(at, at[p] + 1 + Len(body))

(***************************************************************************)
(* The messages in what is read are what was heard.                        *)
(***************************************************************************)
Hears(nth, p) ==
  /\ Len(MessagesHeard) = nth[p]
  /\ \A j \in 1..nth[p] : MessagesHeard[j] = MessagesSent[j]

Follows(at, nth, p) ==
  /\ Marks(at, nth)
  /\ p \in 0..Len(sent)
  /\ Reads(at, p)
  /\ Hears(nth, p)
  /\ IF state = "Opened" THEN p > 0 ELSE p = 0 /\ bodyType = "none"

(***************************************************************************)
(* While the socket is not closed, the script hears what was written.      *)
(***************************************************************************)
Following == ~Over => \E at, nth, p : Follows(at, nth, p)

(***************************************************************************)
(* An answer comes before the frames, and what reads has a connection.     *)
(***************************************************************************)
Answered ==
  /\ \A i \in 1..Len(sent) : sent[i] \in Answers \union Frames /\ (i > 1 => sent[i] \in Frames)
  /\ pc = "reading" => bev
  /\ state = "Closed" => ~bev \/ pc \in {"closing", "refusing"}

LEMMA AnsweredPeer ==
  ASSUME TypeOK, Answered, NEW f \in Answers \union Frames, PeerWrites(f)
  PROVE  Answered'
<1>1. sent \in Seq(Answers \union Frames) /\ Len(sent) \in Nat
  BY DEF TypeOK
<1>2. sent' = Append(sent, f) /\ UNCHANGED <<pc, bev, state>> /\ (sent # <<>> => f \in Frames)
  BY DEF PeerWrites, connection
<1>3. /\ Len(sent') = Len(sent) + 1 /\ sent'[Len(sent) + 1] = f
      /\ \A i \in 1..Len(sent) : sent'[i] = sent[i]
  BY <1>1, <1>2
<1>4. sent = <<>> => Len(sent) = 0
  OBVIOUS
<1>5. ASSUME NEW i \in 1..(Len(sent) + 1)
      PROVE  sent'[i] \in Answers \union Frames /\ (i > 1 => sent'[i] \in Frames)
  <2>1. CASE i = Len(sent) + 1
    <3>1. i > 1 => sent # <<>>
      BY <1>1, <1>4, <2>1
    <3> QED
      BY <1>2, <1>3, <2>1, <3>1
  <2>2. CASE i \in 1..Len(sent)
    BY <1>3, <2>2 DEF Answered
  <2> QED
    BY <1>1, <2>1, <2>2
<1> QED
  BY <1>2, <1>3, <1>5 DEF Answered

LEMMA AnsweredNext ==
  ASSUME TypeOK, Fresh, Answered, [Next]_vars
  PROVE  Answered'
<1>1. CASE \E f \in Answers \union Frames : PeerWrites(f)
  BY <1>1, AnsweredPeer
<1>2. CASE UNCHANGED vars
  BY <1>2 DEF Answered, vars, connection
<1>3. CASE Open \/ DnsAnswers \/ Connect \/ Written \/ Error
  BY <1>3 DEF Answered, Fresh, Open, DnsAnswers, Resolved, ResolveFailed, Closes, OnClose, Connect, Written, Error, TypeOK
<1>4. CASE \E k \in 1..Len(wire) : Arrive(k)
  BY <1>4 DEF Answered, Arrive, connection
<1>5. CASE Read
  BY <1>5 DEF Answered, Read, Handshake, ReadBody, CompleteBody, AwaitBody, ReadFrame, ReadsHeader, SkipPong, AddFrame,
       ReadClose, ReadsHeader, AwaitFrame, OnData, Closes, OnClose, connection, TypeOK
<1>6. CASE ScriptReturns \/ CloseReturns \/ Close \/ Drop
  BY <1>6 DEF Answered, ScriptReturns, CloseReturns, Close, Drop, Free, connection, TypeOK
<1> QED
  BY <1>1, <1>2, <1>3, <1>4, <1>5, <1>6 DEF Next

LEMMA MarksMore ==
  ASSUME TypeOK, NEW at, NEW nth, Marks(at, nth), NEW f \in Answers \union Frames, sent' = Append(sent, f)
  PROVE  \E more, next :
           /\ Marks(more, next)'
           /\ \A i \in 0..Len(sent) : more[i] = at[i] /\ next[i] = nth[i]
           /\ more[Len(sent) + 1] = at[Len(sent)] + 1 + f.len
<1> DEFINE n == Len(sent)
           m == Message(n + 1, f)
<1>1. sent \in Seq(Answers \union Frames) /\ n \in Nat
  BY DEF TypeOK
<1>2. /\ Len(sent') = n + 1 /\ sent'[n + 1] = f
      /\ \A i \in 1..n : sent'[i] = sent[i]
  BY <1>1
<1>3. f.len \in Nat /\ m \in Seq(Mail) /\ Len(m) \in Nat /\ (IsData(f) => Len(m) = 1)
  <2>1. n + 1 \in Nat
    BY <1>1
  <2> HIDE DEF n
  <2>2. m \in Seq(Mail) /\ Len(m) = IF IsData(f) THEN 1 ELSE 0
    BY <2>1, MessageType
  <2>3. f.len \in Nat
    BY <2>1, UnitsType
  <2> HIDE DEF m
  <2> QED
    BY <2>2, <2>3
<1>4. MessagesSent \in Seq(Mail) /\ MessagesSent' = MessagesSent \o m
  BY SentGrows
<1> HIDE DEF n, m
<1>5. /\ Len(MessagesSent) \in Nat
      /\ Len(MessagesSent') = Len(MessagesSent) + Len(m)
      /\ \A i \in 1..Len(MessagesSent) : MessagesSent'[i] = MessagesSent[i]
      /\ \A i \in 1..Len(m) : MessagesSent'[Len(MessagesSent) + i] = m[i]
  BY <1>3, <1>4
<1>a. PICK more : more = [i \in 0..(n + 1) |-> IF i = n + 1 THEN at[n] + 1 + f.len ELSE at[i]]
  OBVIOUS
<1>b. PICK next : next = [i \in 0..(n + 1) |-> IF i = n + 1 THEN nth[n] + Len(m) ELSE nth[i]]
  OBVIOUS
<1>6. /\ at \in [0..n -> Nat] /\ nth \in [0..n -> Nat]
      /\ at[0] = 0 /\ nth[0] = 0 /\ nth[n] = Len(MessagesSent)
      /\ \A i \in 1..n :
           /\ at[i] = at[i - 1] + 1 + sent[i].len /\ at[i] <= at[n]
           /\ nth[i] = nth[i - 1] + Len(Message(i, sent[i])) /\ nth[i] <= Len(MessagesSent)
           /\ IsData(sent[i]) => MessagesSent[nth[i]] = Message(i, sent[i])[1]
  BY DEF Marks, n
<1>7. /\ \A i \in 0..n : more[i] = at[i] /\ next[i] = nth[i] /\ at[i] \in Nat /\ nth[i] \in Nat
      /\ more[n + 1] = at[n] + 1 + f.len /\ next[n + 1] = nth[n] + Len(m)
      /\ at[n] \in Nat /\ nth[n] \in Nat
  BY <1>1, <1>6, <1>a, <1>b
<1>8. more \in [0..(n + 1) -> Nat] /\ next \in [0..(n + 1) -> Nat]
  <2>1. ASSUME NEW i \in 0..(n + 1) PROVE more[i] \in Nat /\ next[i] \in Nat
    <3>1. CASE i = n + 1
      BY <1>3, <1>7, <3>1, SMTT(30)
    <3>2. CASE i \in 0..n
      BY <1>7, <3>2
    <3> QED
      BY <1>1, <3>1, <3>2
  <2> QED
    BY <2>1, <1>a, <1>b
<1>9. more[0] = 0 /\ next[0] = 0 /\ next[n + 1] = Len(MessagesSent')
  <2>1. 0 \in 0..n
    BY <1>1
  <2>2. more[0] = 0 /\ next[0] = 0
    BY <1>6, <1>7, <2>1
  <2>3. next[n + 1] = nth[n] + Len(m) /\ nth[n] = Len(MessagesSent)
    BY <1>6, <1>7, Zenon
  <2> QED
    BY <1>5, <2>2, <2>3
<1>10. ASSUME NEW i \in 1..(n + 1)
       PROVE  /\ more[i] = more[i - 1] + 1 + sent'[i].len /\ more[i] <= more[n + 1]
              /\ next[i] = next[i - 1] + Len(Message(i, sent'[i])) /\ next[i] <= Len(MessagesSent')
              /\ IsData(sent'[i]) => MessagesSent'[next[i]] = Message(i, sent'[i])[1]
  <2>1. CASE i = n + 1
    <3>1. i - 1 = n /\ i - 1 \in 0..n
      BY <1>1, <2>1
    <3>2. more[i] = more[i - 1] + 1 + sent'[i].len /\ more[i] <= more[n + 1]
      BY <1>1, <1>2, <1>3, <1>7, <2>1, <3>1, SMTT(30)
    <3>3. next[i] = next[i - 1] + Len(Message(i, sent'[i])) /\ next[i] <= Len(MessagesSent')
      <4>1. Message(i, sent'[i]) = m
        BY <1>2, <2>1 DEF m
      <4>2. next[i] = nth[n] + Len(m) /\ next[i - 1] = nth[n] /\ next[i] = Len(MessagesSent')
        BY <1>1, <1>7, <1>9, <2>1, <3>1
      <4>3. Len(MessagesSent') \in Nat
        BY <1>3, <1>5
      <4> QED
        BY <4>1, <4>2, <4>3
    <3>4. IsData(sent'[i]) => MessagesSent'[next[i]] = Message(i, sent'[i])[1]
      <4> SUFFICES ASSUME IsData(f) PROVE MessagesSent'[next[i]] = m[1]
        BY <1>2, <2>1 DEF m
      <4>1. next[i] = Len(MessagesSent) + 1 /\ 1 \in 1..Len(m)
        <5>1. next[i] = nth[n] + Len(m) /\ nth[n] = Len(MessagesSent) /\ Len(m) = 1
          BY <1>3, <1>6, <1>7, <2>1, Zenon
        <5> QED
          BY <5>1
      <4> QED
        BY <1>5, <4>1
    <3> QED
      BY <3>2, <3>3, <3>4
  <2>2. CASE i \in 1..n
    <3>1. i - 1 \in 0..n /\ i \in 0..n
      BY <1>1, <2>2
    <3>2. more[i] = more[i - 1] + 1 + sent'[i].len
      BY <1>2, <1>6, <1>7, <2>2, <3>1
    <3>3. more[i] <= more[n + 1]
      <4>1. more[i] = at[i] /\ at[i] <= at[n] /\ at[i] \in Nat
        BY <1>6, <1>7, <2>2, <3>1
      <4> QED
        BY <1>3, <1>7, <4>1
    <3>4. next[i] = next[i - 1] + Len(Message(i, sent'[i]))
      BY <1>2, <1>6, <1>7, <2>2, <3>1
    <3>5. next[i] <= Len(MessagesSent) /\ next[i] \in Nat
      BY <1>6, <1>7, <2>2, <3>1
    <3>6. next[i] <= Len(MessagesSent')
      BY <1>3, <1>5, <3>5
    <3>7. IsData(sent'[i]) => MessagesSent'[next[i]] = Message(i, sent'[i])[1]
      <4> SUFFICES ASSUME IsData(sent[i]) PROVE MessagesSent'[next[i]] = Message(i, sent[i])[1]
        BY <1>2, <2>2
      <4>1. MessagesSent[nth[i]] = Message(i, sent[i])[1] /\ next[i] = nth[i]
        BY <1>6, <1>7, <2>2, <3>1
      <4>2. Len(Message(i, sent[i])) = 1 /\ nth[i] = nth[i - 1] + Len(Message(i, sent[i]))
        <5>1. sent[i] \in Answers \union Frames /\ i \in Nat
          BY <1>1, <2>2 DEF n
        <5> QED
          BY <1>6, <2>2, <5>1, MessageType
      <4>3. nth[i] \in 1..Len(MessagesSent)
        BY <1>5, <1>7, <3>1, <3>5, <4>1, <4>2
      <4> QED
        BY <1>5, <4>1, <4>3
    <3> QED
      BY <3>2, <3>3, <3>4, <3>6, <3>7
  <2>3. i = n + 1 \/ i \in 1..n
    BY <1>1
  <2> QED
    BY <2>1, <2>2, <2>3, Zenon
<1>11. Marks(more, next)'
  <2>1. Len(sent') = n + 1
    BY <1>2
  <2> QED
    BY <1>8, <1>9, <1>10, <2>1, ZenonT(40) DEF Marks
<1>12. \A i \in 0..Len(sent) : more[i] = at[i] /\ next[i] = nth[i]
  BY <1>7 DEF n
<1>13. more[Len(sent) + 1] = at[Len(sent)] + 1 + f.len
  BY <1>7 DEF n
<1> QED
  BY <1>11, <1>12, <1>13, Zenon

(***************************************************************************)
(* Where the units of a frame are.                                         *)
(***************************************************************************)
LEMMA RestType == TypeOK => Rest \in Seq(UnitsSent) /\ Len(Rest) \in Nat
  BY ConcatProperties DEF TypeOK, Rest

LEMMA ConcatAt ==
  ASSUME NEW S, NEW s \in Seq(S), NEW t \in Seq(S)
  PROVE  /\ Len(s \o t) = Len(s) + Len(t)
         /\ \A j \in 1..Len(s) : (s \o t)[j] = s[j]
         /\ \A j \in 1..Len(t) : (s \o t)[Len(s) + j] = t[j]
  OBVIOUS

LEMMA UnitPayload ==
  ASSUME NEW f \in Answers \union Frames, NEW i \in Nat, NEW j \in 1..f.len
  PROVE  Units(i, f)[j + 1] = Payload(i, f)[j]
<1> DEFINE u == [op |-> "byte", id |-> i, fin |-> FALSE, len |-> j]
<1>1. \A k \in 1..f.len : Units(i, f)[k + 1] = [op |-> "byte", id |-> i, fin |-> FALSE, len |-> k]
  BY UnitsContent
<1>2. \A k \in 1..f.len : Payload(i, f)[k] = [op |-> "byte", id |-> i, fin |-> FALSE, len |-> k]
  BY UnitsContent
<1>3. Units(i, f)[j + 1] = u
  BY <1>1, Zenon
<1>4. Payload(i, f)[j] = u
  BY <1>2, Zenon
<1> QED
  BY <1>3, <1>4, Zenon

LEMMA MarkAt ==
  ASSUME TypeOK, NEW at, NEW nth, Marks(at, nth), NEW i \in 1..Len(sent)
  PROVE  /\ at[i] \in Nat /\ at[i - 1] \in Nat /\ at[Len(sent)] \in Nat /\ sent[i].len \in Nat
         /\ at[i] = at[i - 1] + 1 + sent[i].len /\ at[i] <= at[Len(sent)]
         /\ nth[i] \in Nat /\ nth[i - 1] \in Nat
         /\ nth[i] = nth[i - 1] + Len(Message(i, sent[i])) /\ nth[i] <= Len(MessagesSent)
         /\ IsData(sent[i]) => MessagesSent[nth[i]] = Message(i, sent[i])[1]
<1>1. sent \in Seq(Answers \union Frames) /\ Len(sent) \in Nat
  BY DEF TypeOK
<1>2. sent[i] \in Answers \union Frames /\ i \in Nat
  BY <1>1
<1>3. sent[i].len \in Nat
  BY <1>2, UnitsType
<1>4. i \in 0..Len(sent) /\ i - 1 \in 0..Len(sent) /\ Len(sent) \in 0..Len(sent)
  BY <1>1
<1>5. at \in [0..Len(sent) -> Nat] /\ nth \in [0..Len(sent) -> Nat]
  BY DEF Marks
<1>6. at[i] \in Nat /\ at[i - 1] \in Nat /\ at[Len(sent)] \in Nat /\ nth[i] \in Nat /\ nth[i - 1] \in Nat
  BY <1>4, <1>5
<1> QED
  BY <1>3, <1>6 DEF Marks

(***************************************************************************)
(* What the peer writes comes after what is left, and what is taken comes  *)
(* before it.                                                              *)
(***************************************************************************)
LEMMA LeftMore ==
  ASSUME TypeOK, NEW at, NEW nth, Marks(at, nth), NEW k, Left(at, k),
         NEW f \in Answers \union Frames, PeerWrites(f), NEW more,
         \A i \in 0..Len(sent) : more[i] = at[i],
         more[Len(sent) + 1] = at[Len(sent)] + 1 + f.len
  PROVE  Left(more, k)'
<1> DEFINE n == Len(sent)
           u == Units(n + 1, f)
<1>1. sent \in Seq(Answers \union Frames) /\ n \in Nat /\ sent' = Append(sent, f)
  BY DEF TypeOK, PeerWrites
<1>2. /\ Len(sent') = n + 1 /\ sent'[n + 1] = f
      /\ \A i \in 1..n : sent'[i] = sent[i]
  BY <1>1
<1>3. f.len \in Nat /\ u \in Seq(UnitsSent) /\ Len(u) = f.len + 1
  <2>1. n + 1 \in Nat
    BY <1>1
  <2> HIDE DEF n
  <2> QED
    BY <2>1, UnitsType
<1>4. Rest \in Seq(UnitsSent) /\ Len(Rest) \in Nat /\ Rest' = Rest \o u
  BY RestType, RestPeer
<1>5. k \in Nat /\ at[n] = k + Len(Rest) /\ more[n + 1] = at[n] + 1 + f.len /\ \A i \in 0..n : more[i] = at[i]
  BY DEF Left
<1> HIDE DEF n, u
<1>6. /\ Len(Rest') = Len(Rest) + f.len + 1
      /\ \A j \in 1..Len(Rest) : Rest'[j] = Rest[j]
      /\ \A j \in 1..Len(u) : Rest'[Len(Rest) + j] = u[j]
  <2>1. Len(Rest') = Len(Rest) + Len(u)
    BY <1>3, <1>4, ConcatAt
  <2>2. \A j \in 1..Len(Rest) : Rest'[j] = Rest[j]
    BY <1>3, <1>4, ConcatAt
  <2>3. \A j \in 1..Len(u) : Rest'[Len(Rest) + j] = u[j]
    BY <1>3, <1>4, ConcatAt
  <2> QED
    BY <1>3, <1>4, <2>1, <2>2, <2>3, SMTT(30)
<1>7. more[n + 1] = k + Len(Rest')
  BY <1>3, <1>4, <1>5, <1>6, SMTT(30)
<1>8. ASSUME NEW i \in 1..(n + 1), NEW j \in 1..(1 + sent'[i].len), more[i - 1] + j > k
      PROVE  Rest'[more[i - 1] + j - k] = Units(i, sent'[i])[j]
  <2>1. CASE i = n + 1
    <3>1. more[i - 1] = k + Len(Rest) /\ sent'[i] = f
      <4>1. i - 1 = n /\ n \in 0..n
        BY <1>1, <2>1
      <4> QED
        BY <1>2, <1>5, <2>1, <4>1
    <3>2. more[i - 1] + j - k = Len(Rest) + j /\ j \in 1..Len(u)
      BY <1>3, <1>4, <1>5, <3>1
    <3> QED
      BY <1>6, <2>1, <3>1, <3>2 DEF u
  <2>2. CASE i \in 1..n
    <3>1. i - 1 \in 0..n /\ sent'[i] = sent[i] /\ more[i - 1] = at[i - 1]
      BY <1>1, <1>2, <1>5, <2>2
    <3>2. /\ at[i] \in Nat /\ at[i - 1] \in Nat /\ at[n] \in Nat /\ sent[i].len \in Nat
          /\ at[i] = at[i - 1] + 1 + sent[i].len /\ at[i] <= at[n]
      BY <2>2, MarkAt DEF n
    <3>3. j \in 1..(1 + sent[i].len) /\ at[i - 1] + j > k
      BY <1>8, <3>1
    <3>4. at[i - 1] + j - k \in 1..Len(Rest)
      <4>1. PICK a, b, c, l, r \in Nat :
              a = at[i - 1] /\ b = at[i] /\ c = at[n] /\ l = sent[i].len /\ r = Len(Rest)
        BY <1>4, <3>2
      <4>2. b = a + 1 + l /\ b <= c /\ c = k + r /\ k \in Nat /\ j \in 1..(1 + l) /\ a + j > k
        BY <1>5, <3>2, <3>3, <4>1
      <4>3. a + j - k \in 1..r
        BY <4>2
      <4> QED
        BY <4>1, <4>3
    <3>5. Rest[at[i - 1] + j - k] = Units(i, sent[i])[j]
      BY <2>2, <3>3 DEF Left, n
    <3> QED
      BY <1>6, <3>1, <3>4, <3>5
  <2>3. i = n + 1 \/ i \in 1..n
    BY <1>1
  <2> QED
    BY <2>1, <2>2, <2>3, Zenon
<1> QED
  <2>1. Len(sent') = n + 1
    BY <1>2
  <2> QED
    BY <1>5, <1>7, <1>8, <2>1 DEF Left

LEMMA LeftTaken ==
  ASSUME TypeOK, NEW at, NEW nth, Marks(at, nth), NEW k, Left(at, k),
         NEW d \in 0..Len(input), UNCHANGED <<wire, sent>>,
         input' \in Seq(UnitsSent), Len(input') = Len(input) - d,
         \A i \in 1..Len(input') : input'[i] = input[d + i]
  PROVE  Left(at, k + d)'
<1> DEFINE n == Len(sent)
<1>1. /\ Rest \in Seq(UnitsSent) /\ d \in 0..Len(Rest) /\ Len(Rest') = Len(Rest) - d
      /\ \A i \in 1..Len(Rest') : Rest'[i] = Rest[d + i]
  BY RestParts
<1>2. Len(Rest) \in Nat /\ d \in Nat /\ k \in Nat /\ at[n] = k + Len(Rest) /\ sent' = sent
  BY <1>1 DEF Left
<1> HIDE DEF n
<1>3. k + d \in Nat /\ at[n] = (k + d) + Len(Rest')
  BY <1>1, <1>2
<1>4. ASSUME NEW i \in 1..n, NEW j \in 1..(1 + sent[i].len), at[i - 1] + j > k + d
      PROVE  Rest'[at[i - 1] + j - (k + d)] = Units(i, sent[i])[j]
  <2>1. /\ at[i] \in Nat /\ at[i - 1] \in Nat /\ at[n] \in Nat /\ sent[i].len \in Nat
        /\ at[i] = at[i - 1] + 1 + sent[i].len /\ at[i] <= at[n]
    BY MarkAt DEF n
  <2>2. at[i - 1] + j - (k + d) \in 1..Len(Rest')
    <3>1. PICK a, b, c, l, r \in Nat :
            a = at[i - 1] /\ b = at[i] /\ c = at[n] /\ l = sent[i].len /\ r = Len(Rest)
      BY <1>2, <2>1
    <3>2. /\ b = a + 1 + l /\ b <= c /\ c = k + r /\ k \in Nat /\ d \in Nat
          /\ j \in 1..(1 + l) /\ a + j > k + d
      BY <1>1, <1>2, <1>4, <2>1, <3>1
    <3>3. a + j - (k + d) \in 1..(r - d)
      BY <3>2
    <3>4. Len(Rest') = r - d
      BY <1>1, <3>1
    <3> QED
      BY <3>1, <3>3, <3>4
  <2>3. d + (at[i - 1] + j - (k + d)) = at[i - 1] + j - k /\ at[i - 1] + j > k
    <3>1. PICK a \in Nat : a = at[i - 1]
      BY <2>1
    <3>2. j \in Int /\ a + j > k + d /\ k \in Nat /\ d \in Nat
      BY <1>2, <1>4, <2>1, <3>1
    <3>3. d + (a + j - (k + d)) = a + j - k /\ a + j > k
      BY <3>2
    <3> QED
      BY <3>1, <3>3
  <2>4. Rest[at[i - 1] + j - k] = Units(i, sent[i])[j]
    BY <2>3 DEF Left, n
  <2> QED
    BY <1>1, <2>2, <2>3, <2>4
<1>5. ASSUME NEW i \in 1..Len(sent'), NEW j \in 1..(1 + sent'[i].len), at[i - 1] + j > k + d
      PROVE  Rest'[at[i - 1] + j - (k + d)] = Units(i, sent'[i])[j]
  <2>1. i \in 1..n /\ j \in 1..(1 + sent[i].len)
    BY <1>2 DEF n
  <2> QED
    BY <1>2, <1>4, <1>5, <2>1
<1>6. at[Len(sent')] = (k + d) + Len(Rest')
  BY <1>2, <1>3 DEF n
<1> QED
  BY <1>3, <1>5, <1>6 DEF Left

(***************************************************************************)
(* A frame that is heard is the next message, a ping is none.              *)
(***************************************************************************)
HearsNext ==
  \/ MessagesHeard' = MessagesHeard
  \/ /\ Len(MessagesHeard) < Len(MessagesSent)
     /\ MessagesHeard' = Append(MessagesHeard, MessagesSent[Len(MessagesHeard) + 1])

LEMMA HearsMore ==
  ASSUME TypeOK, NEW at, NEW nth, Marks(at, nth), NEW p \in 0..Len(sent), p < Len(sent), Hears(nth, p),
         sent[p + 1].op \in {"text", "binary", "ping"}, UNCHANGED sent,
         OnData(sent[p + 1].op, Payload(p + 1, sent[p + 1]))
  PROVE  Hears(nth, p + 1)' /\ HearsNext
<1>1. PICK i : i = p + 1
  OBVIOUS
<1>2. PICK f : f = sent[i]
  OBVIOUS
<1>3. i \in 1..Len(sent) /\ i \in Nat /\ i - 1 = p /\ f \in Answers \union Frames
  BY <1>1, <1>2 DEF TypeOK
<1>4. /\ nth[i] \in Nat /\ nth[p] \in Nat
      /\ nth[i] = nth[p] + Len(Message(i, f)) /\ nth[i] <= Len(MessagesSent)
      /\ IsData(f) => MessagesSent[nth[i]] = Message(i, f)[1]
  BY <1>2, <1>3, MarkAt
<1>5. MessagesSent' = MessagesSent
  BY DEF MessagesSent
<1>6. MessagesHeard \in Seq(Mail) /\ MessagesSent \in Seq(Mail)
  BY HeardGrows, SentGrows
<1>7. Len(MessagesHeard) = nth[p] /\ \A j \in 1..nth[p] : MessagesHeard[j] = MessagesSent[j]
  BY DEF Hears
<1>8. OnData(f.op, Payload(i, f)) /\ f.op \in {"text", "binary", "ping"}
  BY <1>1, <1>2
<1>9. CASE f.op = "ping"
  <2>1. heard' = heard /\ ~IsData(f)
    BY <1>8, <1>9 DEF OnData, IsData
  <2>2. MessagesHeard' = MessagesHeard /\ Len(Message(i, f)) = 0
    BY <1>3, <2>1, MessageType DEF MessagesHeard
  <2>3. nth[i] = nth[p]
    BY <1>4, <2>2
  <2> QED
    BY <1>1, <1>5, <1>7, <2>2, <2>3 DEF Hears, HearsNext
<1>10. CASE f.op # "ping"
  <2> DEFINE h == [cb |-> "data", type |-> f.op, data |-> Payload(i, f)]
             m == [type |-> f.op, data |-> Payload(i, f)]
  <2>1. Payload(i, f) \in Seq(UnitsSent)
    BY <1>3, UnitsType
  <2>2. h \in Calls /\ heard' = Append(heard, h) /\ IsData(f)
    BY <1>8, <1>10, <2>1 DEF Calls, OnData, Call, IsData
  <2>3. MessageHeard(h) = <<m>>
    BY DEF MessageHeard
  <2> HIDE DEF h
  <2>4. MessagesHeard' = MessagesHeard \o <<m>>
    BY <2>2, <2>3, HeardGrows
  <2>5. Len(Message(i, f)) = 1 /\ Message(i, f)[1] = m
    BY <1>3, <2>2, MessageType
  <2>6. nth[i] = nth[p] + 1 /\ MessagesSent[nth[i]] = m
    BY <1>4, <2>2, <2>5
  <2>7. m \in Mail
    BY <1>8, <2>1 DEF Mail, Opcodes
  <2> HIDE DEF m
  <2>8. MessagesHeard' = Append(MessagesHeard, m)
    BY <1>6, <2>4, <2>7
  <2>9. /\ Len(MessagesHeard') = nth[p] + 1 /\ MessagesHeard'[nth[p] + 1] = m
        /\ \A j \in 1..nth[p] : MessagesHeard'[j] = MessagesHeard[j]
    BY <1>6, <1>7, <2>7, <2>8
  <2>10. HearsNext
    BY <1>4, <1>7, <2>6, <2>8 DEF HearsNext
  <2>11. \A j \in 1..(nth[p] + 1) : MessagesHeard'[j] = MessagesSent[j]
    <3> SUFFICES ASSUME NEW j \in 1..(nth[p] + 1) PROVE MessagesHeard'[j] = MessagesSent[j]
      OBVIOUS
    <3>1. j = nth[p] + 1 \/ j \in 1..nth[p]
      BY <1>4
    <3> QED
      BY <1>7, <2>6, <2>9, <3>1
  <2> QED
    BY <1>1, <1>5, <2>6, <2>9, <2>10, <2>11 DEF Hears
<1> QED
  BY <1>9, <1>10

(***************************************************************************)
(* Steps that leave the stream alone, and what the peer writes.            *)
(***************************************************************************)
LEMMA FollowsSame ==
  ASSUME NEW at, NEW nth, NEW p, Follows(at, nth, p), UNCHANGED <<sent, body, bodyType, bodyLength, heard>>,
         Rest' = Rest, state' = "Opened" <=> state = "Opened"
  PROVE  Follows(at, nth, p)'
<1>1. MessagesSent' = MessagesSent /\ MessagesHeard' = MessagesHeard
  BY DEF MessagesSent, MessagesHeard
<1>2. \A k : Left(at, k)' <=> Left(at, k)
  BY DEF Left
<1>3. Marks(at, nth)' /\ Hears(nth, p)'
  BY <1>1 DEF Follows, Marks, Hears
<1>4. Reads(at, p)'
  BY <1>2 DEF Follows, Reads
<1> QED
  BY <1>3, <1>4 DEF Follows

LEMMA FollowsPeer ==
  ASSUME TypeOK, NEW at, NEW nth, NEW p, Follows(at, nth, p), NEW f \in Answers \union Frames, PeerWrites(f)
  PROVE  \E more, next : Follows(more, next, p)'
<1>1. /\ sent \in Seq(Answers \union Frames) /\ Len(sent) \in Nat /\ sent' = Append(sent, f)
      /\ UNCHANGED <<body, bodyType, bodyLength, heard, state>>
  BY DEF TypeOK, PeerWrites, connection, buffers
<1>2. /\ Len(sent') = Len(sent) + 1 /\ sent'[Len(sent) + 1] = f
      /\ \A i \in 1..Len(sent) : sent'[i] = sent[i]
  BY <1>1
<1>3. Marks(at, nth) /\ p \in 0..Len(sent) /\ Reads(at, p) /\ Hears(nth, p)
  BY DEF Follows
<1>4. PICK more, next :
        /\ Marks(more, next)'
        /\ \A i \in 0..Len(sent) : more[i] = at[i] /\ next[i] = nth[i]
        /\ more[Len(sent) + 1] = at[Len(sent)] + 1 + f.len
  BY <1>1, <1>3, MarksMore
<1>5. more[p] = at[p] /\ next[p] = nth[p]
  BY <1>3, <1>4
<1>6. ASSUME NEW k, Left(at, k) PROVE Left(more, k)'
  BY <1>3, <1>4, <1>6, LeftMore
<1>7. Reads(more, p)'
  <2>1. CASE bodyType = "none"
    BY <1>1, <1>3, <1>5, <1>6, <2>1 DEF Reads
  <2>2. CASE bodyType # "none"
    <3>1. /\ p < Len(sent)
          /\ bodyType = sent[p + 1].op /\ bodyLength = sent[p + 1].len /\ Len(body) < bodyLength
          /\ \A j \in 1..Len(body) : body[j] = Payload(p + 1, sent[p + 1])[j]
          /\ Left(at, at[p] + 1 + Len(body))
      BY <1>3, <2>2 DEF Reads
    <3>2. p + 1 \in 1..Len(sent) /\ p < Len(sent') /\ sent'[p + 1] = sent[p + 1]
      BY <1>1, <1>2, <1>3, <3>1
    <3>3. Left(more, at[p] + 1 + Len(body))'
      <4>1. PICK k : k = at[p] + 1 + Len(body)
        OBVIOUS
      <4>2. Left(more, k)'
        BY <1>6, <3>1, <4>1
      <4>3. k = at[p] + 1 + Len(body')
        BY <1>1, <4>1
      <4> QED
        BY <4>2, <4>3, Zenon
    <3> QED
      BY <1>1, <1>5, <2>2, <3>1, <3>2, <3>3 DEF Reads
  <2> QED
    BY <2>1, <2>2
<1>8. Hears(next, p)'
  <2>1. MessagesSent \in Seq(Mail) /\ MessagesSent' = MessagesSent \o Message(Len(sent) + 1, f)
    BY <1>1, SentGrows
  <2>2. Message(Len(sent) + 1, f) \in Seq(Mail)
    <3>1. Len(sent) + 1 \in Nat
      BY <1>1
    <3> QED
      BY <3>1, MessageType
  <2>3. \A j \in 1..Len(MessagesSent) : MessagesSent'[j] = MessagesSent[j]
    BY <2>1, <2>2, ConcatAt
  <2>4. nth[p] \in Nat /\ nth[p] <= Len(MessagesSent)
    <3>1. CASE p = 0
      BY <1>3, <2>1, <3>1 DEF Marks
    <3>2. CASE p \in 1..Len(sent)
      BY <1>3, <3>2, MarkAt
    <3> QED
      BY <1>1, <1>3, <3>1, <3>2
  <2>5. \A j \in 1..nth[p] : j \in 1..Len(MessagesSent)
    BY <2>1, <2>4
  <2>6. MessagesHeard' = MessagesHeard
    BY <1>1 DEF MessagesHeard
  <2> QED
    BY <1>3, <1>5, <2>3, <2>5, <2>6 DEF Hears
<1>9. p \in 0..Len(sent')
  BY <1>1, <1>2, <1>3
<1> QED
  BY <1>1, <1>4, <1>7, <1>8, <1>9 DEF Follows

(***************************************************************************)
(* The next header is where what is left begins.                           *)
(***************************************************************************)
LEMMA NextHeader ==
  ASSUME TypeOK, NEW at, NEW nth, Marks(at, nth), NEW p \in 0..Len(sent), Left(at, at[p]), input # <<>>
  PROVE  /\ p < Len(sent) /\ p + 1 \in 1..Len(sent) /\ sent[p + 1] \in Answers \union Frames
         /\ \A j \in 1..(1 + sent[p + 1].len) : Rest[j] = Units(p + 1, sent[p + 1])[j]
         /\ Frame.op = sent[p + 1].op /\ Frame.fin = sent[p + 1].fin /\ Frame.len = sent[p + 1].len
         /\ at[p] \in Nat /\ at[p + 1] = at[p] + 1 + sent[p + 1].len
<1>1. sent \in Seq(Answers \union Frames) /\ Len(sent) \in Nat /\ p \in Nat
  BY DEF TypeOK
<1>2. Len(Rest) \in Nat \ {0} /\ Rest[1] = Frame
  BY RestHead, FrameType
<1>3. at[Len(sent)] = at[p] + Len(Rest) /\ at[p] \in Nat
  BY DEF Left
<1>4. p # Len(sent)
  BY <1>2, <1>3
<1>5. p < Len(sent) /\ p + 1 \in 1..Len(sent) /\ (p + 1) - 1 = p
  BY <1>1, <1>4
<1>6. PICK i : i = p + 1
  OBVIOUS
<1>7. PICK f : f = sent[i]
  OBVIOUS
<1>8. i \in 1..Len(sent) /\ i \in Nat /\ i - 1 = p /\ f \in Answers \union Frames
  BY <1>1, <1>5, <1>6, <1>7
<1>9. f.len \in Nat /\ at[i] = at[p] + 1 + f.len
  BY <1>7, <1>8, MarkAt
<1>10. ASSUME NEW j \in 1..(1 + f.len) PROVE Rest[j] = Units(i, f)[j]
  <2>1. at[p] + j > at[p] /\ at[p] + j - at[p] = j
    BY <1>3, <1>9
  <2> QED
    BY <1>7, <1>8, <2>1 DEF Left
<1>11. Rest[1] = Units(i, f)[1]
  BY <1>9, <1>10
<1>12. Units(i, f)[1].op = f.op /\ Units(i, f)[1].len = f.len /\ Units(i, f)[1].fin = f.fin
  BY <1>8, UnitsType
<1> QED
  BY <1>2, <1>3, <1>5, <1>6, <1>7, <1>8, <1>9, <1>10, <1>11, <1>12

(***************************************************************************)
(* The answer to the handshake is no message.                              *)
(***************************************************************************)
LEMMA FollowsHandshake ==
  ASSUME TypeOK, NEW at, NEW nth, NEW p, Follows(at, nth, p), Handshake, Head(input).op = "101"
  PROVE  Follows(at, nth, 1)' /\ MessagesHeard' = MessagesHeard
<1>1. /\ state = "Connected" /\ input # <<>> /\ input' = Tail(input) /\ state' = "Opened"
      /\ heard' = Call("open", "none", <<>>)
      /\ UNCHANGED <<sent, wire, body, bodyType, bodyLength>>
  BY DEF Handshake
<1>2. /\ input \in Seq(UnitsSent) /\ 1 \in 0..Len(input) /\ input' \in Seq(UnitsSent)
      /\ Len(input') = Len(input) - 1
      /\ \A i \in 1..Len(input') : input'[i] = input[1 + i]
  BY <1>1, HeadTailProperties DEF TypeOK
<1>3. /\ Marks(at, nth) /\ p = 0 /\ bodyType = "none" /\ body = <<>> /\ Left(at, at[0]) /\ Hears(nth, 0)
      /\ at[0] = 0 /\ nth[0] = 0 /\ p \in 0..Len(sent)
  BY <1>1 DEF Follows, Reads, Marks
<1>4. /\ 1 \in 1..Len(sent) /\ sent[1] \in Answers \union Frames /\ Frame.op = sent[1].op
      /\ at[1] = 1 + sent[1].len
  <2>1. p + 1 = 1
    BY <1>3
  <2>2. /\ p + 1 \in 1..Len(sent) /\ sent[p + 1] \in Answers \union Frames /\ Frame.op = sent[p + 1].op
        /\ at[p + 1] = at[p] + 1 + sent[p + 1].len
    BY <1>1, <1>3, NextHeader
  <2>3. sent[1].len \in Nat
    BY <2>1, <2>2, UnitsType
  <2> QED
    BY <1>3, <2>1, <2>2, <2>3
<1>5. sent[1].len = 0 /\ ~IsData(sent[1])
  <2>1. sent[1].op = "101"
    BY <1>4 DEF Frame
  <2>2. sent[1] \notin Frames
    BY <2>1, FramesAssumption DEF Opcodes
  <2> QED
    BY <1>4, <2>1, <2>2 DEF Answers, IsData
<1>6. at[1] = 0 + 1 /\ Left(at, 0)
  BY <1>3, <1>4, <1>5
<1>7. Left(at, at[1])'
  <2>1. Left(at, 0 + 1)'
    BY <1>1, <1>2, <1>3, <1>6, LeftTaken
  <2> QED
    BY <1>6, <2>1
<1>8. MessagesHeard' = MessagesHeard /\ MessagesSent' = MessagesSent
  <2> DEFINE h == [cb |-> "open", type |-> "none", data |-> <<>>]
  <2>1. h \in Calls /\ MessageHeard(h) = <<>> /\ heard' = Append(heard, h)
    BY <1>1 DEF Calls, MessageHeard, Call
  <2> HIDE DEF h
  <2>2. MessagesHeard \in Seq(Mail) /\ MessagesHeard' = MessagesHeard \o <<>>
    BY <2>1, HeardGrows
  <2> QED
    BY <1>1, <2>2 DEF MessagesSent
<1>9. nth[1] = 0
  <2>1. nth[1] = nth[1 - 1] + Len(Message(1, sent[1]))
    BY <1>3, <1>4, MarkAt
  <2>2. Len(Message(1, sent[1])) = 0
    BY <1>4, <1>5, MessageType
  <2> QED
    BY <1>3, <2>1, <2>2
<1>10. Hears(nth, 1)' /\ Marks(at, nth)'
  BY <1>1, <1>3, <1>8, <1>9 DEF Hears, Marks
<1>11. Reads(at, 1)'
  BY <1>1, <1>3, <1>7 DEF Reads
<1> QED
  BY <1>1, <1>4, <1>8, <1>10, <1>11 DEF Follows

(***************************************************************************)
(* The rest of a body completes it.                                        *)
(***************************************************************************)
LEMMA FollowsBody ==
  ASSUME TypeOK, NEW at, NEW nth, NEW p, Follows(at, nth, p), ReadBody, CompleteBody, Answered, WholeMessages
  PROVE  Follows(at, nth, p + 1)' /\ HearsNext
<1>1. /\ state = "Opened" /\ bodyType # "none" /\ UNCHANGED <<state, sent, wire>>
  BY DEF ReadBody, BodyBegun, connection
<1>2. /\ Marks(at, nth) /\ p \in 0..Len(sent) /\ p > 0 /\ Hears(nth, p)
      /\ p < Len(sent) /\ bodyType = sent[p + 1].op /\ bodyLength = sent[p + 1].len
      /\ Len(body) < bodyLength
      /\ \A j \in 1..Len(body) : body[j] = Payload(p + 1, sent[p + 1])[j]
      /\ Left(at, at[p] + 1 + Len(body))
  BY <1>1 DEF Follows, Reads
<1>3. PICK i : i = p + 1
  OBVIOUS
<1>4. PICK f : f = sent[i]
  OBVIOUS
<1>5. i \in 1..Len(sent) /\ i \in Nat /\ i > 1 /\ i - 1 = p /\ f \in Frames
  BY <1>2, <1>3, <1>4 DEF TypeOK, Answered
<1>6. /\ bodyType = f.op /\ bodyLength = f.len /\ f.len \in Nat /\ at[p] \in Nat /\ at[i] = at[p] + 1 + f.len
      /\ Len(body) < f.len /\ Len(body) \in Nat /\ body \in Seq(UnitsSent)
      /\ \A j \in 1..Len(body) : body[j] = Payload(i, f)[j]
  <2>1. /\ bodyType = f.op /\ bodyLength = f.len /\ Len(body) < f.len
        /\ \A j \in 1..Len(body) : body[j] = Payload(i, f)[j]
    BY <1>2, <1>3, <1>4
  <2>2. f.len \in Nat /\ at[p] \in Nat /\ at[i] = at[p] + 1 + f.len
    BY <1>2, <1>4, <1>5, MarkAt
  <2> QED
    BY <2>1, <2>2 DEF TypeOK
<1>7. PICK b, l \in Nat : b = Len(body) /\ l = f.len
  BY <1>6
<1>0. b < l /\ b \in Nat /\ l \in Nat
  BY <1>6, <1>7
<1>8. TakesBody /\ Missing = l - b
  <2>1. Missing = l - b /\ l - b > 0
    BY <1>6, <1>7 DEF Missing
  <2> QED
    BY <1>6, <1>7, <2>1 DEF CompleteBody
<1> DEFINE part == SubSeq(input, 1, Missing)
           whole == body \o part
<1>9. /\ input' = SubSeq(input, Missing + 1, Len(input))
      /\ OnData(f.op, whole) /\ f.op \in {"text", "binary", "ping"}
  BY <1>1, <1>6, <1>8 DEF CompleteBody, TypeOK
<1>10. /\ Missing \in Nat \ {0} /\ Missing <= Len(input) /\ Len(input) \in Nat
       /\ whole \in Seq(UnitsSent) /\ Len(whole) = l
       /\ input' \in Seq(UnitsSent) /\ Len(input') = Len(input) - Missing
       /\ \A j \in 1..Len(input') : input'[j] = input[Missing + j]
  BY <1>6, <1>7, <1>8, <1>9, BodyType
<1>a. PICK m \in Nat : m = l - b
  BY <1>0
<1>b. /\ m \in 0..Len(input) /\ Len(input') = Len(input) - m /\ input' \in Seq(UnitsSent)
      /\ \A j \in 1..Len(input') : input'[j] = input[m + j]
  BY <1>8, <1>10, <1>a
<1>11. Len(part) = l - b /\ part \in Seq(UnitsSent) /\ \A j \in 1..(l - b) : part[j] = input[j]
  <2>1. input \in Seq(UnitsSent) /\ l - b \in Nat /\ l - b <= Len(input)
    BY <1>8, <1>10 DEF TypeOK
  <2>2. /\ SubSeq(input, 1, l - b) \in Seq(UnitsSent)
        /\ Len(SubSeq(input, 1, l - b)) = IF 1 <= l - b THEN l - b - 1 + 1 ELSE 0
        /\ \A j \in 1..Len(SubSeq(input, 1, l - b)) : SubSeq(input, 1, l - b)[j] = input[1 + j - 1]
    BY <2>1, PartType
  <2> DEFINE q == SubSeq(input, 1, l - b)
  <2>3. part = q
    BY <1>8
  <2> HIDE DEF part, q
  <2>4. (IF 1 <= l - b THEN l - b - 1 + 1 ELSE 0) = l - b
    BY <1>7, <2>1
  <2>5. Len(part) = l - b /\ part \in Seq(UnitsSent)
    BY <2>2, <2>3, <2>4 DEF q
  <2>6. \A j \in 1..(l - b) : 1 + j - 1 = j
    BY <1>7
  <2> QED
    BY <2>2, <2>3, <2>5, <2>6 DEF q
<1> HIDE DEF part
<1>12. \A j \in 1..l : whole[j] = Payload(i, f)[j]
  <2> SUFFICES ASSUME NEW j \in 1..l PROVE whole[j] = Payload(i, f)[j]
    OBVIOUS
  <2>1. CASE j \in 1..b
    <3>1. whole[j] = body[j]
      BY <1>6, <1>7, <1>11, <2>1, ConcatAt
    <3> QED
      BY <1>6, <1>7, <2>1, <3>1
  <2>2. CASE j \notin 1..b
    <3>1. PICK d : d = j - b
      OBVIOUS
    <3>2. d \in 1..(l - b) /\ j = b + d
      BY <1>7, <2>2, <3>1
    <3>3. whole[j] = part[d]
      BY <1>6, <1>7, <1>11, <3>2, ConcatAt
    <3>4. part[d] = Rest[d]
      <4>1. d \in 1..Len(input)
        BY <1>8, <1>10, <3>2
      <4>2. input[d] = Rest[d]
        BY <1>1, <1>b, <4>1, RestParts
      <4> QED
        BY <1>11, <3>2, <4>2
    <3>5. Rest[d] = Units(i, f)[j + 1]
      <4>1. PICK a \in Nat : a = at[p]
        BY <1>6
      <4>2. a + (j + 1) > a + 1 + b /\ a + (j + 1) - (a + 1 + b) = d /\ j + 1 \in 1..(1 + l)
        BY <1>0, <3>2
      <4>3. Left(at, a + 1 + b)
        BY <1>2, <1>7, <4>1
      <4>4. Rest[at[i - 1] + (j + 1) - (a + 1 + b)] = Units(i, sent[i])[j + 1]
        BY <1>4, <1>5, <1>7, <4>1, <4>2, <4>3 DEF Left
      <4> QED
        BY <1>4, <1>5, <4>1, <4>2, <4>4
    <3>6. Units(i, f)[j + 1] = Payload(i, f)[j]
      BY <1>5, <1>7, UnitPayload
    <3> QED
      BY <3>3, <3>4, <3>5, <3>6
  <2> QED
    BY <2>1, <2>2
<1>13. whole = Payload(i, f)
  <2>1. Payload(i, f) \in Seq(UnitsSent) /\ Len(Payload(i, f)) = l
    BY <1>5, <1>7, UnitsType
  <2> HIDE DEF whole
  <2> QED
    BY <1>10, <1>12, <2>1, SeqEqual
<1>14. Hears(nth, p + 1)' /\ HearsNext
  BY <1>1, <1>2, <1>3, <1>4, <1>9, <1>13, HearsMore
<1>15. bodyType' = "none" /\ body' = <<>>
  BY <1>9 DEF OnData
<1>16. Left(at, at[i])'
  <2>1. PICK a \in Nat : a = at[p]
    BY <1>6
  <2>2. PICK k : k = a + 1 + b
    OBVIOUS
  <2>3. Left(at, k)
    BY <1>2, <1>7, <2>1, <2>2
  <2>4. Left(at, k + m)'
    BY <1>1, <1>2, <1>b, <2>3, LeftTaken
  <2>5. k + m = at[i]
    BY <1>0, <1>6, <1>7, <1>a, <2>1, <2>2
  <2>6. PICK e : e = at[i]
    OBVIOUS
  <2>7. Left(at, e)'
    BY <2>4, <2>5, <2>6
  <2> QED
    BY <2>6, <2>7
<1>17. Marks(at, nth)' /\ Reads(at, p + 1)'
  <2>1. Marks(at, nth)'
    BY <1>1, <1>2 DEF Marks, MessagesSent
  <2> QED
    BY <1>3, <1>15, <1>16, <2>1 DEF Reads
<1> QED
  BY <1>1, <1>2, <1>3, <1>5, <1>14, <1>17 DEF Follows

(***************************************************************************)
(* A header is read, and what is there of its frame.                       *)
(***************************************************************************)
LEMMA FollowsFrame ==
  ASSUME TypeOK, NEW at, NEW nth, NEW p, Follows(at, nth, p), ReadFrame, ~Misread, Answered, WholeMessages
  PROVE  (\E q : Follows(at, nth, q)') /\ HearsNext /\ AddFrame(Frame)
<1>1. /\ state = "Opened" /\ input # <<>> /\ ~BodyBegun /\ UNCHANGED <<state, sent, wire>>
  BY DEF ReadFrame, ReadsHeader, connection
<1>2. /\ Marks(at, nth) /\ p \in 0..Len(sent) /\ p > 0 /\ Hears(nth, p)
      /\ bodyType = "none" /\ body = <<>> /\ Left(at, at[p])
  BY <1>1 DEF Follows, Reads, BodyBegun, TypeOK
<1>3. PICK i : i = p + 1
  OBVIOUS
<1>4. PICK f : f = sent[i]
  OBVIOUS
<1>5. /\ p < Len(sent) /\ i \in 1..Len(sent) /\ f \in Answers \union Frames
      /\ \A j \in 1..(1 + f.len) : Rest[j] = Units(i, f)[j]
      /\ Frame.op = f.op /\ Frame.fin = f.fin /\ Frame.len = f.len
      /\ at[p] \in Nat /\ at[i] = at[p] + 1 + f.len
  BY <1>1, <1>2, <1>3, <1>4, NextHeader
<1>6. i \in Nat /\ i > 1 /\ f \in Frames
  BY <1>2, <1>3, <1>4, <1>5 DEF Answered
<1>7. f.op \in {"text", "binary", "ping", "close"} /\ f.fin
  BY <1>6, FramesAssumption DEF WholeMessages, Opcodes
<1>8. AddFrame(Frame)
  <2>1. SkipPong(Frame) \/ AddFrame(Frame)
    BY <1>1, HeaderSays DEF ReadFrame
  <2> QED
    BY <1>5, <1>7, <2>1 DEF SkipPong
<1>9. f.op \in {"text", "binary", "ping"} /\ TypeAfter(Frame) = f.op
  BY <1>5, <1>7, <1>8 DEF AddFrame, TypeAfter
<1>10. PICK h : h = There(Frame)
  OBVIOUS
<1>11. PICK l : l = f.len
  OBVIOUS
<1> DEFINE more == body \o SubSeq(input, 2, There(Frame) + 1)
<1>12. /\ h \in Nat /\ l \in Nat /\ h <= l /\ h + 1 \in 0..Len(input) /\ h + 1 <= Len(input) /\ Len(input) \in Nat
  <2>1. h \in 0..(Len(input) - 1) /\ h <= l /\ Len(input) \in Nat
    BY <1>1, <1>5, <1>10, <1>11, FrameType
  <2>2. l \in Nat
    BY <1>6, <1>11, FramesAssumption
  <2> QED
    BY <2>1, <2>2
<1>13. /\ input' \in Seq(UnitsSent) /\ Len(input') = Len(input) - (h + 1)
       /\ \A j \in 1..Len(input') : input'[j] = input[(h + 1) + j]
  <2>1. input' = Drained(Frame)
    BY <1>8 DEF AddFrame
  <2>2. /\ Drained(Frame) \in Seq(UnitsSent) /\ Len(Drained(Frame)) = Len(input) - 1 - h
        /\ \A j \in 1..Len(Drained(Frame)) : Drained(Frame)[j] = input[h + 1 + j]
    BY <1>1, <1>10, FrameType
  <2>3. Len(input) - 1 - h = Len(input) - (h + 1)
    BY <1>12
  <2> QED
    BY <2>1, <2>2, <2>3
<1>14. more \in Seq(UnitsSent) /\ Len(more) = h
  <2>1. more \in Seq(UnitsSent) /\ Len(more) = Len(body) + h
    BY <1>1, <1>10, FrameType
  <2>2. Len(body) = 0
    BY <1>2
  <2> HIDE DEF more
  <2> QED
    BY <1>12, <2>1, <2>2
<1>15. \A j \in 1..h : more[j] = Payload(i, f)[j]
  <2> DEFINE s == SubSeq(input, 2, h + 1)
  <2>1. input \in Seq(UnitsSent) /\ h + 1 \in Int
    BY <1>12 DEF TypeOK
  <2>2. /\ s \in Seq(UnitsSent) /\ Len(s) = IF 2 <= h + 1 THEN h + 1 - 2 + 1 ELSE 0
        /\ \A j \in 1..Len(s) : s[j] = input[2 + j - 1]
    BY <1>12, <2>1, PartType
  <2>3. more = body \o s
    BY <1>10
  <2> HIDE DEF s, more
  <2>4. Len(s) = h
    BY <1>12, <2>2
  <2>5. more = s
    BY <1>2, <2>2, <2>3, ConcatEmptySeq
  <2> SUFFICES ASSUME NEW j \in 1..h PROVE more[j] = Payload(i, f)[j]
    OBVIOUS
  <2>6. j \in 1..f.len /\ j + 1 \in 1..(1 + f.len) /\ j + 1 \in 1..Len(input) /\ 2 + j - 1 = j + 1
    BY <1>11, <1>12
  <2>7. more[j] = input[j + 1]
    BY <2>2, <2>4, <2>5, <2>6
  <2>8. input[j + 1] = Rest[j + 1]
    BY <1>1, <1>12, <1>13, <2>6, RestParts
  <2>9. Rest[j + 1] = Units(i, f)[j + 1]
    BY <1>5, <2>6
  <2>10. Units(i, f)[j + 1] = Payload(i, f)[j]
    BY <1>5, <1>6, <2>6, UnitPayload
  <2> QED
    BY <2>7, <2>8, <2>9, <2>10
<1>16. PICK a : a = at[p]
  OBVIOUS
<1>17. Left(at, a + (h + 1))'
  <2>1. Left(at, a)
    BY <1>2, <1>16
  <2> QED
    BY <1>1, <1>2, <1>12, <1>13, <2>1, LeftTaken
<1>18. Marks(at, nth)'
  BY <1>1, <1>2 DEF Marks, MessagesSent
<1>19. CASE h = l
  <2>1. more = Payload(i, f)
    <3>1. Payload(i, f) \in Seq(UnitsSent) /\ Len(Payload(i, f)) = l
      BY <1>5, <1>6, <1>11, UnitsType
    <3> HIDE DEF more
    <3> QED
      BY <1>14, <1>15, <1>19, <3>1, SeqEqual
  <2>2. OnData(f.op, Payload(i, f))
    <3>1. OnData(TypeAfter(Frame), more)
      BY <1>5, <1>7, <1>8, <1>11, <1>14, <1>19 DEF AddFrame
    <3> QED
      BY <1>9, <2>1, <3>1
  <2>3. Hears(nth, p + 1)' /\ HearsNext
    BY <1>1, <1>2, <1>3, <1>4, <1>5, <1>9, <2>2, HearsMore
  <2>4. bodyType' = "none" /\ body' = <<>>
    BY <2>2 DEF OnData
  <2>5. Left(at, at[i])'
    <3>1. PICK e : e = at[i]
      OBVIOUS
    <3>2. a + (h + 1) = e
      BY <1>5, <1>11, <1>12, <1>16, <1>19, <3>1
    <3>3. Left(at, e)'
      BY <1>17, <3>2
    <3> QED
      BY <3>1, <3>3
  <2>6. Reads(at, p + 1)'
    BY <1>3, <2>4, <2>5 DEF Reads
  <2>7. Follows(at, nth, p + 1)'
    BY <1>1, <1>2, <1>3, <1>5, <1>18, <2>3, <2>6 DEF Follows
  <2> QED
    BY <1>8, <2>3, <2>7
<1>20. CASE h # l
  <2>1. h < l
    BY <1>12, <1>20
  <2>2. /\ body' = more /\ bodyType' = f.op /\ bodyLength' = l /\ heard' = heard
    BY <1>5, <1>8, <1>9, <1>11, <1>14, <1>20 DEF AddFrame
  <2>3. Len(body') = h /\ \A j \in 1..Len(body') : body'[j] = Payload(i, f)[j]
    <3> HIDE DEF more
    <3> QED
      BY <1>14, <1>15, <2>2
  <2>4. Left(at, at[p] + 1 + Len(body))'
    <3>1. PICK e : e = at[p] + 1 + Len(body')
      OBVIOUS
    <3>2. a + (h + 1) = e
      <4>1. e = a + 1 + h /\ a \in Nat
        BY <1>5, <1>16, <2>3, <3>1
      <4> QED
        BY <1>12, <4>1
    <3>3. Left(at, e)'
      BY <1>17, <3>2
    <3> QED
      BY <3>1, <3>3
  <2>5. f.op # "none"
    BY <1>9
  <2>6. Reads(at, p)'
    <3> HIDE DEF more
    <3>1. /\ bodyType' = sent'[p + 1].op /\ bodyLength' = sent'[p + 1].len /\ p < Len(sent')
          /\ Len(body') < bodyLength'
          /\ \A j \in 1..Len(body') : body'[j] = Payload(p + 1, sent'[p + 1])[j]
      BY <1>1, <1>3, <1>4, <1>5, <1>11, <2>1, <2>2, <2>3
    <3>2. bodyType' # "none"
      BY <2>2, <2>5
    <3> QED
      BY <2>4, <3>1, <3>2 DEF Reads
  <2>7. MessagesHeard' = MessagesHeard /\ MessagesSent' = MessagesSent
    BY <1>1, <2>2 DEF MessagesHeard, MessagesSent
  <2>8. Hears(nth, p)' /\ HearsNext
    BY <1>2, <2>7 DEF Hears, HearsNext
  <2>9. Follows(at, nth, p)'
    BY <1>1, <1>2, <1>18, <2>6, <2>8 DEF Follows
  <2> QED
    BY <1>8, <2>8, <2>9
<1> QED
  BY <1>19, <1>20

(***************************************************************************)
(* The steps that are nothing to the messages: a callback other than       *)
(* ondata, and what leaves buffers and stream alone.                       *)
(***************************************************************************)
LEMMA Unheard ==
  ASSUME TypeOK,
         heard' = heard \/ \E h \in Calls : h.cb # "data" /\ heard' = Append(heard, h)
  PROVE  MessagesHeard' = MessagesHeard
<1>1. CASE heard' = heard
  BY <1>1 DEF MessagesHeard
<1>2. CASE \E h \in Calls : h.cb # "data" /\ heard' = Append(heard, h)
  <2>1. PICK h \in Calls : h.cb # "data" /\ heard' = Append(heard, h)
    BY <1>2
  <2>2. MessagesHeard \in Seq(Mail) /\ MessagesHeard' = MessagesHeard \o MessageHeard(h)
    BY <2>1, HeardGrows
  <2>3. MessageHeard(h) = <<>>
    BY <2>1, MessageHeardType
  <2> QED
    BY <2>2, <2>3, ConcatEmptySeq
<1> QED
  BY <1>1, <1>2

LEMMA CloseUnheard ==
  ASSUME TypeOK, Closes
  PROVE  MessagesHeard' = MessagesHeard
<1> DEFINE h == [cb |-> "close", type |-> "none", data |-> <<>>]
<1>1. h \in Calls /\ h.cb # "data" /\ heard' = Append(heard, h)
  BY DEF Calls, Closes, OnClose, Call
<1> HIDE DEF h
<1> QED
  BY <1>1, Unheard

Ends == Over' /\ UNCHANGED sent /\ MessagesHeard' = MessagesHeard

Idles ==
  /\ UNCHANGED <<sent, heard, body, bodyType, bodyLength>>
  /\ Rest' = Rest
  /\ state' = "Opened" <=> state = "Opened"

Moves ==
  \/ \E f \in Answers \union Frames : PeerWrites(f)
  \/ Handshake /\ Head(input).op = "101"
  \/ ReadBody /\ CompleteBody
  \/ ReadFrame

LEMMA StreamSteps ==
  ASSUME TypeOK, Fresh, [Next]_vars
  PROVE  Ends \/ Idles \/ Moves
<1>1. CASE \E f \in Answers \union Frames : PeerWrites(f)
  BY <1>1 DEF Moves
<1>2. CASE UNCHANGED vars
  BY <1>2 DEF Idles, Rest, vars, connection, buffers
<1>3. CASE Open \/ Connect \/ Written
  BY <1>3 DEF Idles, Rest, Open, Connect, Written, Fresh, connection, buffers
<1>4. ASSUME Closes, UNCHANGED sent
      PROVE  Ends
  <2>1. MessagesHeard' = MessagesHeard
    BY <1>4, CloseUnheard
  <2> QED
    BY <1>4, <2>1 DEF Ends, Over, Closes, OnClose
<1>5. CASE DnsAnswers
  <2>1. CASE Resolved
    BY <1>5, <2>1 DEF Idles, Rest, DnsAnswers, Resolved, buffers
  <2>2. CASE ResolveFailed
    <3>1. CASE Closes
      BY <1>4, <1>5, <3>1 DEF DnsAnswers
    <3>2. CASE ~Closes
      BY <1>5, <2>2, <3>2 DEF Idles, Rest, DnsAnswers, ResolveFailed, Closes, buffers
    <3> QED
      BY <3>1, <3>2
  <2> QED
    BY <1>5, <2>1, <2>2 DEF DnsAnswers
<1>6. CASE Error \/ ReadClose
  BY <1>4, <1>6 DEF Error, ReadClose, Closes
<1>7. CASE \E k \in 1..Len(wire) : Arrive(k)
  <2>1. PICK k \in 1..Len(wire) : Arrive(k)
    BY <1>7
  <2>2. Rest' = Rest
    BY <2>1, RestArrive
  <2> QED
    BY <2>1, <2>2 DEF Idles, Arrive, connection
<1>8. CASE Handshake
  BY <1>4, <1>8 DEF Handshake, Moves, Closes
<1>9. CASE ReadBody \/ AwaitFrame
  BY <1>9 DEF ReadBody, AwaitBody, AwaitFrame, Moves, Idles, Rest, connection, buffers
<1>10. CASE ReadFrame
  BY <1>10 DEF Moves
<1>11. ASSUME Over', UNCHANGED <<sent, heard>>
       PROVE  Ends
  BY <1>11 DEF Ends, MessagesHeard
<1>12. CASE CloseReturns \/ Close
  BY <1>11, <1>12 DEF Over, CloseReturns, Close, Free
<1>13. CASE ScriptReturns
  BY <1>11, <1>13 DEF Over, Idles, Rest, ScriptReturns, Free
<1>14. CASE Drop
  BY <1>11, <1>14 DEF Over, Idles, Rest, Drop, Free
<1> QED
  BY <1>1, <1>2, <1>3, <1>5, <1>6, <1>7, <1>8, <1>9, <1>10, <1>12, <1>13, <1>14 DEF Next, Read

(***************************************************************************)
(* A closed or lost socket has nothing to read, and nobody to write to it. *)
(***************************************************************************)
LEMMA OverStays ==
  ASSUME TypeOK, Fresh, Answered, [Next]_vars, Over
  PROVE  Over' /\ UNCHANGED sent /\ MessagesHeard' = MessagesHeard
<1>1. Over'
  BY DEF Over, Fresh, Answered, Next, Read, vars, connection, buffers, PeerWrites, Open, DnsAnswers, Resolved,
         ResolveFailed, Closes, OnClose, OnData, Connect, Written, Error, Arrive, Handshake, ReadBody,
         CompleteBody, AwaitBody, ReadFrame, ReadsHeader, SkipPong, AddFrame, ReadClose, AwaitFrame,
         ScriptReturns, CloseReturns, Close, Drop, Free
<1>2. ~Moves
  <2>1. pc # "reading" \/ state \notin {"Connected", "Opened"}
    BY DEF Over, Answered
  <2>2. ~(bev /\ pc \in {"idle", "script"})
    BY DEF Over, Answered
  <2> QED
    BY <2>1, <2>2 DEF Moves, PeerWrites, Handshake, ReadBody, ReadFrame, ReadsHeader
<1>3. CASE Ends
  BY <1>1, <1>3 DEF Ends
<1>4. CASE Idles
  BY <1>1, <1>4 DEF Idles, MessagesHeard
<1> QED
  BY <1>2, <1>3, <1>4, StreamSteps

(***************************************************************************)
(* While what is read follows what was written, every header that is read  *)
(* is one.                                                                 *)
(***************************************************************************)
LEMMA HeaderNext ==
  ASSUME TypeOK, Answered, Following, ~astray, [Next]_vars
  PROVE  ~astray' /\ (ReadFrame => ~Misread)
<1>1. ASSUME pc = "reading", state \in {"Connected", "Opened"}, ~BodyBegun, input # <<>>
      PROVE  ~Misread
  <2>1. ~Over
    BY <1>1 DEF Over, Answered
  <2>2. PICK at, nth, p : Follows(at, nth, p)
    BY <2>1 DEF Following
  <2>3. /\ Marks(at, nth) /\ p \in 0..Len(sent)
        /\ bodyType = "none" /\ Left(at, at[p])
    BY <1>1, <2>2 DEF Follows, Reads, BodyBegun, TypeOK
  <2>4. PICK f \in Answers \union Frames : Frame.op = f.op
    BY <1>1, <2>3, NextHeader
  <2>5. f.op # "byte"
    BY FramesAssumption DEF Answers, Opcodes
  <2> QED
    BY <2>4, <2>5 DEF Misread
<1>2. CASE ReadsHeader
  <2>1. ~Misread
    BY <1>1, <1>2 DEF ReadsHeader
  <2> QED
    BY <1>2, <2>1 DEF ReadsHeader
<1>3. CASE AwaitFrame
  <2>1. ~Misread
    BY <1>1, <1>3 DEF AwaitFrame, Misread
  <2> QED
    BY <1>3, <2>1 DEF AwaitFrame
<1>4. CASE ~ReadsHeader /\ ~AwaitFrame
  <2>1. ~ReadFrame /\ ~ReadClose
    BY <1>4 DEF ReadFrame, ReadClose
  <2>2. astray' = astray
    BY <1>4, <2>1 DEF Next, Read, vars, connection, buffers, PeerWrites, Open, DnsAnswers, Connect, Written,
       Error, Arrive, Handshake, ReadBody, CompleteBody, AwaitBody, ScriptReturns, CloseReturns, Close, Drop
  <2> QED
    BY <2>1, <2>2
<1> QED
  BY <1>2, <1>3, <1>4

(***************************************************************************)
(* Every step is one of the message stream's.                              *)
(***************************************************************************)
Phase == IF Over THEN "ended" ELSE IF state = "Opened" THEN "open" ELSE "connecting"

LEMMA StreamWrite ==
  ASSUME TypeOK, ~Over, WholeMessages, NEW f \in Answers \union Frames, PeerWrites(f)
  PROVE  [MS!Next]_MS!vars
<1>1. sent' = Append(sent, f) /\ UNCHANGED <<state, bev, pc, heard>> /\ Len(sent) \in Nat
  BY DEF PeerWrites, connection, TypeOK
<1>2. ~Over' /\ Phase' = Phase /\ MessagesHeard' = MessagesHeard
  BY <1>1 DEF Over, Phase, MessagesHeard
<1>3. PICK i : i = Len(sent) + 1
  OBVIOUS
<1>4. i \in Nat /\ MessagesSent \in Seq(Mail) /\ MessagesSent' = MessagesSent \o Message(i, f)
  <2>1. MessagesSent \in Seq(Mail) /\ MessagesSent' = MessagesSent \o Message(Len(sent) + 1, f)
    BY <1>1, SentGrows
  <2>2. Message(i, f) = Message(Len(sent) + 1, f)
    BY <1>3
  <2> QED
    BY <1>1, <1>3, <2>1, <2>2
<1>5. CASE IsData(f)
  <2> DEFINE m == [type |-> f.op, data |-> Payload(i, f)]
  <2>1. f \in Frames /\ f.op \in {"text", "binary"}
    BY <1>5 DEF IsData, Answers, WholeMessages
  <2>2. m \in [type : {"text", "binary"}, data : Seq(UnitsSent)] /\ m \in Mail
    BY <1>4, <2>1, UnitsType DEF Mail, Opcodes
  <2>3. Message(i, f) = <<m>>
    BY <1>5 DEF Message
  <2> HIDE DEF m
  <2>4. /\ MessagesSent' = Append(MessagesSent, m) /\ MessagesSent' # <<>>
        /\ MessagesSent'[Len(MessagesSent')] = m
    BY <1>4, <2>2, <2>3
  <2>5. MS!Write
    BY <1>2, <2>2, <2>4 DEF MS!Write, Phase, Over
  <2> QED
    BY <2>5 DEF MS!Next
<1>6. CASE ~IsData(f)
  <2>1. MessagesSent' = MessagesSent
    BY <1>4, <1>6, ConcatEmptySeq DEF Message
  <2> QED
    BY <1>2, <2>1 DEF MS!vars, Phase
<1> QED
  BY <1>5, <1>6

LEMMA StreamReceive ==
  ASSUME HearsNext, ~Over, state = "Opened", pc = "reading", Answered,
         UNCHANGED <<state, bev, sent>>, pc' # "new"
  PROVE  [MS!Next]_MS!vars
<1>1. ~Over' /\ MessagesSent' = MessagesSent
  BY DEF Over, Answered, MessagesSent
<1>2. CASE MessagesHeard' = MessagesHeard
  BY <1>1, <1>2 DEF MS!vars
<1>3. CASE MessagesHeard' # MessagesHeard
  <2>1. MS!Receive
    BY <1>1, <1>3 DEF MS!Receive, HearsNext
  <2> QED
    BY <2>1 DEF MS!Next
<1> QED
  BY <1>2, <1>3

LEMMA StreamNext ==
  ASSUME TypeOK, Fresh, Answered, Following, ~astray, WholeMessages, [Next]_vars
  PROVE  Following' /\ [MS!Next]_MS!vars
<1>1. CASE Over
  <2>1. Over' /\ MessagesSent' = MessagesSent /\ MessagesHeard' = MessagesHeard
    BY <1>1, OverStays DEF MessagesSent
  <2> QED
    BY <1>1, <2>1 DEF Following, MS!vars
<1>2. ASSUME ~Over, Over', MessagesSent' = MessagesSent, MessagesHeard' = MessagesHeard
      PROVE  Following' /\ [MS!Next]_MS!vars
  <2>1. MS!End
    BY <1>2 DEF MS!End
  <2> QED
    BY <1>2, <2>1 DEF Following, MS!Next
<1>3. CASE ~Over
  <2>1. PICK at, nth, p : Follows(at, nth, p)
    BY <1>3 DEF Following
  <2>2. CASE Ends
    BY <1>2, <1>3, <2>2 DEF Ends, MessagesSent
  <2>3. CASE Idles
    <3>1. Follows(at, nth, p)'
      BY <2>1, <2>3, FollowsSame DEF Idles
    <3>2. MessagesSent' = MessagesSent /\ MessagesHeard' = MessagesHeard
      BY <2>3 DEF Idles, MessagesSent, MessagesHeard
    <3>3. CASE Over'
      BY <1>2, <1>3, <3>2, <3>3
    <3>4. CASE ~Over'
      BY <1>3, <2>3, <3>1, <3>2, <3>4 DEF Following, Idles, MS!vars
    <3> QED
      BY <3>3, <3>4
  <2>4. ASSUME NEW f \in Answers \union Frames, PeerWrites(f)
        PROVE  Following' /\ [MS!Next]_MS!vars
    <3>1. \E more, next : Follows(more, next, p)'
      BY <2>1, <2>4, FollowsPeer
    <3>2. [MS!Next]_MS!vars
      BY <1>3, <2>4, StreamWrite
    <3> QED
      BY <3>1, <3>2 DEF Following
  <2>5. CASE Handshake /\ Head(input).op = "101"
    <3>1. Follows(at, nth, 1)' /\ MessagesHeard' = MessagesHeard
      BY <2>1, <2>5, FollowsHandshake
    <3>2. /\ state = "Connected" /\ state' = "Opened" /\ pc = "reading" /\ pc' = "script"
          /\ UNCHANGED <<bev, sent>>
      BY <2>5 DEF Handshake
    <3>3. ~Over' /\ MessagesSent' = MessagesSent
      BY <1>3, <3>2 DEF Over, MessagesSent
    <3>4. MS!Open
      BY <1>3, <3>1, <3>2, <3>3 DEF MS!Open
    <3> QED
      BY <3>1, <3>4 DEF Following, MS!Next
  <2>6. CASE ReadBody /\ CompleteBody
    <3>1. Follows(at, nth, p + 1)' /\ HearsNext
      BY <2>1, <2>6, FollowsBody
    <3>2. pc = "reading" /\ state = "Opened" /\ UNCHANGED <<state, bev, sent>> /\ pc' # "new"
      BY <2>6 DEF ReadBody, CompleteBody, OnData, connection
    <3> QED
      BY <1>3, <3>1, <3>2, StreamReceive DEF Following
  <2>7. CASE ReadFrame
    <3>1. (\E q : Follows(at, nth, q)') /\ HearsNext
      BY <2>1, <2>7, HeaderNext, FollowsFrame
    <3>2. pc = "reading" /\ state = "Opened" /\ UNCHANGED <<state, bev, sent>> /\ pc' # "new"
      BY <2>7 DEF ReadFrame, ReadsHeader, SkipPong, AddFrame, OnData, connection
    <3> QED
      BY <1>3, <3>1, <3>2, StreamReceive DEF Following
  <2> QED
    BY <2>2, <2>3, <2>4, <2>5, <2>6, <2>7, StreamSteps DEF Moves
<1> QED
  BY <1>1, <1>3

LEMMA StreamInit == Init => Answered /\ Following /\ MS!Init
<1> SUFFICES ASSUME Init PROVE Answered /\ Following /\ MS!Init
  OBVIOUS
<1>1. Answered
  BY DEF Init, Answered
<1>2. MessagesSent = <<>> /\ MessagesHeard = <<>> /\ Rest = <<>>
  <2>1. sent = <<>> /\ heard = <<>> /\ input = <<>> /\ wire = <<>>
    BY DEF Init
  <2>2. FlattenSeq([i \in DOMAIN sent |-> Message(i, sent[i])]) = <<>>
    <3>1. [i \in DOMAIN sent |-> Message(i, sent[i])] = <<>>
      BY <2>1
    <3> QED
      BY <3>1 DEF FlattenSeq
  <2>3. FlattenSeq([i \in DOMAIN heard |-> MessageHeard(heard[i])]) = <<>>
    <3>1. [i \in DOMAIN heard |-> MessageHeard(heard[i])] = <<>>
      BY <2>1
    <3> QED
      BY <3>1 DEF FlattenSeq
  <2> QED
    BY <2>1, <2>2, <2>3 DEF MessagesSent, MessagesHeard, Rest
<1>3. Following
  <2>1. PICK at : at = [i \in 0..0 |-> 0]
    OBVIOUS
  <2>2. /\ Len(sent) = 0 /\ Len(MessagesSent) = 0 /\ Len(MessagesHeard) = 0 /\ Len(Rest) = 0
        /\ body = <<>> /\ bodyType = "none" /\ state # "Opened"
    BY <1>2 DEF Init
  <2>3. at \in [0..0 -> Nat] /\ at[0] = 0
    BY <2>1
  <2>4. Marks(at, at) /\ Left(at, at[0])
    BY <2>2, <2>3 DEF Marks, Left
  <2>5. Follows(at, at, 0)
    BY <2>2, <2>3, <2>4 DEF Follows, Reads, Hears
  <2> QED
    BY <2>5 DEF Following
<1>4. MS!Init
  BY <1>2 DEF Init, MS!Init, Over
<1> QED
  BY <1>1, <1>3, <1>4

(***************************************************************************)
(* When the peer writes each message in one frame and no pong, the script  *)
(* hears the messages, whole, in order and with their type, however TCP    *)
(* cuts them, and whatever else happens to the socket (onReading).         *)
(***************************************************************************)
THEOREM Streaming ==
  ASSUME WholeMessages
  PROVE  Spec => ImplementsMessageStream
<1> DEFINE I == TypeOK /\ Fresh /\ Answered /\ Following /\ ~astray
<1>1. Init => I
  BY InitType, StreamInit DEF Init, Fresh
<1>2. I /\ [Next]_vars => I'
  BY NextType, FreshNext, AnsweredNext, StreamNext, HeaderNext
<1>3. Init => MS!Init
  BY StreamInit
<1>4. I /\ [Next]_vars => [MS!Next]_MS!vars
  BY StreamNext
<1> QED
  BY <1>1, <1>2, <1>3, <1>4, PTL DEF Spec, MS!Spec, ImplementsMessageStream

-----------------------------------------------------------------------------
(* No fault.                                                               *)

(***************************************************************************)
(* Before the handshake the stream begins with a header.                   *)
(***************************************************************************)
Unopened ==
  state \notin {"Opened", "Closed"} => ~astray /\ (Rest # <<>> => Rest[1].op # "byte")

LEMMA UnopenedNext ==
  ASSUME TypeOK, Fresh, Unopened, [Next]_vars
  PROVE  Unopened'
<1> SUFFICES ASSUME state' \notin {"Opened", "Closed"}
             PROVE  ~astray' /\ (Rest' # <<>> => Rest'[1].op # "byte")
  BY DEF Unopened
<1>1. state \notin {"Opened", "Closed"} /\ ~ReadBody /\ ~ReadFrame /\ ~ReadClose /\ ~Handshake
  <2>1. ~ReadBody /\ ~ReadFrame /\ ~ReadClose /\ ~Handshake
    BY DEF ReadBody, ReadFrame, ReadClose, ReadsHeader, Handshake, OnClose, connection
  <2> SUFFICES state \notin {"Opened", "Closed"}
    BY <2>1
  <2>2. CASE Open \/ DnsAnswers \/ Connect \/ Written \/ Error
    BY <2>2 DEF Open, DnsAnswers, Resolved, ResolveFailed, OnClose, Connect, Written, Error, Fresh
  <2>3. CASE \E k \in 1..Len(wire) : Arrive(k)
    BY <2>3 DEF Arrive, connection
  <2>4. CASE AwaitFrame \/ ScriptReturns \/ CloseReturns \/ Close \/ Drop
    BY <2>4 DEF AwaitFrame, ScriptReturns, CloseReturns, Close, Drop, connection
  <2>5. CASE (\E f \in Answers \union Frames : PeerWrites(f)) \/ UNCHANGED vars
    BY <2>5 DEF PeerWrites, vars, connection
  <2> QED
    BY <2>1, <2>2, <2>3, <2>4, <2>5 DEF Next, Read
<1>2. ~astray /\ (Rest # <<>> => Rest[1].op # "byte")
  BY <1>1 DEF Unopened
<1>3. ASSUME NEW f \in Answers \union Frames, PeerWrites(f)
      PROVE  ~astray' /\ (Rest' # <<>> => Rest'[1].op # "byte")
  <2>1. Len(sent) \in Nat /\ Rest \in Seq(UnitsSent) /\ Rest' = Rest \o Units(Len(sent) + 1, f)
    BY <1>3, RestPeer DEF TypeOK
  <2>2. PICK n \in Nat : n = Len(sent) + 1
    BY <2>1
  <2>3. /\ Units(n, f) \in Seq(UnitsSent) /\ Len(Units(n, f)) > 0
        /\ Units(n, f)[1].op = f.op
    <3>1. /\ Units(n, f) \in Seq(UnitsSent) /\ Len(Units(n, f)) = f.len + 1 /\ f.len \in Nat
          /\ Units(n, f)[1].op = f.op
      BY UnitsType
    <3> QED
      BY <3>1
  <2>4. f.op # "byte"
    BY FramesAssumption DEF Answers, Opcodes
  <2>5. CASE Rest = <<>>
    BY <1>2, <1>3, <2>1, <2>2, <2>3, <2>4, <2>5 DEF PeerWrites, buffers
  <2>6. CASE Rest # <<>>
    <3>1. Rest'[1] = Rest[1]
      BY <2>1, <2>2, <2>3, <2>6
    <3> QED
      BY <1>2, <1>3, <2>6, <3>1 DEF PeerWrites, buffers
  <2> QED
    BY <2>5, <2>6
<1>4. ASSUME NEW k \in 1..Len(wire), Arrive(k)
      PROVE  ~astray' /\ (Rest' # <<>> => Rest'[1].op # "byte")
  BY <1>2, <1>4, RestArrive DEF Arrive
<1>5. ASSUME astray' = astray, UNCHANGED <<input, wire>>
      PROVE  ~astray' /\ (Rest' # <<>> => Rest'[1].op # "byte")
  BY <1>2, <1>5 DEF Rest
<1>6. ASSUME astray' = astray, Free
      PROVE  ~astray' /\ (Rest' # <<>> => Rest'[1].op # "byte")
  <2>1. Rest' = <<>>
    BY <1>6 DEF Rest, Free
  <2> QED
    BY <1>2, <1>6, <2>1
<1>7. CASE AwaitFrame
  <2>1. input # <<>> => Frame = Rest[1] /\ Rest # <<>>
    BY RestHead, FrameType, EmptySeq
  <2>2. ~Misread
    BY <1>2, <2>1 DEF Misread
  <2>3. astray' = astray /\ UNCHANGED <<input, wire>>
    BY <1>2, <1>7, <2>2 DEF AwaitFrame, TypeOK
  <2> QED
    BY <1>5, <2>3
<1>8. CASE Open \/ DnsAnswers \/ Connect \/ Written \/ Error \/ UNCHANGED vars
  BY <1>5, <1>8 DEF Open, DnsAnswers, Connect, Written, Error, vars, buffers
<1>9. CASE ScriptReturns \/ CloseReturns \/ Close \/ Drop
  BY <1>5, <1>6, <1>9 DEF ScriptReturns, CloseReturns, Close, Drop
<1> QED
  BY <1>1, <1>3, <1>4, <1>7, <1>8, <1>9 DEF Next, Read

(***************************************************************************)
(* What onReading leaves of the input, when a frame is all there, begins   *)
(* with a header.                                                          *)
(***************************************************************************)
LEMMA HeaderAfter ==
  ASSUME TypeOK, InPlace, bev, state # "Closed", input # <<>>, Frame.op # "byte",
         NEW d \in Nat, d = Frame.len + 1, d < Len(input)
  PROVE  input[d + 1].op # "byte"
<1>1. Intact(Rest, sent)
  BY DEF InPlace
<1>2. Len(Rest) \in Nat \ {0} /\ Rest[1] = input[1] /\ Frame = input[1] /\ Rest \in Seq(UnitsSent)
  BY RestHead, FrameType, RestType
<1>3. Starts(Rest, d)
  <2>1. sent \in Seq(Answers \union Frames) /\ Len(Rest) > 0 /\ Rest[1].op # "byte"
    BY <1>2 DEF TypeOK
  <2>2. Starts(Rest, Rest[1].len + 1)
    BY <1>1, <1>2, <2>1, HeadFrame
  <2> QED
    BY <1>2, <2>2
<1>4. Len(input) \in Nat /\ d + 1 \in 1..Len(input)
  BY DEF TypeOK
<1>5. Rest[d + 1] = input[d + 1] /\ d < Len(Rest)
  <2>1. input \in Seq(UnitsSent) /\ wire \in Seq(UnitsSent) /\ Len(wire) \in Nat
    BY DEF TypeOK
  <2>2. Len(Rest) = Len(input) + Len(wire) /\ \A i \in 1..Len(input) : Rest[i] = input[i]
    BY <1>4, <2>1, ConcatProperties DEF Rest
  <2> QED
    BY <1>4, <2>1, <2>2
<1> QED
  BY <1>3, <1>5 DEF Starts

LEMMA OpenPlaceNext ==
  ASSUME Calm, TypeOK, Fresh, Pointers, OpenPlace, Placed, Unopened, [Next]_vars
  PROVE  OpenPlace'
<1> SUFFICES ASSUME inOpen', input' # <<>>
             PROVE  (~Misread /\ (bodyType = "none" \/ Len(body) >= bodyLength))'
  BY DEF OpenPlace
<1>t. inOpen \in BOOLEAN /\ Len(input) \in Nat /\ Len(body) \in Nat /\ bodyLength \in Nat
  BY DEF TypeOK
<1>1. ASSUME inOpen, UNCHANGED <<input, body, bodyType, bodyLength>>, astray' = astray \/ astray' = Misread
      PROVE  (~Misread /\ (bodyType = "none" \/ Len(body) >= bodyLength))'
  <2>1. ~Misread /\ (bodyType = "none" \/ Len(body) >= bodyLength) /\ input # <<>>
    BY <1>1 DEF OpenPlace
  <2>2. ~astray /\ Head(input).op # "byte"
    BY <2>1 DEF Misread, Frame
  <2>4. ~astray'
    BY <1>1, <2>1, <2>2
  <2>3. (~Misread)'
    BY <1>1, <2>2, <2>4 DEF Misread, Frame
  <2> QED
    BY <1>1, <2>1, <2>3
<1>2. ASSUME ~astray', bodyType' = "none" \/ Len(body') >= bodyLength', input'[1].op # "byte"
      PROVE  (~Misread /\ (bodyType = "none" \/ Len(body) >= bodyLength))'
  <2>1. Head(input') = input'[1]
    BY <1>2
  <2> QED
    BY <1>2, <2>1 DEF Misread, Frame
<1>3. CASE pc = "idle" \/ pc = "new" \/ AwaitFrame \/ CloseReturns \/ Close
  <2>1. pc \in {"idle", "new"} => ~inOpen
    BY DEF Pointers
  <2>2. pc \in {"idle", "new"} => inOpen' = inOpen
    BY DEF Next, Read, vars, connection, buffers, PeerWrites, Open, DnsAnswers, Connect, Written, Error, Arrive,
       Handshake, ReadBody, ReadFrame, ReadClose, ReadsHeader, AwaitFrame, ScriptReturns, CloseReturns, Close, Drop
  <2>3. ~AwaitFrame /\ ~CloseReturns
    BY DEF AwaitFrame, CloseReturns
  <2>4. ~Close
    BY DEF Close, Free
  <2> QED
    BY <1>3, <2>1, <2>2, <2>3, <2>4
<1>4. CASE Handshake
  <2>1. /\ state = "Connected" /\ pc = "reading" /\ input # <<>> /\ input' = Tail(input)
        /\ UNCHANGED <<body, bodyType, bodyLength, astray>> /\ bev /\ ~inOpen
    BY <1>4 DEF Handshake, Pointers
  <2>2. Head(input).op = "101"
    BY <1>4, <1>t, <2>1 DEF Handshake
  <2>3. ~astray /\ InPlace
    BY <2>1 DEF Unopened, Placed
  <2>4. bodyType = "none"
    BY <2>1, <2>3 DEF InPlace
  <2>5. Frame.op # "byte" /\ Frame.len = 0
    <3>1. Frame.op = "101" /\ Frame = input[1] /\ Frame \in UnitsSent
      BY <2>1, <2>2, FrameType DEF Frame
    <3>2. Intact(Rest, sent) /\ Rest[1] = Frame /\ Len(Rest) \in Nat \ {0}
          /\ sent \in Seq(Answers \union Frames)
      BY <2>1, <2>3, <3>1, RestHead DEF InPlace, TypeOK
    <3>3. 1 \in 1..Len(Rest)
      BY <3>2
    <3>4. /\ Frame.id \in 1..Len(sent) /\ sent[Frame.id].op = "101"
          /\ \A k \in 2..(1 + Frame.len) : k \in 1..Len(Rest) /\ Rest[k].op = "byte" /\ Rest[k].id = Frame.id
      <4>1. /\ Frame.id \in 1..Len(sent) /\ sent[Frame.id].op = "101"
            /\ \A k \in (1 + 1)..(1 + Frame.len) : k \in 1..Len(Rest) /\ Rest[k].op = "byte" /\ Rest[k].id = Frame.id
        BY <3>1, <3>2, <3>3 DEF Intact
      <4> QED
        BY <4>1
    <3>5. sent[Frame.id].len = 0
      <4>1. sent[Frame.id] \in Answers \union Frames
        BY <3>2, <3>4, ElementOfSeq
      <4> QED
        BY <3>4, <4>1, FramesAssumption DEF Answers, Opcodes
    <3>6. Frame.len \in Nat
      BY <3>1 DEF UnitsSent
    <3>7. CASE Frame.len > 0
      <4>1. 2 \in 2..(1 + Frame.len)
        BY <3>6, <3>7
      <4>2. 2 \in 1..Len(Rest) /\ Rest[2].op = "byte" /\ Rest[2].id = Frame.id
        BY <3>4, <4>1
      <4>3. Rest[2].len \in 1..0
        BY <3>2, <3>5, <4>2 DEF Intact
      <4> QED
        BY <4>3
    <3> QED
      BY <3>1, <3>6, <3>7
  <2>6. Len(input) > 1 /\ Tail(input)[1] = input[2]
    BY <2>1, <1>t, HeadTailProperties, EmptySeq DEF TypeOK
  <2>7. input[2].op # "byte"
    <3>1. PICK d \in Nat : d = 1
      OBVIOUS
    <3>2. d = Frame.len + 1 /\ d < Len(input) /\ d + 1 = 2
      BY <2>5, <2>6, <3>1
    <3>3. input[d + 1].op # "byte"
      BY <2>1, <2>3, <2>5, <3>2, HeaderAfter
    <3> QED
      BY <3>2, <3>3
  <2> QED
    BY <1>2, <2>1, <2>3, <2>4, <2>6, <2>7
<1>5. CASE ReadBody
  <2>1. pc = "reading" /\ state = "Opened" /\ BodyBegun /\ UNCHANGED <<connection, sent, wire>>
    BY <1>5 DEF ReadBody
  <2>2. CompleteBody /\ inOpen /\ UNCHANGED astray
    BY <1>5 DEF ReadBody, CompleteBody, AwaitBody
  <2>3. Missing <= 0
    BY <1>t, <2>1, <2>2 DEF OpenPlace, BodyBegun, Missing
  <2>4. ~TakesBody
    BY <1>t, <2>3 DEF TakesBody, Missing
  <2>5. input' = input /\ bodyType' = "none"
    BY <2>2, <2>4 DEF CompleteBody, OnData
  <2>6. ~Misread
    BY <2>1, <2>2 DEF OpenPlace, BodyBegun
  <2> QED
    BY <2>2, <2>5, <2>6 DEF Misread, Frame
<1>6. CASE ReadFrame
  <2>1. pc = "reading" /\ state = "Opened" /\ input # <<>> /\ inOpen /\ ~BodyBegun /\ astray' = Misread /\ bev
    BY <1>6 DEF ReadFrame, ReadsHeader, Pointers
  <2>2. ~Misread /\ (bodyType = "none" \/ Len(body) >= bodyLength)
    BY <2>1 DEF OpenPlace
  <2>3. SkipPong(Frame) \/ AddFrame(Frame)
    BY <1>6, <2>1, <2>2, HeaderSays DEF ReadFrame
  <2>4. InPlace /\ Frame.op # "byte"
    BY <2>1, <2>2 DEF Misread, Placed
  <2>5. input' = Drained(Frame)
    BY <2>3 DEF SkipPong, AddFrame
  <2>6. PICK h : h = There(Frame)
    OBVIOUS
  <2>7. /\ h \in 0..(Len(input) - 1) /\ (h < Frame.len => h = Len(input) - 1) /\ h <= Frame.len
        /\ Len(input') = Len(input) - 1 - h /\ input' \in Seq(UnitsSent)
        /\ \A i \in 1..Len(input') : input'[i] = input[h + 1 + i]
        /\ Frame.len \in Nat
        /\ Len(body \o SubSeq(input, 2, There(Frame) + 1)) = Len(body) + h
    <3>1. Frame.len \in Nat
      BY <2>1, FrameType DEF UnitsSent
    <3>2. /\ There(Frame) \in 0..(Len(input) - 1) /\ There(Frame) <= Frame.len
          /\ There(Frame) < Frame.len => There(Frame) = Len(input) - 1
          /\ Len(Drained(Frame)) = Len(input) - 1 - There(Frame) /\ Drained(Frame) \in Seq(UnitsSent)
          /\ \A i \in 1..Len(Drained(Frame)) : Drained(Frame)[i] = input[There(Frame) + 1 + i]
          /\ Len(body \o SubSeq(input, 2, There(Frame) + 1)) = Len(body) + There(Frame)
      BY <2>1, FrameType, Zenon
    <3> QED
      BY <2>5, <2>6, <3>1, <3>2, Zenon
  <2>8. Len(input') \in Nat \ {0}
    BY <2>7, EmptySeq
  <2>9. PICK d \in Nat : d = h + 1
    BY <2>7, <1>t
  <2>10. d = Frame.len + 1 /\ d < Len(input) /\ input'[1] = input[d + 1] /\ h = Frame.len
    <3>1. Len(input) \in Nat /\ 1 \in 1..Len(input') /\ Len(input') = Len(input) - 1 - h /\ Len(input') > 0
      BY <1>t, <2>7, <2>8
    <3>2. input'[1] = input[h + 1 + 1]
      BY <2>7, <3>1
    <3>3. h \in Nat /\ Frame.len \in Nat /\ h <= Frame.len /\ (h < Frame.len => h = Len(input) - 1)
      BY <2>7, <3>1
    <3>4. h = Frame.len
      BY <2>8, <3>1, <3>3
    <3> QED
      BY <2>9, <3>1, <3>2, <3>3, <3>4
  <2>11. input'[1].op # "byte"
    BY <2>1, <2>4, <2>10, HeaderAfter
  <2>12. bodyType' = "none" \/ Len(body') >= bodyLength'
    <3>1. CASE SkipPong(Frame)
      BY <2>2, <3>1 DEF SkipPong
    <3>2. CASE AddFrame(Frame)
      <4>1. bodyType' = "none" \/ (body' = body \o SubSeq(input, 2, There(Frame) + 1) /\ bodyLength' = Frame.len)
        BY <3>2 DEF AddFrame, OnData
      <4>2. CASE body' = body \o SubSeq(input, 2, There(Frame) + 1) /\ bodyLength' = Frame.len
        <5>1. PICK b \in Nat : b = Len(body)
          BY <1>t
        <5>2. Len(body') = b + h /\ h = bodyLength'
          BY <2>7, <2>10, <4>2, <5>1
        <5>3. h \in Nat
          BY <2>7
        <5>4. b + h >= h
          BY <5>3
        <5> QED
          BY <5>2, <5>4
      <4> QED
        BY <4>1, <4>2
    <3> QED
      BY <2>3, <3>1, <3>2
  <2> QED
    BY <1>2, <2>1, <2>2, <2>11, <2>12
<1>7. CASE ReadClose
  BY <1>1, <1>7 DEF ReadClose, ReadsHeader
<1>8. CASE ScriptReturns
  <2>1. ~gone
    BY <1>8 DEF ScriptReturns, Pointers
  <2> QED
    BY <1>1, <1>8, <2>1 DEF ScriptReturns
<1>9. CASE Drop
  BY <1>1, <1>3, <1>9 DEF Drop
<1>10. CASE \E f \in Answers \union Frames : PeerWrites(f)
  BY <1>1, <1>10 DEF PeerWrites, buffers
<1>11. CASE UNCHANGED vars
  BY <1>1, <1>11 DEF vars, buffers
<1>12. Open \/ DnsAnswers \/ Connect \/ Written \/ Error \/ (\E k \in 1..Len(wire) : Arrive(k))
         => pc \in {"idle", "new"}
  BY DEF Open, DnsAnswers, Connect, Written, Error, Arrive
<1> QED
  BY <1>3, <1>4, <1>5, <1>6, <1>7, <1>8, <1>9, <1>10, <1>11, <1>12 DEF Next, Read

(***************************************************************************)
(* In calm surroundings no null or dangling pointer is used, however the   *)
(* frames are cut and whatever their payload says; and if the peer writes  *)
(* whole messages and no pong, no payload is parsed as a header, whatever  *)
(* the surroundings.                                                       *)
(***************************************************************************)
THEOREM NeverFaults == Spec => []NoFault
<1>1. ASSUME Calm PROVE Spec => [](pc # "crash")
  <2> DEFINE I == TypeOK /\ Fresh /\ Pointers /\ OpenPlace /\ Placed /\ Unopened
  <2>1. Init => I
    <3>1. Init => Rest = <<>>
      BY DEF Init, Rest
    <3> QED
      BY <3>1, InitType, PlaceInit DEF Init, Fresh, Pointers, OpenPlace, Placed, Unopened
  <2>2. I /\ [Next]_vars => I'
    BY <1>1, NextType, FreshNext, PointersNext, OpenPlaceNext, PlaceNext, UnopenedNext
  <2>3. I => pc # "crash"
    BY DEF Pointers
  <2> QED
    BY <2>1, <2>2, <2>3, PTL DEF Spec
<1>2. ASSUME WholeMessages PROVE Spec => [](~astray)
  <2> DEFINE I == TypeOK /\ Fresh /\ Answered /\ Following /\ ~astray
  <2>1. Init => I
    BY InitType, StreamInit DEF Init, Fresh
  <2>2. I /\ [Next]_vars => I'
    BY <1>2, NextType, FreshNext, AnsweredNext, StreamNext, HeaderNext
  <2> QED
    BY <2>1, <2>2, PTL DEF Spec
<1>3. CASE Calm /\ WholeMessages
  <2>1. pc # "crash" /\ ~astray => NoFault
    BY DEF NoFault
  <2> QED
    BY <1>1, <1>2, <1>3, <2>1, PTL
<1>4. CASE Calm /\ ~WholeMessages
  <2>1. pc # "crash" => NoFault
    BY <1>4 DEF NoFault
  <2> QED
    BY <1>1, <1>4, <2>1, PTL
<1>5. CASE ~Calm /\ WholeMessages
  <2>1. ~astray => NoFault
    BY <1>5 DEF NoFault
  <2> QED
    BY <1>2, <1>5, <2>1, PTL
<1>6. CASE ~Calm /\ ~WholeMessages
  <2>1. NoFault
    BY <1>6 DEF NoFault
  <2> QED
    BY <2>1, PTL
<1> QED
  BY <1>3, <1>4, <1>5, <1>6
=============================================================================
