----------------------------- MODULE MCWebSocket ----------------------------
(***************************************************************************)
(* Instances of WebSocket for TLC: a peer that writes every message in one *)
(* frame, and one that fragments messages.                                 *)
(***************************************************************************)
EXTENDS WebSocket

F(op, fin, len) == [op |-> op, fin |-> fin, len |-> len]

Whole == {F("text", TRUE, 0), F("text", TRUE, 2), F("binary", TRUE, 3), F("ping", TRUE, 2), F("close", TRUE, 0)}

Fragmented ==
  {F("text", fin, len) : fin \in BOOLEAN, len \in {0, 2}}
    \union {F("continue", fin, len) : fin \in BOOLEAN, len \in {0, 2}}
    \union {F("ping", TRUE, 1), F("ping", FALSE, 0), F("pong", TRUE, 2), F("close", TRUE, 0)}

(***************************************************************************)
(* Payload may look like a message, as long as what is there or longer, a  *)
(* part of one, a pong or the end.                                         *)
(***************************************************************************)
Anything ==
  {F("text", TRUE, 1), F("text", FALSE, 2), F("continue", TRUE, 0), F("pong", TRUE, 1), F("close", TRUE, 0)}

(***************************************************************************)
(* Surroundings that the code copes with, and all that it may meet.        *)
(***************************************************************************)
Calmly == {"split"}
Roughly == {"split", "abrupt", "hasty", "reentrant"}
=============================================================================
