---- MODULE MCWebWorker ----
(* One flat list of arguments, a container that ends with a plain value,   *)
(* and containers that end with containers: one is received without its    *)
(* contents, one makes an array run off the chain, and one swallows the    *)
(* argument behind it.                                                     *)
EXTENDS WebWorker
Number == Plain("number")
Array(s) == [type |-> "array", of |-> s]
Object(v) == [type |-> "object", of |-> <<Plain("string"), v>>]
MCValues ==
  {Plain("null"), Plain("string"), Number, Array(<<>>), Array(<<Number>>), Array(<<Array(<<>>)>>),
   Array(<<Array(<<Number>>), Number>>), Object(Number), Object(Array(<<Number>>)), Object(Object(Number))}
MCPayloads ==
  {<<Plain("null"), Number>>, <<Array(<<Array(<<Number>>), Number>>), Number>>,
   <<Object(Array(<<Number>>))>>, <<Array(<<Array(<<>>)>>)>>, <<Object(Object(Number)), Number>>}
====
