---- MODULE MCScriptHeap ----
(* Two addresses, with the same 32 bits or with different ones.  The       *)
(* script::Objects can be exchanged for each other.                        *)
EXTENDS ScriptHeap, TLC
CONSTANTS a, b, h1, h2
MCKeyings == {(a :> 1) @@ (b :> 1), (a :> 1) @@ (b :> 2)}
Symmetry == Permutations({h1, h2})
====
