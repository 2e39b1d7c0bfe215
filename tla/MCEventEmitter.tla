---- MODULE MCEventEmitter ----
(* "any" stands for a name that ends with *: its listeners hear both.      *)
(* Callbacks can be exchanged for each other, and so can functions.        *)
EXTENDS EventEmitter, TLC
CONSTANTS c1, c2, f, g
MCNames == {"a", "any"}
MCCovers == {<<"a", "a">>, <<"any", "a">>, <<"any", "any">>}
Symmetry == Permutations({c1, c2}) \union Permutations({f, g})
====
