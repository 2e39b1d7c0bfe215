--------------------------- MODULE WebWorkerProofs --------------------------
(***************************************************************************)
(* Proofs about WebWorker and Binary, for any finite trees as values, any  *)
(* lists of them as arguments, and any number of messages: what the other  *)
(* script receives, in which order, and who may do harm.                   *)
(***************************************************************************)
EXTENDS WebWorker, SequenceTheorems, WellFoundedInduction, TLAPS

(***************************************************************************)
(* Induction over numbers, in the form of sets.                            *)
(***************************************************************************)
LEMMA LeastNat ==
  ASSUME NEW T, T \subseteq Nat, T # {}
  PROVE  \E n \in T : \A m \in T : n <= m
<1>1. PICK x \in T : \A y \in T : <<y, x>> \notin OpToRel(<, Nat)
  BY NatLessThanWellFounded, WFMin, Zenon
<1>2. \A y \in T : ~(y < x)
  <2> SUFFICES ASSUME NEW y \in T PROVE ~(y < x)
    OBVIOUS
  <2>1. x \in Nat /\ y \in Nat /\ <<y, x>> \notin OpToRel(<, Nat)
    BY <1>1
  <2> QED
    BY <2>1, Zenon DEF OpToRel
<1> QED
  BY <1>2

LEMMA Induct ==
  ASSUME NEW T, 0 \in T, \A n \in Nat : n \in T => n + 1 \in T
  PROVE  Nat \subseteq T
<1> DEFINE U == {n \in Nat : n \notin T}
<1> SUFFICES ASSUME U # {} PROVE FALSE
  OBVIOUS
<1>1. PICK n \in U : \A m \in U : n <= m
  BY LeastNat
<1>2. n # 0 /\ n - 1 \in Nat /\ n - 1 \in T
  BY <1>1
<1> QED
  BY <1>1, <1>2

(***************************************************************************)
(* The two recursions over a sequence, that of FlattenSeq and that of      *)
(* Pushed: done[i] is what the first i members give.                       *)
(***************************************************************************)
Goes(how, x, y) == IF how = "flatten" THEN x \o y ELSE Push(x, y)

Run(how, base, seq, done) ==
  /\ DOMAIN done = 0 .. Len(seq)
  /\ done[0] = base
  /\ \A i \in 1 .. Len(seq) : done[i] = Goes(how, done[i - 1], seq[i])

LEMMA RunExists ==
  ASSUME NEW how, NEW base, NEW seq, Len(seq) \in Nat
  PROVE  \E done : Run(how, base, seq, done)
<1> DEFINE Upto(done, k) == /\ DOMAIN done = 0 .. k
                            /\ done[0] = base
                            /\ \A i \in 1 .. k : done[i] = Goes(how, done[i - 1], seq[i])
           T == {k \in Nat : \E done : Upto(done, k)}
<1>1. 0 \in T
  <2>1. Upto([i \in 0 .. 0 |-> base], 0)
    OBVIOUS
  <2> QED
    BY <2>1
<1>2. ASSUME NEW k \in Nat, k \in T PROVE k + 1 \in T
  <2>1. PICK done : Upto(done, k)
    BY <1>2
  <2> DEFINE more == [i \in 0 .. k + 1 |-> IF i = k + 1 THEN Goes(how, done[k], seq[k + 1]) ELSE done[i]]
  <2>2. more[0] = base /\ DOMAIN more = 0 .. k + 1
    BY <2>1
  <2>3. ASSUME NEW i \in 1 .. k + 1 PROVE more[i] = Goes(how, more[i - 1], seq[i])
    <3>1. CASE i = k + 1
      BY <3>1
    <3>2. CASE i \in 1 .. k
      <4>1. more[i] = done[i] /\ more[i - 1] = done[i - 1]
        BY <3>2
      <4> QED
        BY <2>1, <3>2, <4>1
    <3> QED
      BY <3>1, <3>2
  <2> HIDE DEF more
  <2>4. Upto(more, k + 1)
    BY <2>2, <2>3
  <2> QED
    BY <2>4
<1> HIDE DEF T
<1>3. Nat \subseteq T
  BY <1>1, <1>2, Induct
<1>4. Len(seq) \in T
  BY <1>3
<1> QED
  BY <1>4 DEF T, Run

(***************************************************************************)
(* Two of them are the same as far as both go.                             *)
(***************************************************************************)
LEMMA RunsAgree ==
  ASSUME NEW how, NEW base, NEW seq, NEW more, NEW done, NEW again,
         Run(how, base, seq, done), Run(how, base, more, again),
         Len(seq) \in Nat, Len(more) \in Nat, Len(seq) <= Len(more),
         \A i \in 1 .. Len(seq) : more[i] = seq[i]
  PROVE  \A i \in 0 .. Len(seq) : again[i] = done[i]
<1> DEFINE T == {k \in Nat : k <= Len(seq) => again[k] = done[k]}
<1>1. 0 \in T
  BY DEF Run
<1>2. ASSUME NEW k \in Nat, k \in T PROVE k + 1 \in T
  <2>1. CASE k + 1 <= Len(seq)
    <3>1. k <= Len(seq) /\ k + 1 \in 1 .. Len(seq) /\ k + 1 \in 1 .. Len(more) /\ (k + 1) - 1 = k
      BY <2>1
    <3>2. done[k + 1] = Goes(how, done[k], seq[k + 1]) /\ again[k + 1] = Goes(how, again[k], more[k + 1])
      BY <3>1 DEF Run
    <3> QED
      BY <1>2, <3>1, <3>2
  <2>2. CASE ~(k + 1 <= Len(seq))
    BY <2>2
  <2> QED
    BY <2>1, <2>2
<1> HIDE DEF T
<1>3. Nat \subseteq T
  BY <1>1, <1>2, Induct
<1> QED
  BY <1>3 DEF T

(***************************************************************************)
(* FlattenSeq is the end of its recursion.                                 *)
(***************************************************************************)
Flattens(seqs, done) == Run("flatten", <<>>, seqs, done)

LEMMA FlattensType ==
  ASSUME NEW S, NEW seqs \in Seq(Seq(S)), NEW done, Flattens(seqs, done)
  PROVE  \A i \in 0 .. Len(seqs) : done[i] \in Seq(S)
<1> DEFINE T == {k \in Nat : k <= Len(seqs) => done[k] \in Seq(S)}
<1>1. 0 \in T
  <2>1. done[0] = <<>>
    BY Zenon DEF Flattens, Run
  <2>2. <<>> \in Seq(S)
    OBVIOUS
  <2>3. done[0] \in Seq(S)
    BY <2>1, <2>2, Zenon
  <2> QED
    BY <2>3
<1>2. ASSUME NEW k \in Nat, k \in T PROVE k + 1 \in T
  <2>1. CASE k + 1 <= Len(seqs)
    <3>1. k <= Len(seqs) /\ k + 1 \in 1 .. Len(seqs) /\ (k + 1) - 1 = k
      BY <2>1
    <3>2. done[k + 1] = Goes("flatten", done[k], seqs[k + 1])
      BY <3>1 DEF Flattens, Run
    <3>3. seqs[k + 1] \in Seq(S) /\ done[k] \in Seq(S)
      BY <1>2, <3>1
    <3>4. done[k] \o seqs[k + 1] \in Seq(S)
      BY <3>3
    <3>5. done[k + 1] = done[k] \o seqs[k + 1]
      BY <3>2, Zenon DEF Goes
    <3>6. done[k + 1] \in Seq(S)
      BY <3>4, <3>5
    <3> QED
      BY <3>6
  <2>2. CASE ~(k + 1 <= Len(seqs))
    BY <2>2
  <2> QED
    BY <2>1, <2>2
<1> HIDE DEF T
<1>3. Nat \subseteq T
  BY <1>1, <1>2, Induct
<1> QED
  BY <1>3 DEF T

LEMMA Flattened ==
  ASSUME NEW S, NEW seqs \in Seq(Seq(S)), NEW done, Flattens(seqs, done)
  PROVE  FlattenSeq(seqs) = done[Len(seqs)]
<1> DEFINE n == Len(seqs)
           Same(f) == f = [i \in 1 .. n |-> IF i = 1 THEN seqs[i] ELSE Goes("flatten", f[i - 1], seqs[i])]
           flatten == CHOOSE f : Same(f)
<1>0. n \in Nat /\ done[0] = <<>> /\ \A i \in 1 .. n : done[i] = Goes("flatten", done[i - 1], seqs[i])
  BY DEF Flattens, Run
<1>1. n # 0 => done[1] = seqs[1]
  <2> SUFFICES ASSUME n # 0 PROVE done[1] = seqs[1]
    OBVIOUS
  <2>1. 1 \in 1 .. n /\ seqs[1] \in Seq(S)
    BY <1>0
  <2>2. done[1] = Goes("flatten", <<>>, seqs[1])
    BY <1>0, <2>1
  <2>3. <<>> \o seqs[1] = seqs[1]
    BY <2>1, ConcatEmptySeq
  <2> QED
    BY <2>2, <2>3 DEF Goes
<1>2. CASE n = 0
  <2>1. seqs = <<>>
    BY <1>2
  <2> QED
    BY <1>0, <1>2, <2>1 DEF FlattenSeq
<1>3. CASE n # 0
  <2>1. Same([i \in 1 .. n |-> done[i]])
    <3> DEFINE f == [i \in 1 .. n |-> done[i]]
    <3>1. ASSUME NEW i \in 1 .. n PROVE f[i] = IF i = 1 THEN seqs[i] ELSE Goes("flatten", f[i - 1], seqs[i])
      <4>1. CASE i = 1
        BY <1>1, <1>3, <4>1
      <4>2. CASE i # 1
        <5>1. i - 1 \in 1 .. n
          BY <1>0, <4>2
        <5> QED
          BY <1>0, <4>2, <5>1
      <4> QED
        BY <4>1, <4>2
    <3> QED
      BY <3>1
  <2>2. Same(flatten)
    BY <2>1
  <2>3. FlattenSeq(seqs) = flatten[n]
    BY <1>3 DEF FlattenSeq, Goes
  <2> HIDE DEF flatten
  <2>4. \A i \in 1 .. n : flatten[i] = IF i = 1 THEN seqs[i] ELSE Goes("flatten", flatten[i - 1], seqs[i])
    BY <2>2
  <2> DEFINE T == {k \in Nat : k + 1 <= n => flatten[k + 1] = done[k + 1]}
  <2>5. 0 \in T
    BY <1>0, <1>1, <1>3, <2>4
  <2>6. ASSUME NEW k \in Nat, k \in T PROVE k + 1 \in T
    <3>1. CASE (k + 1) + 1 <= n
      <4>1. (k + 1) + 1 \in 1 .. n /\ ((k + 1) + 1) - 1 = k + 1 /\ (k + 1) + 1 # 1 /\ k + 1 <= n
        BY <1>0, <3>1
      <4>2. flatten[(k + 1) + 1] = Goes("flatten", flatten[k + 1], seqs[(k + 1) + 1])
        BY <2>4, <4>1
      <4>3. done[(k + 1) + 1] = Goes("flatten", done[k + 1], seqs[(k + 1) + 1])
        BY <1>0, <4>1
      <4> QED
        BY <2>6, <4>1, <4>2, <4>3
    <3>2. CASE ~((k + 1) + 1 <= n)
      BY <3>2
    <3> QED
      BY <3>1, <3>2
  <2> HIDE DEF T
  <2>7. Nat \subseteq T
    BY <2>5, <2>6, Induct
  <2>8. n - 1 \in T
    BY <1>0, <1>3, <2>7
  <2> QED
    BY <1>0, <1>3, <2>3, <2>8 DEF T
<1> QED
  BY <1>2, <1>3

LEMMA FlattenLast ==
  ASSUME NEW S, NEW seqs \in Seq(Seq(S)), seqs # <<>>
  PROVE  /\ FlattenSeq(Front(seqs)) \in Seq(S)
         /\ FlattenSeq(seqs) = FlattenSeq(Front(seqs)) \o Last(seqs)
<1> DEFINE n == Len(seqs)
           less == Front(seqs)
<1>1. n \in Nat \ {0} /\ Last(seqs) = seqs[n]
  BY DEF Last
<1>2. less \in Seq(Seq(S)) /\ Len(less) = n - 1 /\ \A i \in 1 .. n - 1 : seqs[i] = less[i]
  <2>1. n - 1 \in Int /\ 1 \in Int /\ \A i \in 1 .. n - 1 : seqs[i] \in Seq(S)
    BY <1>1
  <2>2. /\ SubSeq(seqs, 1, n - 1) \in Seq(Seq(S))
        /\ Len(SubSeq(seqs, 1, n - 1)) = IF 1 <= n - 1 THEN (n - 1) - 1 + 1 ELSE 0
        /\ \A i \in 1 .. (n - 1) - 1 + 1 : SubSeq(seqs, 1, n - 1)[i] = seqs[1 + i - 1]
    BY <2>1, SubSeqProperties
  <2>3. \A i \in 1 .. n - 1 : i \in 1 .. (n - 1) - 1 + 1 /\ 1 + i - 1 = i
    BY <1>1
  <2>4. less = SubSeq(seqs, 1, n - 1)
    BY DEF Front
  <2>5. (IF 1 <= n - 1 THEN (n - 1) - 1 + 1 ELSE 0) = n - 1
    <3> HIDE DEF n
    <3>1. CASE n = 1
      BY <3>1
    <3>2. CASE n # 1
      BY <1>1, <3>2
    <3> QED
      BY <3>1, <3>2
  <2> HIDE DEF less
  <2> QED
    BY <2>2, <2>3, <2>4, <2>5
<1> HIDE DEF less
<1>3. /\ Len(less) \in Nat /\ Len(seqs) \in Nat /\ Len(less) <= Len(seqs)
      /\ \A i \in 1 .. Len(less) : seqs[i] = less[i]
  BY <1>1, <1>2
<1>4. PICK done : Flattens(less, done)
  BY <1>3, RunExists, Zenon DEF Flattens
<1>5. PICK again : Flattens(seqs, again)
  BY <1>3, RunExists, Zenon DEF Flattens
<1>6. \A i \in 0 .. Len(less) : again[i] = done[i]
  <2> DEFINE how == "flatten"
             base == <<>>
  <2>1. Run(how, base, less, done) /\ Run(how, base, seqs, again)
    BY <1>4, <1>5, Zenon DEF Flattens
  <2> HIDE DEF how, base
  <2> QED
    BY <1>3, <2>1, RunsAgree
<1>7. again[n] = again[n - 1] \o seqs[n]
  <2>1. \A i \in 1 .. n : again[i] = Goes("flatten", again[i - 1], seqs[i])
    BY <1>5, Zenon DEF Flattens, Run
  <2>2. again[n] = Goes("flatten", again[n - 1], seqs[n])
    BY <1>1, <2>1
  <2> QED
    BY <2>2, Zenon DEF Goes
<1>8. FlattenSeq(less) = done[n - 1] /\ FlattenSeq(seqs) = again[n]
  BY <1>2, <1>4, <1>5, Flattened
<1>9. done[n - 1] \in Seq(S) /\ again[n - 1] = done[n - 1]
  BY <1>1, <1>2, <1>4, <1>6, FlattensType
<1> QED
  BY <1>1, <1>7, <1>8, <1>9 DEF less

(***************************************************************************)
(* Where each of the sequences is in the whole.                            *)
(***************************************************************************)
Places(at, seqs, whole) ==
  /\ at \in [0 .. Len(seqs) -> Nat]
  /\ at[0] = 0 /\ at[Len(seqs)] = Len(whole)
  /\ \A i \in 1 .. Len(seqs) : /\ at[i] = at[i - 1] + Len(seqs[i])
                              /\ at[i] <= Len(whole)
                              /\ \A j \in 1 .. Len(seqs[i]) : whole[at[i - 1] + j] = seqs[i][j]

LEMMA Pieces ==
  ASSUME NEW S, NEW seqs \in Seq(Seq(S))
  PROVE  FlattenSeq(seqs) \in Seq(S) /\ \E at : Places(at, seqs, FlattenSeq(seqs))
<1> DEFINE n == Len(seqs)
<1>0. n \in Nat
  OBVIOUS
<1>1. PICK done : Flattens(seqs, done)
  BY <1>0, RunExists, Zenon DEF Flattens
<1>2. \A i \in 0 .. n : done[i] \in Seq(S)
  BY <1>1, FlattensType
<1>3. n \in Nat /\ FlattenSeq(seqs) = done[n]
  BY <1>1, Flattened
<1>4. ASSUME NEW i \in 1 .. n
      PROVE  /\ Len(done[i]) = Len(done[i - 1]) + Len(seqs[i])
             /\ \A j \in 1 .. Len(done[i - 1]) : done[i][j] = done[i - 1][j]
             /\ \A j \in 1 .. Len(seqs[i]) : done[i][Len(done[i - 1]) + j] = seqs[i][j]
  <2>1. done[i] = done[i - 1] \o seqs[i]
    <3>1. done[i] = Goes("flatten", done[i - 1], seqs[i])
      BY <1>1, Zenon DEF Flattens, Run
    <3> QED
      BY <3>1, Zenon DEF Goes
  <2>2. done[i - 1] \in Seq(S) /\ seqs[i] \in Seq(S)
    BY <1>2, <1>3
  <2> DEFINE a == done[i - 1]
             b == seqs[i]
  <2>3. /\ Len(a \o b) = Len(a) + Len(b)
        /\ \A j \in 1 .. Len(a) : (a \o b)[j] = a[j]
        /\ \A j \in 1 .. Len(b) : (a \o b)[Len(a) + j] = b[j]
    <3>1. a \in Seq(S) /\ b \in Seq(S)
      BY <2>2
    <3> HIDE DEF a, b
    <3> QED
      BY <3>1
  <2> QED
    BY <2>1, <2>3
<1> DEFINE Fits(i, k) == /\ Len(done[i]) <= Len(done[k])
                         /\ \A j \in 1 .. Len(done[i]) : done[k][j] = done[i][j]
           T == {k \in Nat : k <= n => \A i \in 0 .. k : Fits(i, k)}
<1>5. 0 \in T
  BY <1>2, <1>3
<1>6. ASSUME NEW k \in Nat, k \in T PROVE k + 1 \in T
  <2>1. ASSUME k + 1 <= n, NEW i \in 0 .. k + 1 PROVE Fits(i, k + 1)
    <3>1. k \in 0 .. n /\ k + 1 \in 1 .. n /\ k + 1 \in 0 .. n /\ (k + 1) - 1 = k /\ i \in 0 .. n
      BY <1>3, <2>1
    <3>2. Len(done[k]) \in Nat /\ Len(done[k + 1]) \in Nat /\ Len(done[i]) \in Nat /\ Len(seqs[k + 1]) \in Nat
      BY <1>2, <3>1
    <3>3. CASE i = k + 1
      BY <3>2, <3>3
    <3>4. CASE i \in 0 .. k
      <4>1. Fits(i, k)
        BY <1>3, <1>6, <2>1, <3>4
      <4>2. Fits(k, k + 1)
        <5>1. /\ Len(done[k + 1]) = Len(done[k]) + Len(seqs[k + 1])
              /\ \A j \in 1 .. Len(done[k]) : done[k + 1][j] = done[k][j]
          <6> DEFINE m == k + 1
          <6>1. m \in 1 .. n /\ m - 1 = k
            BY <3>1
          <6> HIDE DEF m, n
          <6>2. /\ Len(done[m]) = Len(done[m - 1]) + Len(seqs[m])
                /\ \A j \in 1 .. Len(done[m - 1]) : done[m][j] = done[m - 1][j]
            BY <1>4, <6>1
          <6>3. /\ Len(done[m]) = Len(done[k]) + Len(seqs[m])
                /\ \A j \in 1 .. Len(done[k]) : done[m][j] = done[k][j]
            BY <6>1, <6>2, Zenon
          <6> QED
            BY <6>3 DEF m
        <5>2. Len(done[k]) <= Len(done[k + 1])
          <6> DEFINE x == Len(done[k])
                     y == Len(done[k + 1])
                     z == Len(seqs[k + 1])
          <6>1. x \in Nat /\ y \in Nat /\ z \in Nat /\ y = x + z
            BY <3>2, <5>1, Zenon
          <6> HIDE DEF x, y, z
          <6>2. x <= y
            BY <6>1
          <6> QED
            BY <6>2 DEF x, y
        <5> QED
          BY <5>1, <5>2
      <4> QED
        BY <3>2, <4>1, <4>2, SMTT(30)
    <3> QED
      BY <3>3, <3>4
  <2> QED
    BY <2>1
<1> HIDE DEF T, Fits
<1>7. Nat \subseteq T
  BY <1>5, <1>6, Induct
<1>8. \A i \in 0 .. n : Fits(i, n)
  BY <1>3, <1>7 DEF T
<1> DEFINE at == [i \in 0 .. n |-> Len(done[i])]
<1>9. at \in [0 .. n -> Nat] /\ at[0] = 0 /\ at[n] = Len(FlattenSeq(seqs))
  <2>1. done[0] = <<>>
    BY <1>1, Zenon DEF Flattens, Run
  <2>2. Len(done[0]) = 0
    BY <2>1
  <2> QED
    BY <1>2, <1>3, <2>2
<1>10. ASSUME NEW i \in 1 .. n
       PROVE  /\ at[i] = at[i - 1] + Len(seqs[i])
              /\ at[i] <= Len(FlattenSeq(seqs))
              /\ \A j \in 1 .. Len(seqs[i]) : FlattenSeq(seqs)[at[i - 1] + j] = seqs[i][j]
  <2>1. i \in 0 .. n /\ i - 1 \in 0 .. n
    BY <1>3
  <2>2. at[i] = Len(done[i]) /\ at[i - 1] = Len(done[i - 1]) /\ at[i - 1] \in Nat /\ Len(seqs[i]) \in Nat
    BY <1>2, <2>1
  <2>3. at[i] = at[i - 1] + Len(seqs[i]) /\ at[i] <= Len(FlattenSeq(seqs))
    BY <1>3, <1>4, <1>8, <2>1, <2>2 DEF Fits
  <2>4. ASSUME NEW j \in 1 .. Len(seqs[i]) PROVE FlattenSeq(seqs)[at[i - 1] + j] = seqs[i][j]
    <3>1. at[i - 1] + j \in 1 .. Len(done[i])
      BY <2>2, <2>3
    <3>2. done[n][at[i - 1] + j] = done[i][at[i - 1] + j]
      BY <1>8, <2>1, <3>1 DEF Fits
    <3> QED
      BY <1>3, <1>4, <2>2, <3>2
  <2> QED
    BY <2>3, <2>4
<1> HIDE DEF at
<1>11. FlattenSeq(seqs) \in Seq(S)
  BY <1>2, <1>3
<1> QED
  BY <1>9, <1>10, <1>11, ZenonT(40) DEF Places

-----------------------------------------------------------------------------
(***************************************************************************)
(* A function that is defined by recursion over the values is what its     *)
(* definition says: there is one for Alloc and Normal together.            *)
(***************************************************************************)
Chained(v, chains) ==
  IF v.type \in Containers THEN <<v.type>> \o Elements(chains) \o <<"end">> ELSE <<Node(v)>>

Renamed(v, of) == [type |-> IF v.type = "null" THEN "undefined" ELSE v.type, of |-> of]

Made(v, s) ==
  [chain  |-> Chained(v, [i \in DOMAIN v.of |-> s[i].chain]),
   normal |-> Renamed(v, [i \in DOMAIN v.of |-> s[i].normal])]

LEMMA TreeRecursion ==
  \E f : \A v \in Values : f[v] = Made(v, [i \in DOMAIN v.of |-> f[v.of[i]]])
<1> DEFINE Attempt(C, g) == /\ C \in SUBSET Values
                            /\ \A v \in C : \A i \in DOMAIN v.of : v.of[i] \in C
                            /\ \A v \in C : g[v] = Made(v, [i \in DOMAIN v.of |-> g[v.of[i]]])
<1>1. ASSUME NEW C, NEW g, NEW D, NEW h, Attempt(C, g), Attempt(D, h), NEW w \in C, w \in D
      PROVE  g[w] = h[w]
  <2> DEFINE S == {v \in C : v \in D /\ g[v] # h[v]}
  <2> SUFFICES ASSUME S # {} PROVE FALSE
    BY <1>1
  <2>1. S \in SUBSET Values
    BY <1>1
  <2>2. PICK v \in S : \A i \in DOMAIN v.of : v.of[i] \notin S
    BY <2>1, FiniteAssumption
  <2>3. \A i \in DOMAIN v.of : g[v.of[i]] = h[v.of[i]]
    BY <1>1, <2>2
  <2>4. [i \in DOMAIN v.of |-> g[v.of[i]]] = [i \in DOMAIN v.of |-> h[v.of[i]]]
    BY <2>3
  <2>5. g[v] = Made(v, [i \in DOMAIN v.of |-> g[v.of[i]]]) /\ h[v] = Made(v, [i \in DOMAIN v.of |-> h[v.of[i]]])
    BY <1>1, <2>2
  <2>6. g[v] = h[v]
    BY <2>4, <2>5
  <2> QED
    BY <2>2, <2>6
<1> DEFINE W == {w \in Values : \E C, g : Attempt(C, g) /\ w \in C}
           Of(w) == CHOOSE p : Attempt(p[1], p[2]) /\ w \in p[1]
           f == [w \in W |-> Of(w)[2][w]]
<1>2. ASSUME NEW w \in W PROVE Attempt(Of(w)[1], Of(w)[2]) /\ w \in Of(w)[1]
  <2>1. PICK C, g : Attempt(C, g) /\ w \in C
    OBVIOUS
  <2> HIDE DEF Attempt
  <2>2. Attempt(<<C, g>>[1], <<C, g>>[2]) /\ w \in <<C, g>>[1]
    BY <2>1
  <2>3. \E p : Attempt(p[1], p[2]) /\ w \in p[1]
    BY <2>2
  <2> QED
    BY <2>3
<1>3. ASSUME NEW C, NEW g, Attempt(C, g), NEW w \in C PROVE w \in W /\ f[w] = g[w]
  <2>1. w \in W
    BY <1>3
  <2>2. f[w] = Of(w)[2][w]
    BY <2>1
  <2> HIDE DEF Attempt, Of
  <2> QED
    BY <1>1, <1>2, <1>3, <2>1, <2>2
<1>4. Attempt(W, f)
  <2>1. ASSUME NEW w \in W
        PROVE  /\ \A i \in DOMAIN w.of : w.of[i] \in W
               /\ f[w] = Made(w, [i \in DOMAIN w.of |-> f[w.of[i]]])
    <3>1. PICK C, g : Attempt(C, g) /\ w \in C
      BY <2>1
    <3>2. \A i \in DOMAIN w.of : w.of[i] \in C
      BY <3>1
    <3> HIDE DEF Attempt, f, W
    <3>3. f[w] = g[w] /\ \A i \in DOMAIN w.of : w.of[i] \in W /\ f[w.of[i]] = g[w.of[i]]
      BY <1>3, <3>1, <3>2
    <3>4. [i \in DOMAIN w.of |-> f[w.of[i]]] = [i \in DOMAIN w.of |-> g[w.of[i]]]
      BY <3>3
    <3> QED
      BY <3>1, <3>3, <3>4 DEF Attempt
  <2> HIDE DEF f
  <2> QED
    BY <2>1
<1>5. W = Values
  <2> SUFFICES ASSUME Values \ W # {} PROVE FALSE
    OBVIOUS
  <2>1. PICK v \in Values \ W : \A i \in DOMAIN v.of : v.of[i] \notin Values \ W
    BY FiniteAssumption
  <2>2. \A i \in DOMAIN v.of : v.of[i] \in W
    <3>1. v.of \in Seq(Values)
      BY ValuesAssumption
    <3> HIDE DEF W
    <3> QED
      BY <2>1, <3>1
  <2> DEFINE more == [w \in W \union {v} |-> IF w = v THEN Made(v, [i \in DOMAIN v.of |-> f[v.of[i]]]) ELSE f[w]]
  <2> HIDE DEF f, W
  <2>3. \A w \in W : w # v /\ more[w] = f[w]
    BY <2>1
  <2>4. ASSUME NEW w \in W \union {v}
        PROVE  /\ \A i \in DOMAIN w.of : w.of[i] \in W
               /\ more[w] = Made(w, [i \in DOMAIN w.of |-> more[w.of[i]]])
    <3>1. \A i \in DOMAIN w.of : w.of[i] \in W
      BY <1>4, <2>2
    <3>2. [i \in DOMAIN w.of |-> more[w.of[i]]] = [i \in DOMAIN w.of |-> f[w.of[i]]]
      BY <2>3, <3>1
    <3>3. more[w] = Made(w, [i \in DOMAIN w.of |-> f[w.of[i]]])
      <4>1. CASE w = v
        BY <4>1
      <4>2. CASE w # v
        BY <1>4, <2>3, <4>2
      <4> QED
        BY <4>1, <4>2
    <3> QED
      BY <3>1, <3>2, <3>3
  <2>5. Attempt(W \union {v}, more)
    <3>1. W \union {v} \in SUBSET Values
      BY <1>4
    <3> HIDE DEF more
    <3> QED
      BY <2>4, <3>1
  <2> HIDE DEF Attempt, more
  <2>6. v \in W
    BY <2>5 DEF W
  <2> QED
    BY <2>1, <2>6
<1> HIDE DEF f, W
<1> QED
  BY <1>4, <1>5

LEMMA ElementsOf ==
  ASSUME NEW v \in Values
  PROVE  /\ v.of \in Seq(Values) /\ Len(v.of) \in Nat /\ DOMAIN v.of = 1 .. Len(v.of)
         /\ \A i \in DOMAIN v.of : v.of[i] \in Values
<1>1. v.of \in Seq(Values)
  BY ValuesAssumption
<1> DEFINE of == v.of
<1> HIDE DEF of
<1>2. of \in Seq(Values)
  BY <1>1 DEF of
<1>3. Len(of) \in Nat /\ DOMAIN of = 1 .. Len(of) /\ \A i \in DOMAIN of : of[i] \in Values
  BY <1>2
<1> QED
  BY <1>1, <1>3 DEF of

LEMMA AllocIs ==
  \A v \in Values : Alloc[v] = Chained(v, [i \in DOMAIN v.of |-> Alloc[v.of[i]]])
<1> DEFINE Same(g) == g = [v \in Values |-> Chained(v, [i \in DOMAIN v.of |-> g[v.of[i]]])]
<1>1. PICK f : \A v \in Values : f[v] = Made(v, [i \in DOMAIN v.of |-> f[v.of[i]]])
  BY TreeRecursion
<1> DEFINE g == [v \in Values |-> f[v].chain]
<1>2. ASSUME NEW v \in Values PROVE g[v] = Chained(v, [i \in DOMAIN v.of |-> g[v.of[i]]])
  <2> DEFINE s == [i \in DOMAIN v.of |-> f[v.of[i]]]
  <2>1. \A i \in DOMAIN v.of : v.of[i] \in Values
    BY ElementsOf
  <2>2. [i \in DOMAIN v.of |-> s[i].chain] = [i \in DOMAIN v.of |-> g[v.of[i]]]
    BY <2>1
  <2>3. f[v] = Made(v, s)
    BY <1>1
  <2> HIDE DEF s
  <2>4. f[v].chain = Chained(v, [i \in DOMAIN v.of |-> s[i].chain])
    BY <2>3 DEF Made
  <2> QED
    BY <2>2, <2>4
<1>3. Same(g)
  BY <1>2
<1>4. Alloc = CHOOSE h : Same(h)
  BY Zenon DEF Alloc, Chained
<1> HIDE DEF g
<1>5. Same(Alloc)
  BY <1>3, <1>4, Zenon
<1> QED
  BY <1>5

LEMMA NormalIs ==
  \A v \in Values : Normal[v] = Renamed(v, [i \in DOMAIN v.of |-> Normal[v.of[i]]])
<1> DEFINE Same(g) == g = [v \in Values |-> Renamed(v, [i \in DOMAIN v.of |-> g[v.of[i]]])]
<1>1. PICK f : \A v \in Values : f[v] = Made(v, [i \in DOMAIN v.of |-> f[v.of[i]]])
  BY TreeRecursion
<1> DEFINE g == [v \in Values |-> f[v].normal]
<1>2. ASSUME NEW v \in Values PROVE g[v] = Renamed(v, [i \in DOMAIN v.of |-> g[v.of[i]]])
  <2> DEFINE s == [i \in DOMAIN v.of |-> f[v.of[i]]]
  <2>1. \A i \in DOMAIN v.of : v.of[i] \in Values
    BY ElementsOf
  <2>2. [i \in DOMAIN v.of |-> s[i].normal] = [i \in DOMAIN v.of |-> g[v.of[i]]]
    BY <2>1
  <2>3. f[v] = Made(v, s)
    BY <1>1
  <2> HIDE DEF s
  <2>4. f[v].normal = Renamed(v, [i \in DOMAIN v.of |-> s[i].normal])
    BY <2>3 DEF Made
  <2> QED
    BY <2>2, <2>4
<1>3. Same(g)
  BY <1>2
<1>4. Normal = CHOOSE h : Same(h)
  BY Zenon DEF Normal, Renamed
<1> HIDE DEF g
<1>5. Same(Normal)
  BY <1>3, <1>4, Zenon
<1> QED
  BY <1>5

-----------------------------------------------------------------------------
(***************************************************************************)
(* The chain of a value: it is not empty, and for a value that the         *)
(* receiver reads whole, the end is behind all of its elements' nodes.     *)
(***************************************************************************)
Nodes == Types \union {"nil", "end"}
Chains == Seq(Nodes) \ {<<>>}

LEMMA ElementsType == ASSUME NEW chains \in Seq(Chains) PROVE Elements(chains) \in Seq(Nodes)
<1>1. CASE chains = <<>>
  BY <1>1 DEF Elements
<1>2. CASE chains # <<>>
  <2>1. chains \in Seq(Seq(Nodes))
    BY DEF Chains
  <2>2. Add(Front(chains)) \in Seq(Nodes)
    BY <1>2, <2>1, FlattenLast DEF Add
  <2>3. Last(chains) \in Chains
    BY <1>2 DEF Last
  <2>4. Head(Last(chains)) \in Nodes
    BY <2>3 DEF Chains
  <2> QED
    BY <1>2, <2>2, <2>4 DEF Elements
<1> QED
  BY <1>1, <1>2

LEMMA ChainedType ==
  ASSUME NEW v \in Values, NEW chains \in Seq(Chains)
  PROVE  Chained(v, chains) \in Chains
<1>1. v.type \in Nodes /\ Node(v) \in Nodes /\ "end" \in Nodes
  BY ValuesAssumption DEF Nodes, Node
<1>2. <<Node(v)>> \in Chains
  BY <1>1 DEF Chains
<1> DEFINE e == Elements(chains)
           t == v.type
           n == "end"
<1>3. e \in Seq(Nodes) /\ t \in Nodes /\ n \in Nodes
  BY <1>1, ElementsType
<1> HIDE DEF e, t, n
<1>4. <<t>> \o e \o <<n>> \in Seq(Nodes) /\ Len(<<t>> \o e \o <<n>>) = Len(e) + 2 /\ Len(e) \in Nat
  BY <1>3
<1>5. <<t>> \o e \o <<n>> \in Chains
  BY <1>4 DEF Chains
<1> QED
  BY <1>2, <1>5 DEF Chained, e, t, n

LEMMA AllocType == \A v \in Values : Alloc[v] \in Chains
<1> DEFINE S == {v \in Values : Alloc[v] \notin Chains}
<1> SUFFICES ASSUME S # {} PROVE FALSE
  OBVIOUS
<1>1. S \in SUBSET Values
  OBVIOUS
<1>2. PICK v \in S : \A i \in DOMAIN v.of : v.of[i] \notin S
  BY <1>1, FiniteAssumption
<1>3. v \in Values /\ v.of \in Seq(Values)
  BY <1>2, ValuesAssumption
<1>4. [i \in DOMAIN v.of |-> Alloc[v.of[i]]] \in Seq(Chains)
  <2>1. \A i \in DOMAIN v.of : Alloc[v.of[i]] \in Chains
    BY <1>2, <1>3
  <2> HIDE DEF S
  <2>2. DOMAIN v.of = 1 .. Len(v.of) /\ Len(v.of) \in Nat
    BY <1>3
  <2> QED
    BY <2>1, <2>2
<1>5. Alloc[v] \in Chains
  BY <1>3, <1>4, AllocIs, ChainedType
<1> QED
  BY <1>2, <1>5

LEMMA AllocOf ==
  ASSUME NEW values \in Seq(Values)
  PROVE  /\ [i \in DOMAIN values |-> Alloc[values[i]]] \in Seq(Chains)
         /\ [i \in DOMAIN values |-> Alloc[values[i]]] \in Seq(Seq(Nodes))
         /\ Len([i \in DOMAIN values |-> Alloc[values[i]]]) = Len(values)
<1>1. DOMAIN values = 1 .. Len(values) /\ Len(values) \in Nat /\ \A i \in DOMAIN values : values[i] \in Values
  OBVIOUS
<1>2. \A i \in DOMAIN values : Alloc[values[i]] \in Chains /\ Alloc[values[i]] \in Seq(Nodes)
  BY <1>1, AllocType DEF Chains
<1> QED
  BY <1>1, <1>2

(***************************************************************************)
(* The last element of a value in Unnested has a chain of one node.        *)
(***************************************************************************)
LEMMA WholeElements ==
  ASSUME NEW of \in Seq(Values), of = <<>> \/ Last(of).type \notin Containers
  PROVE  Elements([i \in DOMAIN of |-> Alloc[of[i]]]) = FlattenSeq([i \in DOMAIN of |-> Alloc[of[i]]])
<1> DEFINE chains == [i \in DOMAIN of |-> Alloc[of[i]]]
<1>1. CASE of = <<>>
  <2>1. chains = <<>>
    BY <1>1
  <2> HIDE DEF chains
  <2> QED
    BY <2>1 DEF Elements, FlattenSeq, chains
<1>2. CASE of # <<>>
  <2>1. Len(of) \in Nat \ {0} /\ Len(of) \in DOMAIN of /\ of[Len(of)] \in Values /\ Last(of) = of[Len(of)]
    BY <1>2 DEF Last
  <2>2. chains \in Seq(Seq(Nodes)) /\ Len(chains) = Len(of)
    BY AllocOf
  <2>3. Last(chains) = <<Node(Last(of))>>
    BY <1>2, <2>1, <2>2, AllocIs DEF Chained, Last
  <2> HIDE DEF chains
  <2>4. chains # <<>>
    BY <2>1, <2>2
  <2>5. FlattenSeq(chains) = FlattenSeq(Front(chains)) \o Last(chains) /\ FlattenSeq(Front(chains)) \in Seq(Nodes)
    BY <2>2, <2>4, FlattenLast
  <2>6. Elements(chains) = Append(FlattenSeq(Front(chains)), Node(Last(of)))
    BY <2>3, <2>4 DEF Elements, Add
  <2>7. Node(Last(of)) \in Nodes
    BY <2>1, ValuesAssumption DEF Node, Nodes
  <2> DEFINE a == FlattenSeq(Front(chains))
             e == Node(Last(of))
  <2>8. a \in Seq(Nodes) /\ e \in Nodes
    BY <2>5, <2>7
  <2> HIDE DEF a, e
  <2>9. Append(a, e) = a \o <<e>>
    BY <2>8, AppendIsConcat
  <2> QED
    BY <2>3, <2>5, <2>6, <2>9 DEF a, e, chains
<1> QED
  BY <1>1, <1>2

-----------------------------------------------------------------------------
(***************************************************************************)
(* The stack of BinaryPushContext: a container t with elements s on top of *)
(* others, which no node touches until its end.                            *)
(***************************************************************************)
On(low, t, s) == Append(low, [type |-> t, of |-> s])

LEMMA PutOn ==
  ASSUME NEW S, NEW low \in Seq(S), NEW t, NEW s, NEW w
  PROVE  Put(On(low, t, s), w) = On(low, t, Append(s, w))
<1> DEFINE c == [type |-> t, of |-> s]
           d == [type |-> t, of |-> Append(s, w)]
           stack == Append(low, c)
           n == Len(low) + 1
<1>1. /\ Len(low) \in Nat /\ Len(stack) = n /\ DOMAIN stack = 1 .. n /\ stack[n] = c
      /\ \A i \in 1 .. Len(low) : stack[i] = low[i]
  OBVIOUS
<1>2. /\ Len(Append(low, d)) = n /\ DOMAIN Append(low, d) = 1 .. n /\ Append(low, d)[n] = d
      /\ \A i \in 1 .. Len(low) : Append(low, d)[i] = low[i]
      /\ Append(low, d) = [i \in 1 .. n |-> Append(low, d)[i]]
  OBVIOUS
<1>3. [c EXCEPT !.of = Append(@, w)] = d
  <2> DEFINE of == Append(s, w)
  <2>1. Append(c.of, w) = of
    OBVIOUS
  <2> HIDE DEF of
  <2>2. [c EXCEPT !.of = of] = [type |-> t, of |-> of]
    OBVIOUS
  <2> QED
    BY <2>1, <2>2 DEF of
<1> HIDE DEF c, d, stack
<1>4. Put(stack, w) = [stack EXCEPT ![n] = d]
  <2>1. Put(stack, w) = [stack EXCEPT ![n] = [stack[n] EXCEPT !.of = Append(@, w)]]
    BY <1>1 DEF Put
  <2> QED
    BY <1>1, <1>3, <2>1
<1>5. [stack EXCEPT ![n] = d] = [i \in 1 .. n |-> Append(low, d)[i]]
  <2>1. \A i \in 1 .. n : [stack EXCEPT ![n] = d][i] = Append(low, d)[i]
    BY <1>1, <1>2
  <2>2. [stack EXCEPT ![n] = d] = [i \in 1 .. n |-> [stack EXCEPT ![n] = d][i]]
    BY <1>1
  <2> QED
    BY <2>1, <2>2
<1> QED
  BY <1>2, <1>4, <1>5 DEF On, c, d, stack

LEMMA OnType ==
  ASSUME NEW S, NEW low \in Seq(S), NEW t, NEW s
  PROVE  /\ \E U : On(low, t, s) \in Seq(U)
         /\ Front(On(low, t, s)) = low
         /\ Last(On(low, t, s)) = [type |-> t, of |-> s]
<1> DEFINE c == [type |-> t, of |-> s]
           stack == Append(low, c)
           U == S \union {c}
<1> HIDE DEF c
<1>1. /\ stack \in Seq(U) /\ Len(low) \in Nat /\ Len(stack) = Len(low) + 1 /\ stack[Len(low) + 1] = c
      /\ \A i \in 1 .. Len(low) : stack[i] = low[i]
  OBVIOUS
<1> HIDE DEF stack, U
<1>2. Last(stack) = c
  BY <1>1 DEF Last
<1>3. Front(stack) = low
  <2> DEFINE m == Len(low)
  <2>1. m \in Int /\ 1 \in Int /\ Len(stack) - 1 = m /\ \A i \in 1 .. m : stack[i] \in S
    BY <1>1
  <2>2. /\ SubSeq(stack, 1, m) \in Seq(S)
        /\ Len(SubSeq(stack, 1, m)) = IF 1 <= m THEN m - 1 + 1 ELSE 0
        /\ \A i \in 1 .. m - 1 + 1 : SubSeq(stack, 1, m)[i] = stack[1 + i - 1]
    BY <2>1, SubSeqProperties
  <2>3. (IF 1 <= m THEN m - 1 + 1 ELSE 0) = m /\ m - 1 + 1 = m
    <3>1. m \in Nat
      BY <1>1
    <3> HIDE DEF m
    <3>2. CASE m = 0
      BY <3>2
    <3>3. CASE m # 0
      BY <3>1, <3>3
    <3> QED
      BY <3>2, <3>3
  <2>4. \A i \in 1 .. m : 1 + i - 1 = i
    BY <1>1
  <2>5. /\ SubSeq(stack, 1, m) \in Seq(S)
        /\ Len(SubSeq(stack, 1, m)) = m
        /\ \A i \in 1 .. m : SubSeq(stack, 1, m)[i] = low[i]
    BY <1>1, <2>2, <2>3, <2>4
  <2>6. SubSeq(stack, 1, m) = low
    <3> DEFINE q == SubSeq(stack, 1, m)
    <3> HIDE DEF q
    <3>1. q \in Seq(S) /\ Len(q) = Len(low) /\ \A i \in 1 .. Len(low) : q[i] = low[i]
      BY <2>5 DEF q
    <3>2. q = low
      BY <3>1, SeqEqual
    <3> QED
      BY <3>2 DEF q
  <2>7. Front(stack) = SubSeq(stack, 1, m)
    BY <2>1 DEF Front
  <2> QED
    BY <2>6, <2>7
<1> QED
  BY <1>1, <1>2, <1>3 DEF On, c, stack

(***************************************************************************)
(* What each kind of node does to it.                                      *)
(***************************************************************************)
LEMMA PushPlain ==
  ASSUME NEW S, NEW low \in Seq(S), NEW t, NEW s, NEW v \in Values, v.type \notin Containers
  PROVE  Push(On(low, t, s), Node(v)) = On(low, t, Append(s, Normal[v]))
<1>1. v.of = <<>> /\ v.type \in Types
  BY ValuesAssumption
<1>2. Node(v) \notin Containers /\ Node(v) # "end"
  BY <1>1 DEF Node, Types, Containers
<1>3. Normal[v] = Plain(IF Node(v) = "nil" THEN "undefined" ELSE Node(v))
  <2>1. [i \in DOMAIN v.of |-> Normal[v.of[i]]] = <<>>
    BY <1>1
  <2>2. Normal[v] = [type |-> IF v.type = "null" THEN "undefined" ELSE v.type, of |-> <<>>]
    BY <2>1, NormalIs DEF Renamed
  <2>3. (IF v.type = "null" THEN "undefined" ELSE v.type) = IF Node(v) = "nil" THEN "undefined" ELSE Node(v)
    BY <1>1 DEF Node, Types, Containers
  <2> QED
    BY <2>2, <2>3 DEF Plain
<1>4. Push(On(low, t, s), Node(v)) = Put(On(low, t, s), Normal[v])
  <2>1. (IF Node(v) \in {"nil", "end"} THEN "undefined" ELSE Node(v)) = IF Node(v) = "nil" THEN "undefined" ELSE Node(v)
    BY <1>2
  <2> QED
    BY <1>2, <1>3, <2>1 DEF Push
<1> QED
  BY <1>4, PutOn

LEMMA PushContainer ==
  ASSUME NEW S, NEW low \in Seq(S), NEW t, NEW s, NEW v \in Values, v.type \in Containers
  PROVE  Push(On(low, t, s), v.type) = On(On(low, t, s), v.type, <<>>)
  BY DEF Push, On, Plain

LEMMA PushEnd ==
  ASSUME NEW S, NEW low \in Seq(S), NEW t, NEW s, NEW v \in Values, v.type \in Containers, NEW of,
         Len(of) = Len(v.of)
  PROVE  Push(On(On(low, t, s), v.type, of), "end") = On(low, t, Append(s, [type |-> v.type, of |-> of]))
<1> DEFINE c == [type |-> v.type, of |-> of]
           stack == On(low, t, s)
<1>1. AtEnd(c)
  <2>1. v.type = "object" => Len(of) % 2 = 0
    BY ValuesAssumption
  <2>2. c.type = v.type /\ c.of = of
    OBVIOUS
  <2> HIDE DEF c
  <2> QED
    BY <2>1, <2>2 DEF AtEnd, Containers
<1>2. PICK U : stack \in Seq(U)
  BY OnType
<1> HIDE DEF stack
<1>3. Last(On(stack, v.type, of)) = c /\ Front(On(stack, v.type, of)) = stack
  BY <1>2, OnType
<1>4. "end" \notin Containers
  BY DEF Containers
<1> HIDE DEF c
<1>5. Push(On(stack, v.type, of), "end") = Put(stack, c)
  BY <1>1, <1>3, <1>4 DEF Push
<1> QED
  BY <1>5, PutOn DEF stack, c

-----------------------------------------------------------------------------
(***************************************************************************)
(* Reading: while the receiver goes over the chain of a value, whatever is *)
(* on its stack, it puts that value, without null, into the container on   *)
(* top.                                                                    *)
(***************************************************************************)
Reading(chain, after) ==
  /\ Len(chain) \in Nat
  /\ \A n \in 1 .. Len(chain) : after[n] = Push(after[n - 1], chain[n])

At(chain, p, part) ==
  /\ p \in Nat /\ Len(part) \in Nat /\ p + Len(part) <= Len(chain)
  /\ \A j \in 1 .. Len(part) : chain[p + j] = part[j]

Puts(after, p, q, w) ==
  \A S, t, s : \A low \in Seq(S) : after[p] = On(low, t, s) => after[q] = On(low, t, Append(s, w))

Readable(v) ==
  \A chain, after, p :
    Reading(chain, after) /\ At(chain, p, Alloc[v]) => Puts(after, p, p + Len(Alloc[v]), Normal[v])

(***************************************************************************)
(* One value after the other.                                              *)
(***************************************************************************)
Normals(values) == [i \in DOMAIN values |-> Normal[values[i]]]

LEMMA ReadAll ==
  ASSUME NEW values \in Seq(Values), \A i \in DOMAIN values : Readable(values[i]),
         NEW chain, NEW after, NEW p, NEW S, NEW low \in Seq(S), NEW t,
         Reading(chain, after),
         At(chain, p, Chain(values)), after[p] = On(low, t, <<>>)
  PROVE  after[p + Len(Chain(values))] = On(low, t, Normals(values))
<1> DEFINE chains == [i \in DOMAIN values |-> Alloc[values[i]]]
           n == Len(chains)
           whole == FlattenSeq(chains)
           First(k) == [i \in 1 .. k |-> Normal[values[i]]]
<1>0. whole = Chain(values)
  BY Zenon DEF Chain, Add
<1>1. n \in Nat /\ DOMAIN values = 1 .. n /\ chains \in Seq(Seq(Nodes))
  BY AllocOf
<1>2. \A i \in 1 .. n : chains[i] = Alloc[values[i]] /\ values[i] \in Values /\ Readable(values[i])
  <2>1. \A i \in DOMAIN values : chains[i] = Alloc[values[i]]
    OBVIOUS
  <2> HIDE DEF chains, n
  <2>2. \A i \in DOMAIN values : values[i] \in Values
    OBVIOUS
  <2> QED
    BY <1>1, <2>1, <2>2, Zenon
<1> HIDE DEF whole
<1>3. p \in Nat /\ Len(whole) \in Nat /\ p + Len(whole) <= Len(chain) /\ \A j \in 1 .. Len(whole) : chain[p + j] = whole[j]
  BY <1>0 DEF At
<1> HIDE DEF chains
<1>4. PICK at : Places(at, chains, whole)
  BY <1>1, Pieces DEF whole
<1>n. at[0] = 0 /\ at[n] = Len(whole) /\ \A k \in 0 .. n : at[k] \in Nat
  BY <1>4 DEF Places
<1> HIDE DEF n
<1> DEFINE T == {k \in Nat : k <= n => after[p + at[k]] = On(low, t, First(k))}
<1>5. 0 \in T
  <2>1. First(0) = <<>>
    OBVIOUS
  <2>2. p + at[0] = p
    BY <1>3, <1>n
  <2> HIDE DEF First
  <2>3. after[p + at[0]] = On(low, t, First(0))
    BY <2>1, <2>2, Zenon
  <2> QED
    BY <2>3
<1>6. ASSUME NEW k \in Nat, k \in T PROVE k + 1 \in T
  <2>1. CASE k + 1 <= n
    <3> DEFINE m == k + 1
               v == values[m]
    <3>1. k <= n /\ m \in 1 .. n /\ m - 1 = k /\ k \in 0 .. n /\ m \in 0 .. n
      BY <1>1, <2>1
    <3>2. after[p + at[k]] = On(low, t, First(k))
      BY <1>6, <3>1
    <3>3. Append(First(k), Normal[v]) = First(m)
      OBVIOUS
    <3> HIDE DEF m, First
    <3>4. v \in Values /\ chains[m] = Alloc[v] /\ Readable(v) /\ Alloc[v] \in Seq(Nodes)
      <4>1. chains[m] = Alloc[v] /\ v \in Values /\ Readable(v)
        BY <1>2, <3>1
      <4> HIDE DEF v
      <4> QED
        BY <4>1, AllocType DEF Chains
    <3> HIDE DEF v
    <3>5. /\ at[m] = at[m - 1] + Len(chains[m]) /\ at[m] <= Len(whole)
          /\ \A j \in 1 .. Len(chains[m]) : whole[at[m - 1] + j] = chains[m][j]
      BY <1>4, <3>1 DEF Places, n
    <3>6. /\ at[m] = at[k] + Len(Alloc[v]) /\ at[m] <= Len(whole)
          /\ \A j \in 1 .. Len(Alloc[v]) : whole[at[k] + j] = Alloc[v][j]
      BY <3>1, <3>4, <3>5, Zenon
    <3>7. at[k] \in Nat /\ at[m] \in Nat /\ Len(Alloc[v]) \in Nat
      BY <1>n, <3>1, <3>4
    <3>8. At(chain, p + at[k], Alloc[v])
      <4> DEFINE a == at[k]
                 b == at[m]
                 l == Len(Alloc[v])
                 w == Len(whole)
                 c == Len(chain)
      <4>1. a \in Nat /\ b \in Nat /\ l \in Nat /\ b = a + l /\ b <= w /\ p \in Nat /\ p + w <= c /\ w \in Nat /\ c \in Nat
        BY <1>3, <3>6, <3>7 DEF Reading
      <4>2. \A j \in 1 .. l : whole[a + j] = Alloc[v][j]
        BY <3>6
      <4>3. \A j \in 1 .. w : chain[p + j] = whole[j]
        BY <1>3
      <4> HIDE DEF a, b, l, w, c
      <4>4. p + a \in Nat /\ (p + a) + l <= c
        BY <4>1
      <4>5. ASSUME NEW j \in 1 .. l PROVE chain[(p + a) + j] = Alloc[v][j]
        <5>1. a + j \in 1 .. w /\ p + (a + j) = (p + a) + j
          BY <4>1
        <5>2. chain[p + (a + j)] = whole[a + j]
          BY <4>3, <5>1
        <5> QED
          BY <4>2, <5>1, <5>2, Zenon
      <4> QED
        BY <4>1, <4>4, <4>5 DEF At, a, l, c
    <3>9. after[(p + at[k]) + Len(Alloc[v])] = On(low, t, Append(First(k), Normal[v]))
      <4>1. Puts(after, p + at[k], (p + at[k]) + Len(Alloc[v]), Normal[v])
        BY <3>4, <3>8, Zenon DEF Readable
      <4> QED
        BY <3>2, <4>1, Zenon DEF Puts
    <3>10. (p + at[k]) + Len(Alloc[v]) = p + at[m]
      BY <1>3, <3>6, <3>7, SMTT(30)
    <3>11. after[p + at[m]] = On(low, t, First(m))
      BY <3>3, <3>9, <3>10, Zenon DEF v
    <3> QED
      BY <3>11 DEF m
  <2>2. CASE ~(k + 1 <= n)
    BY <2>2
  <2> QED
    BY <2>1, <2>2
<1> HIDE DEF T
<1>7. Nat \subseteq T
  BY <1>5, <1>6, Induct
<1>8. after[p + at[n]] = On(low, t, First(n))
  <2>1. n \in T /\ n <= n
    BY <1>1, <1>7
  <2> QED
    BY <2>1, Zenon DEF T
<1>9. First(n) = Normals(values)
  BY <1>1 DEF Normals
<1> QED
  BY <1>0, <1>n, <1>8, <1>9, Zenon

(***************************************************************************)
(* Every value in Unnested is readable.                                    *)
(***************************************************************************)
LEMMA UnnestedElements ==
  ASSUME NEW v \in Unnested
  PROVE  /\ v \in Values
         /\ \A i \in DOMAIN v.of : v.of[i] \in Unnested
         /\ v.of = <<>> \/ Last(v.of).type \notin Containers
<1>1. PICK S \in SUBSET Values : Flat(S) /\ v \in S
  BY DEF Unnested
<1>2. Range(v.of) \subseteq S /\ (v.of = <<>> \/ Last(v.of).type \notin Containers)
  BY <1>1 DEF Flat
<1>3. \A i \in DOMAIN v.of : v.of[i] \in S
  BY <1>2 DEF Range
<1>4. S \subseteq Unnested
  BY <1>1 DEF Unnested
<1> QED
  BY <1>1, <1>2, <1>3, <1>4

LEMMA AllReadable == \A v \in Unnested : Readable(v)
<1> DEFINE B == {v \in Unnested : ~Readable(v)}
<1> SUFFICES ASSUME B # {} PROVE FALSE
  OBVIOUS
<1>1. B \in SUBSET Values
  BY UnnestedElements
<1>2. PICK v \in B : \A i \in DOMAIN v.of : v.of[i] \notin B
  BY <1>1, FiniteAssumption
<1>3. v \in Values /\ v \in Unnested /\ ~Readable(v)
  BY <1>1, <1>2
<1>4. \A i \in DOMAIN v.of : Readable(v.of[i])
  BY <1>2, <1>3, UnnestedElements
<1> HIDE DEF B
<1>p. PICK chain, after, p : /\ Reading(chain, after) /\ At(chain, p, Alloc[v])
                             /\ ~Puts(after, p, p + Len(Alloc[v]), Normal[v])
  BY <1>3, Zenon DEF Readable
<1>q. PICK S, t, s : \E low \in Seq(S) : /\ after[p] = On(low, t, s)
                                         /\ after[p + Len(Alloc[v])] # On(low, t, Append(s, Normal[v]))
  BY <1>p, Zenon DEF Puts
<1>r. PICK low \in Seq(S) : /\ after[p] = On(low, t, s)
                            /\ after[p + Len(Alloc[v])] # On(low, t, Append(s, Normal[v]))
  BY <1>q
<1>5. Reading(chain, after) /\ At(chain, p, Alloc[v]) /\ low \in Seq(S) /\ after[p] = On(low, t, s)
  BY <1>p, <1>r
<1> SUFFICES after[p + Len(Alloc[v])] = On(low, t, Append(s, Normal[v]))
  BY <1>r
<1>6. CASE v.type \notin Containers
  <2>1. Alloc[v] = <<Node(v)>>
    BY <1>3, <1>6, AllocIs DEF Chained
  <2>2. Len(Alloc[v]) = 1 /\ Alloc[v][1] = Node(v)
    BY <2>1
  <2>3. p \in Nat /\ p + 1 <= Len(chain) /\ chain[p + 1] = Node(v) /\ Len(chain) \in Nat
    BY <1>5, <2>2 DEF At, Reading
  <2>4. after[p + 1] = Push(after[p], Node(v))
    <3>1. p + 1 \in 1 .. Len(chain) /\ (p + 1) - 1 = p
      BY <2>3
    <3> QED
      BY <1>5, <2>3, <3>1 DEF Reading
  <2>5. Push(On(low, t, s), Node(v)) = On(low, t, Append(s, Normal[v]))
    BY <1>3, <1>5, <1>6, PushPlain
  <2> QED
    BY <1>5, <2>2, <2>4, <2>5, Zenon
<1>7. CASE v.type \in Containers
  <2> DEFINE inner == Chain(v.of)
             l == Len(inner)
             of == Normals(v.of)
  <2>0. v.of \in Seq(Values) /\ Len(v.of) \in Nat /\ DOMAIN v.of = 1 .. Len(v.of)
    BY <1>3, ElementsOf
  <2>1. Alloc[v] = <<v.type>> \o inner \o <<"end">>
    BY <1>3, <1>7, <2>0, AllocIs, WholeElements, UnnestedElements, Zenon DEF Chained, Chain, Add
  <2>2. inner \in Seq(Nodes)
    BY <2>0, AllocOf, Pieces DEF Chain, Add
  <2> HIDE DEF inner
  <2>3. /\ Len(Alloc[v]) = l + 2 /\ l \in Nat
        /\ Alloc[v][1] = v.type /\ Alloc[v][l + 2] = "end"
        /\ \A j \in 1 .. l : Alloc[v][1 + j] = inner[j]
    <3> DEFINE a == v.type
               e == "end"
               all == <<a>> \o inner \o <<e>>
    <3>1. a \in Nodes /\ e \in Nodes
      BY <1>3, ValuesAssumption DEF Nodes
    <3> HIDE DEF a, e
    <3>2. /\ Len(all) = l + 2 /\ l \in Nat
          /\ all[1] = a /\ all[l + 2] = e
          /\ \A j \in 1 .. l : all[1 + j] = inner[j]
      BY <2>2, <3>1
    <3>3. Alloc[v] = all
      BY <2>1 DEF a, e
    <3> HIDE DEF all
    <3> QED
      BY <3>2, <3>3 DEF a, e
  <2> HIDE DEF l
  <2>4. /\ p \in Nat /\ Len(chain) \in Nat /\ p + (l + 2) <= Len(chain)
        /\ \A j \in 1 .. l + 2 : chain[p + j] = Alloc[v][j]
    BY <1>5, <2>3 DEF At, Reading
  <2>n. p \in Nat /\ l \in Nat /\ Len(chain) \in Nat /\ p + (l + 2) <= Len(chain)
    BY <2>3, <2>4
  <2>5. chain[p + 1] = v.type /\ chain[p + (l + 2)] = "end"
    BY <2>3, <2>4
  <2>6. At(chain, p + 1, inner)
    <3>1. (p + 1) + l <= Len(chain) /\ p + 1 \in Nat
      BY <2>n
    <3>2. ASSUME NEW j \in 1 .. l PROVE chain[(p + 1) + j] = inner[j]
      <4>1. 1 + j \in 1 .. l + 2 /\ p + (1 + j) = (p + 1) + j
        BY <2>n
      <4>2. chain[p + (1 + j)] = Alloc[v][1 + j] /\ Alloc[v][1 + j] = inner[j]
        BY <2>3, <2>4, <4>1
      <4> QED
        BY <4>1, <4>2, Zenon
    <3> QED
      BY <2>3, <3>1, <3>2 DEF At, l
  <2>7. after[p + 1] = On(On(low, t, s), v.type, <<>>)
    <3>1. p + 1 \in 1 .. Len(chain) /\ (p + 1) - 1 = p
      BY <2>n
    <3>2. after[p + 1] = Push(after[p], chain[p + 1])
      BY <1>5, <3>1 DEF Reading
    <3> QED
      BY <1>3, <1>5, <1>7, <2>5, <3>2, PushContainer
  <2>8. after[(p + 1) + l] = On(On(low, t, s), v.type, of)
    <3>1. PICK U : On(low, t, s) \in Seq(U)
      BY <1>5, OnType
    <3> DEFINE stack == On(low, t, s)
               values == v.of
               y == v.type
               q == p + 1
    <3>2. /\ values \in Seq(Values) /\ (\A i \in DOMAIN values : Readable(values[i]))
          /\ Reading(chain, after) /\ stack \in Seq(U) /\ after[q] = On(stack, y, <<>>)
          /\ At(chain, q, Chain(values))
      BY <1>4, <1>5, <2>0, <2>6, <2>7, <3>1 DEF inner
    <3> HIDE DEF stack, values, y, q
    <3>3. after[q + Len(Chain(values))] = On(stack, y, Normals(values))
      BY <3>2, ReadAll
    <3> QED
      BY <3>3 DEF inner, l, stack, values, y, q
  <2>9. after[p + (l + 2)] = On(low, t, Append(s, [type |-> v.type, of |-> of]))
    <3>1. p + (l + 2) \in 1 .. Len(chain) /\ (p + (l + 2)) - 1 = (p + 1) + l
      BY <2>n
    <3>2. after[p + (l + 2)] = Push(after[(p + 1) + l], "end")
      BY <1>5, <2>5, <3>1 DEF Reading
    <3>3. Len(of) = Len(v.of)
      BY <2>0 DEF Normals
    <3> HIDE DEF of
    <3> QED
      BY <1>3, <1>5, <1>7, <2>8, <3>2, <3>3, PushEnd
  <2>10. Normal[v] = [type |-> v.type, of |-> of]
    <3>1. v.type # "null"
      BY <1>7 DEF Containers
    <3> QED
      BY <1>3, <3>1, NormalIs DEF Renamed, Normals
  <2> QED
    BY <2>3, <2>9, <2>10, Zenon
<1> QED
  BY <1>6, <1>7

-----------------------------------------------------------------------------
(***************************************************************************)
(* The whole chain.                                                        *)
(***************************************************************************)
LEMMA PushedIs ==
  ASSUME NEW chain, Len(chain) \in Nat
  PROVE  \E after : /\ Reading(chain, after) /\ after[0] = <<Plain("arguments")>>
                   /\ Pushed(chain) = after[Len(chain)]
<1> DEFINE how == "push"
           base == <<Plain("arguments")>>
           m == Len(chain)
           Same(f) == f = [n \in 0 .. m |-> IF n = 0 THEN base ELSE Push(f[n - 1], chain[n])]
           after == CHOOSE f : Same(f)
<1>1. \A x, y : Goes(how, x, y) = Push(x, y)
  BY Zenon, "push" # "flatten" DEF Goes
<1>2. Pushed(chain) = after[m]
  BY Zenon DEF Pushed
<1> HIDE DEF how, base, after
<1>3. PICK done : Run(how, base, chain, done)
  BY RunExists
<1>4. Same(done)
  <2>1. DOMAIN done = 0 .. m /\ done[0] = base
    BY <1>3 DEF Run
  <2>2. ASSUME NEW n \in 0 .. m PROVE done[n] = IF n = 0 THEN base ELSE Push(done[n - 1], chain[n])
    <3>1. CASE n = 0
      BY <2>1, <3>1
    <3>2. CASE n # 0
      <4>1. n \in 1 .. m
        BY <3>2
      <4>2. done[n] = Goes(how, done[n - 1], chain[n])
        BY <1>3, <4>1 DEF Run
      <4> QED
        BY <1>1, <3>2, <4>2
    <3> QED
      BY <3>1, <3>2
  <2>3. done = [n \in 0 .. m |-> done[n]]
    BY <1>3, <2>1 DEF Run
  <2> QED
    BY <2>2, <2>3
<1>5. Same(after)
  BY <1>4 DEF after
<1> HIDE DEF m
<1>6. after[0] = base /\ \A n \in 1 .. m : after[n] = Push(after[n - 1], chain[n])
  BY <1>5 DEF m
<1> QED
  BY <1>2, <1>6 DEF Reading, base, m

LEMMA ClosedIs ==
  ASSUME NEW of
  PROVE  LET stack == <<[type |-> "arguments", of |-> of]>> IN ~FollowsNull(stack) /\ Closed(stack) = of
<1> DEFINE c == [type |-> "arguments", of |-> of]
           stack == <<c>>
           Whole(f) == [n \in DOMAIN stack |->
             LET all == IF n = Len(stack) THEN stack[n].of ELSE Append(stack[n].of, f[n + 1]) IN
             [type |-> stack[n].type,
              of   |-> IF stack[n].type = "object" /\ Len(all) % 2 = 1 THEN Front(all) ELSE all]]
           whole == CHOOSE f : f = Whole(f)
<1>1. c.type = "arguments" /\ c.of = of
  OBVIOUS
<1> HIDE DEF c
<1>2. Len(stack) = 1 /\ DOMAIN stack = {1} /\ stack[1] = c
  OBVIOUS
<1> HIDE DEF stack
<1>3. ASSUME NEW f PROVE Whole(f) = [n \in {1} |-> [type |-> "arguments", of |-> of]]
  BY <1>1, <1>2
<1>4. \E f : f = Whole(f)
  BY <1>3
<1>5. whole = Whole(whole)
  BY <1>4, Zenon
<1> HIDE DEF whole
<1>6. whole[1].of = of
  <2>1. whole = [n \in {1} |-> [type |-> "arguments", of |-> of]]
    BY <1>3, <1>5, Zenon
  <2> HIDE DEF Whole
  <2>2. whole[1] = [type |-> "arguments", of |-> of]
    BY <2>1
  <2> QED
    BY <2>2
<1>7. Closed(stack) = of
  BY <1>6, Zenon DEF Closed, whole
<1>8. ~FollowsNull(stack)
  BY <1>1, <1>2 DEF FollowsNull
<1> QED
  BY <1>7, <1>8 DEF stack, c

LEMMA ReceivedIs ==
  ASSUME NEW args \in Seq(Values), \A i \in DOMAIN args : args[i] \in Unnested
  PROVE  Received(args) = Normals(args) /\ Received(args) # Broken
<1> DEFINE chain == Chain(args)
           bottom == "arguments"
           none == <<>>
<1>1. Len(chain) \in Nat
  BY AllocOf, Pieces DEF Chain, Add
<1>2. PICK after : /\ Reading(chain, after) /\ after[0] = <<Plain("arguments")>>
                   /\ Pushed(chain) = after[Len(chain)]
  BY <1>1, PushedIs
<1>3. after[0] = On(none, bottom, <<>>)
  BY <1>2 DEF On, Plain
<1>4. At(chain, 0, chain)
  BY <1>1 DEF At
<1>5. \A i \in DOMAIN args : Readable(args[i])
  BY AllReadable
<1>6. none \in Seq(Nat)
  OBVIOUS
<1> HIDE DEF bottom, none
<1>7. after[0 + Len(chain)] = On(none, bottom, Normals(args))
  BY <1>2, <1>3, <1>4, <1>5, <1>6, ReadAll
<1>8. Pushed(chain) = <<[type |-> "arguments", of |-> Normals(args)]>>
  BY <1>1, <1>2, <1>7 DEF On, none, bottom
<1>9. ~FollowsNull(Pushed(chain)) /\ Closed(Pushed(chain)) = Normals(args)
  BY <1>8, ClosedIs
<1>10. Len(Normals(args)) = Len(args)
  BY DEF Normals
<1>11. Received(args) = Normals(args)
  BY <1>9, <1>10, Zenon DEF Received
<1>12. Normals(args) # Broken
  <2> SUFFICES ASSUME Normals(args) = Broken PROVE FALSE
    OBVIOUS
  <2>1. Broken[1].type = "broken" /\ Len(Broken) = 1
    BY DEF Broken, Plain
  <2>2. Len(args) = 1
    BY <1>10, <2>1
  <2>3. 1 \in DOMAIN args /\ args[1] \in Values
    BY <2>2, SMTT(30)
  <2>4. Normals(args)[1] = Normal[args[1]]
    BY <2>3, Zenon DEF Normals
  <2> DEFINE v == args[1]
  <2> HIDE DEF v
  <2>5. v \in Values
    BY <2>3 DEF v
  <2>6. Normal[v].type = IF v.type = "null" THEN "undefined" ELSE v.type
    <3> DEFINE of == [i \in DOMAIN v.of |-> Normal[v.of[i]]]
    <3>1. Normal[v] = Renamed(v, of)
      BY <2>5, NormalIs, Zenon
    <3> HIDE DEF of
    <3>2. Renamed(v, of).type = IF v.type = "null" THEN "undefined" ELSE v.type
      BY DEF Renamed
    <3> QED
      BY <3>1, <3>2, Zenon
  <2>7. Normal[v].type # "broken"
    BY <2>5, <2>6, ValuesAssumption DEF Types, Containers
  <2> QED
    BY <2>1, <2>4, <2>7, Zenon DEF v
<1> QED
  BY <1>11, <1>12

(***************************************************************************)
(* Arguments without a container that ends with a container arrive as they *)
(* are, null as undefined (BinaryAlloc, BinaryAdd, BinaryPushContext).     *)
(***************************************************************************)
THEOREM Decoded ==
  \A args \in Seq(Values) :
    (\A i \in DOMAIN args : args[i] \in Unnested) =>
      Received(args) = [i \in DOMAIN args |-> Normal[args[i]]] /\ Received(args) # Broken
  BY ReceivedIs DEF Normals

-----------------------------------------------------------------------------
(***************************************************************************)
(* The inductive invariant, in named parts.                                *)
(*                                                                         *)
(* Owners: the references are that of the script's object and that of the  *)
(* task that calls the worker's script.                                    *)
(***************************************************************************)
Owners ==
  /\ refs = (IF shell THEN 1 ELSE 0) + (IF holds THEN 1 ELSE 0)
  /\ holds => wpc = "script"
  /\ shell => life = "live"

(***************************************************************************)
(* Threads: when the WebWorker is deleted but by the worker's thread, that *)
(* thread has ended and the main thread is not about to use it; a thread   *)
(* that has read its Weak has a message to read.                           *)
(***************************************************************************)
Threads ==
  /\ life = "deleted" => wpc = "exited" \/ "worker" \in deleters
  /\ life = "deleted" /\ mpc = "read" => "worker" \in deleters
  /\ mpc = "join" => life # "live"
  /\ mpc = "read" => outq # <<>>
  /\ wpc = "read" => inq # <<>> /\ Head(inq) \notin {Open, Break}

(***************************************************************************)
(* Line: while the worker runs, its queue is the script to open, if that   *)
(* has not begun, then the messages that it has not heard, then the first  *)
(* Break, if there is one.                                                 *)
(***************************************************************************)
Opening == IF inq # <<>> /\ Head(inq) = Open THEN 1 ELSE 0
Before == IF broken = Never THEN Len(toWorker) ELSE broken
Waiting == Before - Len(heardWorker)

Line ==
  /\ \A i \in DOMAIN inq : inq[i] = Open => i = 1
  /\ wpc # "exited" =>
       /\ Opening + Waiting <= Len(inq)
       /\ \A i \in 1 .. Waiting : inq[Opening + i] = toWorker[Len(heardWorker) + i]
       /\ IF broken = Never THEN Len(inq) = Opening + Waiting
          ELSE Opening + Waiting < Len(inq) /\ inq[Opening + Waiting + 1] = Break

(***************************************************************************)
(* Mail: the main queue is the end of what the worker posted; as long as   *)
(* the script has its object, it has heard the rest.                       *)
(***************************************************************************)
Taken == Len(toMain) - Len(outq)

Mail ==
  /\ Len(heardMain) <= Taken
  /\ shell => Len(heardMain) = Taken
  /\ \A i \in DOMAIN outq : outq[i] = toMain[Taken + i]

(***************************************************************************)
(* Spoken: what has been heard is what the chain of what was posted gives. *)
(***************************************************************************)
ReceivedAs(heard, sent) == \A i \in DOMAIN heard : i \in DOMAIN sent /\ heard[i] = Reception[sent[i]]

Spoken ==
  /\ ReceivedAs(heardWorker, toWorker)
  /\ ReceivedAs(heardMain, toMain)
  /\ Len(heardWorker) <= Before /\ Before <= Len(toWorker)

IInv == TypeOK /\ Owners /\ Threads /\ Line /\ Mail /\ Spoken /\ OnlyOwnThreadHarms

-----------------------------------------------------------------------------
(***************************************************************************)
(* A list of arguments is not one of the two tasks that are none.          *)
(***************************************************************************)
LEMMA Tasks == Open # Break /\ Open \notin Payloads /\ Break \notin Payloads
<1>1. Open[1].type = "open" /\ Break[1].type = "break" /\ Len(Open) = 1 /\ Len(Break) = 1
  BY DEF Open, Break, Plain
<1>2. ASSUME NEW args \in Payloads, Len(args) = 1 PROVE args[1].type \in Types
  <2>1. args \in Seq(Values)
    BY PayloadsAssumption
  <2>2. args[1] \in Values
    BY <1>2, <2>1
  <2> QED
    BY <2>2, ValuesAssumption
<1>3. "open" \notin Types /\ "break" \notin Types
  BY DEF Types, Containers
<1> QED
  BY <1>1, <1>2, <1>3

LEMMA HeardAppend ==
  ASSUME NEW heard \in Heard, NEW args \in Payloads
  PROVE  Append(heard, Reception[args]) \in Heard
  BY DEF Heard

LEMMA AppendHead ==
  ASSUME NEW S, NEW s \in Seq(S), NEW e \in S, s # <<>>
  PROVE  Append(s, e) # <<>> /\ Head(Append(s, e)) = Head(s)
  OBVIOUS

LEMMA Initially == Init => IInv
<1> SUFFICES ASSUME Init PROVE IInv
  OBVIOUS
<1>1. TypeOK
  <2>1. <<>> \in Heard
    BY DEF Heard
  <2>2. <<Open>> \in Seq(Payloads \union {Open, Break})
    OBVIOUS
  <2>3. broken \in 0 .. Never /\ Len(toWorker) <= MaxToWorker /\ Len(toMain) <= MaxToMain
    BY MaxAssumption DEF Init, Never
  <2>4. outq \in Seq(Payloads) /\ toWorker \in Seq(Payloads) /\ toMain \in Seq(Payloads)
    BY DEF Init
  <2> QED
    BY <2>1, <2>2, <2>3, <2>4 DEF Init, TypeOK
<1>2. Owners /\ Threads /\ Mail /\ OnlyOwnThreadHarms
  BY DEF Init, Owners, Threads, Mail, Taken, OnlyOwnThreadHarms
<1>3. Opening = 1 /\ Before = 0 /\ Waiting = 0 /\ broken = Never
  BY MaxAssumption DEF Init, Opening, Before, Waiting, Never
<1>4. Line
  BY <1>3 DEF Init, Line
<1>5. Spoken
  BY <1>3 DEF Init, Spoken, ReceivedAs
<1> QED
  BY <1>1, <1>2, <1>4, <1>5 DEF IInv

(***************************************************************************)
(* Each conjunct is kept by each step.                                     *)
(***************************************************************************)
LEMMA TypeKept == IInv /\ Next => TypeOK'
<1> SUFFICES ASSUME IInv, Next PROVE TypeOK'
  OBVIOUS
<1> USE MaxAssumption DEF IInv, TypeOK
<1>1. CASE DeleteOnMain
  <2>1. inq' \in Seq(Payloads \union {Open, Break}) /\ broken' \in 0 .. Never
    BY <1>1 DEF DeleteOnMain, QueueBreak, Never
  <2> QED
    BY <1>1, <2>1 DEF DeleteOnMain, posts, heards
<1>2. CASE Joined
  BY <1>2 DEF Joined, Join, posts, heards
<1>3. CASE TakeOnMain
  <2>1. outq' \in Seq(Payloads) /\ mpc' \in {"loop", "read", "call", "join"}
    BY <1>3, HeadTailProperties DEF TakeOnMain
  <2> QED
    BY <1>3, <2>1 DEF TakeOnMain, object, posts, heards
<1>4. CASE CallOnMain
  <2>1. outq # <<>> /\ Head(outq) \in Payloads /\ Tail(outq) \in Seq(Payloads)
    BY <1>4 DEF CallOnMain, Threads
  <2>2. heardMain' \in Heard
    BY <1>4, <2>1, HeardAppend DEF CallOnMain
  <2> QED
    BY <1>4, <2>1, <2>2 DEF CallOnMain, object, posts
<1>5. CASE ReturnOnMain
  BY <1>5 DEF ReturnOnMain, object, posts, heards
<1>6. CASE Call
  <2>1. Head(inq) \in Payloads /\ Tail(inq) \in Seq(Payloads \union {Open, Break})
    BY <1>6 DEF Call, Threads
  <2>2. heardWorker' \in Heard
    BY <1>6, <2>1, HeardAppend DEF Call
  <2> QED
    BY <1>6, <2>1, <2>2 DEF Call, Retain, posts
<1>7. CASE Done
  <2>1. refs' \in Nat
    BY <1>7 DEF Done, Release, Owners, object
  <2>2. pending' \in BOOLEAN
    BY <1>7 DEF Done, Release, object
  <2> QED
    BY <1>7, <2>1, <2>2 DEF Done, Release, object, posts, heards
<1>8. CASE Return
  BY <1>8 DEF Return, object, posts, heards
<1>9. CASE Take
  <2>1. inq' \in Seq(Payloads \union {Open, Break}) /\ wpc' \in {"loop", "read", "script", "return", "exited"}
    BY <1>9, HeadTailProperties DEF Take
  <2> QED
    BY <1>9, <2>1 DEF Take, object, posts, heards
<1>10. CASE Spare
  BY <1>10, ZenonT(40) DEF Spare, threads, posts, heards
<1>11. CASE DeleteOnWorker
  BY <1>11 DEF DeleteOnWorker, threads, posts, heards
<1>12. ASSUME NEW args \in Payloads, PostToWorker(args) PROVE TypeOK'
  BY <1>12 DEF PostToWorker, object, threads, heards
<1>13. ASSUME NEW args \in Payloads, PostToMain(args) PROVE TypeOK'
  BY <1>13 DEF PostToMain, object, threads, heards
<1>14. CASE Terminate
  BY <1>14 DEF Terminate, QueueBreak, object, threads, posts, heards, Never
<1>15. CASE DropShell
  <2>1. refs' \in Nat
    BY <1>15 DEF DropShell, Release, Owners
  <2>2. pending' \in BOOLEAN
    BY <1>15 DEF DropShell, Release
  <2> QED
    BY <1>15, <2>1, <2>2 DEF DropShell, Release, threads, posts, heards
<1>16. CASE Event
  BY <1>16 DEF Event, object, posts, heards
<1> QED
  BY <1>1, <1>2, <1>3, <1>4, <1>5, <1>6, <1>7, <1>8, <1>9, <1>10, <1>11, <1>12, <1>13, <1>14, <1>15, <1>16
     DEF Next, OnMain, OnWorker

LEMMA OwnersKept == IInv /\ Next => Owners'
<1> SUFFICES ASSUME IInv, Next PROVE Owners'
  OBVIOUS
<1> USE DEF IInv, TypeOK, Owners
<1>1. CASE DeleteOnMain
  BY <1>1 DEF DeleteOnMain
<1>2. CASE Joined
  BY <1>2 DEF Joined, Join, Threads
<1>3. CASE Call
  BY <1>3 DEF Call, Retain
<1>4. CASE Done
  BY <1>4 DEF Done, Release, object
<1>5. CASE Return
  BY <1>5 DEF Return, object
<1>6. CASE DeleteOnWorker
  BY <1>6 DEF DeleteOnWorker, threads
<1>7. CASE DropShell
  BY <1>7 DEF DropShell, Release, threads
<1>8. CASE Take \/ Event
  BY <1>8 DEF Take, Event, object
<1>9. CASE TakeOnMain \/ CallOnMain \/ ReturnOnMain \/ Spare \/ Terminate
  BY <1>9 DEF TakeOnMain, CallOnMain, ReturnOnMain, Spare, Terminate, object, threads
<1>10. ASSUME NEW args \in Payloads, PostToWorker(args) \/ PostToMain(args) PROVE Owners'
  BY <1>10 DEF PostToWorker, PostToMain, object, threads
<1> QED
  BY <1>1, <1>2, <1>3, <1>4, <1>5, <1>6, <1>7, <1>8, <1>9, <1>10 DEF Next, OnMain, OnWorker

LEMMA ThreadsKept == IInv /\ Next => Threads'
<1> SUFFICES ASSUME IInv, Next PROVE Threads'
  OBVIOUS
<1> USE DEF IInv, TypeOK, Threads
<1>1. CASE DeleteOnMain
  <2>1. wpc = "read" => inq' # <<>> /\ Head(inq') = Head(inq)
    BY <1>1, AppendHead, SMTT(30) DEF DeleteOnMain, QueueBreak
  <2> QED
    BY <1>1, <2>1 DEF DeleteOnMain
<1>2. CASE Joined
  BY <1>2 DEF Joined, Join
<1>3. CASE TakeOnMain
  BY <1>3 DEF TakeOnMain, object
<1>4. CASE CallOnMain \/ ReturnOnMain
  BY <1>4 DEF CallOnMain, ReturnOnMain, object
<1>5. CASE Call \/ Done
  BY <1>5 DEF Call, Done, Retain, Release, object
<1>6. CASE Return
  BY <1>6 DEF Return, object
<1>7. CASE Take
  BY <1>7, Tasks DEF Take, object
<1>8. CASE Spare \/ DeleteOnWorker
  BY <1>8 DEF Spare, DeleteOnWorker, threads
<1>9. ASSUME NEW args \in Payloads, PostToWorker(args) PROVE Threads'
  BY <1>9 DEF PostToWorker, object, threads
<1>10. ASSUME NEW args \in Payloads, PostToMain(args) PROVE Threads'
  <2>1. outq' # <<>>
    BY <1>10 DEF PostToMain
  <2> QED
    BY <1>10, <2>1 DEF PostToMain, object, threads
<1>11. CASE Terminate
  BY <1>11 DEF Terminate, QueueBreak, object, threads
<1>12. CASE DropShell \/ Event
  BY <1>12 DEF DropShell, Event, Release, object, threads
<1> QED
  BY <1>1, <1>2, <1>3, <1>4, <1>5, <1>6, <1>7, <1>8, <1>9, <1>10, <1>11, <1>12 DEF Next, OnMain, OnWorker

(***************************************************************************)
(* Mail changes when the worker posts, when the main thread takes what was *)
(* posted, and when the script loses its object.                           *)
(***************************************************************************)
LEMMA MailKept == IInv /\ Next => Mail'
<1> SUFFICES ASSUME IInv, Next PROVE Mail'
  OBVIOUS
<1> USE DEF IInv, TypeOK, Mail, Taken
<1>t. ASSUME outq # <<>>
      PROVE  /\ Len(Tail(outq)) = Len(outq) - 1 /\ Len(outq) \in Nat \ {0}
             /\ \A i \in DOMAIN Tail(outq) : i + 1 \in DOMAIN outq /\ Tail(outq)[i] = outq[i + 1]
  BY <1>t, HeadTailProperties, EmptySeq
<1>1. CASE TakeOnMain
  <2>1. CASE life = "deleted"
    BY <1>1, <1>t, <2>1, SMTT(30) DEF TakeOnMain, Owners, posts, heards
  <2>2. CASE life # "deleted"
    BY <1>1, <2>2 DEF TakeOnMain, posts, heards
  <2> QED
    BY <2>1, <2>2
<1>2. CASE CallOnMain
  <2>1. outq # <<>>
    BY <1>2 DEF CallOnMain, Threads
  <2>2. Taken' = Taken + 1
    BY <1>2, <1>t, <2>1 DEF CallOnMain, posts
  <2>3. Len(heardMain') = IF shell THEN Len(heardMain) + 1 ELSE Len(heardMain)
    BY <1>2 DEF CallOnMain, Heard
  <2> QED
    BY <1>2, <1>t, <2>1, <2>2, <2>3, SMTT(30) DEF CallOnMain, posts
<1>3. ASSUME NEW args \in Payloads, PostToMain(args) PROVE Mail'
  <2>1. /\ Len(outq') = Len(outq) + 1 /\ Len(toMain') = Len(toMain) + 1
        /\ \A i \in DOMAIN outq : outq'[i] = outq[i]
        /\ \A i \in DOMAIN toMain : toMain'[i] = toMain[i]
        /\ outq'[Len(outq) + 1] = args /\ toMain'[Len(toMain) + 1] = args
    BY <1>3 DEF PostToMain
  <2>2. Taken' = Taken /\ UNCHANGED <<heardMain, shell>>
    BY <1>3, <2>1 DEF PostToMain, heards
  <2>3. Taken \in Nat /\ Len(outq) \in Nat /\ DOMAIN outq' = 1 .. Len(outq) + 1
    BY <1>3, <2>1 DEF PostToMain, Heard
  <2>4. ASSUME NEW i \in DOMAIN outq' PROVE outq'[i] = toMain'[Taken + i]
    <3>1. CASE i \in DOMAIN outq
      <4>1. Taken + i \in DOMAIN toMain /\ outq[i] = toMain[Taken + i]
        BY <2>3, <3>1
      <4> QED
        BY <2>1, <2>2, <3>1, <4>1
    <3>2. CASE i = Len(outq) + 1
      BY <2>1, <2>3, <3>2
    <3> QED
      BY <2>3, <3>1, <3>2, SMTT(30)
  <2> QED
    BY <2>2, <2>4
<1>4. CASE DropShell
  BY <1>4 DEF DropShell, posts, heards
<1>5. UNCHANGED <<outq, toMain, heardMain, shell>> => Mail'
  OBVIOUS
<1>6. CASE DeleteOnMain \/ Joined \/ ReturnOnMain \/ Spare \/ DeleteOnWorker
  BY <1>5, <1>6 DEF DeleteOnMain, Joined, ReturnOnMain, Spare, DeleteOnWorker, posts, heards
<1>7. CASE Call \/ Done \/ Return \/ Take \/ Terminate \/ Event
  BY <1>5, <1>7 DEF Call, Done, Return, Take, Terminate, Event, posts, heards
<1>8. ASSUME NEW args \in Payloads, PostToWorker(args) PROVE Mail'
  BY <1>5, <1>8 DEF PostToWorker, heards
<1> QED
  BY <1>1, <1>2, <1>3, <1>4, <1>5, <1>6, <1>7, <1>8 DEF Next, OnMain, OnWorker

(***************************************************************************)
(* Line changes when a message or a Break is queued and when the worker's  *)
(* thread takes one.  A message that it has taken is the next to be heard. *)
(***************************************************************************)
LEMMA NextHeard ==
  ASSUME IInv, wpc = "read"
  PROVE  /\ Opening = 0 /\ Waiting \in Nat \ {0}
         /\ Len(heardWorker) + 1 \in DOMAIN toWorker
         /\ Head(inq) = toWorker[Len(heardWorker) + 1]
<1> USE MaxAssumption DEF IInv, TypeOK
<1>1. inq # <<>> /\ Head(inq) \notin {Open, Break} /\ Head(inq) = inq[1] /\ Len(inq) \in Nat \ {0}
  BY DEF Threads
<1>2. Opening = 0
  BY <1>1 DEF Opening
<1>3. Len(heardWorker) \in Nat /\ Len(toWorker) \in Nat /\ Before \in Nat
  BY DEF Heard, Before, Never
<1>4. Waiting \in Nat
  BY <1>3 DEF Spoken, Waiting
<1>5. Waiting # 0
  BY <1>1, <1>2 DEF Line
<1>6. inq[1] = toWorker[Len(heardWorker) + 1]
  BY <1>2, <1>4, <1>5 DEF Line
<1>7. Len(heardWorker) + 1 <= Len(toWorker)
  BY <1>3, <1>5 DEF Waiting, Spoken
<1> QED
  BY <1>1, <1>2, <1>3, <1>4, <1>5, <1>6, <1>7

(***************************************************************************)
(* The numbers in Line, and Line as long as the worker runs.               *)
(***************************************************************************)
LEMMA Numbers ==
  ASSUME IInv
  PROVE  /\ Len(inq) \in Nat /\ Len(heardWorker) \in Nat /\ Len(toWorker) \in Nat
         /\ Opening \in {0, 1} /\ Waiting \in Nat
         /\ Len(heardWorker) + Waiting <= Len(toWorker)
         /\ broken = Never => Len(heardWorker) + Waiting = Len(toWorker)
         /\ broken # Never => Len(heardWorker) + Waiting = broken
<1>1. Len(inq) \in Nat /\ Len(heardWorker) \in Nat /\ Len(toWorker) \in Nat
  BY DEF IInv, TypeOK, Heard
<1>2. Before \in Nat /\ Len(heardWorker) <= Before /\ Before <= Len(toWorker)
  BY <1>1, MaxAssumption DEF IInv, TypeOK, Spoken, Before, Never
<1>3. Waiting \in Nat /\ Len(heardWorker) + Waiting = Before
  BY <1>1, <1>2 DEF Waiting
<1> QED
  BY <1>1, <1>2, <1>3 DEF Opening, Before

LEMMA InLine ==
  ASSUME IInv, wpc # "exited"
  PROVE  /\ Opening + Waiting <= Len(inq)
         /\ \A i \in 1 .. Waiting : /\ Opening + i \in 1 .. Len(inq)
                                    /\ Len(heardWorker) + i \in 1 .. Len(toWorker)
                                    /\ inq[Opening + i] = toWorker[Len(heardWorker) + i]
         /\ broken = Never => Len(inq) = Opening + Waiting
         /\ broken # Never => /\ Opening + Waiting + 1 \in 1 .. Len(inq)
                              /\ inq[Opening + Waiting + 1] = Break
<1>1. /\ Opening + Waiting <= Len(inq)
      /\ \A i \in 1 .. Waiting : inq[Opening + i] = toWorker[Len(heardWorker) + i]
      /\ broken = Never => Len(inq) = Opening + Waiting
      /\ broken # Never => Opening + Waiting < Len(inq) /\ inq[Opening + Waiting + 1] = Break
  BY DEF IInv, Line
<1>2. \A i \in 1 .. Waiting : Opening + i \in 1 .. Len(inq) /\ Len(heardWorker) + i \in 1 .. Len(toWorker)
  BY <1>1, Numbers
<1>3. broken # Never => Opening + Waiting + 1 \in 1 .. Len(inq)
  BY <1>1, Numbers
<1> QED
  BY <1>1, <1>2, <1>3

LEMMA Queued ==
  ASSUME IInv, NEW task \in Payloads \union {Break}, inq' = Append(inq, task)
  PROVE  /\ Len(inq') = Len(inq) + 1 /\ DOMAIN inq' = 1 .. Len(inq) + 1
         /\ \A i \in 1 .. Len(inq) : inq'[i] = inq[i]
         /\ inq'[Len(inq) + 1] = task
         /\ Opening' = Opening
         /\ \A i \in DOMAIN inq' : inq'[i] = Open => i = 1
<1>1. inq \in Seq(Payloads \union {Open, Break}) /\ \A i \in DOMAIN inq : inq[i] = Open => i = 1
  BY DEF IInv, TypeOK, Line
<1>2. /\ Len(inq') = Len(inq) + 1 /\ DOMAIN inq' = 1 .. Len(inq) + 1
      /\ \A i \in 1 .. Len(inq) : inq'[i] = inq[i]
      /\ inq'[Len(inq) + 1] = task
  BY <1>1
<1>3. task # Open
  BY Tasks
<1>4. Opening' = Opening
  <2>1. CASE inq = <<>>
    BY <1>1, <1>3, <2>1 DEF Opening
  <2>2. CASE inq # <<>>
    BY <1>1, <2>2, AppendHead DEF Opening
  <2> QED
    BY <2>1, <2>2
<1>5. \A i \in DOMAIN inq' : inq'[i] = Open => i = 1
  BY <1>1, <1>2, <1>3
<1> QED
  BY <1>2, <1>4, <1>5

LEMMA BreakQueued == IInv /\ QueueBreak /\ UNCHANGED <<heardWorker, toWorker, wpc>> => Line'
<1> SUFFICES ASSUME IInv, QueueBreak, UNCHANGED <<heardWorker, toWorker, wpc>>
             PROVE  Line'
  OBVIOUS
<1>1. inq' = Append(inq, Break)
  BY DEF QueueBreak
<1>2. broken' # Never /\ Before' = Before
  <2>1. broken \in Nat /\ Len(toWorker) \in Nat /\ Len(toWorker) # Never
    BY MaxAssumption DEF IInv, TypeOK, Never
  <2> QED
    BY <2>1 DEF QueueBreak, Before
<1>3. Waiting' = Waiting
  BY <1>2 DEF Waiting
<1>4. CASE wpc # "exited"
  <2>1. \A i \in 1 .. Waiting : inq'[Opening + i] = toWorker[Len(heardWorker) + i]
    BY <1>1, <1>4, InLine, Queued
  <2>2. Opening + Waiting < Len(inq') /\ inq'[Opening + Waiting + 1] = Break
    <3>1. CASE broken = Never
      BY <1>1, <1>4, <3>1, InLine, Numbers, Queued
    <3>2. CASE broken # Never
      BY <1>1, <1>4, <3>2, InLine, Numbers, Queued
    <3> QED
      BY <3>1, <3>2
  <2>3. Opening' = Opening /\ \A i \in DOMAIN inq' : inq'[i] = Open => i = 1
    BY <1>1, Queued
  <2>4. Opening + Waiting <= Len(inq')
    BY <1>1, <2>2, Numbers, Queued
  <2> QED
    BY <1>2, <1>3, <2>1, <2>2, <2>3, <2>4 DEF Line
<1>5. CASE wpc = "exited"
  BY <1>1, <1>5, Queued DEF Line
<1> QED
  BY <1>4, <1>5

LEMMA MessageQueued == ASSUME IInv, NEW args \in Payloads, PostToWorker(args) PROVE Line'
<1>1. /\ inq' = Append(inq, args) /\ toWorker' = Append(toWorker, args)
      /\ UNCHANGED <<wpc, heardWorker, broken>>
  BY DEF PostToWorker, threads, heards
<1>2. /\ Len(toWorker') = Len(toWorker) + 1 /\ toWorker'[Len(toWorker) + 1] = args
      /\ \A i \in 1 .. Len(toWorker) : toWorker'[i] = toWorker[i]
  BY <1>1 DEF IInv, TypeOK
<1>3. Opening' = Opening /\ \A i \in DOMAIN inq' : inq'[i] = Open => i = 1
  BY <1>1, Queued
<1>4. CASE wpc # "exited" /\ broken = Never
  <2>1. Waiting' = Waiting + 1
    BY <1>1, <1>2, <1>4, Numbers DEF Waiting, Before
  <2>2. Len(inq) = Opening + Waiting /\ Len(toWorker) = Len(heardWorker) + Waiting
    BY <1>4, InLine, Numbers
  <2>3. \A i \in 1 .. Waiting : inq'[Opening + i] = toWorker'[Len(heardWorker) + i]
    BY <1>1, <1>2, <1>4, InLine, Queued
  <2>4. inq'[Opening + (Waiting + 1)] = toWorker'[Len(heardWorker) + (Waiting + 1)]
    BY <1>1, <1>2, <2>2, Numbers, Queued
  <2>5. \A i \in 1 .. Waiting + 1 : inq'[Opening + i] = toWorker'[Len(heardWorker) + i]
    <3>1. ASSUME NEW i \in 1 .. Waiting + 1 PROVE i \in 1 .. Waiting \/ i = Waiting + 1
      BY Numbers
    <3> QED
      BY <2>3, <2>4, <3>1
  <2>6. Len(inq') = Opening + (Waiting + 1) /\ Opening + (Waiting + 1) <= Len(inq')
    BY <1>1, <2>2, Numbers, Queued
  <2> QED
    BY <1>1, <1>3, <1>4, <2>1, <2>5, <2>6 DEF Line
<1>5. CASE wpc # "exited" /\ broken # Never
  <2>1. Waiting' = Waiting
    BY <1>1, <1>5 DEF Waiting, Before
  <2>2. \A i \in 1 .. Waiting : inq'[Opening + i] = toWorker'[Len(heardWorker) + i]
    BY <1>1, <1>2, <1>5, InLine, Queued
  <2>3. /\ Opening + Waiting <= Len(inq') /\ Opening + Waiting < Len(inq')
        /\ inq'[Opening + Waiting + 1] = Break
    BY <1>1, <1>5, InLine, Numbers, Queued
  <2> QED
    BY <1>1, <1>3, <1>5, <2>1, <2>2, <2>3 DEF Line
<1>6. CASE wpc = "exited"
  BY <1>1, <1>3, <1>6 DEF Line
<1> QED
  BY <1>4, <1>5, <1>6

LEMMA Removed ==
  ASSUME IInv, inq # <<>>, inq' = Tail(inq)
  PROVE  /\ Len(inq') = Len(inq) - 1 /\ DOMAIN inq' = 1 .. Len(inq) - 1
         /\ \A i \in 1 .. Len(inq) - 1 : inq'[i] = inq[i + 1]
         /\ Opening' = 0
         /\ \A i \in DOMAIN inq' : inq'[i] = Open => i = 1
<1>1. inq \in Seq(Payloads \union {Open, Break}) /\ \A i \in DOMAIN inq : inq[i] = Open => i = 1
  BY DEF IInv, TypeOK, Line
<1>2. /\ inq' \in Seq(Payloads \union {Open, Break}) /\ Len(inq') = Len(inq) - 1
      /\ DOMAIN inq' = 1 .. Len(inq) - 1
      /\ \A i \in 1 .. Len(inq) - 1 : inq'[i] = inq[i + 1]
  BY <1>1, HeadTailProperties
<1>3. \A i \in 1 .. Len(inq) - 1 : i + 1 \in DOMAIN inq /\ i + 1 # 1
  BY <1>1
<1>4. \A i \in DOMAIN inq' : inq'[i] # Open
  BY <1>1, <1>2, <1>3
<1>5. Opening' = 0
  BY <1>2, <1>4 DEF Opening
<1> QED
  BY <1>2, <1>4, <1>5

LEMMA LineKept == IInv /\ Next => Line'
<1> SUFFICES ASSUME IInv, Next PROVE Line'
  OBVIOUS
<1>1. ASSUME UNCHANGED <<inq, toWorker, heardWorker, broken>>, wpc = "exited" => wpc' = "exited"
      PROVE  Line'
  <2>1. Opening' = Opening /\ Waiting' = Waiting
    BY <1>1 DEF Opening, Waiting, Before
  <2> QED
    BY <1>1, <2>1 DEF IInv, Line
<1>2. CASE DeleteOnMain \/ Terminate
  BY <1>2, BreakQueued DEF DeleteOnMain, Terminate, threads, posts, heards
<1>3. ASSUME NEW args \in Payloads, PostToWorker(args) PROVE Line'
  BY <1>3, MessageQueued
<1>4. CASE Joined
  BY <1>4 DEF Joined, Join, Line
<1>5. CASE Take
  <2>1. inq # <<>> /\ wpc # "exited" /\ UNCHANGED <<toWorker, heardWorker, broken>>
    BY <1>5 DEF Take, posts, heards
  <2>2. CASE Head(inq) = Open /\ inq' = Tail(inq)
    <3>1. Opening = 1 /\ Opening' = 0 /\ Waiting' = Waiting /\ Before' = Before
      BY <2>1, <2>2, Removed DEF Opening, Waiting, Before
    <3>2. \A i \in 1 .. Waiting : i \in 1 .. Len(inq) - 1 /\ inq'[i] = toWorker[Len(heardWorker) + i]
      <4>1. ASSUME NEW i \in 1 .. Waiting
            PROVE  i \in 1 .. Len(inq) - 1 /\ inq[i + 1] = toWorker[Len(heardWorker) + i]
        <5>1. 1 + i \in 1 .. Len(inq) /\ inq[1 + i] = toWorker[Len(heardWorker) + i]
          BY <2>1, <3>1, InLine
        <5>2. 1 + i = i + 1 /\ i \in 1 .. Len(inq) - 1
          BY <5>1, Numbers
        <5> QED
          BY <5>1, <5>2
      <4> QED
        BY <2>1, <2>2, <4>1, Removed
    <3>3. Waiting <= Len(inq') /\ (broken = Never => Len(inq') = Waiting)
      BY <2>1, <2>2, <3>1, InLine, Numbers, Removed
    <3>4. broken # Never => Waiting < Len(inq') /\ inq'[Waiting + 1] = Break
      <4>1. broken # Never => /\ Waiting + 1 \in 1 .. Len(inq) - 1
                              /\ inq[(Waiting + 1) + 1] = Break
        BY <2>1, <3>1, InLine, Numbers
      <4> QED
        BY <2>1, <2>2, <4>1, Numbers, Removed
    <3>5. \A i \in DOMAIN inq' : inq'[i] = Open => i = 1
      BY <2>1, <2>2, Removed
    <3>6. 0 + Waiting = Waiting /\ \A i \in 1 .. Waiting : 0 + i = i
      BY Numbers
    <3> QED
      BY <2>1, <3>1, <3>2, <3>3, <3>4, <3>5, <3>6 DEF Line
  <2>3. CASE wpc' = "exited" /\ inq' = Tail(inq)
    BY <2>1, <2>3, Removed DEF Line
  <2>4. CASE UNCHANGED inq
    BY <1>1, <2>1, <2>4
  <2> QED
    BY <1>5, <2>2, <2>3, <2>4 DEF Take
<1>6. CASE Call
  <2>1. /\ inq # <<>> /\ wpc # "exited" /\ wpc = "read" /\ inq' = Tail(inq)
        /\ UNCHANGED <<toWorker, broken>> /\ Opening = 0 /\ Waiting \in Nat \ {0}
    BY <1>6, NextHeard DEF Call, posts, IInv, Threads
  <2>2. Len(heardWorker') = Len(heardWorker) + 1
    BY <1>6 DEF Call, IInv, TypeOK, Heard
  <2>3. Opening' = 0 /\ Waiting' = Waiting - 1
    BY <2>1, <2>2, Removed, Numbers DEF Waiting, Before
  <2>4. \A i \in 1 .. Waiting - 1 : inq'[i] = toWorker[Len(heardWorker') + i]
    <3>1. ASSUME NEW i \in 1 .. Waiting - 1
          PROVE  /\ i \in 1 .. Len(inq) - 1
                 /\ inq[i + 1] = toWorker[Len(heardWorker') + i]
      <4>1. i + 1 \in 1 .. Waiting
        BY <2>1
      <4>2. 0 + (i + 1) \in 1 .. Len(inq) /\ inq[0 + (i + 1)] = toWorker[Len(heardWorker) + (i + 1)]
        BY <2>1, <4>1, InLine
      <4>3. Len(heardWorker) + (i + 1) = Len(heardWorker') + i /\ 0 + (i + 1) = i + 1
        BY <2>2, Numbers
      <4> QED
        BY <4>2, <4>3, Numbers
    <3> QED
      BY <2>1, <3>1, Removed
  <2>5. Waiting - 1 <= Len(inq') /\ (broken = Never => Len(inq') = Waiting - 1)
    <3>1. Waiting <= Len(inq) /\ (broken = Never => Len(inq) = Waiting) /\ Len(inq) \in Nat
      BY <2>1, InLine, Numbers
    <3>2. Len(inq') = Len(inq) - 1
      BY <2>1, Removed
    <3>3. Waiting \in Nat
      BY <2>1
    <3>4. Waiting - 1 <= Len(inq')
      BY <3>1, <3>2, <3>3
    <3> QED
      BY <3>1, <3>2, <3>4
  <2>6. broken # Never => Waiting - 1 < Len(inq') /\ inq'[(Waiting - 1) + 1] = Break
    <3>1. broken # Never => Waiting \in 1 .. Len(inq) - 1 /\ inq[Waiting + 1] = Break
      BY <2>1, InLine, Numbers
    <3> QED
      BY <2>1, <3>1, Numbers, Removed
  <2>7. \A i \in DOMAIN inq' : inq'[i] = Open => i = 1
    BY <2>1, Removed
  <2>8. 0 + (Waiting - 1) = Waiting - 1 /\ \A i \in 1 .. Waiting - 1 : 0 + i = i
    BY <2>1
  <2> QED
    BY <2>1, <2>3, <2>4, <2>5, <2>6, <2>7, <2>8 DEF Line
<1>7. CASE TakeOnMain \/ CallOnMain \/ ReturnOnMain \/ Spare \/ DeleteOnWorker \/ DropShell
  BY <1>1, <1>7
     DEF TakeOnMain, CallOnMain, ReturnOnMain, Spare, DeleteOnWorker, DropShell, threads, posts, heards
<1>8. CASE Done \/ Return \/ Event
  BY <1>1, <1>8 DEF Done, Return, Event, posts, heards
<1>9. ASSUME NEW args \in Payloads, PostToMain(args) PROVE Line'
  BY <1>1, <1>9 DEF PostToMain, threads, heards
<1> QED
  BY <1>2, <1>3, <1>4, <1>5, <1>6, <1>7, <1>8, <1>9 DEF Next, OnMain, OnWorker

(***************************************************************************)
(* Spoken changes when a script posts a message and when one is called.    *)
(***************************************************************************)
LEMMA HeardNext ==
  ASSUME NEW heard \in Heard, NEW sent \in Seq(Payloads), ReceivedAs(heard, sent),
         Len(heard) + 1 \in DOMAIN sent
  PROVE  ReceivedAs(Append(heard, Reception[sent[Len(heard) + 1]]), sent)
<1> DEFINE n == Len(heard) + 1
           more == Append(heard, Reception[sent[n]])
<1>1. /\ n \in Nat /\ DOMAIN more = 1 .. n /\ DOMAIN heard = 1 .. n - 1
      /\ more[n] = Reception[sent[n]] /\ \A i \in 1 .. n - 1 : more[i] = heard[i]
  BY DEF Heard
<1> HIDE DEF more, n
<1>2. ASSUME NEW i \in DOMAIN more PROVE i \in DOMAIN sent /\ more[i] = Reception[sent[i]]
  <2>1. i \in 1 .. n - 1 \/ i = n
    BY <1>1
  <2>2. n \in DOMAIN sent
    BY DEF n
  <2> QED
    BY <1>1, <2>1, <2>2 DEF ReceivedAs
<1>3. ReceivedAs(more, sent)
  BY <1>2 DEF ReceivedAs
<1> QED
  BY <1>3 DEF more, n

LEMMA SentMore ==
  ASSUME NEW heard, NEW sent \in Seq(Payloads), NEW args \in Payloads, ReceivedAs(heard, sent)
  PROVE  ReceivedAs(heard, Append(sent, args))
<1>1. \A i \in DOMAIN sent : i \in DOMAIN Append(sent, args) /\ Append(sent, args)[i] = sent[i]
  OBVIOUS
<1> QED
  BY <1>1 DEF ReceivedAs

LEMMA SpokenKept == IInv /\ Next => Spoken'
<1> SUFFICES ASSUME IInv, Next PROVE Spoken'
  OBVIOUS
<1> USE MaxAssumption DEF Spoken
<1>0. /\ toWorker \in Seq(Payloads) /\ toMain \in Seq(Payloads) /\ heardWorker \in Heard /\ heardMain \in Heard
      /\ Spoken
  BY DEF IInv, TypeOK
<1>1. UNCHANGED <<posts, heards, broken>> => Spoken'
  BY <1>0 DEF posts, heards, Before
<1>2. CASE DeleteOnMain \/ Terminate
  <2>1. UNCHANGED <<posts, heards>> /\ broken' = IF broken = Never THEN Len(toWorker) ELSE broken
    BY <1>2 DEF DeleteOnMain, Terminate, QueueBreak
  <2>2. Before' = Before
    <3>1. Len(toWorker) # Never
      BY DEF IInv, TypeOK, Never
    <3> QED
      BY <2>1, <3>1 DEF Before, posts
  <2> QED
    BY <1>0, <2>1, <2>2 DEF posts, heards
<1>3. ASSUME NEW args \in Payloads, PostToWorker(args) PROVE Spoken'
  <2>1. toWorker' = Append(toWorker, args) /\ UNCHANGED <<toMain, heards, broken>>
    BY <1>3 DEF PostToWorker
  <2>2. ReceivedAs(heardWorker, toWorker')
    BY <1>0, <2>1, SentMore
  <2>3. Len(heardWorker) <= Before' /\ Before' <= Len(toWorker')
    <3>1. Len(toWorker') = Len(toWorker) + 1
      BY <1>0, <2>1
    <3> QED
      BY <1>0, <2>1, <3>1, Numbers DEF Before
  <2> QED
    BY <1>0, <2>1, <2>2, <2>3 DEF heards
<1>4. ASSUME NEW args \in Payloads, PostToMain(args) PROVE Spoken'
  <2>1. toMain' = Append(toMain, args) /\ UNCHANGED <<toWorker, heards, broken>>
    BY <1>4 DEF PostToMain
  <2>2. ReceivedAs(heardMain, toMain')
    BY <1>0, <2>1, SentMore
  <2> QED
    BY <1>0, <2>1, <2>2 DEF heards, Before
<1>5. CASE Call
  <2>1. /\ heardWorker' = Append(heardWorker, Reception[toWorker[Len(heardWorker) + 1]])
        /\ Len(heardWorker) + 1 \in DOMAIN toWorker
        /\ Waiting \in Nat \ {0}
        /\ UNCHANGED <<posts, heardMain, broken>>
    BY <1>5, NextHeard DEF Call
  <2>2. ReceivedAs(heardWorker', toWorker)
    BY <1>0, <2>1, HeardNext
  <2>3. Len(heardWorker') <= Before
    <3>1. Len(heardWorker') = Len(heardWorker) + 1
      BY <1>0, <2>1 DEF Heard
    <3> QED
      BY <2>1, <3>1, Numbers DEF Waiting, Before
  <2> QED
    BY <1>0, <2>1, <2>2, <2>3 DEF posts, Before
<1>6. CASE CallOnMain
  <2>1. UNCHANGED <<posts, heardWorker, broken>>
    BY <1>6 DEF CallOnMain
  <2>2. ReceivedAs(heardMain', toMain)
    <3>1. CASE shell
      <4>1. outq # <<>> /\ outq \in Seq(Payloads) /\ heardMain' = Append(heardMain, Reception[Head(outq)])
        BY <1>6, <3>1 DEF CallOnMain, IInv, Threads, TypeOK
      <4>2. 1 \in DOMAIN outq /\ Head(outq) = outq[1] /\ Len(outq) \in Nat \ {0}
        BY <4>1
      <4>3. Len(heardMain) = Taken /\ outq[1] = toMain[Taken + 1]
        BY <3>1, <4>2 DEF IInv, Mail
      <4>4. Len(heardMain) + 1 \in DOMAIN toMain
        <5>1. Len(heardMain) \in Nat /\ Len(toMain) \in Nat /\ DOMAIN toMain = 1 .. Len(toMain)
          BY <1>0 DEF Heard
        <5> QED
          BY <4>2, <4>3, <5>1 DEF Taken
      <4> QED
        BY <1>0, <4>1, <4>2, <4>3, <4>4, HeardNext
    <3>2. CASE ~shell
      BY <1>0, <1>6, <3>2 DEF CallOnMain
    <3> QED
      BY <3>1, <3>2
  <2> QED
    BY <1>0, <2>1, <2>2 DEF posts, Before
<1>7. CASE Joined \/ TakeOnMain \/ ReturnOnMain \/ Spare \/ DeleteOnWorker \/ DropShell
  BY <1>1, <1>7 DEF Joined, TakeOnMain, ReturnOnMain, Spare, DeleteOnWorker, DropShell
<1>8. CASE Done \/ Return \/ Take \/ Event
  BY <1>1, <1>8 DEF Done, Return, Take, Event
<1> QED
  BY <1>2, <1>3, <1>4, <1>5, <1>6, <1>7, <1>8 DEF Next, OnMain, OnWorker

LEMMA Exact == \A args \in Sound : Reception[args] = Wanted[args] /\ Reception[args] # Broken
<1> SUFFICES ASSUME NEW args \in Sound
             PROVE  Reception[args] = Wanted[args] /\ Reception[args] # Broken
  OBVIOUS
<1>1. args \in Payloads /\ \A i \in DOMAIN args : args[i] \in Unnested
  BY DEF Sound
<1>2. args \in Seq(Values)
  BY <1>1, PayloadsAssumption
<1>3. Reception[args] = Received(args) /\ Wanted[args] = Normals(args)
  BY <1>1, Zenon DEF Reception, Wanted, Normals
<1> QED
  BY <1>1, <1>2, <1>3, ReceivedIs

(***************************************************************************)
(* A fault comes from a chain that cannot be read, or from a thread that   *)
(* goes on after the WebWorker is deleted.                                 *)
(***************************************************************************)
LEMMA Misread ==
  ASSUME IInv, NEW sent \in Seq(Payloads), NEW n \in DOMAIN sent, Range(sent) \subseteq Sent,
         Reception[sent[n]] = Broken
  PROVE  ~ Sent \subseteq Sound
<1>1. sent[n] \in Sent
  BY DEF Range
<1> QED
  BY <1>1, Exact

LEMMA HarmKept == IInv /\ Next => OnlyOwnThreadHarms'
<1> SUFFICES ASSUME IInv, Next PROVE OnlyOwnThreadHarms'
  OBVIOUS
<1>1. shell' => life' = "live" /\ refs' > 0
  <2>1. Owners'
    BY OwnersKept
  <2> QED
    BY <2>1 DEF Owners
<1>2. fault = "none"
  BY DEF Next
<1>3. ASSUME UNCHANGED fault PROVE OnlyOwnThreadHarms'
  BY <1>1, <1>2, <1>3 DEF OnlyOwnThreadHarms
<1>4. CASE Call
  <2>1. UNCHANGED posts /\ fault' = IF Reception[Head(inq)] = Broken THEN "misread" ELSE fault
    BY <1>4 DEF Call
  <2>2. CASE Reception[Head(inq)] = Broken
    <3>1. Len(heardWorker) + 1 \in DOMAIN toWorker /\ Head(inq) = toWorker[Len(heardWorker) + 1]
      BY <1>4, NextHeard DEF Call
    <3>2. ~ Sent \subseteq Sound
      BY <2>2, <3>1, Misread DEF IInv, TypeOK, Sent
    <3>3. Sent' = Sent
      BY <2>1 DEF Sent, posts
    <3> QED
      BY <1>1, <2>1, <2>2, <3>2, <3>3 DEF OnlyOwnThreadHarms
  <2>3. CASE Reception[Head(inq)] # Broken
    BY <1>3, <2>1, <2>3
  <2> QED
    BY <2>2, <2>3
<1>5. CASE CallOnMain
  <2>1. /\ UNCHANGED <<posts, shell, object>>
        /\ fault' = IF life = "deleted" THEN "dangling"
                    ELSE IF shell /\ Reception[Head(outq)] = Broken THEN "misread" ELSE fault
        /\ mpc = "read"
    BY <1>5 DEF CallOnMain
  <2>2. CASE life = "deleted"
    <3>1. "worker" \in deleters /\ ~shell
      BY <2>1, <2>2 DEF IInv, Threads, Owners
    <3> QED
      BY <1>1, <2>1, <2>2, <3>1 DEF OnlyOwnThreadHarms, object
  <2>3. CASE life # "deleted" /\ shell /\ Reception[Head(outq)] = Broken
    <3>1. outq # <<>> /\ outq \in Seq(Payloads)
      BY <2>1 DEF IInv, Threads, TypeOK
    <3>2. 1 \in DOMAIN outq /\ Head(outq) = outq[1] /\ Len(outq) \in Nat \ {0}
      BY <3>1
    <3>3. outq[1] = toMain[Taken + 1]
      BY <3>2 DEF IInv, Mail
    <3>4. Len(heardMain) <= Taken /\ Len(heardMain) \in Nat /\ Len(toMain) \in Nat /\ toMain \in Seq(Payloads)
      BY DEF IInv, Mail, TypeOK, Heard
    <3>5. Taken + 1 \in DOMAIN toMain
      BY <3>2, <3>4 DEF Taken
    <3>6. ~ Sent \subseteq Sound
      BY <2>3, <3>2, <3>3, <3>4, <3>5, Misread DEF Sent
    <3>7. Sent' = Sent
      BY <2>1 DEF Sent, posts
    <3> QED
      BY <1>1, <2>1, <2>3, <3>6, <3>7 DEF OnlyOwnThreadHarms
  <2>4. CASE life # "deleted" /\ ~(shell /\ Reception[Head(outq)] = Broken)
    BY <1>3, <2>1, <2>4
  <2> QED
    BY <2>2, <2>3, <2>4
<1>6. CASE Return
  <2>1. CASE life = "deleted"
    <3>1. "worker" \in deleters /\ ~shell
      BY <1>6, <2>1 DEF Return, IInv, Threads, Owners
    <3>2. fault' = "unqueued" /\ UNCHANGED <<deleters, shell>>
      BY <1>6, <2>1 DEF Return, object
    <3> QED
      BY <1>1, <3>1, <3>2 DEF OnlyOwnThreadHarms
  <2>2. CASE life # "deleted"
    BY <1>3, <1>6, <2>2 DEF Return
  <2> QED
    BY <2>1, <2>2
<1>7. CASE DeleteOnWorker
  <2>1. ~shell /\ UNCHANGED shell /\ "worker" \in deleters'
    BY <1>7 DEF DeleteOnWorker, IInv, OnlyOwnThreadHarms
  <2>2. fault' # "misread"
    BY <1>2, <1>7 DEF DeleteOnWorker
  <2> QED
    BY <1>1, <2>1, <2>2 DEF OnlyOwnThreadHarms
<1>8. CASE DeleteOnMain \/ Joined \/ TakeOnMain \/ ReturnOnMain \/ Spare \/ Terminate \/ DropShell
  BY <1>3, <1>8 DEF DeleteOnMain, Joined, TakeOnMain, ReturnOnMain, Spare, Terminate, DropShell
<1>9. CASE Done \/ Take \/ Event
  BY <1>3, <1>9 DEF Done, Take, Event
<1>10. ASSUME NEW args \in Payloads, PostToWorker(args) \/ PostToMain(args) PROVE OnlyOwnThreadHarms'
  BY <1>3, <1>10 DEF PostToWorker, PostToMain
<1> QED
  BY <1>4, <1>5, <1>6, <1>7, <1>8, <1>9, <1>10 DEF Next, OnMain, OnWorker

LEMMA Invariance == Spec => []IInv
<1>1. IInv /\ [Next]_vars => IInv'
  <2>1. CASE Next
    BY <2>1, TypeKept, OwnersKept, ThreadsKept, LineKept, MailKept, SpokenKept, HarmKept DEF IInv
  <2>2. CASE UNCHANGED vars
    <3>1. UNCHANGED <<refs, life, pending, deleters, shell, inq, outq, wpc, mpc, holds, toWorker, toMain,
                      heardWorker, heardMain, broken, fault>>
      BY <2>2 DEF vars, object, threads, posts, heards
    <3>2. UNCHANGED <<Opening, Before, Waiting, Taken, Sent>>
      BY <3>1 DEF Opening, Before, Waiting, Taken, Sent
    <3>3. IInv => TypeOK' /\ Owners' /\ Threads'
      BY <3>1 DEF IInv, TypeOK, Owners, Threads
    <3>4. IInv => Line'
      BY <3>1, <3>2 DEF IInv, Line
    <3>5. IInv => Mail' /\ Spoken'
      BY <3>1, <3>2 DEF IInv, Mail, Spoken
    <3>6. IInv => OnlyOwnThreadHarms'
      BY <3>1, <3>2 DEF IInv, OnlyOwnThreadHarms
    <3> QED
      BY <3>3, <3>4, <3>5, <3>6 DEF IInv
  <2> QED
    BY <2>1, <2>2
<1> QED
  BY <1>1, Initially, PTL DEF Spec

-----------------------------------------------------------------------------
(***************************************************************************)
(* Every variable keeps its type (kk-wk.cc).                               *)
(***************************************************************************)
THEOREM TypeCorrect == Spec => []TypeOK
  BY Invariance, PTL DEF IInv

(***************************************************************************)
(* For any payloads: the object that a script keeps is alive, nothing is   *)
(* misread unless a container that ends with a container was sent, and any *)
(* other fault comes after the worker's own thread has deleted the         *)
(* WebWorker (~WebWorker, WebWorkerPostMessageFunc).                       *)
(***************************************************************************)
THEOREM HarmIsOwn == Spec => []OnlyOwnThreadHarms
  BY Invariance, PTL DEF IInv

(***************************************************************************)
(* For any payloads: on either side onmessage is called with what was      *)
(* posted, in order, null as undefined, and not for what was posted after  *)
(* terminate() (BinaryAlloc, BinaryPushContext, postMessage).              *)
(***************************************************************************)
THEOREM MessagesExact == Spec => []HeardAsPosted
<1>1. IInv => HeardAsPosted
  <2> SUFFICES ASSUME IInv PROVE HeardAsPosted
    OBVIOUS
  <2>1. ASSUME NEW heard, NEW sent, ReceivedAs(heard, sent) PROVE As(heard, sent)
    BY <2>1, Exact DEF ReceivedAs, As
  <2>2. Len(heardWorker) <= broken
    <3>1. Len(heardWorker) <= Before /\ Len(toWorker) <= MaxToWorker /\ Len(heardWorker) \in Nat /\ Len(toWorker) \in Nat /\ Before <= Len(toWorker)
      BY Numbers DEF IInv, Spoken, TypeOK
    <3> QED
      BY <3>1, MaxAssumption DEF Before, Never
  <2> QED
    BY <2>1, <2>2 DEF IInv, Spoken, HeardAsPosted
<1> QED
  BY <1>1, Invariance, PTL
=============================================================================
