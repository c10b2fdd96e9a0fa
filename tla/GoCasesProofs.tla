--------------------------- MODULE GoCasesProofs ---------------------------
(***************************************************************************)
(* The reader of GoCases and the trees of GoSyntax, for every text: where a*)
(* tree fits the text and the reader can know all names in it, the walk    *)
(* over the text yields what the tree means (CaseRead); and whatever the   *)
(* text is, it yields a case (CaseType).                                   *)
(*                                                                         *)
(* Each part of the reader is a function by recursion from a place to a    *)
(* later one.  That there is such a function, and only one, is shown by    *)
(* Recursion and OnlyOne; what it yields, by taking the last place at which*)
(* it would be wrong (LastWrong).                                          *)
(***************************************************************************)
EXTENDS GoSyntax, FiniteSetTheorems, SequenceTheorems, TLAPS
-----------------------------------------------------------------------------
(* Every nonempty set of naturals has a least element: of the intervals from*)
(* 0 to its elements one is minimal for strict inclusion, which is well    *)
(* founded on finite sets.                                                 *)
LEMMA MinExists ==
  ASSUME NEW T \in SUBSET Nat, T # {}
  PROVE \E n \in T : \A m \in T : n <= m
<1> DEFINE Family == {0 .. n : n \in T}
<1>1. Family \subseteq FiniteSubsetsOf(Nat)
  <2>1. \A n \in T : 0 .. n \subseteq Nat /\ IsFiniteSet(0 .. n)
    BY FS_Interval
  <2> QED
    BY <2>1 DEF FiniteSubsetsOf
<1>2. Family # {}
  OBVIOUS
<1>3. IsWellFoundedOn(StrictSubsetOrdering(Nat), FiniteSubsetsOf(Nat))
  BY FS_StrictSubsetOrderingWellFounded
<1>4. PICK X \in Family : \A Y \in Family : ~(<<Y, X>> \in StrictSubsetOrdering(Nat))
  <2> HIDE DEF Family
  <2> QED
    BY <1>1, <1>2, <1>3, WFMin
<1>5. PICK n \in T : X = 0 .. n
  OBVIOUS
<1>6. ASSUME NEW m \in T, ~(n <= m) PROVE FALSE
  <2>1. 0 .. m \in Family
    OBVIOUS
  <2>2. 0 .. m \subseteq 0 .. n /\ 0 .. m # 0 .. n
    <3>1. n \in 0 .. n /\ n \notin 0 .. m
      BY <1>6
    <3>2. 0 .. m \subseteq 0 .. n
      BY <1>6
    <3> QED
      BY <3>1, <3>2
  <2>3. <<0 .. m, X>> \in StrictSubsetOrdering(Nat)
    <3>1. 0 .. m \subseteq Nat /\ 0 .. n \subseteq Nat
      OBVIOUS
    <3>2. <<0 .. m, 0 .. n>> \in (SUBSET Nat) \X (SUBSET Nat)
      BY <3>1
    <3> QED
      BY <3>2, <2>2, <1>5 DEF StrictSubsetOrdering
  <2> QED
    BY <1>4, <2>1, <2>3
<1> QED
  BY <1>6

(* What holds of a position whenever it holds of the ones before it, holds  *)
(* of all.                                                                 *)
LEMMA FirstWrong ==
  ASSUME NEW n \in Nat, NEW Right,
         \A k \in 0 .. n : (\A j \in 0 .. k - 1 : j \in Right) => k \in Right
  PROVE 0 .. n \subseteq Right
<1> SUFFICES ASSUME (0 .. n) \ Right # {} PROVE FALSE
  OBVIOUS
<1>1. (0 .. n) \ Right \in SUBSET Nat
  OBVIOUS
<1>2. PICK k \in (0 .. n) \ Right : \A m \in (0 .. n) \ Right : k <= m
  BY <1>1, MinExists
<1>3. \A j \in 0 .. k - 1 : j \in Right
  <2> SUFFICES ASSUME NEW j \in 0 .. k - 1, j \notin Right PROVE FALSE
    OBVIOUS
  <2>1. j \in (0 .. n) \ Right
    OBVIOUS
  <2> QED
    BY <1>2, <2>1
<1> QED
  BY <1>2, <1>3

(* A scan that carries a state from each position to the next is defined    *)
(* everywhere.                                                             *)
Steps(n, S) == [1 .. n -> [S -> S]]
IsScan(g, n, S, start, step) ==
    g \in [0 .. n -> S] /\ g[0] = start /\ \A i \in 1 .. n : g[i] = step[i][g[i - 1]]

(* A walk from the first position on, each step from the one before, exists. *)
LEMMA ScanExists ==
  ASSUME NEW n \in Nat, NEW S, NEW start \in S, NEW step \in Steps(n, S)
  PROVE \E g : IsScan(g, n, S, start, step)
<1> USE DEF Steps
<1> DEFINE Scan(k, g) == g[0] = start /\ \A i \in 1 .. k : g[i] = step[i][g[i - 1]]
           Done == {k \in 0 .. n : \E g \in [0 .. k -> S] : Scan(k, g)}
<1>1. ASSUME NEW k \in 0 .. n, \A j \in 0 .. k - 1 : j \in Done PROVE k \in Done
  <2>1. CASE k = 0
    <3>1. [i \in 0 .. k |-> start] \in [0 .. k -> S] /\ Scan(k, [i \in 0 .. k |-> start])
      BY <2>1
    <3> QED
      BY <3>1
  <2>2. CASE k # 0
    <3>1. k - 1 \in Done
      <4>1. k - 1 \in 0 .. k - 1
        BY <2>2
      <4> HIDE DEF Done
      <4> QED
        BY <1>1, <4>1
    <3>2. PICK g \in [0 .. k - 1 -> S] : Scan(k - 1, g)
      BY <3>1
    <3> DEFINE h == [i \in 0 .. k |-> IF i = k THEN step[k][g[k - 1]] ELSE g[i]]
    <3>3. k \in 1 .. n /\ k - 1 \in 0 .. k - 1
      BY <2>2
    <3>4. step[k] \in [S -> S] /\ g[k - 1] \in S
      BY <3>3
    <3>5. h \in [0 .. k -> S]
      <4>1. ASSUME NEW i \in 0 .. k, i # k PROVE i \in 0 .. k - 1
        BY <4>1
      <4> QED
        BY <3>4, <4>1
    <3>6. ASSUME NEW i \in 1 .. k PROVE h[i] = step[i][h[i - 1]]
      <4>1. h[i - 1] = g[i - 1]
        BY <2>2
      <4>2. CASE i = k
        BY <4>1, <4>2
      <4>3. CASE i # k
        <5>1. i \in 1 .. k - 1
          BY <4>3
        <5>2. g[i] = step[i][g[i - 1]]
          BY <3>2, <5>1
        <5> QED
          BY <5>1, <5>2, <4>1
      <4> QED
        BY <4>2, <4>3
    <3>7. h[0] = start
      BY <3>2, <2>2
    <3> HIDE DEF h
    <3> QED
      BY <3>5, <3>6, <3>7
  <2> QED
    BY <2>1, <2>2
<1>2. 0 .. n \subseteq Done
  <2> HIDE DEF Done
  <2> QED
    BY <1>1, FirstWrong
<1> QED
  BY <1>2 DEF IsScan
-----------------------------------------------------------------------------
(* A function by recursion towards greater arguments: what it is at x       *)
(* depends on what it is behind x only.  Such a step has a fixed point, and *)
(* whatever satisfies the same equation is that fixed point.               *)
LooksAhead(F, G, n) ==
    \A g, h \in G : \A x \in 1 .. n : (\A y \in x + 1 .. n : g[y] = h[y]) => F[g][x] = F[h][x]
IsFixed(g, F, n) == \A x \in 1 .. n : g[x] = F[g][x]

(* Such a step has a fixed point. *)
LEMMA Recursion ==
  ASSUME NEW n \in Nat, NEW G, NEW start \in G, NEW F \in [G -> G], LooksAhead(F, G, n)
  PROVE \E g \in G : IsFixed(g, F, n)
<1> DEFINE From(g, k) == \A x \in n - k + 1 .. n : g[x] = F[g][x]
           Done == {k \in 0 .. n : \E g \in G : From(g, k)}
<1>1. ASSUME NEW k \in 0 .. n, \A j \in 0 .. k - 1 : j \in Done PROVE k \in Done
  <2>1. PICK g \in G : k = 0 \/ From(g, k - 1)
    <3>1. CASE k = 0
      BY <3>1
    <3>2. CASE k # 0
      <4>1. k - 1 \in 0 .. k - 1
        BY <3>2
      <4> QED
        BY <1>1, <4>1
    <3> QED
      BY <3>1, <3>2
  <2>2. F[g] \in G
    OBVIOUS
  <2>3. ASSUME NEW x \in n - k + 1 .. n PROVE F[g][x] = F[F[g]][x]
    <3>1. x \in 1 .. n
      OBVIOUS
    <3>2. ASSUME NEW y \in x + 1 .. n PROVE g[y] = F[g][y]
      <4>1. k # 0 /\ y \in n - (k - 1) + 1 .. n
        OBVIOUS
      <4> QED
        BY <2>1, <4>1
    <3> QED
      BY <2>2, <3>1, <3>2 DEF LooksAhead
  <2>4. From(F[g], k)
    BY <2>3
  <2> HIDE DEF From
  <2> QED
    BY <2>2, <2>4
<1>2. 0 .. n \subseteq Done
  <2> HIDE DEF Done
  <2> QED
    BY <1>1, FirstWrong
<1>3. PICK g \in G : From(g, n)
  <2>1. n \in Done
    <3>1. n \in 0 .. n
      OBVIOUS
    <3> HIDE DEF Done
    <3> QED
      BY <1>2, <3>1
  <2> HIDE DEF From
  <2> QED
    BY <2>1
<1> QED
  BY <1>3 DEF IsFixed

(* What holds of a position whenever it holds of the ones behind it, holds  *)
(* of all.                                                                 *)
LEMMA LastWrong ==
  ASSUME NEW n \in Nat, NEW Right,
         \A x \in 1 .. n : (\A y \in x + 1 .. n : y \in Right) => x \in Right
  PROVE 1 .. n \subseteq Right
<1> DEFINE Mirrored == {k \in 0 .. n : k = n \/ n - k \in Right}
<1>1. ASSUME NEW k \in 0 .. n, \A j \in 0 .. k - 1 : j \in Mirrored PROVE k \in Mirrored
  <2>1. CASE k = n
    BY <2>1
  <2>2. CASE k # n
    <3>1. ASSUME NEW y \in n - k + 1 .. n PROVE y \in Right
      <4>1. n - y \in 0 .. k - 1
        OBVIOUS
      <4>2. n - y \in Mirrored
        <5> HIDE DEF Mirrored
        <5> QED
          BY <1>1, <4>1
      <4>3. n - y # n /\ n - (n - y) = y
        OBVIOUS
      <4> QED
        BY <4>2, <4>3
    <3>2. n - k \in 1 .. n
      BY <2>2
    <3> QED
      BY <3>1, <3>2
  <2> QED
    BY <2>1, <2>2
<1>2. 0 .. n \subseteq Mirrored
  <2> HIDE DEF Mirrored
  <2> QED
    BY <1>1, FirstWrong
<1>3. ASSUME NEW x \in 1 .. n PROVE x \in Right
  <2>1. n - x \in 0 .. n /\ n - x # n /\ n - (n - x) = x
    OBVIOUS
  <2>2. n - x \in Mirrored
    BY <1>2, <2>1
  <2> QED
    BY <2>1, <2>2
<1> QED
  BY <1>3

(* Functions that agree at each place if they agree behind it agree        *)
(* everywhere.                                                             *)
Agree(f, g, n) == \A x \in 1 .. n : (\A y \in x + 1 .. n : f[y] = g[y]) => f[x] = g[x]
Alike(f, g, n) == \A x \in 1 .. n : f[x] = g[x]
LEMMA AgreeAll ==
  ASSUME NEW n \in Nat, NEW f, NEW g, Agree(f, g, n)
  PROVE Alike(f, g, n)
<1> DEFINE Right == {x \in 1 .. n : f[x] = g[x]}
<1>1. ASSUME NEW x \in 1 .. n, \A y \in x + 1 .. n : y \in Right PROVE x \in Right
  BY <1>1 DEF Agree
<1>2. 1 .. n \subseteq Right
  <2> HIDE DEF Right
  <2> QED
    BY <1>1, LastWrong
<1> QED
  BY <1>2 DEF Alike
-----------------------------------------------------------------------------
(* Concatenation is associative. *)
Associative(a, c, d) == (a \o c) \o d = a \o (c \o d)
LEMMA Assoc ==
  ASSUME NEW S, NEW a \in Seq(S), NEW c \in Seq(S), NEW d \in Seq(S)
  PROVE Associative(a, c, d)
BY ConcatAssociative DEF Associative

(* What FlattenSeq computes. *)
IsFlat(f, s, S) ==
    /\ f \in [1 .. Len(s) -> Seq(S)] /\ f[1] = s[1]
    /\ \A i \in 2 .. Len(s) : f[i] = f[i - 1] \o s[i]

(* FlattenSeq appends the sequences from the first to the last. *)
LEMMA FlattenIs ==
  ASSUME NEW S, NEW s \in Seq(Seq(S)), s # <<>>
  PROVE \E f : IsFlat(f, s, S) /\ FlattenSeq(s) = f[Len(s)]
<1> DEFINE n == Len(s)
           start == <<>>
           step == [i \in 1 .. n |-> [t \in Seq(S) |-> t \o s[i]]]
           At(f, i) == IF i = 1 THEN s[i] ELSE f[i - 1] \o s[i]
<1>1. n \in Nat /\ n # 0
  BY EmptySeq, LenProperties
<1>2. \A i \in 1 .. n : s[i] \in Seq(S)
  OBVIOUS
<1>3. PICK g \in [0 .. n -> Seq(S)] : g[0] = start /\ \A i \in 1 .. n : g[i] = step[i][g[i - 1]]
  <2>1. start \in Seq(S)
    OBVIOUS
  <2>2. step \in Steps(n, Seq(S))
    BY <1>2, ConcatProperties DEF Steps
  <2>3. \E g : IsScan(g, n, Seq(S), start, step)
    <3> HIDE DEF step, start, n
    <3> QED
      BY <1>1, <2>1, <2>2, ScanExists
  <2> QED
    BY <2>3 DEF IsScan
<1>4. ASSUME NEW i \in 1 .. n PROVE g[i] = At(g, i) /\ g[i] \in Seq(S) /\ g[i - 1] \in Seq(S)
  <2>1. i - 1 \in 0 .. n /\ i \in 0 .. n
    BY <1>1
  <2>2. g[i] = step[i][g[i - 1]] /\ g[i - 1] \in Seq(S) /\ g[i] \in Seq(S)
    BY <1>3, <2>1
  <2>3. g[i] = g[i - 1] \o s[i]
    BY <2>2
  <2>4. i = 1 => g[i] = s[i]
    <3>1. ASSUME i = 1 PROVE g[i] = <<>> \o s[i]
      <4>1. g[i - 1] = <<>>
        BY <1>3, <3>1
      <4> QED
        BY <2>3, <4>1
    <3>2. <<>> \o s[i] = s[i]
      BY <1>2, ConcatEmptySeq, Zenon
    <3> QED
      BY <3>1, <3>2
  <2> QED
    BY <2>2, <2>3, <2>4
<1> DEFINE h == [i \in 1 .. n |-> g[i]]
<1>5. h = [i \in 1 .. n |-> At(h, i)]
  <2>1. ASSUME NEW i \in 1 .. n PROVE g[i] = At(h, i)
    <3>1. CASE i = 1
      BY <1>4, <3>1
    <3>2. CASE i # 1
      <4>1. i - 1 \in 1 .. n /\ g[i] = g[i - 1] \o s[i]
        <5>1. g[i] = At(g, i)
          BY <1>4
        <5>2. g[i] = g[i - 1] \o s[i]
          BY <3>2, <5>1
        <5>3. i - 1 \in 1 .. n
          BY <1>1, <3>2
        <5> QED
          BY <5>2, <5>3
      <4>2. h[i - 1] = g[i - 1]
        BY <4>1
      <4> HIDE DEF h
      <4> QED
        BY <3>2, <4>1, <4>2
    <3> QED
      BY <3>1, <3>2
  <2> HIDE DEF At
  <2> QED
    BY <2>1, Zenon
<1> DEFINE f == CHOOSE f : f = [i \in 1 .. n |-> At(f, i)]
<1>6. FlattenSeq(s) = f[n]
  BY <1>1, Zenon DEF FlattenSeq
<1>7. f = [i \in 1 .. n |-> At(f, i)]
  <2> HIDE DEF At, h
  <2> QED
    BY <1>5
<1>8. \A i \in 1 .. n : f[i] = At(f, i)
  <2> HIDE DEF At, f
  <2> QED
    BY <1>7
<1>9. \A i \in 0 .. n : i = 0 \/ f[i] = g[i]
  <2> DEFINE Right == {i \in 0 .. n : i = 0 \/ f[i] = g[i]}
  <2>1. ASSUME NEW k \in 0 .. n, \A j \in 0 .. k - 1 : j \in Right PROVE k \in Right
    <3>1. CASE k = 0
      BY <3>1
    <3>2. CASE k = 1
      <4>1. k \in 1 .. n /\ f[k] = At(f, k) /\ g[k] = At(g, k)
        BY <1>4, <1>8, <3>2
      <4> HIDE DEF f
      <4> QED
        BY <3>2, <4>1
    <3>3. CASE k \notin {0, 1}
      <4>1. k \in 1 .. n /\ k - 1 \in 0 .. k - 1 /\ k - 1 # 0
        BY <3>3
      <4>2. k - 1 \in Right
        <5> HIDE DEF Right
        <5> QED
          BY <2>1, <4>1
      <4>3. f[k] = At(f, k) /\ g[k] = At(g, k)
        BY <1>4, <1>8, <4>1
      <4> HIDE DEF f
      <4> QED
        BY <3>3, <4>1, <4>2, <4>3
    <3> QED
      BY <3>1, <3>2, <3>3
  <2>2. 0 .. n \subseteq Right
    <3> HIDE DEF Right
    <3> QED
      BY <1>1, <2>1, FirstWrong
  <2> HIDE DEF f
  <2> QED
    BY <2>2
<1>10. f \in [1 .. n -> Seq(S)]
  <2>1. \A i \in 1 .. n : f[i] \in Seq(S)
    <3>1. ASSUME NEW i \in 1 .. n PROVE f[i] = g[i]
      <4>1. i \in 0 .. n /\ i # 0
        OBVIOUS
      <4> HIDE DEF f
      <4> QED
        BY <1>9, <4>1
    <3> HIDE DEF f
    <3> QED
      BY <3>1, <1>4
  <2>2. f = [i \in 1 .. n |-> f[i]]
    <3> HIDE DEF At, f
    <3> QED
      BY <1>7
  <2> HIDE DEF f
  <2> QED
    BY <2>1, <2>2
<1>11. f[1] = s[1] /\ \A i \in 2 .. n : f[i] = f[i - 1] \o s[i]
  <2>1. ASSUME NEW i \in 2 .. n PROVE i \in 1 .. n /\ i # 1
    OBVIOUS
  <2>2. 1 \in 1 .. n
    BY <1>1
  <2> HIDE DEF f
  <2> QED
    BY <1>8, <2>1, <2>2
<1> HIDE DEF f
<1> QED
  BY <1>6, <1>10, <1>11 DEF IsFlat

(* The joined parts from each one on. *)
IsRest(rest, s, S) ==
    /\ rest \in [1 .. Len(s) + 1 -> Seq(S)] /\ rest[Len(s) + 1] = <<>>
    /\ \A k \in 1 .. Len(s) : rest[k] = s[k] \o rest[k + 1]

(* So does whatever puts each sequence in front of what is behind it. *)
LEMMA FlattenFromBehind ==
  ASSUME NEW S, NEW s \in Seq(Seq(S)), NEW rest, IsRest(rest, s, S)
  PROVE FlattenSeq(s) = rest[1]
<1> DEFINE n == Len(s)
<1>1. n \in Nat /\ \A i \in 1 .. n : s[i] \in Seq(S)
  BY LenProperties
<1>2. rest \in [1 .. n + 1 -> Seq(S)] /\ rest[n + 1] = <<>> /\ \A k \in 1 .. n : rest[k] = s[k] \o rest[k + 1]
  BY DEF IsRest
<1>3. CASE s = <<>>
  <2>1. n = 0
    BY <1>3
  <2>2. FlattenSeq(s) = <<>>
    BY <1>3, <2>1, Zenon DEF FlattenSeq
  <2> QED
    BY <1>2, <2>1, <2>2
<1>4. CASE s # <<>>
  <2>1. PICK f : IsFlat(f, s, S) /\ FlattenSeq(s) = f[n]
    BY <1>4, FlattenIs
  <2>2. f \in [1 .. n -> Seq(S)] /\ f[1] = s[1] /\ \A i \in 2 .. n : f[i] = f[i - 1] \o s[i]
    BY <2>1 DEF IsFlat
  <2>3. n # 0
    BY <1>4, EmptySeq
  <2> HIDE DEF n
  <2> DEFINE Right == {i \in 0 .. n : i = 0 \/ f[i] \o rest[i + 1] = rest[1]}
  <2>4. ASSUME NEW k \in 0 .. n, \A j \in 0 .. k - 1 : j \in Right PROVE k \in Right
    <3>1. CASE k = 0
      BY <3>1
    <3>2. CASE k = 1
      <4>1. 1 \in 1 .. n
        BY <3>2
      <4>2. rest[1] = s[1] \o rest[1 + 1]
        BY <1>2, <4>1
      <4> QED
        BY <2>2, <3>2, <4>2
    <3>3. CASE k \notin {0, 1}
      <4>1. k \in 2 .. n /\ k \in 1 .. n /\ k - 1 \in 0 .. k - 1 /\ k - 1 # 0 /\ k - 1 \in 1 .. n /\ (k - 1) + 1 = k
            /\ k + 1 \in 1 .. n + 1
        BY <1>1, <3>3
      <4>2. f[k - 1] \o rest[k] = rest[1]
        <5>1. k - 1 \in Right
          <6> HIDE DEF Right
          <6> QED
            BY <2>4, <4>1
        <5> QED
          BY <4>1, <5>1
      <4>3. f[k] = f[k - 1] \o s[k] /\ rest[k] = s[k] \o rest[k + 1]
        BY <1>2, <2>2, <4>1
      <4>4. f[k - 1] \in Seq(S) /\ s[k] \in Seq(S) /\ rest[k + 1] \in Seq(S)
        BY <1>1, <1>2, <2>2, <4>1
      <4>5. (f[k - 1] \o s[k]) \o rest[k + 1] = f[k - 1] \o (s[k] \o rest[k + 1])
        <5>1. Associative(f[k - 1], s[k], rest[k + 1])
          BY <4>4, Assoc, Zenon
        <5> QED
          BY <5>1, Zenon DEF Associative
      <4> QED
        BY <4>2, <4>3, <4>5
    <3> QED
      BY <3>1, <3>2, <3>3
  <2>5. 0 .. n \subseteq Right
    <3> HIDE DEF Right
    <3> QED
      BY <1>1, <2>4, FirstWrong
  <2>6. f[n] \o rest[n + 1] = rest[1]
    <3>1. n \in Right
      <4> HIDE DEF Right
      <4> QED
        BY <1>1, <2>5
    <3> QED
      BY <2>3, <3>1
  <2>7. f[n] \in Seq(S)
    BY <1>1, <2>2, <2>3
  <2> QED
    BY <1>2, <2>1, <2>6, <2>7, ConcatEmptySeq DEF n
<1> QED
  BY <1>3, <1>4

(* What FlattenSeq yields is a sequence. *)
LEMMA FlattenType ==
  ASSUME NEW S, NEW s \in Seq(Seq(S))
  PROVE FlattenSeq(s) \in Seq(S)
<1>1. CASE s = <<>>
  BY <1>1, Zenon, EmptySeq DEF FlattenSeq
<1>2. CASE s # <<>>
  <2>1. PICK f : IsFlat(f, s, S) /\ FlattenSeq(s) = f[Len(s)]
    BY <1>2, FlattenIs
  <2>2. Len(s) \in 1 .. Len(s)
    BY <1>2, EmptySeq, LenProperties
  <2> QED
    BY <2>1, <2>2 DEF IsFlat
<1> QED
  BY <1>1, <1>2
-----------------------------------------------------------------------------
(* fmt.Sprintf. *)
Substituted(from, fmt, args, c, next) ==
    IF c > Len(fmt) THEN <<>>
    ELSE IF fmt[c] # "%" THEN <<fmt[c]>> \o from[c + 1][next]
    ELSE IF next <= Len(args) THEN args[next] \o from[c + 1][next + 1]
    ELSE from[c + 1][next]
Texts(fmt, args) == [1 .. Len(fmt) + 1 -> [1 .. Len(args) + 1 -> Seq(STRING)]]
IsSubstitution(from, fmt, args) ==
    /\ from \in Texts(fmt, args)
    /\ \A c \in 1 .. Len(fmt) + 1 : \A next \in 1 .. Len(args) + 1 :
         from[c][next] = Substituted(from, fmt, args, c, next)

(* What a step of the substitution yields has the right type, and depends  *)
(* on what is behind only.                                                 *)
LEMMA SubstitutedType ==
  ASSUME NEW fmt \in Seq(STRING), NEW args \in Seq(Seq(STRING)), NEW from \in Texts(fmt, args),
         NEW c \in 1 .. Len(fmt) + 1, NEW next \in 1 .. Len(args) + 1
  PROVE Substituted(from, fmt, args, c, next) \in Seq(STRING)
<1>0. Len(fmt) \in Nat /\ Len(args) \in Nat
  BY LenProperties
<1>1. CASE c > Len(fmt)
  BY <1>1 DEF Substituted
<1>2. CASE c <= Len(fmt)
  <2>1. c \in 1 .. Len(fmt) /\ c + 1 \in 1 .. Len(fmt) + 1 /\ ~(c > Len(fmt))
    BY <1>0, <1>2
  <2>2. fmt[c] \in STRING /\ <<fmt[c]>> \in Seq(STRING)
    BY <2>1
  <2>3. \A m \in 1 .. Len(args) + 1 : from[c + 1][m] \in Seq(STRING)
    BY <2>1 DEF Texts
  <2>4. next <= Len(args) => next + 1 \in 1 .. Len(args) + 1 /\ args[next] \in Seq(STRING)
    BY <1>0
  <2>5. <<fmt[c]>> \o from[c + 1][next] \in Seq(STRING)
    BY <2>2, <2>3
  <2>6. next <= Len(args) => args[next] \o from[c + 1][next + 1] \in Seq(STRING)
    BY <2>3, <2>4
  <2> QED
    BY <2>1, <2>3, <2>5, <2>6, Zenon DEF Substituted
<1> QED
  BY <1>0, <1>1, <1>2

(* It depends on what is behind only. *)
LEMMA SubstitutedAgrees ==
  ASSUME NEW fmt \in Seq(STRING), NEW args \in Seq(Seq(STRING)), NEW f, NEW g,
         NEW c \in 1 .. Len(fmt) + 1, NEW next, \A d \in c + 1 .. Len(fmt) + 1 : f[d] = g[d]
  PROVE Substituted(f, fmt, args, c, next) = Substituted(g, fmt, args, c, next)
<1>0. Len(fmt) \in Nat
  BY LenProperties
<1>1. CASE c > Len(fmt)
  BY <1>1, Zenon DEF Substituted
<1>2. CASE c <= Len(fmt)
  <2>1. c + 1 \in c + 1 .. Len(fmt) + 1
    BY <1>0, <1>2
  <2>2. f[c + 1] = g[c + 1]
    BY <2>1
  <2> QED
    BY <2>2, Zenon DEF Substituted
<1> QED
  BY <1>0, <1>1, <1>2

(* The recursion of substitute_format is well defined. *)
LEMMA SubstitutionExists ==
  ASSUME NEW fmt \in Seq(STRING), NEW args \in Seq(Seq(STRING))
  PROVE \E from : IsSubstitution(from, fmt, args) /\ substitute_format(fmt, args) = from[1][1]
<1> DEFINE n == Len(fmt) + 1
           m == Len(args) + 1
           G == Texts(fmt, args)
           Body(g, c) == [next \in 1 .. m |-> Substituted(g, fmt, args, c, next)]
           F == [g \in G |-> [c \in 1 .. n |-> Body(g, c)]]
           start == [c \in 1 .. n |-> [next \in 1 .. m |-> <<>>]]
<1>0. n \in Nat /\ m \in Nat
  BY LenProperties
<1>1. start \in G
  BY DEF Texts
<1>2. ASSUME NEW g \in G, NEW c \in 1 .. n PROVE Body(g, c) \in [1 .. m -> Seq(STRING)]
  BY SubstitutedType
<1>3. ASSUME NEW f, NEW g, NEW c \in 1 .. n, \A d \in c + 1 .. n : f[d] = g[d] PROVE Body(f, c) = Body(g, c)
  <2>1. \A next : Substituted(f, fmt, args, c, next) = Substituted(g, fmt, args, c, next)
    BY <1>3, SubstitutedAgrees
  <2> QED
    BY <2>1, Zenon
<1> HIDE DEF Body
<1>4. F \in [G -> G]
  <2>1. ASSUME NEW g \in G PROVE [c \in 1 .. n |-> Body(g, c)] \in G
    BY <1>2 DEF Texts
  <2> HIDE DEF G
  <2> QED
    BY <2>1
<1>5. \A g \in G : \A c \in 1 .. n : F[g][c] = Body(g, c)
  BY Zenon
<1>6. LooksAhead(F, G, n)
  <2> HIDE DEF F
  <2> QED
    BY <1>3, <1>5 DEF LooksAhead
<1>7. PICK g \in G : IsFixed(g, F, n)
  <2> HIDE DEF F, G, start
  <2> QED
    BY <1>0, <1>1, <1>4, <1>6, Recursion
<1>8. \A c \in 1 .. n : g[c] = Body(g, c)
  <2> HIDE DEF F
  <2> QED
    BY <1>5, <1>7 DEF IsFixed
<1>9. g = [c \in 1 .. n |-> Body(g, c)]
  <2>1. g = [c \in 1 .. n |-> g[c]]
    BY DEF Texts
  <2> QED
    BY <2>1, <1>8, Zenon
<1> DEFINE from == CHOOSE f : f = [c \in 1 .. n |-> Body(f, c)]
<1>10. substitute_format(fmt, args) = from[1][1]
  BY Zenon DEF substitute_format, Body, Substituted
<1>11. from = [c \in 1 .. n |-> Body(from, c)]
  BY <1>9
<1> HIDE DEF from
<1>12. \A c \in 1 .. n : from[c] = Body(from, c)
  BY <1>11
<1>13. Agree(from, g, n)
  BY <1>3, <1>8, <1>12, Zenon DEF Agree
<1>14. \A c \in 1 .. n : from[c] = g[c]
  BY <1>0, <1>13, AgreeAll DEF Alike
<1>15. from \in G
  <2>1. from = g
    <3>1. from = [c \in 1 .. n |-> from[c]] /\ g = [c \in 1 .. n |-> g[c]]
      BY <1>11, <1>9, <1>8, <1>12, Zenon
    <3> QED
      BY <3>1, <1>14, Zenon
  <2> QED
    BY <2>1
<1>16. IsSubstitution(from, fmt, args)
  <2>1. ASSUME NEW c \in 1 .. n, NEW next \in 1 .. m PROVE from[c][next] = Substituted(from, fmt, args, c, next)
    BY <1>12, Zenon DEF Body
  <2> QED
    BY <1>15, <2>1 DEF IsSubstitution
<1> QED
  BY <1>10, <1>16

(* What a format yields is a value. *)
LEMMA FormatType ==
  ASSUME NEW fmt \in Seq(STRING), NEW args \in Seq(Seq(STRING))
  PROVE substitute_format(fmt, args) \in Seq(STRING)
<1>1. PICK from : IsSubstitution(from, fmt, args) /\ substitute_format(fmt, args) = from[1][1]
  BY SubstitutionExists
<1>2. 1 \in 1 .. Len(fmt) + 1 /\ 1 \in 1 .. Len(args) + 1
  BY LenProperties
<1> QED
  BY <1>1, <1>2 DEF IsSubstitution, Texts

(* Counting placeholders, character by character. *)
LEMMA PlaceholdersGrow ==
  ASSUME NEW fmt, NEW c \in Nat
  PROVE /\ Placeholders(fmt, c) \in Nat /\ Placeholders(fmt, 0) = 0
        /\ c # 0 => Placeholders(fmt, c) = Placeholders(fmt, c - 1) + (IF fmt[c] = "%" THEN 1 ELSE 0)
        /\ \A e \in c .. Len(fmt) : Placeholders(fmt, c) <= Placeholders(fmt, e)
<1> DEFINE At(e) == {d \in 1 .. e : fmt[d] = "%"}
<1>1. \A e \in Nat : IsFiniteSet(At(e))
  <2>1. ASSUME NEW e \in Nat PROVE IsFiniteSet(At(e))
    <3>1. IsFiniteSet(1 .. e)
      BY FS_Interval
    <3> QED
      BY <3>1, FS_Subset
  <2> QED
    BY <2>1
<1>2. \A e \in Nat : Placeholders(fmt, e) = Cardinality(At(e)) /\ Placeholders(fmt, e) \in Nat
  BY <1>1, FS_CardinalityType DEF Placeholders
<1>3. Placeholders(fmt, 0) = 0
  <2>1. At(0) = {}
    OBVIOUS
  <2> HIDE DEF At
  <2> QED
    BY <1>2, <2>1, FS_EmptySet
<1>4. ASSUME c # 0 PROVE Placeholders(fmt, c) = Placeholders(fmt, c - 1) + (IF fmt[c] = "%" THEN 1 ELSE 0)
  <2>1. c - 1 \in Nat
    BY <1>4
  <2>2. CASE fmt[c] = "%"
    <3>1. At(c) = At(c - 1) \cup {c} /\ c \notin At(c - 1)
      BY <1>4, <2>2
    <3>2. Cardinality(At(c)) = Cardinality(At(c - 1)) + 1
      <4> HIDE DEF At
      <4> QED
        BY <1>1, <2>1, <3>1, FS_AddElement
    <3> QED
      BY <1>2, <2>1, <2>2, <3>2
  <2>3. CASE fmt[c] # "%"
    <3>1. At(c) = At(c - 1)
      BY <1>4, <2>3
    <3> HIDE DEF At
    <3> QED
      BY <1>2, <2>1, <2>3, <3>1
  <2> QED
    BY <2>2, <2>3
<1>5. ASSUME NEW e \in c .. Len(fmt) PROVE Placeholders(fmt, c) <= Placeholders(fmt, e)
  <2>1. e \in Nat /\ At(c) \subseteq At(e)
    OBVIOUS
  <2>2. Cardinality(At(c)) <= Cardinality(At(e))
    <3> HIDE DEF At
    <3> QED
      BY <1>1, <2>1, FS_Subset
  <2> QED
    BY <1>2, <2>1, <2>2
<1> QED
  BY <1>2, <1>3, <1>4, <1>5

(* With as many arguments as placeholders a format is what it means.        *)
LEMMA FormatMeans ==
  ASSUME NEW fmt \in Seq(STRING), NEW args \in Seq(Seq(STRING)), Placeholders(fmt, Len(fmt)) = Len(args)
  PROVE substitute_format(fmt, args) = Formatted(fmt, args)
<1> DEFINE n == Len(fmt)
           P(c) == Placeholders(fmt, c)
           Part(c) == IF fmt[c] = "%" THEN args[P(c)] ELSE <<fmt[c]>>
           parts == [c \in DOMAIN fmt |-> Part(c)]
<1>1. PICK from : IsSubstitution(from, fmt, args) /\ substitute_format(fmt, args) = from[1][1]
  BY SubstitutionExists
<1>2. n \in Nat /\ Len(args) \in Nat /\ DOMAIN fmt = 1 .. n
  BY LenProperties
<1>3. ASSUME NEW c \in 1 .. n
      PROVE /\ P(c) \in Nat /\ P(c - 1) \in Nat /\ P(c) <= Len(args)
            /\ P(c) = P(c - 1) + (IF fmt[c] = "%" THEN 1 ELSE 0)
  <2>1. c \in Nat /\ c - 1 \in Nat /\ c # 0 /\ n \in c .. n
    BY <1>2
  <2>2. P(c) <= P(n)
    BY <2>1, PlaceholdersGrow
  <2>3. P(c) \in Nat /\ P(c - 1) \in Nat
    BY <2>1, PlaceholdersGrow
  <2>4. P(c) = P(c - 1) + (IF fmt[c] = "%" THEN 1 ELSE 0)
    BY <2>1, PlaceholdersGrow
  <2> QED
    BY <2>2, <2>3, <2>4
<1>4. P(0) = 0
  BY PlaceholdersGrow
<1>5. ASSUME NEW c \in 1 .. n PROVE Part(c) \in Seq(STRING)
  <2>1. CASE fmt[c] = "%"
    <3>1. P(c) \in 1 .. Len(args)
      BY <1>3, <2>1
    <3> HIDE DEF P
    <3> QED
      BY <2>1, <3>1
  <2>2. CASE fmt[c] # "%"
    BY <2>2
  <2> QED
    BY <2>1, <2>2
<1>6. parts \in Seq(Seq(STRING)) /\ Len(parts) = n /\ \A c \in 1 .. n : parts[c] = Part(c)
  <2> HIDE DEF Part
  <2> QED
    BY <1>2, <1>5
<1> DEFINE rest == [c \in 1 .. n + 1 |-> from[c][P(c - 1) + 1]]
<1>7. ASSUME NEW c \in 1 .. n + 1 PROVE P(c - 1) + 1 \in 1 .. Len(args) + 1
  <2>1. CASE c = 1
    BY <1>2, <1>4, <2>1
  <2>2. CASE c # 1
    <3>1. c - 1 \in 1 .. n
      BY <1>2, <2>2
    <3>2. P(c - 1) \in Nat /\ P(c - 1) <= Len(args)
      BY <1>3, <3>1
    <3> QED
      BY <1>2, <3>2
  <2> QED
    BY <2>1, <2>2
<1>8. from \in [1 .. n + 1 -> [1 .. Len(args) + 1 -> Seq(STRING)]]
      /\ \A c \in 1 .. n + 1 : \A next \in 1 .. Len(args) + 1 : from[c][next] = Substituted(from, fmt, args, c, next)
  BY <1>1 DEF IsSubstitution, Texts
<1>9. rest \in [1 .. n + 1 -> Seq(STRING)]
  <2> HIDE DEF P
  <2> QED
    BY <1>7, <1>8
<1>10. rest[n + 1] = <<>>
  <2>1. n + 1 \in 1 .. n + 1 /\ n + 1 > n
    BY <1>2
  <2>2. rest[n + 1] = Substituted(from, fmt, args, n + 1, P(n + 1 - 1) + 1)
    BY <1>7, <1>8, <2>1
  <2> QED
    BY <2>1, <2>2, Zenon DEF Substituted
<1>11. ASSUME NEW c \in 1 .. n PROVE rest[c] = parts[c] \o rest[c + 1]
  <2>1. c \in 1 .. n + 1 /\ c + 1 \in 1 .. n + 1 /\ ~(c > n) /\ (c + 1) - 1 = c
    BY <1>2
  <2>2. rest[c] = Substituted(from, fmt, args, c, P(c - 1) + 1) /\ rest[c + 1] = from[c + 1][P(c) + 1]
    BY <1>7, <1>8, <2>1
  <2>3. CASE fmt[c] # "%"
    <3>1. P(c) = P(c - 1)
      BY <1>3, <2>3
    <3>2. Substituted(from, fmt, args, c, P(c - 1) + 1) = <<fmt[c]>> \o from[c + 1][P(c - 1) + 1]
      BY <2>1, <2>3, Zenon DEF Substituted
    <3> HIDE DEF rest, P
    <3> QED
      BY <1>6, <2>2, <2>3, <3>1, <3>2
  <2>4. CASE fmt[c] = "%"
    <3>1. P(c) = P(c - 1) + 1 /\ P(c) <= Len(args)
      BY <1>3, <2>4
    <3>2. Substituted(from, fmt, args, c, P(c)) = args[P(c)] \o from[c + 1][P(c) + 1]
      BY <2>1, <2>4, <3>1, Zenon DEF Substituted
    <3> HIDE DEF rest, P
    <3> QED
      BY <1>6, <2>2, <2>4, <3>1, <3>2
  <2> QED
    BY <2>3, <2>4
<1>12. IsRest(rest, parts, STRING)
  <2> HIDE DEF rest, parts
  <2> QED
    BY <1>6, <1>9, <1>10, <1>11 DEF IsRest
<1>13. FlattenSeq(parts) = rest[1]
  <2> HIDE DEF rest, parts
  <2> QED
    BY <1>6, <1>12, FlattenFromBehind
<1>14. rest[1] = from[1][1]
  <2>1. 1 \in 1 .. n + 1 /\ 1 - 1 = 0 /\ P(1 - 1) + 1 = 1
    BY <1>2, <1>4
  <2> QED
    BY <2>1
<1>15. Formatted(fmt, args) = FlattenSeq(parts)
  BY Zenon DEF Formatted
<1> QED
  BY <1>1, <1>13, <1>14, <1>15
-----------------------------------------------------------------------------
(* The first place with a mark. *)
LEMMA FirstOfSet ==
  ASSUME NEW T \in SUBSET Nat, T # {}, NEW i, i = CHOOSE j \in T : \A k \in T : j <= k
  PROVE i \in T /\ \A k \in T : i <= k
BY MinExists

(* Upto yields the first place with a mark, or the one behind the end. *)
LEMMA UptoIs ==
  ASSUME NEW b \in Seq(Token), NEW i \in 1 .. Len(b) + 1, NEW kinds
  PROVE /\ Upto(b, i, kinds) \in i .. Len(b) + 1
        /\ \A j \in i .. Upto(b, i, kinds) - 1 : b[j].k \notin kinds
        /\ Upto(b, i, kinds) <= Len(b) => b[Upto(b, i, kinds)].k \in kinds
<1> DEFINE at == {j \in i .. Len(b) : b[j].k \in kinds}
<1>0. Len(b) \in Nat
  BY LenProperties
<1>1. Upto(b, i, kinds) = IF at = {} THEN Len(b) + 1 ELSE CHOOSE j \in at : \A k \in at : j <= k
  BY DEF Upto
<1>2. CASE at = {}
  BY <1>0, <1>1, <1>2
<1>3. CASE at # {}
  <2>1. at \in SUBSET Nat
    OBVIOUS
  <2>2. PICK u : u = Upto(b, i, kinds)
    OBVIOUS
  <2>3. u \in at /\ \A k \in at : u <= k
    <3> HIDE DEF at
    <3> QED
      BY <1>1, <1>3, <2>1, <2>2, FirstOfSet
  <2>4. ASSUME NEW j \in i .. u - 1 PROVE b[j].k \notin kinds
    <3>1. j \in i .. Len(b) /\ ~(u <= j)
      BY <1>0, <2>3
    <3> QED
      BY <2>3, <3>1
  <2> QED
    BY <1>0, <2>2, <2>3, <2>4
<1> QED
  BY <1>2, <1>3

(* StepOver passes over a mark where one stands. *)
LEMMA StepOverIs ==
  ASSUME NEW b \in Seq(Token), NEW i \in 1 .. Len(b) + 1, NEW kind
  PROVE /\ StepOver(b, i, kind) \in i .. Len(b) + 1
        /\ Is(b, i, {kind}) => StepOver(b, i, kind) = i + 1
        /\ ~Is(b, i, {kind}) => StepOver(b, i, kind) = i
<1>0. Len(b) \in Nat
  BY LenProperties
<1>1. Is(b, i, {kind}) => i <= Len(b)
  BY DEF Is
<1>2. StepOver(b, i, kind) = IF Is(b, i, {kind}) THEN i + 1 ELSE i
  BY DEF StepOver
<1> QED
  BY <1>0, <1>1, <1>2
-----------------------------------------------------------------------------
(* Values and the arguments of calls. *)
IsVars(vars) == vars \in [DOMAIN vars -> Seq(STRING)]
ValuesAt(b, i) == {v \in [ok : BOOLEAN, out : Seq(STRING), i : i .. Len(b) + 1] : v.ok => v.i > i}
ArgsAt(b, i) == [ok : {TRUE}, out : Seq(Seq(STRING)), i : i .. Len(b) + 1]
ArgBehind(b, v) == StepOver(b, IF v.ok THEN v.i ELSE Upto(b, v.i, {",", ")"}), ",")
MoreArgs(v, rest) == Value(TRUE, (IF v.ok THEN <<v.out>> ELSE <<>>) \o rest.out, rest.i)
ArgsFrom(b, vars, args, i) ==
    IF i <= Len(b) /\ ~Is(b, i, {")"})
    THEN MoreArgs(ValueFrom(b, i, vars, args), args[ArgBehind(b, ValueFrom(b, i, vars, args))])
    ELSE Value(TRUE, <<>>, StepOver(b, i, ")"))
ArgFunctions(b) ==
    {g \in [1 .. Len(b) + 1 -> [ok : {TRUE}, out : Seq(Seq(STRING)), i : Nat]] :
        \A i \in 1 .. Len(b) + 1 : g[i] \in ArgsAt(b, i)}
IsArgs(args, b, vars) ==
    args \in ArgFunctions(b) /\ \A i \in 1 .. Len(b) + 1 : args[i] = ArgsFrom(b, vars, args, i)

(* The parts of a token. *)
LEMMA TokenTypes ==
  ASSUME NEW b \in Seq(Token), NEW i \in 1 .. Len(b)
  PROVE b[i].k \in STRING /\ b[i].v \in STRING /\ b[i].w \in Seq(STRING) /\ b[i].ws \in BOOLEAN
<1>1. b[i] \in Token
  BY LenProperties
<1> QED
  BY <1>1 DEF Token

(* What a call resolves to lies behind the call. *)
LEMMA ResolveType ==
  ASSUME NEW b \in Seq(Token), NEW name, NEW i \in 1 .. Len(b) + 1, NEW j \in 1 .. i - 1, NEW args \in ArgsAt(b, i)
  PROVE resolve_call(name, args) \in ValuesAt(b, j)
<1>0. Len(b) \in Nat
  BY LenProperties
<1>1. args.out \in Seq(Seq(STRING)) /\ args.i \in i .. Len(b) + 1
  BY DEF ArgsAt
<1>2. CASE name \in FormatNames /\ args.out # <<>>
  <2>1. args.out[1] \in Seq(STRING) /\ Tail(args.out) \in Seq(Seq(STRING))
    <3>1. PICK s \in Seq(Seq(STRING)) : s = args.out
      BY <1>1
    <3>2. s # <<>>
      BY <1>2, <3>1
    <3>3. s[1] \in Seq(STRING) /\ Tail(s) \in Seq(Seq(STRING))
      BY <3>2
    <3> QED
      BY <3>1, <3>3
  <2>2. substitute_format(args.out[1], Tail(args.out)) \in Seq(STRING)
    BY <2>1, FormatType
  <2>3. resolve_call(name, args) = [ok |-> TRUE, out |-> substitute_format(args.out[1], Tail(args.out)), i |-> args.i]
    BY <1>2 DEF resolve_call, Value
  <2>4. args.i \in j .. Len(b) + 1 /\ args.i > j
    BY <1>0, <1>1
  <2> QED
    BY <2>2, <2>3, <2>4 DEF ValuesAt
<1>3. CASE ~(name \in FormatNames /\ args.out # <<>>)
  <2>1. resolve_call(name, args) = [ok |-> FALSE, out |-> <<>>, i |-> args.i]
    BY <1>3, Zenon DEF resolve_call, Value
  <2>2. args.i \in j .. Len(b) + 1
    BY <1>0, <1>1
  <2> QED
    BY <2>1, <2>2 DEF ValuesAt
<1> QED
  BY <1>2, <1>3

(* A value lies at its place or behind it, and behind it if there is one. *)
LEMMA ValueFromType ==
  ASSUME NEW b \in Seq(Token), NEW vars, IsVars(vars), NEW args \in ArgFunctions(b), NEW i \in 1 .. Len(b) + 1
  PROVE ValueFrom(b, i, vars, args) \in ValuesAt(b, i)
<1>0. Len(b) \in Nat
  BY LenProperties
<1>1. CASE Is(b, i, {"str"})
  <2>1. i \in 1 .. Len(b)
    BY <1>0, <1>1 DEF Is
  <2>2. ValueFrom(b, i, vars, args) = [ok |-> TRUE, out |-> b[i].w, i |-> i + 1]
    BY <1>1, Zenon DEF ValueFrom, Value
  <2>3. b[i].w \in Seq(STRING) /\ i + 1 \in i .. Len(b) + 1 /\ i + 1 > i
    BY <1>0, <2>1, TokenTypes
  <2> QED
    BY <2>2, <2>3 DEF ValuesAt
<1>2. CASE ~Is(b, i, {"str"}) /\ ~Is(b, i, {"id"})
  <2>1. ValueFrom(b, i, vars, args) = [ok |-> FALSE, out |-> <<>>, i |-> i]
    BY <1>2, Zenon DEF ValueFrom, Value
  <2> QED
    BY <1>0, <2>1 DEF ValuesAt
<1>3. CASE ~Is(b, i, {"str"}) /\ Is(b, i, {"id"})
  <2>1. i \in 1 .. Len(b)
    BY <1>0, <1>3 DEF Is
  <2>2. CASE Is(b, i + 1, {"("})
    <3>1. i + 2 \in 1 .. Len(b) + 1 /\ i \in 1 .. (i + 2) - 1
      BY <1>0, <2>1, <2>2 DEF Is
    <3>2. args[i + 2] \in ArgsAt(b, i + 2)
      BY <3>1 DEF ArgFunctions
    <3>3. ValueFrom(b, i, vars, args) = resolve_call(b[i].v, args[i + 2])
      BY <1>3, <2>2, Zenon DEF ValueFrom
    <3> QED
      BY <3>1, <3>2, <3>3, ResolveType
  <2>3. CASE ~Is(b, i + 1, {"("})
    <3>1. i + 1 \in i .. Len(b) + 1 /\ i + 1 > i
      BY <1>0, <2>1
    <3>2. CASE b[i].v \in DOMAIN vars
      <4>1. ValueFrom(b, i, vars, args) = [ok |-> TRUE, out |-> vars[b[i].v], i |-> i + 1]
        BY <1>3, <2>3, <3>2, Zenon DEF ValueFrom, Value
      <4>2. vars[b[i].v] \in Seq(STRING)
        BY <3>2 DEF IsVars
      <4> QED
        BY <3>1, <4>1, <4>2 DEF ValuesAt
    <3>3. CASE b[i].v \notin DOMAIN vars
      <4>1. ValueFrom(b, i, vars, args) = [ok |-> FALSE, out |-> <<>>, i |-> i + 1]
        BY <1>3, <2>3, <3>3, Zenon DEF ValueFrom, Value
      <4> QED
        BY <3>1, <4>1 DEF ValuesAt
    <3> QED
      BY <3>2, <3>3
  <2> QED
    BY <2>2, <2>3
<1> QED
  BY <1>1, <1>2, <1>3

(* The next argument is behind this one: the arguments come to an end. *)
LEMMA ArgBehindIs ==
  ASSUME NEW b \in Seq(Token), NEW i \in 1 .. Len(b), ~Is(b, i, {")"}), NEW v \in ValuesAt(b, i)
  PROVE ArgBehind(b, v) \in i + 1 .. Len(b) + 1
<1>0. Len(b) \in Nat /\ v.ok \in BOOLEAN
  BY LenProperties DEF ValuesAt
<1>1. PICK k \in i .. Len(b) + 1 : k = v.i /\ (v.ok => k > i)
  BY DEF ValuesAt
<1>2. k \in 1 .. Len(b) + 1
  BY <1>0
<1>3. CASE v.ok
  <2>1. ArgBehind(b, v) = StepOver(b, k, ",")
    BY <1>1, <1>3, Zenon DEF ArgBehind
  <2>2. PICK j \in k .. Len(b) + 1 : j = StepOver(b, k, ",")
    BY <1>2, StepOverIs
  <2>3. j \in i + 1 .. Len(b) + 1
    BY <1>0, <1>1, <1>3
  <2> QED
    BY <2>1, <2>2, <2>3
<1>4. CASE ~v.ok
  <2>1. PICK u \in k .. Len(b) + 1 : u = Upto(b, k, {",", ")"}) /\ (u <= Len(b) => b[u].k \in {",", ")"})
    BY <1>2, UptoIs
  <2>2. ArgBehind(b, v) = StepOver(b, u, ",")
    BY <1>1, <1>4, <2>1, Zenon DEF ArgBehind
  <2>3. u \in 1 .. Len(b) + 1 /\ u >= i
    BY <1>0
  <2>4. PICK j \in u .. Len(b) + 1 : j = StepOver(b, u, ",") /\ (Is(b, u, {","}) => j = u + 1)
    BY <2>3, StepOverIs
  <2>5. CASE u = i
    <3>1. Is(b, u, {","})
      <4>1. u <= Len(b)
        BY <1>0, <2>5
      <4>2. b[u].k \in {",", ")"}
        BY <2>1, <4>1
      <4>3. b[u].k # ")"
        <5>1. ~(u <= Len(b) /\ b[u].k \in {")"})
          BY <2>5, Zenon DEF Is
        <5> QED
          BY <4>1, <5>1, Zenon
      <4>4. b[u].k \in {","}
        BY <4>2, <4>3, Zenon
      <4> QED
        BY <4>1, <4>4, Zenon DEF Is
    <3>2. j \in i + 1 .. Len(b) + 1
      <4>1. j = u + 1
        BY <2>4, <3>1, Zenon
      <4> QED
        BY <1>0, <2>5, <4>1
    <3> QED
      BY <2>2, <2>4, <3>2
  <2>6. CASE u # i
    <3>1. j \in i + 1 .. Len(b) + 1
      BY <1>0, <2>3, <2>6
    <3> QED
      BY <2>2, <2>4, <3>1
  <2> QED
    BY <2>5, <2>6
<1> QED
  BY <1>0, <1>3, <1>4

(* What a step over the arguments yields has the right type, and depends   *)
(* on what is behind only.                                                 *)
LEMMA ArgsFromType ==
  ASSUME NEW b \in Seq(Token), NEW vars, IsVars(vars), NEW args \in ArgFunctions(b), NEW i \in 1 .. Len(b) + 1
  PROVE ArgsFrom(b, vars, args, i) \in ArgsAt(b, i)
<1>0. Len(b) \in Nat
  BY LenProperties
<1>1. CASE i <= Len(b) /\ ~Is(b, i, {")"})
  <2>1. PICK v \in ValuesAt(b, i) : v = ValueFrom(b, i, vars, args)
    BY ValueFromType
  <2>2. PICK j \in i + 1 .. Len(b) + 1 : j = ArgBehind(b, v)
    BY <1>0, <1>1, ArgBehindIs
  <2>3. ArgsFrom(b, vars, args, i) = [ok |-> TRUE, out |-> (IF v.ok THEN <<v.out>> ELSE <<>>) \o args[j].out, i |-> args[j].i]
    BY <1>1, <2>1, <2>2, Zenon DEF ArgsFrom, MoreArgs, Value
  <2>4. args[j] \in ArgsAt(b, j)
    BY <1>0, <2>2 DEF ArgFunctions
  <2>5. args[j].out \in Seq(Seq(STRING)) /\ args[j].i \in i .. Len(b) + 1
    <3>1. PICK a \in ArgsAt(b, j) : a = args[j]
      BY <2>4
    <3>2. PICK m \in j .. Len(b) + 1 : m = a.i
      BY DEF ArgsAt
    <3>3. m \in i .. Len(b) + 1
      BY <1>0
    <3>4. a.out \in Seq(Seq(STRING))
      BY DEF ArgsAt
    <3> QED
      BY <3>1, <3>2, <3>3, <3>4
  <2>6. (IF v.ok THEN <<v.out>> ELSE <<>>) \in Seq(Seq(STRING))
    <3>1. PICK w \in Seq(STRING) : w = v.out
      BY DEF ValuesAt
    <3>2. <<w>> \in Seq(Seq(STRING)) /\ <<>> \in Seq(Seq(STRING))
      OBVIOUS
    <3> QED
      BY <3>1, <3>2, Zenon
  <2>7. (IF v.ok THEN <<v.out>> ELSE <<>>) \o args[j].out \in Seq(Seq(STRING))
    <3>1. PICK a \in Seq(Seq(STRING)) : a = (IF v.ok THEN <<v.out>> ELSE <<>>)
      BY <2>6
    <3>2. a \o args[j].out \in Seq(Seq(STRING))
      BY <2>5, ConcatProperties
    <3> QED
      BY <3>1, <3>2, Zenon
  <2> QED
    BY <2>3, <2>5, <2>7 DEF ArgsAt
<1>2. CASE ~(i <= Len(b) /\ ~Is(b, i, {")"}))
  <2>1. ArgsFrom(b, vars, args, i) = [ok |-> TRUE, out |-> <<>>, i |-> StepOver(b, i, ")")]
    BY <1>2, Zenon DEF ArgsFrom, Value
  <2>2. StepOver(b, i, ")") \in i .. Len(b) + 1
    BY StepOverIs
  <2> QED
    BY <2>1, <2>2 DEF ArgsAt
<1> QED
  BY <1>1, <1>2

(* It depends on the arguments behind its place only. *)
LEMMA ArgsFromAgrees ==
  ASSUME NEW b \in Seq(Token), NEW vars, IsVars(vars), NEW g \in ArgFunctions(b), NEW f, NEW i \in 1 .. Len(b) + 1,
         \A j \in i + 1 .. Len(b) + 1 : f[j] = g[j]
  PROVE ArgsFrom(b, vars, f, i) = ArgsFrom(b, vars, g, i)
<1>0. Len(b) \in Nat
  BY LenProperties
<1>1. ValueFrom(b, i, vars, f) = ValueFrom(b, i, vars, g)
  <2>1. CASE Is(b, i + 1, {"("})
    <3>1. i + 2 \in i + 1 .. Len(b) + 1
      BY <1>0, <2>1 DEF Is
    <3>2. f[i + 2] = g[i + 2]
      BY <3>1
    <3> QED
      BY <3>2, Zenon DEF ValueFrom
  <2>2. CASE ~Is(b, i + 1, {"("})
    BY <2>2, Zenon DEF ValueFrom
  <2> QED
    BY <2>1, <2>2
<1>2. CASE i <= Len(b) /\ ~Is(b, i, {")"})
  <2>1. PICK v \in ValuesAt(b, i) : v = ValueFrom(b, i, vars, g)
    BY ValueFromType
  <2>2. ArgBehind(b, v) \in i + 1 .. Len(b) + 1
    BY <1>0, <1>2, ArgBehindIs
  <2>3. f[ArgBehind(b, v)] = g[ArgBehind(b, v)]
    BY <2>2
  <2> QED
    BY <1>1, <2>1, <2>3, Zenon DEF ArgsFrom
<1>3. CASE ~(i <= Len(b) /\ ~Is(b, i, {")"}))
  BY <1>3, Zenon DEF ArgsFrom
<1> QED
  BY <1>2, <1>3

(* The recursion of read_call_args is well defined. *)
LEMMA ArgsAreRead ==
  ASSUME NEW b \in Seq(Token), NEW vars, IsVars(vars)
  PROVE IsArgs(read_call_args(b, vars), b, vars)
<1> DEFINE n == Len(b) + 1
           G == ArgFunctions(b)
           Body(g, i) == ArgsFrom(b, vars, g, i)
           F == [g \in G |-> [i \in 1 .. n |-> Body(g, i)]]
           start == [i \in 1 .. n |-> [ok |-> TRUE, out |-> <<>>, i |-> i]]
<1>0. n \in Nat /\ Len(b) \in Nat
  BY LenProperties
<1>1. start \in G
  <2>1. \A i \in 1 .. n : start[i] \in ArgsAt(b, i) /\ start[i] \in [ok : {TRUE}, out : Seq(Seq(STRING)), i : Nat]
    BY <1>0 DEF ArgsAt
  <2> QED
    BY <2>1 DEF ArgFunctions
<1>2. ASSUME NEW g \in G, NEW i \in 1 .. n PROVE Body(g, i) \in ArgsAt(b, i)
  BY ArgsFromType
<1>3. ASSUME NEW f, NEW g \in G, NEW i \in 1 .. n, \A j \in i + 1 .. n : f[j] = g[j] PROVE Body(f, i) = Body(g, i)
  BY <1>3, ArgsFromAgrees
<1>4. read_call_args(b, vars) = CHOOSE f : f = [i \in 1 .. n |-> Body(f, i)]
  BY Zenon DEF read_call_args, ArgsFrom, MoreArgs, ArgBehind
<1> HIDE DEF Body
<1>5. F \in [G -> G]
  <2>1. ASSUME NEW g \in G PROVE [i \in 1 .. n |-> Body(g, i)] \in G
    <3>1. ASSUME NEW i \in 1 .. n PROVE ArgsAt(b, i) \subseteq [ok : {TRUE}, out : Seq(Seq(STRING)), i : Nat]
      <4>1. i .. Len(b) + 1 \subseteq Nat
        BY <1>0
      <4> QED
        BY <4>1 DEF ArgsAt
    <3>2. \A i \in 1 .. n : Body(g, i) \in ArgsAt(b, i) /\ Body(g, i) \in [ok : {TRUE}, out : Seq(Seq(STRING)), i : Nat]
      BY <1>2, <3>1
    <3> QED
      BY <3>2 DEF ArgFunctions
  <2> HIDE DEF G
  <2> QED
    BY <2>1
<1>6. \A g \in G : \A i \in 1 .. n : F[g][i] = Body(g, i)
  BY Zenon
<1>7. LooksAhead(F, G, n)
  <2> HIDE DEF F, G
  <2> SUFFICES ASSUME NEW f \in G, NEW g \in G, NEW i \in 1 .. n, \A j \in i + 1 .. n : f[j] = g[j]
               PROVE F[f][i] = F[g][i]
    BY DEF LooksAhead
  <2>1. Body(f, i) = Body(g, i)
    BY <1>3
  <2> QED
    BY <1>6, <2>1
<1>8. PICK g \in G : IsFixed(g, F, n)
  <2> HIDE DEF F, G, start
  <2> QED
    BY <1>0, <1>1, <1>5, <1>7, Recursion
<1>9. \A i \in 1 .. n : g[i] = Body(g, i)
  <2> HIDE DEF F
  <2> QED
    BY <1>6, <1>8 DEF IsFixed
<1>10. g = [i \in 1 .. n |-> Body(g, i)]
  <2>1. g = [i \in 1 .. n |-> g[i]]
    BY DEF ArgFunctions
  <2> QED
    BY <2>1, <1>9, Zenon
<1> DEFINE args == CHOOSE f : f = [i \in 1 .. n |-> Body(f, i)]
<1>11. args = [i \in 1 .. n |-> Body(args, i)]
  BY <1>10
<1> HIDE DEF args
<1>12. \A i \in 1 .. n : args[i] = Body(args, i)
  BY <1>11
<1>13. Agree(args, g, n)
  BY <1>3, <1>9, <1>12, Zenon DEF Agree
<1>14. \A i \in 1 .. n : args[i] = g[i]
  BY <1>0, <1>13, AgreeAll DEF Alike
<1>15. args = g
  <2>1. args = [i \in 1 .. n |-> args[i]] /\ g = [i \in 1 .. n |-> g[i]]
    BY <1>11, <1>10, <1>9, <1>12, Zenon
  <2> QED
    BY <2>1, <1>14, Zenon
<1> QED
  BY <1>4, <1>9, <1>15 DEF IsArgs, Body, args
-----------------------------------------------------------------------------
(* The declarations. *)
LEMMA LastExists ==
  ASSUME NEW n \in Nat, NEW T \in SUBSET (1 .. n), T # {}
  PROVE \E i \in T : \A j \in T : j <= i
<1> DEFINE Mirrored == {m \in 0 .. n : n - m \in T}
<1>1. Mirrored # {} /\ Mirrored \in SUBSET Nat
  <2>1. PICK i \in T : TRUE
    OBVIOUS
  <2>2. n - i \in 0 .. n /\ n - (n - i) = i
    OBVIOUS
  <2>3. n - i \in Mirrored
    BY <2>2
  <2>4. 0 .. n \subseteq Nat
    OBVIOUS
  <2> QED
    BY <2>3, <2>4
<1>2. PICK m \in Mirrored : \A k \in Mirrored : m <= k
  <2> HIDE DEF Mirrored
  <2> QED
    BY <1>1, MinExists
<1>3. n - m \in T
  OBVIOUS
<1>4. ASSUME NEW j \in T PROVE j <= n - m
  <2>1. n - j \in 0 .. n /\ n - (n - j) = j
    OBVIOUS
  <2>2. n - j \in Mirrored
    BY <2>1
  <2>3. m <= n - j /\ m \in 0 .. n
    BY <1>2, <2>2
  <2> QED
    BY <2>1, <2>3
<1> QED
  BY <1>3, <1>4

(* extract_vars knows the names that have a literal, by the value of one   *)
(* of these.                                                               *)
Literals(decls, n) == {i \in DOMAIN decls : decls[i].name = n /\ Is(decls[i].rhs, 1, {"str"})}
Extracts(vars, decls, n, T) ==
    (n \in DOMAIN vars <=> T # {}) /\ (T # {} => \E i \in T : vars[n] = decls[i].rhs[1].w)
LEMMA ExtractIs ==
  ASSUME NEW decls \in Seq(Decl), NEW n
  PROVE Extracts(extract_vars(decls), decls, n, Literals(decls, n))
<1> DEFINE T == Literals(decls, n)
           literal == {i \in DOMAIN decls : Is(decls[i].rhs, 1, {"str"})}
           last(m) == CHOOSE i \in literal :
             decls[i].name = m /\ \A j \in literal : decls[j].name = m => j <= i
           names == {decls[i].name : i \in literal}
<1>1. extract_vars(decls) = [m \in names |-> decls[last(m)].rhs[1].w]
  BY Zenon DEF extract_vars
<1>2. T = {i \in literal : decls[i].name = n}
  BY DEF Literals
<1>7. T \in SUBSET (1 .. Len(decls)) /\ Len(decls) \in Nat
  BY LenProperties DEF Literals
<1> HIDE DEF T
<1>3. n \in names <=> T # {}
  BY <1>2
<1>4. ASSUME T # {} PROVE last(n) \in T
  <2>2. PICK i \in T : \A j \in T : j <= i
    BY <1>4, <1>7, LastExists
  <2>3. i \in literal /\ decls[i].name = n /\ \A j \in literal : decls[j].name = n => j <= i
    BY <1>2, <2>2
  <2> HIDE DEF literal
  <2>4. last(n) \in literal /\ decls[last(n)].name = n
    BY <2>3, Zenon
  <2> QED
    BY <1>2, <2>4
<1> HIDE DEF last, literal, names
<1>5. ASSUME n \in names PROVE extract_vars(decls)[n] = decls[last(n)].rhs[1].w
  BY <1>1, <1>5
<1>6. DOMAIN extract_vars(decls) = names
  BY <1>1
<1> QED
  BY <1>3, <1>4, <1>5, <1>6 DEF Extracts, T

(* What it yields are values by name. *)
LEMMA ExtractType ==
  ASSUME NEW decls \in Seq(Decl)
  PROVE IsVars(extract_vars(decls))
<1> DEFINE vars == extract_vars(decls)
<1>1. ASSUME NEW n \in DOMAIN vars PROVE vars[n] \in Seq(STRING)
  <2>1. PICK i \in Literals(decls, n) : vars[n] = decls[i].rhs[1].w
    BY <1>1, ExtractIs DEF Extracts
  <2>2. PICK rhs \in Seq(Token) : rhs = decls[i].rhs /\ Is(rhs, 1, {"str"})
    <3>1. i \in 1 .. Len(decls) /\ Is(decls[i].rhs, 1, {"str"})
      BY LenProperties DEF Literals
    <3>2. decls[i] \in Decl
      BY <3>1
    <3> QED
      BY <3>1, <3>2 DEF Decl
  <2>3. 1 \in 1 .. Len(rhs)
    BY <2>2, LenProperties DEF Is
  <2>4. rhs[1].w \in Seq(STRING)
    BY <2>3, TokenTypes
  <2> QED
    BY <2>1, <2>2, <2>4
<1>2. vars = [n \in DOMAIN vars |-> vars[n]]
  BY DEF extract_vars
<1> HIDE DEF vars
<1>3. vars \in [DOMAIN vars -> Seq(STRING)]
  BY <1>1, <1>2
<1> QED
  BY <1>3 DEF IsVars, vars

(* A name that the reader can know has the value that its declaration      *)
(* gives it.                                                               *)
LEMMA ExtractKnown ==
  ASSUME NEW decls \in Seq(Decl), NEW n, Known(decls, n)
  PROVE n \in DOMAIN extract_vars(decls) /\ extract_vars(decls)[n] = ValueOf(decls, n)
<1>1. PICK i \in Declared(decls, n) : Declared(decls, n) = {i} /\ Len(decls[i].rhs) = 1 /\ decls[i].rhs[1].k = "str"
  BY DEF Known
<1>2. i \in DOMAIN decls /\ decls[i].name = n
  BY <1>1 DEF Declared
<1>3. Is(decls[i].rhs, 1, {"str"})
  BY <1>1 DEF Is
<1>4. Literals(decls, n) = {i}
  BY <1>1, <1>2, <1>3 DEF Declared, Literals
<1>5. n \in DOMAIN extract_vars(decls) /\ \E j \in {i} : extract_vars(decls)[n] = decls[j].rhs[1].w
  BY <1>4, ExtractIs DEF Extracts
<1>6. ValueOf(decls, n) = decls[i].rhs[1].w
  <2>1. (CHOOSE j \in Declared(decls, n) : TRUE) = i
    BY <1>1
  <2> QED
    BY <2>1 DEF ValueOf
<1> QED
  BY <1>5, <1>6

(* A name that no declaration gives has none. *)
LEMMA ExtractUnknown ==
  ASSUME NEW decls \in Seq(Decl), NEW n, Declared(decls, n) = {}
  PROVE n \notin DOMAIN extract_vars(decls)
<1>1. Literals(decls, n) = {}
  BY DEF Declared, Literals
<1> QED
  BY <1>1, ExtractIs DEF Extracts
-----------------------------------------------------------------------------
(* A literal, a name and a call are read as what they mean.                 *)
LEMMA AtomRead ==
  ASSUME NEW decls \in Seq(Decl), NEW b \in Seq(Token), NEW i \in 1 .. Len(b), IsAtom(b, i, decls), NEW args
  PROVE /\ ValueFrom(b, i, extract_vars(decls), args) = Value(TRUE, AtomMeans(b, i, decls), i + 1)
        /\ AtomMeans(b, i, decls) \in Seq(STRING)
<1>1. CASE Is(b, i, {"str"})
  <2>1. b[i].k = "str"
    BY <1>1 DEF Is
  <2> QED
    BY <1>1, <2>1, TokenTypes, Zenon DEF ValueFrom, AtomMeans
<1>2. CASE ~Is(b, i, {"str"})
  <2>1. Is(b, i, {"id"}) /\ Known(decls, b[i].v) /\ ~Is(b, i + 1, {"("})
    BY <1>2 DEF IsAtom
  <2>2. b[i].k # "str"
    BY <2>1 DEF Is
  <2>3. b[i].v \in DOMAIN extract_vars(decls) /\ extract_vars(decls)[b[i].v] = ValueOf(decls, b[i].v)
    BY <2>1, ExtractKnown
  <2>4. ValueOf(decls, b[i].v) \in Seq(STRING)
    BY <2>3, ExtractType DEF IsVars
  <2> QED
    BY <1>2, <2>1, <2>2, <2>3, <2>4, Zenon DEF ValueFrom, AtomMeans
<1> QED
  BY <1>1, <1>2

(* A suffix is its first element in front of the next suffix. *)
Suffix(s, k) == SubSeq(s, k, Len(s))
SuffixStep(s, k) == Suffix(s, k) = <<s[k]>> \o Suffix(s, k + 1)
LEMMA SuffixStepHolds ==
  ASSUME NEW S, NEW s \in Seq(S), NEW k \in 1 .. Len(s)
  PROVE SuffixStep(s, k)
<1>1. Len(s) \in k .. Len(s)
  BY LenProperties
<1> QED
  BY <1>1, SubSeqRecursiveFirst DEF SuffixStep, Suffix

(* The first suffix is the sequence, the last is empty. *)
LEMMA SuffixEnds ==
  ASSUME NEW S, NEW s \in Seq(S)
  PROVE Suffix(s, 1) = s /\ Suffix(s, Len(s) + 1) = <<>>
<1>1. Len(s) \in Int /\ Len(s) + 1 \in Int /\ Len(s) < Len(s) + 1
  BY LenProperties
<1> QED
  BY <1>1, SubSeqFull, SubSeqEmpty DEF Suffix
-----------------------------------------------------------------------------
(* A term, read on its own. *)
LEMMA TermEndType ==
  ASSUME NEW t \in Term
  PROVE TermEnd(t) \in Nat
<1>1. t.at \in Nat /\ t.args \in Nat
  BY DEF Term
<1> QED
  BY <1>1 DEF TermEnd

(* A sum ends somewhere. *)
LEMMA SumEndType ==
  ASSUME NEW s \in Seq(Term), s # <<>>
  PROVE SumEnd(s) \in Nat
<1>1. Len(s) \in 1 .. Len(s)
  BY EmptySeq, LenProperties
<1>2. PICK t \in Term : t = s[Len(s)]
  BY <1>1
<1> QED
  BY <1>2, TermEndType, Zenon DEF SumEnd

(* A literal or a name is a token. *)
LEMMA AtomIsToken ==
  ASSUME NEW b \in Seq(Token), NEW i \in Nat, NEW decls, IsAtom(b, i, decls)
  PROVE i <= Len(b) /\ b[i].k \in {"str", "id"}
BY DEF IsAtom, Is

(* The arguments of a call, each at its place. *)
ArgMeans(b, t, decls) == [k \in 1 .. t.args |-> AtomMeans(b, Arg(t, k), decls)]
ArgIsRead(b, t, decls, k) ==
    read_call_args(b, extract_vars(decls))[Arg(t, k)] = Value(TRUE, Suffix(ArgMeans(b, t, decls), k), TermEnd(t))
(* The arguments of a call are read one by one, from the last to the       *)
(* first.                                                                  *)
LEMMA ArgsOfCall ==
  ASSUME NEW decls \in Seq(Decl), NEW b \in Seq(Token), NEW t \in Term, t.at # 0, IsCall(b, t, decls)
  PROVE /\ ArgMeans(b, t, decls) \in Seq(Seq(STRING)) /\ Len(ArgMeans(b, t, decls)) = t.args
        /\ \A k \in 1 .. t.args : ArgIsRead(b, t, decls, k)
        /\ TermEnd(t) <= Len(b) + 1
<1> DEFINE n == t.args
           vars == extract_vars(decls)
           means == ArgMeans(b, t, decls)
           args == read_call_args(b, vars)
<1>0. n \in Nat /\ n # 0 /\ t.at \in Nat /\ Len(b) \in Nat /\ TermEnd(t) = t.at + 2 * n + 2
  <2>1. n > 0
    BY Zenon DEF IsCall
  <2> QED
    BY <2>1, LenProperties DEF Term, TermEnd
<1>1. IsVars(vars) /\ IsArgs(args, b, vars)
  BY ExtractType, ArgsAreRead
<1>2. ASSUME NEW k \in 1 .. n
      PROVE /\ Arg(t, k) \in 1 .. Len(b) /\ Arg(t, k) + 1 \in 1 .. Len(b) /\ Arg(t, k) = t.at + 2 * k
            /\ IsAtom(b, Arg(t, k), decls) /\ ~Is(b, Arg(t, k), {")"})
            /\ Is(b, Arg(t, k) + 1, {IF k = n THEN ")" ELSE ","})
  <2>1. IsAtom(b, Arg(t, k), decls) /\ Is(b, Arg(t, k) + 1, {IF k = n THEN ")" ELSE ","})
    BY Zenon DEF IsCall
  <2>2. PICK a \in Nat : a = Arg(t, k) /\ a = t.at + 2 * k /\ a # 0
    BY <1>0 DEF Arg
  <2>3. a <= Len(b) /\ b[a].k \in {"str", "id"}
    BY <2>1, <2>2, AtomIsToken
  <2>4. a + 1 <= Len(b)
    BY <2>1, <2>2 DEF Is
  <2>5. ~Is(b, a, {")"})
    BY <2>3 DEF Is
  <2>6. a \in 1 .. Len(b) /\ a + 1 \in 1 .. Len(b)
    BY <1>0, <2>2, <2>3, <2>4
  <2> QED
    BY <2>1, <2>2, <2>5, <2>6
<1>3. ASSUME NEW k \in 1 .. n
      PROVE /\ AtomMeans(b, Arg(t, k), decls) \in Seq(STRING)
            /\ ValueFrom(b, Arg(t, k), vars, args) = Value(TRUE, AtomMeans(b, Arg(t, k), decls), Arg(t, k) + 1)
  BY <1>2, AtomRead
<1>4. means \in Seq(Seq(STRING)) /\ Len(means) = n /\ \A k \in 1 .. n : means[k] = AtomMeans(b, Arg(t, k), decls)
  <2>1. means \in [1 .. n -> Seq(STRING)]
    BY <1>3 DEF ArgMeans
  <2>2. \A k \in 1 .. n : means[k] = AtomMeans(b, Arg(t, k), decls)
    BY DEF ArgMeans
  <2> HIDE DEF means, n
  <2>3. means \in Seq(Seq(STRING)) /\ Len(means) = n
    BY <1>0, <2>1
  <2> QED
    BY <2>2, <2>3
<1>5. ASSUME NEW k \in 1 .. n
      PROVE args[Arg(t, k)] = Value(TRUE, <<means[k]>> \o args[StepOver(b, Arg(t, k) + 1, ",")].out,
                                    args[StepOver(b, Arg(t, k) + 1, ",")].i)
  <2>1. PICK a \in 1 .. Len(b) : a = Arg(t, k)
    BY <1>2
  <2>2. a <= Len(b) /\ ~Is(b, a, {")"}) /\ a \in 1 .. Len(b) + 1
    <3>1. ~Is(b, a, {")"})
      BY <1>2, <2>1, Zenon
    <3>2. a <= Len(b) /\ a \in 1 .. Len(b) + 1
      BY <1>0
    <3> QED
      BY <3>1, <3>2
  <2>3. args[a] = ArgsFrom(b, vars, args, a)
    BY <1>1, <2>2 DEF IsArgs
  <2>4. PICK v : v = ValueFrom(b, a, vars, args)
    OBVIOUS
  <2>5. v = [ok |-> TRUE, out |-> means[k], i |-> a + 1]
    BY <1>3, <1>4, <2>1, <2>4 DEF Value
  <2>6. v.ok /\ v.out = means[k] /\ v.i = a + 1
    BY <2>5
  <2>7. ArgBehind(b, v) = StepOver(b, a + 1, ",")
    BY <2>6, Zenon DEF ArgBehind
  <2> QED
    BY <2>1, <2>2, <2>3, <2>4, <2>6, <2>7, Zenon DEF ArgsFrom, MoreArgs
<1> DEFINE Right == {k \in 1 .. n : ArgIsRead(b, t, decls, k)}
<1>6. ASSUME NEW k \in 1 .. n, \A j \in k + 1 .. n : j \in Right PROVE k \in Right
  <2>0. Suffix(means, k) = <<means[k]>> \o Suffix(means, k + 1)
    BY <1>4, SuffixStepHolds DEF SuffixStep
  <2>1. PICK a \in 1 .. Len(b) : a = Arg(t, k) /\ a + 1 \in 1 .. Len(b) /\ a = t.at + 2 * k
    BY <1>2
  <2>2. a + 1 \in 1 .. Len(b) + 1
    BY <1>0, <2>1
  <2>3. CASE k = n
    <3>1. Is(b, a + 1, {")"})
      BY <1>2, <2>1, <2>3
    <3>2. ~Is(b, a + 1, {","})
      BY <3>1 DEF Is
    <3>3. StepOver(b, a + 1, ",") = a + 1
      BY <2>2, <3>2, StepOverIs
    <3>4. args[a + 1] = ArgsFrom(b, vars, args, a + 1)
      BY <1>1, <2>2 DEF IsArgs
    <3>5. args[a + 1] = Value(TRUE, <<>>, StepOver(b, a + 1, ")"))
      BY <3>1, <3>4, Zenon DEF ArgsFrom
    <3>6. StepOver(b, a + 1, ")") = (a + 1) + 1
      BY <2>2, <3>1, StepOverIs
    <3>7. (a + 1) + 1 = TermEnd(t)
      BY <1>0, <2>1, <2>3
    <3>8. args[a + 1].out = <<>> /\ args[a + 1].i = TermEnd(t)
      BY <3>5, <3>6, <3>7 DEF Value
    <3>9. Suffix(means, k + 1) = <<>>
      BY <1>4, <2>3, SuffixEnds
    <3>10. args[a] = Value(TRUE, Suffix(means, k), TermEnd(t))
      BY <1>5, <2>0, <2>1, <3>3, <3>8, <3>9, Zenon
    <3> QED
      BY <2>1, <3>10 DEF ArgIsRead
  <2>4. CASE k # n
    <3>1. Is(b, a + 1, {","})
      BY <1>2, <2>1, <2>4
    <3>2. StepOver(b, a + 1, ",") = (a + 1) + 1
      BY <2>2, <3>1, StepOverIs
    <3>3. k + 1 \in k + 1 .. n /\ (a + 1) + 1 = Arg(t, k + 1)
      <4>1. k + 1 \in k + 1 .. n
        BY <1>0, <2>4
      <4>2. Arg(t, k + 1) = t.at + 2 * (k + 1)
        BY DEF Arg
      <4> QED
        BY <1>0, <2>1, <4>1, <4>2
    <3>4. ArgIsRead(b, t, decls, k + 1)
      BY <1>6, <3>3
    <3>5. args[(a + 1) + 1] = [ok |-> TRUE, out |-> Suffix(means, k + 1), i |-> TermEnd(t)]
      BY <3>3, <3>4, Zenon DEF ArgIsRead, Value
    <3>6. args[(a + 1) + 1].out = Suffix(means, k + 1) /\ args[(a + 1) + 1].i = TermEnd(t)
      <4> HIDE DEF args, means
      <4> QED
        BY <3>5
    <3>7. args[a] = Value(TRUE, Suffix(means, k), TermEnd(t))
      BY <1>5, <2>0, <2>1, <3>2, <3>6, Zenon
    <3> QED
      BY <2>1, <3>7 DEF ArgIsRead
  <2> QED
    BY <2>3, <2>4
<1>7. 1 .. n \subseteq Right
  <2> HIDE DEF Right, n
  <2> QED
    BY <1>0, <1>6, LastWrong
<1>8. TermEnd(t) <= Len(b) + 1
  <2>0. n \in 1 .. n
    BY <1>0
  <2>1. Arg(t, n) + 1 \in 1 .. Len(b) /\ Arg(t, n) = t.at + 2 * n
    BY <1>2, <2>0, Zenon
  <2> QED
    BY <1>0, <2>1
<1> QED
  BY <1>4, <1>7, <1>8

(* A call is read as the formatted string that it means. *)
IsReadAs(b, at, vars, means, end) == read_value(b, at, vars) = Value(TRUE, means, end)
LEMMA CallRead ==
  ASSUME NEW decls \in Seq(Decl), NEW b \in Seq(Token), NEW t \in Term, t.at # 0, IsCall(b, t, decls)
  PROVE /\ IsReadAs(b, t.at, extract_vars(decls), TermMeans(b, t, decls), TermEnd(t))
        /\ TermMeans(b, t, decls) \in Seq(STRING)
<1> DEFINE n == t.args
           vars == extract_vars(decls)
           args == read_call_args(b, vars)
<1>0. n \in Nat /\ n # 0 /\ n - 1 \in Nat /\ t.at \in Nat
  <2>1. n > 0
    BY Zenon DEF IsCall
  <2> QED
    BY <2>1 DEF Term
<1>1. PICK means \in Seq(Seq(STRING)) : means = ArgMeans(b, t, decls) /\ Len(means) = n
  BY ArgsOfCall
<1>2. ArgIsRead(b, t, decls, 1)
  BY <1>0, ArgsOfCall
<1>3. Arg(t, 1) = t.at + 2
  BY <1>0 DEF Arg
<1>4. args[t.at + 2] = [ok |-> TRUE, out |-> means, i |-> TermEnd(t)]
  <2>1. Suffix(means, 1) = means
    BY SuffixEnds
  <2> QED
    BY <1>1, <1>2, <1>3, <2>1, Zenon DEF ArgIsRead, Value
<1>5. args[t.at + 2].out = means /\ args[t.at + 2].i = TermEnd(t)
  <2> HIDE DEF args
  <2> QED
    BY <1>4
<1>6. means # <<>>
  BY <1>0, <1>1, EmptySeq
<1>7. Is(b, t.at, {"id"}) /\ b[t.at].v \in FormatNames /\ Is(b, t.at + 1, {"("})
  BY Zenon DEF IsCall, IsName
<1>8. ~Is(b, t.at, {"str"})
  BY <1>7 DEF Is
<1>9. read_value(b, t.at, vars) = Value(TRUE, substitute_format(means[1], Tail(means)), TermEnd(t))
  BY <1>5, <1>6, <1>7, <1>8, Zenon DEF read_value, ValueFrom, resolve_call
<1>10. means[1] = AtomMeans(b, Arg(t, 1), decls) /\ Tail(means) = [k \in 1 .. n - 1 |-> AtomMeans(b, Arg(t, k + 1), decls)]
  <2>1. \A k \in 1 .. n : means[k] = AtomMeans(b, Arg(t, k), decls)
    BY <1>1 DEF ArgMeans
  <2>2. Tail(means) \in Seq(Seq(STRING)) /\ Len(Tail(means)) = n - 1 /\ \A k \in 1 .. n - 1 : Tail(means)[k] = means[k + 1]
    BY <1>0, <1>1, <1>6
  <2>3. PICK s \in Seq(Seq(STRING)) : s = Tail(means)
    BY <2>2
  <2>4. s = [k \in 1 .. n - 1 |-> s[k]]
    <3>1. Len(s) = n - 1 /\ DOMAIN s = 1 .. Len(s)
      BY <2>2, <2>3
    <3>2. s = [k \in DOMAIN s |-> s[k]]
      OBVIOUS
    <3> QED
      BY <3>1, <3>2, Zenon
  <2>5. \A k \in 1 .. n - 1 : s[k] = AtomMeans(b, Arg(t, k + 1), decls)
    <3>1. ASSUME NEW k \in 1 .. n - 1 PROVE s[k] = AtomMeans(b, Arg(t, k + 1), decls)
      <4>1. k + 1 \in 1 .. n
        BY <1>0
      <4> QED
        BY <2>1, <2>2, <2>3, <4>1
    <3> QED
      BY <3>1
  <2>6. Tail(means) = [k \in 1 .. n - 1 |-> AtomMeans(b, Arg(t, k + 1), decls)]
    BY <2>3, <2>4, <2>5, Zenon
  <2> QED
    BY <1>0, <2>1, <2>6
<1>11. means[1] \in Seq(STRING) /\ Tail(means) \in Seq(Seq(STRING)) /\ Len(Tail(means)) = n - 1
  BY <1>0, <1>1, <1>6
<1>12. Placeholders(means[1], Len(means[1])) = n - 1
  BY <1>10, Zenon DEF IsCall
<1>13. substitute_format(means[1], Tail(means)) = Formatted(means[1], Tail(means))
  <2>1. PICK fmt \in Seq(STRING) : fmt = means[1]
    BY <1>11
  <2>2. PICK rest \in Seq(Seq(STRING)) : rest = Tail(means)
    BY <1>11
  <2>3. Placeholders(fmt, Len(fmt)) = Len(rest)
    BY <1>11, <1>12, <2>1, <2>2
  <2>4. substitute_format(fmt, rest) = Formatted(fmt, rest)
    BY <2>3, FormatMeans
  <2> QED
    BY <2>1, <2>2, <2>4
<1>14. TermMeans(b, t, decls) = Formatted(means[1], Tail(means))
  BY <1>0, <1>10, Zenon DEF TermMeans
<1>15. substitute_format(means[1], Tail(means)) \in Seq(STRING)
  BY <1>11, FormatType
<1> QED
  BY <1>9, <1>13, <1>14, <1>15, Zenon DEF IsReadAs

(* A term is read as what it means, up to its end. *)
LEMMA TermRead ==
  ASSUME NEW decls \in Seq(Decl), NEW b \in Seq(Token), NEW t \in Term, t.at # 0, IsTerm(b, t, decls)
  PROVE /\ IsReadAs(b, t.at, extract_vars(decls), TermMeans(b, t, decls), TermEnd(t))
        /\ TermMeans(b, t, decls) \in Seq(STRING)
        /\ t.at \in 1 .. Len(b) /\ TermEnd(t) \in t.at + 1 .. Len(b) + 1 /\ b[t.at].k \in {"str", "id"}
<1>0. t.at \in Nat /\ t.args \in Nat /\ Len(b) \in Nat
  BY LenProperties DEF Term
<1>1. CASE IsCall(b, t, decls)
  <2>1. Is(b, t.at, {"id"})
    BY <1>1, Zenon DEF IsCall, IsName
  <2>2. t.at \in 1 .. Len(b) /\ b[t.at].k \in {"str", "id"}
    BY <1>0, <2>1 DEF Is
  <2>3. TermEnd(t) <= Len(b) + 1
    BY <1>1, ArgsOfCall
  <2>4. TermEnd(t) \in t.at + 1 .. Len(b) + 1
    BY <1>0, <2>3 DEF TermEnd
  <2> QED
    BY <1>1, <2>2, <2>4, CallRead
<1>2. CASE t.args = 0 /\ IsAtom(b, t.at, decls)
  <2>1. t.at \in 1 .. Len(b) /\ b[t.at].k \in {"str", "id"}
    BY <1>0, <1>2, AtomIsToken
  <2>2. TermMeans(b, t, decls) = AtomMeans(b, t.at, decls) /\ TermEnd(t) = t.at + 1
    BY <1>2 DEF TermMeans, TermEnd
  <2>3. TermEnd(t) \in t.at + 1 .. Len(b) + 1
    BY <1>0, <2>1, <2>2
  <2>4. AtomMeans(b, t.at, decls) \in Seq(STRING)
    BY <1>2, <2>1, AtomRead
  <2>5. ValueFrom(b, t.at, extract_vars(decls), read_call_args(b, extract_vars(decls))) = Value(TRUE, AtomMeans(b, t.at, decls), t.at + 1)
    BY <1>2, <2>1, AtomRead
  <2> QED
    BY <2>1, <2>2, <2>3, <2>4, <2>5 DEF IsReadAs, read_value
<1> QED
  BY <1>1, <1>2 DEF IsTerm
-----------------------------------------------------------------------------
(* Two functions that agree are one. *)
IsOn(f, n) == f = [i \in 1 .. n |-> f[i]]
LEMMA OnlyOne ==
  ASSUME NEW n \in Nat, NEW f, NEW g, IsOn(f, n), IsOn(g, n), Agree(f, g, n)
  PROVE f = g
<1>1. \A i \in 1 .. n : f[i] = g[i]
  BY AgreeAll DEF Alike
<1> QED
  BY <1>1, Zenon DEF IsOn

(* read_value has the type of a value at its place. *)
LEMMA ValueRead ==
  ASSUME NEW b \in Seq(Token), NEW vars, IsVars(vars), NEW i \in 1 .. Len(b) + 1
  PROVE read_value(b, i, vars) \in ValuesAt(b, i)
<1>1. read_call_args(b, vars) \in ArgFunctions(b)
  BY ArgsAreRead DEF IsArgs
<1> QED
  BY <1>1, ValueFromType DEF read_value

(* Values joined by "+", for the reader of a text and for that of an entry  *)
(* of a list alike.                                                        *)
Text == [ok : {TRUE}, out : Seq(STRING), i : Nat]
TextAt(b, i) == {v \in Text : v.i \in i .. Len(b) + 1}
Sum(b, v, f) == IF Is(b, v.i, {"+"}) THEN Joined(v, f[v.i + 1]) ELSE v
AddsUp(f, b, vars) ==
    /\ f \in [1 .. Len(b) + 1 -> Text]
    /\ \A i \in 1 .. Len(b) :
         b[i].k \in {"str", "id"} /\ read_value(b, i, vars).ok => f[i] = Sum(b, read_value(b, i, vars), f)

SumsTo(f, b, s, i, decls) ==
    /\ f[i] = Value(TRUE, SumMeans(b, s, decls), SumEnd(s))
    /\ SumMeans(b, s, decls) \in Seq(STRING)
    /\ i \in 1 .. Len(b) /\ SumEnd(s) \in i + 1 .. Len(b) + 1 /\ b[i].k \in {"str", "id"}

(* Whatever adds up values adds up the terms of a sum, from the last to    *)
(* the first.                                                              *)
LEMMA SumRead ==
  ASSUME NEW decls \in Seq(Decl), NEW b \in Seq(Token), NEW f, AddsUp(f, b, extract_vars(decls)),
         NEW i \in Nat, i # 0, NEW s \in Seq(Term), IsSum(b, s, i, decls)
  PROVE SumsTo(f, b, s, i, decls)
<1>n. PICK n \in Nat : n = Len(s)
  BY LenProperties
<1> DEFINE vars == extract_vars(decls)
           at(k) == s[k].at
           end(k) == TermEnd(s[k])
           means(k) == TermMeans(b, s[k], decls)
           parts == [k \in DOMAIN s |-> means(k)]
<1>0. n # 0 /\ Len(b) \in Nat
  <2>1. s # <<>>
    BY Zenon DEF IsSum
  <2> QED
    BY <1>n, <2>1, EmptySeq, LenProperties
<1>d. DOMAIN s = 1 .. n
  BY <1>n, LenProperties
<1>1. /\ at(1) = i /\ ~Is(b, end(n), {"+"}) /\ SumEnd(s) = end(n)
      /\ \A k \in 1 .. n : IsTerm(b, s[k], decls) /\ (k < n => Is(b, end(k), {"+"}) /\ at(k + 1) = end(k) + 1)
  BY <1>n, <1>d, Zenon DEF IsSum, SumEnd
<1>2. ASSUME NEW k \in 1 .. n PROVE s[k] \in Term /\ at(k) \in Nat /\ end(k) \in Nat
  <2>1. PICK t \in Term : t = s[k]
    BY <1>n
  <2>2. t.at \in Nat
    BY DEF Term
  <2>3. TermEnd(t) \in Nat
    BY TermEndType
  <2> QED
    BY <2>1, <2>2, <2>3
<1>3. ASSUME NEW k \in 1 .. n PROVE at(k) # 0
  <2>1. CASE k = 1
    BY <1>1, <2>1
  <2>2. CASE k # 1
    <3>1. k - 1 \in 1 .. n /\ k - 1 < n /\ (k - 1) + 1 = k
      BY <1>0, <2>2
    <3>2. at((k - 1) + 1) = end(k - 1) + 1
      BY <1>1, <3>1
    <3>3. end(k - 1) \in Nat
      BY <1>2, <3>1
    <3> HIDE DEF at, end
    <3> QED
      BY <3>1, <3>2, <3>3
  <2> QED
    BY <2>1, <2>2
<1>4. ASSUME NEW k \in 1 .. n
      PROVE /\ IsReadAs(b, at(k), vars, means(k), end(k)) /\ means(k) \in Seq(STRING)
            /\ at(k) \in 1 .. Len(b) /\ end(k) \in at(k) + 1 .. Len(b) + 1 /\ b[at(k)].k \in {"str", "id"}
  BY <1>1, <1>2, <1>3, TermRead
<1>5. parts \in Seq(Seq(STRING)) /\ Len(parts) = n /\ \A k \in 1 .. n : parts[k] = means(k)
  <2>1. parts = [k \in 1 .. n |-> means(k)]
    BY <1>d, Zenon
  <2> HIDE DEF means, parts
  <2>2. parts \in [1 .. n -> Seq(STRING)]
    BY <1>4, <2>1
  <2>3. \A k \in 1 .. n : parts[k] = means(k)
    BY <2>1
  <2> QED
    BY <2>2, <2>3
<1> HIDE DEF at, end, means
<1>6. ASSUME NEW k \in 1 .. n
      PROVE /\ k < n => f[at(k)] = Value(TRUE, means(k) \o f[at(k + 1)].out, f[at(k + 1)].i)
            /\ k = n => f[at(k)] = Value(TRUE, means(k), end(k))
  <2>1. PICK v : v = read_value(b, at(k), vars)
    OBVIOUS
  <2>2. v = Value(TRUE, means(k), end(k))
    BY <1>4, <2>1 DEF IsReadAs
  <2>3. v.ok /\ v.out = means(k) /\ v.i = end(k)
    BY <2>2 DEF Value
  <2>4. f[at(k)] = Sum(b, v, f)
    BY <1>4, <2>1, <2>3 DEF AddsUp
  <2>5. ASSUME k < n PROVE f[at(k)] = Value(TRUE, means(k) \o f[at(k + 1)].out, f[at(k + 1)].i)
    <3>1. Is(b, end(k), {"+"}) /\ at(k + 1) = end(k) + 1
      BY <1>1, <2>5
    <3> QED
      BY <2>3, <2>4, <3>1, Zenon DEF Sum, Joined
  <2>6. ASSUME k = n PROVE f[at(k)] = Value(TRUE, means(k), end(k))
    <3>1. ~Is(b, end(n), {"+"})
      BY <1>1, Zenon
    <3> QED
      BY <2>2, <2>3, <2>4, <2>6, <3>1, Zenon DEF Sum
  <2> QED
    BY <2>5, <2>6, Zenon
<1>7. ASSUME NEW k \in 1 .. n PROVE f[at(k)] \in Text
  <2>1. at(k) \in 1 .. Len(b) + 1
    BY <1>0, <1>4
  <2> QED
    BY <2>1 DEF AddsUp
<1>10. 1 \in 1 .. n /\ n \in 1 .. n
  BY <1>0
<1> DEFINE Right == {k \in 1 .. n : f[at(k)].i = end(n) /\ at(k) < end(n) /\ end(n) <= Len(b) + 1}
<1>8. ASSUME NEW k \in 1 .. n, \A j \in k + 1 .. n : j \in Right PROVE k \in Right
  <2>1. CASE k = n
    <3>1. f[at(k)] = Value(TRUE, means(k), end(k))
      BY <1>6, <2>1
    <3>2. f[at(k)].i = end(k)
      BY <3>1 DEF Value
    <3>3. at(k) \in 1 .. Len(b) /\ end(k) \in at(k) + 1 .. Len(b) + 1
      BY <1>4
    <3> QED
      BY <1>0, <2>1, <3>2, <3>3
  <2>2. CASE k # n
    <3>1. k < n /\ k + 1 \in k + 1 .. n
      BY <1>0, <2>2
    <3>2. k + 1 \in Right
      <4> HIDE DEF Right
      <4> QED
        BY <1>8, <3>1
    <3>3. f[at(k)] = Value(TRUE, means(k) \o f[at(k + 1)].out, f[at(k + 1)].i)
      BY <1>6, <3>1
    <3>4. f[at(k)].i = f[at(k + 1)].i
      BY <3>3 DEF Value
    <3>5. at(k) \in 1 .. Len(b) /\ end(k) \in at(k) + 1 .. Len(b) + 1 /\ at(k + 1) = end(k) + 1
      BY <1>1, <1>4, <3>1
    <3>6. end(n) \in Nat
      BY <1>10, <1>2 DEF end
    <3> QED
      BY <1>0, <3>2, <3>4, <3>5, <3>6
  <2> QED
    BY <2>1, <2>2
<1>9. 1 .. n \subseteq Right
  <2> HIDE DEF Right
  <2> QED
    BY <1>0, <1>8, LastWrong
<1> DEFINE rest == [k \in 1 .. n + 1 |-> IF k = n + 1 THEN <<>> ELSE f[at(k)].out]
<1>11. rest \in [1 .. n + 1 -> Seq(STRING)] /\ rest[n + 1] = <<>>
  <2>1. ASSUME NEW k \in 1 .. n + 1, k # n + 1 PROVE f[at(k)].out \in Seq(STRING)
    <3>1. k \in 1 .. n
      BY <1>0, <2>1
    <3>2. f[at(k)] \in Text
      BY <1>7, <3>1
    <3> QED
      BY <3>2 DEF Text
  <2>2. n + 1 \in 1 .. n + 1
    BY <1>0
  <2>3. <<>> \in Seq(STRING)
    OBVIOUS
  <2>4. rest[n + 1] = <<>>
    BY <2>2
  <2>5. ASSUME NEW k \in 1 .. n + 1 PROVE (IF k = n + 1 THEN <<>> ELSE f[at(k)].out) \in Seq(STRING)
    BY <2>1, <2>3, Zenon
  <2> QED
    BY <2>4, <2>5
<1>12. ASSUME NEW k \in 1 .. n PROVE rest[k] = parts[k] \o rest[k + 1]
  <2>1. k \in 1 .. n + 1 /\ k # n + 1 /\ k + 1 \in 1 .. n + 1
    BY <1>0
  <2>2. rest[k] = f[at(k)].out /\ (k + 1 # n + 1 => rest[k + 1] = f[at(k + 1)].out) /\ (k + 1 = n + 1 => rest[k + 1] = <<>>)
    BY <2>1
  <2>3. CASE k < n
    <3>0. f[at(k)] = Value(TRUE, means(k) \o f[at(k + 1)].out, f[at(k + 1)].i)
      BY <1>6, <2>3
    <3>1. f[at(k)].out = means(k) \o f[at(k + 1)].out
      BY <3>0 DEF Value
    <3>2. k + 1 # n + 1
      BY <1>0, <2>3
    <3> QED
      BY <1>5, <2>2, <3>1, <3>2, Zenon
  <2>4. CASE k = n
    <3>0. f[at(k)] = Value(TRUE, means(k), end(k))
      BY <1>6, <2>4
    <3>1. f[at(k)].out = means(k)
      BY <3>0 DEF Value
    <3>2. k + 1 = n + 1
      BY <1>0, <2>4
    <3>3. means(k) \o <<>> = means(k)
      BY <1>4, ConcatEmptySeq, Zenon
    <3> QED
      BY <1>5, <2>2, <3>1, <3>2, <3>3, Zenon
  <2>5. k < n \/ k = n
    OBVIOUS
  <2> QED
    BY <2>3, <2>4, <2>5, Zenon
<1>13. IsRest(rest, parts, STRING)
  <2> HIDE DEF rest, parts
  <2> QED
    BY <1>5, <1>11, <1>12 DEF IsRest
<1>14. SumMeans(b, s, decls) = rest[1]
  <2>1. SumMeans(b, s, decls) = FlattenSeq(parts)
    BY Zenon DEF SumMeans, means
  <2> HIDE DEF rest, parts
  <2> QED
    BY <1>5, <1>13, <2>1, FlattenFromBehind
<1>15. rest[1] = f[i].out /\ rest[1] \in Seq(STRING)
  <2>1. 1 \in 1 .. n + 1 /\ 1 # n + 1 /\ at(1) = i
    BY <1>0, <1>1 DEF at
  <2> QED
    BY <1>11, <2>1
<1>16. f[i] \in Text /\ f[i].i = SumEnd(s) /\ i < SumEnd(s) /\ SumEnd(s) <= Len(b) + 1
  <2>1. 1 \in Right /\ at(1) = i /\ end(n) = SumEnd(s)
    BY <1>1, <1>9, <1>10 DEF at, end
  <2> QED
    BY <1>7, <1>10, <2>1
<1>17. f[i] = Value(TRUE, SumMeans(b, s, decls), SumEnd(s))
  <2>1. PICK v \in Text : v = f[i]
    BY <1>16
  <2>2. v = [ok |-> TRUE, out |-> v.out, i |-> v.i]
    BY DEF Text
  <2> QED
    BY <1>14, <1>15, <1>16, <2>1, <2>2, Zenon DEF Value
<1>18. i \in 1 .. Len(b) /\ b[i].k \in {"str", "id"}
  <2>1. at(1) = i
    BY <1>1 DEF at
  <2> QED
    BY <1>4, <1>10, <2>1
<1>19. SumEnd(s) \in Nat
  BY <1>1, <1>2, <1>10 DEF end
<1> QED
  BY <1>0, <1>14, <1>15, <1>16, <1>17, <1>18, <1>19 DEF SumsTo

(* A step that looks ahead has a fixed point among functions on 1 .. n. *)
LEMMA FixedPoint ==
  ASSUME NEW n \in Nat, NEW G, NEW start \in G, NEW F \in [G -> G], LooksAhead(F, G, n),
         \A g \in G : IsOn(g, n)
  PROVE \E g \in G : g = F[g]
<1>1. PICK g \in G : IsFixed(g, F, n)
  BY Recursion
<1>2. F[g] \in G
  OBVIOUS
<1>3. IsOn(g, n) /\ IsOn(F[g], n)
  BY <1>2
<1>4. \A x \in 1 .. n : g[x] = F[g][x]
  BY <1>1 DEF IsFixed
<1>5. g = F[g]
  BY <1>3, <1>4, Zenon DEF IsOn
<1> QED
  BY <1>5

(* The reader of a text. *)
SumFrom(b, vars, f, i) ==
    IF ~read_value(b, i, vars).ok THEN Value(TRUE, <<>>, i) ELSE Sum(b, read_value(b, i, vars), f)
SumFunctions(b) == {g \in [1 .. Len(b) + 1 -> Text] : \A i \in 1 .. Len(b) + 1 : g[i] \in TextAt(b, i)}

(* What a step over a sum yields has the right type, and depends on what   *)
(* is behind only.                                                         *)
LEMMA SumFromType ==
  ASSUME NEW b \in Seq(Token), NEW vars, IsVars(vars), NEW f \in SumFunctions(b), NEW i \in 1 .. Len(b) + 1
  PROVE SumFrom(b, vars, f, i) \in TextAt(b, i)
<1>0. Len(b) \in Nat
  BY LenProperties
<1>1. PICK v \in ValuesAt(b, i) : v = read_value(b, i, vars)
  BY ValueRead
<1>2. PICK k \in i .. Len(b) + 1 : k = v.i
  BY DEF ValuesAt
<1>3. PICK out \in Seq(STRING) : out = v.out
  BY DEF ValuesAt
<1>4. CASE ~v.ok
  <2>1. SumFrom(b, vars, f, i) = [ok |-> TRUE, out |-> <<>>, i |-> i]
    BY <1>1, <1>4, Zenon DEF SumFrom, Value
  <2> QED
    BY <1>0, <2>1 DEF TextAt, Text
<1>5. CASE v.ok /\ ~Is(b, k, {"+"})
  <2>1. SumFrom(b, vars, f, i) = v
    BY <1>1, <1>2, <1>5, Zenon DEF SumFrom, Sum
  <2>2. v = [ok |-> TRUE, out |-> out, i |-> k]
    BY <1>2, <1>3, <1>5 DEF ValuesAt
  <2>3. k \in Nat
    BY <1>0
  <2> QED
    BY <2>1, <2>2, <2>3 DEF TextAt, Text
<1>6. CASE v.ok /\ Is(b, k, {"+"})
  <2>1. k + 1 \in 1 .. Len(b) + 1
    BY <1>0, <1>6 DEF Is
  <2>2. SumFrom(b, vars, f, i) = [ok |-> TRUE, out |-> out \o f[k + 1].out, i |-> f[k + 1].i]
    BY <1>1, <1>2, <1>3, <1>6, Zenon DEF SumFrom, Sum, Joined, Value
  <2>3. PICK w \in TextAt(b, k + 1) : w = f[k + 1]
    BY <2>1 DEF SumFunctions
  <2>4. PICK m \in k + 1 .. Len(b) + 1 : m = w.i
    BY DEF TextAt
  <2>5. w.out \in Seq(STRING)
    BY DEF TextAt, Text
  <2>6. out \o w.out \in Seq(STRING)
    BY <2>5, ConcatProperties
  <2>7. m \in i .. Len(b) + 1 /\ m \in Nat
    BY <1>0
  <2> QED
    BY <2>2, <2>3, <2>4, <2>6, <2>7 DEF TextAt, Text
<1> QED
  BY <1>4, <1>5, <1>6

(* It depends on the sums behind its place only. *)
LEMMA SumFromAgrees ==
  ASSUME NEW b \in Seq(Token), NEW vars, IsVars(vars), NEW f, NEW g, NEW i \in 1 .. Len(b) + 1,
         \A j \in i + 1 .. Len(b) + 1 : f[j] = g[j]
  PROVE SumFrom(b, vars, f, i) = SumFrom(b, vars, g, i)
<1>0. Len(b) \in Nat
  BY LenProperties
<1>1. PICK v \in ValuesAt(b, i) : v = read_value(b, i, vars)
  BY ValueRead
<1>2. PICK k \in i .. Len(b) + 1 : k = v.i
  BY DEF ValuesAt
<1>3. CASE Is(b, k, {"+"})
  <2>1. k + 1 \in i + 1 .. Len(b) + 1
    BY <1>0, <1>3 DEF Is
  <2>2. f[k + 1] = g[k + 1]
    BY <2>1
  <2> QED
    BY <1>1, <1>2, <2>2, Zenon DEF SumFrom, Sum
<1>4. CASE ~Is(b, k, {"+"})
  BY <1>1, <1>2, <1>4, Zenon DEF SumFrom, Sum
<1> QED
  BY <1>3, <1>4

(* The recursion of read_concat_expr is well defined. *)
IsSums(f, b, vars) ==
    /\ f \in SumFunctions(b) /\ \A i \in 1 .. Len(b) + 1 : f[i] = SumFrom(b, vars, f, i)
    /\ \A from : read_concat_expr(b, from, vars) = f[from]
LEMMA SumsAreRead ==
  ASSUME NEW b \in Seq(Token), NEW vars, IsVars(vars)
  PROVE \E f : IsSums(f, b, vars)
<1> DEFINE n == Len(b) + 1
           G == SumFunctions(b)
           Body(g, i) == SumFrom(b, vars, g, i)
           F == [g \in G |-> [i \in 1 .. n |-> Body(g, i)]]
           start == [i \in 1 .. n |-> [ok |-> TRUE, out |-> <<>>, i |-> i]]
<1>0. n \in Nat /\ Len(b) \in Nat
  BY LenProperties
<1>1. start \in G
  <2>1. \A i \in 1 .. n : start[i] \in TextAt(b, i) /\ start[i] \in Text
    BY <1>0 DEF TextAt, Text
  <2> QED
    BY <2>1 DEF SumFunctions
<1>2. ASSUME NEW g \in G, NEW i \in 1 .. n PROVE Body(g, i) \in TextAt(b, i)
  BY SumFromType
<1>3. ASSUME NEW f, NEW g \in G, NEW i \in 1 .. n, \A j \in i + 1 .. n : f[j] = g[j] PROVE Body(f, i) = Body(g, i)
  BY <1>3, SumFromAgrees
<1>4. \A from : read_concat_expr(b, from, vars) = (CHOOSE f : f = [i \in 1 .. n |-> Body(f, i)])[from]
  BY Zenon DEF read_concat_expr, SumFrom, Sum
<1> HIDE DEF Body
<1>5. F \in [G -> G]
  <2>1. ASSUME NEW g \in G PROVE [i \in 1 .. n |-> Body(g, i)] \in G
    BY <1>2 DEF SumFunctions, TextAt
  <2> HIDE DEF G
  <2> QED
    BY <2>1
<1>6. \A g \in G : F[g] = [i \in 1 .. n |-> Body(g, i)] /\ IsOn(g, n)
  <2>1. ASSUME NEW g \in G PROVE IsOn(g, n)
    BY DEF IsOn, SumFunctions, TextAt
  <2>2. \A g \in G : F[g] = [i \in 1 .. n |-> Body(g, i)]
    BY Zenon
  <2> QED
    BY <2>1, <2>2, Zenon
<1>7. LooksAhead(F, G, n)
  <2> HIDE DEF F, G
  <2> SUFFICES ASSUME NEW f \in G, NEW g \in G, NEW i \in 1 .. n, \A j \in i + 1 .. n : f[j] = g[j]
               PROVE F[f][i] = F[g][i]
    BY DEF LooksAhead
  <2>1. Body(f, i) = Body(g, i)
    BY <1>3
  <2>2. F[f][i] = Body(f, i) /\ F[g][i] = Body(g, i)
    BY <1>6
  <2> QED
    BY <2>1, <2>2, Zenon
<1>8. PICK g \in G : g = F[g]
  <2> HIDE DEF F, G, start, n
  <2>1. n \in Nat
    BY <1>0
  <2>2. \A g \in G : IsOn(g, n)
    BY <1>6, Zenon
  <2> QED
    BY <2>1, <2>2, <1>1, <1>5, <1>7, FixedPoint, Zenon
<1>9. g = [i \in 1 .. n |-> Body(g, i)]
  BY <1>6, <1>8, Zenon
<1> DEFINE f == CHOOSE f : f = [i \in 1 .. n |-> Body(f, i)]
<1>10. f = [i \in 1 .. n |-> Body(f, i)]
  BY <1>9
<1> HIDE DEF f
<1>11. \A i \in 1 .. n : f[i] = Body(f, i) /\ g[i] = Body(g, i)
  BY <1>9, <1>10
<1>12. Agree(f, g, n)
  BY <1>3, <1>11, Zenon DEF Agree
<1>13. f = g
  <2>1. IsOn(f, n)
    BY <1>10, <1>11, Zenon DEF IsOn
  <2> HIDE DEF n, G
  <2> QED
    BY <1>0, <1>6, <1>12, <2>1, OnlyOne
<1> QED
  BY <1>4, <1>11, <1>13 DEF IsSums, Body, f

(* What read_concat_expr yields is a text that ends at its place or behind *)
(* it.                                                                     *)
LEMMA ConcatType ==
  ASSUME NEW b \in Seq(Token), NEW vars, IsVars(vars), NEW i \in 1 .. Len(b) + 1
  PROVE read_concat_expr(b, i, vars) \in TextAt(b, i)
<1>1. PICK f : IsSums(f, b, vars)
  BY SumsAreRead
<1> QED
  BY <1>1 DEF IsSums, SumFunctions

(* A sum is read as what it means, up to its end. *)
LEMMA ConcatRead ==
  ASSUME NEW decls \in Seq(Decl), NEW b \in Seq(Token), NEW i \in Nat, i # 0,
         NEW s \in Seq(Term), IsSum(b, s, i, decls)
  PROVE /\ read_concat_expr(b, i, extract_vars(decls)) = Value(TRUE, SumMeans(b, s, decls), SumEnd(s))
        /\ SumMeans(b, s, decls) \in Seq(STRING) /\ i \in 1 .. Len(b) /\ SumEnd(s) \in i + 1 .. Len(b) + 1
<1> DEFINE vars == extract_vars(decls)
<1>1. PICK f : IsSums(f, b, vars)
  BY ExtractType, SumsAreRead
<1>2. f \in [1 .. Len(b) + 1 -> Text]
  BY <1>1 DEF IsSums, SumFunctions
<1>3. ASSUME NEW j \in 1 .. Len(b), read_value(b, j, vars).ok PROVE f[j] = Sum(b, read_value(b, j, vars), f)
  <2>1. j \in 1 .. Len(b) + 1
    BY LenProperties
  <2>2. f[j] = SumFrom(b, vars, f, j)
    BY <1>1, <2>1 DEF IsSums
  <2> QED
    BY <1>3, <2>2, Zenon DEF SumFrom
<1>4. AddsUp(f, b, vars)
  BY <1>2, <1>3 DEF AddsUp
<1>5. SumsTo(f, b, s, i, decls)
  BY <1>4, SumRead
<1> QED
  BY <1>1, <1>5 DEF IsSums, SumsTo
-----------------------------------------------------------------------------
(* The reader of an entry of a list. *)
Skipped(b, v, j) == IF v.i > j /\ b[v.i - 1].ws THEN v.i ELSE v.i + 1
EntryFrom(b, vars, f, j) ==
    IF j > Len(b) \/ Is(b, j, {","}) THEN Value(TRUE, <<>>, j)
    ELSE IF ~read_value(b, j, vars).ok THEN Value(TRUE, <<>>, Skipped(b, read_value(b, j, vars), j))
    ELSE Sum(b, read_value(b, j, vars), f)
Stuck(b) == {j \in 1 .. Len(b) + 1 : j > Len(b) \/ Is(b, j, {","})}
EntryAt(b, j) == {v \in Text : v.i \in j .. Len(b) + 2 /\ (j \notin Stuck(b) => v.i > j)}
EntryFunctions(b) == {g \in [1 .. Len(b) + 1 -> Text] : \A j \in 1 .. Len(b) + 1 : g[j] \in EntryAt(b, j)}

(* The values of WantEntry. *)
LEMMA EntryIn ==
  ASSUME NEW b \in Seq(Token), NEW i \in 1 .. Len(b) + 1, NEW out \in Seq(STRING), NEW m \in i .. Len(b) + 2,
         i \in Stuck(b) \/ m > i
  PROVE Value(TRUE, out, m) \in EntryAt(b, i)
<1>1. m \in Nat
  OBVIOUS
<1> QED
  BY <1>1 DEF EntryAt, Text, Value

(* What a step over an entry yields has the right type, and depends on     *)
(* what is behind only.                                                    *)
LEMMA EntryFromType ==
  ASSUME NEW b \in Seq(Token), NEW vars, IsVars(vars), NEW f \in EntryFunctions(b), NEW i \in 1 .. Len(b) + 1
  PROVE EntryFrom(b, vars, f, i) \in EntryAt(b, i)
<1>0. Len(b) \in Nat
  BY LenProperties
<1>1. PICK v \in ValuesAt(b, i) : v = read_value(b, i, vars)
  BY ValueRead
<1>2. PICK k \in i .. Len(b) + 1 : k = v.i
  BY DEF ValuesAt
<1>3. PICK out \in Seq(STRING) : out = v.out
  BY DEF ValuesAt
<1>s. i \in Stuck(b) <=> i > Len(b) \/ Is(b, i, {","})
  BY DEF Stuck
<1>4. CASE i \in Stuck(b)
  <2>1. EntryFrom(b, vars, f, i) = Value(TRUE, <<>>, i)
    BY <1>s, <1>4, Zenon DEF EntryFrom
  <2>2. i \in i .. Len(b) + 2 /\ <<>> \in Seq(STRING)
    BY <1>0
  <2> QED
    BY <1>4, <2>1, <2>2, EntryIn
<1>5. CASE i \notin Stuck(b) /\ ~v.ok
  <2>1. PICK j : j = Skipped(b, v, i)
    OBVIOUS
  <2>2. j \in i + 1 .. Len(b) + 2
    BY <1>0, <1>2, <2>1 DEF Skipped
  <2>3. EntryFrom(b, vars, f, i) = Value(TRUE, <<>>, j)
    BY <1>1, <1>s, <1>5, <2>1, Zenon DEF EntryFrom
  <2>4. j \in i .. Len(b) + 2 /\ j > i /\ <<>> \in Seq(STRING)
    BY <1>0, <2>2
  <2> QED
    BY <2>3, <2>4, EntryIn
<1>6. CASE i \notin Stuck(b) /\ v.ok /\ ~Is(b, k, {"+"})
  <2>1. EntryFrom(b, vars, f, i) = v
    BY <1>1, <1>2, <1>s, <1>6, Zenon DEF EntryFrom, Sum
  <2>2. v = Value(TRUE, out, k) /\ k > i
    BY <1>2, <1>3, <1>6 DEF ValuesAt, Value
  <2>3. k \in i .. Len(b) + 2
    BY <1>0
  <2> QED
    BY <2>1, <2>2, <2>3, EntryIn
<1>7. CASE i \notin Stuck(b) /\ v.ok /\ Is(b, k, {"+"})
  <2>0. k <= Len(b)
    BY <1>7, Zenon DEF Is
  <2>1. k + 1 \in 1 .. Len(b) + 1
    BY <1>0, <2>0
  <2>2. EntryFrom(b, vars, f, i) = Value(TRUE, out \o f[k + 1].out, f[k + 1].i)
    BY <1>1, <1>2, <1>3, <1>s, <1>7, Zenon DEF EntryFrom, Sum, Joined
  <2>3. PICK w \in EntryAt(b, k + 1) : w = f[k + 1]
    BY <2>1 DEF EntryFunctions
  <2>4. PICK m \in k + 1 .. Len(b) + 2 : m = w.i
    BY DEF EntryAt
  <2>5. w.out \in Seq(STRING)
    BY DEF EntryAt, Text
  <2>6. PICK o \in Seq(STRING) : o = out \o w.out
    BY <2>5, ConcatProperties
  <2>7. m \in i .. Len(b) + 2 /\ m > i
    BY <1>0
  <2>8. Value(TRUE, o, m) \in EntryAt(b, i)
    BY <2>7, EntryIn
  <2> QED
    BY <2>2, <2>3, <2>4, <2>6, <2>8, Zenon
<1> QED
  BY <1>4, <1>5, <1>6, <1>7

(* It depends on the entries behind its place only. *)
LEMMA EntryFromAgrees ==
  ASSUME NEW b \in Seq(Token), NEW vars, IsVars(vars), NEW f, NEW g, NEW i \in 1 .. Len(b) + 1,
         \A j \in i + 1 .. Len(b) + 1 : f[j] = g[j]
  PROVE EntryFrom(b, vars, f, i) = EntryFrom(b, vars, g, i)
<1>0. Len(b) \in Nat
  BY LenProperties
<1>1. PICK v \in ValuesAt(b, i) : v = read_value(b, i, vars)
  BY ValueRead
<1>2. PICK k \in i .. Len(b) + 1 : k = v.i
  BY DEF ValuesAt
<1>3. CASE Is(b, k, {"+"})
  <2>1. k + 1 \in i + 1 .. Len(b) + 1
    BY <1>0, <1>3 DEF Is
  <2>2. f[k + 1] = g[k + 1]
    BY <2>1
  <2> QED
    BY <1>1, <1>2, <2>2, Zenon DEF EntryFrom, Sum
<1>4. CASE ~Is(b, k, {"+"})
  BY <1>1, <1>2, <1>4, Zenon DEF EntryFrom, Sum
<1> QED
  BY <1>3, <1>4

(* The recursion of WantEntry is well defined. *)
IsEntries(f, b, vars) ==
    /\ f \in EntryFunctions(b) /\ \A i \in 1 .. Len(b) + 1 : f[i] = EntryFrom(b, vars, f, i)
    /\ \A from : WantEntry(b, from, vars) = f[from]
LEMMA EntriesAreRead ==
  ASSUME NEW b \in Seq(Token), NEW vars, IsVars(vars)
  PROVE \E f : IsEntries(f, b, vars)
<1> DEFINE n == Len(b) + 1
           G == EntryFunctions(b)
           Body(g, i) == EntryFrom(b, vars, g, i)
           F == [g \in G |-> [i \in 1 .. n |-> Body(g, i)]]
           start == [i \in 1 .. n |-> Value(TRUE, <<>>, i + 1)]
<1>0. n \in Nat /\ Len(b) \in Nat
  BY LenProperties
<1>1. start \in G
  <2>1. ASSUME NEW i \in 1 .. n PROVE Value(TRUE, <<>>, i + 1) \in EntryAt(b, i)
    <3>1. i + 1 \in i .. Len(b) + 2 /\ i + 1 > i /\ <<>> \in Seq(STRING)
      BY <1>0
    <3> QED
      BY <3>1, EntryIn
  <2> QED
    BY <2>1 DEF EntryFunctions, EntryAt
<1>2. ASSUME NEW g \in G, NEW i \in 1 .. n PROVE Body(g, i) \in EntryAt(b, i)
  BY EntryFromType
<1>3. ASSUME NEW f, NEW g \in G, NEW i \in 1 .. n, \A j \in i + 1 .. n : f[j] = g[j] PROVE Body(f, i) = Body(g, i)
  BY <1>3, EntryFromAgrees
<1>4. \A from : WantEntry(b, from, vars) = (CHOOSE f : f = [i \in 1 .. n |-> Body(f, i)])[from]
  BY Zenon DEF WantEntry, EntryFrom, Skipped, Sum
<1> HIDE DEF Body
<1>5. F \in [G -> G]
  <2>1. ASSUME NEW g \in G PROVE [i \in 1 .. n |-> Body(g, i)] \in G
    BY <1>2 DEF EntryFunctions, EntryAt
  <2> HIDE DEF G
  <2> QED
    BY <2>1
<1>6. \A g \in G : F[g] = [i \in 1 .. n |-> Body(g, i)] /\ IsOn(g, n)
  <2>1. ASSUME NEW g \in G PROVE IsOn(g, n)
    BY DEF IsOn, EntryFunctions, EntryAt
  <2>2. \A g \in G : F[g] = [i \in 1 .. n |-> Body(g, i)]
    BY Zenon
  <2> QED
    BY <2>1, <2>2, Zenon
<1>7. LooksAhead(F, G, n)
  <2> HIDE DEF F, G
  <2> SUFFICES ASSUME NEW f \in G, NEW g \in G, NEW i \in 1 .. n, \A j \in i + 1 .. n : f[j] = g[j]
               PROVE F[f][i] = F[g][i]
    BY DEF LooksAhead
  <2>1. Body(f, i) = Body(g, i)
    BY <1>3
  <2>2. F[f][i] = Body(f, i) /\ F[g][i] = Body(g, i)
    BY <1>6
  <2> QED
    BY <2>1, <2>2, Zenon
<1>8. PICK g \in G : g = F[g]
  <2> HIDE DEF F, G, start, n
  <2>1. n \in Nat
    BY <1>0
  <2>2. \A g \in G : IsOn(g, n)
    BY <1>6, Zenon
  <2> QED
    BY <2>1, <2>2, <1>1, <1>5, <1>7, FixedPoint, Zenon
<1>9. g = [i \in 1 .. n |-> Body(g, i)]
  BY <1>6, <1>8, Zenon
<1> DEFINE f == CHOOSE f : f = [i \in 1 .. n |-> Body(f, i)]
<1>10. f = [i \in 1 .. n |-> Body(f, i)]
  BY <1>9
<1> HIDE DEF f
<1>11. \A i \in 1 .. n : f[i] = Body(f, i) /\ g[i] = Body(g, i)
  BY <1>9, <1>10
<1>12. Agree(f, g, n)
  BY <1>3, <1>11, Zenon DEF Agree
<1>13. f = g
  <2>1. IsOn(f, n)
    BY <1>10, <1>11, Zenon DEF IsOn
  <2> HIDE DEF n, G
  <2> QED
    BY <1>0, <1>6, <1>12, <2>1, OnlyOne
<1> QED
  BY <1>4, <1>11, <1>13 DEF IsEntries, Body, f

(* An entry ends behind its place, if one starts there. *)
LEMMA EntryType ==
  ASSUME NEW b \in Seq(Token), NEW vars, IsVars(vars), NEW i \in 1 .. Len(b) + 1
  PROVE WantEntry(b, i, vars) \in EntryAt(b, i)
<1>1. PICK f : IsEntries(f, b, vars)
  BY EntriesAreRead
<1> QED
  BY <1>1 DEF IsEntries, EntryFunctions

(* A sum in a list is read as what it means, up to its end. *)
LEMMA EntryRead ==
  ASSUME NEW decls \in Seq(Decl), NEW b \in Seq(Token), NEW i \in Nat, i # 0,
         NEW s \in Seq(Term), IsSum(b, s, i, decls)
  PROVE /\ WantEntry(b, i, extract_vars(decls)) = Value(TRUE, SumMeans(b, s, decls), SumEnd(s))
        /\ SumMeans(b, s, decls) \in Seq(STRING) /\ i \in 1 .. Len(b) /\ SumEnd(s) \in i + 1 .. Len(b) + 1
        /\ b[i].k \in {"str", "id"}
<1> DEFINE vars == extract_vars(decls)
<1>1. PICK f : IsEntries(f, b, vars)
  BY ExtractType, EntriesAreRead
<1>2. f \in [1 .. Len(b) + 1 -> Text]
  BY <1>1 DEF IsEntries, EntryFunctions
<1>3. ASSUME NEW j \in 1 .. Len(b), b[j].k \in {"str", "id"}, read_value(b, j, vars).ok
      PROVE f[j] = Sum(b, read_value(b, j, vars), f)
  <2>1. j \in 1 .. Len(b) + 1 /\ ~(j > Len(b))
    BY LenProperties
  <2>3. ~Is(b, j, {","})
    BY <1>3 DEF Is
  <2>2. f[j] = EntryFrom(b, vars, f, j)
    BY <1>1, <2>1 DEF IsEntries
  <2> QED
    BY <1>3, <2>1, <2>2, <2>3, Zenon DEF EntryFrom
<1>4. AddsUp(f, b, vars)
  BY <1>2, <1>3 DEF AddsUp
<1>5. SumsTo(f, b, s, i, decls)
  BY <1>4, SumRead
<1> QED
  BY <1>1, <1>5 DEF IsEntries, SumsTo
-----------------------------------------------------------------------------
(* The entries of a list. *)
Words == Seq(Seq(STRING))
WordsFrom(b, end, vars, f, j) ==
    IF j >= end THEN <<>>
    ELSE IF b[j].k = "," THEN f[j + 1]
    ELSE (IF WantEntry(b, j, vars).out = <<>> THEN <<>> ELSE <<WantEntry(b, j, vars).out>>)
           \o f[WantEntry(b, j, vars).i]
WordFunctions(b) == [1 .. Len(b) + 2 -> Words]

(* Places in a text and behind it. *)
LEMMA WithinOne ==
  ASSUME NEW n \in Nat, NEW i \in 1 .. n
  PROVE i \in 1 .. n + 1 /\ ~(i > n)
OBVIOUS

(* Where an entry starts, the walk over the entries goes on. *)
LEMMA NotStuck ==
  ASSUME NEW b \in Seq(Token), NEW i \in 1 .. Len(b), b[i].k # ","
  PROVE i \in 1 .. Len(b) + 1 /\ i \notin Stuck(b)
<1>n. Len(b) \in Nat
  BY LenProperties
<1>0. i \in 1 .. Len(b) + 1 /\ ~(i > Len(b))
  BY <1>n, WithinOne, Zenon
<1>1. ~Is(b, i, {","})
  BY DEF Is
<1> QED
  BY <1>0, <1>1 DEF Stuck

(* What a step over a list yields has the right type, and depends on what  *)
(* is behind only.                                                         *)
LEMMA WordsFromType ==
  ASSUME NEW b \in Seq(Token), NEW vars, IsVars(vars), NEW end \in 0 .. Len(b), NEW f \in WordFunctions(b),
         NEW i \in 1 .. Len(b) + 2
  PROVE WordsFrom(b, end, vars, f, i) \in Words
<1>0. Len(b) \in Nat
  BY LenProperties
<1>1. CASE i >= end
  BY <1>1 DEF WordsFrom, Words
<1>2. CASE ~(i >= end)
  <2>1. i \in 1 .. Len(b) /\ i + 1 \in 1 .. Len(b) + 2 /\ i \in 1 .. Len(b) + 1
    BY <1>0, <1>2
  <2>2. CASE b[i].k = ","
    <3>1. WordsFrom(b, end, vars, f, i) = f[i + 1]
      BY <1>2, <2>2, Zenon DEF WordsFrom
    <3> QED
      BY <2>1, <3>1 DEF WordFunctions
  <2>3. CASE b[i].k # ","
    <3>1. PICK e \in EntryAt(b, i) : e = WantEntry(b, i, vars)
      BY <2>1, EntryType
    <3>2. PICK m \in i .. Len(b) + 2 : m = e.i
      BY DEF EntryAt
    <3>3. PICK out \in Seq(STRING) : out = e.out
      BY DEF EntryAt, Text
    <3>4. WordsFrom(b, end, vars, f, i) = (IF out = <<>> THEN <<>> ELSE <<out>>) \o f[m]
      BY <1>2, <2>3, <3>1, <3>2, <3>3, Zenon DEF WordsFrom
    <3>5. (IF out = <<>> THEN <<>> ELSE <<out>>) \in Words
      <4>1. <<>> \in Words /\ <<out>> \in Words
        BY DEF Words
      <4> QED
        BY <4>1, Zenon
    <3>6. f[m] \in Words
      <4>1. m \in 1 .. Len(b) + 2
        BY <1>0
      <4> QED
        BY <4>1 DEF WordFunctions
    <3>7. PICK a \in Words : a = (IF out = <<>> THEN <<>> ELSE <<out>>)
      BY <3>5
    <3>8. a \o f[m] \in Words
      BY <3>6, ConcatProperties DEF Words
    <3> QED
      BY <3>4, <3>7, <3>8, Zenon
  <2> QED
    BY <2>2, <2>3
<1> QED
  BY <1>1, <1>2

(* It depends on the words behind its place only. *)
LEMMA WordsFromAgrees ==
  ASSUME NEW b \in Seq(Token), NEW vars, IsVars(vars), NEW end \in 0 .. Len(b), NEW f, NEW g,
         NEW i \in 1 .. Len(b) + 2, \A j \in i + 1 .. Len(b) + 2 : f[j] = g[j]
  PROVE WordsFrom(b, end, vars, f, i) = WordsFrom(b, end, vars, g, i)
<1>0. Len(b) \in Nat
  BY LenProperties
<1>1. CASE i >= end
  BY <1>1, Zenon DEF WordsFrom
<1>2. CASE ~(i >= end)
  <2>1. i \in 1 .. Len(b) /\ i + 1 \in i + 1 .. Len(b) + 2
    BY <1>0, <1>2
  <2>2. f[i + 1] = g[i + 1]
    BY <2>1
  <2>3. CASE b[i].k = ","
    BY <1>2, <2>2, <2>3, Zenon DEF WordsFrom
  <2>4. CASE b[i].k # ","
    <3>1. i \in 1 .. Len(b) + 1 /\ i \notin Stuck(b)
      BY <2>1, <2>4, NotStuck
    <3>2. PICK e \in EntryAt(b, i) : e = WantEntry(b, i, vars)
      BY <3>1, EntryType
    <3>3. PICK m \in i .. Len(b) + 2 : m = e.i /\ m > i
      BY <3>1 DEF EntryAt
    <3>4. m \in i + 1 .. Len(b) + 2
      BY <1>0, <3>3
    <3>5. f[m] = g[m]
      BY <3>4
    <3> QED
      BY <1>2, <2>4, <3>2, <3>3, <3>5, Zenon DEF WordsFrom
  <2> QED
    BY <2>3, <2>4
<1> QED
  BY <1>1, <1>2

(* The recursion of Wants is well defined. *)
IsWords(f, b, end, vars) ==
    f \in WordFunctions(b) /\ \A i \in 1 .. Len(b) + 2 : f[i] = WordsFrom(b, end, vars, f, i)
LEMMA WordsAreRead ==
  ASSUME NEW b \in Seq(Token), NEW vars, IsVars(vars), NEW end \in 0 .. Len(b)
  PROVE IsWords(Wants(b, end, vars), b, end, vars)
<1> DEFINE n == Len(b) + 2
           G == WordFunctions(b)
           Body(g, i) == WordsFrom(b, end, vars, g, i)
           F == [g \in G |-> [i \in 1 .. n |-> Body(g, i)]]
           start == [i \in 1 .. n |-> <<>>]
<1>0. n \in Nat /\ Len(b) \in Nat
  BY LenProperties
<1>1. start \in G
  BY DEF WordFunctions, Words
<1>2. ASSUME NEW g \in G, NEW i \in 1 .. n PROVE Body(g, i) \in Words
  BY WordsFromType
<1>3. ASSUME NEW f, NEW g \in G, NEW i \in 1 .. n, \A j \in i + 1 .. n : f[j] = g[j] PROVE Body(f, i) = Body(g, i)
  BY <1>3, WordsFromAgrees
<1>4. Wants(b, end, vars) = CHOOSE f : f = [i \in 1 .. n |-> Body(f, i)]
  BY Zenon DEF Wants, WordsFrom
<1> HIDE DEF Body
<1>5. F \in [G -> G]
  <2>1. ASSUME NEW g \in G PROVE [i \in 1 .. n |-> Body(g, i)] \in G
    BY <1>2 DEF WordFunctions
  <2> HIDE DEF G
  <2> QED
    BY <2>1
<1>6. \A g \in G : F[g] = [i \in 1 .. n |-> Body(g, i)] /\ IsOn(g, n)
  <2>1. ASSUME NEW g \in G PROVE IsOn(g, n)
    BY DEF IsOn, WordFunctions
  <2>2. \A g \in G : F[g] = [i \in 1 .. n |-> Body(g, i)]
    BY Zenon
  <2> QED
    BY <2>1, <2>2, Zenon
<1>7. LooksAhead(F, G, n)
  <2> HIDE DEF F, G
  <2> SUFFICES ASSUME NEW f \in G, NEW g \in G, NEW i \in 1 .. n, \A j \in i + 1 .. n : f[j] = g[j]
               PROVE F[f][i] = F[g][i]
    BY DEF LooksAhead
  <2>1. Body(f, i) = Body(g, i)
    BY <1>3
  <2>2. F[f][i] = Body(f, i) /\ F[g][i] = Body(g, i)
    BY <1>6
  <2> QED
    BY <2>1, <2>2, Zenon
<1>8. PICK g \in G : g = F[g]
  <2> HIDE DEF F, G, start, n
  <2>1. n \in Nat
    BY <1>0
  <2>2. \A g \in G : IsOn(g, n)
    BY <1>6, Zenon
  <2> QED
    BY <2>1, <2>2, <1>1, <1>5, <1>7, FixedPoint, Zenon
<1>9. g = [i \in 1 .. n |-> Body(g, i)]
  BY <1>6, <1>8, Zenon
<1> DEFINE f == CHOOSE f : f = [i \in 1 .. n |-> Body(f, i)]
<1>10. f = [i \in 1 .. n |-> Body(f, i)]
  BY <1>9
<1> HIDE DEF f
<1>11. \A i \in 1 .. n : f[i] = Body(f, i) /\ g[i] = Body(g, i)
  BY <1>9, <1>10
<1>12. Agree(f, g, n)
  BY <1>3, <1>11, Zenon DEF Agree
<1>13. f = g
  <2>1. IsOn(f, n)
    BY <1>10, <1>11, Zenon DEF IsOn
  <2> HIDE DEF n, G
  <2> QED
    BY <1>0, <1>6, <1>12, <2>1, OnlyOne
<1> QED
  BY <1>4, <1>11, <1>13 DEF IsWords, Body, f

(* A list between braces is read as its items, with a comma behind the     *)
(* last or without.                                                        *)
Bracketed(b, start, end) == Is(b, start - 1, {"{"}) /\ Is(b, end, {"}"})
LEMMA ListRead ==
  ASSUME NEW decls \in Seq(Decl), NEW b \in Seq(Token), NEW sums \in Seq(Seq(Term)),
         NEW start \in Nat, start # 0, NEW end \in Nat, AreItems(b, sums, start, end, decls),
         Bracketed(b, start, end)
  PROVE /\ end \in start .. Len(b)
        /\ ItemsMean(b, sums, decls) \in Words
        /\ Wants(b, end, extract_vars(decls))[start] = ItemsMean(b, sums, decls)
<1>n. PICK N \in Nat : N = Len(sums)
  BY LenProperties
<1> DEFINE vars == extract_vars(decls)
           words == Wants(b, end, vars)
           from(n) == ItemStart(sums, start, n)
           to(n) == SumEnd(sums[n])
           means(n) == SumMeans(b, sums[n], decls)
           items == ItemsMean(b, sums, decls)
<1>0. Len(b) \in Nat
  BY LenProperties
<1>d. DOMAIN sums = 1 .. N
  BY <1>n, LenProperties
<1>1. end \in {from(N + 1) - 1, from(N + 1)}
  BY <1>n, Zenon DEF AreItems
<1>s. \A n \in 1 .. N : IsSum(b, sums[n], from(n), decls)
  BY <1>d, Zenon DEF AreItems
<1>m. \A n \in 1 .. N : means(n) # <<>>
  BY <1>d, Zenon DEF AreItems
<1>c. \A n \in 1 .. N : Is(b, to(n), {","}) \/ (n = N /\ to(n) = end)
  BY <1>n, <1>d, Zenon DEF AreItems
<1>k. b[start - 1].k = "{" /\ b[end].k = "}"
  BY Zenon DEF Is, Bracketed
<1>e. end <= Len(b)
  BY Zenon DEF Is, Bracketed
<1>2. from(1) = start /\ \A n \in 1 .. N : from(n + 1) = to(n) + 1
  <2>1. ASSUME NEW n \in 1 .. N PROVE n + 1 # 1 /\ (n + 1) - 1 = n
    OBVIOUS
  <2> QED
    BY <2>1, Zenon DEF ItemStart
<1>3. \A n \in 1 .. N : sums[n] \in Seq(Term)
  BY <1>n
<1>4. ASSUME NEW n \in 1 .. N PROVE to(n) \in Nat
  <2>1. sums[n] # <<>>
    BY <1>s, Zenon DEF IsSum
  <2> QED
    BY <1>3, <2>1, SumEndType
<1> HIDE DEF to, from
<1>5. ASSUME NEW n \in 1 .. N + 1 PROVE from(n) \in Nat /\ from(n) # 0
  <2>1. CASE n = 1
    BY <1>2, <2>1
  <2>2. CASE n # 1
    <3>1. n - 1 \in 1 .. N /\ (n - 1) + 1 = n
      BY <2>2
    <3>2. from((n - 1) + 1) = to(n - 1) + 1 /\ to(n - 1) \in Nat
      BY <1>2, <1>4, <3>1
    <3> QED
      BY <3>1, <3>2
  <2> QED
    BY <2>1, <2>2
<1>6. ASSUME NEW n \in 1 .. N
      PROVE /\ WantEntry(b, from(n), vars) = Value(TRUE, means(n), to(n))
            /\ means(n) \in Seq(STRING) /\ from(n) \in 1 .. Len(b) /\ to(n) \in from(n) + 1 .. Len(b) + 1
            /\ b[from(n)].k \in {"str", "id"}
  <2>1. n \in 1 .. N + 1
    OBVIOUS
  <2>2. from(n) \in Nat /\ from(n) # 0
    BY <1>5, <2>1
  <2>3. PICK s \in Seq(Term) : s = sums[n]
    BY <1>3
  <2>4. IsSum(b, s, from(n), decls)
    BY <1>s, <2>3
  <2> QED
    BY <2>2, <2>3, <2>4, EntryRead DEF to
<1>7. items \in Words /\ Len(items) = N /\ \A n \in 1 .. N : items[n] = means(n)
  <2>1. items = [n \in 1 .. N |-> means(n)]
    BY <1>d, Zenon DEF ItemsMean
  <2> HIDE DEF means, items
  <2>2. items \in [1 .. N -> Seq(STRING)]
    BY <1>6, <2>1
  <2>3. \A n \in 1 .. N : items[n] = means(n)
    BY <2>1
  <2> QED
    BY <2>2, <2>3 DEF Words
<1> HIDE DEF items, means
<1>8. IsWords(words, b, end, vars) /\ end \in 0 .. Len(b)
  <2>2. end \in 0 .. Len(b)
    BY <1>0, <1>e
  <2>3. IsVars(vars)
    BY ExtractType
  <2> QED
    BY <2>2, <2>3, WordsAreRead
<1>9. \A i \in 1 .. Len(b) + 2 : words[i] = WordsFrom(b, end, vars, words, i)
  BY <1>8 DEF IsWords
<1> HIDE DEF words
<1>10. ASSUME NEW i \in 1 .. Len(b) + 2, i >= end PROVE words[i] = <<>>
  BY <1>9, <1>10, Zenon DEF WordsFrom
<1>w. \A i \in 1 .. Len(b) : i < end => ~(i >= end) /\ i \in 1 .. Len(b) + 2
  BY <1>0
<1>11. ASSUME NEW i \in 1 .. Len(b), i < end, Is(b, i, {","}) PROVE words[i] = words[i + 1]
  <2>1. ~(i >= end) /\ i \in 1 .. Len(b) + 2
    BY <1>w, <1>11, Zenon
  <2>2. b[i].k = ","
    BY <1>11, Zenon DEF Is
  <2> QED
    BY <1>9, <2>1, <2>2, Zenon DEF WordsFrom
<1>12. ASSUME NEW n \in 1 .. N, from(n) < end PROVE words[from(n)] = <<means(n)>> \o words[to(n)]
  <2>1. ~(from(n) >= end) /\ from(n) \in 1 .. Len(b) + 2
    <3>1. from(n) \in 1 .. Len(b)
      BY <1>6
    <3> QED
      BY <1>w, <1>12, <3>1
  <2>2. b[from(n)].k # "," /\ means(n) # <<>>
    <3>1. means(n) # <<>>
      BY <1>m, Zenon DEF means
    <3>2. b[from(n)].k # ","
      BY <1>6
    <3> QED
      BY <3>1, <3>2, Zenon
  <2>3. WantEntry(b, from(n), vars) = Value(TRUE, means(n), to(n))
    BY <1>6
  <2>4. WantEntry(b, from(n), vars).out = means(n) /\ WantEntry(b, from(n), vars).i = to(n)
    BY <2>3 DEF Value
  <2> QED
    BY <1>9, <2>1, <2>2, <2>4, Zenon DEF WordsFrom
<1> DEFINE Right == {n \in 1 .. N : from(n) < end /\ words[from(n)] = Suffix(items, n)}
<1>13. ASSUME NEW n \in 1 .. N, \A j \in n + 1 .. N : j \in Right PROVE n \in Right
  <2>0. Suffix(items, n) = <<means(n)>> \o Suffix(items, n + 1)
    <3>1. Suffix(items, n) = <<items[n]>> \o Suffix(items, n + 1)
      BY <1>7, SuffixStepHolds DEF SuffixStep, Words
    <3> QED
      BY <1>7, <3>1, Zenon
  <2>1. /\ from(n) \in 1 .. Len(b) /\ to(n) \in from(n) + 1 .. Len(b) + 1 /\ from(n + 1) = to(n) + 1
        /\ to(n) \in Nat
    BY <1>2, <1>4, <1>6
  <2>c. Is(b, to(n), {","}) \/ (n = N /\ to(n) = end)
    BY <1>c, Zenon DEF to
  <2>d. Is(b, to(n), {","}) => to(n) <= Len(b) /\ to(n) # end
    <3>1. ASSUME Is(b, to(n), {","}) PROVE to(n) <= Len(b) /\ to(n) # end
      <4>1. to(n) <= Len(b) /\ b[to(n)].k = ","
        BY <3>1, Zenon DEF Is
      <4> QED
        BY <1>k, <4>1
    <3> QED
      BY <3>1
  <2>2. CASE n = N
    <3>e. end \in {to(n), to(n) + 1}
      <4>1. end \in {from(n + 1) - 1, from(n + 1)}
        BY <1>1, <2>2
      <4> QED
        BY <2>1, <4>1
    <3>1. from(n) < end
      BY <1>0, <2>1, <3>e
    <3>2. words[to(n)] = <<>>
      <4>1. CASE to(n) = end
        <5>1. to(n) \in 1 .. Len(b) + 2 /\ to(n) >= end
          BY <1>0, <2>1, <4>1
        <5> QED
          BY <1>10, <5>1
      <4>2. CASE to(n) # end
        <5>0. Is(b, to(n), {","})
          BY <2>c, <4>2, Zenon
        <5>1. to(n) <= Len(b) /\ end = to(n) + 1
          BY <2>d, <3>e, <4>2, <5>0, Zenon
        <5>2. to(n) \in 1 .. Len(b) /\ to(n) < end /\ to(n) + 1 \in 1 .. Len(b) + 2 /\ to(n) + 1 >= end
          BY <1>0, <2>1, <5>1
        <5>3. words[to(n)] = words[to(n) + 1]
          BY <1>11, <5>0, <5>2
        <5>4. words[to(n) + 1] = <<>>
          BY <1>10, <5>2
        <5> QED
          BY <5>3, <5>4, Zenon
      <4> QED
        BY <4>1, <4>2
    <3>3. Suffix(items, n + 1) = <<>>
      BY <1>7, <2>2, SuffixEnds DEF Words
    <3>4. words[from(n)] = Suffix(items, n)
      BY <1>12, <2>0, <3>1, <3>2, <3>3, Zenon
    <3> QED
      BY <3>1, <3>4
  <2>3. CASE n # N
    <3>1. n + 1 \in n + 1 .. N
      BY <2>3
    <3>2. n + 1 \in Right
      <4> HIDE DEF Right
      <4> QED
        BY <1>13, <3>1
    <3>3. from(n + 1) < end /\ words[from(n + 1)] = Suffix(items, n + 1)
      BY <3>2
    <3>4. Is(b, to(n), {","})
      BY <2>c, <2>3
    <3>5. to(n) \in 1 .. Len(b) /\ to(n) < end /\ from(n) < end
      <4>1. to(n) <= Len(b) /\ to(n) # end
        BY <2>d, <3>4, Zenon
      <4>2. to(n) + 1 < end
        BY <2>1, <3>3, Zenon
      <4> QED
        BY <1>0, <2>1, <4>1, <4>2
    <3>6. words[to(n)] = words[to(n) + 1]
      BY <1>11, <3>4, <3>5
    <3>7. words[from(n)] = Suffix(items, n)
      BY <1>12, <2>0, <2>1, <3>3, <3>5, <3>6, Zenon
    <3> QED
      BY <3>5, <3>7
  <2> QED
    BY <2>2, <2>3
<1>14. 1 .. N \subseteq Right
  <2> HIDE DEF Right
  <2> QED
    BY <1>13, LastWrong
<1>15. CASE N = 0
  <2>1. end \in {start - 1, start} /\ end # start - 1
    <3>1. end \in {start - 1, start}
      BY <1>1, <1>2, <1>15
    <3>3. end # start - 1
      BY <1>k
    <3> QED
      BY <3>1, <3>3
  <2>2. end = start /\ start \in 1 .. Len(b) + 2 /\ start >= end
    <3>1. start # 0
      OBVIOUS
    <3> QED
      BY <1>0, <1>8, <2>1, <3>1
  <2>3. words[start] = <<>>
    BY <1>10, <2>2
  <2>4. items = <<>>
    BY <1>7, <1>15, EmptySeq DEF Words
  <2> QED
    BY <1>7, <1>8, <2>2, <2>3, <2>4 DEF items, words
<1>16. CASE N # 0
  <2>1. 1 \in 1 .. N
    BY <1>16
  <2>2. start < end /\ words[start] = Suffix(items, 1)
    BY <1>2, <1>14, <2>1
  <2>3. Suffix(items, 1) = items
    BY <1>7, SuffixEnds DEF Words
  <2>4. end \in start .. Len(b)
    BY <1>8, <2>2
  <2> QED
    BY <1>7, <2>2, <2>3, <2>4, Zenon DEF items, words
<1> QED
  BY <1>15, <1>16
-----------------------------------------------------------------------------
(* Braces. *)
Marks(b, kind, i, j) == {k \in i .. j : b[k].k = kind}
CountOf(b, kind, i, j) == Cardinality(Marks(b, kind, i, j))
Splits(b, kind, i, m, j) == CountOf(b, kind, i, j) = CountOf(b, kind, i, m) + CountOf(b, kind, m + 1, j)

(* Marks are counted. *)
LEMMA MarksFinite ==
  ASSUME NEW b, NEW kind, NEW i \in Nat, NEW j \in Int
  PROVE IsFiniteSet(Marks(b, kind, i, j)) /\ CountOf(b, kind, i, j) \in Nat
<1>1. IsFiniteSet(i .. j)
  BY FS_Interval
<1>2. IsFiniteSet(Marks(b, kind, i, j))
  BY <1>1, FS_Subset DEF Marks
<1> QED
  BY <1>2, FS_CardinalityType DEF CountOf

(* The marks of an interval are those of its two parts. *)
LEMMA CountSplits ==
  ASSUME NEW b, NEW kind, NEW i \in Nat, NEW m \in Int, NEW j \in Int, i <= m + 1, m <= j
  PROVE Splits(b, kind, i, m, j)
<1> DEFINE A == Marks(b, kind, i, m)
           C == Marks(b, kind, m + 1, j)
           W == Marks(b, kind, i, j)
<1>0. m + 1 \in Nat
  OBVIOUS
<1>1. W = A \cup C /\ A \cap C = {}
  <2>1. i .. j = (i .. m) \cup (m + 1 .. j) /\ (i .. m) \cap (m + 1 .. j) = {}
    OBVIOUS
  <2> QED
    BY <2>1, Zenon DEF Marks
<1>2. IsFiniteSet(A) /\ IsFiniteSet(C)
  BY <1>0, MarksFinite
<1>3. Cardinality(A) \in Nat /\ Cardinality(C) \in Nat
  BY <1>2, FS_CardinalityType
<1> HIDE DEF A, C, W
<1>4. Cardinality(A \cap C) = 0
  BY <1>1, FS_EmptySet
<1>5. Cardinality(W) = Cardinality(A) + Cardinality(C) - Cardinality(A \cap C)
  BY <1>1, <1>2, FS_Union
<1>6. Cardinality(W) = Cardinality(A) + Cardinality(C)
  BY <1>3, <1>4, <1>5
<1> QED
  BY <1>6 DEF Splits, CountOf, A, C, W

(* So is the depth. *)
DepthSplits(b, i, m, j) == Depth(b, i, j) = Depth(b, i, m) + Depth(b, m + 1, j)
LEMMA DepthIsSplit ==
  ASSUME NEW b, NEW i \in Nat, NEW m \in Int, NEW j \in Int, i <= m + 1, m <= j
  PROVE DepthSplits(b, i, m, j) /\ Depth(b, i, j) \in Int
<1> DEFINE O(x, y) == CountOf(b, "{", x, y)
           P(x, y) == CountOf(b, "}", x, y)
<1>0. m + 1 \in Nat
  OBVIOUS
<1>1. \A x, y : Depth(b, x, y) = O(x, y) - P(x, y)
  BY DEF Depth, CountOf, Marks
<1>2. O(i, j) = O(i, m) + O(m + 1, j)
  BY CountSplits DEF Splits
<1>3. P(i, j) = P(i, m) + P(m + 1, j)
  BY CountSplits DEF Splits
<1>4. O(i, m) \in Nat /\ O(m + 1, j) \in Nat /\ P(i, m) \in Nat /\ P(m + 1, j) \in Nat
  BY <1>0, MarksFinite
<1> HIDE DEF O, P
<1>5. Depth(b, i, j) = Depth(b, i, m) + Depth(b, m + 1, j) /\ Depth(b, i, j) \in Int
  BY <1>1, <1>2, <1>3, <1>4
<1> QED
  BY <1>5 DEF DepthSplits

(* A token deepens by one, rises by one, or neither. *)
StepOfDepth(b, i) ==
    Depth(b, i, i) = IF b[i].k = "{" THEN 1 ELSE IF b[i].k = "}" THEN 0 - 1 ELSE 0
LEMMA DepthOfOne ==
  ASSUME NEW b, NEW i \in Nat
  PROVE StepOfDepth(b, i)
<1>1. ASSUME NEW kind PROVE (b[i].k = kind => CountOf(b, kind, i, i) = 1) /\ (b[i].k # kind => CountOf(b, kind, i, i) = 0)
  <2>1. i .. i = {i}
    OBVIOUS
  <2>2. CASE b[i].k = kind
    <3>1. Marks(b, kind, i, i) = {i}
      BY <2>1, <2>2, Zenon DEF Marks
    <3> QED
      BY <2>2, <3>1, FS_Singleton DEF CountOf
  <2>3. CASE b[i].k # kind
    <3>1. Marks(b, kind, i, i) = {}
      BY <2>1, <2>3, Zenon DEF Marks
    <3> QED
      BY <2>3, <3>1, FS_EmptySet DEF CountOf
  <2> QED
    BY <2>2, <2>3
<1>2. Depth(b, i, i) = CountOf(b, "{", i, i) - CountOf(b, "}", i, i)
  BY DEF Depth, CountOf, Marks
<1>3. CASE b[i].k = "{"
  <2>1. b[i].k # "}"
    BY <1>3
  <2>2. CountOf(b, "{", i, i) = 1 /\ CountOf(b, "}", i, i) = 0
    BY <1>1, <1>3, <2>1, Zenon
  <2>3. Depth(b, i, i) = 1
    <3>1. Depth(b, i, i) = 1 - 0
      BY <1>2, <2>2, Zenon
    <3>2. 1 - 0 = 1
      OBVIOUS
    <3> QED
      BY <3>1, <3>2, Zenon
  <2> QED
    BY <1>3, <2>3, Zenon DEF StepOfDepth
<1>4. CASE b[i].k = "}"
  <2>1. b[i].k # "{"
    BY <1>4
  <2>2. CountOf(b, "{", i, i) = 0 /\ CountOf(b, "}", i, i) = 1
    BY <1>1, <1>4, <2>1, Zenon
  <2>3. Depth(b, i, i) = 0 - 1
    BY <1>2, <2>2
  <2> QED
    BY <1>4, <2>1, <2>3, Zenon DEF StepOfDepth
<1>6. CASE b[i].k # "{" /\ b[i].k # "}"
  <2>1. CountOf(b, "{", i, i) = 0 /\ CountOf(b, "}", i, i) = 0
    BY <1>1, <1>6, Zenon
  <2>2. Depth(b, i, i) = 0
    <3>1. Depth(b, i, i) = 0 - 0
      BY <1>2, <2>1, Zenon
    <3>2. 0 - 0 = 0
      OBVIOUS
    <3> QED
      BY <3>1, <3>2, Zenon
  <2> QED
    BY <1>6, <2>2, Zenon DEF StepOfDepth
<1> QED
  BY <1>3, <1>4, <1>6, Zenon

(* No token, no depth. *)
LEMMA DepthOfNone ==
  ASSUME NEW b, NEW i \in Nat
  PROVE Depth(b, i, i - 1) = 0
<1>1. i .. i - 1 = {}
  OBVIOUS
<1>2. Depth(b, i, i - 1) = Cardinality({}) - Cardinality({})
  BY <1>1, Zenon DEF Depth
<1> QED
  BY <1>2, FS_EmptySet

(* match_brace yields the first place at which the depth is zero again, or *)
(* 0.                                                                      *)
LEMMA BraceMatchIs ==
  ASSUME NEW b \in Seq(Token), NEW open \in 1 .. Len(b) + 1
  PROVE /\ match_brace(b, open) \in {0} \cup (open .. Len(b))
        /\ match_brace(b, open) # 0 => Depth(b, open, match_brace(b, open)) = 0
        /\ \A j \in open .. Len(b) : Depth(b, open, j) = 0 => match_brace(b, open) # 0 /\ match_brace(b, open) <= j
<1> DEFINE at == {j \in open .. Len(b) : Depth(b, open, j) = 0}
<1>0. Len(b) \in Nat
  BY LenProperties
<1>1. match_brace(b, open) = IF at = {} THEN 0 ELSE CHOOSE j \in at : \A k \in at : j <= k
  BY DEF match_brace
<1>2. CASE at = {}
  BY <1>1, <1>2
<1>3. CASE at # {}
  <2>1. at \in SUBSET Nat
    OBVIOUS
  <2>2. PICK u : u = match_brace(b, open)
    OBVIOUS
  <2>3. u \in at /\ \A k \in at : u <= k
    <3> HIDE DEF at
    <3> QED
      BY <1>1, <1>3, <2>1, <2>2, FirstOfSet
  <2>4. u # 0
    BY <1>0, <2>3
  <2> QED
    BY <2>2, <2>3, <2>4
<1> QED
  BY <1>2, <1>3

(* Braces around something without braces match. *)
Encloses(b, open, end) ==
    /\ b[open].k = "{" /\ b[end].k = "}"
    /\ \A i \in open + 1 .. end - 1 : b[i].k # "{" /\ b[i].k # "}"
LEMMA MatchFlat ==
  ASSUME NEW b \in Seq(Token), NEW open \in 1 .. Len(b), NEW end \in open + 1 .. Len(b), Encloses(b, open, end)
  PROVE match_brace(b, open) = end
<1>0. Len(b) \in Nat /\ open \in Nat /\ end \in Nat /\ open < end
  BY LenProperties
<1>1. ASSUME NEW j \in open .. end - 1 PROVE Depth(b, open, j) = 1
  <2>1. Marks(b, "{", open, j) = {open} /\ Marks(b, "}", open, j) = {}
    <3>1. ASSUME NEW i \in open .. j PROVE (b[i].k = "{" <=> i = open) /\ b[i].k # "}"
      <4>1. i = open \/ i \in open + 1 .. end - 1
        BY <1>0
      <4> QED
        BY <4>1 DEF Encloses
    <3>2. ASSUME NEW i \in open .. j PROVE b[i].k # "}"
      BY <3>1
    <3>3. open \in open .. j
      BY <1>0
    <3> QED
      BY <3>1, <3>2, <3>3, Zenon DEF Marks
  <2>2. Depth(b, open, j) = Cardinality({open}) - Cardinality({})
    BY <2>1, Zenon DEF Depth, Marks
  <2>3. Cardinality({open}) = 1 /\ Cardinality({}) = 0
    BY FS_EmptySet, FS_Singleton, Zenon
  <2>4. Cardinality({open}) - Cardinality({}) = 1 - 0
    BY <2>3, Zenon
  <2> QED
    BY <2>2, <2>4
<1>2. Depth(b, open, end) = 0
  <2>1. DepthSplits(b, open, end - 1, end)
    BY <1>0, DepthIsSplit
  <2>2. Depth(b, open, end - 1) = 1
    <3>1. end - 1 \in open .. end - 1
      BY <1>0
    <3> QED
      BY <1>1, <3>1
  <2>3. (end - 1) + 1 = end
    BY <1>0
  <2>4. Depth(b, end, end) = 0 - 1
    <3>1. StepOfDepth(b, end)
      BY <1>0, DepthOfOne
    <3>2. b[end].k # "{" /\ b[end].k = "}"
      BY DEF Encloses
    <3> QED
      BY <3>1, <3>2, Zenon DEF StepOfDepth
  <2> QED
    BY <2>1, <2>2, <2>3, <2>4 DEF DepthSplits
<1>3. PICK m \in {0} \cup (open .. Len(b)) :
         /\ m = match_brace(b, open) /\ (m # 0 => Depth(b, open, m) = 0)
         /\ \A j \in open .. Len(b) : Depth(b, open, j) = 0 => m # 0 /\ m <= j
  <2>1. open \in 1 .. Len(b) + 1
    BY <1>0
  <2> QED
    BY <2>1, BraceMatchIs
<1>4. m # 0 /\ m <= end
  <2>1. end \in open .. Len(b)
    BY <1>0
  <2> QED
    BY <1>2, <1>3, <2>1
<1>5. m \notin open .. end - 1
  BY <1>1, <1>3, <1>4
<1>6. m = end
  BY <1>0, <1>4, <1>5
<1> QED
  BY <1>3, <1>6
-----------------------------------------------------------------------------
(* Values that are passed over. *)
SkipFrom(b, f, i) ==
    IF i > Len(b) \/ b[i].k = "," THEN i
    ELSE IF b[i].k # "{" THEN f[i + 1]
    ELSE IF match_brace(b, i) = 0 THEN Len(b) + 1 ELSE f[match_brace(b, i) + 1]
SkipFunctions(b) == {g \in [1 .. Len(b) + 1 -> Nat] : \A i \in 1 .. Len(b) + 1 : g[i] \in i .. Len(b) + 1}
Over(b, i) == i > Len(b) \/ b[i].k = ","
Opens(b, i) == b[i].k = "{"
SkipCases(b, f, i) ==
    /\ Over(b, i) => SkipFrom(b, f, i) = i
    /\ ~Over(b, i) /\ ~Opens(b, i) => SkipFrom(b, f, i) = f[i + 1]
    /\ ~Over(b, i) /\ Opens(b, i) =>
         SkipFrom(b, f, i) = IF match_brace(b, i) = 0 THEN Len(b) + 1 ELSE f[match_brace(b, i) + 1]

(* The cases of a step of skip_value. *)
LEMMA SkipSplits ==
  ASSUME NEW b, NEW f, NEW i
  PROVE SkipCases(b, f, i)
<1>1. CASE i > Len(b) \/ b[i].k = ","
  BY <1>1, Zenon DEF SkipFrom, SkipCases, Over
<1>2. CASE ~(i > Len(b) \/ b[i].k = ",")
  BY <1>2, Zenon DEF SkipFrom, SkipCases, Over, Opens
<1> QED
  BY <1>1, <1>2

(* What is not over is within the text. *)
LEMMA NotOver ==
  ASSUME NEW b \in Seq(Token), NEW i \in 1 .. Len(b) + 1, ~Over(b, i)
  PROVE i \in 1 .. Len(b)
<1>1. Len(b) \in Nat
  BY LenProperties
<1>2. ~(i > Len(b))
  BY Zenon DEF Over
<1> QED
  BY <1>1, <1>2

(* A brace is closed behind it. *)
LEMMA MatchBehind ==
  ASSUME NEW b \in Seq(Token), NEW i \in 1 .. Len(b), Opens(b, i)
  PROVE match_brace(b, i) # 0 => match_brace(b, i) \in i + 1 .. Len(b)
<1>0. Len(b) \in Nat
  BY LenProperties
<1>1. i \in 1 .. Len(b) + 1
  BY <1>0, WithinOne
<1>2. PICK m \in {0} \cup (i .. Len(b)) : m = match_brace(b, i) /\ (m # 0 => Depth(b, i, m) = 0)
  BY <1>1, BraceMatchIs
<1>3. m # i
  <2>1. StepOfDepth(b, i)
    BY <1>0, DepthOfOne
  <2>2. Depth(b, i, i) = 1
    BY <2>1, Zenon DEF StepOfDepth, Opens
  <2>3. i # 0
    BY <1>1
  <2> QED
    BY <1>2, <2>2, <2>3
<1> QED
  BY <1>0, <1>2, <1>3

(* What a step over a value yields has the right type, and depends on what *)
(* is behind only.                                                         *)
LEMMA SkipFromType ==
  ASSUME NEW b \in Seq(Token), NEW f \in SkipFunctions(b), NEW i \in 1 .. Len(b) + 1
  PROVE SkipFrom(b, f, i) \in i .. Len(b) + 1
<1>0. Len(b) \in Nat
  BY LenProperties
<1>f. ASSUME NEW j \in i .. Len(b) PROVE f[j + 1] \in i .. Len(b) + 1
  <2>1. j + 1 \in 1 .. Len(b) + 1
    BY <1>0
  <2>2. f[j + 1] \in j + 1 .. Len(b) + 1
    BY <2>1 DEF SkipFunctions
  <2> QED
    BY <1>0, <2>2
<1>s. SkipCases(b, f, i)
  BY SkipSplits
<1>1. CASE Over(b, i)
  <2>1. SkipFrom(b, f, i) = i
    BY <1>1, <1>s DEF SkipCases
  <2> QED
    BY <1>0, <2>1
<1>2. CASE ~Over(b, i)
  <2>1. i \in 1 .. Len(b)
    BY <1>2, NotOver
  <2>2. i \in i .. Len(b)
    BY <1>0, <2>1
  <2>3. CASE ~Opens(b, i)
    <3>1. SkipFrom(b, f, i) = f[i + 1]
      BY <1>2, <1>s, <2>3 DEF SkipCases
    <3> QED
      BY <1>f, <2>2, <3>1
  <2>4. CASE Opens(b, i)
    <3>1. PICK m : m = match_brace(b, i) /\ (m # 0 => m \in i + 1 .. Len(b))
      BY <2>1, <2>4, MatchBehind
    <3>2. SkipFrom(b, f, i) = IF m = 0 THEN Len(b) + 1 ELSE f[m + 1]
      BY <1>2, <1>s, <2>4, <3>1, Zenon DEF SkipCases
    <3>3. CASE m = 0
      <4>1. SkipFrom(b, f, i) = Len(b) + 1
        BY <3>2, <3>3
      <4> QED
        BY <1>0, <4>1
    <3>4. CASE m # 0
      <4>1. m \in i .. Len(b)
        BY <1>0, <3>1, <3>4
      <4> QED
        BY <1>f, <3>2, <3>4, <4>1
    <3> QED
      BY <3>3, <3>4
  <2> QED
    BY <2>3, <2>4
<1> QED
  BY <1>1, <1>2

(* It depends on the places behind its own only. *)
LEMMA SkipFromAgrees ==
  ASSUME NEW b \in Seq(Token), NEW f, NEW g, NEW i \in 1 .. Len(b) + 1, \A j \in i + 1 .. Len(b) + 1 : f[j] = g[j]
  PROVE SkipFrom(b, f, i) = SkipFrom(b, g, i)
<1>0. Len(b) \in Nat
  BY LenProperties
<1>f. ASSUME NEW j \in i .. Len(b) PROVE f[j + 1] = g[j + 1]
  <2>1. j + 1 \in i + 1 .. Len(b) + 1
    BY <1>0
  <2> QED
    BY <2>1
<1>s. SkipCases(b, f, i) /\ SkipCases(b, g, i)
  BY SkipSplits
<1>1. CASE Over(b, i)
  BY <1>1, <1>s DEF SkipCases
<1>2. CASE ~Over(b, i)
  <2>1. i \in 1 .. Len(b)
    BY <1>2, NotOver
  <2>2. i \in i .. Len(b)
    BY <1>0, <2>1
  <2>3. f[i + 1] = g[i + 1]
    BY <1>f, <2>2
  <2>4. CASE ~Opens(b, i)
    BY <1>2, <1>s, <2>3, <2>4, Zenon DEF SkipCases
  <2>5. CASE Opens(b, i)
    <3>1. PICK m : m = match_brace(b, i) /\ (m # 0 => m \in i + 1 .. Len(b))
      BY <2>1, <2>5, MatchBehind
    <3>2. ASSUME m # 0 PROVE f[m + 1] = g[m + 1]
      <4>1. m \in i .. Len(b)
        BY <1>0, <3>1, <3>2
      <4> QED
        BY <1>f, <4>1
    <3>3. /\ SkipFrom(b, f, i) = (IF m = 0 THEN Len(b) + 1 ELSE f[m + 1])
          /\ SkipFrom(b, g, i) = (IF m = 0 THEN Len(b) + 1 ELSE g[m + 1])
      BY <1>2, <1>s, <2>5, <3>1, Zenon DEF SkipCases
    <3>4. CASE m = 0
      BY <3>3, <3>4, Zenon
    <3>5. CASE m # 0
      BY <3>2, <3>3, <3>5, Zenon
    <3> QED
      BY <3>4, <3>5
  <2> QED
    BY <2>4, <2>5
<1> QED
  BY <1>1, <1>2

(* The recursion of skip_value is well defined. *)
IsSkip(f, b) ==
    /\ f \in SkipFunctions(b) /\ \A i \in 1 .. Len(b) + 1 : f[i] = SkipFrom(b, f, i)
    /\ \A from : skip_value(b, from) = f[from]
LEMMA ValuesAreSkipped ==
  ASSUME NEW b \in Seq(Token)
  PROVE \E f : IsSkip(f, b)
<1> DEFINE n == Len(b) + 1
           G == SkipFunctions(b)
           Body(g, i) == SkipFrom(b, g, i)
           F == [g \in G |-> [i \in 1 .. n |-> Body(g, i)]]
           start == [i \in 1 .. n |-> i]
<1>0. n \in Nat /\ Len(b) \in Nat
  BY LenProperties
<1>1. start \in G
  BY <1>0 DEF SkipFunctions
<1>2. ASSUME NEW g \in G, NEW i \in 1 .. n PROVE Body(g, i) \in i .. Len(b) + 1
  BY SkipFromType
<1>3. ASSUME NEW f, NEW g \in G, NEW i \in 1 .. n, \A j \in i + 1 .. n : f[j] = g[j] PROVE Body(f, i) = Body(g, i)
  BY <1>3, SkipFromAgrees
<1>4. \A from : skip_value(b, from) = (CHOOSE f : f = [i \in 1 .. n |-> Body(f, i)])[from]
  BY Zenon DEF skip_value, SkipFrom
<1> HIDE DEF Body
<1>5. F \in [G -> G]
  <2>1. ASSUME NEW g \in G PROVE [i \in 1 .. n |-> Body(g, i)] \in G
    <3>1. ASSUME NEW i \in 1 .. n PROVE Body(g, i) \in Nat
      <4>1. Body(g, i) \in i .. Len(b) + 1
        BY <1>2
      <4> QED
        BY <1>0, <4>1
    <3> QED
      BY <1>2, <3>1 DEF SkipFunctions
  <2> HIDE DEF G
  <2> QED
    BY <2>1
<1>6. \A g \in G : F[g] = [i \in 1 .. n |-> Body(g, i)] /\ IsOn(g, n)
  <2>1. ASSUME NEW g \in G PROVE IsOn(g, n)
    BY DEF IsOn, SkipFunctions
  <2>2. \A g \in G : F[g] = [i \in 1 .. n |-> Body(g, i)]
    BY Zenon
  <2> QED
    BY <2>1, <2>2, Zenon
<1>7. LooksAhead(F, G, n)
  <2> HIDE DEF F, G
  <2> SUFFICES ASSUME NEW f \in G, NEW g \in G, NEW i \in 1 .. n, \A j \in i + 1 .. n : f[j] = g[j]
               PROVE F[f][i] = F[g][i]
    BY DEF LooksAhead
  <2>1. Body(f, i) = Body(g, i)
    BY <1>3
  <2>2. F[f][i] = Body(f, i) /\ F[g][i] = Body(g, i)
    BY <1>6
  <2> QED
    BY <2>1, <2>2, Zenon
<1>8. PICK g \in G : g = F[g]
  <2> HIDE DEF F, G, start, n
  <2>1. n \in Nat
    BY <1>0
  <2>2. \A g \in G : IsOn(g, n)
    BY <1>6, Zenon
  <2> QED
    BY <2>1, <2>2, <1>1, <1>5, <1>7, FixedPoint, Zenon
<1>9. g = [i \in 1 .. n |-> Body(g, i)]
  BY <1>6, <1>8, Zenon
<1> DEFINE f == CHOOSE f : f = [i \in 1 .. n |-> Body(f, i)]
<1>10. f = [i \in 1 .. n |-> Body(f, i)]
  BY <1>9
<1> HIDE DEF f
<1>11. \A i \in 1 .. n : f[i] = Body(f, i) /\ g[i] = Body(g, i)
  BY <1>9, <1>10
<1>12. Agree(f, g, n)
  BY <1>3, <1>11, Zenon DEF Agree
<1>13. f = g
  <2>1. IsOn(f, n)
    BY <1>10, <1>11, Zenon DEF IsOn
  <2> HIDE DEF n, G
  <2> QED
    BY <1>0, <1>6, <1>12, <2>1, OnlyOne
<1> QED
  BY <1>4, <1>11, <1>13 DEF IsSkip, Body, f

(* skip_value stops at its place or behind it. *)
LEMMA SkipType ==
  ASSUME NEW b \in Seq(Token), NEW i \in 1 .. Len(b) + 1
  PROVE skip_value(b, i) \in i .. Len(b) + 1
<1>1. PICK f : IsSkip(f, b)
  BY ValuesAreSkipped
<1> QED
  BY <1>1 DEF IsSkip, SkipFunctions

(* The places in a value that no braces of it hold. *)
Level(b, from, to) == {p \in from .. to : Depth(b, from, p - 1) = 0}
LevelStep(b, from, to, p) ==
    /\ ~Over(b, p)
    /\ ~Opens(b, p) => p + 1 \in Level(b, from, to)
    /\ Opens(b, p) => match_brace(b, p) \in p + 1 .. to - 1 /\ match_brace(b, p) + 1 \in Level(b, from, to)

(* From a place that no braces hold the walk goes to the next such place. *)
LEMMA OnLevel ==
  ASSUME NEW b \in Seq(Token), NEW from \in 1 .. Len(b) + 1, NEW to \in 1 .. Len(b) + 1, IsOther(b, from, to),
         NEW p \in Level(b, from, to), p # to
  PROVE LevelStep(b, from, to, p)
<1>0. Len(b) \in Nat /\ from \in Nat /\ to \in Nat /\ p \in Nat /\ from <= p /\ p < to /\ to <= Len(b) + 1
  BY LenProperties DEF Level
<1>1. p \in from .. to - 1 /\ p \in 1 .. Len(b) /\ ~(p > Len(b)) /\ (p - 1) + 1 = p /\ (p + 1) - 1 = p
  BY <1>0
<1>a. from <= (p - 1) + 1 /\ p - 1 <= p /\ p - 1 <= to - 1 /\ p <= (to - 1) + 1 /\ p - 1 \in Int /\ to - 1 \in Int
  BY <1>0
<1>2. StepOfDepth(b, p)
  BY <1>0, DepthOfOne
<1>3. DepthSplits(b, from, p - 1, p) /\ DepthSplits(b, from, p - 1, to - 1) /\ Depth(b, p, to - 1) \in Int
  <2>1. DepthSplits(b, from, p - 1, p)
    BY <1>0, <1>a, DepthIsSplit
  <2>2. DepthSplits(b, from, p - 1, to - 1)
    BY <1>0, <1>a, DepthIsSplit
  <2>3. DepthSplits(b, p, to - 1, to - 1) /\ Depth(b, p, to - 1) \in Int
    <3>1. to - 1 <= to - 1
      BY <1>0
    <3> QED
      BY <1>0, <1>a, <3>1, DepthIsSplit
  <2> QED
    BY <2>1, <2>2, <2>3
<1>4. Depth(b, from, p - 1) = 0 /\ Depth(b, from, to - 1) = 0
  BY DEF Level, IsOther
<1>5. Depth(b, from, p) = 0 + Depth(b, p, p)
  BY <1>1, <1>3, <1>4, Zenon DEF DepthSplits
<1>6. Depth(b, from, p) >= 0
  BY <1>1, Zenon DEF IsOther
<1>7. Over(b, p) => Depth(b, from, p) > 0
  BY <1>1, Zenon DEF IsOther, Over
<1>8. CASE Opens(b, p)
  <2>1. ~Over(b, p)
    <3>1. b[p].k # ","
      BY <1>8 DEF Opens
    <3> QED
      BY <1>1, <3>1, Zenon DEF Over
  <2>2. Depth(b, p, to - 1) = 0
    <3>1. Depth(b, from, to - 1) = 0 + Depth(b, p, to - 1)
      BY <1>1, <1>3, <1>4, Zenon DEF DepthSplits
    <3> QED
      BY <1>3, <1>4, <3>1
  <2>3. PICK m \in {0} \cup (p .. Len(b)) :
          m = match_brace(b, p) /\ (m # 0 => Depth(b, p, m) = 0) /\ m # 0 /\ m <= to - 1
    <3>1. p \in 1 .. Len(b) + 1 /\ to - 1 \in p .. Len(b)
      BY <1>0, <1>1
    <3> QED
      BY <2>2, <3>1, BraceMatchIs
  <2>4. m \in p + 1 .. Len(b)
    BY <1>1, <1>8, <2>3, MatchBehind
  <2>5. m \in p + 1 .. to - 1 /\ m + 1 \in from .. to /\ (m + 1) - 1 = m /\ m \in Int /\ p - 1 <= m
    BY <1>0, <2>3, <2>4
  <2>6. Depth(b, from, m) = 0
    <3>1. DepthSplits(b, from, p - 1, m)
      BY <1>0, <1>a, <2>5, DepthIsSplit
    <3>2. Depth(b, from, m) = 0 + Depth(b, p, m)
      BY <1>1, <1>4, <3>1, Zenon DEF DepthSplits
    <3>3. Depth(b, p, m) = 0
      BY <2>3
    <3> QED
      BY <3>2, <3>3
  <2>7. m + 1 \in Level(b, from, to)
    BY <2>5, <2>6, Zenon DEF Level
  <2> QED
    BY <1>8, <2>1, <2>3, <2>5, <2>7, Zenon DEF LevelStep
<1>9. CASE ~Opens(b, p)
  <2>1. Depth(b, p, p) \in {0, 0 - 1}
    BY <1>2, <1>9, Zenon DEF StepOfDepth, Opens
  <2>2. Depth(b, from, p) = 0
    BY <1>5, <1>6, <2>1
  <2>3. ~Over(b, p)
    BY <1>7, <2>2
  <2>4. p + 1 \in Level(b, from, to)
    <3>1. p + 1 \in from .. to
      BY <1>0
    <3> QED
      BY <1>1, <2>2, <3>1, Zenon DEF Level
  <2> QED
    BY <1>9, <2>3, <2>4, Zenon DEF LevelStep
<1> QED
  BY <1>8, <1>9

(* A value whose braces match is passed over as a whole.                    *)
LEMMA OtherSkipped ==
  ASSUME NEW b \in Seq(Token), NEW from \in 1 .. Len(b) + 1, NEW to \in 1 .. Len(b) + 1, IsOther(b, from, to),
         Over(b, to)
  PROVE skip_value(b, from) = to
<1>0. Len(b) \in Nat /\ from \in Nat /\ to \in Nat /\ to <= Len(b) + 1
  BY LenProperties
<1>1. PICK f : IsSkip(f, b)
  BY ValuesAreSkipped
<1>2. \A i \in 1 .. Len(b) + 1 : f[i] = SkipFrom(b, f, i)
  BY <1>1 DEF IsSkip
<1> DEFINE L == Level(b, from, to)
           Right == {p \in 1 .. to : p \in L => f[p] = to}
<1>4. ASSUME NEW p \in 1 .. to, \A q \in p + 1 .. to : q \in Right PROVE p \in Right
  <2> HIDE DEF L
  <2> SUFFICES ASSUME p \in L PROVE f[p] = to
    OBVIOUS
  <2>0. f[p] = SkipFrom(b, f, p)
    <3>1. p \in 1 .. Len(b) + 1
      BY <1>0
    <3> QED
      BY <1>2, <3>1
  <2>s. SkipCases(b, f, p)
    BY SkipSplits
  <2>1. CASE p = to
    BY <2>0, <2>1, <2>s, Zenon DEF SkipCases
  <2>2. CASE p # to
    <3>1. LevelStep(b, from, to, p)
      BY <2>2, OnLevel DEF L
    <3>5. ASSUME NEW q \in L, q > p PROVE f[q] = to
      <4>1. q \in p + 1 .. to
        <5>1. q \in from .. to
          BY DEF L, Level
        <5> QED
          BY <1>0, <3>5, <5>1
      <4>2. q \in Right
        <5> HIDE DEF Right
        <5> QED
          BY <1>4, <4>1
      <4> QED
        BY <4>2
    <3>6. CASE Opens(b, p)
      <4>1. PICK m : m = match_brace(b, p) /\ m \in p + 1 .. to - 1 /\ m + 1 \in L
        BY <3>1, <3>6 DEF LevelStep, L
      <4>2. m + 1 > p /\ m # 0
        BY <1>0, <4>1
      <4>3. f[m + 1] = to
        BY <3>5, <4>1, <4>2
      <4> QED
        BY <2>0, <2>s, <3>1, <3>6, <4>1, <4>2, <4>3, Zenon DEF SkipCases, LevelStep
    <3>7. CASE ~Opens(b, p)
      <4>1. p + 1 \in L /\ ~Over(b, p)
        BY <3>1, <3>7 DEF LevelStep, L
      <4>2. p + 1 > p
        BY <1>0
      <4>3. f[p + 1] = to
        BY <3>5, <4>1, <4>2
      <4> QED
        BY <2>0, <2>s, <3>7, <4>1, <4>3, Zenon DEF SkipCases
    <3> QED
      BY <3>6, <3>7
  <2> QED
    BY <2>1, <2>2
<1>5. 1 .. to \subseteq Right
  <2> HIDE DEF Right
  <2> QED
    BY <1>0, <1>4, LastWrong
<1>6. from \in 1 .. to /\ from \in L
  <2>1. from \in from .. to /\ from \in 1 .. to
    <3>1. from <= to
      BY Zenon DEF IsOther
    <3> QED
      BY <1>0, <3>1
  <2>2. Depth(b, from, from - 1) = 0
    BY <1>0, DepthOfNone
  <2> QED
    BY <2>1, <2>2, Zenon DEF Level
<1>7. f[from] = to
  BY <1>5, <1>6
<1> QED
  BY <1>1, <1>7 DEF IsSkip
-----------------------------------------------------------------------------
(* What is wanted. *)
FieldTree == [at : Nat, to : Nat, sums : Seq(Seq(Term))]
WantAt(b, i) == {v \in [ok : BOOLEAN, out : Words, i : Nat] : v.i \in i .. Len(b) + 1}
NamesOne(b, i, vars) == Is(b, i, {"id"}) /\ b[i].v \in DOMAIN vars
NoMatch(b, open, end) == open > Len(b) \/ end = 0
WantStart(b, i) == IF Is(b, i, {"id"}) THEN i + 1 ELSE i
WantCases(b, i, vars, open, end) ==
    /\ IsName(b, i, "nil") => read_want(b, i, vars) = Value(TRUE, <<>>, i + 1)
    /\ ~IsName(b, i, "nil") /\ NamesOne(b, i, vars) => read_want(b, i, vars) = Value(TRUE, <<vars[b[i].v]>>, i + 1)
    /\ ~IsName(b, i, "nil") /\ ~NamesOne(b, i, vars) /\ NoMatch(b, open, end) =>
         read_want(b, i, vars) = Value(TRUE, <<>>, open)
    /\ ~IsName(b, i, "nil") /\ ~NamesOne(b, i, vars) /\ ~NoMatch(b, open, end) =>
         read_want(b, i, vars) = Value(TRUE, Wants(b, end, vars)[open + 1], end + 1)

(* The cases of read_want. *)
LEMMA WantSplits ==
  ASSUME NEW b, NEW i, NEW vars, NEW open, open = Upto(b, WantStart(b, i), {"{"}), NEW end, end = match_brace(b, open)
  PROVE WantCases(b, i, vars, open, end)
<1>1. CASE IsName(b, i, "nil")
  BY <1>1, Zenon DEF WantCases, read_want
<1>2. CASE ~IsName(b, i, "nil") /\ NamesOne(b, i, vars)
  BY <1>2, Zenon DEF WantCases, read_want, NamesOne
<1>3. CASE ~IsName(b, i, "nil") /\ ~NamesOne(b, i, vars)
  <2>1. CASE NoMatch(b, open, end)
    BY <1>3, <2>1, Zenon DEF WantCases, read_want, NamesOne, NoMatch, WantStart
  <2>2. CASE ~NoMatch(b, open, end)
    BY <1>3, <2>2, Zenon DEF WantCases, read_want, NamesOne, NoMatch, WantStart
  <2> QED
    BY <2>1, <2>2
<1> QED
  BY <1>1, <1>2, <1>3

(* The values of read_want. *)
LEMMA WantIn ==
  ASSUME NEW b \in Seq(Token), NEW i \in 1 .. Len(b) + 1, NEW out \in Words, NEW m \in i .. Len(b) + 1
  PROVE Value(TRUE, out, m) \in WantAt(b, i)
<1>1. m \in Nat
  OBVIOUS
<1> QED
  BY <1>1 DEF WantAt, Value

(* Upto stays where a mark stands. *)
LEMMA UptoHere ==
  ASSUME NEW b \in Seq(Token), NEW i \in 1 .. Len(b), NEW kinds, b[i].k \in kinds
  PROVE Upto(b, i, kinds) = i
<1>0. Len(b) \in Nat
  BY LenProperties
<1>1. i \in 1 .. Len(b) + 1
  BY <1>0, WithinOne
<1>2. PICK u : u = Upto(b, i, kinds) /\ u \in i .. Len(b) + 1 /\ \A j \in i .. u - 1 : b[j].k \notin kinds
  BY <1>1, UptoIs
<1>3. i \notin i .. u - 1
  BY <1>2
<1>4. u = i
  BY <1>0, <1>2, <1>3
<1> QED
  BY <1>2, <1>4

(* A token that is of a kind is there. *)
WithinBy(b, i) == i <= Len(b)
LEMMA IsWithin ==
  ASSUME NEW b, NEW i, NEW kinds, Is(b, i, kinds)
  PROVE WithinBy(b, i)
BY Zenon DEF Is, WithinBy

(* What read_want yields are words, and it stops at its place or behind    *)
(* it.                                                                     *)
LEMMA WantType ==
  ASSUME NEW b \in Seq(Token), NEW vars, IsVars(vars), NEW i \in 1 .. Len(b) + 1
  PROVE read_want(b, i, vars) \in WantAt(b, i)
<1>0. Len(b) \in Nat
  BY LenProperties
<1>a. Is(b, i, {"id"}) => i + 1 \in i .. Len(b) + 1
  <2>1. ASSUME Is(b, i, {"id"}) PROVE WithinBy(b, i)
    BY <2>1, IsWithin
  <2>2. ASSUME WithinBy(b, i) PROVE i + 1 \in i .. Len(b) + 1
    BY <1>0, <2>2 DEF WithinBy
  <2> QED
    BY <2>1, <2>2
<1>b. i \in i .. Len(b) + 1
  BY <1>0
<1>1. PICK from \in i .. Len(b) + 1 : from = WantStart(b, i)
  BY <1>a, <1>b, Zenon DEF WantStart
<1>2. PICK open \in i .. Len(b) + 1 : open = Upto(b, from, {"{"})
  <2>1. from \in 1 .. Len(b) + 1
    BY <1>0
  <2>2. PICK open : open = Upto(b, from, {"{"})
    OBVIOUS
  <2>3. open \in from .. Len(b) + 1
    BY <2>1, <2>2, UptoIs
  <2>4. open \in i .. Len(b) + 1
    BY <1>0, <2>3
  <2> QED
    BY <2>2, <2>4
<1>3. PICK end \in {0} \cup (open .. Len(b)) : end = match_brace(b, open)
  <2>1. open \in 1 .. Len(b) + 1
    BY <1>0
  <2> QED
    BY <2>1, BraceMatchIs
<1>4. WantCases(b, i, vars, open, end)
  BY <1>1, <1>2, <1>3, WantSplits
<1>5. <<>> \in Words
  BY DEF Words
<1>6. CASE IsName(b, i, "nil")
  <2>1. i + 1 \in i .. Len(b) + 1
    BY <1>6, <1>a DEF IsName
  <2>2. Value(TRUE, <<>>, i + 1) \in WantAt(b, i)
    BY <1>5, <2>1, WantIn
  <2> QED
    BY <1>4, <1>6, <2>2, Zenon DEF WantCases
<1>7. CASE ~IsName(b, i, "nil") /\ NamesOne(b, i, vars)
  <2>1. i + 1 \in i .. Len(b) + 1
    BY <1>7, <1>a, Zenon DEF NamesOne
  <2>2. <<vars[b[i].v]>> \in Words
    <3>1. vars[b[i].v] \in Seq(STRING)
      BY <1>7, Zenon DEF NamesOne, IsVars
    <3> QED
      BY <3>1 DEF Words
  <2>3. Value(TRUE, <<vars[b[i].v]>>, i + 1) \in WantAt(b, i)
    BY <2>1, <2>2, WantIn
  <2> QED
    BY <1>4, <1>7, <2>3, Zenon DEF WantCases
<1>8. CASE ~IsName(b, i, "nil") /\ ~NamesOne(b, i, vars) /\ NoMatch(b, open, end)
  <2>1. Value(TRUE, <<>>, open) \in WantAt(b, i)
    BY <1>5, WantIn
  <2> QED
    BY <1>4, <1>8, <2>1, Zenon DEF WantCases
<1>9. CASE ~IsName(b, i, "nil") /\ ~NamesOne(b, i, vars) /\ ~NoMatch(b, open, end)
  <2>0. end # 0
    BY <1>9, Zenon DEF NoMatch
  <2>1. end \in 0 .. Len(b) /\ end + 1 \in i .. Len(b) + 1 /\ open + 1 \in 1 .. Len(b) + 2
    BY <1>0, <2>0
  <2>2. Wants(b, end, vars)[open + 1] \in Words
    <3>1. IsWords(Wants(b, end, vars), b, end, vars)
      BY <2>1, WordsAreRead
    <3>2. Wants(b, end, vars) \in [1 .. Len(b) + 2 -> Words]
      BY <3>1 DEF IsWords, WordFunctions
    <3> QED
      BY <2>1, <3>2
  <2>3. Value(TRUE, Wants(b, end, vars)[open + 1], end + 1) \in WantAt(b, i)
    BY <2>1, <2>2, WantIn
  <2> QED
    BY <1>4, <1>9, <2>3, Zenon DEF WantCases
<1> QED
  BY <1>6, <1>7, <1>8, <1>9

(* A list ends somewhere. *)
IsWant(b, f, decls) == IsNil(b, f) \/ IsNamed(b, f, decls) \/ IsList(b, f, decls)
LEMMA ItemStartType ==
  ASSUME NEW sums \in Seq(Seq(Term)), NEW b, NEW decls, NEW start \in Nat, start # 0, NEW end,
         AreItems(b, sums, start, end, decls)
  PROVE end \in Nat
<1>n. PICK N \in Nat : N = Len(sums)
  BY LenProperties
<1>d. DOMAIN sums = 1 .. N
  BY <1>n, LenProperties
<1>1. PICK k : k = ItemStart(sums, start, N + 1) /\ end \in {k - 1, k}
  BY <1>n, Zenon DEF AreItems
<1>2. k \in Nat /\ k # 0
  <2>1. CASE N = 0
    <3>1. N + 1 = 1
      BY <2>1
    <3>2. k = start
      BY <1>1, <3>1, Zenon DEF ItemStart
    <3> QED
      BY <3>2
  <2>2. CASE N # 0
    <3>1. N \in 1 .. N /\ N + 1 # 1 /\ (N + 1) - 1 = N
      BY <1>n, <2>2
    <3>2. IsSum(b, sums[N], ItemStart(sums, start, N), decls)
      BY <1>d, <3>1, Zenon DEF AreItems
    <3>3. sums[N] \in Seq(Term) /\ sums[N] # <<>>
      <4>1. sums[N] # <<>>
        BY <3>2, Zenon DEF IsSum
      <4> QED
        BY <1>n, <3>1, <4>1
    <3>4. PICK e \in Nat : e = SumEnd(sums[N])
      BY <3>3, SumEndType
    <3>5. k = e + 1
      BY <1>1, <3>1, <3>4, Zenon DEF ItemStart
    <3> QED
      BY <3>4, <3>5
  <2> QED
    BY <2>1, <2>2
<1> QED
  BY <1>1, <1>2

(* A list of words is read as its items. *)
LEMMA ListWanted ==
  ASSUME NEW decls \in Seq(Decl), NEW b \in Seq(Token), NEW f \in FieldTree, f.at # 0, IsList(b, f, decls)
  PROVE /\ read_want(b, f.at + 2, extract_vars(decls)) = Value(TRUE, ItemsMean(b, f.sums, decls), f.to)
        /\ ItemsMean(b, f.sums, decls) \in Words /\ f.to \in f.at + 3 .. Len(b) + 1
<1>0. Len(b) \in Nat
  BY LenProperties
<1>a. PICK at \in Nat, to \in Nat, sums \in Seq(Seq(Term)) : at = f.at /\ to = f.to /\ sums = f.sums
  BY DEF FieldTree
<1>b. PICK i \in Nat, open \in Nat, start \in Nat, end \in Int :
        i = at + 2 /\ open = at + 3 /\ start = at + 4 /\ end = to - 1
  OBVIOUS
<1>c. open = i + 1 /\ start = open + 1 /\ open = start - 1 /\ end + 1 = to /\ end - 1 = to - 2 /\ start # 0 /\ i # 0
  BY <1>b
<1>1. Is(b, i, {"id"}) /\ b[i].v # "nil" /\ Declared(decls, b[i].v) = {}
  BY <1>a, <1>b, Zenon DEF IsList
<1>2. Is(b, open, {"{"}) /\ Is(b, end, {"}"}) /\ AreItems(b, sums, start, end, decls)
  BY <1>a, <1>b, Zenon DEF IsList
<1>3. \A j \in open + 1 .. end - 1 : b[j].k \notin {"{", "}"}
  BY <1>a, <1>b, <1>c, Zenon DEF IsList
<1>4. end \in Nat
  BY <1>2, <1>c, ItemStartType
<1>5. Bracketed(b, start, end)
  BY <1>2, <1>c, Zenon DEF Bracketed
<1>6. /\ end \in start .. Len(b) /\ ItemsMean(b, sums, decls) \in Words
      /\ Wants(b, end, extract_vars(decls))[start] = ItemsMean(b, sums, decls)
  <2>1. AreItems(b, sums, start, end, decls) /\ start # 0
    BY <1>2, <1>c
  <2> QED
    BY <1>4, <1>5, <2>1, ListRead
<1>7. open \in 1 .. Len(b) /\ end \in open + 1 .. Len(b) /\ ~(open > Len(b)) /\ end # 0
  BY <1>0, <1>c, <1>6
<1>8. b[open].k = "{" /\ b[end].k = "}"
  BY <1>2, Zenon DEF Is
<1>9. open = Upto(b, WantStart(b, i), {"{"})
  <2>1. WantStart(b, i) = open
    BY <1>1, <1>c, Zenon DEF WantStart
  <2>2. b[open].k \in {"{"}
    BY <1>8
  <2>3. Upto(b, open, {"{"}) = open
    BY <1>7, <2>2, UptoHere
  <2> QED
    BY <2>1, <2>3
<1>10. end = match_brace(b, open)
  <2>1. Encloses(b, open, end)
    BY <1>3, <1>8 DEF Encloses
  <2> QED
    BY <1>7, <2>1, MatchFlat
<1>11. WantCases(b, i, extract_vars(decls), open, end)
  BY <1>9, <1>10, WantSplits
<1>12. ~IsName(b, i, "nil") /\ ~NamesOne(b, i, extract_vars(decls)) /\ ~NoMatch(b, open, end)
  <2>1. b[i].v \notin DOMAIN extract_vars(decls)
    BY <1>1, ExtractUnknown
  <2>2. ~NoMatch(b, open, end)
    BY <1>7, Zenon DEF NoMatch
  <2> QED
    BY <1>1, <2>1, <2>2, Zenon DEF IsName, NamesOne
<1>13. read_want(b, i, extract_vars(decls)) = Value(TRUE, ItemsMean(b, sums, decls), to)
  BY <1>6, <1>11, <1>12, <1>c, Zenon DEF WantCases
<1>14. to \in at + 3 .. Len(b) + 1
  BY <1>0, <1>6, <1>b
<1> QED
  BY <1>6, <1>13, <1>14, <1>a, <1>b, Zenon

(* What is wanted is read as what it means: nil, a name, or a list. *)
LEMMA WantRead ==
  ASSUME NEW decls \in Seq(Decl), NEW b \in Seq(Token), NEW f \in FieldTree, f.at # 0, IsWant(b, f, decls)
  PROVE /\ read_want(b, f.at + 2, extract_vars(decls)) = Value(TRUE, WantMeans(b, f, decls), f.to)
        /\ WantMeans(b, f, decls) \in Words /\ f.to \in f.at + 3 .. Len(b) + 1
<1>0. Len(b) \in Nat
  BY LenProperties
<1> DEFINE vars == extract_vars(decls)
<1>a. PICK at \in Nat, to \in Nat : at = f.at /\ to = f.to
  BY DEF FieldTree
<1>b. PICK i \in Nat : i = at + 2
  OBVIOUS
<1>c. i + 1 = at + 3
  BY <1>b
<1>1. CASE IsNil(b, f)
  <2>1. IsName(b, i, "nil") /\ to = i + 1
    BY <1>1, <1>a, <1>b, <1>c, Zenon DEF IsNil
  <2>2. read_want(b, i, vars) = Value(TRUE, <<>>, i + 1)
    BY <2>1, WantSplits, Zenon DEF WantCases
  <2>3. WithinBy(b, i)
    BY <2>1, IsWithin DEF IsName
  <2>4. to \in at + 3 .. Len(b) + 1
    <3>1. to = i + 1
      BY <2>1
    <3> QED
      BY <1>0, <1>b, <2>3, <3>1 DEF WithinBy
  <2>5. WantMeans(b, f, decls) = <<>> /\ <<>> \in Words
    BY <1>1 DEF WantMeans, Words
  <2> QED
    BY <1>a, <1>b, <2>1, <2>2, <2>4, <2>5, Zenon
<1>2. CASE ~IsNil(b, f) /\ IsNamed(b, f, decls)
  <2>1. Is(b, i, {"id"}) /\ b[i].v # "nil" /\ Known(decls, b[i].v) /\ to = i + 1
    BY <1>2, <1>a, <1>b, <1>c, Zenon DEF IsNamed
  <2>2. b[i].v \in DOMAIN vars /\ vars[b[i].v] = ValueOf(decls, b[i].v)
    BY <2>1, ExtractKnown
  <2>3. ~IsName(b, i, "nil") /\ NamesOne(b, i, vars)
    BY <2>1, <2>2, Zenon DEF IsName, NamesOne
  <2>4. read_want(b, i, vars) = Value(TRUE, <<vars[b[i].v]>>, i + 1)
    BY <2>3, WantSplits, Zenon DEF WantCases
  <2>5. WithinBy(b, i)
    BY <2>1, IsWithin
  <2>6. to \in at + 3 .. Len(b) + 1
    <3>1. to = i + 1
      BY <2>1
    <3> QED
      BY <1>0, <1>b, <2>5, <3>1 DEF WithinBy
  <2>7. WantMeans(b, f, decls) = <<vars[b[i].v]>>
    BY <1>2, <1>a, <1>b, <2>2, Zenon DEF WantMeans
  <2>8. <<vars[b[i].v]>> \in Words
    <3>1. vars[b[i].v] \in Seq(STRING)
      BY <2>2, ExtractType, Zenon DEF IsVars
    <3> QED
      BY <3>1 DEF Words
  <2> QED
    BY <1>a, <1>b, <2>1, <2>4, <2>6, <2>7, <2>8, Zenon
<1>3. CASE IsList(b, f, decls) /\ ~IsNil(b, f) /\ ~IsNamed(b, f, decls)
  <2>1. WantMeans(b, f, decls) = ItemsMean(b, f.sums, decls)
    BY <1>3, Zenon DEF WantMeans
  <2> QED
    BY <1>3, <2>1, ListWanted
<1> QED
  BY <1>1, <1>2, <1>3 DEF IsWant
-----------------------------------------------------------------------------
(* The fields of an entry. *)
Case == [name : Seq(STRING), input : Seq(STRING), want : Words, have_want : BOOLEAN]
NameEndsAt(b, i) == {j \in i .. Len(b) : b[j].k = ":" \/ (j > i /\ b[j - 1].ws)}

(* NameEnd yields the first colon or white space, or the place behind the  *)
(* end.                                                                    *)
LEMMA NameEndIs ==
  ASSUME NEW b \in Seq(Token), NEW i \in 1 .. Len(b) + 1
  PROVE /\ NameEnd(b, i) \in i .. Len(b) + 1
        /\ NameEndsAt(b, i) # {} => NameEnd(b, i) \in NameEndsAt(b, i)
        /\ \A j \in NameEndsAt(b, i) : NameEnd(b, i) <= j
<1> DEFINE at == NameEndsAt(b, i)
<1>0. Len(b) \in Nat
  BY LenProperties
<1>1. NameEnd(b, i) = IF at = {} THEN Len(b) + 1 ELSE CHOOSE j \in at : \A k \in at : j <= k
  BY Zenon DEF NameEnd, NameEndsAt
<1>2. at \subseteq i .. Len(b)
  BY Zenon DEF NameEndsAt
<1> HIDE DEF at
<1>3. CASE at = {}
  <2>1. NameEnd(b, i) = Len(b) + 1
    BY <1>1, <1>3, Zenon
  <2> QED
    BY <1>0, <1>3, <2>1 DEF at
<1>4. CASE at # {}
  <2>1. PICK u : u = NameEnd(b, i)
    OBVIOUS
  <2>2. u = CHOOSE j \in at : \A k \in at : j <= k
    BY <1>1, <1>4, <2>1, Zenon
  <2>3. at \in SUBSET Nat
    BY <1>2
  <2>4. u \in at /\ \A k \in at : u <= k
    BY <1>4, <2>2, <2>3, FirstOfSet
  <2>5. u \in i .. Len(b) + 1
    BY <1>0, <1>2, <2>4
  <2> QED
    BY <2>1, <2>4, <2>5, Zenon DEF at
<1> QED
  BY <1>3, <1>4

TextThen(b, v, f, key) == [f[StepOver(b, v.i, ",")] EXCEPT ![key] = v.out]
WantThen(b, v, f) == [f[StepOver(b, v.i, ",")] EXCEPT !.want = v.out, !.have_want = TRUE]
Named(b, i, names) == NameEnd(b, i) = i + 1 /\ Is(b, i, {"id"}) /\ b[i].v \in names
FieldsFrom(b, vars, f, i) ==
    IF i > Len(b) THEN EmptyCase
    ELSE IF ~Is(b, NameEnd(b, i), {":"}) THEN f[Upto(b, NameEnd(b, i), {","}) + 1]
    ELSE IF Named(b, i, {"name", "input"}) THEN TextThen(b, read_concat_expr(b, NameEnd(b, i) + 1, vars), f, b[i].v)
    ELSE IF Named(b, i, {"want"}) THEN WantThen(b, read_want(b, NameEnd(b, i) + 1, vars), f)
    ELSE f[StepOver(b, skip_value(b, NameEnd(b, i) + 1), ",")]
FieldFunctions(b) == [1 .. Len(b) + 2 -> Case]

(* Where the walk goes on behind a field. *)
Colon(b, i) == Is(b, NameEnd(b, i), {":"})
IsText(b, i) == Named(b, i, {"name", "input"})
FieldCases(b, vars, f, i, j) ==
    /\ i > Len(b) => FieldsFrom(b, vars, f, i) = EmptyCase
    /\ ~(i > Len(b)) /\ ~Colon(b, i) => FieldsFrom(b, vars, f, i) = f[Upto(b, j, {","}) + 1]
    /\ ~(i > Len(b)) /\ Colon(b, i) /\ IsText(b, i) =>
         FieldsFrom(b, vars, f, i) = TextThen(b, read_concat_expr(b, j + 1, vars), f, b[i].v)
    /\ ~(i > Len(b)) /\ Colon(b, i) /\ ~IsText(b, i) /\ Named(b, i, {"want"}) =>
         FieldsFrom(b, vars, f, i) = WantThen(b, read_want(b, j + 1, vars), f)
    /\ ~(i > Len(b)) /\ Colon(b, i) /\ ~IsText(b, i) /\ ~Named(b, i, {"want"}) =>
         FieldsFrom(b, vars, f, i) = f[StepOver(b, skip_value(b, j + 1), ",")]

(* The cases of a step of parse_case. *)
LEMMA FieldSplits ==
  ASSUME NEW b, NEW vars, NEW f, NEW i, NEW j, j = NameEnd(b, i)
  PROVE FieldCases(b, vars, f, i, j)
<1>1. CASE i > Len(b)
  BY <1>1, Zenon DEF FieldCases, FieldsFrom
<1>2. CASE ~(i > Len(b)) /\ ~Colon(b, i)
  BY <1>2, Zenon DEF FieldCases, FieldsFrom, Colon
<1>3. CASE ~(i > Len(b)) /\ Colon(b, i) /\ IsText(b, i)
  BY <1>3, Zenon DEF FieldCases, FieldsFrom, Colon, IsText
<1>4. CASE ~(i > Len(b)) /\ Colon(b, i) /\ ~IsText(b, i) /\ Named(b, i, {"want"})
  BY <1>4, Zenon DEF FieldCases, FieldsFrom, Colon, IsText
<1>5. CASE ~(i > Len(b)) /\ Colon(b, i) /\ ~IsText(b, i) /\ ~Named(b, i, {"want"})
  BY <1>5, Zenon DEF FieldCases, FieldsFrom, Colon, IsText
<1> QED
  BY <1>1, <1>2, <1>3, <1>4, <1>5

(* The case that the walk starts from. *)
LEMMA EmptyCaseType == EmptyCase \in Case
BY DEF EmptyCase, Case, Words

(* Where the walk can go from a place. *)
LEMMA FieldPlaces ==
  ASSUME NEW b \in Seq(Token), NEW vars, IsVars(vars), NEW i \in 1 .. Len(b), NEW j, j = NameEnd(b, i)
  PROVE /\ Upto(b, j, {","}) + 1 \in i + 1 .. Len(b) + 2
        /\ Colon(b, i) =>
             /\ j + 1 \in 1 .. Len(b) + 1
             /\ StepOver(b, read_concat_expr(b, j + 1, vars).i, ",") \in i + 1 .. Len(b) + 2
             /\ StepOver(b, read_want(b, j + 1, vars).i, ",") \in i + 1 .. Len(b) + 2
             /\ StepOver(b, skip_value(b, j + 1), ",") \in i + 1 .. Len(b) + 2
             /\ read_concat_expr(b, j + 1, vars).out \in Seq(STRING) /\ read_want(b, j + 1, vars).out \in Words
<1>0. Len(b) \in Nat
  BY LenProperties
<1>1. j \in i .. Len(b) + 1
  <2>1. i \in 1 .. Len(b) + 1
    BY <1>0, WithinOne
  <2> QED
    BY <2>1, NameEndIs
<1>2. PICK u \in j .. Len(b) + 1 : u = Upto(b, j, {","})
  <2>1. j \in 1 .. Len(b) + 1
    BY <1>0, <1>1
  <2> QED
    BY <2>1, UptoIs
<1>3. u + 1 \in i + 1 .. Len(b) + 2
  BY <1>0, <1>1
<1>s. ASSUME NEW v \in j + 1 .. Len(b) + 1 PROVE StepOver(b, v, ",") \in i + 1 .. Len(b) + 2
  <2>1. v \in 1 .. Len(b) + 1
    BY <1>0, <1>1
  <2>2. PICK w \in v .. Len(b) + 1 : w = StepOver(b, v, ",")
    BY <2>1, StepOverIs
  <2>3. w \in i + 1 .. Len(b) + 2
    <3>1. v \in Nat /\ i + 1 <= v
      BY <1>1
    <3> QED
      BY <1>0, <3>1
  <2> QED
    BY <2>2, <2>3
<1>4. ASSUME Colon(b, i)
      PROVE /\ j + 1 \in 1 .. Len(b) + 1
            /\ StepOver(b, read_concat_expr(b, j + 1, vars).i, ",") \in i + 1 .. Len(b) + 2
            /\ StepOver(b, read_want(b, j + 1, vars).i, ",") \in i + 1 .. Len(b) + 2
            /\ StepOver(b, skip_value(b, j + 1), ",") \in i + 1 .. Len(b) + 2
            /\ read_concat_expr(b, j + 1, vars).out \in Seq(STRING) /\ read_want(b, j + 1, vars).out \in Words
  <2>1. WithinBy(b, j)
    BY <1>4, IsWithin DEF Colon
  <2>2. PICK k \in 1 .. Len(b) + 1 : k = j + 1
    <3>1. j + 1 \in 1 .. Len(b) + 1
      BY <1>0, <1>1, <2>1 DEF WithinBy
    <3> QED
      BY <3>1
  <2>3. /\ read_concat_expr(b, k, vars).i \in k .. Len(b) + 1 /\ read_concat_expr(b, k, vars).out \in Seq(STRING)
    BY ConcatType DEF TextAt, Text
  <2>4. /\ read_want(b, k, vars).i \in k .. Len(b) + 1 /\ read_want(b, k, vars).out \in Words
    BY WantType DEF WantAt
  <2>5. skip_value(b, k) \in k .. Len(b) + 1
    BY SkipType
  <2> QED
    BY <1>s, <2>2, <2>3, <2>4, <2>5, Zenon
<1> QED
  BY <1>2, <1>3, <1>4

(* A field sets its part of the case. *)
LEMMA TextThenType ==
  ASSUME NEW b, NEW v, NEW f, NEW key \in {"name", "input"}, f[StepOver(b, v.i, ",")] \in Case, v.out \in Seq(STRING)
  PROVE TextThen(b, v, f, key) \in Case
<1>1. PICK c \in Case, t \in Seq(STRING) : c = f[StepOver(b, v.i, ",")] /\ t = v.out
  OBVIOUS
<1>2. [c EXCEPT ![key] = t] \in Case
  BY DEF Case
<1> QED
  BY <1>1, <1>2 DEF TextThen

(* So does a want. *)
LEMMA WantThenType ==
  ASSUME NEW b, NEW v, NEW f, f[StepOver(b, v.i, ",")] \in Case, v.out \in Words
  PROVE WantThen(b, v, f) \in Case
<1>1. PICK c \in Case, t \in Words : c = f[StepOver(b, v.i, ",")] /\ t = v.out
  OBVIOUS
<1>2. [c EXCEPT !.want = t, !.have_want = TRUE] \in Case
  BY DEF Case
<1> QED
  BY <1>1, <1>2 DEF WantThen

(* What a step over the fields yields has the right type, and depends on   *)
(* what is behind only.                                                    *)
LEMMA FieldsFromType ==
  ASSUME NEW b \in Seq(Token), NEW vars, IsVars(vars), NEW f \in FieldFunctions(b), NEW i \in 1 .. Len(b) + 2
  PROVE FieldsFrom(b, vars, f, i) \in Case
<1>0. Len(b) \in Nat
  BY LenProperties
<1>f. ASSUME NEW k \in i + 1 .. Len(b) + 2 PROVE f[k] \in Case
  <2>1. k \in 1 .. Len(b) + 2
    BY <1>0
  <2> QED
    BY <2>1 DEF FieldFunctions
<1>1. PICK j : j = NameEnd(b, i)
  OBVIOUS
<1>2. FieldCases(b, vars, f, i, j)
  BY <1>1, FieldSplits
<1>3. CASE i > Len(b)
  BY <1>2, <1>3, EmptyCaseType, Zenon DEF FieldCases
<1>4. CASE ~(i > Len(b))
  <2>1. i \in 1 .. Len(b)
    BY <1>0, <1>4
  <2>2. CASE ~Colon(b, i)
    <3>1. Upto(b, j, {","}) + 1 \in i + 1 .. Len(b) + 2
      BY <1>1, <2>1, FieldPlaces
    <3>2. FieldsFrom(b, vars, f, i) = f[Upto(b, j, {","}) + 1]
      BY <1>2, <1>4, <2>2, Zenon DEF FieldCases
    <3> QED
      BY <1>f, <3>1, <3>2, Zenon
  <2>3. CASE Colon(b, i) /\ IsText(b, i)
    <3>1. /\ StepOver(b, read_concat_expr(b, j + 1, vars).i, ",") \in i + 1 .. Len(b) + 2
          /\ read_concat_expr(b, j + 1, vars).out \in Seq(STRING)
      BY <1>1, <2>1, <2>3, FieldPlaces
    <3>2. PICK v : v = read_concat_expr(b, j + 1, vars)
      OBVIOUS
    <3>3. b[i].v \in {"name", "input"}
      BY <2>3, Zenon DEF IsText, Named
    <3>4. f[StepOver(b, v.i, ",")] \in Case /\ v.out \in Seq(STRING)
      BY <1>f, <3>1, <3>2, Zenon
    <3>5. TextThen(b, v, f, b[i].v) \in Case
      BY <3>3, <3>4, TextThenType
    <3> QED
      BY <1>2, <1>4, <2>3, <3>2, <3>5, Zenon DEF FieldCases
  <2>4. CASE Colon(b, i) /\ ~IsText(b, i) /\ Named(b, i, {"want"})
    <3>1. /\ StepOver(b, read_want(b, j + 1, vars).i, ",") \in i + 1 .. Len(b) + 2
          /\ read_want(b, j + 1, vars).out \in Words
      BY <1>1, <2>1, <2>4, FieldPlaces
    <3>2. PICK v : v = read_want(b, j + 1, vars)
      OBVIOUS
    <3>4. f[StepOver(b, v.i, ",")] \in Case /\ v.out \in Words
      BY <1>f, <3>1, <3>2, Zenon
    <3>5. WantThen(b, v, f) \in Case
      BY <3>4, WantThenType
    <3> QED
      BY <1>2, <1>4, <2>4, <3>2, <3>5, Zenon DEF FieldCases
  <2>5. CASE Colon(b, i) /\ ~IsText(b, i) /\ ~Named(b, i, {"want"})
    <3>1. StepOver(b, skip_value(b, j + 1), ",") \in i + 1 .. Len(b) + 2
      BY <1>1, <2>1, <2>5, FieldPlaces
    <3>2. FieldsFrom(b, vars, f, i) = f[StepOver(b, skip_value(b, j + 1), ",")]
      BY <1>2, <1>4, <2>5, Zenon DEF FieldCases
    <3> QED
      BY <1>f, <3>1, <3>2, Zenon
  <2> QED
    BY <2>2, <2>3, <2>4, <2>5
<1> QED
  BY <1>3, <1>4

(* It depends on the cases behind its place only. *)
LEMMA FieldsFromAgrees ==
  ASSUME NEW b \in Seq(Token), NEW vars, IsVars(vars), NEW f, NEW g, NEW i \in 1 .. Len(b) + 2,
         \A j \in i + 1 .. Len(b) + 2 : f[j] = g[j]
  PROVE FieldsFrom(b, vars, f, i) = FieldsFrom(b, vars, g, i)
<1>0. Len(b) \in Nat
  BY LenProperties
<1>f. ASSUME NEW k \in i + 1 .. Len(b) + 2 PROVE f[k] = g[k]
  OBVIOUS
<1>1. PICK j : j = NameEnd(b, i)
  OBVIOUS
<1>2. FieldCases(b, vars, f, i, j) /\ FieldCases(b, vars, g, i, j)
  BY <1>1, FieldSplits
<1>3. CASE i > Len(b)
  BY <1>2, <1>3, Zenon DEF FieldCases
<1>4. CASE ~(i > Len(b))
  <2>1. i \in 1 .. Len(b)
    BY <1>0, <1>4
  <2>2. CASE ~Colon(b, i)
    <3>1. Upto(b, j, {","}) + 1 \in i + 1 .. Len(b) + 2
      BY <1>1, <2>1, FieldPlaces
    <3>2. f[Upto(b, j, {","}) + 1] = g[Upto(b, j, {","}) + 1]
      BY <1>f, <3>1
    <3> QED
      BY <1>2, <1>4, <2>2, <3>2, Zenon DEF FieldCases
  <2>3. CASE Colon(b, i) /\ IsText(b, i)
    <3>1. StepOver(b, read_concat_expr(b, j + 1, vars).i, ",") \in i + 1 .. Len(b) + 2
      BY <1>1, <2>1, <2>3, FieldPlaces
    <3>2. f[StepOver(b, read_concat_expr(b, j + 1, vars).i, ",")] = g[StepOver(b, read_concat_expr(b, j + 1, vars).i, ",")]
      BY <1>f, <3>1
    <3> QED
      BY <1>2, <1>4, <2>3, <3>2, Zenon DEF FieldCases, TextThen
  <2>4. CASE Colon(b, i) /\ ~IsText(b, i) /\ Named(b, i, {"want"})
    <3>1. StepOver(b, read_want(b, j + 1, vars).i, ",") \in i + 1 .. Len(b) + 2
      BY <1>1, <2>1, <2>4, FieldPlaces
    <3>2. f[StepOver(b, read_want(b, j + 1, vars).i, ",")] = g[StepOver(b, read_want(b, j + 1, vars).i, ",")]
      BY <1>f, <3>1
    <3> QED
      BY <1>2, <1>4, <2>4, <3>2, Zenon DEF FieldCases, WantThen
  <2>5. CASE Colon(b, i) /\ ~IsText(b, i) /\ ~Named(b, i, {"want"})
    <3>1. StepOver(b, skip_value(b, j + 1), ",") \in i + 1 .. Len(b) + 2
      BY <1>1, <2>1, <2>5, FieldPlaces
    <3>2. f[StepOver(b, skip_value(b, j + 1), ",")] = g[StepOver(b, skip_value(b, j + 1), ",")]
      BY <1>f, <3>1
    <3> QED
      BY <1>2, <1>4, <2>5, <3>2, Zenon DEF FieldCases
  <2> QED
    BY <2>2, <2>3, <2>4, <2>5
<1> QED
  BY <1>3, <1>4

(* The recursion of parse_case is well defined. *)
IsFields(f, b, vars) ==
    /\ f \in FieldFunctions(b) /\ \A i \in 1 .. Len(b) + 2 : f[i] = FieldsFrom(b, vars, f, i)
    /\ parse_case(b, vars) = f[1]
LEMMA FieldsAreRead ==
  ASSUME NEW b \in Seq(Token), NEW vars, IsVars(vars)
  PROVE \E f : IsFields(f, b, vars)
<1> DEFINE n == Len(b) + 2
           G == FieldFunctions(b)
           Body(g, i) == FieldsFrom(b, vars, g, i)
           F == [g \in G |-> [i \in 1 .. n |-> Body(g, i)]]
           start == [i \in 1 .. n |-> EmptyCase]
<1>0. n \in Nat /\ Len(b) \in Nat
  BY LenProperties
<1>1. start \in G
  BY EmptyCaseType DEF FieldFunctions
<1>2. ASSUME NEW g \in G, NEW i \in 1 .. n PROVE Body(g, i) \in Case
  BY FieldsFromType
<1>3. ASSUME NEW f, NEW g \in G, NEW i \in 1 .. n, \A j \in i + 1 .. n : f[j] = g[j] PROVE Body(f, i) = Body(g, i)
  BY <1>3, FieldsFromAgrees
<1>4. parse_case(b, vars) = (CHOOSE f : f = [i \in 1 .. n |-> Body(f, i)])[1]
  BY Zenon DEF parse_case, FieldsFrom, Named, TextThen, WantThen
<1> HIDE DEF Body
<1>5. F \in [G -> G]
  <2>1. ASSUME NEW g \in G PROVE [i \in 1 .. n |-> Body(g, i)] \in G
    BY <1>2 DEF FieldFunctions
  <2> HIDE DEF G
  <2> QED
    BY <2>1
<1>6. \A g \in G : F[g] = [i \in 1 .. n |-> Body(g, i)] /\ IsOn(g, n)
  <2>1. ASSUME NEW g \in G PROVE IsOn(g, n)
    BY DEF IsOn, FieldFunctions
  <2>2. \A g \in G : F[g] = [i \in 1 .. n |-> Body(g, i)]
    BY Zenon
  <2> QED
    BY <2>1, <2>2, Zenon
<1>7. LooksAhead(F, G, n)
  <2> HIDE DEF F, G
  <2> SUFFICES ASSUME NEW f \in G, NEW g \in G, NEW i \in 1 .. n, \A j \in i + 1 .. n : f[j] = g[j]
               PROVE F[f][i] = F[g][i]
    BY DEF LooksAhead
  <2>1. Body(f, i) = Body(g, i)
    BY <1>3
  <2>2. F[f][i] = Body(f, i) /\ F[g][i] = Body(g, i)
    BY <1>6
  <2> QED
    BY <2>1, <2>2, Zenon
<1>8. PICK g \in G : g = F[g]
  <2> HIDE DEF F, G, start, n
  <2>1. n \in Nat
    BY <1>0
  <2>2. \A g \in G : IsOn(g, n)
    BY <1>6, Zenon
  <2> QED
    BY <2>1, <2>2, <1>1, <1>5, <1>7, FixedPoint, Zenon
<1>9. g = [i \in 1 .. n |-> Body(g, i)]
  BY <1>6, <1>8, Zenon
<1> DEFINE f == CHOOSE f : f = [i \in 1 .. n |-> Body(f, i)]
<1>10. f = [i \in 1 .. n |-> Body(f, i)]
  BY <1>9
<1> HIDE DEF f
<1>11. \A i \in 1 .. n : f[i] = Body(f, i) /\ g[i] = Body(g, i)
  BY <1>9, <1>10
<1>12. Agree(f, g, n)
  BY <1>3, <1>11, Zenon DEF Agree
<1>13. f = g
  <2>1. IsOn(f, n)
    BY <1>10, <1>11, Zenon DEF IsOn
  <2> HIDE DEF n, G
  <2> QED
    BY <1>0, <1>6, <1>12, <2>1, OnlyOne
<1> QED
  BY <1>4, <1>11, <1>13 DEF IsFields, Body, f

(* A field yields what it means, in the case that the fields behind it yield. *)
EndsWell(b, to) == Is(b, to, {","}) \/ to = Len(b) + 1
HasText(b, fd) == FieldName(b, fd) \in {"name", "input"}
TextField(b, fd, decls) == Len(fd.sums) = 1 /\ IsSum(b, fd.sums[1], fd.at + 2, decls) /\ fd.to = SumEnd(fd.sums[1])
FieldGives(x, c, b, fd, decls) ==
    /\ HasText(b, fd) => /\ SumMeans(b, fd.sums[1], decls) \in Seq(STRING)
                         /\ x = [c EXCEPT ![FieldName(b, fd)] = SumMeans(b, fd.sums[1], decls)]
    /\ FieldName(b, fd) = "want" => /\ WantMeans(b, fd, decls) \in Words
                                    /\ x = [c EXCEPT !.want = WantMeans(b, fd, decls), !.have_want = TRUE]
    /\ ~HasText(b, fd) /\ FieldName(b, fd) # "want" => x = c

(* The three kinds of fields. *)
LEMMA FieldIs ==
  ASSUME NEW b, NEW fd, NEW decls, IsField(b, fd, decls)
  PROVE /\ HasText(b, fd) => TextField(b, fd, decls)
        /\ FieldName(b, fd) = "want" => IsWant(b, fd, decls)
        /\ ~HasText(b, fd) /\ FieldName(b, fd) # "want" => IsOther(b, fd.at + 2, fd.to)
<1>1. CASE HasText(b, fd)
  <2>1. FieldName(b, fd) # "want"
    BY <1>1 DEF HasText
  <2> QED
    BY <1>1, <2>1 DEF IsField, HasText, TextField
<1>2. CASE FieldName(b, fd) = "want"
  <2>1. ~(FieldName(b, fd) \in {"name", "input"})
    BY <1>2
  <2> QED
    BY <1>2, <2>1 DEF IsField, HasText, IsWant
<1>3. CASE ~HasText(b, fd) /\ FieldName(b, fd) # "want"
  BY <1>3 DEF IsField, HasText
<1> QED
  BY <1>1, <1>2, <1>3

(* A field's name ends at its colon. *)
LEMMA NameRead ==
  ASSUME NEW b \in Seq(Token), NEW p \in Nat, p # 0, Is(b, p, {"id"}), ~b[p].ws, NEW j, j = p + 1, Is(b, j, {":"})
  PROVE j \in 1 .. Len(b) /\ p \in 1 .. Len(b) /\ NameEnd(b, p) = j
<1>0. Len(b) \in Nat
  BY LenProperties
<1>1. p + 1 = j /\ j - 1 = p
  OBVIOUS
<1>2. WithinBy(b, j)
  BY IsWithin
<1>3. j \in 1 .. Len(b) /\ p \in 1 .. Len(b) /\ p \in 1 .. Len(b) + 1 /\ j \in p .. Len(b) /\ ~(p > p) /\ j > p
  BY <1>0, <1>1, <1>2 DEF WithinBy
<1>4. b[j].k = ":" /\ b[p].k = "id"
  BY Zenon DEF Is
<1>5. j \in NameEndsAt(b, p)
  BY <1>3, <1>4, Zenon DEF NameEndsAt
<1>6. p \notin NameEndsAt(b, p)
  BY <1>3, <1>4 DEF NameEndsAt
<1>7. PICK u \in p .. Len(b) + 1 : u = NameEnd(b, p) /\ u \in NameEndsAt(b, p) /\ u <= j
  BY <1>3, <1>5, NameEndIs
<1>8. u # p
  BY <1>6, <1>7
<1>9. u = j
  BY <1>0, <1>1, <1>3, <1>7, <1>8
<1> QED
  BY <1>3, <1>7, <1>9

(* Each kind of field is read so. *)
LEMMA FieldRead ==
  ASSUME NEW decls \in Seq(Decl), NEW b \in Seq(Token), NEW f, IsFields(f, b, extract_vars(decls)),
         NEW fd \in FieldTree, fd.at # 0, IsField(b, fd, decls), EndsWell(b, fd.to)
  PROVE /\ fd.to \in 1 .. Len(b) + 1
        /\ FieldGives(f[fd.at], f[StepOver(b, fd.to, ",")], b, fd, decls)
<1> DEFINE vars == extract_vars(decls)
<1>0. Len(b) \in Nat
  BY LenProperties
<1>a. PICK p \in Nat, to \in Nat, sums \in Seq(Seq(Term)) : p = fd.at /\ to = fd.to /\ sums = fd.sums
  BY DEF FieldTree
<1>b. PICK j \in Nat, from \in Nat : j = p + 1 /\ from = p + 2
  OBVIOUS
<1>c. from = j + 1 /\ p # 0 /\ from # 0
  BY <1>a, <1>b
<1>1. Is(b, p, {"id"}) /\ ~b[p].ws /\ Is(b, j, {":"})
  BY <1>a, <1>b, Zenon DEF IsField
<1>2. j \in 1 .. Len(b) /\ p \in 1 .. Len(b) /\ NameEnd(b, p) = j
  BY <1>1, <1>b, <1>c, NameRead
<1>3. from \in 1 .. Len(b) + 1 /\ p \in 1 .. Len(b) + 2 /\ ~(p > Len(b))
  BY <1>0, <1>2, <1>c
<1>4. FieldCases(b, vars, f, p, j) /\ f[p] = FieldsFrom(b, vars, f, p)
  <2>1. FieldCases(b, vars, f, p, j)
    BY <1>2, FieldSplits
  <2> QED
    BY <2>1, <1>3 DEF IsFields
<1>5. Colon(b, p) /\ \A names : Named(b, p, names) <=> FieldName(b, fd) \in names
  <2>1. NameEnd(b, p) = p + 1
    BY <1>2, <1>b
  <2> QED
    BY <1>1, <1>2, <1>a, <2>1, Zenon DEF Colon, Named, FieldName
<1>6. FieldName(b, fd) = b[p].v
  BY <1>a DEF FieldName
<1>7. CASE HasText(b, fd)
  <2>1. IsText(b, p)
    BY <1>5, <1>7, Zenon DEF IsText, HasText
  <2>2. TextField(b, fd, decls)
    BY <1>7, FieldIs
  <2>3. PICK s \in Seq(Term) : s = sums[1]
    <3>1. Len(sums) = 1
      BY <1>a, <2>2, Zenon DEF TextField
    <3>2. 1 \in 1 .. Len(sums)
      BY <3>1
    <3>3. sums[1] \in Seq(Term)
      BY <3>2
    <3> QED
      BY <3>3
  <2>4. IsSum(b, s, from, decls) /\ to = SumEnd(s)
    BY <1>a, <1>b, <2>2, <2>3, Zenon DEF TextField
  <2>5. /\ read_concat_expr(b, from, vars) = Value(TRUE, SumMeans(b, s, decls), SumEnd(s))
        /\ SumMeans(b, s, decls) \in Seq(STRING) /\ SumEnd(s) \in from + 1 .. Len(b) + 1
    BY <1>c, <2>4, ConcatRead
  <2>6. to \in 1 .. Len(b) + 1
    BY <2>4, <2>5
  <2>7. FieldsFrom(b, vars, f, p) = TextThen(b, Value(TRUE, SumMeans(b, s, decls), to), f, b[p].v)
    BY <1>3, <1>4, <1>5, <1>c, <2>1, <2>4, <2>5, Zenon DEF FieldCases
  <2>8. \A out, i : Value(TRUE, out, i).i = i /\ Value(TRUE, out, i).out = out
    BY DEF Value
  <2>9. f[p] = [f[StepOver(b, to, ",")] EXCEPT ![FieldName(b, fd)] = SumMeans(b, s, decls)]
    BY <1>4, <1>6, <2>7, <2>8, Zenon DEF TextThen
  <2>10. FieldName(b, fd) # "want"
    BY <1>7 DEF HasText
  <2> QED
    BY <1>7, <1>a, <2>3, <2>5, <2>6, <2>9, <2>10, Zenon DEF FieldGives
<1>8. CASE FieldName(b, fd) = "want"
  <2>1. ~HasText(b, fd)
    BY <1>8 DEF HasText
  <2>2. ~IsText(b, p) /\ Named(b, p, {"want"})
    BY <1>5, <1>8, <2>1, Zenon DEF IsText, HasText
  <2>3. IsWant(b, fd, decls)
    BY <1>8, FieldIs
  <2>4. /\ read_want(b, from, vars) = Value(TRUE, WantMeans(b, fd, decls), to)
        /\ WantMeans(b, fd, decls) \in Words
    BY <1>a, <1>b, <2>3, WantRead
  <2>5. to \in p + 3 .. Len(b) + 1
    BY <1>a, <2>3, WantRead
  <2>6. to \in 1 .. Len(b) + 1
    BY <2>5
  <2>7. FieldsFrom(b, vars, f, p) = WantThen(b, Value(TRUE, WantMeans(b, fd, decls), to), f)
    BY <1>3, <1>4, <1>5, <1>c, <2>2, <2>4, Zenon DEF FieldCases
  <2>8. \A out, i : Value(TRUE, out, i).i = i /\ Value(TRUE, out, i).out = out
    BY DEF Value
  <2>9. f[p] = [f[StepOver(b, to, ",")] EXCEPT !.want = WantMeans(b, fd, decls), !.have_want = TRUE]
    BY <1>4, <2>7, <2>8, Zenon DEF WantThen
  <2> QED
    BY <1>8, <1>a, <2>1, <2>4, <2>6, <2>9, Zenon DEF FieldGives
<1>9. CASE ~HasText(b, fd) /\ FieldName(b, fd) # "want"
  <2>1. ~IsText(b, p) /\ ~Named(b, p, {"want"})
    <3>1. FieldName(b, fd) \notin {"want"}
      BY <1>9
    <3> QED
      BY <1>5, <1>9, <3>1, Zenon DEF IsText, HasText
  <2>2. IsOther(b, from, to)
    BY <1>9, <1>a, <1>b, FieldIs, Zenon
  <2>3. Over(b, to) /\ to <= Len(b) + 1
    <3>1. CASE Is(b, to, {","})
      <4>1. WithinBy(b, to)
        BY <3>1, IsWithin
      <4>2. to <= Len(b) + 1
        BY <1>0, <4>1 DEF WithinBy
      <4> QED
        BY <3>1, <4>2, Zenon DEF Is, Over
    <3>2. CASE to = Len(b) + 1
      <4>1. to > Len(b) /\ to <= Len(b) + 1
        BY <1>0, <3>2
      <4> QED
        BY <4>1, Zenon DEF Over
    <3> QED
      BY <1>a, <3>1, <3>2, Zenon DEF EndsWell
  <2>4. to \in 1 .. Len(b) + 1
    <3>1. from <= to
      BY <2>2, Zenon DEF IsOther
    <3> QED
      BY <1>0, <1>3, <2>3, <3>1
  <2>5. skip_value(b, from) = to
    BY <1>3, <2>2, <2>3, <2>4, OtherSkipped
  <2>6. f[p] = f[StepOver(b, to, ",")]
    BY <1>3, <1>4, <1>5, <1>c, <2>1, <2>5, Zenon DEF FieldCases
  <2> QED
    BY <1>9, <1>a, <2>4, <2>6, Zenon DEF FieldGives
<1> QED
  BY <1>7, <1>8, <1>9

(* What the fields of an entry mean from the k-th on. *)
After(b, tree, k, name) == {n \in k .. Len(tree) : FieldName(b, tree[n]) = name}
Unique(b, tree) ==
    \A n \in 1 .. Len(tree) : \A m \in 1 .. Len(tree) : m # n => FieldName(b, tree[m]) # FieldName(b, tree[n])
TextIs(x, b, tree, decls, k, name) ==
    /\ \A n \in After(b, tree, k, name) : x = SumMeans(b, tree[n].sums[1], decls)
    /\ After(b, tree, k, name) = {} => x = <<>>
WantIs(c, b, tree, decls, k) ==
    /\ \A n \in After(b, tree, k, "want") : c.want = WantMeans(b, tree[n], decls) /\ c.have_want = TRUE
    /\ After(b, tree, k, "want") = {} => c.want = <<>> /\ c.have_want = FALSE
Meant(c, b, tree, decls, k) ==
    /\ c \in Case
    /\ TextIs(c.name, b, tree, decls, k, "name") /\ TextIs(c.input, b, tree, decls, k, "input")
    /\ WantIs(c, b, tree, decls, k)

(* Each name comes once. *)
OneMore(b, tree, n, name) ==
    /\ FieldName(b, tree[n]) = name => After(b, tree, n, name) = {n}
    /\ FieldName(b, tree[n]) # name => After(b, tree, n, name) = After(b, tree, n + 1, name)
LEMMA AfterStep ==
  ASSUME NEW b, NEW tree \in Tree, Unique(b, tree), NEW n \in 1 .. Len(tree), NEW name
  PROVE OneMore(b, tree, n, name)
<1>0. Len(tree) \in Nat
  BY LenProperties DEF Tree
<1>1. n .. Len(tree) = {n} \cup (n + 1 .. Len(tree))
  BY <1>0
<1>2. ASSUME NEW m \in n + 1 .. Len(tree) PROVE m \in 1 .. Len(tree) /\ m # n
  BY <1>0
<1>3. CASE FieldName(b, tree[n]) = name
  <2>1. ASSUME NEW m \in n + 1 .. Len(tree) PROVE FieldName(b, tree[m]) # name
    BY <1>2, <1>3, Zenon DEF Unique
  <2>2. After(b, tree, n, name) = {n}
    BY <1>1, <1>3, <2>1, Zenon DEF After
  <2> QED
    BY <1>3, <2>2, Zenon DEF OneMore
<1>4. CASE FieldName(b, tree[n]) # name
  <2>1. After(b, tree, n, name) = After(b, tree, n + 1, name)
    BY <1>1, <1>4, Zenon DEF After
  <2> QED
    BY <1>4, <2>1, Zenon DEF OneMore
<1> QED
  BY <1>3, <1>4

(* A record is what its fields are. *)
LEMMA TextSet ==
  ASSUME NEW c \in Case, NEW t \in Seq(STRING)
  PROVE /\ [c EXCEPT !["name"] = t] \in Case /\ [c EXCEPT !["name"] = t].name = t
        /\ [c EXCEPT !["name"] = t].input = c.input
        /\ [c EXCEPT !["name"] = t].want = c.want /\ [c EXCEPT !["name"] = t].have_want = c.have_want
        /\ [c EXCEPT !["input"] = t] \in Case /\ [c EXCEPT !["input"] = t].input = t
        /\ [c EXCEPT !["input"] = t].name = c.name
        /\ [c EXCEPT !["input"] = t].want = c.want /\ [c EXCEPT !["input"] = t].have_want = c.have_want
BY DEF Case

(* The same for a want. *)
LEMMA WantSet ==
  ASSUME NEW c \in Case, NEW t \in Words
  PROVE /\ [c EXCEPT !.want = t, !.have_want = TRUE] \in Case
        /\ [c EXCEPT !.want = t, !.have_want = TRUE].want = t /\ [c EXCEPT !.want = t, !.have_want = TRUE].have_want = TRUE
        /\ [c EXCEPT !.want = t, !.have_want = TRUE].name = c.name
        /\ [c EXCEPT !.want = t, !.have_want = TRUE].input = c.input
BY DEF Case

(* A field leaves alone what the others mean, and gives what it means      *)
(* itself.                                                                 *)
LEMMA TextKept ==
  ASSUME NEW b, NEW tree, NEW decls, NEW n, NEW name, NEW x, OneMore(b, tree, n, name),
         FieldName(b, tree[n]) # name, TextIs(x, b, tree, decls, n + 1, name)
  PROVE TextIs(x, b, tree, decls, n, name)
BY Zenon DEF TextIs, OneMore

(* The same for a want. *)
LEMMA WantKept ==
  ASSUME NEW b, NEW tree, NEW decls, NEW n, NEW x, NEW c, OneMore(b, tree, n, "want"),
         FieldName(b, tree[n]) # "want", WantIs(c, b, tree, decls, n + 1), x.want = c.want, x.have_want = c.have_want
  PROVE WantIs(x, b, tree, decls, n)
BY Zenon DEF WantIs, OneMore

(* A text that was set is the text of its field. *)
LEMMA TextGiven ==
  ASSUME NEW b, NEW tree, NEW decls, NEW n, NEW name, OneMore(b, tree, n, name), FieldName(b, tree[n]) = name
  PROVE TextIs(SumMeans(b, tree[n].sums[1], decls), b, tree, decls, n, name)
<1>1. After(b, tree, n, name) = {n}
  BY Zenon DEF OneMore
<1> QED
  BY <1>1, Zenon DEF TextIs

(* What holds behind a field holds from the field on. *)
LEMMA MeantStep ==
  ASSUME NEW b, NEW tree \in Tree, NEW decls, Unique(b, tree), NEW n \in 1 .. Len(tree), NEW c, NEW x,
         Meant(c, b, tree, decls, n + 1), FieldGives(x, c, b, tree[n], decls)
  PROVE Meant(x, b, tree, decls, n)
<1>0. \A name : OneMore(b, tree, n, name)
  BY AfterStep
<1>c. c \in Case /\ TextIs(c.name, b, tree, decls, n + 1, "name") /\ TextIs(c.input, b, tree, decls, n + 1, "input")
      /\ WantIs(c, b, tree, decls, n + 1)
  BY DEF Meant
<1> DEFINE t == SumMeans(b, tree[n].sums[1], decls)
           w == WantMeans(b, tree[n], decls)
           key == FieldName(b, tree[n])
<1>1. CASE key = "name"
  <2>1. HasText(b, tree[n]) /\ key # "input" /\ key # "want"
    BY <1>1 DEF HasText
  <2>2. t \in Seq(STRING) /\ x = [c EXCEPT !["name"] = t]
    BY <1>1, <2>1, Zenon DEF FieldGives
  <2> HIDE DEF t, w, key
  <2>3. x \in Case /\ x.name = t /\ x.input = c.input /\ x.want = c.want /\ x.have_want = c.have_want
    BY <1>c, <2>2, TextSet
  <2>4. TextIs(x.name, b, tree, decls, n, "name")
    BY <1>0, <1>1, <2>3, TextGiven DEF t, key
  <2>5. TextIs(x.input, b, tree, decls, n, "input")
    BY <1>0, <1>c, <2>1, <2>3, TextKept DEF key
  <2>6. WantIs(x, b, tree, decls, n)
    BY <1>0, <1>c, <2>1, <2>3, WantKept DEF key
  <2> QED
    BY <2>3, <2>4, <2>5, <2>6 DEF Meant
<1>2. CASE key = "input"
  <2>1. HasText(b, tree[n]) /\ key # "name" /\ key # "want"
    BY <1>2 DEF HasText
  <2>2. t \in Seq(STRING) /\ x = [c EXCEPT !["input"] = t]
    BY <1>2, <2>1, Zenon DEF FieldGives
  <2> HIDE DEF t, w, key
  <2>3. x \in Case /\ x.input = t /\ x.name = c.name /\ x.want = c.want /\ x.have_want = c.have_want
    BY <1>c, <2>2, TextSet
  <2>4. TextIs(x.input, b, tree, decls, n, "input")
    BY <1>0, <1>2, <2>3, TextGiven DEF t, key
  <2>5. TextIs(x.name, b, tree, decls, n, "name")
    BY <1>0, <1>c, <2>1, <2>3, TextKept DEF key
  <2>6. WantIs(x, b, tree, decls, n)
    BY <1>0, <1>c, <2>1, <2>3, WantKept DEF key
  <2> QED
    BY <2>3, <2>4, <2>5, <2>6 DEF Meant
<1>3. CASE key = "want"
  <2>1. key # "name" /\ key # "input"
    BY <1>3
  <2>2. w \in Words /\ x = [c EXCEPT !.want = w, !.have_want = TRUE]
    BY <1>3, Zenon DEF FieldGives
  <2> HIDE DEF t, w, key
  <2>3. x \in Case /\ x.want = w /\ x.have_want = TRUE /\ x.name = c.name /\ x.input = c.input
    BY <1>c, <2>2, WantSet
  <2>4. TextIs(x.name, b, tree, decls, n, "name") /\ TextIs(x.input, b, tree, decls, n, "input")
    BY <1>0, <1>c, <2>1, <2>3, TextKept DEF key
  <2>5. After(b, tree, n, "want") = {n}
    BY <1>0, <1>3, Zenon DEF OneMore, key
  <2>6. WantIs(x, b, tree, decls, n)
    BY <2>3, <2>5, Zenon DEF WantIs, w
  <2> QED
    BY <2>3, <2>4, <2>6 DEF Meant
<1>4. CASE key # "name" /\ key # "input" /\ key # "want"
  <2>1. ~HasText(b, tree[n])
    BY <1>4 DEF HasText
  <2>2. x = c
    BY <1>4, <2>1, Zenon DEF FieldGives
  <2> HIDE DEF key
  <2>3. TextIs(x.name, b, tree, decls, n, "name") /\ TextIs(x.input, b, tree, decls, n, "input")
    BY <1>0, <1>c, <1>4, <2>2, TextKept DEF key
  <2>4. WantIs(x, b, tree, decls, n)
    BY <1>0, <1>c, <1>4, <2>2, WantKept DEF key
  <2> QED
    BY <1>c, <2>2, <2>3, <2>4 DEF Meant
<1> QED
  BY <1>1, <1>2, <1>3, <1>4

(* Behind the last field there is the empty case. *)
LEMMA NothingMeant ==
  ASSUME NEW b, NEW tree \in Tree, NEW decls, NEW k, k = Len(tree) + 1
  PROVE Meant(EmptyCase, b, tree, decls, k)
<1>1. k .. Len(tree) = {}
  BY LenProperties DEF Tree
<1>2. \A name : After(b, tree, k, name) = {}
  BY <1>1, Zenon DEF After
<1>3. EmptyCase.name = <<>> /\ EmptyCase.input = <<>> /\ EmptyCase.want = <<>> /\ EmptyCase.have_want = FALSE
  BY DEF EmptyCase
<1>4. TextIs(EmptyCase.name, b, tree, decls, k, "name") /\ TextIs(EmptyCase.input, b, tree, decls, k, "input")
  BY <1>2, <1>3, Zenon DEF TextIs
<1>5. WantIs(EmptyCase, b, tree, decls, k)
  BY <1>2, <1>3, Zenon DEF WantIs
<1> QED
  BY <1>4, <1>5, EmptyCaseType DEF Meant

(* From the first field on that is what the entry means. *)
LEMMA AllMeant ==
  ASSUME NEW b, NEW tree \in Tree, NEW decls, NEW c, Meant(c, b, tree, decls, 1)
  PROVE c = EntryMeans(b, tree, decls)
<1> DEFINE named(name) == {n \in DOMAIN tree : FieldName(b, tree[n]) = name}
           the(name) == tree[CHOOSE n \in named(name) : TRUE]
           text(name) == IF named(name) = {} THEN <<>> ELSE SumMeans(b, the(name).sums[1], decls)
           want == IF named("want") = {} THEN <<>> ELSE WantMeans(b, the("want"), decls)
<1>1. DOMAIN tree = 1 .. Len(tree)
  BY LenProperties DEF Tree
<1>2. \A name : named(name) = After(b, tree, 1, name)
  BY <1>1, Zenon DEF After
<1>3. EntryMeans(b, tree, decls) =
        [name |-> text("name"), input |-> text("input"), want |-> want, have_want |-> named("want") # {}]
  BY Zenon DEF EntryMeans
<1>4. \A name : named(name) # {} => (CHOOSE n \in named(name) : TRUE) \in named(name)
  OBVIOUS
<1> HIDE DEF named
<1>5. c.name = text("name") /\ c.input = text("input")
  <2>1. ASSUME NEW x, NEW name, TextIs(x, b, tree, decls, 1, name) PROVE x = text(name)
    BY <1>2, <1>4, <2>1, Zenon DEF TextIs
  <2> HIDE DEF text
  <2> QED
    BY <2>1 DEF Meant
<1>6. c.want = want /\ c.have_want = (named("want") # {})
  <2>0. WantIs(c, b, tree, decls, 1)
    BY DEF Meant
  <2>1. CASE named("want") = {}
    <3>1. c.want = <<>> /\ c.have_want = FALSE
      BY <1>2, <2>0, <2>1, Zenon DEF WantIs
    <3> QED
      BY <2>1, <3>1
  <2>2. CASE named("want") # {}
    <3>1. c.want = WantMeans(b, the("want"), decls) /\ c.have_want = TRUE
      BY <1>2, <1>4, <2>0, <2>2, Zenon DEF WantIs
    <3> HIDE DEF the
    <3> QED
      BY <2>2, <3>1
  <2> QED
    BY <2>1, <2>2
<1>7. c = [name |-> c.name, input |-> c.input, want |-> c.want, have_want |-> c.have_want]
  BY DEF Meant, Case
<1> QED
  BY <1>3, <1>5, <1>6, <1>7, Zenon

(* The fields of an entry have different names. *)
LEMMA EntryUnique ==
  ASSUME NEW b, NEW tree \in Tree, NEW decls, IsEntry(b, tree, decls)
  PROVE Unique(b, tree)
<1>1. DOMAIN tree = 1 .. Len(tree)
  BY LenProperties DEF Tree
<1> QED
  BY <1>1, Zenon DEF IsEntry, Unique

(* Behind the end the walk stops. *)
LEMMA FieldsEnd ==
  ASSUME NEW b \in Seq(Token), NEW vars, NEW f, IsFields(f, b, vars), NEW i \in 1 .. Len(b) + 2, i > Len(b)
  PROVE f[i] = EmptyCase
<1>1. FieldCases(b, vars, f, i, NameEnd(b, i))
  BY FieldSplits
<1>2. f[i] = FieldsFrom(b, vars, f, i)
  BY DEF IsFields
<1> QED
  BY <1>1, <1>2, Zenon DEF FieldCases

(* The walk over an entry's text yields what its tree means. *)
LEMMA CaseRead ==
  ASSUME NEW decls \in Seq(Decl), NEW b \in Seq(Token), NEW tree \in Tree, IsEntry(b, tree, decls)
  PROVE parse_case(b, extract_vars(decls)) = EntryMeans(b, tree, decls)
<1> DEFINE vars == extract_vars(decls)
<1>0. Len(b) \in Nat
  BY LenProperties
<1>n. PICK N \in Nat : N = Len(tree)
  BY LenProperties DEF Tree
<1>d. DOMAIN tree = 1 .. N /\ \A n \in 1 .. N : tree[n] \in FieldTree
  BY <1>n, LenProperties DEF Tree, FieldTree
<1>u. Unique(b, tree)
  BY EntryUnique
<1>1. PICK f : IsFields(f, b, vars)
  BY ExtractType, FieldsAreRead
<1>2. \A n \in 1 .. N : IsField(b, tree[n], decls) /\ tree[n].at = FieldStart(tree, n)
  BY <1>d, Zenon DEF IsEntry
<1>3. \A n \in 1 .. N : Is(b, tree[n].to, {","}) \/ (n = N /\ tree[n].to = Len(b) + 1)
  BY <1>d, <1>n, Zenon DEF IsEntry
<1>4. Len(b) \in {FieldStart(tree, N + 1) - 2, FieldStart(tree, N + 1) - 1}
  BY <1>n, Zenon DEF IsEntry
<1>5. FieldStart(tree, 1) = 1 /\ \A n \in 1 .. N : FieldStart(tree, n + 1) = tree[n].to + 1
  <2>1. ASSUME NEW n \in 1 .. N PROVE n + 1 # 1 /\ (n + 1) - 1 = n
    OBVIOUS
  <2> QED
    BY <2>1, Zenon DEF FieldStart
<1>6. ASSUME NEW n \in 1 .. N PROVE tree[n].at # 0
  <2>1. CASE n = 1
    <3>1. tree[n].at = 1
      BY <1>2, <1>5, <2>1, Zenon
    <3> QED
      BY <3>1
  <2>2. CASE n # 1
    <3>1. n - 1 \in 1 .. N /\ (n - 1) + 1 = n
      BY <2>2
    <3>2. PICK t \in Nat : t = tree[n - 1].to
      BY <1>d, <3>1 DEF FieldTree
    <3>3. tree[n].at = t + 1
      BY <1>2, <1>5, <3>1, <3>2, Zenon
    <3> QED
      BY <3>3
  <2> QED
    BY <2>1, <2>2
<1> DEFINE Right == {n \in 1 .. N : Meant(f[tree[n].at], b, tree, decls, n)}
<1>7. ASSUME NEW n \in 1 .. N, \A m \in n + 1 .. N : m \in Right PROVE n \in Right
  <2>0. PICK fd \in FieldTree : fd = tree[n]
    BY <1>d
  <2>t. PICK to : to = fd.to
    OBVIOUS
  <2>1. EndsWell(b, fd.to)
    BY <1>3, <2>0, <2>t, Zenon DEF EndsWell
  <2>2. fd.at # 0 /\ IsField(b, fd, decls)
    BY <1>2, <1>6, <2>0, <2>t
  <2>3. to \in 1 .. Len(b) + 1 /\ FieldGives(f[fd.at], f[StepOver(b, to, ",")], b, fd, decls)
    BY <1>1, <2>0, <2>t, <2>1, <2>2, FieldRead
  <2>4. Meant(f[StepOver(b, to, ",")], b, tree, decls, n + 1)
    <3>1. CASE n # N
      <4>1. n + 1 \in n + 1 .. N /\ n + 1 \in 1 .. N
        BY <3>1
      <4>2. StepOver(b, to, ",") = to + 1
        <5>1. Is(b, to, {","})
          BY <1>3, <2>0, <2>t, <3>1, Zenon
        <5> QED
          BY <5>1, Zenon DEF StepOver
      <4>3. to + 1 = tree[n + 1].at
        BY <1>2, <1>5, <2>0, <2>t, <4>1, Zenon
      <4>4. n + 1 \in Right
        <5> HIDE DEF Right
        <5> QED
          BY <1>7, <4>1
      <4>5. Meant(f[tree[n + 1].at], b, tree, decls, n + 1)
        BY <4>4
      <4> QED
        BY <4>2, <4>3, <4>5, Zenon
    <3>2. CASE n = N
      <4>1. StepOver(b, to, ",") = Len(b) + 1
        <5>1. CASE Is(b, to, {","})
          <6>1. StepOver(b, to, ",") = to + 1
            BY <5>1, Zenon DEF StepOver
          <6>2. WithinBy(b, to)
            BY <5>1, IsWithin
          <6>3. PICK k : k = FieldStart(tree, N + 1) /\ Len(b) \in {k - 2, k - 1}
            BY <1>4
          <6>4. k = to + 1
            BY <1>5, <2>0, <2>t, <3>2, <6>3, Zenon
          <6>5. to = Len(b)
            <7>1. to \in Nat
              <8>1. to \in 1 .. Len(b) + 1
                BY <2>3, Zenon
              <8> QED
                BY <8>1
            <7> QED
              BY <1>0, <6>2, <6>3, <6>4, <7>1 DEF WithinBy
          <6> QED
            BY <6>1, <6>5
        <5>2. CASE ~Is(b, to, {","})
          <6>1. to = Len(b) + 1
            BY <1>3, <2>0, <2>t, <5>2, Zenon
          <6>2. StepOver(b, to, ",") = to
            BY <5>2, Zenon DEF StepOver
          <6> QED
            BY <6>1, <6>2
        <5> QED
          BY <5>1, <5>2
      <4>2. f[Len(b) + 1] = EmptyCase
        <5>1. Len(b) + 1 \in 1 .. Len(b) + 2 /\ Len(b) + 1 > Len(b)
          BY <1>0
        <5> QED
          BY <1>1, <5>1, FieldsEnd
      <4>3. n + 1 = Len(tree) + 1
        BY <1>n, <3>2
      <4>4. Meant(EmptyCase, b, tree, decls, n + 1)
        BY <4>3, NothingMeant
      <4> QED
        BY <4>1, <4>2, <4>4, Zenon
    <3> QED
      BY <3>1, <3>2
  <2>5. Meant(f[fd.at], b, tree, decls, n)
    <3>1. n \in 1 .. Len(tree)
      BY <1>n
    <3>2. FieldGives(f[fd.at], f[StepOver(b, to, ",")], b, tree[n], decls)
      BY <2>0, <2>t, <2>3
    <3> QED
      BY <1>u, <2>4, <3>1, <3>2, MeantStep
  <2> QED
    BY <2>0, <2>t, <2>5
<1>8. 1 .. N \subseteq Right
  <2> HIDE DEF Right
  <2> QED
    BY <1>7, LastWrong
<1>9. Meant(f[1], b, tree, decls, 1)
  <2>1. CASE N = 0
    <3>1. Len(b) = 0
      <4>1. PICK k : k = FieldStart(tree, N + 1) /\ Len(b) \in {k - 2, k - 1}
        BY <1>4
      <4>2. N + 1 = 1
        BY <2>1
      <4>3. k = 1
        BY <1>5, <4>1, <4>2, Zenon
      <4> QED
        BY <1>0, <4>1, <4>3
    <3>2. f[1] = EmptyCase
      <4>1. 1 \in 1 .. Len(b) + 2 /\ 1 > Len(b)
        BY <3>1
      <4> QED
        BY <1>1, <4>1, FieldsEnd
    <3>3. 1 = Len(tree) + 1
      BY <1>n, <2>1
    <3> QED
      BY <3>2, <3>3, NothingMeant
  <2>2. CASE N # 0
    <3>1. 1 \in 1 .. N
      BY <2>2
    <3>2. tree[1].at = 1
      BY <1>2, <1>5, <3>1, Zenon
    <3>3. Meant(f[tree[1].at], b, tree, decls, 1)
      BY <1>8, <3>1
    <3> QED
      BY <3>2, <3>3
  <2> QED
    BY <2>1, <2>2
<1> QED
  BY <1>1, <1>9, AllMeant DEF IsFields

(* Whatever the text is, what parse_case yields is a case. *)
LEMMA CaseType ==
  ASSUME NEW decls \in Seq(Decl), NEW b \in Seq(Token)
  PROVE parse_case(b, extract_vars(decls)) \in Case
<1>1. PICK f : IsFields(f, b, extract_vars(decls))
  BY ExtractType, FieldsAreRead
<1>2. 1 \in 1 .. Len(b) + 2
  BY LenProperties
<1> QED
  BY <1>1, <1>2 DEF IsFields, FieldFunctions
=============================================================================
