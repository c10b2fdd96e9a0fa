---------------------------- MODULE CompatProofs ----------------------------
(***************************************************************************)
(* Proofs about the TruffleHog compatibility harness.                      *)
(*                                                                         *)
(* The rules, the regex search and the engine are functions by recursion on*)
(* a position; what they compute is shown by taking the first position at  *)
(* which it would be wrong (FirstWrong).                                   *)
(***************************************************************************)
EXTENDS Compat, GoCasesProofs

-----------------------------------------------------------------------------
(* The first index of a symbol, 0 where there is none.                      *)
LEMMA FirstIndexIs ==
  ASSUME NEW s \in Seq(STRING), NEW x, NEW from \in Nat
  PROVE \/ FirstIndex(s, x, from) = 0 /\ \A i \in from .. Len(s) : s[i] # x
        \/ /\ FirstIndex(s, x, from) \in from .. Len(s) /\ s[FirstIndex(s, x, from)] = x
           /\ \A i \in from .. FirstIndex(s, x, from) - 1 : s[i] # x
<1> DEFINE at == {i \in from .. Len(s) : s[i] = x}
<1>1. FirstIndex(s, x, from) = IF at = {} THEN 0 ELSE CHOOSE i \in at : \A j \in at : i <= j
  BY DEF FirstIndex
<1>2. CASE at = {}
  BY <1>1, <1>2
<1>3. CASE at # {}
  <2>1. at \in SUBSET Nat
    OBVIOUS
  <2>2. \E n \in at : \A m \in at : n <= m
    <3> HIDE DEF at
    <3> QED
      BY <1>3, <2>1, MinExists
  <2>3. PICK i \in at : i = FirstIndex(s, x, from) /\ \A j \in at : i <= j
    <3> HIDE DEF at
    <3> QED
      BY <1>1, <1>3, <2>2
  <2>4. ASSUME NEW k \in from .. i - 1 PROVE s[k] # x
    <3>1. k \in from .. Len(s) /\ ~(i <= k)
      BY <2>3, LenProperties
    <3> QED
      BY <3>1, <2>3
  <2> QED
    BY <2>3, <2>4
<1> QED
  BY <1>2, <1>3

LEMMA ValuePartType ==
  ASSUME NEW s \in Seq(STRING)
  PROVE value_part(s) \in Seq(STRING)
<1> DEFINE i == FirstIndex(s, "marker", 1)
           j == FirstIndex(s, "lazy", i + 1)
<1>1. i = 0 \/ i \in 1 .. Len(s)
  BY FirstIndexIs
<1>2. i # 0 => j = 0 \/ j \in i + 1 .. Len(s)
  BY <1>1, FirstIndexIs
<1>3. value_part(s) = IF i # 0 /\ j # 0 THEN SubSeq(s, j + 1, Len(s))
                      ELSE IF s # <<>> /\ s[1] = "flag" THEN Tail(s) ELSE s
  BY DEF value_part
<1> HIDE DEF i, j
<1>4. CASE i # 0 /\ j # 0
  <2>1. j + 1 \in Nat /\ Len(s) \in Nat /\ \A k \in j + 1 .. Len(s) : s[k] \in STRING
    BY <1>1, <1>2, <1>4, LenProperties, ElementOfSeq
  <2> QED
    BY <1>3, <1>4, <2>1
<1>5. CASE ~(i # 0 /\ j # 0)
  <2>1. s # <<>> => Tail(s) \in Seq(STRING)
    BY HeadTailProperties
  <2> QED
    BY <1>3, <1>5, <2>1
<1> QED
  BY <1>4, <1>5
-----------------------------------------------------------------------------
(* The scan for a literal anchor. *)
LEMMA InClassStep ==
  ASSUME NEW s \in Seq(STRING)
  PROVE \A i \in 0 .. Len(s) :
          in_class(s)[i] = IF i = 0 THEN FALSE ELSE IF s[i] = "[" THEN TRUE
                           ELSE IF s[i] \in {"]", "marker"} THEN FALSE ELSE in_class(s)[i - 1]
<1> DEFINE n == Len(s)
           start == FALSE
           step == [i \in 1 .. n |-> [b \in BOOLEAN |->
                     IF s[i] = "[" THEN TRUE ELSE IF s[i] \in {"]", "marker"} THEN FALSE ELSE b]]
           At(open, i) == CASE i = 0 -> FALSE
                            [] i # 0 /\ s[i] = "[" -> TRUE
                            [] i # 0 /\ s[i] \in {"]", "marker"} -> FALSE
                            [] OTHER -> open[i - 1]
<1>1. n \in Nat
  BY LenProperties
<1>2. PICK g \in [0 .. n -> BOOLEAN] : g[0] = start /\ \A i \in 1 .. n : g[i] = step[i][g[i - 1]]
  <2>1. start \in BOOLEAN /\ step \in Steps(n, BOOLEAN)
    BY DEF Steps
  <2>2. \E g : IsScan(g, n, BOOLEAN, start, step)
    <3> HIDE DEF step, start, n
    <3> QED
      BY <1>1, <2>1, ScanExists
  <2> QED
    BY <2>2 DEF IsScan
<1>3. \A open : \A i \in 0 .. n : At(open, i) =
         IF i = 0 THEN FALSE ELSE IF s[i] = "[" THEN TRUE
         ELSE IF s[i] \in {"]", "marker"} THEN FALSE ELSE open[i - 1]
  OBVIOUS
<1>4. \A i \in 0 .. n : g[i] = At(g, i)
  <2> SUFFICES ASSUME NEW i \in 0 .. n PROVE g[i] = At(g, i)
    OBVIOUS
  <2>1. CASE i = 0
    BY <1>2, <1>3, <2>1
  <2>2. CASE i # 0
    <3>1. i \in 1 .. n /\ i - 1 \in 0 .. n
      BY <2>2, <1>1
    <3>2. g[i] = step[i][g[i - 1]] /\ g[i - 1] \in BOOLEAN
      BY <1>2, <3>1
    <3>3. g[i] = IF s[i] = "[" THEN TRUE ELSE IF s[i] \in {"]", "marker"} THEN FALSE ELSE g[i - 1]
      BY <3>1, <3>2
    <3> QED
      BY <3>3, <1>3, <2>2
  <2> QED
    BY <2>1, <2>2
<1>5. in_class(s) = CHOOSE open : open = [i \in 0 .. n |-> At(open, i)]
  BY Zenon DEF in_class
<1>6. g = [i \in 0 .. n |-> At(g, i)]
  <2>1. g = [i \in 0 .. n |-> g[i]]
    OBVIOUS
  <2> HIDE DEF At
  <2> QED
    BY <2>1, <1>4, Zenon
<1>7. \A i \in 0 .. n : in_class(s)[i] = At(in_class(s), i)
  <2> HIDE DEF At
  <2> QED
    BY <1>5, <1>6
<1> QED
  <2> HIDE DEF At
  <2> QED
    BY <1>3, <1>7

LEMMA InBraceStep ==
  ASSUME NEW s \in Seq(STRING)
  PROVE \A i \in 0 .. Len(s) :
          in_brace(s)[i] = IF i = 0 THEN FALSE
                           ELSE IF s[i] = "marker" \/ (s[i] = "{" /\ ~in_class(s)[i - 1]) THEN TRUE
                           ELSE IF s[i] \in {"}", "lazy"} THEN FALSE ELSE in_brace(s)[i - 1]
<1> DEFINE n == Len(s)
           start == FALSE
           opens(i) == s[i] = "marker" \/ (s[i] = "{" /\ ~in_class(s)[i - 1])
           step == [i \in 1 .. n |-> [b \in BOOLEAN |->
                     IF opens(i) THEN TRUE ELSE IF s[i] \in {"}", "lazy"} THEN FALSE ELSE b]]
           At(open, i) == CASE i = 0 -> FALSE
                            [] i # 0 /\ opens(i) -> TRUE
                            [] i # 0 /\ s[i] \in {"}", "lazy"} -> FALSE
                            [] OTHER -> open[i - 1]
<1>1. n \in Nat
  BY LenProperties
<1>2. PICK g \in [0 .. n -> BOOLEAN] : g[0] = start /\ \A i \in 1 .. n : g[i] = step[i][g[i - 1]]
  <2>1. start \in BOOLEAN /\ step \in Steps(n, BOOLEAN)
    <3> HIDE DEF opens
    <3> QED
      BY DEF Steps
  <2>2. \E g : IsScan(g, n, BOOLEAN, start, step)
    <3> HIDE DEF step, start, n
    <3> QED
      BY <1>1, <2>1, ScanExists
  <2> QED
    BY <2>2 DEF IsScan
<1>3. \A open : \A i \in 0 .. n : At(open, i) =
         IF i = 0 THEN FALSE ELSE IF opens(i) THEN TRUE
         ELSE IF s[i] \in {"}", "lazy"} THEN FALSE ELSE open[i - 1]
  <2>1. ASSUME NEW open, NEW i \in 0 .. n, i # 0, opens(i) PROVE s[i] \notin {"}", "lazy"}
    BY <2>1
  <2> HIDE DEF opens
  <2> QED
    BY <2>1
<1>4. \A i \in 0 .. n : g[i] = At(g, i)
  <2> HIDE DEF opens
  <2> SUFFICES ASSUME NEW i \in 0 .. n PROVE g[i] = At(g, i)
    OBVIOUS
  <2>1. CASE i = 0
    BY <1>2, <1>3, <2>1
  <2>2. CASE i # 0
    <3>1. i \in 1 .. n /\ i - 1 \in 0 .. n
      BY <2>2, <1>1
    <3>2. g[i] = step[i][g[i - 1]] /\ g[i - 1] \in BOOLEAN
      BY <1>2, <3>1
    <3>3. g[i] = IF opens(i) THEN TRUE ELSE IF s[i] \in {"}", "lazy"} THEN FALSE ELSE g[i - 1]
      BY <3>1, <3>2
    <3> QED
      BY <3>3, <1>3, <2>2
  <2> QED
    BY <2>1, <2>2
<1>5. in_brace(s) = CHOOSE open : open = [i \in 0 .. n |-> At(open, i)]
  BY Zenon DEF in_brace
<1>6. g = [i \in 0 .. n |-> At(g, i)]
  <2>1. g = [i \in 0 .. n |-> g[i]]
    OBVIOUS
  <2> HIDE DEF At
  <2> QED
    BY <2>1, <1>4, Zenon
<1>7. \A i \in 0 .. n : in_brace(s)[i] = At(in_brace(s), i)
  <2> HIDE DEF At
  <2> QED
    BY <1>5, <1>6
<1> QED
  <2> HIDE DEF At
  <2> QED
    BY <1>3, <1>7

LEMMA RunStep ==
  ASSUME NEW s \in Seq(STRING), NEW open
  PROVE \A i \in 0 .. Len(s) :
          run(s, open)[i] = IF i = 0 \/ s[i] # "a" \/ open[i - 1] THEN 0 ELSE run(s, open)[i - 1] + 1
<1> DEFINE n == Len(s)
           start == 0
           breaks(i) == s[i] # "a" \/ open[i - 1]
           step == [i \in 1 .. n |-> [k \in Nat |-> IF breaks(i) THEN 0 ELSE k + 1]]
           At(length, i) == IF i = 0 \/ s[i] # "a" \/ open[i - 1] THEN 0 ELSE length[i - 1] + 1
<1>1. n \in Nat
  BY LenProperties
<1>2. PICK g \in [0 .. n -> Nat] : g[0] = start /\ \A i \in 1 .. n : g[i] = step[i][g[i - 1]]
  <2>1. start \in Nat /\ step \in Steps(n, Nat)
    <3> HIDE DEF breaks
    <3> QED
      BY DEF Steps
  <2>2. \E g : IsScan(g, n, Nat, start, step)
    <3> HIDE DEF step, start, n
    <3> QED
      BY <1>1, <2>1, ScanExists
  <2> QED
    BY <2>2 DEF IsScan
<1>3. \A i \in 0 .. n : g[i] = At(g, i)
  <2> SUFFICES ASSUME NEW i \in 0 .. n PROVE g[i] = At(g, i)
    OBVIOUS
  <2>1. CASE i = 0
    BY <1>2, <2>1
  <2>2. CASE i # 0
    <3>1. i \in 1 .. n /\ i - 1 \in 0 .. n
      BY <2>2, <1>1
    <3>2. g[i] = step[i][g[i - 1]] /\ g[i - 1] \in Nat
      BY <1>2, <3>1
    <3>3. g[i] = IF breaks(i) THEN 0 ELSE g[i - 1] + 1
      <4> HIDE DEF breaks
      <4> QED
        BY <3>1, <3>2
    <3> QED
      BY <3>3, <2>2
  <2> QED
    BY <2>1, <2>2
<1>4. run(s, open) = CHOOSE length : length = [i \in 0 .. n |-> At(length, i)]
  BY Zenon DEF run
<1>5. g = [i \in 0 .. n |-> At(g, i)]
  <2>1. g = [i \in 0 .. n |-> g[i]]
    OBVIOUS
  <2> HIDE DEF At
  <2> QED
    BY <2>1, <1>3, Zenon
<1>6. \A i \in 0 .. n : run(s, open)[i] = At(run(s, open), i)
  <2> HIDE DEF At
  <2> QED
    BY <1>4, <1>5
<1> QED
  BY <1>6, Zenon

(* A class or a repetition is open behind a position if what opens it has   *)
(* not been closed since.                                                  *)
IsBracketScan(open, n, Opening, Closing) ==
    /\ open[0] = FALSE
    /\ \A i \in 1 .. n : open[i] = IF i \in Opening THEN TRUE ELSE IF i \in Closing THEN FALSE ELSE open[i - 1]
OpenedBefore(i, Opening, Closing) == \E j \in 1 .. i : j \in Opening /\ \A m \in j + 1 .. i : m \notin Closing

LEMMA StaysOpen ==
  ASSUME NEW n \in Nat, NEW Opening, NEW Closing, NEW open, IsBracketScan(open, n, Opening, Closing)
  PROVE \A i \in 0 .. n : open[i] = OpenedBefore(i, Opening, Closing)
<1> USE DEF IsBracketScan, OpenedBefore
<1> DEFINE Since(i) == OpenedBefore(i, Opening, Closing)
           Right == {i \in 0 .. n : open[i] = Since(i)}
<1>1. ASSUME NEW k \in 0 .. n, \A j \in 0 .. k - 1 : j \in Right PROVE k \in Right
  <2>1. CASE k = 0
    <3>1. 1 .. 0 = {}
      OBVIOUS
    <3>2. Since(k) = FALSE
      BY <2>1, <3>1, Zenon
    <3> QED
      BY <2>1, <3>2
  <2>2. CASE k # 0
    <3>1. k \in 1 .. n /\ k - 1 \in 0 .. k - 1
      BY <2>2
    <3>2. open[k - 1] = Since(k - 1)
      <4>1. k - 1 \in Right
        <5> HIDE DEF Right
        <5> QED
          BY <1>1, <3>1
      <4> QED
        BY <4>1
    <3>3. CASE k \in Opening
      <4>1. \A m \in k + 1 .. k : FALSE
        OBVIOUS
      <4>2. Since(k) = TRUE
        BY <3>3, <4>1, <2>2
      <4> HIDE DEF Since
      <4> QED
        BY <3>1, <3>3, <4>2
    <3>4. CASE k \notin Opening /\ k \in Closing
      <4>1. Since(k) = FALSE
        <5> SUFFICES ASSUME NEW j \in 1 .. k, j \in Opening, \A m \in j + 1 .. k : m \notin Closing PROVE FALSE
          BY Zenon
        <5>1. k \in j + 1 .. k
          BY <3>4
        <5> QED
          BY <5>1, <3>4
      <4> HIDE DEF Since
      <4> QED
        BY <3>1, <3>4, <4>1
    <3>5. CASE k \notin Opening /\ k \notin Closing
      <4>1. ASSUME NEW j \in 1 .. k - 1, j \in Opening, \A m \in j + 1 .. k - 1 : m \notin Closing PROVE Since(k)
        <5>1. j \in 1 .. k /\ \A m \in j + 1 .. k : m = k \/ m \in j + 1 .. k - 1
          OBVIOUS
        <5> QED
          BY <4>1, <5>1, <3>5, Zenon
      <4>2. ASSUME NEW j \in 1 .. k, j \in Opening, \A m \in j + 1 .. k : m \notin Closing PROVE Since(k - 1)
        <5>1. j \in 1 .. k - 1 /\ \A m \in j + 1 .. k - 1 : m \in j + 1 .. k
          BY <4>2, <3>5
        <5> QED
          BY <4>2, <5>1, Zenon
      <4>3. Since(k) = Since(k - 1)
        BY <4>1, <4>2, Zenon
      <4> HIDE DEF Since
      <4> QED
        BY <3>1, <3>2, <3>5, <4>3
    <3> QED
      BY <3>3, <3>4, <3>5
  <2> QED
    BY <2>1, <2>2
<1>2. 0 .. n \subseteq Right
  <2> HIDE DEF Right
  <2> QED
    BY <1>1, FirstWrong
<1> QED
  BY <1>2

LEMMA InClassIs ==
  ASSUME NEW s \in Seq(STRING)
  PROVE \A i \in 0 .. Len(s) : in_class(s)[i] = InClass(s, i)
<1> DEFINE Opening == {j \in 1 .. Len(s) : s[j] = "["}
           Closing == {j \in 1 .. Len(s) : s[j] \in {"]", "marker"}}
<1>1. Len(s) \in Nat
  BY LenProperties
<1>2. ASSUME NEW i \in 0 .. Len(s)
      PROVE InClass(s, i) = OpenedBefore(i, Opening, Closing)
  <2>1. \A j \in 1 .. i : j \in 1 .. Len(s) /\ \A m \in j + 1 .. i : m \in 1 .. Len(s)
    OBVIOUS
  <2> QED
    BY <2>1, Zenon DEF InClass, OpenedBefore
<1>3. IsBracketScan(in_class(s), Len(s), Opening, Closing)
  <2>1. \A i \in 1 .. Len(s) : i \in 0 .. Len(s) /\ i # 0 /\ (i \in Opening <=> s[i] = "[")
                                /\ (i \in Closing <=> s[i] \in {"]", "marker"})
    BY <1>1
  <2>2. 0 \in 0 .. Len(s)
    BY <1>1
  <2> HIDE DEF Opening, Closing
  <2> QED
    BY <2>1, <2>2, InClassStep, Zenon DEF IsBracketScan
<1>4. \A i \in 0 .. Len(s) : in_class(s)[i] = OpenedBefore(i, Opening, Closing)
  <2> HIDE DEF Opening, Closing
  <2> QED
    BY <1>1, <1>3, StaysOpen
<1> QED
  <2> HIDE DEF Opening, Closing
  <2> QED
    BY <1>2, <1>4

LEMMA InBraceIs ==
  ASSUME NEW s \in Seq(STRING)
  PROVE \A i \in 0 .. Len(s) : in_brace(s)[i] = InBrace(s, i)
<1> DEFINE opens(j) == s[j] = "marker" \/ (s[j] = "{" /\ ~InClass(s, j - 1))
           Opening == {j \in 1 .. Len(s) : opens(j)}
           Closing == {j \in 1 .. Len(s) : s[j] \in {"}", "lazy"}}
<1>1. Len(s) \in Nat
  BY LenProperties
<1>2. ASSUME NEW i \in 0 .. Len(s)
      PROVE InBrace(s, i) = OpenedBefore(i, Opening, Closing)
  <2>1. \A j \in 1 .. i : j \in 1 .. Len(s) /\ \A m \in j + 1 .. i : m \in 1 .. Len(s)
    OBVIOUS
  <2> QED
    BY <2>1, Zenon DEF InBrace, OpenedBefore
<1>3. \A i \in 1 .. Len(s) : i \in 0 .. Len(s) /\ i # 0 /\ i - 1 \in 0 .. Len(s)
  BY <1>1
<1>4. \A i \in 1 .. Len(s) : in_class(s)[i - 1] = InClass(s, i - 1)
  BY <1>3, InClassIs, Zenon
<1>5. IsBracketScan(in_brace(s), Len(s), Opening, Closing)
  <2>1. \A i \in 1 .. Len(s) : (i \in Opening <=> opens(i)) /\ (i \in Closing <=> s[i] \in {"}", "lazy"})
    BY Zenon
  <2>2. in_brace(s)[0] = FALSE
    <3>1. 0 \in 0 .. Len(s)
      BY <1>1
    <3> QED
      BY <3>1, InBraceStep, Zenon
  <2>3. ASSUME NEW i \in 1 .. Len(s)
        PROVE in_brace(s)[i] = IF i \in Opening THEN TRUE ELSE IF i \in Closing THEN FALSE ELSE in_brace(s)[i - 1]
    <3>1. in_brace(s)[i] = IF s[i] = "marker" \/ (s[i] = "{" /\ ~in_class(s)[i - 1]) THEN TRUE
                           ELSE IF s[i] \in {"}", "lazy"} THEN FALSE ELSE in_brace(s)[i - 1]
      BY <1>3, InBraceStep, Zenon
    <3>2. in_class(s)[i - 1] = InClass(s, i - 1)
      BY <1>4
    <3> HIDE DEF Opening, Closing
    <3> QED
      BY <2>1, <3>1, <3>2, Zenon
  <2> HIDE DEF Opening, Closing
  <2> QED
    BY <2>2, <2>3, Zenon DEF IsBracketScan
<1>6. \A i \in 0 .. Len(s) : in_brace(s)[i] = OpenedBefore(i, Opening, Closing)
  <2> HIDE DEF Opening, Closing
  <2> QED
    BY <1>1, <1>5, StaysOpen
<1> QED
  <2> HIDE DEF Opening, Closing
  <2> QED
    BY <1>2, <1>6

(* The length at a position is that of the run of literal letters that ends *)
(* there, and no longer run does.                                          *)
LEMMA RunIs ==
  ASSUME NEW s \in Seq(STRING), NEW open
  PROVE \A i \in 0 .. Len(s) :
          /\ run(s, open)[i] \in 0 .. i
          /\ \A m \in i - run(s, open)[i] + 1 .. i : s[m] = "a" /\ ~open[m - 1]
          /\ run(s, open)[i] < i => s[i - run(s, open)[i]] # "a" \/ open[i - run(s, open)[i] - 1]
<1> DEFINE r(i) == run(s, open)[i]
           literal(m) == s[m] = "a" /\ ~open[m - 1]
           Fits(i) == /\ r(i) \in 0 .. i
                      /\ \A m \in i - r(i) + 1 .. i : literal(m)
                      /\ r(i) < i => ~literal(i - r(i))
           Right == {i \in 0 .. Len(s) : Fits(i)}
<1>0. Len(s) \in Nat
  BY LenProperties
<1>1. ASSUME NEW k \in 0 .. Len(s), \A j \in 0 .. k - 1 : j \in Right PROVE k \in Right
  <2>1. r(k) = IF k = 0 \/ ~literal(k) THEN 0 ELSE r(k - 1) + 1
    BY RunStep, Zenon
  <2>2. CASE k = 0 \/ ~literal(k)
    <3> HIDE DEF r, literal
    <3> QED
      BY <2>1, <2>2
  <2>3. CASE k # 0 /\ literal(k)
    <3>1. k - 1 \in 0 .. k - 1
      BY <2>3
    <3>2. Fits(k - 1)
      <4>1. k - 1 \in Right
        <5> HIDE DEF Right
        <5> QED
          BY <1>1, <3>1
      <4> QED
        BY <4>1
    <3>3. r(k) = r(k - 1) + 1
      BY <2>1, <2>3
    <3>4. \A m \in k - r(k) + 1 .. k : m = k \/ m \in (k - 1) - r(k - 1) + 1 .. k - 1
      <4> HIDE DEF r, literal
      <4> QED
        BY <3>2, <3>3
    <3>5. k - r(k) = (k - 1) - r(k - 1)
      <4> HIDE DEF r, literal
      <4> QED
        BY <3>2, <3>3
    <3> HIDE DEF r, literal
    <3> QED
      BY <2>3, <3>2, <3>3, <3>4, <3>5
  <2> QED
    BY <2>2, <2>3
<1>2. 0 .. Len(s) \subseteq Right
  <2> HIDE DEF Right
  <2> QED
    BY <1>0, <1>1, FirstWrong
<1> QED
  BY <1>2

(* The scan finds an anchor exactly where a run of literal letters stands.  *)
Literal(s, k) == s[k] = "a" /\ ~InClass(s, k - 1) /\ ~InBrace(s, k - 1)

LEMMA AnchorFound ==
  ASSUME NEW s \in Seq(STRING), NEW length \in Nat \ {0}
  PROVE has_literal_anchor(s, length)
        <=> \E k \in 1 .. Len(s) - length + 1 : \A m \in k .. k + length - 1 : Literal(s, m)
<1> DEFINE open == [i \in 0 .. Len(s) |-> in_class(s)[i] \/ in_brace(s)[i]]
           r(i) == run(s, open)[i]
           found(m) == s[m] = "a" /\ ~open[m - 1]
<1>1. Len(s) \in Nat
  BY LenProperties
<1>2. ASSUME NEW m \in 1 .. Len(s) PROVE found(m) <=> Literal(s, m)
  <2>1. m - 1 \in 0 .. Len(s)
    BY <1>1
  <2>2. open[m - 1] = (InClass(s, m - 1) \/ InBrace(s, m - 1))
    BY <2>1, InClassIs, InBraceIs
  <2> HIDE DEF open
  <2> QED
    BY <2>2, Zenon DEF Literal
<1>3. ASSUME NEW i \in 0 .. Len(s)
      PROVE /\ r(i) \in 0 .. i
            /\ \A m \in i - r(i) + 1 .. i : found(m)
            /\ r(i) < i => ~found(i - r(i))
  <2> HIDE DEF open
  <2> QED
    BY RunIs, Zenon
<1>4. has_literal_anchor(s, length) <=> \E i \in 0 .. Len(s) : r(i) >= length
  BY Zenon DEF has_literal_anchor
<1> HIDE DEF found, r
<1>5. ASSUME NEW i \in 0 .. Len(s), r(i) >= length
      PROVE \E k \in 1 .. Len(s) - length + 1 : \A m \in k .. k + length - 1 : Literal(s, m)
  <2>1. i - length + 1 \in 1 .. Len(s) - length + 1
    BY <1>1, <1>3, <1>5
  <2>2. ASSUME NEW m \in i - length + 1 .. i - length + 1 + length - 1 PROVE Literal(s, m)
    <3>1. m \in i - r(i) + 1 .. i /\ m \in 1 .. Len(s)
      BY <1>1, <1>3, <1>5
    <3> QED
      BY <3>1, <1>2, <1>3
  <2> QED
    BY <2>1, <2>2
<1>6. ASSUME NEW k \in 1 .. Len(s) - length + 1, \A m \in k .. k + length - 1 : Literal(s, m)
      PROVE \E i \in 0 .. Len(s) : r(i) >= length
  <2> DEFINE i == k + length - 1
  <2>1. i \in 0 .. Len(s) /\ i \in Nat /\ k \in Nat /\ length <= i
    BY <1>1
  <2>2. ASSUME r(i) < length PROVE FALSE
    <3>1. r(i) \in 0 .. i /\ (r(i) < i => ~found(i - r(i)))
      BY <1>3, <2>1
    <3>2. r(i) < i /\ i - r(i) \in k .. k + length - 1 /\ i - r(i) \in 1 .. Len(s)
      BY <1>1, <2>2, <3>1
    <3> QED
      BY <1>2, <1>6, <3>1, <3>2
  <2>3. r(i) \in Int
    BY <1>3, <2>1
  <2> QED
    BY <2>1, <2>2, <2>3
<1> QED
  BY <1>4, <1>5, <1>6
-----------------------------------------------------------------------------
(* A run stays in the world it was started in. *)
LEMMA WorldStays == Spec => [](world \in Worlds)
<1>1. Init => world \in Worlds
  BY DEF Init
<1>2. world \in Worlds /\ [Next]_vars => (world \in Worlds)'
  BY DEF Next, vars, NoVendor, LoadFails, LoadRules, MapFails, Discover, NextFile, SkipNoRules,
         SkipUnreadable, ReadCases, Evaluate, CasesEnd, Report, Exit
<1> QED
  BY <1>1, <1>2, PTL DEF Spec

(* The quarantine's look at a pattern's shape (has_literal_anchor) finds    *)
(* exactly the runs of letters that stand outside of classes and           *)
(* repetitions, in whatever order the brackets come.                       *)
THEOREM AnchorsFound == Spec => []AnchorIsRun
<1>1. ASSUME world \in Worlds PROVE AnchorIsRun
  <2>1. ASSUME NEW r \in world.th PROVE value_part(r.pattern) \in Seq(STRING)
    <3>1. r \in RuleDef
      BY <1>1, CompatAssumption DEF WellFormed
    <3>2. r.pattern \in Seq(STRING)
      BY <3>1 DEF RuleDef
    <3> QED
      BY <3>2, ValuePartType
  <2>2. MinRun \in Nat \ {0}
    BY RulesAssumption
  <2> QED
    BY <2>1, <2>2, AnchorFound DEF AnchorIsRun, Literal
<1> QED
  BY <1>1, WorldStays, PTL
-----------------------------------------------------------------------------
(* Walking and Curated are inductive: only LoadRules sets the engine up, and*)
(* only ReadCases begins a file.                                           *)
LEMMA InitWalks == Init => Walking /\ Curated
<1> SUFFICES ASSUME Init PROVE Walking /\ Curated
  OBVIOUS
<1> QED
  BY DEF Init, Walking, Curated

LEMMA CuratedStep == Walking /\ Curated /\ [Next]_vars => Curated'
<1> SUFFICES ASSUME Walking, Curated, [Next]_vars PROVE Curated'
  OBVIOUS
<1> USE DEF Curated
<1>1. CASE LoadRules
  BY <1>1 DEF LoadRules
<1>2. CASE NoVendor \/ LoadFails \/ MapFails \/ Report
  BY <1>2 DEF Walking, NoVendor, LoadFails, MapFails, Report, Exit
<1>3. CASE Discover
  BY <1>3 DEF Discover
<1>4. CASE NextFile
  BY <1>4 DEF NextFile, SkipNoRules, SkipUnreadable, ReadCases, Take
<1>5. CASE Evaluate \/ CasesEnd
  BY <1>5 DEF Evaluate, CasesEnd
<1>6. CASE UNCHANGED vars
  BY <1>6 DEF vars
<1> QED
  BY <1>1, <1>2, <1>3, <1>4, <1>5, <1>6 DEF Next

(* What a step other than LoadRules leaves alone, and what is computed of it.*)
LEMMA EngineStays ==
  ASSUME world' = world, structural' = structural, detectors' = detectors
  PROVE /\ \A p : RuleIds(p)' = RuleIds(p)
        /\ \A ids, input : HitsOf(ids, input)' = HitsOf(ids, input)
        /\ \A c, ids, t : Passed(c, ids, t)' = Passed(c, ids, t)
        /\ \A f : CasesOf(f)' = CasesOf(f) /\ file(f)' = file(f)
  BY DEF RuleIds, HitsOf, Passed, CasesOf, file

LEMMA WalkingStep == Walking /\ [Next]_vars => Walking'
<1> SUFFICES ASSUME Walking, [Next]_vars PROVE Walking'
  OBVIOUS
<1>1. CASE LoadRules
  BY <1>1 DEF LoadRules, Walking, counters
<1>2. CASE NoVendor \/ LoadFails \/ MapFails \/ Report
  BY <1>2 DEF Walking, NoVendor, LoadFails, MapFails, Report, Exit, counters
<1>3. CASE Discover
  BY <1>3 DEF Discover, Walking, counters, file
<1>4. CASE NextFile
  <2>1. PICK f \in remaining : SkipNoRules(f) \/ SkipUnreadable(f) \/ ReadCases(f)
    BY <1>4 DEF NextFile
  <2>2. /\ phase = "providers" /\ remaining' = remaining \ {f} /\ world' = world /\ exit' = exit
        /\ structural' = structural /\ detectors' = detectors /\ f \in DOMAIN world.files
    BY <2>1 DEF SkipNoRules, SkipUnreadable, ReadCases, Take, counters, Walking
  <2>3. CASE SkipNoRules(f) \/ SkipUnreadable(f)
    BY <2>2, <2>3 DEF SkipNoRules, SkipUnreadable, Walking, counters
  <2>4. CASE ReadCases(f) /\ cases' = <<>>
    BY <2>2, <2>4 DEF ReadCases, Walking
  <2>5. CASE ReadCases(f) /\ cases' # <<>>
    <3>1. /\ phase' = "cases" /\ current' = f /\ rule_ids' = RuleIds(file(f).provider) /\ rule_ids' # {}
          /\ cases' = CasesOf(f) /\ done' = 0 /\ skipped' = skipped
      BY <2>5, <2>2 DEF ReadCases, CasesOf, Walking
    <3>2. seen' = [seen EXCEPT !.evaluated = @ \cup {f}]
      BY <2>5 DEF ReadCases
    <3>3. /\ seen' \in [evaluated : SUBSET DOMAIN world.files, unreadable : SUBSET DOMAIN world.files,
                       verdicts : SUBSET [file : DOMAIN world.files, case : Nat, passed : BOOLEAN]]
          /\ f \in seen'.evaluated
      BY <2>2, <3>2 DEF Walking
    <3>4. rule_ids' = RuleIds(provider)' /\ cases' = CasesOf(current)'
      BY <2>2, <3>1, EngineStays DEF provider
    <3> QED
      BY <2>2, <3>1, <3>3, <3>4 DEF Walking
  <2> QED
    BY <2>1, <2>3, <2>4, <2>5
<1>5. CASE Evaluate
  <2>1. /\ phase = "cases" /\ phase' = phase /\ current' = current /\ cases' = cases /\ done' = done + 1 /\ done < Len(cases)
        /\ world' = world /\ structural' = structural /\ detectors' = detectors /\ rule_ids' = rule_ids
        /\ skipped' = skipped /\ remaining' = remaining /\ exit' = exit
    BY <1>5 DEF Evaluate
  <2>2. current \in DOMAIN world.files /\ done + 1 \in Nat /\ done \in Nat
    BY <2>1 DEF Walking
  <2>3. PICK passed \in BOOLEAN :
          seen' = [seen EXCEPT !.verdicts = @ \cup {[file |-> current, case |-> done + 1, passed |-> passed]}]
    <3>1. Passed(cases[done + 1], rule_ids, provider \in TOLERATED) \in BOOLEAN
      BY DEF Passed
    <3> QED
      BY <1>5, <3>1 DEF Evaluate
  <2>4. /\ seen' \in [evaluated : SUBSET DOMAIN world.files, unreadable : SUBSET DOMAIN world.files,
                     verdicts : SUBSET [file : DOMAIN world.files, case : Nat, passed : BOOLEAN]]
        /\ seen'.evaluated = seen.evaluated
    BY <2>2, <2>3 DEF Walking
  <2>5. RuleIds(provider)' = RuleIds(provider) /\ CasesOf(current)' = CasesOf(current)
    BY <2>1, EngineStays DEF provider
  <2> QED
    BY <2>1, <2>2, <2>4, <2>5 DEF Walking
<1>6. CASE CasesEnd
  BY <1>6 DEF CasesEnd, Walking, counters
<1>7. CASE UNCHANGED vars
  BY <1>7, EngineStays DEF vars, Walking, counters, provider
<1> QED
  BY <1>1, <1>2, <1>3, <1>4, <1>5, <1>6, <1>7 DEF Next

LEMMA RunWalks == Spec => [](Walking /\ Curated)
  BY InitWalks, WalkingStep, CuratedStep, PTL DEF Spec
-----------------------------------------------------------------------------
(* Curation: a rule of a provider that the list does not name is kept, a    *)
(* quarantined one is not, and of the rules for JWTs one is left.          *)
LEMMA JwtIds ==
  /\ JwtToken \notin TH_QUARANTINE /\ IsJwt(JwtToken)
  /\ \A id : Len(id) >= 2 /\ provider_of(id) # "jwt" => ~IsJwt(id)
<1>1. Len(JwtToken) = 1
  BY DEF JwtToken
<1>2. \A id \in TH_QUARANTINE : Len(id) >= 2
  BY RulesAssumption
<1>3. \A id : Len(id) >= 2 => id # JwtToken
  BY <1>1
<1> QED
  BY <1>2, <1>3, Zenon DEF IsJwt, provider_of

LEMMA DetectorsAre ==
  ASSUME Walking, Curated, phase # "start", exit = 0
  PROVE /\ \A r \in detectors : r # JwtHsAware(JwtValues) =>
             r \in world.default \cup world.th /\ ~IsJwt(r.id) /\ r.id \notin TH_QUARANTINE
        /\ JwtHsAware(JwtValues) \in detectors
        /\ \A r \in world.th : rule_is_active(r.id, structural) /\ ~IsJwt(r.id) => r \in detectors
<1>1. detectors = {r \in world.default \cup Active(world.th, structural) : ~IsJwt(r.id)} \cup {JwtHsAware(JwtValues)}
  BY DEF Curated, default_detectors
<1>2. \A r \in Active(world.th, structural) : r \in world.th /\ r.id \notin TH_QUARANTINE
  BY DEF Active, rule_is_active
<1>3. \A r \in world.default : r.id \notin TH_QUARANTINE
  <2>1. \A r \in world.default : Len(r.id) = 1
    BY CompatAssumption DEF Walking, WellFormed
  <2> SUFFICES ASSUME NEW r \in world.default, r.id \in TH_QUARANTINE PROVE FALSE
    OBVIOUS
  <2>2. Len(r.id) = 1
    BY <2>1
  <2>3. Len(r.id) >= 2
    BY RulesAssumption, Zenon
  <2> QED
    BY <2>2, <2>3
<1>4. \A r \in world.th : rule_is_active(r.id, structural) => r \in Active(world.th, structural)
  BY DEF Active
<1>5. \A r \in detectors : r = JwtHsAware(JwtValues) \/ (r \in world.default \cup Active(world.th, structural) /\ ~IsJwt(r.id))
  BY <1>1, Zenon
<1>6. \A r \in Active(world.th, structural) : ~IsJwt(r.id) => r \in detectors
  BY <1>1, Zenon
<1>7. JwtHsAware(JwtValues) \in detectors
  BY <1>1, Zenon
<1>8. ASSUME NEW r \in detectors, r # JwtHsAware(JwtValues)
      PROVE r \in world.default \cup world.th /\ ~IsJwt(r.id) /\ r.id \notin TH_QUARANTINE
  <2>1. r \in world.default \/ r \in Active(world.th, structural)
    BY <1>5, <1>8
  <2> QED
    BY <1>2, <1>3, <1>5, <1>8, <2>1, Zenon
<1>9. ASSUME NEW r \in world.th, rule_is_active(r.id, structural), ~IsJwt(r.id) PROVE r \in detectors
  BY <1>4, <1>6, <1>9, Zenon
<1> QED
  BY <1>7, <1>8, <1>9

(* What curation promises (default_detectors, structural_quarantine): no    *)
(* rule of a provider that has never misbehaved is dropped, no quarantined *)
(* rule runs, and one detector takes the place of all rules for JWTs.      *)
THEOREM UnseenProvidersAreKept == Spec => []UnseenProvidersKept
<1>1. ASSUME Walking, Curated, phase \notin {"start", "exited"} PROVE UnseenProvidersKept
  <2>1. exit = 0 /\ phase # "start"
    BY <1>1 DEF Walking
  <2>2. \A r \in world.th : Len(r.id) >= 2 /\ r.id \in Seq(STRING)
    BY <1>1, CompatAssumption DEF Walking, WellFormed, RuleDef
  <2>3. ASSUME NEW r \in world.th, provider_of(r.id) \notin noisy_providers \cup {"jwt"}
        PROVE r \in detectors
    <3>1. r.id \notin TH_QUARANTINE
      BY <2>3 DEF noisy_providers
    <3>2. r.id \notin structural
      BY <1>1, <2>1, <2>3 DEF Curated, structural_quarantine
    <3>3. ~IsJwt(r.id)
      BY <2>2, <2>3, JwtIds
    <3> QED
      BY <1>1, <2>1, <3>1, <3>2, <3>3, DetectorsAre DEF rule_is_active
  <2>4. JwtHsAware(JwtValues).id = JwtToken /\ JwtHsAware(JwtValues).post = "jwt"
    BY DEF JwtHsAware
  <2>5. JwtToken \notin TH_QUARANTINE /\ IsJwt(JwtToken)
    BY JwtIds
  <2>6. {r.id : r \in detectors} \cap TH_QUARANTINE = {}
    BY <1>1, <2>1, <2>4, <2>5, DetectorsAre
  <2>7. {r.post : r \in {d \in detectors : IsJwt(d.id)}} = {"jwt"}
    <3>1. {d \in detectors : IsJwt(d.id)} = {JwtHsAware(JwtValues)}
      BY <1>1, <2>1, <2>4, <2>5, DetectorsAre
    <3> QED
      BY <2>4, <3>1
  <2> QED
    BY <2>3, <2>6, <2>7 DEF UnseenProvidersKept
<1>2. ASSUME phase \in {"start", "exited"} PROVE UnseenProvidersKept
  BY <1>2 DEF UnseenProvidersKept
<1>3. Walking /\ Curated => UnseenProvidersKept
  BY <1>1, <1>2
<1> QED
  BY <1>3, RunWalks, PTL

(* The rules a provider's cases are about are rules the engine runs, if the *)
(* files of rules have them, however old the provider map is: the two      *)
(* quarantines, the replacement of the JWT rules and RULE_OVERRIDES agree. *)
THEOREM RulesOfCasesRun == Spec => []RunRulesLoaded
<1>1. ASSUME Walking, Curated, phase = "cases" PROVE RunRulesLoaded
  <2>1. exit = 0 /\ phase # "start" /\ rule_ids = RuleIds(provider) /\ rule_ids # {}
    BY <1>1 DEF Walking
  <2>2. CASE provider = "jwt"
    <3>1. rule_ids = {JwtToken}
      BY <2>1, <2>2 DEF RuleIds, override_ids
    <3>2. JwtHsAware(JwtValues).id = JwtToken
      BY DEF JwtHsAware
    <3> QED
      BY <1>1, <2>1, <3>1, <3>2, DetectorsAre DEF RunRulesLoaded
  <2>3. CASE provider # "jwt"
    <3>1. provider \in DOMAIN world.map /\ rule_ids = {id \in world.map[provider] : rule_is_active(id, structural)}
      BY <2>1, <2>3 DEF RuleIds, override_ids
    <3>2. ASSUME NEW id \in rule_ids \cap FiledIds PROVE \E r \in detectors : r.id = id
      <4>2. provider_of(id) = provider /\ Len(id) >= 2
        BY <1>1, <3>1, CompatAssumption DEF Walking, WellFormed
      <4>1. PICK r \in world.th : r.id = id
        <5>0. \A q \in world.default : Len(q.id) = 1
          BY <1>1, CompatAssumption, Zenon DEF Walking, WellFormed
        <5>1. id # JwtToken
          <6>1. IsJwt(JwtToken) /\ ~IsJwt(id)
            BY <2>3, <4>2, JwtIds, Zenon
          <6> QED
            BY <6>1, Zenon
        <5>2. ASSUME NEW q \in world.default, id = q.id PROVE FALSE
          <6>1. Len(id) = 1 /\ Len(id) >= 2
            BY <4>2, <5>0, <5>2, Zenon
          <6> QED
            BY <6>1
        <5>3. id \in FiledIds
          OBVIOUS
        <5> QED
          BY <5>1, <5>2, <5>3, Zenon DEF FiledIds
      <4>3. Len(id) >= 2
        BY <4>2
      <4>4. ~IsJwt(id)
        BY <2>3, <4>2, <4>3, JwtIds
      <4> QED
        BY <1>1, <2>1, <3>1, <4>1, <4>4, DetectorsAre
    <3> QED
      BY <2>1, <3>2 DEF RunRulesLoaded
  <2> QED
    BY <2>2, <2>3
<1>2. ASSUME phase # "cases" PROVE RunRulesLoaded
  BY <1>2 DEF RunRulesLoaded
<1>3. Walking /\ Curated => RunRulesLoaded
  BY <1>1, <1>2
<1> QED
  BY <1>3, RunWalks, PTL
-----------------------------------------------------------------------------
(* A walk from position to position that collects something at each: it is  *)
(* defined everywhere, and has collected nothing else.                     *)
Jumps(n) == {next \in [0 .. n - 1 -> 1 .. n] : \A p \in 0 .. n - 1 : next[p] > p}
IsWalk(g, n, own, next) ==
    g = [p \in 0 .. n |-> g[p]] /\ g[n] = {} /\ \A p \in 0 .. n - 1 : g[p] = own[p] \cup g[next[p]]

LEMMA WalkExists ==
  ASSUME NEW n \in Nat, NEW own, NEW next \in Jumps(n)
  PROVE \E g : IsWalk(g, n, own, next)
<1> DEFINE Walk(k, g) == /\ g = [p \in n - k .. n |-> g[p]] /\ g[n] = {}
                         /\ \A p \in n - k .. n - 1 : g[p] = own[p] \cup g[next[p]]
           Done == {k \in 0 .. n : \E g : Walk(k, g)}
<1>1. ASSUME NEW k \in 0 .. n, \A j \in 0 .. k - 1 : j \in Done PROVE k \in Done
  <2>1. CASE k = 0
    <3>1. Walk(0, [p \in n - 0 .. n |-> {}])
      OBVIOUS
    <3> QED
      BY <2>1, <3>1
  <2>2. CASE k # 0
    <3>1. k - 1 \in Done
      <4>1. k - 1 \in 0 .. k - 1
        BY <2>2
      <4> HIDE DEF Done
      <4> QED
        BY <1>1, <4>1
    <3>2. PICK g : Walk(k - 1, g)
      BY <3>1
    <3> DEFINE at == n - k
               h == [p \in at .. n |-> IF p = at THEN own[at] \cup g[next[at]] ELSE g[p]]
    <3>3. at \in 0 .. n - 1 /\ next[at] \in at + 1 .. n
      BY <2>2 DEF Jumps
    <3>4. \A p \in at + 1 .. n : h[p] = g[p]
      OBVIOUS
    <3>5. h[at] = own[at] \cup h[next[at]]
      <4>1. h[at] = own[at] \cup g[next[at]]
        BY <3>3
      <4> HIDE DEF h
      <4> QED
        BY <3>3, <3>4, <4>1
    <3>6. ASSUME NEW p \in at .. n - 1, p # at PROVE h[p] = own[p] \cup h[next[p]]
      <4>1. p \in n - (k - 1) .. n - 1 /\ p \in at + 1 .. n /\ p \in 0 .. n - 1
        BY <3>3, <3>6
      <4>2. next[p] \in at + 1 .. n
        BY <3>3, <4>1 DEF Jumps
      <4>3. g[p] = own[p] \cup g[next[p]]
        BY <3>2, <4>1
      <4> HIDE DEF h
      <4> QED
        BY <3>4, <4>1, <4>2, <4>3
    <3>7. h[n] = {} /\ h = [p \in n - k .. n |-> h[p]]
      <4>1. n \in at + 1 .. n
        BY <3>3
      <4> QED
        BY <3>2, <3>4, <4>1
    <3>8. Walk(k, h)
      <4> HIDE DEF h
      <4> QED
        BY <3>5, <3>6, <3>7
    <3> HIDE DEF h
    <3> QED
      BY <3>8
  <2> QED
    BY <2>1, <2>2
<1>2. 0 .. n \subseteq Done
  <2> HIDE DEF Done
  <2> QED
    BY <1>1, FirstWrong
<1>3. PICK g : Walk(n, g)
  <2>1. n \in Done
    <3> HIDE DEF Done
    <3> QED
      BY <1>2
  <2> QED
    BY <2>1
<1>4. n - n = 0
  OBVIOUS
<1>5. IsWalk(g, n, own, next)
  BY <1>3, <1>4, Zenon DEF IsWalk
<1> QED
  BY <1>5

LEMMA WalkWithin ==
  ASSUME NEW n \in Nat, NEW own, NEW next \in Jumps(n), NEW g, IsWalk(g, n, own, next),
         NEW Found, \A p \in 0 .. n - 1 : own[p] \subseteq Found
  PROVE \A p \in 0 .. n : g[p] \subseteq Found
<1> DEFINE Right == {k \in 0 .. n : g[n - k] \subseteq Found}
<1>1. ASSUME NEW k \in 0 .. n, \A j \in 0 .. k - 1 : j \in Right PROVE k \in Right
  <2>1. CASE k = 0
    BY <2>1 DEF IsWalk
  <2>2. CASE k # 0
    <3>1. n - k \in 0 .. n - 1 /\ next[n - k] \in n - k + 1 .. n
      BY <2>2 DEF Jumps
    <3>2. g[n - k] = own[n - k] \cup g[next[n - k]]
      BY <3>1 DEF IsWalk
    <3>3. n - next[n - k] \in 0 .. k - 1 /\ n - (n - next[n - k]) = next[n - k]
      BY <3>1
    <3>4. g[next[n - k]] \subseteq Found
      <4>1. n - next[n - k] \in Right
        <5> HIDE DEF Right
        <5> QED
          BY <1>1, <3>3
      <4> QED
        BY <3>3, <4>1
    <3> QED
      BY <3>1, <3>2, <3>4
  <2> QED
    BY <2>1, <2>2
<1>2. 0 .. n \subseteq Right
  <2> HIDE DEF Right
  <2> QED
    BY <1>1, FirstWrong
<1>3. ASSUME NEW p \in 0 .. n PROVE g[p] \subseteq Found
  <2>1. n - p \in 0 .. n /\ n - (n - p) = p
    OBVIOUS
  <2> QED
    BY <1>2, <2>1
<1> QED
  BY <1>3
-----------------------------------------------------------------------------
(* The engine: a match lies in its text and ends with a value of its rule,  *)
(* of which group 1 holds the first part.                                  *)
IsRegex(r) == r.keyword \in Seq(STRING) /\ r.gap \in Nat /\ r.values \in Seq(Alternative)

LEMMA MatchedIs ==
  ASSUME NEW v \in Alternative
  PROVE /\ v.group \in Seq(STRING) /\ v.after \in Seq(STRING) /\ Matched(v) \in Seq(STRING)
        /\ Len(v.group) \in Nat /\ Len(v.after) \in Nat /\ Len(Matched(v)) = Len(v.group) + Len(v.after)
<1>1. v.group \in Seq(STRING) /\ v.after \in Seq(STRING)
  BY DEF Alternative
<1> QED
  BY <1>1, LenProperties, ConcatProperties DEF Matched

(* Where a value stands, its parts stand one behind the other.              *)
LEMMA SliceIs ==
  ASSUME NEW text \in Seq(STRING), NEW p \in Nat, NEW n \in Nat, p + n <= Len(text)
  PROVE /\ Slice(text, p, p + n) \in Seq(STRING) /\ Len(Slice(text, p, p + n)) = n
        /\ \A i \in 1 .. n : Slice(text, p, p + n)[i] = text[p + i]
<1>1. \A i \in p + 1 .. p + n : text[i] \in STRING
  BY LenProperties, ElementOfSeq
<1>2. p + 1 \in Int /\ p + n \in Int /\ (p + n) - (p + 1) + 1 = n /\ (p + 1 <= p + n \/ n = 0)
  OBVIOUS
<1>3. \A i \in 1 .. n : (p + 1) + i - 1 = p + i
  OBVIOUS
<1> DEFINE s == SubSeq(text, p + 1, p + n)
<1>4. /\ s \in Seq(STRING) /\ Len(s) = IF p + 1 <= p + n THEN (p + n) - (p + 1) + 1 ELSE 0
      /\ \A i \in 1 .. (p + n) - (p + 1) + 1 : s[i] = text[(p + 1) + i - 1]
  BY <1>1, <1>2, SubSeqProperties
<1>5. Slice(text, p, p + n) = s
  BY DEF Slice
<1> HIDE DEF s
<1>6. Len(s) = n
  BY <1>2, <1>4
<1>7. \A i \in 1 .. n : s[i] = text[p + i]
  BY <1>2, <1>3, <1>4
<1> QED
  BY <1>4, <1>5, <1>6, <1>7

LEMMA PartsOccur ==
  ASSUME NEW text \in Seq(STRING), NEW v \in Alternative, NEW p \in Nat, Occurs(Matched(v), text, p)
  PROVE Occurs(v.group, text, p) /\ Occurs(v.after, text, p + Len(v.group))
<1> DEFINE a == Len(v.group)
           b == Len(v.after)
           whole == Slice(text, p, p + (a + b))
           first == Slice(text, p, p + a)
           second == Slice(text, p + a, p + a + b)
<1>1. a \in Nat /\ b \in Nat /\ Len(text) \in Nat /\ v.group \in Seq(STRING) /\ v.after \in Seq(STRING)
  BY MatchedIs, LenProperties
<1>2. p + (a + b) <= Len(text) /\ whole = v.group \o v.after
  BY MatchedIs DEF Occurs, Matched
<1> HIDE DEF a, b
<1>3. p + a <= Len(text) /\ p + a + b <= Len(text) /\ a + b \in Nat /\ p + a \in Nat
  BY <1>1, <1>2
<1>4. \A i \in 1 .. a + b : text[p + i] = IF i <= a THEN v.group[i] ELSE v.after[i - a]
  <2>1. \A i \in 1 .. a + b : whole[i] = text[p + i]
    BY <1>2, <1>3, SliceIs
  <2>2. \A i \in 1 .. a + b : (v.group \o v.after)[i] = IF i <= a THEN v.group[i] ELSE v.after[i - a]
    BY <1>1, ConcatProperties DEF a, b
  <2> QED
    BY <1>2, <2>1, <2>2
<1>5. first = v.group
  <2>1. first \in Seq(STRING) /\ Len(first) = a /\ \A i \in 1 .. a : first[i] = text[p + i]
    BY <1>1, <1>3, SliceIs
  <2>2. \A i \in 1 .. a : text[p + i] = v.group[i]
    BY <1>1, <1>4
  <2> HIDE DEF first
  <2>3. Len(first) = Len(v.group) /\ \A i \in 1 .. Len(first) : first[i] = v.group[i]
    BY <2>1, <2>2 DEF a
  <2> QED
    BY <1>1, <2>1, <2>3, SeqEqual
<1>6. second = v.after
  <2>1. second \in Seq(STRING) /\ Len(second) = b /\ \A i \in 1 .. b : second[i] = text[p + a + i]
    BY <1>1, <1>3, SliceIs
  <2>2. ASSUME NEW i \in 1 .. b PROVE text[p + a + i] = v.after[i]
    <3>1. a + i \in 1 .. a + b /\ ~(a + i <= a) /\ (a + i) - a = i /\ p + (a + i) = p + a + i
      BY <1>1
    <3> QED
      BY <1>4, <3>1
  <2> HIDE DEF second
  <2>3. Len(second) = Len(v.after) /\ \A i \in 1 .. Len(second) : second[i] = v.after[i]
    BY <2>1, <2>2 DEF b
  <2> QED
    BY <1>1, <2>1, <2>3, SeqEqual
<1> QED
  BY <1>3, <1>5, <1>6 DEF Occurs, a, b

LEMMA MatchIs ==
  ASSUME NEW r, IsRegex(r), NEW text \in Seq(STRING), NEW p \in Nat, Matches(r, text, p)
  PROVE \E g \in 0 .. r.gap, i \in DOMAIN r.values :
          /\ MatchAt(r, text, p) = [start |-> p, group |-> p + Len(r.keyword) + g,
                                    group_end |-> p + Len(r.keyword) + g + Len(r.values[i].group),
                                    end |-> p + Len(r.keyword) + g + Len(Matched(r.values[i]))]
          /\ Occurs(Matched(r.values[i]), text, p + Len(r.keyword) + g)
<1> DEFINE gaps == Gaps(r, text, p)
           g == CHOOSE n \in gaps : \A m \in gaps : n <= m
           from == p + Len(r.keyword) + g
           fits == {i \in DOMAIN r.values : Occurs(Matched(r.values[i]), text, from)}
           i == CHOOSE n \in fits : \A m \in fits : n <= m
<1>1. gaps # {} /\ gaps \in SUBSET Nat
  BY DEF Matches, Gaps, IsRegex
<1>2. g \in gaps
  <2>1. \E n \in gaps : \A m \in gaps : n <= m
    <3> HIDE DEF gaps
    <3> QED
      BY <1>1, MinExists
  <2> HIDE DEF gaps
  <2> QED
    BY <2>1
<1>3. g \in 0 .. r.gap /\ fits # {} /\ fits \in SUBSET Nat
  <2> HIDE DEF g
  <2>1. g \in 0 .. r.gap /\ \E k \in DOMAIN r.values : Occurs(Matched(r.values[k]), text, p + Len(r.keyword) + g)
    BY <1>2 DEF Gaps
  <2>2. DOMAIN r.values \subseteq Nat
    BY DEF IsRegex
  <2> QED
    BY <2>1, <2>2
<1>4. i \in fits
  <2>1. \E n \in fits : \A m \in fits : n <= m
    <3> HIDE DEF fits
    <3> QED
      BY <1>3, MinExists
  <2> HIDE DEF fits
  <2> QED
    BY <2>1
<1>5. MatchAt(r, text, p) = [start |-> p, group |-> from, group_end |-> from + Len(r.values[i].group),
                             end |-> from + Len(Matched(r.values[i]))]
  BY Zenon DEF MatchAt
<1> HIDE DEF g, i
<1> QED
  BY <1>3, <1>4, <1>5

(* What captures_iter finds are matches. *)
LEMMA FoundAreMatches ==
  ASSUME NEW r, IsRegex(r), NEW text \in Seq(STRING), NEW m \in captures_iter(r, text)
  PROVE \E p \in 0 .. Len(text) : Matches(r, text, p) /\ m = MatchAt(r, text, p)
<1> DEFINE n == Len(text)
           hit(p) == Matches(r, text, p)
           behind(p) == IF MatchAt(r, text, p).end > p THEN MatchAt(r, text, p).end ELSE p + 1
           own == [p \in 0 .. n - 1 |-> IF hit(p) THEN {MatchAt(r, text, p)} ELSE {}]
           next == [p \in 0 .. n - 1 |-> IF hit(p) THEN behind(p) ELSE p + 1]
           Found == {MatchAt(r, text, p) : p \in {q \in 0 .. n : hit(q)}}
           At(from, p) == IF p = n THEN {} ELSE IF ~hit(p) THEN from[p + 1]
                          ELSE {MatchAt(r, text, p)} \cup from[behind(p)]
<1>1. n \in Nat
  BY LenProperties
<1>2. next \in Jumps(n)
  <2>1. ASSUME NEW p \in 0 .. n - 1, hit(p) PROVE behind(p) \in p + 1 .. n
    <3>0. p \in Nat
      OBVIOUS
    <3>1. PICK g \in 0 .. r.gap, i \in DOMAIN r.values :
            /\ MatchAt(r, text, p) = [start |-> p, group |-> p + Len(r.keyword) + g,
                                      group_end |-> p + Len(r.keyword) + g + Len(r.values[i].group),
                                      end |-> p + Len(r.keyword) + g + Len(Matched(r.values[i]))]
            /\ Occurs(Matched(r.values[i]), text, p + Len(r.keyword) + g)
      BY <2>1, <3>0, MatchIs
    <3>2. Len(r.keyword) \in Nat /\ Len(Matched(r.values[i])) \in Nat /\ g \in Nat
      <4>0. r.values[i] \in Alternative
        BY DEF IsRegex
      <4>1. Matched(r.values[i]) \in Seq(STRING)
        BY <4>0, MatchedIs
      <4> QED
        BY <4>1, LenProperties DEF IsRegex
    <3>3. MatchAt(r, text, p).end \in Nat /\ MatchAt(r, text, p).end <= n
      <4> DEFINE k == Len(r.keyword)
                 v == Len(Matched(r.values[i]))
                 end == MatchAt(r, text, p).end
      <4>1. p + k + g + v <= n
        BY <3>1, Zenon DEF Occurs
      <4>2. end = p + k + g + v
        BY <3>1
      <4>3. k \in Nat /\ v \in Nat /\ g \in Nat
        BY <3>2
      <4> HIDE DEF n, k, v, end
      <4>4. end \in Nat /\ end <= n
        BY <3>0, <4>1, <4>2, <4>3
      <4> QED
        BY <4>4 DEF end
    <3> QED
      BY <1>1, <3>3
  <2>2. ASSUME NEW p \in 0 .. n - 1 PROVE next[p] \in p + 1 .. n
    <3> HIDE DEF hit, behind
    <3> QED
      BY <1>1, <2>1
  <2>3. DOMAIN next = 0 .. n - 1 /\ next = [p \in 0 .. n - 1 |-> next[p]]
    OBVIOUS
  <2> HIDE DEF next, n
  <2> QED
    BY <1>1, <2>2, <2>3 DEF Jumps
<1>3. PICK g : IsWalk(g, n, own, next)
  <2> HIDE DEF n, own, next
  <2> QED
    BY <1>1, <1>2, WalkExists
<1>4. ASSUME NEW f PROVE IsWalk(f, n, own, next) <=> f = [p \in 0 .. n |-> At(f, p)]
  <2> HIDE DEF hit, behind
  <2>1. n \in 0 .. n /\ \A p \in 0 .. n : p = n \/ (p \in 0 .. n - 1 /\ p # n)
    BY <1>1
  <2>2. \A p \in 0 .. n - 1 : own[p] \cup f[next[p]] = IF ~hit(p) THEN f[p + 1] ELSE {MatchAt(r, text, p)} \cup f[behind(p)]
    OBVIOUS
  <2>3. ASSUME IsWalk(f, n, own, next) PROVE f = [p \in 0 .. n |-> At(f, p)]
    <3>1. f[n] = {} /\ \A p \in 0 .. n - 1 : f[p] = own[p] \cup f[next[p]]
      BY <2>3 DEF IsWalk
    <3>2. ASSUME NEW p \in 0 .. n PROVE f[p] = At(f, p)
      BY <2>1, <2>2, <3>1
    <3>3. f = [p \in 0 .. n |-> f[p]]
      BY <2>3, Zenon DEF IsWalk
    <3> HIDE DEF At
    <3> QED
      BY <3>2, <3>3, Zenon
  <2>4. ASSUME f = [p \in 0 .. n |-> At(f, p)] PROVE IsWalk(f, n, own, next)
    <3>1. f = [p \in 0 .. n |-> f[p]] /\ f[n] = {}
      BY <2>1, <2>4
    <3>2. ASSUME NEW p \in 0 .. n - 1 PROVE f[p] = own[p] \cup f[next[p]]
      <4>1. p \in 0 .. n /\ p # n
        BY <1>1
      <4>2. f[p] = At(f, p)
        <5> HIDE DEF At
        <5> QED
          BY <2>4, <4>1
      <4> QED
        BY <2>2, <4>1, <4>2
    <3> QED
      BY <3>1, <3>2 DEF IsWalk
  <2> QED
    BY <2>3, <2>4
<1>5. captures_iter(r, text) = (CHOOSE from : from = [p \in 0 .. n |-> At(from, p)])[0]
  BY Zenon DEF captures_iter
<1>6. PICK f : f = [p \in 0 .. n |-> At(f, p)] /\ captures_iter(r, text) = f[0]
  <2> HIDE DEF At
  <2> QED
    BY <1>3, <1>4, <1>5
<1>7. \A p \in 0 .. n : f[p] \subseteq Found
  <2>1. \A p \in 0 .. n - 1 : own[p] \subseteq Found
    <3> HIDE DEF hit
    <3> QED
      BY <1>1
  <2>2. IsWalk(f, n, own, next)
    BY <1>4, <1>6
  <2> HIDE DEF n, own, next, Found
  <2> QED
    BY <1>1, <1>2, <2>1, <2>2, WalkWithin
<1>8. m \in Found
  <2>1. 0 \in 0 .. n
    BY <1>1
  <2> HIDE DEF Found
  <2> QED
    BY <2>1, <1>6, <1>7
<1> QED
  BY <1>8

(* A token whose header names an algorithm of the HS family does not pass.  *)
LEMMA HmacIsDropped ==
  ASSUME NEW v \in Seq(STRING), IsToken(v), NEW r, r.post = "jwt", post_filter(r, v)
  PROVE v[1] # "hs"
<1> SUFFICES ASSUME v[1] = "hs" PROVE FALSE
  OBVIOUS
<1> DEFINE first == FirstIndex(v, ".", 1)
           header == {v[i] : i \in 1 .. first - 1} \ {"="}
<1>1. PICK dot \in 2 .. Len(v) : /\ v[dot] = "." /\ v[1] \notin {".", "="}
                                 /\ \A i \in 2 .. dot - 1 : v[i] = "="
  BY DEF IsToken
<1>2. first # 0 /\ header # {"hs"}
  BY Zenon DEF post_filter
<1>3. first \in 1 .. Len(v) /\ v[first] = "." /\ \A i \in 1 .. first - 1 : v[i] # "."
  BY <1>2, FirstIndexIs
<1> HIDE DEF first
<1>4. Len(v) \in Nat
  BY LenProperties
<1>5. first \in 2 .. dot
  <2>1. first # 1
    BY <1>1, <1>3
  <2>2. ~(dot \in 1 .. first - 1)
    BY <1>1, <1>3
  <2> QED
    BY <2>1, <2>2, <1>1, <1>3, <1>4
<1>6. \A i \in 1 .. first - 1 : i = 1 \/ i \in 2 .. dot - 1
  BY <1>1, <1>5
<1>7. 1 \in 1 .. first - 1
  BY <1>1, <1>5
<1>8. header = {"hs"}
  BY <1>1, <1>6, <1>7
<1> QED
  BY <1>2, <1>8

LEMMA DetectorsAreRegexes ==
  ASSUME Walking, Curated, phase # "start", exit = 0, NEW r \in detectors
  PROVE /\ IsRegex(r) /\ (r.capture = 0 => r.keyword = <<>> /\ r.gap = 0)
        /\ r.post = "jwt" => r = JwtHsAware(JwtValues)
<1>1. CASE r = JwtHsAware(JwtValues)
  <2>1. r.keyword = <<>> /\ r.gap = 0 /\ r.values = [i \in DOMAIN JwtValues |-> [group |-> JwtValues[i], after |-> <<>>]]
    BY <1>1 DEF JwtHsAware
  <2>2. <<>> \in Seq(STRING)
    BY EmptySeq
  <2>3. \A i \in DOMAIN JwtValues : [group |-> JwtValues[i], after |-> <<>>] \in Alternative
    BY <2>2, CompatAssumption DEF Alternative
  <2>4. DOMAIN JwtValues = 1 .. Len(JwtValues) /\ Len(JwtValues) \in Nat
    BY CompatAssumption, LenProperties
  <2>5. r.values \in Seq(Alternative)
    BY <2>1, <2>3, <2>4
  <2> QED
    BY <1>1, <2>1, <2>2, <2>5 DEF IsRegex
<1>2. CASE r # JwtHsAware(JwtValues)
  <2>1. r \in world.default \cup world.th
    BY <1>2, DetectorsAre
  <2>2. r \in RuleDef /\ (r.capture = 0 => r.keyword = <<>> /\ r.gap = 0)
    BY <2>1, CompatAssumption DEF Walking, WellFormed
  <2> QED
    BY <2>2 DEF RuleDef, IsRegex
<1> QED
  BY <1>1, <1>2

(* Whatever the text and wherever the chunk lies, a hit is the group that   *)
(* its rule reports of a match, and passed the rule's filters.             *)
LEMMA HitIsGroup ==
  ASSUME Walking, Curated, phase # "start", exit = 0, NEW text \in Seq(STRING), NEW offset \in Nat,
         NEW h \in scan_chunk(detectors, [bytes |-> text, offset |-> offset])
  PROVE \E r \in detectors : r.id = h.rule_id /\ Captured(r, text, h.offset - offset, h.offset - offset + h.len)
<1> DEFINE chunk == [bytes |-> text, offset |-> offset]
<1>1. PICK r \in detectors : h \in HitsOfDetector(r, chunk)
  BY DEF scan_chunk
<1>2. PICK m \in captures_iter(r, text) :
        Reported(r, text, m) /\ h = [offset |-> offset + From(r, m), len |-> Size(r, m), rule_id |-> r.id]
  BY <1>1 DEF HitsOfDetector
<1>3. IsRegex(r) /\ (r.capture = 0 => r.keyword = <<>> /\ r.gap = 0) /\ (r.post = "jwt" => r = JwtHsAware(JwtValues))
  BY DetectorsAreRegexes
<1>4. PICK p \in 0 .. Len(text) : Matches(r, text, p) /\ m = MatchAt(r, text, p)
  BY <1>3, FoundAreMatches
<1>5. PICK g \in 0 .. r.gap, i \in DOMAIN r.values :
        /\ m = [start |-> p, group |-> p + Len(r.keyword) + g,
                group_end |-> p + Len(r.keyword) + g + Len(r.values[i].group),
                end |-> p + Len(r.keyword) + g + Len(Matched(r.values[i]))]
        /\ Occurs(Matched(r.values[i]), text, p + Len(r.keyword) + g)
  <2>1. p \in Nat
    OBVIOUS
  <2> QED
    BY <1>3, <1>4, <2>1, MatchIs
<1> DEFINE k == Len(r.keyword)
           v == r.values[i]
           a == Len(v.group)
           w == Len(Matched(v))
           from == p + k + g
           size == IF r.capture = 0 THEN w ELSE a
<1>6. k \in Nat /\ a \in Nat /\ w \in Nat /\ g \in Nat /\ g <= r.gap /\ p \in Nat /\ v \in Alternative
  <2>1. v \in Alternative /\ r.keyword \in Seq(STRING) /\ r.gap \in Nat
    BY <1>3 DEF IsRegex
  <2>2. Len(v.group) \in Nat /\ Len(Matched(v)) \in Nat
    BY <2>1, MatchedIs, LenProperties
  <2> QED
    BY <2>1, <2>2, LenProperties
<1>7. From(r, m) = from /\ Size(r, m) = size /\ To(r, m) = from + size /\ from \in Nat /\ size \in Nat
  <2>1. r.capture \in {0, 1}
    BY <1>2 DEF Reported, Groups
  <2>2. CASE r.capture = 1
    <3>1. From(r, m) = m.group /\ To(r, m) = m.group_end /\ Size(r, m) = m.group_end - m.group
      BY <2>2 DEF From, To, Size
    <3>2. m.group = from /\ m.group_end = from + a /\ size = a
      BY <1>5, <2>2
    <3> HIDE DEF k, a, w, size
    <3> QED
      BY <1>6, <3>1, <3>2
  <2>3. CASE r.capture = 0
    <3>1. From(r, m) = m.start /\ To(r, m) = m.end /\ Size(r, m) = m.end - m.start
      BY <2>3 DEF From, To, Size
    <3>2. m.start = p /\ m.end = from + w /\ size = w
      BY <1>5, <2>3
    <3>3. k = 0 /\ g = 0
      <4>1. r.keyword = <<>> /\ r.gap = 0
        BY <1>3, <2>3
      <4> QED
        BY <4>1, EmptySeq
    <3> HIDE DEF k, a, w, size
    <3> QED
      BY <1>6, <3>1, <3>2, <3>3
  <2> QED
    BY <2>1, <2>2, <2>3
<1>8. h.offset - offset = from /\ h.offset - offset + h.len = from + size /\ r.id = h.rule_id
  <2>1. h.offset = offset + from /\ h.len = size /\ r.id = h.rule_id
    BY <1>2, <1>7
  <2> HIDE DEF from, size
  <2> QED
    BY <1>7, <2>1
<1> DEFINE slice == Slice(text, from, from + size)
<1>9. Occurs(v.group, text, from) /\ Occurs(v.after, text, from + a) /\ Occurs(Matched(v), text, from)
  <2>1. Occurs(Matched(v), text, from)
    BY <1>5
  <2> HIDE DEF from, v, a
  <2> QED
    BY <1>6, <1>7, <2>1, PartsOccur DEF a
<1>10. slice = Group(r, v) /\ (r.capture # 0 => Occurs(v.after, text, from + size))
  <2>1. CASE r.capture = 0
    <3>1. size = w /\ Slice(text, from, from + w) = Matched(v)
      BY <2>1, <1>9, Zenon DEF Occurs
    <3> HIDE DEF w, v, from, size
    <3> QED
      BY <2>1, <3>1 DEF Group
  <2>2. CASE r.capture # 0
    <3>1. size = a /\ Slice(text, from, from + a) = v.group
      BY <2>2, <1>9, Zenon DEF Occurs
    <3> HIDE DEF a, v, from, size
    <3> QED
      BY <1>9, <2>2, <3>1 DEF Group
  <2> QED
    BY <2>1, <2>2
<1>11. v \in ToSet(r.values)
  BY DEF ToSet
<1>12. /\ p \in 0 .. from /\ from - p <= Len(r.keyword) + r.gap /\ p + Len(r.keyword) <= from
       /\ Occurs(r.keyword, text, p)
  <2>1. Occurs(r.keyword, text, p)
    BY <1>4 DEF Matches
  <2>2. r.gap \in Nat /\ from = p + k + g
    BY <1>3 DEF IsRegex
  <2>3. p \in 0 .. from /\ from - p <= k + r.gap /\ p + k <= from
    <3> HIDE DEF from, k
    <3> QED
      BY <1>6, <2>2
  <2> QED
    BY <2>1, <2>3
<1>13. shannon_entropy(slice) >= r.min_entropy /\ post_filter(r, slice)
  <2>1. slice = Slice(text, From(r, m), To(r, m))
    BY <1>7
  <2> HIDE DEF slice
  <2> QED
    BY <1>2, <2>1 DEF Reported
<1>14. r.post = "jwt" => slice[1] # "hs"
  <2> SUFFICES ASSUME r.post = "jwt" PROVE slice[1] # "hs"
    OBVIOUS
  <2>1. i \in DOMAIN JwtValues /\ v = [group |-> JwtValues[i], after |-> <<>>] /\ r.capture = 0
    BY <1>3 DEF JwtHsAware
  <2>2. IsToken(JwtValues[i]) /\ JwtValues[i] \in Seq(STRING)
    BY <2>1, CompatAssumption
  <2>3. Matched(v) = JwtValues[i]
    BY <2>1, <2>2, ConcatEmptySeq DEF Matched
  <2>4. slice = JwtValues[i]
    BY <1>10, <2>1, <2>3, Zenon DEF Group
  <2> HIDE DEF slice
  <2> QED
    BY <1>13, <2>2, <2>4, HmacIsDropped
<1> HIDE DEF slice, from, size, v, k, a, w
<1>15. Captured(r, text, from, from + size)
  BY <1>10, <1>11, <1>12, <1>13, <1>14, Zenon DEF Captured, slice
<1> QED
  BY <1>8, <1>15, Zenon

(* A file's cases are what its trees say. *)
LEMMA CasesTyped ==
  ASSUME NEW src \in Source
  PROVE parse_provider(src) \in Seq(Case)
<1> DEFINE decls == src.decls
           entries == src.entries
           Cases(c) == IF src.table /\ IsCase(c) THEN <<c>> ELSE <<>>
           parts == [n \in DOMAIN entries |-> Cases(parse_case(entries[n], extract_vars(decls)))]
<1>1. decls \in Seq(Decl) /\ entries \in Seq(Seq(Token))
  BY DEF Source
<1>2. parse_provider(src) = FlattenSeq(parts)
  BY Zenon DEF parse_provider
<1>3. ASSUME NEW c \in Case PROVE Cases(c) \in Seq(Case)
  <2>1. <<>> \in Seq(Case) /\ <<c>> \in Seq(Case)
    OBVIOUS
  <2> QED
    BY <2>1, Zenon
<1>4. ASSUME NEW n \in DOMAIN entries PROVE Cases(parse_case(entries[n], extract_vars(decls))) \in Seq(Case)
  <2>1. entries[n] \in Seq(Token)
    BY <1>1
  <2>2. parse_case(entries[n], extract_vars(decls)) \in Case
    BY <1>1, <2>1, CaseType
  <2> HIDE DEF Cases
  <2> QED
    BY <1>3, <2>2
<1>5. parts \in Seq(Seq(Case))
  <2>1. DOMAIN entries = 1 .. Len(entries) /\ Len(entries) \in Nat
    BY <1>1, LenProperties
  <2> HIDE DEF Cases, entries
  <2> QED
    BY <1>4, <2>1, SeqDef
<1> QED
  BY <1>2, <1>5, FlattenType

LEMMA SourceOf ==
  ASSUME Walking, NEW f \in DOMAIN world.files
  PROVE file(f).source \in Source
BY CompatAssumption, Zenon DEF Walking, WellFormed, file

LEMMA CasesType ==
  ASSUME Walking, NEW f \in DOMAIN world.files
  PROVE CasesOf(f) \in Seq(Case) /\ \A i \in DOMAIN CasesOf(f) : CasesOf(f)[i].input \in Seq(STRING)
<1>1. CasesOf(f) \in Seq(Case)
  BY SourceOf, CasesTyped DEF CasesOf
<1>2. ASSUME NEW i \in DOMAIN CasesOf(f) PROVE CasesOf(f)[i].input \in Seq(STRING)
  <2>1. CasesOf(f)[i] \in Case
    BY <1>1
  <2> QED
    BY <2>1 DEF Case
<1> QED
  BY <1>1, <1>2

LEMMA WrittenIsRead ==
  ASSUME Walking, NEW f \in DOMAIN world.files, Readable(f)
  PROVE WrittenCases(f) = CasesOf(f)
<1>1. PICK src \in Source : src = file(f).source
  BY SourceOf
<1> DEFINE Cases(c) == IF src.table /\ IsCase(c) THEN <<c>> ELSE <<>>
           read(n) == parse_case(src.entries[n], extract_vars(src.decls))
           written(n) == EntryMeans(src.entries[n], src.trees[n], src.decls)
<1>2. \A n \in DOMAIN src.entries : read(n) = written(n)
  <2>1. DOMAIN src.trees = DOMAIN src.entries
        /\ \A n \in DOMAIN src.trees : IsEntry(src.entries[n], src.trees[n], src.decls)
    BY <1>1, Zenon DEF Readable
  <2>2. src.decls \in Seq(Decl) /\ src.entries \in Seq(Seq(Token)) /\ src.trees \in Seq(Tree)
    BY DEF Source
  <2>3. ASSUME NEW n \in DOMAIN src.entries PROVE read(n) = written(n)
    <3>1. src.entries[n] \in Seq(Token) /\ src.trees[n] \in Tree
      BY <2>1, <2>2
    <3>2. IsEntry(src.entries[n], src.trees[n], src.decls)
      BY <2>1
    <3> QED
      BY <2>2, <3>1, <3>2, CaseRead
  <2> QED
    BY <2>3
<1>3. CasesOf(f) = FlattenSeq([n \in DOMAIN src.entries |-> Cases(read(n))])
  BY <1>1, Zenon DEF CasesOf, parse_provider
<1>4. WrittenCases(f) = FlattenSeq([n \in DOMAIN src.entries |-> Cases(written(n))])
  BY <1>1, Zenon DEF WrittenCases
<1> HIDE DEF Cases, read, written
<1>5. [n \in DOMAIN src.entries |-> Cases(read(n))] = [n \in DOMAIN src.entries |-> Cases(written(n))]
  BY <1>2, Zenon
<1> QED
  BY <1>3, <1>4, <1>5, Zenon

(* The cases are read as they are written (parse_provider, parse_case), with*)
(* their fields in whatever order and with whatever other fields, if a tree*)
(* fits their text and the reader can know all names in it.                *)
THEOREM ReadsAsWritten == Spec => []ReadFaithfully
<1>1. ASSUME Walking, phase = "cases", Readable(current) PROVE cases = WrittenCases(current)
  <2>1. cases = CasesOf(current) /\ current \in DOMAIN world.files
    BY <1>1 DEF Walking
  <2> QED
    BY <1>1, <2>1, WrittenIsRead
<1>2. Walking => ReadFaithfully
  BY <1>1 DEF ReadFaithfully
<1>3. Walking /\ Curated => ReadFaithfully
  BY <1>2
<1> QED
  BY <1>3, RunWalks, PTL

(* A hit is exactly the group that its rule reports (scan_chunk): no part   *)
(* of it is left out and nothing in front of or behind it is reported; it  *)
(* stands where the rule's keyword and the rest of the match say, and      *)
(* passed the rule's filters.                                              *)
THEOREM ReportsGroups == Spec => []HitsAreGroups
<1>1. ASSUME Walking, Curated, phase = "cases" PROVE HitsAreGroups
  <2>1. exit = 0 /\ phase # "start" /\ cases = CasesOf(current) /\ current \in DOMAIN world.files
    BY <1>1 DEF Walking
  <2>2. \A i \in DOMAIN cases : cases[i].input \in Seq(STRING)
    BY <1>1, <2>1, CasesType
  <2>3. ASSUME NEW i \in DOMAIN cases, NEW h \in scan_chunk(detectors, [bytes |-> cases[i].input, offset |-> 3])
        PROVE \E r \in detectors : r.id = h.rule_id /\ Captured(r, cases[i].input, h.offset - 3, h.offset - 3 + h.len)
    BY <1>1, <2>1, <2>2, HitIsGroup
  <2>4. ASSUME NEW i \in DOMAIN cases PROVE [bytes |-> cases[i].input, offset |-> 3].bytes = cases[i].input
    OBVIOUS
  <2> QED
    BY <2>3, <2>4, Zenon DEF HitsAreGroups
<1>2. ASSUME phase # "cases" PROVE HitsAreGroups
  BY <1>2 DEF HitsAreGroups
<1>3. Walking /\ Curated => HitsAreGroups
  BY <1>1, <1>2
<1> QED
  BY <1>3, RunWalks, PTL
-----------------------------------------------------------------------------
(* A file is in one of the groups, and moves from one to another.           *)
LEMMA Groups5 ==
  ASSUME NEW a, NEW b, NEW c, NEW d, NEW e
  PROVE (LET groups == <<a, b, c, d, e>> IN \A i, j \in DOMAIN groups : i # j => groups[i] \cap groups[j] = {})
        <=> /\ a \cap b = {} /\ a \cap c = {} /\ a \cap d = {} /\ a \cap e = {} /\ b \cap c = {}
            /\ b \cap d = {} /\ b \cap e = {} /\ c \cap d = {} /\ c \cap e = {} /\ d \cap e = {}
<1> DEFINE groups == <<a, b, c, d, e>>
<1>1. DOMAIN groups = {1, 2, 3, 4, 5}
  OBVIOUS
<1>2. groups[1] = a /\ groups[2] = b /\ groups[3] = c /\ groups[4] = d /\ groups[5] = e
  OBVIOUS
<1> HIDE DEF groups
<1>3. (\A i, j \in DOMAIN groups : i # j => groups[i] \cap groups[j] = {})
        <=> /\ a \cap b = {} /\ a \cap c = {} /\ a \cap d = {} /\ a \cap e = {} /\ b \cap c = {}
            /\ b \cap d = {} /\ b \cap e = {} /\ c \cap d = {} /\ c \cap e = {} /\ d \cap e = {}
  BY <1>1, <1>2
<1> QED
  BY <1>3 DEF groups

LEMMA FilesOnceStep == Walking /\ FilesOnce /\ [Next]_vars => FilesOnce'
<1> SUFFICES ASSUME Walking, FilesOnce, [Next]_vars PROVE FilesOnce'
  OBVIOUS
<1> DEFINE Apart(a, b, c, d, e) ==
             /\ a \cap b = {} /\ a \cap c = {} /\ a \cap d = {} /\ a \cap e = {} /\ b \cap c = {}
             /\ b \cap d = {} /\ b \cap e = {} /\ c \cap d = {} /\ c \cap e = {} /\ d \cap e = {}
<1>1. Apart(remaining, skipped.no_rules, skipped.no_cases, seen.evaluated, seen.unreadable)
  BY Groups5 DEF FilesOnce
<1>2. Apart(remaining, skipped.no_rules, skipped.no_cases, seen.evaluated, seen.unreadable)' => FilesOnce'
  BY Groups5 DEF FilesOnce
<1>3. CASE LoadRules
  BY <1>1, <1>2, <1>3 DEF LoadRules, counters
<1>4. CASE NoVendor \/ LoadFails \/ MapFails \/ Report
  BY <1>1, <1>2, <1>4 DEF NoVendor, LoadFails, MapFails, Report, Exit, counters
<1>5. CASE Discover
  BY <1>2, <1>5 DEF Discover, counters, Walking
<1>6. CASE NextFile
  <2>1. PICK f \in remaining : SkipNoRules(f) \/ SkipUnreadable(f) \/ ReadCases(f)
    BY <1>6 DEF NextFile
  <2>2. remaining' = remaining \ {f}
    BY <2>1 DEF SkipNoRules, SkipUnreadable, ReadCases, Take
  <2>3. f \notin skipped.no_rules /\ f \notin skipped.no_cases /\ f \notin seen.evaluated /\ f \notin seen.unreadable
    BY <1>1
  <2>4. CASE skipped' = skipped /\ seen' = [seen EXCEPT !.unreadable = @ \cup {f}]
    BY <1>1, <1>2, <2>2, <2>3, <2>4 DEF Walking
  <2>5. CASE skipped' = skipped /\ seen' = [seen EXCEPT !.evaluated = @ \cup {f}]
    BY <1>1, <1>2, <2>2, <2>3, <2>5 DEF Walking
  <2>6. CASE seen' = seen /\ skipped' = [skipped EXCEPT !.no_rules = @ \cup {f}]
    BY <1>1, <1>2, <2>2, <2>3, <2>6 DEF Walking
  <2>7. CASE seen' = seen /\ skipped' = [skipped EXCEPT !.no_cases = @ \cup {f}]
    BY <1>1, <1>2, <2>2, <2>3, <2>7 DEF Walking
  <2> QED
    BY <2>1, <2>4, <2>5, <2>6, <2>7 DEF SkipNoRules, SkipUnreadable, ReadCases, counters
<1>7. CASE Evaluate
  <2>1. remaining' = remaining /\ skipped' = skipped /\ seen'.evaluated = seen.evaluated /\ seen'.unreadable = seen.unreadable
    BY <1>7 DEF Evaluate, Walking
  <2> QED
    BY <1>1, <1>2, <2>1
<1>8. CASE CasesEnd
  BY <1>1, <1>2, <1>8 DEF CasesEnd, counters
<1>9. CASE UNCHANGED vars
  BY <1>1, <1>2, <1>9 DEF vars, counters
<1> QED
  BY <1>3, <1>4, <1>5, <1>6, <1>7, <1>8, <1>9 DEF Next
-----------------------------------------------------------------------------
(* Evaluate adds a verdict, of a case that had none; no other step touches  *)
(* the verdicts or what is counted.                                        *)
LEMMA EvaluateAdds ==
  ASSUME Walking, JudgedOnce, Evaluate
  PROVE \E v \in [file : DOMAIN world.files, case : Nat, passed : BOOLEAN] :
          /\ v.file = current /\ v.case = done + 1 /\ v.case \in DOMAIN CasesOf(current)
          /\ v.passed = Passed(CasesOf(current)[v.case], RuleIds(file(current).provider), FALSE)
          /\ seen' = [seen EXCEPT !.verdicts = @ \cup {v}]
          /\ Count(v.passed)
          /\ \A u \in seen.verdicts : ~(u.file = current /\ u.case = done + 1)
<1> DEFINE passed == Passed(cases[done + 1], rule_ids, provider \in TOLERATED)
           v == [file |-> current, case |-> done + 1, passed |-> passed]
<1>1. /\ phase = "cases" /\ done < Len(cases) /\ done \in Nat /\ current \in seen.evaluated
      /\ cases = CasesOf(current) /\ rule_ids = RuleIds(file(current).provider)
      /\ current \in DOMAIN world.files
  BY DEF Evaluate, Walking, provider
<1>2. done + 1 \in DOMAIN CasesOf(current)
  <2>1. PICK S : CasesOf(current) \in Seq(S)
    BY <1>1, CasesType
  <2> QED
    BY <1>1, <2>1
<1>3. passed = Passed(CasesOf(current)[done + 1], RuleIds(file(current).provider), FALSE)
  <2>1. (provider \in TOLERATED) = FALSE
    BY DEF TOLERATED
  <2> QED
    BY <1>1, <2>1
<1>4. passed \in BOOLEAN
  BY DEF Passed
<1>5. Count(passed) /\ seen' = [seen EXCEPT !.verdicts = @ \cup {v}]
  BY Zenon DEF Evaluate
<1>6. \A u \in seen.verdicts : ~(u.file = current /\ u.case = done + 1)
  <2>1. Judged(current) = 1 .. done
    BY <1>1 DEF JudgedOnce
  <2>2. done + 1 \notin Judged(current)
    BY <1>1, <2>1
  <2> QED
    BY <2>2 DEF Judged
<1> HIDE DEF passed
<1>7. /\ v \in [file : DOMAIN world.files, case : Nat, passed : BOOLEAN]
      /\ v.file = current /\ v.case = done + 1 /\ v.passed = passed
  BY <1>1, <1>4
<1> HIDE DEF v
<1> QED
  BY <1>2, <1>3, <1>5, <1>6, <1>7

LEMMA OthersCountNothing ==
  ASSUME Walking, [Next]_vars, ~Evaluate
  PROVE /\ seen'.verdicts = seen.verdicts /\ per_provider' = per_provider /\ world' = world
        /\ total_pass' = total_pass /\ total_fail' = total_fail
        /\ seen.evaluated \subseteq seen'.evaluated
        /\ seen.verdicts = {} \/ (structural' = structural /\ detectors' = detectors)
<1>1. CASE LoadRules
  BY <1>1 DEF LoadRules, counters, Walking
<1>2. CASE NoVendor \/ LoadFails \/ MapFails \/ Report
  BY <1>2 DEF NoVendor, LoadFails, MapFails, Report, Exit, counters
<1>3. CASE Discover
  BY <1>3 DEF Discover, counters
<1>4. CASE NextFile
  BY <1>4 DEF NextFile, SkipNoRules, SkipUnreadable, ReadCases, Take, counters, Walking
<1>5. CASE CasesEnd
  BY <1>5 DEF CasesEnd, counters
<1>6. CASE UNCHANGED vars
  BY <1>6 DEF vars, counters
<1> QED
  BY <1>1, <1>2, <1>3, <1>4, <1>5, <1>6 DEF Next

(* Every verdict is the one that the case deserves, and stays it.           *)
Right(v) == /\ v.file \in seen.evaluated /\ v.case \in DOMAIN CasesOf(v.file)
            /\ v.passed = Passed(CasesOf(v.file)[v.case], RuleIds(file(v.file).provider), FALSE)

LEMMA RightStays ==
  ASSUME world' = world, structural' = structural, detectors' = detectors,
         seen.evaluated \subseteq seen'.evaluated, NEW v, Right(v)
  PROVE Right(v)'
<1>1. v.file \in seen'.evaluated
  BY DEF Right
<1>2. (v.case \in DOMAIN CasesOf(v.file))'
  BY DEF Right, CasesOf, file
<1>3. Passed(CasesOf(v.file)[v.case], RuleIds(file(v.file).provider), FALSE)'
        = Passed(CasesOf(v.file)[v.case], RuleIds(file(v.file).provider), FALSE)
  BY Zenon DEF Passed, HitsOf, CasesOf, RuleIds, file
<1> QED
  BY <1>1, <1>2, <1>3 DEF Right

LEMMA JudgingStep ==
  ASSUME Walking, JudgedOnce, Judging, Tallied, [Next]_vars
  PROVE Judging'
<1>1. CASE Evaluate
  <2>1. PICK v \in [file : DOMAIN world.files, case : Nat, passed : BOOLEAN] :
          /\ v.file = current /\ v.case \in DOMAIN CasesOf(current)
          /\ v.passed = Passed(CasesOf(current)[v.case], RuleIds(file(current).provider), FALSE)
          /\ seen' = [seen EXCEPT !.verdicts = @ \cup {v}]
    BY <1>1, EvaluateAdds
  <2>2. seen'.verdicts = seen.verdicts \cup {v} /\ seen'.evaluated = seen.evaluated
    BY <2>1 DEF Walking
  <2>3. /\ phase = "cases" /\ phase' = "cases" /\ world' = world /\ structural' = structural
        /\ detectors' = detectors
    BY <1>1 DEF Evaluate
  <2>4. Right(v)
    BY <2>1, <2>3, Zenon DEF Walking, Right
  <2>5. \A u \in seen'.verdicts : Right(u)
    BY <2>2, <2>4 DEF Judging, Right
  <2>6. \A u : Right(u) => Right(u)'
    BY <2>2, <2>3, RightStays
  <2>7. IsFiniteSet(seen'.verdicts)
    BY <2>2, FS_AddElement DEF Judging
  <2>8. \A u \in seen'.verdicts : Right(u)'
    BY <2>5, <2>6
  <2> QED
    BY <2>3, <2>7, <2>8 DEF Judging, Right
<1>2. CASE ~Evaluate
  <2>1. /\ seen'.verdicts = seen.verdicts /\ world' = world /\ total_fail' = total_fail
        /\ seen.evaluated \subseteq seen'.evaluated
        /\ seen.verdicts = {} \/ (structural' = structural /\ detectors' = detectors)
    BY <1>2, OthersCountNothing
  <2>2. \A v \in seen'.verdicts : Right(v)'
    <3>1. CASE seen.verdicts = {}
      BY <2>1, <3>1
    <3>2. CASE structural' = structural /\ detectors' = detectors
      <4>1. \A u : Right(u) => Right(u)'
        BY <2>1, <3>2, RightStays
      <4>2. \A u \in seen'.verdicts : Right(u)
        BY <2>1 DEF Judging, Right
      <4> QED
        BY <4>1, <4>2
    <3> QED
      BY <2>1, <3>1, <3>2
  <2>3. phase' = "exited" /\ exit' = 0 => total_fail' <= world'.floor
    <3>1. CASE NoVendor \/ LoadFails \/ MapFails
      BY <3>1 DEF NoVendor, LoadFails, MapFails, Exit
    <3>2. CASE Report
      <4>1. exit' = 0 => ~(total_fail > world.floor)
        BY <3>2 DEF Report, Exit
      <4>2. total_fail \in Int /\ world.floor \in Int
        <5>1. IsFiniteSet(Verdicts(FALSE))
          BY FS_Subset DEF Judging, Verdicts
        <5>2. total_fail \in Nat
          BY <5>1, FS_CardinalityType DEF Tallied
        <5> QED
          BY <5>2, CompatAssumption DEF Walking, WellFormed
      <4> QED
        BY <2>1, <4>1, <4>2
    <3>3. CASE LoadRules \/ Discover \/ CasesEnd
      BY <3>3 DEF LoadRules, Discover, CasesEnd
    <3>4. CASE NextFile
      BY <3>4 DEF NextFile, SkipNoRules, SkipUnreadable, ReadCases, Take
    <3>5. CASE UNCHANGED vars
      BY <2>1, <3>5 DEF vars, Judging
    <3> QED
      BY <1>2, <3>1, <3>2, <3>3, <3>4, <3>5 DEF Next
  <2>4. IsFiniteSet(seen'.verdicts)
    BY <2>1 DEF Judging
  <2> QED
    BY <2>2, <2>3, <2>4 DEF Judging, Right
<1> QED
  BY <1>1, <1>2

(* No case is judged twice, and none is left out.                           *)
Through(f) == IF f = current THEN done ELSE Len(CasesOf(f))

LEMMA JudgedOnceStep ==
  ASSUME Walking, FilesOnce, JudgedOnce, Judging, [Next]_vars
  PROVE JudgedOnce'
<1>0. seen.evaluated \subseteq DOMAIN world.files /\ 0 \notin DOMAIN world.files
  BY CompatAssumption DEF Walking, WellFormed
<1>1. CASE Evaluate
  <2>1. PICK v \in [file : DOMAIN world.files, case : Nat, passed : BOOLEAN] :
          /\ v.file = current /\ v.case = done + 1
          /\ seen' = [seen EXCEPT !.verdicts = @ \cup {v}]
          /\ \A u \in seen.verdicts : ~(u.file = current /\ u.case = done + 1)
    BY <1>1, EvaluateAdds
  <2>2. seen'.verdicts = seen.verdicts \cup {v} /\ seen'.evaluated = seen.evaluated
    BY <2>1 DEF Walking
  <2>3. /\ current' = current /\ done' = done + 1 /\ world' = world /\ phase = "cases"
    BY <1>1 DEF Evaluate
  <2>4. done \in Nat
    BY <2>3 DEF Walking
  <2>5. ASSUME NEW f \in seen'.evaluated PROVE (Judged(f) = 1 .. Through(f))'
    <3>1. Judged(f) = 1 .. Through(f)
      BY <2>2, Zenon DEF JudgedOnce, Through
    <3>2. CASE f = current
      <4>1. Judged(f)' = Judged(f) \cup {done + 1}
        BY <2>1, <2>2, <3>2 DEF Judged
      <4>2. Judged(f) = 1 .. done
        BY <3>1, <3>2 DEF Through
      <4>3. Through(f)' = done + 1
        BY <2>3, <3>2 DEF Through
      <4>4. (1 .. done) \cup {done + 1} = 1 .. done + 1
        BY <2>4
      <4> QED
        BY <4>1, <4>2, <4>3, <4>4
    <3>3. CASE f # current
      <4>1. Judged(f)' = Judged(f)
        BY <2>1, <2>2, <3>3 DEF Judged
      <4>2. Through(f)' = Through(f)
        BY <2>3, <3>3 DEF Through, CasesOf, file
      <4> QED
        BY <3>1, <4>1, <4>2
    <3> QED
      BY <3>2, <3>3
  <2>6. \A t, u \in seen'.verdicts : t.file = u.file /\ t.case = u.case => t = u
    <3>1. \A t, u \in seen.verdicts : t.file = u.file /\ t.case = u.case => t = u
      BY DEF JudgedOnce
    <3> QED
      BY <2>1, <2>2, <3>1
  <2> QED
    BY <2>5, <2>6, Zenon DEF JudgedOnce, Through
<1>2. CASE ~Evaluate
  <2>1. seen'.verdicts = seen.verdicts /\ world' = world
    BY <1>2, OthersCountNothing
  <2>2. \A f : Judged(f)' = Judged(f)
    BY <2>1 DEF Judged
  <2>3. \A t, u \in seen'.verdicts : t.file = u.file /\ t.case = u.case => t = u
    BY <2>1, Zenon DEF JudgedOnce
  <2>4. ASSUME NEW f \in seen'.evaluated PROVE (Judged(f) = 1 .. Through(f))'
    <3>1. CASE seen' = seen /\ current' = current /\ done' = done
      <4>1. Through(f)' = Through(f)
        BY <2>1, <3>1 DEF Through, CasesOf, file
      <4>2. Judged(f) = 1 .. Through(f)
        BY <3>1, Zenon DEF JudgedOnce, Through
      <4> QED
        BY <2>2, <4>1, <4>2
    <3>2. CASE CasesEnd
      <4>1. seen' = seen /\ current' = 0 /\ phase = "cases" /\ done = Len(CasesOf(current))
        BY <3>2 DEF CasesEnd, counters, Walking
      <4>2. f # 0
        BY <1>0, <4>1
      <4>3. Through(f)' = Through(f)
        BY <2>1, <4>1, <4>2 DEF Through, CasesOf, file
      <4>4. Judged(f) = 1 .. Through(f)
        BY <4>1, Zenon DEF JudgedOnce, Through
      <4> QED
        BY <2>2, <4>3, <4>4
    <3>3. CASE NextFile
      <4>1. PICK g \in remaining : SkipNoRules(g) \/ SkipUnreadable(g) \/ ReadCases(g)
        BY <3>3 DEF NextFile
      <4>2. current = 0 /\ done = 0 /\ g \notin seen.evaluated
        <5>1. phase = "providers"
          BY <4>1 DEF SkipNoRules, SkipUnreadable, ReadCases, Take
        <5>2. remaining \cap seen.evaluated = {}
          BY Groups5 DEF FilesOnce
        <5> QED
          BY <4>1, <5>1, <5>2 DEF Walking
      <4>3. CASE seen'.evaluated = seen.evaluated /\ current' = current
        <5>1. f # 0
          BY <1>0, <4>3
        <5>2. Through(f)' = Through(f)
          BY <2>1, <4>2, <4>3, <5>1 DEF Through, CasesOf, file
        <5>3. Judged(f) = 1 .. Through(f)
          BY <4>3, Zenon DEF JudgedOnce, Through
        <5> QED
          BY <2>2, <5>2, <5>3
      <4>4. CASE seen'.evaluated = seen.evaluated \cup {g} /\ current' = g /\ done' = done
        <5>1. CASE f = g
          <6>1. Judged(f) = {}
            BY <4>2, <5>1 DEF Judged, Judging
          <6>2. Through(f)' = 0
            BY <4>2, <4>4, <5>1 DEF Through
          <6>3. {} = 1 .. 0
            OBVIOUS
          <6> QED
            BY <2>2, <6>1, <6>2, <6>3
        <5>2. CASE f # g
          <6>1. f \in seen.evaluated /\ f # 0
            BY <1>0, <4>4, <5>2
          <6>2. Through(f)' = Through(f)
            BY <2>1, <4>2, <4>4, <5>2, <6>1 DEF Through, CasesOf, file
          <6>3. Judged(f) = 1 .. Through(f)
            BY <6>1, Zenon DEF JudgedOnce, Through
          <6> QED
            BY <2>2, <6>2, <6>3
        <5> QED
          BY <5>1, <5>2
      <4>5. CASE SkipNoRules(g) \/ SkipUnreadable(g)
        BY <4>3, <4>5 DEF SkipNoRules, SkipUnreadable, Walking
      <4>6. CASE ReadCases(g)
        <5>1. CASE cases' = <<>>
          BY <4>3, <4>6, <5>1 DEF ReadCases
        <5>2. CASE cases' # <<>>
          <6>1. current' = g /\ seen' = [seen EXCEPT !.evaluated = @ \cup {g}] /\ done' = done
            BY <4>6, <5>2 DEF ReadCases
          <6>2. seen'.evaluated = seen.evaluated \cup {g}
            BY <6>1 DEF Walking
          <6> QED
            BY <4>4, <6>1, <6>2
        <5> QED
          BY <5>1, <5>2
      <4> QED
        BY <4>1, <4>5, <4>6
    <3>4. CASE NoVendor \/ LoadFails \/ MapFails \/ Report
      BY <3>1, <3>4 DEF NoVendor, LoadFails, MapFails, Report, Exit
    <3>5. CASE LoadRules \/ Discover
      BY <3>1, <3>5 DEF LoadRules, Discover
    <3>6. CASE UNCHANGED vars
      BY <3>1, <3>6 DEF vars
    <3> QED
      BY <1>2, <3>2, <3>3, <3>4, <3>5, <3>6 DEF Next
  <2> QED
    BY <2>3, <2>4, Zenon DEF JudgedOnce, Through
<1> QED
  BY <1>1, <1>2

(* The counts are those of the verdicts.                                    *)
LEMMA CountsGrow ==
  ASSUME NEW S, IsFiniteSet(S), NEW T, NEW v, v \notin S, NEW b \in BOOLEAN, T = IF b THEN S \cup {v} ELSE S
  PROVE Cardinality(T) = Cardinality(S) + (IF b THEN 1 ELSE 0) /\ Cardinality(S) \in Nat
<1>1. Cardinality(S) \in Nat
  BY FS_CardinalityType
<1>2. CASE b
  <2>1. T = S \cup {v}
    BY <1>2
  <2>2. Cardinality(T) = Cardinality(S) + 1
    BY <2>1, FS_AddElement
  <2> QED
    BY <1>1, <1>2, <2>2
<1>3. CASE ~b
  BY <1>1, <1>3
<1> QED
  BY <1>1, <1>2, <1>3

LEMMA TalliedStep ==
  ASSUME Walking, JudgedOnce, Judging, Tallied, [Next]_vars
  PROVE Tallied'
<1>1. CASE Evaluate
  <2>1. PICK v \in [file : DOMAIN world.files, case : Nat, passed : BOOLEAN] :
          /\ v.file = current /\ v.case = done + 1
          /\ seen' = [seen EXCEPT !.verdicts = @ \cup {v}]
          /\ Count(v.passed)
          /\ \A u \in seen.verdicts : ~(u.file = current /\ u.case = done + 1)
    BY <1>1, EvaluateAdds
  <2>2. seen'.verdicts = seen.verdicts \cup {v} /\ v \notin seen.verdicts /\ v.passed \in BOOLEAN
    BY <2>1 DEF Walking
  <2>3. world' = world
    BY <1>1 DEF Evaluate
  <2>4. PICK p : p = provider
    OBVIOUS
  <2>5. file(v.file).provider = p
    BY <2>1, <2>4 DEF provider
  <2> DEFINE Adds(b) == IF b THEN v.passed ELSE ~v.passed
  <2>6. ASSUME NEW b \in BOOLEAN
        PROVE /\ Cardinality(Verdicts(b))' = Cardinality(Verdicts(b)) + (IF Adds(b) THEN 1 ELSE 0)
              /\ Cardinality(VerdictsOf(p, b))' = Cardinality(VerdictsOf(p, b)) + (IF Adds(b) THEN 1 ELSE 0)
              /\ Cardinality(VerdictsOf(p, b)) \in Nat
    <3>1. Adds(b) \in BOOLEAN /\ (Adds(b) <=> v.passed = b)
      BY <2>2
    <3> HIDE DEF Adds
    <3>2. IsFiniteSet(Verdicts(b)) /\ IsFiniteSet(VerdictsOf(p, b)) /\ v \notin Verdicts(b) /\ v \notin VerdictsOf(p, b)
      BY <2>2, FS_Subset DEF Judging, Verdicts, VerdictsOf
    <3>3. Verdicts(b)' = IF Adds(b) THEN Verdicts(b) \cup {v} ELSE Verdicts(b)
      BY <2>2, <3>1 DEF Verdicts
    <3>4. VerdictsOf(p, b)' = IF Adds(b) THEN VerdictsOf(p, b) \cup {v} ELSE VerdictsOf(p, b)
      BY <2>2, <2>3, <2>5, <3>1 DEF VerdictsOf, Verdicts, file
    <3> QED
      BY <3>1, <3>2, <3>3, <3>4, CountsGrow
  <2>7. Sofar(p) = [pass |-> Cardinality(VerdictsOf(p, TRUE)), fail |-> Cardinality(VerdictsOf(p, FALSE))]
    <3>1. CASE p \in DOMAIN per_provider
      BY <3>1, Zenon DEF Tallied, Sofar
    <3>2. CASE p \notin DOMAIN per_provider
      <4>1. \A b \in BOOLEAN : VerdictsOf(p, b) = {}
        BY <3>2 DEF Tallied, VerdictsOf, Verdicts
      <4> QED
        BY <3>2, <4>1, FS_EmptySet DEF Sofar
    <3> QED
      BY <3>1, <3>2
  <2> DEFINE counted(q) == [pass |-> Cardinality(VerdictsOf(q, TRUE)), fail |-> Cardinality(VerdictsOf(q, FALSE))]
             entry == IF v.passed THEN [Sofar(p) EXCEPT !.pass = @ + 1] ELSE [Sofar(p) EXCEPT !.fail = @ + 1]
  <2>8. entry = counted(p)'
    <3>1. PICK t : t = Cardinality(VerdictsOf(p, TRUE))
      OBVIOUS
    <3>2. PICK n : n = Cardinality(VerdictsOf(p, FALSE))
      OBVIOUS
    <3>3. t \in Nat /\ n \in Nat
      BY <2>6, <3>1, <3>2
    <3>4. Sofar(p) = [pass |-> t, fail |-> n]
      BY <2>7, <3>1, <3>2
    <3>5. CASE v.passed
      <4>1. counted(p)' = [pass |-> t + 1, fail |-> n]
        <5>1. Cardinality(VerdictsOf(p, TRUE))' = t + 1
          BY <2>6, <3>1, <3>5
        <5>2. Cardinality(VerdictsOf(p, FALSE))' = n + 0
          BY <2>6, <3>2, <3>5
        <5>3. n + 0 = n
          BY <3>3
        <5> QED
          BY <5>1, <5>2, <5>3
      <4> QED
        BY <3>4, <3>5, <4>1
    <3>6. CASE ~v.passed
      <4>1. counted(p)' = [pass |-> t, fail |-> n + 1]
        <5>1. Cardinality(VerdictsOf(p, TRUE))' = t + 0
          BY <2>6, <3>1, <3>6
        <5>2. Cardinality(VerdictsOf(p, FALSE))' = n + 1
          BY <2>6, <3>2, <3>6
        <5>3. t + 0 = t
          BY <3>3
        <5> QED
          BY <5>1, <5>2, <5>3
      <4> QED
        BY <3>4, <3>6, <4>1
    <3> QED
      BY <3>5, <3>6
  <2>9. /\ per_provider' = With(p, entry)
        /\ total_pass' = total_pass + (IF v.passed THEN 1 ELSE 0)
        /\ total_fail' = total_fail + (IF v.passed THEN 0 ELSE 1)
    BY <2>1, <2>4, Zenon DEF Count
  <2>10. total_pass' = Cardinality(Verdicts(TRUE))' /\ total_fail' = Cardinality(Verdicts(FALSE))'
    <3>1. total_pass = Cardinality(Verdicts(TRUE)) /\ total_fail = Cardinality(Verdicts(FALSE))
      BY Zenon DEF Tallied
    <3> QED
      BY <2>2, <2>6, <2>9, <3>1
  <2>11. \A q : q # p => counted(q)' = counted(q)
    <3>1. ASSUME NEW q, q # p, NEW b \in BOOLEAN PROVE VerdictsOf(q, b)' = VerdictsOf(q, b)
      BY <2>2, <2>3, <2>5, <3>1 DEF VerdictsOf, Verdicts, file
    <3> QED
      BY <3>1
  <2>12. DOMAIN per_provider' = {file(w.file).provider : w \in seen.verdicts}'
    <3>1. DOMAIN per_provider = {file(w.file).provider : w \in seen.verdicts}
      BY Zenon DEF Tallied
    <3>2. DOMAIN per_provider' = DOMAIN per_provider \cup {p}
      BY <2>9 DEF With
    <3>3. \A w : file(w.file)' = file(w.file)
      BY <2>3 DEF file
    <3> QED
      BY <2>2, <2>5, <3>1, <3>2, <3>3
  <2>13. ASSUME NEW q \in DOMAIN per_provider' PROVE per_provider'[q] = counted(q)'
    <3>1. CASE q = p
      <4>1. per_provider'[q] = entry
        <5> HIDE DEF entry, counted
        <5> QED
          BY <2>9, <3>1 DEF With
      <4> QED
        BY <2>8, <3>1, <4>1
    <3>2. CASE q # p
      <4>1. q \in DOMAIN per_provider /\ per_provider'[q] = per_provider[q]
        <5> HIDE DEF entry, counted
        <5> QED
          BY <2>9, <3>2 DEF With
      <4>2. per_provider[q] = counted(q)
        BY <4>1, Zenon DEF Tallied
      <4> QED
        BY <2>11, <3>2, <4>1, <4>2
    <3> QED
      BY <3>1, <3>2
  <2> QED
    BY <2>10, <2>12, <2>13, Zenon DEF Tallied
<1>2. CASE ~Evaluate
  <2>1. /\ seen'.verdicts = seen.verdicts /\ per_provider' = per_provider /\ world' = world
        /\ total_pass' = total_pass /\ total_fail' = total_fail
    BY <1>2, OthersCountNothing
  <2>2. /\ \A b : Verdicts(b)' = Verdicts(b)
        /\ \A q, b : VerdictsOf(q, b)' = VerdictsOf(q, b)
        /\ {file(v.file).provider : v \in seen.verdicts}' = {file(v.file).provider : v \in seen.verdicts}
    BY <2>1, Zenon DEF VerdictsOf, Verdicts, file
  <2> QED
    BY <2>1, <2>2, Zenon DEF Tallied
<1> QED
  BY <1>1, <1>2

Books == Walking /\ Curated /\ FilesOnce /\ JudgedOnce /\ Judging /\ Tallied

LEMMA BooksKept == Spec => []Books
<1>1. Init => Books
  <2> SUFFICES ASSUME Init PROVE Books
    OBVIOUS
  <2>1. Walking /\ Curated
    BY InitWalks
  <2>2. FilesOnce
    BY Groups5 DEF Init, FilesOnce
  <2>3. JudgedOnce /\ Judging
    BY FS_EmptySet DEF Init, JudgedOnce, Judging
  <2>4. Tallied
    <3>1. seen.verdicts = {} /\ per_provider = <<>> /\ total_pass = 0 /\ total_fail = 0
      BY DEF Init
    <3>2. Verdicts(TRUE) = {} /\ Verdicts(FALSE) = {}
      BY <3>1 DEF Verdicts
    <3>3. DOMAIN per_provider = {} /\ {file(v.file).provider : v \in seen.verdicts} = {}
      BY <3>1
    <3> QED
      BY <3>1, <3>2, <3>3, FS_EmptySet DEF Tallied
  <2> QED
    BY <2>1, <2>2, <2>3, <2>4 DEF Books
<1>2. Books /\ [Next]_vars => Books'
  BY WalkingStep, CuratedStep, FilesOnceStep, JudgedOnceStep, JudgingStep, TalliedStep DEF Books
<1> QED
  BY <1>1, <1>2, PTL DEF Spec

(* Every case that was read is judged once and every verdict counts once    *)
(* (run_tests), and every file that was found is accounted for once.       *)
THEOREM EveryCaseCounted == Spec => []Counted
<1>1. Books => Counted
  BY DEF Books, Counted
<1> QED
  BY <1>1, BooksKept, PTL
(* An exit code of 0 with no failure allowed is honest: every case of every *)
(* file that was read and evaluated holds as it is written, if the reader  *)
(* can know the names in the file.                                         *)
THEOREM SuccessIsHonest == Spec => []ExitHonest
<1>1. ASSUME Books, phase = "exited", exit = 0, world.floor = 0 PROVE ExitHonest
  <2>1. Verdicts(FALSE) = {}
    <3>1. IsFiniteSet(Verdicts(FALSE))
      BY <1>1, FS_Subset DEF Books, Judging, Verdicts
    <3>2. Cardinality(Verdicts(FALSE)) <= 0
      BY <1>1, Zenon DEF Books, Judging, Tallied
    <3>3. Cardinality(Verdicts(FALSE)) = 0
      <4>1. PICK n : n = Cardinality(Verdicts(FALSE))
        OBVIOUS
      <4>2. n \in Nat
        BY <3>1, <4>1, FS_CardinalityType
      <4>3. n <= 0
        BY <3>2, <4>1, Zenon
      <4>4. n = 0
        BY <4>2, <4>3
      <4> QED
        BY <4>1, <4>4, Zenon
    <3> QED
      BY <3>1, <3>3, FS_EmptySet
  <2>2. ASSUME NEW f \in seen.evaluated, Readable(f), NEW c \in ToSet(WrittenCases(f))
        PROVE Passed(c, RuleIds(file(f).provider), FALSE)
    <3>1. WrittenCases(f) = CasesOf(f) /\ f \in DOMAIN world.files
      <4>1. Walking /\ f \in DOMAIN world.files
        BY <1>1, <2>2 DEF Books, Walking
      <4> QED
        BY <2>2, <4>1, WrittenIsRead
    <3>2. PICK i \in DOMAIN CasesOf(f) : c = CasesOf(f)[i]
      BY <2>2, <3>1 DEF ToSet
    <3>3. DOMAIN CasesOf(f) = 1 .. Len(CasesOf(f))
      <4>1. PICK S : CasesOf(f) \in Seq(S)
        BY <1>1, <3>1, CasesType DEF Books
      <4> QED
        BY <4>1
    <3>4. Judged(f) = 1 .. Len(CasesOf(f))
      <4>1. f # current
        BY <1>1, <3>1, CompatAssumption DEF Books, Walking, WellFormed
      <4> QED
        BY <1>1, <2>2, <4>1 DEF Books, JudgedOnce
    <3>5. PICK v \in seen.verdicts : v.file = f /\ v.case = i
      BY <3>2, <3>3, <3>4 DEF Judged
    <3>6. v.passed
      <4>1. v.passed \in BOOLEAN /\ v.passed # FALSE
        BY <1>1, <2>1, <3>5 DEF Books, Walking, Verdicts
      <4> QED
        BY <4>1
    <3>7. Passed(CasesOf(f)[i], RuleIds(file(f).provider), FALSE)
      BY <1>1, <3>5, <3>6, Zenon DEF Books, Judging
    <3> QED
      BY <3>2, <3>7
  <2>3. ASSUME NEW f \in seen.evaluated, Readable(f), NEW c \in ToSet(WrittenCases(f))
        PROVE LET hits == HitsOf(RuleIds(file(f).provider), c.input)
              IN  /\ c.want = <<>> => hits = {}
                  /\ \A w \in ToSet(c.want) : \E h \in hits : FoundBy(w, c.input, h)
    <3>1. CASE c.want = <<>>
      <4>1. ToSet(c.want) = {}
        BY <3>1 DEF ToSet
      <4>2. HitsOf(RuleIds(file(f).provider), c.input) = {}
        BY <2>2, <2>3, <3>1, Zenon DEF Passed
      <4> QED
        BY <4>1, <4>2
    <3>2. CASE c.want # <<>>
      BY <2>2, <2>3, <3>2, Zenon DEF Passed
    <3> QED
      BY <3>1, <3>2
  <2> QED
    BY <2>3, Zenon DEF ExitHonest
<1>2. ASSUME ~(phase = "exited" /\ exit = 0 /\ world.floor = 0) PROVE ExitHonest
  BY <1>2, Zenon DEF ExitHonest
<1>3. Books => ExitHonest
  BY <1>1, <1>2
<1> QED
  BY <1>3, BooksKept, PTL
=============================================================================
