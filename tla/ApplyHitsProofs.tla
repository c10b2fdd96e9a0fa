-------------------------- MODULE ApplyHitsProofs --------------------------
(***************************************************************************)
(* What the byte editor does, for every buffer, every list of hits and     *)
(* every width of a usize.                                                 *)
(***************************************************************************)
EXTENDS ApplyHits, TLAPS

(* The cast yields a usize, and a sum that does not overflow is no smaller  *)
(* than its first operand.                                                 *)
LEMMA UsizeFacts ==
    ASSUME NEW h \in Hit
    PROVE  /\ start(h) \in 0 .. UsizeMax
           /\ end(h) \in Int
           /\ end(h) # -1 => end(h) = start(h) + h.len
<1>1. start(h) \in 0 .. UsizeMax
  BY ApplyAssumption, SMT DEF Hit, start
<1> QED
  BY <1>1, ApplyAssumption, SMT DEF Hit, end, checked_add

(* What a supported replacement writes are bytes. *)
LEMMA FillsBytes ==
    ASSUME NEW h \in Hit, Supported(h), NEW k \in Nat \ {0}, Covers(h, k)
    PROVE  Fill(h, k) \in Byte
<1>1. CASE h.kind = "zero"
  BY <1>1, ApplyAssumption DEF Fill
<1>2. CASE h.kind = "pattern" /\ h.pattern # << >>
  <2> DEFINE n == Len(h.pattern)
             d == k - 1 - start(h)
  <2>1. h.pattern \in Seq(Byte) /\ n \in Nat \ {0}
    BY <1>2, SMT DEF Hit
  <2>2. start(h) \in Nat /\ d \in Int
    BY UsizeFacts, SMT
  <2> HIDE DEF n, d
  <2>3. (d % n) + 1 \in 1 .. n
    BY <2>1, <2>2, SMT
  <2>4. Fill(h, k) = h.pattern[(d % n) + 1]
    BY <1>2 DEF Fill, n, d
  <2> QED
    BY <2>1, <2>3, <2>4, SMT DEF n
<1> QED
  BY <1>1, <1>2 DEF Supported

(* Overwriting keeps the length of the buffer. *)
LEMMA KeepsLength ==
    ASSUME NEW b \in Seq(Byte), NEW h \in Hit, Supported(h)
    PROVE  Overwrite(b, h) \in Seq(Byte) /\ Len(Overwrite(b, h)) = Len(b)
<1>1. \A k \in 1 .. Len(b) : (IF Covers(h, k) THEN Fill(h, k) ELSE b[k]) \in Byte
  BY FillsBytes, SMT
<1> DEFINE o == Overwrite(b, h)
<1>2. o \in [1 .. Len(b) -> Byte]
  BY <1>1 DEF Overwrite
<1> HIDE DEF o
<1>3. o \in Seq(Byte) /\ Len(o) = Len(b)
  BY <1>2, SMT
<1> QED
  BY <1>3 DEF o
-----------------------------------------------------------------------------
LEMMA TypeInit == Init => TypeOK
  BY ApplyAssumption, SMT DEF Init, TypeOK

LEMMA TypeStep == TypeOK /\ [Next]_vars => TypeOK'
<1> SUFFICES ASSUME TypeOK, [Next]_vars PROVE TypeOK'
  OBVIOUS
<1>1. CASE ApplyOne
  <2>1. Current \in Hit /\ Supported(Current)
    BY <1>1, SMT DEF ApplyOne, Pending, Current, TypeOK, Admissible
  <2>2. buf' \in Seq(Byte)
    BY <1>1, <2>1, KeepsLength DEF ApplyOne, TypeOK
  <2> QED
    BY <1>1, <2>2, SMT DEF ApplyOne, Pending, TypeOK
<1>2. CASE Refuse
  BY <1>2, SMT DEF Refuse, TypeOK
<1>3. CASE Finish
  BY <1>3, SMT DEF Finish, TypeOK
<1>4. CASE UNCHANGED vars
  BY <1>4 DEF vars, TypeOK
<1> QED
  BY <1>1, <1>2, <1>3, <1>4 DEF Next

(* Type correctness: the buffer stays a buffer of bytes and the loop's      *)
(* index never leaves the list.                                            *)
THEOREM EditorTypeCorrect == Spec => []TypeOK
  BY TypeInit, TypeStep, PTL DEF Spec

-----------------------------------------------------------------------------
LEMMA ExactInit == Init => EditedExactly
  BY SMT DEF Init, EditedExactly

LEMMA ExactStep == TypeOK /\ EditedExactly /\ [Next]_vars => EditedExactly'
<1> SUFFICES ASSUME TypeOK, EditedExactly, [Next]_vars PROVE EditedExactly'
  OBVIOUS
<1>1. CASE ApplyOne
  <2> DEFINE h == hits[next]
  <2>1. h \in Hit /\ Supported(h) /\ buf' = Overwrite(buf, h) /\ next \in 1 .. Len(hits)
    BY <1>1, SMT DEF ApplyOne, Pending, Current, TypeOK, Admissible
  <2>2. Len(buf') = Len(orig)
    BY <2>1, KeepsLength DEF TypeOK, EditedExactly
  <2>3. next' = next + 1 /\ orig' = orig /\ hits' = hits
    BY <1>1 DEF ApplyOne
  <2>7. next' - 1 = next
    BY <2>1, <2>3, SMT DEF TypeOK
  <2>4. ASSUME NEW k \in 1 .. Len(orig)
        PROVE  buf'[k] = IF Covers(h, k) THEN Fill(h, k) ELSE buf[k]
    BY <2>1, <2>4 DEF Overwrite, EditedExactly
  <2>5. ASSUME NEW k \in 1 .. Len(orig), Uncovered(k)'
        PROVE  buf'[k] = orig[k]
    <3>1. ~Covers(h, k) /\ Uncovered(k)
      BY <2>1, <2>3, <2>5, SMT DEF Uncovered, TypeOK
    <3> QED
      BY <3>1, <2>4 DEF EditedExactly
  <2>6. ASSUME NEW k \in 1 .. Len(orig), NEW i \in 1 .. next, LastCover(i, k)'
        PROVE  buf'[k] = Fill(hits[i], k)
    <3>1. CASE i = next
      <4>1. Covers(h, k)
        BY <2>3, <2>6, <3>1 DEF LastCover
      <4> QED
        BY <4>1, <3>1, <2>4
    <3>2. CASE i < next
      <4>1. /\ Covers(hits[i], k)
            /\ \A j \in i + 1 .. next : ~Covers(hits[j], k)
        BY <2>3, <2>6, <2>7 DEF LastCover
      <4>2. i \in 1 .. next - 1 /\ next \in i + 1 .. next /\ i + 1 .. next - 1 \subseteq i + 1 .. next
        BY <2>1, <3>2, SMT DEF TypeOK
      <4>3. ~Covers(h, k) /\ LastCover(i, k)
        BY <4>1, <4>2 DEF LastCover
      <4> QED
        BY <4>2, <4>3, <2>4 DEF EditedExactly
    <3> QED
      BY <2>1, <3>1, <3>2, SMT
  <2> QED
    BY <2>2, <2>3, <2>5, <2>6, <2>7 DEF EditedExactly
<1>2. CASE UNCHANGED <<orig, hits, buf, next>>
  BY <1>2 DEF EditedExactly, Uncovered, LastCover
<1> QED
  BY <1>1, <1>2 DEF Next, Refuse, Finish, vars

(* At every moment, after an error too, the buffer is the original under    *)
(* the hits before `next`; no other byte is touched.                       *)
THEOREM Exact == Spec => []EditedExactly
  BY TypeInit, TypeStep, ExactInit, ExactStep, PTL DEF Spec
-----------------------------------------------------------------------------
(* The guard of the loop, which checks the sum for an overflow, says of a   *)
(* hit what Applicable says, since no buffer is longer than a usize counts. *)
LEMMA GuardExact ==
    ASSUME TypeOK, EditedExactly, NEW i \in DOMAIN hits
    PROVE  Admissible(hits[i], buf) <=> Applicable(hits[i])
<1>0. hits[i] \in Hit
  BY SMT DEF TypeOK
<1>1. /\ hits[i].len \in Nat /\ UsizeMax \in Nat
      /\ Len(buf) = Len(orig) /\ Len(orig) \in Nat /\ Len(orig) <= UsizeMax
  BY <1>0, ApplyAssumption, SMT DEF TypeOK, Hit, EditedExactly
<1>2. start(hits[i]) \in 0 .. UsizeMax
  BY <1>0, UsizeFacts
<1>3. InBounds(hits[i], buf) <=> start(hits[i]) + hits[i].len <= Len(orig)
  BY <1>1, <1>2, SMT DEF InBounds, end, checked_add
<1> QED
  BY <1>3 DEF Admissible, Applicable

LEMMA VerdictInit == Init => Verdict
  BY SMT DEF Init, Verdict, Progressed

LEMMA VerdictStep == TypeOK /\ EditedExactly /\ Verdict /\ [Next]_vars => Verdict'
<1> SUFFICES ASSUME TypeOK, EditedExactly, Verdict, [Next]_vars PROVE Verdict'
  OBVIOUS
<1>1. CASE ApplyOne
  <2>1. next \in DOMAIN hits /\ next' = next + 1 /\ next \in Nat
    BY <1>1, SMT DEF ApplyOne, Pending, TypeOK
  <2>2. Applicable(hits[next])
    BY <1>1, <2>1, GuardExact DEF ApplyOne, Current
  <2>3. ASSUME NEW i \in 1 .. next PROVE Applicable(hits[i])
    <3>1. CASE i = next
      BY <3>1, <2>2
    <3>2. CASE i # next
      BY <3>2, <2>1, SMT DEF Verdict, Progressed
    <3> QED
      BY <3>1, <3>2
  <2>4. next' - 1 = next
    BY <2>1, SMT
  <2>5. Progressed'
    BY <1>1, <2>3, <2>4 DEF ApplyOne, Progressed, Applicable
  <2> QED
    BY <1>1, <2>5 DEF ApplyOne, Pending, Verdict
<1>2. CASE Refuse
  <2>1. next \in DOMAIN hits /\ next <= Len(hits)
    BY <1>2, SMT DEF Refuse, Pending, TypeOK
  <2>2. ~Applicable(hits[next])
    BY <1>2, <2>1, GuardExact DEF Refuse, Current
  <2> QED
    BY <1>2, <2>1, <2>2 DEF Refuse, Verdict, Progressed, Applicable
<1>3. CASE Finish
  <2>1. next = Len(hits) + 1
    BY <1>3, SMT DEF Finish, TypeOK
  <2> QED
    BY <1>3, <2>1 DEF Finish, Verdict, Progressed, Applicable
<1>4. CASE UNCHANGED vars
  BY <1>4 DEF vars, Verdict, Progressed, Applicable
<1> QED
  BY <1>1, <1>2, <1>3, <1>4 DEF Next

(* "ok" means that every hit was applied; an error names the first hit that *)
(* cannot be applied to the original buffer, by the integers' own sum.     *)
THEOREM VerdictRight == Spec => []Verdict
  BY TypeInit, TypeStep, ExactInit, ExactStep, VerdictInit, VerdictStep, PTL DEF Spec
-----------------------------------------------------------------------------
(* The inductive form of OrderIndependent: after any number of turns a byte *)
(* is zero exactly where one of the hits so far covers it.                 *)
ZeroedSoFar ==
    ZeroFillOnly => \A k \in 1 .. Len(orig) : buf[k] = IF Uncovered(k) THEN orig[k] ELSE Zero

LEMMA ZeroedInit == Init => ZeroedSoFar
  BY SMT DEF Init, ZeroedSoFar, Uncovered

LEMMA ZeroedStep == TypeOK /\ EditedExactly /\ ZeroedSoFar /\ [Next]_vars => ZeroedSoFar'
<1> SUFFICES ASSUME TypeOK, EditedExactly, ZeroedSoFar, [Next]_vars, ZeroFillOnly'
             PROVE  \A k \in 1 .. Len(orig)' : buf'[k] = IF Uncovered(k)' THEN orig'[k] ELSE Zero
  BY DEF ZeroedSoFar
<1>1. CASE ApplyOne
  <2> DEFINE h == hits[next]
  <2>1. next \in DOMAIN hits /\ next' - 1 = next /\ next \in Nat \ {0}
    BY <1>1, SMT DEF ApplyOne, Pending, TypeOK
  <2>2. orig' = orig /\ hits' = hits /\ buf' = Overwrite(buf, h)
    BY <1>1 DEF ApplyOne, Current
  <2>3. ZeroFillOnly /\ h.kind = "zero"
    BY <2>1, <2>2 DEF ZeroFillOnly
  <2>4. SUFFICES ASSUME NEW k \in 1 .. Len(orig)
                 PROVE  buf'[k] = IF Uncovered(k)' THEN orig[k] ELSE Zero
    BY <2>2
  <2>5. buf'[k] = IF Covers(h, k) THEN Zero ELSE buf[k]
    BY <2>2, <2>3, <2>4 DEF Overwrite, Fill, EditedExactly
  <2>6. Uncovered(k)' <=> \A i \in 1 .. next : ~Covers(hits[i], k)
    BY <2>1, <2>2 DEF Uncovered, Covers, start, end, checked_add
  <2>7. Uncovered(k)' <=> Uncovered(k) /\ ~Covers(h, k)
    <3>1. \A i : i \in 1 .. next <=> i \in 1 .. next - 1 \/ i = next
      BY <2>1, SMT
    <3> QED
      BY <2>6, <3>1 DEF Uncovered
  <2> QED
    BY <2>3, <2>4, <2>5, <2>7 DEF ZeroedSoFar
<1>2. CASE UNCHANGED <<orig, hits, buf, next>>
  BY <1>2 DEF ZeroedSoFar, ZeroFillOnly, Uncovered, Covers
<1> QED
  BY <1>1, <1>2 DEF Next, Refuse, Finish, vars

(* Zero-fill hits may come in any order and any number of times: the result *)
(* is the original with zero at every covered byte.                        *)
THEOREM ZeroFillOrderIndependent == Spec => []OrderIndependent
<1>1. TypeOK /\ EditedExactly /\ Verdict /\ ZeroedSoFar => OrderIndependent
  <2> SUFFICES ASSUME TypeOK, EditedExactly, Verdict, ZeroedSoFar, status = "ok", ZeroFillOnly
               PROVE  buf = Zeroed
    BY DEF OrderIndependent
  <2>1. 1 .. next - 1 = DOMAIN hits
    BY SMT DEF TypeOK, Verdict
  <2>2. \A k \in 1 .. Len(orig) : buf[k] = Zeroed[k]
    BY <2>1 DEF ZeroedSoFar, Zeroed, Uncovered
  <2>3. buf = [k \in 1 .. Len(orig) |-> buf[k]]
    BY SMT DEF TypeOK, EditedExactly
  <2>4. Zeroed = [k \in 1 .. Len(orig) |-> Zeroed[k]]
    BY DEF Zeroed
  <2> QED
    BY <2>2, <2>3, <2>4
<1> QED
  BY <1>1, TypeInit, TypeStep, ExactInit, ExactStep, VerdictInit, VerdictStep,
     ZeroedInit, ZeroedStep, PTL DEF Spec
=============================================================================
