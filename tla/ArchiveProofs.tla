---------------------------- MODULE ArchiveProofs ----------------------------
(***************************************************************************)
(* For every archive whose members' chunks are no longer than their files, *)
(* with any number of members of any formats: hits are delivered to the    *)
(* members they were found in, and the scrub implements Memberwise.        *)
(***************************************************************************)
EXTENDS Archive, SequenceTheorems, TLAPS

(* The invariant behind both: what each variable holds at each stage of the *)
(* scrub, in terms of the archive that was read.                           *)
FoundIn(i) == IF entries[i].type = "dir" THEN {} ELSE Found(entries[i].body)
LocalHit(i, j) == [offset |-> At(entries[i].body, j), len |-> Unit(entries[i].body.form),
                   in |-> i, block |-> j]
Bucket(i) == {LocalHit(i, j) : j \in FoundIn(i)}

EarlyStages == {"extract", "layout", "scan", "distribute"}
LateStages  == {"repack", "done"}

Counts ==
    /\ entries \in Archives
    /\ pc = "extract" => Len(members) = next - 1 /\ base = 0
    /\ pc \in {"scan", "distribute"} => next = 1
    /\ pc \in {"layout", "scan", "distribute", "apply", "repack", "done", "clean"}
         => Len(members) = Len(entries)

MembersMatch ==
    \A i \in DOMAIN members :
        /\ members[i].is_dir = (entries[i].type = "dir")
        /\ members[i].body.form = entries[i].body.form
        /\ pc \in EarlyStages \cup {"clean"} => members[i].body = entries[i].body
        /\ pc = "apply" => members[i].body = IF i < next THEN Redact(entries[i].body, Bucket(i))
                                                        ELSE entries[i].body
        /\ pc \in LateStages => members[i].body = Redact(entries[i].body, Bucket(i))
        /\ i <= Laid => members[i].span = IF entries[i].type = "dir" THEN 0
                                                                  ELSE Size(entries[i].body)

HitsMatch ==
    /\ pc \in {"distribute", "clean"} => hits = UNION {HitsOf(i) : i \in DOMAIN members}
    /\ pc = "clean" => hits = {}

BucketsMatch ==
    \A i \in DOMAIN buckets :
        /\ buckets[i] \in {{}, Bucket(i)}
        /\ pc \in {"apply", "repack", "done"} => buckets[i] = Bucket(i)

OutputMatch ==
    pc = "done" => output = [i \in DOMAIN entries |-> Cleaned(entries[i])]

Inv == TypeOK /\ Counts /\ LayoutSound /\ MembersMatch /\ HitsMatch /\ BucketsMatch /\ OutputMatch
-----------------------------------------------------------------------------
(* Arithmetic of offsets. *)
LEMMA TimesMonotone ==
    ASSUME NEW a \in Int, NEW b \in Int, NEW u \in Nat, a <= b
    PROVE  a * u <= b * u
<1>1. (b - a) * u >= 0
  BY SMT
<1>2. (b - a) * u = b * u - a * u
  BY SMT
<1>3. a * u \in Int /\ b * u \in Int
  BY SMT
<1> QED
  BY <1>1, <1>2, <1>3, SMT

LEMMA OffsetFacts ==
    ASSUME NEW b \in Body, NEW i \in Chunked(b)
    PROVE  /\ i \in Nat /\ i \in DOMAIN b.blocks
           /\ Unit(b.form) \in Nat \ {0}
           /\ At(b, i) \in Nat
           /\ Upto(b, i) = At(b, i) + Unit(b.form)
<1> DEFINE u == Unit(b.form)
           h == Header(b.form)
<1>1. u \in Nat \ {0} /\ h \in Nat
  BY ArchiveAssumption DEF Body
<1>2. i \in Nat /\ i > h /\ i \in DOMAIN b.blocks
  BY SMT DEF Chunked, Body
<1> HIDE DEF u, h
<1>3. i - 1 - h \in Nat
  BY <1>1, <1>2, SMT
<1>4. (i - 1 - h) * u \in Nat
  BY <1>1, <1>3, TimesMonotone, SMT
<1> QED
  BY <1>1, <1>2, <1>4 DEF At, Upto, u, h

(* Two blocks of one member that overlap in its chunks are the same. *)
LEMMA BlocksApart ==
    ASSUME NEW b \in Body, NEW i \in Chunked(b), NEW j \in Chunked(b),
           At(b, i) < Upto(b, j), At(b, j) < Upto(b, i)
    PROVE  i = j
<1> DEFINE u == Unit(b.form)
           h == Header(b.form)
<1>1. u \in Nat \ {0} /\ h \in Nat
  BY ArchiveAssumption DEF Body
<1>2. i \in Int /\ j \in Int
  BY OffsetFacts
<1>3. At(b, i) = (i - 1 - h) * u /\ At(b, j) = (j - 1 - h) * u
  BY DEF At
<1>4. Upto(b, i) = (i - 1 - h) * u + u /\ Upto(b, j) = (j - 1 - h) * u + u
  BY DEF At, Upto
<1> HIDE DEF u, h
<1>5. ASSUME NEW k \in Int, NEW l \in Int, k < l
      PROVE  (k - 1 - h) * u + u <= (l - 1 - h) * u
  <2>1. (k - h) * u <= (l - 1 - h) * u
    BY <1>1, <1>5, TimesMonotone, SMT
  <2>2. (k - h) * u = (k - 1 - h) * u + u
    BY <1>1, <1>5, SMT
  <2> QED
    BY <2>1, <2>2
<1>6. At(b, i) \in Int /\ At(b, j) \in Int /\ Upto(b, i) \in Int /\ Upto(b, j) \in Int
  BY <1>1, <1>2, <1>3, <1>4, SMT
<1>7. ~(i < j)
  BY <1>2, <1>3, <1>4, <1>5, <1>6, SMT
<1>8. ~(j < i)
  BY <1>2, <1>3, <1>4, <1>5, <1>6, SMT
<1> QED
  BY <1>2, <1>7, <1>8, SMT

(* Redaction keeps the body's form and length. *)
LEMMA RedactShape ==
    ASSUME NEW b \in Body, NEW hs
    PROVE  /\ Redact(b, hs) \in Body
           /\ Redact(b, hs).form = b.form
           /\ DOMAIN Redact(b, hs).blocks = DOMAIN b.blocks
<1> DEFINE f == [j \in DOMAIN b.blocks |-> IF \E h \in hs : j \in Touched(b, h) THEN "zero" ELSE b.blocks[j]]
           n == Len(b.blocks)
<1>1. b.blocks \in Seq(Block) /\ n \in Nat /\ DOMAIN b.blocks = 1 .. n
  BY SMT DEF Body
<1>2. f \in [1 .. n -> Block]
  BY <1>1 DEF Block
<1>3. Redact(b, hs) = [b EXCEPT !.blocks = f]
  BY DEF Redact
<1> HIDE DEF f, n
<1>4. f \in Seq(Block) /\ DOMAIN f = 1 .. n
  BY <1>1, <1>2, SMT
<1> QED
  BY <1>1, <1>3, <1>4 DEF Body

(* A member that redacts exactly the hits found in it is cleaned. *)
LEMMA RedactOwnHits ==
    ASSUME NEW i, entries[i] \in Entry,
           entries[i].type = "dir" => entries[i].body.blocks = << >>
    PROVE  Redact(entries[i].body, Bucket(i)) = Cleaned(entries[i]).body
<1> DEFINE b == entries[i].body
<1>1. b \in Body
  BY DEF Entry
<1>2. ASSUME NEW k \in DOMAIN b.blocks
      PROVE  (\E h \in Bucket(i) : k \in Touched(b, h)) <=> entries[i].type # "dir" /\ k \in Found(b)
  <2>1. ASSUME NEW j \in FoundIn(i), k \in Touched(b, LocalHit(i, j)) PROVE k = j
    <3>1. j \in Chunked(b) /\ k \in Chunked(b)
      BY <2>1 DEF FoundIn, Found, Touched
    <3>2. At(b, k) < At(b, j) + Unit(b.form) /\ At(b, j) < Upto(b, k)
      BY <2>1 DEF Touched, LocalHit
    <3> QED
      BY <1>1, <3>1, <3>2, BlocksApart, OffsetFacts
  <2>2. ASSUME k \in FoundIn(i) PROVE k \in Touched(b, LocalHit(i, k))
    <3>1. k \in Chunked(b)
      BY <2>2 DEF FoundIn, Found
    <3>2. At(b, k) \in Nat /\ Unit(b.form) \in Nat \ {0} /\ Upto(b, k) = At(b, k) + Unit(b.form)
      BY <1>1, <3>1, OffsetFacts
    <3>3. LocalHit(i, k).offset = At(b, k) /\ LocalHit(i, k).len = Unit(b.form)
      BY DEF LocalHit
    <3> HIDE DEF b
    <3>4. At(b, k) < At(b, k) + Unit(b.form)
      BY <3>2, SMT
    <3> QED
      BY <3>1, <3>2, <3>3, <3>4 DEF Touched
  <2>3. k \in FoundIn(i) <=> entries[i].type # "dir" /\ k \in Found(b)
    BY DEF FoundIn
  <2> QED
    BY <2>1, <2>2, <2>3 DEF Bucket
<1> QED
  BY <1>2 DEF Redact, Cleaned
-----------------------------------------------------------------------------
(* The entries of the archive are what the archive libraries return. *)
LEMMA EntryFacts ==
    ASSUME Counts
    PROVE  /\ entries \in Seq(Entry)
           /\ \A i \in DOMAIN entries :
                 /\ entries[i] \in Entry /\ entries[i].body \in Body
                 /\ entries[i].type = "dir" => entries[i].body = Empty
<1>1. entries \in Seq(Entry)
  BY ArchiveAssumption DEF Counts
<1>2. ASSUME NEW i \in DOMAIN entries PROVE entries[i] \in Entry
  BY <1>1, <1>2, SMT
<1>3. ASSUME NEW i \in DOMAIN entries PROVE entries[i].body \in Body
  BY <1>2, <1>3 DEF Entry
<1>4. ASSUME NEW i \in DOMAIN entries, entries[i].type = "dir" PROVE entries[i].body = Empty
  <2>1. entries[i].type # "file"
    BY <1>4
  <2> QED
    BY <2>1, <1>4, ArchiveAssumption DEF Counts
<1> QED
  BY <1>1, <1>2, <1>3, <1>4

LEMMA SizeIsNat == ASSUME NEW b \in Body PROVE Size(b) \in Nat
<1>1. Len(b.blocks) \in Nat
  BY SMT DEF Body
<1>2. Stored(b.form) \in Nat
  BY ArchiveAssumption DEF Body
<1> DEFINE n == Len(b.blocks)
           m == Stored(b.form)
<1> HIDE DEF n, m
<1>3. n * m >= 0 /\ n * m \in Int
  BY <1>1, <1>2, TimesMonotone, SMT DEF n, m
<1> QED
  BY <1>3, SMT DEF Size, n, m

LEMMA MemberFacts ==
    ASSUME TypeOK
    PROVE  /\ Len(members) \in Nat /\ DOMAIN members = 1 .. Len(members)
           /\ \A i \in DOMAIN members : /\ members[i] \in Member
                                      /\ members[i].body \in Body
                                      /\ members[i].base \in Nat
                                      /\ members[i].span \in Nat
<1>1. Len(members) \in Nat /\ DOMAIN members = 1 .. Len(members)
  BY LenProperties DEF TypeOK
<1>2. ASSUME NEW i \in DOMAIN members PROVE members[i] \in Member
  BY <1>1, <1>2, ElementOfSeq DEF TypeOK
<1> QED
  BY <1>1, <1>2 DEF Member

LEMMA InvInit == Init => Inv
<1> SUFFICES ASSUME Init PROVE Inv
  OBVIOUS
<1>1. entries \in Seq(Entry) /\ entries \in Archives
  BY ArchiveAssumption DEF Init
<1>2. Len(entries) \in Nat
  BY <1>1, SMT
<1>3. TypeOK
  BY <1>1, <1>2, SMT DEF Init, TypeOK, Running
<1>4. Counts
  BY <1>1, SMT DEF Init, Counts
<1>5. LayoutSound /\ MembersMatch /\ BucketsMatch
  BY SMT DEF Init, LayoutSound, MembersMatch, BucketsMatch
<1>6. HitsMatch /\ OutputMatch
  BY DEF Init, HitsMatch, OutputMatch
<1> QED
  BY <1>3, <1>4, <1>5, <1>6 DEF Inv

LEMMA EmptyIsBody == Empty \in Body
  BY ArchiveAssumption, SMT DEF Empty, Body

LEMMA ExtractInv == Inv /\ Extract => Inv'
<1> SUFFICES ASSUME Inv, Extract PROVE Inv'
  OBVIOUS
<1> DEFINE e == entries[next]
           m == [body |-> e.body, base |-> 0, span |-> 0, is_dir |-> e.type = "dir"]
<1>1. /\ pc = "extract" /\ pc' = "extract"
      /\ next \in Nat \ {0} /\ next <= Len(entries) /\ next' = next + 1
      /\ Len(members) = next - 1 /\ base = 0 /\ next \in DOMAIN entries
  BY SMT DEF Inv, TypeOK, Counts, Extract, Goto
<1>2. UNCHANGED <<entries, base, hits, output>>
  BY DEF Extract
<1>3. members' = Append(members, m) /\ buckets' = Append(buckets, {})
  BY DEF Extract
<1>4. m \in Member
  BY <1>1, EntryFacts DEF Inv, Member
<1> HIDE DEF m, e
<1>5. members' \in Seq(Member) /\ Len(members') = next /\ DOMAIN members' = 1 .. next
  BY <1>1, <1>3, <1>4, SMT DEF Inv, TypeOK
<1>6. buckets \in [1 .. next - 1 -> SUBSET Hit]
  BY <1>1 DEF Inv, TypeOK
<1>7. buckets' \in [1 .. next -> SUBSET Hit] /\ buckets'[next] = {}
      /\ \A i \in 1 .. next - 1 : buckets'[i] = buckets[i]
  <2>1. buckets \in Seq(SUBSET Hit) /\ Len(buckets) = next - 1
    BY <1>1, <1>6, SMT
  <2>2. {} \in SUBSET Hit
    OBVIOUS
  <2>3. /\ buckets' \in Seq(SUBSET Hit)
        /\ Len(buckets') = Len(buckets) + 1
        /\ \A i \in 1 .. Len(buckets) : buckets'[i] = buckets[i]
        /\ buckets'[Len(buckets) + 1] = {}
    BY <1>3, <2>1, <2>2, AppendProperties
  <2>4. Len(buckets') = next /\ Len(buckets) + 1 = next
    BY <1>1, <2>1, <2>3, SMT
  <2> QED
    BY <2>1, <2>3, <2>4, LenProperties
<1>8. \A i \in 1 .. next - 1 : members'[i] = members[i]
  BY <1>1, <1>3, SMT DEF Inv, TypeOK
<1>9. members'[next] = m
  BY <1>1, <1>3, <1>4, SMT DEF Inv, TypeOK
<1>10. TypeOK'
  BY <1>1, <1>2, <1>5, <1>7, SMT DEF Inv, TypeOK, Running
<1>11. Counts'
  BY <1>1, <1>2, <1>5, SMT DEF Inv, Counts
<1>12. LayoutSound'
  BY <1>1, SMT DEF LayoutSound, Laid
<1>13. MembersMatch'
  <2> SUFFICES ASSUME NEW i \in 1 .. next
               PROVE  /\ members'[i].is_dir = (entries[i].type = "dir")
                      /\ members'[i].body = entries[i].body
    BY <1>1, <1>2, <1>5, SMT DEF MembersMatch, Laid, LateStages
  <2>1. CASE i = next
    BY <2>1, <1>9 DEF m, e
  <2>2. CASE i # next
    <3>1. i \in 1 .. next - 1 /\ i \in DOMAIN members
      BY <2>2, <1>1, SMT DEF Inv, TypeOK
    <3> QED
      BY <3>1, <1>1, <1>8 DEF Inv, MembersMatch, EarlyStages
  <2> QED
    BY <2>1, <2>2
<1>14. HitsMatch' /\ OutputMatch'
  BY <1>1 DEF HitsMatch, OutputMatch
<1>15. BucketsMatch'
  <2> SUFFICES ASSUME NEW i \in 1 .. next PROVE buckets'[i] \in {{}, Bucket(i)'}
    BY <1>1, <1>7 DEF BucketsMatch
  <2>1. CASE i = next
    BY <2>1, <1>7
  <2>2. CASE i # next
    <3>1. i \in 1 .. next - 1 /\ i \in DOMAIN buckets
      BY <2>2, <1>1, <1>6, SMT
    <3>2. Bucket(i)' = Bucket(i)
      BY <1>2 DEF Bucket, FoundIn, LocalHit
    <3> QED
      BY <3>1, <3>2, <1>7 DEF Inv, BucketsMatch
  <2> QED
    BY <2>1, <2>2
<1> QED
  BY <1>10, <1>11, <1>12, <1>13, <1>14, <1>15 DEF Inv
LEMMA ExtractedInv == Inv /\ Extracted => Inv'
<1> SUFFICES ASSUME Inv, Extracted PROVE Inv'
  OBVIOUS
<1>1. pc = "extract" /\ pc' = "layout" /\ next' = 1
  BY DEF Extracted, Goto
<1>2. UNCHANGED <<entries, members, base, hits, buckets, output>>
  BY DEF Extracted
<1>3. Len(members) = Len(entries)
  BY <1>1, SMT DEF Inv, TypeOK, Counts, Extracted
<1>4. TypeOK'
  BY <1>1, <1>2, SMT DEF Inv, TypeOK, Running
<1>5. Counts'
  BY <1>1, <1>2, <1>3, SMT DEF Inv, Counts
<1>6. LayoutSound'
  BY <1>1, <1>2, SMT DEF LayoutSound, Laid
<1>7. MembersMatch'
  <2>1. \A i \in DOMAIN members : i > 0
    BY SMT DEF Inv, TypeOK
  <2>2. Laid' = 0
    BY <1>1, SMT DEF Laid
  <2>3. \A i \in DOMAIN members : ~(i <= Laid')
    BY <2>1, <2>2, SMT DEF Inv, TypeOK
  <2> QED
    BY <1>1, <1>2, <2>3 DEF Inv, MembersMatch, EarlyStages, LateStages
<1>8. HitsMatch' /\ OutputMatch'
  BY <1>1 DEF HitsMatch, OutputMatch
<1>9. BucketsMatch'
  BY <1>1, <1>2 DEF Inv, BucketsMatch, Bucket, FoundIn, LocalHit
<1> QED
  BY <1>4, <1>5, <1>6, <1>7, <1>8, <1>9 DEF Inv

LEMMA FailsInv == Inv /\ (Fails \/ Homeless \/ Refuses) => Inv'
<1> SUFFICES ASSUME Inv, Fails \/ Homeless \/ Refuses PROVE Inv'
  OBVIOUS
<1>1. pc' = "failed" /\ UNCHANGED <<entries, members, base, hits, buckets, next, output>>
  BY DEF Fails, Homeless, Refuses, Goto
<1>2. TypeOK'
  BY <1>1 DEF Inv, TypeOK
<1>3. Counts'
  BY <1>1 DEF Inv, Counts
<1>4. \A i \in DOMAIN members : ~(i <= Laid')
  BY <1>1, SMT DEF Inv, TypeOK, Laid
<1>5. LayoutSound'
  BY <1>1, <1>4, SMT DEF Inv, TypeOK, LayoutSound
<1>6. MembersMatch'
  BY <1>1, <1>4 DEF Inv, MembersMatch, EarlyStages, LateStages
<1>7. HitsMatch' /\ OutputMatch'
  BY <1>1 DEF HitsMatch, OutputMatch
<1>8. BucketsMatch'
  BY <1>1 DEF Inv, BucketsMatch, Bucket, FoundIn, LocalHit
<1> QED
  BY <1>2, <1>3, <1>5, <1>6, <1>7, <1>8 DEF Inv

LEMMA PlaceInv == Inv /\ Place => Inv'
<1> SUFFICES ASSUME Inv, Place PROVE Inv'
  OBVIOUS
<1> DEFINE m == members[next]
           span == IF m.is_dir THEN 0 ELSE Size(m.body)
           new == [m EXCEPT !.base = base, !.span = span]
<1>1. /\ pc = "layout" /\ pc' = "layout" /\ next' = next + 1
      /\ next \in Nat \ {0} /\ next <= Len(members) /\ next \in DOMAIN members
      /\ Len(members) = Len(entries) /\ base \in Nat
  BY SMT DEF Inv, TypeOK, Counts, Place, Goto
<1>2. UNCHANGED <<entries, hits, buckets, output>>
  BY DEF Place
<1>3. m \in Member
  BY <1>1, ElementOfSeq, LenProperties DEF Inv, TypeOK
<1>4. span \in Nat /\ base' = base + span
  BY <1>3, SizeIsNat DEF Member, Place
<1>5. members' = [members EXCEPT ![next] = new]
  BY DEF Place
<1>6. /\ new \in Member /\ new.base = base /\ new.span = span
      /\ new.body = m.body /\ new.is_dir = m.is_dir
  BY <1>1, <1>3, <1>4 DEF Member
<1> HIDE DEF new, span, m
<1>7. /\ members' \in Seq(Member) /\ Len(members') = Len(members)
      /\ DOMAIN members' = DOMAIN members
      /\ members'[next] = new
      /\ \A i \in DOMAIN members : i # next => members'[i] = members[i]
  BY <1>1, <1>5, <1>6, ExceptSeq, LenProperties DEF Inv, TypeOK
<1>8. TypeOK'
  BY <1>1, <1>2, <1>4, <1>7, SMT DEF Inv, TypeOK, Running
<1>9. Counts'
  BY <1>1, <1>2, <1>7 DEF Inv, Counts
<1>10. LayoutSound'
  <2>1. Laid' = next /\ Laid = next - 1
    BY <1>1, SMT DEF Laid
  <2>2. \A i \in DOMAIN members : members[i].base \in Nat /\ members[i].span \in Nat
    BY MemberFacts DEF Inv
  <2>3. DOMAIN members = 1 .. Len(members)
    BY MemberFacts DEF Inv
  <2>4. ASSUME NEW i \in 1 .. Len(members), i < next
        PROVE  /\ members'[i] = members[i]
               /\ members[i].base + members[i].span <= base
               /\ \A j \in i + 1 .. Len(members) : j < next => members[i].base + members[i].span <= members[j].base
    <3>1. i <= Laid /\ i # next
      BY <1>1, <2>1, <2>4, SMT
    <3>2. \A j \in i + 1 .. Len(members) : j < next => j <= Laid
      BY <1>1, <2>1, SMT
    <3> QED
      BY <2>3, <3>1, <3>2, <1>7 DEF Inv, LayoutSound
  <2>5. ASSUME NEW i \in 1 .. Len(members), i <= next
        PROVE  /\ members'[i].base + members'[i].span <= base'
               /\ \A j \in i + 1 .. Len(members) : j <= next =>
                     members'[i].base + members'[i].span <= members'[j].base
    <3>1. CASE i = next
      BY <3>1, <1>1, <1>4, <1>6, <1>7, SMT
    <3>2. CASE i < next
      <4>1. members'[i].base + members'[i].span <= base'
        <5>1. members'[i].base = members[i].base /\ members'[i].span = members[i].span
          BY <3>2, <2>4
        <5>2. members[i].base + members[i].span <= base
          BY <3>2, <2>4
        <5>3. members[i].base \in Nat /\ members[i].span \in Nat
          BY <2>2, <2>3
        <5> QED
          BY <5>1, <5>2, <5>3, <1>1, <1>4, SMT
      <4>2. ASSUME NEW j \in i + 1 .. Len(members), j < next
            PROVE  members'[i].base + members'[i].span <= members'[j].base
        <5>1. j \in 1 .. Len(members) /\ j # next
          BY <4>2, <1>1, SMT
        <5> QED
          BY <3>2, <4>2, <5>1, <2>3, <2>4, <1>7
      <4>3. members'[i].base + members'[i].span <= members'[next].base
        BY <3>2, <2>4, <1>6, <1>7
      <4> QED
        BY <4>1, <4>2, <4>3, <1>1, SMT
    <3> QED
      BY <3>1, <3>2, <2>5, <1>1, SMT
  <2> QED
    BY <2>1, <2>5, <1>7 DEF LayoutSound
<1>11. MembersMatch'
  <2> SUFFICES ASSUME NEW i \in DOMAIN members
               PROVE  /\ members'[i].is_dir = (entries[i].type = "dir")
                      /\ members'[i].body = entries[i].body
                      /\ i <= next => members'[i].span = IF entries[i].type = "dir" THEN 0
                                                         ELSE Size(entries[i].body)
    BY <1>1, <1>2, <1>7, SMT DEF MembersMatch, Laid, LateStages
  <2>1. members[i].body = entries[i].body /\ members[i].is_dir = (entries[i].type = "dir")
    BY <1>1 DEF Inv, MembersMatch, EarlyStages
  <2>2. CASE i = next
    BY <2>1, <2>2, <1>6, <1>7 DEF span, m
  <2>3. CASE i # next
    <3>1. i <= next => i <= Laid
      BY <2>3, <1>1, SMT DEF Laid, Inv, TypeOK
    <3> QED
      BY <2>1, <2>3, <3>1, <1>7 DEF Inv, MembersMatch
  <2> QED
    BY <2>2, <2>3
<1>12. HitsMatch' /\ OutputMatch'
  BY <1>1 DEF HitsMatch, OutputMatch
<1>13. BucketsMatch'
  BY <1>1, <1>2 DEF Inv, BucketsMatch, Bucket, FoundIn, LocalHit
<1> QED
  BY <1>8, <1>9, <1>10, <1>11, <1>12, <1>13 DEF Inv
LEMMA PlacedInv == Inv /\ Placed => Inv'
<1> SUFFICES ASSUME Inv, Placed PROVE Inv'
  OBVIOUS
<1>1. pc = "layout" /\ pc' = "scan" /\ next' = 1 /\ next > Len(members)
  BY DEF Placed, Goto
<1>2. UNCHANGED <<entries, members, base, hits, buckets, output>>
  BY DEF Placed
<1>3. \A i \in DOMAIN members : i <= Laid
  BY <1>1, MemberFacts, SMT DEF Inv, TypeOK, Laid
<1>4. TypeOK'
  BY <1>1, <1>2, SMT DEF Inv, TypeOK, Running
<1>5. Counts'
  BY <1>1, <1>2 DEF Inv, Counts
<1>6. LayoutSound'
  <2>1. DOMAIN members = 1 .. Len(members) /\ Len(members) \in Nat
    BY MemberFacts DEF Inv
  <2>2. ASSUME NEW i \in 1 .. Len(members), NEW j \in i + 1 .. Len(members)
        PROVE  j \in DOMAIN members
    BY <2>1, SMT
  <2> QED
    BY <1>2, <1>3, <2>1, <2>2 DEF Inv, LayoutSound
<1>7. MembersMatch'
  BY <1>1, <1>2, <1>3 DEF Inv, MembersMatch, EarlyStages, LateStages
<1>8. HitsMatch' /\ OutputMatch'
  BY <1>1 DEF HitsMatch, OutputMatch
<1>9. BucketsMatch'
  BY <1>1, <1>2 DEF Inv, BucketsMatch, Bucket, FoundIn, LocalHit
<1> QED
  BY <1>4, <1>5, <1>6, <1>7, <1>8, <1>9 DEF Inv

(* A hit as the engine reports it. *)
GlobalHit(i, j) == [offset |-> members[i].base + At(members[i].body, j),
                    len |-> Unit(members[i].body.form), in |-> i, block |-> j]

LEMMA GlobalHitFacts ==
    ASSUME TypeOK, NEW i \in DOMAIN members, NEW j \in Found(members[i].body)
    PROVE  /\ GlobalHit(i, j) \in Hit
           /\ GlobalHit(i, j).offset = members[i].base + At(members[i].body, j)
           /\ At(members[i].body, j) \in Nat
           /\ GlobalHit(i, j).len \in Nat \ {0}
<1>1. i \in Nat /\ members[i].body \in Body /\ members[i].base \in Nat
  BY MemberFacts, SMT
<1>2. j \in Chunked(members[i].body)
  BY DEF Found
<1>3. /\ j \in Nat /\ Unit(members[i].body.form) \in Nat \ {0}
      /\ At(members[i].body, j) \in Nat
  BY <1>1, <1>2, OffsetFacts
<1>4. members[i].base + At(members[i].body, j) \in Nat
  BY <1>1, <1>3, SMT
<1> QED
  BY <1>1, <1>3, <1>4 DEF GlobalHit, Hit

LEMMA ScanInv == Inv /\ ScanChunks => Inv'
<1> SUFFICES ASSUME Inv, ScanChunks PROVE Inv'
  OBVIOUS
<1>1. /\ pc = "scan" /\ pc' \in {"clean", "distribute"}
      /\ pc' = "clean" => hits' = {}
      /\ hits' = UNION {HitsOf(i) : i \in DOMAIN members}
  BY DEF ScanChunks
<1>2. UNCHANGED <<entries, members, base, buckets, next, output>>
  BY DEF ScanChunks
<1>3. ASSUME NEW i \in DOMAIN members PROVE HitsOf(i) \subseteq Hit
  BY <1>3, GlobalHitFacts DEF HitsOf, GlobalHit, Inv
<1>4. TypeOK'
  BY <1>1, <1>2, <1>3 DEF Inv, TypeOK, Running
<1>5. Counts'
  BY <1>1, <1>2 DEF Inv, Counts
<1>6. LayoutSound' /\ Laid' = Laid
  BY <1>1, <1>2 DEF Inv, LayoutSound, Laid
<1>7. MembersMatch'
  BY <1>1, <1>2, <1>6 DEF Inv, MembersMatch, EarlyStages, LateStages
<1>8. HitsMatch' /\ OutputMatch'
  BY <1>1, <1>2 DEF HitsMatch, OutputMatch, HitsOf
<1>9. BucketsMatch'
  BY <1>1, <1>2 DEF Inv, BucketsMatch, Bucket, FoundIn, LocalHit
<1> QED
  BY <1>4, <1>5, <1>6, <1>7, <1>8, <1>9 DEF Inv
-----------------------------------------------------------------------------
(* The heart: with every member's chunks inside its span, the spans tell    *)
(* for each hit, and without ambiguity, the member it was found in.        *)
LEMMA HitsComeHome ==
    ASSUME Inv, Contained, pc = "distribute",
           NEW i \in DOMAIN members, NEW j \in FoundIn(i)
    PROVE  /\ HoldsIn(i, GlobalHit(i, j))
           /\ \A k \in DOMAIN members : HoldsIn(k, GlobalHit(i, j)) => k = i
           /\ Local(i, GlobalHit(i, j)) = LocalHit(i, j)
<1> DEFINE m == members[i]
           b == entries[i].body
           h == GlobalHit(i, j)
<1>1. /\ m.body = b /\ ~m.is_dir /\ entries[i].type # "dir" /\ j \in Found(b)
      /\ m.span = Size(b) /\ i \in DOMAIN entries
  <2>1. i <= Laid
    BY MemberFacts, SMT DEF Inv, Laid
  <2>2. entries[i].type # "dir" /\ j \in Found(b)
    BY DEF FoundIn
  <2>3. i \in DOMAIN entries
    BY MemberFacts, LenProperties, SMT DEF Inv, TypeOK, Counts
  <2> QED
    BY <2>1, <2>2, <2>3 DEF Inv, MembersMatch, EarlyStages
<1>2. h.offset = m.base + At(b, j) /\ At(b, j) \in Nat /\ h.len = Unit(b.form) /\ h.len \in Nat \ {0}
  BY <1>1, GlobalHitFacts DEF Inv, GlobalHit
<1>3. m.base \in Nat /\ m.span \in Nat
  BY MemberFacts DEF Inv
<1>4. Upto(b, j) = At(b, j) + h.len
  BY <1>2 DEF Upto
<1>5. Upto(b, j) <= m.span
  <2>1. entries \in Archives
    BY DEF Inv, Counts
  <2>2. j \in Chunked(b)
    BY <1>1 DEF Found
  <2> QED
    BY <1>1, <2>1, <2>2 DEF Contained
<1>6. Local(i, h) = LocalHit(i, j)
  <2>1. h.offset - m.base = At(b, j)
    BY <1>2, <1>3, SMT
  <2> QED
    BY <1>1, <2>1 DEF Local, LocalHit, GlobalHit
<1> HIDE DEF m, b, h
<1>7. h.offset >= m.base /\ h.offset + h.len <= m.base + m.span /\ m.span # 0
  BY <1>2, <1>3, <1>4, <1>5, SMT
<1>8. HoldsIn(i, h)
  BY <1>7 DEF HoldsIn, Holds, m
<1>9. ASSUME NEW k \in DOMAIN members, HoldsIn(k, h), k # i PROVE FALSE
  <2>1. /\ members[k].base \in Nat /\ members[k].span \in Nat
        /\ h.offset >= members[k].base /\ h.offset + h.len <= members[k].base + members[k].span
    BY <1>9, MemberFacts DEF HoldsIn, Holds, Inv
  <2>2. i \in 1 .. Len(members) /\ k \in 1 .. Len(members) /\ Laid = Len(members) /\ Len(members) \in Nat
    BY MemberFacts DEF Inv, Laid
  <2>3. CASE k < i
    <3>1. i \in k + 1 .. Len(members) /\ k <= Laid /\ i <= Laid
      BY <2>2, <2>3, SMT
    <3>2. members[k].base + members[k].span <= m.base
      BY <2>2, <3>1 DEF Inv, LayoutSound, m
    <3> QED
      BY <3>2, <2>1, <1>2, <1>3, <1>7, SMT
  <2>4. CASE i < k
    <3>1. k \in i + 1 .. Len(members) /\ k <= Laid /\ i <= Laid
      BY <2>2, <2>4, SMT
    <3>2. m.base + m.span <= members[k].base
      BY <2>2, <3>1 DEF Inv, LayoutSound, m
    <3> QED
      BY <3>2, <2>1, <1>2, <1>3, <1>7, SMT
  <2> QED
    BY <2>2, <2>3, <2>4, <1>9, SMT
<1> QED
  BY <1>6, <1>8, <1>9 DEF h
LEMMA DistributeInv == Contained /\ Inv /\ Distribute => Inv'
<1> SUFFICES ASSUME Contained, Inv, Distribute PROVE Inv'
  OBVIOUS
<1>1. pc = "distribute" /\ pc' = "apply"
  BY DEF Distribute, Goto
<1>2. UNCHANGED <<entries, members, base, hits, next, output>>
  BY DEF Distribute
<1>3. ASSUME NEW i \in DOMAIN members PROVE HitsOf(i) = {GlobalHit(i, j) : j \in FoundIn(i)}
  <2>1. members[i].body = entries[i].body /\ members[i].is_dir = (entries[i].type = "dir")
    BY <1>1 DEF Inv, MembersMatch, EarlyStages
  <2> QED
    BY <2>1 DEF HitsOf, FoundIn, GlobalHit
<1>4. hits = UNION {HitsOf(i) : i \in DOMAIN members}
  BY <1>1 DEF Inv, HitsMatch
<1>5. ASSUME NEW i \in DOMAIN members PROVE buckets'[i] = Bucket(i)
  <2>1. buckets'[i] = {Local(i, h) : h \in {g \in hits : Owner(i, g)}}
    BY DEF Distribute
  <2>2. ASSUME NEW g \in hits, Owner(i, g) PROVE Local(i, g) \in Bucket(i)
    <3>1. PICK k \in DOMAIN members : g \in HitsOf(k)
      BY <1>4, <2>2
    <3>2. PICK j \in FoundIn(k) : g = GlobalHit(k, j)
      BY <1>3, <3>1
    <3>3. k = i
      BY <1>1, <2>2, <3>2, HitsComeHome DEF Owner
    <3> QED
      BY <1>1, <3>2, <3>3, HitsComeHome DEF Bucket
  <2>3. ASSUME NEW j \in FoundIn(i) PROVE LocalHit(i, j) \in buckets'[i]
    <3> DEFINE g == GlobalHit(i, j)
    <3>1. g \in hits
      BY <1>3, <1>4
    <3>2. HoldsIn(i, g) /\ \A k \in DOMAIN members : HoldsIn(k, g) => k = i
      BY <1>1, HitsComeHome
    <3>3. Local(i, g) = LocalHit(i, j)
      BY <1>1, HitsComeHome
    <3> HIDE DEF g
    <3>4. \A k \in 1 .. i - 1 : ~HoldsIn(k, g)
      <4>1. \A k \in 1 .. i - 1 : k # i
        BY MemberFacts, SMT DEF Inv
      <4> QED
        BY <3>2, <4>1 DEF HoldsIn
    <3> QED
      BY <2>1, <3>1, <3>2, <3>3, <3>4 DEF Owner
  <2> QED
    BY <2>1, <2>2, <2>3 DEF Bucket
<1>6. DOMAIN buckets' = DOMAIN members /\ DOMAIN members = 1 .. Len(members)
  BY MemberFacts DEF Distribute, Inv
<1>7. ASSUME NEW i \in DOMAIN members PROVE buckets'[i] \in SUBSET Hit
  <2>1. ASSUME NEW j \in FoundIn(i) PROVE LocalHit(i, j) \in Hit
    <3>1. members[i].body = entries[i].body /\ j \in Found(entries[i].body)
      BY <1>1, <2>1 DEF Inv, MembersMatch, EarlyStages, FoundIn
    <3>2. j \in Chunked(entries[i].body) /\ entries[i].body \in Body
      BY <3>1, MemberFacts DEF Found, Inv
    <3>3. /\ j \in Nat /\ At(entries[i].body, j) \in Nat
          /\ Unit(entries[i].body.form) \in Nat /\ i \in Nat
      BY <3>2, OffsetFacts, MemberFacts, SMT DEF Inv
    <3> QED
      BY <3>3 DEF LocalHit, Hit
  <2> QED
    BY <1>5, <2>1 DEF Bucket
<1>8. buckets' \in [1 .. Len(members) -> SUBSET Hit]
  <2>1. buckets' = [i \in DOMAIN members |-> buckets'[i]]
    BY DEF Distribute
  <2> QED
    BY <1>6, <1>7, <2>1
<1>9. TypeOK'
  BY <1>1, <1>2, <1>8 DEF Inv, TypeOK, Running
<1>10. Counts'
  BY <1>1, <1>2 DEF Inv, Counts
<1>11. LayoutSound' /\ Laid' = Laid
  BY <1>1, <1>2 DEF Inv, LayoutSound, Laid
<1>12. HitsMatch' /\ OutputMatch'
  BY <1>1 DEF HitsMatch, OutputMatch
<1>13. BucketsMatch'
  BY <1>2, <1>5, <1>6 DEF BucketsMatch, Bucket, FoundIn, LocalHit
<1>14. next = 1
  BY <1>1 DEF Inv, Counts
<1>15. MembersMatch'
  <2>1. \A i \in DOMAIN members : ~(i < next)
    BY <1>14, MemberFacts, SMT DEF Inv
  <2> QED
    BY <1>1, <1>2, <1>11, <2>1 DEF Inv, MembersMatch, EarlyStages, LateStages
<1> QED
  BY <1>9, <1>10, <1>11, <1>12, <1>13, <1>15 DEF Inv

LEMMA ApplyInv == Inv /\ ApplyMember => Inv'
<1> SUFFICES ASSUME Inv, ApplyMember PROVE Inv'
  OBVIOUS
<1> DEFINE m == members[next]
           new == [m EXCEPT !.body = Redact(m.body, buckets[next])]
<1>1. /\ pc = "apply" /\ pc' = "apply" /\ next' = next + 1
      /\ next \in Nat \ {0} /\ next <= Len(members) /\ next \in DOMAIN members
      /\ Len(members) = Len(entries)
  BY SMT DEF Inv, TypeOK, Counts, ApplyMember, Goto
<1>2. UNCHANGED <<entries, base, hits, buckets, output>>
  BY DEF ApplyMember
<1>3. m \in Member /\ m.body \in Body
  BY <1>1, MemberFacts DEF Inv
<1>4. members' = [members EXCEPT ![next] = new]
  BY DEF ApplyMember
<1>5. /\ Redact(m.body, buckets[next]) \in Body
      /\ Redact(m.body, buckets[next]).form = m.body.form
  BY <1>3, RedactShape
<1>6. /\ new \in Member /\ new.base = m.base /\ new.span = m.span
      /\ new.is_dir = m.is_dir /\ new.body = Redact(m.body, buckets[next])
  BY <1>3, <1>5 DEF Member
<1> HIDE DEF new, m
<1>7. /\ members' \in Seq(Member) /\ Len(members') = Len(members)
      /\ DOMAIN members' = DOMAIN members
      /\ members'[next] = new
      /\ \A i \in DOMAIN members : i # next => members'[i] = members[i]
  BY <1>1, <1>4, <1>6, ExceptSeq, LenProperties DEF Inv, TypeOK
<1>8. \A i \in DOMAIN members : /\ members'[i].base = members[i].base
                                /\ members'[i].span = members[i].span
                                /\ members'[i].is_dir = members[i].is_dir
  BY <1>6, <1>7 DEF m
<1>9. TypeOK'
  BY <1>1, <1>2, <1>7, SMT DEF Inv, TypeOK, Running
<1>10. Counts'
  BY <1>1, <1>2, <1>7 DEF Inv, Counts
<1>11. Laid' = Laid
  BY <1>1, <1>7 DEF Laid
<1>12. LayoutSound'
  <2>1. DOMAIN members = 1 .. Len(members) /\ Len(members) \in Nat
    BY MemberFacts DEF Inv
  <2>2. ASSUME NEW i \in 1 .. Len(members), NEW j \in i + 1 .. Len(members)
        PROVE  j \in DOMAIN members
    BY <2>1, SMT
  <2> QED
    BY <1>2, <1>7, <1>8, <1>11, <2>1, <2>2 DEF Inv, LayoutSound
<1>13. MembersMatch'
  <2> SUFFICES ASSUME NEW i \in DOMAIN members
               PROVE  /\ members'[i].body.form = entries[i].body.form
                      /\ members'[i].body = IF i < next + 1 THEN Redact(entries[i].body, Bucket(i))
                                                            ELSE entries[i].body
    <3>1. \A i : Redact(entries'[i].body, Bucket(i)') = Redact(entries[i].body, Bucket(i))
      BY <1>2 DEF Bucket, FoundIn, LocalHit
    <3> QED
      BY <1>1, <1>2, <1>7, <1>8, <1>11, <3>1
      DEF Inv, MembersMatch, EarlyStages, LateStages
  <2>1. i \in Nat
    BY MemberFacts, SMT DEF Inv
  <2>2. CASE i = next
    <3>1. ~(i < next) /\ i < next + 1
      BY <2>2, <1>1, SMT
    <3>2. m.body = entries[i].body
      BY <1>1, <2>2, <3>1 DEF Inv, MembersMatch, m
    <3>3. buckets[next] = Bucket(i)
      <4>1. DOMAIN buckets = DOMAIN members
        BY MemberFacts DEF Inv, TypeOK
      <4> QED
        BY <4>1, <1>1, <2>2 DEF Inv, BucketsMatch
    <3> QED
      BY <2>2, <3>1, <3>2, <3>3, <1>5, <1>6, <1>7
  <2>3. CASE i # next
    <3>1. i < next + 1 <=> i < next
      BY <2>1, <2>3, <1>1, SMT
    <3> QED
      BY <2>3, <3>1, <1>1, <1>7 DEF Inv, MembersMatch
  <2> QED
    BY <2>2, <2>3
<1>14. HitsMatch' /\ OutputMatch'
  BY <1>1 DEF HitsMatch, OutputMatch
<1>15. BucketsMatch'
  BY <1>1, <1>2 DEF Inv, BucketsMatch, Bucket, FoundIn, LocalHit
<1> QED
  BY <1>9, <1>10, <1>12, <1>13, <1>14, <1>15 DEF Inv
LEMMA AppliedInv == Inv /\ Applied => Inv'
<1> SUFFICES ASSUME Inv, Applied PROVE Inv'
  OBVIOUS
<1>1. pc = "apply" /\ pc' = "repack" /\ next' = 1 /\ next > Len(members)
  BY DEF Applied, Goto
<1>2. UNCHANGED <<entries, members, base, hits, buckets, output>>
  BY DEF Applied
<1>3. \A i \in DOMAIN members : i < next
  BY <1>1, MemberFacts, SMT DEF Inv, TypeOK
<1>4. TypeOK'
  BY <1>1, <1>2, SMT DEF Inv, TypeOK, Running
<1>5. Counts'
  BY <1>1, <1>2 DEF Inv, Counts
<1>6. LayoutSound' /\ Laid' = Laid
  BY <1>1, <1>2 DEF Inv, LayoutSound, Laid
<1>7. MembersMatch'
  <2>1. \A i : Redact(entries'[i].body, Bucket(i)') = Redact(entries[i].body, Bucket(i))
    BY <1>2 DEF Bucket, FoundIn, LocalHit
  <2> QED
    BY <1>1, <1>2, <1>3, <1>6, <2>1 DEF Inv, MembersMatch, EarlyStages, LateStages
<1>8. HitsMatch' /\ OutputMatch'
  BY <1>1 DEF HitsMatch, OutputMatch
<1>9. BucketsMatch'
  BY <1>1, <1>2 DEF Inv, BucketsMatch, Bucket, FoundIn, LocalHit
<1> QED
  BY <1>4, <1>5, <1>6, <1>7, <1>8, <1>9 DEF Inv

LEMMA RepackInv == Inv /\ Repack => Inv'
<1> SUFFICES ASSUME Inv, Repack PROVE Inv'
  OBVIOUS
<1>1. pc = "repack" /\ pc' = "done"
  BY DEF Repack, Goto
<1>2. UNCHANGED <<entries, members, base, hits, buckets, next>>
  BY DEF Repack
<1>3. DOMAIN members = DOMAIN entries /\ DOMAIN members = 1 .. Len(members)
  BY <1>1, EntryFacts, LenProperties, MemberFacts DEF Inv, Counts
<1>4. ASSUME NEW i \in DOMAIN members
      PROVE  Cleaned(entries[i]) = [type |-> IF members[i].is_dir THEN "dir" ELSE "file",
                                    body |-> members[i].body]
  <2>1. entries[i] \in Entry /\ (entries[i].type = "dir" => entries[i].body.blocks = << >>)
    BY <1>3, EntryFacts DEF Inv, Empty
  <2>2. members[i].body = Redact(entries[i].body, Bucket(i))
        /\ members[i].is_dir = (entries[i].type = "dir")
    BY <1>1 DEF Inv, MembersMatch, LateStages
  <2>3. members[i].body = Cleaned(entries[i]).body
    BY <2>1, <2>2, RedactOwnHits
  <2> QED
    BY <2>2, <2>3 DEF Cleaned
<1>5. output' = [i \in DOMAIN entries |-> Cleaned(entries[i])]
  BY <1>3, <1>4 DEF Repack
<1>6. OutputMatch'
  BY <1>2, <1>5 DEF OutputMatch
<1>7. output' \in Seq(Entry)
  <2>1. ASSUME NEW i \in DOMAIN members PROVE Cleaned(entries[i]) \in Entry
    <3>1. members[i].body \in Body
      BY MemberFacts DEF Inv
    <3>2. (IF members[i].is_dir THEN "dir" ELSE "file") \in Types
      BY DEF Types
    <3>3. \A t \in Types, b \in Body : [type |-> t, body |-> b] \in Entry
      BY DEF Entry
    <3>4. [type |-> IF members[i].is_dir THEN "dir" ELSE "file", body |-> members[i].body] \in Entry
      BY <3>1, <3>2, <3>3
    <3> QED
      BY <1>4, <2>1, <3>4, Zenon
  <2>2. output' \in [1 .. Len(members) -> Entry] /\ Len(members) \in Nat
    BY <1>3, <1>5, <2>1, MemberFacts DEF Inv
  <2> QED
    BY <2>2, SMT
<1>8. TypeOK'
  BY <1>1, <1>2, <1>7 DEF Inv, TypeOK
<1>9. Counts'
  BY <1>1, <1>2 DEF Inv, Counts
<1>10. LayoutSound' /\ Laid' = Laid
  BY <1>1, <1>2 DEF Inv, LayoutSound, Laid
<1>11. MembersMatch'
  <2>1. \A i : Redact(entries'[i].body, Bucket(i)') = Redact(entries[i].body, Bucket(i))
    BY <1>2 DEF Bucket, FoundIn, LocalHit
  <2> QED
    BY <1>1, <1>2, <1>10, <2>1 DEF Inv, MembersMatch, EarlyStages, LateStages
<1>12. HitsMatch'
  BY <1>1 DEF HitsMatch
<1>13. BucketsMatch'
  BY <1>1, <1>2 DEF Inv, BucketsMatch, Bucket, FoundIn, LocalHit
<1> QED
  BY <1>6, <1>8, <1>9, <1>10, <1>11, <1>12, <1>13 DEF Inv

LEMMA StutterInv == Inv /\ UNCHANGED vars => Inv'
<1> SUFFICES ASSUME Inv, UNCHANGED vars PROVE Inv'
  OBVIOUS
<1>1. UNCHANGED <<entries, pc, members, base, hits, buckets, next, output>>
  BY DEF vars
<1>2. TypeOK' /\ Counts'
  BY <1>1 DEF Inv, TypeOK, Counts
<1>3. LayoutSound' /\ Laid' = Laid
  BY <1>1 DEF Inv, LayoutSound, Laid
<1>4. MembersMatch'
  <2>1. \A i : Redact(entries'[i].body, Bucket(i)') = Redact(entries[i].body, Bucket(i))
    BY <1>1 DEF Bucket, FoundIn, LocalHit
  <2> QED
    BY <1>1, <1>3, <2>1 DEF Inv, MembersMatch
<1>5. HitsMatch' /\ OutputMatch'
  BY <1>1 DEF Inv, HitsMatch, HitsOf, OutputMatch
<1>6. BucketsMatch'
  BY <1>1 DEF Inv, BucketsMatch, Bucket, FoundIn, LocalHit
<1> QED
  BY <1>2, <1>3, <1>4, <1>5, <1>6 DEF Inv

LEMMA InvStep == Contained /\ Inv /\ [Next]_vars => Inv'
  BY ExtractInv, ExtractedInv, FailsInv, PlaceInv, PlacedInv, ScanInv,
     DistributeInv, ApplyInv, AppliedInv, RepackInv, StutterInv DEF Next

LEMMA InvHolds == Contained => (Spec => []Inv)
<1>1. Contained /\ Init /\ [][Next]_vars => []Inv
  <2>1. Contained /\ Inv /\ [Next]_vars => Inv'
    BY InvStep
  <2> SUFFICES ASSUME Contained PROVE Init /\ [][Next]_vars => []Inv
    OBVIOUS
  <2>2. Inv /\ [Next]_vars => Inv'
    BY <2>1
  <2> QED
    BY <2>2, InvInit, PTL
<1> QED
  BY <1>1 DEF Spec
-----------------------------------------------------------------------------
(* Type correctness of the scrub of an archive. *)
THEOREM ArchiveTypeCorrect == Contained => (Spec => []TypeOK)
  BY InvHolds, PTL DEF Inv

(* Hits are delivered to the member they were found in, at the offsets that *)
(* member's chunks had: for any number of members and hits.                *)
THEOREM HitsDelivered == Contained => (Spec => []Delivered)
<1>1. Inv => Delivered
  <2> SUFFICES ASSUME Inv, NEW i \in DOMAIN buckets, NEW h \in buckets[i]
               PROVE  h.in = i /\ h.offset = At(members[i].body, h.block)
    BY DEF Delivered
  <2>1. i \in DOMAIN members
    BY MemberFacts DEF Inv, TypeOK
  <2>2. h \in Bucket(i)
    BY DEF Inv, BucketsMatch
  <2>3. PICK j \in FoundIn(i) : h = LocalHit(i, j)
    BY <2>2 DEF Bucket
  <2>4. members[i].body.form = entries[i].body.form
    BY <2>1 DEF Inv, MembersMatch
  <2> QED
    BY <2>3, <2>4 DEF LocalHit, At
<1> QED
  BY <1>1, InvHolds, PTL

(* The spans of the members follow one another and never overlap. *)
THEOREM SpansApart == Contained => (Spec => []LayoutSound)
  BY InvHolds, PTL DEF Inv
-----------------------------------------------------------------------------
(* An archive with no hits is one whose entries are clean. *)
LEMMA NoHitsClean ==
    ASSUME NEW e \in Entry, e.type = "dir" \/ Found(e.body) = {}
    PROVE  Cleaned(e).body = e.body
<1> DEFINE b == e.body
           f == [j \in DOMAIN b.blocks |-> IF e.type # "dir" /\ j \in Found(b) THEN "zero" ELSE b.blocks[j]]
<1>1. b \in Body
  BY DEF Entry
<1>2. b.blocks = [j \in DOMAIN b.blocks |-> b.blocks[j]]
  BY <1>1, SMT DEF Body
<1>3. f = [j \in DOMAIN b.blocks |-> b.blocks[j]]
  OBVIOUS
<1>4. Cleaned(e).body = [b EXCEPT !.blocks = f]
  BY DEF Cleaned
<1> HIDE DEF b, f
<1> QED
  BY <1>1, <1>2, <1>3, <1>4 DEF Body, b

LEMMA ScanFindsNothing == Inv /\ ScanChunks /\ hits' = {} => Promise!FindNothing
<1> SUFFICES ASSUME Inv, ScanChunks, hits' = {} PROVE Promise!FindNothing
  OBVIOUS
<1>1. pc = "scan" /\ pc' = "clean" /\ UNCHANGED <<entries, members>>
  BY DEF ScanChunks
<1>2. DOMAIN members = DOMAIN entries
  BY <1>1, EntryFacts, LenProperties, MemberFacts DEF Inv, Counts
<1>3. ASSUME NEW i \in DOMAIN entries PROVE Cleaned(entries[i]).body = entries[i].body
  <2>1. HitsOf(i) = {}
    BY <1>2, <1>3 DEF ScanChunks
  <2>2. (IF members[i].is_dir THEN {} ELSE Found(members[i].body)) = {}
    BY <2>1 DEF HitsOf
  <2>3. members[i].body = entries[i].body /\ members[i].is_dir = (entries[i].type = "dir")
    BY <1>1, <1>2, <1>3 DEF Inv, MembersMatch, EarlyStages
  <2>4. entries[i] \in Entry
    BY <1>3, EntryFacts DEF Inv
  <2> QED
    BY <2>2, <2>3, <2>4, NoHitsClean
<1> QED
  BY <1>1, <1>3 DEF Promise!FindNothing, Running

LEMMA RepackScrubs == Inv /\ Inv' /\ Repack => Promise!Scrub
<1> SUFFICES ASSUME Inv, Inv', Repack PROVE Promise!Scrub
  OBVIOUS
<1>1. pc = "repack" /\ pc' = "done" /\ entries' = entries
  BY DEF Repack, Goto
<1>2. output' = [i \in DOMAIN entries |-> Cleaned(entries[i])]
  <2>1. OutputMatch'
    BY DEF Inv
  <2>2. output' = [i \in DOMAIN entries' |-> Cleaned(entries'[i])]
    BY <1>1, <2>1 DEF OutputMatch
  <2> QED
    BY <1>1, <2>2
<1> QED
  BY <1>1, <1>2 DEF Promise!Scrub, Running

LEMMA FailureChangesNothing ==
    ASSUME pc \in Running, pc' = "failed", entries' = entries
    PROVE  Promise!Fail
  BY DEF Promise!Fail, Running

LEMMA MembersAreInvisible ==
    ASSUME pc \in Running, pc' \in Running, entries' = entries
    PROVE  UNCHANGED Promise!vars
  BY DEF Promise!vars, Running

LEMMA PromiseStep == Inv /\ Inv' /\ [Next]_vars => [Promise!Next]_(Promise!vars)
<1> SUFFICES ASSUME Inv, Inv', [Next]_vars PROVE Promise!Next \/ UNCHANGED Promise!vars
  OBVIOUS
<1>1. CASE Extract \/ Extracted \/ Place \/ Placed
  BY <1>1, MembersAreInvisible DEF Extract, Extracted, Place, Placed, Goto, Running
<1>2. CASE Fails \/ Homeless \/ Refuses
  BY <1>2, FailureChangesNothing DEF Fails, Homeless, Refuses, Goto, Running, Promise!Next
<1>3. CASE ScanChunks
  <2>1. CASE hits' = {}
    BY <1>3, <2>1, ScanFindsNothing DEF Promise!Next
  <2>2. CASE hits' # {}
    BY <1>3, <2>2, MembersAreInvisible DEF ScanChunks, Running
  <2> QED
    BY <2>1, <2>2
<1>4. CASE Distribute \/ ApplyMember \/ Applied
  BY <1>4, MembersAreInvisible DEF Distribute, ApplyMember, Applied, Goto, Running
<1>5. CASE Repack
  BY <1>5, RepackScrubs DEF Promise!Next
<1>6. CASE UNCHANGED vars
  BY <1>6 DEF vars, Promise!vars
<1> QED
  BY <1>1, <1>2, <1>3, <1>4, <1>5, <1>6 DEF Next

(* The scrub of an archive implements Memberwise: it ends with every member *)
(* cleaned as by itself, or with nothing changed.                          *)
THEOREM MembersCleaned == Contained => (Spec => ImplementsMemberwise)
<1> SUFFICES ASSUME Contained PROVE Spec => ImplementsMemberwise
  OBVIOUS
<1>1. Init => Promise!Init
  BY DEF Init, Promise!Init, Running
<1>2. Inv /\ Inv' /\ [Next]_vars => [Promise!Next]_(Promise!vars)
  BY PromiseStep
<1>3. Spec => []Inv
  BY InvHolds
<1> QED
  BY <1>1, <1>2, <1>3, PTL DEF Spec, ImplementsMemberwise, Promise!Spec
=============================================================================
