---------------------------- MODULE SqliteProofs ----------------------------
(***************************************************************************)
(* For every database, any number of cells and any order in which SQLite   *)
(* returns them and the hash map updates them: hits mean the cells they    *)
(* were found in, the copy holds the database as it was or wholly cleaned, *)
(* and a scrub implements Memberwise.                                      *)
(***************************************************************************)
EXTENDS SqliteDb, SequenceTheorems, TLAPS

(* What each variable holds at each stage of the scrub, in terms of the     *)
(* database that was read.                                                 *)
Known(c) == Scannable(c.col) /\ c.class \in {"text", "blob"} /\ c.body # << >>
Text(k) == source[cells[k].at]
SourceHits == UNION {{HitIn(k, j) : j \in Found(Text(k))} : k \in DOMAIN cells}
Affected == {k \in DOMAIN cells : Found(Text(k)) # {}}
Through(i) == \E k \in Affected \ updates : cells[k].at = i
CleanStore == [i \in DOMAIN source |-> Cleaned(source[i])]

Typed ==
    /\ source \in Databases
    /\ cells \in Seq(Slot) /\ base \in Nat
    /\ pc \in Running \cup Ended /\ opened \in BOOLEAN

StoreMatch ==
    /\ pc = "copy" => tmp = "none"
    /\ pc \in {"connect", "collect", "scan", "apply", "update"} => store = source
    /\ pc \in {"vacuum", "close", "read"} => store = CleanStore
    /\ pc \in {"close", "read"} => slack = {}
    /\ tmp = "whole" => store \in {source, CleanStore}

(* The collected cells follow one another and are cells of their own. *)
CellsMatch ==
    /\ pc \in {"copy", "connect"} => cells = << >> /\ base = 0
    /\ \A k \in DOMAIN cells :
         /\ cells[k].at \in DOMAIN source /\ Known(Text(k))
         /\ cells[k].len = Len(Text(k).body)
         /\ cells[k].base + cells[k].len <= base
    /\ \A k, l \in DOMAIN cells : k < l =>
         /\ cells[k].base + cells[k].len <= cells[l].base
         /\ cells[k].at # cells[l].at

AllCollected ==
    pc \in {"scan", "apply", "update"} =>
        \A i \in DOMAIN source : Known(source[i]) => \E k \in DOMAIN cells : cells[k].at = i

HitsMatch ==
    /\ pc = "apply" => \E given \in SUBSET Stray : hits = SourceHits \cup given
    /\ pc = "update" => hits = SourceHits

TxnMatch ==
    pc = "update" =>
        /\ updates \subseteq Affected
        /\ txn = [i \in DOMAIN source |-> IF Through(i) THEN Redacted(source[i], Found(source[i])) ELSE source[i]]

OutputMatch == pc = "done" => output = [store |-> CleanStore, slack |-> {}]

(* The temporary file belongs to a SqliteDb from the end of the collection  *)
(* on, and goes with it.                                                   *)
DropMatch ==
    /\ pc \in Opening => ~opened
    /\ opened /\ pc \in Ended \ {"killed"} => tmp = "none"

Inv == Typed /\ StoreMatch /\ CellsMatch /\ AllCollected /\ HitsMatch /\ TxnMatch /\ OutputMatch /\ DropMatch
-----------------------------------------------------------------------------
(* A database is a sequence of cells. *)
LEMMA SourceFacts ==
    ASSUME Typed
    PROVE  /\ source \in Seq(Cell)
           /\ \A i \in DOMAIN source : source[i] \in Cell /\ source[i].body \in Seq(Blocks) /\ Len(source[i].body) \in Nat
           /\ source = [i \in DOMAIN source |-> source[i]]
<1>1. source \in Seq(Cell)
  BY SqliteAssumption DEF Typed
<1>2. \A i \in DOMAIN source : source[i] \in Cell
  BY <1>1, ElementOfSeq, LenProperties
<1>3. \A i \in DOMAIN source : source[i].body \in Seq(Blocks)
  BY <1>2 DEF Cell
<1>4. \A i \in DOMAIN source : Len(source[i].body) \in Nat
  BY <1>3, LenProperties
<1>5. source = [i \in DOMAIN source |-> source[i]]
  BY <1>1, SMT
<1> QED
  BY <1>1, <1>2, <1>3, <1>4, <1>5

LEMMA SlotFacts ==
    ASSUME Typed, NEW k \in DOMAIN cells
    PROVE  k \in Nat /\ cells[k] \in Slot /\ cells[k].base \in Nat /\ cells[k].len \in Nat
<1>1. k \in 1 .. Len(cells) /\ Len(cells) \in Nat
  BY LenProperties DEF Typed
<1>2. cells[k] \in Slot
  BY <1>1, ElementOfSeq DEF Typed
<1> QED
  BY <1>1, <1>2, SMT DEF Slot

(* The hit of a block is held by its cell and by no other. *)
LEMMA HeldByItsCell ==
    ASSUME Typed, CellsMatch, NEW k \in DOMAIN cells, NEW j \in DOMAIN Text(k).body
    PROVE  /\ Holds(k, HitIn(k, j))
           /\ \A l \in DOMAIN cells : Holds(l, HitIn(k, j)) => l = k
<1> DEFINE b(l) == cells[l].base
           n(l) == cells[l].len
<1>1. \A l \in DOMAIN cells : l \in Nat /\ b(l) \in Nat /\ n(l) \in Nat
  BY SlotFacts
<1>2. j \in 1 .. n(k)
  <2>1. cells[k].at \in DOMAIN source /\ n(k) = Len(Text(k).body)
    BY DEF CellsMatch
  <2>2. Text(k).body \in Seq(Blocks)
    BY <2>1, SourceFacts DEF Text
  <2> QED
    BY <2>1, <2>2, LenProperties
<1>3. \A l, m \in DOMAIN cells : l < m => b(l) + n(l) <= b(m)
  BY DEF CellsMatch
<1>4. HitIn(k, j).offset = b(k) + j - 1 /\ HitIn(k, j).len = 1
  BY DEF HitIn
<1>5. \A l \in DOMAIN cells : Holds(l, HitIn(k, j)) <=> b(k) + j - 1 >= b(l) /\ b(k) + j - 1 + 1 <= b(l) + n(l)
  BY <1>4 DEF Holds
<1> HIDE DEF b, n
<1>6. Holds(k, HitIn(k, j))
  BY <1>1, <1>2, <1>5, SMT
<1>7. ASSUME NEW l \in DOMAIN cells, Holds(l, HitIn(k, j)) PROVE l = k
  <2>1. ~(l < k)
    BY <1>1, <1>2, <1>3, <1>5, <1>7, SMT
  <2>2. ~(k < l)
    BY <1>1, <1>2, <1>3, <1>5, <1>7, SMT
  <2> QED
    BY <1>1, <2>1, <2>2, SMT
<1> QED
  BY <1>6, <1>7

LEMMA OwnedByItsCell ==
    ASSUME Typed, CellsMatch, NEW k \in DOMAIN cells, NEW j \in DOMAIN Text(k).body
    PROVE  /\ Owner(k, HitIn(k, j))
           /\ \A l \in DOMAIN cells : Owner(l, HitIn(k, j)) => l = k
<1>1. \A l \in 1 .. k - 1 : l \in DOMAIN cells /\ l # k
  <2>1. k \in 1 .. Len(cells) /\ Len(cells) \in Nat /\ DOMAIN cells = 1 .. Len(cells)
    BY LenProperties DEF Typed
  <2> QED
    BY <2>1, SMT
<1> QED
  BY <1>1, HeldByItsCell DEF Owner

(* No cell holds a stray hit. *)
LEMMA StrayHeldByNone ==
    ASSUME Typed, CellsMatch, NEW k \in DOMAIN cells, NEW h \in Stray
    PROVE  ~Holds(k, h)
<1>1. cells[k].at \in DOMAIN source /\ cells[k].len = Len(Text(k).body)
  BY DEF CellsMatch
<1>2. h.len > cells[k].len
  BY <1>1, SqliteAssumption DEF Typed, Text
<1>3. h \in Hit
  BY SqliteAssumption
<1>4. h.offset \in Nat /\ h.len \in Nat
  BY <1>3 DEF Hit
<1>5. cells[k].base \in Nat /\ cells[k].len \in Nat
  BY SlotFacts
<1> QED
  BY <1>2, <1>4, <1>5, SMT DEF Holds

(* A hit of a block is found among the hits, and only such. *)
LEMMA FoundInDomain == ASSUME NEW c PROVE Found(c) \subseteq DOMAIN c.body
  BY DEF Found

LEMMA SourceHitFacts ==
    /\ \A k \in DOMAIN cells : \A j \in Found(Text(k)) : HitIn(k, j) \in SourceHits
    /\ \A h \in SourceHits : \E k \in DOMAIN cells : \E j \in Found(Text(k)) : h = HitIn(k, j)
  BY DEF SourceHits
-----------------------------------------------------------------------------
LEMMA Initially == Init => Inv
<1> SUFFICES ASSUME Init PROVE Inv
  OBVIOUS
<1>1. Typed
  BY EmptySeq DEF Init, Typed, Running, Opening
<1>2. CellsMatch
  BY DEF Init, CellsMatch
<1>3. StoreMatch /\ AllCollected /\ HitsMatch /\ TxnMatch /\ OutputMatch /\ DropMatch
  BY DEF Init, StoreMatch, AllCollected, HitsMatch, TxnMatch, OutputMatch, DropMatch, Ended
<1> QED
  BY <1>1, <1>2, <1>3 DEF Inv

(* What the invariant says of the database and the cells depends on these  *)
(* two only.                                                               *)
LEMMA SourceSame ==
    ASSUME source' = source, cells' = cells
    PROVE  /\ SourceHits' = SourceHits /\ Affected' = Affected
           /\ CleanStore' = CleanStore
           /\ \A k : Text(k)' = Text(k)
<1>1. \A k : Text(k)' = Text(k)
  BY DEF Text
<1>2. \A k, j : HitIn(k, j)' = HitIn(k, j)
  BY DEF HitIn
<1> QED
  BY <1>1, <1>2 DEF SourceHits, Affected, CleanStore

(* Steps that end the scrub. *)
LEMMA EndingSafe ==
    ASSUME Inv, pc' \in {"failed", "killed"},
           UNCHANGED <<source, store, opened, cells, base>>,
           tmp' \in {tmp, "none", "partial"},
           opened /\ pc' = "failed" => tmp' = "none"
    PROVE  Inv'
<1>1. CleanStore' = CleanStore /\ \A k : Text(k)' = Text(k)
  BY SourceSame
<1>2. Typed'
  BY DEF Inv, Typed, Ended
<1>3. StoreMatch'
  BY <1>1 DEF Inv, StoreMatch
<1>4. CellsMatch'
  BY <1>1 DEF Inv, CellsMatch
<1>5. AllCollected' /\ HitsMatch' /\ TxnMatch' /\ OutputMatch' /\ DropMatch'
  BY DEF AllCollected, HitsMatch, TxnMatch, OutputMatch, DropMatch, Opening
<1> QED
  BY <1>2, <1>3, <1>4, <1>5 DEF Inv

LEMMA FailingSafe == Inv /\ (CopyFails \/ OpenFails \/ Misplaced \/ Refused \/ Fails \/ Kill) => Inv'
<1> SUFFICES ASSUME Inv, CopyFails \/ OpenFails \/ Misplaced \/ Refused \/ Fails \/ Kill PROVE Inv'
  OBVIOUS
<1>1. CASE CopyFails
  <2>1. ~opened
    BY <1>1 DEF CopyFails, Goto, Inv, DropMatch, Opening
  <2> QED
    BY <1>1, <2>1, EndingSafe DEF CopyFails, Goto
<1>2. CASE OpenFails
  <2>1. ~opened
    BY <1>2 DEF OpenFails, Inv, DropMatch, Opening
  <2> QED
    BY <1>2, <2>1, EndingSafe DEF OpenFails, dbVars
<1>3. CASE Misplaced \/ Refused \/ Fails
  BY <1>3, EndingSafe DEF Misplaced, Refused, Fails, EndWith
<1>4. CASE Kill
  BY <1>4, EndingSafe DEF Kill, dbVars
<1> QED
  BY <1>1, <1>2, <1>3, <1>4

LEMMA CopySafe == Inv /\ (CopySource \/ Connect) => Inv'
<1> SUFFICES ASSUME Inv, CopySource \/ Connect PROVE Inv'
  OBVIOUS
<1>1. pc \in {"copy", "connect"} /\ pc' \in {"connect", "collect"} /\ UNCHANGED <<source, cells, base, opened>>
  BY DEF CopySource, Connect, Goto
<1>2. store' = source /\ tmp' \in {tmp, "whole"}
  BY DEF CopySource, Connect, Goto, dbVars, Inv, StoreMatch
<1>3. CleanStore' = CleanStore /\ \A k : Text(k)' = Text(k)
  BY <1>1, SourceSame
<1>4. Typed'
  BY <1>1 DEF Inv, Typed, Running, Opening
<1>5. StoreMatch'
  BY <1>1, <1>2, <1>3 DEF StoreMatch
<1>6. CellsMatch'
  BY <1>1, <1>3 DEF Inv, CellsMatch
<1>7. AllCollected' /\ HitsMatch' /\ TxnMatch' /\ OutputMatch' /\ DropMatch'
  BY <1>1 DEF Inv, AllCollected, HitsMatch, TxnMatch, OutputMatch, DropMatch, Opening, Ended
<1> QED
  BY <1>4, <1>5, <1>6, <1>7 DEF Inv

LEMMA CollectSafe == ASSUME NEW i \in DOMAIN store, Inv, CollectCell(i) PROVE Inv'
<1>0. PICK n \in Nat : n = Len(cells)
  BY LenProperties DEF Inv, Typed
<1> DEFINE slot == [at |-> i, base |-> base, len |-> Len(source[i].body)]
<1>1. pc = "collect" /\ pc' = "collect" /\ store = source /\ UNCHANGED <<source, store, tmp, slack, opened>>
  BY DEF CollectCell, Goto, dbVars, Inv, StoreMatch
<1>2. i \in DOMAIN source /\ Known(source[i]) /\ \A k \in DOMAIN cells : cells[k].at # i
  BY <1>1 DEF CollectCell, Uncollected, Collectable, Known
<1>3. cells' = Append(cells, slot) /\ base' = base + slot.len
  BY <1>1 DEF CollectCell
<1>4. base \in Nat /\ slot.len \in Nat /\ i \in Nat /\ slot \in Slot
  <2>1. base \in Nat /\ Len(source[i].body) \in Nat
    BY <1>2, SourceFacts DEF Inv, Typed
  <2>2. i \in Nat
    BY <1>2, SourceFacts, LenProperties DEF Inv
  <2> QED
    BY <2>1, <2>2 DEF Slot
<1>5. slot.at = i /\ slot.base = base /\ slot.len = Len(source[i].body)
  OBVIOUS
<1> HIDE DEF slot
<1>6. /\ cells' \in Seq(Slot) /\ n \in Nat /\ DOMAIN cells = 1 .. n /\ DOMAIN cells' = 1 .. n + 1
      /\ \A k \in 1 .. n : cells'[k] = cells[k]
      /\ cells'[n + 1] = slot
  BY <1>0, <1>3, <1>4, AppendProperties, LenProperties DEF Inv, Typed
<1>7. base' \in Nat
  BY <1>3, <1>4, SMT
<1>8. \A k \in 1 .. n : Text(k)' = Text(k)
  BY <1>1, <1>6 DEF Text
<1>9. Text(n + 1)' = source[i]
  BY <1>1, <1>5, <1>6 DEF Text
<1>10. Typed'
  BY <1>1, <1>6, <1>7 DEF Inv, Typed, Running, Opening
<1>11. StoreMatch'
  <2>1. CleanStore' = CleanStore
    BY <1>1 DEF CleanStore
  <2> QED
    BY <1>1, <2>1 DEF Inv, StoreMatch
<1>12. CellsMatch'
  <2> DEFINE Fits(k) == /\ cells[k].at \in DOMAIN source /\ Known(Text(k))
                        /\ cells[k].len = Len(Text(k).body)
                        /\ cells[k].base + cells[k].len <= base
             Apart(k, l) == cells[k].base + cells[k].len <= cells[l].base /\ cells[k].at # cells[l].at
  <2>1. ASSUME NEW k \in 1 .. n PROVE Fits(k)'
    <3>1. Fits(k) /\ k \in DOMAIN cells
      BY <1>6 DEF Inv, CellsMatch
    <3>2. cells'[k].base + cells'[k].len <= base'
      <4>1. cells[k].base \in Nat /\ cells[k].len \in Nat
        BY <3>1, SlotFacts DEF Inv
      <4>2. cells[k].base + cells[k].len <= base
        BY <3>1
      <4> QED
        BY <1>3, <1>4, <1>6, <4>1, <4>2, SMT
    <3> QED
      BY <1>1, <1>6, <1>8, <3>1, <3>2
  <2>2. Fits(n + 1)'
    <3>1. cells'[n + 1].base + cells'[n + 1].len <= base'
      BY <1>3, <1>4, <1>5, <1>6, SMT
    <3> QED
      BY <1>1, <1>2, <1>5, <1>6, <1>9, <3>1
  <2>3. ASSUME NEW k \in 1 .. n, NEW l \in 1 .. n, k < l PROVE Apart(k, l)'
    <3>1. Apart(k, l)
      BY <1>6, <2>3 DEF Inv, CellsMatch
    <3> QED
      BY <1>6, <3>1
  <2>4. ASSUME NEW k \in 1 .. n PROVE Apart(k, n + 1)'
    <3>1. Fits(k) /\ k \in DOMAIN cells
      BY <1>6 DEF Inv, CellsMatch
    <3> QED
      BY <1>2, <1>5, <1>6, <3>1
  <2> HIDE DEF Fits, Apart
  <2>5. \A k \in DOMAIN cells' : Fits(k)'
    <3>1. \A k \in 1 .. n + 1 : k \in 1 .. n \/ k = n + 1
      BY <1>6, SMT
    <3> QED
      BY <1>6, <2>1, <2>2, <3>1
  <2>6. \A k, l \in DOMAIN cells' : k < l => Apart(k, l)'
    <3>1. \A k, l \in 1 .. n + 1 : k < l => k \in 1 .. n /\ (l \in 1 .. n \/ l = n + 1)
      BY <1>6, SMT
    <3> QED
      BY <1>6, <2>3, <2>4, <3>1
  <2> USE DEF Fits, Apart
  <2>7. pc' \notin {"copy", "connect"}
    BY <1>1
  <2> QED
    BY <2>5, <2>6, <2>7 DEF CellsMatch
<1>13. AllCollected' /\ HitsMatch' /\ TxnMatch' /\ OutputMatch' /\ DropMatch'
  BY <1>1 DEF Inv, AllCollected, HitsMatch, TxnMatch, OutputMatch, DropMatch, Opening, Ended
<1> QED
  BY <1>10, <1>11, <1>12, <1>13 DEF Inv

LEMMA CollectedSafe == Inv /\ Collected => Inv'
<1> SUFFICES ASSUME Inv, Collected PROVE Inv'
  OBVIOUS
<1>1. pc = "collect" /\ pc' = "scan" /\ store = source /\ opened' /\ UNCHANGED <<source, store, tmp, slack, cells, base>>
  BY DEF Collected, Goto, dbVars, Inv, StoreMatch
<1>2. CleanStore' = CleanStore /\ \A k : Text(k)' = Text(k)
  BY <1>1, SourceSame
<1>3. Typed'
  BY <1>1 DEF Inv, Typed, Running, Collected
<1>4. StoreMatch'
  BY <1>1, <1>2 DEF Inv, StoreMatch
<1>5. CellsMatch'
  BY <1>1, <1>2 DEF Inv, CellsMatch
<1>6. AllCollected'
  BY <1>1 DEF Collected, Uncollected, Collectable, AllCollected, Known
<1>7. HitsMatch' /\ TxnMatch' /\ OutputMatch' /\ DropMatch'
  BY <1>1 DEF HitsMatch, TxnMatch, OutputMatch, DropMatch, Opening, Ended
<1> QED
  BY <1>3, <1>4, <1>5, <1>6, <1>7 DEF Inv

LEMMA OwnHitsOfSource == Inv /\ pc = "scan" => OwnHits = SourceHits
  BY DEF Inv, StoreMatch, OwnHits, HitsOf, SourceHits, Text

LEMMA ScanSafe == Inv /\ ScanChunks => Inv'
<1> SUFFICES ASSUME Inv, ScanChunks PROVE Inv'
  OBVIOUS
<1>1. pc = "scan" /\ UNCHANGED <<source, store, slack, opened, cells, base>>
  BY DEF ScanChunks, EndWith, dbVars
<1>2. \/ pc' = "apply" /\ tmp' = tmp
      \/ pc' = "clean" /\ tmp' = "none"
  BY DEF ScanChunks, EndWith, dbVars
<1>3. CleanStore' = CleanStore /\ SourceHits' = SourceHits /\ \A k : Text(k)' = Text(k)
  BY <1>1, SourceSame
<1>4. Typed'
  BY <1>1, <1>2 DEF Inv, Typed, Running, Working, Ended
<1>5. StoreMatch'
  BY <1>1, <1>2, <1>3 DEF Inv, StoreMatch
<1>6. CellsMatch'
  BY <1>1, <1>2, <1>3 DEF Inv, CellsMatch
<1>7. AllCollected'
  BY <1>1, <1>2 DEF Inv, AllCollected
<1>8. \E given \in SUBSET Stray : hits' = SourceHits \cup given
  BY <1>1, OwnHitsOfSource DEF ScanChunks
<1>9. HitsMatch'
  BY <1>2, <1>3, <1>8 DEF HitsMatch
<1>10. TxnMatch' /\ OutputMatch' /\ DropMatch'
  BY <1>1, <1>2 DEF TxnMatch, OutputMatch, DropMatch, Opening, Ended
<1> QED
  BY <1>4, <1>5, <1>6, <1>7, <1>9, <1>10 DEF Inv
-----------------------------------------------------------------------------
(* The blocks of a cell that the hits found in it cover are those in which  *)
(* a secret was found.                                                     *)
LEMMA CoveredFound ==
    ASSUME Typed, CellsMatch, hits = SourceHits, NEW k \in DOMAIN cells, NEW j \in DOMAIN Text(k).body
    PROVE  Covered(k, j) <=> j \in Found(Text(k))
<1>1. cells[k].at \in DOMAIN source /\ cells[k].base \in Nat
  BY SlotFacts DEF CellsMatch
<1>2. DOMAIN Text(k).body \subseteq Nat
  <2>1. Text(k).body \in Seq(Blocks)
    BY <1>1, SourceFacts DEF Text
  <2> QED
    BY <2>1, LenProperties
<1>3. ASSUME j \in Found(Text(k)) PROVE Covered(k, j)
  <2>1. HitIn(k, j) \in hits /\ Owner(k, HitIn(k, j))
    BY <1>3, SourceHitFacts, OwnedByItsCell
  <2>2. HitIn(k, j).offset = cells[k].base + j - 1 /\ HitIn(k, j).len = 1
    BY DEF HitIn
  <2>3. HitIn(k, j).offset <= cells[k].base + j - 1 /\ cells[k].base + j - 1 < HitIn(k, j).offset + HitIn(k, j).len
    BY <1>1, <1>2, <2>2, SMT
  <2> QED
    BY <2>1, <2>3 DEF Covered
<1>4. ASSUME Covered(k, j) PROVE j \in Found(Text(k))
  <2>1. PICK h \in hits : /\ Owner(k, h)
                          /\ h.offset <= cells[k].base + j - 1
                          /\ cells[k].base + j - 1 < h.offset + h.len
    BY <1>4 DEF Covered
  <2>2. PICK l \in DOMAIN cells : \E n \in Found(Text(l)) : h = HitIn(l, n)
    BY SourceHitFacts
  <2>3. PICK m \in Found(Text(l)) : h = HitIn(l, m)
    BY <2>2
  <2>4. m \in DOMAIN Text(l).body
    BY <2>3, FoundInDomain
  <2>5. l = k
    BY <2>1, <2>3, <2>4, OwnedByItsCell
  <2>6. h.offset = cells[k].base + m - 1 /\ h.len = 1
    BY <2>3, <2>5 DEF HitIn
  <2>7. m \in Nat
    BY <1>2, <2>4, <2>5
  <2>8. m = j
    BY <1>1, <1>2, <2>1, <2>6, <2>7, SMT
  <2> QED
    BY <2>3, <2>5, <2>8
<1> QED
  BY <1>3, <1>4

LEMMA NewValueOfSource ==
    ASSUME Typed, CellsMatch, hits = SourceHits, store = source, NEW k \in DOMAIN cells
    PROVE  NewValue(k) = Redacted(Text(k), Found(Text(k)))
<1>1. {j \in DOMAIN Text(k).body : Covered(k, j)} = Found(Text(k))
  BY CoveredFound, FoundInDomain
<1>2. store[cells[k].at] = Text(k)
  BY DEF Text
<1> QED
  BY <1>1, <1>2 DEF NewValue

(* The owners of the hits are the cells with something found. *)
LEMMA OwnersAffected ==
    ASSUME Typed, CellsMatch, hits = SourceHits
    PROVE  {k \in DOMAIN cells : \E h \in hits : Owner(k, h)} = Affected
<1>1. ASSUME NEW k \in Affected PROVE \E h \in hits : Owner(k, h)
  <2>1. k \in DOMAIN cells
    BY DEF Affected
  <2>2. PICK j \in Found(Text(k)) : TRUE
    BY DEF Affected
  <2>3. j \in DOMAIN Text(k).body
    BY <2>2, FoundInDomain
  <2> QED
    BY <2>1, <2>2, <2>3, SourceHitFacts, OwnedByItsCell
<1>2. ASSUME NEW k \in DOMAIN cells, NEW h \in hits, Owner(k, h) PROVE k \in Affected
  <2>1. PICK l \in DOMAIN cells : \E j \in Found(Text(l)) : h = HitIn(l, j)
    BY SourceHitFacts
  <2>2. PICK j \in Found(Text(l)) : h = HitIn(l, j)
    BY <2>1
  <2>3. l = k
    BY <1>2, <2>2, FoundInDomain, OwnedByItsCell
  <2> QED
    BY <2>2, <2>3 DEF Affected
<1> QED
  BY <1>1, <1>2 DEF Affected

LEMMA BeginSafe == Inv /\ Begin => Inv'
<1> SUFFICES ASSUME Inv, Begin PROVE Inv'
  OBVIOUS
<1>1. pc = "apply" /\ pc' = "update" /\ store = source /\ txn' = source
      /\ UNCHANGED <<source, store, tmp, slack, opened, cells, base, hits>>
  BY DEF Begin, Goto, dbVars, Inv, StoreMatch
<1>2. /\ SourceHits' = SourceHits /\ Affected' = Affected
      /\ CleanStore' = CleanStore /\ \A k : Text(k)' = Text(k)
  BY <1>1, SourceSame
<1>3. hits = SourceHits
  <2>1. PICK given \in SUBSET Stray : hits = SourceHits \cup given
    BY <1>1 DEF Inv, HitsMatch
  <2>2. ASSUME NEW h \in given PROVE FALSE
    <3>1. PICK k \in DOMAIN cells : Holds(k, h)
      BY <2>1 DEF Begin
    <3> QED
      BY <2>1, <3>1, StrayHeldByNone DEF Inv
  <2> QED
    BY <2>1, <2>2
<1>4. updates' = Affected
  BY <1>3, OwnersAffected DEF Begin, Inv
<1>5. Typed' /\ StoreMatch' /\ CellsMatch' /\ AllCollected'
  <2>1. Typed'
    BY <1>1 DEF Inv, Typed, Running, Working
  <2>2. StoreMatch'
    BY <1>1, <1>2 DEF Inv, StoreMatch
  <2>3. CellsMatch'
    BY <1>1, <1>2 DEF Inv, CellsMatch
  <2>4. AllCollected'
    BY <1>1 DEF Inv, AllCollected
  <2> QED
    BY <2>1, <2>2, <2>3, <2>4
<1>6. HitsMatch'
  BY <1>1, <1>2, <1>3 DEF HitsMatch
<1>7. TxnMatch'
  <2>1. \A i : ~Through(i)'
    BY <1>2, <1>4 DEF Through
  <2>2. txn' = [i \in DOMAIN source |-> source[i]]
    BY <1>1, SourceFacts DEF Inv
  <2> QED
    BY <1>1, <1>2, <1>4, <2>1, <2>2 DEF TxnMatch
<1>8. OutputMatch' /\ DropMatch'
  BY <1>1 DEF OutputMatch, DropMatch, Opening, Ended
<1> QED
  BY <1>5, <1>6, <1>7, <1>8 DEF Inv

LEMMA UpdateSafe == ASSUME NEW k \in DOMAIN cells, Inv, UpdateCell(k) PROVE Inv'
<1>1. pc = "update" /\ pc' = "update" /\ store = source /\ k \in updates /\ updates' = updates \ {k}
      /\ UNCHANGED <<source, store, tmp, slack, opened, cells, base, hits>>
  BY DEF UpdateCell, Goto, dbVars, Inv, StoreMatch
<1>2. /\ SourceHits' = SourceHits /\ Affected' = Affected
      /\ CleanStore' = CleanStore /\ \A l : Text(l)' = Text(l)
  BY <1>1, SourceSame
<1>3. txn' = [txn EXCEPT ![cells[k].at] = Redacted(Text(k), Found(Text(k)))]
  <2>1. NewValue(k) = Redacted(Text(k), Found(Text(k)))
    BY <1>1, NewValueOfSource DEF Inv, HitsMatch
  <2> QED
    BY <2>1 DEF UpdateCell
<1>4. Typed' /\ StoreMatch' /\ CellsMatch' /\ AllCollected'
  <2>1. Typed'
    BY <1>1 DEF Inv, Typed
  <2>2. StoreMatch'
    BY <1>1, <1>2 DEF Inv, StoreMatch
  <2>3. CellsMatch'
    BY <1>1, <1>2 DEF Inv, CellsMatch
  <2>4. AllCollected'
    BY <1>1 DEF Inv, AllCollected
  <2> QED
    BY <2>1, <2>2, <2>3, <2>4
<1>5. HitsMatch'
  BY <1>1, <1>2 DEF Inv, HitsMatch
<1>6. TxnMatch'
  <2> DEFINE R(i) == Redacted(source[i], Found(source[i]))
  <2>1. updates \subseteq Affected /\ txn = [i \in DOMAIN source |-> IF Through(i) THEN R(i) ELSE source[i]]
    BY <1>1 DEF Inv, TxnMatch
  <2>2. cells[k].at \in DOMAIN source /\ Text(k) = source[cells[k].at]
    BY DEF Inv, CellsMatch, Text
  <2>3. \A i : Through(i)' <=> Through(i) \/ i = cells[k].at
    BY <1>1, <1>2, <2>1 DEF Through
  <2>4. txn' = [i \in DOMAIN source |-> IF i = cells[k].at THEN R(i) ELSE IF Through(i) THEN R(i) ELSE source[i]]
    BY <1>3, <2>1, <2>2
  <2>5. txn' = [i \in DOMAIN source |-> IF Through(i)' THEN R(i) ELSE source[i]]
    BY <2>3, <2>4
  <2> QED
    BY <1>1, <1>2, <2>1, <2>5 DEF TxnMatch
<1>7. OutputMatch' /\ DropMatch'
  BY <1>1 DEF OutputMatch, DropMatch, Opening, Ended
<1> QED
  BY <1>4, <1>5, <1>6, <1>7 DEF Inv

LEMMA CommitSafe == Inv /\ Commit => Inv'
<1> SUFFICES ASSUME Inv, Commit PROVE Inv'
  OBVIOUS
<1>1. pc = "update" /\ pc' = "vacuum" /\ updates = {} /\ store' = txn
      /\ UNCHANGED <<source, tmp, opened, cells, base>>
  BY DEF Commit, Goto
<1>2. CleanStore' = CleanStore /\ \A k : Text(k)' = Text(k)
  BY <1>1, SourceSame
<1>3. txn = CleanStore
  <2> DEFINE R(i) == Redacted(source[i], Found(source[i]))
  <2>1. txn = [i \in DOMAIN source |-> IF Through(i) THEN R(i) ELSE source[i]]
    BY <1>1 DEF Inv, TxnMatch
  <2>2. ASSUME NEW i \in DOMAIN source PROVE Cleaned(source[i]) = IF Through(i) THEN R(i) ELSE source[i]
    <3>1. CASE Through(i)
      <4>1. PICK k \in DOMAIN cells : cells[k].at = i /\ Found(Text(k)) # {}
        BY <3>1 DEF Through, Affected
      <4>2. Known(source[i]) /\ Found(source[i]) # {}
        BY <4>1 DEF Inv, CellsMatch, Text
      <4> QED
        BY <3>1, <4>2 DEF Cleaned, Known
    <3>2. CASE ~Through(i)
      <4>1. ASSUME Scannable(source[i].col), source[i].class \in {"text", "blob"}, Found(source[i]) # {} PROVE FALSE
        <5>1. source[i].body # << >>
          BY <4>1, EmptySeq DEF Found
        <5>2. PICK k \in DOMAIN cells : cells[k].at = i
          BY <1>1, <4>1, <5>1 DEF Inv, AllCollected, Known
        <5> QED
          BY <1>1, <3>2, <4>1, <5>2 DEF Through, Affected, Text
      <4> QED
        BY <3>2, <4>1 DEF Cleaned
    <3> QED
      BY <3>1, <3>2
  <2> HIDE DEF R
  <2> QED
    BY <2>1, <2>2 DEF CleanStore
<1>4. Typed' /\ CellsMatch'
  BY <1>1, <1>2 DEF Inv, Typed, CellsMatch, Running, Working
<1>5. StoreMatch'
  BY <1>1, <1>2, <1>3 DEF StoreMatch
<1>6. AllCollected' /\ HitsMatch' /\ TxnMatch' /\ OutputMatch' /\ DropMatch'
  BY <1>1 DEF AllCollected, HitsMatch, TxnMatch, OutputMatch, DropMatch, Opening, Ended
<1> QED
  BY <1>4, <1>5, <1>6 DEF Inv

LEMMA PublishSafe == Inv /\ (Vacuum \/ Close \/ ToBytes) => Inv'
<1> SUFFICES ASSUME Inv, Vacuum \/ Close \/ ToBytes PROVE Inv'
  OBVIOUS
<1>1. /\ UNCHANGED <<source, store, opened, cells, base>>
      /\ \/ pc = "vacuum" /\ pc' = "close" /\ slack' = {} /\ tmp' = tmp
         \/ pc = "close" /\ pc' = "read" /\ slack' = slack /\ tmp' = tmp
         \/ pc = "read" /\ pc' = "done" /\ slack' = slack /\ tmp' = "none" /\ output' = [store |-> store, slack |-> slack]
  BY DEF Vacuum, Close, ToBytes, Goto, EndWith, dbVars
<1>2. CleanStore' = CleanStore /\ \A k : Text(k)' = Text(k)
  BY <1>1, SourceSame
<1>3. Typed' /\ CellsMatch'
  BY <1>1, <1>2 DEF Inv, Typed, CellsMatch, Running, Working, Ended
<1>4. StoreMatch' /\ OutputMatch'
  BY <1>1, <1>2 DEF Inv, StoreMatch, OutputMatch
<1>5. AllCollected' /\ HitsMatch' /\ TxnMatch' /\ DropMatch'
  BY <1>1 DEF AllCollected, HitsMatch, TxnMatch, DropMatch, Opening, Ended
<1> QED
  BY <1>3, <1>4, <1>5 DEF Inv

LEMMA StutterSafe == Inv /\ UNCHANGED vars => Inv'
<1> SUFFICES ASSUME Inv, UNCHANGED vars PROVE Inv'
  OBVIOUS
<1>1. UNCHANGED <<source, pc, tmp, store, slack, opened, cells, base, hits, updates, txn, output>>
  BY DEF vars, dbVars
<1>2. /\ SourceHits' = SourceHits /\ Affected' = Affected
      /\ CleanStore' = CleanStore /\ \A k : Text(k)' = Text(k)
  BY <1>1, SourceSame
<1>3. Typed' /\ StoreMatch' /\ CellsMatch' /\ AllCollected'
  BY <1>1, <1>2 DEF Inv, Typed, StoreMatch, CellsMatch, AllCollected
<1>4. HitsMatch' /\ OutputMatch' /\ DropMatch'
  BY <1>1, <1>2 DEF Inv, HitsMatch, OutputMatch, DropMatch
<1>5. TxnMatch'
  <2>1. \A i : Through(i)' <=> Through(i)
    BY <1>1, <1>2 DEF Through
  <2> QED
    BY <1>1, <1>2, <2>1 DEF Inv, TxnMatch
<1> QED
  BY <1>3, <1>4, <1>5 DEF Inv

LEMMA StepSafe == Inv /\ [Next]_vars => Inv'
<1> SUFFICES ASSUME Inv, [Next]_vars PROVE Inv'
  OBVIOUS
<1>1. CASE CopySource \/ Connect
  BY <1>1, CopySafe
<1>2. ASSUME NEW i \in DOMAIN store, CollectCell(i) PROVE Inv'
  BY <1>2, CollectSafe
<1>3. CASE Collected
  BY <1>3, CollectedSafe
<1>4. CASE ScanChunks
  BY <1>4, ScanSafe
<1>5. CASE Begin
  BY <1>5, BeginSafe
<1>6. ASSUME NEW k \in DOMAIN cells, UpdateCell(k) PROVE Inv'
  BY <1>6, UpdateSafe
<1>7. CASE Commit
  BY <1>7, CommitSafe
<1>8. CASE Vacuum \/ Close \/ ToBytes
  BY <1>8, PublishSafe
<1>9. CASE CopyFails \/ OpenFails \/ Misplaced \/ Refused \/ Fails \/ Kill
  BY <1>9, FailingSafe
<1>10. CASE UNCHANGED vars
  BY <1>10, StutterSafe
<1> QED
  BY <1>1, <1>2, <1>3, <1>4, <1>5, <1>6, <1>7, <1>8, <1>9, <1>10 DEF Next, Progress

LEMMA InvHolds == Spec => []Inv
  BY Initially, StepSafe, PTL DEF Spec
-----------------------------------------------------------------------------
(* Every hit belongs to the cell it was found in, and no other: apply's     *)
(* running offsets agree with those of chunks, in whatever order SQLite    *)
(* returned the rows.                                                      *)
THEOREM HitsLocated == Spec => []Located
<1>1. Inv => Located
  <2> SUFFICES ASSUME Inv, pc \in {"apply", "update"},
                      NEW k \in DOMAIN cells, NEW j \in Found(source[cells[k].at])
               PROVE  HitIn(k, j) \in hits /\ Owner(k, HitIn(k, j))
    BY DEF Located
  <2>1. j \in Found(Text(k)) /\ j \in DOMAIN Text(k).body
    BY FoundInDomain DEF Text
  <2>2. HitIn(k, j) \in SourceHits
    BY <2>1, SourceHitFacts
  <2>3. SourceHits \subseteq hits
    BY DEF Inv, HitsMatch
  <2> QED
    BY <2>1, <2>2, <2>3, OwnedByItsCell DEF Inv
<1> QED
  BY <1>1, InvHolds, PTL

(* The copy holds the database as it was read or with every affected cell  *)
(* redacted, whatever fails in the transaction and wherever the process is *)
(* killed.                                                                 *)
THEOREM AtomicUpdate == Spec => []AllOrNothing
<1>1. Inv => AllOrNothing
  BY DEF Inv, StoreMatch, AllOrNothing, CleanStore
<1> QED
  BY <1>1, InvHolds, PTL

(* No freed cell is published. *)
THEOREM FreedCellsPurged == Spec => []Purged
<1>1. Inv => Purged
  BY DEF Inv, OutputMatch, Purged
<1> QED
  BY <1>1, InvHolds, PTL

(* The safe half of CopyRemoved: a scrub that has ended, other than by a    *)
(* kill or before there was a SqliteDb, has removed its copy.              *)
THEOREM CopyDropped == Spec => [](opened /\ pc \in Ended \ {"killed"} => tmp = "none")
<1>1. Inv => (opened /\ pc \in Ended \ {"killed"} => tmp = "none")
  BY DEF Inv, DropMatch
<1> QED
  BY <1>1, InvHolds, PTL
-----------------------------------------------------------------------------
(* What the promise sees of a scrub is its verdict and its result. *)
LEMMA FailureChangesNothing ==
    ASSUME pc \in Running, pc' \in {"failed", "killed"}, source' = source
    PROVE  Promise!Fail
  BY DEF Promise!Fail, Result, Running, Opening, Working

LEMMA CellsAreInvisible ==
    ASSUME pc \in Running, pc' \in Running, source' = source
    PROVE  UNCHANGED Promise!vars
<1>1. pc # "done" /\ pc' # "done"
  BY DEF Running, Opening, Working
<1> QED
  BY <1>1 DEF Promise!vars, Result

(* Without a hit no cell has anything to clean. *)
LEMMA ScanFindsNothing == Inv /\ ScanChunks /\ hits' = {} => Promise!FindNothing
<1> SUFFICES ASSUME Inv, ScanChunks, hits' = {} PROVE Promise!FindNothing
  OBVIOUS
<1>1. pc = "scan" /\ pc' = "clean" /\ source' = source
  BY DEF ScanChunks, EndWith
<1>2. SourceHits = {}
  BY <1>1, OwnHitsOfSource DEF ScanChunks
<1>3. ASSUME NEW i \in DOMAIN source PROVE Cleaned(source[i]) = source[i]
  <2>1. ASSUME Scannable(source[i].col), source[i].class \in {"text", "blob"}, Found(source[i]) # {} PROVE FALSE
    <3>1. source[i].body # << >>
      BY <2>1, EmptySeq DEF Found
    <3>2. PICK k \in DOMAIN cells : cells[k].at = i
      BY <1>1, <2>1, <3>1 DEF Inv, AllCollected, Known
    <3>3. PICK j \in Found(Text(k)) : TRUE
      BY <2>1, <3>2 DEF Text
    <3> QED
      BY <1>2, <3>3, SourceHitFacts
  <2> QED
    BY <2>1 DEF Cleaned
<1>4. Result = source /\ Result' = source
  BY <1>1 DEF Result
<1> QED
  BY <1>1, <1>3, <1>4 DEF Promise!FindNothing, Running, Opening, Working

LEMMA PublicationScrubs == Inv /\ ToBytes => Promise!Scrub
<1> SUFFICES ASSUME Inv, ToBytes PROVE Promise!Scrub
  OBVIOUS
<1>1. pc = "read" /\ pc' = "done" /\ source' = source /\ output' = [store |-> store, slack |-> slack]
  BY DEF ToBytes, EndWith
<1>2. store = CleanStore
  BY <1>1 DEF Inv, StoreMatch
<1>3. Result = source /\ Result' = CleanStore
  BY <1>1, <1>2 DEF Result
<1> QED
  BY <1>1, <1>3 DEF Promise!Scrub, CleanStore, Running, Opening, Working

LEMMA PromiseStep == Inv /\ [Next]_vars => [Promise!Next]_(Promise!vars)
<1> SUFFICES ASSUME Inv, [Next]_vars PROVE Promise!Next \/ UNCHANGED Promise!vars
  OBVIOUS
<1>1. CASE CopySource \/ Connect \/ Collected \/ Begin \/ Commit \/ Vacuum \/ Close
  BY <1>1, CellsAreInvisible
     DEF CopySource, Connect, Collected, Begin, Commit, Vacuum, Close, Goto, Running, Opening, Working
<1>2. ASSUME NEW i, CollectCell(i) \/ UpdateCell(i) PROVE UNCHANGED Promise!vars
  BY <1>2, CellsAreInvisible DEF CollectCell, UpdateCell, Goto, Running, Opening, Working
<1>3. CASE CopyFails \/ OpenFails \/ Misplaced \/ Refused \/ Fails \/ Kill
  BY <1>3, FailureChangesNothing
     DEF CopyFails, OpenFails, Misplaced, Refused, Fails, Kill, EndWith, Goto, Running, Opening, Working, Promise!Next
<1>4. CASE ScanChunks
  <2>1. CASE hits' = {}
    BY <1>4, <2>1, ScanFindsNothing DEF Promise!Next
  <2>2. CASE hits' # {}
    BY <1>4, <2>2, CellsAreInvisible DEF ScanChunks, Running, Working
  <2> QED
    BY <2>1, <2>2
<1>5. CASE ToBytes
  BY <1>5, PublicationScrubs DEF Promise!Next
<1>6. CASE UNCHANGED vars
  BY <1>6 DEF vars, Promise!vars, Result
<1> QED
  BY <1>1, <1>2, <1>3, <1>4, <1>5, <1>6 DEF Next, Progress

(* The scrub of a database implements Memberwise: it ends with every cell   *)
(* it scans cleaned as by itself, or with nothing changed.                 *)
THEOREM CellsCleaned == Spec => ImplementsCellwise
<1>1. Init => Promise!Init
  BY DEF Init, Promise!Init, Result, Running, Opening
<1>2. Inv /\ [Next]_vars => [Promise!Next]_(Promise!vars)
  BY PromiseStep
<1> QED
  BY <1>1, <1>2, InvHolds, PTL DEF Spec, ImplementsCellwise, Promise!Spec
=============================================================================
