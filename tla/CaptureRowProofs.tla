-------------------------- MODULE CaptureRowProofs --------------------------
(***************************************************************************)
(* For every file of a format that is one row of records: the records      *)
(* follow one another without a gap, so that what a walk has passed over   *)
(* is framing or in a chunk, and no chunk shows framing to the engine.     *)
(* For every file of every format: redacting leaves the framing as it was, *)
(* and the framing is found again in the redacted file: the walk through   *)
(* that file takes the same steps to the same records.                     *)
(***************************************************************************)
EXTENDS CaptureProofs, FiniteSetTheorems

(* Where the row starts, the cells of a record's header, and the extent of *)
(* a record: its header, then its body.                                    *)
Start == IF handler = "jfr" THEN 0 ELSE IF handler = "hprof" THEN nul + 2 ELSE PcapHeader
Header == IF handler = "jfr" THEN JfrHeader ELSE IF handler = "hprof" THEN HprofHeader ELSE RecordHeader
Low(r) == IF handler = "jfr" THEN r.offset ELSE r.offset - Header
Mid(r) == Low(r) + Header
High(r) == r.offset + r.len

Row ==
    /\ Start \in Nat /\ Start <= cursor
    /\ \A i \in DOMAIN recs : Start <= Low(recs[i]) /\ Mid(recs[i]) <= High(recs[i]) /\ High(recs[i]) <= cursor
    /\ \A i, j \in DOMAIN recs : i < j => High(recs[i]) <= Low(recs[j])
    /\ \A k \in Within(Start, cursor) : \E i \in DOMAIN recs : k \in Within(Low(recs[i]), High(recs[i]))
    /\ handler = "jfr" => cursor <= len

RowMatch ==
    InOneRow /\ ~wrapped =>
        /\ phase \in {"walk", "opened"} => Row
        /\ phase = "opened" /\ handler = "jfr" => cursor = len
        /\ phase = "scanned" => apart
-----------------------------------------------------------------------------
(* A header is a few cells, and an extent is of integers. *)
LEMMA HeaderNat ==
    /\ Header \in Nat /\ Header > 0
    /\ handler = "jfr" => Header = JfrHeader
    /\ handler = "hprof" => Header = HprofHeader
    /\ handler = "pcap" => Header = RecordHeader
<1>1. /\ JfrHeader \in Nat /\ JfrHeader > 0 /\ HprofHeader \in Nat /\ HprofHeader > 0
      /\ RecordHeader \in Nat /\ RecordHeader > 0
  BY JfrAssumption, HprofAssumption, PcapAssumption, WidthAssumption, SMT
<1> QED
  BY <1>1 DEF Header

LEMMA ExtentInt ==
    ASSUME NEW r \in Rec
    PROVE  Low(r) \in Int /\ Mid(r) \in Int /\ High(r) \in Int /\ Mid(r) = Low(r) + Header
<1>1. r.offset \in Nat /\ r.len \in Nat
  BY DEF Rec
<1>2. Low(r) \in Int
  BY <1>1, HeaderNat, SMT DEF Low
<1> QED
  BY <1>1, <1>2, HeaderNat, SMT DEF Mid, High

(* One more record behind the others. *)
LEMMA RowGrows ==
    ASSUME Inv, Row, NEW r \in Rec, recs' = Append(recs, r), UNCHANGED <<handler, bytes>>,
           Low(r) = cursor, Mid(r) <= High(r), cursor' = High(r), handler = "jfr" => High(r) <= len
    PROVE  Row'
<1>0. Typed /\ cursor \in Nat /\ recs \in Seq(Rec)
  BY DEF Inv, Typed
<1>1. /\ Start' = Start /\ len' = len
      /\ \A s : Low(s)' = Low(s) /\ Mid(s)' = Mid(s) /\ High(s)' = High(s)
  BY IdKept DEF Start, Low, Mid, High, Header, len
<1>2. Start \in Nat /\ Low(r) \in Int /\ High(r) \in Int /\ cursor' \in Int /\ cursor <= cursor' /\ Start <= cursor
  <2>1. Mid(r) = Low(r) + Header /\ Header \in Nat /\ Low(r) \in Int /\ Mid(r) \in Int /\ High(r) \in Int
    BY HeaderNat, ExtentInt
  <2>2. cursor <= cursor'
    BY <1>0, <2>1, SMT
  <2> QED
    BY <1>0, <2>1, <2>2 DEF Row
<1>3. PICK n \in Nat : n = Len(recs)
  BY <1>0, LenProperties
<1>4. DOMAIN recs = 1 .. n
  BY <1>0, <1>3, LenProperties
<1>5. /\ DOMAIN recs' = 1 .. n + 1
      /\ \A i \in 1 .. n : recs'[i] = recs[i]
      /\ recs'[n + 1] = r
  <2>1. /\ Append(recs, r) \in Seq(Rec)
        /\ Len(Append(recs, r)) = n + 1
        /\ \A i \in 1 .. n : Append(recs, r)[i] = recs[i]
        /\ Append(recs, r)[n + 1] = r
    BY <1>0, <1>3, AppendProperties
  <2>2. DOMAIN Append(recs, r) = 1 .. n + 1
    BY <2>1, LenProperties
  <2> QED
    BY <2>1, <2>2
<1>6. \A i \in 1 .. n : /\ Low(recs[i]) \in Int /\ Mid(recs[i]) \in Int /\ High(recs[i]) \in Int
                        /\ Start <= Low(recs[i]) /\ Mid(recs[i]) <= High(recs[i]) /\ High(recs[i]) <= cursor
  <2>1. \A i \in 1 .. n : recs[i] \in Rec
    BY <1>0, <1>4, RecFacts
  <2> QED
    BY <1>4, <2>1, ExtentInt DEF Row
<1>7. \A i \in 1 .. n + 1 : i \in 1 .. n \/ i = n + 1
  BY SMT
<1>8. ASSUME NEW i \in 1 .. n + 1
      PROVE  Start <= Low(recs'[i]) /\ Mid(recs'[i]) <= High(recs'[i]) /\ High(recs'[i]) <= cursor'
  <2>1. CASE i \in 1 .. n
    <3>1. High(recs[i]) <= cursor'
      BY <1>0, <1>2, <1>6, <2>1, SMT
    <3> QED
      BY <1>5, <1>6, <2>1, <3>1
  <2>2. CASE i = n + 1
    BY <1>2, <1>5, <2>2, SMT
  <2> QED
    BY <1>7, <2>1, <2>2
<1>9. ASSUME NEW i \in 1 .. n + 1, NEW j \in 1 .. n + 1, i < j
      PROVE  High(recs'[i]) <= Low(recs'[j])
  <2>1. i \in 1 .. n
    BY <1>9, SMT
  <2>2. CASE j \in 1 .. n
    BY <1>4, <1>5, <1>9, <2>1, <2>2 DEF Row
  <2>3. CASE j = n + 1
    BY <1>5, <1>6, <2>1, <2>3
  <2> QED
    BY <1>7, <2>2, <2>3
<1>10. ASSUME NEW k \in Within(Start, cursor')
       PROVE  \E i \in 1 .. n + 1 : k \in Within(Low(recs'[i]), High(recs'[i]))
  <2>1. k \in Within(Start, cursor) \/ k \in Within(cursor, cursor')
    BY <1>0, <1>2, SMT DEF Within
  <2>2. CASE k \in Within(Start, cursor)
    <3>1. PICK i \in 1 .. n : k \in Within(Low(recs[i]), High(recs[i]))
      BY <1>4, <2>2 DEF Row
    <3>2. i \in 1 .. n + 1
      BY SMT
    <3> QED
      BY <1>5, <3>1, <3>2
  <2>3. CASE k \in Within(cursor, cursor')
    <3>1. n + 1 \in 1 .. n + 1
      BY SMT
    <3> QED
      BY <1>5, <2>3, <3>1
  <2> QED
    BY <2>1, <2>2, <2>3
<1>11. Start <= cursor'
  BY <1>0, <1>2, SMT
<1> QED
  BY <1>1, <1>2, <1>5, <1>8, <1>9, <1>10, <1>11 DEF Row, Within

(* A row that is not touched stays one. *)
LEMMA RowStays ==
    ASSUME Row, UNCHANGED <<handler, bytes, cursor, recs>>
    PROVE  Row'
<1>1. /\ Start' = Start /\ len' = len
      /\ \A s : Low(s)' = Low(s) /\ Mid(s)' = Mid(s) /\ High(s)' = High(s)
  BY IdKept DEF Start, Low, Mid, High, Header, len
<1> QED
  BY <1>1 DEF Row, Within

(* Nothing collected, nothing passed over. *)
LEMMA RowStarts ==
    ASSUME recs' = <<>>, Start' \in Nat, cursor' = Start', handler' = "jfr" => cursor' <= len'
    PROVE  Row'
<1>1. DOMAIN recs' = {}
  OBVIOUS
<1>2. PICK s \in Nat : s = Start'
  OBVIOUS
<1>3. s .. s - 1 = {} /\ s <= s
  BY SMT
<1>4. Within(Start, cursor)' = {}
  BY <1>2, <1>3 DEF Within
<1> QED
  BY <1>1, <1>2, <1>3, <1>4 DEF Row
-----------------------------------------------------------------------------
(* A step of a walk through a row. *)
LEMMA WalkMatches ==
    ASSUME Inv, RowMatch, phase = "walk", phase' \in {"walk", "opened"},
           UNCHANGED <<handler, bytes>>, wrapped => wrapped',
           InOneRow /\ ~wrapped' /\ Row => Row',
           phase' = "opened" /\ handler = "jfr" /\ ~wrapped' /\ Row => cursor' = len
    PROVE  RowMatch'
<1>1. InOneRow' <=> InOneRow
  BY DEF InOneRow, Classic, at
<1>2. len' = len
  BY DEF len
<1>3. InOneRow /\ ~wrapped' => Row
  BY DEF RowMatch
<1> QED
  BY <1>1, <1>2, <1>3 DEF RowMatch, InOneRow

LEMMA JfrRow ==
    ASSUME Inv, RowMatch, JfrNext, UNCHANGED <<ext, member, capture>>
    PROVE  RowMatch'
<1>0. Typed /\ cursor \in Nat /\ len \in Nat
  BY CellFacts DEF Inv, Typed
<1>1. CASE JfrOpen
  <2>1. CASE phase' = "error"
    BY <2>1 DEF RowMatch
  <2>2. CASE phase' # "error"
    <3>1. /\ phase = "open" /\ phase' = "walk" /\ handler = "jfr" /\ handler' = "jfr"
          /\ UNCHANGED <<bytes, cursor, recs>>
      BY <1>1, <2>2 DEF JfrOpen, Fail
    <3>2. recs' = <<>> /\ cursor' = 0
      BY <3>1 DEF Inv, OpenMatch
    <3>3. Start' = 0 /\ 0 <= len' /\ 0 \in Nat
      <4>1. 0 <= len /\ 0 \in Nat
        BY <1>0, SMT
      <4> QED
        BY <3>1, <4>1 DEF Start, len
    <3>4. Row'
      BY <3>1, <3>2, <3>3, RowStarts
    <3> QED
      BY <3>1, <3>4 DEF RowMatch
  <2> QED
    BY <2>1, <2>2
<1>2. CASE JfrChunk
  <2> DEFINE r == [offset |-> cursor, len |-> chunk_size]
  <2>1. /\ handler = "jfr" /\ phase = "walk" /\ cursor + JfrHeader <= len
        /\ chunk_size >= JfrHeader /\ add(cursor, chunk_size) <= len
        /\ recs' = Append(recs, r)
        /\ cursor' = add(cursor, chunk_size)
        /\ wrapped' = (wrapped \/ Overflows(cursor, chunk_size))
        /\ UNCHANGED <<handler, bytes, phase, limit, entry>>
    BY <1>2 DEF JfrChunk, JfrWalking, JfrChunkValid
  <2>2. JfrHeader \in Nat /\ JfrHeader >= 2
    BY JfrAssumption, WidthAssumption, SMT
  <2>3. chunk_size \in Nat
    <3>1. cursor + 1 \in 0 .. len - 1
      BY <1>0, <2>1, <2>2, SMT
    <3> QED
      BY <1>0, <3>1, CellFacts DEF chunk_size
  <2>4. r \in Rec /\ Low(r) = cursor /\ Mid(r) = cursor + JfrHeader /\ High(r) = cursor + chunk_size
    BY <1>0, <2>1, <2>3 DEF Rec, Low, Mid, High, Header
  <2>5. cursor + JfrHeader <= cursor + chunk_size
    BY <1>0, <2>1, <2>2, <2>3, SMT
  <2>6. ASSUME ~wrapped', Row PROVE Row'
    <3>1. add(cursor, chunk_size) = cursor + chunk_size
      BY <1>0, <2>1, <2>3, <2>6, AddFacts
    <3> HIDE DEF r
    <3> QED
      BY <2>1, <2>4, <2>5, <2>6, <3>1, RowGrows
  <2> QED
    BY <2>1, <2>6, WalkMatches
<1>3. CASE JfrInvalid
  BY <1>3 DEF JfrInvalid, Fail, RowMatch
<1>4. CASE JfrEnd
  <2>1. /\ handler = "jfr" /\ phase = "walk" /\ phase' = "opened" /\ cursor >= len
        /\ UNCHANGED <<handler, bytes, cursor, recs, wrapped>>
    BY <1>4 DEF JfrEnd
  <2>2. Row => cursor = len
    BY <1>0, <2>1, SMT DEF Row
  <2> QED
    BY <2>1, <2>2, RowStays, WalkMatches
<1> QED
  BY <1>1, <1>2, <1>3, <1>4 DEF JfrNext

LEMMA HprofRow ==
    ASSUME Inv, RowMatch, HprofNext, UNCHANGED <<ext, member, capture>>
    PROVE  RowMatch'
<1>0. Typed /\ cursor \in Nat /\ len \in Nat
  BY CellFacts DEF Inv, Typed
<1>1. CASE HprofOpen
  <2>1. CASE ~HprofOpenable
    BY <1>1, <2>1 DEF HprofOpen, Fail, RowMatch
  <2>2. CASE HprofOpenable
    <3>1. /\ phase = "open" /\ phase' = "walk" /\ handler = "hprof" /\ handler' = "hprof"
          /\ UNCHANGED <<bytes, recs>> /\ cursor' = nul + 2
      BY <1>1, <2>2 DEF HprofOpen
    <3>2. nul + 2 \in Nat
      <4>1. PICK n \in Positions : IsNul(n)
        BY <2>2 DEF HprofOpenable
      <4>2. nul \in Positions
        BY <4>1 DEF nul
      <4> QED
        BY <1>0, <4>2, SMT DEF Positions
    <3>3. recs' = <<>>
      BY <3>1 DEF Inv, OpenMatch
    <3>4. Start' = nul + 2
      BY <3>1, IdKept DEF Start
    <3>5. Row'
      BY <3>1, <3>2, <3>3, <3>4, RowStarts
    <3> QED
      BY <3>1, <3>5 DEF RowMatch
  <2> QED
    BY <2>1, <2>2
<1>2. CASE HprofRecord
  <2> DEFINE r == [offset |-> body_offset, len |-> at(cursor + 1), tag |-> tag]
  <2>1. /\ handler = "hprof" /\ phase = "walk" /\ cursor + HprofHeader <= len /\ body_end <= len
        /\ recs' = Append(recs, r)
        /\ cursor' = body_end
        /\ UNCHANGED <<handler, bytes, phase, limit, entry, wrapped>>
    BY <1>2 DEF HprofRecord, HprofWalking
  <2>2. HprofHeader \in Nat /\ HprofHeader >= 2
    BY HprofAssumption, WidthAssumption, SMT
  <2>3. at(cursor + 1) \in Nat /\ tag \in Cell
    <3>1. cursor \in 0 .. len - 1 /\ cursor + 1 \in 0 .. len - 1
      BY <1>0, <2>1, <2>2, SMT
    <3> QED
      BY <1>0, <3>1, CellFacts DEF tag
  <2>4. body_offset \in Nat /\ body_offset - HprofHeader = cursor /\ cursor + HprofHeader = body_offset
    BY <1>0, <2>2, SMT DEF body_offset
  <2>5. r \in Rec
    BY <2>3, <2>4 DEF Rec
  <2>6. Low(r) = cursor /\ Mid(r) = body_offset /\ High(r) = body_end
    BY <2>1, <2>4 DEF Low, Mid, High, Header, body_end
  <2>7. body_offset <= body_end
    BY <2>3, <2>4, SMT DEF body_end
  <2>8. handler # "jfr"
    BY <2>1
  <2> HIDE DEF r
  <2>9. Row => Row'
    BY <2>1, <2>5, <2>6, <2>7, <2>8, RowGrows
  <2> QED
    BY <2>1, <2>9, WalkMatches
<1>3. CASE HprofPastEnd
  BY <1>3 DEF HprofPastEnd, Fail, RowMatch
<1>4. CASE HprofEnd
  BY <1>4, RowStays, WalkMatches DEF HprofEnd
<1> QED
  BY <1>1, <1>2, <1>3, <1>4 DEF HprofNext

LEMMA PcapRow ==
    ASSUME Inv, RowMatch, PcapNext, UNCHANGED <<ext, member, capture>>
    PROVE  RowMatch'
<1>0. Typed /\ cursor \in Nat /\ len \in Nat
  BY CellFacts DEF Inv, Typed
<1>1. CASE PcapOpen
  <2>1. CASE ~PcapOpenable
    BY <1>1, <2>1 DEF PcapOpen, Fail, RowMatch
  <2>2. CASE PcapOpenable
    <3>1. /\ phase = "open" /\ phase' = "walk" /\ handler = "pcap" /\ handler' = "pcap"
          /\ UNCHANGED <<bytes, recs>> /\ cursor' = IF Classic THEN PcapHeader ELSE 0
      BY <1>1, <2>2 DEF PcapOpen
    <3>2. recs' = <<>>
      BY <3>1 DEF Inv, OpenMatch
    <3>3. Start' = PcapHeader /\ PcapHeader \in Nat
      BY <3>1, PcapAssumption, WidthAssumption, SMT DEF Start
    <3>4. Classic => Row'
      BY <3>1, <3>2, <3>3, RowStarts
    <3>5. InOneRow' => Classic
      BY <3>1 DEF InOneRow, Classic, at
    <3> QED
      BY <3>1, <3>4, <3>5 DEF RowMatch
  <2> QED
    BY <2>1, <2>2
<1>2. CASE ClassicRecord
  <2> DEFINE r == [offset |-> payload_off, len |-> captured]
  <2>1. /\ handler = "pcap" /\ phase = "walk" /\ payload_off <= len /\ payload_off + captured <= len
        /\ recs' = Append(recs, r)
        /\ cursor' = payload_off + captured
        /\ UNCHANGED <<handler, bytes, phase, limit, entry, wrapped>>
    BY <1>2 DEF ClassicRecord, PcapWalking, RecordFits, Keep
  <2>2. /\ RecordHeader \in Nat /\ payload_off \in Nat /\ payload_off - 1 \in 0 .. len - 1
        /\ payload_off - RecordHeader = cursor /\ cursor + RecordHeader = payload_off
    BY <1>0, <2>1, PcapAssumption, WidthAssumption, SMT DEF payload_off
  <2>3. captured \in Nat
    BY <1>0, <2>2, CellFacts DEF captured
  <2>4. r \in Rec
    BY <2>2, <2>3 DEF Rec
  <2>5. Low(r) = cursor /\ Mid(r) = payload_off /\ High(r) = payload_off + captured
    BY <2>1, <2>2 DEF Low, Mid, High, Header
  <2>6. payload_off <= payload_off + captured
    BY <2>2, <2>3, SMT
  <2>7. handler # "jfr"
    BY <2>1
  <2> HIDE DEF r
  <2>8. Row => Row'
    BY <2>1, <2>4, <2>5, <2>6, <2>7, RowGrows
  <2> QED
    BY <2>1, <2>8, WalkMatches
<1>3. CASE ClassicEnd
  BY <1>3, RowStays, WalkMatches DEF ClassicEnd, PcapWalking, Stop
<1>4. CASE PacketBlock \/ OtherBlock \/ BlocksEnd
  <2>1. handler' = "pcap" /\ ~Classic /\ bytes' = bytes
    BY <1>4 DEF PacketBlock, OtherBlock, BlocksEnd, Stop, PcapWalking
  <2>2. ~InOneRow'
    BY <2>1 DEF InOneRow, Classic, at
  <2> QED
    BY <2>2 DEF RowMatch
<1> QED
  BY <1>1, <1>2, <1>3, <1>4 DEF PcapNext
-----------------------------------------------------------------------------
(* What a chunk shows is the body of one record of the row. *)
LEMMA ChunkInBody ==
    ASSUME Inv, InOneRow, ~wrapped, phase = "opened", NEW c \in Chunks
    PROVE  \E i \in DOMAIN recs : Mid(recs[i]) <= c.from /\ c.to <= High(recs[i])
<1>0. Typed /\ len \in Nat
  BY CellFacts DEF Inv, Typed
<1>1. \A i \in DOMAIN recs : recs[i] \in Rec /\ recs[i].offset \in Nat /\ recs[i].len \in Nat
  BY <1>0, RecFacts
<1>2. \A i \in DOMAIN recs : Mid(recs[i]) = IF handler = "jfr" THEN recs[i].offset + JfrHeader ELSE recs[i].offset
  <2> SUFFICES ASSUME NEW i \in DOMAIN recs
               PROVE  Mid(recs[i]) = IF handler = "jfr" THEN recs[i].offset + JfrHeader ELSE recs[i].offset
    OBVIOUS
  <2>1. recs[i].offset \in Nat /\ Header \in Nat
    BY <1>1, HeaderNat
  <2>2. CASE handler = "jfr"
    BY <2>2, HeaderNat DEF Mid, Low
  <2>3. CASE handler # "jfr"
    <3>1. recs[i].offset - Header + Header = recs[i].offset
      BY <2>1, SMT
    <3> QED
      BY <2>3, <3>1 DEF Mid, Low
  <2> QED
    BY <2>2, <2>3
<1>3. CASE handler = "jfr"
  <2>1. c \in JfrChunks
    BY <1>3, ChunksOf
  <2>2. PICK i \in DOMAIN recs : c = JfrBody(recs[i]) /\ c.from < c.to
    BY <2>1 DEF JfrChunks
  <2>3. c.from = recs[i].offset + JfrHeader /\ c.to = add(recs[i].offset, recs[i].len)
    BY <2>2 DEF JfrBody
  <2>4. c.from = Mid(recs[i])
    BY <1>2, <1>3, <2>3
  <2>5. add(recs[i].offset, recs[i].len) <= High(recs[i])
    <3>1. PICK o \in Nat, n \in Nat : o = recs[i].offset /\ n = recs[i].len
      BY <1>1
    <3>2. add(o, n) \in Cell /\ (~Overflows(o, n) => add(o, n) = o + n)
      BY AddFacts
    <3>3. PICK s \in Cell : s = add(o, n)
      BY <3>2
    <3>4. Overflows(o, n) => s <= o + n
      BY <3>3, WidthAssumption, SMT DEF Overflows, Cell
    <3>5. ~Overflows(o, n) => s <= o + n
      BY <3>2, <3>3, WidthAssumption, SMT DEF Cell
    <3> QED
      BY <3>1, <3>3, <3>4, <3>5 DEF High
  <2>6. Mid(recs[i]) <= c.from
    BY <1>1, <2>4, ExtentInt, SMT
  <2> QED
    BY <2>3, <2>5, <2>6
<1>4. CASE handler = "hprof"
  <2>1. c \in HprofChunks
    BY <1>4, ChunksOf
  <2>2. id_size \in Nat
    BY <1>4 DEF Inv, OpenMatch, Walked
  <2>3. PICK i \in DOMAIN recs :
          \/ c = [from |-> recs[i].offset, to |-> recs[i].offset + recs[i].len]
          \/ c = [from |-> recs[i].offset + id_size, to |-> recs[i].offset + recs[i].len]
    BY <2>1 DEF HprofChunks
  <2>4. Mid(recs[i]) = recs[i].offset
    BY <1>2, <1>4
  <2>5. c.to = High(recs[i]) /\ c.from \in {recs[i].offset, recs[i].offset + id_size}
    BY <2>3 DEF High
  <2>6. recs[i].offset <= c.from /\ High(recs[i]) <= High(recs[i])
    BY <1>1, <2>2, <2>5, ExtentInt, SMT
  <2> QED
    BY <2>4, <2>5, <2>6
<1>5. CASE handler = "pcap"
  <2>1. c \in PcapChunks
    BY <1>5, ChunksOf
  <2>2. PICK i \in DOMAIN recs : c = [from |-> recs[i].offset, to |-> recs[i].offset + recs[i].len]
    BY <2>1 DEF PcapChunks
  <2>3. Mid(recs[i]) = recs[i].offset
    BY <1>2, <1>5
  <2>4. c.to = High(recs[i]) /\ c.from = recs[i].offset
    BY <2>2 DEF High
  <2>5. recs[i].offset <= recs[i].offset /\ High(recs[i]) <= High(recs[i])
    BY <1>1, ExtentInt, SMT
  <2> QED
    BY <2>3, <2>4, <2>5
<1> QED
  BY <1>3, <1>4, <1>5 DEF InOneRow

(* Each handler's framing is its own. *)
LEMMA FramingOf ==
    /\ handler = "jfr" => Framing = JfrFraming
    /\ handler = "hprof" => Framing = HprofFraming
    /\ handler = "pcap" => Framing = PcapFraming
  BY DEF Framing, fallback

(* The framing of a row: what is in front of it and the records' headers. *)
LEMMA RowFraming ==
    ASSUME Inv, InOneRow
    PROVE  Framing = Within(0, Start) \cup UNION {Within(Low(recs[i]), Mid(recs[i])) : i \in DOMAIN recs}
<1>0. Typed
  BY DEF Inv
<1>1. \A i \in DOMAIN recs : recs[i].offset \in Nat
  BY <1>0, RecFacts
<1>2. CASE handler = "jfr"
  <2>1. Framing = JfrFraming
    BY <1>2, FramingOf
  <2>2. Within(0, Start) = {}
    <3>1. 0 .. 0 - 1 = {}
      BY SMT
    <3> QED
      BY <1>2, <3>1 DEF Start, Within
  <2>3. \A i \in DOMAIN recs : Within(recs[i].offset, recs[i].offset + JfrHeader) = Within(Low(recs[i]), Mid(recs[i]))
    BY <1>2, HeaderNat DEF Low, Mid
  <2> QED
    BY <2>1, <2>2, <2>3 DEF JfrFraming
<1>3. ASSUME NEW i \in DOMAIN recs, handler \in {"hprof", "pcap"}
      PROVE  Within(recs[i].offset - Header, recs[i].offset) = Within(Low(recs[i]), Mid(recs[i]))
  <2>1. recs[i].offset \in Nat /\ Header \in Nat
    BY <1>1, HeaderNat
  <2>2. recs[i].offset - Header + Header = recs[i].offset
    BY <2>1, SMT
  <2> QED
    BY <1>3, <2>2 DEF Low, Mid
<1>4. CASE handler = "hprof"
  <2>1. Framing = HprofFraming
    BY <1>4, FramingOf
  <2>2. Start = nul + 2 /\ Header = HprofHeader
    BY <1>4 DEF Start, Header
  <2> QED
    BY <1>3, <1>4, <2>1, <2>2 DEF HprofFraming
<1>5. CASE handler = "pcap"
  <2>1. Framing = PcapFraming /\ Classic
    BY <1>5, FramingOf DEF InOneRow
  <2>2. Start = PcapHeader /\ Header = RecordHeader
    BY <1>5 DEF Start, Header
  <2> QED
    BY <1>3, <1>5, <2>1, <2>2 DEF PcapFraming
<1> QED
  BY <1>2, <1>4, <1>5 DEF InOneRow

LEMMA RowApart ==
    ASSUME Inv, Row, InOneRow, ~wrapped, phase = "opened"
    PROVE  Covered \cap Framing = {}
<1>0. Typed
  BY DEF Inv
<1> SUFFICES ASSUME NEW k \in Covered, k \in Framing PROVE FALSE
  OBVIOUS
<1>1. PICK c \in Chunks : k \in Within(c.from, c.to)
  BY DEF Covered
<1>2. PICK i \in DOMAIN recs : Mid(recs[i]) <= c.from /\ c.to <= High(recs[i])
  BY ChunkInBody
<1>3. c.from \in Nat /\ c.to \in Nat
  BY ChunkFacts
<1>4. \A j \in DOMAIN recs : j \in Nat /\ recs[j] \in Rec
  BY <1>0, RecFacts, LenProperties DEF Typed
<1>5. \A j \in DOMAIN recs : /\ Low(recs[j]) \in Int /\ Mid(recs[j]) \in Int /\ High(recs[j]) \in Int
                             /\ Low(recs[j]) <= Mid(recs[j])
  <2> SUFFICES ASSUME NEW j \in DOMAIN recs
               PROVE  /\ Low(recs[j]) \in Int /\ Mid(recs[j]) \in Int /\ High(recs[j]) \in Int
                      /\ Low(recs[j]) <= Mid(recs[j])
    OBVIOUS
  <2>1. /\ Low(recs[j]) \in Int /\ Mid(recs[j]) \in Int /\ High(recs[j]) \in Int
        /\ Mid(recs[j]) = Low(recs[j]) + Header /\ Header \in Nat
    BY <1>4, ExtentInt, HeaderNat
  <2> QED
    BY <2>1, SMT
<1>6. k \in Int /\ Mid(recs[i]) <= k /\ k < High(recs[i])
  BY <1>1, <1>2, <1>3, <1>5, SMT DEF Within
<1>7. k \in Within(0, Start) \/ \E j \in DOMAIN recs : k \in Within(Low(recs[j]), Mid(recs[j]))
  BY RowFraming
<1>8. ASSUME k \in Within(0, Start) PROVE FALSE
  <2>1. Start \in Nat /\ Start <= Low(recs[i])
    BY DEF Row
  <2> QED
    BY <1>5, <1>6, <1>8, <2>1, SMT DEF Within
<1>9. ASSUME NEW j \in DOMAIN recs, k \in Within(Low(recs[j]), Mid(recs[j])) PROVE FALSE
  <2>1. Low(recs[j]) <= k /\ k < Mid(recs[j])
    BY <1>5, <1>9, SMT DEF Within
  <2>2. CASE i = j
    BY <1>5, <1>6, <2>1, <2>2, SMT
  <2>3. CASE i < j
    <3>1. High(recs[i]) <= Low(recs[j])
      BY <2>3 DEF Row
    <3> QED
      BY <1>5, <1>6, <2>1, <3>1, SMT
  <2>4. CASE j < i
    <3>1. High(recs[j]) <= Low(recs[i]) /\ Mid(recs[j]) <= High(recs[j])
      BY <2>4 DEF Row
    <3> QED
      BY <1>5, <1>6, <2>1, <3>1, SMT
  <2> QED
    BY <1>4, <2>2, <2>3, <2>4, SMT
<1> QED
  BY <1>7, <1>8, <1>9

LEMMA RowCovered ==
    ASSUME Inv, RowMatch, phase = "opened", InOneRow, ~wrapped
    PROVE  Within(0, IF handler = "jfr" THEN len ELSE cursor) \subseteq Framing \cup Covered
<1>0. Typed /\ Row /\ cursor \in Nat /\ len \in Nat
  BY CellFacts DEF RowMatch, Inv, Typed
<1>1. (IF handler = "jfr" THEN len ELSE cursor) = cursor
  BY DEF RowMatch
<1> SUFFICES ASSUME NEW k \in Within(0, cursor), k \notin Framing PROVE k \in Covered
  BY <1>1
<1>2. k \in Nat
  BY <1>0, SMT DEF Within
<1>3. k \in Within(Start, cursor)
  <2>1. k \notin Within(0, Start)
    BY RowFraming
  <2> QED
    BY <1>0, <2>1, SMT DEF Within, Row
<1>4. PICK i \in DOMAIN recs : k \in Within(Low(recs[i]), High(recs[i]))
  BY <1>0, <1>3 DEF Row
<1>5. recs[i] \in Rec /\ recs[i].offset \in Nat /\ recs[i].len \in Nat
  BY <1>0, RecFacts
<1>6. Low(recs[i]) \in Int /\ Mid(recs[i]) \in Int /\ High(recs[i]) \in Int
  BY <1>5, ExtentInt
<1>7. k \in Within(Mid(recs[i]), High(recs[i]))
  <2>1. k \notin Within(Low(recs[i]), Mid(recs[i]))
    BY RowFraming
  <2> QED
    BY <1>2, <1>4, <1>6, <2>1, SMT DEF Within
<1>8. Mid(recs[i]) <= k /\ k < High(recs[i]) /\ Mid(recs[i]) < High(recs[i])
  BY <1>2, <1>6, <1>7, SMT DEF Within
<1>9. CASE handler = "jfr"
  <2>1. Mid(recs[i]) = JfrBody(recs[i]).from
    BY <1>9, HeaderNat DEF Mid, Low, JfrBody
  <2>2. High(recs[i]) <= cursor /\ cursor <= len
    BY <1>0, <1>9 DEF Row
  <2>3. JfrBody(recs[i]).to = High(recs[i])
    <3>1. PICK o \in Nat, n \in Nat : o = recs[i].offset /\ n = recs[i].len
      BY <1>5
    <3>2. o + n <= len
      BY <1>0, <1>6, <2>2, <3>1, SMT DEF High
    <3>3. ~Overflows(o, n)
      <4>1. U64Max \in Nat /\ len <= U64Max
        BY <1>0, CellFacts, SMT
      <4> QED
        BY <1>0, <3>2, <4>1, SMT DEF Overflows
    <3>4. add(o, n) = o + n
      BY <3>3, AddFacts
    <3> QED
      BY <3>1, <3>4 DEF JfrBody, High
  <2>4. JfrBody(recs[i]).to <= len
    BY <1>0, <1>6, <2>2, <2>3, SMT
  <2>5. JfrBody(recs[i]) \in Chunks
    <3>1. JfrBody(recs[i]) \in JfrChunks
      BY <1>8, <2>1, <2>3, <2>4 DEF JfrChunks
    <3> QED
      BY <1>9, <3>1, ChunksOf
  <2> QED
    BY <1>7, <2>1, <2>3, <2>5 DEF Covered
<1>10. CASE handler # "jfr"
  <2> DEFINE c == [from |-> recs[i].offset, to |-> recs[i].offset + recs[i].len]
  <2>1. Mid(recs[i]) = recs[i].offset
    <3>1. Header \in Nat
      BY HeaderNat
    <3>2. recs[i].offset - Header + Header = recs[i].offset
      BY <1>5, <3>1, SMT
    <3> QED
      BY <1>10, <3>2 DEF Mid, Low
  <2>2. recs[i].len > 0
    BY <1>5, <1>8, <2>1, SMT DEF High
  <2>3. c \in Chunks
    <3>1. CASE handler = "hprof"
      <4>1. c \in HprofChunks
        BY <2>2 DEF HprofChunks
      <4> QED
        BY <3>1, <4>1, ChunksOf
    <3>2. CASE handler = "pcap"
      <4>1. c \in PcapChunks
        BY <2>2 DEF PcapChunks
      <4> QED
        BY <3>2, <4>1, ChunksOf
    <3> QED
      BY <1>10, <3>1, <3>2 DEF InOneRow
  <2>4. k \in Within(c.from, c.to)
    BY <1>7, <2>1 DEF High
  <2> QED
    BY <2>3, <2>4 DEF Covered
<1> QED
  BY <1>9, <1>10
-----------------------------------------------------------------------------
LEMMA RowInit == Init => RowMatch
  BY DEF Init, RowMatch

LEMMA RowStep == Inv /\ RowMatch /\ [Next]_allvars => RowMatch'
<1> SUFFICES ASSUME Inv, RowMatch, [Next]_allvars PROVE RowMatch'
  OBVIOUS
<1>1. CASE Dispatching
  <2>1. phase' \in {"open", "elsewhere", "error"}
    BY <1>1 DEF Dispatching, Route, RouteTo, OpenWith, Fail
  <2> QED
    BY <2>1 DEF RowMatch
<1>2. CASE Opening
  <2>1. UNCHANGED <<ext, member, capture>>
    BY <1>2 DEF Opening
  <2>2. CASE PerfNext \/ CoreNext \/ PassthroughOpen
    <3>1. handler' \in {"perf", "elf-core", fallback}
      BY <2>2 DEF PerfNext, PerfOpen, PerfNoFeature, PerfFeature, PerfPastEnd, PerfEnd, PerfWalking,
                  CoreNext, CoreOpen, PhdrWrapped, PhdrPastEnd, PhdrLoad, PhdrNote, PhdrOther, CoreEnd,
                  NoteWrapped, NotePastEnd, Note, NotesEnd, CoreWalking, InNotes, PassthroughOpen
    <3> QED
      BY <3>1 DEF RowMatch, InOneRow, fallback
  <2> QED
    BY <1>2, <2>1, <2>2, JfrRow, HprofRow, PcapRow DEF Opening
<1>3. CASE ChunksPanic
  BY <1>3 DEF ChunksPanic, Panic, RowMatch
<1>4. CASE ScanOwn \/ ScanStray
  <2>1. /\ phase = "opened" /\ phase' \in {"clean", "scanned"} /\ apart' = (Covered \cap Framing = {})
        /\ UNCHANGED <<handler, bytes, wrapped>>
    BY <1>4 DEF ScanOwn, ScanStray, ScanWith, Scannable
  <2>2. InOneRow' <=> InOneRow
    BY <2>1 DEF InOneRow, Classic, at
  <2>3. InOneRow /\ ~wrapped => apart'
    BY <2>1, RowApart DEF RowMatch
  <2> QED
    BY <2>1, <2>2, <2>3 DEF RowMatch
<1>5. CASE Guard
  BY <1>5 DEF Guard, RowMatch
<1>6. CASE EditHit
  BY <1>6 DEF EditHit, RowMatch
<1>7. CASE EditEnd
  BY <1>7 DEF EditEnd, RowMatch
<1>8. CASE Reopen
  BY <1>8 DEF Reopen, RowMatch
<1>9. CASE UNCHANGED allvars
  <2>1. UNCHANGED <<handler, bytes, phase, cursor, recs, wrapped, apart>>
    BY <1>9 DEF allvars, vars, capture
  <2>2. InOneRow' <=> InOneRow
    BY <2>1 DEF InOneRow, Classic, at
  <2>3. Row => Row'
    BY <2>1, RowStays
  <2>4. len' = len
    BY <2>1 DEF len
  <2> QED
    BY <2>1, <2>2, <2>3, <2>4 DEF RowMatch
<1> QED
  BY <1>1, <1>2, <1>3, <1>4, <1>5, <1>6, <1>7, <1>8, <1>9 DEF Next

LEMMA RowHolds == Spec => []RowMatch
  BY InvHolds, RowInit, RowStep, PTL DEF Spec

(* The formats that are one row of records have no blind spot: every cell   *)
(* the walk passed over is framing or in a chunk, and a JFR file is walked *)
(* to its end.                                                             *)
THEOREM NoBlindSpot == Spec => []NothingUnscanned
<1>1. Inv /\ RowMatch => NothingUnscanned
  BY RowCovered DEF NothingUnscanned
<1> QED
  BY <1>1, InvHolds, RowHolds, PTL

(* In those formats no chunk shows framing to the engine. *)
THEOREM FramingUnseen == Spec => []FramingApart
<1>1. RowMatch => FramingApart
  BY DEF RowMatch, FramingApart
<1> QED
  BY <1>1, RowHolds, PTL
-----------------------------------------------------------------------------
(* Where the blocks of a pcapng file start is a function by recursion: it   *)
(* is defined everywhere, because each block starts behind the one before, *)
(* and depends on nothing but the headers of the blocks it passes.  Both   *)
(* are shown by taking the last place at which they would be wrong.        *)
LEMMA LastWrong ==
    ASSUME NEW n \in Nat, NEW Right,
           \A o \in 0 .. n : (\A p \in o + 1 .. n : p \in Right) => o \in Right
    PROVE  0 .. n \subseteq Right
<1> DEFINE Wrong == (0 .. n) \ Right
           Family == {0 .. n - o : o \in Wrong}
<1> SUFFICES ASSUME Wrong # {} PROVE FALSE
  OBVIOUS
<1>1. Family \subseteq FiniteSubsetsOf(Nat)
  <2>1. \A o \in Wrong : 0 .. n - o \subseteq Nat /\ IsFiniteSet(0 .. n - o)
    BY FS_Interval
  <2> QED
    BY <2>1 DEF FiniteSubsetsOf
<1>2. Family # {}
  OBVIOUS
<1>3. IsWellFoundedOn(StrictSubsetOrdering(Nat), FiniteSubsetsOf(Nat))
  BY FS_StrictSubsetOrderingWellFounded
<1>4. PICK X \in Family : \A Y \in Family : ~(<<Y, X>> \in StrictSubsetOrdering(Nat))
  <2> HIDE DEF Family
  <2> QED
    BY <1>1, <1>2, <1>3, WFMin
<1>5. PICK o \in Wrong : X = 0 .. n - o
  OBVIOUS
<1>6. ASSUME NEW p \in o + 1 .. n, p \notin Right PROVE FALSE
  <2>1. p \in Wrong /\ 0 .. n - p \in Family
    BY <1>6
  <2>2. 0 .. n - p \subseteq 0 .. n - o /\ 0 .. n - p # 0 .. n - o
    <3>1. n - o \in 0 .. n - o /\ n - o \notin 0 .. n - p
      BY <1>6
    <3>2. 0 .. n - p \subseteq 0 .. n - o
      BY <1>6
    <3> QED
      BY <3>1, <3>2
  <2>3. <<0 .. n - p, X>> \in StrictSubsetOrdering(Nat)
    <3>1. 0 .. n - p \subseteq Nat /\ 0 .. n - o \subseteq Nat
      OBVIOUS
    <3>2. <<0 .. n - p, 0 .. n - o>> \in (SUBSET Nat) \X (SUBSET Nat)
      BY <3>1
    <3> QED
      BY <3>2, <2>2, <1>5 DEF StrictSubsetOrdering
  <2> QED
    BY <1>4, <2>1, <2>3
<1> QED
  BY <1>5, <1>6

Goes(b, o) == o + BlockHeader <= Len(b) /\ b[o + 2] >= BlockMin /\ o + b[o + 2] <= Len(b)
From(b, g, o) == {o} \cup (IF Goes(b, o) THEN g[o + b[o + 2]] ELSE {})
IsStarts(g, b) == g = [o \in 0 .. Len(b) |-> From(b, g, o)]

LEMMA GoesOn ==
    ASSUME NEW b \in Seq(Cell), NEW o \in 0 .. Len(b), Goes(b, o)
    PROVE  o + b[o + 2] \in o + 1 .. Len(b) /\ o + 1 < Len(b)
<1>1. Len(b) \in Nat /\ DOMAIN b = 1 .. Len(b)
  BY LenProperties
<1>2. BlockHeader = 2 /\ BlockMin \in Nat /\ BlockMin > 0
  BY PcapAssumption, WidthAssumption, SMT
<1>3. o + 2 <= Len(b)
  BY <1>2 DEF Goes
<1>4. b[o + 2] \in Cell
  <2>1. o + 2 \in 1 .. Len(b)
    BY <1>1, <1>3, SMT
  <2> QED
    BY <2>1, ElementOfSeq
<1>5. b[o + 2] \in Nat /\ b[o + 2] >= BlockMin /\ o + b[o + 2] <= Len(b)
  BY <1>4, WidthAssumption, SMT DEF Goes, Cell
<1> QED
  BY <1>1, <1>2, <1>3, <1>5, SMT

LEMMA StartsExist ==
    ASSUME NEW b \in Seq(Cell)
    PROVE  \E g : IsStarts(g, b)
<1> DEFINE n == Len(b)
           Upto(g, o) == g = [p \in o .. n |-> From(b, g, p)]
           Right == {o \in 0 .. n : \E g : Upto(g, o)}
<1>1. n \in Nat
  BY LenProperties
<1>2. ASSUME NEW o \in 0 .. n, \A p \in o + 1 .. n : p \in Right PROVE o \in Right
  <2>1. PICK g : o + 1 <= n => Upto(g, o + 1)
    <3>1. CASE o + 1 <= n
      <4>1. o + 1 \in o + 1 .. n
        BY <1>1, <3>1
      <4> QED
        BY <1>2, <4>1
    <3> QED
      BY <3>1
  <2> DEFINE h == [p \in o .. n |-> IF p = o THEN From(b, g, o) ELSE g[p]]
  <2>2. \A p \in o + 1 .. n : h[p] = g[p]
    BY <1>1
  <2>3. \A p \in o .. n : From(b, h, p) = From(b, g, p)
    <3> SUFFICES ASSUME NEW p \in o .. n, Goes(b, p) PROVE h[p + b[p + 2]] = g[p + b[p + 2]]
      BY DEF From
    <3>1. p \in 0 .. n
      BY <1>1
    <3>2. p + b[p + 2] \in p + 1 .. n
      BY <3>1, GoesOn
    <3>3. p + b[p + 2] \in o + 1 .. n
      <4>1. PICK q : q = p + b[p + 2]
        OBVIOUS
      <4> QED
        BY <1>1, <3>2, <4>1
    <3> HIDE DEF h
    <3> QED
      BY <2>2, <3>3
  <2>4. \A p \in o .. n : h[p] = From(b, g, p)
    <3>1. h[o] = From(b, g, o)
      BY <1>1
    <3>2. ASSUME NEW p \in o + 1 .. n PROVE g[p] = From(b, g, p)
      <4>1. g = [q \in o + 1 .. n |-> From(b, g, q)]
        BY <1>1, <2>1, <3>2
      <4> QED
        BY <4>1, Zenon
    <3>3. \A p \in o .. n : p = o \/ p \in o + 1 .. n
      BY <1>1
    <3> HIDE DEF h
    <3> QED
      BY <2>2, <3>1, <3>2, <3>3
  <2>5. Upto(h, o)
    <3>1. h = [p \in o .. n |-> h[p]]
      OBVIOUS
    <3> HIDE DEF h
    <3> QED
      BY <2>3, <2>4, <3>1, Zenon
  <2> HIDE DEF h
  <2> QED
    BY <2>5
<1>3. 0 .. n \subseteq Right
  <2> HIDE DEF Right, n
  <2> QED
    BY <1>1, <1>2, LastWrong
<1>4. 0 \in 0 .. n
  BY <1>1
<1>5. PICK g : Upto(g, 0)
  BY <1>3, <1>4
<1> QED
  BY <1>5 DEF IsStarts

(* What starts from a place, a place at a time. *)
LEMMA StartsStep ==
    ASSUME NEW b, NEW g, IsStarts(g, b), NEW o \in 0 .. Len(b)
    PROVE  g[o] = From(b, g, o)
  BY Zenon DEF IsStarts

LEMMA StartsAgree ==
    ASSUME NEW b \in Seq(Cell), NEW c \in Seq(Cell), Len(c) = Len(b),
           NEW g, IsStarts(g, b), NEW h, IsStarts(h, c),
           \A o \in g[0] \cap 0 .. Len(b) : o + 1 < Len(b) => c[o + 2] = b[o + 2]
    PROVE  h[0] = g[0]
<1> DEFINE n == Len(b)
           Same(o) == \A p \in g[o] \cap 0 .. n : p + 1 < n => c[p + 2] = b[p + 2]
           Right == {o \in 0 .. n : Same(o) => h[o] = g[o]}
<1>1. n \in Nat
  BY LenProperties
<1>2. ASSUME NEW o \in 0 .. n, \A p \in o + 1 .. n : p \in Right PROVE o \in Right
  <2> SUFFICES ASSUME Same(o) PROVE h[o] = g[o]
    OBVIOUS
  <2>1. g[o] = From(b, g, o) /\ h[o] = From(c, h, o)
    BY StartsStep
  <2>2. o \in g[o]
    BY <2>1 DEF From
  <2>3. Goes(b, o) <=> Goes(c, o)
    <3>1. o + 1 < n => c[o + 2] = b[o + 2]
      BY <2>2
    <3>2. Goes(b, o) => o + 1 < n
      BY GoesOn
    <3>3. Goes(c, o) => o + 1 < n
      BY GoesOn
    <3> QED
      BY <3>1, <3>2, <3>3 DEF Goes
  <2>4. CASE Goes(b, o)
    <3>1. o + 1 < n /\ o + b[o + 2] \in o + 1 .. n
      BY <2>4, GoesOn
    <3>2. PICK q : q = o + b[o + 2]
      OBVIOUS
    <3>3. c[o + 2] = b[o + 2] /\ q \in o + 1 .. n
      BY <2>2, <3>1, <3>2
    <3>4. g[o] = {o} \cup g[q] /\ h[o] = {o} \cup h[q]
      BY <2>1, <2>3, <2>4, <3>2, <3>3 DEF From
    <3>5. Same(q)
      BY <3>4
    <3>6. q \in Right
      BY <1>2, <3>3
    <3> QED
      BY <3>4, <3>5, <3>6
  <2>5. CASE ~Goes(b, o)
    BY <2>1, <2>3, <2>5 DEF From
  <2> QED
    BY <2>4, <2>5
<1>3. 0 .. n \subseteq Right
  <2> HIDE DEF Right, n
  <2> QED
    BY <1>1, <1>2, LastWrong
<1>4. 0 \in Right
  BY <1>1, <1>3
<1> QED
  BY <1>4

StartsIn(b) == (CHOOSE g : IsStarts(g, b))[0]

LEMMA BlockStartsIs == BlockStarts = StartsIn(bytes) /\ BlockStarts' = StartsIn(bytes')
<1> DEFINE Body(b, g, o) == {o} \cup (IF o + BlockHeader <= Len(b) /\ b[o + 1 + 1] >= BlockMin /\ o + b[o + 1 + 1] <= Len(b)
                                      THEN g[o + b[o + 1 + 1]] ELSE {})
           Starts(b) == CHOOSE g : g = [o \in 0 .. Len(b) |-> Body(b, g, o)]
<1>1. BlockStarts = Starts(bytes)[0] /\ BlockStarts' = Starts(bytes')[0]
  BY Zenon DEF BlockStarts, at, len
<1>2. \A b, g, o : o \in 0 .. Len(b) => Body(b, g, o) = From(b, g, o)
  <2> SUFFICES ASSUME NEW b, NEW g, NEW o \in 0 .. Len(b) PROVE Body(b, g, o) = From(b, g, o)
    OBVIOUS
  <2>1. o + 1 + 1 = o + 2
    BY SMT
  <2> QED
    BY <2>1, Zenon DEF From, Goes
<1>3. ASSUME NEW b, NEW g PROVE IsStarts(g, b) <=> g = [o \in 0 .. Len(b) |-> Body(b, g, o)]
  <2>1. [o \in 0 .. Len(b) |-> Body(b, g, o)] = [o \in 0 .. Len(b) |-> From(b, g, o)]
    BY <1>2, Zenon
  <2> QED
    BY <2>1, Zenon DEF IsStarts
<1>4. \A b : Starts(b) = CHOOSE g : IsStarts(g, b)
  BY <1>3, Zenon
<1> QED
  BY <1>1, <1>4, Zenon DEF StartsIn

LEMMA StartsInIs ==
    ASSUME NEW b \in Seq(Cell)
    PROVE  \E g : IsStarts(g, b) /\ StartsIn(b) = g[0]
  BY StartsExist, Zenon DEF StartsIn
-----------------------------------------------------------------------------
(* What framing is depends on cells that are framing: the end of an hprof   *)
(* file's name, the magic and the block headers of a pcap file, the places *)
(* that a perf.data and an ELF header name.                                *)
Laid ==
    /\ handler \in {"jfr", "hprof", "pcap", "perf", "elf-core", fallback}
    /\ handler = "jfr" => \A i \in DOMAIN recs : add(recs[i].offset, recs[i].len) <= len
    /\ handler = "hprof" => (\E n \in Positions : IsNul(n)) /\ nul + 2 <= len
    /\ handler = "pcap" => len >= PcapHeader
    /\ handler = "perf" => len >= PerfHeader
    /\ handler = "elf-core" => len >= EhdrSize

LEMMA FramingCases ==
    /\ handler = "perf" => Framing = PerfFraming
    /\ handler = "elf-core" => Framing = CoreFraming
    /\ handler = fallback => Framing = {}
  BY DEF Framing, fallback

LEMMA NulIs ==
    ASSUME Typed, \E n \in Positions : IsNul(n)
    PROVE  nul \in Positions /\ IsNul(nul) /\ \A n \in Positions : IsNul(n) => n = nul
<1>1. nul \in Positions /\ IsNul(nul)
  BY Zenon DEF nul
<1>2. ASSUME NEW n \in Positions, IsNul(n) PROVE n = nul
  <2>1. n \in Nat /\ nul \in Nat
    BY <1>1, CellFacts, SMT DEF Positions
  <2>2. at(n) = 0 /\ at(nul) = 0 /\ (\A k \in 0 .. n - 1 : at(k) # 0) /\ \A k \in 0 .. nul - 1 : at(k) # 0
    BY <1>1, <1>2 DEF IsNul
  <2>3. ~(n < nul) /\ ~(nul < n)
    BY <2>1, <2>2, SMT
  <2> QED
    BY <2>1, <2>3, SMT
<1> QED
  BY <1>1, <1>2

LEMMA FramingStable ==
    ASSUME Typed, Laid, bytes' \in Seq(Cell), Len(bytes') = Len(bytes), UNCHANGED <<handler, recs>>,
           \A k \in Framing \cap Positions : at(k)' = at(k)
    PROVE  Framing' = Framing /\ Laid'
<1>1. len' = len /\ Positions' = Positions /\ len \in Nat
  BY CellFacts DEF len, Positions
<1>2. CASE handler = "jfr"
  <2>1. JfrFraming' = JfrFraming
    BY DEF JfrFraming
  <2>2. Laid'
    BY <1>1, <1>2 DEF Laid, add, fallback
  <2> QED
    BY <1>2, <2>1, <2>2 DEF Framing
<1>3. CASE handler = "hprof"
  <2>1. nul \in Positions /\ IsNul(nul) /\ nul + 2 <= len
    BY <1>3, NulIs DEF Laid
  <2>2. \A k \in Within(0, nul + 2) : k \in Positions /\ at(k)' = at(k)
    <3>1. Within(0, nul + 2) \subseteq Positions
      BY <1>1, <2>1, SMT DEF Within, Positions
    <3>2. Within(0, nul + 2) \subseteq Framing
      BY <1>3, FramingOf DEF HprofFraming
    <3> QED
      BY <3>1, <3>2
  <2>3. nul \in Within(0, nul + 2) /\ \A k \in 0 .. nul - 1 : k \in Within(0, nul + 2)
    BY <1>1, <2>1, SMT DEF Positions, Within
  <2>4. PICK m \in Positions : m = nul
    BY <2>1
  <2>5. IsNul(m)'
    <3>1. at(m)' = at(m) /\ \A k \in 0 .. m - 1 : at(k)' = at(k)
      BY <2>2, <2>3, <2>4
    <3> QED
      BY <1>1, <2>1, <2>4, <3>1 DEF IsNul
  <2>6. nul' = m
    <3>1. \A n \in Positions : IsNul(n)' => n = m
      <4> SUFFICES ASSUME NEW n \in Positions, IsNul(n)', n # m PROVE FALSE
        OBVIOUS
      <4>1. n \in Nat /\ m \in Nat
        BY <1>1, SMT DEF Positions
      <4>2. at(n)' = 0 /\ at(m)' = 0 /\ (\A k \in 0 .. n - 1 : at(k)' # 0) /\ \A k \in 0 .. m - 1 : at(k)' # 0
        BY <2>5 DEF IsNul
      <4>3. ~(n < m) /\ ~(m < n)
        BY <4>1, <4>2, SMT
      <4> QED
        BY <4>1, <4>3, SMT
    <3>2. nul' \in Positions /\ IsNul(nul)'
      BY <1>1, <2>5, Zenon DEF nul
    <3> QED
      BY <3>1, <3>2, Zenon DEF IsNul
  <2>7. HprofFraming' = HprofFraming
    BY <2>4, <2>6 DEF HprofFraming
  <2>8. Laid'
    <3>1. \E n \in Positions' : IsNul(n)'
      BY <1>1, <2>5
    <3> QED
      BY <1>1, <1>3, <2>1, <2>4, <2>6, <3>1 DEF Laid, fallback
  <2> QED
    BY <1>3, <2>7, <2>8, Zenon DEF Framing, fallback
<1>4. CASE handler = "pcap"
  <2>1. len >= PcapHeader /\ PcapHeader \in Nat /\ PcapHeader > 0 /\ BlockHeader = 2
    BY <1>4, PcapAssumption, WidthAssumption, SMT DEF Laid
  <2>2. Framing = PcapFraming
    BY <1>4, FramingOf
  <2>3. 0 \in Framing \cap Positions
    <3>1. 0 \in Within(0, PcapHeader) /\ 0 \in Positions
      BY <1>1, <2>1, SMT DEF Within, Positions
    <3> QED
      BY <2>2, <3>1 DEF PcapFraming
  <2>4. Classic' <=> Classic
    BY <2>3 DEF Classic
  <2>5. PcapFraming' = PcapFraming
    <3>1. CASE Classic
      BY <2>4, <3>1 DEF PcapFraming
    <3>2. CASE ~Classic
      <4>1. PICK g : IsStarts(g, bytes) /\ BlockStarts = g[0]
        BY BlockStartsIs, StartsInIs DEF Typed
      <4>2. PICK h : IsStarts(h, bytes') /\ BlockStarts' = h[0]
        BY BlockStartsIs, StartsInIs
      <4>3. ASSUME NEW o \in g[0] \cap 0 .. Len(bytes), o + 1 < Len(bytes) PROVE bytes'[o + 2] = bytes[o + 2]
        <5>1. o \in 0 .. len
          BY DEF len
        <5>2. o + 1 \in Within(o, o + BlockHeader) /\ o + 1 \in Positions /\ o + 1 + 1 = o + 2
          BY <1>1, <2>1, <4>3, <5>1, SMT DEF Within, Positions, len
        <5>3. o + 1 \in Framing
          BY <2>2, <3>2, <4>1, <5>2 DEF PcapFraming
        <5> QED
          BY <5>2, <5>3 DEF at
      <4>4. h[0] = g[0]
        BY <4>1, <4>2, <4>3, StartsAgree DEF Typed
      <4> QED
        BY <2>4, <3>2, <4>1, <4>2, <4>4 DEF PcapFraming
    <3> QED
      BY <3>1, <3>2
  <2>6. Laid'
    BY <1>1, <1>4, <2>1 DEF Laid, fallback
  <2> QED
    BY <1>4, <2>5, <2>6, Zenon DEF Framing, fallback
<1>5. CASE handler = "perf"
  <2>1. 1 \in Within(0, PerfHeader) \cap Positions /\ 2 \in Within(0, PerfHeader) \cap Positions
    <3>1. len >= PerfHeader /\ PerfHeader >= 3 /\ PerfHeader \in Nat
      BY <1>5, PerfAssumption, SMT DEF Laid, PerfHeader
    <3> QED
      BY <1>1, <3>1, SMT DEF Within, Positions
  <2>2. at(1)' = at(1) /\ at(2)' = at(2)
    BY <1>5, <2>1, FramingCases DEF PerfFraming
  <2>3. PerfFraming' = PerfFraming
    BY <2>2 DEF PerfFraming, data_offset, data_size, PerfHeader
  <2>4. Laid'
    BY <1>1, <1>5 DEF Laid, fallback, PerfHeader
  <2> QED
    BY <1>5, <2>3, <2>4, Zenon DEF Framing, fallback
<1>6. CASE handler = "elf-core"
  <2>1. 1 \in Within(0, EhdrSize) \cap Positions /\ 2 \in Within(0, EhdrSize) \cap Positions
    BY <1>1, <1>6, SMT DEF Within, Positions, Laid, EhdrSize
  <2>2. at(1)' = at(1) /\ at(2)' = at(2)
    BY <1>6, <2>1, FramingCases DEF CoreFraming
  <2>3. CoreFraming' = CoreFraming
    BY <2>2 DEF CoreFraming, e_phoff, e_phnum, EhdrSize, PhdrSize
  <2>4. Laid'
    BY <1>1, <1>6 DEF Laid, fallback, EhdrSize
  <2> QED
    BY <1>6, <2>3, <2>4, Zenon DEF Framing, fallback
<1>7. CASE handler = fallback
  BY <1>7 DEF Framing, Laid, fallback
<1> QED
  BY <1>2, <1>3, <1>4, <1>5, <1>6, <1>7 DEF Laid
LEMMA SameFile ==
    ASSUME Typed, Laid, UNCHANGED <<handler, bytes, recs>>
    PROVE  Framing' = Framing /\ Laid' /\ Covered' = Covered
<1>1. Framing' = Framing /\ Laid'
  <2>1. \A k \in Framing \cap Positions : at(k)' = at(k)
    BY DEF at
  <2> QED
    BY <2>1, FramingStable DEF Typed
<1>2. Chunks' = Chunks
  <2>1. id_size' = id_size
    BY IdKept
  <2>2. JfrChunks' = JfrChunks /\ PcapChunks' = PcapChunks /\ PassthroughChunks' = PassthroughChunks
    BY Zenon DEF JfrChunks, JfrBody, PcapChunks, PassthroughChunks, len, add
  <2>3. HprofChunks' = HprofChunks
    <3> DEFINE Of(R, n) ==
                 LET full == {r \in {R[i] : i \in DOMAIN R} : r.len > 0}
                 IN  {[from |-> r.offset, to |-> r.offset + r.len] : r \in full}
                     \cup {[from |-> r.offset + n, to |-> r.offset + r.len] :
                             r \in {s \in full : s.tag = UTF8 /\ s.len > n}}
    <3>1. HprofChunks = Of(recs, id_size) /\ HprofChunks' = Of(recs', id_size')
      BY Zenon DEF HprofChunks, UTF8
    <3> HIDE DEF Of
    <3> QED
      BY <2>1, <3>1
  <2>4. PerfChunks' = PerfChunks
    <3>1. data_offset' = data_offset /\ data_size' = data_size /\ len' = len
      BY DEF data_offset, data_size, at, len
    <3>2. PerfData1' = PerfData1
      BY <3>1, Zenon DEF PerfData1, add
    <3> QED
      BY <3>1, <3>2, Zenon DEF PerfChunks, add
  <2>5. CoreChunks' = CoreChunks
    BY Zenon DEF CoreChunks, CoreSpan, Psargs, HasPsargs, len, add
  <2> QED
    BY <2>2, <2>3, <2>4, <2>5, Zenon DEF Chunks, fallback
<1> QED
  BY <1>1, <1>2, Zenon DEF Covered, Within

(* What the hits of a file are, while they are applied: off the framing, if *)
(* no chunk shows framing and they are the handler's own, or it looks where*)
(* they lie.                                                               *)
FrameMatch ==
    /\ phase \in Walked \cup {"scanned"} => Laid
    /\ phase = "scanned" => /\ apart => Covered \cap Framing = {}
                            /\ own => \A i \in DOMAIN hits : SpanOf(hits[i]) \subseteq Covered
    /\ phase \in {"edit", "done"} /\ apart /\ (own \/ Guarded) =>
         Laid /\ \A i \in DOMAIN hits : SpanOf(hits[i]) \cap Framing = {}

(* A step of the opening is one of the handler's. *)
LEMMA OpeningOf ==
    ASSUME Opening
    PROVE  /\ handler = "jfr" => JfrNext
           /\ handler = "hprof" => HprofNext
           /\ handler = "pcap" => PcapNext
           /\ handler = "perf" => PerfNext
           /\ handler = "elf-core" => CoreNext
           /\ handler = fallback => PassthroughOpen
           /\ handler \in {"jfr", "hprof", "pcap", "perf", "elf-core", fallback}
           /\ UNCHANGED <<handler, bytes, ext, member, capture>>
           /\ phase \in {"open", "walk", "notes"} /\ phase' \in {"walk", "notes", "opened", "error", "panic"}
  BY DEF Opening, fallback, Fail, Panic,
         JfrNext, JfrOpen, JfrChunk, JfrInvalid, JfrEnd, JfrWalking,
         HprofNext, HprofOpen, HprofRecord, HprofPastEnd, HprofEnd, HprofWalking,
         PcapNext, PcapOpen, ClassicRecord, ClassicEnd, PacketBlock, OtherBlock, BlocksEnd, PcapWalking, Stop,
         PerfNext, PerfOpen, PerfNoFeature, PerfFeature, PerfPastEnd, PerfEnd, PerfWalking,
         CoreNext, CoreOpen, PhdrWrapped, PhdrPastEnd, PhdrLoad, PhdrNote, PhdrOther, CoreEnd,
         NoteWrapped, NotePastEnd, Note, NotesEnd, CoreWalking, InNotes, PassthroughOpen

LEMMA OpeningLays ==
    ASSUME Inv, FrameMatch, Opening
    PROVE  FrameMatch'
<1>1. UNCHANGED <<handler, bytes>> /\ phase \in {"open", "walk", "notes"}
      /\ phase' \in {"walk", "notes", "opened", "error", "panic"}
  BY OpeningOf
<1>2. len' = len /\ Positions' = Positions /\ nul' = nul /\ \A n : IsNul(n)' <=> IsNul(n)
  BY <1>1, IdKept DEF len, Positions, IsNul, at
<1>3. SUFFICES ASSUME phase' \in Walked PROVE Laid'
  BY <1>1 DEF FrameMatch, Walked
<1>4. phase = "open" => recs = <<>>
  BY DEF Inv, OpenMatch
<1>5. phase \in {"walk", "notes"} => Laid
  BY DEF FrameMatch, Walked
<1>6. CASE handler = "jfr"
  <2>1. JfrNext
    BY <1>6, OpeningOf
  <2>2. \A i \in DOMAIN recs : add(recs[i].offset, recs[i].len) <= len
    BY <1>1, <1>4, <1>5, <1>6 DEF Laid
  <2>3. CASE recs' = recs
    BY <1>1, <1>2, <1>6, <2>2, <2>3 DEF Laid, fallback, add
  <2>4. CASE JfrChunk
    <3> DEFINE r == [offset |-> cursor, len |-> chunk_size]
    <3>1. recs' = Append(recs, r) /\ add(r.offset, r.len) <= len /\ cursor + 1 \in Positions /\ cursor \in Nat
      <4>1. cursor \in Nat /\ cursor + JfrHeader <= len /\ JfrHeader \in Nat /\ JfrHeader >= 2
        BY <2>4, JfrAssumption, WidthAssumption, SMT DEF JfrChunk, JfrChunkValid, Inv, Typed
      <4>2. cursor + 1 \in Positions
        BY <4>1, CellFacts, SMT DEF Positions, Inv
      <4> QED
        BY <2>4, <4>1, <4>2 DEF JfrChunk, JfrChunkValid
    <3>2. r \in Rec
      <4>1. chunk_size \in Nat
        BY <3>1, CellFacts DEF chunk_size, Positions, Inv
      <4> QED
        BY <3>1, <4>1 DEF Rec
    <3>3. \A i \in DOMAIN recs' : (i \in DOMAIN recs /\ recs'[i] = recs[i]) \/ recs'[i] = r
      BY <3>1, <3>2, Collected DEF Inv
    <3>4. \A i \in DOMAIN recs' : add(recs'[i].offset, recs'[i].len) <= len
      BY <2>2, <3>1, <3>3
    <3> QED
      BY <1>1, <1>2, <1>6, <3>4 DEF Laid, fallback, add
  <2> QED
    BY <2>1, <2>3, <2>4 DEF JfrNext, JfrOpen, JfrInvalid, JfrEnd, Fail
<1>7. CASE handler # "jfr" /\ phase \in {"walk", "notes"}
  BY <1>1, <1>2, <1>5, <1>7 DEF Laid, fallback, PerfHeader, EhdrSize
<1>8. CASE handler = "hprof" /\ phase = "open"
  <2>1. HprofOpen /\ HprofOpenable
    BY <1>3, <1>8, OpeningOf DEF HprofNext, HprofOpen, HprofRecord, HprofPastEnd, HprofEnd, HprofWalking, Fail, Walked
  <2> QED
    BY <1>1, <1>2, <1>8, <2>1 DEF HprofOpenable, Laid, fallback
<1>9. CASE handler = "pcap" /\ phase = "open"
  <2>1. PcapOpenable
    BY <1>3, <1>9, OpeningOf DEF PcapNext, PcapOpen, ClassicRecord, ClassicEnd, PacketBlock, OtherBlock, BlocksEnd,
                                 PcapWalking, Fail, Walked
  <2> QED
    BY <1>1, <1>2, <1>9, <2>1 DEF PcapOpenable, Laid, fallback
<1>10. CASE handler = "perf" /\ phase = "open"
  <2>1. PerfOpenable
    BY <1>3, <1>10, OpeningOf DEF PerfNext, PerfOpen, PerfNoFeature, PerfFeature, PerfPastEnd, PerfEnd, PerfWalking,
                                  Fail, Walked
  <2> QED
    BY <1>1, <1>2, <1>10, <2>1 DEF PerfOpenable, Laid, fallback, PerfHeader
<1>11. CASE handler = "elf-core" /\ phase = "open"
  <2>1. len >= EhdrSize
    BY <1>3, <1>11, OpeningOf DEF CoreNext, CoreOpen, PhdrWrapped, PhdrPastEnd, PhdrLoad, PhdrNote, PhdrOther, CoreEnd,
                                  NoteWrapped, NotePastEnd, Note, NotesEnd, CoreWalking, InNotes, Fail, Walked
  <2> QED
    BY <1>1, <1>2, <1>11, <2>1 DEF Laid, fallback, EhdrSize
<1>12. CASE handler = fallback
  BY <1>1, <1>12 DEF Laid, fallback
<1> QED
  BY <1>1, <1>6, <1>7, <1>8, <1>9, <1>10, <1>11, <1>12, OpeningOf

(* Hits that are taken up lie in the chunks, if they were found there. *)
LEMMA FoundCovered ==
    ASSUME Inv, Scannable, NEW h \in Found
    PROVE  SpanOf(h) \subseteq Covered
<1>1. PICK c \in Chunks : h \in HitsIn(c) /\ h.offset + h.len <= c.to
  BY DEF Found
<1>2. PICK o \in Within(c.from, c.to), n \in 1 .. MaxHitLen : h = [offset |-> o, len |-> n]
  BY <1>1 DEF HitsIn
<1>3. c.from \in Nat /\ c.to \in Nat /\ h.offset = o /\ h.len = n
  BY <1>2, ChunkFacts DEF Scannable
<1>4. SpanOf(h) \subseteq Within(c.from, c.to)
  BY <1>1, <1>2, <1>3, CaptureAssumption, SMT DEF SpanOf, Within
<1> QED
  BY <1>1, <1>4 DEF Covered

LEMMA ScanLays ==
    ASSUME Inv, FrameMatch, ScanOwn \/ ScanStray
    PROVE  FrameMatch'
<1>1. PICK hs, isOwn : /\ Scannable /\ ScanWith(hs, isOwn)
                       /\ isOwn = TRUE => hs = <<>> \/ hs \in Lists(Found)
                       /\ isOwn \in BOOLEAN
  BY DEF ScanOwn, ScanStray
<1>2. /\ phase = "opened" /\ phase' \in {"clean", "scanned"} /\ hits' = hs /\ own' = isOwn
      /\ apart' = (Covered \cap Framing = {}) /\ UNCHANGED <<handler, bytes, recs>>
  BY <1>1 DEF ScanWith, Scannable
<1>3. Laid
  BY <1>2 DEF FrameMatch, Walked
<1>4. Framing' = Framing /\ Laid' /\ Covered' = Covered
  BY <1>2, <1>3, SameFile DEF Inv
<1>5. own' => \A i \in DOMAIN hits' : SpanOf(hits'[i]) \subseteq Covered'
  <2> SUFFICES ASSUME isOwn = TRUE, NEW i \in DOMAIN hs PROVE SpanOf(hs[i]) \subseteq Covered
    BY <1>1, <1>2, <1>4
  <2>1. hs[i] \in Found
    <3>1. CASE hs = <<>>
      BY <3>1
    <3>2. CASE hs \in Lists(Found)
      <4>1. PICK n \in 1 .. MaxHits : hs \in [1 .. n -> Found]
        BY <3>2 DEF Lists
      <4> QED
        BY <4>1
    <3> QED
      BY <1>1, <3>1, <3>2
  <2> QED
    BY <1>1, <2>1, FoundCovered
<1>6. \A s : SpanOf(s)' = SpanOf(s)
  BY DEF SpanOf, Within
<1> QED
  BY <1>2, <1>4, <1>5, <1>6 DEF FrameMatch, Walked

(* A hit that the handler lets pass lies in one of its chunks. *)
LEMMA AcceptedCovered ==
    ASSUME Inv, Laid, Guarded, NEW h \in Span, Accepts(h)
    PROVE  SpanOf(h) \subseteq Covered
<1>1. Typed /\ h.offset \in Nat /\ h.len \in Nat
  BY WidthAssumption, SMT DEF Inv, Span, Cell
<1> SUFFICES ASSUME NEW k \in SpanOf(h) PROVE k \in Covered
  OBVIOUS
<1>2. k \in Nat /\ h.offset <= k /\ k < h.offset + h.len
  BY <1>1, SMT DEF SpanOf, Within
<1>3. CASE handler = "jfr"
  <2>1. PICK i \in DOMAIN recs : h.offset >= JfrBody(recs[i]).from /\ h.offset + h.len <= JfrBody(recs[i]).to
    BY <1>3 DEF Accepts, JfrAccepts
  <2> DEFINE b == JfrBody(recs[i])
  <2>2. b.from \in Nat /\ b.to \in Nat /\ b.to <= len
    <3>1. recs[i].offset \in Nat /\ recs[i].len \in Nat /\ JfrHeader \in Nat
      BY <1>1, RecFacts, JfrAssumption, WidthAssumption, SMT
    <3>2. b.from = recs[i].offset + JfrHeader /\ b.to = add(recs[i].offset, recs[i].len)
      BY DEF JfrBody
    <3>3. b.to \in Cell
      BY <3>1, <3>2, AddFacts
    <3> QED
      BY <1>3, <3>1, <3>2, <3>3, WidthAssumption, SMT DEF Laid, Cell
  <2> HIDE DEF b
  <2>3. k \in Within(b.from, b.to) /\ b.from < b.to
    BY <1>1, <1>2, <2>1, <2>2, SMT DEF b, Within
  <2>4. b \in Chunks
    BY <1>3, <2>2, <2>3, ChunksOf DEF JfrChunks, b
  <2> QED
    BY <2>3, <2>4 DEF Covered
<1>4. CASE handler = "pcap"
  <2>1. PICK i \in DOMAIN recs : h.offset >= recs[i].offset /\ h.offset + h.len <= recs[i].offset + recs[i].len
    BY <1>4 DEF Accepts, PcapAccepts
  <2>2. recs[i].offset \in Nat /\ recs[i].len \in Nat
    BY <1>1, RecFacts
  <2> DEFINE c == [from |-> recs[i].offset, to |-> recs[i].offset + recs[i].len]
  <2>3. k \in Within(c.from, c.to) /\ recs[i].len > 0
    BY <1>1, <1>2, <2>1, <2>2, SMT DEF Within
  <2>4. c \in Chunks
    BY <1>4, <2>3, ChunksOf DEF PcapChunks
  <2> QED
    BY <2>3, <2>4 DEF Covered
<1> QED
  BY <1>3, <1>4 DEF Guarded

LEMMA GuardLays ==
    ASSUME Inv, FrameMatch, Guard
    PROVE  FrameMatch'
<1>1. /\ phase = "scanned" /\ phase' \in {"edit", "refused"}
      /\ phase' = "edit" => \A i \in DOMAIN hits : Accepts(hits[i])
      /\ UNCHANGED <<handler, bytes, recs, hits, own, apart>>
  BY DEF Guard, capture
<1>2. Laid /\ (apart => Covered \cap Framing = {}) /\ (own => \A i \in DOMAIN hits : SpanOf(hits[i]) \subseteq Covered)
  BY <1>1 DEF FrameMatch
<1>3. Framing' = Framing /\ Laid'
  BY <1>1, <1>2, SameFile DEF Inv
<1>4. ASSUME phase' = "edit", apart, own \/ Guarded, NEW i \in DOMAIN hits
      PROVE  SpanOf(hits[i]) \cap Framing = {}
  <2>1. hits[i] \in Span
    BY HitFacts DEF Inv
  <2>2. SpanOf(hits[i]) \subseteq Covered
    BY <1>1, <1>2, <1>4, <2>1, AcceptedCovered
  <2> QED
    BY <1>2, <1>4, <2>2
<1>5. \A s : SpanOf(s)' = SpanOf(s)
  BY DEF SpanOf, Within
<1>6. Guarded' <=> Guarded
  BY <1>1 DEF Guarded
<1> QED
  BY <1>1, <1>3, <1>4, <1>5, <1>6 DEF FrameMatch, Walked

LEMMA EditLays ==
    ASSUME Inv, FrameMatch, EditHit
    PROVE  FrameMatch'
<1> DEFINE h == ZeroFill(hits[next])
<1>1. phase = "edit" /\ next <= Len(hits) /\ UNCHANGED <<handler, recs, hits, own, apart>>
  BY DEF EditHit
<1>2. CASE ~Editor!Admissible(h, bytes)
  BY <1>2 DEF EditHit, FrameMatch, Walked
<1>3. CASE Editor!Admissible(h, bytes)
  <2>1. bytes' = Editor!Overwrite(bytes, h) /\ phase' = "edit"
    BY <1>1, <1>3 DEF EditHit
  <2>2. next \in DOMAIN hits
    <3>1. next \in Nat \ {0} /\ Len(hits) \in Nat /\ DOMAIN hits = 1 .. Len(hits)
      BY LenProperties DEF Inv, Typed
    <3> QED
      BY <1>1, <3>1, SMT
  <2>3. hits[next] \in Span
    BY <2>2, HitFacts DEF Inv
  <2>4. /\ bytes' \in Seq(Cell) /\ Len(bytes') = Len(bytes)
        /\ \A k \in Positions : bytes'[k + 1] = IF k \in SpanOf(hits[next]) THEN 0 ELSE at(k)
    BY <1>3, <2>1, <2>3, FillFacts DEF Inv
  <2>5. Guarded' <=> Guarded
    BY <1>1 DEF Guarded
  <2>6. \A s : SpanOf(s)' = SpanOf(s)
    BY DEF SpanOf, Within
  <2>7. ASSUME apart, own \/ Guarded
        PROVE  Laid' /\ \A i \in DOMAIN hits : SpanOf(hits[i]) \cap Framing' = {}
    <3>1. Laid /\ \A i \in DOMAIN hits : SpanOf(hits[i]) \cap Framing = {}
      BY <1>1, <2>7 DEF FrameMatch
    <3>2. \A k \in Framing \cap Positions : at(k)' = at(k)
      BY <2>2, <2>4, <3>1 DEF at
    <3>3. Framing' = Framing /\ Laid'
      BY <1>1, <2>4, <3>1, <3>2, FramingStable DEF Inv
    <3> QED
      BY <3>1, <3>3
  <2> QED
    BY <1>1, <2>1, <2>5, <2>6, <2>7 DEF FrameMatch, Walked
<1> QED
  BY <1>2, <1>3

LEMMA FrameStep == Inv /\ FrameMatch /\ [Next]_allvars => FrameMatch'
<1> SUFFICES ASSUME Inv, FrameMatch, [Next]_allvars PROVE FrameMatch'
  OBVIOUS
<1>1. CASE Dispatching
  <2>1. phase' \in {"open", "elsewhere", "error"}
    BY <1>1 DEF Dispatching, Route, RouteTo, OpenWith, Fail
  <2> QED
    BY <2>1 DEF FrameMatch, Walked
<1>2. CASE Opening
  BY <1>2, OpeningLays
<1>3. CASE ChunksPanic
  BY <1>3 DEF ChunksPanic, Panic, FrameMatch, Walked
<1>4. CASE ScanOwn \/ ScanStray
  BY <1>4, ScanLays
<1>5. CASE Guard
  BY <1>5, GuardLays
<1>6. CASE EditHit
  BY <1>6, EditLays
<1>7. CASE EditEnd \/ UNCHANGED allvars
  <2>1. UNCHANGED <<handler, bytes, recs, hits, own, apart>> /\ (phase' = phase \/ (phase = "edit" /\ phase' = "done"))
    BY <1>7 DEF EditEnd, allvars, vars, capture
  <2>2. Guarded' <=> Guarded
    BY <2>1 DEF Guarded
  <2>3. \A s : SpanOf(s)' = SpanOf(s)
    BY DEF SpanOf, Within
  <2>4. Laid => Framing' = Framing /\ Laid' /\ Covered' = Covered
    BY <2>1, SameFile DEF Inv
  <2> QED
    BY <2>1, <2>2, <2>3, <2>4 DEF FrameMatch, Walked
<1>8. CASE Reopen
  BY <1>8 DEF Reopen, FrameMatch, Walked
<1> QED
  BY <1>1, <1>2, <1>3, <1>4, <1>5, <1>6, <1>7, <1>8 DEF Next

LEMMA FrameHolds == Spec => []FrameMatch
<1>1. Init => FrameMatch
  BY DEF Init, FrameMatch, Walked
<1> QED
  BY <1>1, InvHolds, FrameStep, PTL DEF Spec

(* The fields the walk read survive redaction wherever no chunk covers them,*)
(* whoever found the hits in JFR and pcap files, whose apply looks at where *)
(* a hit lies, and for the handler's own hits in every format.             *)
THEOREM FramingSurvives == Spec => []FramingKept
<1>1. ASSUME Inv, FrameMatch, phase = "done", apart, own \/ Guarded, NEW k \in Framing \cap Positions
      PROVE  at(k) = orig[k + 1]
  <2>1. at(k) = IF HitBefore(next, k) THEN 0 ELSE orig[k + 1]
    BY <1>1 DEF Inv, EditMatch
  <2>2. ~HitBefore(next, k)
    BY <1>1 DEF FrameMatch, HitBefore
  <2> QED
    BY <2>1, <2>2
<1>2. Inv /\ FrameMatch => FramingKept
  BY <1>1 DEF FramingKept
<1> QED
  BY <1>2, InvHolds, FrameHolds, PTL

-----------------------------------------------------------------------------
(* The state of a walk, and the one that it is in a step later: the steps   *)
(* of Opening as functions of the file and of where the walk is.           *)
State(p, c, l, e, r) == [phase |-> p, cursor |-> c, limit |-> l, entry |-> e, recs |-> r]
here == State(phase, cursor, limit, entry, recs)
AtStart == State("open", 0, 0, 0, <<>>)
Active == {"open", "walk", "notes"}
To(s, p) == State(p, s.cursor, s.limit, s.entry, s.recs)
Past(s, c, r) == State(s.phase, c, s.limit, s.entry, Append(s.recs, r))
Peek(b, o) == b[o + 1]

JfrValid(b, o) ==
    /\ o + JfrHeader <= Len(b) /\ Peek(b, o) = JfrMagic
    /\ Peek(b, o + 1) >= JfrHeader /\ add(o, Peek(b, o + 1)) <= Len(b)
JfrStep(b, s) ==
    IF s.phase = "open" THEN To(s, IF Len(b) < JfrHeader THEN "error" ELSE "walk")
    ELSE IF s.cursor >= Len(b) THEN To(s, "opened")
    ELSE IF JfrValid(b, s.cursor)
         THEN Past(s, add(s.cursor, Peek(b, s.cursor + 1)), [offset |-> s.cursor, len |-> Peek(b, s.cursor + 1)])
    ELSE To(s, "error")
JfrLooks(b, s) == IF s.phase = "open" THEN {} ELSE {s.cursor, s.cursor + 1}

NulAt(b, n) == n \in 0 .. Len(b) - 1 /\ Peek(b, n) = 0 /\ \A k \in 0 .. n - 1 : Peek(b, k) # 0
NulOf(b) == CHOOSE n \in 0 .. Len(b) - 1 : NulAt(b, n)
HprofFit(b) ==
    /\ Len(b) >= 1 /\ Peek(b, 0) = HprofMagic
    /\ \E n \in 0 .. Len(b) - 1 : NulAt(b, n)
    /\ NulOf(b) + 2 <= Len(b) /\ Peek(b, NulOf(b) + 1) \in 1 .. IdMax
HprofBody(s) == s.cursor + HprofHeader
HprofStep(b, s) ==
    IF s.phase = "open"
    THEN IF HprofFit(b) THEN State("walk", NulOf(b) + 2, s.limit, s.entry, s.recs) ELSE To(s, "error")
    ELSE IF HprofBody(s) > Len(b) THEN To(s, "opened")
    ELSE IF HprofBody(s) + Peek(b, s.cursor + 1) <= Len(b)
         THEN Past(s, HprofBody(s) + Peek(b, s.cursor + 1),
                   [offset |-> HprofBody(s), len |-> Peek(b, s.cursor + 1), tag |-> Peek(b, s.cursor)])
    ELSE To(s, "error")
HprofLooks(b, s) ==
    IF s.phase = "open" THEN Within(0, NulOf(b) + 2)
    ELSE IF HprofBody(s) > Len(b) THEN {} ELSE {s.cursor, s.cursor + 1}

PcapFit(b) == Len(b) >= PcapHeader /\ (Peek(b, 0) = PcapMagic \/ (Peek(b, 0) = SHB /\ Peek(b, 2) = BOM))
RecordAt(b, p) == p <= Len(b) /\ p + Peek(b, p - 1) <= Len(b)
BlockAt(b, o) == o + BlockHeader <= Len(b) /\ Peek(b, o + 1) >= BlockMin /\ o + Peek(b, o + 1) <= Len(b)
PacketAt(b, o) ==
    Peek(b, o) = EPB /\ Peek(b, o + 1) >= EpbFixed + 1 /\ o + EpbFixed + Peek(b, (o + EpbFixed) - 1) <= Len(b)
ClassicStep(b, s) ==
    LET p == s.cursor + RecordHeader
    IN  IF RecordAt(b, p) THEN Past(s, p + Peek(b, p - 1), [offset |-> p, len |-> Peek(b, p - 1)])
        ELSE To(s, "opened")
BlockStep(b, s) ==
    LET o == s.cursor
    IN  IF ~BlockAt(b, o) THEN To(s, "opened")
        ELSE IF PacketAt(b, o)
             THEN Past(s, o + Peek(b, o + 1), [offset |-> o + EpbFixed, len |-> Peek(b, (o + EpbFixed) - 1)])
        ELSE State(s.phase, o + Peek(b, o + 1), s.limit, s.entry, s.recs)
PcapStep(b, s) ==
    IF s.phase = "open"
    THEN IF PcapFit(b)
         THEN State("walk", IF Peek(b, 0) = PcapMagic THEN PcapHeader ELSE 0, s.limit, s.entry, s.recs)
         ELSE To(s, "error")
    ELSE IF Peek(b, 0) = PcapMagic THEN ClassicStep(b, s) ELSE BlockStep(b, s)
PcapLooks(b, s) ==
    IF s.phase = "open" THEN {0, 2}
    ELSE IF Peek(b, 0) = PcapMagic THEN {0, (s.cursor + RecordHeader) - 1}
    ELSE {0, s.cursor, s.cursor + 1, (s.cursor + EpbFixed) - 1}

PerfFit(b) == Len(b) >= PerfHeader /\ Peek(b, 0) = PerfMagic /\ ~Overflows(Peek(b, 1), Peek(b, 2))
DescAt(b, o) ==
    /\ ~Overflows(o, DescSize) /\ o + DescSize <= Len(b)
    /\ add(Peek(b, o), Peek(b, o + 1)) <= Len(b)
PerfStep(b, s) ==
    IF s.phase = "open"
    THEN IF PerfFit(b) THEN State("walk", Peek(b, 1) + Peek(b, 2), s.limit, 1, s.recs) ELSE To(s, "error")
    ELSE IF s.entry > FeatureBits THEN To(s, "opened")
    ELSE IF Peek(b, 2 + s.entry) = 0 THEN State(s.phase, s.cursor, s.limit, s.entry + 1, s.recs)
    ELSE IF DescAt(b, s.cursor)
         THEN State(s.phase, s.cursor + DescSize, s.limit, s.entry + 1,
                    Append(s.recs, [offset |-> Peek(b, s.cursor), len |-> Peek(b, s.cursor + 1)]))
    ELSE To(s, "error")
PerfLooks(b, s) ==
    Within(0, PerfHeader) \cup
    (IF s.phase = "open" \/ s.entry > FeatureBits \/ Peek(b, 2 + s.entry) = 0 \/ s.cursor + DescSize > Len(b)
     THEN {} ELSE {s.cursor, s.cursor + 1})

PhdrAt(b, s) == add(Peek(b, 1), s.entry * PhdrSize)
PhdrStep(b, s) ==
    LET p == PhdrAt(b, s)
        q == add(p, PhdrSize)
        start == Peek(b, p + 1)
        size == Peek(b, p + 2)
        stop == add(start, size)
    IN  IF q > Len(b) THEN To(s, "error")
        ELSE IF ~(p <= q /\ q <= Len(b)) THEN To(s, "panic")
        ELSE IF stop > Len(b) THEN To(s, "error")
        ELSE IF Peek(b, p) = PT_NOTE THEN State("notes", start, stop, s.entry + 1, s.recs)
        ELSE IF Peek(b, p) = PT_LOAD /\ size > 0
             THEN State(s.phase, s.cursor, s.limit, s.entry + 1,
                        Append(s.recs, [kind |-> "load", head |-> start, offset |-> start, len |-> size, type |-> 0]))
        ELSE State(s.phase, s.cursor, s.limit, s.entry + 1, s.recs)
NoteStep(b, s) ==
    LET o == s.cursor
        q == add(o, NoteHeader)
        n == o + NoteHeader + pad(Peek(b, o))
        d == n + pad(Peek(b, o + 1))
    IN  IF ~(q <= s.limit) THEN To(s, "walk")
        ELSE IF ~(o <= q /\ q <= Len(b)) THEN To(s, "panic")
        ELSE IF d > s.limit THEN To(s, "error")
        ELSE Past(s, d, [kind |-> "note", head |-> o, offset |-> n, len |-> Peek(b, o + 1), type |-> Peek(b, o + 2)])
CoreStep(b, s) ==
    IF s.phase = "open" THEN To(s, IF Len(b) >= EhdrSize /\ Peek(b, 0) = CoreMagic THEN "walk" ELSE "error")
    ELSE IF s.phase = "notes" THEN NoteStep(b, s)
    ELSE IF s.entry >= Peek(b, 2) THEN To(s, "opened")
    ELSE PhdrStep(b, s)
CoreLooks(b, s) ==
    IF s.phase = "open" THEN {0}
    ELSE IF s.phase = "notes"
         THEN IF add(s.cursor, NoteHeader) <= s.limit THEN {s.cursor, s.cursor + 1, s.cursor + 2} ELSE {}
    ELSE {1, 2} \cup (IF s.entry >= Peek(b, 2) THEN {} ELSE {PhdrAt(b, s), PhdrAt(b, s) + 1, PhdrAt(b, s) + 2})

WalkStep(h, b, s) ==
    IF h = "jfr" THEN JfrStep(b, s) ELSE IF h = "hprof" THEN HprofStep(b, s)
    ELSE IF h = "pcap" THEN PcapStep(b, s) ELSE IF h = "perf" THEN PerfStep(b, s)
    ELSE IF h = "elf-core" THEN CoreStep(b, s) ELSE To(s, "opened")
Looks(h, b, s) ==
    IF h = "jfr" THEN JfrLooks(b, s) ELSE IF h = "hprof" THEN HprofLooks(b, s)
    ELSE IF h = "pcap" THEN PcapLooks(b, s) ELSE IF h = "perf" THEN PerfLooks(b, s)
    ELSE IF h = "elf-core" THEN CoreLooks(b, s) ELSE {}

(* Every state of the walk but the last has its successor in the trail.     *)
IsTrail(T, last, h, b) ==
    /\ AtStart \in T /\ last \in T
    /\ \A s \in T : s.cursor \in Nat /\ s.limit \in Nat /\ s.entry \in Nat
    /\ \A s \in T : s # last => s.phase \in Active /\ WalkStep(h, b, s) \in T

(* What the walk is at the moment knows of where it has been. *)
PcapHead == IF Classic THEN RecordHeader ELSE EpbFixed
PcapTail(r) == IF Classic THEN r.len ELSE 1
Ahead ==
    /\ phase \in {"dispatch", "open"} => entry = 0 /\ limit = 0
    /\ handler = "pcap" /\ phase \in {"walk", "opened", "scanned"} =>
         /\ ~Classic => cursor \in BlockStarts
         /\ \A i \in DOMAIN recs : recs[i].offset + PcapTail(recs[i]) <= cursor
    /\ handler = "perf" /\ phase = "walk" => cursor = data_offset + data_size + DescSize * Len(recs)
    /\ handler = "elf-core" /\ phase \in {"walk", "notes"} => entry = 0 \/ e_phoff + entry * PhdrSize <= len

(* The cells that a step has looked at are framing; or, in pcap files, are  *)
(* in no payload.                                                          *)
PcapLeft(s) ==
    s.phase # "open" =>
        /\ s.cursor <= cursor /\ (~Classic => s.cursor \in BlockStarts)
        /\ \A i \in DOMAIN recs :
             recs[i].offset + PcapTail(recs[i]) <= s.cursor \/ s.cursor + PcapHead <= recs[i].offset
LeftBehind(s) == IF handler = "pcap" THEN PcapLeft(s) ELSE Looks(handler, bytes, s) \cap Positions \subseteq Framing

-----------------------------------------------------------------------------
LEMMA StateIs ==
    ASSUME NEW p, NEW c, NEW l, NEW e, NEW r
    PROVE  /\ State(p, c, l, e, r).phase = p /\ State(p, c, l, e, r).cursor = c
           /\ State(p, c, l, e, r).limit = l /\ State(p, c, l, e, r).entry = e
           /\ State(p, c, l, e, r).recs = r
  BY DEF State

LEMMA HereIs ==
    /\ here.phase = phase /\ here.cursor = cursor /\ here.limit = limit
    /\ here.entry = entry /\ here.recs = recs
  BY StateIs DEF here

(* Every step of an opening is the one that the function gives. *)
LEMMA JfrSteps ==
    ASSUME Typed, JfrNext
    PROVE  here' = JfrStep(bytes, here)
<1> USE HereIs DEF To, Past, Peek, at, len
<1>1. CASE JfrOpen
  BY <1>1 DEF JfrOpen, Fail, JfrStep, here
<1>2. CASE JfrChunk
  <2>1. ~(cursor >= len) /\ phase = "walk" /\ JfrValid(bytes, cursor)
    BY <1>2, CellFacts, SMT DEF Typed, JfrChunk, JfrWalking, JfrChunkValid, JfrValid, chunk_size
  <2> QED
    BY <1>2, <2>1 DEF JfrChunk, JfrStep, here, chunk_size
<1>3. CASE JfrInvalid
  <2>1. ~(cursor >= len) /\ phase = "walk" /\ ~JfrValid(bytes, cursor)
    BY <1>3, CellFacts, SMT DEF Typed, JfrInvalid, JfrWalking, JfrChunkValid, JfrValid, chunk_size
  <2> QED
    BY <1>3, <2>1 DEF JfrInvalid, Fail, JfrStep, here
<1>4. CASE JfrEnd
  BY <1>4 DEF JfrEnd, JfrStep, here
<1> QED
  BY <1>1, <1>2, <1>3, <1>4 DEF JfrNext

LEMMA NulOfIs == nul = NulOf(bytes) /\ \A n \in Positions : IsNul(n) <=> NulAt(bytes, n)
<1>1. \A n : IsNul(n) <=> NulAt(bytes, n)
  BY Zenon DEF IsNul, NulAt, Positions, at, len, Peek
<1> QED
  BY <1>1, Zenon DEF nul, NulOf, Positions, len

LEMMA HprofSteps ==
    ASSUME Typed, HprofNext
    PROVE  here' = HprofStep(bytes, here)
<1> USE HereIs DEF To, Past, Peek, at, len
<1>1. CASE HprofOpen
  <2>1. HprofOpenable <=> HprofFit(bytes)
    BY NulOfIs, Zenon DEF HprofOpenable, HprofFit, id_size, Positions
  <2> QED
    BY <1>1, <2>1, NulOfIs DEF HprofOpen, Fail, HprofStep, here
<1>2. CASE HprofRecord \/ HprofPastEnd
  <2>1. phase = "walk" /\ ~(HprofBody(here) > len) /\ HprofBody(here) = body_offset
    BY <1>2, CellFacts, HprofAssumption, WidthAssumption, SMT
       DEF Typed, HprofRecord, HprofPastEnd, HprofWalking, HprofBody, body_offset
  <2>2. HprofRecord <=> body_end <= len
    <3>1. at(cursor + 1) \in Nat /\ body_offset \in Nat
      <4>1. cursor \in Nat /\ HprofHeader \in Nat /\ HprofHeader >= 2 /\ cursor + HprofHeader <= len /\ len \in Nat
        BY <1>2, CellFacts, HprofAssumption, WidthAssumption, SMT DEF Typed, HprofRecord, HprofPastEnd, HprofWalking
      <4>2. cursor + 1 \in 0 .. len - 1
        BY <4>1, SMT
      <4> HIDE DEF at, len
      <4>3. at(cursor + 1) \in Nat
        BY <4>2, CellFacts
      <4> QED
        BY <4>1, <4>3, SMT DEF body_offset
    <3> QED
      BY <1>2, <3>1, CellFacts, SMT DEF HprofRecord, HprofPastEnd, body_end
  <2>3. CASE HprofRecord
    BY <2>1, <2>2, <2>3 DEF HprofRecord, HprofStep, here, body_end, tag
  <2>4. CASE HprofPastEnd /\ ~HprofRecord
    BY <2>1, <2>2, <2>4 DEF HprofPastEnd, Fail, HprofStep, here, body_end
  <2> QED
    BY <1>2, <2>3, <2>4
<1>3. CASE HprofEnd
  BY <1>3 DEF HprofEnd, HprofStep, here, HprofBody
<1> QED
  BY <1>1, <1>2, <1>3 DEF HprofNext

LEMMA PcapSteps ==
    ASSUME Typed, PcapNext
    PROVE  here' = PcapStep(bytes, here)
<1> USE HereIs DEF To, Past, Peek, at, len
<1>0. Classic <=> Peek(bytes, 0) = PcapMagic
  BY DEF Classic
<1>1. CASE PcapOpen
  <2>1. PcapOpenable <=> PcapFit(bytes)
    BY DEF PcapOpenable, PcapFit, Classic
  <2> QED
    BY <1>0, <1>1, <2>1 DEF PcapOpen, Fail, PcapStep, here
<1>2. CASE ClassicRecord \/ ClassicEnd
  <2>1. RecordFits <=> RecordAt(bytes, cursor + RecordHeader)
    BY DEF RecordFits, RecordAt, payload_off, captured
  <2>2. phase = "walk" /\ PcapStep(bytes, here) = ClassicStep(bytes, here)
    BY <1>0, <1>2, Zenon DEF PcapStep, ClassicRecord, ClassicEnd, PcapWalking
  <2> QED
    BY <1>2, <2>1, <2>2 DEF ClassicRecord, ClassicEnd, ClassicStep, Stop, Keep, payload_off, captured, here
<1>3. CASE PacketBlock \/ OtherBlock \/ BlocksEnd
  <2>1. (BlockFits <=> BlockAt(bytes, cursor)) /\ (IsPacket <=> PacketAt(bytes, cursor))
    <3>1. BlockFits <=> BlockAt(bytes, cursor)
      BY DEF BlockFits, BlockAt, block_total
    <3>2. cap_len = Peek(bytes, (cursor + EpbFixed) - 1) /\ block_total = Peek(bytes, cursor + 1)
          /\ block_type = Peek(bytes, cursor)
      BY DEF block_type, block_total, epb_payload, cap_len
    <3> HIDE DEF Peek, at
    <3>3. IsPacket <=> PacketAt(bytes, cursor)
      BY <3>2, Zenon DEF IsPacket, PacketAt, epb_payload
    <3> QED
      BY <3>1, <3>3
  <2>2. phase = "walk" /\ PcapStep(bytes, here) = BlockStep(bytes, here)
    BY <1>0, <1>3, Zenon DEF PcapStep, PacketBlock, OtherBlock, BlocksEnd, PcapWalking
  <2>3. BlockStep(bytes, here) =
          IF ~BlockFits THEN State("opened", cursor, limit, entry, recs)
          ELSE IF IsPacket
               THEN State(phase, cursor + block_total, limit, entry,
                          Append(recs, [offset |-> epb_payload, len |-> cap_len]))
          ELSE State(phase, cursor + block_total, limit, entry, recs)
    BY <2>1, Zenon DEF BlockStep, epb_payload, cap_len, block_total
  <2> HIDE DEF Peek, at
  <2> QED
    BY <1>3, <2>2, <2>3 DEF PacketBlock, OtherBlock, BlocksEnd, Stop, Keep, here
<1> QED
  BY <1>1, <1>2, <1>3 DEF PcapNext

LEMMA PerfSteps ==
    ASSUME Typed, PerfNext
    PROVE  here' = PerfStep(bytes, here)
<1> USE HereIs DEF To, Past, Peek, at, len
<1>1. CASE PerfOpen
  <2>1. PerfOpenable <=> PerfFit(bytes)
    BY DEF PerfOpenable, PerfFit, data_offset, data_size
  <2> QED
    BY <1>1, <2>1 DEF PerfOpen, Fail, PerfStep, here, data_offset, data_size
<1>2. CASE PerfNoFeature \/ PerfFeature \/ PerfPastEnd
  <2>1. phase = "walk" /\ ~(entry > FeatureBits)
    BY <1>2, PerfAssumption, SMT DEF Typed, PerfNoFeature, PerfFeature, PerfPastEnd, PerfWalking
  <2>2. (HasFeature(entry) <=> Peek(bytes, 2 + entry) # 0) /\ (FeatureFits <=> DescAt(bytes, cursor))
    BY DEF HasFeature, FeatureFits, DescFits, DescAt, desc_off, desc_size
  <2> QED
    BY <1>2, <2>1, <2>2 DEF PerfNoFeature, PerfFeature, PerfPastEnd, Fail, PerfStep, here, desc_off, desc_size
<1>3. CASE PerfEnd
  BY <1>3 DEF PerfEnd, PerfStep, here
<1> QED
  BY <1>1, <1>2, <1>3 DEF PerfNext

LEMMA CoreSteps ==
    ASSUME Inv, CoreNext
    PROVE  here' = CoreStep(bytes, here)
<1> USE HereIs DEF To, Past, Peek, at, len
<1>0. Typed
  BY DEF Inv
<1>1. CASE CoreOpen
  BY <1>1 DEF CoreOpen, Fail, CoreStep, here
<1>2. CASE PhdrWrapped \/ PhdrPastEnd \/ PhdrLoad \/ PhdrNote \/ PhdrOther
  <2>1. phase = "walk" /\ CoreWalking
    BY <1>2 DEF PhdrWrapped, PhdrPastEnd, PhdrLoad, PhdrNote, PhdrOther, CoreWalking
  <2>2. ~(entry >= e_phnum)
    <3>1. e_phnum \in Nat
      <4>1. 2 \in 0 .. len - 1
        BY <1>0, <2>1, CellFacts, SMT DEF Inv, OpenMatch, Walked, EhdrSize, CoreWalking
      <4> QED
        BY <1>0, <4>1, CellFacts DEF e_phnum
    <3> QED
      BY <1>0, <2>1, <3>1, SMT DEF CoreWalking, Typed
  <2>3. CoreStep(bytes, here) = PhdrStep(bytes, here)
    BY <2>1, <2>2, Zenon DEF CoreStep, e_phnum
  <2>4. ph = PhdrAt(bytes, here)
    BY DEF ph, PhdrAt, e_phoff
  <2>5. ph_end = add(ph, PhdrSize) /\ p_type = Peek(bytes, ph) /\ p_offset = Peek(bytes, ph + 1)
        /\ p_filesz = Peek(bytes, ph + 2) /\ seg_end = add(p_offset, p_filesz)
    BY DEF ph_end, p_type, p_offset, p_filesz, seg_end
  <2>6. PhdrStep(bytes, here) =
          IF HeaderPastEnd THEN State("error", cursor, limit, entry, recs)
          ELSE IF ~(ph <= ph_end /\ ph_end <= Len(bytes)) THEN State("panic", cursor, limit, entry, recs)
          ELSE IF seg_end > Len(bytes) THEN State("error", cursor, limit, entry, recs)
          ELSE IF p_type = PT_NOTE THEN State("notes", p_offset, seg_end, entry + 1, recs)
          ELSE IF p_type = PT_LOAD /\ p_filesz > 0
               THEN State(phase, cursor, limit, entry + 1,
                          Append(recs, [kind |-> "load", head |-> p_offset, offset |-> p_offset, len |-> p_filesz, type |-> 0]))
          ELSE State(phase, cursor, limit, entry + 1, recs)
    <3> HIDE DEF Peek, at
    <3> QED
      BY <2>4, <2>5, Zenon DEF PhdrStep, HeaderPastEnd
  <2>7. HeaderReadable => (SegmentFits <=> ~(seg_end > Len(bytes)))
    <3>1. ASSUME HeaderReadable PROVE seg_end \in Nat
      <4>1. p_offset \in Nat /\ p_filesz \in Nat
        BY <2>1, <3>1, HeaderFacts, WidthAssumption, SMT DEF Cell
      <4> QED
        BY <4>1, AddFacts, WidthAssumption, SMT DEF seg_end, Cell
    <3> QED
      BY <1>0, <3>1, CellFacts, SMT DEF SegmentFits
  <2> HIDE DEF Peek, at
  <2>8. CASE PhdrWrapped
    BY <2>3, <2>6, <2>8 DEF PhdrWrapped, HeaderReadable, SliceExists, Panic, here
  <2>9. CASE PhdrPastEnd
    BY <2>3, <2>6, <2>7, <2>9 DEF PhdrPastEnd, HeaderReadable, SliceExists, Fail, here
  <2>10. CASE PhdrLoad \/ PhdrNote \/ PhdrOther
    <3>1. HeaderReadable /\ ~(seg_end > Len(bytes)) /\ ~HeaderPastEnd /\ ph <= ph_end /\ ph_end <= Len(bytes)
      BY <2>7, <2>10 DEF PhdrLoad, PhdrNote, PhdrOther, HeaderReadable, SliceExists
    <3>2. p_type = PT_LOAD => p_type # PT_NOTE
      BY DEF PT_LOAD, PT_NOTE
    <3>4. CASE PhdrNote
      BY <2>3, <2>6, <3>1, <3>4, Zenon DEF PhdrNote, here
    <3>5. CASE PhdrLoad
      BY <2>3, <2>6, <3>1, <3>2, <3>5, Zenon DEF PhdrLoad, here
    <3>6. CASE PhdrOther
      BY <2>3, <2>6, <3>1, <3>6, Zenon DEF PhdrOther, here
    <3> QED
      BY <2>10, <3>4, <3>5, <3>6
  <2> QED
    BY <1>2, <2>8, <2>9, <2>10
<1>3. CASE CoreEnd
  BY <1>3 DEF CoreEnd, CoreStep, here, e_phnum
<1>4. CASE NoteWrapped \/ NotePastEnd \/ Note \/ NotesEnd
  <2>1. phase = "notes" /\ CoreStep(bytes, here) = NoteStep(bytes, here)
    BY <1>4, Zenon DEF CoreStep, NoteWrapped, NotePastEnd, Note, NotesEnd, InNotes
  <2>2. Note => ~(desc_end > limit)
    <3> SUFFICES ASSUME Note PROVE desc_end \in Nat /\ desc_end <= limit /\ limit \in Nat
      BY SMT
    <3> QED
      BY <1>0, NoteFacts DEF Note, Typed
  <2>3. NoteStep(bytes, here) =
          IF ~MoreNotes THEN State("walk", cursor, limit, entry, recs)
          ELSE IF ~NoteReadable THEN State("panic", cursor, limit, entry, recs)
          ELSE IF desc_end > limit THEN State("error", cursor, limit, entry, recs)
          ELSE State(phase, desc_end, limit, entry, Append(recs,
                 [kind |-> "note", head |-> cursor, offset |-> name_end, len |-> descsz, type |-> n_type]))
    BY Zenon DEF NoteStep, MoreNotes, NoteReadable, SliceExists, name_end, descsz, n_type, desc_end
  <2> QED
    BY <1>4, <2>1, <2>2, <2>3 DEF NoteWrapped, NotePastEnd, Note, NotesEnd, Fail, Panic, here
<1> QED
  BY <1>1, <1>2, <1>3, <1>4 DEF CoreNext

LEMMA Steps ==
    ASSUME Inv, Opening
    PROVE  phase \in Active /\ here' = WalkStep(handler, bytes, here)
<1>0. Typed
  BY DEF Inv
<1>1. phase \in Active
  BY OpeningOf DEF Active
<1>2. CASE handler = fallback
  <2>1. PassthroughOpen
    BY <1>2, OpeningOf
  <2> QED
    BY <1>1, <1>2, <2>1, HereIs DEF PassthroughOpen, WalkStep, To, here, fallback
<1>3. CASE handler # fallback
  BY <1>0, <1>1, <1>3, OpeningOf, JfrSteps, HprofSteps, PcapSteps, PerfSteps, CoreSteps, Zenon DEF WalkStep
<1> QED
  BY <1>2, <1>3

-----------------------------------------------------------------------------
(* A step that does not fail depends on no more than the cells it looks at. *)
Agree(b, c, S) == \A k \in S : k \in 0 .. Len(b) - 1 => Peek(c, k) = Peek(b, k)
Proceeds(s) == s.phase \notin {"error", "panic"}

LEMMA PeekFacts ==
    ASSUME NEW b \in Seq(Cell)
    PROVE  Len(b) \in Nat /\ \A k \in 0 .. Len(b) - 1 : Peek(b, k) \in Cell /\ Peek(b, k) \in Nat
<1>1. Len(b) \in Nat
  BY LenProperties
<1>2. Cell \subseteq Nat
  BY WidthAssumption, SMT DEF Cell
<1>3. ASSUME NEW k \in 0 .. Len(b) - 1 PROVE Peek(b, k) \in Cell
  <2>1. k + 1 \in 1 .. Len(b)
    BY <1>1, <1>3, SMT
  <2> QED
    BY <2>1, ElementOfSeq DEF Peek
<1> QED
  BY <1>1, <1>2, <1>3

LEMMA JfrLocal ==
    ASSUME NEW b \in Seq(Cell), NEW c \in Seq(Cell), Len(c) = Len(b),
           NEW s, s.cursor \in Nat, Agree(b, c, JfrLooks(b, s))
    PROVE  JfrStep(c, s) = JfrStep(b, s)
<1>1. CASE s.phase = "open" \/ s.cursor >= Len(b)
  BY <1>1, Zenon DEF JfrStep
<1>2. CASE s.phase # "open" /\ s.cursor + JfrHeader <= Len(b)
  <2>1. s.cursor \in 0 .. Len(b) - 1 /\ s.cursor + 1 \in 0 .. Len(b) - 1
    BY <1>2, PeekFacts, JfrAssumption, WidthAssumption, SMT
  <2>2. Peek(c, s.cursor) = Peek(b, s.cursor) /\ Peek(c, s.cursor + 1) = Peek(b, s.cursor + 1)
    BY <1>2, <2>1, Zenon DEF Agree, JfrLooks
  <2> QED
    BY <2>2, Zenon DEF JfrStep, JfrValid
<1>3. CASE ~(s.cursor + JfrHeader <= Len(b))
  BY <1>3, Zenon DEF JfrStep, JfrValid
<1> QED
  BY <1>1, <1>2, <1>3

LEMMA HprofLocal ==
    ASSUME NEW b \in Seq(Cell), NEW c \in Seq(Cell), Len(c) = Len(b),
           NEW s, s.cursor \in Nat, Agree(b, c, HprofLooks(b, s)), Proceeds(HprofStep(b, s))
    PROVE  HprofStep(c, s) = HprofStep(b, s)
<1>0. Len(b) \in Nat /\ HprofHeader \in Nat /\ HprofHeader >= 2
  BY PeekFacts, HprofAssumption, WidthAssumption, SMT
<1>1. CASE s.phase = "open"
  <2>1. HprofFit(b)
    BY <1>1, StateIs DEF HprofStep, Proceeds, To
  <2> DEFINE n == NulOf(b)
  <2>2. n \in 0 .. Len(b) - 1 /\ NulAt(b, n)
    BY <2>1, Zenon DEF HprofFit, NulOf
  <2>3. n \in Nat /\ n + 2 <= Len(b)
    BY <1>0, <2>1, <2>2, SMT DEF HprofFit
  <2> HIDE DEF n
  <2>4. \A k \in 0 .. n + 1 : Peek(c, k) = Peek(b, k)
    <3> SUFFICES ASSUME NEW k \in 0 .. n + 1 PROVE Peek(c, k) = Peek(b, k)
      OBVIOUS
    <3>1. k \in Within(0, n + 2) /\ k \in 0 .. Len(b) - 1
      BY <1>0, <2>3, SMT DEF Within
    <3> QED
      BY <1>1, <3>1, Zenon DEF Agree, HprofLooks, n
  <2>5. NulAt(c, n)
    <3>1. n \in 0 .. n + 1 /\ \A k \in 0 .. n - 1 : k \in 0 .. n + 1
      BY <2>3
    <3> QED
      BY <2>2, <2>4, <3>1 DEF NulAt
  <2>6. ASSUME NEW m \in 0 .. Len(c) - 1, NulAt(c, m) PROVE m = n
    <3>1. m \in Nat
      BY <1>0
    <3>2. CASE m < n
      BY <2>3, <2>5, <2>6, <3>1, <3>2 DEF NulAt
    <3>3. CASE n < m
      BY <2>3, <2>5, <2>6, <3>1, <3>3 DEF NulAt
    <3> QED
      BY <2>3, <3>1, <3>2, <3>3, SMT
  <2>7. NulOf(c) = n
    BY <2>2, <2>5, <2>6, Zenon DEF NulOf
  <2>8. Peek(c, 0) = Peek(b, 0) /\ Peek(c, n + 1) = Peek(b, n + 1)
    BY <2>3, <2>4
  <2>9. HprofFit(c)
    BY <2>1, <2>2, <2>5, <2>7, <2>8, Zenon DEF HprofFit, n
  <2> QED
    BY <1>1, <2>1, <2>7, <2>9, Zenon DEF HprofStep, n
<1>2. CASE s.phase # "open" /\ ~(HprofBody(s) > Len(b))
  <2>1. s.cursor \in 0 .. Len(b) - 1 /\ s.cursor + 1 \in 0 .. Len(b) - 1
    BY <1>0, <1>2, SMT DEF HprofBody
  <2>2. Peek(c, s.cursor) = Peek(b, s.cursor) /\ Peek(c, s.cursor + 1) = Peek(b, s.cursor + 1)
    BY <1>2, <2>1, Zenon DEF Agree, HprofLooks
  <2> QED
    BY <1>2, <2>2, Zenon DEF HprofStep
<1>3. CASE s.phase # "open" /\ HprofBody(s) > Len(b)
  BY <1>3, Zenon DEF HprofStep
<1> QED
  BY <1>1, <1>2, <1>3

LEMMA PcapLocal ==
    ASSUME NEW b \in Seq(Cell), NEW c \in Seq(Cell), Len(c) = Len(b), Len(b) >= PcapHeader,
           NEW s, s.cursor \in Nat, Agree(b, c, PcapLooks(b, s))
    PROVE  PcapStep(c, s) = PcapStep(b, s)
<1>0. /\ Len(b) \in Nat /\ Len(b) >= 3 /\ \A k \in 0 .. Len(b) - 1 : Peek(b, k) \in Nat
      /\ RecordHeader \in Nat /\ RecordHeader >= 1 /\ BlockHeader = 2 /\ EpbFixed \in Nat /\ EpbFixed >= 3
  BY PeekFacts, PcapAssumption, WidthAssumption, SMT
<1>1. 0 \in 0 .. Len(b) - 1 /\ 2 \in 0 .. Len(b) - 1
  BY <1>0, SMT
<1>2. Peek(c, 0) = Peek(b, 0)
  BY <1>1, Zenon DEF Agree, PcapLooks
<1>3. CASE s.phase = "open"
  <2>1. Peek(c, 2) = Peek(b, 2)
    BY <1>1, <1>3, Zenon DEF Agree, PcapLooks
  <2> QED
    BY <1>2, <1>3, <2>1, Zenon DEF PcapStep, PcapFit
<1>4. CASE s.phase # "open" /\ Peek(b, 0) = PcapMagic
  <2> DEFINE p == s.cursor + RecordHeader
  <2>1. ASSUME p <= Len(b) PROVE Peek(c, p - 1) = Peek(b, p - 1)
    <3>1. p - 1 \in 0 .. Len(b) - 1
      BY <1>0, <2>1, SMT
    <3> QED
      BY <1>4, <3>1, Zenon DEF Agree, PcapLooks
  <2> HIDE DEF p
  <2>2. RecordAt(c, p) <=> RecordAt(b, p)
    BY <2>1, Zenon DEF RecordAt
  <2>3. RecordAt(b, p) => p <= Len(b)
    BY DEF RecordAt
  <2>4. ClassicStep(c, s) = ClassicStep(b, s)
    BY <2>1, <2>2, <2>3, Zenon DEF ClassicStep, p
  <2> QED
    BY <1>2, <1>4, <2>4, Zenon DEF PcapStep
<1>5. CASE s.phase # "open" /\ Peek(b, 0) # PcapMagic
  <2> DEFINE o == s.cursor
  <2>1. ASSUME o + BlockHeader <= Len(b) PROVE Peek(c, o) = Peek(b, o) /\ Peek(c, o + 1) = Peek(b, o + 1) /\ Peek(b, o + 1) \in Nat
    <3>1. o \in 0 .. Len(b) - 1 /\ o + 1 \in 0 .. Len(b) - 1
      BY <1>0, <2>1, SMT
    <3> QED
      BY <1>0, <1>5, <3>1, Zenon DEF Agree, PcapLooks
  <2>2. ASSUME BlockAt(b, o), Peek(b, o + 1) >= EpbFixed + 1
        PROVE  Peek(c, (o + EpbFixed) - 1) = Peek(b, (o + EpbFixed) - 1)
    <3>1. PICK t \in Nat : t = Peek(b, o + 1)
      BY <2>1, <2>2 DEF BlockAt
    <3>2. (o + EpbFixed) - 1 \in 0 .. Len(b) - 1
      BY <1>0, <2>2, <3>1, SMT DEF BlockAt
    <3> QED
      BY <1>5, <3>2, Zenon DEF Agree, PcapLooks
  <2>3. BlockAt(b, o) => o + BlockHeader <= Len(b)
    BY DEF BlockAt
  <2> HIDE DEF o
  <2>4. BlockAt(c, o) <=> BlockAt(b, o)
    BY <2>1, Zenon DEF BlockAt
  <2>5. BlockAt(b, o) => (PacketAt(c, o) <=> PacketAt(b, o))
    BY <2>1, <2>2, <2>3, Zenon DEF PacketAt
  <2>6. PacketAt(b, o) => Peek(b, o + 1) >= EpbFixed + 1
    BY DEF PacketAt
  <2>7. BlockStep(c, s) = BlockStep(b, s)
    BY <2>1, <2>2, <2>3, <2>4, <2>5, <2>6, Zenon DEF BlockStep, o
  <2> QED
    BY <1>2, <1>5, <2>7, Zenon DEF PcapStep
<1> QED
  BY <1>3, <1>4, <1>5

LEMMA PerfLocal ==
    ASSUME NEW b \in Seq(Cell), NEW c \in Seq(Cell), Len(c) = Len(b), Len(b) >= PerfHeader,
           NEW s, s.cursor \in Nat, s.entry \in Nat, Agree(b, c, PerfLooks(b, s)), Proceeds(PerfStep(b, s))
    PROVE  PerfStep(c, s) = PerfStep(b, s)
<1>0. Len(b) \in Nat /\ FeatureBits \in Nat /\ Len(b) >= 3 + FeatureBits /\ DescSize = 2
  BY PeekFacts, PerfAssumption DEF PerfHeader, DescSize
<1>1. ASSUME NEW k \in 0 .. 2 + FeatureBits PROVE Peek(c, k) = Peek(b, k)
  <2>1. k \in Within(0, PerfHeader) /\ k \in 0 .. Len(b) - 1
    BY <1>0, SMT DEF Within, PerfHeader
  <2> QED
    BY <2>1, Zenon DEF Agree, PerfLooks
<1>2. CASE s.phase = "open"
  <2>1. Peek(c, 0) = Peek(b, 0) /\ Peek(c, 1) = Peek(b, 1) /\ Peek(c, 2) = Peek(b, 2)
    BY <1>0, <1>1, SMT
  <2> QED
    BY <1>2, <2>1, Zenon DEF PerfStep, PerfFit
<1>3. CASE s.phase # "open" /\ s.entry > FeatureBits
  BY <1>3, Zenon DEF PerfStep
<1>4. CASE s.phase # "open" /\ ~(s.entry > FeatureBits)
  <2>1. Peek(c, 2 + s.entry) = Peek(b, 2 + s.entry)
    <3>1. 2 + s.entry \in 0 .. 2 + FeatureBits
      BY <1>0, <1>4, SMT
    <3> QED
      BY <1>1, <3>1
  <2>2. CASE Peek(b, 2 + s.entry) = 0
    BY <1>4, <2>1, <2>2, Zenon DEF PerfStep
  <2>3. CASE Peek(b, 2 + s.entry) # 0
    <3>1. DescAt(b, s.cursor)
      BY <1>4, <2>3, StateIs DEF PerfStep, Proceeds, To
    <3>2. s.cursor \in 0 .. Len(b) - 1 /\ s.cursor + 1 \in 0 .. Len(b) - 1 /\ ~(s.cursor + DescSize > Len(b))
      <4>1. s.cursor + DescSize <= Len(b)
        BY <3>1 DEF DescAt
      <4> QED
        BY <1>0, <4>1, SMT
    <3>3. Peek(c, s.cursor) = Peek(b, s.cursor) /\ Peek(c, s.cursor + 1) = Peek(b, s.cursor + 1)
      <4>1. s.cursor \in PerfLooks(b, s) /\ s.cursor + 1 \in PerfLooks(b, s)
        BY <1>4, <2>3, <3>2, Zenon DEF PerfLooks
      <4> QED
        BY <3>2, <4>1, Zenon DEF Agree
    <3> QED
      BY <1>4, <2>1, <3>3, Zenon DEF PerfStep, DescAt
  <2> QED
    BY <2>2, <2>3
<1> QED
  BY <1>2, <1>3, <1>4

(* A header that can be read lies in the file: its end has not wrapped. *)
LEMMA ReadableEnd ==
    ASSUME NEW n \in Nat, n + 3 <= U64Max, NEW p \in Nat, p <= add(p, 3), add(p, 3) <= n
    PROVE  add(p, 3) = p + 3 /\ p \in 0 .. n - 1 /\ p + 1 \in 0 .. n - 1 /\ p + 2 \in 0 .. n - 1
<1>1. U64Max \in Nat
  BY WidthAssumption
<1>2. PICK q : q = add(p, 3)
  OBVIOUS
<1>3. q \in Cell /\ (~Overflows(p, 3) => q = p + 3)
  BY <1>2, AddFacts
<1>4. p + 3 <= U64Max
  BY <1>1, <1>2, <1>3, SMT DEF Cell
<1>5. q = p + 3
  BY <1>1, <1>3, <1>4, SMT DEF Overflows
<1> QED
  BY <1>2, <1>5, SMT

LEMMA CoreLocal ==
    ASSUME NEW b \in Seq(Cell), NEW c \in Seq(Cell), Len(c) = Len(b), Len(b) >= EhdrSize, Len(b) + 3 <= U64Max,
           NEW s, s.cursor \in Nat, s.limit \in Nat, s.entry \in Nat,
           Agree(b, c, CoreLooks(b, s)), Proceeds(CoreStep(b, s))
    PROVE  CoreStep(c, s) = CoreStep(b, s)
<1>0. Len(b) \in Nat /\ Len(b) >= 3 /\ \A k \in 0 .. Len(b) - 1 : Peek(b, k) \in Nat
  BY PeekFacts DEF EhdrSize
<1>1. 0 \in 0 .. Len(b) - 1 /\ 1 \in 0 .. Len(b) - 1 /\ 2 \in 0 .. Len(b) - 1
  BY <1>0, SMT
<1>2. CASE s.phase = "open"
  <2>1. Peek(c, 0) = Peek(b, 0)
    BY <1>1, <1>2, Zenon DEF Agree, CoreLooks
  <2> QED
    BY <1>2, <2>1, Zenon DEF CoreStep
<1>3. CASE s.phase = "notes"
  <2>0. s.phase # "open"
    BY <1>3
  <2> DEFINE o == s.cursor
  <2>1. CoreStep(b, s) = NoteStep(b, s) /\ CoreStep(c, s) = NoteStep(c, s)
    BY <1>3, <2>0, Zenon DEF CoreStep
  <2>2. CASE ~(add(o, NoteHeader) <= s.limit)
    BY <2>1, <2>2, Zenon DEF NoteStep
  <2>3. CASE add(o, NoteHeader) <= s.limit
    <3>1. o <= add(o, NoteHeader) /\ add(o, NoteHeader) <= Len(b)
      <4>1. NoteStep(b, s).phase # "panic"
        BY <2>1 DEF Proceeds
      <4>2. To(s, "panic").phase = "panic"
        BY StateIs DEF To
      <4> QED
        BY <2>3, <4>1, <4>2, Zenon DEF NoteStep
    <3>2. o \in 0 .. Len(b) - 1 /\ o + 1 \in 0 .. Len(b) - 1 /\ o + 2 \in 0 .. Len(b) - 1
      BY <1>0, <3>1, ReadableEnd DEF NoteHeader
    <3>3. o \in CoreLooks(b, s) /\ o + 1 \in CoreLooks(b, s) /\ o + 2 \in CoreLooks(b, s)
      BY <1>3, <2>0, <2>3, Zenon DEF CoreLooks
    <3>4. Peek(c, o) = Peek(b, o) /\ Peek(c, o + 1) = Peek(b, o + 1) /\ Peek(c, o + 2) = Peek(b, o + 2)
      BY <3>2, <3>3, Zenon DEF Agree
    <3>5. NoteStep(c, s) = NoteStep(b, s)
      BY <3>4, Zenon DEF NoteStep
    <3> QED
      BY <2>1, <3>5
  <2> QED
    BY <2>2, <2>3
<1>4. CASE s.phase # "open" /\ s.phase # "notes"
  <2>1. Peek(c, 1) = Peek(b, 1) /\ Peek(c, 2) = Peek(b, 2)
    <3>1. 1 \in CoreLooks(b, s) /\ 2 \in CoreLooks(b, s)
      BY <1>4, Zenon DEF CoreLooks
    <3> QED
      BY <1>1, <3>1, Zenon DEF Agree
  <2>2. CASE s.entry >= Peek(b, 2)
    BY <1>4, <2>1, <2>2, Zenon DEF CoreStep
  <2>3. CASE ~(s.entry >= Peek(b, 2))
    <3> DEFINE p == PhdrAt(b, s)
    <3>1. CoreStep(b, s) = PhdrStep(b, s) /\ CoreStep(c, s) = PhdrStep(c, s)
      BY <1>4, <2>1, <2>3, Zenon DEF CoreStep
    <3>2. PhdrAt(c, s) = p
      BY <2>1, Zenon DEF PhdrAt
    <3>3. p \in Nat
      <4>1. PICK a \in Nat, e \in Nat : a = Peek(b, 1) /\ e = s.entry * PhdrSize
        BY <1>0, <1>1, SMT DEF PhdrSize
      <4>2. add(a, e) \in Cell
        BY AddFacts
      <4> QED
        BY <4>1, <4>2, WidthAssumption, SMT DEF PhdrAt, Cell
    <3> HIDE DEF p
    <3>4. p <= add(p, PhdrSize) /\ add(p, PhdrSize) <= Len(b)
      <4>1. PhdrStep(b, s).phase # "panic" /\ PhdrStep(b, s).phase # "error"
        BY <3>1 DEF Proceeds
      <4>2. To(s, "panic").phase = "panic" /\ To(s, "error").phase = "error"
        BY StateIs DEF To
      <4> QED
        BY <4>1, <4>2, Zenon DEF PhdrStep, p
    <3>5. p \in 0 .. Len(b) - 1 /\ p + 1 \in 0 .. Len(b) - 1 /\ p + 2 \in 0 .. Len(b) - 1
      BY <1>0, <3>3, <3>4, ReadableEnd DEF PhdrSize
    <3>6. p \in CoreLooks(b, s) /\ p + 1 \in CoreLooks(b, s) /\ p + 2 \in CoreLooks(b, s)
      BY <1>4, <2>3, Zenon DEF CoreLooks, p
    <3>7. Peek(c, p) = Peek(b, p) /\ Peek(c, p + 1) = Peek(b, p + 1) /\ Peek(c, p + 2) = Peek(b, p + 2)
      BY <3>5, <3>6, Zenon DEF Agree
    <3>8. PhdrStep(c, s) = PhdrStep(b, s)
      BY <3>2, <3>7, Zenon DEF PhdrStep, p
    <3> QED
      BY <3>1, <3>8
  <2> QED
    BY <2>2, <2>3
<1> QED
  BY <1>2, <1>3, <1>4

LEMMA Local ==
    ASSUME NEW h, NEW b \in Seq(Cell), NEW c \in Seq(Cell), Len(c) = Len(b), Len(b) + 3 <= U64Max,
           h = "pcap" => Len(b) >= PcapHeader, h = "perf" => Len(b) >= PerfHeader, h = "elf-core" => Len(b) >= EhdrSize,
           NEW s, s.cursor \in Nat, s.limit \in Nat, s.entry \in Nat,
           Agree(b, c, Looks(h, b, s)), Proceeds(WalkStep(h, b, s))
    PROVE  WalkStep(h, c, s) = WalkStep(h, b, s)
<1>1. CASE h = "jfr"
  BY <1>1, JfrLocal, Zenon DEF WalkStep, Looks
<1>2. CASE h = "hprof"
  <2>1. h # "jfr"
    BY <1>2
  <2> QED
    BY <1>2, <2>1, HprofLocal, Zenon DEF WalkStep, Looks
<1>3. CASE h = "pcap"
  <2>1. h # "jfr" /\ h # "hprof"
    BY <1>3
  <2> QED
    BY <1>3, <2>1, PcapLocal, Zenon DEF WalkStep, Looks
<1>4. CASE h = "perf"
  <2>1. h # "jfr" /\ h # "hprof" /\ h # "pcap"
    BY <1>4
  <2> QED
    BY <1>4, <2>1, PerfLocal, Zenon DEF WalkStep, Looks
<1>5. CASE h = "elf-core"
  <2>1. h # "jfr" /\ h # "hprof" /\ h # "pcap" /\ h # "perf"
    BY <1>5
  <2> QED
    BY <1>5, <2>1, CoreLocal, Zenon DEF WalkStep, Looks
<1>6. CASE h \notin {"jfr", "hprof", "pcap", "perf", "elf-core"}
  BY <1>6, Zenon DEF WalkStep
<1> QED
  BY <1>1, <1>2, <1>3, <1>4, <1>5, <1>6

-----------------------------------------------------------------------------
(* A block behind one that is a start is a start. *)
LEMMA StartsClosed ==
    ASSUME NEW b \in Seq(Cell), NEW g, IsStarts(g, b), NEW p \in 0 .. Len(b), p \in g[0], Goes(b, p)
    PROVE  p + b[p + 2] \in g[0]
<1> DEFINE n == Len(b)
           Right == {o \in 0 .. n : p \in g[o] => p + b[p + 2] \in g[o]}
<1>1. n \in Nat
  BY LenProperties
<1>2. ASSUME NEW o \in 0 .. n, \A q \in o + 1 .. n : q \in Right PROVE o \in Right
  <2> SUFFICES ASSUME p \in g[o] PROVE p + b[p + 2] \in g[o]
    OBVIOUS
  <2>1. g[o] = From(b, g, o)
    BY StartsStep
  <2>2. CASE p = o
    <3>1. PICK q \in o + 1 .. n : q = o + b[o + 2]
      BY <2>2, GoesOn
    <3>2. q \in 0 .. n
      BY <1>1
    <3>3. q \in g[q]
      BY <3>2, StartsStep DEF From
    <3> QED
      BY <2>1, <2>2, <3>1, <3>3 DEF From
  <2>3. CASE p # o
    <3>1. Goes(b, o)
      BY <2>1, <2>3 DEF From
    <3>2. PICK q \in o + 1 .. n : q = o + b[o + 2]
      BY <3>1, GoesOn
    <3>3. p \in g[q] /\ g[q] \subseteq g[o]
      BY <2>1, <2>3, <3>1, <3>2 DEF From
    <3> QED
      BY <1>2, <3>2, <3>3
  <2> QED
    BY <2>2, <2>3
<1>3. 0 .. n \subseteq Right
  <2> HIDE DEF Right, n
  <2> QED
    BY <1>1, <1>2, LastWrong
<1>4. 0 \in 0 .. n
  BY <1>1
<1> QED
  BY <1>3, <1>4

LEMMA BlocksFollow ==
    ASSUME Typed
    PROVE  /\ 0 \in BlockStarts
           /\ cursor \in BlockStarts /\ BlockFits => cursor + block_total \in BlockStarts
<1>1. PICK g : IsStarts(g, bytes) /\ BlockStarts = g[0]
  BY BlockStartsIs, StartsInIs DEF Typed
<1>2. len \in Nat /\ cursor \in Nat /\ BlockHeader = 2
  BY CellFacts, PcapAssumption DEF Typed
<1>3. 0 \in g[0]
  <2>1. 0 \in 0 .. Len(bytes)
    BY <1>2 DEF len
  <2> QED
    BY <1>1, <2>1, StartsStep DEF From
<1>4. ASSUME cursor \in BlockStarts, BlockFits PROVE cursor + block_total \in g[0]
  <2>1. cursor \in 0 .. Len(bytes) /\ cursor + 1 + 1 = cursor + 2
    BY <1>2, <1>4, SMT DEF BlockFits, len
  <2>2. block_total = bytes[cursor + 2]
    BY <2>1 DEF block_total, at
  <2>3. Goes(bytes, cursor)
    BY <1>4, <2>2 DEF Goes, BlockFits, len
  <2> QED
    BY <1>1, <1>4, <2>1, <2>2, <2>3, StartsClosed DEF Typed
<1> QED
  BY <1>1, <1>3, <1>4

(* A walk adds to what it has collected. *)
LEMMA Longer ==
    ASSUME Typed, NEW r, recs' = Append(recs, r)
    PROVE  /\ Len(recs) \in Nat /\ Len(recs') = Len(recs) + 1
           /\ DOMAIN recs \subseteq DOMAIN recs' /\ \A i \in DOMAIN recs : recs'[i] = recs[i]
           /\ \A i \in DOMAIN recs' : (i \in DOMAIN recs /\ recs'[i] = recs[i]) \/ recs'[i] = r
           /\ \E i \in DOMAIN recs' : recs'[i] = r
<1> DEFINE S == Rec \cup {r}
<1>1. recs \in Seq(S) /\ r \in S
  <2>1. \A i \in 1 .. Len(recs) : recs[i] \in S
    BY ElementOfSeq DEF Typed
  <2> QED
    BY <2>1, LenProperties DEF Typed
<1>2. Len(recs) \in Nat /\ DOMAIN recs = 1 .. Len(recs)
  BY LenProperties DEF Typed
<1> HIDE DEF S
<1>3. /\ recs' \in Seq(S)
      /\ Len(recs') = Len(recs) + 1
      /\ \A i \in 1 .. Len(recs) : recs'[i] = recs[i]
      /\ recs'[Len(recs) + 1] = r
  BY <1>1, AppendProperties
<1>4. DOMAIN recs' = 1 .. Len(recs) + 1
  BY <1>3, LenProperties
<1>5. /\ \A i \in 1 .. Len(recs) + 1 : i \in 1 .. Len(recs) \/ i = Len(recs) + 1
      /\ Len(recs) + 1 \in 1 .. Len(recs) + 1 /\ 1 .. Len(recs) \subseteq 1 .. Len(recs) + 1
  BY <1>2, SMT
<1> QED
  BY <1>2, <1>3, <1>4, <1>5

LEMMA Grows ==
    ASSUME Opening
    PROVE  recs' = recs \/ \E r : recs' = Append(recs, r)
  BY OpeningOf DEF Opening, fallback, Fail, Panic, Keep,
         JfrNext, JfrOpen, JfrChunk, JfrInvalid, JfrEnd, JfrWalking,
         HprofNext, HprofOpen, HprofRecord, HprofPastEnd, HprofEnd, HprofWalking,
         PcapNext, PcapOpen, ClassicRecord, ClassicEnd, PacketBlock, OtherBlock, BlocksEnd, PcapWalking, Stop,
         PerfNext, PerfOpen, PerfNoFeature, PerfFeature, PerfPastEnd, PerfEnd, PerfWalking,
         CoreNext, CoreOpen, PhdrWrapped, PhdrPastEnd, PhdrLoad, PhdrNote, PhdrOther, CoreEnd,
         NoteWrapped, NotePastEnd, Note, NotesEnd, CoreWalking, InNotes, PassthroughOpen

LEMMA FramingNext ==
    /\ handler' = "jfr" => Framing' = JfrFraming'
    /\ handler' = "hprof" => Framing' = HprofFraming'
    /\ handler' = "pcap" => Framing' = PcapFraming'
    /\ handler' = "perf" => Framing' = PerfFraming'
    /\ handler' = "elf-core" => Framing' = CoreFraming'
    /\ handler' = fallback => Framing' = {}
  BY DEF Framing, fallback

(* Framing that has been found stays framing. *)
LEMMA FramingGrows ==
    ASSUME Inv, Opening
    PROVE  Framing \subseteq Framing'
<1>1. UNCHANGED <<handler, bytes>> /\ Typed
      /\ handler \in {"jfr", "hprof", "pcap", "perf", "elf-core", fallback}
  BY OpeningOf DEF Inv
<1>2. len' = len /\ nul' = nul /\ Classic' = Classic /\ BlockStarts' = BlockStarts
      /\ data_offset' = data_offset /\ data_size' = data_size /\ e_phoff' = e_phoff /\ e_phnum' = e_phnum
  BY <1>1, IdKept, BlockStartsIs DEF len, Classic, at, data_offset, data_size, e_phoff, e_phnum
<1>3. DOMAIN recs \subseteq DOMAIN recs' /\ \A i \in DOMAIN recs : recs'[i] = recs[i]
  BY <1>1, Grows, Longer
<1>4. CASE handler = "jfr"
  <2>1. JfrFraming \subseteq JfrFraming'
    BY <1>3 DEF JfrFraming, Within
  <2> QED
    BY <1>1, <1>4, <2>1, FramingOf, FramingCases, FramingNext
<1>5. CASE handler = "hprof"
  <2>1. HprofFraming \subseteq HprofFraming'
    BY <1>2, <1>3 DEF HprofFraming, Within
  <2> QED
    BY <1>1, <1>5, <2>1, FramingOf, FramingCases, FramingNext
<1>6. CASE handler = "pcap"
  <2>1. PcapFraming \subseteq PcapFraming'
    BY <1>2, <1>3 DEF PcapFraming, Within
  <2> QED
    BY <1>1, <1>6, <2>1, FramingOf, FramingCases, FramingNext
<1>7. CASE handler = "perf"
  <2>1. PerfFraming \subseteq PerfFraming'
    <3>1. CASE recs' = recs
      BY <1>2, <3>1 DEF PerfFraming, Within, PerfHeader, DescSize
    <3>2. CASE recs' # recs
      <4>1. PerfFeature
        BY <1>7, <3>2, OpeningOf DEF PerfNext, PerfOpen, PerfNoFeature, PerfPastEnd, PerfEnd, Fail
      <4>2. Len(recs) \in Nat /\ Len(recs') = Len(recs) + 1
        BY <1>1, <4>1, Longer DEF PerfFeature
      <4>3. data_offset \in Nat /\ data_size \in Nat
        <5>1. len >= PerfHeader /\ PerfHeader >= 3
          BY <4>1, PerfAssumption, SMT DEF Inv, OpenMatch, Walked, PerfFeature, PerfWalking, PerfHeader
        <5>2. 1 \in 0 .. len - 1 /\ 2 \in 0 .. len - 1
          BY <1>1, <5>1, CellFacts, PerfAssumption, SMT DEF PerfHeader
        <5> QED
          BY <1>1, <5>2, CellFacts DEF data_offset, data_size
      <4>4. Within(data_offset + data_size, data_offset + data_size + DescSize * Len(recs))
            \subseteq Within(data_offset + data_size, data_offset + data_size + DescSize * Len(recs'))
        BY <4>2, <4>3, SMT DEF Within, DescSize
      <4> QED
        BY <1>2, <4>4 DEF PerfFraming, Within, PerfHeader, DescSize
    <3> QED
      BY <3>1, <3>2
  <2> QED
    BY <1>1, <1>7, <2>1, FramingOf, FramingCases, FramingNext
<1>8. CASE handler = "elf-core"
  <2>1. CoreFraming \subseteq CoreFraming'
    BY <1>2, <1>3 DEF CoreFraming, Within, EhdrSize, PhdrSize
  <2> QED
    BY <1>1, <1>8, <2>1, FramingOf, FramingCases, FramingNext
<1>9. CASE handler = fallback
  BY <1>9, FramingCases
<1> QED
  BY <1>1, <1>4, <1>5, <1>6, <1>7, <1>8, <1>9

-----------------------------------------------------------------------------
PcapAhead ==
    phase \in {"walk", "opened", "scanned"} =>
        /\ ~Classic => cursor \in BlockStarts
        /\ \A i \in DOMAIN recs : recs[i].offset + PcapTail(recs[i]) <= cursor

LEMMA PcapStaysAhead ==
    ASSUME Inv, handler = "pcap", Opening, phase \in {"walk", "opened", "scanned"} => PcapAhead
    PROVE  PcapAhead'
<1>1. UNCHANGED <<handler, bytes>> /\ Typed /\ phase \in {"open", "walk", "notes"}
      /\ phase' \in {"walk", "notes", "opened", "error", "panic"} /\ PcapNext
  BY OpeningOf DEF Inv
<1>2. BlockStarts' = BlockStarts /\ Classic' = Classic
  BY <1>1, BlockStartsIs DEF Classic, at
<1>3. /\ RecordHeader \in Nat /\ PcapHeader \in Nat /\ EpbFixed \in Nat /\ cursor \in Nat /\ len \in Nat
      /\ EpbFixed >= 3 /\ BlockHeader = 2
  BY <1>1, CellFacts, PcapAssumption, WidthAssumption, SMT DEF Typed
<1>4. \A r : PcapTail(r)' = PcapTail(r)
  BY <1>2 DEF PcapTail
<1>5. \A i \in DOMAIN recs : recs[i].offset \in Nat /\ PcapTail(recs[i]) \in Nat
  BY <1>1, RecFacts DEF PcapTail
<1>6. CASE PcapOpen
  <2>1. CASE phase' = "error"
    BY <2>1 DEF PcapAhead
  <2>2. CASE phase' # "error"
    <3>1. phase = "open" /\ recs' = recs /\ cursor' = IF Classic THEN PcapHeader ELSE 0
      BY <1>6, <2>2 DEF PcapOpen, Fail
    <3>2. recs = <<>>
      BY <3>1 DEF Inv, OpenMatch
    <3> QED
      BY <1>1, <1>2, <3>1, <3>2, BlocksFollow DEF PcapAhead
  <2> QED
    BY <2>1, <2>2
<1>7. ASSUME phase = "walk", cursor' \in Nat, cursor <= cursor', ~Classic => cursor' \in BlockStarts,
             recs' = recs
                 \/ \E r : recs' = Append(recs, r) /\ r.offset + PcapTail(r) <= cursor'
      PROVE  PcapAhead'
  <2>1. \A i \in DOMAIN recs : recs[i].offset + PcapTail(recs[i]) <= cursor'
    <3>1. \A i \in DOMAIN recs : recs[i].offset + PcapTail(recs[i]) <= cursor
      BY <1>7 DEF PcapAhead
    <3> QED
      BY <1>3, <1>5, <1>7, <3>1, SMT
  <2>2. \A i \in DOMAIN recs' : recs'[i].offset + PcapTail(recs'[i]) <= cursor'
    <3>1. CASE recs' = recs
      BY <2>1, <3>1
    <3>2. CASE recs' # recs
      <4>1. PICK r : recs' = Append(recs, r) /\ r.offset + PcapTail(r) <= cursor'
        BY <1>7, <3>2
      <4>2. \A i \in DOMAIN recs' : (i \in DOMAIN recs /\ recs'[i] = recs[i]) \/ recs'[i] = r
        BY <1>1, <4>1, Longer
      <4> QED
        BY <2>1, <4>1, <4>2
    <3> QED
      BY <3>1, <3>2
  <2> QED
    BY <1>2, <1>4, <1>7, <2>2 DEF PcapAhead
<1>8. CASE ClassicRecord
  <2> DEFINE r == [offset |-> payload_off, len |-> captured]
  <2>1. Classic /\ phase = "walk" /\ recs' = Append(recs, r) /\ cursor' = payload_off + captured /\ payload_off <= len
    BY <1>8 DEF ClassicRecord, PcapWalking, Keep, RecordFits
  <2>2. payload_off \in Nat /\ captured \in Nat /\ cursor <= payload_off + captured
    <3>1. payload_off \in Nat /\ cursor <= payload_off
      BY <1>3, SMT DEF payload_off
    <3>2. payload_off - 1 \in 0 .. len - 1
      BY <1>3, <2>1, PcapAssumption, WidthAssumption, SMT DEF payload_off
    <3>3. captured \in Nat
      BY <1>1, <3>2, CellFacts DEF captured
    <3> QED
      BY <1>3, <3>1, <3>3, SMT
  <2>3. r.offset + PcapTail(r) = cursor'
    BY <2>1 DEF PcapTail
  <2>4. cursor' \in Nat
    BY <2>1, <2>2
  <2>5. cursor' <= cursor'
    BY <2>4, SMT
  <2> HIDE DEF r
  <2> QED
    BY <1>7, <2>1, <2>2, <2>3, <2>4, <2>5
<1>9. CASE PacketBlock \/ OtherBlock
  <2>1. ~Classic /\ phase = "walk" /\ BlockFits /\ cursor' = cursor + block_total
    BY <1>9 DEF PacketBlock, OtherBlock, PcapWalking
  <2>2. block_total \in Nat
    <3>1. cursor + 1 \in 0 .. len - 1
      BY <1>3, <2>1, SMT DEF BlockFits
    <3> QED
      BY <1>1, <3>1, CellFacts DEF block_total
  <2>3. cursor' \in Nat /\ cursor <= cursor'
    BY <1>3, <2>1, <2>2, SMT
  <2>4. cursor' \in BlockStarts
    BY <1>1, <2>1, BlocksFollow DEF PcapAhead
  <2>5. CASE OtherBlock
    BY <1>7, <2>1, <2>3, <2>4, <2>5 DEF OtherBlock
  <2>6. CASE PacketBlock
    <3> DEFINE r == [offset |-> epb_payload, len |-> cap_len]
    <3>1. recs' = Append(recs, r) /\ block_total >= EpbFixed + 1
      BY <2>6 DEF PacketBlock, Keep, IsPacket
    <3>2. r.offset + PcapTail(r) <= cursor'
      <4>1. r.offset = cursor + EpbFixed /\ PcapTail(r) = 1
        BY <2>1 DEF PcapTail, epb_payload
      <4> QED
        BY <1>3, <2>1, <2>2, <3>1, <4>1, SMT
    <3> HIDE DEF r
    <3> QED
      BY <1>7, <2>1, <2>3, <2>4, <3>1, <3>2
  <2> QED
    BY <1>9, <2>5, <2>6
<1>10. CASE ClassicEnd \/ BlocksEnd
  <2>1. phase = "walk" /\ UNCHANGED <<cursor, recs>>
    BY <1>10 DEF ClassicEnd, BlocksEnd, PcapWalking, Stop
  <2> QED
    BY <1>2, <1>4, <2>1 DEF PcapAhead
<1> QED
  BY <1>1, <1>6, <1>8, <1>9, <1>10 DEF PcapNext

LEMMA PerfStaysAhead ==
    ASSUME Inv, handler = "perf", Opening,
           phase = "walk" => cursor = data_offset + data_size + DescSize * Len(recs)
    PROVE  phase' = "walk" => cursor' = data_offset' + data_size' + DescSize * Len(recs')
<1>1. UNCHANGED <<handler, bytes>> /\ Typed /\ PerfNext
  BY OpeningOf DEF Inv
<1>2. data_offset' = data_offset /\ data_size' = data_size
  BY <1>1 DEF data_offset, data_size, at
<1>3. CASE PerfOpen /\ PerfOpenable
  <2>1. recs' = <<>> /\ cursor' = data_offset + data_size
    BY <1>3 DEF PerfOpen, Inv, OpenMatch
  <2>2. data_offset \in Nat /\ data_size \in Nat /\ Len(recs') = 0
    <3>1. 1 \in 0 .. len - 1 /\ 2 \in 0 .. len - 1
      BY <1>1, <1>3, CellFacts, PerfAssumption, SMT DEF PerfHeader, PerfOpenable
    <3> QED
      BY <1>1, <2>1, <3>1, CellFacts DEF data_offset, data_size
  <2>3. data_offset + data_size + 2 * 0 = data_offset + data_size
    BY <2>2, SMT
  <2> QED
    BY <1>2, <2>1, <2>2, <2>3 DEF DescSize
<1>4. CASE PerfFeature
  <2>1. phase = "walk" /\ cursor' = cursor + DescSize /\ Len(recs') = Len(recs) + 1 /\ Len(recs) \in Nat
    BY <1>1, <1>4, Longer DEF PerfFeature, PerfWalking
  <2>2. data_offset \in Nat /\ data_size \in Nat
    <3>1. 1 \in 0 .. len - 1 /\ 2 \in 0 .. len - 1
      BY <1>1, <2>1, CellFacts, PerfAssumption, SMT DEF PerfHeader, Inv, OpenMatch, Walked
    <3> QED
      BY <1>1, <3>1, CellFacts DEF data_offset, data_size
  <2>3. cursor + 2 = data_offset + data_size + 2 * (Len(recs) + 1)
    BY <2>1, <2>2, SMT DEF DescSize
  <2> QED
    BY <1>2, <2>1, <2>3 DEF DescSize
<1>5. CASE PerfNoFeature \/ PerfEnd
  BY <1>2, <1>5 DEF PerfNoFeature, PerfEnd, PerfWalking, DescSize
<1>6. CASE PerfPastEnd \/ (PerfOpen /\ ~PerfOpenable)
  BY <1>6 DEF PerfPastEnd, PerfOpen, Fail
<1> QED
  BY <1>1, <1>3, <1>4, <1>5, <1>6 DEF PerfNext

(* Where the next program header lies: the table has not wrapped before it. *)
CoreAhead == entry = 0 \/ e_phoff + entry * PhdrSize <= len
LEMMA HeaderPlace ==
    ASSUME Inv, CoreWalking, CoreAhead
    PROVE  ph = e_phoff + entry * PhdrSize /\ e_phoff \in Nat /\ e_phnum \in Nat /\ entry \in Nat /\ ph \in Nat
<1>1. Typed /\ len >= 3
  BY DEF Inv, OpenMatch, Walked, CoreWalking, EhdrSize
<1>2. 1 \in 0 .. len - 1 /\ 2 \in 0 .. len - 1 /\ len \in Nat /\ U64Max \in Nat /\ len <= U64Max
  BY <1>1, CellFacts, SMT
<1>3. e_phoff \in Cell /\ e_phoff \in Nat /\ e_phnum \in Nat /\ entry \in Nat
  BY <1>1, <1>2, CellFacts DEF e_phoff, e_phnum, Typed
<1>4. PICK e \in Nat : e = entry * PhdrSize
  BY <1>3, SMT DEF PhdrSize
<1>5. e_phoff + e <= U64Max
  <2>1. entry = 0 => e = 0
    BY <1>4 DEF PhdrSize
  <2> QED
    BY <1>2, <1>3, <1>4, <2>1, SMT DEF CoreAhead, Cell
<1>6. add(e_phoff, e) = e_phoff + e
  BY <1>2, <1>3, <1>5, AddFacts, SMT DEF Overflows
<1> QED
  BY <1>3, <1>4, <1>6, SMT DEF ph

LEMMA ReadableHeader ==
    ASSUME Inv, CoreWalking, HeaderReadable, CoreAhead
    PROVE  ph_end = ph + PhdrSize /\ ph \in Nat /\ ph + PhdrSize <= len
<1>1. ph \in Nat /\ Typed
  BY HeaderPlace DEF Inv
<1>2. len \in Nat /\ len + 3 <= U64Max
  BY <1>1, CellFacts
<1>3. ph <= add(ph, 3) /\ add(ph, 3) <= len
  BY DEF HeaderReadable, SliceExists, ph_end, PhdrSize
<1>4. add(ph, 3) = ph + 3
  BY <1>1, <1>2, <1>3, ReadableEnd
<1> QED
  BY <1>1, <1>3, <1>4 DEF ph_end, PhdrSize

LEMMA CoreStaysAhead ==
    ASSUME Inv, handler = "elf-core", Opening,
           phase = "open" => entry = 0,
           phase \in {"walk", "notes"} => CoreAhead
    PROVE  phase' \in {"walk", "notes"} => CoreAhead'
<1>1. UNCHANGED <<handler, bytes>> /\ Typed /\ CoreNext
  BY OpeningOf DEF Inv
<1>2. e_phoff' = e_phoff /\ len' = len
  BY <1>1 DEF e_phoff, at, len
<1>3. CASE CoreOpen \/ CoreEnd \/ NoteWrapped \/ NotePastEnd \/ Note \/ NotesEnd \/ PhdrWrapped \/ PhdrPastEnd
  <2>1. entry' = entry
    BY <1>3 DEF CoreOpen, CoreEnd, NoteWrapped, NotePastEnd, Note, NotesEnd, PhdrWrapped, PhdrPastEnd, Fail, Panic
  <2>2. phase' \in {"walk", "notes"} => phase \in {"open", "walk", "notes"}
    BY OpeningOf
  <2> QED
    BY <1>2, <2>1, <2>2 DEF CoreAhead, PhdrSize
<1>4. CASE PhdrLoad \/ PhdrNote \/ PhdrOther
  <2>1. CoreWalking /\ HeaderReadable /\ entry' = entry + 1 /\ phase = "walk"
    BY <1>4 DEF PhdrLoad, PhdrNote, PhdrOther, CoreWalking
  <2>2. ph = e_phoff + entry * PhdrSize /\ e_phoff \in Nat /\ entry \in Nat /\ ph + PhdrSize <= len
    BY <2>1, HeaderPlace, ReadableHeader
  <2>3. e_phoff + (entry + 1) * PhdrSize = ph + PhdrSize
    BY <2>2, SMT DEF PhdrSize
  <2> QED
    BY <1>2, <2>1, <2>2, <2>3 DEF CoreAhead, PhdrSize
<1> QED
  BY <1>1, <1>3, <1>4 DEF CoreNext

LEMMA AheadIs ==
    Ahead <=> /\ phase \in {"dispatch", "open"} => entry = 0 /\ limit = 0
              /\ handler = "pcap" => PcapAhead
              /\ handler = "perf" /\ phase = "walk" => cursor = data_offset + data_size + DescSize * Len(recs)
              /\ handler = "elf-core" /\ phase \in {"walk", "notes"} => CoreAhead
  BY Zenon DEF Ahead, PcapAhead, CoreAhead

LEMMA AheadIsNext ==
    Ahead' <=> /\ phase' \in {"dispatch", "open"} => entry' = 0 /\ limit' = 0
               /\ handler' = "pcap" => PcapAhead'
               /\ handler' = "perf" /\ phase' = "walk" => cursor' = data_offset' + data_size' + DescSize * Len(recs')
               /\ handler' = "elf-core" /\ phase' \in {"walk", "notes"} => CoreAhead'
  BY Zenon DEF Ahead, PcapAhead, CoreAhead, DescSize

LEMMA AheadStep == Inv /\ Ahead /\ [Next]_allvars => Ahead'
<1> SUFFICES ASSUME Inv, Ahead, [Next]_allvars PROVE Ahead'
  OBVIOUS
<1>1. CASE Opening
  <2>1. handler' = handler /\ phase \in {"open", "walk", "notes"} /\ phase' \notin {"dispatch", "open"}
    BY <1>1, OpeningOf
  <2>2. handler = "pcap" => PcapAhead'
    BY <1>1, PcapStaysAhead, AheadIs
  <2>3. handler = "perf" /\ phase' = "walk" => cursor' = data_offset' + data_size' + DescSize * Len(recs')
    BY <1>1, PerfStaysAhead, AheadIs
  <2>4. handler = "elf-core" /\ phase' \in {"walk", "notes"} => CoreAhead'
    BY <1>1, CoreStaysAhead, AheadIs
  <2> QED
    BY <2>1, <2>2, <2>3, <2>4, AheadIsNext
<1>2. CASE Dispatching
  <2>1. phase = "dispatch" /\ phase' \in {"open", "elsewhere", "error"} /\ UNCHANGED <<entry, limit>>
    BY <1>2 DEF Dispatching, Route, RouteTo, OpenWith, Fail
  <2> QED
    BY <2>1 DEF Ahead
<1>3. CASE ChunksPanic
  BY <1>3 DEF ChunksPanic, Panic, Ahead
<1>4. CASE ScanOwn \/ ScanStray \/ UNCHANGED allvars
  <2>1. /\ UNCHANGED <<handler, bytes, cursor, entry, limit, recs>>
        /\ phase' = phase \/ (phase = "opened" /\ phase' \in {"clean", "scanned"})
    BY <1>4 DEF ScanOwn, ScanStray, ScanWith, Scannable, allvars, vars
  <2>2. BlockStarts' = BlockStarts /\ Classic' = Classic
    BY <2>1, BlockStartsIs DEF Classic, at
  <2>3. PcapAhead => PcapAhead'
    BY <2>1, <2>2 DEF PcapAhead, PcapTail
  <2>4. CoreAhead => CoreAhead'
    BY <2>1 DEF CoreAhead, e_phoff, at, len, PhdrSize
  <2>5. data_offset' = data_offset /\ data_size' = data_size /\ recs' = recs
    BY <2>1 DEF data_offset, data_size, at
  <2> QED
    BY <2>1, <2>3, <2>4, <2>5, AheadIs, AheadIsNext
<1>5. CASE Guard \/ EditHit \/ EditEnd
  BY <1>5 DEF Guard, EditHit, EditEnd, Ahead
<1>6. CASE Reopen
  BY <1>6 DEF Reopen, Ahead
<1> QED
  BY <1>1, <1>2, <1>3, <1>4, <1>5, <1>6 DEF Next

-----------------------------------------------------------------------------
(* What a step that does not fail has looked at is framing afterwards. *)
Alive == Active \cup {"opened"}

LEMMA JfrSeen ==
    ASSUME Inv, handler = "jfr", Opening, phase' \in Alive
    PROVE  JfrLooks(bytes, here) \cap Positions \subseteq Framing'
<1>1. Typed /\ JfrNext /\ handler' = "jfr" /\ cursor \in Nat /\ len \in Nat
  BY OpeningOf, CellFacts DEF Inv, Typed
<1>2. phase = "open" => JfrLooks(bytes, here) = {}
  BY HereIs DEF JfrLooks
<1>3. JfrLooks(bytes, here) \subseteq {cursor, cursor + 1}
  BY HereIs DEF JfrLooks
<1>4. CASE JfrChunk
  <2> DEFINE r == [offset |-> cursor, len |-> chunk_size]
  <2>1. recs' = Append(recs, r)
    BY <1>4 DEF JfrChunk
  <2>2. r.offset = cursor
    OBVIOUS
  <2> HIDE DEF r
  <2>3. PICK i \in DOMAIN recs' : recs'[i] = r
    BY <1>1, <2>1, Longer
  <2>4. {cursor, cursor + 1} \subseteq Within(cursor, cursor + JfrHeader)
    BY <1>1, JfrAssumption, WidthAssumption, SMT DEF Within
  <2>5. Within(cursor, cursor + JfrHeader) \subseteq JfrFraming'
    BY <2>2, <2>3 DEF JfrFraming, Within
  <2> QED
    BY <1>1, <1>3, <2>4, <2>5, FramingNext
<1>5. CASE JfrEnd
  <2>1. cursor >= len
    BY <1>5 DEF JfrEnd
  <2>2. {cursor, cursor + 1} \cap Positions = {}
    BY <1>1, <2>1, SMT DEF Positions
  <2> QED
    BY <1>3, <2>2
<1>6. CASE JfrOpen
  BY <1>2, <1>6 DEF JfrOpen
<1>7. CASE JfrInvalid
  BY <1>7 DEF JfrInvalid, Fail, Alive, Active
<1> QED
  BY <1>1, <1>4, <1>5, <1>6, <1>7 DEF JfrNext

LEMMA HprofSeen ==
    ASSUME Inv, handler = "hprof", Opening, phase' \in Alive
    PROVE  HprofLooks(bytes, here) \cap Positions \subseteq Framing'
<1>1. Typed /\ HprofNext /\ handler' = "hprof" /\ bytes' = bytes /\ cursor \in Nat /\ len \in Nat
  BY OpeningOf, CellFacts DEF Inv, Typed
<1>2. CASE HprofOpen
  <2>1. HprofLooks(bytes, here) = Within(0, nul + 2)
    BY <1>2, HereIs, NulOfIs DEF HprofLooks, HprofOpen
  <2>2. nul' = nul
    BY <1>1, IdKept
  <2>3. Within(0, nul + 2) \subseteq HprofFraming'
    BY <2>2 DEF HprofFraming, Within
  <2> QED
    BY <1>1, <2>1, <2>3, FramingNext
<1>3. CASE HprofRecord
  <2> DEFINE r == [offset |-> body_offset, len |-> at(cursor + 1), tag |-> tag]
  <2>1. recs' = Append(recs, r) /\ phase = "walk"
    BY <1>3 DEF HprofRecord, HprofWalking
  <2>2. r.offset = cursor + HprofHeader
    BY DEF body_offset
  <2> HIDE DEF r
  <2>3. PICK i \in DOMAIN recs' : recs'[i] = r
    BY <1>1, <2>1, Longer
  <2>4. HprofLooks(bytes, here) \subseteq {cursor, cursor + 1}
    BY <2>1, HereIs DEF HprofLooks
  <2>5. {cursor, cursor + 1} \subseteq Within((cursor + HprofHeader) - HprofHeader, cursor + HprofHeader)
    BY <1>1, HprofAssumption, WidthAssumption, SMT DEF Within
  <2>6. Within(r.offset - HprofHeader, r.offset) \subseteq HprofFraming'
    BY <2>3 DEF HprofFraming, Within
  <2> QED
    BY <1>1, <2>2, <2>4, <2>5, <2>6, FramingNext
<1>4. CASE HprofEnd
  <2>1. HprofLooks(bytes, here) = {}
    BY <1>4, HereIs DEF HprofEnd, HprofLooks, HprofBody, len
  <2> QED
    BY <2>1
<1>5. CASE HprofPastEnd
  BY <1>5 DEF HprofPastEnd, Fail, Alive, Active
<1> QED
  BY <1>1, <1>2, <1>3, <1>4, <1>5 DEF HprofNext

LEMMA PerfSeen ==
    ASSUME Inv, Ahead, handler = "perf", Opening, phase' \in Alive
    PROVE  PerfLooks(bytes, here) \cap Positions \subseteq Framing'
<1>1. Typed /\ PerfNext /\ handler' = "perf" /\ bytes' = bytes
  BY OpeningOf DEF Inv
<1>2. Within(0, PerfHeader) \subseteq Framing'
  BY <1>1, FramingNext DEF PerfFraming, Within, PerfHeader
<1>3. CASE PerfFeature
  <2>1. phase = "walk" /\ Len(recs') = Len(recs) + 1 /\ Len(recs) \in Nat
    BY <1>1, <1>3, Longer DEF PerfFeature, PerfWalking
  <2>2. cursor = data_offset + data_size + DescSize * Len(recs)
    BY <2>1 DEF Ahead
  <2>3. data_offset \in Nat /\ data_size \in Nat
    <3>1. 1 \in 0 .. len - 1 /\ 2 \in 0 .. len - 1
      BY <1>1, <2>1, CellFacts, PerfAssumption, SMT DEF PerfHeader, Inv, OpenMatch, Walked
    <3> QED
      BY <1>1, <3>1, CellFacts DEF data_offset, data_size
  <2>4. {cursor, cursor + 1} \subseteq Within(data_offset + data_size, data_offset + data_size + DescSize * Len(recs'))
    BY <2>1, <2>2, <2>3, SMT DEF Within, DescSize
  <2>5. data_offset' = data_offset /\ data_size' = data_size
    BY <1>1 DEF data_offset, data_size, at
  <2>6. {cursor, cursor + 1} \subseteq Framing'
    BY <1>1, <2>4, <2>5, FramingNext DEF PerfFraming, Within, DescSize
  <2>7. PerfLooks(bytes, here) \subseteq Within(0, PerfHeader) \cup {cursor, cursor + 1}
    BY HereIs, Zenon DEF PerfLooks
  <2> QED
    BY <1>2, <2>6, <2>7
<1>4. CASE PerfOpen \/ PerfEnd \/ PerfNoFeature
  <2>1. here.phase = "open" \/ here.entry > FeatureBits \/ Peek(bytes, 2 + here.entry) = 0
    BY <1>4, HereIs DEF PerfOpen, PerfEnd, PerfNoFeature, HasFeature, at, Peek
  <2>2. PerfLooks(bytes, here) = Within(0, PerfHeader)
    BY <2>1, Zenon DEF PerfLooks
  <2> QED
    BY <1>2, <2>2
<1>5. CASE PerfPastEnd
  BY <1>5 DEF PerfPastEnd, Fail, Alive, Active
<1> QED
  BY <1>1, <1>3, <1>4, <1>5 DEF PerfNext

LEMMA CoreSeen ==
    ASSUME Inv, Ahead, handler = "elf-core", Opening, phase' \in Alive
    PROVE  CoreLooks(bytes, here) \cap Positions \subseteq Framing'
<1>1. Typed /\ CoreNext /\ handler' = "elf-core" /\ bytes' = bytes /\ cursor \in Nat /\ len \in Nat
  BY OpeningOf, CellFacts DEF Inv, Typed
<1>2. {0, 1, 2} \subseteq Framing'
  <2>1. {0, 1, 2} \subseteq Within(0, 3)
    BY SMT DEF Within
  <2> QED
    BY <1>1, <2>1, FramingNext DEF CoreFraming, Within, EhdrSize
<1>3. CASE CoreOpen
  BY <1>2, <1>3, HereIs DEF CoreOpen, CoreLooks
<1>4. CASE CoreEnd
  <2>1. CoreLooks(bytes, here) = {1, 2}
    BY <1>4, HereIs DEF CoreEnd, CoreLooks, e_phnum, at, Peek
  <2> QED
    BY <1>2, <2>1
<1>5. CASE PhdrLoad \/ PhdrNote \/ PhdrOther
  <2>1. CoreWalking /\ HeaderReadable /\ phase = "walk" /\ entry < e_phnum
    BY <1>5 DEF PhdrLoad, PhdrNote, PhdrOther, CoreWalking
  <2>2. CoreAhead
    BY <1>1, <2>1, AheadIs
  <2>3. ph = e_phoff + entry * PhdrSize /\ e_phoff \in Nat /\ e_phnum \in Nat /\ entry \in Nat
    BY <2>1, <2>2, HeaderPlace
  <2>4. {ph, ph + 1, ph + 2} \subseteq Within(e_phoff, e_phoff + e_phnum * PhdrSize)
    BY <2>1, <2>3, SMT DEF Within, PhdrSize
  <2>5. e_phoff' = e_phoff /\ e_phnum' = e_phnum
    BY <1>1 DEF e_phoff, e_phnum, at
  <2>6. {ph, ph + 1, ph + 2} \subseteq Framing'
    BY <1>1, <2>4, <2>5, FramingNext DEF CoreFraming, Within, PhdrSize
  <2>7. PhdrAt(bytes, here) = ph
    BY HereIs DEF PhdrAt, ph, e_phoff, at, Peek
  <2>8. CoreLooks(bytes, here) \subseteq {0, 1, 2} \cup {ph, ph + 1, ph + 2}
    <3>1. here.phase # "open" /\ here.phase # "notes"
      BY <2>1, HereIs
    <3> QED
      BY <2>7, <3>1, Zenon DEF CoreLooks
  <2> QED
    BY <1>2, <2>6, <2>8
<1>6. CASE Note
  <2> DEFINE r == [kind |-> "note", head |-> cursor, offset |-> name_end, len |-> descsz, type |-> n_type]
  <2>1. recs' = Append(recs, r) /\ phase = "notes" /\ MoreNotes /\ NoteReadable
    BY <1>6 DEF Note, InNotes
  <2>2. r.head = cursor /\ r.offset = cursor + 3 + pad(at(cursor))
    BY DEF name_end, NoteHeader
  <2> HIDE DEF r
  <2>3. PICK i \in DOMAIN recs' : recs'[i] = r
    BY <1>1, <2>1, Longer
  <2>4. cursor \in 0 .. len - 1
    <3>1. len + 3 <= U64Max
      BY <1>1, CellFacts
    <3>2. cursor <= add(cursor, 3) /\ add(cursor, 3) <= len
      BY <2>1 DEF NoteReadable, SliceExists, NoteHeader
    <3> QED
      BY <1>1, <3>1, <3>2, ReadableEnd
  <2>5. PICK p \in Nat : p = pad(at(cursor))
    BY <1>1, <2>4, CellFacts, PadFacts
  <2>6. {cursor, cursor + 1, cursor + 2} \subseteq Within(cursor, cursor + 3 + p)
    BY <1>1, SMT DEF Within
  <2>7. Within(r.head, r.offset) \subseteq CoreFraming'
    BY <2>3 DEF CoreFraming, Within
  <2>8. CoreLooks(bytes, here) \subseteq {cursor, cursor + 1, cursor + 2}
    <3>1. here.phase # "open" /\ here.phase = "notes"
      BY <2>1, HereIs
    <3> QED
      BY <3>1, HereIs, Zenon DEF CoreLooks
  <2> QED
    BY <1>1, <2>2, <2>5, <2>6, <2>7, <2>8, FramingNext
<1>7. CASE NotesEnd
  <2>1. here.phase # "open" /\ here.phase = "notes" /\ ~(add(here.cursor, NoteHeader) <= here.limit)
    BY <1>7, HereIs, Zenon DEF NotesEnd, InNotes, MoreNotes
  <2>2. CoreLooks(bytes, here) = {}
    BY <2>1, Zenon DEF CoreLooks
  <2> QED
    BY <2>2
<1>8. CASE PhdrWrapped \/ PhdrPastEnd \/ NoteWrapped \/ NotePastEnd
  BY <1>8 DEF PhdrWrapped, PhdrPastEnd, NoteWrapped, NotePastEnd, Fail, Panic, Alive, Active
<1> QED
  BY <1>1, <1>3, <1>4, <1>5, <1>6, <1>7, <1>8 DEF CoreNext

(* The same for pcap files, in terms of where the payloads are. *)
LEMMA PcapMoves ==
    ASSUME Inv, handler = "pcap", Opening
    PROVE  /\ phase \in {"open", "walk"} /\ cursor' \in Nat /\ cursor <= cursor'
           /\ recs' = recs \/ \E r : recs' = Append(recs, r) /\ r.offset = cursor + PcapHead
<1>1. Typed /\ PcapNext /\ cursor \in Nat /\ len \in Nat
  BY OpeningOf, CellFacts DEF Inv, Typed
<1>2. RecordHeader \in Nat /\ PcapHeader \in Nat /\ BlockHeader = 2
  BY PcapAssumption, WidthAssumption, SMT
<1>3. CASE PcapOpen
  <2>1. recs' = recs /\ phase = "open" /\ (cursor' = cursor \/ cursor' \in {0, PcapHeader})
    BY <1>3 DEF PcapOpen, Fail
  <2>2. cursor = 0
    BY <2>1 DEF Inv, OpenMatch
  <2>3. cursor' \in Nat /\ cursor <= cursor'
    BY <1>2, <2>1, <2>2, SMT
  <2> QED
    BY <2>1, <2>3
<1>4. CASE ClassicRecord
  <2> DEFINE r == [offset |-> payload_off, len |-> captured]
  <2>1. Classic /\ phase = "walk" /\ recs' = Append(recs, r) /\ cursor' = payload_off + captured /\ payload_off <= len
    BY <1>4 DEF ClassicRecord, PcapWalking, Keep, RecordFits
  <2>2. payload_off = cursor + RecordHeader /\ payload_off \in Nat /\ payload_off - 1 \in 0 .. len - 1
    BY <1>1, <1>2, <2>1, PcapAssumption, WidthAssumption, SMT DEF payload_off
  <2>3. captured \in Nat
    BY <1>1, <2>2, CellFacts DEF captured
  <2>4. cursor' \in Nat /\ cursor <= cursor'
    BY <1>1, <1>2, <2>1, <2>2, <2>3, SMT
  <2>5. r.offset = cursor + PcapHead
    BY <2>1, <2>2 DEF PcapHead
  <2> HIDE DEF r
  <2> QED
    BY <2>1, <2>4, <2>5
<1>5. CASE PacketBlock \/ OtherBlock
  <2>1. ~Classic /\ phase = "walk" /\ BlockFits /\ cursor' = cursor + block_total
    BY <1>5 DEF PacketBlock, OtherBlock, PcapWalking
  <2>2. block_total \in Nat
    <3>1. cursor + 1 \in 0 .. len - 1
      BY <1>1, <1>2, <2>1, SMT DEF BlockFits
    <3> QED
      BY <1>1, <3>1, CellFacts DEF block_total
  <2>3. cursor' \in Nat /\ cursor <= cursor'
    BY <1>1, <2>1, <2>2, SMT
  <2>4. recs' = recs \/ recs' = Append(recs, [offset |-> epb_payload, len |-> cap_len])
    BY <1>5 DEF PacketBlock, OtherBlock, Keep
  <2>5. epb_payload = cursor + PcapHead
    BY <2>1 DEF epb_payload, PcapHead
  <2> QED
    BY <2>1, <2>3, <2>4, <2>5
<1>6. CASE ClassicEnd \/ BlocksEnd
  <2>1. cursor <= cursor
    BY <1>1, SMT
  <2> QED
    BY <1>1, <1>6, <2>1 DEF ClassicEnd, BlocksEnd, PcapWalking, Stop
<1> QED
  BY <1>1, <1>3, <1>4, <1>5, <1>6 DEF PcapNext

LEMMA PcapHereLeft ==
    ASSUME Inv, Ahead, handler = "pcap", Opening
    PROVE  PcapLeft(here)
<1>1. phase \in {"open", "walk"} /\ cursor \in Nat
  BY PcapMoves DEF Inv, Typed
<1>2. cursor <= cursor
  BY <1>1, SMT
<1>3. phase = "walk" => PcapAhead
  BY AheadIs
<1> QED
  BY <1>1, <1>2, <1>3, HereIs DEF PcapAhead, PcapLeft

LEMMA PcapStaysLeft ==
    ASSUME Inv, handler = "pcap", Opening, NEW s, s.cursor \in Nat, PcapLeft(s)
    PROVE  PcapLeft(s)'
<1> SUFFICES ASSUME s.phase # "open" PROVE PcapLeft(s)'
  BY DEF PcapLeft
<1>1. UNCHANGED <<handler, bytes>> /\ Typed /\ cursor \in Nat
  BY OpeningOf DEF Inv, Typed
<1>2. BlockStarts' = BlockStarts /\ Classic' = Classic /\ PcapHead' = PcapHead /\ PcapHead \in Nat
      /\ \A r : PcapTail(r)' = PcapTail(r)
  <2>1. RecordHeader \in Nat /\ EpbFixed \in Nat
    BY PcapAssumption, WidthAssumption, SMT
  <2> QED
    BY <1>1, <2>1, BlockStartsIs DEF Classic, at, PcapHead, PcapTail
<1>3. s.cursor <= cursor'
  BY <1>1, PcapMoves, SMT DEF PcapLeft
<1>4. \A i \in DOMAIN recs :
        recs[i].offset + PcapTail(recs[i]) <= s.cursor \/ s.cursor + PcapHead <= recs[i].offset
  BY DEF PcapLeft
<1>5. \A i \in DOMAIN recs' :
        recs'[i].offset + PcapTail(recs'[i]) <= s.cursor \/ s.cursor + PcapHead <= recs'[i].offset
  <2>1. CASE recs' = recs
    BY <1>4, <2>1
  <2>2. CASE recs' # recs
    <3>1. PICK r : recs' = Append(recs, r) /\ r.offset = cursor + PcapHead
      BY <2>2, PcapMoves
    <3>2. s.cursor + PcapHead <= r.offset
      BY <1>1, <1>2, <3>1, SMT DEF PcapLeft
    <3>3. \A i \in DOMAIN recs' : (i \in DOMAIN recs /\ recs'[i] = recs[i]) \/ recs'[i] = r
      BY <1>1, <3>1, Longer
    <3> QED
      BY <1>4, <3>2, <3>3
  <2> QED
    BY <2>1, <2>2
<1>6. ~Classic => s.cursor \in BlockStarts
  BY DEF PcapLeft
<1> QED
  BY <1>2, <1>3, <1>5, <1>6 DEF PcapLeft

(* What has been left behind stays behind, and a step leaves its own place. *)
LEMMA StaysLeft ==
    ASSUME Inv, Ahead, Opening, phase' \in Alive, NEW s, s.cursor \in Nat, LeftBehind(s) \/ s = here
    PROVE  LeftBehind(s)'
<1>1. /\ UNCHANGED <<handler, bytes>> /\ Positions' = Positions /\ Looks(handler, bytes, s)' = Looks(handler, bytes, s)
      /\ handler \in {"jfr", "hprof", "pcap", "perf", "elf-core", fallback}
  BY OpeningOf DEF Positions, len
<1>2. CASE handler = "pcap"
  <2>1. PcapLeft(s)
    BY <1>2, PcapHereLeft DEF LeftBehind
  <2> QED
    BY <1>1, <1>2, <2>1, PcapStaysLeft DEF LeftBehind
<1>3. CASE handler # "pcap"
  <2>1. CASE LeftBehind(s)
    BY <1>1, <1>3, <2>1, FramingGrows DEF LeftBehind
  <2>2. CASE s = here
    <3>1. Looks(handler, bytes, s) \cap Positions \subseteq Framing'
      <4>1. CASE handler = "jfr"
        BY <2>2, <4>1, JfrSeen DEF Looks
      <4>2. CASE handler = "hprof"
        BY <2>2, <4>2, HprofSeen DEF Looks
      <4>3. CASE handler = "perf"
        BY <2>2, <4>3, PerfSeen DEF Looks
      <4>4. CASE handler = "elf-core"
        BY <2>2, <4>4, CoreSeen DEF Looks
      <4>5. CASE handler = fallback
        BY <4>5 DEF Looks, fallback
      <4> QED
        BY <1>1, <1>3, <4>1, <4>2, <4>3, <4>4, <4>5
    <3> QED
      BY <1>1, <1>3, <3>1 DEF LeftBehind
  <2> QED
    BY <2>1, <2>2
<1> QED
  BY <1>2, <1>3

-----------------------------------------------------------------------------
(* Which handler claims a file depends on the file's name and first cell.   *)
Names == {"perf", "nsys", "tar", "elf-core", "hprof", "jfr", "pcap", "sqlite"}
Begins(h, g) == (Len(h) >= 1 <=> Len(g) >= 1) /\ (Len(h) >= 1 => g[1] \in {h[1], 0})

LEMMA DetectLess ==
    ASSUME NEW h, NEW g, Begins(h, g), NEW name \in Names, detect(name, g)
    PROVE  detect(name, h)
<1>1. 0 \notin {PerfMagic, TarMagic, CoreMagic, OddCore, HprofMagic, JfrMagic, SqliteMagic, PcapMagic, SHB}
  BY PerfAssumption, DispatchAssumption, CoreAssumption, HprofAssumption, JfrAssumption, PcapAssumption, SMT
<1>2. CASE name = "perf"
  BY <1>1, <1>2 DEF detect, PerfDetect, Begins
<1>3. CASE name = "nsys"
  BY <1>3 DEF detect, NsysDetect
<1>4. CASE name = "tar"
  BY <1>1, <1>4 DEF detect, TarDetect, Begins
<1>5. CASE name = "elf-core"
  BY <1>1, <1>5 DEF detect, CoreDetect, Begins
<1>6. CASE name = "hprof"
  BY <1>1, <1>6 DEF detect, HprofDetect, Begins
<1>7. CASE name = "jfr"
  BY <1>1, <1>7 DEF detect, JfrDetect, Begins
<1>8. CASE name = "pcap"
  BY <1>1, <1>8 DEF detect, PcapDetect, Begins
<1>9. CASE name = "sqlite"
  BY <1>1, <1>9 DEF detect, SqliteDetect, Begins
<1> QED
  BY <1>2, <1>3, <1>4, <1>5, <1>6, <1>7, <1>8, <1>9 DEF Names

LEMMA HandlersAre ==
    \E n \in Nat : DOMAIN handlers = 1 .. n /\ \A i \in 1 .. n : handlers[i] \in Names
<1>1. CASE member
  <2>1. DOMAIN handlers = 1 .. 5 /\ \A i \in 1 .. 5 : handlers[i] \in Names
    BY <1>1 DEF handlers, inner_dispatcher, Names
  <2> QED
    BY <2>1
<1>2. CASE ~member
  <2>1. DOMAIN handlers = 1 .. 8 /\ \A i \in 1 .. 8 : handlers[i] \in Names
    BY <1>2 DEF handlers, build_dispatcher, Names
  <2> QED
    BY <2>1
<1> QED
  BY <1>1, <1>2

(* A number that is not there at all, or a first one. *)
LEMMA FirstOne ==
    ASSUME NEW n \in Nat, NEW S \in SUBSET (1 .. n), S # {}
    PROVE  \E i \in S : \A j \in S : i <= j
<1> SUFFICES ASSUME \A i \in S : \E j \in S : j < i PROVE FALSE
  OBVIOUS
<1> DEFINE Right == {o \in 0 .. n : n - o \notin S}
<1>1. ASSUME NEW o \in 0 .. n, \A p \in o + 1 .. n : p \in Right PROVE o \in Right
  <2> SUFFICES ASSUME n - o \in S PROVE FALSE
    OBVIOUS
  <2>1. PICK j \in S : j < n - o
    OBVIOUS
  <2>2. n - j \in o + 1 .. n /\ n - (n - j) = j
    BY <2>1
  <2> QED
    BY <1>1, <2>2
<1>2. 0 .. n \subseteq Right
  <2> HIDE DEF Right
  <2> QED
    BY <1>1, LastWrong
<1>3. PICK i \in S : TRUE
  OBVIOUS
<1>4. n - i \in 0 .. n /\ n - (n - i) = i
  BY <1>3
<1> QED
  BY <1>2, <1>4

Claims(h) == {i \in DOMAIN handlers : detect(handlers[i], h)}
LEMMA FindIs ==
    ASSUME NEW h
    PROVE  /\ find(h) = IF Claims(h) = {} THEN fallback
                        ELSE handlers[CHOOSE i \in Claims(h) : \A j \in Claims(h) : i <= j]
           /\ find(h) = fallback => Claims(h) = {}
<1>1. find(h) = IF Claims(h) = {} THEN fallback
                ELSE handlers[CHOOSE i \in Claims(h) : \A j \in Claims(h) : i <= j]
  BY Zenon DEF find, Claims
<1>2. ASSUME Claims(h) # {} PROVE find(h) # fallback
  <2>1. PICK n \in Nat : DOMAIN handlers = 1 .. n /\ \A i \in 1 .. n : handlers[i] \in Names
    BY HandlersAre
  <2>2. \E i \in Claims(h) : \A j \in Claims(h) : i <= j
    <3>1. Claims(h) \in SUBSET (1 .. n)
      BY <2>1 DEF Claims
    <3> QED
      BY <1>2, <3>1, FirstOne
  <2>3. (CHOOSE i \in Claims(h) : \A j \in Claims(h) : i <= j) \in Claims(h)
    BY <2>2, Zenon
  <2>4. find(h) \in Names
    BY <1>1, <1>2, <2>1, <2>3 DEF Claims
  <2>5. fallback \notin Names
    BY DEF fallback, Names
  <2> QED
    BY <2>4, <2>5
<1> QED
  BY <1>1, <1>2

LEMMA FindSame ==
    ASSUME NEW h, NEW g, Begins(h, g), Begins(g, h) \/ find(h) = fallback
    PROVE  find(g) = find(h)
<1>1. \A i \in DOMAIN handlers : handlers[i] \in Names
  BY HandlersAre
<1>2. Claims(g) \subseteq Claims(h)
  BY <1>1, DetectLess DEF Claims
<1>3. CASE Begins(g, h)
  <2>1. Claims(h) \subseteq Claims(g)
    BY <1>1, <1>3, DetectLess DEF Claims
  <2>2. Claims(g) = Claims(h)
    BY <1>2, <2>1
  <2> QED
    BY <2>2, FindIs
<1>4. CASE find(h) = fallback
  BY <1>2, <1>4, FindIs
<1> QED
  BY <1>3, <1>4

LEMMA HeadIs ==
    ASSUME NEW b \in Seq(Cell)
    PROVE  (Len(head_of(b)) >= 1 <=> Len(b) >= 1) /\ (Len(b) >= 1 => head_of(b)[1] = b[1])
<1>1. Len(b) \in Nat /\ HeadMax \in Nat /\ HeadMax >= 1
  BY LenProperties, DispatchAssumption
<1>2. PICK n \in 0 .. Len(b) : n = (IF Len(b) < HeadMax THEN Len(b) ELSE HeadMax) /\ (n >= 1 <=> Len(b) >= 1)
  BY <1>1
<1>3. head_of(b) = SubSeq(b, 1, n)
  BY <1>2 DEF head_of
<1>4. Len(SubSeq(b, 1, n)) = n /\ \A i \in 1 .. n : SubSeq(b, 1, n)[i] = b[i]
  <2>1. \A i \in 1 .. n : b[i] \in Cell
    BY <1>1, ElementOfSeq
  <2> QED
    BY <1>1, <2>1
<1> QED
  BY <1>1, <1>2, <1>3, <1>4

LEMMA HeadsBegin ==
    ASSUME NEW b \in Seq(Cell), NEW c \in Seq(Cell), Len(c) = Len(b), Len(b) >= 1 => c[1] \in {b[1], 0}
    PROVE  Begins(head_of(b), head_of(c))
  BY HeadIs DEF Begins

(* Looking for a handler looks at nothing else. *)
LEMMA FindKept ==
    ASSUME UNCHANGED <<ext, member, orig>>
    PROVE  find(head_of(orig))' = find(head_of(orig))
<1>1. \A n, h : detect(n, h)' = detect(n, h)
  BY DEF detect, PerfDetect, NsysDetect, TarDetect, CoreDetect, HprofDetect, JfrDetect, PcapDetect, SqliteDetect
<1>2. handlers' = handlers
  BY DEF handlers, inner_dispatcher, build_dispatcher
<1>3. PICK h : h = head_of(orig)
  OBVIOUS
<1>4. head_of(orig)' = h
  BY <1>3 DEF head_of
<1>5. Claims(h)' = Claims(h)
  BY <1>1, <1>2 DEF Claims
<1>6. find(h)' = find(h)
  <2>1. find(h)' = IF Claims(h)' = {} THEN fallback
                   ELSE handlers'[CHOOSE i \in Claims(h)' : \A j \in Claims(h)' : i <= j]
    BY Zenon DEF find, Claims, fallback
  <2> QED
    BY <1>2, <1>5, <2>1, FindIs, Zenon
<1> QED
  BY <1>3, <1>4, <1>6

LEMMA FindBytes ==
    ASSUME UNCHANGED <<ext, member, bytes>>
    PROVE  find(head_of(bytes))' = find(head_of(bytes))
<1>1. \A n, h : detect(n, h)' = detect(n, h)
  BY DEF detect, PerfDetect, NsysDetect, TarDetect, CoreDetect, HprofDetect, JfrDetect, PcapDetect, SqliteDetect
<1>2. handlers' = handlers
  BY DEF handlers, inner_dispatcher, build_dispatcher
<1>3. PICK h : h = head_of(bytes)
  OBVIOUS
<1>4. head_of(bytes)' = h
  BY <1>3 DEF head_of
<1>5. Claims(h)' = Claims(h)
  BY <1>1, <1>2 DEF Claims
<1>6. find(h)' = find(h)
  <2>1. find(h)' = IF Claims(h)' = {} THEN fallback
                   ELSE handlers'[CHOOSE i \in Claims(h)' : \A j \in Claims(h)' : i <= j]
    BY Zenon DEF find, Claims, fallback
  <2> QED
    BY <1>2, <1>5, <2>1, FindIs, Zenon
<1> QED
  BY <1>3, <1>4, <1>6

-----------------------------------------------------------------------------
(* The trail of the first opening: the steps that led to where the walk is, *)
(* each of them left behind.                                               *)
Last == IF phase \in Active THEN here ELSE To(here, "opened")
Told ==
    ~Again /\ phase \in Alive \cup {"scanned"} =>
        \E T : IsTrail(T, Last, handler, orig) /\ \A s \in T : s # Last => LeftBehind(s)

LEMMA TrailStarts ==
    ASSUME NEW h, NEW b
    PROVE  IsTrail({AtStart}, AtStart, h, b)
  BY StateIs DEF IsTrail, AtStart

LEMMA TrailGrows ==
    ASSUME NEW T, NEW h, NEW b, NEW s, IsTrail(T, s, h, b), s.phase \in Active,
           NEW v, v = WalkStep(h, b, s), v.cursor \in Nat, v.limit \in Nat, v.entry \in Nat
    PROVE  IsTrail(T \cup {v}, v, h, b)
  BY DEF IsTrail

LEMMA HereAtStart ==
    ASSUME Inv, Ahead, phase \in {"dispatch", "open"}
    PROVE  To(here, "open") = AtStart
<1>1. cursor = 0 /\ limit = 0 /\ entry = 0 /\ recs = <<>>
  BY DEF Inv, OpenMatch, Ahead
<1> QED
  BY <1>1, HereIs DEF To, AtStart

LEMMA OpenTold ==
    ASSUME Inv', Ahead', phase' = "open"
    PROVE  Told'
<1>1. cursor' = 0 /\ limit' = 0 /\ entry' = 0 /\ recs' = <<>>
  BY DEF Inv, OpenMatch, Ahead
<1>2. here' = AtStart
  BY <1>1 DEF here, AtStart
<1>3. Last' = AtStart
  BY <1>2 DEF Last, Active
<1>4. IsTrail({AtStart}, AtStart, handler', orig')
  BY TrailStarts
<1> QED
  BY <1>3, <1>4 DEF Told

LEMMA OpeningTold ==
    ASSUME Inv, Inv', Ahead, Told, Opening
    PROVE  Told'
<1>1. UNCHANGED <<handler, bytes, capture>> /\ phase \in Active
      /\ phase' \in {"walk", "notes", "opened", "error", "panic"}
  BY OpeningOf DEF Active
<1>2. SUFFICES ASSUME ~Again', phase' \in Alive PROVE Told'
  BY <1>1 DEF Told
<1>3. ~Again /\ orig' = orig /\ orig = bytes
  BY <1>1, <1>2 DEF capture, Again, Inv, EditMatch, Untouched, Active
<1>4. PICK s, v : s = here /\ v = here'
  OBVIOUS
<1>5. v = WalkStep(handler, orig, s)
  BY <1>3, <1>4, Steps
<1>6. Last = s
  BY <1>1, <1>4 DEF Last
<1>7. PICK T : IsTrail(T, s, handler, orig) /\ \A t \in T : t # s => LeftBehind(t)
  BY <1>1, <1>3, <1>6 DEF Told, Alive
<1>8. s.phase \in Active /\ v.cursor \in Nat /\ v.limit \in Nat /\ v.entry \in Nat
  <2>1. v.cursor = cursor' /\ v.limit = limit' /\ v.entry = entry'
    BY <1>4, StateIs DEF here
  <2>2. s.phase = phase
    BY <1>4, HereIs
  <2> QED
    BY <1>1, <2>1, <2>2 DEF Inv, Typed
<1>9. IsTrail(T \cup {v}, v, handler, orig)
  BY <1>5, <1>7, <1>8, TrailGrows
<1>10. Last' = v
  <2>1. CASE phase' \in Active
    BY <1>4, <2>1 DEF Last
  <2>2. CASE phase' = "opened"
    <3>1. Last' = To(v, "opened") /\ v.phase = "opened"
      BY <1>4, <2>2, StateIs DEF Last, Active, To, here
    <3>2. v = State(phase', cursor', limit', entry', recs')
      BY <1>4 DEF here
    <3> QED
      BY <2>2, <3>1, <3>2, StateIs DEF To
  <2> QED
    BY <1>2, <2>1, <2>2 DEF Alive
<1>11. ASSUME NEW t \in T \cup {v}, t # v PROVE LeftBehind(t)'
  <2>1. t \in T /\ t.cursor \in Nat
    <3>1. t \in T
      BY <1>11
    <3> QED
      BY <1>7, <3>1, Zenon DEF IsTrail
  <2>2. CASE t = s
    BY <1>2, <1>4, <2>1, <2>2, StaysLeft
  <2>3. CASE t # s
    <3>1. LeftBehind(t)
      BY <1>7, <2>1, <2>3
    <3> QED
      BY <1>2, <2>1, <3>1, StaysLeft
  <2> QED
    BY <2>2, <2>3
<1> QED
  BY <1>1, <1>3, <1>9, <1>10, <1>11 DEF Told

LEMMA LeftKept ==
    ASSUME Typed, Laid, UNCHANGED <<handler, bytes, recs, cursor>>, NEW s, LeftBehind(s)
    PROVE  LeftBehind(s)'
<1>1. Framing' = Framing /\ Positions' = Positions
  BY SameFile DEF Positions, len
<1>2. BlockStarts' = BlockStarts /\ Classic' = Classic
  BY BlockStartsIs DEF Classic, at
<1>3. PcapLeft(s) => PcapLeft(s)'
  BY <1>2 DEF PcapLeft, PcapHead, PcapTail
<1> QED
  BY <1>1, <1>3 DEF LeftBehind

LEMMA ToldStep ==
    ASSUME Inv, Inv', Ahead, Ahead', FrameMatch, Told, [Next]_allvars
    PROVE  Told'
<1>1. CASE phase' = "open"
  BY <1>1, OpenTold
<1>2. CASE Opening
  BY <1>2, OpeningTold
<1>3. CASE ScanOwn \/ ScanStray \/ (UNCHANGED allvars /\ phase # "open")
  <2> SUFFICES ASSUME ~Again', phase' \in Alive \cup {"scanned"} PROVE Told'
    BY DEF Told
  <2>1. /\ UNCHANGED <<handler, bytes, cursor, limit, entry, recs, orig, first>>
        /\ phase' = phase \/ (phase = "opened" /\ phase' \in {"clean", "scanned"})
        /\ phase # "open"
    BY <1>3 DEF ScanOwn, ScanStray, ScanWith, Scannable, allvars, vars, capture
  <2>2. ~Again /\ phase \in Alive \cup {"scanned"}
    BY <2>1 DEF Again, Alive
  <2>3. Laid
    BY <2>1, <2>2 DEF FrameMatch, Walked, Alive, Active
  <2>4. PICK v : v = Last
    OBVIOUS
  <2>5. Last' = v
    <3>1. \A p : To(here, p)' = To(here, p)
      BY <2>1 DEF To, here, State
    <3>2. here' = here \/ (phase \notin Active /\ phase' \notin Active)
      BY <2>1 DEF here, Active
    <3>3. phase' \in Active <=> phase \in Active
      BY <2>1 DEF Active
    <3> QED
      BY <2>4, <3>1, <3>2, <3>3 DEF Last
  <2>6. PICK T : IsTrail(T, v, handler, orig) /\ \A s \in T : s # v => LeftBehind(s)
    BY <2>2, <2>4 DEF Told
  <2>7. \A s \in T : s # v => LeftBehind(s)'
    BY <2>1, <2>3, <2>6, LeftKept DEF Inv
  <2> QED
    BY <2>1, <2>5, <2>6, <2>7 DEF Told
<1>4. CASE Dispatching \/ ChunksPanic \/ Guard \/ EditHit \/ EditEnd \/ Reopen
  <2>1. phase' \in {"open", "elsewhere", "error", "panic", "edit", "refused", "done", "dispatch"}
    BY <1>4 DEF Dispatching, Route, RouteTo, OpenWith, Fail, ChunksPanic, Panic, Guard, EditHit, EditEnd, Reopen
  <2> QED
    BY <1>1, <2>1 DEF Told, Alive, Active
<1> QED
  BY <1>1, <1>2, <1>3, <1>4 DEF Next, allvars, vars

-----------------------------------------------------------------------------
(* The hits that are applied spare what the trail has looked at. *)
Spared(s) == \A i \in DOMAIN hits : SpanOf(hits[i]) \cap Looks(handler, orig, s) \cap Positions = {}
SparedMatch ==
    phase \in {"edit", "done"} /\ apart /\ (own \/ Guarded) =>
        \E T : IsTrail(T, Last, handler, orig) /\ \A s \in T : s # Last => Spared(s)

LEMMA Unhit ==
    ASSUME Inv, Laid, Covered \cap Framing = {}, NEW h \in Span, SpanOf(h) \subseteq Covered,
           NEW s, s.cursor \in Nat, LeftBehind(s)
    PROVE  SpanOf(h) \cap Looks(handler, bytes, s) \cap Positions = {}
<1>1. CASE handler # "pcap"
  BY <1>1 DEF LeftBehind
<1>2. CASE handler = "pcap"
  <2>0. /\ Typed /\ len \in Nat /\ len >= PcapHeader /\ PcapHeader \in Nat /\ PcapHeader >= 3
        /\ RecordHeader \in Nat /\ RecordHeader >= 1 /\ BlockHeader = 2 /\ EpbFixed \in Nat /\ EpbFixed >= 3
    BY <1>2, CellFacts, PcapAssumption, WidthAssumption, SMT DEF Inv, Laid
  <2> SUFFICES ASSUME NEW k \in Covered, k \in Looks(handler, bytes, s) PROVE FALSE
    OBVIOUS
  <2>1. k \in PcapLooks(bytes, s)
    BY <1>2 DEF Looks
  <2>2. PICK i \in DOMAIN recs : k \in Within(recs[i].offset, recs[i].offset + recs[i].len) /\ recs[i].len > 0
    <3>1. PICK c \in PcapChunks : k \in Within(c.from, c.to)
      BY <1>2, ChunksOf DEF Covered
    <3> QED
      BY <3>1 DEF PcapChunks
  <2>3. PICK o \in Nat, n \in Nat : o = recs[i].offset /\ n = recs[i].len /\ o <= k /\ k < o + n /\ k \in Nat
    <3>1. recs[i].offset \in Nat /\ recs[i].len \in Nat
      BY <2>0, <2>2, RecFacts
    <3> QED
      BY <2>2, <3>1, SMT DEF Within
  <2>4. Framing = PcapFraming /\ Within(0, PcapHeader) \subseteq Framing
    BY <1>2, FramingOf DEF PcapFraming
  <2>5. k \notin {0, 2}
    <3>1. 0 \in Within(0, PcapHeader) /\ 2 \in Within(0, PcapHeader)
      BY <2>0, SMT DEF Within
    <3> QED
      BY <2>4, <3>1
  <2>6. s.phase # "open"
    BY <2>1, <2>5, Zenon DEF PcapLooks
  <2>7. o + PcapTail(recs[i]) <= s.cursor \/ s.cursor + PcapHead <= o
    BY <1>2, <2>3, <2>6 DEF LeftBehind, PcapLeft
  <2>8. CASE Classic
    <3>1. k = (s.cursor + RecordHeader) - 1
      BY <2>1, <2>5, <2>6, <2>8, Zenon DEF PcapLooks, Classic, at, Peek
    <3>2. PcapTail(recs[i]) = n /\ PcapHead = RecordHeader
      BY <2>3, <2>8 DEF PcapTail, PcapHead
    <3> QED
      BY <2>0, <2>3, <2>7, <3>1, <3>2, SMT
  <2>9. CASE ~Classic
    <3>1. k \in {s.cursor, s.cursor + 1, (s.cursor + EpbFixed) - 1}
      <4>1. Peek(bytes, 0) # PcapMagic
        BY <2>9 DEF Classic, at, Peek
      <4> QED
        BY <2>1, <2>5, <2>6, <4>1, Zenon DEF PcapLooks
    <3>2. PcapTail(recs[i]) = 1 /\ PcapHead = EpbFixed
      BY <2>9 DEF PcapTail, PcapHead
    <3>3. s.cursor \in BlockStarts
      BY <1>2, <2>6, <2>9 DEF LeftBehind, PcapLeft
    <3>4. {s.cursor, s.cursor + 1} \subseteq Framing
      <4>1. {s.cursor, s.cursor + 1} \subseteq Within(s.cursor, s.cursor + BlockHeader)
        BY <2>0, SMT DEF Within
      <4> QED
        BY <2>4, <2>9, <3>3, <4>1 DEF PcapFraming
    <3>5. k = (s.cursor + EpbFixed) - 1
      BY <3>1, <3>4
    <3>6. o + 1 <= s.cursor /\ s.cursor <= k
      BY <2>0, <2>3, <2>7, <3>2, <3>5, SMT
    <3>7. s.cursor \in Covered
      <4> DEFINE c == [from |-> recs[i].offset, to |-> recs[i].offset + recs[i].len]
      <4>1. s.cursor \in Within(c.from, c.to)
        BY <2>0, <2>3, <3>6, SMT DEF Within
      <4>2. c \in Chunks
        BY <1>2, <2>2, ChunksOf DEF PcapChunks
      <4> QED
        BY <4>1, <4>2 DEF Covered
    <3> QED
      BY <3>4, <3>7
  <2> QED
    BY <2>8, <2>9
<1> QED
  BY <1>1, <1>2

LEMMA GuardSpares ==
    ASSUME Inv, FrameMatch, Told, Guard
    PROVE  SparedMatch'
<1> SUFFICES ASSUME phase' = "edit", apart', own' \/ Guarded' PROVE SparedMatch'
  BY DEF Guard, SparedMatch
<1>1. /\ phase = "scanned" /\ apart /\ (own \/ Guarded)
      /\ \A i \in DOMAIN hits : Accepts(hits[i])
      /\ UNCHANGED <<handler, bytes, cursor, limit, entry, recs, hits, orig, apart, own>>
  BY DEF Guard, capture, Guarded
<1>2. bytes = orig /\ ~Again
  BY <1>1 DEF Inv, EditMatch, Untouched
<1>3. Laid /\ Covered \cap Framing = {}
  BY <1>1 DEF FrameMatch
<1>4. \A i \in DOMAIN hits : hits[i] \in Span /\ SpanOf(hits[i]) \subseteq Covered
  <2> SUFFICES ASSUME NEW i \in DOMAIN hits PROVE hits[i] \in Span /\ SpanOf(hits[i]) \subseteq Covered
    OBVIOUS
  <2>1. hits[i] \in Span
    BY HitFacts DEF Inv
  <2> QED
    BY <1>1, <1>3, <2>1, AcceptedCovered DEF FrameMatch
<1>5. PICK v : v = Last
  OBVIOUS
<1>6. Last' = v
  <2>1. \A p : To(here, p)' = To(here, p)
    BY <1>1 DEF To, here, State
  <2> QED
    BY <1>1, <1>5, <2>1 DEF Last, Active
<1>7. PICK T : IsTrail(T, v, handler, orig) /\ \A s \in T : s # v => LeftBehind(s)
  BY <1>1, <1>2, <1>5 DEF Told
<1>8. ASSUME NEW s \in T, s # v PROVE Spared(s)
  <2>1. s.cursor \in Nat /\ LeftBehind(s)
    BY <1>7, <1>8 DEF IsTrail
  <2> QED
    BY <1>2, <1>3, <1>4, <2>1, Unhit DEF Spared
<1>9. \A s : Spared(s) => Spared(s)'
  BY <1>1 DEF Spared, SpanOf, Within, Positions, len
<1> QED
  BY <1>1, <1>6, <1>7, <1>8, <1>9 DEF SparedMatch

LEMMA SparedStep ==
    ASSUME Inv, Inv', FrameMatch, Told, SparedMatch, [Next]_allvars
    PROVE  SparedMatch'
<1>1. CASE Guard
  BY <1>1, GuardSpares
<1>2. CASE EditHit \/ EditEnd \/ UNCHANGED allvars
  <2> SUFFICES ASSUME phase' \in {"edit", "done"}, apart', own' \/ Guarded' PROVE SparedMatch'
    BY DEF SparedMatch
  <2>1. phase \in {"edit", "done"} /\ UNCHANGED <<handler, cursor, limit, entry, recs, hits, orig, apart, own>>
    BY <1>2 DEF EditHit, EditEnd, allvars, vars, capture
  <2>2. Guarded' <=> Guarded
    BY <2>1 DEF Guarded
  <2>3. PICK v : v = Last
    OBVIOUS
  <2>4. Last' = v
    <3>1. \A p : To(here, p)' = To(here, p)
      BY <2>1 DEF To, here, State
    <3> QED
      BY <2>1, <2>3, <3>1 DEF Last, Active
  <2>5. PICK T : IsTrail(T, v, handler, orig) /\ \A s \in T : s # v => Spared(s)
    BY <2>1, <2>2, <2>3 DEF SparedMatch
  <2>6. Positions' = Positions
    <3>1. Len(bytes') = Len(bytes)
      BY <2>1 DEF Inv, Typed
    <3> QED
      BY <3>1 DEF Positions, len
  <2>7. \A s : Spared(s) => Spared(s)'
    BY <2>1, <2>6 DEF Spared, SpanOf, Within
  <2> QED
    BY <2>1, <2>4, <2>5, <2>7 DEF SparedMatch
<1>3. CASE Dispatching \/ Opening \/ ChunksPanic \/ ScanOwn \/ ScanStray \/ Reopen
  <2>1. phase' \notin {"edit", "done"}
    BY <1>3, OpeningOf DEF Dispatching, Route, RouteTo, OpenWith, Fail, ChunksPanic, Panic, ScanOwn, ScanStray, ScanWith,
                           Scannable, Reopen
  <2> QED
    BY <2>1 DEF SparedMatch
<1> QED
  BY <1>1, <1>2, <1>3 DEF Next

-----------------------------------------------------------------------------
(* The second opening follows the trail of the first: its file goes to the  *)
(* same handler, and where the walk is, the first walk has been.           *)
SameKind == Again /\ apart /\ (own \/ first.handler \in {"jfr", "pcap"}) /\ first.handler = find(head_of(orig))
Follows(T, v) ==
    /\ IsTrail(T, v, first.handler, bytes) /\ v.phase = "opened" /\ v.recs = first.recs
    /\ \/ phase = "dispatch" /\ handler = "none" /\ find(head_of(bytes)) = first.handler
       \/ phase \in Alive /\ handler = first.handler /\ here \in T
Retold == SameKind => first.handler \notin Elsewhere /\ \E T, v : Follows(T, v)

LEMMA TrailGoes ==
    ASSUME NEW T, NEW v, NEW h, NEW b, IsTrail(T, v, h, b), v.phase = "opened", NEW s \in T, s # v
    PROVE  WalkStep(h, b, s) \in T /\ Proceeds(WalkStep(h, b, s))
<1>1. PICK w \in T : w = WalkStep(h, b, s)
  BY DEF IsTrail
<1>2. w.phase \in Active \/ w = v
  BY DEF IsTrail
<1> QED
  BY <1>1, <1>2 DEF Proceeds, Active

(* Every format looks at the first cell of its file. *)
SeesStart(T, v, h, b) == \E s \in T : s # v /\ 0 \in Looks(h, b, s)

LEMMA StartSeen ==
    ASSUME NEW T, NEW v, NEW h, NEW b, h \in {"jfr", "hprof", "pcap", "perf", "elf-core"}, b \in Seq(Cell),
           IsTrail(T, v, h, b), v.phase = "opened"
    PROVE  SeesStart(T, v, h, b)
<1> SUFFICES \E s \in T : s # v /\ 0 \in Looks(h, b, s)
  BY DEF SeesStart
<1>1. AtStart \in T /\ AtStart.phase = "open" /\ AtStart # v /\ AtStart.cursor = 0
  BY StateIs DEF IsTrail, AtStart
<1>2. WalkStep(h, b, AtStart) \in T /\ Proceeds(WalkStep(h, b, AtStart))
  BY <1>1, TrailGoes
<1>3. CASE h = "jfr"
  <2> DEFINE w == To(AtStart, "walk")
  <2>1. w.phase = "walk" /\ w.cursor = 0 /\ To(AtStart, "error").phase = "error"
    BY <1>1, StateIs DEF To
  <2>2. WalkStep(h, b, AtStart) \in {w, To(AtStart, "error")}
    BY <1>1, <1>3 DEF WalkStep, JfrStep
  <2>3. w \in T /\ w # v
    BY <1>2, <2>1, <2>2 DEF Proceeds
  <2>4. 0 \in Looks(h, b, w)
    BY <1>3, <2>1 DEF Looks, JfrLooks
  <2> QED
    BY <2>3, <2>4
<1>4. CASE h = "hprof"
  <2>1. WalkStep(h, b, AtStart) = HprofStep(b, AtStart)
    BY <1>4 DEF WalkStep
  <2>2. HprofFit(b)
    BY <1>1, <1>2, <2>1, StateIs DEF HprofStep, Proceeds, To
  <2>3. NulOf(b) \in 0 .. Len(b) - 1
    BY <2>2, Zenon DEF HprofFit, NulOf
  <2>4. 0 \in Within(0, NulOf(b) + 2)
    BY <2>3, PeekFacts, SMT DEF Within
  <2>5. 0 \in HprofLooks(b, AtStart)
    BY <1>1, <2>4, Zenon DEF HprofLooks
  <2> QED
    BY <1>1, <1>4, <2>5 DEF Looks
<1>5. CASE h = "pcap"
  <2>1. 0 \in PcapLooks(b, AtStart)
    BY <1>1, Zenon DEF PcapLooks
  <2> QED
    BY <1>1, <1>5, <2>1 DEF Looks
<1>6. CASE h = "perf"
  <2>1. 0 \in Within(0, PerfHeader)
    BY PerfAssumption, SMT DEF Within, PerfHeader
  <2>2. 0 \in PerfLooks(b, AtStart)
    BY <2>1, Zenon DEF PerfLooks
  <2> QED
    BY <1>1, <1>6, <2>2 DEF Looks
<1>7. CASE h = "elf-core"
  <2>1. 0 \in CoreLooks(b, AtStart)
    BY <1>1, Zenon DEF CoreLooks
  <2> QED
    BY <1>1, <1>7, <2>1 DEF Looks
<1> QED
  BY <1>3, <1>4, <1>5, <1>6, <1>7

(* A file whose trail is spared leads along the same trail when redacted. *)
LEMMA TrailSurvives ==
    ASSUME Inv, Laid, phase = "done",
           NEW T, NEW v, IsTrail(T, v, handler, orig), v.phase = "opened", \A s \in T : s # v => Spared(s)
    PROVE  /\ IsTrail(T, v, handler, bytes)
           /\ handler = find(head_of(orig)) => find(head_of(bytes)) = handler
<1>1. /\ orig \in Seq(Cell) /\ bytes \in Seq(Cell) /\ Len(bytes) = Len(orig) /\ Len(orig) + 3 <= U64Max
      /\ Positions = 0 .. Len(orig) - 1
  BY DEF Inv, Typed, NoteHeader, Positions, len
<1>2. \A k \in Positions : Peek(bytes, k) = IF HitBefore(next, k) THEN 0 ELSE Peek(orig, k)
  BY DEF Inv, EditMatch, at, Peek
<1>3. ASSUME NEW s \in T, s # v, NEW k \in Positions, k \in Looks(handler, orig, s)
      PROVE  Peek(bytes, k) = Peek(orig, k)
  <2>1. ~HitBefore(next, k)
    BY <1>3 DEF Spared, HitBefore
  <2> QED
    BY <1>2, <2>1
<1>4. ASSUME NEW s \in T, s # v PROVE WalkStep(handler, bytes, s) \in T
  <2>1. Agree(orig, bytes, Looks(handler, orig, s))
    BY <1>1, <1>3, <1>4 DEF Agree
  <2>2. WalkStep(handler, orig, s) \in T /\ Proceeds(WalkStep(handler, orig, s))
    BY <1>4, TrailGoes
  <2>3. s.cursor \in Nat /\ s.limit \in Nat /\ s.entry \in Nat
    BY DEF IsTrail
  <2>4. /\ handler = "pcap" => Len(orig) >= PcapHeader
        /\ handler = "perf" => Len(orig) >= PerfHeader
        /\ handler = "elf-core" => Len(orig) >= EhdrSize
    BY <1>1 DEF Laid, len
  <2> QED
    BY <1>1, <2>1, <2>2, <2>3, <2>4, Local
<1>5. IsTrail(T, v, handler, bytes)
  BY <1>4 DEF IsTrail
<1>6. ASSUME handler = find(head_of(orig)) PROVE find(head_of(bytes)) = handler
  <2>1. Len(orig) \in Nat /\ (Len(orig) >= 1 => 0 \in Positions /\ Peek(orig, 0) = orig[1] /\ Peek(bytes, 0) = bytes[1])
    BY <1>1, LenProperties, SMT DEF Peek
  <2>2. Len(orig) >= 1 => bytes[1] \in {orig[1], 0}
    BY <1>2, <2>1
  <2>3. Begins(head_of(orig), head_of(bytes))
    BY <1>1, <2>2, HeadsBegin
  <2>4. CASE handler = fallback
    BY <1>6, <2>3, <2>4, FindSame
  <2>5. CASE handler # fallback
    <3>0. handler \in {"jfr", "hprof", "pcap", "perf", "elf-core"}
      BY <2>5 DEF Laid
    <3>1. PICK s \in T : s # v /\ 0 \in Looks(handler, orig, s)
      <4>1. SeesStart(T, v, handler, orig)
        BY <1>1, <3>0, StartSeen
      <4> QED
        BY <4>1 DEF SeesStart
    <3>2. Len(orig) >= 1 => bytes[1] = orig[1]
      BY <1>3, <2>1, <3>1
    <3>3. Begins(head_of(bytes), head_of(orig))
      BY <1>1, <3>2, HeadsBegin
    <3> QED
      BY <1>6, <2>3, <3>3, FindSame
  <2> QED
    BY <2>4, <2>5
<1> QED
  BY <1>5, <1>6

LEMMA ReopenRetold ==
    ASSUME Inv, FrameMatch, SparedMatch, Reopen
    PROVE  Retold'
<1> SUFFICES ASSUME SameKind' PROVE first'.handler \notin Elsewhere' /\ \E T, v : Follows(T, v)'
  BY DEF Retold
<1>1. /\ phase = "done" /\ first' = [handler |-> handler, recs |-> recs]
      /\ phase' = "dispatch" /\ handler' = "none" /\ UNCHANGED <<bytes, ext, member, orig, apart, own>>
  BY DEF Reopen
<1>2. handler = find(head_of(orig))
  BY <1>1, FindKept DEF SameKind
<1>3. apart /\ (own \/ Guarded)
  BY <1>1 DEF SameKind, Guarded
<1>4. Laid
  BY <1>1, <1>3 DEF FrameMatch
<1>5. PICK T, v : v = Last /\ IsTrail(T, v, handler, orig) /\ \A s \in T : s # v => Spared(s)
  BY <1>1, <1>3 DEF SparedMatch
<1>6. v.phase = "opened" /\ v.recs = recs
  BY <1>1, <1>5, StateIs, HereIs DEF Last, Active, To
<1>7. IsTrail(T, v, handler, bytes) /\ find(head_of(bytes)) = handler
  BY <1>1, <1>2, <1>4, <1>5, <1>6, TrailSurvives
<1>8. find(head_of(bytes))' = find(head_of(bytes))
  BY <1>1, FindBytes
<1>9. first'.handler = handler /\ first'.recs = recs /\ handler \notin Elsewhere'
  BY <1>1, <1>4 DEF Laid, Elsewhere, fallback
<1> QED
  BY <1>1, <1>6, <1>7, <1>8, <1>9 DEF Follows

(* A second opening. *)
LEMMA AgainRetold ==
    ASSUME Inv, Ahead, Retold, Dispatching \/ Opening
    PROVE  Retold'
<1> SUFFICES ASSUME SameKind' PROVE first'.handler \notin Elsewhere' /\ \E T, v : Follows(T, v)'
  BY DEF Retold
<1>1. UNCHANGED <<bytes, ext, member, orig, apart, own, first>>
  BY OpeningOf DEF Dispatching, Route, RouteTo, OpenWith, Fail, capture
<1>2. SameKind
  BY <1>1, FindKept DEF SameKind, Again
<1>3. PICK T, v : Follows(T, v)
  BY <1>2 DEF Retold
<1>4. first.handler \notin Elsewhere
  BY <1>2 DEF Retold
<1>5. CASE Dispatching
  <2>1. Route /\ phase = "dispatch"
    BY <1>2, <1>5 DEF Dispatching, SameKind, Route
  <2>2. find(head_of(bytes)) = first.handler
    BY <1>3, <2>1 DEF Follows, Alive, Active
  <2>3. handler' = first.handler /\ phase' = "open" /\ UNCHANGED <<cursor, limit, entry, recs>>
    BY <1>4, <2>1, <2>2 DEF Route, OpenWith
  <2>4. here' = AtStart
    <3>1. To(here, "open") = AtStart
      BY <2>1, HereAtStart
    <3> QED
      BY <2>3, <3>1, HereIs DEF here, To
  <2>5. AtStart \in T
    BY <1>3 DEF Follows, IsTrail
  <2> QED
    BY <1>1, <1>3, <1>4, <2>3, <2>4, <2>5 DEF Follows, Alive, Active, Elsewhere
<1>6. CASE Opening
  <2>1. phase \in Active /\ handler' = handler /\ here' = WalkStep(handler, bytes, here)
    BY <1>6, Steps, OpeningOf
  <2>2. handler = first.handler /\ here \in T /\ IsTrail(T, v, handler, bytes) /\ v.phase = "opened"
    BY <1>3, <2>1 DEF Follows, Active
  <2>3. PICK s \in T : s = here /\ s # v
    BY <2>1, <2>2, HereIs DEF Active
  <2>4. here' \in T
    BY <2>1, <2>2, <2>3 DEF IsTrail
  <2>5. here'.phase \in Alive
    <3>1. PICK w \in T : w = here'
      BY <2>4
    <3>2. w.phase \in Alive
      BY <2>2 DEF IsTrail, Alive
    <3> QED
      BY <3>1, <3>2
  <2>6. phase' \in Alive
    BY <2>5, StateIs DEF here
  <2> QED
    BY <1>1, <1>3, <1>4, <2>1, <2>2, <2>4, <2>6 DEF Follows, Elsewhere
<1> QED
  BY <1>5, <1>6

LEMMA RetoldStep ==
    ASSUME Inv, Ahead, FrameMatch, SparedMatch, Retold, [Next]_allvars
    PROVE  Retold'
<1>1. CASE Reopen
  BY <1>1, ReopenRetold
<1>2. CASE Dispatching \/ Opening
  BY <1>2, AgainRetold
<1>3. CASE ChunksPanic \/ ScanOwn \/ ScanStray \/ Guard \/ EditHit \/ EditEnd
  <2>1. ~Again /\ first' = first
    BY <1>3 DEF ChunksPanic, ScanOwn, ScanStray, ScanWith, Scannable, Guard, EditHit, EditEnd, capture, Inv, EditMatch
  <2> QED
    BY <2>1 DEF Retold, SameKind, Again
<1>4. CASE UNCHANGED allvars
  <2>1. UNCHANGED <<bytes, ext, member, orig, apart, own, first, phase, handler, here>>
    BY <1>4 DEF allvars, vars, capture, here, State
  <2>2. SameKind' => SameKind
    BY <2>1, FindKept DEF SameKind, Again
  <2>3. find(head_of(bytes))' = find(head_of(bytes))
    BY <2>1, FindBytes
  <2>4. \A T, v : Follows(T, v) => Follows(T, v)'
    BY <2>1, <2>3 DEF Follows
  <2> QED
    BY <2>1, <2>2, <2>4 DEF Retold, Elsewhere
<1> QED
  BY <1>1, <1>2, <1>3, <1>4 DEF Next

TrailMatch == Ahead /\ Told /\ SparedMatch /\ Retold
LEMMA TrailStep == Inv /\ Inv' /\ FrameMatch /\ TrailMatch /\ [Next]_allvars => TrailMatch'
  BY AheadStep, ToldStep, SparedStep, RetoldStep DEF TrailMatch

LEMMA TrailHolds == Spec => []TrailMatch
<1>1. Init => TrailMatch
  <2> SUFFICES ASSUME Init PROVE TrailMatch
    OBVIOUS
  <2>1. phase = "dispatch" /\ ~Again /\ entry = 0 /\ limit = 0
    BY DEF Init, Again
  <2> QED
    BY <2>1 DEF TrailMatch, Ahead, Told, SparedMatch, Retold, SameKind, Alive, Active
<1> QED
  BY <1>1, InvHolds, FrameHolds, TrailStep, PTL DEF Spec

(* The result of a scrub that left the framing out goes to the handler that *)
(* the original file goes to, opens without an error and has its records.  *)
THEOREM ResultOpensTheSame == Spec => []SameStructure
<1>1. ASSUME TrailMatch PROVE SameStructure
  <2> SUFFICES ASSUME SameKind
               PROVE  /\ phase \notin {"error", "panic"}
                      /\ handler \in {"none", first.handler}
                      /\ phase = "opened" => recs = first.recs
    BY DEF SameStructure, SameKind
  <2>1. PICK T, v : Follows(T, v)
    BY <1>1 DEF TrailMatch, Retold
  <2>2. phase \in {"dispatch"} \cup Alive /\ handler \in {"none", first.handler}
    BY <2>1 DEF Follows
  <2>3. ASSUME phase = "opened" PROVE recs = first.recs
    <3>1. here \in T /\ here.phase = "opened" /\ here.recs = recs
      BY <2>1, <2>3, HereIs DEF Follows
    <3>2. here = v
      BY <2>1, <3>1 DEF Follows, IsTrail, Active
    <3> QED
      BY <2>1, <3>1, <3>2 DEF Follows
  <2> QED
    BY <2>2, <2>3 DEF Alive, Active
<1> QED
  BY <1>1, TrailHolds, PTL
=============================================================================
