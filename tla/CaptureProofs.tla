--------------------------- MODULE CaptureProofs ---------------------------
(***************************************************************************)
(* For every file, however damaged, every list of hits an archive delivers *)
(* and every width of the fields: a slice that does not exist is taken     *)
(* only where a sum wrapped, a handler never refuses a hit of its own, and *)
(* redacting changes what the hits name and nothing else.                  *)
(***************************************************************************)
EXTENDS Capture, SequenceTheorems, TLAPS

(* What a walk collects, whatever the format. *)
Rec == [offset : Nat, len : Nat] \cup [offset : Nat, len : Nat, tag : Cell]
       \cup [kind : {"load", "note"}, head : Nat, offset : Nat, len : Nat, type : Cell]

Typed ==
    /\ orig \in Seq(Cell) /\ Len(orig) + NoteHeader <= U64Max
    /\ bytes \in Seq(Cell) /\ Len(bytes) = Len(orig)
    /\ phase \in Phases
    /\ cursor \in Nat /\ limit \in Nat /\ entry \in Nat
    /\ recs \in Seq(Rec)
    /\ wrapped \in BOOLEAN /\ own \in BOOLEAN
    /\ hits \in Seq(Span) /\ next \in Nat \ {0}

(* What the opening of a file has established. *)
Walked == {"walk", "notes", "opened"}
OpenMatch ==
    /\ phase \in {"dispatch", "open"} => recs = <<>> /\ cursor = 0
    /\ phase \in Walked =>
        /\ handler \in {"jfr", "hprof", "pcap", "perf", "elf-core", fallback}
        /\ handler = "hprof" => id_size \in Nat
        /\ handler = "perf" => len >= PerfHeader /\ ~Overflows(data_offset, data_size)
        /\ handler = "elf-core" => len >= EhdrSize

(* Records end in the file, or their end is a sum that fits unless a sum    *)
(* has wrapped.                                                            *)
RecsMatch ==
    \A i \in DOMAIN recs :
        /\ handler \in {"hprof", "pcap"} => recs[i].offset + recs[i].len <= len
        /\ handler \in {"perf", "elf-core"} /\ ~wrapped => ~Overflows(recs[i].offset, recs[i].len)

NotesMatch ==
    phase = "notes" => cursor \in Cell /\ limit <= len /\ (~wrapped => cursor <= limit)

(* Hits are refused, and bytes written, only where the code means to. *)
GuardMatch ==
    /\ phase = "panic" => wrapped
    /\ phase = "scanned" /\ own => \A i \in DOMAIN hits : Accepts(hits[i])
    /\ phase = "refused" => ~own

Untouched == {"dispatch", "open", "walk", "notes", "opened", "scanned", "refused"}
HitBefore(n, k) == \E i \in DOMAIN hits : i < n /\ k \in SpanOf(hits[i])
EditMatch ==
    /\ phase \in {"scanned", "edit", "done", "refused"} => ~Again
    /\ phase \in {"scanned", "edit", "done"} => handler # "none"
    /\ phase \in Untouched /\ ~Again => bytes = orig /\ next = 1
    /\ phase \in {"edit", "done"} =>
        \A k \in Positions : at(k) = IF HitBefore(next, k) THEN 0 ELSE orig[k + 1]
    /\ phase = "done" => next > Len(hits)

Inv == Typed /\ OpenMatch /\ RecsMatch /\ NotesMatch /\ GuardMatch /\ EditMatch
-----------------------------------------------------------------------------
(* The sum of two 64-bit numbers: exact, or smaller than either.           *)
LEMMA AddFacts ==
    ASSUME NEW a \in Nat, NEW b \in Nat
    PROVE  /\ add(a, b) \in Cell
           /\ ~Overflows(a, b) => add(a, b) = a + b
           /\ a \in Cell /\ b \in Cell /\ Overflows(a, b) => add(a, b) < a
<1> DEFINE m == U64Max + 1
<1>1. U64Max \in Nat /\ m \in Nat \ {0}
  BY WidthAssumption, SMT
<1>2. PICK s \in Nat : s = a + b
  BY SMT
<1> HIDE DEF m
<1>3. s % m \in 0 .. m - 1
  BY <1>1, SMT
<1>4. s < m => s % m = s
  BY <1>1, SMT
<1>5. m <= s /\ s < 2 * m => s % m = s - m
  BY <1>1, SMT
<1> USE DEF m
<1>6. s % m = add(a, b)
  BY <1>2 DEF add
<1> QED
  BY <1>1, <1>2, <1>3, <1>4, <1>5, <1>6, SMT DEF Cell, Overflows

(* Padding never shortens. *)
LEMMA PadFacts ==
    ASSUME NEW n \in Nat
    PROVE  pad(n) \in Nat /\ pad(n) >= n
<1>1. Align \in Nat \ {0}
  BY CoreAssumption, WidthAssumption, SMT
<1>2. PICK s \in Nat : s = n + Align - 1
  BY <1>1, SMT
<1>3. PICK q \in Nat : q = s \div Align
  BY <1>1, <1>2, SMT
<1>4. s = q * Align + (s % Align) /\ s % Align \in 0 .. Align - 1
  BY <1>1, <1>2, <1>3, SMT
<1>5. PICK p \in Int : p = q * Align
  BY <1>1, <1>3, SMT
<1>6. p \in Nat /\ p >= n
  BY <1>1, <1>2, <1>4, <1>5, SMT
<1>7. pad(n) = p
  BY <1>2, <1>3, <1>5 DEF pad
<1> QED
  BY <1>6, <1>7

LEMMA CellFacts ==
    ASSUME Typed
    PROVE  /\ U64Max \in Nat /\ len \in Nat /\ len + 3 <= U64Max
           /\ DOMAIN bytes = 1 .. len
           /\ \A o \in 0 .. len - 1 : at(o) \in Cell /\ at(o) \in Nat
<1>1. U64Max \in Nat /\ len \in Nat /\ DOMAIN bytes = 1 .. len
  BY WidthAssumption, LenProperties DEF Typed, len
<1>2. len + 3 <= U64Max
  BY DEF Typed, len, NoteHeader
<1>3. ASSUME NEW o \in 0 .. len - 1 PROVE at(o) \in Cell
  <2>1. o + 1 \in 1 .. Len(bytes)
    BY <1>1, <1>3, SMT DEF len
  <2> QED
    BY <2>1, ElementOfSeq DEF Typed, at
<1>4. Cell \subseteq Nat
  BY <1>1, SMT DEF Cell
<1> QED
  BY <1>1, <1>2, <1>3, <1>4

LEMMA RecFacts ==
    ASSUME Typed, NEW i \in DOMAIN recs
    PROVE  recs[i] \in Rec /\ recs[i].offset \in Nat /\ recs[i].len \in Nat
<1>1. recs[i] \in Rec
  <2>1. i \in 1 .. Len(recs)
    BY LenProperties DEF Typed
  <2> QED
    BY <2>1, ElementOfSeq DEF Typed
<1> QED
  BY <1>1 DEF Rec

LEMMA HitFacts ==
    ASSUME Typed, NEW i \in DOMAIN hits
    PROVE  hits[i] \in Span /\ hits[i].offset \in Cell /\ hits[i].len \in Cell
<1>1. hits[i] \in Span
  <2>1. i \in 1 .. Len(hits)
    BY LenProperties DEF Typed
  <2> QED
    BY <2>1, ElementOfSeq DEF Typed
<1> QED
  BY <1>1 DEF Span

(* What one more record does to the records. *)
LEMMA Collected ==
    ASSUME Typed, NEW r \in Rec, recs' = Append(recs, r)
    PROVE  /\ recs' \in Seq(Rec)
           /\ \A i \in DOMAIN recs' : (i \in DOMAIN recs /\ recs'[i] = recs[i]) \/ recs'[i] = r
<1>1. recs \in Seq(Rec)
  BY DEF Typed
<1>2. Len(recs) \in Nat /\ DOMAIN recs = 1 .. Len(recs)
  BY <1>1, LenProperties
<1>3. /\ Append(recs, r) \in Seq(Rec)
      /\ Len(Append(recs, r)) = Len(recs) + 1
      /\ \A i \in 1 .. Len(recs) : Append(recs, r)[i] = recs[i]
      /\ Append(recs, r)[Len(recs) + 1] = r
  BY <1>1, AppendProperties
<1>4. DOMAIN recs' = 1 .. Len(recs) + 1
  BY <1>3, LenProperties
<1>5. \A i \in 1 .. Len(recs) + 1 : i \in 1 .. Len(recs) \/ i = Len(recs) + 1
  BY <1>2, SMT
<1> QED
  BY <1>2, <1>3, <1>4, <1>5
-----------------------------------------------------------------------------
(* The name's end and the size of an id depend on the bytes alone. *)
LEMMA IdKept ==
    ASSUME bytes' = bytes
    PROVE  id_size' = id_size /\ nul' = nul
<1> DEFINE Nul(b) == CHOOSE n \in 0 .. Len(b) - 1 :
                       n \in 0 .. Len(b) - 1 /\ b[n + 1] = 0 /\ \A k \in 0 .. n - 1 : b[k + 1] # 0
           Id(b) == b[Nul(b) + 1 + 1]
<1>1. id_size = Id(bytes) /\ id_size' = Id(bytes') /\ nul = Nul(bytes) /\ nul' = Nul(bytes')
  BY DEF id_size, nul, IsNul, at, Positions, len
<1> HIDE DEF Id, Nul
<1> QED
  BY <1>1

(* A step of a handler that keeps the file: what is left to show. *)
LEMMA OpeningKeeps ==
    ASSUME Inv, phase \in {"open", "walk", "notes"}, phase' \in Walked \cup {"error", "panic"},
           UNCHANGED <<handler, bytes, ext, member, capture>>,
           cursor' \in Nat, limit' \in Nat, entry' \in Nat, recs' \in Seq(Rec), wrapped' \in BOOLEAN,
           phase' \in Walked /\ phase = "open" => OpenMatch',
           RecsMatch', NotesMatch', phase' = "panic" => wrapped'
    PROVE  Inv'
<1>1. Typed'
  BY DEF Inv, Typed, capture, Walked, Phases
<1>2. OpenMatch'
  <2> DEFINE Layout ==
        /\ handler \in {"jfr", "hprof", "pcap", "perf", "elf-core", fallback}
        /\ handler = "hprof" => id_size \in Nat
        /\ handler = "perf" => len >= PerfHeader /\ ~Overflows(data_offset, data_size)
        /\ handler = "elf-core" => len >= EhdrSize
  <2>1. CASE phase = "open" /\ phase' \in Walked
    BY <2>1
  <2>2. CASE phase # "open" /\ phase' \in Walked
    <3>1. Layout
      BY <2>2 DEF Inv, OpenMatch, Walked
    <3>2. id_size' = id_size
      BY IdKept
    <3>3. len' = len /\ data_offset' = data_offset /\ data_size' = data_size
      BY DEF len, data_offset, data_size, at
    <3>4. Layout'
      BY <3>1, <3>2, <3>3 DEF Overflows, PerfHeader, fallback, EhdrSize
    <3> QED
      BY <2>2, <3>4 DEF OpenMatch, Walked
  <2>3. CASE phase' \notin Walked
    BY <2>3 DEF OpenMatch, Walked
  <2> QED
    BY <2>1, <2>2, <2>3
<1>3. GuardMatch'
  BY DEF GuardMatch, Walked
<1>4. EditMatch'
  BY DEF Inv, EditMatch, Untouched, Walked, capture, Again
<1> QED
  BY <1>1, <1>2, <1>3, <1>4 DEF Inv

(* A refusal and an end of a walk change nothing else. *)
LEMMA RestKeeps ==
    ASSUME Inv, phase \in {"open", "walk", "notes"}, phase' \in {"opened", "error"},
           UNCHANGED <<handler, bytes, cursor, limit, entry, recs, wrapped, ext, member, capture>>,
           phase' = "opened" => phase # "open"
    PROVE  Inv'
<1>1. RecsMatch'
  BY DEF Inv, RecsMatch, len, Overflows
<1>2. NotesMatch'
  BY DEF NotesMatch
<1>3. Typed
  BY DEF Inv
<1> QED
  BY <1>1, <1>2, <1>3, OpeningKeeps DEF Typed, Walked
-----------------------------------------------------------------------------
LEMMA JfrKeeps ==
    ASSUME Inv, JfrNext, UNCHANGED <<ext, member, capture>>
    PROVE  Inv'
<1> USE DEF Walked
<1>0. Typed
  BY DEF Inv
<1>1. CASE JfrOpen
  <2>1. CASE phase' = "error"
    BY <1>1, <2>1, RestKeeps DEF JfrOpen, Fail
  <2>2. CASE phase' = "walk"
    <3>1. phase = "open" /\ handler = "jfr" /\ UNCHANGED <<handler, bytes, cursor, limit, entry, recs, wrapped>>
      BY <1>1, <2>2 DEF JfrOpen, Fail
    <3>2. OpenMatch' /\ RecsMatch' /\ NotesMatch'
      BY <2>2, <3>1 DEF OpenMatch, RecsMatch, NotesMatch
    <3> QED
      BY <1>0, <2>2, <3>1, <3>2, OpeningKeeps DEF Typed
  <2> QED
    BY <1>1, <2>1, <2>2 DEF JfrOpen, Fail
<1>2. CASE JfrChunk
  <2>1. /\ handler = "jfr" /\ phase = "walk" /\ cursor + JfrHeader <= len
        /\ recs' = Append(recs, [offset |-> cursor, len |-> chunk_size])
        /\ cursor' = add(cursor, chunk_size)
        /\ wrapped' \in BOOLEAN
        /\ UNCHANGED <<handler, bytes, phase, limit, entry>>
    BY <1>2 DEF JfrChunk, JfrWalking, JfrChunkValid
  <2>2. chunk_size \in Nat /\ cursor \in Nat
    <3>1. cursor \in Nat /\ JfrHeader \in Nat /\ JfrHeader >= 2 /\ len \in Nat
      BY <1>0, CellFacts, JfrAssumption, SMT DEF Typed
    <3>2. cursor + 1 \in 0 .. len - 1
      BY <2>1, <3>1, SMT
    <3> QED
      BY <1>0, <3>1, <3>2, CellFacts DEF chunk_size
  <2>3. cursor' \in Nat
    BY <1>0, <2>1, <2>2, AddFacts, CellFacts, SMT DEF Cell
  <2>4. [offset |-> cursor, len |-> chunk_size] \in Rec
    BY <2>2 DEF Rec
  <2>5. recs' \in Seq(Rec)
    BY <1>0, <2>1, <2>4, Collected
  <2>6. RecsMatch' /\ NotesMatch'
    BY <2>1 DEF RecsMatch, NotesMatch
  <2> QED
    BY <1>0, <2>1, <2>3, <2>5, <2>6, OpeningKeeps DEF Typed
<1>3. CASE JfrInvalid
  BY <1>3, RestKeeps DEF JfrInvalid, JfrWalking, Fail
<1>4. CASE JfrEnd
  BY <1>4, RestKeeps DEF JfrEnd
<1> QED
  BY <1>1, <1>2, <1>3, <1>4 DEF JfrNext

LEMMA HprofKeeps ==
    ASSUME Inv, HprofNext, UNCHANGED <<ext, member, capture>>
    PROVE  Inv'
<1> USE DEF Walked
<1>0. Typed
  BY DEF Inv
<1>1. CASE HprofOpen
  <2>1. CASE ~HprofOpenable
    BY <1>1, <2>1, RestKeeps DEF HprofOpen, Fail
  <2>2. CASE HprofOpenable
    <3>1. /\ phase = "open" /\ phase' = "walk" /\ handler = "hprof"
          /\ UNCHANGED <<handler, bytes, limit, entry, recs, wrapped>> /\ cursor' = nul + 2
      BY <1>1, <2>2 DEF HprofOpen
    <3>2. nul \in Nat
      <4>1. PICK n \in Positions : IsNul(n)
        BY <2>2 DEF HprofOpenable
      <4>2. nul \in Positions
        BY <4>1 DEF nul
      <4> QED
        BY <1>0, <4>2, CellFacts, SMT DEF Positions
    <3>3. id_size' \in Nat
      <4>1. id_size \in Nat
        BY <2>2, HprofAssumption, WidthAssumption, SMT DEF HprofOpenable
      <4>2. id_size' = id_size
        BY <3>1, IdKept
      <4> QED
        BY <4>1, <4>2
    <3>4. recs = <<>>
      BY <3>1 DEF Inv, OpenMatch
    <3>5. OpenMatch' /\ RecsMatch' /\ NotesMatch'
      BY <3>1, <3>3, <3>4 DEF OpenMatch, RecsMatch, NotesMatch
    <3>6. cursor' \in Nat
      BY <3>1, <3>2, SMT
    <3> QED
      BY <1>0, <3>1, <3>5, <3>6, OpeningKeeps DEF Typed
  <2> QED
    BY <2>1, <2>2
<1>2. CASE HprofRecord
  <2> DEFINE r == [offset |-> body_offset, len |-> at(cursor + 1), tag |-> tag]
  <2>1. /\ handler = "hprof" /\ phase = "walk" /\ cursor + HprofHeader <= len /\ body_end <= len
        /\ recs' = Append(recs, r)
        /\ cursor' = body_end
        /\ UNCHANGED <<handler, bytes, phase, limit, entry, wrapped>>
    BY <1>2 DEF HprofRecord, HprofWalking
  <2>2. /\ cursor \in Nat /\ HprofHeader \in Nat /\ HprofHeader >= 2 /\ len \in Nat
    BY <1>0, CellFacts, HprofAssumption, SMT DEF Typed
  <2>3. at(cursor + 1) \in Nat /\ tag \in Cell
    <3>1. cursor \in 0 .. len - 1 /\ cursor + 1 \in 0 .. len - 1
      BY <2>1, <2>2, SMT
    <3> QED
      BY <1>0, <3>1, CellFacts DEF tag
  <2>4. body_offset \in Nat /\ body_end \in Nat /\ body_end = body_offset + at(cursor + 1)
    BY <2>2, <2>3, SMT DEF body_offset, body_end
  <2>5. r \in Rec
    BY <2>3, <2>4 DEF Rec
  <2>6. recs' \in Seq(Rec) /\ \A i \in DOMAIN recs' : (i \in DOMAIN recs /\ recs'[i] = recs[i]) \/ recs'[i] = r
    BY <1>0, <2>1, <2>5, Collected
  <2>7. r.offset + r.len <= len
    BY <2>1, <2>4
  <2>8. RecsMatch' /\ NotesMatch'
    BY <2>1, <2>6, <2>7 DEF Inv, RecsMatch, NotesMatch, len
  <2> QED
    BY <1>0, <2>1, <2>4, <2>6, <2>8, OpeningKeeps DEF Typed
<1>3. CASE HprofPastEnd
  BY <1>3, RestKeeps DEF HprofPastEnd, HprofWalking, Fail
<1>4. CASE HprofEnd
  BY <1>4, RestKeeps DEF HprofEnd
<1> QED
  BY <1>1, <1>2, <1>3, <1>4 DEF HprofNext

LEMMA PcapKeeps ==
    ASSUME Inv, PcapNext, UNCHANGED <<ext, member, capture>>
    PROVE  Inv'
<1> USE DEF Walked
<1>0. Typed
  BY DEF Inv
<1>1. CASE PcapOpen
  <2>1. CASE ~PcapOpenable
    BY <1>1, <2>1, RestKeeps DEF PcapOpen, Fail
  <2>2. CASE PcapOpenable
    <3>1. /\ phase = "open" /\ phase' = "walk" /\ handler = "pcap"
          /\ UNCHANGED <<handler, bytes, limit, entry, recs, wrapped>>
          /\ cursor' \in {PcapHeader, 0}
      BY <1>1, <2>2 DEF PcapOpen
    <3>2. recs = <<>>
      BY <3>1 DEF Inv, OpenMatch
    <3>3. OpenMatch' /\ RecsMatch' /\ NotesMatch'
      BY <3>1, <3>2 DEF OpenMatch, RecsMatch, NotesMatch
    <3>4. cursor' \in Nat
      BY <3>1, PcapAssumption, WidthAssumption, SMT
    <3> QED
      BY <1>0, <3>1, <3>3, <3>4, OpeningKeeps DEF Typed
  <2> QED
    BY <2>1, <2>2
<1>2. ASSUME NEW o \in Nat, NEW n \in Nat, o + n <= len, cursor' \in Nat,
             handler = "pcap", phase = "walk", recs' = Append(recs, [offset |-> o, len |-> n]),
             UNCHANGED <<handler, bytes, phase, limit, entry, wrapped>>
      PROVE  Inv'
  <2> DEFINE r == [offset |-> o, len |-> n]
  <2>1. r \in Rec /\ r.offset + r.len <= len
    BY <1>2 DEF Rec
  <2>2. recs' \in Seq(Rec) /\ \A i \in DOMAIN recs' : (i \in DOMAIN recs /\ recs'[i] = recs[i]) \/ recs'[i] = r
    BY <1>0, <1>2, <2>1, Collected
  <2>3. RecsMatch' /\ NotesMatch'
    BY <1>2, <2>1, <2>2 DEF Inv, RecsMatch, NotesMatch, len
  <2> QED
    BY <1>0, <1>2, <2>2, <2>3, OpeningKeeps DEF Typed
<1>3. cursor \in Nat /\ len \in Nat
  BY <1>0, CellFacts DEF Typed
<1>4. CASE ClassicRecord
  <2>1. /\ handler = "pcap" /\ phase = "walk" /\ payload_off <= len /\ payload_off + captured <= len
        /\ recs' = Append(recs, [offset |-> payload_off, len |-> captured])
        /\ cursor' = payload_off + captured
        /\ UNCHANGED <<handler, bytes, phase, limit, entry, wrapped>>
    BY <1>4 DEF ClassicRecord, PcapWalking, RecordFits, Keep
  <2>2. payload_off \in Nat /\ payload_off - 1 \in 0 .. len - 1
    BY <1>3, <2>1, PcapAssumption, WidthAssumption, SMT DEF payload_off
  <2>3. captured \in Nat
    BY <1>0, <2>2, CellFacts DEF captured
  <2>4. cursor' \in Nat
    BY <2>1, <2>2, <2>3, SMT
  <2> QED
    BY <1>2, <2>1, <2>2, <2>3, <2>4
<1>5. ASSUME BlockFits PROVE block_total \in Nat
  <2>1. cursor + 1 \in 0 .. len - 1
    BY <1>3, <1>5, PcapAssumption, SMT DEF BlockFits
  <2> QED
    BY <1>0, <2>1, CellFacts DEF block_total
<1>6. CASE PacketBlock
  <2>1. /\ handler = "pcap" /\ phase = "walk"
        /\ block_total >= EpbFixed + 1 /\ cursor + block_total <= len /\ epb_payload + cap_len <= len
        /\ recs' = Append(recs, [offset |-> epb_payload, len |-> cap_len])
        /\ cursor' = cursor + block_total
        /\ block_total \in Nat
        /\ UNCHANGED <<handler, bytes, phase, limit, entry, wrapped>>
    BY <1>5, <1>6 DEF PacketBlock, PcapWalking, BlockFits, IsPacket, Keep
  <2>2. epb_payload \in Nat /\ epb_payload - 1 \in 0 .. len - 1
    BY <1>3, <2>1, PcapAssumption, WidthAssumption, SMT DEF epb_payload
  <2>3. cap_len \in Nat
    BY <1>0, <2>2, CellFacts DEF cap_len
  <2>4. cursor' \in Nat
    BY <1>3, <2>1, SMT
  <2> QED
    BY <1>2, <2>1, <2>2, <2>3, <2>4
<1>7. CASE OtherBlock
  <2>1. /\ handler = "pcap" /\ phase = "walk" /\ cursor' = cursor + block_total /\ block_total \in Nat
        /\ UNCHANGED <<handler, bytes, phase, limit, entry, recs, wrapped>>
    BY <1>5, <1>7 DEF OtherBlock, PcapWalking
  <2>2. cursor' \in Nat
    BY <1>3, <2>1, SMT
  <2>3. RecsMatch' /\ NotesMatch'
    BY <2>1 DEF Inv, RecsMatch, NotesMatch, len
  <2> QED
    BY <1>0, <2>1, <2>2, <2>3, OpeningKeeps DEF Typed
<1>8. CASE ClassicEnd
  BY <1>8, RestKeeps DEF ClassicEnd, PcapWalking, Stop
<1>9. CASE BlocksEnd
  BY <1>9, RestKeeps DEF BlocksEnd, PcapWalking, Stop
<1> QED
  BY <1>1, <1>4, <1>6, <1>7, <1>8, <1>9 DEF PcapNext

LEMMA PerfKeeps ==
    ASSUME Inv, PerfNext, UNCHANGED <<ext, member, capture>>
    PROVE  Inv'
<1> USE DEF Walked
<1>0. Typed /\ cursor \in Nat /\ entry \in Nat /\ wrapped \in BOOLEAN
  BY DEF Inv, Typed
<1>00. U64Max \in Nat /\ len \in Nat /\ \A o \in 0 .. len - 1 : at(o) \in Cell /\ at(o) \in Nat
  BY <1>0, CellFacts
<1>1. CASE PerfOpen
  <2>1. CASE ~PerfOpenable
    BY <1>1, <2>1, RestKeeps DEF PerfOpen, Fail
  <2>2. CASE PerfOpenable
    <3>1. /\ phase = "open" /\ phase' = "walk" /\ handler = "perf"
          /\ UNCHANGED <<handler, bytes, limit, recs, wrapped>>
          /\ cursor' = data_offset + data_size /\ entry' = 1
      BY <1>1, <2>2 DEF PerfOpen
    <3>2. len >= PerfHeader /\ ~Overflows(data_offset, data_size)
      BY <2>2 DEF PerfOpenable
    <3>3. data_offset \in Nat /\ data_size \in Nat
      <4>1. 1 \in 0 .. len - 1 /\ 2 \in 0 .. len - 1
        BY <1>00, <3>2, PerfAssumption, SMT DEF PerfHeader
      <4> QED
        BY <1>00, <4>1 DEF data_offset, data_size
    <3>4. recs = <<>>
      BY <3>1 DEF Inv, OpenMatch
    <3>5. len' = len /\ data_offset' = data_offset /\ data_size' = data_size
      BY <3>1 DEF len, data_offset, data_size, at
    <3>6. len' >= PerfHeader /\ ~Overflows(data_offset', data_size')
      BY <3>2, <3>5
    <3>7. OpenMatch' /\ RecsMatch' /\ NotesMatch'
      BY <3>1, <3>4, <3>6 DEF OpenMatch, RecsMatch, NotesMatch, Overflows, PerfHeader
    <3>8. cursor' \in Nat /\ entry' \in Nat
      BY <3>1, <3>3, SMT
    <3> QED
      BY <1>0, <3>1, <3>7, <3>8, OpeningKeeps DEF Typed
  <2> QED
    BY <2>1, <2>2
<1>2. CASE PerfNoFeature
  <2>1. /\ handler = "perf" /\ phase = "walk" /\ entry' = entry + 1
        /\ UNCHANGED <<handler, bytes, phase, cursor, limit, recs, wrapped>>
    BY <1>2 DEF PerfNoFeature, PerfWalking
  <2>2. entry' \in Nat
    BY <1>0, <2>1, SMT
  <2>3. RecsMatch' /\ NotesMatch'
    BY <2>1 DEF Inv, RecsMatch, NotesMatch, len, Overflows
  <2> QED
    BY <1>0, <2>1, <2>2, <2>3, OpeningKeeps DEF Typed
<1>3. CASE PerfFeature
  <2> DEFINE r == [offset |-> desc_off, len |-> desc_size]
  <2>1. /\ handler = "perf" /\ phase = "walk" /\ cursor + DescSize <= len
        /\ recs' = Append(recs, r)
        /\ cursor' = cursor + DescSize /\ entry' = entry + 1
        /\ wrapped' = (wrapped \/ Overflows(desc_off, desc_size))
        /\ UNCHANGED <<handler, bytes, phase, limit>>
    BY <1>3 DEF PerfFeature, PerfWalking, FeatureFits, DescFits
  <2>2. desc_off \in Nat /\ desc_size \in Nat
    <3>1. cursor \in 0 .. len - 1 /\ cursor + 1 \in 0 .. len - 1
      BY <1>0, <1>00, <2>1, SMT DEF DescSize
    <3> QED
      BY <1>00, <3>1 DEF desc_off, desc_size
  <2>3. cursor' \in Nat /\ entry' \in Nat
    BY <1>0, <2>1, SMT DEF DescSize
  <2>4. r \in Rec
    BY <2>2 DEF Rec
  <2>5. recs' \in Seq(Rec) /\ \A i \in DOMAIN recs' : (i \in DOMAIN recs /\ recs'[i] = recs[i]) \/ recs'[i] = r
    BY <1>0, <2>1, <2>4, Collected
  <2>6. ~wrapped' => ~wrapped /\ ~Overflows(r.offset, r.len)
    BY <2>1
  <2>7. wrapped' \in BOOLEAN
    BY <1>0, <2>1 DEF Overflows
  <2>8. RecsMatch' /\ NotesMatch'
    BY <2>1, <2>5, <2>6 DEF Inv, RecsMatch, NotesMatch, Overflows
  <2> QED
    BY <1>0, <2>1, <2>3, <2>5, <2>7, <2>8, OpeningKeeps DEF Typed
<1>4. CASE PerfPastEnd
  BY <1>4, RestKeeps DEF PerfPastEnd, PerfWalking, Fail
<1>5. CASE PerfEnd
  BY <1>5, RestKeeps DEF PerfEnd
<1> QED
  BY <1>1, <1>2, <1>3, <1>4, <1>5 DEF PerfNext
-----------------------------------------------------------------------------
(* A program header that is a slice of the file did not wrap. *)
LEMMA HeaderFacts ==
    ASSUME Inv, CoreWalking
    PROVE  /\ ph \in Cell
           /\ ~HeaderPastEnd /\ ~HeaderReadable => HeaderWraps
           /\ HeaderReadable => p_type \in Cell /\ p_offset \in Cell /\ p_filesz \in Cell
<1>0. Typed /\ phase = "walk" /\ handler = "elf-core" /\ entry \in Nat
  BY DEF Inv, Typed, CoreWalking
<1>1. U64Max \in Nat /\ len \in Nat /\ len + 3 <= U64Max /\ \A o \in 0 .. len - 1 : at(o) \in Cell
  BY <1>0, CellFacts
<1>2. e_phoff \in Nat
  <2>1. 1 \in 0 .. len - 1
    BY <1>0, <1>1, SMT DEF Inv, OpenMatch, Walked, EhdrSize
  <2> QED
    BY <1>1, <2>1, SMT DEF e_phoff, Cell
<1>3. ph \in Cell
  <2>1. PICK e \in Nat : e = entry * PhdrSize
    BY <1>0, SMT DEF PhdrSize
  <2> QED
    BY <1>2, <2>1, AddFacts DEF ph
<1>4. ph \in Nat /\ PhdrSize = 3 /\ PhdrSize \in Nat /\ PhdrSize \in Cell
  BY <1>1, <1>3, SMT DEF Cell, PhdrSize
<1>5. /\ ph_end \in Cell
      /\ ~Overflows(ph, PhdrSize) => ph_end = ph + 3
      /\ Overflows(ph, PhdrSize) => ph_end < ph
  BY <1>3, <1>4, AddFacts DEF ph_end
<1>6. ~HeaderPastEnd /\ ~HeaderReadable => HeaderWraps
  <2> SUFFICES ASSUME ~HeaderPastEnd, ~HeaderReadable, ~Overflows(ph, PhdrSize) PROVE FALSE
    BY DEF HeaderWraps
  <2>1. ph_end <= len /\ ~(ph <= ph_end)
    BY <1>1, <1>5, SMT DEF HeaderPastEnd, HeaderReadable, SliceExists, Cell
  <2> QED
    BY <1>4, <1>5, <2>1, SMT
<1>7. ASSUME HeaderReadable PROVE p_type \in Cell /\ p_offset \in Cell /\ p_filesz \in Cell
  <2>1. ph <= ph_end /\ ph_end <= len
    BY <1>7 DEF HeaderReadable, SliceExists
  <2>2. ph_end = ph + 3
    BY <1>1, <1>4, <1>5, <2>1, SMT DEF Cell
  <2>3. ph \in 0 .. len - 1 /\ ph + 1 \in 0 .. len - 1 /\ ph + 2 \in 0 .. len - 1
    BY <1>1, <1>4, <2>1, <2>2, SMT
  <2> QED
    BY <1>1, <2>3 DEF p_type, p_offset, p_filesz
<1> QED
  BY <1>3, <1>6, <1>7

(* One more program header that is a segment of the file. *)
LEMMA SegmentFacts ==
    ASSUME Inv, CoreWalking, HeaderReadable, SegmentFits, entry' = entry + 1, Wraps
    PROVE  /\ entry' \in Nat /\ wrapped' \in BOOLEAN
           /\ p_type \in Nat /\ p_offset \in Cell /\ p_offset \in Nat /\ p_filesz \in Nat
           /\ seg_end \in Nat /\ seg_end <= len
           /\ ~wrapped' => ~wrapped /\ ~Overflows(p_offset, p_filesz) /\ p_offset <= seg_end
<1>1. U64Max \in Nat /\ entry \in Nat /\ wrapped \in BOOLEAN
  BY WidthAssumption DEF Inv, Typed
<1>2. p_type \in Cell /\ p_offset \in Cell /\ p_filesz \in Cell
  BY HeaderFacts
<1>3. p_type \in Nat /\ p_offset \in Nat /\ p_filesz \in Nat
  BY <1>1, <1>2, SMT DEF Cell
<1>4. seg_end \in Cell /\ (~Overflows(p_offset, p_filesz) => seg_end = p_offset + p_filesz)
  BY <1>3, AddFacts DEF seg_end
<1>5. seg_end \in Nat
  BY <1>1, <1>4, SMT DEF Cell
<1>6. ~Overflows(p_offset, p_filesz) => p_offset <= seg_end
  BY <1>3, <1>4, SMT
<1>7. wrapped' \in BOOLEAN /\ (~wrapped' => ~wrapped /\ ~Overflows(p_offset, p_filesz))
  BY <1>1 DEF Wraps, HeaderWraps, Overflows
<1>8. entry' \in Nat
  BY <1>1, SMT
<1> QED
  BY <1>2, <1>3, <1>5, <1>6, <1>7, <1>8 DEF SegmentFits

(* A note that can be read lies in its segment. *)
LEMMA NoteFacts ==
    ASSUME Inv, InNotes, MoreNotes
    PROVE  /\ ~NoteReadable => wrapped
           /\ NoteReadable /\ desc_end <= limit =>
                /\ name_end \in Nat /\ descsz \in Nat /\ n_type \in Cell
                /\ desc_end \in Nat /\ desc_end \in Cell
                /\ ~Overflows(name_end, descsz)
<1>0. Typed /\ phase = "notes" /\ handler = "elf-core" /\ cursor \in Nat /\ limit \in Nat /\ wrapped \in BOOLEAN
  BY DEF Inv, Typed, InNotes
<1>1. /\ U64Max \in Nat /\ len \in Nat /\ len + 3 <= U64Max
      /\ \A o \in 0 .. len - 1 : at(o) \in Cell /\ at(o) \in Nat
  BY <1>0, CellFacts
<1>2. cursor \in Cell /\ limit <= len /\ (~wrapped => cursor <= limit)
  BY <1>0 DEF Inv, NotesMatch
<1>3. NoteHeader = 3 /\ NoteHeader \in Nat /\ NoteHeader \in Cell
  BY <1>1, SMT DEF NoteHeader, Cell
<1> DEFINE more == add(cursor, NoteHeader)
<1>4. /\ more \in Cell
      /\ ~Overflows(cursor, NoteHeader) => more = cursor + 3
      /\ Overflows(cursor, NoteHeader) => more < cursor
  BY <1>0, <1>2, <1>3, AddFacts
<1>5. more <= limit /\ (NoteReadable <=> cursor <= more /\ more <= len)
  BY DEF MoreNotes, NoteReadable, SliceExists
<1>6. Overflows(cursor, NoteHeader) <=> cursor + 3 > U64Max
  BY <1>3 DEF Overflows
<1> HIDE DEF more
<1>7. ASSUME ~NoteReadable, ~wrapped PROVE FALSE
  <2>1. cursor + 3 <= U64Max
    BY <1>0, <1>1, <1>2, <1>7, SMT
  <2> QED
    BY <1>0, <1>1, <1>2, <1>4, <1>5, <1>6, <1>7, <2>1, SMT DEF Cell
<1>8. ASSUME NoteReadable, desc_end <= limit
      PROVE  /\ name_end \in Nat /\ descsz \in Nat /\ n_type \in Cell
             /\ desc_end \in Nat /\ desc_end \in Cell
             /\ ~Overflows(name_end, descsz)
  <2>1. cursor + 3 <= len
    BY <1>0, <1>1, <1>4, <1>5, <1>6, <1>8, SMT DEF Cell
  <2>2. cursor \in 0 .. len - 1 /\ cursor + 1 \in 0 .. len - 1 /\ cursor + 2 \in 0 .. len - 1
    BY <1>0, <1>1, <2>1, SMT
  <2>3. at(cursor) \in Nat /\ descsz \in Nat /\ n_type \in Cell
    BY <1>1, <2>2 DEF descsz, n_type
  <2>4. pad(at(cursor)) \in Nat /\ pad(descsz) \in Nat /\ pad(descsz) >= descsz
    BY <2>3, PadFacts
  <2>5. name_end \in Nat
    BY <1>0, <1>3, <2>4, SMT DEF name_end
  <2>6. PICK p \in Nat : p = pad(descsz)
    BY <2>4
  <2>7. desc_end = name_end + p
    BY <2>6 DEF desc_end
  <2>8. desc_end \in Nat /\ desc_end <= U64Max /\ name_end + descsz <= U64Max
    BY <1>0, <1>1, <1>2, <1>8, <2>3, <2>4, <2>5, <2>6, <2>7, SMT
  <2> QED
    BY <1>1, <2>3, <2>5, <2>8, SMT DEF Overflows, Cell
<1> QED
  BY <1>0, <1>7, <1>8

LEMMA CoreKeeps ==
    ASSUME Inv, CoreNext, UNCHANGED <<ext, member, capture>>
    PROVE  Inv'
<1> USE DEF Walked
<1>0. Typed
  BY DEF Inv
<1>1. CASE CoreOpen
  <2>1. CASE phase' = "error"
    BY <1>1, <2>1, RestKeeps DEF CoreOpen, Fail
  <2>2. CASE phase' # "error"
    <3>1. /\ phase = "open" /\ phase' = "walk" /\ handler = "elf-core" /\ len >= EhdrSize
          /\ UNCHANGED <<handler, bytes, cursor, limit, entry, recs, wrapped>>
      BY <1>1, <2>2 DEF CoreOpen, Fail
    <3>2. recs = <<>>
      BY <3>1 DEF Inv, OpenMatch
    <3>3. OpenMatch' /\ RecsMatch' /\ NotesMatch'
      BY <3>1, <3>2 DEF OpenMatch, RecsMatch, NotesMatch, len, EhdrSize
    <3> QED
      BY <1>0, <3>1, <3>3, OpeningKeeps DEF Typed
  <2> QED
    BY <2>1, <2>2
<1>2. ASSUME NEW r \in Rec, ~wrapped' => ~wrapped /\ ~Overflows(r.offset, r.len), wrapped' \in BOOLEAN,
             handler = "elf-core", phase \in {"walk", "notes"}, phase' = phase, recs' = Append(recs, r),
             cursor' \in Nat, entry' \in Nat, NotesMatch', UNCHANGED <<handler, bytes, limit>>
      PROVE  Inv'
  <2>1. recs' \in Seq(Rec) /\ \A i \in DOMAIN recs' : (i \in DOMAIN recs /\ recs'[i] = recs[i]) \/ recs'[i] = r
    BY <1>0, <1>2, Collected
  <2>2. RecsMatch'
    BY <1>2, <2>1 DEF Inv, RecsMatch, Overflows
  <2> QED
    BY <1>0, <1>2, <2>1, <2>2, OpeningKeeps DEF Typed
<1>3. ASSUME handler = "elf-core", phase = "walk", phase' \in {"walk", "notes"}, ~wrapped' => ~wrapped,
             wrapped' \in BOOLEAN, cursor' \in Nat, limit' \in Nat, entry' \in Nat, NotesMatch',
             UNCHANGED <<handler, bytes, recs>>
      PROVE  Inv'
  <2>1. RecsMatch'
    BY <1>3 DEF Inv, RecsMatch, Overflows
  <2> QED
    BY <1>0, <1>3, <2>1, OpeningKeeps DEF Typed
<1>4. CASE PhdrWrapped
  <2>1. /\ handler = "elf-core" /\ phase = "walk" /\ phase' = "panic"
        /\ wrapped' = (wrapped \/ HeaderWraps) /\ HeaderWraps
        /\ UNCHANGED <<handler, bytes, cursor, limit, entry, recs>>
    BY <1>4, HeaderFacts DEF PhdrWrapped, Panic, CoreWalking
  <2>2. RecsMatch' /\ NotesMatch'
    BY <2>1 DEF RecsMatch, NotesMatch
  <2> QED
    BY <1>0, <2>1, <2>2, OpeningKeeps DEF Typed
<1>5. CASE PhdrPastEnd
  BY <1>5, RestKeeps DEF PhdrPastEnd, CoreWalking, Fail
<1>6. CASE PhdrLoad
  <2> DEFINE r == [kind |-> "load", head |-> p_offset, offset |-> p_offset, len |-> p_filesz, type |-> 0]
  <2>1. /\ CoreWalking /\ HeaderReadable /\ SegmentFits /\ Wraps
        /\ handler = "elf-core" /\ phase = "walk"
        /\ recs' = Append(recs, r) /\ entry' = entry + 1
        /\ UNCHANGED <<handler, bytes, phase, cursor, limit>>
    BY <1>6 DEF PhdrLoad, CoreWalking
  <2>2. /\ entry' \in Nat /\ wrapped' \in BOOLEAN /\ p_offset \in Nat /\ p_filesz \in Nat
        /\ ~wrapped' => ~wrapped /\ ~Overflows(p_offset, p_filesz)
    BY <2>1, SegmentFacts
  <2>3. 0 \in Cell
    BY WidthAssumption, SMT DEF Cell
  <2>4. r \in Rec
    BY <2>2, <2>3 DEF Rec
  <2>5. NotesMatch'
    BY <2>1 DEF NotesMatch
  <2>6. cursor' \in Nat
    BY <1>0, <2>1 DEF Typed
  <2>7. r.offset = p_offset /\ r.len = p_filesz
    OBVIOUS
  <2> HIDE DEF r
  <2> QED
    BY <1>2, <2>1, <2>2, <2>4, <2>5, <2>6, <2>7
<1>7. CASE PhdrNote
  <2>1. /\ CoreWalking /\ HeaderReadable /\ SegmentFits /\ Wraps
        /\ handler = "elf-core" /\ phase = "walk" /\ phase' = "notes"
        /\ cursor' = p_offset /\ limit' = seg_end /\ entry' = entry + 1
        /\ UNCHANGED <<handler, bytes, recs>>
    BY <1>7 DEF PhdrNote, CoreWalking
  <2>2. /\ entry' \in Nat /\ wrapped' \in BOOLEAN /\ p_offset \in Nat /\ p_offset \in Cell
        /\ seg_end \in Nat /\ seg_end <= len
        /\ ~wrapped' => ~wrapped /\ p_offset <= seg_end
    BY <2>1, SegmentFacts
  <2>3. NotesMatch'
    BY <2>1, <2>2 DEF NotesMatch, len, Cell
  <2> QED
    BY <1>3, <2>1, <2>2, <2>3
<1>8. CASE PhdrOther
  <2>1. /\ CoreWalking /\ HeaderReadable /\ SegmentFits /\ Wraps
        /\ handler = "elf-core" /\ phase = "walk" /\ entry' = entry + 1
        /\ UNCHANGED <<handler, bytes, phase, cursor, limit, recs>>
    BY <1>8 DEF PhdrOther, CoreWalking
  <2>2. entry' \in Nat /\ wrapped' \in BOOLEAN /\ (~wrapped' => ~wrapped)
    BY <2>1, SegmentFacts
  <2>3. NotesMatch' /\ cursor' \in Nat /\ limit' \in Nat
    BY <1>0, <2>1 DEF NotesMatch, Typed
  <2> QED
    BY <1>3, <2>1, <2>2, <2>3
<1>9. CASE CoreEnd
  BY <1>9, RestKeeps DEF CoreEnd
<1>10. CASE NoteWrapped
  <2>1. /\ handler = "elf-core" /\ phase = "notes" /\ phase' = "panic" /\ wrapped
        /\ UNCHANGED <<handler, bytes, cursor, limit, entry, recs, wrapped>>
    BY <1>10, NoteFacts DEF NoteWrapped, InNotes, Panic
  <2>2. RecsMatch' /\ NotesMatch'
    BY <2>1 DEF RecsMatch, NotesMatch
  <2> QED
    BY <1>0, <2>1, <2>2, OpeningKeeps DEF Typed
<1>11. CASE NotePastEnd
  BY <1>11, RestKeeps DEF NotePastEnd, InNotes, Fail
<1>12. CASE Note
  <2> DEFINE r == [kind |-> "note", head |-> cursor, offset |-> name_end, len |-> descsz, type |-> n_type]
  <2>1. /\ handler = "elf-core" /\ phase = "notes"
        /\ recs' = Append(recs, r) /\ cursor' = desc_end /\ desc_end <= limit
        /\ UNCHANGED <<handler, bytes, phase, limit, entry, wrapped>>
    BY <1>12 DEF Note, InNotes
  <2>2. /\ name_end \in Nat /\ descsz \in Nat /\ n_type \in Cell
        /\ desc_end \in Nat /\ desc_end \in Cell /\ ~Overflows(name_end, descsz)
    BY <1>12, NoteFacts DEF Note
  <2>3. r \in Rec
    BY <1>0, <2>2 DEF Rec, Typed
  <2>4. NotesMatch'
    BY <2>1, <2>2 DEF Inv, NotesMatch, len, Cell
  <2>5. entry' \in Nat /\ wrapped' \in BOOLEAN
    BY <1>0, <2>1 DEF Typed
  <2>6. r.offset = name_end /\ r.len = descsz
    OBVIOUS
  <2> HIDE DEF r
  <2> QED
    BY <1>2, <2>1, <2>2, <2>3, <2>4, <2>5, <2>6
<1>13. CASE NotesEnd
  <2>1. /\ handler = "elf-core" /\ phase = "notes" /\ phase' = "walk"
        /\ UNCHANGED <<handler, bytes, cursor, limit, entry, recs, wrapped>>
    BY <1>13 DEF NotesEnd, InNotes
  <2>2. RecsMatch' /\ NotesMatch'
    BY <2>1 DEF Inv, RecsMatch, NotesMatch, Overflows
  <2> QED
    BY <1>0, <2>1, <2>2, OpeningKeeps DEF Typed
<1> QED
  BY <1>1, <1>4, <1>5, <1>6, <1>7, <1>8, <1>9, <1>10, <1>11, <1>12, <1>13 DEF CoreNext
-----------------------------------------------------------------------------
(* Each handler's chunks are its own. *)
LEMMA ChunksOf ==
    /\ handler = "jfr" => Chunks = JfrChunks
    /\ handler = "hprof" => Chunks = HprofChunks
    /\ handler = "pcap" => Chunks = PcapChunks
    /\ handler = "perf" => Chunks = PerfChunks
    /\ handler = "elf-core" => Chunks = CoreChunks
    /\ handler = fallback => Chunks = PassthroughChunks
  BY DEF Chunks, fallback

(* What is handed out as a chunk is a slice of the file, unless a sum has   *)
(* wrapped.                                                                *)
LEMMA ChunkFacts ==
    ASSUME Inv, phase = "opened", NEW c \in Chunks
    PROVE  /\ c.from \in Nat /\ c.to \in Nat
           /\ ~wrapped => SliceExists(c.from, c.to)
<1>0. Typed /\ wrapped \in BOOLEAN
  BY DEF Inv, Typed
<1>1. U64Max \in Nat /\ len \in Nat /\ len + 3 <= U64Max /\ \A o \in 0 .. len - 1 : at(o) \in Cell /\ at(o) \in Nat
  BY <1>0, CellFacts
<1>2. \A r \in {recs[i] : i \in DOMAIN recs} :
        /\ r.offset \in Nat /\ r.len \in Nat
        /\ handler \in {"hprof", "pcap"} => r.offset + r.len <= len
        /\ handler \in {"perf", "elf-core"} /\ ~wrapped => ~Overflows(r.offset, r.len)
  BY <1>0, RecFacts DEF Inv, RecsMatch
<1>3. \A a, b \in Nat : add(a, b) \in Nat /\ (~Overflows(a, b) => add(a, b) = a + b /\ a <= add(a, b))
  <2> SUFFICES ASSUME NEW a \in Nat, NEW b \in Nat
               PROVE  add(a, b) \in Nat /\ (~Overflows(a, b) => add(a, b) = a + b /\ a <= add(a, b))
    OBVIOUS
  <2>1. add(a, b) \in Cell /\ (~Overflows(a, b) => add(a, b) = a + b)
    BY AddFacts
  <2>2. add(a, b) \in Nat
    BY <1>1, <2>1, SMT DEF Cell
  <2>3. a <= a + b
    BY SMT
  <2> QED
    BY <2>1, <2>2, <2>3
<1>4. CASE handler = "jfr"
  <2>0. c \in JfrChunks
    BY <1>4, ChunksOf
  <2>1. PICK i \in DOMAIN recs : c = JfrBody(recs[i]) /\ c.to <= len /\ c.from < c.to
    BY <2>0 DEF JfrChunks
  <2>2. c.from = recs[i].offset + JfrHeader /\ c.to = add(recs[i].offset, recs[i].len)
    BY <2>1 DEF JfrBody
  <2>3. recs[i].offset \in Nat /\ recs[i].len \in Nat /\ JfrHeader \in Nat
    BY <1>0, RecFacts, JfrAssumption, WidthAssumption, SMT
  <2>4. c.to \in Nat
    BY <1>3, <2>2, <2>3
  <2>5. c.from \in Nat
    BY <2>2, <2>3, SMT
  <2> QED
    BY <2>1, <2>4, <2>5, SMT DEF SliceExists
<1>5. CASE handler = "hprof"
  <2>0. c \in HprofChunks
    BY <1>5, ChunksOf
  <2>1. id_size \in Nat
    BY <1>5 DEF Inv, OpenMatch, Walked
  <2>2. PICK r \in {recs[i] : i \in DOMAIN recs} :
          \/ c = [from |-> r.offset, to |-> r.offset + r.len]
          \/ c = [from |-> r.offset + id_size, to |-> r.offset + r.len] /\ r.len > id_size
    BY <2>0 DEF HprofChunks
  <2>3. r.offset \in Nat /\ r.len \in Nat /\ r.offset + r.len <= len
    BY <1>2, <1>5
  <2>4. CASE c = [from |-> r.offset, to |-> r.offset + r.len]
    BY <1>1, <2>3, <2>4, SMT DEF SliceExists
  <2>5. CASE c = [from |-> r.offset + id_size, to |-> r.offset + r.len] /\ r.len > id_size
    <3>1. c.from = r.offset + id_size /\ c.to = r.offset + r.len
      BY <2>5
    <3> QED
      BY <1>1, <2>1, <2>3, <2>5, <3>1, SMT DEF SliceExists
  <2> QED
    BY <2>2, <2>4, <2>5
<1>6. CASE handler = "pcap"
  <2>0. c \in PcapChunks
    BY <1>6, ChunksOf
  <2>1. PICK r \in {recs[i] : i \in DOMAIN recs} : c = [from |-> r.offset, to |-> r.offset + r.len]
    BY <2>0 DEF PcapChunks
  <2>2. r.offset \in Nat /\ r.len \in Nat /\ r.offset + r.len <= len
    BY <1>2, <1>6
  <2> QED
    BY <1>1, <2>1, <2>2, SMT DEF SliceExists
<1>7. CASE handler = "perf"
  <2>0. c \in PerfChunks
    BY <1>7, ChunksOf
  <2>1. len >= PerfHeader /\ ~Overflows(data_offset, data_size)
    BY <1>7 DEF Inv, OpenMatch, Walked
  <2>2. data_offset \in Nat /\ data_size \in Nat
    <3>1. 1 \in 0 .. len - 1 /\ 2 \in 0 .. len - 1
      BY <1>1, <2>1, PerfAssumption, SMT DEF PerfHeader
    <3> QED
      BY <1>1, <3>1 DEF data_offset, data_size
  <2>3. c.to <= len
    BY <2>0 DEF PerfChunks
  <2>4. \/ c = [from |-> data_offset, to |-> add(data_offset, data_size)]
        \/ \E r \in {recs[i] : i \in DOMAIN recs} : c = [from |-> r.offset, to |-> add(r.offset, r.len)]
    BY <2>0 DEF PerfChunks, PerfData1
  <2>5. PICK a \in Nat, b \in Nat : c = [from |-> a, to |-> add(a, b)] /\ (~wrapped => ~Overflows(a, b))
    BY <1>2, <1>7, <2>1, <2>2, <2>4
  <2>6. c.from = a /\ c.to = add(a, b)
    BY <2>5
  <2> QED
    BY <1>3, <2>3, <2>5, <2>6 DEF SliceExists
<1>8. CASE handler = "elf-core"
  <2>0. c \in CoreChunks
    BY <1>8, ChunksOf
  <2>1. PICK r \in {recs[i] : i \in DOMAIN recs} :
          /\ CoreSpan(r).to <= len
          /\ c = CoreSpan(r) \/ (c = Psargs(r) /\ HasPsargs(r))
    BY <2>0 DEF CoreChunks
  <2>2. r.offset \in Nat /\ r.len \in Nat /\ (~wrapped => ~Overflows(r.offset, r.len))
    BY <1>2, <1>8
  <2>3. CoreSpan(r).from = r.offset /\ CoreSpan(r).to = add(r.offset, r.len)
    BY DEF CoreSpan
  <2>4. add(r.offset, r.len) \in Nat /\ (~wrapped => add(r.offset, r.len) = r.offset + r.len /\ r.offset <= add(r.offset, r.len))
    BY <1>3, <2>2
  <2>5. CASE c = CoreSpan(r)
    BY <2>1, <2>2, <2>3, <2>4, <2>5 DEF SliceExists
  <2>6. CASE c = Psargs(r) /\ HasPsargs(r)
    <3>1. PsargsOffset \in Nat /\ PsargsLen \in Nat
      BY CoreAssumption, WidthAssumption, SMT
    <3>2. c.from = r.offset + PsargsOffset /\ c.to = r.offset + PsargsOffset + PsargsLen
      BY <2>6 DEF Psargs
    <3>3. r.len >= PsargsOffset + PsargsLen
      BY <2>6 DEF HasPsargs
    <3>4. ~wrapped => r.offset + r.len <= len
      BY <2>1, <2>3, <2>4
    <3> QED
      BY <1>0, <1>1, <2>2, <3>1, <3>2, <3>3, <3>4, SMT DEF SliceExists
  <2> QED
    BY <2>1, <2>5, <2>6
<1>9. CASE handler = fallback
  <2>0. c \in PassthroughChunks
    BY <1>9, ChunksOf
  <2>1. c = [from |-> 0, to |-> len]
    BY <2>0 DEF PassthroughChunks
  <2> QED
    BY <1>1, <2>1, SMT DEF SliceExists
<1> QED
  BY <1>4, <1>5, <1>6, <1>7, <1>8, <1>9 DEF Inv, OpenMatch, Walked

(* A hit found in a chunk lies in a slice of the file and where the handler *)
(* lets hits lie.                                                          *)
LEMMA FoundFacts ==
    ASSUME Inv, Scannable, NEW h \in Found
    PROVE  h \in Span /\ Accepts(h)
<1>0. Typed /\ phase = "opened"
  BY DEF Inv, Scannable
<1>1. PICK c \in Chunks : h \in HitsIn(c) /\ h.offset + h.len <= c.to
  BY DEF Found
<1>2. PICK o \in Within(c.from, c.to), n \in 1 .. MaxHitLen : h = [offset |-> o, len |-> n]
  BY <1>1 DEF HitsIn
<1>3. c.from \in Nat /\ c.to \in Nat /\ c.to <= len
  BY <1>0, ChunkFacts DEF Scannable, SliceExists
<1>4. U64Max \in Nat /\ len \in Nat /\ len + 3 <= U64Max
  BY <1>0, CellFacts
<1>5. h.offset = o /\ h.len = n
  BY <1>2
<1>6. o \in Nat /\ n \in Nat /\ c.from <= o /\ o + n <= c.to
  BY <1>1, <1>2, <1>3, <1>5, CaptureAssumption, SMT DEF Within
<1>7. h \in Span
  <2>1. o \in Cell /\ n \in Cell
    BY <1>3, <1>4, <1>6, SMT DEF Cell
  <2> QED
    BY <1>2, <2>1 DEF Span
<1>8. Accepts(h)
  <2>1. CASE handler = "jfr"
    <3>1. PICK i \in DOMAIN recs : c = JfrBody(recs[i])
      BY <2>1, ChunksOf DEF JfrChunks
    <3>2. o >= JfrBody(recs[i]).from /\ o + n <= JfrBody(recs[i]).to
      BY <1>3, <1>6, <3>1, SMT
    <3>3. JfrAccepts(h)
      BY <1>5, <3>2 DEF JfrAccepts
    <3> QED
      BY <2>1, <3>3 DEF Accepts
  <2>2. CASE handler = "pcap"
    <3>1. PICK i \in DOMAIN recs : c = [from |-> recs[i].offset, to |-> recs[i].offset + recs[i].len]
      BY <2>2, ChunksOf DEF PcapChunks
    <3>2. c.from = recs[i].offset /\ c.to = recs[i].offset + recs[i].len
      BY <3>1
    <3>3. o >= recs[i].offset /\ o + n <= recs[i].offset + recs[i].len
      BY <1>3, <1>6, <3>2, SMT
    <3>4. PcapAccepts(h)
      BY <1>5, <3>3 DEF PcapAccepts
    <3> QED
      BY <2>2, <3>4 DEF Accepts
  <2>3. CASE handler \notin {"jfr", "pcap"}
    BY <2>3 DEF Accepts
  <2> QED
    BY <2>1, <2>2, <2>3
<1> QED
  BY <1>7, <1>8
-----------------------------------------------------------------------------
(* What one hit does to the bytes. *)
LEMMA FillFacts ==
    ASSUME Typed, NEW s \in Span, Editor!Admissible(ZeroFill(s), bytes),
           bytes' = Editor!Overwrite(bytes, ZeroFill(s))
    PROVE  /\ bytes' \in Seq(Cell) /\ Len(bytes') = Len(bytes)
           /\ \A k \in Positions : bytes'[k + 1] = IF k \in SpanOf(s) THEN 0 ELSE at(k)
<1> DEFINE h == ZeroFill(s)
<1>1. U64Max \in Nat /\ len \in Nat /\ \A o \in 0 .. len - 1 : at(o) \in Cell
  BY CellFacts
<1>2. s.offset \in Cell /\ s.len \in Cell
  BY DEF Span
<1>3. s.offset \in Nat /\ s.len \in Nat /\ s.offset <= U64Max
  BY <1>1, <1>2, SMT DEF Cell
<1>4. h.offset = s.offset /\ h.len = s.len /\ h.kind = "zero"
  BY DEF ZeroFill
<1>5. s.offset % (U64Max + 1) = s.offset
  BY <1>1, <1>3, SMT
<1>6. Editor!start(h) = s.offset
  BY <1>4, <1>5 DEF Editor!start
<1>7. Editor!end(h) # -1 /\ Editor!end(h) <= Len(bytes)
  BY DEF Editor!Admissible, Editor!InBounds
<1>8. Editor!end(h) = s.offset + s.len
  BY <1>4, <1>6, <1>7 DEF Editor!end, Editor!checked_add
<1>9. \A k : Editor!Fill(h, k) = 0
  BY <1>4 DEF Editor!Fill
<1>10. \A k \in 1 .. len : Editor!Covers(h, k) <=> s.offset < k /\ k <= s.offset + s.len
  BY <1>6, <1>8 DEF Editor!Covers
<1> HIDE DEF h
<1>11. bytes' = [k \in 1 .. len |-> IF Editor!Covers(h, k) THEN 0 ELSE bytes[k]]
  BY <1>9 DEF Editor!Overwrite, h, len
<1>12. ASSUME NEW k \in 1 .. len PROVE bytes[k] \in Cell
  BY <1>12, ElementOfSeq DEF Typed, len
<1>13. 0 \in Cell
  BY <1>1, SMT DEF Cell
<1>14. bytes' \in [1 .. len -> Cell]
  BY <1>11, <1>12, <1>13
<1>15. bytes' \in Seq(Cell) /\ Len(bytes') = len
  BY <1>1, <1>14, SMT
<1>16. ASSUME NEW k \in Positions PROVE bytes'[k + 1] = IF k \in SpanOf(s) THEN 0 ELSE at(k)
  <2>1. k \in Nat /\ k + 1 \in 1 .. len
    BY <1>1, SMT DEF Positions
  <2>2. bytes'[k + 1] = IF Editor!Covers(h, k + 1) THEN 0 ELSE at(k)
    BY <1>11, <2>1 DEF at
  <2>3. Editor!Covers(h, k + 1) <=> s.offset < k + 1 /\ k + 1 <= s.offset + s.len
    BY <1>10, <2>1
  <2>4. k \in SpanOf(s) <=> s.offset < k + 1 /\ k + 1 <= s.offset + s.len
    BY <1>3, <2>1, SMT DEF SpanOf, Within
  <2> QED
    BY <2>2, <2>3, <2>4
<1> QED
  BY <1>15, <1>16 DEF len

LEMMA EditKeeps == Inv /\ EditHit => Inv'
<1> SUFFICES ASSUME Inv, EditHit PROVE Inv'
  OBVIOUS
<1> DEFINE h == ZeroFill(hits[next])
<1>1. /\ Typed /\ phase = "edit" /\ next <= Len(hits)
      /\ UNCHANGED <<handler, cursor, limit, entry, recs, wrapped, ext, member, orig, hits, own, apart, first>>
  BY DEF Inv, EditHit
<1>2. CASE ~Editor!Admissible(h, bytes)
  <2>1. phase' = "error" /\ UNCHANGED <<bytes, next>>
    BY <1>2 DEF EditHit
  <2>2. Typed' /\ OpenMatch' /\ NotesMatch' /\ GuardMatch' /\ EditMatch'
    BY <1>1, <2>1 DEF Typed, Phases, OpenMatch, Walked, NotesMatch, GuardMatch, EditMatch, Untouched
  <2>3. RecsMatch'
    BY <1>1, <2>1 DEF Inv, RecsMatch, len, Overflows
  <2> QED
    BY <2>2, <2>3 DEF Inv
<1>3. CASE Editor!Admissible(h, bytes)
  <2>1. bytes' = Editor!Overwrite(bytes, h) /\ next' = next + 1 /\ phase' = phase
    BY <1>3 DEF EditHit
  <2>2. ~Again /\ handler # "none"
    BY <1>1 DEF Inv, EditMatch
  <2>3. next \in DOMAIN hits
    <3>1. next \in Nat \ {0} /\ Len(hits) \in Nat /\ DOMAIN hits = 1 .. Len(hits)
      BY <1>1, LenProperties DEF Inv, Typed
    <3> QED
      BY <1>1, <3>1, SMT
  <2>4. hits[next] \in Span
    BY <1>1, <2>3, HitFacts
  <2>5. /\ bytes' \in Seq(Cell) /\ Len(bytes') = Len(bytes)
        /\ \A k \in Positions : bytes'[k + 1] = IF k \in SpanOf(hits[next]) THEN 0 ELSE at(k)
    BY <1>1, <1>3, <2>1, <2>4, FillFacts
  <2>6. Typed'
    <3>1. next' \in Nat \ {0}
      BY <1>1, <2>1, SMT DEF Typed
    <3> QED
      BY <1>1, <2>1, <2>5, <3>1 DEF Typed
  <2>7. OpenMatch' /\ NotesMatch' /\ GuardMatch'
    BY <1>1, <2>1 DEF OpenMatch, Walked, NotesMatch, GuardMatch
  <2>8. RecsMatch'
    BY <1>1, <2>5 DEF Inv, RecsMatch, len, Overflows
  <2>9. ASSUME NEW k \in Positions
        PROVE  bytes'[k + 1] = IF HitBefore(next + 1, k) THEN 0 ELSE orig[k + 1]
    <3>1. at(k) = IF HitBefore(next, k) THEN 0 ELSE orig[k + 1]
      BY <1>1 DEF Inv, EditMatch
    <3>2. HitBefore(next + 1, k) <=> HitBefore(next, k) \/ k \in SpanOf(hits[next])
      <4>1. \A i \in DOMAIN hits : i < next + 1 <=> i < next \/ i = next
        <5>1. next \in Nat /\ \A i \in DOMAIN hits : i \in Nat
          BY <1>1, LenProperties DEF Typed
        <5> QED
          BY <5>1, SMT
      <4> QED
        BY <2>3, <4>1 DEF HitBefore
    <3> QED
      BY <2>5, <3>1, <3>2
  <2>10. EditMatch'
    <3>1. Positions' = Positions
      BY <2>5 DEF Positions, len
    <3>2. \A k : HitBefore(next, k)' <=> HitBefore(next + 1, k)
      BY <1>1, <2>1 DEF HitBefore
    <3>3. \A k \in Positions' : at(k)' = IF HitBefore(next, k)' THEN 0 ELSE orig'[k + 1]
      BY <1>1, <2>9, <3>1, <3>2 DEF at
    <3> QED
      BY <1>1, <2>1, <2>2, <3>3 DEF EditMatch, Untouched, Again
  <2> QED
    BY <2>6, <2>7, <2>8, <2>10 DEF Inv
<1> QED
  BY <1>2, <1>3
-----------------------------------------------------------------------------
LEMMA InitInv == Init => Inv
<1> SUFFICES ASSUME Init PROVE Inv
  OBVIOUS
<1>1. PICK f \in Files : bytes = f.bytes
  BY DEF Init
<1>2. orig = bytes /\ phase = "dispatch" /\ cursor = 0 /\ limit = 0 /\ entry = 0 /\ recs = <<>>
      /\ wrapped = FALSE /\ hits = <<>> /\ next = 1 /\ own = TRUE /\ first = NotYet
  BY DEF Init
<1>3. orig \in Seq(Cell) /\ Len(orig) + NoteHeader <= U64Max
  BY <1>1, <1>2, CaptureAssumption
<1>9. 0 \in Nat /\ 1 \in Nat \ {0}
  BY SMT
<1>4. recs \in Seq(Rec) /\ hits \in Seq(Span) /\ DOMAIN recs = {}
  BY <1>2
<1>5. Typed
  BY <1>2, <1>3, <1>4, <1>9 DEF Typed, Phases
<1>6. OpenMatch /\ NotesMatch /\ GuardMatch
  BY <1>2 DEF OpenMatch, Walked, NotesMatch, GuardMatch
<1>7. RecsMatch
  BY <1>4 DEF RecsMatch
<1>8. EditMatch
  BY <1>2 DEF EditMatch, Untouched
<1> QED
  BY <1>5, <1>6, <1>7, <1>8 DEF Inv

LEMMA DispatchKeeps == Inv /\ Dispatching => Inv'
<1> SUFFICES ASSUME Inv, Dispatching PROVE Inv'
  OBVIOUS
<1>1. /\ phase = "dispatch" /\ phase' \in {"open", "elsewhere", "error"}
      /\ UNCHANGED <<bytes, cursor, limit, entry, recs, wrapped, ext, member, capture>>
  BY DEF Dispatching, Route, RouteTo, OpenWith, Fail
<1>2. recs' = <<>> /\ cursor' = 0
  BY <1>1 DEF Inv, OpenMatch
<1>3. Typed'
  BY <1>1 DEF Inv, Typed, Phases, capture
<1>4. OpenMatch' /\ NotesMatch' /\ GuardMatch'
  BY <1>1, <1>2 DEF OpenMatch, Walked, NotesMatch, GuardMatch
<1>5. RecsMatch'
  BY <1>2 DEF RecsMatch
<1>6. EditMatch'
  BY <1>1 DEF Inv, EditMatch, Untouched, Again, capture
<1> QED
  BY <1>3, <1>4, <1>5, <1>6 DEF Inv

(* A chunk that is no slice of the file means that a sum has wrapped. *)
LEMMA PanicKeeps == Inv /\ ChunksPanic => Inv'
<1> SUFFICES ASSUME Inv, ChunksPanic PROVE Inv'
  OBVIOUS
<1>1. /\ phase = "opened" /\ phase' = "panic"
      /\ UNCHANGED <<handler, bytes, cursor, limit, entry, recs, wrapped, ext, member, capture>>
  BY DEF ChunksPanic, Panic
<1>2. wrapped
  BY <1>1, ChunkFacts DEF ChunksPanic, Inv, Typed
<1>3. Typed'
  BY <1>1 DEF Inv, Typed, Phases, capture
<1>4. OpenMatch' /\ NotesMatch' /\ GuardMatch'
  BY <1>1, <1>2 DEF OpenMatch, Walked, NotesMatch, GuardMatch
<1>5. RecsMatch'
  BY <1>1 DEF Inv, RecsMatch, len, Overflows
<1>6. EditMatch'
  BY <1>1 DEF EditMatch, Untouched
<1> QED
  BY <1>3, <1>4, <1>5, <1>6 DEF Inv

(* Hits that are taken up, whoever found them. *)
LEMMA ScanKeeps ==
    ASSUME Inv, Scannable, NEW hs \in Seq(Span), NEW isOwn \in BOOLEAN, ScanWith(hs, isOwn),
           isOwn => \A i \in DOMAIN hs : Accepts(hs[i])
    PROVE  Inv'
<1>1. /\ phase = "opened" /\ ~Again /\ phase' \in {"clean", "scanned"} /\ hits' = hs /\ own' = isOwn
      /\ UNCHANGED <<handler, bytes, cursor, limit, entry, recs, wrapped, ext, member, orig, next, first>>
  BY DEF Scannable, ScanWith
<1>2. Typed'
  BY <1>1 DEF Inv, Typed, Phases
<1>3. OpenMatch' /\ NotesMatch'
  BY <1>1 DEF OpenMatch, Walked, NotesMatch
<1>4. RecsMatch'
  BY <1>1 DEF Inv, RecsMatch, len, Overflows
<1>5. GuardMatch'
  <2>1. \A h : Accepts(h)' <=> Accepts(h)
    BY <1>1 DEF Accepts, JfrAccepts, JfrBody, PcapAccepts, add
  <2>2. own' => \A i \in DOMAIN hits' : Accepts(hits'[i])
    BY <1>1
  <2> QED
    BY <1>1, <2>1, <2>2 DEF GuardMatch
<1>6. EditMatch'
  <2>1. handler # "none"
    BY <1>1 DEF Inv, OpenMatch, Walked, fallback
  <2> QED
    BY <1>1, <2>1 DEF Inv, EditMatch, Untouched, Again
<1> QED
  BY <1>2, <1>3, <1>4, <1>5, <1>6 DEF Inv

LEMMA ScanOwnKeeps == Inv /\ ScanOwn => Inv'
<1> SUFFICES ASSUME Inv, ScanOwn PROVE Inv'
  OBVIOUS
<1>1. PICK hs \in {<<>>} \cup Lists(Found) : Scannable /\ ScanWith(hs, TRUE)
  BY DEF ScanOwn
<1>2. \A i \in DOMAIN hs : hs[i] \in Found
  <2>1. CASE hs = <<>>
    BY <2>1
  <2>2. CASE hs \in Lists(Found)
    <3>1. PICK n \in 1 .. MaxHits : hs \in [1 .. n -> Found]
      BY <2>2 DEF Lists
    <3> QED
      BY <3>1
  <2> QED
    BY <1>1, <2>1, <2>2
<1>3. hs \in Seq(Span)
  <2>1. CASE hs = <<>>
    BY <2>1
  <2>2. CASE hs \in Lists(Found)
    <3>1. PICK n \in 1 .. MaxHits : hs \in [1 .. n -> Found]
      BY <2>2 DEF Lists
    <3>2. n \in Nat
      BY CaptureAssumption, SMT
    <3>3. Found \subseteq Span
      BY <1>1, FoundFacts
    <3>4. hs \in [1 .. n -> Span]
      BY <3>1, <3>3
    <3> QED
      BY <3>2, <3>4, SMT
  <2> QED
    BY <1>1, <2>1, <2>2
<1>4. \A i \in DOMAIN hs : Accepts(hs[i])
  BY <1>1, <1>2, FoundFacts
<1> QED
  BY <1>1, <1>3, <1>4, ScanKeeps

LEMMA ScanStrayKeeps == Inv /\ ScanStray => Inv'
<1> SUFFICES ASSUME Inv, ScanStray PROVE Inv'
  OBVIOUS
<1>1. PICK hs \in Strays : Scannable /\ ScanWith(hs, FALSE)
  BY DEF ScanStray
<1>2. hs \in Seq(Span)
  BY CaptureAssumption
<1> QED
  BY <1>1, <1>2, ScanKeeps

(* Hits of the handler's own chunks pass. *)
LEMMA GuardKeeps == Inv /\ Guard => Inv'
<1> SUFFICES ASSUME Inv, Guard PROVE Inv'
  OBVIOUS
<1>1. /\ phase = "scanned" /\ phase' \in {"edit", "refused"}
      /\ UNCHANGED <<handler, bytes, cursor, limit, entry, recs, wrapped, ext, member, capture>>
  BY DEF Guard
<1>2. phase' = "refused" => ~own
  BY <1>1 DEF Guard, Inv, GuardMatch
<1>3. Typed'
  BY <1>1 DEF Inv, Typed, Phases, capture
<1>4. OpenMatch' /\ NotesMatch' /\ GuardMatch'
  BY <1>1, <1>2 DEF OpenMatch, Walked, NotesMatch, GuardMatch, capture
<1>5. RecsMatch'
  BY <1>1 DEF Inv, RecsMatch, len, Overflows
<1>6. EditMatch'
  <2>1. bytes = orig /\ next = 1 /\ ~Again /\ handler # "none"
    BY <1>1 DEF Inv, EditMatch, Untouched
  <2>2. \A k : ~HitBefore(1, k)
    <3>1. \A i \in DOMAIN hits : ~(i < 1)
      <4>1. \A i \in DOMAIN hits : i \in Nat \ {0}
        BY LenProperties DEF Inv, Typed
      <4> QED
        BY <4>1, SMT
    <3> QED
      BY <3>1 DEF HitBefore
  <2>3. \A k \in Positions : at(k) = IF HitBefore(next, k) THEN 0 ELSE orig[k + 1]
    BY <2>1, <2>2 DEF at
  <2>4. \A k \in Positions' : at(k)' = IF HitBefore(next, k)' THEN 0 ELSE orig'[k + 1]
    BY <1>1, <2>3 DEF at, HitBefore, Positions, len, capture
  <2> QED
    BY <1>1, <2>1, <2>4 DEF EditMatch, Untouched, Again, capture
<1> QED
  BY <1>3, <1>4, <1>5, <1>6 DEF Inv

LEMMA EndKeeps == Inv /\ EditEnd => Inv'
<1> SUFFICES ASSUME Inv, EditEnd PROVE Inv'
  OBVIOUS
<1>1. /\ phase = "edit" /\ phase' = "done" /\ next > Len(hits)
      /\ UNCHANGED <<handler, bytes, cursor, limit, entry, recs, wrapped, ext, member, capture>>
  BY DEF EditEnd
<1>2. Typed'
  BY <1>1 DEF Inv, Typed, Phases, capture
<1>3. OpenMatch' /\ NotesMatch' /\ GuardMatch'
  BY <1>1 DEF OpenMatch, Walked, NotesMatch, GuardMatch
<1>4. RecsMatch'
  BY <1>1 DEF Inv, RecsMatch, len, Overflows
<1>5. EditMatch'
  <2>1. \A k \in Positions' : at(k)' = IF HitBefore(next, k)' THEN 0 ELSE orig'[k + 1]
    BY <1>1 DEF Inv, EditMatch, at, HitBefore, Positions, len, capture
  <2> QED
    BY <1>1, <2>1 DEF Inv, EditMatch, Untouched, Again, capture
<1> QED
  BY <1>2, <1>3, <1>4, <1>5 DEF Inv

LEMMA ReopenKeeps == Inv /\ Reopen => Inv'
<1> SUFFICES ASSUME Inv, Reopen PROVE Inv'
  OBVIOUS
<1>1. /\ phase' = "dispatch" /\ cursor' = 0 /\ limit' = 0 /\ entry' = 0 /\ recs' = <<>> /\ wrapped' = FALSE
      /\ first' = [handler |-> handler, recs |-> recs] /\ phase = "done"
      /\ UNCHANGED <<bytes, ext, member, orig, hits, next, own, apart>>
  BY DEF Reopen
<1>2. Typed'
  <2>1. recs' \in Seq(Rec) /\ 0 \in Nat
    BY <1>1
  <2> QED
    BY <1>1, <2>1 DEF Inv, Typed, Phases
<1>3. OpenMatch' /\ NotesMatch' /\ GuardMatch'
  BY <1>1 DEF OpenMatch, Walked, NotesMatch, GuardMatch
<1>4. RecsMatch'
  BY <1>1 DEF RecsMatch
<1>5. EditMatch'
  <2>1. handler # "none"
    BY <1>1 DEF Inv, EditMatch
  <2> QED
    BY <1>1, <2>1 DEF EditMatch, Untouched, Again, NotYet
<1> QED
  BY <1>2, <1>3, <1>4, <1>5 DEF Inv
-----------------------------------------------------------------------------
LEMMA StepInv == Inv /\ [Next]_allvars => Inv'
<1> SUFFICES ASSUME Inv, [Next]_allvars PROVE Inv'
  OBVIOUS
<1>1. CASE Dispatching
  BY <1>1, DispatchKeeps
<1>2. CASE Opening
  <2>1. UNCHANGED <<ext, member, capture>>
    BY <1>2 DEF Opening
  <2>2. CASE PassthroughOpen
    <3>1. /\ phase = "open" /\ phase' = "opened" /\ handler = fallback
          /\ UNCHANGED <<handler, bytes, cursor, limit, entry, recs, wrapped>>
      BY <2>2 DEF PassthroughOpen
    <3>2. OpenMatch' /\ NotesMatch'
      BY <3>1 DEF OpenMatch, Walked, NotesMatch, fallback
    <3>3. RecsMatch'
      BY <3>1 DEF RecsMatch, fallback
    <3> QED
      BY <2>1, <3>1, <3>2, <3>3, OpeningKeeps DEF Inv, Typed, Walked
  <2> QED
    BY <1>2, <2>1, <2>2, JfrKeeps, HprofKeeps, PcapKeeps, PerfKeeps, CoreKeeps DEF Opening
<1>3. CASE ChunksPanic
  BY <1>3, PanicKeeps
<1>4. CASE ScanOwn
  BY <1>4, ScanOwnKeeps
<1>5. CASE ScanStray
  BY <1>5, ScanStrayKeeps
<1>6. CASE Guard
  BY <1>6, GuardKeeps
<1>7. CASE EditHit
  BY <1>7, EditKeeps
<1>8. CASE EditEnd
  BY <1>8, EndKeeps
<1>9. CASE Reopen
  BY <1>9, ReopenKeeps
<1>10. CASE UNCHANGED allvars
  <2>1. /\ UNCHANGED <<handler, bytes, phase, cursor, limit, entry, recs, wrapped>>
        /\ UNCHANGED <<orig, hits, next, own, apart, first>>
    BY <1>10 DEF allvars, vars, capture
  <2>2. Typed'
    BY <2>1 DEF Inv, Typed
  <2>3. OpenMatch'
    <3>1. id_size' = id_size
      BY <2>1, IdKept
    <3>2. len' = len /\ data_offset' = data_offset /\ data_size' = data_size
      BY <2>1 DEF len, data_offset, data_size, at
    <3> QED
      BY <2>1, <3>1, <3>2 DEF Inv, OpenMatch, Overflows, PerfHeader, fallback, EhdrSize
  <2>4. RecsMatch' /\ NotesMatch'
    BY <2>1 DEF Inv, RecsMatch, NotesMatch, len, Overflows, Cell
  <2>5. GuardMatch'
    <3>1. \A h : Accepts(h)' <=> Accepts(h)
      BY <2>1 DEF Accepts, JfrAccepts, JfrBody, PcapAccepts, add
    <3> QED
      BY <2>1, <3>1 DEF Inv, GuardMatch
  <2>6. EditMatch'
    <3>1. phase \in {"edit", "done"} =>
            \A k \in Positions' : at(k)' = IF HitBefore(next, k)' THEN 0 ELSE orig'[k + 1]
      BY <2>1 DEF Inv, EditMatch, at, HitBefore, Positions, len
    <3> QED
      BY <2>1, <3>1 DEF Inv, EditMatch, Untouched, Again
  <2> QED
    BY <2>2, <2>3, <2>4, <2>5, <2>6 DEF Inv
<1> QED
  BY <1>1, <1>2, <1>3, <1>4, <1>5, <1>6, <1>7, <1>8, <1>9, <1>10 DEF Next

LEMMA InvHolds == Spec => []Inv
  BY InitInv, StepInv, PTL DEF Spec

(* A handler ends in a verdict or in chunks that are slices of the file,    *)
(* however damaged the file is, unless a sum of two 64-bit fields wrapped. *)
THEOREM SlicesExist == Spec => []PanicsOnlyWrapped
<1>1. Inv => PanicsOnlyWrapped
  BY DEF Inv, GuardMatch, PanicsOnlyWrapped
<1> QED
  BY <1>1, InvHolds, PTL

(* scan and apply agree on the layout: a handler never refuses what was     *)
(* found in its own chunks.                                                *)
THEOREM OwnHitsPass == Spec => []OwnHitsAccepted
<1>1. Inv => OwnHitsAccepted
  BY DEF Inv, GuardMatch, OwnHitsAccepted
<1> QED
  BY <1>1, InvHolds, PTL

(* A refusal leaves the file as it was; redacting zeroes what the hits name *)
(* and changes nothing else.                                               *)
THEOREM RedactionExact == Spec => []RedactedExactly
<1>1. Inv => RedactedExactly
  <2> SUFFICES ASSUME Inv PROVE RedactedExactly
    OBVIOUS
  <2>1. phase = "refused" => bytes = orig
    BY DEF Inv, EditMatch, Untouched
  <2>2. ASSUME phase = "done", NEW k \in Positions
        PROVE  at(k) = IF Hit(k) THEN 0 ELSE orig[k + 1]
    <3>1. at(k) = IF HitBefore(next, k) THEN 0 ELSE orig[k + 1]
      BY <2>2 DEF Inv, EditMatch
    <3>2. \A i \in DOMAIN hits : i < next
      <4>1. next > Len(hits) /\ next \in Nat /\ Len(hits) \in Nat /\ DOMAIN hits = 1 .. Len(hits)
        BY <2>2, LenProperties DEF Inv, Typed, EditMatch
      <4> QED
        BY <4>1, SMT
    <3> QED
      BY <3>1, <3>2 DEF HitBefore, Hit
  <2> QED
    BY <2>1, <2>2 DEF RedactedExactly
<1> QED
  BY <1>1, InvHolds, PTL
=============================================================================
