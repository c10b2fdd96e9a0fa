-------------------------------- MODULE Pcap --------------------------------
(***************************************************************************)
(* The packet capture handler (crates/scrump-format-pcap/src/lib.rs).      *)
(* Classic pcap: a file header, then records of a header (the captured     *)
(* length) and a payload.  pcapng: blocks of a type, a total length and a  *)
(* body; the payload of an enhanced packet block follows its captured      *)
(* length.  Both byte orders decode to the same fields.                    *)
(***************************************************************************)
EXTENDS CaptureFile

CONSTANTS
    PcapMagic,      \* the four magics of classic pcap
    SHB, EPB,       \* block types: section header, enhanced packet
    BOM,            \* the byte-order magic of a section header
    PcapHeader,     \* cells of the file header; also the least length
    RecordHeader,   \* cells of a record header; the captured length is last
    BlockHeader,    \* cells of a block header
    BlockMin,       \* least total length of a block
    EpbFixed        \* cells of an EPB in front of its payload; cap_len is last

ASSUME PcapAssumption ==
    /\ {PcapMagic, SHB, EPB, BOM} \subseteq 1 .. U32Max
    /\ PcapHeader \in 3 .. U32Max /\ RecordHeader \in 1 .. U32Max
    /\ BlockHeader = 2 /\ BlockMin \in 3 .. U32Max /\ EpbFixed \in 3 .. U32Max

Extensions == {"pcap", "pcapng", "cap"}
PcapDetect(head, ext) == Len(head) >= 1 /\ (head[1] \in {PcapMagic, SHB} \/ ext \in Extensions)

Classic == at(0) = PcapMagic

PcapOpenable == len >= PcapHeader /\ (Classic \/ (at(0) = SHB /\ at(2) = BOM))

PcapOpen ==
    /\ handler = "pcap" /\ phase = "open"
    /\ IF PcapOpenable
       THEN /\ phase' = "walk"
            /\ cursor' = IF Classic THEN PcapHeader ELSE 0
            /\ UNCHANGED <<limit, entry, recs, wrapped>>
       ELSE Fail
    /\ UNCHANGED <<handler, bytes>>

PcapWalking == handler = "pcap" /\ phase = "walk"

(* Both walks stop without an error where the file makes no sense. *)
Stop == phase' = "opened" /\ UNCHANGED <<handler, bytes, cursor, limit, entry, recs, wrapped>>
Keep(offset, n) == recs' = Append(recs, [offset |-> offset, len |-> n])
-----------------------------------------------------------------------------
(* parse_classic *)
payload_off == cursor + RecordHeader
captured == at(payload_off - 1)
RecordFits == payload_off <= len /\ payload_off + captured <= len

ClassicRecord ==
    /\ PcapWalking /\ Classic /\ RecordFits
    /\ Keep(payload_off, captured)
    /\ cursor' = payload_off + captured
    /\ UNCHANGED <<handler, bytes, phase, limit, entry, wrapped>>

ClassicEnd == PcapWalking /\ Classic /\ ~RecordFits /\ Stop
-----------------------------------------------------------------------------
(* parse_pcapng *)
block_type == at(cursor)
block_total == at(cursor + 1)
epb_payload == cursor + EpbFixed
cap_len == at(epb_payload - 1)
BlockFits == cursor + BlockHeader <= len /\ block_total >= BlockMin /\ cursor + block_total <= len

(* An EPB is a packet if its captured length ends in the file, be it        *)
(* behind the block.                                                       *)
IsPacket ==
    /\ block_type = EPB
    /\ block_total >= EpbFixed + 1
    /\ epb_payload + cap_len <= len

PacketBlock ==
    /\ PcapWalking /\ ~Classic /\ BlockFits /\ IsPacket
    /\ Keep(epb_payload, cap_len)
    /\ cursor' = cursor + block_total
    /\ UNCHANGED <<handler, bytes, phase, limit, entry, wrapped>>

(* Faulty variant: passes over the block without leaving it. *)
OtherBlockStays ==
    /\ PcapWalking /\ ~Classic /\ BlockFits /\ ~IsPacket
    /\ UNCHANGED <<handler, bytes, phase, cursor, limit, entry, recs, wrapped>>

OtherBlock ==
    /\ PcapWalking /\ ~Classic /\ BlockFits /\ ~IsPacket
    /\ cursor' = cursor + block_total
    /\ UNCHANGED <<handler, bytes, phase, limit, entry, recs, wrapped>>

BlocksEnd == PcapWalking /\ ~Classic /\ ~BlockFits /\ Stop
-----------------------------------------------------------------------------
(* Format::chunks: every payload that is not empty. *)
PcapChunks == {[from |-> r.offset, to |-> r.offset + r.len] :
                 r \in {p \in {recs[i] : i \in DOMAIN recs} : p.len > 0}}

(* Faulty variant: a hit must end in front of the payload's end. *)
PcapAcceptsInside(h) == \E i \in DOMAIN recs :
    h.offset >= recs[i].offset /\ h.offset + h.len < recs[i].offset + recs[i].len

(* Format::apply: every hit lies in a payload. *)
PcapAccepts(h) == \E i \in DOMAIN recs :
    h.offset >= recs[i].offset /\ h.offset + h.len <= recs[i].offset + recs[i].len

PcapNext == PcapOpen \/ ClassicRecord \/ ClassicEnd \/ PacketBlock \/ OtherBlock \/ BlocksEnd

(* Where the blocks start, the place the walk stops at included. *)
BlockStarts ==
    LET starts[o \in 0 .. len] ==
            {o} \cup (IF o + BlockHeader <= len /\ at(o + 1) >= BlockMin /\ o + at(o + 1) <= len
                     THEN starts[o + at(o + 1)] ELSE {})
    IN  starts[0]

(* The cells of the file header, of the block headers and of the headers   *)
(* in front of the payloads.                                               *)
PcapFraming ==
    IF Classic
    THEN Within(0, PcapHeader)
         \cup UNION {Within(recs[i].offset - RecordHeader, recs[i].offset) : i \in DOMAIN recs}
    ELSE Within(0, PcapHeader)
         \cup UNION {Within(o, o + BlockHeader) : o \in BlockStarts}
         \cup UNION {Within(recs[i].offset - EpbFixed, recs[i].offset) : i \in DOMAIN recs}
=============================================================================
