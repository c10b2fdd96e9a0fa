------------------------------ MODULE PerfData ------------------------------
(***************************************************************************)
(* The perf.data handler (crates/scrump-format-perf/src/lib.rs): a header  *)
(* with the place of the data section and a bitmap of features; behind the *)
(* data section a descriptor (offset, size) for each feature of the bitmap,*)
(* in ascending order, each naming its payload anywhere in the file.       *)
(***************************************************************************)
EXTENDS CaptureFile

CONSTANTS
    PerfMagic,      \* PERFILE2
    FeatureBits     \* the bits of adds_features behind the reserved one

ASSUME PerfAssumption == PerfMagic \in Cell \ {0} /\ FeatureBits \in Nat

(* The header: the magic, data.offset, data.size, one cell per feature.    *)
PerfHeader == 3 + FeatureBits
DescSize == 2

PerfDetect(head) == Len(head) >= 1 /\ head[1] = PerfMagic

data_offset == at(1)
data_size == at(2)
HasFeature(bit) == at(2 + bit) # 0

PerfOpenable ==
    /\ len >= PerfHeader
    /\ at(0) = PerfMagic
    /\ ~Overflows(data_offset, data_size)

PerfOpen ==
    /\ handler = "perf" /\ phase = "open"
    /\ IF PerfOpenable
       THEN /\ phase' = "walk" /\ cursor' = data_offset + data_size /\ entry' = 1
            /\ UNCHANGED <<limit, recs, wrapped>>
       ELSE Fail
    /\ UNCHANGED <<handler, bytes>>

PerfWalking == handler = "perf" /\ phase = "walk" /\ entry <= FeatureBits

PerfNoFeature ==
    /\ PerfWalking /\ ~HasFeature(entry)
    /\ entry' = entry + 1
    /\ UNCHANGED <<handler, bytes, phase, cursor, limit, recs, wrapped>>

DescFits == ~Overflows(cursor, DescSize) /\ cursor + DescSize <= len
desc_off == at(cursor)
desc_size == at(cursor + 1)
(* The sum of the payload's offset and size is compared when it may have   *)
(* wrapped already.                                                        *)
FeatureFits == DescFits /\ add(desc_off, desc_size) <= len

PerfFeature ==
    /\ PerfWalking /\ HasFeature(entry) /\ FeatureFits
    /\ recs' = Append(recs, [offset |-> desc_off, len |-> desc_size])
    /\ cursor' = cursor + DescSize
    /\ entry' = entry + 1
    /\ wrapped' = (wrapped \/ Overflows(desc_off, desc_size))
    /\ UNCHANGED <<handler, bytes, phase, limit>>

PerfPastEnd ==
    /\ PerfWalking /\ HasFeature(entry) /\ ~FeatureFits
    /\ Fail
    /\ UNCHANGED <<handler, bytes>>

PerfEnd ==
    /\ handler = "perf" /\ phase = "walk" /\ entry > FeatureBits
    /\ phase' = "opened"
    /\ UNCHANGED <<handler, bytes, cursor, limit, entry, recs, wrapped>>

(* Format::chunks: the data section, unless it is empty or ends behind the *)
(* file, and every feature, empty ones too.                                *)
PerfData1 == IF data_size > 0 THEN {[from |-> data_offset, to |-> add(data_offset, data_size)]} ELSE {}
PerfChunks == {c \in PerfData1 \cup {[from |-> r.offset, to |-> add(r.offset, r.len)] :
                                       r \in {recs[i] : i \in DOMAIN recs}} : c.to <= len}

PerfNext == PerfOpen \/ PerfNoFeature \/ PerfFeature \/ PerfPastEnd \/ PerfEnd

(* The cells of the header and, behind the data section, the descriptors.  *)
PerfFraming == Within(0, PerfHeader)
    \cup Within(data_offset + data_size, data_offset + data_size + DescSize * Len(recs))
=============================================================================
