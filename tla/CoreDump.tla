------------------------------ MODULE CoreDump ------------------------------
(***************************************************************************)
(* The ELF core dump handler (crates/scrump-format-core/src/lib.rs): a     *)
(* header that names a table of program headers, each of them a segment of *)
(* the file; a note segment is a row of notes of a header, a padded name   *)
(* and a padded description.                                               *)
(***************************************************************************)
EXTENDS CaptureFile

CONSTANTS
    CoreMagic,          \* a 64-bit little-endian ELF file of type ET_CORE
    OddCore,            \* one whose program headers (e_phentsize) have another size
    Align,              \* names and descriptions are padded to this
    PsargsOffset,       \* place and length of pr_psargs in the description
    PsargsLen           \* of an NT_PRPSINFO note

ASSUME CoreAssumption ==
    /\ {CoreMagic, OddCore} \subseteq Cell \ {0} /\ CoreMagic # OddCore /\ Align \in 1 .. U32Max
    /\ PsargsOffset \in 0 .. U32Max /\ PsargsLen \in 1 .. U32Max

(* The ELF header: magic, e_phoff, e_phnum; a program header: p_type,      *)
(* p_offset, p_filesz; a note header: namesz, descsz, n_type.              *)
EhdrSize == 3
PhdrSize == 3
NoteHeader == 3
PT_LOAD == 1
PT_NOTE == 4
NT_PRPSINFO == 3

CoreDetect(head) == Len(head) >= 1 /\ head[1] \in {CoreMagic, OddCore}

e_phoff == at(1)
e_phnum == at(2)

CoreOpen ==
    /\ handler = "elf-core" /\ phase = "open"
    /\ IF len >= EhdrSize /\ at(0) = CoreMagic
       THEN phase' = "walk" /\ UNCHANGED <<cursor, limit, entry, recs, wrapped>>
       ELSE Fail
    /\ UNCHANGED <<handler, bytes>>
-----------------------------------------------------------------------------
(* One program header; its offset and its segment's end are sums that may  *)
(* wrap before they are compared with the length of the file.              *)
CoreWalking == handler = "elf-core" /\ phase = "walk" /\ entry < e_phnum

ph == add(e_phoff, entry * PhdrSize)
ph_end == add(ph, PhdrSize)
p_type == at(ph)
p_offset == at(ph + 1)
p_filesz == at(ph + 2)
seg_end == add(p_offset, p_filesz)

HeaderPastEnd == ph_end > len
HeaderReadable == ~HeaderPastEnd /\ SliceExists(ph, ph_end)
(* Faulty variant: a segment need only start in the file. *)
SegmentStarts == p_offset <= len
SegmentFits == seg_end <= len
HeaderWraps == Overflows(e_phoff, entry * PhdrSize) \/ Overflows(ph, PhdrSize)

PhdrWrapped ==
    /\ CoreWalking /\ ~HeaderPastEnd /\ ~HeaderReadable
    /\ Panic /\ wrapped' = (wrapped \/ HeaderWraps)
    /\ UNCHANGED <<handler, bytes>>

PhdrPastEnd ==
    /\ CoreWalking /\ (HeaderPastEnd \/ (HeaderReadable /\ ~SegmentFits))
    /\ Fail
    /\ UNCHANGED <<handler, bytes>>

Wraps == wrapped' = (wrapped \/ HeaderWraps \/ Overflows(p_offset, p_filesz))

PhdrLoad ==
    /\ CoreWalking /\ HeaderReadable /\ SegmentFits
    /\ p_type = PT_LOAD /\ p_filesz > 0
    /\ recs' = Append(recs, [kind |-> "load", head |-> p_offset, offset |-> p_offset, len |-> p_filesz, type |-> 0])
    /\ entry' = entry + 1
    /\ Wraps
    /\ UNCHANGED <<handler, bytes, phase, cursor, limit>>

PhdrNote ==
    /\ CoreWalking /\ HeaderReadable /\ SegmentFits
    /\ p_type = PT_NOTE
    /\ phase' = "notes" /\ cursor' = p_offset /\ limit' = seg_end
    /\ entry' = entry + 1
    /\ Wraps
    /\ UNCHANGED <<handler, bytes, recs>>

PhdrOther ==
    /\ CoreWalking /\ HeaderReadable /\ SegmentFits
    /\ p_type # PT_NOTE /\ ~(p_type = PT_LOAD /\ p_filesz > 0)
    /\ entry' = entry + 1
    /\ Wraps
    /\ UNCHANGED <<handler, bytes, phase, cursor, limit, recs>>

CoreEnd ==
    /\ handler = "elf-core" /\ phase = "walk" /\ entry >= e_phnum
    /\ phase' = "opened"
    /\ UNCHANGED <<handler, bytes, cursor, limit, entry, recs, wrapped>>
-----------------------------------------------------------------------------
(* parse_notes: one note of the segment that ends at limit. *)
pad(n) == ((n + Align - 1) \div Align) * Align

InNotes == handler = "elf-core" /\ phase = "notes"
MoreNotes == add(cursor, NoteHeader) <= limit
NoteReadable == SliceExists(cursor, add(cursor, NoteHeader))

name_end == cursor + NoteHeader + pad(at(cursor))
descsz == at(cursor + 1)
n_type == at(cursor + 2)
desc_end == name_end + pad(descsz)

NoteWrapped ==
    /\ InNotes /\ MoreNotes /\ ~NoteReadable
    /\ Panic
    /\ UNCHANGED <<handler, bytes, wrapped>>

(* A name or a description behind the end of the segment is an error.      *)
NotePastEnd ==
    /\ InNotes /\ MoreNotes /\ NoteReadable /\ desc_end > limit
    /\ Fail
    /\ UNCHANGED <<handler, bytes>>

Note ==
    /\ InNotes /\ MoreNotes /\ NoteReadable /\ desc_end <= limit
    /\ recs' = Append(recs, [kind |-> "note", head |-> cursor, offset |-> name_end, len |-> descsz, type |-> n_type])
    /\ cursor' = desc_end
    /\ UNCHANGED <<handler, bytes, phase, limit, entry, wrapped>>

NotesEnd ==
    /\ InNotes /\ ~MoreNotes
    /\ phase' = "walk"
    /\ UNCHANGED <<handler, bytes, cursor, limit, entry, recs, wrapped>>
-----------------------------------------------------------------------------
(* Format::chunks: every description that is not empty, pr_psargs once     *)
(* more, and every loaded segment.                                         *)
CoreSpan(r) == [from |-> r.offset, to |-> add(r.offset, r.len)]
Psargs(r) == [from |-> r.offset + PsargsOffset, to |-> r.offset + PsargsOffset + PsargsLen]
HasPsargs(r) == r.kind = "note" /\ r.type = NT_PRPSINFO /\ r.len >= PsargsOffset + PsargsLen

CoreChunks ==
    LET full == {r \in {recs[i] : i \in DOMAIN recs} : r.len > 0 /\ CoreSpan(r).to <= len}
    IN  {CoreSpan(r) : r \in full} \cup {Psargs(r) : r \in {s \in full : HasPsargs(s)}}

CoreNext ==
    \/ CoreOpen \/ PhdrWrapped \/ PhdrPastEnd \/ PhdrLoad \/ PhdrNote \/ PhdrOther \/ CoreEnd
    \/ NoteWrapped \/ NotePastEnd \/ Note \/ NotesEnd

(* The cells of the ELF header, of the program headers and of the notes'    *)
(* headers and names.  (head is a history variable: where a note starts.)  *)
CoreFraming == Within(0, EhdrSize) \cup Within(e_phoff, e_phoff + e_phnum * PhdrSize)
    \cup UNION {Within(recs[i].head, recs[i].offset) : i \in DOMAIN recs}
=============================================================================
