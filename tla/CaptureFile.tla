---------------------------- MODULE CaptureFile ----------------------------
(***************************************************************************)
(* What the handlers of the record formats share: the bytes of a capture,  *)
(* read at offsets that come from the file itself, and the state of a      *)
(* handler that is opening one.                                            *)
(*                                                                         *)
(* A file is a sequence of cells; a cell is a field the code reads (a      *)
(* size, a tag, a magic) or a unit of content.  Fields that are not read   *)
(* are left out, so headers are shorter than in a real file and every      *)
(* length counts cells.  Offsets count from 0, as in the code.             *)
(***************************************************************************)
EXTENDS Integers, Sequences

CONSTANTS
    U64Max,         \* largest u64, and largest usize
    U32Max,         \* largest u32
    MaxRecords      \* bound: a walk is followed for this many records

ASSUME WidthAssumption ==
    /\ U64Max \in Nat /\ U32Max \in Nat /\ MaxRecords \in Nat
    /\ U32Max < U64Max

Cell == 0 .. U64Max
Span == [offset : Cell, len : Cell]

VARIABLES
    handler,    \* the handler that opens the file
    bytes,      \* the handler's buffer
    phase,      \* what is being done with it
    cursor,     \* the walk's cursor
    limit,      \* end of the segment an inner walk stays in
    entry,      \* number of table entries the walk is through with
    recs,       \* what the walk has collected
    wrapped     \* history: a sum of two u64 was larger than U64Max

vars == <<handler, bytes, phase, cursor, limit, entry, recs, wrapped>>

Phases == {"dispatch", "open", "walk", "notes", "opened", "scanned", "edit",
           "done", "clean", "error", "refused", "panic", "elsewhere"}

(* The numbers a header's field may hold; at(o) is the cell at offset o. *)
at(o) == bytes[o + 1]
len == Len(bytes)

(* A release build adds 64-bit numbers modulo 2^64. *)
add(a, b) == (a + b) % (U64Max + 1)
Overflows(a, b) == a + b > U64Max

(* The slice bytes[from..to]; taking one that does not exist panics. *)
SliceExists(from, to) == from <= to /\ to <= len

(* The positions of a file, and those of a slice of it. *)
Positions == 0 .. len - 1
Within(from, to) == from .. to - 1
SpanOf(s) == Within(s.offset, s.offset + s.len)

Fail == phase' = "error" /\ UNCHANGED <<cursor, limit, entry, recs, wrapped>>
Panic == phase' = "panic" /\ UNCHANGED <<cursor, limit, entry, recs>>
=============================================================================
