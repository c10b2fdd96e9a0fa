------------------------------- MODULE Archive -------------------------------
(***************************************************************************)
(* A scrub of an archive (crates/scrump-format-tar/src/lib.rs, also behind *)
(* the nsys handler): every member is opened by the inner dispatcher, the  *)
(* members' chunks are laid out in one linear offset space, the hits found *)
(* there are handed back to the member whose span they lie in, and the     *)
(* members are packed again.                                               *)
(*                                                                         *)
(* A member is a sequence of blocks, of which its format shows some in its *)
(* chunks.  The offsets of the chunks are the format's own: a flat format  *)
(* uses file offsets, SQLite numbers the bytes of its cells, as the library*)
(* returns them, from 0.  The archive knows only the length of the file.   *)
(***************************************************************************)
EXTENDS Integers, Sequences

CONSTANTS
    Forms,              \* kinds of member formats
    Passthrough,        \* the form of a directory's empty body
    Legible(_),         \* form: can a rule read the blocks in the chunks?
    Unit(_),            \* form: offsets a block takes in the chunks
    Stored(_),          \* form: bytes a block takes in the file
    Header(_),          \* form: blocks before offset 0
    Celled(_),          \* form: may a hit lie only in one cell?
    Opens(_, _),        \* form, blocks: can the inner dispatcher open it?
    Archives            \* the archives given to a scrub

Block == {"secret", "plain", "zero"}
Types == {"file", "dir", "link"}

(* An entry as the archive libraries read it: only a regular file has a body.*)
Body  == [form : Forms, blocks : Seq(Block)]
Entry == [type : Types, body : Body]
Empty == [form |-> Passthrough, blocks |-> << >>]

ASSUME ArchiveAssumption ==
    /\ Passthrough \in Forms
    /\ \A f \in Forms : Unit(f) \in Nat \ {0} /\ Stored(f) \in Nat /\ Header(f) \in Nat
                          /\ Celled(f) \in BOOLEAN /\ Legible(f) \in BOOLEAN
    /\ Archives \subseteq Seq(Entry)
    /\ \A a \in Archives : \A i \in DOMAIN a : a[i].type # "file" => a[i].body = Empty

VARIABLES
    entries,    \* the archive that was read
    pc,         \* "extract", "layout", "scan", "distribute", "apply", "repack",
                \* then "done", "clean" or "failed"
    members,    \* Archive::members: body, base, span, is_dir
    base,       \* the end of the offsets that are laid out
    hits,       \* what the engine reported
    buckets,    \* the hits each member is to redact
    next,       \* the index of the loop that runs
    output      \* what to_bytes returned

vars == <<entries, pc, members, base, hits, buckets, next, output>>

(* A hit carries, as history, the member and the block it was found in. *)
Hit == [offset : Nat, len : Nat, in : Nat, block : Nat]
Member == [body : Body, base : Nat, span : Nat, is_dir : BOOLEAN]

Running == {"extract", "layout", "scan", "distribute", "apply", "repack"}

TypeOK ==
    /\ entries \in Seq(Entry)
    /\ pc \in Running \cup {"done", "clean", "failed"}
    /\ members \in Seq(Member)
    /\ Len(members) <= Len(entries)
    /\ base \in Nat
    /\ hits \subseteq Hit
    /\ buckets \in [1 .. Len(members) -> SUBSET Hit]
    /\ next \in 1 .. Len(entries) + 1
    /\ output \in Seq(Entry)

(* A member's chunks show block i of its body at offsets At to Upto - 1. *)
Chunked(b) == {i \in DOMAIN b.blocks : i > Header(b.form)}
At(b, i)   == (i - 1 - Header(b.form)) * Unit(b.form)
Upto(b, i) == At(b, i) + Unit(b.form)
Size(b)    == Len(b.blocks) * Stored(b.form)

Found(b) == {i \in Chunked(b) : Legible(b.form) /\ b.blocks[i] = "secret"}
-----------------------------------------------------------------------------
Init ==
    /\ entries \in Archives
    /\ pc = "extract"
    /\ members = << >>
    /\ base = 0
    /\ hits = {}
    /\ buckets = << >>
    /\ next = 1
    /\ output = << >>

Goto(from, to) == pc = from /\ pc' = to

(* extract_tar and extract_zip: the body is opened by the inner dispatcher, *)
(* a directory's empty one without it.  A link's target is not read.       *)
Extract ==
    /\ Goto("extract", "extract")
    /\ next <= Len(entries)
    /\ LET e == entries[next] IN
        /\ e.type = "dir" \/ Opens(e.body.form, e.body.blocks)
        /\ members' = Append(members, [body |-> e.body, base |-> 0, span |-> 0,
                                       is_dir |-> e.type = "dir"])
        /\ buckets' = Append(buckets, {})
    /\ next' = next + 1
    /\ UNCHANGED <<entries, base, hits, output>>

Extracted ==
    /\ Goto("extract", "layout")
    /\ next > Len(entries)
    /\ next' = 1
    /\ UNCHANGED <<entries, members, base, hits, buckets, output>>

(* The archive or a member cannot be read, opened or serialized. *)
Fails ==
    /\ pc \in {"extract", "repack"} \/ (pc = "layout" /\ next <= Len(members) /\ ~members[next].is_dir)
    /\ pc' = "failed"
    /\ UNCHANGED <<entries, members, base, hits, buckets, next, output>>

(* Faulty variant: every member starts at the same offset. *)
PlaceAtZero ==
    /\ Goto("layout", "layout")
    /\ next <= Len(members)
    /\ members' = [members EXCEPT ![next].span = Size(members[next].body)]
    /\ next' = next + 1
    /\ UNCHANGED <<entries, base, hits, buckets, output>>

(* from_bytes_labelled: each member gets as many offsets as it has bytes. *)
Place ==
    /\ Goto("layout", "layout")
    /\ next <= Len(members)
    /\ LET m == members[next]
           span == IF m.is_dir THEN 0 ELSE Size(m.body) IN
        /\ members' = [members EXCEPT ![next].base = base, ![next].span = span]
        /\ base' = base + span
    /\ next' = next + 1
    /\ UNCHANGED <<entries, hits, buckets, output>>

Placed ==
    /\ Goto("layout", "scan")
    /\ next > Len(members)
    /\ next' = 1
    /\ UNCHANGED <<entries, members, base, hits, buckets, output>>

(* chunks and the engine: the hits in all members' chunks, with offsets     *)
(* moved by the member's base.                                             *)
HitsOf(i) == {[offset |-> members[i].base + At(members[i].body, j),
               len |-> Unit(members[i].body.form), in |-> i, block |-> j] :
                  j \in IF members[i].is_dir THEN {} ELSE Found(members[i].body)}

ScanChunks ==
    /\ pc = "scan"
    /\ hits' = UNION {HitsOf(i) : i \in DOMAIN members}
    /\ pc' = IF hits' = {} THEN "clean" ELSE "distribute"
    /\ UNCHANGED <<entries, members, base, buckets, next, output>>

(* apply, first loop: a hit goes to the first member whose span holds it,   *)
(* and one that no span holds is an error before anything is redacted.     *)
(* Faulty variants: a member is not bounded from above; the offset is taken *)
(* from the end of the span.                                               *)
HoldsFrom(m, h) == m.span # 0 /\ h.offset >= m.base
LocalFromEnd(i, h) == [h EXCEPT !.offset = h.offset - members[i].base - members[i].span]

Holds(m, h) == m.span # 0 /\ h.offset >= m.base /\ h.offset + h.len <= m.base + m.span
HoldsIn(i, h) == i \in DOMAIN members /\ Holds(members[i], h)
Owner(i, h) == HoldsIn(i, h) /\ \A j \in 1 .. i - 1 : ~HoldsIn(j, h)
Local(i, h) == [h EXCEPT !.offset = h.offset - members[i].base]

Distribute ==
    /\ Goto("distribute", "apply")
    /\ \A h \in hits : \E i \in DOMAIN members : HoldsIn(i, h)
    /\ buckets' = [i \in DOMAIN members |-> {Local(i, h) : h \in {g \in hits : Owner(i, g)}}]
    /\ UNCHANGED <<entries, members, base, hits, next, output>>

Homeless ==
    /\ Goto("distribute", "failed")
    /\ \E h \in hits : \A i \in DOMAIN members : ~HoldsIn(i, h)
    /\ UNCHANGED <<entries, members, base, hits, buckets, next, output>>

(* apply, second loop: each member redacts its hits, or fails. *)
Touched(b, h) == {j \in Chunked(b) : At(b, j) < h.offset + h.len /\ h.offset < Upto(b, j)}
Redact(b, hs) ==
    [b EXCEPT !.blocks = [j \in DOMAIN b.blocks |->
        IF \E h \in hs : j \in Touched(b, h) THEN "zero" ELSE b.blocks[j]]]
Accepts(b, hs) ==
    Celled(b.form) => \A h \in hs : \E j \in Chunked(b) :
                          At(b, j) <= h.offset /\ h.offset + h.len <= Upto(b, j)

(* Faulty variant: returns after the first member. *)
ApplyFirst ==
    /\ Goto("apply", "apply")
    /\ next <= Len(members)
    /\ Accepts(members[next].body, buckets[next])
    /\ members' = [members EXCEPT ![next].body = Redact(@, buckets[next])]
    /\ next' = IF buckets[next] = {} THEN next + 1 ELSE Len(members) + 1
    /\ UNCHANGED <<entries, base, hits, buckets, output>>

ApplyMember ==
    /\ Goto("apply", "apply")
    /\ next <= Len(members)
    /\ Accepts(members[next].body, buckets[next])
    /\ members' = [members EXCEPT ![next].body = Redact(@, buckets[next])]
    /\ next' = next + 1
    /\ UNCHANGED <<entries, base, hits, buckets, output>>

Refuses ==
    /\ Goto("apply", "failed")
    /\ next <= Len(members) /\ buckets[next] # {}
    /\ UNCHANGED <<entries, members, base, hits, buckets, next, output>>

Applied ==
    /\ Goto("apply", "repack")
    /\ next > Len(members)
    /\ next' = 1
    /\ UNCHANGED <<entries, members, base, hits, buckets, output>>

(* to_bytes: repack_tar and repack_zip write directories and regular files. *)
Repack ==
    /\ Goto("repack", "done")
    /\ output' = [i \in DOMAIN members |->
                    [type |-> IF members[i].is_dir THEN "dir" ELSE "file",
                     body |-> members[i].body]]
    /\ UNCHANGED <<entries, members, base, hits, buckets, next>>

Next ==
    \/ Extract \/ Extracted \/ Fails
    \/ Place \/ Placed
    \/ ScanChunks
    \/ Distribute \/ Homeless
    \/ ApplyMember \/ Refuses \/ Applied
    \/ Repack

Spec == Init /\ [][Next]_vars
-----------------------------------------------------------------------------
(* What lib.rs says of the linear space ("member 0's chunks land in         *)
(* [0, len0)"): no member's chunks are longer than its file.  It holds for  *)
(* the flat formats; SQLite returns the text of a UTF-16 database in UTF-8, *)
(* which can be longer.                                                    *)
Contained ==
    \A a \in Archives : \A i \in DOMAIN a : \A j \in Chunked(a[i].body) :
        Upto(a[i].body, j) <= Size(a[i].body)

(* The spans of the members that have been placed follow one another. *)
Laid == IF pc \in {"extract", "failed"} THEN 0 ELSE IF pc = "layout" THEN next - 1 ELSE Len(members)
LayoutSound ==
    \A i \in 1 .. Len(members) : i <= Laid =>
        /\ members[i].base + members[i].span <= base
        /\ \A j \in i + 1 .. Len(members) : j <= Laid =>
              members[i].base + members[i].span <= members[j].base

(* "apply partitions hits by that range and forwards them to the correct    *)
(* inner format with offsets translated back": a member only ever gets hits *)
(* that were found in it, at the offsets its own chunks had.               *)
Delivered ==
    \A i \in DOMAIN buckets : \A h \in buckets[i] :
        h.in = i /\ h.offset = At(members[i].body, h.block)

(* The whole is what scrubbing each member by itself gives. *)
Cleaned(e) ==
    [type |-> IF e.type = "dir" THEN "dir" ELSE "file",
     body |-> [e.body EXCEPT !.blocks = [j \in DOMAIN e.body.blocks |->
                  IF e.type # "dir" /\ j \in Found(e.body) THEN "zero" ELSE e.body.blocks[j]]]]
Promise == INSTANCE Memberwise WITH
    Documents <- Archives,
    doc       <- IF pc = "done" THEN output ELSE entries,
    verdict   <- IF pc \in Running THEN "pending" ELSE pc
ImplementsMemberwise == Promise!Spec
=============================================================================
