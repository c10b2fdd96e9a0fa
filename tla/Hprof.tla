------------------------------- MODULE Hprof -------------------------------
(***************************************************************************)
(* The Java heap dump handler (crates/scrump-format-hprof/src/lib.rs): a   *)
(* NUL-terminated name, the size of an object id, then records of a tag, a *)
(* length and a body.  The body of a STRING record starts with an id.      *)
(***************************************************************************)
EXTENDS CaptureFile

CONSTANTS
    HprofMagic,     \* JAVA PROFILE
    HprofHeader,    \* cells of a record header (tag, time, length)
    IdMax           \* largest id size

ASSUME HprofAssumption ==
    HprofMagic \in Cell \ {0} /\ HprofHeader \in 2 .. U64Max /\ IdMax \in 1 .. U32Max

UTF8 == 1

HprofDetect(head) == Len(head) >= 1 /\ head[1] = HprofMagic

(* The NUL that ends the name, and the size of an id behind it. *)
IsNul(n) == n \in Positions /\ at(n) = 0 /\ \A k \in 0 .. n - 1 : at(k) # 0
nul == CHOOSE n \in Positions : IsNul(n)
id_size == at(nul + 1)

HprofOpenable ==
    /\ len >= 1 /\ at(0) = HprofMagic
    /\ \E n \in Positions : IsNul(n)
    /\ nul + 2 <= len
    /\ id_size \in 1 .. IdMax

HprofOpen ==
    /\ handler = "hprof" /\ phase = "open"
    /\ IF HprofOpenable
       THEN phase' = "walk" /\ cursor' = nul + 2 /\ UNCHANGED <<limit, entry, recs, wrapped>>
       ELSE Fail
    /\ UNCHANGED <<handler, bytes>>

tag == at(cursor)
body_offset == cursor + HprofHeader
body_end == body_offset + at(cursor + 1)

HprofWalking == handler = "hprof" /\ phase = "walk" /\ cursor + HprofHeader <= len

HprofRecord ==
    /\ HprofWalking /\ body_end <= len
    /\ recs' = Append(recs, [offset |-> body_offset, len |-> at(cursor + 1), tag |-> tag])
    /\ cursor' = body_end
    /\ UNCHANGED <<handler, bytes, phase, limit, entry, wrapped>>

HprofPastEnd ==
    /\ HprofWalking /\ body_end > len
    /\ Fail
    /\ UNCHANGED <<handler, bytes>>

(* Fewer cells than a header are left; they are ignored. *)
HprofEnd ==
    /\ handler = "hprof" /\ phase = "walk" /\ cursor + HprofHeader > len
    /\ phase' = "opened"
    /\ UNCHANGED <<handler, bytes, cursor, limit, entry, recs, wrapped>>

(* Format::chunks: every body that is not empty and, for a STRING, the     *)
(* text behind its id once more.                                           *)
HprofChunks ==
    LET full == {r \in {recs[i] : i \in DOMAIN recs} : r.len > 0}
    IN  {[from |-> r.offset, to |-> r.offset + r.len] : r \in full}
        \cup {[from |-> r.offset + id_size, to |-> r.offset + r.len] :
                r \in {s \in full : s.tag = UTF8 /\ s.len > id_size}}

HprofNext == HprofOpen \/ HprofRecord \/ HprofPastEnd \/ HprofEnd

(* The cells of the file header and of the record headers. *)
HprofFraming == Within(0, nul + 2)
    \cup UNION {Within(recs[i].offset - HprofHeader, recs[i].offset) : i \in DOMAIN recs}
=============================================================================
