----------------------------- MODULE ApplyHits -----------------------------
(***************************************************************************)
(* apply_hits_in_place (crates/scrump-core/src/lib.rs), the byte editor    *)
(* every format's `apply` ends in: a loop over the hits, in the order they *)
(* were found, over one buffer.  Hits may overlap, repeat, lie outside the *)
(* buffer or ask for what cannot be done; the first such hit ends the loop *)
(* with an error and leaves what was already overwritten overwritten.      *)
(***************************************************************************)
EXTENDS Integers, Sequences

CONSTANTS
    Byte,           \* what a byte can hold
    Zero,           \* NUL
    UsizeMax,       \* largest usize; a hit's u64 offset is cast to usize
    Buffers,        \* the buffers given to the editor
    HitLists        \* the hit lists given to it

(* A replacement is a kind and, for "pattern", the bytes to repeat. *)
Kinds == {"zero", "pattern", "drop"}
Hit == [offset : Nat, len : Nat, kind : Kinds, pattern : Seq(Byte)]

ASSUME ApplyAssumption ==
    /\ Zero \in Byte
    /\ UsizeMax \in Nat
    /\ Buffers \subseteq Seq(Byte)
    /\ HitLists \subseteq Seq(Hit)
    /\ \A b \in Buffers : Len(b) <= UsizeMax
    /\ \A hs \in HitLists : \A i \in DOMAIN hs : hs[i].len <= UsizeMax

VARIABLES
    orig,       \* history: the buffer as it was given
    hits,       \* the hits to apply
    buf,        \* the buffer
    next,       \* index of the next hit
    status      \* "running", then what the function returned

vars == <<orig, hits, buf, next, status>>

TypeOK ==
    /\ orig \in Seq(Byte) /\ Len(orig) <= UsizeMax
    /\ hits \in Seq(Hit)
    /\ \A i \in DOMAIN hits : hits[i].len <= UsizeMax
    /\ buf \in Seq(Byte)
    /\ next \in 1 .. Len(hits) + 1
    /\ status \in {"running", "ok", "error"}

(* Positions count from 0 in the code; buf[k + 1] is the byte at k. *)
(* The cast to usize is exact where a usize has 64 bits. *)
start(h) == h.offset % (UsizeMax + 1)

(* Faulty variant: an unchecked addition, which wraps in a release build. *)
WrappedAdd(a, b) == (a + b) % (UsizeMax + 1)
checked_add(a, b) == IF a + b > UsizeMax THEN -1 ELSE a + b
end(h) == checked_add(start(h), h.len)

InBounds(h, b) == end(h) # -1 /\ end(h) <= Len(b)
Supported(h) == h.kind = "zero" \/ (h.kind = "pattern" /\ h.pattern # << >>)

Admissible(h, b) == InBounds(h, b) /\ Supported(h)

Covers(h, k) == start(h) < k /\ k <= end(h)

(* What hit h puts at position k of the buffer. *)
Fill(h, k) == IF h.kind = "zero" THEN Zero
              ELSE h.pattern[((k - 1 - start(h)) % Len(h.pattern)) + 1]

(* Faulty variants: the last byte of a hit survives; a pattern is aligned   *)
(* with the buffer instead of with the hit.                                *)
OverwriteShort(b, h) == [k \in 1 .. Len(b) |-> IF Covers(h, k) /\ k < end(h) THEN Fill(h, k) ELSE b[k]]
OverwriteAligned(b, h) == [k \in 1 .. Len(b) |-> IF Covers(h, k) THEN Fill([h EXCEPT !.offset = 0], k) ELSE b[k]]

Overwrite(b, h) == [k \in 1 .. Len(b) |-> IF Covers(h, k) THEN Fill(h, k) ELSE b[k]]
-----------------------------------------------------------------------------
Init ==
    /\ orig \in Buffers
    /\ hits \in HitLists
    /\ buf = orig
    /\ next = 1
    /\ status = "running"

Current == hits[next]
Pending == status = "running" /\ next <= Len(hits)

(* Faulty variant: an error is skipped instead of returned. *)
SkipBad ==
    /\ Pending
    /\ ~Admissible(Current, buf)
    /\ next' = next + 1
    /\ UNCHANGED <<orig, hits, buf, status>>

(* One turn of the loop: the hit is applied, ... *)
ApplyOne ==
    /\ Pending
    /\ Admissible(Current, buf)
    /\ buf' = Overwrite(buf, Current)
    /\ next' = next + 1
    /\ UNCHANGED <<orig, hits, status>>

(* ... or refused: offset + len overflows, the hit ends behind the buffer,  *)
(* repeats an empty pattern, or asks for a Drop.                           *)
Refuse ==
    /\ Pending
    /\ ~Admissible(Current, buf)
    /\ status' = "error"
    /\ UNCHANGED <<orig, hits, buf, next>>

Finish ==
    /\ status = "running" /\ next > Len(hits)
    /\ status' = "ok"
    /\ UNCHANGED <<orig, hits, buf, next>>

Next == ApplyOne \/ Refuse \/ Finish

Spec == Init /\ [][Next]_vars
-----------------------------------------------------------------------------
(* At every moment, after an error too, the buffer is the original under    *)
(* the hits applied so far: where several overlap the last one wins, and a  *)
(* byte that none covers is untouched.                                     *)
Uncovered(k) == \A i \in 1 .. next - 1 : ~Covers(hits[i], k)
LastCover(i, k) == Covers(hits[i], k) /\ \A j \in i + 1 .. next - 1 : ~Covers(hits[j], k)
EditedExactly ==
    /\ Len(buf) = Len(orig)
    /\ \A k \in 1 .. Len(orig) :
          /\ Uncovered(k) => buf[k] = orig[k]
          /\ \A i \in 1 .. next - 1 : LastCover(i, k) => buf[k] = Fill(hits[i], k)

(* The loop stops at the first hit that cannot be applied to the original   *)
(* buffer, and at no other: "ok" means that every hit was applied.  Its end *)
(* is a sum of integers here, not of words: no hit that overflows a usize  *)
(* is taken for one near the start of the buffer.                          *)
Applicable(h) == start(h) + h.len <= Len(orig) /\ Supported(h)
Progressed == \A i \in 1 .. next - 1 : Applicable(hits[i])
Verdict ==
    /\ Progressed
    /\ status = "ok" => next = Len(hits) + 1
    /\ status = "error" => next <= Len(hits) /\ ~Applicable(hits[next])

(* What the engine reports asks for zero-fill only.  Then the order and the *)
(* number of the hits do not matter: the result is the original with zero  *)
(* at every covered byte, which is how Scrub takes `apply` as one step.    *)
ZeroFillOnly == \A i \in DOMAIN hits : hits[i].kind = "zero"
Zeroed == [k \in 1 .. Len(orig) |-> IF \E i \in DOMAIN hits : Covers(hits[i], k) THEN Zero ELSE orig[k]]
OrderIndependent == status = "ok" /\ ZeroFillOnly => buf = Zeroed
=============================================================================
