------------------------------- MODULE Engine -------------------------------
(***************************************************************************)
(* The detection engine (crates/scrump-detect/src/lib.rs): every detector  *)
(* over a chunk, and of every match the whole or one capture group, if it  *)
(* reaches the detector's entropy floor and passes its post-filter.        *)
(*                                                                         *)
(* A regex is a keyword, up to gap cells of anything, and one of a list of *)
(* values, of which a first part is group 1 and the rest stands behind that *)
(* group; what a chunk holds is a sequence of cells, of which positions    *)
(* count from 0.                                                           *)
(***************************************************************************)
EXTENDS Rules

CONSTANT shannon_entropy(_)     \* a rank: only compared with floors

Slice(text, from, to) == SubSeq(text, from + 1, to)
Occurs(word, text, p) == p + Len(word) <= Len(text) /\ Slice(text, p, p + Len(word)) = word

(* The regex crate: the match at p, the shortest gap and then the first    *)
(* value of the list, and the matches of a text from left to right, none   *)
(* of which overlaps another, as a set.                                    *)
Matched(v) == v.group \o v.after
Gaps(r, text, p) ==
    {g \in 0 .. r.gap : \E i \in DOMAIN r.values : Occurs(Matched(r.values[i]), text, p + Len(r.keyword) + g)}
Matches(r, text, p) == Occurs(r.keyword, text, p) /\ Gaps(r, text, p) # {}
MatchAt(r, text, p) ==
    LET g == CHOOSE n \in Gaps(r, text, p) : \A m \in Gaps(r, text, p) : n <= m
        from == p + Len(r.keyword) + g
        fits == {i \in DOMAIN r.values : Occurs(Matched(r.values[i]), text, from)}
        i == CHOOSE n \in fits : \A m \in fits : n <= m
    IN  [start |-> p, group |-> from, group_end |-> from + Len(r.values[i].group),
         end |-> from + Len(Matched(r.values[i]))]

captures_iter(r, text) ==
    LET from[p \in 0 .. Len(text)] ==
            IF p = Len(text) THEN {}
            ELSE IF ~Matches(r, text, p) THEN from[p + 1]
            ELSE LET m == MatchAt(r, text, p)
                 IN  {m} \cup from[IF m.end > p THEN m.end ELSE p + 1]
    IN  from[0]
-----------------------------------------------------------------------------
(* JwtHsAware::post_filter: the header, in front of the first dot and of    *)
(* its padding, is dropped if it decodes to an algorithm of the HS family; *)
(* one that does not decode, or names no algorithm, is kept.  The cell     *)
(* "hs" stands for such a header, "raw" for bytes that are no text.        *)
post_filter(r, candidate) ==
    r.post = "jwt" =>
        LET dot == FirstIndex(candidate, ".", 1)
            header == {candidate[i] : i \in 1 .. dot - 1} \ {"="}
        IN  dot # 0 /\ "raw" \notin header /\ header # {"hs"}

(* What is reported of a match; a regex without the group reports nothing. *)
Groups == {0, 1}
From(r, m) == IF r.capture = 0 THEN m.start ELSE m.group
(* Faulty variant: a group is taken to end where the match ends. *)
ToOfMatch(r, m) == m.end
To(r, m) == IF r.capture = 0 THEN m.end ELSE m.group_end
Size(r, m) == To(r, m) - From(r, m)

Reported(r, bytes, m) ==
    LET matched == Slice(bytes, From(r, m), To(r, m))
    IN  /\ r.capture \in Groups
        /\ shannon_entropy(matched) >= r.min_entropy
        /\ post_filter(r, matched)

HitsOfDetector(r, chunk) ==
    {[offset |-> chunk.offset + From(r, m), len |-> Size(r, m), rule_id |-> r.id] :
        m \in {n \in captures_iter(r, chunk.bytes) : Reported(r, chunk.bytes, n)}}

(* Engine::scan_chunk; the hits' order is left out. *)
scan_chunk(detectors, chunk) == UNION {HitsOfDetector(r, chunk) : r \in detectors}
=============================================================================
