---------------------------- MODULE MCApplyHits ----------------------------
(***************************************************************************)
(* Small instances of ApplyHits: a buffer of up to three bytes, a usize of *)
(* three bits, and hits at, across and behind the end of the buffer, whose *)
(* end overflows a usize, that are empty, overlap or repeat.               *)
(***************************************************************************)
EXTENDS ApplyHits

MCBuffers == {<<>>, <<"a", "b", "c">>}

MCReplacements == {<<"zero", <<>>>>, <<"pattern", <<"x", "y">>>>,
                   <<"pattern", <<>>>>, <<"drop", <<>>>>}
MCHits == {[offset |-> o, len |-> l, kind |-> r[1], pattern |-> r[2]] :
             o \in {0, 1, 2, 6}, l \in {0, 2, 3}, r \in MCReplacements}

MCHitLists == {<<>>} \cup {<<h>> : h \in MCHits} \cup {<<g, h>> : g, h \in MCHits}
              \cup {<<f, g, h>> : f, g, h \in {x \in MCHits : x.kind = "zero" /\ x.len > 0 /\ x.offset < 6}}
=============================================================================
