------------------------------ MODULE MCScrub ------------------------------
(***************************************************************************)
(* Small instances of Scrub.  A capture is a sequence of at most three     *)
(* blocks: "magic" opens a file of the one structured format, "pat" is a   *)
(* secret of fixed shape, "key" a provider's name and "tok" a secret that  *)
(* is one only near such a name.                                           *)
(***************************************************************************)
EXTENDS Scrub

MCBlocks == {"magic", "pat", "key", "tok", "zero"}

MCSeat == LET order == CHOOSE s \in [1 .. Cardinality(Files) -> Files] :
                           \A i, j \in DOMAIN s : s[i] = s[j] => i = j
          IN [f \in Files |-> CHOOSE i \in DOMAIN order : order[i] = f]

MCClaims(g, c) == g = "structured" /\ c # << >> /\ c[1] = "magic"

(* Every secret, whatever surrounds it; a structured file's first block is  *)
(* in no chunk.                                                            *)
FixedShape(g, c, i) == c[i] \in {"pat", "tok"} /\ (g = "structured" => i > 1)

(* With a keyword in front, as a rule with a capture_index reports it: of   *)
(* what stands behind a provider's name only the first token, which ends   *)
(* the match.                                                              *)
NearKeyword(g, c, i) ==
    LET first == IF g = "structured" THEN 2 ELSE 1
    IN  /\ i >= first /\ c[i] = "tok"
        /\ \E j \in first .. i - 1 : c[j] = "key" /\ \A m \in j + 1 .. i - 1 : c[m] # "tok"
KeywordHits(g, c, i) == NearKeyword(g, c, i) \/ (c[i] = "pat" /\ FixedShape(g, c, i))

(* On these contents redaction keeps the format. *)
MCContents == UNION {[1 .. n -> MCBlocks] : n \in 0 .. 3}
ASSUME MCRules == KeepsFormat(MCContents)

Scan(f)      == [op |-> "scan", path |-> f, out |-> NoOut, backup |-> FALSE, format |-> NoFormat]
ScrubIt(f)   == [Scan(f) EXCEPT !.op = "scrub"]
Backup(f)    == [ScrubIt(f) EXCEPT !.backup = TRUE]
To(f, g)     == [ScrubIt(f) EXCEPT !.out = g]
Forced(f, g) == [ScrubIt(f) EXCEPT !.format = g]

InPlaceCommands == {ScrubIt(f) : f \in Files}
BackupCommands  == {Backup(f) : f \in Files}
CrashCommands   == InPlaceCommands \cup BackupCommands

(* Readers and writers of one file; of the second, which nobody reads, -o   *)
(* makes a redaction of the first.                                         *)
First  == CHOOSE f \in Files : MCSeat[f] = 1
Second == CHOOSE f \in Files : MCSeat[f] = 2
CopyCommands == {Backup(First), Scan(First), To(First, Second), Forced(First, "passthrough")}

Short == {<<"magic", "pat">>, <<"pat">>}
Keyed == {<<"key", "tok", "pat">>, <<"key", "tok", "tok">>, <<"magic", "pat">>}
Two   == {<<"magic", "pat">>, <<"tok", "pat">>}
=============================================================================
