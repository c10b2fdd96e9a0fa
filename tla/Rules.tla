------------------------------- MODULE Rules -------------------------------
(***************************************************************************)
(* Which rules the program runs (crates/scrump-rules/src/lib.rs): curated  *)
(* rules, and rules taken from TruffleHog less the quarantined ones.  Two  *)
(* layers put a rule in quarantine: a list of ids, and a look at the shape *)
(* of the pattern for providers that are on the list already.              *)
(*                                                                         *)
(* An id is the sequence of the parts that "__" separates.  A pattern is a *)
(* sequence of symbols: "a" a letter or digit, "esc" an escape of two      *)
(* characters, the brackets of classes and repetitions, "." any other      *)
(* character, "flag" for (?i), "marker" for the text in front of the       *)
(* distance N in a keyword context, (?:.|[\n\r]){0,N}?, and "lazy" for }?. *)
(***************************************************************************)
EXTENDS Integers, FiniteSets, SequencesExt

CONSTANTS
    TH_QUARANTINE,          \* ids audited as noise
    STRUCTURAL_ALLOWLIST,   \* ids the second layer must spare
    MinRun                  \* letters of a literal anchor

(* The ids of the list name a provider and a rule of it. *)
ASSUME RulesAssumption ==
    /\ TH_QUARANTINE \cap STRUCTURAL_ALLOWLIST = {} /\ MinRun \in Nat \ {0}
    /\ \A id \in TH_QUARANTINE : id \in Seq(STRING) /\ Len(id) >= 2

(* A rule of a file: gap and what the keyword and the values are is said in *)
(* Engine; capture is the group that is reported, 0 the whole match.       *)
Alternative == [group : Seq(STRING), after : Seq(STRING)]
RuleDef == [id : Seq(STRING), pattern : Seq(STRING), compiles : BOOLEAN, keyword : Seq(STRING), gap : Nat,
            values : Seq(Alternative), capture : Nat, min_entropy : Nat, post : {"none"}]

provider_of(id) == id[1]

FirstIndex(s, x, from) ==
    LET at == {i \in from .. Len(s) : s[i] = x}
    IN  IF at = {} THEN 0 ELSE CHOOSE i \in at : \A j \in at : i <= j

(* What a pattern captures, behind its keyword context. *)
value_part(pattern) ==
    LET i == FirstIndex(pattern, "marker", 1)
        j == FirstIndex(pattern, "lazy", i + 1)
    IN  IF i # 0 /\ j # 0 THEN SubSeq(pattern, j + 1, Len(pattern))
        ELSE IF pattern # <<>> /\ pattern[1] = "flag" THEN Tail(pattern)
        ELSE pattern

(* The scan for literal text: whether a class and whether a repetition is   *)
(* open behind the first i symbols, and how many literal letters in a row  *)
(* end there.                                                              *)
in_class(s) == LET open[i \in 0 .. Len(s)] ==
    CASE i = 0 -> FALSE
      [] i # 0 /\ s[i] = "[" -> TRUE
      [] i # 0 /\ s[i] \in {"]", "marker"} -> FALSE
      [] OTHER -> open[i - 1]
    IN  open
in_brace(s) == LET open[i \in 0 .. Len(s)] ==
    CASE i = 0 -> FALSE
      [] i # 0 /\ (s[i] = "marker" \/ (s[i] = "{" /\ ~in_class(s)[i - 1])) -> TRUE
      [] i # 0 /\ s[i] \in {"}", "lazy"} -> FALSE
      [] OTHER -> open[i - 1]
    IN  open
run(s, open) == LET length[i \in 0 .. Len(s)] ==
    IF i = 0 \/ s[i] # "a" \/ open[i - 1] THEN 0 ELSE length[i - 1] + 1
    IN  length

(* Faulty variant: what stands in a repetition counts as well. *)
AnchorThrough(s, min_run) ==
    \E i \in 0 .. Len(s) : run(s, in_class(s))[i] >= min_run

has_literal_anchor(s, min_run) ==
    LET open == [i \in 0 .. Len(s) |-> in_class(s)[i] \/ in_brace(s)[i]]
    IN  \E i \in 0 .. Len(s) : run(s, open)[i] >= min_run

pattern_is_structurally_noisy(id, pattern) ==
    id \notin STRUCTURAL_ALLOWLIST /\ ~has_literal_anchor(value_part(pattern), MinRun)

noisy_providers == {provider_of(id) : id \in TH_QUARANTINE}

(* Faulty variant: every provider's rules are looked at. *)
QuarantineBlanket(th) ==
    {r.id : r \in {q \in th : pattern_is_structurally_noisy(q.id, q.pattern)}}

(* The second layer: a set of ids, so that of two rules with one id both    *)
(* go when either is noisy.                                                *)
structural_quarantine(th) ==
    {r.id : r \in {q \in th : /\ provider_of(q.id) \in noisy_providers
                              /\ pattern_is_structurally_noisy(q.id, q.pattern)}}

(* structural is that set; it is computed once. *)
rule_is_active(id, structural) == id \notin TH_QUARANTINE /\ id \notin structural
-----------------------------------------------------------------------------
JwtToken == <<"jwt_token">>
IsJwt(id) == id = JwtToken \/ (Len(id) >= 2 /\ id[1] = "jwt")

(* The hand-written detector that takes the place of all JWT rules; it      *)
(* reports the whole match.                                                *)
JwtHsAware(tokens) ==
    [id |-> JwtToken, pattern |-> <<>>, compiles |-> TRUE, keyword |-> <<>>, gap |-> 0,
     values |-> [i \in DOMAIN tokens |-> [group |-> tokens[i], after |-> <<>>]], capture |-> 0, min_entropy |-> 2, post |-> "jwt"]

(* The rules of the TruffleHog file that pass the filter; what does not is  *)
(* dropped before its regex is compiled.  Their order is left out: it is   *)
(* that of the hits.                                                       *)
Active(th, structural) == {r \in th : rule_is_active(r.id, structural)}

(* One bad regex among the rest and nothing is loaded. *)
Loadable(default, active) == \A r \in default \cup active : r.compiles

default_detectors(default, active, tokens) ==
    {r \in default \cup active : ~IsJwt(r.id)} \cup {JwtHsAware(tokens)}
=============================================================================
