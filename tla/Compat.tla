------------------------------- MODULE Compat -------------------------------
(***************************************************************************)
(* The TruffleHog compatibility harness                                    *)
(* (crates/scrump-trufflehog-compat/src/main.rs): TruffleHog's own test    *)
(* files, read by GoCases, case by case through the Engine with the        *)
(* default Rules; the exit code is what CI looks at.                       *)
(***************************************************************************)
EXTENDS Engine, GoSyntax

CONSTANTS
    Worlds,         \* rules, provider map, files and floor of a run
    Order,          \* the providers' names in ascending order
    JwtValues       \* what the JWT regex matches

(* A Go test file: the tokens, and the syntax trees of the table's entries. *)
Source == [table : BOOLEAN, decls : Seq(Decl), entries : Seq(Seq(Token)), trees : Seq(Tree)]

(* The files of rules are the repository's: th_extract names a rule of the  *)
(* TruffleHog file provider__name and lists it in the map under provider;  *)
(* the curated ones have names without "__".  The map is not kept in the   *)
(* repository and may be that of other rules.  A rule that reports the     *)
(* whole match has no keyword in front of its value.                       *)
WellFormed(w) ==
    /\ w.th \subseteq RuleDef /\ \A r \in w.th : Len(r.id) >= 2
    /\ w.default \subseteq RuleDef /\ \A r \in w.default : Len(r.id) = 1
    /\ \A r \in w.th \cup w.default : r.capture = 0 => r.keyword = <<>> /\ r.gap = 0
    /\ \A p \in DOMAIN w.map : \A id \in w.map[p] : id \in Seq(STRING) /\ Len(id) >= 2 /\ provider_of(id) = p
    /\ 0 \notin DOMAIN w.files /\ w.floor \in Nat
    /\ \A f \in DOMAIN w.files : w.files[f].source \in Source

(* What the JWT regex matches starts with a header and up to two "=" in     *)
(* front of the first dot.                                                 *)
IsToken(v) ==
    /\ v \in Seq(STRING)
    /\ \E dot \in 2 .. Len(v) : /\ v[dot] = "." /\ v[1] \notin {".", "="}
                               /\ \A i \in 2 .. dot - 1 : v[i] = "="

ASSUME CompatAssumption ==
    /\ \A w \in Worlds : WellFormed(w)
    /\ JwtValues \in Seq(Seq(STRING)) /\ \A i \in DOMAIN JwtValues : IsToken(JwtValues[i])

TOLERATED == {}     \* providers that may have false positives

VARIABLES
    world,
    phase,
    structural,     \* the second layer's quarantine, once it is computed
    detectors,      \* the engine's
    remaining,      \* test files that are still to come
    current,        \* the file whose cases are evaluated
    rule_ids,       \* the rules its provider's cases are about
    cases,          \* its cases
    done,           \* how many of them are through
    per_provider,   \* passed and failed cases, by provider
    total_pass, total_fail,
    skipped,        \* files without rules, without cases
    exit,           \* the exit code, or 0
    seen            \* history: files evaluated, files that could not be read, verdicts

counters == <<per_provider, total_pass, total_fail, skipped>>
vars == <<world, phase, structural, detectors, remaining, current, rule_ids, cases, done, counters, exit, seen>>

file(f) == world.files[f]
Rank(p) == CHOOSE i \in DOMAIN Order : Order[i] = p

Init ==
    /\ world \in Worlds
    /\ phase = "start" /\ structural = {} /\ detectors = {}
    /\ remaining = {} /\ current = 0 /\ rule_ids = {} /\ cases = <<>> /\ done = 0
    /\ per_provider = <<>> /\ total_pass = 0 /\ total_fail = 0
    /\ skipped = [no_rules |-> {}, no_cases |-> {}]
    /\ exit = 0 /\ seen = [evaluated |-> {}, unreadable |-> {}, verdicts |-> {}]

Exit(code) ==
    /\ phase' = "exited" /\ exit' = code
    /\ UNCHANGED <<world, structural, detectors, remaining, current, rule_ids, cases, done, counters, seen>>

NoVendor == phase = "start" /\ ~world.vendor /\ Exit(2)

(* A rule that does not compile is a panic. *)
LoadFails ==
    /\ phase = "start" /\ world.vendor
    /\ ~Loadable(world.default, Active(world.th, structural_quarantine(world.th)))
    /\ Exit(101)

LoadRules ==
    /\ phase = "start" /\ world.vendor
    /\ structural' = structural_quarantine(world.th)
    /\ LET active == Active(world.th, structural')
       IN  /\ Loadable(world.default, active)
           /\ detectors' = default_detectors(world.default, active, JwtValues)
    /\ phase' = "map"
    /\ UNCHANGED <<world, remaining, current, rule_ids, cases, done, counters, exit, seen>>

(* provider_map.json: an error to read it is main's, one to parse it panics.*)
MapFails == phase = "map" /\ \E code \in {1, 101} : Exit(code)

(* find_all_test_files: a directory that cannot be listed is left out with   *)
(* all that is in it; integration tests and other files are no test files. *)
Discover ==
    /\ phase = "map" /\ phase' = "providers"
    /\ \E gone \in SUBSET {file(f).provider : f \in DOMAIN world.files} :
         remaining' = {f \in DOMAIN world.files : file(f).kind = "test" /\ file(f).provider \notin gone}
    /\ UNCHANGED <<world, structural, detectors, current, rule_ids, cases, done, counters, exit, seen>>
-----------------------------------------------------------------------------
(* Faulty variant: none. *)
NoOverrides(provider) == {}
(* RULE_OVERRIDES *)
override_ids(provider) == IF provider = "jwt" THEN {JwtToken} ELSE {}

RuleIds(provider) ==
    IF override_ids(provider) # {} THEN override_ids(provider)
    ELSE IF provider \in DOMAIN world.map
         THEN {id \in world.map[provider] : rule_is_active(id, structural)}
    ELSE {}

(* The files come in the order of their providers. *)
Take(f) ==
    /\ phase = "providers" /\ f \in remaining
    /\ \A g \in remaining : Rank(file(f).provider) <= Rank(file(g).provider)
    /\ remaining' = remaining \ {f}

SkipNoRules(f) ==
    /\ Take(f) /\ RuleIds(file(f).provider) = {}
    /\ skipped' = [skipped EXCEPT !.no_rules = @ \cup {f}]
    /\ UNCHANGED <<world, phase, structural, detectors, current, rule_ids, cases, done, per_provider, total_pass, total_fail, exit, seen>>

(* A file that cannot be read is passed over, and counted nowhere. *)
SkipUnreadable(f) ==
    /\ Take(f) /\ RuleIds(file(f).provider) # {}
    /\ seen' = [seen EXCEPT !.unreadable = @ \cup {f}]
    /\ UNCHANGED <<world, phase, structural, detectors, current, rule_ids, cases, done, counters, exit>>

ReadCases(f) ==
    /\ Take(f) /\ RuleIds(file(f).provider) # {}
    /\ cases' = parse_provider(file(f).source)
    /\ IF cases' = <<>>
       THEN /\ skipped' = [skipped EXCEPT !.no_cases = @ \cup {f}]
            /\ UNCHANGED <<phase, current, rule_ids, seen>>
       ELSE /\ phase' = "cases" /\ current' = f /\ rule_ids' = RuleIds(file(f).provider)
            /\ seen' = [seen EXCEPT !.evaluated = @ \cup {f}]
            /\ UNCHANGED skipped
    /\ UNCHANGED <<world, structural, detectors, done, per_provider, total_pass, total_fail, exit>>
-----------------------------------------------------------------------------
(* evaluate: without expected words, no rule of the provider may hit; with  *)
(* some, each must contain a hit or be contained in one.                   *)
contains_subslice(hay, needle) == \E o \in 0 .. Len(hay) - Len(needle) : Occurs(needle, hay, o)
HitsOf(ids, input) ==
    {h \in scan_chunk(detectors, [bytes |-> input, offset |-> 0]) : h.rule_id \in ids}
FoundBy(word, input, h) ==
    LET slice == Slice(input, h.offset, h.offset + h.len)
    IN  contains_subslice(slice, word) \/ contains_subslice(word, slice)

(* Faulty variant: one of the expected words is enough. *)
PassedByOne(case, ids, tolerated) ==
    LET hits == HitsOf(ids, case.input)
    IN  IF case.want = <<>> THEN hits = {} \/ tolerated
        ELSE \E w \in ToSet(case.want) : \E h \in hits : FoundBy(w, case.input, h)

Passed(case, ids, tolerated) ==
    LET hits == HitsOf(ids, case.input)
    IN  IF case.want = <<>> THEN hits = {} \/ tolerated
        ELSE \A w \in ToSet(case.want) : \E h \in hits : FoundBy(w, case.input, h)

provider == file(current).provider
Sofar(p) == IF p \in DOMAIN per_provider THEN per_provider[p] ELSE [pass |-> 0, fail |-> 0]
With(p, entry) == [q \in DOMAIN per_provider \cup {p} |-> IF q = p THEN entry ELSE per_provider[q]]

(* Faulty variant: a provider's second file starts its counts again. *)
CountAfresh(passed) ==
    LET sofar == IF done = 0 THEN [pass |-> 0, fail |-> 0] ELSE Sofar(provider)
    IN  /\ per_provider' = With(provider, IF passed THEN [sofar EXCEPT !.pass = @ + 1] ELSE [sofar EXCEPT !.fail = @ + 1])
        /\ total_pass' = total_pass + (IF passed THEN 1 ELSE 0)
        /\ total_fail' = total_fail + (IF passed THEN 0 ELSE 1)

Count(passed) ==
    LET sofar == Sofar(provider)
    IN  /\ per_provider' = With(provider, IF passed THEN [sofar EXCEPT !.pass = @ + 1] ELSE [sofar EXCEPT !.fail = @ + 1])
        /\ total_pass' = total_pass + (IF passed THEN 1 ELSE 0)
        /\ total_fail' = total_fail + (IF passed THEN 0 ELSE 1)

Evaluate ==
    /\ phase = "cases" /\ done < Len(cases)
    /\ LET passed == Passed(cases[done + 1], rule_ids, provider \in TOLERATED)
       IN  /\ Count(passed)
           /\ seen' = [seen EXCEPT !.verdicts = @ \cup {[file |-> current, case |-> done + 1, passed |-> passed]}]
    /\ done' = done + 1
    /\ UNCHANGED <<world, phase, structural, detectors, remaining, current, rule_ids, cases, skipped, exit>>

CasesEnd ==
    /\ phase = "cases" /\ done = Len(cases)
    /\ phase' = "providers" /\ current' = 0 /\ rule_ids' = {} /\ cases' = <<>> /\ done' = 0
    /\ UNCHANGED <<world, structural, detectors, remaining, counters, exit, seen>>

(* SCRUMP_TH_MAX_FAILURES; world.floor is 0 where it is not set. *)
Report == phase = "providers" /\ remaining = {} /\ Exit(IF total_fail > world.floor THEN 1 ELSE 0)

NextFile == \E f \in remaining : SkipNoRules(f) \/ SkipUnreadable(f) \/ ReadCases(f)
Next ==
    \/ NoVendor \/ LoadFails \/ LoadRules \/ MapFails \/ Discover
    \/ NextFile \/ Evaluate \/ CasesEnd \/ Report

Spec == Init /\ [][Next]_vars
-----------------------------------------------------------------------------
(* Every case that was read is judged once, and every verdict counts once, for its provider and in the      *)
(* totals, also when several files belong to one provider; and every file that was found is accounted for   *)
(* once.                                                                                                    *)
Verdicts(passed) == {v \in seen.verdicts : v.passed = passed}
VerdictsOf(p, passed) == {v \in Verdicts(passed) : file(v.file).provider = p}
CasesOf(f) == parse_provider(file(f).source)
Judged(f) == {v.case : v \in {u \in seen.verdicts : u.file = f}}
Tallied ==
    /\ DOMAIN per_provider = {file(v.file).provider : v \in seen.verdicts}
    /\ \A p \in DOMAIN per_provider :
         per_provider[p] = [pass |-> Cardinality(VerdictsOf(p, TRUE)), fail |-> Cardinality(VerdictsOf(p, FALSE))]
    /\ total_pass = Cardinality(Verdicts(TRUE)) /\ total_fail = Cardinality(Verdicts(FALSE))
JudgedOnce ==
    /\ \A f \in seen.evaluated : Judged(f) = 1 .. (IF f = current THEN done ELSE Len(CasesOf(f)))
    /\ \A u, v \in seen.verdicts : u.file = v.file /\ u.case = v.case => u = v
FilesOnce ==
    LET groups == <<remaining, skipped.no_rules, skipped.no_cases, seen.evaluated, seen.unreadable>>
    IN  \A i, j \in DOMAIN groups : i # j => groups[i] \cap groups[j] = {}
Counted == Tallied /\ JudgedOnce /\ FilesOnce

(* A pattern has a literal anchor exactly if so many letters in a row stand *)
(* outside of all classes and repetitions: neither is open behind the      *)
(* symbols in front of them.                                               *)
InClass(s, i) == \E j \in 1 .. i : s[j] = "[" /\ \A m \in j + 1 .. i : s[m] \notin {"]", "marker"}
InBrace(s, i) == \E j \in 1 .. i :
    /\ s[j] = "marker" \/ (s[j] = "{" /\ ~InClass(s, j - 1))
    /\ \A m \in j + 1 .. i : s[m] \notin {"}", "lazy"}
AnchorIsRun ==
    phase = "start" => \A r \in world.th :
        LET v == value_part(r.pattern)
            literal(k) == v[k] = "a" /\ ~InClass(v, k - 1) /\ ~InBrace(v, k - 1)
        IN  has_literal_anchor(v, MinRun)
            <=> \E k \in 1 .. Len(v) - MinRun + 1 : \A m \in k .. k + MinRun - 1 : literal(m)

(* What curation promises: no rule of a provider that has never misbehaved  *)
(* is dropped, no quarantined rule runs, and one detector takes the place  *)
(* of all rules for JWTs.                                                  *)
UnseenProvidersKept ==
    phase \notin {"start", "exited"} =>
        /\ \A r \in world.th : provider_of(r.id) \notin noisy_providers \cup {"jwt"} => r \in detectors
        /\ {r.id : r \in detectors} \cap TH_QUARANTINE = {}
        /\ {r.post : r \in {d \in detectors : IsJwt(d.id)}} = {"jwt"}

(* The rules a provider's cases are about are rules the engine runs, unless  *)
(* the files of rules, which may be newer than the provider map, no longer *)
(* have them: the two quarantines, the replacement of the JWT rules and the*)
(* overrides agree with the map.                                           *)
FiledIds == {r.id : r \in world.th \cup world.default} \cup {JwtToken}
RunRulesLoaded == phase = "cases" => rule_ids # {} /\ rule_ids \cap FiledIds \subseteq {r.id : r \in detectors}

(* Wherever the chunk lies in the file, a hit is exactly the group its rule  *)
(* reports: the whole of it and nothing else, with the rule's keyword at    *)
(* most gap cells in front of it and the rest of the match behind it; it   *)
(* reaches the rule's floor, and the JWT detector reports no token whose   *)
(* header names an HMAC algorithm (other rules may).                       *)
Group(r, v) == IF r.capture = 0 THEN Matched(v) ELSE v.group
Captured(r, text, from, to) ==
    LET slice == Slice(text, from, to)
    IN  /\ \E v \in ToSet(r.values) : slice = Group(r, v) /\ (r.capture # 0 => Occurs(v.after, text, to))
        /\ \E p \in 0 .. from : from - p <= Len(r.keyword) + r.gap /\ p + Len(r.keyword) <= from /\ Occurs(r.keyword, text, p)
        /\ shannon_entropy(slice) >= r.min_entropy
        /\ r.post = "jwt" => slice[1] # "hs"
HitsAreGroups ==
    phase = "cases" => \A i \in DOMAIN cases :
        LET chunk == [bytes |-> cases[i].input, offset |-> 3]
        IN  \A h \in scan_chunk(detectors, chunk) :
              \E r \in detectors : r.id = h.rule_id /\ Captured(r, chunk.bytes, h.offset - 3, h.offset - 3 + h.len)

(* The cases are read as they are written, with their fields in whatever    *)
(* order and with whatever other fields, if all names and calls in the      *)
(* table are such as the reader can know.                                  *)
Readable(f) ==
    LET src == file(f).source
    IN  DOMAIN src.trees = DOMAIN src.entries /\ \A n \in DOMAIN src.trees : IsEntry(src.entries[n], src.trees[n], src.decls)
WrittenCases(f) ==
    LET src == file(f).source
        Cases(c) == IF src.table /\ IsCase(c) THEN <<c>> ELSE <<>>
    IN  FlattenSeq([n \in DOMAIN src.entries |-> Cases(EntryMeans(src.entries[n], src.trees[n], src.decls))])
ReadFaithfully == phase = "cases" /\ Readable(current) => cases = WrittenCases(current)

(* Where CI sees success with no failure allowed, every case of every file *)
(* that was evaluated holds as it is written in the source.                *)
ExitHonest ==
    phase = "exited" /\ exit = 0 /\ world.floor = 0 =>
        \A f \in {g \in seen.evaluated : Readable(g)} : \A c \in ToSet(WrittenCases(f)) :
            LET hits == HitsOf(RuleIds(file(f).provider), c.input)
            IN  /\ c.want = <<>> => hits = {}
                /\ \A w \in ToSet(c.want) : \E h \in hits : FoundBy(w, c.input, h)
-----------------------------------------------------------------------------
(* The inductive invariants of the proofs.  What the engine runs is what    *)
(* curation left.                                                          *)
Curated ==
    phase # "start" /\ exit = 0 =>
        /\ structural = structural_quarantine(world.th)
        /\ detectors = default_detectors(world.default, Active(world.th, structural), JwtValues)

(* The walk over the files, and the cases of the one it is at. *)
Walking ==
    /\ world \in Worlds /\ remaining \subseteq DOMAIN world.files
    /\ skipped \in [no_rules : SUBSET DOMAIN world.files, no_cases : SUBSET DOMAIN world.files]
    /\ seen \in [evaluated : SUBSET DOMAIN world.files, unreadable : SUBSET DOMAIN world.files,
                 verdicts : SUBSET [file : DOMAIN world.files, case : Nat, passed : BOOLEAN]]
    /\ phase # "exited" => exit = 0
    /\ phase \in {"start", "map"} => /\ remaining = {} /\ seen = [evaluated |-> {}, unreadable |-> {}, verdicts |-> {}]
                                    /\ skipped = [no_rules |-> {}, no_cases |-> {}]
    /\ IF phase = "cases"
       THEN /\ current \in seen.evaluated /\ cases = CasesOf(current) /\ done \in Nat
            /\ rule_ids = RuleIds(provider) /\ rule_ids # {}
       ELSE current = 0 /\ done = 0

(* Every verdict is the one that the case deserves by what the engine runs. *)
Judging ==
    /\ IsFiniteSet(seen.verdicts)
    /\ \A v \in seen.verdicts :
         /\ v.file \in seen.evaluated /\ v.case \in DOMAIN CasesOf(v.file)
         /\ v.passed = Passed(CasesOf(v.file)[v.case], RuleIds(file(v.file).provider), FALSE)
    /\ phase = "exited" /\ exit = 0 => total_fail <= world.floor
=============================================================================
