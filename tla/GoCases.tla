------------------------------ MODULE GoCases ------------------------------
(***************************************************************************)
(* How the harness reads the cases of a Go test file                       *)
(* (crates/scrump-trufflehog-compat/src/main.rs): without a Go parser, by  *)
(* walking over the text of each {...} of the table.                       *)
(*                                                                         *)
(* The text is a sequence of tokens [k, v, w, ws]: the kind, the text v of *)
(* an "id" (dotted names are one), the value w of a "str", and whether     *)
(* white space follows.  Marks are kinds of their own.  A value is a       *)
(* sequence of cells; "%" is a placeholder of a format.  No string of a    *)
(* case holds a blank, a comma or a colon.                                 *)
(***************************************************************************)
EXTENDS Integers, FiniteSets, SequencesExt

Token == [k : STRING, v : STRING, w : Seq(STRING), ws : BOOLEAN]
Decl == [name : STRING, rhs : Seq(Token)]
Is(b, i, kinds) == i <= Len(b) /\ b[i].k \in kinds
IsName(b, i, name) == Is(b, i, {"id"}) /\ b[i].v = name

(* The first place from i on that holds one of the marks; behind the end if *)
(* there is none.                                                          *)
Upto(b, i, kinds) ==
    LET at == {j \in i .. Len(b) : b[j].k \in kinds}
    IN  IF at = {} THEN Len(b) + 1 ELSE CHOOSE j \in at : \A k \in at : j <= k
StepOver(b, i, kind) == IF Is(b, i, {kind}) THEN i + 1 ELSE i

(* The brace that closes the one at open, or 0. *)
Depth(b, open, j) ==
    Cardinality({k \in open .. j : b[k].k = "{"}) - Cardinality({k \in open .. j : b[k].k = "}"})
match_brace(b, open) ==
    LET at == {j \in open .. Len(b) : Depth(b, open, j) = 0}
    IN  IF at = {} THEN 0 ELSE CHOOSE j \in at : \A k \in at : j <= k

(* The value of a declaration "var name = ..." is that of its first         *)
(* literal, whatever follows; one that starts with anything else is left   *)
(* out.  The last declaration of a name counts.                            *)
extract_vars(decls) ==
    LET literal == {i \in DOMAIN decls : Is(decls[i].rhs, 1, {"str"})}
        last(n) == CHOOSE i \in literal :
            decls[i].name = n /\ \A j \in literal : decls[j].name = n => j <= i
    IN  [n \in {decls[i].name : i \in literal} |-> decls[last(n)].rhs[1].w]

(* fmt.Sprintf: each placeholder takes the next argument, if there is one.  *)
substitute_format(fmt, args) == LET from[c \in 1 .. Len(fmt) + 1] == [next \in 1 .. Len(args) + 1 |->
    IF c > Len(fmt) THEN <<>>
    ELSE IF fmt[c] # "%" THEN <<fmt[c]>> \o from[c + 1][next]
    ELSE IF next <= Len(args) THEN args[next] \o from[c + 1][next + 1]
    ELSE from[c + 1][next]]
    IN  from[1][1]
-----------------------------------------------------------------------------
(* What reading yields: whether there was a value, it, and the place behind.*)
Value(ok, out, i) == [ok |-> ok, out |-> out, i |-> i]

FormatNames == {"fmt.Sprintf", "Sprintf"}
resolve_call(name, args) ==
    IF name \in FormatNames /\ args.out # <<>>
    THEN Value(TRUE, substitute_format(args.out[1], Tail(args.out)), args.i)
    ELSE Value(FALSE, <<>>, args.i)

(* A value; a call has its arguments from a function of their place. *)
ValueFrom(b, i, vars, args) ==
    IF Is(b, i, {"str"}) THEN Value(TRUE, b[i].w, i + 1)
    ELSE IF ~Is(b, i, {"id"}) THEN Value(FALSE, <<>>, i)
    ELSE IF Is(b, i + 1, {"("}) THEN resolve_call(b[i].v, args[i + 2])
    ELSE IF b[i].v \in DOMAIN vars THEN Value(TRUE, vars[b[i].v], i + 1)
    ELSE Value(FALSE, <<>>, i + 1)

(* The arguments that have a value; the others are left out. *)
read_call_args(b, vars) == LET args[i \in 1 .. Len(b) + 1] ==
    LET Behind(v) == StepOver(b, IF v.ok THEN v.i ELSE Upto(b, v.i, {",", ")"}), ",")
        With(v, rest) == Value(TRUE, (IF v.ok THEN <<v.out>> ELSE <<>>) \o rest.out, rest.i)
        Then(v) == With(v, args[Behind(v)])
    IN  IF i <= Len(b) /\ ~Is(b, i, {")"}) THEN Then(ValueFrom(b, i, vars, args))
        ELSE Value(TRUE, <<>>, StepOver(b, i, ")"))
    IN  args
read_value(b, i, vars) == ValueFrom(b, i, vars, read_call_args(b, vars))

Joined(v, rest) == Value(TRUE, v.out \o rest.out, rest.i)

(* Values joined by "+".  It stops in front of one that it cannot resolve,  *)
(* with what it has so far.                                                *)
read_concat_expr(b, from, vars) == LET sum[i \in 1 .. Len(b) + 1] ==
    LET Sum(v) == IF ~v.ok THEN Value(TRUE, <<>>, i)
                  ELSE IF Is(b, v.i, {"+"}) THEN Joined(v, sum[v.i + 1])
                  ELSE v
    IN  Sum(read_value(b, i, vars))
    IN  sum[from]

(* One entry of []string{...}, whose braces match; behind a value it cannot *)
(* resolve one more character is passed over, which is a comma or the white*)
(* space.                                                                  *)
WantEntry(b, from, vars) == LET entry[j \in 1 .. Len(b) + 1] ==
    LET skipped(v) == IF v.i > j /\ b[v.i - 1].ws THEN v.i ELSE v.i + 1
        Sum(v) == IF ~v.ok THEN Value(TRUE, <<>>, skipped(v))
                  ELSE IF Is(b, v.i, {"+"}) THEN Joined(v, entry[v.i + 1])
                  ELSE v
    IN  IF j > Len(b) \/ Is(b, j, {","}) THEN Value(TRUE, <<>>, j) ELSE Sum(read_value(b, j, vars))
    IN  entry[from]

(* The entries in front of the closing brace; one without text is left out. *)
Wants(b, end, vars) == LET words[j \in 1 .. Len(b) + 2] ==
    LET Then(e) == (IF e.out = <<>> THEN <<>> ELSE <<e.out>>) \o words[e.i]
    IN  IF j >= end THEN <<>>
        ELSE IF b[j].k = "," THEN words[j + 1]
        ELSE Then(WantEntry(b, j, vars))
    IN  words

(* nil, a name that has a value, or []string{...}.  No word at all and nil  *)
(* mean the same to evaluate.                                              *)
read_want(b, i, vars) ==
    LET open == Upto(b, IF Is(b, i, {"id"}) THEN i + 1 ELSE i, {"{"})
        end == match_brace(b, open)
    IN  IF IsName(b, i, "nil") THEN Value(TRUE, <<>>, i + 1)
        ELSE IF Is(b, i, {"id"}) /\ b[i].v \in DOMAIN vars THEN Value(TRUE, <<vars[b[i].v]>>, i + 1)
        ELSE IF open > Len(b) \/ end = 0 THEN Value(TRUE, <<>>, open)
        ELSE Value(TRUE, Wants(b, end, vars)[open + 1], end + 1)

(* Faulty variant: a comma ends a value wherever it stands. *)
SkipToComma(b, i) == Upto(b, i, {","})

(* Any other field's value: up to the next comma that no braces hold. *)
skip_value(b, from) == LET skip[i \in 1 .. Len(b) + 1] ==
    IF i > Len(b) \/ b[i].k = "," THEN i
    ELSE IF b[i].k # "{" THEN skip[i + 1]
    ELSE LET end == match_brace(b, i) IN IF end = 0 THEN Len(b) + 1 ELSE skip[end + 1]
    IN  skip[from]
-----------------------------------------------------------------------------
(* Where a field's name ends: a colon or white space. *)
NameEnd(b, i) ==
    LET at == {j \in i .. Len(b) : b[j].k = ":" \/ (j > i /\ b[j - 1].ws)}
    IN  IF at = {} THEN Len(b) + 1 ELSE CHOOSE j \in at : \A k \in at : j <= k

EmptyCase == [name |-> <<>>, input |-> <<>>, want |-> <<>>, have_want |-> FALSE]

(* The walk over an entry's fields, which may come in any order, each of    *)
(* them once.  What does not look like a field, such as the rest of an     *)
(* input that could not be resolved, is passed over up to and with the     *)
(* next comma.                                                             *)
parse_case(b, vars) == LET fields[i \in 1 .. Len(b) + 2] ==
    LET j == NameEnd(b, i)
        Field(names) == j = i + 1 /\ Is(b, i, {"id"}) /\ b[i].v \in names
        Behind(v) == fields[StepOver(b, v.i, ",")]
        Text(v) == [Behind(v) EXCEPT ![b[i].v] = v.out]
        Want(v) == [Behind(v) EXCEPT !.want = v.out, !.have_want = TRUE]
    IN  IF i > Len(b) THEN EmptyCase
        ELSE IF ~Is(b, j, {":"}) THEN fields[Upto(b, j, {","}) + 1]
        ELSE IF Field({"name", "input"}) THEN Text(read_concat_expr(b, j + 1, vars))
        ELSE IF Field({"want"}) THEN Want(read_want(b, j + 1, vars))
        ELSE fields[StepOver(b, skip_value(b, j + 1), ",")]
    IN  fields[1]

(* An entry with neither a want nor an input is no case. *)
IsCase(c) == c.have_want \/ c.input # <<>>

(* The cases of a file; none without a table. *)
parse_provider(src) ==
    LET vars == extract_vars(src.decls)
        Cases(c) == IF src.table /\ IsCase(c) THEN <<c>> ELSE <<>>
    IN  FlattenSeq([n \in DOMAIN src.entries |-> Cases(parse_case(src.entries[n], vars))])
=============================================================================
