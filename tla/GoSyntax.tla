------------------------------ MODULE GoSyntax ------------------------------
(***************************************************************************)
(* What the entries of a test table mean in Go, said without the walk over *)
(* their text that GoCases models: by a syntax tree whose nodes know where *)
(* they stand.  The reader of the harness never sees a tree; that it reads *)
(* what a tree says is what is to be shown.                                *)
(*                                                                         *)
(* An entry is a sequence of fields [at, to, sums]: the places of its name *)
(* and of the token behind its value, and the sums in the value.  A sum is *)
(* a sequence of terms [at, args]: a literal, a name, or a call of         *)
(* fmt.Sprintf with so many literals and names.                            *)
(***************************************************************************)
EXTENDS GoCases

Term == [at : Nat, args : Nat]
Tree == Seq([at : Nat, to : Nat, sums : Seq(Seq(Term))])

(* The reader can know a name if one declaration gives it, a literal. *)
Declared(decls, n) == {i \in DOMAIN decls : decls[i].name = n}
Known(decls, n) ==
    \E i \in Declared(decls, n) : /\ Declared(decls, n) = {i}
                                  /\ Len(decls[i].rhs) = 1 /\ decls[i].rhs[1].k = "str"
ValueOf(decls, n) == decls[CHOOSE i \in Declared(decls, n) : TRUE].rhs[1].w

(* A literal or a name. *)
IsAtom(b, i, decls) ==
    Is(b, i, {"str"}) \/ (Is(b, i, {"id"}) /\ Known(decls, b[i].v) /\ ~Is(b, i + 1, {"("}))
AtomMeans(b, i, decls) == IF b[i].k = "str" THEN b[i].w ELSE ValueOf(decls, b[i].v)

(* A format means its characters, the n-th placeholder being the n-th       *)
(* argument.                                                               *)
Placeholders(fmt, c) == Cardinality({d \in 1 .. c : fmt[d] = "%"})
Formatted(fmt, args) ==
    FlattenSeq([c \in DOMAIN fmt |-> IF fmt[c] = "%" THEN args[Placeholders(fmt, c)] ELSE <<fmt[c]>>])

(* The k-th argument of a call, and the place behind a term and a sum. *)
Arg(t, k) == t.at + 2 * k
TermEnd(t) == IF t.args = 0 THEN t.at + 1 ELSE t.at + 2 * t.args + 2
SumEnd(s) == TermEnd(s[Len(s)])

IsCall(b, t, decls) ==
    /\ t.args > 0 /\ (\E name \in FormatNames : IsName(b, t.at, name)) /\ Is(b, t.at + 1, {"("})
    /\ \A k \in 1 .. t.args :
         /\ IsAtom(b, Arg(t, k), decls)
         /\ Is(b, Arg(t, k) + 1, {IF k = t.args THEN ")" ELSE ","})
    /\ LET fmt == AtomMeans(b, Arg(t, 1), decls) IN Placeholders(fmt, Len(fmt)) = t.args - 1
IsTerm(b, t, decls) == (t.args = 0 /\ IsAtom(b, t.at, decls)) \/ IsCall(b, t, decls)
TermMeans(b, t, decls) ==
    IF t.args = 0 THEN AtomMeans(b, t.at, decls)
    ELSE Formatted(AtomMeans(b, Arg(t, 1), decls), [k \in 1 .. t.args - 1 |-> AtomMeans(b, Arg(t, k + 1), decls)])

(* A sum that starts at i and ends in front of a token that is no "+". *)
IsSum(b, s, i, decls) ==
    /\ s # <<>> /\ s[1].at = i /\ ~Is(b, SumEnd(s), {"+"})
    /\ \A k \in DOMAIN s :
         /\ IsTerm(b, s[k], decls)
         /\ k < Len(s) => Is(b, TermEnd(s[k]), {"+"}) /\ s[k + 1].at = TermEnd(s[k]) + 1
SumMeans(b, s, decls) == FlattenSeq([k \in DOMAIN s |-> TermMeans(b, s[k], decls)])
-----------------------------------------------------------------------------
(* What is wanted: nil, a name, or a list of words, none of them empty, with*)
(* a comma behind the last or without.                                     *)
ItemStart(sums, from, n) == IF n = 1 THEN from ELSE SumEnd(sums[n - 1]) + 1
AreItems(b, sums, from, end, decls) ==
    /\ \A n \in DOMAIN sums :
         /\ IsSum(b, sums[n], ItemStart(sums, from, n), decls) /\ SumMeans(b, sums[n], decls) # <<>>
         /\ Is(b, SumEnd(sums[n]), {","}) \/ (n = Len(sums) /\ SumEnd(sums[n]) = end)
    /\ end \in {ItemStart(sums, from, Len(sums) + 1) - 1, ItemStart(sums, from, Len(sums) + 1)}
ItemsMean(b, sums, decls) == [n \in DOMAIN sums |-> SumMeans(b, sums[n], decls)]

IsList(b, f, decls) ==
    /\ Is(b, f.at + 2, {"id"}) /\ b[f.at + 2].v # "nil" /\ Declared(decls, b[f.at + 2].v) = {}
    /\ Is(b, f.at + 3, {"{"}) /\ Is(b, f.to - 1, {"}"})
    /\ \A i \in f.at + 4 .. f.to - 2 : b[i].k \notin {"{", "}"}
    /\ AreItems(b, f.sums, f.at + 4, f.to - 1, decls)
IsNil(b, f) == IsName(b, f.at + 2, "nil") /\ f.to = f.at + 3
IsNamed(b, f, decls) ==
    /\ Is(b, f.at + 2, {"id"}) /\ b[f.at + 2].v # "nil" /\ Known(decls, b[f.at + 2].v) /\ f.to = f.at + 3
WantMeans(b, f, decls) ==
    IF IsNil(b, f) THEN <<>>
    ELSE IF IsNamed(b, f, decls) THEN <<ValueOf(decls, b[f.at + 2].v)>>
    ELSE ItemsMean(b, f.sums, decls)

(* Any other value: braces that match, and no comma outside of them. *)
IsOther(b, from, to) ==
    /\ from <= to /\ Depth(b, from, to - 1) = 0
    /\ \A j \in from .. to - 1 : Depth(b, from, j) >= 0 /\ (b[j].k = "," => Depth(b, from, j) > 0)
-----------------------------------------------------------------------------
FieldName(b, f) == b[f.at].v
IsField(b, f, decls) ==
    /\ Is(b, f.at, {"id"}) /\ ~b[f.at].ws /\ Is(b, f.at + 1, {":"})
    /\ CASE FieldName(b, f) \in {"name", "input"} ->
             Len(f.sums) = 1 /\ IsSum(b, f.sums[1], f.at + 2, decls) /\ f.to = SumEnd(f.sums[1])
         [] FieldName(b, f) = "want" -> IsNil(b, f) \/ IsNamed(b, f, decls) \/ IsList(b, f, decls)
         [] OTHER -> IsOther(b, f.at + 2, f.to)

(* An entry whose names and calls the reader can know: fields in any order, *)
(* each once, with a comma behind the last or without.                     *)
FieldStart(fields, n) == IF n = 1 THEN 1 ELSE fields[n - 1].to + 1
IsEntry(b, fields, decls) ==
    /\ \A n \in DOMAIN fields :
         /\ IsField(b, fields[n], decls) /\ fields[n].at = FieldStart(fields, n)
         /\ Is(b, fields[n].to, {","}) \/ (n = Len(fields) /\ fields[n].to = Len(b) + 1)
         /\ \A m \in DOMAIN fields : m # n => FieldName(b, fields[m]) # FieldName(b, fields[n])
    /\ Len(b) \in {FieldStart(fields, Len(fields) + 1) - 2, FieldStart(fields, Len(fields) + 1) - 1}

EntryMeans(b, fields, decls) ==
    LET named(name) == {n \in DOMAIN fields : FieldName(b, fields[n]) = name}
        Field(name) == fields[CHOOSE n \in named(name) : TRUE]
        Text(name) == IF named(name) = {} THEN <<>> ELSE SumMeans(b, Field(name).sums[1], decls)
    IN  [name |-> Text("name"), input |-> Text("input"),
         want |-> IF named("want") = {} THEN <<>> ELSE WantMeans(b, Field("want"), decls),
         have_want |-> named("want") # {}]
=============================================================================
