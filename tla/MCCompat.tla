------------------------------ MODULE MCCompat ------------------------------
(***************************************************************************)
(* Small instances of Compat: patterns of every shape for the quarantine,  *)
(* and Go sources written out as gofmt prints them, with their syntax trees *)
(* beside the tokens the reader sees.                                      *)
(***************************************************************************)
EXTENDS Compat

Distinct(w) == Cardinality(ToSet(w))
UpTo(n, S) == UNION {[1 .. k -> S] : k \in 0 .. n}
-----------------------------------------------------------------------------
(* Tokens, and expressions: their text, and the sums in it, whose places    *)
(* count from the first token, which is 0.                                 *)
T(k, v) == [k |-> k, v |-> v, w |-> <<>>, ws |-> FALSE]
Str(w) == [k |-> "str", v |-> "", w |-> w, ws |-> FALSE]
Blank(t) == [t EXCEPT !.ws = TRUE]
Id(n) == T("id", n)
Mark(k) == T(k, "")
Plus == Blank(Mark("+"))
Comma == Blank(Mark(","))
At(n) == [at |-> n, args |-> 0]
Written(text, sums) == [text |-> text, sums |-> sums]
Expr(text, sum) == Written(text, <<sum>>)
Lit(w) == Expr(<<Str(w)>>, <<At(0)>>)

(* v is one literal, two the sum of two literals, which the reader cuts.    *)
S == <<"s", "t">>
Decls == <<[name |-> "v", rhs |-> <<Str(S)>>],
           [name |-> "two", rhs |-> <<Blank(Str(<<"k">>)), Plus, Str(S)>>]>>
-----------------------------------------------------------------------------
(* Entries: an input, what is wanted (nothing said, nil, or a list), and    *)
(* the order of the fields.                                                *)
Inputs ==
    <<Lit(<<"k", "s", "t">>), Lit(<<"z">>), Expr(<<Blank(Str(<<"k">>)), Plus, Id("v")>>, <<At(0), At(2)>>),
      Expr(<<Blank(Str(<<"k", "z">>)), Plus, Str(S)>>, <<At(0), At(2)>>),
      Expr(<<Id("fmt.Sprintf"), Mark("("), Str(<<"k", "%">>), Comma, Id("v"), Mark(")")>>, <<[at |-> 0, args |-> 2]>>),
      Expr(<<Id("two")>>, <<At(0)>>), Expr(<<Id("helper"), Mark("("), Str(S), Mark(")")>>, <<[at |-> 0, args |-> 1]>>),
      Expr(<<Id("helper"), Mark("("), Str(S), Comma, Id("v"), Mark(")")>>, <<[at |-> 0, args |-> 2]>>),
      Expr(<<Blank(Str(<<"k", "s", "t">>)), Plus, Id("helper"), Mark("("), Mark(")")>>, <<At(0), At(2)>>),
      Expr(<<Id("Sprintf"), Mark("("), Str(<<"%", "%">>), Comma, Id("unknown"), Comma, Str(S), Mark(")")>>, <<[at |-> 0, args |-> 3]>>)>>
List(items) == <<Id("[]string"), Mark("{")>> \o items \o <<Mark("}")>>
Silent == Written(<<>>, <<>>)
Nil == Written(<<Id("nil")>>, <<>>)
OneWord(w) == Written(List(<<Str(w)>>), <<<<At(2)>>>>)
Wanted ==
    <<Silent, Nil, Written(<<Id("v")>>, <<>>), OneWord(S), Written(List(<<Str(S), Comma, Str(<<"z">>), Comma>>), <<<<At(2)>>, <<At(4)>>>>),
      Written(List(<<Blank(Str(<<"s">>)), Plus, Str(<<"t">>)>>), <<<<At(2), At(4)>>>>),
      Written(List(<<Id("helper"), Mark("("), Mark(")"), Comma, Id("v")>>), <<<<At(2)>>, <<At(6)>>>>)>>
Shapes == <<"name first", "want first", "args between">>

Args == Written(<<Id("args"), Mark("{"), Id("a"), Comma, Id("b"), Mark("}")>>, <<>>)
Field(name, value) == <<[name |-> name, text |-> value.text, sums |-> value.sums]>>
Put(entry, field) ==
    LET at == Len(entry.text) + 1
        Moved(t) == [t EXCEPT !.at = @ + at + 2]
        Sums == [n \in DOMAIN field.sums |-> [k \in DOMAIN field.sums[n] |-> Moved(field.sums[n][k])]]
    IN  [text |-> entry.text \o <<Id(field.name), Blank(Mark(":"))>> \o field.text \o <<Comma>>,
         tree |-> Append(entry.tree, [at |-> at, to |-> at + 2 + Len(field.text), sums |-> Sums])]
Entry(in, w, shape) ==
    LET input == Field("input", in)
        want == IF w = Silent THEN <<>> ELSE Field("want", w)
    IN  FoldLeft(Put, [text |-> <<>>, tree |-> <<>>],
                 CASE shape = "name first" -> Field("name", Lit(<<"n">>)) \o input \o want
                   [] shape = "want first" -> want \o input
                   [] shape = "args between" -> input \o Field("args", Args) \o want)
Table(table, es) ==
    [table |-> table, decls |-> Decls, entries |-> [i \in DOMAIN es |-> es[i].text], trees |-> [i \in DOMAIN es |-> es[i].tree]]
File(p, kind, n) == [provider |-> p, kind |-> kind, source |-> n]
-----------------------------------------------------------------------------
(* Rules: acme is noisy by the list, beta has never been; jwt rules come    *)
(* from both files.  One rule of shop reports what stands in front of the  *)
(* rest of its secret, as shopify__keypat does, and one of flow tokens that *)
(* an HMAC key has signed, as caflou__keypat does; old is a rule that only  *)
(* the map still has.                                                      *)
Jwt(h) == <<h, ".", "p">>
Rule(id, pattern, keyword, values) ==
    [id |-> id, pattern |-> pattern, compiles |-> TRUE, keyword |-> keyword, gap |-> 1,
     values |-> [i \in DOMAIN values |-> [group |-> values[i], after |-> <<>>]],
     capture |-> 1, min_entropy |-> 0, post |-> "none"]
Bare == <<"esc", "[", "a", "a", "]", "{", "a", "}">>
Th(pattern) ==
    {Rule(<<"acme", "keypat">>, Bare, <<>>, <<S>>), Rule(<<"acme", "idpat">>, pattern, <<"k">>, <<S>>),
      Rule(<<"acme", "dual">>, Bare, <<"k">>, <<S>>),
      Rule(<<"beta", "keypat">>, pattern, <<"k">>, <<<<"s", "s">>, S>>),
      [Rule(<<"beta", "nogroup">>, Bare, <<"k">>, <<S>>) EXCEPT !.capture = 2],
      [Rule(<<"beta", "floor">>, Bare, <<>>, <<<<"z">>, <<"s", "t">>>>) EXCEPT !.min_entropy = 2],
      Rule(<<"jwt", "keypat">>, Bare, <<>>, <<S>>),
      [Rule(<<"shop", "keypat">>, pattern, <<"k">>, <<>>) EXCEPT !.values = <<[group |-> <<"s">>, after |-> <<"t">>]>>],
      Rule(<<"flow", "keypat">>, Bare, <<>>, <<Jwt("hs")>>)}
GhToken == [Rule(<<"gh_token">>, <<>>, <<>>, <<<<"g", "s", "t">>>>) EXCEPT !.gap = 0, !.capture = 0]
Default == {GhToken, Rule(JwtToken, <<>>, <<>>, <<S>>)}
Map == [acme |-> {<<"acme", "keypat">>, <<"acme", "idpat">>}, beta |-> {<<"beta", "keypat">>, <<"beta", "nogroup">>, <<"beta", "floor">>},
        jwt |-> {<<"jwt", "keypat">>}, shop |-> {<<"shop", "keypat">>}, flow |-> {<<"flow", "keypat">>, <<"flow", "old">>}]
MCOrder == <<"acme", "beta", "flow", "gone", "jwt", "shop">>
MCQuarantine == {<<"acme", "keypat">>}
MCAllowlist == {<<"acme", "dual">>}
MCJwtValues == <<Jwt("hs"), Jwt("rs"), <<"rs", "=", ".", "p">>, <<"hs", "=", ".", "p">>, Jwt("raw")>>

World(th, files, floor) ==
    [vendor |-> TRUE, default |-> Default, th |-> th, map |-> Map, files |-> files, floor |-> floor]

Patterns == UpTo(4, {"a", "[", "]", "{", "}", "esc"})
            \cup {x \o <<"marker", "a", "lazy">> \o y : x \in {<<>>, <<"a", "a">>, <<"flag", "a">>}, y \in UpTo(2, {"a", ".", "[", "marker", "lazy"})}
            \cup {<<"flag">> \o y : y \in UpTo(2, {"a", "esc"})} \cup {Bare, <<"a", "marker", "a">>}
Simple == Entry(Lit(<<"k", "s", "t">>), OneWord(S), "want first")
Negative(in) == Entry(Lit(in), Nil, "want first")
JwtCases(w) == <<Negative(Jwt("hs")), Entry(Lit(Jwt("rs")), w, "want first"), Negative(Jwt("raw"))>>

MCSources ==
    <<Table(TRUE, <<Simple>>), Table(TRUE, <<Simple, Negative(<<"z">>)>>), Table(FALSE, <<Simple>>),
      Table(TRUE, <<Negative(<<"g", "s", "t">>)>>), Table(TRUE, JwtCases(Nil)),
      Table(TRUE, JwtCases(OneWord(<<"rs">>))), Table(TRUE, JwtCases(OneWord(<<"z">>)))>>
    \o [n \in 1 .. Len(Inputs) * Len(Wanted) * Len(Shapes) |->
            LET s == (n - 1) % Len(Shapes)
                w == ((n - 1) \div Len(Shapes)) % Len(Wanted)
                in == (n - 1) \div (Len(Shapes) * Len(Wanted))
            IN  Table(TRUE, <<Entry(Inputs[in + 1], Wanted[w + 1], Shapes[s + 1])>>)]

One(p, n) == <<File(p, "test", n)>>
NumberedWorlds ==
    {World(Th(p), IF Len(p) < 3 THEN One("acme", 1) ELSE <<>>, 0) : p \in Patterns}
    \cup {World(Th(Bare), One("beta", n), 0) : n \in 8 .. 217} \cup {World(Th(Bare), One("shop", n), 0) : n \in 1 .. 2}
    \cup {World(Th(<<"a", "a">>), One("beta", 2) \o One("beta", 1) \o <<File(p, k, n)>> \o One("jwt", j), floor) :
            p \in {"acme", "gone", "flow"}, k \in {"test", "integration"}, n \in {3, 4}, j \in {5, 6, 7}, floor \in {0, 1}}
    \cup {[World(Th(Bare), <<>>, 0) EXCEPT !.vendor = FALSE],
          [World(Th(Bare), <<>>, 0) EXCEPT !.default = {[GhToken EXCEPT !.compiles = FALSE]}],
          [World({[r EXCEPT !.compiles = (r.id # <<"acme", "keypat">>)] : r \in Th(Bare)}, One("acme", 1), 0) EXCEPT !.map = [acme |-> {<<"acme", "keypat">>}]]}
Sourced(worlds) ==
    {[w EXCEPT !.files = [i \in DOMAIN w.files |-> [w.files[i] EXCEPT !.source = MCSources[@]]]] : w \in worlds}
MCWorlds == Sourced(NumberedWorlds)
=============================================================================
