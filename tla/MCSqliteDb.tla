----------------------------- MODULE MCSqliteDb -----------------------------
(***************************************************************************)
(* Small instances of SqliteDb: databases of up to three cells in a text   *)
(* column, a text column with distinct values, and one whose declared type *)
(* ("JSON") is not among those the handler knows.                          *)
(***************************************************************************)
EXTENDS SqliteDb

MCScannable(c) == c # "json"
MCUnique(c)    == c = "unique"

Text(c, b) == [col |-> c, class |-> "text", body |-> b]
Blob(c, b) == [Text(c, b) EXCEPT !.class = "blob"]
Other(c)   == [Text(c, <<>>) EXCEPT !.class = "other"]

Bodies == {<<>>, <<"s1">>, <<"plain", "s2">>, <<"s1", "s2">>}
Known  == {Text("text", b) : b \in Bodies} \cup {Text("unique", <<s>>) : s \in {"s1", "s2"}}
          \cup {Blob("unique", <<"zero">>), Other("text")}

UpTo(n, S) == UNION {[1 .. k -> S] : k \in 0 .. n}
Valid(d) == \A i, j \in DOMAIN d : i # j /\ d[i].col = "unique" => d[i] # d[j]

MCDatabases   == {d \in UpTo(3, Known \cup {Text("json", <<"plain">>)}) : Valid(d)}
JsonDatabases == {d \in UpTo(3, {Text("text", <<"s1">>), Text("json", <<"s1">>), Other("text")}) : Valid(d)}
MCStray       == {[offset |-> 0, len |-> 3]}
=============================================================================
