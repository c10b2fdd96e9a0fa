------------------------------ MODULE MCArchive ------------------------------
(***************************************************************************)
(* Small instances of Archive: up to three members of up to three blocks.  *)
(* "flat" members are text,                                                *)
(* "db" is a SQLite database whose header is in none of its cells, "wide" a *)
(* UTF-16 one whose cells take three bytes in its chunks for two in its     *)
(* file, "packed" a compressed archive within the archive, and a "broken"   *)
(* member cannot be opened.                                                *)
(***************************************************************************)
EXTENDS Archive

MCLegible(f) == f # "packed"
MCUnit(f)    == IF f = "wide" THEN 3 ELSE 1
MCStored(f)  == IF f = "wide" THEN 2 ELSE 1
MCHeader(f)  == IF f \in {"db", "wide"} THEN 1 ELSE 0
MCCelled(f)  == f \in {"db", "wide"}
MCOpens(f, c) == f # "broken"

File(f, c) == [type |-> "file", body |-> [form |-> f, blocks |-> c]]
Other(t)   == [type |-> t, body |-> Empty]

Texts == {<<>>, <<"secret">>, <<"plain", "secret">>, <<"secret", "secret">>}
Dbs   == {<<"plain", "secret">>, <<"plain", "plain", "secret">>, <<"plain">>}

Flats   == {File("flat", c) : c \in Texts}
Members == Flats \cup {File("db", c) : c \in Dbs} \cup {File("packed", <<"secret">>),
                      Other("dir"), Other("link"), File("broken", <<"plain">>)}

UpToThree(S) == {<<>>} \cup {<<e>> : e \in S} \cup {<<d, e>> : d, e \in S}
                \cup {<<d, e, f>> : d, e, f \in S}

Straddling == <<File("wide", <<"plain", "plain", "plain", "secret">>)>>
MCArchives   == UpToThree(Members) \cup {Straddling}
WideArchives ==
    {<<File("wide", <<"plain", "plain", "plain", "plain", "plain", last>>),
       File("flat", <<"plain", "plain", "plain">>), e>> : last \in Block, e \in Flats}
=============================================================================
