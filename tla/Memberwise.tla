----------------------------- MODULE Memberwise -----------------------------
(***************************************************************************)
(* What a scrub of a container promises: it ends with every member         *)
(* cleaned as if it had been scrubbed by itself, in its place, or with     *)
(* nothing changed, because there was nothing to clean or because of an    *)
(* error.                                                                  *)
(***************************************************************************)
EXTENDS Sequences

CONSTANTS Documents,    \* the containers, sequences of members
          Cleaned(_)    \* what scrubbing one member gives

VARIABLES doc,      \* the container
          verdict   \* "pending", then "done", "clean" or "failed"

vars == <<doc, verdict>>

Init == doc \in Documents /\ verdict = "pending"

Scrub ==
    /\ verdict = "pending" /\ verdict' = "done"
    /\ doc' = [i \in DOMAIN doc |-> Cleaned(doc[i])]

(* Nothing that scrubbing by itself would have found is in any member. *)
FindNothing ==
    /\ verdict = "pending" /\ verdict' = "clean"
    /\ \A i \in DOMAIN doc : Cleaned(doc[i]).body = doc[i].body
    /\ UNCHANGED doc

Fail ==
    /\ verdict = "pending" /\ verdict' = "failed"
    /\ UNCHANGED doc

Next == Scrub \/ FindNothing \/ Fail
Spec == Init /\ [][Next]_vars
=============================================================================
