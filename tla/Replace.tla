------------------------------ MODULE Replace ------------------------------
(***************************************************************************)
(* What scrump promises about the files it scrubs: a file is replaced as a *)
(* whole, and only by the redaction of a content that was a file before;   *)
(* a power loss brings back one of the whole contents the file had.        *)
(***************************************************************************)
CONSTANTS Files, Absent, Captures, Redactions(_)

VARIABLES
    file,       \* file |-> what it holds
    disk,       \* file |-> what a power loss would leave
    known       \* every content that was ever stored

vars == <<file, disk, known>>

Init ==
    /\ file \in [Files -> Captures \cup {Absent}]
    /\ disk = file
    /\ known = {file[f] : f \in Files} \ {Absent}

(* A producer stores a new capture, durably. *)
Store(f, c) ==
    /\ file' = [file EXCEPT ![f] = c]
    /\ disk' = [disk EXCEPT ![f] = c]
    /\ known' = known \cup {c}

(* A scrub replaces file f by a redaction of something that was stored. *)
Scrub(f, c) ==
    /\ file' = [file EXCEPT ![f] = c]
    /\ known' = known \cup {c}
    /\ UNCHANGED disk

(* What is on disk catches up, all files of the directory together. *)
Settle == disk' = file /\ UNCHANGED <<file, known>>

PowerLoss == file' = disk /\ UNCHANGED <<disk, known>>

Next ==
    \/ \E f \in Files, c \in Captures : Store(f, c)
    \/ \E f \in Files, k \in known : \E c \in Redactions(k) : Scrub(f, c)
    \/ Settle
    \/ PowerLoss

Spec == Init /\ [][Next]_vars
=============================================================================
