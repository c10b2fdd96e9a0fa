------------------------------ MODULE SqliteDb ------------------------------
(***************************************************************************)
(* The SQLite handler (crates/scrump-format-sqlite/src/lib.rs) in a scrub  *)
(* of one database: the database is copied to a temporary file, its text   *)
(* cells are collected into one offset space, those with hits are updated  *)
(* in one transaction, the copy is vacuumed, read back and removed.  Every *)
(* call to the file system or to SQLite may fail, and the process may be   *)
(* killed anywhere.                                                        *)
(*                                                                         *)
(* A database is a sequence of cells; the position of one stands for its   *)
(* table, column and row.                                                  *)
(***************************************************************************)
EXTENDS Integers, Sequences

CONSTANTS
    Columns,
    Scannable(_),   \* column: does its declared type say text or blob, or nothing?
    Unique(_),      \* column: does the database keep its values distinct?
    Blocks,         \* what a cell's text is made of
    Secrets,        \* the blocks a rule reports
    Zero,
    Stray,          \* hits a container hands over that are not the database's
    Databases       \* the databases given to a scrub

Hit  == [offset : Nat, len : Nat]
Cell == [col : Columns, class : {"text", "blob", "other"}, body : Seq(Blocks)]

(* A stray hit reaches across the end of a cell: no cell is as long. *)
ASSUME SqliteAssumption ==
    /\ \A c \in Columns : Scannable(c) \in BOOLEAN /\ Unique(c) \in BOOLEAN
    /\ Secrets \subseteq Blocks /\ Zero \in Blocks \ Secrets
    /\ Databases \subseteq Seq(Cell)
    /\ Stray \subseteq Hit
    /\ \A h \in Stray, d \in Databases : \A i \in DOMAIN d : h.len > Len(d[i].body)

VARIABLES
    source,     \* src_bytes, the database that was read
    pc,         \* "copy", "connect", "collect", "scan", "apply", "update", "vacuum",
                \* "close", "read", then "done", "clean", "failed" or "killed"
    tmp,        \* the temporary file: "none", "partial" or "whole"
    store,      \* the database in it
    slack,      \* old cells in its free pages
    opened,     \* history: is there a SqliteDb, which removes the file when dropped?
    cells,      \* the collected cells: at, base, len
    base,       \* the end of their offsets
    hits,       \* what is to be redacted
    updates,    \* collected cells yet to be updated
    txn,        \* the database as the open transaction sees it
    output      \* what to_bytes returned, with its free pages

dbVars == <<tmp, store, slack>>
vars == <<source, pc, dbVars, opened, cells, base, hits, updates, txn, output>>

Opening == {"copy", "connect", "collect"}
Working == {"apply", "update", "vacuum", "close", "read"}
Running == Opening \cup {"scan"} \cup Working
Ended   == {"done", "clean", "failed", "killed"}

Slot   == [at : Nat, base : Nat, len : Nat]
NoFile == [store |-> << >>, slack |-> {}]

Goto(from, to) == pc = from /\ pc' = to
-----------------------------------------------------------------------------
Init ==
    /\ source \in Databases
    /\ pc = "copy"
    /\ tmp = "none" /\ store = << >> /\ slack = {}
    /\ opened = FALSE
    /\ cells = << >> /\ base = 0
    /\ hits = {} /\ updates = {} /\ txn = << >>
    /\ output = NoFile

(* from_bytes_inner: fs::write of the copy, which may fail half-way. *)
CopySource ==
    /\ Goto("copy", "connect")
    /\ tmp' = "whole" /\ store' = source
    /\ UNCHANGED <<source, slack, opened, cells, base, hits, updates, txn, output>>

CopyFails ==
    /\ Goto("copy", "failed")
    /\ tmp' \in {"none", "partial"}
    /\ UNCHANGED <<source, store, slack, opened, cells, base, hits, updates, txn, output>>

(* Connection::open and the two pragmas. *)
Connect ==
    /\ Goto("connect", "collect")
    /\ UNCHANGED <<source, dbVars, opened, cells, base, hits, updates, txn, output>>

(* collect_text_cells takes what is text or blob now, not empty, and in a   *)
(* column whose declared type it knows, in the order SQLite returns it.    *)
Collectable(i) ==
    /\ Scannable(store[i].col)
    /\ store[i].class \in {"text", "blob"}
    /\ store[i].body # << >>

Uncollected == {i \in DOMAIN store : Collectable(i) /\ \A k \in DOMAIN cells : cells[k].at # i}

(* Faulty variant: base is not advanced. *)
CollectAtZero(i) ==
    /\ Goto("collect", "collect")
    /\ i \in Uncollected
    /\ cells' = Append(cells, [at |-> i, base |-> 0, len |-> Len(store[i].body)])
    /\ UNCHANGED <<source, dbVars, opened, base, hits, updates, txn, output>>

CollectCell(i) ==
    /\ Goto("collect", "collect")
    /\ i \in Uncollected
    /\ cells' = Append(cells, [at |-> i, base |-> base, len |-> Len(store[i].body)])
    /\ base' = base + Len(store[i].body)
    /\ UNCHANGED <<source, dbVars, opened, hits, updates, txn, output>>

Collected ==
    /\ Goto("collect", "scan")
    /\ Uncollected = {}
    /\ opened' = TRUE
    /\ UNCHANGED <<source, dbVars, cells, base, hits, updates, txn, output>>

(* SQLite returns an error while there is no SqliteDb yet: the copy stays. *)
OpenFails ==
    /\ pc \in {"connect", "collect"} /\ pc' = "failed"
    /\ UNCHANGED <<source, dbVars, opened, cells, base, hits, updates, txn, output>>

(* The scrub ends and drops the SqliteDb, which removes the copy; an open   *)
(* transaction is rolled back.  Faulty variant: no Drop.                   *)
EndKeeping(verdict) == pc' = verdict /\ UNCHANGED dbVars
EndWith(verdict) == pc' = verdict /\ tmp' = "none" /\ UNCHANGED <<store, slack>>
-----------------------------------------------------------------------------
(* chunks and the engine: every secret of every collected cell.  A container *)
(* may add hits it took for this database's.                               *)
Found(c) == {j \in DOMAIN c.body : c.body[j] \in Secrets}
HitIn(k, j) == [offset |-> cells[k].base + j - 1, len |-> 1]
HitsOf(k) == {HitIn(k, j) : j \in Found(store[cells[k].at])}
OwnHits == UNION {HitsOf(k) : k \in DOMAIN cells}

ScanChunks ==
    /\ pc = "scan"
    /\ \E given \in SUBSET Stray :
        /\ hits' = OwnHits \cup given
        /\ IF hits' = {} THEN EndWith("clean") ELSE pc' = "apply" /\ UNCHANGED dbVars
    /\ UNCHANGED <<source, opened, cells, base, updates, txn, output>>

(* apply: a hit belongs to the first cell that holds it.  Faulty variant: a  *)
(* cell that overlaps it will do.                                          *)
Overlaps(k, h) == h.offset < cells[k].base + cells[k].len /\ cells[k].base < h.offset + h.len

Holds(k, h) == h.offset >= cells[k].base /\ h.offset + h.len <= cells[k].base + cells[k].len
Owner(k, h) == Holds(k, h) /\ \A l \in 1 .. k - 1 : ~Holds(l, h)

(* With every hit placed, a transaction is opened ... *)
Begin ==
    /\ Goto("apply", "update")
    /\ \A h \in hits : \E k \in DOMAIN cells : Holds(k, h)
    /\ updates' = {k \in DOMAIN cells : \E h \in hits : Owner(k, h)}
    /\ txn' = store
    /\ UNCHANGED <<source, dbVars, opened, cells, base, hits, output>>

Misplaced ==
    /\ pc = "apply"
    /\ \E h \in hits : \A k \in DOMAIN cells : ~Holds(k, h)
    /\ EndWith("failed")
    /\ UNCHANGED <<source, opened, cells, base, hits, updates, txn, output>>

(* ... in which each cell gets its new value, a blob, in the order of the   *)
(* hash map.  Two redacted values of a column may have become equal.       *)
Covered(k, j) ==
    LET at == cells[k].base + j - 1 IN
    \E h \in hits : Owner(k, h) /\ h.offset <= at /\ at < h.offset + h.len
Redacted(c, js) ==
    [c EXCEPT !.class = "blob",
              !.body = [j \in DOMAIN c.body |-> IF j \in js THEN Zero ELSE c.body[j]]]
NewValue(k) == LET c == store[cells[k].at] IN Redacted(c, {j \in DOMAIN c.body : Covered(k, j)})

Conflict(k) ==
    /\ Unique(NewValue(k).col)
    /\ \E i \in DOMAIN txn : i # cells[k].at /\ txn[i] = NewValue(k)

(* Faulty variant: outside of the transaction. *)
UpdateInPlace(k) ==
    /\ Goto("update", "update")
    /\ k \in updates /\ ~Conflict(k)
    /\ txn' = [txn EXCEPT ![cells[k].at] = NewValue(k)]
    /\ store' = [store EXCEPT ![cells[k].at] = NewValue(k)]
    /\ updates' = updates \ {k}
    /\ UNCHANGED <<source, tmp, slack, opened, cells, base, hits, output>>

UpdateCell(k) ==
    /\ Goto("update", "update")
    /\ k \in updates /\ ~Conflict(k)
    /\ txn' = [txn EXCEPT ![cells[k].at] = NewValue(k)]
    /\ updates' = updates \ {k}
    /\ UNCHANGED <<source, dbVars, opened, cells, base, hits, output>>

Refused ==
    /\ pc = "update"
    /\ \E k \in updates : Conflict(k)
    /\ EndWith("failed")
    /\ UNCHANGED <<source, opened, cells, base, hits, updates, txn, output>>

(* The old cells stay in free pages until the VACUUM. *)
Commit ==
    /\ Goto("update", "vacuum")
    /\ updates = {}
    /\ store' = txn
    /\ slack' = slack \cup {store[i] : i \in {l \in DOMAIN store : txn[l] # store[l]}}
    /\ UNCHANGED <<source, tmp, opened, cells, base, hits, updates, txn, output>>

(* Faulty variant: closes without it. *)
NoVacuum ==
    /\ Goto("vacuum", "close")
    /\ UNCHANGED <<source, dbVars, opened, cells, base, hits, updates, txn, output>>

Vacuum ==
    /\ Goto("vacuum", "close")
    /\ slack' = {}
    /\ UNCHANGED <<source, tmp, store, opened, cells, base, hits, updates, txn, output>>

Close ==
    /\ Goto("close", "read")
    /\ UNCHANGED <<source, dbVars, opened, cells, base, hits, updates, txn, output>>

(* to_bytes reads the copy, and the scrub drops the SqliteDb. *)
ToBytes ==
    /\ pc = "read"
    /\ output' = [store |-> store, slack |-> slack]
    /\ EndWith("done")
    /\ UNCHANGED <<source, opened, cells, base, hits, updates, txn>>

(* Any call from the transaction on may fail. *)
Fails ==
    /\ pc \in Working
    /\ EndWith("failed")
    /\ UNCHANGED <<source, opened, cells, base, hits, updates, txn, output>>

Kill ==
    /\ pc \in Running /\ pc' = "killed"
    /\ UNCHANGED <<source, dbVars, opened, cells, base, hits, updates, txn, output>>

Progress ==
    \/ CopySource \/ Connect
    \/ \E i \in DOMAIN store : CollectCell(i)
    \/ Collected
    \/ ScanChunks
    \/ Begin \/ Misplaced
    \/ \E k \in DOMAIN cells : UpdateCell(k)
    \/ Refused
    \/ Commit \/ Vacuum \/ Close \/ ToBytes

Next == Progress \/ CopyFails \/ OpenFails \/ Fails \/ Kill

Spec == Init /\ [][Next]_vars
FairSpec == Spec /\ WF_vars(Progress)
-----------------------------------------------------------------------------
(* Every hit belongs to the cell it was found in, whatever the order the    *)
(* cells were collected in: the cells' offsets are disjoint.               *)
Located ==
    pc \in {"apply", "update"} =>
        \A k \in DOMAIN cells : \A j \in Found(source[cells[k].at]) :
            HitIn(k, j) \in hits /\ Owner(k, HitIn(k, j))

(* "each affected cell; commit": the copy holds the database as it was read *)
(* or with every affected cell redacted, at every moment, also when an     *)
(* update is refused, an error ends the scrub or the process is killed.    *)
Cleaned(c) ==
    IF Scannable(c.col) /\ c.class \in {"text", "blob"} /\ Found(c) # {}
      THEN Redacted(c, Found(c)) ELSE c
AllOrNothing ==
    tmp = "whole" => store = source \/ store = [i \in DOMAIN source |-> Cleaned(source[i])]

(* "VACUUM (rewriting the file so freed page-slack containing the old       *)
(* secret bytes is purged)": what is published holds no freed cell.        *)
Purged == pc = "done" => output.slack = {}

(* Every scrub ends, and the copy of the secrets is then gone, unless it ended *)
(* before there was a SqliteDb to drop, or was killed.                     *)
CopyRemoved == <>[](pc \in Ended /\ (opened /\ pc # "killed" => tmp = "none"))

(* "collect every TEXT/BLOB cell across every user table ... the secret is  *)
(* definitively gone": a scrub that succeeds or calls the database clean   *)
(* leaves no secret in a text or blob cell.                                *)
Result == IF pc = "done" THEN output.store ELSE source
NothingLeft ==
    pc \in {"done", "clean"} =>
        \A i \in DOMAIN Result : Result[i].class \in {"text", "blob"} => Found(Result[i]) = {}

(* The whole is what redacting each cell by itself gives, or an error. *)
Promise == INSTANCE Memberwise WITH
    Documents <- Databases,
    doc       <- Result,
    verdict   <- IF pc \in Running THEN "pending" ELSE IF pc = "killed" THEN "failed" ELSE pc
ImplementsCellwise == Promise!Spec
=============================================================================
