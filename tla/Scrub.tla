------------------------------- MODULE Scrub -------------------------------
(***************************************************************************)
(* scrump processes on one directory: `scan` and `scrub` of the CLI        *)
(* (crates/scrump-cli/src/main.rs) down to the system calls of             *)
(* write_atomic (crates/scrump-core/src/lib.rs).  Every process runs one   *)
(* command.  A step of a process is one call that touches the file system, *)
(* or all the work it does in memory between two such calls.  Any call may *)
(* fail, any process may be killed between two steps, the machine may lose *)
(* power, and whoever produces the captures may replace one at any time.   *)
(*                                                                         *)
(* What the formats and the rules do with a file's bytes is a parameter:   *)
(* Claims says whether a handler's detect function accepts a file, HitAt   *)
(* at which blocks the engine reports a hit in the handler's chunks.       *)
(***************************************************************************)
EXTENDS FileSystem, FiniteSets

CONSTANTS
    Procs,          \* the scrump processes
    Commands,       \* the command lines users may give
    NoCommand,
    NoOut,          \* a scrub without -o
    Formats,        \* the registered handlers
    Fallback,       \* the handler of what no other one claims
    NoFormat,       \* no handler: not chosen yet, or no --format given
    Claims(_, _),   \* handler, content: does the handler detect its format?
    HitAt(_, _, _), \* handler, content, position: is this block redacted?
    Captures,       \* what producers may store in a file
    Seat,           \* where a file that exists at the start is stored
    MaxUpdates,     \* bound: how often producers replace a file
    Serialize       \* TRUE: no two scrubs with the same destination at a time

(* A command line: operation, input file, the argument of -o, --backup,     *)
(* and the handler --format forces.                                        *)
ASSUME ScrubAssumption ==
    /\ Captures \subseteq Content
    /\ Seat \in [Files -> Inodes]
    /\ \A f, g \in Files : Seat[f] = Seat[g] => f = g
    /\ MaxUpdates \in Nat
    /\ Serialize \in BOOLEAN
    /\ NoCommand \notin Commands /\ NoOut \notin Files
    /\ Fallback \in Formats /\ NoFormat \notin Formats
    /\ \A c \in Commands : /\ c.op \in {"scan", "scrub"}
                           /\ c.path \in Files
                           /\ c.out \in Files \cup {NoOut}
                           /\ c.backup \in BOOLEAN
                           /\ c.format \in Formats \cup {NoFormat}

VARIABLES
    pc,         \* where a process is
    cmd,        \* its command line
    fmt,        \* the handler it uses
    bytes,      \* the file's content in its memory
    hits,       \* the positions it is to redact
    fd,         \* the file it has open for writing, or is about to rename
    src,        \* the file fs::copy reads
    pos,        \* how many blocks it has written to fd
    whole,      \* history: every content that was ever stored as a whole
    outputs,    \* history: every content some scrub computed
    updates     \* how often producers replaced a file

procVars    == <<pc, cmd, fmt, bytes, hits, fd, src, pos>>
historyVars == <<whole, outputs, updates>>
vars        == <<fsVars, procVars, historyVars>>

Running == {"head", "open", "scan", "copy", "copying", "apply",
            "tmp", "write", "rename"}
Stopped == {"done", "failed", "killed"}

TypeOK ==
    /\ FsTypeOK
    /\ pc    \in [Procs -> {"idle"} \cup Running \cup Stopped]
    /\ cmd   \in [Procs -> Commands \cup {NoCommand}]
    /\ \A p \in Procs : pc[p] # "idle" => cmd[p] \in Commands
    /\ fmt   \in [Procs -> Formats \cup {NoFormat}]
    /\ bytes \in [Procs -> Content]
    /\ hits  \in [Procs -> SUBSET Nat]
    /\ fd    \in [Procs -> Inodes \cup {NoInode}]
    /\ src   \in [Procs -> Inodes \cup {NoInode}]
    /\ pos   \in [Procs -> Nat]
    /\ \A p \in Procs : /\ pc[p] \in {"copying", "write", "rename"} => fd[p] \in Inodes
                        /\ pc[p] = "copying" => src[p] \in Inodes
    /\ whole   \subseteq Content
    /\ outputs \subseteq Content
    /\ updates \in 0 .. MaxUpdates

(* Inodes some process holds open. *)
InUse == {fd[p] : p \in Procs} \cup {src[p] : p \in Procs}

Input(p)  == User(cmd[p].path)
Dest(c)   == IF c.out = NoOut THEN c.path ELSE c.out
Output(p) == Dest(cmd[p])

-----------------------------------------------------------------------------
(* Every file exists, whole and durable, or does not exist yet. *)
Init ==
    /\ \E stored \in [Files -> Captures \cup {Absent}] :
        /\ dir = [n \in Names |-> IF n[2] = "" /\ stored[n[1]] # Absent
                                   THEN Seat[n[1]] ELSE NoInode]
        /\ data = [i \in Inodes |->
                     IF \E f \in Files : Seat[f] = i /\ stored[f] # Absent
                       THEN stored[CHOOSE f \in Files : Seat[f] = i]
                       ELSE << >>]
        /\ whole = {stored[f] : f \in Files} \ {Absent}
    /\ ddata = data
    /\ ddir = dir
    /\ pc    = [p \in Procs |-> "idle"]
    /\ cmd   = [p \in Procs |-> NoCommand]
    /\ fmt   = [p \in Procs |-> NoFormat]
    /\ bytes = [p \in Procs |-> << >>]
    /\ hits  = [p \in Procs |-> {}]
    /\ fd    = [p \in Procs |-> NoInode]
    /\ src   = [p \in Procs |-> NoInode]
    /\ pos   = [p \in Procs |-> 0]
    /\ outputs = {}
    /\ updates = 0

Step(p, from, to) == pc[p] = from /\ pc' = [pc EXCEPT ![p] = to]

(* Dispatcher::find.  Which of several claimants comes first is decided by  *)
(* the order of registration and belongs to the dispatcher's own model.    *)
find(c) == IF \E f \in Formats \ {Fallback} : Claims(f, c)
             THEN CHOOSE f \in Formats \ {Fallback} : Claims(f, c)
             ELSE Fallback

Hits(f, c) == {i \in DOMAIN c : HitAt(f, c, i)}

(* Faulty variants, the first redacting only one hit, the second all that   *)
(* precedes a hit as well.                                                 *)
RedactFirst(c, h) == [i \in DOMAIN c |-> IF i \in h /\ \A j \in h : i <= j THEN Zero ELSE c[i]]
RedactPrefix(c, h) == [i \in DOMAIN c |-> IF \E j \in h : i <= j THEN Zero ELSE c[i]]

Redact(c, h) == [i \in DOMAIN c |-> IF i \in h THEN Zero ELSE c[i]]

-----------------------------------------------------------------------------
(* The user starts a command.  Serialize is the discipline of a careful     *)
(* user: one scrub at a time per destination.                              *)
Writes(p) == pc[p] \in Running /\ cmd[p].op = "scrub"

Start(p, c) ==
    /\ Serialize /\ c.op = "scrub" =>
           \A q \in Procs : Writes(q) => Output(q) # Dest(c)
    /\ Step(p, "idle", IF c.format = NoFormat THEN "head" ELSE "open")
    /\ cmd' = [cmd EXCEPT ![p] = c]
    /\ fmt' = [fmt EXCEPT ![p] = c.format]
    /\ UNCHANGED <<fsVars, bytes, hits, fd, src, pos, historyVars>>

(* read_head and Dispatcher::find: the first of two opens of the same path. *)
ReadHead(p) ==
    /\ Step(p, "head", "open")
    /\ dir[Input(p)] # NoInode
    /\ fmt' = [fmt EXCEPT ![p] = find(Visible(Input(p)))]
    /\ UNCHANGED <<fsVars, cmd, bytes, hits, fd, src, pos, historyVars>>

(* The handler opens the path again and reads the whole file. *)
OpenPath(p) ==
    /\ Step(p, "open", "scan")
    /\ dir[Input(p)] # NoInode
    /\ bytes' = [bytes EXCEPT ![p] = Visible(Input(p))]
    /\ UNCHANGED <<fsVars, cmd, fmt, hits, fd, src, pos, historyVars>>

(* Faulty variant: copies without having opened the backup. *)
CopyUnopened(p, h) ==
    IF cmd[p].op = "scan" \/ h = {} THEN "done"
    ELSE IF cmd[p].backup /\ cmd[p].out = NoOut THEN "copying" ELSE "apply"

(* All hits of all chunks.  A scan, and a scrub without hits, ends here     *)
(* without having written anything, even when -o names an output.          *)
AfterScan(p, h) ==
    IF cmd[p].op = "scan" \/ h = {} THEN "done"
    ELSE IF cmd[p].backup /\ cmd[p].out = NoOut THEN "copy" ELSE "apply"

ScanChunks(p) ==
    LET h == Hits(fmt[p], bytes[p]) IN
    /\ Step(p, "scan", AfterScan(p, h))
    /\ hits' = [hits EXCEPT ![p] = h]
    /\ UNCHANGED <<fsVars, cmd, fmt, bytes, fd, src, pos, historyVars>>

(* fs::copy(path, path.orig): opens the input a third time and truncates    *)
(* the backup, then copies block by block.                                 *)
CopyOpen(p) ==
    /\ Step(p, "copy", "copying")
    /\ dir[Input(p)] # NoInode
    /\ OpenTruncate(backup_path(cmd[p].path), InUse)
    /\ fd'  = [fd EXCEPT ![p] = Target(backup_path(cmd[p].path), InUse)]
    /\ src' = [src EXCEPT ![p] = dir[Input(p)]]
    /\ pos' = [pos EXCEPT ![p] = 0]
    /\ UNCHANGED <<cmd, fmt, bytes, hits, historyVars>>

CopyBlock(p) ==
    /\ Step(p, "copying", "copying")
    /\ pos[p] < Len(data[src[p]])
    /\ WriteBlock(fd[p], pos[p] + 1, data[src[p]][pos[p] + 1])
    /\ pos' = [pos EXCEPT ![p] = @ + 1]
    /\ UNCHANGED <<cmd, fmt, bytes, hits, fd, src, historyVars>>

(* Faulty variant: a copy that ended early counts as complete. *)
CopyCutShort(p) ==
    /\ Step(p, "copying", "apply")
    /\ fd'  = [fd EXCEPT ![p] = NoInode]
    /\ src' = [src EXCEPT ![p] = NoInode]
    /\ UNCHANGED <<fsVars, cmd, fmt, bytes, hits, pos, historyVars>>

CopyClose(p) ==
    /\ Step(p, "copying", "apply")
    /\ pos[p] >= Len(data[src[p]])
    /\ fd'  = [fd EXCEPT ![p] = NoInode]
    /\ src' = [src EXCEPT ![p] = NoInode]
    /\ UNCHANGED <<fsVars, cmd, fmt, bytes, hits, pos, historyVars>>

(* Faulty variant: serializes what was read. *)
ApplyNothing(p) ==
    /\ Step(p, "apply", "tmp")
    /\ outputs' = outputs \cup {bytes[p]}
    /\ UNCHANGED <<fsVars, cmd, fmt, bytes, hits, fd, src, pos, whole, updates>>

(* Format::apply and to_bytes, in memory. *)
Apply(p) ==
    LET b == Redact(bytes[p], hits[p]) IN
    /\ Step(p, "apply", "tmp")
    /\ bytes' = [bytes EXCEPT ![p] = b]
    /\ outputs' = outputs \cup {b}
    /\ UNCHANGED <<fsVars, cmd, fmt, hits, fd, src, pos, whole, updates>>

(* write_atomic: create or truncate the temporary sibling ... *)
OpenTmp(p) ==
    /\ Step(p, "tmp", "write")
    /\ OpenTruncate(tmp_sibling(Output(p)), InUse)
    /\ fd'  = [fd EXCEPT ![p] = Target(tmp_sibling(Output(p)), InUse)]
    /\ pos' = [pos EXCEPT ![p] = 0]
    /\ UNCHANGED <<cmd, fmt, bytes, hits, src, historyVars>>

(* Faulty variant: writes the same block for ever. *)
WriteAgain(p) ==
    /\ Step(p, "write", "write")
    /\ pos[p] < Len(bytes[p])
    /\ WriteBlock(fd[p], pos[p] + 1, bytes[p][pos[p] + 1])
    /\ UNCHANGED procVars
    /\ UNCHANGED historyVars

(* ... write_all ... *)
WriteTmp(p) ==
    /\ Step(p, "write", "write")
    /\ pos[p] < Len(bytes[p])
    /\ WriteBlock(fd[p], pos[p] + 1, bytes[p][pos[p] + 1])
    /\ pos' = [pos EXCEPT ![p] = @ + 1]
    /\ UNCHANGED <<cmd, fmt, bytes, hits, fd, src, historyVars>>

(* Faulty variants: a short write counts as complete; closes without fsync. *)
SyncEarly(p) ==
    /\ Step(p, "write", "rename")
    /\ SyncData(fd[p])
    /\ UNCHANGED <<cmd, fmt, bytes, hits, fd, src, pos, historyVars>>

CloseUnsynced(p) ==
    /\ Step(p, "write", "rename")
    /\ pos[p] >= Len(bytes[p])
    /\ UNCHANGED <<fsVars, cmd, fmt, bytes, hits, fd, src, pos, historyVars>>

(* ... sync_all, and the file is closed ... *)
SyncTmp(p) ==
    /\ Step(p, "write", "rename")
    /\ pos[p] >= Len(bytes[p])
    /\ SyncData(fd[p])
    /\ UNCHANGED <<cmd, fmt, bytes, hits, fd, src, pos, historyVars>>

(* ... and rename over the destination.  fd keeps the inode's identity for  *)
(* the properties; the code has closed it.                                 *)
RenameTmp(p) ==
    /\ Step(p, "rename", "done")
    /\ Rename(tmp_sibling(Output(p)), User(Output(p)))
    /\ fd' = [fd EXCEPT ![p] = NoInode]
    /\ whole' = whole \cup {bytes[p]}
    /\ UNCHANGED <<cmd, fmt, bytes, hits, src, pos, outputs, updates>>

(* A call returns an error, and the command ends with what it has done so   *)
(* far.  Fail is the error that may happen, Refused the one that must: the  *)
(* input does not exist, no file can be created, or there is no temporary   *)
(* file to rename.                                                         *)
EndWith(p, how) ==
    /\ pc'  = [pc EXCEPT ![p] = how]
    /\ fd'  = [fd EXCEPT ![p] = NoInode]
    /\ src' = [src EXCEPT ![p] = NoInode]
    /\ UNCHANGED <<fsVars, cmd, fmt, bytes, hits, pos, historyVars>>

Fail(p) == pc[p] \in Running \ {"scan"} /\ EndWith(p, "failed")

Refused(p) ==
    /\ \/ pc[p] \in {"head", "open", "copy"} /\ dir[Input(p)] = NoInode
       \/ pc[p] = "copy"   /\ ~CanOpen(backup_path(cmd[p].path), InUse)
       \/ pc[p] = "tmp"    /\ ~CanOpen(tmp_sibling(Output(p)), InUse)
       \/ pc[p] = "rename" /\ dir[tmp_sibling(Output(p))] = NoInode
    /\ EndWith(p, "failed")
-----------------------------------------------------------------------------
(* The environment. *)
Kill(p) == pc[p] \in Running /\ EndWith(p, "killed")

PowerLoss ==
    /\ LosePower
    /\ pc'  = [p \in Procs |-> IF pc[p] \in Running THEN "killed" ELSE pc[p]]
    /\ fd'  = [p \in Procs |-> NoInode]
    /\ src' = [p \in Procs |-> NoInode]
    /\ UNCHANGED <<cmd, fmt, bytes, hits, pos, historyVars>>

Update(f, c) ==
    /\ updates < MaxUpdates
    /\ Produce(f, c, InUse)
    /\ updates' = updates + 1
    /\ whole' = whole \cup {c}
    /\ UNCHANGED <<procVars, outputs>>

WriteBack(i) ==
    /\ ddata[i] # data[i]
    /\ SyncData(i)
    /\ UNCHANGED <<procVars, historyVars>>

CommitDirectory == SyncDirectory /\ UNCHANGED <<procVars, historyVars>>

Progress(p) ==
    \/ ReadHead(p) \/ OpenPath(p) \/ ScanChunks(p)
    \/ CopyOpen(p) \/ CopyBlock(p) \/ CopyClose(p)
    \/ Apply(p)
    \/ OpenTmp(p) \/ WriteTmp(p) \/ SyncTmp(p) \/ RenameTmp(p)
    \/ Refused(p)

Run == \E p \in Procs :
    (\E c \in Commands : Start(p, c)) \/ Progress(p) \/ Fail(p) \/ Kill(p)

Kernel == CommitDirectory \/ \E i \in Inodes : WriteBack(i)

(* Without a power loss nothing observes what the kernel has made durable.  *)
CalmNext == Run \/ \E f \in Files, c \in Captures : Update(f, c)
Next == CalmNext \/ Kernel \/ PowerLoss

Spec == Init /\ [][Next]_vars
CalmSpec == Init /\ [][CalmNext]_vars

(* A producer that waits: it replaces no file between a command's first read*)
(* of it and the command's end.  Nothing in the code makes producers wait. *)
Waits ==
    updates' # updates =>
        \A p \in Procs : pc[p] \in Running \ {"head"} => dir'[Input(p)] = dir[Input(p)]
PatientSpec == Init /\ [][CalmNext /\ Waits]_vars

(* The scheduler runs every process, and every system call returns; that a  *)
(* call fails spontaneously is not something a process can wait for.       *)
Fairness == \A p \in Procs : WF_vars(Progress(p))
FairSpec == PatientSpec /\ Fairness
-----------------------------------------------------------------------------
(* Atomicity, write_atomic's own comment ("atomically"): at every moment a  *)
(* reader of a user's file gets a content that was stored or computed as a  *)
(* whole; never an empty or half-written file, never a mixture of two.     *)
WholeFiles == \A f \in Files : Visible(User(f)) \in whole \cup {Absent}

(* Crash safety, the reason for sync_all before rename: the same holds for  *)
(* what a power loss at this moment would leave.                           *)
CrashSafe == \A f \in Files : Durable(User(f)) \in whole \cup {Absent}

(* A temporary sibling left behind by a failed, killed or crashed scrub is  *)
(* a beginning of one redacted output: it holds no secret that had been    *)
(* found, and nothing of an earlier left-over survives the truncation.     *)
BeginningOfOutput(c) == \E o \in outputs : Len(c) <= Len(o) /\ c = SubSeq(o, 1, Len(c))
TmpHoldsOnlyOutput ==
    \A f \in Files : \A c \in {Visible(tmp_sibling(f)), Durable(tmp_sibling(f))} :
        c # Absent => BeginningOfOutput(c)

(* A file changes only by a producer or by a rename that publishes the      *)
(* complete buffer of a scrub with this destination, zero at every hit: an  *)
(* error, a kill, a scan or another file's scrub leaves it alone.          *)
PublishesRedaction ==
    [][\A f \in Files : Visible(User(f))' # Visible(User(f)) /\ updates' = updates =>
          \E p \in Procs : /\ pc[p] = "rename" /\ pc'[p] = "done"
                           /\ Output(p) = f
                           /\ Visible(User(f))' = bytes[p]
                           /\ \A i \in hits[p] : bytes[p][i] = Zero]_vars

(* --backup: at the moment the input is replaced, what is replaced is in    *)
(* *.orig, complete.  The code reads the input again for the copy, after   *)
(* it has read and scanned it.                                             *)
OriginalKept ==
    [][\A p \in Procs :
          /\ pc[p] = "rename" /\ pc'[p] = "done"
          /\ cmd[p].backup /\ cmd[p].out = NoOut
          => Visible(backup_path(cmd[p].path)) = Visible(Input(p))]_vars

(* The handler that redacts a file is the one that claims it, although the  *)
(* file is opened once for its head and once more for its content and may  *)
(* be replaced by another scrub in between: redaction keeps the format.    *)
HandlerMatches ==
    \A p \in Procs : pc[p] = "scan" /\ cmd[p].format = NoFormat => fmt[p] = find(bytes[p])

-----------------------------------------------------------------------------
(* Why WholeFiles and CrashSafe hold when scrubs are serialized, as one     *)
(* inductive invariant.                                                    *)

(* Two running scrubs never share a destination. *)
Exclusive == \A p, q \in Procs : Writes(p) /\ Writes(q) /\ Output(p) = Output(q) => p = q

WritesOnlyAsScrub ==
    \A p \in Procs : pc[p] \in {"copy", "copying", "apply", "tmp", "write", "rename"}
                       => cmd[p].op = "scrub"

(* No inode has two names, now or after a power loss, and one that is a      *)
(* user's file on disk is not a temporary file or a backup now.            *)
NoLinks ==
    \A m, n \in Names : /\ dir[m] = dir[n]  /\ dir[m]  # NoInode => m = n
                        /\ ddir[m] = ddir[n] /\ ddir[m] # NoInode => m = n
DiskApart ==
    \A f, g \in Files : ddir[User(f)] # NoInode => /\ dir[tmp_sibling(g)] # ddir[User(f)]
                                                  /\ dir[backup_path(g)] # ddir[User(f)]

(* What fs::copy writes to is nobody's file and nobody's temporary file. *)
CopyApart ==
    \A p \in Procs : pc[p] = "copying" =>
        \A f \in Files : fd[p] \notin {dir[User(f)], ddir[User(f)], dir[tmp_sibling(f)]}

(* What write_atomic writes to is the temporary sibling of its destination, *)
(* and holds what has been written: all of it, durably, before the rename. *)
TmpOwned ==
    \A p \in Procs : pc[p] \in {"write", "rename"} => fd[p] = dir[tmp_sibling(Output(p))]
TmpWritten ==
    \A p \in Procs : pc[p] = "write" =>
        /\ Len(data[fd[p]]) = pos[p] /\ pos[p] <= Len(bytes[p])
        /\ \A j \in 1 .. pos[p] : data[fd[p]][j] = bytes[p][j]
TmpSynced ==
    \A p \in Procs : pc[p] = "rename" => data[fd[p]] = bytes[p] /\ ddata[fd[p]] = bytes[p]

(* A user's file is whole and its blocks are on disk, whichever directory   *)
(* entry one follows.                                                      *)
UserSettled ==
    \A f \in Files : \A i \in {dir[User(f)], ddir[User(f)]} :
        i # NoInode => data[i] \in whole /\ ddata[i] = data[i]

SafetyInv ==
    /\ TypeOK
    /\ Exclusive /\ WritesOnlyAsScrub
    /\ NoLinks /\ DiskApart /\ CopyApart
    /\ TmpOwned /\ TmpWritten /\ TmpSynced
    /\ UserSettled

(* A scrub in place that holds a content: the file still has it, or, once it *)
(* is redacted, the file still is what the hits were found in.             *)
StillRead(p) ==
    cmd[p].op = "scrub" /\ Output(p) = cmd[p].path =>
        /\ pc[p] \in {"scan", "copy", "copying", "apply"} => bytes[p] = Visible(Input(p))
        /\ pc[p] \in {"tmp", "write", "rename"} =>
              /\ Visible(Input(p)) \in Content
              /\ hits[p] = Hits(fmt[p], Visible(Input(p)))
              /\ bytes[p] = Redact(Visible(Input(p)), hits[p])

(* The backup is being copied from the input, or is the input's content. *)
BackedUp(p) ==
    /\ pc[p] \in {"copy", "copying"} => cmd[p].out = NoOut
    /\ pc[p] = "copying" =>
          /\ fd[p] = dir[backup_path(cmd[p].path)] /\ src[p] = dir[Input(p)]
          /\ Len(data[fd[p]]) = pos[p] /\ pos[p] <= Len(data[src[p]])
          /\ \A j \in 1 .. pos[p] : data[fd[p]][j] = data[src[p]][j]
    /\ pc[p] \in {"apply", "tmp", "write", "rename"} /\ cmd[p].backup /\ cmd[p].out = NoOut
          => Visible(backup_path(cmd[p].path)) = Visible(Input(p))

(* The handler chosen from the first read is that of the file as it is now. *)
Chosen(p) ==
    cmd[p].format = NoFormat =>
        /\ pc[p] = "open" /\ dir[Input(p)] # NoInode => fmt[p] = find(Visible(Input(p)))
        /\ pc[p] \in {"scan", "copy", "copying", "apply"} => fmt[p] = find(bytes[p])
        /\ pc[p] \in {"tmp", "write", "rename"} => fmt[p] = find(Visible(Input(p)))

KeptInv == \A p \in Procs : pc[p] \in Running => StillRead(p) /\ BackedUp(p)
ChosenInv == \A p \in Procs : pc[p] \in Running => Chosen(p)
-----------------------------------------------------------------------------
(* --backup, README "also keep the original at *.orig": once the scrubbed   *)
(* content is what survives a power loss, the original survives with it.   *)
BackupDurable ==
    \A p \in Procs :
        pc[p] = "done" /\ cmd[p].backup /\ hits[p] # {} /\ Durable(User(cmd[p].path)) = bytes[p]
        => Durable(backup_path(cmd[p].path)) \in whole

(* SECURITY.md "exit 0 on a file that still contains a secret matching a     *)
(* default-ruleset rule", e2e.sh "re-scan reports zero hits": a scan of what *)
(* a successful scrub has published, if it is still there, finds nothing.  *)
RescanIsClean ==
    \A p \in Procs :
        /\ pc[p] = "done" /\ cmd[p].op = "scrub" /\ cmd[p].format = NoFormat
        /\ hits[p] # {} /\ Visible(User(Output(p))) = bytes[p]
        => Hits(find(bytes[p]), bytes[p]) = {}

(* Conditions HandlerMatches rests on: every scrub is in place, and zeros at *)
(* the hits leave what a file is recognized by.                            *)
Blank(c, h) == [i \in DOMAIN c |-> IF i \in h THEN Zero ELSE c[i]]
InPlace == \A c \in Commands : Dest(c) = c.path
KeepsFormat(contents) ==
    \A g \in Formats, c \in contents : find(Blank(c, Hits(g, c))) = find(c)

(* Every command that was started comes to an end. *)
Terminates == \A p \in Procs : pc[p] \in Running ~> pc[p] \in Stopped

(* The abstract replacement of whole files. *)
AsFile == [f \in Files |-> Visible(User(f))]
AsDisk == [f \in Files |-> Durable(User(f))]
RedactionsOf(c) == {Redact(c, Hits(g, c)) : g \in Formats}
Promise == INSTANCE Replace WITH
    file <- AsFile, disk <- AsDisk, known <- whole, Redactions <- RedactionsOf
ImplementsReplace == Promise!Spec
=============================================================================
