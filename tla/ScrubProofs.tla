---------------------------- MODULE ScrubProofs ----------------------------
(***************************************************************************)
(* What is proved about Scrub for any files, inodes, processes, commands,  *)
(* formats and rules.  Its variables stay in their types, and under        *)
(* serialized scrubs no file is ever torn, not even by a power loss.       *)
(*                                                                         *)
(* Beyond whole files, Scrub implements Replace: a file is only ever       *)
(* replaced by a complete redaction of a content that was a file before,   *)
(* and a power loss brings back a whole content.  What is left behind in a *)
(* temporary file is redacted.  If producers wait for those that have      *)
(* begun to read their file, a scrub's backup is what it replaces, and the *)
(* handler is that of the content.  The first part shows that contents are *)
(* whole; the second which content a process has in memory at each stage,  *)
(* and who can change which name.                                          *)
(***************************************************************************)
EXTENDS Scrub, SequenceTheorems, TLAPS

(* The three names of a file are three names, and those of two files differ. *)
LEMMA NamesApart ==
    \A f, g \in Files :
        /\ User(f) \in Names /\ tmp_sibling(f) \in Names /\ backup_path(f) \in Names
        /\ User(f) # tmp_sibling(g) /\ User(f) # backup_path(g)
        /\ tmp_sibling(f) # backup_path(g)
        /\ User(f) = User(g) => f = g
        /\ tmp_sibling(f) = tmp_sibling(g) => f = g
        /\ backup_path(f) = backup_path(g) => f = g
  BY DEF Names, User, tmp_sibling, backup_path

(* A function on 1 .. n is a sequence of length n. *)
LEMMA FunctionIsSeq ==
    ASSUME NEW S, NEW n \in Nat, NEW w \in [1 .. n -> S]
    PROVE  w \in Seq(S) /\ Len(w) = n
  OBVIOUS

(* Writing a block behind the end of a content, or over one of its blocks,  *)
(* gives a content again and changes only that block.                      *)
LEMMA WrittenIsContent ==
    ASSUME NEW c \in Content, NEW k \in Nat \ {0}, NEW b \in Blocks
    PROVE  /\ Written(c, k, b) \in Content
           /\ Len(Written(c, k, b)) = IF k > Len(c) THEN k ELSE Len(c)
           /\ \A j \in 1 .. Len(c) : j # k => Written(c, k, b)[j] = c[j]
           /\ Written(c, k, b)[k] = b
<1> DEFINE n == IF k > Len(c) THEN k ELSE Len(c)
           w == [j \in 1 .. n |-> IF j = k THEN b ELSE IF j <= Len(c) THEN c[j] ELSE Zero]
<1>1. Len(c) \in Nat /\ \A j \in 1 .. Len(c) : c[j] \in Blocks
  BY ElementOfSeq DEF Content
<1>2. n \in Nat /\ k \in 1 .. n /\ 1 .. Len(c) \subseteq 1 .. n
  BY <1>1
<1>3. \A j \in 1 .. n : w[j] \in Blocks
  BY <1>1, <1>2, FileSystemAssumption
<1>4. w \in Seq(Blocks) /\ Len(w) = n
  <2>1. w \in [1 .. n -> Blocks]
    BY <1>3
  <2> HIDE DEF w, n
  <2> QED
    BY <1>2, <2>1, FunctionIsSeq
<1>5. \A j \in 1 .. Len(c) : j # k => w[j] = c[j]
  BY <1>1, <1>2
<1>6. w[k] = b
  BY <1>2
<1> QED
  BY <1>4, <1>5, <1>6 DEF Written, Content

(* Redaction keeps a content a content, of the same length. *)
LEMMA RedactIsContent ==
    ASSUME NEW c \in Content, NEW h
    PROVE  /\ Redact(c, h) \in Content
           /\ Len(Redact(c, h)) = Len(c)
<1>1. Len(c) \in Nat /\ DOMAIN c = 1 .. Len(c) /\ \A j \in 1 .. Len(c) : c[j] \in Blocks
  BY ElementOfSeq, LenProperties DEF Content
<1>2. Redact(c, h) = [i \in 1 .. Len(c) |-> IF i \in h THEN Zero ELSE c[i]]
  BY <1>1 DEF Redact
<1> QED
  BY <1>1, <1>2, FileSystemAssumption DEF Content

(* What opening a name for writing yields is an inode, and one that no      *)
(* other name has and no process holds if the name is new.                 *)
LEMMA TargetIsInode ==
    ASSUME FsTypeOK, NEW n \in Names, NEW used, CanOpen(n, used)
    PROVE  /\ Target(n, used) \in Inodes
           /\ dir[n] # NoInode => Target(n, used) = dir[n]
           /\ dir[n] = NoInode => Target(n, used) \in Free(used)
  BY DEF FsTypeOK, CanOpen, Target, Free

LEMMA FreeIsUnused ==
    ASSUME NEW used, NEW i \in Free(used)
    PROVE  /\ i \in Inodes /\ i \notin used
           /\ \A n \in Names : dir[n] # i /\ ddir[n] # i
  BY DEF Free
-----------------------------------------------------------------------------
(* The calls of the file system keep its variables in their types. *)
LEMMA FsTyped ==
    ASSUME FsTypeOK
    PROVE  /\ \A n \in Names : \A used : OpenTruncate(n, used) => FsTypeOK'
           /\ \A i \in Inodes, k \in Nat \ {0}, b \in Blocks : WriteBlock(i, k, b) => FsTypeOK'
           /\ \A i \in Inodes : SyncData(i) => FsTypeOK'
           /\ \A m, n \in Names : Rename(m, n) => FsTypeOK'
           /\ \A f \in Files, c \in Content : \A used : Produce(f, c, used) => FsTypeOK'
           /\ SyncDirectory \/ LosePower \/ UNCHANGED fsVars => FsTypeOK'
<1> << >> \in Content
  BY EmptySeq DEF Content
<1>1. ASSUME NEW n \in Names, NEW used, OpenTruncate(n, used) PROVE FsTypeOK'
  BY <1>1, TargetIsInode, FreeIsUnused DEF FsTypeOK, OpenTruncate, Emptied
<1>2. ASSUME NEW i \in Inodes, NEW k \in Nat \ {0}, NEW b \in Blocks, WriteBlock(i, k, b)
      PROVE  FsTypeOK'
  <2>1. Written(data[i], k, b) \in Content
    BY WrittenIsContent DEF FsTypeOK
  <2> QED
    BY <1>2, <2>1 DEF FsTypeOK, WriteBlock
<1>3. ASSUME NEW i \in Inodes, SyncData(i) PROVE FsTypeOK'
  BY <1>3 DEF FsTypeOK, SyncData
<1>4. ASSUME NEW m \in Names, NEW n \in Names, Rename(m, n) PROVE FsTypeOK'
  BY <1>4 DEF FsTypeOK, Rename
<1>5. ASSUME NEW f \in Files, NEW c \in Content, NEW used, Produce(f, c, used) PROVE FsTypeOK'
  <2>1. (CHOOSE j \in Free(used) : TRUE) \in Inodes
    BY <1>5 DEF Produce, Free
  <2> QED
    BY <1>5, <2>1, NamesApart DEF FsTypeOK, Produce
<1>6. SyncDirectory \/ LosePower \/ UNCHANGED fsVars => FsTypeOK'
  BY DEF FsTypeOK, SyncDirectory, LosePower, fsVars
<1> QED
  BY <1>1, <1>2, <1>3, <1>4, <1>5, <1>6

LEMMA InitTyped == Init => TypeOK
<1> SUFFICES ASSUME Init PROVE TypeOK
  OBVIOUS
<1> << >> \in Content
  BY EmptySeq DEF Content
<1>1. PICK stored \in [Files -> Captures \cup {Absent}] :
        /\ dir = [n \in Names |-> IF n[2] = "" /\ stored[n[1]] # Absent
                                   THEN Seat[n[1]] ELSE NoInode]
        /\ data = [i \in Inodes |->
                     IF \E f \in Files : Seat[f] = i /\ stored[f] # Absent
                       THEN stored[CHOOSE f \in Files : Seat[f] = i]
                       ELSE << >>]
        /\ whole = {stored[f] : f \in Files} \ {Absent}
  BY DEF Init
<1>2. dir \in [Names -> Inodes \cup {NoInode}]
  <2>1. ASSUME NEW n \in Names PROVE n[1] \in Files
    <3>1. PICK f \in Files : n \in {User(f), tmp_sibling(f), backup_path(f)}
      BY DEF Names
    <3>2. User(f)[1] = f /\ tmp_sibling(f)[1] = f /\ backup_path(f)[1] = f
      BY DEF User, tmp_sibling, backup_path
    <3> QED
      BY <3>1, <3>2
  <2> QED
    BY <1>1, <2>1, ScrubAssumption
<1>3. \A f \in Files : stored[f] # Absent => stored[f] \in Content
  <2>1. Captures \subseteq Content
    BY ScrubAssumption
  <2> QED
    BY <2>1
<1>4. data \in [Inodes -> Content]
  <2>1. ASSUME NEW i \in Inodes, NEW f \in Files, Seat[f] = i, stored[f] # Absent
        PROVE  stored[CHOOSE g \in Files : Seat[g] = i] \in Content
    <3>1. (CHOOSE g \in Files : Seat[g] = i) = f
      BY <2>1, ScrubAssumption
    <3> QED
      BY <1>3, <2>1, <3>1
  <2> QED
    BY <1>1, <2>1
<1>5. whole \subseteq Content
  BY <1>1, <1>3
<1>6. FsTypeOK
  BY <1>2, <1>4 DEF Init, FsTypeOK
<1>7. NoFormat \in Formats \cup {NoFormat} /\ 0 \in 0 .. MaxUpdates
  BY ScrubAssumption
<1> QED
  BY <1>5, <1>6, <1>7 DEF Init, TypeOK, Running

(* An input file that exists has a content. *)
LEMMA VisibleIsContent ==
    ASSUME FsTypeOK, NEW n \in Names, dir[n] # NoInode
    PROVE  Visible(n) \in Content /\ dir[n] \in Inodes
  BY DEF FsTypeOK, Visible

LEMMA CommandNames ==
    ASSUME TypeOK, NEW p \in Procs, pc[p] # "idle"
    PROVE  /\ cmd[p] \in Commands
           /\ cmd[p].path \in Files /\ Input(p) \in Names
           /\ Output(p) \in Files
           /\ Input(p) = User(cmd[p].path)
  BY NamesApart, ScrubAssumption DEF TypeOK, Input, Output, Dest
(* Every step of the system keeps every variable in its type. *)
LEMMA StepTyped == TypeOK /\ [Next]_vars => TypeOK'
<1> SUFFICES ASSUME TypeOK, [Next]_vars PROVE TypeOK'
  OBVIOUS
<1> USE DEF Running, Stopped
<1>a. FsTypeOK
  BY DEF TypeOK
<1>1. ASSUME NEW p \in Procs, NEW c \in Commands, Start(p, c) PROVE TypeOK'
  <2>1. FsTypeOK' /\ c.format \in Formats \cup {NoFormat}
    BY <1>1, <1>a, FsTyped, ScrubAssumption DEF Start
  <2> QED
    BY <1>1, <2>1 DEF TypeOK, Start, Step, historyVars
<1>2. ASSUME NEW p \in Procs, ReadHead(p) PROVE TypeOK'
  <2>1. FsTypeOK' /\ find(Visible(Input(p))) \in Formats
    BY <1>2, <1>a, FsTyped, ScrubAssumption DEF ReadHead, find
  <2> QED
    BY <1>2, <2>1 DEF TypeOK, ReadHead, Step, historyVars
<1>3. ASSUME NEW p \in Procs, OpenPath(p) PROVE TypeOK'
  <2>1. FsTypeOK' /\ Visible(Input(p)) \in Content
    BY <1>3, <1>a, FsTyped, CommandNames, VisibleIsContent DEF OpenPath, Step
  <2> QED
    BY <1>3, <2>1 DEF TypeOK, OpenPath, Step, historyVars
<1>4. ASSUME NEW p \in Procs, ScanChunks(p) PROVE TypeOK'
  <2>1. FsTypeOK'
    BY <1>4, <1>a, FsTyped DEF ScanChunks
  <2>2. Hits(fmt[p], bytes[p]) \in SUBSET Nat
    <3>1. DOMAIN bytes[p] = 1 .. Len(bytes[p]) /\ Len(bytes[p]) \in Nat
      BY LenProperties DEF TypeOK, Content
    <3> QED
      BY <3>1 DEF Hits
  <2>3. AfterScan(p, Hits(fmt[p], bytes[p])) \in {"done", "copy", "apply"}
    BY DEF AfterScan
  <2> QED
    BY <1>4, <2>1, <2>2, <2>3 DEF TypeOK, ScanChunks, Step, historyVars
<1>5. ASSUME NEW p \in Procs, CopyOpen(p) PROVE TypeOK'
  <2>1. /\ backup_path(cmd[p].path) \in Names
        /\ dir[Input(p)] \in Inodes
        /\ OpenTruncate(backup_path(cmd[p].path), InUse)
    BY <1>5, <1>a, CommandNames, VisibleIsContent, NamesApart DEF CopyOpen, Step
  <2>2. Target(backup_path(cmd[p].path), InUse) \in Inodes
    BY <2>1, <1>a, TargetIsInode, FreeIsUnused DEF OpenTruncate
  <2>3. FsTypeOK'
    BY <2>1, <1>a, FsTyped
  <2> QED
    BY <1>5, <2>1, <2>2, <2>3 DEF TypeOK, CopyOpen, Step, historyVars
<1>6. ASSUME NEW p \in Procs, CopyBlock(p) PROVE TypeOK'
  <2>1. /\ fd[p] \in Inodes /\ data[src[p]] \in Content
        /\ pos[p] \in Nat /\ pos[p] < Len(data[src[p]])
    BY <1>6 DEF CopyBlock, Step, TypeOK, FsTypeOK
  <2>2. data[src[p]][pos[p] + 1] \in Blocks
    <3>1. Len(data[src[p]]) \in Nat
      BY <2>1, LenProperties DEF Content
    <3>2. pos[p] + 1 \in 1 .. Len(data[src[p]])
      BY <2>1, <3>1
    <3> QED
      BY <2>1, <3>2, ElementOfSeq DEF Content
  <2>3. FsTypeOK'
    BY <1>6, <1>a, <2>1, <2>2, FsTyped DEF CopyBlock
  <2> QED
    BY <1>6, <2>1, <2>3 DEF TypeOK, CopyBlock, Step, historyVars
<1>7. ASSUME NEW p \in Procs, CopyClose(p) PROVE TypeOK'
  <2>1. FsTypeOK'
    BY <1>7, <1>a, FsTyped DEF CopyClose
  <2> QED
    BY <1>7, <2>1 DEF TypeOK, CopyClose, Step, historyVars
<1>8. ASSUME NEW p \in Procs, Apply(p) PROVE TypeOK'
  <2>1. FsTypeOK' /\ Redact(bytes[p], hits[p]) \in Content
    BY <1>8, <1>a, FsTyped, RedactIsContent DEF Apply, TypeOK
  <2> QED
    BY <1>8, <2>1 DEF TypeOK, Apply, Step
<1>9. ASSUME NEW p \in Procs, OpenTmp(p) PROVE TypeOK'
  <2>1. /\ tmp_sibling(Output(p)) \in Names
        /\ OpenTruncate(tmp_sibling(Output(p)), InUse)
    BY <1>9, CommandNames, NamesApart DEF OpenTmp, Step
  <2>2. Target(tmp_sibling(Output(p)), InUse) \in Inodes
    BY <2>1, <1>a, TargetIsInode, FreeIsUnused DEF OpenTruncate
  <2>3. FsTypeOK'
    BY <2>1, <1>a, FsTyped
  <2> QED
    BY <1>9, <2>1, <2>2, <2>3 DEF TypeOK, OpenTmp, Step, historyVars
<1>10. ASSUME NEW p \in Procs, WriteTmp(p) PROVE TypeOK'
  <2>1. /\ fd[p] \in Inodes /\ bytes[p] \in Content
        /\ pos[p] \in Nat /\ pos[p] < Len(bytes[p])
    BY <1>10 DEF WriteTmp, Step, TypeOK
  <2>2. bytes[p][pos[p] + 1] \in Blocks
    <3>1. Len(bytes[p]) \in Nat
      BY <2>1, LenProperties DEF Content
    <3>2. pos[p] + 1 \in 1 .. Len(bytes[p])
      BY <2>1, <3>1
    <3> QED
      BY <2>1, <3>2, ElementOfSeq DEF Content
  <2>3. FsTypeOK'
    BY <1>10, <1>a, <2>1, <2>2, FsTyped DEF WriteTmp
  <2> QED
    BY <1>10, <2>1, <2>3 DEF TypeOK, WriteTmp, Step, historyVars
<1>11. ASSUME NEW p \in Procs, SyncTmp(p) PROVE TypeOK'
  <2>1. FsTypeOK'
    BY <1>11, <1>a, FsTyped DEF SyncTmp, Step, TypeOK
  <2> QED
    BY <1>11, <2>1 DEF TypeOK, SyncTmp, Step, historyVars
<1>12. ASSUME NEW p \in Procs, RenameTmp(p) PROVE TypeOK'
  <2>1. FsTypeOK'
    BY <1>12, <1>a, FsTyped, CommandNames, NamesApart DEF RenameTmp, Step
  <2> QED
    BY <1>12, <2>1 DEF TypeOK, RenameTmp, Step
<1>13. ASSUME NEW p \in Procs, NEW how \in {"failed", "killed"}, EndWith(p, how), pc[p] # "idle"
       PROVE  TypeOK'
  <2>1. FsTypeOK'
    BY <1>13, <1>a, FsTyped DEF EndWith
  <2> QED
    BY <1>13, <2>1 DEF TypeOK, EndWith, historyVars
<1>14. ASSUME PowerLoss PROVE TypeOK'
  <2>1. FsTypeOK'
    BY <1>14, <1>a, FsTyped DEF PowerLoss
  <2> QED
    BY <1>14, <2>1 DEF TypeOK, PowerLoss, historyVars
<1>15. ASSUME NEW f \in Files, NEW c \in Captures, Update(f, c) PROVE TypeOK'
  <2>1. c \in Content
    BY ScrubAssumption
  <2>2. FsTypeOK'
    BY <1>15, <1>a, <2>1, FsTyped DEF Update
  <2>3. updates + 1 \in 0 .. MaxUpdates
    BY <1>15, ScrubAssumption DEF Update, TypeOK
  <2> QED
    BY <1>15, <2>1, <2>2, <2>3 DEF TypeOK, Update, procVars
<1>16. ASSUME (\E i \in Inodes : WriteBack(i)) \/ CommitDirectory PROVE TypeOK'
  <2>1. FsTypeOK'
    BY <1>16, <1>a, FsTyped DEF WriteBack, CommitDirectory
  <2> QED
    BY <1>16, <2>1 DEF TypeOK, WriteBack, CommitDirectory, procVars, historyVars
<1>17. CASE UNCHANGED vars
  <2>1. FsTypeOK'
    BY <1>17, <1>a, FsTyped DEF vars
  <2> QED
    BY <1>17, <2>1 DEF TypeOK, vars, procVars, historyVars
<1> QED
  BY <1>1, <1>2, <1>3, <1>4, <1>5, <1>6, <1>7, <1>8, <1>9, <1>10, <1>11, <1>12,
     <1>13, <1>14, <1>15, <1>16, <1>17
     DEF Next, CalmNext, Run, Progress, Kernel, Fail, Refused, Kill

(* Type correctness of the scrub model: in particular a process that is      *)
(* about to write, sync or rename holds an open file, and what it holds in  *)
(* memory is a content.                                                    *)
THEOREM TypeCorrect == Spec => []TypeOK
<1>1. Init => TypeOK
  BY InitTyped
<1>2. TypeOK /\ [Next]_vars => TypeOK'
  BY StepTyped
<1> QED
  BY <1>1, <1>2, PTL DEF Spec
-----------------------------------------------------------------------------
(* The three conjuncts of the invariant that speak of the file system alone. *)
Settled == NoLinks /\ DiskApart /\ UserSettled

LEMMA UnchangedSettled == Settled /\ UNCHANGED <<fsVars, whole>> => Settled'
  BY DEF Settled, NoLinks, DiskApart, UserSettled, fsVars

(* A file opened for writing under a name that is not a user's has an inode  *)
(* that is no user's file, now or on disk.                                 *)
LEMMA OpenSettled ==
    ASSUME FsTypeOK, Settled, NEW g \in Files, NEW n \in {tmp_sibling(g), backup_path(g)},
           NEW used, OpenTruncate(n, used), whole' = whole
    PROVE  /\ Settled'
           /\ \A f \in Files : Target(n, used) \notin {dir'[User(f)], ddir'[User(f)]}
           /\ dir'[n] = Target(n, used)
           /\ \A m \in Names \ {n} : dir'[m] = dir[m] /\ dir[m] # Target(n, used)
<1> DEFINE i == Target(n, used)
<1>1. n \in Names /\ i \in Inodes /\ dir'[n] = i /\ ddir' = ddir
  BY NamesApart, TargetIsInode, FreeIsUnused DEF OpenTruncate, FsTypeOK
<1>2. \A m \in Names \ {n} : dir'[m] = dir[m] /\ dir[m] # i
  BY <1>1, TargetIsInode, FreeIsUnused DEF OpenTruncate, FsTypeOK, Settled, NoLinks
<1>3. \A f \in Files : User(f) \in Names \ {n} /\ ddir[User(f)] # i
  BY <1>1, NamesApart, TargetIsInode, FreeIsUnused, FileSystemAssumption
     DEF OpenTruncate, Settled, DiskApart
<1>4. \A j \in Inodes \ {i} : data'[j] = data[j] /\ ddata'[j] = ddata[j]
  BY <1>1 DEF OpenTruncate, FsTypeOK
<1> HIDE DEF i
<1>5. NoLinks'
  BY <1>1, <1>2 DEF Settled, NoLinks
<1>6. DiskApart'
  <2>1. \A f, h \in Files : tmp_sibling(h) \in Names /\ backup_path(h) \in Names
    BY NamesApart
  <2> QED
    BY <1>1, <1>2, <1>3, <2>1 DEF Settled, DiskApart
<1>7. UserSettled'
  <2>1. ASSUME NEW f \in Files, NEW j \in {dir'[User(f)], ddir'[User(f)]}, j # NoInode
        PROVE  data'[j] \in whole' /\ ddata'[j] = data'[j]
    <3>1. j \in {dir[User(f)], ddir[User(f)]} /\ j # i /\ j \in Inodes
      BY <2>1, <1>1, <1>2, <1>3 DEF FsTypeOK
    <3> QED
      BY <3>1, <2>1, <1>4 DEF Settled, UserSettled
  <2> QED
    BY <2>1 DEF UserSettled
<1> QED
  BY <1>1, <1>2, <1>3, <1>5, <1>6, <1>7 DEF Settled, i

(* Writing to an inode that is no user's file, or flushing any inode.       *)
LEMMA WriteSettled ==
    ASSUME FsTypeOK, Settled, NEW i \in Inodes, NEW k, NEW b, WriteBlock(i, k, b),
           whole' = whole, \A f \in Files : i \notin {dir[User(f)], ddir[User(f)]}
    PROVE  Settled'
<1>1. \A j \in Inodes \ {i} : data'[j] = data[j]
  BY DEF WriteBlock, FsTypeOK
<1>2. \A f \in Files : /\ dir[User(f)] # NoInode => dir[User(f)] \in Inodes
                       /\ ddir[User(f)] # NoInode => ddir[User(f)] \in Inodes
  BY NamesApart DEF FsTypeOK
<1>3. UserSettled'
  BY <1>1, <1>2 DEF WriteBlock, Settled, UserSettled
<1> QED
  BY <1>3 DEF WriteBlock, Settled, NoLinks, DiskApart

LEMMA SyncSettled ==
    ASSUME FsTypeOK, Settled, NEW i \in Inodes, SyncData(i), whole' = whole
    PROVE  Settled'
<1>1. \A j \in Inodes : ddata'[j] = IF j = i THEN data[i] ELSE ddata[j]
  BY DEF SyncData, FsTypeOK
<1>2. \A f \in Files : /\ dir[User(f)] # NoInode => dir[User(f)] \in Inodes
                       /\ ddir[User(f)] # NoInode => ddir[User(f)] \in Inodes
  BY NamesApart DEF FsTypeOK
<1>3. UserSettled'
  BY <1>1, <1>2 DEF SyncData, Settled, UserSettled
<1> QED
  BY <1>3 DEF SyncData, Settled, NoLinks, DiskApart

(* Publishing a temporary file whose blocks are on disk. *)
LEMMA RenameSettled ==
    ASSUME FsTypeOK, Settled, NEW g \in Files, Rename(tmp_sibling(g), User(g)),
           whole \subseteq whole',
           data[dir[tmp_sibling(g)]] \in whole',
           ddata[dir[tmp_sibling(g)]] = data[dir[tmp_sibling(g)]]
    PROVE  Settled'
<1>1. /\ dir'[User(g)] = dir[tmp_sibling(g)] /\ dir'[tmp_sibling(g)] = NoInode
      /\ \A m \in Names \ {User(g), tmp_sibling(g)} : dir'[m] = dir[m]
      /\ dir[tmp_sibling(g)] # NoInode
      /\ UNCHANGED <<data, ddir, ddata>>
  BY NamesApart DEF Rename, FsTypeOK
<1>2. NoLinks'
  BY <1>1, NamesApart DEF Settled, NoLinks
<1>3. DiskApart'
  BY <1>1, NamesApart DEF Settled, DiskApart
<1>4. UserSettled'
  BY <1>1, NamesApart DEF Settled, UserSettled
<1> QED
  BY <1>2, <1>3, <1>4 DEF Settled

LEMMA ProduceSettled ==
    ASSUME FsTypeOK, Settled, NEW g \in Files, NEW c \in Content, NEW used, Produce(g, c, used),
           whole' = whole \cup {c}
    PROVE  Settled'
<1> DEFINE i == CHOOSE j \in Free(used) : TRUE
<1>1. i \in Free(used)
  BY DEF Produce
<1>2. /\ i \in Inodes
      /\ \A m \in Names : dir[m] # i /\ ddir[m] # i
  BY <1>1, FreeIsUnused
<1>3. /\ dir'[User(g)] = i /\ ddir'[User(g)] = i /\ data'[i] = c /\ ddata'[i] = c
      /\ \A m \in Names \ {User(g)} : dir'[m] = dir[m] /\ ddir'[m] = ddir[m]
      /\ \A j \in Inodes \ {i} : data'[j] = data[j] /\ ddata'[j] = ddata[j]
  BY <1>2, NamesApart DEF Produce, FsTypeOK
<1> HIDE DEF i
<1>4. NoLinks'
  BY <1>2, <1>3, NamesApart DEF Settled, NoLinks
<1>5. DiskApart'
  BY <1>2, <1>3, NamesApart DEF Settled, DiskApart
<1>6. UserSettled'
  <2>1. ASSUME NEW f \in Files, NEW j \in {dir'[User(f)], ddir'[User(f)]}, j # NoInode
        PROVE  data'[j] \in whole' /\ ddata'[j] = data'[j]
    <3>1. CASE f = g
      BY <3>1, <2>1, <1>3
    <3>2. CASE f # g
      <4>1. User(f) \in Names \ {User(g)}
        BY <3>2, NamesApart
      <4>2. j \in {dir[User(f)], ddir[User(f)]} /\ j \in Inodes \ {i}
        BY <4>1, <2>1, <1>2, <1>3 DEF FsTypeOK
      <4> QED
        BY <4>2, <2>1, <1>3 DEF Settled, UserSettled
    <3> QED
      BY <3>1, <3>2
  <2> QED
    BY <2>1 DEF UserSettled
<1> QED
  BY <1>4, <1>5, <1>6 DEF Settled

LEMMA KernelSettled ==
    ASSUME FsTypeOK, Settled, SyncDirectory \/ LosePower, whole' = whole
    PROVE  Settled'
<1>1. NoLinks'
  BY DEF SyncDirectory, LosePower, Settled, NoLinks
<1>2. DiskApart'
  BY NamesApart DEF SyncDirectory, LosePower, Settled, NoLinks, DiskApart
<1>3. UserSettled'
  BY NamesApart DEF SyncDirectory, LosePower, Settled, UserSettled
<1> QED
  BY <1>1, <1>2, <1>3 DEF Settled
-----------------------------------------------------------------------------
(* The conjuncts about what the processes hold open. *)
Handles == CopyApart /\ TmpOwned /\ TmpWritten /\ TmpSynced
Discipline == Exclusive /\ WritesOnlyAsScrub

LEMMA SafetyParts ==
    /\ SafetyInv  <=> TypeOK  /\ Discipline  /\ Settled  /\ Handles
    /\ SafetyInv' <=> TypeOK' /\ Discipline' /\ Settled' /\ Handles'
  BY DEF SafetyInv, Discipline, Settled, Handles

(* A running process keeps its command, and only a start makes a scrub run. *)
LEMMA KeepsDiscipline ==
    ASSUME TypeOK, Discipline, NEW p \in Procs, pc[p] \in Running, cmd' = cmd,
           \A q \in Procs \ {p} : pc'[q] = pc[q],
           pc'[p] \in {"copy", "copying", "apply", "tmp", "write", "rename"}
             => cmd[p].op = "scrub"
    PROVE  Discipline'
<1>1. \A q \in Procs : Writes(q)' => Writes(q)
  BY DEF Writes
<1>2. Exclusive'
  BY <1>1 DEF Discipline, Exclusive, Output
<1>3. WritesOnlyAsScrub'
  BY DEF Discipline, WritesOnlyAsScrub
<1> QED
  BY <1>2, <1>3 DEF Discipline

LEMMA StopsKeepDiscipline ==
    ASSUME Discipline, cmd' = cmd,
           \A q \in Procs : pc'[q] = pc[q] \/ pc'[q] \in Stopped
    PROVE  Discipline'
<1>1. \A q \in Procs : Writes(q)' => Writes(q)
  BY DEF Writes, Running, Stopped
<1> QED
  BY <1>1 DEF Discipline, Exclusive, Output, WritesOnlyAsScrub, Stopped

(* Without a change of the file system, only the process that moves to a     *)
(* writing state has to establish what it holds.                           *)
LEMMA QuietHandles ==
    ASSUME Handles, UNCHANGED fsVars,
           \A q \in Procs : \/ pc'[q] \notin {"copying", "write", "rename"}
                            \/ /\ pc'[q] = pc[q] /\ fd'[q] = fd[q] /\ bytes'[q] = bytes[q]
                               /\ pos'[q] = pos[q] /\ cmd'[q] = cmd[q]
    PROVE  Handles'
<1>1. UNCHANGED <<dir, data, ddir, ddata>>
  BY DEF fsVars
<1>2. CopyApart'
  BY <1>1 DEF Handles, CopyApart
<1>3. TmpOwned'
  BY <1>1 DEF Handles, TmpOwned, Output
<1>4. TmpWritten' /\ TmpSynced'
  BY <1>1 DEF Handles, TmpWritten, TmpSynced
<1> QED
  BY <1>2, <1>3, <1>4 DEF Handles

LEMMA StartSafe ==
    ASSUME Serialize, SafetyInv, TypeOK', NEW p \in Procs, NEW c \in Commands, Start(p, c)
    PROVE  SafetyInv'
<1>1. TypeOK /\ Discipline /\ Settled /\ Handles
  BY SafetyParts
<1>2. /\ pc[p] = "idle" /\ pc'[p] \in {"head", "open"} /\ cmd'[p] = c
      /\ \A q \in Procs \ {p} : pc'[q] = pc[q] /\ cmd'[q] = cmd[q]
  BY <1>1 DEF Start, Step, TypeOK
<1>3. Exclusive'
  <2>1. \A q \in Procs \ {p} : Writes(q)' => Writes(q) /\ Output(q)' = Output(q)
    BY <1>2 DEF Writes, Output
  <2>2. Writes(p)' => c.op = "scrub" /\ Output(p)' = Dest(c)
    BY <1>2 DEF Writes, Output
  <2>3. \A q \in Procs \ {p} : ~(Writes(p)' /\ Writes(q)' /\ Output(p)' = Output(q)')
    BY <2>1, <2>2 DEF Start
  <2> QED
    BY <1>1, <2>1, <2>3 DEF Exclusive, Discipline
<1>4. WritesOnlyAsScrub'
  BY <1>1, <1>2 DEF Discipline, WritesOnlyAsScrub
<1>5. Handles'
  BY <1>1, <1>2, QuietHandles DEF Start
<1>6. Settled'
  BY <1>1, UnchangedSettled DEF Start, historyVars
<1> QED
  BY <1>3, <1>4, <1>5, <1>6, SafetyParts DEF Discipline

(* The steps of a running process that touch no file, and those that end it. *)
LEMMA LocalSafe ==
    ASSUME SafetyInv, TypeOK', NEW p \in Procs,
           \/ ReadHead(p) \/ OpenPath(p) \/ ScanChunks(p) \/ CopyClose(p) \/ Apply(p)
           \/ pc[p] # "idle" /\ \E how \in {"failed", "killed"} : EndWith(p, how)
    PROVE  SafetyInv'
<1>1. TypeOK /\ Discipline /\ Settled /\ Handles
  BY SafetyParts
<1>2. /\ cmd' = cmd /\ \A q \in Procs \ {p} : pc'[q] = pc[q]
      /\ UNCHANGED fsVars /\ whole' = whole
  BY <1>1 DEF ReadHead, OpenPath, ScanChunks, CopyClose, Apply, EndWith, Step, TypeOK, historyVars
<1>3. Settled'
  BY <1>1, <1>2, UnchangedSettled
<1>4. Handles'
  <2>1. pc'[p] \notin {"copying", "write", "rename"}
    BY <1>1 DEF ReadHead, OpenPath, ScanChunks, AfterScan, CopyClose, Apply, EndWith, Step, TypeOK
  <2>2. \A q \in Procs \ {p} : fd'[q] = fd[q] /\ bytes'[q] = bytes[q] /\ pos'[q] = pos[q]
    BY <1>1 DEF ReadHead, OpenPath, ScanChunks, CopyClose, Apply, EndWith, TypeOK
  <2> QED
    BY <1>1, <1>2, <2>1, <2>2, QuietHandles
<1>5. Discipline'
  <2>1. CASE ReadHead(p) \/ OpenPath(p) \/ CopyClose(p) \/ Apply(p)
    <3>1. /\ pc[p] \in Running
          /\ pc'[p] \in {"copy", "copying", "apply", "tmp", "write", "rename"}
               => pc[p] \in {"copying", "apply"}
      BY <2>1, <1>1 DEF ReadHead, OpenPath, CopyClose, Apply, Step, TypeOK, Running
    <3> QED
      BY <3>1, <1>1, <1>2, KeepsDiscipline DEF Discipline, WritesOnlyAsScrub
  <2>2. CASE ScanChunks(p)
    <3>1. pc[p] \in Running /\ pc[p] # "idle"
      BY <2>2 DEF ScanChunks, Step, Running
    <3>2. cmd[p].op \in {"scan", "scrub"}
      BY <3>1, <1>1, CommandNames, ScrubAssumption
    <3>3. pc'[p] # "done" => cmd[p].op = "scrub"
      BY <2>2, <1>1, <3>2 DEF ScanChunks, AfterScan, Step, TypeOK
    <3> QED
      BY <3>1, <3>3, <1>1, <1>2, KeepsDiscipline
  <2>3. CASE \E how \in {"failed", "killed"} : EndWith(p, how)
    <3>1. pc'[p] \in Stopped
      BY <2>3, <1>1 DEF EndWith, TypeOK, Stopped
    <3> QED
      BY <3>1, <1>1, <1>2, StopsKeepDiscipline
  <2> QED
    BY <2>1, <2>2, <2>3
<1> QED
  BY <1>3, <1>4, <1>5, SafetyParts
(* Opening the backup for fs::copy, and copying one block. *)
LEMMA CopyOpenSafe ==
    ASSUME SafetyInv, TypeOK', NEW p \in Procs, CopyOpen(p)
    PROVE  SafetyInv'
<1> DEFINE n == backup_path(cmd[p].path)
           i == Target(n, InUse)
<1>1. TypeOK /\ Discipline /\ Settled /\ Handles /\ FsTypeOK
  BY SafetyParts DEF TypeOK
<1>2. /\ pc[p] = "copy" /\ pc'[p] = "copying" /\ cmd' = cmd /\ fd'[p] = i
      /\ \A q \in Procs \ {p} : pc'[q] = pc[q] /\ fd'[q] = fd[q]
      /\ bytes' = bytes /\ \A q \in Procs \ {p} : pos'[q] = pos[q]
      /\ OpenTruncate(n, InUse) /\ whole' = whole
  BY <1>1 DEF CopyOpen, Step, TypeOK, historyVars
<1>3. cmd[p].path \in Files /\ n \in Names
  BY <1>1, <1>2, CommandNames, NamesApart
<1>4. /\ Settled'
      /\ \A f \in Files : i \notin {dir'[User(f)], ddir'[User(f)]}
      /\ dir'[n] = i
      /\ \A m \in Names \ {n} : dir'[m] = dir[m] /\ dir[m] # i
  BY <1>1, <1>2, <1>3, OpenSettled
<1>5. /\ i \in Inodes /\ ddir' = ddir
      /\ \A j \in Inodes \ {i} : data'[j] = data[j] /\ ddata'[j] = ddata[j]
  BY <1>1, <1>2, <1>3, TargetIsInode, FreeIsUnused DEF OpenTruncate, FsTypeOK
<1>6. \A f \in Files : /\ User(f) \in Names \ {n} /\ tmp_sibling(f) \in Names \ {n}
  BY <1>3, NamesApart
<1> HIDE DEF n, i
<1>7. CopyApart'
  BY <1>1, <1>2, <1>4, <1>5, <1>6 DEF Handles, CopyApart
<1>8. ASSUME NEW q \in Procs, pc'[q] \in {"write", "rename"}
      PROVE  /\ pc[q] = pc'[q] /\ fd'[q] = fd[q] /\ bytes'[q] = bytes[q] /\ pos'[q] = pos[q]
             /\ fd[q] \in Inodes \ {i}
             /\ fd[q] = dir'[tmp_sibling(Output(q))]
  <2>1. pc[q] = pc'[q] /\ fd'[q] = fd[q] /\ bytes'[q] = bytes[q] /\ pos'[q] = pos[q] /\ q # p
    BY <1>2, <1>8
  <2>2. Output(q) \in Files /\ fd[q] \in Inodes /\ fd[q] = dir[tmp_sibling(Output(q))]
    BY <2>1, <1>1, <1>8, CommandNames DEF Handles, TmpOwned, TypeOK
  <2> QED
    BY <2>1, <2>2, <1>4, <1>6
<1>9. TmpOwned'
  BY <1>8, <1>2 DEF TmpOwned, Output
<1>10. TmpWritten' /\ TmpSynced'
  BY <1>8, <1>5, <1>1 DEF Handles, TmpWritten, TmpSynced
<1>11. Discipline'
  <2>1. pc[p] \in Running /\ cmd[p].op = "scrub"
    BY <1>1, <1>2 DEF Running, Discipline, WritesOnlyAsScrub
  <2> QED
    BY <2>1, <1>1, <1>2, KeepsDiscipline
<1> QED
  BY <1>4, <1>7, <1>9, <1>10, <1>11, SafetyParts DEF Handles

LEMMA CopyBlockSafe ==
    ASSUME SafetyInv, TypeOK', NEW p \in Procs, CopyBlock(p)
    PROVE  SafetyInv'
<1>1. TypeOK /\ Discipline /\ Settled /\ Handles /\ FsTypeOK
  BY SafetyParts DEF TypeOK
<1>2. /\ pc[p] = "copying" /\ pc' = pc /\ cmd' = cmd /\ fd' = fd /\ bytes' = bytes
      /\ \A q \in Procs \ {p} : pos'[q] = pos[q]
      /\ WriteBlock(fd[p], pos[p] + 1, data[src[p]][pos[p] + 1]) /\ whole' = whole
  BY <1>1 DEF CopyBlock, Step, TypeOK, historyVars
<1>3. /\ fd[p] \in Inodes
      /\ \A f \in Files : fd[p] \notin {dir[User(f)], ddir[User(f)], dir[tmp_sibling(f)]}
  BY <1>1, <1>2 DEF Handles, CopyApart, TypeOK
<1>4. Settled'
  BY <1>1, <1>2, <1>3, WriteSettled
<1>5. /\ UNCHANGED <<dir, ddir, ddata>>
      /\ \A j \in Inodes \ {fd[p]} : data'[j] = data[j]
  BY <1>1, <1>2, <1>3 DEF WriteBlock, FsTypeOK
<1>6. ASSUME NEW q \in Procs, pc[q] \in {"write", "rename"}
      PROVE  /\ q # p /\ pos'[q] = pos[q]
             /\ fd[q] = dir[tmp_sibling(Output(q))] /\ data'[fd[q]] = data[fd[q]]
  BY <1>6, <1>1, <1>2, <1>3, <1>5, CommandNames DEF Handles, TmpOwned, TypeOK
<1>7. CopyApart' /\ TmpOwned'
  BY <1>1, <1>2, <1>5 DEF Handles, CopyApart, TmpOwned, Output
<1>8. TmpWritten' /\ TmpSynced'
  BY <1>1, <1>2, <1>5, <1>6 DEF Handles, TmpWritten, TmpSynced
<1>9. Discipline'
  BY <1>1, <1>2 DEF Discipline, Exclusive, WritesOnlyAsScrub, Writes, Output
<1> QED
  BY <1>4, <1>7, <1>8, <1>9, SafetyParts DEF Handles
-----------------------------------------------------------------------------
(* Another process that writes an output writes another temporary file:     *)
(* this is where the serialization of scrubs is used.                      *)
LEMMA OthersWriteElsewhere ==
    ASSUME SafetyInv, NEW p \in Procs, pc[p] \in {"tmp", "write", "rename"},
           NEW q \in Procs \ {p}, pc[q] \in {"write", "rename"}
    PROVE  /\ Output(p) \in Files /\ Output(q) \in Files /\ Output(q) # Output(p)
           /\ tmp_sibling(Output(q)) \in Names \ {tmp_sibling(Output(p)), User(Output(p))}
           /\ fd[q] \in Inodes /\ fd[q] = dir[tmp_sibling(Output(q))]
<1>1. TypeOK /\ Discipline /\ Settled /\ Handles
  BY SafetyParts
<1>2. Writes(p) /\ Writes(q)
  BY <1>1 DEF Discipline, WritesOnlyAsScrub, Writes, Running
<1>3. Output(p) \in Files /\ Output(q) \in Files /\ Output(q) # Output(p)
  BY <1>1, <1>2, CommandNames DEF Discipline, Exclusive
<1>4. fd[q] \in Inodes /\ fd[q] = dir[tmp_sibling(Output(q))]
  BY <1>1 DEF Handles, TmpOwned, TypeOK
<1> QED
  BY <1>3, <1>4, NamesApart

LEMMA OpenTmpSafe ==
    ASSUME SafetyInv, TypeOK', NEW p \in Procs, OpenTmp(p)
    PROVE  SafetyInv'
<1> DEFINE n == tmp_sibling(Output(p))
           i == Target(n, InUse)
<1>1. TypeOK /\ Discipline /\ Settled /\ Handles /\ FsTypeOK
  BY SafetyParts DEF TypeOK
<1>2. /\ pc[p] = "tmp" /\ pc'[p] = "write" /\ cmd' = cmd /\ fd'[p] = i /\ pos'[p] = 0
      /\ \A q \in Procs \ {p} : pc'[q] = pc[q] /\ fd'[q] = fd[q] /\ pos'[q] = pos[q]
      /\ bytes' = bytes
      /\ OpenTruncate(n, InUse) /\ whole' = whole
  BY <1>1 DEF OpenTmp, Step, TypeOK, historyVars
<1>3. Output(p) \in Files /\ n \in Names
  BY <1>1, <1>2, CommandNames, NamesApart
<1>4. /\ Settled'
      /\ \A f \in Files : i \notin {dir'[User(f)], ddir'[User(f)]}
      /\ dir'[n] = i
      /\ \A m \in Names \ {n} : dir'[m] = dir[m] /\ dir[m] # i
  BY <1>1, <1>2, <1>3, OpenSettled
<1>5. /\ i \in Inodes /\ ddir' = ddir /\ data'[i] = << >>
      /\ \A j \in Inodes \ {i} : data'[j] = data[j] /\ ddata'[j] = ddata[j]
  BY <1>1, <1>2, <1>3, TargetIsInode, FreeIsUnused DEF OpenTruncate, FsTypeOK, Emptied
<1>6. i = dir[n] \/ i \notin InUse
  BY <1>1, <1>2, <1>3, TargetIsInode, FreeIsUnused DEF OpenTruncate
<1>7. \A f \in Files : User(f) \in Names \ {n} /\ tmp_sibling(f) \in Names
  BY <1>3, NamesApart
<1> HIDE DEF n, i
<1>8. ASSUME NEW q \in Procs, pc'[q] = "copying" PROVE \A f \in Files :
             fd'[q] \notin {dir'[User(f)], ddir'[User(f)], dir'[tmp_sibling(f)]}
  <2>1. q # p /\ pc[q] = "copying" /\ fd'[q] = fd[q] /\ fd[q] \in InUse
    BY <1>2, <1>8 DEF InUse
  <2>2. \A f \in Files : fd[q] \notin {dir[User(f)], ddir[User(f)], dir[tmp_sibling(f)]}
    BY <2>1, <1>1 DEF Handles, CopyApart
  <2>3. fd[q] # i
    BY <2>1, <2>2, <1>3, <1>6 DEF n
  <2> QED
    BY <2>1, <2>2, <2>3, <1>4, <1>5, <1>7
<1>9. ASSUME NEW q \in Procs \ {p}, pc'[q] \in {"write", "rename"}
      PROVE  /\ pc[q] = pc'[q] /\ fd[q] \in Inodes \ {i}
             /\ fd[q] = dir'[tmp_sibling(Output(q))]
  <2>1. pc[q] = pc'[q]
    BY <1>2
  <2> QED
    BY <2>1, <1>2, <1>4, <1>9, OthersWriteElsewhere DEF n
<1>10. CopyApart'
  BY <1>8 DEF CopyApart
<1>11. TmpOwned'
  BY <1>2, <1>4, <1>9 DEF TmpOwned, Output, n
<1>12. TmpWritten'
  <2>1. Len(data'[fd'[p]]) = 0 /\ 0 <= Len(bytes'[p])
    BY <1>1, <1>2, <1>5, LenProperties DEF TypeOK, Content
  <2> QED
    BY <2>1, <1>1, <1>2, <1>5, <1>9 DEF Handles, TmpWritten
<1>13. TmpSynced'
  BY <1>1, <1>2, <1>5, <1>9 DEF Handles, TmpSynced
<1>14. Discipline'
  <2>1. pc[p] \in Running /\ cmd[p].op = "scrub"
    BY <1>1, <1>2 DEF Running, Discipline, WritesOnlyAsScrub
  <2> QED
    BY <2>1, <1>1, <1>2, KeepsDiscipline
<1> QED
  BY <1>4, <1>10, <1>11, <1>12, <1>13, <1>14, SafetyParts DEF Handles

LEMMA WriteTmpSafe ==
    ASSUME SafetyInv, TypeOK', NEW p \in Procs, WriteTmp(p)
    PROVE  SafetyInv'
<1> DEFINE i == fd[p]
           k == pos[p] + 1
<1>1. TypeOK /\ Discipline /\ Settled /\ Handles /\ FsTypeOK
  BY SafetyParts DEF TypeOK
<1>2. /\ pc[p] = "write" /\ pc' = pc /\ cmd' = cmd /\ fd' = fd /\ bytes' = bytes
      /\ pos[p] < Len(bytes[p]) /\ pos'[p] = k
      /\ \A q \in Procs \ {p} : pos'[q] = pos[q]
      /\ WriteBlock(i, k, bytes[p][k]) /\ whole' = whole
  BY <1>1 DEF WriteTmp, Step, TypeOK, historyVars
<1>3. /\ i \in Inodes /\ i = dir[tmp_sibling(Output(p))]
      /\ Output(p) \in Files /\ tmp_sibling(Output(p)) \in Names
  BY <1>1, <1>2, CommandNames, NamesApart DEF Handles, TmpOwned, TypeOK
<1>4. \A f \in Files : i \notin {dir[User(f)], ddir[User(f)]}
  BY <1>1, <1>3, NamesApart, FileSystemAssumption DEF Settled, NoLinks, DiskApart
<1>5. Settled'
  BY <1>1, <1>2, <1>3, <1>4, WriteSettled
<1>6. /\ UNCHANGED <<dir, ddir, ddata>>
      /\ data'[i] = Written(data[i], k, bytes[p][k])
      /\ \A j \in Inodes \ {i} : data'[j] = data[j]
  BY <1>1, <1>2, <1>3 DEF WriteBlock, FsTypeOK
<1>7. ASSUME NEW q \in Procs \ {p}, pc[q] \in {"write", "rename"}
      PROVE  fd[q] \in Inodes \ {i}
  <2>1. fd[q] \in Inodes /\ fd[q] = dir[tmp_sibling(Output(q))]
        /\ tmp_sibling(Output(q)) \in Names \ {tmp_sibling(Output(p))}
    BY <1>2, <1>7, OthersWriteElsewhere
  <2> QED
    BY <2>1, <1>1, <1>3, FileSystemAssumption DEF Settled, NoLinks
<1>8. CopyApart' /\ TmpOwned'
  BY <1>1, <1>2, <1>6 DEF Handles, CopyApart, TmpOwned, Output
<1>9. /\ Len(data'[i]) = k /\ k <= Len(bytes[p])
      /\ \A j \in 1 .. k : data'[i][j] = bytes[p][j]
  <2>1. /\ data[i] \in Content /\ bytes[p] \in Content /\ pos[p] \in Nat
        /\ Len(data[i]) = pos[p] /\ Len(bytes[p]) \in Nat
        /\ \A j \in 1 .. pos[p] : data[i][j] = bytes[p][j]
    BY <1>1, <1>2, <1>3, LenProperties DEF Handles, TmpWritten, TypeOK, FsTypeOK, Content
  <2>2. bytes[p][k] \in Blocks /\ k \in Nat \ {0}
    <3>1. k \in 1 .. Len(bytes[p])
      BY <2>1, <1>2
    <3> QED
      BY <2>1, <3>1, ElementOfSeq DEF Content
  <2>3. k = Len(data[i]) + 1
    BY <2>1
  <2> HIDE DEF i, k
  <2>4. /\ Len(data'[i]) = k /\ data'[i][k] = bytes[p][k]
        /\ \A j \in 1 .. Len(data[i]) : data'[i][j] = data[i][j]
    <3> DEFINE b == bytes[p][k]
               c == data[i]
    <3>1. /\ Len(Written(c, k, b)) = IF k > Len(c) THEN k ELSE Len(c)
          /\ \A j \in 1 .. Len(c) : j # k => Written(c, k, b)[j] = c[j]
          /\ Written(c, k, b)[k] = b
      BY <2>1, <2>2, WrittenIsContent
    <3>2. Len(c) \in Nat /\ k = Len(c) + 1 /\ data'[i] = Written(c, k, b)
      BY <2>1, <2>3, <1>6
    <3> HIDE DEF b, c
    <3>3. /\ Len(data'[i]) = k /\ data'[i][k] = b
          /\ \A j \in 1 .. Len(c) : data'[i][j] = c[j]
      BY <3>1, <3>2
    <3> QED
      BY <3>3 DEF b, c
  <2>5. k <= Len(bytes[p])
    BY <2>1, <2>3, <1>2
  <2>6. \A j \in 1 .. k : j \in 1 .. Len(data[i]) \/ j = k
    BY <2>1, <2>3
  <2> QED
    BY <2>1, <2>4, <2>5, <2>6
<1>10. TmpWritten'
  <2>1. ASSUME NEW q \in Procs \ {p}, pc[q] = "write"
        PROVE  data'[fd[q]] = data[fd[q]] /\ pos'[q] = pos[q]
    BY <2>1, <1>2, <1>6, <1>7
  <2> HIDE DEF i, k
  <2>2. fd'[p] = i
    BY <1>2 DEF i
  <2> QED
    BY <2>1, <2>2, <1>1, <1>2, <1>9 DEF Handles, TmpWritten
<1>11. TmpSynced'
  <2>1. ASSUME NEW q \in Procs, pc[q] = "rename"
        PROVE  data'[fd[q]] = data[fd[q]] /\ ddata' = ddata
    <3>1. q # p
      BY <2>1, <1>2
    <3> QED
      BY <2>1, <3>1, <1>6, <1>7
  <2> QED
    BY <2>1, <1>1, <1>2 DEF Handles, TmpSynced
<1>12. Discipline'
  BY <1>1, <1>2 DEF Discipline, Exclusive, WritesOnlyAsScrub, Writes, Output
<1> QED
  BY <1>5, <1>8, <1>10, <1>11, <1>12, SafetyParts DEF Handles
(* fsync of the complete temporary file, and the kernel's own write-back.    *)
LEMMA SyncHandles ==
    ASSUME SafetyInv, NEW i \in Inodes, SyncData(i), UNCHANGED <<cmd, fd, bytes, pos>>,
           \A q \in Procs : pc'[q] = pc[q] \/ (pc[q] = "write" /\ pc'[q] = "rename" /\ fd[q] = i
                                               /\ pos[q] >= Len(bytes[q]))
    PROVE  Handles'
<1>1. TypeOK /\ Handles
  BY SafetyParts
<1>2. /\ UNCHANGED <<dir, data, ddir>>
      /\ \A j \in Inodes : ddata'[j] = IF j = i THEN data[i] ELSE ddata[j]
  BY <1>1 DEF SyncData, TypeOK, FsTypeOK
<1>3. CopyApart' /\ TmpOwned'
  BY <1>1, <1>2 DEF Handles, CopyApart, TmpOwned, Output
<1>4. TmpWritten'
  BY <1>1, <1>2 DEF Handles, TmpWritten
<1>5. ASSUME NEW q \in Procs, pc'[q] = "rename" PROVE data[fd[q]] = bytes[q] /\ ddata'[fd[q]] = bytes[q]
  <2>1. CASE pc[q] = "rename"
    BY <2>1, <1>1, <1>2 DEF Handles, TmpSynced, TypeOK
  <2>2. CASE pc[q] = "write" /\ fd[q] = i /\ pos[q] >= Len(bytes[q])
    <3>1. /\ data[i] \in Seq(Blocks) /\ bytes[q] \in Seq(Blocks)
          /\ Len(data[i]) = pos[q] /\ pos[q] <= Len(bytes[q])
          /\ \A j \in 1 .. pos[q] : data[i][j] = bytes[q][j]
      BY <2>2, <1>1 DEF Handles, TmpWritten, TypeOK, FsTypeOK, Content
    <3>2. Len(data[i]) = Len(bytes[q])
      BY <3>1, <2>2, LenProperties
    <3>3. data[i] = bytes[q]
      BY <3>1, <3>2, SeqEqual
    <3> QED
      BY <2>2, <3>3, <1>2
  <2> QED
    BY <1>5, <2>1, <2>2
<1> QED
  BY <1>2, <1>3, <1>4, <1>5 DEF Handles, TmpSynced

LEMMA SyncTmpSafe ==
    ASSUME SafetyInv, TypeOK', NEW p \in Procs, SyncTmp(p)
    PROVE  SafetyInv'
<1>1. TypeOK /\ Discipline /\ Settled /\ Handles /\ FsTypeOK
  BY SafetyParts DEF TypeOK
<1>2. /\ pc[p] = "write" /\ pc'[p] = "rename" /\ UNCHANGED <<cmd, fd, bytes, pos, whole>>
      /\ \A q \in Procs \ {p} : pc'[q] = pc[q]
      /\ pos[p] >= Len(bytes[p]) /\ SyncData(fd[p]) /\ fd[p] \in Inodes
  BY <1>1 DEF SyncTmp, Step, TypeOK, historyVars
<1>3. Settled'
  BY <1>1, <1>2, SyncSettled
<1>4. Handles'
  BY <1>2, SyncHandles
<1>5. Discipline'
  <2>1. pc[p] \in Running /\ cmd[p].op = "scrub"
    BY <1>1, <1>2 DEF Running, Discipline, WritesOnlyAsScrub
  <2> QED
    BY <2>1, <1>1, <1>2, KeepsDiscipline
<1> QED
  BY <1>3, <1>4, <1>5, SafetyParts

LEMMA RenameTmpSafe ==
    ASSUME SafetyInv, TypeOK', NEW p \in Procs, RenameTmp(p)
    PROVE  SafetyInv'
<1> DEFINE t == tmp_sibling(Output(p))
           u == User(Output(p))
<1>1. TypeOK /\ Discipline /\ Settled /\ Handles /\ FsTypeOK
  BY SafetyParts DEF TypeOK
<1>2. /\ pc[p] = "rename" /\ pc'[p] = "done" /\ UNCHANGED <<cmd, bytes, pos>>
      /\ \A q \in Procs \ {p} : pc'[q] = pc[q] /\ fd'[q] = fd[q]
      /\ Rename(t, u) /\ whole' = whole \cup {bytes[p]}
  BY <1>1 DEF RenameTmp, Step, TypeOK
<1>3. Output(p) \in Files /\ t \in Names /\ u \in Names /\ t # u
  BY <1>1, <1>2, CommandNames, NamesApart
<1>4. data[dir[t]] = bytes[p] /\ ddata[dir[t]] = bytes[p] /\ dir[t] # NoInode
  BY <1>1, <1>2 DEF Handles, TmpOwned, TmpSynced, Rename
<1>5. Settled'
  BY <1>1, <1>2, <1>3, <1>4, RenameSettled
<1>6. /\ dir'[u] = dir[t] /\ dir'[t] = NoInode
      /\ \A m \in Names \ {u, t} : dir'[m] = dir[m]
      /\ UNCHANGED <<data, ddir, ddata>>
  BY <1>1, <1>2, <1>3 DEF Rename, FsTypeOK
<1>7. ASSUME NEW q \in Procs, pc'[q] \in {"write", "rename"}
      PROVE  q # p /\ pc[q] = pc'[q] /\ fd'[q] = fd[q] /\ fd[q] = dir'[tmp_sibling(Output(q))]
  BY <1>2, <1>6, <1>7, OthersWriteElsewhere
<1>8. CopyApart'
  <2>1. ASSUME NEW q \in Procs, pc'[q] = "copying"
        PROVE  /\ fd'[q] = fd[q] /\ fd[q] \in Inodes
               /\ \A f \in Files : fd[q] \notin {dir[User(f)], ddir[User(f)], dir[tmp_sibling(f)]}
    BY <2>1, <1>1, <1>2 DEF Handles, CopyApart, TypeOK
  <2>2. \A f \in Files : /\ dir'[User(f)] \in {dir[User(f)], dir[t]}
                         /\ dir'[tmp_sibling(f)] \in {dir[tmp_sibling(f)], NoInode}
    BY <1>3, <1>6, NamesApart
  <2> QED
    BY <2>1, <2>2, <1>3, <1>6, FileSystemAssumption DEF CopyApart
<1>9. TmpOwned'
  BY <1>2, <1>7 DEF TmpOwned, Output
<1>10. TmpWritten' /\ TmpSynced'
  BY <1>1, <1>2, <1>6, <1>7 DEF Handles, TmpWritten, TmpSynced
<1>11. Discipline'
  BY <1>1, <1>2, StopsKeepDiscipline DEF Stopped
<1> QED
  BY <1>5, <1>8, <1>9, <1>10, <1>11, SafetyParts DEF Handles

(* The environment: a power loss ends every process, a producer uses an     *)
(* inode nobody has, and the kernel only adds to what is durable.          *)
LEMMA PowerLossSafe ==
    ASSUME SafetyInv, TypeOK', PowerLoss
    PROVE  SafetyInv'
<1>1. TypeOK /\ Discipline /\ Settled /\ FsTypeOK
  BY SafetyParts DEF TypeOK
<1>2. Settled'
  BY <1>1, KernelSettled DEF PowerLoss, historyVars
<1>3. \A q \in Procs : /\ pc'[q] = pc[q] \/ pc'[q] \in Stopped
                       /\ pc'[q] \notin {"copying", "write", "rename"}
  BY DEF PowerLoss, Running, Stopped
<1>4. Handles'
  BY <1>3 DEF Handles, CopyApart, TmpOwned, TmpWritten, TmpSynced
<1>5. Discipline'
  BY <1>1, <1>3, StopsKeepDiscipline DEF PowerLoss
<1> QED
  BY <1>2, <1>4, <1>5, SafetyParts

LEMMA UpdateSafe ==
    ASSUME SafetyInv, TypeOK', NEW g \in Files, NEW c \in Captures, Update(g, c)
    PROVE  SafetyInv'
<1> DEFINE i == CHOOSE j \in Free(InUse) : TRUE
<1>1. TypeOK /\ Discipline /\ Settled /\ Handles /\ FsTypeOK
  BY SafetyParts DEF TypeOK
<1>2. c \in Content /\ Produce(g, c, InUse) /\ whole' = whole \cup {c} /\ UNCHANGED procVars
  BY ScrubAssumption DEF Update
<1>3. Settled'
  BY <1>1, <1>2, ProduceSettled
<1>4. i \in Free(InUse)
  BY <1>2 DEF Produce
<1>5. i \in Inodes /\ i \notin InUse
  BY <1>4, FreeIsUnused
<1>6. /\ dir'[User(g)] = i /\ ddir'[User(g)] = i
      /\ \A m \in Names \ {User(g)} : dir'[m] = dir[m] /\ ddir'[m] = ddir[m]
      /\ \A j \in Inodes \ {i} : data'[j] = data[j] /\ ddata'[j] = ddata[j]
  BY <1>1, <1>2, <1>5, NamesApart DEF Produce, FsTypeOK
<1>7. \A q \in Procs : fd[q] # i
  BY <1>5 DEF InUse
<1>8. UNCHANGED <<pc, cmd, bytes, fd, pos>>
  BY <1>2 DEF procVars
<1> HIDE DEF i
<1>9. CopyApart'
  BY <1>1, <1>6, <1>7, <1>8, NamesApart DEF Handles, CopyApart
<1>10. TmpOwned'
  <2>1. ASSUME NEW q \in Procs, pc[q] \in {"write", "rename"}
        PROVE  tmp_sibling(Output(q)) \in Names \ {User(g)}
    BY <2>1, <1>1, CommandNames, NamesApart
  <2> QED
    BY <2>1, <1>1, <1>6, <1>8 DEF Handles, TmpOwned, Output
<1>11. TmpWritten' /\ TmpSynced'
  <2>1. ASSUME NEW q \in Procs, pc[q] \in {"write", "rename"}
        PROVE  data'[fd[q]] = data[fd[q]] /\ ddata'[fd[q]] = ddata[fd[q]]
    <3>1. fd[q] \in Inodes \ {i}
      BY <2>1, <1>1, <1>7 DEF TypeOK
    <3> QED
      BY <3>1, <1>6
  <2> QED
    BY <2>1, <1>1, <1>8 DEF Handles, TmpWritten, TmpSynced
<1>12. Discipline'
  BY <1>1, <1>8 DEF Discipline, Exclusive, WritesOnlyAsScrub, Writes, Output
<1> QED
  BY <1>3, <1>9, <1>10, <1>11, <1>12, SafetyParts DEF Handles

LEMMA KernelSafe ==
    ASSUME SafetyInv, TypeOK', Kernel
    PROVE  SafetyInv'
<1>1. TypeOK /\ Discipline /\ Settled /\ Handles /\ FsTypeOK
  BY SafetyParts DEF TypeOK
<1>2. UNCHANGED <<pc, cmd, bytes, fd, pos, whole>>
  BY DEF Kernel, WriteBack, CommitDirectory, procVars, historyVars
<1>3. Discipline'
  BY <1>1, <1>2 DEF Discipline, Exclusive, WritesOnlyAsScrub, Writes, Output
<1>4. CASE CommitDirectory
  <2>1. Settled'
    BY <1>1, <1>2, <1>4, KernelSettled DEF CommitDirectory
  <2>2. UNCHANGED <<dir, data, ddata>> /\ ddir' = dir
    BY <1>4 DEF CommitDirectory, SyncDirectory
  <2>3. CopyApart' /\ TmpOwned'
    BY <2>2, <1>1, <1>2 DEF Handles, CopyApart, TmpOwned, Output
  <2>4. TmpWritten' /\ TmpSynced'
    BY <2>2, <1>1, <1>2 DEF Handles, TmpWritten, TmpSynced
  <2> QED
    BY <2>1, <2>3, <2>4, <1>3, SafetyParts DEF Handles
<1>5. ASSUME NEW i \in Inodes, WriteBack(i) PROVE SafetyInv'
  <2>1. Settled'
    BY <1>1, <1>2, <1>5, SyncSettled DEF WriteBack
  <2>2. Handles'
    BY <1>2, <1>5, SyncHandles DEF WriteBack
  <2> QED
    BY <2>1, <2>2, <1>3, SafetyParts
<1> QED
  BY <1>4, <1>5 DEF Kernel

LEMMA StutterSafe == SafetyInv /\ TypeOK' /\ UNCHANGED vars => SafetyInv'
<1> SUFFICES ASSUME SafetyInv, TypeOK', UNCHANGED vars PROVE SafetyInv'
  OBVIOUS
<1>1. TypeOK /\ Discipline /\ Settled /\ Handles
  BY SafetyParts
<1>2. UNCHANGED <<pc, cmd, bytes, fd, pos, whole>> /\ UNCHANGED fsVars
  BY DEF vars, procVars, historyVars
<1>3. Settled' /\ Handles'
  BY <1>1, <1>2, UnchangedSettled, QuietHandles
<1>4. Discipline'
  BY <1>1, <1>2 DEF Discipline, Exclusive, WritesOnlyAsScrub, Writes, Output
<1> QED
  BY <1>3, <1>4, SafetyParts

-----------------------------------------------------------------------------
LEMMA InitSafe == Init => SafetyInv
<1> SUFFICES ASSUME Init PROVE SafetyInv
  OBVIOUS
<1>1. TypeOK
  BY InitTyped
<1>2. PICK stored \in [Files -> Captures \cup {Absent}] :
        /\ dir = [n \in Names |-> IF n[2] = "" /\ stored[n[1]] # Absent
                                   THEN Seat[n[1]] ELSE NoInode]
        /\ data = [i \in Inodes |->
                     IF \E f \in Files : Seat[f] = i /\ stored[f] # Absent
                       THEN stored[CHOOSE f \in Files : Seat[f] = i]
                       ELSE << >>]
        /\ whole = {stored[f] : f \in Files} \ {Absent}
  BY DEF Init
<1>3. ddir = dir /\ ddata = data /\ \A p \in Procs : pc[p] = "idle"
  BY DEF Init
<1>4. \A f \in Files : /\ dir[User(f)] = IF stored[f] # Absent THEN Seat[f] ELSE NoInode
                       /\ dir[tmp_sibling(f)] = NoInode /\ dir[backup_path(f)] = NoInode
  BY <1>2 DEF Names, User, tmp_sibling, backup_path
<1>5. NoLinks
  <2>1. ASSUME NEW n \in Names, dir[n] # NoInode
        PROVE  \E f \in Files : n = User(f) /\ dir[n] = Seat[f]
    <3>1. PICK f \in Files : n \in {User(f), tmp_sibling(f), backup_path(f)}
      BY DEF Names
    <3> QED
      BY <2>1, <3>1, <1>4
  <2>2. \A f, g \in Files : Seat[f] = Seat[g] => f = g
    BY ScrubAssumption
  <2> QED
    BY <2>1, <2>2, <1>3 DEF NoLinks
<1>6. DiskApart
  BY <1>3, <1>4 DEF DiskApart
<1>7. UserSettled
  <2>1. ASSUME NEW f \in Files, stored[f] # Absent PROVE data[Seat[f]] = stored[f]
    <3>1. (CHOOSE g \in Files : Seat[g] = Seat[f]) = f /\ Seat[f] \in Inodes
      BY ScrubAssumption
    <3> QED
      BY <2>1, <3>1, <1>2
  <2>2. ASSUME NEW f \in Files, dir[User(f)] # NoInode
        PROVE  data[dir[User(f)]] \in whole
    <3>1. stored[f] # Absent /\ dir[User(f)] = Seat[f]
      BY <2>2, <1>4
    <3>2. stored[f] \in whole
      BY <3>1, <1>2
    <3> QED
      BY <3>1, <3>2, <2>1
  <2> QED
    BY <2>2, <1>3 DEF UserSettled
<1>8. Discipline /\ Handles
  BY <1>3 DEF Discipline, Exclusive, WritesOnlyAsScrub, Writes, Running,
              Handles, CopyApart, TmpOwned, TmpWritten, TmpSynced
<1> QED
  BY <1>1, <1>5, <1>6, <1>7, <1>8, SafetyParts DEF Settled

LEMMA StepSafe == Serialize /\ SafetyInv /\ [Next]_vars => SafetyInv'
<1> SUFFICES ASSUME Serialize, SafetyInv, [Next]_vars PROVE SafetyInv'
  OBVIOUS
<1>1. TypeOK'
  BY StepTyped, SafetyParts
<1>2. CASE Run
  BY <1>1, <1>2, StartSafe, LocalSafe, CopyOpenSafe, CopyBlockSafe, OpenTmpSafe, WriteTmpSafe,
     SyncTmpSafe, RenameTmpSafe DEF Run, Progress, Fail, Refused, Kill, Running
<1>3. CASE \E f \in Files, c \in Captures : Update(f, c)
  BY <1>1, <1>3, UpdateSafe
<1>4. CASE Kernel \/ PowerLoss \/ UNCHANGED vars
  BY <1>1, <1>4, KernelSafe, PowerLossSafe, StutterSafe
<1> QED
  BY <1>2, <1>3, <1>4 DEF Next, CalmNext

LEMMA SafetyImplies == SafetyInv => WholeFiles /\ CrashSafe
  BY NamesApart DEF SafetyInv, UserSettled, WholeFiles, CrashSafe, Visible, Durable

(* Scrubs of one destination are not run at the same time: then a reader of *)
(* a user's file always gets a whole content, for any number of processes,  *)
(* files and blocks, with failing calls, kills and power losses.           *)
THEOREM Atomic == Serialize => (Spec => []WholeFiles)
<1> SUFFICES ASSUME Serialize PROVE Spec => []WholeFiles
  OBVIOUS
<1>1. Init => SafetyInv
  BY InitSafe
<1>2. SafetyInv /\ [Next]_vars => SafetyInv'
  BY StepSafe
<1>3. SafetyInv => WholeFiles
  BY SafetyImplies
<1> QED
  BY <1>1, <1>2, <1>3, PTL DEF Spec

(* Under the same condition, what a power loss would leave at any moment is *)
(* whole too.                                                              *)
THEOREM SurvivesPowerLoss == Serialize => (Spec => []CrashSafe)
<1> SUFFICES ASSUME Serialize PROVE Spec => []CrashSafe
  OBVIOUS
<1>1. Init => SafetyInv
  BY InitSafe
<1>2. SafetyInv /\ [Next]_vars => SafetyInv'
  BY StepSafe
<1>3. SafetyInv => CrashSafe
  BY SafetyImplies
<1> QED
  BY <1>1, <1>2, <1>3, PTL DEF Spec
-----------------------------------------------------------------------------
(* What scrub has computed, once it has: a redaction of a content that was   *)
(* a file, with zero at every hit, recorded among the outputs.             *)
RedactedBy(p) ==
    /\ \E k \in whole : bytes[p] \in RedactionsOf(k)
    /\ \A i \in hits[p] : bytes[p][i] = Zero
    /\ bytes[p] \in outputs

(* What a process has in memory at each stage. *)
Holds(p) ==
    /\ pc[p] \in {"open", "scan", "copy", "copying", "apply", "tmp", "write", "rename"} => fmt[p] \in Formats
    /\ pc[p] \in {"scan", "copy", "copying", "apply"} => bytes[p] \in whole
    /\ pc[p] \in {"copy", "copying", "apply"} => hits[p] = Hits(fmt[p], bytes[p])
    /\ pc[p] \in {"tmp", "write", "rename"} => RedactedBy(p)
Memory == \A p \in Procs : Holds(p)

(* A step of the others adds contents, and disturbs nobody. *)
LEMMA OthersHold ==
    ASSUME whole \subseteq whole', outputs \subseteq outputs', NEW q \in Procs, Holds(q),
           pc'[q] = pc[q] /\ fmt'[q] = fmt[q] /\ bytes'[q] = bytes[q] /\ hits'[q] = hits[q]
    PROVE  Holds(q)'
<1>1. RedactedBy(q) => RedactedBy(q)'
  <2>1. \A k : RedactionsOf(k)' = RedactionsOf(k)
    BY DEF RedactionsOf
  <2> QED
    BY <2>1 DEF RedactedBy
<1>2. Hits(fmt'[q], bytes'[q]) = Hits(fmt[q], bytes[q])
  OBVIOUS
<1> QED
  BY <1>1, <1>2 DEF Holds

(* A process that has ended, or has only started, needs nothing. *)
LEMMA NothingHeld ==
    ASSUME NEW q, pc'[q] \in {"idle", "head"} \cup Stopped
    PROVE  Holds(q)'
  BY DEF Holds, Stopped

(* The handler that is found is one of the registered ones. *)
LEMMA FindFormat == \A c : find(c) \in Formats
  BY ScrubAssumption DEF find

(* The copy of the input keeps what is in memory. *)
LEMMA CopyHolds ==
    ASSUME TypeOK, Memory, NEW p \in Procs, CopyOpen(p) \/ CopyBlock(p) \/ CopyClose(p)
    PROVE  Memory'
<1>1. /\ pc[p] \in {"copy", "copying"} /\ pc'[p] \in {"copying", "apply"}
      /\ \A q \in Procs \ {p} : pc'[q] = pc[q]
      /\ UNCHANGED <<fmt, bytes, hits, whole, outputs>>
  BY DEF CopyOpen, CopyBlock, CopyClose, Step, TypeOK, historyVars
<1>2. Holds(p)'
  BY <1>1 DEF Memory, Holds
<1> QED
  BY <1>1, <1>2, OthersHold DEF Memory

(* The temporary file is written from what was computed. *)
LEMMA WriteHolds ==
    ASSUME TypeOK, Memory, NEW p \in Procs,
           OpenTmp(p) \/ WriteTmp(p) \/ SyncTmp(p) \/ RenameTmp(p)
    PROVE  Memory'
<1>1. /\ pc[p] \in {"tmp", "write", "rename"} /\ pc'[p] \in {"write", "rename", "done"}
      /\ \A q \in Procs \ {p} : pc'[q] = pc[q]
      /\ UNCHANGED <<fmt, bytes, hits, outputs>> /\ whole \subseteq whole'
  BY DEF OpenTmp, WriteTmp, SyncTmp, RenameTmp, Step, TypeOK, historyVars
<1>2. RedactedBy(p)'
  <2>1. \A k : RedactionsOf(k)' = RedactionsOf(k)
    BY DEF RedactionsOf
  <2> QED
    BY <1>1, <2>1 DEF Memory, Holds, RedactedBy
<1>3. Holds(p)'
  BY <1>1, <1>2 DEF Memory, Holds
<1> QED
  BY <1>1, <1>3, OthersHold DEF Memory

(* Reading, scanning and redacting: what is read was a file, the hits are    *)
(* those of the handler, and the redaction is by them.                     *)
LEMMA ReadHeadHolds ==
    ASSUME TypeOK, Memory, NEW p \in Procs, ReadHead(p)
    PROVE  Memory'
<1>1. /\ pc'[p] = "open" /\ fmt'[p] = find(Visible(Input(p)))
      /\ \A q \in Procs \ {p} : pc'[q] = pc[q] /\ fmt'[q] = fmt[q]
      /\ UNCHANGED <<bytes, hits, whole, outputs>>
  BY DEF ReadHead, Step, TypeOK, historyVars
<1>2. Holds(p)'
  BY <1>1, FindFormat DEF Holds
<1> QED
  BY <1>1, <1>2, OthersHold DEF Memory

LEMMA OpenPathHolds ==
    ASSUME SafetyInv, Memory, NEW p \in Procs, OpenPath(p)
    PROVE  Memory'
<1>1. TypeOK /\ WholeFiles
  BY SafetyParts, SafetyImplies
<1>2. /\ pc[p] = "open" /\ pc'[p] = "scan" /\ bytes'[p] = Visible(Input(p))
      /\ \A q \in Procs \ {p} : pc'[q] = pc[q] /\ bytes'[q] = bytes[q]
      /\ dir[Input(p)] # NoInode
      /\ UNCHANGED <<fmt, hits, whole, outputs>>
  BY <1>1 DEF OpenPath, Step, TypeOK, historyVars
<1>3. Visible(Input(p)) \in whole
  <2>1. Input(p) \in Names /\ cmd[p].path \in Files /\ Input(p) = User(cmd[p].path)
    BY <1>1, <1>2, CommandNames
  <2>2. Visible(Input(p)) \in Content
    BY <2>1, <1>1, <1>2, VisibleIsContent DEF TypeOK
  <2> QED
    BY <2>1, <2>2, <1>1, FileSystemAssumption DEF WholeFiles, Content
<1>4. Holds(p)'
  BY <1>2, <1>3 DEF Memory, Holds
<1> QED
  BY <1>2, <1>4, OthersHold DEF Memory

LEMMA ScanHolds ==
    ASSUME TypeOK, Memory, NEW p \in Procs, ScanChunks(p)
    PROVE  Memory'
<1>1. /\ pc[p] = "scan" /\ pc'[p] \in {"done", "copy", "apply"}
      /\ hits'[p] = Hits(fmt[p], bytes[p])
      /\ \A q \in Procs \ {p} : pc'[q] = pc[q] /\ hits'[q] = hits[q]
      /\ UNCHANGED <<fmt, bytes, whole, outputs>>
  BY DEF ScanChunks, AfterScan, Step, TypeOK, historyVars
<1>2. Holds(p)'
  BY <1>1 DEF Memory, Holds
<1> QED
  BY <1>1, <1>2, OthersHold DEF Memory

LEMMA ApplyHolds ==
    ASSUME TypeOK, Memory, NEW p \in Procs, Apply(p)
    PROVE  Memory'
<1> DEFINE b == Redact(bytes[p], hits[p])
<1>1. /\ pc[p] = "apply" /\ pc'[p] = "tmp" /\ bytes'[p] = b
      /\ \A q \in Procs \ {p} : pc'[q] = pc[q] /\ bytes'[q] = bytes[q]
      /\ UNCHANGED <<fmt, hits, whole>> /\ outputs' = outputs \cup {b}
  BY DEF Apply, Step, TypeOK
<1>2. fmt[p] \in Formats /\ bytes[p] \in whole /\ hits[p] = Hits(fmt[p], bytes[p])
  BY <1>1 DEF Memory, Holds
<1>3. b \in RedactionsOf(bytes[p])
  BY <1>2 DEF RedactionsOf
<1>4. \A i \in hits[p] : b[i] = Zero
  BY <1>2 DEF Hits, Redact
<1> HIDE DEF b
<1>5. RedactedBy(p)'
  <2>1. \A k : RedactionsOf(k)' = RedactionsOf(k)
    BY DEF RedactionsOf
  <2> QED
    BY <2>1, <1>1, <1>2, <1>3, <1>4 DEF RedactedBy
<1>6. Holds(p)'
  BY <1>1, <1>5 DEF Memory, Holds
<1> QED
  BY <1>1, <1>6, OthersHold DEF Memory

LEMMA StartHolds ==
    ASSUME TypeOK, Memory, NEW p \in Procs, NEW c \in Commands, Start(p, c)
    PROVE  Memory'
<1>1. /\ pc'[p] = IF c.format = NoFormat THEN "head" ELSE "open"
      /\ fmt'[p] = c.format
      /\ \A q \in Procs \ {p} : pc'[q] = pc[q] /\ fmt'[q] = fmt[q]
      /\ UNCHANGED <<bytes, hits, whole, outputs>>
  BY DEF Start, Step, TypeOK, historyVars
<1>2. c.format \in Formats \cup {NoFormat}
  BY ScrubAssumption
<1>3. Holds(p)'
  BY <1>1, <1>2 DEF Holds
<1> QED
  BY <1>1, <1>3, OthersHold DEF Memory

(* Every step keeps what processes have in memory in that relation to the    *)
(* contents that were files.                                               *)
LEMMA StepHolds == SafetyInv /\ Memory /\ [Next]_vars => Memory'
<1> SUFFICES ASSUME SafetyInv, Memory, [Next]_vars PROVE Memory'
  OBVIOUS
<1>1. TypeOK
  BY SafetyParts
<1>2. ASSUME NEW p \in Procs, \E how \in {"failed", "killed"} : EndWith(p, how) PROVE Memory'
  <2>1. /\ pc'[p] \in Stopped /\ \A q \in Procs \ {p} : pc'[q] = pc[q]
        /\ UNCHANGED <<fmt, bytes, hits, whole, outputs>>
    BY <1>1, <1>2 DEF EndWith, TypeOK, historyVars, Stopped
  <2> QED
    BY <2>1, OthersHold, NothingHeld DEF Memory
<1>3. CASE Run
  BY <1>1, <1>2, <1>3, StartHolds, ReadHeadHolds, OpenPathHolds, ScanHolds, CopyHolds, ApplyHolds,
     WriteHolds DEF Run, Progress, Refused, Fail, Kill
<1>4. CASE PowerLoss
  <2>1. /\ \A q \in Procs : pc'[q] = pc[q] \/ pc'[q] = "killed"
        /\ UNCHANGED <<fmt, bytes, hits, whole, outputs>>
    BY <1>4 DEF PowerLoss, historyVars
  <2> QED
    BY <2>1, OthersHold, NothingHeld DEF Memory, Stopped
<1>5. CASE Kernel \/ (\E f \in Files, c \in Captures : Update(f, c)) \/ UNCHANGED vars
  <2>1. UNCHANGED <<pc, fmt, bytes, hits, outputs>> /\ whole \subseteq whole'
    BY <1>5 DEF Kernel, CommitDirectory, WriteBack, Update, vars, procVars, historyVars
  <2> QED
    BY <2>1, OthersHold DEF Memory
<1> QED
  BY <1>3, <1>4, <1>5 DEF Next, CalmNext

LEMMA InitHolds == Init => Memory
  BY DEF Init, Memory, Holds
-----------------------------------------------------------------------------
(* What users see of the files, and what would survive a power loss. *)
UserView == <<AsFile, AsDisk>>

(* The views as equations about one file each. *)
LEMMA ViewOf ==
    \A f \in Files : /\ AsFile[f] = Visible(User(f))  /\ AsDisk[f] = Durable(User(f))
                     /\ AsFile'[f] = Visible(User(f))' /\ AsDisk'[f] = Durable(User(f))'
  BY DEF AsFile, AsDisk

LEMMA SameFile ==
    (\A f \in Files : Visible(User(f))' = Visible(User(f))) => AsFile' = AsFile
  BY DEF AsFile

LEMMA SameDisk ==
    (\A f \in Files : Durable(User(f))' = Durable(User(f))) => AsDisk' = AsDisk
  BY DEF AsDisk

LEMMA SameView ==
    ASSUME \A f \in Files : /\ dir'[User(f)] = dir[User(f)] /\ ddir'[User(f)] = ddir[User(f)]
                            /\ dir[User(f)] # NoInode => data'[dir[User(f)]] = data[dir[User(f)]]
                            /\ ddir[User(f)] # NoInode => ddata'[ddir[User(f)]] = ddata[ddir[User(f)]]
    PROVE  UNCHANGED UserView
  BY SameFile, SameDisk DEF UserView, Visible, Durable

(* Opening a temporary file or a backup, and writing to it, is not seen;     *)
(* neither is what the kernel or fsync writes to disk.                     *)
LEMMA OpenUnseen ==
    ASSUME SafetyInv, NEW p \in Procs, CopyOpen(p) \/ OpenTmp(p)
    PROVE  UNCHANGED UserView
<1> DEFINE g == IF pc[p] = "copy" THEN cmd[p].path ELSE Output(p)
           n == IF pc[p] = "copy" THEN backup_path(g) ELSE tmp_sibling(g)
           i == Target(n, InUse)
<1>1. TypeOK /\ Settled /\ FsTypeOK
  BY SafetyParts DEF TypeOK
<1>2. /\ pc[p] \in {"copy", "tmp"} /\ OpenTruncate(n, InUse) /\ whole' = whole
  BY DEF CopyOpen, OpenTmp, Step, historyVars
<1>3. g \in Files /\ n \in {tmp_sibling(g), backup_path(g)} /\ n \in Names
  BY <1>1, <1>2, CommandNames, NamesApart
<1> HIDE DEF g
<1> HIDE DEF n
<1>4. /\ \A f \in Files : i \notin {dir'[User(f)], ddir'[User(f)]}
      /\ \A m \in Names \ {n} : dir'[m] = dir[m]
  BY <1>1, <1>2, <1>3, OpenSettled
<1>5. /\ i \in Inodes /\ ddir' = ddir
      /\ \A j \in Inodes \ {i} : data'[j] = data[j] /\ ddata'[j] = ddata[j]
  BY <1>1, <1>2, <1>3, TargetIsInode, FreeIsUnused DEF OpenTruncate, FsTypeOK
<1>6. \A f \in Files : User(f) \in Names \ {n}
  BY <1>3, NamesApart
<1> HIDE DEF i
<1>7. \A f \in Files : /\ dir[User(f)] # NoInode => dir[User(f)] \in Inodes
                       /\ ddir[User(f)] # NoInode => ddir[User(f)] \in Inodes
  BY <1>1, NamesApart DEF FsTypeOK
<1> QED
  BY <1>4, <1>5, <1>6, <1>7, SameView

LEMMA WriteUnseen ==
    ASSUME SafetyInv, NEW p \in Procs, CopyBlock(p) \/ WriteTmp(p)
    PROVE  UNCHANGED UserView
<1>1. TypeOK /\ Settled /\ Handles /\ FsTypeOK
  BY SafetyParts DEF TypeOK
<1>2. /\ pc[p] \in {"copying", "write"} /\ \E k, b : WriteBlock(fd[p], k, b)
      /\ fd[p] \in Inodes
  BY <1>1 DEF CopyBlock, WriteTmp, Step, TypeOK
<1>3. UNCHANGED <<dir, ddir, ddata>> /\ \A j \in Inodes \ {fd[p]} : data'[j] = data[j]
  BY <1>1, <1>2 DEF WriteBlock, FsTypeOK
<1>4. \A f \in Files : dir[User(f)] # fd[p]
  <2>1. CASE pc[p] = "copying"
    BY <2>1, <1>1 DEF Handles, CopyApart
  <2>2. CASE pc[p] = "write"
    <3>1. fd[p] = dir[tmp_sibling(Output(p))] /\ Output(p) \in Files
      BY <2>2, <1>1, CommandNames DEF Handles, TmpOwned
    <3> QED
      BY <3>1, <1>1, <1>2, NamesApart, FileSystemAssumption DEF Settled, NoLinks
  <2> QED
    BY <1>2, <2>1, <2>2
<1>5. \A f \in Files : dir[User(f)] # NoInode => dir[User(f)] \in Inodes
  BY <1>1, NamesApart DEF FsTypeOK
<1> QED
  BY <1>3, <1>4, <1>5, SameView

LEMMA SyncUnseen ==
    ASSUME SafetyInv, NEW i \in Inodes, SyncData(i)
    PROVE  UNCHANGED UserView
<1>1. Settled /\ FsTypeOK
  BY SafetyParts DEF TypeOK
<1>2. UNCHANGED <<dir, data, ddir>> /\ \A j \in Inodes : ddata'[j] = IF j = i THEN data[i] ELSE ddata[j]
  BY <1>1 DEF SyncData, FsTypeOK
<1>3. \A f \in Files : ddir[User(f)] # NoInode =>
         ddir[User(f)] \in Inodes /\ ddata[ddir[User(f)]] = data[ddir[User(f)]]
  BY <1>1, NamesApart DEF FsTypeOK, Settled, UserSettled
<1> QED
  BY <1>2, <1>3, SameView

(* The rename is seen in one file, and publishes the buffer of the process. *)
LEMMA RenameSeen ==
    ASSUME SafetyInv, NEW p \in Procs, RenameTmp(p)
    PROVE  /\ Output(p) \in Files
           /\ AsFile' = [AsFile EXCEPT ![Output(p)] = bytes[p]]
           /\ AsDisk' = AsDisk
<1>1. TypeOK /\ Settled /\ Handles /\ FsTypeOK
  BY SafetyParts DEF TypeOK
<1>2. pc[p] = "rename" /\ Rename(tmp_sibling(Output(p)), User(Output(p)))
  BY DEF RenameTmp, Step
<1>3. PICK g \in Files : g = Output(p)
  BY <1>1, <1>2, CommandNames
<1> DEFINE t == tmp_sibling(g)
           u == User(g)
<1>4. t \in Names /\ u \in Names /\ t # u
  BY NamesApart
<1>5. data[dir[t]] = bytes[p] /\ dir[t] # NoInode
  BY <1>1, <1>2, <1>3 DEF Handles, TmpOwned, TmpSynced, Rename
<1>6. /\ dir'[u] = dir[t]
      /\ \A m \in Names \ {u, t} : dir'[m] = dir[m]
      /\ UNCHANGED <<data, ddir, ddata>>
  BY <1>1, <1>2, <1>3, <1>4 DEF Rename, FsTypeOK
<1>7. \A f \in Files : Visible(User(f))' = IF f = g THEN bytes[p] ELSE Visible(User(f))
  <2>1. \A f \in Files \ {g} : User(f) \in Names \ {u, t}
    BY NamesApart
  <2> QED
    BY <2>1, <1>5, <1>6 DEF Visible
<1>8. AsFile' = [AsFile EXCEPT ![g] = bytes[p]]
  BY <1>7 DEF AsFile
<1>9. AsDisk' = AsDisk
  BY <1>6, SameDisk DEF Durable
<1> QED
  BY <1>3, <1>8, <1>9

(* A producer's update is seen in one file, and on disk at once. *)
LEMMA UpdateSeen ==
    ASSUME SafetyInv, NEW g \in Files, NEW c \in Captures, Update(g, c)
    PROVE  /\ AsFile' = [AsFile EXCEPT ![g] = c]
           /\ AsDisk' = [AsDisk EXCEPT ![g] = c]
<1> DEFINE i == CHOOSE j \in Free(InUse) : TRUE
<1>1. FsTypeOK /\ Produce(g, c, InUse)
  BY SafetyParts DEF TypeOK, Update
<1>2. i \in Free(InUse)
  BY <1>1 DEF Produce
<1>3. i \in Inodes /\ \A m \in Names : dir[m] # i /\ ddir[m] # i
  BY <1>2, FreeIsUnused
<1>4. /\ dir'[User(g)] = i /\ ddir'[User(g)] = i /\ data'[i] = c /\ ddata'[i] = c
      /\ \A m \in Names \ {User(g)} : dir'[m] = dir[m] /\ ddir'[m] = ddir[m]
      /\ \A j \in Inodes \ {i} : data'[j] = data[j] /\ ddata'[j] = ddata[j]
  BY <1>1, <1>3, NamesApart DEF Produce, FsTypeOK
<1> HIDE DEF i
<1>5. Visible(User(g))' = c /\ Durable(User(g))' = c
  BY <1>3, <1>4, FileSystemAssumption DEF Visible, Durable
<1>6. \A f \in Files \ {g} : /\ Visible(User(f))' = Visible(User(f))
                             /\ Durable(User(f))' = Durable(User(f))
  <2>1. ASSUME NEW f \in Files \ {g} PROVE User(f) \in Names \ {User(g)}
    BY NamesApart
  <2>2. ASSUME NEW f \in Files \ {g}
        PROVE  /\ dir'[User(f)] = dir[User(f)] /\ ddir'[User(f)] = ddir[User(f)]
               /\ dir[User(f)] # NoInode => dir[User(f)] \in Inodes \ {i}
               /\ ddir[User(f)] # NoInode => ddir[User(f)] \in Inodes \ {i}
    BY <2>1, <1>1, <1>3, <1>4 DEF FsTypeOK
  <2> QED
    BY <2>2, <1>4 DEF Visible, Durable
<1>7. /\ AsFile' = [f \in Files |-> IF f = g THEN c ELSE Visible(User(f))]
      /\ AsDisk' = [f \in Files |-> IF f = g THEN c ELSE Durable(User(f))]
  BY <1>5, <1>6 DEF AsFile, AsDisk
<1> QED
  BY <1>7 DEF AsFile, AsDisk

(* The journal's commit brings all files to disk, a power loss brings all    *)
(* back from there.                                                        *)
LEMMA CommitSettles == SafetyInv /\ CommitDirectory => AsDisk' = AsFile /\ AsFile' = AsFile
<1> SUFFICES ASSUME SafetyInv, CommitDirectory PROVE AsDisk' = AsFile /\ AsFile' = AsFile
  OBVIOUS
<1>1. ddir' = dir /\ UNCHANGED <<dir, data, ddata>>
  BY DEF CommitDirectory, SyncDirectory
<1>2. \A f \in Files : dir[User(f)] # NoInode => ddata[dir[User(f)]] = data[dir[User(f)]]
  BY SafetyParts DEF Settled, UserSettled
<1> QED
  BY <1>1, <1>2 DEF AsFile, AsDisk, Visible, Durable

LEMMA PowerLossRestores == PowerLoss => AsFile' = AsDisk /\ AsDisk' = AsDisk
  BY DEF PowerLoss, LosePower, AsFile, AsDisk, Visible, Durable
-----------------------------------------------------------------------------
(* A step of a process that is no rename, and a write-back of the kernel,    *)
(* leave the users' view alone.                                            *)
LEMMA UnseenStep ==
    ASSUME SafetyInv, \A p \in Procs : ~ RenameTmp(p),
           Run \/ (\E i \in Inodes : WriteBack(i)) \/ UNCHANGED vars
    PROVE  UNCHANGED UserView /\ UNCHANGED <<whole, updates>>
<1>1. UNCHANGED fsVars => UNCHANGED UserView
  BY SameView DEF fsVars
<1>2. CASE Run
  <2>1. PICK p \in Procs : (\E c \in Commands : Start(p, c)) \/ Progress(p) \/ Fail(p) \/ Kill(p)
    BY <1>2 DEF Run
  <2>2. UNCHANGED <<whole, updates>>
    BY <2>1 DEF Start, Progress, ReadHead, OpenPath, ScanChunks, CopyOpen, CopyBlock, CopyClose, Apply,
                OpenTmp, WriteTmp, SyncTmp, Refused, Fail, Kill, EndWith, historyVars
  <2>3. CASE CopyOpen(p) \/ OpenTmp(p) \/ CopyBlock(p) \/ WriteTmp(p)
    BY <2>2, <2>3, OpenUnseen, WriteUnseen
  <2>4. CASE SyncTmp(p)
    <3>1. fd[p] \in Inodes /\ SyncData(fd[p])
      BY <2>4, SafetyParts DEF SyncTmp, Step, TypeOK
    <3> QED
      BY <2>2, <3>1, SyncUnseen
  <2>5. CASE (\E c \in Commands : Start(p, c)) \/ ReadHead(p) \/ OpenPath(p) \/ ScanChunks(p)
             \/ CopyClose(p) \/ Apply(p) \/ Refused(p) \/ Fail(p) \/ Kill(p)
    <3>1. UNCHANGED fsVars
      BY <2>5 DEF Start, ReadHead, OpenPath, ScanChunks, CopyClose, Apply, Refused, Fail, Kill, EndWith
    <3> QED
      BY <3>1, <2>2, <1>1
  <2> QED
    BY <2>1, <2>3, <2>4, <2>5 DEF Progress
<1>3. ASSUME NEW i \in Inodes, WriteBack(i) PROVE UNCHANGED UserView /\ UNCHANGED <<whole, updates>>
  BY <1>3, SyncUnseen DEF WriteBack, historyVars
<1>4. CASE UNCHANGED vars
  BY <1>1, <1>4 DEF vars, historyVars
<1> QED
  BY <1>2, <1>3, <1>4

(* Every step is a step of the promise, or is not seen. *)
LEMMA PromiseStep == SafetyInv /\ Memory /\ [Next]_vars => [Promise!Next]_(Promise!vars)
<1> SUFFICES ASSUME SafetyInv, Memory, [Next]_vars
             PROVE  Promise!Next \/ UNCHANGED Promise!vars
  OBVIOUS
<1>1. ASSUME NEW p \in Procs, RenameTmp(p) PROVE Promise!Next
  <2>1. pc[p] = "rename" /\ whole' = whole \cup {bytes[p]}
    BY <1>1 DEF RenameTmp, Step
  <2>2. PICK k \in whole : bytes[p] \in RedactionsOf(k)
    BY <2>1 DEF Memory, Holds, RedactedBy
  <2>3. Output(p) \in Files /\ Promise!Scrub(Output(p), bytes[p])
    BY <1>1, <2>1, RenameSeen DEF Promise!Scrub
  <2> QED
    BY <2>2, <2>3 DEF Promise!Next
<1>2. ASSUME NEW f \in Files, NEW c \in Captures, Update(f, c) PROVE Promise!Next
  <2>1. Promise!Store(f, c)
    BY <1>2, UpdateSeen DEF Promise!Store, Update
  <2> QED
    BY <2>1 DEF Promise!Next
<1>3. CASE CommitDirectory
  <2>1. Promise!Settle
    BY <1>3, CommitSettles DEF Promise!Settle, CommitDirectory, historyVars
  <2> QED
    BY <2>1 DEF Promise!Next
<1>4. CASE PowerLoss
  <2>1. Promise!PowerLoss
    BY <1>4, PowerLossRestores DEF Promise!PowerLoss, PowerLoss, historyVars
  <2> QED
    BY <2>1 DEF Promise!Next
<1>5. CASE /\ \A p \in Procs : ~ RenameTmp(p)
           /\ Run \/ (\E i \in Inodes : WriteBack(i)) \/ UNCHANGED vars
  BY <1>5, UnseenStep DEF Promise!vars, UserView
<1> QED
  BY <1>1, <1>2, <1>3, <1>4, <1>5 DEF Next, CalmNext, Kernel

LEMMA PromiseInit == Init => Promise!Init
<1> SUFFICES ASSUME Init PROVE Promise!Init
  OBVIOUS
<1>1. PICK stored \in [Files -> Captures \cup {Absent}] :
        /\ dir = [n \in Names |-> IF n[2] = "" /\ stored[n[1]] # Absent
                                   THEN Seat[n[1]] ELSE NoInode]
        /\ data = [i \in Inodes |->
                     IF \E f \in Files : Seat[f] = i /\ stored[f] # Absent
                       THEN stored[CHOOSE f \in Files : Seat[f] = i]
                       ELSE << >>]
        /\ whole = {stored[f] : f \in Files} \ {Absent}
  BY DEF Init
<1>2. ASSUME NEW f \in Files PROVE Visible(User(f)) = stored[f]
  <2>1. dir[User(f)] = IF stored[f] # Absent THEN Seat[f] ELSE NoInode
    BY <1>1, NamesApart DEF User
  <2>2. stored[f] # Absent => data[Seat[f]] = stored[f]
    <3>1. (CHOOSE g \in Files : Seat[g] = Seat[f]) = f /\ Seat[f] \in Inodes
      BY ScrubAssumption
    <3> QED
      BY <3>1, <1>1
  <2>3. Seat[f] # NoInode
    BY ScrubAssumption, FileSystemAssumption
  <2> QED
    BY <2>1, <2>2, <2>3 DEF Visible
<1>3. AsFile = stored
  BY <1>2 DEF AsFile
<1>4. AsDisk = AsFile
  BY DEF Init, AsDisk, AsFile, Visible, Durable
<1> QED
  BY <1>1, <1>3, <1>4 DEF Promise!Init

(* Under serialized scrubs the command line implements the replacement of    *)
(* whole files: whatever calls fail, whoever is killed, whenever the power  *)
(* goes, a file changes only to a producer's capture, to a redaction of     *)
(* something that was a file, or back to what was on disk.                 *)
THEOREM ReplacesWholeFiles == Serialize => (Spec => ImplementsReplace)
<1> SUFFICES ASSUME Serialize PROVE Spec => ImplementsReplace
  OBVIOUS
<1>1. Init => SafetyInv /\ Memory /\ Promise!Init
  BY InitSafe, InitHolds, PromiseInit
<1>2. SafetyInv /\ Memory /\ [Next]_vars => SafetyInv' /\ Memory'
  BY StepSafe, StepHolds
<1>3. SafetyInv /\ Memory /\ [Next]_vars => [Promise!Next]_(Promise!vars)
  BY PromiseStep
<1> QED
  BY <1>1, <1>2, <1>3, PTL DEF Spec, ImplementsReplace, Promise!Spec

(* Without a power loss, a file that no producer replaces changes only by    *)
(* the rename that publishes the complete buffer of a scrub with this       *)
(* destination, zero at every hit.                                         *)
THEOREM PublishesOnlyRedaction == Serialize => (CalmSpec => PublishesRedaction)
<1> SUFFICES ASSUME Serialize PROVE CalmSpec => PublishesRedaction
  OBVIOUS
<1>1. Init => SafetyInv /\ Memory
  BY InitSafe, InitHolds
<1>2. SafetyInv /\ Memory /\ [CalmNext]_vars => SafetyInv' /\ Memory'
  BY StepSafe, StepHolds DEF Next
<1>3. SafetyInv /\ Memory /\ [CalmNext]_vars =>
        [\A f \in Files : Visible(User(f))' # Visible(User(f)) /\ updates' = updates =>
            \E p \in Procs : /\ pc[p] = "rename" /\ pc'[p] = "done"
                             /\ Output(p) = f
                             /\ Visible(User(f))' = bytes[p]
                             /\ \A i \in hits[p] : bytes[p][i] = Zero]_vars
  <2> DEFINE Published(f, p) == /\ pc[p] = "rename" /\ pc'[p] = "done" /\ Output(p) = f
                                /\ Visible(User(f))' = bytes[p]
                                /\ \A i \in hits[p] : bytes[p][i] = Zero
  <2> SUFFICES ASSUME SafetyInv, Memory, [CalmNext]_vars, NEW f \in Files,
                      Visible(User(f))' # Visible(User(f)), updates' = updates
               PROVE  \E p \in Procs : Published(f, p)
    OBVIOUS
  <2>1. TypeOK /\ AsFile[f] = Visible(User(f)) /\ AsFile'[f] = Visible(User(f))'
    BY SafetyParts, ViewOf
  <2>2. ASSUME NEW p \in Procs, RenameTmp(p) PROVE Published(f, p)
    <3>1. pc[p] = "rename" /\ pc'[p] = "done"
      BY <2>1, <2>2 DEF RenameTmp, Step, TypeOK
    <3>2. AsFile' = [AsFile EXCEPT ![Output(p)] = bytes[p]]
      BY <2>2, RenameSeen
    <3>3. Output(p) = f /\ AsFile'[f] = bytes[p]
      BY <3>2, <2>1 DEF AsFile
    <3> QED
      BY <3>1, <3>3, <2>1 DEF Memory, Holds, RedactedBy
  <2>3. \A g \in Files, c \in Captures : ~ Update(g, c)
    BY <2>1 DEF Update, TypeOK
  <2>4. CASE /\ \A p \in Procs : ~ RenameTmp(p)
             /\ Run \/ (\E i \in Inodes : WriteBack(i)) \/ UNCHANGED vars
    <3>1. UNCHANGED UserView
      BY <2>4, UnseenStep
    <3> QED
      BY <3>1, <2>1 DEF UserView
  <2> HIDE DEF Published
  <2>5. (Run \/ \E g \in Files, c \in Captures : Update(g, c)) \/ UNCHANGED vars
    BY DEF CalmNext
  <2> QED
    BY <2>2, <2>3, <2>4, <2>5
<1> QED
  BY <1>1, <1>2, <1>3, PTL DEF CalmSpec, PublishesRedaction
-----------------------------------------------------------------------------
(* What a temporary file may hold, now and after a power loss, whichever of  *)
(* the two directories one follows: the beginning of an output.            *)
TmpClean ==
    \A f \in Files : \A i \in {dir[tmp_sibling(f)], ddir[tmp_sibling(f)]} :
        i # NoInode => BeginningOfOutput(data[i]) /\ BeginningOfOutput(ddata[i])

(* What may be a temporary file after a power loss is no backup now, and     *)
(* nothing is copied into it.                                              *)
BackupsApart ==
    \A f, g \in Files : ddir[tmp_sibling(f)] # NoInode
                          => dir[backup_path(g)] # ddir[tmp_sibling(f)]
CopiesApart ==
    \A p \in Procs : pc[p] = "copying" => \A f \in Files : fd[p] # ddir[tmp_sibling(f)]
LeftOvers == TmpClean /\ BackupsApart /\ CopiesApart

LEMMA BeginningKept ==
    ASSUME outputs \subseteq outputs'
    PROVE  \A c : BeginningOfOutput(c) => BeginningOfOutput(c)'
  BY DEF BeginningOfOutput

(* Nothing at all is the beginning of any output. *)
LEMMA EmptyBegins ==
    ASSUME TypeOK, NEW o \in outputs
    PROVE  BeginningOfOutput(<< >>)
<1>1. o \in Seq(Blocks) /\ Len(o) \in Nat
  BY LenProperties DEF TypeOK, Content
<1>2. SubSeq(o, 1, 0) = << >> /\ Len(<< >>) = 0
  BY <1>1, SubSeqProperties, EmptySeq
<1> QED
  BY <1>1, <1>2 DEF BeginningOfOutput

(* The steps that give no temporary file a content it did not have. *)
LEMMA CleanKept ==
    ASSUME TmpClean, outputs \subseteq outputs',
           \A f \in Files :
              /\ dir'[tmp_sibling(f)] \in {dir[tmp_sibling(f)], ddir[tmp_sibling(f)], NoInode}
              /\ ddir'[tmp_sibling(f)] \in {dir[tmp_sibling(f)], ddir[tmp_sibling(f)], NoInode}
              /\ \A i \in {dir[tmp_sibling(f)], ddir[tmp_sibling(f)]} : i # NoInode =>
                    data'[i] \in {data[i], ddata[i]} /\ ddata'[i] \in {data[i], ddata[i]}
    PROVE  TmpClean'
<1> SUFFICES ASSUME NEW f \in Files, NEW i \in {dir'[tmp_sibling(f)], ddir'[tmp_sibling(f)]}, i # NoInode
             PROVE  (BeginningOfOutput(data[i]) /\ BeginningOfOutput(ddata[i]))'
  BY DEF TmpClean
<1>1. i \in {dir[tmp_sibling(f)], ddir[tmp_sibling(f)]}
  OBVIOUS
<1>2. BeginningOfOutput(data[i]) /\ BeginningOfOutput(ddata[i])
  BY <1>1 DEF TmpClean
<1>3. data'[i] \in {data[i], ddata[i]} /\ ddata'[i] \in {data[i], ddata[i]}
  BY <1>1
<1> QED
  BY <1>2, <1>3 DEF BeginningOfOutput

LEMMA QuietLeavesOvers ==
    ASSUME LeftOvers, UNCHANGED fsVars, outputs \subseteq outputs',
           \A q \in Procs : pc'[q] = "copying" => pc[q] = "copying" /\ fd'[q] = fd[q]
    PROVE  LeftOvers'
<1>1. UNCHANGED <<dir, data, ddir, ddata>>
  BY DEF fsVars
<1>2. TmpClean'
  BY <1>1, CleanKept DEF LeftOvers
<1>3. BackupsApart' /\ CopiesApart'
  BY <1>1 DEF LeftOvers, BackupsApart, CopiesApart
<1> QED
  BY <1>2, <1>3 DEF LeftOvers

(* fs::copy opens a backup, which is no temporary file, and writes to it. *)
LEMMA CopyLeavesOvers ==
    ASSUME SafetyInv, LeftOvers, NEW p \in Procs, CopyOpen(p) \/ CopyBlock(p)
    PROVE  LeftOvers'
<1>1. TypeOK /\ Settled /\ Handles /\ FsTypeOK
  BY SafetyParts DEF TypeOK
<1>2. CASE CopyOpen(p)
  <2>1. /\ pc[p] = "copy" /\ \A q \in Procs \ {p} : pc'[q] = pc[q] /\ fd'[q] = fd[q]
        /\ outputs' = outputs /\ whole' = whole
        /\ OpenTruncate(backup_path(cmd[p].path), InUse)
        /\ fd'[p] = Target(backup_path(cmd[p].path), InUse)
    BY <1>1, <1>2 DEF CopyOpen, Step, TypeOK, historyVars
  <2>2. PICK g \in Files : g = cmd[p].path
    BY <1>1, <2>1, CommandNames
  <2> DEFINE n == backup_path(g)
             i == Target(n, InUse)
  <2>3. n \in Names /\ \A f \in Files : tmp_sibling(f) \in Names \ {n}
    BY NamesApart
  <2>4. i \in Inodes /\ dir'[n] = i /\ \A m \in Names \ {n} : dir'[m] = dir[m] /\ dir[m] # i
    BY <1>1, <2>1, <2>2, <2>3, OpenSettled, TargetIsInode DEF OpenTruncate
  <2>5. /\ ddir' = ddir
        /\ \A j \in Inodes \ {i} : data'[j] = data[j] /\ ddata'[j] = ddata[j]
    BY <1>1, <2>1, <2>2, <2>4 DEF OpenTruncate, FsTypeOK
  <2>6. \A f \in Files : ddir[tmp_sibling(f)] # i
    BY <1>1, <2>1, <2>2, <2>3, <2>4, TargetIsInode, FreeIsUnused, FileSystemAssumption
       DEF LeftOvers, BackupsApart, OpenTruncate
  <2> HIDE DEF i
  <2>7. \A f \in Files : /\ dir[tmp_sibling(f)] # NoInode => dir[tmp_sibling(f)] \in Inodes \ {i}
                         /\ ddir[tmp_sibling(f)] # NoInode => ddir[tmp_sibling(f)] \in Inodes \ {i}
    BY <1>1, <2>3, <2>4, <2>6 DEF FsTypeOK
  <2>8. TmpClean'
    BY <2>1, <2>3, <2>4, <2>5, <2>7, CleanKept DEF LeftOvers
  <2>9. BackupsApart'
    <3>1. \A h \in Files : backup_path(h) \in Names
      BY NamesApart
    <3> QED
      BY <3>1, <2>4, <2>5, <2>6 DEF LeftOvers, BackupsApart
  <2>10. CopiesApart'
    BY <2>1, <2>2, <2>5, <2>6 DEF LeftOvers, CopiesApart, i
  <2> QED
    BY <2>8, <2>9, <2>10 DEF LeftOvers
<1>3. CASE CopyBlock(p)
  <2>1. /\ pc[p] = "copying" /\ pc' = pc /\ fd' = fd /\ outputs' = outputs
        /\ \E k, b : WriteBlock(fd[p], k, b)
        /\ fd[p] \in Inodes
    BY <1>1, <1>3 DEF CopyBlock, Step, TypeOK, historyVars
  <2>2. UNCHANGED <<dir, ddir, ddata>> /\ \A j \in Inodes \ {fd[p]} : data'[j] = data[j]
    BY <1>1, <2>1 DEF WriteBlock, FsTypeOK
  <2>3. \A f \in Files : fd[p] \notin {dir[tmp_sibling(f)], ddir[tmp_sibling(f)]}
    BY <1>1, <2>1 DEF Handles, CopyApart, LeftOvers, CopiesApart
  <2>4. \A f \in Files : /\ dir[tmp_sibling(f)] # NoInode => dir[tmp_sibling(f)] \in Inodes
                         /\ ddir[tmp_sibling(f)] # NoInode => ddir[tmp_sibling(f)] \in Inodes
    BY <1>1, NamesApart DEF FsTypeOK
  <2>5. TmpClean'
    BY <2>1, <2>2, <2>3, <2>4, CleanKept DEF LeftOvers
  <2>6. BackupsApart' /\ CopiesApart'
    BY <2>1, <2>2 DEF LeftOvers, BackupsApart, CopiesApart
  <2> QED
    BY <2>5, <2>6 DEF LeftOvers
<1> QED
  BY <1>2, <1>3

(* write_atomic empties its temporary file before it writes ... *)
LEMMA OpenTmpLeavesOvers ==
    ASSUME SafetyInv, Memory, LeftOvers, NEW p \in Procs, OpenTmp(p)
    PROVE  LeftOvers'
<1>1. TypeOK /\ Settled /\ FsTypeOK
  BY SafetyParts DEF TypeOK
<1>2. /\ pc[p] = "tmp" /\ pc'[p] = "write" /\ \A q \in Procs \ {p} : pc'[q] = pc[q] /\ fd'[q] = fd[q]
      /\ outputs' = outputs /\ whole' = whole
      /\ OpenTruncate(tmp_sibling(Output(p)), InUse)
  BY <1>1 DEF OpenTmp, Step, TypeOK, historyVars
<1>3. PICK g \in Files : g = Output(p)
  BY <1>1, <1>2, CommandNames
<1> DEFINE n == tmp_sibling(g)
           i == Target(n, InUse)
<1>4. n \in Names /\ \A f \in Files : f # g => tmp_sibling(f) \in Names \ {n}
  BY NamesApart
<1>5. i \in Inodes /\ dir'[n] = i /\ \A m \in Names \ {n} : dir'[m] = dir[m] /\ dir[m] # i
  BY <1>1, <1>2, <1>3, <1>4, OpenSettled, TargetIsInode DEF OpenTruncate
<1>6. /\ ddir' = ddir /\ data'[i] = << >>
      /\ ddata'[i] = IF dir[n] = NoInode THEN << >> ELSE ddata[i]
      /\ \A j \in Inodes \ {i} : data'[j] = data[j] /\ ddata'[j] = ddata[j]
  BY <1>1, <1>2, <1>3, <1>5 DEF OpenTruncate, FsTypeOK, Emptied
<1>7. BeginningOfOutput(<< >>)
  BY <1>1, <1>2, EmptyBegins DEF Memory, Holds, RedactedBy
<1>8. dir[n] # NoInode => i = dir[n]
  BY <1>1, <1>2, <1>3, <1>4, TargetIsInode DEF OpenTruncate
<1> HIDE DEF i
<1>9. BeginningOfOutput(data'[i]) /\ BeginningOfOutput(ddata'[i])
  BY <1>6, <1>7, <1>8 DEF LeftOvers, TmpClean
<1>10. ASSUME NEW f \in Files, NEW j \in {dir'[tmp_sibling(f)], ddir'[tmp_sibling(f)]}, j # NoInode
       PROVE  BeginningOfOutput(data'[j]) /\ BeginningOfOutput(ddata'[j])
  <2>1. j = i \/ j \in {dir[tmp_sibling(f)], ddir[tmp_sibling(f)]}
    BY <1>4, <1>5, <1>6, <1>10
  <2>2. j \in Inodes
    BY <2>1, <1>1, <1>5, <1>10, NamesApart DEF FsTypeOK
  <2>3. CASE j = i
    BY <2>3, <1>9
  <2>4. CASE j # i
    <3>1. BeginningOfOutput(data[j]) /\ BeginningOfOutput(ddata[j])
      BY <2>1, <2>4, <1>10 DEF LeftOvers, TmpClean
    <3> QED
      BY <3>1, <2>2, <2>4, <1>6
  <2> QED
    BY <2>3, <2>4
<1>11. TmpClean'
  BY <1>2, <1>10, BeginningKept DEF TmpClean
<1>12. BackupsApart' /\ CopiesApart'
  <2>1. \A h \in Files : backup_path(h) \in Names \ {n}
    BY NamesApart
  <2> QED
    BY <2>1, <1>2, <1>5, <1>6 DEF LeftOvers, BackupsApart, CopiesApart
<1> QED
  BY <1>11, <1>12 DEF LeftOvers

(* ... and then holds what has been written of it so far. *)
LEMMA WriteTmpLeavesOvers ==
    ASSUME SafetyInv, SafetyInv', Memory, LeftOvers, NEW p \in Procs, WriteTmp(p)
    PROVE  LeftOvers'
<1>1. TypeOK /\ Settled /\ Handles /\ FsTypeOK /\ TypeOK' /\ Handles'
  BY SafetyParts DEF TypeOK
<1>2. /\ pc[p] = "write" /\ pc' = pc /\ fd' = fd /\ bytes' = bytes /\ outputs' = outputs
      /\ \E k, b : WriteBlock(fd[p], k, b)
      /\ fd[p] \in Inodes
  BY <1>1 DEF WriteTmp, Step, TypeOK, historyVars
<1>3. UNCHANGED <<dir, ddir, ddata>> /\ \A j \in Inodes \ {fd[p]} : data'[j] = data[j]
  BY <1>1, <1>2 DEF WriteBlock, FsTypeOK
<1>4. BeginningOfOutput(data'[fd[p]])
  <2> DEFINE c == data'[fd[p]]
             b == bytes[p]
             n == pos'[p]
  <2>1. /\ c \in Seq(Blocks) /\ b \in Seq(Blocks) /\ n \in Nat /\ b \in outputs
        /\ Len(c) = n /\ n <= Len(b)
        /\ \A j \in 1 .. n : c[j] = b[j]
    BY <1>1, <1>2 DEF Handles, TmpWritten, TypeOK, FsTypeOK, Content, Memory, Holds, RedactedBy
  <2> HIDE DEF c, b, n
  <2>2. Len(b) \in Nat
    BY <2>1, LenProperties
  <2>3. \A j \in 1 .. n : b[j] \in Blocks
    BY <2>1, <2>2, ElementOfSeq
  <2>4. /\ SubSeq(b, 1, n) \in Seq(Blocks) /\ Len(SubSeq(b, 1, n)) = n
        /\ \A j \in 1 .. n : SubSeq(b, 1, n)[j] = b[j]
    <3>1. /\ SubSeq(b, 1, n) \in Seq(Blocks)
          /\ Len(SubSeq(b, 1, n)) = IF 1 <= n THEN n - 1 + 1 ELSE 0
          /\ \A j \in 1 .. n - 1 + 1 : SubSeq(b, 1, n)[j] = b[1 + j - 1]
      BY <2>1, <2>3, SubSeqProperties
    <3>2. n - 1 + 1 = n /\ \A j \in 1 .. n : 1 + j - 1 = j
      BY <2>1
    <3>3. (IF 1 <= n THEN n - 1 + 1 ELSE 0) = n
      BY <2>1
    <3> QED
      BY <3>1, <3>2, <3>3
  <2>5. c = SubSeq(b, 1, n)
    BY <2>1, <2>4, SeqEqual
  <2> QED
    BY <2>1, <2>5 DEF BeginningOfOutput, c
<1>5. ASSUME NEW f \in Files, NEW j \in {dir[tmp_sibling(f)], ddir[tmp_sibling(f)]}, j # NoInode
      PROVE  BeginningOfOutput(data'[j]) /\ BeginningOfOutput(ddata[j])
  <2>1. j \in Inodes
    BY <1>1, <1>5, NamesApart DEF FsTypeOK
  <2>2. BeginningOfOutput(data[j]) /\ BeginningOfOutput(ddata[j])
    BY <1>5 DEF LeftOvers, TmpClean
  <2> QED
    BY <2>1, <2>2, <1>3, <1>4
<1>6. TmpClean'
  <2>1. \A c : BeginningOfOutput(c) => BeginningOfOutput(c)'
    BY <1>2, BeginningKept
  <2> QED
    BY <2>1, <1>2, <1>3, <1>5 DEF TmpClean, BeginningOfOutput
<1>7. BackupsApart' /\ CopiesApart'
  BY <1>2, <1>3 DEF LeftOvers, BackupsApart, CopiesApart
<1> QED
  BY <1>6, <1>7 DEF LeftOvers

(* fsync, write-back, rename and the environment move contents only to where *)
(* they were beginnings before.                                            *)
LEMMA SyncLeavesOvers ==
    ASSUME SafetyInv, LeftOvers, NEW i \in Inodes, SyncData(i), outputs' = outputs,
           \A q \in Procs : pc'[q] = "copying" => pc[q] = "copying" /\ fd'[q] = fd[q]
    PROVE  LeftOvers'
<1>1. FsTypeOK
  BY SafetyParts DEF TypeOK
<1>2. UNCHANGED <<dir, data, ddir>> /\ \A j \in Inodes : ddata'[j] = IF j = i THEN data[j] ELSE ddata[j]
  BY <1>1 DEF SyncData, FsTypeOK
<1>3. \A f \in Files : /\ dir[tmp_sibling(f)] # NoInode => dir[tmp_sibling(f)] \in Inodes
                       /\ ddir[tmp_sibling(f)] # NoInode => ddir[tmp_sibling(f)] \in Inodes
  BY <1>1, NamesApart DEF FsTypeOK
<1>4. TmpClean'
  BY <1>2, <1>3, CleanKept DEF LeftOvers
<1>5. BackupsApart' /\ CopiesApart'
  BY <1>2 DEF LeftOvers, BackupsApart, CopiesApart
<1> QED
  BY <1>4, <1>5 DEF LeftOvers

LEMMA RenameLeavesOvers ==
    ASSUME SafetyInv, LeftOvers, NEW p \in Procs, RenameTmp(p)
    PROVE  LeftOvers'
<1>1. TypeOK /\ FsTypeOK
  BY SafetyParts DEF TypeOK
<1>2. /\ pc[p] = "rename" /\ pc'[p] = "done"
      /\ \A q \in Procs \ {p} : pc'[q] = pc[q] /\ fd'[q] = fd[q]
      /\ Rename(tmp_sibling(Output(p)), User(Output(p))) /\ outputs' = outputs
  BY <1>1 DEF RenameTmp, Step, TypeOK
<1>3. PICK g \in Files : g = Output(p)
  BY <1>1, <1>2, CommandNames
<1>4. /\ dir'[tmp_sibling(g)] = NoInode
      /\ \A m \in Names \ {User(g), tmp_sibling(g)} : dir'[m] = dir[m]
      /\ UNCHANGED <<data, ddir, ddata>>
  BY <1>1, <1>2, <1>3, NamesApart DEF Rename, FsTypeOK
<1>5. \A f \in Files : /\ dir'[tmp_sibling(f)] \in {dir[tmp_sibling(f)], NoInode}
                       /\ dir'[backup_path(f)] = dir[backup_path(f)]
  BY <1>4, NamesApart
<1>6. TmpClean'
  BY <1>2, <1>4, <1>5, CleanKept DEF LeftOvers
<1>7. BackupsApart' /\ CopiesApart'
  BY <1>2, <1>4, <1>5 DEF LeftOvers, BackupsApart, CopiesApart
<1> QED
  BY <1>6, <1>7 DEF LeftOvers

LEMMA UpdateLeavesOvers ==
    ASSUME SafetyInv, LeftOvers, NEW g \in Files, NEW c \in Captures, Update(g, c)
    PROVE  LeftOvers'
<1> DEFINE i == CHOOSE j \in Free(InUse) : TRUE
<1>1. FsTypeOK /\ Produce(g, c, InUse) /\ UNCHANGED <<pc, fd, outputs>>
  BY SafetyParts DEF TypeOK, Update, procVars
<1>2. i \in Free(InUse)
  BY <1>1 DEF Produce
<1>3. i \in Inodes /\ \A m \in Names : dir[m] # i /\ ddir[m] # i
  BY <1>2, FreeIsUnused
<1>4. /\ \A m \in Names \ {User(g)} : dir'[m] = dir[m] /\ ddir'[m] = ddir[m]
      /\ \A j \in Inodes \ {i} : data'[j] = data[j] /\ ddata'[j] = ddata[j]
  BY <1>1, <1>3, NamesApart DEF Produce, FsTypeOK
<1> HIDE DEF i
<1>5. \A f \in Files : {tmp_sibling(f), backup_path(f)} \subseteq Names \ {User(g)}
  BY NamesApart
<1>6. \A f \in Files : /\ dir[tmp_sibling(f)] # NoInode => dir[tmp_sibling(f)] \in Inodes \ {i}
                       /\ ddir[tmp_sibling(f)] # NoInode => ddir[tmp_sibling(f)] \in Inodes \ {i}
  BY <1>1, <1>3, <1>5 DEF FsTypeOK
<1>7. TmpClean'
  BY <1>1, <1>4, <1>5, <1>6, CleanKept DEF LeftOvers
<1>8. BackupsApart' /\ CopiesApart'
  BY <1>1, <1>4, <1>5 DEF LeftOvers, BackupsApart, CopiesApart
<1> QED
  BY <1>7, <1>8 DEF LeftOvers

LEMMA CommitLeavesOvers ==
    ASSUME SafetyInv, LeftOvers, CommitDirectory
    PROVE  LeftOvers'
<1>1. Settled /\ Handles
  BY SafetyParts
<1>2. ddir' = dir /\ UNCHANGED <<dir, data, ddata, pc, fd, outputs>>
  BY DEF CommitDirectory, SyncDirectory, procVars, historyVars
<1>3. TmpClean'
  BY <1>2, CleanKept DEF LeftOvers
<1>4. BackupsApart'
  BY <1>1, <1>2, NamesApart DEF Settled, NoLinks, BackupsApart
<1>5. CopiesApart'
  BY <1>1, <1>2 DEF Handles, CopyApart, CopiesApart
<1> QED
  BY <1>3, <1>4, <1>5 DEF LeftOvers

LEMMA PowerLossLeavesOvers ==
    ASSUME SafetyInv, LeftOvers, PowerLoss
    PROVE  LeftOvers'
<1>1. Settled
  BY SafetyParts
<1>2. dir' = ddir /\ data' = ddata /\ UNCHANGED <<ddir, ddata, outputs>>
  BY DEF PowerLoss, LosePower, historyVars
<1>3. TmpClean'
  BY <1>2, CleanKept DEF LeftOvers
<1>4. BackupsApart'
  BY <1>1, <1>2, NamesApart DEF Settled, NoLinks, BackupsApart
<1>5. CopiesApart'
  BY DEF PowerLoss, Running, CopiesApart
<1> QED
  BY <1>3, <1>4, <1>5 DEF LeftOvers

LEMMA StepLeavesOvers ==
    SafetyInv /\ SafetyInv' /\ Memory /\ LeftOvers /\ [Next]_vars => LeftOvers'
<1> SUFFICES ASSUME SafetyInv, SafetyInv', Memory, LeftOvers, [Next]_vars PROVE LeftOvers'
  OBVIOUS
<1>1. TypeOK
  BY SafetyParts
<1>2. CASE Run
  <2>1. PICK p \in Procs : (\E c \in Commands : Start(p, c)) \/ Progress(p) \/ Fail(p) \/ Kill(p)
    BY <1>2 DEF Run
  <2>2. CASE CopyOpen(p) \/ CopyBlock(p) \/ OpenTmp(p) \/ WriteTmp(p) \/ RenameTmp(p)
    BY <2>2, CopyLeavesOvers, OpenTmpLeavesOvers, WriteTmpLeavesOvers, RenameLeavesOvers
  <2>3. CASE SyncTmp(p)
    <3>1. /\ fd[p] \in Inodes /\ SyncData(fd[p]) /\ outputs' = outputs
          /\ \A q \in Procs : pc'[q] = "copying" => pc[q] = "copying" /\ fd'[q] = fd[q]
      BY <1>1, <2>3 DEF SyncTmp, Step, TypeOK, historyVars
    <3> QED
      BY <3>1, SyncLeavesOvers
  <2>4. CASE (\E c \in Commands : Start(p, c)) \/ ReadHead(p) \/ OpenPath(p) \/ ScanChunks(p)
             \/ CopyClose(p) \/ Apply(p) \/ Refused(p) \/ Fail(p) \/ Kill(p)
    <3>1. UNCHANGED fsVars /\ outputs \subseteq outputs'
      BY <2>4 DEF Start, ReadHead, OpenPath, ScanChunks, CopyClose, Apply, Refused, Fail, Kill, EndWith,
                  historyVars
    <3>2. \A q \in Procs : pc'[q] = "copying" => pc[q] = "copying" /\ fd'[q] = fd[q]
      BY <1>1, <2>4 DEF Start, ReadHead, OpenPath, ScanChunks, AfterScan, CopyClose, Apply, Refused, Fail,
                        Kill, EndWith, Step, TypeOK
    <3> QED
      BY <3>1, <3>2, QuietLeavesOvers
  <2> QED
    BY <2>1, <2>2, <2>3, <2>4 DEF Progress
<1>3. ASSUME NEW i \in Inodes, WriteBack(i) PROVE LeftOvers'
  BY <1>3, SyncLeavesOvers DEF WriteBack, procVars, historyVars
<1>4. CASE UNCHANGED vars
  BY <1>4, QuietLeavesOvers DEF vars, procVars, historyVars
<1>5. CASE CommitDirectory \/ PowerLoss \/ \E f \in Files, c \in Captures : Update(f, c)
  BY <1>5, CommitLeavesOvers, PowerLossLeavesOvers, UpdateLeavesOvers
<1> QED
  BY <1>2, <1>3, <1>4, <1>5 DEF Next, CalmNext, Kernel

LEMMA InitLeavesOvers == Init => LeftOvers
<1> SUFFICES ASSUME Init PROVE LeftOvers
  OBVIOUS
<1>1. \A f \in Files : /\ dir[tmp_sibling(f)] = NoInode /\ ddir[tmp_sibling(f)] = NoInode
  BY NamesApart DEF Init, tmp_sibling
<1> QED
  BY <1>1 DEF Init, LeftOvers, TmpClean, BackupsApart, CopiesApart

(* Under serialized scrubs a temporary sibling that is left behind, by an    *)
(* error, a kill or a power loss, holds the beginning of an output and      *)
(* nothing else: nothing that a scrub had found, nothing of a producer.    *)
THEOREM LeftOversAreRedacted == Serialize => (Spec => []TmpHoldsOnlyOutput)
<1> SUFFICES ASSUME Serialize PROVE Spec => []TmpHoldsOnlyOutput
  OBVIOUS
<1>1. Init => SafetyInv /\ Memory /\ LeftOvers
  BY InitSafe, InitHolds, InitLeavesOvers
<1>2. SafetyInv /\ Memory /\ LeftOvers /\ [Next]_vars => SafetyInv' /\ Memory' /\ LeftOvers'
  BY StepSafe, StepHolds, StepLeavesOvers
<1>3. LeftOvers => TmpHoldsOnlyOutput
  BY DEF LeftOvers, TmpClean, TmpHoldsOnlyOutput, Visible, Durable
<1> QED
  BY <1>1, <1>2, <1>3, PTL DEF Spec
-----------------------------------------------------------------------------
(* A step of one process. *)
Acts(q) == (\E c \in Commands : Start(q, c)) \/ Progress(q) \/ Fail(q) \/ Kill(q)

(* A name keeps its inode and the inode its content. *)
Untouched(n) == dir'[n] = dir[n] /\ (dir[n] # NoInode => data'[dir[n]] = data[dir[n]])

(* The names a process may change next. *)
Touched(q) ==
    IF pc[q] \in {"copy", "copying"} THEN {backup_path(cmd[q].path)}
    ELSE IF pc[q] \in {"tmp", "write"} THEN {tmp_sibling(Output(q))}
    ELSE IF pc[q] = "rename" THEN {tmp_sibling(Output(q)), User(Output(q))}
    ELSE {}

LEMMA UntouchedVisible == \A n : Untouched(n) => Visible(n)' = Visible(n)
  BY DEF Untouched, Visible

LEMMA WriteTouches ==
    ASSUME SafetyInv, NEW i \in Inodes, NEW m \in Names, dir[m] = i,
           \E k, b : WriteBlock(i, k, b)
    PROVE  \A n \in Names \ {m} : Untouched(n)
<1>1. FsTypeOK /\ NoLinks
  BY SafetyParts DEF TypeOK, Settled
<1>2. dir' = dir /\ \A j \in Inodes \ {i} : data'[j] = data[j]
  BY <1>1 DEF WriteBlock, FsTypeOK
<1>3. \A n \in Names \ {m} : dir[n] # NoInode => dir[n] \in Inodes \ {i}
  BY <1>1 DEF FsTypeOK, NoLinks
<1> QED
  BY <1>2, <1>3 DEF Untouched

LEMMA OpenTouches ==
    ASSUME SafetyInv, NEW g \in Files, NEW n \in {tmp_sibling(g), backup_path(g)},
           OpenTruncate(n, InUse), whole' = whole
    PROVE  /\ \A m \in Names \ {n} : Untouched(m)
           /\ Target(n, InUse) \in Inodes
           /\ dir'[n] = Target(n, InUse) /\ data'[Target(n, InUse)] = << >>
<1> DEFINE i == Target(n, InUse)
<1>1. FsTypeOK /\ Settled
  BY SafetyParts DEF TypeOK
<1>2. n \in Names
  BY NamesApart
<1>b. i \in Inodes
  BY <1>1, <1>2, TargetIsInode DEF OpenTruncate
<1>3. dir'[n] = i /\ \A m \in Names \ {n} : dir'[m] = dir[m] /\ dir[m] # i
  BY <1>1, OpenSettled
<1>a. data' = [data EXCEPT ![i] = << >>]
  BY DEF OpenTruncate, Emptied
<1> HIDE DEF i
<1>4. data'[i] = << >> /\ \A j \in Inodes \ {i} : data'[j] = data[j]
  BY <1>1, <1>b, <1>a DEF FsTypeOK
<1>5. \A m \in Names \ {n} : dir[m] # NoInode => dir[m] \in Inodes \ {i}
  BY <1>1, <1>3 DEF FsTypeOK
<1>6. \A m \in Names \ {n} : Untouched(m)
  BY <1>3, <1>4, <1>5 DEF Untouched
<1>7. Target(n, InUse) \in Inodes /\ dir'[n] = Target(n, InUse) /\ data'[Target(n, InUse)] = << >>
  BY <1>b, <1>3, <1>4 DEF i
<1> QED
  BY <1>6, <1>7

(* A process changes only the names that are its own at this point. *)
LEMMA OnlyTouched ==
    ASSUME SafetyInv, KeptInv, NEW q \in Procs, Acts(q)
    PROVE  \A n \in Names \ Touched(q) : Untouched(n)
<1>1. TypeOK /\ Handles /\ Settled /\ FsTypeOK
  BY SafetyParts DEF TypeOK
<1>2. CASE CopyOpen(q)
  <2>1. pc[q] = "copy" /\ OpenTruncate(backup_path(cmd[q].path), InUse) /\ whole' = whole
        /\ cmd[q].path \in Files
    BY <1>1, <1>2, CommandNames DEF CopyOpen, Step, historyVars
  <2> QED
    BY <2>1, OpenTouches DEF Touched
<1>3. CASE OpenTmp(q)
  <2>1. pc[q] = "tmp" /\ OpenTruncate(tmp_sibling(Output(q)), InUse) /\ whole' = whole
        /\ Output(q) \in Files
    BY <1>1, <1>3, CommandNames DEF OpenTmp, Step, historyVars
  <2> QED
    BY <2>1, OpenTouches DEF Touched
<1>4. CASE CopyBlock(q)
  <2>1. pc[q] = "copying" /\ fd[q] \in Inodes /\ (\E k, b : WriteBlock(fd[q], k, b))
        /\ cmd[q].path \in Files
    BY <1>1, <1>4, CommandNames DEF CopyBlock, Step, TypeOK
  <2>2. fd[q] = dir[backup_path(cmd[q].path)]
    BY <2>1 DEF KeptInv, BackedUp, Running
  <2> QED
    BY <2>1, <2>2, WriteTouches, NamesApart DEF Touched
<1>5. CASE WriteTmp(q)
  <2>1. pc[q] = "write" /\ fd[q] \in Inodes /\ (\E k, b : WriteBlock(fd[q], k, b))
        /\ Output(q) \in Files
    BY <1>1, <1>5, CommandNames DEF WriteTmp, Step, TypeOK
  <2>2. fd[q] = dir[tmp_sibling(Output(q))]
    BY <1>1, <2>1 DEF Handles, TmpOwned
  <2> QED
    BY <2>1, <2>2, WriteTouches, NamesApart DEF Touched
<1>6. CASE RenameTmp(q)
  <2>1. pc[q] = "rename" /\ Rename(tmp_sibling(Output(q)), User(Output(q)))
    BY <1>6 DEF RenameTmp, Step
  <2>2. data' = data /\ \A n \in Names \ {tmp_sibling(Output(q)), User(Output(q))} : dir'[n] = dir[n]
    BY <1>1, <2>1 DEF Rename, FsTypeOK
  <2> QED
    BY <2>1, <2>2 DEF Touched, Untouched
<1>7. CASE SyncTmp(q)
  BY <1>7 DEF SyncTmp, SyncData, Untouched
<1>8. CASE (\E c \in Commands : Start(q, c)) \/ ReadHead(q) \/ OpenPath(q) \/ ScanChunks(q)
           \/ CopyClose(q) \/ Apply(q) \/ Refused(q) \/ Fail(q) \/ Kill(q)
  <2>1. UNCHANGED fsVars
    BY <1>8 DEF Start, ReadHead, OpenPath, ScanChunks, CopyClose, Apply, Refused, Fail, Kill, EndWith
  <2> QED
    BY <2>1 DEF fsVars, Untouched
<1> QED
  BY <1>2, <1>3, <1>4, <1>5, <1>6, <1>7, <1>8 DEF Acts, Progress

(* What a process has in memory is nobody else's. *)
LEMMA OthersLocal ==
    ASSUME TypeOK, NEW q \in Procs, Acts(q), NEW p \in Procs \ {q}
    PROVE  UNCHANGED <<pc[p], cmd[p], fmt[p], bytes[p], hits[p], fd[p], src[p], pos[p]>>
<1>1. CASE \E c \in Commands : Start(q, c)
  BY <1>1 DEF Start, Step, TypeOK
<1>2. CASE ReadHead(q) \/ OpenPath(q) \/ ScanChunks(q)
  BY <1>2 DEF ReadHead, OpenPath, ScanChunks, Step, TypeOK
<1>3. CASE CopyOpen(q) \/ CopyBlock(q) \/ CopyClose(q)
  BY <1>3 DEF CopyOpen, CopyBlock, CopyClose, Step, TypeOK
<1>4. CASE Apply(q) \/ OpenTmp(q) \/ WriteTmp(q) \/ SyncTmp(q) \/ RenameTmp(q)
  BY <1>4 DEF Apply, OpenTmp, WriteTmp, SyncTmp, RenameTmp, Step, TypeOK
<1>5. CASE Refused(q) \/ Fail(q) \/ Kill(q)
  BY <1>5 DEF Refused, Fail, Kill, EndWith, TypeOK
<1> QED
  BY <1>1, <1>2, <1>3, <1>4, <1>5 DEF Acts, Progress

(* While a scrub in place runs, no other process changes its file or its     *)
(* backup: that is what the serialization of scrubs is for.                *)
LEMMA OthersElsewhere ==
    ASSUME SafetyInv, KeptInv, NEW p \in Procs, NEW q \in Procs \ {p},
           Writes(p), Output(p) = cmd[p].path
    PROVE  Input(p) \notin Touched(q) /\ backup_path(cmd[p].path) \notin Touched(q)
<1>1. TypeOK /\ Exclusive /\ WritesOnlyAsScrub
  BY SafetyParts DEF Discipline
<1>2. cmd[p].path \in Files /\ Output(p) \in Files /\ Input(p) = User(cmd[p].path)
  BY <1>1, CommandNames DEF Writes, Running
<1>3. CASE pc[q] \in {"copy", "copying"}
  <2>1. Writes(q) /\ cmd[q].out = NoOut /\ cmd[q].path \in Files
    BY <1>1, <1>3, CommandNames DEF Writes, Running, WritesOnlyAsScrub, KeptInv, BackedUp
  <2>2. Output(q) = cmd[q].path
    BY <2>1 DEF Output, Dest
  <2>3. cmd[q].path # cmd[p].path
    BY <1>1, <2>1, <2>2 DEF Exclusive
  <2> QED
    BY <1>2, <1>3, <2>1, <2>3, NamesApart DEF Touched
<1>4. CASE pc[q] \in {"tmp", "write", "rename"}
  <2>1. Writes(q) /\ Output(q) \in Files
    BY <1>1, <1>4, CommandNames DEF Writes, Running, WritesOnlyAsScrub
  <2>2. Output(q) # cmd[p].path
    BY <1>1, <2>1 DEF Exclusive
  <2> QED
    BY <1>2, <1>4, <2>1, <2>2, NamesApart DEF Touched
<1> QED
  BY <1>3, <1>4 DEF Touched

(* What a file is to its processes when nobody touches it. *)
LEMMA QuietKept ==
    ASSUME SafetyInv, KeptInv, NEW p \in Procs, pc[p] \in Running,
           UNCHANGED <<pc[p], cmd[p], fmt[p], bytes[p], hits[p], fd[p], src[p], pos[p]>>,
           Writes(p) /\ Output(p) = cmd[p].path =>
               Untouched(Input(p)) /\ Untouched(backup_path(cmd[p].path))
    PROVE  StillRead(p)' /\ BackedUp(p)'
<1>1. TypeOK /\ WritesOnlyAsScrub /\ StillRead(p) /\ BackedUp(p)
  BY SafetyParts DEF Discipline, KeptInv
<1>2. Input(p)' = Input(p) /\ Output(p)' = Output(p)
  BY DEF Input, Output
<1>3. Writes(p) <=> cmd[p].op = "scrub"
  BY DEF Writes
<1>4. cmd[p].out = NoOut => Output(p) = cmd[p].path
  BY DEF Output, Dest
<1>5. StillRead(p)'
  <2>1. SUFFICES ASSUME Writes(p), Output(p) = cmd[p].path
                 PROVE  Visible(Input(p))' = Visible(Input(p))
    <3>1. Writes(p) /\ Output(p) = cmd[p].path /\ Visible(Input(p))' = Visible(Input(p)) => StillRead(p)'
      BY <1>1, <1>2, <1>3 DEF StillRead, Hits, Redact
    <3>2. ~(Writes(p) /\ Output(p) = cmd[p].path) => StillRead(p)'
      BY <1>2, <1>3 DEF StillRead
    <3> QED
      BY <3>1, <3>2
  <2> QED
    <3>1. Untouched(Input(p))
      BY <2>1
    <3>2. Input(p) = User(cmd[p].path) /\ Input(p)' = User(cmd[p].path)
      BY <1>2 DEF Input
    <3> QED
      BY <3>1, <3>2 DEF Untouched, Visible
<1>6. BackedUp(p)'
  <2>1. CASE ~(Writes(p) /\ Output(p) = cmd[p].path)
    <3>1. pc[p] \notin {"copy", "copying"} /\ (pc[p] \in {"apply", "tmp", "write", "rename"} => cmd[p].out # NoOut)
      BY <1>1, <1>4, <2>1 DEF BackedUp, WritesOnlyAsScrub, Writes
    <3> QED
      BY <3>1 DEF BackedUp
  <2>2. CASE Writes(p) /\ Output(p) = cmd[p].path
    <3>1. Untouched(Input(p)) /\ Untouched(backup_path(cmd[p].path))
      BY <2>2
    <3>2. pc[p] = "copying" => fd[p] # NoInode /\ src[p] # NoInode
      BY <1>1, FileSystemAssumption DEF TypeOK
    <3> QED
      BY <1>1, <1>2, <3>1, <3>2 DEF BackedUp, Untouched, Visible
  <2> QED
    BY <2>1, <2>2
<1> QED
  BY <1>5, <1>6

(* Until it renames, a process leaves its own input alone. *)
LEMMA InputStays ==
    ASSUME SafetyInv, KeptInv, NEW p \in Procs, Acts(p), pc[p] \in Running \ {"rename"}
    PROVE  /\ cmd'[p] = cmd[p] /\ Input(p)' = Input(p) /\ Output(p)' = Output(p)
           /\ Untouched(Input(p)) /\ Visible(Input(p))' = Visible(Input(p))
<1>1. TypeOK
  BY SafetyParts
<1>2. cmd'[p] = cmd[p]
  BY <1>1 DEF Acts, Start, Progress, ReadHead, OpenPath, ScanChunks, CopyOpen, CopyBlock, CopyClose, Apply,
              OpenTmp, WriteTmp, SyncTmp, RenameTmp, Refused, Fail, Kill, EndWith, Step, Running
<1>3. Input(p)' = Input(p) /\ Output(p)' = Output(p)
  BY <1>2 DEF Input, Output
<1>4. Untouched(Input(p))
  <2>1. cmd[p].path \in Files /\ Output(p) \in Files /\ Input(p) = User(cmd[p].path)
    BY <1>1, CommandNames DEF Running
  <2>2. Input(p) \in Names \ Touched(p)
    BY <2>1, NamesApart DEF Touched
  <2> QED
    BY <2>2, OnlyTouched
<1> QED
  BY <1>2, <1>3, <1>4 DEF Untouched, Visible

(* The first read of the whole file, and its scan. *)
LEMMA ReadKept ==
    ASSUME SafetyInv, KeptInv, NEW p \in Procs, OpenPath(p) \/ ScanChunks(p), pc'[p] \in Running
    PROVE  StillRead(p)' /\ BackedUp(p)'
<1>1. TypeOK /\ StillRead(p) /\ pc[p] \in {"open", "scan"}
  BY SafetyParts DEF KeptInv, OpenPath, ScanChunks, Step, Running
<1>2. /\ cmd'[p] = cmd[p] /\ Input(p)' = Input(p) /\ Output(p)' = Output(p)
      /\ Visible(Input(p))' = Visible(Input(p))
  BY <1>1, InputStays DEF Acts, Progress, Running
<1>3. CASE OpenPath(p)
  <2>1. pc'[p] = "scan" /\ bytes'[p] = Visible(Input(p))
    BY <1>1, <1>3 DEF OpenPath, Step, TypeOK
  <2> QED
    BY <2>1, <1>2 DEF StillRead, BackedUp
<1>4. CASE ScanChunks(p)
  <2>1. /\ pc[p] = "scan" /\ bytes'[p] = bytes[p] /\ pc'[p] \in {"copy", "apply"}
        /\ pc'[p] = "copy" <=> cmd[p].backup /\ cmd[p].out = NoOut
    BY <1>1, <1>4 DEF ScanChunks, AfterScan, Step, TypeOK, Running
  <2>2. StillRead(p)'
    BY <2>1, <1>1, <1>2 DEF StillRead
  <2>3. BackedUp(p)'
    BY <2>1, <1>2 DEF BackedUp
  <2> QED
    BY <2>2, <2>3
<1> QED
  BY <1>3, <1>4

(* Redaction in memory, and the temporary file. *)
LEMMA RedactKept ==
    ASSUME SafetyInv, KeptInv, Memory, NEW p \in Procs,
           Apply(p) \/ OpenTmp(p) \/ WriteTmp(p) \/ SyncTmp(p)
    PROVE  StillRead(p)' /\ BackedUp(p)'
<1>1. /\ TypeOK /\ FsTypeOK /\ StillRead(p) /\ BackedUp(p) /\ Holds(p)
      /\ pc[p] \in {"apply", "tmp", "write"}
  BY SafetyParts DEF KeptInv, Memory, TypeOK, Apply, OpenTmp, WriteTmp, SyncTmp, Step, Running
<1>2. /\ cmd'[p] = cmd[p] /\ Input(p)' = Input(p) /\ Output(p)' = Output(p)
      /\ Visible(Input(p))' = Visible(Input(p))
  BY <1>1, InputStays DEF Acts, Progress, Running
<1>3. hits'[p] = hits[p] /\ fmt'[p] = fmt[p] /\ pc'[p] \in {"tmp", "write", "rename"}
  BY <1>1 DEF Apply, OpenTmp, WriteTmp, SyncTmp, Step, TypeOK
<1>4. BackedUp(p)'
  <2>1. cmd[p].path \in Files /\ Output(p) \in Files
    BY <1>1, CommandNames
  <2>2. backup_path(cmd[p].path) \in Names \ Touched(p)
    BY <2>1, <1>1, NamesApart DEF Touched
  <2>3. Untouched(backup_path(cmd[p].path))
    BY <2>2, OnlyTouched DEF Acts, Progress
  <2>4. backup_path(cmd[p].path)' = backup_path(cmd[p].path)
    BY <1>2
  <2>5. Visible(backup_path(cmd[p].path))' = Visible(backup_path(cmd[p].path))
    BY <2>3, <2>4 DEF Untouched, Visible
  <2> QED
    BY <1>1, <1>2, <1>3, <2>5 DEF BackedUp
<1>5. CASE Apply(p)
  <2>1. pc[p] = "apply" /\ pc'[p] = "tmp" /\ bytes'[p] = Redact(bytes[p], hits[p])
    BY <1>1, <1>5 DEF Apply, Step, TypeOK
  <2>2. bytes[p] \in Content /\ hits[p] = Hits(fmt[p], bytes[p])
    BY <1>1, <2>1 DEF Holds, TypeOK
  <2>3. ASSUME cmd[p].op = "scrub", Output(p) = cmd[p].path
        PROVE  /\ Visible(Input(p))' \in Content
               /\ hits'[p] = Hits(fmt'[p], Visible(Input(p))')
               /\ bytes'[p] = Redact(Visible(Input(p))', hits'[p])
    <3>1. bytes[p] = Visible(Input(p))'
      BY <2>1, <2>3, <1>1, <1>2 DEF StillRead
    <3> HIDE DEF Visible
    <3> QED
      BY <3>1, <2>1, <2>2, <1>3
  <2>4. StillRead(p)'
    BY <2>1, <2>3, <1>2 DEF StillRead, Hits, Redact
  <2> QED
    BY <2>4, <1>4
<1>6. CASE ~ Apply(p)
  <2>1. bytes'[p] = bytes[p] /\ pc[p] \in {"tmp", "write"}
    BY <1>6 DEF OpenTmp, WriteTmp, SyncTmp, Step
  <2>2. StillRead(p)'
    BY <2>1, <1>1, <1>2, <1>3 DEF StillRead, Hits, Redact
  <2> QED
    BY <2>2, <1>4
<1> QED
  BY <1>5, <1>6

(* fs::copy leaves in the backup what is in the input. *)
LEMMA CopyOpenKept ==
    ASSUME SafetyInv, KeptInv, NEW p \in Procs, CopyOpen(p)
    PROVE  StillRead(p)' /\ BackedUp(p)'
<1>1. /\ TypeOK /\ FsTypeOK /\ StillRead(p) /\ BackedUp(p)
      /\ pc[p] = "copy" /\ pc'[p] = "copying"
  BY SafetyParts DEF KeptInv, TypeOK, CopyOpen, Step, Running
<1>2. /\ cmd'[p] = cmd[p] /\ Input(p)' = Input(p) /\ Output(p)' = Output(p)
      /\ Untouched(Input(p)) /\ Visible(Input(p))' = Visible(Input(p))
  BY <1>1, InputStays DEF Acts, Progress, Running
<1>3. PICK g \in Files : g = cmd[p].path
  BY <1>1, CommandNames
<1> DEFINE n == backup_path(g)
           i == Target(n, InUse)
<1>4. /\ OpenTruncate(n, InUse) /\ whole' = whole /\ fd'[p] = i /\ src'[p] = dir[Input(p)] /\ pos'[p] = 0
      /\ bytes'[p] = bytes[p] /\ dir[Input(p)] # NoInode
  BY <1>1, <1>3 DEF CopyOpen, TypeOK, historyVars
<1>5. dir'[n] = i /\ data'[i] = << >>
  BY <1>4, OpenTouches
<1> HIDE DEF n, i
<1>6. StillRead(p)'
  BY <1>1, <1>2, <1>4 DEF StillRead
<1>7. src'[p] = dir'[Input(p)] /\ data'[src'[p]] \in Content
  BY <1>1, <1>2, <1>3, <1>4, NamesApart DEF Untouched, FsTypeOK, Input
<1>8. Len(data'[fd'[p]]) = 0 /\ 0 <= Len(data'[src'[p]])
  BY <1>4, <1>5, <1>7, EmptySeq, LenProperties DEF Content
<1>9. fd'[p] = dir'[backup_path(cmd'[p].path)] /\ cmd'[p].out = NoOut
  BY <1>1, <1>2, <1>3, <1>4, <1>5 DEF n, BackedUp
<1>10. src'[p] = dir'[Input(p)']
  BY <1>2, <1>7
<1>11. BackedUp(p)'
  BY <1>1, <1>4, <1>8, <1>9, <1>10 DEF BackedUp
<1> QED
  BY <1>6, <1>11

LEMMA CopyBlockKept ==
    ASSUME SafetyInv, KeptInv, NEW p \in Procs, CopyBlock(p)
    PROVE  StillRead(p)' /\ BackedUp(p)'
<1> DEFINE i == fd[p]
           j == src[p]
           k == pos[p] + 1
           b == data[j][k]
<1>1. /\ TypeOK /\ FsTypeOK /\ Settled /\ StillRead(p) /\ BackedUp(p)
      /\ pc[p] = "copying" /\ pc'[p] = "copying"
  BY SafetyParts DEF KeptInv, TypeOK, CopyBlock, Step, Running
<1>2. /\ cmd'[p] = cmd[p] /\ Input(p)' = Input(p) /\ Output(p)' = Output(p)
      /\ Untouched(Input(p)) /\ Visible(Input(p))' = Visible(Input(p))
  BY <1>1, InputStays DEF Acts, Progress, Running
<1>3. PICK g \in Files : g = cmd[p].path
  BY <1>1, CommandNames
<1>4. /\ WriteBlock(i, k, b) /\ pos[p] < Len(data[j]) /\ pos'[p] = k
      /\ fd'[p] = i /\ src'[p] = j /\ bytes'[p] = bytes[p]
  BY <1>1 DEF CopyBlock, TypeOK
<1>5. /\ i \in Inodes /\ j \in Inodes /\ i = dir[backup_path(g)] /\ j = dir[User(g)]
      /\ cmd[p].out = NoOut /\ pos[p] \in Nat /\ Len(data[i]) = pos[p]
      /\ \A x \in 1 .. pos[p] : data[i][x] = data[j][x]
  BY <1>1, <1>3 DEF BackedUp, TypeOK, Input
<1>6. i # j /\ j # NoInode
  BY <1>1, <1>5, NamesApart, FileSystemAssumption DEF Settled, NoLinks
<1>7. /\ data[i] \in Content /\ data[j] \in Content /\ data[j] \in Seq(Blocks) /\ Len(data[j]) \in Nat
      /\ Len(data[i]) \in Nat
  BY <1>1, <1>5, LenProperties DEF FsTypeOK, Content
<1>8. k \in Nat \ {0} /\ b \in Blocks
  <2>1. k \in 1 .. Len(data[j])
    BY <1>4, <1>5, <1>7
  <2> QED
    BY <2>1, <1>5, <1>7, ElementOfSeq
<1>9. /\ dir' = dir /\ data'[j] = data[j] /\ data'[i] = Written(data[i], k, b)
  BY <1>1, <1>4, <1>5, <1>6 DEF WriteBlock, FsTypeOK
<1>10. k = Len(data[i]) + 1 /\ k <= Len(data[j])
  BY <1>4, <1>5, <1>7
<1> HIDE DEF i, j, k, b
<1>11. /\ Len(Written(data[i], k, b)) = IF k > Len(data[i]) THEN k ELSE Len(data[i])
       /\ \A x \in 1 .. Len(data[i]) : x # k => Written(data[i], k, b)[x] = data[i][x]
       /\ Written(data[i], k, b)[k] = b
  BY <1>7, <1>8, WrittenIsContent
<1>12. /\ Len(data'[i]) = k
       /\ \A x \in 1 .. k : data'[i][x] = data'[j][x]
  <2>1. Len(data'[i]) = k
    BY <1>7, <1>9, <1>10, <1>11
  <2>2. \A x \in 1 .. Len(data[i]) : x # k /\ data'[i][x] = data[j][x]
    BY <1>5, <1>7, <1>9, <1>10, <1>11
  <2>3. data'[i][k] = data[j][k]
    BY <1>9, <1>11 DEF b
  <2>4. \A x \in 1 .. k : x \in 1 .. Len(data[i]) \/ x = k
    BY <1>7, <1>10
  <2> QED
    BY <2>1, <2>2, <2>3, <2>4, <1>9
<1>13. BackedUp(p)'
  <2>1. fd'[p] = dir'[backup_path(cmd'[p].path)] /\ src'[p] = dir'[Input(p)'] /\ cmd'[p].out = NoOut
    BY <1>2, <1>3, <1>4, <1>5, <1>9 DEF Input, i, j
  <2>2. k <= Len(data'[j])
    BY <1>9, <1>10
  <2> QED
    BY <2>1, <2>2, <1>1, <1>4, <1>12 DEF BackedUp
<1>14. StillRead(p)'
  BY <1>1, <1>2, <1>4 DEF StillRead
<1> QED
  BY <1>13, <1>14

LEMMA CopyCloseKept ==
    ASSUME SafetyInv, KeptInv, NEW p \in Procs, CopyClose(p)
    PROVE  StillRead(p)' /\ BackedUp(p)'
<1>1. /\ TypeOK /\ FsTypeOK /\ StillRead(p) /\ BackedUp(p)
      /\ pc[p] = "copying" /\ pc'[p] = "apply"
  BY SafetyParts DEF KeptInv, TypeOK, CopyClose, Step, Running
<1>2. /\ cmd'[p] = cmd[p] /\ Input(p)' = Input(p) /\ Output(p)' = Output(p)
      /\ Visible(Input(p))' = Visible(Input(p))
  BY <1>1, InputStays DEF Acts, Progress, Running
<1>3. PICK g \in Files : g = cmd[p].path
  BY <1>1, CommandNames
<1>4. pos[p] >= Len(data[src[p]]) /\ UNCHANGED <<dir, data>> /\ bytes'[p] = bytes[p]
  BY <1>1 DEF CopyClose, fsVars
<1>5. /\ fd[p] = dir[backup_path(g)] /\ src[p] = dir[User(g)] /\ fd[p] \in Inodes /\ src[p] \in Inodes
      /\ pos[p] \in Nat /\ Len(data[fd[p]]) = pos[p] /\ pos[p] <= Len(data[src[p]])
      /\ \A x \in 1 .. pos[p] : data[fd[p]][x] = data[src[p]][x]
  BY <1>1, <1>3 DEF BackedUp, TypeOK, Input
<1>6. data[fd[p]] \in Seq(Blocks) /\ data[src[p]] \in Seq(Blocks) /\ Len(data[src[p]]) \in Nat
  BY <1>1, <1>5, LenProperties DEF FsTypeOK, Content
<1>7. Len(data[fd[p]]) = Len(data[src[p]])
  BY <1>4, <1>5, <1>6
<1>8. data[fd[p]] = data[src[p]]
  BY <1>5, <1>6, <1>7, SeqEqual
<1>9. Visible(backup_path(g)) = Visible(User(g))
  BY <1>5, <1>8, FileSystemAssumption DEF Visible
<1>10. Visible(backup_path(cmd[p].path))' = Visible(Input(p))'
  BY <1>2, <1>3, <1>4, <1>9 DEF Visible, Input
<1>11. BackedUp(p)'
  BY <1>1, <1>10 DEF BackedUp
<1>12. StillRead(p)'
  BY <1>1, <1>2, <1>4 DEF StillRead
<1> QED
  BY <1>11, <1>12

LEMMA OwnKept ==
    ASSUME SafetyInv, KeptInv, Memory, NEW p \in Procs, Acts(p), pc'[p] \in Running
    PROVE  StillRead(p)' /\ BackedUp(p)'
<1>1. TypeOK
  BY SafetyParts
<1>2. CASE (\E c \in Commands : Start(p, c)) \/ ReadHead(p)
  <2>1. pc'[p] \in {"head", "open"}
    BY <1>1, <1>2 DEF Start, ReadHead, Step, TypeOK
  <2> QED
    BY <2>1 DEF StillRead, BackedUp
<1>3. CASE RenameTmp(p) \/ Refused(p) \/ Fail(p) \/ Kill(p)
  BY <1>1, <1>3 DEF RenameTmp, Step, Refused, Fail, Kill, EndWith, TypeOK, Running
<1> QED
  BY <1>2, <1>3, ReadKept, RedactKept, CopyOpenKept, CopyBlockKept, CopyCloseKept DEF Acts, Progress

(* A producer that waits leaves the files of the commands alone that have   *)
(* read of them.                                                           *)
LEMMA UpdateApart ==
    ASSUME SafetyInv, NEW g \in Files, NEW c \in Captures, Update(g, c), Waits,
           NEW p \in Procs, pc[p] \in Running \ {"head"}
    PROVE  /\ UNCHANGED <<pc[p], cmd[p], fmt[p], bytes[p], hits[p], fd[p], src[p], pos[p]>>
           /\ Untouched(Input(p)) /\ Untouched(backup_path(cmd[p].path))
<1> DEFINE i == CHOOSE j \in Free(InUse) : TRUE
<1>1. TypeOK /\ FsTypeOK
  BY SafetyParts DEF TypeOK
<1>2. i \in Inodes /\ \A m \in Names : dir[m] # i
  BY FreeIsUnused DEF Update, Produce
<1>3. /\ dir'[User(g)] = i /\ \A m \in Names \ {User(g)} : dir'[m] = dir[m]
      /\ \A j \in Inodes \ {i} : data'[j] = data[j]
  BY <1>1, <1>2, NamesApart DEF Update, Produce, FsTypeOK
<1> HIDE DEF i
<1>4. ASSUME NEW m \in Names \ {User(g)} PROVE Untouched(m)
  <2>1. dir[m] # NoInode => dir[m] \in Inodes \ {i}
    BY <1>1, <1>2, <1>4 DEF FsTypeOK
  <2> QED
    BY <1>3, <2>1 DEF Untouched
<1>5. cmd[p].path \in Files /\ Input(p) = User(cmd[p].path) /\ Input(p) \in Names
  BY <1>1, CommandNames, NamesApart DEF Running, Input
<1>6. updates' # updates
  BY <1>1 DEF Update, TypeOK
<1>7. Input(p) # User(g)
  <2>1. dir'[Input(p)] = dir[Input(p)]
    BY <1>6 DEF Waits
  <2> QED
    BY <2>1, <1>2, <1>3, <1>5
<1>8. backup_path(cmd[p].path) \in Names \ {User(g)}
  BY <1>5, NamesApart
<1>9. UNCHANGED <<pc, cmd, fmt, bytes, hits, fd, src, pos>>
  BY DEF Update, procVars
<1> QED
  BY <1>4, <1>5, <1>7, <1>8, <1>9

LEMMA WaitsOrStays == [Waits]_vars => Waits
  BY DEF Waits, vars, historyVars

LEMMA StepKept ==
    SafetyInv /\ Memory /\ KeptInv /\ Waits /\ [Next]_vars => KeptInv'
<1> SUFFICES ASSUME SafetyInv, Memory, KeptInv, Waits, [Next]_vars,
                    NEW p \in Procs, pc'[p] \in Running
             PROVE  StillRead(p)' /\ BackedUp(p)'
  BY DEF KeptInv
<1>1. TypeOK
  BY SafetyParts
<1>2. ASSUME NEW q \in Procs, Acts(q) PROVE StillRead(p)' /\ BackedUp(p)'
  <2>1. CASE q = p
    BY <1>2, <2>1, OwnKept
  <2>2. CASE q # p
    <3>1. UNCHANGED <<pc[p], cmd[p], fmt[p], bytes[p], hits[p], fd[p], src[p], pos[p]>>
      BY <1>1, <1>2, <2>2, OthersLocal
    <3>2. ASSUME Writes(p), Output(p) = cmd[p].path
          PROVE  Untouched(Input(p)) /\ Untouched(backup_path(cmd[p].path))
      <4>1. Input(p) \in Names /\ backup_path(cmd[p].path) \in Names
        BY <1>1, <3>1, CommandNames, NamesApart DEF Running
      <4> QED
        BY <4>1, <1>2, <2>2, <3>2, OthersElsewhere, OnlyTouched
    <3> QED
      BY <3>1, <3>2, QuietKept
  <2> QED
    BY <2>1, <2>2
<1>3. CASE Kernel \/ UNCHANGED vars
  <2>1. UNCHANGED <<pc, cmd, fmt, bytes, hits, fd, src, pos, dir, data>>
    BY <1>3 DEF Kernel, CommitDirectory, SyncDirectory, WriteBack, SyncData, vars, procVars, fsVars
  <2>2. \A n : Untouched(n)
    BY <2>1 DEF Untouched
  <2> QED
    BY <2>1, <2>2, QuietKept
<1>4. CASE PowerLoss
  BY <1>4 DEF PowerLoss, Running
<1>5. ASSUME NEW g \in Files, NEW c \in Captures, Update(g, c) PROVE StillRead(p)' /\ BackedUp(p)'
  <2>1. UNCHANGED <<pc, cmd, fmt, bytes, hits, fd, src, pos>>
    BY <1>5 DEF Update, procVars
  <2>2. CASE pc[p] = "head"
    BY <2>1, <2>2 DEF StillRead, BackedUp
  <2>3. CASE pc[p] # "head"
    BY <1>5, <2>1, <2>3, UpdateApart, QuietKept
  <2> QED
    BY <2>2, <2>3
<1> QED
  BY <1>2, <1>3, <1>4, <1>5 DEF Next, CalmNext, Run, Acts

LEMMA InitKept == Init => KeptInv
  BY DEF Init, KeptInv, Running

(* Under serialized scrubs, and if producers wait for those that have begun  *)
(* to read their file, --backup has in *.orig what the rename replaces,    *)
(* whatever fails and whoever else runs.                                   *)
THEOREM BackupIsOriginal == Serialize => (Spec /\ [][Waits]_vars => OriginalKept)
<1> SUFFICES ASSUME Serialize PROVE Spec /\ [][Waits]_vars => OriginalKept
  OBVIOUS
<1>1. Init => SafetyInv /\ Memory /\ KeptInv
  BY InitSafe, InitHolds, InitKept
<1>2. SafetyInv /\ Memory /\ KeptInv /\ [Next]_vars /\ [Waits]_vars => SafetyInv' /\ Memory' /\ KeptInv'
  BY StepSafe, StepHolds, StepKept, WaitsOrStays
<1>3. KeptInv /\ [Next]_vars =>
        [\A p \in Procs :
          /\ pc[p] = "rename" /\ pc'[p] = "done"
          /\ cmd[p].backup /\ cmd[p].out = NoOut
          => Visible(backup_path(cmd[p].path)) = Visible(Input(p))]_vars
  BY DEF KeptInv, BackedUp, Running
<1> QED
  BY <1>1, <1>2, <1>3, PTL DEF Spec, OriginalKept

(* Where every scrub is in place and redaction keeps the format, a file that *)
(* is there after a step was there before, in the same format.             *)
LEMMA FormatStays ==
    ASSUME SafetyInv, Memory, KeptInv, InPlace, KeepsFormat(Content),
           NEW q \in Procs, Acts(q), NEW f \in Files, dir'[User(f)] # NoInode
    PROVE  dir[User(f)] # NoInode /\ find(Visible(User(f))') = find(Visible(User(f)))
<1>1. TypeOK /\ WritesOnlyAsScrub /\ User(f) \in Names
  BY SafetyParts, NamesApart DEF Discipline
<1>2. CASE Untouched(User(f))
  BY <1>2 DEF Untouched, Visible
<1>3. CASE ~ Untouched(User(f))
  <2>1. User(f) \in Touched(q)
    BY <1>1, <1>3, OnlyTouched
  <2>2. pc[q] # "idle" /\ cmd[q].path \in Files /\ Output(q) \in Files /\ Input(q) = User(cmd[q].path)
    BY <1>1, <2>1, CommandNames DEF Touched
  <2>3. pc[q] = "rename" /\ f = Output(q)
    BY <2>1, <2>2, NamesApart DEF Touched
  <2>4. RenameTmp(q)
    <3>1. ~ (UNCHANGED fsVars)
      BY <1>3 DEF Untouched, fsVars
    <3> QED
      BY <2>3, <3>1 DEF Acts, Start, Progress, ReadHead, OpenPath, ScanChunks, CopyOpen, CopyBlock, CopyClose,
                        Apply, OpenTmp, WriteTmp, SyncTmp, Refused, Fail, Kill, EndWith, Step
  <2>5. Output(q) = cmd[q].path /\ cmd[q].op = "scrub"
    BY <1>1, <2>2, <2>3, CommandNames DEF InPlace, Output, WritesOnlyAsScrub
  <2> DEFINE c == Visible(User(f))
  <2>6. c \in Content /\ bytes[q] = Redact(c, Hits(fmt[q], c)) /\ fmt[q] \in Formats
    BY <2>2, <2>3, <2>5 DEF KeptInv, StillRead, Running, Memory, Holds
  <2>7. Visible(User(f))' = bytes[q]
    <3>1. AsFile' = [AsFile EXCEPT ![f] = bytes[q]]
      BY <2>3, <2>4, RenameSeen
    <3>2. AsFile'[f] = bytes[q]
      BY <3>1 DEF AsFile
    <3> QED
      BY <3>2, ViewOf
  <2>8. dir[User(f)] # NoInode
    BY <2>6, FileSystemAssumption DEF Visible, Content
  <2> HIDE DEF c
  <2>9. find(Redact(c, Hits(fmt[q], c))) = find(c)
    BY <2>6 DEF KeepsFormat, Redact, Blank
  <2> QED
    BY <2>6, <2>7, <2>8, <2>9 DEF c
<1> QED
  BY <1>2, <1>3

(* The process itself: it chooses once, for the file it then reads. *)
LEMMA OwnChosen ==
    ASSUME SafetyInv, KeptInv, InPlace, NEW p \in Procs, pc[p] \in Running => Chosen(p),
           Acts(p), pc'[p] \in Running
    PROVE  Chosen(p)'
<1>1. TypeOK /\ WritesOnlyAsScrub
  BY SafetyParts DEF Discipline
<1>2. CASE \E c \in Commands : Start(p, c)
  <2>1. pc'[p] \in {"head", "open"} /\ (pc'[p] = "open" => cmd'[p].format # NoFormat)
    BY <1>1, <1>2 DEF Start, Step, TypeOK
  <2> QED
    BY <2>1 DEF Chosen
<1>3. CASE RenameTmp(p) \/ Refused(p) \/ Fail(p) \/ Kill(p)
  BY <1>1, <1>3 DEF RenameTmp, Step, Refused, Fail, Kill, EndWith, TypeOK, Running
<1>4. CASE ReadHead(p) \/ OpenPath(p) \/ ScanChunks(p) \/ CopyOpen(p) \/ CopyBlock(p) \/ CopyClose(p)
           \/ Apply(p) \/ OpenTmp(p) \/ WriteTmp(p) \/ SyncTmp(p)
  <2>1. pc[p] \in Running \ {"rename"} /\ pc[p] # "idle"
    BY <1>4 DEF ReadHead, OpenPath, ScanChunks, CopyOpen, CopyBlock, CopyClose, Apply, OpenTmp, WriteTmp,
                SyncTmp, Step, Running
  <2>2. /\ cmd'[p] = cmd[p] /\ Input(p)' = Input(p) /\ Untouched(Input(p))
        /\ Visible(Input(p))' = Visible(Input(p)) /\ Chosen(p) /\ StillRead(p)
    BY <2>1, InputStays DEF KeptInv
  <2>3. CASE ReadHead(p)
    <3>1. pc'[p] = "open" /\ fmt'[p] = find(Visible(Input(p)))
      BY <1>1, <2>3 DEF ReadHead, Step, TypeOK
    <3> QED
      BY <2>2, <3>1 DEF Chosen
  <2>4. CASE OpenPath(p)
    <3>1. /\ pc[p] = "open" /\ pc'[p] = "scan" /\ fmt'[p] = fmt[p]
          /\ bytes'[p] = Visible(Input(p)) /\ dir[Input(p)] # NoInode
      BY <1>1, <2>4 DEF OpenPath, Step, TypeOK
    <3> QED
      BY <2>2, <3>1 DEF Chosen
  <2>5. CASE ScanChunks(p) \/ CopyOpen(p) \/ CopyBlock(p) \/ CopyClose(p)
    <3>1. /\ pc[p] \in {"scan", "copy", "copying"} /\ pc'[p] \in {"copy", "copying", "apply"}
          /\ fmt'[p] = fmt[p] /\ bytes'[p] = bytes[p]
      BY <1>1, <2>5 DEF ScanChunks, AfterScan, CopyOpen, CopyBlock, CopyClose, Step, TypeOK, Running
    <3> QED
      BY <2>2, <3>1 DEF Chosen
  <2>6. CASE Apply(p)
    <3>1. pc[p] = "apply" /\ pc'[p] = "tmp" /\ fmt'[p] = fmt[p]
      BY <1>1, <2>6 DEF Apply, Step, TypeOK
    <3>2. cmd[p].op = "scrub" /\ Output(p) = cmd[p].path
      BY <1>1, <3>1, <2>1, CommandNames DEF InPlace, Output, WritesOnlyAsScrub
    <3>3. bytes[p] = Visible(Input(p))
      BY <2>2, <3>1, <3>2 DEF StillRead
    <3> QED
      BY <2>2, <3>1, <3>3 DEF Chosen
  <2>7. CASE OpenTmp(p) \/ WriteTmp(p) \/ SyncTmp(p)
    <3>1. pc[p] \in {"tmp", "write"} /\ pc'[p] \in {"write", "rename"} /\ fmt'[p] = fmt[p]
      BY <1>1, <2>7 DEF OpenTmp, WriteTmp, SyncTmp, Step, TypeOK
    <3> QED
      BY <2>2, <3>1 DEF Chosen
  <2> QED
    BY <1>4, <2>3, <2>4, <2>5, <2>6, <2>7
<1> QED
  BY <1>2, <1>3, <1>4 DEF Acts, Progress

(* The others: they keep the format of what is still to be read, and leave   *)
(* alone what is to be replaced.                                           *)
LEMMA OthersChosen ==
    ASSUME SafetyInv, Memory, KeptInv, InPlace, KeepsFormat(Content),
           NEW p \in Procs, pc[p] \in Running, Chosen(p), NEW q \in Procs \ {p}, Acts(q)
    PROVE  Chosen(p)'
<1>1. TypeOK /\ WritesOnlyAsScrub
  BY SafetyParts DEF Discipline
<1>2. UNCHANGED <<pc[p], cmd[p], fmt[p], bytes[p], hits[p], fd[p], src[p], pos[p]>>
  BY <1>1, OthersLocal
<1>3. PICK f \in Files : f = cmd[p].path
  BY <1>1, CommandNames DEF Running
<1>4. Input(p) = User(f) /\ Input(p)' = User(f) /\ User(f) \in Names
  BY <1>2, <1>3, NamesApart DEF Input
<1>5. CASE pc[p] = "open"
  <2>1. dir'[User(f)] # NoInode =>
          dir[User(f)] # NoInode /\ find(Visible(User(f))') = find(Visible(User(f)))
    BY FormatStays
  <2>2. ASSUME cmd[p].format = NoFormat, dir'[User(f)] # NoInode
        PROVE  fmt'[p] = find(Visible(User(f))')
    BY <1>2, <1>4, <1>5, <2>1, <2>2 DEF Chosen
  <2>3. Visible(Input(p))' = Visible(User(f))'
    BY <1>4 DEF Visible
  <2> QED
    BY <1>2, <1>4, <1>5, <2>2, <2>3 DEF Chosen
<1>6. CASE pc[p] \in {"tmp", "write", "rename"}
  <2>1. Writes(p) /\ Output(p) = cmd[p].path
    BY <1>1, <1>6, CommandNames DEF InPlace, Output, WritesOnlyAsScrub, Writes
  <2>2. Untouched(User(f))
    BY <2>1, <1>4, OthersElsewhere, OnlyTouched
  <2>3. Visible(Input(p))' = Visible(Input(p))
    BY <1>4, <2>2 DEF Untouched, Visible
  <2> QED
    BY <1>2, <1>6, <2>3 DEF Chosen
<1>7. CASE pc[p] \notin {"open", "tmp", "write", "rename"}
  BY <1>2, <1>7 DEF Chosen
<1> QED
  BY <1>5, <1>6, <1>7

LEMMA StepChosen ==
    ASSUME SafetyInv, Memory, KeptInv, ChosenInv, InPlace, KeepsFormat(Content), Waits,
           [Next]_vars
    PROVE  ChosenInv'
<1> SUFFICES ASSUME NEW p \in Procs, pc'[p] \in Running PROVE Chosen(p)'
  BY DEF ChosenInv
<1>1. TypeOK
  BY SafetyParts
<1>2. ASSUME NEW q \in Procs, Acts(q) PROVE Chosen(p)'
  <2>1. CASE q = p
    BY <1>2, <2>1, OwnChosen DEF ChosenInv
  <2>2. CASE q # p
    <3>1. pc'[p] = pc[p]
      BY <1>1, <1>2, <2>2, OthersLocal
    <3> QED
      BY <1>2, <2>2, <3>1, OthersChosen DEF ChosenInv
  <2> QED
    BY <2>1, <2>2
<1>3. CASE Kernel \/ UNCHANGED vars
  <2>1. UNCHANGED <<pc, cmd, fmt, bytes, dir, data>>
    BY <1>3 DEF Kernel, CommitDirectory, SyncDirectory, WriteBack, SyncData, vars, procVars, fsVars
  <2> QED
    BY <2>1 DEF ChosenInv, Chosen, Visible, Input
<1>4. CASE PowerLoss
  BY <1>4 DEF PowerLoss, Running
<1>5. ASSUME NEW g \in Files, NEW c \in Captures, Update(g, c) PROVE Chosen(p)'
  <2>1. UNCHANGED <<pc, cmd, fmt, bytes, hits, fd, src, pos>>
    BY <1>5 DEF Update, procVars
  <2>2. CASE pc[p] = "head"
    BY <2>1, <2>2 DEF Chosen
  <2>3. CASE pc[p] # "head"
    <3>1. Untouched(Input(p)) /\ Input(p)' = Input(p)
      BY <1>5, <2>1, <2>3, UpdateApart DEF Input
    <3>2. Visible(Input(p))' = Visible(Input(p)) /\ dir'[Input(p)'] = dir[Input(p)]
      BY <3>1 DEF Untouched, Visible
    <3> QED
      BY <2>1, <3>2 DEF ChosenInv, Chosen
  <2> QED
    BY <2>2, <2>3
<1> QED
  BY <1>2, <1>3, <1>4, <1>5 DEF Next, CalmNext, Run, Acts

LEMMA InitChosen == Init => ChosenInv
  BY DEF Init, ChosenInv, Running

(* When producers wait, all scrubs are in place, serialized, and keep what a*)
(* file is recognized by, the handler chosen in the first read of it is that*)
(* of the content in the second, for scans too, which no scrub waits for.  *)
THEOREM RightHandler ==
    Serialize /\ InPlace /\ KeepsFormat(Content) => (Spec /\ [][Waits]_vars => []HandlerMatches)
<1> SUFFICES ASSUME Serialize, InPlace, KeepsFormat(Content)
             PROVE  Spec /\ [][Waits]_vars => []HandlerMatches
  OBVIOUS
<1>1. Init => SafetyInv /\ Memory /\ KeptInv /\ ChosenInv
  BY InitSafe, InitHolds, InitKept, InitChosen
<1>2. SafetyInv /\ Memory /\ KeptInv /\ ChosenInv /\ [Next]_vars /\ [Waits]_vars
        => SafetyInv' /\ Memory' /\ KeptInv' /\ ChosenInv'
  BY StepSafe, StepHolds, StepKept, StepChosen, WaitsOrStays
<1>3. ChosenInv => HandlerMatches
  BY DEF ChosenInv, Chosen, HandlerMatches, Running
<1> QED
  BY <1>1, <1>2, <1>3, PTL DEF Spec
=============================================================================
