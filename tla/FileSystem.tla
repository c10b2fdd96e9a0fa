----------------------------- MODULE FileSystem -----------------------------
(***************************************************************************)
(* The file system as the scrump processes use it: names that refer to     *)
(* inodes, inodes that hold a sequence of blocks, and for both what is     *)
(* visible now and what a power loss would leave behind.                   *)
(*                                                                         *)
(* None of this is code of the repository: it is what src/ relies on when  *)
(* it calls OpenOptions::open, write_all, sync_all, rename and fs::copy.   *)
(* Two facts of POSIX matter to the properties.  open(O_CREAT|O_TRUNC) of  *)
(* an existing name empties the inode behind that name, which another      *)
(* process may hold open.  rename is atomic for a reader; after a power    *)
(* loss it has happened or not, and fsync of a file orders its data, not   *)
(* its name.                                                               *)
(***************************************************************************)
EXTENDS Naturals, Sequences

CONSTANTS
    Files,      \* names a user gives to scrump, without a suffix
    Inodes,     \* identities of the files' contents
    NoInode,    \* the inode of a name that does not exist
    Absent,     \* the content of a name that does not exist
    Blocks,     \* what a block of a file can hold
    Zero        \* the block of NULs, which also fills the hole of a sparse file

ASSUME FileSystemAssumption ==
    /\ NoInode \notin Inodes
    /\ Absent \notin Seq(Blocks)
    /\ Zero \in Blocks

VARIABLES
    dir,        \* name |-> inode, as every process sees it
    data,       \* inode |-> blocks, as every process sees them
    ddir,       \* the directory a power loss would leave
    ddata       \* the blocks a power loss would leave

fsVars == <<dir, data, ddir, ddata>>

Content == Seq(Blocks)

(* A name is a user's file, the temporary sibling or the backup of one. *)
User(f)         == <<f, "">>
tmp_sibling(f)  == <<f, ".scrump.tmp">>
backup_path(f)  == <<f, ".orig">>
Names == {User(f) : f \in Files} \cup {tmp_sibling(f) : f \in Files}
                                \cup {backup_path(f) : f \in Files}

FsTypeOK ==
    /\ dir   \in [Names -> Inodes \cup {NoInode}]
    /\ ddir  \in [Names -> Inodes \cup {NoInode}]
    /\ data  \in [Inodes -> Content]
    /\ ddata \in [Inodes -> Content]

(* What a reader of name n gets now, and what it would get after a power loss. *)
Visible(n) == IF dir[n]  = NoInode THEN Absent ELSE data[dir[n]]
Durable(n) == IF ddir[n] = NoInode THEN Absent ELSE ddata[ddir[n]]

-----------------------------------------------------------------------------
(* An inode nobody can reach: no name, now or after a power loss, and no   *)
(* open descriptor (inUse) refers to it.                                   *)
Free(inUse) == {i \in Inodes \ inUse : \A n \in Names : dir[n] # i /\ ddir[n] # i}

(* The inode that open(n, O_CREAT) yields. *)
Target(n, inUse) == IF dir[n] # NoInode THEN dir[n] ELSE CHOOSE i \in Free(inUse) : TRUE
CanOpen(n, inUse) == dir[n] # NoInode \/ Free(inUse) # {}

(* What truncation leaves of an open file. *)
KeepContent(i) == data[i]
Emptied(i) == << >>

OpenTruncate(n, inUse) ==
    LET i == Target(n, inUse) IN
    /\ CanOpen(n, inUse)
    /\ dir'   = [dir EXCEPT ![n] = i]
    /\ data'  = [data EXCEPT ![i] = Emptied(i)]
    /\ ddata' = [ddata EXCEPT ![i] = IF dir[n] = NoInode THEN << >> ELSE @]
    /\ UNCHANGED ddir

(* Content c with block b written at position k, the hole before k zeroed. *)
Written(c, k, b) ==
    [j \in 1 .. IF k > Len(c) THEN k ELSE Len(c) |->
        IF j = k THEN b ELSE IF j <= Len(c) THEN c[j] ELSE Zero]

WriteBlock(i, k, b) ==
    /\ data' = [data EXCEPT ![i] = Written(@, k, b)]
    /\ UNCHANGED <<dir, ddir, ddata>>

(* fsync, and equally the kernel's write-back of one file. *)
SyncData(i) ==
    /\ ddata' = [ddata EXCEPT ![i] = data[i]]
    /\ UNCHANGED <<dir, data, ddir>>

Rename(from, to) ==
    /\ dir[from] # NoInode
    /\ dir' = [dir EXCEPT ![to] = dir[from], ![from] = NoInode]
    /\ UNCHANGED <<data, ddir, ddata>>

(* The journal commits the directory as it now is. *)
SyncDirectory ==
    /\ ddir # dir
    /\ ddir' = dir
    /\ UNCHANGED <<dir, data, ddata>>

(* Whoever produces file f replaces it as a whole and makes that durable. *)
Produce(f, c, inUse) ==
    LET i == CHOOSE j \in Free(inUse) : TRUE IN
    /\ Free(inUse) # {}
    /\ dir'   = [dir EXCEPT ![User(f)] = i]
    /\ ddir'  = [ddir EXCEPT ![User(f)] = i]
    /\ data'  = [data EXCEPT ![i] = c]
    /\ ddata' = [ddata EXCEPT ![i] = c]

LosePower ==
    /\ dir'  = ddir
    /\ data' = ddata
    /\ UNCHANGED <<ddir, ddata>>
=============================================================================
