# TLA+ models of scrump

scrump finds secrets in capture files (perf, pcap, core dumps, SQLite, tar, ...)
and overwrites them.  These modules model the program's own logic, TLC checks
them on small instances, and TLAPS proves the central facts for instances of
any size.  Paths are relative to `src/`; `PROJECT.json` maps every definition
to the lines it translates.

Contents: 1 Inventory · 2 Plan · 3 Modules · 4 Runs, bounds, fairness ·
5 Proofs · 6 Where the code and its documents disagree · 7 Limits · 8 How to run

## 1. Inventory

| Component | State | Operations | Interacts with | Modelled by |
|---|---|---|---|---|
| CLI (`crates/scrump-cli/src/main.rs`) | none between runs; one opened format and its hits per run | `scan`, `scrub [-o] [--backup]`, `--format` | dispatcher, engine, file system | `Scrub` |
| Atomic write (`scrump-core`, `write_atomic`) | `<file>.scrump.tmp` on disk | create or truncate, write, fsync, rename | other scrump processes, through the fixed name | `Scrub`, `FileSystem`, `Replace` |
| Byte editor (`scrump-core`, `apply_hits_in_place`) | one byte buffer | bounds check, zero-fill, repeat a pattern, refuse `Drop` | every flat format's `apply` | `ApplyHits` |
| Archives (`scrump-format-tar`; `scrump-format-nsys` is the same code under another label) | members, each an opened format, in a linear offset space | extract, lay out, chunks, distribute hits, repack | inner dispatcher, the members' formats | `Archive`, `Memberwise` |
| Dispatcher (`scrump-core`, list in the CLI) | ordered handlers, a fallback | `find`, `find_by_name`, `open_path`, `open_bytes`, `open_path_with` | every format | `Dispatch`; `Scrub` for the two reads of the path |
| Record formats (perf, pcap and pcapng, ELF core, hprof, JFR) and passthrough | the file's bytes and the records parsed from it | `detect`, parse, `chunks`, `apply`, `to_bytes` | byte editor, archives | `PerfData`, `Pcap`, `CoreDump`, `Hprof`, `Jfr`, `Dispatch`, composed by `Capture` |
| SQLite (`scrump-format-sqlite`) | a temporary copy of the database, cells in a linear offset space, a connection | collect, update in one transaction, vacuum, close, read back | SQLite, temporary directory | `SqliteDb` |
| Rules (`scrump-rules`) | rule files, quarantine list | load, two quarantine layers, replacement of the JWT rules, post-filter | engine, harness | `Rules` |
| Engine (`scrump-detect`) | the list of detectors | `scan_chunk`, `scan_chunks_par` | chunks, rules | `Engine`; its result is a parameter of `Scrub`, `Archive`, `Capture` |
| TruffleHog harness (`scrump-trufflehog-compat`) | counters by provider | discover test files, read their cases, evaluate, report, exit code | rules, engine | `GoCases`, `Compat` |
| Presidio harness, fixtures | none | compare verdicts, generate inputs | tests only | no |

The program is sequential apart from a data-parallel scan; what is concurrent
is its environment: several scrump processes on one directory, the tools that
write the captures, kills and power losses.

What is hard, and what makes each component correct:

- **Scrub and write_atomic.**  Up to three reads of one path and one write of
  it, each a separate call that can fail, around a temporary file with a name
  other processes use too.  Correct: a reader gets whole contents, also after a
  power loss (`WholeFiles`, `CrashSafe`); a left-over temporary file holds
  nothing that was not redacted (`TmpHoldsOnlyOutput`); only a complete
  redaction is ever published, in the file it was meant for
  (`PublishesRedaction`, `ImplementsReplace`); the backup holds what was
  replaced (`OriginalKept`); the handler fits the bytes although they are read
  after it was chosen (`HandlerMatches`); a scan after a scrub finds nothing
  (`RescanIsClean`, which fails); commands end (`Terminates`).
- **Byte editor.**  Hits overlap (several chunks show the same bytes), repeat,
  come in any order, and may be out of range; an error leaves the buffer half
  edited.  Correct: exactly the covered bytes change (`EditedExactly`), the
  verdict names the first hit that reaches outside of the buffer or asks for
  what is not supported, also where the sum of its ends overflows (`Verdict`),
  and order does not matter for what the engine asks for (`OrderIndependent`).
- **Archives.**  The offsets of a hit are those of the member's own format, the
  spans are lengths of files.  Correct: a hit reaches its member at its own
  offset (`Delivered`), spans do not overlap (`LayoutSound`), and the whole is
  what scrubbing each member by itself gives, or nothing (`ImplementsMemberwise`).
- **SQLite.**  A copy full of secrets in the temporary directory, a transaction
  that may fail after some updates, two orders nobody controls (SQLite's rows,
  the hash map).  Correct: a hit means the cell it was found in (`Located`), all
  affected cells are redacted or none (`AllOrNothing`, `ImplementsCellwise`), no
  freed page is published (`Purged`), the copy goes with its handler
  (`CopyRemoved`), and no text cell keeps a secret (`NothingLeft`, which fails).
- **Record formats.**  64-bit sums of values read from the file, walks whose
  step is such a value, hits that an archive hands over although no chunk held
  them.  Correct: no slice that does not exist unless a sum wrapped
  (`PanicsOnlyWrapped`), no blind spot between framing and chunks
  (`NothingUnscanned`), no chunk over framing (`FramingApart`), `apply` accepts
  what `chunks` led to (`OwnHitsAccepted`), exactly the hits change
  (`RedactedExactly`), the fields of the walk survive (`FramingKept`), so that
  the result opens as the same records with the same handler (`SameStructure`),
  and walks end (`Ends`).
- **Rules and engine.**  Curation must not drop what it was not meant to
  (`UnseenProvidersKept`, `AnchorIsRun`), and what is reported is the group the
  rule names, all of it and no more, at its place in the file (`HitsAreGroups`).
- **TruffleHog harness.**  It reads Go source without a parser and says yes or
  no with an exit code: cases are read as written (`ReadFaithfully`), counted
  once (`Counted`), evaluated with rules that run (`RunRulesLoaded`), and
  success means that they hold (`ExitHonest`).

## 2. Plan

1. *Done.*  `FileSystem`, `Scrub`, `Replace`: the command line down to system
   calls, with crashes and concurrent processes; `ScrubProofs`, with the
   refinement.
2. *Done.*  `ApplyHits`, `ApplyHitsProofs`: the editor's loop with its errors.
3. *Done.*  `Archive`, `Memberwise`, `ArchiveProofs`: archives, with a proof of
   the refinement.
4. *Done.*  `SqliteDb`: the temporary copy, collection, the transaction,
   vacuum, reading back; `SqliteProofs`, with the refinement of `Memberwise`.
5. *Done.*  `CaptureFile`, one module for each record format, `Dispatch`,
   and `Capture`, which composes them with the editor of `ApplyHits`;
   `CaptureProofs` and `CaptureRowProofs`.
6. *Done.*  `Rules`, `Engine`, `GoCases`, and `Compat`, which composes them
   into a run of the harness; `CompatProofs`.
7. *Done.*  `GoSyntax`, what a test table means, and `GoCasesProofs`, that the
   reader of `GoCases` yields it.

What is left to TLC: everything live (section 5).

Modules without RECURSIVE operators, parameters as constants with named
assumptions, one action per operation: so that each can be proved about as well
as checked.

## 3. Modules

### FileSystem (external: what `src/` relies on)

Names refer to inodes, inodes hold blocks.  `dir` and `data` are what processes
see, `ddir` and `ddata` what a power loss would leave.  `OpenTruncate`,
`WriteBlock`, `SyncData`, `Rename`, `SyncDirectory` and `LosePower` are the
calls and events.  The directory becomes durable as a whole and in order, as on
a journalling file system; data become durable by `sync_all` or whenever the
kernel likes.  A rename without fsync of its data may therefore survive while
the data do not, which is the reason for `sync_all` in `write_atomic`.

### Scrub

One action per call of a process that touches the file system, or for all the
work in memory between two such calls:

| Action | Code |
|---|---|
| `Start` | the user runs a command |
| `ReadHead`, `OpenPath` | `read_head` and `Dispatcher::find`, then the handler's `open_path`: two opens of one path |
| `ScanChunks` | chunks, engine, and the early returns of `scan` and of `scrub` without hits |
| `CopyOpen`, `CopyBlock`, `CopyClose` | `std::fs::copy(path, path.orig)` |
| `Apply` | `Format::apply` and `to_bytes` |
| `OpenTmp`, `WriteTmp`, `SyncTmp`, `RenameTmp` | `write_atomic` |
| `Fail`, `Refused` | a call returns an error and `?` ends the command |
| `Kill`, `PowerLoss`, `Update`, `WriteBack`, `CommitDirectory` | the environment |

What formats and rules do with a content is given by `Claims` and `HitAt`.
`whole` and `outputs` are history variables; no action reads them.  Definitions
introduced as "Faulty variant" take no part in any specification: they are the
bugs against which the properties were tried.

`InPlace` and `KeepsFormat` are conditions on the constants that a theorem names
(section 5): every scrub is in place; zeros at the hits leave what a file is
recognized by.

`Replace` is the promise: a file is replaced as a whole, by a redaction of
something that was a file before, and a power loss brings back one of the whole
contents.  `Promise == INSTANCE Replace` in `Scrub` is the refinement mapping.

### ApplyHits

The loop of `apply_hits_in_place`, one hit per step.  `start` is the cast of a
64-bit offset to `usize`, `checked_add` the checked sum of the code; the width
is the constant `UsizeMax`.  `Scrub` takes the whole loop as one step `Redact`,
which `OrderIndependent` justifies: the engine only asks for zero-fill.

### Archive

`Archive::from_bytes_labelled` is `Extract`, `Extracted`, `Place`, `Placed`;
`chunks` with the engine is `ScanChunks`; the two loops of `apply` are
`Distribute`/`Homeless` and `ApplyMember`/`Refuses`/`Applied`; `to_bytes` is
`Repack`.  A member is a sequence of blocks in a *form*: how many offsets a
block takes in the chunks (`Unit`), how many bytes in the file (`Stored`), how
many blocks are in no chunk (`Header`), whether a hit must lie in one cell
(`Celled`).  Text has `Unit = Stored`; a UTF-16 SQLite database has
`Unit > Stored`, since the library returns its text in UTF-8.  A hit carries,
as history, the member and block it was found in.

`Memberwise` is the promise: every member cleaned as if by itself, or nothing
changed.  `Contained` states what the module's comment takes for granted, that
no member's chunks are longer than its file.

### SqliteDb

| Action | Code |
|---|---|
| `CopySource`, `CopyFails`, `Connect`, `CollectCell`, `Collected`, `OpenFails` | `from_bytes_inner`, `collect_text_cells` |
| `ScanChunks` | `chunks`, the engine, and the scrub's early return |
| `Begin`, `Misplaced`, `UpdateCell`, `Refused`, `Commit`, `Vacuum`, `Close` | `apply` |
| `ToBytes` | `to_bytes`, then `Drop` |
| `Fails`, `Kill` | an error of any call, the end of the process |

`EndWith` is the return of the scrub and contains `Drop`, which removes the
copy.  `opened` is a history variable: before a `SqliteDb` exists there is
nothing to drop, and an error of SQLite in between leaves the copy behind;
`CopyRemoved` excludes exactly that case and a kill.  `txn` is the database as
the open transaction sees it, `slack` what its free pages still hold.  `Stray`
hits stand for those a container hands over by mistake.  The promise is again
`Memberwise`, with cells for members.

### CaptureFile, Dispatch, the record formats, Capture

A file is a sequence of cells: a field the code reads, or a unit of content.
Fields the code does not read are left out, so headers are shorter and every
length counts cells.  `CaptureFile` has what all handlers share: the buffer, the
walk's cursor, the records collected so far, and `add`, the 64-bit sum of a
release build, which wraps; `wrapped` records that it did.  (A debug build
panics there instead.)

| Module | Code |
|---|---|
| `Jfr` | chunk headers, each with the size of its chunk; `JfrAccepts` keeps hits off the headers |
| `Hprof` | the text up to NUL, id size, tagged records; string and body chunks |
| `Pcap` | `parse_classic` (records) and `parse_pcapng` (blocks), payload chunks, `PcapAccepts` |
| `PerfData` | header, data section, the table of feature sections |
| `CoreDump` | program headers, notes of PT_NOTE segments, the arguments in PRPSINFO, overlapping chunks |
| `Dispatch` | `detect` of every handler in the order of the CLI's and of the archives' list, the 512 bytes of the head, `--format` |

Each has its `...Open`, one action per record of its walk, `...Chunks`,
`...Framing` (the fields the walk depends on) and `...Next`.  `Capture` routes a
file to a handler (`Dispatching`), opens it (`Opening`), takes all chunks
(`ChunksPanic` if one is no slice), finds hits in them (`ScanOwn`) or gets hits
from an archive that holds the file (`ScanStray`), looks at all of them
(`Guard`), edits (`EditHit`, an instance of `ApplyHits`) and opens the result
again (`Reopen`).  `orig`, `own`, `apart` and `first` are history variables.

### Rules, Engine, GoCases, GoSyntax, Compat

`Rules` is the quarantine by id, the one by shape, `default_detectors` and the
replacement of all JWT rules by `JwtHsAware`.  A pattern is a sequence of
symbols, one for each kind of character the scan for a literal anchor tells
apart.  `Engine` is `scan_chunk`; a regex is a keyword, a gap and a list of
values, of which a first part is group 1 and the rest stands behind the group
(as in `azureappconfigconnectionstring`, `alibaba__idpat` and
`azure_batch__urlpat`; of `shopify__keypat` group 1 is only the prefix), and
`captures_iter` its contract: leftmost matches that do not overlap.
`GoCases` reads a Go test file, a sequence of tokens as gofmt prints them:
`extract_vars`, `parse_provider`, `parse_case`, `read_want` and the rest, with
the code's recovery behind the next comma when a name does not resolve.  Each
loop is a function by recursion on a place in the tokens.

`GoSyntax` is the reference the reader is held against and models no code: what
an entry means in Go, by a syntax tree whose nodes know their places.
`IsEntry(b, fields, decls)` says that a tree fits a text and that the reader can
know its names: those declared once, by one literal, and calls of `Sprintf`
with as many placeholders as arguments.  `EntryMeans` is its case.  Fields
come in any order, each once; an input is a sum of literals, names and calls; a
want is nil, a name or a list of nonempty words; any other field is whatever its
braces hold together.

The rules of a file are a set of records, since no outcome depends on their
order: detectors share nothing.  `CompatAssumption` says what the rule files
are: `th_extract` names a rule of the vendored detectors `provider__name`
(`crates/scrump-trufflehog-compat/src/bin/th_extract.rs:89-97`), while the ids of
the default rules are of one word; a rule without a capture group has no keyword
in front, the ids in the map are their provider's, and a token of the JWT
regex has a header in front of its first dot.  The map may be older than the
rules: it is a file that `th_extract` writes and git ignores.  `seen` is a history variable, with
one verdict for every case that was judged.  `TOLERATED` is empty as in the code
(`main.rs:848-851`).

`Compat` is `main`: `LoadRules`, `LoadFails`, `NoVendor`, `MapFails`, `Discover`,
then per file `SkipNoRules`, `SkipUnreadable` or `ReadCases`, per case `Evaluate`,
then `CasesEnd`, at last `Report`.

### MC modules

`MCScrub`, `MCApplyHits`, `MCArchive`, `MCSqliteDb`, `MCCapture`, `MCCompat` hold the small contents, commands, hits,
archives, files and rules; the `.cfg` files choose among them.

## 4. Runs, bounds, fairness

| Run | What it shows | States |
|---|---|---|
| `scrub_crash` | two processes, in-place and backup scrubs, one producer's update, errors, kills, power losses at every step: `WholeFiles`, `CrashSafe`, `TmpHoldsOnlyOutput`, `ImplementsReplace` | 972 k |
| `scrub_copies` | a scan, scrubs in place with `--backup` or a forced handler, a scrub with `-o` to a second file, and a producer that waits: `HandlerMatches`, `OriginalKept`, `PublishesRedaction`; and every command ends, whatever the other processes do: `Terminates` | 558 k |
| `apply_loop` | all lists of up to two hits of any kind (three zero-fills), with overflowing ends: the editor's properties | 11 k |
| `archive_members` | archives of up to three members of every kind, also one that cannot be opened and one whose last cell lies behind its span | 28 k |
| `sqlite_cells` | databases of up to three cells, every order of collection and of updates, conflicts in a column of distinct values, an error or a kill at every call; it ends and takes its copy with it | 68 k |
| `capture_formats` | whole, truncated and inconsistent files of the five record formats and others, dispatched, opened, scrubbed with hits of their own or an archive's, opened again | 165 k |
| `compat_corpus` | rules of every shape, provider maps as old as the rules and older, test files in all orders of fields, with names that resolve and names that do not, through the whole harness | 26 k |
| `scrub_shared`, `scrub_backup_power`, `scrub_rescan`, `archive_wide`, `sqlite_declared` | expected violations, section 6 | |

Bounds.  *Processes:* two are enough for one to interfere with another at each
step, as the writer of what it reads or of what it writes.
*Blocks:* contents of two or three blocks, so a write or a copy can be cut in
the middle and a hit is not the whole file.  *Inodes:* one for each name and
each open descriptor; `CanOpen` and `Refused` make running out an error.
*Updates:* `MaxUpdates` producer steps, one between any two reads.  *Hits:* two
of any kind show every order, overlap and error; `UsizeMax = 7` lets sums
overflow.  *Members:* three, so that a hit has a wrong member on both sides.
*Cells:* three, of which two can conflict while a third is updated or not.
*Capture files:* at most eleven cells, `U64Max = 63`, so that a size can wrap,
reach behind the file, into the next header or exactly to its end; `MaxRecords`
stops a walk that a wrapped sum sends back.  Several thousand files are enough
because a walk's step depends only on the cell at the cursor and the length of
the file.  *Rules:* for each layer of the quarantine a rule on either side of
it, patterns with a class in a repetition and the reverse, `MinRun = 2` for the
code's three.  *Test files:* up to four, of which several belong to one
provider, with up to three cases each; every shape of an entry in a file of its
own.
`CHECK_DEADLOCK FALSE` everywhere because commands and loops end.

Fairness.  `Terminates` assumes that the scheduler runs each process and that
every call returns: `WF_vars(Progress(p))` for each process, where `Progress` is
its next call or the error it must get.  Spontaneous errors, kills, power
losses, updates and the user's starting a command are under no fairness.
`CopyRemoved` assumes `WF_vars(Progress)`, the next call without an error; `Ends` of
`Capture` assumes `WF_vars(Next)`: loops in one thread that waits for nobody.  It
leaves out files in which a sum wrapped: there a JFR walk may go back and never
end.

Where `Serialize = TRUE` users run one scrub at a time for each destination;
`scrub_shared` shows that the code needs this.  `MaxUpdates` is 1 in `scrub_crash`,
with a producer at any time, and in `scrub_copies`, with one that waits (`Waits`);
it is 0 elsewhere.

## 5. Proofs

All are for every value of the constants that satisfies the named assumptions
(`FileSystemAssumption`, `ScrubAssumption`, `ApplyAssumption`,
`ArchiveAssumption`, `SqliteAssumption`, `CaptureAssumption`, `RulesAssumption`,
`CompatAssumption`, and of the formats `WidthAssumption`, `JfrAssumption`,
`HprofAssumption`, `PcapAssumption`, `PerfAssumption`, `CoreAssumption`,
`DispatchAssumption`): any number of files, processes, blocks, hits, members,
cells, records, rules and cases, and files of any length.

**ScrubProofs.**  `TypeCorrect` needs no further assumption.  `Atomic`
(`WholeFiles`) and `SurvivesPowerLoss` (`CrashSafe`) hold under `Serialize`.
Neither is inductive: that the rename publishes a whole content depends on what
the temporary file holds before it.  `SafetyInv` adds: no two scrubs share a
destination (`Exclusive`); no inode has two names and none moves between roles
(`NoLinks`, `DiskApart`, `CopyApart`); the descriptor a scrub writes to is its
temporary file (`TmpOwned`), which holds what was written (`TmpWritten`) and,
before the rename, all of it on disk (`TmpSynced`); hence users' files are whole
and on disk, along the visible and the durable directory (`UserSettled`).  There
is one lemma for each call of the file system, then one for each action.

Also under `Serialize`: `ReplacesWholeFiles`, that `Scrub`
implements `Replace`; `PublishesOnlyRedaction`; `LeftOversAreRedacted`
(`TmpHoldsOnlyOutput`).  To `SafetyInv`, which says that contents are whole, it
adds which content a process has in memory (`Memory`): one that was a file from
the read on, the hits of its handler from the scan on, a redaction of such a
content from `apply` on.  Then each step is followed by what it does to the
users' view: opening, writing, fsync and write-back do nothing to it, since what
is written is no user's file and a user's file is on disk already; the rename,
an update, the commit of the directory and a power loss are the four actions of
`Replace`.  `LeftOvers` follows the temporary files along both directories: an
inode that is one now or would be one after a power loss holds, in memory and on
disk, the beginning of an output.  It needs that no backup is a temporary file
of the directory on disk.

Under `Serialize` and `[][Waits]_vars`, that is with producers that replace no
file between a command's first read of it and the command's end:
`BackupIsOriginal` (`OriginalKept`).  This is a real condition: the code cannot
see a producer, and with one that does not wait it fails.  `KeptInv` is what it
needs and is inductive with the invariants above: from its read to its rename, what a
scrub in place has read is what its path still shows, its hits aside
(`StillRead`), a copy under way holds the first blocks of it, and a backup that
was made is equal to it (`BackedUp`).  Power losses are included: a loss ends
every process.

`RightHandler` (`HandlerMatches`) needs in addition that scrubs are in place (an
`-o` of another process replaces a file by one of another format) and
`KeepsFormat`: what `detect` looks at, magic numbers and extensions, is matched
by no rule.  Then a file may well be replaced between the two reads, by another
scrub, and still goes to the handler that was chosen (`ChosenInv`).  `MCScrub`
checks on its contents that the condition can be met.

**ApplyHitsProofs.**  `EditorTypeCorrect`, `Exact`, `VerdictRight`,
`ZeroFillOrderIndependent`.  `VerdictRight` compares the loop's guard, a checked
sum of `usize` width, with the sum of the integers (`GuardExact`): a hit passes
the guard exactly if it lies in the buffer.  The last needs that after n zero-fill
hits the buffer is the original with zero at what the first n cover; that is
inductive because overwriting with zero is idempotent and commutes.

**ArchiveProofs.**  Under `Contained`: `ArchiveTypeCorrect`, `SpansApart`,
`HitsDelivered` and `MembersCleaned`, that `Archive` implements `Memberwise`.
The invariant `Inv` says what each variable holds at each stage in terms of the
archive that was read: members with an index below the loop's are redacted by
exactly the hits found in them (`MembersMatch`), the buckets are those hits at
the members' own offsets (`BucketsMatch`), and the output is the cleaned
entries (`OutputMatch`).  The argument for the buckets is arithmetic: a hit lies
in the span of its member by `Contained`, and in no other because spans follow
one another.  `RedactOwnHits` shows that redacting by those hits touches
exactly their blocks.

**SqliteProofs.**  `HitsLocated`, `AtomicUpdate`, `FreedCellsPurged`,
`CopyDropped` (the safe half of `CopyRemoved`: a scrub that ended, other than by
a kill or before there was a `SqliteDb`, has removed its copy) and
`CellsCleaned`, that `SqliteDb` implements `Memberwise`.  The cells' offsets
follow one another (`CellsMatch`), so a hit lies in its cell and no other, and a
stray hit lies in none: when the transaction begins, the hits are exactly those
found (`HitsMatch`).  Inside it the cells already visited are redacted by their
own hits and the others are as read, in whatever order (`TxnMatch`); the store
is what was read until the commit (`StoreMatch`), and what is read back after
vacuum is the committed store (`OutputMatch`).

**CaptureProofs.**  `SlicesExist`, `OwnHitsPass`, `RedactionExact`.  Every record
lies in the file unless a sum wrapped (`RecsMatch`): the 64-bit sum of two
numbers is exact or smaller than either, so a walk that checks the end of a
record has checked its slice, and one that does not is where `wrapped` comes
in; a note that can be read lies in its segment, and padding never shortens
(`NotesMatch`).  What `chunks` shows is within what the guard of `apply`
accepts, one lemma for each format (`GuardMatch`).  While hits are edited the
file is the original with zeros under the hits so far (`EditMatch`).

**CaptureRowProofs.**  `NoBlindSpot`, `FramingUnseen`, for JFR, hprof and classic
pcap, whose files are one row of records.  The records' extents, header and
body, follow one another from the start of the row to the cursor without a gap
(`Row`); so a cell that was passed over is in one of them, in its header
(framing) or its body (a chunk), and, extents being disjoint, a chunk of one
record holds no header of another.

`FramingSurvives` (`FramingKept`) is about all formats.  Which cells are framing
depends on the records and on framing cells only, so while no accepted hit
covers one, editing does not change which cells those are (`FrameMatch`).  The
one set that is read off the file itself are the starts of pcapng's blocks
(`BlockStarts`): a block's start is given by the lengths in the blocks before
it, and the first start to be wrong in the edited file would have a framing cell
changed in front of it.

`ResultOpensTheSame` (`SameStructure`) says that the result, opened again, goes to
the handler the file went to, gives no error, and has the same records.  The
steps of `Opening` are written once more as a function `WalkStep` of a file and
of where a walk is, and shown to be what the actions do.  A step depends on
few cells of the file (`Looks`; `Local`).  The states that the first opening went
through are kept as its trail (`IsTrail`, `Told`): the walk has left each of them
behind, and all the cells it looked at there are framing, in pcap files as far
as no payload covers them (`LeftBehind`).  So after an edit that spared the
framing every state of the trail looks at what it looked at before
(`SparedMatch`), the trail is one of the edited file too, and the second opening
can only go along it to the same end (`Retold`).  The file goes to the same
handler because the cell that tells formats apart is looked at by the walk, and
because a zero in it makes no other handler claim the file.

**CompatProofs.**  `AnchorsFound` (`AnchorIsRun`), `UnseenProvidersAreKept`,
`RulesOfCasesRun`, `ReportsGroups` (`HitsAreGroups`), `EveryCaseCounted`
(`Counted`), `SuccessIsHonest` (`ExitHonest`): for any rules and any corpus.  The
scan for an anchor and the search of a regex are functions by recursion on a
position; what they compute is shown for the least position at which it would
be wrong (`FirstWrong`, from `MinExists`), where it was right at all earlier
ones.  Where a match stands its group stands in front of the rest
(`PartsOccur`), which is why a hit is the group and nothing else.  `Curated` says that the engine's rules are what curation leaves, and the
quarantine by id, the overrides and the map fit together because of how ids are
made (`CompatAssumption`).  `Books` is the inductive invariant for the counters:
the walk over the files (`Walking`), each file in one place (`FilesOnce`), each
case judged at most once (`JudgedOnce`) and as it deserves (`Judging`), and the
counters equal to the numbers of verdicts (`Tallied`).  `ReadsAsWritten`
(`ReadFaithfully`) follows from `CaseRead` below, entry by entry.  With it
`SuccessIsHonest` needs no assumption: an exit code of 0 with no failure allowed
means that no verdict is a failure, and every verdict is about a case as it is
written.

**GoCasesProofs.**  The reader, for every text and every tree: `CaseType`, that
what it yields is a case whatever the text, and `CaseRead`, that it is
`EntryMeans` wherever `IsEntry`.  `CaseType` comes first, since a function by
recursion means something only if a step from a place uses later places:
`Recursion` (a fixed point exists) and `OnlyOne` (there is no other) are proved
once and used for arguments, sums, entries of a list, words, skipped values
and fields.  For that the place each part ends at must lie behind the place it
began at, for any text: a call that never closes, a comma too many, a name that is
unknown.  `CaseRead` then goes up the tree: an atom, the arguments of a call from
the last to the first, the placeholders of its format (`FormatMeans`: the n-th
placeholder of the walk is the n-th by counting), a term, a sum, the words of a
list, a value with braces (the walk jumps from brace to brace, the tree speaks of
depth), a field, and the fields from the last to the first.  Each of these
is an induction on a place, done by `LastWrong`: take the last place at which
the walk and the tree disagree.

*Only model-checked:* everything live (`Terminates`, `CopyRemoved`, `Ends`), since
TLAPS does not reason about fairness and ENABLED.

## 6. Where the code and its documents disagree

- `scrub_shared`: two scrubs of one file use the same `<file>.scrump.tmp`; one
  truncates what the other is about to rename, so a reader may get an empty or
  partial file, although `write_atomic` is to replace "atomically".
- `scrub_backup_power`: the backup is not synced while its replacement is, so a
  power loss can keep the redacted file and lose "the original at *.orig".
- `archive_wide`: a UTF-16 SQLite member can have longer chunks than its file;
  hits behind its span are given to the next member.
- `sqlite_declared`: text in a column declared JSON, DATETIME or the like is not
  scanned, although "every TEXT/BLOB cell across every user table" is to be.
- `scrub_rescan`: a keyword rule reports the first token behind a keyword; with
  that one zero the next scan reports the token behind it, although the scrub
  exited 0 and "re-scan reports zero hits" (`tests/e2e.sh:7`, SECURITY.md:34-36).

Also seen, without a run: `scrub some-file -o clean` writes no copy when nothing
is found (`AfterScan`); links in an archive come back as empty regular files
(`Repack`); the SQLite copy is in the temporary directory, not "a sibling temp
path" (`scrump-format-sqlite/src/lib.rs:5`); an archive within an archive is scanned as
compressed bytes (the code says so at `scrump-format-tar/src/lib.rs:294`, while
README.md:29 says "recursively"); that comment's "every leaf format" leaves out
pcap; docs/ARCHITECTURE.md says that `apply` refuses structural bytes, and
`apply_hits_in_place` has no such check: the object id in front of an hprof string is
in its chunk and can be zeroed.

- `shopify__keypat` (`trufflehog.yaml:2678`) reports the prefix `shpat_` and not the
  secret behind it, which a scrub leaves.  The harness does not see it: a hit
  *within* the expected word counts as found (`FoundBy`), where its header has
  "every expected substring appears in at least one scrump hit" (`main.rs:20-22`).
- The JWT post-filter drops tokens with an HMAC header from one detector only:
  the rules `caflou__keypat`, `stripo__keypat` and `appfollow__keypat` match such
  tokens themselves and report them.
- A perf data section that reaches behind the end of the file and the last
  record of a truncated pcap are not scanned, without a word (`PerfData`,
  `ClassicEnd`); a file named `.pcap` that is none is an error, not passed
  through (`PcapDetect`).
- The harness: `extract_vars` takes the first literal of a sum, where its comment
  says that concatenations are skipped; an input that does not resolve makes the
  reader lose the case's `want`; with arguments of `Sprintf` that do not resolve the
  others move up; a test file that cannot be read is counted nowhere and an empty
  corpus is a success (`SkipUnreadable`, `Discover`); an id that only an old map
  has is evaluated without a rule, so that negative cases pass (`RuleIds`);
  `has_literal_anchor` counts the letters of a
  group's name; `rule_is_active` says yes to JWT rules that `default_detectors`
  drops, which only the overrides make up for (`RunRulesLoaded`); the list
  `TH_QUARANTINE` is not "kept in sorted order", on which nothing depends.

## 7. Limits

- Not modelled: the regex engine, compression, SQLite and archive libraries
  (taken at their contracts), floating-point entropy (a rank that is only
  compared with floors), printed text; `th_extract`, which writes the rules file
  and the provider map and is run by hand; the Presidio harness and the
  fixtures, which the program does not use.
- Of the formats: byte order, alignment and fields the code does not read; of
  the rules: the YAML text and the order of the rules; of Go source:
  comments and escapes in strings, and in a format the flags, widths and `%%` of
  `substitute_format`: a placeholder is one cell.  What an ELF core's header is
  checked for is one cell as well: `OddCore` is one that `detect` takes and the
  handler refuses for its `e_phentsize`.
- The parallel scan is the union over the chunks: detectors share nothing.
- Of SQLite: triggers, write-ahead logs beside the database, pattern
  replacements, and an error of `remove_file` when the handler is dropped.
- What a producer stores in a file between a scrub's read and its rename is
  overwritten.  `Scrub` has these updates, and no property forbids the loss,
  since nothing in the code could prevent it; `OriginalKept` and
  `HandlerMatches` are checked and proved for producers that wait (`Waits`).
- File modes, owners and times are not part of a content; neither are symbolic
  links among the user's files.
- An archive's `Extract` reads one entry per step; nothing can interfere, since
  the file's bytes are already in memory.

## 8. How to run

    tlc -workers 2 -config Scrub_crash.cfg MCScrub
    tlc -workers 2 -config ApplyHits_loop.cfg MCApplyHits
    tlc -workers 2 -config Archive_members.cfg MCArchive
    tlc -workers 2 -config SqliteDb_cells.cfg MCSqliteDb
    tlc -workers 2 -config Capture_formats.cfg MCCapture
    tlc -workers 2 -config Compat_corpus.cfg MCCompat
    tlc -workers 2 -config Scrub_rescan.cfg MCScrub      # and the other expected violations
    tlapm ScrubProofs.tla ; tlapm ApplyHitsProofs.tla
    tlapm ArchiveProofs.tla ; tlapm SqliteProofs.tla
    tlapm CaptureProofs.tla ; tlapm CaptureRowProofs.tla
    tlapm GoCasesProofs.tla ; tlapm CompatProofs.tla
