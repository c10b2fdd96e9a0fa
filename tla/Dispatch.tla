------------------------------ MODULE Dispatch ------------------------------
(***************************************************************************)
(* How a file gets its handler: Dispatcher (crates/scrump-core/src/lib.rs) *)
(* with the handlers of the command line (crates/scrump-cli/src/main.rs)   *)
(* or, for a member of an archive, those of inner_dispatcher               *)
(* (crates/scrump-format-tar/src/lib.rs).                                  *)
(***************************************************************************)
EXTENDS Jfr, Hprof, Pcap, PerfData, CoreDump

CONSTANTS
    TarMagic,       \* zip, gzip or zstd, or a tar header in the head
    SqliteMagic,    \* SQLite format 3
    HeadMax         \* cells of the head that is read to choose a handler

ASSUME DispatchAssumption == {TarMagic, SqliteMagic} \subseteq Cell \ {0} /\ HeadMax \in Nat \ {0}

VARIABLES
    ext,        \* extension of the file's name
    member      \* the file is a member of an archive

(* Registration order; the first one that detects its format wins.         *)
build_dispatcher == <<"perf", "nsys", "tar", "elf-core", "hprof", "jfr", "pcap", "sqlite">>
inner_dispatcher == <<"perf", "sqlite", "elf-core", "hprof", "jfr">>
fallback == "passthrough"
handlers == IF member THEN inner_dispatcher ELSE build_dispatcher

NsysDetect == ext = "nsys"
TarDetect(head) == (Len(head) >= 1 /\ head[1] = TarMagic) \/ ext = "tar"
SqliteDetect(head) == Len(head) >= 1 /\ head[1] = SqliteMagic

detect(name, head) ==
    CASE name = "perf"     -> PerfDetect(head)
      [] name = "nsys"     -> NsysDetect
      [] name = "tar"      -> TarDetect(head)
      [] name = "elf-core" -> CoreDetect(head)
      [] name = "hprof"    -> HprofDetect(head)
      [] name = "jfr"      -> JfrDetect(head)
      [] name = "pcap"     -> PcapDetect(head, ext)
      [] name = "sqlite"   -> SqliteDetect(head)

(* read_head, open_bytes: the first cells of the file. *)
head_of(b) == SubSeq(b, 1, IF Len(b) < HeadMax THEN Len(b) ELSE HeadMax)

(* Dispatcher::find *)
find(head) ==
    LET claims == {i \in DOMAIN handlers : detect(handlers[i], head)}
    IN  IF claims = {} THEN fallback
        ELSE handlers[CHOOSE i \in claims : \A j \in claims : i <= j]

(* Dispatcher::find_by_name, for --format *)
find_by_name(name) == (\E i \in DOMAIN handlers : handlers[i] = name) \/ name = fallback

(* Archives and databases have handlers, and modules, of their own. *)
Elsewhere == {"nsys", "tar", "sqlite"}
OpenWith(h) ==
    /\ handler' = h
    /\ phase' = IF h \in Elsewhere THEN "elsewhere" ELSE "open"
    /\ UNCHANGED <<bytes, cursor, limit, entry, recs, wrapped, ext, member>>

(* Dispatcher::open_path, open_bytes *)
Route ==
    /\ phase = "dispatch"
    /\ OpenWith(find(head_of(bytes)))

(* Dispatcher::open_path_with: a handler by name, whatever the content; a  *)
(* name that is not registered is an error.                                *)
RouteTo(name) ==
    /\ phase = "dispatch" /\ ~member
    /\ IF find_by_name(name) THEN OpenWith(name)
       ELSE Fail /\ UNCHANGED <<handler, bytes, ext, member>>

(* The fallback handler opens everything. *)
PassthroughOpen ==
    /\ handler = fallback /\ phase = "open"
    /\ phase' = "opened"
    /\ UNCHANGED <<handler, bytes, cursor, limit, entry, recs, wrapped>>
PassthroughChunks == {[from |-> 0, to |-> len]}
=============================================================================
