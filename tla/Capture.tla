------------------------------ MODULE Capture ------------------------------
(***************************************************************************)
(* One capture file through the record formats: a handler is chosen, walks *)
(* the file, hands out chunks; hits are found in the chunks, or delivered  *)
(* by an archive the file is a member of; they are checked and applied by  *)
(* the byte editor (ApplyHits); the result is opened again.                *)
(***************************************************************************)
EXTENDS Dispatch, FiniteSets

CONSTANTS
    Files,          \* the files: records of bytes, ext and member
    Forced,         \* names given to --format
    Strays,         \* lists of hits an archive may deliver that no chunk held
    MaxHits,        \* bound: hits found in one file
    MaxHitLen       \* bound: cells of a hit

(* No buffer comes near the size of the address space. *)
ASSUME CaptureAssumption ==
    /\ \A f \in Files : f.bytes \in Seq(Cell) /\ Len(f.bytes) + NoteHeader <= U64Max
    /\ \A s \in Strays : s \in Seq(Span)
    /\ MaxHits \in Nat /\ MaxHitLen \in Nat

VARIABLES
    orig,       \* history: the file as it was
    hits,       \* the hits to apply, in the order they were found
    next,       \* index of the next one
    own,        \* history: the hits were found in the handler's chunks
    apart,      \* history: no chunk covers framing
    first       \* history: handler and records of the first opening

capture == <<orig, hits, next, own, apart, first>>
allvars == <<vars, ext, member, capture>>

NotYet == [handler |-> "none", recs |-> <<>>]
Again == first # NotYet

Init ==
    /\ \E f \in Files : bytes = f.bytes /\ ext = f.ext /\ member = f.member
    /\ orig = bytes
    /\ handler = "none" /\ phase = "dispatch"
    /\ cursor = 0 /\ limit = 0 /\ entry = 0 /\ recs = <<>> /\ wrapped = FALSE
    /\ hits = <<>> /\ next = 1 /\ own = TRUE /\ apart = TRUE /\ first = NotYet
-----------------------------------------------------------------------------
Chunks ==
    CASE handler = "jfr"      -> JfrChunks
      [] handler = "hprof"    -> HprofChunks
      [] handler = "pcap"     -> PcapChunks
      [] handler = "perf"     -> PerfChunks
      [] handler = "elf-core" -> CoreChunks
      [] handler = fallback   -> PassthroughChunks

Framing ==
    CASE handler = "jfr"      -> JfrFraming
      [] handler = "hprof"    -> HprofFraming
      [] handler = "pcap"     -> PcapFraming
      [] handler = "perf"     -> PerfFraming
      [] handler = "elf-core" -> CoreFraming
      [] handler = fallback   -> {}

(* Format::apply: only two handlers look where a hit lies. *)
Accepts(h) ==
    CASE handler = "jfr"  -> JfrAccepts(h)
      [] handler = "pcap" -> PcapAccepts(h)
      [] OTHER            -> TRUE

Covered == UNION {Within(c.from, c.to) : c \in Chunks}
HitsIn(c) == {[offset |-> o, len |-> n] : o \in Within(c.from, c.to), n \in 1 .. MaxHitLen}
Found == UNION {{h \in HitsIn(c) : h.offset + h.len <= c.to} : c \in Chunks}
Lists(S) == UNION {[1 .. n -> S] : n \in 1 .. MaxHits}

(* Every chunk is a slice; the handler takes them all before the first is  *)
(* scanned.                                                                *)
ChunksPanic ==
    /\ phase = "opened" /\ ~Again
    /\ \E c \in Chunks : ~SliceExists(c.from, c.to)
    /\ Panic /\ UNCHANGED <<handler, bytes, wrapped, ext, member, capture>>

Scannable == phase = "opened" /\ ~Again /\ \A c \in Chunks : SliceExists(c.from, c.to)
ScanWith(hs, isOwn) ==
    /\ phase' = IF hs = <<>> THEN "clean" ELSE "scanned"
    /\ hits' = hs /\ own' = isOwn
    /\ apart' = (Covered \cap Framing = {})
    /\ UNCHANGED <<handler, bytes, cursor, limit, entry, recs, wrapped, ext, member, orig, next, first>>

(* scrub, and the scan of a member: nothing to do without a hit. *)
ScanOwn == Scannable /\ \E hs \in {<<>>} \cup Lists(Found) : ScanWith(hs, TRUE)
ScanStray == Scannable /\ member /\ \E hs \in Strays : ScanWith(hs, FALSE)
-----------------------------------------------------------------------------
Editor == INSTANCE ApplyHits WITH
    Byte <- Cell, Zero <- 0, UsizeMax <- U64Max, Buffers <- {}, HitLists <- {},
    buf <- bytes, status <- phase
ZeroFill(h) == [offset |-> h.offset, len |-> h.len, kind |-> "zero", pattern |-> <<>>]

(* Faulty variant: looks at the first hit only. *)
GuardFirst ==
    /\ phase = "scanned"
    /\ phase' = IF Accepts(hits[1]) THEN "edit" ELSE "refused"
    /\ UNCHANGED <<handler, bytes, cursor, limit, entry, recs, wrapped, ext, member, capture>>

(* The handler's look at all hits, before anything is written. *)
Guard ==
    /\ phase = "scanned"
    /\ phase' = IF \A i \in DOMAIN hits : Accepts(hits[i]) THEN "edit" ELSE "refused"
    /\ UNCHANGED <<handler, bytes, cursor, limit, entry, recs, wrapped, ext, member, capture>>

(* Faulty variant: passes over every other hit. *)
EditSkipping ==
    /\ phase = "edit" /\ next <= Len(hits)
    /\ Editor!Admissible(ZeroFill(hits[next]), bytes)
    /\ bytes' = Editor!Overwrite(bytes, ZeroFill(hits[next]))
    /\ next' = next + 2
    /\ UNCHANGED <<handler, phase, cursor, limit, entry, recs, wrapped, ext, member, orig, hits, own, apart, first>>

(* apply_hits_in_place *)
EditHit ==
    /\ phase = "edit" /\ next <= Len(hits)
    /\ LET h == ZeroFill(hits[next])
       IN  IF Editor!Admissible(h, bytes)
           THEN bytes' = Editor!Overwrite(bytes, h) /\ next' = next + 1 /\ UNCHANGED phase
           ELSE phase' = "error" /\ UNCHANGED <<bytes, next>>
    /\ UNCHANGED <<handler, cursor, limit, entry, recs, wrapped, ext, member, orig, hits, own, apart, first>>

EditEnd ==
    /\ phase = "edit" /\ next > Len(hits)
    /\ phase' = "done"
    /\ UNCHANGED <<handler, bytes, cursor, limit, entry, recs, wrapped, ext, member, capture>>

(* Another command, or the archive's reader, opens the result. *)
Reopen ==
    /\ phase = "done"
    /\ first' = [handler |-> handler, recs |-> recs]
    /\ phase' = "dispatch" /\ handler' = "none"
    /\ cursor' = 0 /\ limit' = 0 /\ entry' = 0 /\ recs' = <<>> /\ wrapped' = FALSE
    /\ UNCHANGED <<bytes, ext, member, orig, hits, next, own, apart>>
-----------------------------------------------------------------------------
Dispatching == (Route \/ (~Again /\ \E n \in Forced : RouteTo(n))) /\ UNCHANGED capture
Opening ==
    /\ JfrNext \/ HprofNext \/ PcapNext \/ PerfNext \/ CoreNext \/ PassthroughOpen
    /\ UNCHANGED <<ext, member, capture>>

Next ==
    \/ Dispatching \/ Opening
    \/ ChunksPanic \/ ScanOwn \/ ScanStray
    \/ Guard \/ EditHit \/ EditEnd \/ Reopen

Spec == Init /\ [][Next]_allvars
FairSpec == Spec /\ WF_allvars(Next)
-----------------------------------------------------------------------------
(* However damaged a file is, its handler ends in a verdict or in chunks    *)
(* that are slices of the file; a slice that does not exist is only ever   *)
(* taken where a sum of two 64-bit fields wrapped (the sums of the perf    *)
(* and ELF parsers are not checked).                                       *)
PanicsOnlyWrapped == phase = "panic" => wrapped

(* The formats that are one row of records have no blind spot: what the    *)
(* walk passed over is framing or in a chunk, and a JFR file is walked to  *)
(* its end.                                                                *)
InOneRow == handler \in {"jfr", "hprof"} \/ (handler = "pcap" /\ Classic)
NothingUnscanned ==
    phase = "opened" /\ InOneRow /\ ~wrapped
    => Within(0, IF handler = "jfr" THEN len ELSE cursor) \subseteq Framing \cup Covered

(* In those formats no chunk shows framing to the engine, so that no rule  *)
(* can ever report a header.                                               *)
FramingApart == phase = "scanned" /\ InOneRow /\ ~wrapped => apart

(* A hit found in a chunk of the handler is never refused by the same      *)
(* handler's look at where hits lie: scan and apply agree on the layout.   *)
OwnHitsAccepted == phase = "refused" => ~own

(* Redacting is exact and the refusal comes before the first write: what   *)
(* the hits name is zero and nothing else has changed, or nothing has.     *)
Hit(k) == \E i \in DOMAIN hits : k \in SpanOf(hits[i])
RedactedExactly ==
    /\ phase = "refused" => bytes = orig
    /\ phase = "done" => \A k \in Positions : at(k) = IF Hit(k) THEN 0 ELSE orig[k + 1]

(* The fields the walk read survive redaction wherever no chunk covers     *)
(* them; in JFR and pcap files even when an archive delivers hits that no  *)
(* chunk held.                                                             *)
Guarded == handler \in {"jfr", "pcap"}
FramingKept ==
    phase = "done" /\ apart /\ (own \/ Guarded) => \A k \in Framing \cap Positions : at(k) = orig[k + 1]

(* The result of a scrub is still the same kind of file: it goes to the    *)
(* same handler, opens without an error and has the same records.          *)
SameStructure ==
    Again /\ apart /\ (own \/ first.handler \in {"jfr", "pcap"})
    => LET h == first.handler
       IN  h = find(head_of(orig))
           => /\ phase \notin {"error", "panic"}
              /\ handler \in {"none", h}
              /\ phase = "opened" => recs = first.recs

(* Opening and scrubbing a file ends, and so does reading the result, unless a chunk's size sends the walk *)
(* of a JFR file back.                                                     *)
Ended == {"done", "clean", "error", "refused", "panic", "elsewhere"}
Ends == []<>(phase \in Ended \/ (Again /\ phase = "opened") \/ wrapped)
=============================================================================
