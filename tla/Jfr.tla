-------------------------------- MODULE Jfr --------------------------------
(***************************************************************************)
(* The Java Flight Recorder handler (crates/scrump-format-jfr/src/lib.rs): *)
(* a file is a row of chunks, each a header (the magic, the chunk's size)  *)
(* and a body.                                                             *)
(***************************************************************************)
EXTENDS CaptureFile

CONSTANTS
    JfrMagic,       \* FLR\0
    JfrHeader       \* CHUNK_HEADER_SIZE

ASSUME JfrAssumption == JfrMagic \in Cell \ {0} /\ JfrHeader \in 2 .. U64Max

JfrDetect(head) == Len(head) >= 1 /\ head[1] = JfrMagic

chunk_size == at(cursor + 1)

JfrOpen ==
    /\ handler = "jfr" /\ phase = "open"
    /\ IF len < JfrHeader
       THEN Fail
       ELSE phase' = "walk" /\ UNCHANGED <<cursor, limit, entry, recs, wrapped>>
    /\ UNCHANGED <<handler, bytes>>

JfrWalking == handler = "jfr" /\ phase = "walk" /\ cursor < len

JfrChunkValid ==
    /\ cursor + JfrHeader <= len
    /\ at(cursor) = JfrMagic
    /\ chunk_size >= JfrHeader
    /\ add(cursor, chunk_size) <= len

(* Faulty variant: the size is taken for that of the body alone. *)
JfrChunkBodySize ==
    /\ JfrWalking /\ JfrChunkValid
    /\ Len(recs) < MaxRecords
    /\ recs' = Append(recs, [offset |-> cursor, len |-> chunk_size])
    /\ cursor' = add(cursor, chunk_size + JfrHeader)
    /\ wrapped' = (wrapped \/ Overflows(cursor, chunk_size))
    /\ UNCHANGED <<handler, bytes, phase, limit, entry>>

(* The sum of cursor and size is checked after it may have wrapped; then    *)
(* the walk goes on in front of where it is.                               *)
JfrChunk ==
    /\ JfrWalking /\ JfrChunkValid
    /\ Len(recs) < MaxRecords
    /\ recs' = Append(recs, [offset |-> cursor, len |-> chunk_size])
    /\ cursor' = add(cursor, chunk_size)
    /\ wrapped' = (wrapped \/ Overflows(cursor, chunk_size))
    /\ UNCHANGED <<handler, bytes, phase, limit, entry>>

JfrInvalid ==
    /\ JfrWalking /\ ~JfrChunkValid
    /\ Fail
    /\ UNCHANGED <<handler, bytes>>

JfrEnd ==
    /\ handler = "jfr" /\ phase = "walk" /\ cursor >= len
    /\ phase' = "opened"
    /\ UNCHANGED <<handler, bytes, cursor, limit, entry, recs, wrapped>>

(* Faulty variant: a body starts where its chunk does. *)
JfrBodyWithHeader(c) == [from |-> c.offset, to |-> add(c.offset, c.len)]

(* Format::chunks: the bodies; one whose end has wrapped is passed over. *)
JfrBody(c) == [from |-> c.offset + JfrHeader, to |-> add(c.offset, c.len)]
JfrChunks == {b \in {JfrBody(recs[i]) : i \in DOMAIN recs} : b.to <= len /\ b.from < b.to}

(* Faulty variant: looks only where a hit ends. *)
JfrAcceptsEnd(h) == \E i \in DOMAIN recs : h.offset + h.len <= JfrBody(recs[i]).to

(* Format::apply: every hit lies in a body. *)
JfrAccepts(h) == \E i \in DOMAIN recs :
    LET b == JfrBody(recs[i]) IN h.offset >= b.from /\ h.offset + h.len <= b.to

JfrNext == JfrOpen \/ JfrChunk \/ JfrInvalid \/ JfrEnd

(* The cells of the chunk headers. *)
JfrFraming == UNION {Within(recs[i].offset, recs[i].offset + JfrHeader) : i \in DOMAIN recs}
=============================================================================
