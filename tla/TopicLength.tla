----------------------------- MODULE TopicLength ------------------------------
(***************************************************************************)
(* The topic strings send_file writes while it transfers one file          *)
(* (src/unnamed/part_000): "$file/%s/init" in publish_initial (181),       *)
(* "$file/%s/%lu" per chunk in publish_file (279) and "$file/%s/fin/%ld"   *)
(* in publish_fin (318), each formatted by snprintf into a local           *)
(* char topic[TOPIC_LEN]. A string is its length: file_id has FidLen       *)
(* bytes, a number as many as its decimal digits. The file is read whole   *)
(* and every publish succeeds; the FileTransfer module has the rest.       *)
(***************************************************************************)
EXTENDS Integers

CONSTANTS FidLens,   \* lengths of the file ids a request may carry
          Sizes,     \* file sizes
          Chunks     \* chunk sizes after normalisation, 1..BUF_SIZE

TOPIC_LEN == 1024
BUF_SIZE == 10240

VARIABLES fid,       \* strlen(file_id)
          size,      \* file_size
          chunk,     \* chunk_size
          offset,    \* offset of publish_file
          tpc,       \* "init" | "chunk" | "fin" | "done" | "failed"
          overflow   \* some snprintf wrote past the end of its topic array

vars == <<fid, size, chunk, offset, tpc, overflow>>

\* The number of characters %lu / %ld prints for n >= 0.
RECURSIVE Digits(_)
Digits(n) == IF n < 10 THEN 1 ELSE 1 + Digits(n \div 10)

\* snprintf(buf, cap, ...) of a len-character result stores
\* min(len, cap - 1) characters and the NUL, and returns len.
Stored(cap, len) == (IF len < cap - 1 THEN len ELSE cap - 1) + 1

\* The lengths of the three topic formats.
InitTopic  == 6 + fid + 5
ChunkTopic == 6 + fid + 1 + Digits(offset)
FinTopic   == 6 + fid + 5 + Digits(size)

\* snprintf into topic[TOPIC_LEN] with capacity cap, then the rc check
\* against cap: a truncated topic makes the caller return -1.
WriteTopic(cap, len, next) ==
    /\ overflow' = (overflow \/ Stored(cap, len) > TOPIC_LEN)
    /\ tpc' = IF len >= cap THEN "failed" ELSE next

Init == /\ fid \in FidLens /\ size \in Sizes /\ chunk \in Chunks
        /\ offset = 0
        /\ tpc = "init"
        /\ overflow = FALSE

\* publish_initial (181-185): the topic with its capacity TOPIC_LEN.
PublishInitial == /\ tpc = "init"
                  /\ WriteTopic(TOPIC_LEN, InitTopic, "chunk")
                  /\ UNCHANGED <<fid, size, chunk, offset>>

\* publish_file (278-302): fread gives min(chunk_size, what is left); an
\* empty read ends the loop; the topic is formatted with capacity BUF_SIZE;
\* offset advances; the loop stops at file_size; the last chunk shrinks.
PublishChunk ==
    /\ tpc = "chunk"
    /\ IF offset >= size
         THEN /\ tpc' = "fin"
              /\ UNCHANGED <<overflow, chunk, offset>>
         ELSE LET n == IF chunk < size - offset THEN chunk ELSE size - offset
              IN  /\ WriteTopic(BUF_SIZE, ChunkTopic,
                                IF offset + n = size THEN "fin" ELSE "chunk")
                  /\ offset' = offset + n
                  /\ chunk' = IF chunk > size - (offset + n)
                                THEN size - (offset + n) ELSE chunk
    /\ UNCHANGED <<fid, size>>

\* publish_fin (317-322): the topic with capacity BUF_SIZE.
PublishFin == /\ tpc = "fin"
              /\ WriteTopic(BUF_SIZE, FinTopic, "done")
              /\ UNCHANGED <<fid, size, chunk, offset>>

Next == PublishInitial \/ PublishChunk \/ PublishFin

Spec == Init /\ [][Next]_vars

\* No snprintf of send_file writes past the end of the 1024-byte topic
\* array it formats into, whatever the length of the request's file id:
\* publish_initial, publish_file and publish_fin all keep to TOPIC_LEN.
TopicFitsBuffer == ~overflow

=============================================================================
