---------------------------- MODULE FileTransfer ----------------------------
(***************************************************************************)
(* The file-transfer engine of src/unnamed/part_000: the single control    *)
(* thread (start_listening -> process_msg -> send_file -> publish_initial, *)
(* publish_file, publish_fin -> deletion policy -> publish_send_result),   *)
(* the one-shot deletion timers it arms (nng_sleep_aio + delete_delay_cb), *)
(* and the environment it runs in: the remote controller that publishes    *)
(* requests on "file_transfer" (QoS 1, so a request may be redelivered),   *)
(* and the local producer that creates and rewrites the files being sent.  *)
(*                                                                         *)
(* Data is abstracted to what the properties tell apart: a file's content  *)
(* is its length in bytes, a path, a file id and a request id are model    *)
(* values, a malformed control message is the single value Malformed.      *)
(* Published messages are kept in the history `out`; each carries two      *)
(* auxiliary tags that are not on the wire: `b`, the number of the         *)
(* processed request, and `i`, the index of the file in that request.      *)
(***************************************************************************)
EXTENDS Integers, Sequences, FiniteSets

CONSTANTS
    Paths,            \* file paths named in requests (model values)
    FileIds,          \* file ids named in requests (model values)
    ReqIds,           \* request ids (model values)
    Requests,         \* the control messages with all fields the controller may publish
    Malformed,        \* a control message cJSON_Parse rejects or with a field missing
    MaxSize,          \* largest file, in bytes
    MaxInodes,        \* files the producer may create over a behaviour
    MaxWrites,        \* rewrites of a file by the producer over a behaviour
    MaxSubmit,        \* control messages the controller publishes
    MaxRedeliver,     \* QoS 1 redeliveries of a control message
    LockMayFail,      \* flock(LOCK_SH) may return an error (ENOLCK, EINTR)
    WriterUsesFlock,  \* the producer takes LOCK_EX before writing a file
    PublishMayFail,   \* nng_sendmsg may return an error
    AllocMayFail      \* nng_alloc of the path copy may return NULL

\* BUF_SIZE, the largest payload of one chunk (line 49).
BUF_SIZE == 10240

NoInode == 0
Inodes == 1..MaxInodes

ASSUME /\ MaxSize \in Nat /\ MaxInodes >= Cardinality(Paths)
       /\ \A r \in Requests :
            /\ r.rid \in ReqIds /\ r.seg \in Int /\ r.del \in Int
            /\ r.paths \in Seq(Paths) /\ r.fids \in Seq(FileIds) /\ r.nnames \in Nat
       /\ Malformed \notin Requests

VARIABLES
    \* --- environment: the file system and the control channel ---
    dir,        \* dir[p]: the inode the path p names, or NoInode
    isize,      \* isize[n]: the length of inode n
    nextIno,    \* the next inode the producer will create
    writes,     \* rewrites done by the producer so far
    inbox,      \* control messages delivered by the broker, not yet received
    submitted,  \* control messages the controller has published
    redelivered,\* redeliveries done so far
    \* --- the deletion timers armed by process_msg ---
    timers,     \* timers[p]: armed nng_sleep_aio whose callback deletes p
    \* --- the control thread ---
    pc,         \* where the control thread is
    req,        \* the request being processed (cjson_* of process_msg)
    idx,        \* the loop index i of process_msg (1-based)
    result,     \* `result` of process_msg: 0 success, -1 failure
    fd,         \* the inode fp refers to in send_file
    locked,     \* isLock of send_file: the LOCK_SH is held
    fileSize,   \* file_size of send_file (ftell at open)
    chunk,      \* chunk_size of send_file / publish_file
    offset,     \* offset of publish_file (= the file position of fp)
    \* --- history ---
    out,        \* every message published, in order
    batch       \* requests processed so far (auxiliary)

envVars  == <<dir, isize, nextIno, writes, inbox, submitted, redelivered>>
ctlVars  == <<pc, req, idx, result, fd, locked, fileSize, chunk, offset>>
vars     == <<envVars, timers, ctlVars, out, batch>>

-----------------------------------------------------------------------------
(* Messages, as published by client_publish.                                *)

\* A request names its files in three parallel arrays, "files", "fileids"
\* and "filenames"; names are not modelled beyond the array's length.
FileCount == Len(req.paths)
Path      == req.paths[idx]
Fid       == req.fids[idx]

\* Auxiliary tags: b and i (above); ino, the inode a fin message reports
\* on; n, the number of files of the request a result answers.
InitMsg(s)     == [kind |-> "init", b |-> batch, i |-> idx, fid |-> Fid, size |-> s]
ChunkMsg(o, n) == [kind |-> "chunk", b |-> batch, i |-> idx, fid |-> Fid,
                   off |-> o, len |-> n]
FinMsg(s)      == [kind |-> "fin", b |-> batch, i |-> idx, fid |-> Fid, size |-> s,
                   ino |-> fd]
ResultMsg(ok)  == [kind |-> "result", b |-> batch, rid |-> req.rid, ok |-> ok,
                   n |-> FileCount]

\* The outcomes nng_sendmsg may have: TRUE = sent.
PublishOutcomes == IF PublishMayFail THEN BOOLEAN ELSE {TRUE}

\* client_publish: the message joins the history only when it is sent.
Publish(m, ok) == out' = IF ok THEN Append(out, m) ELSE out

-----------------------------------------------------------------------------
(* Operators translated from send_file and publish_file.                     *)

\* send_file lines 349-352: the effective chunk size. segment-size is read
\* as cJSON valueint and converted to unsigned int, so a negative value
\* becomes one of at least 2^31, above BUF_SIZE.
NormaliseChunkUnclamped(seg) == IF seg = 0 THEN BUF_SIZE ELSE seg
NormaliseChunk(seg) ==
    IF seg < 0 \/ seg > BUF_SIZE \/ seg = 0 THEN BUF_SIZE ELSE seg

\* fread(payload, 1, chunk_size, fp) at the position `offset` of inode n.
ReadBytes(n, c, o) == IF isize[n] > o THEN IF c < isize[n] - o THEN c ELSE isize[n] - o
                      ELSE 0

\* `file_size - offset` of line 299: long minus size_t is computed in
\* unsigned 64-bit arithmetic, so once offset passes file_size it wraps to a
\* value above every chunk size. The wrapped value is represented by
\* Wrapped, which exceeds BUF_SIZE.
Wrapped == BUF_SIZE + 1
Remaining(s, o) == IF o <= s THEN s - o ELSE Wrapped

\* publish_file lines 299-302: shrink chunk_size to what is left of the file.
NextChunk(c, s, o) == IF c > Remaining(s, o) THEN Remaining(s, o) ELSE c

\* The producer may write inode n: no LOCK_SH of ours stands in its way.
WriterMayWrite(n) == ~(WriterUsesFlock /\ locked /\ fd = n)

-----------------------------------------------------------------------------
\* At start every path names a file of its own, of any length.
InitDir == CHOOSE d \in [Paths -> 1..Cardinality(Paths)] :
               \A p, q \in Paths : p # q => d[p] # d[q]

Init ==
    /\ dir = InitDir
    /\ isize \in {f \in [Inodes -> 0..MaxSize] :
                    \A n \in Inodes : n > Cardinality(Paths) => f[n] = 0}
    /\ nextIno = Cardinality(Paths) + 1
    /\ writes = 0
    /\ inbox = <<>>
    /\ submitted = {}
    /\ redelivered = 0
    /\ timers = [p \in Paths |-> 0]
    /\ pc = "recv"
    /\ req = CHOOSE r \in Requests : TRUE
    /\ idx = 1
    /\ result = 0
    /\ fd = NoInode
    /\ locked = FALSE
    /\ fileSize = 0
    /\ chunk = 0
    /\ offset = 0
    /\ out = <<>>
    /\ batch = 0

-----------------------------------------------------------------------------
(* The environment.                                                          *)

\* The controller publishes a request (or a malformed message) on
\* FT_SUB_TOPIC; request ids are not reused.
Submit(m) ==
    /\ Cardinality(submitted) < MaxSubmit
    /\ m \notin submitted
    /\ m # Malformed => \A s \in submitted \ {Malformed} : s.rid # m.rid
    /\ submitted' = submitted \cup {m}
    /\ inbox' = Append(inbox, m)
    /\ UNCHANGED <<dir, isize, nextIno, writes, redelivered, timers, ctlVars, out, batch>>

\* The same control message arrives again. QoS 1 is at least once on the
\* controller's hop: a controller that missed the broker's PUBACK publishes
\* it again, and the broker forwards both copies. (The broker does not
\* redeliver to this client across connections: it connects with
\* clean_session, line 460.)
Redeliver(m) ==
    /\ m \in submitted
    /\ redelivered < MaxRedeliver
    /\ redelivered' = redelivered + 1
    /\ inbox' = Append(inbox, m)
    /\ UNCHANGED <<dir, isize, nextIno, writes, submitted, timers, ctlVars, out, batch>>

\* The producer creates a file at a free path.
Create(p, s) ==
    /\ dir[p] = NoInode
    /\ nextIno <= MaxInodes
    /\ dir' = [dir EXCEPT ![p] = nextIno]
    /\ isize' = [isize EXCEPT ![nextIno] = s]
    /\ nextIno' = nextIno + 1
    /\ UNCHANGED <<writes, inbox, submitted, redelivered, timers, ctlVars, out, batch>>

\* The producer rewrites (appends to or truncates) the file at p.
Rewrite(p, s) ==
    /\ dir[p] # NoInode
    /\ writes < MaxWrites
    /\ s # isize[dir[p]]
    /\ WriterMayWrite(dir[p])
    /\ isize' = [isize EXCEPT ![dir[p]] = s]
    /\ writes' = writes + 1
    /\ UNCHANGED <<dir, nextIno, inbox, submitted, redelivered, timers, ctlVars, out, batch>>

\* delete_delay_cb (lines 225-237): an armed timer expires and
\* nng_file_delete unlinks whatever file the path names by then.
DeleteDelayCb(p) ==
    /\ timers[p] > 0
    /\ timers' = [timers EXCEPT ![p] = @ - 1]
    /\ dir' = [dir EXCEPT ![p] = NoInode]
    /\ UNCHANGED <<isize, nextIno, writes, inbox, submitted, redelivered, ctlVars, out, batch>>

-----------------------------------------------------------------------------
(* The control thread. Each action runs from one point where another actor  *)
(* may interleave (a file-system call, a publish, the pacing sleep) to the  *)
(* next.                                                                     *)

DecodesSkipsSingle(m) ==
    /\ m # Malformed
    /\ Len(m.paths) > 1
    /\ Len(m.paths) = Len(m.fids)
    /\ Len(m.paths) = m.nnames

\* parse_input (lines 201-223): the required fields are present, "files" is
\* not empty, and the three arrays have the same length.
Decodes(m) ==
    /\ m # Malformed
    /\ Len(m.paths) # 0
    /\ Len(m.paths) = Len(m.fids)
    /\ Len(m.paths) = m.nnames

ReceiveNoReset ==
    /\ pc = "recv"
    /\ inbox # <<>>
    /\ inbox' = Tail(inbox)
    /\ IF Decodes(Head(inbox))
         THEN /\ req' = Head(inbox)
              /\ result' = 0
              /\ batch' = batch + 1
              /\ pc' = "open"
              /\ UNCHANGED idx
         ELSE UNCHANGED <<req, idx, result, batch, pc>>
    /\ UNCHANGED <<dir, isize, nextIno, writes, submitted, redelivered, timers,
                   fd, locked, fileSize, chunk, offset, out>>

\* start_listening's loop (lines 616-630) receives the next control message
\* and process_msg (lines 487-526) decodes it: a message that does not
\* decode is freed and nothing is published.
Receive ==
    /\ pc = "recv"
    /\ inbox # <<>>
    /\ inbox' = Tail(inbox)
    /\ IF Decodes(Head(inbox))
         THEN /\ req' = Head(inbox)
              /\ idx' = 1
              /\ result' = 0
              /\ batch' = batch + 1
              /\ pc' = "open"
         ELSE UNCHANGED <<req, idx, result, batch, pc>>
    /\ UNCHANGED <<dir, isize, nextIno, writes, submitted, redelivered, timers,
                   fd, locked, fileSize, chunk, offset, out>>

\* The outcomes of do_flock(fp, LOCK_SH): TRUE = locked.
LockOutcomesNeverLocked == {FALSE}
LockOutcomes == IF LockMayFail THEN BOOLEAN ELSE {TRUE}

\* send_file lines 349-369: normalise chunk_size, fopen the path (failure:
\* return -1), take LOCK_SH (failure: go on without it), and read the
\* file's size with fseek/ftell.
SendFileOpen ==
    /\ pc = "open"
    /\ chunk' = NormaliseChunk(req.seg)
    /\ IF dir[Path] = NoInode
         THEN /\ result' = -1
              /\ pc' = "sent"
              /\ UNCHANGED <<fd, locked, fileSize, offset>>
         ELSE /\ fd' = dir[Path]
              /\ locked' \in LockOutcomes
              /\ fileSize' = isize[dir[Path]]
              /\ offset' = 0
              /\ pc' = "init"
              /\ UNCHANGED result
    /\ UNCHANGED <<envVars, timers, req, idx, out, batch>>

\* fclose(fp), which also drops the lock, after a failed step of send_file;
\* send_file then returns -1.
CloseFailed ==
    /\ fd' = NoInode
    /\ locked' = FALSE
    /\ result' = -1
    /\ pc' = "sent"

\* publish_initial (lines 127-199), called from send_file lines 371-380.
PublishInitial ==
    /\ pc = "init"
    /\ \E ok \in PublishOutcomes :
         /\ Publish(InitMsg(fileSize), ok)
         /\ IF ok THEN /\ pc' = "chunk"
                       /\ UNCHANGED <<fd, locked, result>>
                  ELSE CloseFailed
    /\ UNCHANGED <<envVars, timers, req, idx, fileSize, chunk, offset, batch>>

\* One iteration of publish_file's loop (lines 278-303): fread up to
\* chunk_size bytes; if none, the loop ends; else publish them at `offset`
\* (failure: return -1), sleep `interval`, advance offset, stop once it
\* equals file_size, and shrink chunk_size to what is left.
PublishChunk ==
    /\ pc = "chunk"
    /\ LET n == ReadBytes(fd, chunk, offset) IN
         IF n = 0
           THEN /\ pc' = "fin"
                /\ UNCHANGED <<fd, locked, result, chunk, offset, out>>
           ELSE \E ok \in PublishOutcomes :
                  /\ Publish(ChunkMsg(offset, n), ok)
                  /\ IF ok
                       THEN /\ offset' = offset + n
                            /\ IF offset + n = fileSize
                                 THEN /\ pc' = "fin"
                                      /\ UNCHANGED chunk
                                 ELSE /\ pc' = "chunk"
                                      /\ chunk' = NextChunk(chunk, fileSize, offset + n)
                            /\ UNCHANGED <<fd, locked, result>>
                       ELSE /\ CloseFailed
                            /\ UNCHANGED <<chunk, offset>>
    /\ UNCHANGED <<envVars, timers, req, idx, fileSize, batch>>

\* send_file lines 411-416: what send_file returns after publish_fin.
FinResultIgnored(ok) == 0
FinResult(ok) == IF ok THEN 0 ELSE -1

\* send_file lines 390-416: the feof check only logs; unlock if locked,
\* fclose, then publish_fin (lines 308-334) with the size read at open.
PublishFin ==
    /\ pc = "fin"
    /\ fd' = NoInode
    /\ locked' = FALSE
    /\ \E ok \in PublishOutcomes :
         /\ Publish(FinMsg(fileSize), ok)
         /\ result' = FinResult(ok)
    /\ pc' = "sent"
    /\ UNCHANGED <<envVars, timers, req, idx, fileSize, chunk, offset, batch>>

\* The outcomes of nng_alloc for the path copy: TRUE = allocated.
AllocOutcomes == IF AllocMayFail THEN BOOLEAN ELSE {TRUE}

\* process_msg lines 546-548: send_file failed, break out of the loop.
SendFailedNoBreak ==
    /\ pc = "sent"
    /\ result # 0
    /\ IF idx < FileCount THEN /\ idx' = idx + 1
                               /\ pc' = "open"
                          ELSE /\ pc' = "result"
                               /\ UNCHANGED idx
    /\ UNCHANGED <<envVars, timers, req, result, fd, locked, fileSize, chunk,
                   offset, out, batch>>
SendFailed ==
    /\ pc = "sent"
    /\ result # 0
    /\ pc' = "result"
    /\ UNCHANGED <<envVars, timers, req, idx, result, fd, locked, fileSize,
                   chunk, offset, out, batch>>

\* process_msg lines 549-580 and 527: send_file succeeded; apply "delete"
\* (absent or < 0: keep the file; 0: nng_file_delete now; > 0: arm a
\* one-shot nng_sleep_aio whose callback deletes the path, unless the path
\* copy cannot be allocated) and go on with the next file.
SendSucceeded ==
    /\ pc = "sent"
    /\ result = 0
    /\ \/ /\ req.del < 0
          /\ UNCHANGED <<dir, timers>>
       \/ /\ req.del = 0
          /\ dir' = [dir EXCEPT ![Path] = NoInode]
          /\ UNCHANGED timers
       \/ /\ req.del > 0
          /\ \E ok \in AllocOutcomes :
               timers' = IF ok THEN [timers EXCEPT ![Path] = @ + 1] ELSE timers
          /\ UNCHANGED dir
    /\ IF idx < FileCount THEN /\ idx' = idx + 1
                               /\ pc' = "open"
                          ELSE /\ pc' = "result"
                               /\ UNCHANGED idx
    /\ UNCHANGED <<isize, nextIno, writes, inbox, submitted, redelivered,
                   req, result, fd, locked, fileSize, chunk, offset, out, batch>>

\* publish_send_result (lines 83-125), called at line 581 with !result; a
\* failed publish is only logged. The thread returns to nng_recvmsg.
PublishSendResult ==
    /\ pc = "result"
    /\ \E ok \in PublishOutcomes : Publish(ResultMsg(result = 0), ok)
    /\ pc' = "recv"
    /\ UNCHANGED <<envVars, timers, req, idx, result, fd, locked, fileSize,
                   chunk, offset, batch>>

-----------------------------------------------------------------------------
Control ==
    \/ Receive
    \/ SendFileOpen
    \/ PublishInitial
    \/ PublishChunk
    \/ PublishFin
    \/ SendFailed
    \/ SendSucceeded
    \/ PublishSendResult

Environment ==
    \/ \E m \in Requests \cup {Malformed} : Submit(m)
    \/ \E m \in Requests \cup {Malformed} : Redeliver(m)
    \/ \E p \in Paths, s \in 0..MaxSize : Create(p, s) \/ Rewrite(p, s)

Timers == \E p \in Paths : DeleteDelayCb(p)

Next == Control \/ Timers \/ Environment

\* The control thread and nng's timer thread run whenever they can; the
\* controller and the producer need not act.
Spec == Init /\ [][Next]_vars /\ WF_vars(Control) /\ WF_vars(Timers)

-----------------------------------------------------------------------------
(* Properties.                                                               *)

Sent == {out[k] : k \in 1..Len(out)}

TypeOK ==
    /\ dir \in [Paths -> Inodes \cup {NoInode}]
    /\ isize \in [Inodes -> 0..MaxSize]
    /\ nextIno \in 1..MaxInodes + 1
    /\ timers \in [Paths -> Nat]
    /\ pc \in {"recv", "open", "init", "chunk", "fin", "sent", "result"}
    /\ req \in Requests
    /\ idx \in 1..Len(req.paths) \cup {1}
    /\ result \in {0, -1}
    /\ fd \in Inodes \cup {NoInode}
    /\ locked \in BOOLEAN
    /\ fileSize \in 0..MaxSize
    /\ chunk \in 0..BUF_SIZE
    /\ offset \in Nat
    /\ \A m \in Sent : m.kind \in {"init", "chunk", "fin", "result"}

\* The chunks published for file i of request b, in the order sent.
ChunksOf(b, i) == SelectSeq(out, LAMBDA m : m.kind = "chunk" /\ m.b = b /\ m.i = i)

\* Each chunk starts where the one before it ended.
Contiguous(cs) ==
    \A j \in 1..Len(cs) :
        cs[j].off = IF j = 1 THEN 0 ELSE cs[j-1].off + cs[j-1].len

\* The bytes the chunks cover.
Covered(cs) == IF cs = <<>> THEN 0 ELSE cs[Len(cs)].off + cs[Len(cs)].len

\* Whether file i of request b was announced complete with a fin message.
Finished(b, i) == \E m \in Sent : m.kind = "fin" /\ m.b = b /\ m.i = i

\* A fin message $file/{fileId}/fin/{size} (publish_fin) is published only
\* after chunks $file/{fileId}/{offset} (publish_file) that cover bytes
\* 0..size-1 of the file exactly once, in order: the receiver can assemble
\* the file the init message announced. It breaks if the file changes
\* between the ftell of send_file and the end of publish_file's loop.
FinMatchesChunks ==
    \A m \in Sent :
        m.kind = "fin" =>
            /\ Contiguous(ChunksOf(m.b, m.i))
            /\ Covered(ChunksOf(m.b, m.i)) = m.size

\* process_msg processes the files of a request in order and stops at the
\* first that fails: no message of file i is published unless every file
\* before it in the request was finished.
FailFast ==
    \A m \in Sent :
        m.kind \in {"init", "chunk", "fin"} =>
            \A j \in 1..m.i - 1 : Finished(m.b, j)

\* The result publish_send_result sends for a request says success exactly
\* when every file of the request was finished.
ResultReflectsBatch ==
    \A m \in Sent :
        m.kind = "result" => (m.ok <=> \A j \in 1..m.n : Finished(m.b, j))

\* At most one result is published per request id (process_msg publishes
\* one result for each control message it decodes).
AtMostOneResult ==
    \A k, l \in 1..Len(out) :
        /\ k < l
        /\ out[k].kind = "result"
        /\ out[l].kind = "result"
        => out[k].rid # out[l].rid

\* The inodes some fin message reported on: files that were sent whole.
SentInodes == {m.ino : m \in {s \in Sent : s.kind = "fin"}}

\* A step that unlinks a file (the "delete" 0 branch of process_msg or
\* delete_delay_cb) removes only a file that was sent, never one the
\* producer created at the same path afterwards.
DeletesOnlySent ==
    [][\A p \in Paths :
         dir[p] # NoInode /\ dir'[p] = NoInode => dir[p] \in SentInodes]_vars

\* A well-formed request by spec.md section 4.4: "files" is not empty and
\* "fileids" and "filenames" have its length.
WellFormed(r) ==
    /\ Len(r.paths) > 0
    /\ Len(r.fids) = Len(r.paths)
    /\ r.nnames = Len(r.paths)

\* Every well-formed request the controller publishes is answered by a
\* result on file_transfer/result (process_msg ends with
\* publish_send_result, and the control thread always gets back to
\* nng_recvmsg).
RequestAnswered ==
    \A r \in Requests :
        (r \in submitted /\ WellFormed(r)) ~>
            \E m \in Sent : m.kind = "result" /\ m.rid = r.rid

-----------------------------------------------------------------------------
(* Refinement: the engine implements the stream protocol of TransferStream. *)
(* The published messages map to themselves without the auxiliary inode of  *)
(* a fin; the control thread's pc and result map to the phase of the file   *)
(* being sent.                                                              *)

StreamMsg(m) == IF m.kind = "fin"
                  THEN [kind |-> "fin", b |-> m.b, i |-> m.i, fid |-> m.fid,
                        size |-> m.size]
                  ELSE m
StreamOut == [k \in 1..Len(out) |-> StreamMsg(out[k])]
StreamPhase == CASE pc = "recv"               -> "idle"
                 [] pc \in {"open", "init"}   -> "file"
                 [] pc \in {"chunk", "fin"}   -> "streaming"
                 [] pc \in {"sent", "result"} -> IF result = 0 THEN "finished"
                                                           ELSE "failed"

Stream == INSTANCE TransferStream
            WITH out <- StreamOut, phase <- StreamPhase, b <- batch,
                 ChunkMax <- BUF_SIZE

\* Every behaviour of the engine is one of the stream protocol: whatever the
\* interleaving of the control thread with the producer, the timers and
\* failing publishes, process_msg, send_file and publish_file publish the
\* files of a request in order, each as init, contiguous chunks within its
\* size and a fin covering it, and end with a result that reflects them.
ImplementsStream == Stream!Spec

=============================================================================
