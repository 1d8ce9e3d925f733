---------------------------- MODULE TransferStream ----------------------------
(***************************************************************************)
(* What the file-transfer engine promises the receiver (spec.md sections   *)
(* 4.1-4.4), with no file system, lock, buffer or timer in it: requests    *)
(* are served one at a time; the files of a request are sent in order;     *)
(* a file is an init message with its size, chunks that continue where     *)
(* the last one ended and stay within the size, and a fin message once     *)
(* they cover it; a failure, which publishes nothing, ends the request;    *)
(* the request ends with one result, true exactly when every file was      *)
(* finished. A publish that fails just leaves its message out.             *)
(***************************************************************************)
EXTENDS Integers, Sequences

CONSTANTS Requests,   \* requests the controller may publish
          MaxSize,    \* largest file
          ChunkMax    \* largest chunk

VARIABLES out,        \* the messages published, in order
          phase,      \* "idle" | "file" | "streaming" | "finished" | "failed"
          req,        \* the request being served
          idx,        \* the file of req being sent
          b           \* the number of requests served so far

vars == <<out, phase, req, idx, b>>

\* A request the engine serves: spec.md 4.4, "files" is not empty and
\* "fileids" and "filenames" have its length.
Serves(r) == Len(r.paths) > 0 /\ Len(r.fids) = Len(r.paths) /\ r.nnames = Len(r.paths)

Of(kind) == SelectSeq(out, LAMBDA m : m.kind = kind /\ m.b = b /\ m.i = idx)
Announced == Of("init")[1].size
Covered == LET cs == Of("chunk") IN
           IF cs = <<>> THEN 0 ELSE cs[Len(cs)].off + cs[Len(cs)].len
Fid == req.fids[idx]

Init == /\ out = <<>>
        /\ phase = "idle"
        /\ req \in Requests
        /\ idx = 1
        /\ b = 0

Start(r) == /\ phase = "idle"
            /\ Serves(r)
            /\ req' = r /\ idx' = 1 /\ b' = b + 1
            /\ phase' = "file"
            /\ UNCHANGED out

Announce(s) == /\ phase = "file"
               /\ out' = Append(out, [kind |-> "init", b |-> b, i |-> idx,
                                      fid |-> Fid, size |-> s])
               /\ phase' = "streaming"
               /\ UNCHANGED <<req, idx, b>>

\* A chunk of n bytes, 1 <= n <= ChunkMax, that does not run past the size.
Chunk == /\ phase = "streaming"
         /\ \E n \in 1..(Announced - Covered) :
              /\ n <= ChunkMax
              /\ out' = Append(out, [kind |-> "chunk", b |-> b, i |-> idx,
                                     fid |-> Fid, off |-> Covered, len |-> n])
         /\ UNCHANGED <<phase, req, idx, b>>

Finish == /\ phase = "streaming"
          /\ Covered = Announced
          /\ out' = Append(out, [kind |-> "fin", b |-> b, i |-> idx,
                                 fid |-> Fid, size |-> Announced])
          /\ phase' = "finished"
          /\ UNCHANGED <<req, idx, b>>

Fail == /\ phase \in {"file", "streaming"}
        /\ phase' = "failed"
        /\ UNCHANGED <<out, req, idx, b>>

NextFile == /\ phase = "finished"
            /\ idx < Len(req.paths)
            /\ idx' = idx + 1
            /\ phase' = "file"
            /\ UNCHANGED <<out, req, b>>

Result == /\ \/ phase = "finished" /\ idx = Len(req.paths)
             \/ phase = "failed"
          /\ \/ out' = Append(out, [kind |-> "result", b |-> b, rid |-> req.rid,
                                    ok |-> phase = "finished",
                                    n |-> Len(req.paths)])
             \/ UNCHANGED out
          /\ phase' = "idle"
          /\ UNCHANGED <<req, idx, b>>

Next == \/ \E r \in Requests : Start(r)
        \/ \E s \in 0..MaxSize : Announce(s)
        \/ Chunk \/ Finish \/ Fail \/ NextFile \/ Result

Spec == Init /\ [][Next]_vars

=============================================================================
