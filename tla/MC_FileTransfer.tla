--------------------------- MODULE MC_FileTransfer ---------------------------
(* Instantiates FileTransfer with two files and three control messages.     *)
EXTENDS FileTransfer

CONSTANTS p1, p2, f1, f2, r1, r2, r3

\* Sends both files in 2-byte chunks and deletes each as soon as it is sent.
Req1 == [rid |-> r1, paths |-> <<p1, p2>>, fids |-> <<f1, f2>>, nnames |-> 2,
         seg |-> 2, del |-> 0]
\* Sends p2 in one chunk (a negative segment-size means 10240) and deletes
\* it later.
Req2 == [rid |-> r2, paths |-> <<p2>>, fids |-> <<f2>>, nnames |-> 1,
         seg |-> -1, del |-> 5]
\* "filenames" shorter than "files": parse_input rejects it.
Req3 == [rid |-> r3, paths |-> <<p1>>, fids |-> <<f1>>, nnames |-> 0,
         seg |-> 1, del |-> -1]

MCRequests == {Req1, Req2, Req3}

\* Sends p1 and keeps it ("delete" -1).
Req4 == [rid |-> r1, paths |-> <<p1>>, fids |-> <<f1>>, nnames |-> 1,
         seg |-> 1, del |-> -1]

MCLiveRequests == {Req4, Req2}
=============================================================================
