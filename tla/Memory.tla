-------------------------------- MODULE Memory --------------------------------
(***************************************************************************)
(* The heap the Control Listener allocates while it serves requests, as a  *)
(* ghost variable beside the FileTransfer model: `heap` counts the live    *)
(* objects of each kind the code allocates in src/unnamed/part_000 -      *)
(*   msg    the control message nng_recvmsg returns (619),                 *)
(*   json   the cJSON tree cJSON_Parse builds from it (496),               *)
(*   pubmsg a PUBLISH client_publish allocated and nng_sendmsg did not     *)
(*          take (61-77),                                                  *)
(*   path   the copy of a file path a deferred deletion holds (558),       *)
(*   aio    the aio of a deferred deletion (570).                          *)
(* Every FileTransfer step is taken together with what its code allocates  *)
(* and frees; the steps themselves are unchanged. A failed nng_sendmsg     *)
(* leaves the message with the caller (nng's ownership rule); fatal(),     *)
(* which this repository does not define, is taken to log and return, as   *)
(* the `continue` after fatal() at line 621 presumes.                      *)
(***************************************************************************)
EXTENDS FileTransfer, Functions

VARIABLE heap

mvars == <<vars, heap>>

Kinds == {"msg", "json", "pubmsg", "path", "aio"}

Alloc(h, k) == [h EXCEPT ![k] = @ + 1]
Free(h, k)  == [h EXCEPT ![k] = @ - 1]

MInit == Init /\ heap = [k \in Kinds |-> 0]

\* The message nng_recvmsg returned is freed on the decode-failure path
\* (514) too. The mutant keeps it there.
ParseHeapNoFreeOnInvalid(m) ==
    IF m = Malformed THEN heap
    ELSE IF Decodes(m) THEN Alloc(Alloc(heap, "msg"), "json")
    ELSE Alloc(Alloc(heap, "msg"), "json")

\* start_listening (619) receives the message and process_msg parses its
\* payload (496): a payload that is not JSON gives NULL and the message is
\* freed (497-500); a JSON tree that parse_input rejects is abandoned and
\* the message freed (512-515); a request keeps both until process_msg
\* returns. No path calls cJSON_Delete.
ParseHeap(m) ==
    IF m = Malformed THEN heap
    ELSE IF Decodes(m) THEN Alloc(Alloc(heap, "msg"), "json")
    ELSE Alloc(heap, "json")

\* client_publish (61-77): nng_mqtt_msg_alloc and mqtt_property_alloc; a
\* PUBLISH that nng_sendmsg accepted belongs to nng, one it refused is
\* neither freed nor returned. A step published and failed when `out`
\* did not grow, except for publish_file's loop ending on an empty fread.
PublishFailed == out' = out /\ ~(pc = "chunk" /\ pc' = "fin")
ClientPublishHeap == IF PublishFailed THEN Alloc(heap, "pubmsg") ELSE heap

\* process_msg (555-571): a deferred deletion nng_allocs the path copy,
\* nng_aio_alloc's the aio and starts the sleep; an armed timer has both.
ArmDeleteHeap == IF timers' # timers THEN Alloc(Alloc(heap, "path"), "aio") ELSE heap

\* process_msg (581, 590-591): after publish_send_result the message is
\* freed and process_msg returns; the tree is not.
SendResultHeap == Free(ClientPublishHeap, "msg")

\* The steps of FileTransfer with the heap each one changes. delete_delay_cb
\* (225-237) deletes the file and returns: it frees neither its argument
\* nor its aio, so the timer steps leave the heap as it was.
MNext ==
    \/ Receive /\ heap' = ParseHeap(Head(inbox))
    \/ (PublishInitial \/ PublishChunk \/ PublishFin) /\ heap' = ClientPublishHeap
    \/ SendSucceeded /\ heap' = ArmDeleteHeap
    \/ PublishSendResult /\ heap' = SendResultHeap
    \/ (SendFileOpen \/ SendFailed \/ Timers \/ Environment) /\ UNCHANGED heap

MSpec == MInit /\ [][MNext]_mvars

-----------------------------------------------------------------------------

\* Each control message is freed once the request it carries is over:
\* while the control thread waits in nng_recvmsg no message is alive, and
\* while it serves a request exactly that one is - on every return of
\* process_msg, the parse failure and the rejected request included.
MessageFreedPerRequest == heap.msg = IF pc = "recv" THEN 0 ELSE 1

\* Between requests the client holds only what its pending deletions need:
\* with the control thread back in nng_recvmsg no JSON tree and no unsent
\* PUBLISH is alive, and each path copy and aio belongs to a deletion
\* timer that has not yet fired (delete_delay_cb is their last user).
NoLeakBetweenRequests ==
    pc = "recv" => /\ heap.json = 0
                   /\ heap.pubmsg = 0
                   /\ heap.path = SumFunction(timers)
                   /\ heap.aio = SumFunction(timers)

=============================================================================
