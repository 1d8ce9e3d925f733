------------------------------ MODULE Connection ------------------------------
(***************************************************************************)
(* The Connection Manager and the receive side of the Control Listener of  *)
(* src/unnamed/part_000: file_transfer (636-663) calls client_connect       *)
(* (439-484), whose synchronous dial is retried every 10 s until it         *)
(* succeeds, then start_listening (595-634), which subscribes once to       *)
(* "file_transfer", ignoring the result, and loops on nng_recvmsg.          *)
(*                                                                         *)
(* The environment is the broker and nng's dialer below the API: the       *)
(* broker may be unreachable a bounded number of times (MaxOutages); once  *)
(* a dial has succeeded, nng redials by itself after a lost connection.    *)
(* The CONNECT has clean_session = true (line 460), so an outage ends the  *)
(* session and with it the broker's subscription. connect_cb and           *)
(* disconnect_cb only log. process_msg itself is the FileTransfer module;  *)
(* here it is one step that consumes the request.                          *)
(***************************************************************************)
EXTENDS Integers, Sequences, FiniteSets

CONSTANTS Requests,    \* control requests an operator may publish
          Malformed,   \* those that process_msg rejects (returns -1)
          MaxOutages   \* bound on broker outages

VARIABLES broker,      \* "up" | "down"
          outages,     \* outages so far
          link,        \* "none" before the first successful dial, then "up" | "down"
          subscribed,  \* the broker holds the file_transfer subscription of the session
          queuedSub,   \* a SUBSCRIBE sent while disconnected, waiting in nng's queue
          inbox,       \* PUBLISH messages delivered to the socket, not yet received
          published,   \* requests the operator has published
          offered,     \* published while the session was up and the listener looping
          mpc,         \* main thread: "dial" | "sleep" | "subscribe" | "recv" | "process" | "exit"
          msg,         \* the message nng_recvmsg returned
          processed    \* requests process_msg has been called on

vars == <<broker, outages, link, subscribed, queuedSub, inbox, published,
          offered, mpc, msg, processed>>

NoMsg == "none"
Listening == mpc \in {"recv", "process"}

\* file_transfer (636-661): the address string always fits its 2048-byte
\* buffer, nng_mqttv5_client_open and nng_dialer_create only fail on
\* allocation; the first dial is next.
Init == /\ broker \in {"up", "down"}
        /\ outages = 0
        /\ link = "none"
        /\ subscribed = FALSE
        /\ queuedSub = FALSE
        /\ inbox = <<>>
        /\ published = {}
        /\ offered = {}
        /\ mpc = "dial"
        /\ msg = NoMsg
        /\ processed = {}

-----------------------------------------------------------------------------
(* The main thread.                                                        *)

\* nng_dialer_start(dialer, 0) (474 or 478): a synchronous dial that
\* succeeds when the broker is reachable.
DialerStart == IF broker = "up" THEN /\ link' = "up"
                                     /\ mpc' = "subscribe"
                                ELSE /\ mpc' = "sleep"
                                     /\ UNCHANGED link

\* client_connect (474-479): the first dial; on failure, the loop.
Dial == /\ mpc = "dial"
        /\ DialerStart
        /\ UNCHANGED <<broker, outages, subscribed, queuedSub, inbox,
                       published, offered, msg, processed>>

RetryWithoutDial == /\ mpc = "sleep"
                    /\ UNCHANGED vars

\* The loop body (476-478): sleep 10 s, dial again.
Retry == /\ mpc = "sleep"
         /\ DialerStart
         /\ UNCHANGED <<broker, outages, subscribed, queuedSub, inbox,
                        published, offered, msg, processed>>

\* nng_mqtt_subscribe (612): the rv is overwritten unread. On a live session
\* the broker records the subscription; without one, the SUBSCRIBE either
\* fails or waits in nng's send queue for the next connection.
Subscribe == /\ mpc = "subscribe"
             /\ \/ /\ link = "up"
                   /\ subscribed' = TRUE
                   /\ UNCHANGED queuedSub
                \/ /\ link = "down"
                   /\ queuedSub' \in BOOLEAN
                   /\ UNCHANGED subscribed
             /\ mpc' = "recv"
             /\ UNCHANGED <<broker, outages, link, inbox, published, offered,
                            msg, processed>>

\* nng_recvmsg (619-624): blocks until a message is delivered. A failure
\* goes to fatal() and `continue` (620-621); with fatal logging, as the
\* `continue` presumes, that is a step that changes nothing here.
Recv == /\ mpc = "recv"
        /\ inbox # <<>>
        /\ msg' = Head(inbox)
        /\ inbox' = Tail(inbox)
        /\ mpc' = "process"
        /\ UNCHANGED <<broker, outages, link, subscribed, queuedSub, published,
                       offered, processed>>

\* process_msg's return value (500, 517, 591): -1 for a request it rejects.
ProcessRv(r) == IF r \in Malformed THEN -1 ELSE 0

ProcessStopsOnError == /\ mpc = "process"
                       /\ processed' = processed \cup {msg}
                       /\ msg' = NoMsg
                       /\ mpc' = IF ProcessRv(msg) # 0 THEN "exit" ELSE "recv"
                       /\ UNCHANGED <<broker, outages, link, subscribed, queuedSub,
                                      inbox, published, offered>>

\* The PUBLISH is handed to process_msg (625-629); a non-zero rv is only
\* logged and the loop receives the next message.
Process == /\ mpc = "process"
           /\ processed' = processed \cup {msg}
           /\ msg' = NoMsg
           /\ mpc' = "recv"
           /\ UNCHANGED <<broker, outages, link, subscribed, queuedSub, inbox,
                          published, offered>>

-----------------------------------------------------------------------------
(* The environment: broker, network and nng's dialer.                      *)

\* The broker becomes unreachable; a live session ends, and with
\* clean_session its subscription (disconnect_cb only logs, 420-426).
Outage == /\ broker = "up"
          /\ outages < MaxOutages
          /\ broker' = "down"
          /\ outages' = outages + 1
          /\ link' = IF link = "up" THEN "down" ELSE link
          /\ subscribed' = FALSE
          /\ UNCHANGED <<queuedSub, inbox, published, offered, mpc, msg, processed>>

Recover == /\ broker = "down"
           /\ broker' = "up"
           /\ UNCHANGED <<outages, link, subscribed, queuedSub, inbox, published,
                          offered, mpc, msg, processed>>

\* nng's dialer reconnects a started dialer; connect_cb only logs
\* (429-435). A queued SUBSCRIBE goes out on the new session.
Redial == /\ link = "down"
          /\ broker = "up"
          /\ link' = "up"
          /\ subscribed' = queuedSub
          /\ queuedSub' = FALSE
          /\ UNCHANGED <<broker, outages, inbox, published, offered, mpc, msg,
                         processed>>

\* An operator publishes a request on file_transfer at QoS 1; the broker
\* forwards it only to a session that holds the subscription.
PublishRequest(r) ==
    /\ broker = "up"
    /\ r \notin published
    /\ published' = published \cup {r}
    /\ inbox' = IF link = "up" /\ subscribed THEN Append(inbox, r) ELSE inbox
    /\ offered' = IF link = "up" /\ Listening THEN offered \cup {r} ELSE offered
    /\ UNCHANGED <<broker, outages, link, subscribed, queuedSub, mpc, msg, processed>>

Control == Dial \/ Retry \/ Subscribe \/ Recv \/ Process
Environment == Outage \/ Recover \/ \E r \in Requests : PublishRequest(r)

Next == Control \/ Environment \/ Redial

\* One main thread; nng's dialer retries by its reconnect timer; the broker
\* comes back after each of its bounded outages.
Spec == /\ Init /\ [][Next]_vars
        /\ WF_vars(Dial) /\ WF_vars(Retry) /\ WF_vars(Subscribe)
        /\ WF_vars(Recv) /\ WF_vars(Process)
        /\ WF_vars(Redial) /\ WF_vars(Recover)

-----------------------------------------------------------------------------

\* Start-up ends: client_connect's retry loop returns once the broker is
\* reachable and start_listening reaches its receive loop.
StartupCompletes == <>[](mpc \in {"recv", "process"})

\* Every request delivered to the socket is eventually handed to
\* process_msg, whatever process_msg returned for the ones before it and
\* and whichever sessions came and went in between.
DeliveredProcessed ==
    \A r \in Requests : (\E i \in 1..Len(inbox) : inbox[i] = r) ~> r \in processed

\* A request published while the client has a live session and is in its
\* receive loop is eventually processed (the spec's Control Listener: it
\* "subscribes to an inbound command channel" and feeds each request on).
RequestsServed == \A r \in Requests : r \in offered ~> r \in processed

=============================================================================
