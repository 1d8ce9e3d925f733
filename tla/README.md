# TLA+ models of the naomq file-transfer engine

This directory holds TLA+ models of the file-transfer engine. The engine is in
`src/unnamed/part_000`, which implements the EMQX `$file/...` transfer over
NanoMQ's nng MQTT client. The models are checked with TLC. `spec.md` is the
natural-language design. The models follow the C source and note where it
differs from `spec.md`.

## 1. Inventory

### Components and their state

| Component | Code | State it keeps | Operations |
|---|---|---|---|
| Connection Manager | `client_connect`, `connect_cb`, `disconnect_cb`, `file_transfer` (436-484, 636-664) | the socket and the dialer | open the socket, dial and retry every 10 s until it works, log connects and disconnects |
| Control Listener | `start_listening`, `process_msg` decode, `parse_input` (201-223, 487-526, 595-634) | the subscription to `file_transfer` (QoS 1) | subscribe once, receive messages forever, decode each one, drop the ones that do not decode |
| Batch Coordinator | `process_msg` loop (527-592) | loop index, `result` | send the files in order, stop at the first failure, apply the `delete` policy, publish one result |
| Transfer State Machine | `send_file` (336-417) | `fp`, `isLock`, `file_size`, `chunk_size` | normalise the chunk size, fopen, LOCK_SH (best effort), ftell, init, chunks, unlock/fclose, fin |
| Chunked Sender | `publish_file` (259-306) | `offset`, `chunk_size`, the payload buffer | fread a chunk, publish it at its offset, sleep `interval`, stop at `file_size` or EOF, shrink the last chunk |
| Deferred Deletion Scheduler | `process_msg` 550-578, `delete_delay_cb` (225-237) | armed nng aio timers, each owning a copy of the path | delete now (`delete` 0), arm a timer capped at 7 days (`delete` > 0), unlink when the timer fires |
| Publishing primitives | `client_publish`, `publish_initial`, `publish_fin`, `publish_send_result` | none (stack buffers) | format the topic and payload, `nng_sendmsg` at QoS 1 |

`src/nng/src/core/defs.h` holds the nng core's type aliases and a few macros.
Its operations are the big-endian byte-order macros `NNI_PUT16/32/64` and
`NNI_GET16/32/64`, which nng's wire codecs use for lengths and ids, and
`NNI_ALIGN_UP`. The rest is typedefs, forward declarations, an enum, and
compile-time size defaults.

### How they interact

There is one control thread. It runs Control Listener → Batch Coordinator →
Transfer State Machine → Chunked Sender → publish, and each call runs to
completion before the next starts. The pacing sleep blocks this thread. The
deletion timers run on nng's timer thread. They share nothing with the control
thread except the file system. Two actors outside the program act on the same
state:

- the controller publishes requests, and the broker may deliver a QoS 1
  message more than once;
- the local producer creates and rewrites the files being sent. It may take
  `LOCK_EX`, which conflicts with the engine's `LOCK_SH`, or ignore the
  advisory locks altogether.

### What is hard

- **Interleaving with the producer.** The file's size is read once, with
  `ftell`, and the chunks are read afterwards. Only an advisory lock protects
  the file in between, and a failure to take that lock is ignored.
- **Unsigned arithmetic** in the last-chunk computation (line 299).
  **Signed 32-bit overflow** in the deletion delay (line 566).
- **Partial failure.** A failed publish or fopen of one file stops the
  batch. A short read is only logged.
- **At-least-once delivery** of control messages. Nothing deduplicates
  request ids.
- **Deletion by path, later.** A timer deletes whatever file the path names
  when the timer fires.
- **Liveness.** There is one thread and no timeouts, so a chunk loop that
  never ends starves every later request.

### Properties that make each component correct

- Chunked Sender and Transfer State Machine: the chunks published before a
  fin cover the announced size exactly once and in order (`FinMatchesChunks`).
- Batch Coordinator: fail-fast (`FailFast`), a truthful result
  (`ResultReflectsBatch`), at most one result per request (`AtMostOneResult`),
  and every well-formed request answered (`RequestAnswered`).
- Deletion Scheduler: it deletes only files that were sent
  (`DeletesOnlySent`), and it delays by min(d s, 7 days)
  (`DelayIsClampedSeconds`).
- Connection Manager and Control Listener: start-up ends once the broker is
  reachable (`StartupCompletes`), and every delivered request reaches
  `process_msg` (`DeliveredProcessed`). A request sent to the connected,
  listening client is served (`RequestsServed`); this fails after a reconnect.
- The engine as a whole implements the stream protocol of `TransferStream`
  (`ImplementsStream`).
- Publishing primitives: no topic `snprintf` writes past its 1024-byte array
  (`TopicFitsBuffer`).
- defs.h: the byte-order macros are big-endian and inverse to each other
  (`EncodingIsBigEndian16/32/64`), and `NNI_ALIGN_UP` rounds up to 8
  (`AlignUpIsCeiling`); each macro acts as the function,
  statement or constant it is named for (`MacrosActAsNamed`, violated).

The hazards behind these properties are listed, with their source lines, under
`"hazards"` in `PROJECT.json`.

## 2. Modules

### `FileTransfer.tla`: the engine, the timers and the environment

**State.**

- File system: `dir` maps each path to an inode, `isize` gives each inode's
  length, and `nextIno`, `writes` bound the producer.
- Control channel: `inbox` (messages the broker delivered), `submitted`,
  `redelivered`.
- Timers: `timers[p]` counts the armed timers for path `p`.
- Control thread: `pc` plus the locals of `process_msg` (`req`, `idx`,
  `result`) and of `send_file`/`publish_file` (`fd`, `locked`, `fileSize`,
  `chunk`, `offset`).
- History: `out`, every published message, and `batch`, a counter of decoded
  requests used only to tag messages.

**Data abstraction.**

- A file's content is its length.
- Paths, file ids and request ids are model values.
- A control message is a record `[rid, paths, fids, nnames, seg, del]`.
  `nnames` is the length of the `filenames` array.
- `Malformed` stands for any message that `cJSON_Parse` rejects or that lacks
  a field.
- Topics and payloads are records. The `$file/{id}/{offset}` topic becomes the
  fields `fid` and `off`, and the payload becomes its length.

**Actions.** Each action runs from one interleaving point (a file-system call,
a publish, the pacing sleep) to the next:

| Action | Code |
|---|---|
| `Receive` | `start_listening` receive plus `process_msg` decode (`Decodes` = `parse_input`) |
| `SendFileOpen` | `send_file` 349-369: normalise the chunk size, fopen (fails if the path names no file), `do_flock` (may fail when `LockMayFail`), ftell |
| `PublishInitial` | `publish_initial` |
| `PublishChunk` | one iteration of `publish_file`'s loop |
| `PublishFin` | `send_file` 390-416: unlock, fclose, `publish_fin` |
| `CloseFailed` | the fclose-and-return-−1 paths of `send_file` |
| `SendFailed` / `SendSucceeded` | `process_msg` 544-580: break, or apply `delete` and continue |
| `PublishSendResult` | `publish_send_result` |
| `DeleteDelayCb` | the timer callback; it unlinks the path |
| `Submit`, `Redeliver` | the controller publishes a request; a QoS 1 duplicate arrives (controller retry) |
| `Create`, `Rewrite` | the producer |

A rewrite is blocked only while the engine holds `LOCK_SH` on that inode and
`WriterUsesFlock` holds. A deletion unlinks the path. An open `fd` keeps
reading the unlinked inode, as POSIX does.

**Failures** are choices made inside the actions:

- `PublishMayFail`: `nng_sendmsg` returns an error;
- `LockMayFail`: flock returns `ENOLCK` or `EINTR`;
- `AllocMayFail`: `nng_alloc` returns NULL.

`client_publish` calls `fatal()`, which is not defined in this repository.
The model takes spec.md §7's reading: the error is returned to the caller.

**Fairness.** `WF_vars(Control)` and `WF_vars(Timers)`. The control thread
never waits on anything but its own blocking calls. nng's timer thread fires
every armed aio. The controller and the producer get no fairness, since they
need not act.

### `DeleteDelay.tla`: the deletion delay

This module models lines 565-569: `int delay = valueint * 1000`, capped at
`MAX_DELAY_7_DAYS`. The product is computed modulo 2^32 on two 16-bit halves,
because TLC's integers are 32-bit. Signed overflow is undefined in C; the
model takes the wrap-around that gcc and clang produce without `-ftrapv`. The
result is compared with spec.md's "clamped to 7 days" over the boundary inputs
in `MC_DeleteDelay.tla`.

### `TransferStream.tla`: what the engine promises, and the refinement

`TransferStream` is the engine as the receiver sees it, with no file system,
lock or timer. Its state is the published messages `out`, the phase of the
current file (`idle`, `file`, `streaming`, `finished`, `failed`), the request,
the file index, and the request count `b`. Its actions:

- `Start(r)`: serve a request that has files and matching arrays;
- `Announce(s)`: publish the init message with size s;
- `Chunk`: publish a chunk that starts where the last ended, has 1..10240
  bytes, and stays within s;
- `Finish`: publish the fin once the chunks cover s;
- `Fail`: give up on the file; nothing is published;
- `NextFile`: move to the next file;
- `Result`: publish the result, or lose it to a failed publish. It is true
  exactly when every file finished.

`FileTransfer` ends with the refinement mapping:

- `out` maps to itself, with the auxiliary inode of each fin message dropped;
- `b` maps to `batch`;
- the phase comes from `pc`: `recv` is idle, `open` and `init` are file,
  `chunk` and `fin` are streaming, and `sent` and `result` are finished or
  failed according to `result`.

`ImplementsStream == Stream!Spec` is then checked as a PROPERTY. It includes
all of `FinMatchesChunks`, `FailFast` and `ResultReflectsBatch`. It also says
more than they do: messages come in protocol order, no chunk runs past the
announced size, requests do not overlap, and a new request starts at file 1.

### `Connection.tla`: connect, subscribe, receive

The main thread's `mpc` follows `file_transfer` → `client_connect` →
`start_listening`:

| Action | Code |
|---|---|
| `Dial` | first `nng_dialer_start(dialer, 0)` (474) |
| `Retry` | `nng_msleep(10000)` and re-dial (476-478) |
| `Subscribe` | `nng_mqtt_subscribe`, rv ignored (612) |
| `Recv` | `nng_recvmsg` (619-624) |
| `Process` | `process_msg`, rv only logged (625-629) |

The environment:

- `Outage`: the broker becomes unreachable, at most `MaxOutages` times. The
  session ends, and since the CONNECT sets clean_session (460), so does its
  subscription.
- `Recover`: the broker becomes reachable again.
- `Redial`: nng's dialer reconnects once a dial has succeeded. A SUBSCRIBE
  queued while disconnected is sent on the new session.
- `PublishRequest(r)`: an operator publishes a request. The broker forwards
  it only to a session that holds the subscription.

`connect_cb` and `disconnect_cb` only log. A failed `nng_recvmsg` calls
`fatal` and `continue`, which is a step that changes no state.

**Fairness.** Weak fairness holds for each main-thread action, for nng's
redial timer, and for `Recover`. With at most `MaxOutages` outages, the broker
is eventually reachable for good. This is the assumption under which the spec
says the loop "blocks startup until success".

### `TopicLength.tla`: topic buffer lengths

This module models one transfer's three kinds of `snprintf` into
`char topic[TOPIC_LEN]`. A string is its length, and a number is its decimal
digits (`Digits`, RECURSIVE). `Stored(cap, len)` is what `snprintf` writes.
publish_initial passes capacity `TOPIC_LEN`; publish_file and publish_fin
pass `BUF_SIZE`. The chunk loop keeps its offset advance, its stop at
`file_size`, and its last-chunk shrink.

### `Defs.tla`: the defs.h macros

TLC's integers are 32 bits wide, so a `uintN_t` is held as 16-bit limbs. The
macros are modelled as follows:

- `NNI_PUT*`: `(uint8_t)(u >> s)`, that is, `shiftR` and `& 255` of the
  limb (`ByteAt`).
- `NNI_GET*`: the sum of shifted bytes, limb by limb (`Shifted`,
  `LimbSum`). The shifted bytes never overlap, so there is no carry.
- `NNI_ALIGN_UP`: `AddSmall` carries across all four limbs of a 64-bit
  `size_t`, then `& ~mask` is applied. `sizeof(void *)` is 8.

The references `BigEndian` and `RefAlignUp` are plain arithmetic (`\div`,
`%`). The harness's state is a single input, and the invariants compare the
macros with the references. The inputs are:

- all 65536 `uint16_t` values;
- each limb of a `uint32_t` or `uint64_t` drawn from the values at the byte
  and sign boundaries;
- sizes 0..300, and sizes near every limb boundary up to `SIZE_MAX - 7`.

The other macros with behaviour are modelled by what their expansion does.

- **`NNI_ASSERT`** (21-27). Without `NDEBUG` it is a bare
  `if (!(x)) nni_panic(...)`; with `NDEBUG` it is `(0)`. The model gives the
  set of things a use runs: the panic, the next statement, or the caller's
  else branch. The use is either on its own or as the then-branch of
  `if (c) ...; else s();`.
- **`NNI_ALLOC_STRUCT(S)` and `NNI_FREE_STRUCT(S)`** (83-86). The model gives
  the byte count each macro passes to `nni_zalloc` or `nni_free`. An argument
  `n` is the sequence of its additive terms. Pasted in unparenthesised, only
  its first term is multiplied (`PastedProduct`).
- **`NNI_NANO_*`** (168-208). The value is the build's `-D` value if the
  build defines one, or the default otherwise (`NanoDefault`, `NanoBody`).
  Three of these macros have the body `sizeof(uint8_t)*v`. `DivPasted` is
  `k / BODY` evaluated left to right.

These inputs cover:

- arguments that are one term or a sum;
- every combination of `NDEBUG`, context, condition and assertion;
- the default build, and a build that overrides two of the options.

### `Memory.tla`: what the listener allocates and frees

`Memory` EXTENDS `FileTransfer` and adds one ghost variable, `heap`. It
counts the live objects of each kind the code allocates:

- `msg`: the control message from `nng_recvmsg` (619);
- `json`: the `cJSON_Parse` tree (496);
- `pubmsg`: a PUBLISH that `nng_sendmsg` refused (61-77);
- `path` and `aio`: what a deferred deletion holds (558, 570).

`MNext` takes every `FileTransfer` step unchanged, together with its heap
effect:

- `Receive` with `ParseHeap`. A message that is not JSON allocates nothing
  that stays. A rejected request leaves its tree. A request keeps its message
  and its tree.
- The publishing steps with `ClientPublishHeap`. A publish failed when `out`
  did not grow, unless publish_file's loop ended on an empty fread.
- `SendSucceeded` with `ArmDeleteHeap`: an armed timer holds a path copy and
  an aio.
- `PublishSendResult` with `SendResultHeap`: the message is freed and the
  tree is not.
- `delete_delay_cb` (225-237) frees nothing.

`fatal()` is not defined in this repository. It is read as logging and
returning, as the `continue` after it at line 621 presumes. A refused message
stays with the caller, which is nng's ownership rule for `nng_sendmsg`.

### MC modules

- `MC_FileTransfer.tla` fixes two paths, two file ids and three request ids.
  It defines two request sets:
  - `MCRequests`: `Req1` sends p1 and p2 in 2-byte chunks and deletes them at
    once; `Req2` sends p2 with a negative segment-size (so 10240) and deletes
    it after a delay; `Req3` has a mismatched `filenames` array.
  - `MCLiveRequests`: `Req4` sends p1 in 1-byte chunks and keeps it; plus
    `Req2`.
- `MC_DeleteDelay.tla` fixes the delay inputs.
- `MC_Connection.tla` fixes two requests, one of them malformed, and allows 2
  outages: one before and one after start-up, or two in a row.
- `MC_TopicLength.tla` fixes file-id lengths around the limits (1012 is the
  longest whose init topic fits) and sizes with 1- and 5-digit offsets.
- `MC_Defs.tla` fixes the macro inputs.
- `MC_Memory.tla` EXTENDS `Memory` and `MC_FileTransfer`. Its cfg,
  `MC_Memory.cfg`, is the `transfer_safety` run.

## 3. Runs

| Run | cfg | Expect | What it shows |
|---|---|---|---|
| `transfer_safety` | `MC_Memory.cfg` | pass | With working locks and a producer that honours them, these hold under publish failures, allocation failures, immediate and deferred deletion, and file re-creation: `FinMatchesChunks`, `FailFast` and `ResultReflectsBatch`. The engine refines `TransferStream` (`ImplementsStream`). Each control message is freed on every return of `process_msg`, the parse failure and the rejected request included (`MessageFreedPerRequest`). The spec is `Memory`'s `MSpec`, which takes every `FileTransfer` step unchanged. 2.8M states, 80 s. |
| `requests_answered` | `MC_FileTransfer_live.cfg` | pass | With publishes that do not fail, every well-formed request is answered (`RequestAnswered`). Redelivery and flock failures are included, and so is a producer that ignores locks and grows a file after `ftell`. The loop therefore also meets the unsigned wrap at line 299, and it still ends at EOF. The producer writes at most once, so a file that grows for ever is out of reach; hazard 296 says so. About 400k states, 35 s. |
| `transfer_lock_failure` | `MC_FileTransfer_lock.cfg` | violation | `FinMatchesChunks`: the flock fails, the producer truncates the file after init, and no chunk is sent. `fin/1` is still published and the transfer counts as a success. |
| `redelivered_request` | `MC_FileTransfer_redeliver.cfg` | violation | `AtMostOneResult`: r2 succeeds and its file is deleted. The duplicate of r2 then fails at fopen, and a second result `success=false` is published for r2. |
| `stale_deletion` | `MC_FileTransfer_delete.cfg` | violation | `DeletesOnlySent`: two requests send p2. After one deletes it, the producer recreates p2, and the other request's timer deletes the new, unsent file. |
| `connection_startup` | `MC_Connection.cfg` | pass | With up to 2 outages, start-up completes (`StartupCompletes`) and each delivered request reaches `process_msg`, rejected ones included (`DeliveredProcessed`). |
| `lost_subscription` | `MC_Connection_served.cfg` | violation | `RequestsServed`: the client connects and subscribes. An outage follows, nng redials a clean session, and a request then published to the connected, listening client is never delivered. |
| `topic_overflow` | `MC_TopicLength.cfg` | violation | `TopicFitsBuffer`: a 1012-byte file id passes the init check (1023 characters). The fin topic `$file/<id>/fin/0` is 1024 characters, and 1025 bytes go into the 1024-byte array. |
| `byte_order_and_alignment` | `MC_Defs.cfg` | pass | Every `NNI_PUT`/`NNI_GET` width agrees with big-endian arithmetic, and `NNI_ALIGN_UP` rounds up to 8 with carry. 95k inputs, 10 s. |
| `macro_hygiene` | `MC_Defs_macros.cfg` | violation | `MacrosActAsNamed`: `NNI_ALLOC_STRUCTS(s, 2 + 1)` with an 8-byte struct sizes 17 bytes, not 24. The property also fails, restricted to each macro, in two more places. `if (c) NNI_ASSERT(x); else s();` skips `s()` when `c` is false, unlike the `NDEBUG` build. `64 / NNI_NANO_MAX_PACKET_SIZE` is 768. |
| `delete_delay_overflow` | `MC_DeleteDelay.cfg` | violation | `DelayIsClampedSeconds`: `delete=2147484` gives −2147483296 ms. spec.md's own example, 600000000, gives −1295421440 ms instead of 7 days. |
| `heap_leaks` | `MC_Memory_leak.cfg` | violation | `NoLeakBetweenRequests`: the mismatched request r3 is parsed, rejected, and its cJSON tree is never freed; the listener is back in `nng_recvmsg` with one tree live. The model also leaks in two other ways. Restricted to `pubmsg`, the property fails on an unsent PUBLISH after a failed send. Restricted to `path`, it fails on a deletion's path copy after `delete_delay_cb` has run. |

Each property of a passing run has a mutant in `PROJECT.json`. Each mutant is
a plausible bug, and TLC finds it:

| Mutant | Broken property |
|---|---|
| chunk-size clamp dropped | `TypeOK` |
| flock never taken | `FinMatchesChunks` |
| `break` dropped | `FailFast` |
| `publish_fin`'s return ignored | `ResultReflectsBatch` |
| decode off by one | `RequestAnswered` |
| `Receive` does not reset the file index | `ImplementsStream` |
| retry loop sleeps but does not re-dial | `StartupCompletes` |
| receive loop stops on a `process_msg` error | `DeliveredProcessed` |
| `NNI_PUT16` bytes swapped | `EncodingIsBigEndian16` |
| `NNI_PUT32` shifts by 16 twice | `EncodingIsBigEndian32` |
| `NNI_GET64` drops byte 2 | `EncodingIsBigEndian64` |
| `NNI_ALIGN_MASK` is 8 instead of 7 | `AlignUpIsCeiling` |
| rejected request's message not freed | `MessageFreedPerRequest` |

**Bounds**

- Files are at most 3 bytes; 2 bytes in the liveness run. With chunk sizes
  1, 2 and 10240 this gives empty files, single-chunk files, files that end
  mid-chunk and files that end on a chunk boundary.
- Two paths, so that two requests can share a path.
- One inode beyond the initial two, so the producer can recreate one deleted
  file.
- One rewrite, enough to truncate or grow a file during a transfer.
- Three control messages, one of which may be malformed.
- At most one redelivery.

- Connection: 2 outages are enough for an outage before the first dial,
  one between dial and subscribe, and one after the subscription.
- TopicLength: file ids of 1000-1013 bytes, which span the 1012-byte limit of
  the init check; sizes 0, 5 and 20000 (5-digit offsets); chunk sizes 7 and
  10240.

Every failure path is reached: a failed fopen, init, chunk or fin publish, a
failed allocation, and a failed flock.

## 4. Not modelled, and why

- **Socket and dialer creation** (445-451). These fail only on allocation,
  into `fatal`, which is not defined in this repository.
- **`fatal`'s effect.** The model follows the `continue` after it (620-621)
  and spec.md §7: the failure is logged, and a publish failure is returned.
- **Payload formatting.** The JSON payloads fit `BUF_SIZE` for every id the
  topic check lets through. Only the topics are modelled by length.
- **`NNI_ALIGN_UP` wrapping** within 7 of `SIZE_MAX`. These sizes are
  outside the inputs: no caller in this repository passes one.
- **Pacing time.** `interval` is a point where other actors may interleave,
  not a duration.
- **Logging.** It changes no state that a property reads.
- **`nng_aio_alloc` failing** (570). Its return is unchecked, and `a` is
  then uninitialised. What `nng_sleep_aio` does with it is up to code that
  is not in this repository, so `Memory` takes the aio allocation to succeed
  whenever the path copy did.
- **The rest of defs.h.** The map covers the macros that have behaviour:
  - `NNI_ASSERT`;
  - the struct allocation sizes;
  - the byte-order and alignment macros;
  - the `NNI_NANO_*` limits.

  What is left has no behaviour to model, and no code in this repository
  uses it:
  - include guards, `typedef`s, forward declarations and the `nni_type`
    enum, which are declarations;
  - `NNI_ARG_UNUSED`, which discards a value;
  - `NNI_NUM_ELEMENTS` and `NNI_ARRAY_SIZE`, each one `sizeof` quotient;
  - the `NNI_TIME_*` constants;
  - `NNI_MAX_HEADER_SIZE`, which is `(15 + 1) * 4`.

## 5. Plan

Steps 1-2 were done in the first sitting, steps 4-7 in the second, step 8 in
the third, and step 11 in the fourth.

1. **Done.** `FileTransfer`: the control thread, the timers and the
   environment; the safety and liveness runs; the violation runs for locks,
   redelivery and stale deletion.
2. **Done.** `DeleteDelay`: the 32-bit delay arithmetic.
3. Dropped: `ChunkPlan`. On a stable file, publish_file's loop comes down
   to fread's min, so the shrink and the break change nothing. What is left,
   the segment-size normalisation, is already checked by `TypeOK` and its
   mutant.
4. **Done.** `TransferStream` and the refinement `ImplementsStream`, checked in `transfer_safety`.
5. **Done.** `Connection`: the dial-retry loop, the subscription and the
   receive loop, with outages and nng's redial.
6. **Done.** `TopicLength`: the overflow at lines 279 and 318.
7. **Done.** `Defs`: the defs.h byte-order and alignment macros.
8. **Done (third sitting).** `Memory`: the heap of the listener, with the
   leaks of lines 496, 75 and 228.
9. Compose `Connection` with `FileTransfer`: feed `FileTransfer`'s inbox from
   `Connection`'s delivery, so that results published during an outage are
   lost and the controller's retries produce the duplicates.
10. The negative `interval` (541) as a duration, once pacing is modelled as
   time. `nng_msleep` is not in this repository, so what a negative
   duration does cannot be taken from the source.
11. **Done (fourth sitting).** `Defs`: `NNI_ASSERT`, the struct allocation
   macros and the `NNI_NANO_*` limits, with the `macro_hygiene` violation.
   `transfer_safety` and the heap run were merged into one run on `MSpec`.

Step 9 is not done. How nng treats a QoS 1 publish on a disconnected client
(queue or fail) is not in this repository. `FileTransfer` already lets every
publish fail independently, which covers every answer to that question.
