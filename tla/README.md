# KakDela P2P: TLA+ models, model checking and proofs

KakDela P2P is an Android messenger written in Kotlin. A device is a node: it
finds other nodes through a server, through network service discovery (NSD) on
the local network and through datagrams, sends messages over UDP with SMS as
the fallback, transfers files in chunks, makes WebRTC calls, and runs a local
language model. This directory holds TLA+ models of the parts in which
ordering, failure and concurrency decide whether the program is right, the TLC
runs that check them on small instances, and TLAPS proofs that hold for every
value of the constants.

Paths below are relative to `src/app/src/main/java/com/kakdela/p2p/`. `MR` is
`data/MessageRepository.kt`, `IR` is `data/IdentityRepository.kt`, `SM` and `SW`
are `workers/ScheduleMessage.kt` and `workers/ScheduledMessageWorker.kt`, `FT` is
`data/FileTransferWorker.kt`, `PS` is `data/PeerSyncRepository.kt`, `CA` is
`ui/call/CallActivity.kt`. Native code is under `src/app/src/main/cpp/`.

## 1. Inventory

| Component | State | Operations | What is hard about it |
|---|---|---|---|
| Outgoing messages (`MR`, `SM`, `SW`) | rows of `messages` with a status, WorkManager's queue | `sendText`, `sendFile`, `performNetworkSend`, `scheduleMessageWork`, `doWork` | a job is retried and survives a process death, the coroutine that sends at once does not; row and job are two records of one fact |
| Transport selection (`IR.sendMessageSmart`) | `wifiPeers`, `swarmPeers`, `dht_nodes` | `sendUdp`, `sendAsSms` | the payload is fixed before the transport is known; peers come and go in between |
| Node lifecycle (`IR`, `service/P2PService.kt`, `MainActivity.kt`) | `isRunning`, `networkScope`, `udpSocket`, `PS.scope` | `startNetwork`, `stopNetwork`, `startUdpListener` | coroutines of an old generation share fields with those of a new one |
| File transfer (`FT`) | `seedingFiles`, `activeDownloads`, the session's `BitSet`, the output file | `addFileToSeeding`, `downloadFileP2P`, `handleChunkRequest`, `handleChunkData`, `release` | lost, duplicated, late datagrams; two calls for one file |
| Model download (`ai/NativeAi.kt`, `viewmodel/AiChatViewModel.kt`) | two file names, `isDownloading`, `isModelDownloaded` | `downloadModel`, `download`, `copyAndCleanup`, `isInstalled` | process death at any point; the blocking download outlives its view model |
| Node directory (`data/db`, `data/AuthManager.kt`, `IR`, `PS`) | `dht_nodes` | login, server sync, gossip merge, packet, manual add | five writers replace whole rows they have not read |
| Incoming messages (`IR.processIncomingPacket`, `MR.handleIncoming`, `SmsReceiver`) | `messages`, `swarmPeers` | verify, decrypt with fallbacks, store | duplicates, several fallbacks in sequence |
| Calls (`CA`) | peer connection, `pendingIce`, `isRemoteSdpSet` | offer, answer, candidate, hang-up | the candidate queue is shared by handlers and the signaling thread; both sides may offer |
| Server API (`api/WebViewApiClient.kt`) | `isReady`, a mutex | `init`, request with retries | one caller's failure resets the session of all |
| Local model (`native-lib.cpp`, `ai/AiCore.kt`, `viewmodel/AiChatViewModel.kt`) | global model, context, sampler; the question under way | init, prompt, `isReady`, the fallback from cloud to local | unsynchronised globals used by blocking native calls |
| KV cache (`llama/src/llama-kv-cache.cpp`, `llama-kv-cells.h`, `llama-context.cpp`) | cells, positions, sequences, shifts, head | decode, `seq_rm`, `seq_cp`, `seq_keep`, `seq_add`, `seq_div`, `clear` | slots are found in a rehearsal that is rolled back; a ubatch may fail halfway |
| CPU thread pool (`llama/ggml/src/ggml-cpu/ggml-cpu.c`) | `n_graph`, barrier counters, chunk counter, `pause`, `stop`, `abort` | new, compute, pause, resume, free | polling and sleeping threads, a barrier reused for every node, lost wake-ups |
| Graph memory (`llama/ggml/src/ggml-alloc.c`, `ggml-backend.cpp`) | free lists of chunks, the plan of a graph, the buffer | alloc, free, reserve, place a graph | tensors share memory by counts of readers and views; the plan of one graph is reused for another; the buffer may fail to grow |
| Contacts, phone numbers, chat view, SMS codes, cryptography | small | normalise, match, merge | rules duplicated in two places |

How they interact: `MainActivity` and `P2PService` start and stop
`IdentityRepository`, which owns the socket and starts `PeerSyncRepository`.
Screens call `MessageRepository`, which writes rows and calls
`IdentityRepository.sendMessageSmart`, or leaves a job to WorkManager, which
later creates a `ScheduledMessageWorker` that calls the same
`performNetworkSend`. Datagrams enter through `processIncomingPacket`, which
updates `swarmPeers` and `dht_nodes` and calls every registered listener
(messages, calls, gossip, file transfer). The AI screen is independent of the
network part and shares only the process with it.

What makes each modelled part correct:

- *delivery*: nothing is sent twice or early, the status column tells the truth
  about what left the device, the retry limit is exact, everything ends;
- *lifecycle*: a node asked to run is down only when its own boot failed, one
  listener on one open socket, a stop releases the port;
- *file transfer*: a file is returned only if it is complete, and given up only
  when the losses exceed what three passes can repair;
- *model download*: what is called installed is whole, no temporary file stays;
- *node directory*: no writer loses a key, and the row ends up right;
- *calls*: each remote candidate reaches WebRTC as often as it arrives, and not too early;
- *local model*: freed objects are not used, every question ends;
- *KV cache*: the bookkeeping agrees with the cells, nothing visible is lost, a
  refused call changes nothing;
- *thread pool*: nodes are computed completely and in order, all threads stop at
  the same node, every call returns;
- *graph memory*: no byte belongs to two tensors that are both needed, none is
  lost, and everything lies inside the buffer;
- *server API*: one request at a time, every call ends, and a stale session does
  not use up all attempts.

The rest of llama.cpp (tensor arithmetic, GPU back ends, model architectures),
the Termux terminal, the Flutter client under `bypass/`, games, the media player,
the file manager and the screens are not modelled. Most lines of the repository
are of that kind, so the map names only a small share of all lines: the modules
follow the code in which order and failure matter.

## 2. Modules

| Module | Models | Checked by |
|---|---|---|
| `MessageDelivery` | outgoing messages and transport selection | `delivery`, `delivery_sms`, `MessageDeliveryProofs` |
| `NetworkLifecycle` | start and stop of the node | `lifecycle`, `NodeProofs` |
| `ChunkedDownload` | what `downloadFileP2P` promises (abstract) | refined by `FileTransfer` |
| `FileTransfer` | seeding and downloading | `transfer`, `FileTransferProofs` |
| `ModelInstall` | download and installation of the language model | `install`, `ModelInstallProofs` |
| `NodeDirectory` | the row of another node and its writers | `directory`, `NodeProofs` |
| `CallSignaling` | setting up a call between two devices | `calls`, `CallSignalingProofs` |
| `LocalModel` | the assistant chat and the native bridge | `local_model`, `LocalModelProofs` |
| `KvCache` | key-value cache and `llama_decode` | `kv_cache`, `LocalModelProofs` |
| `ThreadPool` | ggml's thread pool | `compute`, `ThreadPoolProofs` |
| `FreeBlocks` | the free lists of ggml's allocator, as operators | used by `GraphAlloc` |
| `GraphAlloc` | planning and placing of computation graphs | `graph_plan` |
| `ServerSession` | calls of the server API | `server`, `ServerSessionProofs` |
| `MC*` | constants of the small instances | |

Operators named "Mutant" in a comment are faulty variants of the definition
that follows them. No specification uses them; substituting one for the
definition it varies makes TLC report the property it is paired with in
`PROJECT.json`, which shows that the property depends on that code.

### MessageDelivery

One message id has a row (`row`: status, chat, scheduled time), at most one
coroutine (`run`: program point and locals), at most one WorkManager job (`job`:
state, `runAttemptCount`, earliest start) and a history (`air`: transport calls,
`tx`: how often it left the device, `faults`: what hit it). A peer has a row of
`dht_nodes` reduced to what the sender reads of it: is there an address, is the
phone null, blank or a number, is the key missing, good or unusable.

| Action | Code |
|---|---|
| `SendText`, `SendFile` | `MR.sendText`, `MR.sendFile` up to the insert of the row |
| `ScheduleMessageWork` | `SM`: second reading of the clock, early return, enqueue |
| `FixPayload` | `MR.performNetworkSend`, decision to encrypt and `CryptoManager.encryptMessage` |
| `SendMessageSmart` | `IR.sendMessageSmart`: UDP, SMS, or neither |
| `UpdateStatus` | `dao.updateStatus` and the return to coroutine or worker |
| `DatabaseError` | the catch block of `performNetworkSend`, and a failure inside it |
| `DoWork` | start of `SW.doWork`, with and without Koin |
| `StopWorker`, `ProcessDeath` | WorkManager interrupts a worker, the process dies |
| `WifiFound` ... `Tick` | discovery, node rows, connectivity and time |

A step reaches from one point to the next at which another thread can change
what the coroutine reads: the node and peer maps are read in `FixPayload`, and
again in `SendMessageSmart`. WorkManager is external and modelled by its
contract: work starts after its delay while the constraint holds, each attempt
increments `runAttemptCount`, interrupted work is put back in the queue. The
length of the backoff is not modelled: a retry is merely not before its time.

Two constants describe the build. `KoinStarted` says whether `startKoin` has run
before a worker is created. Nothing in the repository calls it, so the shipped
build has FALSE, every `doWork` fails at its first use of a repository and a
scheduled message is never sent; the runs use TRUE to check the code as it is
meant to run. The theorems hold for both.
`PacketsVerify` says whether `CryptoManager.verify` can accept a packet of a
peer: packets carry the encryption key while `verify` needs a signing key, so
the shipped build has FALSE, and all handlers behind `processIncomingPacket`
(`swarmPeers`, gossip, file transfer, call signals) are out of reach there. The runs use TRUE
where more behaviour is the stronger check, FALSE where a counterexample must be
one of the shipped build.

### NetworkLifecycle

The n-th successful `startNetwork` makes generation n: a scope, a boot
coroutine, a listener and a socket. The fields `isRunning`, `networkScope`,
`udpSocket` are shared by all generations. `startNetwork` and `stopNetwork` are
each two steps (the flag, then the rest), since other threads run between them;
the boot coroutine suspends in the server sync. Its catch block (IR:93) calls
`stopNetwork` for every exception: one thrown before the suspension
(`BootThrows`: keys, identity, gossip), one thrown in the server sync, and the
cancellation that arrives there (both `BootFails`). The listener's loop reads
`isRunning`, then blocks in `receive` on whatever socket the field held; its
finally block closes the field. `bind` and `receive` may also throw for reasons
of their own (`ListenerError`), after which nobody listens. NSD registration and the
five-minute sync loop are left out: they share no variable with these.

The ghosts name the causes. `failed` and `broken` are the generations whose boot
coroutine or listener met an error of its own. `metBoot` and `metListener` say
that a start found, of an earlier generation, a boot coroutine that may still
reach its catch or a listener past the point where cancelling stops it; both hold
only for a start that is not ignored.

### FileTransfer and ChunkedDownload

All calls concern one file id and one file name, which is where they can
disturb each other. `net` is a set of datagrams; receiving one may leave a copy,
so duplication and reordering are built in, and `Lose` drops one. The download
loop is split at the loop head, each request, the wait and the end; each
`FILE_CHUNK_DATA` gets a coroutine of its own (`writers`) that looks the session
up, then writes, then marks. `hits[c]` counts what happened to chunk `c` since
the last call started: a loss, a refused request, a failed send, a failed write,
or a wait that ended while the chunk was on its way. The file has one entry per
chunk: absent, torn by a failed write, or new.

`ChunkedDownload` is the promise to a caller: chunks are stored and stay stored,
a call ends once, and with the file only when all chunks are stored.
`FileTransfer` implements it with `stored` = the chunks of the file that hold
new bytes and `outcome` = the result. No class of the app creates a
`FileTransferWorker` yet; the module describes the class as it stands.

### ModelInstall

Files are inodes with a length and a set of right blocks; the two names refer to
inodes. This is what makes deletion and renaming during a write come out right:
a second download can delete or rename the file that the first is still writing.
Each call of `download` passes `Clean`, `Request`, `OpenTemp`, `ReadBody`
block by block, `DeleteFinal`, then `RenameTo`, or `CopyOpen`, `Copy` and
`CopyDone` where renaming fails. The process may die between any two steps, and a
view model may be replaced by one that knows nothing of a running download.
Whether `renameTo` works is fixed in the initial state, both ways.

### NodeDirectory

One other node that moves between places as a bounded clock ticks (`hist`), its
row on this device, its record on the server, its datagrams, merges of gossip and
fetched lists between their read and their write. A place has two addresses: `src`,
which its datagrams come from and `processIncomingPacket` stores, and `own`, which
the node finds at its interface (`getLocalIpAddress`) and `Announce` sends: the same
one, another one behind a NAT (`Inside`), or none, which is announced as "0.0.0.0".
`known` says whether its preferences hold a telephone; without it null is announced.
`LogIn` stores the telephone and announces it with "0.0.0.0" if the server is reached
(`AuthManager`). `GossipRead` and `GossipWrite`
are the two halves of `mergeIncomingNodes`, since the suspending calls of Room
let any other writer run between them; likewise `FetchReply` and `FetchStore`, and
`AddBegins` and `AddByHand` of the settings screen. Times are compared as the code
does. A row is reduced to address, `lastSeen` and whether key and telephone are
there. Devices that gossip tell what they were told at the time they name; the server
keeps the last announcement. The own row, the size limit of the table, and logging
out, which forgets the telephone, are left out.

### CallSignaling

Two devices and the activities they start. Each datagram is handled by its own
coroutine; `handleRemoteIce` is split between the test of `isRemoteSdpSet`
(`IceTest`) and what follows (`IceAct`), since the signaling thread may set the
flag and drain in between. The callbacks of WebRTC are a queue per activity;
`drainIce` iterates over a snapshot, as `CopyOnWriteArrayList` does, and clears at
the end, and an `onSetSuccess` that drains is one callback up to its `createAnswer`.
The states of `PeerConnection` (external) decide which descriptions are
accepted: an offer unless this side has one (a second offer replaces the first before
it is answered), an answer only if it has. The network loses, reorders and duplicates:
`Arrive` may leave a copy of what it delivers. `handleRemoteIce` does not recognise a
repeated candidate, so each arrival is added; the field `copy` of a candidate tells the
arrivals apart in the model, to count what each leads to. Signals carry no number of the call, so those of an earlier activity
reach a later one. No code starts the activity with `isIncoming`, so both sides
offer, and one answers only if the other's offer comes before its own is set.

### LocalModel

`init` is split at each global it frees or makes, `prompt` at each `llama_decode`.
`alive` is the set of objects that exist, so a use of a freed one can be seen;
the model stops there, since what follows is undefined. `overlap` records that two
native calls ran at once. Of the cache only the number of positions of
sequence 0 is kept; the acceptance rule and the assertion on the length of a batch
are those of `llama_context::decode`. A closed screen cancels its coroutines where
they suspend, never inside a native call.

### KvCache

One stream of cells with `pos`, `seq`, `shift`, `used`, `seq_pos` as counts, and the
head. `FindSlot`, `ApplyUbatch`, `Prepare` and the sequence edits are operators on
that record, each one C++ method; `Decode` is `llama_context::decode` up to the loop
over the ubatches (K-shift, rehearsal, second try), `Process` and `ProcessFails` are one round of
the loop. The loops of these methods are folds: `FirstUsable` over the ring of cells,
`Purge` over the sequences, `Rehearse` over the ubatches, `Restore` over the saved cells
in reverse. `Put` and `Purge` are the two halves of `apply_ubatch`: the tokens go into the
slot, then each sequence that lost a position there loses all it has below it. `Windows`
adds models with a sliding window; the assumption on `Size` is how `llama_kv_cache_iswa`
sizes the cache of such layers, and `Seqs` is finite (`LLAMA_MAX_SEQ`).

### ThreadPool

The build of the app lists the sources of ggml itself and does not define
`GGML_USE_OPENMP`, so this is the code path with pthreads. Each access to a shared
atomic outside the mutex is a step. The caller makes a pool (running or paused),
computes graphs with any number of threads asked for, pauses, resumes and frees.
A worker polls, checks under the mutex, sleeps, and may wake without a signal. A
node is a matrix product, with its chunk counter, or an empty operation. Memory is taken as
sequentially consistent; the code uses relaxed accesses around sequentially consistent fences,
whose weaker orders are not modelled. llama.cpp makes a disposable pool per graph
unless one is attached; both uses are sequences of the caller's actions.

### FreeBlocks and GraphAlloc

`FreeBlocks` has one operator per function of `ggml_dyn_tallocr`: `Alloc` with the
search for the best block (`BestInner`, `BestTail`) and `NewChunk`, `FreeBytes` with
`InsertBlock` and `JoinNext`. The limit of 256 free blocks is an assertion of the
code that few tensors do not reach. The last chunk has `Endless` bytes, for
`SIZE_MAX/2`.

`AddNode` builds a graph tensor by tensor: any operands, views, in-place operations,
outputs. `SchedReserve` and `SchedAllocGraph` are the two calls of the scheduler;
`PlanLeafs` and `PlanNodes` are `ggml_gallocr_alloc_graph_impl` on the operators of
`FreeBlocks`, `Assign` and `AssignFails` the rest of `ggml_gallocr_reserve_n_impl` and
what its callers do with the result, `AllocGraph` and `InitTensors`
`ggml_gallocr_alloc_graph`. After a graph has been placed, the next is another one
(`NewGraph`) or the same with other sizes (`SameGraph`), as when a batch has another
number of tokens. The ghost `planned` is the graph the plan was made for. There is
one buffer type, as in the build for the CPU, so the graph is not split and nodes
do not change their back end. Explicit inputs are leafs here, which are allocated first
anyway. Same layout is taken as same size.

### ServerSession

`executeRequest` is split where the coroutine suspends: the mutex, the wait for the
page, the request in its thread, the reload and the delay after a failure. A
cancelled caller is noticed at those points; since `catch (e: Exception)` also
catches the cancellation, a cancelled call still resets `isReady` and ends in the next
suspension point. The cookie is absent, stale or good; `checkProtection` only
looks whether it is there. Browser, page and server are external: `Heal` marks
the moment from which they work.

## 3. Runs

`tlc -config X.cfg M` in this directory; the names are those of `PROJECT.json`.

| Run | Instance | Distinct states | Question |
|---|---|---|---|
| `delivery` | 1 message, a chat that is a phone number, 7 node rows, 1 retry, time to 2, 1 fault, 1 death, with fairness | 194 096 | Is anything sent twice, do row, job and transports agree, does everything end? |
| `lifecycle` | 2 generations, with fairness | 234 759 | What can bring a node down that was asked to run, or leave it without a listener? When does gossip run? Is the port released, does every listener end after a stop? |
| `transfer` | 2 calls, 1 chunk, 2 passes, 1 hit, with fairness | 952 372 | Do two calls for one file implement `ChunkedDownload`, does every call end, and give up only after a hit in each pass? |
| `install` | 2 downloads, 3 blocks, 2 deaths, `renameTo` working or not | 94 298 | Is what is called installed whole, and is the temporary file removed? |
| `directory` | 1 gossiping device, 1 fetching loop, clock to 2, 1 addition, with fairness | 1 187 946 | Who loses a key, and does the row end up right? |
| `calls` | 2 activities on 2 devices, 1 candidate each, 2 duplicated datagrams | 1 446 472 | Does every arrival of a candidate reach WebRTC, once at most and in time? |
| `local_model` | 2 inits, 2 screens, 1 cloud model, prompts of 1, 2, 4 tokens in a context of 3, with fairness | 207 389 | Is anything freed used, how many prompts does a context take, does every question end? |
| `kv_cache` | 5 cells, 2 sequences, positions to 2, batches to 3 in ubatches of 1, windows 0 and 2, 1 edit | 55 866 | Is the bookkeeping right, is anything visible lost (with a window: of a batch of one ubatch, or in the last of several), does a refusal restore? |
| `compute` | 3 threads, 2 graphs, with fairness | 148 784 | Order, completeness, aborts, quiet between graphs, termination |
| `graph_plan` | graphs of 1 or 2 leafs and 3 nodes in all, 1 output, 1 graph with other sizes, 2 failures, sizes 2 and 3 aligned to 2, chunks of 6 | 3 346 847 | Is an operand or output overwritten, does anything lie outside the buffer? |
| `server` | 2 calls, 3 attempts, with fairness | 36 950 | One request at a time; does a stale session use up all attempts; does every call end? |

One run expects a violation. It states what a comment of the program says and shows
a behaviour of the code that contradicts it:

| Run | Promise | Counterexample |
|---|---|---|
| `delivery_sms` | MR:16, messages go unencrypted over SMS | the peer is on the local network when the payload is fixed and gone, or unreachable, when it is sent: an SMS carries the ciphertext |

Type invariants are checked in every run that passes: as `TypeOK` (`DirTypeOK` in `NodeDirectory`) where proofs use or will use
it, elsewhere as a conjunct of an invariant (`NodesInOrder`, `Accounting`, `SerialIsSafe`,
`ArrivalsOnceAndInTime`, `InBuffer`, `OneRequest`).

**Why the bounds are enough.** Messages do not share state except the maps of
peers, which any step of the environment may change, so one message meets every
interleaving that matters. A phone-number chat is the richer one (two sources of
the phone), and the seven node rows are the ones the writers of `dht_nodes`
store: an address with and without a phone, no route at all, a bad key, a phone
that is null. One retry reaches both sides of the
limit, one fault both repeats an attempt and hides a result, and `MaxTime` 2 lets
a message be scheduled and become late. Two generations of the node are the
least in which one disturbs another, two downloads likewise. In `transfer` the
chunks of one file are independent (each has its own bit, its own place in the
file and its own datagrams), so one chunk shows what two calls do to each other;
with two passes and one hit, a call must survive a loss, and a call whose session
was replaced may give up. Three blocks with `Plausible` 1 leave an
implausible, a plausible but partial, and a whole file. In `directory` the node
moves once, so that every writer can be late with the addresses of the earlier place,
and the addition can fall anywhere among the other writers. In `calls` two
activities are a call of both sides, or one that starts when the other has ended and
meets its signals; two copies repeat one candidate twice, or a candidate and a
description. Larger instances passed as well but take too long to be repeated: 3
activities without copies (2 806 255 states), 2 activities with 2 candidates and a
copy (8 218 237 states). In `local_model` two inits are the least that can disturb each other, and a
prompt can be shorter than, fill, or exceed the context. In `kv_cache` five
cells are what a window of 2 with two sequences needs, three ubatches of one token make the
roll-back order matter, and the cache fills up without a window. In `compute`
three threads are the least in which two can leave the barrier at different times
while one comes back to it, and the graphs have products cut by thread and by
size, and empty nodes; the second graph meets workers left in any state by the
first. In `graph_plan` three nodes allow a view or a second reader between an operand and the
node that might take its place; the nodes may also be spread over several graphs. In
`server` one call is enough to spoil the session of the other. What is proved in section 5 does not depend on any of these bounds.

Deadlock is checked in the runs of `MessageDelivery` (discovery never stops), of
`NodeDirectory` (announcements never stop) and of `ThreadPool` (a pool can always
be used, freed or made again). The other systems really stop: all calls have
ended, the process is gone, or a bound is used up.

## 4. Fairness

- `MessageDelivery`: weak fairness of each step of a coroutine (it runs on
  `Dispatchers.IO` and always resumes), of time, and of coming back online;
  strong fairness of `DoWork`, because WorkManager starts work whose constraint
  holds again and again. None of faults, deaths, discovery or the user.
- `NetworkLifecycle`: weak fairness of the main thread inside `startNetwork` and
  `stopNetwork`, and of each coroutine that can take a step by itself. None of
  the user, of Android, or of the arrival of a datagram: a listener blocked in
  `receive` may stay there until its socket is closed.
- `FileTransfer`: weak fairness of the coroutine of `downloadFileP2P`, whose wait
  is bounded by ten seconds. None of the network, the seeder or the writers:
  `DownloadsEnd` holds although nothing ever arrives.

- `NodeDirectory`: weak fairness of the node's announcements and of this device's
  fetches (both are loops that repeat, with a server that is reachable again and
  again), and of the coroutines between a read and a write. None of gossip, datagrams, time or the user.
- `LocalModel`: weak fairness of the coroutines on `Dispatchers.IO`. None of the
  user or of downloads.
- `ThreadPool`: weak fairness of each thread that can take a step, as the
  scheduler gives it. None of the caller's calls, of aborts or of spurious wake-ups.

- `ServerSession`: weak fairness of the steps of a call (delays and timeouts end,
  OkHttp gives up after its timeouts, the mutex is fair), and of the page once all is
  well. `CallsEnd` holds although the page never finishes.

`CallSignaling`, `KvCache`, `ModelInstall` and `GraphAlloc` state
safety only: nothing is ever sent again in a call, and the others are sequences of
calls.

`PendingIsResolved` allows a fault because a process death really leaves a row
PENDING for ever: nothing reads such rows at the next start.

## 5. Proofs

`tlapm` on the modules `*Proofs`. The only assumptions are those the modules state about
their constants (`DeliveryConstants`, `TransferConstants`, `CallConstants` and so on):
bounds are natural numbers, null values are not members, rows have the type of rows,
there are two peers in a call, the sequence ids of the cache are finitely many. No finiteness
is assumed elsewhere. Each proof has one inductive invariant, `IInv` (`CacheInvariant` for the
cache); TLC checked it on the run's instance before it was proved.

**MessageDelivery.** `TypeCorrect`, `NoSpuriousDuplicates`, `FailedMeansUnsent`,
`JobAndRowAgree` are `Spec => []P` for the invariants of the run `delivery`, and
`SentStays` is its action property; `SentMeansCalled` (SENT only after a transport was called),
`RetryLimit` (attempts are
bounded by `MAX_RETRIES` and the faults) and `DueFirst` (no step sends before the
scheduled time) are proved only. All follow from `Invariance`, `Spec => []IInv`. None of the
properties is inductive by itself: that a message left the device at most
`1 + faults` times says nothing of where the coroutine is, and a coroutine that
is about to send must have a smaller count. `IInv` therefore has, for each
message,

- `Control`: which coroutine can exist in which state of the job (a queued or
  ended job has none, a running job is inside `performNetworkSend`);
- `Counted`: `tx` is at most an allowance that depends on the program point: none
  before the first call of a transport, one more once it returned true, one
  per fault once WorkManager repeats;
- `Recorded`: the status against the job and against the transport calls,
  including the local result that is not written yet;
- `Timely`: attempts against limit and faults, and `due` against the earliest
  start of the job and, inside an attempt, against the clock.

The step lemma treats each action for the message that acts, a frame lemma the
other messages and the steps of the environment.

**FileTransfer.** `TypeCorrect`; `SurvivesFewerHits` (the action property
`GivesUpOnlyAfterAllHits`); `Refinement`, `Spec => ImplementsDownload`. The
invariant adds to the types

- `MarkedIsWritten`: a marked chunk, and one about to be marked, is in the file.
  This is what makes `Finish` with the file a `Succeed` of `ChunkedDownload`;
- `CallControl`: the pass counter at each point of the loop, no result before
  the end;
- `Alone`: without overlap, a busy call is the only one and its session the
  registered one;
- `HitInEveryPass`: a missing chunk was hit once per finished pass, and once more
  in the current pass unless it is still under way. The second half is needed
  because a pass ends before all its losses have happened.

**NodeDirectory.** `DirTypeCorrect` and `KeysSurvive` (`KeyLostOnlyByAdding`), in `NodeProofs`,
which extends both `NetworkLifecycle` and `NodeDirectory`. That the row has a key is not inductive: a merge writes back a key it read earlier, and a list
replaces the row by one received earlier. The invariant therefore says of all four
places (the row, the server's record, a list not stored yet, a merge under way with the row it has
read) that they have a key as long as nothing was added by hand, and that
no addition is under way then. `Moves` (the n-th source address is at most n) is what
type correctness of the addresses rests on.

**NetworkLifecycle.** `TypeCorrect`, `RunningAndListening` (`RunningListens`, with its parts
`DownExplained`, `ListenerServes` and `OneGossipLife`), `PortReleased`
(`StoppedReleasesPort`). That one listener uses the socket of the field
says nothing of who may close it next. The invariant adds

- `Scopes`: scopes are numbered in order, the field holds the newest or none and never a
  cancelled one, and a listener follows its boot coroutine;
- `OneGossip`: the scope of `PeerSyncRepository` is active only until the first stop, by the
  main thread or by a boot coroutine, so it has seen one start, and that start's boot
  coroutine launches one loop unless it throws before;
- unless a start met a boot coroutine, `BootsOver` (none of an earlier scope can reach its
  catch any more) and `FlagFollows`: the flag is what was asked for last, except where the
  current boot coroutine threw; a coroutine in its catch threw by itself or is cancelled; a
  running node has an uncancelled scope;
- unless a start met anything, `ListenersOver` (no earlier listener comes to bind or close),
  `FieldIsOpen` (an open socket is the one in the field and its listener will close it) and
  `Listens` (a running node that has booted has a listener that serves or met an error).

`BootsQuiet` and `ListenersQuiet` are the lemmas behind a start: when the flag is down and the
main thread free, a coroutine that is not on its way has ended, or its scope is cancelled
before it began.

**ModelInstall.** `TypeCorrect`, `NothingLeft` (`NoGarbage`), `InstalledWhole`
(`InstalledIsWhole`) and `SuccessWhole`, which is the action property
`SuccessIsInstalled`. `Progress` says where the bytes of the only running call are at
each of its points, and `Fresh` that no name refers to a file not opened yet; the second
is what keeps a block written to one file out of another. `NoGarbage` turned out to be
inductive, and to hold for overlapping downloads too, which is how it is stated now.

**ServerSession.** `OneAtATime` (`OneRequest`) from `Turns` (who is inside holds the
mutex) and `Waiting` (the queue has those who wait, each once). `HealthyCallsSucceed`
(`HealthyNeverFails`) has the hypothesis `MaxRetries >= 2`, and TLC refutes the property
for 1: a session spoiled before all was well costs one attempt. The code has 3. `Lucky`, in
the second invariant `LInv`, says what can still be wrong at each point of a call's first
attempt and that nothing is wrong in a later one.

**LocalModel.** `OnePrompt` (`OnePromptPerContext`) holds whatever overlaps, since a context
that decoded has positions in its cache (`Spent`). `SerialSafe` (`SerialIsSafe`) needs,
while no two native calls overlap, that at most one is under way (`Alone`), that what an
init has freed stays cleared until it makes it anew (`Cleared`), and that who
decodes has seen the globals set (`Ready`).

**KvCache.** `CellsAccounted` (`Accounting`), `RefusedCallRestores` (`RefusalRestores`) and
`VisibleNeverLost` (`VisibleKept`), in `LocalModelProofs`, for any sizes of cache, batch and
ubatch and any windows; `RefusalRestores` says itself that it is
about caches without one. `CacheInvariant` adds to `Accounting` that every ubatch still to be computed has a
slot of as many different cells as it has tokens and, without a window, that these cells
are free and no two slots share one. Without this the second ubatch could overwrite the first.
The steps of the argument:

- *Counting.* `Assign` keeps `seq_pos` equal to the numbers of cells, since the cells it changes are
  counted before and after (`AssignSound`); every edit is an `Assign` and a change of head
  or shift. `seq_pos_max` then is the maximum of the positions in the cells.
- *Folds.* `FoldLeft` and `FoldFunction` of the community modules are recursive functions,
  given by `CHOOSE`. That such a function exists has to be proved for each fold: by
  induction on the naturals for those over sequences, and by well-founded induction on finite sets
  for `Purge`, which visits the sequences in an arbitrary order. Induction on a set
  `{m \in Nat : ...}` needs no theorem with an operator parameter.
- *Rehearsal.* `Rehearsed` says of the copies saved so far that they are a `Chain`: the cells
  differ between one copy and the next in the slot saved with the copy only. Restoring
  backwards along the chain therefore ends in the cells of the start. With a window the
  purge touches cells outside the slot and the chain breaks.
- *Nothing to purge.* Without a window a slot has free cells only, so nothing is overwritten,
  `Overwritten` is -1 for all sequences, and `ApplyUbatch` changes the slot alone.
- *Same course.* With a window the slots were found on the rehearsed cells, while the
  ubatches are placed in the rolled-back ones, which have lost what the rehearsal purged.
  `WindowInvariant` adds to `CacheInvariant` that the cells are on a `Course`, the
  sequence of cells that the rehearsal went through (`Replays`): a cell that a ubatch has
  filled since is as the course has it now; another one is as it was when the rehearsal
  first used it or, if it does not any more, as the rehearsal left it, for the roll-back
  leaves in a cell what the first copy with it has (`RollBackFirst`). The next ubatch
  then overwrites the same positions as in the rehearsal, and what the course has in
  a cell later is not purged now (`LaterKept`, `FollowStep`). TLC cannot evaluate this
  invariant, which asks for a course, and has checked `VisibleKept` itself.
- *Visible.* A slot takes only cells that `CanUse` allows, so what is overwritten lies below every
  visible position of its sequence (`OverwrittenMasked`), on the course. For the last
  ubatch this carries over to the real cells if `seq_pos_max` is not lower there than on
  the course: the cell with the highest position of a sequence is visible, hence not
  purged, unless the window is 1, with which nothing is visible (`LastVisible`).

**CallSignaling.** `InTimeAndOnce` (`ArrivalsOnceAndInTime`) and `OthersReachWebRTC`
(`OnlyOvertakenLost`). One arrival is added twice only if two handlers hold it or if one
adds what the other has queued, so the invariant follows it from the activity that
gathered the candidate:

- `Token`: a candidate with the number of its copy is in the outbox of its maker, on its way,
  or taken by one handler, never in two of these; both numbers were given out before
  (`Known`). The second part is why
  a new candidate is new, also in a later activity of the same device, and why a copy is
  (`Novel`). `ArriveFacts` says what an arrival does to the network: the datagram goes, and at
  most a novel one comes, so a duplicating network still hands no arrival to two handlers;
- `Handled`: what is queued, in the snapshot or added was handled, and what a handler
  still holds was not;
- `Draining`: a drain is always the next callback, so nothing comes between the snapshot
  and the clear but handlers, and the snapshot has nothing that was added;
- `Early`: before the remote description the flag is down and only the own offer is due;
- `Kept`: every handled candidate is added, in the snapshot, queued before the flag is
  set, or overtaken.

**ThreadPool.** `InOrder` (`NodesInOrder`), `WholeOrAborted` (`AllOrNothing`) and `QuietPool`
(`QuietBetweenGraphs`), for any number of threads and any graphs. None is inductive: each
rests on what the barrier separates. The invariant `IInv` says that the pool is in one of
three situations,

- `Gap(k)`: the barrier before node k was passed (or k = 0 and some have not seen the
  graph). The nodes before k are complete and none from k on is begun. A thread can only be
  at an empty node, at the first node that is not empty, or, if the graph ends or is
  aborted there, at the end;
- `Mid(k)`: node k is computed. `Handed` accounts for each chunk below the shared counter:
  it is computed, or exactly one thread holds it. A thread that is past the node has found
  the counter at the end, or there were no more chunks than threads;
- `Finished`: all threads are outside the graph, or still in a barrier that was passed
  (`Stale`), and the result is whole or cut at the mark;

and in each of them `Counted` ties `n_barrier` to the threads that have arrived and not left,
and `Others` keeps a worker that has not seen the graph, or has no part in it, outside.
Two lemmas carry the argument. `Add` finds the counter at n - 1 only when all
other threads of the graph spin (a cardinality argument on `Arrived`). `Meet`: when all
threads of the graph are in the barrier, they are there for the same reason and at the same
node (`OneNext`), so passing it leads from `Gap` to `Mid` (counter set), from `Mid` to the next
`Gap`, or to `Finished`, for all of them.

**Only model-checked.** Liveness (`PendingIsResolved`, `JobsEnd`, `DownloadsEnd`,
`StopEndsListeners`, `Converges`, `QuestionsEnd`, `CallsReturn`, `CallsEnd`), which the prover
does not reach; and the invariants of `GraphAlloc`.

## 6. Seen while modelling, not covered by a run

- A peer that has a stored phone and was not seen by NSD gets plain text over
  UDP (MR:119), although SW:46 says the message is encrypted.
- `sendAsSms` swallows its exception and the caller returns true (IR:372, 388):
  SENT may be stored for an SMS that was never handed over.
  `SentWasHandedOver` shows only that a transport was called.
- FAILED is written after each unsuccessful attempt while a retry is still due
  (MR:133).
- The worker looks for the phone in the node table only (SW:43); `sendText` also
  accepts a chat id that is a number (MR:41). A scheduled message to such a
  chat has no SMS fallback.
- `PeerSyncRepository.stop` cancels the only scope the class has (PS:42 and 13):
  after a stop and a start there is no gossip.
- The boot coroutine of an old generation, cancelled in the server sync, calls
  `stopNetwork` in its catch block (IR:95); if a new generation was started meanwhile,
  that one is stopped, while the notification (`P2PService.kt`:57) says the node is
  active. `DownExplained` shows that this and its own failed boot are the only ways.
- A boot that fails stops the node for good while the service stays up (IR:95), and a
  listener that meets an error is not replaced while the node runs (IR:141): the
  `failed` and `broken` of `RunningListens`. Nothing starts either again before
  the next `startNetwork`, which the flag refuses in the second case.
- Where `renameTo` fails, a death during the copy can leave a partial file that
  `isInstalled` accepts (`NativeAi.kt`:50); `InstalledIsWhole` is therefore
  stated for devices on which renaming works.
- `ChatViewModel.mergeMessages` compares texts although a system SMS carries the
  prefix "[P2P] ", so it never recognises a duplicate (174-176).
- `scheduleMessageWork` compares `scheduledTime` with the clock a second time
  (SM:24). If it passes between the two, no job is enqueued and nobody sends: the
  row stays SCHEDULED.
- A listener's finally block closes the socket in the shared field (IR:144), which
  may be that of the next generation's listener. `ListenerServes` is stated for
  starts that find no coroutine of an earlier generation on its way.
- The output file of a download is opened "rw" and not truncated (FT:162): a
  shorter file keeps the tail of an older one of that name.
- `isDownloading` lives in the view model while the blocking download outlives it
  (`AiChatViewModel.kt`:91): a reopened screen can start a second download on the
  same temporary file. `SuccessIsInstalled` is stated for downloads that do not overlap.
- Opening the chat refreshes twice (`AiChatViewModel.kt`:37, `AiChatScreen.kt`:50),
  so two `init`s can run at once; one can lose the other's objects, or use a model
  that the other has freed (`native-lib.cpp`:28). `SerialIsSafe` is stated for
  native calls that do not overlap.
- `prompt` never clears the cache and numbers its positions from 0
  (`native-lib.cpp`:108), so every prompt after the first is refused, as
  `OnePromptPerContext` shows. A prompt longer than `n_batch` ends the process
  (`llama-context.cpp`:1538).
- With a sliding window, the rehearsal of several ubatches purges cells outside the
  slots it saves, and the roll-back does not bring them back (`llama-kv-cache.cpp`:608).
  `llama.h`:933 says that a call which returns 1 restores the memory. With a window of 2, seven
  cells and three sequences that share a prompt of seven tokens, TLC finds a call that
  returns 1 and has lost positions of another sequence. `VisibleKept` and
  `RefusalRestores` are stated accordingly. The model of the app has no such window.
- `pos_div` adds old minus new to the queued shift (`llama-kv-cells.h`:451), the
  opposite sign of `pos_add`, although the array is said to accumulate the shifts
  applied to `pos` (469). The app never divides positions.
- `ggml_gallocr_needs_realloc` (`ggml-alloc.c`:1012) compares counts and sizes only,
  while `ggml-alloc.h`:70 promises reallocation when the topology changes: after a
  chain of two nodes, a graph in which both nodes read the input is placed so that
  the first overwrites it. `ReadsIntact` is stated for graphs connected as the planned one.
- `ggml-alloc.h`:44 says outputs are never overwritten. The flag is looked at on the
  tensor that is freed, not on its views: the source of a view that is an output is
  released after its last reader. `OutputsKept` is stated for outputs that are no views.
- `ggml-backend.cpp`:1433 ignores the result of `ggml_gallocr_reserve_n`. Reserve has
  stored the new plan before the buffer failed, so the `alloc_graph` that follows
  places tensors in a buffer that is NULL, and "failed to allocate graph" (1435) is
  not reached. `InBuffer` says that it takes two failed allocations in a row.
- A tensor of size 0 may be released inside a free block; `insert_block` then adds an
  empty block there, and the list is no longer sorted (`ggml-alloc.c`:140).
- A merge of gossip writes back the key, and compares with the time, of a row read
  earlier (PS:139): it can replace a newer row by an older one until the next
  fetch. `Converges` holds all the same.
- Behind a NAT the row of a node changes for ever between the source of its datagrams
  (IR:165) and the address it announces (IR:275), of which only the first can be reached
  from outside; logging in announces "0.0.0.0" (`AuthManager.kt`:119) until the next
  sync. `Converges` allows each address of the present place and no earlier one.
- A server's list may hold an entry without a key, which is stored blank (IR:248). The
  server of the model returns what was announced.
- Adding a node by hand replaces a row that was fetched a moment before by a blank
  one (`SettingsScreen.kt`:281).
- In a call both sides offer; unless one offer arrives before the other side has
  set its own, both are refused and nobody answers. Candidates of an earlier
  activity are accepted by a later one, and a candidate whose datagram is
  duplicated is added twice (CA:310). A candidate whose handler is overtaken by
  the drain is lost (CA:318). HANGUP is sent by a coroutine of the activity that is
  being finished, and may be cancelled with it (CA:132).
- A repeated datagram is stored as a second message, since the receiver makes the
  id (MR:146).
- `checkProtection` accepts a cookie that the server no longer does
  (`WebViewApiClient.kt`:106), and a cancelled call resets `isReady` for the others
  (161). Each costs attempts, never all of them: `HealthyNeverFails`.
- In `ggml_gallocr_allocate_node` the branch that reuses the source of a view
  (`ggml-alloc.c`:661) is not reached: a view is never allocated by the allocator,
  and the test at 643 comes first.
- `best_fit_size` is reset for each chunk (`ggml-alloc.c`:217), so the block taken is
  the best of the last chunk that has one, not the best of all.
- An older plan is used for a graph with smaller sizes. If two tensors had one
  layout in the plan and have different ones now, an operation that was planned in
  place may write over more than its operand; the graphs of llama.cpp change their
  sizes together, and `ReadsIntact` is stated for that.

## 7. Not modelled, and the plan

Next: proofs for `GraphAlloc` (lemmas on `FreeBlocks`: what is handed
out was free).

Left out, and why:

- *Incoming messages*: `handleIncoming` and `SmsReceiver` store one row per arrival
  and keep no state between two; there is no sequence of steps to go wrong beyond
  the duplicate named above.
- *Contacts, phone numbers, chat view, SMS codes*: pure functions on strings, and
  presentation.
- *Own row of the directory*: written at login and by the server sync, and its extra columns are
  read by nobody.
- *Key generation and Tink*: a library.
- *NSD registration and the five-minute sync loop*: no shared state beyond what the
  environment actions of the modules do.
- *Several back ends in one graph*: the build computes on the CPU only, so the
  scheduler neither splits a graph nor copies between buffers; the linear
  `ggml_tallocr` and `ggml_backend_alloc_ctx_tensors` hand out memory in sequence, once.
- *llama.cpp besides its cache, thread pool and graph allocator*: tensor arithmetic, quantisation,
  GPU back ends the build does not compile, tokenizers and model graphs. They are sequential computations on
  numbers; TLC has nothing to explore there.
- *Screens, games, player, file manager, Termux, `bypass/`*: presentation or
  vendored.
