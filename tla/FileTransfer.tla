----------------------------- MODULE FileTransfer -----------------------------
(***************************************************************************)
(* FileTransferWorker: a file is seeded on one device and fetched chunk by *)
(* chunk from another, over datagrams that may be lost, duplicated and     *)
(* reordered. The downloader is the coroutine of downloadFileP2P; every    *)
(* FILE_CHUNK_DATA that arrives gets a coroutine of its own, which finds   *)
(* the session, writes the file and marks the chunk.                       *)
(*                                                                         *)
(* All calls here are for one fileId and one file name.                    *)
(***************************************************************************)
EXTENDS Integers

CONSTANTS
    Downloads,     \* calls of downloadFileP2P
    NoDownload,    \* activeDownloads holds no session
    TotalChunks,   \* the caller's totalChunks
    SeededChunks,  \* chunks the seeded file really has
    Attempts,      \* passes over the missing chunks (3 in the code)
    MaxHits        \* bound on the losses that hit one chunk

ASSUME TransferConstants ==
    /\ NoDownload \notin Downloads
    /\ TotalChunks \in Nat
    /\ SeededChunks \in Nat
    /\ Attempts \in Nat
    /\ MaxHits \in Nat

Chunks == 0 .. TotalChunks - 1

VARIABLES
    seeding,    \* seedingFiles of the other device has the file
    listening,  \* the listener is registered (release() has not been called)
    active,     \* activeDownloads[fileId]
    pc,         \* where each downloadFileP2P is
    next,       \* its index i
    attempts,   \* its counter
    received,   \* the BitSet of its session
    net,        \* datagrams under way
    writers,    \* coroutines of handleChunkData
    file,       \* the output file, by chunk
    result,     \* what each call returned, or "none"
    hits,       \* ghost: losses and delays that hit a chunk since the last start
    overlap     \* ghost: a call started while another was under way

calls == <<active, pc, next, attempts, result>>
vars  == <<seeding, listening, calls, received, net, writers, file, hits, overlap>>

Datagrams == [kind : {"REQ", "DATA"}, chunk : Chunks]
Writers   == [session : Downloads, chunk : Chunks, at : {"write", "mark"}]

TypeOK ==
    /\ seeding \in BOOLEAN
    /\ listening \in BOOLEAN
    /\ active \in Downloads \cup {NoDownload}
    /\ pc \in [Downloads -> {"idle", "loop", "ask", "wait", "finish", "done"}]
    /\ next \in [Downloads -> 0 .. TotalChunks]
    /\ attempts \in [Downloads -> 0 .. Attempts]
    /\ received \in [Downloads -> SUBSET Chunks]
    /\ net \subseteq Datagrams
    /\ writers \subseteq Writers
    /\ file \in [Chunks -> {"absent", "torn", "new"}]
    /\ result \in [Downloads -> {"none", "file", "null"}]
    /\ hits \in [Chunks -> Nat]
    /\ overlap \in BOOLEAN

\* The output file holds no bytes of the seeded file: it is not there, or left
\* over from an older download.
Init ==
    /\ seeding = FALSE
    /\ listening = TRUE
    /\ active = NoDownload
    /\ pc = [d \in Downloads |-> "idle"]
    /\ next = [d \in Downloads |-> 0]
    /\ attempts = [d \in Downloads |-> 0]
    /\ received = [d \in Downloads |-> {}]
    /\ net = {}
    /\ writers = {}
    /\ file = [c \in Chunks |-> "absent"]
    /\ result = [d \in Downloads |-> "none"]
    /\ hits = [c \in Chunks |-> 0]
    /\ overlap = FALSE

-----------------------------------------------------------------------------
(* The network: a datagram may be delivered more than once, or not at all. *)

Req(c)  == [kind |-> "REQ", chunk |-> c]
Data(c) == [kind |-> "DATA", chunk |-> c]

\* Receiving m takes it off the network, or leaves a copy of it there.
After(m) == {net \ {m}, net}

Hit(c) == hits[c] < MaxHits /\ hits' = [hits EXCEPT ![c] = @ + 1]

Lose(m) ==
    /\ m \in net
    /\ net' = net \ {m}
    /\ Hit(m.chunk)
    /\ UNCHANGED <<seeding, listening, calls, received, writers, file, overlap>>

-----------------------------------------------------------------------------
(* The seeding device.                                                     *)

AddFileToSeeding ==
    /\ ~seeding
    /\ seeding' = TRUE
    /\ UNCHANGED <<listening, calls, received, net, writers, file, hits, overlap>>

\* seedingFiles lives in memory only.
SeederDeath ==
    /\ seeding
    /\ seeding' = FALSE
    /\ UNCHANGED <<listening, calls, received, net, writers, file, hits, overlap>>

\* A chunk of a seeded file is read and sent back.
HandleChunkRequest(c) ==
    /\ Req(c) \in net
    /\ seeding /\ c < SeededChunks
    /\ \E rest \in After(Req(c)) : net' = rest \cup {Data(c)}
    /\ UNCHANGED <<seeding, listening, calls, received, writers, file, hits, overlap>>

\* An unknown file, or an offset beyond its end: no answer.
RefuseChunkRequest(c) ==
    /\ Req(c) \in net
    /\ ~seeding \/ c >= SeededChunks
    /\ net' = net \ {Req(c)}
    /\ Hit(c)
    /\ UNCHANGED <<seeding, listening, calls, received, writers, file, overlap>>

-----------------------------------------------------------------------------
(* downloadFileP2P.                                                        *)

\* The session is registered over whatever session was there.
DownloadFileP2P(d) ==
    /\ pc[d] = "idle"
    /\ pc' = [pc EXCEPT ![d] = "loop"]
    /\ active' = d
    /\ overlap' = (overlap \/ \E e \in Downloads : pc[e] \notin {"idle", "done"})
    /\ hits' = [c \in Chunks |-> 0]
    /\ UNCHANGED <<seeding, listening, next, attempts, received, net, writers,
                   file, result>>

\* Mutant: one pass too few.
LoopHeadOneLess(d) ==
    /\ pc[d] = "loop"
    /\ pc' = [pc EXCEPT ![d] =
                 IF received[d] # Chunks /\ attempts[d] < Attempts - 1
                 THEN "ask" ELSE "finish"]
    /\ next' = [next EXCEPT ![d] = 0]
    /\ UNCHANGED <<seeding, listening, active, attempts, received, net, writers,
                   file, result, hits, overlap>>

\* while (session.getRemainingChunks() > 0 && attempts < 3)
LoopHead(d) ==
    /\ pc[d] = "loop"
    /\ pc' = [pc EXCEPT ![d] =
                 IF received[d] # Chunks /\ attempts[d] < Attempts
                 THEN "ask" ELSE "finish"]
    /\ next' = [next EXCEPT ![d] = 0]
    /\ UNCHANGED <<seeding, listening, active, attempts, received, net, writers,
                   file, result, hits, overlap>>

\* Mutant: for (i in 0..totalChunks).
AskedAllOneMore(i) == i = TotalChunks + 1

\* for (i in 0 until totalChunks) is over.
AskedAll(i) == i = TotalChunks

\* A chunk that is there is skipped; the others are asked for. A failure of
\* sendSignaling is not looked at.
Ask(d) ==
    LET i == next[d]
    IN  /\ pc[d] = "ask"
        /\ ~AskedAll(i)
        /\ next' = [next EXCEPT ![d] = i + 1]
        /\ \/ i \in received[d] /\ UNCHANGED <<net, hits>>
           \/ i \notin received[d] /\ net' = net \cup {Req(i)} /\ UNCHANGED hits
           \/ i \notin received[d] /\ UNCHANGED net /\ Hit(i)
        /\ UNCHANGED <<seeding, listening, active, pc, attempts, received,
                       writers, file, result, overlap>>

AskDone(d) ==
    /\ pc[d] = "ask"
    /\ AskedAll(next[d])
    /\ pc' = [pc EXCEPT ![d] = "wait"]
    /\ UNCHANGED <<seeding, listening, active, next, attempts, received, net,
                   writers, file, result, hits, overlap>>

\* The request for c or the answer is under way, or c is being written.
UnderWay(d, c) ==
    \/ Req(c) \in net \/ Data(c) \in net
    \/ \E w \in writers : w.session = d /\ w.chunk = c

\* Mutant: attempts++ is forgotten.
WaitForCompletionUncounted(d) ==
    /\ pc[d] = "wait"
    /\ pc' = [pc EXCEPT ![d] = "loop"]
    /\ UNCHANGED <<hits, seeding, listening, active, next, attempts, received,
                   net, writers, file, result, overlap>>

\* latch.await returns because everything is there or because ten seconds are
\* over, which is one more hit for every chunk that is still under way.
WaitForCompletion(d) ==
    /\ pc[d] = "wait"
    /\ pc' = [pc EXCEPT ![d] = "loop"]
    /\ attempts' = [attempts EXCEPT ![d] = @ + 1]
    /\ hits' = [c \in Chunks |-> IF c \notin received[d] /\ UnderWay(d, c)
                                 THEN hits[c] + 1 ELSE hits[c]]
    /\ UNCHANGED <<seeding, listening, active, next, received, net, writers,
                   file, result, overlap>>

\* The result, and finally activeDownloads.remove(fileId), which removes the
\* session of another call as well.
Finish(d) ==
    /\ pc[d] = "finish"
    /\ pc' = [pc EXCEPT ![d] = "done"]
    /\ result' = [result EXCEPT ![d] = IF received[d] = Chunks THEN "file"
                                       ELSE "null"]
    /\ active' = NoDownload
    /\ UNCHANGED <<seeding, listening, next, attempts, received, net, writers,
                   file, hits, overlap>>

-----------------------------------------------------------------------------
(* handleChunkData and DownloadSession.                                    *)

Writer(d, c, at) == [session |-> d, chunk |-> c, at |-> at]

\* The session is looked up when the coroutine starts and kept from then on.
HandleChunkData(c) ==
    /\ Data(c) \in net
    /\ listening /\ active # NoDownload
    /\ net' \in After(Data(c))
    /\ writers' = writers \cup {Writer(active, c, "write")}
    /\ UNCHANGED <<seeding, listening, calls, received, file, hits, overlap>>

\* No session, or nobody listens.
IgnoreChunkData(c) ==
    /\ Data(c) \in net
    /\ ~listening \/ active = NoDownload
    /\ net' = net \ {Data(c)}
    /\ Hit(c)
    /\ UNCHANGED <<seeding, listening, calls, received, writers, file, overlap>>

\* Mutant: the chunk is marked before it is written.
WriteChunkLate(w) ==
    /\ w.at = "write"
    /\ received' = [received EXCEPT ![w.session] = @ \cup {w.chunk}]
    /\ writers' = (writers \ {w}) \cup {Writer(w.session, w.chunk, "mark")}
    /\ UNCHANGED <<seeding, listening, calls, file, net, hits, overlap>>

\* raf.seek(...); raf.write(bytes)
WriteChunk(w) ==
    /\ w.at = "write"
    /\ file' = [file EXCEPT ![w.chunk] = "new"]
    /\ writers' = (writers \ {w}) \cup {Writer(w.session, w.chunk, "mark")}
    /\ UNCHANGED <<seeding, listening, calls, received, net, hits, overlap>>

\* The write fails, perhaps halfway; bytes that are there already stay right.
WriteFails(w) ==
    /\ w.at = "write"
    /\ \E torn \in BOOLEAN :
          file' = IF torn /\ file[w.chunk] # "new"
                  THEN [file EXCEPT ![w.chunk] = "torn"] ELSE file
    /\ writers' = writers \ {w}
    /\ Hit(w.chunk)
    /\ UNCHANGED <<seeding, listening, calls, received, net, overlap>>

\* if (index < totalChunks && ...)
InRange(c) == c < TotalChunks

MarkChunkReceived(w) ==
    /\ w.at = "mark"
    /\ received' = IF InRange(w.chunk)
                   THEN [received EXCEPT ![w.session] = @ \cup {w.chunk}]
                   ELSE received
    /\ writers' = writers \ {w}
    /\ UNCHANGED <<seeding, listening, calls, net, file, hits, overlap>>

\* release(): coroutines of handleChunkData that run already are not stopped.
Release ==
    /\ listening
    /\ listening' = FALSE
    /\ UNCHANGED <<seeding, calls, received, net, writers, file, hits, overlap>>

Next ==
    \/ \E m \in net : Lose(m)
    \/ AddFileToSeeding
    \/ SeederDeath
    \/ Release
    \/ \E c \in Chunks : \/ HandleChunkRequest(c)
                         \/ RefuseChunkRequest(c)
                         \/ HandleChunkData(c)
                         \/ IgnoreChunkData(c)
    \/ \E d \in Downloads : \/ DownloadFileP2P(d)
                            \/ LoopHead(d)
                            \/ Ask(d)
                            \/ AskDone(d)
                            \/ WaitForCompletion(d)
                            \/ Finish(d)
    \/ \E w \in writers : WriteChunk(w) \/ WriteFails(w) \/ MarkChunkReceived(w)

Spec == Init /\ [][Next]_vars

\* The coroutine of downloadFileP2P runs, and its wait is bounded.
Fairness ==
    \A d \in Downloads : /\ WF_vars(LoopHead(d))
                         /\ WF_vars(Ask(d) \/ AskDone(d))
                         /\ WF_vars(WaitForCompletion(d))
                         /\ WF_vars(Finish(d))

FairSpec == Spec /\ Fairness

-----------------------------------------------------------------------------
(* Properties that hold.                                                   *)

Abstract == INSTANCE ChunkedDownload
            WITH Parts <- Chunks, Calls <- Downloads,
                 stored <- {c \in Chunks : file[c] = "new"}, outcome <- result

\* Losses, duplicates, failed writes, late answers, a second call and release()
\* notwithstanding, downloadFileP2P does what ChunkedDownload says: in
\* particular it returns the file only when every chunk has been written.
ImplementsDownload == Abstract!Spec

\* A call that no other call overlaps gives up only if every chunk it misses
\* was hit in each of its passes: two losses per chunk are always survived.
GivesUpOnlyAfterAllHits ==
    [][\A d \in Downloads :
          result[d] = "none" /\ result'[d] = "null" /\ ~overlap
              => \A c \in Chunks \ received[d] : hits[c] >= Attempts]_vars

\* Every call returns, even if no datagram ever arrives.
DownloadsEnd == \A d \in Downloads : pc[d] = "loop" ~> pc[d] = "done"

=============================================================================
