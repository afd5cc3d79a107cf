-------------------------- MODULE FileTransferProofs --------------------------
(***************************************************************************)
(* Proofs about FileTransfer, for any number of calls, chunks and passes.  *)
(***************************************************************************)
EXTENDS FileTransfer, TLAPS

Busy(d) == pc[d] \notin {"idle", "done"}

\* A chunk is marked only after it was written.
MarkedIsWritten ==
    /\ \A d \in Downloads : \A c \in received[d] : file[c] = "new"
    /\ \A w \in writers : w.at = "mark" => file[w.chunk] = "new"

\* The control of a call: counters, and no result before the end.
CallControl ==
    \A d \in Downloads :
        /\ pc[d] # "done" => result[d] = "none"
        /\ pc[d] = "idle" => attempts[d] = 0
        /\ pc[d] \in {"ask", "wait"} => attempts[d] < Attempts
        /\ pc[d] = "finish" =>
              received[d] = Chunks \/ attempts[d] = Attempts

\* A call without overlap is alone, and the session is its own.
Alone ==
    ~overlap =>
        \A d \in Downloads :
            Busy(d) => /\ active = d
                       /\ \A e \in Downloads : Busy(e) => e = d

\* Has call d asked for chunk c in the current pass?
Asked(d, c) == pc[d] = "wait" \/ (pc[d] = "ask" /\ c < next[d])

\* Every finished pass has hit a chunk that is still missing; in the current
\* pass it was hit, or is under way, from the moment it was asked for.
HitInEveryPass ==
    ~overlap =>
        \A d \in Downloads : Busy(d) =>
            \A c \in Chunks \ received[d] :
                /\ hits[c] >= attempts[d]
                /\ Asked(d, c) => hits[c] > attempts[d] \/ UnderWay(d, c)

IInv == TypeOK /\ MarkedIsWritten /\ CallControl /\ Alone /\ HitInEveryPass

-----------------------------------------------------------------------------
\* The type invariant, together with the bound on the pass counter.
LEMMA TypeStep ==
    ASSUME TypeOK, CallControl, [Next]_vars PROVE TypeOK'
<1> USE TransferConstants DEF TypeOK
<1>1. CASE \E m \in net : Lose(m)
    <2> PICK m \in net : Lose(m)
        BY <1>1
    <2>1. m.chunk \in Chunks
        BY DEF Datagrams
    <2> QED
        BY <2>1 DEF Lose, Hit, calls
<1>2. CASE AddFileToSeeding
    BY <1>2 DEF AddFileToSeeding, calls
<1>3. CASE SeederDeath
    BY <1>3 DEF SeederDeath, calls
<1>4. CASE Release
    BY <1>4 DEF Release, calls
<1>5. CASE \E c \in Chunks : HandleChunkRequest(c)
    <2> PICK c \in Chunks : HandleChunkRequest(c)
        BY <1>5
    <2>1. net' \subseteq Datagrams
        BY DEF HandleChunkRequest, After, Data, Datagrams
    <2> QED
        BY <2>1 DEF HandleChunkRequest, calls
<1>6. CASE \E c \in Chunks : RefuseChunkRequest(c)
    BY <1>6 DEF RefuseChunkRequest, Hit, calls
<1>7. CASE \E c \in Chunks : HandleChunkData(c)
    <2> PICK c \in Chunks : HandleChunkData(c)
        BY <1>7
    <2>1. net' \subseteq Datagrams
        BY DEF HandleChunkData, After
    <2>2. writers' \subseteq Writers
        BY DEF HandleChunkData, Writer, Writers
    <2> QED
        BY <2>1, <2>2 DEF HandleChunkData, calls
<1>8. CASE \E c \in Chunks : IgnoreChunkData(c)
    BY <1>8 DEF IgnoreChunkData, Hit, calls
<1>9. CASE \E d \in Downloads : DownloadFileP2P(d)
    BY <1>9 DEF DownloadFileP2P
<1>10. CASE \E d \in Downloads : LoopHead(d)
    BY <1>10 DEF LoopHead
<1>11. CASE \E d \in Downloads : Ask(d)
    <2> PICK d \in Downloads : Ask(d)
        BY <1>11
    <2>1. next[d] \in Chunks /\ next[d] + 1 \in 0 .. TotalChunks
        BY DEF Ask, AskedAll, Chunks
    <2>2. net' \subseteq Datagrams
        BY <2>1 DEF Ask, Req, Datagrams
    <2>3. hits' \in [Chunks -> Nat]
        BY <2>1 DEF Ask, Hit
    <2>4. next' \in [Downloads -> 0 .. TotalChunks]
        BY <2>1 DEF Ask
    <2> QED
        BY <2>2, <2>3, <2>4 DEF Ask
<1>12. CASE \E d \in Downloads : AskDone(d)
    BY <1>12 DEF AskDone
<1>13. CASE \E d \in Downloads : WaitForCompletion(d)
    BY <1>13 DEF WaitForCompletion, CallControl
<1>14. CASE \E d \in Downloads : Finish(d)
    BY <1>14 DEF Finish
<1>15. CASE \E w \in writers : WriteChunk(w)
    <2> PICK w \in writers : WriteChunk(w)
        BY <1>15
    <2>1. w.session \in Downloads /\ w.chunk \in Chunks
        BY DEF Writers
    <2>2. writers' \subseteq Writers
        BY <2>1 DEF WriteChunk, Writer, Writers
    <2>3. file' \in [Chunks -> {"absent", "torn", "new"}]
        BY DEF WriteChunk
    <2> QED
        BY <2>2, <2>3 DEF WriteChunk, calls
<1>16. CASE \E w \in writers : WriteFails(w)
    <2> PICK w \in writers : WriteFails(w)
        BY <1>16
    <2>1. w.chunk \in Chunks
        BY DEF Writers
    <2>2. file' \in [Chunks -> {"absent", "torn", "new"}]
        BY DEF WriteFails
    <2>3. hits' \in [Chunks -> Nat]
        BY <2>1 DEF WriteFails, Hit
    <2> QED
        BY <2>2, <2>3 DEF WriteFails, calls
<1>17. CASE \E w \in writers : MarkChunkReceived(w)
    <2> PICK w \in writers : MarkChunkReceived(w)
        BY <1>17
    <2>1. w.session \in Downloads /\ w.chunk \in Chunks
        BY DEF Writers
    <2>2. received' \in [Downloads -> SUBSET Chunks]
        BY <2>1 DEF MarkChunkReceived
    <2> QED
        BY <2>2 DEF MarkChunkReceived, calls
<1>18. CASE UNCHANGED vars
    BY <1>18 DEF vars, calls
<1> QED
    BY <1>1, <1>2, <1>3, <1>4, <1>5, <1>6, <1>7, <1>8, <1>9, <1>10, <1>11, <1>12, <1>13, <1>14, <1>15, <1>16, <1>17, <1>18 DEF Next

\* Only the coroutines of handleChunkData touch the file, the marks or their
\* own set; only they and the calls touch what belongs to a call.
LEMMA StepKinds ==
    ASSUME [Next]_vars
    PROVE  /\ \/ UNCHANGED <<received, file, writers>>
              \/ \E c \in Chunks : HandleChunkData(c)
              \/ \E w \in writers : \/ WriteChunk(w)
                                    \/ WriteFails(w)
                                    \/ MarkChunkReceived(w)
           /\ \/ UNCHANGED <<calls, received, overlap>>
              \/ \E d \in Downloads : \/ DownloadFileP2P(d)
                                      \/ LoopHead(d)
                                      \/ Ask(d)
                                      \/ AskDone(d)
                                      \/ WaitForCompletion(d)
                                      \/ Finish(d)
              \/ \E w \in writers : MarkChunkReceived(w)
<1>1. CASE \E m \in net : Lose(m)
    BY <1>1 DEF Lose
<1>2. CASE AddFileToSeeding \/ SeederDeath \/ Release
    BY <1>2 DEF AddFileToSeeding, SeederDeath, Release
<1>3. CASE \E c \in Chunks : HandleChunkRequest(c) \/ RefuseChunkRequest(c)
    BY <1>3 DEF HandleChunkRequest, RefuseChunkRequest
<1>4. CASE \E c \in Chunks : HandleChunkData(c)
    BY <1>4 DEF HandleChunkData
<1>5. CASE \E c \in Chunks : IgnoreChunkData(c)
    BY <1>5 DEF IgnoreChunkData
<1>6. CASE \E d \in Downloads : \/ DownloadFileP2P(d)
                                \/ LoopHead(d)
                                \/ Ask(d)
                                \/ AskDone(d)
                                \/ WaitForCompletion(d)
                                \/ Finish(d)
    <2>1. UNCHANGED <<received, file, writers>>
        BY <1>6 DEF DownloadFileP2P, LoopHead, Ask, AskDone, WaitForCompletion,
                    Finish
    <2> QED
        BY <1>6, <2>1
<1>7. CASE \E w \in writers : WriteChunk(w) \/ WriteFails(w)
    <2>1. UNCHANGED <<calls, received, overlap>>
        BY <1>7 DEF WriteChunk, WriteFails
    <2> QED
        BY <1>7, <2>1
<1>8. CASE \E w \in writers : MarkChunkReceived(w)
    BY <1>8
<1>9. CASE UNCHANGED vars
    BY <1>9 DEF vars
<1> QED
    BY <1>1, <1>2, <1>3, <1>4, <1>5, <1>6, <1>7, <1>8, <1>9 DEF Next

\* A chunk is written before it is marked, whoever writes it.
LEMMA MarkedStep ==
    ASSUME TypeOK, MarkedIsWritten, [Next]_vars PROVE MarkedIsWritten'
<1>1. CASE UNCHANGED <<received, file, writers>>
    BY <1>1 DEF MarkedIsWritten
<1>2. CASE \E c \in Chunks : HandleChunkData(c)
    BY <1>2 DEF HandleChunkData, Writer, MarkedIsWritten
<1>3. CASE \E w \in writers : WriteChunk(w)
    <2> PICK w \in writers : WriteChunk(w)
        BY <1>3
    <2>1. w.chunk \in Chunks
        BY DEF TypeOK, Writers
    <2>2. \A c \in Chunks : file[c] = "new" => file'[c] = "new"
        BY <2>1 DEF WriteChunk, TypeOK
    <2>3. file'[w.chunk] = "new"
        BY <2>1 DEF WriteChunk, TypeOK
    <2>4. \A d \in Downloads : \A c \in received[d] : c \in Chunks
        BY DEF TypeOK
    <2>5. \A v \in writers : v.chunk \in Chunks
        BY DEF TypeOK, Writers
    <2> QED
        BY <2>2, <2>3, <2>4, <2>5 DEF WriteChunk, Writer, MarkedIsWritten
<1>4. CASE \E w \in writers : WriteFails(w)
    <2> PICK w \in writers : WriteFails(w)
        BY <1>4
    <2>1. \A c \in Chunks : file[c] = "new" => file'[c] = "new"
        BY DEF WriteFails, TypeOK
    <2>2. \A d \in Downloads : \A c \in received[d] : c \in Chunks
        BY DEF TypeOK
    <2>3. \A v \in writers : v.chunk \in Chunks
        BY DEF TypeOK, Writers
    <2> QED
        BY <2>1, <2>2, <2>3 DEF WriteFails, MarkedIsWritten
<1>5. CASE \E w \in writers : MarkChunkReceived(w)
    BY <1>5 DEF MarkChunkReceived, MarkedIsWritten, TypeOK
<1> QED
    BY <1>1, <1>2, <1>3, <1>4, <1>5, StepKinds

\* The counters and the result of a call follow its control.
LEMMA ControlStep ==
    ASSUME TypeOK, CallControl, [Next]_vars PROVE CallControl'
<1> USE DEF CallControl
<1>1. CASE UNCHANGED <<calls, received, overlap>>
    BY <1>1 DEF calls
<1>2. CASE \E d \in Downloads : DownloadFileP2P(d)
    BY <1>2 DEF DownloadFileP2P, TypeOK
<1>3. CASE \E d \in Downloads : LoopHead(d)
    BY <1>3, TransferConstants DEF LoopHead, TypeOK
<1>4. CASE \E d \in Downloads : Ask(d)
    BY <1>4 DEF Ask
<1>5. CASE \E d \in Downloads : AskDone(d)
    BY <1>5 DEF AskDone, TypeOK
<1>6. CASE \E d \in Downloads : WaitForCompletion(d)
    BY <1>6 DEF WaitForCompletion, TypeOK
<1>7. CASE \E d \in Downloads : Finish(d)
    BY <1>7 DEF Finish, TypeOK
<1>8. CASE \E w \in writers : MarkChunkReceived(w)
    <2> PICK w \in writers : MarkChunkReceived(w)
        BY <1>8
    <2>1. \A d \in Downloads : received[d] = Chunks => received'[d] = Chunks
        BY DEF MarkChunkReceived, Writers, TypeOK
    <2> QED
        BY <2>1 DEF MarkChunkReceived, calls
<1> QED
    BY <1>1, <1>2, <1>3, <1>4, <1>5, <1>6, <1>7, <1>8, StepKinds

\* Without overlap a busy call is alone and owns the session.
LEMMA AloneStep ==
    ASSUME TypeOK, Alone, [Next]_vars PROVE Alone'
<1> USE DEF TypeOK, Alone, Busy
<1>1. CASE UNCHANGED <<calls, received, overlap>>
    BY <1>1 DEF calls
<1>2. CASE \E d \in Downloads : DownloadFileP2P(d)
    <2> PICK d \in Downloads : DownloadFileP2P(d)
        BY <1>2
    <2> SUFFICES ASSUME ~overlap', NEW e \in Downloads, Busy(e)'
                 PROVE  e = d
        BY DEF DownloadFileP2P
    <2>1. ~Busy(e)
        BY DEF DownloadFileP2P
    <2> QED
        BY <2>1 DEF DownloadFileP2P
<1>3. CASE \E d \in Downloads : LoopHead(d)
    BY <1>3 DEF LoopHead
<1>4. CASE \E d \in Downloads : Ask(d)
    BY <1>4 DEF Ask
<1>5. CASE \E d \in Downloads : AskDone(d)
    BY <1>5 DEF AskDone
<1>6. CASE \E d \in Downloads : WaitForCompletion(d)
    BY <1>6 DEF WaitForCompletion
<1>7. CASE \E d \in Downloads : Finish(d)
    <2> PICK d \in Downloads : Finish(d)
        BY <1>7
    <2>1. \A e \in Downloads : Busy(e)' => Busy(e) /\ e # d
        BY DEF Finish
    <2> QED
        BY <2>1 DEF Finish
<1>8. CASE \E w \in writers : MarkChunkReceived(w)
    BY <1>8 DEF MarkChunkReceived, calls
<1> QED
    BY <1>1, <1>2, <1>3, <1>4, <1>5, <1>6, <1>7, <1>8, StepKinds

\* What call d needs to know of chunk c: see HitInEveryPass.
Covered(d, c) ==
    /\ hits[c] >= attempts[d]
    /\ Asked(d, c) => hits[c] > attempts[d] \/ UnderWay(d, c)

\* A step that leaves the control of call d alone keeps chunk c covered if it
\* hits c, or does not and keeps it under way.
LEMMA CoveredFrame ==
    ASSUME TypeOK, TypeOK', NEW d \in Downloads, NEW c \in Chunks,
           Covered(d, c),
           pc'[d] = pc[d], next'[d] = next[d], attempts'[d] = attempts[d],
           \/ hits'[c] > hits[c]
           \/ hits'[c] = hits[c] /\ (UnderWay(d, c) => UnderWay(d, c)')
    PROVE  Covered(d, c)'
<1>1. /\ hits[c] \in Nat /\ hits'[c] \in Nat /\ attempts[d] \in Int
    BY TransferConstants DEF TypeOK
<1>2. Asked(d, c)' <=> Asked(d, c)
    BY DEF Asked
<1> QED
    BY <1>1, <1>2 DEF Covered

\* A missing chunk has been hit in every pass, or is on its way.
LEMMA HitStep ==
    ASSUME TypeOK, TypeOK', CallControl, Alone, HitInEveryPass, [Next]_vars
    PROVE  HitInEveryPass'
<1> SUFFICES ASSUME ~overlap', NEW d \in Downloads, Busy(d)',
                    NEW c \in Chunks, c \notin received'[d]
             PROVE  Covered(d, c)'
    BY DEF HitInEveryPass, Covered
<1>o. ~overlap
    BY DEF Next, vars, calls, Lose, AddFileToSeeding, SeederDeath, Release,
           HandleChunkRequest, RefuseChunkRequest, HandleChunkData,
           IgnoreChunkData, DownloadFileP2P, LoopHead, Ask, AskDone,
           WaitForCompletion, Finish, WriteChunk, WriteFails, MarkChunkReceived
<1>t. hits \in [Chunks -> Nat] /\ attempts \in [Downloads -> 0 .. Attempts]
    BY DEF TypeOK
<1>b. ASSUME Busy(d), c \notin received[d] PROVE Covered(d, c) /\ active = d
    BY <1>b, <1>o DEF HitInEveryPass, Covered, Alone
<1>f. ASSUME pc' = pc, next' = next, attempts' = attempts,
             c \notin received[d],
             \/ hits'[c] > hits[c]
             \/ hits'[c] = hits[c] /\ (UnderWay(d, c) => UnderWay(d, c)')
      PROVE  Covered(d, c)'
    <2>1. Busy(d)
        BY <1>f DEF Busy
    <2> QED
        BY <1>b, <1>f, <2>1, CoveredFrame
<1>1. CASE \E m \in net : Lose(m)
    <2> PICK m \in net : Lose(m)
        BY <1>1
    <2>1. m.chunk \in Chunks /\ m.kind \in {"REQ", "DATA"}
        BY DEF TypeOK, Datagrams
    <2>2. CASE m.chunk = c
        <3>1. hits'[c] > hits[c]
            BY <2>2, <1>t DEF Lose, Hit
        <3> QED
            BY <3>1, <1>f DEF Lose, calls
    <2>3. CASE m.chunk # c
        <3>1. hits'[c] = hits[c]
            BY <2>3, <1>t DEF Lose, Hit
        <3>2. UnderWay(d, c) => UnderWay(d, c)'
            BY <2>3 DEF Lose, UnderWay, Req, Data
        <3> QED
            BY <3>1, <3>2, <1>f DEF Lose, calls
    <2> QED
        BY <2>2, <2>3
<1>2. CASE AddFileToSeeding \/ SeederDeath \/ Release \/ UNCHANGED vars
    <2>1. UnderWay(d, c)' <=> UnderWay(d, c)
        BY <1>2 DEF UnderWay, AddFileToSeeding, SeederDeath, Release, vars
    <2> QED
        BY <1>2, <1>f, <2>1 DEF AddFileToSeeding, SeederDeath, Release, vars, calls
<1>3. CASE \E x \in Chunks : HandleChunkRequest(x)
    <2> PICK x \in Chunks : HandleChunkRequest(x)
        BY <1>3
    <2>1. UnderWay(d, c) => UnderWay(d, c)'
        BY DEF HandleChunkRequest, After, UnderWay, Req, Data
    <2> QED
        BY <1>f, <2>1 DEF HandleChunkRequest, calls
<1>4. CASE \E x \in Chunks : RefuseChunkRequest(x) \/ IgnoreChunkData(x)
    <2> PICK x \in Chunks : RefuseChunkRequest(x) \/ IgnoreChunkData(x)
        BY <1>4
    <2>1. CASE x = c
        <3>1. hits'[c] > hits[c]
            BY <2>1, <1>t DEF RefuseChunkRequest, IgnoreChunkData, Hit
        <3> QED
            BY <3>1, <1>f DEF RefuseChunkRequest, IgnoreChunkData, calls
    <2>2. CASE x # c
        <3>1. hits'[c] = hits[c]
            BY <2>2, <1>t DEF RefuseChunkRequest, IgnoreChunkData, Hit
        <3>2. UnderWay(d, c) => UnderWay(d, c)'
            BY <2>2 DEF RefuseChunkRequest, IgnoreChunkData, UnderWay, Req, Data
        <3> QED
            BY <3>1, <3>2, <1>f DEF RefuseChunkRequest, IgnoreChunkData, calls
    <2> QED
        BY <2>1, <2>2
<1>5. CASE \E x \in Chunks : HandleChunkData(x)
    <2> PICK x \in Chunks : HandleChunkData(x)
        BY <1>5
    <2>1. active = d
        BY <1>b DEF HandleChunkData, calls, Busy
    <2>2. CASE x = c
        <3>1. Writer(d, c, "write") \in writers'
            BY <2>1, <2>2 DEF HandleChunkData
        <3>2. UnderWay(d, c)'
            BY <3>1 DEF UnderWay, Writer
        <3> QED
            BY <1>f, <3>2 DEF HandleChunkData, calls
    <2>3. CASE x # c
        <3>1. UnderWay(d, c) => UnderWay(d, c)'
            BY <2>3 DEF HandleChunkData, After, UnderWay, Req, Data
        <3> QED
            BY <1>f, <3>1 DEF HandleChunkData, calls
    <2> QED
        BY <2>2, <2>3
<1>6. CASE \E e \in Downloads : DownloadFileP2P(e)
    <2> PICK e \in Downloads : DownloadFileP2P(e)
        BY <1>6
    <2>1. e = d
        BY DEF DownloadFileP2P, Busy, TypeOK
    <2>2. attempts'[d] = 0 /\ hits'[c] = 0 /\ pc'[d] = "loop"
        BY <2>1 DEF DownloadFileP2P, CallControl, TypeOK
    <2> QED
        BY <2>2 DEF Covered, Asked
<1>7. CASE \E e \in Downloads : LoopHead(e)
    <2> PICK e \in Downloads : LoopHead(e)
        BY <1>7
    <2>1. e = d /\ c \notin received[d] /\ Busy(d)
        BY <1>o DEF LoopHead, Busy, Alone, TypeOK
    <2>2. Covered(d, c)
        BY <1>b, <2>1
    <2>3. ~Asked(d, c)'
        BY <2>1 DEF LoopHead, Asked, TypeOK, Chunks
    <2> QED
        BY <2>2, <2>3 DEF LoopHead, Covered
<1>8. CASE \E e \in Downloads : Ask(e)
    <2> PICK e \in Downloads : Ask(e)
        BY <1>8
    <2>1. e = d /\ c \notin received[d] /\ Busy(d)
        BY <1>o DEF Ask, Busy, Alone, TypeOK
    <2>2. Covered(d, c)
        BY <1>b, <2>1
    <2>3. attempts'[d] = attempts[d] /\ pc'[d] = "ask" /\ pc[d] = "ask"
        BY <2>1 DEF Ask
    <2>4. next'[d] = next[d] + 1 /\ next[d] \in Nat
        BY <2>1 DEF Ask, TypeOK
    <2>5. CASE next[d] = c
        <3>1. CASE net' = net \cup {Req(c)} /\ UNCHANGED hits
            <4>1. UnderWay(d, c)'
                BY <3>1 DEF UnderWay, Req
            <4> QED
                BY <4>1, <3>1, <2>2, <2>3 DEF Covered
        <3>2. CASE Hit(c)
            BY <3>2, <2>2, <2>3, <1>t DEF Hit, Covered
        <3> QED
            BY <3>1, <3>2, <2>1, <2>5 DEF Ask
    <2>6. CASE next[d] # c
        <3>1. hits'[c] = hits[c] /\ net \subseteq net' /\ writers' = writers
            BY <2>1, <2>6, <1>t DEF Ask, Hit
        <3>2. UnderWay(d, c) => UnderWay(d, c)'
            BY <3>1 DEF UnderWay, Req, Data
        <3>3. Asked(d, c)' => Asked(d, c)
            BY <2>3, <2>4, <2>6 DEF Asked, Chunks
        <3> QED
            BY <3>1, <3>2, <3>3, <2>2, <2>3 DEF Covered
    <2> QED
        BY <2>5, <2>6
<1>9. CASE \E e \in Downloads : AskDone(e)
    <2> PICK e \in Downloads : AskDone(e)
        BY <1>9
    <2>1. e = d /\ c \notin received[d] /\ Busy(d)
        BY <1>o DEF AskDone, Busy, Alone, TypeOK
    <2>2. Covered(d, c)
        BY <1>b, <2>1
    <2>3. Asked(d, c)
        BY <2>1, TransferConstants DEF AskDone, AskedAll, Asked, Chunks
    <2>4. UnderWay(d, c)' <=> UnderWay(d, c)
        BY DEF AskDone, UnderWay
    <2> QED
        BY <2>2, <2>3, <2>4 DEF AskDone, Covered
<1>10. CASE \E e \in Downloads : WaitForCompletion(e)
    <2> PICK e \in Downloads : WaitForCompletion(e)
        BY <1>10
    <2>1. e = d /\ c \notin received[d] /\ Busy(d)
        BY <1>o DEF WaitForCompletion, Busy, Alone, TypeOK
    <2>2. Covered(d, c) /\ Asked(d, c)
        BY <1>b, <2>1 DEF WaitForCompletion, Asked
    <2>3. attempts'[d] = attempts[d] + 1 /\ ~Asked(d, c)'
        BY <2>1, <1>t DEF WaitForCompletion, Asked, TypeOK
    <2>4. hits'[c] = IF UnderWay(d, c) THEN hits[c] + 1 ELSE hits[c]
        BY <2>1 DEF WaitForCompletion
    <2> QED
        BY <2>2, <2>3, <2>4, <1>t DEF Covered
<1>11. CASE \E e \in Downloads : Finish(e)
    BY <1>11, <1>o DEF Finish, Busy, Alone, TypeOK
<1>12. CASE \E w \in writers : WriteChunk(w) \/ MarkChunkReceived(w)
    <2> PICK w \in writers : WriteChunk(w) \/ MarkChunkReceived(w)
        BY <1>12
    <2>1. w.session \in Downloads /\ w.chunk \in Chunks
        BY DEF TypeOK, Writers
    <2>t. received \in [Downloads -> SUBSET Chunks]
        BY DEF TypeOK
    <2>2. c \notin received[d]
        <3>1. CASE WriteChunk(w)
            BY <3>1 DEF WriteChunk
        <3>2. CASE MarkChunkReceived(w)
            BY <3>2, <2>1, <2>t DEF MarkChunkReceived
        <3> QED
            BY <3>1, <3>2
    <2>3. CASE WriteChunk(w)
        <3>1. ASSUME NEW v \in writers, v.session = d, v.chunk = c
              PROVE  UnderWay(d, c)'
            <4>1. CASE v = w
                <5>1. Writer(d, c, "mark") \in writers'
                    BY <2>3, <3>1, <4>1 DEF WriteChunk
                <5> QED
                    BY <5>1 DEF UnderWay, Writer
            <4>2. CASE v # w
                BY <2>3, <3>1, <4>2 DEF WriteChunk, UnderWay
            <4> QED
                BY <4>1, <4>2
        <3>2. UnderWay(d, c) => UnderWay(d, c)'
            BY <2>3, <3>1 DEF WriteChunk, UnderWay
        <3> QED
            BY <2>2, <2>3, <3>2, <1>f DEF WriteChunk, calls
    <2>4. CASE MarkChunkReceived(w)
        <3>1. ~(w.session = d /\ w.chunk = c)
            <4>1. InRange(w.chunk)
                BY <2>1, TransferConstants DEF InRange, Chunks
            <4> QED
                BY <2>1, <2>4, <2>t, <4>1 DEF MarkChunkReceived
        <3>2. UnderWay(d, c) => UnderWay(d, c)'
            BY <2>4, <3>1 DEF MarkChunkReceived, UnderWay
        <3> QED
            BY <2>2, <2>4, <3>2, <1>f DEF MarkChunkReceived, calls
    <2> QED
        BY <2>3, <2>4
<1>13. CASE \E w \in writers : WriteFails(w)
    <2> PICK w \in writers : WriteFails(w)
        BY <1>13
    <2>1. w.chunk \in Chunks
        BY DEF TypeOK, Writers
    <2>2. CASE w.chunk = c
        <3>1. hits'[c] > hits[c]
            BY <2>2, <1>t DEF WriteFails, Hit
        <3> QED
            BY <3>1, <1>f DEF WriteFails, calls
    <2>3. CASE w.chunk # c
        <3>1. hits'[c] = hits[c]
            BY <2>3, <1>t DEF WriteFails, Hit
        <3>2. UnderWay(d, c) => UnderWay(d, c)'
            BY <2>3 DEF WriteFails, UnderWay
        <3> QED
            BY <3>1, <3>2, <1>f DEF WriteFails, calls
    <2> QED
        BY <2>2, <2>3
<1> QED
    BY <1>1, <1>2, <1>3, <1>4, <1>5, <1>6, <1>7, <1>8, <1>9, <1>10, <1>11,
       <1>12, <1>13 DEF Next

-----------------------------------------------------------------------------
\* The initial states satisfy the invariant.
LEMMA InitIInv == Init => IInv
<1> SUFFICES ASSUME Init PROVE IInv
    OBVIOUS
<1>1. TypeOK
    <2>1. file \in [Chunks -> {"absent", "torn", "new"}]
        BY DEF Init
    <2>2. /\ next \in [Downloads -> 0 .. TotalChunks]
          /\ attempts \in [Downloads -> 0 .. Attempts]
          /\ hits \in [Chunks -> Nat]
        BY TransferConstants DEF Init
    <2>3. /\ pc \in [Downloads -> {"idle", "loop", "ask", "wait", "finish", "done"}]
          /\ result \in [Downloads -> {"none", "file", "null"}]
          /\ received \in [Downloads -> SUBSET Chunks]
        BY DEF Init
    <2>4. seeding \in BOOLEAN /\ listening \in BOOLEAN /\ overlap \in BOOLEAN
        BY DEF Init
    <2> QED
        BY <2>1, <2>2, <2>3, <2>4 DEF Init, TypeOK
<1>2. MarkedIsWritten /\ CallControl /\ Alone /\ HitInEveryPass
    BY DEF Init, MarkedIsWritten, CallControl, Alone, HitInEveryPass, Busy
<1> QED
    BY <1>1, <1>2 DEF IInv

\* Every step keeps the invariant.
LEMMA IInvStep == IInv /\ [Next]_vars => IInv'
BY TypeStep, MarkedStep, ControlStep, AloneStep, HitStep DEF IInv

\* IInv is an invariant of FileTransferWorker's protocol.
THEOREM Invariance == Spec => []IInv
<1>1. Init => IInv
    BY InitIInv
<1>2. IInv /\ [Next]_vars => IInv'
    BY IInvStep
<1> QED
    BY <1>1, <1>2, PTL DEF Spec

\* The type invariant of FileTransfer holds for any number of calls and chunks.
THEOREM TypeCorrect == Spec => []TypeOK
<1>1. IInv => TypeOK
    BY DEF IInv
<1> QED
    BY <1>1, Invariance, PTL

\* downloadFileP2P gives up only when every missing chunk was hit in every one
\* of its passes, whatever the number of chunks and passes.
THEOREM SurvivesFewerHits == Spec => GivesUpOnlyAfterAllHits
<1>1. IInv /\ [Next]_vars =>
        [\A d \in Downloads :
            result[d] = "none" /\ result'[d] = "null" /\ ~overlap
                => \A c \in Chunks \ received[d] : hits[c] >= Attempts]_vars
    <2> SUFFICES ASSUME IInv, Next, NEW d \in Downloads,
                        result[d] = "none", result'[d] = "null", ~overlap,
                        NEW c \in Chunks \ received[d]
                 PROVE  hits[c] >= Attempts
        OBVIOUS
    <2>1. Finish(d)
        BY DEF Next, calls, Lose, AddFileToSeeding, SeederDeath, Release,
               HandleChunkRequest, RefuseChunkRequest, HandleChunkData,
               IgnoreChunkData, DownloadFileP2P, LoopHead, Ask, AskDone,
               WaitForCompletion, Finish, WriteChunk, WriteFails,
               MarkChunkReceived, IInv, TypeOK
    <2>2. pc[d] = "finish" /\ received[d] # Chunks
        BY <2>1 DEF Finish, IInv, TypeOK
    <2>3. attempts[d] = Attempts
        BY <2>2 DEF IInv, CallControl
    <2>4. hits[c] >= attempts[d]
        BY <2>2 DEF IInv, HitInEveryPass, Busy
    <2> QED
        BY <2>3, <2>4
<1> QED
    BY <1>1, Invariance, PTL DEF Spec, GivesUpOnlyAfterAllHits

\* The protocol implements ChunkedDownload: a call returns the file only when
\* all of it has been written, and what is written stays written.
THEOREM Refinement == Spec => ImplementsDownload
<1> DEFINE Stored == {c \in Chunks : file[c] = "new"}
<1>1. Init => Abstract!Init
    <2> SUFFICES ASSUME Init PROVE Stored = {}
        BY DEF Init, Abstract!Init
    <2> QED
        BY DEF Init
<1>2. IInv /\ [Next]_vars => [Abstract!Next]_<<Stored, result>>
    <2> SUFFICES ASSUME IInv, [Next]_vars
                 PROVE  [Abstract!Next]_<<Stored, result>>
        OBVIOUS
    <2>1. CASE \E d \in Downloads : Finish(d)
        <3> PICK d \in Downloads : Finish(d)
            BY <2>1
        <3>1. result[d] = "none" /\ file' = file
            BY DEF Finish, IInv, CallControl
        <3>2. CASE received[d] = Chunks
            <4>1. Stored = Chunks
                BY <3>2 DEF IInv, MarkedIsWritten
            <4>2. Abstract!Succeed(d)
                BY <3>1, <3>2, <4>1 DEF Finish, Abstract!Succeed
            <4> QED
                BY <4>2 DEF Abstract!Next
        <3>3. CASE received[d] # Chunks
            <4>1. Abstract!GiveUp(d)
                BY <3>1, <3>3 DEF Finish, Abstract!GiveUp
            <4> QED
                BY <4>1 DEF Abstract!Next
        <3> QED
            BY <3>2, <3>3
    <2>2. CASE \E w \in writers : WriteChunk(w)
        <3> PICK w \in writers : WriteChunk(w)
            BY <2>2
        <3>1. w.chunk \in Chunks
            BY DEF IInv, TypeOK, Writers
        <3>2. Stored' = Stored \cup {w.chunk} /\ result' = result
            BY <3>1 DEF WriteChunk, calls, IInv, TypeOK
        <3>3. Abstract!Store(w.chunk)
            BY <3>2 DEF Abstract!Store
        <3> QED
            BY <3>1, <3>3 DEF Abstract!Next
    <2>3. CASE \E w \in writers : WriteFails(w)
        <3> PICK w \in writers : WriteFails(w)
            BY <2>3
        <3>1. w.chunk \in Chunks /\ result' = result
            BY DEF WriteFails, calls, IInv, TypeOK, Writers
        <3>2. Stored' = Stored
            BY <3>1 DEF WriteFails, IInv, TypeOK
        <3> QED
            BY <3>1, <3>2
    <2>4. CASE UNCHANGED <<file, result>>
        BY <2>4
    <2> QED
        BY <2>1, <2>2, <2>3, <2>4
           DEF Next, vars, calls, Lose, AddFileToSeeding, SeederDeath, Release,
               HandleChunkRequest, RefuseChunkRequest, HandleChunkData,
               IgnoreChunkData, DownloadFileP2P, LoopHead, Ask, AskDone,
               WaitForCompletion, MarkChunkReceived
<1> QED
    BY <1>1, <1>2, Invariance, PTL DEF Spec, ImplementsDownload, Abstract!Spec
=============================================================================
