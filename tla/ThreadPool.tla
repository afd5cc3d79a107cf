------------------------------ MODULE ThreadPool ------------------------------
(***************************************************************************)
(* The CPU thread pool that evaluates every graph of the local language    *)
(* model (ggml-cpu.c): the hybrid poll and sleep of the secondary threads, *)
(* the spinning barrier, the chunks of a matrix product handed out through *)
(* one shared counter, the abort callback, pausing, resuming and freeing.  *)
(*                                                                         *)
(* Every load, store and read-modify-write of an atomic outside the mutex  *)
(* is a step of its own, except that the loads of one ready test are one   *)
(* step: stop and pause only send a worker back to the top of its loop.  A *)
(* section under the mutex is one step, because stop, pause and n_graph    *)
(* are written only under it.  Memory is sequentially consistent, and      *)
(* OpenMP is not used.                                                     *)
(***************************************************************************)
EXTENDS Integers, Sequences

CONSTANTS
    NThreads,    \* threads of the pool, the caller (thread 0) included
    Graphs,      \* graphs: sequences of node sizes, 0 for an empty operation
    MaxGraphs    \* bound on the graphs one pool computes

ASSUME PoolConstants ==
    /\ NThreads \in Nat \ {0}
    /\ \A g \in Graphs : g \in Seq(Nat) /\ g # <<>>
    /\ MaxGraphs \in Nat

Threads == 0 .. NThreads - 1
Workers == 1 .. NThreads - 1

VARIABLES
    nGraph,        \* n_graph: [count, n], the graph number and its threads
    graph,         \* cgraph
    nBarrier,      \* n_barrier
    nPassed,       \* n_barrier_passed
    currentChunk,  \* current_chunk
    stop, pause,
    abort,         \* the node to stop at, or -1
    ec,            \* GGML_STATUS_SUCCESS or GGML_STATUS_ABORTED
    lastGraph,     \* last_graph of each thread
    pending,       \* pending of each thread
    pc,            \* where each thread is
    ret,           \* where it continues after the barrier
    nth,           \* its params.nth
    node,          \* its node_n
    chunk,         \* its local current_chunk
    seen,          \* its local n_passed in the barrier
    computed,      \* ghost: <<node, chunk>> computed in this graph
    twice          \* ghost: the ones computed more than once

pool   == <<nGraph, graph, stop, pause>>
bar    == <<nBarrier, nPassed, seen>>
result == <<abort, ec>>
ghost  == <<computed, twice>>
worker == <<lastGraph, pending>>
local  == <<nth, node, chunk>>
vars   == <<pool, bar, currentChunk, result, worker, pc, ret, local, ghost>>

Computing == {"node", "set", "enter", "add", "reset", "release", "spin",
              "chunk", "take", "callback"}
Points == {"off", "idle", "join", "top", "pauselock", "pausesleep", "stoptest",
           "poll", "check", "sleep", "start"} \cup Computing
NoGraph == [count |-> 0, n |-> 0]

\* The number of chunks of a matrix product of a given size: by thread when
\* there are too few of them, as ggml_compute_forward_mul_mat decides.
Chunks(size, n) == IF size < 4 * n THEN n ELSE size

Empty(k) == graph[k + 1] = 0
NNodes == Len(graph)
Cells(k, n) == {k} \X (0 .. Chunks(graph[k + 1], n) - 1)

TypeOK ==
    /\ nGraph \in [count : 0 .. MaxGraphs, n : 0 .. NThreads]
    /\ graph \in Graphs \cup {<<>>}
    /\ nBarrier \in 0 .. NThreads /\ nPassed \in Nat
    /\ currentChunk \in Nat
    /\ stop \in BOOLEAN /\ pause \in BOOLEAN
    /\ abort \in -1 .. NNodes
    /\ ec \in {"success", "aborted"}
    /\ lastGraph \in [Threads -> [count : 0 .. MaxGraphs, n : 0 .. NThreads]]
    /\ pending \in [Threads -> BOOLEAN]
    /\ pc \in [Threads -> Points]
    /\ ret \in [Threads -> {"none", "chunks", "advance", "end"}]
    /\ nth \in [Threads -> 0 .. NThreads]
    /\ node \in [Threads -> 0 .. NNodes]
    /\ chunk \in [Threads -> Nat] /\ seen \in [Threads -> Nat]
    /\ computed \subseteq (Nat \X Nat) /\ twice \subseteq computed

Zero == [t \in Threads |-> 0]

Init ==
    /\ nGraph = NoGraph /\ graph = <<>>
    /\ nBarrier = 0 /\ nPassed = 0 /\ seen = Zero /\ currentChunk = 0
    /\ stop = FALSE /\ pause = FALSE /\ abort = -1 /\ ec = "success"
    /\ lastGraph = [t \in Threads |-> NoGraph]
    /\ pending = [t \in Threads |-> FALSE]
    /\ pc = [t \in Threads |-> "off"]
    /\ ret = [t \in Threads |-> "none"]
    /\ nth = Zero /\ node = Zero /\ chunk = Zero
    /\ computed = {} /\ twice = {}

Goto(t, p) == pc' = [pc EXCEPT ![t] = p]

-----------------------------------------------------------------------------
(* The caller                                                              *)

\* ggml_threadpool_new_impl: everything is initialised before the threads of
\* the workers start; the pool may be created paused.
New(paused) ==
    /\ pc[0] = "off"
    /\ nGraph' = NoGraph /\ graph' = <<>>
    /\ nBarrier' = 0 /\ nPassed' = 0 /\ seen' = Zero /\ currentChunk' = 0
    /\ stop' = FALSE /\ pause' = paused /\ abort' = -1 /\ ec' = "success"
    /\ lastGraph' = [t \in Threads |-> NoGraph]
    /\ pending' = [t \in Threads |-> FALSE]
    /\ pc' = [t \in Threads |-> IF t = 0 THEN "idle" ELSE "top"]
    /\ UNCHANGED <<ret, local, ghost>>

\* ggml_cond_broadcast: every sleeping worker goes back to its test.
Broadcast(t, p) ==
    pc' = [u \in Threads |-> CASE u = t -> p
                               [] u # t /\ pc[u] = "sleep" -> "check"
                               [] u # t /\ pc[u] = "pausesleep" -> "top"
                               [] OTHER -> pc[u]]

\* A graph never gets more threads than the pool has.
Clamp(n) == IF n > NThreads THEN NThreads ELSE n

\* ggml_graph_compute up to the call of the compute loop: the parameters are
\* reset, the threads clamped, and ggml_graph_compute_kickoff publishes the
\* graph under the mutex, resumes a paused pool and broadcasts.
GraphCompute(g, n) ==
    /\ pc[0] = "idle"
    /\ nGraph.count < MaxGraphs
    /\ graph' = g /\ currentChunk' = 0 /\ abort' = -1 /\ ec' = "success"
    /\ nGraph' = [count |-> nGraph.count + 1, n |-> Clamp(n)]
    /\ nth' = [nth EXCEPT ![0] = Clamp(n)]
    /\ node' = [node EXCEPT ![0] = 0]
    /\ pause' = FALSE
    /\ Broadcast(0, "node")
    /\ computed' = {} /\ twice' = {}
    /\ UNCHANGED <<stop, bar, worker, ret, chunk>>

\* ggml_threadpool_pause and ggml_threadpool_resume, called between graphs.
Pause ==
    /\ pc[0] = "idle" /\ ~pause
    /\ pause' = TRUE
    /\ Broadcast(0, "idle")
    /\ UNCHANGED <<nGraph, graph, stop, bar, currentChunk, result, worker,
                   ret, local, ghost>>

Resume ==
    /\ pc[0] = "idle" /\ pause
    /\ pause' = FALSE
    /\ Broadcast(0, "idle")
    /\ UNCHANGED <<nGraph, graph, stop, bar, currentChunk, result, worker,
                   ret, local, ghost>>

\* ggml_threadpool_free: stop, wake everyone, join, then free.
Free ==
    /\ pc[0] = "idle"
    /\ stop' = TRUE /\ pause' = FALSE
    /\ Broadcast(0, "join")
    /\ UNCHANGED <<nGraph, graph, bar, currentChunk, result, worker, ret,
                   local, ghost>>

Join ==
    /\ pc[0] = "join"
    /\ \A w \in Workers : pc[w] = "off"
    /\ Goto(0, "off")
    /\ UNCHANGED <<pool, bar, currentChunk, result, worker, ret, local, ghost>>

-----------------------------------------------------------------------------
(* ggml_graph_compute_secondary_thread                                     *)

\* The unlocked test of pause at the top of the loop.
Top(w) ==
    /\ pc[w] = "top"
    /\ Goto(w, IF pause THEN "pauselock" ELSE "stoptest")
    /\ UNCHANGED <<pool, bar, currentChunk, result, worker, ret, local, ghost>>

\* The test under the mutex, and the wait.
PauseLock(w) ==
    /\ pc[w] = "pauselock"
    /\ Goto(w, IF pause THEN "pausesleep" ELSE "top")
    /\ UNCHANGED <<pool, bar, currentChunk, result, worker, ret, local, ghost>>

\* "This needs to be checked for after the cond_wait".
StopTest(w) ==
    /\ pc[w] = "stoptest"
    /\ Goto(w, IF stop THEN "off" ELSE "poll")
    /\ UNCHANGED <<pool, bar, currentChunk, result, worker, ret, local, ghost>>

\* ggml_graph_compute_thread_ready, and what it does to the thread's state.
ThreadReady(w) == pending[w] \/ stop \/ pause \/ nGraph # lastGraph[w]

NoteGraph(w) ==
    IF ~pending[w] /\ ~stop /\ ~pause /\ nGraph # lastGraph[w]
    THEN /\ pending' = [pending EXCEPT ![w] = w < nGraph.n]
         /\ lastGraph' = [lastGraph EXCEPT ![w] = nGraph]
    ELSE UNCHANGED worker

\* ggml_graph_compute_poll_for_work: one round; the rounds run out.
Poll(w) ==
    /\ pc[w] = "poll"
    /\ NoteGraph(w)
    /\ Goto(w, IF pending'[w] THEN "start" ELSE "check")
    /\ UNCHANGED <<pool, bar, currentChunk, result, ret, local, ghost>>

\* Mutant: the thread sleeps without a test under the mutex.
CheckNoTest(w) ==
    /\ pc[w] = "check"
    /\ Goto(w, "sleep")
    /\ UNCHANGED <<pool, bar, currentChunk, result, worker, ret, local, ghost>>

\* ggml_graph_compute_check_for_work under the mutex.
Check(w) ==
    /\ pc[w] = "check"
    /\ NoteGraph(w)
    /\ Goto(w, CASE pending'[w] -> "start"
                 [] ~pending'[w] /\ ThreadReady(w) -> "top"
                 [] ~pending'[w] /\ ~ThreadReady(w) -> "sleep")
    /\ UNCHANGED <<pool, bar, currentChunk, result, ret, local, ghost>>

\* pthread_cond_wait may return without a signal.
Spurious(w) ==
    /\ pc[w] \in {"sleep", "pausesleep"}
    /\ Goto(w, IF pc[w] = "sleep" THEN "check" ELSE "top")
    /\ UNCHANGED <<pool, bar, currentChunk, result, worker, ret, local, ghost>>

\* A worker with work clears pending and enters ggml_graph_compute_thread,
\* which reads the number of threads from n_graph.
Start(w) ==
    /\ pc[w] = "start"
    /\ pending' = [pending EXCEPT ![w] = FALSE]
    /\ nth' = [nth EXCEPT ![w] = nGraph.n]
    /\ node' = [node EXCEPT ![w] = 0]
    /\ Goto(w, "node")
    /\ UNCHANGED <<pool, bar, currentChunk, result, lastGraph, ret, chunk, ghost>>

-----------------------------------------------------------------------------
(* ggml_graph_compute_thread, run by the caller and by the workers         *)

\* Mutant: the threads do not meet after the last node.
EndOfNodesAlone(t) == Goto(t, IF t = 0 THEN "idle" ELSE "top") /\ UNCHANGED ret

\* After the loop every thread meets the others once more.
EndOfNodes(t) == Goto(t, "enter") /\ ret' = [ret EXCEPT ![t] = "end"]

\* The head of the loop: stop at the end or at the abort mark, skip the empty
\* operations, else compute the node.
NodeHead(t) ==
    /\ pc[t] = "node"
    /\ \/ /\ node[t] < NNodes /\ abort # node[t] /\ Empty(node[t])
          /\ node' = [node EXCEPT ![t] = @ + 1]
          /\ UNCHANGED <<pc, ret>>
       \/ /\ node[t] < NNodes /\ abort # node[t] /\ ~Empty(node[t])
          /\ Goto(t, "set")
          /\ UNCHANGED <<node, ret>>
       \/ /\ node[t] = NNodes \/ abort = node[t]
          /\ EndOfNodes(t)
          /\ node' = [node EXCEPT ![t] = 0]
    /\ UNCHANGED <<pool, bar, currentChunk, result, worker, nth, chunk, ghost>>

\* "Every thread starts at ith, so the first unprocessed chunk is nth".
FirstFree(t) == nth[t]

\* ggml_compute_forward_mul_mat: thread 0 sets the shared chunk counter; then
\* everybody meets at a barrier.
SetChunks(t) ==
    /\ pc[t] = "set"
    /\ currentChunk' = IF t = 0 THEN FirstFree(t) ELSE currentChunk
    /\ Goto(t, "enter")
    /\ ret' = [ret EXCEPT ![t] = "chunks"]
    /\ UNCHANGED <<pool, bar, result, worker, local, ghost>>

\* One chunk: the first is the thread's own number.
Compute(t) ==
    /\ pc[t] = "chunk"
    /\ LET n == Chunks(graph[node[t] + 1], nth[t])
           cell == <<node[t], chunk[t]>>
       IN \/ /\ chunk[t] < n
             /\ computed' = computed \cup {cell}
             /\ twice' = twice \cup (computed \cap {cell})
             /\ Goto(t, IF nth[t] >= n THEN "callback" ELSE "take")
          \/ /\ chunk[t] >= n
             /\ Goto(t, "callback")
             /\ UNCHANGED ghost
    /\ UNCHANGED <<pool, bar, currentChunk, result, worker, ret, local>>

\* The next chunk is taken from the shared counter.
TakeChunk(t) ==
    /\ pc[t] = "take"
    /\ chunk' = [chunk EXCEPT ![t] = currentChunk]
    /\ currentChunk' = currentChunk + 1
    /\ Goto(t, "chunk")
    /\ UNCHANGED <<pool, bar, result, worker, ret, nth, node, ghost>>

\* Mutant: the mark is the node just computed.
AbortMarkHere(t) == node[t]

\* The node every thread stops at is the next one.
AbortMark(t) == node[t] + 1

\* Mutant: no barrier between two nodes.
MeetAfterNever(t) == FALSE

\* A barrier follows every node but the last.
MeetAfter(t) == node[t] + 1 < NNodes

\* After a node: the abort callback of the caller, then the barrier unless
\* this was the last node, whose barrier is the final one.
Callback(t) ==
    /\ pc[t] = "callback"
    /\ \/ /\ t = 0
          /\ abort' = AbortMark(t) /\ ec' = "aborted"
       \/ UNCHANGED result
    /\ \/ /\ MeetAfter(t)
          /\ Goto(t, "enter")
          /\ ret' = [ret EXCEPT ![t] = "advance"]
          /\ UNCHANGED node
       \/ /\ ~MeetAfter(t)
          /\ Goto(t, "node")
          /\ node' = [node EXCEPT ![t] = @ + 1]
          /\ UNCHANGED ret
    /\ chunk' = [chunk EXCEPT ![t] = 0]
    /\ UNCHANGED <<pool, bar, currentChunk, worker, nth, ghost>>

-----------------------------------------------------------------------------
(* ggml_barrier                                                            *)

\* What a thread does when it leaves the barrier.
Leave(t) ==
    /\ Goto(t, CASE ret[t] = "chunks" -> "chunk"
                 [] ret[t] = "advance" -> "node"
                 [] ret[t] = "end" -> IF t = 0 THEN "idle" ELSE "top")
    /\ ret' = [ret EXCEPT ![t] = "none"]
    /\ node' = [node EXCEPT ![t] = IF ret[t] = "advance" THEN @ + 1 ELSE @]
    /\ chunk' = [chunk EXCEPT ![t] = IF ret[t] = "chunks" THEN t ELSE 0]
    /\ nth' = [nth EXCEPT ![t] = IF ret[t] = "end" THEN 0 ELSE @]

\* One thread needs no barrier; else the number of barriers passed is read.
Enter(t) ==
    /\ pc[t] = "enter"
    /\ \/ /\ nGraph.n = 1
          /\ Leave(t)
          /\ UNCHANGED seen
       \/ /\ nGraph.n # 1
          /\ seen' = [seen EXCEPT ![t] = nPassed]
          /\ Goto(t, "add")
          /\ UNCHANGED <<ret, local>>
    /\ UNCHANGED <<pool, nBarrier, nPassed, currentChunk, result, worker, ghost>>

\* The fetch-and-add that tells the last thread from the others.
Add(t) ==
    /\ pc[t] = "add"
    /\ nBarrier' = nBarrier + 1
    /\ Goto(t, IF nBarrier = nGraph.n - 1 THEN "reset" ELSE "spin")
    /\ UNCHANGED <<pool, nPassed, seen, currentChunk, result, worker, ret, local,
                   ghost>>

\* The last thread resets the counter before it lets the others go.
Reset(t) ==
    /\ pc[t] = "reset"
    /\ nBarrier' = 0
    /\ Goto(t, "release")
    /\ UNCHANGED <<pool, nPassed, seen, currentChunk, result, worker, ret, local,
                   ghost>>

Release(t) ==
    /\ pc[t] = "release"
    /\ nPassed' = nPassed + 1
    /\ seen' = [seen EXCEPT ![t] = 0]
    /\ Leave(t)
    /\ UNCHANGED <<pool, nBarrier, currentChunk, result, worker, ghost>>

Spin(t) ==
    /\ pc[t] = "spin"
    /\ nPassed # seen[t]
    /\ seen' = [seen EXCEPT ![t] = 0]
    /\ Leave(t)
    /\ UNCHANGED <<pool, nBarrier, nPassed, currentChunk, result, worker, ghost>>

-----------------------------------------------------------------------------
(* The specification                                                       *)

Caller ==
    \/ \E paused \in BOOLEAN : New(paused)
    \/ \E g \in Graphs, n \in 1 .. NThreads + 1 : GraphCompute(g, n)
    \/ Pause
    \/ Resume
    \/ Free

Barrier(t) == Enter(t) \/ Add(t) \/ Reset(t) \/ Release(t) \/ Spin(t)
Loop(t) == NodeHead(t) \/ SetChunks(t) \/ Compute(t) \/ TakeChunk(t)
               \/ Callback(t)
Wait(w) == Top(w) \/ PauseLock(w) \/ StopTest(w) \/ Poll(w) \/ Check(w)
               \/ Start(w)

Next ==
    \/ Caller
    \/ Join
    \/ \E t \in Threads : Loop(t) \/ Barrier(t)
    \/ \E w \in Workers : Wait(w) \/ Spurious(w)

\* A runnable thread runs: the scheduler of the system.  Nothing is assumed
\* of the caller's calls.
Spec ==
    /\ Init /\ [][Next]_vars
    /\ WF_vars(Join)
    /\ \A t \in Threads : WF_vars(Loop(t) \/ Barrier(t))
    /\ \A w \in Workers : WF_vars(Wait(w))

-----------------------------------------------------------------------------
(* Properties                                                              *)

\* A node is computed only when every earlier node is complete: the barriers
\* of ggml_graph_compute_thread keep a fast thread from reading a tensor that
\* a slow one is still writing. All counters stay in their ranges.
NodesInOrder ==
    TypeOK /\ \A t \in Threads : pc[t] = "chunk" =>
        \A k \in 0 .. node[t] - 1 :
            Empty(k) \/ Cells(k, nth[t]) \subseteq computed

\* When the call returns, every chunk of a node was computed, once, or, if the
\* graph was aborted before the node, none was: no thread stops at another node
\* than the rest, and a graph that was not aborted is complete.
AllOrNothing ==
    pc[0] = "idle" =>
        \A k \in 0 .. NNodes - 1 : ~Empty(k) =>
            IF abort = -1 \/ k < abort
            THEN Cells(k, nGraph.n) \subseteq computed /\ twice = {}
            ELSE Cells(k, nGraph.n) \cap computed = {}

\* "No worker threads should be accessing the parameters below at this stage":
\* while the caller is outside ggml_graph_compute, a worker that is still in
\* the last barrier only waits for n_barrier_passed, and the next graph finds
\* n_barrier at zero.
QuietBetweenGraphs ==
    pc[0] \in {"idle", "join"} =>
        /\ \A w \in Workers :
              pc[w] \in Computing => pc[w] = "spin" /\ nPassed # seen[w]
        /\ nBarrier = 0

\* Every call returns.  A graph is computed, whatever the workers were doing
\* when it was published: no wake-up is lost between the poll and the sleep.
\* Freeing the pool ends: every worker sees stop and leaves its loop.
CallsReturn ==
    /\ pc[0] \in Computing ~> pc[0] = "idle"
    /\ pc[0] = "join" ~> pc[0] = "off"
=============================================================================
