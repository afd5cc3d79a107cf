--------------------------- MODULE ThreadPoolProofs ---------------------------
(***************************************************************************)
(* Proofs about ThreadPool, for any number of threads, any graphs and any  *)
(* number of them: the barrier keeps the threads at one node, every chunk  *)
(* is computed once, an abort stops all threads at the same node, and      *)
(* between two graphs nobody touches the state of the pool.                *)
(***************************************************************************)
EXTENDS ThreadPool, FiniteSetTheorems, TLAPS

\* The threads that compute the published graph.
Party == 0 .. nGraph.n - 1

\* A thread that has not left the barrier yet, and one that may leave it.
InBarrier(t) == \/ pc[t] \in {"enter", "add", "reset", "release"}
                \/ pc[t] = "spin" /\ seen[t] = nPassed
Leaving(t) == pc[t] = "spin" /\ seen[t] # nPassed

\* It is through with its graph, and need only see that the barrier is passed.
Stale(t) == Leaving(t) /\ ret[t] = "end" /\ node[t] = 0

\* A thread outside the graph: it waits for work, or is stale.
Outside(t) == pc[t] \notin Computing \cup {"start"} \/ Stale(t)

\* Where threads may be, whatever the graph.
Base ==
    /\ pc[0] \in {"off", "idle", "join"} \cup Computing
    /\ pc[0] = "off" => \A w \in Workers : pc[w] = "off"
    /\ nGraph.n = 0 => pc[0] \notin Computing
    /\ \A w \in Workers : pc[w] \notin {"idle", "join"}
    /\ \A w \in Workers : pending[w] <=> pc[w] = "start"
    /\ \A w \in Workers : lastGraph[w].count <= nGraph.count
    /\ \A t \in Threads : pc[t] \notin Computing => node[t] = 0
    /\ \A t \in Threads : pc[t] = "spin" => seen[t] <= nPassed
    /\ twice = {}

\* Who has not seen the graph, or has no part in it, is outside.
Others ==
    \A w \in Workers : lastGraph[w] # nGraph \/ w \notin Party => Outside(w)

\* The counter of the barrier.
Arrived == {t \in Threads : \/ pc[t] \in {"reset", "release"}
                            \/ pc[t] = "spin" /\ seen[t] = nPassed}
Counted ==
    /\ \A t \in Threads : pc[t] = "add" => seen[t] = nPassed
    /\ nBarrier = IF \E t \in Threads : pc[t] = "release" THEN 0 ELSE Cardinality(Arrived)
    /\ \A t \in Threads : pc[t] \in {"reset", "release"} =>
          \A u \in Party \ {t} : pc[u] = "spin" /\ seen[u] = nPassed

\* The nodes before k are complete.
Complete(k) == \A j \in 0 .. k - 1 : Empty(j) \/ Cells(j, nGraph.n) \subseteq computed

Joined(t) == (t # 0 => lastGraph[t] = nGraph) /\ nth[t] = nGraph.n

\* Between the barrier before node k (or the start) and the next barrier: which
\* node a thread can have reached, which one comes next, and whether none does.
Reached(k, j) == /\ j \in k .. NNodes /\ \A i \in k .. j - 1 : Empty(i)
                 /\ abort = k => j = k
First(k, j)   == j < NNodes /\ Reached(k, j) /\ ~Empty(j) /\ abort # k
Last(k)       == abort = k \/ \A i \in k .. NNodes - 1 : Empty(i)

GapAt(k, t) ==
    \/ k = 0 /\ t # 0 /\ (lastGraph[t] # nGraph \/ pc[t] = "start")
    \/ /\ Joined(t)
       /\ \/ pc[t] = "node" /\ Reached(k, node[t])
          \/ pc[t] = "set" /\ First(k, node[t])
          \/ /\ InBarrier(t) /\ ret[t] = "chunks" /\ First(k, node[t])
             /\ t = 0 => currentChunk = nGraph.n
          \/ InBarrier(t) /\ ret[t] = "end" /\ node[t] = 0 /\ Last(k)
          \/ Leaving(t) /\ ret[t] = "advance" /\ node[t] = k - 1

Gap(k) ==
    /\ nGraph.n > 0 /\ (abort = -1 \/ (k > 0 /\ abort = k))
    /\ Complete(k) /\ \A c \in computed : c[1] < k
    /\ \A t \in Party : GapAt(k, t)

\* While node k is computed.
Past(t) == pc[t] \in {"callback", "node"} \/ InBarrier(t)

MidAt(k, t) ==
    /\ Joined(t)
    /\ \/ Leaving(t) /\ ret[t] = "chunks" /\ node[t] = k
       \/ pc[t] \in {"chunk", "take", "callback"} /\ node[t] = k
       \/ pc[t] = "node" /\ node[t] = k + 1 /\ k + 1 = NNodes
       \/ InBarrier(t) /\ ret[t] = "advance" /\ node[t] = k /\ k + 1 < NNodes
       \/ InBarrier(t) /\ ret[t] = "end" /\ node[t] = 0 /\ k + 1 = NNodes

\* The chunk a thread is about to compute.
Holding(t) == pc[t] = "chunk" \/ Leaving(t)
Hold(t)    == IF pc[t] = "chunk" THEN chunk[t] ELSE t

Handed(k) ==
    LET n == nGraph.n
        N == Chunks(graph[k + 1], n)
    IN  /\ currentChunk >= n
        /\ \A t \in Party : Holding(t) =>
              Hold(t) < currentChunk /\ <<k, Hold(t)>> \notin computed
        /\ \A t, u \in Party : Holding(t) /\ Holding(u) /\ Hold(t) = Hold(u) => t = u
        /\ \A x \in 0 .. N - 1 : x < currentChunk =>
              \/ <<k, x>> \in computed
              \/ \E t \in Party : Holding(t) /\ Hold(t) = x
        /\ \A c \in computed : c[1] = k => c[2] < currentChunk
        /\ \A t \in Party : Past(t) => N <= n \/ currentChunk >= N

Mid(k) ==
    /\ nGraph.n > 0 /\ ~Empty(k) /\ abort \in {-1, k + 1}
    /\ Complete(k) /\ \A c \in computed : c[1] <= k
    /\ \A t \in Party : MidAt(k, t)
    /\ Handed(k)

\* After the last barrier.
Result ==
    \A k \in 0 .. NNodes - 1 : ~Empty(k) =>
        IF abort = -1 \/ k < abort
        THEN Cells(k, nGraph.n) \subseteq computed
        ELSE Cells(k, nGraph.n) \cap computed = {}
Finished ==
    /\ \A t \in Threads : Outside(t)
    /\ \A t \in Party : t # 0 => lastGraph[t] = nGraph
    /\ Result

IInv ==
    /\ TypeOK /\ Base /\ Others /\ Counted
    /\ \/ \E k \in 0 .. NNodes - 1 : Gap(k)
       \/ \E k \in 0 .. NNodes - 1 : Mid(k)
       \/ Finished

-----------------------------------------------------------------------------
(* What a step leaves alone                                                *)

\* Thread u does not move.
Still(u) ==
    /\ pc'[u] = pc[u] /\ ret'[u] = ret[u] /\ nth'[u] = nth[u] /\ node'[u] = node[u]
    /\ chunk'[u] = chunk[u] /\ seen'[u] = seen[u] /\ lastGraph'[u] = lastGraph[u]

\* The graph is the same, and no barrier is passed.
Plain == nGraph' = nGraph /\ graph' = graph /\ nPassed' = nPassed

\* The threads, and the sizes of the published graph.
LEMMA Ranges ==
    ASSUME TypeOK
    PROVE  /\ nGraph.n \in Nat /\ nGraph.n <= NThreads /\ nGraph.count \in Nat
           /\ Party \subseteq Threads /\ 0 \in Threads /\ Workers = Threads \ {0}
           /\ graph \in Seq(Nat) /\ NNodes \in Nat /\ IsFiniteSet(Threads)
<1>1. NThreads \in Nat /\ NThreads > 0
  BY PoolConstants
<1>2. nGraph.n \in 0 .. NThreads /\ nGraph.count \in 0 .. MaxGraphs
  BY DEF TypeOK
<1>3. nGraph.n \in Nat /\ nGraph.n <= NThreads /\ nGraph.count \in Nat
  BY <1>1, <1>2, PoolConstants
<1>4. Party \subseteq Threads /\ 0 \in Threads /\ Workers = Threads \ {0}
  BY <1>1, <1>3 DEF Party, Threads, Workers
<1>5. graph \in Seq(Nat) /\ NNodes \in Nat
  <2>1. CASE graph = <<>>
    BY <2>1 DEF NNodes
  <2>2. CASE graph \in Graphs
    BY <2>2, PoolConstants DEF NNodes
  <2> QED
    BY <2>1, <2>2 DEF TypeOK
<1>6. IsFiniteSet(Threads)
  BY <1>1, FS_Interval DEF Threads
<1> QED
  BY <1>3, <1>4, <1>5, <1>6

\* A product has at least one chunk for each thread.
LEMMA ChunkFacts ==
    ASSUME TypeOK, NEW k \in 0 .. NNodes - 1
    PROVE  /\ graph[k + 1] \in Nat
           /\ Chunks(graph[k + 1], nGraph.n) \in Nat
           /\ Chunks(graph[k + 1], nGraph.n) >= nGraph.n
<1>1. graph[k + 1] \in Nat /\ nGraph.n \in Nat
  BY Ranges DEF NNodes
<1> QED
  BY <1>1 DEF Chunks

\* A thread that does not move stays where it is between two barriers.
LEMMA StillGap ==
    ASSUME NEW k, NEW u, Still(u), Plain, abort' = abort,
           u = 0 => currentChunk' = currentChunk, GapAt(k, u)
    PROVE  GapAt(k, u)'
BY DEF Still, Plain, GapAt, Joined, Reached, First, Last, InBarrier, Leaving, NNodes, Empty

\* And in the node that is computed.
LEMMA StillMid ==
    ASSUME NEW k, NEW u, Still(u), Plain, MidAt(k, u)
    PROVE  MidAt(k, u)'
BY DEF Still, Plain, MidAt, Joined, InBarrier, Leaving, NNodes

\* And outside the graph.
LEMMA StillOutside ==
    ASSUME NEW u, Still(u), Plain, Outside(u)
    PROVE  Outside(u)'
BY DEF Still, Plain, Outside, Stale, Leaving

\* A step of a thread outside the barrier keeps the count.
LEMMA CountedKeeps ==
    ASSUME TypeOK, Counted, NEW t \in Threads, \A u \in Threads \ {t} : Still(u), Plain,
           nBarrier' = nBarrier, pc[t] \notin {"add", "spin", "reset", "release"},
           pc'[t] \notin {"spin", "reset", "release"}, pc'[t] = "add" => seen'[t] = nPassed
    PROVE  Counted'
<1>1. \A u \in Threads \ {t} : pc'[u] = pc[u] /\ seen'[u] = seen[u]
  BY DEF Still
<1>2. Arrived' = Arrived
  BY <1>1 DEF Arrived, Plain
<1>3. (\E u \in Threads : pc'[u] = "release") <=> \E u \in Threads : pc[u] = "release"
  BY <1>1
<1>4. nBarrier' = IF \E u \in Threads : pc'[u] = "release" THEN 0 ELSE Cardinality(Arrived')
  BY <1>2, <1>3 DEF Counted
<1>5. \A u \in Threads : pc'[u] = "add" => seen'[u] = nPassed'
  BY <1>1 DEF Counted, Plain
<1>6. ASSUME NEW u \in Threads, pc'[u] \in {"reset", "release"}, NEW v \in Party \ {u}
      PROVE  pc'[v] = "spin" /\ seen'[v] = nPassed
  <2>1. u # t /\ pc[u] \in {"reset", "release"}
    BY <1>1, <1>6
  <2>2. pc[v] = "spin" /\ seen[v] = nPassed /\ v \in Threads
    BY <2>1, Ranges DEF Counted
  <2> QED
    BY <1>1, <2>2
<1> QED
  BY <1>4, <1>5, <1>6 DEF Counted, Plain, Party

-----------------------------------------------------------------------------
(* Steps outside the graph                                                 *)

Quiet == Points \ (Computing \cup {"start"})

\* Workers that wait, and a caller between two graphs, move about.
LEMMA Stir ==
    ASSUME IInv, TypeOK', Base',
           UNCHANGED <<nGraph, graph, bar, currentChunk, result, lastGraph, ret, local, ghost>>,
           \A t \in Threads : pc'[t] = pc[t] \/ (pc[t] \in Quiet /\ pc'[t] \in Quiet)
    PROVE  IInv'
<1> USE DEF bar, result, local, ghost
<1>1. \A t \in Threads : pc[t] \in Computing \cup {"start"} \/ pc'[t] \in Computing \cup {"start"}
                            => Still(t)
  BY DEF Quiet, Still
<1>2. Plain /\ Party' = Party
  BY DEF Plain, Party
<1>3. \A t \in Threads : Outside(t) => Outside(t)'
  <2> SUFFICES ASSUME NEW t \in Threads, Outside(t) PROVE Outside(t)'
    OBVIOUS
  <2>1. CASE pc'[t] \in Computing \cup {"start"}
    BY <1>1, <1>2, <2>1, StillOutside
  <2>2. CASE pc'[t] \notin Computing \cup {"start"}
    BY <2>2 DEF Outside
  <2> QED
    BY <2>1, <2>2
<1>4. Others'
  <2>1. Workers \subseteq Threads
    BY Ranges DEF IInv
  <2> QED
    BY <1>2, <1>3, <2>1 DEF IInv, Others
<1>5. Counted'
  <2>1. \A t \in Threads : \A p \in {"add", "reset", "release", "spin"} : pc'[t] = p <=> pc[t] = p
    BY DEF Quiet, Computing
  <2>2. Arrived' = Arrived
    BY <2>1 DEF Arrived
  <2>3. \A u \in Party : u \in Threads
    BY Ranges DEF IInv
  <2> QED
    BY <1>2, <2>1, <2>2, <2>3 DEF IInv, Counted
<1>6. ASSUME NEW k \in 0 .. NNodes - 1, Gap(k) PROVE Gap(k)'
  <2>1. ASSUME NEW t \in Party PROVE GapAt(k, t)'
    <3>1. GapAt(k, t) /\ t \in Threads
      BY <1>6, Ranges DEF Gap, IInv
    <3>2. CASE pc[t] \in Computing \cup {"start"}
      BY <1>1, <1>2, <3>1, <3>2, StillGap
    <3>3. CASE pc[t] \notin Computing \cup {"start"}
      BY <3>1, <3>3 DEF GapAt, InBarrier, Leaving, Computing
    <3> QED
      BY <3>2, <3>3
  <2> QED
    BY <1>2, <1>6, <2>1 DEF Gap, Complete, Empty, Cells
<1>7. ASSUME NEW k \in 0 .. NNodes - 1, Mid(k) PROVE Mid(k)'
  <2>1. ASSUME NEW t \in Party PROVE Still(t)
    <3>1. pc[t] \in Computing /\ t \in Threads
      BY <1>7, Ranges DEF Mid, MidAt, InBarrier, Leaving, Computing, IInv
    <3> QED
      BY <1>1, <3>1
  <2>2. \A t \in Party : MidAt(k, t)'
    BY <1>2, <1>7, <2>1, StillMid DEF Mid
  <2>3. \A t \in Party : /\ Holding(t)' <=> Holding(t)
                         /\ Hold(t)' = Hold(t) /\ (Past(t)' <=> Past(t))
    BY <1>2, <2>1 DEF Still, Plain, Holding, Hold, Past, Leaving, InBarrier
  <2>4. Handed(k)'
    BY <1>2, <1>7, <2>3 DEF Mid, Handed
  <2> QED
    BY <1>2, <1>7, <2>2, <2>4 DEF Mid, Complete, Empty, Cells, NNodes
<1>8. ASSUME Finished PROVE Finished'
  BY <1>2, <1>3, <1>8 DEF Finished, Result, NNodes, Empty, Cells
<1>9. NNodes' = NNodes
  BY DEF NNodes
<1> QED
  BY <1>4, <1>5, <1>6, <1>7, <1>8, <1>9 DEF IInv

\* The process starts with the invariant.
LEMMA InitInv == Init => IInv
<1> SUFFICES ASSUME Init PROVE IInv
  OBVIOUS
<1>1. 0 \in Threads /\ Workers \subseteq Threads /\ NThreads \in Nat /\ MaxGraphs \in Nat
      /\ IsFiniteSet({}) /\ Cardinality({}) = 0
  BY PoolConstants, FS_EmptySet DEF Threads, Workers
<1>2. Len(graph) = 0 /\ graph = <<>>
  BY DEF Init
<1>3. TypeOK
  <2>1. NoGraph \in [count : 0 .. MaxGraphs, n : 0 .. NThreads]
    BY <1>1 DEF NoGraph
  <2>2. Zero \in [Threads -> Nat] /\ Zero \in [Threads -> 0 .. NThreads]
        /\ Zero \in [Threads -> 0 .. NNodes]
    BY <1>1, <1>2 DEF Zero, NNodes
  <2>3. pc \in [Threads -> Points] /\ abort \in -1 .. NNodes /\ nBarrier \in 0 .. NThreads
    BY <1>1, <1>2 DEF Init, Points, NNodes
  <2> QED
    BY <2>1, <2>2, <2>3 DEF Init, TypeOK
<1>4. \A t \in Threads : pc[t] = "off" /\ node[t] = 0
  BY DEF Init, Zero
<1>5. nGraph.n = 0 /\ nGraph.count = 0 /\ \A t \in Threads : lastGraph[t] = nGraph
  BY DEF Init, NoGraph
<1>6. Base
  BY <1>1, <1>4, <1>5 DEF Init, Base, Computing
<1>7. \A t \in Threads : Outside(t)
  BY <1>4 DEF Outside, Computing
<1>8. Counted
  <2>1. Arrived = {}
    BY <1>4 DEF Arrived
  <2> QED
    BY <1>1, <1>4, <2>1 DEF Init, Counted
<1>9. Finished
  BY <1>1, <1>2, <1>5, <1>7 DEF Finished, Result, NNodes, Party
<1> QED
  BY <1>1, <1>3, <1>6, <1>7, <1>8, <1>9 DEF IInv, Others

\* New(paused)
LEMMA NewInv == ASSUME IInv, NEW paused \in BOOLEAN, New(paused) PROVE IInv'
<1>1. 0 \in Threads /\ Workers = Threads \ {0} /\ NThreads \in Nat /\ MaxGraphs \in Nat
      /\ IsFiniteSet({}) /\ Cardinality({}) = 0
  BY PoolConstants, FS_EmptySet, Ranges DEF IInv
<1>2. Len(graph') = 0 /\ graph' = <<>>
  BY DEF New
<1>3. \A t \in Threads : node[t] = 0
  BY <1>1 DEF IInv, Base, New, Computing
<1>4. TypeOK'
  <2>1. NoGraph \in [count : 0 .. MaxGraphs, n : 0 .. NThreads]
    BY <1>1 DEF NoGraph
  <2>2. Zero \in [Threads -> Nat]
    BY DEF Zero
  <2>3. pc' \in [Threads -> Points] /\ abort' \in -1 .. NNodes' /\ nBarrier' \in 0 .. NThreads
    BY <1>1, <1>2 DEF New, Points, NNodes
  <2>4. node' \in [Threads -> 0 .. NNodes']
    BY <1>2, <1>3 DEF New, IInv, TypeOK, local, NNodes
  <2>5. /\ nth' \in [Threads -> 0 .. NThreads] /\ chunk' \in [Threads -> Nat]
        /\ ret' \in [Threads -> {"none", "chunks", "advance", "end"}]
        /\ computed' \subseteq (Nat \X Nat) /\ twice' \subseteq computed'
    BY DEF New, IInv, TypeOK, local, ghost
  <2> QED
    BY <2>1, <2>2, <2>3, <2>4, <2>5 DEF New, TypeOK
<1>5. /\ pc'[0] = "idle" /\ \A w \in Workers : pc'[w] = "top"
      /\ \A t \in Threads : pc'[t] \in {"idle", "top"} /\ node'[t] = 0
  BY <1>1, <1>3 DEF New, local
<1>6. nGraph'.n = 0 /\ nGraph'.count = 0 /\ \A t \in Threads : lastGraph'[t] = nGraph'
  BY DEF New, NoGraph
<1>7. Base'
  BY <1>1, <1>5, <1>6 DEF New, Base, Computing, IInv, ghost
<1>8. \A t \in Threads : Outside(t)'
  BY <1>5 DEF Outside, Computing
<1>9. Counted'
  <2>1. Arrived' = {}
    BY <1>5 DEF Arrived
  <2> QED
    BY <1>1, <1>5, <2>1 DEF New, Counted
<1>10. Finished'
  BY <1>1, <1>2, <1>6, <1>8 DEF Finished, Result, NNodes, Party
<1> QED
  BY <1>1, <1>4, <1>7, <1>8, <1>9, <1>10 DEF IInv, Others

\* When the caller is between two graphs, the last one is finished.
LEMMA CallerOutside ==
    ASSUME IInv, pc[0] \notin Computing
    PROVE  /\ Finished /\ Arrived = {} /\ nBarrier = 0
           /\ \A t \in Threads : pc[t] \notin {"add", "reset", "release", "start"}
           /\ \A t \in Threads : node[t] = 0
<1>1. 0 \in Threads
  BY Ranges DEF IInv
<1>2. ASSUME nGraph.n > 0 PROVE 0 \in Party
  BY <1>2, Ranges DEF IInv, Party
<1>3. ASSUME NEW k \in 0 .. NNodes - 1, Gap(k) PROVE FALSE
  <2>1. GapAt(k, 0)
    BY <1>2, <1>3 DEF Gap
  <2> QED
    BY <2>1 DEF GapAt, InBarrier, Leaving, Computing
<1>4. ASSUME NEW k \in 0 .. NNodes - 1, Mid(k) PROVE FALSE
  <2>1. MidAt(k, 0)
    BY <1>2, <1>4 DEF Mid
  <2> QED
    BY <2>1 DEF MidAt, InBarrier, Leaving, Computing
<1>5. Finished
  BY <1>3, <1>4 DEF IInv
<1>6. \A t \in Threads : /\ pc[t] \in Computing => pc[t] = "spin" /\ seen[t] # nPassed
                         /\ pc[t] # "start" /\ node[t] = 0
  BY <1>5 DEF Finished, Outside, Stale, Leaving, IInv, Base
<1>7. Arrived = {}
  BY <1>6 DEF Arrived, Computing
<1>8. nBarrier = 0
  <2>1. \A t \in Threads : pc[t] # "release"
    BY <1>6 DEF Computing
  <2> QED
    BY <1>7, <2>1, FS_EmptySet DEF IInv, Counted
<1> QED
  BY <1>5, <1>6, <1>7, <1>8 DEF Computing

\* GraphCompute(g, m): everybody is outside, and nobody has seen the new graph.
LEMMA GraphComputeInv ==
    ASSUME IInv, NEW g \in Graphs, NEW m \in 1 .. NThreads + 1, GraphCompute(g, m)
    PROVE  IInv'
<1>1. /\ 0 \in Threads /\ Workers = Threads \ {0} /\ NThreads \in Nat /\ NThreads > 0
      /\ MaxGraphs \in Nat /\ nGraph.count \in Nat
  BY PoolConstants, Ranges DEF IInv
<1>2. /\ Finished /\ Arrived = {} /\ nBarrier = 0
      /\ \A t \in Threads : pc[t] \notin {"add", "reset", "release", "start"}
      /\ \A t \in Threads : node[t] = 0
  BY CallerOutside DEF GraphCompute, Computing
<1>3. Clamp(m) \in 1 .. NThreads
  BY <1>1 DEF Clamp
<1>4. /\ nGraph'.n = Clamp(m) /\ nGraph'.count = nGraph.count + 1
      /\ nGraph' \in [count : 0 .. MaxGraphs, n : 0 .. NThreads]
  BY <1>1, <1>3 DEF GraphCompute
<1>5. g \in Seq(Nat) /\ Len(g) \in Nat /\ Len(g) > 0 /\ graph' = g
  BY PoolConstants DEF GraphCompute
<1>6. /\ pc'[0] = "node"
      /\ \A w \in Workers : \/ pc'[w] = pc[w]
                            \/ pc[w] \in Quiet /\ pc'[w] \in {"check", "top"}
  BY <1>1 DEF GraphCompute, Broadcast, Quiet, Points, Computing
<1>7. /\ nth'[0] = nGraph'.n /\ \A w \in Workers : nth'[w] = nth[w]
      /\ \A t \in Threads : node'[t] = 0
  BY <1>1, <1>2, <1>4 DEF GraphCompute, IInv, TypeOK
<1>8. TypeOK'
  <2>1. pc' \in [Threads -> Points]
    BY <1>1 DEF GraphCompute, Broadcast, IInv, TypeOK, Points, Computing
  <2>2. nth' \in [Threads -> 0 .. NThreads]
    BY <1>1, <1>3 DEF GraphCompute, IInv, TypeOK
  <2>3. NNodes' \in Nat /\ 0 \in 0 .. NNodes' /\ abort' \in -1 .. NNodes'
    BY <1>5 DEF GraphCompute, NNodes
  <2>4. node' \in [Threads -> 0 .. NNodes']
    <3>1. node \in [Threads -> {0}]
      BY <1>2 DEF IInv, TypeOK
    <3> QED
      BY <2>3, <3>1 DEF GraphCompute
  <2> QED
    BY <1>4, <1>5, <2>1, <2>2, <2>3, <2>4 DEF GraphCompute, IInv, TypeOK, bar, worker
<1>9. \A w \in Workers : lastGraph'[w] = lastGraph[w] /\ lastGraph[w].count <= nGraph.count
                         /\ lastGraph[w].count \in Nat /\ lastGraph'[w] # nGraph'
  BY <1>1, <1>4 DEF GraphCompute, IInv, TypeOK, Base, worker
<1>10. Base'
  <2>1. \A w \in Workers : pending'[w] <=> pc'[w] = "start"
    BY <1>1, <1>2, <1>6 DEF GraphCompute, IInv, Base, worker
  <2>2. \A w \in Workers : pc'[w] \notin {"idle", "join"}
    BY <1>6 DEF IInv, Base
  <2>3. \A w \in Workers : lastGraph'[w].count <= nGraph'.count
    BY <1>1, <1>4, <1>9
  <2>4. \A t \in Threads : pc'[t] = "spin" => seen'[t] <= nPassed'
    BY <1>1, <1>6 DEF GraphCompute, bar, IInv, Base
  <2>5. nGraph'.n # 0 /\ pc'[0] \in Computing /\ pc'[0] # "off"
    BY <1>1, <1>3, <1>4, <1>6 DEF Computing
  <2>6. twice' = {}
    BY DEF GraphCompute
  <2> QED
    BY <1>7, <2>1, <2>2, <2>3, <2>4, <2>5, <2>6 DEF Base
<1>11. \A w \in Workers : Outside(w)'
  <2> SUFFICES ASSUME NEW w \in Workers PROVE Outside(w)'
    OBVIOUS
  <2>1. Outside(w)
    BY <1>1, <1>2 DEF Finished
  <2>2. CASE pc'[w] = pc[w]
    BY <1>1, <1>7, <2>1, <2>2 DEF Outside, Stale, Leaving, GraphCompute, bar
  <2>3. CASE pc'[w] \in {"check", "top"}
    BY <2>3 DEF Outside, Computing
  <2> QED
    BY <1>6, <2>2, <2>3
<1>12. Counted'
  <2>1. \A t \in Threads : pc'[t] \notin {"add", "reset", "release"}
    BY <1>1, <1>2, <1>6
  <2>2. \A t \in Threads : pc'[t] = "spin" => pc[t] = "spin"
    BY <1>1, <1>6
  <2>3. Arrived' = {}
    BY <1>2, <2>1, <2>2 DEF Arrived, GraphCompute, bar
  <2> QED
    BY <1>2, <2>1, <2>3, FS_EmptySet DEF Counted, GraphCompute, bar
<1>13. Gap(0)'
  <2>1. GapAt(0, 0)'
    <3>1. NNodes' \in Nat /\ 0 \in 0 .. NNodes' /\ 0 .. 0 - 1 = {}
      BY <1>5 DEF NNodes
    <3>2. Reached(0, 0)'
      BY <3>1 DEF Reached
    <3> QED
      BY <1>1, <1>6, <1>7, <3>2 DEF GapAt, Joined
  <2>2. ASSUME NEW t \in Party', t # 0 PROVE GapAt(0, t)'
    <3>1. t \in Workers
      BY <1>1, <1>3, <1>4, <2>2 DEF Party, Workers
    <3> QED
      BY <1>9, <2>2, <3>1 DEF GapAt
  <2> QED
    BY <1>1, <1>3, <1>4, <2>1, <2>2 DEF Gap, GraphCompute, Complete
<1> QED
  BY <1>5, <1>8, <1>10, <1>11, <1>12, <1>13 DEF IInv, Others, NNodes

-----------------------------------------------------------------------------
(* Steps of one thread                                                     *)

Alone(t) == Plain /\ \A u \in Threads \ {t} : Still(u)

\* What a computing thread may do to the places and the barrier counters.
LEMMA AloneBase ==
    ASSUME IInv, NEW t \in Threads, TypeOK', \A u \in Threads \ {t} : Still(u),
           nGraph' = nGraph, nPassed <= nPassed', pending' = pending, twice' = {},
           lastGraph' = lastGraph, pc[t] \in Computing,
           pc'[t] \in Computing \/ pc'[t] = IF t = 0 THEN "idle" ELSE "top",
           pc'[t] \notin Computing => node'[t] = 0,
           pc'[t] = "spin" => seen'[t] <= nPassed'
    PROVE  Base'
<1>1. 0 \in Threads /\ Workers = Threads \ {0} /\ nPassed \in Nat /\ nPassed' \in Nat
      /\ seen \in [Threads -> Nat]
  BY Ranges DEF IInv, TypeOK
<1>2. \A u \in Threads \ {t} : pc'[u] = pc[u] /\ node'[u] = node[u] /\ seen'[u] = seen[u]
  BY DEF Still
<1>3. pc'[0] \in {"off", "idle", "join"} \cup Computing
  BY <1>1, <1>2 DEF IInv, Base
<1>4. pc'[0] = "off" => \A w \in Workers : pc'[w] = "off"
  <2>1. CASE t = 0
    BY <2>1 DEF Computing
  <2>2. CASE t # 0
    BY <1>1, <1>2, <2>2 DEF IInv, Base, Computing
  <2> QED
    BY <2>1, <2>2
<1>5. nGraph'.n = 0 => pc'[0] \notin Computing
  BY <1>1, <1>2 DEF IInv, Base
<1>6. \A w \in Workers : pc'[w] \notin {"idle", "join"}
  BY <1>1, <1>2 DEF IInv, Base, Computing
<1>7. \A w \in Workers : pending'[w] <=> pc'[w] = "start"
  <2> SUFFICES ASSUME NEW w \in Workers PROVE pending'[w] <=> pc'[w] = "start"
    OBVIOUS
  <2>1. pending[w] <=> pc[w] = "start"
    BY DEF IInv, Base
  <2>2. CASE w = t
    BY <1>1, <2>1, <2>2 DEF Computing
  <2>3. CASE w # t
    BY <1>1, <1>2, <2>1, <2>3
  <2> QED
    BY <2>2, <2>3
<1>8. \A u \in Threads : pc'[u] \notin Computing => node'[u] = 0
  BY <1>2 DEF IInv, Base
<1>9. \A u \in Threads : pc'[u] = "spin" => seen'[u] <= nPassed'
  <2> SUFFICES ASSUME NEW u \in Threads \ {t}, pc'[u] = "spin" PROVE seen'[u] <= nPassed'
    OBVIOUS
  <2>1. seen[u] <= nPassed /\ seen[u] \in Nat
    BY <1>1, <1>2 DEF IInv, Base
  <2> QED
    BY <1>1, <1>2, <2>1
<1> QED
  BY <1>3, <1>4, <1>5, <1>6, <1>7, <1>8, <1>9 DEF IInv, Base

\* A step of one thread puts nobody else into the graph.
LEMMA AloneOthers ==
    ASSUME IInv, NEW t \in Threads, Alone(t),
           t # 0 /\ (lastGraph'[t] # nGraph \/ t \notin Party) => Outside(t)'
    PROVE  Others'
<1>1. Workers = Threads \ {0} /\ nGraph' = nGraph /\ Party' = Party
  BY Ranges DEF IInv, Alone, Plain, Party
<1>2. ASSUME NEW w \in Workers, w # t, lastGraph'[w] # nGraph \/ w \notin Party PROVE Outside(w)'
  <2>1. Still(w) /\ Plain
    BY <1>1, <1>2 DEF Alone
  <2>2. Outside(w)
    BY <1>2, <2>1 DEF Still, IInv, Others
  <2> QED
    BY <2>1, <2>2, StillOutside
<1> QED
  BY <1>1, <1>2 DEF Others

\* A step between two barriers that leaves the chunks and the abort mark alone.
LEMMA AloneGap ==
    ASSUME IInv, NEW t \in Threads, Alone(t), NEW k, Gap(k), graph' = graph,
           abort' = abort, computed' = computed, t # 0 => currentChunk' = currentChunk,
           t \in Party => GapAt(k, t)'
    PROVE  Gap(k)'
<1>1. Party' = Party /\ Party \subseteq Threads /\ nGraph' = nGraph
  BY Ranges DEF IInv, Alone, Plain, Party
<1>2. ASSUME NEW u \in Party, u # t PROVE GapAt(k, u)'
  <2>1. Still(u) /\ Plain /\ GapAt(k, u)
    BY <1>1, <1>2 DEF Alone, Gap
  <2> QED
    BY <1>2, <2>1, StillGap
<1> QED
  BY <1>1, <1>2 DEF Gap, Complete, Empty, Cells

\* A step while node k is computed: what the thread holds, it keeps, has
\* computed, or finds past the last chunk.
LEMMA AloneMid ==
    ASSUME IInv, NEW t \in Threads, Alone(t), NEW k \in 0 .. NNodes - 1, Mid(k), graph' = graph,
           abort' \in {-1, k + 1}, computed' = computed, currentChunk' = currentChunk,
           t \in Party =>
               /\ MidAt(k, t)'
               /\ Holding(t)' => Holding(t) /\ Hold(t)' = Hold(t)
               /\ Holding(t) => Holding(t)' \/ Hold(t) >= Chunks(graph[k + 1], nGraph.n)
               /\ Past(t)' => \/ Past(t)
                              \/ Chunks(graph[k + 1], nGraph.n) <= nGraph.n
                              \/ currentChunk >= Chunks(graph[k + 1], nGraph.n)
    PROVE  Mid(k)'
<1>1. Party' = Party /\ Party \subseteq Threads /\ nGraph' = nGraph
  BY Ranges DEF IInv, Alone, Plain, Party
<1>2. ASSUME NEW u \in Party, u # t
      PROVE  /\ MidAt(k, u)' /\ (Holding(u)' <=> Holding(u))
             /\ Hold(u)' = Hold(u) /\ (Past(u)' <=> Past(u))
  <2>1. Still(u) /\ Plain /\ MidAt(k, u)
    BY <1>1, <1>2 DEF Alone, Mid
  <2>2. MidAt(k, u)'
    BY <2>1, StillMid
  <2>3. (Holding(u)' <=> Holding(u)) /\ Hold(u)' = Hold(u) /\ (Past(u)' <=> Past(u))
    BY <2>1 DEF Still, Plain, Holding, Hold, Past, Leaving, InBarrier
  <2> QED
    BY <2>2, <2>3
<1>3. \A u \in Party : MidAt(k, u)'
  BY <1>2
<1>4. \A u \in Party : /\ Holding(u)' => Holding(u) /\ Hold(u)' = Hold(u)
                       /\ Holding(u) => \/ Holding(u)' /\ Hold(u)' = Hold(u)
                                        \/ Hold(u) >= Chunks(graph[k + 1], nGraph.n)
                       /\ Past(u)' => \/ Past(u)
                                      \/ Chunks(graph[k + 1], nGraph.n) <= nGraph.n
                                      \/ currentChunk >= Chunks(graph[k + 1], nGraph.n)
  BY <1>2
<1> DEFINE N == Chunks(graph[k + 1], nGraph.n)
<1>5. N' = N /\ N \in Nat
  BY <1>1, ChunkFacts DEF IInv
<1>6. ASSUME NEW x \in 0 .. N - 1, x < currentChunk, <<k, x>> \notin computed
      PROVE  \E u \in Party : Holding(u)' /\ Hold(u)' = x
  <2>1. PICK u \in Party : Holding(u) /\ Hold(u) = x
    BY <1>6 DEF Mid, Handed
  <2>2. ~(x >= N)
    BY <1>5
  <2> QED
    BY <1>4, <2>1, <2>2
<1>7. Handed(k)'
  BY <1>1, <1>4, <1>5, <1>6 DEF Mid, Handed
<1> QED
  BY <1>1, <1>3, <1>7 DEF Mid, Complete, Empty, Cells

\* A step of a thread outside a finished graph.
LEMMA AloneFinished ==
    ASSUME IInv, NEW t \in Threads, Alone(t), Finished, graph' = graph,
           abort' = abort, computed' = computed, Outside(t)',
           t # 0 /\ t \in Party => lastGraph'[t] = nGraph
    PROVE  Finished'
<1>1. Party' = Party /\ Party \subseteq Threads /\ nGraph' = nGraph
  BY Ranges DEF IInv, Alone, Plain, Party
<1>2. \A u \in Threads : Outside(u)'
  BY StillOutside DEF Alone, Finished
<1>3. \A u \in Party : u # 0 => lastGraph'[u] = nGraph
  BY <1>1 DEF Alone, Still, Finished
<1> QED
  BY <1>1, <1>2, <1>3 DEF Finished, Result, NNodes, Empty, Cells

\* A thread that computes, or has not left the barrier, has joined the graph.
LEMMA Where ==
    ASSUME IInv, NEW t \in Threads, ~Outside(t)
    PROVE  /\ t \in Party /\ nGraph.n > 0 /\ (t # 0 => lastGraph[t] = nGraph)
           /\ \/ \E k \in 0 .. NNodes - 1 : Gap(k) /\ GapAt(k, t)
              \/ \E k \in 0 .. NNodes - 1 : Mid(k) /\ MidAt(k, t)
<1>1. nGraph.n \in Nat /\ Workers = Threads \ {0} /\ 0 \in Threads
  BY Ranges DEF IInv
<1>2. t \in Party /\ (t # 0 => lastGraph[t] = nGraph)
  <2>1. CASE t = 0
    <3>1. pc[0] \in Computing
      BY <2>1 DEF Outside, IInv, Base, Computing
    <3> QED
      BY <1>1, <2>1, <3>1 DEF IInv, Base, Party
  <2>2. CASE t # 0
    BY <1>1, <2>2 DEF IInv, Others
  <2> QED
    BY <2>1, <2>2
<1>3. nGraph.n > 0
  BY <1>1, <1>2 DEF Party
<1> QED
  BY <1>2, <1>3 DEF IInv, Finished, Gap, Mid

-----------------------------------------------------------------------------
(* The caller between two graphs, and the workers that wait                *)

\* Steps that only move threads, or change stop and pause.
LEMMA StirType ==
    ASSUME IInv, UNCHANGED <<nGraph, graph, bar, currentChunk, result, worker, ret, local, ghost>>,
           stop' \in BOOLEAN, pause' \in BOOLEAN, pc' \in [Threads -> Points]
    PROVE  TypeOK'
BY DEF IInv, TypeOK, NNodes, bar, result, worker, local, ghost

\* The calls of the caller that are not a graph: its own place changes, and a
\* sleeping worker may be woken.
LEMMA CallerStir ==
    ASSUME IInv, pc[0] \in {"idle", "join"}, NEW p \in {"off", "idle", "join"},
           UNCHANGED <<nGraph, graph, bar, currentChunk, result, worker, ret, local, ghost>>,
           stop' \in BOOLEAN, pause' \in BOOLEAN, pc' \in [Threads -> Points], pc'[0] = p,
           p = "off" => \A w \in Workers : pc'[w] = "off",
           \A w \in Workers : \/ pc'[w] = pc[w]
                              \/ pc[w] \in {"sleep", "pausesleep"} /\ pc'[w] \in {"check", "top"}
    PROVE  IInv'
<1>1. Workers = Threads \ {0} /\ 0 \in Threads
  BY Ranges DEF IInv
<1>2. TypeOK'
  BY StirType
<1>3. Base'
  <2>1. \A w \in Workers : /\ pc'[w] = "start" <=> pc[w] = "start"
                           /\ pc'[w] = "spin" <=> pc[w] = "spin"
                           /\ pc'[w] \notin {"idle", "join"}
                           /\ pc'[w] \in Computing <=> pc[w] \in Computing
    BY DEF IInv, Base, Computing
  <2>2. pc'[0] \notin Computing /\ pc'[0] # "spin" /\ pc[0] \notin Computing
    BY DEF Computing
  <2> QED
    BY <1>1, <2>1, <2>2 DEF IInv, Base, worker, local, bar, ghost
<1>4. \A t \in Threads : pc'[t] = pc[t] \/ (pc[t] \in Quiet /\ pc'[t] \in Quiet)
  BY <1>1 DEF Quiet, Points, Computing
<1> QED
  BY <1>2, <1>3, <1>4, Stir DEF worker

\* A broadcast wakes the sleepers and nobody else.
LEMMA BroadcastFacts ==
    ASSUME IInv, NEW p \in {"idle", "join"}, Broadcast(0, p)
    PROVE  /\ pc' \in [Threads -> Points] /\ pc'[0] = p
           /\ \A w \in Workers : \/ pc'[w] = pc[w]
                                 \/ /\ pc[w] \in {"sleep", "pausesleep"}
                                    /\ pc'[w] \in {"check", "top"}
<1>1. Workers = Threads \ {0} /\ 0 \in Threads
  BY Ranges DEF IInv
<1>2. pc' \in [Threads -> Points]
  BY DEF Broadcast, IInv, TypeOK, Points
<1> QED
  BY <1>1, <1>2 DEF Broadcast

\* Pause, Resume, Free and Join.
LEMMA CallerInv == ASSUME IInv, Pause \/ Resume \/ Free \/ Join PROVE IInv'
<1>1. stop \in BOOLEAN /\ pause \in BOOLEAN
  BY DEF IInv, TypeOK
<1>2. CASE Pause \/ Resume
  <2>1. Broadcast(0, "idle") /\ pc[0] = "idle" /\ stop' = stop /\ pause' \in BOOLEAN
    BY <1>2 DEF Pause, Resume
  <2>2. UNCHANGED <<nGraph, graph, bar, currentChunk, result, worker, ret, local, ghost>>
    BY <1>2 DEF Pause, Resume
  <2> QED
    BY <1>1, <2>1, <2>2, CallerStir, BroadcastFacts
<1>3. CASE Free
  <2>1. Broadcast(0, "join") /\ pc[0] = "idle" /\ stop' \in BOOLEAN /\ pause' \in BOOLEAN
    BY <1>3 DEF Free
  <2>2. UNCHANGED <<nGraph, graph, bar, currentChunk, result, worker, ret, local, ghost>>
    BY <1>3 DEF Free
  <2> QED
    BY <2>1, <2>2, CallerStir, BroadcastFacts
<1>4. CASE Join
  <2>1. Workers = Threads \ {0} /\ 0 \in Threads /\ pc \in [Threads -> Points]
    BY Ranges DEF IInv, TypeOK
  <2>2. pc' \in [Threads -> Points] /\ pc'[0] = "off" /\ \A w \in Workers : pc'[w] = pc[w]
    BY <1>4, <2>1 DEF Join, Goto, Points
  <2> QED
    BY <1>1, <1>4, <2>2, CallerStir DEF Join, pool
<1> QED
  BY <1>2, <1>3, <1>4

\* A waiting worker that has not noted the graph.
LEMMA WaitStir ==
    ASSUME IInv, NEW w \in Workers, NEW p \in Quiet \ {"idle", "join"}, pc[w] \in Quiet, Goto(w, p),
           p = "off" \/ pc[w] # "off",
           UNCHANGED <<pool, bar, currentChunk, result, worker, ret, local, ghost>>
    PROVE  IInv'
<1>1. Workers = Threads \ {0} /\ 0 \in Threads /\ pc \in [Threads -> Points]
      /\ stop \in BOOLEAN /\ pause \in BOOLEAN
  BY Ranges DEF IInv, TypeOK
<1>2. pc' \in [Threads -> Points] /\ pc'[w] = p /\ \A u \in Threads \ {w} : pc'[u] = pc[u]
  BY <1>1 DEF Goto, Quiet
<1>3. TypeOK'
  BY <1>1, <1>2, StirType DEF pool
<1>4. Base'
  <2>1. \A u \in Threads : /\ pc'[u] = "start" <=> pc[u] = "start"
                           /\ pc'[u] = "spin" <=> pc[u] = "spin"
                           /\ pc'[u] \in Computing <=> pc[u] \in Computing
    BY <1>2 DEF Quiet, Computing
  <2>2. pc'[0] = pc[0] /\ \A u \in Workers : pc'[u] \notin {"idle", "join"}
    BY <1>1, <1>2 DEF IInv, Base
  <2>3. pc'[0] = "off" => \A u \in Workers : pc'[u] = "off"
    BY <1>1, <1>2, <2>2 DEF IInv, Base
  <2> QED
    BY <1>1, <2>1, <2>2, <2>3 DEF IInv, Base, pool, worker, local, bar, ghost
<1>5. \A t \in Threads : pc'[t] = pc[t] \/ (pc[t] \in Quiet /\ pc'[t] \in Quiet)
  BY <1>2
<1> QED
  BY <1>3, <1>4, <1>5, Stir DEF pool, worker

\* Top, PauseLock, StopTest and Spurious.
LEMMA WaitInv ==
    ASSUME IInv, NEW w \in Workers, Top(w) \/ PauseLock(w) \/ StopTest(w) \/ Spurious(w)
    PROVE  IInv'
<1>1. CASE Top(w)
  <2>1. PICK p \in {"pauselock", "stoptest"} : Goto(w, p)
    BY <1>1 DEF Top
  <2>2. p \in Quiet \ {"idle", "join"} /\ pc[w] \in Quiet /\ pc[w] # "off"
    BY <1>1 DEF Top, Quiet, Points, Computing
  <2> QED
    BY <1>1, <2>1, <2>2, WaitStir DEF Top
<1>2. CASE PauseLock(w)
  <2>1. PICK p \in {"pausesleep", "top"} : Goto(w, p)
    BY <1>2 DEF PauseLock
  <2>2. p \in Quiet \ {"idle", "join"} /\ pc[w] \in Quiet /\ pc[w] # "off"
    BY <1>2 DEF PauseLock, Quiet, Points, Computing
  <2> QED
    BY <1>2, <2>1, <2>2, WaitStir DEF PauseLock
<1>3. CASE StopTest(w)
  <2>1. PICK p \in {"off", "poll"} : Goto(w, p)
    BY <1>3 DEF StopTest
  <2>2. p \in Quiet \ {"idle", "join"} /\ pc[w] \in Quiet /\ pc[w] # "off"
    BY <1>3 DEF StopTest, Quiet, Points, Computing
  <2> QED
    BY <1>3, <2>1, <2>2, WaitStir DEF StopTest
<1>4. CASE Spurious(w)
  <2>1. PICK p \in {"check", "top"} : Goto(w, p)
    BY <1>4 DEF Spurious
  <2>2. p \in Quiet \ {"idle", "join"} /\ pc[w] \in Quiet /\ pc[w] # "off"
    BY <1>4 DEF Spurious, Quiet, Points, Computing
  <2> QED
    BY <1>4, <2>1, <2>2, WaitStir DEF Spurious
<1> QED
  BY <1>1, <1>2, <1>3, <1>4

\* A waiting worker sees the new graph: it starts when it has a part in it.
LEMMA NoteInv ==
    ASSUME IInv, NEW w \in Workers, pc[w] \in {"poll", "check"}, nGraph # lastGraph[w],
           NEW p \in Points, Goto(w, p),
           IF w \in Party THEN p = "start" ELSE p \in {"top", "sleep", "check"},
           pending' = [pending EXCEPT ![w] = w \in Party],
           lastGraph' = [lastGraph EXCEPT ![w] = nGraph],
           UNCHANGED <<pool, bar, currentChunk, result, ret, local, ghost>>
    PROVE  IInv'
<1>1. /\ Workers = Threads \ {0} /\ 0 \in Threads /\ w \in Threads /\ w # 0
      /\ pc \in [Threads -> Points]
  BY Ranges DEF IInv, TypeOK
<1>2. /\ pc' \in [Threads -> Points] /\ pc'[w] = p /\ lastGraph'[w] = nGraph
      /\ \A u \in Threads \ {w} : pc'[u] = pc[u] /\ lastGraph'[u] = lastGraph[u]
      /\ pending'[w] = (w \in Party) /\ \A u \in Threads \ {w} : pending'[u] = pending[u]
  BY <1>1 DEF Goto, IInv, TypeOK
<1>3. Alone(w)
  BY <1>2 DEF Alone, Plain, Still, pool, bar, local
<1>4. TypeOK'
  <2>1. nGraph \in [count : 0 .. MaxGraphs, n : 0 .. NThreads]
    BY DEF IInv, TypeOK
  <2>2. lastGraph' \in [Threads -> [count : 0 .. MaxGraphs, n : 0 .. NThreads]]
    BY <2>1 DEF IInv, TypeOK
  <2>3. (w \in Party) \in BOOLEAN
    OBVIOUS
  <2>4. pending' \in [Threads -> BOOLEAN]
    BY <2>3 DEF IInv, TypeOK
  <2> QED
    BY <1>2, <2>2, <2>4 DEF IInv, TypeOK, NNodes, pool, bar, result, local, ghost
<1>5. Base'
  <2>0. p = "start" <=> w \in Party
    OBVIOUS
  <2>1. ASSUME NEW u \in Workers PROVE pending'[u] <=> pc'[u] = "start"
    <3>1. CASE u = w
      BY <1>2, <2>0, <3>1
    <3>2. CASE u # w
      BY <1>1, <1>2, <3>2 DEF IInv, Base
    <3> QED
      BY <3>1, <3>2
  <2>2. \A u \in Workers : lastGraph'[u].count <= nGraph.count
    <3>1. nGraph.count \in Nat
      BY Ranges DEF IInv
    <3> QED
      BY <1>1, <1>2, <3>1 DEF IInv, Base
  <2>3. pc'[0] = pc[0] /\ pc[0] # "off"
    BY <1>1, <1>2 DEF IInv, Base
  <2>4. p \in {"start", "top", "sleep", "check"}
    OBVIOUS
  <2>5. \A u \in Workers : pc'[u] \notin {"idle", "join"}
    BY <1>1, <1>2, <2>4 DEF IInv, Base
  <2>6. \A u \in Threads : /\ pc'[u] \in Computing <=> pc[u] \in Computing
                           /\ pc'[u] = "spin" <=> pc[u] = "spin"
    BY <1>2, <2>4 DEF Computing
  <2> QED
    BY <1>1, <2>1, <2>2, <2>3, <2>5, <2>6 DEF IInv, Base, pool, bar, local, ghost
<1>6. w \notin Party => Outside(w)'
  BY <1>2 DEF Outside, Computing
<1>7. Others'
  BY <1>1, <1>2, <1>3, <1>6, AloneOthers
<1>8. Counted'
  BY <1>1, <1>2, <1>3, CountedKeeps DEF IInv, Alone, bar
<1>9. ASSUME NEW k \in 0 .. NNodes - 1, Gap(k) PROVE Gap(k)'
  <2>1. ASSUME w \in Party PROVE GapAt(k, w)'
    <3>1. GapAt(k, w)
      BY <1>9, <2>1 DEF Gap
    <3>2. k = 0
      BY <1>1, <3>1 DEF GapAt, Joined
    <3> QED
      BY <1>1, <1>2, <2>1, <3>2 DEF GapAt
  <2> QED
    BY <1>1, <1>3, <1>9, <2>1, AloneGap DEF pool, result, ghost
<1>10. ASSUME NEW k \in 0 .. NNodes - 1, Mid(k) PROVE Mid(k)'
  <2>1. w \notin Party
    BY <1>1, <1>10 DEF Mid, MidAt, Joined
  <2>2. abort' \in {-1, k + 1}
    BY <1>10 DEF Mid, result
  <2> QED
    BY <1>1, <1>3, <1>10, <2>1, <2>2, AloneMid DEF pool, ghost
<1>11. ASSUME Finished PROVE Finished'
  <2>1. w \notin Party
    BY <1>1, <1>11 DEF Finished
  <2> QED
    BY <1>1, <1>3, <1>6, <1>11, <2>1, AloneFinished DEF pool, result, ghost
<1>12. NNodes' = NNodes
  BY DEF NNodes, pool
<1> QED
  BY <1>4, <1>5, <1>7, <1>8, <1>9, <1>10, <1>11, <1>12 DEF IInv

\* Poll and Check.
LEMMA LookInv == ASSUME IInv, NEW w \in Workers, Poll(w) \/ Check(w) PROVE IInv'
<1>1. /\ Workers = Threads \ {0} /\ w \in Threads /\ pc[w] \in {"poll", "check"}
      /\ NoteGraph(w) /\ nGraph.n \in Nat
      /\ UNCHANGED <<pool, bar, currentChunk, result, ret, local, ghost>>
  BY Ranges DEF Poll, Check, IInv
<1>2. ~pending[w] /\ pending \in [Threads -> BOOLEAN]
  BY <1>1 DEF IInv, Base, TypeOK
<1>3. w < nGraph.n <=> w \in Party
  <2>1. w \in Nat
    BY DEF Workers
  <2> QED
    BY <1>1, <2>1 DEF Party
<1>4. CASE ~stop /\ ~pause /\ nGraph # lastGraph[w]
  <2>1. /\ pending' = [pending EXCEPT ![w] = w < nGraph.n]
        /\ lastGraph' = [lastGraph EXCEPT ![w] = nGraph]
    BY <1>1, <1>2, <1>4 DEF NoteGraph
  <2>2. (w < nGraph.n) = (w \in Party)
    BY <1>3
  <2>3. pending' = [pending EXCEPT ![w] = w \in Party]
    BY <2>1, <2>2, Zenon
  <2>4. pending'[w] = (w \in Party)
    BY <1>1, <1>2, <2>3
  <2>5. PICK p \in Points : Goto(w, p) /\ IF w \in Party THEN p = "start" ELSE p \in {"top", "sleep", "check"}
    <3>1. {"start", "top", "sleep", "check"} \subseteq Points
      BY DEF Points
    <3>2. CASE w \in Party
      BY <2>4, <3>1, <3>2 DEF Poll, Check
    <3>3. CASE w \notin Party
      BY <1>4, <2>4, <3>1, <3>3 DEF Poll, Check, ThreadReady
    <3> QED
      BY <3>2, <3>3
  <2> QED
    BY <1>1, <1>4, <2>1, <2>3, <2>5, NoteInv
<1>5. CASE ~(~stop /\ ~pause /\ nGraph # lastGraph[w])
  <2>1. UNCHANGED worker
    BY <1>1, <1>5 DEF NoteGraph
  <2>2. ~pending'[w]
    BY <1>2, <2>1 DEF worker
  <2>3. PICK p \in {"top", "sleep", "check"} : Goto(w, p)
    BY <2>2 DEF Poll, Check
  <2>4. p \in Quiet \ {"idle", "join"} /\ pc[w] \in Quiet /\ pc[w] # "off"
    BY <1>1 DEF Quiet, Points, Computing
  <2> QED
    BY <1>1, <2>1, <2>3, <2>4, WaitStir
<1> QED
  BY <1>4, <1>5

\* Start(w): a worker that starts is in the gap before the first node.
LEMMA StartInv == ASSUME IInv, NEW w \in Workers, Start(w) PROVE IInv'
<1>1. /\ Workers = Threads \ {0} /\ w \in Threads /\ w # 0 /\ pc \in [Threads -> Points]
      /\ nGraph.n \in Nat /\ nGraph \in [count : 0 .. MaxGraphs, n : 0 .. NThreads]
      /\ NNodes \in Nat /\ 0 \in Threads
  BY Ranges DEF IInv, TypeOK
<1>2. /\ pc[w] = "start" /\ pc'[w] = "node" /\ node'[w] = 0 /\ nth'[w] = nGraph.n
      /\ \A u \in Threads \ {w} : pc'[u] = pc[u] /\ nth'[u] = nth[u] /\ node'[u] = node[u]
      /\ ~pending'[w] /\ \A u \in Threads \ {w} : pending'[u] = pending[u]
  BY <1>1 DEF Start, Goto, IInv, TypeOK
<1>3. Alone(w)
  BY <1>2 DEF Start, Alone, Plain, Still, pool, bar
<1>4. ~Outside(w)
  BY <1>2 DEF Outside, Stale, Leaving
<1>5. w \in Party /\ lastGraph[w] = nGraph
  BY <1>1, <1>4, Where
<1>6. TypeOK'
  <2>1. pc' \in [Threads -> Points]
    BY <1>1 DEF Start, Goto, Points, Computing
  <2>2. nth' \in [Threads -> 0 .. NThreads] /\ pending' \in [Threads -> BOOLEAN]
    BY <1>1 DEF Start, IInv, TypeOK
  <2>3. node' \in [Threads -> 0 .. NNodes] /\ NNodes' = NNodes
    BY <1>1 DEF Start, IInv, TypeOK, pool, NNodes
  <2> QED
    BY <2>1, <2>2, <2>3 DEF Start, IInv, TypeOK, pool, bar, result, ghost
<1>7. Base'
  <2>1. \A u \in Workers : pending'[u] <=> pc'[u] = "start"
    BY <1>1, <1>2 DEF IInv, Base
  <2>2. pc'[0] = pc[0] /\ pc[0] # "off" /\ \A u \in Workers : pc'[u] \notin {"idle", "join"}
    BY <1>1, <1>2 DEF IInv, Base
  <2>3. \A u \in Threads : /\ pc'[u] \notin Computing => pc[u] \notin Computing /\ u # w
                           /\ pc'[u] = "spin" <=> pc[u] = "spin"
    BY <1>2 DEF Computing
  <2>4. \A u \in Threads : pc'[u] \notin Computing => node'[u] = 0
    BY <1>2, <2>3 DEF IInv, Base
  <2> QED
    BY <1>1, <2>1, <2>2, <2>3, <2>4 DEF Start, IInv, Base, pool, bar, ghost
<1>8. Others'
  BY <1>1, <1>3, <1>5, AloneOthers DEF Start
<1>9. Counted'
  BY <1>1, <1>2, <1>3, CountedKeeps DEF Start, IInv, Alone, bar
<1>10. PICK k \in 0 .. NNodes - 1 : Gap(k) /\ GapAt(k, w)
  <2>1. ASSUME NEW k \in 0 .. NNodes - 1 PROVE ~MidAt(k, w)
    BY <1>2 DEF MidAt, Leaving, InBarrier
  <2> QED
    BY <1>4, <2>1, Where, <1>1
<1>11. k = 0
  BY <1>2, <1>10 DEF GapAt, Leaving, InBarrier
<1>12. GapAt(k, w)'
  <2>1. Reached(k, node[w])'
    <3>1. node'[w] \in 0 .. NNodes' /\ NNodes' = NNodes
      BY <1>1, <1>2 DEF Start, pool, NNodes
    <3> QED
      BY <1>2, <1>11, <3>1 DEF Reached
  <2>2. Joined(w)'
    BY <1>1, <1>2, <1>5 DEF Joined, Start, pool
  <2> QED
    BY <1>2, <2>1, <2>2 DEF GapAt
<1>13. Gap(k)'
  BY <1>1, <1>3, <1>10, <1>12, AloneGap DEF Start, pool, result, ghost
<1>14. NNodes' = NNodes
  BY DEF NNodes, Start, pool
<1> QED
  BY <1>6, <1>7, <1>8, <1>9, <1>13, <1>14 DEF IInv

-----------------------------------------------------------------------------
(* A thread that computes                                                  *)

\* A thread on its way to the barrier keeps the parts of the invariant that do
\* not depend on the node.
LEMMA LoopFrame ==
    ASSUME IInv, NEW t \in Threads, Alone(t), TypeOK', nBarrier' = nBarrier,
           UNCHANGED worker, twice' = {},
           pc[t] \in {"node", "set", "chunk", "take", "callback", "enter"},
           pc'[t] \in {"node", "set", "chunk", "take", "callback", "enter", "add"},
           pc'[t] = "add" => seen'[t] = nPassed
    PROVE  /\ Base' /\ Others' /\ Counted' /\ (t # 0 => lastGraph'[t] = nGraph)
           /\ t \in Party /\ nGraph.n > 0
<1>1. pc[t] \in Computing /\ pc'[t] \in Computing /\ ~Outside(t)
  BY DEF Computing, Outside, Stale, Leaving
<1>2. t \in Party /\ nGraph.n > 0 /\ (t # 0 => lastGraph[t] = nGraph)
  BY <1>1, Where
<1>3. nPassed \in Nat /\ nPassed' = nPassed /\ nGraph' = nGraph
  BY DEF IInv, TypeOK, Alone, Plain
<1>4. Base'
  BY <1>1, <1>3, AloneBase DEF Alone, worker
<1>5. Others'
  BY <1>2, AloneOthers DEF worker
<1>6. Counted'
  BY CountedKeeps DEF IInv, Alone
<1> QED
  BY <1>2, <1>4, <1>5, <1>6 DEF worker

\* A thread at the head of the loop, or at a barrier it is to set the counter
\* for, is between two barriers, or through with the last node.
LEMMA NodeHeadInv == ASSUME IInv, NEW t \in Threads, NodeHead(t) PROVE IInv'
<1>1. /\ pc \in [Threads -> Points] /\ node \in [Threads -> 0 .. NNodes] /\ NNodes \in Nat
      /\ ret \in [Threads -> {"none", "chunks", "advance", "end"}]
      /\ pc[t] = "node" /\ NNodes' = NNodes /\ abort \in -1 .. NNodes
      /\ UNCHANGED <<pool, bar, currentChunk, result, worker, nth, chunk, ghost>>
  BY Ranges DEF IInv, TypeOK, NodeHead, NNodes, pool
<1>2. \/ /\ node[t] < NNodes /\ abort # node[t] /\ Empty(node[t])
         /\ pc'[t] = "node" /\ node'[t] = node[t] + 1 /\ ret'[t] = ret[t]
      \/ /\ node[t] < NNodes /\ abort # node[t] /\ ~Empty(node[t])
         /\ pc'[t] = "set" /\ node'[t] = node[t] /\ ret'[t] = ret[t]
      \/ /\ node[t] = NNodes \/ abort = node[t]
         /\ pc'[t] = "enter" /\ node'[t] = 0 /\ ret'[t] = "end"
  BY <1>1 DEF NodeHead, EndOfNodes, Goto
<1>3. \A u \in Threads \ {t} : pc'[u] = pc[u] /\ node'[u] = node[u] /\ ret'[u] = ret[u]
  BY <1>1 DEF NodeHead, EndOfNodes, Goto
<1>4. Alone(t)
  BY <1>1, <1>3 DEF Alone, Plain, Still, pool, bar, worker
<1>5. TypeOK'
  <2>1. node' \in [Threads -> 0 .. NNodes]
    <3>1. node[t] < NNodes => node[t] + 1 \in 0 .. NNodes
      BY <1>1
    <3>2. 0 \in 0 .. NNodes
      BY <1>1
    <3> QED
      BY <1>1, <3>1, <3>2 DEF NodeHead
  <2>2. pc' \in [Threads -> Points]
    BY <1>1 DEF NodeHead, EndOfNodes, Goto, Points, Computing
  <2>3. ret' \in [Threads -> {"none", "chunks", "advance", "end"}]
    BY <1>1 DEF NodeHead, EndOfNodes
  <2> QED
    BY <1>1, <2>1, <2>2, <2>3 DEF IInv, TypeOK, pool, bar, result, worker, ghost
<1>6. Base' /\ Others' /\ Counted' /\ t \in Party /\ (t # 0 => lastGraph'[t] = nGraph)
  <2>1. twice' = {} /\ nBarrier' = nBarrier /\ UNCHANGED worker
    BY <1>1 DEF IInv, Base, ghost, bar
  <2> QED
    BY <1>1, <1>2, <1>4, <1>5, <2>1, LoopFrame
<1>7. ~Outside(t) /\ seen'[t] = seen[t] /\ nth'[t] = nth[t] /\ graph' = graph
      /\ abort' = abort /\ computed' = computed /\ nGraph' = nGraph /\ lastGraph' = lastGraph
  BY <1>1 DEF Outside, Stale, Leaving, Computing, bar, pool, result, ghost, worker
<1>8. ASSUME NEW k \in 0 .. NNodes - 1, Gap(k), GapAt(k, t) PROVE Gap(k)'
  <2>1. Joined(t) /\ Reached(k, node[t])
    BY <1>1, <1>6, <1>7, <1>8 DEF GapAt, InBarrier, Leaving
  <2>2. Joined(t)'
    BY <1>7, <2>1 DEF Joined
  <2>3. k \in Nat /\ node[t] \in k .. NNodes /\ (abort = -1 \/ abort = k)
        /\ \A i \in k .. node[t] - 1 : Empty(i)
    BY <1>8, <2>1 DEF Gap, Reached
  <2>4. CASE node[t] < NNodes /\ abort # node[t] /\ Empty(node[t])
             /\ pc'[t] = "node" /\ node'[t] = node[t] + 1
    <3>1. \A i \in k .. node'[t] - 1 : Empty(i)
      BY <1>1, <2>3, <2>4
    <3>2. Reached(k, node[t])'
      BY <1>1, <1>7, <2>1, <2>3, <2>4, <3>1 DEF Reached, Empty
    <3>3. GapAt(k, t)'
      BY <2>2, <2>4, <3>2 DEF GapAt
    <3> QED
      BY <1>1, <1>4, <1>7, <1>8, <3>3, AloneGap
  <2>5. CASE node[t] < NNodes /\ abort # node[t] /\ ~Empty(node[t])
             /\ pc'[t] = "set" /\ node'[t] = node[t]
    <3>1. First(k, node[t])
      BY <1>1, <2>1, <2>3, <2>5 DEF First, Reached
    <3>2. First(k, node[t])'
      BY <1>1, <1>7, <2>5, <3>1 DEF First, Reached, Empty
    <3>3. GapAt(k, t)'
      BY <2>2, <2>5, <3>2 DEF GapAt
    <3> QED
      BY <1>1, <1>4, <1>7, <1>8, <3>3, AloneGap
  <2>6. CASE (node[t] = NNodes \/ abort = node[t])
             /\ pc'[t] = "enter" /\ node'[t] = 0 /\ ret'[t] = "end"
    <3>1. Last(k)
      BY <1>1, <2>3, <2>6 DEF Last
    <3>2. Last(k)'
      BY <1>1, <1>7, <3>1 DEF Last, Empty
    <3>3. GapAt(k, t)'
      BY <2>2, <2>6, <3>2 DEF GapAt, InBarrier
    <3> QED
      BY <1>1, <1>4, <1>7, <1>8, <3>3, AloneGap
  <2> QED
    BY <1>2, <2>4, <2>5, <2>6
<1>9. ASSUME NEW k \in 0 .. NNodes - 1, Mid(k), MidAt(k, t) PROVE Mid(k)'
  <2>1. node[t] = k + 1 /\ k + 1 = NNodes /\ Joined(t)
    BY <1>1, <1>9 DEF MidAt, InBarrier, Leaving
  <2>2. pc'[t] = "enter" /\ node'[t] = 0 /\ ret'[t] = "end"
    BY <1>1, <1>2, <2>1
  <2>3. MidAt(k, t)'
    BY <1>1, <1>7, <2>1, <2>2 DEF MidAt, InBarrier, Joined
  <2>4. ~Holding(t)' /\ ~Holding(t) /\ Past(t)
    BY <1>1, <2>2 DEF Holding, Leaving, Past
  <2>5. abort' \in {-1, k + 1}
    BY <1>7, <1>9 DEF Mid
  <2> QED
    BY <1>1, <1>4, <1>7, <1>9, <2>3, <2>4, <2>5, AloneMid
<1> QED
  BY <1>1, <1>5, <1>6, <1>7, <1>8, <1>9, Where DEF IInv

\* SetChunks(t): thread 0 sets the counter before the barrier of the chunks.
LEMMA SetChunksInv == ASSUME IInv, NEW t \in Threads, SetChunks(t) PROVE IInv'
<1>1. /\ pc \in [Threads -> Points] /\ NNodes \in Nat /\ NNodes' = NNodes
      /\ ret \in [Threads -> {"none", "chunks", "advance", "end"}]
      /\ nth \in [Threads -> 0 .. NThreads] /\ currentChunk \in Nat /\ NThreads \in Nat
      /\ pc[t] = "set" /\ UNCHANGED <<pool, bar, result, worker, local, ghost>>
  BY Ranges, PoolConstants DEF IInv, TypeOK, SetChunks, NNodes, pool
<1>2. pc'[t] = "enter" /\ ret'[t] = "chunks"
      /\ \A u \in Threads \ {t} : pc'[u] = pc[u] /\ ret'[u] = ret[u]
  BY <1>1 DEF SetChunks, Goto
<1>3. Alone(t)
  BY <1>1, <1>2 DEF Alone, Plain, Still, pool, bar, worker, local
<1>4. TypeOK'
  <2>1. pc' \in [Threads -> Points] /\ ret' \in [Threads -> {"none", "chunks", "advance", "end"}]
    BY <1>1 DEF SetChunks, Goto, Points, Computing
  <2>2. currentChunk' \in Nat
    BY <1>1 DEF SetChunks, FirstFree
  <2> QED
    BY <1>1, <2>1, <2>2 DEF IInv, TypeOK, pool, bar, result, worker, local, ghost
<1>5. Base' /\ Others' /\ Counted' /\ t \in Party /\ (t # 0 => lastGraph'[t] = nGraph)
  <2>1. twice' = {} /\ nBarrier' = nBarrier /\ UNCHANGED worker
    BY <1>1 DEF IInv, Base, ghost, bar
  <2> QED
    BY <1>1, <1>2, <1>3, <1>4, <2>1, LoopFrame
<1>6. ~Outside(t) /\ nth'[t] = nth[t] /\ graph' = graph /\ node'[t] = node[t]
      /\ abort' = abort /\ computed' = computed /\ nGraph' = nGraph /\ lastGraph' = lastGraph
  BY <1>1 DEF Outside, Stale, Leaving, Computing, local, pool, result, ghost, worker
<1>7. PICK k \in 0 .. NNodes - 1 : Gap(k) /\ GapAt(k, t)
  <2>1. ASSUME NEW k \in 0 .. NNodes - 1 PROVE ~MidAt(k, t)
    BY <1>1 DEF MidAt, InBarrier, Leaving
  <2> QED
    BY <1>6, <2>1, Where
<1>8. Joined(t) /\ First(k, node[t])
  BY <1>1, <1>5, <1>6, <1>7 DEF GapAt, InBarrier, Leaving
<1>9. t # 0 => currentChunk' = currentChunk
  BY DEF SetChunks
<1>10. GapAt(k, t)'
  <2>1. First(k, node[t])'
    BY <1>1, <1>6, <1>8 DEF First, Reached, Empty
  <2>2. t = 0 => currentChunk' = nGraph'.n
    BY <1>6, <1>8 DEF SetChunks, FirstFree, Joined
  <2>3. Joined(t)'
    BY <1>6, <1>8 DEF Joined
  <2> QED
    BY <1>2, <2>1, <2>2, <2>3 DEF GapAt, InBarrier
<1>11. Gap(k)'
  BY <1>3, <1>6, <1>7, <1>9, <1>10, AloneGap
<1> QED
  BY <1>1, <1>4, <1>5, <1>11 DEF IInv

\* A thread in a matrix product computes the node that all compute.
LEMMA InNode ==
    ASSUME IInv, NEW t \in Threads, pc[t] \in {"chunk", "take", "callback"}
    PROVE  /\ t \in Party /\ ~Outside(t)
           /\ \E k \in 0 .. NNodes - 1 : Mid(k) /\ node[t] = k /\ Joined(t)
<1>1. ~Outside(t)
  BY DEF Outside, Stale, Leaving, Computing
<1>2. ASSUME NEW k \in 0 .. NNodes - 1, GapAt(k, t) PROVE FALSE
  <2>1. t # 0 => lastGraph[t] = nGraph
    BY <1>1, Where
  <2> QED
    BY <1>2, <2>1 DEF GapAt, InBarrier, Leaving
<1>3. PICK k \in 0 .. NNodes - 1 : Mid(k) /\ MidAt(k, t)
  BY <1>1, <1>2, Where
<1>4. node[t] = k /\ Joined(t)
  BY <1>3 DEF MidAt, InBarrier, Leaving
<1> QED
  BY <1>1, <1>3, <1>4, Where

\* Compute(t): the chunk a thread holds was computed by nobody, and is now.
LEMMA ComputeInv == ASSUME IInv, NEW t \in Threads, Compute(t) PROVE IInv'
<1>1. /\ pc \in [Threads -> Points] /\ NNodes \in Nat /\ NNodes' = NNodes
      /\ chunk[t] \in Nat /\ currentChunk \in Nat /\ pc[t] = "chunk"
      /\ UNCHANGED <<pool, bar, currentChunk, result, worker, ret, local>>
  BY Ranges DEF IInv, TypeOK, Compute, NNodes, pool
<1>2. PICK k \in 0 .. NNodes - 1 : Mid(k) /\ node[t] = k /\ Joined(t)
  BY <1>1, InNode
<1> DEFINE N == Chunks(graph[k + 1], nGraph.n)
<1>3. N \in Nat /\ N >= nGraph.n /\ nGraph.n \in Nat
  BY ChunkFacts, Ranges DEF IInv
<1>4. nth[t] = nGraph.n
  BY <1>2 DEF Joined
<1>5. \/ /\ chunk[t] < N
         /\ computed' = computed \cup {<<k, chunk[t]>>}
         /\ twice' = twice \cup (computed \cap {<<k, chunk[t]>>})
         /\ pc' = [pc EXCEPT ![t] = IF nGraph.n >= N THEN "callback" ELSE "take"]
      \/ chunk[t] >= N /\ pc' = [pc EXCEPT ![t] = "callback"] /\ UNCHANGED ghost
  BY <1>2, <1>4 DEF Compute, Goto
<1>6. /\ \A u \in Threads \ {t} : pc'[u] = pc[u]
      /\ pc'[t] \in {"take", "callback"}
      /\ pc'[t] = "callback" => chunk[t] >= N \/ N <= nGraph.n
      /\ pc' \in [Threads -> Points]
  <2>1. nGraph.n >= N <=> N <= nGraph.n
    BY <1>3
  <2> HIDE DEF N
  <2> QED
    BY <1>1, <1>5, <2>1 DEF Points, Computing
<1>7. Alone(t)
  BY <1>1, <1>6 DEF Alone, Plain, Still, pool, bar, worker, local
<1>8. Holding(t) /\ Hold(t) = chunk[t] /\ t \in Party
  BY <1>1, InNode DEF Holding, Hold
<1>9. chunk[t] < currentChunk /\ <<k, chunk[t]>> \notin computed
  BY <1>2, <1>8 DEF Mid, Handed
<1>10. twice' = {}
  BY <1>5, <1>9 DEF IInv, Base, ghost
<1>11. TypeOK'
  <2>1. computed' \subseteq (Nat \X Nat)
    BY <1>1, <1>2, <1>5 DEF IInv, TypeOK, ghost
  <2> QED
    BY <1>1, <1>6, <1>10, <2>1 DEF IInv, TypeOK, pool, bar, result, worker, local
<1>12. Base' /\ Others' /\ Counted'
  <2>1. nBarrier' = nBarrier /\ UNCHANGED worker
    BY <1>1 DEF bar
  <2> QED
    BY <1>1, <1>6, <1>7, <1>10, <1>11, <2>1, LoopFrame
<1>13. /\ nGraph' = nGraph /\ graph' = graph /\ abort' = abort /\ currentChunk' = currentChunk
       /\ node'[t] = node[t] /\ nth' = nth /\ lastGraph' = lastGraph /\ Party' = Party /\ N' = N
  BY <1>1 DEF pool, result, worker, local, Party
<1>14. CASE chunk[t] >= N /\ computed' = computed
  <2>1. pc'[t] = "callback"
    BY <1>1, <1>3, <1>5, <1>14
  <2>2. MidAt(k, t)'
    BY <1>2, <1>13, <2>1 DEF MidAt, Joined
  <2>3. ~Holding(t)' /\ currentChunk >= N
    BY <1>1, <1>3, <1>9, <1>14, <2>1 DEF Holding, Leaving
  <2>4. abort' \in {-1, k + 1}
    BY <1>2, <1>13 DEF Mid
  <2>5. Mid(k)'
    BY <1>2, <1>7, <1>8, <1>13, <1>14, <2>2, <2>3, <2>4, AloneMid
  <2> QED
    BY <1>1, <1>11, <1>12, <2>5 DEF IInv
<1>15. CASE chunk[t] < N /\ computed' = computed \cup {<<k, chunk[t]>>}
  <2>1. pc'[t] = "callback" => N <= nGraph.n
    BY <1>1, <1>3, <1>6, <1>15
  <2>2. MidAt(k, t)'
    BY <1>2, <1>6, <1>13 DEF MidAt, Joined
  <2>3. ~Holding(t)' /\ Past(t)' => pc'[t] = "callback"
    BY <1>6 DEF Past, InBarrier
  <2>4. ~Holding(t)'
    BY <1>6 DEF Holding, Leaving
  <2>5. ASSUME NEW u \in Party, u # t
        PROVE  /\ MidAt(k, u)' /\ (Holding(u)' <=> Holding(u))
               /\ Hold(u)' = Hold(u) /\ (Past(u)' <=> Past(u))
    <3>1. Still(u) /\ Plain /\ MidAt(k, u)
      BY <1>2, <1>7, <2>5, Ranges DEF Alone, Mid, IInv
    <3>2. MidAt(k, u)'
      BY <3>1, StillMid
    <3> QED
      BY <3>1, <3>2 DEF Still, Plain, Holding, Hold, Past, Leaving, InBarrier
  <2>6. ASSUME NEW u \in Party, Holding(u)'
        PROVE  /\ u # t /\ Holding(u) /\ Hold(u)' = Hold(u)
               /\ Hold(u)' < currentChunk /\ <<k, Hold(u)'>> \notin computed'
    <3>1. u # t /\ Holding(u) /\ Hold(u)' = Hold(u)
      BY <2>4, <2>5, <2>6
    <3>2. Hold(u) < currentChunk /\ <<k, Hold(u)>> \notin computed /\ Hold(u) # Hold(t)
      BY <1>2, <1>8, <3>1 DEF Mid, Handed
    <3> QED
      BY <1>8, <1>15, <3>1, <3>2
  <2>7. \A u, v \in Party : Holding(u)' /\ Holding(v)' /\ Hold(u)' = Hold(v)' => u = v
    BY <1>2, <2>6 DEF Mid, Handed
  <2>8. ASSUME NEW x \in 0 .. N - 1, x < currentChunk, <<k, x>> \notin computed'
        PROVE  \E u \in Party : Holding(u)' /\ Hold(u)' = x
    <3>1. <<k, x>> \notin computed /\ x # chunk[t]
      BY <1>15, <2>8
    <3>2. PICK u \in Party : Holding(u) /\ Hold(u) = x
      BY <1>2, <2>8, <3>1 DEF Mid, Handed
    <3> QED
      BY <1>8, <2>5, <3>1, <3>2
  <2>9. \A c \in computed' : c[1] = k => c[2] < currentChunk
    BY <1>2, <1>9, <1>15 DEF Mid, Handed
  <2>10. \A u \in Party : Past(u)' => N <= nGraph.n \/ currentChunk >= N
    BY <1>2, <2>1, <2>3, <2>4, <2>5 DEF Mid, Handed
  <2>11. currentChunk >= nGraph.n
    BY <1>2 DEF Mid, Handed
  <2>12. Handed(k)'
    BY <1>13, <2>6, <2>7, <2>8, <2>9, <2>10, <2>11 DEF Handed
  <2>13. \A c \in computed' : c[1] <= k
    BY <1>2, <1>15 DEF Mid
  <2>14. Complete(k)'
    BY <1>2, <1>13, <1>15 DEF Mid, Complete, Empty, Cells
  <2>15. \A u \in Party : MidAt(k, u)'
    BY <2>2, <2>5
  <2>16. Mid(k)'
    BY <1>2, <1>13, <2>12, <2>13, <2>14, <2>15 DEF Mid, Empty
  <2> QED
    BY <1>1, <1>11, <1>12, <2>16 DEF IInv
<1> QED
  BY <1>5, <1>14, <1>15 DEF ghost

\* TakeChunk(t): nobody holds, and nobody has computed, the next chunk.
LEMMA TakeChunkInv == ASSUME IInv, NEW t \in Threads, TakeChunk(t) PROVE IInv'
<1>1. /\ pc \in [Threads -> Points] /\ NNodes \in Nat /\ NNodes' = NNodes
      /\ chunk \in [Threads -> Nat] /\ currentChunk \in Nat /\ pc[t] = "take"
      /\ UNCHANGED <<pool, bar, result, worker, ret, nth, node, ghost>>
      /\ currentChunk' = currentChunk + 1
  BY Ranges DEF IInv, TypeOK, TakeChunk, NNodes, pool
<1>2. PICK k \in 0 .. NNodes - 1 : Mid(k) /\ node[t] = k /\ Joined(t)
  BY <1>1, InNode
<1> DEFINE N == Chunks(graph[k + 1], nGraph.n)
<1>3. N \in Nat /\ nGraph.n \in Nat /\ t \in Party
  BY <1>1, ChunkFacts, InNode, Ranges DEF IInv
<1>4. /\ pc'[t] = "chunk" /\ chunk'[t] = currentChunk
      /\ \A u \in Threads \ {t} : pc'[u] = pc[u] /\ chunk'[u] = chunk[u]
      /\ pc' \in [Threads -> Points] /\ chunk' \in [Threads -> Nat]
  BY <1>1 DEF TakeChunk, Goto, Points, Computing
<1>5. Alone(t)
  BY <1>1, <1>4 DEF Alone, Plain, Still, pool, bar, worker
<1>6. TypeOK'
  <2>1. currentChunk' \in Nat
    BY <1>1
  <2>2. node' \in [Threads -> 0 .. NNodes'] /\ abort' \in -1 .. NNodes'
    BY <1>1 DEF IInv, TypeOK, result
  <2> QED
    BY <1>1, <1>4, <2>1, <2>2 DEF IInv, TypeOK, pool, bar, result, worker, ghost
<1>7. Base' /\ Others' /\ Counted'
  <2>1. twice' = {} /\ nBarrier' = nBarrier /\ UNCHANGED worker
    BY <1>1 DEF IInv, Base, ghost, bar
  <2> QED
    BY <1>1, <1>4, <1>5, <1>6, <2>1, LoopFrame
<1>8. /\ nGraph' = nGraph /\ graph' = graph /\ abort' = abort /\ computed' = computed
      /\ node' = node /\ nth' = nth /\ lastGraph' = lastGraph /\ Party' = Party /\ N' = N
  BY <1>1 DEF pool, result, worker, ghost, Party
<1>9. ~Holding(t) /\ Holding(t)' /\ Hold(t)' = currentChunk /\ MidAt(k, t)' /\ ~Past(t)'
  BY <1>1, <1>2, <1>4, <1>8 DEF Holding, Hold, Leaving, MidAt, Joined, Past, InBarrier
<1>10. ASSUME NEW u \in Party, u # t
       PROVE  /\ MidAt(k, u)' /\ (Holding(u)' <=> Holding(u))
              /\ Hold(u)' = Hold(u) /\ (Past(u)' <=> Past(u)) /\ Hold(u) \in Nat
  <2>1. Still(u) /\ Plain /\ MidAt(k, u)
    BY <1>2, <1>5, <1>10, Ranges DEF Alone, Mid, IInv
  <2>2. MidAt(k, u)'
    BY <2>1, StillMid
  <2>3. Hold(u) \in Nat
    <3>1. u \in Nat
      BY <1>3 DEF Party
    <3> QED
      BY <1>1, <1>10, <3>1, Ranges DEF Hold, IInv
  <2> QED
    BY <2>1, <2>2, <2>3 DEF Still, Plain, Holding, Hold, Past, Leaving, InBarrier
<1>11. ASSUME NEW u \in Party, Holding(u)'
       PROVE  /\ Hold(u)' < currentChunk + 1 /\ <<k, Hold(u)'>> \notin computed
              /\ u # t => Holding(u) /\ Hold(u)' = Hold(u) /\ Hold(u)' # currentChunk
  <2>1. CASE u = t
    <3>1. <<k, currentChunk>> \notin computed
      BY <1>1, <1>2 DEF Mid, Handed
    <3> QED
      BY <1>1, <1>9, <2>1, <3>1
  <2>2. CASE u # t
    <3>1. Holding(u) /\ Hold(u)' = Hold(u) /\ Hold(u) \in Nat
      BY <1>10, <1>11, <2>2
    <3>2. Hold(u) < currentChunk /\ <<k, Hold(u)>> \notin computed
      BY <1>2, <3>1 DEF Mid, Handed
    <3> QED
      BY <1>1, <3>1, <3>2
  <2> QED
    BY <2>1, <2>2
<1>12. ASSUME NEW u \in Party, NEW v \in Party, Holding(u)', Holding(v)', Hold(u)' = Hold(v)'
       PROVE  u = v
  <2>1. CASE u # t /\ v # t
    BY <1>2, <1>11, <1>12, <2>1 DEF Mid, Handed
  <2>2. CASE u = t \/ v = t
    BY <1>9, <1>11, <1>12, <2>2
  <2> QED
    BY <2>1, <2>2
<1>13. ASSUME NEW x \in 0 .. N - 1, x < currentChunk + 1, <<k, x>> \notin computed
       PROVE  \E u \in Party : Holding(u)' /\ Hold(u)' = x
  <2>1. CASE x = currentChunk
    BY <1>3, <1>9, <2>1
  <2>2. CASE x # currentChunk
    <3>1. x < currentChunk
      BY <1>1, <1>13, <2>2
    <3>2. PICK u \in Party : Holding(u) /\ Hold(u) = x
      BY <1>2, <1>13, <3>1 DEF Mid, Handed
    <3> QED
      BY <1>9, <1>10, <3>2
  <2> QED
    BY <2>1, <2>2
<1>14. \A c \in computed : c[1] = k => c[2] < currentChunk + 1
  <2> SUFFICES ASSUME NEW c \in computed, c[1] = k PROVE c[2] < currentChunk + 1
    OBVIOUS
  <2>1. c[2] < currentChunk /\ c[2] \in Nat
    BY <1>2 DEF Mid, Handed, IInv, TypeOK
  <2> QED
    BY <1>1, <2>1
<1>15. \A u \in Party : Past(u)' => N <= nGraph.n \/ currentChunk + 1 >= N
  <2> SUFFICES ASSUME NEW u \in Party, Past(u)' PROVE N <= nGraph.n \/ currentChunk + 1 >= N
    OBVIOUS
  <2>1. Past(u)
    BY <1>9, <1>10
  <2>2. N <= nGraph.n \/ currentChunk >= N
    BY <1>2, <2>1 DEF Mid, Handed
  <2> QED
    BY <1>1, <1>3, <2>2
<1>16. currentChunk + 1 >= nGraph.n
  <2>1. currentChunk >= nGraph.n
    BY <1>2 DEF Mid, Handed
  <2> QED
    BY <1>1, <1>3, <2>1
<1>17. Handed(k)'
  BY <1>1, <1>8, <1>11, <1>12, <1>13, <1>14, <1>15, <1>16 DEF Handed
<1>18. Mid(k)'
  BY <1>2, <1>8, <1>9, <1>10, <1>17 DEF Mid, Complete, Empty, Cells
<1> QED
  BY <1>1, <1>6, <1>7, <1>18 DEF IInv

\* Callback(t): the mark is the next node, for all threads.
LEMMA CallbackInv == ASSUME IInv, NEW t \in Threads, Callback(t) PROVE IInv'
<1>1. /\ pc \in [Threads -> Points] /\ NNodes \in Nat /\ NNodes' = NNodes
      /\ node \in [Threads -> 0 .. NNodes] /\ chunk \in [Threads -> Nat]
      /\ ret \in [Threads -> {"none", "chunks", "advance", "end"}]
      /\ pc[t] = "callback" /\ UNCHANGED <<pool, bar, currentChunk, worker, nth, ghost>>
      /\ chunk' = [chunk EXCEPT ![t] = 0]
  BY Ranges DEF IInv, TypeOK, Callback, NNodes, pool
<1>2. PICK k \in 0 .. NNodes - 1 : Mid(k) /\ node[t] = k /\ Joined(t)
  BY <1>1, InNode
<1>3. \/ /\ k + 1 < NNodes /\ pc' = [pc EXCEPT ![t] = "enter"]
         /\ ret' = [ret EXCEPT ![t] = "advance"] /\ node' = node
      \/ /\ k + 1 = NNodes /\ pc' = [pc EXCEPT ![t] = "node"]
         /\ node' = [node EXCEPT ![t] = k + 1] /\ ret' = ret
  BY <1>1, <1>2 DEF Callback, Goto, MeetAfter
<1>4. \A u \in Threads \ {t} : /\ pc'[u] = pc[u] /\ node'[u] = node[u] /\ ret'[u] = ret[u]
                               /\ chunk'[u] = chunk[u]
  BY <1>1, <1>3
<1>5. Alone(t)
  BY <1>1, <1>4 DEF Alone, Plain, Still, pool, bar, worker
<1>6. /\ abort' \in {-1, k + 1} /\ abort' \in -1 .. NNodes
      /\ ec' \in {"success", "aborted"} /\ k + 1 \in 0 .. NNodes
  <2>1. k \in Nat /\ k + 1 \in 0 .. NNodes /\ node[t] = k
    BY <1>1, <1>2
  <2>2. (abort' = k + 1 /\ ec' = "aborted") \/ (abort' = abort /\ ec' = ec)
    BY <2>1 DEF Callback, AbortMark, result
  <2>3. abort \in {-1, k + 1} /\ ec \in {"success", "aborted"}
    BY <1>2 DEF Mid, IInv, TypeOK
  <2>4. -1 \in -1 .. NNodes /\ k + 1 \in -1 .. NNodes
    BY <1>1, <2>1
  <2> QED
    BY <2>1, <2>2, <2>3, <2>4
<1>7. TypeOK'
  <2>1. pc' \in [Threads -> Points]
    BY <1>1, <1>3 DEF Points, Computing
  <2>2. /\ ret' \in [Threads -> {"none", "chunks", "advance", "end"}]
        /\ node' \in [Threads -> 0 .. NNodes] /\ chunk' \in [Threads -> Nat]
    BY <1>1, <1>3, <1>6
  <2> QED
    BY <1>1, <1>6, <2>1, <2>2 DEF IInv, TypeOK, pool, bar, worker, ghost
<1>8. Base' /\ Others' /\ Counted' /\ t \in Party
  <2>1. /\ twice' = {} /\ nBarrier' = nBarrier /\ UNCHANGED worker
        /\ pc'[t] \in {"enter", "node"}
    BY <1>1, <1>3 DEF IInv, Base, ghost, bar
  <2> QED
    BY <1>1, <1>5, <1>7, <2>1, LoopFrame
<1>9. /\ nGraph' = nGraph /\ graph' = graph /\ computed' = computed /\ nth' = nth
      /\ lastGraph' = lastGraph /\ currentChunk' = currentChunk
  BY <1>1 DEF pool, worker, ghost
<1>10. MidAt(k, t)'
  BY <1>1, <1>2, <1>3, <1>9 DEF MidAt, Joined, InBarrier
<1>11. ~Holding(t)' /\ ~Holding(t) /\ Past(t)
  BY <1>1, <1>3 DEF Holding, Leaving, Past
<1>12. Mid(k)'
  BY <1>2, <1>5, <1>6, <1>9, <1>10, <1>11, AloneMid
<1> QED
  BY <1>1, <1>7, <1>8, <1>12 DEF IInv

-----------------------------------------------------------------------------
(* The barrier                                                             *)

\* A thread that has not left the barrier has a part in the graph.
LEMMA Arriving ==
    ASSUME IInv, NEW t \in Threads, InBarrier(t)
    PROVE  ~Outside(t) /\ pc[t] \in Computing /\ t \in Party
<1>1. ~Outside(t) /\ pc[t] \in Computing
  BY DEF Outside, Stale, Leaving, InBarrier, Computing
<1> QED
  BY <1>1, Where

\* A thread that moves on inside the barrier is where it was.
LEMMA BarrierKeeps ==
    ASSUME IInv, NEW t \in Threads, Alone(t), InBarrier(t), InBarrier(t)',
           ret'[t] = ret[t], UNCHANGED <<pool, currentChunk, result, worker, local, ghost>>
    PROVE  (\E k \in 0 .. NNodes - 1 : Gap(k)') \/ (\E k \in 0 .. NNodes - 1 : Mid(k)')
<1>1. ~Outside(t) /\ t \in Party /\ (t # 0 => lastGraph[t] = nGraph)
  BY Arriving, Where
<1>2. /\ nGraph' = nGraph /\ graph' = graph /\ computed' = computed /\ nth' = nth
      /\ abort' = abort /\ lastGraph' = lastGraph /\ node' = node /\ NNodes' = NNodes
  BY DEF pool, worker, ghost, local, result, NNodes
<1>3. pc[t] # "start" /\ ~Leaving(t) /\ pc[t] \notin {"node", "set", "chunk", "take", "callback"}
  BY DEF InBarrier, Leaving
<1>4. ASSUME NEW k \in 0 .. NNodes - 1, Gap(k), GapAt(k, t) PROVE Gap(k)'
  <2>1. GapAt(k, t)'
    BY <1>1, <1>2, <1>3, <1>4 DEF GapAt, Joined, First, Last, Reached, Empty
  <2> QED
    BY <1>2, <1>4, <2>1, AloneGap
<1>5. ASSUME NEW k \in 0 .. NNodes - 1, Mid(k), MidAt(k, t) PROVE Mid(k)'
  <2>1. MidAt(k, t)'
    BY <1>1, <1>2, <1>3, <1>5 DEF MidAt, Joined
  <2>2. ~Holding(t) /\ ~Holding(t)' /\ Past(t)
    BY <1>3 DEF Holding, Past, InBarrier, Leaving
  <2>3. abort' \in {-1, k + 1}
    BY <1>2, <1>5 DEF Mid
  <2> QED
    BY <1>2, <1>5, <2>1, <2>2, <2>3, AloneMid
<1> QED
  BY <1>1, <1>4, <1>5, Where

\* Enter(t), when there is more than one thread.
LEMMA EnterInv ==
    ASSUME IInv, NEW t \in Threads, Enter(t), nGraph.n # 1
    PROVE  IInv'
<1>1. /\ pc \in [Threads -> Points] /\ seen \in [Threads -> Nat] /\ nPassed \in Nat
      /\ NNodes' = NNodes /\ pc[t] = "enter"
      /\ seen' = [seen EXCEPT ![t] = nPassed] /\ pc' = [pc EXCEPT ![t] = "add"]
      /\ UNCHANGED <<pool, nBarrier, nPassed, currentChunk, result, worker, ret, local, ghost>>
  BY DEF IInv, TypeOK, Enter, Goto, NNodes, pool
<1>2. Alone(t)
  BY <1>1 DEF Alone, Plain, Still, pool, worker, local
<1>3. TypeOK'
  <2>1. pc' \in [Threads -> Points] /\ seen' \in [Threads -> Nat]
    BY <1>1 DEF Points, Computing
  <2> QED
    BY <1>1, <2>1 DEF IInv, TypeOK, pool, result, worker, local, ghost
<1>4. Base' /\ Others' /\ Counted'
  <2>1. twice' = {} /\ UNCHANGED worker /\ pc'[t] = "add" /\ seen'[t] = nPassed
    BY <1>1 DEF IInv, Base, ghost
  <2> QED
    BY <1>1, <1>2, <1>3, <2>1, LoopFrame
<1>5. InBarrier(t) /\ InBarrier(t)' /\ ret'[t] = ret[t]
  BY <1>1 DEF InBarrier
<1> QED
  BY <1>1, <1>2, <1>3, <1>4, <1>5, BarrierKeeps DEF IInv

\* While a thread is about to arrive, nobody releases the barrier.
LEMMA Unreleased ==
    ASSUME IInv, NEW t \in Threads, pc[t] = "add"
    PROVE  /\ \A u \in Threads : pc[u] \notin {"reset", "release"}
           /\ Arrived = {u \in Threads : pc[u] = "spin" /\ seen[u] = nPassed}
           /\ Arrived \subseteq Party \ {t} /\ t \in Party /\ seen[t] = nPassed
           /\ nBarrier = Cardinality(Arrived)
<1>1. t \in Party /\ seen[t] = nPassed
  BY Arriving DEF InBarrier, IInv, Counted
<1>2. \A u \in Threads : pc[u] \notin {"reset", "release"}
  BY <1>1 DEF IInv, Counted
<1>3. Arrived = {u \in Threads : pc[u] = "spin" /\ seen[u] = nPassed}
  BY <1>2 DEF Arrived
<1>4. Arrived \subseteq Party \ {t}
  BY <1>3, Arriving DEF InBarrier
<1>5. nBarrier = Cardinality(Arrived)
  BY <1>2 DEF IInv, Counted
<1> QED
  BY <1>1, <1>2, <1>3, <1>4, <1>5

\* Add(t): whoever counts the last arrival is alone with all others spinning.
LEMMA AddInv == ASSUME IInv, NEW t \in Threads, Add(t) PROVE IInv'
<1>1. /\ pc \in [Threads -> Points] /\ nPassed \in Nat /\ nBarrier \in Nat
      /\ nGraph.n \in Nat /\ nGraph.n <= NThreads /\ NThreads \in Nat
      /\ NNodes' = NNodes /\ pc[t] = "add" /\ nBarrier' = nBarrier + 1
      /\ pc' = [pc EXCEPT ![t] = IF nBarrier = nGraph.n - 1 THEN "reset" ELSE "spin"]
      /\ UNCHANGED <<pool, nPassed, seen, currentChunk, result, worker, ret, local, ghost>>
  BY Ranges, PoolConstants DEF IInv, TypeOK, Add, Goto, NNodes, pool
<1>2. Alone(t)
  BY <1>1 DEF Alone, Plain, Still, pool, worker, local
<1>3. /\ \A u \in Threads : pc[u] \notin {"reset", "release"}
      /\ Arrived = {u \in Threads : pc[u] = "spin" /\ seen[u] = nPassed}
      /\ Arrived \subseteq Party \ {t} /\ t \in Party /\ seen[t] = nPassed
      /\ nBarrier = Cardinality(Arrived)
  BY <1>1, Unreleased
<1>4. IsFiniteSet(Party) /\ Cardinality(Party) = nGraph.n
  <2>1. nGraph.n > 0
    BY <1>1, <1>3 DEF Party
  <2>2. nGraph.n - 1 \in Int /\ 0 \in Int /\ ~(0 > nGraph.n - 1) /\ nGraph.n - 1 - 0 + 1 = nGraph.n
    BY <1>1, <2>1
  <2>3. IsFiniteSet(0 .. nGraph.n - 1)
        /\ Cardinality(0 .. nGraph.n - 1) = nGraph.n - 1 - 0 + 1
    BY <2>2, FS_Interval
  <2> QED
    BY <2>2, <2>3 DEF Party
<1>5. IsFiniteSet(Arrived)
  BY <1>3, <1>4, FS_Subset
<1>6. Arrived' = Arrived \cup {t}
  BY <1>1, <1>3 DEF Arrived
<1>7. Cardinality(Arrived') = nBarrier + 1 /\ Arrived' \subseteq Party
  BY <1>3, <1>5, <1>6, FS_AddElement
<1>8. nBarrier + 1 <= nGraph.n /\ (nBarrier + 1 = nGraph.n => Arrived' = Party)
  BY <1>4, <1>7, FS_Subset
<1>9. TypeOK'
  <2>1. pc' \in [Threads -> Points]
    BY <1>1 DEF Points, Computing
  <2>2. nBarrier' \in 0 .. NThreads
    BY <1>1, <1>8
  <2> QED
    BY <1>1, <2>1, <2>2 DEF IInv, TypeOK, pool, result, worker, local, ghost
<1>10. seen' = seen /\ nPassed' = nPassed /\ twice' = {} /\ nGraph' = nGraph
       /\ pending' = pending /\ lastGraph' = lastGraph
  BY <1>1 DEF IInv, Base, ghost, pool, worker
<1>11. pc'[t] \in {"reset", "spin"} /\ pc[t] \in Computing /\ pc'[t] \in Computing
  BY <1>1 DEF Computing
<1>12. Base'
  BY <1>1, <1>2, <1>3, <1>9, <1>10, <1>11, AloneBase DEF Alone
<1>13. Others'
  <2>1. t # 0 => lastGraph'[t] = nGraph
    BY <1>1, <1>10, Where, Arriving DEF InBarrier
  <2> QED
    BY <1>2, <1>3, <2>1, AloneOthers
<1>14. Counted'
  <2>1. \A u \in Threads : pc'[u] # "release"
    BY <1>3, <1>11, <1>1
  <2>2. \A u \in Threads : pc'[u] = "add" => seen'[u] = nPassed'
    BY <1>1, <1>10, <1>11 DEF IInv, Counted
  <2>3. ASSUME NEW u \in Threads, pc'[u] \in {"reset", "release"}, NEW v \in Party \ {u}
        PROVE  pc'[v] = "spin" /\ seen'[v] = nPassed
    <3>1. u = t /\ nBarrier = nGraph.n - 1
      BY <1>1, <1>3, <2>3
    <3>2. v \in Arrived
      BY <1>1, <1>6, <1>8, <2>3, <3>1
    <3> QED
      BY <1>1, <1>3, <1>10, <2>3, <3>1, <3>2
  <2>4. Party' = Party
    BY <1>10 DEF Party
  <2> QED
    BY <1>1, <1>7, <1>10, <2>1, <2>2, <2>3, <2>4 DEF Counted
<1>15. InBarrier(t) /\ InBarrier(t)' /\ ret'[t] = ret[t]
  BY <1>1, <1>3, <1>10, <1>11 DEF InBarrier
<1> QED
  BY <1>1, <1>2, <1>9, <1>12, <1>13, <1>14, <1>15, BarrierKeeps DEF IInv

\* Reset(t): the counter is back at zero before anybody may leave.
LEMMA ResetInv == ASSUME IInv, NEW t \in Threads, Reset(t) PROVE IInv'
<1>1. /\ pc \in [Threads -> Points] /\ nPassed \in Nat /\ NThreads \in Nat
      /\ NNodes' = NNodes /\ pc[t] = "reset" /\ nBarrier' = 0
      /\ pc' = [pc EXCEPT ![t] = "release"]
      /\ UNCHANGED <<pool, nPassed, seen, currentChunk, result, worker, ret, local, ghost>>
  BY PoolConstants DEF IInv, TypeOK, Reset, Goto, NNodes, pool
<1>2. Alone(t)
  BY <1>1 DEF Alone, Plain, Still, pool, worker, local
<1>3. TypeOK'
  <2>1. pc' \in [Threads -> Points] /\ nBarrier' \in 0 .. NThreads
    BY <1>1 DEF Points, Computing
  <2> QED
    BY <1>1, <2>1 DEF IInv, TypeOK, pool, result, worker, local, ghost
<1>4. seen' = seen /\ nPassed' = nPassed /\ twice' = {} /\ nGraph' = nGraph
       /\ pending' = pending /\ lastGraph' = lastGraph /\ Party' = Party
  BY <1>1 DEF IInv, Base, ghost, pool, worker, Party
<1>5. InBarrier(t) /\ InBarrier(t)' /\ ret'[t] = ret[t] /\ pc'[t] = "release"
      /\ pc[t] \in Computing /\ pc'[t] \in Computing
  BY <1>1 DEF InBarrier, Computing
<1>6. Base'
  BY <1>1, <1>2, <1>3, <1>4, <1>5, AloneBase DEF Alone
<1>7. t \in Party /\ (t # 0 => lastGraph[t] = nGraph)
  BY <1>5, Arriving, Where
<1>8. Others'
  BY <1>2, <1>4, <1>7, AloneOthers
<1>9. Counted'
  <2>1. \A u \in Threads : pc'[u] \in {"reset", "release"} => pc[u] \in {"reset", "release"}
    BY <1>1
  <2>2. ASSUME NEW u \in Threads, pc'[u] \in {"reset", "release"}, NEW v \in Party \ {u}
        PROVE  pc'[v] = "spin" /\ seen'[v] = nPassed
    <3>1. pc[v] = "spin" /\ seen[v] = nPassed
      BY <2>1, <2>2 DEF IInv, Counted
    <3> QED
      BY <1>1, <1>4, <3>1
  <2>3. \A u \in Threads : pc'[u] = "add" => seen'[u] = nPassed'
    BY <1>1, <1>4 DEF IInv, Counted
  <2> QED
    BY <1>1, <1>4, <1>5, <2>2, <2>3 DEF Counted
<1> QED
  BY <1>1, <1>2, <1>3, <1>5, <1>6, <1>8, <1>9, BarrierKeeps DEF IInv

\* Why a thread is in the barrier.
LEMMA Reasons ==
    ASSUME IInv, NEW t \in Threads, InBarrier(t) \/ Leaving(t)
    PROVE  /\ ret[t] \in {"chunks", "advance", "end"}
           /\ ret[t] = "advance" => node[t] + 1 \in 0 .. NNodes
           /\ ret[t] = "end" => node[t] = 0
<1>1. NNodes \in Nat /\ pc[t] \notin {"start", "node", "set", "chunk", "take", "callback"}
  BY Ranges DEF IInv, InBarrier, Leaving
<1>2. CASE Outside(t)
  BY <1>2 DEF Outside, Stale, InBarrier, Leaving, Computing
<1>3. CASE ~Outside(t)
  <2>1. ASSUME NEW k \in 0 .. NNodes - 1, GapAt(k, t)
        PROVE  \/ ret[t] = "chunks"
               \/ ret[t] = "end" /\ node[t] = 0
               \/ ret[t] = "advance" /\ node[t] = k - 1
    <3>1. t # 0 => lastGraph[t] = nGraph
      BY <1>3, Where
    <3> QED
      BY <1>1, <2>1, <3>1 DEF GapAt
  <2>2. ASSUME NEW k \in 0 .. NNodes - 1, MidAt(k, t)
        PROVE  \/ ret[t] = "chunks"
               \/ ret[t] = "end" /\ node[t] = 0
               \/ ret[t] = "advance" /\ node[t] = k
    BY <1>1, <2>2 DEF MidAt
  <2>3. \A k \in 0 .. NNodes - 1 : (k - 1) + 1 \in 0 .. NNodes /\ k + 1 \in 0 .. NNodes
    BY <1>1
  <2> QED
    BY <1>3, <2>1, <2>2, <2>3, Where
<1> QED
  BY <1>2, <1>3

\* Leaving the barrier.
LEMMA LeaveFacts ==
    ASSUME IInv, NEW t \in Threads, InBarrier(t) \/ Leaving(t), Leave(t),
           UNCHANGED <<pool, currentChunk, result, worker, ghost>>,
           nBarrier' \in 0 .. NThreads, nPassed' \in Nat, seen' \in [Threads -> Nat]
    PROVE  /\ TypeOK' /\ NNodes' = NNodes /\ t \in Nat
           /\ pc'[t] \in {"chunk", "node", "idle", "top"}
           /\ ret[t] = "chunks" => /\ pc'[t] = "chunk" /\ node'[t] = node[t]
                                   /\ chunk'[t] = t /\ nth'[t] = nth[t]
           /\ ret[t] = "advance" => /\ pc'[t] = "node" /\ node'[t] = node[t] + 1
                                    /\ nth'[t] = nth[t]
           /\ ret[t] = "end" => /\ pc'[t] = IF t = 0 THEN "idle" ELSE "top"
                                /\ node'[t] = 0
           /\ \A u \in Threads \ {t} : /\ pc'[u] = pc[u] /\ ret'[u] = ret[u] /\ nth'[u] = nth[u]
                                       /\ node'[u] = node[u] /\ chunk'[u] = chunk[u]
<1>1. /\ pc \in [Threads -> Points] /\ node \in [Threads -> 0 .. NNodes]
      /\ ret \in [Threads -> {"none", "chunks", "advance", "end"}]
      /\ nth \in [Threads -> 0 .. NThreads] /\ chunk \in [Threads -> Nat]
      /\ t \in Nat /\ NThreads \in Nat /\ NNodes' = NNodes
  <2>1. t \in Nat /\ NThreads \in Nat
    BY PoolConstants DEF Threads
  <2> QED
    BY <2>1 DEF IInv, TypeOK, NNodes, pool
<1>2. /\ ret[t] \in {"chunks", "advance", "end"}
      /\ ret[t] = "advance" => node[t] + 1 \in 0 .. NNodes
      /\ ret[t] = "end" => node[t] = 0
  BY Reasons
<1>3. PICK p \in {"chunk", "node", "idle", "top"} :
         /\ pc' = [pc EXCEPT ![t] = p]
         /\ p = CASE ret[t] = "chunks" -> "chunk"
                  [] ret[t] = "advance" -> "node"
                  [] ret[t] = "end" -> IF t = 0 THEN "idle" ELSE "top"
  BY <1>2 DEF Leave, Goto
<1>4. pc' \in [Threads -> Points]
  BY <1>1, <1>3 DEF Points, Computing
<1>5. node' \in [Threads -> 0 .. NNodes]
  BY <1>1, <1>2 DEF Leave
<1>6. ret' \in [Threads -> {"none", "chunks", "advance", "end"}]
  BY <1>1 DEF Leave
<1>7. nth' \in [Threads -> 0 .. NThreads] /\ chunk' \in [Threads -> Nat]
  BY <1>1 DEF Leave
<1>8. TypeOK'
  BY <1>1, <1>4, <1>5, <1>6, <1>7 DEF IInv, TypeOK, pool, result, worker, ghost
<1>9. /\ pc'[t] = p /\ node'[t] = IF ret[t] = "advance" THEN node[t] + 1 ELSE node[t]
      /\ chunk'[t] = IF ret[t] = "chunks" THEN t ELSE 0
      /\ nth'[t] = IF ret[t] = "end" THEN 0 ELSE nth[t]
  BY <1>1, <1>3 DEF Leave
<1>10. \A u \in Threads \ {t} : /\ pc'[u] = pc[u] /\ ret'[u] = ret[u] /\ nth'[u] = nth[u]
                                /\ node'[u] = node[u] /\ chunk'[u] = chunk[u]
  BY <1>1 DEF Leave, Goto
<1> QED
  BY <1>1, <1>2, <1>3, <1>8, <1>9, <1>10

\* The next node is one node, and there is none when there is none.
LEMMA OneNext ==
    ASSUME NEW k \in Nat, NEW i \in Nat, NEW j \in Nat, NNodes \in Nat, First(k, i)
    PROVE  (First(k, j) => i = j) /\ ~Last(k)
<1>1. i \in k .. NNodes - 1 /\ ~Empty(i) /\ abort # k /\ \A x \in k .. i - 1 : Empty(x)
  BY DEF First, Reached
<1>2. ASSUME First(k, j) PROVE i = j
  <2>1. j \in k .. NNodes - 1 /\ ~Empty(j) /\ \A x \in k .. j - 1 : Empty(x)
    BY <1>2 DEF First, Reached
  <2> QED
    BY <1>1, <2>1
<1> QED
  BY <1>1, <1>2 DEF Last

\* When all threads of the graph are in the barrier, it separates: what comes
\* next is the same for all of them.
LEMMA Meet ==
    ASSUME IInv, NEW t \in Party, \A u \in Party : InBarrier(u), Leave(t), TypeOK',
           \A u \in Threads \ {t} : Still(u), \A u \in Party \ {t} : Leaving(u)',
           \A u \in Threads \ Party : Outside(u)',
           UNCHANGED <<pool, currentChunk, result, worker, ghost>>
    PROVE  \/ \E k \in 0 .. NNodes - 1 : Gap(k)'
           \/ \E k \in 0 .. NNodes - 1 : Mid(k)'
           \/ Finished'
<1>1. /\ t \in Threads /\ nGraph.n \in Nat /\ NNodes \in Nat /\ Party \subseteq Threads
      /\ nGraph.n > 0 /\ currentChunk \in Nat /\ abort \in Int
  <2>1. nGraph.n \in Nat /\ Party \subseteq Threads /\ NNodes \in Nat
    BY Ranges DEF IInv
  <2>2. nGraph.n > 0
    BY <2>1 DEF Party
  <2> QED
    BY <2>1, <2>2 DEF IInv, TypeOK
<1>2. /\ t \in Nat
      /\ pc'[t] \in {"chunk", "node", "idle", "top"}
      /\ ret[t] = "chunks" => /\ pc'[t] = "chunk" /\ node'[t] = node[t]
                              /\ chunk'[t] = t /\ nth'[t] = nth[t]
      /\ ret[t] = "advance" => pc'[t] = "node" /\ node'[t] = node[t] + 1 /\ nth'[t] = nth[t]
      /\ ret[t] = "end" => pc'[t] = (IF t = 0 THEN "idle" ELSE "top") /\ node'[t] = 0
  BY <1>1, LeaveFacts DEF TypeOK
<1>3. /\ nGraph' = nGraph /\ graph' = graph /\ computed' = computed /\ currentChunk' = currentChunk
      /\ abort' = abort /\ lastGraph' = lastGraph /\ NNodes' = NNodes /\ Party' = Party
  BY DEF pool, worker, ghost, result, NNodes, Party
<1>4. ASSUME NEW u \in Party
      PROVE  /\ ~Outside(u) /\ (u # 0 => lastGraph[u] = nGraph) /\ u \in Threads
             /\ pc[u] \notin {"start", "node", "set", "chunk", "take", "callback"} /\ ~Leaving(u)
  BY <1>1, <1>4, Arriving, Where DEF InBarrier, Leaving
<1>5. ASSUME NEW u \in Party, u # t
      PROVE  /\ Leaving(u)' /\ node'[u] = node[u] /\ ret'[u] = ret[u] /\ nth'[u] = nth[u]
             /\ pc'[u] = "spin"
  BY <1>1, <1>5 DEF Still, Leaving
<1>6. ASSUME Result, \A u \in Party : ret[u] = "end" /\ node[u] = 0
      PROVE  Finished'
  <2>1. ASSUME NEW u \in Threads PROVE Outside(u)'
    <3>1. CASE u = t
      BY <1>2, <1>6, <3>1 DEF Outside, Computing
    <3>2. CASE u \in Party \ {t}
      BY <1>5, <1>6, <3>2 DEF Outside, Stale
    <3> QED
      BY <3>1, <3>2
  <2>2. Result'
    BY <1>3, <1>6 DEF Result, Empty, Cells
  <2> QED
    BY <1>3, <1>4, <2>1, <2>2 DEF Finished
<1>7. ASSUME NEW k \in 0 .. NNodes - 1, Gap(k)
      PROVE  (\E j \in 0 .. NNodes - 1 : Mid(j)') \/ Finished'
  <2>1. ASSUME NEW u \in Party
        PROVE  /\ Joined(u)
               /\ \/ /\ ret[u] = "chunks" /\ First(k, node[u])
                     /\ u = 0 => currentChunk = nGraph.n
                  \/ ret[u] = "end" /\ node[u] = 0 /\ Last(k)
    <3>1. GapAt(k, u)
      BY <1>7 DEF Gap
    <3> QED
      BY <1>4, <3>1 DEF GapAt
  <2>2. \A u \in Party : node[u] \in Nat
    BY <1>1 DEF IInv, TypeOK
  <2>3. CASE ret[t] = "end"
    <3>1. Last(k)
      BY <2>1, <2>3
    <3>2. \A u \in Party : ret[u] = "end" /\ node[u] = 0
      BY <1>1, <2>1, <2>2, <3>1, OneNext
    <3>3. ASSUME NEW j \in 0 .. NNodes - 1, ~Empty(j)
          PROVE  IF abort = -1 \/ j < abort
                 THEN Cells(j, nGraph.n) \subseteq computed
                 ELSE Cells(j, nGraph.n) \cap computed = {}
      <4>1. CASE j < k
        <5>1. Cells(j, nGraph.n) \subseteq computed
          BY <1>7, <3>3, <4>1 DEF Gap, Complete
        <5>2. abort = -1 \/ j < abort
          BY <1>7, <4>1 DEF Gap
        <5> QED
          BY <5>1, <5>2
      <4>2. CASE ~(j < k)
        <5>1. j \in k .. NNodes - 1
          BY <4>2
        <5>2. abort = k
          BY <3>1, <3>3, <5>1 DEF Last
        <5>3. ~(abort = -1 \/ j < abort)
          BY <4>2, <5>2
        <5>4. \A c \in Cells(j, nGraph.n) : c[1] = j
          BY DEF Cells
        <5>5. \A c \in computed : c[1] < k
          BY <1>7 DEF Gap
        <5>6. Cells(j, nGraph.n) \cap computed = {}
          BY <4>2, <5>4, <5>5
        <5> QED
          BY <5>3, <5>6
      <4> QED
        BY <4>1, <4>2
    <3>4. Result
      BY <3>3 DEF Result
    <3> QED
      BY <1>6, <3>2, <3>4
  <2>4. CASE ret[t] = "chunks"
    <3>1. PICK j : j = node[t]
      OBVIOUS
    <3>2. First(k, j) /\ j \in Nat
      BY <2>1, <2>2, <2>4, <3>1
    <3>3. \A u \in Party : ret[u] = "chunks" /\ node[u] = j
      BY <1>1, <2>1, <2>2, <3>2, OneNext
    <3>4. /\ j \in 0 .. NNodes - 1 /\ ~Empty(j) /\ k <= j /\ abort = -1
          /\ \A i \in k .. j - 1 : Empty(i)
      BY <1>1, <1>7, <3>2 DEF First, Reached, Gap
    <3>5. currentChunk = nGraph.n
      <4>1. 0 \in Party
        BY <1>1 DEF Party
      <4>2. ret[0] = "chunks"
        BY <3>3, <4>1
      <4> QED
        BY <2>1, <4>1, <4>2
    <3>6. ASSUME NEW u \in Party
          PROVE  MidAt(j, u)' /\ Holding(u)' /\ Hold(u)' = u /\ ~Past(u)'
      <4>1. Joined(u)'
        <5>1. nth'[u] = nth[u]
          BY <1>2, <1>5, <3>3
        <5> QED
          BY <1>3, <2>1, <5>1 DEF Joined
      <4>2. CASE u = t
        <5>1. pc'[u] = "chunk" /\ node'[u] = j /\ chunk'[u] = u
          BY <1>2, <3>3, <4>2
        <5> QED
          BY <4>1, <5>1 DEF MidAt, Holding, Hold, Past, InBarrier
      <4>3. CASE u # t
        <5>1. Leaving(u)' /\ node'[u] = j /\ ret'[u] = "chunks"
          BY <1>5, <3>3, <4>3
        <5> QED
          BY <4>1, <5>1 DEF MidAt, Holding, Hold, Past, InBarrier, Leaving
      <4> QED
        BY <4>2, <4>3
    <3>7. \A c \in computed : c[1] < j
      <4> SUFFICES ASSUME NEW c \in computed PROVE c[1] < j
        OBVIOUS
      <4>1. c[1] < k /\ c[1] \in Nat
        BY <1>7 DEF Gap, IInv, TypeOK
      <4> QED
        BY <3>2, <3>4, <4>1
    <3>8. Handed(j)'
      <4>1. \A u \in Party : u < nGraph.n /\ <<j, u>> \notin computed
        <5>1. \A u \in Party : u < nGraph.n
          BY <1>1 DEF Party
        <5>2. \A u : <<j, u>> \notin computed
          BY <3>2, <3>7
        <5> QED
          BY <5>1, <5>2
      <4>2. ASSUME NEW N, NEW x \in 0 .. N - 1, x < nGraph.n PROVE x \in Party
        BY <1>1, <4>2 DEF Party
      <4>3. \A c \in computed : c[1] # j
        BY <3>2, <3>7
      <4>4. nGraph.n >= nGraph.n
        BY <1>1
      <4> QED
        BY <1>3, <3>5, <3>6, <4>1, <4>2, <4>3, <4>4 DEF Handed
    <3>9. Complete(j)
      <4> SUFFICES ASSUME NEW i \in 0 .. j - 1
                   PROVE  Empty(i) \/ Cells(i, nGraph.n) \subseteq computed
        BY DEF Complete
      <4>1. CASE i < k
        BY <1>7, <4>1 DEF Gap, Complete
      <4>2. CASE ~(i < k)
        BY <3>2, <3>4, <4>2
      <4> QED
        BY <4>1, <4>2
    <3>10. \A c \in computed : c[1] <= j
      <4> SUFFICES ASSUME NEW c \in computed PROVE c[1] <= j
        OBVIOUS
      <4>1. c[1] < j /\ c[1] \in Nat
        BY <3>7 DEF IInv, TypeOK
      <4> QED
        BY <3>2, <4>1
    <3>11. Mid(j)'
      BY <1>1, <1>3, <3>4, <3>6, <3>8, <3>9, <3>10 DEF Mid, Empty, Complete, Cells
    <3> QED
      BY <3>4, <3>11
  <2> QED
    BY <2>1, <2>3, <2>4
<1>8. ASSUME NEW k \in 0 .. NNodes - 1, Mid(k)
      PROVE  (\E j \in 0 .. NNodes - 1 : Gap(j)') \/ Finished'
  <2> DEFINE N == Chunks(graph[k + 1], nGraph.n)
  <2>1. N \in Nat /\ N >= nGraph.n
    BY ChunkFacts DEF IInv
  <2>2. ASSUME NEW u \in Party
        PROVE  /\ Joined(u) /\ ~Holding(u) /\ Past(u)
               /\ \/ ret[u] = "advance" /\ node[u] = k /\ k + 1 < NNodes
                  \/ ret[u] = "end" /\ node[u] = 0 /\ k + 1 = NNodes
    <3>1. MidAt(k, u)
      BY <1>8 DEF Mid
    <3> QED
      BY <1>4, <3>1 DEF MidAt, Holding, Past
  <2>3. Cells(k, nGraph.n) \subseteq computed
    <3>1. currentChunk >= N
      <4>1. N <= nGraph.n \/ currentChunk >= N
        BY <1>8, <2>2 DEF Mid, Handed
      <4>2. currentChunk >= nGraph.n
        BY <1>8 DEF Mid, Handed
      <4> QED
        BY <1>1, <2>1, <4>1, <4>2
    <3>2. ASSUME NEW x \in 0 .. N - 1 PROVE <<k, x>> \in computed
      <4>1. x < currentChunk
        BY <1>1, <2>1, <3>1
      <4> QED
        BY <1>8, <2>2, <4>1 DEF Mid, Handed
    <3> QED
      BY <3>2 DEF Cells
  <2>4. Complete(k + 1)
    <3> SUFFICES ASSUME NEW i \in 0 .. k + 1 - 1
                 PROVE  Empty(i) \/ Cells(i, nGraph.n) \subseteq computed
      BY DEF Complete
    <3>1. CASE i = k
      BY <2>3, <3>1
    <3>2. CASE i # k
      <4>1. i \in 0 .. k - 1
        BY <3>2
      <4> QED
        BY <1>8, <4>1 DEF Mid, Complete
    <3> QED
      BY <3>1, <3>2
  <2>5. CASE k + 1 = NNodes
    <3>1. \A u \in Party : ret[u] = "end" /\ node[u] = 0
      BY <1>1, <2>2, <2>5
    <3>2. ASSUME NEW j \in 0 .. NNodes - 1, ~Empty(j)
          PROVE  Cells(j, nGraph.n) \subseteq computed /\ (abort = -1 \/ j < abort)
      <4>1. j \in 0 .. k + 1 - 1
        BY <2>5
      <4>2. abort = -1 \/ abort = k + 1
        BY <1>8 DEF Mid
      <4> QED
        BY <2>4, <3>2, <4>1, <4>2 DEF Complete
    <3>3. Result
      BY <3>2 DEF Result
    <3> QED
      BY <1>6, <3>1, <3>3
  <2>6. CASE k + 1 < NNodes
    <3>1. \A u \in Party : ret[u] = "advance" /\ node[u] = k
      BY <1>1, <2>2, <2>6
    <3>2. k + 1 \in 0 .. NNodes - 1 /\ k + 1 > 0 /\ k + 1 \in k + 1 .. NNodes
          /\ k + 1 - 1 = k /\ (k + 1) .. (k + 1) - 1 = {}
      BY <1>1, <2>6
    <3>3. ASSUME NEW u \in Party PROVE GapAt(k + 1, u)'
      <4>1. Joined(u)'
        <5>1. nth'[u] = nth[u]
          BY <1>2, <1>5, <3>1
        <5> QED
          BY <1>3, <2>2, <5>1 DEF Joined
      <4>2. CASE u = t
        <5>1. pc'[u] = "node" /\ node'[u] = k + 1
          BY <1>2, <3>1, <4>2
        <5>2. Reached(k + 1, node[u])'
          BY <1>3, <3>2, <5>1 DEF Reached
        <5> QED
          BY <4>1, <5>1, <5>2 DEF GapAt
      <4>3. CASE u # t
        <5>1. Leaving(u)' /\ node'[u] = k + 1 - 1 /\ ret'[u] = "advance"
          BY <1>5, <3>1, <3>2, <4>3
        <5> QED
          BY <4>1, <5>1 DEF GapAt
      <4> QED
        BY <4>2, <4>3
    <3>4. \A c \in computed : c[1] < k + 1
      <4> SUFFICES ASSUME NEW c \in computed PROVE c[1] < k + 1
        OBVIOUS
      <4>1. c[1] <= k /\ c[1] \in Nat
        BY <1>8 DEF Mid, IInv, TypeOK
      <4> QED
        BY <4>1
    <3>5. abort \in {-1, k + 1}
      BY <1>8 DEF Mid
    <3>6. Gap(k + 1)'
      BY <1>1, <1>3, <2>4, <3>2, <3>3, <3>4, <3>5 DEF Gap, Complete, Empty, Cells
    <3> QED
      BY <3>2, <3>6
  <2> QED
    BY <1>1, <2>2, <2>5, <2>6
<1>9. ~Finished
  BY <1>1, <1>4 DEF Finished
<1> QED
  BY <1>7, <1>8, <1>9 DEF IInv

\* Passing the barrier keeps a thread outside that is outside.
LEMMA PassedOutside ==
    ASSUME IInv, NEW u \in Threads, Still(u), nPassed' = nPassed + 1, Outside(u)
    PROVE  Outside(u)'
<1>1. seen[u] \in Nat /\ nPassed \in Nat /\ (pc[u] = "spin" => seen[u] <= nPassed)
  BY DEF IInv, TypeOK, Base
<1>2. pc'[u] = pc[u] /\ seen'[u] = seen[u] /\ ret'[u] = ret[u] /\ node'[u] = node[u]
  BY DEF Still
<1>3. Stale(u) => Stale(u)'
  BY <1>1, <1>2 DEF Stale, Leaving
<1> QED
  BY <1>2, <1>3 DEF Outside

\* Release(t): the barrier is passed when all threads are in it.
LEMMA ReleaseInv == ASSUME IInv, NEW t \in Threads, Release(t) PROVE IInv'
<1>1. /\ nPassed \in Nat /\ seen \in [Threads -> Nat] /\ pc[t] = "release" /\ Leave(t)
      /\ nPassed' = nPassed + 1 /\ seen' = [seen EXCEPT ![t] = 0] /\ nBarrier' = nBarrier
      /\ UNCHANGED <<pool, currentChunk, result, worker, ghost>>
  BY DEF IInv, TypeOK, Release
<1>2. InBarrier(t) /\ pc[t] \in Computing
  BY <1>1 DEF InBarrier, Computing
<1>3. t \in Party /\ (t # 0 => lastGraph[t] = nGraph)
  BY <1>2, Arriving, Where
<1>4. nBarrier = 0 /\ NThreads \in Nat
  BY <1>1, PoolConstants DEF IInv, Counted
<1>5. /\ nBarrier' \in 0 .. NThreads /\ nPassed' \in Nat /\ seen' \in [Threads -> Nat]
      /\ nPassed <= nPassed'
  BY <1>1, <1>4
<1>6. /\ TypeOK' /\ NNodes' = NNodes
      /\ pc'[t] \in {"chunk", "node", "idle", "top"}
      /\ pc'[t] \notin Computing => node'[t] = 0 /\ pc'[t] = IF t = 0 THEN "idle" ELSE "top"
      /\ \A u \in Threads \ {t} : /\ pc'[u] = pc[u] /\ ret'[u] = ret[u] /\ nth'[u] = nth[u]
                                  /\ node'[u] = node[u] /\ chunk'[u] = chunk[u]
  BY <1>1, <1>2, <1>5, LeaveFacts, Reasons DEF Computing
<1>7. \A u \in Threads \ {t} : Still(u)
  BY <1>1, <1>6 DEF Still, worker
<1>8. /\ \A u \in Party \ {t} : pc[u] = "spin" /\ seen[u] = nPassed
      /\ \A u \in Party : InBarrier(u)
  BY <1>1, <1>2 DEF IInv, Counted, InBarrier
<1>9. nGraph' = nGraph /\ pending' = pending /\ lastGraph' = lastGraph /\ twice' = {}
      /\ Party' = Party
  BY <1>1 DEF pool, worker, ghost, IInv, Base, Party
<1>10. pc'[t] \in Computing \/ pc'[t] = IF t = 0 THEN "idle" ELSE "top"
  BY <1>6
<1>11. Base'
  BY <1>2, <1>5, <1>6, <1>7, <1>9, <1>10, AloneBase
<1>12. Workers = Threads \ {0} /\ 0 \in Threads /\ Party \subseteq Threads /\ 0 \in Party
  BY <1>3, Where, Arriving, <1>2, Ranges DEF IInv, Party
<1>13. Others'
  <2> SUFFICES ASSUME NEW w \in Workers, lastGraph[w] # nGraph \/ w \notin Party
               PROVE  Outside(w)'
    BY <1>9 DEF Others
  <2>1. Outside(w) /\ w # t
    BY <1>3, <1>12 DEF IInv, Others
  <2> QED
    BY <1>1, <1>7, <1>12, <2>1, PassedOutside
<1>14. \A u \in Threads \ Party : Outside(u)'
  BY <1>12, <1>9, <1>13 DEF Others
<1>15. ASSUME NEW u \in Threads
       PROVE  /\ pc'[u] \notin {"add", "reset", "release"}
              /\ ~(pc'[u] = "spin" /\ seen'[u] = nPassed')
  <2>1. CASE u = t
    BY <1>6, <2>1
  <2>2. CASE u # t
    <3>1. pc[u] \notin {"add", "reset", "release"}
      <4>1. pc[u] \in {"add", "reset", "release"} => u \in Party
        BY Arriving DEF InBarrier
      <4> QED
        BY <1>8, <2>2, <4>1
    <3>2. pc[u] = "spin" => seen[u] <= nPassed /\ seen[u] \in Nat
      BY <1>1 DEF IInv, Base
    <3> QED
      BY <1>1, <1>6, <2>2, <3>1, <3>2
  <2> QED
    BY <2>1, <2>2
<1>16. Counted'
  <2>1. Arrived' = {}
    BY <1>15 DEF Arrived
  <2> QED
    BY <1>1, <1>4, <1>15, <2>1, FS_EmptySet DEF Counted
<1>17. \A u \in Party \ {t} : Leaving(u)'
  <2> SUFFICES ASSUME NEW u \in Party \ {t} PROVE pc'[u] = "spin" /\ seen'[u] # nPassed'
    BY DEF Leaving
  <2>1. pc'[u] = "spin" /\ seen'[u] = nPassed
    BY <1>1, <1>6, <1>8, <1>12
  <2> QED
    BY <1>1, <2>1
<1>18. (\E k \in 0 .. NNodes - 1 : Gap(k)') \/ (\E k \in 0 .. NNodes - 1 : Mid(k)') \/ Finished'
  BY <1>1, <1>3, <1>6, <1>7, <1>8, <1>14, <1>17, Meet
<1> QED
  BY <1>6, <1>11, <1>13, <1>16, <1>18 DEF IInv

\* One thread needs no barrier.
LEMMA EnterAloneInv ==
    ASSUME IInv, NEW t \in Threads, Enter(t), nGraph.n = 1
    PROVE  IInv'
<1>1. /\ nPassed \in Nat /\ seen \in [Threads -> Nat] /\ pc[t] = "enter" /\ Leave(t)
      /\ seen' = seen /\ nBarrier' = nBarrier /\ nPassed' = nPassed
      /\ nBarrier \in 0 .. NThreads
      /\ UNCHANGED <<pool, currentChunk, result, worker, ghost>>
  BY DEF IInv, TypeOK, Enter
<1>2. InBarrier(t) /\ pc[t] \in Computing
  BY <1>1 DEF InBarrier, Computing
<1>3. t \in Party /\ (t # 0 => lastGraph[t] = nGraph)
  BY <1>2, Arriving, Where
<1>4. Party = {t} /\ 0 \in Party
  <2>1. Party = {0}
    BY DEF Party
  <2> QED
    BY <1>3, <2>1
<1>5. /\ TypeOK' /\ NNodes' = NNodes
      /\ pc'[t] \in {"chunk", "node", "idle", "top"}
      /\ pc'[t] \notin Computing => node'[t] = 0 /\ pc'[t] = IF t = 0 THEN "idle" ELSE "top"
      /\ \A u \in Threads \ {t} : /\ pc'[u] = pc[u] /\ ret'[u] = ret[u] /\ nth'[u] = nth[u]
                                  /\ node'[u] = node[u] /\ chunk'[u] = chunk[u]
  BY <1>1, <1>2, LeaveFacts, Reasons DEF Computing
<1>6. Alone(t)
  BY <1>1, <1>5 DEF Alone, Plain, Still, worker, pool
<1>7. nGraph' = nGraph /\ pending' = pending /\ lastGraph' = lastGraph /\ twice' = {}
  BY <1>1 DEF pool, worker, ghost, IInv, Base
<1>8. pc'[t] \in Computing \/ pc'[t] = IF t = 0 THEN "idle" ELSE "top"
  BY <1>5
<1>9. Base'
  <2>1. nPassed <= nPassed' /\ pc'[t] # "spin"
    BY <1>1, <1>5
  <2> QED
    BY <1>2, <1>5, <1>6, <1>7, <1>8, <2>1, AloneBase DEF Alone
<1>10. Others'
  BY <1>3, <1>6, <1>7, AloneOthers
<1>11. Counted'
  BY <1>1, <1>5, <1>6, CountedKeeps DEF IInv, Alone
<1>12. \A u \in Threads \ Party : Outside(u)'
  <2>1. Workers = Threads \ {0} /\ nGraph' = nGraph /\ Party' = Party
    BY <1>7, Ranges DEF IInv, Party
  <2> QED
    BY <1>4, <1>10, <2>1 DEF Others
<1>13. (\E k \in 0 .. NNodes - 1 : Gap(k)') \/ (\E k \in 0 .. NNodes - 1 : Mid(k)') \/ Finished'
  BY <1>1, <1>2, <1>4, <1>5, <1>6, <1>12, Meet DEF Alone
<1> QED
  BY <1>5, <1>9, <1>10, <1>11, <1>13 DEF IInv

\* Spin(t): a thread leaves a barrier that was passed.
LEMMA SpinInv == ASSUME IInv, NEW t \in Threads, Spin(t) PROVE IInv'
<1>1. /\ nPassed \in Nat /\ seen \in [Threads -> Nat] /\ pc[t] = "spin" /\ nPassed # seen[t]
      /\ Leave(t) /\ seen' = [seen EXCEPT ![t] = 0] /\ nBarrier' = nBarrier /\ nPassed' = nPassed
      /\ nBarrier \in 0 .. NThreads
      /\ UNCHANGED <<pool, currentChunk, result, worker, ghost>>
  BY DEF IInv, TypeOK, Spin
<1>2. Leaving(t) /\ ~InBarrier(t) /\ pc[t] \in Computing
  BY <1>1 DEF Leaving, InBarrier, Computing
<1>3. seen' \in [Threads -> Nat] /\ \A u \in Threads \ {t} : seen'[u] = seen[u]
  BY <1>1
<1>4. /\ TypeOK' /\ NNodes' = NNodes /\ t \in Nat
      /\ pc'[t] \in {"chunk", "node", "idle", "top"}
      /\ ret[t] = "chunks" => /\ pc'[t] = "chunk" /\ node'[t] = node[t]
                              /\ chunk'[t] = t /\ nth'[t] = nth[t]
      /\ ret[t] = "advance" => pc'[t] = "node" /\ node'[t] = node[t] + 1 /\ nth'[t] = nth[t]
      /\ ret[t] = "end" => pc'[t] = (IF t = 0 THEN "idle" ELSE "top") /\ node'[t] = 0
      /\ \A u \in Threads \ {t} : /\ pc'[u] = pc[u] /\ ret'[u] = ret[u] /\ nth'[u] = nth[u]
                                  /\ node'[u] = node[u] /\ chunk'[u] = chunk[u]
  BY <1>1, <1>2, <1>3, LeaveFacts
<1>5. pc'[t] \notin Computing => node'[t] = 0 /\ pc'[t] = IF t = 0 THEN "idle" ELSE "top"
  BY <1>2, <1>4, Reasons DEF Computing
<1>6. Alone(t)
  BY <1>1, <1>3, <1>4 DEF Alone, Plain, Still, worker, pool
<1>7. /\ nGraph' = nGraph /\ pending' = pending /\ lastGraph' = lastGraph /\ twice' = {}
      /\ graph' = graph /\ abort' = abort /\ computed' = computed
      /\ currentChunk' = currentChunk /\ Party' = Party
  BY <1>1 DEF pool, worker, ghost, IInv, Base, result, Party
<1>8. Base'
  <2>1. nPassed <= nPassed' /\ pc'[t] # "spin"
    BY <1>1, <1>4
  <2>2. pc'[t] \in Computing \/ pc'[t] = IF t = 0 THEN "idle" ELSE "top"
    BY <1>5
  <2> QED
    BY <1>2, <1>4, <1>5, <1>6, <1>7, <2>1, <2>2, AloneBase DEF Alone
<1>9. Outside(t) => Outside(t)' /\ ret[t] = "end"
  BY <1>2, <1>4 DEF Outside, Stale, Computing
<1>10. Others'
  BY <1>6, <1>7, <1>9, AloneOthers, Where
<1>11. Counted'
  <2>1. Arrived' = Arrived
    BY <1>1, <1>3, <1>4 DEF Arrived
  <2>2. (\E u \in Threads : pc'[u] = "release") <=> (\E u \in Threads : pc[u] = "release")
    BY <1>1, <1>4
  <2>3. \A u \in Threads : pc'[u] = "add" => seen'[u] = nPassed'
    BY <1>1, <1>3, <1>4 DEF IInv, Counted
  <2>4. ASSUME NEW u \in Threads, pc'[u] \in {"reset", "release"}, NEW v \in Party \ {u}
        PROVE  pc'[v] = "spin" /\ seen'[v] = nPassed
    <3>1. u # t /\ pc[u] \in {"reset", "release"} /\ v \in Threads
      BY <1>4, <2>4, Ranges DEF IInv
    <3>2. pc[v] = "spin" /\ seen[v] = nPassed
      BY <2>4, <3>1 DEF IInv, Counted
    <3> QED
      BY <1>1, <1>3, <1>4, <3>1, <3>2
  <2> QED
    BY <1>1, <1>7, <2>1, <2>2, <2>3, <2>4 DEF IInv, Counted
<1>12. ASSUME NEW k \in 0 .. NNodes - 1, Gap(k) PROVE Gap(k)'
  <2>1. ASSUME t \in Party PROVE GapAt(k, t)'
    <3>1. GapAt(k, t)
      BY <1>12, <2>1 DEF Gap
    <3>2. CASE k = 0 /\ t # 0 /\ lastGraph[t] # nGraph
      BY <1>7, <3>2 DEF GapAt
    <3>3. CASE Joined(t) /\ ret[t] = "advance" /\ node[t] = k - 1
      <4>1. k \in Nat /\ NNodes \in Nat /\ k - 1 + 1 = k /\ k \in k .. NNodes /\ k .. k - 1 = {}
        BY Ranges DEF IInv
      <4>2. pc'[t] = "node" /\ node'[t] = k /\ nth'[t] = nth[t]
        BY <1>4, <3>3, <4>1
      <4>3. Reached(k, node[t])'
        BY <1>4, <4>1, <4>2 DEF Reached
      <4>4. Joined(t)'
        BY <1>7, <3>3, <4>2 DEF Joined
      <4> QED
        BY <4>2, <4>3, <4>4 DEF GapAt
    <3> QED
      BY <1>1, <1>2, <3>1, <3>2, <3>3 DEF GapAt
  <2> QED
    BY <1>6, <1>7, <1>12, <2>1, AloneGap
<1>13. ASSUME NEW k \in 0 .. NNodes - 1, Mid(k) PROVE Mid(k)'
  <2>1. ASSUME t \in Party
        PROVE  /\ MidAt(k, t)' /\ Holding(t) /\ Holding(t)' /\ Hold(t)' = Hold(t) /\ ~Past(t)'
    <3>1. Joined(t) /\ ret[t] = "chunks" /\ node[t] = k
      <4>1. MidAt(k, t)
        BY <1>13, <2>1 DEF Mid
      <4> QED
        BY <1>1, <1>2, <4>1 DEF MidAt
    <3>2. pc'[t] = "chunk" /\ node'[t] = k /\ chunk'[t] = t /\ nth'[t] = nth[t]
      BY <1>4, <3>1
    <3>3. MidAt(k, t)'
      BY <1>7, <3>1, <3>2 DEF MidAt, Joined
    <3> QED
      BY <1>1, <1>2, <3>2, <3>3 DEF Holding, Hold, Past, InBarrier
  <2>2. abort' \in {-1, k + 1}
    BY <1>7, <1>13 DEF Mid
  <2> QED
    BY <1>6, <1>7, <1>13, <2>1, <2>2, AloneMid
<1>14. ASSUME Finished PROVE Finished'
  <2>1. Outside(t)'
    BY <1>9, <1>14 DEF Finished
  <2>2. t # 0 /\ t \in Party => lastGraph'[t] = nGraph
    BY <1>7, <1>14 DEF Finished
  <2> QED
    BY <1>6, <1>7, <1>14, <2>1, <2>2, AloneFinished
<1> QED
  BY <1>4, <1>8, <1>10, <1>11, <1>12, <1>13, <1>14 DEF IInv

-----------------------------------------------------------------------------
(* The theorems                                                            *)

\* A step that changes nothing.
LEMMA StutterInv == ASSUME IInv, UNCHANGED vars PROVE IInv'
<1> USE DEF vars, pool, bar, result, worker, local, ghost
<1>1. TypeOK'
  BY DEF IInv, TypeOK, NNodes
<1>2. Base'
  BY DEF IInv, Base
<1> QED
  BY <1>1, <1>2, Stir

\* Every step of the pool keeps the invariant.
LEMMA NextInv == IInv /\ [Next]_vars => IInv'
<1> SUFFICES ASSUME IInv, [Next]_vars PROVE IInv'
  OBVIOUS
<1>1. CASE Caller
  BY <1>1, NewInv, GraphComputeInv, CallerInv DEF Caller
<1>2. CASE Join
  BY <1>2, CallerInv
<1>3. ASSUME NEW t \in Threads, Loop(t) PROVE IInv'
  BY <1>3, NodeHeadInv, SetChunksInv, ComputeInv, TakeChunkInv, CallbackInv DEF Loop
<1>4. ASSUME NEW t \in Threads, Barrier(t) PROVE IInv'
  BY <1>4, EnterInv, EnterAloneInv, AddInv, ResetInv, ReleaseInv, SpinInv DEF Barrier
<1>5. ASSUME NEW w \in Workers, Wait(w) \/ Spurious(w) PROVE IInv'
  BY <1>5, WaitInv, LookInv, StartInv DEF Wait
<1>6. CASE UNCHANGED vars
  BY <1>6, StutterInv
<1> QED
  BY <1>1, <1>2, <1>3, <1>4, <1>5, <1>6 DEF Next

\* The invariant of the pool, for any number of threads and any graphs.
THEOREM Invariant == Spec => []IInv
<1>1. Init => IInv
  BY InitInv
<1>2. IInv /\ [Next]_vars => IInv'
  BY NextInv
<1> QED
  BY <1>1, <1>2, PTL DEF Spec

\* No thread computes a node before the nodes it may read from are complete.
THEOREM InOrder == Spec => []NodesInOrder
<1>1. IInv => NodesInOrder
  <2> SUFFICES ASSUME IInv, NEW t \in Threads, pc[t] = "chunk", NEW j \in 0 .. node[t] - 1
               PROVE  Empty(j) \/ Cells(j, nth[t]) \subseteq computed
    BY DEF NodesInOrder, IInv
  <2>1. PICK k \in 0 .. NNodes - 1 : Mid(k) /\ node[t] = k /\ Joined(t)
    BY InNode
  <2> QED
    BY <2>1 DEF Mid, Complete, Joined
<1> QED
  BY <1>1, Invariant, PTL

\* A call returns with every node computed once, or with all of a graph up to
\* one node and nothing of the rest.
THEOREM WholeOrAborted == Spec => []AllOrNothing
<1>1. IInv => AllOrNothing
  <2> SUFFICES ASSUME IInv, pc[0] = "idle" PROVE AllOrNothing
    BY DEF AllOrNothing
  <2>1. Finished
    BY CallerOutside DEF Computing
  <2> QED
    BY <2>1 DEF Finished, Result, AllOrNothing, IInv, Base
<1> QED
  BY <1>1, Invariant, PTL

\* Between two graphs no worker touches what the caller is about to set.
THEOREM QuietPool == Spec => []QuietBetweenGraphs
<1>1. IInv => QuietBetweenGraphs
  <2> SUFFICES ASSUME IInv, pc[0] \in {"idle", "join"} PROVE QuietBetweenGraphs
    BY DEF QuietBetweenGraphs
  <2>1. Finished /\ nBarrier = 0 /\ Workers \subseteq Threads
    BY CallerOutside, Ranges DEF Computing, IInv
  <2>2. ASSUME NEW w \in Workers, pc[w] \in Computing PROVE pc[w] = "spin" /\ nPassed # seen[w]
    BY <2>1, <2>2 DEF Finished, Outside, Stale, Leaving
  <2> QED
    BY <2>1, <2>2 DEF QuietBetweenGraphs
<1> QED
  BY <1>1, Invariant, PTL
=============================================================================
