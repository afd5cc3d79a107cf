------------------------------ MODULE GraphAlloc ------------------------------
(***************************************************************************)
(* The graph allocator (ggml_gallocr) with one buffer type, as the backend *)
(* scheduler of a context uses it: a graph is reserved or allocated, its   *)
(* tensors get addresses from a plan that lets tensors with disjoint lives *)
(* share memory and lets an operation write over its operand, and a later  *)
(* graph is placed by the plan of an earlier one when it seems to fit.     *)
(*                                                                         *)
(* Tensors are numbered in the order of the graph, leafs first. A frame    *)
(* fixes the leafs, which of them have data of their own (weights, cache)  *)
(* and the sizes; everything else about a graph is arbitrary.              *)
(***************************************************************************)
EXTENDS FreeBlocks, FiniteSets

CONSTANTS
    Frames,      \* [leafs : Nat, ext : SUBSET of the leafs, size : Seq(Nat)]
    MaxNodes,    \* bound on the nodes of all graphs together
    MaxOutputs,  \* bound on the outputs of a graph
    MaxRounds,   \* bound on the graphs built again with other sizes
    MaxFailures  \* bound on the buffers that cannot be had

ASSUME GraphConstants ==
    /\ MaxNodes \in Nat /\ MaxOutputs \in Nat /\ MaxRounds \in Nat /\ MaxFailures \in Nat
    /\ \A f \in Frames : f.leafs \in 1 .. Len(f.size) /\ f.ext \subseteq 1 .. f.leafs

VARIABLES
    graph,    \* the graph: a sequence of tensors
    leafs,    \* how many of them are leafs
    frame,    \* the frame it is built in
    pc,       \* where the scheduler is
    caller,   \* who called ggml_gallocr_reserve
    hn,       \* hash_values: one hash_node per tensor
    chunks,   \* the free lists of the buffer type
    plan,     \* leaf_allocs and node_allocs
    have,     \* is there a buffer?
    buffer,   \* the sizes of its chunks
    place,    \* addresses of the tensors of graph, <<>> before they have one
    budget,   \* nodes, rounds and failures left
    planned   \* ghost: the graph that plan was made for

gvars == <<graph, leafs, frame>>
avars == <<hn, chunks>>
bvars == <<plan, have, buffer>>
vars == <<gvars, pc, caller, avars, bvars, place, budget, planned>>

Ops == {"none", "plain", "inplace", "view"}
Tensor == [src : Seq(Nat), view : Nat, op : Ops, output : BOOLEAN,
           ext : BOOLEAN, size : Nat]
HashNode == [children : Nat, views : Nat, addr : [chunk : Nat, offset : Nat],
             allocated : BOOLEAN]
Entry == [addr : [chunk : Nat, offset : Nat], own : BOOLEAN, size_max : Nat]
Points == {"build", "alloc", "leafs", "nodes", "assign", "init", "ready",
           "failed", "crashed"}

TypeOK ==
    /\ graph \in Seq(Tensor) /\ leafs \in Nat /\ frame \in Frames
    /\ pc \in Points /\ caller \in {"measure", "graph", "splits"}
    /\ hn \in Seq(HashNode) /\ chunks \in Seq(Chunk)
    /\ plan.leafs \in Nat /\ plan.dst \in Seq(Entry) /\ plan.src \in Seq(Seq(Entry))
    /\ have \in BOOLEAN /\ buffer \in Seq(Nat)
    /\ place \in Seq([chunk : Nat, offset : Nat])
    /\ budget \in [nodes : 0 .. MaxNodes, rounds : 0 .. MaxRounds,
                   failures : 0 .. MaxFailures]
    /\ planned \in Seq(Tensor)

Leaf(f, t) == [src |-> <<>>, view |-> 0, op |-> "none", output |-> FALSE,
               ext |-> t \in f.ext, size |-> f.size[t]]

LeafsOf(f) == [t \in 1 .. f.leafs |-> Leaf(f, t)]

Init ==
    /\ frame \in Frames
    /\ graph = LeafsOf(frame) /\ leafs = frame.leafs
    /\ pc = "build" /\ caller = "measure"
    /\ hn = <<>> /\ chunks = <<>>
    /\ plan = [leafs |-> 0, dst |-> <<>>, src |-> <<>>]
    /\ have = FALSE /\ buffer = <<>>
    /\ place = <<>> /\ planned = <<>>
    /\ budget = [nodes |-> MaxNodes, rounds |-> MaxRounds, failures |-> MaxFailures]

Nodes == leafs + 1 .. Len(graph)
View(t)  == graph[t].view # 0
Root(t)  == IF View(t) THEN graph[t].view ELSE t
Owned(t) == ~View(t) /\ ~graph[t].ext

-----------------------------------------------------------------------------
(* Building a graph.                                                       *)

\* Operands: one tensor or two, possibly the same.
Operands == {<<s>> : s \in DOMAIN graph}
            \cup {<<s, u>> : s, u \in DOMAIN graph}

\* ggml_new_tensor_impl: a view of a view is a view of its source.
AddNode(op, src, output) ==
    /\ pc = "build" /\ budget.nodes > 0 /\ Len(graph) < Len(frame.size)
    /\ Len(src) = 2 => src[1] <= src[2] /\ op # "view"
    /\ output => Cardinality({t \in Nodes : graph[t].output}) < MaxOutputs
    /\ graph' = Append(graph,
          [src |-> src, view |-> IF op = "view" THEN Root(src[1]) ELSE 0, op |-> op,
           output |-> output, ext |-> FALSE,
           size |-> IF op = "view" THEN graph[src[1]].size
                                   ELSE frame.size[Len(graph) + 1]])
    /\ budget' = [budget EXCEPT !.nodes = @ - 1]
    /\ UNCHANGED <<leafs, frame, pc, caller, avars, bvars, place, planned>>

\* A leaf is in the graph because a node uses it.
Built == \A t \in 1 .. leafs : \E i \in Nodes : t \in Range(graph[i].src)

\* ggml_backend_sched_reserve.
SchedReserve ==
    /\ pc = "build" /\ Built
    /\ pc' = "leafs" /\ caller' = "measure"
    /\ UNCHANGED <<gvars, avars, bvars, place, budget, planned>>

\* ggml_backend_sched_alloc_graph.
SchedAllocGraph ==
    /\ pc = "build" /\ Built
    /\ pc' = "alloc" /\ caller' = "graph"
    /\ UNCHANGED <<gvars, avars, bvars, place, budget, planned>>

\* The next graph is another one.
NewGraph ==
    /\ pc = "ready" /\ budget.nodes > 0
    /\ \E f \in Frames : frame' = f /\ graph' = LeafsOf(f) /\ leafs' = f.leafs
    /\ pc' = "build"
    /\ place' = <<>>
    /\ UNCHANGED <<caller, avars, bvars, budget, planned>>

\* The next graph is the same with other sizes, as for another number of
\* tokens; tensors of one layout keep to one layout.
SameGraph(size) ==
    /\ pc = "ready" /\ budget.rounds > 0
    /\ graph' = [t \in DOMAIN graph |-> [graph[t] EXCEPT !.size = size[@]]]
    /\ budget' = [budget EXCEPT !.rounds = @ - 1]
    /\ pc' = "alloc" /\ caller' = "graph"
    /\ place' = <<>>
    /\ UNCHANGED <<leafs, frame, avars, bvars, planned>>

-----------------------------------------------------------------------------
(* Planning: ggml_gallocr_alloc_graph_impl. Its state is st.hn, st.chunks. *)

\* Mutant: the number of the parent's other readers is not looked at.
ReuseRead(h, t, p) ==
    /\ h[p].allocated /\ ~graph[p].output
    /\ graph[t].size = graph[p].size
    /\ h[p].views = 0

\* May t be written over its parent p? A view is never its own, so that the
\* code's branch for views is not reached. Same layout means same size here,
\* so that free_extra_space has nothing to free.
CanReuse(h, t, p) ==
    /\ h[p].allocated /\ ~graph[p].output
    /\ graph[t].size = graph[p].size
    /\ h[p].children = 1 /\ h[p].views = 0

\* ggml_gallocr_allocate_node.
AllocateNode(st, t) ==
    LET j == IF graph[t].op = "inplace"
             THEN SelectInSeq(graph[t].src, LAMBDA p : CanReuse(st.hn, t, p)) ELSE 0
    IN  IF st.hn[t].allocated \/ ~Owned(t) THEN st
        ELSE IF j # 0
        THEN LET p == graph[t].src[j]
             IN  [st EXCEPT !.hn[t].allocated = TRUE, !.hn[t].addr = st.hn[p].addr,
                            !.hn[p].allocated = FALSE]
        ELSE LET a == Alloc(st.chunks, graph[t].size)
             IN  [hn |-> [st.hn EXCEPT ![t].allocated = TRUE, ![t].addr = a.addr],
                  chunks |-> a.chunks]

\* Mutant: outputs are freed as well.
FreeOutputs(st, t) ==
    [hn |-> [st.hn EXCEPT ![t].allocated = FALSE],
     chunks |-> FreeBytes(st.chunks, st.hn[t].addr, graph[t].size)]

\* ggml_gallocr_free_node: graph outputs are never freed.
FreeNode(st, t) ==
    IF graph[t].output THEN st
    ELSE [hn |-> [st.hn EXCEPT ![t].allocated = FALSE],
          chunks |-> FreeBytes(st.chunks, st.hn[t].addr, graph[t].size)]

\* One use of parent p is over; what nobody will use again is freed.
ReleaseParent(st, p) ==
    LET h == [st.hn EXCEPT ![p].children = @ - 1]
        r == graph[p].view
        v == [h EXCEPT ![r].views = @ - 1]
        unused == h[p].children = 0 /\ h[p].views = 0
    IN  IF unused /\ View(p)
        THEN IF v[r].views = 0 /\ v[r].children = 0 /\ v[r].allocated
             THEN FreeNode([st EXCEPT !.hn = v], r) ELSE [st EXCEPT !.hn = v]
        ELSE IF unused /\ h[p].allocated
        THEN FreeNode([st EXCEPT !.hn = h], p)
        ELSE [st EXCEPT !.hn = h]

\* The operands of nodes that are t.
Uses(t) == {u \in Nodes \X {1, 2} :
                u[2] <= Len(graph[u[1]].src) /\ graph[u[1]].src[u[2]] = t}

\* The hash node of a tensor after the count of children and views.
Counted(t) == [children |-> Cardinality(Uses(t)),
               views |-> Cardinality({i \in Nodes : graph[i].view = t}),
               addr |-> NoAddress, allocated |-> FALSE]

\* The allocators are reset and the leafs allocated. The code counts children
\* and views after it has allocated the leafs, which does not look at them.
PlanLeafs ==
    /\ pc = "leafs"
    /\ LET h  == [t \in DOMAIN graph |-> Counted(t)]
           st == FoldLeft(AllocateNode, [hn |-> h, chunks |-> <<>>],
                          [t \in 1 .. leafs |-> t])
       IN  hn' = st.hn /\ chunks' = st.chunks
    /\ pc' = "nodes"
    /\ UNCHANGED <<gvars, caller, bvars, place, budget, planned>>

\* Parents and node are allocated, then the parents released.
PlanNode(st, i) ==
    FoldLeft(ReleaseParent,
             AllocateNode(FoldLeft(AllocateNode, st, graph[i].src), i),
             graph[i].src)

PlanNodes ==
    /\ pc = "nodes"
    /\ LET st == FoldLeft(PlanNode, [hn |-> hn, chunks |-> chunks],
                          [i \in 1 .. Len(graph) - leafs |-> leafs + i])
       IN  hn' = st.hn /\ chunks' = st.chunks
    /\ pc' = "assign"
    /\ UNCHANGED <<gvars, caller, bvars, place, budget, planned>>

-----------------------------------------------------------------------------
(* The rest of ggml_gallocr_reserve_n_impl, and ggml_gallocr_alloc_graph.  *)

EntryOf(t) ==
    IF Owned(t) THEN [addr |-> hn[t].addr, own |-> TRUE, size_max |-> graph[t].size]
                ELSE [addr |-> NoAddress, own |-> FALSE, size_max |-> 0]

NewPlan == [leafs |-> leafs,
            dst |-> [t \in DOMAIN graph |-> EntryOf(t)],
            src |-> [t \in DOMAIN graph |->
                        [j \in DOMAIN graph[t].src |-> EntryOf(graph[t].src[j])]]]

\* Mutant: only the number of chunks is compared.
GrowsChunks == ~have \/ Len(chunks) > Len(buffer)

\* Does some chunk need more than the buffer has?
MustGrow ==
    \/ ~have
    \/ \E c \in DOMAIN chunks :
           chunks[c].max_size > (IF c \in DOMAIN buffer THEN buffer[c] ELSE 0)

\* reserve returns TRUE: on with alloc_graph, or done with measuring. The
\* scheduler calls alloc_graph again after its own reserve.
Assign ==
    /\ pc = "assign"
    /\ plan' = NewPlan
    /\ planned' = graph
    /\ have' = TRUE
    /\ buffer' = IF MustGrow THEN [c \in DOMAIN chunks |-> chunks[c].max_size] ELSE buffer
    /\ pc' = CASE caller = "measure" -> "ready"
               [] caller = "graph"   -> "init"
               [] caller = "splits"  -> "alloc"
    /\ UNCHANGED <<gvars, caller, avars, place, budget>>

\* The buffer cannot be had: the old one is gone, the plan is new, and reserve
\* returns FALSE. Measuring gives up; after alloc_graph the scheduler reserves
\* itself, and does not look at the result.
AssignFails ==
    /\ pc = "assign" /\ MustGrow /\ budget.failures > 0
    /\ budget' = [budget EXCEPT !.failures = @ - 1]
    /\ plan' = NewPlan
    /\ planned' = graph
    /\ have' = FALSE /\ buffer' = <<>>
    /\ \/ caller = "measure" /\ pc' = "failed" /\ UNCHANGED caller
       \/ caller = "graph" /\ pc' = "leafs" /\ caller' = "splits"
       \/ caller = "splits" /\ pc' = "alloc" /\ UNCHANGED caller
    /\ UNCHANGED <<gvars, avars, place>>

\* ggml_gallocr_node_needs_realloc, which says TRUE when it does not.
EntryServes(t, e) == IF Owned(t) THEN e.own /\ graph[t].size <= e.size_max ELSE TRUE

Absent == [addr |-> NoAddress, own |-> FALSE, size_max |-> 0]
SrcEntry(i, j) == IF j \in DOMAIN plan.src[i] THEN plan.src[i][j] ELSE Absent

\* ggml_gallocr_needs_realloc.
NeedsRealloc ==
    \/ Len(plan.dst) # Len(graph) \/ plan.leafs # leafs
    \/ \E i \in Nodes :
          \/ ~EntryServes(i, plan.dst[i])
          \/ \E j \in DOMAIN graph[i].src : ~EntryServes(graph[i].src[j], SrcEntry(i, j))

AllocGraph ==
    /\ pc = "alloc"
    /\ pc' = IF NeedsRealloc THEN "leafs" ELSE "init"
    /\ UNCHANGED <<gvars, caller, avars, bvars, place, budget, planned>>

\* Every tensor without data gets its address in the buffer; without a buffer
\* the process ends here.
InitTensors ==
    /\ pc = "init"
    /\ IF have \/ \A t \in DOMAIN graph : ~Owned(t)
       THEN pc' = "ready" /\ place' = [t \in DOMAIN graph |-> plan.dst[t].addr]
       ELSE pc' = "crashed" /\ UNCHANGED place
    /\ UNCHANGED <<gvars, caller, avars, bvars, budget, planned>>

Next ==
    \/ \E op \in Ops \ {"none"}, src \in Operands, output \in BOOLEAN :
           AddNode(op, src, output)
    \/ SchedReserve
    \/ SchedAllocGraph
    \/ NewGraph
    \/ \E size \in [UNION {Range(f.size) : f \in Frames}
                    -> UNION {Range(f.size) : f \in Frames}] : SameGraph(size)
    \/ PlanLeafs
    \/ PlanNodes
    \/ Assign
    \/ AssignFails
    \/ AllocGraph
    \/ InitTensors

Spec == Init /\ [][Next]_vars

-----------------------------------------------------------------------------
(* What the addresses mean when the graph is computed, node after node.    *)

Span(t) == {place[t].chunk} \X (place[t].offset .. place[t].offset + graph[t].size - 1)

Overlap(t, u) == Owned(t) /\ Owned(u) /\ Span(t) \cap Span(u) # {}

\* Tensor j is written after r got its value and before node i.
Between(r, j, i) == j # r /\ j < i /\ (r < j \/ (j <= leafs /\ r <= leafs))

\* What node i reads is still there, and i does not write into it unless it
\* may: an in-place operation, onto an operand of the same place and size.
ReadsWell(i) ==
    \A s \in Range(graph[i].src) :
        LET r == Root(s)
        IN  /\ \A j \in DOMAIN graph : Between(r, j, i) => ~Overlap(j, r)
            /\ Overlap(i, r) => /\ graph[i].op = "inplace"
                                /\ place[i] = place[r] /\ graph[i].size = graph[r].size

SafeToCompute == \A i \in Nodes : graph[i].op # "view" => ReadsWell(i)

\* The same graph up to sizes, and tensors of one size are still of one size.
Like(a, b) ==
    /\ DOMAIN a = DOMAIN b
    /\ \A t \in DOMAIN a : [a[t] EXCEPT !.size = 0] = [b[t] EXCEPT !.size = 0]
    /\ \A t, u \in DOMAIN a : a[t].size = a[u].size => b[t].size = b[u].size

Placed == pc = "ready" /\ place # <<>>

\* In a graph placed by a plan for this graph, be it a fresh one, that of a
\* measured graph or of an earlier round with other sizes, no tensor is
\* overwritten while a node still reads it, directly or through views.
ReadsIntact == Placed /\ Like(planned, graph) => SafeToCompute

\* "output tensors are never freed and never overwritten", for outputs that
\* are not views.
OutputsKept ==
    Placed /\ Like(planned, graph) =>
        \A o, j \in Nodes : graph[o].output /\ ~View(o) /\ o < j => ~Overlap(o, j)

\* No tensor reaches past the end of its buffer, whatever graphs and failures
\* came before, and a buffer that cannot be had is fatal only if the second
\* attempt, which the scheduler makes itself, fails as well. All values have
\* their types, so no count falls below zero.
InBuffer ==
    /\ TypeOK
    /\ Placed /\ Like(planned, graph) =>
          \A t \in DOMAIN graph : Owned(t) =>
              /\ place[t].chunk \in DOMAIN buffer
              /\ place[t].offset + graph[t].size <= buffer[place[t].chunk]
    /\ pc = "crashed" => caller = "splits" /\ budget.failures + 2 <= MaxFailures

=============================================================================
