------------------------------ MODULE FreeBlocks ------------------------------
(***************************************************************************)
(* The free lists of ggml's dynamic tensor allocator (ggml_dyn_tallocr).   *)
(* Memory is a sequence of chunks. A chunk keeps its free blocks, sorted   *)
(* by offset, and the largest end of anything ever placed in it.           *)
(***************************************************************************)
EXTENDS Integers, Sequences, SequencesExt, FiniteSetsExt

CONSTANTS
    Alignment,     \* alignment of the buffer type
    MaxChunkSize,  \* its largest buffer
    MaxChunks,     \* GGML_VBUFFER_MAX_CHUNKS
    Endless        \* SIZE_MAX/2

ASSUME BlockConstants ==
    /\ Alignment \in Nat \ {0} /\ MaxChunks \in Nat \ {0}
    /\ MaxChunkSize \in Nat /\ MaxChunkSize % Alignment = 0
    /\ Endless \in Nat /\ Endless % Alignment = 0 /\ MaxChunkSize <= Endless

Block   == [offset : Nat, size : Nat]
Chunk   == [free : Seq(Block), max_size : Nat]
NoAddress == [chunk |-> 0, offset |-> 0]

\* aligned_offset of a size.
Aligned(size) == size + ((Alignment - (size % Alignment)) % Alignment)

End(b) == b.offset + b.size

\* insert_block: in front of the first block that does not start before it.
InsertBlock(free, b) ==
    LET i == SelectInSeq(free, LAMBDA f : f.offset >= b.offset)
    IN  InsertAt(free, IF i = 0 THEN Len(free) + 1 ELSE i, b)

\* Block i takes in the block after it, if there is one and they touch.
JoinNext(free, i) ==
    IF i < Len(free) /\ End(free[i]) = free[i+1].offset
    THEN RemoveAt([free EXCEPT ![i].size = @ + free[i+1].size], i + 1)
    ELSE free

\* free_bytes: the range grows the first block that it touches at the end or
\* at the start, which may close a gap, or is a block of its own.
FreeBytes(chunks, addr, n) ==
    LET size == Aligned(n)
        free == chunks[addr.chunk].free
        i == SelectInSeq(free, LAMBDA f : End(f) = addr.offset
                                          \/ addr.offset + size = f.offset)
        new == IF i = 0
               THEN InsertBlock(free, [offset |-> addr.offset, size |-> size])
               ELSE IF End(free[i]) = addr.offset
               THEN JoinNext([free EXCEPT ![i].size = @ + size], i)
               ELSE LET low == [free EXCEPT ![i] = [offset |-> addr.offset,
                                                    size |-> @.size + size]]
                    IN  IF i > 1 THEN JoinNext(low, i - 1) ELSE low
    IN  [chunks EXCEPT ![addr.chunk].free = new]

\* A block besides the last that is large enough: the smallest of its chunk,
\* the last one among equals, in the last chunk that has one.
InnerFits(chunks, size) ==
    {p \in UNION {{c} \X (1 .. Len(chunks[c].free) - 1) : c \in DOMAIN chunks} :
        chunks[p[1]].free[p[2]].size >= size}

BestInner(chunks, size) ==
    LET fits == InnerFits(chunks, size)
        Fit(p) == chunks[p[1]].free[p[2]].size
    IN  CHOOSE p \in fits : \A q \in fits :
            \/ q[1] < p[1]
            \/ q[1] = p[1] /\ Fit(p) < Fit(q)
            \/ q[1] = p[1] /\ Fit(p) = Fit(q) /\ q[2] <= p[2]

\* The last block of a chunk: the least memory left unused or, where memory
\* must be added, the least added; the first one among equals.
TailFits(chunks, size) ==
    {c \in DOMAIN chunks : chunks[c].free # <<>> /\ Last(chunks[c].free).size >= size}

BestTail(chunks, size) ==
    LET fits == TailFits(chunks, size)
        Reuse(c) == chunks[c].max_size - Last(chunks[c].free).offset - size
        Better(c, d) == IF Reuse(c) >= 0 THEN Reuse(d) < 0 \/ Reuse(c) < Reuse(d)
                                         ELSE Reuse(d) < Reuse(c)
    IN  CHOOSE c \in fits : \A d \in fits :
            Better(c, d) \/ (Reuse(c) = Reuse(d) /\ c <= d)

\* new_chunk, with n chunks before it.
NewChunk(n, size) ==
    [free |-> <<[offset |-> 0,
                 size |-> IF n = MaxChunks - 1 THEN Endless
                                               ELSE Max({size, MaxChunkSize})]>>,
     max_size |-> 0]

\* The head of block i of chunk c is taken; an empty block is removed.
Take(chunks, c, i, size) ==
    LET b == chunks[c].free[i]
        free == chunks[c].free
    IN  [chunks EXCEPT ![c] =
            [free |-> IF b.size = size THEN RemoveAt(free, i)
                      ELSE [free EXCEPT ![i] = [offset |-> b.offset + size,
                                                size |-> b.size - size]],
             max_size |-> Max({@.max_size, b.offset + size})]]

\* ggml_dyn_tallocr_alloc: the chunks afterwards and the address, NoAddress
\* where the code aborts.
Alloc(chunks, n) ==
    LET size == Aligned(n)
        In(cs, c, i) == [chunks |-> Take(cs, c, i, size),
                         addr |-> [chunk |-> c, offset |-> cs[c].free[i].offset]]
    IN  IF InnerFits(chunks, size) # {}
        THEN LET p == BestInner(chunks, size) IN In(chunks, p[1], p[2])
        ELSE IF TailFits(chunks, size) # {}
        THEN LET c == BestTail(chunks, size) IN In(chunks, c, Len(chunks[c].free))
        ELSE IF Len(chunks) < MaxChunks
        THEN In(Append(chunks, NewChunk(Len(chunks), size)), Len(chunks) + 1, 1)
        ELSE [chunks |-> chunks, addr |-> NoAddress]

=============================================================================
