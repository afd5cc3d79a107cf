------------------------------- MODULE KvCache -------------------------------
(***************************************************************************)
(* The key-value cache of the local language model (llama_kv_cache with    *)
(* llama_kv_cells, one stream) and the part of llama_context::decode that  *)
(* changes it: checking the batch, cutting it into ubatches, applying the  *)
(* queued shifts, finding slots for all ubatches with a rehearsal that is  *)
(* rolled back, then placing and computing them one at a time, any of      *)
(* which may fail.                                                         *)
(*                                                                         *)
(* The model of the app (Phi-3) has no sliding window; nSwa is the window  *)
(* of models that have one, whose cache llama_kv_cache_iswa sizes.         *)
(***************************************************************************)
EXTENDS Integers, Sequences, FiniteSets, SequencesExt

CONSTANTS
    Size,        \* cells of the cache
    Seqs,        \* sequence ids
    MaxPos,      \* bound on the positions
    NBatch,      \* most tokens in one call of llama_decode
    NUbatch,     \* most tokens in one ubatch
    Windows,     \* sliding windows to consider, 0 for none
    MaxEdits     \* bound on the edits of sequences between calls

\* The last conjunct is how llama_kv_cache_iswa sizes the cache of the layers
\* with a sliding window.
ASSUME CacheConstants ==
    /\ Size \in Nat \ {0} /\ MaxPos \in Nat /\ MaxEdits \in Nat
    /\ Seqs # {} /\ Seqs \subseteq Nat /\ IsFiniteSet(Seqs)
    /\ NUbatch \in Nat \ {0} /\ NBatch \in Nat \ {0}
    /\ \A w \in Windows : w \in Nat
                          /\ (w > 0 => Size >= w * Cardinality(Seqs) + NUbatch)

Cells == 0 .. Size - 1
Positions == 0 .. MaxPos
Inf == MaxPos + 1

VARIABLES
    nSwa,    \* the sliding window of the model
    c,       \* the cells and the head of the stream
    todo,    \* ubatches of the running decode, with the slots found for them
    status,  \* what llama_decode returned last
    edits    \* edits so far

cacheVars == <<nSwa, c, todo, status, edits>>

\* llama_kv_cells: pos and seq of a cell, shift accumulated since the last
\* K-shift, the set of used cells, seq_pos as a count per position, and the
\* head where the search for a slot starts.
CellsType ==
    [pos : [Cells -> Positions \cup {-1}], seq : [Cells -> SUBSET Seqs],
     shift : [Cells -> Int], hasShift : BOOLEAN, used : SUBSET Cells,
     count : [Seqs -> [Positions -> Nat]], head : 0 .. Size]

Ubatch == [seq : Seqs, pos : Positions, n : 1 .. NUbatch,
           idxs : Seq(Cells)]

CacheTypeOK ==
    /\ nSwa \in Windows
    /\ c \in CellsType
    /\ todo \in Seq(Ubatch)
    /\ status \in {"none", "busy", "ok", "refused", "noslot", "failed"}
    /\ edits \in 0 .. MaxEdits

-----------------------------------------------------------------------------
(* llama_kv_cells                                                          *)

\* reset and resize
EmptyCells ==
    [pos |-> [i \in Cells |-> -1], seq |-> [i \in Cells |-> {}],
     shift |-> [i \in Cells |-> 0], hasShift |-> FALSE, used |-> {},
     count |-> [s \in Seqs |-> [p \in Positions |-> 0]], head |-> 0]

\* seq_pos_min and seq_pos_max
Present(k, s) == {p \in Positions : k.count[s][p] > 0}
SeqPosMin(k, s) == IF Present(k, s) = {} THEN -1 ELSE Min(Present(k, s))
SeqPosMax(k, s) == IF Present(k, s) = {} THEN -1 ELSE Max(Present(k, s))

\* pos_in of a cell that has the sequence.
InRange(k, s, p0, p1) ==
    {i \in Cells : s \in k.seq[i] /\ k.pos[i] >= p0 /\ k.pos[i] < p1}

\* How often sequence s has position p in cells I with these positions.
Times(I, pos, seq, s, p) == Cardinality({i \in I : s \in seq[i] /\ pos[i] = p})

\* The cells I get new positions and sequences: seq_pos_rm with the old ones,
\* the assignments, seq_pos_add with the new ones, and used follows pos.
Assign(k, I, pos, seq) ==
    [k EXCEPT
       !.pos = [i \in Cells |-> IF i \in I THEN pos[i] ELSE @[i]],
       !.seq = [i \in Cells |-> IF i \in I THEN seq[i] ELSE @[i]],
       !.used = (@ \ I) \cup {i \in I : pos[i] # -1},
       !.count = [s \in Seqs |-> [p \in Positions |->
                    @[s][p] - Times(I, k.pos, k.seq, s, p)
                            + Times(I, pos, seq, s, p)]]]

\* Cells I lose the sequences in S; a cell without any is freed.
Drop(k, I, S) ==
    LET seq == [i \in Cells |-> k.seq[i] \ S]
        F   == {i \in I : seq[i] = {}}
    IN [Assign(k, I, [i \in Cells |-> IF i \in F THEN -1 ELSE k.pos[i]], seq)
          EXCEPT !.shift = [i \in Cells |-> IF i \in F THEN 0 ELSE @[i]]]

FreedBy(k, m) == {i \in Cells : k.pos[i] # -1 /\ m.pos[i] = -1}

\* "If we freed up a slot, set head to it so searching can start there."
LowerHead(k, m) ==
    LET F == FreedBy(k, m)
    IN IF F # {} /\ Min(F) < k.head THEN [m EXCEPT !.head = Min(F)] ELSE m

\* The bookkeeping of k agrees with its cells: used holds the cells with a
\* position, exactly they have sequences, and seq_pos counts the positions.
Consistent(k) ==
    /\ k.used = {i \in Cells : k.pos[i] # -1}
    /\ \A i \in Cells : k.pos[i] = -1 <=> k.seq[i] = {}
    /\ \A s \in Seqs, p \in Positions :
          k.count[s][p] = Times(Cells, k.pos, k.seq, s, p)

-----------------------------------------------------------------------------
(* Edits of sequences: llama_kv_cache::seq_rm, seq_cp, seq_keep, seq_add,  *)
(* seq_div and clear                                                       *)

SeqRm(k, s, p0, p1) ==
    LowerHead(k, Drop(k, InRange(k, s, p0, p1), {s}))

\* seq_rm of sequence -1
RmAny(k, p0, p1) ==
    LowerHead(k, Drop(k, {i \in Cells : k.pos[i] >= p0 /\ k.pos[i] < p1}, Seqs))

SeqKeep(k, s) ==
    LowerHead(k, Drop(k, {i \in Cells : k.seq[i] # {}}, Seqs \ {s}))

\* Both in one stream: the cells of s also become cells of t.
SeqCp(k, s, t, p0, p1) ==
    LET I == InRange(k, s, p0, p1)
    IN Assign(k, I, k.pos,
              [i \in Cells |-> IF i \in I THEN k.seq[i] \cup {t} ELSE k.seq[i]])

\* pos_add: a position that becomes negative frees the cell.
Below(k, I, d) == {i \in I : k.pos[i] + d < 0}

SeqAdd(k, s, p0, p1, d) ==
    LET I == InRange(k, s, p0, p1)
        F == Below(k, I, d)
        m == Assign(k, I,
                    [i \in Cells |-> IF i \in F THEN -1 ELSE k.pos[i] + d],
                    [i \in Cells |-> IF i \in F THEN {} ELSE k.seq[i]])
    IN [m EXCEPT
          !.shift = [i \in Cells |-> CASE i \in F -> 0
                                       [] i \in I \ F -> @[i] + d
                                       [] OTHER -> @[i]],
          !.hasShift = @ \/ I # {},
          !.head = IF F # {} THEN Min(F) ELSE 0]

\* pos_div, with the shift as the code accumulates it.
SeqDiv(k, s, p0, p1, d) ==
    LET I == InRange(k, s, p0, p1)
        m == Assign(k, I, [i \in Cells |-> k.pos[i] \div d], k.seq)
    IN [m EXCEPT
          !.shift = [i \in Cells |-> IF i \in I THEN @[i] + k.pos[i] - m.pos[i]
                                     ELSE @[i]],
          !.hasShift = @ \/ I # {}]

-----------------------------------------------------------------------------
(* Finding a slot and placing a ubatch                                     *)

\* is_masked_swa of the standard window
Masked(p0, p1) == nSwa > 0 /\ p1 - p0 >= nSwa

\* A cell can be used when it is empty, or holds one sequence that will never
\* look at it again.
CanUse(k, i) ==
    \/ k.pos[i] = -1
    \/ \E s \in Seqs : k.seq[i] = {s} /\ Masked(k.pos[i], SeqPosMax(k, s) + 1)

\* The loop of find_slot (not contiguous) over the cells of ring: the first n
\* usable ones.
FirstUsable(k, n, ring) ==
    FoldLeft(LAMBDA found, i : IF Len(found) < n /\ CanUse(k, i)
                               THEN Append(found, i) ELSE found,
             <<>>, ring)

\* find_slot: the ring starts at the head, which is ignored when there is room
\* before it; <<>> when there are fewer than n cells.
FindSlot(k, n) ==
    LET h    == IF k.head > Cardinality(k.used) + 2 * n THEN 0 ELSE k.head
        ring == [j \in 1 .. Size |-> (h + j - 1) % Size]
        idxs == FirstUsable(k, n, ring)
    IN IF Len(idxs) < n THEN <<>> ELSE idxs

\* The largest position of each sequence in cells I, -1 for none.
Overwritten(k, I) ==
    [s \in Seqs |-> Max({-1} \cup {k.pos[i] : i \in {j \in I : s \in k.seq[j]}})]

\* The tokens of ubatch u are put into the cells of its slot.
Put(k, u) ==
    LET I   == Range(u.idxs)
        tok == [i \in I |-> u.pos + (CHOOSE j \in 1 .. u.n : u.idxs[j] = i) - 1]
    IN [Assign(k, I, tok, [i \in I |-> {u.seq}])
          EXCEPT !.shift = [i \in Cells |-> IF i \in I THEN 0 ELSE @[i]]]

\* Every sequence s loses its positions up to rm[s].
Purge(k, rm) ==
    FoldFunction(LAMBDA s, m : IF rm[s] # -1 THEN SeqRm(m, s, 0, rm[s] + 1) ELSE m,
                 k, [s \in Seqs |-> s])

\* apply_ubatch: overwrite the cells, then purge what is left of a sequence
\* below its overwritten positions, then move the head behind the slot.
ApplyUbatch(k, u) ==
    [Purge(Put(k, u), Overwritten(k, Range(u.idxs))) EXCEPT !.head = u.idxs[u.n] + 1]

\* Mutant: used and seq_pos do not follow.
RestoreRaw(k, old) ==
    [k EXCEPT !.pos = [i \in Cells |-> IF i \in old.I THEN old.pos[i] ELSE @[i]],
              !.seq = [i \in Cells |-> IF i \in old.I THEN old.seq[i] ELSE @[i]],
              !.head = old.head]

\* cells.set with a saved copy: positions and sequences come back, and the head.
Restore(k, old) ==
    [Assign(k, old.I, old.pos, old.seq) EXCEPT !.head = old.head]

\* Mutant: the saved cells are restored in the order they were saved.
RollBackForward(k, saved) == FoldLeft(Restore, k, saved)

\* The cells of the slots are restored backwards.
RollBack(k, saved) == FoldLeft(Restore, k, Reverse(saved))

\* One step of the rehearsal: find a slot for u, save its cells, place u.
Rehearse(a, u) ==
    LET idxs == FindSlot(a.k, u.n)
        v    == [u EXCEPT !.idxs = idxs]
    IN IF ~a.ok \/ idxs = <<>> THEN [a EXCEPT !.ok = FALSE]
       ELSE [ok |-> TRUE, k |-> ApplyUbatch(a.k, v),
             slots |-> Append(a.slots, v),
             saved |-> Append(a.saved, [I |-> Range(idxs), pos |-> a.k.pos,
                                        seq |-> a.k.seq, head |-> a.k.head])]

\* prepare: a rehearsal over all ubatches, rolled back.
Prepare(k, ubatches) ==
    LET end == FoldLeft(Rehearse, [ok |-> TRUE, k |-> k, slots |-> <<>>, saved |-> <<>>],
                        ubatches)
    IN [ok |-> end.ok, slots |-> end.slots, k |-> RollBack(end.k, end.saved)]

-----------------------------------------------------------------------------
(* Actions                                                                 *)

CacheInit ==
    /\ nSwa \in Windows
    /\ c = EmptyCells
    /\ todo = <<>> /\ status = "none" /\ edits = 0

Edit(k) ==
    /\ todo = <<>> /\ edits < MaxEdits
    /\ c' = k /\ edits' = edits + 1 /\ status' = "none"
    /\ UNCHANGED <<nSwa, todo>>

Ranges == {r \in Positions \X (1 .. Inf) : r[1] < r[2]}

EditClear == Edit(EmptyCells)
EditRm == \E s \in Seqs, r \in Ranges : Edit(SeqRm(c, s, r[1], r[2]))
EditRmAny == \E r \in Ranges : Edit(RmAny(c, r[1], r[2]))
EditKeep == \E s \in Seqs : Edit(SeqKeep(c, s))

\* seq_add of a cell is to be called only if the cell lacks the sequence.
EditCp == \E s, t \in Seqs, r \in Ranges :
    /\ \A i \in InRange(c, s, r[1], r[2]) : t \notin c.seq[i]
    /\ Edit(SeqCp(c, s, t, r[1], r[2]))

EditAdd == \E s \in Seqs, r \in Ranges, d \in {-2, -1, 1} :
    /\ \A i \in InRange(c, s, r[1], r[2]) : c.pos[i] + d <= MaxPos
    /\ Edit(SeqAdd(c, s, r[1], r[2], d))

EditDiv == \E s \in Seqs, r \in Ranges : Edit(SeqDiv(c, s, r[1], r[2], 2))

\* The batch is refused unless it continues the sequence.
BatchContinues(s, p) == SeqPosMax(c, s) = -1 \/ p = SeqPosMax(c, s) + 1

\* split_simple: ubatches of NUbatch tokens, the rest in the last one.
Split(s, p, n) ==
    [j \in 1 .. (n + NUbatch - 1) \div NUbatch |->
        [seq |-> s, pos |-> p + (j - 1) * NUbatch, idxs |-> <<>>,
         n |-> Min({NUbatch, n - (j - 1) * NUbatch})]]

\* memory_update: the K-shift of all cells; when it fails everything stays.
Shifted(k) == [k EXCEPT !.shift = [i \in Cells |-> 0], !.hasShift = FALSE]

DecodeRefused(s, p) ==
    /\ todo = <<>> /\ ~BatchContinues(s, p)
    /\ status' = "refused"
    /\ UNCHANGED <<nSwa, c, todo, edits>>

\* llama_context::decode up to the loop over the ubatches.  shifts says which
\* of the attempted K-shifts succeed; a second one, and a second search for
\* slots, is made only when the first search failed with shifts still queued.
DecodeBegin(s, p, n, shifts) ==
    LET k1 == IF shifts[1] THEN Shifted(c) ELSE c
        p1 == Prepare(k1, Split(s, p, n))
        again == ~p1.ok /\ p1.k.hasShift
        k2 == IF shifts[2] THEN Shifted(p1.k) ELSE p1.k
        p2 == IF again THEN Prepare(k2, Split(s, p, n)) ELSE p1
    IN /\ todo = <<>> /\ BatchContinues(s, p)
       /\ p + n - 1 \in Positions
       /\ c' = p2.k
       /\ todo' = IF p2.ok THEN p2.slots ELSE <<>>
       /\ status' = IF p2.ok THEN "busy" ELSE "noslot"
       /\ UNCHANGED <<nSwa, edits>>

\* Outcomes of the K-shifts; without queued shifts there is none to make.
KShifts == IF c.hasShift THEN BOOLEAN \X BOOLEAN ELSE {<<FALSE, FALSE>>}

Decode == \E s \in Seqs, n \in 1 .. NBatch :
    \E p \in {0, SeqPosMax(c, s) + 1} :
        \/ DecodeRefused(s, p)
        \/ \E shifts \in KShifts : DecodeBegin(s, p, n, shifts)

\* process_ubatch: place it and compute it.
Process ==
    /\ todo # <<>>
    /\ c' = ApplyUbatch(c, Head(todo))
    /\ todo' = Tail(todo)
    /\ status' = IF Len(todo) = 1 THEN "ok" ELSE "busy"
    /\ UNCHANGED <<nSwa, edits>>

\* Mutant: the whole sequence goes.
FailedFromStart(u) == 0

\* pos_min of the sequence in the ubatch
FailedFrom(u) == u.pos

\* "the last ubatch failed or was aborted -> remove all positions of that
\* ubatch from the memory module"
ProcessFails ==
    /\ todo # <<>>
    /\ c' = LET u == Head(todo)
            IN SeqRm(ApplyUbatch(c, u), u.seq, FailedFrom(u), Inf)
    /\ todo' = <<>> /\ status' = "failed"
    /\ UNCHANGED <<nSwa, edits>>

CacheNext ==
    \/ EditClear \/ EditRm \/ EditRmAny \/ EditKeep \/ EditCp \/ EditAdd \/ EditDiv
    \/ Decode \/ Process \/ ProcessFails

CacheSpec == CacheInit /\ [][CacheNext]_cacheVars

-----------------------------------------------------------------------------
(* Properties                                                              *)

\* The bookkeeping agrees with the cells after any sequence of calls: used
\* holds the cells with a position, exactly they have sequences, and seq_pos
\* counts the positions, so that seq_pos_min and seq_pos_max are right. The
\* types are part of it: no position is negative but that of a free cell.
Accounting ==
    /\ CacheTypeOK
    /\ Consistent(c)

Visible(s, i) == s \in c.seq[i] /\ ~Masked(c.pos[i], SeqPosMax(c, s) + 1)

\* Nothing visible is lost, but the positions of a ubatch that failed.
KeepsVisible ==
    \A i \in Cells, s \in Seqs : Visible(s, i) =>
       \/ s \in c'.seq[i] /\ c'.pos[i] = c.pos[i]
       \/ status' = "failed" /\ s = Head(todo).seq /\ c.pos[i] >= Head(todo).pos

\* llama_decode never loses a position that the next token of its sequence
\* could attend to, except the ones of a ubatch that failed. With a sliding
\* window this is so for batches of one ubatch, and for the last one of a batch:
\* the rehearsal of several purges cells outside the slots, which the roll-back
\* does not bring back.
VisibleKept ==
    [][status' # "none" /\ (nSwa = 0 \/ Len(todo \o todo') = 1) => KeepsVisible]_cacheVars

\* A call that finds no slot, or is refused, leaves the positions and sequences
\* of all cells as they were, in a cache without sliding window.
Restored == c'.pos = c.pos /\ c'.seq = c.seq /\ c'.head = c.head

RefusalRestores ==
    [][nSwa = 0 /\ status' \in {"refused", "noslot"} => Restored]_cacheVars
=============================================================================
