------------------------ MODULE CallSignalingProofs ------------------------
(***************************************************************************)
(* Proofs about CallSignaling, for any bounds on the activities, the       *)
(* candidates and the repeated datagrams: whatever is lost, delayed,       *)
(* repeated or overtaken, no candidate is given to WebRTC early, none more *)
(* often than its datagram arrived, and none is lost but the overtaken.    *)
(***************************************************************************)
EXTENDS CallSignaling, FiniteSetTheorems, SequenceTheorems, TLAPS

Elems(s)    == {s[m] : m \in 1 .. Len(s)}
Distinct(s) == \A m, n \in 1 .. Len(s) : s[m] = s[n] => m = n

\* A drain can only be the next callback.
Lined(s) == \A k \in 2 .. Len(s) : s[k] \notin Drains

Got(p) == Elems(added[p])

\* A closed activity has no connection; an open one has a number.
Shut(p) ==
    /\ stage[p] = "closed" => /\ remote[p] = None /\ local[p] = None
                              /\ callback[p] = <<>> /\ handler[p] = {}
    /\ stage[p] # "closed" => calls[p] > 0

\* Before the remote description nothing but the own offer is under way.
Early(p) ==
    remote[p] = None => /\ ~flag[p] /\ drain[p] = {} /\ added[p] = <<>>
                        /\ \A h \in handler[p] : ~h.ready
                        /\ Elems(callback[p]) \subseteq {"offerMade"}

\* What is still to be drained has not been added, and no arrival was added
\* twice.
Draining(p) ==
    /\ Lined(callback[p])
    /\ DrainDue(p) => flag[p]
    /\ ~DrainDue(p) => drain[p] = {} /\ pending[p] \cap Got(p) = {}
    /\ drain[p] \cap Got(p) = {}
    /\ Distinct(added[p])

\* An arrival has one handler, once.
Handled(p) ==
    /\ pending[p] \cup drain[p] \cup Got(p) \subseteq handled[p]
    /\ \A h, k \in handler[p] : h.cand = k.cand => h = k
    /\ \A h \in handler[p] : h.cand \notin handled[p]

\* Where the handled candidates are.
Kept(p) ==
    /\ flag[p] => \A h \in handler[p] : h.ready \/ h.cand \in raced
    /\ handled[p] \subseteq raced \cup Got(p) \cup drain[p]
                              \cup (IF flag[p] THEN {} ELSE pending[p])

Local(p) == Shut(p) /\ Early(p) /\ Draining(p) /\ Handled(p) /\ Kept(p)

Taken(p) == handled[p] \cup {h.cand : h \in handler[p]}

\* The activity that gathered c has gathered it, and the network repeated it.
Known(c) ==
    /\ c.by[2] <= calls[c.by[1]] /\ c.copy <= copied
    /\ c.by[2] = calls[c.by[1]] /\ stage[c.by[1]] # "closed"
          => c.i <= gathered[c.by[1]]

\* A labelled candidate is in one place: in the outbox, on its way, or taken by
\* the handler of its arrival.
Unsent ==
    \A p \in Peers : \A c \in outbox[p] \cap Cands :
        /\ c.by[1] = p /\ Known(c)
        /\ <<Other(p), c>> \notin net /\ c \notin Taken(Other(p))
OnItsWay ==
    \A p \in Peers : \A c \in Cands : <<p, c>> \in net =>
        c.by[1] = Other(p) /\ Known(c) /\ c \notin Taken(p)
Arrived ==
    \A p \in Peers : \A c \in Taken(p) : c.by[1] = Other(p) /\ Known(c)

Token == Unsent /\ OnItsWay /\ Arrived

IInv == TypeOK /\ Token /\ \A p \in Peers : Local(p)

-----------------------------------------------------------------------------
(* Lemmas about peers, descriptions and sequences                          *)

\* There are two peers.
LEMMA Two == \A p \in Peers : Other(p) \in Peers /\ Other(p) # p /\ Other(Other(p)) = p
<1> SUFFICES ASSUME NEW p \in Peers
             PROVE  Other(p) \in Peers /\ Other(p) # p /\ Other(Other(p)) = p
  OBVIOUS
<1>1. IsFiniteSet(Peers \ {p}) /\ Cardinality(Peers \ {p}) = 1
  BY CallConstants, FS_RemoveElement
<1>2. PICK q : Peers \ {p} = {q}
  BY <1>1, FS_Singleton
<1>3. \A r : r \in Peers <=> r = p \/ r = q
  BY <1>2
<1>4. q # p
  BY <1>2
<1>5. Other(p) = q
  BY <1>3, <1>4 DEF Other
<1>6. Other(q) = p
  BY <1>3, <1>4 DEF Other
<1> QED
  BY <1>3, <1>4, <1>5, <1>6

\* A description is a description.
LEMMA NotNone == \A s \in Offers \cup Answers : s # None
BY DEF Offers, Answers, None

\* What Append does to the elements.
LEMMA AppendElems ==
    ASSUME NEW S, NEW s \in Seq(S), NEW x \in S
    PROVE  /\ Append(s, x) \in Seq(S) /\ Append(s, x) # <<>>
           /\ Elems(Append(s, x)) = Elems(s) \cup {x}
           /\ Distinct(s) /\ x \notin Elems(s) => Distinct(Append(s, x))
           /\ Lined(s) /\ x \notin Drains => Lined(Append(s, x))
           /\ Head(Append(s, x)) = IF s = <<>> THEN x ELSE Head(s)
<1> DEFINE t == Append(s, x)
<1>1. t \in Seq(S) /\ Len(t) = Len(s) + 1 /\ Len(s) \in Nat /\ t[Len(s) + 1] = x
      /\ \A k \in 1 .. Len(s) : t[k] = s[k]
  OBVIOUS
<1>2. 1 .. Len(t) = 1 .. Len(s) \cup {Len(s) + 1}
  BY <1>1
<1>3. t # <<>>
  BY <1>1
<1>4. Elems(t) = Elems(s) \cup {x}
  BY <1>1, <1>2 DEF Elems
<1>5. ASSUME Distinct(s), x \notin Elems(s) PROVE Distinct(t)
  BY <1>1, <1>2, <1>5 DEF Distinct, Elems
<1>6. ASSUME Lined(s), x \notin Drains PROVE Lined(t)
  BY <1>1, <1>2, <1>6 DEF Lined
<1>7. Head(t) = IF s = <<>> THEN x ELSE Head(s)
  <2>1. CASE s = <<>>
    BY <2>1
  <2>2. CASE s # <<>>
    <3>1. Len(s) >= 1 /\ Head(s) = s[1] /\ Head(t) = t[1]
      BY <1>1, <1>3, <2>2
    <3> QED
      BY <1>1, <2>2, <3>1
  <2> QED
    BY <2>1, <2>2
<1> QED
  BY <1>1, <1>3, <1>4, <1>5, <1>6, <1>7

\* The sequence of one element.
LEMMA OneElem ==
    ASSUME NEW S, NEW x \in S
    PROVE  <<x>> \in Seq(S) /\ Len(<<x>>) = 1 /\ <<x>>[1] = x
OBVIOUS

\* A sequence without elements is empty.
LEMMA NoElem ==
    ASSUME NEW S, NEW s \in Seq(S), Len(s) = 0
    PROVE  s = <<>>
OBVIOUS

\* The first element of a sequence that has one.
LEMMA FirstElem ==
    ASSUME NEW S, NEW s \in Seq(S), Len(s) >= 1
    PROVE  s # <<>> /\ Head(s) = s[1]
OBVIOUS

\* The callbacks after the one that has run.
LEMMA TailElems ==
    ASSUME NEW S, NEW s \in Seq(S), s # <<>>
    PROVE  /\ Tail(s) \in Seq(S)
           /\ Elems(Tail(s)) \subseteq Elems(s) /\ Head(s) \in Elems(s)
           /\ \A k \in 1 .. Len(Tail(s)) : Tail(s)[k] \in Elems(s)
           /\ Lined(s) => /\ Lined(Tail(s))
                          /\ \A k \in 1 .. Len(Tail(s)) : Tail(s)[k] \notin Drains
                          /\ Tail(s) # <<>> => Head(Tail(s)) \notin Drains
<1> DEFINE t == Tail(s)
<1>1. t \in Seq(S) /\ Len(t) = Len(s) - 1 /\ Len(s) \in Nat /\ Len(s) >= 1
      /\ Head(s) = s[1] /\ \A k \in 1 .. Len(t) : t[k] = s[k + 1]
  OBVIOUS
<1>2. \A k \in 1 .. Len(t) : k + 1 \in 1 .. Len(s) /\ k + 1 \in 2 .. Len(s)
  BY <1>1
<1>3. \A k \in 1 .. Len(t) : t[k] \in Elems(s)
  BY <1>1, <1>2 DEF Elems
<1>4. Elems(t) \subseteq Elems(s) /\ Head(s) \in Elems(s)
  BY <1>1, <1>3 DEF Elems
<1>5. ASSUME Lined(s) PROVE \A k \in 1 .. Len(t) : t[k] \notin Drains
  BY <1>1, <1>2, <1>5 DEF Lined
<1>6. ASSUME Lined(s) PROVE Lined(t)
  <2> HIDE DEF t
  <2>1. 2 .. Len(t) \subseteq 1 .. Len(t)
    BY <1>1
  <2> QED
    BY <1>5, <1>6, <2>1 DEF Lined
<1>7. ASSUME Lined(s), t # <<>> PROVE Head(t) \notin Drains
  <2> HIDE DEF t
  <2>1. t \in Seq(S) /\ Len(t) \in Nat
    BY <1>1
  <2>2. Len(t) # 0
    BY <1>7, <2>1, NoElem, Zenon
  <2>3. Len(t) >= 1 /\ 1 \in 1 .. Len(t)
    BY <2>1, <2>2
  <2>4. Head(t) = t[1]
    BY <2>1, <2>3, FirstElem
  <2> QED
    BY <1>5, <1>7, <2>3, <2>4
<1>8. t \in Seq(S)
  BY <1>1
<1> HIDE DEF t
<1>9. Lined(s) => /\ Lined(t)
                  /\ \A k \in 1 .. Len(t) : t[k] \notin Drains
                  /\ t # <<>> => Head(t) \notin Drains
  BY <1>5, <1>6, <1>7, Zenon
<1> QED
  BY <1>3, <1>4, <1>8, <1>9, Zenon DEF t

\* The callbacks when a drain goes first.
LEMMA DrainFirst ==
    ASSUME NEW s \in Seq(Works), s # <<>>, Lined(s), NEW as \in Drains
    PROVE  LET t == <<as>> \o Tail(s)
           IN  t \in Seq(Works) /\ Lined(t) /\ t # <<>> /\ Head(t) = as
<1> DEFINE e == Tail(s)
           d == <<as>>
           t == d \o e
<1>1. e \in Seq(Works) /\ Len(e) \in Nat /\ \A k \in 1 .. Len(e) : e[k] \notin Drains
  BY TailElems
<1> HIDE DEF e
<1>2. d \in Seq(Works) /\ Len(d) = 1 /\ d[1] = as
  <2>1. as \in Works
    BY DEF Works
  <2> QED
    BY <2>1, OneElem, Zenon
<1> HIDE DEF d
<1>3. /\ t \in Seq(Works) /\ Len(t) = Len(d) + Len(e)
      /\ \A k \in 1 .. Len(d) + Len(e) :
            t[k] = IF k <= Len(d) THEN d[k] ELSE e[k - Len(d)]
  BY <1>1, <1>2, ConcatProperties, Zenon
<1>4. \A k \in 2 .. Len(t) : t[k] \notin Drains
  <2> HIDE DEF t
  <2> SUFFICES ASSUME NEW k \in 2 .. Len(t) PROVE t[k] \notin Drains
    OBVIOUS
  <2>1. k - 1 \in 1 .. Len(e) /\ t[k] = e[k - 1]
    BY <1>1, <1>2, <1>3
  <2> QED
    BY <1>1, <2>1
<1>5. t # <<>> /\ Head(t) = as
  <2> HIDE DEF t
  <2>1. Len(t) >= 1 /\ t[1] = as /\ t \in Seq(Works)
    <3>1. Len(d) = 1 /\ Len(e) \in Nat /\ Len(t) = 1 + Len(e)
      BY <1>1, <1>2, <1>3
    <3>2. 1 \in 1 .. Len(d) + Len(e) /\ 1 <= Len(d)
      BY <3>1
    <3>3. t[1] = d[1]
      BY <1>3, <3>2, Zenon
    <3> QED
      BY <1>2, <1>3, <3>1, <3>3
  <2> QED
    BY <2>1, FirstElem
<1> QED
  BY <1>3, <1>4, <1>5 DEF Lined, e, d

-----------------------------------------------------------------------------
(* What an action leaves alone                                             *)

\* Nothing changes that the invariant of the activity of q reads.
Same(q) ==
    /\ calls'[q] = calls[q] /\ stage'[q] = stage[q]
    /\ remote'[q] = remote[q] /\ local'[q] = local[q] /\ flag'[q] = flag[q]
    /\ pending'[q] = pending[q] /\ added'[q] = added[q]
    /\ callback'[q] = callback[q] /\ drain'[q] = drain[q]
    /\ handler'[q] = handler[q] /\ handled'[q] = handled[q]

\* No activity becomes younger or forgets a candidate it has gathered, and no
\* label is given back.
Later ==
    /\ copied <= copied'
    /\ \A q \in Peers :
          /\ calls[q] <= calls'[q]
          /\ calls'[q] = calls[q] /\ stage'[q] # "closed"
                => stage[q] # "closed" /\ gathered[q] <= gathered'[q]

\* A candidate with a label that was not there before.
Novel(q, c) == c.by[1] = Other(q) /\ ~Known(c) /\ Known(c)'

\* What is on its way was so before, or is a repetition.
Arriving ==
    /\ net' \subseteq Peers \X Signals
    /\ copied' \in 0 .. MaxCopies /\ copied <= copied'
    /\ \A q \in Peers : \A c \in Cands :
          <<q, c>> \in net' => <<q, c>> \in net \/ Novel(q, c)

\* No candidate comes from anywhere, but for repetitions, or goes anywhere but
\* away.
NoneNew == \A q \in Peers :
    /\ outbox'[q] \cap Cands \subseteq outbox[q]
    /\ \A c \in Cands : <<q, c>> \in net' => <<q, c>> \in net \/ Novel(q, c)
    /\ Taken(q)' \subseteq Taken(q)

\* The parts of a candidate.
LEMMA CandParts ==
    \A c \in Cands : /\ c.by[1] \in Peers /\ c.by[2] \in 1 .. MaxCalls
                     /\ c.i \in 1 .. MaxCands /\ c.kind = "ice"
                     /\ c.copy \in 0 .. MaxCopies
BY DEF Cands, Activities

\* Only a candidate is handled.
LEMMA TakenCands == ASSUME TypeOK PROVE \A q \in Peers : Taken(q) \subseteq Cands
<1> SUFFICES ASSUME NEW q \in Peers, NEW c \in Taken(q) PROVE c \in Cands
  OBVIOUS
<1>1. handled[q] \subseteq Cands /\ handler[q] \subseteq [cand : Cands, ready : BOOLEAN]
  BY DEF TypeOK
<1> QED
  BY <1>1 DEF Taken

\* What an activity does not touch keeps its invariant.
LEMMA SameLocal ==
    ASSUME NEW q, Local(q), Same(q), raced \subseteq raced'
    PROVE  Local(q)'
<1>1. Shut(q)'
  BY DEF Local, Same, Shut
<1>2. Early(q)'
  BY DEF Local, Same, Early
<1>3. Draining(q)'
  BY DEF Local, Same, Draining, DrainDue, Due, Got
<1>4. Handled(q)'
  BY DEF Local, Same, Handled, Got
<1>5. Kept(q)'
  <2>1. Got(q)' = Got(q)
    BY DEF Same, Got
  <2>2. CASE flag[q]
    BY <2>1, <2>2 DEF Local, Same, Kept
  <2>3. CASE ~flag[q]
    BY <2>1, <2>3 DEF Local, Same, Kept
  <2> QED
    BY <2>2, <2>3
<1> QED
  BY <1>1, <1>2, <1>3, <1>4, <1>5 DEF Local

\* A candidate stays known.
LEMMA KnownStays ==
    ASSUME TypeOK, TypeOK', Later, NEW c \in Cands, Known(c)
    PROVE  Known(c)'
<1>1. c.by[1] \in Peers /\ c.by[2] \in Nat /\ c.i \in Nat /\ c.copy \in Nat
  BY CandParts
<1> DEFINE q == c.by[1]
<1>2. /\ calls[q] \in Nat /\ calls'[q] \in Nat /\ copied \in Nat /\ copied' \in Nat
      /\ gathered[q] \in Nat /\ gathered'[q] \in Nat
  BY <1>1 DEF TypeOK
<1> QED
  BY <1>1, <1>2 DEF Later, Known

\* Candidates that only disappear stay unique.
LEMMA TokenStays ==
    ASSUME TypeOK, TypeOK', Token, Later, NoneNew
    PROVE  Token'
<1>1. Unsent'
  <2> SUFFICES ASSUME NEW p \in Peers, NEW c \in outbox'[p] \cap Cands
               PROVE  /\ c.by[1] = p /\ Known(c)'
                      /\ <<Other(p), c>> \notin net' /\ c \notin Taken(Other(p))'
    BY DEF Unsent
  <2>1. c \in outbox[p] \cap Cands /\ Other(p) \in Peers
    BY Two DEF NoneNew
  <2>2. /\ c.by[1] = p /\ Known(c)
        /\ <<Other(p), c>> \notin net /\ c \notin Taken(Other(p))
    BY <2>1 DEF Token, Unsent
  <2>3. Known(c)'
    BY <2>1, <2>2, KnownStays
  <2> QED
    BY <2>1, <2>2, <2>3 DEF NoneNew, Novel
<1>2. OnItsWay'
  <2> SUFFICES ASSUME NEW p \in Peers, NEW c \in Cands, <<p, c>> \in net'
               PROVE  c.by[1] = Other(p) /\ Known(c)' /\ c \notin Taken(p)'
    BY DEF OnItsWay
  <2>1. CASE <<p, c>> \in net
    <3>1. c.by[1] = Other(p) /\ Known(c) /\ c \notin Taken(p)
      BY <2>1 DEF Token, OnItsWay
    <3> QED
      BY <3>1, KnownStays DEF NoneNew
  <2>2. CASE Novel(p, c)
    <3>1. c \notin Taken(p)
      BY <2>2 DEF Novel, Token, Arrived
    <3> QED
      BY <2>2, <3>1 DEF Novel, NoneNew
  <2> QED
    BY <2>1, <2>2 DEF NoneNew
<1>3. Arrived'
  <2> SUFFICES ASSUME NEW p \in Peers, NEW c \in Taken(p)'
               PROVE  c.by[1] = Other(p) /\ Known(c)'
    BY DEF Arrived
  <2>1. c \in Taken(p) /\ c \in Cands
    BY TakenCands DEF NoneNew
  <2>2. c.by[1] = Other(p) /\ Known(c)
    BY <2>1 DEF Token, Arrived
  <2> QED
    BY <2>1, <2>2, KnownStays
<1> QED
  BY <1>1, <1>2, <1>3 DEF Token

\* What is left to show of an action of p.
LEMMA Together ==
    ASSUME IInv, NEW p \in Peers, TypeOK', Token', Local(p)',
           \A q \in Peers \ {p} : Same(q), raced \subseteq raced'
    PROVE  IInv'
<1>1. ASSUME NEW q \in Peers PROVE Local(q)'
  <2>1. CASE q = p
    BY <2>1
  <2>2. CASE q # p
    <3>1. Local(q) /\ Same(q)
      BY <2>2 DEF IInv
    <3> QED
      BY <3>1, SameLocal
  <2> QED
    BY <2>1, <2>2
<1> QED
  BY <1>1 DEF IInv
-----------------------------------------------------------------------------
(* The activity                                                            *)

\* The devices start with the invariant.
LEMMA InitInv == Init => IInv
<1> SUFFICES ASSUME Init PROVE IInv
  OBVIOUS
<1>1. TypeOK
  <2>1. <<>> \in Seq(Cands) /\ <<>> \in Seq(Works)
    OBVIOUS
  <2>2. None \in Offers \cup Answers \cup {None} /\ 0 \in 0 .. MaxCalls
        /\ 0 \in 0 .. MaxCands /\ 0 \in 0 .. MaxCopies
    BY CallConstants
  <2> HIDE DEF None
  <2> QED
    BY <2>1, <2>2 DEF Init, TypeOK
<1>2. Token
  BY DEF Init, Token, Unsent, OnItsWay, Arrived, Taken
<1>3. ASSUME NEW p \in Peers PROVE Local(p)
  BY DEF Init, Local, Shut, Early, Draining, Handled, Kept, Lined, DrainDue,
         Due, Got, Elems, Distinct
<1> QED
  BY <1>1, <1>2, <1>3 DEF IInv

\* Create(p)
LEMMA CreateInv == ASSUME IInv, NEW p \in Peers, Create(p) PROVE IInv'
<1> USE DEF Fresh, conn, ice, thread
<1>1. /\ calls[p] \in Nat /\ calls[Other(p)] \in Nat /\ calls[p] + 1 \in 0 .. MaxCalls
      /\ calls' = [calls EXCEPT ![p] = calls[p] + 1]
  BY Two, CallConstants DEF IInv, TypeOK, Create
<1>2. TypeOK'
  <2>1. calls' \in [Peers -> 0 .. MaxCalls]
        /\ stage' \in [Peers -> {"closed", "asking", "running"}]
    BY <1>1 DEF IInv, TypeOK, Create
  <2> QED
    BY <2>1 DEF IInv, TypeOK, Create
<1>3. \A q \in Peers \ {p} : Same(q)
  BY DEF IInv, TypeOK, Create, Same
<1>4. Local(p)'
  <2>1. Local(p) /\ stage'[p] = "asking" /\ calls'[p] > 0
    BY <1>1 DEF IInv, TypeOK, Create
  <2>2. Shut(p)'
    BY <2>1 DEF Shut
  <2>3. Early(p)' /\ Draining(p)' /\ Handled(p)'
    BY <2>1 DEF Create, Local, Early, Draining, Handled, DrainDue, Due, Got
  <2>4. Kept(p)'
    BY <2>1 DEF Create, Local, Kept, Got
  <2> QED
    BY <2>2, <2>3, <2>4 DEF Local
<1>5. Token'
  <2>1. Later
    BY <1>1, <1>2 DEF IInv, TypeOK, Create, Later
  <2>2. NoneNew
    BY DEF Create, NoneNew, Taken
  <2> QED
    BY <1>2, <2>1, <2>2, TokenStays DEF IInv
<1> QED
  BY <1>2, <1>3, <1>4, <1>5, Together DEF Create

\* Start(p)
LEMMA StartInv == ASSUME IInv, NEW p \in Peers, Start(p) PROVE IInv'
<1> USE DEF Fresh, conn, ice, thread
<1>1. /\ callback[p] \in Seq(Works) /\ "offerMade" \in Works /\ calls[p] > 0
      /\ "offerMade" \notin Drains
      /\ callback' = [callback EXCEPT ![p] = Append(callback[p], "offerMade")]
  BY DEF IInv, TypeOK, Start, Works, Drains, Local, Shut
<1> DEFINE cb == Append(callback[p], "offerMade")
<1>2. /\ cb \in Seq(Works) /\ cb # <<>> /\ Elems(cb) = Elems(callback[p]) \cup {"offerMade"}
      /\ Lined(callback[p]) => Lined(cb)
      /\ Head(cb) = IF callback[p] = <<>> THEN "offerMade" ELSE Head(callback[p])
  BY <1>1, AppendElems
<1> HIDE DEF cb
<1>3. TypeOK'
  <2>1. stage' \in [Peers -> {"closed", "asking", "running"}]
    BY DEF IInv, TypeOK, Start
  <2>2. callback' \in [Peers -> Seq(Works)]
    BY <1>1, <1>2 DEF IInv, TypeOK, Start, cb
  <2> QED
    BY <2>1, <2>2 DEF IInv, TypeOK, Start, Works
<1>4. \A q \in Peers \ {p} : Same(q)
  BY DEF IInv, TypeOK, Start, Same
<1>5. Local(p)'
  <2>1. Local(p) /\ stage'[p] = "running" /\ callback'[p] = cb
    BY <1>1 DEF IInv, TypeOK, Start, cb
  <2>2. Shut(p)'
    BY <1>1, <2>1 DEF Shut, Start
  <2>3. Early(p)'
    BY <1>2, <2>1 DEF Start, Local, Early
  <2>4. DrainDue(p)' <=> DrainDue(p)
    BY <1>2, <2>1 DEF DrainDue, Due, Drains
  <2>5. Draining(p)'
    BY <1>2, <2>1, <2>4 DEF Start, Local, Draining, Got
  <2>6. Handled(p)' /\ Kept(p)'
    BY <2>1 DEF Start, Local, Handled, Kept, Got
  <2> QED
    BY <2>2, <2>3, <2>5, <2>6 DEF Local
<1>6. Token'
  <2>1. Later
    BY DEF IInv, TypeOK, Start, Later
  <2>2. NoneNew
    BY DEF Start, NoneNew, Taken
  <2> QED
    BY <1>3, <2>1, <2>2, TokenStays DEF IInv
<1> QED
  BY <1>3, <1>4, <1>5, <1>6, Together DEF Start

\* Destroy(p), whoever calls it: the outbox is empty and no candidate is sent.
LEMMA DestroyInv ==
    ASSUME IInv, NEW p \in Peers, Destroy(p), Fresh(outbox, p, {}), Arriving
    PROVE  IInv'
<1> USE DEF Fresh, ClearFields, Destroy
<1>1. TypeOK'
  <2>1. /\ calls' \in [Peers -> 0 .. MaxCalls]
        /\ stage' \in [Peers -> {"closed", "asking", "running"}]
        /\ sig' \in [Peers -> {"stable", "haveLocal", "haveRemote"}]
    BY DEF IInv, TypeOK
  <2>2. /\ remote' \in [Peers -> Offers \cup Answers \cup {None}]
        /\ local' \in [Peers -> Offers \cup Answers \cup {None}]
    BY DEF IInv, TypeOK
  <2>3. /\ flag' \in [Peers -> BOOLEAN] /\ pending' \in [Peers -> SUBSET Cands]
        /\ handled' \in [Peers -> SUBSET Cands] /\ raced' \subseteq Cands
        /\ drain' \in [Peers -> SUBSET Cands]
    BY DEF IInv, TypeOK
  <2>4. added' \in [Peers -> Seq(Cands)] /\ callback' \in [Peers -> Seq(Works)]
    <3>1. added \in [Peers -> Seq(Cands)] /\ callback \in [Peers -> Seq(Works)]
      BY DEF IInv, TypeOK
    <3>2. added' = [added EXCEPT ![p] = <<>>] /\ callback' = [callback EXCEPT ![p] = <<>>]
      OBVIOUS
    <3>3. <<>> \in Seq(Cands) /\ <<>> \in Seq(Works)
      OBVIOUS
    <3> QED
      BY ONLY <3>1, <3>2, <3>3, p \in Peers
  <2>5. handler' \in [Peers -> SUBSET [cand : Cands, ready : BOOLEAN]]
    BY DEF IInv, TypeOK
  <2>6. gathered' \in [Peers -> 0 .. MaxCands] /\ outbox' \in [Peers -> SUBSET Signals]
        /\ net' \subseteq Peers \X Signals /\ copied' \in 0 .. MaxCopies
    BY CallConstants DEF IInv, TypeOK, Arriving
  <2>7. \A q \in Peers : stage'[q] = "closed" => ~flag'[q] /\ pending'[q] = {}
    BY DEF IInv, TypeOK
  <2> QED
    BY <2>1, <2>2, <2>3, <2>4, <2>5, <2>6, <2>7 DEF TypeOK, Works
<1>2. \A q \in Peers \ {p} : Same(q)
  BY DEF IInv, TypeOK, Same
<1>3. /\ stage'[p] = "closed" /\ remote'[p] = None /\ local'[p] = None
      /\ flag'[p] = FALSE /\ pending'[p] = {} /\ added'[p] = <<>>
      /\ callback'[p] = <<>> /\ drain'[p] = {} /\ handler'[p] = {} /\ handled'[p] = {}
      /\ gathered'[p] = 0 /\ outbox'[p] = {}
  BY DEF IInv, TypeOK
<1>4. Local(p)'
  BY <1>3 DEF Local, Shut, Early, Draining, Handled, Kept, Lined, DrainDue, Due, Got, Elems,
         Distinct
<1>5. Token'
  <2>1. Later
    BY <1>3, <1>1 DEF IInv, TypeOK, Later, Arriving
  <2>2. NoneNew
    <3> SUFFICES ASSUME NEW q \in Peers
                 PROVE  /\ outbox'[q] \cap Cands \subseteq outbox[q]
                        /\ Taken(q)' \subseteq Taken(q)
      BY DEF NoneNew, Arriving
    <3>1. CASE q = p
      BY <1>3, <3>1 DEF Taken
    <3>2. CASE q # p
      <4>1. outbox'[q] = outbox[q]
        BY <3>2 DEF IInv, TypeOK
      <4> QED
        BY <1>2, <3>2, <4>1 DEF Same, Taken
    <3> QED
      BY <3>1, <3>2
  <2> QED
    BY <1>1, <2>1, <2>2, TokenStays DEF IInv
<1> QED
  BY <1>1, <1>2, <1>4, <1>5, Together

-----------------------------------------------------------------------------
(* The signaling thread                                                    *)

\* Whose callback runs is open.
LEMMA Running ==
    ASSUME IInv, NEW p \in Peers, callback[p] # <<>>
    PROVE  stage[p] # "closed" /\ calls[p] > 0 /\ Me(p) \in Activities
<1>1. stage[p] # "closed" /\ calls[p] > 0
  BY DEF IInv, Local, Shut
<1>2. calls[p] \in 1 .. MaxCalls
  BY <1>1, CallConstants DEF IInv, TypeOK
<1> QED
  BY <1>1, <1>2 DEF Me, Activities

\* The callback that has run was not a drain: the others are in line.
LEMMA DoneLocal ==
    ASSUME IInv, NEW p \in Peers, callback[p] # <<>>, ~DrainDue(p),
           callback'[p] = Tail(callback[p]), TypeOK',
           calls'[p] = calls[p], stage'[p] = stage[p], remote'[p] = remote[p],
           flag'[p] = flag[p], pending'[p] = pending[p], added'[p] = added[p],
           drain'[p] = drain[p], handler'[p] = handler[p], handled'[p] = handled[p],
           raced' = raced
    PROVE  Local(p)'
<1>1. callback[p] \in Seq(Works)
  BY DEF IInv, TypeOK, Works
<1>2. /\ Elems(Tail(callback[p])) \subseteq Elems(callback[p])
      /\ Lined(callback[p]) => /\ Lined(Tail(callback[p]))
                               /\ Tail(callback[p]) # <<>>
                                     => Head(Tail(callback[p])) \notin Drains
  BY <1>1, TailElems
<1>3. Local(p)
  BY DEF IInv
<1>4. Shut(p)'
  BY <1>3, Running DEF Local, Shut
<1>5. Early(p)'
  BY <1>2, <1>3 DEF Local, Early
<1>6. ~DrainDue(p)' /\ Lined(callback[p])'
  BY <1>2, <1>3 DEF DrainDue, Due, Local, Draining
<1>7. Draining(p)'
  BY <1>3, <1>6 DEF Local, Draining, Got
<1>8. Handled(p)' /\ Kept(p)'
  BY <1>3 DEF Local, Handled, Kept, Got
<1> QED
  BY <1>4, <1>5, <1>7, <1>8 DEF Local

\* OfferMade(p)
LEMMA OfferMadeInv == ASSUME IInv, NEW p \in Peers, OfferMade(p) PROVE IInv'
<1> USE DEF Fresh, conn, ice, thread, Done, Queue
<1> DEFINE o == [kind |-> "offer", by |-> Me(p)]
<1>1. callback[p] # <<>> /\ ~DrainDue(p) /\ callback[p] \in Seq(Works)
  BY DEF IInv, TypeOK, OfferMade, DrainDue, Due, Drains
<1>2. o \in Offers /\ o \in Signals /\ o \notin Cands
  BY <1>1, Running DEF Offers, Signals, Cands
<1> HIDE DEF o
<1>3. /\ callback' = [callback EXCEPT ![p] = Tail(callback[p])]
      /\ outbox' = [outbox EXCEPT ![p] = outbox[p] \cup {o}]
      /\ UNCHANGED <<calls, stage, remote, flag, pending, added, handler, handled, raced,
                     drain, gathered, net, copied>>
      /\ sig' = sig \/ sig' = [sig EXCEPT ![p] = "haveLocal"]
      /\ local' = local \/ local' = [local EXCEPT ![p] = o]
  BY DEF OfferMade, o
<1>4. TypeOK'
  <2>1. sig' \in [Peers -> {"stable", "haveLocal", "haveRemote"}]
    BY <1>3 DEF IInv, TypeOK
  <2>2. local' \in [Peers -> Offers \cup Answers \cup {None}]
    <3>1. o \in Offers \cup Answers \cup {None}
      BY <1>2
    <3>2. local \in [Peers -> Offers \cup Answers \cup {None}]
      BY DEF IInv, TypeOK
    <3> HIDE DEF None
    <3>3. CASE local' = local
      BY <3>2, <3>3
    <3>4. CASE local' = [local EXCEPT ![p] = o]
      BY <3>1, <3>2, <3>4
    <3> QED
      BY <1>3, <3>3, <3>4
  <2>3. Tail(callback[p]) \in Seq(Works)
    BY <1>1, TailElems
  <2>4. callback' \in [Peers -> Seq(Works)] /\ outbox' \in [Peers -> SUBSET Signals]
    BY <1>2, <1>3, <2>3 DEF IInv, TypeOK, Works
  <2> QED
    BY <1>3, <2>1, <2>2, <2>4 DEF IInv, TypeOK, Works
<1>5. \A q \in Peers \ {p} : Same(q)
  BY <1>3 DEF IInv, TypeOK, Same
<1>6. callback'[p] = Tail(callback[p])
  BY <1>3 DEF IInv, TypeOK
<1>7. Local(p)'
  BY <1>1, <1>3, <1>4, <1>6, DoneLocal
<1>8. Token'
  <2>1. Later
    BY <1>3 DEF IInv, TypeOK, Later
  <2>2. NoneNew
    BY <1>2, <1>3 DEF IInv, TypeOK, NoneNew, Taken
  <2> QED
    BY <1>4, <2>1, <2>2, TokenStays DEF IInv
<1> QED
  BY <1>3, <1>4, <1>5, <1>7, <1>8, Together

\* AnswerMade(p)
LEMMA AnswerMadeInv == ASSUME IInv, NEW p \in Peers, AnswerMade(p) PROVE IInv'
<1> USE DEF Fresh, conn, ice, thread, Done, Queue
<1> DEFINE a == [kind |-> "answer", by |-> Me(p)]
<1>1. /\ callback[p] # <<>> /\ ~DrainDue(p) /\ callback[p] \in Seq(Works)
  BY DEF IInv, TypeOK, AnswerMade, DrainDue, Due, Drains
<1>2. a \in Answers /\ a \in Signals /\ a \notin Cands
  BY <1>1, Running DEF Answers, Signals, Cands
<1> HIDE DEF a
<1>3. /\ callback' = [callback EXCEPT ![p] = Tail(callback[p])]
      /\ outbox' = outbox \/ outbox' = [outbox EXCEPT ![p] = outbox[p] \cup {a}]
      /\ UNCHANGED <<calls, stage, remote, flag, pending, added, handler, handled, raced,
                     drain, gathered, net, copied>>
      /\ sig' = sig \/ sig' = [sig EXCEPT ![p] = "stable"]
      /\ local' = local \/ local' = [local EXCEPT ![p] = a]
  BY DEF AnswerMade, a
<1>4. TypeOK'
  <2>1. sig' \in [Peers -> {"stable", "haveLocal", "haveRemote"}]
    BY <1>3 DEF IInv, TypeOK
  <2>2. local' \in [Peers -> Offers \cup Answers \cup {None}]
    <3>1. a \in Offers \cup Answers \cup {None}
      BY <1>2
    <3>2. local \in [Peers -> Offers \cup Answers \cup {None}]
      BY DEF IInv, TypeOK
    <3> HIDE DEF None
    <3> QED
      BY <1>3, <3>1, <3>2
  <2>3. Tail(callback[p]) \in Seq(Works)
    BY <1>1, TailElems
  <2>4. callback' \in [Peers -> Seq(Works)]
    BY <1>3, <2>3 DEF IInv, TypeOK
  <2>5. outbox' \in [Peers -> SUBSET Signals]
    <3>1. CASE outbox' = outbox
      BY <3>1 DEF IInv, TypeOK
    <3>2. CASE outbox' = [outbox EXCEPT ![p] = outbox[p] \cup {a}]
      BY <1>2, <3>2 DEF IInv, TypeOK
    <3> QED
      BY <1>3, <3>1, <3>2
  <2> QED
    BY <1>3, <2>1, <2>2, <2>4, <2>5 DEF IInv, TypeOK
<1>5. \A q \in Peers \ {p} : Same(q)
  BY <1>3 DEF IInv, TypeOK, Same
<1>6. callback'[p] = Tail(callback[p])
  BY <1>3 DEF IInv, TypeOK
<1>7. Local(p)'
  BY <1>1, <1>3, <1>4, <1>6, DoneLocal
<1>8. Token'
  <2>1. Later
    BY <1>3 DEF IInv, TypeOK, Later
  <2>2. \A q \in Peers : outbox'[q] \cap Cands \subseteq outbox[q]
    <3>1. CASE outbox' = outbox
      BY <3>1
    <3>2. CASE outbox' = [outbox EXCEPT ![p] = outbox[p] \cup {a}]
      BY <1>2, <3>2 DEF IInv, TypeOK
    <3> QED
      BY <1>3, <3>1, <3>2
  <2>3. NoneNew
    BY <1>3, <2>2 DEF NoneNew, Taken
  <2> QED
    BY <1>4, <2>1, <2>3, TokenStays DEF IInv
<1> QED
  BY <1>3, <1>4, <1>5, <1>7, <1>8, Together

\* SdpSet(p, as), whose callback is the remote description's.
LEMMA SdpSetInv ==
    ASSUME IInv, NEW p \in Peers, NEW as \in Drains,
           callback[p] # <<>>, Head(callback[p]) \in {"offerSet", "answerSet"},
           SdpSet(p, as),
           UNCHANGED <<calls, stage, conn, pending, added, handler, handled, gathered,
                       outbox, net, copied>>
    PROVE  IInv'
<1> USE DEF Fresh, conn
<1> DEFINE cb == <<as>> \o Tail(callback[p])
           late == {h.cand : h \in {g \in handler[p] : ~g.ready}}
<1>1. /\ ~DrainDue(p) /\ callback[p] \in Seq(Works)
      /\ Head(callback[p]) # "offerMade" /\ Local(p)
  BY DEF IInv, TypeOK, DrainDue, Due, Drains
<1>2. remote[p] # None
  <2>1. Head(callback[p]) \in Elems(callback[p])
    BY <1>1, TailElems
  <2> QED
    BY <1>1, <2>1 DEF Local, Early
<1>3. cb \in Seq(Works) /\ Lined(cb) /\ cb # <<>> /\ Head(cb) = as
  BY <1>1, DrainFirst DEF Local, Draining
<1>4. /\ flag' = [flag EXCEPT ![p] = TRUE] /\ drain' = [drain EXCEPT ![p] = pending[p]]
      /\ callback' = [callback EXCEPT ![p] = cb] /\ raced' = raced \cup late
  BY DEF SdpSet
<1>5. late \subseteq Cands
  BY DEF IInv, TypeOK
<1> HIDE DEF cb
<1>6. /\ flag'[p] = TRUE /\ drain'[p] = pending[p] /\ callback'[p] = cb
      /\ stage'[p] # "closed"
  BY <1>4, Running DEF IInv, TypeOK
<1>7. TypeOK'
  <2>1. flag' \in [Peers -> BOOLEAN] /\ drain' \in [Peers -> SUBSET Cands]
        /\ raced' \subseteq Cands
    BY <1>4, <1>5 DEF IInv, TypeOK
  <2>2. callback' \in [Peers -> Seq(Works)]
    BY <1>3, <1>4 DEF IInv, TypeOK, Works
  <2>3. \A q \in Peers : stage'[q] = "closed" => ~flag'[q] /\ pending'[q] = {}
    BY <1>4, <1>6 DEF IInv, TypeOK
  <2> QED
    BY <2>1, <2>2, <2>3 DEF IInv, TypeOK, Works
<1>8. \A q \in Peers \ {p} : Same(q)
  BY <1>4 DEF IInv, TypeOK, Same
<1>9. Local(p)'
  <2>1. Shut(p)'
    BY <1>1, <1>6 DEF Local, Shut
  <2>2. Early(p)'
    BY <1>2 DEF Early
  <2>3. DrainDue(p)'
    BY <1>3, <1>6 DEF DrainDue, Due
  <2>4. Draining(p)'
    BY <1>1, <1>3, <1>6, <2>3 DEF Local, Draining, Got
  <2>5. Handled(p)'
    BY <1>1, <1>6 DEF Local, Handled, Got
  <2>6. \A h \in handler[p] : h.ready \/ h.cand \in raced'
    BY <1>4
  <2>7. drain[p] = {} /\ handled[p] \subseteq raced \cup Got(p) \cup pending[p]
    BY <1>1 DEF Local, Draining, Kept
  <2>8. Kept(p)'
    BY <1>4, <1>6, <2>6, <2>7 DEF Kept, Got
  <2> QED
    BY <2>1, <2>2, <2>4, <2>5, <2>8 DEF Local
<1>10. Token'
  <2>1. Later
    BY DEF IInv, TypeOK, Later
  <2>2. NoneNew
    BY DEF NoneNew, Taken
  <2> QED
    BY <1>7, <2>1, <2>2, TokenStays DEF IInv
<1> QED
  BY <1>4, <1>7, <1>8, <1>9, <1>10, Together

\* DrainIce(p)
LEMMA DrainIceInv == ASSUME IInv, NEW p \in Peers, DrainIce(p) PROVE IInv'
<1> USE DEF Fresh, conn, Done
<1>1. /\ callback[p] # <<>> /\ DrainDue(p) /\ callback[p] \in Seq(Works)
      /\ Local(p) /\ flag[p] /\ added[p] \in Seq(Cands)
      /\ pending[p] \subseteq Cands /\ drain[p] \subseteq Cands
  BY DEF IInv, TypeOK, DrainIce, DrainDue, Due, Works, Local, Draining
<1>2. remote[p] # None
  BY <1>1 DEF Local, Early
<1>3. UNCHANGED <<calls, stage, conn, flag, handler, handled, raced, gathered, outbox,
                  net, copied>>
  BY DEF DrainIce
<1>4. Later /\ NoneNew
  <2>1. Later
    BY <1>3 DEF IInv, TypeOK, Later
  <2>2. NoneNew
    BY <1>3 DEF NoneNew, Taken
  <2> QED
    BY <2>1, <2>2
<1>5. ASSUME NEW c \in drain[p],
             drain' = [drain EXCEPT ![p] = drain[p] \ {c}],
             added' = [added EXCEPT ![p] = Append(added[p], c)],
             UNCHANGED <<pending, callback>>
      PROVE  IInv'
  <2> DEFINE ad == Append(added[p], c)
  <2>1. /\ ad \in Seq(Cands) /\ Elems(ad) = Elems(added[p]) \cup {c}
        /\ Distinct(added[p]) /\ c \notin Elems(added[p]) => Distinct(ad)
    BY <1>1, AppendElems
  <2> HIDE DEF ad
  <2>2. drain'[p] = drain[p] \ {c} /\ added'[p] = ad /\ Got(p)' = Got(p) \cup {c}
        /\ c \notin Got(p)
    BY <1>1, <1>5, <2>1 DEF IInv, TypeOK, ad, Got, Local, Draining
  <2>3. TypeOK'
    <3>1. drain' \in [Peers -> SUBSET Cands] /\ added' \in [Peers -> Seq(Cands)]
      BY <1>1, <1>5, <2>1 DEF IInv, TypeOK, ad
    <3> QED
      BY <1>3, <1>5, <3>1 DEF IInv, TypeOK
  <2>4. \A q \in Peers \ {p} : Same(q)
    BY <1>3, <1>5 DEF IInv, TypeOK, Same
  <2>5. Local(p)'
    <3>1. Shut(p)'
      BY <1>1, <1>3, <1>5 DEF Local, Shut
    <3>2. Early(p)'
      BY <1>2, <1>3 DEF Early
    <3>3. DrainDue(p)'
      BY <1>1, <1>5 DEF DrainDue, Due
    <3>4. Distinct(added[p])'
      BY <1>1, <2>1, <2>2 DEF Local, Draining, Got
    <3>5. Draining(p)'
      BY <1>1, <1>3, <1>5, <2>2, <3>3, <3>4 DEF Local, Draining
    <3>6. Handled(p)'
      BY <1>1, <1>3, <1>5, <2>2 DEF Local, Handled
    <3>7. Kept(p)'
      BY <1>1, <1>3, <1>5, <2>2 DEF Local, Kept
    <3> QED
      BY <3>1, <3>2, <3>5, <3>6, <3>7 DEF Local
  <2>6. Token'
    BY <1>4, <2>3, TokenStays DEF IInv
  <2> QED
    BY <1>3, <2>3, <2>4, <2>5, <2>6, Together
<1>6. ASSUME drain[p] = {}, Drained(p), AfterDrain(p, Head(callback[p])),
             UNCHANGED <<drain, added>>
      PROVE  IInv'
  <2> DEFINE tl == Tail(callback[p])
  <2>1. PICK cb : /\ callback' = [callback EXCEPT ![p] = cb]
                  /\ cb = tl \/ cb = Append(tl, "answerMade")
    BY <1>6 DEF AfterDrain
  <2>2. /\ cb \in Seq(Works) /\ pending'[p] = {} /\ callback'[p] = cb
        /\ Lined(callback[p]) => Lined(cb) /\ (cb # <<>> => Head(cb) \notin Drains)
    <3>1. /\ tl \in Seq(Works)
          /\ Lined(callback[p]) => Lined(tl) /\ (tl # <<>> => Head(tl) \notin Drains)
      BY <1>1, TailElems
    <3> HIDE DEF tl
    <3>2. "answerMade" \in Works /\ "answerMade" \notin Drains
      BY DEF Works, Drains
    <3>3. LET t == Append(tl, "answerMade")
          IN  /\ t \in Seq(Works) /\ (Lined(tl) => Lined(t))
              /\ Head(t) = IF tl = <<>> THEN "answerMade" ELSE Head(tl)
      BY <3>1, <3>2, AppendElems
    <3>4. pending'[p] = {} /\ callback'[p] = cb
      BY <1>6, <2>1 DEF IInv, TypeOK, Drained
    <3> QED
      BY <2>1, <3>1, <3>2, <3>3, <3>4
  <2> HIDE DEF tl
  <2>3. TypeOK'
    <3>1. callback' \in [Peers -> Seq(Works)] /\ pending' \in [Peers -> SUBSET Cands]
      BY <1>6, <2>1, <2>2 DEF IInv, TypeOK, Drained
    <3>2. \A q \in Peers : stage'[q] = "closed" => ~flag'[q] /\ pending'[q] = {}
      BY <1>3, <1>6 DEF IInv, TypeOK, Drained
    <3> QED
      BY <1>3, <1>6, <3>1, <3>2 DEF IInv, TypeOK, Works
  <2>4. \A q \in Peers \ {p} : Same(q)
    BY <1>3, <1>6, <2>1 DEF IInv, TypeOK, Same, Drained
  <2>5. Local(p)'
    <3>1. Shut(p)'
      BY <1>1, <1>3, Running DEF Local, Shut
    <3>2. Early(p)'
      BY <1>2, <1>3 DEF Early
    <3>3. ~DrainDue(p)' /\ Lined(callback[p])'
      BY <1>1, <2>2 DEF DrainDue, Due, Local, Draining
    <3>4. Draining(p)'
      BY <1>1, <1>3, <1>6, <2>2, <3>3 DEF Local, Draining, Got
    <3>5. Handled(p)' /\ Kept(p)'
      BY <1>1, <1>3, <1>6, <2>2 DEF Local, Handled, Kept, Got
    <3> QED
      BY <3>1, <3>2, <3>4, <3>5 DEF Local
  <2>6. Token'
    BY <1>4, <2>3, TokenStays DEF IInv
  <2> QED
    BY <1>3, <2>3, <2>4, <2>5, <2>6, Together
<1> QED
  BY <1>5, <1>6 DEF DrainIce

\* Gather(p): the candidate is new.
LEMMA GatherInv == ASSUME IInv, NEW p \in Peers, Gather(p) PROVE IInv'
<1> USE DEF Fresh, conn, ice, thread, Queue
<1>0. PICK n : n = [kind |-> "ice", by |-> Me(p), i |-> gathered[p] + 1, copy |-> 0]
  OBVIOUS
<1>1. /\ calls[p] \in Nat /\ calls[p] \in 1 .. MaxCalls /\ gathered[p] \in Nat
      /\ gathered[p] + 1 \in 1 .. MaxCands
      /\ stage[p] # "closed" /\ Other(p) \in Peers /\ Other(Other(p)) = p /\ Other(p) # p
  BY Two, CallConstants DEF IInv, TypeOK, Gather, Local, Shut
<1>2. /\ n \in Cands /\ n \in Signals
      /\ n.by[1] = p /\ n.by[2] = calls[p] /\ n.i = gathered[p] + 1 /\ n.copy = 0
  BY <1>0, <1>1, CallConstants DEF Me, Cands, Signals, Activities
<1>3. /\ gathered' = [gathered EXCEPT ![p] = gathered[p] + 1]
      /\ outbox' = [outbox EXCEPT ![p] = outbox[p] \cup {n}]
      /\ UNCHANGED <<calls, stage, sig, remote, local, flag, pending, added, handler,
                     handled, raced, callback, drain, net, copied>>
  BY <1>0 DEF Gather
<1>4. ~Known(n)
  BY <1>1, <1>2 DEF Known
<1>5. \A q \in Peers : <<q, n>> \notin net /\ n \notin Taken(q)
  BY <1>2, <1>4 DEF IInv, Token, OnItsWay, Arrived
<1>6. gathered'[p] = gathered[p] + 1 /\ outbox'[p] = outbox[p] \cup {n}
      /\ \A q \in Peers \ {p} : gathered'[q] = gathered[q] /\ outbox'[q] = outbox[q]
  BY <1>3 DEF IInv, TypeOK
<1>7. TypeOK'
  <2>1. gathered' \in [Peers -> 0 .. MaxCands] /\ outbox' \in [Peers -> SUBSET Signals]
    BY <1>1, <1>2, <1>3 DEF IInv, TypeOK
  <2> QED
    BY <1>3, <2>1 DEF IInv, TypeOK
<1>8. \A q \in Peers : Same(q)
  BY <1>3 DEF Same
<1>9. Later
  BY <1>1, <1>3, <1>6 DEF IInv, TypeOK, Later
<1>10. Known(n)'
  <2>1. calls'[p] = calls[p] /\ gathered'[p] = gathered[p] + 1
    BY <1>3, <1>6
  <2>2. n.by[2] <= calls'[p] /\ n.i <= gathered'[p] /\ n.copy <= copied'
    BY <1>1, <1>2, <1>7, <2>1 DEF TypeOK
  <2> QED
    BY <1>2, <2>2 DEF Known
<1>11. \A q \in Peers : Taken(q)' = Taken(q)
  BY <1>3 DEF Taken
<1>12. Unsent'
  <2> SUFFICES ASSUME NEW q \in Peers, NEW c \in outbox'[q] \cap Cands
               PROVE  /\ c.by[1] = q /\ Known(c)'
                      /\ <<Other(q), c>> \notin net' /\ c \notin Taken(Other(q))'
    BY DEF Unsent
  <2>1. Other(q) \in Peers
    BY Two
  <2>2. CASE c \in outbox[q]
    <3>1. /\ c.by[1] = q /\ Known(c)
          /\ <<Other(q), c>> \notin net /\ c \notin Taken(Other(q))
      BY <2>2 DEF IInv, Token, Unsent
    <3>2. Known(c)'
      BY <1>7, <1>9, <3>1, KnownStays DEF IInv
    <3> QED
      BY <1>3, <1>11, <2>1, <3>1, <3>2
  <2>3. CASE c \notin outbox[q]
    <3>1. q = p /\ c = n
      BY <1>6, <2>3
    <3>2. <<Other(q), n>> \notin net /\ n \notin Taken(Other(q))
      BY <1>5, <2>1
    <3>3. <<Other(q), n>> \notin net' /\ n \notin Taken(Other(q))'
      BY <1>3, <1>11, <2>1, <3>2
    <3>4. n.by[1] = q
      BY <1>2, <3>1
    <3> QED
      BY <1>10, <3>1, <3>3, <3>4
  <2> QED
    BY <2>2, <2>3
<1>13. OnItsWay' /\ Arrived'
  <2>1. ASSUME NEW q \in Peers, NEW c \in Cands, <<q, c>> \in net'
        PROVE  c.by[1] = Other(q) /\ Known(c)' /\ c \notin Taken(q)'
    <3>1. c.by[1] = Other(q) /\ Known(c) /\ c \notin Taken(q)
      BY <1>3, <2>1 DEF IInv, Token, OnItsWay
    <3> QED
      BY <1>7, <1>9, <1>11, <3>1, KnownStays DEF IInv
  <2>2. ASSUME NEW q \in Peers, NEW c \in Taken(q)'
        PROVE  c.by[1] = Other(q) /\ Known(c)'
    <3>1. c \in Taken(q) /\ c \in Cands
      BY <1>11, <2>2, TakenCands DEF IInv
    <3>2. c.by[1] = Other(q) /\ Known(c)
      BY <3>1 DEF IInv, Token, Arrived
    <3> QED
      BY <1>7, <1>9, <3>1, <3>2, KnownStays DEF IInv
  <2> QED
    BY <2>1, <2>2 DEF OnItsWay, Arrived
<1>14. Local(p)'
  BY <1>3, <1>8, SameLocal DEF IInv
<1> QED
  BY <1>3, <1>7, <1>8, <1>12, <1>13, <1>14, Together DEF Token

-----------------------------------------------------------------------------
(* Datagrams                                                               *)

\* Send(p)
LEMMA SendInv == ASSUME IInv, NEW p \in Peers, Send(p) PROVE IInv'
<1> USE DEF Fresh, conn, ice, thread
<1>1. PICK s \in outbox[p] :
          /\ outbox' = [outbox EXCEPT ![p] = outbox[p] \ {s}]
          /\ net' = net \cup {<<Other(p), s>>}
  BY DEF Send
<1>2. /\ UNCHANGED <<calls, stage, sig, remote, local, flag, pending, added, handler,
                     handled, raced, callback, drain, gathered, copied>>
      /\ Other(p) \in Peers /\ Other(Other(p)) = p /\ s \in Signals
  BY Two DEF IInv, TypeOK, Send
<1>3. /\ outbox'[p] = outbox[p] \ {s}
      /\ \A q \in Peers \ {p} : outbox'[q] = outbox[q]
  BY <1>1 DEF IInv, TypeOK
<1>4. TypeOK'
  <2>1. outbox' \in [Peers -> SUBSET Signals] /\ net' \subseteq Peers \X Signals
    BY <1>1, <1>2 DEF IInv, TypeOK
  <2> QED
    BY <1>2, <2>1 DEF IInv, TypeOK
<1>5. \A q \in Peers : Same(q)
  BY <1>2 DEF Same
<1>6. Later
  BY <1>2 DEF IInv, TypeOK, Later
<1>7. \A q \in Peers : Taken(q)' = Taken(q)
  BY <1>2 DEF Taken
<1>8. Unsent'
  <2> SUFFICES ASSUME NEW q \in Peers, NEW c \in outbox'[q] \cap Cands
               PROVE  /\ c.by[1] = q /\ Known(c)'
                      /\ <<Other(q), c>> \notin net' /\ c \notin Taken(Other(q))'
    BY DEF Unsent
  <2>1. Other(q) \in Peers /\ c \in outbox[q]
    BY <1>3, Two
  <2>2. /\ c.by[1] = q /\ Known(c)
        /\ <<Other(q), c>> \notin net /\ c \notin Taken(Other(q))
    BY <2>1 DEF IInv, Token, Unsent
  <2>3. Known(c)'
    BY <1>4, <1>6, <2>2, KnownStays DEF IInv
  <2>4. c # s
    <3> SUFFICES ASSUME c = s PROVE FALSE
      OBVIOUS
    <3>1. q # p
      BY <1>3
    <3>2. c.by[1] = p
      BY DEF IInv, Token, Unsent
    <3> QED
      BY <2>2, <3>1, <3>2
  <2>5. <<Other(q), c>> \notin net'
    BY <1>1, <2>2, <2>4
  <2> QED
    BY <1>7, <2>1, <2>2, <2>3, <2>5
<1>9. OnItsWay'
  <2> SUFFICES ASSUME NEW q \in Peers, NEW c \in Cands, <<q, c>> \in net'
               PROVE  c.by[1] = Other(q) /\ Known(c)' /\ c \notin Taken(q)'
    BY DEF OnItsWay
  <2>1. c.by[1] = Other(q) /\ Known(c) /\ c \notin Taken(q)
    <3>1. CASE <<q, c>> \in net
      BY <3>1 DEF IInv, Token, OnItsWay
    <3>2. CASE q = Other(p) /\ c = s
      BY <1>2, <3>2 DEF IInv, Token, Unsent
    <3> QED
      BY <1>1, <3>1, <3>2
  <2> QED
    BY <1>4, <1>6, <1>7, <2>1, KnownStays DEF IInv
<1>10. Arrived'
  <2> SUFFICES ASSUME NEW q \in Peers, NEW c \in Taken(q)'
               PROVE  c.by[1] = Other(q) /\ Known(c)'
    BY DEF Arrived
  <2>1. c \in Taken(q) /\ c \in Cands
    BY <1>7, TakenCands DEF IInv
  <2>2. c.by[1] = Other(q) /\ Known(c)
    BY <2>1 DEF IInv, Token, Arrived
  <2> QED
    BY <1>4, <1>6, <2>1, <2>2, KnownStays DEF IInv
<1>11. Local(p)'
  BY <1>2, <1>5, SameLocal DEF IInv
<1> QED
  BY <1>2, <1>4, <1>5, <1>8, <1>9, <1>10, <1>11, Together DEF Token

\* HandleOffer(p, s) and HandleAnswer(p, s): a description is set, or refused.
LEMMA DescribedInv ==
    ASSUME IInv, NEW p \in Peers, NEW s \in Offers \cup Answers, Arriving,
           stage[p] # "closed", NEW w \in {"offerSet", "answerSet"},
           NEW g \in {"stable", "haveRemote"}, Fresh(sig, p, g), Fresh(remote, p, s),
           Fresh(callback, p, Append(callback[p], w)),
           UNCHANGED <<calls, stage, local, ice, drain, gathered, outbox>>
    PROVE  IInv'
<1> USE DEF Fresh, ice
<1> DEFINE cb == Append(callback[p], w)
<1>1. callback[p] \in Seq(Works) /\ w \in Works /\ w \notin Drains /\ Local(p)
  BY DEF IInv, TypeOK, Works, Drains
<1>2. /\ cb \in Seq(Works) /\ cb # <<>>
      /\ Lined(callback[p]) => Lined(cb)
      /\ Head(cb) = IF callback[p] = <<>> THEN w ELSE Head(callback[p])
  BY <1>1, AppendElems
<1> HIDE DEF cb
<1>3. callback'[p] = cb /\ remote'[p] = s /\ s # None
  BY NotNone DEF IInv, TypeOK, cb
<1>4. TypeOK'
  <2>1. s \in Offers \cup Answers \cup {None}
    OBVIOUS
  <2> HIDE DEF None
  <2>2. remote' \in [Peers -> Offers \cup Answers \cup {None}]
    BY <2>1 DEF IInv, TypeOK
  <2>3. sig' \in [Peers -> {"stable", "haveLocal", "haveRemote"}]
    BY DEF IInv, TypeOK
  <2>4. /\ callback' \in [Peers -> Seq(Works)] /\ net' \subseteq Peers \X Signals
        /\ copied' \in 0 .. MaxCopies
    BY <1>2 DEF IInv, TypeOK, Arriving, cb
  <2> QED
    BY <2>2, <2>3, <2>4 DEF IInv, TypeOK, Works
<1>5. \A q \in Peers \ {p} : Same(q)
  BY DEF IInv, TypeOK, Same
<1>6. Local(p)'
  <2>1. Shut(p)'
    BY <1>1 DEF Local, Shut
  <2>2. Early(p)'
    BY <1>3 DEF Early
  <2>3. DrainDue(p)' <=> DrainDue(p)
    BY <1>1, <1>2, <1>3 DEF DrainDue, Due
  <2>4. Draining(p)'
    BY <1>1, <1>2, <1>3, <2>3 DEF Local, Draining, Got
  <2>5. Handled(p)' /\ Kept(p)'
    BY <1>1 DEF Local, Handled, Kept, Got
  <2> QED
    BY <2>1, <2>2, <2>4, <2>5 DEF Local
<1>7. Token'
  <2>1. Later
    BY DEF IInv, TypeOK, Later, Arriving
  <2>2. NoneNew
    BY DEF NoneNew, Taken, Arriving
  <2> QED
    BY <1>4, <2>1, <2>2, TokenStays DEF IInv
<1> QED
  BY <1>4, <1>5, <1>6, <1>7, Together

\* A datagram that nobody hears, or that is refused.
LEMMA IgnoredInv ==
    ASSUME IInv, NEW p \in Peers, Arriving,
           UNCHANGED <<calls, stage, conn, ice, thread, gathered, outbox>>
    PROVE  IInv'
<1> USE DEF conn, ice, thread
<1>1. TypeOK'
  BY DEF IInv, TypeOK, Arriving
<1>2. \A q \in Peers : Same(q)
  BY DEF Same
<1>3. Local(p)'
  BY <1>2, SameLocal DEF IInv
<1>4. Token'
  <2>1. Later
    BY DEF IInv, TypeOK, Later, Arriving
  <2>2. NoneNew
    BY DEF NoneNew, Taken, Arriving
  <2> QED
    BY <1>1, <2>1, <2>2, TokenStays DEF IInv
<1> QED
  BY <1>1, <1>2, <1>3, <1>4, Together

\* The datagram that arrives is gone, or what comes again has a new label.
LEMMA ArriveFacts ==
    ASSUME IInv, NEW p \in Peers, NEW s \in Signals, <<p, s>> \in net, Arrive(p, s),
           s \in Cands => UNCHANGED <<calls, stage, gathered>>
    PROVE  /\ Arriving
           /\ s \in Cands => /\ <<p, s>> \notin net'
                             /\ \A q \in Peers : ~Novel(q, s)
<1>1. copied \in Nat /\ copied \in 0 .. MaxCopies /\ net \subseteq Peers \X Signals
  BY CallConstants DEF IInv, TypeOK
<1>2. ASSUME s \notin Cands PROVE Arriving
  <2>1. net' \subseteq net
    BY <1>2 DEF Arrive, Copied
  <2>2. copied' \in 0 .. MaxCopies /\ copied <= copied'
    BY <1>1, CallConstants DEF Arrive
  <2> QED
    BY <1>1, <2>1, <2>2 DEF Arriving
<1>3. ASSUME s \in Cands
      PROVE  Arriving /\ <<p, s>> \notin net' /\ \A q \in Peers : ~Novel(q, s)
  <2>1. s.by[1] = Other(p) /\ Known(s)
    BY <1>3 DEF IInv, Token, OnItsWay
  <2>2. CASE net' = net \ {<<p, s>>} /\ UNCHANGED copied
    BY <1>1, <2>1, <2>2 DEF Arriving, Novel
  <2>3. CASE /\ copied < MaxCopies /\ copied' = copied + 1
             /\ net' = (net \ {<<p, s>>}) \cup {<<p, Copied(s)>>}
    <3>1. PICK c : c = Copied(s)
      OBVIOUS
    <3>2. copied + 1 \in 0 .. MaxCopies /\ c = [s EXCEPT !.copy = copied + 1]
      BY <1>1, <1>3, <2>3, <3>1, CallConstants DEF Copied
    <3>3. /\ c \in Cands /\ c.by = s.by /\ c.i = s.i /\ c.copy = copied + 1
      BY <1>3, <3>2 DEF Cands
    <3>4. s.copy <= copied /\ s.copy \in Nat
      BY <1>3, <2>1, CandParts DEF Known
    <3>5. c # s
      BY <1>1, <3>3, <3>4
    <3>6. ~Known(c)
      BY <1>1, <3>3 DEF Known
    <3>7. Known(c)'
      BY <1>1, <1>3, <2>1, <2>3, <3>3 DEF Known
    <3>8. Novel(p, c)
      BY <2>1, <3>3, <3>6, <3>7 DEF Novel
    <3>9. c \in Signals
      BY <3>3 DEF Signals
    <3>10. net' = (net \ {<<p, s>>}) \cup {<<p, c>>}
      BY <2>3, <3>1
    <3>11. net' \subseteq Peers \X Signals /\ <<p, s>> \notin net'
      BY <1>1, <3>5, <3>9, <3>10
    <3>12. ASSUME NEW q \in Peers, NEW k \in Cands, <<q, k>> \in net'
           PROVE  <<q, k>> \in net \/ Novel(q, k)
      <4>1. <<q, k>> \in net \/ (q = p /\ k = c)
        BY <3>10, <3>12
      <4> QED
        BY <3>8, <4>1
    <3>13. copied' \in 0 .. MaxCopies /\ copied <= copied'
      BY <1>1, <2>3, <3>2
    <3>14. Arriving
      BY <3>11, <3>12, <3>13 DEF Arriving
    <3> QED
      BY <2>1, <3>11, <3>14 DEF Novel
  <2> QED
    BY <2>2, <2>3 DEF Arrive
<1> QED
  BY <1>2, <1>3

\* IceTest(p, s): the handler takes the candidate from the net.
LEMMA IceTestInv ==
    ASSUME IInv, NEW p \in Peers, NEW s \in Cands, <<p, s>> \in net,
           Arrive(p, s), IceTest(p, s)
    PROVE  IInv'
<1> USE DEF Fresh, conn, thread
<1>0. PICK h : h = [cand |-> s, ready |-> flag[p]]
  OBVIOUS
<1>1. /\ handler' = [handler EXCEPT ![p] = handler[p] \cup {h}] /\ stage[p] # "closed"
      /\ UNCHANGED <<calls, stage, sig, remote, local, flag, pending, added, handled,
                     raced, callback, drain, gathered, outbox>>
  BY <1>0 DEF IceTest
<1>2. /\ h \in [cand : Cands, ready : BOOLEAN] /\ h.cand = s /\ h.ready = flag[p]
  BY <1>0 DEF IInv, TypeOK
<1>3. /\ handler'[p] = handler[p] \cup {h}
      /\ \A q \in Peers \ {p} : handler'[q] = handler[q]
  BY <1>1 DEF IInv, TypeOK
<1>4. s.by[1] = Other(p) /\ Known(s) /\ s \notin Taken(p)
  BY DEF IInv, Token, OnItsWay
<1>5. Arriving /\ <<p, s>> \notin net'
  BY <1>1, ArriveFacts DEF Signals
<1>6. s \notin handled[p] /\ \A k \in handler[p] : k.cand # s
  BY <1>4 DEF Taken
<1>7. TypeOK'
  <2>1. handler' \in [Peers -> SUBSET [cand : Cands, ready : BOOLEAN]]
    BY <1>1, <1>2 DEF IInv, TypeOK
  <2> QED
    BY <1>1, <1>5, <2>1 DEF IInv, TypeOK, Arriving
<1>8. \A q \in Peers \ {p} : Same(q)
  BY <1>1, <1>3 DEF Same
<1>9. Local(p)'
  <2>1. Local(p)
    BY DEF IInv
  <2>2. Shut(p)' /\ Draining(p)'
    BY <1>1, <2>1 DEF Local, Shut, Draining, DrainDue, Due, Got
  <2>3. Early(p)'
    BY <1>1, <1>2, <1>3, <2>1 DEF Local, Early
  <2>4. Handled(p)'
    <3>1. \A j, k \in handler'[p] : j.cand = k.cand => j = k
      BY <1>2, <1>3, <1>6, <2>1 DEF Local, Handled
    <3> QED
      BY <1>1, <1>2, <1>3, <1>6, <2>1, <3>1 DEF Local, Handled, Got
  <2>5. Kept(p)'
    BY <1>1, <1>2, <1>3, <2>1 DEF Local, Kept, Got
  <2> QED
    BY <2>2, <2>3, <2>4, <2>5 DEF Local
<1>10. /\ \A q \in Peers \ {p} : Taken(q)' = Taken(q)
      /\ Taken(p)' = Taken(p) \cup {s}
  BY <1>1, <1>2, <1>3 DEF Taken
<1>11. Later
  BY <1>1, <1>5 DEF IInv, TypeOK, Later, Arriving
<1>12. Unsent'
  <2> SUFFICES ASSUME NEW q \in Peers, NEW c \in outbox'[q] \cap Cands
               PROVE  /\ c.by[1] = q /\ Known(c)'
                      /\ <<Other(q), c>> \notin net' /\ c \notin Taken(Other(q))'
    BY DEF Unsent
  <2>1. Other(q) \in Peers /\ c \in outbox[q]
    BY <1>1, Two
  <2>2. /\ c.by[1] = q /\ Known(c)
        /\ <<Other(q), c>> \notin net /\ c \notin Taken(Other(q))
    BY <2>1 DEF IInv, Token, Unsent
  <2>3. Known(c)'
    BY <1>7, <1>11, <2>2, KnownStays DEF IInv
  <2>4. c \notin Taken(Other(q))'
    BY <1>10, <2>1, <2>2
  <2>5. <<Other(q), c>> \notin net'
    BY <1>5, <2>1, <2>2 DEF Arriving, Novel
  <2> QED
    BY <2>2, <2>3, <2>4, <2>5
<1>13. OnItsWay'
  <2> SUFFICES ASSUME NEW q \in Peers, NEW c \in Cands, <<q, c>> \in net'
               PROVE  c.by[1] = Other(q) /\ Known(c)' /\ c \notin Taken(q)'
    BY DEF OnItsWay
  <2>1. q # p \/ c # s
    BY <1>5
  <2>2. CASE <<q, c>> \in net
    <3>1. c.by[1] = Other(q) /\ Known(c) /\ c \notin Taken(q)
      BY <2>2 DEF IInv, Token, OnItsWay
    <3> QED
      BY <1>7, <1>10, <1>11, <2>1, <3>1, KnownStays DEF IInv
  <2>3. CASE Novel(q, c)
    <3>1. c \notin Taken(q) /\ c # s
      BY <1>4, <2>3 DEF Novel, IInv, Token, Arrived
    <3> QED
      BY <1>10, <2>3, <3>1 DEF Novel
  <2> QED
    BY <1>5, <2>2, <2>3 DEF Arriving
<1>14. Arrived'
  <2> SUFFICES ASSUME NEW q \in Peers, NEW c \in Taken(q)'
               PROVE  c.by[1] = Other(q) /\ Known(c)'
    BY DEF Arrived
  <2>1. c \in Cands /\ c.by[1] = Other(q) /\ Known(c)
    <3>1. CASE c \in Taken(q)
      BY <3>1, TakenCands DEF IInv, Token, Arrived
    <3>2. CASE q = p /\ c = s
      BY <1>4, <3>2
    <3> QED
      BY <1>10, <3>1, <3>2
  <2> QED
    BY <1>7, <1>11, <2>1, KnownStays DEF IInv
<1> QED
  BY <1>1, <1>7, <1>8, <1>9, <1>12, <1>13, <1>14, Together DEF Token

\* Receive(p)
LEMMA ReceiveInv == ASSUME IInv, NEW p \in Peers, Receive(p) PROVE IInv'
<1>1. PICK d \in net :
          /\ d[1] = p /\ Arrive(p, d[2])
          /\ \/ Unheard(p, d[2]) \/ HandleOffer(p, d[2]) \/ HandleAnswer(p, d[2])
             \/ IceTest(p, d[2]) \/ HandleHangup(p, d[2])
  BY DEF Receive
<1> DEFINE s == d[2]
<1>2. net \subseteq Peers \X Signals
  BY DEF IInv, TypeOK
<1>3. s \in Signals /\ d = <<p, s>>
  BY <1>1, <1>2
<1>4. /\ s.kind = "offer" => s \in Offers
      /\ s.kind = "answer" => s \in Answers
      /\ s.kind = "ice" <=> s \in Cands
  BY <1>3 DEF Signals, Offers, Answers, Cands, Hangups
<1> HIDE DEF s
<1>5. <<p, s>> \in net /\ Arrive(p, s)
  BY <1>1, <1>3 DEF s
<1>6. (s \in Cands => UNCHANGED <<calls, stage, gathered>>) => Arriving
  BY <1>3, <1>5, ArriveFacts
<1>7. CASE Unheard(p, s)
  BY <1>7, <1>6, IgnoredInv DEF Unheard
<1>8. CASE HandleOffer(p, s)
  <2>1. Arriving
    BY <1>4, <1>8, <1>6 DEF HandleOffer
  <2>2. CASE TakesOffer(p)
    <3>1. /\ s \in Offers \cup Answers /\ stage[p] # "closed"
          /\ "offerSet" \in {"offerSet", "answerSet"} /\ "haveRemote" \in {"stable", "haveRemote"}
          /\ Fresh(sig, p, "haveRemote") /\ Fresh(remote, p, s)
          /\ Fresh(callback, p, Append(callback[p], "offerSet"))
          /\ UNCHANGED <<calls, stage, local, ice, drain, gathered, outbox>>
      BY <1>4, <1>8, <2>2 DEF HandleOffer
    <3> QED
      BY <2>1, <3>1, DescribedInv
  <2>3. CASE ~TakesOffer(p)
    BY <1>8, <2>1, <2>3, IgnoredInv DEF HandleOffer, conn, thread
  <2> QED
    BY <2>2, <2>3
<1>9. CASE HandleAnswer(p, s)
  <2>1. Arriving
    BY <1>4, <1>9, <1>6 DEF HandleAnswer
  <2>2. CASE TakesAnswer(p)
    <3>1. /\ s \in Offers \cup Answers /\ stage[p] # "closed"
          /\ "answerSet" \in {"offerSet", "answerSet"} /\ "stable" \in {"stable", "haveRemote"}
          /\ Fresh(sig, p, "stable") /\ Fresh(remote, p, s)
          /\ Fresh(callback, p, Append(callback[p], "answerSet"))
          /\ UNCHANGED <<calls, stage, local, ice, drain, gathered, outbox>>
      BY <1>4, <1>9, <2>2 DEF HandleAnswer
    <3> QED
      BY <2>1, <3>1, DescribedInv
  <2>3. CASE ~TakesAnswer(p)
    BY <1>9, <2>1, <2>3, IgnoredInv DEF HandleAnswer, conn, thread
  <2> QED
    BY <2>2, <2>3
<1>10. CASE IceTest(p, s)
  <2>1. s \in Cands
    BY <1>4, <1>10 DEF IceTest
  <2> QED
    BY <1>10, <1>5, <2>1, IceTestInv
<1>11. CASE HandleHangup(p, s)
  <2>1. Destroy(p) /\ Fresh(outbox, p, {}) /\ Arriving
    BY <1>4, <1>11, <1>6 DEF HandleHangup
  <2> QED
    BY <2>1, DestroyInv
<1> QED
  BY <1>1, <1>7, <1>8, <1>9, <1>10, <1>11 DEF s

\* IceAct(p): the candidate is handled, whatever has happened since the test.
LEMMA IceActInv == ASSUME IInv, NEW p \in Peers, IceAct(p) PROVE IInv'
<1> USE DEF Fresh, conn, thread
<1>1. PICK h \in handler[p] :
          /\ handler' = [handler EXCEPT ![p] = handler[p] \ {h}]
          /\ handled' = [handled EXCEPT ![p] = handled[p] \cup {h.cand}]
          /\ \/ /\ h.ready /\ UNCHANGED pending
                /\ added' = [added EXCEPT ![p] = Append(added[p], h.cand)]
             \/ /\ ~h.ready /\ UNCHANGED added
                /\ pending' = [pending EXCEPT ![p] = pending[p] \cup {h.cand}]
  BY DEF IceAct
<1>2. UNCHANGED <<calls, stage, sig, remote, local, flag, raced, callback, drain,
                  gathered, outbox, net, copied>>
  BY DEF IceAct
<1>3. PICK c \in Cands : c = h.cand
  BY DEF IInv, TypeOK
<1>4. /\ Local(p) /\ stage[p] # "closed" /\ added[p] \in Seq(Cands)
      /\ c \notin handled[p] /\ pending[p] \cup drain[p] \cup Got(p) \subseteq handled[p]
      /\ \A k \in handler[p] : k # h => k.cand # c
  BY <1>3 DEF IInv, TypeOK, Local, Shut, Handled
<1>5. /\ handler'[p] = handler[p] \ {h} /\ handled'[p] = handled[p] \cup {c}
      /\ \A q \in Peers \ {p} : handler'[q] = handler[q] /\ handled'[q] = handled[q]
  BY <1>1, <1>3 DEF IInv, TypeOK
<1>6. Later
  BY <1>2 DEF IInv, TypeOK, Later
<1>7. NoneNew
  <2>1. ASSUME NEW q \in Peers PROVE Taken(q)' \subseteq Taken(q)
    <3>1. CASE q = p
      BY <1>3, <1>5, <3>1 DEF Taken
    <3>2. CASE q # p
      BY <1>5, <3>2 DEF Taken
    <3> QED
      BY <3>1, <3>2
  <2> QED
    BY <1>2, <2>1 DEF NoneNew
<1>8. /\ handler' \in [Peers -> SUBSET [cand : Cands, ready : BOOLEAN]]
      /\ handled' \in [Peers -> SUBSET Cands]
  BY <1>1, <1>3 DEF IInv, TypeOK
<1>9. ASSUME h.ready, UNCHANGED pending,
             added' = [added EXCEPT ![p] = Append(added[p], c)]
      PROVE  IInv'
  <2> DEFINE ad == Append(added[p], c)
  <2>1. /\ ad \in Seq(Cands) /\ Elems(ad) = Elems(added[p]) \cup {c}
        /\ Distinct(added[p]) /\ c \notin Elems(added[p]) => Distinct(ad)
    BY <1>4, AppendElems
  <2> HIDE DEF ad
  <2>2. added'[p] = ad /\ Got(p)' = Got(p) \cup {c} /\ c \notin Got(p)
    BY <1>4, <1>9, <2>1 DEF IInv, TypeOK, ad, Got
  <2>3. TypeOK'
    <3>1. added' \in [Peers -> Seq(Cands)]
      BY <1>9, <2>1 DEF IInv, TypeOK, ad
    <3> QED
      BY <1>2, <1>8, <1>9, <3>1 DEF IInv, TypeOK
  <2>4. \A q \in Peers \ {p} : Same(q)
    BY <1>2, <1>5, <1>9 DEF IInv, TypeOK, Same
  <2>5. Local(p)'
    <3>1. Shut(p)'
      BY <1>2, <1>4 DEF Local, Shut
    <3>2. Early(p)'
      BY <1>2, <1>4, <1>9 DEF Local, Early
    <3>3. Distinct(added[p])'
      BY <1>4, <2>1, <2>2 DEF Local, Draining, Got
    <3>4. DrainDue(p)' <=> DrainDue(p)
      BY <1>2 DEF DrainDue, Due
    <3>5. Draining(p)'
      BY <1>2, <1>4, <1>9, <2>2, <3>3, <3>4 DEF Local, Draining
    <3>6. Handled(p)'
      BY <1>2, <1>3, <1>4, <1>5, <1>9, <2>2 DEF Local, Handled
    <3>7. Kept(p)'
      BY <1>2, <1>4, <1>5, <1>9, <2>2 DEF Local, Kept
    <3> QED
      BY <3>1, <3>2, <3>5, <3>6, <3>7 DEF Local
  <2>6. Token'
    BY <1>6, <1>7, <2>3, TokenStays DEF IInv
  <2> QED
    BY <1>2, <2>3, <2>4, <2>5, <2>6, Together
<1>10. ASSUME ~h.ready, UNCHANGED added,
              pending' = [pending EXCEPT ![p] = pending[p] \cup {c}]
       PROVE  IInv'
  <2>1. pending'[p] = pending[p] \cup {c} /\ Got(p)' = Got(p) /\ c \notin Got(p)
    BY <1>4, <1>10 DEF IInv, TypeOK, Got
  <2>2. TypeOK'
    <3>1. pending' \in [Peers -> SUBSET Cands]
      BY <1>10 DEF IInv, TypeOK
    <3>2. \A q \in Peers : stage'[q] = "closed" => ~flag'[q] /\ pending'[q] = {}
      BY <1>2, <1>4, <1>10 DEF IInv, TypeOK
    <3> QED
      BY <1>2, <1>8, <1>10, <3>1, <3>2 DEF IInv, TypeOK
  <2>3. \A q \in Peers \ {p} : Same(q)
    BY <1>2, <1>5, <1>10 DEF IInv, TypeOK, Same
  <2>4. Local(p)'
    <3>1. Shut(p)'
      BY <1>2, <1>4 DEF Local, Shut
    <3>2. Early(p)'
      BY <1>2, <1>4, <1>5, <1>10 DEF Local, Early
    <3>3. DrainDue(p)' <=> DrainDue(p)
      BY <1>2 DEF DrainDue, Due
    <3>4. Draining(p)'
      BY <1>2, <1>4, <1>10, <2>1, <3>3 DEF Local, Draining
    <3>5. Handled(p)'
      BY <1>2, <1>3, <1>4, <1>5, <1>10, <2>1 DEF Local, Handled
    <3>6. flag[p] => c \in raced
      BY <1>3, <1>4, <1>10 DEF Local, Kept
    <3>7. Kept(p)'
      BY <1>2, <1>4, <1>5, <1>10, <2>1, <3>6 DEF Local, Kept
    <3> QED
      BY <3>1, <3>2, <3>4, <3>5, <3>7 DEF Local
  <2>5. Token'
    BY <1>6, <1>7, <2>2, TokenStays DEF IInv
  <2> QED
    BY <1>2, <2>2, <2>3, <2>4, <2>5, Together
<1> QED
  BY <1>1, <1>3, <1>9, <1>10

\* A step that changes nothing.
LEMMA StutterInv == ASSUME IInv, UNCHANGED vars PROVE IInv'
<1> USE DEF vars, conn, ice, thread
<1>1. TypeOK'
  BY DEF IInv, TypeOK
<1>2. \A q \in Peers : Same(q)
  BY DEF Same
<1>3. \A q \in Peers : Local(q)'
  BY <1>2, SameLocal DEF IInv
<1>4. Later /\ NoneNew
  BY DEF IInv, TypeOK, Later, NoneNew, Taken
<1> QED
  BY <1>1, <1>3, <1>4, TokenStays DEF IInv

-----------------------------------------------------------------------------
(* The theorems                                                            *)

\* Every state of CallSignaling satisfies the inductive invariant.
THEOREM Invariant == Spec => []IInv
<1>1. Init => IInv
  BY InitInv
<1>2. IInv /\ [Next]_vars => IInv'
  <2> SUFFICES ASSUME IInv, [Next]_vars PROVE IInv'
    OBVIOUS
  <2>1. ASSUME NEW p \in Peers, Create(p) PROVE IInv'
    BY <2>1, CreateInv
  <2>2. ASSUME NEW p \in Peers, Start(p) PROVE IInv'
    BY <2>2, StartInv
  <2>3. ASSUME NEW p \in Peers, Finish(p) PROVE IInv'
    <3>1. Destroy(p) /\ Fresh(outbox, p, {}) /\ UNCHANGED <<net, copied>>
      BY <2>3 DEF Finish
    <3>2. Arriving
      BY <3>1 DEF IInv, TypeOK, Arriving
    <3> QED
      BY <3>1, <3>2, DestroyInv
  <2>4. ASSUME NEW p \in Peers, Hangup(p) PROVE IInv'
    <3>0. PICK g : g = [kind |-> "hangup", by |-> Me(p)]
      OBVIOUS
    <3>1. /\ Destroy(p) /\ Fresh(outbox, p, {}) /\ UNCHANGED copied
          /\ net' = net \cup {<<Other(p), g>>} \/ net' = net
      BY <2>4, <3>0 DEF Hangup
    <3>2. Me(p) \in Activities
      <4>1. calls[p] \in 1 .. MaxCalls
        BY <2>4, CallConstants DEF Hangup, IInv, TypeOK, Local, Shut
      <4> QED
        BY <4>1 DEF Me, Activities
    <3>3. g \in Signals /\ g \notin Cands /\ Other(p) \in Peers
      BY <3>0, <3>2, Two DEF Signals, Hangups, Cands
    <3>4. net \subseteq Peers \X Signals
      BY DEF IInv, TypeOK
    <3>5. Arriving
      BY <3>1, <3>3, <3>4 DEF IInv, TypeOK, Arriving
    <3> QED
      BY <3>1, <3>5, DestroyInv
  <2>5. ASSUME NEW p \in Peers, OfferMade(p) PROVE IInv'
    BY <2>5, OfferMadeInv
  <2>6. ASSUME NEW p \in Peers, OfferSet(p) PROVE IInv'
    BY <2>6, SdpSetInv DEF OfferSet, Due, Drains
  <2>7. ASSUME NEW p \in Peers, AnswerSet(p) PROVE IInv'
    BY <2>7, SdpSetInv DEF AnswerSet, Due, Drains
  <2>8. ASSUME NEW p \in Peers, DrainIce(p) PROVE IInv'
    BY <2>8, DrainIceInv
  <2>9. ASSUME NEW p \in Peers, AnswerMade(p) PROVE IInv'
    BY <2>9, AnswerMadeInv
  <2>10. ASSUME NEW p \in Peers, Gather(p) PROVE IInv'
    BY <2>10, GatherInv
  <2>11. ASSUME NEW p \in Peers, Send(p) PROVE IInv'
    BY <2>11, SendInv
  <2>12. ASSUME NEW p \in Peers, Receive(p) PROVE IInv'
    BY <2>12, ReceiveInv
  <2>13. ASSUME NEW p \in Peers, IceAct(p) PROVE IInv'
    BY <2>13, IceActInv
  <2>14. CASE UNCHANGED vars
    BY <2>14, StutterInv
  <2> QED
    BY <2>1, <2>2, <2>3, <2>4, <2>5, <2>6, <2>7, <2>8, <2>9, <2>10, <2>11, <2>12, <2>13,
       <2>14 DEF Next
<1> QED
  BY <1>1, <1>2, PTL DEF Spec

\* All values have their types, no candidate is given to WebRTC before the
\* remote description, and none more often than its datagram arrived, however
\* the network repeats and delays datagrams and whichever way handleRemoteIce
\* and drainIce interleave.
THEOREM InTimeAndOnce == Spec => []ArrivalsOnceAndInTime
<1>1. IInv => ArrivalsOnceAndInTime
  <2> SUFFICES ASSUME IInv PROVE ArrivalsOnceAndInTime
    OBVIOUS
  <2>1. \A p \in Peers : Early(p) /\ Distinct(added[p])
    BY DEF IInv, Local, Draining
  <2> QED
    BY <2>1 DEF IInv, Early, Distinct, ArrivalsOnceAndInTime
<1> QED
  BY <1>1, Invariant, PTL

\* The race of onSetSuccess with handleRemoteIce is the only way to lose a
\* candidate that was handled.
THEOREM OthersReachWebRTC == Spec => []OnlyOvertakenLost
<1>1. IInv => OnlyOvertakenLost
  <2> SUFFICES ASSUME IInv, NEW p \in Peers, flag[p], callback[p] = <<>>
               PROVE  handled[p] \subseteq
                          raced \cup {added[p][m] : m \in 1 .. Len(added[p])}
    BY DEF OnlyOvertakenLost
  <2>1. drain[p] = {}
    BY DEF IInv, Local, Draining, DrainDue, Due
  <2>2. handled[p] \subseteq raced \cup Got(p) \cup drain[p]
    BY DEF IInv, Local, Kept
  <2> QED
    BY <2>1, <2>2 DEF Got, Elems
<1> QED
  BY <1>1, Invariant, PTL
=============================================================================
