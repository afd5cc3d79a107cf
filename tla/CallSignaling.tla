---------------------------- MODULE CallSignaling ----------------------------
(***************************************************************************)
(* Setting up a call (CallActivity): two devices that exchange an offer,   *)
(* an answer and ICE candidates in datagrams that may be lost, duplicated  *)
(* or overtake each other.  Every datagram is handled by a coroutine on    *)
(* Dispatchers.Default, while the callbacks of the peer connection run on  *)
(* the signaling thread of WebRTC: pendingIce and isRemoteSdpSet are       *)
(* shared between them.                                                    *)
(*                                                                         *)
(* No code starts the activity with isIncoming, so both devices offer, and *)
(* an activity can answer only an offer that reaches it before its own is  *)
(* set.  The PeerConnection is external.                                   *)
(***************************************************************************)
EXTENDS Naturals, Sequences, FiniteSets

CONSTANTS
    Peers,       \* the two devices
    MaxCalls,    \* bound on the activities started
    MaxCands,    \* bound on the candidates an activity gathers
    MaxCopies    \* bound on the datagrams the network duplicates

ASSUME CallConstants ==
    /\ IsFiniteSet(Peers) /\ Cardinality(Peers) = 2
    /\ MaxCalls \in Nat /\ MaxCands \in Nat /\ MaxCopies \in Nat

Other(p) == CHOOSE q \in Peers : q # p

\* A signal names the activity that made it.  Nothing in the code tells the
\* two copies of a datagram apart; the model labels a candidate with the copy
\* of its datagram, to count what each arrival leads to.
Activities == Peers \X (1 .. MaxCalls)
None       == <<>>
Offers     == [kind : {"offer"}, by : Activities]
Answers    == [kind : {"answer"}, by : Activities]
Cands      == [kind : {"ice"}, by : Activities, i : 1 .. MaxCands,
               copy : 0 .. MaxCopies]
Hangups    == [kind : {"hangup"}, by : Activities]
Signals    == Offers \cup Answers \cup Cands \cup Hangups

\* What is due on the signaling thread: onCreateSuccess of an offer or of an
\* answer, onSetSuccess, and the rest of an onSetSuccess that is in drainIce,
\* for an offer with createAnswer after it.
Drains == {"drain", "drainAnswer"}
Works  == {"offerMade", "answerMade", "offerSet", "answerSet"} \cup Drains

VARIABLES
    calls,      \* calls[p]: activities started on p
    stage,      \* stage[p]: "closed", "asking" for permissions, "running"
    sig,        \* sig[p]: signaling state of the peer connection
    remote,     \* remote[p]: the remote description, or None
    local,      \* local[p]: the local description, or None
    flag,       \* flag[p]: isRemoteSdpSet
    pending,    \* pending[p]: pendingIce
    added,      \* added[p]: candidates given to addIceCandidate, in order
    callback,   \* callback[p]: callbacks due on the signaling thread
    drain,      \* drain[p]: candidates of the snapshot that drainIce iterates
    handler,    \* handler[p]: ICE handlers between the test and its outcome
    gathered,   \* gathered[p]: candidates gathered by the activity
    outbox,     \* outbox[p]: sendCallSignal coroutines not done yet
    net,        \* datagrams on their way, the lost ones for ever
    copied,     \* datagrams duplicated so far
    handled,    \* ghost: handled[p]: candidates whose handler is done
    raced       \* ghost: candidates whose handler a drain overtook

conn    == <<sig, remote, local>>
ice     == <<flag, pending, added, handler, handled, raced>>
thread  == <<callback, drain>>
vars    == <<calls, stage, conn, ice, thread, gathered, outbox, net, copied>>

Me(p) == <<p, calls[p]>>

TypeOK ==
    /\ calls \in [Peers -> 0 .. MaxCalls]
    /\ stage \in [Peers -> {"closed", "asking", "running"}]
    /\ sig \in [Peers -> {"stable", "haveLocal", "haveRemote"}]
    /\ remote \in [Peers -> Offers \cup Answers \cup {None}]
    /\ local \in [Peers -> Offers \cup Answers \cup {None}]
    /\ flag \in [Peers -> BOOLEAN]
    /\ pending \in [Peers -> SUBSET Cands]
    /\ handled \in [Peers -> SUBSET Cands] /\ raced \subseteq Cands
    /\ added \in [Peers -> Seq(Cands)]
    /\ callback \in [Peers -> Seq(Works)]
    /\ drain \in [Peers -> SUBSET Cands]
    /\ handler \in [Peers -> SUBSET [cand : Cands, ready : BOOLEAN]]
    /\ gathered \in [Peers -> 0 .. MaxCands]
    /\ outbox \in [Peers -> SUBSET Signals]
    /\ net \subseteq Peers \X Signals /\ copied \in 0 .. MaxCopies
    /\ \A p \in Peers : stage[p] = "closed" => ~flag[p] /\ pending[p] = {}

Fresh(f, p, x) == f' = [f EXCEPT ![p] = x]

Init ==
    /\ calls = [p \in Peers |-> 0] /\ stage = [p \in Peers |-> "closed"]
    /\ sig = [p \in Peers |-> "stable"]
    /\ remote = [p \in Peers |-> None] /\ local = [p \in Peers |-> None]
    /\ flag = [p \in Peers |-> FALSE]
    /\ pending = [p \in Peers |-> {}] /\ added = [p \in Peers |-> <<>>]
    /\ callback = [p \in Peers |-> <<>>] /\ drain = [p \in Peers |-> {}]
    /\ handler = [p \in Peers |-> {}]
    /\ handled = [p \in Peers |-> {}] /\ raced = {}
    /\ gathered = [p \in Peers |-> 0]
    /\ outbox = [p \in Peers |-> {}] /\ net = {} /\ copied = 0

-----------------------------------------------------------------------------
(* The activity                                                            *)

\* The fields of an activity, and the coroutines of its lifecycleScope, are
\* its own: nothing of an earlier one is left.
ClearFields(p) ==
    /\ Fresh(sig, p, "stable") /\ Fresh(remote, p, None) /\ Fresh(local, p, None)
    /\ Fresh(flag, p, FALSE) /\ Fresh(pending, p, {}) /\ Fresh(added, p, <<>>)
    /\ Fresh(callback, p, <<>>) /\ Fresh(drain, p, {})
    /\ Fresh(handler, p, {}) /\ Fresh(handled, p, {}) /\ Fresh(gathered, p, 0)

\* onCreate: the listener is registered and the permissions are asked for.
Create(p) ==
    /\ stage[p] = "closed" /\ calls[p] + calls[Other(p)] < MaxCalls
    /\ calls' = [calls EXCEPT ![p] = @ + 1]
    /\ Fresh(stage, p, "asking")
    /\ UNCHANGED <<conn, ice, thread, gathered, outbox, net, copied>>

\* startCallProcess and makeOffer: createOffer is asked of the signaling thread.
Start(p) ==
    /\ stage[p] = "asking"
    /\ Fresh(stage, p, "running")
    /\ Fresh(callback, p, Append(callback[p], "offerMade"))
    /\ UNCHANGED <<calls, conn, ice, drain, gathered, outbox, net, copied>>

\* finish and onDestroy: the listener is removed, the connection closed, and
\* the coroutines that have not sent their signal yet are cancelled.
Destroy(p) ==
    /\ Fresh(stage, p, "closed")
    /\ ClearFields(p)
    /\ UNCHANGED <<calls, raced>>

\* A permission is refused, or the connection is lost.
Finish(p) ==
    /\ stage[p] # "closed"
    /\ Destroy(p)
    /\ Fresh(outbox, p, {})
    /\ UNCHANGED <<net, copied>>

\* onHangup: sendCallSignal and finish; the signal may still get away.
Hangup(p) ==
    /\ stage[p] = "running"
    /\ Destroy(p)
    /\ Fresh(outbox, p, {}) /\ UNCHANGED copied
    /\ \/ net' = net \cup {<<Other(p), [kind |-> "hangup", by |-> Me(p)]>>}
       \/ UNCHANGED net

-----------------------------------------------------------------------------
(* The signaling thread                                                    *)

Due(p, what) == callback[p] # <<>> /\ Head(callback[p]) = what
Done(p) == Fresh(callback, p, Tail(callback[p]))
Queue(p, s) == outbox' = [outbox EXCEPT ![p] = @ \cup {s}]

\* onCreateSuccess of makeOffer; setLocalDescription fails while an offer of
\* the other side is being answered, and the offer is sent all the same.
OfferMade(p) ==
    LET o == [kind |-> "offer", by |-> Me(p)]
    IN /\ Due(p, "offerMade") /\ Done(p)
       /\ \/ /\ sig[p] # "haveRemote"
             /\ Fresh(sig, p, "haveLocal") /\ Fresh(local, p, o)
          \/ sig[p] = "haveRemote" /\ UNCHANGED <<sig, local>>
       /\ Queue(p, o)
       /\ UNCHANGED <<calls, stage, remote, ice, drain, gathered, net, copied>>

\* The rest of an onSetSuccess after drainIce: createAnswer, for an offer.
AfterDrain(p, as) ==
    Fresh(callback, p, IF as = "drainAnswer" THEN Append(Tail(callback[p]), "answerMade")
                       ELSE Tail(callback[p]))

\* Mutant: the queue is not drained.
SdpSetNoDrain(p, as) ==
    /\ Fresh(flag, p, TRUE)
    /\ AfterDrain(p, as)
    /\ UNCHANGED <<drain, raced>>

\* onSetSuccess: the flag first, then drainIce begins to iterate a snapshot.
\* Whoever has read the flag before is overtaken.
SdpSet(p, as) ==
    /\ Fresh(flag, p, TRUE)
    /\ Fresh(drain, p, pending[p])
    /\ Fresh(callback, p, <<as>> \o Tail(callback[p]))
    /\ raced' = raced \cup {h.cand : h \in {g \in handler[p] : ~g.ready}}

OfferSet(p) ==
    /\ Due(p, "offerSet") /\ SdpSet(p, "drainAnswer")
    /\ UNCHANGED <<calls, stage, conn, pending, added, handler, handled, gathered,
                   outbox, net, copied>>

AnswerSet(p) ==
    /\ Due(p, "answerSet") /\ SdpSet(p, "drain")
    /\ UNCHANGED <<calls, stage, conn, pending, added, handler, handled, gathered,
                   outbox, net, copied>>

\* Mutant: the queue is not cleared.
DrainedKeeps(p) == UNCHANGED pending

\* pendingIce.clear()
Drained(p) == Fresh(pending, p, {})

DrainDue(p) == \E as \in Drains : Due(p, as)

\* drainIce: one candidate of the snapshot, or the clear at the end and what
\* follows it.
DrainIce(p) ==
    /\ DrainDue(p)
    /\ \/ \E c \in drain[p] :
             /\ Fresh(drain, p, drain[p] \ {c})
             /\ Fresh(added, p, Append(added[p], c))
             /\ UNCHANGED <<pending, callback>>
       \/ /\ drain[p] = {}
          /\ Drained(p)
          /\ AfterDrain(p, Head(callback[p]))
          /\ UNCHANGED <<drain, added>>
    /\ UNCHANGED <<calls, stage, conn, flag, handler, handled, raced, gathered, outbox,
                   net, copied>>

\* onCreateSuccess of createAnswer.  A second offer may have been set before
\* the first was answered, and its answer comes when the state is stable:
\* createAnswer has failed and nothing is sent, or setLocalDescription fails
\* and the answer is sent all the same.
AnswerMade(p) ==
    LET a == [kind |-> "answer", by |-> Me(p)]
    IN /\ Due(p, "answerMade") /\ Done(p)
       /\ \/ /\ sig[p] = "haveRemote"
             /\ Fresh(sig, p, "stable") /\ Fresh(local, p, a)
             /\ Queue(p, a)
          \/ /\ sig[p] # "haveRemote" /\ UNCHANGED <<sig, local>>
             /\ Queue(p, a) \/ UNCHANGED outbox
       /\ UNCHANGED <<calls, stage, remote, ice, drain, gathered, net, copied>>

\* onIceCandidate, after a local description is set.
Gather(p) ==
    /\ stage[p] # "closed" /\ local[p] # None /\ gathered[p] < MaxCands
    /\ Fresh(gathered, p, gathered[p] + 1)
    /\ Queue(p, [kind |-> "ice", by |-> Me(p), i |-> gathered[p] + 1, copy |-> 0])
    /\ UNCHANGED <<calls, stage, conn, ice, thread, net, copied>>

-----------------------------------------------------------------------------
(* Datagrams                                                               *)

\* sendCallSignal; a signal without a known address stays in the outbox.
Send(p) == \E s \in outbox[p] :
    /\ Fresh(outbox, p, outbox[p] \ {s})
    /\ net' = net \cup {<<Other(p), s>>}
    /\ UNCHANGED <<calls, stage, conn, ice, thread, gathered, copied>>

\* No activity listens.
Unheard(p, s) ==
    /\ stage[p] = "closed"
    /\ UNCHANGED <<calls, stage, conn, ice, thread, gathered, outbox>>

\* setRemoteDescription of an offer is refused only while this side has one.
TakesOffer(p) == sig[p] # "haveLocal"

\* handleIncomingOffer
HandleOffer(p, s) ==
    /\ s.kind = "offer" /\ stage[p] # "closed"
    /\ \/ /\ TakesOffer(p)
          /\ Fresh(sig, p, "haveRemote") /\ Fresh(remote, p, s)
          /\ Fresh(callback, p, Append(callback[p], "offerSet"))
       \/ ~TakesOffer(p) /\ UNCHANGED <<sig, remote, callback>>
    /\ UNCHANGED <<calls, stage, local, ice, drain, gathered, outbox>>

\* setRemoteDescription of an answer needs an offer of this side.
TakesAnswer(p) == sig[p] = "haveLocal"

\* handleAnswer
HandleAnswer(p, s) ==
    /\ s.kind = "answer" /\ stage[p] # "closed"
    /\ \/ /\ TakesAnswer(p)
          /\ Fresh(sig, p, "stable") /\ Fresh(remote, p, s)
          /\ Fresh(callback, p, Append(callback[p], "answerSet"))
       \/ ~TakesAnswer(p) /\ UNCHANGED <<sig, remote, callback>>
    /\ UNCHANGED <<calls, stage, local, ice, drain, gathered, outbox>>

\* handleRemoteIce up to the test of isRemoteSdpSet.
IceTest(p, s) ==
    /\ s.kind = "ice" /\ stage[p] # "closed"
    /\ Fresh(handler, p, handler[p] \cup {[cand |-> s, ready |-> flag[p]]})
    /\ UNCHANGED <<calls, stage, conn, flag, pending, added, handled, raced, thread,
                   gathered, outbox>>

HandleHangup(p, s) ==
    /\ s.kind = "hangup" /\ stage[p] # "closed"
    /\ Destroy(p)
    /\ Fresh(outbox, p, {})

\* The datagram with which the network repeats s.
Copied(s) == IF s \in Cands THEN [s EXCEPT !.copy = copied + 1] ELSE s

\* The datagram is gone, or comes again.
Arrive(p, s) ==
    \/ net' = net \ {<<p, s>>} /\ UNCHANGED copied
    \/ /\ copied < MaxCopies
       /\ copied' = copied + 1
       /\ net' = (net \ {<<p, s>>}) \cup {<<p, Copied(s)>>}

Receive(p) == \E d \in net : LET s == d[2] IN
    /\ d[1] = p
    /\ Arrive(p, s)
    /\ \/ Unheard(p, s) \/ HandleOffer(p, s) \/ HandleAnswer(p, s)
       \/ IceTest(p, s) \/ HandleHangup(p, s)

\* handleRemoteIce after the test: the candidate is added, or it is queued.
IceAct(p) == \E h \in handler[p] :
    /\ Fresh(handler, p, handler[p] \ {h})
    /\ Fresh(handled, p, handled[p] \cup {h.cand})
    /\ \/ /\ h.ready
          /\ Fresh(added, p, Append(added[p], h.cand)) /\ UNCHANGED pending
       \/ /\ ~h.ready
          /\ Fresh(pending, p, pending[p] \cup {h.cand}) /\ UNCHANGED added
    /\ UNCHANGED <<calls, stage, conn, flag, raced, thread, gathered, outbox, net,
                   copied>>

-----------------------------------------------------------------------------
Next ==
    \E p \in Peers :
          \/ Create(p) \/ Start(p) \/ Finish(p) \/ Hangup(p)
          \/ OfferMade(p) \/ OfferSet(p) \/ AnswerSet(p) \/ DrainIce(p)
          \/ AnswerMade(p) \/ Gather(p) \/ Send(p) \/ Receive(p) \/ IceAct(p)

Spec == Init /\ [][Next]_vars

-----------------------------------------------------------------------------
(* Properties                                                              *)

\* WebRTC refuses a candidate before the remote description: none is ever
\* given to it early, whichever way it took.  Each arrival of a candidate is
\* given to it once at most: handleRemoteIce does not recognise a repeated
\* datagram, so a candidate is added as often as the network delivers it, but
\* the queue and the drain add nothing to that.  All values have their types.
ArrivalsOnceAndInTime ==
    TypeOK /\ \A p \in Peers :
        /\ added[p] # <<>> => remote[p] # None
        /\ \A m, n \in 1 .. Len(added[p]) : added[p][m] = added[p][n] => m = n

\* Once the remote description is set and the queue drained, every candidate
\* that was handled, and every repetition of one, has reached WebRTC, except
\* one whose handler had read isRemoteSdpSet before onSetSuccess set it and
\* queued the candidate after the snapshot of drainIce: that one waits for
\* ever, or the clear throws it away.
OnlyOvertakenLost ==
    \A p \in Peers : flag[p] /\ callback[p] = <<>> =>
        handled[p] \subseteq raced \cup {added[p][m] : m \in 1 .. Len(added[p])}
=============================================================================
