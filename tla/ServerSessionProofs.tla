------------------------- MODULE ServerSessionProofs -------------------------
(***************************************************************************)
(* Proofs about ServerSession, for any calls: whoever is cancelled, the    *)
(* mutex has one holder, who alone is inside executeRequest; and with two  *)
(* attempts or more (the code has three) a call made when all is well does *)
(* not fail.                                                               *)
(***************************************************************************)
EXTENDS ServerSession, TLAPS

\* Only the holder of the mutex is inside.
Turns == \A c \in Calls : pc[c] \in Inside <=> holder = c

\* The queue has those who wait, each once.
Waiting ==
    /\ \A c \in Calls : pc[c] = "queued" <=> \E i \in DOMAIN queue : queue[i] = c
    /\ \A i, j \in DOMAIN queue : queue[i] = queue[j] => i = j

\* The client is made with the WebView, which stays from Heal on.
Working ==
    /\ webView => okHttp
    /\ healthy => webView
    /\ lucky # {} => healthy

IInv == TypeOK /\ Turns /\ Waiting /\ Working

-----------------------------------------------------------------------------
(* The mutex                                                               *)

\* The points of a call: they are those of its type, and no two kinds meet.
LEMMA Points ==
    /\ "queued" \notin Inside \cup Over /\ "idle" \notin Inside \cup Over
    /\ Inside \cap Over = {}
BY DEF Inside, Over

\* A call is created without holding the mutex or waiting for it.
LEMMA InitInv == Init => IInv
<1> SUFFICES ASSUME Init PROVE IInv
  OBVIOUS
<1>1. TypeOK
  <2>1. queue \in Seq(Calls) /\ attempt \in [Calls -> 0 .. MaxRetries]
    BY SessionConstants DEF Init
  <2> QED BY <2>1 DEF Init, TypeOK
<1>2. Turns
  BY SessionConstants, Points DEF Init, Turns
<1>3. Waiting /\ Working
  BY DEF Init, Waiting, Working
<1> QED BY <1>1, <1>2, <1>3 DEF IInv

\* Taking out the place of a call keeps the others, each once.
LEMMA RemoveFacts ==
    ASSUME NEW q \in Seq(Calls), NEW i \in DOMAIN q,
           \A j, k \in DOMAIN q : q[j] = q[k] => j = k
    PROVE  /\ RemoveAt(q, i) \in Seq(Calls)
           /\ \A c \in Calls : (\E j \in DOMAIN RemoveAt(q, i) :
                                   RemoveAt(q, i)[j] = c)
                                <=> c # q[i] /\ \E j \in DOMAIN q : q[j] = c
           /\ \A j, k \in DOMAIN RemoveAt(q, i) :
                 RemoveAt(q, i)[j] = RemoveAt(q, i)[k] => j = k
<1> DEFINE r == RemoveAt(q, i)
           At(j) == IF j < i THEN j ELSE j + 1
<1>1. i \in 1 .. Len(q) /\ Len(q) \in Nat
  OBVIOUS
<1>2. /\ r \in Seq(Calls) /\ Len(r) = Len(q) - 1
      /\ \A j \in 1 .. Len(r) : r[j] = q[At(j)]
  <2> DEFINE a == SubSeq(q, 1, i - 1)
             b == SubSeq(q, i + 1, Len(q))
  <2>1. /\ a \in Seq(Calls) /\ Len(a) = i - 1
        /\ \A j \in 1 .. i - 1 : a[j] = q[j]
    BY <1>1
  <2>2. /\ b \in Seq(Calls) /\ Len(b) = Len(q) - i
        /\ \A j \in 1 .. Len(q) - i : b[j] = q[i + j]
    BY <1>1
  <2>3. r = a \o b
    BY DEF RemoveAt
  <2> HIDE DEF a, b, r
  <2>4. r \in Seq(Calls) /\ Len(r) = Len(q) - 1
    BY <1>1, <2>1, <2>2, <2>3
  <2>5. ASSUME NEW j \in 1 .. Len(r) PROVE r[j] = q[At(j)]
    <3>1. CASE j < i
      BY <1>1, <2>1, <2>2, <2>3, <2>4, <3>1
    <3>2. CASE j >= i
      <4>1. r[j] = b[j - (i - 1)] /\ j - (i - 1) \in 1 .. Len(q) - i
        BY <1>1, <2>1, <2>2, <2>3, <2>4, <3>2
      <4>2. b[j - (i - 1)] = q[i + (j - (i - 1))]
        BY <2>2, <4>1
      <4> QED BY <1>1, <2>4, <3>2, <4>1, <4>2
    <3> QED BY <1>1, <2>4, <3>1, <3>2
  <2> QED BY <2>4, <2>5
<1> HIDE DEF r
<1>3. \A j \in 1 .. Len(r) : At(j) \in 1 .. Len(q) /\ At(j) # i
  BY <1>1, <1>2
<1>4. \A j \in 1 .. Len(q) : j # i => \E k \in 1 .. Len(r) : At(k) = j
  <2> SUFFICES ASSUME NEW j \in 1 .. Len(q), j # i
               PROVE  \E k \in 1 .. Len(r) : At(k) = j
    OBVIOUS
  <2>1. CASE j < i
    BY <1>1, <1>2, <2>1
  <2>2. CASE j > i
    <3>1. j - 1 \in 1 .. Len(r) /\ At(j - 1) = j
      BY <1>1, <1>2, <2>2
    <3> QED BY <3>1
  <2> QED BY <1>1, <2>1, <2>2
<1>5. \A j, k \in 1 .. Len(r) : At(j) = At(k) => j = k
  BY <1>1, <1>2
<1> HIDE DEF At
<1>6. \A c \in Calls : (\E j \in 1 .. Len(r) : r[j] = c)
                          <=> c # q[i] /\ \E j \in 1 .. Len(q) : q[j] = c
  <2> SUFFICES ASSUME NEW c \in Calls
               PROVE  (\E j \in 1 .. Len(r) : r[j] = c)
                         <=> c # q[i] /\ \E j \in 1 .. Len(q) : q[j] = c
    OBVIOUS
  <2>1. ASSUME NEW j \in 1 .. Len(r), r[j] = c
        PROVE  c # q[i] /\ \E k \in 1 .. Len(q) : q[k] = c
    <3>1. At(j) \in 1 .. Len(q) /\ At(j) # i /\ q[At(j)] = c
      BY <1>2, <1>3, <2>1
    <3> QED BY <1>1, <3>1
  <2>2. ASSUME NEW j \in 1 .. Len(q), q[j] = c, c # q[i]
        PROVE  \E k \in 1 .. Len(r) : r[k] = c
    <3>1. PICK k \in 1 .. Len(r) : At(k) = j
      BY <1>4, <2>2
    <3> QED BY <1>2, <2>2, <3>1
  <2> QED BY <2>1, <2>2
<1>7. ASSUME NEW j \in 1 .. Len(r), NEW k \in 1 .. Len(r), r[j] = r[k]
      PROVE  j = k
  <2>1. q[At(j)] = q[At(k)] /\ At(j) \in 1 .. Len(q) /\ At(k) \in 1 .. Len(q)
    BY <1>2, <1>3, <1>7
  <2>2. At(j) = At(k)
    BY <1>1, <2>1
  <2> QED BY <1>5, <2>2
<1>8. DOMAIN r = 1 .. Len(r) /\ DOMAIN q = 1 .. Len(q)
  BY <1>1, <1>2
<1>9. /\ r \in Seq(Calls)
      /\ \A c \in Calls : (\E j \in DOMAIN r : r[j] = c)
                           <=> c # q[i] /\ \E j \in DOMAIN q : q[j] = c
      /\ \A j, k \in DOMAIN r : r[j] = r[k] => j = k
  <2> HIDE DEF r
  <2> QED BY <1>2, <1>6, <1>7, <1>8
<1> QED BY <1>9 DEF r

\* The rest of the queue is the queue without its first place.
LEMMA TailFacts ==
    ASSUME NEW q \in Seq(Calls), q # <<>>
    PROVE  1 \in DOMAIN q /\ Tail(q) = RemoveAt(q, 1)
BY DEF RemoveAt

\* A call that is neither inside nor queued after a step was the one that left.
LEMMA MoveType ==
    ASSUME TypeOK, NEW c \in Calls, NEW p, Goto(c, p),
           p \in {"idle", "queued"} \cup Inside \cup Over
    PROVE  /\ pc' \in [Calls -> {"idle", "queued"} \cup Inside \cup Over]
           /\ pc'[c] = p /\ \A d \in Calls \ {c} : pc'[d] = pc[d]
BY DEF TypeOK, Goto

\* The types of all but the calls and the mutex.
RestType ==
    /\ webView \in BOOLEAN /\ okHttp \in BOOLEAN /\ loading \in BOOLEAN
    /\ cookie \in {"none", "stale", "good"}
    /\ isReady \in BOOLEAN
    /\ attempt \in [Calls -> 0 .. MaxRetries]
    /\ cancelled \in SUBSET Calls
    /\ healthy \in BOOLEAN
    /\ lucky \in SUBSET Calls

\* Nothing happens to the calls and to the mutex.
LEMMA CallsStay ==
    ASSUME IInv, UNCHANGED <<lock, pc>>, RestType', Working'
    PROVE  IInv'
<1>1. UNCHANGED <<holder, queue, pc>>
  BY DEF lock
<1>2. TypeOK'
  BY <1>1 DEF IInv, TypeOK, RestType
<1>3. Turns' /\ Waiting'
  BY <1>1 DEF IInv, Turns, Waiting
<1> QED BY <1>2, <1>3 DEF IInv

\* The holder goes on inside.
LEMMA GoesOn ==
    ASSUME IInv, NEW c \in Calls, NEW p \in Inside, pc[c] \in Inside,
           Goto(c, p), UNCHANGED lock, RestType', Working'
    PROVE  IInv'
<1>1. UNCHANGED <<holder, queue>>
  BY DEF lock
<1>2. /\ pc' \in [Calls -> {"idle", "queued"} \cup Inside \cup Over]
      /\ pc'[c] = p /\ \A d \in Calls \ {c} : pc'[d] = pc[d]
  BY MoveType DEF IInv
<1>3. TypeOK'
  BY <1>1, <1>2 DEF IInv, TypeOK, RestType
<1>4. Turns'
  BY <1>1, <1>2 DEF IInv, Turns
<1>5. Waiting'
  BY <1>1, <1>2, Points DEF IInv, Waiting
<1> QED BY <1>3, <1>4, <1>5 DEF IInv

\* The holder leaves and unlocks the mutex.
LEMMA Leaves ==
    ASSUME IInv, NEW c \in Calls, NEW p \in Over, pc[c] \in Inside,
           Goto(c, p), Unlock, RestType', Working'
    PROVE  IInv'
<1>1. holder' = NoCall /\ queue' = queue
  BY DEF Unlock
<1>2. /\ pc' \in [Calls -> {"idle", "queued"} \cup Inside \cup Over]
      /\ pc'[c] = p /\ \A d \in Calls \ {c} : pc'[d] = pc[d]
  BY MoveType DEF IInv
<1>3. TypeOK'
  BY <1>1, <1>2 DEF IInv, TypeOK, RestType
<1>4. Turns'
  <2>1. \A d \in Calls : pc'[d] \notin Inside
    BY <1>2, Points DEF IInv, Turns
  <2> QED BY <1>1, <2>1, SessionConstants DEF Turns
<1>5. Waiting'
  BY <1>1, <1>2, Points DEF IInv, Waiting
<1> QED BY <1>3, <1>4, <1>5 DEF IInv

-----------------------------------------------------------------------------
(* The actions                                                             *)

\* What happens to the WebView, the cookie and the network.
LEMMA BrowserInv ==
    ASSUME IInv,
           \/ CreateWebView \/ Destroy \/ CookieExpires \/ Heal
           \/ \E renewed, more \in BOOLEAN : PageFinished(renewed, more)
    PROVE  IInv'
<1>1. RestType'
  BY DEF IInv, TypeOK, RestType, CreateWebView, Destroy, CookieExpires, Heal,
         PageFinished, web
<1>2. Working'
  BY DEF IInv, Working, CreateWebView, Destroy, CookieExpires, Heal,
         PageFinished, web
<1>3. UNCHANGED <<lock, pc>>
  BY DEF CreateWebView, Destroy, CookieExpires, Heal, PageFinished
<1> QED BY <1>1, <1>2, <1>3, CallsStay

\* A call queues up.
LEMMA CallInv == ASSUME IInv, NEW c \in Calls, Call(c) PROVE IInv'
<1>1. /\ pc[c] = "idle" /\ queue' = Append(queue, c) /\ holder' = holder
      /\ queue \in Seq(Calls)
  BY DEF Call, IInv, TypeOK
<1>2. /\ pc' \in [Calls -> {"idle", "queued"} \cup Inside \cup Over]
      /\ pc'[c] = "queued" /\ \A d \in Calls \ {c} : pc'[d] = pc[d]
  BY MoveType DEF IInv, Call
<1>3. TypeOK'
  BY <1>1, <1>2 DEF IInv, TypeOK, Call, web
<1>4. Turns'
  BY <1>1, <1>2, Points DEF IInv, Turns
<1>5. Waiting'
  <2>1. /\ Len(queue') = Len(queue) + 1 /\ Len(queue) \in Nat
        /\ queue'[Len(queue) + 1] = c
        /\ \A i \in 1 .. Len(queue) : queue'[i] = queue[i]
        /\ DOMAIN queue = 1 .. Len(queue) /\ DOMAIN queue' = 1 .. Len(queue')
    BY <1>1
  <2>2. \A i \in 1 .. Len(queue) : queue[i] # c
    BY <1>1, <2>1 DEF IInv, Waiting
  <2>3. \A d \in Calls :
           (\E i \in DOMAIN queue' : queue'[i] = d)
              <=> d = c \/ \E i \in DOMAIN queue : queue[i] = d
    BY <2>1
  <2>4. \A i, j \in DOMAIN queue' : queue'[i] = queue'[j] => i = j
    BY <2>1, <2>2 DEF IInv, Waiting
  <2> QED BY <1>2, <2>3, <2>4 DEF IInv, Waiting
<1>6. Working'
  BY DEF IInv, Working, Call, web
<1> QED BY <1>3, <1>4, <1>5, <1>6 DEF IInv

\* A caller loses interest.
LEMMA CancelInv == ASSUME IInv, NEW c \in Calls, Cancel(c) PROVE IInv'
<1>1. RestType' /\ Working' /\ UNCHANGED <<lock, pc>>
  BY DEF IInv, TypeOK, RestType, Working, Cancel, web
<1> QED BY <1>1, CallsStay

\* The first in the queue takes the mutex.
LEMMA LockInv == ASSUME IInv, NEW c \in Calls, Lock(c) PROVE IInv'
<1>1. /\ pc[c] = "queued" /\ holder = NoCall /\ holder' = c
      /\ queue \in Seq(Calls) /\ queue[1] = c /\ queue' = Tail(queue)
  BY DEF Lock, IInv, TypeOK
<1>2. /\ pc' \in [Calls -> {"idle", "queued"} \cup Inside \cup Over]
      /\ pc'[c] = "check" /\ \A d \in Calls \ {c} : pc'[d] = pc[d]
  BY MoveType DEF IInv, Lock, Inside
<1>3. "check" \in Inside /\ "check" # "queued"
  BY DEF Inside
<1>4. /\ queue' \in Seq(Calls)
      /\ \A d \in Calls : (\E j \in DOMAIN queue' : queue'[j] = d)
                             <=> d # c /\ \E j \in DOMAIN queue : queue[j] = d
      /\ \A j, k \in DOMAIN queue' : queue'[j] = queue'[k] => j = k
  <2>1. queue # <<>>
    BY <1>1 DEF IInv, Waiting
  <2>2. 1 \in DOMAIN queue /\ queue' = RemoveAt(queue, 1)
    BY <1>1, <2>1, TailFacts
  <2>3. \A j, k \in DOMAIN queue : queue[j] = queue[k] => j = k
    BY DEF IInv, Waiting
  <2> HIDE DEF IInv
  <2>4. /\ RemoveAt(queue, 1) \in Seq(Calls)
        /\ \A d \in Calls : (\E j \in DOMAIN RemoveAt(queue, 1) :
                                RemoveAt(queue, 1)[j] = d)
                             <=> d # queue[1] /\ \E j \in DOMAIN queue : queue[j] = d
        /\ \A j, k \in DOMAIN RemoveAt(queue, 1) :
              RemoveAt(queue, 1)[j] = RemoveAt(queue, 1)[k] => j = k
    BY <1>1, <2>2, <2>3, RemoveFacts
  <2> QED BY <1>1, <2>2, <2>4
<1>5. TypeOK'
  <2>1. attempt' \in [Calls -> 0 .. MaxRetries]
    BY SessionConstants DEF IInv, TypeOK, Lock
  <2> QED BY <1>1, <1>2, <1>4, <2>1 DEF IInv, TypeOK, Lock, web
<1>6. Turns'
  BY <1>1, <1>2, <1>3, SessionConstants DEF IInv, Turns
<1>7. Waiting'
  BY <1>2, <1>3, <1>4 DEF IInv, Waiting
<1>8. Working'
  BY DEF IInv, Working, Lock, web
<1> QED BY <1>5, <1>6, <1>7, <1>8 DEF IInv

\* A cancelled call leaves the queue.
LEMMA LeaveQueueInv == ASSUME IInv, NEW c \in Calls, LeaveQueue(c) PROVE IInv'
<1>1. pc[c] = "queued" /\ holder' = holder /\ queue \in Seq(Calls)
  BY DEF LeaveQueue, IInv, TypeOK
<1>2. /\ pc' \in [Calls -> {"idle", "queued"} \cup Inside \cup Over]
      /\ pc'[c] = "gone" /\ \A d \in Calls \ {c} : pc'[d] = pc[d]
  BY MoveType DEF IInv, LeaveQueue, Over
<1>3. "gone" \notin Inside /\ "gone" # "queued" /\ "queued" \notin Inside
  BY DEF Inside
<1>4. /\ queue' \in Seq(Calls)
      /\ \A d \in Calls : (\E j \in DOMAIN queue' : queue'[j] = d)
                             <=> d # c /\ \E j \in DOMAIN queue : queue[j] = d
      /\ \A j, k \in DOMAIN queue' : queue'[j] = queue'[k] => j = k
  <2>1. PICK i \in DOMAIN queue :
           queue[i] = c /\ queue' = RemoveAt(queue, i)
    BY DEF LeaveQueue
  <2> QED BY <1>1, <2>1, RemoveFacts DEF IInv, Waiting
<1>5. TypeOK'
  BY <1>1, <1>2, <1>4 DEF IInv, TypeOK, LeaveQueue, web
<1>6. Turns'
  BY <1>1, <1>2, <1>3 DEF IInv, Turns
<1>7. Waiting'
  BY <1>2, <1>3, <1>4 DEF IInv, Waiting
<1>8. Working'
  BY DEF IInv, Working, LeaveQueue, web
<1> QED BY <1>5, <1>6, <1>7, <1>8 DEF IInv

\* Waiting for the page, sending, and what follows a failure.
LEMMA TurnInv ==
    ASSUME IInv, NEW c \in Calls,
           Check(c) \/ Wait(c) \/ Send(c) \/ ResetReady(c)
    PROVE  IInv'
<1>1. /\ pc[c] \in Inside /\ UNCHANGED lock
      /\ \E p \in {"enter", "wait", "reset", "sent", "reload"} : Goto(c, p)
  BY DEF Check, Wait, Send, ResetReady, Inside
<1>2. {"enter", "wait", "reset", "sent", "reload"} \subseteq Inside
  BY DEF Inside
<1>3. RestType'
  BY DEF IInv, TypeOK, RestType, Check, Wait, Send, ResetReady, Reloaded, web
<1>4. Working'
  BY DEF IInv, Working, Check, Wait, Send, ResetReady, Reloaded, web
<1> QED BY <1>1, <1>2, <1>3, <1>4, GoesOn

\* The request returns: the call ends or tries again.
LEMMA AnswerInv ==
    ASSUME IInv, NEW c \in Calls, NEW r \in Results, Answer(c, r)
    PROVE  IInv'
<1>1. pc[c] \in Inside /\ "reset" \in Inside
  BY DEF Answer, Inside
<1>2. RestType' /\ Working'
  BY DEF IInv, TypeOK, RestType, Working, Answer, web
<1>3. CASE r = "thrown" \/ c \in cancelled
  BY <1>1, <1>2, <1>3, GoesOn DEF Answer
<1>4. CASE ~(r = "thrown" \/ c \in cancelled)
  <2>1. r \in Over
    BY <1>4 DEF Results, Over
  <2> QED BY <1>1, <1>2, <1>4, <2>1, Leaves DEF Answer
<1> QED BY <1>3, <1>4

\* The page is loaded again, unless the call was cancelled.
LEMMA ReloadInv == ASSUME IInv, NEW c \in Calls, Reload(c) PROVE IInv'
<1>1. pc[c] \in Inside /\ "delay" \in Inside /\ "gone" \in Over
  BY DEF Reload, Inside, Over
<1>2. RestType' /\ Working'
  BY DEF IInv, TypeOK, RestType, Working, Reload, Reloaded, web
<1>3. CASE c \in cancelled
  BY <1>1, <1>2, <1>3, Leaves DEF Reload
<1>4. CASE c \notin cancelled
  BY <1>1, <1>2, <1>4, GoesOn DEF Reload
<1> QED BY <1>3, <1>4

\* The next attempt begins, if there is one.
LEMMA RetryInv == ASSUME IInv, NEW c \in Calls, Retry(c) PROVE IInv'
<1>1. /\ pc[c] \in Inside /\ "check" \in Inside
      /\ "gone" \in Over /\ "failed" \in Over
  BY DEF Retry, Inside, Over
<1>2. Working'
  BY DEF IInv, Working, Retry, web
<1>3. ASSUME ~LastAttempt(c) PROVE attempt[c] + 1 \in 0 .. MaxRetries
  BY <1>3, SessionConstants DEF IInv, TypeOK, LastAttempt
<1>4. RestType'
  BY <1>3 DEF IInv, TypeOK, RestType, Retry, web
<1>5. CASE Unlock /\ (Goto(c, "gone") \/ Goto(c, "failed"))
  BY <1>1, <1>2, <1>4, <1>5, Leaves
<1>6. CASE Goto(c, "check") /\ UNCHANGED lock
  BY <1>1, <1>2, <1>4, <1>6, GoesOn
<1> QED BY <1>5, <1>6 DEF Retry

\* Every step keeps the invariant.
LEMMA StepInv == IInv /\ [Next]_vars => IInv'
<1> SUFFICES ASSUME IInv, [Next]_vars PROVE IInv'
  OBVIOUS
<1>1. ASSUME \/ CreateWebView \/ Destroy \/ CookieExpires \/ Heal
             \/ \E renewed, more \in BOOLEAN : PageFinished(renewed, more)
      PROVE  IInv'
  BY <1>1, BrowserInv
<1>2. ASSUME NEW c \in Calls, Call(c) \/ Cancel(c) PROVE IInv'
  BY <1>2, CallInv, CancelInv
<1>3. ASSUME NEW c \in Calls, Step(c) PROVE IInv'
  BY <1>3, LockInv, LeaveQueueInv, TurnInv, AnswerInv, ReloadInv, RetryInv
     DEF Step
<1>4. CASE UNCHANGED vars
  BY <1>4, CallsStay DEF vars, web, IInv, TypeOK, RestType, Working
<1> QED BY <1>1, <1>2, <1>3, <1>4 DEF Next

\* The inductive invariant holds in every reachable state.
THEOREM Invariant == Spec => []IInv
<1>1. Init => IInv
  BY InitInv
<1>2. IInv /\ [Next]_vars => IInv'
  BY StepInv
<1> QED BY <1>1, <1>2, PTL DEF Spec

\* OneRequest: whoever is cancelled, at most one request is under way, only
\* the holder of the mutex is inside executeRequest, those who wait are in its
\* queue, and all values have their types.
THEOREM OneAtATime == Spec => []OneRequest
<1>1. IInv => OneRequest
  BY DEF IInv, OneRequest, Turns, Waiting, Range
<1> QED BY <1>1, Invariant, PTL

-----------------------------------------------------------------------------
(* Calls made when all is well                                             *)

\* isReady speaks of a good cookie.
Trusty == isReady => cookie = "good"

\* Where a call made when all is well stands: only its first attempt can meet
\* a stale cookie; what it resets then, the page makes good before it goes on.
Luck(c) ==
    /\ pc[c] = "check" => attempt[c] = 1 \/ Trusty
    /\ pc[c] = "wait" => cookie = "good" \/ (loading /\ ~isReady)
    /\ pc[c] \in {"enter", "sent"} => cookie = "good" \/ attempt[c] = 1
    /\ pc[c] \in {"reset", "reload", "delay"} => attempt[c] = 1
    /\ pc[c] \in {"reload", "delay"} => Trusty

Lucky == \A c \in lucky \ cancelled : Luck(c)

LInv == IInv /\ Lucky /\ HealthyNeverFails

\* At the start nobody has called.
LEMMA LuckyInit == Init => Lucky /\ HealthyNeverFails
BY DEF Init, Lucky, HealthyNeverFails

\* The steps of one call disturb no other: that one is outside.
LEMMA OthersKept ==
    ASSUME LInv, NEW c \in Calls, pc[c] \in Inside \/ holder = NoCall,
           NEW p, Goto(c, p), lucky' = lucky, cancelled' = cancelled,
           c \in lucky => p \notin {"failed", "error"},
           c \in lucky \ cancelled => Luck(c)'
    PROVE  Lucky' /\ HealthyNeverFails'
<1>1. \A d \in Calls \ {c} : pc'[d] = pc[d] /\ pc[d] \notin Inside
  BY SessionConstants DEF LInv, IInv, TypeOK, Turns, Goto
<1>2. pc'[c] = p /\ lucky \subseteq Calls
  BY DEF LInv, IInv, TypeOK, Goto
<1>3. \A d \in Calls \ {c} : Luck(d)'
  BY <1>1 DEF Luck, Inside
<1>4. Lucky'
  BY <1>2, <1>3 DEF Lucky
<1>5. HealthyNeverFails'
  BY <1>1, <1>2 DEF LInv, HealthyNeverFails
<1> QED BY <1>4, <1>5

\* While all is well a page that finishes leaves a good cookie, and nothing
\* takes it or the WebView away.
LEMMA BrowserLucky ==
    ASSUME LInv,
           \/ CreateWebView \/ Destroy \/ CookieExpires \/ Heal
           \/ \E renewed, more \in BOOLEAN : PageFinished(renewed, more)
    PROVE  Lucky' /\ HealthyNeverFails'
<1>1. UNCHANGED <<pc, attempt, cancelled, lucky>>
  BY DEF CreateWebView, Destroy, CookieExpires, Heal, PageFinished
<1>2. lucky # {} => healthy /\ webView /\ okHttp
  BY DEF LInv, IInv, Working
<1>3. ASSUME lucky # {}
      PROVE  \/ cookie' = "good"
             \/ cookie' = cookie /\ loading' = loading /\ isReady' = isReady
  BY <1>2, <1>3 DEF CreateWebView, Destroy, CookieExpires, Heal, PageFinished, web
<1>4. ASSUME NEW c \in lucky \ cancelled PROVE Luck(c)'
  <2>1. Luck(c)
    BY <1>4 DEF LInv, Lucky
  <2>2. CASE cookie' = "good"
    BY <1>1, <2>1, <2>2 DEF Luck, Trusty
  <2>3. CASE cookie' = cookie /\ loading' = loading /\ isReady' = isReady
    BY <1>1, <2>1, <2>3 DEF Luck, Trusty
  <2> QED BY <1>3, <2>2, <2>3
<1>5. Lucky'
  BY <1>1, <1>4 DEF Lucky
<1>6. HealthyNeverFails'
  BY <1>1 DEF LInv, HealthyNeverFails
<1> QED BY <1>5, <1>6

\* A call that queues up or leaves the queue is not inside; one that is
\* cancelled has given up the promise.
LEMMA OutsideLucky ==
    ASSUME LInv, NEW c \in Calls, Call(c) \/ Cancel(c) \/ LeaveQueue(c)
    PROVE  Lucky' /\ HealthyNeverFails'
<1>1. /\ UNCHANGED <<loading, cookie, isReady, attempt>>
      /\ cancelled \subseteq cancelled' /\ lucky' \subseteq lucky \cup {c}
      /\ lucky \subseteq Calls
  BY DEF LInv, IInv, TypeOK, Call, Cancel, LeaveQueue, web
<1>2. \A d \in Calls : pc'[d] = pc[d] \/ pc'[d] \in {"queued", "gone"}
  BY DEF LInv, IInv, TypeOK, Call, Cancel, LeaveQueue, Goto
<1>3. \A d \in lucky' : pc'[d] = pc[d] => d \in lucky \/ pc[d] = "queued"
                                                    \/ pc'[d] = "queued"
  BY <1>1 DEF LInv, IInv, TypeOK, Call, Cancel, LeaveQueue, Goto
<1>4. ASSUME NEW d \in lucky' \ cancelled' PROVE Luck(d)'
  <2>1. CASE pc'[d] \in {"queued", "gone"}
    BY <2>1 DEF Luck
  <2>2. CASE pc'[d] \notin {"queued", "gone"}
    <3>1. pc'[d] = pc[d] /\ d \in lucky \ cancelled
      BY <1>1, <1>2, <1>3, <1>4, <2>2
    <3>2. Luck(d)
      BY <3>1 DEF LInv, Lucky
    <3> QED BY <1>1, <3>1, <3>2 DEF Luck, Trusty
  <2> QED BY <2>1, <2>2
<1>5. ASSUME NEW d \in lucky' PROVE pc'[d] \notin {"failed", "error"}
  <2>1. CASE pc'[d] = pc[d] /\ d \in lucky
    BY <2>1 DEF LInv, HealthyNeverFails
  <2>2. CASE ~(pc'[d] = pc[d] /\ d \in lucky)
    BY <1>1, <1>2, <1>3, <1>5, <2>2
  <2> QED BY <2>1, <2>2
<1> QED BY <1>4, <1>5 DEF Lucky, HealthyNeverFails

\* The first attempt may meet anything.
LEMMA LockLucky ==
    ASSUME LInv, NEW c \in Calls, Lock(c)
    PROVE  Lucky' /\ HealthyNeverFails'
<1>1. /\ holder = NoCall /\ Goto(c, "check") /\ UNCHANGED <<lucky, cancelled>>
      /\ attempt'[c] = 1 /\ pc'[c] = "check"
  BY DEF Lock, Goto, LInv, IInv, TypeOK
<1>2. Luck(c)'
  BY <1>1 DEF Luck
<1> QED BY <1>1, <1>2, OthersKept

\* Who does not wait has a trusty flag or is in its first attempt; who waits
\* has the page loading.
LEMMA CheckLucky ==
    ASSUME LInv, NEW c \in Calls, Check(c)
    PROVE  Lucky' /\ HealthyNeverFails'
<1>1. /\ pc[c] = "check" /\ pc[c] \in Inside
      /\ UNCHANGED <<isReady, attempt, lucky, cancelled>>
  BY DEF Check, Inside
<1>2. PICK p \in {"enter", "wait", "reset"} : Goto(c, p)
  BY DEF Check
<1>3. pc'[c] = p
  BY <1>2 DEF LInv, IInv, TypeOK, Goto
<1>4. ASSUME c \in lucky \ cancelled PROVE Luck(c)'
  <2>1. Luck(c) /\ webView
    BY <1>4 DEF LInv, Lucky, IInv, Working
  <2>2. CASE isReady
    <3>1. pc'[c] = "enter" /\ cookie' = cookie
      BY <1>3, <2>2 DEF Check, web, Goto, LInv, IInv, TypeOK
    <3> QED BY <1>1, <2>1, <2>2, <3>1 DEF Luck, Trusty
  <2>3. CASE ~isReady
    <3>1. pc'[c] = "wait" /\ loading'
      BY <1>4, <2>1, <2>3 DEF Check, Reloaded, Goto, LInv, IInv, TypeOK
    <3> QED BY <1>1, <2>3, <3>1 DEF Luck
  <2> QED BY <2>2, <2>3
<1> QED BY <1>1, <1>2, <1>4, OthersKept

\* While all is well the wait ends because the page has finished.
LEMMA WaitLucky ==
    ASSUME LInv, NEW c \in Calls, Wait(c)
    PROVE  Lucky' /\ HealthyNeverFails'
<1>1. /\ pc[c] = "wait" /\ pc[c] \in Inside /\ Goto(c, "enter") /\ WaitEnds(c)
      /\ UNCHANGED <<cookie, lucky, cancelled>> /\ pc'[c] = "enter"
  BY DEF Wait, Inside, web, Goto, LInv, IInv, TypeOK
<1>2. ASSUME c \in lucky \ cancelled PROVE Luck(c)'
  <2>1. Luck(c) /\ healthy
    BY <1>2 DEF LInv, Lucky, IInv, Working
  <2>2. cookie = "good"
    BY <1>1, <1>2, <2>1 DEF Luck, WaitEnds
  <2> QED BY <1>1, <2>2 DEF Luck
<1> QED BY <1>1, <1>2, OthersKept

\* While all is well there is a client: the request is sent.
LEMMA SendLucky ==
    ASSUME LInv, NEW c \in Calls, Send(c)
    PROVE  Lucky' /\ HealthyNeverFails'
<1>1. /\ pc[c] = "enter" /\ pc[c] \in Inside
      /\ UNCHANGED <<cookie, attempt, lucky, cancelled>>
      /\ Goto(c, IF okHttp /\ c \notin cancelled THEN "sent" ELSE "reset")
  BY DEF Send, Inside, web
<1>2. ASSUME c \in lucky \ cancelled PROVE Luck(c)'
  <2>1. Luck(c) /\ okHttp
    BY <1>2 DEF LInv, Lucky, IInv, Working
  <2>2. pc'[c] = "sent"
    BY <1>1, <1>2, <2>1 DEF Goto, LInv, IInv, TypeOK
  <2> QED BY <1>1, <2>1, <2>2 DEF Luck
<1> QED BY <1>1, <1>2, OthersKept

\* While all is well a good cookie brings success, and a stale one a page
\* instead of an answer, in the first attempt.
LEMMA AnswerLucky ==
    ASSUME LInv, NEW c \in Calls, NEW r \in Results, Answer(c, r)
    PROVE  Lucky' /\ HealthyNeverFails'
<1>1. /\ pc[c] = "sent" /\ pc[c] \in Inside
      /\ UNCHANGED <<cookie, attempt, lucky, cancelled>>
  BY DEF Answer, Inside, web
<1>2. PICK p \in {"reset", r} : Goto(c, p)
  BY DEF Answer
<1>3. pc'[c] = p
  BY <1>2 DEF LInv, IInv, TypeOK, Goto
<1>4. ASSUME c \in lucky PROVE p \notin {"failed", "error"}
  BY <1>2, <1>4 DEF Answer, Results, LInv, IInv, Working
<1>5. ASSUME c \in lucky \ cancelled PROVE Luck(c)'
  <2>1. Luck(c) /\ healthy
    BY <1>5 DEF LInv, Lucky, IInv, Working
  <2>2. cookie = "good" => r = "success" /\ p = "success"
    BY <1>3, <1>5, <2>1 DEF Answer, Goto, LInv, IInv, TypeOK
  <2>3. p \in {"reset", "success", "error", "thrown"}
    BY <1>2 DEF Results
  <2> QED BY <1>1, <1>3, <2>1, <2>2, <2>3 DEF Luck
<1> QED BY <1>1, <1>2, <1>4, <1>5, OthersKept

\* The flag is taken down, and only a good cookie raises it again.
LEMMA ResetLucky ==
    ASSUME LInv, NEW c \in Calls, ResetReady(c)
    PROVE  Lucky' /\ HealthyNeverFails'
<1>1. /\ pc[c] = "reset" /\ pc[c] \in Inside /\ isReady' = FALSE
      /\ Goto(c, "reload") /\ UNCHANGED <<attempt, lucky, cancelled>>
      /\ pc'[c] = "reload"
  BY DEF ResetReady, Inside, Goto, LInv, IInv, TypeOK
<1>2. ASSUME c \in lucky \ cancelled PROVE Luck(c)'
  <2>1. Luck(c)
    BY <1>2 DEF LInv, Lucky
  <2> QED BY <1>1, <2>1 DEF Luck, Trusty
<1> QED BY <1>1, <1>2, OthersKept

\* The page loads again.
LEMMA ReloadLucky ==
    ASSUME LInv, NEW c \in Calls, Reload(c)
    PROVE  Lucky' /\ HealthyNeverFails'
<1>1. /\ pc[c] = "reload" /\ pc[c] \in Inside
      /\ UNCHANGED <<cookie, isReady, attempt, lucky, cancelled>>
  BY DEF Reload, Inside, Reloaded, web
<1>2. PICK p \in {"gone", "delay"} : Goto(c, p)
  BY DEF Reload
<1>3. pc'[c] = p
  BY <1>2 DEF LInv, IInv, TypeOK, Goto
<1>4. ASSUME c \in lucky \ cancelled PROVE Luck(c)'
  <2>1. Luck(c)
    BY <1>4 DEF LInv, Lucky
  <2> QED BY <1>1, <1>2, <1>3, <2>1 DEF Luck, Trusty
<1> QED BY <1>1, <1>2, <1>4, OthersKept

\* With two attempts or more the first is not the last.
LEMMA RetryLucky ==
    ASSUME LInv, MaxRetries >= 2, NEW c \in Calls, Retry(c)
    PROVE  Lucky' /\ HealthyNeverFails'
<1>1. /\ pc[c] = "delay" /\ pc[c] \in Inside
      /\ UNCHANGED <<cookie, isReady, lucky, cancelled>>
  BY DEF Retry, Inside, web
<1>2. PICK p \in {"gone", "failed", "check"} :
         /\ Goto(c, p)
         /\ p = "gone" <=> c \in cancelled
         /\ p = "failed" => LastAttempt(c)
  BY DEF Retry
<1>3. pc'[c] = p
  BY <1>2 DEF LInv, IInv, TypeOK, Goto
<1>4. ASSUME c \in lucky \ cancelled PROVE p = "check" /\ Trusty
  <2>1. Luck(c)
    BY <1>4 DEF LInv, Lucky
  <2>2. attempt[c] = 1 /\ Trusty
    BY <1>1, <2>1 DEF Luck
  <2>3. ~LastAttempt(c)
    BY <2>2, SessionConstants DEF LastAttempt
  <2> QED BY <1>2, <1>4, <2>2, <2>3
<1>5. ASSUME c \in lucky \ cancelled PROVE Luck(c)'
  <2>1. pc'[c] = "check" /\ Trusty'
    BY <1>1, <1>3, <1>4, <1>5 DEF Trusty
  <2> QED BY <2>1 DEF Luck
<1>6. ASSUME c \in lucky PROVE p \notin {"failed", "error"}
  <2>1. c \in cancelled => p = "gone"
    BY <1>2
  <2>2. c \notin cancelled => p = "check"
    BY <1>4, <1>6
  <2> QED BY <2>1, <2>2
<1> QED BY <1>1, <1>2, <1>5, <1>6, OthersKept

\* Every step keeps the promise.
LEMMA LuckyStep ==
    ASSUME MaxRetries >= 2, LInv, [Next]_vars
    PROVE  LInv'
<1>1. IInv'
  BY StepInv DEF LInv
<1>2. ASSUME \/ CreateWebView \/ Destroy \/ CookieExpires \/ Heal
             \/ \E renewed, more \in BOOLEAN : PageFinished(renewed, more)
      PROVE  Lucky' /\ HealthyNeverFails'
  BY <1>2, BrowserLucky
<1>3. ASSUME NEW c \in Calls, Call(c) \/ Cancel(c)
      PROVE  Lucky' /\ HealthyNeverFails'
  BY <1>3, OutsideLucky
<1>4. ASSUME NEW c \in Calls, Step(c)
      PROVE  Lucky' /\ HealthyNeverFails'
  <2>1. CASE Lock(c) \/ LeaveQueue(c)
    BY <2>1, LockLucky, OutsideLucky
  <2>2. CASE Check(c) \/ Wait(c) \/ Send(c)
    BY <2>2, CheckLucky, WaitLucky, SendLucky
  <2>3. CASE \E r \in Results : Answer(c, r)
    BY <2>3, AnswerLucky
  <2>4. CASE ResetReady(c) \/ Reload(c) \/ Retry(c)
    BY <2>4, ResetLucky, ReloadLucky, RetryLucky
  <2> QED BY <1>4, <2>1, <2>2, <2>3, <2>4 DEF Step
<1>5. ASSUME UNCHANGED vars
      PROVE  Lucky' /\ HealthyNeverFails'
  <2>1. UNCHANGED <<pc, attempt, cookie, loading, isReady, lucky, cancelled>>
    BY <1>5 DEF vars, web
  <2>2. \A c \in lucky : Luck(c) => Luck(c)'
    BY <2>1 DEF Luck, Trusty
  <2> QED BY <2>1, <2>2 DEF LInv, Lucky, HealthyNeverFails
<1>6. Lucky' /\ HealthyNeverFails'
  BY <1>2, <1>3, <1>4, <1>5 DEF Next
<1> QED BY <1>1, <1>6 DEF LInv

\* HealthyNeverFails: with two attempts or more, a call made when server, page
\* and network work succeeds or is cancelled, whatever other calls, old
\* cookies and late pages have made of isReady.
THEOREM HealthyCallsSucceed ==
    ASSUME MaxRetries >= 2
    PROVE  Spec => []HealthyNeverFails
<1>1. Init => LInv
  BY InitInv, LuckyInit DEF LInv
<1>2. LInv /\ [Next]_vars => LInv'
  BY LuckyStep
<1>3. LInv => HealthyNeverFails
  BY DEF LInv
<1> QED BY <1>1, <1>2, <1>3, PTL DEF Spec
=============================================================================
