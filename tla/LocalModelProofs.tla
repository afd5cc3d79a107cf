--------------------------- MODULE LocalModelProofs ---------------------------
(***************************************************************************)
(* Proofs about LocalModel, for any number of inits and screens and any    *)
(* sizes: as long as no two native calls overlap the three globals are     *)
(* what exists and nothing freed is used; and, whatever overlaps, a        *)
(* context decodes one prompt at most.                                     *)
(*                                                                         *)
(* Then about KvCache, the cache of such a context, for any cache, batch   *)
(* and ubatch sizes: its bookkeeping is right, and without sliding window  *)
(* a refused call changes nothing and no call loses a visible position.    *)
(***************************************************************************)
EXTENDS LocalModel, KvCache, FiniteSetTheorems, TLAPS

\* A context that has decoded a prompt has positions in its cache.
Spent == \A k \in Jobs : taken[k] = 0 \/ (taken[k] = 1 /\ cached[k] > 0)

\* A tokenized prompt has tokens.
Sized == \A v \in Screens : ask[v].at = "prefill" => ask[v].n \in Sizes

\* One native call at a time.
Alone ==
    /\ \A i, j \in InNative : i = j
    /\ \A u, v \in Asking : u = v
    /\ InNative = {} \/ Asking = {}

\* The objects that exist are those of the globals.
Owned ==
    \A j \in Jobs : /\ <<"model", j>> \in alive <=> model = j
                    /\ <<"ctx", j>> \in alive <=> ctx = j
                    /\ <<"sampler", j>> \in alive <=> sampler = j

\* What a running init has cleared stays so until it makes the object anew.
Cleared ==
    \A j \in Jobs :
        /\ init[j] \in InitSteps \ {"sampler-"} => sampler = 0
        /\ init[j] \in {"model-", "model+", "ctx+"} => ctx = 0
        /\ init[j] = "model+" => model = 0

\* The context is one of the loaded model.
Fits == ctx # 0 => madeFrom[ctx] = model

\* Who decodes a prompt has the globals, and samples after a decode only.
Ready ==
    \A v \in Screens :
        /\ ask[v].at \in {"prefill", "generate"} => isReady
        /\ ask[v].at = "generate" => cached[ctx] > 0

Serial == Alone /\ Owned /\ Cleared /\ Fits /\ Ready

IInv == TypeOK /\ Spent /\ Sized /\ (~overlap => Serial)

Question == [at : {"idle", "cloud", "local"} \cup AskSteps, n : Nat,
             m : 0 .. MaxNew]

-----------------------------------------------------------------------------
(* The pieces that actions share                                           *)

\* The process starts with the invariant.
LEMMA InitInv == Init => IInv
<1> SUFFICES ASSUME Init PROVE IInv
  OBVIOUS
<1>1. TypeOK
  <2>1. NoQuestion \in Question /\ ask \in [Screens -> Question]
    BY ChatConstants DEF Init, NoQuestion, Question
  <2>2. cached \in [Jobs -> 0 .. NCtx] /\ taken \in [Jobs -> Nat]
    BY ChatConstants DEF Init
  <2>3. /\ screen \in 0 .. MaxScreens /\ {model, ctx, sampler} \subseteq 0 .. MaxInits
        /\ owner \in [Jobs -> 0 .. MaxScreens] /\ madeFrom \in [Jobs -> 0 .. MaxInits]
    BY ChatConstants DEF Init
  <2> QED BY <2>1, <2>2, <2>3 DEF Init, TypeOK, Question
<1>2. Spent /\ Sized
  BY DEF Init, Spent, Sized, NoQuestion
<1>3. Serial
  <2>1. InNative = {} /\ Asking = {}
    BY DEF Init, InNative, Asking, InitSteps, AskSteps, NoQuestion
  <2>2. Alone /\ Cleared /\ Fits /\ Ready
    BY <2>1 DEF Init, Alone, Cleared, Fits, Ready, InitSteps, NoQuestion
  <2>3. Owned
    BY DEF Init, Owned, Jobs
  <2> QED BY <2>2, <2>3 DEF Serial
<1> QED BY <1>1, <1>2, <1>3 DEF IInv

\* A global is null or the job that made the object.
LEMMA GlobalFacts ==
    ASSUME TypeOK
    PROVE  /\ model \in 0 .. MaxInits /\ ctx \in 0 .. MaxInits
           /\ sampler \in 0 .. MaxInits
           /\ model # 0 => model \in Jobs
           /\ ctx # 0 => ctx \in Jobs
           /\ sampler # 0 => sampler \in Jobs
<1>1. /\ model \in 0 .. MaxInits /\ ctx \in 0 .. MaxInits
      /\ sampler \in 0 .. MaxInits
  BY DEF TypeOK
<1> QED BY <1>1, ChatConstants DEF Jobs

\* Outside the native calls nothing of the invariant can change.
LEMMA Outside ==
    ASSUME IInv, TypeOK', UNCHANGED <<globals, objects, overlap>>,
           \A j \in Jobs : \/ init'[j] = init[j]
                           \/ init[j] \notin InitSteps /\ init'[j] \notin InitSteps,
           \A v \in Screens : \/ ask'[v] = ask[v]
                              \/ ask'[v].at \notin AskSteps
    PROVE  IInv'
<1>1. UNCHANGED <<model, ctx, sampler, alive, madeFrom, cached, taken, overlap>>
  BY DEF globals, objects
<1>2. Spent'
  BY <1>1 DEF IInv, Spent
<1>3. Sized'
  BY DEF IInv, Sized, AskSteps
<1>4. ASSUME ~overlap' PROVE Serial'
  <2>1. Serial
    BY <1>1, <1>4 DEF IInv
  <2>2. InNative' = InNative /\ Asking' \subseteq Asking
    BY DEF InNative, Asking
  <2>3. Alone'
    BY <2>1, <2>2 DEF Serial, Alone
  <2>4. Owned' /\ Fits'
    BY <1>1, <2>1 DEF Serial, Owned, Fits
  <2>5. Cleared'
    BY <1>1, <2>1 DEF Serial, Cleared, InitSteps
  <2>6. Ready'
    BY <1>1, <2>1 DEF Serial, Ready, AskSteps, isReady
  <2> QED BY <2>3, <2>4, <2>5, <2>6 DEF Serial
<1> QED BY <1>2, <1>3, <1>4 DEF IInv

\* While an init runs alone nobody asks the model, and the next step of that
\* init keeps it alone.
LEMMA InitAlone ==
    ASSUME IInv, NEW j \in Jobs, NEW from \in InitSteps,
           NEW to \in InitSteps \cup {"done"}, Step(j, from, to),
           UNCHANGED <<ask, overlap>>, ~overlap
    PROVE  /\ Serial /\ Alone' /\ init[j] = from /\ init'[j] = to
           /\ \A i \in Jobs \ {j} : init'[i] = init[i] /\ init[i] \notin InitSteps
           /\ \A v \in Screens : ask'[v] = ask[v] /\ ask[v].at \notin AskSteps
<1>1. Serial /\ j \in InNative
  BY DEF IInv, Step, InNative
<1>2. init[j] = from /\ init'[j] = to /\ \A i \in Jobs \ {j} : init'[i] = init[i]
  BY DEF IInv, TypeOK, Step
<1>3. Asking = {} /\ \A i \in Jobs \ {j} : i \notin InNative
  BY <1>1 DEF Serial, Alone
<1>4. Asking' = {} /\ InNative' \subseteq {j}
  BY <1>2, <1>3 DEF Asking, InNative
<1> QED BY <1>1, <1>2, <1>3, <1>4 DEF Alone, Asking, InNative

\* The steps of init change no answer.
LEMMA InitRest ==
    ASSUME IInv, UNCHANGED <<ask, cached, taken>>
    PROVE  Spent' /\ Sized'
BY DEF IInv, Spent, Sized

-----------------------------------------------------------------------------
(* The screen                                                              *)

\* A coroutine that is launched has a place of its own.
LEMMA LaunchFacts ==
    ASSUME TypeOK, NEW v \in 0 .. MaxScreens, Launch(v) \/ UNCHANGED <<init, owner>>
    PROVE  /\ init' \in [Jobs -> {"none", "queued", "done"} \cup InitSteps]
           /\ owner' \in [Jobs -> 0 .. MaxScreens]
           /\ \A j \in Jobs : \/ init'[j] = init[j]
                              \/ init[j] \notin InitSteps /\ init'[j] \notin InitSteps
BY DEF TypeOK, Launch, InitSteps

\* The screen is opened, composed, or told of an installed model.
LEMMA ShowInv ==
    ASSUME IInv, OpenScreen \/ Composed \/ Downloaded, UNCHANGED dead
    PROVE  IInv'
<1>1. PICK v \in 0 .. MaxScreens : Launch(v) \/ UNCHANGED <<init, owner>>
  <2>1. screen \in 0 .. MaxScreens /\ (screen < MaxScreens => screen + 1 \in 0 .. MaxScreens)
    BY ChatConstants DEF IInv, TypeOK
  <2> QED BY <2>1 DEF OpenScreen, Composed, Downloaded, Refresh
<1>2. UNCHANGED <<globals, objects, ask, overlap>>
  BY DEF OpenScreen, Composed, Downloaded
<1>3. installed' \in BOOLEAN /\ shown' \in BOOLEAN /\ screen' \in 0 .. MaxScreens
  <2>1. screen + 1 \in 0 .. MaxScreens \/ ~(screen < MaxScreens)
    BY ChatConstants DEF IInv, TypeOK
  <2>2. CASE OpenScreen
    BY <2>1, <2>2 DEF IInv, TypeOK, OpenScreen
  <2>3. CASE Composed \/ Downloaded
    BY <2>3 DEF IInv, TypeOK, Composed, Downloaded, screens
  <2> QED BY <2>2, <2>3
<1>4. TypeOK'
  BY <1>1, <1>2, <1>3, LaunchFacts DEF IInv, TypeOK, globals, objects
<1>5. \A j \in Jobs : \/ init'[j] = init[j]
                      \/ init[j] \notin InitSteps /\ init'[j] \notin InitSteps
  BY <1>1, LaunchFacts DEF IInv
<1> QED BY <1>2, <1>4, <1>5, Outside

\* The screen is closed: what was not in a native call is cancelled.
LEMMA CloseScreenInv == ASSUME IInv, CloseScreen, UNCHANGED dead PROVE IInv'
<1>1. \A j \in Jobs : \/ init'[j] = init[j]
                      \/ init[j] \notin InitSteps /\ init'[j] \notin InitSteps
  BY DEF CloseScreen, InitSteps
<1>2. NoQuestion \in Question /\ NoQuestion.at \notin AskSteps
  BY ChatConstants DEF NoQuestion, Question, AskSteps
<1>3. /\ ask' \in [Screens -> Question]
      /\ \A v \in Screens : ask'[v] = ask[v] \/ ask'[v].at \notin AskSteps
  BY <1>2 DEF IInv, TypeOK, Question, CloseScreen
<1>4. init' \in [Jobs -> {"none", "queued", "done"} \cup InitSteps]
  BY DEF IInv, TypeOK, CloseScreen
<1>5. TypeOK'
  BY <1>3, <1>4 DEF IInv, TypeOK, Question, CloseScreen, globals, objects
<1> QED BY <1>1, <1>3, <1>5, Outside DEF CloseScreen

-----------------------------------------------------------------------------
(* init                                                                    *)

\* An init that begins alone is alone.
LEMMA InitBeginsInv ==
    ASSUME IInv, NEW j \in Jobs, InitBegins(j), UNCHANGED dead
    PROVE  IInv'
<1>1. /\ init[j] = "queued" /\ init' = [init EXCEPT ![j] = "sampler-"]
      /\ UNCHANGED <<installed, screen, shown, owner, model, ctx, sampler,
                     alive, madeFrom, cached, taken, ask>>
      /\ overlap' = (overlap \/ InNative # {} \/ Asking # {})
  BY DEF InitBegins, EnterNative, screens, globals, objects
<1>2. TypeOK'
  BY <1>1 DEF IInv, TypeOK, InitSteps
<1>3. Spent' /\ Sized'
  BY <1>1, InitRest
<1>4. ASSUME ~overlap' PROVE Serial'
  <2>1. ~overlap /\ InNative = {} /\ Asking = {} /\ Serial
    BY <1>1, <1>4 DEF IInv
  <2>2. InNative' \subseteq {j} /\ Asking' = {}
    BY <1>1, <2>1 DEF IInv, TypeOK, InNative, Asking
  <2>3. Alone'
    BY <2>2 DEF Alone
  <2>4. Owned' /\ Fits'
    BY <1>1, <2>1 DEF Serial, Owned, Fits
  <2>5. Cleared'
    BY <1>1, <2>1 DEF IInv, TypeOK, Serial, Cleared, InitSteps
  <2>6. Ready'
    BY <1>1, <2>1 DEF Serial, Ready, isReady
  <2> QED BY <2>3, <2>4, <2>5, <2>6 DEF Serial
<1> QED BY <1>2, <1>3, <1>4 DEF IInv

\* init frees the object of a global and clears it.
LEMMA FreesInv ==
    ASSUME IInv, NEW j \in Jobs,
           FreeSampler(j) \/ FreeCtx(j) \/ FreeModel(j), UNCHANGED dead
    PROVE  IInv'
<1>1. PICK from \in {"sampler-", "ctx-", "model-"}, to \in {"ctx-", "model-", "model+"} :
         /\ Step(j, from, to)
         /\ \/ /\ from = "sampler-" /\ to = "ctx-" /\ sampler' = 0
               /\ UNCHANGED <<model, ctx>>
               /\ alive' = alive \ {<<"sampler", sampler>>}
            \/ /\ from = "ctx-" /\ to = "model-" /\ ctx' = 0
               /\ UNCHANGED <<model, sampler>>
               /\ alive' = alive \ {<<"ctx", ctx>>}
            \/ /\ from = "model-" /\ to = "model+" /\ model' = 0
               /\ UNCHANGED <<ctx, sampler>>
               /\ alive' = alive \ {<<"model", model>>}
  BY DEF FreeSampler, FreeCtx, FreeModel, Frees, Kinds
<1>2. UNCHANGED <<installed, screen, shown, owner, madeFrom, cached, taken, ask,
                  overlap>>
  BY DEF FreeSampler, FreeCtx, FreeModel, screens
<1>3. TypeOK'
  <2>1. init' \in [Jobs -> {"none", "queued", "done"} \cup InitSteps]
    BY <1>1 DEF IInv, TypeOK, Step, InitSteps
  <2>2. {model', ctx', sampler'} \subseteq 0 .. MaxInits /\ alive' \subseteq Kinds \X Jobs
    BY <1>1, ChatConstants DEF IInv, TypeOK
  <2> QED BY <1>2, <2>1, <2>2 DEF IInv, TypeOK
<1>4. Spent' /\ Sized'
  BY <1>2, InitRest
<1>5. ASSUME ~overlap' PROVE Serial'
  <2>1. from \in InitSteps /\ to \in InitSteps
    BY <1>1 DEF InitSteps
  <2>2. /\ Serial /\ Alone' /\ init[j] = from /\ init'[j] = to
        /\ \A i \in Jobs \ {j} : init'[i] = init[i] /\ init[i] \notin InitSteps
        /\ \A v \in Screens : ask'[v] = ask[v] /\ ask[v].at \notin AskSteps
    BY <1>1, <1>2, <1>5, <2>1, InitAlone
  <2>3. Owned'
    <3>1. 0 \notin Jobs /\ \A i \in Jobs : /\ <<"model", i>> # <<"ctx", ctx>>
                                           /\ <<"model", i>> # <<"sampler", sampler>>
                                           /\ <<"ctx", i>> # <<"model", model>>
                                           /\ <<"ctx", i>> # <<"sampler", sampler>>
                                           /\ <<"sampler", i>> # <<"model", model>>
                                           /\ <<"sampler", i>> # <<"ctx", ctx>>
      BY DEF Jobs
    <3> QED BY <1>1, <2>2, <3>1 DEF Serial, Owned
  <2>4. Cleared'
    BY <1>1, <2>2 DEF Serial, Cleared, InitSteps
  <2>5. Fits'
    <3>1. from = "model-" => ctx = 0
      BY <2>2 DEF Serial, Cleared
    <3> QED BY <1>1, <1>2, <2>2, <3>1 DEF Serial, Fits
  <2>6. Ready'
    BY <2>2 DEF Ready, AskSteps
  <2> QED BY <2>2, <2>3, <2>4, <2>5, <2>6 DEF Serial
<1> QED BY <1>3, <1>4, <1>5 DEF IInv

\* The model is loaded, or not, where there is none.
LEMMA LoadModelInv ==
    ASSUME IInv, NEW j \in Jobs, LoadModel(j), UNCHANGED dead
    PROVE  IInv'
<1>1. PICK to \in {"ctx+", "done"} :
         /\ Step(j, "model+", to)
         /\ \/ /\ to = "ctx+" /\ model' = j
               /\ alive' = alive \cup {<<"model", j>>}
            \/ to = "done" /\ model' = 0 /\ alive' = alive
  BY DEF LoadModel
<1>2. UNCHANGED <<installed, screen, shown, owner, ctx, sampler, madeFrom, cached,
                  taken, ask, overlap>>
  BY DEF LoadModel, screens
<1>3. TypeOK'
  <2>1. init' \in [Jobs -> {"none", "queued", "done"} \cup InitSteps]
    BY <1>1 DEF IInv, TypeOK, Step, InitSteps
  <2>2. model' \in 0 .. MaxInits
    BY <1>1, ChatConstants DEF Jobs
  <2>3. alive' \subseteq Kinds \X Jobs
    BY <1>1 DEF IInv, TypeOK, Kinds
  <2> QED BY <1>2, <2>1, <2>2, <2>3 DEF IInv, TypeOK
<1>4. Spent' /\ Sized'
  BY <1>2, InitRest
<1>5. ASSUME ~overlap' PROVE Serial'
  <2>1. /\ Serial /\ Alone' /\ init[j] = "model+" /\ init'[j] = to
        /\ \A i \in Jobs \ {j} : init'[i] = init[i] /\ init[i] \notin InitSteps
        /\ \A v \in Screens : ask'[v] = ask[v] /\ ask[v].at \notin AskSteps
    BY <1>1, <1>2, <1>5, InitAlone DEF InitSteps
  <2>2. model = 0 /\ ctx = 0 /\ sampler = 0
    BY <2>1 DEF Serial, Cleared, InitSteps
  <2>3. Owned'
    <3>1. 0 \notin Jobs /\ \A i \in Jobs : /\ <<"ctx", i>> # <<"model", j>>
                                           /\ <<"sampler", i>> # <<"model", j>>
                                           /\ <<"model", i>> = <<"model", j>> <=> i = j
      BY DEF Jobs
    <3> QED BY <1>1, <1>2, <2>1, <2>2, <3>1 DEF Serial, Owned
  <2>4. Cleared'
    BY <1>1, <1>2, <2>1, <2>2 DEF Serial, Cleared, InitSteps
  <2>5. Fits'
    BY <1>2, <2>2 DEF Fits
  <2>6. Ready'
    BY <2>1 DEF Ready, AskSteps
  <2> QED BY <2>1, <2>3, <2>4, <2>5, <2>6 DEF Serial
<1> QED BY <1>3, <1>4, <1>5 DEF IInv

\* A context is made of the model there is, or none.
LEMMA CreateCtxInv ==
    ASSUME IInv, NEW j \in Jobs, CreateCtx(j), UNCHANGED dead
    PROVE  IInv'
<1>1. PICK to \in {"sampler+", "done"} :
         /\ Step(j, "ctx+", to)
         /\ \/ /\ to = "sampler+" /\ ctx' = j
               /\ alive' = alive \cup {<<"ctx", j>>}
               /\ madeFrom' = [madeFrom EXCEPT ![j] = model]
            \/ to = "done" /\ ctx' = 0 /\ UNCHANGED <<alive, madeFrom>>
  BY DEF CreateCtx
<1>2. UNCHANGED <<installed, screen, shown, owner, model, sampler, cached, taken,
                  ask, overlap>>
  BY DEF CreateCtx, screens
<1>3. TypeOK'
  <2>1. init' \in [Jobs -> {"none", "queued", "done"} \cup InitSteps]
    BY <1>1 DEF IInv, TypeOK, Step, InitSteps
  <2>2. ctx' \in 0 .. MaxInits /\ madeFrom' \in [Jobs -> 0 .. MaxInits]
    <3>1. j \in 0 .. MaxInits /\ 0 \in 0 .. MaxInits /\ model \in 0 .. MaxInits
      BY GlobalFacts, ChatConstants DEF IInv, Jobs
    <3> QED BY <1>1, <3>1 DEF IInv, TypeOK
  <2>3. alive' \subseteq Kinds \X Jobs
    BY <1>1 DEF IInv, TypeOK, Kinds
  <2> QED BY <1>2, <2>1, <2>2, <2>3 DEF IInv, TypeOK
<1>4. Spent' /\ Sized'
  BY <1>2, InitRest
<1>5. ASSUME ~overlap' PROVE Serial'
  <2>1. /\ Serial /\ Alone' /\ init[j] = "ctx+" /\ init'[j] = to
        /\ \A i \in Jobs \ {j} : init'[i] = init[i] /\ init[i] \notin InitSteps
        /\ \A v \in Screens : ask'[v] = ask[v] /\ ask[v].at \notin AskSteps
    BY <1>1, <1>2, <1>5, InitAlone DEF InitSteps
  <2>2. ctx = 0 /\ sampler = 0
    BY <2>1 DEF Serial, Cleared, InitSteps
  <2>3. Owned'
    <3>1. 0 \notin Jobs /\ \A i \in Jobs : /\ <<"model", i>> # <<"ctx", j>>
                                           /\ <<"sampler", i>> # <<"ctx", j>>
                                           /\ <<"ctx", i>> = <<"ctx", j>> <=> i = j
      BY DEF Jobs
    <3>2. CASE ctx' = j /\ alive' = alive \cup {<<"ctx", j>>}
      BY <1>2, <2>1, <2>2, <3>1, <3>2 DEF Serial, Owned
    <3>3. CASE ctx' = 0 /\ alive' = alive
      BY <1>2, <2>1, <2>2, <3>3 DEF Serial, Owned
    <3> QED BY <1>1, <3>2, <3>3
  <2>4. Cleared'
    BY <1>1, <1>2, <2>1, <2>2 DEF Serial, Cleared, InitSteps
  <2>5. Fits'
    BY <1>1, <1>2 DEF IInv, TypeOK, Fits
  <2>6. Ready'
    BY <2>1 DEF Ready, AskSteps
  <2> QED BY <2>1, <2>3, <2>4, <2>5, <2>6 DEF Serial
<1> QED BY <1>3, <1>4, <1>5 DEF IInv

\* A sampler is made where there is none.
LEMMA CreateSamplerInv ==
    ASSUME IInv, NEW j \in Jobs, CreateSampler(j), UNCHANGED dead
    PROVE  IInv'
<1>1. /\ Step(j, "sampler+", "done") /\ sampler' = j
      /\ alive' = alive \cup {<<"sampler", j>>}
      /\ UNCHANGED <<installed, screen, shown, owner, model, ctx, madeFrom, cached,
                     taken, ask, overlap>>
  BY DEF CreateSampler, screens
<1>2. TypeOK'
  <2>1. init' \in [Jobs -> {"none", "queued", "done"} \cup InitSteps]
    BY <1>1 DEF IInv, TypeOK, Step, InitSteps
  <2>2. sampler' \in 0 .. MaxInits /\ alive' \subseteq Kinds \X Jobs
    BY <1>1, ChatConstants DEF IInv, TypeOK, Jobs, Kinds
  <2> QED BY <1>1, <2>1, <2>2 DEF IInv, TypeOK
<1>3. Spent' /\ Sized'
  BY <1>1, InitRest
<1>4. ASSUME ~overlap' PROVE Serial'
  <2>1. /\ Serial /\ Alone' /\ init[j] = "sampler+" /\ init'[j] = "done"
        /\ \A i \in Jobs \ {j} : init'[i] = init[i] /\ init[i] \notin InitSteps
        /\ \A v \in Screens : ask'[v] = ask[v] /\ ask[v].at \notin AskSteps
    BY <1>1, <1>4, InitAlone DEF InitSteps
  <2>2. sampler = 0
    BY <2>1 DEF Serial, Cleared, InitSteps
  <2>3. Owned'
    <3>1. 0 \notin Jobs /\ \A i \in Jobs : /\ <<"model", i>> # <<"sampler", j>>
                                           /\ <<"ctx", i>> # <<"sampler", j>>
                                           /\ <<"sampler", i>> = <<"sampler", j>> <=> i = j
      BY DEF Jobs
    <3> QED BY <1>1, <2>1, <2>2, <3>1 DEF Serial, Owned
  <2>4. Cleared'
    BY <2>1 DEF Cleared, InitSteps
  <2>5. Fits'
    BY <1>1, <2>1 DEF Serial, Fits
  <2>6. Ready'
    BY <2>1 DEF Ready, AskSteps
  <2> QED BY <2>1, <2>3, <2>4, <2>5, <2>6 DEF Serial
<1> QED BY <1>2, <1>3, <1>4 DEF IInv

-----------------------------------------------------------------------------
(* Questions                                                               *)

\* A question moves to another point.
LEMMA AskFacts ==
    ASSUME TypeOK, NEW v \in Screens, NEW at \in {"idle", "cloud", "local"} \cup AskSteps,
           NEW n \in Nat, NEW m \in 0 .. MaxNew, Ask(v, at, n, m)
    PROVE  /\ ask' \in [Screens -> Question]
           /\ ask'[v].at = at /\ ask'[v].n = n
           /\ \A u \in Screens \ {v} : ask'[u] = ask[u]
BY DEF TypeOK, Question, Ask

\* A question is over.
LEMMA AnsweredFacts ==
    ASSUME TypeOK, NEW v \in Screens, Answered(v)
    PROVE  /\ ask' \in [Screens -> Question]
           /\ ask'[v].at = "idle" /\ "idle" \notin AskSteps
           /\ \A u \in Screens \ {v} : ask'[u] = ask[u]
<1>1. NoQuestion \in Question /\ NoQuestion.at = "idle"
  BY ChatConstants DEF NoQuestion, Question
<1> QED BY <1>1 DEF TypeOK, Question, Answered, AskSteps

\* Before and after the native calls: the question is asked, a cloud model is,
\* or an excuse is the answer.
LEMMA AsideInv ==
    ASSUME IInv, NEW v \in 0 .. MaxScreens, Aside, UNCHANGED <<objects, overlap, dead>>,
           ask' \in [Screens -> Question],
           \A u \in Screens : ask'[u] = ask[u] \/ ask'[u].at \notin AskSteps
    PROVE  IInv'
<1>1. TypeOK'
  BY DEF IInv, TypeOK, Question, Aside, screens, globals, objects
<1> QED BY <1>1, Outside DEF Aside

\* A question is asked.
LEMMA SendMessageInv == ASSUME IInv, SendMessage, UNCHANGED dead PROVE IInv'
<1>1. PICK at \in {"cloud", "local"}, n \in {0, 1} : Ask(screen, at, n, 0)
  BY DEF SendMessage
<1>2. [at |-> at, n |-> n, m |-> 0] \in Question /\ at \notin AskSteps
  BY ChatConstants DEF Question, AskSteps
<1>3. /\ ask' \in [Screens -> Question]
      /\ \A u \in Screens : ask'[u] = ask[u] \/ ask'[u].at \notin AskSteps
  BY <1>1, <1>2 DEF IInv, TypeOK, Question, Ask
<1>4. screen \in 0 .. MaxScreens
  BY DEF IInv, TypeOK
<1> QED BY <1>3, <1>4, AsideInv DEF SendMessage

\* A cloud model answers, or the next one or the local one is asked.
LEMMA CloudAttemptInv ==
    ASSUME IInv, NEW v \in Screens, CloudAttempt(v), UNCHANGED dead
    PROVE  IInv'
<1>1. PICK at \in {"idle", "cloud", "local"}, n \in Nat :
         Ask(v, at, n, 0) \/ (Answered(v) /\ at = "idle" /\ n = 0)
  <2>1. ask[v].n + 1 \in Nat
    BY DEF IInv, TypeOK
  <2> QED BY <2>1 DEF CloudAttempt
<1>2. /\ ask' \in [Screens -> Question]
      /\ \A u \in Screens : ask'[u] = ask[u] \/ ask'[u].at \notin AskSteps
  <2>1. 0 \in 0 .. MaxNew /\ at \notin AskSteps
    BY ChatConstants DEF AskSteps
  <2>2. TypeOK
    BY DEF IInv
  <2>3. CASE Ask(v, at, n, 0)
    <3>1. ask'[v].at = at /\ ask' \in [Screens -> Question]
          /\ \A u \in Screens \ {v} : ask'[u] = ask[u]
      BY <2>1, <2>2, <2>3, AskFacts
    <3> QED BY <2>1, <3>1
  <2>4. CASE Answered(v)
    BY <2>2, <2>4, AnsweredFacts
  <2> QED BY <1>1, <2>3, <2>4
<1>3. v \in 0 .. MaxScreens
  BY DEF Screens
<1> QED BY <1>2, <1>3, AsideInv DEF CloudAttempt

\* The local model is asked: alone, or the calls overlap from now on.
LEMMA LocalAttemptInv ==
    ASSUME IInv, NEW v \in Screens, LocalAttempt(v), UNCHANGED dead
    PROVE  IInv'
<1>0. 0 \in 0 .. MaxNew /\ 0 \in Nat /\ "idle" \notin AskSteps /\ "check" \in AskSteps
  BY ChatConstants DEF AskSteps
<1>1. CASE isReady
  <2>1. Ask(v, "check", 0, 0) /\ EnterNative
    BY <1>1 DEF LocalAttempt
  <2>2. /\ ask' \in [Screens -> Question] /\ ask'[v].at = "check"
        /\ \A u \in Screens \ {v} : ask'[u] = ask[u]
    BY <1>0, <2>1, AskFacts DEF IInv
  <2>3. /\ UNCHANGED <<installed, screen, shown, init, owner, model, ctx, sampler,
                       alive, madeFrom, cached, taken>>
        /\ overlap' = (overlap \/ InNative # {} \/ Asking # {})
    BY <2>1 DEF LocalAttempt, EnterNative, Aside, screens, globals, objects
  <2>4. TypeOK'
    BY <2>2, <2>3 DEF IInv, TypeOK, Question
  <2>5. Spent' /\ Sized'
    BY <2>2, <2>3 DEF IInv, Spent, Sized
  <2>6. ASSUME ~overlap' PROVE Serial'
    <3>1. ~overlap /\ InNative = {} /\ Asking = {} /\ Serial
      BY <2>3, <2>6 DEF IInv
    <3>2. InNative' = {} /\ Asking' \subseteq {v}
      BY <2>2, <2>3, <3>1 DEF InNative, Asking
    <3>3. Alone'
      BY <3>2 DEF Alone
    <3>4. Owned' /\ Fits' /\ Cleared'
      BY <2>3, <3>1 DEF Serial, Owned, Fits, Cleared
    <3>5. Ready'
      BY <2>2, <2>3, <3>1 DEF Serial, Ready, isReady
    <3> QED BY <3>3, <3>4, <3>5 DEF Serial
  <2> QED BY <2>4, <2>5, <2>6 DEF IInv
<1>2. CASE ~isReady
  <2>1. Answered(v) /\ UNCHANGED overlap
    BY <1>2 DEF LocalAttempt, Excuse
  <2>2. /\ ask' \in [Screens -> Question] /\ ask'[v].at = "idle"
        /\ \A u \in Screens \ {v} : ask'[u] = ask[u]
    BY <2>1, AnsweredFacts DEF IInv
  <2>3. v \in 0 .. MaxScreens
    BY DEF Screens
  <2> QED BY <1>0, <2>1, <2>2, <2>3, AsideInv DEF LocalAttempt
<1> QED BY <1>1, <1>2

\* While a question is with the local model alone, no init runs and no other
\* question does; its next step keeps it alone.
LEMMA AskAlone ==
    ASSUME IInv, NEW v \in Screens, ask[v].at \in AskSteps,
           UNCHANGED <<init, overlap>>, ~overlap,
           \A u \in Screens \ {v} : ask'[u] = ask[u]
    PROVE  /\ Serial /\ Alone' /\ v \in Asking
           /\ \A u \in Screens \ {v} : ask'[u].at \notin AskSteps
<1>1. Serial /\ v \in Asking
  BY DEF IInv, Asking
<1>2. InNative = {} /\ \A u \in Screens \ {v} : u \notin Asking
  BY <1>1 DEF Serial, Alone
<1>3. InNative' = {} /\ Asking' \subseteq {v}
  BY <1>2 DEF InNative, Asking
<1> QED BY <1>1, <1>2, <1>3 DEF Alone, Asking

\* The globals are tested and the prompt is tokenized.
LEMMA PromptCheckInv ==
    ASSUME IInv, NEW v \in Screens, PromptCheck(v), UNCHANGED dead
    PROVE  IInv'
<1>0. 0 \in 0 .. MaxNew /\ 0 \in Nat /\ "idle" \notin AskSteps
  BY ChatConstants DEF AskSteps
<1>1. CASE ~isReady
  <2>1. Answered(v) /\ UNCHANGED overlap
    BY <1>1 DEF PromptCheck
  <2>2. /\ ask' \in [Screens -> Question] /\ ask'[v].at = "idle"
        /\ \A u \in Screens \ {v} : ask'[u] = ask[u]
    BY <2>1, AnsweredFacts DEF IInv
  <2>3. v \in 0 .. MaxScreens
    BY DEF Screens
  <2> QED BY <1>0, <2>1, <2>2, <2>3, AsideInv DEF PromptCheck
<1>2. CASE isReady
  <2>1. PICK n \in Sizes : Ask(v, "prefill", n, 0)
    BY <1>2 DEF PromptCheck
  <2>2. /\ ask' \in [Screens -> Question]
        /\ ask'[v].at = "prefill" /\ ask'[v].n = n
        /\ \A u \in Screens \ {v} : ask'[u] = ask[u]
    <3>1. "prefill" \in {"idle", "cloud", "local"} \cup AskSteps /\ n \in Nat
      BY ChatConstants DEF AskSteps
    <3> QED BY <1>0, <2>1, <3>1, AskFacts DEF IInv
  <2>3. UNCHANGED <<installed, screen, shown, init, owner, model, ctx, sampler,
                    alive, madeFrom, cached, taken, overlap>>
    BY DEF PromptCheck, Aside, screens, globals, objects
  <2>4. TypeOK'
    BY <2>2, <2>3 DEF IInv, TypeOK, Question
  <2>5. Spent' /\ Sized'
    BY <2>2, <2>3 DEF IInv, Spent, Sized
  <2>6. ASSUME ~overlap' PROVE Serial'
    <3>1. ask[v].at \in AskSteps
      BY DEF PromptCheck, AskSteps
    <3>2. /\ Serial /\ Alone'
          /\ \A u \in Screens \ {v} : ask'[u].at \notin AskSteps
      BY <2>2, <2>3, <2>6, <3>1, AskAlone
    <3>3. Owned' /\ Fits' /\ Cleared'
      BY <2>3, <3>2 DEF Serial, Owned, Fits, Cleared
    <3>4. Ready'
      BY <1>2, <2>2, <2>3, <3>2 DEF Ready, isReady, AskSteps
    <3> QED BY <3>2, <3>3, <3>4 DEF Serial
  <2> QED BY <2>4, <2>5, <2>6 DEF IInv
<1> QED BY <1>1, <1>2

\* What a decode may do to the cache of its context keeps the invariant.
LEMMA DecodeInv ==
    ASSUME IInv, NEW v \in Screens, ask[v].at \in {"prefill", "generate"}, Usable(ctx),
           Aside, UNCHANGED <<alive, madeFrom, overlap>>,
           dead' \in {"no", "freed", "aborted"},
           cached' \in [Jobs -> 0 .. NCtx], taken' \in [Jobs -> Nat],
           ask' \in [Screens -> Question],
           ask'[v].at \in {"idle", "generate"},
           ask'[v].at = "generate" => cached'[ctx] > 0,
           \A u \in Screens \ {v} : ask'[u] = ask[u],
           Spent'
    PROVE  IInv'
<1>1. UNCHANGED <<installed, screen, shown, init, owner, model, ctx, sampler, alive,
                  madeFrom, overlap>>
  BY DEF Aside, screens, globals
<1>2. TypeOK'
  BY <1>1 DEF IInv, TypeOK, Question
<1>3. Sized'
  BY DEF IInv, Sized
<1>4. ASSUME ~overlap' PROVE Serial'
  <2>1. ask[v].at \in AskSteps
    BY DEF AskSteps
  <2>2. /\ Serial /\ Alone'
        /\ \A u \in Screens \ {v} : ask'[u].at \notin AskSteps
    BY <1>1, <1>4, <2>1, AskAlone
  <2>3. Owned' /\ Fits' /\ Cleared'
    BY <1>1, <2>2 DEF Serial, Owned, Fits, Cleared
  <2>4. isReady
    BY <2>2 DEF Serial, Ready
  <2>5. Ready'
    BY <1>1, <2>2, <2>4 DEF Ready, isReady, AskSteps
  <2> QED BY <2>2, <2>3, <2>5 DEF Serial
<1> QED BY <1>2, <1>3, <1>4 DEF IInv

\* A prompt is decoded by an empty context only, and leaves it filled unless
\* it fails.
LEMMA PrefillInv == ASSUME IInv, NEW v \in Screens, Prefill(v) PROVE IInv'
<1> DEFINE n == ask[v].n
           k == ctx
<1>1. /\ ask[v].at = "prefill" /\ Usable(k) /\ Prefilled(v, k, n)
      /\ Aside /\ UNCHANGED <<alive, madeFrom, overlap>>
  BY DEF Prefill
<1>2. n \in Sizes /\ n \in Nat /\ n > 0 /\ k \in Jobs /\ NCtx \in Nat
  <2>1. n \in Sizes /\ k # 0
    BY <1>1 DEF IInv, Sized, Usable
  <2>2. k \in Jobs
    BY <2>1, GlobalFacts DEF IInv
  <2>3. \A size \in Sizes : size \in Nat /\ size > 0
    BY ChatConstants
  <2> HIDE DEF n, k
  <2> QED BY <2>1, <2>2, <2>3, ChatConstants
<1>3. /\ cached \in [Jobs -> 0 .. NCtx] /\ taken \in [Jobs -> Nat]
      /\ Spent /\ dead \in {"no", "freed", "aborted"} /\ TypeOK
  BY DEF IInv, TypeOK
<1>4. 0 \in 0 .. MaxNew /\ 0 \in Nat
  BY ChatConstants
<1>5. Continues(k, 0) => cached[k] = 0
  BY <1>2, <1>3 DEF Continues
<1> HIDE DEF n, k
<1>6. CASE Answered(v) /\ UNCHANGED <<cached, taken>>
           /\ dead' \in {"no", "freed", "aborted"}
  <2>1. /\ ask' \in [Screens -> Question] /\ ask'[v].at = "idle"
        /\ \A u \in Screens \ {v} : ask'[u] = ask[u]
    BY <1>3, <1>6, AnsweredFacts
  <2>2. Spent'
    BY <1>3, <1>6 DEF Spent
  <2> QED BY <1>1, <1>3, <1>6, <2>1, <2>2, DecodeInv DEF k
<1>7. CASE /\ Continues(k, 0) /\ ~TooLong(n) /\ Ask(v, "generate", n, 0)
           /\ cached' = [cached EXCEPT ![k] = n]
           /\ taken' = [taken EXCEPT ![k] = @ + 1] /\ UNCHANGED dead
  <2>1. "generate" \in {"idle", "cloud", "local"} \cup AskSteps
    BY DEF AskSteps
  <2>2. /\ ask' \in [Screens -> Question] /\ ask'[v].at = "generate"
        /\ \A u \in Screens \ {v} : ask'[u] = ask[u]
    BY <1>2, <1>3, <1>4, <1>7, <2>1, AskFacts
  <2>3. n \in 0 .. NCtx
    BY <1>2, <1>7 DEF TooLong
  <2>4. /\ cached' \in [Jobs -> 0 .. NCtx] /\ taken' \in [Jobs -> Nat]
        /\ cached'[k] = n /\ taken'[k] = taken[k] + 1
        /\ \A i \in Jobs \ {k} : cached'[i] = cached[i] /\ taken'[i] = taken[i]
    BY <1>2, <1>3, <1>7, <2>3
  <2>5. taken[k] = 0
    BY <1>2, <1>3, <1>5, <1>7 DEF Spent
  <2>6. Spent'
    BY <1>2, <1>3, <2>4, <2>5 DEF Spent
  <2> QED BY <1>1, <1>2, <1>3, <1>7, <2>2, <2>4, <2>6, DecodeInv DEF k
<1>8. CASE /\ Continues(k, 0) /\ ~TooLong(n) /\ Answered(v)
           /\ UNCHANGED <<taken, dead>>
           /\ \E m \in 0 .. n - 1 : cached' = [cached EXCEPT ![k] = m]
  <2>1. PICK m \in 0 .. n - 1 : cached' = [cached EXCEPT ![k] = m]
    BY <1>8
  <2>2. /\ ask' \in [Screens -> Question] /\ ask'[v].at = "idle"
        /\ \A u \in Screens \ {v} : ask'[u] = ask[u]
    BY <1>3, <1>8, AnsweredFacts
  <2>3. m \in 0 .. NCtx
    BY <1>2, <1>8 DEF TooLong
  <2>4. /\ cached' \in [Jobs -> 0 .. NCtx] /\ taken' = taken
        /\ \A i \in Jobs \ {k} : cached'[i] = cached[i]
    BY <1>2, <1>3, <1>8, <2>1, <2>3
  <2>5. taken[k] = 0
    BY <1>2, <1>3, <1>5, <1>8 DEF Spent
  <2>6. Spent'
    BY <1>2, <1>3, <2>4, <2>5 DEF Spent
  <2> QED BY <1>1, <1>3, <1>8, <2>2, <2>4, <2>6, DecodeInv DEF k
<1> QED BY <1>1, <1>3, <1>6, <1>7, <1>8 DEF Prefilled

\* A token is sampled, and decoded unless it ends the answer.
LEMMA GenerateInv ==
    ASSUME IInv, NEW v \in Screens, Generate(v), UNCHANGED dead
    PROVE  IInv'
<1>1. /\ ask[v].at = "generate" /\ Usable(ctx) /\ cached[ctx] > 0
      /\ Aside /\ UNCHANGED <<alive, madeFrom, taken, overlap>>
  BY DEF Generate, CanSample
<1>2. /\ cached \in [Jobs -> 0 .. NCtx] /\ taken \in [Jobs -> Nat] /\ ctx \in Jobs
      /\ Spent /\ dead \in {"no", "freed", "aborted"} /\ TypeOK /\ NCtx \in Nat
      /\ MaxNew \in Nat
  BY <1>1, ChatConstants DEF IInv, TypeOK, Usable, Jobs
<1>3. CASE /\ ask[v].m < MaxNew /\ cached[ctx] < NCtx
           /\ Ask(v, "generate", ask[v].n + 1, ask[v].m + 1)
           /\ cached' = [cached EXCEPT ![ctx] = @ + 1]
  <2>1. ask[v].n + 1 \in Nat /\ ask[v].m + 1 \in 0 .. MaxNew
    BY <1>2, <1>3 DEF TypeOK
  <2>2. "generate" \in {"idle", "cloud", "local"} \cup AskSteps
    BY DEF AskSteps
  <2>3. /\ ask' \in [Screens -> Question] /\ ask'[v].at = "generate"
        /\ \A u \in Screens \ {v} : ask'[u] = ask[u]
    BY <1>2, <1>3, <2>1, <2>2, AskFacts
  <2>4. /\ cached' \in [Jobs -> 0 .. NCtx] /\ cached'[ctx] > 0
        /\ \A i \in Jobs : cached[i] > 0 => cached'[i] > 0
    BY <1>1, <1>2, <1>3
  <2>5. Spent'
    BY <1>1, <1>2, <2>4 DEF Spent
  <2> QED BY <1>1, <1>2, <2>3, <2>4, <2>5, DecodeInv
<1>4. CASE Answered(v) /\ UNCHANGED cached
  <2>2. /\ ask' \in [Screens -> Question] /\ ask'[v].at = "idle"
        /\ \A u \in Screens \ {v} : ask'[u] = ask[u]
    BY <1>2, <1>4, AnsweredFacts
  <2>3. Spent'
    BY <1>1, <1>2, <1>4 DEF Spent
  <2> QED BY <1>1, <1>2, <1>4, <2>2, <2>3, DecodeInv
<1> QED BY <1>3, <1>4 DEF Generate

-----------------------------------------------------------------------------
(* The theorems                                                            *)

\* Every step keeps the invariant.
LEMMA StepInv == IInv /\ [Next]_vars => IInv'
<1> SUFFICES ASSUME IInv, [Next]_vars PROVE IInv'
  OBVIOUS
<1>1. ASSUME Chat, UNCHANGED dead PROVE IInv'
  BY <1>1, ShowInv, CloseScreenInv, SendMessageInv DEF Chat
<1>2. ASSUME NEW j \in Jobs, InitBegins(j) \/ InitStep(j), UNCHANGED dead
      PROVE  IInv'
  BY <1>2, InitBeginsInv, FreesInv, LoadModelInv, CreateCtxInv, CreateSamplerInv
     DEF InitStep
<1>3. ASSUME NEW v \in Screens, Reply(v), UNCHANGED dead PROVE IInv'
  BY <1>3, CloudAttemptInv, LocalAttemptInv, PromptCheckInv, GenerateInv DEF Reply
<1>4. ASSUME NEW v \in Screens, Prefill(v) PROVE IInv'
  BY <1>4, PrefillInv
<1>5. ASSUME UNCHANGED <<screens, init, owner, globals, objects, ask, overlap>>,
             dead' \in {"no", "freed", "aborted"}
      PROVE  IInv'
  <2>1. TypeOK'
    BY <1>5 DEF IInv, TypeOK, screens, globals, objects
  <2> QED BY <1>5, <2>1, Outside
<1>6. CASE Corrupted
  BY <1>5, <1>6 DEF Corrupted
<1>7. CASE UNCHANGED vars
  BY <1>5, <1>7 DEF vars, IInv, TypeOK
<1> QED BY <1>1, <1>2, <1>3, <1>4, <1>6, <1>7 DEF Next

\* The inductive invariant holds in every reachable state.
THEOREM Invariant == Spec => []IInv
<1>1. Init => IInv
  BY InitInv
<1>2. IInv /\ [Next]_vars => IInv'
  BY StepInv
<1> QED BY <1>1, <1>2, PTL DEF Spec

\* OnePromptPerContext: whatever native calls overlap, a context decodes one
\* prompt at most, since prompt numbers its positions from 0 and never clears
\* the cache.
THEOREM OnePrompt == Spec => []OnePromptPerContext
<1>1. IInv => OnePromptPerContext
  BY DEF IInv, TypeOK, Spent, OnePromptPerContext
<1> QED BY <1>1, Invariant, PTL

\* In a serial run the next native step uses nothing that was freed.
LEMMA NothingFreed == ASSUME IInv, ~overlap PROVE ~UsesFreed
<1>1. Serial /\ TypeOK
  BY DEF IInv
<1>2. model # 0 => <<"model", model>> \in alive
  BY <1>1, GlobalFacts DEF Serial, Owned
<1>3. ctx # 0 => <<"ctx", ctx>> \in alive
  BY <1>1, GlobalFacts DEF Serial, Owned
<1>4. sampler # 0 => <<"sampler", sampler>> \in alive
  BY <1>1, GlobalFacts DEF Serial, Owned
<1>5. isReady => Usable(ctx)
  BY <1>1, <1>2, <1>3 DEF isReady, Usable, Serial, Fits
<1>6. ASSUME NEW v \in Screens
      PROVE  /\ ~(ask[v].at = "check" /\ isReady /\ <<"model", model>> \notin alive)
             /\ ~(ask[v].at = "prefill" /\ ~Usable(ctx))
             /\ ~(ask[v].at = "generate" /\ ~CanSample)
  <2>1. ask[v].at \in {"prefill", "generate"} => isReady /\ Usable(ctx)
    BY <1>1, <1>5 DEF Serial, Ready
  <2>2. ask[v].at = "generate" => CanSample
    BY <1>1, <1>4, <2>1 DEF Serial, Ready, CanSample, isReady
  <2> QED BY <1>2, <2>1, <2>2 DEF isReady
<1> QED BY <1>2, <1>6 DEF UsesFreed

\* SerialIsSafe: as long as no two native calls overlap, the globals are the
\* only objects that exist, also after inits that failed half way, the context
\* is one of the loaded model, and nothing freed is used.
THEOREM SerialSafe == Spec => []SerialIsSafe
<1>1. IInv => SerialIsSafe
  <2> SUFFICES ASSUME IInv PROVE SerialIsSafe
    OBVIOUS
  <2>1. ASSUME ~overlap PROVE alive = {o \in Globals : o[2] # 0}
    <3>1. TypeOK /\ Owned /\ 0 \notin Jobs
      BY <2>1 DEF IInv, Serial, Jobs
    <3>2. {model, ctx, sampler} \subseteq Jobs \cup {0}
      <4>1. {model, ctx, sampler} \subseteq 0 .. MaxInits
        BY <3>1 DEF TypeOK
      <4>2. \A j \in 0 .. MaxInits : j \in Jobs \cup {0}
        BY ChatConstants DEF Jobs
      <4> QED  BY <4>1, <4>2
    <3>3. ASSUME NEW o \in alive PROVE o \in Globals /\ o[2] # 0
      <4>1. PICK kind \in Kinds, j \in Jobs : o = <<kind, j>>
        BY <3>1 DEF TypeOK
      <4>2. o[2] = j /\ kind \in {"model", "ctx", "sampler"}
        BY <4>1 DEF Kinds
      <4>3. kind = "model" => model = j
        BY <3>1, <3>3, <4>1 DEF Owned
      <4>4. kind = "ctx" => ctx = j
        BY <3>1, <3>3, <4>1 DEF Owned
      <4>5. kind = "sampler" => sampler = j
        BY <3>1, <3>3, <4>1 DEF Owned
      <4> QED BY <3>1, <4>1, <4>2, <4>3, <4>4, <4>5 DEF Globals
    <3>4. ASSUME NEW o \in Globals, o[2] # 0 PROVE o \in alive
      <4>1. CASE o = <<"model", model>>
        BY <3>1, <3>2, <3>4, <4>1 DEF Owned
      <4>2. CASE o = <<"ctx", ctx>>
        BY <3>1, <3>2, <3>4, <4>2 DEF Owned
      <4>3. CASE o = <<"sampler", sampler>>
        BY <3>1, <3>2, <3>4, <4>3 DEF Owned
      <4> QED BY <4>1, <4>2, <4>3 DEF Globals
    <3> QED BY <3>3, <3>4
  <2>2. ASSUME ~overlap PROVE ctx # 0 => madeFrom[ctx] = model
    BY <2>2 DEF IInv, Serial, Fits
  <2>3. ASSUME ~overlap PROVE ~UsesFreed
    BY <2>3, NothingFreed
  <2>4. TypeOK
    BY DEF IInv
  <2> QED BY <2>1, <2>2, <2>3, <2>4 DEF SerialIsSafe
<1> QED BY <1>1, Invariant, PTL

-----------------------------------------------------------------------------
(* Induction and folds                                                     *)

\* Induction up to n: a set with 0 that is closed under the successor has all of
\* 0 .. n. (The smallest counterexample would be a smallest initial segment.)
LEMMA UpTo ==
    ASSUME NEW n \in Nat, NEW T, 0 \in T, \A m \in 0 .. n - 1 : m \in T => m + 1 \in T
    PROVE  \A m \in 0 .. n : m \in T
<1> DEFINE U == {m \in 0 .. n : m \notin T}
           W == {0 .. m : m \in U}
<1>1. SUFFICES ASSUME U # {} PROVE FALSE
  BY <1>1
<1>2. W # {} /\ W \subseteq FiniteSubsetsOf(Nat)
  <2>1. ASSUME NEW m \in Nat PROVE IsFiniteSet(0 .. m) /\ 0 .. m \subseteq Nat
    BY FS_Interval
  <2> QED  BY <1>1, <2>1 DEF FiniteSubsetsOf
<1>3. PICK w \in W : \A y \in W : ~(<<y, w>> \in StrictSubsetOrdering(Nat))
  <2> HIDE DEF W
  <2> QED  BY <1>2, FS_StrictSubsetOrderingWellFounded, WFMin
<1>4. PICK x \in U : w = 0 .. x
  BY <1>3
<1>5. x # 0 /\ x - 1 \in U
  BY <1>4
<1>6. 0 .. x - 1 \in W /\ <<0 .. x - 1, w>> \in StrictSubsetOrdering(Nat)
  <2>1. 0 .. x - 1 \subseteq w /\ x \in w /\ x \notin 0 .. x - 1
    BY <1>4, <1>5
  <2> QED  BY <1>4, <1>5, <2>1 DEF StrictSubsetOrdering
<1> QED  BY <1>3, <1>6

\* Induction over the subsets of a finite set.
LEMMA SubsetInduction ==
    ASSUME NEW S, IsFiniteSet(S), NEW Q,
           \A T \in SUBSET S : (\A V \in SUBSET T : V # T => V \in Q) => T \in Q
    PROVE  \A T \in SUBSET S : T \in Q
<1> DEFINE Bad == {U \in SUBSET S : U \notin Q}
<1>1. SUFFICES ASSUME Bad # {} PROVE FALSE
  BY <1>1
<1>2. PICK U \in Bad : \A V \in Bad : ~(<<V, U>> \in StrictSubsetOrdering(S))
  <2>1. Bad \subseteq FiniteSubsetsOf(S)
    BY FS_Subset DEF FiniteSubsetsOf
  <2> HIDE DEF Bad
  <2> QED  BY <1>1, <2>1, FS_StrictSubsetOrderingWellFounded, WFMin
<1>3. \A V \in SUBSET U : V # U => V \in Q
  BY <1>2 DEF StrictSubsetOrdering
<1> QED  BY <1>3

\* ch picks an element of every non-empty subset of S.
Chooses(ch, S) == \A T \in SUBSET S : T # {} => ch[T] \in T

\* g takes an element of S and a value in D to a value in D.
Closed(g, S, D) == \A x \in S, d \in D : g[<<x, d>>] \in D

\* h is the fold over S with g, the elements taken as ch picks them: of every
\* subset, from that of the subset without the picked element.
IsFold(h, S, D, base, ch, g) ==
    /\ h \in [SUBSET S -> D]
    /\ \A T \in SUBSET S :
          h[T] = IF T = {} THEN base ELSE g[<<ch[T], h[T \ {ch[T]}]>>]

\* The folds over a set and over a larger one agree on the smaller set.
LEMMA FoldUnique ==
    ASSUME NEW V, IsFiniteSet(V), NEW D, NEW base \in D,
           NEW ch, Chooses(ch, V), NEW g, NEW U, V \subseteq U,
           NEW h1, NEW h2, IsFold(h1, U, D, base, ch, g), IsFold(h2, V, D, base, ch, g)
    PROVE  h1[V] = h2[V]
<1> DEFINE P == {T \in SUBSET V : h1[T] = h2[T]}
<1>2. ASSUME NEW T \in SUBSET V, \A W \in SUBSET T : W # T => W \in P PROVE T \in P
  <3>1. CASE T = {}
    BY <3>1 DEF IsFold
  <3>2. CASE T # {}
    <4>1. ch[T] \in T
      BY <3>2 DEF Chooses
    <4>2. T \ {ch[T]} \in P
      BY <4>1, <1>2
    <4>3. h1[T] = g[<<ch[T], h1[T \ {ch[T]}]>>] /\ h2[T] = g[<<ch[T], h2[T \ {ch[T]}]>>]
      BY <3>2 DEF IsFold
    <4> QED  BY <4>2, <4>3
  <3> QED  BY <3>1, <3>2
<1> HIDE DEF P
<1>3. \A T \in SUBSET V : T \in P
  BY <1>2, SubsetInduction
<1> QED  BY <1>3 DEF P

\* There is a fold over every finite set: that of a set is made from those of
\* its proper subsets.
LEMMA FoldExists ==
    ASSUME NEW S, IsFiniteSet(S), NEW D, NEW base \in D,
           NEW ch, Chooses(ch, S), NEW g, Closed(g, S, D)
    PROVE  \E h : IsFold(h, S, D, base, ch, g)
<1> DEFINE Q == {U \in SUBSET S : \E h : IsFold(h, U, D, base, ch, g)}
<1>2. ASSUME NEW U \in SUBSET S, \A V \in SUBSET U : V # U => V \in Q PROVE U \in Q
  <2> DEFINE H == [V \in SUBSET U |-> CHOOSE h : IsFold(h, V, D, base, ch, g)]
             k == [T \in SUBSET U |-> IF T = {} THEN base
                       ELSE g[<<ch[T], H[T \ {ch[T]}][T \ {ch[T]}]>>]]
  <2>1. ASSUME NEW V \in SUBSET U, V # U PROVE IsFold(H[V], V, D, base, ch, g)
    BY <1>2, <2>1
  <2>2. ASSUME NEW T \in SUBSET U, T # {} PROVE
            /\ ch[T] \in T /\ T \ {ch[T]} \in SUBSET U /\ T \ {ch[T]} # U
            /\ k[T] = g[<<ch[T], H[T \ {ch[T]}][T \ {ch[T]}]>>]
            /\ k[T] \in D
    <3>1. ch[T] \in T /\ T \ {ch[T]} \in SUBSET U /\ T \ {ch[T]} # U
      BY <2>2 DEF Chooses
    <3>2. IsFold(H[T \ {ch[T]}], T \ {ch[T]}, D, base, ch, g)
      BY <3>1, <2>1
    <3>3. H[T \ {ch[T]}][T \ {ch[T]}] \in D
      <4> HIDE DEF H
      <4> QED  BY <3>2 DEF IsFold
    <3>4. k[T] = g[<<ch[T], H[T \ {ch[T]}][T \ {ch[T]}]>>]
      BY <2>2
    <3>5. ch[T] \in S
      BY <3>1
    <3> HIDE DEF k, H
    <3> QED  BY <3>1, <3>3, <3>4, <3>5 DEF Closed
  <2>3. k[{}] = base
    OBVIOUS
  <2>4. ASSUME NEW V \in SUBSET U, V # U PROVE H[V][V] = k[V]
    <3> DEFINE W == V \ {ch[V]}
    <3>0. IsFold(H[V], V, D, base, ch, g)
      BY <2>1, <2>4
    <3>1. CASE V = {}
      <4> HIDE DEF H, k
      <4> QED  BY <3>0, <3>1, <2>3 DEF IsFold
    <3>2. CASE V # {}
      <4>1. ch[V] \in V /\ W \in SUBSET U /\ W # U /\ k[V] = g[<<ch[V], H[W][W]>>]
        BY <2>2, <3>2
      <4>2. H[V][V] = g[<<ch[V], H[V][W]>>]
        <5> HIDE DEF H, k
        <5> QED  BY <3>0, <3>2 DEF IsFold
      <4>3. H[V][W] = H[W][W]
        <5>1. IsFold(H[W], W, D, base, ch, g)
          BY <2>1, <4>1
        <5>2. IsFiniteSet(W) /\ Chooses(ch, W) /\ W \subseteq V
          <6>1. W \in SUBSET S
            BY <4>1
          <6> HIDE DEF W
          <6>2. IsFiniteSet(W) /\ Chooses(ch, W)
            BY <6>1, FS_Subset DEF Chooses
          <6> QED  BY <6>2 DEF W
        <5> HIDE DEF W, H, k
        <5> QED  BY <5>1, <5>2, <3>0, FoldUnique
      <4> QED  BY <4>1, <4>2, <4>3
    <3> QED  BY <3>1, <3>2
  <2>5. k \in [SUBSET U -> D]
    <3>1. ASSUME NEW T \in SUBSET U PROVE k[T] \in D
      BY <2>2, <2>3
    <3> QED  BY <3>1
  <2>6. \A T \in SUBSET U : k[T] = IF T = {} THEN base ELSE g[<<ch[T], k[T \ {ch[T]}]>>]
    <3> HIDE DEF k, H
    <3> QED  BY <2>2, <2>3, <2>4
  <2> HIDE DEF k
  <2>7. IsFold(k, U, D, base, ch, g)
    BY <2>5, <2>6 DEF IsFold
  <2> QED  BY <2>7
<1>3. S \in Q
  <2> HIDE DEF Q
  <2> QED  BY <1>2, SubsetInduction
<1> QED  BY <1>3

\* The maximum of a non-empty bounded set is its largest element.
LEMMA MaxOf ==
    ASSUME NEW n \in Nat, NEW V \in SUBSET (-1 .. n), V # {}
    PROVE  Max(V) \in V /\ \A y \in V : Max(V) >= y
<1> DEFINE P == {m \in 0 .. n + 1 : \A W \in SUBSET (-1 .. m - 1) : W # {} => \E x \in W : \A y \in W : x >= y}
<1>1. 0 \in P
  <2>1. ASSUME NEW W \in SUBSET (-1 .. 0 - 1), W # {} PROVE \E x \in W : \A y \in W : x >= y
    <3>1. PICK x \in W : TRUE
      BY <2>1
    <3> QED  BY <3>1
  <2>2. 0 \in 0 .. n + 1
    OBVIOUS
  <2> QED  BY <2>1, <2>2
<1>2. ASSUME NEW m \in 0 .. (n + 1) - 1, m \in P PROVE m + 1 \in P
  <2>1. ASSUME NEW W \in SUBSET (-1 .. (m + 1) - 1), W # {} PROVE \E x \in W : \A y \in W : x >= y
    <3>1. CASE m \in W
      BY <3>1
    <3>2. CASE m \notin W
      <4>1. W \in SUBSET (-1 .. m - 1)
        BY <3>2
      <4> QED  BY <4>1, <1>2, <2>1
    <3> QED  BY <3>1, <3>2
  <2>2. m + 1 \in 0 .. n + 1
    OBVIOUS
  <2> QED  BY <2>1, <2>2
<1>3. n + 1 \in P
  <2>1. n + 1 \in Nat /\ n + 1 \in 0 .. n + 1
    OBVIOUS
  <2> HIDE DEF P
  <2> QED  BY <1>1, <1>2, <2>1, UpTo
<1>4. (n + 1) - 1 = n
  OBVIOUS
<1>5. \E x \in V : \A y \in V : x >= y
  BY <1>3, <1>4
<1> QED  BY <1>5 DEF Max

\* The maximum of a non-empty set of indices is one of them.
LEMMA LargestIndex ==
    ASSUME NEW n \in Nat, NEW T \in SUBSET (1 .. n), T # {}
    PROVE  Max(T) \in T
<1>1. T \in SUBSET (-1 .. n)
  OBVIOUS
<1> QED  BY <1>1, MaxOf

\* h is the fold over 1 .. n from the left, as MapThenFoldSet defines it: of a set
\* of indices from that of the set without its largest.
IsLeftFold(h, n, D, base, g) ==
    /\ h \in [SUBSET (1 .. n) -> D]
    /\ h[{}] = base
    /\ \A T \in SUBSET (1 .. n) : T # {} =>
          /\ Max(T) \in 1 .. n /\ h[T \ {Max(T)}] \in D
          /\ h[T] = g[<<Max(T), h[T \ {Max(T)}]>>]

\* A fold from the left over 1 .. n exists, with values in D.
LEMMA LeftFoldExists ==
    ASSUME NEW n \in Nat, NEW D, NEW base \in D, NEW g, Closed(g, 1 .. n, D)
    PROVE  \E h : IsLeftFold(h, n, D, base, g)
<1> DEFINE ch == [T \in SUBSET (1 .. n) |-> Max(T)]
<1>1. IsFiniteSet(1 .. n)
  BY FS_Interval
<1>2. ASSUME NEW T \in SUBSET (1 .. n), T # {} PROVE Max(T) \in T
  BY <1>2, LargestIndex
<1>3. \A T \in SUBSET (1 .. n) : T # {} => ch[T] \in T
  BY <1>2
<1> HIDE DEF ch
<1> DEFINE S == 1 .. n
<1> HIDE DEF S
<1>6. IsFiniteSet(S) /\ Chooses(ch, S) /\ Closed(g, S, D)
  BY <1>1, <1>3 DEF S, Chooses
<1>4. PICK h : IsFold(h, S, D, base, ch, g)
  BY <1>6, FoldExists
<1>5. h \in [SUBSET (1 .. n) -> D] /\ h[{}] = base
  BY <1>4 DEF S, IsFold
<1>8. ASSUME NEW T \in SUBSET (1 .. n), T # {}
      PROVE  /\ Max(T) \in 1 .. n /\ h[T \ {Max(T)}] \in D
             /\ h[T] = g[<<Max(T), h[T \ {Max(T)}]>>]
  <2>1. Max(T) \in 1 .. n
    BY <1>2, <1>8
  <2>2. T \ {Max(T)} \in SUBSET (1 .. n)
    OBVIOUS
  <2>3. ch[T] = Max(T)
    BY DEF ch
  <2>4. h[T] = g[<<ch[T], h[T \ {ch[T]}]>>]
    BY <1>4, <1>8 DEF S, IsFold
  <2> QED  BY <1>5, <2>1, <2>2, <2>3, <2>4
<1>9. IsLeftFold(h, n, D, base, g)
  BY <1>5, <1>8 DEF IsLeftFold
<1> QED  BY <1>9

\* The fold of 1 .. m is made from that of 1 .. m - 1.
LEMMA LeftFoldSteps ==
    ASSUME NEW n \in Nat
    PROVE  \A m \in 1 .. n : /\ 1 .. m # {} /\ 1 .. m \in SUBSET (1 .. n)
                             /\ Max(1 .. m) = m /\ (1 .. m) \ {m} = 1 .. m - 1
<1> SUFFICES ASSUME NEW m \in 1 .. n
             PROVE  /\ 1 .. m # {} /\ 1 .. m \in SUBSET (1 .. n)
                    /\ Max(1 .. m) = m /\ (1 .. m) \ {m} = 1 .. m - 1
  OBVIOUS
<1>1. m \in 1 .. m /\ \A y \in 1 .. m : m >= y
  OBVIOUS
<1> QED  BY <1>1 DEF Max

-----------------------------------------------------------------------------
(* The cells                                                               *)

\* The cells of k are well-formed, and the bookkeeping agrees with them.
Sound(k) == k \in CellsType /\ Consistent(k)

\* Cells, positions and heads are bounded.
LEMMA CellFacts ==
    /\ IsFiniteSet(Cells) /\ Cells \subseteq Nat
    /\ Positions \subseteq Nat /\ -1 \notin Positions
    /\ 0 \in Cells /\ \A i \in Cells : i + 1 \in 0 .. Size
    /\ \A i \in Cells : i \in 0 .. Size
<1>1. IsFiniteSet(0 .. Size - 1)
  BY CacheConstants, FS_Interval
<1> QED  BY <1>1, CacheConstants DEF Cells, Positions

\* The minimum of a non-empty set of cells is one of them.
LEMMA MinOf ==
    ASSUME NEW F \in SUBSET Cells, F # {}
    PROVE  Min(F) \in F
<1> DEFINE Q == {m \in 0 .. Size : \A V \in SUBSET Cells : V # {} /\ (\E v \in V : v < m) => \E x \in V : \A y \in V : x =< y}
<1>0. Size \in Nat
  BY CacheConstants
<1>1. 0 \in Q
  BY <1>0 DEF Cells
<1>2. ASSUME NEW m \in 0 .. Size - 1, m \in Q PROVE m + 1 \in Q
  <2>1. ASSUME NEW V \in SUBSET Cells, V # {}, NEW v \in V, v < m + 1
        PROVE  \E x \in V : \A y \in V : x =< y
    <3>1. CASE \E w \in V : w < m
      BY <3>1, <1>2
    <3>2. CASE \A w \in V : w >= m
      BY <3>2, <2>1 DEF Cells
    <3> QED  BY <3>1, <3>2 DEF Cells
  <2> QED  BY <2>1, <1>0
<1>3. Size \in Q
  <2> HIDE DEF Q
  <2> QED  BY <1>0, <1>1, <1>2, UpTo
<1>4. \E x \in F : \A y \in F : x =< y
  <2>1. PICK v \in F : TRUE
    OBVIOUS
  <2>2. v < Size
    BY <1>0 DEF Cells
  <2>3. \A V \in SUBSET Cells : V # {} /\ (\E w \in V : w < Size) => \E x \in V : \A y \in V : x =< y
    BY <1>3
  <2> QED  BY <2>1, <2>2, <2>3
<1> QED  BY <1>4 DEF Min

\* How often a position occurs in some cells is a number.
LEMMA TimesType ==
    ASSUME NEW I \in SUBSET Cells, NEW pos, NEW seq, NEW s, NEW p
    PROVE  /\ IsFiniteSet({i \in I : s \in seq[i] /\ pos[i] = p})
           /\ Times(I, pos, seq, s, p) \in Nat
<1>1. {i \in I : s \in seq[i] /\ pos[i] = p} \in SUBSET Cells
  OBVIOUS
<1>2. IsFiniteSet({i \in I : s \in seq[i] /\ pos[i] = p})
  BY <1>1, CellFacts, FS_Subset
<1> QED  BY <1>2, FS_CardinalityType DEF Times

\* Positions in the cells of I and in the others add up.
LEMMA TimesSplit ==
    ASSUME NEW I \in SUBSET Cells, NEW pos, NEW seq, NEW s, NEW p
    PROVE  Times(Cells, pos, seq, s, p)
              = Times(I, pos, seq, s, p) + Times(Cells \ I, pos, seq, s, p)
<1> DEFINE A == {i \in I : s \in seq[i] /\ pos[i] = p}
           B == {i \in Cells \ I : s \in seq[i] /\ pos[i] = p}
<1>1. IsFiniteSet(A) /\ IsFiniteSet(B)
  <2>1. A \in SUBSET Cells /\ B \in SUBSET Cells
    OBVIOUS
  <2> HIDE DEF A, B
  <2> QED  BY <2>1, CellFacts, FS_Subset
<1>2. A \cup B = {i \in Cells : s \in seq[i] /\ pos[i] = p} /\ A \cap B = {}
  OBVIOUS
<1>3. Cardinality(A \cup B) = Cardinality(A) + Cardinality(B) - Cardinality(A \cap B)
  <2> HIDE DEF A, B
  <2> QED  BY <1>1, FS_Union
<1>4. Cardinality(A \cap B) = 0
  <2> HIDE DEF A, B
  <2> QED  BY <1>2, FS_EmptySet
<1>5. Cardinality(A) \in Nat /\ Cardinality(B) \in Nat
  BY <1>1, FS_CardinalityType
<1>6. /\ Times(Cells, pos, seq, s, p) = Cardinality(A \cup B)
      /\ Times(I, pos, seq, s, p) = Cardinality(A)
      /\ Times(Cells \ I, pos, seq, s, p) = Cardinality(B)
  BY <1>2 DEF Times
<1> HIDE DEF A, B
<1> QED  BY <1>3, <1>4, <1>5, <1>6

\* Cells with the same contents are counted alike.
LEMMA TimesSame ==
    ASSUME NEW I, NEW pos, NEW seq, NEW pos2, NEW seq2, NEW s, NEW p,
           \A i \in I : pos[i] = pos2[i] /\ seq[i] = seq2[i]
    PROVE  Times(I, pos, seq, s, p) = Times(I, pos2, seq2, s, p)
<1>1. {i \in I : s \in seq[i] /\ pos[i] = p} = {i \in I : s \in seq2[i] /\ pos2[i] = p}
  OBVIOUS
<1> QED  BY <1>1 DEF Times

\* New contents of some cells leave the bookkeeping right: seq_pos_rm and
\* seq_pos_add keep the counts, used follows the positions.
LEMMA AssignSound ==
    ASSUME NEW k, Sound(k), NEW I \in SUBSET Cells, NEW pos, NEW seq,
           \A i \in I : /\ pos[i] \in Positions \cup {-1} /\ seq[i] \in SUBSET Seqs
                        /\ pos[i] = -1 <=> seq[i] = {},
           NEW m, m = Assign(k, I, pos, seq)
    PROVE  /\ Sound(m)
           /\ m.pos = [i \in Cells |-> IF i \in I THEN pos[i] ELSE k.pos[i]]
           /\ m.seq = [i \in Cells |-> IF i \in I THEN seq[i] ELSE k.seq[i]]
           /\ m.shift = k.shift /\ m.hasShift = k.hasShift /\ m.head = k.head
<1> DEFINE count == [s \in Seqs |-> [p \in Positions |->
                    k.count[s][p] - Times(I, k.pos, k.seq, s, p)
                            + Times(I, pos, seq, s, p)]]
           used == (k.used \ I) \cup {i \in I : pos[i] # -1}
<1>1. m = [pos |-> [i \in Cells |-> IF i \in I THEN pos[i] ELSE k.pos[i]],
           seq |-> [i \in Cells |-> IF i \in I THEN seq[i] ELSE k.seq[i]],
           shift |-> k.shift, hasShift |-> k.hasShift, used |-> used,
           count |-> count, head |-> k.head]
  BY DEF Assign, Sound, CellsType
<1>2. m.pos \in [Cells -> Positions \cup {-1}] /\ m.seq \in [Cells -> SUBSET Seqs]
      /\ m.used = {i \in Cells : m.pos[i] # -1}
      /\ \A i \in Cells : m.pos[i] = -1 <=> m.seq[i] = {}
  <2> HIDE DEF count
  <2> QED  BY <1>1 DEF Sound, CellsType, Consistent
<1>3. ASSUME NEW s \in Seqs, NEW p \in Positions
      PROVE  m.count[s][p] = Times(Cells, m.pos, m.seq, s, p)
  <2>1. k.count[s][p] = Times(I, k.pos, k.seq, s, p) + Times(Cells \ I, k.pos, k.seq, s, p)
    BY TimesSplit DEF Sound, Consistent
  <2>2. Times(Cells, m.pos, m.seq, s, p)
           = Times(I, m.pos, m.seq, s, p) + Times(Cells \ I, m.pos, m.seq, s, p)
    BY TimesSplit
  <2>3. Times(I, m.pos, m.seq, s, p) = Times(I, pos, seq, s, p)
    <3>1. \A i \in I : m.pos[i] = pos[i] /\ m.seq[i] = seq[i]
      BY <1>1
    <3> QED  BY <3>1, TimesSame
  <2>4. Times(Cells \ I, m.pos, m.seq, s, p) = Times(Cells \ I, k.pos, k.seq, s, p)
    <3>1. \A i \in Cells \ I : m.pos[i] = k.pos[i] /\ m.seq[i] = k.seq[i]
      BY <1>1
    <3> QED  BY <3>1, TimesSame
  <2>5. m.count[s][p] = k.count[s][p] - Times(I, k.pos, k.seq, s, p) + Times(I, pos, seq, s, p)
    BY <1>1
  <2>6. /\ Times(I, k.pos, k.seq, s, p) \in Nat /\ Times(I, pos, seq, s, p) \in Nat
        /\ Times(Cells \ I, k.pos, k.seq, s, p) \in Nat
    BY TimesType
  <2> HIDE DEF count
  <2> QED  BY <2>1, <2>2, <2>3, <2>4, <2>5, <2>6
<1>4. m.count \in [Seqs -> [Positions -> Nat]]
  <2>2. m.count = count
    BY <1>1
  <2>1. ASSUME NEW s \in Seqs, NEW p \in Positions PROVE count[s][p] \in Nat
    <3> HIDE DEF count
    <3>1. Cells \in SUBSET Cells
      OBVIOUS
    <3>2. Times(Cells, m.pos, m.seq, s, p) \in Nat
      BY <3>1, TimesType
    <3>3. m.count[s][p] = Times(Cells, m.pos, m.seq, s, p)
      BY <1>3
    <3> QED  BY <2>2, <3>2, <3>3
  <2>3. count = [s \in Seqs |-> [p \in Positions |-> count[s][p]]]
    OBVIOUS
  <2> HIDE DEF count
  <2> QED  BY <2>1, <2>2, <2>3
<1>5. m.head = k.head /\ m.shift = k.shift /\ m.hasShift = k.hasShift
  <2> HIDE DEF count, used
  <2> QED  BY <1>1
<1>6. m \in CellsType
  <2>1. m = [pos |-> m.pos, seq |-> m.seq, shift |-> m.shift, hasShift |-> m.hasShift,
             used |-> m.used, count |-> m.count, head |-> m.head]
    <3> HIDE DEF count, used
    <3> QED  BY <1>1
  <2> HIDE DEF count, used
  <2>2. m.used \in SUBSET Cells /\ m.head \in 0 .. Size /\ m.hasShift \in BOOLEAN
        /\ m.shift \in [Cells -> Int]
    BY <1>2, <1>5 DEF Sound, CellsType
  <2> QED  BY <2>1, <2>2, <1>2, <1>4 DEF CellsType
<1>7. Consistent(m)
  BY <1>2, <1>3 DEF Consistent
<1> HIDE DEF count, used
<1> QED  BY <1>1, <1>5, <1>6, <1>7 DEF Sound

\* What soundness says of one cell.
LEMMA SoundCell ==
    ASSUME NEW k, Sound(k), NEW i \in Cells
    PROVE  /\ k.pos[i] \in Positions \cup {-1} /\ k.pos[i] \in Int
           /\ k.seq[i] \in SUBSET Seqs
           /\ k.pos[i] = -1 <=> k.seq[i] = {}
           /\ k.pos[i] >= -1 /\ (k.pos[i] # -1 => k.pos[i] >= 0)
<1>1. k.pos[i] \in Positions \cup {-1} /\ k.seq[i] \in SUBSET Seqs
  BY DEF Sound, CellsType
<1>2. k.pos[i] = -1 <=> k.seq[i] = {}
  BY DEF Sound, Consistent
<1>3. k.pos[i] = -1 \/ k.pos[i] \in Nat
  BY <1>1, CellFacts
<1> QED  BY <1>1, <1>2, <1>3

\* The shifts are not part of the bookkeeping.
LEMMA ShiftSound ==
    ASSUME NEW k, Sound(k), NEW shift \in [Cells -> Int], NEW m,
           m = [k EXCEPT !.shift = shift]
    PROVE  /\ Sound(m) /\ m.shift = shift
           /\ m.pos = k.pos /\ m.seq = k.seq /\ m.head = k.head /\ m.hasShift = k.hasShift
<1>1. /\ m.pos = k.pos /\ m.seq = k.seq /\ m.head = k.head /\ m.hasShift = k.hasShift
      /\ m.used = k.used /\ m.count = k.count /\ m.shift = shift
  BY DEF Sound, CellsType
<1>2. m \in CellsType
  BY DEF Sound, CellsType
<1> QED  BY <1>1, <1>2 DEF Sound, Consistent

\* Nor is the head.
LEMMA HeadSound ==
    ASSUME NEW k, Sound(k), NEW head \in 0 .. Size, NEW m,
           m = [k EXCEPT !.head = head]
    PROVE  /\ Sound(m) /\ m.head = head
           /\ m.pos = k.pos /\ m.seq = k.seq /\ m.shift = k.shift /\ m.hasShift = k.hasShift
<1>1. /\ m.pos = k.pos /\ m.seq = k.seq /\ m.head = head /\ m.hasShift = k.hasShift
      /\ m.used = k.used /\ m.count = k.count /\ m.shift = k.shift
  BY DEF Sound, CellsType
<1>2. m \in CellsType
  BY DEF Sound, CellsType
<1> QED  BY <1>1, <1>2 DEF Sound, Consistent

\* The sequences and positions of k when cells I lose the sequences in S.
Without(k, I, S) == [i \in Cells |-> IF i \in I THEN k.seq[i] \ S ELSE k.seq[i]]
PosWithout(k, I, S) ==
    [i \in Cells |-> IF i \in I /\ k.seq[i] \ S = {} THEN -1 ELSE k.pos[i]]

\* Cells that lose sequences, the emptied ones freed: the bookkeeping stays right.
LEMMA DropSound ==
    ASSUME NEW k, Sound(k), NEW I \in SUBSET Cells, NEW S, NEW m, m = Drop(k, I, S)
    PROVE  /\ Sound(m)
           /\ m.pos = PosWithout(k, I, S) /\ m.seq = Without(k, I, S)
           /\ m.head = k.head /\ m.hasShift = k.hasShift
<1> DEFINE seq == [i \in Cells |-> k.seq[i] \ S]
           F == {i \in I : seq[i] = {}}
           pos == [i \in Cells |-> IF i \in F THEN -1 ELSE k.pos[i]]
           n == Assign(k, I, pos, seq)
           shift == [i \in Cells |-> IF i \in F THEN 0 ELSE n.shift[i]]
<1>1. m = [n EXCEPT !.shift = shift]
  BY DEF Drop
<1>2. \A i \in I : /\ pos[i] \in Positions \cup {-1} /\ seq[i] \in SUBSET Seqs
                   /\ pos[i] = -1 <=> seq[i] = {}
  <2> SUFFICES ASSUME NEW i \in I
               PROVE  /\ pos[i] \in Positions \cup {-1} /\ seq[i] \in SUBSET Seqs
                      /\ pos[i] = -1 <=> seq[i] = {}
    OBVIOUS
  <2>1. /\ k.pos[i] \in Positions \cup {-1} /\ k.seq[i] \in SUBSET Seqs
        /\ k.pos[i] = -1 <=> k.seq[i] = {}
    BY SoundCell
  <2>2. seq[i] = k.seq[i] \ S /\ pos[i] = IF seq[i] = {} THEN -1 ELSE k.pos[i]
    OBVIOUS
  <2> HIDE DEF seq, pos, F
  <2> QED  BY <2>1, <2>2
<1>3. /\ Sound(n) /\ n.shift = k.shift /\ n.hasShift = k.hasShift /\ n.head = k.head
      /\ n.pos = [i \in Cells |-> IF i \in I THEN pos[i] ELSE k.pos[i]]
      /\ n.seq = [i \in Cells |-> IF i \in I THEN seq[i] ELSE k.seq[i]]
  <2> HIDE DEF seq, pos, n
  <2>1. n = Assign(k, I, pos, seq)
    BY DEF n
  <2>2. \A i \in I : /\ pos[i] \in Positions \cup {-1} /\ seq[i] \in SUBSET Seqs
                     /\ pos[i] = -1 <=> seq[i] = {}
    BY <1>2
  <2> HIDE <1>1
  <2>3. /\ Sound(n)
        /\ n.pos = [i \in Cells |-> IF i \in I THEN pos[i] ELSE k.pos[i]]
        /\ n.seq = [i \in Cells |-> IF i \in I THEN seq[i] ELSE k.seq[i]]
        /\ n.shift = k.shift /\ n.hasShift = k.hasShift /\ n.head = k.head
    BY ONLY Sound(k), I \in SUBSET Cells, <2>1, <2>2, AssignSound
  <2> QED  BY ONLY <2>3
<1>4. shift \in [Cells -> Int]
  <2>1. n.shift \in [Cells -> Int]
    BY <1>3 DEF Sound, CellsType
  <2> HIDE DEF n, F
  <2> QED  BY <2>1
<1>5. Sound(m) /\ m.pos = n.pos /\ m.seq = n.seq /\ m.head = n.head /\ m.hasShift = n.hasShift
  <2> HIDE DEF n, shift
  <2> QED  BY <1>1, <1>3, <1>4, ShiftSound
<1>6. n.pos = PosWithout(k, I, S) /\ n.seq = Without(k, I, S)
  <2>1. n.seq = Without(k, I, S)
    <3> HIDE DEF n
    <3> QED  BY <1>3 DEF Without
  <2>2. n.pos = PosWithout(k, I, S)
    <3>1. \A i \in Cells : (IF i \in I THEN pos[i] ELSE k.pos[i])
                              = IF i \in I /\ k.seq[i] \ S = {} THEN -1 ELSE k.pos[i]
      OBVIOUS
    <3> HIDE DEF n, pos
    <3> QED  BY <1>3, <3>1 DEF PosWithout
  <2> HIDE DEF n
  <2> QED  BY <2>1, <2>2
<1> HIDE DEF n
<1> QED  BY <1>3, <1>5, <1>6

\* A head moved to a freed cell is a head.
LEMMA LowerHeadSound ==
    ASSUME NEW k, Sound(k), NEW n, Sound(n), NEW m, m = LowerHead(k, n)
    PROVE  Sound(m) /\ m.pos = n.pos /\ m.seq = n.seq /\ m.hasShift = n.hasShift
<1> DEFINE F == FreedBy(k, n)
<1>1. F \in SUBSET Cells
  BY DEF FreedBy
<1>2. CASE F # {} /\ Min(F) < k.head
  <2>1. Min(F) \in 0 .. Size
    BY <1>1, <1>2, MinOf, CellFacts
  <2>2. m = [n EXCEPT !.head = Min(F)]
    BY <1>2 DEF LowerHead
  <2> HIDE DEF F
  <2> QED  BY <2>1, <2>2, HeadSound
<1>3. CASE ~(F # {} /\ Min(F) < k.head)
  <2>1. m = n
    BY <1>3 DEF LowerHead
  <2> QED  BY <2>1
<1> QED  BY <1>2, <1>3

\* seq_rm of one sequence, and what it leaves.
LEMMA SeqRmSound ==
    ASSUME NEW k, Sound(k), NEW s, NEW p0, NEW p1, NEW m, m = SeqRm(k, s, p0, p1)
    PROVE  LET I == InRange(k, s, p0, p1)
           IN  /\ Sound(m) /\ m.hasShift = k.hasShift
               /\ m.pos = PosWithout(k, I, {s}) /\ m.seq = Without(k, I, {s})
<1> DEFINE I == InRange(k, s, p0, p1)
           n == Drop(k, I, {s})
<1>1. I \in SUBSET Cells
  BY DEF InRange
<1>2. /\ Sound(n) /\ n.pos = PosWithout(k, I, {s}) /\ n.seq = Without(k, I, {s})
      /\ n.hasShift = k.hasShift
  <2> HIDE DEF I
  <2> QED  BY <1>1, DropSound
<1>3. m = LowerHead(k, n)
  BY DEF SeqRm
<1> HIDE DEF n, I
<1>4. Sound(m) /\ m.pos = n.pos /\ m.seq = n.seq /\ m.hasShift = n.hasShift
  BY <1>2, <1>3, LowerHeadSound
<1> QED  BY <1>2, <1>4 DEF I

\* seq_rm of all sequences and seq_keep leave the bookkeeping right.
LEMMA DropLowered ==
    ASSUME NEW k, Sound(k), NEW I \in SUBSET Cells, NEW S, NEW m,
           m = LowerHead(k, Drop(k, I, S))
    PROVE  Sound(m)
<1>1. Sound(Drop(k, I, S))
  BY DropSound
<1> QED  BY <1>1, LowerHeadSound

\* So do reset and clear.
LEMMA EmptySound == Sound(EmptyCells)
<1>1. ASSUME NEW s, NEW p \in Positions PROVE Times(Cells, EmptyCells.pos, EmptyCells.seq, s, p) = 0
  <2>1. {i \in Cells : s \in EmptyCells.seq[i] /\ EmptyCells.pos[i] = p} = {}
    BY DEF EmptyCells
  <2> QED  BY <2>1, FS_EmptySet DEF Times
<1>2. EmptyCells \in CellsType
  <2>1. 0 \in 0 .. Size /\ 0 \in Nat /\ 0 \in Int
    BY CacheConstants
  <2> QED  BY <2>1 DEF EmptyCells, CellsType
<1>3. Consistent(EmptyCells)
  <2>1. \A s \in Seqs, p \in Positions : EmptyCells.count[s][p] = 0
    BY DEF EmptyCells
  <2>2. EmptyCells.used = {i \in Cells : EmptyCells.pos[i] # -1}
        /\ \A i \in Cells : EmptyCells.pos[i] = -1 <=> EmptyCells.seq[i] = {}
    BY DEF EmptyCells
  <2> QED  BY <1>1, <2>1, <2>2 DEF Consistent
<1> QED  BY <1>2, <1>3 DEF Sound

\* So does seq_cp.
LEMMA SeqCpSound ==
    ASSUME NEW k, Sound(k), NEW s \in Seqs, NEW t \in Seqs, NEW p0, NEW p1
    PROVE  Sound(SeqCp(k, s, t, p0, p1))
<1> DEFINE I == InRange(k, s, p0, p1)
           seq == [i \in Cells |-> IF i \in I THEN k.seq[i] \cup {t} ELSE k.seq[i]]
<1>1. I \in SUBSET Cells
  BY DEF InRange
<1>2. \A i \in I : /\ k.pos[i] \in Positions \cup {-1} /\ seq[i] \in SUBSET Seqs
                   /\ k.pos[i] = -1 <=> seq[i] = {}
  <2> SUFFICES ASSUME NEW i \in I
               PROVE  /\ k.pos[i] \in Positions \cup {-1} /\ seq[i] \in SUBSET Seqs
                      /\ k.pos[i] = -1 <=> seq[i] = {}
    OBVIOUS
  <2>1. /\ k.pos[i] \in Positions \cup {-1} /\ k.seq[i] \in SUBSET Seqs
        /\ k.pos[i] = -1 <=> k.seq[i] = {}
    BY <1>1, SoundCell
  <2>2. s \in k.seq[i]
    BY DEF InRange
  <2>3. seq[i] = k.seq[i] \cup {t}
    BY <1>1
  <2> HIDE DEF seq, I
  <2> QED  BY <2>1, <2>2, <2>3
<1> DEFINE m == SeqCp(k, s, t, p0, p1)
<1>3. m = Assign(k, I, k.pos, seq)
  BY DEF SeqCp
<1> HIDE DEF I, seq, m
<1>4. Sound(m)
  BY <1>1, <1>2, <1>3, AssignSound
<1> QED  BY <1>4 DEF m

\* So does seq_add, which frees the cells whose positions become negative.
LEMMA SeqAddSound ==
    ASSUME NEW k, Sound(k), NEW s \in Seqs, NEW p0, NEW p1, NEW d \in Int,
           \A i \in InRange(k, s, p0, p1) : k.pos[i] + d <= MaxPos
    PROVE  Sound(SeqAdd(k, s, p0, p1, d))
<1> DEFINE I == InRange(k, s, p0, p1)
           F == Below(k, I, d)
           pos == [i \in Cells |-> IF i \in F THEN -1 ELSE k.pos[i] + d]
           seq == [i \in Cells |-> IF i \in F THEN {} ELSE k.seq[i]]
           m == Assign(k, I, pos, seq)
           shift == [i \in Cells |-> CASE i \in F -> 0
                                       [] i \in I \ F -> m.shift[i] + d
                                       [] OTHER -> m.shift[i]]
           hasShift == m.hasShift \/ I # {}
           head == IF F # {} THEN Min(F) ELSE 0
           n == SeqAdd(k, s, p0, p1, d)
<1>1. I \in SUBSET Cells /\ F \in SUBSET I
  BY DEF InRange, Below
<1>2. \A i \in I : /\ pos[i] \in Positions \cup {-1} /\ seq[i] \in SUBSET Seqs
                   /\ pos[i] = -1 <=> seq[i] = {}
  <2> SUFFICES ASSUME NEW i \in I
               PROVE  /\ pos[i] \in Positions \cup {-1} /\ seq[i] \in SUBSET Seqs
                      /\ pos[i] = -1 <=> seq[i] = {}
    OBVIOUS
  <2>1. /\ k.pos[i] \in Positions \cup {-1} /\ k.seq[i] \in SUBSET Seqs
        /\ k.pos[i] = -1 <=> k.seq[i] = {} /\ k.pos[i] \in Int
    BY <1>1, SoundCell
  <2>2. s \in k.seq[i] /\ k.pos[i] + d <= MaxPos
    BY DEF InRange
  <2>3. seq[i] = (IF i \in F THEN {} ELSE k.seq[i]) /\ pos[i] = IF i \in F THEN -1 ELSE k.pos[i] + d
    BY <1>1
  <2>4. i \in F <=> k.pos[i] + d < 0
    BY DEF Below
  <2> HIDE DEF seq, pos, I, F
  <2> QED  BY <2>1, <2>2, <2>3, <2>4, CacheConstants DEF Positions
<1>3. Sound(m) /\ m.shift = k.shift /\ m.hasShift = k.hasShift
  <2>1. m = Assign(k, I, pos, seq)
    OBVIOUS
  <2>2. I \in SUBSET Cells
    BY <1>1
  <2> HIDE DEF I, F, seq, pos, m, shift, hasShift, head, n
  <2>3. Sound(m)
    BY <2>2, <1>2, <2>1, AssignSound
  <2>4. m.shift = k.shift /\ m.hasShift = k.hasShift
    BY <2>1 DEF Assign, Sound, CellsType
  <2> QED  BY <2>3, <2>4
<1>4. n = [m EXCEPT !.shift = shift, !.hasShift = hasShift, !.head = head]
  BY DEF SeqAdd
<1>5. shift \in [Cells -> Int] /\ hasShift \in BOOLEAN /\ head \in 0 .. Size
  <2>1. m.shift \in [Cells -> Int] /\ m.hasShift \in BOOLEAN
    BY <1>3 DEF Sound, CellsType
  <2>2. head \in 0 .. Size
    <3> HIDE DEF F, I
    <3>1. F \in SUBSET Cells
      BY <1>1
    <3> QED  BY <3>1, MinOf, CellFacts
  <2> HIDE DEF m, F, head, I
  <2>3. \A i \in Cells : m.shift[i] + d \in Int /\ m.shift[i] \in Int
    BY <2>1
  <2>4. shift \in [Cells -> Int]
    BY <2>3
  <2> QED  BY <2>1, <2>2, <2>4
<1> HIDE DEF m, shift, hasShift, head, I, F, n
<1>6. /\ n.pos = m.pos /\ n.seq = m.seq /\ n.used = m.used /\ n.count = m.count
      /\ n \in CellsType
  BY <1>3, <1>4, <1>5 DEF Sound, CellsType
<1>7. Sound(n)
  BY <1>3, <1>6 DEF Sound, Consistent
<1> QED  BY <1>7 DEF n

\* So does seq_div.
LEMMA SeqDivSound ==
    ASSUME NEW k, Sound(k), NEW s \in Seqs, NEW p0, NEW p1
    PROVE  Sound(SeqDiv(k, s, p0, p1, 2))
<1> DEFINE I == InRange(k, s, p0, p1)
           pos == [i \in Cells |-> k.pos[i] \div 2]
           m == Assign(k, I, pos, k.seq)
           shift == [i \in Cells |-> IF i \in I THEN m.shift[i] + k.pos[i] - m.pos[i]
                                     ELSE m.shift[i]]
           hasShift == m.hasShift \/ I # {}
           n == SeqDiv(k, s, p0, p1, 2)
<1>1. I \in SUBSET Cells
  BY DEF InRange
<1>2. \A i \in I : /\ pos[i] \in Positions \cup {-1} /\ k.seq[i] \in SUBSET Seqs
                   /\ pos[i] = -1 <=> k.seq[i] = {}
  <2> SUFFICES ASSUME NEW i \in I
               PROVE  /\ pos[i] \in Positions \cup {-1} /\ k.seq[i] \in SUBSET Seqs
                      /\ pos[i] = -1 <=> k.seq[i] = {}
    OBVIOUS
  <2>1. /\ k.pos[i] \in Positions \cup {-1} /\ k.seq[i] \in SUBSET Seqs
        /\ k.pos[i] = -1 <=> k.seq[i] = {} /\ k.pos[i] \in Int
    BY <1>1, SoundCell
  <2>2. s \in k.seq[i]
    BY DEF InRange
  <2>3. pos[i] = k.pos[i] \div 2
    BY <1>1
  <2>4. k.pos[i] \in 0 .. MaxPos
    BY <2>1, <2>2 DEF Positions
  <2>5. k.pos[i] \div 2 \in 0 .. MaxPos
    BY <2>4, CacheConstants
  <2> HIDE DEF pos, I
  <2> QED  BY <2>1, <2>2, <2>3, <2>5 DEF Positions
<1>3. Sound(m) /\ m.shift = k.shift /\ m.hasShift = k.hasShift
  <2>1. m = Assign(k, I, pos, k.seq)
    OBVIOUS
  <2> HIDE DEF I, pos, m, shift, hasShift, n
  <2>3. Sound(m)
    BY <1>1, <1>2, <2>1, AssignSound
  <2>4. m.shift = k.shift /\ m.hasShift = k.hasShift
    BY <2>1 DEF Assign, Sound, CellsType
  <2> QED  BY <2>3, <2>4
<1>4. n = [m EXCEPT !.shift = shift, !.hasShift = hasShift]
  BY DEF SeqDiv
<1>5. shift \in [Cells -> Int] /\ hasShift \in BOOLEAN
  <2>1. m.shift \in [Cells -> Int] /\ m.hasShift \in BOOLEAN
    BY <1>3 DEF Sound, CellsType
  <2>2. \A i \in Cells : m.pos[i] \in Int /\ k.pos[i] \in Int
    <3> HIDE DEF m
    <3> QED  BY <1>3, SoundCell
  <2> HIDE DEF m, I
  <2>3. \A i \in Cells : m.shift[i] + k.pos[i] - m.pos[i] \in Int /\ m.shift[i] \in Int
    BY <2>1, <2>2
  <2>4. shift \in [Cells -> Int]
    BY <2>3
  <2> QED  BY <2>1, <2>4
<1> HIDE DEF m, shift, hasShift, I, n
<1>6. /\ n.pos = m.pos /\ n.seq = m.seq /\ n.used = m.used /\ n.count = m.count
      /\ n \in CellsType
  BY <1>3, <1>4, <1>5 DEF Sound, CellsType
<1>7. Sound(n)
  BY <1>3, <1>6 DEF Sound, Consistent
<1> QED  BY <1>7 DEF n

-----------------------------------------------------------------------------
(* Finding a slot and placing a ubatch                                     *)

\* f is what the loop of find_slot has found after each cell.
UsableTrace(f, k, n, ring) ==
    /\ f[0] = <<>>
    /\ \A m \in 1 .. Size :
          f[m] = IF Len(f[m-1]) < n /\ CanUse(k, ring[m])
                 THEN Append(f[m-1], ring[m]) ELSE f[m-1]

\* The loop of find_slot has a trace.
LEMMA UsableSteps ==
    ASSUME NEW k, NEW n, NEW ring \in [1 .. Size -> Cells]
    PROVE  \E f : UsableTrace(f, k, n, ring) /\ f[Size] = FirstUsable(k, n, ring)
<1> DEFINE D == Seq(Cells)
           Op(d, i) == IF Len(d) < n /\ CanUse(k, i) THEN Append(d, i) ELSE d
           g == [x \in (1 .. Size) \X D |-> Op(x[2], ring[x[1]])]
           E(h) == [T \in SUBSET (1 .. Size) |->
                      IF T = {} THEN <<>> ELSE Op(h[T \ {Max(T)}], ring[Max(T)])]
           it == CHOOSE h : h = E(h)
<1>0. Size \in Nat
  BY CacheConstants
<1>1. \A i \in 1 .. Size, d \in D : g[<<i, d>>] \in D /\ g[<<i, d>>] = Op(d, ring[i])
  OBVIOUS
<1>2. PICK h : IsLeftFold(h, Size, D, <<>>, g)
  <2>1. <<>> \in D
    OBVIOUS
  <2>2. Closed(g, 1 .. Size, D)
    BY <1>1 DEF Closed
  <2> HIDE DEF D, g
  <2> QED  BY <1>0, <2>1, <2>2, LeftFoldExists
<1>3. h = E(h)
  <2>1. ASSUME NEW T \in SUBSET (1 .. Size), T # {} PROVE h[T] = Op(h[T \ {Max(T)}], ring[Max(T)])
    <3> HIDE DEF g, Op, D
    <3> QED  BY <1>1, <1>2, <2>1 DEF IsLeftFold
  <2> HIDE DEF g, Op, D
  <2> QED  BY <1>2, <2>1 DEF IsLeftFold
<1>4. it = E(it)
  <2> HIDE DEF E
  <2> QED  BY <1>3
<1>5. FirstUsable(k, n, ring) = it[1 .. Size]
  <2>1. DOMAIN ring = 1 .. Size
    OBVIOUS
  <2> QED  BY <2>1 DEF FirstUsable, FoldLeft, MapThenFoldSet
<1> DEFINE f == [m \in 0 .. Size |-> it[1 .. m]]
<1> HIDE DEF it
<1>6. f[0] = <<>>
  <2>1. 1 .. 0 = {} /\ 0 \in 0 .. Size
    BY <1>0
  <2> QED  BY <1>4, <2>1
<1>7. ASSUME NEW m \in 1 .. Size PROVE f[m] = Op(f[m-1], ring[m])
  <2>1. m \in 0 .. Size /\ m - 1 \in 0 .. Size
    BY <1>0
  <2>2. it[1 .. m] = Op(it[(1 .. m) \ {Max(1 .. m)}], ring[Max(1 .. m)])
    <3> HIDE DEF Op
    <3> QED  BY <1>4, <1>0, LeftFoldSteps
  <2>3. it[1 .. m] = Op(it[1 .. m - 1], ring[m])
    BY <2>2, <1>0, LeftFoldSteps
  <2> HIDE DEF Op
  <2> QED  BY <2>1, <2>3
<1>8. f[Size] = FirstUsable(k, n, ring)
  BY <1>5, <1>0
<1>9. UsableTrace(f, k, n, ring)
  <2> HIDE DEF f
  <2> QED  BY <1>6, <1>7 DEF UsableTrace
<1> HIDE DEF f
<1> QED  BY <1>8, <1>9

\* It finds usable cells, and not more than it looks for.
LEMMA UsableCells ==
    ASSUME NEW k, NEW n \in Nat, NEW ring \in [1 .. Size -> Cells], NEW q,
           q = FirstUsable(k, n, ring)
    PROVE  q \in Seq(Cells) /\ Len(q) <= n /\ \A i \in Range(q) : CanUse(k, i)
<1>0. Size \in Nat
  BY CacheConstants
<1>1. PICK f : UsableTrace(f, k, n, ring) /\ f[Size] = FirstUsable(k, n, ring)
  BY UsableSteps
<1> DEFINE G(d) == d \in Seq(Cells) /\ Len(d) <= n /\ \A j \in 1 .. Len(d) : CanUse(k, d[j])
           P == {m \in 0 .. Size : G(f[m])}
<1>2. 0 \in P
  <2>1. f[0] = <<>> /\ 0 \in 0 .. Size
    BY <1>0, <1>1 DEF UsableTrace
  <2>2. <<>> \in Seq(Cells) /\ Len(<<>>) = 0 /\ 1 .. 0 = {}
    OBVIOUS
  <2>3. G(<<>>)
    BY <2>2
  <2> HIDE DEF G
  <2> QED  BY <2>1, <2>3
<1>3. ASSUME NEW m \in 0 .. Size - 1, m \in P PROVE m + 1 \in P
  <2>1. m + 1 \in 1 .. Size /\ (m + 1) - 1 = m
    BY <1>0
  <2>2. f[m + 1] = IF Len(f[m]) < n /\ CanUse(k, ring[m + 1])
                   THEN Append(f[m], ring[m + 1]) ELSE f[m]
    BY <1>1, <2>1 DEF UsableTrace
  <2>3. CASE ~(Len(f[m]) < n /\ CanUse(k, ring[m + 1]))
    BY <2>1, <2>2, <2>3, <1>3
  <2>4. CASE Len(f[m]) < n /\ CanUse(k, ring[m + 1])
    <3>1. f[m+1] = Append(f[m], ring[m+1]) /\ ring[m+1] \in Cells /\ f[m] \in Seq(Cells)
      BY <2>1, <2>2, <2>4, <1>3
    <3>2. Len(f[m+1]) = Len(f[m]) + 1 /\ f[m+1] \in Seq(Cells)
      BY <3>1
    <3>3. ASSUME NEW j \in 1 .. Len(f[m+1]) PROVE CanUse(k, f[m+1][j])
      <4>1. CASE j = Len(f[m]) + 1
        BY <4>1, <3>1, <2>4
      <4>2. CASE j # Len(f[m]) + 1
        <5>1. j \in 1 .. Len(f[m]) /\ f[m+1][j] = f[m][j]
          BY <4>2, <3>1, <3>2
        <5> QED  BY <5>1, <1>3
      <4> QED  BY <4>1, <4>2
    <3> QED  BY <3>2, <3>3, <2>4, <2>1
  <2> QED  BY <2>3, <2>4
<1>4. Size \in P
  <2> HIDE DEF P
  <2> QED  BY <1>0, <1>2, <1>3, UpTo
<1>5. G(q)
  BY <1>4, <1>1
<1> QED  BY <1>5 DEF Range

\* find_slot returns nothing, or as many usable cells as there are tokens.
LEMMA SlotCells ==
    ASSUME NEW k, Sound(k), NEW n \in Nat \ {0}, NEW q, q = FindSlot(k, n)
    PROVE  \/ q = <<>>
           \/ q \in Seq(Cells) /\ Len(q) = n /\ \A i \in Range(q) : CanUse(k, i)
<1> DEFINE h == IF k.head > Cardinality(k.used) + 2 * n THEN 0 ELSE k.head
           ring == [j \in 1 .. Size |-> (h + j - 1) % Size]
           idxs == FirstUsable(k, n, ring)
<1>0. Size \in Nat \ {0}
  BY CacheConstants
<1>1. h \in Nat
  BY DEF Sound, CellsType
<1>2. ring \in [1 .. Size -> Cells]
  <2> HIDE DEF h
  <2> QED  BY <1>0, <1>1 DEF Cells
<1>3. q = IF Len(idxs) < n THEN <<>> ELSE idxs
  BY DEF FindSlot
<1>4. idxs \in Seq(Cells) /\ Len(idxs) <= n /\ \A i \in Range(idxs) : CanUse(k, i)
  <2> DEFINE r == idxs
  <2>1. r = FirstUsable(k, n, ring)
    OBVIOUS
  <2> HIDE DEF ring, r
  <2>2. r \in Seq(Cells) /\ Len(r) <= n /\ \A i \in Range(r) : CanUse(k, i)
    BY <1>2, <2>1, UsableCells
  <2> QED  BY <2>1, <2>2
<1> HIDE DEF idxs
<1>5. Len(idxs) < n \/ Len(idxs) = n
  BY <1>4
<1> QED  BY <1>3, <1>4, <1>5

\* A ubatch whose tokens have positions, and one that has a slot for them.
Request == {u \in Ubatch : u.pos + u.n - 1 <= MaxPos}
Slotted == {u \in Request : Len(u.idxs) = u.n}
SlotOf(u) == Range(u.idxs)

\* The slot of a ubatch has a cell for every token.
LEMMA SlotFacts ==
    ASSUME NEW u \in Slotted
    PROVE  /\ SlotOf(u) \in SUBSET Cells /\ SlotOf(u) # {}
           /\ u.seq \in Seqs /\ u.pos \in Positions /\ u.n \in Nat \ {0} /\ u.n \in 1 .. NUbatch
           /\ u.pos \in Nat /\ u.pos + u.n - 1 <= MaxPos
           /\ u.idxs \in Seq(Cells) /\ Len(u.idxs) = u.n
           /\ u.idxs[u.n] \in Cells /\ u.idxs[u.n] + 1 \in 0 .. Size
           /\ \A i \in SlotOf(u) : \E j \in 1 .. u.n : u.idxs[j] = i
<1>1. /\ u.seq \in Seqs /\ u.pos \in Positions /\ u.n \in 1 .. NUbatch
      /\ u.pos + u.n - 1 <= MaxPos /\ u.idxs \in Seq(Cells) /\ Len(u.idxs) = u.n
  BY DEF Slotted, Request, Ubatch
<1>2. u.n \in Nat \ {0} /\ u.pos \in Nat
  BY <1>1, CacheConstants DEF Positions
<1>3. DOMAIN u.idxs = 1 .. u.n /\ \A j \in 1 .. u.n : u.idxs[j] \in Cells
  BY <1>1, <1>2
<1>4. u.n \in 1 .. u.n
  BY <1>2
<1>5. u.idxs[u.n] \in Cells /\ u.idxs[u.n] + 1 \in 0 .. Size
  BY <1>3, <1>4, CellFacts
<1>6. \A i \in SlotOf(u) : i \in Cells /\ \E j \in 1 .. u.n : u.idxs[j] = i
  BY <1>3 DEF SlotOf, Range
<1>7. u.idxs[u.n] \in SlotOf(u)
  BY <1>3, <1>4 DEF SlotOf, Range
<1> QED  BY <1>1, <1>2, <1>5, <1>6, <1>7

\* Placed tokens leave the bookkeeping right and touch no other cell.
LEMMA PutSound ==
    ASSUME NEW k, Sound(k), NEW u \in Slotted, NEW m, m = Put(k, u)
    PROVE  /\ Sound(m) /\ m.hasShift = k.hasShift
           /\ \A i \in SlotOf(u) : m.seq[i] = {u.seq} /\ m.pos[i] \in Positions /\ m.pos[i] >= u.pos
           /\ \A i \in Cells \ SlotOf(u) : m.seq[i] = k.seq[i] /\ m.pos[i] = k.pos[i]
<1> DEFINE I == SlotOf(u)
           tok == [i \in I |-> u.pos + (CHOOSE j \in 1 .. u.n : u.idxs[j] = i) - 1]
           seq == [i \in I |-> {u.seq}]
           a == Assign(k, I, tok, seq)
           shift == [i \in Cells |-> IF i \in I THEN 0 ELSE a.shift[i]]
<1>1. m = [a EXCEPT !.shift = shift]
  BY DEF Put, SlotOf
<1>2. I \in SUBSET Cells
  BY SlotFacts
<1>3. ASSUME NEW i \in I PROVE tok[i] \in Positions /\ tok[i] >= u.pos /\ tok[i] # -1
  <2> DEFINE j == CHOOSE jj \in 1 .. u.n : u.idxs[jj] = i
  <2>1. j \in 1 .. u.n
    BY SlotFacts
  <2>2. tok[i] = u.pos + j - 1
    OBVIOUS
  <2> HIDE DEF j, tok
  <2> QED  BY <2>1, <2>2, SlotFacts, CacheConstants DEF Positions
<1>4. \A i \in I : /\ tok[i] \in Positions \cup {-1} /\ seq[i] \in SUBSET Seqs
                   /\ tok[i] = -1 <=> seq[i] = {}
  <2>1. \A i \in I : seq[i] \in SUBSET Seqs /\ seq[i] # {}
    BY SlotFacts
  <2> HIDE DEF tok, seq
  <2> QED  BY <2>1, <1>3
<1>5. /\ Sound(a) /\ a.hasShift = k.hasShift
      /\ a.pos = [i \in Cells |-> IF i \in I THEN tok[i] ELSE k.pos[i]]
      /\ a.seq = [i \in Cells |-> IF i \in I THEN seq[i] ELSE k.seq[i]]
  <2> DEFINE b == a
  <2>1. b = Assign(k, I, tok, seq)
    OBVIOUS
  <2> HIDE DEF tok, seq, I, b
  <2>2. /\ Sound(b) /\ b.hasShift = k.hasShift
        /\ b.pos = [i \in Cells |-> IF i \in I THEN tok[i] ELSE k.pos[i]]
        /\ b.seq = [i \in Cells |-> IF i \in I THEN seq[i] ELSE k.seq[i]]
    BY <1>2, <1>4, <2>1, AssignSound
  <2> QED  BY <2>1, <2>2
<1>6. shift \in [Cells -> Int]
  <2> HIDE DEF a, I
  <2> QED  BY <1>5 DEF Sound, CellsType
<1>7. Sound(m) /\ m.pos = a.pos /\ m.seq = a.seq /\ m.hasShift = a.hasShift
  <2> HIDE DEF a, shift
  <2> QED  BY <1>1, <1>5, <1>6, ShiftSound
<1>8. \A i \in I : seq[i] = {u.seq}
  OBVIOUS
<1> HIDE DEF a, tok, seq, shift
<1> QED  BY <1>2, <1>3, <1>5, <1>7, <1>8

\* The largest overwritten positions: -1 where nothing was overwritten.
LEMMA OverwrittenType ==
    ASSUME NEW k, Sound(k), NEW I \in SUBSET Cells
    PROVE  /\ Overwritten(k, I) \in [Seqs -> -1 .. MaxPos]
           /\ \A s \in Seqs, i \in I : s \in k.seq[i] => k.pos[i] <= Overwritten(k, I)[s]
           /\ (\A i \in I : k.seq[i] = {}) => \A s \in Seqs : Overwritten(k, I)[s] = -1
<1> DEFINE V(s) == {-1} \cup {k.pos[i] : i \in {j \in I : s \in k.seq[j]}}
<1>0. MaxPos \in Nat
  BY CacheConstants
<1>1. ASSUME NEW s \in Seqs PROVE Overwritten(k, I)[s] = Max(V(s))
  BY DEF Overwritten
<1>2. ASSUME NEW s \in Seqs
      PROVE  Max(V(s)) \in V(s) /\ Max(V(s)) \in -1 .. MaxPos /\ \A y \in V(s) : Max(V(s)) >= y
  <2>1. V(s) \in SUBSET (-1 .. MaxPos)
    <3>1. \A i \in I : k.pos[i] \in -1 .. MaxPos
      BY <1>0, SoundCell DEF Positions
    <3> QED  BY <3>1, <1>0
  <2>2. V(s) # {}
    OBVIOUS
  <2> DEFINE W == V(s)
  <2> HIDE DEF W
  <2>3. W \in SUBSET (-1 .. MaxPos) /\ W # {}
    BY <2>1, <2>2 DEF W
  <2>4. Max(W) \in W /\ \A y \in W : Max(W) >= y
    BY <1>0, <2>3, MaxOf
  <2> QED  BY <2>3, <2>4 DEF W
<1>3. \A s \in Seqs, i \in I : s \in k.seq[i] => k.pos[i] <= Overwritten(k, I)[s]
  <2> SUFFICES ASSUME NEW s \in Seqs, NEW i \in I, s \in k.seq[i]
               PROVE  k.pos[i] <= Overwritten(k, I)[s]
    OBVIOUS
  <2>1. k.pos[i] \in V(s) /\ k.pos[i] \in Int
    BY SoundCell
  <2>2. Max(V(s)) \in Int
    BY <1>0, <1>2
  <2> HIDE DEF V
  <2> QED  BY <1>1, <1>2, <2>1, <2>2
<1>4. ASSUME \A i \in I : k.seq[i] = {}, NEW s \in Seqs PROVE Overwritten(k, I)[s] = -1
  <2>1. V(s) = {-1}
    BY <1>4
  <2> HIDE DEF V
  <2> QED  BY <1>1, <1>2, <2>1
<1>5. Overwritten(k, I) = [s \in Seqs |-> Overwritten(k, I)[s]]
  BY DEF Overwritten
<1> HIDE DEF V
<1> QED  BY <1>1, <1>2, <1>3, <1>4, <1>5

\* The same as a set.
SoundCells == {k \in CellsType : Consistent(k)}

\* One sequence of Purge.
PurgeOne(k, rm, s) == IF rm[s] # -1 THEN SeqRm(k, s, 0, rm[s] + 1) ELSE k

\* h holds the cells after each set of sequences is purged.
PurgeTrace(h, k, rm) ==
    /\ h[{}] = k
    /\ \A T \in SUBSET Seqs : T # {} =>
          \E s \in T : h[T] = PurgeOne(h[T \ {s}], rm, s)

\* The loop of apply_ubatch over the sequences has a trace.
LEMMA PurgeSteps ==
    ASSUME NEW k, Sound(k), NEW rm
    PROVE  \E h : PurgeTrace(h, k, rm) /\ h[Seqs] = Purge(k, rm)
<1> DEFINE D == SoundCells
           ch == [T \in SUBSET Seqs |-> CHOOSE x \in T : TRUE]
           g == [x \in Seqs \X D |-> PurgeOne(x[2], rm, x[1])]
           E(h) == [T \in SUBSET Seqs |->
                      IF T = {} THEN k
                      ELSE LET x == CHOOSE x \in T : TRUE
                           IN  PurgeOne(h[T \ {x}], rm, [s \in Seqs |-> s][x])]
           it == CHOOSE h : h = E(h)
<1>1. \A s \in Seqs, d \in D : g[<<s, d>>] \in D /\ g[<<s, d>>] = PurgeOne(d, rm, s)
  <2> SUFFICES ASSUME NEW s \in Seqs, NEW d \in D
               PROVE  g[<<s, d>>] \in D /\ g[<<s, d>>] = PurgeOne(d, rm, s)
    OBVIOUS
  <2>1. g[<<s, d>>] = PurgeOne(d, rm, s)
    OBVIOUS
  <2>2. Sound(d)
    BY DEF SoundCells, Sound
  <2>3. Sound(SeqRm(d, s, 0, rm[s] + 1))
    BY <2>2, SeqRmSound
  <2> HIDE DEF g
  <2> QED  BY <2>1, <2>2, <2>3 DEF PurgeOne, SoundCells, Sound
<1>2. k \in D
  BY DEF Sound, SoundCells
<1>3. Chooses(ch, Seqs)
  BY DEF Chooses
<1>4. PICK h : IsFold(h, Seqs, D, k, ch, g)
  <2>1. Closed(g, Seqs, D)
    BY <1>1 DEF Closed
  <2>2. IsFiniteSet(Seqs)
    BY CacheConstants
  <2> HIDE DEF D, g, ch
  <2> QED  BY <1>2, <1>3, <2>1, <2>2, FoldExists
<1>5. h = E(h)
  <2>1. ASSUME NEW T \in SUBSET Seqs, T # {}
        PROVE  h[T] = PurgeOne(h[T \ {CHOOSE x \in T : TRUE}], rm, CHOOSE x \in T : TRUE)
    <3> DEFINE s == CHOOSE x \in T : TRUE
    <3>1. s \in T /\ ch[T] = s
      BY <2>1
    <3> HIDE DEF s, ch, g, D
    <3>2. h[T] = g[<<s, h[T \ {s}]>>] /\ h[T \ {s}] \in D
      BY <1>4, <2>1, <3>1 DEF IsFold
    <3>3. s \in Seqs
      BY <3>1
    <3>4. h[T] = PurgeOne(h[T \ {s}], rm, s)
      BY <1>1, <3>2, <3>3
    <3> QED  BY <3>4 DEF s
  <2>2. h[{}] = k /\ DOMAIN h = SUBSET Seqs /\ h \in [SUBSET Seqs -> D]
    <3> HIDE DEF g, D, ch
    <3> QED  BY <1>4 DEF IsFold
  <2> HIDE DEF g, D, ch
  <2>3. ASSUME NEW T \in SUBSET Seqs, T # {}
        PROVE [s \in Seqs |-> s][CHOOSE x \in T : TRUE] = CHOOSE x \in T : TRUE
    BY <2>3
  <2> QED  BY <2>1, <2>2, <2>3
<1>6. it = E(it)
  <2> HIDE DEF E
  <2> QED  BY <1>5
<1>7. Purge(k, rm) = it[Seqs]
  <2>1. DOMAIN [s \in Seqs |-> s] = Seqs
    OBVIOUS
  <2> QED  BY <2>1 DEF Purge, PurgeOne, FoldFunction, FoldFunctionOnSet, MapThenFoldSet
<1> HIDE DEF it
<1>8. it[{}] = k
  BY <1>6
<1>9. ASSUME NEW T \in SUBSET Seqs, T # {}
      PROVE  \E s \in T : it[T] = PurgeOne(it[T \ {s}], rm, s)
  <2> DEFINE s == CHOOSE x \in T : TRUE
  <2>1. s \in T
    BY <1>9
  <2>2. it[T] = PurgeOne(it[T \ {s}], rm, [t \in Seqs |-> t][s])
    BY <1>6, <1>9
  <2>3. [t \in Seqs |-> t][s] = s
    BY <2>1
  <2> HIDE DEF s
  <2> QED  BY <2>1, <2>2, <2>3
<1>10. PurgeTrace(it, k, rm)
  <2> HIDE DEF E
  <2> QED  BY <1>8, <1>9 DEF PurgeTrace
<1> QED  BY <1>7, <1>10

\* m is k without the sequences T at the positions that rm names.
PurgedOf(m, k, rm, T) ==
    /\ Sound(m) /\ m.hasShift = k.hasShift
    /\ m.seq = [i \in Cells |-> {s \in k.seq[i] : s \notin T \/ k.pos[i] > rm[s]}]
    /\ m.pos = [i \in Cells |-> IF m.seq[i] = {} THEN -1 ELSE k.pos[i]]

\* One sequence of the purge.
LEMMA PurgeOneSound ==
    ASSUME NEW k, Sound(k), NEW rm \in [Seqs -> -1 .. MaxPos], NEW T \in SUBSET Seqs,
           NEW s \in T, NEW n, PurgedOf(n, k, rm, T \ {s}), NEW m, m = PurgeOne(n, rm, s)
    PROVE  PurgedOf(m, k, rm, T)
<1>1. rm[s] \in Int /\ rm[s] >= -1 /\ \A t \in Seqs : rm[t] \in Int /\ rm[t] >= -1
  BY CacheConstants
<1>2. Sound(n)
  BY DEF PurgedOf
<1>3. CASE rm[s] = -1
  <2>1. m = n
    BY <1>3 DEF PurgeOne
  <2>2. ASSUME NEW i \in Cells
        PROVE  {t \in k.seq[i] : t \notin T \ {s} \/ k.pos[i] > rm[t]}
                 = {t \in k.seq[i] : t \notin T \/ k.pos[i] > rm[t]}
    <3>1. s \in k.seq[i] => k.pos[i] > rm[s]
      BY <1>3, SoundCell
    <3> QED  BY <3>1
  <2> QED  BY <2>1, <2>2 DEF PurgedOf
<1>4. CASE rm[s] # -1
  <2> DEFINE I == InRange(n, s, 0, rm[s] + 1)
  <2>1. m = SeqRm(n, s, 0, rm[s] + 1)
    BY <1>4 DEF PurgeOne
  <2>2. /\ Sound(m) /\ m.hasShift = n.hasShift
        /\ m.pos = PosWithout(n, I, {s}) /\ m.seq = Without(n, I, {s})
    BY <1>2, <2>1, SeqRmSound
  <2>3. ASSUME NEW i \in Cells
        PROVE  /\ m.seq[i] = {t \in k.seq[i] : t \notin T \/ k.pos[i] > rm[t]}
               /\ m.pos[i] = IF m.seq[i] = {} THEN -1 ELSE k.pos[i]
    <3>1. n.seq[i] = {t \in k.seq[i] : t \notin T \ {s} \/ k.pos[i] > rm[t]}
      BY DEF PurgedOf
    <3>2. n.pos[i] = IF n.seq[i] = {} THEN -1 ELSE k.pos[i]
      BY DEF PurgedOf
    <3>3. i \in I <=> s \in n.seq[i] /\ n.pos[i] >= 0 /\ n.pos[i] < rm[s] + 1
      BY DEF InRange
    <3>4. n.pos[i] >= -1 /\ n.pos[i] \in Int /\ (n.pos[i] = -1 <=> n.seq[i] = {})
      BY <1>2, SoundCell
    <3>5. i \in I <=> s \in k.seq[i] /\ ~(k.pos[i] > rm[s])
      <4>1. s \in n.seq[i] <=> s \in k.seq[i]
        BY <3>1
      <4>2. s \in k.seq[i] => n.pos[i] = k.pos[i] /\ n.pos[i] >= 0
        BY <3>2, <3>4, <4>1
      <4> HIDE DEF I
      <4> QED  BY <1>1, <3>3, <3>4, <4>1, <4>2
    <3>6. m.seq[i] = IF i \in I THEN n.seq[i] \ {s} ELSE n.seq[i]
      <4> HIDE DEF I
      <4> QED  BY <2>2 DEF Without
    <3>7. m.pos[i] = IF i \in I /\ n.seq[i] \ {s} = {} THEN -1 ELSE n.pos[i]
      <4> HIDE DEF I
      <4> QED  BY <2>2 DEF PosWithout
    <3>8. m.seq[i] = {t \in k.seq[i] : t \notin T \/ k.pos[i] > rm[t]}
      <4> HIDE DEF I
      <4> QED  BY <3>1, <3>5, <3>6
    <3>9. m.pos[i] = -1 <=> m.seq[i] = {}
      BY <2>2, SoundCell
    <3>10. m.seq[i] # {} => n.seq[i] # {}
      <4> HIDE DEF I
      <4> QED  BY <3>6
    <3>11. m.pos[i] = -1 \/ m.pos[i] = n.pos[i]
      <4> HIDE DEF I
      <4> QED  BY <3>7
    <3> HIDE DEF I
    <3> QED  BY <3>2, <3>8, <3>9, <3>10, <3>11
  <2>4. DOMAIN m.seq = Cells /\ DOMAIN m.pos = Cells
    BY <2>2 DEF Sound, CellsType
  <2>5. m.seq = [i \in Cells |-> m.seq[i]] /\ m.pos = [i \in Cells |-> m.pos[i]]
    BY <2>2 DEF Sound, CellsType
  <2>6. m.hasShift = k.hasShift
    BY <2>2 DEF PurgedOf
  <2> HIDE DEF I
  <2> QED  BY <2>2, <2>3, <2>5, <2>6 DEF PurgedOf
<1> QED  BY <1>3, <1>4

\* The purge takes from every sequence its positions up to the overwritten one.
LEMMA PurgeSound ==
    ASSUME NEW k, Sound(k), NEW rm \in [Seqs -> -1 .. MaxPos]
    PROVE  PurgedOf(Purge(k, rm), k, rm, Seqs)
<1>1. PICK h : PurgeTrace(h, k, rm) /\ h[Seqs] = Purge(k, rm)
  BY PurgeSteps
<1> DEFINE Q == {T \in SUBSET Seqs : PurgedOf(h[T], k, rm, T)}
<1>2. ASSUME NEW T \in SUBSET Seqs, \A V \in SUBSET T : V # T => V \in Q PROVE T \in Q
  <2>1. CASE T = {}
    <3>1. h[T] = k
      BY <1>1, <2>1 DEF PurgeTrace
    <3>2. ASSUME NEW i \in Cells
          PROVE  /\ {s \in k.seq[i] : s \notin {} \/ k.pos[i] > rm[s]} = k.seq[i]
                 /\ k.pos[i] = IF k.seq[i] = {} THEN -1 ELSE k.pos[i]
      BY SoundCell
    <3>3. k.seq = [i \in Cells |-> k.seq[i]] /\ k.pos = [i \in Cells |-> k.pos[i]]
      BY DEF Sound, CellsType
    <3> QED  BY <2>1, <3>1, <3>2, <3>3 DEF PurgedOf
  <2>2. CASE T # {}
    <3>1. PICK s \in T : h[T] = PurgeOne(h[T \ {s}], rm, s)
      BY <1>1, <2>2 DEF PurgeTrace
    <3>2. PurgedOf(h[T \ {s}], k, rm, T \ {s})
      BY <1>2
    <3>3. PurgedOf(h[T], k, rm, T)
      BY <3>1, <3>2, PurgeOneSound
    <3> QED  BY <3>3
  <2> QED  BY <2>1, <2>2
<1>3. Seqs \in Q
  <2>1. IsFiniteSet(Seqs)
    BY CacheConstants
  <2> HIDE DEF Q
  <2>2. \A T \in SUBSET Seqs : T \in Q
    BY <1>2, <2>1, SubsetInduction
  <2> QED  BY <2>2
<1> QED  BY <1>1, <1>3

\* apply_ubatch leaves the bookkeeping right; what it leaves is what is put, purged.
LEMMA ApplySound ==
    ASSUME NEW k, Sound(k), NEW u \in Slotted, NEW m, m = ApplyUbatch(k, u)
    PROVE  \E n : /\ PurgedOf(n, Put(k, u), Overwritten(k, SlotOf(u)), Seqs)
                  /\ Sound(m) /\ m.pos = n.pos /\ m.seq = n.seq /\ m.hasShift = k.hasShift
<1> DEFINE p == Put(k, u)
           rm == Overwritten(k, SlotOf(u))
           n == Purge(p, rm)
<1>1. Sound(p) /\ p.hasShift = k.hasShift
  BY PutSound
<1>2. rm \in [Seqs -> -1 .. MaxPos]
  BY SlotFacts, OverwrittenType
<1>3. PurgedOf(n, p, rm, Seqs)
  <2> HIDE DEF p, rm
  <2> QED  BY <1>1, <1>2, PurgeSound
<1>4. m = [n EXCEPT !.head = u.idxs[u.n] + 1]
  BY DEF ApplyUbatch, SlotOf
<1>5. Sound(n) /\ n.hasShift = p.hasShift
  <2> HIDE DEF p, rm, n
  <2> QED  BY <1>3 DEF PurgedOf
<1>6. Sound(m) /\ m.pos = n.pos /\ m.seq = n.seq /\ m.hasShift = n.hasShift
  <2> DEFINE hd == u.idxs[u.n] + 1
  <2>1. hd \in 0 .. Size /\ m = [n EXCEPT !.head = hd]
    BY <1>4, SlotFacts
  <2> HIDE DEF p, rm, n, hd
  <2> QED  BY <1>5, <2>1, HeadSound
<1> HIDE DEF p, rm, n
<1> QED  BY <1>1, <1>3, <1>5, <1>6 DEF p, rm

\* In a free slot nothing is overwritten, so that nothing is purged.
LEMMA ApplyFree ==
    ASSUME NEW k, Sound(k), NEW u \in Slotted, NEW m, m = ApplyUbatch(k, u),
           \A i \in SlotOf(u) : k.pos[i] = -1
    PROVE  /\ \A i \in SlotOf(u) : m.seq[i] = {u.seq} /\ m.pos[i] # -1 /\ m.pos[i] >= u.pos
           /\ \A i \in Cells \ SlotOf(u) : m.seq[i] = k.seq[i] /\ m.pos[i] = k.pos[i]
<1> DEFINE p == Put(k, u)
           rm == Overwritten(k, SlotOf(u))
<1>1. PICK n : PurgedOf(n, p, rm, Seqs) /\ m.pos = n.pos /\ m.seq = n.seq
  BY ApplySound
<1>2. \A s \in Seqs : rm[s] = -1
  <2>0. SlotOf(u) \in SUBSET Cells
    BY SlotFacts
  <2>1. \A i \in SlotOf(u) : k.seq[i] = {}
    BY <2>0, SoundCell
  <2> HIDE DEF p, rm
  <2>2. \A s \in Seqs : Overwritten(k, SlotOf(u))[s] = -1
    BY <2>0, <2>1, OverwrittenType
  <2> QED  BY <2>2 DEF rm
<1>3. /\ Sound(p)
      /\ \A i \in SlotOf(u) : p.seq[i] = {u.seq} /\ p.pos[i] \in Positions /\ p.pos[i] >= u.pos
      /\ \A i \in Cells \ SlotOf(u) : p.seq[i] = k.seq[i] /\ p.pos[i] = k.pos[i]
  BY PutSound
<1> HIDE DEF p, rm
<1>4. ASSUME NEW i \in Cells PROVE n.seq[i] = p.seq[i] /\ n.pos[i] = p.pos[i]
  <2>1. p.seq[i] \in SUBSET Seqs /\ p.pos[i] \in Int /\ (p.pos[i] = -1 <=> p.seq[i] = {})
        /\ p.pos[i] >= -1
    BY <1>3, SoundCell
  <2>2. n.seq[i] = {s \in p.seq[i] : s \notin Seqs \/ p.pos[i] > rm[s]}
        /\ n.pos[i] = IF n.seq[i] = {} THEN -1 ELSE p.pos[i]
    BY <1>1 DEF PurgedOf
  <2>3. \A s \in p.seq[i] : p.pos[i] > rm[s]
    BY <1>2, <2>1
  <2> QED  BY <2>1, <2>2, <2>3
<1>5. SlotOf(u) \in SUBSET Cells
  BY SlotFacts
<1>6. ASSUME NEW i \in SlotOf(u) PROVE m.seq[i] = {u.seq} /\ m.pos[i] # -1 /\ m.pos[i] >= u.pos
  <2>1. m.seq[i] = {u.seq} /\ m.pos[i] = p.pos[i] /\ p.pos[i] \in Positions /\ p.pos[i] >= u.pos
    BY <1>1, <1>3, <1>4, <1>5
  <2> QED  BY <2>1, CellFacts
<1>7. ASSUME NEW i \in Cells \ SlotOf(u) PROVE m.seq[i] = k.seq[i] /\ m.pos[i] = k.pos[i]
  BY <1>1, <1>3, <1>4
<1> QED  BY <1>6, <1>7

-----------------------------------------------------------------------------
(* The rehearsal and its roll-back                                         *)

\* A saved copy of the cells of a slot.
Saved ==
    {o \in [I : SUBSET Cells, pos : [Cells -> Positions \cup {-1}],
            seq : [Cells -> SUBSET Seqs], head : 0 .. Size] :
        \A i \in Cells : o.pos[i] = -1 <=> o.seq[i] = {}}

\* Restored copies leave the bookkeeping right.
LEMMA RestoreSound ==
    ASSUME NEW k, Sound(k), NEW o \in Saved, NEW m, m = Restore(k, o)
    PROVE  /\ Sound(m) /\ m.hasShift = k.hasShift /\ m.head = o.head
           /\ m.pos = [i \in Cells |-> IF i \in o.I THEN o.pos[i] ELSE k.pos[i]]
           /\ m.seq = [i \in Cells |-> IF i \in o.I THEN o.seq[i] ELSE k.seq[i]]
<1> DEFINE a == Assign(k, o.I, o.pos, o.seq)
<1>1. o.I \in SUBSET Cells /\ o.head \in 0 .. Size
  BY DEF Saved
<1>2. \A i \in o.I : /\ o.pos[i] \in Positions \cup {-1} /\ o.seq[i] \in SUBSET Seqs
                     /\ o.pos[i] = -1 <=> o.seq[i] = {}
  BY DEF Saved
<1>3. m = [a EXCEPT !.head = o.head]
  BY DEF Restore
<1>0. a = Assign(k, o.I, o.pos, o.seq)
  OBVIOUS
<1> HIDE DEF a
<1>4. /\ Sound(a) /\ a.hasShift = k.hasShift
      /\ a.pos = [i \in Cells |-> IF i \in o.I THEN o.pos[i] ELSE k.pos[i]]
      /\ a.seq = [i \in Cells |-> IF i \in o.I THEN o.seq[i] ELSE k.seq[i]]
  BY <1>0, <1>1, <1>2, AssignSound
<1>5. Sound(m) /\ m.head = o.head /\ m.pos = a.pos /\ m.seq = a.seq /\ m.hasShift = a.hasShift
  BY <1>1, <1>3, <1>4, HeadSound
<1> QED  BY <1>4, <1>5

\* r is what the roll-back has restored after each saved copy.
RollTrace(r, k, saved) ==
    /\ r[0] = k
    /\ \A m \in 1 .. Len(saved) : r[m] = Restore(r[m-1], saved[Len(saved) - m + 1])

\* The roll-back has a trace.
LEMMA RollBackSteps ==
    ASSUME NEW k, Sound(k), NEW saved \in Seq(Saved)
    PROVE  \E r : RollTrace(r, k, saved) /\ r[Len(saved)] = RollBack(k, saved)
<1> DEFINE N == Len(saved)
           D == SoundCells
           rev == Reverse(saved)
           g == [x \in (1 .. N) \X D |-> Restore(x[2], rev[x[1]])]
           E(h) == [T \in SUBSET (1 .. N) |->
                      IF T = {} THEN k ELSE Restore(h[T \ {Max(T)}], rev[Max(T)])]
           it == CHOOSE h : h = E(h)
<1>0. N \in Nat /\ DOMAIN rev = 1 .. N
      /\ \A i \in 1 .. N : rev[i] = saved[N - i + 1] /\ rev[i] \in Saved
  <2>1. N \in Nat /\ \A i \in 1 .. N : N - i + 1 \in 1 .. N /\ saved[N - i + 1] \in Saved
    OBVIOUS
  <2>2. \A i \in 1 .. N : (N - i) + 1 = N - i + 1
    OBVIOUS
  <2> QED  BY <2>1, <2>2 DEF Reverse
<1>1. \A i \in 1 .. N, d \in D : g[<<i, d>>] \in D /\ g[<<i, d>>] = Restore(d, rev[i])
  <2> SUFFICES ASSUME NEW i \in 1 .. N, NEW d \in D
               PROVE  g[<<i, d>>] \in D /\ g[<<i, d>>] = Restore(d, rev[i])
    OBVIOUS
  <2>1. g[<<i, d>>] = Restore(d, rev[i])
    OBVIOUS
  <2> HIDE DEF g, rev
  <2>2. Sound(d)
    BY DEF SoundCells, Sound
  <2>3. Sound(Restore(d, rev[i]))
    BY <1>0, <2>2, RestoreSound
  <2> QED  BY <2>1, <2>3 DEF SoundCells, Sound
<1> HIDE DEF N
<1>2. PICK h : IsLeftFold(h, N, D, k, g)
  <2>1. k \in D
    BY DEF Sound, SoundCells
  <2>2. Closed(g, 1 .. N, D)
    BY <1>1 DEF Closed
  <2> HIDE DEF D, g, rev
  <2> QED  BY <1>0, <2>1, <2>2, LeftFoldExists
<1>3. h = E(h)
  <2>1. ASSUME NEW T \in SUBSET (1 .. N), T # {} PROVE h[T] = Restore(h[T \ {Max(T)}], rev[Max(T)])
    <3> HIDE DEF g, D, rev
    <3> QED  BY <1>1, <1>2, <2>1 DEF IsLeftFold
  <2> HIDE DEF g, D, rev
  <2> QED  BY <1>2, <2>1 DEF IsLeftFold
<1>4. it = E(it)
  <2> HIDE DEF E
  <2> QED  BY <1>3
<1>5. RollBack(k, saved) = it[1 .. N]
  <2>1. RollBack(k, saved) = FoldLeft(Restore, k, rev)
    BY DEF RollBack
  <2> HIDE DEF rev
  <2> QED  BY <1>0, <2>1 DEF FoldLeft, MapThenFoldSet
<1> DEFINE f == [m \in 0 .. N |-> it[1 .. m]]
<1> HIDE DEF it, rev
<1>6. f[0] = k
  <2>1. 1 .. 0 = {} /\ 0 \in 0 .. N
    BY <1>0
  <2> QED  BY <1>4, <2>1
<1>7. ASSUME NEW m \in 1 .. N PROVE f[m] = Restore(f[m-1], saved[N - m + 1])
  <2>1. m \in 0 .. N /\ m - 1 \in 0 .. N
    BY <1>0
  <2>2. it[1 .. m] = Restore(it[(1 .. m) \ {Max(1 .. m)}], rev[Max(1 .. m)])
    BY <1>4, <1>0, LeftFoldSteps
  <2>3. it[1 .. m] = Restore(it[1 .. m - 1], rev[m])
    BY <2>2, <1>0, LeftFoldSteps
  <2> QED  BY <1>0, <2>1, <2>3
<1>8. f[N] = RollBack(k, saved)
  BY <1>5, <1>0
<1>9. RollTrace(f, k, saved)
  <2> HIDE DEF f
  <2> QED  BY <1>6, <1>7 DEF RollTrace, N
<1> HIDE DEF f
<1> QED  BY <1>8, <1>9 DEF N

\* One restored slot leaves the bookkeeping right.
LEMMA RestoreKeeps ==
    \A k : \A o \in Saved :
        Sound(k) => Sound(Restore(k, o)) /\ Restore(k, o).hasShift = k.hasShift
<1> SUFFICES ASSUME NEW k, NEW o \in Saved, Sound(k)
             PROVE  Sound(Restore(k, o)) /\ Restore(k, o).hasShift = k.hasShift
  OBVIOUS
<1> QED  BY RestoreSound

\* The roll-back leaves the bookkeeping right.
LEMMA RollBackSound ==
    ASSUME NEW k, Sound(k), NEW saved \in Seq(Saved)
    PROVE  Sound(RollBack(k, saved)) /\ RollBack(k, saved).hasShift = k.hasShift
<1>1. PICK r : RollTrace(r, k, saved) /\ r[Len(saved)] = RollBack(k, saved)
  BY RollBackSteps
<1> DEFINE N == Len(saved)
           P == {m \in 0 .. N : Sound(r[m]) /\ r[m].hasShift = k.hasShift}
<1>2. N \in Nat /\ 0 \in 0 .. N
  OBVIOUS
<1>3. 0 \in P
  BY <1>1, <1>2 DEF RollTrace
<1>4. ASSUME NEW m \in 0 .. N - 1, m \in P PROVE m + 1 \in P
  <2>1. m + 1 \in 1 .. N /\ (m + 1) - 1 = m /\ N - (m + 1) + 1 \in 1 .. N /\ m + 1 \in 0 .. N
    BY <1>2
  <2>2. r[m + 1] = Restore(r[m], saved[N - (m + 1) + 1])
    BY <1>1, <2>1 DEF RollTrace
  <2>3. saved[N - (m + 1) + 1] \in Saved
    BY <2>1
  <2>5. Sound(r[m]) /\ r[m].hasShift = k.hasShift
    BY <1>4
  <2>4. Sound(r[m + 1]) /\ r[m+1].hasShift = r[m].hasShift
    <3> DEFINE r1 == r[m + 1]
               r0 == r[m]
               o == saved[N - (m + 1) + 1]
    <3>1. Sound(r0) /\ o \in Saved /\ r1 = Restore(r0, o)
      BY <2>2, <2>3, <2>5
    <3> HIDE DEF N, P, r1, r0, o
    <3>2. Sound(r1) /\ r1.hasShift = r0.hasShift
      BY ONLY <3>1, RestoreKeeps
    <3> QED  BY <3>2 DEF r1, r0
  <2> QED  BY <2>1, <2>4, <2>5
<1>5. N \in P
  <2>1. \A m \in 0 .. N - 1 : m \in P => m + 1 \in P
    BY <1>4
  <2>2. N \in 0 .. N
    BY <1>2
  <2> HIDE DEF P, N
  <2>3. \A m \in 0 .. N : m \in P
    BY <1>2, <1>3, <2>1, UpTo
  <2> QED  BY <2>2, <2>3
<1> QED  BY <1>1, <1>5

\* The states of a rehearsal.
Rehearsal == [ok : BOOLEAN, k : SoundCells, slots : Seq(Slotted), saved : Seq(Saved)]

\* b is the rehearsal a after ubatch v is placed, with the copy o of its cells.
Places(a, b, v, o) ==
    /\ \A i \in SlotOf(v) : CanUse(a.k, i)
    /\ o.I = SlotOf(v) /\ o.pos = a.k.pos /\ o.seq = a.k.seq /\ o.head = a.k.head
    /\ b.k = ApplyUbatch(a.k, v)
    /\ b.slots = Append(a.slots, v) /\ b.saved = Append(a.saved, o)

\* One step of the rehearsal places a ubatch in usable cells and saves them, or
\* changes nothing but ok.
LEMMA RehearseStep ==
    ASSUME NEW a \in Rehearsal, NEW u \in Request, NEW b, b = Rehearse(a, u)
    PROVE  /\ b \in Rehearsal
           /\ \/ ~b.ok /\ b.k = a.k /\ b.slots = a.slots /\ b.saved = a.saved
              \/ b.ok /\ a.ok /\ \E v \in Slotted, o \in Saved : Places(a, b, v, o)
<1> DEFINE idxs == FindSlot(a.k, u.n)
           v == [u EXCEPT !.idxs = idxs]
           o == [I |-> Range(idxs), pos |-> a.k.pos, seq |-> a.k.seq, head |-> a.k.head]
<1>1. Sound(a.k) /\ a.ok \in BOOLEAN /\ a.slots \in Seq(Slotted) /\ a.saved \in Seq(Saved)
      /\ a = [ok |-> a.ok, k |-> a.k, slots |-> a.slots, saved |-> a.saved]
  BY DEF Rehearsal, Sound, SoundCells
<1>2. CASE ~a.ok \/ idxs = <<>>
  <2>1. b = [a EXCEPT !.ok = FALSE]
    BY <1>2 DEF Rehearse
  <2> HIDE DEF idxs, v, o
  <2>2. b \in Rehearsal
    BY <2>1 DEF Rehearsal
  <2>3. b.k = a.k /\ b.slots = a.slots /\ b.saved = a.saved /\ ~b.ok
    BY <2>1, <1>1
  <2> QED  BY <2>2, <2>3
<1>3. CASE a.ok /\ idxs # <<>>
  <2>0. b = [ok |-> TRUE, k |-> ApplyUbatch(a.k, v), slots |-> Append(a.slots, v),
             saved |-> Append(a.saved, o)]
    BY <1>3 DEF Rehearse
  <2>1. u.n \in Nat \ {0} /\ u \in Ubatch
    BY CacheConstants DEF Request, Ubatch
  <2>2. idxs \in Seq(Cells) /\ Len(idxs) = u.n /\ \A i \in Range(idxs) : CanUse(a.k, i)
    <3> DEFINE q == idxs
    <3>1. q = FindSlot(a.k, u.n)
      OBVIOUS
    <3> HIDE DEF q, v, o
    <3>2. q = <<>> \/ (q \in Seq(Cells) /\ Len(q) = u.n /\ \A i \in Range(q) : CanUse(a.k, i))
      BY <1>1, <2>1, <3>1, SlotCells
    <3> QED  BY <1>3, <3>1, <3>2
  <2> HIDE DEF idxs
  <2>3. v.idxs = idxs /\ v.n = u.n /\ v.pos = u.pos /\ v.seq = u.seq /\ v \in Ubatch
    BY <2>1, <2>2 DEF Ubatch
  <2>4. v \in Slotted
    BY <2>2, <2>3 DEF Slotted, Request
  <2>5. SlotOf(v) = Range(idxs) /\ SlotOf(v) \in SUBSET Cells
    BY <2>3, <2>4, SlotFacts DEF SlotOf
  <2> HIDE DEF v
  <2>6. o \in Saved
    <3>1. o.I \in SUBSET Cells /\ o.pos \in [Cells -> Positions \cup {-1}]
          /\ o.seq \in [Cells -> SUBSET Seqs] /\ o.head \in 0 .. Size
      BY <1>1, <2>5 DEF Sound, CellsType
    <3>2. \A i \in Cells : o.pos[i] = -1 <=> o.seq[i] = {}
      BY <1>1, SoundCell
    <3> QED  BY <3>1, <3>2 DEF Saved
  <2>7. o.I = SlotOf(v) /\ o.pos = a.k.pos /\ o.seq = a.k.seq /\ o.head = a.k.head
    BY <2>5
  <2> HIDE DEF o
  <2>8. ApplyUbatch(a.k, v) \in SoundCells
    <3>1. Sound(ApplyUbatch(a.k, v))
      BY <1>1, <2>4, ApplySound
    <3> QED  BY <3>1 DEF SoundCells, Sound
  <2>9. Append(a.slots, v) \in Seq(Slotted) /\ Append(a.saved, o) \in Seq(Saved)
    BY <1>1, <2>4, <2>6
  <2>10. b \in Rehearsal
    BY <2>0, <2>8, <2>9 DEF Rehearsal
  <2>11. Places(a, b, v, o)
    BY <2>0, <2>2, <2>5, <2>7 DEF Places
  <2>12. b.ok
    BY <2>0
  <2> QED  BY <1>3, <2>4, <2>6, <2>10, <2>11, <2>12
<1> QED  BY <1>1, <1>2, <1>3

\* h is the rehearsal after each ubatch.
RehearsalTrace(h, k, ubatches) ==
    /\ h[0] = [ok |-> TRUE, k |-> k, slots |-> <<>>, saved |-> <<>>]
    /\ \A m \in 1 .. Len(ubatches) : h[m] = Rehearse(h[m-1], ubatches[m])

\* The rehearsal has a trace, and prepare rolls its end back.
LEMMA RehearsalSteps ==
    ASSUME NEW k, Sound(k), NEW ubatches \in Seq(Request)
    PROVE  \E h : /\ RehearsalTrace(h, k, ubatches)
                  /\ Prepare(k, ubatches) =
                       LET end == h[Len(ubatches)]
                       IN  [ok |-> end.ok, slots |-> end.slots, k |-> RollBack(end.k, end.saved)]
<1> DEFINE N == Len(ubatches)
           D == Rehearsal
           base == [ok |-> TRUE, k |-> k, slots |-> <<>>, saved |-> <<>>]
           g == [x \in (1 .. N) \X D |-> Rehearse(x[2], ubatches[x[1]])]
           E(h) == [T \in SUBSET (1 .. N) |->
                      IF T = {} THEN base ELSE Rehearse(h[T \ {Max(T)}], ubatches[Max(T)])]
           it == CHOOSE h : h = E(h)
<1>0. N \in Nat /\ DOMAIN ubatches = 1 .. N /\ \A i \in 1 .. N : ubatches[i] \in Request
  OBVIOUS
<1>1. \A i \in 1 .. N, d \in D : g[<<i, d>>] \in D /\ g[<<i, d>>] = Rehearse(d, ubatches[i])
  <2> SUFFICES ASSUME NEW i \in 1 .. N, NEW d \in D
               PROVE  g[<<i, d>>] \in D /\ g[<<i, d>>] = Rehearse(d, ubatches[i])
    OBVIOUS
  <2>1. g[<<i, d>>] = Rehearse(d, ubatches[i])
    OBVIOUS
  <2>2. Rehearse(d, ubatches[i]) \in D
    BY <1>0, RehearseStep
  <2> HIDE DEF g
  <2> QED  BY <2>1, <2>2
<1> HIDE DEF N
<1>2. PICK h : IsLeftFold(h, N, D, base, g)
  <2>1. base \in D
    <3>1. k \in SoundCells
      BY DEF Sound, SoundCells
    <3> QED  BY <3>1 DEF Rehearsal
  <2>2. Closed(g, 1 .. N, D)
    BY <1>1 DEF Closed
  <2> HIDE DEF D, g, base
  <2> QED  BY <1>0, <2>1, <2>2, LeftFoldExists
<1>3. h = E(h)
  <2>1. ASSUME NEW T \in SUBSET (1 .. N), T # {} PROVE h[T] = Rehearse(h[T \ {Max(T)}], ubatches[Max(T)])
    <3> HIDE DEF g, D, base
    <3> QED  BY <1>1, <1>2, <2>1 DEF IsLeftFold
  <2> HIDE DEF g, D, base
  <2> QED  BY <1>2, <2>1 DEF IsLeftFold
<1>4. it = E(it)
  <2> HIDE DEF E
  <2> QED  BY <1>3
<1>5. Prepare(k, ubatches) =
        LET end == it[1 .. N]
        IN  [ok |-> end.ok, slots |-> end.slots, k |-> RollBack(end.k, end.saved)]
  BY <1>0 DEF Prepare, FoldLeft, MapThenFoldSet
<1> DEFINE f == [m \in 0 .. N |-> it[1 .. m]]
<1> HIDE DEF it
<1>6. f[0] = base
  <2>1. 1 .. 0 = {} /\ 0 \in 0 .. N
    BY <1>0
  <2> QED  BY <1>4, <2>1
<1>7. ASSUME NEW m \in 1 .. N PROVE f[m] = Rehearse(f[m-1], ubatches[m])
  <2>1. m \in 0 .. N /\ m - 1 \in 0 .. N
    BY <1>0
  <2>2. it[1 .. m] = Rehearse(it[(1 .. m) \ {Max(1 .. m)}], ubatches[Max(1 .. m)])
    BY <1>4, <1>0, LeftFoldSteps
  <2>3. it[1 .. m] = Rehearse(it[1 .. m - 1], ubatches[m])
    BY <2>2, <1>0, LeftFoldSteps
  <2> QED  BY <2>1, <2>3
<1>8. f[N] = it[1 .. N]
  BY <1>0
<1>9. RehearsalTrace(f, k, ubatches)
  <2> HIDE DEF f
  <2> QED  BY <1>6, <1>7 DEF RehearsalTrace, N
<1> HIDE DEF f
<1> QED  BY <1>5, <1>8, <1>9 DEF N

\* The slots of the ubatches q are free, and no two share a cell.
FreeIn(q, k) == \A j \in 1 .. Len(q) : \A i \in SlotOf(q[j]) : k.pos[i] = -1
Disjoint(q) == \A j, l \in 1 .. Len(q) : j < l => SlotOf(q[j]) \cap SlotOf(q[l]) = {}

Contents(k) == [pos |-> k.pos, seq |-> k.seq, head |-> k.head]

\* What the cells held before the rehearsal placed ubatch j.
Before(a, j) == IF j \in 1 .. Len(a.saved) THEN Contents(a.saved[j]) ELSE Contents(a.k)

\* The saved copies lead from the cells of the rehearsal back to those of k.
Chain(a, k) ==
    /\ Before(a, 1) = Contents(k)
    /\ \A j \in 1 .. Len(a.saved) : \A i \in Cells \ a.saved[j].I :
          /\ Before(a, j).pos[i] = Before(a, j + 1).pos[i]
          /\ Before(a, j).seq[i] = Before(a, j + 1).seq[i]

\* What a rehearsal over cells k has reached, without sliding window.
Rehearsed(a, k) ==
    /\ Chain(a, k)
    /\ FreeIn(a.slots, k) /\ Disjoint(a.slots)
    /\ \A j \in 1 .. Len(a.slots) : \A i \in SlotOf(a.slots[j]) : a.k.pos[i] # -1
    /\ \A i \in Cells : k.pos[i] # -1 => a.k.pos[i] # -1

\* Without sliding window every step of the rehearsal keeps the copies a chain, the
\* slots free and apart.
LEMMA RehearsedStep ==
    ASSUME nSwa = 0, NEW k, NEW a \in Rehearsal, Rehearsed(a, k),
           NEW u \in Request, NEW b, b = Rehearse(a, u)
    PROVE  Rehearsed(b, k)
<1>1. CASE b.k = a.k /\ b.slots = a.slots /\ b.saved = a.saved
  <2>1. \A j : Before(b, j) = Before(a, j)
    BY <1>1 DEF Before
  <2>2. Chain(b, k)
    BY <1>1, <2>1 DEF Chain, Rehearsed
  <2> QED  BY <1>1, <2>2 DEF Rehearsed
<1>2. ASSUME NEW v \in Slotted, NEW o \in Saved, Places(a, b, v, o)
      PROVE  Rehearsed(b, k)
  <2>12. /\ \A i \in SlotOf(v) : CanUse(a.k, i)
        /\ o.I = SlotOf(v) /\ o.pos = a.k.pos /\ o.seq = a.k.seq /\ o.head = a.k.head
        /\ b.k = ApplyUbatch(a.k, v)
        /\ b.slots = Append(a.slots, v) /\ b.saved = Append(a.saved, o)
    BY <1>2 DEF Places
  <2> DEFINE N == Len(a.saved)
             L == Len(a.slots)
  <2>0. /\ Sound(a.k) /\ a.saved \in Seq(Saved) /\ a.slots \in Seq(Slotted)
        /\ N \in Nat /\ L \in Nat
    BY DEF Rehearsal, SoundCells, Sound
  <2>1. \A i \in SlotOf(v) : a.k.pos[i] = -1
    BY <2>12 DEF CanUse, Masked
  <2>2. /\ \A i \in SlotOf(v) : b.k.seq[i] = {v.seq} /\ b.k.pos[i] # -1
        /\ \A i \in Cells \ SlotOf(v) : b.k.seq[i] = a.k.seq[i] /\ b.k.pos[i] = a.k.pos[i]
    BY <2>12, <2>0, <2>1, ApplyFree
  <2>3. /\ Len(b.saved) = N + 1 /\ b.saved[N + 1] = o
        /\ \A j \in 1 .. N : b.saved[j] = a.saved[j]
    BY <2>12, <2>0
  <2>4. /\ Len(b.slots) = L + 1 /\ b.slots[L + 1] = v
        /\ \A j \in 1 .. L : b.slots[j] = a.slots[j] /\ a.slots[j] \in Slotted
    BY <2>12, <2>0
  <2>5. Contents(o) = Contents(a.k)
    BY <2>12 DEF Contents
  <2> HIDE DEF N, L
  <2>6. Chain(b, k)
    <3>1. ASSUME NEW j \in 1 .. N + 1 PROVE Before(b, j) = Before(a, j)
      <4>1. CASE j = N + 1
        <5>1. j \in 1 .. Len(b.saved) /\ j \notin 1 .. Len(a.saved)
          BY <2>0, <2>3, <4>1 DEF N
        <5> QED  BY <2>3, <2>5, <4>1, <5>1 DEF Before
      <4>2. CASE j # N + 1
        <5>1. j \in 1 .. N /\ j \in 1 .. Len(b.saved) /\ j \in 1 .. Len(a.saved)
          BY <2>0, <2>3, <4>2 DEF N
        <5> QED  BY <2>3, <5>1 DEF Before
      <4> QED  BY <4>1, <4>2
    <3>2. Before(b, N + 2) = Contents(b.k) /\ Before(a, N + 1) = Contents(a.k)
      <4>1. N + 2 \notin 1 .. Len(b.saved) /\ N + 1 \notin 1 .. Len(a.saved)
        BY <2>0, <2>3 DEF N
      <4> QED  BY <4>1 DEF Before
    <3>3. Before(b, 1) = Contents(k)
      <4>1. 1 \in 1 .. N + 1
        BY <2>0
      <4> QED  BY <3>1, <4>1 DEF Rehearsed, Chain
    <3>4. ASSUME NEW j \in 1 .. Len(b.saved), NEW i \in Cells \ b.saved[j].I
          PROVE  /\ Before(b, j).pos[i] = Before(b, j + 1).pos[i]
                 /\ Before(b, j).seq[i] = Before(b, j + 1).seq[i]
      <4>1. j \in 1 .. N + 1
        BY <2>3
      <4>2. CASE j = N + 1
        <5>1. i \in Cells \ SlotOf(v)
          BY <2>12, <2>3, <4>2
        <5>2. Before(b, j) = Contents(a.k) /\ Before(b, j + 1) = Contents(b.k)
          <6>1. (N + 1) + 1 = N + 2
            BY <2>0
          <6> QED  BY <3>1, <3>2, <4>1, <4>2, <6>1
        <5>3. b.k.seq[i] = a.k.seq[i] /\ b.k.pos[i] = a.k.pos[i]
          BY <2>2, <5>1
        <5> QED  BY <5>2, <5>3 DEF Contents
      <4>3. CASE j # N + 1
        <5>1. j \in 1 .. N /\ j + 1 \in 1 .. N + 1
          BY <2>0, <4>1, <4>3
        <5>2. i \in Cells \ a.saved[j].I
          BY <2>3, <5>1
        <5>3. /\ Before(a, j).pos[i] = Before(a, j + 1).pos[i]
              /\ Before(a, j).seq[i] = Before(a, j + 1).seq[i]
          BY <5>1, <5>2 DEF Rehearsed, Chain, N
        <5> QED  BY <3>1, <4>1, <5>1, <5>3
      <4> QED  BY <4>2, <4>3
    <3> QED  BY <3>3, <3>4 DEF Chain
  <2>7. \A i \in Cells : k.pos[i] # -1 => b.k.pos[i] # -1
    <3>1. \A i \in Cells : k.pos[i] # -1 => a.k.pos[i] # -1
      BY DEF Rehearsed
    <3> QED  BY <2>2, <3>1
  <2>8. ASSUME NEW j \in 1 .. Len(b.slots), NEW i \in SlotOf(b.slots[j])
        PROVE  k.pos[i] = -1 /\ b.k.pos[i] # -1 /\ i \in Cells
    <3>1. CASE j = L + 1
      <4>1. i \in SlotOf(v) /\ i \in Cells
        BY <2>4, <3>1, SlotFacts
      <4>2. k.pos[i] = -1
        BY <2>1, <4>1 DEF Rehearsed
      <4> QED  BY <2>2, <4>1, <4>2
    <3>2. CASE j # L + 1
      <4>1. j \in 1 .. L
        BY <2>0, <2>4, <3>2
      <4>2. i \in SlotOf(a.slots[j]) /\ i \in Cells
        BY <2>4, <4>1, SlotFacts
      <4>3. k.pos[i] = -1 /\ a.k.pos[i] # -1
        BY <4>1, <4>2 DEF Rehearsed, FreeIn, L
      <4>4. i \notin SlotOf(v)
        BY <2>1, <4>3
      <4> QED  BY <2>2, <4>2, <4>3, <4>4
    <3> QED  BY <3>1, <3>2
  <2>9. ASSUME NEW j \in 1 .. Len(b.slots), NEW l \in 1 .. Len(b.slots), j < l
        PROVE  SlotOf(b.slots[j]) \cap SlotOf(b.slots[l]) = {}
    <3>1. j \in 1 .. L
      BY <2>0, <2>4, <2>9
    <3>2. CASE l = L + 1
      <4>1. \A i \in SlotOf(a.slots[j]) : a.k.pos[i] # -1
        BY <3>1 DEF Rehearsed, L
      <4> QED  BY <2>1, <2>4, <3>1, <3>2, <4>1
    <3>3. CASE l # L + 1
      <4>1. l \in 1 .. L
        BY <2>0, <2>4, <3>3
      <4>2. SlotOf(a.slots[j]) \cap SlotOf(a.slots[l]) = {}
        BY <2>9, <3>1, <4>1 DEF Rehearsed, Disjoint, L
      <4> QED  BY <2>4, <3>1, <4>1, <4>2
    <3> QED  BY <3>2, <3>3
  <2> QED  BY <2>6, <2>7, <2>8, <2>9 DEF Rehearsed, FreeIn, Disjoint
<1>3. \/ b.k = a.k /\ b.slots = a.slots /\ b.saved = a.saved
      \/ \E v \in Slotted, o \in Saved : Places(a, b, v, o)
  BY RehearseStep
<1> QED  BY <1>1, <1>2, <1>3

\* A roll-back along a chain of copies restores positions, sequences and head.
LEMMA RollBackChain ==
    ASSUME NEW a \in Rehearsal, NEW k, Chain(a, k), NEW m, m = RollBack(a.k, a.saved)
    PROVE  m.pos = k.pos /\ m.seq = k.seq /\ m.head = k.head
<1> DEFINE N == Len(a.saved)
<1>0. Sound(a.k) /\ a.saved \in Seq(Saved) /\ N \in Nat
  BY DEF Rehearsal, SoundCells, Sound
<1>1. PICK r : RollTrace(r, a.k, a.saved) /\ r[N] = m
  BY <1>0, RollBackSteps
<1> DEFINE P == {j \in 0 .. N : Sound(r[j]) /\ Contents(r[j]) = Before(a, N + 1 - j)}
<1> HIDE DEF N
<1>2. 0 \in P
  <2>1. Before(a, N + 1) = Contents(a.k)
    BY <1>0 DEF Before, N
  <2>2. r[0] = a.k
    BY <1>1 DEF RollTrace
  <2>3. 0 \in 0 .. N /\ N + 1 - 0 = N + 1
    BY <1>0
  <2> QED  BY <1>0, <2>1, <2>2, <2>3
<1>3. ASSUME NEW j \in 0 .. N - 1, j \in P PROVE j + 1 \in P
  <2> DEFINE l == N - j
             o == a.saved[l]
             r0 == r[j]
             r1 == r[j + 1]
  <2>1. /\ j + 1 \in 1 .. N /\ (j + 1) - 1 = j /\ N - (j + 1) + 1 = l /\ l \in 1 .. N
        /\ N + 1 - j = l + 1 /\ N + 1 - (j + 1) = l /\ j + 1 \in 0 .. N
    BY <1>0
  <2>2. r1 = Restore(r0, o)
    BY <1>1, <2>1 DEF RollTrace, N
  <2>3. o \in Saved
    BY <1>0, <2>1 DEF N
  <2>4. Sound(r0) /\ Contents(r0) = Before(a, l + 1)
    BY <1>3, <2>1
  <2>5. Before(a, l) = Contents(o)
    BY <2>1 DEF Before, N
  <2>6. \A i \in Cells \ o.I : /\ Before(a, l).pos[i] = Before(a, l + 1).pos[i]
                               /\ Before(a, l).seq[i] = Before(a, l + 1).seq[i]
    BY <2>1 DEF Chain, N
  <2> HIDE DEF l, o, r0, r1
  <2>7. /\ Sound(r1) /\ r1.head = o.head
        /\ r1.pos = [i \in Cells |-> IF i \in o.I THEN o.pos[i] ELSE r0.pos[i]]
        /\ r1.seq = [i \in Cells |-> IF i \in o.I THEN o.seq[i] ELSE r0.seq[i]]
    BY <2>2, <2>3, <2>4, RestoreSound
  <2>8. \A i \in Cells \ o.I : o.pos[i] = r0.pos[i] /\ o.seq[i] = r0.seq[i]
    BY <2>4, <2>5, <2>6 DEF Contents
  <2>9. r1.pos = o.pos /\ r1.seq = o.seq
    <3>1. o.pos = [i \in Cells |-> o.pos[i]] /\ o.seq = [i \in Cells |-> o.seq[i]]
      BY <2>3 DEF Saved
    <3> QED  BY <2>7, <2>8, <3>1
  <2>10. Contents(r1) = Before(a, l)
    BY <2>5, <2>7, <2>9 DEF Contents
  <2> QED  BY <2>1, <2>7, <2>10 DEF r1
<1>4. N \in P
  <2>1. \A j \in 0 .. N - 1 : j \in P => j + 1 \in P
    BY <1>3
  <2>2. N \in 0 .. N
    BY <1>0
  <2> HIDE DEF P
  <2>3. \A j \in 0 .. N : j \in P
    BY <1>0, <1>2, <2>1, UpTo
  <2> QED  BY <2>2, <2>3
<1>5. Contents(m) = Contents(k)
  <2>1. N + 1 - N = 1
    BY <1>0
  <2> QED  BY <1>1, <1>4, <2>1 DEF Chain
<1> QED  BY <1>5 DEF Contents

\* prepare leaves the bookkeeping right; without sliding window it changes no cell,
\* and the slots it found are free and apart.
LEMMA PrepareSound ==
    ASSUME NEW k, Sound(k), NEW ubatches \in Seq(Request), NEW p, p = Prepare(k, ubatches)
    PROVE  /\ Sound(p.k) /\ p.ok \in BOOLEAN /\ p.slots \in Seq(Slotted)
           /\ nSwa = 0 => /\ p.k.pos = k.pos /\ p.k.seq = k.seq /\ p.k.head = k.head
                          /\ FreeIn(p.slots, k) /\ Disjoint(p.slots)
<1> DEFINE N == Len(ubatches)
<1>0. N \in Nat /\ \A i \in 1 .. N : ubatches[i] \in Request
  OBVIOUS
<1>1. PICK h : /\ RehearsalTrace(h, k, ubatches)
               /\ p = LET end == h[N]
                      IN  [ok |-> end.ok, slots |-> end.slots, k |-> RollBack(end.k, end.saved)]
  BY RehearsalSteps
<1> DEFINE P == {m \in 0 .. N : h[m] \in Rehearsal /\ (nSwa = 0 => Rehearsed(h[m], k))}
           base == [ok |-> TRUE, k |-> k, slots |-> <<>>, saved |-> <<>>]
<1> HIDE DEF N
<1>2. 0 \in P
  <2>1. h[0] = base /\ 0 \in 0 .. N
    BY <1>0, <1>1 DEF RehearsalTrace
  <2>2. base \in Rehearsal
    <3>1. k \in SoundCells
      BY DEF Sound, SoundCells
    <3> QED  BY <3>1 DEF Rehearsal
  <2>3. base.k = k /\ 1 .. Len(base.saved) = {} /\ 1 .. Len(base.slots) = {}
    OBVIOUS
  <2> HIDE DEF base
  <2>4. Rehearsed(base, k)
    <3>1. Before(base, 1) = Contents(k)
      BY <2>3 DEF Before
    <3> QED  BY <2>3, <3>1 DEF Rehearsed, Chain, FreeIn, Disjoint
  <2> QED  BY <2>1, <2>2, <2>4
<1>3. ASSUME NEW m \in 0 .. N - 1, m \in P PROVE m + 1 \in P
  <2> DEFINE a == h[m]
             b == h[m + 1]
             u == ubatches[m + 1]
  <2>1. m + 1 \in 1 .. N /\ (m + 1) - 1 = m /\ m + 1 \in 0 .. N
    BY <1>0
  <2>2. b = Rehearse(a, u) /\ u \in Request
    BY <1>0, <1>1, <2>1 DEF RehearsalTrace, N
  <2>3. a \in Rehearsal /\ (nSwa = 0 => Rehearsed(a, k))
    BY <1>3
  <2> HIDE DEF a, b, u
  <2>4. b \in Rehearsal
    BY <2>2, <2>3, RehearseStep
  <2>5. nSwa = 0 => Rehearsed(b, k)
    BY <2>2, <2>3, RehearsedStep
  <2> QED  BY <2>1, <2>4, <2>5 DEF b
<1>4. N \in P
  <2>1. \A m \in 0 .. N - 1 : m \in P => m + 1 \in P
    BY <1>3
  <2>2. N \in 0 .. N
    BY <1>0
  <2> HIDE DEF P
  <2>3. \A m \in 0 .. N : m \in P
    BY <1>0, <1>2, <2>1, UpTo
  <2> QED  BY <2>2, <2>3
<1> DEFINE a == h[N]
<1>5. a \in Rehearsal /\ (nSwa = 0 => Rehearsed(a, k))
  BY <1>4
<1>6. p.ok = a.ok /\ p.slots = a.slots /\ p.k = RollBack(a.k, a.saved)
  BY <1>1
<1> HIDE DEF a
<1>7. Sound(a.k) /\ a.ok \in BOOLEAN /\ a.slots \in Seq(Slotted) /\ a.saved \in Seq(Saved)
  BY <1>5 DEF Rehearsal, Sound, SoundCells
<1>8. Sound(p.k)
  BY <1>6, <1>7, RollBackSound
<1>9. nSwa = 0 => p.k.pos = k.pos /\ p.k.seq = k.seq /\ p.k.head = k.head
  BY <1>5, <1>6, RollBackChain DEF Rehearsed
<1> QED  BY <1>5, <1>6, <1>7, <1>8, <1>9 DEF Rehearsed

-----------------------------------------------------------------------------
(* The invariant                                                           *)

\* The K-shift changes shifts only.
LEMMA ShiftedSound ==
    ASSUME NEW k, Sound(k), NEW m, m = Shifted(k)
    PROVE  Sound(m) /\ m.pos = k.pos /\ m.seq = k.seq /\ m.head = k.head
<1> DEFINE shift == [i \in Cells |-> 0]
<1>1. m = [k EXCEPT !.shift = shift, !.hasShift = FALSE]
  BY DEF Shifted
<1>2. shift \in [Cells -> Int]
  OBVIOUS
<1> HIDE DEF shift
<1>3. /\ m.pos = k.pos /\ m.seq = k.seq /\ m.head = k.head
      /\ m.used = k.used /\ m.count = k.count
  BY <1>1 DEF Sound, CellsType
<1>4. m \in CellsType
  BY <1>1, <1>2 DEF Sound, CellsType
<1> QED  BY <1>3, <1>4 DEF Sound, Consistent

\* split_simple: ubatches of 1 to NUbatch tokens whose positions are in range.
LEMMA SplitRequests ==
    ASSUME NEW s \in Seqs, NEW p \in Nat, NEW n \in Nat \ {0}, p + n - 1 <= MaxPos
    PROVE  Split(s, p, n) \in Seq(Request)
<1> DEFINE b == NUbatch
           N == (n + b - 1) \div b
           e(j) == [seq |-> s, pos |-> p + (j - 1) * b, idxs |-> <<>>,
                    n |-> Min({b, n - (j - 1) * b})]
<1>0. b \in Nat \ {0} /\ n + b - 1 \in Nat /\ MaxPos \in Nat
  BY CacheConstants
<1>1. N \in Nat /\ b * N <= n + b - 1
  <2> HIDE DEF b
  <2> QED  BY <1>0
<1>2. ASSUME NEW j \in 1 .. N PROVE e(j) \in Request
  <2> DEFINE r == n - (j - 1) * b
             q == (j - 1) * b
  <2> HIDE DEF N, b
  <2>1. q \in Nat /\ q <= n - 1
    <3>1. j - 1 \in Nat /\ N - j \in Nat /\ N = j + (N - j) /\ j = (j - 1) + 1
      BY <1>1
    <3>2. b * N = b * (j - 1) + b + b * (N - j)
      BY <1>0, <3>1
    <3>3. b * (N - j) \in Nat /\ b * (j - 1) \in Nat
      BY <1>0, <3>1
    <3>4. b * (j - 1) = q
      BY <1>0, <3>1
    <3> DEFINE x == b * (N - j)
               y == b * (j - 1)
               z == b * N
    <3> HIDE DEF x, y, z, q
    <3>5. z = y + b + x /\ x \in Nat /\ y \in Nat /\ y = q /\ z <= n + b - 1
      BY <1>1, <3>2, <3>3, <3>4 DEF x, y, z
    <3> QED  BY <1>0, <3>5
  <2>2. r = n - q
    OBVIOUS
  <2> HIDE DEF r, q
  <2>3. r \in Nat \ {0}
    BY <2>1, <2>2
  <2>4. Min({b, r}) = IF b <= r THEN b ELSE r
    <3>1. \E x \in {b, r} : \A y \in {b, r} : x =< y
      BY <1>0, <2>3
    <3>2. Min({b, r}) \in {b, r} /\ \A y \in {b, r} : Min({b, r}) =< y
      BY <3>1 DEF Min
    <3> QED  BY <1>0, <2>3, <3>2
  <2>5. e(j) = [seq |-> s, pos |-> p + q, idxs |-> <<>>, n |-> Min({b, r})]
    BY DEF q, r
  <2>6. Min({b, r}) \in 1 .. b /\ Min({b, r}) <= r
    BY <1>0, <2>3, <2>4
  <2>7. p + q \in Positions /\ p + q + Min({b, r}) - 1 <= MaxPos
    BY <1>0, <2>1, <2>2, <2>6 DEF Positions
  <2>8. <<>> \in Seq(Cells)
    OBVIOUS
  <2> DEFINE t == Min({b, r})
             w == p + q
  <2> HIDE DEF t, w
  <2>9. e(j) = [seq |-> s, pos |-> w, idxs |-> <<>>, n |-> t]
    BY <2>5 DEF t, w
  <2>10. t \in 1 .. NUbatch /\ w \in Positions /\ w + t - 1 <= MaxPos
    BY <2>6, <2>7 DEF t, w, b
  <2> HIDE DEF e
  <2> QED  BY <2>8, <2>9, <2>10 DEF Request, Ubatch
<1>3. Split(s, p, n) = [j \in 1 .. N |-> e(j)]
  BY DEF Split
<1> HIDE DEF N, e
<1> QED  BY <1>1, <1>2, <1>3

\* seq_pos_max is a position or -1.
LEMMA LastPosition ==
    ASSUME NEW k, NEW s
    PROVE  SeqPosMax(k, s) \in -1 .. MaxPos
<1>1. CASE Present(k, s) = {}
  BY <1>1, CacheConstants DEF SeqPosMax
<1>2. CASE Present(k, s) # {}
  <2> DEFINE V == Present(k, s)
  <2>1. V \in SUBSET (-1 .. MaxPos) /\ MaxPos \in Nat
    BY CacheConstants DEF Present, Positions
  <2>2. SeqPosMax(k, s) = Max(V)
    BY <1>2 DEF SeqPosMax
  <2> HIDE DEF V
  <2>3. Max(V) \in V
    BY <1>2, <2>1, MaxOf DEF V
  <2> QED  BY <2>1, <2>2, <2>3
<1> QED  BY <1>1, <1>2

\* decode up to the loop over the ubatches: the bookkeeping is right, and without
\* sliding window the cells are as before, the slots free and apart.
LEMMA BeginSound ==
    ASSUME Sound(c), NEW s \in Seqs, NEW n \in Nat \ {0}, NEW p \in Nat, NEW shifts,
           DecodeBegin(s, p, n, shifts)
    PROVE  /\ Sound(c') /\ todo' \in Seq(Slotted)
           /\ status' \in {"busy", "noslot"}
           /\ nSwa = 0 => /\ c'.pos = c.pos /\ c'.seq = c.seq /\ c'.head = c.head
                          /\ FreeIn(todo', c) /\ Disjoint(todo')
<1> DEFINE q == Split(s, p, n)
           k1 == IF shifts[1] THEN Shifted(c) ELSE c
           p1 == Prepare(k1, q)
           again == ~p1.ok /\ p1.k.hasShift
           k2 == IF shifts[2] THEN Shifted(p1.k) ELSE p1.k
           p2 == IF again THEN Prepare(k2, q) ELSE p1
<1>0. p + n - 1 <= MaxPos
  BY CacheConstants DEF DecodeBegin, Positions
<1>1. q \in Seq(Request)
  BY <1>0, SplitRequests
<1>2. /\ c' = p2.k /\ todo' = IF p2.ok THEN p2.slots ELSE <<>>
      /\ status' = IF p2.ok THEN "busy" ELSE "noslot"
  BY DEF DecodeBegin
<1>3. Sound(k1) /\ k1.pos = c.pos /\ k1.seq = c.seq /\ k1.head = c.head
  BY ShiftedSound
<1> HIDE DEF q
<1>4. /\ Sound(p1.k) /\ p1.ok \in BOOLEAN /\ p1.slots \in Seq(Slotted)
      /\ nSwa = 0 => /\ p1.k.pos = k1.pos /\ p1.k.seq = k1.seq /\ p1.k.head = k1.head
                     /\ FreeIn(p1.slots, k1) /\ Disjoint(p1.slots)
  <2> DEFINE pp == p1
  <2>1. pp = Prepare(k1, q)
    OBVIOUS
  <2> HIDE DEF pp, k1
  <2>2. /\ Sound(pp.k) /\ pp.ok \in BOOLEAN /\ pp.slots \in Seq(Slotted)
        /\ nSwa = 0 => /\ pp.k.pos = k1.pos /\ pp.k.seq = k1.seq /\ pp.k.head = k1.head
                       /\ FreeIn(pp.slots, k1) /\ Disjoint(pp.slots)
    BY <1>1, <1>3, <2>1, PrepareSound
  <2> QED  BY <2>2 DEF pp
<1> HIDE DEF p1, k1
<1>5. Sound(k2) /\ k2.pos = p1.k.pos /\ k2.seq = p1.k.seq /\ k2.head = p1.k.head
  BY <1>4, ShiftedSound
<1> HIDE DEF k2
<1> DEFINE p3 == Prepare(k2, q)
<1>6. /\ Sound(p3.k) /\ p3.ok \in BOOLEAN /\ p3.slots \in Seq(Slotted)
      /\ nSwa = 0 => /\ p3.k.pos = k2.pos /\ p3.k.seq = k2.seq /\ p3.k.head = k2.head
                     /\ FreeIn(p3.slots, k2) /\ Disjoint(p3.slots)
  <2>1. p3 = Prepare(k2, q)
    OBVIOUS
  <2> HIDE DEF p3
  <2> QED  BY <1>1, <1>5, <2>1, PrepareSound
<1>7. p2 = IF again THEN p3 ELSE p1
  OBVIOUS
<1> HIDE DEF p2, p3, again
<1>8. /\ Sound(p2.k) /\ p2.ok \in BOOLEAN /\ p2.slots \in Seq(Slotted)
      /\ nSwa = 0 => /\ p2.k.pos = c.pos /\ p2.k.seq = c.seq /\ p2.k.head = c.head
                     /\ FreeIn(p2.slots, c) /\ Disjoint(p2.slots)
  BY <1>3, <1>4, <1>5, <1>6, <1>7 DEF FreeIn
<1>9. FreeIn(<<>>, c) /\ Disjoint(<<>>) /\ <<>> \in Seq(Slotted)
  BY DEF FreeIn, Disjoint
<1> QED  BY <1>2, <1>8, <1>9

\* The cells are sound between the calls and between the ubatches of one, every
\* ubatch has a slot of its size, and without sliding window the slots are free
\* until they are filled and share no cell.
CacheInvariant ==
    /\ Accounting
    /\ todo \in Seq(Slotted)
    /\ nSwa = 0 => FreeIn(todo, c) /\ Disjoint(todo)

\* An edit that leaves the cells sound keeps the invariant.
LEMMA EditSound ==
    ASSUME CacheInvariant, NEW k, Sound(k), Edit(k)
    PROVE  CacheInvariant'
<1>1. /\ c' = k /\ todo = <<>> /\ todo' = todo /\ nSwa' = nSwa
      /\ edits' = edits + 1 /\ edits < MaxEdits /\ status' = "none"
  BY DEF Edit
<1>2. edits' \in 0 .. MaxEdits /\ nSwa' \in Windows
  BY <1>1, CacheConstants DEF CacheInvariant, Accounting, CacheTypeOK
<1>3. todo' \in Seq(Ubatch) /\ todo' \in Seq(Slotted) /\ FreeIn(todo', c') /\ Disjoint(todo')
  BY <1>1 DEF FreeIn, Disjoint
<1> QED  BY <1>1, <1>2, <1>3 DEF CacheInvariant, Accounting, CacheTypeOK, Sound

\* The next ubatch: without sliding window it fills free cells, and the slots of
\* the others stay free and apart.
LEMMA ApplyKeeps ==
    ASSUME CacheInvariant, todo # <<>>
    PROVE  /\ Sound(c) /\ Head(todo) \in Slotted /\ Tail(todo) \in Seq(Slotted)
           /\ Sound(ApplyUbatch(c, Head(todo)))
           /\ nSwa = 0 =>
                /\ \A i \in SlotOf(Head(todo)) : c.pos[i] = -1
                /\ \A i \in Cells \ SlotOf(Head(todo)) :
                      /\ ApplyUbatch(c, Head(todo)).seq[i] = c.seq[i]
                      /\ ApplyUbatch(c, Head(todo)).pos[i] = c.pos[i]
                /\ FreeIn(Tail(todo), ApplyUbatch(c, Head(todo)))
                /\ Disjoint(Tail(todo))
<1> DEFINE u == Head(todo)
           m == ApplyUbatch(c, u)
           q == Tail(todo)
<1>1. Sound(c) /\ todo \in Seq(Slotted)
  BY DEF CacheInvariant, Accounting, CacheTypeOK, Sound
<1>2. /\ u \in Slotted /\ q \in Seq(Slotted) /\ u = todo[1] /\ Len(todo) \in Nat
      /\ 1 \in 1 .. Len(todo)
      /\ Len(q) = Len(todo) - 1
      /\ \A j \in 1 .. Len(q) : q[j] = todo[j + 1] /\ j + 1 \in 1 .. Len(todo)
                                /\ q[j] \in Slotted
  BY <1>1
<1>3. Sound(m)
  BY <1>1, <1>2, ApplySound
<1>4. ASSUME nSwa = 0
      PROVE  /\ \A i \in SlotOf(u) : c.pos[i] = -1
             /\ \A i \in Cells \ SlotOf(u) : m.seq[i] = c.seq[i] /\ m.pos[i] = c.pos[i]
             /\ FreeIn(q, m) /\ Disjoint(q)
  <2> HIDE DEF u, q
  <2>1. FreeIn(todo, c) /\ Disjoint(todo)
    BY <1>4 DEF CacheInvariant
  <2>2. \A i \in SlotOf(u) : c.pos[i] = -1
    BY <1>2, <2>1 DEF FreeIn
  <2>3. \A i \in Cells \ SlotOf(u) : m.seq[i] = c.seq[i] /\ m.pos[i] = c.pos[i]
    BY <1>1, <1>2, <2>2, ApplyFree
  <2> HIDE DEF m
  <2>4. ASSUME NEW j \in 1 .. Len(q), NEW i \in SlotOf(q[j]) PROVE m.pos[i] = -1
    <3>1. i \in Cells
      BY <1>2, SlotFacts
    <3>2. c.pos[i] = -1
      BY <1>2, <2>1 DEF FreeIn
    <3>3. i \notin SlotOf(u)
      <4>1. SlotOf(todo[1]) \cap SlotOf(todo[j + 1]) = {}
        <5>1. 1 < j + 1
          OBVIOUS
        <5> QED  BY <1>2, <2>1, <5>1 DEF Disjoint
      <4> QED  BY <1>2, <4>1
    <3> QED  BY <2>3, <3>1, <3>2, <3>3
  <2>5. ASSUME NEW j \in 1 .. Len(q), NEW l \in 1 .. Len(q), j < l
        PROVE  SlotOf(q[j]) \cap SlotOf(q[l]) = {}
    <3>1. j + 1 < l + 1
      BY <2>5
    <3> QED  BY <1>2, <2>1, <3>1 DEF Disjoint
  <2> QED  BY <2>2, <2>3, <2>4, <2>5 DEF FreeIn, Disjoint
<1> QED  BY <1>1, <1>2, <1>3, <1>4

\* The invariant holds of a new cache.
LEMMA CacheInitInv == CacheInit => CacheInvariant
<1> SUFFICES ASSUME CacheInit PROVE CacheInvariant
  OBVIOUS
<1>1. Sound(c)
  BY EmptySound DEF CacheInit
<1>2. edits \in 0 .. MaxEdits
  BY CacheConstants DEF CacheInit
<1>3. FreeIn(todo, c) /\ Disjoint(todo) /\ todo \in Seq(Slotted) /\ todo \in Seq(Ubatch)
  BY DEF CacheInit, FreeIn, Disjoint
<1> QED  BY <1>1, <1>2, <1>3 DEF CacheInit, CacheInvariant, Accounting, CacheTypeOK, Sound

\* Placed ubatches are ubatches.
LEMMA SlottedTyped == \A q : q \in Seq(Slotted) => q \in Seq(Ubatch)
<1> SUFFICES ASSUME NEW q \in Seq(Slotted) PROVE q \in Seq(Ubatch)
  OBVIOUS
<1>1. Slotted \subseteq Ubatch
  BY DEF Slotted, Request
<1> QED  BY <1>1

\* The start of a decode, accepted or refused.
LEMMA DecodeSteps ==
    ASSUME CacheInvariant, Decode
    PROVE  /\ Sound(c') /\ todo' \in Seq(Slotted) /\ nSwa' = nSwa /\ edits' = edits
           /\ todo = <<>> /\ status' \in {"busy", "noslot", "refused"}
           /\ nSwa = 0 => /\ c'.pos = c.pos /\ c'.seq = c.seq /\ c'.head = c.head
                          /\ FreeIn(todo', c) /\ Disjoint(todo')
<1>1. PICK s \in Seqs, n \in 1 .. NBatch : \E p \in {0, SeqPosMax(c, s) + 1} :
        \/ DecodeRefused(s, p)
        \/ \E shifts \in KShifts : DecodeBegin(s, p, n, shifts)
  BY DEF Decode
<1>2. PICK p \in {0, SeqPosMax(c, s) + 1} :
        \/ DecodeRefused(s, p)
        \/ \E shifts \in KShifts : DecodeBegin(s, p, n, shifts)
  BY <1>1
<1>3. p \in Nat /\ n \in Nat \ {0}
  <2>1. SeqPosMax(c, s) \in -1 .. MaxPos
    BY LastPosition
  <2> QED  BY <2>1, CacheConstants
<1>4. Sound(c)
  BY DEF CacheInvariant, Accounting, CacheTypeOK, Sound
<1>5. CASE DecodeRefused(s, p)
  <2>1. /\ c' = c /\ todo = <<>> /\ todo' = <<>> /\ nSwa' = nSwa /\ edits' = edits
        /\ status' = "refused"
    BY <1>5 DEF DecodeRefused
  <2>2. <<>> \in Seq(Slotted) /\ FreeIn(<<>>, c) /\ Disjoint(<<>>)
    BY DEF FreeIn, Disjoint
  <2> QED  BY <1>4, <2>1, <2>2
<1>6. ASSUME NEW shifts, DecodeBegin(s, p, n, shifts)
      PROVE  /\ Sound(c') /\ todo' \in Seq(Slotted) /\ nSwa' = nSwa /\ edits' = edits
             /\ todo = <<>> /\ status' \in {"busy", "noslot", "refused"}
             /\ nSwa = 0 => /\ c'.pos = c.pos /\ c'.seq = c.seq /\ c'.head = c.head
                            /\ FreeIn(todo', c) /\ Disjoint(todo')
  <2>1. nSwa' = nSwa /\ edits' = edits /\ todo = <<>>
    BY <1>6 DEF DecodeBegin
  <2> QED  BY <1>3, <1>4, <1>6, <2>1, BeginSound
<1> QED  BY <1>2, <1>5, <1>6

\* Every step keeps the invariant: one case for each action.
LEMMA CacheStepInv == CacheInvariant /\ [CacheNext]_cacheVars => CacheInvariant'
<1> SUFFICES ASSUME CacheInvariant, [CacheNext]_cacheVars PROVE CacheInvariant'
  OBVIOUS
<1>0. Sound(c) /\ nSwa \in Windows /\ edits \in 0 .. MaxEdits /\ todo \in Seq(Slotted)
  BY DEF CacheInvariant, Accounting, CacheTypeOK, Sound
<1>1. CASE EditClear
  BY <1>1, EmptySound, EditSound DEF EditClear
<1>2. CASE EditRm
  <2>1. PICK s \in Seqs, r \in Ranges : Edit(SeqRm(c, s, r[1], r[2]))
    BY <1>2 DEF EditRm
  <2>2. Sound(SeqRm(c, s, r[1], r[2]))
    BY <1>0, SeqRmSound
  <2> QED  BY <2>1, <2>2, EditSound
<1>3. CASE EditRmAny
  <2>1. PICK r \in Ranges : Edit(RmAny(c, r[1], r[2]))
    BY <1>3 DEF EditRmAny
  <2>2. Sound(RmAny(c, r[1], r[2]))
    <3> DEFINE I == {i \in Cells : c.pos[i] >= r[1] /\ c.pos[i] < r[2]}
    <3>1. RmAny(c, r[1], r[2]) = LowerHead(c, Drop(c, I, Seqs)) /\ I \in SUBSET Cells
      BY DEF RmAny
    <3> HIDE DEF I
    <3> QED  BY <1>0, <3>1, DropLowered
  <2> QED  BY <2>1, <2>2, EditSound
<1>4. CASE EditKeep
  <2>1. PICK s \in Seqs : Edit(SeqKeep(c, s))
    BY <1>4 DEF EditKeep
  <2>2. Sound(SeqKeep(c, s))
    <3> DEFINE I == {i \in Cells : c.seq[i] # {}}
               S == Seqs \ {s}
    <3>1. SeqKeep(c, s) = LowerHead(c, Drop(c, I, S)) /\ I \in SUBSET Cells
      BY DEF SeqKeep
    <3> HIDE DEF I, S
    <3> QED  BY <1>0, <3>1, DropLowered
  <2> QED  BY <2>1, <2>2, EditSound
<1>5. CASE EditCp
  <2>1. PICK s \in Seqs, t \in Seqs, r \in Ranges : Edit(SeqCp(c, s, t, r[1], r[2]))
    BY <1>5 DEF EditCp
  <2>2. Sound(SeqCp(c, s, t, r[1], r[2]))
    BY <1>0, SeqCpSound
  <2> QED  BY <2>1, <2>2, EditSound
<1>6. CASE EditAdd
  <2>1. PICK s \in Seqs, r \in Ranges, d \in {-2, -1, 1} :
          /\ \A i \in InRange(c, s, r[1], r[2]) : c.pos[i] + d <= MaxPos
          /\ Edit(SeqAdd(c, s, r[1], r[2], d))
    BY <1>6 DEF EditAdd
  <2>2. Sound(SeqAdd(c, s, r[1], r[2], d))
    BY <1>0, <2>1, SeqAddSound
  <2> QED  BY <2>1, <2>2, EditSound
<1>7. CASE EditDiv
  <2>1. PICK s \in Seqs, r \in Ranges : Edit(SeqDiv(c, s, r[1], r[2], 2))
    BY <1>7 DEF EditDiv
  <2>2. Sound(SeqDiv(c, s, r[1], r[2], 2))
    BY <1>0, SeqDivSound
  <2> QED  BY <2>1, <2>2, EditSound
<1>8. CASE Decode
  <2>1. /\ Sound(c') /\ todo' \in Seq(Slotted) /\ nSwa' = nSwa /\ edits' = edits
        /\ status' \in {"busy", "noslot", "refused"}
        /\ nSwa = 0 => /\ c'.pos = c.pos /\ FreeIn(todo', c) /\ Disjoint(todo')
    BY <1>8, DecodeSteps
  <2>2. todo' \in Seq(Ubatch)
    BY <2>1, SlottedTyped
  <2>3. nSwa = 0 => FreeIn(todo', c')
    BY <2>1 DEF FreeIn
  <2> QED  BY <1>0, <2>1, <2>2, <2>3 DEF CacheInvariant, Accounting, CacheTypeOK, Sound
<1>9. CASE Process
  <2>1. /\ todo # <<>> /\ c' = ApplyUbatch(c, Head(todo)) /\ todo' = Tail(todo)
        /\ status' \in {"ok", "busy"} /\ nSwa' = nSwa /\ edits' = edits
    BY <1>9 DEF Process
  <2>2. /\ Sound(c') /\ todo' \in Seq(Slotted)
        /\ nSwa = 0 => FreeIn(todo', c') /\ Disjoint(todo')
    BY <2>1, ApplyKeeps
  <2>3. todo' \in Seq(Ubatch)
    BY <2>2, SlottedTyped
  <2> QED  BY <1>0, <2>1, <2>2, <2>3 DEF CacheInvariant, Accounting, CacheTypeOK, Sound
<1>10. CASE ProcessFails
  <2> DEFINE m == ApplyUbatch(c, Head(todo))
  <2>1. /\ todo # <<>> /\ c' = SeqRm(m, Head(todo).seq, FailedFrom(Head(todo)), Inf)
        /\ todo' = <<>> /\ status' = "failed" /\ nSwa' = nSwa /\ edits' = edits
    BY <1>10 DEF ProcessFails
  <2>2. Sound(m)
    BY <2>1, ApplyKeeps
  <2> HIDE DEF m
  <2>3. Sound(c')
    BY <2>1, <2>2, SeqRmSound
  <2>4. FreeIn(<<>>, c') /\ Disjoint(<<>>) /\ <<>> \in Seq(Slotted) /\ <<>> \in Seq(Ubatch)
    BY DEF FreeIn, Disjoint
  <2> QED  BY <1>0, <2>1, <2>3, <2>4 DEF CacheInvariant, Accounting, CacheTypeOK, Sound
<1>11. CASE UNCHANGED cacheVars
  BY <1>11 DEF cacheVars, CacheInvariant, Accounting, CacheTypeOK, FreeIn
<1> QED  BY <1>1, <1>2, <1>3, <1>4, <1>5, <1>6, <1>7, <1>8, <1>9, <1>10, <1>11 DEF CacheNext

\* Whatever edits and decodes, also failed ones, came before: used holds exactly the
\* cells with a position, these have sequences, and seq_pos counts every position,
\* so that seq_pos_min and seq_pos_max are right (llama_kv_cells).
THEOREM CellsAccounted == CacheSpec => []Accounting
<1>1. CacheInvariant => Accounting
  BY DEF CacheInvariant
<1> QED  BY <1>1, CacheInitInv, CacheStepInv, PTL DEF CacheSpec

\* Without sliding window a call of llama_decode that is refused or finds no slot
\* leaves positions, sequences and head as they were, however many ubatches were
\* rehearsed, with one or two attempts (llama_kv_cache::prepare).
THEOREM RefusedCallRestores == CacheSpec => RefusalRestores
<1>1. ASSUME CacheInvariant, [CacheNext]_cacheVars
      PROVE  [nSwa = 0 /\ status' \in {"refused", "noslot"} => Restored]_cacheVars
  <2>1. SUFFICES ASSUME CacheNext, nSwa = 0, status' \in {"refused", "noslot"} PROVE Restored
    BY <1>1
  <2>2. Decode
    BY <2>1 DEF CacheNext, EditClear, EditRm, EditRmAny, EditKeep, EditCp, EditAdd, EditDiv,
                Edit, Process, ProcessFails
  <2> QED  BY <1>1, <2>1, <2>2, DecodeSteps DEF Restored
<1> QED  BY <1>1, CacheInitInv, CacheStepInv, PTL DEF CacheSpec, RefusalRestores

\* Cell i holds the same in m and in k.
Same(m, k, i) == m.pos[i] = k.pos[i] /\ m.seq[i] = k.seq[i]

\* apply_ubatch, cell by cell: what is put into the slot, and elsewhere what was
\* there, without the sequences that lost a higher position in the slot.
LEMMA ApplyCells ==
    ASSUME NEW k, Sound(k), NEW u \in Slotted, NEW m, m = ApplyUbatch(k, u)
    PROVE  LET rm == Overwritten(k, SlotOf(u))
           IN  /\ Sound(m) /\ rm \in [Seqs -> -1 .. MaxPos]
               /\ \A i \in Cells :
                     /\ m.seq[i] = {s \in Put(k, u).seq[i] : Put(k, u).pos[i] > rm[s]}
                     /\ m.pos[i] = IF m.seq[i] = {} THEN -1 ELSE Put(k, u).pos[i]
               /\ \A i \in Cells \ SlotOf(u) :
                     /\ m.seq[i] = {s \in k.seq[i] : k.pos[i] > rm[s]}
                     /\ m.pos[i] = IF m.seq[i] = {} THEN -1 ELSE k.pos[i]
<1> DEFINE p == Put(k, u)
           rm == Overwritten(k, SlotOf(u))
<1>1. PICK n : PurgedOf(n, p, rm, Seqs) /\ Sound(m) /\ m.pos = n.pos /\ m.seq = n.seq
  BY ApplySound
<1>2. rm \in [Seqs -> -1 .. MaxPos]
  BY SlotFacts, OverwrittenType
<1>3. /\ Sound(p)
      /\ \A i \in Cells \ SlotOf(u) : p.seq[i] = k.seq[i] /\ p.pos[i] = k.pos[i]
  BY PutSound
<1> HIDE DEF p, rm
<1>4. ASSUME NEW i \in Cells
      PROVE  /\ m.seq[i] = {s \in p.seq[i] : p.pos[i] > rm[s]}
             /\ m.pos[i] = IF m.seq[i] = {} THEN -1 ELSE p.pos[i]
  <2>1. p.seq[i] \in SUBSET Seqs
    BY <1>3, SoundCell
  <2>2. n.seq[i] = {s \in p.seq[i] : s \notin Seqs \/ p.pos[i] > rm[s]}
        /\ n.pos[i] = IF n.seq[i] = {} THEN -1 ELSE p.pos[i]
    BY <1>1 DEF PurgedOf
  <2> QED  BY <1>1, <2>1, <2>2
<1>5. ASSUME NEW i \in Cells \ SlotOf(u)
      PROVE  /\ m.seq[i] = {s \in k.seq[i] : k.pos[i] > rm[s]}
             /\ m.pos[i] = IF m.seq[i] = {} THEN -1 ELSE k.pos[i]
  BY <1>3, <1>4
<1> QED  BY <1>1, <1>2, <1>4, <1>5 DEF p, rm

\* The sequences that cell i keeps when those in rm are purged.
Surviving(k, i, rm) == {s \in k.seq[i] : k.pos[i] > rm[s]}

\* What is left of a cell outside the slot.
LEMMA ApplyOff ==
    ASSUME NEW k, Sound(k), NEW u \in Slotted, NEW m, m = ApplyUbatch(k, u),
           NEW i \in Cells \ SlotOf(u)
    PROVE  /\ m.seq[i] = Surviving(k, i, Overwritten(k, SlotOf(u)))
           /\ m.pos[i] = IF m.seq[i] = {} THEN -1 ELSE k.pos[i]
<1> DEFINE rm == Overwritten(k, SlotOf(u))
<1>1. /\ m.seq[i] = {s \in k.seq[i] : k.pos[i] > rm[s]}
      /\ m.pos[i] = IF m.seq[i] = {} THEN -1 ELSE k.pos[i]
  BY ApplyCells
<1> HIDE DEF rm
<1>2. m.seq[i] = Surviving(k, i, rm)
  BY <1>1 DEF Surviving
<1> QED  BY <1>1, <1>2 DEF rm

\* Outside the slot a cell only loses sequences.
LEMMA ApplyTakes ==
    ASSUME NEW k, Sound(k), NEW u \in Slotted, NEW m, m = ApplyUbatch(k, u),
           NEW i \in Cells \ SlotOf(u)
    PROVE  m.seq[i] \subseteq k.seq[i] /\ (m.seq[i] # {} => m.pos[i] = k.pos[i])
BY ApplyOff DEF Surviving

\* The tokens put into a slot do not depend on what was there.
LEMMA PutSame ==
    ASSUME NEW k, Sound(k), NEW m, Sound(m), NEW u \in Slotted, NEW i \in SlotOf(u)
    PROVE  Same(Put(m, u), Put(k, u), i)
<1> DEFINE I == SlotOf(u)
           tok == [l \in I |-> u.pos + (CHOOSE j \in 1 .. u.n : u.idxs[j] = l) - 1]
<1>1. i \in Cells /\ i \in I
  BY SlotFacts
<1>2. ASSUME NEW x, Sound(x) PROVE Put(x, u).pos[i] = tok[i] /\ Put(x, u).seq[i] = {u.seq}
  <2> DEFINE a == Assign(x, I, tok, [l \in I |-> {u.seq}])
             sh == [l \in Cells |-> IF l \in I THEN 0 ELSE a.shift[l]]
  <2>1. Put(x, u) = [a EXCEPT !.shift = sh]
    BY DEF Put, SlotOf
  <2>2. a.pos = [l \in Cells |-> IF l \in I THEN tok[l] ELSE x.pos[l]]
        /\ a.seq = [l \in Cells |-> IF l \in I THEN {u.seq} ELSE x.seq[l]]
        /\ [a EXCEPT !.shift = sh].pos = a.pos /\ [a EXCEPT !.shift = sh].seq = a.seq
    <3> HIDE DEF tok, I
    <3> QED  BY <1>2 DEF Assign, Sound, CellsType
  <2> HIDE DEF a, sh, tok, I
  <2> QED  BY <1>1, <2>1, <2>2
<1> QED  BY <1>2 DEF Same

\* Where two caches agree in the slot, the same positions are overwritten, and a ubatch
\* leaves the same in every cell that was the same.
LEMMA ApplySame ==
    ASSUME NEW k, Sound(k), NEW m, Sound(m), NEW u \in Slotted,
           \A i \in SlotOf(u) : Same(m, k, i)
    PROVE  /\ Overwritten(m, SlotOf(u)) = Overwritten(k, SlotOf(u))
           /\ \A i \in Cells : (i \in SlotOf(u) \/ Same(m, k, i))
                 => Same(ApplyUbatch(m, u), ApplyUbatch(k, u), i)
<1> DEFINE I == SlotOf(u)
           rm == Overwritten(k, I)
           m1 == ApplyUbatch(m, u)
           k1 == ApplyUbatch(k, u)
<1>1. Overwritten(m, I) = rm
  <2>1. ASSUME NEW s \in Seqs
        PROVE  {m.pos[i] : i \in {j \in I : s \in m.seq[j]}}
                 = {k.pos[i] : i \in {j \in I : s \in k.seq[j]}}
    BY DEF Same
  <2> HIDE DEF I
  <2> QED  BY <2>1 DEF Overwritten
<1>2. \A i \in Cells :
         /\ m1.seq[i] = {s \in Put(m, u).seq[i] : Put(m, u).pos[i] > rm[s]}
         /\ m1.pos[i] = IF m1.seq[i] = {} THEN -1 ELSE Put(m, u).pos[i]
  BY <1>1, ApplyCells
<1>3. \A i \in Cells :
         /\ k1.seq[i] = {s \in Put(k, u).seq[i] : Put(k, u).pos[i] > rm[s]}
         /\ k1.pos[i] = IF k1.seq[i] = {} THEN -1 ELSE Put(k, u).pos[i]
  BY ApplyCells
<1>4. ASSUME NEW i \in Cells, i \in I \/ Same(m, k, i) PROVE Same(Put(m, u), Put(k, u), i)
  <2>1. CASE i \in I
    BY <2>1, PutSame
  <2>2. CASE i \notin I
    BY <1>4, <2>2, PutSound DEF Same
  <2> QED  BY <2>1, <2>2
<1> HIDE DEF m1, k1, rm, I
<1>5. ASSUME NEW i \in Cells, i \in I \/ Same(m, k, i) PROVE Same(m1, k1, i)
  BY <1>2, <1>3, <1>4, <1>5 DEF Same
<1> QED  BY <1>1, <1>5 DEF rm, I, m1, k1

\* A sequence of one element.
LEMMA OneSlot ==
    ASSUME NEW S, NEW q \in Seq(S), Len(q) = 1
    PROVE  q[1] \in S /\ q # <<>> /\ Len(Tail(q)) = 0 /\ Head(q) = q[1]
<1>1. q # <<>>
  <2>1. SUFFICES ASSUME q = <<>> PROVE FALSE
    OBVIOUS
  <2>2. Len(<<>>) = 0
    OBVIOUS
  <2> QED  BY <2>1, <2>2
<1>2. q[1] \in S /\ Head(q) = q[1]
  BY <1>1
<1>3. Len(Tail(q)) = Len(q) - 1
  BY <1>1
<1> QED  BY <1>1, <1>2, <1>3

\* No ubatch of q before the j-th has cell i in its slot.
Unseen(q, i, j) == \A l \in 1 .. j - 1 : i \notin SlotOf(q[l])

\* A cell not used before the ubatch after the n-th is in no slot of the first n.
LEMMA UnseenBefore ==
    ASSUME NEW q, NEW i, NEW n \in Nat, Unseen(q, i, n + 1)
    PROVE  \A l \in 1 .. n : i \notin SlotOf(q[l])
<1>1. n + 1 - 1 = n
  OBVIOUS
<1> QED  BY <1>1 DEF Unseen

\* The cells K[1], K[2], ... before each ubatch of q and after the last one, each
\* placed in cells that could be used then.
Course(K, q) ==
    /\ \A j \in 1 .. Len(q) + 1 : Sound(K[j])
    /\ \A j \in 1 .. Len(q) : /\ \A i \in SlotOf(q[j]) : CanUse(K[j], i)
                              /\ K[j + 1] = ApplyUbatch(K[j], q[j])

\* m is on this course, after a roll-back: the cells W that ubatches have filled since
\* are as in K[1]; another cell is as it was when the rehearsal first used it or,
\* if it does not any more, as the rehearsal left it.
Follows(m, K, q, W) ==
    /\ \A i \in W : Same(m, K[1], i)
    /\ \A i \in Cells \ W : \A j \in 1 .. Len(q) :
          i \in SlotOf(q[j]) /\ Unseen(q, i, j) => Same(m, K[j], i)
    /\ \A i \in Cells \ W : Unseen(q, i, Len(q) + 1) => Same(m, K[Len(q) + 1], i)

\* If none of the n ubatches after the j-th uses cell i, it only loses sequences to them.
Lessened(K, q, i, j, n) ==
    (\A l \in j + 1 .. j + n : i \notin SlotOf(q[l])) =>
       /\ K[j + 1 + n].seq[i] \subseteq K[j + 1].seq[i]
       /\ K[j + 1 + n].seq[i] # {} => K[j + 1 + n].pos[i] = K[j + 1].pos[i]

\* A cell that no ubatch of the course uses only loses sequences.
LEMMA OnlyPurged ==
    ASSUME NEW q \in Seq(Slotted), NEW K, Course(K, q), NEW j \in 1 .. Len(q), NEW i \in Cells
    PROVE  \A n \in 0 .. Len(q) - j : Lessened(K, q, i, j, n)
<1> DEFINE N == Len(q) - j
           B(n) == (\A l \in j + 1 .. j + n : i \notin SlotOf(q[l])) =>
                      /\ K[j + 1 + n].seq[i] \subseteq K[j + 1].seq[i]
                      /\ K[j + 1 + n].seq[i] # {} => K[j + 1 + n].pos[i] = K[j + 1].pos[i]
           P == {n \in 0 .. N : B(n)}
<1>0. N \in Nat /\ Len(q) \in Nat /\ j \in Nat
  OBVIOUS
<1>1. 0 \in P
  <2>1. j + 1 + 0 = j + 1 /\ 0 \in 0 .. N
    BY <1>0
  <2> QED  BY <2>1
<1>2. ASSUME NEW n \in 0 .. N - 1, n \in P PROVE n + 1 \in P
  <2> DEFINE x == j + 1 + n
  <2>1. x \in 1 .. Len(q) /\ x \in 1 .. Len(q) + 1 /\ n + 1 \in 0 .. N
        /\ j + 1 + (n + 1) = x + 1 /\ x \in j + 1 .. j + (n + 1)
        /\ \A l \in j + 1 .. j + n : l \in j + 1 .. j + (n + 1)
    BY <1>0
  <2>2. SUFFICES ASSUME \A l \in j + 1 .. j + (n + 1) : i \notin SlotOf(q[l])
                 PROVE  /\ K[x + 1].seq[i] \subseteq K[j + 1].seq[i]
                        /\ K[x + 1].seq[i] # {} => K[x + 1].pos[i] = K[j + 1].pos[i]
    BY <2>1
  <2>3. /\ K[x].seq[i] \subseteq K[j + 1].seq[i]
        /\ K[x].seq[i] # {} => K[x].pos[i] = K[j + 1].pos[i]
    BY <1>2, <2>1, <2>2
  <2>4. Sound(K[x]) /\ q[x] \in Slotted /\ K[x + 1] = ApplyUbatch(K[x], q[x])
        /\ i \notin SlotOf(q[x])
    BY <2>1, <2>2 DEF Course
  <2> DEFINE y == K[x + 1]
             z == K[x]
             v == q[x]
             rm == Overwritten(z, SlotOf(v))
  <2> HIDE DEF x
  <2>5. Sound(z) /\ v \in Slotted /\ y = ApplyUbatch(z, v) /\ i \in Cells \ SlotOf(v)
    BY <2>4
  <2> HIDE DEF y, z, v, rm
  <2>6. y.seq[i] \subseteq z.seq[i] /\ (y.seq[i] # {} => y.pos[i] = z.pos[i])
    BY <2>5, ApplyTakes
  <2> QED  BY <2>3, <2>6 DEF y, z
<1>3. \A n \in 0 .. N - 1 : n \in P => n + 1 \in P
  BY <1>2
<1> HIDE DEF P, N
<1>4. \A n \in 0 .. N : n \in P
  BY <1>0, <1>1, <1>3, UpTo
<1>5. ASSUME NEW n \in 0 .. N PROVE Lessened(K, q, i, j, n)
  BY <1>4 DEF Lessened, P
<1> QED  BY <1>5 DEF N

\* A cell off the slot that holds what the course has in it later loses nothing now: what
\* is still there later was not purged.
LEMMA LaterKept ==
    ASSUME NEW q \in Seq(Slotted), q # <<>>, NEW K, Course(K, q), NEW m, Sound(m),
           \A i \in SlotOf(q[1]) : Same(m, K[1], i),
           NEW j \in 2 .. Len(q) + 1, NEW i \in Cells, Unseen(q, i, j), Same(m, K[j], i)
    PROVE  Same(ApplyUbatch(m, q[1]), K[j], i)
<1> DEFINE u == q[1]
           k1 == K[1]
           k2 == K[2]
           y == K[j]
           m1 == ApplyUbatch(m, u)
           rm == Overwritten(k1, SlotOf(u))
<1>0. /\ Len(q) \in Nat /\ 1 \in 1 .. Len(q) /\ 1 \in 1 .. Len(q) + 1 /\ 2 \in 1 .. Len(q) + 1
      /\ j \in 1 .. Len(q) + 1 /\ j - 2 \in 0 .. Len(q) - 1 /\ 1 + 1 + (j - 2) = j
      /\ 1 \in 1 .. j - 1
      /\ \A l \in 1 + 1 .. 1 + (j - 2) : l \in 1 .. j - 1
      /\ u \in Slotted
  OBVIOUS
<1>1. Sound(k1) /\ Sound(k2) /\ Sound(y) /\ k2 = ApplyUbatch(k1, u)
  BY <1>0 DEF Course
<1>2. i \in Cells \ SlotOf(u)
  BY <1>0 DEF Unseen
<1>3. y.seq[i] \subseteq k2.seq[i] /\ (y.seq[i] # {} => y.pos[i] = k2.pos[i])
  <2>1. \A l \in 1 + 1 .. 1 + (j - 2) : i \notin SlotOf(q[l])
    BY <1>0 DEF Unseen
  <2>2. Lessened(K, q, i, 1, j - 2)
    <3>1. 1 \in 1 .. Len(q) /\ j - 2 \in 0 .. Len(q) - 1
      BY <1>0
    <3> HIDE DEF u, k1, k2, y, m1, rm
    <3> QED  BY <3>1, OnlyPurged
  <2>3. 1 + 1 = 2
    OBVIOUS
  <2> QED  BY <1>0, <2>1, <2>2, <2>3 DEF Lessened
<1>4. Overwritten(m, SlotOf(u)) = rm
  BY <1>0, <1>1, ApplySame
<1>5. /\ k2.seq[i] = Surviving(k1, i, rm)
      /\ k2.pos[i] = IF k2.seq[i] = {} THEN -1 ELSE k1.pos[i]
  BY <1>0, <1>1, <1>2, ApplyOff
<1>6. /\ m1.seq[i] = Surviving(m, i, rm)
      /\ m1.pos[i] = IF m1.seq[i] = {} THEN -1 ELSE m.pos[i]
  BY <1>0, <1>2, <1>4, ApplyOff
<1>7. m.seq[i] = y.seq[i] /\ m.pos[i] = y.pos[i]
  BY DEF Same
<1>8. y.seq[i] = {} => y.pos[i] = -1
  BY <1>1, SoundCell
<1> HIDE DEF u, k1, k2, y, m1, rm
<1>9. m1.seq[i] = y.seq[i]
  <2>1. ASSUME NEW s \in y.seq[i] PROVE m.pos[i] > rm[s]
    BY <1>3, <1>5, <1>7, <2>1 DEF Surviving
  <2> QED  BY <1>6, <1>7, <2>1 DEF Surviving
<1>10. m1.pos[i] = y.pos[i]
  BY <1>6, <1>7, <1>8, <1>9
<1> QED  BY <1>9, <1>10 DEF Same, u, m1, y

\* The next ubatch leads along the course.
LEMMA FollowStep ==
    ASSUME NEW q \in Seq(Slotted), q # <<>>, NEW K, Course(K, q), NEW m, Sound(m),
           NEW W \in SUBSET Cells, Follows(m, K, q, W)
    PROVE  /\ \A i \in SlotOf(q[1]) : Same(m, K[1], i)
           /\ \E K2 : /\ Course(K2, Tail(q)) /\ K2[1] = K[2]
                      /\ Follows(ApplyUbatch(m, q[1]), K2, Tail(q), W \cup SlotOf(q[1]))
<1> DEFINE t == Tail(q)
           N == Len(t)
           K2 == [j \in 1 .. N + 1 |-> K[j + 1]]
           m1 == ApplyUbatch(m, q[1])
           V == W \cup SlotOf(q[1])
<1>0. /\ q[1] \in Slotted /\ 1 \in 1 .. Len(q) /\ Len(q) = N + 1 /\ N \in Nat
      /\ \A j \in 1 .. N : t[j] = q[j + 1]
  OBVIOUS
<1>1. \A i \in SlotOf(q[1]) : Same(m, K[1], i)
  <2> SUFFICES ASSUME NEW i \in SlotOf(q[1]) PROVE Same(m, K[1], i)
    OBVIOUS
  <2>1. Unseen(q, i, 1)
    BY DEF Unseen
  <2>2. i \in Cells
    BY <1>0, SlotFacts
  <2> QED  BY <1>0, <2>1, <2>2 DEF Follows
<1>2. \A i \in Cells : (i \in SlotOf(q[1]) \/ Same(m, K[1], i)) => Same(m1, K[2], i)
  <2>1. Sound(K[1]) /\ K[1 + 1] = ApplyUbatch(K[1], q[1])
    BY <1>0 DEF Course
  <2> QED  BY <1>0, <1>1, <2>1, ApplySame
<1> HIDE DEF t, N
<1>3. \A j \in 1 .. N + 1 : K2[j] = K[j + 1]
  OBVIOUS
<1>4. 1 \in 1 .. N + 1 /\ N + 1 \in 1 .. N + 1
  BY <1>0
<1> HIDE DEF K2, m1, V
<1>5. Course(K2, t)
  <2>1. ASSUME NEW j \in 1 .. N + 1 PROVE Sound(K2[j])
    <3>1. j + 1 \in 1 .. Len(q) + 1
      BY <1>0
    <3> QED  BY <1>3, <3>1 DEF Course
  <2>2. ASSUME NEW j \in 1 .. N
        PROVE  /\ \A i \in SlotOf(t[j]) : CanUse(K2[j], i)
               /\ K2[j + 1] = ApplyUbatch(K2[j], t[j])
    <3>1. j + 1 \in 1 .. Len(q) /\ j \in 1 .. N + 1 /\ j + 1 \in 1 .. N + 1 /\ t[j] = q[j + 1]
      BY <1>0
    <3>2. /\ \A i \in SlotOf(q[j + 1]) : CanUse(K[j + 1], i)
          /\ K[j + 1 + 1] = ApplyUbatch(K[j + 1], q[j + 1])
      BY <3>1 DEF Course
    <3>3. K2[j] = K[j + 1] /\ K2[j + 1] = K[j + 1 + 1]
      BY <1>3, <3>1
    <3> QED  BY <3>1, <3>2, <3>3
  <2> QED  BY <2>1, <2>2 DEF Course, N
<1>6. ASSUME NEW i \in Cells, i \in V PROVE Same(m1, K2[1], i)
  <2>1. K2[1] = K[2]
    BY <1>3, <1>4
  <2>2. i \in SlotOf(q[1]) \/ Same(m, K[1], i)
    BY <1>6 DEF V, Follows
  <2> QED  BY <1>2, <2>1, <2>2
<1>7. ASSUME NEW i \in Cells \ V, NEW j \in 1 .. N + 1, Unseen(t, i, j) PROVE Unseen(q, i, j + 1)
  <2>1. ASSUME NEW l \in 1 .. j + 1 - 1 PROVE i \notin SlotOf(q[l])
    <3>1. CASE l = 1
      BY <1>7, <3>1 DEF V
    <3>2. CASE l # 1
      <4>1. l - 1 \in 1 .. j - 1 /\ l - 1 \in 1 .. N /\ (l - 1) + 1 = l
        BY <1>0, <3>2
      <4>2. t[l - 1] = q[l] /\ i \notin SlotOf(t[l - 1])
        BY <1>0, <1>7, <4>1 DEF Unseen
      <4> QED  BY <4>2
    <3> QED  BY <3>1, <3>2
  <2> QED  BY <2>1 DEF Unseen
<1>8. ASSUME NEW i \in Cells \ V, NEW j \in 1 .. N + 1, Unseen(t, i, j), Same(m, K[j + 1], i)
      PROVE  Same(m1, K2[j], i)
  <2>1. Unseen(q, i, j + 1)
    BY <1>7, <1>8
  <2>2. j + 1 \in 2 .. Len(q) + 1 /\ i \in Cells
    BY <1>0
  <2> HIDE DEF m1
  <2>3. Same(ApplyUbatch(m, q[1]), K[j + 1], i)
    BY <1>1, <1>8, <2>1, <2>2, LaterKept
  <2> QED  BY <1>3, <2>3 DEF m1
<1>9. ASSUME NEW i \in Cells \ V, NEW j \in 1 .. N, i \in SlotOf(t[j]), Unseen(t, i, j)
      PROVE  Same(m1, K2[j], i)
  <2>1. j \in 1 .. N + 1 /\ j + 1 \in 1 .. Len(q) /\ t[j] = q[j + 1]
    BY <1>0
  <2>2. Unseen(q, i, j + 1)
    BY <1>7, <1>9, <2>1
  <2>3. i \in Cells \ W
    BY DEF V
  <2>4. Same(m, K[j + 1], i)
    BY <1>9, <2>1, <2>2, <2>3 DEF Follows
  <2> QED  BY <1>8, <1>9, <2>1, <2>4
<1>10. ASSUME NEW i \in Cells \ V, Unseen(t, i, N + 1) PROVE Same(m1, K2[N + 1], i)
  <2>1. Unseen(q, i, Len(q) + 1) /\ Len(q) + 1 = N + 1 + 1
    BY <1>0, <1>4, <1>7, <1>10
  <2>2. i \in Cells \ W
    BY DEF V
  <2>3. Same(m, K[N + 1 + 1], i)
    BY <2>1, <2>2 DEF Follows
  <2> QED  BY <1>4, <1>8, <1>10, <2>3
<1>11. V \in SUBSET Cells
  BY <1>0, SlotFacts DEF V
<1>12. Follows(m1, K2, t, V)
  <2>1. \A i \in V : Same(m1, K2[1], i)
    BY <1>6, <1>11
  <2> QED  BY <2>1, <1>9, <1>10 DEF Follows, N
<1>13. K2[1] = K[2]
  BY <1>3, <1>4
<1> QED  BY <1>1, <1>5, <1>12, <1>13 DEF t, m1, V

\* x holds in cell i what the copies from the b-th on, restored backwards, leave there:
\* that of the first of them with the cell.
RolledTo(x, k, saved, i, b) ==
    /\ \A j \in b .. Len(saved) :
          i \in saved[j].I /\ (\A l \in b .. j - 1 : i \notin saved[l].I)
             => Same(x, saved[j], i)
    /\ (\A l \in b .. Len(saved) : i \notin saved[l].I) => Same(x, k, i)

\* Restoring one more copy.
LEMMA RolledStep ==
    ASSUME NEW x, Sound(x), NEW k, NEW saved \in Seq(Saved), NEW i \in Cells,
           NEW b \in 1 .. Len(saved), RolledTo(x, k, saved, i, b + 1)
    PROVE  RolledTo(Restore(x, saved[b]), k, saved, i, b)
<1> DEFINE y == Restore(x, saved[b])
           N == Len(saved)
<1>0. saved[b] \in Saved /\ N \in Nat /\ b \in b .. N
  OBVIOUS
<1>1. /\ y.pos[i] = IF i \in saved[b].I THEN saved[b].pos[i] ELSE x.pos[i]
      /\ y.seq[i] = IF i \in saved[b].I THEN saved[b].seq[i] ELSE x.seq[i]
  <2> DEFINE o == saved[b]
  <2> HIDE DEF o
  <2>1. /\ y.pos = [l \in Cells |-> IF l \in o.I THEN o.pos[l] ELSE x.pos[l]]
        /\ y.seq = [l \in Cells |-> IF l \in o.I THEN o.seq[l] ELSE x.seq[l]]
    BY <1>0, RestoreSound DEF o
  <2> QED  BY <2>1 DEF o
<1> HIDE DEF y, N
<1>2. ASSUME NEW j \in b .. N, i \in saved[j].I, \A l \in b .. j - 1 : i \notin saved[l].I
      PROVE  Same(y, saved[j], i)
  <2>1. CASE j = b
    BY <1>1, <1>2, <2>1 DEF Same
  <2>2. CASE j # b
    <3>1. j \in b + 1 .. N /\ b \in b .. j - 1 /\ \A l \in b + 1 .. j - 1 : l \in b .. j - 1
      BY <1>0, <2>2
    <3>2. Same(x, saved[j], i) /\ i \notin saved[b].I
      BY <1>2, <3>1 DEF RolledTo, N
    <3> QED  BY <1>1, <3>2 DEF Same
  <2> QED  BY <2>1, <2>2
<1>3. ASSUME \A l \in b .. N : i \notin saved[l].I PROVE Same(y, k, i)
  <2>1. \A l \in b + 1 .. N : l \in b .. N
    BY <1>0
  <2>2. Same(x, k, i) /\ i \notin saved[b].I
    BY <1>0, <1>3, <2>1 DEF RolledTo, N
  <2> QED  BY <1>1, <2>2 DEF Same
<1> QED  BY <1>2, <1>3 DEF RolledTo, N, y

\* A roll-back leaves in each cell what the first copy with this cell has.
LEMMA RollBackFirst ==
    ASSUME NEW k, Sound(k), NEW saved \in Seq(Saved), NEW i \in Cells
    PROVE  RolledTo(RollBack(k, saved), k, saved, i, 1)
<1> DEFINE N == Len(saved)
<1>0. N \in Nat
  OBVIOUS
<1>1. PICK r : RollTrace(r, k, saved) /\ r[N] = RollBack(k, saved)
  BY RollBackSteps
<1> DEFINE P == {n \in 0 .. N : Sound(r[n]) /\ RolledTo(r[n], k, saved, i, N + 1 - n)}
<1> HIDE DEF N
<1>2. 0 \in P
  <2>1. r[0] = k /\ N + 1 - 0 = N + 1 /\ N + 1 .. N = {} /\ 0 \in 0 .. N
    BY <1>0, <1>1 DEF RollTrace
  <2>2. RolledTo(k, k, saved, i, N + 1)
    BY <2>1 DEF RolledTo, Same, N
  <2> QED  BY <2>1, <2>2
<1>3. ASSUME NEW n \in 0 .. N - 1, n \in P PROVE n + 1 \in P
  <2> DEFINE b == N - n
  <2>1. /\ n + 1 \in 1 .. N /\ (n + 1) - 1 = n /\ N - (n + 1) + 1 = b /\ b \in 1 .. N
        /\ N + 1 - n = b + 1 /\ N + 1 - (n + 1) = b /\ n + 1 \in 0 .. N
    BY <1>0
  <2>2. r[n + 1] = Restore(r[n], saved[b]) /\ saved[b] \in Saved
    BY <1>1, <2>1 DEF RollTrace, N
  <2>3. Sound(r[n]) /\ RolledTo(r[n], k, saved, i, b + 1)
    BY <1>3, <2>1
  <2> HIDE DEF b
  <2>4. RolledTo(r[n + 1], k, saved, i, b)
    <3> DEFINE x == r[n]
               y == r[n + 1]
    <3>1. y = Restore(x, saved[b]) /\ Sound(x) /\ RolledTo(x, k, saved, i, b + 1)
          /\ b \in 1 .. Len(saved)
      BY <2>1, <2>2, <2>3 DEF N
    <3> HIDE DEF x, y
    <3>2. RolledTo(y, k, saved, i, b)
      BY <3>1, RolledStep
    <3> QED  BY <3>2 DEF y
  <2>5. Sound(r[n + 1])
    <3> DEFINE x == r[n]
               y == r[n + 1]
               o == saved[b]
    <3>1. y = Restore(x, o) /\ Sound(x) /\ o \in Saved
      BY <2>2, <2>3
    <3> HIDE DEF x, y, o
    <3>2. Sound(y)
      BY <3>1, RestoreSound
    <3> QED  BY <3>2 DEF y
  <2> QED  BY <2>1, <2>4, <2>5
<1>4. N \in P
  <2>1. \A n \in 0 .. N - 1 : n \in P => n + 1 \in P
    BY <1>3
  <2>2. N \in 0 .. N
    BY <1>0
  <2> HIDE DEF P
  <2>3. \A n \in 0 .. N : n \in P
    BY <1>0, <1>2, <2>1, UpTo
  <2> QED  BY <2>2, <2>3
<1>5. N + 1 - N = 1
  BY <1>0
<1> QED  BY <1>1, <1>4, <1>5

\* Up to its n-th ubatch the rehearsal h has found all slots, and saved what was in them.
AllFound(h, n) ==
    /\ Len(h[n].slots) = n /\ Len(h[n].saved) = n
    /\ \A j \in 1 .. n :
          /\ h[n].saved[j].I = SlotOf(h[n].slots[j])
          /\ h[n].saved[j].pos = h[j-1].k.pos /\ h[n].saved[j].seq = h[j-1].k.seq
          /\ \A i \in SlotOf(h[n].slots[j]) : CanUse(h[j-1].k, i)
          /\ h[j].k = ApplyUbatch(h[j-1].k, h[n].slots[j])

\* As long as ok is TRUE all slots are found.
LEMMA FoundSoFar ==
    ASSUME NEW k, Sound(k), NEW ubatches \in Seq(Request), NEW h,
           RehearsalTrace(h, k, ubatches)
    PROVE  \A n \in 0 .. Len(ubatches) :
              h[n] \in Rehearsal /\ (h[n].ok => AllFound(h, n))
<1> DEFINE N == Len(ubatches)
           base == [ok |-> TRUE, k |-> k, slots |-> <<>>, saved |-> <<>>]
           P == {n \in 0 .. N : h[n] \in Rehearsal /\ (h[n].ok => AllFound(h, n))}
<1>0. N \in Nat /\ \A j \in 1 .. N : ubatches[j] \in Request
  OBVIOUS
<1> HIDE DEF N
<1>1. 0 \in P
  <2>1. h[0] = base /\ 0 \in 0 .. N
    BY <1>0 DEF RehearsalTrace
  <2>2. base \in Rehearsal
    <3>1. k \in SoundCells
      BY DEF Sound, SoundCells
    <3> QED  BY <3>1 DEF Rehearsal
  <2>3. Len(base.slots) = 0 /\ Len(base.saved) = 0 /\ 1 .. 0 = {}
    OBVIOUS
  <2> HIDE DEF base
  <2>4. AllFound(h, 0)
    BY <2>1, <2>3 DEF AllFound
  <2> QED  BY <2>1, <2>2, <2>4
<1>2. ASSUME NEW n \in 0 .. N - 1, n \in P PROVE n + 1 \in P
  <2> DEFINE a == h[n]
             b == h[n + 1]
             u == ubatches[n + 1]
  <2>1. n + 1 \in 1 .. N /\ (n + 1) - 1 = n /\ n + 1 \in 0 .. N /\ n \in Nat
        /\ 1 .. n + 1 = (1 .. n) \cup {n + 1} /\ n + 1 \notin 1 .. n
    BY <1>0
  <2>2. b = Rehearse(a, u) /\ u \in Request
    BY <1>0, <2>1 DEF RehearsalTrace, N
  <2>3. a \in Rehearsal /\ (a.ok => AllFound(h, n))
    BY <1>2
  <2> HIDE DEF a, b, u
  <2>4. /\ b \in Rehearsal
        /\ b.ok => a.ok /\ \E v \in Slotted, o \in Saved : Places(a, b, v, o)
    BY <2>2, <2>3, RehearseStep
  <2>5. ASSUME b.ok PROVE AllFound(h, n + 1)
    <3>1. PICK v \in Slotted, o \in Saved : Places(a, b, v, o)
      BY <2>4, <2>5
    <3>2. AllFound(h, n)
      BY <2>3, <2>4, <2>5
    <3>3. /\ a.slots \in Seq(Slotted) /\ a.saved \in Seq(Saved)
          /\ Len(a.slots) = n /\ Len(a.saved) = n
      BY <2>3, <3>2 DEF Rehearsal, AllFound, a
    <3>4. b.slots = Append(a.slots, v) /\ b.saved = Append(a.saved, o)
      BY <3>1 DEF Places
    <3>5. /\ Len(b.slots) = n + 1 /\ Len(b.saved) = n + 1
          /\ b.slots[n + 1] = v /\ b.saved[n + 1] = o
          /\ \A j \in 1 .. n : b.slots[j] = a.slots[j] /\ b.saved[j] = a.saved[j]
      BY <3>3, <3>4
    <3>6. /\ o.I = SlotOf(v) /\ o.pos = a.k.pos /\ o.seq = a.k.seq
          /\ \A i \in SlotOf(v) : CanUse(a.k, i)
          /\ b.k = ApplyUbatch(a.k, v)
      BY <3>1 DEF Places
    <3>7. ASSUME NEW j \in 1 .. n + 1
          PROVE  /\ b.saved[j].I = SlotOf(b.slots[j])
                 /\ b.saved[j].pos = h[j-1].k.pos /\ b.saved[j].seq = h[j-1].k.seq
                 /\ \A i \in SlotOf(b.slots[j]) : CanUse(h[j-1].k, i)
                 /\ h[j].k = ApplyUbatch(h[j-1].k, b.slots[j])
      <4>1. CASE j = n + 1
        <5>1. h[j-1] = a /\ h[j] = b
          BY <2>1, <4>1 DEF a, b
        <5> QED  BY <3>5, <3>6, <4>1, <5>1
      <4>2. CASE j # n + 1
        <5>1. j \in 1 .. n
          BY <2>1, <4>2
        <5>2. /\ a.saved[j].I = SlotOf(a.slots[j])
              /\ a.saved[j].pos = h[j-1].k.pos /\ a.saved[j].seq = h[j-1].k.seq
              /\ \A i \in SlotOf(a.slots[j]) : CanUse(h[j-1].k, i)
              /\ h[j].k = ApplyUbatch(h[j-1].k, a.slots[j])
          BY <3>2, <5>1 DEF AllFound, a
        <5> QED  BY <3>5, <5>1, <5>2
      <4> QED  BY <4>1, <4>2
    <3> QED  BY <3>5, <3>7 DEF AllFound, b
  <2> QED  BY <2>1, <2>4, <2>5 DEF b
<1>3. \A n \in 0 .. N - 1 : n \in P => n + 1 \in P
  BY <1>2
<1> HIDE DEF P
<1>4. \A n \in 0 .. N : n \in P
  BY <1>0, <1>1, <1>3, UpTo
<1> QED  BY <1>4 DEF P, N

\* m is on a course of q that begins with k, before any ubatch was placed.
RunsFrom(k, m, q) == \E K : K[1] = k /\ Course(K, q) /\ Follows(m, K, q, {})

\* prepare that succeeds found a slot for every ubatch and leaves the cells on the course
\* of its rehearsal; with one ubatch, prepare that fails changes nothing.
LEMMA PrepareCourse ==
    ASSUME NEW k, Sound(k), NEW ubatches \in Seq(Request), NEW p, p = Prepare(k, ubatches)
    PROVE  /\ p.ok => /\ Len(p.slots) = Len(ubatches)
                      /\ RunsFrom(k, p.k, p.slots)
           /\ ~p.ok /\ Len(ubatches) = 1 => p.k = k
<1> DEFINE N == Len(ubatches)
<1>0. N \in Nat
  OBVIOUS
<1>1. PICK h : /\ RehearsalTrace(h, k, ubatches)
               /\ p = LET end == h[N]
                      IN  [ok |-> end.ok, slots |-> end.slots, k |-> RollBack(end.k, end.saved)]
  BY RehearsalSteps
<1>2. \A n \in 0 .. N : h[n] \in Rehearsal /\ (h[n].ok => AllFound(h, n))
  BY <1>1, FoundSoFar
<1> DEFINE a == h[N]
<1>3. p.ok = a.ok /\ p.slots = a.slots /\ p.k = RollBack(a.k, a.saved)
  BY <1>1
<1>4. a \in Rehearsal /\ (a.ok => AllFound(h, N))
  BY <1>0, <1>2
<1> HIDE DEF a, N
<1>5. Sound(a.k) /\ a.slots \in Seq(Slotted) /\ a.saved \in Seq(Saved)
  BY <1>4 DEF Rehearsal, Sound, SoundCells
<1>6. ASSUME p.ok
      PROVE  /\ Len(p.slots) = N
             /\ RunsFrom(k, p.k, p.slots)
  <2> DEFINE K == [j \in 1 .. N + 1 |-> h[j - 1].k]
             q == p.slots
  <2>1. AllFound(h, N) /\ Len(q) = N /\ Len(a.saved) = N
    BY <1>3, <1>4, <1>6 DEF AllFound, a
  <2>2. \A j \in 1 .. N :
          /\ a.saved[j].I = SlotOf(q[j])
          /\ a.saved[j].pos = h[j-1].k.pos /\ a.saved[j].seq = h[j-1].k.seq
          /\ \A i \in SlotOf(q[j]) : CanUse(h[j-1].k, i)
          /\ h[j].k = ApplyUbatch(h[j-1].k, q[j])
    BY <1>3, <2>1 DEF AllFound, a
  <2>3. \A j \in 1 .. N + 1 : K[j] = h[j - 1].k
    OBVIOUS
  <2>4. \A j \in 1 .. N : j \in 1 .. N + 1 /\ j + 1 \in 1 .. N + 1 /\ (j + 1) - 1 = j
    BY <1>0
  <2> HIDE DEF K, q
  <2>5. Course(K, q)
    <3>1. ASSUME NEW j \in 1 .. N + 1 PROVE Sound(K[j])
      <4>1. j - 1 \in 0 .. N
        BY <1>0
      <4>2. h[j - 1].k \in SoundCells
        BY <1>2, <4>1 DEF Rehearsal
      <4> QED  BY <2>3, <4>2 DEF Sound, SoundCells
    <3>2. ASSUME NEW j \in 1 .. N
          PROVE  /\ \A i \in SlotOf(q[j]) : CanUse(K[j], i)
                 /\ K[j + 1] = ApplyUbatch(K[j], q[j])
      <4>1. K[j] = h[j - 1].k /\ K[j + 1] = h[j].k
        BY <2>3, <2>4
      <4> QED  BY <2>2, <4>1
    <3> QED  BY <2>1, <3>1, <3>2 DEF Course
  <2>6. ASSUME NEW i \in Cells PROVE RolledTo(p.k, a.k, a.saved, i, 1)
    BY <1>3, <1>5, RollBackFirst
  <2>7. ASSUME NEW i \in Cells, NEW j \in 1 .. N, i \in SlotOf(q[j]), Unseen(q, i, j)
        PROVE  Same(p.k, K[j], i)
    <3>1. i \in a.saved[j].I /\ \A l \in 1 .. j - 1 : i \notin a.saved[l].I
      <4>1. \A l \in 1 .. j - 1 : l \in 1 .. N
        BY <1>0
      <4> QED  BY <2>2, <2>7, <4>1 DEF Unseen
    <3>2. Same(p.k, a.saved[j], i)
      BY <2>1, <2>6, <3>1 DEF RolledTo
    <3>3. K[j] = h[j - 1].k
      BY <2>3, <2>4
    <3> QED  BY <2>2, <3>2, <3>3 DEF Same
  <2>8. ASSUME NEW i \in Cells, Unseen(q, i, N + 1) PROVE Same(p.k, K[N + 1], i)
    <3>1. \A l \in 1 .. N : i \notin a.saved[l].I
      <4>1. \A l \in 1 .. N : i \notin SlotOf(q[l])
        BY <1>0, <2>8, UnseenBefore
      <4> QED  BY <2>2, <4>1
    <3>2. Same(p.k, a.k, i)
      BY <2>1, <2>6, <3>1 DEF RolledTo
    <3>3. K[N + 1] = a.k
      <4>1. N + 1 \in 1 .. N + 1 /\ (N + 1) - 1 = N
        BY <1>0
      <4>2. K[N + 1] = h[(N + 1) - 1].k
        BY <2>3, <4>1
      <4>3. K[N + 1] = h[N].k
        BY <4>1, <4>2
      <4> QED  BY <4>3 DEF a
    <3> QED  BY <3>2, <3>3
  <2>9. Follows(p.k, K, q, {})
    BY <2>1, <2>7, <2>8 DEF Follows
  <2>10. K[1] = k
    <3>1. 1 \in 1 .. N + 1 /\ 1 - 1 = 0
      BY <1>0
    <3>2. h[0].k = k
      BY <1>1 DEF RehearsalTrace
    <3> QED  BY <2>3, <3>1, <3>2
  <2> QED  BY <2>1, <2>5, <2>9, <2>10 DEF q, RunsFrom
<1>7. ASSUME ~p.ok, N = 1 PROVE p.k = k
  <2> DEFINE b == h[0]
             u == ubatches[1]
  <2>1. b = [ok |-> TRUE, k |-> k, slots |-> <<>>, saved |-> <<>>] /\ a = Rehearse(b, u)
        /\ u \in Request /\ b \in Rehearsal
    <3>1. 1 \in 1 .. N /\ 1 - 1 = 0 /\ 0 \in 0 .. N /\ N = Len(ubatches)
      BY <1>7 DEF N
    <3>2. h[1] = Rehearse(b, u)
      BY <1>1, <3>1 DEF RehearsalTrace
    <3>3. b = [ok |-> TRUE, k |-> k, slots |-> <<>>, saved |-> <<>>]
      BY <1>1 DEF RehearsalTrace
    <3>4. a = h[1]
      BY <1>7 DEF a
    <3>5. b \in Rehearsal
      BY <1>2, <3>1
    <3>6. u \in Request
      BY <3>1
    <3> QED  BY <3>2, <3>3, <3>4, <3>5, <3>6
  <2> HIDE DEF b, u
  <2>2. a.k = b.k /\ a.saved = b.saved
    BY <1>3, <1>7, <2>1, RehearseStep
  <2>3. a.k = k /\ a.saved = <<>>
    BY <2>1, <2>2
  <2>4. PICK r : RollTrace(r, k, <<>>) /\ r[Len(<<>>)] = RollBack(k, <<>>)
    <3>1. <<>> \in Seq(Saved)
      OBVIOUS
    <3> QED  BY <3>1, RollBackSteps
  <2>5. Len(<<>>) = 0
    OBVIOUS
  <2> QED  BY <1>3, <2>3, <2>4, <2>5 DEF RollTrace
<1> QED  BY <1>6, <1>7 DEF N

\* seq_pos_max is a position of the sequence and no position is above it.
LEMMA TopPosition ==
    ASSUME NEW k, Sound(k), NEW s \in Seqs
    PROVE  /\ SeqPosMax(k, s) \in -1 .. MaxPos /\ SeqPosMax(k, s) \in Int
           /\ \A i \in Cells : s \in k.seq[i] => k.pos[i] <= SeqPosMax(k, s)
           /\ SeqPosMax(k, s) # -1 =>
                 \E i \in Cells : s \in k.seq[i] /\ k.pos[i] = SeqPosMax(k, s)
<1> DEFINE V == Present(k, s)
<1>0. MaxPos \in Nat /\ SeqPosMax(k, s) \in -1 .. MaxPos
  BY LastPosition, CacheConstants
<1>1. V \in SUBSET (-1 .. MaxPos) /\ V \in SUBSET Positions
  BY <1>0 DEF Present, Positions
<1>2. ASSUME NEW p \in Positions
      PROVE  p \in V <=> \E i \in Cells : s \in k.seq[i] /\ k.pos[i] = p
  <2> DEFINE A == {i \in Cells : s \in k.seq[i] /\ k.pos[i] = p}
  <2>1. k.count[s][p] = Cardinality(A)
    BY DEF Sound, Consistent, Times
  <2>2. p \in V <=> k.count[s][p] > 0
    BY DEF Present
  <2>3. IsFiniteSet(A)
    BY CellFacts, FS_Subset
  <2> HIDE DEF A, V
  <2>4. Cardinality(A) \in Nat /\ (Cardinality(A) = 0 <=> A = {})
    BY <2>3, FS_CardinalityType, FS_EmptySet
  <2>5. p \in V <=> A # {}
    BY <2>1, <2>2, <2>4
  <2> QED  BY <2>5 DEF A
<1>3. V # {} => Max(V) \in V /\ \A y \in V : Max(V) >= y
  <2> HIDE DEF V
  <2> QED  BY <1>0, <1>1, MaxOf
<1>4. SeqPosMax(k, s) = IF V = {} THEN -1 ELSE Max(V)
  BY DEF SeqPosMax
<1> HIDE DEF V
<1>5. ASSUME NEW i \in Cells, s \in k.seq[i] PROVE k.pos[i] <= SeqPosMax(k, s)
  <2>1. k.pos[i] \in Positions
    BY <1>5, SoundCell
  <2>2. k.pos[i] \in V
    BY <1>2, <1>5, <2>1
  <2> QED  BY <1>0, <1>3, <1>4, <2>2
<1>6. ASSUME SeqPosMax(k, s) # -1
      PROVE  \E i \in Cells : s \in k.seq[i] /\ k.pos[i] = SeqPosMax(k, s)
  <2>1. SeqPosMax(k, s) \in V /\ SeqPosMax(k, s) \in Positions
    BY <1>1, <1>3, <1>4, <1>6
  <2> QED  BY <1>2, <2>1
<1> QED  BY <1>0, <1>5, <1>6

\* Caches with the same cells have the same seq_pos_max.
LEMMA TopSame ==
    ASSUME NEW k, Sound(k), NEW m, Sound(m), m.pos = k.pos, m.seq = k.seq, NEW s \in Seqs
    PROVE  SeqPosMax(m, s) = SeqPosMax(k, s)
<1>1. \A p \in Positions : m.count[s][p] = k.count[s][p]
  BY DEF Sound, Consistent
<1>2. Present(m, s) = Present(k, s)
  BY <1>1 DEF Present
<1> QED  BY <1>2 DEF SeqPosMax

\* The positions that a slot of usable cells overwrites are below every visible
\* position of their sequence.
LEMMA OverwrittenMasked ==
    ASSUME NEW k, Sound(k), nSwa \in Nat, NEW u \in Slotted,
           \A i \in SlotOf(u) : CanUse(k, i),
           NEW i \in Cells, NEW s \in k.seq[i], ~Masked(k.pos[i], SeqPosMax(k, s) + 1)
    PROVE  i \notin SlotOf(u) /\ k.pos[i] > Overwritten(k, SlotOf(u))[s]
<1> DEFINE I == SlotOf(u)
           V == {-1} \cup {k.pos[j] : j \in {j \in I : s \in k.seq[j]}}
           top == SeqPosMax(k, s)
<1>1. I \in SUBSET Cells /\ MaxPos \in Nat
  BY SlotFacts, CacheConstants
<1>2. s \in Seqs /\ k.pos[i] \in Nat /\ k.pos[i] # -1
  BY SoundCell
<1>3. top \in Int
  BY <1>2, TopPosition
<1>4. ASSUME NEW j \in I, s \in k.seq[j]
      PROVE  k.pos[j] \in Int /\ Masked(k.pos[j], top + 1)
  <2>1. CanUse(k, j) /\ j \in Cells
    BY <1>1
  <2>2. k.pos[j] # -1 /\ k.pos[j] \in Int
    BY <1>4, <2>1, SoundCell
  <2>3. PICK t \in Seqs : k.seq[j] = {t} /\ Masked(k.pos[j], SeqPosMax(k, t) + 1)
    BY <2>1, <2>2 DEF CanUse
  <2>4. t = s
    BY <1>4, <2>3
  <2> QED  BY <2>2, <2>3, <2>4
<1>5. i \notin I
  BY <1>4
<1>6. Overwritten(k, I)[s] \in V
  <2>1. Overwritten(k, I)[s] = Max(V)
    BY <1>2 DEF Overwritten
  <2>2. V \in SUBSET (-1 .. MaxPos) /\ V # {}
    <3>1. \A j \in I : k.pos[j] \in -1 .. MaxPos
      BY <1>1, SoundCell DEF Positions
    <3> QED  BY <1>1, <3>1
  <2> HIDE DEF V
  <2> QED  BY <1>1, <2>1, <2>2, MaxOf
<1> HIDE DEF top
<1>7. ASSUME NEW j \in I, s \in k.seq[j] PROVE k.pos[i] > k.pos[j]
  <2>1. Masked(k.pos[j], top + 1) /\ ~Masked(k.pos[i], top + 1) /\ k.pos[j] \in Int
    BY <1>4, <1>7 DEF top
  <2> QED  BY <1>2, <1>3, <2>1 DEF Masked
<1> QED  BY <1>2, <1>5, <1>6, <1>7

\* A ubatch in usable cells leaves what is visible.
LEMMA ApplyVisible ==
    ASSUME NEW k, Sound(k), nSwa \in Nat, NEW u \in Slotted,
           \A i \in SlotOf(u) : CanUse(k, i), NEW m, m = ApplyUbatch(k, u),
           NEW i \in Cells, NEW s \in k.seq[i], ~Masked(k.pos[i], SeqPosMax(k, s) + 1)
    PROVE  i \notin SlotOf(u) /\ s \in m.seq[i] /\ m.pos[i] = k.pos[i]
<1> DEFINE rm == Overwritten(k, SlotOf(u))
<1>1. i \notin SlotOf(u) /\ k.pos[i] > rm[s]
  BY OverwrittenMasked
<1>2. /\ m.seq[i] = Surviving(k, i, rm)
      /\ m.pos[i] = IF m.seq[i] = {} THEN -1 ELSE k.pos[i]
  BY <1>1, ApplyOff
<1> HIDE DEF rm
<1>3. s \in m.seq[i]
  BY <1>1, <1>2 DEF Surviving
<1> QED  BY <1>1, <1>2, <1>3

\* The cells m can be reached on a course of the slots that were found for q.
Replays(m, q) == \E K, W : W \in SUBSET Cells /\ Course(K, q) /\ Follows(m, K, q, W)

\* When there are no ubatches left any cells are on a course.
LEMMA NothingLeft ==
    ASSUME NEW m, Sound(m) PROVE Replays(m, <<>>)
<1> DEFINE K == [j \in 1 .. 1 |-> m]
<1>1. Len(<<>>) = 0 /\ 1 .. 0 = {} /\ 1 .. 0 + 1 = {1} /\ 0 + 1 = 1
  OBVIOUS
<1>2. K[1] = m
  OBVIOUS
<1> HIDE DEF K
<1>3. Course(K, <<>>)
  BY <1>1, <1>2 DEF Course
<1>4. Follows(m, K, <<>>, {})
  BY <1>1, <1>2 DEF Follows, Same
<1>5. {} \in SUBSET Cells
  OBVIOUS
<1> QED  BY <1>3, <1>4, <1>5 DEF Replays

\* decode up to the loop over the ubatches leads onto a course of the slots it found.
\* With one ubatch this course begins with the cells before the call, also after a
\* second attempt, as the failed first one changed nothing.
LEMMA BeginCourse ==
    ASSUME Sound(c), NEW s \in Seqs, NEW n \in Nat \ {0}, NEW p \in Nat, NEW shifts,
           DecodeBegin(s, p, n, shifts)
    PROVE  /\ todo' # <<>> => \E k : Sound(k) /\ RunsFrom(k, c', todo')
           /\ Len(todo') = 1 => \E k : /\ Sound(k) /\ RunsFrom(k, c', todo')
                                       /\ k.pos = c.pos /\ k.seq = c.seq
<1> DEFINE q == Split(s, p, n)
           k1 == IF shifts[1] THEN Shifted(c) ELSE c
           p1 == Prepare(k1, q)
           again == ~p1.ok /\ p1.k.hasShift
           k2 == IF shifts[2] THEN Shifted(p1.k) ELSE p1.k
           p3 == Prepare(k2, q)
           p2 == IF again THEN p3 ELSE p1
<1>0. p + n - 1 <= MaxPos
  BY CacheConstants DEF DecodeBegin, Positions
<1>1. q \in Seq(Request)
  BY <1>0, SplitRequests
<1>2. c' = p2.k /\ todo' = IF p2.ok THEN p2.slots ELSE <<>>
  BY DEF DecodeBegin
<1>3. Sound(k1) /\ k1.pos = c.pos /\ k1.seq = c.seq
  BY ShiftedSound
<1> HIDE DEF q
<1>4. p1 = Prepare(k1, q)
  OBVIOUS
<1> HIDE DEF k1, p1
<1>5. /\ Sound(p1.k)
      /\ p1.ok => Len(p1.slots) = Len(q) /\ RunsFrom(k1, p1.k, p1.slots)
      /\ ~p1.ok /\ Len(q) = 1 => p1.k = k1
  BY <1>1, <1>3, <1>4, PrepareSound, PrepareCourse
<1>6. Sound(k2) /\ k2.pos = p1.k.pos /\ k2.seq = p1.k.seq
  BY <1>5, ShiftedSound
<1>7. p3 = Prepare(k2, q)
  OBVIOUS
<1> HIDE DEF k2, p3
<1>8. p3.ok => Len(p3.slots) = Len(q) /\ RunsFrom(k2, p3.k, p3.slots)
  BY <1>1, <1>6, <1>7, PrepareCourse
<1>9. CASE again
  BY <1>2, <1>3, <1>5, <1>6, <1>8, <1>9
<1>10. CASE ~again
  BY <1>2, <1>3, <1>5, <1>10
<1> QED  BY <1>9, <1>10

\* What a batch of one ubatch leaves visible before the ubatch is placed.
LEMMA BeginVisible ==
    ASSUME NEW k, Sound(k), NEW m, NEW m1, Sound(m), m.pos = k.pos, m.seq = k.seq,
           nSwa \in Nat, NEW q \in Seq(Slotted), Len(q) = 1, RunsFrom(k, m1, q),
           NEW i \in Cells, NEW s \in m.seq[i], ~Masked(m.pos[i], SeqPosMax(m, s) + 1)
    PROVE  s \in m1.seq[i] /\ m1.pos[i] = m.pos[i]
<1> DEFINE u == q[1]
<1>1. PICK K : K[1] = k /\ Course(K, q) /\ Follows(m1, K, q, {})
  BY DEF RunsFrom
<1>2. u \in Slotted /\ 1 \in 1 .. Len(q) /\ Len(q) + 1 = 2 /\ 1 + 1 = 2 /\ s \in Seqs
  <2>1. 1 \in 1 .. Len(q) /\ Len(q) + 1 = 2 /\ 1 + 1 = 2
    OBVIOUS
  <2>2. u \in Slotted
    BY OneSlot
  <2>3. s \in Seqs
    BY SoundCell
  <2> QED  BY <2>1, <2>2, <2>3
<1>3. (\A j \in SlotOf(u) : CanUse(k, j)) /\ K[2] = ApplyUbatch(k, u)
  BY <1>1, <1>2 DEF Course
<1>4. s \in k.seq[i] /\ ~Masked(k.pos[i], SeqPosMax(k, s) + 1)
  BY <1>2, TopSame
<1> DEFINE y == K[2]
<1>5. y = ApplyUbatch(k, u)
  BY <1>3
<1> HIDE DEF u, y
<1>6. i \notin SlotOf(u) /\ s \in y.seq[i] /\ y.pos[i] = k.pos[i]
  BY <1>2, <1>3, <1>4, <1>5, ApplyVisible
<1>7. Unseen(q, i, Len(q) + 1)
  <2>1. 1 .. Len(q) + 1 - 1 = {1}
    OBVIOUS
  <2> QED  BY <1>6, <2>1 DEF Unseen, u
<1>8. Same(m1, y, i)
  BY <1>1, <1>2, <1>7 DEF Follows, y
<1> QED  BY <1>6, <1>8 DEF Same

\* The last ubatch of a course leaves what is visible: cells that ubatches have
\* filled, or that it fills, are as in the rehearsal; the others were purged before
\* if at all. The highest position of a sequence is still there, or nothing is visible.
LEMMA LastVisible ==
    ASSUME NEW m, Sound(m), nSwa \in Nat, NEW q \in Seq(Slotted), Len(q) = 1, Replays(m, q),
           NEW i \in Cells, NEW s \in m.seq[i], ~Masked(m.pos[i], SeqPosMax(m, s) + 1)
    PROVE  /\ s \in ApplyUbatch(m, q[1]).seq[i]
           /\ ApplyUbatch(m, q[1]).pos[i] = m.pos[i]
<1> DEFINE u == q[1]
           m1 == ApplyUbatch(m, u)
<1>1. PICK K, W : W \in SUBSET Cells /\ Course(K, q) /\ Follows(m, K, q, W)
  BY DEF Replays
<1> DEFINE k == K[1]
           y == K[2]
           V == W \cup SlotOf(u)
<1>2. /\ q # <<>> /\ u \in Slotted /\ 1 \in 1 .. Len(q) /\ 1 \in 1 .. Len(q) + 1
      /\ Len(q) + 1 = 2 /\ 1 + 1 = 2 /\ s \in Seqs /\ Len(Tail(q)) = 0
  <2>1. /\ 1 \in 1 .. Len(q) /\ 1 \in 1 .. Len(q) + 1
        /\ Len(q) + 1 = 2 /\ 1 + 1 = 2
    OBVIOUS
  <2>2. u \in Slotted /\ q # <<>> /\ Len(Tail(q)) = 0
    BY OneSlot
  <2>3. s \in Seqs
    BY SoundCell
  <2> QED  BY <2>1, <2>2, <2>3
<1>3. Sound(k) /\ (\A j \in SlotOf(u) : CanUse(k, j)) /\ y = ApplyUbatch(k, u)
  BY <1>1, <1>2 DEF Course
<1>4. /\ \A j \in SlotOf(u) : Same(m, k, j)
      /\ \E K2 : /\ Course(K2, Tail(q)) /\ K2[1] = y
                 /\ Follows(m1, K2, Tail(q), V)
  BY <1>1, <1>2, FollowStep
<1>5. ASSUME NEW j \in Cells \ V PROVE Same(m, y, j)
  <2>1. Unseen(q, j, Len(q) + 1)
    <3>1. 1 .. Len(q) + 1 - 1 = {1} /\ j \notin SlotOf(q[1])
      OBVIOUS
    <3> QED  BY <3>1 DEF Unseen
  <2>2. j \in Cells \ W
    OBVIOUS
  <2> QED  BY <1>1, <1>2, <2>1, <2>2 DEF Follows
<1>6. ASSUME NEW j \in V PROVE Same(m, k, j) /\ j \in Cells
  <2>1. j \in Cells
    BY <1>1, <1>2, SlotFacts
  <2> QED  BY <1>1, <1>4, <2>1 DEF Follows
<1>7. ASSUME NEW j \in Cells PROVE Same(m1, y, j)
  <2> DEFINE t == Tail(q)
  <2>1. PICK K2 : Course(K2, t) /\ K2[1] = y /\ Follows(m1, K2, t, V)
    BY <1>4
  <2>2. Len(t) + 1 = 1 /\ 1 .. 1 - 1 = {}
    BY <1>2
  <2> HIDE DEF m1, V, t
  <2>3. Unseen(t, j, Len(t) + 1)
    BY <2>2 DEF Unseen
  <2>4. j \in V \/ j \in Cells \ V
    OBVIOUS
  <2> QED  BY <2>1, <2>2, <2>3, <2>4 DEF Follows
<1> HIDE DEF u, m1, k, y, V
<1>8. ASSUME NEW j \in Cells, s \in k.seq[j], ~Masked(k.pos[j], SeqPosMax(k, s) + 1)
      PROVE  s \in y.seq[j] /\ y.pos[j] = k.pos[j]
  BY <1>2, <1>3, <1>8, ApplyVisible
<1> DEFINE top == SeqPosMax(m, s)
           high == SeqPosMax(k, s)
<1>9. /\ top \in Int /\ \A j \in Cells : s \in m.seq[j] => m.pos[j] <= top
      /\ m.pos[i] \in Int /\ m.pos[i] >= 0
  BY <1>2, SoundCell, TopPosition
<1>10. /\ high \in Int /\ \A j \in Cells : s \in k.seq[j] => k.pos[j] <= high
       /\ high # -1 => \E j \in Cells : s \in k.seq[j] /\ k.pos[j] = high
  BY <1>2, <1>3, TopPosition
<1> HIDE DEF top, high
<1>11. top >= high
  <2>1. nSwa # 1
    BY <1>9 DEF Masked, top
  <2>2. ASSUME high # -1 PROVE top >= high
    <3>1. PICK j \in Cells : s \in k.seq[j] /\ k.pos[j] = high
      BY <1>10, <2>2
    <3>2. ~Masked(k.pos[j], high + 1)
      BY <1>10, <2>1, <3>1 DEF Masked
    <3>3. s \in y.seq[j] /\ y.pos[j] = high
      BY <1>8, <3>1, <3>2 DEF high
    <3>4. s \in m.seq[j] /\ m.pos[j] = high
      <4>1. j \in V \/ j \in Cells \ V
        OBVIOUS
      <4> QED  BY <1>5, <1>6, <3>1, <3>3, <4>1 DEF Same
    <3> QED  BY <1>9, <3>4
  <2>3. top >= -1
    BY <1>9
  <2> QED  BY <2>2, <2>3
<1>12. CASE i \in V
  <2>1. s \in k.seq[i] /\ k.pos[i] = m.pos[i]
    BY <1>6, <1>12 DEF Same
  <2>2. ~Masked(k.pos[i], high + 1)
    BY <1>9, <1>10, <1>11, <2>1 DEF Masked, top
  <2> QED  BY <1>7, <1>8, <2>1, <2>2 DEF Same, high, u, m1
<1>13. CASE i \notin V
  BY <1>5, <1>7, <1>13 DEF Same, u, m1
<1> QED  BY <1>12, <1>13

\* The invariant, and that the cells are on a course of the slots still to fill.
WindowInvariant == CacheInvariant /\ Replays(c, todo)

\* Every step keeps it: decode leads onto a course, a placed ubatch goes along it, and
\* after every other step no ubatch is left.
LEMMA WindowStepInv ==
    WindowInvariant /\ [CacheNext]_cacheVars => WindowInvariant'
<1> SUFFICES ASSUME WindowInvariant, [CacheNext]_cacheVars PROVE WindowInvariant'
  OBVIOUS
<1>0. CacheInvariant /\ CacheInvariant' /\ Replays(c, todo)
  BY CacheStepInv DEF WindowInvariant
<1>1. Sound(c) /\ Sound(c') /\ todo \in Seq(Slotted)
  BY <1>0 DEF CacheInvariant, Accounting, CacheTypeOK, Sound
<1> SUFFICES Replays(c', todo')
  <2>1. nSwa' = nSwa
    <3>1. ASSUME NEW k, Edit(k) PROVE nSwa' = nSwa
      BY <3>1 DEF Edit
    <3>2. CASE Decode
      <4>1. ASSUME NEW s, NEW p, DecodeRefused(s, p) PROVE nSwa' = nSwa
        BY <4>1 DEF DecodeRefused
      <4>2. ASSUME NEW s, NEW p, NEW n, NEW shifts, DecodeBegin(s, p, n, shifts)
            PROVE  nSwa' = nSwa
        BY <4>2 DEF DecodeBegin
      <4> QED  BY <3>2, <4>1, <4>2 DEF Decode
    <3>3. CASE Process \/ ProcessFails
      BY <3>3 DEF Process, ProcessFails
    <3>4. CASE UNCHANGED cacheVars
      BY <3>4 DEF cacheVars
    <3>5. CASE EditClear \/ EditRm \/ EditRmAny \/ EditKeep
      BY <3>1, <3>5 DEF EditClear, EditRm, EditRmAny, EditKeep
    <3>6. CASE EditCp \/ EditAdd \/ EditDiv
      BY <3>1, <3>6 DEF EditCp, EditAdd, EditDiv
    <3> QED  BY <3>2, <3>3, <3>4, <3>5, <3>6 DEF CacheNext
  <2>2. ASSUME Replays(c', todo') PROVE Replays(c, todo)'
    <3>1. PICK K, W : W \in SUBSET Cells /\ Course(K, todo') /\ Follows(c', K, todo', W)
      BY <2>2 DEF Replays
    <3>2. Course(K, todo)'
      BY <2>1, <3>1 DEF Course, CanUse, Masked
    <3> QED  BY <3>1, <3>2 DEF Replays
  <2> QED  BY <1>0, <2>2 DEF WindowInvariant
<1>2. ASSUME todo' = <<>> PROVE Replays(c', todo')
  BY <1>1, <1>2, NothingLeft
<1>3. CASE Decode
  <2>0. PICK s \in Seqs, n \in 1 .. NBatch : \E p \in {0, SeqPosMax(c, s) + 1} :
          DecodeRefused(s, p) \/ \E shifts \in KShifts : DecodeBegin(s, p, n, shifts)
    BY <1>3 DEF Decode
  <2>1. PICK p \in {0, SeqPosMax(c, s) + 1} :
          DecodeRefused(s, p) \/ \E shifts \in KShifts : DecodeBegin(s, p, n, shifts)
    BY <2>0
  <2>2. p \in Nat /\ n \in Nat \ {0}
    <3>1. SeqPosMax(c, s) \in -1 .. MaxPos
      BY LastPosition
    <3> QED  BY <3>1, CacheConstants
  <2>3. CASE DecodeRefused(s, p)
    BY <1>0, <2>3 DEF DecodeRefused
  <2>4. ASSUME NEW shifts, DecodeBegin(s, p, n, shifts), todo' # <<>>
        PROVE  Replays(c', todo')
    <3>1. PICK k : RunsFrom(k, c', todo')
      BY <1>1, <2>2, <2>4, BeginCourse
    <3>2. {} \in SUBSET Cells
      OBVIOUS
    <3> QED  BY <3>1, <3>2 DEF RunsFrom, Replays
  <2> QED  BY <1>2, <2>1, <2>3, <2>4
<1>4. CASE Process
  <2>1. todo # <<>> /\ c' = ApplyUbatch(c, todo[1]) /\ todo' = Tail(todo)
    <3>1. todo # <<>> /\ c' = ApplyUbatch(c, Head(todo)) /\ todo' = Tail(todo)
      BY <1>4 DEF Process
    <3>2. Head(todo) = todo[1]
      BY <1>1, <3>1
    <3> QED  BY <3>1, <3>2
  <2>2. PICK K, W : W \in SUBSET Cells /\ Course(K, todo) /\ Follows(c, K, todo, W)
    BY <1>0 DEF Replays
  <2>3. PICK K2 : /\ Course(K2, Tail(todo))
                  /\ Follows(ApplyUbatch(c, todo[1]), K2, Tail(todo), W \cup SlotOf(todo[1]))
    BY <1>1, <2>1, <2>2, FollowStep
  <2>4. W \cup SlotOf(todo[1]) \in SUBSET Cells
    BY <1>1, <2>1, <2>2, SlotFacts
  <2> DEFINE V == W \cup SlotOf(todo[1])
  <2> HIDE DEF V
  <2>5. V \in SUBSET Cells /\ Course(K2, todo') /\ Follows(c', K2, todo', V)
    BY <2>1, <2>3, <2>4 DEF V
  <2> QED  BY <2>5 DEF Replays
<1>5. CASE ProcessFails
  BY <1>2, <1>5 DEF ProcessFails
<1>6. CASE UNCHANGED cacheVars
  BY <1>0, <1>6 DEF cacheVars
<1>7. ASSUME NEW k, Edit(k) PROVE todo' = <<>>
  BY <1>7 DEF Edit
<1>8. CASE EditClear \/ EditRm \/ EditRmAny \/ EditKeep \/ EditCp \/ EditAdd \/ EditDiv
  BY <1>2, <1>7, <1>8 DEF EditClear, EditRm, EditRmAny, EditKeep, EditCp, EditAdd, EditDiv
<1> QED  BY <1>3, <1>4, <1>5, <1>6, <1>8 DEF CacheNext

\* The start of a decode takes nothing visible: without sliding window it changes no
\* cell, and with one it has a single ubatch, on a course that begins here.
LEMMA DecodeVisible ==
    ASSUME WindowInvariant, Decode, nSwa = 0 \/ Len(todo \o todo') = 1,
           NEW i \in Cells, NEW s \in c.seq[i], ~Masked(c.pos[i], SeqPosMax(c, s) + 1)
    PROVE  s \in c'.seq[i] /\ c'.pos[i] = c.pos[i]
<1>0. CacheInvariant /\ Sound(c) /\ nSwa \in Nat
  BY CacheConstants DEF WindowInvariant, CacheInvariant, Accounting, CacheTypeOK, Sound
<1>1. todo = <<>> /\ todo' \in Seq(Slotted) /\ (nSwa = 0 => c'.seq = c.seq /\ c'.pos = c.pos)
  BY <1>0, DecodeSteps
<1>2. CASE nSwa = 0
  BY <1>1, <1>2
<1>3. CASE Len(todo \o todo') = 1
  <2>1. Len(todo') = 1
    BY <1>1, <1>3
  <2>0. PICK t \in Seqs, n \in 1 .. NBatch : \E p \in {0, SeqPosMax(c, t) + 1} :
          DecodeRefused(t, p) \/ \E shifts \in KShifts : DecodeBegin(t, p, n, shifts)
    BY DEF Decode
  <2>2. PICK p \in {0, SeqPosMax(c, t) + 1} :
          DecodeRefused(t, p) \/ \E shifts \in KShifts : DecodeBegin(t, p, n, shifts)
    BY <2>0
  <2>3. p \in Nat /\ n \in Nat \ {0}
    <3>1. SeqPosMax(c, t) \in -1 .. MaxPos
      BY LastPosition
    <3> QED  BY <3>1, CacheConstants
  <2>4. CASE DecodeRefused(t, p)
    BY <2>4 DEF DecodeRefused
  <2>5. ASSUME NEW shifts, DecodeBegin(t, p, n, shifts)
        PROVE  s \in c'.seq[i] /\ c'.pos[i] = c.pos[i]
    <3>1. PICK k : Sound(k) /\ RunsFrom(k, c', todo') /\ k.pos = c.pos /\ k.seq = c.seq
      BY <1>0, <2>1, <2>3, <2>5, BeginCourse
    <3> QED  BY <1>0, <1>1, <2>1, <3>1, BeginVisible
  <2> QED  BY <2>2, <2>4, <2>5
<1> QED  BY <1>2, <1>3

\* The next ubatch takes nothing visible: without sliding window it fills free cells,
\* and with one it is the last of its course.
LEMMA PlacedVisible ==
    ASSUME WindowInvariant, todo # <<>>, nSwa = 0 \/ Len(todo) = 1,
           NEW i \in Cells, NEW s \in c.seq[i], ~Masked(c.pos[i], SeqPosMax(c, s) + 1),
           NEW m, m = ApplyUbatch(c, Head(todo))
    PROVE  Sound(m) /\ Head(todo) \in Slotted /\ s \in m.seq[i] /\ m.pos[i] = c.pos[i]
<1>0. /\ CacheInvariant /\ Sound(c) /\ nSwa \in Nat /\ todo \in Seq(Slotted)
      /\ Replays(c, todo)
  BY CacheConstants DEF WindowInvariant, CacheInvariant, Accounting, CacheTypeOK, Sound
<1>1. Sound(m) /\ Head(todo) \in Slotted /\ Head(todo) = todo[1]
  <2>1. Head(todo) = todo[1]
    BY <1>0
  <2> QED  BY <1>0, <2>1, ApplyKeeps
<1>2. CASE nSwa = 0
  <2>1. c.pos[i] # -1
    BY <1>0, SoundCell
  <2>2. i \notin SlotOf(Head(todo))
    BY <1>0, <1>2, <2>1, ApplyKeeps
  <2> QED  BY <1>0, <1>1, <1>2, <2>2, ApplyKeeps
<1>3. CASE Len(todo) = 1
  BY <1>0, <1>1, <1>3, LastVisible
<1> QED  BY <1>2, <1>3

\* No step of a decode takes a visible position, but those of a failed ubatch.
LEMMA VisibleStep ==
    ASSUME WindowInvariant, CacheNext, status' # "none", nSwa = 0 \/ Len(todo \o todo') = 1
    PROVE  KeepsVisible
<1> SUFFICES ASSUME NEW i \in Cells, NEW s \in Seqs, s \in c.seq[i],
                    ~Masked(c.pos[i], SeqPosMax(c, s) + 1)
             PROVE  \/ s \in c'.seq[i] /\ c'.pos[i] = c.pos[i]
                    \/ status' = "failed" /\ s = Head(todo).seq /\ c.pos[i] >= Head(todo).pos
  BY DEF KeepsVisible, Visible
<1>0. todo \in Seq(Slotted)
  BY DEF WindowInvariant, CacheInvariant
<1>1. CASE Decode
  BY <1>1, DecodeVisible
<1> DEFINE u == Head(todo)
           m == ApplyUbatch(c, u)
<1>2. ASSUME todo # <<>>, todo' = Tail(todo) \/ todo' = <<>>
      PROVE  Sound(m) /\ u \in Slotted /\ s \in m.seq[i] /\ m.pos[i] = c.pos[i]
  <2>1. nSwa = 0 \/ Len(todo) = 1
    <3>1. todo' \in Seq(Slotted) /\ Len(todo) \in Nat /\ Len(todo) # 0
      <4>1. Tail(todo) \in Seq(Slotted) /\ <<>> \in Seq(Slotted)
        BY <1>0, <1>2
      <4>2. Len(todo) \in Nat /\ Len(todo) # 0
        BY <1>0, <1>2
      <4> QED  BY <1>2, <4>1, <4>2
    <3>2. Len(todo') \in Nat /\ Len(todo \o todo') = Len(todo) + Len(todo')
      BY <1>0, <3>1
    <3> DEFINE x == Len(todo)
               y == Len(todo')
               z == Len(todo \o todo')
    <3>3. x \in Nat /\ x # 0 /\ y \in Nat /\ z = x + y
      BY <3>1, <3>2
    <3>4. nSwa = 0 \/ z = 1
      OBVIOUS
    <3> HIDE DEF x, y, z
    <3>5. z = 1 => x = 1
      BY <3>3
    <3> QED  BY <3>4, <3>5 DEF x, z
  <2> QED  BY <1>2, <2>1, PlacedVisible
<1>3. CASE Process
  <2>1. c' = m /\ todo # <<>> /\ todo' = Tail(todo)
    BY <1>3 DEF Process
  <2> HIDE DEF m
  <2> QED  BY <1>2, <2>1
<1>4. CASE ProcessFails
  <2> DEFINE I == InRange(m, u.seq, FailedFrom(u), Inf)
  <2>1. c' = SeqRm(m, u.seq, FailedFrom(u), Inf) /\ todo # <<>> /\ status' = "failed"
        /\ todo' = <<>>
    BY <1>4 DEF ProcessFails
  <2>2. Sound(m) /\ u \in Slotted /\ s \in m.seq[i] /\ m.pos[i] = c.pos[i]
    BY <1>2, <2>1
  <2> HIDE DEF m, u
  <2>3. c'.pos = PosWithout(m, I, {u.seq}) /\ c'.seq = Without(m, I, {u.seq})
    BY <2>1, <2>2, SeqRmSound
  <2>4. i \in I => c.pos[i] >= u.pos
    BY <2>2 DEF InRange, FailedFrom
  <2> HIDE DEF I
  <2>5. c'.seq[i] = IF i \in I THEN m.seq[i] \ {u.seq} ELSE m.seq[i]
    BY <2>3 DEF Without
  <2>6. c'.pos[i] = IF i \in I /\ m.seq[i] \ {u.seq} = {} THEN -1 ELSE c.pos[i]
    BY <2>2, <2>3 DEF PosWithout
  <2>7. CASE s = u.seq /\ i \in I
    BY <2>1, <2>4, <2>7 DEF u
  <2>8. CASE ~(s = u.seq /\ i \in I)
    BY <2>2, <2>5, <2>6, <2>8
  <2> QED  BY <2>7, <2>8
<1>5. Decode \/ Process \/ ProcessFails
  BY DEF CacheNext, EditClear, EditRm, EditRmAny, EditKeep, EditCp, EditAdd, EditDiv, Edit
<1> QED  BY <1>1, <1>3, <1>4, <1>5

\* No call of llama_decode loses a position that the next token of its sequence attends
\* to, but those of a ubatch that failed: without sliding window whatever the batch, and
\* with one for a batch of one ubatch and for the last ubatch of every batch
\* (llama_kv_cache::prepare and apply_ubatch, llama_context::decode).
THEOREM VisibleNeverLost == CacheSpec => VisibleKept
<1>1. CacheInit => WindowInvariant
  <2> SUFFICES ASSUME CacheInit PROVE WindowInvariant
    OBVIOUS
  <2>1. CacheInvariant /\ Sound(c) /\ todo = <<>>
    BY CacheInitInv DEF CacheInit, CacheInvariant, Accounting, CacheTypeOK, Sound
  <2> QED  BY <2>1, NothingLeft DEF WindowInvariant
<1>2. ASSUME WindowInvariant, [CacheNext]_cacheVars
      PROVE  [status' # "none" /\ (nSwa = 0 \/ Len(todo \o todo') = 1) => KeepsVisible]_cacheVars
  BY <1>2, VisibleStep
<1> QED  BY <1>1, <1>2, WindowStepInv, PTL DEF CacheSpec, VisibleKept
=============================================================================
