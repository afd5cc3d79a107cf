------------------------------ MODULE LocalModel ------------------------------
(***************************************************************************)
(* The assistant chat: AiChatViewModel, HybridAiEngine.getResponse and the *)
(* native bridge to the local language model (native-lib.cpp) with its     *)
(* three global pointers.                                                  *)
(*                                                                         *)
(* init and prompt are blocking native calls on threads of Dispatchers.IO. *)
(* Nothing serialises them: each line of init that touches a global is a   *)
(* step, and so is each llama_decode of prompt.  What the process does     *)
(* after using a freed object is not described: the model stops there.     *)
(* A closed screen cancels its coroutines where they suspend; a native     *)
(* call goes on.  Of the key-value cache only the number of positions of   *)
(* sequence 0 is kept; the module KvCache has the rest.                    *)
(***************************************************************************)
EXTENDS Naturals, FiniteSets

CONSTANTS
    MaxInits,     \* bound on the inits launched
    MaxScreens,   \* bound on the screens opened
    CloudModels,  \* length of modelPriorityList
    Sizes,        \* tokens of a prompt
    NCtx,         \* n_ctx, and n_batch
    MaxNew        \* most new tokens of an answer

ASSUME ChatConstants ==
    /\ MaxInits \in Nat /\ MaxScreens \in Nat /\ CloudModels \in Nat
    /\ Sizes \subseteq Nat \ {0} /\ NCtx \in Nat \ {0} /\ MaxNew \in Nat

Jobs    == 1 .. MaxInits
Screens == 1 .. MaxScreens
Kinds   == {"model", "ctx", "sampler"}

VARIABLES
    installed,            \* the model file is there
    screen,               \* screens opened so far; the last is the current one
    shown,                \* the current screen is open
    init,                 \* init[j]: where the j-th initLocalModel is
    owner,                \* owner[j]: the screen that launched it
    model, ctx, sampler,  \* the globals: the job that made the object, or 0
    alive,                \* objects not freed yet
    madeFrom,             \* madeFrom[j]: the model the context of j uses
    cached,               \* cached[j]: positions in the cache of context j
    taken,                \* taken[j]: prompts that context j has decoded
    ask,                  \* ask[v]: the question of screen v; n counts the models
                          \* asked, then the tokens, and m the new ones
    overlap,              \* two native calls have run at the same time
    dead                  \* "no", "freed" or "aborted": how the process ended

screens == <<installed, screen, shown>>
globals == <<model, ctx, sampler>>
objects == <<alive, madeFrom, cached, taken>>
vars == <<screens, init, owner, globals, objects, ask, overlap, dead>>

InitSteps == {"sampler-", "ctx-", "model-", "model+", "ctx+", "sampler+"}
AskSteps == {"check", "prefill", "generate"}
NoQuestion == [at |-> "idle", n |-> 0, m |-> 0]

TypeOK ==
    /\ installed \in BOOLEAN /\ shown \in BOOLEAN /\ overlap \in BOOLEAN
    /\ screen \in 0 .. MaxScreens
    /\ init \in [Jobs -> {"none", "queued", "done"} \cup InitSteps]
    /\ owner \in [Jobs -> 0 .. MaxScreens]
    /\ {model, ctx, sampler} \subseteq 0 .. MaxInits
    /\ alive \subseteq Kinds \X Jobs
    /\ madeFrom \in [Jobs -> 0 .. MaxInits]
    /\ cached \in [Jobs -> 0 .. NCtx]
    /\ taken \in [Jobs -> Nat]
    /\ ask \in [Screens -> [at : {"idle", "cloud", "local"} \cup AskSteps,
                            n : Nat, m : 0 .. MaxNew]]
    /\ dead \in {"no", "freed", "aborted"}

Init ==
    /\ installed \in BOOLEAN /\ screen = 0 /\ shown = FALSE
    /\ init = [j \in Jobs |-> "none"] /\ owner = [j \in Jobs |-> 0]
    /\ model = 0 /\ ctx = 0 /\ sampler = 0
    /\ alive = {} /\ madeFrom = [j \in Jobs |-> 0]
    /\ cached = [j \in Jobs |-> 0] /\ taken = [j \in Jobs |-> 0]
    /\ ask = [v \in Screens |-> NoQuestion]
    /\ overlap = FALSE /\ dead = "no"

\* LlamaBridge.isReady
isReady == model # 0 /\ ctx # 0 /\ sampler # 0

InNative == {j \in Jobs : init[j] \in InitSteps}
Asking == {v \in Screens : ask[v].at \in AskSteps}

\* A native call begins: does another one run?
EnterNative == overlap' = (overlap \/ InNative # {} \/ Asking # {})

-----------------------------------------------------------------------------
(* The screen and its view model                                           *)

\* initLocalModel: a coroutine is launched for screen v.
Launch(v) ==
    \E j \in Jobs :
        /\ init[j] = "none" /\ \A i \in 1 .. j - 1 : init[i] # "none"
        /\ init' = [init EXCEPT ![j] = "queued"]
        /\ owner' = [owner EXCEPT ![j] = v]

\* refreshSystemStatus
Refresh(v) ==
    IF installed /\ ~isReady THEN Launch(v) ELSE UNCHANGED <<init, owner>>

\* The view model is created and its init block refreshes.
OpenScreen ==
    /\ ~shown /\ screen < MaxScreens
    /\ screen' = screen + 1 /\ shown' = TRUE
    /\ Refresh(screen + 1)
    /\ UNCHANGED <<installed, globals, objects, ask, overlap>>

\* LaunchedEffect(Unit): the screen refreshes when it is composed, for the
\* first time and after a rotation.
Composed ==
    /\ shown
    /\ installed /\ ~isReady /\ Launch(screen)
    /\ UNCHANGED <<screens, globals, objects, ask, overlap>>

\* downloadModel ends with an installed file and initialises it.
Downloaded ==
    /\ shown /\ ~installed
    /\ installed' = TRUE
    /\ Launch(screen)
    /\ UNCHANGED <<screen, shown, globals, objects, ask, overlap>>

\* onCleared cancels viewModelScope.
CloseScreen ==
    /\ shown
    /\ shown' = FALSE
    /\ init' = [j \in Jobs |-> IF init[j] = "queued" /\ owner[j] = screen
                               THEN "done" ELSE init[j]]
    /\ ask' = [ask EXCEPT ![screen] =
                 IF @.at \in {"cloud", "local"} THEN NoQuestion ELSE @]
    /\ UNCHANGED <<installed, screen, owner, globals, objects, overlap>>

-----------------------------------------------------------------------------
(* LlamaBridge.init                                                        *)

InitBegins(j) ==
    /\ init[j] = "queued"
    /\ init' = [init EXCEPT ![j] = "sampler-"]
    /\ EnterNative
    /\ UNCHANGED <<screens, owner, globals, objects, ask>>

\* Mutant: the old context is not freed.
FreesNotCtx(kind) == kind # "ctx"

\* What init frees before it loads: sampler, context and model.
Frees(kind) == kind \in Kinds

Step(j, from, to) == init[j] = from /\ init' = [init EXCEPT ![j] = to]

FreeSampler(j) ==
    /\ Step(j, "sampler-", "ctx-")
    /\ sampler' = 0
    /\ alive' = IF Frees("sampler") THEN alive \ {<<"sampler", sampler>>} ELSE alive
    /\ UNCHANGED <<screens, owner, model, ctx, madeFrom, cached, taken, ask, overlap>>

FreeCtx(j) ==
    /\ Step(j, "ctx-", "model-")
    /\ ctx' = 0
    /\ alive' = IF Frees("ctx") THEN alive \ {<<"ctx", ctx>>} ELSE alive
    /\ UNCHANGED <<screens, owner, model, sampler, madeFrom, cached, taken, ask, overlap>>

FreeModel(j) ==
    /\ Step(j, "model-", "model+")
    /\ model' = 0
    /\ alive' = IF Frees("model") THEN alive \ {<<"model", model>>} ELSE alive
    /\ UNCHANGED <<screens, owner, ctx, sampler, madeFrom, cached, taken, ask, overlap>>

\* llama_model_load_from_file; on failure the global is null and init returns.
LoadModel(j) ==
    /\ \/ /\ Step(j, "model+", "ctx+")
          /\ model' = j /\ alive' = alive \cup {<<"model", j>>}
       \/ /\ Step(j, "model+", "done")
          /\ model' = 0 /\ UNCHANGED alive
    /\ UNCHANGED <<screens, owner, ctx, sampler, madeFrom, cached, taken, ask, overlap>>

\* llama_init_from_model with whatever the global is now; it returns null for
\* no model, and for other failures.
CreateCtx(j) ==
    /\ \/ /\ Step(j, "ctx+", "sampler+")
          /\ <<"model", model>> \in alive
          /\ ctx' = j /\ alive' = alive \cup {<<"ctx", j>>}
          /\ madeFrom' = [madeFrom EXCEPT ![j] = model]
       \/ /\ Step(j, "ctx+", "done")
          /\ model = 0 \/ <<"model", model>> \in alive
          /\ ctx' = 0 /\ UNCHANGED <<alive, madeFrom>>
    /\ UNCHANGED <<screens, owner, model, sampler, cached, taken, ask, overlap>>

CreateSampler(j) ==
    /\ Step(j, "sampler+", "done")
    /\ sampler' = j /\ alive' = alive \cup {<<"sampler", j>>}
    /\ UNCHANGED <<screens, owner, model, ctx, madeFrom, cached, taken, ask, overlap>>

InitStep(j) == FreeSampler(j) \/ FreeCtx(j) \/ FreeModel(j)
                   \/ LoadModel(j) \/ CreateCtx(j) \/ CreateSampler(j)

-----------------------------------------------------------------------------
(* HybridAiEngine.getResponse and LlamaBridge.prompt                       *)

\* A question's coroutine is over: its answer is shown if the screen still is.
Answered(v) == ask' = [ask EXCEPT ![v] = NoQuestion]
Ask(v, at, n, m) == ask' = [ask EXCEPT ![v] = [at |-> at, n |-> n, m |-> m]]

Aside == UNCHANGED <<screens, init, owner, globals>>

\* sendMessage: the button is disabled while isTyping.
SendMessage ==
    /\ shown /\ ask[screen].at = "idle"
    /\ \/ Ask(screen, "cloud", 1, 0)   \* online, with a key
       \/ Ask(screen, "local", 0, 0)
    /\ Aside /\ UNCHANGED <<objects, overlap>>

\* One cloud model: an answer; nothing, a quota or a temporary error; another
\* error.
CloudAttempt(v) ==
    /\ ask[v].at = "cloud"
    /\ \/ Answered(v)
       \/ Ask(v, "cloud", ask[v].n + 1, 0) /\ ask[v].n < CloudModels
       \/ Ask(v, "local", 0, 0)
    /\ Aside /\ UNCHANGED <<objects, overlap>>

\* Mutant: the question waits for the model instead.
ExcuseLater(v) == UNCHANGED ask

\* "The local model is loading" and the like is the answer.
Excuse(v) == Answered(v)

\* The local model is asked if it is ready, else an excuse is the answer.
LocalAttempt(v) ==
    /\ ask[v].at = "local"
    /\ IF isReady THEN Ask(v, "check", 0, 0) /\ EnterNative
                  ELSE Excuse(v) /\ UNCHANGED overlap
    /\ Aside /\ UNCHANGED objects

\* prompt tests the globals, then tokenizes with the vocabulary of the model.
PromptCheck(v) ==
    /\ ask[v].at = "check"
    /\ IF ~isReady THEN Answered(v)
       ELSE <<"model", model>> \in alive /\ \E n \in Sizes : Ask(v, "prefill", n, 0)
    /\ Aside /\ UNCHANGED <<objects, overlap>>

\* What a llama_decode may use: a context and its model that are not freed.
Usable(k) == k # 0 /\ <<"ctx", k>> \in alive /\ <<"model", madeFrom[k]>> \in alive

\* What llama_sampler_sample uses: also the output of a decode, and a sampler.
CanSample ==
    Usable(ctx) /\ cached[ctx] > 0 /\ <<"sampler", sampler>> \in alive

\* Mutant: the positions of a batch are not compared with the cache.
ContinuesAny(k, p) == TRUE

\* llama_decode accepts only a batch that continues what is cached.
Continues(k, p) == cached[k] = 0 \/ p = cached[k]

\* GGML_ASSERT(n_tokens_all <= cparams.n_batch)
TooLong(n) == n > NCtx

Prefilled(v, k, n) ==
    \/ /\ ~Continues(k, 0)
       /\ Answered(v)                                  \* "Error: Decode failed"
       /\ UNCHANGED <<cached, taken, dead>>
    \/ /\ Continues(k, 0) /\ TooLong(n)
       /\ Answered(v) /\ dead' = "aborted" /\ UNCHANGED <<cached, taken>>
    \/ /\ Continues(k, 0) /\ ~TooLong(n)
       /\ Ask(v, "generate", n, 0)
       /\ cached' = [cached EXCEPT ![k] = n]
       /\ taken' = [taken EXCEPT ![k] = @ + 1] /\ UNCHANGED dead
    \/ /\ Continues(k, 0) /\ ~TooLong(n)                 \* a ubatch fails
       /\ Answered(v) /\ UNCHANGED <<taken, dead>>
       /\ \E m \in 0 .. n - 1 : cached' = [cached EXCEPT ![k] = m]

\* The prompt is decoded at positions 0 to n-1 of sequence 0.
Prefill(v) ==
    /\ ask[v].at = "prefill"
    /\ Usable(ctx) /\ Prefilled(v, ctx, ask[v].n)
    /\ Aside /\ UNCHANGED <<alive, madeFrom, overlap>>

\* One more token: sampled, and decoded at the next position n_cur unless it
\* ends the answer; a refusal, a full cache or a failure ends the answer too.
Generate(v) ==
    /\ ask[v].at = "generate"
    /\ CanSample
    /\ \/ /\ ask[v].m < MaxNew /\ ask[v].n = cached[ctx] /\ cached[ctx] < NCtx
          /\ Ask(v, "generate", ask[v].n + 1, ask[v].m + 1)
          /\ cached' = [cached EXCEPT ![ctx] = @ + 1]
       \/ Answered(v) /\ UNCHANGED cached
    /\ Aside /\ UNCHANGED <<alive, madeFrom, taken, overlap>>

\* The native step that is due would use an object that was freed, or none, or
\* sample from a context that has decoded nothing.
UsesFreed ==
    \/ \E j \in Jobs : init[j] = "ctx+" /\ model # 0 /\ <<"model", model>> \notin alive
    \/ \E v \in Screens :
          \/ ask[v].at = "check" /\ isReady /\ <<"model", model>> \notin alive
          \/ ask[v].at = "prefill" /\ ~Usable(ctx)
          \/ ask[v].at = "generate" /\ ~CanSample

Corrupted ==
    /\ UsesFreed
    /\ dead' = "freed"
    /\ UNCHANGED <<screens, init, owner, globals, objects, ask, overlap>>

-----------------------------------------------------------------------------
(* The specification                                                       *)

Chat ==
    \/ OpenScreen \/ Composed \/ Downloaded \/ CloseScreen \/ SendMessage

Reply(v) == CloudAttempt(v) \/ LocalAttempt(v) \/ PromptCheck(v) \/ Generate(v)

Next ==
    /\ dead = "no"
    /\ \/ Chat /\ UNCHANGED dead
       \/ \E j \in Jobs : (InitBegins(j) \/ InitStep(j)) /\ UNCHANGED dead
       \/ \E v \in Screens : Reply(v) /\ UNCHANGED dead
       \/ \E v \in Screens : Prefill(v)
       \/ Corrupted

\* The threads of Dispatchers.IO run.  Nothing is assumed of the user.
Spec ==
    /\ Init /\ [][Next]_vars
    /\ \A j \in Jobs :
          WF_vars(dead = "no" /\ (InitBegins(j) \/ InitStep(j)) /\ UNCHANGED dead)
    /\ \A v \in Screens :
          WF_vars(dead = "no" /\ (Prefill(v) \/ (Reply(v) /\ UNCHANGED dead)))
    /\ WF_vars(dead = "no" /\ Corrupted)

-----------------------------------------------------------------------------
(* Properties                                                              *)

Globals == {<<"model", model>>, <<"ctx", ctx>>, <<"sampler", sampler>>}

\* As long as no two native calls overlap, the globals are the only objects
\* that exist, also after inits that failed half way, the context is one of
\* the loaded model, and nothing freed is used; all values have their types.
SerialIsSafe ==
    TypeOK /\ (~overlap =>
        /\ alive = {o \in Globals : o[2] # 0}
        /\ ctx # 0 => madeFrom[ctx] = model
        /\ ~UsesFreed)

\* A context takes one prompt and no other, whatever the interleaving: prompt
\* numbers its positions from 0 and never clears the cache, so llama_decode
\* refuses the next one.  Only an init, which the view model makes only while
\* isReady is false, brings an answer again.
OnePromptPerContext == \A j \in Jobs : taken[j] <= 1

\* Every question is answered, be it with an error, unless the process ends.
QuestionsEnd ==
    \A v \in Screens :
        ask[v].at # "idle" ~> ask[v].at = "idle" \/ dead # "no"
=============================================================================
