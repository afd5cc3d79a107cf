---------------------------- MODULE ServerSession ----------------------------
(***************************************************************************)
(* WebViewApiClient: the calls of the server API. A hidden WebView passes  *)
(* the hosting's protection page, which leaves a cookie; OkHttp sends the  *)
(* requests with it. Calls take turns behind a mutex, wait for the page,   *)
(* make up to MaxRetries attempts and may be cancelled by their callers.   *)
(*                                                                         *)
(* The browser and the server are external: a page that finishes may or    *)
(* may not have renewed the cookie, a cookie may expire at any time, and a *)
(* request may fail after the server has applied it.                       *)
(***************************************************************************)
EXTENDS Integers, Sequences, SequencesExt

CONSTANTS
    Calls,       \* calls of announceSelf and getAllNodes
    NoCall,      \* nobody has the mutex
    MaxRetries   \* MAX_RETRIES

ASSUME SessionConstants == NoCall \notin Calls /\ MaxRetries \in Nat \ {0}

VARIABLES
    webView,     \* is there a WebView?
    okHttp,      \* is there a client?
    loading,     \* the WebView is loading the page
    cookie,      \* what the cookie store holds
    isReady,
    holder,      \* who has the mutex
    queue,       \* who waits for it
    pc,          \* where each call is
    attempt,     \* its attempt
    cancelled,   \* its caller no longer wants it
    healthy,     \* from now on server, page and network work
    lucky        \* ghost: calls made since then

web   == <<webView, okHttp, loading, cookie>>
lock  == <<holder, queue>>
vars  == <<web, isReady, lock, pc, attempt, cancelled, healthy, lucky>>

Over   == {"success", "error", "failed", "gone"}
Inside == {"check", "wait", "enter", "sent", "reset", "reload", "delay"}

TypeOK ==
    /\ webView \in BOOLEAN /\ okHttp \in BOOLEAN /\ loading \in BOOLEAN
    /\ cookie \in {"none", "stale", "good"}
    /\ isReady \in BOOLEAN
    /\ holder \in Calls \cup {NoCall}
    /\ queue \in Seq(Calls)
    /\ pc \in [Calls -> {"idle", "queued"} \cup Inside \cup Over]
    /\ attempt \in [Calls -> 0 .. MaxRetries]
    /\ cancelled \in SUBSET Calls
    /\ healthy \in BOOLEAN
    /\ lucky \in SUBSET Calls

\* The process starts; the cookie store survives processes.
Init ==
    /\ webView = FALSE /\ okHttp = FALSE /\ loading = FALSE
    /\ cookie \in {"none", "stale", "good"}
    /\ isReady = FALSE
    /\ holder = NoCall /\ queue = <<>>
    /\ pc = [c \in Calls |-> "idle"]
    /\ attempt = [c \in Calls |-> 0]
    /\ cancelled = {}
    /\ healthy = FALSE /\ lucky = {}

-----------------------------------------------------------------------------
(* The WebView and its main thread.                                        *)

\* What init has posted: the WebView and the client are made, the page loads.
\* The application calls init once, when it is created.
CreateWebView ==
    /\ ~okHttp
    /\ webView' = TRUE /\ okHttp' = TRUE /\ loading' = TRUE
    /\ UNCHANGED <<cookie, isReady, lock, pc, attempt, cancelled, healthy, lucky>>

\* destroy; the client and isReady stay as they are.
Destroy ==
    /\ webView /\ ~healthy
    /\ webView' = FALSE /\ loading' = FALSE
    /\ UNCHANGED <<okHttp, cookie, isReady, lock, pc, attempt, cancelled, healthy, lucky>>

\* webView?.loadUrl
Reloaded == loading' = (loading \/ webView) /\ UNCHANGED <<webView, okHttp, cookie>>

\* onPageFinished with checkProtection: a cookie of that name is enough,
\* renewed or not. The protection page redirects, so more may follow.
PageFinished(renewed, more) ==
    /\ loading
    /\ healthy => renewed /\ ~more
    /\ cookie' = IF renewed THEN "good" ELSE cookie
    /\ isReady' = (isReady \/ cookie' # "none")
    /\ loading' = more
    /\ UNCHANGED <<webView, okHttp, lock, pc, attempt, cancelled, healthy, lucky>>

CookieExpires ==
    /\ cookie = "good" /\ ~healthy
    /\ cookie' = "stale"
    /\ UNCHANGED <<webView, okHttp, loading, isReady, lock, pc, attempt, cancelled,
                   healthy, lucky>>

\* From now on the server answers, the page renews the cookie when it is
\* loaded, and it is loaded before anybody stops waiting for it.
Heal ==
    /\ webView /\ ~healthy
    /\ healthy' = TRUE
    /\ UNCHANGED <<web, isReady, lock, pc, attempt, cancelled, lucky>>

-----------------------------------------------------------------------------
(* executeRequest.                                                         *)

Goto(c, point) == pc' = [pc EXCEPT ![c] = point]

Call(c) ==
    /\ pc[c] = "idle"
    /\ Goto(c, "queued")
    /\ queue' = Append(queue, c)
    /\ lucky' = IF healthy THEN lucky \cup {c} ELSE lucky
    /\ UNCHANGED <<web, isReady, holder, attempt, cancelled, healthy>>

\* The caller's scope ends. Each suspension point below notices it.
Cancel(c) ==
    /\ pc[c] \in {"queued"} \cup Inside
    /\ cancelled' = cancelled \cup {c}
    /\ UNCHANGED <<web, isReady, lock, pc, attempt, healthy, lucky>>

\* The mutex is fair.
Lock(c) ==
    /\ pc[c] = "queued" /\ c \notin cancelled
    /\ holder = NoCall /\ queue[1] = c
    /\ holder' = c /\ queue' = Tail(queue)
    /\ attempt' = [attempt EXCEPT ![c] = 1]
    /\ Goto(c, "check")
    /\ UNCHANGED <<web, isReady, cancelled, healthy, lucky>>

LeaveQueue(c) ==
    /\ pc[c] = "queued" /\ c \in cancelled
    /\ \E i \in DOMAIN queue : queue[i] = c /\ queue' = RemoveAt(queue, i)
    /\ Goto(c, "gone")
    /\ UNCHANGED <<web, isReady, holder, attempt, cancelled, healthy, lucky>>

\* waitForReady. Loading the page switches threads, which a cancelled call
\* cannot.
Check(c) ==
    /\ pc[c] = "check"
    /\ \/ isReady /\ Goto(c, "enter") /\ UNCHANGED web
       \/ ~isReady /\ c \notin cancelled /\ Goto(c, "wait") /\ Reloaded
       \/ ~isReady /\ c \in cancelled /\ Goto(c, "reset") /\ UNCHANGED web
    /\ UNCHANGED <<isReady, lock, attempt, cancelled, healthy, lucky>>

\* Mutant: the wait has no end of its own.
WaitsOn(c) == isReady \/ c \in cancelled

\* The wait is over because of the page, of the timeout or of a cancellation:
\* all go on, since waitForReady catches every exception.
WaitEnds(c) == isReady \/ c \in cancelled \/ ~healthy \/ ~loading

Wait(c) ==
    /\ pc[c] = "wait"
    /\ WaitEnds(c)
    /\ Goto(c, "enter")
    /\ UNCHANGED <<web, isReady, lock, attempt, cancelled, healthy, lucky>>

\* The request is sent by another thread, if there is a client.
Send(c) ==
    /\ pc[c] = "enter"
    /\ Goto(c, IF okHttp /\ c \notin cancelled THEN "sent" ELSE "reset")
    /\ UNCHANGED <<web, isReady, lock, attempt, cancelled, healthy, lucky>>

\* Mutant: the mutex stays locked.
KeepLock == UNCHANGED lock

\* withLock
Unlock == holder' = NoCall /\ UNCHANGED queue

\* execute() returns or throws: an answer in JSON or an error that is not
\* retried ends the call; a page instead, a refusal or an exception does not.
\* The result is lost if the call was cancelled meanwhile.
Answer(c, result) ==
    /\ pc[c] = "sent"
    /\ result = "success" => cookie = "good"
    /\ healthy /\ cookie = "good" => result = "success"
    /\ healthy => result # "error"
    /\ IF result = "thrown" \/ c \in cancelled
       THEN Goto(c, "reset") /\ UNCHANGED lock
       ELSE Goto(c, result) /\ Unlock
    /\ UNCHANGED <<web, isReady, attempt, cancelled, healthy, lucky>>

\* Mutant: isReady is left.
StayReady(c) ==
    /\ pc[c] = "reset"
    /\ Goto(c, "reload")
    /\ UNCHANGED <<web, isReady, lock, attempt, cancelled, healthy, lucky>>

\* catch (e: Exception), which a cancellation is as well.
ResetReady(c) ==
    /\ pc[c] = "reset"
    /\ isReady' = FALSE
    /\ Goto(c, "reload")
    /\ UNCHANGED <<web, lock, attempt, cancelled, healthy, lucky>>

\* A suspension point inside the catch: a cancelled call ends here.
Reload(c) ==
    /\ pc[c] = "reload"
    /\ IF c \in cancelled THEN Goto(c, "gone") /\ Unlock /\ UNCHANGED web
                          ELSE Goto(c, "delay") /\ Reloaded /\ UNCHANGED lock
    /\ UNCHANGED <<isReady, attempt, cancelled, healthy, lucky>>

LastAttempt(c) == attempt[c] >= MaxRetries

Retry(c) ==
    /\ pc[c] = "delay"
    /\ \/ c \in cancelled /\ Goto(c, "gone") /\ Unlock /\ UNCHANGED attempt
       \/ c \notin cancelled /\ LastAttempt(c)
          /\ Goto(c, "failed") /\ Unlock /\ UNCHANGED attempt
       \/ c \notin cancelled /\ ~LastAttempt(c)
          /\ Goto(c, "check") /\ attempt' = [attempt EXCEPT ![c] = @ + 1] /\ UNCHANGED lock
    /\ UNCHANGED <<web, isReady, cancelled, healthy, lucky>>

Results == {"success", "error", "thrown"}

Step(c) == \/ Lock(c) \/ LeaveQueue(c) \/ Check(c) \/ Wait(c) \/ Send(c)
           \/ \E r \in Results : Answer(c, r)
           \/ ResetReady(c) \/ Reload(c) \/ Retry(c)

Next ==
    \/ CreateWebView \/ Destroy \/ CookieExpires \/ Heal
    \/ \E renewed, more \in BOOLEAN : PageFinished(renewed, more)
    \/ \E c \in Calls : Call(c) \/ Cancel(c) \/ Step(c)

\* The steps of a call: timers run out, OkHttp has timeouts, the mutex is
\* fair. The page finishes only when all is well.
Fairness ==
    /\ \A c \in Calls : WF_vars(Step(c))
    /\ WF_vars(healthy /\ \E renewed, more \in BOOLEAN : PageFinished(renewed, more))

Spec == Init /\ [][Next]_vars /\ Fairness

-----------------------------------------------------------------------------
\* Cancelled or not, a request that runs in its thread keeps the mutex until
\* it has returned: at most one is under way, and only the holder is inside.
\* All values have their types: no call makes more than MaxRetries attempts.
OneRequest ==
    /\ TypeOK
    /\ \A c \in Calls : pc[c] \in Inside <=> holder = c
    /\ \A c \in Calls : pc[c] = "queued" <=> c \in Range(queue)

\* A call made when all is well succeeds or is cancelled, whatever other
\* calls, old cookies and late pages have made of isReady: the attempts that
\* a stale session costs are never all of them.
HealthyNeverFails ==
    \A c \in lucky : pc[c] \notin {"failed", "error"}

\* Every call returns, also if the page never loads and whoever is cancelled.
CallsEnd == \A c \in Calls : pc[c] = "queued" ~> pc[c] \in Over

=============================================================================
