--------------------------- MODULE NetworkLifecycle ---------------------------
(***************************************************************************)
(* Starting and stopping the node: IdentityRepository.startNetwork and     *)
(* stopNetwork, called on the main thread by MainActivity, P2PService and  *)
(* the logout button, against the coroutines they leave behind on          *)
(* Dispatchers.IO: the boot coroutine of startNetwork, the UDP listener    *)
(* that shares the field udpSocket with them, and the gossip loop.         *)
(*                                                                         *)
(* The n-th startNetwork makes the n-th scope; its boot coroutine, its     *)
(* listener and the socket of that listener carry the same number.         *)
(***************************************************************************)
EXTENDS Integers, FiniteSets

CONSTANT MaxStarts      \* bound on the calls of startNetwork that start

ASSUME StartsAssumption == MaxStarts \in Nat

Gens == 1 .. MaxStarts
None == 0               \* a null scope or socket

VARIABLES
    isRunning,     \* the @Volatile flag
    networkScope,  \* the field: number of the scope, or None
    cancelled,     \* scopes that were cancelled
    starts,        \* scopes made so far
    main,          \* what the main thread is in the middle of
    boot,          \* boot coroutine of each scope
    listener,      \* UDP listener of each scope
    socket,        \* socket bound by that listener
    udpSocket,     \* the field: number of the socket, or None
    blockedOn,     \* socket whose receive() the listener is blocked in
    peerSync,      \* PeerSyncRepository.scope: "active" or "cancelled"
    gossip,        \* gossip loops launched and not cancelled
    serviceUp,     \* P2PService exists
    wanted,        \* ghost: the last request of the main thread was a start
    failed,        \* ghost: scopes whose boot coroutine threw by itself
    broken,        \* ghost: scopes whose listener met an error
    metBoot,       \* ghost: a start found a boot coroutine on its way
    metListener    \* ghost: a start found a listener on its way

socketVars == <<socket, udpSocket>>
threadVars == <<boot, listener, blockedOn>>
fieldVars  == <<isRunning, networkScope, cancelled, starts>>
otherVars  == <<peerSync, gossip>>
met        == <<metBoot, metListener>>
ghosts     == <<wanted, failed, broken, met>>
vars == <<fieldVars, main, threadVars, socketVars, otherVars, serviceUp, ghosts>>

TypeOK ==
    /\ isRunning \in BOOLEAN
    /\ networkScope \in Gens \cup {None}
    /\ cancelled \subseteq Gens
    /\ starts \in 0 .. MaxStarts
    /\ main \in {"free", "starting", "stopping"}
    /\ boot \in [Gens -> {"none", "queued", "syncing", "failing", "stopping",
                          "done"}]
    /\ listener \in [Gens -> {"none", "queued", "binding", "loop", "receive",
                              "finally", "done"}]
    /\ socket \in [Gens -> {"none", "open", "closed"}]
    /\ udpSocket \in Gens \cup {None}
    /\ blockedOn \in [Gens -> Gens \cup {None}]
    /\ peerSync \in {"active", "cancelled"}
    /\ gossip \in Nat
    /\ serviceUp \in BOOLEAN
    /\ wanted \in BOOLEAN
    /\ failed \subseteq Gens /\ broken \subseteq Gens
    /\ metBoot \in BOOLEAN /\ metListener \in BOOLEAN

Init ==
    /\ isRunning = FALSE
    /\ networkScope = None
    /\ cancelled = {}
    /\ starts = 0
    /\ main = "free"
    /\ boot = [g \in Gens |-> "none"]
    /\ listener = [g \in Gens |-> "none"]
    /\ socket = [g \in Gens |-> "none"]
    /\ udpSocket = None
    /\ blockedOn = [g \in Gens |-> None]
    /\ peerSync = "active"
    /\ gossip = 0
    /\ serviceUp = FALSE
    /\ wanted = FALSE
    /\ failed = {} /\ broken = {}
    /\ metBoot = FALSE /\ metListener = FALSE

-----------------------------------------------------------------------------
(* The two halves of stopNetwork, shared by the main thread and a boot     *)
(* coroutine.                                                              *)

\* isRunning = false; peerSyncRepository.stop() cancels its only scope.
Lower == /\ isRunning' = FALSE
         /\ peerSync' = "cancelled"
         /\ gossip' = 0

\* Mutant: the socket is not closed.
CloseFieldNot == UNCHANGED socket

\* close() on whatever the field holds.
CloseField == socket' = IF udpSocket = None THEN socket
                        ELSE [socket EXCEPT ![udpSocket] = "closed"]

\* Mutant: a null scope is not told from a scope.
TearDownNoNullCheck == /\ cancelled' = cancelled \cup {networkScope}
                       /\ networkScope' = None
                       /\ CloseField
                       /\ udpSocket' = None
                       /\ UNCHANGED starts

\* Mutant: the socket is forgotten without close().
TearDownNoClose == /\ cancelled' = cancelled \cup ({networkScope} \ {None})
                   /\ networkScope' = None
                   /\ udpSocket' = None
                   /\ UNCHANGED <<starts, socket>>

\* networkScope?.cancel(); networkScope = null; udpSocket?.close(); = null
TearDown == /\ cancelled' = cancelled \cup ({networkScope} \ {None})
            /\ networkScope' = None
            /\ CloseField
            /\ udpSocket' = None
            /\ UNCHANGED starts

-----------------------------------------------------------------------------
(* The main thread.                                                        *)

Live(g) == boot[g] \notin {"none", "done"} \/ listener[g] \notin {"none", "done"}

\* What a start may find of earlier scopes: a boot coroutine that may still
\* reach its catch, a listener past the point where cancelling stops it.
BootOnItsWay(g)     == boot[g] \in {"syncing", "failing", "stopping"}
ListenerOnItsWay(g) == listener[g] \in {"binding", "loop", "receive", "finally"}

MeetsEarlier ==
    /\ metBoot' = (metBoot \/ (~isRunning /\ \E g \in Gens : BootOnItsWay(g)))
    /\ metListener' =
          (metListener \/ (~isRunning /\ \E g \in Gens : ListenerOnItsWay(g)))

\* Mutant: no early return of a second startNetwork.
RequestStartUnguarded ==
    /\ main = "free"
    /\ wanted' = TRUE
    /\ starts < MaxStarts
    /\ main' = "starting"
    /\ isRunning' = TRUE
    /\ MeetsEarlier
    /\ UNCHANGED <<networkScope, cancelled, starts, threadVars, socketVars,
                   otherVars, failed, broken>>

\* if (isRunning) return; isRunning = true
RequestStart ==
    /\ main = "free"
    /\ wanted' = TRUE
    /\ isRunning \/ starts < MaxStarts
    /\ main' = IF isRunning THEN "free" ELSE "starting"
    /\ isRunning' = TRUE
    /\ MeetsEarlier
    /\ UNCHANGED <<networkScope, cancelled, starts, threadVars, socketVars,
                   otherVars, failed, broken>>

\* networkScope = CoroutineScope(...); networkScope?.launch { ... }
FinishStart ==
    /\ main = "starting"
    /\ main' = "free"
    /\ starts' = starts + 1
    /\ networkScope' = starts + 1
    /\ boot' = [boot EXCEPT ![starts + 1] = "queued"]
    /\ UNCHANGED <<isRunning, cancelled, listener, blockedOn, socketVars,
                   otherVars, serviceUp, ghosts>>

RequestStop ==
    /\ main = "free"
    /\ main' = "stopping"
    /\ wanted' = FALSE
    /\ Lower
    /\ UNCHANGED <<networkScope, cancelled, starts, threadVars, socketVars,
                   failed, broken, met>>

FinishStop ==
    /\ main = "stopping"
    /\ main' = "free"
    /\ TearDown
    /\ UNCHANGED <<isRunning, threadVars, otherVars, serviceUp, ghosts>>

\* MainActivity.onCreate
ActivityCreate == RequestStart /\ UNCHANGED serviceUp

\* P2PService.onCreate
ServiceCreate == ~serviceUp /\ serviceUp' = TRUE /\ RequestStart

\* P2PService.onDestroy
ServiceDestroy == serviceUp /\ serviceUp' = FALSE /\ RequestStop

\* The logout button of SettingsScreen
Logout == RequestStop /\ UNCHANGED serviceUp

-----------------------------------------------------------------------------
(* The boot coroutine of scope g.                                          *)

Elsewhere == UNCHANGED <<main, serviceUp, wanted, met>>
NoFault   == UNCHANGED <<failed, broken>>

\* PeerSyncRepository.start: launching in a cancelled scope does nothing.
PeerSyncStart == gossip' = IF peerSync = "active" THEN gossip + 1 ELSE gossip

\* Crypto and NSD, the listener and the gossip loop are launched, then the
\* coroutine suspends in performServerSync. A cancelled scope runs none of it.
BootRun(g) ==
    /\ boot[g] = "queued"
    /\ IF g \in cancelled
       THEN /\ boot' = [boot EXCEPT ![g] = "done"]
            /\ UNCHANGED <<listener, gossip>>
       ELSE /\ boot' = [boot EXCEPT ![g] = "syncing"]
            /\ listener' = [listener EXCEPT ![g] = "queued"]
            /\ PeerSyncStart
    /\ UNCHANGED <<fieldVars, blockedOn, socketVars, peerSync>>
    /\ Elsewhere /\ NoFault

\* performServerSync returns and startSyncLoop is launched.
BootSynced(g) ==
    /\ boot[g] = "syncing"
    /\ g \notin cancelled
    /\ boot' = [boot EXCEPT ![g] = "done"]
    /\ UNCHANGED <<fieldVars, listener, blockedOn, socketVars, otherVars>>
    /\ Elsewhere /\ NoFault

\* catch (e: Exception) { stopNetwork() } before the coroutine suspends: the
\* keys, the identity or the gossip failed; the listener may be launched.
BootThrows(g) ==
    /\ boot[g] = "queued"
    /\ g \notin cancelled
    /\ boot' = [boot EXCEPT ![g] = "failing"]
    /\ listener' \in {listener, [listener EXCEPT ![g] = "queued"]}
    /\ failed' = failed \cup {g}
    /\ UNCHANGED <<fieldVars, blockedOn, socketVars, otherVars, broken>>
    /\ Elsewhere

\* The same later.  If the scope was cancelled while the coroutine was
\* suspended it is the CancellationException that reaches the catch, which
\* calls stopNetwork() for the second time.
BootFails(g) ==
    /\ boot[g] = "syncing"
    /\ boot' = [boot EXCEPT ![g] = "failing"]
    /\ failed' = failed \cup ({g} \ cancelled)
    /\ UNCHANGED <<fieldVars, listener, blockedOn, socketVars, otherVars, broken>>
    /\ Elsewhere

BootLowers(g) ==
    /\ boot[g] = "failing"
    /\ boot' = [boot EXCEPT ![g] = "stopping"]
    /\ Lower
    /\ UNCHANGED <<networkScope, cancelled, starts, listener, blockedOn,
                   socketVars>>
    /\ Elsewhere /\ NoFault

BootTearsDown(g) ==
    /\ boot[g] = "stopping"
    /\ boot' = [boot EXCEPT ![g] = "done"]
    /\ TearDown
    /\ UNCHANGED <<isRunning, listener, blockedOn, otherVars>>
    /\ Elsewhere /\ NoFault

-----------------------------------------------------------------------------
(* The UDP listener of scope g. Its loop has no suspension point, so only  *)
(* isRunning and the socket in the field can end it.                       *)

Listening == UNCHANGED <<fieldVars, boot, otherVars, failed>> /\ Elsewhere

ListenerStart(g) ==
    /\ listener[g] = "queued"
    /\ listener' = [listener EXCEPT
                       ![g] = IF g \in cancelled THEN "done" ELSE "binding"]
    /\ UNCHANGED <<blockedOn, socketVars>> /\ Listening /\ UNCHANGED broken

\* udpSocket = DatagramSocket(null).apply { reuseAddress; bind }
ListenerBind(g) ==
    /\ listener[g] = "binding"
    /\ listener' = [listener EXCEPT ![g] = "loop"]
    /\ socket' = [socket EXCEPT ![g] = "open"]
    /\ udpSocket' = g
    /\ UNCHANGED blockedOn /\ Listening /\ UNCHANGED broken

\* while (isRunning) { udpSocket?.receive(packet) ...; a null field makes the
\* loop spin, which changes nothing.
ListenerLoop(g) ==
    /\ listener[g] = "loop"
    /\ \/ /\ ~isRunning
          /\ listener' = [listener EXCEPT ![g] = "finally"]
          /\ UNCHANGED blockedOn
       \/ /\ isRunning
          /\ udpSocket # None
          /\ listener' = [listener EXCEPT ![g] = "receive"]
          /\ blockedOn' = [blockedOn EXCEPT ![g] = udpSocket]
    /\ UNCHANGED socketVars /\ Listening /\ UNCHANGED broken

\* A datagram arrives and is handed to processIncomingPacket.
ListenerReceive(g) ==
    /\ listener[g] = "receive"
    /\ socket[blockedOn[g]] = "open"
    /\ listener' = [listener EXCEPT ![g] = "loop"]
    /\ blockedOn' = [blockedOn EXCEPT ![g] = None]
    /\ UNCHANGED socketVars /\ Listening /\ UNCHANGED broken

\* receive() on a closed socket throws.
ListenerClosed(g) ==
    /\ listener[g] = "receive"
    /\ socket[blockedOn[g]] = "closed"
    /\ listener' = [listener EXCEPT ![g] = "finally"]
    /\ blockedOn' = [blockedOn EXCEPT ![g] = None]
    /\ UNCHANGED socketVars /\ Listening /\ UNCHANGED broken

\* bind() or receive() throws for a reason of its own.
ListenerError(g) ==
    /\ listener[g] \in {"binding", "receive"}
    /\ broken' = broken \cup {g}
    /\ listener' = [listener EXCEPT ![g] = "finally"]
    /\ blockedOn' = [blockedOn EXCEPT ![g] = None]
    /\ UNCHANGED socketVars /\ Listening

\* finally { udpSocket?.close() } closes the field, not the listener's own
\* socket.
ListenerFinally(g) ==
    /\ listener[g] = "finally"
    /\ listener' = [listener EXCEPT ![g] = "done"]
    /\ CloseField
    /\ UNCHANGED <<udpSocket, blockedOn>> /\ Listening /\ UNCHANGED broken

BootStep(g) == \/ BootRun(g) \/ BootSynced(g) \/ BootThrows(g) \/ BootFails(g)
               \/ BootLowers(g) \/ BootTearsDown(g)

\* Steps a listener takes by itself, without a datagram or an error.
ListenerStep(g) == \/ ListenerStart(g) \/ ListenerBind(g) \/ ListenerLoop(g)
                   \/ ListenerClosed(g) \/ ListenerFinally(g)

Next ==
    \/ ActivityCreate
    \/ ServiceCreate
    \/ ServiceDestroy
    \/ Logout
    \/ FinishStart
    \/ FinishStop
    \/ \E g \in Gens : \/ BootRun(g)
                       \/ BootSynced(g)
                       \/ BootThrows(g)
                       \/ BootFails(g)
                       \/ BootLowers(g)
                       \/ BootTearsDown(g)
                       \/ ListenerStart(g)
                       \/ ListenerBind(g)
                       \/ ListenerLoop(g)
                       \/ ListenerReceive(g)
                       \/ ListenerClosed(g)
                       \/ ListenerError(g)
                       \/ ListenerFinally(g)

Spec == Init /\ [][Next]_vars

\* Threads that can run do run; the user, Android and the network need not.
Fairness ==
    /\ WF_vars(FinishStart) /\ WF_vars(FinishStop)
    /\ \A g \in Gens : WF_vars(BootStep(g)) /\ WF_vars(ListenerStep(g))

FairSpec == Spec /\ Fairness

-----------------------------------------------------------------------------
(* Properties.  A start meets earlier coroutines if it finds some that      *)
(* cancelling their scope does not end: metBoot and metListener say so, and *)
(* the properties say that nothing else can do the harm.                    *)

Looping == {g \in Gens : listener[g] \in {"loop", "receive"}}
Serving == {g \in Gens : listener[g] \in {"queued", "binding", "loop", "receive"}}

\* A node that was last asked to start, and that its service shows as active
\* (the notification at P2PService.kt:57), is down only if its own boot
\* coroutine threw, or if some start met an earlier boot coroutine that had
\* not ended: no listener, however old, and no stop before can bring it down.
DownExplained ==
    ~metBoot => (wanted /\ main = "free" => isRunning \/ starts \in failed)

\* A running node that has booted has its listener, unless that met an error,
\* and it has no other; the socket of the listener is the one in the field and
\* open.  Only a start that met earlier coroutines can change that.
ListenerServes ==
    ~metBoot /\ ~metListener =>
        /\ Cardinality(Looping) <= 1
        /\ isRunning =>
              /\ \A g \in Looping : udpSocket = g /\ socket[g] = "open"
              /\ \A g \in Gens :
                    g = networkScope /\ boot[g] \in {"syncing", "done"} =>
                        g \in Serving \cup broken

\* One gossip loop runs once the first boot coroutine has launched it, and
\* none after the first stop, however often the node is started again: the
\* scope of PeerSyncRepository is cancelled for good.
OneGossipLife ==
    IF peerSync = "cancelled" THEN gossip = 0
    ELSE /\ gossip <= 1
         /\ \A g \in Gens : boot[g] \in {"syncing", "done"} => gossip = 1

\* What a node that was started is owed: the flag, the listener, the gossip.
RunningListens == DownExplained /\ ListenerServes /\ OneGossipLife

\* A stopped node holds no open socket, and so not the port, once its
\* coroutines have ended, unless a start met earlier ones.
StoppedReleasesPort ==
    ~metBoot /\ ~metListener /\ main = "free" /\ ~isRunning
       /\ (\A g \in Gens : ~Live(g))
    => \A g \in Gens : socket[g] # "open"

\* Every listener ends after stopNetwork, even one that binds its socket after
\* stopNetwork looked at the field, unless the node is started again before or
\* a start met earlier coroutines.
StopEndsListeners ==
    ~isRunning ~> \/ isRunning \/ metBoot \/ metListener
                  \/ \A g \in Gens : listener[g] \in {"none", "done"}
=============================================================================
