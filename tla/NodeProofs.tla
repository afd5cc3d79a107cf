------------------------------ MODULE NodeProofs ------------------------------
(***************************************************************************)
(* Proofs about the node.  NetworkLifecycle, for any number of starts: the *)
(* module is type correct; unless a start meets coroutines of an earlier   *)
(* one, a node whose last request was a start is down only if its own boot *)
(* coroutine threw, a running node has its listener on the socket of the   *)
(* field unless that met an error, and a stopped node gives its port back; *)
(* and the first start, and no other, has one gossip loop, however starts, *)
(* stops and failures interleave.                                          *)
(*                                                                         *)
(* NodeDirectory, for any number of gossiping devices and fetching         *)
(* coroutines and any bounds: the module is type correct, and only adding  *)
(* a node by hand loses its key.                                           *)
(***************************************************************************)
EXTENDS NetworkLifecycle, NodeDirectory, FiniteSetTheorems, TLAPS

-----------------------------------------------------------------------------
(* Starting and stopping: the inductive invariant                          *)

\* Scopes are numbered in the order they are made; the field holds the newest,
\* or none once that is cancelled; a listener follows its boot coroutine.
Scopes ==
    /\ networkScope \in {None, starts}
    /\ cancelled \subseteq 1 .. starts /\ networkScope \notin cancelled
    /\ starts > 0 => networkScope = starts \/ starts \in cancelled
    /\ main = "starting" => starts < MaxStarts /\ wanted
    /\ main = "stopping" => ~isRunning /\ ~wanted
    /\ \A g \in Gens :
          /\ boot[g] = "none" <=> g > starts
          /\ boot[g] \in {"none", "queued"} => listener[g] = "none"

\* The scope of PeerSyncRepository is active only until the first stop, by the
\* main thread or by a boot coroutine: it has seen one start at most, and that
\* start's boot coroutine has launched one loop unless it threw before.
OneGossip ==
    \/ peerSync = "cancelled" /\ gossip = 0
    \/ /\ peerSync = "active"
       /\ main # "stopping" /\ cancelled = {}
       /\ \A g \in Gens : boot[g] # "stopping"
       /\ main = "starting" => isRunning
       /\ starts = 0 => gossip = 0
       /\ starts > 0 => /\ starts = 1 /\ isRunning /\ main # "starting"
                        /\ gossip \in {0, 1}
                        /\ boot[1] = "queued" => gossip = 0
                        /\ boot[1] \in {"syncing", "done"} => gossip = 1

\* The scopes before the current one; while a scope is made, all of them.
Earlier(g) == g < starts \/ (g = starts /\ main = "starting")

\* No boot coroutine of an earlier scope reaches its catch any more.
BootsOver ==
    \A g \in Gens :
       Earlier(g) => boot[g] = "done" \/ (boot[g] = "queued" /\ g \in cancelled)

\* The flag follows the requests, except where the current boot coroutine
\* threw; a running node has an uncancelled scope, and a stopped one that can
\* be started again has none.
FlagFollows ==
    /\ main = "starting" => isRunning /\ networkScope = None
    /\ wanted /\ main = "free" => isRunning \/ starts \in failed
    /\ isRunning /\ main # "starting" =>
          starts > 0 /\ networkScope = starts /\ starts \notin cancelled
    /\ ~isRunning /\ main = "free" /\ starts > 0 =>
          starts \in cancelled \/ boot[starts] = "stopping"
    /\ \A g \in Gens :
          /\ boot[g] \in {"failing", "stopping"} => g \in failed \cup cancelled
          /\ boot[g] = "stopping" => ~isRunning

\* No listener of an earlier scope comes to bind or to close any more.
ListenersOver ==
    \A g \in Gens :
       Earlier(g) => \/ listener[g] \in {"none", "done"}
                     \/ listener[g] = "queued" /\ g \in cancelled

\* An open socket is the one in the field, and its listener will close it; the
\* listener of a running node has its socket open; a listener waits on its own.
FieldIsOpen ==
    /\ \A g \in Gens :
          socket[g] = "open" =>
             udpSocket = g /\ listener[g] \in {"loop", "receive", "finally"}
    /\ isRunning => \A g \in Looping : udpSocket = g /\ socket[g] = "open"
    /\ \A g \in Gens : listener[g] = "receive" => blockedOn[g] = g

\* The listener of a running node that has booted serves or met an error.
Listens ==
    isRunning /\ main # "starting" =>
       \A g \in Gens : g = starts /\ boot[g] \in {"syncing", "done"} =>
                          g \in Serving \cup broken

CleanBoots     == BootsOver /\ FlagFollows
CleanListeners == ListenersOver /\ FieldIsOpen /\ Listens

IInv == /\ TypeOK /\ Scopes /\ OneGossip
        /\ ~metBoot => CleanBoots
        /\ ~metBoot /\ ~metListener => CleanListeners

-----------------------------------------------------------------------------
(* The pieces that actions share                                           *)

\* The network starts with the invariant.
LEMMA InitInv == Init => IInv
<1> SUFFICES ASSUME Init PROVE IInv
  OBVIOUS
<1>1. TypeOK
  <2>1. networkScope \in Gens \cup {None} /\ udpSocket \in Gens \cup {None}
    BY DEF Init
  <2>2. starts \in 0 .. MaxStarts /\ gossip \in Nat
    BY StartsAssumption DEF Init
  <2> QED BY <2>1, <2>2 DEF Init, TypeOK
<1>2. Scopes
  BY StartsAssumption DEF Init, Scopes, Gens, None
<1>3. OneGossip
  BY DEF Init, OneGossip
<1>4. CleanBoots
  BY StartsAssumption DEF Init, CleanBoots, BootsOver, FlagFollows, Earlier, Gens
<1>5. CleanListeners
  BY DEF Init, CleanListeners, ListenersOver, FieldIsOpen, Listens, Looping
<1> QED BY <1>1, <1>2, <1>3, <1>4, <1>5 DEF IInv

\* close() on the field leaves no open socket of its number and opens none.
LEMMA CloseFacts ==
    ASSUME TypeOK, CloseField
    PROVE  /\ socket' \in [Gens -> {"none", "open", "closed"}]
           /\ \A g \in Gens :
                 socket'[g] = "open" => socket[g] = "open" /\ g # udpSocket
BY DEF TypeOK, CloseField, Gens, None

\* The second half of stopNetwork cancels the scope of the field and no other,
\* which leaves the newest scope cancelled.
LEMMA TearDownFacts ==
    ASSUME TypeOK, Scopes, TearDown
    PROVE  /\ starts' = starts /\ networkScope' = None /\ udpSocket' = None
           /\ cancelled' \subseteq Gens /\ cancelled' \subseteq 1 .. starts
           /\ cancelled \subseteq cancelled'
           /\ starts > 0 => starts \in cancelled'
           /\ networkScope' \notin cancelled'
BY StartsAssumption DEF TypeOK, Scopes, TearDown, Gens, None

\* As long as nothing earlier is met nothing is open after it: the only open
\* socket was the one in the field.
LEMMA NothingOpen ==
    ASSUME TypeOK, FieldIsOpen, TearDown
    PROVE  \A g \in Gens : socket'[g] # "open"
BY CloseFacts DEF FieldIsOpen, TearDown

\* Once the main thread is free and the flag is down every boot coroutine that
\* is not on its way has ended, or will not run its body; and so for listeners.
LEMMA BootsQuiet ==
    ASSUME TypeOK, Scopes, CleanBoots, main = "free", ~isRunning,
           NEW g \in Gens, g <= starts, ~BootOnItsWay(g)
    PROVE  boot[g] = "done" \/ (boot[g] = "queued" /\ g \in cancelled)
<1>1. boot[g] \in {"queued", "done"}
  BY StartsAssumption DEF TypeOK, Scopes, BootOnItsWay, Gens
<1>2. starts > 0 /\ starts \in Gens
  BY StartsAssumption DEF TypeOK, Gens
<1>3. CASE g = starts
  BY <1>1, <1>2, <1>3 DEF CleanBoots, FlagFollows
<1>4. CASE g < starts
  BY <1>4 DEF CleanBoots, BootsOver, Earlier
<1> QED BY <1>3, <1>4, StartsAssumption DEF TypeOK, Gens

LEMMA ListenersQuiet ==
    ASSUME TypeOK, Scopes, CleanBoots, CleanListeners, main = "free", ~isRunning,
           NEW g \in Gens, g <= starts, ~BootOnItsWay(g), ~ListenerOnItsWay(g)
    PROVE  listener[g] \in {"none", "done"}
             \/ (listener[g] = "queued" /\ g \in cancelled)
<1>1. listener[g] \in {"none", "queued", "done"}
  BY DEF TypeOK, ListenerOnItsWay
<1>2. starts > 0 /\ starts \in Gens
  BY StartsAssumption DEF TypeOK, Gens
<1>3. CASE g = starts
  BY <1>1, <1>2, <1>3 DEF CleanBoots, FlagFollows, BootOnItsWay
<1>4. CASE g < starts
  BY <1>4 DEF CleanListeners, ListenersOver, Earlier
<1> QED BY <1>3, <1>4, StartsAssumption DEF TypeOK, Gens

-----------------------------------------------------------------------------
(* The main thread                                                         *)

\* A start that is not ignored finds the flag down, and unless it meets a
\* coroutine on its way, nothing that could disturb the next scope.
LEMMA RequestStartInv ==
    ASSUME IInv, RequestStart, serviceUp' \in BOOLEAN
    PROVE  IInv'
<1> USE DEF IInv
<1>1. /\ UNCHANGED <<networkScope, cancelled, starts, boot, listener, blockedOn,
                     socket, udpSocket, peerSync, gossip, failed, broken>>
      /\ main = "free" /\ wanted' = TRUE /\ isRunning' = TRUE
      /\ main' = IF isRunning THEN "free" ELSE "starting"
      /\ isRunning \/ starts < MaxStarts
      /\ MeetsEarlier
  BY DEF RequestStart, threadVars, socketVars, otherVars
<1>2. TypeOK'
  BY <1>1 DEF TypeOK, MeetsEarlier
<1>3. Scopes'
  BY <1>1, StartsAssumption DEF TypeOK, Scopes
<1>4. OneGossip'
  BY <1>1 DEF TypeOK, OneGossip
<1>5. ASSUME ~metBoot' PROVE CleanBoots'
  <2>1. ~metBoot /\ (isRunning \/ \A g \in Gens : ~BootOnItsWay(g))
    BY <1>1, <1>5 DEF MeetsEarlier
  <2>2. CASE isRunning
    BY <1>1, <2>1, <2>2 DEF CleanBoots, BootsOver, FlagFollows, Earlier
  <2>3. CASE ~isRunning
    <3>1. \A g \in Gens : ~BootOnItsWay(g)
      BY <2>1, <2>3
    <3>2. \A g \in Gens : g <= starts =>
             boot[g] = "done" \/ (boot[g] = "queued" /\ g \in cancelled)
      BY <1>1, <2>1, <2>3, <3>1, BootsQuiet
    <3>3. BootsOver'
      BY <1>1, <3>2, StartsAssumption DEF TypeOK, BootsOver, Earlier, Gens
    <3>4. networkScope = None
      BY <1>1, <2>1, <2>3, <3>1, StartsAssumption
         DEF TypeOK, Scopes, CleanBoots, FlagFollows, BootOnItsWay, Gens, None
    <3>5. FlagFollows'
      BY <1>1, <2>3, <3>1, <3>4 DEF FlagFollows, BootOnItsWay
    <3> QED BY <3>3, <3>5 DEF CleanBoots
  <2> QED BY <2>2, <2>3
<1>6. ASSUME ~metBoot', ~metListener' PROVE CleanListeners'
  <2>1. ~metBoot /\ ~metListener
    BY <1>1, <1>6 DEF MeetsEarlier
  <2>2. CASE isRunning
    BY <1>1, <2>1, <2>2
       DEF CleanListeners, ListenersOver, FieldIsOpen, Listens, Earlier, Looping,
           Serving
  <2>3. CASE ~isRunning
    <3>1. \A g \in Gens : ~BootOnItsWay(g) /\ ~ListenerOnItsWay(g)
      BY <1>1, <1>6, <2>3 DEF MeetsEarlier
    <3>2. \A g \in Gens : g <= starts =>
             \/ listener[g] \in {"none", "done"}
             \/ listener[g] = "queued" /\ g \in cancelled
      BY <1>1, <2>1, <2>3, <3>1, ListenersQuiet
    <3>3. ListenersOver'
      BY <1>1, <3>2, StartsAssumption DEF TypeOK, ListenersOver, Earlier, Gens
    <3>4. FieldIsOpen'
      BY <1>1, <2>1, <3>1
         DEF CleanListeners, FieldIsOpen, Looping, ListenerOnItsWay
    <3>5. Listens'
      BY <1>1, <2>3 DEF Listens
    <3> QED BY <3>3, <3>4, <3>5 DEF CleanListeners
  <2> QED BY <2>2, <2>3
<1> QED BY <1>2, <1>3, <1>4, <1>5, <1>6

\* The scope that is made is the newest, and its coroutine has not run.
LEMMA FinishStartInv == ASSUME IInv, FinishStart PROVE IInv'
<1> USE DEF IInv
<1>1. starts \in 0 .. MaxStarts /\ starts < MaxStarts /\ starts + 1 \in Gens
  BY StartsAssumption DEF TypeOK, Scopes, FinishStart, Gens
<1>2. /\ UNCHANGED <<isRunning, cancelled, listener, blockedOn, socket,
                     udpSocket, peerSync, gossip, serviceUp, wanted, failed,
                     broken, metBoot, metListener>>
      /\ main = "starting" /\ main' = "free"
      /\ starts' = starts + 1 /\ networkScope' = starts + 1
      /\ boot' = [boot EXCEPT ![starts + 1] = "queued"]
  BY DEF FinishStart, socketVars, otherVars, ghosts, met
<1>3. TypeOK'
  BY <1>1, <1>2, StartsAssumption DEF TypeOK, Gens
<1>4. boot[starts + 1] = "none" /\ listener[starts + 1] = "none"
  BY <1>1 DEF Scopes
<1>5. starts + 1 \notin cancelled
  BY <1>1 DEF Scopes
<1>6. Scopes'
  <2>1. cancelled' \subseteq 1 .. starts' /\ networkScope' \notin cancelled'
    BY <1>1, <1>2, <1>5 DEF Scopes
  <2>2. ASSUME NEW g \in Gens
        PROVE  /\ boot'[g] = "none" <=> g > starts + 1
               /\ boot'[g] \in {"none", "queued"} => listener'[g] = "none"
    BY <1>1, <1>2, <1>4 DEF TypeOK, Scopes, Gens
  <2> QED BY <1>2, <2>1, <2>2 DEF Scopes
<1>7. OneGossip'
  BY <1>1, <1>2 DEF TypeOK, OneGossip
<1>8. \A g \in Gens : Earlier(g)' <=> g < starts + 1
  BY <1>1, <1>2 DEF Earlier, Gens
<1>9. \A g \in Gens : g < starts + 1 => Earlier(g) /\ boot'[g] = boot[g]
  BY <1>1, <1>2 DEF TypeOK, Earlier, Gens
<1>10. ASSUME ~metBoot' PROVE CleanBoots'
  <2>1. CleanBoots
    BY <1>2, <1>10
  <2>2. BootsOver'
    BY <1>2, <1>8, <1>9, <2>1 DEF CleanBoots, BootsOver
  <2>3. isRunning' /\ isRunning
    BY <1>2, <2>1 DEF CleanBoots, FlagFollows
  <2>4. \A g \in Gens : boot'[g] \in {"failing", "stopping"} => boot'[g] = boot[g]
    BY <1>1, <1>2 DEF TypeOK
  <2>5. FlagFollows'
    BY <1>1, <1>2, <1>5, <2>1, <2>3, <2>4 DEF CleanBoots, FlagFollows
  <2> QED BY <2>2, <2>5 DEF CleanBoots
<1>11. ASSUME ~metBoot', ~metListener' PROVE CleanListeners'
  <2>1. CleanListeners
    BY <1>2, <1>11
  <2>2. ListenersOver'
    BY <1>2, <1>8, <1>9, <2>1 DEF CleanListeners, ListenersOver
  <2>3. FieldIsOpen'
    BY <1>2, <2>1 DEF CleanListeners, FieldIsOpen, Looping
  <2>4. Listens'
    BY <1>1, <1>2 DEF TypeOK, Listens
  <2> QED BY <2>2, <2>3, <2>4 DEF CleanListeners
<1> QED BY <1>3, <1>6, <1>7, <1>10, <1>11

\* The first half of stopNetwork takes the flag down and ends the gossip.
LEMMA RequestStopInv ==
    ASSUME IInv, RequestStop, serviceUp' \in BOOLEAN
    PROVE  IInv'
<1> USE DEF IInv
<1>1. /\ UNCHANGED <<networkScope, cancelled, starts, boot, listener, blockedOn,
                     socket, udpSocket, failed, broken, metBoot, metListener>>
      /\ main = "free" /\ main' = "stopping" /\ wanted' = FALSE
      /\ isRunning' = FALSE /\ peerSync' = "cancelled" /\ gossip' = 0
  BY DEF RequestStop, Lower, threadVars, socketVars, met
<1>2. TypeOK'
  BY <1>1 DEF TypeOK
<1>3. Scopes'
  BY <1>1 DEF Scopes
<1>4. OneGossip'
  BY <1>1 DEF OneGossip
<1>5. ASSUME ~metBoot' PROVE CleanBoots'
  BY <1>1, <1>5 DEF CleanBoots, BootsOver, FlagFollows, Earlier
<1>6. ASSUME ~metBoot', ~metListener' PROVE CleanListeners'
  BY <1>1, <1>6
     DEF CleanListeners, ListenersOver, FieldIsOpen, Listens, Earlier, Looping
<1> QED BY <1>2, <1>3, <1>4, <1>5, <1>6

\* The second half of stopNetwork, whichever thread is in it: no scope is left
\* uncancelled, and nothing is open unless a start met something earlier.
LEMMA TearDownClean ==
    ASSUME IInv, TearDown, ~isRunning, ~isRunning',
           UNCHANGED <<listener, blockedOn, broken>>,
           main # "starting", main' # "starting"
    PROVE  /\ ~metBoot /\ ~metListener => CleanListeners'
           /\ \A g \in Gens : Earlier(g)' <=> Earlier(g)
<1> USE DEF IInv
<1>1. \A g \in Gens : Earlier(g)' <=> Earlier(g)
  BY TearDownFacts DEF Earlier
<1>2. ASSUME ~metBoot, ~metListener PROVE CleanListeners'
  <2>1. ListenersOver'
    BY <1>1, <1>2, TearDownFacts DEF CleanListeners, ListenersOver
  <2>2. FieldIsOpen'
    BY <1>2, NothingOpen DEF CleanListeners, FieldIsOpen
  <2>3. Listens'
    BY DEF Listens
  <2> QED BY <2>1, <2>2, <2>3 DEF CleanListeners
<1> QED BY <1>1, <1>2

\* The second half of stopNetwork on the main thread.
LEMMA FinishStopInv == ASSUME IInv, FinishStop PROVE IInv'
<1> USE DEF IInv
<1>1. /\ TearDown /\ main = "stopping" /\ main' = "free"
      /\ UNCHANGED <<isRunning, boot, listener, blockedOn, peerSync, gossip,
                     serviceUp, wanted, failed, broken, metBoot, metListener>>
      /\ ~isRunning /\ ~isRunning' /\ ~wanted
  BY DEF FinishStop, Scopes, threadVars, otherVars, ghosts, met
<1>2. TypeOK'
  <2>1. socket' \in [Gens -> {"none", "open", "closed"}]
    BY <1>1, CloseFacts DEF TearDown
  <2> QED BY <1>1, <2>1, TearDownFacts DEF TypeOK
<1>3. Scopes'
  BY <1>1, TearDownFacts DEF Scopes
<1>4. OneGossip'
  BY <1>1 DEF OneGossip
<1>5. ASSUME ~metBoot' PROVE CleanBoots'
  <2>1. CleanBoots
    BY <1>1, <1>5
  <2>2. BootsOver'
    BY <1>1, <2>1, TearDownFacts, TearDownClean DEF CleanBoots, BootsOver
  <2>3. FlagFollows'
    BY <1>1, <2>1, TearDownFacts DEF CleanBoots, FlagFollows
  <2> QED BY <2>2, <2>3 DEF CleanBoots
<1>6. ASSUME ~metBoot', ~metListener' PROVE CleanListeners'
  BY <1>1, <1>6, TearDownClean
<1> QED BY <1>2, <1>3, <1>4, <1>5, <1>6

-----------------------------------------------------------------------------
(* The boot coroutines                                                     *)

\* The first run of a boot coroutine launches the listener and the gossip.
LEMMA BootRunInv == ASSUME IInv, NEW g \in Gens, BootRun(g) PROVE IInv'
<1> USE DEF IInv
<1>1. /\ UNCHANGED <<isRunning, networkScope, cancelled, starts, blockedOn,
                     socket, udpSocket, peerSync, main, serviceUp, wanted,
                     failed, broken, metBoot, metListener>>
      /\ boot[g] = "queued" /\ g <= starts /\ listener[g] = "none"
  BY DEF TypeOK, Scopes, BootRun, Elsewhere, NoFault, fieldVars, socketVars, met,
         Gens
<1>2. \/ /\ g \in cancelled
         /\ boot' = [boot EXCEPT ![g] = "done"]
         /\ UNCHANGED <<listener, gossip>>
      \/ /\ g \notin cancelled
         /\ boot' = [boot EXCEPT ![g] = "syncing"]
         /\ listener' = [listener EXCEPT ![g] = "queued"]
         /\ gossip' = IF peerSync = "active" THEN gossip + 1 ELSE gossip
  BY DEF BootRun, PeerSyncStart
<1>3. TypeOK'
  BY <1>1, <1>2 DEF TypeOK
<1>4. Scopes'
  BY <1>1, <1>2 DEF TypeOK, Scopes, Gens
<1>5. OneGossip'
  <2>1. peerSync = "active" => g = 1 /\ starts = 1 /\ gossip = 0 /\ cancelled = {}
    BY <1>1 DEF TypeOK, OneGossip, Gens
  <2> QED BY <1>1, <1>2, <2>1 DEF TypeOK, OneGossip
<1>6. \A h \in Gens : Earlier(h)' <=> Earlier(h)
  BY <1>1 DEF Earlier
<1>7. ASSUME ~metBoot' PROVE CleanBoots'
  <2>1. CleanBoots
    BY <1>1, <1>7
  <2>2. BootsOver'
    BY <1>1, <1>2, <1>6, <2>1 DEF TypeOK, CleanBoots, BootsOver
  <2>3. \A h \in Gens : /\ boot'[h] \in {"failing", "stopping"} => boot'[h] = boot[h]
                        /\ boot[h] = "stopping" => boot'[h] = boot[h]
    BY <1>1, <1>2 DEF TypeOK
  <2>4. starts > 0 => starts \in Gens
    BY StartsAssumption DEF TypeOK, Gens
  <2>5. FlagFollows'
    BY <1>1, <2>1, <2>3, <2>4 DEF CleanBoots, FlagFollows
  <2> QED BY <2>2, <2>5 DEF CleanBoots
<1>8. ASSUME ~metBoot', ~metListener' PROVE CleanListeners'
  <2>1. CleanBoots /\ CleanListeners
    BY <1>1, <1>8
  <2>2. g \notin cancelled => ~Earlier(g)
    BY <1>1, <2>1 DEF CleanBoots, BootsOver
  <2>3. ListenersOver'
    BY <1>1, <1>2, <1>6, <2>1, <2>2 DEF TypeOK, CleanListeners, ListenersOver
  <2>4. FieldIsOpen'
    <3>1. Looping' = Looping /\ \A h \in Gens \ {g} : listener'[h] = listener[h]
      BY <1>1, <1>2 DEF TypeOK, Looping
    <3>2. socket[g] # "open" /\ listener'[g] # "receive"
      BY <1>1, <1>2, <2>1 DEF TypeOK, CleanListeners, FieldIsOpen
    <3> QED BY <1>1, <2>1, <3>1, <3>2 DEF CleanListeners, FieldIsOpen
  <2>5. Listens'
    <3> SUFFICES ASSUME isRunning', main' # "starting", NEW h \in Gens,
                        h = starts', boot'[h] \in {"syncing", "done"}
                 PROVE  h \in Serving' \cup broken'
      BY DEF Listens
    <3>1. h \notin cancelled
      BY <1>1, <2>1 DEF CleanBoots, FlagFollows
    <3>2. CASE h = g
      BY <1>1, <1>2, <3>1, <3>2 DEF TypeOK, Serving
    <3>3. CASE h # g
      BY <1>1, <1>2, <2>1, <3>3 DEF TypeOK, CleanListeners, Listens, Serving
    <3> QED BY <3>2, <3>3
  <2> QED BY <2>3, <2>4, <2>5 DEF CleanListeners
<1> QED BY <1>3, <1>4, <1>5, <1>7, <1>8

\* performServerSync returns.
LEMMA BootSyncedInv == ASSUME IInv, NEW g \in Gens, BootSynced(g) PROVE IInv'
<1> USE DEF IInv
<1>1. /\ UNCHANGED <<isRunning, networkScope, cancelled, starts, blockedOn,
                     listener, socket, udpSocket, peerSync, gossip, main,
                     serviceUp, wanted, failed, broken, metBoot, metListener>>
      /\ boot[g] = "syncing" /\ boot' = [boot EXCEPT ![g] = "done"]
  BY DEF BootSynced, Elsewhere, NoFault, fieldVars, socketVars, otherVars, met
<1>2. TypeOK'
  BY <1>1 DEF TypeOK
<1>3. Scopes'
  BY <1>1 DEF TypeOK, Scopes
<1>4. starts > 0 => starts \in Gens
  BY StartsAssumption DEF TypeOK, Gens
<1>5. OneGossip'
  BY <1>1, <1>4 DEF TypeOK, OneGossip
<1>6. ASSUME ~metBoot' PROVE CleanBoots'
  <2>1. BootsOver'
    BY <1>1, <1>6 DEF TypeOK, CleanBoots, BootsOver, Earlier
  <2>2. \A h \in Gens : boot'[h] \in {"failing", "stopping"}
                          \/ boot[h] = "stopping" => boot'[h] = boot[h]
    BY <1>1 DEF TypeOK
  <2>3. FlagFollows'
    BY <1>1, <1>4, <1>6, <2>2 DEF CleanBoots, FlagFollows
  <2> QED BY <2>1, <2>3 DEF CleanBoots
<1>7. ASSUME ~metBoot', ~metListener' PROVE CleanListeners'
  <2>1. CleanListeners
    BY <1>1, <1>7
  <2>2. ListenersOver' /\ FieldIsOpen'
    BY <1>1, <2>1 DEF CleanListeners, ListenersOver, FieldIsOpen, Earlier, Looping
  <2>3. \A h \in Gens : boot'[h] \in {"syncing", "done"} =>
                           boot[h] \in {"syncing", "done"}
    BY <1>1 DEF TypeOK
  <2>4. Listens'
    BY <1>1, <2>1, <2>3 DEF CleanListeners, Listens, Serving
  <2> QED BY <2>2, <2>4 DEF CleanListeners
<1> QED BY <1>2, <1>3, <1>5, <1>6, <1>7

\* An exception reaches the catch of a boot coroutine: by itself, and the
\* scope is among the failed ones, or because the scope is cancelled.
LEMMA BootFailsInv ==
    ASSUME IInv, NEW g \in Gens, BootThrows(g) \/ BootFails(g)
    PROVE  IInv'
<1> USE DEF IInv
<1>1. /\ UNCHANGED <<isRunning, networkScope, cancelled, starts, blockedOn,
                     socket, udpSocket, peerSync, gossip, main, serviceUp,
                     wanted, broken, metBoot, metListener>>
      /\ boot[g] = "syncing" \/ (boot[g] = "queued" /\ g \notin cancelled)
      /\ boot' = [boot EXCEPT ![g] = "failing"]
      /\ failed' \in {failed, failed \cup {g}}
      /\ g \in failed' \cup cancelled
  BY DEF BootThrows, BootFails, Elsewhere, fieldVars, socketVars, otherVars, met
<1>2. \/ listener' = listener
      \/ listener[g] = "none" /\ listener' = [listener EXCEPT ![g] = "queued"]
  BY DEF BootThrows, BootFails, Scopes
<1>3. TypeOK'
  BY <1>1, <1>2 DEF TypeOK
<1>4. Scopes'
  BY <1>1, <1>2 DEF TypeOK, Scopes
<1>5. starts > 0 => starts \in Gens
  BY StartsAssumption DEF TypeOK, Gens
<1>6. OneGossip'
  BY <1>1, <1>5 DEF TypeOK, OneGossip
<1>7. \A h \in Gens : Earlier(h)' <=> Earlier(h)
  BY <1>1 DEF Earlier
<1>8. ASSUME ~metBoot' PROVE CleanBoots' /\ ~Earlier(g)
  <2>1. CleanBoots
    BY <1>1, <1>8
  <2>2. ~Earlier(g)
    BY <1>1, <2>1 DEF CleanBoots, BootsOver
  <2>3. BootsOver'
    BY <1>1, <1>7, <2>1, <2>2 DEF TypeOK, CleanBoots, BootsOver
  <2>4. \A h \in Gens : boot'[h] = IF h = g THEN "failing" ELSE boot[h]
    BY <1>1 DEF TypeOK
  <2>5. FlagFollows'
    BY <1>1, <1>5, <2>1, <2>4 DEF CleanBoots, FlagFollows
  <2> QED BY <2>2, <2>3, <2>5 DEF CleanBoots
<1>9. ASSUME ~metBoot', ~metListener' PROVE CleanListeners'
  <2>1. CleanListeners /\ ~Earlier(g)
    BY <1>1, <1>8, <1>9
  <2>2. ListenersOver'
    BY <1>1, <1>2, <1>7, <2>1 DEF TypeOK, CleanListeners, ListenersOver
  <2>3. FieldIsOpen'
    <3>1. \A h \in Gens : listener'[h] = listener[h]
                            \/ (listener[h] = "none" /\ listener'[h] = "queued")
      BY <1>2 DEF TypeOK
    <3>2. Looping' = Looping
      BY <3>1 DEF Looping
    <3> QED BY <1>1, <2>1, <3>1, <3>2 DEF CleanListeners, FieldIsOpen
  <2>4. Listens'
    <3>1. \A h \in Gens :
             boot'[h] \in {"syncing", "done"} =>
                boot[h] \in {"syncing", "done"} /\ listener'[h] = listener[h]
      BY <1>1, <1>2 DEF TypeOK
    <3> QED BY <1>1, <2>1, <3>1 DEF CleanListeners, Listens, Serving
  <2> QED BY <2>2, <2>3, <2>4 DEF CleanListeners
<1> QED BY <1>3, <1>4, <1>6, <1>8, <1>9

\* A boot coroutine in its catch is that of the current scope, unless a start
\* met one; if the scope is not cancelled the coroutine threw by itself.
LEMMA LateStop ==
    ASSUME IInv, ~metBoot, NEW g \in Gens, boot[g] \in {"failing", "stopping"}
    PROVE  /\ g = starts /\ main # "starting"
           /\ wanted /\ main = "free" => starts \in failed
           /\ g \in failed \cup cancelled
<1>1. CleanBoots /\ Scopes /\ TypeOK
  BY DEF IInv
<1>2. g <= starts /\ ~Earlier(g)
  BY <1>1, StartsAssumption DEF Scopes, TypeOK, CleanBoots, BootsOver, Gens
<1>3. g = starts /\ main # "starting"
  BY <1>1, <1>2, StartsAssumption DEF TypeOK, Earlier, Gens
<1>4. g \in failed \cup cancelled
  BY <1>1 DEF CleanBoots, FlagFollows
<1>5. wanted /\ main = "free" => starts \in failed
  BY <1>1, <1>3, <1>4 DEF CleanBoots, FlagFollows
<1> QED BY <1>3, <1>4, <1>5

\* The late stop takes the flag down.
LEMMA BootLowersInv == ASSUME IInv, NEW g \in Gens, BootLowers(g) PROVE IInv'
<1> USE DEF IInv
<1>1. /\ UNCHANGED <<networkScope, cancelled, starts, blockedOn, listener,
                     socket, udpSocket, main, serviceUp, wanted, failed, broken,
                     metBoot, metListener>>
      /\ boot[g] = "failing" /\ boot' = [boot EXCEPT ![g] = "stopping"]
      /\ isRunning' = FALSE /\ peerSync' = "cancelled" /\ gossip' = 0
  BY DEF BootLowers, Lower, Elsewhere, NoFault, socketVars, met
<1>2. TypeOK'
  BY <1>1 DEF TypeOK
<1>3. Scopes'
  BY <1>1 DEF TypeOK, Scopes
<1>4. OneGossip'
  BY <1>1 DEF OneGossip
<1>5. ASSUME ~metBoot' PROVE CleanBoots'
  <2>1. /\ CleanBoots /\ g = starts /\ main # "starting"
        /\ wanted /\ main = "free" => starts \in failed
        /\ g \in failed \cup cancelled
    BY <1>1, <1>5, LateStop
  <2>2. \A h \in Gens : boot'[h] = IF h = g THEN "stopping" ELSE boot[h]
    BY <1>1 DEF TypeOK
  <2>3. ~Earlier(g)
    BY <1>1, <2>1 DEF CleanBoots, BootsOver
  <2>4. BootsOver'
    BY <1>1, <2>1, <2>2, <2>3 DEF CleanBoots, BootsOver, Earlier
  <2>5. FlagFollows'
    BY <1>1, <2>1, <2>2 DEF CleanBoots, FlagFollows
  <2> QED BY <2>4, <2>5 DEF CleanBoots
<1>6. ASSUME ~metBoot', ~metListener' PROVE CleanListeners'
  BY <1>1, <1>6
     DEF CleanListeners, ListenersOver, FieldIsOpen, Listens, Earlier, Looping
<1> QED BY <1>2, <1>3, <1>4, <1>5, <1>6

\* The late stop clears the fields.
LEMMA BootTearsDownInv ==
    ASSUME IInv, NEW g \in Gens, BootTearsDown(g)
    PROVE  IInv'
<1> USE DEF IInv
<1>1. /\ UNCHANGED <<isRunning, blockedOn, listener, peerSync, gossip, main,
                     serviceUp, wanted, failed, broken, metBoot, metListener>>
      /\ boot[g] = "stopping" /\ boot' = [boot EXCEPT ![g] = "done"]
      /\ TearDown
  BY DEF BootTearsDown, Elsewhere, NoFault, otherVars, met
<1>2. TypeOK'
  <2>1. socket' \in [Gens -> {"none", "open", "closed"}]
    BY <1>1, CloseFacts DEF TearDown
  <2> QED BY <1>1, <2>1, TearDownFacts DEF TypeOK
<1>3. Scopes'
  BY <1>1, TearDownFacts DEF TypeOK, Scopes
<1>4. OneGossip'
  BY <1>1 DEF OneGossip
<1>5. ASSUME ~metBoot'
      PROVE  CleanBoots' /\ ~isRunning /\ main # "starting"
  <2>1. /\ CleanBoots /\ g = starts /\ main # "starting"
        /\ wanted /\ main = "free" => starts \in failed
    BY <1>1, <1>5, LateStop
  <2>2. ~isRunning
    BY <1>1, <2>1 DEF CleanBoots, FlagFollows
  <2>3. \A h \in Gens : boot'[h] = IF h = g THEN "done" ELSE boot[h]
    BY <1>1 DEF TypeOK
  <2>4. BootsOver'
    BY <1>1, <2>1, <2>3, TearDownFacts DEF CleanBoots, BootsOver, Earlier
  <2>5. FlagFollows'
    BY <1>1, <2>1, <2>2, <2>3, TearDownFacts DEF CleanBoots, FlagFollows
  <2> QED BY <2>1, <2>2, <2>4, <2>5 DEF CleanBoots
<1>6. ASSUME ~metBoot', ~metListener' PROVE CleanListeners'
  BY <1>1, <1>5, <1>6, TearDownClean
<1> QED BY <1>2, <1>3, <1>4, <1>5, <1>6

-----------------------------------------------------------------------------
(* The listeners                                                           *)

\* The step of a listener changes neither the scopes nor the gossip, and
\* unless a start met something it is the listener of the current scope, alone.
LEMMA ListenerKeeps ==
    ASSUME IInv, NEW g \in Gens, Listening,
           listener[g] \notin {"none", "done"},
           NEW s \in {"binding", "loop", "receive", "finally", "done"},
           listener' = [listener EXCEPT ![g] = s],
           listener[g] = "queued" /\ g \in cancelled => s = "done"
    PROVE  /\ Scopes' /\ OneGossip'
           /\ ~metBoot' => CleanBoots'
           /\ ~metBoot' /\ ~metListener' =>
                 /\ CleanBoots /\ CleanListeners /\ ListenersOver'
                 /\ listener[g] # "queued" \/ g \notin cancelled =>
                       /\ g = starts /\ main # "starting"
                       /\ \A h \in Gens \ {g} :
                             /\ listener[h] \notin
                                   {"binding", "loop", "receive", "finally"}
                             /\ socket[h] # "open"
<1> USE DEF IInv
<1>1. UNCHANGED <<isRunning, networkScope, cancelled, starts, boot, peerSync,
                  gossip, main, serviceUp, wanted, failed, metBoot, metListener>>
  BY DEF Listening, Elsewhere, fieldVars, otherVars, met
<1>2. Scopes'
  BY <1>1 DEF TypeOK, Scopes
<1>3. OneGossip'
  BY <1>1 DEF OneGossip
<1>4. ASSUME ~metBoot' PROVE CleanBoots'
  BY <1>1, <1>4 DEF CleanBoots, BootsOver, FlagFollows, Earlier
<1>5. ASSUME ~metBoot', ~metListener'
      PROVE  /\ CleanBoots /\ CleanListeners /\ ListenersOver'
             /\ listener[g] # "queued" \/ g \notin cancelled =>
                   /\ g = starts /\ main # "starting"
                   /\ \A h \in Gens \ {g} :
                         /\ listener[h] \notin
                               {"binding", "loop", "receive", "finally"}
                         /\ socket[h] # "open"
  <2>1. CleanBoots /\ CleanListeners
    BY <1>1, <1>5
  <2>2. \A h \in Gens : Earlier(h)' <=> Earlier(h)
    BY <1>1 DEF Earlier
  <2>3. Earlier(g) => listener[g] = "queued" /\ g \in cancelled
    BY <2>1 DEF CleanListeners, ListenersOver
  <2>4. ListenersOver'
    BY <1>1, <2>1, <2>2, <2>3 DEF TypeOK, CleanListeners, ListenersOver
  <2>5. \A h \in Gens : h > starts => listener[h] = "none"
    BY DEF Scopes
  <2>6. ASSUME listener[g] # "queued" \/ g \notin cancelled
        PROVE  /\ g = starts /\ main # "starting"
               /\ \A h \in Gens \ {g} :
                     /\ listener[h] \notin
                           {"binding", "loop", "receive", "finally"}
                     /\ socket[h] # "open"
    <3>1. g = starts /\ main # "starting"
      BY <2>3, <2>5, <2>6, StartsAssumption DEF TypeOK, Earlier, Gens
    <3>2. ASSUME NEW h \in Gens \ {g}
          PROVE  listener[h] \notin {"binding", "loop", "receive", "finally"}
      <4>1. CASE h < starts
        BY <2>1, <4>1 DEF CleanListeners, ListenersOver, Earlier
      <4>2. CASE h > starts
        BY <2>5, <4>2
      <4> QED BY <3>1, <4>1, <4>2, StartsAssumption DEF TypeOK, Gens
    <3>3. ASSUME NEW h \in Gens \ {g} PROVE socket[h] # "open"
      BY <2>1, <3>2 DEF CleanListeners, FieldIsOpen
    <3> QED BY <3>1, <3>2, <3>3
  <2> QED BY <2>1, <2>4, <2>6
<1> QED BY <1>2, <1>3, <1>4, <1>5

\* A listener starts, unless its scope was cancelled before it did.
LEMMA ListenerStartInv ==
    ASSUME IInv, NEW g \in Gens, ListenerStart(g)
    PROVE  IInv'
<1> USE DEF IInv
<1>1. PICK s \in {"binding", "done"} :
         /\ listener' = [listener EXCEPT ![g] = s]
         /\ s = "done" <=> g \in cancelled
  BY DEF ListenerStart
<1>2. /\ Listening /\ listener[g] = "queued"
      /\ UNCHANGED <<isRunning, starts, cancelled, boot, main, socket, udpSocket,
                     blockedOn, broken, metBoot, metListener>>
  BY DEF ListenerStart, Listening, Elsewhere, fieldVars, socketVars, met
<1>3. TypeOK'
  BY <1>1, <1>2 DEF TypeOK, Listening, Elsewhere, fieldVars, otherVars
<1>4. Scopes' /\ OneGossip' /\ (~metBoot' => CleanBoots')
  BY <1>1, <1>2, ListenerKeeps
<1>5. ASSUME ~metBoot', ~metListener' PROVE CleanListeners'
  <2>1. CleanBoots /\ CleanListeners /\ ListenersOver'
    BY <1>1, <1>2, <1>5, ListenerKeeps
  <2>2. \A h \in Gens : listener'[h] = IF h = g THEN s ELSE listener[h]
    BY <1>1 DEF TypeOK
  <2>3. FieldIsOpen'
    BY <1>2, <2>1, <2>2 DEF CleanListeners, FieldIsOpen, Looping
  <2>4. isRunning /\ main # "starting" => starts \notin cancelled
    BY <2>1 DEF CleanBoots, FlagFollows
  <2>5. Listens'
    BY <1>1, <1>2, <2>1, <2>2, <2>4 DEF CleanListeners, Listens, Serving
  <2> QED BY <2>1, <2>3, <2>5 DEF CleanListeners
<1> QED BY <1>3, <1>4, <1>5

\* A listener binds: no other socket is open unless a start met something.
LEMMA ListenerBindInv ==
    ASSUME IInv, NEW g \in Gens, ListenerBind(g)
    PROVE  IInv'
<1> USE DEF IInv
<1>1. /\ Listening /\ listener[g] = "binding"
      /\ listener' = [listener EXCEPT ![g] = "loop"]
      /\ socket' = [socket EXCEPT ![g] = "open"]
      /\ udpSocket' = g
      /\ UNCHANGED <<isRunning, starts, boot, main, blockedOn, broken>>
  BY DEF ListenerBind, Listening, Elsewhere, fieldVars
<1>2. TypeOK'
  BY <1>1 DEF TypeOK, Listening, Elsewhere, fieldVars, otherVars, met
<1>3. Scopes' /\ OneGossip' /\ (~metBoot' => CleanBoots')
  BY <1>1, ListenerKeeps
<1>4. ASSUME ~metBoot', ~metListener' PROVE CleanListeners'
  <2>1. /\ CleanListeners /\ ListenersOver'
        /\ \A h \in Gens \ {g} :
              /\ listener[h] \notin {"binding", "loop", "receive", "finally"}
              /\ socket[h] # "open"
    BY <1>1, <1>4, ListenerKeeps
  <2>2. \A h \in Gens : /\ listener'[h] = IF h = g THEN "loop" ELSE listener[h]
                        /\ socket'[h] = IF h = g THEN "open" ELSE socket[h]
    BY <1>1 DEF TypeOK
  <2>3. FieldIsOpen'
    BY <1>1, <2>1, <2>2 DEF FieldIsOpen, Looping
  <2>4. Listens'
    BY <1>1, <2>1, <2>2 DEF CleanListeners, Listens, Serving
  <2> QED BY <2>1, <2>3, <2>4 DEF CleanListeners
<1> QED BY <1>2, <1>3, <1>4

\* A listener with its socket turns in its loop, and leaves it when the flag
\* is down or its socket is closed, which it is only when the flag is down; or
\* it meets an error.
LEMMA ListenerTurnInv ==
    ASSUME IInv, NEW g \in Gens,
           ListenerLoop(g) \/ ListenerReceive(g) \/ ListenerClosed(g)
             \/ ListenerError(g)
    PROVE  IInv'
<1> USE DEF IInv
<1>1. PICK s \in {"loop", "receive", "finally"} :
         /\ listener' = [listener EXCEPT ![g] = s]
         /\ listener[g] = "binding" => s = "finally"
         /\ s = "receive" => /\ udpSocket # None
                             /\ blockedOn' = [blockedOn EXCEPT ![g] = udpSocket]
                             /\ isRunning /\ listener[g] = "loop"
         /\ s = "finally" => \/ ~isRunning
                             \/ g \in broken'
                             \/ /\ listener[g] = "receive"
                                /\ socket[blockedOn[g]] = "closed"
  BY DEF ListenerLoop, ListenerReceive, ListenerClosed, ListenerError
<1>2. /\ Listening /\ listener[g] \in {"binding", "loop", "receive"}
      /\ UNCHANGED <<isRunning, starts, boot, main, socket, udpSocket>>
      /\ broken' \in {broken, broken \cup {g}}
  BY DEF ListenerLoop, ListenerReceive, ListenerClosed, ListenerError, Listening,
         Elsewhere, fieldVars, socketVars
<1>3. \E b \in Gens \cup {None} :
         blockedOn' \in {blockedOn, [blockedOn EXCEPT ![g] = b]}
  BY DEF TypeOK, ListenerLoop, ListenerReceive, ListenerClosed, ListenerError
<1>4. TypeOK'
  BY <1>1, <1>2, <1>3 DEF TypeOK, Listening, Elsewhere, fieldVars, otherVars, met
<1>5. Scopes' /\ OneGossip' /\ (~metBoot' => CleanBoots')
  BY <1>1, <1>2, ListenerKeeps
<1>6. ASSUME ~metBoot', ~metListener' PROVE CleanListeners'
  <2>1. CleanListeners /\ ListenersOver'
    BY <1>1, <1>2, <1>6, ListenerKeeps
  <2>2. \A h \in Gens : /\ listener'[h] = IF h = g THEN s ELSE listener[h]
                        /\ h # g => blockedOn'[h] = blockedOn[h]
    BY <1>1, <1>3 DEF TypeOK
  <2>3. listener[g] \in {"loop", "receive"} /\ isRunning =>
           udpSocket = g /\ socket[g] = "open"
    BY <2>1 DEF CleanListeners, FieldIsOpen, Looping
  <2>4. s = "receive" => blockedOn'[g] = g
    BY <1>1, <2>3 DEF TypeOK
  <2>5. FieldIsOpen'
    <3>1. \A h \in Gens : listener'[h] = "receive" => blockedOn'[h] = h
      BY <2>1, <2>2, <2>4 DEF CleanListeners, FieldIsOpen
    <3>2. \A h \in Gens :
             socket'[h] = "open" =>
                udpSocket' = h /\ listener'[h] \in {"loop", "receive", "finally"}
      BY <1>2, <2>1, <2>2 DEF CleanListeners, FieldIsOpen
    <3>3. isRunning' =>
             \A h \in Looping' : udpSocket' = h /\ socket'[h] = "open"
      BY <1>1, <1>2, <2>1, <2>2, <2>3 DEF CleanListeners, FieldIsOpen, Looping
    <3> QED BY <3>1, <3>2, <3>3 DEF FieldIsOpen
  <2>6. isRunning /\ s = "finally" => g \in broken'
    BY <1>1, <2>1, <2>3 DEF CleanListeners, FieldIsOpen
  <2>7. Listens'
    BY <1>2, <2>1, <2>2, <2>6 DEF CleanListeners, Listens, Serving
  <2> QED BY <2>1, <2>5, <2>7 DEF CleanListeners
<1> QED BY <1>4, <1>5, <1>6

\* The finally block closes the field: unless a start met something no other
\* listener loops, and this one was not serving any more.
LEMMA ListenerFinallyInv ==
    ASSUME IInv, NEW g \in Gens, ListenerFinally(g)
    PROVE  IInv'
<1> USE DEF IInv
<1>1. /\ Listening /\ listener[g] = "finally"
      /\ listener' = [listener EXCEPT ![g] = "done"]
      /\ CloseField
      /\ UNCHANGED <<isRunning, starts, boot, main, udpSocket, blockedOn, broken>>
  BY DEF ListenerFinally, Listening, Elsewhere, fieldVars
<1>2. TypeOK'
  BY <1>1, CloseFacts DEF TypeOK, Listening, Elsewhere, fieldVars, otherVars, met
<1>3. Scopes' /\ OneGossip' /\ (~metBoot' => CleanBoots')
  BY <1>1, ListenerKeeps
<1>4. ASSUME ~metBoot', ~metListener' PROVE CleanListeners'
  <2>1. /\ CleanListeners /\ ListenersOver'
        /\ \A h \in Gens \ {g} :
              listener[h] \notin {"binding", "loop", "receive", "finally"}
    BY <1>1, <1>4, ListenerKeeps
  <2>2. \A h \in Gens : listener'[h] = IF h = g THEN "done" ELSE listener[h]
    BY <1>1 DEF TypeOK
  <2>3. \A h \in Gens : socket'[h] # "open"
    BY <1>1, <2>1, CloseFacts DEF CleanListeners, FieldIsOpen
  <2>4. \A h \in Gens : listener'[h] \notin {"loop", "receive"}
    BY <2>1, <2>2
  <2>5. FieldIsOpen'
    BY <2>3, <2>4 DEF FieldIsOpen, Looping
  <2>6. Listens'
    BY <1>1, <2>1, <2>2 DEF CleanListeners, Listens, Serving
  <2> QED BY <2>1, <2>5, <2>6 DEF CleanListeners
<1> QED BY <1>2, <1>3, <1>4

-----------------------------------------------------------------------------
(* The theorems                                                            *)

\* Every step keeps the invariant.
LEMMA StepInv == IInv /\ [Next]_vars => IInv'
<1> SUFFICES ASSUME IInv, [Next]_vars PROVE IInv'
  OBVIOUS
<1>1. CASE ActivityCreate
  BY <1>1, RequestStartInv DEF ActivityCreate, IInv, TypeOK
<1>2. CASE ServiceCreate
  BY <1>2, RequestStartInv DEF ServiceCreate
<1>3. CASE ServiceDestroy
  BY <1>3, RequestStopInv DEF ServiceDestroy
<1>4. CASE Logout
  BY <1>4, RequestStopInv DEF Logout, IInv, TypeOK
<1>5. CASE FinishStart
  BY <1>5, FinishStartInv
<1>6. CASE FinishStop
  BY <1>6, FinishStopInv
<1>7. ASSUME NEW g \in Gens, BootRun(g) PROVE IInv'
  BY <1>7, BootRunInv
<1>8. ASSUME NEW g \in Gens, BootSynced(g) PROVE IInv'
  BY <1>8, BootSyncedInv
<1>9. ASSUME NEW g \in Gens, BootThrows(g) \/ BootFails(g) PROVE IInv'
  BY <1>9, BootFailsInv
<1>10. ASSUME NEW g \in Gens, BootLowers(g) PROVE IInv'
  BY <1>10, BootLowersInv
<1>11. ASSUME NEW g \in Gens, BootTearsDown(g) PROVE IInv'
  BY <1>11, BootTearsDownInv
<1>12. ASSUME NEW g \in Gens, ListenerStart(g) PROVE IInv'
  BY <1>12, ListenerStartInv
<1>13. ASSUME NEW g \in Gens, ListenerBind(g) PROVE IInv'
  BY <1>13, ListenerBindInv
<1>14. ASSUME NEW g \in Gens, ListenerLoop(g) \/ ListenerReceive(g)
                                \/ ListenerClosed(g) \/ ListenerError(g)
       PROVE  IInv'
  BY <1>14, ListenerTurnInv
<1>15. ASSUME NEW g \in Gens, ListenerFinally(g) PROVE IInv'
  BY <1>15, ListenerFinallyInv
<1>16. CASE UNCHANGED vars
  BY <1>16
     DEF vars, fieldVars, threadVars, socketVars, otherVars, ghosts, met, IInv,
         TypeOK, Scopes, OneGossip, CleanBoots, BootsOver, FlagFollows, Earlier,
         CleanListeners, ListenersOver, FieldIsOpen, Listens, Looping, Serving
<1> QED
  BY <1>1, <1>2, <1>3, <1>4, <1>5, <1>6, <1>7, <1>8, <1>9, <1>10, <1>11,
     <1>12, <1>13, <1>14, <1>15, <1>16 DEF Next

\* The inductive invariant holds in every reachable state.
THEOREM Invariant == Spec => []IInv
<1>1. Init => IInv
  BY InitInv
<1>2. IInv /\ [Next]_vars => IInv'
  BY StepInv
<1> QED BY <1>1, <1>2, PTL DEF Spec

\* The scopes, sockets and coroutines of startNetwork and stopNetwork keep
\* their types.
THEOREM TypeCorrect == Spec => []TypeOK
<1>1. IInv => TypeOK
  BY DEF IInv
<1> QED BY <1>1, Invariant, PTL

\* A set that holds at most one given value has at most one element.
LEMMA AtMostOne ==
    ASSUME NEW S, NEW x, S \subseteq {x}
    PROVE  Cardinality(S) <= 1
<1>1. S = {} \/ S = {x}
  OBVIOUS
<1>2. Cardinality({}) = 0 /\ Cardinality({x}) = 1
  BY FS_EmptySet, FS_Singleton
<1> QED BY <1>1, <1>2

\* RunningListens: however startNetwork and stopNetwork interleave with the
\* coroutines of earlier starts and with exceptions, the first boot coroutine
\* launches one gossip loop and there is none after the first stop; unless a
\* start met an earlier boot coroutine, a node that was last asked to start is
\* down only if its own boot coroutine threw; and unless a start met anything
\* earlier a running node that has booted has exactly its own listener, on the
\* open socket of the field, or that listener met an error.
THEOREM RunningAndListening == Spec => []RunningListens
<1>1. IInv => RunningListens
  <2> SUFFICES ASSUME IInv PROVE RunningListens
    OBVIOUS
  <2>1. DownExplained
    BY DEF IInv, CleanBoots, FlagFollows, DownExplained
  <2>2. ListenerServes
    <3> SUFFICES ASSUME ~metBoot, ~metListener
                 PROVE  /\ Cardinality(Looping) <= 1
                        /\ isRunning =>
                              /\ \A g \in Looping :
                                    udpSocket = g /\ socket[g] = "open"
                              /\ \A g \in Gens :
                                    g = networkScope
                                    /\ boot[g] \in {"syncing", "done"} =>
                                          g \in Serving \cup broken
      BY DEF ListenerServes
    <3>1. TypeOK /\ Scopes /\ CleanBoots /\ CleanListeners
      BY DEF IInv
    <3>2. Looping \subseteq {starts}
      <4> SUFFICES ASSUME NEW g \in Looping PROVE g = starts
        OBVIOUS
      <4>1. g \in Gens /\ listener[g] \in {"loop", "receive"}
        BY DEF Looping
      <4>2. ~Earlier(g) /\ ~(g > starts)
        BY <3>1, <4>1 DEF Scopes, CleanListeners, ListenersOver
      <4> QED BY <3>1, <4>1, <4>2, StartsAssumption DEF TypeOK, Earlier, Gens
    <3>3. ASSUME isRunning, NEW g \in Gens, g = networkScope,
                 boot[g] \in {"syncing", "done"}
          PROVE  g \in Serving \cup broken
      <4>1. g = starts
        BY <3>1, <3>3 DEF Scopes, Gens, None
      <4>2. CASE main = "starting"
        BY <3>1, <3>3, <4>2 DEF CleanBoots, FlagFollows, Gens, None
      <4>3. CASE main # "starting"
        BY <3>1, <3>3, <4>1, <4>3 DEF CleanListeners, Listens
      <4> QED BY <4>2, <4>3
    <3> QED BY <3>1, <3>2, <3>3, AtMostOne DEF CleanListeners, FieldIsOpen
  <2>3. OneGossipLife
    <3>1. CASE peerSync = "cancelled"
      BY <3>1 DEF IInv, OneGossip, OneGossipLife
    <3>2. CASE peerSync = "active"
      <4>1. gossip <= 1
        <5>1. starts = 0 \/ starts > 0
          BY StartsAssumption DEF IInv, TypeOK
        <5> QED BY <3>2, <5>1 DEF IInv, OneGossip
      <4>2. ASSUME NEW g \in Gens, boot[g] \in {"syncing", "done"}
            PROVE  gossip = 1
        <5>1. g >= 1 /\ g <= starts
          BY <4>2, StartsAssumption DEF IInv, TypeOK, Scopes, Gens
        <5>2. starts = 1
          BY <3>2, <5>1, StartsAssumption DEF IInv, TypeOK, OneGossip, Gens
        <5>3. g = 1
          BY <5>1, <5>2 DEF Gens
        <5> QED BY <3>2, <4>2, <5>2, <5>3 DEF IInv, OneGossip
      <4> QED BY <3>2, <4>1, <4>2 DEF OneGossipLife
    <3> QED BY <3>1, <3>2 DEF IInv, TypeOK
  <2> QED BY <2>1, <2>2, <2>3 DEF RunningListens
<1> QED BY <1>1, Invariant, PTL

\* StoppedReleasesPort: unless a start met earlier coroutines a stopped node
\* whose coroutines have ended holds no open socket.
THEOREM PortReleased == Spec => []StoppedReleasesPort
<1>1. IInv => StoppedReleasesPort
  <2> SUFFICES ASSUME IInv, ~metBoot, ~metListener, NEW g \in Gens, ~Live(g)
               PROVE  socket[g] # "open"
    BY DEF StoppedReleasesPort
  <2> QED BY DEF IInv, CleanListeners, FieldIsOpen, Live
<1> QED BY <1>1, Invariant, PTL

-----------------------------------------------------------------------------
(* The directory: the inductive invariant                                  *)

Merges == [on : BOOLEAN, local : Rows, addr : Addrs, seen : 0 .. MaxClock,
           key : BOOLEAN]

\* A node has been in no more places than the clock has had ticks.
Moves == \A t \in 1 .. Len(hist) : hist[t].src <= t

\* The rows of the device and of the server, and what is on its way to them.
Whole(r) == r.is \/ r = NoRow
Stored == Whole(row) /\ Whole(server) /\ \A f \in Fetchers : Whole(fetch[f])

\* Before the first addition by hand every row there is has a key: the row
\* itself, the server's record, a list not stored yet, and a merge that has
\* read the row and not written it.
Keyed(r) == r.is => r.key
AllKeyed ==
    adds = 0 =>
        /\ ~adding
        /\ Keyed(row) /\ Keyed(server)
        /\ \A f \in Fetchers : Keyed(fetch[f])
        /\ \A g \in Gossipers :
              merging[g].on => merging[g].key /\ Keyed(merging[g].local)

DirInv == DirTypeOK /\ Moves /\ Stored /\ AllKeyed

-----------------------------------------------------------------------------
(* Rows                                                                    *)

\* What Row makes, as every writer of dht_nodes does.
LEMMA RowFacts ==
    ASSUME NEW a \in Addrs, NEW t \in 0 .. MaxClock, NEW k \in BOOLEAN,
           NEW ph \in BOOLEAN
    PROVE  /\ Row(a, t, k, ph) \in Rows
           /\ Row(a, t, k, ph).is
           /\ Row(a, t, k, ph).key = k
BY DEF Row, Rows

\* The absent row, and a merge that is not under way.
LEMMA NoRowFacts == NoRow \in Rows /\ ~NoRow.is /\ Quiet \in Merges /\ ~Quiet.on
BY DirectoryConstants DEF NoRow, Rows, Quiet, Merges, Addrs, Inside

\* The fields of a row have their types.
LEMMA RowFields ==
    ASSUME NEW r \in Rows
    PROVE  /\ r.addr \in Addrs /\ r.seen \in 0 .. MaxClock
           /\ r.key \in BOOLEAN /\ r.phone \in BOOLEAN /\ r.is \in BOOLEAN
BY DEF Rows

\* updateNetworkInfo keeps a row whole, and a keyed row keyed.
LEMMA UpdateFacts ==
    ASSUME NEW a \in Addrs, NEW t \in 0 .. MaxClock, NEW k \in BOOLEAN,
           row \in Rows, Whole(row), UpdateNetworkInfo(a, k, t)
    PROVE  row' \in Rows /\ Whole(row)' /\ (k => Keyed(row)')
<1>1. CASE row.is
  <2>1. row' = Row(a, t, k, row.phone)
    BY <1>1 DEF UpdateNetworkInfo
  <2>2. row.phone \in BOOLEAN
    BY RowFields
  <2> QED BY <2>1, <2>2, RowFacts DEF Whole, Keyed
<1>2. CASE ~row.is
  <2>1. row' = row
    BY <1>2 DEF UpdateNetworkInfo
  <2> QED BY <1>2, <2>1 DEF Whole, Keyed
<1> QED BY <1>1, <1>2

-----------------------------------------------------------------------------
(* The invariant                                                           *)

\* The directory starts with the invariant.
LEMMA DirInitInv == DirInit => DirInv
<1> SUFFICES ASSUME DirInit PROVE DirInv
  OBVIOUS
<1>1. DirTypeOK
  <2>1. hist \in Seq(Places) /\ now \in Times
    <3>1. PICK o \in Interfaces(1) : hist = <<[src |-> 1, own |-> o]>>
      BY DEF DirInit
    <3>2. [src |-> 1, own |-> o] \in Places
      BY DirectoryConstants DEF Interfaces, Places, Addrs, Inside
    <3> QED BY <3>1, <3>2, DirectoryConstants DEF Times, now
  <2>2. merging \in [Gossipers -> Merges] /\ fetch \in [Fetchers -> Rows]
    BY NoRowFacts DEF DirInit
  <2>3. lastSync \in [Gossipers -> 0 .. MaxClock] /\ adds \in 0 .. MaxAdds
        /\ known \in BOOLEAN
    BY DirectoryConstants DEF DirInit
  <2>4. row \in Rows /\ server \in Rows /\ row = NoRow
    BY NoRowFacts DEF DirInit
  <2>5. flight \subseteq Addrs /\ adding \in BOOLEAN
    BY DEF DirInit
  <2> QED BY <2>1, <2>2, <2>3, <2>4, <2>5 DEF DirTypeOK, Merges
<1>2. Moves
  <2>1. PICK o \in Interfaces(1) : hist = <<[src |-> 1, own |-> o]>>
    BY DEF DirInit
  <2>2. Len(hist) = 1 /\ hist[1].src = 1
    BY <2>1
  <2> QED BY <2>2 DEF Moves
<1>3. Stored
  BY DEF DirInit, Stored, Whole
<1>4. AllKeyed
  BY NoRowFacts DEF DirInit, AllKeyed, Keyed
<1> QED BY <1>1, <1>2, <1>3, <1>4 DEF DirInv

\* What every step but a tick leaves of the history.
LEMMA HistoryKept ==
    ASSUME hist \in Seq(Places), now \in Times, Moves, UNCHANGED hist
    PROVE  hist' \in Seq(Places) /\ (now \in Times)' /\ Moves'
BY DEF now, Moves

\* The clock ticks and the node may move.
LEMMA TickInv == ASSUME DirInv, Tick PROVE DirInv'
<1> USE DEF DirInv
<1>1. PICK a : /\ hist' = Append(hist, a)
               /\ \/ a = hist[now]
                  \/ \E o \in Interfaces(hist[now].src + 1) :
                        a = [src |-> hist[now].src + 1, own |-> o]
  BY DEF Tick
<1>2. /\ hist \in Seq(Places) /\ now = Len(hist)
      /\ now \in 1 .. MaxClock /\ now < MaxClock /\ MaxClock \in Nat
  BY DirectoryConstants DEF DirTypeOK, Times, now, Tick
<1>3. hist[now] \in Places /\ hist[now].src \in Nat \ {0} /\ hist[now].src <= now
  <2>1. hist[now] \in Places
    BY <1>2
  <2> QED BY <1>2, <2>1 DEF Moves, Places, Addrs
<1>4. a \in Places /\ a.src <= now + 1
  <2>1. CASE a = hist[now]
    BY <1>2, <1>3, <2>1
  <2>2. ASSUME NEW o \in Interfaces(hist[now].src + 1),
               a = [src |-> hist[now].src + 1, own |-> o]
        PROVE  a \in Places /\ a.src <= now + 1
    <3>1. hist[now].src + 1 \in Addrs \ {0, Inside}
      BY <1>2, <1>3 DEF Addrs, Inside
    <3>2. o \in Addrs
      BY <1>2, <3>1 DEF Interfaces, Addrs, Inside
    <3>3. a \in Places
      BY <2>2, <3>1, <3>2 DEF Places
    <3> QED BY <1>2, <1>3, <2>2, <3>3
  <2> QED BY <1>1, <2>1, <2>2
<1>5. hist' \in Seq(Places) /\ Len(hist') = now + 1
  BY <1>1, <1>2, <1>4
<1>6. (now \in Times)'
  BY <1>2, <1>5 DEF now, Times
<1>7. Moves'
  <2> SUFFICES ASSUME NEW t \in 1 .. now + 1 PROVE hist'[t].src <= t
    BY <1>5 DEF Moves
  <2>1. CASE t = now + 1
    BY <1>1, <1>2, <1>4, <2>1
  <2>2. CASE t # now + 1
    <3>1. t \in 1 .. Len(hist) /\ hist'[t] = hist[t]
      BY <1>1, <1>2, <2>2
    <3> QED BY <3>1 DEF Moves
  <2> QED BY <2>1, <2>2
<1>8. DirTypeOK'
  BY <1>5, <1>6 DEF DirTypeOK, Tick
<1>9. Stored' /\ AllKeyed'
  BY DEF Tick, Stored, AllKeyed
<1> QED BY <1>7, <1>8, <1>9

\* What the node was told by is an address, at a time.
LEMMA Current ==
    ASSUME DirInv
    PROVE  /\ now \in 1 .. MaxClock /\ now \in 0 .. MaxClock
           /\ \A t \in 1 .. now : /\ hist[t].src \in Addrs /\ hist[t].own \in Addrs
                                  /\ Told(t) \subseteq Addrs /\ t \in 0 .. MaxClock
<1>1. now \in 1 .. MaxClock /\ now = Len(hist) /\ MaxClock \in Nat
  BY DirectoryConstants DEF DirInv, DirTypeOK, Times, now
<1>2. ASSUME NEW t \in 1 .. now
      PROVE  /\ hist[t].src \in Addrs /\ hist[t].own \in Addrs
             /\ Told(t) \subseteq Addrs /\ t \in 0 .. MaxClock
  <2>1. hist[t] \in Places
    BY <1>1 DEF DirInv, DirTypeOK
  <2>2. hist[t].src \in Addrs /\ hist[t].own \in Addrs /\ 0 \in Addrs
    BY <1>1, <2>1 DEF Places, Addrs, Inside
  <2> QED BY <1>1, <2>2 DEF Told
<1> QED BY <1>1, <1>2

\* What the node announces has its key.
LEMMA AnnounceInv == ASSUME DirInv, Announce PROVE DirInv'
<1> USE DEF DirInv
<1>1. server' \in Rows /\ Whole(server)' /\ Keyed(server)'
  <2>1. server' = Row(hist[now].own, now, TRUE, known)
    BY DEF Announce
  <2>2. hist[now].own \in Addrs /\ now \in 0 .. MaxClock /\ known \in BOOLEAN
        /\ TRUE \in BOOLEAN
    BY Current DEF DirTypeOK
  <2> QED BY <2>1, <2>2, RowFacts DEF Whole, Keyed
<1>2. hist' \in Seq(Places) /\ (now \in Times)' /\ Moves'
  BY HistoryKept DEF DirTypeOK, Announce
<1>3. DirTypeOK'
  BY <1>1, <1>2 DEF DirTypeOK, Announce
<1>4. Stored' /\ AllKeyed'
  BY <1>1 DEF Announce, Stored, AllKeyed, Whole, Keyed
<1> QED BY <1>2, <1>3, <1>4

\* So has what it announces when its user logs in.
LEMMA LogInInv == ASSUME DirInv, LogIn PROVE DirInv'
<1> USE DEF DirInv
<1>1. server' \in Rows /\ Whole(server)' /\ (adds = 0 => Keyed(server)')
  <2>1. CASE server' = server
    BY <2>1 DEF DirTypeOK, Stored, AllKeyed, Whole, Keyed
  <2>2. CASE server' = Row(0, now, TRUE, TRUE)
    <3>1. 0 \in Addrs /\ now \in 0 .. MaxClock /\ TRUE \in BOOLEAN
      BY Current, DirectoryConstants DEF Addrs, Inside
    <3> QED BY <2>2, <3>1, RowFacts DEF Whole, Keyed
  <2> QED BY <2>1, <2>2 DEF LogIn
<1>2. hist' \in Seq(Places) /\ (now \in Times)' /\ Moves'
  BY HistoryKept DEF DirTypeOK, LogIn
<1>3. DirTypeOK'
  BY <1>1, <1>2 DEF DirTypeOK, LogIn
<1>4. Stored' /\ AllKeyed'
  BY <1>1 DEF LogIn, Stored, AllKeyed, Whole, Keyed
<1> QED BY <1>2, <1>3, <1>4

\* A datagram carries a current address.
LEMMA PingInv == ASSUME DirInv, Ping PROVE DirInv'
<1> USE DEF DirInv
<1>1. flight' \subseteq Addrs
  <2>1. hist[now].src \in Addrs
    BY Current
  <2> QED BY <2>1 DEF DirTypeOK, Ping
<1>2. hist' \in Seq(Places) /\ (now \in Times)' /\ Moves'
  BY HistoryKept DEF DirTypeOK, Ping
<1>3. DirTypeOK'
  BY <1>1, <1>2 DEF DirTypeOK, Ping
<1>4. Stored' /\ AllKeyed'
  BY DEF Ping, Stored, AllKeyed
<1> QED BY <1>2, <1>3, <1>4

\* processIncomingPacket stores the key of the packet.
LEMMA PacketInv == ASSUME DirInv, ProcessIncomingPacket PROVE DirInv'
<1> USE DEF DirInv
<1>1. PICK a \in flight : flight' = flight \ {a} /\ UpdateNetworkInfo(a, TRUE, now)
  BY DEF ProcessIncomingPacket
<1>2. row' \in Rows /\ Whole(row)' /\ Keyed(row)'
  <2>1. a \in Addrs /\ row \in Rows /\ Whole(row)
    BY DEF DirTypeOK, Stored
  <2>2. now \in 0 .. MaxClock
    BY Current
  <2> QED BY <1>1, <2>1, <2>2, UpdateFacts
<1>3. hist' \in Seq(Places) /\ (now \in Times)' /\ Moves'
  BY HistoryKept DEF DirTypeOK, ProcessIncomingPacket
<1>4. DirTypeOK'
  BY <1>1, <1>2, <1>3 DEF DirTypeOK, ProcessIncomingPacket, Whole
<1>5. Stored' /\ AllKeyed'
  BY <1>2 DEF ProcessIncomingPacket, Stored, AllKeyed, Whole, Keyed
<1> QED BY <1>3, <1>4, <1>5

\* A merge begins with an entry that has a key.
LEMMA GossipReadInv == ASSUME DirInv, NEW g \in Gossipers, GossipRead(g) PROVE DirInv'
<1> USE DEF DirInv
<1>0. PICK t \in 1 .. now, k \in BOOLEAN : \E a \in Told(t) :
        /\ Tellable(k)
        /\ merging' = [merging EXCEPT ![g] =
              [on |-> TRUE, local |-> row, addr |-> a, seen |-> t, key |-> k]]
  BY DEF GossipRead
<1>1. PICK a \in Told(t) :
        /\ Tellable(k)
        /\ merging' = [merging EXCEPT ![g] =
              [on |-> TRUE, local |-> row, addr |-> a, seen |-> t, key |-> k]]
  BY <1>0
<1> DEFINE m == [on |-> TRUE, local |-> row, addr |-> a, seen |-> t, key |-> k]
<1>2. a \in Addrs /\ t \in 0 .. MaxClock /\ row \in Rows
  BY Current DEF DirTypeOK
<1>3. m \in Merges /\ m.on /\ m.local = row /\ m.key = k
  BY <1>2 DEF Merges
<1>4. merging \in [Gossipers -> Merges]
  BY DEF DirTypeOK, Merges
<1>5. merging' = [merging EXCEPT ![g] = m]
  BY <1>1
<1> HIDE DEF m
<1>6. merging' \in [Gossipers -> Merges]
  BY <1>3, <1>4, <1>5
<1>7. lastSync' \in [Gossipers -> 0 .. MaxClock]
  <2>1. now \in 0 .. MaxClock /\ lastSync \in [Gossipers -> 0 .. MaxClock]
    BY Current DEF DirTypeOK
  <2> QED BY <2>1 DEF GossipRead
<1>8. hist' \in Seq(Places) /\ (now \in Times)' /\ Moves'
  BY HistoryKept DEF DirTypeOK, GossipRead
<1>9. DirTypeOK'
  BY <1>6, <1>7, <1>8 DEF DirTypeOK, GossipRead, Merges
<1>10. Stored'
  BY DEF GossipRead, Stored
<1>11. AllKeyed'
  <2> SUFFICES ASSUME adds = 0, NEW h \in Gossipers, merging'[h].on
               PROVE  merging'[h].key /\ Keyed(merging'[h].local)
    BY DEF GossipRead, AllKeyed, Keyed
  <2>1. CASE h = g
    <3>1. merging'[h] = m
      BY <1>4, <1>5, <2>1
    <3>2. k /\ Keyed(row)
      BY <1>1 DEF Tellable, AllKeyed
    <3> QED BY <3>1, <3>2, <1>3
  <2>2. CASE h # g
    <3>1. merging'[h] = merging[h]
      BY <1>4, <1>5, <2>2
    <3> QED BY <3>1 DEF AllKeyed
  <2> QED BY <2>1, <2>2
<1> QED BY <1>8, <1>9, <1>10, <1>11

\* A merge writes the key of its entry or the one it has read.
LEMMA GossipWriteInv == ASSUME DirInv, NEW g \in Gossipers, GossipWrite(g) PROVE DirInv'
<1> USE DEF DirInv
<1> DEFINE m == merging[g]
<1>1. merging \in [Gossipers -> Merges] /\ row \in Rows /\ Whole(row)
  BY DEF DirTypeOK, Merges, Stored
<1>2. /\ m.local \in Rows /\ m.addr \in Addrs /\ m.seen \in 0 .. MaxClock
      /\ m.key \in BOOLEAN /\ m.on
  BY <1>1 DEF Merges, GossipWrite
<1>3. m.local.key \in BOOLEAN /\ m.local.is \in BOOLEAN
  BY <1>2, RowFields
<1>4. adds = 0 => m.key /\ Keyed(m.local) /\ Keyed(row)
  BY <1>2 DEF AllKeyed
<1>5. merging' = [merging EXCEPT ![g] = Quiet]
  BY DEF GossipWrite
<1>6. \/ ~m.local.is /\ row' = Row(m.addr, m.seen, m.key, FALSE)
      \/ m.local.is /\ UpdateNetworkInfo(m.addr, m.local.key, m.seen)
      \/ row' = row
  BY DEF GossipWrite
<1> HIDE DEF m
<1>7. row' \in Rows /\ Whole(row)' /\ (adds = 0 => Keyed(row)')
  <2>1. CASE ~m.local.is /\ row' = Row(m.addr, m.seen, m.key, FALSE)
    <3>1. FALSE \in BOOLEAN
      OBVIOUS
    <3> QED BY <1>2, <1>4, <2>1, <3>1, RowFacts DEF Whole, Keyed
  <2>2. CASE m.local.is /\ UpdateNetworkInfo(m.addr, m.local.key, m.seen)
    <3>1. adds = 0 => m.local.key
      BY <1>4, <2>2 DEF Keyed
    <3> QED BY <1>1, <1>2, <1>3, <2>2, <3>1, UpdateFacts
  <2>3. CASE row' = row
    BY <1>1, <1>4, <2>3 DEF Whole, Keyed
  <2> QED BY <1>6, <2>1, <2>2, <2>3
<1>8. merging' \in [Gossipers -> Merges]
  BY <1>1, <1>5, NoRowFacts
<1>9. hist' \in Seq(Places) /\ (now \in Times)' /\ Moves'
  BY HistoryKept DEF DirTypeOK, GossipWrite
<1>10. DirTypeOK'
  BY <1>7, <1>8, <1>9 DEF DirTypeOK, GossipWrite, Merges, Whole
<1>11. Stored'
  BY <1>7 DEF GossipWrite, Stored, Whole
<1>12. AllKeyed'
  <2>1. \A h \in Gossipers : merging'[h].on => h # g /\ merging'[h] = merging[h]
    BY <1>1, <1>5, NoRowFacts
  <2> QED BY <1>7, <2>1 DEF GossipWrite, AllKeyed, Keyed
<1> QED BY <1>9, <1>10, <1>11, <1>12

\* A list carries the key of the server's record.
LEMMA FetchReplyInv == ASSUME DirInv, NEW f \in Fetchers, FetchReply(f) PROVE DirInv'
<1> USE DEF DirInv
<1>1. PICK t \in {server.seen, now} :
        fetch' = [fetch EXCEPT ![f] = Row(server.addr, t, server.key, server.phone)]
  BY DEF FetchReply
<1> DEFINE r == Row(server.addr, t, server.key, server.phone)
<1>2. fetch \in [Fetchers -> Rows] /\ server \in Rows /\ server.is
  BY DEF DirTypeOK, FetchReply
<1>3. t \in 0 .. MaxClock
  BY <1>2, Current, RowFields
<1>4. r \in Rows /\ r.is /\ r.key = server.key
  BY <1>2, <1>3, RowFields, RowFacts
<1>5. fetch' = [fetch EXCEPT ![f] = r]
  BY <1>1
<1> HIDE DEF r
<1>6. fetch' \in [Fetchers -> Rows]
  BY <1>2, <1>4, <1>5
<1>7. \A e \in Fetchers : fetch'[e] = IF e = f THEN r ELSE fetch[e]
  BY <1>2, <1>5
<1>8. hist' \in Seq(Places) /\ (now \in Times)' /\ Moves'
  BY HistoryKept DEF DirTypeOK, FetchReply
<1>9. DirTypeOK'
  BY <1>6, <1>8 DEF DirTypeOK, FetchReply
<1>10. Stored'
  BY <1>4, <1>7 DEF FetchReply, Stored, Whole
<1>11. AllKeyed'
  <2> SUFFICES ASSUME adds = 0, NEW e \in Fetchers PROVE Keyed(fetch'[e])
    BY DEF FetchReply, AllKeyed, Keyed
  <2>1. server.key /\ Keyed(fetch[e])
    BY <1>2 DEF AllKeyed, Keyed
  <2> QED BY <1>4, <1>7, <2>1 DEF Keyed
<1> QED BY <1>8, <1>9, <1>10, <1>11

\* A stored list replaces the row by one with a key.
LEMMA FetchStoreInv == ASSUME DirInv, NEW f \in Fetchers, FetchStore(f) PROVE DirInv'
<1> USE DEF DirInv
<1>1. fetch \in [Fetchers -> Rows] /\ fetch[f].is
  BY DEF DirTypeOK, FetchStore
<1>2. row' = fetch[f] /\ fetch' = [fetch EXCEPT ![f] = NoRow]
  BY DEF FetchStore, Upsert
<1>3. row' \in Rows /\ Whole(row)' /\ (adds = 0 => Keyed(row)')
  BY <1>1, <1>2 DEF Stored, AllKeyed, Whole, Keyed
<1>4. fetch' \in [Fetchers -> Rows]
  BY <1>1, <1>2, NoRowFacts
<1>5. \A e \in Fetchers : fetch'[e] = IF e = f THEN NoRow ELSE fetch[e]
  BY <1>1, <1>2
<1>6. hist' \in Seq(Places) /\ (now \in Times)' /\ Moves'
  BY HistoryKept DEF DirTypeOK, FetchStore
<1>7. DirTypeOK'
  BY <1>3, <1>4, <1>6 DEF DirTypeOK, FetchStore, Whole
<1>8. Stored'
  BY <1>3, <1>5 DEF FetchStore, Stored, Whole
<1>9. AllKeyed'
  BY <1>3, <1>5, NoRowFacts DEF FetchStore, AllKeyed, Keyed
<1> QED BY <1>6, <1>7, <1>8, <1>9

\* After the button nothing is promised of keys.
LEMMA AddBeginsInv == ASSUME DirInv, AddBegins PROVE DirInv'
<1> USE DEF DirInv
<1>1. row' = row \/ (row' = server /\ server.is)
  BY DEF AddBegins, Upsert
<1>2. row' \in Rows /\ Whole(row)'
  BY <1>1 DEF DirTypeOK, Stored, Whole
<1>3. adds \in Nat /\ adds' = adds + 1 /\ adds' \in 0 .. MaxAdds
  BY DirectoryConstants DEF DirTypeOK, AddBegins
<1>4. hist' \in Seq(Places) /\ (now \in Times)' /\ Moves'
  BY HistoryKept DEF DirTypeOK, AddBegins
<1>5. DirTypeOK'
  BY <1>2, <1>3, <1>4 DEF DirTypeOK, AddBegins, Whole
<1>6. Stored'
  BY <1>2 DEF AddBegins, Stored, Whole
<1>7. AllKeyed'
  BY <1>3 DEF AllKeyed
<1> QED BY <1>4, <1>5, <1>6, <1>7

\* The blank row is stored only after the button.
LEMMA AddByHandInv == ASSUME DirInv, AddByHand PROVE DirInv'
<1> USE DEF DirInv
<1>1. row' = Row(0, now, FALSE, FALSE) /\ 0 \in Addrs /\ FALSE \in BOOLEAN
  BY DirectoryConstants DEF AddByHand, Addrs, Inside
<1>2. row' \in Rows /\ Whole(row)'
  BY <1>1, Current, RowFacts DEF Whole
<1>3. hist' \in Seq(Places) /\ (now \in Times)' /\ Moves'
  BY HistoryKept DEF DirTypeOK, AddByHand
<1>4. DirTypeOK'
  BY <1>2, <1>3 DEF DirTypeOK, AddByHand, Whole
<1>5. Stored'
  BY <1>2 DEF AddByHand, Stored, Whole
<1>6. AllKeyed'
  BY DEF AddByHand, AllKeyed
<1> QED BY <1>3, <1>4, <1>5, <1>6

\* Every step of NodeDirectory keeps the invariant.
LEMMA DirStepInv == DirInv /\ [DirNext]_dirVars => DirInv'
<1> SUFFICES ASSUME DirInv, [DirNext]_dirVars PROVE DirInv'
  OBVIOUS
<1>1. CASE Tick
  BY <1>1, TickInv
<1>2. CASE Announce
  BY <1>2, AnnounceInv
<1>10. CASE LogIn
  BY <1>10, LogInInv
<1>3. CASE Ping
  BY <1>3, PingInv
<1>4. CASE ProcessIncomingPacket
  BY <1>4, PacketInv
<1>5. CASE \E g \in Gossipers : GossipRead(g) \/ GossipWrite(g)
  BY <1>5, GossipReadInv, GossipWriteInv
<1>6. CASE \E f \in Fetchers : FetchReply(f) \/ FetchStore(f)
  BY <1>6, FetchReplyInv, FetchStoreInv
<1>7. CASE AddBegins
  BY <1>7, AddBeginsInv
<1>8. CASE AddByHand
  BY <1>8, AddByHandInv
<1>9. CASE UNCHANGED dirVars
  BY <1>9 DEF dirVars, DirInv, DirTypeOK, Moves, Stored, AllKeyed, now
<1> QED BY <1>1, <1>2, <1>3, <1>4, <1>5, <1>6, <1>7, <1>8, <1>9, <1>10 DEF DirNext

-----------------------------------------------------------------------------
(* Theorems                                                                *)

\* The invariant holds whatever the order of the writers of dht_nodes.
THEOREM DirInvariant == DirSpec => []DirInv
BY DirInitInv, DirStepInv, PTL DEF DirSpec

\* The directory is type correct: no writer stores half a row.
THEOREM DirTypeCorrect == DirSpec => []DirTypeOK
<1>1. DirInv => DirTypeOK
  BY DEF DirInv
<1> QED BY <1>1, DirInvariant, PTL

\* No interleaving of datagrams, gossip and server lists loses the key of a
\* node; only the addition by hand of SettingsScreen does.
THEOREM KeysSurvive == DirSpec => []KeyLostOnlyByAdding
<1>1. DirInv => KeyLostOnlyByAdding
  BY DirectoryConstants DEF DirInv, DirTypeOK, AllKeyed, Keyed, KeyLostOnlyByAdding
<1> QED BY <1>1, DirInvariant, PTL
=============================================================================
