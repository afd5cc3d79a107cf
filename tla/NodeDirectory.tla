---------------------------- MODULE NodeDirectory ----------------------------
(***************************************************************************)
(* What a device knows about one other node: its row of dht_nodes, written *)
(* without a common lock by the handlers of its datagrams, by the gossip   *)
(* of other devices (PeerSyncRepository), by every fetch of the server's   *)
(* list (IdentityRepository) and by adding the node by hand                *)
(* (SettingsScreen).  Each of them reads first and writes later.           *)
(*                                                                         *)
(* The node moves between places as the clock ticks.  In each place its    *)
(* datagrams come from one address, and it announces another to the        *)
(* server: that of its own interface, which is the same only where there   *)
(* is no NAT, or "0.0.0.0" if it has none.  Devices that gossip are honest: *)
(* what they tell was told of the node at the time they tell.  The server  *)
(* is external: it keeps the last announcement of every node.              *)
(*                                                                         *)
(* The names of the specification begin with Dir: NodeProofs extends this  *)
(* module together with NetworkLifecycle.                                  *)
(***************************************************************************)
EXTENDS Naturals, Sequences

CONSTANTS
    Gossipers,   \* other devices that gossip
    Fetchers,    \* coroutines that fetch the list
    MaxClock,    \* bound on the clock
    MaxAdds      \* bound on additions by hand

ASSUME DirectoryConstants ==
    MaxClock \in Nat \ {0} /\ MaxAdds \in Nat /\ Fetchers # {}

Times == 1 .. MaxClock
Inside == MaxClock + 1      \* an address behind a NAT
Addrs  == 0 .. Inside       \* 0 is "0.0.0.0"
Places == [src : Addrs \ {0, Inside}, own : Addrs]
NoRow == [addr |-> 0, seen |-> 0, key |-> FALSE, phone |-> FALSE, is |-> FALSE]
Rows  == [addr : Addrs, seen : 0 .. MaxClock, key : BOOLEAN, phone : BOOLEAN,
          is : BOOLEAN]
Row(a, t, k, ph) == [addr |-> a, seen |-> t, key |-> k, phone |-> ph, is |-> TRUE]

VARIABLES
    hist,       \* hist[t]: the addresses of the node at time t
    known,      \* its user has logged in: the preferences hold the telephone
    row,        \* its row in the database of this device
    server,     \* its record on the server
    flight,     \* source addresses of its datagrams on their way
    merging,    \* merging[g]: a merge of gossip between its read and its write
    lastSync,   \* lastSyncFromPeer
    fetch,      \* fetch[f]: a list received and not stored yet
    adding,     \* the coroutine of SettingsScreen: fetch, then add
    adds        \* additions by hand so far

dirVars == <<hist, known, row, server, flight, merging, lastSync, fetch, adding, adds>>

now == Len(hist)
Quiet == [on |-> FALSE, local |-> NoRow, addr |-> 0, seen |-> 0, key |-> FALSE]

DirTypeOK ==
    /\ hist \in Seq(Places) /\ now \in Times
    /\ known \in BOOLEAN
    /\ row \in Rows /\ server \in Rows
    /\ row.is \/ row = NoRow
    /\ flight \subseteq Addrs
    /\ merging \in [Gossipers -> [on : BOOLEAN, local : Rows, addr : Addrs,
                                  seen : 0 .. MaxClock, key : BOOLEAN]]
    /\ lastSync \in [Gossipers -> 0 .. MaxClock]
    /\ fetch \in [Fetchers -> Rows]
    /\ adding \in BOOLEAN
    /\ adds \in 0 .. MaxAdds

\* What getLocalIpAddress finds where datagrams come from a: nothing, a, or
\* the address inside.
Interfaces(a) == {0, a, Inside}

DirInit ==
    /\ \E o \in Interfaces(1) : hist = <<[src |-> 1, own |-> o]>>
    /\ known \in BOOLEAN
    /\ row = NoRow /\ server = NoRow /\ flight = {}
    /\ merging = [g \in Gossipers |-> Quiet]
    /\ lastSync = [g \in Gossipers |-> 0]
    /\ fetch = [f \in Fetchers |-> NoRow]
    /\ adding = FALSE /\ adds = 0

-----------------------------------------------------------------------------
(* The other node and the server                                           *)

Tick ==
    /\ now < MaxClock
    /\ \/ hist' = Append(hist, hist[now])
       \/ \E o \in Interfaces(hist[now].src + 1) :
             hist' = Append(hist, [src |-> hist[now].src + 1, own |-> o])
    /\ UNCHANGED <<known, row, server, flight, merging, lastSync, fetch, adding, adds>>

\* announceSelf of the node's performServerSync: the address of the interface
\* or "0.0.0.0", and the telephone that the preferences hold, or null.
Announce ==
    /\ server' = Row(hist[now].own, now, TRUE, known)
    /\ UNCHANGED <<hist, known, row, flight, merging, lastSync, fetch, adding, adds>>

\* Its user logs in: the telephone is stored, then announced with the address
\* "0.0.0.0", unless the server cannot be reached.
LogIn ==
    /\ ~known /\ known' = TRUE
    /\ server' \in {server, Row(0, now, TRUE, TRUE)}
    /\ UNCHANGED <<hist, row, flight, merging, lastSync, fetch, adding, adds>>

\* It sends a datagram to this device.
Ping ==
    /\ flight' = flight \cup {hist[now].src}
    /\ UNCHANGED <<hist, known, row, server, merging, lastSync, fetch, adding, adds>>

-----------------------------------------------------------------------------
(* This device                                                             *)

\* Mutant: the row need not be there.
UpdateNetworkInfoAlways(a, k, t) ==
    row' = [row EXCEPT !.addr = a, !.key = k, !.seen = t]

\* NodeDao.updateNetworkInfo: nothing happens without a row.
UpdateNetworkInfo(a, k, t) ==
    row' = IF row.is THEN Row(a, t, k, row.phone) ELSE row

\* processIncomingPacket: the address is the sender's, the time is now.
ProcessIncomingPacket ==
    /\ \E a \in flight :
          /\ flight' = flight \ {a}
          /\ UpdateNetworkInfo(a, TRUE, now)
    /\ UNCHANGED <<hist, known, server, merging, lastSync, fetch, adding, adds>>

\* Mutant: entries without a key are merged too.
TellableAny(k) == TRUE

\* Entries with a blank key are skipped.
Tellable(k) == k

\* What the row of an honest device may say of time t: the source of a
\* datagram, what the node announced, or what it announced when logging in.
Told(t) == {hist[t].src, hist[t].own, 0}

\* handleIncoming and mergeIncomingNodes up to the read of the local row; the
\* sender was heard more than the least interval ago.
GossipRead(g) ==
    /\ ~merging[g].on /\ lastSync[g] < now
    /\ lastSync' = [lastSync EXCEPT ![g] = now]
    /\ \E t \in 1 .. now, k \in BOOLEAN : \E a \in Told(t) :
          /\ Tellable(k)
          /\ merging' = [merging EXCEPT ![g] =
                [on |-> TRUE, local |-> row, addr |-> a, seen |-> t, key |-> k]]
    /\ UNCHANGED <<hist, known, row, server, flight, fetch, adding, adds>>

\* The write: a row that was missing is inserted (over one that may have come
\* since), a row that was older is updated with the key read before.
GossipWrite(g) ==
    LET m == merging[g]
    IN /\ m.on
       /\ merging' = [merging EXCEPT ![g] = Quiet]
       /\ \/ /\ ~m.local.is
             /\ row' = Row(m.addr, m.seen, m.key, FALSE)
          \/ /\ m.local.is /\ m.seen > m.local.seen
             /\ UpdateNetworkInfo(m.addr, m.local.key, m.seen)
          \/ /\ m.local.is /\ m.seen <= m.local.seen
             /\ UNCHANGED row
       /\ UNCHANGED <<hist, known, server, flight, lastSync, fetch, adding, adds>>

\* fetchAllNodesFromServer: the answer of the server arrives.  The list may
\* come without the time of the contact.
FetchReply(f) ==
    /\ ~fetch[f].is /\ server.is
    /\ \E t \in {server.seen, now} :
          fetch' = [fetch EXCEPT ![f] =
                      Row(server.addr, t, server.key, server.phone)]
    /\ UNCHANGED <<hist, known, row, server, flight, merging, lastSync, adding, adds>>

\* Mutant: only new rows are inserted.
UpsertIgnore(r) == IF row.is THEN row ELSE r

\* upsertAll replaces rows.
Upsert(r) == r

FetchStore(f) ==
    /\ fetch[f].is
    /\ row' = Upsert(fetch[f])
    /\ fetch' = [fetch EXCEPT ![f] = NoRow]
    /\ UNCHANGED <<hist, known, server, flight, merging, lastSync, adding, adds>>

\* SettingsScreen: the button starts a fetch; afterwards, or when it failed, a
\* blank row replaces what there is.
AddBegins ==
    /\ ~adding /\ adds < MaxAdds
    /\ adding' = TRUE /\ adds' = adds + 1
    /\ \/ row' = Upsert(server) /\ server.is
       \/ UNCHANGED row
    /\ UNCHANGED <<hist, known, server, flight, merging, lastSync, fetch>>

AddByHand ==
    /\ adding
    /\ adding' = FALSE
    /\ row' = Row(0, now, FALSE, FALSE)
    /\ UNCHANGED <<hist, known, server, flight, merging, lastSync, fetch, adds>>

DirNext ==
    \/ Tick \/ Announce \/ LogIn \/ Ping
    \/ ProcessIncomingPacket
    \/ \E g \in Gossipers : GossipRead(g) \/ GossipWrite(g)
    \/ \E f \in Fetchers : FetchReply(f) \/ FetchStore(f)
    \/ AddBegins \/ AddByHand

\* The node announces itself in its sync loop, the coroutines of this device
\* run, and the sync loop of this device fetches again and again.
DirSpec ==
    /\ DirInit /\ [][DirNext]_dirVars
    /\ WF_dirVars(Announce) /\ WF_dirVars(ProcessIncomingPacket)
    /\ WF_dirVars(AddByHand)
    /\ \A g \in Gossipers : WF_dirVars(GossipWrite(g))
    /\ \A f \in Fetchers : WF_dirVars(FetchReply(f)) /\ WF_dirVars(FetchStore(f))

-----------------------------------------------------------------------------
(* Properties                                                              *)

\* Without a key messages are sent in the clear: no interleaving of gossip,
\* server lists and datagrams loses the key of a node.  Only adding it by hand
\* does, and a merge that had read the blank row may do it once more.
KeyLostOnlyByAdding == row.is /\ ~row.key => adds > 0

\* When the node stays where it is the device ends up for good with its key,
\* its telephone if its user has logged in, and an address of that
\* place, whatever stale data were still under way.  Behind a NAT the row goes
\* on changing between the address of the datagrams and the announced one, and
\* a node without an interface address is stored with "0.0.0.0" again and
\* again; where both are the same, that is the address.
Converges ==
    <>[](/\ row.is /\ row.key
         /\ row.addr \in {hist[now].src, hist[now].own}
         /\ row.phone = known)
=============================================================================
