--------------------------- MODULE MessageDelivery ---------------------------
(***************************************************************************)
(* Outgoing messages of the messenger, from the call of                    *)
(* MessageRepository.sendText / sendFile to the status column of the       *)
(* "messages" table: the coroutine of repositoryScope that sends at once,  *)
(* the WorkManager job that sends a scheduled message, and                 *)
(* IdentityRepository.sendMessageSmart with its UDP and SMS transports.    *)
(*                                                                         *)
(* A step is one stretch of a coroutine between two points at which        *)
(* another thread can change what the coroutine reads next.                *)
(***************************************************************************)
EXTENDS Integers

CONSTANTS
    Msgs,         \* message ids (UUIDs), each composed at most once
    Peers,        \* chat ids: identity hashes and bare phone numbers
    NoPeer,       \* the chat of a row that is not there yet
    PhoneLike,    \* the chat ids that match ^[+]?[0-9]{10,15}$
    NodeRows,     \* the dht_nodes rows the environment may store for a peer
    KoinStarted,  \* has startKoin run before the worker is created?
    PacketsVerify, \* can CryptoManager.verify accept a peer's packet?
    MaxRetries,   \* ScheduledMessageWorker.MAX_RETRIES
    MaxTime,      \* bound on the clock
    MaxFaults,    \* bound on the faults that hit one message
    MaxDeaths     \* bound on the deaths of the process

Phones == {"null", "blank", "number"}
Keys   == {"none", "good", "bad"}
NodeRowType == [ip : BOOLEAN, phone : Phones, key : Keys]

\* The row of a peer nobody has told us about: every read of it yields null.
NoNode == [ip |-> FALSE, phone |-> "null", key |-> "none"]

ASSUME DeliveryConstants ==
    /\ NoPeer \notin Peers
    /\ PhoneLike \subseteq Peers
    /\ NodeRows \subseteq NodeRowType
    /\ KoinStarted \in BOOLEAN
    /\ PacketsVerify \in BOOLEAN
    /\ MaxRetries \in Nat
    /\ MaxTime \in Nat
    /\ MaxFaults \in Nat
    /\ MaxDeaths \in Nat

VARIABLES
    now,         \* System.currentTimeMillis()
    node,        \* dht_nodes: what is stored about each peer
    wifiPeers,   \* keys of IdentityRepository.wifiPeers (NSD)
    swarmPeers,  \* keys of IdentityRepository.swarmPeers (UDP)
    online,      \* the CONNECTED constraint of WorkManager holds
    row,         \* the "messages" table: status, chatId, scheduledTime
    run,         \* the coroutine that is sending the message, and its locals
    job,         \* WorkManager's record of the unique work of the message
    air,         \* calls of a transport: which, with what payload, outcome
    tx,          \* how many times the message left the device
    faults,      \* interruptions and database errors that hit the message
    deaths       \* how often the process died

env  == <<node, wifiPeers, swarmPeers, online>>
vars == <<now, env, row, run, job, air, tx, faults, deaths>>

Statuses == {"absent", "PENDING", "SCHEDULED", "SENT", "FAILED"}
Points   == {"idle", "sched", "encrypt", "smart", "status"}
JobStates == {"none", "enqueued", "running", "succeeded", "failed"}

RowType  == [status : Statuses, chat : Peers \cup {NoPeer}, due : Nat]
RunType  == [pc : Points, phone : Phones, form : {"plain", "cipher"},
             delivered : BOOLEAN]
JobType  == [state : JobStates, attempts : Nat, notBefore : Nat]
CallType == [msg : Msgs, via : {"udp", "sms"}, form : {"plain", "cipher"},
             ok : BOOLEAN]

Started(pc, phone) == [pc |-> pc, phone |-> phone, form |-> "plain",
                       delivered |-> FALSE]
Idle  == Started("idle", "null")
NoRow == [status |-> "absent", chat |-> NoPeer, due |-> 0]
NoJob == [state |-> "none", attempts |-> 0, notBefore |-> 0]

TypeOK ==
    /\ now \in Nat
    /\ node \in [Peers -> NodeRowType]
    /\ wifiPeers \subseteq Peers
    /\ swarmPeers \subseteq Peers
    /\ online \in BOOLEAN
    /\ row \in [Msgs -> RowType]
    /\ run \in [Msgs -> RunType]
    /\ job \in [Msgs -> JobType]
    /\ air \subseteq CallType
    /\ tx \in [Msgs -> Nat]
    /\ faults \in [Msgs -> Nat]
    /\ deaths \in Nat

Init ==
    /\ now = 1
    /\ node \in [Peers -> NodeRows \cup {NoNode}]
    /\ wifiPeers = {}
    /\ swarmPeers = {}
    /\ online = TRUE
    /\ row = [m \in Msgs |-> NoRow]
    /\ run = [m \in Msgs |-> Idle]
    /\ job = [m \in Msgs |-> NoJob]
    /\ air = {}
    /\ tx = [m \in Msgs |-> 0]
    /\ faults = [m \in Msgs |-> 0]
    /\ deaths = 0

-----------------------------------------------------------------------------
(* MessageRepository: composing a message.                                 *)

\* sendText's targetPhone: the stored phone, else a chat id that is a number.
TargetPhone(p) ==
    IF node[p].phone # "null" THEN node[p].phone
    ELSE IF p \in PhoneLike THEN "number" ELSE "null"

\* A message row is inserted and its coroutine goes on at point pc.
Compose(m, p, due, status, pc, phone) ==
    /\ row[m].status = "absent"
    /\ row' = [row EXCEPT ![m] = [status |-> status, chat |-> p, due |-> due]]
    /\ run' = [run EXCEPT ![m] = Started(pc, phone)]
    /\ UNCHANGED <<now, env, job, air, tx, faults, deaths>>

\* sendText(toHash, text, scheduledTime); due = 0 stands for null.
SendText(m, p, due) ==
    LET isScheduled == due > now
    IN  Compose(m, p, due,
                IF isScheduled THEN "SCHEDULED" ELSE "PENDING",
                IF isScheduled THEN "sched" ELSE "encrypt",
                TargetPhone(p))

\* sendFile: never scheduled, and no phone but the stored one.
SendFile(m, p) == Compose(m, p, 0, "PENDING", "encrypt", node[p].phone)

\* scheduleMessageWork reads the clock again: a delay that has run out in the
\* meantime returns without enqueueing anything.
ScheduleMessageWork(m) ==
    LET delay == row[m].due - now
    IN  /\ run[m].pc = "sched"
        /\ run' = [run EXCEPT ![m] = Idle]
        /\ job' = IF delay <= 0 THEN job
                  ELSE [job EXCEPT ![m] = [state |-> "enqueued", attempts |-> 0,
                                           notBefore |-> now + delay]]
        /\ UNCHANGED <<now, env, row, air, tx, faults, deaths>>

-----------------------------------------------------------------------------
(* MessageRepository.performNetworkSend and                                *)
(* IdentityRepository.sendMessageSmart.                                    *)

ShouldUseEncryption(p, phone) ==
    /\ node[p].key # "none"
    /\ phone = "null" \/ p \in wifiPeers

\* Mutant: an empty string instead of the plain text.
EncryptMessageEmpty(key) == IF key = "good" THEN "cipher" ELSE ""

\* CryptoManager.encryptMessage gives back the plain text for a bad key.
EncryptMessage(key) == IF key = "good" THEN "cipher" ELSE "plain"

\* The key is read and the payload fixed before the transport is known.
FixPayload(m) ==
    LET p == row[m].chat
    IN  /\ run[m].pc = "encrypt"
        /\ run' = [run EXCEPT ![m] =
              [pc |-> "smart",
               phone |-> run[m].phone,
               form |-> IF ShouldUseEncryption(p, run[m].phone)
                        THEN EncryptMessage(node[p].key) ELSE "plain",
               delivered |-> FALSE]]
        /\ UNCHANGED <<now, env, row, job, air, tx, faults, deaths>>

\* wifiPeers[hash] ?: swarmPeers[hash] ?: cached ip, neither blank nor 0.0.0.0
HasIp(p) == p \in wifiPeers \cup swarmPeers \/ node[p].ip

CallTransport(m, via, ok) ==
    /\ air' = air \cup {[msg |-> m, via |-> via, form |-> run[m].form,
                         ok |-> ok]}
    /\ tx' = [tx EXCEPT ![m] = IF ok THEN @ + 1 ELSE @]

SmartReturns(m, delivered) ==
    run' = [run EXCEPT ![m].pc = "status", ![m].delivered = delivered]

\* Mutant: the result of sendUdp is dropped.
SmartByUdpUnseen(m) ==
    /\ HasIp(row[m].chat)
    /\ CallTransport(m, "udp", TRUE)
    /\ SmartReturns(m, FALSE)

\* sendUdp returns true: the datagram was handed to the network.
SmartByUdp(m) ==
    /\ HasIp(row[m].chat)
    /\ CallTransport(m, "udp", TRUE)
    /\ SmartReturns(m, TRUE)

\* No address, or sendUdp threw: sendAsSms swallows its own exception and
\* the message counts as delivered in any case.
SmartBySms(m) ==
    /\ run[m].phone = "number"
    /\ \E ok \in BOOLEAN : CallTransport(m, "sms", ok)
    /\ SmartReturns(m, TRUE)

\* No address, or sendUdp threw, and no phone: false.
SmartNoRoute(m) ==
    /\ run[m].phone # "number"
    /\ SmartReturns(m, FALSE)
    /\ UNCHANGED <<air, tx>>

SendMessageSmart(m) ==
    /\ run[m].pc = "smart"
    /\ SmartByUdp(m) \/ SmartBySms(m) \/ SmartNoRoute(m)
    /\ UNCHANGED <<now, env, row, job, faults, deaths>>

\* A retry counts the attempt; the other results end the work.
Retry(j) == [state |-> "enqueued", attempts |-> j.attempts + 1,
             notBefore |-> j.notBefore]
Ended(j, state) == [state |-> state, attempts |-> j.attempts,
                    notBefore |-> j.notBefore]

\* Mutant: no retry limit (the counter is left alone to stay finite).
VerdictForever(j, delivered) ==
    IF delivered THEN Ended(j, "succeeded") ELSE Ended(j, "enqueued")

\* Mutant: the result of performNetworkSend is not looked at.
VerdictBlind(j, delivered) ==
    IF j.attempts < MaxRetries THEN Retry(j) ELSE Ended(j, "failed")

\* doWork turns the result of one attempt into WorkManager's verdict.
Verdict(j, delivered) ==
    IF delivered THEN Ended(j, "succeeded")
    ELSE IF j.attempts < MaxRetries THEN Retry(j) ELSE Ended(j, "failed")

\* The coroutine of m returns: a worker reports, repositoryScope just ends.
Return(m, delivered) ==
    /\ run' = [run EXCEPT ![m] = Idle]
    /\ job' = IF job[m].state = "running"
              THEN [job EXCEPT ![m] = Verdict(job[m], delivered)] ELSE job

\* Mutant: only a success is written to the row.
UpdateStatusSentOnly(m) ==
    /\ run[m].pc = "status"
    /\ row' = IF run[m].delivered THEN [row EXCEPT ![m].status = "SENT"]
              ELSE row
    /\ Return(m, run[m].delivered)
    /\ UNCHANGED <<now, env, air, tx, faults, deaths>>

\* dao.updateStatus(SENT or FAILED), then the result goes to the caller.
UpdateStatus(m) ==
    /\ run[m].pc = "status"
    /\ row' = [row EXCEPT ![m].status =
                   IF run[m].delivered THEN "SENT" ELSE "FAILED"]
    /\ Return(m, run[m].delivered)
    /\ UNCHANGED <<now, env, air, tx, faults, deaths>>

\* A database call of performNetworkSend throws. The handler writes FAILED
\* and returns false; if its own write throws too, the row keeps its status
\* and the caller's handler ends the attempt.
DatabaseError(m) ==
    /\ run[m].pc \in {"encrypt", "smart", "status"}
    /\ faults[m] < MaxFaults
    /\ faults' = [faults EXCEPT ![m] = @ + 1]
    /\ \E written \in BOOLEAN :
          row' = IF written THEN [row EXCEPT ![m].status = "FAILED"] ELSE row
    /\ Return(m, FALSE)
    /\ UNCHANGED <<now, env, air, tx, deaths>>

-----------------------------------------------------------------------------
(* WorkManager and ScheduledMessageWorker.                                 *)

\* WorkManager starts doWork. Without startKoin the first use of an injected
\* repository throws inside doWork's try; otherwise the phone is read from
\* the node table only (a chat id that is a number is not considered).
DoWork(m) ==
    /\ job[m].state = "enqueued"
    /\ now >= job[m].notBefore
    /\ online
    /\ IF KoinStarted
       THEN /\ job' = [job EXCEPT ![m].state = "running"]
            /\ run' = [run EXCEPT ![m] =
                  Started("encrypt", node[row[m].chat].phone)]
       ELSE /\ job' = [job EXCEPT ![m] = Verdict(job[m], FALSE)]
            /\ UNCHANGED run
    /\ UNCHANGED <<now, env, row, air, tx, faults, deaths>>

\* What is left of an attempt that was cut short: WorkManager puts the work
\* back in its queue and has already counted the attempt.
Requeued(j) == IF j.state = "running" THEN Retry(j) ELSE j

\* WorkManager stops a running worker (a constraint or its quota is lost).
StopWorker(m) ==
    /\ job[m].state = "running"
    /\ faults[m] < MaxFaults
    /\ faults' = [faults EXCEPT ![m] = @ + 1]
    /\ run' = [run EXCEPT ![m] = Idle]
    /\ job' = [job EXCEPT ![m] = Requeued(job[m])]
    /\ UNCHANGED <<now, env, row, air, tx, deaths>>

\* The process dies: coroutines and the maps of reachable peers are lost, the
\* database and WorkManager's queue survive. Nothing reads PENDING or
\* SCHEDULED rows at the next start.
ProcessDeath ==
    /\ deaths < MaxDeaths
    /\ deaths' = deaths + 1
    /\ faults' = [m \in Msgs |-> IF run[m].pc = "idle" THEN faults[m]
                                 ELSE faults[m] + 1]
    /\ run' = [m \in Msgs |-> Idle]
    /\ job' = [m \in Msgs |-> Requeued(job[m])]
    /\ wifiPeers' = {}
    /\ swarmPeers' = {}
    /\ UNCHANGED <<now, node, online, row, air, tx>>

-----------------------------------------------------------------------------
(* What the rest of the program and the device do meanwhile.               *)

Quiet == UNCHANGED <<row, run, job, air, tx, faults, deaths>>

\* onServiceResolved
WifiFound(p) == /\ wifiPeers' = wifiPeers \cup {p}
                /\ UNCHANGED <<now, node, swarmPeers, online>> /\ Quiet

\* onServiceLost
WifiLost(p) == /\ p \in wifiPeers
               /\ wifiPeers' = wifiPeers \ {p}
               /\ UNCHANGED <<now, node, swarmPeers, online>> /\ Quiet

\* processIncomingPacket remembers the sender's address, once the signature
\* is verified against the key in the packet
SwarmSeen(p) == /\ PacketsVerify
                /\ swarmPeers' = swarmPeers \cup {p}
                /\ UNCHANGED <<now, node, wifiPeers, online>> /\ Quiet

\* stopNetwork clears both maps
StopNetwork == /\ wifiPeers' = {}
               /\ swarmPeers' = {}
               /\ UNCHANGED <<now, node, online>> /\ Quiet

\* saveNodeToDb, upsertAll, mergeIncomingNodes: the row is replaced
NodeStored(p) == /\ \E r \in NodeRows : node' = [node EXCEPT ![p] = r]
                 /\ UNCHANGED <<now, wifiPeers, swarmPeers, online>> /\ Quiet

Connectivity == /\ online' = ~online
                /\ UNCHANGED <<now, node, wifiPeers, swarmPeers>> /\ Quiet

Tick == /\ now < MaxTime
        /\ now' = now + 1
        /\ UNCHANGED env /\ Quiet

Next ==
    \/ \E m \in Msgs, p \in Peers : SendFile(m, p)
    \/ \E m \in Msgs, p \in Peers, due \in 0 .. MaxTime : SendText(m, p, due)
    \/ \E m \in Msgs : \/ ScheduleMessageWork(m)
                       \/ FixPayload(m)
                       \/ SendMessageSmart(m)
                       \/ UpdateStatus(m)
                       \/ DatabaseError(m)
                       \/ DoWork(m)
                       \/ StopWorker(m)
    \/ ProcessDeath
    \/ \E p \in Peers : \/ WifiFound(p)
                        \/ WifiLost(p)
                        \/ SwarmSeen(p)
                        \/ NodeStored(p)
    \/ StopNetwork
    \/ Connectivity
    \/ Tick

Spec == Init /\ [][Next]_vars

-----------------------------------------------------------------------------
(* Fairness. Coroutines on Dispatchers.IO keep running, WorkManager starts *)
(* work whose delay and constraint are met, time passes and the device     *)
(* does not stay offline for ever. Nothing is assumed of faults, deaths,   *)
(* discovery or the user.                                                  *)

Fairness ==
    /\ \A m \in Msgs : /\ WF_vars(ScheduleMessageWork(m))
                       /\ WF_vars(FixPayload(m))
                       /\ WF_vars(SendMessageSmart(m))
                       /\ WF_vars(UpdateStatus(m))
                       /\ SF_vars(DoWork(m))
    /\ WF_vars(~online /\ Connectivity)
    /\ WF_vars(Tick)

FairSpec == Spec /\ Fairness

-----------------------------------------------------------------------------
(* Properties that hold.                                                   *)

\* A message leaves the device at most once, UDP and SMS taken together; only
\* a scheduled message can leave it again, once for each fault that hid the
\* result of an attempt from WorkManager (sendMessageSmart tries SMS only
\* after UDP failed, doWork retries only what was not delivered).
DuplicatesNeedFaults ==
    \A m \in Msgs :
        tx[m] <= 1 + (IF job[m].state = "none" THEN 0 ELSE faults[m])

\* A row says FAILED, and no attempt is under way, only if the message never
\* left the device: sending it again by hand cannot duplicate it, unless a
\* fault hit the message.
FailedNeverLeft ==
    \A m \in Msgs :
        row[m].status = "FAILED" /\ run[m].pc = "idle" /\ faults[m] = 0
            => tx[m] = 0

\* What WorkManager records about the job agrees with the status column: a
\* succeeded job left SENT behind; a job that gave up left FAILED, if the
\* repositories could be injected and no fault hit it.
JobAgreesWithRow ==
    \A m \in Msgs :
        /\ job[m].state = "succeeded" => row[m].status = "SENT"
        /\ job[m].state = "failed" /\ faults[m] = 0 /\ KoinStarted
              => row[m].status = "FAILED"

\* A row says SENT only if some transport was really called for it: the two
\* tests of sendMessageSmart cannot both be skipped and yield true.
SentWasHandedOver ==
    \A m \in Msgs :
        row[m].status = "SENT" => \E c \in air : c.msg = m

\* The retry limit of doWork: beyond MAX_RETRIES an attempt is only made to
\* replace one that a fault cut short, and the limit counts from zero.
RetriesBounded ==
    \A m \in Msgs : job[m].attempts <= MaxRetries + faults[m]

\* No step sends a message before its scheduledTime.
NeverBeforeDue ==
    [][\A m \in Msgs : tx'[m] > tx[m] => now >= row[m].due]_vars

\* Once SENT is stored no later attempt takes it back, unless a fault made
\* WorkManager repeat an attempt that had succeeded.
SentIsKept ==
    [][\A m \in Msgs : row[m].status = "SENT" /\ faults[m] = 0
                          => row'[m].status = "SENT"]_vars

\* Every message sent at once gets a final status, unless a fault hit it.
PendingIsResolved ==
    \A m \in Msgs :
        row[m].status = "PENDING"
            ~> (row[m].status \in {"SENT", "FAILED"} \/ faults[m] > 0)

\* Every job ends: the backoff of WorkManager never retries for ever.
JobsEnd ==
    \A m \in Msgs :
        job[m].state = "enqueued" ~> job[m].state \in {"succeeded", "failed"}

-----------------------------------------------------------------------------
(* What the comments of the source promise and the code does not keep.     *)

\* MessageRepository.kt:16, "sends UNENCRYPTED messages if the transport is
\* SMS": no SMS carries a ciphertext.
SmsIsReadable == \A c \in air : c.via = "sms" => c.form = "plain"
=============================================================================
