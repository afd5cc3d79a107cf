------------------------ MODULE MessageDeliveryProofs ------------------------
(* Safety of MessageDelivery for any number of messages, peers, retries,   *)
(* faults and deaths.                                                      *)
EXTENDS MessageDelivery, TLAPS

\* The parts of the inductive invariant, for one message.

\* Which coroutine runs for m: none before the row exists or once the work is
\* queued or over; a running job has a coroutine inside performNetworkSend.
Control(m) ==
    /\ job[m].state \in {"enqueued", "succeeded", "failed"}
          => run[m].pc = "idle"
    /\ job[m].state = "running" => run[m].pc \in {"encrypt", "smart", "status"}
    /\ run[m].pc = "sched" => job[m].state = "none"
    /\ row[m].status = "absent"
          => run[m].pc = "idle" /\ job[m].state = "none" /\ tx[m] = 0
    /\ row[m].status # "absent" => row[m].chat \in Peers

\* How often m may have left the device at each point of an attempt.
Allowance(m) ==
    CASE job[m].state = "none" /\ run[m].pc \in {"sched", "encrypt", "smart"} -> 0
      [] job[m].state = "none" /\ run[m].pc = "status" ->
            IF run[m].delivered THEN 1 ELSE 0
      [] job[m].state = "none" /\ run[m].pc = "idle" ->
            IF row[m].status = "FAILED" /\ faults[m] = 0 THEN 0 ELSE 1
      [] job[m].state = "succeeded" -> 1 + faults[m]
      [] job[m].state \in {"enqueued", "failed"} -> faults[m]
      [] OTHER -> IF run[m].pc = "status" /\ run[m].delivered
                  THEN 1 + faults[m] ELSE faults[m]

Counted(m) == tx[m] <= Allowance(m)

\* The status column against the job and the transports that were called.
Recorded(m) ==
    /\ job[m].state = "succeeded" => row[m].status = "SENT"
    /\ job[m].state = "failed" /\ faults[m] = 0 /\ KoinStarted
          => row[m].status = "FAILED"
    /\ \/ row[m].status = "SENT"
       \/ run[m].pc = "status" /\ run[m].delivered
       => \E c \in air : c.msg = m
    /\ row[m].status = "SENT" /\ faults[m] = 0
          => run[m].pc = "idle" /\ job[m].state \in {"none", "succeeded"}

\* Attempts and the clock.
Timely(m) ==
    /\ job[m].attempts <= MaxRetries + faults[m]
    /\ job[m].state # "none" => row[m].due <= job[m].notBefore
    /\ run[m].pc \in {"encrypt", "smart", "status"} => row[m].due <= now

Good(m) == Control(m) /\ Counted(m) /\ Recorded(m) /\ Timely(m)

IInv == TypeOK /\ \A m \in Msgs : Good(m)

-----------------------------------------------------------------------------

\* A coroutine that sendText, sendFile or doWork starts is a record of the type.
LEMMA StartedType ==
    ASSUME NEW pc \in Points, NEW ph \in Phones
    PROVE  Started(pc, ph) \in RunType
BY DEF Started, RunType

\* So is the record of a message that no coroutine is sending.
LEMMA IdleType == Idle \in RunType
BY StartedType DEF Idle, Points, Phones

\* Whatever an attempt of doWork returns, the job keeps its type.
LEMMA VerdictType ==
    ASSUME NEW j \in JobType, NEW d \in BOOLEAN
    PROVE  Verdict(j, d) \in JobType
BY DEF Verdict, Ended, Retry, JobType, JobStates

\* A job that WorkManager puts back in its queue keeps its type.
LEMMA RequeuedType == ASSUME NEW j \in JobType PROVE Requeued(j) \in JobType
BY DEF Requeued, Retry, JobType, JobStates

\* Every step keeps the types of the variables. DoWork needs more than TypeOK:
\* the chat of a row with a job is a peer.
LEMMA TypeStep == IInv /\ [Next]_vars => TypeOK'
<1> SUFFICES ASSUME IInv, [Next]_vars PROVE TypeOK'
    OBVIOUS
<1> TypeOK
    BY DEF IInv
<1> USE DeliveryConstants
<1>0. ASSUME NEW m \in Msgs, NEW p \in Peers, NEW due \in Nat,
             NEW status \in Statuses, NEW pc \in Points, NEW ph \in Phones,
             Compose(m, p, due, status, pc, ph)
      PROVE  TypeOK'
      <2>1. row' \in [Msgs -> RowType]
            BY <1>0 DEF Compose, TypeOK, RowType
      <2>3. run' \in [Msgs -> RunType]
            BY <1>0, StartedType DEF Compose, TypeOK
      <2> QED BY <1>0, <2>1, <2>3 DEF Compose, TypeOK, env
<1>1. ASSUME NEW m \in Msgs, NEW p \in Peers, SendFile(m, p) PROVE TypeOK'
      BY <1>0, <1>1 DEF SendFile, TypeOK, NodeRowType, Statuses, Points
<1>2. ASSUME NEW m \in Msgs, NEW p \in Peers, NEW due \in 0 .. MaxTime,
             SendText(m, p, due)
      PROVE  TypeOK'
      <2>1. TargetPhone(p) \in Phones
            BY DEF TargetPhone, TypeOK, NodeRowType, Phones
      <2> QED BY <1>0, <1>2, <2>1 DEF SendText, Statuses, Points
<1>3. ASSUME NEW m \in Msgs, ScheduleMessageWork(m) PROVE TypeOK'
      <2>1. job' \in [Msgs -> JobType]
            BY <1>3 DEF ScheduleMessageWork, TypeOK, RowType, JobType, JobStates
      <2>2. run' \in [Msgs -> RunType]
            BY <1>3, IdleType DEF ScheduleMessageWork, TypeOK
      <2> QED BY <1>3, <2>1, <2>2 DEF ScheduleMessageWork, TypeOK, env
<1>4. ASSUME NEW m \in Msgs, FixPayload(m) PROVE TypeOK'
      <2>1. run' \in [Msgs -> RunType]
            BY <1>4 DEF FixPayload, EncryptMessage, TypeOK, RunType, Points
      <2> QED BY <1>4, <2>1 DEF FixPayload, TypeOK, env
<1>5. ASSUME NEW m \in Msgs, SendMessageSmart(m) PROVE TypeOK'
      <2>1. ASSUME NEW d \in BOOLEAN, SmartReturns(m, d)
            PROVE  run' \in [Msgs -> RunType]
            BY <2>1 DEF SmartReturns, TypeOK, RunType, Points
      <2>2. ASSUME NEW via \in {"udp", "sms"}, NEW ok \in BOOLEAN,
                   CallTransport(m, via, ok)
            PROVE  air' \subseteq CallType /\ tx' \in [Msgs -> Nat]
            BY <2>2 DEF CallTransport, TypeOK, RunType, CallType
      <2>3. run' \in [Msgs -> RunType]
            BY <1>5, <2>1 DEF SendMessageSmart, SmartByUdp, SmartBySms,
                              SmartNoRoute
      <2>4. air' \subseteq CallType /\ tx' \in [Msgs -> Nat]
            BY <1>5, <2>2 DEF SendMessageSmart, SmartByUdp, SmartBySms,
                              SmartNoRoute, TypeOK
      <2> QED BY <1>5, <2>3, <2>4 DEF SendMessageSmart, TypeOK, env
<1>6. ASSUME NEW m \in Msgs, NEW d \in BOOLEAN, Return(m, d)
      PROVE  run' \in [Msgs -> RunType] /\ job' \in [Msgs -> JobType]
      <2>1. run' \in [Msgs -> RunType]
            BY <1>6, IdleType DEF Return, TypeOK
      <2>2. Verdict(job[m], d) \in JobType
            BY VerdictType DEF TypeOK
      <2>3. job' = job \/ job' = [job EXCEPT ![m] = Verdict(job[m], d)]
            BY <1>6 DEF Return
      <2> QED BY <2>1, <2>2, <2>3 DEF TypeOK
<1>7. ASSUME NEW m \in Msgs, UpdateStatus(m) PROVE TypeOK'
      <2>1. row' \in [Msgs -> RowType]
            <3>1. ASSUME NEW s \in Statuses
                  PROVE  [row EXCEPT ![m].status = s] \in [Msgs -> RowType]
                  BY DEF TypeOK, RowType
            <3>2. PICK s \in Statuses : row' = [row EXCEPT ![m].status = s]
                  <4>1. (IF run[m].delivered THEN "SENT" ELSE "FAILED")
                           \in Statuses
                        BY DEF Statuses
                  <4> QED BY <1>7, <4>1, Zenon DEF UpdateStatus
            <3> QED BY <3>1, <3>2
      <2>2. run[m].delivered \in BOOLEAN
            BY DEF TypeOK, RunType
      <2> QED BY <1>6, <1>7, <2>1, <2>2 DEF UpdateStatus, TypeOK, env
<1>8. ASSUME NEW m \in Msgs, DatabaseError(m) PROVE TypeOK'
      <2>0. [row EXCEPT ![m].status = "FAILED"] \in [Msgs -> RowType]
            BY DEF TypeOK, RowType, Statuses
      <2>1. row' \in [Msgs -> RowType]
            <3>1. row' = row \/ row' = [row EXCEPT ![m].status = "FAILED"]
                  BY <1>8, Zenon DEF DatabaseError
            <3> QED BY <2>0, <3>1 DEF TypeOK
      <2>2. run' \in [Msgs -> RunType] /\ job' \in [Msgs -> JobType]
            BY <1>6, <1>8 DEF DatabaseError
      <2>3. faults' \in [Msgs -> Nat]
            BY <1>8 DEF DatabaseError, TypeOK
      <2>4. UNCHANGED <<now, env, air, tx, deaths>>
            BY <1>8 DEF DatabaseError
      <2> QED BY <2>1, <2>2, <2>3, <2>4 DEF TypeOK, env
<1>9. ASSUME NEW m \in Msgs, DoWork(m) PROVE TypeOK'
      <2>1. job' \in [Msgs -> JobType]
            <3>1. [job EXCEPT ![m].state = "running"] \in [Msgs -> JobType]
                  BY DEF TypeOK, JobType, JobStates
            <3>2. Verdict(job[m], FALSE) \in JobType
                  BY VerdictType DEF TypeOK
            <3>3. [job EXCEPT ![m] = Verdict(job[m], FALSE)]
                     \in [Msgs -> JobType]
                  BY <3>2 DEF TypeOK
            <3> QED BY <1>9, <3>1, <3>3, Zenon DEF DoWork
      <2>2. row[m].chat \in Peers
            BY <1>9 DEF DoWork, IInv, Good, Control
      <2>3. run' \in [Msgs -> RunType]
            <3>1. node[row[m].chat].phone \in Phones
                  BY <2>2 DEF TypeOK, NodeRowType
            <3> QED BY <1>9, <3>1, StartedType DEF DoWork, TypeOK, Points
      <2> QED BY <1>9, <2>1, <2>3 DEF DoWork, TypeOK, env
<1>10. ASSUME NEW m \in Msgs, StopWorker(m) PROVE TypeOK'
       BY <1>10, IdleType, RequeuedType DEF StopWorker, TypeOK, env
<1>11. CASE ProcessDeath
       BY <1>11, IdleType, RequeuedType DEF ProcessDeath, TypeOK
<1>12. ASSUME NEW p \in Peers,
              WifiFound(p) \/ WifiLost(p) \/ SwarmSeen(p) \/ NodeStored(p)
       PROVE  TypeOK'
       <2>1. node' \in [Peers -> NodeRowType]
             BY <1>12 DEF WifiFound, WifiLost, SwarmSeen, NodeStored, TypeOK
       <2> QED BY <1>12, <2>1 DEF WifiFound, WifiLost, SwarmSeen, NodeStored,
                                  Quiet, TypeOK
<1>13. CASE StopNetwork
       BY <1>13 DEF StopNetwork, Quiet, TypeOK
<1>14. CASE Connectivity
       BY <1>14 DEF Connectivity, Quiet, TypeOK
<1>15. CASE Tick
       BY <1>15 DEF Tick, Quiet, env, TypeOK
<1>16. CASE UNCHANGED vars
       BY <1>16 DEF vars, env, TypeOK
<1> QED BY <1>1, <1>2, <1>3, <1>4, <1>5, <1>7, <1>8, <1>9, <1>10, <1>11,
           <1>12, <1>13, <1>14, <1>15, <1>16 DEF Next

-----------------------------------------------------------------------------

\* A message whose row, coroutine, job and counters a step leaves alone stays
\* good: transports called for other messages and time passing do not hurt.
LEMMA Frame ==
    ASSUME TypeOK, TypeOK', NEW m \in Msgs, Good(m),
           row'[m] = row[m], run'[m] = run[m], job'[m] = job[m],
           tx'[m] = tx[m], faults'[m] = faults[m],
           air \subseteq air', now <= now'
    PROVE  Good(m)'
<1>1. Control(m)'
      BY DEF Good, Control
<1>2. Counted(m)'
      BY DEF Good, Counted, Allowance
<1>3. Recorded(m)'
      BY DEF Good, Recorded
<1>4. Timely(m)'
      BY DEF Good, Timely, TypeOK, RowType
<1> QED BY <1>1, <1>2, <1>3, <1>4 DEF Good

\* A new row starts without a job, a coroutine or a transmission.
LEMMA ComposeGood ==
    ASSUME IInv, TypeOK', NEW m \in Msgs, NEW p \in Peers, NEW due \in Nat,
           NEW status \in {"PENDING", "SCHEDULED"},
           NEW pc \in {"sched", "encrypt"}, NEW ph \in Phones,
           pc = "encrypt" => due <= now,
           Compose(m, p, due, status, pc, ph)
    PROVE  \A n \in Msgs : Good(n)'
<1> TypeOK
    BY DEF IInv
<1> TAKE n \in Msgs
<1>1. Good(n)
      BY DEF IInv
<1>2. CASE n # m
      BY <1>1, <1>2, Frame DEF Compose, TypeOK, env
<1>3. CASE n = m
      <2>1. /\ row[m].status = "absent"
            /\ row'[m] = [status |-> status, chat |-> p, due |-> due]
            /\ run'[m] = Started(pc, ph)
            /\ UNCHANGED <<now, job, air, tx, faults>>
            BY DEF Compose, TypeOK, env
      <2>2. job[m].state = "none" /\ tx[m] = 0
            BY <1>1, <1>3, <2>1 DEF Good, Control
      <2>3. Control(m)'
            BY <2>1, <2>2 DEF Control, Started
      <2>4. Counted(m)'
            BY <2>1, <2>2 DEF Counted, Allowance, Started
      <2>5. Recorded(m)'
            BY <2>1, <2>2 DEF Recorded, Started
      <2>6. Timely(m)'
            BY <1>1, <1>3, <2>1, <2>2 DEF Good, Timely, Started
      <2> QED BY <1>3, <2>3, <2>4, <2>5, <2>6 DEF Good
<1> QED BY <1>2, <1>3

\* The other way a coroutine starts: WorkManager runs a job that is due.
LEMMA DoWorkGood ==
    ASSUME IInv, TypeOK', NEW m \in Msgs, DoWork(m)
    PROVE  \A n \in Msgs : Good(n)'
<1> TypeOK
    BY DEF IInv
<1> TAKE n \in Msgs
<1>1. Good(n)
      BY DEF IInv
<1>2. CASE n # m
      <2>1. job'[n] = job[n] /\ run'[n] = run[n]
            BY <1>2 DEF DoWork, TypeOK
      <2>2. UNCHANGED <<now, row, air, tx, faults>>
            BY DEF DoWork
      <2> QED BY <1>1, <2>1, <2>2, Frame DEF TypeOK
<1>3. CASE n = m /\ KoinStarted
      <2>1. /\ job[m].state = "enqueued"
            /\ job[m].notBefore <= now
            /\ job'[m].state = "running"
            /\ job'[m].attempts = job[m].attempts
            /\ job'[m].notBefore = job[m].notBefore
            /\ run'[m].pc = "encrypt"
            /\ run'[m].delivered = FALSE
            /\ UNCHANGED <<now, row, air, tx, faults>>
            BY <1>3 DEF DoWork, TypeOK, JobType, Started, env
      <2>2. Control(m)'
            BY <1>1, <1>3, <2>1 DEF Good, Control
      <2>3. Counted(m)'
            BY <1>1, <1>3, <2>1 DEF Good, Counted, Allowance
      <2>4. Recorded(m)'
            BY <1>1, <1>3, <2>1 DEF Good, Recorded
      <2>5. Timely(m)'
            BY <1>1, <1>3, <2>1 DEF Good, Timely, TypeOK, RowType, JobType
      <2> QED BY <1>3, <2>2, <2>3, <2>4, <2>5 DEF Good
<1>4. CASE n = m /\ ~KoinStarted
      <2>1. /\ job[m].state = "enqueued"
            /\ job'[m].state \in {"enqueued", "failed"}
            /\ job'[m].attempts <= job[m].attempts + 1
            /\ job'[m].attempts > job[m].attempts
                  => job[m].attempts < MaxRetries
            /\ job'[m].notBefore = job[m].notBefore
            /\ UNCHANGED <<now, row, run, air, tx, faults>>
            BY <1>4 DEF DoWork, Verdict, Retry, Ended, TypeOK, JobType, env
      <2>2. Control(m)'
            BY <1>1, <1>4, <2>1 DEF Good, Control
      <2>3. Counted(m)'
            BY <1>1, <1>4, <2>1 DEF Good, Counted, Allowance
      <2>4. Recorded(m)'
            BY <1>1, <1>4, <2>1 DEF Good, Recorded
      <2>5. Timely(m)'
            BY <1>1, <1>4, <2>1, DeliveryConstants
               DEF Good, Timely, TypeOK, RowType, JobType
      <2> QED BY <1>4, <2>2, <2>3, <2>4, <2>5 DEF Good
<1> QED BY <1>2, <1>3, <1>4

\* One attempt goes on: scheduleMessageWork, the payload, the transports.
LEMMA ProgressGood ==
    ASSUME IInv, TypeOK', NEW m \in Msgs,
           ScheduleMessageWork(m) \/ FixPayload(m) \/ SendMessageSmart(m)
    PROVE  \A n \in Msgs : Good(n)'
<1> TypeOK
    BY DEF IInv
<1>0. Good(m)
      BY DEF IInv
<1>1. CASE ScheduleMessageWork(m)
      <2> TAKE n \in Msgs
      <2>1. CASE n # m
            <3>1. /\ job'[n] = job[n] /\ run'[n] = run[n]
                  /\ UNCHANGED <<now, row, air, tx, faults>>
                  BY <1>1, <2>1 DEF ScheduleMessageWork, TypeOK
            <3> QED BY <3>1, Frame DEF IInv, TypeOK
      <2>2. CASE n = m
            <3>1. /\ run[m].pc = "sched"
                  /\ run'[m].pc = "idle"
                  /\ UNCHANGED <<now, row, air, tx, faults>>
                  /\ \/ job'[m] = job[m]
                     \/ /\ job'[m].state = "enqueued"
                        /\ job'[m].attempts = 0
                        /\ job'[m].notBefore = row[m].due
                  BY <1>1 DEF ScheduleMessageWork, TypeOK, RowType, Idle, Started
            <3>2. job[m].state = "none"
                  BY <1>0, <3>1 DEF Good, Control
            <3>3. Control(m)'
                  BY <1>0, <3>1, <3>2 DEF Good, Control
            <3>4. Counted(m)'
                  BY <1>0, <3>1, <3>2 DEF Good, Counted, Allowance, TypeOK
            <3>5. Recorded(m)'
                  BY <1>0, <3>1, <3>2 DEF Good, Recorded
            <3>6. Timely(m)'
                  BY <1>0, <3>1, <3>2, DeliveryConstants
                     DEF Good, Timely, TypeOK, RowType
            <3> QED BY <2>2, <3>3, <3>4, <3>5, <3>6 DEF Good
      <2> QED BY <2>1, <2>2
<1>2. CASE FixPayload(m)
      <2> TAKE n \in Msgs
      <2>1. CASE n # m
            <3>1. /\ run'[n] = run[n]
                  /\ UNCHANGED <<now, job, row, air, tx, faults>>
                  BY <1>2, <2>1 DEF FixPayload, TypeOK
            <3> QED BY <3>1, Frame DEF IInv, TypeOK
      <2>2. CASE n = m
            <3>1. /\ run[m].pc = "encrypt"
                  /\ run'[m].pc = "smart"
                  /\ UNCHANGED <<now, job, row, air, tx, faults>>
                  BY <1>2 DEF FixPayload, TypeOK
            <3>2. Control(m)'
                  BY <1>0, <3>1 DEF Good, Control
            <3>3. Counted(m)'
                  BY <1>0, <3>1 DEF Good, Counted, Allowance, Control
            <3>4. Recorded(m)'
                  BY <1>0, <3>1 DEF Good, Recorded
            <3>5. Timely(m)'
                  BY <1>0, <3>1 DEF Good, Timely
            <3> QED BY <2>2, <3>2, <3>3, <3>4, <3>5 DEF Good
      <2> QED BY <2>1, <2>2
<1>3. CASE SendMessageSmart(m)
      <2>0. UNCHANGED <<now, job, row, faults>>
            BY <1>3 DEF SendMessageSmart
      <2>1. air \subseteq air'
            BY <1>3 DEF SendMessageSmart, SmartByUdp, SmartBySms, SmartNoRoute,
                        CallTransport
      <2> TAKE n \in Msgs
      <2>2. CASE n # m
            <3>1. run'[n] = run[n] /\ tx'[n] = tx[n]
                  BY <1>3, <2>2 DEF SendMessageSmart, SmartByUdp, SmartBySms,
                     SmartNoRoute, CallTransport, SmartReturns, TypeOK
            <3> QED BY <2>0, <2>1, <3>1, Frame DEF IInv, TypeOK
      <2>3. CASE n = m
            <3>0. ASSUME NEW d \in BOOLEAN, SmartReturns(m, d)
                  PROVE  run'[m].pc = "status" /\ run'[m].delivered = d
                  BY <3>0 DEF SmartReturns, TypeOK, RunType
            <3>1. run[m].pc = "smart" /\ run'[m].pc = "status"
                  BY <1>3, <3>0 DEF SendMessageSmart, SmartByUdp, SmartBySms,
                     SmartNoRoute
            <3>2. \/ /\ run'[m].delivered = TRUE
                     /\ tx'[m] <= tx[m] + 1
                     /\ \E c \in air' : c.msg = m
                  \/ run'[m].delivered = FALSE /\ tx'[m] = tx[m]
                  <4>1. ASSUME NEW via, NEW ok \in BOOLEAN,
                               CallTransport(m, via, ok)
                        PROVE  tx'[m] <= tx[m] + 1
                        BY <4>1 DEF CallTransport, TypeOK
                  <4>2. ASSUME NEW via, NEW ok, CallTransport(m, via, ok)
                        PROVE  \E c \in air' : c.msg = m
                        <5> DEFINE c == [msg |-> m, via |-> via,
                                         form |-> run[m].form,
                                         ok |-> ok]
                        <5>1. c \in air' /\ c.msg = m
                              BY <4>2 DEF CallTransport
                        <5> QED BY <5>1
                  <4> QED BY <1>3, <3>0, <4>1, <4>2 DEF SendMessageSmart, SmartByUdp,
                             SmartBySms, SmartNoRoute
            <3>3. Control(m)'
                  BY <1>0, <2>0, <3>1 DEF Good, Control
            <3>4. Counted(m)'
                  BY <1>0, <2>0, <3>1, <3>2
                     DEF Good, Counted, Allowance, Control, TypeOK, JobType, JobStates
            <3>5. Recorded(m)'
                  BY <1>0, <2>0, <2>1, <3>1, <3>2 DEF Good, Recorded
            <3>6. Timely(m)'
                  BY <1>0, <2>0, <3>1 DEF Good, Timely
            <3> QED BY <2>3, <3>3, <3>4, <3>5, <3>6 DEF Good
      <2> QED BY <2>2, <2>3
<1> QED BY <1>1, <1>2, <1>3

\* An attempt ends: the status is written, or a database call throws.
LEMMA ReturnGood ==
    ASSUME IInv, TypeOK', NEW m \in Msgs, UpdateStatus(m) \/ DatabaseError(m)
    PROVE  \A n \in Msgs : Good(n)'
<1> TypeOK
    BY DEF IInv
<1>0. Good(m)
      BY DEF IInv
<1>1. UNCHANGED <<now, air, tx>>
      BY DEF UpdateStatus, DatabaseError
<1>2. ASSUME NEW d \in BOOLEAN, Return(m, d)
      PROVE  /\ run'[m].pc = "idle"
             /\ job[m].state # "running" => job'[m] = job[m]
             /\ job[m].state = "running" =>
                  /\ job'[m].notBefore = job[m].notBefore
                  /\ job'[m].attempts <= job[m].attempts + 1
                  /\ job'[m].attempts > job[m].attempts
                        => job[m].attempts < MaxRetries
                  /\ d => job'[m].state = "succeeded"
                  /\ ~d => job'[m].state \in {"enqueued", "failed"}
             /\ \A n \in Msgs \ {m} : run'[n] = run[n] /\ job'[n] = job[n]
      BY <1>2 DEF Return, Verdict, Retry, Ended, Idle, Started, TypeOK, JobType
<1>3. run[m].pc \in {"encrypt", "smart", "status"}
      BY DEF UpdateStatus, DatabaseError
<1>4. job[m].state \in {"none", "running"} /\ row[m].status # "absent"
      BY <1>0, <1>3 DEF Good, Control, TypeOK, JobType, JobStates
<1>5. CASE UpdateStatus(m)
      <2>0. run[m].delivered \in BOOLEAN
            BY DEF TypeOK, RunType
      <2>1. /\ run[m].pc = "status"
            /\ Return(m, run[m].delivered)
            /\ UNCHANGED faults
            /\ \A n \in Msgs \ {m} : row'[n] = row[n]
            /\ row'[m].status = IF run[m].delivered THEN "SENT" ELSE "FAILED"
            /\ row'[m].chat = row[m].chat
            /\ row'[m].due = row[m].due
            BY <1>5 DEF UpdateStatus, TypeOK, RowType
      <2> TAKE n \in Msgs
      <2>2. CASE n # m
            BY <1>1, <1>2, <2>0, <2>1, <2>2, Frame DEF IInv, TypeOK
      <2>3. CASE n = m
            <3>1. Control(m)'
                  BY <1>0, <1>2, <1>4, <2>0, <2>1 DEF Good, Control
            <3>2. Counted(m)'
                  BY <1>0, <1>1, <1>2, <1>4, <2>0, <2>1
                     DEF Good, Counted, Allowance, TypeOK
            <3>3. Recorded(m)'
                  BY <1>0, <1>1, <1>2, <1>4, <2>0, <2>1 DEF Good, Recorded
            <3>4. Timely(m)'
                  <4>1. /\ run'[m].pc = "idle" /\ row'[m].due = row[m].due
                        /\ job[m].state # "running" => job'[m] = job[m]
                        /\ job[m].state = "running" =>
                             /\ job'[m].notBefore = job[m].notBefore
                             /\ job'[m].state \in {"succeeded", "enqueued", "failed"}
                        BY <1>2, <2>0, <2>1
                  <4>2. job'[m].attempts <= MaxRetries + faults'[m]
                        <5>1. /\ job[m].attempts \in Nat /\ job'[m].attempts \in Nat
                              /\ faults' = faults /\ faults[m] \in Nat
                              BY <1>1, <2>1 DEF TypeOK, JobType
                        <5>2. job[m].attempts <= MaxRetries + faults[m]
                              BY <1>0 DEF Good, Timely
                        <5>3. \/ job'[m].attempts <= job[m].attempts
                              \/ /\ job'[m].attempts <= job[m].attempts + 1
                                 /\ job[m].attempts < MaxRetries
                              <6>1. CASE job[m].state = "running"
                                    BY <1>2, <2>0, <2>1, <5>1, <6>1
                              <6>2. CASE job[m].state # "running"
                                    BY <4>1, <5>1, <6>2
                              <6> QED BY <6>1, <6>2
                        <5> QED BY <5>1, <5>2, <5>3, DeliveryConstants
                  <4>3. job'[m].state # "none" => row'[m].due <= job'[m].notBefore
                        BY <1>0, <1>4, <4>1 DEF Good, Timely
                  <4>4. run'[m].pc \notin {"encrypt", "smart", "status"}
                        BY <4>1
                  <4> QED BY <4>2, <4>3, <4>4 DEF Timely
            <3> QED BY <2>3, <3>1, <3>2, <3>3, <3>4 DEF Good
      <2> QED BY <2>2, <2>3
<1>6. CASE DatabaseError(m)
      <2>1. /\ Return(m, FALSE)
            /\ faults'[m] = faults[m] + 1
            /\ \A n \in Msgs \ {m} : faults'[n] = faults[n]
            BY <1>6 DEF DatabaseError, TypeOK
      <2>2. /\ \A n \in Msgs \ {m} : row'[n] = row[n]
            /\ row'[m].status \in {row[m].status, "FAILED"}
            /\ row'[m].chat = row[m].chat
            /\ row'[m].due = row[m].due
            <3>1. row' = row \/ row' = [row EXCEPT ![m].status = "FAILED"]
                  BY <1>6, Zenon DEF DatabaseError
            <3> QED BY <3>1 DEF TypeOK, RowType
      <2>0. /\ run'[m].pc = "idle"
            /\ job[m].state # "running" => job'[m] = job[m]
            /\ job[m].state = "running" =>
                 /\ job'[m].notBefore = job[m].notBefore
                 /\ job'[m].attempts <= job[m].attempts + 1
                 /\ job'[m].state \in {"enqueued", "failed"}
            /\ \A n \in Msgs \ {m} : run'[n] = run[n] /\ job'[n] = job[n]
            <3>1. FALSE \in BOOLEAN
                  OBVIOUS
            <3> QED BY <1>2, <2>1, <3>1
      <2> TAKE n \in Msgs
      <2>3. CASE n # m
            BY <1>1, <2>0, <2>1, <2>2, <2>3, Frame DEF IInv, TypeOK
      <2>4. CASE n = m
            <3>1. Control(m)'
                  BY <1>0, <1>4, <2>0, <2>1, <2>2 DEF Good, Control
            <3>2. Counted(m)'
                  BY <1>0, <1>1, <1>3, <1>4, <2>0, <2>1, <2>2
                     DEF Good, Counted, Allowance, TypeOK
            <3>3. Recorded(m)'
                  BY <1>0, <1>1, <1>4, <2>0, <2>1, <2>2
                     DEF Good, Recorded, TypeOK
            <3>4. Timely(m)'
                  BY <1>0, <1>1, <1>4, <2>0, <2>1, <2>2, DeliveryConstants
                     DEF Good, Timely, TypeOK, JobType
            <3> QED BY <2>4, <3>1, <3>2, <3>3, <3>4 DEF Good
      <2> QED BY <2>3, <2>4
<1> QED BY <1>5, <1>6

\* An attempt is cut short, by WorkManager or with the whole process. A job
\* that was running is put back and the fault is counted for its message.
LEMMA CutGood ==
    ASSUME IInv, TypeOK', NEW m \in Msgs,
           run'[m] = Idle, job'[m] = Requeued(job[m]),
           row'[m] = row[m], tx'[m] = tx[m],
           now' = now, air' = air,
           faults'[m] = IF run[m].pc = "idle" THEN faults[m] ELSE faults[m] + 1
    PROVE  Good(m)'
<1> TypeOK
    BY DEF IInv
<1>0. Good(m)
      BY DEF IInv
<1>1. CASE run[m].pc = "idle"
      <2>1. job'[m] = job[m] /\ faults'[m] = faults[m]
            BY <1>0, <1>1 DEF Good, Control, Requeued
      <2>2. run'[m].pc = "idle"
            BY DEF Idle, Started
      <2>3. Control(m)'
            BY <1>0, <1>1, <2>1, <2>2 DEF Good, Control
      <2>4. Counted(m)'
            BY <1>0, <1>1, <2>1, <2>2
               DEF Good, Control, Counted, Allowance
      <2>5. Recorded(m)'
            BY <1>0, <1>1, <2>1, <2>2 DEF Good, Recorded
      <2>6. Timely(m)'
            BY <1>0, <1>1, <2>1, <2>2 DEF Good, Timely
      <2> QED BY <2>3, <2>4, <2>5, <2>6 DEF Good
<1>2. CASE run[m].pc # "idle"
      <2>1. /\ run'[m].pc = "idle"
            /\ faults'[m] = faults[m] + 1
            /\ job[m].state \in {"none", "running"}
            /\ row[m].status # "absent"
            BY <1>0, <1>2
               DEF Good, Control, TypeOK, JobType, JobStates, Idle, Started
      <2>2. /\ job[m].state = "none" => job'[m] = job[m]
            /\ job[m].state = "running" =>
                 /\ job'[m].state = "enqueued"
                 /\ job'[m].attempts = job[m].attempts + 1
                 /\ job'[m].notBefore = job[m].notBefore
            BY DEF Requeued, Retry
      <2>3. Control(m)'
            BY <1>0, <2>1, <2>2 DEF Good, Control
      <2>4. Counted(m)'
            BY <1>0, <1>2, <2>1, <2>2
               DEF Good, Control, Counted, Allowance, TypeOK, RunType, Points
      <2>5. Recorded(m)'
            BY <1>0, <2>1, <2>2 DEF Good, Recorded, TypeOK
      <2>6. Timely(m)'
            BY <1>0, <2>1, <2>2, DeliveryConstants
               DEF Good, Timely, TypeOK, JobType
      <2> QED BY <2>3, <2>4, <2>5, <2>6 DEF Good
<1> QED BY <1>1, <1>2

-----------------------------------------------------------------------------

\* IInv is inductive.
LEMMA IInvStep == IInv /\ [Next]_vars => IInv'
<1> SUFFICES ASSUME IInv, [Next]_vars PROVE IInv'
    OBVIOUS
<1>t. TypeOK /\ TypeOK'
      BY TypeStep DEF IInv
<1> SUFFICES \A n \in Msgs : Good(n)'
    BY <1>t DEF IInv
<1>1. ASSUME NEW m \in Msgs, NEW p \in Peers, SendFile(m, p)
      PROVE  \A n \in Msgs : Good(n)'
      <2>1. node[p].phone \in Phones /\ 0 <= now
            BY <1>t DEF TypeOK, NodeRowType
      <2> QED BY <1>1, <1>t, <2>1, ComposeGood DEF SendFile
<1>2. ASSUME NEW m \in Msgs, NEW p \in Peers, NEW due \in 0 .. MaxTime,
             SendText(m, p, due)
      PROVE  \A n \in Msgs : Good(n)'
      <2>1. TargetPhone(p) \in Phones
            BY <1>t DEF TargetPhone, TypeOK, NodeRowType, Phones
      <2>2. due \in Nat /\ now \in Nat
            BY <1>t, DeliveryConstants DEF TypeOK
      <2>3. CASE due > now
            <3>1. Compose(m, p, due, "SCHEDULED", "sched", TargetPhone(p))
                  BY <1>2, <2>3 DEF SendText
            <3> QED BY <1>t, <2>1, <2>2, <3>1, ComposeGood
      <2>4. CASE ~(due > now)
            <3>1. Compose(m, p, due, "PENDING", "encrypt", TargetPhone(p))
                  BY <1>2, <2>4 DEF SendText
            <3>2. due <= now
                  BY <2>2, <2>4
            <3> QED BY <1>t, <2>1, <2>2, <3>1, <3>2, ComposeGood
      <2> QED BY <2>3, <2>4
<1>3. ASSUME NEW m \in Msgs,
             ScheduleMessageWork(m) \/ FixPayload(m) \/ SendMessageSmart(m)
      PROVE  \A n \in Msgs : Good(n)'
      BY <1>3, <1>t, ProgressGood
<1>4. ASSUME NEW m \in Msgs, UpdateStatus(m) \/ DatabaseError(m)
      PROVE  \A n \in Msgs : Good(n)'
      BY <1>4, <1>t, ReturnGood
<1>5. ASSUME NEW m \in Msgs, DoWork(m)
      PROVE  \A n \in Msgs : Good(n)'
      BY <1>5, <1>t, DoWorkGood
<1>6. ASSUME NEW m \in Msgs, StopWorker(m)
      PROVE  \A n \in Msgs : Good(n)'
      <2>1. run[m].pc # "idle"
            BY <1>6 DEF StopWorker, IInv, Good, Control
      <2>2. /\ run'[m] = Idle /\ job'[m] = Requeued(job[m])
            /\ faults'[m] = faults[m] + 1
            /\ UNCHANGED <<now, row, air, tx>>
            /\ \A n \in Msgs \ {m} : /\ run'[n] = run[n]
                                     /\ job'[n] = job[n]
                                     /\ faults'[n] = faults[n]
            BY <1>6, <1>t DEF StopWorker, TypeOK
      <2>3. Good(m)'
            BY <1>t, <2>1, <2>2, CutGood
      <2> TAKE n \in Msgs
      <2>4. CASE n # m
            BY <1>t, <2>2, <2>4, Frame DEF IInv, TypeOK
      <2> QED BY <2>3, <2>4
<1>7. CASE ProcessDeath
      <2> TAKE n \in Msgs
      <2> QED BY <1>7, <1>t, CutGood DEF ProcessDeath
<1>8. ASSUME UNCHANGED <<row, run, job, air, tx, faults>>, now <= now'
      PROVE  \A n \in Msgs : Good(n)'
      BY <1>8, <1>t, Frame DEF IInv
<1>9. ASSUME NEW p \in Peers,
             WifiFound(p) \/ WifiLost(p) \/ SwarmSeen(p) \/ NodeStored(p)
      PROVE  \A n \in Msgs : Good(n)'
      <2>1. UNCHANGED <<now, row, run, job, air, tx, faults>>
            BY <1>9 DEF WifiFound, WifiLost, SwarmSeen, NodeStored, Quiet
      <2>2. now <= now'
            BY <1>t, <2>1 DEF TypeOK
      <2> QED BY <1>8, <2>1, <2>2
<1>10. CASE StopNetwork \/ Connectivity \/ Tick
       BY <1>8, <1>10, <1>t DEF StopNetwork, Connectivity, Tick, Quiet, TypeOK
<1>11. CASE UNCHANGED vars
       BY <1>8, <1>11, <1>t DEF vars, TypeOK
<1> QED BY <1>1, <1>2, <1>3, <1>4, <1>5, <1>6, <1>7, <1>9, <1>10, <1>11
        DEF Next

\* The invariant holds when the app starts with an empty message table.
LEMMA InitIInv == Init => IInv
<1> SUFFICES ASSUME Init PROVE IInv
    OBVIOUS
<1>1. TypeOK
      <2>1. NoNode \in NodeRowType
            BY DEF NoNode, NodeRowType, Phones, Keys
      <2>2. node \in [Peers -> NodeRowType]
            BY <2>1, DeliveryConstants DEF Init
      <2>3. NoRow \in RowType /\ NoJob \in JobType
            BY DEF NoRow, NoJob, RowType, JobType, Statuses, JobStates
      <2> QED BY <2>2, <2>3, IdleType DEF Init, TypeOK
<1>2. ASSUME NEW m \in Msgs PROVE Good(m)
      <2>1. /\ row[m].status = "absent"
            /\ run[m].pc = "idle"
            /\ job[m].state = "none"
            /\ job[m].attempts = 0
            /\ tx[m] = 0
            /\ faults[m] = 0
            BY DEF Init, NoRow, NoJob, Idle, Started
      <2> QED BY <2>1, DeliveryConstants
              DEF Good, Control, Counted, Allowance, Recorded, Timely
<1> QED BY <1>1, <1>2 DEF IInv

\* The inductive invariant holds in every reachable state.
THEOREM Invariance == Spec => []IInv
BY InitIInv, IInvStep, PTL DEF Spec

\* Every variable keeps its type.
THEOREM TypeCorrect == Spec => []TypeOK
<1>1. IInv => TypeOK
      BY DEF IInv
<1> QED BY <1>1, Invariance, PTL

\* sendMessageSmart and the worker's retries: without a fault a message
\* leaves the device at most once, over UDP or over SMS.
THEOREM NoSpuriousDuplicates == Spec => []DuplicatesNeedFaults
<1>1. IInv => DuplicatesNeedFaults
      <2> SUFFICES ASSUME IInv, NEW m \in Msgs
                   PROVE  tx[m] <= 1 + (IF job[m].state = "none" THEN 0
                                        ELSE faults[m])
          BY DEF DuplicatesNeedFaults
      <2>1. Counted(m) /\ Control(m) /\ TypeOK
            BY DEF IInv, Good
      <2> QED BY <2>1 DEF Counted, Allowance, Control, TypeOK, JobType,
                          JobStates, RunType, Points
<1> QED BY <1>1, Invariance, PTL

\* A FAILED message may be sent again by hand: it never left the device.
THEOREM FailedMeansUnsent == Spec => []FailedNeverLeft
<1>1. IInv => FailedNeverLeft
      <2> SUFFICES ASSUME IInv, NEW m \in Msgs, row[m].status = "FAILED",
                          run[m].pc = "idle", faults[m] = 0
                   PROVE  tx[m] = 0
          BY DEF FailedNeverLeft
      <2>1. Counted(m) /\ Control(m) /\ Recorded(m) /\ TypeOK
            BY DEF IInv, Good
      <2> QED BY <2>1 DEF Counted, Allowance, Control, Recorded, TypeOK,
                          JobType, JobStates
<1> QED BY <1>1, Invariance, PTL

\* WorkManager's record of the job and the status column agree.
THEOREM JobAndRowAgree == Spec => []JobAgreesWithRow
<1>1. IInv => JobAgreesWithRow
      BY DEF IInv, Good, Recorded, JobAgreesWithRow
<1> QED BY <1>1, Invariance, PTL

\* SENT is written only after a transport was called.
THEOREM SentMeansCalled == Spec => []SentWasHandedOver
<1>1. IInv => SentWasHandedOver
      BY DEF IInv, Good, Recorded, SentWasHandedOver
<1> QED BY <1>1, Invariance, PTL

\* The retry limit holds, faults apart.
THEOREM RetryLimit == Spec => []RetriesBounded
<1>1. IInv => RetriesBounded
      BY DEF IInv, Good, Timely, RetriesBounded
<1> QED BY <1>1, Invariance, PTL

\* Only sendMessageSmart sends, and by then the message is due.
THEOREM DueFirst == Spec => NeverBeforeDue
<1>1. IInv /\ [Next]_vars
        => [\A m \in Msgs : tx'[m] > tx[m] => now >= row[m].due]_vars
      <2> SUFFICES ASSUME IInv, Next, NEW m \in Msgs, tx'[m] > tx[m]
                   PROVE  now >= row[m].due
          OBVIOUS
      <2>0. TypeOK /\ Timely(m)
            BY DEF IInv, Good
      <2>1. tx' # tx
            BY <2>0 DEF TypeOK
      <2>2. PICK n \in Msgs : SendMessageSmart(n)
            <3>1. ASSUME NEW n \in Msgs,
                         \/ ScheduleMessageWork(n) \/ FixPayload(n)
                         \/ UpdateStatus(n) \/ DatabaseError(n)
                         \/ DoWork(n) \/ StopWorker(n)
                  PROVE  FALSE
                  BY <2>1, <3>1 DEF ScheduleMessageWork, FixPayload,
                     UpdateStatus, DatabaseError, DoWork, StopWorker
            <3>2. ASSUME NEW n \in Msgs, NEW p \in Peers,
                         \/ SendFile(n, p)
                         \/ \E due \in 0 .. MaxTime : SendText(n, p, due)
                  PROVE  FALSE
                  BY <2>1, <3>2 DEF SendFile, SendText, Compose
            <3>3. ASSUME NEW p \in Peers,
                         \/ WifiFound(p) \/ WifiLost(p)
                         \/ SwarmSeen(p) \/ NodeStored(p)
                  PROVE  FALSE
                  BY <2>1, <3>3
                     DEF WifiFound, WifiLost, SwarmSeen, NodeStored, Quiet
            <3>4. ~(ProcessDeath \/ StopNetwork \/ Connectivity \/ Tick)
                  BY <2>1 DEF ProcessDeath, StopNetwork, Connectivity, Tick,
                              Quiet
            <3> QED BY <3>1, <3>2, <3>3, <3>4, Zenon DEF Next
      <2>3. n = m
            <3>1. ASSUME n # m, NEW via, NEW ok, CallTransport(n, via, ok)
                  PROVE  tx'[m] = tx[m]
                  BY <2>0, <3>1 DEF CallTransport, TypeOK
            <3>2. tx'[m] # tx[m]
                  BY <2>0, TypeStep DEF TypeOK
            <3> QED BY <2>1, <2>2, <3>1, <3>2 DEF SendMessageSmart, SmartByUdp,
                       SmartBySms, SmartNoRoute
      <2>4. run[m].pc = "smart"
            BY <2>2, <2>3 DEF SendMessageSmart
      <2> QED BY <2>0, <2>4 DEF Timely, TypeOK, RowType
<1> QED BY <1>1, Invariance, PTL DEF Spec, NeverBeforeDue

\* Without a fault no attempt runs once SENT is stored, so SENT stays.
THEOREM SentStays == Spec => SentIsKept
<1>1. IInv /\ [Next]_vars
        => [\A m \in Msgs : row[m].status = "SENT" /\ faults[m] = 0
                               => row'[m].status = "SENT"]_vars
      <2> SUFFICES ASSUME IInv, Next, NEW m \in Msgs,
                          row[m].status = "SENT", faults[m] = 0
                   PROVE  row'[m].status = "SENT"
          OBVIOUS
      <2>0. TypeOK /\ run[m].pc = "idle"
            BY DEF IInv, Good, Recorded
      <2>1. ASSUME NEW n \in Msgs, UpdateStatus(n) \/ DatabaseError(n)
            PROVE  row'[m] = row[m]
            <3>1. n # m
                  BY <2>0, <2>1 DEF UpdateStatus, DatabaseError
            <3> QED BY <2>0, <2>1, <3>1 DEF UpdateStatus, DatabaseError, TypeOK
      <2>2. ASSUME NEW n \in Msgs, NEW p, NEW due, NEW st, NEW pc, NEW ph,
                   Compose(n, p, due, st, pc, ph)
            PROVE  row'[m] = row[m]
            BY <2>0, <2>2 DEF Compose, TypeOK
      <2>3. CASE UNCHANGED row
            BY <2>3
      <2> QED BY <2>1, <2>2, <2>3 DEF Next, SendFile, SendText,
               ScheduleMessageWork, FixPayload, SendMessageSmart, DoWork,
               StopWorker, ProcessDeath, WifiFound, WifiLost, SwarmSeen,
               NodeStored, StopNetwork, Connectivity, Tick, Quiet
<1> QED BY <1>1, Invariance, PTL DEF Spec, SentIsKept
=============================================================================
