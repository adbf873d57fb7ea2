----------------------- MODULE CommandDelivery_proofs -----------------------
(***************************************************************************)
(* Proofs about the command queue, for any devices, descriptors, number of *)
(* commands and failures.                                                  *)
(***************************************************************************)
EXTENDS CommandDelivery, NotificationServer_proofs

(***************************************************************************)
(* The composed system takes only steps that the notification server has.  *)
(***************************************************************************)
LEMMA CDNextIsRegistryStep ==
    ASSUME [CDNext]_vars
    PROVE  RegistryStep
<1>1. ASSUME NEW fd \in Fds, QueueStep(fd)
      PROVE  RegistryStep
    BY <1>1 DEF QueueStep, QueryPending, QueryFails, NothingPending, SendNext,
                SaveNext, SaveNextFails, QueueDone, SendCommand, RegistryStep,
                registryVars, serverVars
<1>2. ASSUME NEW c \in Payloads, SenderStep(c)
      PROVE  RegistryStep
    BY <1>2 DEF SenderStep, TrySendImmediately, SaveSent, SaveSentFails,
                SendCommand, RegistryStep, registryVars, serverVars
<1>3. ASSUME NEW d \in Devices,
             ClientStep(d) \/ Drop(d) \/ CreateCommand(d) \/ CreateFails(d)
      PROVE  RegistryStep
    BY <1>3 DEF ClientStep, ReadGreeting, OnMessage, ConnectionClosed, Drop,
                CreateCommand, CreateFails, RegistryStep, registryVars, serverVars
<1>4. CASE Crash
    BY <1>4 DEF Crash, RegistryStep
<1>5. CASE UNCHANGED vars
    BY <1>5 DEF vars, serverVars, registryVars, RegistryStep
<1> QED
    BY <1>1, <1>2, <1>3, <1>4, <1>5 DEF CDNext, RegistryStep

(* The registry's invariant holds in the composed system too.              *)
LEMMA CDRegistryInvariance == CDSpec => []RegistryInv
<1>1. CDInit => RegistryInv
    BY RegistryEmpty DEF CDInit, Init
<1>2. RegistryInv /\ [CDNext]_vars => RegistryInv'
    BY CDNextIsRegistryStep, RegistryStepPreserves
<1> QED
    BY <1>1, <1>2, PTL DEF CDSpec

(***************************************************************************)
(* The inductive invariant of the queue: whoever is about to save a row as *)
(* SENT has sent it, and a drain runs inside the connect callback only.    *)
(***************************************************************************)
SaversHaveSent ==
    /\ sent \subseteq written
    /\ \A fd \in Fds : job[fd] = "save_sent" =>
         batch[fd] # {} /\ NextKey(fd) \in written

DrainInCallback == \A fd \in Fds : job[fd] # "query" => pc[fd] = "on_connect"

QueueInv == CommandTypeOK /\ DrainNeverFails /\ SaversHaveSent /\ DrainInCallback

(* The next row of a batch is a row of the batch.                          *)
LEMMA NextKeyInBatch ==
    ASSUME CommandTypeOK, NEW fd \in Fds, batch[fd] # {}
    PROVE  NextKey(fd) \in batch[fd] /\ NextKey(fd) \in DOMAIN rows
<1> DEFINE R == OpToRel(<, Nat)
<1>1. batch[fd] \subseteq Nat /\ batch[fd] \subseteq DOMAIN rows
    BY LenProperties DEF CommandTypeOK
<1>2. PICK k \in batch[fd] : \A j \in batch[fd] : ~(<<j, k>> \in R)
    BY <1>1, NatLessThanWellFounded, WFMin
<1>3. \A m, n \in Nat : m < n => <<m, n>> \in R
    BY DEF OpToRel
<1> HIDE DEF R
<1>4. \A j \in batch[fd] : k <= j
    <2> SUFFICES ASSUME NEW j \in batch[fd]
                 PROVE  k <= j
        OBVIOUS
    <2>1. ~(j < k)
        BY <1>1, <1>2, <1>3
    <2> QED
        BY <1>1, <2>1
<1>5. NextKey(fd) \in batch[fd]
    BY <1>4 DEF NextKey
<1> QED
    BY <1>1, <1>5

(* Changing the status of a row keeps the table a table, with its keys.    *)
LEMMA StatusChange ==
    ASSUME CommandTypeOK, NEW c \in DOMAIN rows, NEW s \in {"PENDING", "SENT"},
           rows' = [rows EXCEPT ![c].status = s]
    PROVE  rows' \in Seq(Row) /\ DOMAIN rows' = DOMAIN rows /\ Len(rows') = Len(rows)
<1>1. rows \in Seq(Row) /\ c \in 1..Len(rows)
    BY LenProperties DEF CommandTypeOK
<1>2. rows[c] \in Row
    BY <1>1, ElementOfSeq
<1>3. [rows[c] EXCEPT !.status = s] \in Row
    BY <1>2 DEF Row
<1>4. rows' = [rows EXCEPT ![c] = [rows[c] EXCEPT !.status = s]]
    OBVIOUS
<1>5. rows' \in Seq(Row) /\ Len(rows') = Len(rows)
    BY <1>1, <1>3, <1>4, ExceptSeq
<1> QED
    BY <1>1, <1>5, LenProperties

(***************************************************************************)
(* Each kind of step preserves the invariant and is a step of the abstract *)
(* queue, or does not touch it.                                            *)
(***************************************************************************)
QueueStutter == UNCHANGED <<rows, written>>

(* A call that fails is counted and noted for commands that there are.     *)
LEMMA DbFailsTypes ==
    ASSUME CommandTypeOK, NEW S, NEW cs \in SUBSET S, DOMAIN rows \subseteq S,
           DbFails(cs)
    PROVE  dbErrors' \in 0..MaxDbErrors /\ missed' \subseteq S
BY DbErrorsAssumption DEF CommandTypeOK, DbFails

(* CreateCommand is the Record of the abstract queue, also when it fails.  *)
LEMMA CreateStep ==
    ASSUME QueueInv, NEW d \in Devices, CreateCommand(d) \/ CreateFails(d)
    PROVE  QueueInv' /\ Queue!Next
<1> PICK s \in {"PENDING", "UNSAVED"} : rows' = Append(rows, [device |-> d, status |-> s])
    BY DEF CreateCommand, CreateFails
<1> DEFINE new == [device |-> d, status |-> s]
<1>1. /\ rows \in Seq(Row) /\ new \in Row /\ Len(rows) < MaxCommands
      /\ rows' = Append(rows, new)
    BY DEF QueueInv, CommandTypeOK, CreateCommand, CreateFails, Row
<1>2. /\ rows' \in Seq(Row) /\ Len(rows) \in Nat /\ Len(rows') = Len(rows) + 1
      /\ DOMAIN rows = 1..Len(rows) /\ DOMAIN rows' = 1..(Len(rows) + 1)
    <2> HIDE DEF new
    <2> QED
        BY <1>1, AppendProperties, LenProperties
<1>3. dbErrors' \in 0..MaxDbErrors /\ missed' \subseteq DOMAIN rows'
    <2>1. CASE CreateCommand(d)
        BY <1>2, <2>1 DEF QueueInv, CommandTypeOK, CreateCommand, dbVars
    <2>2. CASE CreateFails(d)
        <3>1. {Len(rows) + 1} \in SUBSET DOMAIN rows' /\ DOMAIN rows \subseteq DOMAIN rows'
            BY <1>2
        <3>2. DbFails({Len(rows) + 1}) /\ CommandTypeOK
            BY <2>2 DEF CreateFails, QueueInv
        <3> QED
            BY <3>1, <3>2, DbFailsTypes
    <2> QED
        BY <2>1, <2>2
<1>4. CommandTypeOK'
    <2>1. /\ UNCHANGED <<sent, job, batch, written>>
          /\ sending' = sending \union {Len(rows) + 1}
        BY DEF CreateCommand, CreateFails
    <2> QED
        BY <1>1, <1>2, <1>3, <2>1, PayloadsAssumption DEF QueueInv, CommandTypeOK
<1>5. (DrainNeverFails /\ SaversHaveSent /\ DrainInCallback)'
    BY DEF QueueInv, DrainNeverFails, SaversHaveSent, DrainInCallback, NextKey,
           CreateCommand, CreateFails, serverVars, registryVars
<1>6. Queue!Next
    <2>1. UNCHANGED written
        BY DEF CreateCommand, CreateFails
    <2> QED
        BY <1>1, <2>1 DEF Queue!Next, Queue!Record
<1> QED
    BY <1>4, <1>5, <1>6 DEF QueueInv

(* A sender sends, or marks as SENT what was sent.                         *)
LEMMA SenderPreserves ==
    ASSUME QueueInv, NEW c \in Payloads, SenderStep(c)
    PROVE  QueueInv' /\ (Queue!Next \/ QueueStutter)
<1> USE DEF QueueInv
<1>1. CASE TrySendImmediately(c)
    <2>1. c \in DOMAIN rows /\ registryVars' = registryVars
        BY <1>1 DEF CommandTypeOK, TrySendImmediately, SendCommand
    <2>2. CommandTypeOK'
        BY <1>1, <2>1 DEF CommandTypeOK, TrySendImmediately, SendCommand, dbVars
    <2>3. SaversHaveSent'
        BY <1>1 DEF SaversHaveSent, NextKey, TrySendImmediately, SendCommand
    <2>4. (DrainNeverFails /\ DrainInCallback)'
        BY <1>1, <2>1 DEF DrainNeverFails, DrainInCallback, TrySendImmediately,
                          registryVars
    <2>5. Queue!Send(c) \/ QueueStutter
        BY <1>1 DEF Queue!Send, QueueStutter, TrySendImmediately, SendCommand
    <2> QED
        BY <2>1, <2>2, <2>3, <2>4, <2>5 DEF Queue!Next
<1>2. CASE SaveSent(c)
    <2>1. /\ c \in DOMAIN rows
          /\ c \in written
          /\ rows' = [rows EXCEPT ![c].status = "SENT"]
        BY <1>2 DEF CommandTypeOK, SaversHaveSent, SaveSent
    <2>2. /\ rows' \in Seq(Row) /\ DOMAIN rows' = DOMAIN rows
          /\ Len(rows') = Len(rows)
        BY <2>1, StatusChange
    <2>3. CommandTypeOK'
        BY <1>2, <2>2 DEF CommandTypeOK, SaveSent
    <2>4. (DrainNeverFails /\ SaversHaveSent /\ DrainInCallback)'
        BY <1>2 DEF DrainNeverFails, SaversHaveSent, DrainInCallback, NextKey,
                    SaveSent, serverVars, registryVars
    <2>5. Queue!MarkSent(c)
        BY <1>2, <2>1 DEF Queue!MarkSent, SaveSent
    <2> QED
        BY <2>1, <2>3, <2>4, <2>5 DEF Queue!Next
<1>3. CASE SaveSentFails(c)
    <2>1. /\ c \in DOMAIN rows /\ DbFails({c}) /\ UNCHANGED <<rows, written>>
          /\ UNCHANGED <<serverVars, sending, job, batch>> /\ sent' = sent \ {c}
        BY <1>3 DEF CommandTypeOK, SaveSentFails
    <2>2. dbErrors' \in 0..MaxDbErrors /\ missed' \subseteq DOMAIN rows
        <3>1. {c} \in SUBSET DOMAIN rows
            BY <2>1
        <3> QED
            BY <2>1, <3>1, DbFailsTypes
    <2>3. CommandTypeOK'
        BY <2>1, <2>2 DEF CommandTypeOK
    <2>4. (DrainNeverFails /\ SaversHaveSent /\ DrainInCallback)'
        BY <2>1 DEF DrainNeverFails, SaversHaveSent, DrainInCallback, NextKey,
                    serverVars, registryVars
    <2> QED
        BY <2>1, <2>3, <2>4 DEF QueueStutter
<1> QED
    BY <1>1, <1>2, <1>3 DEF SenderStep

(* A drain sends, or marks as SENT what was sent.                          *)
LEMMA DrainPreserves ==
    ASSUME QueueInv, RegistryInv, NEW fd \in Fds, QueueStep(fd)
    PROVE  QueueInv' /\ (Queue!Next \/ QueueStutter)
<1> USE DEF QueueInv
<1>1. /\ job \in [Fds -> JobStates]
      /\ batch \in [Fds -> SUBSET DOMAIN rows]
      /\ pc \in [Fds -> HandlerStates]
    BY DEF CommandTypeOK, RegistryInv, RegistryTypeOK
<1>2. CASE QueryPending(fd)
    <2>1. CommandTypeOK'
        BY <1>1, <1>2 DEF CommandTypeOK, QueryPending, Pending, JobStates
    <2>2. SaversHaveSent'
        BY <1>1, <1>2 DEF SaversHaveSent, NextKey, QueryPending
    <2>3. (DrainNeverFails /\ DrainInCallback)'
        BY <1>1, <1>2 DEF DrainNeverFails, DrainInCallback, QueryPending,
                          serverVars, registryVars
    <2> QED
        BY <1>2, <2>1, <2>2, <2>3 DEF QueryPending, QueueStutter
<1>3. CASE NothingPending(fd) \/ QueueDone(fd)
    <2>1. CommandTypeOK'
        BY <1>1, <1>3 DEF CommandTypeOK, NothingPending, QueueDone, JobStates,
                          commandVars, dbVars
    <2>2. SaversHaveSent'
        BY <1>1, <1>3 DEF SaversHaveSent, NextKey, NothingPending, QueueDone,
                          commandVars
    <2>3. (DrainNeverFails /\ DrainInCallback)'
        BY <1>1, <1>3 DEF DrainNeverFails, DrainInCallback, NothingPending,
                          QueueDone, OnConnectReturns, commandVars
    <2> QED
        BY <1>3, <2>1, <2>2, <2>3
        DEF NothingPending, QueueDone, QueueStutter, commandVars
<1>4. CASE SendNext(fd)
    <2> DEFINE k == NextKey(fd)
    <2>1. k \in batch[fd] /\ k \in DOMAIN rows
        BY <1>4, NextKeyInBatch DEF SendNext
    <2> HIDE DEF k
    <2>2. Listed(device[fd])
        BY <1>4, RegisteredIsListed DEF SendNext, Registered
    <2>3. /\ written' = written \union {k}
          /\ job' = [job EXCEPT ![fd] = "save_sent"]
          /\ UNCHANGED <<rows, sending, sent, batch, pc, dbVars>>
        BY <1>4, <2>2 DEF SendNext, SendCommand, registryVars, k
    <2>4. CommandTypeOK'
        BY <1>1, <2>1, <2>3 DEF CommandTypeOK, JobStates, dbVars
    <2>5. SaversHaveSent'
        <3>1. \A f \in Fds : NextKey(f)' = NextKey(f)
            BY <2>3 DEF NextKey
        <3> QED
            BY <1>1, <2>1, <2>3, <3>1 DEF SaversHaveSent, k
    <2>6. (DrainNeverFails /\ DrainInCallback)'
        BY <1>1, <1>4, <2>3 DEF DrainNeverFails, DrainInCallback, SendNext
    <2>7. Queue!Send(k)
        BY <2>3 DEF Queue!Send
    <2> QED
        BY <2>1, <2>4, <2>5, <2>6, <2>7 DEF Queue!Next
<1>5. CASE SaveNext(fd)
    <2> DEFINE k == NextKey(fd)
    <2>1. job[fd] = "save_sent" /\ k \in written /\ batch[fd] # {}
        BY <1>5 DEF SaveNext, DrainNeverFails, SaversHaveSent
    <2>2. k \in DOMAIN rows
        BY <2>1, NextKeyInBatch
    <2> HIDE DEF k
    <2>3. /\ rows' = [rows EXCEPT ![k].status = "SENT"]
          /\ batch' = [batch EXCEPT ![fd] = @ \ {k}]
          /\ job' = [job EXCEPT ![fd] = "send"]
          /\ UNCHANGED <<sending, sent, written, pc, dbVars>>
        BY <1>5, <2>1 DEF SaveNext, serverVars, registryVars, k
    <2>4. /\ rows' \in Seq(Row) /\ DOMAIN rows' = DOMAIN rows
          /\ Len(rows') = Len(rows)
        BY <2>2, <2>3, StatusChange
    <2>5. CommandTypeOK'
        BY <1>1, <2>3, <2>4 DEF CommandTypeOK, JobStates, dbVars
    <2>6. SaversHaveSent'
        BY <1>1, <2>3 DEF SaversHaveSent, NextKey
    <2>7. (DrainNeverFails /\ DrainInCallback)'
        BY <1>1, <1>5, <2>3 DEF DrainNeverFails, DrainInCallback, SaveNext
    <2>8. Queue!MarkSent(k)
        BY <2>1, <2>3 DEF Queue!MarkSent
    <2> QED
        BY <2>2, <2>5, <2>6, <2>7, <2>8 DEF Queue!Next
<1>6. CASE QueryFails(fd)
    <2>1. DbFails(Pending(device[fd])) /\ UNCHANGED <<rows, sending, sent, job, batch, written>>
        BY <1>6 DEF QueryFails
    <2>2. dbErrors' \in 0..MaxDbErrors /\ missed' \subseteq DOMAIN rows
        <3>1. Pending(device[fd]) \in SUBSET DOMAIN rows
            BY DEF Pending
        <3> QED
            BY <2>1, <3>1, DbFailsTypes
    <2>3. CommandTypeOK'
        BY <2>1, <2>2 DEF CommandTypeOK
    <2>4. (DrainNeverFails /\ SaversHaveSent)'
        BY <2>1 DEF DrainNeverFails, SaversHaveSent, NextKey
    <2>5. DrainInCallback'
        BY <1>1, <1>6, <2>1 DEF DrainInCallback, QueryFails, OnConnectReturns
    <2> QED
        BY <2>1, <2>3, <2>4, <2>5 DEF QueueStutter
<1>7. CASE SaveNextFails(fd)
    <2> DEFINE k == NextKey(fd)
    <2>1. job[fd] = "save_sent" /\ batch[fd] # {}
        BY <1>7 DEF SaveNextFails, DrainNeverFails, SaversHaveSent
    <2>2. k \in DOMAIN rows
        BY <2>1, NextKeyInBatch
    <2> HIDE DEF k
    <2>3. /\ batch' = [batch EXCEPT ![fd] = @ \ {k}]
          /\ job' = [job EXCEPT ![fd] = "send"]
          /\ DbFails({k})
          /\ UNCHANGED <<rows, sending, sent, written, pc>>
        BY <1>7 DEF SaveNextFails, serverVars, registryVars, k
    <2>4. dbErrors' \in 0..MaxDbErrors /\ missed' \subseteq DOMAIN rows
        <3>1. {k} \in SUBSET DOMAIN rows
            BY <2>2
        <3> QED
            BY <2>3, <3>1, DbFailsTypes
    <2>5. CommandTypeOK'
        BY <1>1, <2>3, <2>4 DEF CommandTypeOK, JobStates
    <2>6. SaversHaveSent'
        BY <1>1, <2>3 DEF SaversHaveSent, NextKey
    <2>7. (DrainNeverFails /\ DrainInCallback)'
        BY <1>1, <1>7, <2>3 DEF DrainNeverFails, DrainInCallback, SaveNextFails
    <2> QED
        BY <2>3, <2>5, <2>6, <2>7 DEF QueueStutter
<1> QED
    BY <1>2, <1>3, <1>4, <1>5, <1>6, <1>7 DEF QueueStep

(* What the server does otherwise leaves the queue alone: a thread is not  *)
(* in its connect callback when it takes a step of HandlerStep.            *)
LEMMA ServerPreserves ==
    ASSUME QueueInv, RegistryInv,
           \/ \E fd \in Fds : HandlerStep(fd) /\ UNCHANGED commandVars
           \/ \E d \in Devices : (ClientStep(d) \/ Drop(d)) /\ UNCHANGED commandVars
    PROVE  QueueInv' /\ QueueStutter
<1>1. UNCHANGED commandVars
    OBVIOUS
<1>2. pc \in [Fds -> HandlerStates]
    BY DEF RegistryInv, RegistryTypeOK
<1>3. CommandTypeOK' /\ DrainNeverFails' /\ SaversHaveSent'
    BY <1>1 DEF QueueInv, CommandTypeOK, DrainNeverFails, SaversHaveSent, NextKey,
                commandVars, dbVars
<1>4. DrainInCallback'
    <2>1. \A f \in Fds : pc[f] = "on_connect" => pc'[f] = "on_connect"
        <3>1. ASSUME NEW fd \in Fds, HandlerStep(fd)
              PROVE  \A f \in Fds : pc[f] = "on_connect" => pc'[f] = "on_connect"
            BY <1>2, <3>1
            DEF HandlerStep, Register, RecvIdFails, AnnounceOnline, SendHello,
                Unregister, AnnounceOffline, Retire, CloseSocket
        <3>2. ASSUME NEW d \in Devices, NEW fd \in Fds, Connect(d, fd)
              PROVE  \A f \in Fds : pc[f] = "on_connect" => pc'[f] = "on_connect"
            BY <1>2, <3>2 DEF Connect
        <3>3. ASSUME NEW d \in Devices,
                     \/ ReadGreeting(d) \/ OnMessage(d) \/ ConnectionClosed(d)
                     \/ Drop(d)
              PROVE  pc' = pc
            BY <3>3 DEF ReadGreeting, OnMessage, ConnectionClosed, Drop, registryVars
        <3> QED
            BY <3>1, <3>2, <3>3 DEF ClientStep
    <2> QED
        BY <1>1, <2>1 DEF QueueInv, DrainInCallback, commandVars
<1> QED
    BY <1>1, <1>3, <1>4 DEF QueueInv, QueueStutter, commandVars

(* A crash keeps the invariant and leaves the table alone.                 *)
LEMMA CrashPreserves ==
    ASSUME QueueInv, Crash
    PROVE  QueueInv' /\ QueueStutter
BY DEF Crash, QueueInv, CommandTypeOK, DrainNeverFails, SaversHaveSent,
       DrainInCallback, QueueStutter, JobStates, dbVars

(* Every step keeps the invariant and is a step of the abstract queue.     *)
LEMMA CDStep ==
    ASSUME QueueInv, RegistryInv, [CDNext]_vars
    PROVE  QueueInv' /\ (Queue!Next \/ QueueStutter)
<1>1. CASE UNCHANGED vars
    BY <1>1
    DEF vars, commandVars, dbVars, serverVars, registryVars, QueueInv, CommandTypeOK,
        DrainNeverFails, SaversHaveSent, DrainInCallback, NextKey, QueueStutter
<1>2. CASE CDNext
    BY <1>2, CreateStep, SenderPreserves, DrainPreserves, ServerPreserves,
       CrashPreserves
    DEF CDNext
<1> QED
    BY <1>1, <1>2

(* The invariant holds of the empty table.                                 *)
LEMMA QueueInvInit == CDInit => QueueInv
BY PayloadsAssumption, DbErrorsAssumption
DEF CDInit, AtRest, QueueInv, CommandTypeOK, DrainNeverFails, SaversHaveSent,
    DrainInCallback, JobStates

(* The invariant holds always.                                             *)
LEMMA QueueInvariance == CDSpec => []QueueInv
<1>1. QueueInv /\ RegistryInv /\ [CDNext]_vars => QueueInv'
    BY CDStep
<1> QED
    BY <1>1, QueueInvInit, CDRegistryInvariance, PTL DEF CDSpec

(* ProcessCommandQueue's worry is unfounded: in the connect callback the   *)
(* send always finds the device, so no row is ever saved back as PENDING.  *)
THEOREM DrainsSucceed == CDSpec => []DrainNeverFails
<1>1. QueueInv => DrainNeverFails
    BY DEF QueueInv
<1> QED
    BY <1>1, QueueInvariance, PTL

(* Types of the queue's state; every key a thread holds is a row's.        *)
THEOREM CommandTypes == CDSpec => []CommandTypeOK
<1>1. QueueInv => CommandTypeOK
    BY DEF QueueInv
<1> QED
    BY <1>1, QueueInvariance, PTL

(* The system of senders, drains, reconnections and crashes implements the *)
(* abstract queue: SENT only after a send, and for good.                   *)
THEOREM QueueRefined == CDSpec => KeepsQueuePromise
<1>1. CDInit => Queue!Init
    BY DEF CDInit, Queue!Init
<1>2. QueueInv /\ RegistryInv /\ [CDNext]_vars => [Queue!Next]_(Queue!queueVars)
    BY CDStep DEF QueueStutter, Queue!queueVars
<1> QED
    BY <1>1, <1>2, QueueInvariance, CDRegistryInvariance, PTL
    DEF CDSpec, Queue!Spec, KeepsQueuePromise

(***************************************************************************)
(* Without failures nothing is lost.  As long as no connection has broken  *)
(* and the server has not crashed, every running thread and every node of  *)
(* the list belongs to the connection its client has now, so no thread can *)
(* begin to leave, and every packet is written to where it will be read.   *)
(***************************************************************************)
DrainOfOwnRows ==
    \A fd \in Fds :
        /\ job[fd] = "query" => batch[fd] = {}
        /\ \A k \in batch[fd] : rows[k].device = device[fd]

NoneLeft ==
    /\ \A fd \in Fds : pc[fd] # "free" => sock[device[fd]] = fd
    /\ \A i \in DOMAIN registry : sock[registry[i].device] = registry[i].socket
    /\ \A d \in Devices : (client[d] = "down") <=> (sock[d] = NoFd)

Calm == drops = 0 /\ crashes = 0

Met(d, c) ==
    \/ c \in handled[d] \union swallowed[d]
    \/ \E i \in DOMAIN inbox[d] : inbox[d][i] = c

Keeps == \A d \in Devices : \A c : Met(d, c) => Met(d, c)'

(* A command is sent by SendCommand, and by nothing else.                  *)
Sends(d, c) == SendCommand(d, c) /\ c \in Payloads

(* A step of the composed system is a step of the notification server, or  *)
(* it sends a command.                                                     *)
LEMMA CDNextIsServerStep ==
    ASSUME QueueInv, RegistryInv, [CDNext]_vars
    PROVE  \/ [Next]_serverVars
           \/ \E d \in Devices, c \in Payloads : SendCommand(d, c)
<1>1. DOMAIN rows \subseteq Payloads
    BY LenProperties, PayloadsAssumption DEF QueueInv, CommandTypeOK
<1>2. rows \in Seq(Row) /\ DOMAIN rows = 1..Len(rows)
    BY LenProperties DEF QueueInv, CommandTypeOK
<1>3. ASSUME NEW fd \in Fds, QueueStep(fd)
      PROVE  \/ [Next]_serverVars
             \/ \E d \in Devices, c \in Payloads : SendCommand(d, c)
    <2>1. CASE QueryPending(fd) \/ SaveNext(fd) \/ SaveNextFails(fd)
        BY <2>1 DEF QueryPending, SaveNext, SaveNextFails
    <2>2. CASE QueryFails(fd) \/ NothingPending(fd) \/ QueueDone(fd)
        BY <2>2 DEF QueryFails, NothingPending, QueueDone, Next
    <2>3. CASE SendNext(fd)
        <3>1. NextKey(fd) \in Payloads
            BY <1>1, <2>3, NextKeyInBatch DEF SendNext, QueueInv
        <3>2. device[fd] \in Devices
            BY <2>3 DEF SendNext, RegistryInv, RegistryTypeOK
        <3> QED
            BY <2>3, <3>1, <3>2 DEF SendNext
    <2> QED
        BY <1>3, <2>1, <2>2, <2>3 DEF QueueStep
<1>4. ASSUME NEW c \in Payloads, SenderStep(c)
      PROVE  \/ [Next]_serverVars
             \/ \E d \in Devices, k \in Payloads : SendCommand(d, k)
    <2>1. CASE TrySendImmediately(c)
        <3>1. c \in 1..Len(rows)
            BY <1>2, <2>1 DEF TrySendImmediately, QueueInv, CommandTypeOK
        <3>2. rows[c] \in Row
            BY <1>2, <3>1, ElementOfSeq
        <3>3. rows[c].device \in Devices
            BY <3>2 DEF Row
        <3> QED
            BY <2>1, <3>3 DEF TrySendImmediately
    <2>2. CASE SaveSent(c) \/ SaveSentFails(c)
        BY <2>2 DEF SaveSent, SaveSentFails
    <2> QED
        BY <1>4, <2>1, <2>2 DEF SenderStep
<1>5. ASSUME NEW d \in Devices, CreateCommand(d) \/ CreateFails(d)
      PROVE  [Next]_serverVars
    BY <1>5 DEF CreateCommand, CreateFails
<1>6. CASE Crash
    BY <1>6 DEF Crash, Next
<1>7. CASE UNCHANGED vars
    BY <1>7 DEF vars
<1> QED
    BY <1>3, <1>4, <1>5, <1>6, <1>7 DEF CDNext, Next

(* Sending a command changes inboxes only and keeps their type.            *)
LEMMA SendTypes ==
    ASSUME TypeOK, NEW d, NEW c \in Payloads, SendCommand(d, c)
    PROVE  TypeOK' /\ UNCHANGED <<registryVars, client, sock, handled, swallowed, budgetVars>>
<1>1. UNCHANGED <<registryVars, client, sock, handled, swallowed, budgetVars>>
    BY DEF SendCommand
<1>2. inbox \in [Devices -> Seq(Packets)] /\ c \in Packets
    BY DEF TypeOK, Packets
<1>3. inbox' \in [Devices -> Seq(Packets)]
    BY <1>2, WriteType DEF SendCommand, SendToDevice
<1> QED
    BY <1>1, <1>3 DEF TypeOK, RegistryTypeOK, registryVars, budgetVars

(* The types and the connections of the notification server survive the    *)
(* composition with the queue.                                             *)
LEMMA CDServerStepPreserves ==
    ASSUME TypeOK, ConnectedIsServed, QueueInv, RegistryInv, RegistryInv',
           [CDNext]_vars
    PROVE  TypeOK' /\ ConnectedIsServed'
<1>1. CASE [Next]_serverVars
    BY <1>1, TypeStep, ConnectedStep
<1>2. ASSUME NEW d \in Devices, NEW c \in Payloads, SendCommand(d, c)
      PROVE  TypeOK' /\ ConnectedIsServed'
    BY <1>2, SendTypes DEF ConnectedIsServed, registryVars
<1> QED
    BY <1>1, <1>2, CDNextIsServerStep

ServerInv == TypeOK /\ ConnectedIsServed

(* They hold in every state of the composed system.                       *)
LEMMA CDServerInvariance == CDSpec => []ServerInv
<1>1. CDInit => ServerInv
    <2>1. CDInit => RegistryTypeOK
        BY RegistryEmpty DEF CDInit, Init, RegistryInv
    <2> QED
        BY <2>1, BoundsAssumption DEF CDInit, Init, TypeOK, ConnectedIsServed, ServerInv
<1>2. /\ ServerInv /\ QueueInv /\ RegistryInv /\ RegistryInv' /\ [CDNext]_vars
      => ServerInv'
    BY CDServerStepPreserves DEF ServerInv
<1> QED
    BY <1>1, <1>2, QueueInvariance, CDRegistryInvariance, PTL DEF CDSpec

(* What arrives in an inbox stays there until it is read.                  *)
LEMMA WriteKeeps ==
    ASSUME TypeOK, NEW fd \in Fds, NEW p \in Packets, Write(fd, p),
           UNCHANGED <<handled, swallowed>>
    PROVE  Keeps /\ \A d \in Devices : sock[d] = fd => Met(d, p)'
<1>1. ASSUME NEW d \in Devices
      PROVE  /\ \A c : Met(d, c) => Met(d, c)'
             /\ sock[d] = fd => Met(d, p)'
    <2>1. inbox[d] \in Seq(Packets) /\ inbox'[d] \in Seq(Packets)
        BY WriteType DEF TypeOK
    <2>2. /\ Len(inbox[d]) \in Nat
          /\ DOMAIN inbox[d] = 1..Len(inbox[d])
          /\ DOMAIN inbox'[d] = 1..Len(inbox'[d])
        BY <2>1, LenProperties
    <2>3. CASE sock[d] = fd
        <3>1. inbox'[d] = Append(inbox[d], p)
            BY <2>3 DEF Write
        <3>2. /\ Len(inbox'[d]) = Len(inbox[d]) + 1
              /\ \A i \in 1..Len(inbox[d]) : inbox'[d][i] = inbox[d][i]
              /\ inbox'[d][Len(inbox[d]) + 1] = p
            BY <2>1, <3>1, AppendProperties
        <3>3. /\ DOMAIN inbox[d] \subseteq DOMAIN inbox'[d]
              /\ Len(inbox[d]) + 1 \in DOMAIN inbox'[d]
            BY <2>2, <3>2
        <3> QED
            BY <2>2, <3>2, <3>3 DEF Met
    <2>4. CASE sock[d] # fd
        <3>1. inbox'[d] = inbox[d]
            BY <2>4 DEF Write
        <3> QED
            BY <2>4, <3>1 DEF Met
    <2> QED
        BY <2>3, <2>4
<1> QED
    BY <1>1 DEF Keeps

(* The copies that a broadcast appends to an inbox are packets.            *)
LEMMA BroadcastKeeps ==
    ASSUME TypeOK, NEW sender, NEW p \in Packets, Broadcast(sender, p),
           UNCHANGED <<handled, swallowed>>
    PROVE  Keeps
<1> DEFINE Reached(d) == {n \in BroadcastNodes(sender) :
                            registry[n].socket = sock[d]}
           copies(d) == [i \in 1..Cardinality(Reached(d)) |-> p]
<1>1. registry \in Seq(Nodes)
    BY DEF TypeOK, RegistryTypeOK, Nodes
<1>2. ASSUME NEW d \in Devices, NEW c, Met(d, c)
      PROVE  Met(d, c)'
    <2>1. IsFiniteSet(BroadcastNodes(sender))
        BY <1>1, NodesOfFinite, FS_EmptySet DEF BroadcastNodes
    <2>2. Cardinality(Reached(d)) \in Nat
        BY <2>1, FS_Subset, FS_CardinalityType
    <2>3. copies(d) \in [1..Cardinality(Reached(d)) -> Packets]
        OBVIOUS
    <2>4. copies(d) \in Seq(Packets) /\ inbox[d] \in Seq(Packets)
        <3>1. copies(d) \in Seq(Packets)
            BY <2>2, <2>3, SeqDef
        <3>2. inbox[d] \in Seq(Packets)
            BY DEF TypeOK
        <3> QED
            BY <3>1, <3>2
    <2>5. inbox'[d] = inbox[d] \o copies(d)
        BY DEF Broadcast
    <2> HIDE DEF copies
    <2>6. /\ Len(inbox[d]) \in Nat /\ Len(copies(d)) \in Nat
          /\ DOMAIN inbox[d] = 1..Len(inbox[d])
          /\ DOMAIN inbox'[d] = 1..(Len(inbox[d]) + Len(copies(d)))
          /\ \A i \in 1..Len(inbox[d]) : inbox'[d][i] = inbox[d][i]
        <3>1. /\ inbox'[d] \in Seq(Packets)
              /\ Len(inbox'[d]) = Len(inbox[d]) + Len(copies(d))
              /\ \A i \in 1..(Len(inbox[d]) + Len(copies(d))) : inbox'[d][i] =
                     IF i <= Len(inbox[d]) THEN inbox[d][i]
                                           ELSE copies(d)[i - Len(inbox[d])]
            BY <2>4, <2>5, ConcatProperties
        <3>2. /\ Len(inbox[d]) \in Nat /\ Len(copies(d)) \in Nat
              /\ DOMAIN inbox[d] = 1..Len(inbox[d])
              /\ DOMAIN inbox'[d] = 1..Len(inbox'[d])
            BY <2>4, <3>1, LenProperties
        <3> QED
            BY <3>1, <3>2
    <2> QED
        BY <1>2, <2>6 DEF Met
<1> QED
    BY <1>2 DEF Keeps

(* Reading moves a packet from the inbox to what was handled or swallowed. *)
LEMMA ReadKeeps ==
    ASSUME TypeOK, NEW d \in Devices, ReadGreeting(d) \/ OnMessage(d)
    PROVE  Keeps
<1>1. inbox[d] \in Seq(Packets) /\ inbox[d] # <<>>
    BY DEF TypeOK, ReadGreeting, OnMessage
<1>2. /\ inbox'[d] = Tail(inbox[d])
      /\ Head(inbox[d]) \in handled'[d] \union swallowed'[d]
      /\ handled[d] \union swallowed[d] \subseteq handled'[d] \union swallowed'[d]
      /\ \A e \in Devices \ {d} : /\ inbox'[e] = inbox[e]
                                  /\ handled'[e] = handled[e]
                                  /\ swallowed'[e] = swallowed[e]
    BY DEF ReadGreeting, OnMessage, TypeOK
<1>3. /\ Len(inbox[d]) \in Nat /\ Len(Tail(inbox[d])) = Len(inbox[d]) - 1
      /\ DOMAIN inbox[d] = 1..Len(inbox[d])
      /\ DOMAIN Tail(inbox[d]) = 1..(Len(inbox[d]) - 1)
      /\ \A i \in 1..Len(Tail(inbox[d])) : Tail(inbox[d])[i] = inbox[d][i + 1]
      /\ Head(inbox[d]) = inbox[d][1]
    BY <1>1, HeadTailProperties, LenProperties
<1>4. ASSUME NEW c, Met(d, c)
      PROVE  Met(d, c)'
    <2>1. CASE c \in handled[d] \union swallowed[d]
        BY <1>2, <2>1 DEF Met
    <2>2. ASSUME NEW i \in DOMAIN inbox[d], inbox[d][i] = c
          PROVE  Met(d, c)'
        <3>1. CASE i = 1
            BY <1>2, <1>3, <2>2, <3>1 DEF Met
        <3>2. CASE i # 1
            <4>1. i - 1 \in 1..(Len(inbox[d]) - 1)
                BY <1>3, <3>2
            <4>2. Tail(inbox[d])[i - 1] = c
                BY <1>3, <2>2, <4>1
            <4> QED
                BY <1>2, <1>3, <4>1, <4>2 DEF Met
        <3> QED
            BY <3>1, <3>2
    <2> QED
        BY <1>4, <2>1, <2>2 DEF Met
<1> QED
    BY <1>2, <1>4 DEF Keeps, Met

(* While nothing has failed, a running thread serves its client's current  *)
(* connection, so a step of the server leaves nobody behind and loses      *)
(* nothing.                                                                *)
LEMMA CalmRegistryStep ==
    ASSUME TypeOK, ConnectedIsServed, NoneLeft, NEW fd \in Fds,
           HandlerStep(fd) \/ OnConnectReturns(fd)
    PROVE  NoneLeft' /\ Keeps
<1>1. /\ pc \in [Fds -> HandlerStates]
      /\ \A f \in Fds : pc[f] # "free" => device[f] \in Devices
      /\ registry \in Seq(Nodes)
    BY DEF TypeOK, RegistryTypeOK, Nodes
<1>2. /\ pc[fd] \in {"recv_id", "announce", "on_connect", "greet", "serve"}
      /\ device[fd] \in Devices
      /\ sock[device[fd]] = fd
    <2>1. pc[fd] # "free"
        BY DEF HandlerStep, Register, RecvIdFails, AnnounceOnline, SendHello,
               Unregister, AnnounceOffline, Retire, CloseSocket, OnConnectReturns
    <2> QED
        BY <1>1, <2>1, FdsAssumption DEF NoneLeft, ConnectedIsServed
<1>3. ~PeerGone(fd)
    BY <1>2 DEF PeerGone
<1>4. CASE Register(fd)
    <2> DEFINE node == Node(device[fd], fd)
    <2>1. registry' = <<node>> \o registry
        BY <1>4 DEF Register, AddClient
    <2>2. node \in Nodes /\ <<node>> \in Seq(Nodes) /\ Len(<<node>>) = 1
          /\ <<node>>[1] = node
        BY <1>2 DEF Nodes, Node
    <2> HIDE DEF node
    <2>3. /\ registry' \in Seq(Nodes)
          /\ Len(registry') = 1 + Len(registry)
          /\ \A i \in 1..(1 + Len(registry)) : registry'[i] =
                 IF i <= 1 THEN node ELSE registry[i - 1]
        BY <1>1, <2>1, <2>2, ConcatProperties
    <2>4. /\ Len(registry) \in Nat
          /\ DOMAIN registry = 1..Len(registry)
          /\ DOMAIN registry' = 1..(1 + Len(registry))
        BY <1>1, <2>3, LenProperties
    <2>5. sock[node.device] = node.socket
        BY <1>2 DEF node, Node
    <2>6. \A i \in DOMAIN registry' : sock[registry'[i].device] = registry'[i].socket
        <3> TAKE i \in DOMAIN registry'
        <3>1. CASE i = 1
            BY <2>3, <2>4, <2>5, <3>1
        <3>2. CASE i # 1
            <4>1. registry'[i] = registry[i - 1] /\ i - 1 \in DOMAIN registry
                BY <2>3, <2>4, <3>2
            <4> QED
                BY <4>1 DEF NoneLeft
        <3> QED
            BY <3>1, <3>2
    <2>7. UNCHANGED <<device, client, sock, inbox, handled, swallowed>>
        BY <1>4 DEF Register, clientVars
    <2>8. \A f \in Fds : pc'[f] # "free" => pc[f] # "free"
        BY <1>1, <1>4 DEF Register
    <2>9. NoneLeft'
        BY <2>6, <2>7, <2>8 DEF NoneLeft
    <2> QED
        BY <2>7, <2>9 DEF Keeps, Met
<1>5. CASE AnnounceOnline(fd) \/ SendHello(fd) \/ OnConnectReturns(fd)
    <2>1. UNCHANGED <<registry, device, client, sock, handled, swallowed>>
        BY <1>5 DEF AnnounceOnline, SendHello, OnConnectReturns, clientVars
    <2>2. \A f \in Fds : pc'[f] # "free" => pc[f] # "free"
        BY <1>1, <1>5 DEF AnnounceOnline, SendHello, OnConnectReturns
    <2>3. NoneLeft'
        BY <2>1, <2>2 DEF NoneLeft
    <2>4. Keeps
        <3>1. Hello \in Packets /\ Notice \in Packets
            BY DEF Packets
        <3>2. CASE AnnounceOnline(fd)
            BY <2>1, <3>1, <3>2, BroadcastKeeps DEF AnnounceOnline
        <3>3. CASE SendHello(fd)
            BY <2>1, <3>1, <3>3, WriteKeeps DEF SendHello
        <3>4. CASE OnConnectReturns(fd)
            BY <3>4 DEF OnConnectReturns, clientVars, Keeps, Met
        <3> QED
            BY <1>5, <3>2, <3>3, <3>4
    <2> QED
        BY <2>3, <2>4
<1> QED
    BY <1>2, <1>3, <1>4, <1>5
    DEF HandlerStep, RecvIdFails, Unregister, AnnounceOffline, Retire, CloseSocket

(* A client that dials was not connected, so nobody serves it yet; a       *)
(* client that listens is not disconnected by the server.                  *)
LEMMA CalmClientStep ==
    ASSUME TypeOK, ConnectedIsServed, NoneLeft, NEW d \in Devices, ClientStep(d)
    PROVE  NoneLeft' /\ Keeps
<1>1. /\ sock \in [Devices -> Fds \union {NoFd}]
      /\ client \in [Devices -> {"down", "greeting", "listening"}]
      /\ pc \in [Fds -> HandlerStates]
      /\ device \in [Fds -> Devices \union {NoDevice}]
      /\ registry \in Seq(Nodes)
      /\ \A f \in Fds : pc[f] # "free" => device[f] \in Devices
    BY DEF TypeOK, RegistryTypeOK, Nodes
<1>2. ASSUME NEW fd \in Fds, Connect(d, fd)
      PROVE  NoneLeft' /\ Keeps
    <2>1. sock[d] = NoFd /\ client[d] = "down" /\ pc[fd] = "free"
        BY <1>2 DEF Connect, NoneLeft
    <2>2. /\ client' = [client EXCEPT ![d] = "greeting"]
          /\ sock' = [sock EXCEPT ![d] = fd]
          /\ pc' = [pc EXCEPT ![fd] = "recv_id"]
          /\ device' = [device EXCEPT ![fd] = d]
          /\ UNCHANGED <<registry, inbox, handled, swallowed>>
        BY <1>2 DEF Connect
    <2>3. \A f \in Fds : pc[f] # "free" => device[f] # d
        BY <2>1, FdsAssumption DEF NoneLeft
    <2>4. \A i \in DOMAIN registry : registry[i].device # d /\ registry[i].device \in Devices
        <3> TAKE i \in DOMAIN registry
        <3>1. registry[i] \in Nodes
            BY <1>1, LenProperties, ElementOfSeq
        <3> QED
            BY <2>1, <3>1, FdsAssumption DEF NoneLeft, Nodes
    <2>5. \A f \in Fds : pc'[f] # "free" => sock'[device'[f]] = f
        BY <1>1, <2>1, <2>2, <2>3 DEF NoneLeft
    <2>6. \A i \in DOMAIN registry' : sock'[registry'[i].device] = registry'[i].socket
        BY <1>1, <2>2, <2>4 DEF NoneLeft
    <2>7. \A e \in Devices : (client'[e] = "down") <=> (sock'[e] = NoFd)
        BY <1>1, <2>2, FdsAssumption DEF NoneLeft
    <2>8. NoneLeft'
        BY <2>5, <2>6, <2>7 DEF NoneLeft
    <2> QED
        BY <2>2, <2>8 DEF Keeps, Met
<1>3. CASE ReadGreeting(d) \/ OnMessage(d)
    <2>1. UNCHANGED <<registry, pc, device, sock>>
        BY <1>3 DEF ReadGreeting, OnMessage, registryVars
    <2>2. \A e \in Devices : (client'[e] = "down") <=> (client[e] = "down")
        BY <1>1, <1>3 DEF ReadGreeting, OnMessage
    <2>3. NoneLeft'
        BY <2>1, <2>2 DEF NoneLeft
    <2> QED
        BY <1>3, <2>3, ReadKeeps
<1>4. ~ConnectionClosed(d)
    BY DEF ConnectionClosed, NoneLeft
<1> QED
    BY <1>2, <1>3, <1>4 DEF ClientStep

(* A command that is sent joins the inbox of the device it was sent to:    *)
(* the first node that names the device has its current connection.        *)
LEMMA CalmSendCommand ==
    ASSUME TypeOK, NoneLeft, NEW d \in Devices, NEW c \in Payloads,
           SendCommand(d, c)
    PROVE  NoneLeft' /\ Keeps /\ (Listed(d) => Met(d, c)')
<1>1. UNCHANGED <<registryVars, client, sock, handled, swallowed>>
    BY DEF SendCommand
<1>2. NoneLeft'
    BY <1>1 DEF NoneLeft, registryVars
<1>3. CASE Listed(d)
    <2>1. registry \in Seq(Nodes)
        BY DEF TypeOK, RegistryTypeOK, Nodes
    <2>2. FirstNode(registry, d) \in NodesOf(registry, d)
        BY <1>3, <2>1, FirstNodeIsNode DEF Listed
    <2>3. sock[d] = Route(d)
        BY <2>2 DEF NoneLeft, Route, NodesOf
    <2>4. Route(d) \in Fds
        <3>1. registry[FirstNode(registry, d)] \in Nodes
            BY <2>1, <2>2, LenProperties, ElementOfSeq DEF NodesOf
        <3> QED
            BY <3>1 DEF Nodes, Route
    <2>5. Write(Route(d), c) /\ c \in Packets
        BY <1>3 DEF SendCommand, SendToDevice, Packets
    <2> QED
        BY <1>1, <1>2, <2>3, <2>4, <2>5, WriteKeeps
<1>4. CASE ~Listed(d)
    BY <1>1, <1>2, <1>4 DEF SendCommand, SendToDevice, Keeps, Met
<1> QED
    BY <1>3, <1>4

(* A command stays addressed to the device it was recorded for.            *)
LEMMA RowsKeepDevice ==
    ASSUME QueueInv, RegistryInv, [CDNext]_vars
    PROVE  \A k \in DOMAIN rows : rows'[k].device = rows[k].device
<1>1. rows \in Seq(Row) /\ DOMAIN rows = 1..Len(rows)
    BY LenProperties DEF QueueInv, CommandTypeOK
<1>2. ASSUME NEW d \in Devices, CreateCommand(d) \/ CreateFails(d)
      PROVE  \A k \in DOMAIN rows : rows'[k] = rows[k]
    <2> PICK s \in {"PENDING", "UNSAVED"} : rows' = Append(rows, [device |-> d, status |-> s])
        BY <1>2 DEF CreateCommand, CreateFails
    <2> DEFINE new == [device |-> d, status |-> s]
    <2>1. new \in Row /\ rows' = Append(rows, new)
        BY DEF Row
    <2> HIDE DEF new
    <2> QED
        BY <1>1, <2>1, AppendProperties
<1>3. ASSUME NEW c, NEW s, rows' = [rows EXCEPT ![c].status = s]
      PROVE  \A k \in DOMAIN rows : rows'[k].device = rows[k].device
    <2>1. \A k \in 1..Len(rows) : rows[k] \in Row
        BY <1>1, ElementOfSeq
    <2> QED
        BY <1>1, <1>3, <2>1 DEF Row
<1>4. ASSUME NEW fd \in Fds, QueueStep(fd)
      PROVE  \A k \in DOMAIN rows : rows'[k].device = rows[k].device
    BY <1>3, <1>4 DEF QueueStep, QueryPending, QueryFails, NothingPending, SendNext,
                      SaveNext, SaveNextFails, QueueDone, commandVars
<1>5. ASSUME NEW c \in Payloads, SenderStep(c)
      PROVE  \A k \in DOMAIN rows : rows'[k].device = rows[k].device
    BY <1>3, <1>5 DEF SenderStep, TrySendImmediately, SaveSent, SaveSentFails
<1>6. CASE UNCHANGED rows
    BY <1>6
<1> QED
    BY <1>2, <1>4, <1>5, <1>6 DEF CDNext, Crash, commandVars, vars

(* A drain works through rows of the device that its thread serves.        *)
LEMMA DrainOfOwnRowsStep ==
    ASSUME DrainOfOwnRows, QueueInv, RegistryInv, [CDNext]_vars
    PROVE  DrainOfOwnRows'
<1>1. /\ job \in [Fds -> JobStates]
      /\ batch \in [Fds -> SUBSET DOMAIN rows]
      /\ device \in [Fds -> Devices \union {NoDevice}]
    BY DEF QueueInv, CommandTypeOK, RegistryInv, RegistryTypeOK
<1>2. \A k \in DOMAIN rows : rows'[k].device = rows[k].device
    BY RowsKeepDevice
<1>3. ASSUME UNCHANGED <<job, batch, device>>
      PROVE  DrainOfOwnRows'
    BY <1>1, <1>2, <1>3 DEF DrainOfOwnRows
<1>4. \A fd \in Fds : pc[fd] # "on_connect" => batch[fd] = {}
    BY DEF QueueInv, DrainInCallback, DrainOfOwnRows
<1>5. ASSUME NEW fd \in Fds, UNCHANGED <<job, batch>>, pc[fd] # "on_connect",
             \A f \in Fds \ {fd} : device'[f] = device[f]
      PROVE  DrainOfOwnRows'
    BY <1>1, <1>2, <1>4, <1>5 DEF DrainOfOwnRows
<1>6. ASSUME NEW fd \in Fds, HandlerStep(fd), UNCHANGED commandVars
      PROVE  DrainOfOwnRows'
    <2>1. CASE RecvIdFails(fd) \/ CloseSocket(fd)
        BY <1>1, <1>5, <1>6, <2>1 DEF RecvIdFails, CloseSocket, commandVars
    <2>2. CASE UNCHANGED device
        BY <1>3, <1>6, <2>2 DEF commandVars
    <2> QED
        BY <1>6, <2>1, <2>2
        DEF HandlerStep, Register, AnnounceOnline, SendHello, Unregister,
            AnnounceOffline, Retire
<1>7. ASSUME NEW d \in Devices, ClientStep(d) \/ Drop(d), UNCHANGED commandVars
      PROVE  DrainOfOwnRows'
    <2>1. ASSUME NEW fd \in Fds, Connect(d, fd)
          PROVE  DrainOfOwnRows'
        BY <1>1, <1>5, <1>7, <2>1 DEF Connect, commandVars
    <2>2. CASE UNCHANGED device
        BY <1>3, <1>7, <2>2 DEF commandVars
    <2> QED
        BY <1>7, <2>1, <2>2
        DEF ClientStep, ReadGreeting, OnMessage, ConnectionClosed, Drop, registryVars
<1>8. ASSUME NEW fd \in Fds, QueueStep(fd)
      PROVE  DrainOfOwnRows'
    <2>1. UNCHANGED device
        BY <1>8 DEF QueueStep, QueryPending, QueryFails, NothingPending, SendNext,
                    SaveNext, SaveNextFails, QueueDone, SendCommand,
                    OnConnectReturns, serverVars, registryVars
    <2>2. CASE QueryPending(fd)
        <3>1. \A k \in Pending(device[fd]) : k \in DOMAIN rows /\ rows[k].device = device[fd]
            BY DEF Pending
        <3>2. /\ batch' = [batch EXCEPT ![fd] = Pending(device[fd])]
              /\ job' = [job EXCEPT ![fd] = "send"]
            BY <2>2 DEF QueryPending
        <3> QED
            BY <1>1, <1>2, <2>1, <3>1, <3>2 DEF DrainOfOwnRows
    <2>3. CASE QueryFails(fd) \/ NothingPending(fd)
        BY <1>3, <2>1, <2>3 DEF QueryFails, NothingPending, commandVars
    <2>4. CASE SendNext(fd)
        <3>1. job'[fd] # "query" /\ batch' = batch
              /\ \A f \in Fds \ {fd} : job'[f] = job[f]
            BY <1>1, <2>4 DEF SendNext
        <3> QED
            BY <1>1, <1>2, <2>1, <3>1 DEF DrainOfOwnRows
    <2>5. CASE SaveNext(fd) \/ SaveNextFails(fd)
        <3>1. /\ job' = [job EXCEPT ![fd] = "send"]
              /\ \A f \in Fds : batch'[f] \subseteq batch[f]
            BY <1>1, <2>5 DEF SaveNext, SaveNextFails
        <3> QED
            BY <1>1, <1>2, <2>1, <3>1 DEF DrainOfOwnRows
    <2>6. CASE QueueDone(fd)
        <3>1. /\ job' = [job EXCEPT ![fd] = "query"]
              /\ batch' = batch /\ batch[fd] = {}
            BY <2>6 DEF QueueDone
        <3> QED
            BY <1>1, <1>2, <2>1, <3>1 DEF DrainOfOwnRows
    <2> QED
        BY <1>8, <2>2, <2>3, <2>4, <2>5, <2>6 DEF QueueStep
<1>9. ASSUME NEW d \in Devices, CreateCommand(d) \/ CreateFails(d)
      PROVE  DrainOfOwnRows'
    BY <1>3, <1>9 DEF CreateCommand, CreateFails, serverVars, registryVars
<1>11. ASSUME NEW c \in Payloads, SenderStep(c)
      PROVE  DrainOfOwnRows'
    BY <1>3, <1>11 DEF SenderStep, TrySendImmediately, SaveSent, SaveSentFails,
                       SendCommand, serverVars, registryVars
<1>12. CASE Crash
    BY <1>12 DEF Crash, DrainOfOwnRows
<1>13. CASE UNCHANGED vars
    BY <1>3, <1>13 DEF vars, commandVars, serverVars, registryVars
<1> QED
    BY <1>6, <1>7, <1>8, <1>9, <1>11, <1>12, <1>13 DEF CDNext

(* While nothing has failed, a step of the notification server leaves      *)
(* nobody behind and loses nothing.                                        *)
LEMMA CalmServerStep ==
    ASSUME TypeOK, ConnectedIsServed, Calm', Calm => NoneLeft, [Next]_serverVars
    PROVE  Calm /\ NoneLeft' /\ Keeps
<1>1. Calm
    BY BoundsAssumption
    DEF TypeOK, Calm, Next, HandlerStep, Register, RecvIdFails, AnnounceOnline,
        SendHello, Unregister, AnnounceOffline, Retire, CloseSocket,
        OnConnectReturns, ClientStep, Connect, ReadGreeting, OnMessage,
        ConnectionClosed, Drop, ServerCrash, serverVars, budgetVars
<1>2. ~ServerCrash /\ \A d \in Devices : ~Drop(d)
    BY <1>1 DEF Calm, ServerCrash, Drop
<1>3. CASE UNCHANGED serverVars
    BY <1>1, <1>3 DEF NoneLeft, Keeps, Met, serverVars, registryVars, clientVars
<1> QED
    BY <1>1, <1>2, <1>3, CalmRegistryStep, CalmClientStep DEF Next

(* The invariant that the theorem needs: whatever was reported as sent is  *)
(* met by the device it is for.                                            *)
NothingLost == \A c \in written : Met(rows[c].device, c)

CalmInv == DrainOfOwnRows /\ (Calm => NoneLeft /\ NothingLost)

(* Only the sends of the queue add to what was reported as sent: a sender  *)
(* or a drain, each to the device of the row.                              *)
LEMMA WrittenGrowsBySends ==
    ASSUME DrainOfOwnRows, QueueInv, RegistryInv, [CDNext]_vars
    PROVE  \/ written' = written
           \/ \E c \in Payloads :
                /\ rows[c].device \in Devices
                /\ SendCommand(rows[c].device, c)
                /\ c \in DOMAIN rows
<1>1. /\ rows \in Seq(Row) /\ DOMAIN rows = 1..Len(rows)
      /\ DOMAIN rows \subseteq Payloads
    BY LenProperties, PayloadsAssumption DEF QueueInv, CommandTypeOK
<1>2. \A k \in DOMAIN rows : rows[k].device \in Devices
    <2> TAKE k \in DOMAIN rows
    <2>1. rows[k] \in Row
        BY <1>1, ElementOfSeq
    <2> QED
        BY <2>1 DEF Row
<1>3. ASSUME NEW fd \in Fds, SendNext(fd)
      PROVE  \E c \in Payloads : /\ rows[c].device \in Devices
                                 /\ SendCommand(rows[c].device, c)
                                 /\ c \in DOMAIN rows
    <2>1. NextKey(fd) \in batch[fd] /\ NextKey(fd) \in DOMAIN rows
        BY <1>3, NextKeyInBatch DEF SendNext, QueueInv
    <2>2. rows[NextKey(fd)].device = device[fd]
        BY <2>1 DEF DrainOfOwnRows
    <2> QED
        BY <1>1, <1>2, <1>3, <2>1, <2>2 DEF SendNext
<1>4. ASSUME NEW c \in Payloads, TrySendImmediately(c)
      PROVE  /\ rows[c].device \in Devices
             /\ SendCommand(rows[c].device, c)
             /\ c \in DOMAIN rows
    BY <1>2, <1>4 DEF TrySendImmediately, QueueInv, CommandTypeOK
<1> QED
    BY <1>3, <1>4
    DEF CDNext, QueueStep, QueryPending, QueryFails, NothingPending, SaveNext,
        SaveNextFails, QueueDone, SenderStep, SaveSent, SaveSentFails,
        CreateCommand, CreateFails, Crash, commandVars, vars

(* Every step keeps the invariant.                                         *)
LEMMA CalmStep ==
    ASSUME CalmInv, ServerInv, QueueInv, RegistryInv, [CDNext]_vars
    PROVE  CalmInv'
<1>1. DrainOfOwnRows'
    BY DrainOfOwnRowsStep DEF CalmInv
<1>2. \A k \in written : k \in DOMAIN rows /\ rows[k].device \in Devices
                         /\ rows'[k].device = rows[k].device
    <2> TAKE k \in written
    <2>1. k \in DOMAIN rows /\ rows \in Seq(Row) /\ DOMAIN rows = 1..Len(rows)
        BY LenProperties DEF QueueInv, CommandTypeOK
    <2>2. rows[k] \in Row
        BY <2>1, ElementOfSeq
    <2> QED
        BY <2>1, <2>2, RowsKeepDevice DEF Row
<1>3. ASSUME Calm', Calm, Keeps, written' = written, NothingLost
      PROVE  NothingLost'
    BY <1>2, <1>3 DEF NothingLost, Keeps
<1>4. ASSUME Calm'
      PROVE  NoneLeft' /\ NothingLost'
    <2>1. ASSUME NEW c \in Payloads, c \in DOMAIN rows,
                 rows[c].device \in Devices, SendCommand(rows[c].device, c)
          PROVE  NoneLeft' /\ NothingLost'
        <3>1. Calm
            BY <1>4, <2>1 DEF Calm, SendCommand, budgetVars
        <3>2. /\ NoneLeft' /\ Keeps
              /\ Listed(rows[c].device) => Met(rows[c].device, c)'
            <4>1. PICK d \in Devices : d = rows[c].device
                BY <2>1
            <4>2. SendCommand(d, c)
                BY <2>1, <4>1
            <4>3. NoneLeft' /\ Keeps /\ (Listed(d) => Met(d, c)')
                BY <3>1, <4>2, CalmSendCommand DEF CalmInv, ServerInv
            <4>4. rows'[c].device = d
                BY <2>1, <4>1, RowsKeepDevice
            <4> QED
                BY <4>1, <4>3, <4>4 DEF Met
        <3>3. written' = IF Listed(rows[c].device) THEN written \union {c} ELSE written
            BY <2>1 DEF SendCommand
        <3>4. rows'[c].device = rows[c].device
            BY <2>1, RowsKeepDevice
        <3> QED
            BY <1>2, <3>1, <3>2, <3>3, <3>4 DEF NothingLost, Keeps, CalmInv
    <2>2. CASE written' = written
        <3>1. CASE [Next]_serverVars
            <4>1. Calm /\ NoneLeft' /\ Keeps
                BY <1>4, <3>1, CalmServerStep DEF CalmInv, ServerInv
            <4> QED
                BY <1>3, <1>4, <2>2, <4>1 DEF CalmInv
        <3>2. ASSUME NEW d \in Devices, NEW c \in Payloads, SendCommand(d, c)
              PROVE  NoneLeft' /\ NothingLost'
            <4>1. Calm
                BY <1>4, <3>2 DEF Calm, SendCommand, budgetVars
            <4>2. NoneLeft' /\ Keeps
                BY <3>2, <4>1, CalmSendCommand DEF CalmInv, ServerInv
            <4> QED
                BY <1>3, <1>4, <2>2, <4>1, <4>2 DEF CalmInv
        <3> QED
            BY <3>1, <3>2, CDNextIsServerStep
    <2> QED
        BY <2>1, <2>2, WrittenGrowsBySends DEF CalmInv
<1> QED
    BY <1>1, <1>4 DEF CalmInv

(* Nothing a device was sent is lost while no connection has broken and    *)
(* the server has not crashed: the interleavings of senders, drains and    *)
(* handler threads lose nothing by themselves.                             *)
THEOREM NothingLostInCalm == CDSpec => []NothingLostWhileConnected
<1>1. CDInit => CalmInv
    BY FdsAssumption
    DEF CDInit, AtRest, Init, CalmInv, DrainOfOwnRows, NoneLeft, NothingLost
<1>2. CalmInv /\ ServerInv /\ QueueInv /\ RegistryInv /\ [CDNext]_vars => CalmInv'
    BY CalmStep
<1>3. CalmInv => NothingLostWhileConnected
    BY DEF CalmInv, Calm, NothingLost, Met, NothingLostWhileConnected
<1> QED
    BY <1>1, <1>2, <1>3, CDServerInvariance, QueueInvariance,
       CDRegistryInvariance, PTL
    DEF CDSpec

(* The registry's invariants hold with the queue at work as well.          *)
THEOREM RegistryCorrectWithQueue ==
    CDSpec => [](NodePerThread /\ ServedIsListed /\ ActiveCoversThreads)
BY CDRegistryInvariance, RegistryInvImplies, PTL

(* So do the types of the server's state, and every connection keeps a     *)
(* thread of its own device while senders and drains write to it.          *)
THEOREM ServerCorrectWithQueue == CDSpec => [](TypeOK /\ ConnectedIsServed)
BY CDServerInvariance, PTL DEF ServerInv
=============================================================================
