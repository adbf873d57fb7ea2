--------------------------- MODULE CommandDelivery ---------------------------
(***************************************************************************)
(* Commands from the administrator to a device.  An API handler records    *)
(* the command in the commands table and a goroutine tries to send it      *)
(* (QueueGetLogs, UpdateConfig); the connect callback of a device's        *)
(* handler thread runs ProcessCommandQueue, which sends what is still      *)
(* PENDING.  Both write the whole row back.  Any call of the database may  *)
(* fail; the callers print the error or drop it, and go on.                *)
(*                                                                         *)
(* The table survives a crash of the server; senders and drains do not.    *)
(***************************************************************************)
EXTENDS NotificationServer

CONSTANTS
    MaxCommands,    \* bound: commands ever recorded
    MaxDbErrors     \* bound: calls of the database that fail

ASSUME PayloadsAssumption ==
    /\ MaxCommands \in Nat
    /\ Payloads = 1..MaxCommands
    /\ Hello \notin Payloads
    /\ Notice \notin Payloads

ASSUME DbErrorsAssumption == MaxDbErrors \in Nat

VARIABLES
    rows,     \* the commands in the order they were made, each with the row
              \* the table has of it; one whose insertion failed is UNSAVED
    sending,  \* commands a goroutine is about to try to send
    sent,     \* commands a goroutine sent and is about to save as SENT
    job,      \* what ProcessCommandQueue is doing in a handler thread
    batch,    \* keys of the rows it read and has not finished with
    written,  \* history: commands some send reported as delivered
    dbErrors, \* how often a call of the database has failed
    missed    \* history: commands a failed call was about that have been
              \* neither saved nor read from the table by a drain since

dbVars == <<dbErrors, missed>>
commandVars == <<rows, sending, sent, job, batch, written, dbVars>>
vars == <<serverVars, commandVars>>

JobStates == {"query", "send", "save_sent", "save_pending"}

\* Slip: reading the rows that were sent already.
PendingWrongStatus(d) ==
    {k \in DOMAIN rows : rows[k] = [device |-> d, status |-> "SENT"]}

Pending(d) == {k \in DOMAIN rows : rows[k] = [device |-> d, status |-> "PENDING"]}

\* The rows come back in key order, and are worked through in that order.
NextKey(fd) == CHOOSE k \in batch[fd] : \A j \in batch[fd] : k <= j

\* No goroutine and no drain is at work.
AtRest ==
    /\ sending = {}
    /\ sent = {}
    /\ job = [fd \in Fds |-> "query"]
    /\ batch = [fd \in Fds |-> {}]

CDInit ==
    /\ Init
    /\ rows = <<>>
    /\ AtRest
    /\ written = {}
    /\ dbErrors = 0 /\ missed = {}

\* A call of the database about the commands cs fails.
DbFails(cs) ==
    /\ dbErrors < MaxDbErrors
    /\ dbErrors' = dbErrors + 1
    /\ missed' = missed \union cs

\* Slip: reporting success without a node to write to.
SendCommandBlind(d, c) ==
    /\ SendToDevice(d, c)
    /\ written' = written \union {c}
    /\ UNCHANGED <<registryVars, client, sock, handled, swallowed,
                   budgetVars>>

(* The send that returns 1 as soon as a node is found.                     *)
SendCommand(d, c) ==
    /\ SendToDevice(d, c)
    /\ written' = IF Listed(d) THEN written \union {c} ELSE written
    /\ UNCHANGED <<registryVars, client, sock, handled, swallowed,
                   budgetVars>>

(***************************************************************************)
(* The API side: CreateCommand, then TrySendImmediately.                   *)
(***************************************************************************)
\* Slip: the goroutine gets the key before the insert has set it.
CreateCommandStaleKey(d) ==
    /\ Len(rows) < MaxCommands
    /\ rows' = Append(rows, [device |-> d, status |-> "PENDING"])
    /\ sending' = sending \union {Len(rows)}
    /\ UNCHANGED <<serverVars, sent, job, batch, written, dbVars>>

CreateCommand(d) ==
    /\ Len(rows) < MaxCommands
    /\ rows' = Append(rows, [device |-> d, status |-> "PENDING"])
    /\ sending' = sending \union {Len(rows) + 1}
    /\ UNCHANGED <<serverVars, sent, job, batch, written, dbVars>>

(* UpdateConfig drops the error of the insertion and sends the command all *)
(* the same; QueueGetLogs answers with the error, and there is no command. *)
CreateFails(d) ==
    /\ Len(rows) < MaxCommands
    /\ rows' = Append(rows, [device |-> d, status |-> "UNSAVED"])
    /\ sending' = sending \union {Len(rows) + 1}
    /\ DbFails({Len(rows) + 1})
    /\ UNCHANGED <<serverVars, sent, job, batch, written>>

\* Slip: saving SENT whatever the send returned.
TrySendImmediatelyUnchecked(c) ==
    /\ c \in sending
    /\ sending' = sending \ {c}
    /\ SendCommand(rows[c].device, c)
    /\ sent' = sent \union {c}
    /\ UNCHANGED <<rows, job, batch, dbVars>>

TrySendImmediately(c) ==
    /\ c \in sending
    /\ sending' = sending \ {c}
    /\ SendCommand(rows[c].device, c)
    /\ sent' = IF Listed(rows[c].device) THEN sent \union {c} ELSE sent
    /\ UNCHANGED <<rows, job, batch, dbVars>>

(* Save writes the row, and inserts the row of a command that has none.    *)
SaveSent(c) ==
    /\ c \in sent
    /\ sent' = sent \ {c}
    /\ rows' = [rows EXCEPT ![c].status = "SENT"]
    /\ missed' = missed \ {c}
    /\ UNCHANGED <<serverVars, sending, job, batch, written, dbErrors>>

SaveSentFails(c) ==
    /\ c \in sent
    /\ sent' = sent \ {c}
    /\ DbFails({c})
    /\ UNCHANGED <<serverVars, rows, sending, job, batch, written>>

(***************************************************************************)
(* ProcessCommandQueue, run by a handler thread in its connect callback:   *)
(* read the PENDING rows once, then for each row send and save it as it    *)
(* was read, its status changed only if the send succeeded.                *)
(***************************************************************************)
QueryPending(fd) ==
    /\ pc[fd] = "on_connect"
    /\ job[fd] = "query"
    /\ Pending(device[fd]) # {}
    /\ batch' = [batch EXCEPT ![fd] = Pending(device[fd])]
    /\ job' = [job EXCEPT ![fd] = "send"]
    /\ missed' = missed \ Pending(device[fd])
    /\ UNCHANGED <<serverVars, rows, sending, sent, written, dbErrors>>

\* An error is printed, and nothing is sent on this connection.
QueryFails(fd) ==
    /\ job[fd] = "query"
    /\ OnConnectReturns(fd)
    /\ DbFails(Pending(device[fd]))
    /\ UNCHANGED <<rows, sending, sent, job, batch, written>>

NothingPending(fd) ==
    /\ job[fd] = "query"
    /\ Pending(device[fd]) = {}
    /\ OnConnectReturns(fd)
    /\ UNCHANGED commandVars

SendNext(fd) ==
    /\ pc[fd] = "on_connect"
    /\ job[fd] = "send"
    /\ batch[fd] # {}
    /\ SendCommand(device[fd], NextKey(fd))
    /\ job' = [job EXCEPT ![fd] =
                 IF Listed(device[fd]) THEN "save_sent" ELSE "save_pending"]
    /\ UNCHANGED <<rows, sending, sent, batch, dbVars>>

SaveNext(fd) ==
    /\ pc[fd] = "on_connect"
    /\ job[fd] \in {"save_sent", "save_pending"}
    /\ rows' = [rows EXCEPT ![NextKey(fd)].status =
                  IF job[fd] = "save_sent" THEN "SENT" ELSE "PENDING"]
    /\ batch' = [batch EXCEPT ![fd] = @ \ {NextKey(fd)}]
    /\ job' = [job EXCEPT ![fd] = "send"]
    /\ UNCHANGED <<serverVars, sending, sent, written, dbVars>>

(* The row stays as it is, and the next one is sent.                       *)
SaveNextFails(fd) ==
    /\ pc[fd] = "on_connect"
    /\ job[fd] \in {"save_sent", "save_pending"}
    /\ DbFails({NextKey(fd)})
    /\ batch' = [batch EXCEPT ![fd] = @ \ {NextKey(fd)}]
    /\ job' = [job EXCEPT ![fd] = "send"]
    /\ UNCHANGED <<serverVars, rows, sending, sent, written>>

QueueDone(fd) ==
    /\ job[fd] = "send"
    /\ batch[fd] = {}
    /\ OnConnectReturns(fd)
    /\ job' = [job EXCEPT ![fd] = "query"]
    /\ UNCHANGED <<rows, sending, sent, batch, written, dbVars>>

Crash ==
    /\ ServerCrash
    /\ sending' = {}
    /\ sent' = {}
    /\ job' = [fd \in Fds |-> "query"]
    /\ batch' = [fd \in Fds |-> {}]
    /\ UNCHANGED <<rows, written, dbVars>>

(***************************************************************************)
QueueStep(fd) ==
    \/ QueryPending(fd) \/ QueryFails(fd) \/ NothingPending(fd)
    \/ SendNext(fd) \/ SaveNext(fd) \/ SaveNextFails(fd) \/ QueueDone(fd)

SenderStep(c) == TrySendImmediately(c) \/ SaveSent(c) \/ SaveSentFails(c)

CDNext ==
    \/ \E fd \in Fds : HandlerStep(fd) /\ UNCHANGED commandVars
    \/ \E fd \in Fds : QueueStep(fd)
    \/ \E d \in Devices : (ClientStep(d) \/ Drop(d)) /\ UNCHANGED commandVars
    \/ \E d \in Devices : CreateCommand(d) \/ CreateFails(d)
    \/ \E c \in Payloads : SenderStep(c)
    \/ Crash

CDSpec == CDInit /\ [][CDNext]_vars

(* Every thread keeps running, and a client keeps dialling and reading.    *)
(* Nothing obliges a connection to break, a server to crash or an          *)
(* administrator to issue commands.                                        *)
Fairness ==
    /\ \A fd \in Fds : WF_vars(HandlerStep(fd) /\ UNCHANGED commandVars)
    /\ \A fd \in Fds : WF_vars(QueueStep(fd))
    /\ \A d \in Devices : WF_vars(ClientStep(d) /\ UNCHANGED commandVars)
    /\ \A c \in Payloads : WF_vars(SenderStep(c))

FairSpec == CDSpec /\ Fairness

(***************************************************************************)
(* Properties.                                                             *)
(***************************************************************************)
Row == [device : Devices, status : {"UNSAVED", "PENDING", "SENT"}]

(* Types, and that every key a thread holds is the key of a row.           *)
CommandTypeOK ==
    /\ rows \in Seq(Row)
    /\ Len(rows) <= MaxCommands
    /\ sending \subseteq DOMAIN rows
    /\ sent \subseteq DOMAIN rows
    /\ written \subseteq DOMAIN rows
    /\ job \in [Fds -> JobStates]
    /\ batch \in [Fds -> SUBSET DOMAIN rows]
    /\ dbErrors \in 0..MaxDbErrors
    /\ missed \subseteq DOMAIN rows

(* ProcessCommandQueue's comment wonders whether SendToDevice can fail     *)
(* right after the callback said "I am here".  It cannot: the thread's     *)
(* device stays on the list while the callback runs, even when an older    *)
(* thread of the same device removes a node meanwhile, so a row is never   *)
(* saved back as PENDING over a SENT saved by a sender in between.         *)
DrainNeverFails == \A fd \in Fds : job[fd] # "save_pending"

(* While no connection has broken and no server crashed, a command that    *)
(* was reported as sent is where its device will read it, or was read by   *)
(* it: handler threads, senders and reconnections lose nothing themselves. *)
NothingLostWhileConnected ==
    drops = 0 /\ crashes = 0 =>
        \A c \in written :
            \/ c \in handled[rows[c].device] \union swallowed[rows[c].device]
            \/ \E i \in DOMAIN inbox[rows[c].device] : inbox[rows[c].device][i] = c

(* The table keeps the promise of CommandQueue: SENT only after a send,    *)
(* and never back to PENDING.                                              *)
Queue == INSTANCE CommandQueue WITH rows <- rows, written <- written
KeepsQueuePromise == Queue!Spec

(* Every command ends as SENT: the check of the list and the query of the  *)
(* table cannot both miss it, and what a crash of the server leaves        *)
(* PENDING is sent when the device reconnects.  The exception is a command *)
(* that a call of the database failed for: its insertion, the query of a   *)
(* drain, or the saving of its status.  The next drain that reads it from  *)
(* the table makes up for that, but nothing makes the device reconnect.    *)
EventuallySent ==
    <>[](\A c \in DOMAIN rows : rows[c].status = "SENT" \/ c \in missed)

(* "Register callback for incoming messages" (client/core.h): a command    *)
(* that a client read was given to its on_message callback.                *)
CommandsReachCallback == \A d \in Devices : swallowed[d] \intersect Payloads = {}

(* "Send message to specific client" (server/core.h): a device is given    *)
(* commands recorded for it and no others.                                 *)
OnlyItsOwnCommands ==
    \A d \in Devices : \A c \in handled[d] \intersect Payloads : rows[c].device = d
=============================================================================
