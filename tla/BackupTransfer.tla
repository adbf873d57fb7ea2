--------------------------- MODULE BackupTransfer ---------------------------
(***************************************************************************)
(* The upload of one monitored file of one device: the worker of the       *)
(* device (backupFile), which makes one API request at a time, and the     *)
(* server's handlers for the five backup requests.  The server runs each   *)
(* request in a thread of its own, which goes on when the worker has given *)
(* up waiting.  Sessions, snapshots and stored files survive a crash.      *)
(*                                                                         *)
(* The file is a sequence of units.  The first unit stands for the 64 KB   *)
(* that the head hash covers, and a chunk is one unit.  A hash is          *)
(* represented by what was hashed: equal hashes, equal contents.           *)
(***************************************************************************)
EXTENDS Integers, FiniteSets, Sequences

CONSTANTS
    Values,       \* what a unit may hold
    Hole,         \* a unit of a stored file that was never written
    Threads,      \* request threads the server may run at a time
    NoThread,
    MaxSize,      \* bound: units of the file
    MaxEdits,     \* bound: changes of the local file
    MaxFailures,  \* bound: requests lost or timed out
    MaxRestarts,  \* bound: restarts of the device or the server
    MaxSessions   \* bound: rows of backup_sessions

ASSUME ThreadsAssumption == IsFiniteSet(Threads) /\ NoThread \notin Threads
ASSUME ValuesAssumption == Values # {} /\ Hole \notin Values
ASSUME BoundsAssumption ==
    /\ MaxSize \in Nat /\ MaxEdits \in Nat /\ MaxFailures \in Nat
    /\ MaxRestarts \in Nat /\ MaxSessions \in Nat \ {0}

VARIABLES
    file,       \* the local file
    due,        \* last_backup_at < last_event_at
    step,       \* the request the worker is in, or "idle"
    waits,      \* the thread it waits for
    answer,     \* what its request returned
    size, head, \* totalSize and headHash
    transfer,   \* transferID: the index of a session, 0 for none
    offset,     \* its offset in the stored file
    digest,     \* what it has read and hashed: its place in the file
    stage,      \* where a request thread stands
    request,    \* what it was asked
    row,        \* the session row it has read
    sessions,   \* backup_sessions, a transfer id being an index
    snapshots,  \* backup_snapshots
    stored,     \* the stored file of each version
    edits, failures, restarts

workerVars == <<due, step, waits, answer, size, head, transfer, offset, digest>>
threadVars == <<stage, request, row>>
storeVars  == <<sessions, snapshots, stored>>
budgetVars == <<edits, failures, restarts>>
vars == <<file, workerVars, threadVars, storeVars, budgetVars>>

Versions == 1..MaxSessions
Contents == UNION {[1..n -> Values] : n \in 0..MaxSize}

\* What the head hash tells apart.
Head64K(contents) == IF contents = <<>> THEN <<>> ELSE <<contents[1]>>

Session(version, total, hash) ==
    [version |-> version, offset |-> 0, size |-> total, head |-> hash,
     status |-> "IN_PROGRESS"]

NoRow == Session(1, 0, <<>>)

Request(op, id, at, data, total) ==
    [op |-> op, transfer |-> id, offset |-> at, data |-> data, size |-> total]

NoRequest == Request("none", 0, 0, <<>>, 0)

Answer(status, id, at) == [status |-> status, transfer |-> id, offset |-> at]

NoAnswer == Answer("none", 0, 0)
Failed   == Answer("failed", 0, 0)

Init ==
    /\ file \in Contents
    /\ due = TRUE
    /\ step = "idle" /\ waits = NoThread /\ answer = NoAnswer
    /\ size = 0 /\ head = <<>> /\ transfer = 0 /\ offset = 0 /\ digest = <<>>
    /\ stage = [t \in Threads |-> "free"]
    /\ request = [t \in Threads |-> NoRequest]
    /\ row = [t \in Threads |-> NoRow]
    /\ sessions = <<>> /\ snapshots = <<>>
    /\ stored = [v \in Versions |-> <<>>]
    /\ edits = 0 /\ failures = 0 /\ restarts = 0

(***************************************************************************)
(* The worker.  It sends its next request in the step in which it takes    *)
(* the answer to the last one.                                             *)
(***************************************************************************)
Send(t, r) ==
    /\ stage[t] = "free"
    /\ stage' = [stage EXCEPT ![t] = "read"]
    /\ request' = [request EXCEPT ![t] = r]
    /\ step' = r.op
    /\ waits' = t
    /\ answer' = NoAnswer
    /\ UNCHANGED <<file, row, storeVars, budgetVars>>

Stop ==
    /\ step' = "idle"
    /\ answer' = NoAnswer
    /\ UNCHANGED <<file, waits, size, head, transfer, offset, digest,
                   threadVars, storeVars, budgetVars>>

Answered(op) == step = op /\ answer # NoAnswer

(* Open the file, take its size and head hash, and ask for a session.      *)
BeginBackup(t) ==
    /\ step = "idle"
    /\ due
    /\ size' = Len(file)
    /\ head' = Head64K(file)
    /\ Send(t, Request("resume", 0, 0, Head64K(file), Len(file)))
    /\ UNCHANGED <<due, transfer, offset, digest>>

(* Read the next unit and upload it, or, at the end of the file, finish.   *)
UploadNext(t, id, at, hashed) ==
    /\ transfer' = id
    /\ offset' = at
    /\ IF Len(hashed) < Len(file)
         THEN LET unit == file[Len(hashed) + 1] IN
              /\ digest' = Append(hashed, unit)
              /\ Send(t, Request("chunk", id, at, <<unit>>, 0))
         ELSE /\ digest' = hashed
              /\ Send(t, Request("finish", id, 0, hashed, 0))
    /\ UNCHANGED <<due, size, head>>

\* Slip: going on from the offset without hashing what comes before it.
ResumedUnhashed(t) ==
    /\ Answered("resume")
    /\ answer.status = "found"
    /\ UploadNext(t, answer.transfer, answer.offset, <<>>)

(* The prefix that is stored already is read again for the hash.           *)
Resumed(t) ==
    /\ Answered("resume")
    /\ answer.status = "found"
    /\ LET known == IF answer.offset < Len(file) THEN answer.offset ELSE Len(file) IN
       UploadNext(t, answer.transfer, answer.offset, SubSeq(file, 1, known))

(* A failed resume request is taken for "not_found" too.                   *)
NotResumed(t) ==
    /\ Answered("resume")
    /\ answer.status # "found"
    /\ Send(t, Request("init", 0, 0, head, size))
    /\ UNCHANGED <<due, size, head, transfer, offset, digest>>

Initiated(t) ==
    /\ Answered("init")
    /\ answer # Failed
    /\ UploadNext(t, answer.transfer, 0, <<>>)

ChunkAccepted(t) ==
    /\ Answered("chunk")
    /\ answer # Failed
    /\ UploadNext(t, transfer, offset + 1, digest)

ChunkFailed(t) ==
    /\ Answered("chunk")
    /\ answer = Failed
    /\ Send(t, Request("cancel", transfer, 0, <<>>, 0))
    /\ UNCHANGED <<due, size, head, transfer, offset, digest>>

(* last_backup_at becomes now, whatever happened to the file meanwhile.    *)
Finished ==
    /\ Answered("finish")
    /\ answer # Failed
    /\ due' = FALSE
    /\ Stop

(* The cancel request is never answered: it always ends as a failure.      *)
GaveUp ==
    /\ \/ Answered("init") /\ answer = Failed
       \/ Answered("finish") /\ answer = Failed
       \/ Answered("cancel")
    /\ Stop
    /\ UNCHANGED due

(***************************************************************************)
(* The request threads.                                                    *)
(***************************************************************************)
Free(t) ==
    /\ stage' = [stage EXCEPT ![t] = "free"]
    /\ request' = [request EXCEPT ![t] = NoRequest]
    /\ row' = [row EXCEPT ![t] = NoRow]

(* The thread ends with a response, which reaches the worker if it is      *)
(* still waiting for this thread.                                          *)
Respond(t, a) ==
    /\ Free(t)
    /\ IF waits = t THEN waits' = NoThread /\ answer' = a
                    ELSE UNCHANGED <<waits, answer>>
    /\ UNCHANGED <<file, due, step, size, head, transfer, offset, digest,
                   budgetVars>>

Accept(t) == Respond(t, Answer("ok", 0, 0))
Reject(t) == Respond(t, Failed)

Continue(t, next, read) ==
    /\ stage' = [stage EXCEPT ![t] = next]
    /\ row' = [row EXCEPT ![t] = read]
    /\ UNCHANGED <<file, workerVars, request, budgetVars>>

Reads(t, op)  == stage[t] = "read" /\ request[t].op = op
Writes(t, op) == stage[t] = "write" /\ request[t].op = op
Saves(t, op)  == stage[t] = "save" /\ request[t].op = op

\* Slip: finding a session whatever became of it.
ActiveAnyStatus == DOMAIN sessions

Active == {i \in DOMAIN sessions : sessions[i].status = "IN_PROGRESS"}

SameFile(session, r) == session.size = r.size /\ session.head = r.data

(* The newest session in progress, if the file still looks like its own.   *)
HandleBackupResume(t) ==
    /\ Reads(t, "resume")
    /\ \/ Active = {} /\ Respond(t, Answer("not_found", 0, 0))
       \/ \E i \in Active :
            /\ \A j \in Active : j <= i
            /\ Respond(t, IF SameFile(sessions[i], request[t])
                            THEN Answer("found", i, sessions[i].offset)
                            ELSE Answer("mismatch", 0, 0))
    /\ UNCHANGED storeVars

LatestVersion ==
    IF snapshots = <<>> THEN 0
    ELSE LET versions == {snapshots[i].version : i \in DOMAIN snapshots} IN
         CHOOSE v \in versions : \A w \in versions : w <= v

\* Slip: taking the latest version itself for the next one.
ReadLatestVersionReused(t) ==
    /\ Reads(t, "init")
    /\ Continue(t, "save",
                Session(IF LatestVersion = 0 THEN 1 ELSE LatestVersion,
                        request[t].size, request[t].data))
    /\ UNCHANGED storeVars

(* Only completed backups count for the next version.                      *)
ReadLatestVersion(t) ==
    /\ Reads(t, "init")
    /\ LatestVersion + 1 \in Versions
    /\ Continue(t, "save",
                Session(LatestVersion + 1, request[t].size, request[t].data))
    /\ UNCHANGED storeVars

\* Slip: the error of the insert is ignored.
CreateSessionUnsaved(t) ==
    /\ Saves(t, "init")
    /\ Respond(t, Answer("ok", Len(sessions) + 1, 0))
    /\ UNCHANGED storeVars

CreateSession(t) ==
    /\ Saves(t, "init")
    /\ Len(sessions) < MaxSessions
    /\ sessions' = Append(sessions, row[t])
    /\ Respond(t, Answer("ok", Len(sessions) + 1, 0))
    /\ UNCHANGED <<snapshots, stored>>

\* Slip: the new offset is saved before the data is written.
ReadSessionSavesFirst(t) ==
    /\ Reads(t, "chunk") \/ Reads(t, "finish")
    /\ LET session == sessions[request[t].transfer] IN
       IF session.status = "IN_PROGRESS"
         THEN /\ Continue(t, "write", session)
              /\ sessions' = [sessions EXCEPT ![request[t].transfer].offset =
                    request[t].offset + Len(request[t].data)]
              /\ UNCHANGED <<snapshots, stored>>
         ELSE Reject(t) /\ UNCHANGED storeVars

(* UpdateChunk and FinishSession insist on a session in progress.          *)
ReadSession(t) ==
    /\ Reads(t, "chunk") \/ Reads(t, "finish")
    /\ LET session == sessions[request[t].transfer] IN
       IF session.status = "IN_PROGRESS" THEN Continue(t, "write", session)
                                         ELSE Reject(t)
    /\ UNCHANGED storeVars

WriteAt(contents, at, data) ==
    [i \in 1..(IF Len(contents) < at + Len(data) THEN at + Len(data) ELSE Len(contents))
        |-> IF i \in at + 1..at + Len(data) THEN data[i - at]
            ELSE IF i <= Len(contents) THEN contents[i] ELSE Hole]

ChunkEnd(t) == request[t].offset + Len(request[t].data)

WriteChunk(t) ==
    /\ Writes(t, "chunk")
    /\ stored' = [stored EXCEPT ![row[t].version] =
                    WriteAt(@, request[t].offset, request[t].data)]
    /\ IF ChunkEnd(t) > row[t].offset THEN Continue(t, "save", row[t])
                                      ELSE Accept(t)
    /\ UNCHANGED <<sessions, snapshots>>

SaveRow(t, session) ==
    /\ sessions' = [sessions EXCEPT ![request[t].transfer] = session]
    /\ UNCHANGED <<snapshots, stored>>

SaveOffset(t) ==
    /\ Saves(t, "chunk")
    /\ SaveRow(t, [row[t] EXCEPT !.offset = ChunkEnd(t)])
    /\ Accept(t)

CreateSnapshot(t) ==
    /\ Writes(t, "finish")
    /\ snapshots' = Append(snapshots,
          [version |-> row[t].version, size |-> row[t].size, hash |-> request[t].data])
    /\ Continue(t, "save", row[t])
    /\ UNCHANGED <<sessions, stored>>

MarkDone(t) ==
    /\ Saves(t, "finish")
    /\ SaveRow(t, [row[t] EXCEPT !.status = "DONE"])
    /\ Accept(t)

(* CancelSession asks nothing of the session's status.                     *)
ReadForCancel(t) ==
    /\ Reads(t, "cancel")
    /\ Continue(t, "save", sessions[request[t].transfer])
    /\ UNCHANGED storeVars

(* HandleBackupCancel returns without a response: the worker goes on       *)
(* waiting, for a thread that has gone.                                    *)
MarkCanceled(t) ==
    /\ Saves(t, "cancel")
    /\ SaveRow(t, [row[t] EXCEPT !.status = "CANCELED"])
    /\ Free(t)
    /\ UNCHANGED <<file, workerVars, budgetVars>>

HandlerStep(t) ==
    \/ HandleBackupResume(t) \/ ReadLatestVersion(t) \/ CreateSession(t)
    \/ ReadSession(t) \/ WriteChunk(t) \/ SaveOffset(t) \/ CreateSnapshot(t)
    \/ MarkDone(t) \/ ReadForCancel(t) \/ MarkCanceled(t)

(***************************************************************************)
(* Failures and the user.                                                  *)
(***************************************************************************)
GiveUpWaiting == waits' = NoThread /\ answer' = Failed

(* The server cannot be reached, or the request is cut off on its way.     *)
RequestLost(t) ==
    /\ failures < MaxFailures
    /\ waits = t
    /\ stage[t] = "read"
    /\ GiveUpWaiting
    /\ Free(t)
    /\ failures' = failures + 1
    /\ UNCHANGED <<file, due, step, size, head, transfer, offset, digest,
                   storeVars, edits, restarts>>

(* Ten seconds without an answer; the thread runs on.                      *)
TimeOut ==
    /\ failures < MaxFailures
    /\ waits # NoThread
    /\ step # "cancel"
    /\ GiveUpWaiting
    /\ failures' = failures + 1
    /\ UNCHANGED <<file, due, step, size, head, transfer, offset, digest,
                   threadVars, storeVars, edits, restarts>>

(* For a cancel the ten seconds always pass, so this is no failure.        *)
CancelTimesOut ==
    /\ waits # NoThread
    /\ step = "cancel"
    /\ GiveUpWaiting
    /\ UNCHANGED <<file, due, step, size, head, transfer, offset, digest,
                   threadVars, storeVars, budgetVars>>

(* The server dies and starts again, its threads gone.                     *)
ServerRestart ==
    /\ restarts < MaxRestarts
    /\ restarts' = restarts + 1
    /\ stage' = [t \in Threads |-> "free"]
    /\ request' = [t \in Threads |-> NoRequest]
    /\ row' = [t \in Threads |-> NoRow]
    /\ IF waits = NoThread THEN UNCHANGED <<waits, answer>> ELSE GiveUpWaiting
    /\ UNCHANGED <<file, due, step, size, head, transfer, offset, digest,
                   storeVars, edits, failures>>

(* The device's process dies and starts again, its worker idle.            *)
DeviceRestart ==
    /\ restarts < MaxRestarts
    /\ restarts' = restarts + 1
    /\ step # "idle"
    /\ step' = "idle"
    /\ waits' = NoThread
    /\ answer' = NoAnswer
    /\ UNCHANGED <<file, due, size, head, transfer, offset, digest, threadVars,
                   storeVars, edits, failures>>

(* The user changes the file in place and the monitor records an event.    *)
Edit ==
    /\ edits < MaxEdits
    /\ edits' = edits + 1
    /\ file' \in Contents \ {file}
    /\ due' = TRUE
    /\ UNCHANGED <<step, waits, answer, size, head, transfer, offset, digest,
                   threadVars, storeVars, failures, restarts>>

(***************************************************************************)
WorkerStep ==
    \/ \E t \in Threads :
         \/ BeginBackup(t) \/ Resumed(t) \/ NotResumed(t) \/ Initiated(t)
         \/ ChunkAccepted(t) \/ ChunkFailed(t)
    \/ Finished \/ GaveUp \/ CancelTimesOut

Next ==
    \/ WorkerStep
    \/ \E t \in Threads : HandlerStep(t) \/ RequestLost(t)
    \/ TimeOut \/ ServerRestart \/ DeviceRestart \/ Edit

Spec == Init /\ [][Next]_vars

(* The worker and the server's threads keep running; nothing has to fail.  *)
Fairness ==
    /\ WF_vars(WorkerStep)
    /\ \A t \in Threads : WF_vars(HandlerStep(t))

FairSpec == Spec /\ Fairness

(***************************************************************************)
(* Properties.                                                             *)
(***************************************************************************)
SessionRow ==
    [version : Versions, offset : Nat, size : Nat, head : Seq(Values),
     status : {"IN_PROGRESS", "CANCELED", "DONE"}]

Requests ==
    [op : {"none", "resume", "init", "chunk", "finish", "cancel"},
     transfer : Nat, offset : Nat, data : Seq(Values), size : Nat]

Answers ==
    [status : {"none", "ok", "failed", "found", "not_found", "mismatch"},
     transfer : Nat, offset : Nat]

(* Every variable has its type, and a thread works on a session that is    *)
(* there and whose version is that of the row the thread has read.         *)
TypeOK ==
    /\ file \in Seq(Values)
    /\ due \in BOOLEAN
    /\ step \in {"idle", "resume", "init", "chunk", "finish", "cancel"}
    /\ waits \in Threads \union {NoThread}
    /\ answer \in Answers
    /\ size \in Nat /\ head \in Seq(Values)
    /\ transfer \in 0..Len(sessions) /\ offset \in Nat /\ digest \in Seq(Values)
    /\ stage \in [Threads -> {"free", "read", "write", "save"}]
    /\ request \in [Threads -> Requests]
    /\ row \in [Threads -> SessionRow]
    /\ sessions \in Seq(SessionRow)
    /\ snapshots \in Seq([version : Versions, size : Nat, hash : Seq(Values)])
    /\ stored \in [Versions -> Seq(Values \union {Hole})]
    /\ edits \in 0..MaxEdits
    /\ failures \in 0..MaxFailures
    /\ restarts \in 0..MaxRestarts

(* What a session claims to have received is in the stored file, and the   *)
(* stored file has no holes: wherever the server crashes, times out or     *)
(* runs a request late, an upload resumed at current_offset leaves nothing *)
(* out.                                                                    *)
OffsetIsStored ==
    /\ \A i \in DOMAIN sessions :
          sessions[i].offset <= Len(stored[sessions[i].version])
    /\ \A v \in Versions : \A i \in DOMAIN stored[v] : stored[v][i] # Hole

(* As long as the file is not edited, every snapshot has its contents and  *)
(* its size, however requests are lost, late, repeated or resumed, and     *)
(* however many sessions share a version.                                  *)
SnapshotsAreTheFile ==
    edits = 0 =>
        \A i \in DOMAIN snapshots :
            /\ snapshots[i].size = Len(file)
            /\ snapshots[i].hash = file
            /\ stored[snapshots[i].version] = file

(* As long as nothing fails, the file stored for a snapshot is the one its *)
(* file_hash was computed from, although the file is edited while it is    *)
(* being uploaded.                                                         *)
UndisturbedHashHolds ==
    failures = 0 /\ restarts = 0 =>
        \A i \in DOMAIN snapshots : stored[snapshots[i].version] = snapshots[i].hash

(* Failures come to an end, and then every event is followed by a backup.  *)
EventuallyBackedUp == <>[]~due

(* "FileHash string // SHA256" (models/backup.go): the hash of a snapshot  *)
(* is the hash of the file at its server_path.                             *)
SnapshotHashHolds ==
    \A i \in DOMAIN snapshots : stored[snapshots[i].version] = snapshots[i].hash
=============================================================================
