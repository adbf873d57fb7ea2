--------------------------- MODULE RestoreTransfer ---------------------------
(***************************************************************************)
(* The restore of one file of one device.  Commands of the administrator   *)
(* and a recovery loop queue jobs, a pool of workers pulls a backed-up     *)
(* version chunk by chunk into a .part file, compares the hash of what it  *)
(* has received and puts the .part file in the place of the old one.       *)
(* Sessions on the server, session rows in the device's database and both  *)
(* files survive a restart of the device.                                  *)
(*                                                                         *)
(* A unit is a chunk of 16 MB, of which the last may be shorter; a hash is *)
(* represented by what was hashed.  A call of the server is one step: what *)
(* a call that timed out does later is what it does when only its answer   *)
(* is lost, as chunks and resumptions change nothing and nobody reads what *)
(* a late call of the other two writes.                                    *)
(***************************************************************************)
EXTENDS Integers, FiniteSets, Sequences

CONSTANTS
    Stored,       \* the stored versions, a sequence of sequences of units
    Units,        \* what a chunk may hold
    Hole,         \* a chunk of the .part file that was never written
    Absent,       \* a file that is not there
    Original,     \* the file before any restore
    Workers,
    Capacity,     \* of restoreQueue: 100 in the code
    MaxCommands,  \* bound: commands of the administrator
    MaxFailures,  \* bound: lost requests or answers, failed opens and renames
    MaxDiskErrors,\* bound: writes of a chunk that fail
    MaxRestarts   \* bound: restarts of the client

ASSUME StoredAssumption == Stored \in Seq(Seq(Units)) /\ Hole \notin Units
ASSUME FilesAssumption ==
    /\ Absent # Original
    /\ Absent \notin Seq(Units \union {Hole}) /\ Original \notin Seq(Units \union {Hole})
ASSUME BoundsAssumption ==
    /\ Capacity \in Nat \ {0} /\ MaxCommands \in Nat /\ MaxFailures \in Nat
    /\ MaxDiskErrors \in Nat /\ MaxRestarts \in Nat

VARIABLES
    sessions,  \* restore_sessions of the server, a transfer id being an index
    local,     \* the device's LocalRestoreSession row of each, or NoRow
    queue,     \* restoreQueue
    listed,    \* transfer ids that RestoreRecovery has still to look at
    offer,     \* the one it is about to queue, 0 for none
    active,    \* the file is in activeRestores
    work,      \* where a worker stands
    part,      \* the .part file
    dest,      \* the file itself
    commands, failures, diskErrors, restarts

dbVars     == <<sessions, local>>
queueVars  == <<queue, listed, offer, commands>>
poolVars   == <<active, work>>
diskVars   == <<part, dest>>
faultVars  == <<failures, diskErrors, restarts>>
vars == <<dbVars, queueVars, poolVars, diskVars, faultVars>>

Versions   == DOMAIN Stored
Ids        == DOMAIN sessions
NoRow      == [offset |-> 0, status |-> "none"]
NoWork     == [stage |-> "ready", id |-> 0, version |-> 0, offset |-> 0, pos |-> 0, hash |-> <<>>]
Content(id) == Stored[sessions[id].version]
InProgress == {id \in Ids : local[id].status = "IN_PROGRESS"}

Init ==
    /\ sessions = <<>> /\ local = <<>>
    /\ queue = <<>> /\ listed = {} /\ offer = 0
    /\ active = FALSE
    /\ work = [w \in Workers |-> NoWork]
    /\ part = Absent /\ dest = Original
    /\ commands = 0 /\ failures = 0 /\ diskErrors = 0 /\ restarts = 0

(***************************************************************************)
(* The queue: HandleRestoreCmd runs in the notification listener, which    *)
(* waits while the queue is full, and so does RestoreRecovery.             *)
(***************************************************************************)
Put(version, id) ==
    /\ Len(queue) < Capacity
    /\ queue' = Append(queue, [version |-> version, id |-> id])

HandleRestoreCmd(version) ==
    /\ commands < MaxCommands
    /\ commands' = commands + 1
    /\ Put(version, 0)
    /\ UNCHANGED <<dbVars, listed, offer, poolVars, diskVars, faultVars>>

\* Slip: passing over sessions of which nothing has been saved.
RecoveryListsStarted ==
    /\ listed = {} /\ offer = 0
    /\ listed' = {id \in InProgress : local[id].offset > 0}
    /\ UNCHANGED <<dbVars, queue, offer, commands, poolVars, diskVars, faultVars>>

(* Every 30 seconds, and when the client starts.                           *)
RecoveryLists ==
    /\ listed = {} /\ offer = 0
    /\ listed' = InProgress
    /\ UNCHANGED <<dbVars, queue, offer, commands, poolVars, diskVars, faultVars>>

RecoveryChecks ==
    /\ offer = 0
    /\ \E id \in listed :
          listed' = listed \ {id} /\ offer' = IF active THEN 0 ELSE id
    /\ UNCHANGED <<dbVars, queue, commands, poolVars, diskVars, faultVars>>

RecoveryQueues ==
    /\ offer # 0
    /\ Put(sessions[offer].version, offer)
    /\ offer' = 0
    /\ UNCHANGED <<dbVars, listed, commands, poolVars, diskVars, faultVars>>

(***************************************************************************)
(* The server.                                                             *)
(***************************************************************************)
InitSession(version) == [version |-> version, status |-> "IN_PROGRESS"]
HandleRestoreInit(version) == sessions' = Append(sessions, InitSession(version))

\* The chunk at an offset: <<>> behind the end of the stored file.
GetChunk(id, offset) == SubSeq(Content(id), offset + 1, offset + 1)
ChunkRefused(id) == sessions[id].status # "IN_PROGRESS"

FinishSession(id) == [sessions EXCEPT ![id].status = "DONE"]
HandleRestoreFinish(id) == sessions' = FinishSession(id)

(***************************************************************************)
(* A worker.                                                               *)
(***************************************************************************)
At(w, stage)   == work[w].stage = stage
Goes(w, stage) == work' = [work EXCEPT ![w].stage = stage]
Fails          == failures < MaxFailures /\ failures' = failures + 1
Size(id)       == Len(Content(id))

Begun(job) == [stage |-> IF job.id = 0 THEN "init" ELSE "resume", id |-> job.id,
               version |-> job.version, offset |-> 0, pos |-> 0, hash |-> <<>>]

\* Slip: looking into activeRestores without storing the file.
TakeUnmarked(w) ==
    /\ At(w, "ready")
    /\ queue # <<>>
    /\ queue' = Tail(queue)
    /\ work' = IF active THEN work ELSE [work EXCEPT ![w] = Begun(Head(queue))]
    /\ UNCHANGED <<dbVars, listed, offer, commands, active, diskVars, faultVars>>

(* A job for a file that is being restored is dropped.                     *)
Take(w) ==
    /\ At(w, "ready")
    /\ queue # <<>>
    /\ queue' = Tail(queue)
    /\ work' = IF active THEN work ELSE [work EXCEPT ![w] = Begun(Head(queue))]
    /\ active' = TRUE
    /\ UNCHANGED <<dbVars, listed, offer, commands, diskVars, faultVars>>

(* A new session.  Without an answer the job is forgotten, although the    *)
(* server may have a session for it.                                       *)
NewSession(w) ==
    /\ At(w, "init")
    /\ \/ /\ HandleRestoreInit(work[w].version)
          /\ local' = Append(local, [offset |-> 0, status |-> "IN_PROGRESS"])
          /\ work' = [work EXCEPT ![w] = [@ EXCEPT !.stage = "open", !.id = Len(sessions) + 1]]
          /\ UNCHANGED failures
       \/ Fails /\ Goes(w, "release") /\ UNCHANGED dbVars
       \/ /\ Fails /\ Goes(w, "release")
          /\ HandleRestoreInit(work[w].version)
          /\ local' = Append(local, NoRow)
    /\ UNCHANGED <<queueVars, active, diskVars, diskErrors, restarts>>

(* The row is read and the server asked; whatever it answers will do.      *)
Resume(w) ==
    /\ At(w, "resume")
    /\ \/ /\ work' = [work EXCEPT ![w] =
                        [@ EXCEPT !.stage = "open", !.offset = local[work[w].id].offset]]
          /\ UNCHANGED failures
       \/ Fails /\ Goes(w, "release")
    /\ UNCHANGED <<dbVars, queueVars, active, diskVars, diskErrors, restarts>>

\* What is in the .part file once it is opened.
Opened == IF part = Absent THEN <<>> ELSE part

(* The part up to the offset is hashed again, in reads of 1 MB: at the end *)
(* of a last chunk that is not full the last read runs on into a tail.     *)
Rehashed(id, offset) ==
    {SubSeq(Opened, 1, n) : n \in
        {IF offset < Len(Opened) THEN offset ELSE Len(Opened)} \union
        (IF 0 < offset /\ offset = Size(id) /\ offset < Len(Opened) THEN {offset + 1} ELSE {})}

Open(w) ==
    /\ At(w, "open")
    /\ \/ /\ part' = Opened
          /\ \E hash \in Rehashed(work[w].id, work[w].offset) :
                work' = [work EXCEPT ![w] =
                           [@ EXCEPT !.stage = "chunk", !.pos = work[w].offset, !.hash = hash]]
          /\ UNCHANGED failures
       \/ Fails /\ Goes(w, "release") /\ UNCHANGED part
    /\ UNCHANGED <<dbVars, queueVars, active, dest, diskErrors, restarts>>

\* A unit written behind the end leaves a hole.
WriteAt(file, pos, unit) ==
    [i \in 1..(IF pos < Len(file) THEN Len(file) ELSE pos + 1) |->
        IF i = pos + 1 THEN unit ELSE IF i \in DOMAIN file THEN file[i] ELSE Hole]

(* A chunk is received, written and hashed.  A write that fails is not     *)
(* noticed: the place in the file stays behind the offset.                 *)
PullChunk(w) ==
    LET id == work[w].id
        data == GetChunk(id, work[w].offset)
    IN  /\ At(w, "chunk")
        /\ work[w].offset < Size(id)
        /\ ~ChunkRefused(id)
        /\ \/ /\ part' = WriteAt(part, work[w].pos, data[1])
              /\ work' = [work EXCEPT ![w] =
                            [@ EXCEPT !.stage = "save", !.offset = work[w].offset + 1,
                                      !.pos = work[w].pos + 1, !.hash = work[w].hash \o data]]
              /\ UNCHANGED diskErrors
           \/ /\ diskErrors < MaxDiskErrors /\ diskErrors' = diskErrors + 1
              /\ work' = [work EXCEPT ![w] =
                            [@ EXCEPT !.stage = "save", !.offset = work[w].offset + 1,
                                      !.hash = work[w].hash \o data]]
              /\ UNCHANGED part
        /\ UNCHANGED <<dbVars, queueVars, active, dest, failures, restarts>>

ChunkFails(w) ==
    /\ At(w, "chunk")
    /\ work[w].offset < Size(work[w].id)
    /\ IF ChunkRefused(work[w].id) THEN UNCHANGED failures ELSE Fails
    /\ Goes(w, "release")
    /\ UNCHANGED <<dbVars, queueVars, active, diskVars, diskErrors, restarts>>

\* Slip: counting a chunk more than was received.
SaveOffsetAhead(w) ==
    /\ At(w, "save")
    /\ local' = [local EXCEPT ![work[w].id].offset = work[w].offset + 1]
    /\ Goes(w, "chunk")
    /\ UNCHANGED <<sessions, queueVars, active, diskVars, faultVars>>

SaveOffset(w) ==
    /\ At(w, "save")
    /\ local' = [local EXCEPT ![work[w].id].offset = work[w].offset]
    /\ Goes(w, "chunk")
    /\ UNCHANGED <<sessions, queueVars, active, diskVars, faultVars>>

(* Whether the server has got the request is not looked at.                *)
Finish(w) ==
    /\ At(w, "chunk")
    /\ work[w].offset >= Size(work[w].id)
    /\ \/ HandleRestoreFinish(work[w].id) /\ UNCHANGED failures
       \/ Fails /\ UNCHANGED sessions
    /\ Goes(w, "verify")
    /\ UNCHANGED <<local, queueVars, active, diskVars, diskErrors, restarts>>

\* Slip: going by the length of what was received.
VerifyLength(w) ==
    /\ At(w, "verify")
    /\ IF work[w].offset = Size(work[w].id)
         THEN Goes(w, "remove") /\ UNCHANGED local
         ELSE Goes(w, "release") /\ local' = [local EXCEPT ![work[w].id].status = "FAILED"]
    /\ UNCHANGED <<sessions, queueVars, active, diskVars, faultVars>>

Verify(w) ==
    /\ At(w, "verify")
    /\ IF work[w].hash = Content(work[w].id)
         THEN Goes(w, "remove") /\ UNCHANGED local
         ELSE Goes(w, "release") /\ local' = [local EXCEPT ![work[w].id].status = "FAILED"]
    /\ UNCHANGED <<sessions, queueVars, active, diskVars, faultVars>>

\* Slip: saving DONE before the file is in place.
RemoveOldDone(w) ==
    /\ At(w, "remove")
    /\ dest' = Absent
    /\ local' = [local EXCEPT ![work[w].id].status = "DONE"]
    /\ Goes(w, "rename")
    /\ UNCHANGED <<sessions, queueVars, active, part, faultVars>>

RemoveOld(w) ==
    /\ At(w, "remove")
    /\ dest' = Absent
    /\ Goes(w, "rename")
    /\ UNCHANGED <<dbVars, queueVars, active, part, faultVars>>

RenamePart(w) ==
    /\ At(w, "rename")
    /\ \/ dest' = part /\ part' = Absent /\ Goes(w, "done") /\ UNCHANGED failures
       \/ Fails /\ Goes(w, "release") /\ UNCHANGED diskVars
    /\ UNCHANGED <<dbVars, queueVars, active, diskErrors, restarts>>

SaveDone(w) ==
    /\ At(w, "done")
    /\ local' = [local EXCEPT ![work[w].id].status = "DONE"]
    /\ Goes(w, "release")
    /\ UNCHANGED <<sessions, queueVars, active, diskVars, faultVars>>

Release(w) ==
    /\ At(w, "release")
    /\ active' = FALSE
    /\ work' = [work EXCEPT ![w] = NoWork]
    /\ UNCHANGED <<dbVars, queueVars, diskVars, faultVars>>

(* The client dies between any two steps and is started again.             *)
DeviceRestart ==
    /\ restarts < MaxRestarts
    /\ restarts' = restarts + 1
    /\ queue' = <<>> /\ listed' = {} /\ offer' = 0
    /\ active' = FALSE
    /\ work' = [w \in Workers |-> NoWork]
    /\ UNCHANGED <<dbVars, diskVars, commands, failures, diskErrors>>

(***************************************************************************)
Restores(w) ==
    \/ NewSession(w) \/ Resume(w) \/ Open(w)
    \/ PullChunk(w) \/ ChunkFails(w) \/ SaveOffset(w)
    \/ Finish(w) \/ Verify(w) \/ RemoveOld(w) \/ RenamePart(w) \/ SaveDone(w)

WorkerStep(w) == Take(w) \/ Restores(w) \/ Release(w)
RecoveryStep  == RecoveryLists \/ RecoveryChecks \/ RecoveryQueues

Next ==
    \/ \E version \in Versions : HandleRestoreCmd(version)
    \/ RecoveryStep
    \/ \E w \in Workers : WorkerStep(w)
    \/ DeviceRestart

Spec == Init /\ [][Next]_vars

(* The goroutines keep running, and every request returns or times out.    *)
FairSpec == Spec /\ WF_vars(RecoveryStep) /\ \A w \in Workers : WF_vars(WorkerStep(w))

(***************************************************************************)
(* Properties.                                                             *)
(***************************************************************************)
Stages == {"ready", "init", "resume", "open", "chunk", "save", "verify", "remove",
           "rename", "done", "release"}
File   == Seq(Units \union {Hole})
Session  == [version : Versions, status : {"IN_PROGRESS", "DONE"}]
LocalRow == [offset : Nat, status : {"none", "IN_PROGRESS", "DONE", "FAILED"}]
Job      == [version : Versions, id : Ids \union {0}]
Work   == [stage : Stages, id : Nat, version : Versions \union {0}, offset : Nat,
           pos : Nat, hash : File]

(* Types; a session on the server and its row on the device go by the same *)
(* index, and no offset lies behind the end of the version.                *)
TypeOK ==
    /\ sessions \in Seq(Session) /\ local \in Seq(LocalRow)
    /\ Len(local) = Len(sessions)
    /\ \A id \in Ids : local[id].offset <= Size(id)
    /\ queue \in Seq(Job)
    /\ listed \subseteq Ids /\ offer \in Ids \union {0}
    /\ active \in BOOLEAN
    /\ work \in [Workers -> Work]
    /\ part \in File \union {Absent}
    /\ dest \in File \union {Absent, Original}
    /\ commands \in Nat /\ failures \in Nat /\ diskErrors \in Nat /\ restarts \in Nat

Working == {w \in Workers : work[w].stage # "ready"}

(* activeRestores holds the file exactly as long as a worker restores it,  *)
(* and no second worker writes its .part file meanwhile, whatever jobs     *)
(* recovery has queued twice.                                              *)
OneRestoreAtATime ==
    /\ active <=> Working # {}
    /\ \A v, w \in Working : v = w

(* What a restore puts in the place of the file begins with a whole stored *)
(* version, through restarts, resumptions and sessions that share the      *)
(* .part file, as long as the disk takes what is written.                  *)
RestoredBeginsWithVersion ==
    diskErrors = 0 /\ dest \notin {Absent, Original} =>
        \E v \in Versions :
            /\ Len(Stored[v]) <= Len(dest)
            /\ SubSeq(dest, 1, Len(Stored[v])) = Stored[v]

(* It is the version, nothing more: the hash is there to "maintain SHA256  *)
(* integrity" (restore_worker.go:242).                                     *)
RestoredIsVersion ==
    dest \in {Absent, Original} \union {Stored[v] : v \in Versions}

(* Every session ends as DONE or FAILED.                                   *)
EverySessionEnds == <>[](InProgress = {})

(* A file that was removed to make room comes back, also when the client   *)
(* dies before the renaming, unless a session has failed.                  *)
RemovedFileComesBack ==
    dest = Absent ~> (dest # Absent \/ \E id \in Ids : local[id].status = "FAILED")
=============================================================================
