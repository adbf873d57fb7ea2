------------------------ MODULE BackupTransfer_proofs ------------------------
(***************************************************************************)
(* That an upload never leaves a hole: sessions claim no more than is      *)
(* stored (OffsetIsStored), for any number of request threads, versions,   *)
(* failures and restarts.                                                  *)
(*                                                                         *)
(* The invariant follows the offset on its way round: from the session row *)
(* into the answer to a resume request, into the worker, into the next     *)
(* chunk request, into the stored file and back into the row.  At every    *)
(* place it is at most the length of the stored file it speaks of, and no  *)
(* step makes a stored file shorter or moves a session to another version. *)
(***************************************************************************)
EXTENDS BackupTransfer, SequenceTheorems, TLAPS

StoredFor(i) == Len(stored[sessions[i].version])

\* Requests that name a session.
Named == {"chunk", "finish", "cancel"}

(* A running thread was asked about a session that exists, and what it     *)
(* will write or save fits what is stored.                                 *)
ThreadOK(t) ==
    /\ row[t].offset <= Len(stored[row[t].version])
    /\ stage[t] # "free" /\ request[t].op \in Named =>
         /\ request[t].transfer \in DOMAIN sessions
         /\ stage[t] \in {"write", "save"} =>
              row[t].version = sessions[request[t].transfer].version
    /\ stage[t] # "free" /\ request[t].op = "chunk" =>
         /\ request[t].offset <= StoredFor(request[t].transfer)
         /\ stage[t] = "save" => ChunkEnd(t) <= StoredFor(request[t].transfer)

(* The worker waits for the answer to the request it is in.                *)
WaitOK ==
    /\ waits # NoThread => answer = NoAnswer
    /\ waits # NoThread /\ stage[waits] # "free" =>
         /\ request[waits].op = step
         /\ step = "chunk" => /\ request[waits].transfer = transfer
                              /\ request[waits].offset = offset
                              /\ Len(request[waits].data) = 1

(* What the worker was told, and what it acts on, fits what is stored.     *)
WorkerOK ==
    /\ step \in Named => transfer \in DOMAIN sessions
    /\ step = "resume" /\ answer.status = "found" =>
         answer.transfer \in DOMAIN sessions /\ answer.offset <= StoredFor(answer.transfer)
    /\ step = "init" /\ answer \notin {NoAnswer, Failed} =>
         answer.transfer \in DOMAIN sessions
    /\ step = "chunk" /\ answer \notin {NoAnswer, Failed} =>
         offset + 1 <= StoredFor(transfer)

OffsetInv ==
    /\ TypeOK
    /\ OffsetIsStored
    /\ \A t \in Threads : ThreadOK(t)
    /\ WaitOK
    /\ WorkerOK

(***************************************************************************)
(* What every step may do to the stores.                                   *)
(***************************************************************************)
StoreTypes ==
    /\ sessions \in Seq(SessionRow)
    /\ snapshots \in Seq([version : Versions, size : Nat, hash : Seq(Values)])
    /\ stored \in [Versions -> Seq(Values \union {Hole})]

StoreGrows ==
    /\ StoreTypes'
    /\ OffsetIsStored'
    /\ Len(sessions) <= Len(sessions')
    /\ \A i \in DOMAIN sessions : sessions'[i].version = sessions[i].version
    /\ \A v \in Versions : Len(stored[v]) <= Len(stored'[v])

(* A row of the table is a session, and its stored file has a length.      *)
LEMMA SessionFacts ==
    ASSUME StoreTypes, NEW i \in DOMAIN sessions
    PROVE  /\ sessions[i] \in SessionRow
           /\ sessions[i].version \in Versions
           /\ sessions[i].offset \in Nat
           /\ StoredFor(i) \in Nat
<1>1. sessions[i] \in SessionRow
    BY DEF StoreTypes
<1>2. sessions[i].version \in Versions /\ sessions[i].offset \in Nat
    BY <1>1 DEF SessionRow
<1>3. stored[sessions[i].version] \in Seq(Values \union {Hole})
    BY <1>2 DEF StoreTypes
<1> QED
    BY <1>1, <1>2, <1>3 DEF StoredFor

(* What fitted before the step still fits.                                 *)
LEMMA StoredGrows ==
    ASSUME StoreTypes, StoreGrows, NEW i \in DOMAIN sessions
    PROVE  /\ i \in DOMAIN sessions'
           /\ sessions'[i].version = sessions[i].version
           /\ StoredFor(i) \in Nat /\ StoredFor(i)' \in Nat
           /\ StoredFor(i) <= StoredFor(i)'
<1>1. i \in DOMAIN sessions'
    BY DEF StoreGrows, StoreTypes
<1>2. sessions'[i].version = sessions[i].version /\ sessions[i].version \in Versions
    BY SessionFacts DEF StoreGrows
<1>3. stored'[sessions[i].version] \in Seq(Values \union {Hole})
    BY <1>2 DEF StoreGrows, StoreTypes
<1>4. StoredFor(i)' = Len(stored'[sessions[i].version])
    BY <1>2 DEF StoredFor
<1> QED
    BY <1>1, <1>2, <1>3, <1>4, SessionFacts DEF StoreGrows, StoredFor

(* Leaving the stores alone is a way of growing them.                      *)
LEMMA StoreStutters ==
    ASSUME StoreTypes, OffsetIsStored, UNCHANGED storeVars
    PROVE  StoreGrows
<1>1. StoreTypes' /\ OffsetIsStored'
    BY DEF storeVars, StoreTypes, OffsetIsStored
<1>2. Len(sessions) \in Nat /\ \A v \in Versions : Len(stored[v]) \in Nat
    BY DEF StoreTypes
<1> QED
    BY <1>1, <1>2 DEF StoreGrows, storeVars

(* A thread that does not move stays as it should be.                      *)
LEMMA ThreadKept ==
    ASSUME TypeOK, StoreTypes, StoreGrows, NEW t \in Threads, ThreadOK(t),
           stage'[t] = stage[t], request'[t] = request[t], row'[t] = row[t]
    PROVE  ThreadOK(t)'
<1>1. row[t] \in SessionRow /\ request[t] \in Requests
    BY DEF TypeOK
<1>2. /\ row[t].version \in Versions /\ row[t].offset \in Nat
      /\ request[t].offset \in Nat /\ Len(request[t].data) \in Nat
    BY <1>1 DEF SessionRow, Requests
<1>3. /\ Len(stored[row[t].version]) \in Nat /\ Len(stored'[row[t].version]) \in Nat
      /\ Len(stored[row[t].version]) <= Len(stored'[row[t].version])
    BY <1>2 DEF StoreGrows, StoreTypes
<1>4. row'[t].offset <= Len(stored'[row'[t].version])
    BY <1>2, <1>3 DEF ThreadOK
<1>5. stage[t] # "free" /\ request[t].op \in Named =>
        /\ request[t].transfer \in DOMAIN sessions'
        /\ stage[t] \in {"write", "save"} =>
              row[t].version = sessions'[request[t].transfer].version
    BY StoredGrows DEF ThreadOK
<1>6. ASSUME stage[t] # "free", request[t].op = "chunk",
             NEW kept, kept = Len(stored'[sessions'[request[t].transfer].version])
      PROVE  /\ request[t].offset <= kept
             /\ stage[t] = "save" => request[t].offset + Len(request[t].data) <= kept
    <2> DEFINE id == request[t].transfer
    <2>1. id \in DOMAIN sessions
        BY <1>6 DEF ThreadOK, Named
    <2>2. StoredFor(id) \in Nat /\ StoredFor(id)' \in Nat /\ StoredFor(id) <= StoredFor(id)'
        BY <2>1, StoredGrows
    <2>3. /\ request[t].offset <= StoredFor(id)
          /\ stage[t] = "save" =>
               request[t].offset + Len(request[t].data) <= StoredFor(id)
        BY <1>6 DEF ThreadOK, ChunkEnd
    <2>4. kept = StoredFor(id)'
        BY <1>6 DEF StoredFor
    <2> HIDE DEF id
    <2> QED
        BY <1>2, <2>2, <2>3, <2>4
<1> QED
    BY <1>4, <1>5, <1>6 DEF ThreadOK, ChunkEnd, StoredFor

ThreadTypes ==
    /\ stage \in [Threads -> {"free", "read", "write", "save"}]
    /\ request \in [Threads -> Requests]
    /\ row \in [Threads -> SessionRow]

(* The empty rows, requests and answers have their types.                  *)
LEMMA FreshRecords ==
    /\ NoRow \in SessionRow /\ NoRow.version = 1 /\ NoRow.offset = 0 /\ 1 \in Versions
    /\ NoRequest \in Requests /\ NoRequest.op = "none"
    /\ NoAnswer \in Answers /\ Failed \in Answers /\ Failed # NoAnswer
    /\ \A s \in Seq(Values) : Len(s) \in Nat
<1>1. <<>> \in Seq(Values)
    OBVIOUS
<1>2. 1 \in Versions
    BY BoundsAssumption DEF Versions
<1> QED
    BY <1>1, <1>2 DEF NoRow, Session, SessionRow, NoRequest, Request, Requests,
        NoAnswer, Failed, Answer, Answers

(* A thread that holds no request is as it should be.                      *)
LEMMA IdleThread ==
    ASSUME StoreTypes', NEW t \in Threads, stage'[t] = "free", row'[t] = NoRow
    PROVE  ThreadOK(t)'
<1>1. stored'[1] \in Seq(Values \union {Hole})
    BY FreshRecords DEF StoreTypes
<1> QED
    BY <1>1, FreshRecords DEF ThreadOK

(* One thread ends; all threads are as they should be.                     *)
LEMMA ThreadFreed ==
    ASSUME TypeOK, StoreTypes, StoreGrows, \A u \in Threads : ThreadOK(u),
           NEW t \in Threads, Free(t)
    PROVE  ThreadTypes' /\ \A u \in Threads : ThreadOK(u)'
<1>1. ThreadTypes'
    BY FreshRecords DEF Free, TypeOK, ThreadTypes
<1>2. ASSUME NEW u \in Threads PROVE ThreadOK(u)'
    <2>1. CASE u = t
        BY <2>1, IdleThread DEF Free, StoreGrows, TypeOK
    <2>2. CASE u # t
        BY <2>2, ThreadKept DEF Free, TypeOK
    <2> QED
        BY <2>1, <2>2
<1> QED
    BY <1>1, <1>2

(* A thread goes on with a row that fits what is stored.                   *)
LEMMA ThreadContinued ==
    ASSUME TypeOK, StoreTypes, StoreGrows, \A u \in Threads : ThreadOK(u),
           NEW t \in Threads, stage[t] # "free",
           NEW next \in {"write", "save"}, NEW read \in SessionRow,
           read.offset <= Len(stored'[read.version]),
           request[t].op \in Named => read.version = sessions[request[t].transfer].version,
           request[t].op = "chunk" /\ next = "save" =>
               ChunkEnd(t) <= Len(stored'[read.version]),
           Continue(t, next, read)
    PROVE  ThreadTypes' /\ \A u \in Threads : ThreadOK(u)'
<1>1. ThreadTypes'
    BY DEF Continue, TypeOK, ThreadTypes
<1>2. ThreadOK(t)'
    <2>1. request' = request /\ row'[t] = read /\ stage'[t] = next
        BY DEF Continue, TypeOK
    <2>2. request[t].op \in Named =>
            /\ request[t].transfer \in DOMAIN sessions'
            /\ read.version = sessions'[request[t].transfer].version
        BY StoredGrows DEF ThreadOK
    <2>3. ASSUME request[t].op = "chunk", NEW kept, kept = Len(stored'[read.version])
          PROVE  request[t].offset <= kept /\ (next = "save" => ChunkEnd(t) <= kept)
        <3>1. PICK id \in DOMAIN sessions : id = request[t].transfer
            BY <2>3 DEF ThreadOK, Named
        <3>2. request[t].offset <= StoredFor(id)
            BY <2>3, <3>1 DEF ThreadOK
        <3>3. /\ StoredFor(id) \in Nat /\ StoredFor(id)' \in Nat
              /\ StoredFor(id) <= StoredFor(id)'
            BY StoredGrows
        <3>4. StoredFor(id)' = kept
            BY <2>2, <2>3, <3>1 DEF StoredFor, Named
        <3>5. request[t].offset \in Nat
            BY DEF TypeOK, Requests
        <3> QED
            BY <2>3, <3>2, <3>3, <3>4, <3>5
    <2> QED
        BY <2>1, <2>2, <2>3 DEF ThreadOK, ChunkEnd, StoredFor, Named
<1>3. ASSUME NEW u \in Threads, u # t PROVE ThreadOK(u)'
    BY <1>3, ThreadKept DEF Continue, TypeOK
<1> QED
    BY <1>1, <1>2, <1>3

(* What the worker was told still fits.                                    *)
LEMMA WorkerKept ==
    ASSUME TypeOK, StoreTypes, StoreGrows, WorkerOK,
           UNCHANGED <<step, answer, transfer, offset>>
    PROVE  WorkerOK'
<1>1. answer.offset \in Nat /\ offset \in Nat
    BY DEF TypeOK, Answers
<1>2. ASSUME NEW i \in DOMAIN sessions, NEW n \in Nat, n <= StoredFor(i)
      PROVE  i \in DOMAIN sessions' /\ n <= StoredFor(i)'
    BY <1>2, StoredGrows
<1>3. step \in Named => transfer \in DOMAIN sessions'
    BY StoredGrows DEF WorkerOK
<1>4. step = "resume" /\ answer.status = "found" =>
        answer.transfer \in DOMAIN sessions' /\ answer.offset <= StoredFor(answer.transfer)'
    BY <1>1, <1>2 DEF WorkerOK
<1>5. step = "init" /\ answer \notin {NoAnswer, Failed} => answer.transfer \in DOMAIN sessions'
    BY StoredGrows DEF WorkerOK
<1>6. step = "chunk" /\ answer \notin {NoAnswer, Failed} => offset + 1 <= StoredFor(transfer)'
    <2>1. offset + 1 \in Nat
        BY <1>1
    <2> QED
        BY <1>2, <2>1 DEF WorkerOK, Named
<1> QED
    BY <1>3, <1>4, <1>5, <1>6 DEF WorkerOK, StoredFor

(***************************************************************************)
(* The shapes that the steps of worker and threads have.                   *)
(***************************************************************************)
LEMMA TransferKept ==
    ASSUME StoreTypes, StoreGrows, transfer \in 0..Len(sessions), transfer' = transfer
    PROVE  transfer' \in 0..Len(sessions')
BY DEF StoreTypes, StoreGrows

(* A thread answers with something that fits what is stored.               *)
LEMMA RespondStep ==
    ASSUME OffsetInv, StoreGrows, NEW t \in Threads, stage[t] # "free",
           NEW a \in Answers, a # NoAnswer,
           request[t].op = "resume" /\ a.status = "found" =>
               a.transfer \in DOMAIN sessions' /\ a.offset <= StoredFor(a.transfer)',
           request[t].op = "init" /\ a # Failed => a.transfer \in DOMAIN sessions',
           request[t].op = "chunk" /\ a # Failed =>
               ChunkEnd(t) <= Len(stored'[sessions'[request[t].transfer].version]),
           Respond(t, a)
    PROVE  OffsetInv'
<1>1. TypeOK /\ StoreTypes
    BY DEF OffsetInv, TypeOK, StoreTypes
<1>2. ThreadTypes' /\ \A u \in Threads : ThreadOK(u)'
    BY <1>1, ThreadFreed DEF OffsetInv, Respond
<1>3. /\ waits' \in Threads \union {NoThread} /\ answer' \in Answers
      /\ waits' # NoThread => answer' = NoAnswer
    BY <1>1 DEF Respond, TypeOK, OffsetInv, WaitOK
<1>4. TypeOK'
    BY <1>1, <1>2, <1>3, TransferKept
    DEF TypeOK, ThreadTypes, StoreGrows, StoreTypes, Respond, budgetVars
<1>5. WaitOK'
    <2>1. ASSUME waits' # NoThread
          PROVE  /\ waits' = waits /\ waits # t /\ answer' = answer
                 /\ stage'[waits] = stage[waits] /\ request'[waits] = request[waits]
        BY <1>1, <2>1, <1>3 DEF Respond, Free, TypeOK
    <2> QED
        BY <1>1, <1>3, <2>1 DEF OffsetInv, WaitOK, Respond
<1>6. WorkerOK'
    <2>1. CASE waits # t
        BY <1>1, <2>1, WorkerKept DEF Respond, OffsetInv
    <2>2. CASE waits = t
        <3>1. /\ answer' = a /\ step' = step /\ transfer' = transfer /\ offset' = offset
              /\ request[t].op = step
              /\ step = "chunk" => /\ request[t].transfer = transfer
                                   /\ request[t].offset = offset
                                   /\ Len(request[t].data) = 1
            BY <2>2, ThreadsAssumption DEF Respond, OffsetInv, WaitOK
        <3>2. step \in Named => transfer \in DOMAIN sessions'
            BY <1>1, StoredGrows DEF OffsetInv, WorkerOK
        <3> QED
            BY <3>1, <3>2 DEF WorkerOK, ChunkEnd, StoredFor
    <2> QED
        BY <2>1, <2>2
<1> QED
    BY <1>2, <1>4, <1>5, <1>6 DEF OffsetInv, StoreGrows

(* A thread goes on; the worker notices nothing.                           *)
LEMMA ContinueStep ==
    ASSUME OffsetInv, StoreGrows, NEW t \in Threads, stage[t] # "free",
           NEW next \in {"write", "save"}, NEW read \in SessionRow,
           read.offset <= Len(stored'[read.version]),
           request[t].op \in Named => read.version = sessions[request[t].transfer].version,
           request[t].op = "chunk" /\ next = "save" =>
               ChunkEnd(t) <= Len(stored'[read.version]),
           Continue(t, next, read)
    PROVE  OffsetInv'
<1>1. TypeOK /\ StoreTypes
    BY DEF OffsetInv, TypeOK, StoreTypes
<1>2. ThreadTypes' /\ \A u \in Threads : ThreadOK(u)'
    BY <1>1, ThreadContinued DEF OffsetInv
<1>3. TypeOK'
    BY <1>1, <1>2, TransferKept
    DEF TypeOK, ThreadTypes, StoreGrows, StoreTypes, Continue, workerVars, budgetVars
<1>4. WaitOK'
    BY <1>1 DEF OffsetInv, WaitOK, Continue, workerVars, TypeOK
<1>5. WorkerOK'
    BY <1>1, WorkerKept DEF Continue, OffsetInv, workerVars
<1> QED
    BY <1>2, <1>3, <1>4, <1>5 DEF OffsetInv, StoreGrows

(* A thread ends without an answer.                                        *)
LEMMA FreedStep ==
    ASSUME OffsetInv, StoreGrows, NEW t \in Threads, Free(t),
           UNCHANGED <<file, workerVars, budgetVars>>
    PROVE  OffsetInv'
<1>1. TypeOK /\ StoreTypes
    BY DEF OffsetInv, TypeOK, StoreTypes
<1>2. ThreadTypes' /\ \A u \in Threads : ThreadOK(u)'
    BY <1>1, ThreadFreed DEF OffsetInv
<1>3. TypeOK'
    BY <1>1, <1>2, TransferKept
    DEF TypeOK, ThreadTypes, StoreGrows, StoreTypes, workerVars, budgetVars
<1>4. WaitOK'
    BY <1>1 DEF OffsetInv, WaitOK, Free, workerVars, TypeOK
<1>5. WorkerOK'
    BY <1>1, WorkerKept DEF OffsetInv, workerVars
<1> QED
    BY <1>2, <1>3, <1>4, <1>5 DEF OffsetInv, StoreGrows

(* The worker sends a request that fits what it knows.                     *)
LEMMA SendStep ==
    ASSUME OffsetInv, NEW t \in Threads, NEW r \in Requests, r.op # "none",
           r.op \in Named => transfer' \in DOMAIN sessions /\ r.transfer = transfer',
           r.op = "chunk" => /\ r.offset = offset' /\ Len(r.data) = 1
                             /\ offset' <= StoredFor(r.transfer),
           due' \in BOOLEAN, size' \in Nat, head' \in Seq(Values),
           transfer' \in 0..Len(sessions), offset' \in Nat, digest' \in Seq(Values),
           Send(t, r)
    PROVE  OffsetInv'
<1>1. TypeOK /\ StoreTypes
    BY DEF OffsetInv, TypeOK, StoreTypes
<1>2. StoreGrows /\ UNCHANGED <<sessions, stored, snapshots, row>>
    BY <1>1, StoreStutters DEF OffsetInv, Send, storeVars
<1>3. stage'[t] = "read" /\ request'[t] = r
    BY <1>1 DEF Send, TypeOK
<1>4. TypeOK'
    BY <1>1, <1>2, FreshRecords DEF TypeOK, Send, storeVars, budgetVars, Requests
<1>5. ASSUME NEW u \in Threads PROVE ThreadOK(u)'
    <2>1. CASE u = t
        BY <1>2, <1>3, <2>1 DEF ThreadOK, Named, OffsetInv, StoredFor
    <2>2. CASE u # t
        BY <1>1, <1>2, <2>2, ThreadKept DEF Send, OffsetInv, TypeOK
    <2> QED
        BY <2>1, <2>2
<1>6. WaitOK'
    BY <1>3 DEF WaitOK, Send, Named
<1>7. WorkerOK'
    BY <1>2, FreshRecords DEF WorkerOK, Send, NoAnswer, Answer, Named
<1> QED
    BY <1>2, <1>4, <1>5, <1>6, <1>7 DEF OffsetInv, StoreGrows

(***************************************************************************)
(* The steps of the worker.                                                *)
(***************************************************************************)
LEMMA UploadStep ==
    ASSUME OffsetInv, NEW t \in Threads, NEW id \in DOMAIN sessions, NEW at \in Nat,
           NEW hashed \in Seq(Values), at <= StoredFor(id),
           UploadNext(t, id, at, hashed)
    PROVE  OffsetInv'
<1>1. /\ file \in Seq(Values) /\ size \in Nat /\ head \in Seq(Values) /\ due \in BOOLEAN
      /\ sessions \in Seq(SessionRow)
    BY DEF OffsetInv, TypeOK
<1>2. /\ transfer' = id /\ offset' = at /\ UNCHANGED <<due, size, head>>
      /\ id \in 0..Len(sessions) /\ id \in Nat
    BY <1>1 DEF UploadNext
<1>3. CASE Len(hashed) < Len(file)
    <2> DEFINE unit == file[Len(hashed) + 1]
               r == Request("chunk", id, at, <<unit>>, 0)
    <2>1. unit \in Values
        BY <1>1, <1>3
    <2>2. Send(t, r) /\ digest' = Append(hashed, unit)
        BY <1>3 DEF UploadNext
    <2>3. r \in Requests /\ r.op = "chunk" /\ r.transfer = id /\ r.offset = at /\ Len(r.data) = 1
        BY <1>2, <2>1 DEF Request, Requests
    <2>4. digest' \in Seq(Values)
        BY <2>1, <2>2
    <2> HIDE DEF unit, r
    <2> QED
        BY <1>1, <1>2, <2>2, <2>3, <2>4, SendStep
<1>4. CASE ~(Len(hashed) < Len(file))
    <2> DEFINE r == Request("finish", id, 0, hashed, 0)
    <2>1. Send(t, r) /\ digest' = hashed
        BY <1>4 DEF UploadNext
    <2>2. r \in Requests /\ r.op = "finish" /\ r.transfer = id
        BY <1>2 DEF Request, Requests
    <2> HIDE DEF r
    <2> QED
        BY <1>1, <1>2, <2>1, <2>2, SendStep
<1> QED
    BY <1>3, <1>4

(* What the head hash is represented by is a sequence of values.           *)
LEMMA HeadType ==
    ASSUME NEW contents \in Seq(Values)
    PROVE  Head64K(contents) \in Seq(Values)
<1>1. CASE contents = <<>>
    BY <1>1 DEF Head64K
<1>2. CASE contents # <<>>
    <2>1. contents[1] \in Values
        BY <1>2
    <2> QED
        BY <1>2, <2>1 DEF Head64K
<1> QED
    BY <1>1, <1>2

(* Every step in which the worker sends a request keeps the invariant.     *)
LEMMA WorkerSends ==
    ASSUME OffsetInv, NEW t \in Threads,
           \/ BeginBackup(t) \/ Resumed(t) \/ NotResumed(t) \/ Initiated(t)
           \/ ChunkAccepted(t) \/ ChunkFailed(t)
    PROVE  OffsetInv'
<1>1. /\ TypeOK /\ WorkerOK /\ StoreTypes
      /\ file \in Seq(Values) /\ size \in Nat /\ head \in Seq(Values) /\ due \in BOOLEAN
      /\ transfer \in 0..Len(sessions) /\ offset \in Nat /\ digest \in Seq(Values)
      /\ answer.offset \in Nat
    BY DEF OffsetInv, TypeOK, StoreTypes, Answers
<1>2. CASE BeginBackup(t)
    <2> DEFINE r == Request("resume", 0, 0, Head64K(file), Len(file))
    <2>1. r \in Requests /\ r.op = "resume"
        BY <1>1, HeadType DEF Request, Requests
    <2>2. /\ Send(t, r) /\ UNCHANGED <<due, transfer, offset, digest>>
          /\ size' \in Nat /\ head' \in Seq(Values)
        BY <1>1, <1>2, HeadType DEF BeginBackup
    <2> HIDE DEF r
    <2> QED
        BY <1>1, <2>1, <2>2, SendStep DEF Named
<1>3. CASE Resumed(t)
    <2> DEFINE known == IF answer.offset < Len(file) THEN answer.offset ELSE Len(file)
    <2>1. known \in 0..Len(file)
        BY <1>1
    <2>2. SubSeq(file, 1, known) \in Seq(Values)
        BY <1>1, <2>1
    <2>3. UploadNext(t, answer.transfer, answer.offset, SubSeq(file, 1, known))
        BY <1>3 DEF Resumed
    <2>4. answer.transfer \in DOMAIN sessions /\ answer.offset <= StoredFor(answer.transfer)
        BY <1>1, <1>3 DEF Resumed, Answered, WorkerOK
    <2> HIDE DEF known
    <2> QED
        BY <1>1, <2>2, <2>3, <2>4, UploadStep
<1>4. CASE NotResumed(t)
    <2> DEFINE r == Request("init", 0, 0, head, size)
    <2>1. r \in Requests /\ r.op = "init"
        BY <1>1 DEF Request, Requests
    <2>2. Send(t, r) /\ UNCHANGED <<due, size, head, transfer, offset, digest>>
        BY <1>4 DEF NotResumed
    <2> HIDE DEF r
    <2> QED
        BY <1>1, <2>1, <2>2, SendStep DEF Named
<1>5. CASE Initiated(t)
    <2>1. answer.transfer \in DOMAIN sessions
        BY <1>1, <1>5 DEF Initiated, Answered, WorkerOK
    <2>2. 0 <= StoredFor(answer.transfer) /\ <<>> \in Seq(Values)
        BY <1>1, <2>1, SessionFacts
    <2> QED
        BY <1>5, <2>1, <2>2, UploadStep DEF Initiated
<1>6. CASE ChunkAccepted(t)
    <2>1. transfer \in DOMAIN sessions /\ offset + 1 <= StoredFor(transfer)
        BY <1>1, <1>6 DEF ChunkAccepted, Answered, WorkerOK, Named
    <2>2. UploadNext(t, transfer, offset + 1, digest) /\ offset + 1 \in Nat
        BY <1>1, <1>6 DEF ChunkAccepted
    <2> QED
        BY <1>1, <2>1, <2>2, UploadStep
<1>7. CASE ChunkFailed(t)
    <2> DEFINE r == Request("cancel", transfer, 0, <<>>, 0)
    <2>1. r \in Requests /\ r.op = "cancel" /\ r.transfer = transfer
        BY <1>1 DEF Request, Requests
    <2>2. Send(t, r) /\ UNCHANGED <<due, size, head, transfer, offset, digest>>
        BY <1>7 DEF ChunkFailed
    <2>3. transfer \in DOMAIN sessions
        BY <1>1, <1>7 DEF ChunkFailed, Answered, WorkerOK, Named
    <2> HIDE DEF r
    <2> QED
        BY <1>1, <2>1, <2>2, <2>3, SendStep
<1> QED
    BY <1>2, <1>3, <1>4, <1>5, <1>6, <1>7

(* The contents of a file are a sequence of values.                        *)
LEMMA ContentsAreSequences ==
    ASSUME NEW contents \in Contents
    PROVE  contents \in Seq(Values)
<1>1. PICK n \in 0..MaxSize : contents \in [1..n -> Values]
    BY DEF Contents
<1>2. n \in Nat
    BY <1>1, BoundsAssumption
<1> QED
    BY <1>1, <1>2

(* Steps that leave the stores and the threads alone: the worker stops or  *)
(* gives up waiting, its process restarts, the user edits the file.        *)
LEMMA WorkerRests ==
    ASSUME OffsetInv, UNCHANGED <<threadVars, storeVars>>,
           Finished \/ GaveUp \/ CancelTimesOut \/ TimeOut \/ DeviceRestart \/ Edit
    PROVE  OffsetInv'
<1>1. /\ TypeOK /\ WorkerOK /\ WaitOK /\ StoreTypes
    BY DEF OffsetInv, TypeOK, StoreTypes
<1>2. StoreGrows /\ OffsetIsStored'
    BY <1>1, StoreStutters DEF OffsetInv, StoreGrows
<1>3. \A t \in Threads : ThreadOK(t)'
    BY <1>1, ThreadKept, <1>2 DEF OffsetInv, threadVars
<1>4. file' \in Seq(Values)
    <2>1. file' = file \/ file' \in Contents
        BY DEF Finished, GaveUp, Stop, CancelTimesOut, TimeOut, DeviceRestart, Edit
    <2> QED
        BY <1>1, <2>1, ContentsAreSequences DEF TypeOK
<1>5. /\ due' \in {due, TRUE, FALSE}
      /\ step' \in {step, "idle"} /\ waits' \in {waits, NoThread}
      /\ answer' \in {answer, NoAnswer, Failed}
      /\ UNCHANGED <<size, head, transfer, offset, digest>>
    BY DEF Finished, GaveUp, Stop, CancelTimesOut, TimeOut, GiveUpWaiting,
        DeviceRestart, Edit
<1>6. /\ edits' \in 0..MaxEdits /\ failures' \in 0..MaxFailures
      /\ restarts' \in 0..MaxRestarts
    <2>1. edits \in 0..MaxEdits /\ failures \in 0..MaxFailures /\ restarts \in 0..MaxRestarts
        BY <1>1 DEF TypeOK
    <2>2. /\ edits' = edits \/ (edits < MaxEdits /\ edits' = edits + 1)
          /\ failures' = failures \/ (failures < MaxFailures /\ failures' = failures + 1)
          /\ restarts' = restarts \/ (restarts < MaxRestarts /\ restarts' = restarts + 1)
        BY DEF Finished, GaveUp, Stop, CancelTimesOut, TimeOut, DeviceRestart, Edit, budgetVars
    <2> QED
        BY <2>1, <2>2, BoundsAssumption
<1>7. TypeOK'
    BY <1>1, <1>4, <1>5, <1>6, FreshRecords DEF TypeOK, threadVars, storeVars
<1>8. WaitOK'
    BY <1>1 DEF Finished, GaveUp, Stop, CancelTimesOut, TimeOut, GiveUpWaiting,
        DeviceRestart, Edit, threadVars, WaitOK, Answered
<1>9. WorkerOK'
    BY <1>1, <1>5 DEF WorkerOK, storeVars, StoredFor, Failed, NoAnswer, Answer, Named,
        Finished, GaveUp, Stop, CancelTimesOut, TimeOut, GiveUpWaiting,
        DeviceRestart, Edit
<1> QED
    BY <1>2, <1>3, <1>7, <1>8, <1>9 DEF OffsetInv

(***************************************************************************)
(* The steps of the request threads.                                       *)
(***************************************************************************)
(* Writing at or before the end leaves no hole and shortens nothing.       *)
LEMMA WriteAtFacts ==
    ASSUME NEW contents \in Seq(Values \union {Hole}), NEW data \in Seq(Values),
           NEW at \in Nat, at <= Len(contents),
           \A i \in DOMAIN contents : contents[i] # Hole
    PROVE  /\ WriteAt(contents, at, data) \in Seq(Values \union {Hole})
           /\ Len(contents) <= Len(WriteAt(contents, at, data))
           /\ at + Len(data) <= Len(WriteAt(contents, at, data))
           /\ \A i \in DOMAIN WriteAt(contents, at, data) :
                WriteAt(contents, at, data)[i] # Hole
<1> DEFINE n == IF Len(contents) < at + Len(data) THEN at + Len(data) ELSE Len(contents)
           unit(i) == IF i \in at + 1..at + Len(data) THEN data[i - at]
                      ELSE IF i <= Len(contents) THEN contents[i] ELSE Hole
<1>1. n \in Nat /\ Len(contents) <= n /\ at + Len(data) <= n
    OBVIOUS
<1>2. ASSUME NEW i \in 1..n PROVE unit(i) \in Values
    <2>1. CASE i \in at + 1..at + Len(data)
        <3>1. i - at \in 1..Len(data)
            BY <2>1
        <3> QED
            BY <2>1, <3>1
    <2>2. CASE i \notin at + 1..at + Len(data)
        <3>1. i \in DOMAIN contents
            BY <2>2
        <3>2. contents[i] \in Values
            BY <3>1
        <3> QED
            BY <2>2, <3>1, <3>2
    <2> QED
        BY <2>1, <2>2
<1>3. WriteAt(contents, at, data) = [i \in 1..n |-> unit(i)]
    BY DEF WriteAt
<1> HIDE DEF n, unit
<1> QED
    BY <1>1, <1>2, <1>3, ValuesAssumption

(* Saving a row that fits, for the session it belongs to.                  *)
LEMMA SaveRowGrows ==
    ASSUME OffsetInv, NEW t \in Threads, NEW session \in SessionRow,
           stage[t] # "free", request[t].op \in Named,
           session.version = sessions[request[t].transfer].version,
           session.offset <= Len(stored[session.version]),
           SaveRow(t, session)
    PROVE  StoreGrows
<1>1. StoreTypes /\ OffsetIsStored
    BY DEF OffsetInv, TypeOK, StoreTypes
<1>2. PICK id \in DOMAIN sessions : id = request[t].transfer
    BY DEF OffsetInv, ThreadOK
<1>3. sessions' = [sessions EXCEPT ![id] = session] /\ UNCHANGED <<snapshots, stored>>
    BY <1>2 DEF SaveRow
<1>4. StoreTypes' /\ DOMAIN sessions' = DOMAIN sessions /\ Len(sessions') = Len(sessions)
    BY <1>1, <1>3 DEF StoreTypes
<1>5. \A i \in DOMAIN sessions :
        sessions'[i] = IF i = id THEN session ELSE sessions[i]
    BY <1>1, <1>3 DEF StoreTypes
<1>6. OffsetIsStored'
    BY <1>1, <1>3, <1>4, <1>5 DEF OffsetIsStored
<1>7. \A v \in Versions : Len(stored[v]) \in Nat
    BY <1>1 DEF StoreTypes
<1> QED
    BY <1>1, <1>2, <1>3, <1>4, <1>5, <1>6, <1>7 DEF StoreGrows, StoreTypes

(* InitSession's insert adds a session that claims nothing yet.            *)
LEMMA CreateSessionGrows ==
    ASSUME OffsetInv, NEW t \in Threads, CreateSession(t)
    PROVE  StoreGrows /\ Len(sessions) + 1 \in DOMAIN sessions'
<1>1. StoreTypes /\ OffsetIsStored /\ row[t] \in SessionRow
    BY DEF OffsetInv, TypeOK, StoreTypes
<1>2. sessions' = Append(sessions, row[t]) /\ UNCHANGED <<snapshots, stored>>
    BY DEF CreateSession
<1>3. /\ StoreTypes' /\ Len(sessions') = Len(sessions) + 1 /\ Len(sessions) \in Nat
      /\ \A i \in DOMAIN sessions' :
           sessions'[i] = IF i = Len(sessions) + 1 THEN row[t] ELSE sessions[i]
    BY <1>1, <1>2 DEF StoreTypes
<1>4. \A i \in DOMAIN sessions' : i = Len(sessions) + 1 \/ i \in DOMAIN sessions
    BY <1>1, <1>3 DEF StoreTypes
<1>5. OffsetIsStored'
    BY <1>1, <1>2, <1>3, <1>4 DEF OffsetIsStored, OffsetInv, ThreadOK
<1>6. \A v \in Versions : Len(stored[v]) \in Nat
    BY <1>1 DEF StoreTypes
<1>7. /\ Len(sessions) + 1 \in DOMAIN sessions'
      /\ \A i \in DOMAIN sessions : i \in DOMAIN sessions' /\ i # Len(sessions) + 1
    BY <1>1, <1>3 DEF StoreTypes
<1> QED
    BY <1>2, <1>3, <1>5, <1>6, <1>7 DEF StoreGrows

(* UpdateChunk's write covers the chunk it was sent.                       *)
LEMMA WriteChunkGrows ==
    ASSUME OffsetInv, NEW t \in Threads, WriteChunk(t)
    PROVE  /\ StoreGrows
           /\ row[t].version \in Versions /\ row[t].offset \in Nat /\ ChunkEnd(t) \in Nat
           /\ row[t].version = sessions'[request[t].transfer].version
           /\ ChunkEnd(t) <= Len(stored'[row[t].version])
           /\ row[t].offset <= Len(stored'[row[t].version])
<1>1. /\ StoreTypes /\ OffsetIsStored /\ row[t] \in SessionRow /\ request[t] \in Requests
      /\ ThreadOK(t) /\ stage[t] = "write" /\ request[t].op = "chunk"
    BY DEF OffsetInv, TypeOK, StoreTypes, WriteChunk, Writes
<1> DEFINE v == row[t].version
           at == request[t].offset
           data == request[t].data
           old == stored[v]
<1>2. /\ v \in Versions /\ at \in Nat /\ data \in Seq(Values) /\ row[t].offset \in Nat
      /\ ChunkEnd(t) = at + Len(data) /\ Len(data) \in Nat
    BY <1>1 DEF SessionRow, Requests, ChunkEnd
<1>3. request[t].transfer \in DOMAIN sessions /\ v = sessions[request[t].transfer].version
    BY <1>1 DEF ThreadOK, Named
<1>4. /\ old \in Seq(Values \union {Hole}) /\ at <= Len(old) /\ row[t].offset <= Len(old)
      /\ \A i \in DOMAIN old : old[i] # Hole
    BY <1>1, <1>2, <1>3 DEF StoreTypes, OffsetIsStored, ThreadOK, StoredFor
<1>5. /\ WriteAt(old, at, data) \in Seq(Values \union {Hole})
      /\ Len(old) <= Len(WriteAt(old, at, data))
      /\ at + Len(data) <= Len(WriteAt(old, at, data))
      /\ \A i \in DOMAIN WriteAt(old, at, data) : WriteAt(old, at, data)[i] # Hole
    BY <1>2, <1>4, WriteAtFacts
<1>6. /\ stored' = [stored EXCEPT ![v] = WriteAt(old, at, data)]
      /\ UNCHANGED <<sessions, snapshots>>
    BY DEF WriteChunk
<1>7. /\ stored' \in [Versions -> Seq(Values \union {Hole})]
      /\ \A w \in Versions : stored'[w] = IF w = v THEN WriteAt(old, at, data) ELSE stored[w]
    BY <1>1, <1>2, <1>5, <1>6 DEF StoreTypes
<1> HIDE DEF v, at, data
<1>8. ASSUME NEW w \in Versions
      PROVE  /\ Len(stored[w]) \in Nat /\ Len(stored'[w]) \in Nat
             /\ Len(stored[w]) <= Len(stored'[w])
    <2>1. Len(stored[w]) \in Nat /\ Len(stored'[w]) \in Nat
        BY <1>1, <1>7 DEF StoreTypes
    <2>2. CASE w = v
        BY <1>5, <1>7, <2>2
    <2>3. CASE w # v
        BY <1>7, <2>1, <2>3
    <2> QED
        BY <2>1, <2>2, <2>3
<1>9. \A i \in DOMAIN sessions : sessions[i].version \in Versions /\ sessions[i].offset \in Nat
    BY <1>1, SessionFacts
<1>10. OffsetIsStored'
    <2>1. \A i \in DOMAIN sessions : sessions[i].offset <= Len(stored'[sessions[i].version])
        BY <1>1, <1>8, <1>9 DEF OffsetIsStored
    <2>2. \A w \in Versions : \A i \in DOMAIN stored'[w] : stored'[w][i] # Hole
        BY <1>1, <1>5, <1>7 DEF OffsetIsStored
    <2> QED
        BY <1>6, <2>1, <2>2 DEF OffsetIsStored
<1>11. StoreGrows
    BY <1>1, <1>6, <1>7, <1>8, <1>10 DEF StoreGrows, StoreTypes
<1>12. Len(stored'[v]) \in Nat /\ Len(old) \in Nat /\ Len(stored'[v]) = Len(WriteAt(old, at, data))
    BY <1>2, <1>4, <1>7, <1>8
<1> HIDE DEF old
<1>13. ChunkEnd(t) <= Len(stored'[v]) /\ row[t].offset <= Len(stored'[v]) /\ ChunkEnd(t) \in Nat
    BY <1>2, <1>4, <1>5, <1>12
<1> QED
    BY <1>2, <1>3, <1>6, <1>11, <1>13 DEF v

(* An answer that carries nothing but a status.                            *)
LEMMA PlainAnswer ==
    ASSUME OffsetInv, StoreGrows, NEW t \in Threads, stage[t] # "free",
           NEW status \in {"ok", "not_found", "mismatch"}, request[t].op # "init",
           request[t].op = "chunk" =>
               ChunkEnd(t) <= Len(stored'[sessions'[request[t].transfer].version]),
           Respond(t, Answer(status, 0, 0))
    PROVE  OffsetInv'
<1>1. PICK a \in Answers : a = Answer(status, 0, 0)
    BY DEF Answer, Answers
<1>2. a # NoAnswer /\ a.status # "found" /\ Respond(t, a)
    BY <1>1 DEF Answer, NoAnswer
<1> QED
    BY <1>2, RespondStep

(* Every step of a request thread keeps the invariant.                     *)
LEMMA HandlerPreserves ==
    ASSUME OffsetInv, NEW t \in Threads, HandlerStep(t)
    PROVE  OffsetInv'
<1>1. /\ TypeOK /\ StoreTypes /\ OffsetIsStored /\ ThreadOK(t)
      /\ row[t] \in SessionRow /\ request[t] \in Requests
      /\ row[t].version \in Versions /\ row[t].offset \in Nat
    BY DEF OffsetInv, TypeOK, StoreTypes, SessionRow
<1>2. UNCHANGED storeVars => StoreGrows /\ UNCHANGED <<sessions, stored, snapshots>>
    BY <1>1, StoreStutters DEF storeVars
<1>3. ASSUME NEW op, Reads(t, op) \/ Writes(t, op) \/ Saves(t, op)
      PROVE  stage[t] # "free" /\ request[t].op = op
    BY <1>3 DEF Reads, Writes, Saves
<1>4. Failed \in Answers /\ Failed # NoAnswer /\ Failed.status = "failed"
    BY FreshRecords DEF Failed, Answer
<1>5. ASSUME NEW id \in Nat, NEW at \in Nat,
             NEW status \in {"ok", "found"}
      PROVE  /\ Answer(status, id, at) \in Answers
             /\ Answer(status, id, at) # NoAnswer /\ Answer(status, id, at) # Failed
             /\ Answer(status, id, at).status = status
             /\ Answer(status, id, at).transfer = id /\ Answer(status, id, at).offset = at
    BY DEF Answer, Answers, NoAnswer, Failed
<1>6. CASE HandleBackupResume(t)
    <2>1. stage[t] # "free" /\ request[t].op = "resume" /\ StoreGrows
          /\ UNCHANGED <<sessions, stored, snapshots>>
        BY <1>2, <1>3, <1>6 DEF HandleBackupResume
    <2>2. CASE Respond(t, Answer("not_found", 0, 0))
        BY <2>1, <2>2, PlainAnswer
    <2>3. ASSUME NEW i \in Active,
                 Respond(t, IF SameFile(sessions[i], request[t])
                              THEN Answer("found", i, sessions[i].offset)
                              ELSE Answer("mismatch", 0, 0))
          PROVE  OffsetInv'
        <3>1. /\ i \in DOMAIN sessions /\ i \in Nat
              /\ sessions[i].offset \in Nat /\ sessions[i].offset <= StoredFor(i)
            BY <1>1, <2>3, SessionFacts DEF Active, OffsetIsStored, StoredFor, StoreTypes
        <3>2. i \in DOMAIN sessions' /\ sessions[i].offset <= StoredFor(i)'
            BY <2>1, <3>1 DEF StoredFor
        <3>3. CASE SameFile(sessions[i], request[t])
            <4>1. PICK b \in Answers : b = Answer("found", i, sessions[i].offset)
                BY <1>5, <3>1
            <4>2. /\ b # NoAnswer /\ b.transfer = i /\ b.offset = sessions[i].offset
                BY <1>5, <3>1, <4>1
            <4>3. Respond(t, b)
                BY <2>3, <3>3, <4>1
            <4> QED
                BY <2>1, <3>2, <4>2, <4>3, RespondStep
        <3>4. CASE ~SameFile(sessions[i], request[t])
            <4>1. Respond(t, Answer("mismatch", 0, 0))
                BY <2>3, <3>4
            <4> QED
                BY <2>1, <4>1, PlainAnswer
        <3> QED
            BY <3>3, <3>4
    <2> QED
        BY <1>6, <2>2, <2>3 DEF HandleBackupResume
<1>7. CASE ReadLatestVersion(t)
    <2> DEFINE new == Session(LatestVersion + 1, request[t].size, request[t].data)
    <2>1. /\ new \in SessionRow /\ new.offset = 0 /\ new.version \in Versions
        BY <1>1, <1>7 DEF ReadLatestVersion, Session, SessionRow, Requests
    <2>2. /\ stage[t] # "free" /\ request[t].op = "init" /\ StoreGrows
          /\ Continue(t, "save", new)
        BY <1>2, <1>3, <1>7 DEF ReadLatestVersion
    <2> HIDE DEF new
    <2>3. new.offset <= Len(stored'[new.version])
        BY <2>1, <2>2 DEF StoreGrows, StoreTypes
    <2> QED
        BY <2>1, <2>2, <2>3, ContinueStep DEF Named
<1>8. CASE CreateSession(t)
    <2>1. StoreGrows /\ Len(sessions) + 1 \in DOMAIN sessions' /\ Len(sessions) + 1 \in Nat
        BY <1>1, <1>8, CreateSessionGrows DEF StoreTypes
    <2>2. /\ stage[t] # "free" /\ request[t].op = "init"
          /\ Respond(t, Answer("ok", Len(sessions) + 1, 0))
        BY <1>3, <1>8 DEF CreateSession
    <2> QED
        BY <1>5, <2>1, <2>2, RespondStep
<1>9. CASE ReadSession(t)
    <2> DEFINE session == sessions[request[t].transfer]
    <2>1. /\ stage[t] # "free" /\ request[t].op \in {"chunk", "finish"} /\ StoreGrows
          /\ UNCHANGED <<sessions, stored, snapshots>>
        BY <1>2, <1>3, <1>9 DEF ReadSession
    <2>2. CASE Reject(t)
        BY <1>4, <2>1, <2>2, RespondStep DEF Reject
    <2>3. CASE Continue(t, "write", session)
        <3>1. request[t].transfer \in DOMAIN sessions
            BY <1>1, <2>1 DEF ThreadOK, Named
        <3>2. session \in SessionRow /\ session.offset <= Len(stored'[session.version])
            BY <1>1, <2>1, <3>1, SessionFacts DEF OffsetIsStored
        <3> QED
            BY <2>1, <2>3, <3>2, ContinueStep
    <2> QED
        BY <1>9, <2>2, <2>3 DEF ReadSession
<1>10. CASE WriteChunk(t)
    <2>1. /\ StoreGrows
          /\ row[t].version = sessions'[request[t].transfer].version
          /\ ChunkEnd(t) <= Len(stored'[row[t].version])
          /\ row[t].offset <= Len(stored'[row[t].version])
        BY <1>10, WriteChunkGrows
    <2>2. /\ stage[t] # "free" /\ request[t].op = "chunk"
          /\ row[t].version = sessions[request[t].transfer].version
        BY <1>1, <1>10 DEF WriteChunk, Writes, ThreadOK, Named
    <2>3. CASE Accept(t)
        BY <2>1, <2>2, <2>3, PlainAnswer DEF Accept
    <2>4. CASE Continue(t, "save", row[t])
        BY <1>1, <2>1, <2>2, <2>4, ContinueStep
    <2> QED
        BY <1>10, <2>3, <2>4 DEF WriteChunk
<1>11. CASE SaveOffset(t)
    <2> DEFINE session == [row[t] EXCEPT !.offset = ChunkEnd(t)]
    <2>1. /\ stage[t] = "save" /\ request[t].op = "chunk"
          /\ row[t].version = sessions[request[t].transfer].version
          /\ ChunkEnd(t) <= Len(stored[row[t].version])
        BY <1>1, <1>11 DEF SaveOffset, Saves, ThreadOK, Named, StoredFor
    <2>2. /\ session \in SessionRow /\ session.version = row[t].version
          /\ session.offset = ChunkEnd(t)
        BY <1>1 DEF SessionRow, ChunkEnd, Requests
    <2>3. SaveRow(t, session) /\ Accept(t) /\ UNCHANGED stored
        BY <1>11 DEF SaveOffset, SaveRow
    <2> HIDE DEF session
    <2>4. StoreGrows
        BY <2>1, <2>2, <2>3, SaveRowGrows DEF Named
    <2>5. sessions'[request[t].transfer].version = row[t].version
        BY <1>1, <2>1, <2>4 DEF StoreGrows, ThreadOK, Named
    <2> QED
        BY <2>1, <2>3, <2>4, <2>5, PlainAnswer DEF Accept
<1>12. CASE CreateSnapshot(t)
    <2>1. /\ stage[t] = "write" /\ request[t].op = "finish" /\ Continue(t, "save", row[t])
          /\ UNCHANGED <<sessions, stored>>
        BY <1>12 DEF CreateSnapshot, Writes
    <2>2. snapshots' \in Seq([version : Versions, size : Nat, hash : Seq(Values)])
        BY <1>1, <1>12 DEF CreateSnapshot, StoreTypes, SessionRow, Requests
    <2>3. StoreGrows
        <3>1. Len(sessions) \in Nat /\ \A v \in Versions : Len(stored[v]) \in Nat
            BY <1>1 DEF StoreTypes
        <3> QED
            BY <1>1, <2>1, <2>2, <3>1 DEF StoreGrows, StoreTypes, OffsetIsStored
    <2> QED
        BY <1>1, <2>1, <2>3, ContinueStep DEF ThreadOK, Named
<1>13. CASE MarkDone(t)
    <2> DEFINE session == [row[t] EXCEPT !.status = "DONE"]
    <2>1. /\ stage[t] = "save" /\ request[t].op = "finish" /\ SaveRow(t, session) /\ Accept(t)
        BY <1>13 DEF MarkDone, Saves
    <2>2. /\ session \in SessionRow /\ session.version = row[t].version
          /\ session.offset = row[t].offset
        BY <1>1 DEF SessionRow
    <2> HIDE DEF session
    <2>3. StoreGrows
        BY <1>1, <2>1, <2>2, SaveRowGrows DEF Named, ThreadOK
    <2> QED
        BY <2>1, <2>3, PlainAnswer DEF Accept
<1>14. CASE ReadForCancel(t)
    <2> DEFINE session == sessions[request[t].transfer]
    <2>1. /\ stage[t] # "free" /\ request[t].op = "cancel" /\ StoreGrows
          /\ UNCHANGED <<sessions, stored, snapshots>> /\ Continue(t, "save", session)
        BY <1>2, <1>3, <1>14 DEF ReadForCancel
    <2>2. request[t].transfer \in DOMAIN sessions
        BY <1>1, <2>1 DEF ThreadOK, Named
    <2>3. session \in SessionRow /\ session.offset <= Len(stored'[session.version])
        BY <1>1, <2>1, <2>2, SessionFacts DEF OffsetIsStored
    <2> QED
        BY <2>1, <2>3, ContinueStep
<1>15. CASE MarkCanceled(t)
    <2> DEFINE session == [row[t] EXCEPT !.status = "CANCELED"]
    <2>1. /\ stage[t] = "save" /\ request[t].op = "cancel" /\ SaveRow(t, session) /\ Free(t)
          /\ UNCHANGED <<file, workerVars, budgetVars>>
        BY <1>15 DEF MarkCanceled, Saves
    <2>2. /\ session \in SessionRow /\ session.version = row[t].version
          /\ session.offset = row[t].offset
        BY <1>1 DEF SessionRow
    <2> HIDE DEF session
    <2>3. StoreGrows
        BY <1>1, <2>1, <2>2, SaveRowGrows DEF Named, ThreadOK
    <2> QED
        BY <2>1, <2>3, FreedStep
<1> QED
    BY <1>6, <1>7, <1>8, <1>9, <1>10, <1>11, <1>12, <1>13, <1>14, <1>15 DEF HandlerStep

(* A lost request keeps the invariant.                                     *)
LEMMA RequestLostPreserves ==
    ASSUME OffsetInv, NEW t \in Threads, RequestLost(t)
    PROVE  OffsetInv'
<1>1. TypeOK /\ StoreTypes /\ OffsetIsStored
    BY DEF OffsetInv, TypeOK, StoreTypes
<1>2. StoreGrows
    BY <1>1, StoreStutters DEF RequestLost
<1>3. ThreadTypes' /\ \A u \in Threads : ThreadOK(u)'
    BY <1>1, <1>2, ThreadFreed DEF OffsetInv, RequestLost
<1>4. failures' \in 0..MaxFailures
    BY <1>1, BoundsAssumption DEF RequestLost, TypeOK
<1>5. TypeOK'
    BY <1>1, <1>2, <1>3, <1>4, TransferKept, FreshRecords
    DEF TypeOK, ThreadTypes, StoreGrows, StoreTypes, RequestLost, GiveUpWaiting
<1>6. WaitOK'
    BY DEF WaitOK, RequestLost, GiveUpWaiting
<1>7. WorkerOK'
    BY DEF OffsetInv, WorkerOK, RequestLost, GiveUpWaiting, storeVars, StoredFor,
        Failed, Answer
<1> QED
    BY <1>2, <1>3, <1>5, <1>6, <1>7 DEF OffsetInv, StoreGrows

(* A restart of the server keeps the invariant.                            *)
LEMMA ServerRestartPreserves ==
    ASSUME OffsetInv, ServerRestart
    PROVE  OffsetInv'
<1>1. TypeOK /\ StoreTypes /\ OffsetIsStored
    BY DEF OffsetInv, TypeOK, StoreTypes
<1>2. StoreGrows
    BY <1>1, StoreStutters DEF ServerRestart
<1>3. ASSUME NEW t \in Threads PROVE ThreadOK(t)'
    BY <1>2, IdleThread DEF ServerRestart, StoreGrows
<1>4. ThreadTypes'
    BY FreshRecords DEF ThreadTypes, ServerRestart
<1>5. restarts' \in 0..MaxRestarts
    BY <1>1, BoundsAssumption DEF ServerRestart, TypeOK
<1>6. TypeOK'
    BY <1>1, <1>2, <1>4, <1>5, TransferKept, FreshRecords
    DEF TypeOK, ThreadTypes, StoreGrows, StoreTypes, ServerRestart, GiveUpWaiting
<1>7. WaitOK'
    BY DEF WaitOK, ServerRestart, GiveUpWaiting
<1>8. WorkerOK'
    <2>1. answer' \in {answer, Failed}
        BY DEF ServerRestart, GiveUpWaiting
    <2> QED
        BY <2>1 DEF OffsetInv, WorkerOK, ServerRestart, storeVars, StoredFor, Failed, Answer
<1> QED
    BY <1>2, <1>3, <1>6, <1>7, <1>8 DEF OffsetInv, StoreGrows

(* The invariant holds before the first upload.                            *)
LEMMA OffsetInvInitially == Init => OffsetInv
<1> SUFFICES ASSUME Init PROVE OffsetInv
    OBVIOUS
<1>1. file \in Seq(Values)
    BY ContentsAreSequences DEF Init
<1>2. TypeOK
    BY <1>1, FreshRecords, BoundsAssumption DEF Init, TypeOK
<1>3. OffsetIsStored
    BY DEF Init, OffsetIsStored
<1>4. \A t \in Threads : ThreadOK(t)
    BY FreshRecords DEF Init, ThreadOK
<1>5. WaitOK /\ WorkerOK
    BY DEF Init, WaitOK, WorkerOK, Named
<1> QED
    BY <1>2, <1>3, <1>4, <1>5 DEF OffsetInv

(* Every step keeps the invariant.                                         *)
LEMMA OffsetInvNext == OffsetInv /\ [Next]_vars => OffsetInv'
<1> SUFFICES ASSUME OffsetInv, [Next]_vars PROVE OffsetInv'
    OBVIOUS
<1>1. ASSUME NEW t \in Threads,
             \/ BeginBackup(t) \/ Resumed(t) \/ NotResumed(t) \/ Initiated(t)
             \/ ChunkAccepted(t) \/ ChunkFailed(t)
      PROVE  OffsetInv'
    BY <1>1, WorkerSends
<1>2. CASE Finished \/ GaveUp \/ CancelTimesOut \/ TimeOut \/ DeviceRestart \/ Edit
    <2>1. UNCHANGED <<threadVars, storeVars>>
        BY <1>2 DEF Finished, GaveUp, Stop, CancelTimesOut, TimeOut, DeviceRestart, Edit
    <2> QED
        BY <1>2, <2>1, WorkerRests
<1>3. ASSUME NEW t \in Threads, HandlerStep(t) PROVE OffsetInv'
    BY <1>3, HandlerPreserves
<1>4. ASSUME NEW t \in Threads, RequestLost(t) PROVE OffsetInv'
    BY <1>4, RequestLostPreserves
<1>5. CASE ServerRestart
    BY <1>5, ServerRestartPreserves
<1>6. CASE UNCHANGED vars
    <2>1. /\ UNCHANGED <<file, workerVars, threadVars, storeVars, budgetVars>>
        BY <1>6 DEF vars
    <2>2. TypeOK' /\ OffsetIsStored'
        BY <2>1 DEF OffsetInv, TypeOK, OffsetIsStored, workerVars, threadVars, storeVars,
            budgetVars
    <2>3. (\A t \in Threads : ThreadOK(t)') /\ WaitOK' /\ WorkerOK'
        BY <2>1 DEF OffsetInv, ThreadOK, WaitOK, WorkerOK, StoredFor, ChunkEnd,
            workerVars, threadVars, storeVars
    <2> QED
        BY <2>2, <2>3 DEF OffsetInv
<1> QED
    BY <1>1, <1>2, <1>3, <1>4, <1>5, <1>6 DEF Next, WorkerStep

(* The invariant holds always.                                             *)
LEMMA OffsetInvariance == Spec => []OffsetInv
BY OffsetInvInitially, OffsetInvNext, PTL DEF Spec

(* Type correctness of the upload.                                         *)
THEOREM TypeCorrect == Spec => []TypeOK
<1>1. OffsetInv => TypeOK
    BY DEF OffsetInv
<1> QED
    BY <1>1, OffsetInvariance, PTL

(* Whatever is lost, late or restarted, current_offset is covered by the   *)
(* stored file, and the stored file has no holes: resuming an upload at    *)
(* current_offset leaves nothing out.                                      *)
THEOREM OffsetsAreStored == Spec => []OffsetIsStored
<1>1. OffsetInv => OffsetIsStored
    BY DEF OffsetInv
<1> QED
    BY <1>1, OffsetInvariance, PTL

(***************************************************************************)
(* As long as the file is not edited (edits = 0), whatever is in flight is *)
(* a piece of it.                                                          *)
(***************************************************************************)
BeginsFile(contents) ==
    Len(contents) <= Len(file) /\ \A i \in 1..Len(contents) : contents[i] = file[i]

(* What is stored begins the file, and sessions and snapshots know its     *)
(* size.                                                                   *)
StoreFaithful ==
    /\ \A v \in Versions : BeginsFile(stored[v])
    /\ \A i \in DOMAIN sessions : sessions[i].size = Len(file)
    /\ \A i \in DOMAIN snapshots :
            /\ snapshots[i].size = Len(file)
            /\ snapshots[i].hash = file
            /\ stored[snapshots[i].version] = file

(* A thread writes the unit that belongs at its offset, and finishes only  *)
(* what is stored to the end.                                              *)
ThreadFaithful(t) ==
    stage[t] # "free" =>
        /\ request[t].op = "init" => request[t].size = Len(file)
        /\ stage[t] \in {"write", "save"} => row[t].size = Len(file)
        /\ request[t].op = "chunk" =>
             /\ request[t].offset < Len(file)
             /\ request[t].data = <<file[request[t].offset + 1]>>
        /\ request[t].op = "finish" =>
             request[t].data = file /\ StoredFor(request[t].transfer) = Len(file)

WorkerFaithful ==
    /\ step # "idle" => size = Len(file)
    /\ step = "chunk" => Len(digest) = offset + 1 /\ BeginsFile(digest)

Faithful == StoreFaithful /\ WorkerFaithful /\ \A t \in Threads : ThreadFaithful(t)

UneditedInv == edits = 0 => Faithful

(* Every step lets the stores grow.                                        *)
LEMMA StepGrows ==
    ASSUME OffsetInv, [Next]_vars
    PROVE  StoreGrows
<1>1. TypeOK /\ StoreTypes /\ OffsetIsStored /\ \A t \in Threads : ThreadOK(t)
    BY DEF OffsetInv, TypeOK, StoreTypes
<1>2. UNCHANGED storeVars => StoreGrows
    BY <1>1, StoreStutters
<1>3. ASSUME NEW t \in Threads, NEW status,
             stage[t] # "free", request[t].op \in Named,
             row[t].version = sessions[request[t].transfer].version,
             SaveRow(t, [row[t] EXCEPT !.status = status]),
             status \in {"DONE", "CANCELED"}
      PROVE  StoreGrows
    <2> DEFINE session == [row[t] EXCEPT !.status = status]
    <2>1. row[t] \in SessionRow
        BY <1>1 DEF TypeOK
    <2>2. /\ session \in SessionRow /\ session.version = row[t].version
          /\ session.offset = row[t].offset
        BY <1>3, <2>1 DEF SessionRow
    <2>3. SaveRow(t, session) /\ row[t].offset <= Len(stored[row[t].version])
        BY <1>1, <1>3 DEF ThreadOK
    <2> HIDE DEF session
    <2> QED
        BY <1>3, <2>2, <2>3, SaveRowGrows
<1>4. ASSUME NEW t \in Threads, HandlerStep(t) PROVE StoreGrows
    <2>1. CASE CreateSession(t)
        BY <2>1, CreateSessionGrows
    <2>2. CASE WriteChunk(t)
        BY <2>2, WriteChunkGrows
    <2>3. CASE SaveOffset(t)
        <3> DEFINE session == [row[t] EXCEPT !.offset = ChunkEnd(t)]
        <3>1. /\ stage[t] = "save" /\ request[t].op = "chunk"
              /\ row[t].version = sessions[request[t].transfer].version
              /\ ChunkEnd(t) <= Len(stored[row[t].version])
            BY <1>1, <2>3 DEF SaveOffset, Saves, ThreadOK, Named, StoredFor
        <3>2. row[t] \in SessionRow /\ ChunkEnd(t) \in Nat
            BY <1>1 DEF TypeOK, ChunkEnd, Requests
        <3>3. /\ session \in SessionRow /\ session.version = row[t].version
              /\ session.offset = ChunkEnd(t)
            BY <3>2 DEF SessionRow
        <3>4. SaveRow(t, session)
            BY <2>3 DEF SaveOffset
        <3> HIDE DEF session
        <3> QED
            BY <3>1, <3>3, <3>4, SaveRowGrows DEF Named
    <2>4. CASE CreateSnapshot(t)
        <3>1. row[t] \in SessionRow /\ request[t] \in Requests
            BY <1>1 DEF TypeOK
        <3>2. snapshots' \in Seq([version : Versions, size : Nat, hash : Seq(Values)])
            BY <1>1, <2>4, <3>1 DEF CreateSnapshot, StoreTypes, SessionRow, Requests
        <3>3. Len(sessions) \in Nat /\ \A v \in Versions : Len(stored[v]) \in Nat
            BY <1>1 DEF StoreTypes
        <3>4. UNCHANGED <<sessions, stored>>
            BY <2>4 DEF CreateSnapshot
        <3> QED
            BY <1>1, <3>2, <3>3, <3>4 DEF StoreGrows, StoreTypes, OffsetIsStored
    <2>5. CASE MarkDone(t)
        <3>1. stage[t] = "save" /\ request[t].op = "finish"
              /\ SaveRow(t, [row[t] EXCEPT !.status = "DONE"])
            BY <2>5 DEF MarkDone, Saves
        <3> QED
            BY <1>1, <1>3, <3>1 DEF ThreadOK, Named
    <2>6. CASE MarkCanceled(t)
        <3>1. stage[t] = "save" /\ request[t].op = "cancel"
              /\ SaveRow(t, [row[t] EXCEPT !.status = "CANCELED"])
            BY <2>6 DEF MarkCanceled, Saves
        <3> QED
            BY <1>1, <1>3, <3>1 DEF ThreadOK, Named
    <2>7. CASE HandleBackupResume(t) \/ ReadLatestVersion(t) \/ ReadSession(t) \/ ReadForCancel(t)
        BY <1>2, <2>7 DEF HandleBackupResume, ReadLatestVersion, ReadSession, ReadForCancel
    <2> QED
        BY <1>4, <2>1, <2>2, <2>3, <2>4, <2>5, <2>6, <2>7 DEF HandlerStep
<1>5. ASSUME NEW t \in Threads, RequestLost(t) PROVE StoreGrows
    BY <1>2, <1>5 DEF RequestLost
<1>6. CASE WorkerStep \/ TimeOut \/ ServerRestart \/ DeviceRestart \/ Edit \/ UNCHANGED vars
    <2>1. UNCHANGED storeVars
        BY <1>6 DEF WorkerStep, BeginBackup, Resumed, NotResumed, Initiated, ChunkAccepted,
            ChunkFailed, UploadNext, Send, Finished, GaveUp, Stop, CancelTimesOut, TimeOut,
            ServerRestart, DeviceRestart, Edit, vars
    <2> QED
        BY <1>2, <2>1
<1> QED
    BY <1>4, <1>5, <1>6 DEF Next

(* What begins the file and is as long is the file.                        *)
LEMMA WholeFile ==
    ASSUME NEW contents \in Seq(Values \union {Hole}), file \in Seq(Values),
           BeginsFile(contents), Len(file) <= Len(contents)
    PROVE  contents = file
<1>1. file \in Seq(Values \union {Hole})
    BY SeqMonotonic
<1>2. Len(contents) = Len(file) /\ \A i \in 1..Len(contents) : contents[i] = file[i]
    <2>1. Len(contents) \in Nat /\ Len(file) \in Nat
        OBVIOUS
    <2> QED
        BY <2>1 DEF BeginsFile
<1> QED
    BY <1>1, <1>2, SeqEqual

(* Writing the unit that belongs there still begins the file.              *)
LEMMA WriteBegins ==
    ASSUME NEW contents \in Seq(Values \union {Hole}), file \in Seq(Values),
           BeginsFile(contents), NEW at \in Nat, at < Len(file), at <= Len(contents)
    PROVE  BeginsFile(WriteAt(contents, at, <<file[at + 1]>>))
<1> DEFINE n == IF Len(contents) < at + 1 THEN at + 1 ELSE Len(contents)
           new == [i \in 1..n |-> IF i \in at + 1..at + 1 THEN <<file[at + 1]>>[i - at]
                                  ELSE IF i <= Len(contents) THEN contents[i] ELSE Hole]
<1>1. Len(contents) \in Nat /\ Len(file) \in Nat /\ n \in Nat /\ n <= Len(file)
    BY DEF BeginsFile
<1>2. WriteAt(contents, at, <<file[at + 1]>>) = new
    BY DEF WriteAt
<1>3. Len(new) = n
    BY <1>1
<1>4. ASSUME NEW i \in 1..n PROVE new[i] = file[i]
    <2>1. CASE i = at + 1
        BY <2>1, <1>1
    <2>2. CASE i # at + 1
        <3>1. i \notin at + 1..at + 1 /\ i <= Len(contents) /\ i \in 1..Len(contents)
            BY <1>1, <2>2
        <3> QED
            BY <1>1, <3>1 DEF BeginsFile
    <2> QED
        BY <2>1, <2>2
<1> HIDE DEF n, new
<1> QED
    BY <1>1, <1>2, <1>3, <1>4 DEF BeginsFile

(* A thread that goes on with a row of the file's size, or does not move.  *)
LEMMA ThreadStaysFaithful ==
    ASSUME OffsetInv, StoreGrows, StoreFaithful', file' = file,
           NEW t \in Threads, ThreadFaithful(t),
           stage'[t] # "free" =>
             /\ stage[t] # "free" /\ request'[t] = request[t]
             /\ stage'[t] \in {"write", "save"} => row'[t].size = Len(file)
    PROVE  ThreadFaithful(t)'
<1>1. ASSUME stage[t] # "free", request[t].op = "finish"
      PROVE  Len(stored'[sessions'[request[t].transfer].version]) = Len(file)
    <2>1. StoreTypes /\ file \in Seq(Values)
        BY DEF OffsetInv, TypeOK, StoreTypes
    <2>2. PICK id \in DOMAIN sessions : id = request[t].transfer
        BY <1>1 DEF OffsetInv, ThreadOK, Named
    <2>3. StoredFor(id) = Len(file)
        BY <1>1, <2>2 DEF ThreadFaithful
    <2>4. /\ StoredFor(id) <= StoredFor(id)' /\ StoredFor(id)' \in Nat
          /\ id \in DOMAIN sessions' /\ sessions'[id].version = sessions[id].version
          /\ sessions[id].version \in Versions
        BY <2>1, StoredGrows, SessionFacts
    <2>5. StoredFor(id)' <= Len(file)
        BY <2>4 DEF StoreFaithful, BeginsFile, StoredFor
    <2> QED
        BY <2>1, <2>2, <2>3, <2>4, <2>5 DEF StoredFor
<1>2. ASSUME stage'[t] # "free", NEW r, r = request[t], r = request'[t]
      PROVE  ThreadFaithful(t)'
    <2>1. /\ r.op = "init" => r.size = Len(file')
          /\ r.op = "chunk" => r.offset < Len(file') /\ r.data = <<file'[r.offset + 1]>>
          /\ r.op = "finish" => r.data = file'
        BY <1>2 DEF ThreadFaithful
    <2>2. r.op = "finish" => Len(stored'[sessions'[r.transfer].version]) = Len(file')
        BY <1>1, <1>2 DEF StoredFor
    <2> QED
        BY <1>2, <2>1, <2>2 DEF ThreadFaithful, StoredFor
<1> QED
    BY <1>2 DEF ThreadFaithful

(* What the worker sends is a piece of the file.                           *)
LEMMA SendFaithful ==
    ASSUME OffsetInv, Faithful, NEW t \in Threads, NEW r, Send(t, r), size' = Len(file),
           r.op = "init" => r.size = Len(file),
           r.op = "chunk" => /\ r.offset < Len(file)
                             /\ r.data = <<file[r.offset + 1]>>
                             /\ Len(digest') = offset' + 1 /\ BeginsFile(digest'),
           r.op = "finish" => r.data = file /\ StoredFor(r.transfer) = Len(file)
    PROVE  Faithful'
<1>1. StoreFaithful' /\ UNCHANGED <<file, sessions, stored, row>>
    BY DEF Faithful, StoreFaithful, BeginsFile, Send, storeVars
<1>2. StoreGrows
    BY StoreStutters DEF Send, OffsetInv, TypeOK, StoreTypes
<1>3. stage'[t] = "read" /\ request'[t] = r /\ step' = r.op
    BY DEF Send, OffsetInv, TypeOK
<1>4. ASSUME NEW u \in Threads PROVE ThreadFaithful(u)'
    <2>1. CASE u = t
        BY <1>1, <1>3, <2>1 DEF ThreadFaithful, StoredFor
    <2>2. CASE u # t
        <3>1. stage'[u] = stage[u] /\ request'[u] = request[u] /\ row'[u] = row[u]
            BY <1>1, <2>2 DEF Send, OffsetInv, TypeOK
        <3>2. ThreadFaithful(u)
            BY DEF Faithful
        <3>3. stage'[u] # "free" =>
                /\ stage[u] # "free" /\ request'[u] = request[u]
                /\ stage'[u] \in {"write", "save"} => row'[u].size = Len(file)
            BY <3>1, <3>2 DEF ThreadFaithful
        <3> QED
            BY <1>1, <1>2, <3>2, <3>3, ThreadStaysFaithful
    <2> QED
        BY <2>1, <2>2
<1>5. WorkerFaithful'
    BY <1>1, <1>3 DEF WorkerFaithful, BeginsFile
<1> QED
    BY <1>1, <1>4, <1>5 DEF Faithful

(* Reading on from where the digest ends and the stored file reaches.      *)
LEMMA UploadFaithful ==
    ASSUME OffsetInv, Faithful, NEW t \in Threads, NEW id \in DOMAIN sessions, NEW at \in Nat,
           NEW hashed \in Seq(Values), BeginsFile(hashed), Len(hashed) = at,
           at <= StoredFor(id), size = Len(file), UploadNext(t, id, at, hashed)
    PROVE  Faithful'
<1>1. /\ file \in Seq(Values) /\ Len(file) \in Nat /\ StoreTypes
      /\ transfer' = id /\ offset' = at /\ size' = Len(file)
    BY DEF OffsetInv, TypeOK, StoreTypes, UploadNext
<1>2. CASE at < Len(file)
    <2> DEFINE unit == file[at + 1]
               r == Request("chunk", id, at, <<unit>>, 0)
    <2>1. Send(t, r) /\ digest' = Append(hashed, unit) /\ unit \in Values
        BY <1>1, <1>2 DEF UploadNext
    <2>2. r.op = "chunk" /\ r.offset = at /\ r.data = <<file[at + 1]>>
        BY DEF Request
    <2>3. Len(digest') = at + 1 /\ BeginsFile(digest')
        <3>1. /\ Len(digest') = at + 1
              /\ \A i \in 1..at + 1 : digest'[i] = IF i <= at THEN hashed[i] ELSE unit
            BY <2>1
        <3> QED
            BY <1>1, <1>2, <3>1 DEF BeginsFile
    <2> HIDE DEF r
    <2> QED
        BY <1>1, <1>2, <2>1, <2>2, <2>3, SendFaithful
<1>3. CASE ~(at < Len(file))
    <2> DEFINE r == Request("finish", id, 0, hashed, 0)
    <2>1. Send(t, r)
        BY <1>3 DEF UploadNext
    <2>2. hashed \in Seq(Values \union {Hole})
        BY SeqMonotonic
    <2>3. hashed = file
        BY <1>1, <1>3, <2>2, WholeFile
    <2>4. StoredFor(id) <= Len(file) /\ StoredFor(id) \in Nat
        BY <1>1, SessionFacts DEF Faithful, StoreFaithful, BeginsFile, StoredFor
    <2>5. r.op = "finish" /\ r.data = file /\ r.transfer = id
        BY <2>3 DEF Request
    <2>6. StoredFor(id) = Len(file)
        BY <1>1, <1>3, <2>4
    <2> HIDE DEF r
    <2> QED
        BY <1>1, <2>1, <2>5, <2>6, SendFaithful
<1> QED
    BY <1>2, <1>3

(* Every step in which the worker sends keeps to the file.                 *)
LEMMA WorkerSendsFaithful ==
    ASSUME OffsetInv, Faithful, NEW t \in Threads,
           \/ BeginBackup(t) \/ Resumed(t) \/ NotResumed(t) \/ Initiated(t)
           \/ ChunkAccepted(t) \/ ChunkFailed(t)
    PROVE  Faithful'
<1>1. /\ WorkerOK /\ WorkerFaithful /\ StoreTypes /\ file \in Seq(Values) /\ Len(file) \in Nat
      /\ answer.offset \in Nat /\ offset \in Nat /\ digest \in Seq(Values)
      /\ \A v \in Versions : BeginsFile(stored[v])
    BY DEF OffsetInv, TypeOK, StoreTypes, Answers, Faithful, StoreFaithful
<1>2. CASE BeginBackup(t)
    <2> DEFINE r == Request("resume", 0, 0, Head64K(file), Len(file))
    <2>1. Send(t, r) /\ size' = Len(file) /\ r.op = "resume"
        BY <1>2 DEF BeginBackup, Request
    <2> HIDE DEF r
    <2> QED
        BY <2>1, SendFaithful
<1>3. CASE Resumed(t)
    <2> DEFINE known == IF answer.offset < Len(file) THEN answer.offset ELSE Len(file)
               at == answer.offset
    <2>1. /\ answer.transfer \in DOMAIN sessions /\ at <= StoredFor(answer.transfer)
          /\ step = "resume"
        BY <1>1, <1>3 DEF Resumed, Answered, WorkerOK
    <2>2. StoredFor(answer.transfer) <= Len(file) /\ StoredFor(answer.transfer) \in Nat
        BY <1>1, <2>1, SessionFacts DEF BeginsFile, StoredFor
    <2>3. at \in Nat /\ at <= Len(file) /\ known = at
        BY <1>1, <2>1, <2>2
    <2>4. UploadNext(t, answer.transfer, at, SubSeq(file, 1, at))
        BY <1>3, <2>3 DEF Resumed
    <2>5. /\ SubSeq(file, 1, at) \in Seq(Values) /\ Len(SubSeq(file, 1, at)) = at
          /\ \A i \in 1..at : SubSeq(file, 1, at)[i] = file[i]
        BY <1>1, <2>3
    <2>6. BeginsFile(SubSeq(file, 1, at)) /\ size = Len(file)
        BY <1>1, <2>1, <2>3, <2>5 DEF BeginsFile, WorkerFaithful
    <2> HIDE DEF at, known
    <2> QED
        BY <2>1, <2>3, <2>4, <2>5, <2>6, UploadFaithful
<1>4. CASE NotResumed(t)
    <2> DEFINE r == Request("init", 0, 0, head, size)
    <2>1. Send(t, r) /\ size' = size /\ r.op = "init" /\ r.size = size /\ size = Len(file)
        BY <1>1, <1>4 DEF NotResumed, Answered, Request, WorkerFaithful
    <2> HIDE DEF r
    <2> QED
        BY <2>1, SendFaithful
<1>5. CASE Initiated(t)
    <2>1. /\ answer.transfer \in DOMAIN sessions /\ size = Len(file)
          /\ UploadNext(t, answer.transfer, 0, <<>>)
        BY <1>1, <1>5 DEF Initiated, Answered, WorkerOK, WorkerFaithful
    <2>2. <<>> \in Seq(Values) /\ BeginsFile(<<>>) /\ Len(<<>>) = 0
        BY <1>1 DEF BeginsFile
    <2>3. 0 <= StoredFor(answer.transfer)
        BY <1>1, <2>1, SessionFacts
    <2> QED
        BY <2>1, <2>2, <2>3, UploadFaithful
<1>6. CASE ChunkAccepted(t)
    <2>1. /\ transfer \in DOMAIN sessions /\ offset + 1 <= StoredFor(transfer)
          /\ size = Len(file) /\ Len(digest) = offset + 1 /\ BeginsFile(digest)
          /\ UploadNext(t, transfer, offset + 1, digest)
        BY <1>1, <1>6 DEF ChunkAccepted, Answered, WorkerOK, Named, WorkerFaithful
    <2>2. offset + 1 \in Nat
        BY <1>1
    <2> QED
        BY <1>1, <2>1, <2>2, UploadFaithful
<1>7. CASE ChunkFailed(t)
    <2> DEFINE r == Request("cancel", transfer, 0, <<>>, 0)
    <2>1. Send(t, r) /\ size' = size /\ r.op = "cancel" /\ size = Len(file)
        BY <1>1, <1>7 DEF ChunkFailed, Answered, Request, WorkerFaithful
    <2> HIDE DEF r
    <2> QED
        BY <2>1, SendFaithful
<1> QED
    BY <1>2, <1>3, <1>4, <1>5, <1>6, <1>7

(* A step of one thread that leaves the stores faithful.                   *)
LEMMA ThreadMovesFaithful ==
    ASSUME OffsetInv, StoreGrows, Faithful, StoreFaithful', NEW t \in Threads,
           UNCHANGED <<file, step, size, offset, digest>>,
           \/ Free(t)
           \/ \E next \in {"write", "save"} : \E read :
                Continue(t, next, read) /\ read.size = Len(file) /\ stage[t] # "free"
    PROVE  Faithful'
<1>1. WorkerFaithful'
    BY DEF Faithful, WorkerFaithful, BeginsFile
<1>2. ASSUME NEW u \in Threads PROVE ThreadFaithful(u)'
    <2>1. ThreadFaithful(u)
        BY DEF Faithful
    <2>2. stage'[u] # "free" =>
            /\ stage[u] # "free" /\ request'[u] = request[u]
            /\ stage'[u] \in {"write", "save"} => row'[u].size = Len(file)
        <3>1. CASE u # t
            <4>1. stage'[u] = stage[u] /\ request'[u] = request[u] /\ row'[u] = row[u]
                BY <3>1 DEF Free, Continue, OffsetInv, TypeOK
            <4> QED
                BY <2>1, <4>1 DEF ThreadFaithful
        <3>2. CASE u = t
            BY <3>2 DEF Free, Continue, OffsetInv, TypeOK
        <3> QED
            BY <3>1, <3>2
    <2> QED
        BY <2>1, <2>2, ThreadStaysFaithful
<1> QED
    BY <1>1, <1>2 DEF Faithful

(* A row is saved with the size it had.                                    *)
LEMMA SaveRowFaithful ==
    ASSUME OffsetInv, StoreFaithful, file' = file, NEW t \in Threads,
           NEW session, session.size = Len(file), SaveRow(t, session)
    PROVE  StoreFaithful'
<1>1. /\ UNCHANGED <<snapshots, stored>>
      /\ sessions' = [sessions EXCEPT ![request[t].transfer] = session]
    BY DEF SaveRow
<1>2. \A i \in DOMAIN sessions' : i \in DOMAIN sessions /\ sessions'[i].size = Len(file)
    BY <1>1 DEF StoreFaithful, OffsetInv, TypeOK
<1> QED
    BY <1>1, <1>2 DEF StoreFaithful, BeginsFile

(* Every step of a request thread keeps to the file.                       *)
LEMMA HandlerFaithful ==
    ASSUME OffsetInv, StoreGrows, Faithful, NEW t \in Threads, HandlerStep(t)
    PROVE  Faithful'
<1>1. /\ StoreFaithful /\ ThreadFaithful(t) /\ ThreadOK(t) /\ StoreTypes /\ file \in Seq(Values)
      /\ row[t] \in SessionRow /\ row[t].version \in Versions
    BY DEF OffsetInv, TypeOK, StoreTypes, Faithful, SessionRow
<1>2. UNCHANGED <<file, storeVars>> => StoreFaithful'
    BY <1>1 DEF storeVars, StoreFaithful, BeginsFile
<1>3. ASSUME NEW a, Respond(t, a), StoreFaithful' PROVE Faithful'
    BY <1>3, ThreadMovesFaithful DEF Respond
<1>4. ASSUME NEW next \in {"write", "save"}, NEW read, Continue(t, next, read),
             read.size = Len(file), stage[t] # "free", StoreFaithful'
      PROVE  Faithful'
    <2>1. UNCHANGED <<file, step, size, offset, digest>>
        BY <1>4 DEF Continue, workerVars
    <2> QED
        BY <1>4, <2>1, ThreadMovesFaithful
<1>5. CASE HandleBackupResume(t)
    <2>1. UNCHANGED storeVars /\ \E a : Respond(t, a)
        BY <1>5 DEF HandleBackupResume
    <2> QED
        BY <1>2, <1>3, <2>1 DEF Respond
<1>6. CASE ReadLatestVersion(t)
    <2> DEFINE new == Session(LatestVersion + 1, request[t].size, request[t].data)
    <2>1. /\ UNCHANGED storeVars /\ Continue(t, "save", new)
          /\ stage[t] = "read" /\ request[t].op = "init"
        BY <1>6 DEF ReadLatestVersion, Reads
    <2>2. new.size = Len(file)
        BY <1>1, <2>1 DEF ThreadFaithful, Session
    <2> HIDE DEF new
    <2> QED
        BY <1>2, <1>4, <2>1, <2>2 DEF Continue
<1>7. CASE CreateSession(t)
    <2>1. /\ sessions' = Append(sessions, row[t]) /\ UNCHANGED <<snapshots, stored>>
          /\ stage[t] = "save" /\ \E a : Respond(t, a)
        BY <1>7 DEF CreateSession, Saves
    <2>2. row[t].size = Len(file) /\ file' = file
        BY <1>1, <2>1 DEF ThreadFaithful, Respond
    <2>3. \A i \in DOMAIN sessions' :
            sessions'[i] = IF i \in DOMAIN sessions THEN sessions[i] ELSE row[t]
        BY <1>1, <2>1 DEF StoreTypes
    <2>4. StoreFaithful'
        BY <1>1, <2>1, <2>2, <2>3 DEF StoreFaithful, BeginsFile
    <2> QED
        BY <1>3, <2>1, <2>4
<1>8. CASE ReadSession(t)
    <2> DEFINE session == sessions[request[t].transfer]
    <2>1. /\ UNCHANGED storeVars /\ stage[t] = "read" /\ request[t].op \in {"chunk", "finish"}
          /\ Respond(t, Failed) \/ Continue(t, "write", session)
        BY <1>8 DEF ReadSession, Reads, Reject
    <2>2. session.size = Len(file)
        BY <1>1, <2>1 DEF ThreadOK, Named, StoreFaithful
    <2> HIDE DEF session
    <2>3. CASE Respond(t, Failed)
        BY <1>2, <1>3, <2>1, <2>3 DEF Respond
    <2>4. CASE Continue(t, "write", session)
        BY <1>2, <1>4, <2>1, <2>2, <2>4 DEF Continue
    <2> QED
        BY <2>1, <2>3, <2>4
<1>9. CASE WriteChunk(t)
    <2> DEFINE v == row[t].version
               at == request[t].offset
               new == WriteAt(stored[v], at, <<file[at + 1]>>)
    <2>1. /\ stage[t] = "write" /\ request[t].op = "chunk"
          /\ UNCHANGED <<file, sessions, snapshots>>
          /\ Continue(t, "save", row[t]) \/ Respond(t, Answer("ok", 0, 0))
        BY <1>9 DEF WriteChunk, Writes, Continue, Accept, Respond
    <2>2. /\ at < Len(file) /\ request[t].data = <<file[at + 1]>> /\ row[t].size = Len(file)
          /\ at \in Nat /\ at <= Len(stored[v])
        BY <1>1, <2>1 DEF ThreadFaithful, ThreadOK, Named, StoredFor, OffsetInv, TypeOK, Requests
    <2>3. stored' = [stored EXCEPT ![v] = new]
        BY <1>9, <2>2 DEF WriteChunk
    <2>4. BeginsFile(stored[v]) /\ stored[v] \in Seq(Values \union {Hole})
        BY <1>1 DEF StoreFaithful, StoreTypes
    <2>5. BeginsFile(new)
        BY <1>1, <2>2, <2>4, WriteBegins
    <2> HIDE DEF new, v, at
    <2>6. ASSUME NEW w \in Versions PROVE BeginsFile(stored'[w])
        BY <1>1, <2>3, <2>5 DEF StoreFaithful, StoreTypes
    <2>7. ASSUME NEW i \in DOMAIN snapshots PROVE stored'[snapshots[i].version] = file
        <3>1. snapshots[i].version \in Versions
            <4> DEFINE Snapshot == [version : Versions, size : Nat, hash : Seq(Values)]
            <4>1. snapshots \in Seq(Snapshot)
                BY <1>1 DEF StoreTypes
            <4> HIDE DEF Snapshot
            <4>2. snapshots[i] \in Snapshot
                BY <4>1
            <4> QED
                BY <4>2 DEF Snapshot
        <3>2. PICK w \in Versions : w = snapshots[i].version
            BY <3>1
        <3>3. stored[w] = file /\ Len(stored[w]) <= Len(stored'[w])
            BY <1>1, <3>2 DEF StoreFaithful, StoreGrows
        <3>4. BeginsFile(stored'[w]) /\ stored'[w] \in Seq(Values \union {Hole})
            BY <2>6 DEF StoreGrows, StoreTypes
        <3>5. stored'[w] = file
            BY <1>1, <3>3, <3>4, WholeFile
        <3> QED
            BY <3>2, <3>5
    <2>8. StoreFaithful'
        BY <1>1, <2>1, <2>6, <2>7 DEF StoreFaithful, BeginsFile
    <2> QED
        BY <1>3, <1>4, <2>1, <2>2, <2>8
<1>10. CASE SaveOffset(t)
    <2> DEFINE session == [row[t] EXCEPT !.offset = ChunkEnd(t)]
    <2>1. /\ stage[t] = "save" /\ SaveRow(t, session) /\ Respond(t, Answer("ok", 0, 0))
        BY <1>10 DEF SaveOffset, Saves, Accept
    <2>2. session.size = Len(file) /\ file' = file
        BY <1>1, <2>1 DEF SessionRow, ThreadFaithful, Respond
    <2> HIDE DEF session
    <2> QED
        BY <1>1, <1>3, <2>1, <2>2, SaveRowFaithful
<1>11. CASE CreateSnapshot(t)
    <2> DEFINE new == [version |-> row[t].version, size |-> row[t].size,
                       hash |-> request[t].data]
               id == request[t].transfer
    <2>1. /\ stage[t] = "write" /\ request[t].op = "finish" /\ Continue(t, "save", row[t])
          /\ UNCHANGED <<sessions, stored>> /\ snapshots' = Append(snapshots, new)
        BY <1>11 DEF CreateSnapshot, Writes
    <2>2. /\ row[t].size = Len(file) /\ request[t].data = file /\ file' = file
          /\ id \in DOMAIN sessions /\ row[t].version = sessions[id].version
          /\ StoredFor(id) = Len(file)
        BY <1>1, <2>1 DEF ThreadFaithful, Continue, ThreadOK, Named
    <2>3. stored[row[t].version] = file
        <3>1. /\ stored[row[t].version] \in Seq(Values \union {Hole})
              /\ BeginsFile(stored[row[t].version]) /\ Len(file) <= Len(stored[row[t].version])
            BY <1>1, <2>2 DEF StoreTypes, StoreFaithful, StoredFor
        <3> QED
            BY <1>1, <3>1, WholeFile
    <2>4. \A i \in DOMAIN snapshots' :
            snapshots'[i] = IF i \in DOMAIN snapshots THEN snapshots[i] ELSE new
        BY <1>1, <2>1 DEF StoreTypes
    <2>5. StoreFaithful'
        BY <1>1, <2>1, <2>2, <2>3, <2>4 DEF StoreFaithful, BeginsFile
    <2> QED
        BY <1>4, <2>1, <2>2, <2>5
<1>12. CASE MarkDone(t)
    <2> DEFINE session == [row[t] EXCEPT !.status = "DONE"]
    <2>1. /\ stage[t] = "save" /\ SaveRow(t, session) /\ Respond(t, Answer("ok", 0, 0))
        BY <1>12 DEF MarkDone, Saves, Accept
    <2>2. session.size = Len(file) /\ file' = file
        BY <1>1, <2>1 DEF SessionRow, ThreadFaithful, Respond
    <2> HIDE DEF session
    <2> QED
        BY <1>1, <1>3, <2>1, <2>2, SaveRowFaithful
<1>13. CASE ReadForCancel(t)
    <2> DEFINE session == sessions[request[t].transfer]
    <2>1. /\ UNCHANGED storeVars /\ stage[t] = "read" /\ request[t].op = "cancel"
          /\ Continue(t, "save", session)
        BY <1>13 DEF ReadForCancel, Reads
    <2>2. session.size = Len(file)
        BY <1>1, <2>1 DEF ThreadOK, Named, StoreFaithful
    <2> HIDE DEF session
    <2> QED
        BY <1>2, <1>4, <2>1, <2>2 DEF Continue
<1>14. CASE MarkCanceled(t)
    <2> DEFINE session == [row[t] EXCEPT !.status = "CANCELED"]
    <2>1. /\ stage[t] = "save" /\ SaveRow(t, session) /\ Free(t)
          /\ UNCHANGED <<file, step, size, offset, digest>>
        BY <1>14 DEF MarkCanceled, Saves, workerVars
    <2>2. session.size = Len(file) /\ file' = file
        BY <1>1, <2>1 DEF SessionRow, ThreadFaithful
    <2> HIDE DEF session
    <2> QED
        BY <1>1, <2>1, <2>2, SaveRowFaithful, ThreadMovesFaithful
<1> QED
    BY <1>5, <1>6, <1>7, <1>8, <1>9, <1>10, <1>11, <1>12, <1>13, <1>14 DEF HandlerStep

(* Before the first upload nothing is stored and nothing in flight.        *)
LEMMA FaithfulInitially == Init => Faithful
<1> SUFFICES ASSUME Init PROVE Faithful
    OBVIOUS
<1>1. file \in Seq(Values) /\ Len(file) \in Nat
    BY ContentsAreSequences DEF Init
<1> QED
    BY <1>1 DEF Init, Faithful, StoreFaithful, BeginsFile, ThreadFaithful, WorkerFaithful

(* An unedited file stays the one that everything is a piece of.           *)
LEMMA UneditedNext == OffsetInv /\ UneditedInv /\ [Next]_vars => UneditedInv'
<1> SUFFICES ASSUME OffsetInv, UneditedInv, [Next]_vars, edits' = 0
             PROVE  Faithful'
    BY DEF UneditedInv
<1>1. StoreGrows
    BY StepGrows
<1>2. ~Edit
    BY DEF Edit, OffsetInv, TypeOK
<1>3. edits = 0
    BY <1>2 DEF Next, WorkerStep, BeginBackup, Resumed, NotResumed, Initiated, ChunkAccepted,
        ChunkFailed, UploadNext, Send, Finished, GaveUp, Stop, CancelTimesOut,
        HandlerStep, HandleBackupResume, ReadLatestVersion, CreateSession, ReadSession,
        WriteChunk, SaveOffset, CreateSnapshot, MarkDone, ReadForCancel, MarkCanceled,
        Accept, Reject, Respond, Continue, RequestLost, TimeOut, ServerRestart,
        DeviceRestart, budgetVars, vars
<1>4. Faithful
    BY <1>3 DEF UneditedInv
<1>5. UNCHANGED <<file, storeVars>> => StoreFaithful'
    BY <1>4 DEF storeVars, Faithful, StoreFaithful, BeginsFile
<1>6. ASSUME NEW t \in Threads,
             \/ BeginBackup(t) \/ Resumed(t) \/ NotResumed(t) \/ Initiated(t)
             \/ ChunkAccepted(t) \/ ChunkFailed(t)
      PROVE  Faithful'
    BY <1>4, <1>6, WorkerSendsFaithful
<1>7. ASSUME NEW t \in Threads, HandlerStep(t) PROVE Faithful'
    BY <1>1, <1>4, <1>7, HandlerFaithful
<1>8. ASSUME NEW t \in Threads, RequestLost(t) PROVE Faithful'
    <2>1. /\ Free(t) /\ UNCHANGED <<file, step, size, offset, digest, storeVars>>
        BY <1>8 DEF RequestLost
    <2> QED
        BY <1>1, <1>4, <1>5, <2>1, ThreadMovesFaithful
<1>9. CASE ServerRestart
    <2>1. /\ UNCHANGED <<file, step, size, offset, digest, storeVars>>
          /\ \A t \in Threads : stage'[t] = "free"
        BY <1>9 DEF ServerRestart
    <2> QED
        BY <1>4, <1>5, <2>1 DEF Faithful, ThreadFaithful, WorkerFaithful, BeginsFile
<1>10. CASE Finished \/ GaveUp \/ CancelTimesOut \/ TimeOut \/ DeviceRestart \/ UNCHANGED vars
    <2>1. /\ UNCHANGED <<file, size, offset, digest, threadVars, storeVars>>
          /\ step' \in {step, "idle"}
        BY <1>10 DEF Finished, GaveUp, Stop, CancelTimesOut, TimeOut, DeviceRestart, vars,
            workerVars
    <2> QED
        BY <1>4, <1>5, <2>1
        DEF Faithful, ThreadFaithful, WorkerFaithful, BeginsFile, threadVars, storeVars, StoredFor
<1> QED
    BY <1>2, <1>6, <1>7, <1>8, <1>9, <1>10 DEF Next, WorkerStep

(* As long as the file is not edited, every snapshot has its contents and  *)
(* its size, whatever requests are lost, late or repeated, wherever either *)
(* side restarts and however many sessions write to one version.           *)
THEOREM SnapshotsFaithful == Spec => []SnapshotsAreTheFile
<1>1. Init => UneditedInv
    BY FaithfulInitially DEF UneditedInv
<1>2. UneditedInv => SnapshotsAreTheFile
    BY DEF UneditedInv, Faithful, StoreFaithful, SnapshotsAreTheFile
<1> QED
    BY <1>1, <1>2, OffsetInvariance, UneditedNext, PTL DEF Spec

(***************************************************************************)
(* As long as nothing fails (failures = 0 and restarts = 0), one thread    *)
(* runs at a time, the one the worker waits for, sessions follow one       *)
(* another, and each has a version of its own: the next one.               *)
(***************************************************************************)
Blank(n) == \A v \in Versions : v > n => stored[v] = <<>>

(* No session is open, and the next version has not been written to.       *)
Between ==
    /\ \A i \in DOMAIN sessions : sessions[i].status = "DONE"
    /\ Blank(Len(snapshots))

(* One session is open; what it has stored is its version.                 *)
Open(id, contents) ==
    /\ id \in DOMAIN sessions
    /\ sessions[id].status = "IN_PROGRESS"
    /\ sessions[id].version = Len(snapshots) + 1
    /\ \A j \in DOMAIN sessions \ {id} : sessions[j].status = "DONE"
    /\ stored[sessions[id].version] = contents
    /\ Blank(Len(snapshots) + 1)

Shorter(contents) == SubSeq(contents, 1, Len(contents) - 1)

Waiting(op) == step = op /\ answer = NoAnswer
At(place)   == stage[waits] = place

(* What holds in each request the worker may be in, before and after it    *)
(* is answered.                                                            *)
PhaseOK ==
    /\ step = "idle" => Between /\ waits = NoThread
    /\ step # "idle" /\ answer = NoAnswer => waits \in Threads /\ ~At("free")
    /\ step = "resume" => Between /\ answer.status \in {"none", "not_found"}
    /\ Waiting("init") =>
         /\ Between
         /\ At("save") =>
              row[waits].version = Len(snapshots) + 1 /\ row[waits].status = "IN_PROGRESS"
    /\ Answered("init") => Open(answer.transfer, <<>>)
    /\ step = "chunk" => Len(digest) = offset + 1
    /\ Waiting("chunk") =>
         /\ request[waits].data = <<digest[Len(digest)]>>
         /\ ~At("read") => row[waits].status = "IN_PROGRESS"
         /\ Open(transfer, IF At("save") THEN digest ELSE Shorter(digest))
    /\ Answered("chunk") => Open(transfer, digest)
    /\ Waiting("finish") =>
         /\ request[waits].data = digest /\ request[waits].transfer = transfer
         /\ ~At("save") => Open(transfer, digest)
         /\ At("save") =>
              /\ \A j \in DOMAIN sessions \ {transfer} : sessions[j].status = "DONE"
              /\ Blank(Len(snapshots))
    /\ Answered("finish") => Between

Calm ==
    /\ \A i \in DOMAIN snapshots :
         snapshots[i].version = i /\ stored[i] = snapshots[i].hash
    /\ \A t \in Threads : stage[t] # "free" => waits = t
    /\ answer # Failed
    /\ step # "cancel"
    /\ PhaseOK

CalmInv == failures = 0 /\ restarts = 0 => Calm

(* The latest of the versions 1, 2, ..., n is the number of snapshots.     *)
LEMMA LatestIsLast ==
    ASSUME StoreTypes, \A i \in DOMAIN snapshots : snapshots[i].version = i
    PROVE  LatestVersion = Len(snapshots)
<1>1. Len(snapshots) \in Nat /\ DOMAIN snapshots = 1..Len(snapshots)
    BY DEF StoreTypes
<1>2. CASE snapshots = <<>>
    BY <1>2 DEF LatestVersion
<1>3. CASE snapshots # <<>>
    <2> DEFINE versions == {snapshots[i].version : i \in DOMAIN snapshots}
    <2>1. Len(snapshots) # 0
        BY <1>3, EmptySeq DEF StoreTypes
    <2>2. versions = 1..Len(snapshots)
        BY <1>1
    <2>3. LatestVersion = CHOOSE v \in versions : \A w \in versions : w <= v
        BY <1>3 DEF LatestVersion
    <2> HIDE DEF versions
    <2>4. Len(snapshots) \in versions /\ \A w \in versions : w <= Len(snapshots)
        BY <1>1, <2>1, <2>2
    <2>5. ASSUME NEW v \in versions, \A w \in versions : w <= v
          PROVE  v = Len(snapshots)
        <3>1. PICK n \in Nat : n = Len(snapshots)
            BY <1>1
        <3>2. n <= v /\ v <= n /\ v \in Nat
            BY <2>2, <2>4, <2>5, <3>1
        <3> QED
            BY <3>1, <3>2
    <2> QED
        BY <2>3, <2>4, <2>5
<1> QED
    BY <1>2, <1>3

(* Cutting off what was appended, and writing it where it was cut off.     *)
LEMMA ShorterFacts ==
    ASSUME NEW contents \in Seq(Values), NEW unit \in Values
    PROVE  /\ Shorter(Append(contents, unit)) = contents
           /\ Append(contents, unit)[Len(Append(contents, unit))] = unit
           /\ Len(Append(contents, unit)) = Len(contents) + 1
<1> DEFINE longer == Append(contents, unit)
<1>1. /\ longer \in Seq(Values) /\ Len(longer) = Len(contents) + 1 /\ Len(contents) \in Nat
      /\ longer[Len(contents) + 1] = unit
      /\ \A i \in 1..Len(contents) : longer[i] = contents[i]
    OBVIOUS
<1> HIDE DEF longer
<1>2. Shorter(longer) = SubSeq(longer, 1, Len(contents))
    BY <1>1 DEF Shorter
<1>3. /\ Shorter(longer) \in Seq(Values) /\ Len(Shorter(longer)) = Len(contents)
      /\ \A i \in 1..Len(contents) : Shorter(longer)[i] = longer[i]
    BY <1>1, <1>2
<1>4. Shorter(longer) = contents
    BY <1>1, <1>3, SeqEqual
<1> QED
    BY <1>1, <1>4 DEF longer

(* The unit that was missing makes the contents complete.                  *)
LEMMA WriteCompletes ==
    ASSUME NEW contents \in Seq(Values), contents # <<>>
    PROVE  WriteAt(Shorter(contents), Len(contents) - 1, <<contents[Len(contents)]>>) = contents
<1> DEFINE n == Len(contents)
           cut == Shorter(contents)
           new == WriteAt(cut, n - 1, <<contents[n]>>)
<1>1. n \in Nat /\ n >= 1
    BY EmptySeq
<1>2. Len(cut) = n - 1 /\ \A i \in 1..n - 1 : cut[i] = contents[i]
    <2>1. \A i \in 1..n - 1 : contents[i] \in Values
        BY <1>1
    <2>2. n - 1 \in Int /\ cut = SubSeq(contents, 1, n - 1)
        BY <1>1 DEF Shorter
    <2> HIDE DEF n, cut
    <2>3. /\ Len(SubSeq(contents, 1, n - 1)) = IF 1 <= n - 1 THEN n - 1 - 1 + 1 ELSE 0
          /\ \A i \in 1..n - 1 - 1 + 1 : SubSeq(contents, 1, n - 1)[i] = contents[1 + i - 1]
        BY <2>1, <2>2, SubSeqProperties
    <2> QED
        BY <1>1, <2>2, <2>3
<1>3. Len(<<contents[n]>>) = 1 /\ <<contents[n]>>[1] = contents[n]
    OBVIOUS
<1> HIDE DEF n, cut
<1>4. new = [i \in 1..n |-> IF i \in n..n THEN <<contents[n]>>[i - (n - 1)]
                            ELSE IF i <= n - 1 THEN cut[i] ELSE Hole]
    BY <1>1, <1>2, <1>3 DEF WriteAt
<1>5. new = [i \in 1..n |-> contents[i]]
    <2>1. ASSUME NEW i \in 1..n
          PROVE  (IF i \in n..n THEN <<contents[n]>>[i - (n - 1)]
                  ELSE IF i <= n - 1 THEN cut[i] ELSE Hole) = contents[i]
        <3>1. CASE i = n
            BY <1>1, <1>3, <3>1
        <3>2. CASE i # n
            BY <1>1, <1>2, <3>2
        <3> QED
            BY <3>1, <3>2
    <2> HIDE DEF new
    <2> QED
        BY <1>4, <2>1
<1>6. contents = [i \in 1..n |-> contents[i]]
    BY DEF n
<1> QED
    BY <1>5, <1>6 DEF n, cut

(* Nothing of this is about the file itself.                               *)
LEMMA CalmStutters ==
    ASSUME Calm,
           UNCHANGED <<step, waits, answer, transfer, offset, digest, threadVars, storeVars>>
    PROVE  Calm'
BY DEF Calm, PhaseOK, Between, Blank, Open, Waiting, Answered, At, Shorter, threadVars, storeVars

(* The worker sends its next request when no thread runs.                  *)
LEMMA CalmSend ==
    ASSUME OffsetInv, Calm, waits = NoThread, NEW t \in Threads, NEW r, Send(t, r),
           r.op # "cancel"
    PROVE  /\ step' = r.op /\ answer' = NoAnswer /\ waits' = t
           /\ stage'[waits'] = "read" /\ request'[waits'] = r
           /\ \A u \in Threads : stage'[u] # "free" => waits' = u
           /\ UNCHANGED <<sessions, snapshots, stored>>
           /\ PhaseOK' => Calm'
<1>1. /\ step' = r.op /\ answer' = NoAnswer /\ waits' = t
      /\ stage' = [stage EXCEPT ![t] = "read"] /\ request' = [request EXCEPT ![t] = r]
      /\ UNCHANGED <<sessions, snapshots, stored>>
    BY DEF Send, storeVars
<1>2. stage \in [Threads -> {"free", "read", "write", "save"}] /\ request \in [Threads -> Requests]
    BY DEF OffsetInv, TypeOK
<1>3. \A u \in Threads : stage[u] = "free"
    BY ThreadsAssumption DEF Calm
<1> QED
    BY <1>1, <1>2, <1>3, FreshRecords DEF Calm

(* The worker reads on from where its digest and the stored file end.      *)
LEMMA CalmUpload ==
    ASSUME OffsetInv, Calm, waits = NoThread, NEW t \in Threads, NEW id \in DOMAIN sessions,
           NEW at, NEW hashed \in Seq(Values), Len(hashed) = at, Open(id, hashed),
           UploadNext(t, id, at, hashed)
    PROVE  Calm'
<1>1. file \in Seq(Values) /\ transfer' = id /\ offset' = at /\ at \in Nat
    BY DEF OffsetInv, TypeOK, UploadNext
<1>2. CASE Len(hashed) < Len(file)
    <2> DEFINE unit == file[Len(hashed) + 1]
               r == Request("chunk", id, at, <<unit>>, 0)
    <2>1. Send(t, r) /\ digest' = Append(hashed, unit) /\ unit \in Values
        BY <1>1, <1>2 DEF UploadNext
    <2>2. /\ Shorter(digest') = hashed /\ digest'[Len(digest')] = unit
          /\ Len(digest') = offset' + 1
        BY <1>1, <2>1, ShorterFacts
    <2>3. r.op = "chunk" /\ r.data = <<unit>>
        BY DEF Request
    <2> HIDE DEF r, unit
    <2>4. /\ step' = "chunk" /\ answer' = NoAnswer /\ waits' = t
          /\ stage'[waits'] = "read" /\ request'[waits'] = r
          /\ UNCHANGED <<sessions, snapshots, stored>>
          /\ PhaseOK' => Calm'
        BY <2>1, <2>3, CalmSend
    <2>5. Open(id, hashed)'
        BY <2>4 DEF Open, Blank
    <2>6. Open(transfer, Shorter(digest))'
        BY <1>1, <2>2, <2>4 DEF Open, Blank
    <2>7. PhaseOK'
        BY <2>2, <2>3, <2>4, <2>6 DEF PhaseOK, Waiting, Answered, At
    <2> QED
        BY <2>4, <2>7
<1>3. CASE ~(Len(hashed) < Len(file))
    <2> DEFINE r == Request("finish", id, 0, hashed, 0)
    <2>1. Send(t, r) /\ digest' = hashed /\ r.op = "finish" /\ r.data = hashed /\ r.transfer = id
        BY <1>3 DEF UploadNext, Request
    <2> HIDE DEF r
    <2>2. /\ step' = "finish" /\ answer' = NoAnswer /\ waits' = t
          /\ stage'[waits'] = "read" /\ request'[waits'] = r
          /\ UNCHANGED <<sessions, snapshots, stored>>
          /\ PhaseOK' => Calm'
        BY <2>1, CalmSend
    <2>3. Open(transfer, digest)'
        BY <1>1, <2>1, <2>2 DEF Open, Blank
    <2>4. PhaseOK'
        BY <1>1, <2>1, <2>2, <2>3 DEF PhaseOK, Waiting, Answered, At
    <2> QED
        BY <2>2, <2>4
<1> QED
    BY <1>2, <1>3

(* The steps of the worker.                                                *)
LEMMA CalmWorker ==
    ASSUME OffsetInv, Calm, WorkerStep
    PROVE  Calm'
<1>1. /\ PhaseOK /\ WaitOK /\ WorkerOK /\ step # "cancel" /\ answer # Failed
      /\ digest \in Seq(Values) /\ offset \in Nat
    BY DEF Calm, OffsetInv, TypeOK
<1>2. answer # NoAnswer => waits = NoThread
    BY <1>1 DEF WaitOK
<1>3. ASSUME NEW t \in Threads, BeginBackup(t) PROVE Calm'
    <2> DEFINE r == Request("resume", 0, 0, Head64K(file), Len(file))
    <2>1. Send(t, r) /\ step = "idle" /\ r.op = "resume"
        BY <1>3 DEF BeginBackup, Request
    <2>2. Between /\ waits = NoThread
        BY <1>1, <2>1 DEF PhaseOK
    <2> HIDE DEF r
    <2>3. /\ step' = "resume" /\ answer' = NoAnswer /\ waits' = t /\ stage'[waits'] = "read"
          /\ UNCHANGED <<sessions, snapshots, stored>>
          /\ PhaseOK' => Calm'
        BY <2>1, <2>2, CalmSend
    <2>4. Between'
        BY <2>2, <2>3 DEF Between, Blank
    <2>5. NoAnswer.status = "none"
        BY DEF NoAnswer, Answer
    <2>6. PhaseOK'
        BY <2>3, <2>4, <2>5 DEF PhaseOK, Waiting, Answered, At
    <2> QED
        BY <2>3, <2>6
<1>4. ASSUME NEW t \in Threads, Resumed(t) PROVE FALSE
    BY <1>1, <1>4 DEF Resumed, Answered, PhaseOK
<1>5. ASSUME NEW t \in Threads, NotResumed(t) PROVE Calm'
    <2> DEFINE r == Request("init", 0, 0, head, size)
    <2>1. Send(t, r) /\ Between /\ waits = NoThread /\ r.op = "init"
        BY <1>1, <1>2, <1>5 DEF NotResumed, Answered, PhaseOK, Request
    <2> HIDE DEF r
    <2>2. /\ step' = "init" /\ answer' = NoAnswer /\ waits' = t /\ stage'[waits'] = "read"
          /\ UNCHANGED <<sessions, snapshots, stored>>
          /\ PhaseOK' => Calm'
        BY <2>1, CalmSend
    <2>3. Between'
        BY <2>1, <2>2 DEF Between, Blank
    <2>4. PhaseOK'
        BY <2>2, <2>3 DEF PhaseOK, Waiting, Answered, At
    <2> QED
        BY <2>2, <2>4
<1>6. ASSUME NEW t \in Threads, Initiated(t) PROVE Calm'
    <2>1. /\ Open(answer.transfer, <<>>) /\ waits = NoThread
          /\ UploadNext(t, answer.transfer, 0, <<>>)
        BY <1>1, <1>2, <1>6 DEF Initiated, Answered, PhaseOK
    <2>2. answer.transfer \in DOMAIN sessions /\ <<>> \in Seq(Values) /\ Len(<<>>) = 0
        BY <2>1 DEF Open
    <2> QED
        BY <2>1, <2>2, CalmUpload
<1>7. ASSUME NEW t \in Threads, ChunkAccepted(t) PROVE Calm'
    <2>1. /\ Open(transfer, digest) /\ waits = NoThread /\ Len(digest) = offset + 1
          /\ UploadNext(t, transfer, offset + 1, digest)
        BY <1>1, <1>2, <1>7 DEF ChunkAccepted, Answered, PhaseOK
    <2>2. transfer \in DOMAIN sessions
        BY <2>1 DEF Open
    <2> QED
        BY <1>1, <2>1, <2>2, CalmUpload
<1>8. ASSUME NEW t \in Threads, ChunkFailed(t) PROVE FALSE
    BY <1>1, <1>8 DEF ChunkFailed
<1>9. ASSUME Finished PROVE Calm'
    <2>1. /\ Answered("finish") /\ waits = NoThread /\ Between
          /\ step' = "idle" /\ answer' = NoAnswer
          /\ UNCHANGED <<waits, threadVars, storeVars>>
        BY <1>1, <1>2, <1>9 DEF Finished, Stop, Answered, PhaseOK
    <2>2. Between'
        BY <2>1 DEF Between, Blank, storeVars
    <2>3. PhaseOK'
        BY <2>1, <2>2 DEF PhaseOK, Waiting, Answered
    <2> QED
        BY <2>1, <2>3, FreshRecords DEF Calm, threadVars, storeVars
<1>10. ~GaveUp /\ ~CancelTimesOut
    BY <1>1 DEF GaveUp, Answered, CancelTimesOut
<1> QED
    BY <1>3, <1>4, <1>5, <1>6, <1>7, <1>8, <1>9, <1>10 DEF WorkerStep

(* A thread answers: the worker was waiting for it, and no other runs.     *)
LEMMA CalmRespond ==
    ASSUME OffsetInv, Calm, NEW t \in Threads, stage[t] # "free",
           NEW a, Respond(t, a)
    PROVE  /\ waits = t /\ step # "idle" /\ answer = NoAnswer /\ request[t].op = step
           /\ waits' = NoThread /\ answer' = a
           /\ \A u \in Threads : stage'[u] # "free" => waits' = u
           /\ UNCHANGED <<step, transfer, offset, digest>>
<1>1. waits = t /\ waits # NoThread
    BY ThreadsAssumption DEF Calm
<1>2. answer = NoAnswer /\ request[t].op = step
    BY <1>1 DEF OffsetInv, WaitOK
<1>3. step # "idle"
    BY <1>1 DEF Calm, PhaseOK
<1>4. /\ waits' = NoThread /\ answer' = a /\ stage' = [stage EXCEPT ![t] = "free"]
      /\ UNCHANGED <<step, transfer, offset, digest>>
    BY <1>1 DEF Respond, Free
<1>5. \A u \in Threads : stage'[u] # "free" => stage[u] # "free" /\ u # t
    BY <1>4 DEF OffsetInv, TypeOK
<1> QED
    BY <1>1, <1>2, <1>3, <1>4, <1>5 DEF Calm

(* A thread goes on.                                                       *)
LEMMA CalmContinue ==
    ASSUME OffsetInv, Calm, NEW t \in Threads, stage[t] # "free",
           NEW next, NEW read, Continue(t, next, read), next # "free"
    PROVE  /\ waits = t /\ answer = NoAnswer /\ step # "idle" /\ request[t].op = step
           /\ stage'[waits'] = next /\ row'[waits'] = read
           /\ \A u \in Threads : stage'[u] # "free" => waits' = u
           /\ UNCHANGED <<step, waits, answer, transfer, offset, digest, request>>
<1>1. waits = t /\ waits # NoThread
    BY ThreadsAssumption DEF Calm
<1>2. answer = NoAnswer /\ request[t].op = step
    BY <1>1 DEF OffsetInv, WaitOK
<1>3. step # "idle"
    BY <1>1 DEF Calm, PhaseOK
<1>4. /\ stage' = [stage EXCEPT ![t] = next] /\ row' = [row EXCEPT ![t] = read]
      /\ UNCHANGED <<step, waits, answer, transfer, offset, digest, request>>
    BY DEF Continue, workerVars
<1>5. /\ stage'[t] = next /\ row'[t] = read
      /\ \A u \in Threads : u # t => stage'[u] = stage[u]
    BY <1>4 DEF OffsetInv, TypeOK
<1> QED
    BY <1>1, <1>2, <1>3, <1>4, <1>5 DEF Calm

(* What the conjuncts of Calm that are not about the phase need.           *)
LEMMA CalmAgain ==
    ASSUME Calm, UNCHANGED <<step, snapshots>>, answer' # Failed, PhaseOK',
           \A i \in DOMAIN snapshots : stored'[i] = stored[i],
           \A t \in Threads : stage'[t] # "free" => waits' = t
    PROVE  Calm'
BY DEF Calm

(* The steps of the threads that answer the worker's first two requests.   *)
LEMMA CalmInit ==
    ASSUME OffsetInv, Calm, NEW t \in Threads,
           HandleBackupResume(t) \/ ReadLatestVersion(t) \/ CreateSession(t)
    PROVE  Calm'
<1>1. /\ PhaseOK /\ StoreTypes /\ row[t] \in SessionRow /\ stage[t] # "free" /\ waits = t
    BY DEF Calm, OffsetInv, TypeOK, StoreTypes, HandleBackupResume, Reads,
        ReadLatestVersion, CreateSession, Saves
<1>2. CASE HandleBackupResume(t)
    <2> DEFINE a == Answer("not_found", 0, 0)
    <2>1. request[t].op = "resume" /\ UNCHANGED storeVars
        BY <1>2 DEF HandleBackupResume, Reads
    <2>2. step = "resume"
        BY <1>1, <2>1, ThreadsAssumption DEF OffsetInv, WaitOK
    <2>3. Between
        BY <1>1, <2>2 DEF PhaseOK
    <2>4. Active = {}
        BY <2>3 DEF Between, Active
    <2>5. Respond(t, a)
        BY <1>2, <2>4 DEF HandleBackupResume
    <2>6. a.status = "not_found" /\ a # NoAnswer /\ a # Failed
        BY DEF Answer, NoAnswer, Failed
    <2> HIDE DEF a
    <2>7. /\ waits' = NoThread /\ answer' = a
          /\ \A u \in Threads : stage'[u] # "free" => waits' = u
          /\ step' = step
        BY <1>1, <2>5, CalmRespond
    <2>8. Between'
        BY <2>1, <2>3 DEF Between, Blank, storeVars
    <2>9. PhaseOK'
        BY <2>2, <2>6, <2>7, <2>8 DEF PhaseOK, Waiting, Answered
    <2> QED
        BY <2>1, <2>6, <2>7, <2>9, CalmAgain DEF storeVars
<1>3. CASE ReadLatestVersion(t)
    <2> DEFINE new == Session(LatestVersion + 1, request[t].size, request[t].data)
    <2>1. /\ request[t].op = "init" /\ UNCHANGED storeVars /\ Continue(t, "save", new)
        BY <1>3 DEF ReadLatestVersion, Reads
    <2>2. new.version = LatestVersion + 1 /\ new.status = "IN_PROGRESS"
        BY DEF Session
    <2>3. LatestVersion = Len(snapshots)
        BY <1>1, LatestIsLast DEF Calm
    <2> HIDE DEF new
    <2>4. /\ answer = NoAnswer /\ step = "init"
          /\ stage'[waits'] = "save" /\ row'[waits'] = new /\ waits' = t
          /\ \A u \in Threads : stage'[u] # "free" => waits' = u
          /\ UNCHANGED <<step, answer>>
        BY <1>1, <2>1, CalmContinue
    <2>5. Between'
        BY <1>1, <2>1, <2>4 DEF PhaseOK, Waiting, Between, Blank, storeVars
    <2>6. PhaseOK'
        BY <2>1, <2>2, <2>3, <2>4, <2>5 DEF PhaseOK, Waiting, Answered, At, storeVars
    <2>7. answer' # Failed
        BY <2>4 DEF Calm
    <2> QED
        BY <2>1, <2>4, <2>6, <2>7, CalmAgain DEF storeVars
<1>4. CASE CreateSession(t)
    <2> DEFINE a == Answer("ok", Len(sessions) + 1, 0)
               n == Len(sessions) + 1
    <2>1. /\ request[t].op = "init" /\ stage[t] = "save"
          /\ sessions' = Append(sessions, row[t]) /\ Respond(t, a)
          /\ UNCHANGED <<snapshots, stored>>
        BY <1>4 DEF CreateSession, Saves
    <2>2. a.transfer = n /\ a # NoAnswer /\ a # Failed
        BY DEF Answer, NoAnswer, Failed
    <2> HIDE DEF a
    <2>3. /\ waits = t /\ answer = NoAnswer /\ step = "init"
          /\ waits' = NoThread /\ answer' = a /\ step' = step
          /\ \A u \in Threads : stage'[u] # "free" => waits' = u
        BY <1>1, <2>1, CalmRespond
    <2>4. /\ Between /\ row[t].version = Len(snapshots) + 1 /\ row[t].status = "IN_PROGRESS"
        BY <1>1, <2>1, <2>3 DEF PhaseOK, Waiting, At
    <2>5. /\ n \in DOMAIN sessions'
          /\ \A i \in DOMAIN sessions' :
               sessions'[i] = IF i = n THEN row[t] ELSE sessions[i]
          /\ \A i \in DOMAIN sessions' \ {n} : i \in DOMAIN sessions
        BY <1>1, <2>1 DEF StoreTypes
    <2>6. stored[row[t].version] = <<>> /\ Blank(Len(snapshots) + 1)
        <3>1. PICK k \in Nat : k = Len(snapshots)
            BY <1>1 DEF StoreTypes
        <3>2. row[t].version \in Versions /\ row[t].version > k
            BY <1>1, <2>4, <3>1 DEF SessionRow
        <3>3. \A v \in Versions : v > k + 1 => v > k
            BY <3>1 DEF Versions
        <3> QED
            BY <2>4, <3>1, <3>2, <3>3 DEF Between, Blank
    <2>7. Blank(Len(snapshots) + 1)'
        BY <2>1, <2>6 DEF Blank
    <2>8. Open(answer.transfer, <<>>)'
        BY <2>1, <2>2, <2>3, <2>4, <2>5, <2>6, <2>7 DEF Open, Between
    <2>9. PhaseOK'
        BY <2>2, <2>3, <2>8 DEF PhaseOK, Waiting, Answered
    <2> QED
        BY <2>1, <2>2, <2>3, <2>9, CalmAgain
<1> QED
    BY <1>2, <1>3, <1>4

(* The steps of the threads that take a chunk.                             *)
LEMMA CalmChunk ==
    ASSUME OffsetInv, Calm, NEW t \in Threads,
           (ReadSession(t) /\ request[t].op = "chunk") \/ WriteChunk(t) \/ SaveOffset(t)
    PROVE  Calm'
<1> DEFINE session == sessions[transfer]
           ok == Answer("ok", 0, 0)
<1>1. /\ PhaseOK /\ StoreTypes /\ row[t] \in SessionRow /\ stage[t] # "free" /\ waits = t
      /\ request[t].op = "chunk" /\ ThreadOK(t) /\ digest \in Seq(Values)
      /\ Len(digest) \in Nat /\ offset \in Nat
    BY DEF Calm, OffsetInv, TypeOK, StoreTypes, ReadSession, Reads, WriteChunk, Writes,
        SaveOffset, Saves
<1>2. /\ step = "chunk" /\ answer = NoAnswer
      /\ request[t].transfer = transfer /\ request[t].offset = offset
    BY <1>1, ThreadsAssumption DEF OffsetInv, WaitOK
<1>3. /\ request[t].data = <<digest[Len(digest)]>> /\ Len(digest) = offset + 1
      /\ stage[t] # "read" => row[t].status = "IN_PROGRESS"
      /\ Open(transfer, IF stage[t] = "save" THEN digest ELSE Shorter(digest))
    BY <1>1, <1>2 DEF PhaseOK, Waiting, At
<1>4. ok # NoAnswer /\ ok # Failed
    BY DEF Answer, NoAnswer, Failed
<1> HIDE DEF ok
<1>5. CASE ReadSession(t)
    <2>1. UNCHANGED storeVars /\ stage[t] = "read" /\ Continue(t, "write", session)
        BY <1>1, <1>2, <1>3, <1>5 DEF ReadSession, Reads, Open
    <2>2. session.status = "IN_PROGRESS" /\ Open(transfer, Shorter(digest))
        BY <1>3, <2>1 DEF Open
    <2> HIDE DEF session
    <2>3. /\ stage'[waits'] = "write" /\ row'[waits'] = session /\ waits' = t
          /\ \A u \in Threads : stage'[u] # "free" => waits' = u
          /\ UNCHANGED <<step, answer, transfer, offset, digest, request>>
        BY <1>1, <2>1, CalmContinue
    <2>4. Open(transfer, Shorter(digest))'
        BY <2>1, <2>2, <2>3 DEF Open, Blank, Shorter, storeVars
    <2>5. PhaseOK'
        BY <1>1, <1>2, <1>3, <2>2, <2>3, <2>4 DEF PhaseOK, Waiting, Answered, At
    <2>6. answer' # Failed
        BY <2>3 DEF Calm
    <2> QED
        BY <2>1, <2>3, <2>5, <2>6, CalmAgain DEF storeVars
<1>6. CASE WriteChunk(t)
    <2> DEFINE v == Len(snapshots) + 1
    <2>1. /\ stage[t] = "write" /\ UNCHANGED <<sessions, snapshots>>
          /\ Continue(t, "save", row[t]) \/ Respond(t, ok)
          /\ stored' = [stored EXCEPT ![row[t].version] =
                          WriteAt(@, request[t].offset, request[t].data)]
        BY <1>6 DEF WriteChunk, Writes, Accept, ok
    <2>2. Open(transfer, Shorter(digest))
        BY <1>3, <2>1
    <2>3. row[t].version = v /\ v \in Versions /\ stored[v] = Shorter(digest)
          /\ transfer \in DOMAIN sessions /\ session.version = v
        <3>1. row[t].version = session.version
            BY <1>1, <1>2, <2>1 DEF ThreadOK, Named
        <3> QED
            BY <1>1, <2>2, <3>1, SessionFacts DEF Open
    <2>4. digest # <<>> /\ offset = Len(digest) - 1
        BY <1>1, <1>3, EmptySeq
    <2>5. WriteAt(Shorter(digest), offset, <<digest[Len(digest)]>>) = digest
        BY <1>1, <2>4, WriteCompletes
    <2>6. stored' = [stored EXCEPT ![v] = digest]
        BY <1>2, <1>3, <2>1, <2>3, <2>5
    <2>7. \A w \in Versions : stored'[w] = IF w = v THEN digest ELSE stored[w]
        BY <1>1, <2>6 DEF StoreTypes
    <2>8. ASSUME NEW i \in DOMAIN snapshots PROVE stored'[i] = stored[i]
        <3>1. i # v
            BY <1>1 DEF StoreTypes
        <3> QED
            BY <1>1, <2>6, <3>1 DEF StoreTypes
    <2>9. transfer' = transfer /\ digest' = digest /\ offset' = offset /\ step' = step
        BY <2>1 DEF Continue, Respond, workerVars
    <2>10. Open(transfer, digest)'
        <3>1. Len(snapshots) \in Nat
            BY <1>1 DEF StoreTypes
        <3>2. ASSUME NEW w \in Versions, w > v PROVE stored'[w] = <<>>
            BY <2>2, <2>7, <3>1, <3>2 DEF Open, Blank, Versions
        <3> QED
            BY <2>1, <2>2, <2>3, <2>7, <2>9, <3>2 DEF Open, Blank
    <2> HIDE DEF v
    <2>11. CASE Continue(t, "save", row[t])
        <3>1. /\ stage'[waits'] = "save" /\ row'[waits'] = row[t] /\ waits' = t
              /\ \A u \in Threads : stage'[u] # "free" => waits' = u
              /\ UNCHANGED <<answer, request>>
            BY <1>1, <2>11, CalmContinue
        <3>2. PhaseOK'
            BY <1>1, <1>2, <1>3, <2>1, <2>9, <2>10, <3>1 DEF PhaseOK, Waiting, Answered, At
        <3>3. answer' # Failed
            BY <3>1 DEF Calm
        <3> QED
            BY <2>1, <2>8, <2>9, <3>1, <3>2, <3>3, CalmAgain
    <2>12. CASE Respond(t, ok)
        <3>1. /\ waits' = NoThread /\ answer' = ok
              /\ \A u \in Threads : stage'[u] # "free" => waits' = u
            BY <1>1, <2>12, CalmRespond
        <3>2. PhaseOK'
            BY <1>2, <1>3, <1>4, <2>9, <2>10, <3>1 DEF PhaseOK, Waiting, Answered
        <3> QED
            BY <1>4, <2>1, <2>8, <2>9, <3>1, <3>2, CalmAgain
    <2> QED
        BY <2>1, <2>11, <2>12
<1>7. CASE SaveOffset(t)
    <2> DEFINE saved == [row[t] EXCEPT !.offset = ChunkEnd(t)]
    <2>1. /\ stage[t] = "save" /\ SaveRow(t, saved) /\ Respond(t, ok)
        BY <1>7 DEF SaveOffset, Saves, Accept, ok
    <2>2. Open(transfer, digest) /\ row[t].status = "IN_PROGRESS"
        BY <1>3, <2>1
    <2>3. /\ transfer \in DOMAIN sessions /\ session.version = row[t].version
          /\ saved.version = row[t].version /\ saved.status = "IN_PROGRESS"
        BY <1>1, <1>2, <2>1, <2>2 DEF ThreadOK, Named, SessionRow
    <2> HIDE DEF saved
    <2>4. /\ sessions' = [sessions EXCEPT ![transfer] = saved] /\ UNCHANGED <<snapshots, stored>>
          /\ DOMAIN sessions' = DOMAIN sessions
          /\ \A i \in DOMAIN sessions : sessions'[i] = IF i = transfer THEN saved ELSE sessions[i]
        BY <1>1, <1>2, <2>1 DEF SaveRow, StoreTypes
    <2>5. /\ waits' = NoThread /\ answer' = ok
          /\ \A u \in Threads : stage'[u] # "free" => waits' = u
          /\ UNCHANGED <<step, transfer, offset, digest>>
        BY <1>1, <2>1, CalmRespond
    <2>6. Open(transfer, digest)'
        BY <2>2, <2>3, <2>4, <2>5 DEF Open, Blank
    <2>7. PhaseOK'
        BY <1>2, <1>3, <1>4, <2>5, <2>6 DEF PhaseOK, Waiting, Answered
    <2> QED
        BY <1>4, <2>4, <2>5, <2>7, CalmAgain
<1> QED
    BY <1>5, <1>6, <1>7

(* The steps of the threads that finish a session.                         *)
LEMMA CalmFinish ==
    ASSUME OffsetInv, Calm, NEW t \in Threads,
           (ReadSession(t) /\ request[t].op = "finish") \/ CreateSnapshot(t) \/ MarkDone(t)
    PROVE  Calm'
<1> DEFINE session == sessions[transfer]
           ok == Answer("ok", 0, 0)
<1>1. /\ PhaseOK /\ StoreTypes /\ row[t] \in SessionRow /\ stage[t] # "free" /\ waits = t
      /\ request[t].op = "finish" /\ ThreadOK(t)
    BY DEF Calm, OffsetInv, TypeOK, StoreTypes, ReadSession, Reads, CreateSnapshot, Writes,
        MarkDone, Saves
<1>2. step = "finish" /\ answer = NoAnswer
    BY <1>1, ThreadsAssumption DEF OffsetInv, WaitOK
<1>3. /\ request[t].data = digest /\ request[t].transfer = transfer
      /\ stage[t] # "save" => Open(transfer, digest)
      /\ stage[t] = "save" =>
           /\ \A j \in DOMAIN sessions \ {transfer} : sessions[j].status = "DONE"
           /\ Blank(Len(snapshots))
    BY <1>1, <1>2 DEF PhaseOK, Waiting, At
<1>4. ok # NoAnswer /\ ok # Failed
    BY DEF Answer, NoAnswer, Failed
<1> HIDE DEF ok
<1>5. CASE ReadSession(t)
    <2>1. UNCHANGED storeVars /\ stage[t] = "read" /\ Continue(t, "write", session)
        BY <1>1, <1>2, <1>3, <1>5 DEF ReadSession, Reads, Open
    <2> HIDE DEF session
    <2>2. /\ stage'[waits'] = "write" /\ waits' = t
          /\ \A u \in Threads : stage'[u] # "free" => waits' = u
          /\ UNCHANGED <<step, answer, transfer, offset, digest, request>>
        BY <1>1, <2>1, CalmContinue
    <2>3. Open(transfer, digest)'
        BY <1>3, <2>1, <2>2 DEF Open, Blank, storeVars
    <2>4. PhaseOK'
        BY <1>1, <1>2, <1>3, <2>2, <2>3 DEF PhaseOK, Waiting, Answered, At
    <2>5. answer' # Failed
        BY <2>2 DEF Calm
    <2> QED
        BY <2>1, <2>2, <2>4, <2>5, CalmAgain DEF storeVars
<1>6. CASE CreateSnapshot(t)
    <2> DEFINE new == [version |-> row[t].version, size |-> row[t].size,
                       hash |-> request[t].data]
               n == Len(snapshots)
    <2>1. /\ stage[t] = "write" /\ Continue(t, "save", row[t])
          /\ UNCHANGED <<sessions, stored>> /\ snapshots' = Append(snapshots, new)
        BY <1>6 DEF CreateSnapshot, Writes
    <2>2. /\ Open(transfer, digest) /\ new.hash = digest
          /\ new.version = row[t].version /\ row[t].version = session.version
        BY <1>1, <1>3, <2>1 DEF ThreadOK, Named
    <2>3. new.version = n + 1 /\ stored[n + 1] = digest
        BY <2>2 DEF Open
    <2> HIDE DEF new, session
    <2>4. /\ n \in Nat /\ Len(snapshots') = n + 1 /\ DOMAIN snapshots' = 1..n + 1
          /\ DOMAIN snapshots = 1..n
          /\ \A i \in 1..n + 1 : snapshots'[i] = IF i = n + 1 THEN new ELSE snapshots[i]
        BY <1>1, <2>1 DEF StoreTypes
    <2> HIDE DEF n
    <2>5. \A i \in DOMAIN snapshots' :
            snapshots'[i].version = i /\ stored'[i] = snapshots'[i].hash
        BY <2>1, <2>2, <2>3, <2>4 DEF Calm
    <2>6. Blank(Len(snapshots))'
        BY <2>1, <2>2, <2>4 DEF Open, Blank, n
    <2>7. /\ stage'[waits'] = "save" /\ waits' = t
          /\ \A u \in Threads : stage'[u] # "free" => waits' = u
          /\ UNCHANGED <<step, answer, transfer, offset, digest, request>>
        BY <1>1, <2>1, CalmContinue
    <2>8. PhaseOK'
        BY <1>1, <1>2, <1>3, <2>1, <2>2, <2>6, <2>7 DEF PhaseOK, Waiting, Answered, At, Open
    <2> QED
        BY <2>5, <2>7, <2>8 DEF Calm
<1>7. CASE MarkDone(t)
    <2> DEFINE saved == [row[t] EXCEPT !.status = "DONE"]
    <2>1. stage[t] = "save" /\ SaveRow(t, saved) /\ Respond(t, ok)
        BY <1>7 DEF MarkDone, Saves, Accept, ok
    <2>2. saved.status = "DONE"
        BY <1>1 DEF SessionRow
    <2> HIDE DEF saved
    <2>3. /\ UNCHANGED <<snapshots, stored>> /\ DOMAIN sessions' = DOMAIN sessions
          /\ \A i \in DOMAIN sessions : sessions'[i] = IF i = transfer THEN saved ELSE sessions[i]
        BY <1>1, <1>3, <2>1 DEF SaveRow, StoreTypes
    <2>4. Between'
        BY <1>3, <2>1, <2>2, <2>3 DEF Between, Blank
    <2>5. /\ waits' = NoThread /\ answer' = ok /\ step' = step
          /\ \A u \in Threads : stage'[u] # "free" => waits' = u
        BY <1>1, <2>1, CalmRespond
    <2>6. PhaseOK'
        BY <1>2, <1>4, <2>4, <2>5 DEF PhaseOK, Waiting, Answered
    <2> QED
        BY <1>4, <2>3, <2>5, <2>6, CalmAgain
<1> QED
    BY <1>5, <1>6, <1>7

(* As long as nothing fails, sessions follow one another.                  *)
LEMMA CalmNext == OffsetInv /\ CalmInv /\ [Next]_vars => CalmInv'
<1> SUFFICES ASSUME OffsetInv, CalmInv, [Next]_vars, failures' = 0, restarts' = 0
             PROVE  Calm'
    BY DEF CalmInv
<1>1. failures \in Nat /\ restarts \in Nat
    BY BoundsAssumption DEF OffsetInv, TypeOK
<1>2. /\ \A t \in Threads : ~RequestLost(t)
      /\ ~TimeOut /\ ~ServerRestart /\ ~DeviceRestart
    BY <1>1 DEF RequestLost, TimeOut, ServerRestart, DeviceRestart
<1>3. failures = 0 /\ restarts = 0
    BY <1>2 DEF Next, WorkerStep, BeginBackup, Resumed, NotResumed, Initiated, ChunkAccepted,
        ChunkFailed, UploadNext, Send, Finished, GaveUp, Stop, CancelTimesOut,
        HandlerStep, HandleBackupResume, ReadLatestVersion, CreateSession, ReadSession,
        WriteChunk, SaveOffset, CreateSnapshot, MarkDone, ReadForCancel, MarkCanceled,
        Accept, Reject, Respond, Continue, Edit, budgetVars, vars
<1>4. Calm
    BY <1>3 DEF CalmInv
<1>5. CASE WorkerStep
    BY <1>4, <1>5, CalmWorker
<1>6. ASSUME NEW t \in Threads, HandlerStep(t) PROVE Calm'
    <2>1. ~ReadForCancel(t) /\ ~MarkCanceled(t)
        <3>1. stage[t] # "free" => waits = t /\ waits # NoThread
            BY <1>4, ThreadsAssumption DEF Calm
        <3>2. stage[t] # "free" => request[t].op # "cancel"
            BY <1>4, <3>1 DEF Calm, OffsetInv, WaitOK
        <3> QED
            BY <3>2 DEF ReadForCancel, MarkCanceled, Reads, Saves
    <2>2. ReadSession(t) => request[t].op \in {"chunk", "finish"}
        BY DEF ReadSession, Reads
    <2> QED
        BY <1>4, <1>6, <2>1, <2>2, CalmInit, CalmChunk, CalmFinish DEF HandlerStep
<1>7. CASE Edit \/ UNCHANGED vars
    <2>1. UNCHANGED <<step, waits, answer, transfer, offset, digest, threadVars, storeVars>>
        BY <1>7 DEF Edit, vars, workerVars
    <2> QED
        BY <1>4, <2>1, CalmStutters
<1> QED
    BY <1>2, <1>5, <1>6, <1>7 DEF Next

(* As long as no request is lost or late and neither side restarts, the    *)
(* file stored for a snapshot is the one its file_hash was computed from,  *)
(* although the user edits the file between any two chunks.                *)
THEOREM HashHoldsUndisturbed == Spec => []UndisturbedHashHolds
<1>1. Init => CalmInv
    BY FreshRecords DEF Init, CalmInv, Calm, PhaseOK, Between, Blank, Waiting, Answered
<1>2. CalmInv => UndisturbedHashHolds
    BY DEF CalmInv, Calm, UndisturbedHashHolds
<1> QED
    BY <1>1, <1>2, OffsetInvariance, CalmNext, PTL DEF Spec
=============================================================================
