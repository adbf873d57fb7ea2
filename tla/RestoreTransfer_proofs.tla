----------------------- MODULE RestoreTransfer_proofs -----------------------
(***************************************************************************)
(* Proofs about the restore of a file, for any stored versions, workers,   *)
(* queue and failures.                                                     *)
(***************************************************************************)
EXTENDS RestoreTransfer, SequenceTheorems, TLAPS

(***************************************************************************)
(* The inductive invariant.  WorkerOK is what a worker may rely on at each *)
(* stage; PartFits relates what it has hashed to the .part file; DestOK is *)
(* RestoredBeginsWithVersion, element by element.                          *)
(***************************************************************************)
Covers(file, content) ==
    Len(content) <= Len(file) /\ \A i \in 1..Len(content) : file[i] = content[i]

WorkerOK(x) ==
    /\ x.stage = "init" => x.version \in Versions /\ x.offset = 0
    /\ x.stage \in {"resume", "open", "chunk", "save", "verify", "remove", "rename", "done"}
         => x.id \in Ids
    /\ x.stage \in {"open", "chunk", "save", "verify"} => x.offset <= Size(x.id)
    /\ x.stage = "verify" => x.offset = Size(x.id)
    /\ x.stage \in {"chunk", "save", "verify", "remove", "rename"} => part # Absent

PartFits(x) ==
    diskErrors = 0 =>
        /\ x.stage \in {"chunk", "save", "verify"} =>
             /\ x.pos = x.offset
             /\ Len(x.hash) = x.offset => Covers(part, x.hash)
        /\ x.stage \in {"remove", "rename"} => Covers(part, Content(x.id))

WorkOK == \A w \in Workers : WorkerOK(work[w]) /\ PartFits(work[w])

DestOK ==
    diskErrors = 0 /\ dest \notin {Absent, Original} =>
        \E v \in Versions : Covers(dest, Stored[v])

RestoreInv == TypeOK /\ OneRestoreAtATime /\ WorkOK /\ DestOK

(***************************************************************************)
(* Facts about the operators.                                              *)
(***************************************************************************)
LEMMA StoredTypes ==
    ASSUME TypeOK, NEW id \in Ids
    PROVE  /\ Content(id) \in Seq(Units) /\ Size(id) \in Nat
           /\ sessions[id].version \in Versions /\ Content(id) = Stored[sessions[id].version]
<1>1. sessions[id] \in Session
    BY ElementOfSeq, LenProperties DEF TypeOK, Ids
<1>2. Stored[sessions[id].version] \in Seq(Units)
    BY <1>1, StoredAssumption, ElementOfSeq, LenProperties DEF Versions, Session
<1> QED
    BY <1>1, <1>2 DEF Content, Size, Session

(* A busy worker is the only one: what it becomes decides for all.         *)
LEMMA OnlyWorker ==
    ASSUME TypeOK, OneRestoreAtATime, NEW w \in Workers, work[w].stage # "ready",
           NEW x \in Work, x.stage # "ready",
           work' = [work EXCEPT ![w] = x], active' = active
    PROVE  /\ OneRestoreAtATime' /\ work' \in [Workers -> Work] /\ work'[w] = x
           /\ \A v \in Workers : v # w => work'[v].stage = "ready"
BY DEF TypeOK, OneRestoreAtATime, Working

LEMMA RestoreInvInit == Init => RestoreInv
<1> SUFFICES ASSUME Init PROVE RestoreInv
    OBVIOUS
<1>1. NoWork \in Work
    BY DEF NoWork, Work, Stages, File
<1>2. /\ <<>> \in Seq(Session) /\ <<>> \in Seq(LocalRow) /\ <<>> \in Seq(Job)
      /\ Ids = {}
    BY EmptySeq DEF Init, Ids
<1>3. TypeOK
    BY <1>1, <1>2 DEF Init, TypeOK
<1>4. OneRestoreAtATime /\ WorkOK
    BY DEF Init, OneRestoreAtATime, WorkOK, WorkerOK, PartFits, Working, NoWork
<1>5. DestOK
    BY DEF Init, DestOK
<1> QED
    BY <1>3, <1>4, <1>5 DEF RestoreInv

(***************************************************************************)
(* The queue and recovery leave workers and files alone.                   *)
(***************************************************************************)
LEMMA QueuePreserves ==
    ASSUME RestoreInv, (\E v \in Versions : HandleRestoreCmd(v)) \/ RecoveryStep
    PROVE  RestoreInv'
<1>1. UNCHANGED <<sessions, local, active, work, part, dest, failures, diskErrors, restarts>>
    BY DEF HandleRestoreCmd, RecoveryStep, RecoveryLists, RecoveryChecks, RecoveryQueues,
           dbVars, poolVars, diskVars, faultVars
<1>2. /\ queue' \in Seq(Job)
      /\ listed' \subseteq Ids /\ offer' \in Ids \union {0} /\ commands' \in Nat
    <2>1. ASSUME NEW v \in Versions, HandleRestoreCmd(v)
          PROVE  <1>2!:
        BY <2>1 DEF HandleRestoreCmd, Put, RestoreInv, TypeOK, Job
    <2>2. CASE RecoveryLists \/ RecoveryChecks
        BY <2>2 DEF RecoveryLists, RecoveryChecks, RestoreInv, TypeOK, InProgress
    <2>3. CASE RecoveryQueues
        <3>1. offer \in Ids /\ sessions[offer].version \in Versions
            BY <2>3, StoredTypes DEF RecoveryQueues, RestoreInv, TypeOK
        <3> QED
            BY <2>3, <3>1 DEF RecoveryQueues, Put, RestoreInv, TypeOK, Job
    <2> QED
        BY <2>1, <2>2, <2>3 DEF RecoveryStep
<1>3. TypeOK'
    BY <1>1, <1>2 DEF RestoreInv, TypeOK, Ids, Size, Content, Job
<1> QED
    BY <1>1, <1>3
    DEF RestoreInv, OneRestoreAtATime, WorkOK, WorkerOK, PartFits, DestOK, Working, Ids, Size, Content

LEMMA BegunTypes ==
    ASSUME NEW stage \in Stages, NEW id \in Nat, NEW version \in Versions \union {0}
    PROVE  [stage |-> stage, id |-> id, version |-> version,
            offset |-> 0, pos |-> 0, hash |-> <<>>] \in Work
BY EmptySeq DEF Work, File

LEMMA TakePreserves ==
    ASSUME RestoreInv, NEW w \in Workers, Take(w)
    PROVE  RestoreInv'
<1>1. /\ work[w].stage = "ready" /\ queue # <<>> /\ queue' = Tail(queue) /\ active' = TRUE
      /\ UNCHANGED <<sessions, local, listed, offer, commands, part, dest, failures,
                     diskErrors, restarts>>
    BY DEF Take, At, dbVars, diskVars, faultVars
<1>2. Head(queue) \in Job
    BY <1>1 DEF RestoreInv, TypeOK
<1>3. CASE active
    <2>1. work' = work
        BY <1>3 DEF Take
    <2>2. TypeOK'
        BY <1>1, <2>1 DEF RestoreInv, TypeOK, Ids, Size, Content, Job
    <2> QED
        BY <1>1, <1>3, <2>1, <2>2
        DEF RestoreInv, OneRestoreAtATime, WorkOK, WorkerOK, PartFits, DestOK, Working, Ids, Size, Content
<1>4. CASE ~active
    <2> DEFINE x == Begun(Head(queue))
    <2>1. work' = [work EXCEPT ![w] = x] /\ \A v \in Workers : work[v].stage = "ready"
        BY <1>4 DEF Take, RestoreInv, OneRestoreAtATime, Working
    <2>2. /\ x \in Work /\ x.version \in Versions /\ x.stage \in {"init", "resume"}
          /\ x.stage = "resume" => x.id \in Ids
          /\ x.offset = 0
        <3>1. Head(queue).version \in Versions /\ Head(queue).id \in Ids \union {0}
            BY <1>2 DEF Job
        <3>2. \A id \in Ids : id \in Nat
            <4>1. Ids = 1..Len(sessions) /\ Len(sessions) \in Nat
                BY LenProperties DEF Ids, RestoreInv, TypeOK
            <4> QED
                BY <4>1
        <3>3. /\ x.stage = IF Head(queue).id = 0 THEN "init" ELSE "resume"
              /\ x.id = Head(queue).id /\ x.version = Head(queue).version /\ x.offset = 0
            BY Zenon DEF Begun
        <3>4. x \in Work
            <4>1. (IF Head(queue).id = 0 THEN "init" ELSE "resume") \in Stages
                BY Zenon DEF Stages
            <4>2. Head(queue).id \in Nat /\ Head(queue).version \in Versions \union {0} /\ 0 \in Nat
                BY <3>1, <3>2
            <4> QED
                BY <4>1, <4>2, BegunTypes, Zenon DEF Begun
        <3> QED
            BY <3>1, <3>3, <3>4
    <2> HIDE DEF x
    <2>3. /\ work' \in [Workers -> Work] /\ work'[w] = x
          /\ \A v \in Workers : v # w => work'[v].stage = "ready"
        BY <2>1, <2>2 DEF RestoreInv, TypeOK
    <2>4. TypeOK'
        BY <1>1, <2>3 DEF RestoreInv, TypeOK, Ids, Size, Content, Job
    <2>5. OneRestoreAtATime'
        BY <1>1, <2>2, <2>3 DEF OneRestoreAtATime, Working
    <2>6. WorkOK' /\ DestOK'
        BY <1>1, <2>2, <2>3 DEF RestoreInv, WorkOK, WorkerOK, PartFits, DestOK, Ids
    <2> QED
        BY <2>4, <2>5, <2>6 DEF RestoreInv
<1> QED
    BY <1>3, <1>4

(***************************************************************************)
(* What the steps of a worker have in common.                              *)
(***************************************************************************)
DbStep ==
    /\ sessions' \in Seq(Session) /\ local' \in Seq(LocalRow) /\ Len(local') = Len(sessions')
    /\ Ids \subseteq Ids' /\ \A id \in Ids' : local'[id].offset <= Size(id)'
    /\ \A id \in Ids : sessions'[id].version = sessions[id].version

LEMMA WorkerMoves ==
    ASSUME RestoreInv, NEW w \in Workers, work[w].stage # "ready",
           NEW x \in Work, x.stage # "ready", work' = [work EXCEPT ![w] = x],
           UNCHANGED <<queueVars, active>>, DbStep,
           part' \in File \union {Absent}, dest' \in File \union {Absent, Original},
           failures' \in Nat, diskErrors' \in Nat, restarts' \in Nat,
           WorkerOK(x)', PartFits(x)', DestOK'
    PROVE  RestoreInv'
<1>1. /\ OneRestoreAtATime' /\ work' \in [Workers -> Work] /\ work'[w] = x
      /\ \A v \in Workers : v # w => work'[v].stage = "ready"
    BY OnlyWorker DEF RestoreInv, queueVars
<1>2. queue' \in Seq(Job')
    <2>1. Job \subseteq Job'
        BY DEF Job, DbStep
    <2> QED
        BY <2>1, SeqMonotonic DEF RestoreInv, TypeOK, queueVars
<1>3. TypeOK'
    BY <1>1, <1>2 DEF RestoreInv, TypeOK, DbStep, queueVars
<1>4. WorkOK'
    BY <1>1 DEF WorkOK, WorkerOK, PartFits
<1> QED
    BY <1>1, <1>3, <1>4 DEF RestoreInv

LEMMA DbUnchanged ==
    ASSUME RestoreInv, UNCHANGED dbVars
    PROVE  DbStep
BY DEF RestoreInv, TypeOK, DbStep, dbVars, Ids, Size, Content

(* A row changes on the device, with an offset within the version.         *)
LEMMA LocalRowChanges ==
    ASSUME RestoreInv, NEW id \in Ids, NEW row \in LocalRow, row.offset <= Size(id),
           local' = [local EXCEPT ![id] = row], UNCHANGED sessions
    PROVE  DbStep
<1>1. Ids = 1..Len(local) /\ Ids' = Ids
    BY LenProperties DEF RestoreInv, TypeOK, Ids
<1>2. local' \in Seq(LocalRow) /\ Len(local') = Len(local)
      /\ \A k \in Ids : local'[k] = IF k = id THEN row ELSE local[k]
    BY <1>1, ExceptSeq DEF RestoreInv, TypeOK
<1> QED
    BY <1>1, <1>2 DEF RestoreInv, TypeOK, DbStep, Size, Content

LEMMA LocalTypes ==
    ASSUME RestoreInv, NEW id \in Ids
    PROVE  local[id] \in LocalRow /\ local[id].offset <= Size(id)
<1>1. id \in 1..Len(local)
    BY LenProperties DEF RestoreInv, TypeOK, Ids
<1> QED
    BY <1>1, ElementOfSeq DEF RestoreInv, TypeOK

LEMMA SessionAdded ==
    ASSUME RestoreInv, NEW version \in Versions, NEW row \in LocalRow, row.offset = 0,
           HandleRestoreInit(version), local' = Append(local, row)
    PROVE  /\ DbStep /\ Ids' = Ids \union {Len(sessions) + 1} /\ Len(sessions) \in Nat
           /\ local'[Len(sessions) + 1].offset = 0
<1> DEFINE n == Len(sessions) + 1
<1>1. InitSession(version) \in Session
    BY DEF InitSession, Session
<1>2. /\ sessions' \in Seq(Session) /\ Len(sessions') = n /\ local' \in Seq(LocalRow)
      /\ Len(local') = n /\ Len(sessions) \in Nat
      /\ \A k \in 1..Len(sessions) : sessions'[k] = sessions[k] /\ local'[k] = local[k]
      /\ sessions'[n] = InitSession(version) /\ local'[n] = row
    BY <1>1, AppendProperties, LenProperties DEF HandleRestoreInit, RestoreInv, TypeOK
<1>3. Ids = 1..Len(sessions) /\ Ids' = 1..n
    BY <1>2, LenProperties DEF RestoreInv, TypeOK, Ids
<1>4. Ids' = Ids \union {n}
    BY <1>2, <1>3
<1>5. ASSUME NEW k \in Ids'
      PROVE  local'[k].offset <= Size(k)'
    <2>1. CASE k \in Ids
        BY <1>2, <1>3, <2>1 DEF RestoreInv, TypeOK, Size, Content
    <2>2. CASE k = n
        <3>1. Stored[version] \in Seq(Units)
            BY StoredAssumption, ElementOfSeq, LenProperties DEF Versions
        <3> QED
            BY <1>2, <2>2, <3>1, LenProperties DEF Size, Content, InitSession
    <2> QED
        BY <1>4, <2>1, <2>2
<1>6. \A k \in Ids : sessions'[k].version = sessions[k].version
    BY <1>2, <1>3
<1> QED
    BY <1>2, <1>4, <1>5, <1>6 DEF DbStep

(* Letting go, whatever has failed or was saved before.                    *)
LEMMA GivesUp ==
    ASSUME RestoreInv, NEW w \in Workers, work[w].stage # "ready", Goes(w, "release"),
           UNCHANGED <<queueVars, active, part, dest, diskErrors, restarts>>,
           failures' \in Nat, DbStep
    PROVE  RestoreInv'
<1>1. PICK x \in Work : x.stage = "release" /\ work' = [work EXCEPT ![w] = x]
    <2>1. [work[w] EXCEPT !.stage = "release"] \in Work
        BY DEF RestoreInv, TypeOK, Work, Stages
    <2> QED
        BY <2>1 DEF Goes, Work
<1>2. part' \in File \union {Absent} /\ dest' \in File \union {Absent, Original}
      /\ diskErrors' \in Nat /\ restarts' \in Nat
    BY DEF RestoreInv, TypeOK
<1>3. WorkerOK(x)' /\ PartFits(x)'
    BY <1>1 DEF WorkerOK, PartFits
<1>4. DestOK' /\ UNCHANGED <<queueVars, active>>
    BY DEF RestoreInv, DestOK
<1> QED
    BY <1>1, <1>2, <1>3, <1>4, WorkerMoves

(***************************************************************************)
(* The steps of a worker, one by one.                                      *)
(***************************************************************************)
LEMMA NewSessionPreserves ==
    ASSUME RestoreInv, NEW w \in Workers, NewSession(w)
    PROVE  RestoreInv'
<1>1. /\ work[w].stage = "init" /\ work[w].version \in Versions
      /\ work[w].offset = 0
      /\ UNCHANGED <<queueVars, active, part, dest, diskErrors, restarts>>
    BY DEF NewSession, At, diskVars, RestoreInv, WorkOK, WorkerOK
<1>3. failures' \in Nat /\ diskErrors' \in Nat /\ restarts' \in Nat
      /\ part' \in File \union {Absent} /\ dest' \in File \union {Absent, Original}
    BY <1>1 DEF NewSession, Fails, RestoreInv, TypeOK
<1>2. CASE /\ HandleRestoreInit(work[w].version)
           /\ local' = Append(local, [offset |-> 0, status |-> "IN_PROGRESS"])
           /\ work' = [work EXCEPT ![w] = [@ EXCEPT !.stage = "open", !.id = Len(sessions) + 1]]
           /\ UNCHANGED failures
    <2>1. [offset |-> 0, status |-> "IN_PROGRESS"] \in LocalRow
        BY DEF LocalRow
    <2>2. PICK n \in Nat : n = Len(sessions) + 1 /\ n \in Ids' /\ DbStep /\ local'[n].offset = 0
        <3>1. /\ DbStep /\ Ids' = Ids \union {Len(sessions) + 1} /\ Len(sessions) \in Nat
              /\ local'[Len(sessions) + 1].offset = 0
            <4>1. [offset |-> 0, status |-> "IN_PROGRESS"].offset = 0
                OBVIOUS
            <4> QED
                BY <1>1, <1>2, <2>1, <4>1, SessionAdded
        <3> QED
            BY <3>1
    <2>3. 0 <= Size(n)'
        BY <2>2 DEF DbStep
    <2>4. PICK x \in Work : /\ x.stage = "open" /\ x.id = n /\ x.offset = 0
                            /\ work' = [work EXCEPT ![w] = x]
        <3>1. [work[w] EXCEPT !.stage = "open", !.id = n] \in Work
            BY <2>2 DEF RestoreInv, TypeOK, Work, Stages
        <3> QED
            BY <1>1, <1>2, <2>2, <3>1 DEF Work
    <2>5. WorkerOK(x)' /\ PartFits(x)' /\ DestOK'
        BY <1>1, <2>2, <2>3, <2>4 DEF WorkerOK, PartFits, RestoreInv, DestOK
    <2>6. UNCHANGED <<queueVars, active>>
        BY <1>1
    <2> QED
        BY <1>1, <1>2, <1>3, <2>2, <2>4, <2>5, <2>6, WorkerMoves
<1>4. CASE Goes(w, "release") /\ UNCHANGED dbVars
    BY <1>1, <1>3, <1>4, DbUnchanged, GivesUp
<1>5. CASE /\ Goes(w, "release") /\ HandleRestoreInit(work[w].version)
           /\ local' = Append(local, NoRow)
    <2>1. NoRow \in LocalRow /\ NoRow.offset = 0
        BY DEF NoRow, LocalRow
    <2>2. DbStep
        BY <1>1, <1>5, <2>1, SessionAdded
    <2> QED
        BY <1>1, <1>3, <1>5, <2>2, GivesUp
<1> QED
    BY <1>2, <1>4, <1>5 DEF NewSession

LEMMA ResumePreserves ==
    ASSUME RestoreInv, NEW w \in Workers, Resume(w)
    PROVE  RestoreInv'
<1>1. /\ work[w].stage = "resume" /\ work[w].id \in Ids /\ DbStep
      /\ UNCHANGED <<dbVars, queueVars, active, part, dest, diskErrors, restarts>>
    BY DbUnchanged DEF Resume, At, diskVars, RestoreInv, WorkOK, WorkerOK
<1>2. failures' \in Nat /\ diskErrors' \in Nat /\ restarts' \in Nat
      /\ part' \in File \union {Absent} /\ dest' \in File \union {Absent, Original}
    BY <1>1, BoundsAssumption DEF Resume, Fails, RestoreInv, TypeOK
<1>3. CASE Goes(w, "release")
    BY <1>1, <1>2, <1>3, GivesUp
<1>4. CASE work' = [work EXCEPT ![w] =
                      [@ EXCEPT !.stage = "open", !.offset = local[work[w].id].offset]]
    <2>1. local[work[w].id].offset \in Nat /\ local[work[w].id].offset <= Size(work[w].id)
        BY <1>1, LocalTypes DEF LocalRow
    <2>2. PICK x \in Work : /\ x.stage = "open" /\ x.id = work[w].id
                            /\ x.offset = local[work[w].id].offset
                            /\ work' = [work EXCEPT ![w] = x]
        <3>1. [work[w] EXCEPT !.stage = "open", !.offset = local[work[w].id].offset] \in Work
            BY <2>1 DEF RestoreInv, TypeOK, Work, Stages
        <3> QED
            BY <1>4, <3>1 DEF Work
    <2>3. WorkerOK(x)' /\ PartFits(x)' /\ DestOK'
        BY <1>1, <2>1, <2>2 DEF WorkerOK, PartFits, RestoreInv, DestOK, dbVars, Ids, Size, Content
    <2>4. UNCHANGED <<queueVars, active>>
        BY <1>1
    <2> QED
        BY <1>1, <1>2, <2>2, <2>3, <2>4, WorkerMoves
<1> QED
    BY <1>3, <1>4 DEF Resume

LEMMA OpenPreserves ==
    ASSUME RestoreInv, NEW w \in Workers, Open(w)
    PROVE  RestoreInv'
<1>1. /\ work[w].stage = "open" /\ work[w].id \in Ids /\ DbStep
      /\ work[w].offset <= Size(work[w].id) /\ work[w] \in Work
      /\ UNCHANGED <<dbVars, queueVars, active, dest, diskErrors, restarts>>
    BY DbUnchanged DEF Open, At, diskVars, RestoreInv, TypeOK, WorkOK, WorkerOK
<1>2. failures' \in Nat /\ diskErrors' \in Nat /\ restarts' \in Nat
      /\ dest' \in File \union {Absent, Original}
    <2>1. UNCHANGED failures \/ Fails
        BY DEF Open
    <2> QED
        BY <1>1, <2>1 DEF Fails, RestoreInv, TypeOK
<1>3. CASE Goes(w, "release") /\ UNCHANGED part
    BY <1>1, <1>2, <1>3, GivesUp
<1>4. ASSUME part' = Opened, NEW hash \in Rehashed(work[w].id, work[w].offset),
             work' = [work EXCEPT ![w] =
                        [@ EXCEPT !.stage = "chunk", !.pos = work[w].offset, !.hash = hash]]
      PROVE  RestoreInv'
    <2>1. Opened \in File
        BY EmptySeq DEF Opened, RestoreInv, TypeOK, File
    <2>2. PICK n \in 0..Len(Opened) : hash = SubSeq(Opened, 1, n)
        <3>1. Len(Opened) \in Nat /\ work[w].offset \in Nat
            BY <1>1, <2>1, LenProperties DEF File, Work
        <3> QED
            BY <1>4, <3>1 DEF Rehashed
    <2>3. hash \in File /\ Covers(Opened, hash)
        <3>1. Len(Opened) \in Nat
            BY <2>1, LenProperties DEF File
        <3>2. /\ hash \in File /\ Len(hash) = n
              /\ \A i \in 1..n : hash[i] = Opened[i]
            BY <2>1, <2>2, <3>1, SubSeqProperties DEF File
        <3> QED
            BY <3>1, <3>2 DEF Covers
    <2>4. PICK x \in Work : /\ x.stage = "chunk" /\ x.id = work[w].id /\ x.hash = hash
                            /\ x.offset = work[w].offset /\ x.pos = work[w].offset
                            /\ work' = [work EXCEPT ![w] = x]
        <3>1. [work[w] EXCEPT !.stage = "chunk", !.pos = work[w].offset, !.hash = hash] \in Work
            BY <1>1, <2>3 DEF Work, Stages
        <3> QED
            BY <1>1, <1>4, <3>1 DEF Work
    <2>5. Absent \notin File
        BY FilesAssumption DEF File
    <2>6. WorkerOK(x)' /\ PartFits(x)' /\ DestOK'
        BY <1>1, <1>4, <2>1, <2>3, <2>4, <2>5
        DEF WorkerOK, PartFits, RestoreInv, DestOK, dbVars, Ids, Size, Content
    <2>7. UNCHANGED <<queueVars, active>> /\ part' \in File \union {Absent}
        BY <1>1, <1>4, <2>1
    <2> QED
        BY <1>1, <1>2, <2>4, <2>6, <2>7, WorkerMoves
<1> QED
    BY <1>3, <1>4 DEF Open


(* A chunk at an offset within the version is one of its units.            *)
LEMMA ChunkTypes ==
    ASSUME TypeOK, NEW id \in Ids, NEW offset \in Nat, offset < Size(id)
    PROVE  /\ GetChunk(id, offset) \in Seq(Units) /\ Len(GetChunk(id, offset)) = 1
           /\ GetChunk(id, offset)[1] \in Units
<1>1. Content(id) \in Seq(Units) /\ Size(id) \in Nat
    BY StoredTypes
<1>2. /\ GetChunk(id, offset) \in Seq(Units) /\ Len(GetChunk(id, offset)) = 1
    BY <1>1, SubSeqProperties DEF GetChunk, Size
<1>3. \A s \in Seq(Units) : Len(s) = 1 => s[1] \in Units
    BY ElementOfSeq
<1> QED
    BY <1>2, <1>3

LEMMA OneMore ==
    ASSUME NEW hash \in File, NEW data \in File, Len(data) = 1
    PROVE  /\ hash \o data \in File /\ Len(hash) \in Nat /\ Len(hash \o data) = Len(hash) + 1
           /\ \A i \in 1..Len(hash) : (hash \o data)[i] = hash[i]
           /\ (hash \o data)[Len(hash) + 1] = data[1]
<1>1. Len(hash) \in Nat
    BY LenProperties DEF File
<1>2. /\ hash \o data \in File /\ Len(hash \o data) = Len(hash) + Len(data)
      /\ \A i \in 1..(Len(hash) + Len(data)) :
            (hash \o data)[i] = IF i <= Len(hash) THEN hash[i] ELSE data[i - Len(hash)]
    BY ConcatProperties DEF File
<1> QED
    BY <1>1, <1>2

(* Writing the unit behind the part that was hashed extends what the file  *)
(* has in common with it.                                                  *)
LEMMA WriteExtends ==
    ASSUME NEW file \in File, NEW pos \in Nat, NEW unit \in Units
    PROVE  /\ WriteAt(file, pos, unit) \in File
           /\ \A hash, more \in File :
                 /\ Covers(file, hash) /\ Len(hash) = pos
                 /\ Len(more) = pos + 1 /\ more[pos + 1] = unit
                 /\ \A i \in 1..pos : more[i] = hash[i]
                 => Covers(WriteAt(file, pos, unit), more)
<1> DEFINE n == IF pos < Len(file) THEN Len(file) ELSE pos + 1
           new == WriteAt(file, pos, unit)
<1>1. Len(file) \in Nat /\ DOMAIN file = 1..Len(file)
      /\ \A i \in 1..Len(file) : file[i] \in Units \union {Hole}
    BY LenProperties, ElementOfSeq DEF File
<1>2. n \in Nat /\ n >= pos + 1 /\ n >= Len(file)
    BY <1>1
<1>3. new = [i \in 1..n |->
                IF i = pos + 1 THEN unit ELSE IF i \in DOMAIN file THEN file[i] ELSE Hole]
    BY DEF WriteAt
<1> HIDE DEF n, new
<1>4. new \in File /\ Len(new) = n
    BY <1>1, <1>2, <1>3, IsASeq, LenProperties DEF File
<1>5. ASSUME NEW hash \in File, NEW more \in File, Covers(file, hash), Len(hash) = pos,
             Len(more) = pos + 1, more[pos + 1] = unit, \A i \in 1..pos : more[i] = hash[i]
      PROVE  Covers(new, more)
    <2>1. ASSUME NEW i \in 1..(pos + 1)
          PROVE  new[i] = more[i]
        <3>1. CASE i = pos + 1
            BY <1>2, <1>3, <1>5, <3>1
        <3>2. CASE i <= pos
            <4>1. i \in 1..Len(file) /\ file[i] = hash[i]
                BY <1>1, <1>5, <3>2 DEF Covers
            <4> QED
                BY <1>1, <1>2, <1>3, <1>5, <3>2, <4>1
        <3> QED
            BY <3>1, <3>2
    <2> QED
        BY <1>2, <1>4, <1>5, <2>1 DEF Covers
<1> QED
    BY <1>4, <1>5 DEF new

LEMMA PullChunkPreserves ==
    ASSUME RestoreInv, NEW w \in Workers, PullChunk(w)
    PROVE  RestoreInv'
<1> DEFINE id == work[w].id
           data == GetChunk(id, work[w].offset)
<1>1. /\ work[w].stage = "chunk" /\ id \in Ids /\ work[w].offset < Size(id)
      /\ work[w] \in Work /\ DbStep /\ part \in File
      /\ UNCHANGED <<dbVars, queueVars, active, dest, failures, restarts>>
    BY DbUnchanged DEF PullChunk, At, RestoreInv, TypeOK, WorkOK, WorkerOK
<1>2. data \in Seq(Units) /\ Len(data) = 1 /\ data[1] \in Units
    BY <1>1, ChunkTypes DEF RestoreInv, Work
<1>3. PICK more \in File :
         /\ more = work[w].hash \o data
         /\ Len(work[w].hash) \in Nat /\ Len(more) = Len(work[w].hash) + 1
         /\ \A i \in 1..Len(work[w].hash) : more[i] = work[w].hash[i]
         /\ more[Len(work[w].hash) + 1] = data[1]
    <2>1. work[w].hash \in File /\ data \in File
        BY <1>1, <1>2, SeqMonotonic DEF Work, File
    <2> QED
        BY <1>2, <2>1, OneMore
<1>4. failures' \in Nat /\ restarts' \in Nat /\ dest' \in File \union {Absent, Original}
      /\ UNCHANGED <<queueVars, active>>
    BY <1>1 DEF RestoreInv, TypeOK
<1>5. Absent \notin File /\ Size(id) \in Nat /\ work[w].offset \in Nat /\ work[w].pos \in Nat
    BY <1>1, StoredTypes, FilesAssumption DEF File, RestoreInv, Work
<1>6. CASE /\ part' = WriteAt(part, work[w].pos, data[1])
           /\ work' = [work EXCEPT ![w] =
                         [@ EXCEPT !.stage = "save", !.offset = work[w].offset + 1,
                                   !.pos = work[w].pos + 1, !.hash = more]]
           /\ UNCHANGED diskErrors
    <2>1. PICK x \in Work : /\ x.stage = "save" /\ x.id = id /\ x.offset = work[w].offset + 1
                            /\ x.pos = work[w].pos + 1 /\ x.hash = more
                            /\ work' = [work EXCEPT ![w] = x]
        <3>1. PICK o \in Nat, p \in Nat : o = work[w].offset + 1 /\ p = work[w].pos + 1
            <4>1. work[w].offset + 1 \in Nat /\ work[w].pos + 1 \in Nat
                BY <1>5
            <4> QED
                BY <4>1, Zenon
        <3>2. PICK x : x = [work[w] EXCEPT !.stage = "save", !.offset = o, !.pos = p,
                                           !.hash = more]
            OBVIOUS
        <3>3. /\ x \in Work /\ x.stage = "save" /\ x.id = work[w].id /\ x.offset = o
              /\ x.pos = p /\ x.hash = more
            BY <1>1, <3>2 DEF Work, Stages
        <3>4. work' = [work EXCEPT ![w] = x]
            BY <1>6, <3>1, <3>2
        <3> QED
            BY <3>1, <3>3, <3>4
    <2>2. part' \in File
        BY <1>1, <1>2, <1>6, WriteExtends DEF Work
    <2>3. WorkerOK(x)' /\ DestOK'
        BY <1>1, <1>5, <1>6, <2>1, <2>2
        DEF WorkerOK, RestoreInv, DestOK, dbVars, Ids, Size, Content
    <2>4. PartFits(x)'
        <3>1. SUFFICES ASSUME diskErrors' = 0
              PROVE  x.pos = x.offset /\ (Len(x.hash) = x.offset => Covers(part', x.hash))
            BY <2>1 DEF PartFits
        <3>2. work[w].pos = work[w].offset
              /\ (Len(work[w].hash) = work[w].offset => Covers(part, work[w].hash))
            BY <1>1, <1>6, <3>1 DEF RestoreInv, WorkOK, PartFits
        <3>3. x.pos = x.offset
            BY <2>1, <3>2
        <3>4. ASSUME Len(x.hash) = x.offset
              PROVE  Covers(part', x.hash)
            <4>1. Len(work[w].hash) = work[w].offset /\ Len(more) = work[w].pos + 1
                <5>1. Len(work[w].hash) \in Nat /\ Len(more) = Len(work[w].hash) + 1
                      /\ work[w].offset \in Nat /\ Len(more) = work[w].offset + 1
                    BY <1>3, <1>5, <2>1, <3>4
                <5> QED
                    BY <3>2, <5>1
            <4>2. Covers(WriteAt(part, work[w].pos, data[1]), more)
                <5>1. work[w].pos \in Nat /\ work[w].hash \in File /\ Covers(part, work[w].hash)
                    BY <1>1, <3>2, <4>1 DEF Work
                <5>2. /\ Len(work[w].hash) = work[w].pos /\ more[work[w].pos + 1] = data[1]
                      /\ \A i \in 1..work[w].pos : more[i] = work[w].hash[i]
                    BY <1>3, <3>2, <4>1
                <5>3. data[1] \in Units /\ part \in File /\ Len(more) = work[w].pos + 1
                    BY <1>1, <1>2, <4>1
                <5> HIDE DEF data, id
                <5>4. \A hash, longer \in File :
                        /\ Covers(part, hash) /\ Len(hash) = work[w].pos
                        /\ Len(longer) = work[w].pos + 1 /\ longer[work[w].pos + 1] = data[1]
                        /\ \A i \in 1..work[w].pos : longer[i] = hash[i]
                        => Covers(WriteAt(part, work[w].pos, data[1]), longer)
                    BY <5>1, <5>3, WriteExtends
                <5> QED
                    BY <5>1, <5>2, <5>3, <5>4, Zenon
            <4> QED
                BY <1>6, <2>1, <4>2
        <3> QED
            BY <3>3, <3>4
    <2>5. diskErrors' \in Nat
        BY <1>6 DEF RestoreInv, TypeOK
    <2> QED
        BY <1>1, <1>4, <2>1, <2>2, <2>3, <2>4, <2>5, WorkerMoves
<1>7. CASE /\ diskErrors < MaxDiskErrors /\ diskErrors' = diskErrors + 1
           /\ work' = [work EXCEPT ![w] =
                         [@ EXCEPT !.stage = "save", !.offset = work[w].offset + 1,
                                   !.hash = more]]
           /\ UNCHANGED part
    <2>1. PICK x \in Work : /\ x.stage = "save" /\ x.id = id /\ x.offset = work[w].offset + 1
                            /\ work' = [work EXCEPT ![w] = x]
        <3>1. PICK o \in Nat : o = work[w].offset + 1
            <4>1. work[w].offset + 1 \in Nat
                BY <1>5
            <4> QED
                BY <4>1, Zenon
        <3>2. PICK x : x = [work[w] EXCEPT !.stage = "save", !.offset = o, !.hash = more]
            OBVIOUS
        <3>3. x \in Work /\ x.stage = "save" /\ x.id = work[w].id /\ x.offset = o
            BY <1>1, <3>2 DEF Work, Stages
        <3>4. work' = [work EXCEPT ![w] = x]
            BY <1>7, <3>1, <3>2
        <3> QED
            BY <3>1, <3>3, <3>4
    <2>2. diskErrors' \in Nat /\ diskErrors' # 0 /\ part' \in File
        BY <1>1, <1>7 DEF RestoreInv, TypeOK
    <2>3. WorkerOK(x)' /\ PartFits(x)' /\ DestOK'
        BY <1>1, <1>5, <2>1, <2>2
        DEF WorkerOK, PartFits, DestOK, dbVars, Ids, Size, Content
    <2> QED
        BY <1>1, <1>4, <2>1, <2>2, <2>3, WorkerMoves
<1> QED
    BY <1>3, <1>6, <1>7 DEF PullChunk

LEMMA ChunkFailsPreserves ==
    ASSUME RestoreInv, NEW w \in Workers, ChunkFails(w)
    PROVE  RestoreInv'
<1>1. /\ work[w].stage # "ready" /\ Goes(w, "release") /\ DbStep
      /\ UNCHANGED <<queueVars, active, part, dest, diskErrors, restarts>>
    BY DbUnchanged DEF ChunkFails, At, diskVars
<1>2. failures' \in Nat
    BY DEF ChunkFails, Fails, RestoreInv, TypeOK
<1> QED
    BY <1>1, <1>2, GivesUp

LEMMA SaveOffsetPreserves ==
    ASSUME RestoreInv, NEW w \in Workers, SaveOffset(w)
    PROVE  RestoreInv'
<1>1. /\ work[w].stage = "save" /\ work[w].id \in Ids /\ work[w].offset <= Size(work[w].id)
      /\ part # Absent /\ work[w] \in Work
      /\ UNCHANGED <<sessions, queueVars, active, part, dest, failures, diskErrors, restarts>>
    BY DEF SaveOffset, At, diskVars, faultVars, RestoreInv, TypeOK, WorkOK, WorkerOK
<1>2. DbStep
    <2>1. [local[work[w].id] EXCEPT !.offset = work[w].offset] \in LocalRow
        BY <1>1, LocalTypes DEF LocalRow, Work
    <2>2. [local[work[w].id] EXCEPT !.offset = work[w].offset].offset = work[w].offset
        BY <1>1, LocalTypes DEF LocalRow
    <2>3. local' = [local EXCEPT ![work[w].id] =
                      [local[work[w].id] EXCEPT !.offset = work[w].offset]]
        BY DEF SaveOffset
    <2> QED
        BY <1>1, <2>1, <2>2, <2>3, LocalRowChanges
<1>3. PICK x \in Work : /\ x = [work[w] EXCEPT !.stage = "chunk"]
                        /\ work' = [work EXCEPT ![w] = x]
    BY <1>1 DEF SaveOffset, Goes, Work, Stages
<1>4. /\ x.stage = "chunk" /\ x.id = work[w].id /\ x.offset = work[w].offset
      /\ x.pos = work[w].pos /\ x.hash = work[w].hash
    BY <1>1, <1>3 DEF Work
<1>5. WorkerOK(x)' /\ PartFits(x)' /\ DestOK'
    BY <1>1, <1>4 DEF WorkerOK, PartFits, RestoreInv, WorkOK, DestOK, Ids, Size, Content
<1>6. /\ failures' \in Nat /\ diskErrors' \in Nat /\ restarts' \in Nat
      /\ part' \in File \union {Absent} /\ dest' \in File \union {Absent, Original}
      /\ UNCHANGED <<queueVars, active>>
    BY <1>1 DEF RestoreInv, TypeOK
<1> QED
    BY <1>1, <1>2, <1>3, <1>4, <1>5, <1>6, WorkerMoves

(* The server's session changes, but not the version it is about.          *)
LEMMA SessionFinished ==
    ASSUME RestoreInv, NEW id \in Ids, sessions' = FinishSession(id), UNCHANGED local
    PROVE  DbStep /\ Ids' = Ids /\ \A k \in Ids : Content(k)' = Content(k)
<1>1. \A k \in Ids : sessions[k] \in Session
    BY ElementOfSeq, LenProperties DEF RestoreInv, TypeOK, Ids
<1>2. [sessions[id] EXCEPT !.status = "DONE"] \in Session
    BY <1>1 DEF Session
<1>3. sessions' = [sessions EXCEPT ![id] = [sessions[id] EXCEPT !.status = "DONE"]]
    BY DEF FinishSession
<1>4. Ids = 1..Len(sessions)
    BY LenProperties DEF RestoreInv, TypeOK, Ids
<1>5. sessions' \in Seq(Session) /\ Len(sessions') = Len(sessions) /\ Ids' = Ids
    BY <1>2, <1>3, <1>4, ExceptSeq, LenProperties DEF RestoreInv, TypeOK, Ids
<1>6. \A k \in Ids : sessions'[k].version = sessions[k].version
    BY <1>1, <1>3, <1>4 DEF Session, Ids, RestoreInv, TypeOK
<1> QED
    BY <1>5, <1>6 DEF RestoreInv, TypeOK, DbStep, Size, Content

LEMMA FinishPreserves ==
    ASSUME RestoreInv, NEW w \in Workers, Finish(w)
    PROVE  RestoreInv'
<1>1. /\ work[w].stage = "chunk" /\ work[w].id \in Ids /\ part # Absent /\ work[w] \in Work
      /\ work[w].offset >= Size(work[w].id) /\ work[w].offset <= Size(work[w].id)
      /\ UNCHANGED <<local, queueVars, active, part, dest, diskErrors, restarts>>
    BY DEF Finish, At, diskVars, RestoreInv, TypeOK, WorkOK, WorkerOK
<1>2. DbStep /\ Ids' = Ids /\ \A k \in Ids : Content(k)' = Content(k)
    <2>1. CASE HandleRestoreFinish(work[w].id)
        BY <1>1, <2>1, SessionFinished DEF HandleRestoreFinish
    <2>2. CASE UNCHANGED sessions
        BY <1>1, <2>2, DbUnchanged DEF dbVars, Ids, Content
    <2> QED
        BY <2>1, <2>2 DEF Finish
<1>3. PICK x \in Work : /\ x = [work[w] EXCEPT !.stage = "verify"]
                        /\ work' = [work EXCEPT ![w] = x]
    BY <1>1 DEF Finish, Goes, Work, Stages
<1>4. /\ x.stage = "verify" /\ x.id = work[w].id /\ x.offset = work[w].offset
      /\ x.pos = work[w].pos /\ x.hash = work[w].hash
    BY <1>1, <1>3 DEF Work
<1>5. work[w].offset = Size(work[w].id)
    <2>1. Size(work[w].id) \in Nat /\ work[w].offset \in Nat
        BY <1>1, StoredTypes DEF RestoreInv, Work
    <2> QED
        BY <1>1, <2>1
<1>6. Size(x.id)' = Size(x.id)
    BY <1>1, <1>2, <1>4 DEF Size
<1>7. WorkerOK(x)'
    BY <1>1, <1>2, <1>4, <1>5, <1>6 DEF WorkerOK
<1>8. PartFits(x)' /\ DestOK'
    BY <1>1, <1>4 DEF PartFits, RestoreInv, WorkOK, DestOK
<1>9. /\ failures' \in Nat /\ diskErrors' \in Nat /\ restarts' \in Nat
      /\ part' \in File \union {Absent} /\ dest' \in File \union {Absent, Original}
      /\ UNCHANGED <<queueVars, active>>
    BY <1>1 DEF Finish, Fails, RestoreInv, TypeOK
<1> QED
    BY <1>1, <1>2, <1>3, <1>4, <1>7, <1>8, <1>9, WorkerMoves

(* A row's status changes.                                                 *)
LEMMA StatusSaved ==
    ASSUME RestoreInv, NEW id \in Ids, NEW status \in {"DONE", "FAILED"},
           local' = [local EXCEPT ![id].status = status], UNCHANGED sessions
    PROVE  DbStep
<1>1. PICK row \in LocalRow : /\ row = [local[id] EXCEPT !.status = status]
                              /\ row.offset = local[id].offset
    <2>1. local[id] \in LocalRow
        BY LocalTypes
    <2>2. PICK row : row = [local[id] EXCEPT !.status = status]
        OBVIOUS
    <2>3. row \in LocalRow /\ row.offset = local[id].offset
        BY <2>1, <2>2 DEF LocalRow
    <2> QED
        BY <2>2, <2>3
<1>2. local' = [local EXCEPT ![id] = row] /\ row.offset <= Size(id)
    BY <1>1, LocalTypes
<1> QED
    BY <1>2, LocalRowChanges

LEMMA VerifyPreserves ==
    ASSUME RestoreInv, NEW w \in Workers, Verify(w)
    PROVE  RestoreInv'
<1>1. /\ work[w].stage = "verify" /\ work[w].id \in Ids /\ part # Absent /\ work[w] \in Work
      /\ work[w].offset = Size(work[w].id)
      /\ UNCHANGED <<sessions, queueVars, active, part, dest, failures, diskErrors, restarts>>
    BY DEF Verify, At, diskVars, faultVars, RestoreInv, TypeOK, WorkOK, WorkerOK
<1>2. /\ failures' \in Nat /\ diskErrors' \in Nat /\ restarts' \in Nat
      /\ part' \in File \union {Absent} /\ dest' \in File \union {Absent, Original}
      /\ UNCHANGED <<queueVars, active>>
    BY <1>1 DEF RestoreInv, TypeOK
<1>3. CASE work[w].hash # Content(work[w].id)
    <2>1. Goes(w, "release") /\ local' = [local EXCEPT ![work[w].id].status = "FAILED"]
        BY <1>3 DEF Verify
    <2>2. DbStep
        BY <1>1, <2>1, StatusSaved
    <2> QED
        BY <1>1, <1>2, <2>1, <2>2, GivesUp
<1>4. CASE work[w].hash = Content(work[w].id)
    <2>1. Goes(w, "remove") /\ UNCHANGED dbVars
        BY <1>1, <1>4 DEF Verify, dbVars
    <2>2. PICK x \in Work : /\ x = [work[w] EXCEPT !.stage = "remove"]
                            /\ work' = [work EXCEPT ![w] = x]
        BY <1>1, <2>1 DEF Goes, Work, Stages
    <2>3. x.stage = "remove" /\ x.id = work[w].id
        BY <1>1, <2>2 DEF Work
    <2>4. diskErrors = 0 => Covers(part, Content(work[w].id))
        BY <1>1, <1>4 DEF RestoreInv, WorkOK, PartFits, Size
    <2>5. WorkerOK(x)' /\ PartFits(x)' /\ DestOK'
        BY <1>1, <2>3, <2>4 DEF WorkerOK, PartFits, RestoreInv, DestOK, Ids, Content
    <2>6. DbStep
        BY <2>1, DbUnchanged
    <2> QED
        BY <1>1, <1>2, <2>2, <2>3, <2>5, <2>6, WorkerMoves
<1> QED
    BY <1>3, <1>4

LEMMA RemoveOldPreserves ==
    ASSUME RestoreInv, NEW w \in Workers, RemoveOld(w)
    PROVE  RestoreInv'
<1>1. /\ work[w].stage = "remove" /\ work[w].id \in Ids /\ part # Absent /\ work[w] \in Work
      /\ DbStep /\ dest' = Absent
      /\ UNCHANGED <<dbVars, queueVars, active, part, failures, diskErrors, restarts>>
    BY DbUnchanged DEF RemoveOld, At, faultVars, RestoreInv, TypeOK, WorkOK, WorkerOK
<1>2. /\ failures' \in Nat /\ diskErrors' \in Nat /\ restarts' \in Nat
      /\ part' \in File \union {Absent} /\ dest' \in File \union {Absent, Original}
      /\ UNCHANGED <<queueVars, active>>
    BY <1>1 DEF RestoreInv, TypeOK
<1>3. PICK x \in Work : /\ x = [work[w] EXCEPT !.stage = "rename"]
                        /\ work' = [work EXCEPT ![w] = x]
    BY <1>1 DEF RemoveOld, Goes, Work, Stages
<1>4. x.stage = "rename" /\ x.id = work[w].id
    BY <1>1, <1>3 DEF Work
<1>5. WorkerOK(x)' /\ PartFits(x)' /\ DestOK'
    BY <1>1, <1>4
    DEF WorkerOK, PartFits, RestoreInv, WorkOK, DestOK, Ids, Content, dbVars
<1> QED
    BY <1>1, <1>2, <1>3, <1>4, <1>5, WorkerMoves

LEMMA RenamePartPreserves ==
    ASSUME RestoreInv, NEW w \in Workers, RenamePart(w)
    PROVE  RestoreInv'
<1>1. /\ work[w].stage = "rename" /\ work[w].id \in Ids /\ part # Absent /\ work[w] \in Work
      /\ DbStep
      /\ UNCHANGED <<dbVars, queueVars, active, diskErrors, restarts>>
    BY DbUnchanged DEF RenamePart, At, RestoreInv, TypeOK, WorkOK, WorkerOK
<1>2. failures' \in Nat /\ diskErrors' \in Nat /\ restarts' \in Nat
      /\ UNCHANGED <<queueVars, active>>
    BY <1>1 DEF RenamePart, Fails, RestoreInv, TypeOK
<1>3. CASE Goes(w, "release") /\ UNCHANGED diskVars
    BY <1>1, <1>2, <1>3, GivesUp DEF diskVars
<1>4. CASE dest' = part /\ part' = Absent /\ Goes(w, "done")
    <2>1. part' \in File \union {Absent} /\ dest' \in File
        BY <1>1, <1>4 DEF RestoreInv, TypeOK
    <2>2. PICK x \in Work : /\ x = [work[w] EXCEPT !.stage = "done"]
                            /\ work' = [work EXCEPT ![w] = x]
        BY <1>1, <1>4 DEF Goes, Work, Stages
    <2>3. x.stage = "done" /\ x.id = work[w].id
        BY <1>1, <2>2 DEF Work
    <2>4. WorkerOK(x)' /\ PartFits(x)'
        BY <1>1, <2>3 DEF WorkerOK, PartFits, Ids, dbVars
    <2>5. DestOK'
        <3>1. diskErrors = 0 => Covers(part, Content(work[w].id))
            BY <1>1 DEF RestoreInv, WorkOK, PartFits
        <3>2. \E v \in Versions : Content(work[w].id) = Stored[v]
            BY <1>1, StoredTypes DEF RestoreInv
        <3> QED
            BY <1>1, <1>4, <3>1, <3>2 DEF DestOK
    <2> QED
        BY <1>1, <1>2, <2>1, <2>2, <2>3, <2>4, <2>5, WorkerMoves
<1> QED
    BY <1>3, <1>4 DEF RenamePart

LEMMA SaveDonePreserves ==
    ASSUME RestoreInv, NEW w \in Workers, SaveDone(w)
    PROVE  RestoreInv'
<1>1. /\ work[w].stage = "done" /\ work[w].id \in Ids /\ Goes(w, "release")
      /\ local' = [local EXCEPT ![work[w].id].status = "DONE"]
      /\ UNCHANGED <<sessions, queueVars, active, part, dest, failures, diskErrors, restarts>>
    BY DEF SaveDone, At, diskVars, faultVars, RestoreInv, WorkOK, WorkerOK
<1>2. DbStep /\ failures' \in Nat
    BY <1>1, StatusSaved DEF RestoreInv, TypeOK
<1> QED
    BY <1>1, <1>2, GivesUp

(* A worker that is done, or all of them when the client dies.             *)
LEMMA NobodyWorks ==
    ASSUME RestoreInv, UNCHANGED <<dbVars, diskVars, diskErrors, failures, commands>>,
           active' = FALSE, restarts' \in Nat,
           queue' \in Seq(Job), listed' \subseteq Ids, offer' \in Ids \union {0},
           work' \in [Workers -> Work], \A w \in Workers : work'[w].stage = "ready"
    PROVE  RestoreInv'
<1>1. TypeOK'
    BY DEF RestoreInv, TypeOK, dbVars, diskVars, Ids, Size, Content, Job
<1>2. OneRestoreAtATime' /\ WorkOK' /\ DestOK'
    BY DEF RestoreInv, OneRestoreAtATime, Working, WorkOK, WorkerOK, PartFits, DestOK, diskVars
<1> QED
    BY <1>1, <1>2 DEF RestoreInv

LEMMA IdleTypes == NoWork \in Work /\ NoWork.stage = "ready"
BY EmptySeq DEF NoWork, Work, Stages, File

LEMMA ReleasePreserves ==
    ASSUME RestoreInv, NEW w \in Workers, Release(w)
    PROVE  RestoreInv'
<1>1. /\ work[w].stage = "release" /\ work' = [work EXCEPT ![w] = NoWork]
      /\ active' = FALSE /\ UNCHANGED <<dbVars, queueVars, diskVars, faultVars>>
    BY DEF Release, At
<1>2. work' \in [Workers -> Work] /\ \A v \in Workers : work'[v].stage = "ready"
    BY <1>1, IdleTypes DEF RestoreInv, TypeOK, OneRestoreAtATime, Working
<1> QED
    BY <1>1, <1>2, NobodyWorks DEF RestoreInv, TypeOK, queueVars, faultVars

LEMMA DeviceRestartPreserves == RestoreInv /\ DeviceRestart => RestoreInv'
<1> SUFFICES ASSUME RestoreInv, DeviceRestart PROVE RestoreInv'
    OBVIOUS
<1>1. work' \in [Workers -> Work] /\ \A v \in Workers : work'[v].stage = "ready"
    BY IdleTypes DEF DeviceRestart
<1>2. queue' \in Seq(Job) /\ listed' \subseteq Ids /\ offer' \in Ids \union {0}
      /\ restarts' \in Nat
    BY EmptySeq DEF DeviceRestart, RestoreInv, TypeOK
<1> QED
    BY <1>1, <1>2, NobodyWorks DEF DeviceRestart

LEMMA RestoreInvStep == RestoreInv /\ [Next]_vars => RestoreInv'
<1> SUFFICES ASSUME RestoreInv, [Next]_vars PROVE RestoreInv'
    OBVIOUS
<1>1. CASE (\E version \in Versions : HandleRestoreCmd(version)) \/ RecoveryStep
    BY <1>1, QueuePreserves
<1>2. ASSUME NEW w \in Workers, WorkerStep(w) PROVE RestoreInv'
    BY <1>2, TakePreserves, NewSessionPreserves, ResumePreserves, OpenPreserves,
       PullChunkPreserves, ChunkFailsPreserves, SaveOffsetPreserves, FinishPreserves,
       VerifyPreserves, RemoveOldPreserves, RenamePartPreserves, SaveDonePreserves,
       ReleasePreserves
    DEF WorkerStep, Restores
<1>3. CASE DeviceRestart
    BY <1>3, DeviceRestartPreserves
<1>4. CASE UNCHANGED vars
    BY <1>4 DEF RestoreInv, TypeOK, OneRestoreAtATime, Working, WorkOK, WorkerOK, PartFits,
        DestOK, Ids, Size, Content, Job, vars, dbVars, queueVars, poolVars, diskVars, faultVars
<1> QED
    BY <1>1, <1>2, <1>3, <1>4 DEF Next

LEMMA RestoreInvAlways == Spec => []RestoreInv
BY RestoreInvInit, RestoreInvStep, PTL DEF Spec

(***************************************************************************)
(* The theorems.                                                           *)
(***************************************************************************)

(* Every reachable state of a restore is well typed; no saved offset lies  *)
(* behind the end of the version it belongs to.                            *)
THEOREM TypeCorrect == Spec => []TypeOK
<1>1. RestoreInv => TypeOK
    BY DEF RestoreInv
<1> QED
    BY <1>1, RestoreInvAlways, PTL

(* activeRestores admits one worker to the file at a time, however often   *)
(* recovery queues its sessions and however many workers there are.        *)
THEOREM OneAtATime == Spec => []OneRestoreAtATime
<1>1. RestoreInv => OneRestoreAtATime
    BY DEF RestoreInv
<1> QED
    BY <1>1, RestoreInvAlways, PTL

(* With a disk that takes what is written, a restored file begins with a   *)
(* whole stored version, across restarts, resumptions and sessions that    *)
(* share the .part file.                                                   *)
THEOREM BeginsWithVersion == Spec => []RestoredBeginsWithVersion
<1>1. ASSUME RestoreInv, diskErrors = 0, dest \notin {Absent, Original}
      PROVE  \E v \in Versions :
                Len(Stored[v]) <= Len(dest) /\ SubSeq(dest, 1, Len(Stored[v])) = Stored[v]
    <2>1. PICK v \in Versions : Covers(dest, Stored[v])
        BY <1>1 DEF RestoreInv, DestOK
    <2>2. Stored[v] \in Seq(Units) /\ dest \in File
        BY <1>1, StoredAssumption, ElementOfSeq, LenProperties DEF Versions, RestoreInv, TypeOK
    <2>3. /\ Len(Stored[v]) \in Nat /\ Len(dest) \in Nat /\ Stored[v] \in File
          /\ Len(Stored[v]) <= Len(dest)
        BY <2>1, <2>2, LenProperties, SeqMonotonic DEF Covers, File
    <2> DEFINE front == SubSeq(dest, 1, Len(Stored[v]))
    <2>4. /\ front \in File /\ Len(front) = Len(Stored[v])
          /\ \A i \in 1..Len(Stored[v]) : front[i] = dest[i]
        BY <2>2, <2>3, SubSeqProperties DEF File
    <2>5. front = Stored[v]
        BY <2>1, <2>3, <2>4, SeqEqual DEF Covers, File
    <2> QED
        BY <2>3, <2>5
<1>2. RestoreInv => RestoredBeginsWithVersion
    BY <1>1 DEF RestoredBeginsWithVersion
<1> QED
    BY <1>2, RestoreInvAlways, PTL
=============================================================================
