------------------------ MODULE BackupDispatch_proofs ------------------------
(***************************************************************************)
(* That activeMap does its work (ClaimsAreHeld, OnePlacePerFile), for any  *)
(* number of files and workers and any sizes of list and channel.          *)
(***************************************************************************)
EXTENDS BackupDispatch, TLAPS

DispatchInv ==
    /\ TypeOK
    /\ \A w \in Busy : job[w] \in Files
    /\ ClaimsAreHeld
    /\ OnePlacePerFile

(* A list of candidates is a sequence of files no longer than Limit.       *)
LEMMA CandidatesType ==
    ASSUME due \subseteq Files, NEW s \in Candidates
    PROVE  s \in Seq(Files) /\ Len(s) <= Limit
<1>1. PICK n \in 0..Limit : s \in [1..n -> due]
    BY DEF Candidates
<1>2. n \in Nat
    BY <1>1, SizesAssumption
<1>3. s \in [1..n -> Files]
    BY <1>1
<1> QED
    BY <1>1, <1>2, <1>3

(* What Queued becomes when a file is queued or taken.                     *)
LEMMA QueuedAppends ==
    ASSUME jobsChan \in Seq(Files), NEW f \in Files, jobsChan' = Append(jobsChan, f),
           f \notin Queued, \A i, j \in DOMAIN jobsChan : jobsChan[i] = jobsChan[j] => i = j
    PROVE  /\ Queued' = Queued \union {f}
           /\ \A i, j \in DOMAIN jobsChan' : jobsChan'[i] = jobsChan'[j] => i = j
<1> DEFINE n == Len(jobsChan)
<1>1. /\ n \in Nat /\ DOMAIN jobsChan = 1..n /\ DOMAIN jobsChan' = 1..(n + 1)
      /\ \A i \in 1..n : jobsChan'[i] = jobsChan[i]
      /\ jobsChan'[n + 1] = f
    OBVIOUS
<1> HIDE DEF n
<1>2. \A i \in 1..(n + 1) : i = n + 1 \/ i \in 1..n
    BY <1>1
<1>3. n + 1 \in 1..(n + 1) /\ 1..n \subseteq 1..(n + 1)
    BY <1>1
<1>4. Queued' = Queued \union {f}
    BY <1>1, <1>2, <1>3 DEF Queued
<1>5. \A i \in 1..n : jobsChan[i] # f
    BY <1>1 DEF Queued
<1> QED
    BY <1>1, <1>2, <1>4, <1>5

(* The head of the channel leaves it, and is not in it twice.              *)
LEMMA QueuedTakes ==
    ASSUME jobsChan \in Seq(Files), jobsChan # <<>>, jobsChan' = Tail(jobsChan),
           \A i, j \in DOMAIN jobsChan : jobsChan[i] = jobsChan[j] => i = j
    PROVE  /\ Head(jobsChan) \in Files /\ Head(jobsChan) \in Queued
           /\ Queued' = Queued \ {Head(jobsChan)}
           /\ \A i, j \in DOMAIN jobsChan' : jobsChan'[i] = jobsChan'[j] => i = j
<1> DEFINE n == Len(jobsChan)
<1>1. /\ n \in Nat /\ n >= 1 /\ DOMAIN jobsChan = 1..n /\ DOMAIN jobsChan' = 1..(n - 1)
      /\ \A i \in 1..(n - 1) : jobsChan'[i] = jobsChan[i + 1]
      /\ Head(jobsChan) = jobsChan[1] /\ jobsChan[1] \in Files
    OBVIOUS
<1> HIDE DEF n
<1>2. \A i \in 1..(n - 1) : i + 1 \in 1..n /\ i + 1 # 1
    BY <1>1
<1>3. \A i \in 1..n : i = 1 \/ (i - 1 \in 1..(n - 1) /\ (i - 1) + 1 = i)
    BY <1>1
<1>4. 1 \in 1..n
    BY <1>1
<1>5. \A i \in 1..n : i = 1 \/ jobsChan'[i - 1] = jobsChan[i]
    BY <1>1, <1>3
<1>6. Queued' \subseteq Queued \ {Head(jobsChan)}
    BY <1>1, <1>2, <1>4 DEF Queued
<1>7. ASSUME NEW f \in Queued, f # Head(jobsChan)
      PROVE  f \in Queued'
    <2>1. PICK i \in 1..n : jobsChan[i] = f
        BY <1>1 DEF Queued
    <2>2. i # 1
        BY <1>1, <1>7, <2>1
    <2>3. i - 1 \in DOMAIN jobsChan' /\ jobsChan'[i - 1] = f
        BY <1>1, <1>3, <1>5, <2>1, <2>2
    <2> QED
        BY <2>3 DEF Queued
<1>8. \A i, j \in 1..(n - 1) : i + 1 = j + 1 => i = j
    BY <1>1
<1> QED
    BY <1>1, <1>2, <1>4, <1>6, <1>7, <1>8 DEF Queued

(* Steps that move no file.                                                *)
LEMMA NothingMoves ==
    ASSUME OnePlacePerFile, ClaimsAreHeld, \A w \in Busy : job[w] \in Files,
           UNCHANGED <<claim, activeMap, jobsChan>>,
           Busy' = Busy, \A w \in Busy : job'[w] = job[w]
    PROVE  OnePlacePerFile' /\ ClaimsAreHeld' /\ \A w \in Busy' : job'[w] \in Files
<1>1. Queued' = Queued /\ Worked' = Worked
    BY DEF Queued, Worked
<1> QED
    BY <1>1 DEF OnePlacePerFile, ClaimsAreHeld

(* Every step keeps the types.                                             *)
LEMMA DispatchTypes ==
    ASSUME DispatchInv, [Next]_vars
    PROVE  TypeOK'
<1> USE DEF TypeOK
<1>1. TypeOK
    BY DEF DispatchInv
<1>2. CASE Tick
    BY <1>1, <1>2, CandidatesType DEF Tick, dbVars, workerVars, stopVars, budgetVars
<1>3. CASE ClaimNext
    <2>1. /\ Head(listed) \in Files /\ Tail(listed) \in Seq(Files)
          /\ Len(Tail(listed)) = Len(listed) - 1 /\ Len(listed) \in Nat
        BY <1>1, <1>3 DEF ClaimNext
    <2>2. Len(Tail(listed)) <= Limit
        BY <1>1, <2>1, SizesAssumption
    <2> QED
        BY <1>1, <1>3, <2>1, <2>2 DEF ClaimNext, dbVars, workerVars, stopVars, budgetVars
<1>4. CASE Queue
    <2>1. claim \in Files /\ activeMap' \subseteq Files
        BY <1>1, <1>4 DEF Queue
    <2>2. jobsChan' \in Seq(Files) /\ Len(jobsChan') <= Capacity
        <3>1. CASE Len(jobsChan) < Capacity
            <4>1. /\ jobsChan' = Append(jobsChan, claim) /\ jobsChan \in Seq(Files)
                  /\ Len(jobsChan) \in Nat
                BY <1>1, <1>4, <3>1 DEF Queue
            <4>2. jobsChan' \in Seq(Files) /\ Len(jobsChan') = Len(jobsChan) + 1
                BY <2>1, <4>1
            <4> QED
                BY <3>1, <4>1, <4>2, SizesAssumption
        <3>2. CASE ~(Len(jobsChan) < Capacity)
            BY <1>1, <1>4, <3>2 DEF Queue
        <3> QED
            BY <3>1, <3>2
    <2> QED
        BY <1>1, <1>4, <2>1, <2>2 DEF Queue, dbVars, workerVars, stopVars, budgetVars
<1>5. CASE LoopReturns \/ Stop
    BY <1>1, <1>5 DEF LoopReturns, Stop, dbVars, dispatchVars, workerVars, budgetVars
<1>6. ASSUME NEW w \in Workers, Take(w)
      PROVE  TypeOK'
    <2>1. /\ Head(jobsChan) \in Files /\ Tail(jobsChan) \in Seq(Files)
          /\ Len(Tail(jobsChan)) = Len(jobsChan) - 1 /\ Len(jobsChan) \in Nat
        BY <1>1, <1>6 DEF Take
    <2>2. Len(Tail(jobsChan)) <= Capacity
        BY <1>1, <2>1, SizesAssumption
    <2>3. stage' \in [Workers -> Stages] /\ job' \in [Workers -> Files \union {NoFile}]
        BY <1>1, <1>6, <2>1 DEF Take, Stages
    <2> QED
        BY <1>1, <1>6, <2>1, <2>2, <2>3 DEF Take, dbVars, dispatchVars, stopVars, budgetVars
<1>7. ASSUME NEW w \in Workers, WorkerReturns(w) \/ BackupDone(w) \/ Release(w)
      PROVE  TypeOK'
    BY <1>1, <1>7 DEF WorkerReturns, BackupDone, Release, Stages, dbVars, dispatchVars,
        stopVars, budgetVars
<1>8. ASSUME NEW w \in Workers, BackupFails(w)
      PROVE  TypeOK'
    <2>1. failures' \in 0..MaxFailures
        BY <1>1, <1>8, BoundsAssumption DEF BackupFails
    <2> QED
        BY <1>1, <1>8, <2>1 DEF BackupFails, Stages, dbVars, dispatchVars, stopVars
<1>9. ASSUME NEW f \in Files, FileEvent(f)
      PROVE  TypeOK'
    <2>1. events' \in 0..MaxEvents /\ events + 1 \in Nat
        BY <1>1, <1>9, BoundsAssumption DEF FileEvent
    <2> QED
        BY <1>1, <1>9, <2>1 DEF FileEvent, dispatchVars, workerVars, stopVars
<1>10. CASE UNCHANGED vars
    BY <1>1, <1>10 DEF vars, dbVars, dispatchVars, workerVars, stopVars, budgetVars
<1> QED
    BY <1>2, <1>3, <1>4, <1>5, <1>6, <1>7, <1>8, <1>9, <1>10 DEF Next, LoopStep, WorkerStep

(* The file goes from the loop to the channel, to a worker and out of the  *)
(* map, and is never in two of these places.                               *)
LEMMA DispatchStep ==
    ASSUME DispatchInv, [Next]_vars
    PROVE  OnePlacePerFile' /\ ClaimsAreHeld' /\ \A w \in Busy' : job'[w] \in Files
<1>1. /\ TypeOK /\ OnePlacePerFile /\ ClaimsAreHeld /\ \A w \in Busy : job[w] \in Files
      /\ jobsChan \in Seq(Files) /\ claim \in Files \union {NoFile}
      /\ stage \in [Workers -> Stages] /\ job \in [Workers -> Files \union {NoFile}]
    BY DEF DispatchInv, TypeOK
<1>2. ASSUME UNCHANGED <<claim, activeMap, jobsChan>>, UNCHANGED workerVars
      PROVE  OnePlacePerFile' /\ ClaimsAreHeld' /\ \A w \in Busy' : job'[w] \in Files
    BY <1>1, <1>2, NothingMoves DEF Busy, workerVars
<1>3. CASE Tick \/ LoopReturns \/ Stop \/ UNCHANGED vars \/ \E f \in Files : FileEvent(f)
    BY <1>2, <1>3 DEF Tick, LoopReturns, Stop, FileEvent, vars, dispatchVars
<1>4. CASE ClaimNext
    <2>1. Head(listed) \in Files
        BY <1>1, <1>4 DEF ClaimNext, TypeOK
    <2>2. Queued' = Queued /\ Worked' = Worked /\ Busy' = Busy /\ job' = job
        BY <1>4 DEF ClaimNext, Queued, Worked, Busy, workerVars
    <2>3. /\ claim = NoFile /\ activeMap' = activeMap \union {Head(listed)}
          /\ claim' = IF Head(listed) \in activeMap THEN NoFile ELSE Head(listed)
          /\ jobsChan' = jobsChan
        BY <1>4 DEF ClaimNext
    <2>4. ClaimsAreHeld'
        BY <1>1, <2>1, <2>2, <2>3, FilesAssumption DEF ClaimsAreHeld
    <2>5. claim' \notin Queued' \union Worked'
        BY <1>1, <2>1, <2>2, <2>3 DEF ClaimsAreHeld, OnePlacePerFile
    <2> QED
        BY <1>1, <2>2, <2>3, <2>4, <2>5 DEF OnePlacePerFile
<1>5. CASE Queue
    <2>1. /\ claim \in Files /\ claim' = NoFile /\ claim \notin Queued \union Worked
          /\ Worked' = Worked /\ Busy' = Busy /\ job' = job
        BY <1>1, <1>5 DEF Queue, OnePlacePerFile, Worked, Busy, workerVars
    <2>2. NoFile \notin Worked
        BY <1>1, FilesAssumption DEF Worked
    <2>3. NoFile \notin Queued
        BY <1>1, FilesAssumption DEF Queued
    <2>4. CASE jobsChan' = Append(jobsChan, claim) /\ activeMap' = activeMap
        <3>1. /\ Queued' = Queued \union {claim}
              /\ \A i, j \in DOMAIN jobsChan' : jobsChan'[i] = jobsChan'[j] => i = j
            BY <1>1, <2>1, <2>4, QueuedAppends DEF OnePlacePerFile
        <3> QED
            BY <1>1, <2>1, <2>2, <2>3, <2>4, <3>1, FilesAssumption
            DEF OnePlacePerFile, ClaimsAreHeld
    <2>5. CASE activeMap' = activeMap \ {claim} /\ jobsChan' = jobsChan
        <3>1. Queued' = Queued
            BY <2>5 DEF Queued
        <3> QED
            BY <1>1, <2>1, <2>2, <2>3, <2>5, <3>1, FilesAssumption
            DEF OnePlacePerFile, ClaimsAreHeld
    <2> QED
        BY <1>5, <2>4, <2>5 DEF Queue
<1>6. ASSUME NEW w \in Workers, Take(w)
      PROVE  OnePlacePerFile' /\ ClaimsAreHeld' /\ \A v \in Busy' : job'[v] \in Files
    <2> DEFINE f == Head(jobsChan)
    <2>1. /\ f \in Files /\ f \in Queued /\ Queued' = Queued \ {f}
          /\ \A i, j \in DOMAIN jobsChan' : jobsChan'[i] = jobsChan'[j] => i = j
        BY <1>1, <1>6, QueuedTakes DEF Take, OnePlacePerFile
    <2>2. /\ claim' = claim /\ activeMap' = activeMap
          /\ w \notin Busy /\ Busy' = Busy \union {w} /\ job'[w] = f
          /\ \A v \in Busy : job'[v] = job[v]
        BY <1>1, <1>6 DEF Take, Busy, dispatchVars
    <2> HIDE DEF f
    <2>3. Worked' = Worked \union {f}
        BY <2>2 DEF Worked
    <2>4. f \notin Worked /\ claim # f
        BY <1>1, <2>1 DEF OnePlacePerFile
    <2>5. \A v \in Busy : job[v] # f
        BY <2>4 DEF Worked
    <2>6. ClaimsAreHeld'
        BY <1>1, <2>1, <2>2, <2>3 DEF ClaimsAreHeld
    <2>7. OnePlacePerFile'
        BY <1>1, <2>1, <2>2, <2>3, <2>4, <2>5 DEF OnePlacePerFile
    <2> QED
        BY <1>1, <2>1, <2>2, <2>6, <2>7
<1>7. ASSUME NEW w \in Workers, WorkerReturns(w) \/ BackupDone(w) \/ BackupFails(w)
      PROVE  OnePlacePerFile' /\ ClaimsAreHeld' /\ \A v \in Busy' : job'[v] \in Files
    <2>1. Busy' = Busy
        BY <1>1, <1>7 DEF WorkerReturns, BackupDone, BackupFails, Busy
    <2>2. UNCHANGED <<claim, activeMap, jobsChan, job>>
        BY <1>7 DEF WorkerReturns, BackupDone, BackupFails, dispatchVars
    <2> QED
        BY <1>1, <2>1, <2>2, NothingMoves
<1>8. ASSUME NEW w \in Workers, Release(w)
      PROVE  OnePlacePerFile' /\ ClaimsAreHeld' /\ \A v \in Busy' : job'[v] \in Files
    <2>1. /\ w \in Busy /\ Busy' = Busy \ {w} /\ UNCHANGED <<claim, jobsChan>>
          /\ activeMap' = activeMap \ {job[w]}
          /\ \A v \in Busy \ {w} : job'[v] = job[v]
        BY <1>1, <1>8 DEF Release, Busy, dispatchVars
    <2>2. Queued' = Queued
        BY <2>1 DEF Queued
    <2>3. Worked' = Worked \ {job[w]}
        BY <1>1, <2>1 DEF Worked, OnePlacePerFile
    <2>4. job[w] \in Worked /\ job[w] \notin Queued /\ job[w] # claim
        BY <1>1, <2>1 DEF Worked, OnePlacePerFile
    <2>5. ClaimsAreHeld'
        BY <1>1, <2>1, <2>2, <2>3, <2>4 DEF ClaimsAreHeld
    <2>6. OnePlacePerFile'
        BY <1>1, <2>1, <2>2, <2>3 DEF OnePlacePerFile
    <2> QED
        BY <1>1, <2>1, <2>5, <2>6
<1> QED
    BY <1>3, <1>4, <1>5, <1>6, <1>7, <1>8 DEF Next, LoopStep, WorkerStep

(* The invariant holds before the first tick, and always.                  *)
LEMMA DispatchInvariance == Spec => []DispatchInv
<1>1. Init => DispatchInv
    <2> SUFFICES ASSUME Init PROVE DispatchInv
        OBVIOUS
    <2>1. Busy = {} /\ Queued = {} /\ Worked = {}
        BY DEF Init, Busy, Queued, Worked
    <2>2. TypeOK
        <3>1. 0 <= Limit /\ 0 <= Capacity /\ 0 \in 0..MaxEvents /\ 0 \in 0..MaxFailures
            BY SizesAssumption, BoundsAssumption
        <3>2. <<>> \in Seq(Files) /\ Len(<<>>) = 0
            OBVIOUS
        <3> QED
            BY <3>1, <3>2 DEF Init, TypeOK, Stages
    <2> QED
        BY <2>1, <2>2 DEF Init, DispatchInv, ClaimsAreHeld, OnePlacePerFile
<1>2. DispatchInv /\ [Next]_vars => DispatchInv'
    BY DispatchTypes, DispatchStep DEF DispatchInv
<1> QED
    BY <1>1, <1>2, PTL DEF Spec

(* Type correctness of the dispatch.                                       *)
THEOREM TypeCorrect == Spec => []TypeOK
<1>1. DispatchInv => TypeOK
    BY DEF DispatchInv
<1> QED
    BY <1>1, DispatchInvariance, PTL

(* A file that somebody is answerable for is in activeMap, and no other.   *)
THEOREM ClaimsHeld == Spec => []ClaimsAreHeld
<1>1. DispatchInv => ClaimsAreHeld
    BY DEF DispatchInv
<1> QED
    BY <1>1, DispatchInvariance, PTL

(* Two workers never upload one file at once.                              *)
THEOREM OneWorkerPerFile == Spec => []OnePlacePerFile
<1>1. DispatchInv => OnePlacePerFile
    BY DEF DispatchInv
<1> QED
    BY <1>1, DispatchInvariance, PTL
=============================================================================
