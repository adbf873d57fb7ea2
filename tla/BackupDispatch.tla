--------------------------- MODULE BackupDispatch ---------------------------
(***************************************************************************)
(* The dispatch of backups on a device: a loop that every ten seconds      *)
(* lists the files that have changed since their last backup and queues    *)
(* them, and a pool of workers that back them up (BackupTransfer is one    *)
(* such backup).  activeMap keeps a file from being queued twice; the list *)
(* of candidates is read once and worked through while workers, events and *)
(* the map move on.                                                        *)
(***************************************************************************)
EXTENDS Integers, FiniteSets, Sequences

CONSTANTS
    Files,        \* the monitored files
    Broken,       \* those that cannot be opened, deleted ones for instance
    Workers,
    NoFile,
    Capacity,     \* of jobsChan: 20 in the code
    Limit,        \* candidates read at a time: 10 in the code
    MaxEvents,    \* bound: events of the file monitor
    MaxFailures   \* bound: backups of files not Broken that fail

ASSUME FilesAssumption == NoFile \notin Files /\ Broken \subseteq Files
ASSUME SizesAssumption == Capacity \in Nat \ {0} /\ Limit \in Nat \ {0}
ASSUME BoundsAssumption == MaxEvents \in Nat /\ MaxFailures \in Nat

VARIABLES
    eventAt,    \* last_event_at
    due,        \* files with last_backup_at < last_event_at
    listed,     \* candidates that dispatchJobs has still to look at
    claim,      \* the one it has just put into activeMap, or NoFile
    activeMap,
    jobsChan,
    stage,      \* where a worker stands
    job,        \* the file it has taken, or NoFile
    stopping,   \* stopChan is closed
    closed,     \* jobsChan is closed, the loop has returned
    events, failures

dbVars       == <<eventAt, due>>
dispatchVars == <<listed, claim>>
workerVars   == <<stage, job>>
stopVars     == <<stopping, closed>>
budgetVars   == <<events, failures>>
vars == <<dbVars, dispatchVars, activeMap, jobsChan, workerVars, stopVars, budgetVars>>

Stages == {"ready", "backup", "release", "returned"}

Init ==
    /\ eventAt = [f \in Files |-> 0]
    /\ due \in SUBSET Files
    /\ listed = <<>> /\ claim = NoFile
    /\ activeMap = {} /\ jobsChan = <<>>
    /\ stage = [w \in Workers |-> "ready"]
    /\ job = [w \in Workers |-> NoFile]
    /\ stopping = FALSE /\ closed = FALSE
    /\ events = 0 /\ failures = 0

(***************************************************************************)
(* The loop.                                                               *)
(***************************************************************************)
NewestFirst(s) ==
    \A i, j \in DOMAIN s :
        i < j => s[i] # s[j] /\ eventAt[s[j]] <= eventAt[s[i]]

\* Slip: the query without its LIMIT.
CandidatesUnlimited ==
    {s \in [1..Cardinality(due) -> due] : NewestFirst(s)}

(* What the query may return: the newest files that are due, and all of    *)
(* them if there are no more than Limit.                                   *)
Candidates ==
    {s \in UNION {[1..n -> due] : n \in 0..Limit} :
        /\ NewestFirst(s)
        /\ \A f \in due : (\E i \in DOMAIN s : s[i] = f) \/
              (Len(s) = Limit /\ \A i \in DOMAIN s : eventAt[f] <= eventAt[s[i]])}

InSelect == listed = <<>> /\ claim = NoFile /\ ~closed

Tick ==
    /\ InSelect
    /\ listed' \in Candidates
    /\ UNCHANGED <<dbVars, claim, activeMap, jobsChan, workerVars, stopVars, budgetVars>>

\* Slip: queueing whatever was loaded.
ClaimNextUnchecked ==
    /\ claim = NoFile
    /\ listed # <<>>
    /\ listed' = Tail(listed)
    /\ claim' = Head(listed)
    /\ activeMap' = activeMap \union {Head(listed)}
    /\ UNCHANGED <<dbVars, jobsChan, workerVars, stopVars, budgetVars>>

(* LoadOrStore.                                                            *)
ClaimNext ==
    /\ claim = NoFile
    /\ listed # <<>>
    /\ listed' = Tail(listed)
    /\ claim' = IF Head(listed) \in activeMap THEN NoFile ELSE Head(listed)
    /\ activeMap' = activeMap \union {Head(listed)}
    /\ UNCHANGED <<dbVars, jobsChan, workerVars, stopVars, budgetVars>>

\* Slip: skipping a file on a full channel and leaving it in the map.
QueueKeepsClaim ==
    /\ claim # NoFile
    /\ claim' = NoFile
    /\ jobsChan' = IF Len(jobsChan) < Capacity THEN Append(jobsChan, claim) ELSE jobsChan
    /\ UNCHANGED <<dbVars, listed, activeMap, workerVars, stopVars, budgetVars>>

(* The select with a default: a full channel gives the claim back.         *)
Queue ==
    /\ claim # NoFile
    /\ claim' = NoFile
    /\ IF Len(jobsChan) < Capacity
         THEN jobsChan' = Append(jobsChan, claim) /\ UNCHANGED activeMap
         ELSE activeMap' = activeMap \ {claim} /\ UNCHANGED jobsChan
    /\ UNCHANGED <<dbVars, listed, workerVars, stopVars, budgetVars>>

Stop ==
    /\ ~stopping
    /\ stopping' = TRUE
    /\ UNCHANGED <<dbVars, dispatchVars, activeMap, jobsChan, workerVars, closed, budgetVars>>

\* Slip: leaving jobsChan open.
LoopReturnsOpen ==
    /\ InSelect
    /\ stopping
    /\ UNCHANGED vars

LoopReturns ==
    /\ InSelect
    /\ stopping
    /\ closed' = TRUE
    /\ UNCHANGED <<dbVars, dispatchVars, activeMap, jobsChan, workerVars, stopping, budgetVars>>

(***************************************************************************)
(* The workers.                                                            *)
(***************************************************************************)
Take(w) ==
    /\ stage[w] = "ready"
    /\ jobsChan # <<>>
    /\ job' = [job EXCEPT ![w] = Head(jobsChan)]
    /\ jobsChan' = Tail(jobsChan)
    /\ stage' = [stage EXCEPT ![w] = "backup"]
    /\ UNCHANGED <<dbVars, dispatchVars, activeMap, stopVars, budgetVars>>

WorkerReturns(w) ==
    /\ stage[w] = "ready"
    /\ closed
    /\ jobsChan = <<>>
    /\ stage' = [stage EXCEPT ![w] = "returned"]
    /\ UNCHANGED <<dbVars, dispatchVars, activeMap, jobsChan, job, stopVars, budgetVars>>

(* last_backup_at becomes now, whatever events came during the backup.     *)
BackupDone(w) ==
    /\ stage[w] = "backup"
    /\ job[w] \notin Broken
    /\ due' = due \ {job[w]}
    /\ stage' = [stage EXCEPT ![w] = "release"]
    /\ UNCHANGED <<eventAt, dispatchVars, activeMap, jobsChan, job, stopVars, budgetVars>>

(* backupFile fails, or the device is not registered.                      *)
BackupFails(w) ==
    /\ stage[w] = "backup"
    /\ \/ job[w] \in Broken /\ UNCHANGED failures
       \/ failures < MaxFailures /\ failures' = failures + 1
    /\ stage' = [stage EXCEPT ![w] = "release"]
    /\ UNCHANGED <<dbVars, dispatchVars, activeMap, jobsChan, job, stopVars, events>>

\* Slip: a file whose backup failed stays in the map.
ReleaseIfDone(w) ==
    /\ stage[w] = "release"
    /\ activeMap' = IF job[w] \in due THEN activeMap ELSE activeMap \ {job[w]}
    /\ stage' = [stage EXCEPT ![w] = "ready"]
    /\ job' = [job EXCEPT ![w] = NoFile]
    /\ UNCHANGED <<dbVars, dispatchVars, jobsChan, stopVars, budgetVars>>

Release(w) ==
    /\ stage[w] = "release"
    /\ activeMap' = activeMap \ {job[w]}
    /\ stage' = [stage EXCEPT ![w] = "ready"]
    /\ job' = [job EXCEPT ![w] = NoFile]
    /\ UNCHANGED <<dbVars, dispatchVars, jobsChan, stopVars, budgetVars>>

(* The file monitor records an event.                                      *)
FileEvent(f) ==
    /\ events < MaxEvents
    /\ events' = events + 1
    /\ eventAt' = [eventAt EXCEPT ![f] = events + 1]
    /\ due' = due \union {f}
    /\ UNCHANGED <<dispatchVars, activeMap, jobsChan, workerVars, stopVars, failures>>

(***************************************************************************)
LoopStep == Tick \/ ClaimNext \/ Queue

WorkerStep(w) ==
    \/ Take(w) \/ WorkerReturns(w) \/ BackupDone(w) \/ BackupFails(w) \/ Release(w)

Next ==
    \/ LoopStep \/ LoopReturns \/ Stop
    \/ \E w \in Workers : WorkerStep(w)
    \/ \E f \in Files : FileEvent(f)

Spec == Init /\ [][Next]_vars

(* The goroutines keep running.  The loop is not kept from stopping by the *)
(* ticker for ever: a select picks any of the channels that are ready.     *)
Fairness ==
    /\ WF_vars(LoopStep)
    /\ SF_vars(LoopReturns)
    /\ \A w \in Workers : WF_vars(WorkerStep(w))

FairSpec == Spec /\ Fairness

(***************************************************************************)
(* Properties.                                                             *)
(***************************************************************************)
(* Types, and what the query and the channel can hold.                     *)
TypeOK ==
    /\ eventAt \in [Files -> Nat]
    /\ due \subseteq Files
    /\ listed \in Seq(Files) /\ Len(listed) <= Limit
    /\ claim \in Files \union {NoFile}
    /\ activeMap \subseteq Files
    /\ jobsChan \in Seq(Files) /\ Len(jobsChan) <= Capacity
    /\ stage \in [Workers -> Stages]
    /\ job \in [Workers -> Files \union {NoFile}]
    /\ stopping \in BOOLEAN /\ closed \in BOOLEAN
    /\ events \in 0..MaxEvents
    /\ failures \in 0..MaxFailures

Queued  == {jobsChan[i] : i \in DOMAIN jobsChan}
Busy    == {w \in Workers : stage[w] \in {"backup", "release"}}
Worked  == {job[w] : w \in Busy}

(* activeMap holds a file exactly as long as somebody is answerable for    *)
(* it: the loop that claimed it, the channel, or a worker.  A file left    *)
(* behind in the map would never be backed up again.                       *)
ClaimsAreHeld == activeMap = Queued \union Worked \union ({claim} \ {NoFile})

(* A file is in one place at a time: two workers never upload one file at  *)
(* once, although it may be queued from a list that was read before its    *)
(* last backup ended.                                                      *)
OnePlacePerFile ==
    /\ \A i, j \in DOMAIN jobsChan : jobsChan[i] = jobsChan[j] => i = j
    /\ \A v, w \in Busy : job[v] = job[w] => v = w
    /\ Queued \intersect Worked = {}
    /\ claim \notin Queued \union Worked

(* Every file that can be opened is backed up after its last event, unless *)
(* the client is stopped: with fewer broken files than candidates are read *)
(* at a time, and a channel that holds as many, neither skipped claims nor *)
(* broken files that stay newest keep it out for ever.                     *)
EveryFileBackedUp == <>[](due \subseteq Broken) \/ <>stopping

(* Stop() returns: the loop and every worker come to their end, whatever   *)
(* was queued.                                                             *)
StopReturns == stopping ~> \A w \in Workers : stage[w] = "returned"
=============================================================================
