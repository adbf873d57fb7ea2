------------------------------ MODULE FileSync ------------------------------
(***************************************************************************)
(* The synchronisation of the file history of one device.  A worker sends  *)
(* the events behind its watermark in batches, one request at a time; a    *)
(* request thread of the server takes the events of a batch one by one     *)
(* into the directory tree, then writes all of them to the history and     *)
(* answers; the watermark moves with the answer.  The device's database    *)
(* and the server's survive; requests, answers and threads may be lost,    *)
(* and a thread works on when the worker has stopped waiting for it.       *)
(***************************************************************************)
EXTENDS FileTree

CONSTANTS
    Device,
    Strangers,    \* the rows that other devices have put into the tree
    Events,       \* records [uuid, path, type, action]
    Threads,
    NoThread,
    BatchSize,    \* 50 in the code
    MaxEvents,    \* bound: length of the log
    MaxFaults     \* bound: lost requests, errors of the database, threads left
                  \* behind, crashes

ASSUME ThreadsAssumption == NoThread \notin Threads
ASSUME BoundsAssumption ==
    /\ BatchSize \in Nat \ {0} /\ MaxEvents \in Nat /\ MaxFaults \in Nat

(* The paths of events and of the folders above them.                      *)
Paths == UNION {{SubSeq(e.path, 1, i) : i \in 1..Len(e.path)} : e \in Events}

(* A folder's uuid is made of its device and path, a file's is its own;    *)
(* what other devices have put into the tree has a uuid each; a pattern    *)
(* that matches a path otherwise than as what is below it goes on to match *)
(* what is in that.                                                        *)
ASSUME EventsAssumption ==
    /\ Device \in STRING
    /\ \A e \in Events :
          /\ e.uuid \in Uuids /\ e.path \in Seq(STRING) \ {<<>>}
          /\ e.action \in {"put", "delete"}
          /\ \/ e.type = "file" /\ e.uuid.from = "file"
             \/ e.type = "folder" /\ e.uuid = FolderUuid(Device, e.path)
ASSUME StrangersAssumption ==
    /\ Strangers \in Seq(Rows) /\ UniqueUuids(Strangers)
    /\ \A n \in DOMAIN Strangers : Strangers[n].device # Device
ASSUME FoldAssumption == \A path \in Paths : Folded(path) \in Seq(STRING)
ASSUME StraysAssumption ==
    \A dir, above, path \in Paths :
        SamePath(above, Dir(path)) /\ <<dir, above>> \in Strays => <<dir, path>> \in Strays

(* Two circumstances that two of the properties are proved under: no file  *)
(* has a path that also names a folder, or its row may be taken for        *)
(* the parent of others and its deletion leaves them without one; and no   *)
(* other device has a row with the uuid of one of these events, for a row  *)
(* keeps its device.                                                       *)
NamesKeepTheirKind ==
    \A e, f \in Events : e.type = "file" =>
        \A i \in 1..Len(f.path) - 1 : ~SamePath(e.path, SubSeq(f.path, 1, i))
StrangersOwnUuids ==
    \A n \in DOMAIN Strangers, e \in Events : Strangers[n].uuid # e.uuid

VARIABLES
    log,       \* file_change_events of the device
    mark,      \* its watermark
    upto,      \* the last event of the batch being sent, 0 for none
    waits,     \* the thread of the request, NoThread when it has answered
    answer,    \* "none", "success" or "error"
    stage,     \* where a request thread stands
    next,      \* the event it takes next
    batch,     \* the numbers of the events it was sent
    parent,    \* the ID EnsureParent gave it
    nodes,     \* file_nodes
    copies,    \* rows of device_file_histories for each event
    lost,      \* requests or insertions that failed
    late,      \* threads the worker stopped waiting for
    crashes,   \* of the server
    dropped,   \* errors in updating the tree, which nobody hears of
    missed     \* history: the events whose last update of the tree ended in one

clientVars == <<mark, upto, waits, answer>>
threadVars == <<stage, next, batch, parent>>
faultVars  == <<lost, late, crashes>>
treeVars   == <<nodes, dropped, missed>>
vars == <<log, clientVars, threadVars, treeVars, copies, faultVars>>

Numbers == 1..MaxEvents
Busy    == {t \in Threads : stage[t] # "free"}

MayFail == lost + late + crashes + dropped < MaxFaults

Init ==
    /\ log = <<>> /\ mark = 0
    /\ upto = 0 /\ waits = NoThread /\ answer = "none"
    /\ stage = [t \in Threads |-> "free"]
    /\ next = [t \in Threads |-> 0] /\ batch = [t \in Threads |-> {}]
    /\ parent = [t \in Threads |-> 0]
    /\ nodes = Strangers
    /\ copies = [n \in Numbers |-> 0]
    /\ lost = 0 /\ late = 0 /\ crashes = 0 /\ dropped = 0 /\ missed = {}

(***************************************************************************)
(* The device.                                                             *)
(***************************************************************************)
Put(e)     == e.action = "put"
LastOf(uuid) == First({n \in DOMAIN log : log[n].uuid = uuid /\
                         \A k \in DOMAIN log : log[k].uuid = uuid => k <= n})

(* The file monitor logs a change.  It may log a deletion again, and one   *)
(* of what it never logged when it died before it could.                   *)
Log(e) ==
    /\ Len(log) < MaxEvents
    /\ log' = Append(log, e)
    /\ UNCHANGED <<clientVars, threadVars, treeVars, copies, faultVars>>

BatchEnd == IF Len(log) < mark + BatchSize THEN Len(log) ELSE mark + BatchSize

Idle == upto = 0

\* Slip: starting with the event at the watermark.
SendFromMark ==
    /\ Idle /\ mark < Len(log)
    /\ upto' = BatchEnd
    /\ \E t \in Threads \ Busy :
          /\ waits' = t
          /\ stage' = [stage EXCEPT ![t] = "event"]
          /\ next' = [next EXCEPT ![t] = IF mark = 0 THEN 1 ELSE mark]
          /\ batch' = [batch EXCEPT ![t] = (IF mark = 0 THEN 1 ELSE mark)..upto']
    /\ UNCHANGED <<log, mark, answer, parent, treeVars, copies, faultVars>>

(* A tick of the worker that finds events behind the watermark.            *)
Send ==
    /\ Idle /\ mark < Len(log)
    /\ upto' = BatchEnd
    /\ \/ \E t \in Threads \ Busy :
             /\ waits' = t /\ UNCHANGED <<answer, lost>>
             /\ stage' = [stage EXCEPT ![t] = "event"]
             /\ next' = [next EXCEPT ![t] = mark + 1]
             /\ batch' = [batch EXCEPT ![t] = mark + 1..upto']
       \/ /\ MayFail /\ lost' = lost + 1
          /\ answer' = "error"
          /\ UNCHANGED <<waits, stage, next, batch>>
    /\ UNCHANGED <<log, mark, parent, treeVars, copies, late, crashes>>

\* Slip: going on only after a success.
ReceivedSuccess ==
    /\ upto # 0 /\ answer = "success"
    /\ mark' = upto
    /\ upto' = 0 /\ answer' = "none"
    /\ UNCHANGED <<log, waits, threadVars, treeVars, copies, faultVars>>

Received ==
    /\ upto # 0 /\ answer # "none"
    /\ mark' = IF answer = "success" THEN upto ELSE mark
    /\ upto' = 0 /\ answer' = "none"
    /\ UNCHANGED <<log, waits, threadVars, treeVars, copies, faultVars>>

(* Ten seconds have passed, the answer is lost, or the device restarts;    *)
(* also after the answer, before the watermark is saved.                   *)
GiveUp ==
    /\ upto # 0
    /\ MayFail /\ late' = late + 1
    /\ upto' = 0 /\ waits' = NoThread /\ answer' = "none"
    /\ UNCHANGED <<log, mark, threadVars, treeVars, copies, lost, crashes>>

(***************************************************************************)
(* A request thread.                                                       *)
(***************************************************************************)
Event(t) == log[next[t]]

Goes(t, to) == stage' = [stage EXCEPT ![t] = to]

Takes(t, action) == stage[t] = "event" /\ next[t] \in batch[t] /\ Event(t).action = action

ParentWith(t, errors) ==
    LET found == EnsureParent(nodes, Device, Event(t).path, errors)
    IN  nodes' = found.nodes /\ parent' = [parent EXCEPT ![t] = found.id]

FindParent(t) ==
    /\ Takes(t, "put")
    /\ ParentWith(t, NoErrors(Event(t).path))
    /\ Goes(t, "node")
    /\ UNCHANGED <<log, clientVars, next, batch, dropped, missed, copies, faultVars>>

EventDone(t) ==
    /\ next' = [next EXCEPT ![t] = @ + 1]
    /\ Goes(t, "event")
    /\ UNCHANGED <<log, clientVars, batch, parent, copies, faultVars>>

Applied(t) == EventDone(t) /\ missed' = missed \ {next[t]} /\ UNCHANGED dropped

SaveNode(t) ==
    /\ stage[t] = "node"
    /\ LET e == Event(t)
       IN  nodes' = UpsertNode(nodes, Device, parent[t], e.uuid, e.path, e.type)
    /\ Applied(t)

MarkNode(t) ==
    /\ Takes(t, "delete")
    /\ nodes' = MarkSelf(nodes, Event(t).uuid)
    /\ Goes(t, "below")
    /\ UNCHANGED <<log, clientVars, next, batch, parent, dropped, missed, copies, faultVars>>

\* Slip: leaving what is in a deleted folder.
MarkNothingBelow(t) ==
    /\ stage[t] = "below"
    /\ Applied(t)
    /\ UNCHANGED nodes

MarkChildren(t) ==
    /\ stage[t] = "below"
    /\ nodes' = MarkBelow(nodes, Event(t).uuid)
    /\ Applied(t)

(* The database fails.  A look-up of the uuid that fails is taken for a    *)
(* new row, which is refused if there is one.  Whatever it was, the thread *)
(* takes the next event, and history and answer know nothing of it.        *)
Drops == MayFail /\ dropped' = dropped + 1

FindParentFails(t) ==
    /\ Takes(t, "put")
    /\ \E errors \in Errors(Event(t).path) : ParentWith(t, errors)
    /\ Goes(t, "node")
    /\ Drops
    /\ UNCHANGED <<log, clientVars, next, batch, missed, copies, faultVars>>

UpdateFails(t) ==
    /\ stage[t] \in {"node", "below"} \/ Takes(t, "delete")
    /\ EventDone(t)
    /\ missed' = missed \union {next[t]}
    /\ Drops
    /\ UNCHANGED nodes

Answers(t, a) ==
    /\ Goes(t, "free")
    /\ IF waits = t THEN answer' = a /\ waits' = NoThread ELSE UNCHANGED <<answer, waits>>

\* Slip: counting the batch as inserted although the database refused.
BulkCreateUnchecked(t) ==
    /\ stage[t] = "event" /\ next[t] \notin batch[t]
    /\ \/ /\ copies' = [n \in Numbers |-> copies[n] + (IF n \in batch[t] THEN 1 ELSE 0)]
          /\ UNCHANGED lost
       \/ MayFail /\ lost' = lost + 1 /\ UNCHANGED copies
    /\ Answers(t, "success")
    /\ UNCHANGED <<log, mark, upto, next, batch, parent, treeVars, late, crashes>>

(* One insertion for the whole batch, and the answer.                      *)
BulkCreate(t) ==
    /\ stage[t] = "event" /\ next[t] \notin batch[t]
    /\ \/ /\ copies' = [n \in Numbers |-> copies[n] + (IF n \in batch[t] THEN 1 ELSE 0)]
          /\ Answers(t, "success") /\ UNCHANGED lost
       \/ MayFail /\ lost' = lost + 1 /\ Answers(t, "error") /\ UNCHANGED copies
    /\ UNCHANGED <<log, mark, upto, next, batch, parent, treeVars, late, crashes>>

(* The server dies; whoever waits for it gets no answer.                   *)
ServerCrash ==
    /\ MayFail /\ crashes' = crashes + 1
    /\ stage' = [t \in Threads |-> "free"]
    /\ waits' = NoThread
    /\ answer' = IF waits = NoThread THEN answer ELSE "error"
    /\ UNCHANGED <<log, mark, upto, next, batch, parent, treeVars, copies, lost, late>>

(***************************************************************************)
SyncEvents(t) == FindParent(t) \/ SaveNode(t) \/ MarkNode(t) \/ MarkChildren(t) \/ BulkCreate(t)
ClientStep    == Send \/ Received

Next ==
    \/ \E e \in Events : Log(e)
    \/ ClientStep \/ GiveUp
    \/ \E t \in Threads : SyncEvents(t) \/ FindParentFails(t) \/ UpdateFails(t)
    \/ ServerCrash

Spec == Init /\ [][Next]_vars

(* The ticker ticks, and request threads run.                              *)
FairSpec == Spec /\ WF_vars(ClientStep) /\ \A t \in Threads : WF_vars(SyncEvents(t))

(***************************************************************************)
(* Properties.                                                             *)
(***************************************************************************)
(* Types; the worker waits for a thread only while its batch is under way, *)
(* and a uuid has one row.                                                 *)
TypeOK ==
    /\ log \in Seq(Events) /\ Len(log) <= MaxEvents
    /\ mark \in 0..Len(log) /\ upto \in 0..Len(log)
    /\ waits \in Threads \union {NoThread}
    /\ answer \in {"none", "success", "error"}
    /\ stage \in [Threads -> {"free", "event", "node", "below"}]
    /\ next \in [Threads -> Nat]
    /\ batch \in [Threads -> SUBSET DOMAIN log]
    /\ parent \in [Threads -> Nat]
    /\ copies \in [Numbers -> Nat]
    /\ lost \in Nat /\ late \in Nat /\ crashes \in Nat /\ dropped \in Nat
    /\ missed \subseteq DOMAIN log
    /\ nodes \in Seq(Rows) /\ UniqueUuids(nodes)

Delivered == {n \in Numbers : copies[n] > 0}

Replicated == INSTANCE ReplicatedLog WITH
    Entries <- Events, log <- log, delivered <- Delivered, acked <- mark

(* The watermark, however requests are lost, repeated or overtaken, moves  *)
(* only over events that are in the history of the server.                 *)
ReplicatesLog == Replicated!Spec

(* Without a failure every event is in the history once.                   *)
OnceIfNothingFails ==
    lost + late + crashes = 0 => \A n \in Numbers : copies[n] <= 1

(* At last every event is in the history and counted as synchronised.      *)
EventuallySynced == <>[](mark = Len(log))

Settled == Idle /\ mark = Len(log) /\ Busy = {} /\ late = 0

(* The deletion of a folder: what is in it is deleted with it.             *)
Buries(k, path) ==
    ~Put(log[k]) /\ log[k].type = "folder" /\ Inside(log[k].path, path)

(* An event before it has put the row there that it deletes.               *)
Known(k) ==
    \E j \in 1..k - 1 : log[j].uuid = log[k].uuid /\ Put(log[j]) /\ j \notin missed

(* The deletion of a folder that does to a path what it should not, or     *)
(* does not what it should: its update of the tree failed, the folder is   *)
(* one that the server has not heard of, or the path matches its pattern   *)
(* without being below it, or is below it without matching it.             *)
Errs(k, path) ==
    /\ ~Put(log[k]) /\ log[k].type = "folder"
    /\ Inside(log[k].path, path) \/ Below(log[k].path, path)
    /\ \/ k \in missed \/ ~Known(k)
       \/ ~(Inside(log[k].path, path) <=> Below(log[k].path, path))

(* When all has been synchronised and no thread was left behind, the row   *)
(* of a uuid is what the log says of it, whatever was applied twice after  *)
(* a crash or an error: where its last event put it, and deleted if and    *)
(* only if that event or a later one for a folder above it was a deletion. *)
(* Only an error in the update for that event or for a deletion that errs  *)
(* may have it otherwise, and an error in another event does not.          *)
TreeFollowsLog ==
    Settled => \A k \in DOMAIN log \ missed : LastOf(log[k].uuid) = k =>
        LET n    == FindByUUID(nodes, log[k].uuid)
            path == log[k].path
        IN  IF Put(log[k])
              THEN /\ n # 0 /\ nodes[n].path = path
                   /\ (\A j \in k..Len(log) : ~Errs(j, path)) =>
                        (nodes[n].deleted <=> \E j \in k..Len(log) : Buries(j, path))
              ELSE /\ n # 0 => nodes[n].deleted
                   /\ Known(k) => n # 0

(* And an administrator who opens folder after folder finds every live row *)
(* of the device, but those in a folder that was deleted without them:     *)
(* because of an error, or because they do not match its pattern.          *)
Forgotten(path) ==
    \E k \in DOMAIN log :
        /\ ~Put(log[k]) /\ log[k].type = "folder"
        /\ Within(log[k].path, path)
        /\ k \in missed \/ log[k].path \in Escaped

EveryNodeIsFound ==
    Settled => \A n \in DOMAIN nodes :
        nodes[n].device = Device /\ ~nodes[n].deleted /\ ~Forgotten(nodes[n].path) =>
            n \in Browsed(nodes, Device)
=============================================================================
