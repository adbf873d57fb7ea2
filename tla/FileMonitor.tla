---------------------------- MODULE FileMonitor ----------------------------
(***************************************************************************)
(* The file monitor of a device: from changes on the disk through inotify  *)
(* and the main loop to a channel of events, which several workers write   *)
(* to the device's database, a row for each file (MonitoredFile) and a log *)
(* of events (FileChangeEvent).  Files are told by an attribute that the   *)
(* monitor writes to them, folders by their path.                          *)
(*                                                                         *)
(* There is a root and directories in it.  Of an action it is kept whether *)
(* the file is there afterwards (create, modify, rename) or gone (delete,  *)
(* move_out); the log is represented by the last entry of each uuid.       *)
(***************************************************************************)
EXTENDS Integers, FiniteSets, Sequences

CONSTANTS
    Dirs, Root,
    Names,        \* of files
    Ids,          \* uuids of files: numbers, as First orders rows by them
    None,
    Workers,      \* dbWorkerCount: 5 in the code
    Capacity,     \* of dbChan: 10000 in the code
    Strays,       \* pairs of paths of which the first, followed by /%, is a pattern
                  \* of SQL that matches the second although it is not in it: by "_"
                  \* or "%", or because the case of letters counts for nothing
    MaxChanges,   \* bound: changes on the disk
    MaxTroubles   \* bound: restarts of the client and failures of an operation

Places == Dirs \union {Root}
Paths  == Places \X Names
PathOf(d) == <<Root, d>>                \* the path of a directory
Uuids  == Ids \union Dirs               \* the uuid of a folder stands for its path
Spots  == Paths \union {PathOf(d) : d \in Dirs}
Inside(path, p) == PathOf(p[1]) = path
Below(path, p)  == Inside(path, p) \/ <<path, p>> \in Strays   \* path/% matches p

ASSUME NamesAssumption == Root \notin Dirs \union Names /\ Dirs \intersect (Names \union Ids) = {}
ASSUME IdsAssumption ==
    /\ Ids \subseteq Nat \ {0}
    /\ None \notin Uuids \union {0, Root} \union Places \X (Names \union Dirs) /\ None # {}
ASSUME BoundsAssumption ==
    /\ Capacity \in Nat \ {0} /\ MaxChanges \in Nat /\ MaxTroubles \in Nat

VARIABLES
    dirs,        \* the directories that exist
    disk,        \* what is at a path: None, 0 for a file without attribute, its uuid
    watches,     \* directories the kernel reports on
    watchedDir,
    inotify,     \* reports not yet handled
    scan,        \* the new directory the main loop is in, or None
    left,        \* files in it that WalkDir has still to visit; None: not read yet
    dbChan,
    stage, job, kids, uuid,  \* of a worker: where it stands, its event, children, fileID
    rows,        \* MonitoredFile: path and whether it is gone
    logged,      \* the last action in the log: "none", "put" or "gone"
    touched,     \* paths of files changed since the monitor runs, but for those
                 \* whose attribute could not be written or read since
    dropped,     \* an event found dbChan full
    overlap,     \* two workers have been at work at once
    cut,         \* history: uuids whose row or log entry was not written, because
                 \* of an error or a restart, and whose row was not since
    struck,      \* history: uuids taken for what is in a removed directory that
                 \* they are not in, and whose row was not written since
    changes, troubles

diskVars   == <<dirs, disk, touched, changes>>
watchVars  == <<watches, watchedDir>>
loopVars   == <<scan, left>>
workerVars == <<stage, job, kids, uuid, overlap>>
dbVars     == <<rows, logged, cut, struck>>
vars == <<diskVars, watchVars, inotify, loopVars, dbChan, dropped, workerVars, dbVars, troubles>>

NoRow == [path |-> None, gone |-> FALSE]
NoJob == [gone |-> FALSE, path |-> None, type |-> "file"]
Used  == {i \in Ids : \/ \E p \in Paths : disk[p] = i
                     \/ \E w \in Workers : uuid[w] = i
                     \/ rows[i] # NoRow \/ i \in cut}
Free  == Ids \ Used
Exists(p) == p \in Paths /\ disk[p] # None
IsDir(p)  == p[1] = Root /\ p[2] \in dirs

\* Slip: a uuid made from the name of the file.
TaggedByName(p, new) ==
    IF Exists(p) /\ disk[p] = 0
      THEN [disk EXCEPT ![p] = CHOOSE i \in Ids : \A j \in Ids : i <= j] ELSE disk

(* EnsureFileID: a file without attribute gets a new uuid.                 *)
Tagged(p, new) == IF Exists(p) /\ disk[p] = 0 THEN [disk EXCEPT ![p] = new] ELSE disk

Trouble == troubles < MaxTroubles /\ troubles' = troubles + 1

(* An attribute that cannot be read is written anew, and one that cannot   *)
(* be written is not there; the callers do not ask.                        *)
TagFails(p, new) ==
    /\ Trouble /\ Exists(p)
    /\ IF disk[p] = 0 THEN UNCHANGED disk /\ touched' = touched \ {p}
       ELSE disk' = [disk EXCEPT ![p] = new] /\ UNCHANGED touched

EnsureFileID(p) ==
    \E new \in Free :
        \/ disk' = Tagged(p, new) /\ UNCHANGED <<touched, troubles>>
        \/ TagFails(p, new)

(***************************************************************************)
(* NewFileMonitor: the directories are watched and the files tagged, those *)
(* where it can be done; no row is written.                                *)
(***************************************************************************)
Fresh ==
    /\ watches' = dirs \union {Root} /\ watchedDir' = dirs \union {Root}
    /\ inotify' = <<>> /\ scan' = None /\ left' = {} /\ dbChan' = <<>>
    /\ stage' = [w \in Workers |-> "idle"] /\ job' = [w \in Workers |-> NoJob]
    /\ kids' = [w \in Workers |-> {}] /\ uuid' = [w \in Workers |-> None]
    /\ touched' = {} /\ overlap' = FALSE /\ dropped' = FALSE

Init ==
    /\ dirs \in SUBSET Dirs
    /\ disk = [p \in Paths |-> None]
    /\ watches = dirs \union {Root} /\ watchedDir = dirs \union {Root}
    /\ inotify = <<>> /\ scan = None /\ left = {} /\ dbChan = <<>>
    /\ stage = [w \in Workers |-> "idle"] /\ job = [w \in Workers |-> NoJob]
    /\ kids = [w \in Workers |-> {}] /\ uuid = [w \in Workers |-> None]
    /\ touched = {} /\ overlap = FALSE /\ dropped = FALSE
    /\ rows = [i \in Uuids |-> NoRow] /\ logged = [i \in Uuids |-> "none"]
    /\ cut = {} /\ struck = {}
    /\ changes = 0 /\ troubles = 0

(* A row without its log entry is left by a worker between the two.        *)
Unlogged(w) == IF stage[w] = "log" /\ ~job[w].gone THEN {uuid[w]} ELSE {}

Restart ==
    /\ Trouble
    /\ Fresh
    /\ cut' = cut \union UNION {Unlogged(w) : w \in Workers}
    /\ \E able \in SUBSET {p \in Paths : disk[p] = 0} : \E assigned \in [able -> Free] :
          /\ \A p, q \in able : assigned[p] = assigned[q] => p = q
          /\ disk' = [p \in Paths |-> IF p \in able THEN assigned[p] ELSE disk[p]]
    /\ UNCHANGED <<dirs, rows, logged, struck, changes>>

(***************************************************************************)
(* Changes on the disk, reported by the kernel for watched directories.    *)
(***************************************************************************)
Report(op, p) == IF p[1] \in watches THEN <<[op |-> op, path |-> p]>> ELSE <<>>

Reports(op, p) == inotify' = inotify \o Report(op, p)

Changes ==
    /\ changes < MaxChanges /\ changes' = changes + 1
    /\ UNCHANGED <<watchedDir, loopVars, dbChan, dropped, workerVars, dbVars, troubles>>

CreateFile(p) ==
    /\ p[1] \in dirs \union {Root} /\ disk[p] = None
    /\ disk' = [disk EXCEPT ![p] = 0]
    /\ touched' = touched \union {p}
    /\ Reports("create", p)
    /\ Changes /\ UNCHANGED <<dirs, watches>>

WriteFile(p) ==
    /\ Exists(p)
    /\ touched' = touched \union {p}
    /\ Reports("write", p)
    /\ Changes /\ UNCHANGED <<dirs, disk, watches>>

(* Of a change of mode or attributes the loop makes nothing.               *)
ChangeMode(p) ==
    /\ Exists(p)
    /\ Reports("skip", p)
    /\ Changes /\ UNCHANGED <<dirs, disk, touched, watches>>

RemoveFile(p) ==
    /\ Exists(p)
    /\ disk' = [disk EXCEPT ![p] = None]
    /\ touched' = touched \ {p}
    /\ Reports("remove", p)
    /\ Changes /\ UNCHANGED <<dirs, watches>>

(* A file that is in the way is replaced without a report of its own.      *)
MoveFile(p, q) ==
    /\ p # q /\ Exists(p) /\ q[1] \in dirs \union {Root}
    /\ disk' = [disk EXCEPT ![q] = disk[p], ![p] = None]
    /\ touched' = (touched \ {p}) \union {q}
    /\ inotify' = inotify \o Report("rename", p) \o Report("create", q)
    /\ Changes /\ UNCHANGED <<dirs, watches>>

MakeDir(d) ==
    /\ d \notin dirs
    /\ dirs' = dirs \union {d}
    /\ Reports("create", PathOf(d))
    /\ Changes /\ UNCHANGED <<disk, touched, watches>>

(* The kernel drops the watch of a directory with the directory.           *)
RemoveDir(d) ==
    /\ d \in dirs /\ \A n \in Names : disk[<<d, n>>] = None
    /\ dirs' = dirs \ {d}
    /\ watches' = watches \ {d}
    /\ Reports("remove", PathOf(d))
    /\ Changes /\ UNCHANGED <<disk, touched>>

DiskChange ==
    \/ \E p \in Paths : CreateFile(p) \/ WriteFile(p) \/ ChangeMode(p) \/ RemoveFile(p)
    \/ \E p, q \in Paths : MoveFile(p, q)
    \/ \E d \in Dirs : MakeDir(d) \/ RemoveDir(d)

(***************************************************************************)
(* The main loop.                                                          *)
(***************************************************************************)
(* An event that finds the channel full is dropped.                        *)
emitEvent(gone, path, type) ==
    IF Len(dbChan) < Capacity
      THEN /\ dbChan' = Append(dbChan, [gone |-> gone, path |-> path, type |-> type])
           /\ UNCHANGED dropped
      ELSE dropped' = TRUE /\ UNCHANGED dbChan

Handles(ops) == scan = None /\ inotify # <<>> /\ Head(inotify).op \in ops

Next1(ops) == Handles(ops) /\ inotify' = Tail(inotify)

watchRecursive(d) ==
    /\ watchedDir' = watchedDir \union {d}
    /\ watches' = IF d \in watchedDir THEN watches ELSE watches \union {d}

(* fsnotify passes over reports whose watch is gone when it comes to them.  *)
unwatchInternal(d) ==
    /\ watchedDir' = watchedDir \ {d} /\ watches' = watches \ {d}
    /\ inotify' = [i \in DOMAIN Tail(inotify) |->
                     IF Tail(inotify)[i].path[1] = d THEN [Tail(inotify)[i] EXCEPT !.op = "skip"]
                     ELSE Tail(inotify)[i]]

Skip ==
    /\ Next1({"skip"})
    /\ UNCHANGED <<diskVars, watchVars, loopVars, dbChan, dropped, workerVars, dbVars, troubles>>

(* A new directory is watched first and gone through afterwards.           *)
HandleNewDir ==
    /\ Next1({"create"})
    /\ IsDir(Head(inotify).path)
    /\ scan' = Head(inotify).path[2]
    /\ watchRecursive(scan')
    /\ left' = None
    /\ UNCHANGED <<diskVars, dbChan, dropped, workerVars, dbVars, troubles>>

Listed(d) == {n \in Names : Exists(<<d, n>>)}

\* Slip: leaving it to the watch to report what is in the directory.
ReadDirWatchedOnly ==
    /\ scan # None /\ left = None
    /\ left' = {}
    /\ UNCHANGED <<diskVars, watchVars, inotify, scan, dbChan, dropped, workerVars, dbVars, troubles>>

ReadDir ==
    /\ scan # None /\ left = None
    /\ left' = Listed(scan)
    /\ UNCHANGED <<diskVars, watchVars, inotify, scan, dbChan, dropped, workerVars, dbVars, troubles>>

(* A file of the list, which may have gone by now.                         *)
ScanFile ==
    /\ scan # None /\ left # None
    /\ \E n \in left :
          /\ left' = left \ {n}
          /\ EnsureFileID(<<scan, n>>)
          /\ emitEvent(FALSE, <<scan, n>>, "file")
    /\ UNCHANGED <<dirs, changes, watchVars, inotify, scan, workerVars, dbVars>>

ScanDone ==
    /\ scan # None /\ left = {}
    /\ scan' = None
    /\ emitEvent(FALSE, PathOf(scan), "folder")
    /\ UNCHANGED <<diskVars, watchVars, inotify, left, workerVars, dbVars, troubles>>

HandleFile ==
    /\ Next1({"create", "write"})
    /\ ~(IsDir(Head(inotify).path) /\ Head(inotify).op = "create")
    /\ EnsureFileID(Head(inotify).path)
    /\ emitEvent(FALSE, Head(inotify).path, "file")
    /\ UNCHANGED <<dirs, changes, watchVars, loopVars, workerVars, dbVars>>

(* Only a directory that has been made again is seen to be one.            *)
HandleGone ==
    /\ Handles({"remove", "rename"})
    /\ LET path == Head(inotify).path
       IN  /\ emitEvent(TRUE, path, IF IsDir(path) THEN "folder" ELSE "file")
           /\ IF IsDir(path) THEN unwatchInternal(path[2])
              ELSE inotify' = Tail(inotify) /\ UNCHANGED watchVars
    /\ UNCHANGED <<diskVars, loopVars, workerVars, dbVars, troubles>>

(***************************************************************************)
(* The database workers.                                                   *)
(***************************************************************************)
At(w, s)   == stage[w] = s
Goes(w, s) == stage' = [stage EXCEPT ![w] = s]
WorkerRest == UNCHANGED <<diskVars, watchVars, inotify, loopVars, dropped, troubles>>

Take(w) ==
    /\ At(w, "idle") /\ dbChan # <<>>
    /\ dbChan' = Tail(dbChan)
    /\ job' = [job EXCEPT ![w] = Head(dbChan)]
    /\ Goes(w, IF Head(dbChan).gone THEN "children" ELSE "id")
    /\ overlap' = (overlap \/ \E v \in Workers : ~At(v, "idle"))
    /\ UNCHANGED <<kids, uuid, dbVars>> /\ WorkerRest

(* What is gone may have been a directory: rows below it, read once.       *)
FindChildren(w) ==
    /\ At(w, "children")
    /\ kids' = [kids EXCEPT ![w] = {i \in Uuids : rows[i] # NoRow /\ Below(job[w].path, rows[i].path)}]
    /\ struck' = struck \union {i \in kids'[w] : ~Inside(job[w].path, rows[i].path)}
    /\ Goes(w, "child")
    /\ UNCHANGED <<dbChan, job, uuid, overlap, rows, logged, cut>> /\ WorkerRest

(* Each of them is logged, then marked.                                    *)
LogChild(w) ==
    /\ At(w, "child")
    /\ \E i \in kids[w] :
          /\ kids' = [kids EXCEPT ![w] = @ \ {i}]
          /\ logged' = [logged EXCEPT ![i] = "gone"]
          /\ uuid' = [uuid EXCEPT ![w] = i]
    /\ Goes(w, "childrow")
    /\ UNCHANGED <<dbChan, job, overlap, rows, cut, struck>> /\ WorkerRest

RecordChild(w) ==
    /\ At(w, "childrow")
    /\ rows' = [rows EXCEPT ![uuid[w]].gone = TRUE]
    /\ uuid' = [uuid EXCEPT ![w] = None]
    /\ Goes(w, "child")
    /\ UNCHANGED <<dbChan, job, kids, overlap, logged, cut, struck>> /\ WorkerRest

First(is) == CHOOSE i \in is : \A j \in is \ {i} : i < j

RowsAt(path) == {i \in Uuids : rows[i].path = path}

\* Slip: trying again until there is an attribute.
ReadIdAgain(w) ==
    LET path == job[w].path
        id == IF job[w].gone
                THEN IF RowsAt(path) = {} THEN None ELSE First(RowsAt(path))
              ELSE IF job[w].type = "folder" THEN path[2]
              ELSE IF Exists(path) /\ disk[path] # 0 THEN disk[path] ELSE None
    IN  /\ IF job[w].gone THEN At(w, "child") /\ kids[w] = {} ELSE At(w, "id")
        /\ uuid' = [uuid EXCEPT ![w] = id]
        /\ Goes(w, IF id # None THEN "update" ELSE IF job[w].gone THEN "idle" ELSE "id")
        /\ UNCHANGED <<dbChan, job, kids, overlap, dbVars>> /\ WorkerRest

(* The uuid by the path, or from the attribute of what is at the path now. *)
ReadId(w) ==
    LET path == job[w].path
        id == IF job[w].gone
                THEN IF RowsAt(path) = {} THEN None ELSE First(RowsAt(path))
              ELSE IF job[w].type = "folder" THEN path[2]
              ELSE IF Exists(path) /\ disk[path] # 0 THEN disk[path] ELSE None
    IN  /\ IF job[w].gone THEN At(w, "child") /\ kids[w] = {} ELSE At(w, "id")
        /\ uuid' = [uuid EXCEPT ![w] = id]
        /\ Goes(w, IF id = None THEN "idle" ELSE "update")
        /\ UNCHANGED <<dbChan, job, kids, overlap, dbVars>> /\ WorkerRest

Written(w) ==
    LET whole == IF job[w].gone THEN {} ELSE {uuid[w]}
    IN  cut' = cut \ whole /\ struck' = struck \ whole

\* Slip: an insertion that leaves a row that is there.
SaveRowIfNew(w) ==
    /\ At(w, "update")
    /\ rows' = IF rows[uuid[w]] # NoRow /\ ~job[w].gone THEN rows
               ELSE [rows EXCEPT ![uuid[w]] =
                 IF job[w].gone THEN [@ EXCEPT !.gone = TRUE] ELSE [path |-> job[w].path, gone |-> FALSE]]
    /\ Written(w)
    /\ Goes(w, "log")
    /\ UNCHANGED <<dbChan, job, kids, uuid, overlap, logged>> /\ WorkerRest

SaveRow(w) ==
    /\ At(w, "update")
    /\ rows' = [rows EXCEPT ![uuid[w]] =
                 IF job[w].gone THEN [@ EXCEPT !.gone = TRUE] ELSE [path |-> job[w].path, gone |-> FALSE]]
    /\ Written(w)
    /\ Goes(w, "log")
    /\ UNCHANGED <<dbChan, job, kids, uuid, overlap, logged>> /\ WorkerRest

\* Slip: a log of files only.
SaveHistoryOfFile(w) ==
    /\ At(w, "log")
    /\ logged' = IF uuid[w] \in Dirs THEN logged
                 ELSE [logged EXCEPT ![uuid[w]] = IF job[w].gone THEN "gone" ELSE "put"]
    /\ uuid' = [uuid EXCEPT ![w] = None]
    /\ Goes(w, "idle")
    /\ UNCHANGED <<dbChan, job, kids, overlap, rows, cut, struck>> /\ WorkerRest

SaveHistory(w) ==
    /\ At(w, "log")
    /\ logged' = [logged EXCEPT ![uuid[w]] = IF job[w].gone THEN "gone" ELSE "put"]
    /\ uuid' = [uuid EXCEPT ![w] = None]
    /\ Goes(w, "idle")
    /\ UNCHANGED <<dbChan, job, kids, overlap, rows, cut, struck>> /\ WorkerRest

(* A query or a write fails, or the attribute cannot be read: nobody asks, *)
(* and the worker goes on with what it has.                                *)
PersistFails(w) ==
    /\ Trouble
    /\ \/ /\ At(w, "children") /\ Goes(w, "child")
          /\ UNCHANGED <<kids, uuid, touched, cut>>
       \/ /\ At(w, "child") /\ Goes(w, "childrow")
          /\ \E i \in kids[w] :
                kids' = [kids EXCEPT ![w] = @ \ {i}] /\ uuid' = [uuid EXCEPT ![w] = i]
          /\ UNCHANGED <<touched, cut>>
       \/ /\ At(w, "childrow") /\ Goes(w, "child")
          /\ uuid' = [uuid EXCEPT ![w] = None]
          /\ UNCHANGED <<kids, touched, cut>>
       \/ /\ At(w, "child") /\ kids[w] = {} /\ Goes(w, "idle")
          /\ UNCHANGED <<kids, uuid, touched, cut>>
       \/ /\ At(w, "id") /\ job[w].type = "file" /\ Goes(w, "idle")
          /\ touched' = touched \ {job[w].path}
          /\ UNCHANGED <<kids, uuid, cut>>
       \/ /\ At(w, "update") /\ Goes(w, "log")
          /\ cut' = cut \union (IF job[w].gone THEN {} ELSE {uuid[w]})
          /\ UNCHANGED <<kids, uuid, touched>>
       \/ /\ At(w, "log") /\ Goes(w, "idle")
          /\ uuid' = [uuid EXCEPT ![w] = None]
          /\ cut' = cut \union Unlogged(w)
          /\ UNCHANGED <<kids, touched>>
    /\ UNCHANGED <<dirs, disk, changes, watchVars, inotify, loopVars, dbChan, dropped, job, overlap,
                   rows, logged, struck>>

(***************************************************************************)
persistToDB(w) ==
    \/ FindChildren(w) \/ LogChild(w) \/ RecordChild(w) \/ ReadId(w) \/ SaveRow(w) \/ SaveHistory(w)
mainLoop == HandleNewDir \/ ReadDir \/ ScanFile \/ ScanDone \/ HandleFile \/ HandleGone \/ Skip

Next ==
    \/ DiskChange \/ mainLoop \/ Restart
    \/ \E w \in Workers : Take(w) \/ persistToDB(w) \/ PersistFails(w)

Spec == Init /\ [][Next]_vars

(* Goroutines keep running.                                                *)
FairSpec == Spec /\ WF_vars(mainLoop) /\ \A w \in Workers : WF_vars(Take(w) \/ persistToDB(w))

(***************************************************************************)
(* Properties.                                                             *)
(***************************************************************************)
Ops == {"create", "write", "remove", "rename", "skip"}
Job == [gone : BOOLEAN, path : Spots, type : {"file", "folder"}]

(* Types; two files have never the same uuid.                              *)
TypeOK ==
    /\ dirs \subseteq Dirs
    /\ disk \in [Paths -> Ids \union {0, None}]
    /\ \A p, q \in Paths : disk[p] \in Ids /\ disk[p] = disk[q] => p = q
    /\ watches \subseteq Places /\ watchedDir \subseteq Places
    /\ inotify \in Seq([op : Ops, path : Spots])
    /\ scan \in Dirs \union {None} /\ (left = None \/ left \subseteq Names)
    /\ dbChan \in Seq(Job) /\ Len(dbChan) <= Capacity
    /\ stage \in [Workers -> {"idle", "children", "child", "childrow", "id", "update", "log"}]
    /\ job \in [Workers -> Job \union {NoJob}]
    /\ kids \in [Workers -> SUBSET Uuids] /\ uuid \in [Workers -> Uuids \union {None}]
    /\ rows \in [Uuids -> [path : Spots \union {None}, gone : BOOLEAN]]
    /\ logged \in [Uuids -> {"none", "put", "gone"}]
    /\ touched \subseteq {p \in Paths : Exists(p)}
    /\ dropped \in BOOLEAN /\ overlap \in BOOLEAN
    /\ cut \subseteq Uuids /\ struck \subseteq Uuids
    /\ changes \in Nat /\ troubles \in Nat

Quiet == inotify = <<>> /\ scan = None /\ dbChan = <<>> /\ \A w \in Workers : At(w, "idle")
Obliged(p) == p \in touched /\ p[1] \in watches /\ ~dropped

(* A file that was made, moved or written while its directory is watched   *)
(* comes to have a uuid and a row, however the main loop's walk through a  *)
(* new directory, the reports for it and the workers interleave: unless    *)
(* its attribute or its row could not be written.                          *)
EveryChangeFindsItsFile ==
    Quiet => \A p \in Paths : Obliged(p) =>
        disk[p] \in Ids /\ (disk[p] \notin cut => rows[disk[p]] # NoRow)

(* As long as no two workers have been at work at once, its row says where *)
(* it is, and that it is there, and so does the log: whatever failed for   *)
(* other files, and unless a removed directory's pattern matched it.       *)
InOrderRowsAreCurrent ==
    Quiet /\ ~overlap => \A p \in Paths : Obliged(p) /\ disk[p] \in Ids \ cut =>
        /\ rows[disk[p]].path = p
        /\ disk[p] \notin struck => ~rows[disk[p]].gone /\ logged[disk[p]] = "put"

(* The server hears of no uuid that the device has no row for, and of all  *)
(* for which it has one: a worker that failed or died between the two does *)
(* not harm the rows of others, nor its own once it is written again.      *)
LogMatchesRows ==
    \A i \in Uuids \ cut :
        /\ logged[i] # "none" => rows[i] # NoRow
        /\ Quiet /\ rows[i] # NoRow => logged[i] # "none"

(* Everything reported is worked off.                                      *)
EventuallyQuiet == <>[]Quiet
=============================================================================
