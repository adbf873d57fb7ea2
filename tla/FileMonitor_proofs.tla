------------------------- MODULE FileMonitor_proofs -------------------------
(***************************************************************************)
(* Proofs about the file monitor, for any directories, names, uuids,       *)
(* database workers, channel, any patterns that match what they should not *)
(* and any number of changes, restarts and failures.                       *)
(***************************************************************************)
EXTENDS FileMonitor, SequenceTheorems, WellFoundedInduction, TLAPS

(***************************************************************************)
(* The inductive invariant.  Fits is what a database worker may rely on at *)
(* each stage; Pending lists the places at which a changed file waits to   *)
(* be given its row, from the report of the kernel to the row itself.      *)
(***************************************************************************)
Reported(s, p) == \E i \in 1..Len(s) : s[i].op \in {"create", "write"} /\ s[i].path = p
Queued(s, p)   == \E i \in 1..Len(s) : ~s[i].gone /\ s[i].path = p

FolderJob(j) == j.type = "folder" /\ ~j.gone => \E d \in Dirs : j.path = PathOf(d)

ChanFits == \A i \in 1..Len(dbChan) : FolderJob(dbChan[i])

RowPlaces ==
    /\ \A i \in Ids : rows[i].path \in Paths \union {None}
    /\ \A d \in Dirs : rows[d].path \in {PathOf(d), None}

Fits(w) ==
    /\ stage[w] # "idle" => job[w] \in Job /\ FolderJob(job[w])
    /\ stage[w] = "id" => ~job[w].gone
    /\ stage[w] \in {"childrow", "update", "log"} => uuid[w] \in Uuids
    /\ stage[w] \in {"update", "log"} /\ ~job[w].gone =>
          \/ uuid[w] \in Ids /\ job[w].path \in Paths
          \/ uuid[w] \in Dirs /\ job[w].path = PathOf(uuid[w])
    /\ stage[w] = "childrow" => rows[uuid[w]] # NoRow
    /\ stage[w] \in {"update", "log"} /\ job[w].gone => rows[uuid[w]] # NoRow
    /\ stage[w] = "log" => rows[uuid[w]] # NoRow \/ uuid[w] \in cut
    /\ \A i \in kids[w] : rows[i] # NoRow

Logging(i) == \E w \in Workers : stage[w] = "log" /\ ~job[w].gone /\ uuid[w] = i

RowsLogged == \A i \in Uuids \ cut :
    /\ logged[i] # "none" => rows[i] # NoRow
    /\ rows[i] # NoRow => logged[i] # "none" \/ Logging(i)

Tracked(p) ==
    /\ disk[p] \in Ids
    /\ \/ rows[disk[p]] # NoRow \/ disk[p] \in cut
       \/ Queued(dbChan, p)
       \/ \E w \in Workers : stage[w] = "id" /\ ~job[w].gone /\ job[w].path = p
       \/ \E w \in Workers : stage[w] = "update" /\ ~job[w].gone /\ uuid[w] = disk[p]

Pending(p) ==
    \/ Reported(inotify, p)
    \/ scan = p[1] /\ (left = None \/ p[2] \in left)
    \/ Tracked(p)

ChangesPend == ~dropped => \A p \in touched : p[1] \in watches => Pending(p)

WorkInv == (\A w \in Workers : Fits(w)) /\ ChanFits /\ RowPlaces /\ RowsLogged

MonitorInv == TypeOK /\ WorkInv /\ ChangesPend

(***************************************************************************)
(* Facts about paths, sequences and the choice of a row.                   *)
(***************************************************************************)
LEMMA PathFacts ==
    /\ None \notin Spots /\ None # 0 /\ None \notin Uuids /\ 0 \notin Ids
    /\ None \notin Places \union Ids /\ None # {}
    /\ \A p \in Paths : p[1] \in Places /\ p[2] \in Names /\ p[2] \notin Dirs
                        /\ p \in Spots /\ \A d \in Dirs : p # PathOf(d)
    /\ \A d \in Dirs : PathOf(d)[1] = Root /\ PathOf(d)[2] = d /\ PathOf(d) \in Spots
    /\ \A d, e \in Dirs : PathOf(d) = PathOf(e) => d = e
    /\ Ids \intersect Dirs = {}
<1>1. \A p \in Paths : p[1] \in Places /\ p[2] \in Names /\ p \in Spots
    BY DEF Paths, Spots
<1>2. \A d \in Dirs : PathOf(d)[1] = Root /\ PathOf(d)[2] = d /\ PathOf(d) \in Spots
    BY DEF Spots, PathOf
<1>3. Dirs \intersect (Names \union Ids) = {}
    BY NamesAssumption
<1>4. Spots \subseteq Places \X (Names \union Dirs)
    BY DEF Spots, Paths, PathOf, Places
<1> QED
    BY <1>1, <1>2, <1>3, <1>4, IdsAssumption DEF Places, Uuids

LEMMA ReportAdds ==
    ASSUME NEW s \in Seq([op : Ops, path : Spots]), NEW op \in Ops, NEW p \in Spots
    PROVE  /\ s \o Report(op, p) \in Seq([op : Ops, path : Spots])
           /\ \A q : Reported(s, q) => Reported(s \o Report(op, p), q)
           /\ op \in {"create", "write"} /\ p[1] \in watches => Reported(s \o Report(op, p), p)
<1>1. CASE p[1] \notin watches
    <2>1. s \o Report(op, p) = s
        BY <1>1 DEF Report
    <2> QED
        BY <1>1, <2>1
<1>2. CASE p[1] \in watches
    <2> DEFINE e == [op |-> op, path |-> p]
    <2>1. s \o Report(op, p) = Append(s, e) /\ e \in [op : Ops, path : Spots]
        BY <1>2, AppendIsConcat DEF Report
    <2>2. /\ Append(s, e) \in Seq([op : Ops, path : Spots]) /\ Len(s) \in Nat
          /\ Len(Append(s, e)) = Len(s) + 1 /\ Append(s, e)[Len(s) + 1] = e
          /\ \A i \in 1..Len(s) : Append(s, e)[i] = s[i]
        BY <2>1, AppendProperties, LenProperties
    <2>3. e.op = op /\ e.path = p
        OBVIOUS
    <2> HIDE DEF e
    <2>4. \A i \in 1..Len(s) : i \in 1..Len(Append(s, e))
        BY <2>2
    <2>5. Len(s) + 1 \in 1..Len(Append(s, e))
        BY <2>2
    <2> QED
        BY <2>1, <2>2, <2>3, <2>4, <2>5 DEF Reported
<1> QED
    BY <1>1, <1>2

LEMMA ReportHandled ==
    ASSUME NEW S, NEW s \in Seq(S), s # <<>>
    PROVE  /\ Tail(s) \in Seq(S) /\ Head(s) \in S
           /\ \A q : Reported(s, q) =>
                 Reported(Tail(s), q) \/ (Head(s).op \in {"create", "write"} /\ Head(s).path = q)
<1>1. /\ Tail(s) \in Seq(S) /\ Head(s) \in S
      /\ Len(s) \in Nat \ {0} /\ Len(Tail(s)) = Len(s) - 1 /\ Head(s) = s[1]
      /\ \A i \in 1..Len(Tail(s)) : Tail(s)[i] = s[i + 1]
    BY HeadTailProperties, EmptySeq, LenProperties
<1>2. ASSUME NEW q, NEW i \in 1..Len(s), s[i].op \in {"create", "write"}, s[i].path = q
      PROVE  Reported(Tail(s), q) \/ (Head(s).op \in {"create", "write"} /\ Head(s).path = q)
    <2>1. CASE i = 1
        BY <1>1, <1>2, <2>1
    <2>2. CASE i # 1
        <3>1. i - 1 \in 1..Len(Tail(s)) /\ Tail(s)[i - 1] = s[i]
            BY <1>1, <2>2
        <3> QED
            BY <1>2, <3>1 DEF Reported
    <2> QED
        BY <2>1, <2>2
<1> QED
    BY <1>1, <1>2 DEF Reported

LEMMA JobAdded ==
    ASSUME TypeOK, ChanFits, NEW gone \in BOOLEAN, NEW path \in Spots,
           NEW type \in {"file", "folder"}, FolderJob([gone |-> gone, path |-> path, type |-> type]),
           emitEvent(gone, path, type)
    PROVE  /\ dbChan' \in Seq(Job) /\ Len(dbChan') <= Capacity /\ ChanFits' /\ dropped' \in BOOLEAN
           /\ dropped => dropped'
           /\ \A q : Queued(dbChan, q) => Queued(dbChan', q)
           /\ ~gone /\ ~dropped' => Queued(dbChan', path)
<1>1. CASE dropped' = TRUE /\ UNCHANGED dbChan
    BY <1>1 DEF TypeOK, ChanFits, FolderJob
<1> DEFINE j == [gone |-> gone, path |-> path, type |-> type]
<1>2. CASE Len(dbChan) < Capacity /\ dbChan' = Append(dbChan, j) /\ UNCHANGED dropped
    <2>1. j \in Job /\ j.gone = gone /\ j.path = path
        BY DEF Job
    <2>2. FolderJob(j)
        OBVIOUS
    <2> HIDE DEF j
    <2>3. /\ dbChan' \in Seq(Job) /\ Len(dbChan) \in Nat
          /\ Len(dbChan') = Len(dbChan) + 1 /\ dbChan'[Len(dbChan) + 1] = j
          /\ \A i \in 1..Len(dbChan) : dbChan'[i] = dbChan[i]
        BY <1>2, <2>1, AppendProperties, LenProperties DEF TypeOK
    <2>4. ChanFits'
        <3> SUFFICES ASSUME NEW i \in 1..Len(dbChan') PROVE FolderJob(dbChan'[i])
            BY DEF ChanFits, FolderJob
        <3>1. CASE i = Len(dbChan) + 1
            BY <2>2, <2>3, <3>1
        <3>2. CASE i \in 1..Len(dbChan)
            BY <2>3, <3>2 DEF ChanFits
        <3> QED
            BY <2>3, <3>1, <3>2
    <2>5. \A i \in 1..Len(dbChan) : i \in 1..Len(dbChan')
        BY <2>3
    <2>6. Len(dbChan) + 1 \in 1..Len(dbChan') /\ Len(dbChan') <= Capacity
        BY <1>2, <2>3, BoundsAssumption
    <2>7. \A q : Queued(dbChan, q) => Queued(dbChan', q)
        BY <2>3, <2>5 DEF Queued
    <2>8. ~gone => Queued(dbChan', path)
        BY <2>1, <2>3, <2>6 DEF Queued
    <2> QED
        BY <1>2, <2>3, <2>4, <2>6, <2>7, <2>8 DEF TypeOK
<1> QED
    BY <1>1, <1>2 DEF emitEvent

LEMMA JobTaken ==
    ASSUME TypeOK, ChanFits, dbChan # <<>>
    PROVE  /\ Tail(dbChan) \in Seq(Job) /\ Len(Tail(dbChan)) <= Capacity
           /\ Head(dbChan) \in Job /\ FolderJob(Head(dbChan))
           /\ \A i \in 1..Len(Tail(dbChan)) : FolderJob(Tail(dbChan)[i])
           /\ \A q : Queued(dbChan, q) =>
                 Queued(Tail(dbChan), q) \/ (~Head(dbChan).gone /\ Head(dbChan).path = q)
<1>1. /\ Tail(dbChan) \in Seq(Job) /\ Head(dbChan) \in Job
      /\ Len(dbChan) \in Nat \ {0} /\ Len(Tail(dbChan)) = Len(dbChan) - 1
      /\ Head(dbChan) = dbChan[1]
      /\ \A i \in 1..Len(Tail(dbChan)) : Tail(dbChan)[i] = dbChan[i + 1]
    BY HeadTailProperties, EmptySeq, LenProperties DEF TypeOK
<1>2. Len(Tail(dbChan)) <= Capacity
    BY <1>1, BoundsAssumption DEF TypeOK
<1>3. 1 \in 1..Len(dbChan) /\ \A i \in 1..Len(Tail(dbChan)) : i + 1 \in 1..Len(dbChan)
    BY <1>1
<1>4. ASSUME NEW q, NEW i \in 1..Len(dbChan), ~dbChan[i].gone, dbChan[i].path = q
      PROVE  Queued(Tail(dbChan), q) \/ (~Head(dbChan).gone /\ Head(dbChan).path = q)
    <2>1. CASE i = 1
        BY <1>1, <1>4, <2>1
    <2>2. CASE i # 1
        <3>1. i - 1 \in 1..Len(Tail(dbChan)) /\ Tail(dbChan)[i - 1] = dbChan[i]
            BY <1>1, <2>2
        <3> QED
            BY <1>4, <3>1 DEF Queued
    <2> QED
        BY <2>1, <2>2
<1> QED
    BY <1>1, <1>2, <1>3, <1>4 DEF ChanFits, Queued

(* The row that is found by a path: files have numbers as uuids, and at    *)
(* the path of a directory there is no row but its own.                    *)
LEMMA FirstIsRow ==
    ASSUME TypeOK, RowPlaces, NEW path \in Spots, RowsAt(path) # {}
    PROVE  First(RowsAt(path)) \in RowsAt(path)
<1>1. PICK i \in RowsAt(path) : \A j \in RowsAt(path) \ {i} : i < j
    <2>1. CASE path \in Paths
        <3>1. RowsAt(path) \subseteq Nat
            <4> SUFFICES ASSUME NEW i \in RowsAt(path) PROVE i \in Nat
                OBVIOUS
            <4>1. i \in Uuids /\ rows[i].path = path
                BY DEF RowsAt
            <4>2. i \notin Dirs
                BY <2>1, <4>1, PathFacts DEF RowPlaces
            <4> QED
                BY <4>1, <4>2, IdsAssumption DEF Uuids
        <3> DEFINE R == OpToRel(<, Nat)
        <3>2. PICK i \in RowsAt(path) : \A j \in RowsAt(path) : ~(<<j, i>> \in R)
            BY <3>1, NatLessThanWellFounded, WFMin
        <3>3. \A m, n \in Nat : m < n => <<m, n>> \in R
            BY DEF OpToRel
        <3> HIDE DEF R
        <3>4. ASSUME NEW j \in RowsAt(path) \ {i} PROVE i < j
            <4>1. ~(j < i)
                BY <3>1, <3>2, <3>3
            <4> QED
                BY <3>1, <4>1
        <3> QED
            BY <3>4
    <2>2. CASE path \notin Paths
        <3>1. PICK d \in Dirs : path = PathOf(d)
            BY <2>2 DEF Spots
        <3>2. RowsAt(path) \subseteq {d}
            BY <3>1, PathFacts DEF RowsAt, RowPlaces, Uuids
        <3> QED
            BY <3>2
    <2> QED
        BY <2>1, <2>2
<1> QED
    BY <1>1 DEF First

(***************************************************************************)
(* What is left as it was.                                                 *)
(***************************************************************************)
LEMMA WorkKept ==
    ASSUME WorkInv, UNCHANGED <<stage, job, kids, uuid, dbChan, rows, logged, cut>>
    PROVE  WorkInv'
BY DEF WorkInv, Fits, ChanFits, FolderJob, RowPlaces, RowsLogged, Logging

DiskOK ==
    /\ disk \in [Paths -> Ids \union {0, None}]
    /\ \A p, q \in Paths : disk[p] \in Ids /\ disk[p] = disk[q] => p = q
    /\ \A p \in touched : p \in Paths /\ disk[p] # None

LEMMA DiskTypes == TypeOK => DiskOK
BY DEF TypeOK, DiskOK, Exists

LEMMA TypesKept ==
    ASSUME TypeOK, DiskOK', Changes, UNCHANGED <<dirs, watches>>,
           inotify' \in Seq([op : Ops, path : Spots])
    PROVE  TypeOK'
<1>1. touched' \subseteq {p \in Paths : Exists(p)'}
    BY DEF DiskOK, Exists
<1> QED
    BY <1>1 DEF TypeOK, DiskOK, Changes, loopVars, workerVars, dbVars

LEMMA PendingKept ==
    ASSUME NEW r, Pending(r), disk'[r] = disk[r],
           UNCHANGED <<stage, job, uuid, rows, cut, scan, left>>,
           Reported(inotify, r) => Reported(inotify', r),
           Queued(dbChan, r) => Queued(dbChan', r)
    PROVE  Pending(r)'
BY DEF Pending, Tracked, Reported, Queued

LEMMA MonitorInvInit == Init => MonitorInv
<1> SUFFICES ASSUME Init PROVE MonitorInv
    OBVIOUS
<1>1. TypeOK
    <2>1. /\ disk \in [Paths -> Ids \union {0, None}]
          /\ \A p, q \in Paths : disk[p] \in Ids /\ disk[p] = disk[q] => p = q
        BY PathFacts DEF Init
    <2>2. /\ inotify \in Seq([op : Ops, path : Spots])
          /\ dbChan \in Seq(Job) /\ Len(dbChan) <= Capacity
        BY BoundsAssumption DEF Init
    <2>3. rows \in [Uuids -> [path : Spots \union {None}, gone : BOOLEAN]]
        BY DEF Init, NoRow
    <2> QED
        BY <2>1, <2>2, <2>3 DEF Init, TypeOK, Places
<1>2. WorkInv
    BY EmptySeq DEF Init, WorkInv, Fits, ChanFits, RowPlaces, RowsLogged, NoRow, Uuids
<1>3. ChangesPend
    BY DEF Init, ChangesPend
<1> QED
    BY <1>1, <1>2, <1>3 DEF MonitorInv

(***************************************************************************)
(* Changes on the disk.                                                    *)
(***************************************************************************)
LEMMA CreateFileKeeps ==
    ASSUME MonitorInv, NEW p \in Paths, CreateFile(p)
    PROVE  MonitorInv'
<1> USE DEF MonitorInv
<1>1. /\ inotify' \in Seq([op : Ops, path : Spots])
      /\ \A q : Reported(inotify, q) => Reported(inotify', q)
      /\ p[1] \in watches => Reported(inotify', p)
    BY ReportAdds, PathFacts DEF CreateFile, Reports, TypeOK, Ops
<1>2. TypeOK'
    <2>1. DiskOK'
        BY DiskTypes, PathFacts DEF DiskOK, CreateFile, Exists
    <2> QED
        BY <1>1, <2>1, TypesKept DEF CreateFile
<1>3. WorkInv'
    BY WorkKept DEF CreateFile, Changes, workerVars, dbVars
<1>4. ChangesPend'
    <2> SUFFICES ASSUME ~dropped, NEW r \in touched', r[1] \in watches PROVE Pending(r)'
        BY DEF ChangesPend, CreateFile, Changes
    <2>1. CASE r = p
        BY <1>1, <2>1 DEF Pending, Reported
    <2>2. CASE r # p
        <3>1. r \in touched /\ disk'[r] = disk[r]
            BY <2>2 DEF CreateFile, TypeOK
        <3> QED
            BY <1>1, <3>1, PendingKept
               DEF ChangesPend, CreateFile, Changes, loopVars, workerVars, dbVars
    <2> QED
        BY <2>1, <2>2
<1> QED
    BY <1>2, <1>3, <1>4

LEMMA WriteFileKeeps ==
    ASSUME MonitorInv, NEW p \in Paths, WriteFile(p)
    PROVE  MonitorInv'
<1> USE DEF MonitorInv
<1>1. /\ inotify' \in Seq([op : Ops, path : Spots])
      /\ \A q : Reported(inotify, q) => Reported(inotify', q)
      /\ p[1] \in watches => Reported(inotify', p)
    BY ReportAdds, PathFacts DEF WriteFile, Reports, TypeOK, Ops
<1>2. TypeOK'
    <2>1. DiskOK'
        BY DiskTypes, PathFacts DEF DiskOK, WriteFile, Exists
    <2> QED
        BY <1>1, <2>1, TypesKept DEF WriteFile
<1>3. WorkInv'
    BY WorkKept DEF WriteFile, Changes, workerVars, dbVars
<1>4. ChangesPend'
    <2> SUFFICES ASSUME ~dropped, NEW r \in touched', r[1] \in watches PROVE Pending(r)'
        BY DEF ChangesPend, WriteFile, Changes
    <2>1. CASE r = p
        BY <1>1, <2>1 DEF Pending, Reported
    <2>2. CASE r # p
        <3>1. r \in touched /\ disk'[r] = disk[r]
            BY <2>2 DEF WriteFile, TypeOK
        <3> QED
            BY <1>1, <3>1, PendingKept
               DEF ChangesPend, WriteFile, Changes, loopVars, workerVars, dbVars
    <2> QED
        BY <2>1, <2>2
<1> QED
    BY <1>2, <1>3, <1>4

LEMMA ChangeModeKeeps ==
    ASSUME MonitorInv, NEW p \in Paths, ChangeMode(p)
    PROVE  MonitorInv'
<1> USE DEF MonitorInv
<1>1. /\ inotify' \in Seq([op : Ops, path : Spots])
      /\ \A q : Reported(inotify, q) => Reported(inotify', q)
    BY ReportAdds, PathFacts DEF ChangeMode, Reports, TypeOK, Ops
<1>2. TypeOK'
    <2>1. DiskOK'
        BY DiskTypes DEF DiskOK, ChangeMode
    <2> QED
        BY <1>1, <2>1, TypesKept DEF ChangeMode
<1>3. WorkInv'
    BY WorkKept DEF ChangeMode, Changes, workerVars, dbVars
<1>4. ChangesPend'
    BY <1>1, PendingKept
       DEF ChangesPend, ChangeMode, Changes, loopVars, workerVars, dbVars
<1> QED
    BY <1>2, <1>3, <1>4

LEMMA RemoveFileKeeps ==
    ASSUME MonitorInv, NEW p \in Paths, RemoveFile(p)
    PROVE  MonitorInv'
<1> USE DEF MonitorInv
<1>1. /\ inotify' \in Seq([op : Ops, path : Spots])
      /\ \A q : Reported(inotify, q) => Reported(inotify', q)
    BY ReportAdds, PathFacts DEF RemoveFile, Reports, TypeOK, Ops
<1>2. TypeOK'
    <2>1. DiskOK'
        BY DiskTypes, PathFacts DEF DiskOK, RemoveFile, Exists
    <2> QED
        BY <1>1, <2>1, TypesKept DEF RemoveFile
<1>3. WorkInv'
    BY WorkKept DEF RemoveFile, Changes, workerVars, dbVars
<1>4. ChangesPend'
    <2> SUFFICES ASSUME ~dropped, NEW r \in touched', r[1] \in watches PROVE Pending(r)'
        BY DEF ChangesPend, RemoveFile, Changes
    <2>1. r \in touched /\ disk'[r] = disk[r]
        BY DEF RemoveFile, TypeOK
    <2> QED
        BY <1>1, <2>1, PendingKept
           DEF ChangesPend, RemoveFile, Changes, loopVars, workerVars, dbVars
<1> QED
    BY <1>2, <1>3, <1>4

LEMMA MoveFileKeeps ==
    ASSUME MonitorInv, NEW p \in Paths, NEW q \in Paths, MoveFile(p, q)
    PROVE  MonitorInv'
<1> USE DEF MonitorInv
<1> DEFINE s == inotify \o Report("rename", p)
<1>1. s \in Seq([op : Ops, path : Spots]) /\ \A r : Reported(inotify, r) => Reported(s, r)
    BY ReportAdds, PathFacts DEF TypeOK, Ops
<1>2. inotify' = s \o Report("create", q)
    BY DEF MoveFile
<1> HIDE DEF s
<1>3. /\ inotify' \in Seq([op : Ops, path : Spots])
      /\ \A r : Reported(inotify, r) => Reported(inotify', r)
      /\ q[1] \in watches => Reported(inotify', q)
    BY <1>1, <1>2, ReportAdds, PathFacts DEF Ops
<1>4. TypeOK'
    <2>1. /\ disk' \in [Paths -> Ids \union {0, None}]
          /\ disk'[q] = disk[p] /\ disk'[p] = None /\ disk[p] # None
          /\ \A r \in Paths \ {p, q} : disk'[r] = disk[r]
        BY DEF TypeOK, MoveFile, Exists
    <2>2. \A x, y \in Paths : disk'[x] \in Ids /\ disk'[x] = disk'[y] => x = y
        <3> SUFFICES ASSUME NEW x \in Paths, NEW y \in Paths, disk'[x] \in Ids, disk'[x] = disk'[y]
                     PROVE  x = y
            OBVIOUS
        <3>1. x # p /\ y # p
            BY <2>1, PathFacts, IdsAssumption DEF Uuids
        <3>2. CASE x = q \/ y = q
            BY <2>1, <3>1, <3>2 DEF TypeOK
        <3>3. CASE x # q /\ y # q
            BY <2>1, <3>1, <3>3 DEF TypeOK
        <3> QED
            BY <3>2, <3>3
    <2>3. \A r \in touched' : r \in Paths /\ disk'[r] # None
        BY <2>1, DiskTypes DEF DiskOK, MoveFile
    <2>4. DiskOK'
        BY <2>1, <2>2, <2>3 DEF DiskOK
    <2> QED
        BY <1>3, <2>4, TypesKept DEF MoveFile
<1>5. WorkInv'
    BY WorkKept DEF MoveFile, Changes, workerVars, dbVars
<1>6. ChangesPend'
    <2> SUFFICES ASSUME ~dropped, NEW r \in touched', r[1] \in watches PROVE Pending(r)'
        BY DEF ChangesPend, MoveFile, Changes
    <2>1. CASE r = q
        BY <1>3, <2>1 DEF Pending, Reported
    <2>2. CASE r # q
        <3>1. r \in touched /\ disk'[r] = disk[r]
            BY <2>2 DEF MoveFile, TypeOK
        <3> QED
            BY <1>3, <3>1, PendingKept
               DEF ChangesPend, MoveFile, Changes, loopVars, workerVars, dbVars
    <2> QED
        BY <2>1, <2>2
<1> QED
    BY <1>4, <1>5, <1>6

(* Directories that come and go; a watch may end, but none begins.         *)
LEMMA DirChangeKeeps ==
    ASSUME MonitorInv, NEW d \in Dirs, MakeDir(d) \/ RemoveDir(d)
    PROVE  MonitorInv'
<1> USE DEF MonitorInv
<1>1. PICK op \in Ops : inotify' = inotify \o Report(op, PathOf(d))
    BY DEF MakeDir, RemoveDir, Reports, Ops
<1>2. /\ inotify' \in Seq([op : Ops, path : Spots])
      /\ \A q : Reported(inotify, q) => Reported(inotify', q)
    BY <1>1, ReportAdds, PathFacts DEF TypeOK
<1>3. /\ dirs' \subseteq Dirs /\ watches' \subseteq watches /\ Changes
      /\ UNCHANGED <<disk, touched>>
    BY DEF MakeDir, RemoveDir, TypeOK
<1>4. TypeOK'
    BY <1>2, <1>3 DEF TypeOK, Changes, Exists, loopVars, workerVars, dbVars
<1>5. WorkInv'
    BY <1>3, WorkKept DEF Changes, workerVars, dbVars
<1>6. ChangesPend'
    BY <1>2, <1>3, PendingKept DEF ChangesPend, Changes, loopVars, workerVars, dbVars
<1> QED
    BY <1>4, <1>5, <1>6

(***************************************************************************)
(* A restart forgets what was pending, and what had been changed with it.  *)
(***************************************************************************)
LEMMA RestartKeeps ==
    ASSUME MonitorInv, Restart
    PROVE  MonitorInv'
<1> USE DEF MonitorInv
<1>1. PICK able \in SUBSET {p \in Paths : disk[p] = 0} : \E assigned \in [able -> Free] :
          /\ \A p, q \in able : assigned[p] = assigned[q] => p = q
          /\ disk' = [p \in Paths |-> IF p \in able THEN assigned[p] ELSE disk[p]]
    BY DEF Restart
<1>2. PICK assigned \in [able -> Free] :
          /\ \A p, q \in able : assigned[p] = assigned[q] => p = q
          /\ disk' = [p \in Paths |-> IF p \in able THEN assigned[p] ELSE disk[p]]
    BY <1>1
<1>3. DiskOK'
    <2>1. ASSUME NEW p \in Paths
          PROVE  /\ p \in able => disk'[p] = assigned[p] /\ assigned[p] \in Free
                 /\ p \notin able => disk'[p] = disk[p]
                 /\ disk[p] \in Ids \union {0, None}
        BY <1>2 DEF TypeOK
    <2>2. Free \subseteq Ids /\ \A i \in Free : \A p \in Paths : disk[p] # i
        BY DEF Free, Used
    <2>3. disk' \in [Paths -> Ids \union {0, None}]
        BY <1>2, <2>1, <2>2
    <2>4. \A p, q \in Paths : disk'[p] \in Ids /\ disk'[p] = disk'[q] => p = q
        <3> SUFFICES ASSUME NEW p \in Paths, NEW q \in Paths, disk'[p] \in Ids, disk'[p] = disk'[q]
                     PROVE  p = q
            OBVIOUS
        <3>1. CASE p \in able /\ q \in able
            BY <1>2, <2>1, <3>1
        <3>2. CASE p \notin able /\ q \notin able
            BY <2>1, <3>2 DEF TypeOK
        <3>3. CASE p \in able /\ q \notin able
            BY <2>1, <2>2, <3>3
        <3>4. CASE p \notin able /\ q \in able
            BY <2>1, <2>2, <3>4
        <3> QED
            BY <3>1, <3>2, <3>3, <3>4
    <2> QED
        BY <2>3, <2>4 DEF DiskOK, Restart, Fresh
<1>4. TypeOK'
    <2>1. touched' \subseteq {p \in Paths : Exists(p)'}
        BY DEF Restart, Fresh
    <2>2. /\ inotify' \in Seq([op : Ops, path : Spots])
          /\ dbChan' \in Seq(Job) /\ Len(dbChan') <= Capacity
        BY BoundsAssumption DEF Restart, Fresh
    <2>3. /\ watches' \subseteq Places /\ watchedDir' \subseteq Places
          /\ dirs' \subseteq Dirs /\ troubles' \in Nat /\ changes' \in Nat
        BY DEF TypeOK, Restart, Trouble, Fresh, Places
    <2>4. cut' \subseteq Uuids /\ struck' \subseteq Uuids
        <3>1. \A w \in Workers : Unlogged(w) \subseteq Uuids
            BY DEF Unlogged, WorkInv, Fits
        <3> QED
            BY <3>1 DEF TypeOK, Restart
    <2> QED
        BY <1>3, <2>1, <2>2, <2>3, <2>4 DEF TypeOK, DiskOK, Restart, Fresh
<1>5. WorkInv'
    <2>1. \A w \in Workers : stage'[w] = "idle" /\ kids'[w] = {}
        BY DEF Restart, Fresh
    <2>2. \A w \in Workers : Fits(w)'
        BY <2>1 DEF Fits
    <2>3. ChanFits'
        BY DEF Restart, Fresh, ChanFits
    <2>4. RowPlaces'
        BY DEF WorkInv, RowPlaces, Restart
    <2>5. ASSUME NEW i \in Uuids \ cut' PROVE i \notin cut /\ ~Logging(i)
        BY <2>5 DEF Restart, Logging, Unlogged
    <2>6. RowsLogged'
        BY <2>5 DEF WorkInv, RowsLogged, Restart
    <2> QED
        BY <2>2, <2>3, <2>4, <2>6 DEF WorkInv
<1>6. ChangesPend'
    BY DEF ChangesPend, Restart, Fresh
<1> QED
    BY <1>4, <1>5, <1>6

(***************************************************************************)
(* The main loop.                                                          *)
(***************************************************************************)
(* A file that is tagged, for the first time or again, has a uuid of its   *)
(* own, unless it could not be written.                                    *)
LEMMA TagKeeps ==
    ASSUME TypeOK, NEW p \in Spots, EnsureFileID(p)
    PROVE  /\ disk' \in [Paths -> Ids \union {0, None}]
           /\ \A q, r \in Paths : disk'[q] \in Ids /\ disk'[q] = disk'[r] => q = r
           /\ \A q \in Paths : disk[q] # None => disk'[q] # None
           /\ \A q \in Paths : q # p => disk'[q] = disk[q]
           /\ p \in Paths /\ disk[p] # None => disk'[p] \in Ids \/ p \notin touched'
           /\ touched' \subseteq touched /\ troubles' \in Nat
<1>1. PICK new \in Free : \/ disk' = Tagged(p, new) /\ UNCHANGED <<touched, troubles>>
                          \/ TagFails(p, new)
    BY DEF EnsureFileID
<1>2. new \in Ids /\ \A q \in Paths : disk[q] # new
    BY DEF Free, Used
<1>3. CASE /\ disk' = disk /\ touched' \subseteq touched /\ troubles' \in Nat
           /\ p \in Paths /\ disk[p] # None => disk[p] \in Ids \/ p \notin touched'
    BY <1>3 DEF TypeOK
<1>4. CASE /\ p \in Paths /\ disk[p] # None /\ disk' = [disk EXCEPT ![p] = new]
           /\ touched' \subseteq touched /\ troubles' \in Nat
    <2>1. disk'[p] = new /\ \A q \in Paths : q # p => disk'[q] = disk[q]
        BY <1>4 DEF TypeOK
    <2>2. disk' \in [Paths -> Ids \union {0, None}]
        BY <1>2, <1>4 DEF TypeOK
    <2> QED
        BY <1>2, <1>4, <2>1, <2>2, PathFacts DEF TypeOK
<1>5. CASE disk' = Tagged(p, new) /\ UNCHANGED <<touched, troubles>>
    <2>1. CASE Exists(p) /\ disk[p] = 0
        BY <1>4, <1>5, <2>1 DEF Tagged, Exists, TypeOK
    <2>2. CASE ~(Exists(p) /\ disk[p] = 0)
        BY <1>3, <1>5, <2>2 DEF Tagged, Exists, TypeOK
    <2> QED
        BY <2>1, <2>2
<1>6. CASE TagFails(p, new)
    <2>1. troubles' \in Nat /\ p \in Paths /\ disk[p] # None
        BY <1>6 DEF TagFails, Trouble, TypeOK, Exists
    <2>2. CASE disk[p] = 0
        BY <1>3, <1>6, <2>1, <2>2 DEF TagFails
    <2>3. CASE disk[p] # 0
        BY <1>4, <1>6, <2>1, <2>3 DEF TagFails
    <2> QED
        BY <2>2, <2>3
<1> QED
    BY <1>1, <1>5, <1>6

LEMMA ReportTaken ==
    ASSUME TypeOK, NEW ops, Next1(ops)
    PROVE  /\ inotify' \in Seq([op : Ops, path : Spots])
           /\ Head(inotify).path \in Spots /\ Head(inotify).op \in ops
           /\ \A q : Reported(inotify, q) =>
                 Reported(inotify', q)
                 \/ (Head(inotify).op \in {"create", "write"} /\ Head(inotify).path = q)
<1>1. inotify \in Seq([op : Ops, path : Spots]) /\ inotify # <<>> /\ inotify' = Tail(inotify)
    BY DEF TypeOK, Next1, Handles
<1>2. Head(inotify).op \in ops
    BY DEF Next1, Handles
<1>3. Head(inotify) \in [op : Ops, path : Spots] /\ Tail(inotify) \in Seq([op : Ops, path : Spots])
    BY <1>1, ReportHandled
<1>4. Head(inotify).path \in Spots
    BY <1>3
<1> QED
    BY <1>1, <1>2, <1>3, <1>4, ReportHandled

LEMMA HandleNewDirKeeps ==
    ASSUME MonitorInv, HandleNewDir
    PROVE  MonitorInv'
<1> USE DEF MonitorInv
<1> DEFINE d == Head(inotify).path[2]
<1>1. /\ inotify' \in Seq([op : Ops, path : Spots])
      /\ Head(inotify) \in [op : Ops, path : Spots]
      /\ \A q : Reported(inotify, q) => Reported(inotify', q) \/ Head(inotify).path = q
    BY ReportHandled DEF HandleNewDir, Next1, Handles, TypeOK
<1>2. d \in Dirs /\ \A p \in Paths : Head(inotify).path # p
    BY PathFacts DEF HandleNewDir, IsDir, TypeOK
<1>3. /\ scan = None /\ scan' = d /\ left' = None
      /\ watches' \subseteq watches \union {d} /\ watchedDir' = watchedDir \union {d}
      /\ UNCHANGED <<diskVars, dbChan, dropped, workerVars, dbVars, troubles>>
    BY DEF HandleNewDir, Next1, Handles, watchRecursive
<1> HIDE DEF d
<1>4. TypeOK'
    <2>1. watches' \subseteq Places /\ watchedDir' \subseteq Places
        BY <1>2, <1>3 DEF TypeOK, Places
    <2> QED
        BY <1>1, <1>2, <1>3, <2>1 DEF TypeOK, Exists, diskVars, workerVars, dbVars
<1>5. WorkInv'
    BY <1>3, WorkKept DEF workerVars, dbVars
<1>6. ChangesPend'
    <2> SUFFICES ASSUME ~dropped, NEW p \in touched, p[1] \in watches' PROVE Pending(p)'
        BY <1>3 DEF ChangesPend, diskVars
    <2>1. p \in Paths
        BY DEF TypeOK
    <2>2. CASE p[1] = d
        BY <1>3, <2>2 DEF Pending
    <2>3. CASE p[1] # d
        <3>1. Pending(p) /\ scan # p[1]
            BY <1>3, <2>1, <2>3, PathFacts DEF ChangesPend
        <3>2. CASE Reported(inotify, p)
            BY <1>1, <1>2, <2>1, <3>2 DEF Pending, Reported
        <3>3. CASE Tracked(p)
            BY <1>3, <3>3 DEF Pending, Tracked, Queued, diskVars, workerVars, dbVars
        <3> QED
            BY <3>1, <3>2, <3>3 DEF Pending
    <2> QED
        BY <2>2, <2>3
<1> QED
    BY <1>4, <1>5, <1>6

LEMMA ReadDirKeeps ==
    ASSUME MonitorInv, ReadDir
    PROVE  MonitorInv'
<1> USE DEF MonitorInv
<1>1. TypeOK'
    BY DEF TypeOK, ReadDir, Listed, Exists, diskVars, watchVars, workerVars, dbVars
<1>2. WorkInv'
    BY WorkKept DEF ReadDir, workerVars, dbVars
<1>3. ChangesPend'
    <2> SUFFICES ASSUME ~dropped, NEW p \in touched, p[1] \in watches PROVE Pending(p)'
        BY DEF ChangesPend, ReadDir, diskVars, watchVars
    <2>1. Pending(p) /\ Exists(p) /\ p \in Paths
        BY DEF ChangesPend, TypeOK
    <2>2. CASE scan = p[1]
        <3>1. p = <<scan, p[2]>> /\ p[2] \in Names
            BY <2>1, <2>2 DEF Paths
        <3> QED
            BY <2>1, <2>2, <3>1 DEF ReadDir, Listed, Pending
    <2>3. CASE Reported(inotify, p)
        BY <2>3 DEF ReadDir, Pending, Reported
    <2>4. CASE Tracked(p)
        BY <2>4 DEF ReadDir, Pending, Tracked, Queued, diskVars, workerVars, dbVars
    <2> QED
        BY <2>1, <2>2, <2>3, <2>4 DEF Pending
<1> QED
    BY <1>1, <1>2, <1>3

LEMMA ScanFileKeeps ==
    ASSUME MonitorInv, ScanFile
    PROVE  MonitorInv'
<1> USE DEF MonitorInv
<1>1. PICK n \in left :
          /\ left' = left \ {n}
          /\ EnsureFileID(<<scan, n>>)
          /\ emitEvent(FALSE, <<scan, n>>, "file")
    BY DEF ScanFile
<1> DEFINE s == <<scan, n>>
<1>2. s \in Paths /\ s \in Spots /\ n \in Names
    BY DEF ScanFile, TypeOK, Paths, Places, Spots
<1>3. /\ EnsureFileID(s) /\ emitEvent(FALSE, s, "file")
      /\ \A p \in Paths : scan = p[1] /\ p[2] = n => p = s
    <2>1. ASSUME NEW p \in Paths, scan = p[1], p[2] = n PROVE p = s
        BY <2>1 DEF Paths
    <2> QED
        BY <1>1, <2>1
<1> HIDE DEF s
<1>4. /\ dbChan' \in Seq(Job) /\ Len(dbChan') <= Capacity /\ ChanFits' /\ dropped' \in BOOLEAN
      /\ dropped => dropped'
      /\ \A q : Queued(dbChan, q) => Queued(dbChan', q)
      /\ ~dropped' => Queued(dbChan', s)
    BY <1>2, <1>3, JobAdded DEF WorkInv, FolderJob
<1>5. TypeOK'
    <2>1. touched' \subseteq {p \in Paths : Exists(p)'}
        BY <1>2, <1>3, TagKeeps DEF TypeOK, Exists
    <2>2. left' \subseteq Names
        BY <1>1 DEF TypeOK, ScanFile
    <2> QED
        BY <1>2, <1>3, <1>4, <2>1, <2>2, TagKeeps
           DEF TypeOK, ScanFile, watchVars, workerVars, dbVars
<1>6. WorkInv'
    BY <1>4 DEF WorkInv, Fits, FolderJob, RowPlaces, RowsLogged, Logging, ScanFile, workerVars, dbVars
<1>7. ChangesPend'
    <2> SUFFICES ASSUME ~dropped', NEW p \in touched', p[1] \in watches PROVE Pending(p)'
        BY DEF ChangesPend, ScanFile, watchVars
    <2>1. Pending(p) /\ p \in Paths /\ disk[p] # None
        BY <1>2, <1>3, <1>4, TagKeeps DEF ChangesPend, TypeOK, Exists
    <2>2. CASE p = s
        BY <1>2, <1>3, <1>4, <2>1, <2>2, TagKeeps DEF Pending, Tracked, Queued
    <2>3. CASE p # s
        <3>1. disk'[p] = disk[p]
            BY <1>2, <1>3, <2>1, <2>3, TagKeeps
        <3>2. CASE Reported(inotify, p)
            BY <3>2 DEF Pending, Reported, ScanFile
        <3>3. CASE scan = p[1] /\ p[2] \in left
            BY <1>1, <1>3, <2>1, <2>3, <3>3 DEF Pending, ScanFile
        <3>4. CASE Tracked(p)
            BY <1>4, <3>1, <3>4 DEF Pending, Tracked, Queued, ScanFile, workerVars, dbVars
        <3> QED
            BY <2>1, <3>2, <3>3, <3>4 DEF Pending, ScanFile
    <2> QED
        BY <2>2, <2>3
<1> QED
    BY <1>5, <1>6, <1>7

LEMMA ScanDoneKeeps ==
    ASSUME MonitorInv, ScanDone
    PROVE  MonitorInv'
<1> USE DEF MonitorInv
<1>1. /\ PathOf(scan) \in Spots /\ emitEvent(FALSE, PathOf(scan), "folder")
      /\ FolderJob([gone |-> FALSE, path |-> PathOf(scan), type |-> "folder"])
    BY DEF ScanDone, TypeOK, Spots, FolderJob
<1>2. /\ dbChan' \in Seq(Job) /\ Len(dbChan') <= Capacity /\ ChanFits' /\ dropped' \in BOOLEAN
      /\ dropped => dropped'
      /\ \A q : Queued(dbChan, q) => Queued(dbChan', q)
    BY <1>1, JobAdded DEF WorkInv
<1>3. TypeOK'
    BY <1>2 DEF TypeOK, ScanDone, Exists, diskVars, watchVars, workerVars, dbVars
<1>4. WorkInv'
    BY <1>2 DEF WorkInv, Fits, FolderJob, RowPlaces, RowsLogged, Logging, ScanDone, workerVars, dbVars
<1>5. ChangesPend'
    <2> SUFFICES ASSUME ~dropped', NEW p \in touched, p[1] \in watches PROVE Pending(p)'
        BY DEF ChangesPend, ScanDone, watchVars, diskVars
    <2>1. Pending(p)
        BY <1>2 DEF ChangesPend
    <2>2. Reported(inotify, p) \/ Tracked(p)
        BY <2>1, PathFacts DEF Pending, ScanDone
    <2> QED
        BY <1>2, <2>2
           DEF Pending, Reported, Tracked, Queued, ScanDone, diskVars, workerVars, dbVars
<1> QED
    BY <1>3, <1>4, <1>5

LEMMA HandleFileKeeps ==
    ASSUME MonitorInv, HandleFile
    PROVE  MonitorInv'
<1> USE DEF MonitorInv
<1> DEFINE s == Head(inotify).path
<1>1. /\ inotify' \in Seq([op : Ops, path : Spots]) /\ s \in Spots
      /\ \A q : Reported(inotify, q) => Reported(inotify', q) \/ s = q
    BY ReportTaken DEF HandleFile
<1>2. EnsureFileID(s)
    BY DEF HandleFile
<1>3. emitEvent(FALSE, s, "file")
    BY DEF HandleFile
<1> HIDE DEF s
<1>4. /\ dbChan' \in Seq(Job) /\ Len(dbChan') <= Capacity /\ ChanFits' /\ dropped' \in BOOLEAN
      /\ dropped => dropped'
      /\ \A q : Queued(dbChan, q) => Queued(dbChan', q)
      /\ ~dropped' => Queued(dbChan', s)
    BY <1>1, <1>3, JobAdded DEF WorkInv, FolderJob
<1>5. TypeOK'
    <2>1. touched' \subseteq {p \in Paths : Exists(p)'}
        BY <1>1, <1>2, TagKeeps DEF TypeOK, Exists
    <2> QED
        BY <1>1, <1>2, <1>4, <2>1, TagKeeps
           DEF TypeOK, HandleFile, watchVars, loopVars, workerVars, dbVars
<1>6. WorkInv'
    BY <1>4 DEF WorkInv, Fits, FolderJob, RowPlaces, RowsLogged, Logging, HandleFile, workerVars, dbVars
<1>7. ChangesPend'
    <2> SUFFICES ASSUME ~dropped', NEW p \in touched', p[1] \in watches PROVE Pending(p)'
        BY DEF ChangesPend, HandleFile, watchVars
    <2>1. Pending(p) /\ p \in Paths /\ disk[p] # None
        BY <1>1, <1>2, <1>4, TagKeeps DEF ChangesPend, TypeOK, Exists
    <2>2. CASE p = s
        BY <1>1, <1>2, <1>4, <2>1, <2>2, TagKeeps DEF Pending, Tracked, Queued
    <2>3. CASE p # s
        <3>1. disk'[p] = disk[p]
            BY <1>1, <1>2, <2>1, <2>3, TagKeeps
        <3>2. Reported(inotify, p) => Reported(inotify', p)
            BY <1>1, <2>3
        <3> QED
            BY <1>4, <2>1, <3>1, <3>2, PendingKept DEF HandleFile, loopVars, workerVars, dbVars
    <2> QED
        BY <2>2, <2>3
<1> QED
    BY <1>5, <1>6, <1>7

(* When a watch is given up, the reports that wait for it are marked; those *)
(* about other directories stay as they are.                               *)
LEMMA WatchGivenUp ==
    ASSUME TypeOK, inotify # <<>>, NEW d \in Dirs, unwatchInternal(d)
    PROVE  /\ inotify' \in Seq([op : Ops, path : Spots])
           /\ Len(inotify') = Len(Tail(inotify)) /\ Len(inotify') \in Nat
           /\ \A i \in 1..Len(inotify') :
                 /\ Tail(inotify)[i].path[1] = d =>
                       inotify'[i] = [Tail(inotify)[i] EXCEPT !.op = "skip"]
                 /\ Tail(inotify)[i].path[1] # d => inotify'[i] = Tail(inotify)[i]
                 /\ inotify'[i].path = Tail(inotify)[i].path
<1> DEFINE s == Tail(inotify)
           mark(r) == IF r.path[1] = d THEN [r EXCEPT !.op = "skip"] ELSE r
<1>1. /\ s \in Seq([op : Ops, path : Spots]) /\ Len(s) \in Nat /\ DOMAIN s = 1..Len(s)
      /\ \A i \in 1..Len(s) : s[i] \in [op : Ops, path : Spots]
    BY HeadTailProperties, LenProperties, ElementOfSeq DEF TypeOK
<1>2. inotify' = [i \in 1..Len(s) |-> mark(s[i])]
    BY <1>1 DEF unwatchInternal
<1>3. \A r \in [op : Ops, path : Spots] :
         mark(r) \in [op : Ops, path : Spots] /\ mark(r).path = r.path
    BY DEF Ops
<1> HIDE DEF s, mark
<1>4. \A i \in 1..Len(s) : mark(s[i]) \in [op : Ops, path : Spots]
    BY <1>1, <1>3
<1>5. inotify' \in [1..Len(s) -> [op : Ops, path : Spots]]
    BY <1>2, <1>4
<1>6. inotify' \in Seq([op : Ops, path : Spots])
    BY <1>1, <1>5, SeqDef
<1>7. Len(inotify') = Len(s)
    BY <1>1, <1>5, <1>6, LenProperties
<1>8. \A i \in 1..Len(s) : inotify'[i] = mark(s[i])
    BY <1>2
<1>9. \A i \in 1..Len(s) :
         /\ s[i].path[1] = d => inotify'[i] = [s[i] EXCEPT !.op = "skip"]
         /\ s[i].path[1] # d => inotify'[i] = s[i]
         /\ inotify'[i].path = s[i].path
    BY <1>1, <1>3, <1>8 DEF mark
<1> QED
    BY <1>1, <1>6, <1>7, <1>9 DEF s

LEMMA HandleGoneKeeps ==
    ASSUME MonitorInv, HandleGone
    PROVE  MonitorInv'
<1> USE DEF MonitorInv
<1>1. /\ inotify # <<>> /\ Tail(inotify) \in Seq([op : Ops, path : Spots])
      /\ Head(inotify) \in [op : Ops, path : Spots] /\ Head(inotify).path \in Spots
      /\ \A q : Reported(inotify, q) => Reported(Tail(inotify), q)
    <2>1. inotify # <<>> /\ Head(inotify).op \in {"remove", "rename"}
        BY DEF HandleGone, Handles
    <2>2. /\ Tail(inotify) \in Seq([op : Ops, path : Spots])
          /\ Head(inotify) \in [op : Ops, path : Spots]
          /\ \A q : Reported(inotify, q) =>
                Reported(Tail(inotify), q) \/ Head(inotify).op \in {"create", "write"}
        BY <2>1, ReportHandled DEF TypeOK
    <2> QED
        BY <2>1, <2>2
<1>2. PICK type \in {"file", "folder"} : emitEvent(TRUE, Head(inotify).path, type)
    BY DEF HandleGone
<1>3. /\ dbChan' \in Seq(Job) /\ Len(dbChan') <= Capacity /\ ChanFits' /\ dropped' \in BOOLEAN
      /\ dropped => dropped'
      /\ \A q : Queued(dbChan, q) => Queued(dbChan', q)
    BY <1>1, <1>2, JobAdded DEF WorkInv, FolderJob
<1>4. /\ watches' \subseteq watches /\ watchedDir' \subseteq watchedDir
      /\ inotify' \in Seq([op : Ops, path : Spots])
      /\ \A q \in Paths : q[1] \in watches' /\ Reported(inotify, q) => Reported(inotify', q)
    <2> DEFINE path == Head(inotify).path
    <2>1. CASE IsDir(path)
        <3>1. PICK d \in Dirs : d = path[2]
            BY <2>1 DEF IsDir, TypeOK
        <3>2. unwatchInternal(d)
            BY <2>1, <3>1 DEF HandleGone
        <3>3. ASSUME NEW q \in Paths, q[1] # d, Reported(Tail(inotify), q)
              PROVE  Reported(inotify', q)
            <4>1. PICK i \in 1..Len(Tail(inotify)) :
                     Tail(inotify)[i].op \in {"create", "write"} /\ Tail(inotify)[i].path = q
                BY <3>3 DEF Reported
            <4>2. i \in 1..Len(inotify') /\ inotify'[i] = Tail(inotify)[i]
                BY <1>1, <3>2, <3>3, <4>1, WatchGivenUp
            <4> QED
                BY <4>1, <4>2 DEF Reported
        <3> QED
            BY <1>1, <3>2, <3>3, WatchGivenUp DEF unwatchInternal
    <2>2. CASE ~IsDir(path)
        <3>1. inotify' = Tail(inotify) /\ UNCHANGED watchVars
            BY <2>2 DEF HandleGone
        <3> QED
            BY <1>1, <3>1 DEF watchVars
    <2> QED
        BY <2>1, <2>2
<1>5. TypeOK'
    BY <1>3, <1>4 DEF TypeOK, HandleGone, Exists, diskVars, loopVars, workerVars, dbVars
<1>6. WorkInv'
    BY <1>3 DEF WorkInv, Fits, FolderJob, RowPlaces, RowsLogged, Logging, HandleGone, workerVars, dbVars
<1>7. ChangesPend'
    <2> SUFFICES ASSUME ~dropped', NEW p \in touched', p[1] \in watches' PROVE Pending(p)'
        BY DEF ChangesPend
    <2>1. Pending(p) /\ p \in Paths
        BY <1>3, <1>4 DEF ChangesPend, TypeOK, HandleGone, diskVars
    <2> QED
        BY <1>3, <1>4, <2>1, PendingKept
           DEF HandleGone, diskVars, loopVars, workerVars, dbVars
<1> QED
    BY <1>5, <1>6, <1>7

LEMMA SkipKeeps ==
    ASSUME MonitorInv, Skip
    PROVE  MonitorInv'
<1> USE DEF MonitorInv
<1>1. /\ inotify' \in Seq([op : Ops, path : Spots])
      /\ \A q : Reported(inotify, q) => Reported(inotify', q)
    <2>1. /\ inotify' \in Seq([op : Ops, path : Spots]) /\ Head(inotify).op \in {"skip"}
          /\ \A q : Reported(inotify, q) =>
                Reported(inotify', q) \/ Head(inotify).op \in {"create", "write"}
        BY ReportTaken DEF Skip
    <2> QED
        BY <2>1
<1>2. TypeOK'
    BY <1>1 DEF TypeOK, Skip, Exists, diskVars, watchVars, loopVars, workerVars, dbVars
<1>3. WorkInv'
    BY WorkKept DEF Skip, workerVars, dbVars
<1>4. ChangesPend'
    BY <1>1, PendingKept
       DEF ChangesPend, Skip, diskVars, watchVars, loopVars, workerVars, dbVars
<1> QED
    BY <1>2, <1>3, <1>4

(***************************************************************************)
(* The database workers.  What one does disturbs neither what the others   *)
(* rely on nor what is pending elsewhere.                                  *)
(***************************************************************************)
RowsStay ==
    /\ \A i \in Uuids : rows[i] # NoRow => rows'[i] # NoRow
    /\ \A i \in cut : i \in cut' \/ rows'[i] # NoRow

Others(w) == \A v \in Workers \ {w} :
    stage'[v] = stage[v] /\ job'[v] = job[v] /\ kids'[v] = kids[v] /\ uuid'[v] = uuid[v]

LEMMA FitsKept ==
    ASSUME TypeOK, RowsStay, NEW w \in Workers, Others(w), NEW v \in Workers \ {w}, Fits(v)
    PROVE  Fits(v)'
<1>1. /\ stage'[v] = stage[v] /\ job'[v] = job[v] /\ kids'[v] = kids[v] /\ uuid'[v] = uuid[v]
      /\ kids[v] \subseteq Uuids
    BY DEF Others, TypeOK
<1> QED
    BY <1>1 DEF Fits, RowsStay, FolderJob

LEMMA PendingElsewhere ==
    ASSUME TypeOK, RowsStay, UNCHANGED <<disk, inotify, scan, left>>,
           NEW w \in Workers, Others(w), NEW r, Pending(r),
           Queued(dbChan, r) => Tracked(r)' \/ Queued(dbChan', r),
           stage[w] = "id" /\ ~job[w].gone /\ job[w].path = r /\ Tracked(r) => Tracked(r)',
           stage[w] = "update" /\ ~job[w].gone /\ uuid[w] = disk[r] /\ Tracked(r) => Tracked(r)'
    PROVE  Pending(r)'
<1>1. CASE Reported(inotify, r)
    BY <1>1 DEF Pending, Reported
<1>2. CASE scan = r[1] /\ (left = None \/ r[2] \in left)
    BY <1>2 DEF Pending
<1>3. CASE Tracked(r)
    <2>1. disk'[r] = disk[r] /\ disk[r] \in Ids /\ disk[r] \in Uuids
        BY <1>3 DEF Tracked, Uuids
    <2>2. CASE rows[disk[r]] # NoRow \/ disk[r] \in cut
        BY <2>1, <2>2 DEF RowsStay, Pending, Tracked
    <2>3. CASE Queued(dbChan, r)
        BY <2>1, <2>3 DEF Pending, Tracked, Queued
    <2>4. CASE \E v \in Workers : stage[v] = "id" /\ ~job[v].gone /\ job[v].path = r
        <3>1. PICK v \in Workers : stage[v] = "id" /\ ~job[v].gone /\ job[v].path = r
            BY <2>4
        <3>2. CASE v = w
            BY <1>3, <3>1, <3>2 DEF Pending
        <3>3. CASE v # w
            BY <2>1, <3>1, <3>3 DEF Others, Pending, Tracked
        <3> QED
            BY <3>2, <3>3
    <2>5. CASE \E v \in Workers : stage[v] = "update" /\ ~job[v].gone /\ uuid[v] = disk[r]
        <3>1. PICK v \in Workers : stage[v] = "update" /\ ~job[v].gone /\ uuid[v] = disk[r]
            BY <2>5
        <3>2. CASE v = w
            BY <1>3, <3>1, <3>2 DEF Pending
        <3>3. CASE v # w
            BY <2>1, <3>1, <3>3 DEF Others, Pending, Tracked
        <3> QED
            BY <3>2, <3>3
    <2> QED
        BY <1>3, <2>2, <2>3, <2>4, <2>5 DEF Tracked
<1> QED
    BY <1>1, <1>2, <1>3 DEF Pending

LEMMA TakeKeeps ==
    ASSUME MonitorInv, NEW w \in Workers, Take(w)
    PROVE  MonitorInv'
<1> USE DEF MonitorInv
<1> DEFINE j == Head(dbChan)
<1>1. /\ dbChan' \in Seq(Job) /\ Len(dbChan') <= Capacity /\ j \in Job /\ FolderJob(j)
      /\ \A i \in 1..Len(dbChan') : FolderJob(dbChan'[i])
      /\ \A q : Queued(dbChan, q) => Queued(dbChan', q) \/ (~j.gone /\ j.path = q)
    BY JobTaken DEF WorkInv, Take
<1>2. /\ job' = [job EXCEPT ![w] = j]
      /\ stage[w] = "idle"
      /\ stage' = [stage EXCEPT ![w] = IF j.gone THEN "children" ELSE "id"]
    BY DEF Take, At, Goes
<1> HIDE DEF j
<1>3. TypeOK'
    <2>1. overlap' \in BOOLEAN
        BY DEF Take
    <2>2. job' \in [Workers -> Job \union {NoJob}]
        BY <1>1, <1>2 DEF TypeOK
    <2>3. stage' \in [Workers -> {"idle", "children", "child", "childrow", "id", "update", "log"}]
        BY <1>2 DEF TypeOK
    <2> QED
        BY <1>1, <2>1, <2>2, <2>3
           DEF TypeOK, Take, WorkerRest, Exists, diskVars, watchVars, loopVars, dbVars
<1>4. Others(w) /\ RowsStay
    BY <1>2 DEF TypeOK, Take, Others, RowsStay, dbVars
<1>5. WorkInv'
    <2>1. Fits(w)'
        <3>1. /\ job'[w] = j /\ stage'[w] = IF j.gone THEN "children" ELSE "id"
              /\ kids'[w] = kids[w] /\ rows' = rows
            BY <1>2 DEF TypeOK, Take, dbVars
        <3>2. \A i \in kids[w] : rows[i] # NoRow
            BY DEF WorkInv, Fits
        <3> QED
            BY <1>1, <3>1, <3>2 DEF Fits, FolderJob
    <2>2. \A v \in Workers : Fits(v)'
        BY <1>4, <2>1, FitsKept DEF WorkInv
    <2>3. RowPlaces' /\ ChanFits'
        BY <1>1 DEF WorkInv, RowPlaces, ChanFits, FolderJob, Take, dbVars
    <2>4. \A i : Logging(i) => Logging(i)'
        BY <1>2, <1>4 DEF Logging, Others
    <2>5. RowsLogged'
        BY <2>4 DEF WorkInv, RowsLogged, Take, dbVars
    <2> QED
        BY <2>2, <2>3, <2>5 DEF WorkInv
<1>6. ChangesPend'
    <2> SUFFICES ASSUME ~dropped, NEW p \in touched, p[1] \in watches PROVE Pending(p)'
        BY DEF ChangesPend, Take, WorkerRest, diskVars, watchVars
    <2>1. Pending(p)
        BY DEF ChangesPend
    <2>2. CASE Reported(inotify, p) \/ (scan = p[1] /\ (left = None \/ p[2] \in left))
        BY <2>2 DEF Pending, Reported, Take, WorkerRest, loopVars
    <2>3. CASE Tracked(p)
        <3>1. disk'[p] \in Ids
            BY <2>3 DEF Tracked, Take, WorkerRest, diskVars
        <3>2. CASE Queued(dbChan, p) /\ ~Queued(dbChan', p)
            <4>1. ~j.gone /\ j.path = p
                BY <1>1, <3>2
            <4>2. stage'[w] = "id" /\ job'[w] = j
                BY <1>2, <4>1 DEF TypeOK
            <4> QED
                BY <3>1, <4>1, <4>2 DEF Pending, Tracked
        <3>3. CASE Queued(dbChan, p) => Queued(dbChan', p)
            BY <1>2, <1>4, <2>1, <3>3, PendingElsewhere DEF Take, WorkerRest, diskVars, loopVars
        <3> QED
            BY <3>2, <3>3
    <2> QED
        BY <2>1, <2>2, <2>3 DEF Pending
<1> QED
    BY <1>3, <1>5, <1>6

LEMMA FindChildrenKeeps ==
    ASSUME MonitorInv, NEW w \in Workers, FindChildren(w)
    PROVE  MonitorInv'
<1> USE DEF MonitorInv
<1>1. /\ stage[w] = "children" /\ stage' = [stage EXCEPT ![w] = "child"]
      /\ kids'[w] \subseteq Uuids /\ (\A i \in kids'[w] : rows[i] # NoRow)
      /\ kids' = [kids EXCEPT ![w] = kids'[w]]
    BY DEF FindChildren, At, Goes, TypeOK
<1>2. TypeOK'
    <2>1. struck' \subseteq Uuids
        BY <1>1 DEF FindChildren, TypeOK
    <2> QED
        BY <1>1, <2>1
           DEF TypeOK, FindChildren, WorkerRest, Exists, diskVars, watchVars, loopVars
<1>3. Others(w) /\ RowsStay
    BY <1>1 DEF TypeOK, FindChildren, Others, RowsStay
<1>4. WorkInv'
    <2>1. Fits(w)'
        <3>1. stage'[w] = "child" /\ job'[w] = job[w] /\ rows' = rows
            BY <1>1 DEF TypeOK, FindChildren
        <3> QED
            BY <1>1, <3>1 DEF WorkInv, Fits, FolderJob
    <2>2. \A v \in Workers : Fits(v)'
        BY <1>3, <2>1, FitsKept DEF WorkInv
    <2>3. RowPlaces' /\ ChanFits'
        BY DEF WorkInv, RowPlaces, ChanFits, FolderJob, FindChildren
    <2>4. \A i : Logging(i) => Logging(i)'
        BY <1>1, <1>3 DEF Logging, Others
    <2>5. RowsLogged'
        BY <2>4 DEF WorkInv, RowsLogged, FindChildren
    <2> QED
        BY <2>2, <2>3, <2>5 DEF WorkInv
<1>5. ChangesPend'
    BY <1>1, <1>3, PendingElsewhere
       DEF ChangesPend, FindChildren, WorkerRest, diskVars, watchVars, loopVars, Queued
<1> QED
    BY <1>2, <1>4, <1>5

LEMMA LogChildKeeps ==
    ASSUME MonitorInv, NEW w \in Workers, LogChild(w)
    PROVE  MonitorInv'
<1> USE DEF MonitorInv
<1>1. PICK i \in kids[w] :
          /\ kids' = [kids EXCEPT ![w] = @ \ {i}]
          /\ logged' = [logged EXCEPT ![i] = "gone"]
          /\ uuid' = [uuid EXCEPT ![w] = i]
    BY DEF LogChild
<1>2. /\ stage[w] = "child" /\ stage' = [stage EXCEPT ![w] = "childrow"]
      /\ i \in Uuids /\ rows[i] # NoRow
    BY DEF LogChild, At, Goes, TypeOK, WorkInv, Fits
<1>3. TypeOK'
    BY <1>1, <1>2
       DEF TypeOK, LogChild, WorkerRest, Exists, diskVars, watchVars, loopVars
<1>4. Others(w) /\ RowsStay
    BY <1>1, <1>2 DEF TypeOK, LogChild, Others, RowsStay
<1>5. WorkInv'
    <2>1. Fits(w)'
        <3>1. /\ stage'[w] = "childrow" /\ job'[w] = job[w] /\ rows' = rows /\ uuid'[w] = i
              /\ kids'[w] = kids[w] \ {i}
            BY <1>1, <1>2 DEF TypeOK, LogChild
        <3> QED
            BY <1>2, <3>1 DEF WorkInv, Fits, FolderJob
    <2>2. \A v \in Workers : Fits(v)'
        BY <1>4, <2>1, FitsKept DEF WorkInv
    <2>3. RowPlaces' /\ ChanFits'
        BY DEF WorkInv, RowPlaces, ChanFits, FolderJob, LogChild
    <2>4. \A k : Logging(k) => Logging(k)'
        BY <1>2, <1>4 DEF Logging, Others
    <2>5. /\ logged'[i] = "gone"
          /\ \A k \in Uuids \ {i} : logged'[k] = logged[k]
        BY <1>1, <1>2 DEF TypeOK
    <2>6. RowsLogged'
        BY <1>2, <2>4, <2>5 DEF WorkInv, RowsLogged, LogChild
    <2> QED
        BY <2>2, <2>3, <2>6 DEF WorkInv
<1>6. ChangesPend'
    BY <1>2, <1>4, PendingElsewhere
       DEF ChangesPend, LogChild, WorkerRest, diskVars, watchVars, loopVars, Queued
<1> QED
    BY <1>3, <1>5, <1>6

LEMMA RecordChildKeeps ==
    ASSUME MonitorInv, NEW w \in Workers, RecordChild(w)
    PROVE  MonitorInv'
<1> USE DEF MonitorInv
<1> DEFINE i == uuid[w]
<1>1. /\ stage[w] = "childrow" /\ stage' = [stage EXCEPT ![w] = "child"]
      /\ rows' = [rows EXCEPT ![i].gone = TRUE]
      /\ uuid' = [uuid EXCEPT ![w] = None]
      /\ i \in Uuids /\ rows[i] # NoRow
    BY DEF RecordChild, At, Goes, WorkInv, Fits
<1> HIDE DEF i
<1>2. /\ rows' \in [Uuids -> [path : Spots \union {None}, gone : BOOLEAN]]
      /\ rows'[i].gone = TRUE /\ rows'[i].path = rows[i].path
      /\ \A k \in Uuids \ {i} : rows'[k] = rows[k]
    BY <1>1 DEF TypeOK
<1>3. TypeOK'
    BY <1>1, <1>2
       DEF TypeOK, RecordChild, WorkerRest, Exists, diskVars, watchVars, loopVars
<1>4. rows'[i] # NoRow
    BY <1>2 DEF NoRow
<1>5. Others(w) /\ RowsStay
    BY <1>1, <1>2, <1>4 DEF TypeOK, RecordChild, Others, RowsStay
<1>6. WorkInv'
    <2>1. Fits(w)'
        <3>1. stage'[w] = "child" /\ job'[w] = job[w] /\ kids'[w] = kids[w] /\ kids[w] \subseteq Uuids
            BY <1>1 DEF TypeOK, RecordChild
        <3> QED
            BY <1>1, <1>5, <3>1 DEF WorkInv, Fits, FolderJob, RowsStay
    <2>2. \A v \in Workers : Fits(v)'
        BY <1>5, <2>1, FitsKept DEF WorkInv
    <2>3. RowPlaces'
        BY <1>1, <1>2 DEF WorkInv, RowPlaces, Uuids
    <2>4. ChanFits'
        BY DEF WorkInv, ChanFits, FolderJob, RecordChild
    <2>5. \A k : Logging(k) => Logging(k)'
        BY <1>1, <1>5 DEF Logging, Others
    <2>6. \A k \in Uuids : rows'[k] # NoRow => rows[k] # NoRow
        BY <1>1, <1>2
    <2>7. RowsLogged'
        BY <1>5, <2>5, <2>6 DEF WorkInv, RowsLogged, RowsStay, RecordChild
    <2> QED
        BY <2>2, <2>3, <2>4, <2>7 DEF WorkInv
<1>7. ChangesPend'
    BY <1>1, <1>5, PendingElsewhere
       DEF ChangesPend, RecordChild, WorkerRest, diskVars, watchVars, loopVars, Queued
<1> QED
    BY <1>3, <1>6, <1>7

LEMMA ReadIdKeeps ==
    ASSUME MonitorInv, NEW w \in Workers, ReadId(w)
    PROVE  MonitorInv'
<1> USE DEF MonitorInv
<1> DEFINE path == job[w].path
           id == IF job[w].gone
                   THEN IF RowsAt(path) = {} THEN None ELSE First(RowsAt(path))
                 ELSE IF job[w].type = "folder" THEN path[2]
                 ELSE IF Exists(path) /\ disk[path] # 0 THEN disk[path] ELSE None
<1>1. /\ stage[w] \in {"child", "id"} /\ (stage[w] = "id" <=> ~job[w].gone)
      /\ stage' = [stage EXCEPT ![w] = IF id = None THEN "idle" ELSE "update"]
      /\ uuid' = [uuid EXCEPT ![w] = id]
    BY DEF ReadId, At, Goes, WorkInv, Fits
<1>2. job[w] \in Job /\ FolderJob(job[w]) /\ path \in Spots
    BY <1>1 DEF WorkInv, Fits, Job
<1>3. /\ id # None => id \in Uuids
      /\ id # None /\ job[w].gone => rows[id] # NoRow
      /\ id # None /\ ~job[w].gone => \/ id \in Ids /\ path \in Paths
                                      \/ id \in Dirs /\ path = PathOf(id)
    <2>1. CASE job[w].gone
        <3>1. id # None => id \in Uuids /\ rows[id].path = path
            BY <1>2, <2>1, FirstIsRow DEF WorkInv, RowsAt
        <3> QED
            BY <1>2, <2>1, <3>1, PathFacts DEF NoRow
    <2>2. CASE ~job[w].gone /\ job[w].type = "folder"
        <3>1. id \in Dirs /\ path = PathOf(id)
            BY <1>2, <2>2, PathFacts DEF FolderJob
        <3> QED
            BY <2>2, <3>1 DEF Uuids
    <2>3. CASE ~job[w].gone /\ job[w].type # "folder"
        <3>1. id # None => id \in Ids /\ path \in Paths
            BY <2>3 DEF TypeOK, Exists
        <3> QED
            BY <2>3, <3>1 DEF Uuids
    <2> QED
        BY <2>1, <2>2, <2>3
<1>4. ~job[w].gone /\ path \in Paths /\ disk[path] \in Ids => id = disk[path] /\ id # None
    <2> SUFFICES ASSUME ~job[w].gone, path \in Paths, disk[path] \in Ids
                 PROVE  id = disk[path] /\ id # None
        OBVIOUS
    <2>1. job[w].type # "folder"
        BY <1>2, PathFacts DEF FolderJob
    <2> QED
        BY <2>1, PathFacts DEF Exists
<1> HIDE DEF id
<1>5. /\ stage'[w] = IF id = None THEN "idle" ELSE "update"
      /\ uuid'[w] = id /\ job' = job /\ kids' = kids /\ rows' = rows /\ cut' = cut /\ disk' = disk
    BY <1>1 DEF TypeOK, ReadId, WorkerRest, diskVars, dbVars
<1>6. TypeOK'
    BY <1>1, <1>3
       DEF TypeOK, ReadId, WorkerRest, Exists, diskVars, watchVars, loopVars, dbVars
<1>7. Others(w) /\ RowsStay
    BY <1>1, <1>5 DEF TypeOK, Others, RowsStay
<1>8. WorkInv'
    <2>1. Fits(w)'
        <3>1. \A i \in kids[w] : rows[i] # NoRow
            BY DEF WorkInv, Fits
        <3> QED
            BY <1>2, <1>3, <1>5, <3>1 DEF Fits, FolderJob
    <2>2. \A v \in Workers : Fits(v)'
        BY <1>7, <2>1, FitsKept DEF WorkInv
    <2>3. RowPlaces' /\ ChanFits'
        BY DEF WorkInv, RowPlaces, ChanFits, FolderJob, ReadId, dbVars
    <2>4. \A i : Logging(i) => Logging(i)'
        BY <1>1, <1>7 DEF Logging, Others
    <2>5. RowsLogged'
        BY <2>4 DEF WorkInv, RowsLogged, ReadId, dbVars
    <2> QED
        BY <2>2, <2>3, <2>5 DEF WorkInv
<1>9. ChangesPend'
    <2> SUFFICES ASSUME ~dropped, NEW p \in touched, p[1] \in watches PROVE Pending(p)'
        BY DEF ChangesPend, ReadId, WorkerRest, diskVars, watchVars
    <2>1. Pending(p) /\ p \in Paths
        BY DEF ChangesPend, TypeOK
    <2>2. ASSUME ~job[w].gone, job[w].path = p, Tracked(p) PROVE Tracked(p)'
        BY <1>4, <1>5, <2>1, <2>2 DEF Tracked
    <2> QED
        BY <1>1, <1>7, <2>1, <2>2, PendingElsewhere
           DEF ReadId, WorkerRest, diskVars, loopVars, Queued
<1> QED
    BY <1>6, <1>8, <1>9

LEMMA SaveRowKeeps ==
    ASSUME MonitorInv, NEW w \in Workers, SaveRow(w)
    PROVE  MonitorInv'
<1> USE DEF MonitorInv
<1> PICK i \in Uuids : i = uuid[w]
    BY DEF SaveRow, At, WorkInv, Fits
<1> DEFINE row == IF job[w].gone THEN [rows[i] EXCEPT !.gone = TRUE]
                 ELSE [path |-> job[w].path, gone |-> FALSE]
<1>1. /\ stage[w] = "update" /\ stage' = [stage EXCEPT ![w] = "log"]
      /\ rows' = [rows EXCEPT ![i] = row]
      /\ job[w] \in Job /\ FolderJob(job[w]) /\ job[w].path \in Spots
      /\ ~job[w].gone => \/ i \in Ids /\ job[w].path \in Paths
                         \/ i \in Dirs /\ job[w].path = PathOf(i)
    BY DEF SaveRow, At, Goes, WorkInv, Fits, Job
<1>2. /\ row \in [path : Spots \union {None}, gone : BOOLEAN] /\ row # NoRow
      /\ i \in Ids => row.path \in Paths \union {None}
      /\ i \in Dirs => row.path \in {PathOf(i), None}
    <2>1. rows[i] \in [path : Spots \union {None}, gone : BOOLEAN]
        BY <1>1 DEF TypeOK
    <2>2. CASE job[w].gone
        <3>1. row.gone = TRUE /\ row.path = rows[i].path
              /\ row \in [path : Spots \union {None}, gone : BOOLEAN]
            BY <2>1, <2>2
        <3> QED
            BY <3>1 DEF NoRow, WorkInv, RowPlaces
    <2>3. CASE ~job[w].gone
        <3>1. row = [path |-> job[w].path, gone |-> FALSE]
            BY <2>3
        <3>2. row # NoRow
            BY <1>1, <3>1, PathFacts DEF NoRow
        <3> QED
            BY <1>1, <2>3, <3>1, <3>2, PathFacts
    <2> QED
        BY <2>2, <2>3
<1> HIDE DEF row
<1>3. /\ rows' \in [Uuids -> [path : Spots \union {None}, gone : BOOLEAN]]
      /\ rows'[i] = row /\ \A k \in Uuids \ {i} : rows'[k] = rows[k]
    BY <1>1, <1>2 DEF TypeOK
<1>4. TypeOK'
    <2>1. /\ UNCHANGED <<dbChan, job, kids, uuid, overlap, logged>>
          /\ UNCHANGED <<diskVars, watchVars, inotify, loopVars, dropped, troubles>>
          /\ cut' \subseteq cut /\ struck' \subseteq struck
        BY DEF SaveRow, Written, WorkerRest
    <2>2. stage' \in [Workers -> {"idle", "children", "child", "childrow", "id", "update", "log"}]
        BY <1>1 DEF TypeOK
    <2> QED
        BY <1>3, <2>1, <2>2 DEF TypeOK, Exists, diskVars, watchVars, loopVars
<1>5. RowsStay /\ (~job[w].gone => i \notin cut') /\ \A k \in cut : k # i => k \in cut'
    BY <1>2, <1>3 DEF RowsStay, SaveRow, Written, TypeOK
<1>6. /\ stage'[w] = "log" /\ uuid'[w] = i /\ job' = job /\ kids' = kids /\ Others(w)
    <2>1. job' = job /\ kids' = kids /\ uuid' = uuid
        BY DEF SaveRow
    <2>2. stage'[w] = "log" /\ \A v \in Workers \ {w} : stage'[v] = stage[v]
        BY <1>1 DEF TypeOK
    <2> QED
        BY <2>1, <2>2 DEF Others
<1>7. WorkInv'
    <2>1. Fits(w)'
        <3>1. kids[w] \subseteq Uuids /\ \A k \in kids[w] : rows[k] # NoRow
            BY DEF TypeOK, WorkInv, Fits
        <3> QED
            BY <1>1, <1>2, <1>3, <1>5, <1>6, <3>1 DEF Fits, FolderJob, RowsStay
    <2>2. \A v \in Workers : Fits(v)'
        BY <1>5, <1>6, <2>1, FitsKept DEF WorkInv
    <2>3. RowPlaces'
        BY <1>1, <1>2, <1>3 DEF WorkInv, RowPlaces, Uuids
    <2>4. ChanFits'
        BY DEF WorkInv, ChanFits, FolderJob, SaveRow
    <2>5. (~job[w].gone => Logging(i)') /\ \A k : Logging(k) => Logging(k)'
        BY <1>1, <1>6 DEF Logging, Others
    <2>6. logged' = logged /\ (job[w].gone => cut' = cut /\ rows[i] # NoRow)
        BY <1>1 DEF SaveRow, Written, WorkInv, Fits
    <2>7. RowsLogged'
        BY <1>2, <1>3, <1>5, <2>5, <2>6 DEF WorkInv, RowsLogged
    <2> QED
        BY <2>2, <2>3, <2>4, <2>7 DEF WorkInv
<1>8. ChangesPend'
    <2> SUFFICES ASSUME ~dropped, NEW p \in touched, p[1] \in watches PROVE Pending(p)'
        BY DEF ChangesPend, SaveRow, WorkerRest, diskVars, watchVars
    <2>1. Pending(p)
        BY DEF ChangesPend
    <2>2. ASSUME i = disk[p], Tracked(p) PROVE Tracked(p)'
        BY <1>2, <1>3, <2>2 DEF Tracked, SaveRow, WorkerRest, diskVars
    <2> QED
        BY <1>1, <1>5, <1>6, <2>1, <2>2, PendingElsewhere
           DEF SaveRow, WorkerRest, diskVars, loopVars, Queued
<1> QED
    BY <1>4, <1>7, <1>8

LEMMA SaveHistoryKeeps ==
    ASSUME MonitorInv, NEW w \in Workers, SaveHistory(w)
    PROVE  MonitorInv'
<1> USE DEF MonitorInv
<1> DEFINE i == uuid[w]
<1>1. /\ stage[w] = "log" /\ stage' = [stage EXCEPT ![w] = "idle"]
      /\ i \in Uuids /\ (rows[i] # NoRow \/ i \in cut)
      /\ uuid' = [uuid EXCEPT ![w] = None]
      /\ logged' = [logged EXCEPT ![i] = IF job[w].gone THEN "gone" ELSE "put"]
    BY DEF SaveHistory, At, Goes, WorkInv, Fits
<1> HIDE DEF i
<1>2. TypeOK'
    BY <1>1
       DEF TypeOK, SaveHistory, WorkerRest, Exists, diskVars, watchVars, loopVars
<1>3. Others(w) /\ RowsStay
    BY <1>1 DEF TypeOK, SaveHistory, Others, RowsStay
<1>4. WorkInv'
    <2>1. Fits(w)'
        <3>1. stage'[w] = "idle" /\ kids' = kids /\ rows' = rows
            BY <1>1 DEF TypeOK, SaveHistory
        <3> QED
            BY <3>1 DEF WorkInv, Fits
    <2>2. \A v \in Workers : Fits(v)'
        BY <1>3, <2>1, FitsKept DEF WorkInv
    <2>3. RowPlaces' /\ ChanFits'
        BY DEF WorkInv, RowPlaces, ChanFits, FolderJob, SaveHistory
    <2>4. \A k : Logging(k) /\ k # i => Logging(k)'
        BY <1>3 DEF Logging, Others, i
    <2>5. logged'[i] # "none" /\ \A k \in Uuids \ {i} : logged'[k] = logged[k]
        BY <1>1 DEF TypeOK
    <2>6. RowsLogged'
        BY <1>1, <2>4, <2>5 DEF WorkInv, RowsLogged, SaveHistory
    <2> QED
        BY <2>2, <2>3, <2>6 DEF WorkInv
<1>5. ChangesPend'
    BY <1>1, <1>3, PendingElsewhere
       DEF ChangesPend, SaveHistory, WorkerRest, diskVars, watchVars, loopVars, Queued
<1> QED
    BY <1>2, <1>4, <1>5

(* What a failure leaves out is not made up for, but nothing that is there *)
(* is lost, and the uuid that lacks its row or its log entry is known.     *)
LEMMA PersistFailsKeeps ==
    ASSUME MonitorInv, NEW w \in Workers, PersistFails(w)
    PROVE  MonitorInv'
<1> USE DEF MonitorInv
<1>1. /\ UNCHANGED <<dirs, disk, changes, watchVars, inotify, loopVars, dbChan, dropped, job, overlap,
                     rows, logged, struck>>
      /\ troubles' \in Nat /\ touched' \subseteq touched
    BY DEF PersistFails, Trouble, TypeOK
<1>2. /\ \E t \in {"child", "childrow", "idle", "log"} : stage' = [stage EXCEPT ![w] = t]
      /\ \E new \in Uuids \union {None} : uuid' = [uuid EXCEPT ![w] = new]
      /\ \E is \in SUBSET kids[w] : kids' = [kids EXCEPT ![w] = is]
    <2>1. kids[w] \subseteq Uuids /\ uuid[w] \in Uuids \union {None}
          /\ uuid = [uuid EXCEPT ![w] = uuid[w]] /\ kids = [kids EXCEPT ![w] = kids[w]]
        BY DEF TypeOK
    <2> QED
        BY <2>1 DEF PersistFails, Goes
<1>3. cut \subseteq cut' /\ cut' \subseteq Uuids
    <2>1. stage[w] \in {"update", "log"} => uuid[w] \in Uuids
        BY DEF WorkInv, Fits
    <2> QED
        BY <2>1 DEF PersistFails, At, Unlogged, TypeOK
<1>4. TypeOK'
    <2>1. stage' \in [Workers -> {"idle", "children", "child", "childrow", "id", "update", "log"}]
        BY <1>2 DEF TypeOK
    <2>2. uuid' \in [Workers -> Uuids \union {None}] /\ kids' \in [Workers -> SUBSET Uuids]
        BY <1>2 DEF TypeOK
    <2>3. touched' \subseteq {p \in Paths : Exists(p)'}
        BY <1>1 DEF TypeOK, Exists
    <2> QED
        BY <1>1, <1>3, <2>1, <2>2, <2>3 DEF TypeOK, watchVars, loopVars
<1>5. Others(w) /\ RowsStay
    BY <1>1, <1>2, <1>3 DEF TypeOK, Others, RowsStay
<1>6. /\ stage'[w] # stage[w]
      /\ stage[w] = "update" => stage'[w] = "log" /\ uuid' = uuid
                                /\ (~job[w].gone => uuid[w] \in cut')
      /\ stage[w] = "log" => stage'[w] = "idle" /\ (~job[w].gone => uuid[w] \in cut')
      /\ stage[w] \notin {"update", "log"} => stage'[w] \in {"child", "childrow", "idle"}
      /\ stage'[w] = "childrow" => uuid'[w] \in kids[w]
      /\ stage[w] = "id" => job[w].path \notin touched'
      /\ stage[w] # "idle"
    BY DEF PersistFails, At, Goes, Unlogged, TypeOK
<1>7. WorkInv'
    <2>1. Fits(w)'
        <3>1. /\ job' = job /\ rows' = rows /\ kids'[w] \subseteq kids[w]
              /\ job[w] \in Job /\ FolderJob(job[w])
              /\ \A i \in kids[w] : i \in Uuids /\ rows[i] # NoRow
            BY <1>1, <1>2, <1>6 DEF TypeOK, WorkInv, Fits
        <3>2. CASE stage[w] = "update"
            BY <1>3, <1>6, <3>1, <3>2 DEF WorkInv, Fits, FolderJob
        <3>3. CASE stage[w] # "update"
            BY <1>6, <3>1, <3>3 DEF Fits, FolderJob
        <3> QED
            BY <3>2, <3>3
    <2>2. \A v \in Workers : Fits(v)'
        BY <1>5, <2>1, FitsKept DEF WorkInv
    <2>3. RowPlaces' /\ ChanFits'
        BY <1>1 DEF WorkInv, RowPlaces, ChanFits, FolderJob
    <2>4. \A i : Logging(i) /\ i \notin cut' => Logging(i)'
        BY <1>5, <1>6 DEF Logging, Others
    <2>5. RowsLogged'
        BY <1>1, <1>3, <2>4 DEF WorkInv, RowsLogged
    <2> QED
        BY <2>2, <2>3, <2>5 DEF WorkInv
<1>8. ChangesPend'
    <2> SUFFICES ASSUME ~dropped, NEW p \in touched', p[1] \in watches PROVE Pending(p)'
        BY <1>1 DEF ChangesPend, watchVars
    <2>1. Pending(p)
        BY <1>1 DEF ChangesPend
    <2>2. stage[w] = "id" => job[w].path # p
        BY <1>6
    <2>3. ASSUME stage[w] = "update", ~job[w].gone, uuid[w] = disk[p], Tracked(p) PROVE Tracked(p)'
        BY <1>1, <1>6, <2>3 DEF Tracked
    <2> QED
        BY <1>1, <1>5, <2>1, <2>2, <2>3, PendingElsewhere DEF loopVars, Queued
<1> QED
    BY <1>4, <1>7, <1>8

(***************************************************************************)
(* The theorems.                                                           *)
(***************************************************************************)
LEMMA MonitorInvStutter ==
    ASSUME MonitorInv, UNCHANGED vars
    PROVE  MonitorInv'
<1> USE DEF MonitorInv
<1>1. TypeOK'
    BY DEF TypeOK, Exists, vars, diskVars, watchVars, loopVars, workerVars, dbVars
<1>2. WorkInv'
    BY WorkKept DEF vars, workerVars, dbVars
<1>3. ChangesPend'
    BY PendingKept DEF ChangesPend, vars, diskVars, watchVars, loopVars, workerVars, dbVars
<1> QED
    BY <1>1, <1>2, <1>3

LEMMA MonitorInvNext ==
    ASSUME MonitorInv, [Next]_vars
    PROVE  MonitorInv'
<1>1. CASE DiskChange
    BY <1>1, CreateFileKeeps, WriteFileKeeps, ChangeModeKeeps, RemoveFileKeeps, MoveFileKeeps,
       DirChangeKeeps
       DEF DiskChange
<1>2. CASE mainLoop
    BY <1>2, HandleNewDirKeeps, ReadDirKeeps, ScanFileKeeps, ScanDoneKeeps, HandleFileKeeps, SkipKeeps,
       HandleGoneKeeps DEF mainLoop
<1>3. CASE Restart
    BY <1>3, RestartKeeps
<1>4. CASE \E w \in Workers : Take(w) \/ persistToDB(w) \/ PersistFails(w)
    BY <1>4, TakeKeeps, FindChildrenKeeps, LogChildKeeps, RecordChildKeeps, ReadIdKeeps,
       SaveRowKeeps, SaveHistoryKeeps, PersistFailsKeeps DEF persistToDB
<1>5. CASE UNCHANGED vars
    BY <1>5, MonitorInvStutter
<1> QED
    BY <1>1, <1>2, <1>3, <1>4, <1>5 DEF Next

LEMMA MonitorInvariance == Spec => []MonitorInv
BY MonitorInvInit, MonitorInvNext, PTL DEF Spec

(* Two files never have the same uuid, no event waits beyond the capacity  *)
(* of the channel and only files that exist count as changed, among the    *)
(* types of all variables (file_monitor.go, EnsureFileID and emitEvent).   *)
THEOREM TypeCorrect == Spec => []TypeOK
BY MonitorInvariance, PTL DEF MonitorInv

(* When everything reported has been worked off, every file changed in a   *)
(* watched directory has a uuid and a row, unless an event found the       *)
(* channel full or the file's own attribute or row could not be written:   *)
(* neither the walk through a new directory nor the workers, in whatever   *)
(* order they run and whatever fails for other files, lose a change.       *)
THEOREM ChangesFound == Spec => []EveryChangeFindsItsFile
<1>1. MonitorInv => EveryChangeFindsItsFile
    <2> SUFFICES ASSUME MonitorInv, Quiet, NEW p \in Paths, Obliged(p)
                 PROVE  disk[p] \in Ids /\ (disk[p] \notin cut => rows[disk[p]] # NoRow)
        BY DEF EveryChangeFindsItsFile
    <2>1. Pending(p)
        BY DEF MonitorInv, ChangesPend, Obliged
    <2>2. ~Reported(inotify, p) /\ ~Queued(dbChan, p)
        BY DEF Quiet, Reported, Queued
    <2>3. scan # p[1]
        BY PathFacts DEF Quiet
    <2> QED
        BY <2>1, <2>2, <2>3 DEF Pending, Tracked, Quiet, At
<1> QED
    BY <1>1, MonitorInvariance, PTL

(* A uuid in the log, which is what the server hears of, has a row, and    *)
(* every row has its log entry once the workers are done, except a uuid    *)
(* for which a worker has failed or died between the two (saveFileHistory  *)
(* after the row), and that only until its row is written again.           *)
THEOREM LogAndRows == Spec => []LogMatchesRows
<1>1. MonitorInv => LogMatchesRows
    BY DEF MonitorInv, WorkInv, RowsLogged, Logging, LogMatchesRows, Quiet, At
<1> QED
    BY <1>1, MonitorInvariance, PTL

(***************************************************************************)
(* Rows in order.  As long as no two workers have been at work at once, an *)
(* event passes the reports, the channel and the worker in turn.  Of each  *)
(* changed file the invariant says that behind the last thing on this way  *)
(* that would mark it as gone there is one that will put it right, or that *)
(* there is no such thing and the row is right.                            *)
(***************************************************************************)
\* Something of F comes after everything of S; nothing of S comes.
Settled(s, F, S) == \E k \in 1..Len(s) : s[k] \in F /\ \A j \in k + 1..Len(s) : s[j] \notin S
Without(s, S)    == \A j \in 1..Len(s) : s[j] \notin S
Clean(s, F, S)   == Without(s, S) \/ Settled(s, F, S)

KernelReports == [op : Ops, path : Spots]

\* Reports that lead to an event that puts p right, or to one that marks it.
Fixes(p) == {r \in KernelReports :
    \/ r.op \in {"create", "write"} /\ r.path = p
    \/ r.op = "create" /\ r.path = PathOf(p[1])}
Spoilers(p) == {r \in KernelReports : r.op \in {"remove", "rename"} /\ r.path \in {p, PathOf(p[1])}}

DirFixes(d)    == {r \in KernelReports : r.op = "create" /\ r.path = PathOf(d)}
DirSpoilers(d) == {r \in KernelReports : r.op \in {"remove", "rename"} /\ r.path = PathOf(d)}

\* Events in the channel that do so.
Puts(p)  == {j \in Job : ~j.gone /\ j.path = p}
Takes(p) == {j \in Job : j.gone /\ j.path \in {p, PathOf(p[1])}}

Right(p) == [path |-> p, gone |-> FALSE]
Current(p) ==
    \/ disk[p] \in cut
    \/ /\ rows[disk[p]].path = p
       /\ disk[p] \notin struck => ~rows[disk[p]].gone /\ logged[disk[p]] = "put"

Working(w, p) ==
    /\ job[w] \in Puts(p)
    /\ stage[w] \in {"id", "update", "log"}
    /\ stage[w] \in {"update", "log"} => uuid[w] = disk[p]
    /\ stage[w] = "log" => rows[disk[p]] = Right(p) \/ disk[p] \in cut

Harmless(w, p) ==
    /\ stage[w] # "idle" => job[w] \notin Takes(p)
    /\ disk[p] \in kids[w] => disk[p] \in struck \union cut
    /\ stage[w] = "childrow" /\ uuid[w] = disk[p] => disk[p] \in struck \union cut
    /\ stage[w] \in {"update", "log"} /\ uuid[w] = disk[p] =>
          job[w] \in Puts(p) \/ (job[w].gone /\ disk[p] \in cut)

InWorker(p) ==
    \/ \E w \in Workers : Working(w, p)
    \/ Current(p) /\ \A w \in Workers : Harmless(w, p)

InChan(p) ==
    /\ disk[p] \in Ids
    /\ \/ Settled(dbChan, Puts(p), Takes(p))
       \/ Without(dbChan, Takes(p)) /\ InWorker(p)

Scanned(p) == scan = p[1] /\ (left = None \/ p[2] \in left)

InOrder(p) ==
    \/ Settled(inotify, Fixes(p), Spoilers(p))
    \/ Without(inotify, Spoilers(p)) /\ (Scanned(p) \/ InChan(p))

FilesInOrder == ~overlap /\ ~dropped =>
    \A p \in touched : p[1] \in watches => InOrder(p)

(* A directory that exists is made after it was last removed; the files of *)
(* one that is not watched had no reports after that.                      *)
DirsInOrder == \A d \in dirs :
    /\ Clean(inotify, DirFixes(d), DirSpoilers(d))
    /\ d \notin watches =>
          \A p \in Paths : p[1] = d => Clean(inotify, DirFixes(d), Spoilers(p))

OneAtATime == ~overlap => \A v, w \in Workers : stage[v] # "idle" /\ stage[w] # "idle" => v = w

KidsInTurn == \A w \in Workers :
    /\ stage[w] \notin {"child", "childrow"} => kids[w] = {}
    /\ stage[w] \in {"children", "child", "childrow"} => job[w].gone

FilesInDirs == Root \in watches /\ \A p \in Paths : disk[p] # None => p[1] \in dirs \union {Root}

OrderInv == FilesInOrder /\ DirsInOrder /\ OneAtATime /\ KidsInTurn /\ FilesInDirs

(***************************************************************************)
(* Sequences that grow at the end, shrink at the front or are marked.      *)
(***************************************************************************)
(* What is appended settles the matter or leaves it as it is.              *)
LEMMA SettledAppend ==
    ASSUME NEW A, NEW s \in Seq(A), NEW e \in A, NEW F, NEW S
    PROVE  /\ e \in F => Settled(Append(s, e), F, S)
           /\ e \notin S => (Settled(s, F, S) => Settled(Append(s, e), F, S))
           /\ e \notin S => (Without(s, S) => Without(Append(s, e), S))
<1> DEFINE t == Append(s, e)
<1>1. /\ Len(s) \in Nat /\ Len(t) = Len(s) + 1 /\ t[Len(s) + 1] = e
      /\ \A i \in 1..Len(s) : t[i] = s[i]
    BY AppendProperties, LenProperties
<1> HIDE DEF t
<1>2. e \in F => Settled(t, F, S)
    <2>1. Len(s) + 1 \in 1..Len(t) /\ Len(s) + 1 + 1..Len(t) = {}
        BY <1>1
    <2> QED
        BY <1>1, <2>1 DEF Settled
<1>3. ASSUME e \notin S, Settled(s, F, S)
      PROVE  Settled(t, F, S)
    <2>1. PICK k \in 1..Len(s) : s[k] \in F /\ \A j \in k + 1..Len(s) : s[j] \notin S
        BY <1>3 DEF Settled
    <2>2. k \in 1..Len(t) /\ t[k] \in F
        BY <1>1, <2>1
    <2>3. \A j \in k + 1..Len(t) : t[j] \notin S
        <3> TAKE j \in k + 1..Len(t)
        <3>1. CASE j = Len(s) + 1
            BY <1>1, <1>3, <3>1
        <3>2. CASE j # Len(s) + 1
            <4>1. j \in k + 1..Len(s) /\ j \in 1..Len(s)
                BY <1>1, <3>2
            <4> QED
                BY <1>1, <2>1, <4>1
        <3> QED
            BY <3>1, <3>2
    <2> QED
        BY <2>2, <2>3 DEF Settled
<1>4. ASSUME e \notin S, Without(s, S)
      PROVE  Without(t, S)
    <2>1. \A j \in 1..Len(t) : j = Len(s) + 1 \/ j \in 1..Len(s)
        BY <1>1
    <2> QED
        BY <1>1, <1>4, <2>1 DEF Without
<1> QED
    BY <1>2, <1>3, <1>4 DEF t

(* What is taken from the front was the last to settle it or did not count. *)
LEMMA SettledTail ==
    ASSUME NEW A, NEW s \in Seq(A), s # <<>>, NEW F, NEW S
    PROVE  /\ Settled(s, F, S) =>
                 Settled(Tail(s), F, S) \/ (Head(s) \in F /\ Without(Tail(s), S))
           /\ Without(s, S) => Without(Tail(s), S) /\ Head(s) \notin S
<1> DEFINE t == Tail(s)
<1>1. /\ Len(s) \in Nat \ {0} /\ Len(t) = Len(s) - 1 /\ Head(s) = s[1]
      /\ \A i \in 1..Len(t) : t[i] = s[i + 1]
    BY HeadTailProperties, EmptySeq, LenProperties
<1> HIDE DEF t
<1>2. ASSUME NEW k \in 1..Len(s), s[k] \in F, \A j \in k + 1..Len(s) : s[j] \notin S
      PROVE  Settled(t, F, S) \/ (Head(s) \in F /\ Without(t, S))
    <2>1. CASE k = 1
        <3>1. \A j \in 1..Len(t) : j + 1 \in k + 1..Len(s)
            BY <1>1, <2>1
        <3> QED
            BY <1>1, <1>2, <2>1, <3>1 DEF Without
    <2>2. CASE k # 1
        <3>1. k - 1 \in 1..Len(t) /\ t[k - 1] = s[k]
            BY <1>1, <2>2
        <3>2. \A j \in (k - 1) + 1..Len(t) : t[j] = s[j + 1] /\ j + 1 \in k + 1..Len(s)
            BY <1>1, <2>2
        <3> QED
            BY <1>2, <3>1, <3>2 DEF Settled
    <2> QED
        BY <2>1, <2>2
<1>3. ASSUME Without(s, S)
      PROVE  Without(t, S) /\ Head(s) \notin S
    <2>1. 1 \in 1..Len(s) /\ \A j \in 1..Len(t) : j + 1 \in 1..Len(s)
        BY <1>1
    <2> QED
        BY <1>1, <1>3, <2>1 DEF Without
<1> QED
    BY <1>2, <1>3 DEF Settled, t

(* An empty queue is clean.                                                *)
LEMMA EmptyClean ==
    ASSUME NEW F, NEW S
    PROVE  Without(<<>>, S) /\ ~Settled(<<>>, F, S) /\ Clean(<<>>, F, S)
<1>1. Len(<<>>) = 0
    BY EmptySeq
<1> QED
    BY <1>1 DEF Without, Settled, Clean

(* Which report concerns which file.                                       *)
LEMMA ConcernFacts ==
    /\ \A p \in Paths : PathOf(p[1]) \notin Paths
    /\ \A p \in Paths, d \in Dirs : PathOf(p[1]) = PathOf(d) => p[1] = d
    /\ \A p \in Paths, r \in Spots : r = PathOf(p[1]) => p[1] \in Dirs
    /\ Root \notin Dirs /\ \A p \in Paths : p[1] # None
<1>1. Root \notin Dirs /\ Root \notin Names /\ Dirs \intersect Names = {}
    BY NamesAssumption
<1>2. \A p \in Paths : p[1] \in Dirs \union {Root}
    BY PathFacts DEF Places
<1>3. \A x, y : PathOf(x) = PathOf(y) => x = y
    BY DEF PathOf
<1>4. \A x : PathOf(x) \in Paths => x \in Names
    BY DEF Paths, PathOf
<1>5. PathOf(Root) \notin Spots
    BY <1>1, <1>3, <1>4 DEF Spots
<1> QED
    BY <1>1, <1>2, <1>3, <1>4, <1>5, PathFacts

(***************************************************************************)
(* What keeps things in order.                                             *)
(***************************************************************************)
(* The parts of the invariant after a step, in terms of the next values.   *)
LEMMA InOrderNext ==
    ASSUME NEW p
    PROVE  /\ Settled(inotify', Fixes(p), Spoilers(p)) => InOrder(p)'
           /\ Without(inotify', Spoilers(p)) /\ (Scanned(p)' \/ InChan(p)') => InOrder(p)'
           /\ disk'[p] \in Ids /\ Settled(dbChan', Puts(p), Takes(p)) => InChan(p)'
           /\ disk'[p] \in Ids /\ Without(dbChan', Takes(p)) /\ InWorker(p)' => InChan(p)'
<1>1. Settled(inotify', Fixes(p), Spoilers(p)) => Settled(inotify, Fixes(p), Spoilers(p))'
    BY DEF Settled, Fixes, Spoilers, KernelReports
<1>2. Without(inotify', Spoilers(p)) => Without(inotify, Spoilers(p))'
    BY DEF Without, Spoilers, KernelReports
<1>3. Settled(dbChan', Puts(p), Takes(p)) => Settled(dbChan, Puts(p), Takes(p))'
    BY DEF Settled, Puts, Takes
<1>4. Without(dbChan', Takes(p)) => Without(dbChan, Takes(p))'
    BY DEF Without, Takes
<1> QED
    BY <1>1, <1>2, <1>3, <1>4 DEF InOrder, InChan

LEMMA DirsNext ==
    ASSUME \A d \in dirs' :
              /\ Clean(inotify', DirFixes(d), DirSpoilers(d))
              /\ d \notin watches' =>
                    \A p \in Paths : p[1] = d => Clean(inotify', DirFixes(d), Spoilers(p))
    PROVE  DirsInOrder'
BY DEF DirsInOrder, Clean, Settled, Without, DirFixes, DirSpoilers, Spoilers, KernelReports

Beyond == <<scan, left, dbChan, stage, job, kids, uuid, dbVars>>

(* The file itself and the way of its event beyond the reports are as before. *)
LEMMA BeyondKept ==
    ASSUME NEW p, disk'[p] = disk[p], UNCHANGED Beyond
    PROVE  (Scanned(p) => Scanned(p)') /\ (InChan(p) => InChan(p)')
<1>1. Scanned(p) => Scanned(p)'
    BY DEF Scanned, Beyond
<1>2. InWorker(p) => InWorker(p)'
    BY DEF InWorker, Working, Current, Harmless, Puts, Takes, Right, Beyond, dbVars
<1>3. dbChan' = dbChan
    BY DEF Beyond
<1> QED
    BY <1>1, <1>2, <1>3, InOrderNext DEF InChan

LEMMA OrderKept ==
    ASSUME NEW p, InOrder(p), disk'[p] = disk[p], UNCHANGED Beyond,
           Settled(inotify, Fixes(p), Spoilers(p)) => Settled(inotify', Fixes(p), Spoilers(p)),
           Without(inotify, Spoilers(p)) => Without(inotify', Spoilers(p))
    PROVE  InOrder(p)'
BY BeyondKept, InOrderNext DEF InOrder

(* The kernel appends a report.                                            *)
LEMMA ReportOrders ==
    ASSUME NEW s \in Seq(KernelReports), NEW op \in Ops, NEW p \in Spots, NEW F, NEW S
    PROVE  /\ s \o Report(op, p) \in Seq(KernelReports)
           /\ [op |-> op, path |-> p] \in F /\ p[1] \in watches => Settled(s \o Report(op, p), F, S)
           /\ [op |-> op, path |-> p] \notin S \/ p[1] \notin watches =>
                 /\ Settled(s, F, S) => Settled(s \o Report(op, p), F, S)
                 /\ Without(s, S) => Without(s \o Report(op, p), S)
<1>1. CASE p[1] \notin watches
    <2>1. s \o Report(op, p) = s
        BY <1>1 DEF Report
    <2> QED
        BY <1>1, <2>1
<1>2. CASE p[1] \in watches
    <2> DEFINE e == [op |-> op, path |-> p]
    <2>1. e \in KernelReports
        BY DEF KernelReports
    <2>2. s \o Report(op, p) = Append(s, e) /\ Append(s, e) \in Seq(KernelReports)
        BY <1>2, <2>1, AppendIsConcat, AppendProperties DEF Report
    <2> HIDE DEF e
    <2>3. /\ e \in F => Settled(Append(s, e), F, S)
          /\ e \notin S => (Settled(s, F, S) => Settled(Append(s, e), F, S))
          /\ e \notin S => (Without(s, S) => Without(Append(s, e), S))
        BY <2>1, SettledAppend
    <2> QED
        BY <1>2, <2>2, <2>3 DEF e
<1> QED
    BY <1>1, <1>2

LEMMA ReportsTyped == TypeOK => inotify \in Seq(KernelReports)
BY DEF TypeOK, KernelReports

(* Which report counts for what.                                           *)
LEMMA WhatCounts ==
    ASSUME NEW op \in Ops, NEW q \in Spots
    PROVE  LET r == [op |-> op, path |-> q]
           IN  /\ r \in KernelReports /\ r.op = op /\ r.path = q
               /\ \A p : r \in Fixes(p) <=>
                     (op \in {"create", "write"} /\ q = p) \/ (op = "create" /\ q = PathOf(p[1]))
               /\ \A p : r \in Spoilers(p) <=> op \in {"remove", "rename"} /\ q \in {p, PathOf(p[1])}
               /\ \A d : r \in DirFixes(d) <=> op = "create" /\ q = PathOf(d)
               /\ \A d : r \in DirSpoilers(d) <=> op \in {"remove", "rename"} /\ q = PathOf(d)
<1> DEFINE r == [op |-> op, path |-> q]
<1>1. r \in KernelReports /\ r.op = op /\ r.path = q
    BY DEF KernelReports
<1> HIDE DEF r
<1>2. \A p : r \in Fixes(p) <=>
         (op \in {"create", "write"} /\ q = p) \/ (op = "create" /\ q = PathOf(p[1]))
    BY <1>1 DEF Fixes
<1>3. \A p : r \in Spoilers(p) <=> op \in {"remove", "rename"} /\ q \in {p, PathOf(p[1])}
    BY <1>1 DEF Spoilers
<1>4. \A d : r \in DirFixes(d) <=> op = "create" /\ q = PathOf(d)
    BY <1>1 DEF DirFixes
<1>5. \A d : r \in DirSpoilers(d) <=> op \in {"remove", "rename"} /\ q = PathOf(d)
    BY <1>1 DEF DirSpoilers
<1> QED
    BY <1>1, <1>2, <1>3, <1>4, <1>5 DEF r

(* A report about a file is appended: it settles the matter for that file  *)
(* or, as one that it is gone, is of no account for the others.            *)
LEMMA FileReported ==
    ASSUME NEW s \in Seq(KernelReports), NEW op \in Ops, NEW p \in Paths
    PROVE  /\ s \o Report(op, p) \in Seq(KernelReports)
           /\ op \in {"create", "write"} /\ p[1] \in watches =>
                 Settled(s \o Report(op, p), Fixes(p), Spoilers(p))
           /\ \A q \in Paths : q # p \/ op \notin {"remove", "rename"} =>
                 /\ Settled(s, Fixes(q), Spoilers(q)) => Settled(s \o Report(op, p), Fixes(q), Spoilers(q))
                 /\ Without(s, Spoilers(q)) => Without(s \o Report(op, p), Spoilers(q))
           /\ \A d \in Dirs : Clean(s, DirFixes(d), DirSpoilers(d)) =>
                 Clean(s \o Report(op, p), DirFixes(d), DirSpoilers(d))
           /\ \A d \in Dirs \ watches, q \in Paths :
                 q[1] = d /\ Clean(s, DirFixes(d), Spoilers(q)) =>
                 Clean(s \o Report(op, p), DirFixes(d), Spoilers(q))
<1>1. p \in Spots /\ \A d \in Dirs : p # PathOf(d)
    BY PathFacts
<1>2. s \o Report(op, p) \in Seq(KernelReports)
    BY <1>1, ReportOrders
<1>3. op \in {"create", "write"} => [op |-> op, path |-> p] \in Fixes(p)
    BY <1>1, WhatCounts
<1>4. \A q \in Paths : q # p \/ op \notin {"remove", "rename"} => [op |-> op, path |-> p] \notin Spoilers(q)
    BY <1>1, WhatCounts, ConcernFacts
<1>5. \A d \in Dirs : [op |-> op, path |-> p] \notin DirSpoilers(d)
    BY <1>1, WhatCounts
<1>6. \A d \in Dirs \ watches, q \in Paths :
         q[1] = d => [op |-> op, path |-> p] \notin Spoilers(q) \/ p[1] \notin watches
    BY <1>1, <1>4
<1> QED
    BY <1>1, <1>2, <1>3, <1>4, <1>5, <1>6, ReportOrders DEF Clean

LEMMA WorkersSame ==
    ASSUME OrderInv, UNCHANGED <<stage, job, kids, overlap>>
    PROVE  OneAtATime' /\ KidsInTurn'
BY DEF OrderInv, OneAtATime, KidsInTurn

LEMMA TouchedTypes ==
    ASSUME TypeOK, NEW p \in touched
    PROVE  /\ p \in Paths /\ disk[p] \in Ids \union {0} /\ disk[p] # None
           /\ p = <<p[1], p[2]>> /\ p[2] \in Names
<1>1. p \in Paths /\ disk[p] # None /\ disk[p] \in Ids \union {0, None}
    BY DEF TypeOK, Exists
<1> QED
    BY <1>1 DEF Paths

(***************************************************************************)
(* Changes on the disk.                                                    *)
(***************************************************************************)
LEMMA CreateFileInOrder ==
    ASSUME MonitorInv, OrderInv, NEW p \in Paths, CreateFile(p)
    PROVE  OrderInv'
<1>1. TypeOK /\ inotify \in Seq(KernelReports) /\ inotify' = inotify \o Report("create", p) /\ "create" \in Ops
    BY ReportsTyped DEF MonitorInv, CreateFile, Reports, Ops
<1>2. /\ UNCHANGED Beyond /\ UNCHANGED <<stage, job, kids, overlap, dropped, dirs, watches>>
      /\ touched' = touched \union {p} /\ disk' = [disk EXCEPT ![p] = 0]
      /\ p[1] \in dirs \union {Root}
    BY DEF CreateFile, Changes, Beyond, loopVars, workerVars, dbVars
<1>3. FilesInOrder'
    <2> SUFFICES ASSUME ~overlap, ~dropped, NEW q \in touched', q[1] \in watches PROVE InOrder(q)'
        BY <1>2 DEF FilesInOrder
    <2>1. CASE q = p
        BY <1>1, <2>1, FileReported, InOrderNext
    <2>2. CASE q # p
        <3>1. q \in touched /\ q \in Paths /\ disk'[q] = disk[q]
            BY <1>1, <1>2, <2>2, TouchedTypes DEF TypeOK
        <3> QED
            BY <1>1, <1>2, <2>2, <3>1, FileReported, OrderKept DEF OrderInv, FilesInOrder
    <2> QED
        BY <2>1, <2>2
<1>4. DirsInOrder'
    <2>1. \A d \in dirs' : d \in Dirs /\ d \in dirs
        BY <1>1, <1>2 DEF TypeOK
    <2> QED
        BY <1>1, <1>2, <2>1, FileReported, DirsNext DEF OrderInv, DirsInOrder
<1>5. FilesInDirs'
    BY <1>1, <1>2 DEF OrderInv, FilesInDirs, TypeOK
<1> QED
    BY <1>2, <1>3, <1>4, <1>5, WorkersSame DEF OrderInv

LEMMA WriteFileInOrder ==
    ASSUME MonitorInv, OrderInv, NEW p \in Paths, WriteFile(p)
    PROVE  OrderInv'
<1>1. TypeOK /\ inotify \in Seq(KernelReports) /\ inotify' = inotify \o Report("write", p) /\ "write" \in Ops
    BY ReportsTyped DEF MonitorInv, WriteFile, Reports, Ops
<1>2. /\ UNCHANGED Beyond /\ UNCHANGED <<stage, job, kids, overlap, dropped, dirs, watches>>
      /\ touched' = touched \union {p} /\ disk' = disk
    BY DEF WriteFile, Changes, Beyond, loopVars, workerVars, dbVars
<1>3. FilesInOrder'
    <2> SUFFICES ASSUME ~overlap, ~dropped, NEW q \in touched', q[1] \in watches PROVE InOrder(q)'
        BY <1>2 DEF FilesInOrder
    <2>1. CASE q = p
        BY <1>1, <2>1, FileReported, InOrderNext
    <2>2. CASE q # p
        <3>1. q \in touched /\ q \in Paths
            BY <1>1, <1>2, <2>2, TouchedTypes
        <3> QED
            BY <1>1, <1>2, <2>2, <3>1, FileReported, OrderKept DEF OrderInv, FilesInOrder
    <2> QED
        BY <2>1, <2>2
<1>4. DirsInOrder'
    <2>1. \A d \in dirs' : d \in Dirs /\ d \in dirs
        BY <1>1, <1>2 DEF TypeOK
    <2> QED
        BY <1>1, <1>2, <2>1, FileReported, DirsNext DEF OrderInv, DirsInOrder
<1>5. FilesInDirs'
    BY <1>2 DEF OrderInv, FilesInDirs
<1> QED
    BY <1>2, <1>3, <1>4, <1>5, WorkersSame DEF OrderInv

LEMMA ChangeModeInOrder ==
    ASSUME MonitorInv, OrderInv, NEW p \in Paths, ChangeMode(p)
    PROVE  OrderInv'
<1>1. TypeOK /\ inotify \in Seq(KernelReports) /\ inotify' = inotify \o Report("skip", p) /\ "skip" \in Ops
    BY ReportsTyped DEF MonitorInv, ChangeMode, Reports, Ops
<1>2. UNCHANGED <<Beyond, stage, job, kids, overlap, dropped, dirs, watches, touched, disk>>
    BY DEF ChangeMode, Changes, Beyond, loopVars, workerVars, dbVars
<1>3. FilesInOrder'
    <2> SUFFICES ASSUME ~overlap, ~dropped, NEW q \in touched, q[1] \in watches PROVE InOrder(q)'
        BY <1>2 DEF FilesInOrder
    <2> QED
        BY <1>1, <1>2, TouchedTypes, FileReported, OrderKept DEF OrderInv, FilesInOrder
<1>4. DirsInOrder'
    <2>1. \A d \in dirs' : d \in Dirs /\ d \in dirs
        BY <1>1, <1>2 DEF TypeOK
    <2> QED
        BY <1>1, <1>2, <2>1, FileReported, DirsNext DEF OrderInv, DirsInOrder
<1>5. FilesInDirs'
    BY <1>2 DEF OrderInv, FilesInDirs
<1> QED
    BY <1>2, <1>3, <1>4, <1>5, WorkersSame DEF OrderInv

LEMMA RemoveFileInOrder ==
    ASSUME MonitorInv, OrderInv, NEW p \in Paths, RemoveFile(p)
    PROVE  OrderInv'
<1>1. TypeOK /\ inotify \in Seq(KernelReports) /\ inotify' = inotify \o Report("remove", p) /\ "remove" \in Ops
    BY ReportsTyped DEF MonitorInv, RemoveFile, Reports, Ops
<1>2. /\ UNCHANGED Beyond /\ UNCHANGED <<stage, job, kids, overlap, dropped, dirs, watches>>
      /\ touched' = touched \ {p} /\ disk' = [disk EXCEPT ![p] = None]
    BY DEF RemoveFile, Changes, Beyond, loopVars, workerVars, dbVars
<1>3. FilesInOrder'
    <2> SUFFICES ASSUME ~overlap, ~dropped, NEW q \in touched', q[1] \in watches PROVE InOrder(q)'
        BY <1>2 DEF FilesInOrder
    <2>1. q \in touched /\ q \in Paths /\ q # p /\ disk'[q] = disk[q]
        BY <1>1, <1>2, TouchedTypes DEF TypeOK
    <2> QED
        BY <1>1, <1>2, <2>1, FileReported, OrderKept DEF OrderInv, FilesInOrder
<1>4. DirsInOrder'
    <2>1. \A d \in dirs' : d \in Dirs /\ d \in dirs
        BY <1>1, <1>2 DEF TypeOK
    <2> QED
        BY <1>1, <1>2, <2>1, FileReported, DirsNext DEF OrderInv, DirsInOrder
<1>5. FilesInDirs'
    BY <1>1, <1>2 DEF OrderInv, FilesInDirs, TypeOK
<1> QED
    BY <1>2, <1>3, <1>4, <1>5, WorkersSame DEF OrderInv

LEMMA MoveFileInOrder ==
    ASSUME MonitorInv, OrderInv, NEW p \in Paths, NEW q \in Paths, MoveFile(p, q)
    PROVE  OrderInv'
<1> PICK s \in Seq(KernelReports) : s = inotify \o Report("rename", p)
    BY FileReported, ReportsTyped DEF MonitorInv, Ops
<1>1. /\ TypeOK /\ inotify \in Seq(KernelReports) /\ inotify' = s \o Report("create", q)
      /\ "create" \in Ops /\ "rename" \in Ops
    BY ReportsTyped DEF MonitorInv, MoveFile, Ops
<1>2. /\ UNCHANGED Beyond /\ UNCHANGED <<stage, job, kids, overlap, dropped, dirs, watches>>
      /\ touched' = (touched \ {p}) \union {q} /\ disk' = [disk EXCEPT ![q] = disk[p], ![p] = None]
      /\ p # q /\ q[1] \in dirs \union {Root}
    BY DEF MoveFile, Changes, Beyond, loopVars, workerVars, dbVars
<1>3. FilesInOrder'
    <2> SUFFICES ASSUME ~overlap, ~dropped, NEW r \in touched', r[1] \in watches PROVE InOrder(r)'
        BY <1>2 DEF FilesInOrder
    <2>1. CASE r = q
        BY <1>1, <2>1, FileReported, InOrderNext
    <2>2. CASE r # q
        <3>1. r \in touched /\ r \in Paths /\ r # p /\ disk'[r] = disk[r] /\ InOrder(r)
            BY <1>1, <1>2, <2>2, TouchedTypes DEF TypeOK, OrderInv, FilesInOrder
        <3>2. /\ Settled(inotify, Fixes(r), Spoilers(r)) => Settled(s, Fixes(r), Spoilers(r))
              /\ Without(inotify, Spoilers(r)) => Without(s, Spoilers(r))
            BY <1>1, <3>1, FileReported
        <3>3. /\ Settled(s, Fixes(r), Spoilers(r)) => Settled(inotify', Fixes(r), Spoilers(r))
              /\ Without(s, Spoilers(r)) => Without(inotify', Spoilers(r))
            BY <1>1, <2>2, <3>1, FileReported
        <3> QED
            BY <1>2, <3>1, <3>2, <3>3, OrderKept
    <2> QED
        BY <2>1, <2>2
<1>4. DirsInOrder'
    <2> SUFFICES ASSUME NEW d \in dirs
                 PROVE  /\ Clean(inotify', DirFixes(d), DirSpoilers(d))
                        /\ d \notin watches =>
                              \A r \in Paths : r[1] = d => Clean(inotify', DirFixes(d), Spoilers(r))
        BY <1>2, DirsNext
    <2>1. d \in Dirs
        BY <1>1 DEF TypeOK
    <2>2. /\ Clean(inotify, DirFixes(d), DirSpoilers(d))
          /\ d \notin watches => \A r \in Paths : r[1] = d => Clean(inotify, DirFixes(d), Spoilers(r))
        BY DEF OrderInv, DirsInOrder
    <2>3. /\ Clean(s, DirFixes(d), DirSpoilers(d))
          /\ d \notin watches => \A r \in Paths : r[1] = d => Clean(s, DirFixes(d), Spoilers(r))
        BY <1>1, <2>1, <2>2, FileReported
    <2> QED
        BY <1>1, <2>1, <2>3, FileReported
<1>5. FilesInDirs'
    <2>1. \A r \in Paths : disk'[r] # None => r = q \/ disk[r] # None
        BY <1>1, <1>2 DEF TypeOK
    <2> QED
        BY <1>2, <2>1 DEF OrderInv, FilesInDirs
<1> QED
    BY <1>2, <1>3, <1>4, <1>5, WorkersSame DEF OrderInv

LEMMA MakeDirInOrder ==
    ASSUME MonitorInv, OrderInv, NEW d \in Dirs, MakeDir(d)
    PROVE  OrderInv'
<1>1. /\ TypeOK /\ inotify \in Seq(KernelReports) /\ inotify' = inotify \o Report("create", PathOf(d))
      /\ "create" \in Ops /\ PathOf(d) \in Spots /\ PathOf(d)[1] \in watches
    BY ReportsTyped, PathFacts DEF MonitorInv, OrderInv, FilesInDirs, MakeDir, Reports, Ops
<1>2. /\ UNCHANGED Beyond /\ UNCHANGED <<stage, job, kids, overlap, dropped, disk, touched, watches>>
      /\ dirs' = dirs \union {d}
    BY DEF MakeDir, Changes, Beyond, loopVars, workerVars, dbVars
<1> PICK r \in KernelReports : r = [op |-> "create", path |-> PathOf(d)]
    BY <1>1, WhatCounts
<1>3. r \in DirFixes(d) /\ (\A q : r \notin Spoilers(q)) /\ \A e : r \notin DirSpoilers(e)
    BY <1>1, WhatCounts
<1>4. FilesInOrder'
    <2> SUFFICES ASSUME ~overlap, ~dropped, NEW q \in touched, q[1] \in watches PROVE InOrder(q)'
        BY <1>2 DEF FilesInOrder
    <2> QED
        BY <1>1, <1>2, <1>3, ReportOrders, OrderKept DEF OrderInv, FilesInOrder
<1>5. DirsInOrder'
    <2> SUFFICES ASSUME NEW e \in dirs'
                 PROVE  /\ Clean(inotify', DirFixes(e), DirSpoilers(e))
                        /\ e \notin watches =>
                              \A q \in Paths : q[1] = e => Clean(inotify', DirFixes(e), Spoilers(q))
        BY <1>2, DirsNext
    <2>1. CASE e = d
        BY <1>1, <1>3, <2>1, ReportOrders DEF Clean
    <2>2. CASE e # d
        <3>1. /\ Clean(inotify, DirFixes(e), DirSpoilers(e))
              /\ e \notin watches => \A q \in Paths : q[1] = e => Clean(inotify, DirFixes(e), Spoilers(q))
            BY <1>2, <2>2 DEF OrderInv, DirsInOrder
        <3> QED
            BY <1>1, <1>3, <3>1, ReportOrders DEF Clean
    <2> QED
        BY <2>1, <2>2
<1>6. FilesInDirs'
    BY <1>2 DEF OrderInv, FilesInDirs
<1> QED
    BY <1>2, <1>4, <1>5, <1>6, WorkersSame DEF OrderInv

LEMMA RemoveDirInOrder ==
    ASSUME MonitorInv, OrderInv, NEW d \in Dirs, RemoveDir(d)
    PROVE  OrderInv'
<1>1. /\ TypeOK /\ inotify \in Seq(KernelReports) /\ inotify' = inotify \o Report("remove", PathOf(d))
      /\ "remove" \in Ops /\ PathOf(d) \in Spots
    BY ReportsTyped, PathFacts DEF MonitorInv, RemoveDir, Reports, Ops
<1>2. /\ UNCHANGED Beyond /\ UNCHANGED <<stage, job, kids, overlap, dropped, disk, touched>>
      /\ dirs' = dirs \ {d} /\ watches' = watches \ {d}
    BY DEF RemoveDir, Changes, Beyond, loopVars, workerVars, dbVars
<1>3. \A q \in Paths : disk[q] # None => q[1] # d
    <2> SUFFICES ASSUME NEW q \in Paths, q[1] = d PROVE disk[q] = None
        OBVIOUS
    <2>1. q = <<d, q[2]>> /\ q[2] \in Names
        BY DEF Paths
    <2> QED
        BY <2>1 DEF RemoveDir
<1> PICK r \in KernelReports : r = [op |-> "remove", path |-> PathOf(d)]
    BY <1>1, WhatCounts
<1>4. /\ \A q \in Paths : q[1] # d => r \notin Spoilers(q)
      /\ \A e \in Dirs : e # d => r \notin DirSpoilers(e)
    <2>1. \A q \in Paths : PathOf(d) # q /\ (q[1] # d => PathOf(d) # PathOf(q[1]))
        BY PathFacts, ConcernFacts
    <2>2. \A e \in Dirs : e # d => PathOf(d) # PathOf(e)
        BY PathFacts
    <2> QED
        BY <1>1, <2>1, <2>2, WhatCounts
<1>5. FilesInOrder'
    <2> SUFFICES ASSUME ~overlap, ~dropped, NEW q \in touched, q[1] \in watches' PROVE InOrder(q)'
        BY <1>2 DEF FilesInOrder
    <2>1. q \in Paths /\ q[1] # d /\ InOrder(q)
        BY <1>1, <1>2, <1>3, TouchedTypes DEF OrderInv, FilesInOrder
    <2> QED
        BY <1>1, <1>2, <1>4, <2>1, ReportOrders, OrderKept
<1>6. DirsInOrder'
    <2> SUFFICES ASSUME NEW e \in dirs'
                 PROVE  /\ Clean(inotify', DirFixes(e), DirSpoilers(e))
                        /\ e \notin watches' =>
                              \A q \in Paths : q[1] = e => Clean(inotify', DirFixes(e), Spoilers(q))
        BY DirsNext
    <2>1. e \in dirs /\ e \in Dirs /\ e # d /\ (e \notin watches' => e \notin watches)
        BY <1>1, <1>2 DEF TypeOK
    <2>2. /\ Clean(inotify, DirFixes(e), DirSpoilers(e))
          /\ e \notin watches => \A q \in Paths : q[1] = e => Clean(inotify, DirFixes(e), Spoilers(q))
        BY <2>1 DEF OrderInv, DirsInOrder
    <2> QED
        BY <1>1, <1>4, <2>1, <2>2, ReportOrders DEF Clean
<1>7. FilesInDirs'
    <2>1. Root # d
        BY ConcernFacts
    <2> QED
        BY <1>2, <1>3, <2>1 DEF OrderInv, FilesInDirs
<1> QED
    BY <1>2, <1>5, <1>6, <1>7, WorkersSame DEF OrderInv

(***************************************************************************)
(* The main loop.                                                          *)
(***************************************************************************)
LEMMA EmitKeeps ==
    ASSUME TypeOK, NEW gone \in BOOLEAN, NEW path \in Spots, NEW type \in {"file", "folder"},
           emitEvent(gone, path, type), UNCHANGED <<stage, job, kids, uuid, dbVars>>, NEW p
    PROVE  /\ InChan(p) /\ disk'[p] = disk[p] /\ (gone => path \notin {p, PathOf(p[1])}) => InChan(p)'
           /\ ~gone /\ path = p /\ ~dropped' /\ disk'[p] \in Ids => InChan(p)'
           /\ dropped => dropped'
<1>1. disk'[p] = disk[p] => (InWorker(p) => InWorker(p)')
    BY DEF InWorker, Working, Current, Harmless, Puts, Takes, Right, dbVars
<1>2. CASE dropped' = TRUE /\ UNCHANGED dbChan
    BY <1>1, <1>2, InOrderNext DEF InChan
<1> DEFINE j == [gone |-> gone, path |-> path, type |-> type]
<1>a. j \in Job /\ j.gone = gone /\ j.path = path
    BY DEF Job
<1>b. emitEvent(gone, path, type) =>
         \/ dropped' = TRUE /\ UNCHANGED dbChan
         \/ Len(dbChan) < Capacity /\ dbChan' = Append(dbChan, j) /\ UNCHANGED dropped
    BY DEF emitEvent
<1> HIDE DEF j
<1>3. CASE Len(dbChan) < Capacity /\ dbChan' = Append(dbChan, j) /\ UNCHANGED dropped
    <2>0. dbChan \in Seq(Job)
        BY DEF TypeOK
    <2>1. /\ j \in Puts(p) => Settled(dbChan', Puts(p), Takes(p))
          /\ j \notin Takes(p) => (Settled(dbChan, Puts(p), Takes(p)) => Settled(dbChan', Puts(p), Takes(p)))
          /\ j \notin Takes(p) => (Without(dbChan, Takes(p)) => Without(dbChan', Takes(p)))
        BY <1>a, <1>3, <2>0, SettledAppend
    <2>2. (~gone /\ path = p => j \in Puts(p)) /\ (j \in Takes(p) => gone /\ path \in {p, PathOf(p[1])})
        BY <1>a DEF Puts, Takes
    <2> QED
        BY <1>1, <1>3, <2>1, <2>2, InOrderNext DEF InChan
<1> QED
    BY <1>b, <1>2, <1>3

(* The report that is handled was the last to settle the matter or did not *)
(* count, for a file and for a directory.                                  *)
LEMMA TailOrder ==
    ASSUME inotify \in Seq(KernelReports), inotify # <<>>, NEW p, InOrder(p)
    PROVE  \/ Settled(Tail(inotify), Fixes(p), Spoilers(p))
           \/ /\ Without(Tail(inotify), Spoilers(p))
              /\ \/ Head(inotify) \in Fixes(p)
                 \/ (Scanned(p) \/ InChan(p)) /\ Head(inotify) \notin Spoilers(p)
BY SettledTail DEF InOrder

LEMMA TailClean ==
    ASSUME NEW s \in Seq(KernelReports), s # <<>>, NEW F, NEW S, Clean(s, F, S)
    PROVE  /\ Settled(Tail(s), F, S) \/ Without(Tail(s), S)
           /\ Clean(Tail(s), F, S)
           /\ Head(s) \in S \ F => Settled(Tail(s), F, S)
BY SettledTail DEF Clean

(* What a new directory's files had before the directory was made is past. *)
LEMMA DirSettlesFiles ==
    ASSUME NEW s, NEW p
    PROVE  Clean(s, DirFixes(p[1]), Spoilers(p)) => Clean(s, Fixes(p), Spoilers(p))
<1>1. DirFixes(p[1]) \subseteq Fixes(p)
    BY DEF DirFixes, Fixes
<1> QED
    BY <1>1 DEF Clean, Settled

LEMMA DirsTail ==
    ASSUME TypeOK, DirsInOrder, inotify # <<>>, inotify' = Tail(inotify), UNCHANGED dirs,
           watches \subseteq watches'
    PROVE  DirsInOrder'
<1>1. inotify \in Seq(KernelReports)
    BY ReportsTyped
<1> QED
    BY <1>1, TailClean, DirsNext DEF DirsInOrder

LEMMA HandleNewDirInOrder ==
    ASSUME MonitorInv, OrderInv, HandleNewDir
    PROVE  OrderInv'
<1> PICK d \in Dirs : d \in dirs /\ d = Head(inotify).path[2]
    BY DEF HandleNewDir, IsDir, MonitorInv, TypeOK
<1>1. /\ TypeOK /\ inotify \in Seq(KernelReports) /\ inotify # <<>> /\ inotify' = Tail(inotify)
      /\ Head(inotify) \in KernelReports
    BY ReportsTyped, HeadTailProperties DEF MonitorInv, HandleNewDir, Next1, Handles
<1>2. /\ scan = None /\ scan' = d /\ left' = None
      /\ UNCHANGED <<stage, job, kids, uuid, overlap, dropped, disk, dirs, touched, dbChan, dbVars>>
      /\ watches \subseteq watches' /\ watches' \subseteq watches \union {d}
    BY DEF HandleNewDir, Next1, Handles, watchRecursive, diskVars, workerVars
<1>3. Head(inotify).path = PathOf(d)
    <2>1. /\ Head(inotify).path \in Spots
          /\ Head(inotify).path[2] = d
        BY <1>1 DEF KernelReports
    <2>2. Head(inotify).path \notin Paths
        BY <2>1, PathFacts
    <2>3. PICK e \in Dirs : Head(inotify).path = PathOf(e)
        BY <2>1, <2>2 DEF Spots
    <2> QED
        BY <2>1, <2>3, PathFacts
<1>4. FilesInOrder'
    <2> SUFFICES ASSUME ~overlap, ~dropped, NEW p \in touched, p[1] \in watches' PROVE InOrder(p)'
        BY <1>2 DEF FilesInOrder
    <2>1. p \in Paths
        BY <1>1, TouchedTypes
    <2>2. CASE p[1] = d
        <3>1. Scanned(p)'
            BY <1>2, <2>2 DEF Scanned
        <3>2. Settled(Tail(inotify), Fixes(p), Spoilers(p)) \/ Without(Tail(inotify), Spoilers(p))
            <4>1. CASE d \in watches
                BY <1>1, <2>2, <4>1, TailOrder DEF OrderInv, FilesInOrder
            <4>2. CASE d \notin watches
                BY <1>1, <2>1, <2>2, <4>2, TailClean, DirSettlesFiles DEF OrderInv, DirsInOrder
            <4> QED
                BY <4>1, <4>2
        <3> QED
            BY <1>1, <3>1, <3>2, InOrderNext
    <2>3. CASE p[1] # d
        <3>1. InOrder(p) /\ ~Scanned(p)
            BY <1>2, <2>1, <2>3, ConcernFacts DEF OrderInv, FilesInOrder, Scanned
        <3>2. Head(inotify) \notin Fixes(p)
            BY <1>3, <2>1, <2>3, PathFacts, ConcernFacts DEF Fixes
        <3>3. InChan(p) => InChan(p)'
            BY <1>2, InOrderNext DEF InChan, InWorker, Working, Current, Harmless, Puts, Takes, Right, dbVars
        <3> QED
            BY <1>1, <3>1, <3>2, <3>3, TailOrder, InOrderNext
    <2> QED
        BY <2>2, <2>3
<1>5. DirsInOrder'
    BY <1>1, <1>2, DirsTail DEF OrderInv
<1>6. FilesInDirs'
    BY <1>2 DEF OrderInv, FilesInDirs
<1> QED
    BY <1>2, <1>4, <1>5, <1>6, WorkersSame DEF OrderInv

LEMMA ReadDirInOrder ==
    ASSUME MonitorInv, OrderInv, ReadDir
    PROVE  OrderInv'
<1>1. /\ left = None /\ left' = Listed(scan)
      /\ UNCHANGED <<stage, job, kids, uuid, overlap, dropped, disk, dirs, touched, dbChan, dbVars,
                     inotify, watches, scan>>
      /\ TypeOK
    BY DEF ReadDir, diskVars, watchVars, workerVars, MonitorInv
<1>2. FilesInOrder'
    <2> SUFFICES ASSUME ~overlap, ~dropped, NEW p \in touched, p[1] \in watches PROVE InOrder(p)'
        BY <1>1 DEF FilesInOrder
    <2>1. /\ p \in Paths /\ disk[p] # None /\ p = <<p[1], p[2]>> /\ p[2] \in Names /\ InOrder(p)
        BY <1>1, TouchedTypes DEF OrderInv, FilesInOrder
    <2>2. Scanned(p) => Scanned(p)'
        BY <1>1, <2>1 DEF Scanned, Listed, Exists
    <2>3. InChan(p) => InChan(p)'
        BY <1>1, InOrderNext DEF InChan, InWorker, Working, Current, Harmless, Puts, Takes, Right, dbVars
    <2> QED
        BY <1>1, <2>1, <2>2, <2>3, InOrderNext DEF InOrder
<1>3. DirsInOrder' /\ FilesInDirs'
    BY <1>1, DirsNext DEF OrderInv, DirsInOrder, FilesInDirs
<1> QED
    BY <1>1, <1>2, <1>3, WorkersSame DEF OrderInv

(* A tag makes no file.                                                    *)
LEMMA NothingMade ==
    ASSUME TypeOK, NEW s \in Spots, EnsureFileID(s)
    PROVE  \A p \in Paths : disk'[p] # None => disk[p] # None
<1> SUFFICES ASSUME NEW p \in Paths, disk[p] = None PROVE disk'[p] = None
    OBVIOUS
<1>1. CASE p = s
    BY <1>1 DEF EnsureFileID, TagFails, Tagged, Exists
<1>2. CASE p # s
    BY <1>2, TagKeeps
<1> QED
    BY <1>1, <1>2

LEMMA ScanFileInOrder ==
    ASSUME MonitorInv, OrderInv, ScanFile
    PROVE  OrderInv'
<1> PICK n \in left :
          /\ left' = left \ {n}
          /\ EnsureFileID(<<scan, n>>)
          /\ emitEvent(FALSE, <<scan, n>>, "file")
    BY DEF ScanFile
<1> PICK s : s = <<scan, n>>
    OBVIOUS
<1>1. /\ TypeOK /\ s \in Paths /\ s \in Spots
      /\ UNCHANGED <<stage, job, kids, uuid, overlap, dirs, dbVars, inotify, watches, scan>>
    BY DEF ScanFile, MonitorInv, TypeOK, Paths, Places, Spots, watchVars, workerVars
<1>2. EnsureFileID(s) /\ emitEvent(FALSE, s, "file") /\ left' = left \ {n} /\ left # None
    BY DEF ScanFile
<1>3. dropped => dropped'
    BY <1>1, <1>2, EmitKeeps
<1>4. FilesInOrder'
    <2> SUFFICES ASSUME ~overlap, ~dropped', NEW p \in touched', p[1] \in watches PROVE InOrder(p)'
        BY <1>1 DEF FilesInOrder
    <2>0. p \in touched
        BY <1>1, <1>2, TagKeeps
    <2>1. p \in Paths /\ disk[p] # None /\ p = <<p[1], p[2]>> /\ InOrder(p)
        BY <1>1, <1>3, <2>0, TouchedTypes DEF OrderInv, FilesInOrder
    <2>2. CASE p = s
        <3>1. InChan(p)'
            BY <1>1, <1>2, <2>1, <2>2, TagKeeps, EmitKeeps
        <3> QED
            BY <1>1, <2>1, <3>1, InOrderNext DEF InOrder
    <2>3. CASE p # s
        <3>1. disk'[p] = disk[p]
            BY <1>1, <1>2, <2>1, <2>3, TagKeeps
        <3>2. Scanned(p) => Scanned(p)'
            BY <1>1, <1>2, <2>1, <2>3 DEF Scanned
        <3>3. InChan(p) => InChan(p)'
            BY <1>1, <1>2, <3>1, EmitKeeps
        <3> QED
            BY <1>1, <2>1, <3>2, <3>3, InOrderNext DEF InOrder
    <2> QED
        BY <2>2, <2>3
<1>5. DirsInOrder'
    BY <1>1, DirsNext DEF OrderInv, DirsInOrder
<1>6. FilesInDirs'
    <2>1. \A p \in Paths : disk'[p] # None => disk[p] # None
        BY <1>1, <1>2, NothingMade
    <2> QED
        BY <1>1, <2>1 DEF OrderInv, FilesInDirs
<1> QED
    BY <1>1, <1>4, <1>5, <1>6, WorkersSame DEF OrderInv

LEMMA ScanDoneInOrder ==
    ASSUME MonitorInv, OrderInv, ScanDone
    PROVE  OrderInv'
<1>1. /\ TypeOK /\ left = {} /\ None # {} /\ PathOf(scan) \in Spots /\ emitEvent(FALSE, PathOf(scan), "folder")
      /\ UNCHANGED <<stage, job, kids, uuid, overlap, disk, dirs, touched, dbVars, inotify, watches>>
    BY PathFacts DEF ScanDone, MonitorInv, TypeOK, Spots, diskVars, watchVars, workerVars
<1>2. dropped => dropped'
    BY <1>1, EmitKeeps
<1>3. FilesInOrder'
    <2> SUFFICES ASSUME ~overlap, ~dropped', NEW p \in touched, p[1] \in watches PROVE InOrder(p)'
        BY <1>1 DEF FilesInOrder
    <2>1. InOrder(p) /\ ~Scanned(p)
        BY <1>1, <1>2 DEF OrderInv, FilesInOrder, Scanned
    <2>2. InChan(p) => InChan(p)'
        BY <1>1, EmitKeeps
    <2> QED
        BY <1>1, <2>1, <2>2, InOrderNext DEF InOrder
<1>4. DirsInOrder' /\ FilesInDirs'
    BY <1>1, DirsNext DEF OrderInv, DirsInOrder, FilesInDirs
<1> QED
    BY <1>1, <1>3, <1>4, WorkersSame DEF OrderInv

LEMMA HandleFileInOrder ==
    ASSUME MonitorInv, OrderInv, HandleFile
    PROVE  OrderInv'
<1> PICK s : s = Head(inotify).path
    OBVIOUS
<1>1. /\ TypeOK /\ inotify \in Seq(KernelReports) /\ inotify # <<>> /\ inotify' = Tail(inotify)
      /\ Head(inotify) \in KernelReports /\ s \in Spots
    <2>1. /\ TypeOK /\ inotify \in Seq(KernelReports) /\ inotify # <<>> /\ inotify' = Tail(inotify)
        BY ReportsTyped DEF MonitorInv, HandleFile, Next1, Handles
    <2>2. Head(inotify) \in KernelReports
        BY <2>1, HeadTailProperties
    <2> QED
        BY <2>1, <2>2 DEF KernelReports
<1>2. /\ UNCHANGED <<stage, job, kids, uuid, overlap, dirs, dbVars, watches, scan, left>>
      /\ scan = None /\ ~(IsDir(s) /\ Head(inotify).op = "create")
      /\ EnsureFileID(s) /\ emitEvent(FALSE, s, "file")
      /\ Head(inotify).op \in {"create", "write"}
    BY DEF HandleFile, Next1, Handles, watchVars, loopVars, workerVars
<1>3. dropped => dropped'
    BY <1>1, <1>2, EmitKeeps
<1>4. FilesInOrder'
    <2> SUFFICES ASSUME ~overlap, ~dropped', NEW p \in touched', p[1] \in watches PROVE InOrder(p)'
        BY <1>2 DEF FilesInOrder
    <2>0. p \in touched
        BY <1>1, <1>2, TagKeeps
    <2>1. p \in Paths /\ disk[p] # None /\ InOrder(p) /\ ~Scanned(p)
        BY <1>1, <1>2, <1>3, <2>0, TouchedTypes, ConcernFacts DEF OrderInv, FilesInOrder, Scanned
    <2>2. CASE Head(inotify) \in Fixes(p)
        <3>1. s = p
            <4>1. s = p \/ (Head(inotify).op = "create" /\ s = PathOf(p[1]))
                BY <2>2 DEF Fixes
            <4>2. s = PathOf(p[1]) => IsDir(s)
                <5>1. p[1] \in dirs \union {Root}
                    BY <2>1 DEF OrderInv, FilesInDirs
                <5>2. s = PathOf(p[1]) => p[1] \in Dirs
                    BY <1>1, <2>1, ConcernFacts
                <5> QED
                    BY <5>1, <5>2, PathFacts, ConcernFacts DEF IsDir
            <4> QED
                BY <1>2, <4>1, <4>2
        <3>2. InChan(p)'
            BY <1>1, <1>2, <2>1, <3>1, TagKeeps, EmitKeeps
        <3>3. Settled(Tail(inotify), Fixes(p), Spoilers(p)) \/ Without(Tail(inotify), Spoilers(p))
            BY <1>1, <2>1, TailOrder
        <3> QED
            BY <1>1, <3>2, <3>3, InOrderNext
    <2>3. CASE Head(inotify) \notin Fixes(p)
        <3>1. p # s
            BY <1>1, <1>2, <2>3 DEF Fixes
        <3>2. disk'[p] = disk[p]
            BY <1>1, <1>2, <2>1, <3>1, TagKeeps
        <3>3. InChan(p) => InChan(p)'
            BY <1>1, <1>2, <3>2, EmitKeeps
        <3> QED
            BY <1>1, <2>1, <2>3, <3>3, TailOrder, InOrderNext
    <2> QED
        BY <2>2, <2>3
<1>5. DirsInOrder'
    BY <1>1, <1>2, DirsTail DEF OrderInv
<1>6. FilesInDirs'
    <2>1. \A p \in Paths : disk'[p] # None => disk[p] # None
        BY <1>1, <1>2, NothingMade
    <2> QED
        BY <1>2, <2>1 DEF OrderInv, FilesInDirs
<1> QED
    BY <1>2, <1>4, <1>5, <1>6, WorkersSame DEF OrderInv

LEMMA SkipInOrder ==
    ASSUME MonitorInv, OrderInv, Skip
    PROVE  OrderInv'
<1>1. /\ TypeOK /\ inotify \in Seq(KernelReports) /\ inotify # <<>> /\ inotify' = Tail(inotify)
      /\ Head(inotify).op \in {"skip"}
      /\ UNCHANGED <<Beyond, disk, overlap, dropped, dirs, touched, watches>>
    BY ReportsTyped DEF MonitorInv, Skip, Next1, Handles, diskVars, watchVars, loopVars, workerVars,
       dbVars, Beyond
<1>2. \A p : Head(inotify) \notin Fixes(p)
    BY <1>1 DEF Fixes
<1>3. FilesInOrder'
    <2> SUFFICES ASSUME ~overlap, ~dropped, NEW p \in touched, p[1] \in watches PROVE InOrder(p)'
        BY <1>1 DEF FilesInOrder
    <2>1. InOrder(p)
        BY DEF OrderInv, FilesInOrder
    <2> QED
        BY <1>1, <1>2, <2>1, BeyondKept, TailOrder, InOrderNext
<1>4. DirsInOrder'
    BY <1>1, DirsTail DEF OrderInv
<1>5. OneAtATime' /\ KidsInTurn' /\ FilesInDirs'
    BY <1>1, WorkersSame DEF OrderInv, FilesInDirs, Beyond
<1> QED
    BY <1>3, <1>4, <1>5 DEF OrderInv

(* The reports that are left after one that something is gone: those that  *)
(* are marked were about files in the directory whose watch is given up.   *)
LEMMA HandleGoneInOrder ==
    ASSUME MonitorInv, OrderInv, HandleGone
    PROVE  OrderInv'
<1> PICK s : s = Head(inotify).path
    OBVIOUS
<1>1. /\ TypeOK /\ inotify \in Seq(KernelReports) /\ inotify # <<>>
      /\ Head(inotify) \in KernelReports /\ s \in Spots /\ Head(inotify).op \in {"remove", "rename"}
    <2>1. /\ TypeOK /\ inotify \in Seq(KernelReports) /\ inotify # <<>>
          /\ Head(inotify).op \in {"remove", "rename"}
        BY ReportsTyped DEF MonitorInv, HandleGone, Handles
    <2>2. Head(inotify) \in KernelReports
        BY <2>1, HeadTailProperties
    <2> QED
        BY <2>1, <2>2 DEF KernelReports
<1> PICK type \in {"file", "folder"} : emitEvent(TRUE, s, type)
    BY DEF HandleGone
<1>2. UNCHANGED <<stage, job, kids, uuid, overlap, disk, dirs, touched, dbVars, scan, left>> /\ scan = None
    BY DEF HandleGone, Handles, diskVars, loopVars, workerVars
<1> PICK t \in Seq(KernelReports) : t = Tail(inotify)
    BY <1>1, HeadTailProperties
<1> PICK u : u = IF IsDir(s) THEN s[2] ELSE None
    OBVIOUS
<1>3. /\ u = None \/ (u \in dirs /\ u \in Dirs /\ s = PathOf(u))
      /\ watches' = watches \ {u} /\ Len(inotify') = Len(t) /\ Len(t) \in Nat
      /\ \A i \in 1..Len(t) : /\ t[i].path[1] # u => inotify'[i] = t[i]
                              /\ t[i].path[1] = u => inotify'[i].op \in {"skip"}
    <2>1. CASE IsDir(s)
        <3>1. u = s[2] /\ u \in dirs /\ u \in Dirs /\ u # None
            BY <1>1, <2>1, PathFacts DEF IsDir, TypeOK, Uuids
        <3>2. s = PathOf(u)
            BY <1>1, <3>1, PathFacts DEF Spots
        <3>3. unwatchInternal(u)
            BY <2>1, <3>1 DEF HandleGone
        <3>4. watches' = watches \ {u}
            BY <3>3 DEF unwatchInternal
        <3>5. \A i \in 1..Len(t) : t[i] \in KernelReports
            BY ElementOfSeq
        <3>6. \A r \in KernelReports : [r EXCEPT !.op = "skip"].op \in {"skip"}
            BY DEF KernelReports
        <3>7. /\ Len(inotify') = Len(t) /\ Len(t) \in Nat
              /\ \A i \in 1..Len(t) : /\ t[i].path[1] # u => inotify'[i] = t[i]
                                      /\ t[i].path[1] = u => inotify'[i] = [t[i] EXCEPT !.op = "skip"]
            BY <1>1, <3>1, <3>3, WatchGivenUp
        <3> QED
            BY <3>1, <3>2, <3>4, <3>5, <3>6, <3>7
    <2>2. CASE ~IsDir(s)
        <3>1. u = None /\ inotify' = t /\ watches' = watches
            BY <2>2 DEF HandleGone, watchVars
        <3>2. None \notin watches
            BY <1>1, PathFacts DEF TypeOK
        <3>3. \A i \in 1..Len(t) : t[i].path[1] # None
            <4>1. \A r \in Spots : r[1] # None
                BY PathFacts DEF Spots, Places
            <4>2. \A i \in 1..Len(t) : t[i] \in KernelReports
                BY ElementOfSeq
            <4> QED
                BY <4>1, <4>2 DEF KernelReports
        <3>4. Len(t) \in Nat
            BY LenProperties
        <3>5. watches' = watches \ {u}
            BY <3>1, <3>2
        <3>6. u = None /\ inotify' = t
            BY <3>1
        <3> QED
            BY <3>3, <3>4, <3>5, <3>6
    <2> QED
        BY <2>1, <2>2
<1>4. \A F, S, R : (\A i \in 1..Len(t) : /\ t[i] \in F => t[i].path[1] # u
                                         /\ t[i] \in R => t[i] \in S \/ t[i].path[1] = u)
                   /\ (\A r \in R : r.op \in {"remove", "rename"})
          => (Settled(t, F, S) => Settled(inotify', F, R)) /\ (Without(t, S) => Without(inotify', R))
    <2> TAKE F, S, R
    <2> HAVE (\A i \in 1..Len(t) : /\ t[i] \in F => t[i].path[1] # u
                                   /\ t[i] \in R => t[i] \in S \/ t[i].path[1] = u)
             /\ (\A r \in R : r.op \in {"remove", "rename"})
    <2>1. \A i \in 1..Len(t) : (t[i] \in F => inotify'[i] \in F) /\ (inotify'[i] \in R => t[i] \in S)
        BY <1>3
    <2>2. Len(t) \in Nat /\ Len(inotify') = Len(t)
        BY <1>3
    <2>3. ASSUME NEW k \in 1..Len(t), t[k] \in F, \A j \in k + 1..Len(t) : t[j] \notin S
          PROVE  Settled(inotify', F, R)
        <3>1. \A j \in k + 1..Len(t) : j \in 1..Len(t)
            BY <2>2
        <3> QED
            BY <2>1, <2>2, <2>3, <3>1 DEF Settled
    <2> QED
        BY <2>1, <2>2, <2>3 DEF Settled, Without
<1>5. /\ \A p : (\A r \in Spoilers(p) : r.op \in {"remove", "rename"})
                /\ (\A r \in DirSpoilers(p) : r.op \in {"remove", "rename"})
      /\ u # Root
      /\ \A d : \A r \in DirFixes(d) : r.path[1] # u
      /\ \A p \in Paths : p[1] # u => \A r \in Fixes(p) : r.path[1] # u
    <2>1. u # Root
        BY <1>3, ConcernFacts, PathFacts DEF Places
    <2>2. \A d : PathOf(d)[1] = Root
        BY DEF PathOf
    <2> QED
        BY <2>1, <2>2 DEF Spoilers, DirSpoilers, DirFixes, Fixes
<1>6. FilesInOrder'
    <2> SUFFICES ASSUME ~overlap, ~dropped', NEW p \in touched, p[1] \in watches' PROVE InOrder(p)'
        BY <1>2 DEF FilesInOrder
    <2>1. p \in Paths /\ InOrder(p) /\ ~Scanned(p) /\ p[1] # u
        BY <1>1, <1>2, <1>3, EmitKeeps, TouchedTypes, ConcernFacts DEF OrderInv, FilesInOrder, Scanned
    <2>2. /\ Settled(t, Fixes(p), Spoilers(p)) => Settled(inotify', Fixes(p), Spoilers(p))
          /\ Without(t, Spoilers(p)) => Without(inotify', Spoilers(p))
        BY <1>4, <1>5, <2>1
    <2>3. Head(inotify) \notin Fixes(p) /\ (s \in {p, PathOf(p[1])} => Head(inotify) \in Spoilers(p))
        BY <1>1 DEF Fixes, Spoilers
    <2>4. InChan(p) /\ Head(inotify) \notin Spoilers(p) => InChan(p)'
        BY <1>1, <1>2, <2>3, EmitKeeps
    <2> QED
        BY <1>1, <2>1, <2>2, <2>3, <2>4, TailOrder, InOrderNext
<1>7. DirsInOrder'
    <2> SUFFICES ASSUME NEW d \in dirs
                 PROVE  /\ Clean(inotify', DirFixes(d), DirSpoilers(d))
                        /\ d \notin watches' =>
                              \A p \in Paths : p[1] = d => Clean(inotify', DirFixes(d), Spoilers(p))
        BY <1>2, DirsNext
    <2>1. d \in Dirs /\ Clean(inotify, DirFixes(d), DirSpoilers(d)) /\ Clean(t, DirFixes(d), DirSpoilers(d))
        BY <1>1, TailClean DEF OrderInv, DirsInOrder, TypeOK
    <2>2. Clean(inotify', DirFixes(d), DirSpoilers(d))
        BY <1>4, <1>5, <2>1 DEF Clean
    <2>3. ASSUME d \notin watches', NEW p \in Paths, p[1] = d
          PROVE  Clean(inotify', DirFixes(d), Spoilers(p))
        <3>1. CASE d = u
            <4>1. Head(inotify) \in DirSpoilers(d) \ DirFixes(d)
                BY <1>1, <1>3, <2>1, <3>1, PathFacts DEF DirSpoilers, DirFixes, Uuids
            <4>2. Settled(t, DirFixes(d), DirSpoilers(d))
                BY <1>1, <2>1, <4>1, TailClean
            <4>3. \A r \in Spoilers(p) : r \in DirSpoilers(d) \/ r.path[1] = u
                BY <2>3, <3>1 DEF Spoilers, DirSpoilers
            <4> QED
                BY <1>4, <1>5, <4>2, <4>3 DEF Clean
        <3>2. CASE d # u
            <4>1. Clean(inotify, DirFixes(d), Spoilers(p))
                BY <1>3, <2>3, <3>2 DEF OrderInv, DirsInOrder
            <4>2. Clean(t, DirFixes(d), Spoilers(p))
                BY <1>1, <4>1, TailClean
            <4> QED
                BY <1>4, <1>5, <4>2 DEF Clean
        <3> QED
            BY <3>1, <3>2
    <2> QED
        BY <2>2, <2>3
<1>8. FilesInDirs'
    BY <1>2, <1>3, <1>5 DEF OrderInv, FilesInDirs
<1> QED
    BY <1>2, <1>6, <1>7, <1>8, WorkersSame DEF OrderInv

(***************************************************************************)
(* The database workers.                                                   *)
(***************************************************************************)
LEMMA TakeInOrder ==
    ASSUME MonitorInv, OrderInv, NEW w \in Workers, Take(w)
    PROVE  OrderInv'
<1> PICK j \in Job : j = Head(dbChan)
    BY JobTaken DEF MonitorInv, WorkInv, Take
<1>1. /\ TypeOK /\ dbChan \in Seq(Job) /\ dbChan # <<>> /\ dbChan' = Tail(dbChan)
      /\ stage[w] = "idle" /\ kids[w] = {}
      /\ UNCHANGED <<kids, uuid, dbVars, disk, dirs, touched, watches, inotify, scan, left, dropped>>
      /\ overlap' = (overlap \/ \E v \in Workers : stage[v] # "idle")
    BY DEF MonitorInv, TypeOK, OrderInv, KidsInTurn, Take, WorkerRest, At, diskVars, watchVars, loopVars
<1>2. /\ stage'[w] = IF j.gone THEN "children" ELSE "id"
      /\ job'[w] = j
      /\ \A v \in Workers \ {w} : stage'[v] = stage[v] /\ job'[v] = job[v]
    BY <1>1 DEF Take, Goes, TypeOK
<1>3. FilesInOrder'
    <2> SUFFICES ASSUME ~overlap', ~dropped, NEW p \in touched, p[1] \in watches PROVE InOrder(p)'
        BY <1>1 DEF FilesInOrder
    <2>1. InOrder(p) /\ \A v \in Workers : stage[v] = "idle"
        BY <1>1 DEF OrderInv, FilesInOrder
    <2>2. Scanned(p) => Scanned(p)'
        BY <1>1 DEF Scanned
    <2>3. ASSUME InChan(p) PROVE InChan(p)'
        <3>1. disk'[p] \in Ids
            BY <1>1, <2>3 DEF InChan
        <3>2. CASE Settled(Tail(dbChan), Puts(p), Takes(p))
            BY <1>1, <3>1, <3>2, InOrderNext
        <3>3. CASE j \in Puts(p) /\ Without(Tail(dbChan), Takes(p))
            <4>1. Working(w, p)'
                BY <1>2, <3>3 DEF Working, Puts
            <4> QED
                BY <1>1, <3>1, <3>3, <4>1, InOrderNext DEF InWorker
        <3>4. CASE InWorker(p) /\ Without(Tail(dbChan), Takes(p)) /\ j \notin Takes(p)
            <4>1. Current(p) /\ \A v \in Workers : Harmless(v, p)
                BY <2>1, <3>4 DEF InWorker, Working
            <4>2. Current(p)'
                BY <1>1, <4>1 DEF Current, dbVars
            <4>3. \A v \in Workers : Harmless(v, p)'
                <5> TAKE v \in Workers
                <5>1. CASE v = w
                    BY <1>1, <1>2, <3>4, <4>1, <5>1 DEF Harmless, Takes, dbVars
                <5>2. CASE v # w
                    BY <1>1, <1>2, <2>1, <4>1, <5>2 DEF Harmless, dbVars
                <5> QED
                    BY <5>1, <5>2
            <4> QED
                BY <1>1, <3>1, <3>4, <4>2, <4>3, InOrderNext DEF InWorker
        <3> QED
            BY <1>1, <2>3, <3>2, <3>3, <3>4, SettledTail DEF InChan
    <2> QED
        BY <1>1, <2>1, <2>2, <2>3, InOrderNext DEF InOrder
<1>4. DirsInOrder' /\ FilesInDirs'
    BY <1>1, DirsNext DEF OrderInv, DirsInOrder, FilesInDirs
<1>5. OneAtATime'
    BY <1>1, <1>2 DEF OneAtATime
<1>6. KidsInTurn'
    BY <1>1, <1>2 DEF OrderInv, KidsInTurn
<1> QED
    BY <1>3, <1>4, <1>5, <1>6 DEF OrderInv

(* As no other worker is at work, it is enough that the one that takes a   *)
(* step leaves the row right or brings it nearer to that.                  *)
LEMMA StepInOrder ==
    ASSUME MonitorInv, OrderInv, touched' \subseteq touched,
           UNCHANGED <<dbChan, overlap, disk, dirs, watches, inotify, scan, left, dropped>>,
           NEW w \in Workers, stage[w] # "idle", Others(w),
           stage'[w] \notin {"child", "childrow"} => kids'[w] = {},
           stage'[w] \in {"children", "child", "childrow"} => job'[w].gone,
           \A p \in Paths : disk[p] \in Ids /\ p \in touched' =>
              (Working(w, p) \/ (Current(p) /\ Harmless(w, p)) =>
                 Working(w, p)' \/ (Current(p)' /\ Harmless(w, p)'))
    PROVE  OrderInv'
<1>1. TypeOK
    BY DEF MonitorInv
<1>2. KidsInTurn'
    BY DEF OrderInv, KidsInTurn, Others
<1>3. OneAtATime'
    <2>1. \A v \in Workers : stage'[v] # "idle" => stage[v] # "idle"
        BY DEF Others
    <2> QED
        BY <2>1 DEF OrderInv, OneAtATime
<1>4. FilesInOrder'
    <2> SUFFICES ASSUME ~overlap, ~dropped, NEW p \in touched', p[1] \in watches PROVE InOrder(p)'
        BY <1>1 DEF FilesInOrder
    <2>1. InOrder(p) /\ p \in Paths
        BY <1>1, TouchedTypes DEF OrderInv, FilesInOrder
    <2>2. \A v \in Workers \ {w} : stage[v] = "idle" /\ kids[v] = {}
        BY DEF OrderInv, OneAtATime, KidsInTurn
    <2>3. \A v \in Workers \ {w} : Harmless(v, p)' /\ ~Working(v, p)
        BY <2>2 DEF Harmless, Working, Others
    <2>4. ASSUME InWorker(p), disk[p] \in Ids PROVE InWorker(p)'
        <3>1. Working(w, p) \/ (Current(p) /\ Harmless(w, p))
            BY <2>3, <2>4 DEF InWorker
        <3>2. Working(w, p)' \/ (Current(p)' /\ Harmless(w, p)')
            BY <2>1, <2>4, <3>1
        <3> QED
            BY <2>3, <3>2 DEF InWorker
    <2>5. Scanned(p) => Scanned(p)'
        BY <1>1 DEF Scanned
    <2>6. InChan(p) => InChan(p)'
        BY <1>1, <2>4, InOrderNext DEF InChan
    <2> QED
        BY <1>1, <2>1, <2>5, <2>6, InOrderNext DEF InOrder
<1>5. DirsInOrder' /\ FilesInDirs'
    BY <1>1, DirsNext DEF OrderInv, DirsInOrder, FilesInDirs
<1> QED
    BY <1>2, <1>3, <1>4, <1>5 DEF OrderInv

LEMMA FindChildrenInOrder ==
    ASSUME MonitorInv, OrderInv, NEW w \in Workers, FindChildren(w)
    PROVE  OrderInv'
<1>1. /\ WorkerRest /\ UNCHANGED <<dbChan, overlap, job, uuid, rows, logged, cut>>
      /\ stage[w] = "children" /\ stage'[w] = "child" /\ Others(w)
      /\ kids'[w] = {i \in Uuids : rows[i] # NoRow /\ Below(job[w].path, rows[i].path)}
      /\ struck' = struck \union {i \in kids'[w] : ~Inside(job[w].path, rows[i].path)}
    BY DEF MonitorInv, TypeOK, FindChildren, At, Goes, Others
<1>2. job[w] \in Job /\ job[w].gone
    BY <1>1 DEF MonitorInv, WorkInv, Fits, OrderInv, KidsInTurn
<1>3. ASSUME NEW p \in Paths, disk[p] \in Ids, Current(p), Harmless(w, p)
      PROVE  Current(p)' /\ Harmless(w, p)'
    <2>1. job[w] \notin Takes(p) /\ ~Inside(job[w].path, p) /\ disk' = disk
        BY <1>1, <1>2, <1>3 DEF Harmless, Takes, Inside, WorkerRest, diskVars
    <2>2. disk[p] \in kids'[w] => disk[p] \in struck' \union cut
        BY <1>1, <1>3, <2>1 DEF Current
    <2>3. Current(p)'
        BY <1>1, <1>3, <2>1 DEF Current
    <2> QED
        BY <1>1, <2>1, <2>2, <2>3 DEF Harmless, Takes
<1>4. \A p : ~Working(w, p)
    BY <1>1 DEF Working
<1> QED
    BY <1>1, <1>2, <1>3, <1>4, StepInOrder DEF WorkerRest, diskVars, watchVars, loopVars

LEMMA LogChildInOrder ==
    ASSUME MonitorInv, OrderInv, NEW w \in Workers, LogChild(w)
    PROVE  OrderInv'
<1> PICK i \in kids[w] : /\ kids' = [kids EXCEPT ![w] = @ \ {i}]
                         /\ logged' = [logged EXCEPT ![i] = "gone"]
                         /\ uuid' = [uuid EXCEPT ![w] = i]
    BY DEF LogChild
<1>1. /\ WorkerRest /\ UNCHANGED <<dbChan, overlap, job, rows, cut, struck>>
      /\ stage[w] = "child" /\ stage'[w] = "childrow" /\ Others(w)
      /\ kids'[w] = kids[w] \ {i} /\ uuid'[w] = i /\ \A k \in Uuids \ {i} : logged'[k] = logged[k]
    BY DEF MonitorInv, TypeOK, LogChild, At, Goes, Others
<1>2. job[w] \in Job /\ job[w].gone
    BY <1>1 DEF MonitorInv, WorkInv, Fits, OrderInv, KidsInTurn
<1>3. ASSUME NEW p \in Paths, disk[p] \in Ids, Current(p), Harmless(w, p)
      PROVE  Current(p)' /\ Harmless(w, p)'
    <2>1. disk[p] = i => disk[p] \in struck \union cut
        BY <1>3 DEF Harmless
    <2>2. disk' = disk /\ disk[p] \in Uuids
        BY <1>1, <1>3 DEF WorkerRest, diskVars, Uuids
    <2>3. Current(p)'
        BY <1>1, <1>3, <2>1, <2>2 DEF Current
    <2> QED
        BY <1>1, <1>3, <2>1, <2>2, <2>3 DEF Harmless, Takes
<1>4. \A p : ~Working(w, p)
    BY <1>1 DEF Working
<1> QED
    BY <1>1, <1>2, <1>3, <1>4, StepInOrder DEF WorkerRest, diskVars, watchVars, loopVars

LEMMA RecordChildInOrder ==
    ASSUME MonitorInv, OrderInv, NEW w \in Workers, RecordChild(w)
    PROVE  OrderInv'
<1> PICK i \in Uuids : i = uuid[w]
    BY DEF RecordChild, At, MonitorInv, WorkInv, Fits
<1>1. /\ WorkerRest /\ UNCHANGED <<dbChan, overlap, job, kids, logged, cut, struck>>
      /\ stage[w] = "childrow" /\ stage'[w] = "child" /\ Others(w)
      /\ rows'[i].path = rows[i].path
      /\ \A k \in Uuids \ {i} : rows'[k] = rows[k]
    BY DEF MonitorInv, TypeOK, RecordChild, At, Goes, Others
<1>2. job[w] \in Job /\ job[w].gone
    BY <1>1 DEF MonitorInv, WorkInv, Fits, OrderInv, KidsInTurn
<1>3. ASSUME NEW p \in Paths, disk[p] \in Ids, Current(p), Harmless(w, p)
      PROVE  Current(p)' /\ Harmless(w, p)'
    <2>1. disk[p] = i => disk[p] \in struck \union cut
        BY <1>1, <1>3 DEF Harmless
    <2>2. disk' = disk /\ disk[p] \in Uuids
        BY <1>1, <1>3 DEF WorkerRest, diskVars, Uuids
    <2>3. Current(p)'
        BY <1>1, <1>3, <2>1, <2>2 DEF Current
    <2> QED
        BY <1>1, <1>3, <2>2, <2>3 DEF Harmless, Takes
<1>4. \A p : ~Working(w, p)
    BY <1>1 DEF Working
<1> QED
    BY <1>1, <1>2, <1>3, <1>4, StepInOrder DEF WorkerRest, diskVars, watchVars, loopVars

LEMMA ReadIdInOrder ==
    ASSUME MonitorInv, OrderInv, NEW w \in Workers, ReadId(w)
    PROVE  OrderInv'
<1> DEFINE path == job[w].path
           id == IF job[w].gone
                   THEN IF RowsAt(path) = {} THEN None ELSE First(RowsAt(path))
                 ELSE IF job[w].type = "folder" THEN path[2]
                 ELSE IF Exists(path) /\ disk[path] # 0 THEN disk[path] ELSE None
<1>1. /\ WorkerRest /\ UNCHANGED <<dbChan, overlap, job, kids, rows, logged, cut, struck>>
      /\ TypeOK /\ RowPlaces /\ stage[w] \in {"child", "id"} /\ (stage[w] = "id" <=> ~job[w].gone)
      /\ stage'[w] = (IF id = None THEN "idle" ELSE "update") /\ uuid'[w] = id /\ Others(w)
    BY DEF MonitorInv, TypeOK, WorkInv, Fits, ReadId, At, Goes, Others, dbVars
<1>2. job[w] \in Job /\ FolderJob(job[w]) /\ path \in Spots
    BY <1>1 DEF MonitorInv, WorkInv, Fits, Job
<1>3. kids[w] = {} /\ disk' = disk
    BY <1>1 DEF OrderInv, KidsInTurn, ReadId, WorkerRest, diskVars
<1>4. ASSUME NEW p \in Paths, disk[p] \in Ids, ~job[w].gone
      PROVE  (path = p => id = disk[p]) /\ (id = disk[p] => path = p)
    <2>1. CASE job[w].type = "folder"
        <3>1. PICK d \in Dirs : path = PathOf(d)
            BY <1>2, <1>4, <2>1 DEF FolderJob
        <3> QED
            BY <1>4, <2>1, <3>1, PathFacts
    <2>2. CASE job[w].type # "folder"
        BY <1>1, <1>4, <2>2, PathFacts DEF Exists, TypeOK, Uuids
    <2> QED
        BY <2>1, <2>2
<1>5. ASSUME NEW p \in Paths, disk[p] \in Ids, job[w].gone, id = disk[p], rows[disk[p]].path = p
      PROVE  path = p
    <2>1. id \in RowsAt(path)
        BY <1>1, <1>2, <1>5, FirstIsRow, PathFacts DEF Uuids
    <2> QED
        BY <1>5, <2>1 DEF RowsAt
<1> HIDE DEF path, id
<1>6. ASSUME NEW p \in Paths, disk[p] \in Ids
      PROVE  /\ Working(w, p) => Working(w, p)'
             /\ Current(p) /\ Harmless(w, p) => Current(p)' /\ Harmless(w, p)'
    <2>1. disk[p] # None
        BY <1>6, PathFacts DEF Uuids
    <2>2. ASSUME Working(w, p) PROVE Working(w, p)'
        <3>1. ~job[w].gone /\ path = p
            BY <2>2 DEF Working, Puts, path
        <3>2. id = disk[p]
            BY <1>4, <1>6, <3>1
        <3> QED
            BY <1>1, <1>3, <2>1, <2>2, <3>2 DEF Working, Puts
    <2>3. ASSUME Current(p), Harmless(w, p) PROVE Current(p)' /\ Harmless(w, p)'
        <3>1. Current(p)'
            BY <1>1, <1>3, <2>3 DEF Current
        <3>2. job[w] \notin Takes(p)
            BY <1>1, <2>3 DEF Harmless
        <3>3. id = disk[p] => job[w] \in Puts(p) \/ (job[w].gone /\ disk[p] \in cut)
            <4>1. CASE job[w].gone
                BY <1>2, <1>5, <1>6, <2>3, <3>2, <4>1 DEF Takes, Current, path
            <4>2. CASE ~job[w].gone
                BY <1>2, <1>4, <1>6, <4>2 DEF Puts, path
            <4> QED
                BY <4>1, <4>2
        <3> QED
            BY <1>1, <1>3, <3>1, <3>2, <3>3 DEF Harmless, Puts, Takes
    <2> QED
        BY <2>2, <2>3
<1> QED
    BY <1>1, <1>3, <1>6, StepInOrder DEF WorkerRest, diskVars, watchVars, loopVars

LEMMA SaveRowInOrder ==
    ASSUME MonitorInv, OrderInv, NEW w \in Workers, SaveRow(w)
    PROVE  OrderInv'
<1> PICK i \in Uuids : i = uuid[w]
    BY DEF SaveRow, At, MonitorInv, WorkInv, Fits
<1>1. /\ WorkerRest /\ UNCHANGED <<dbChan, overlap, job, kids, uuid, logged>>
      /\ stage[w] = "update" /\ stage'[w] = "log" /\ Others(w)
      /\ ~job[w].gone => rows'[i] = Right(job[w].path)
      /\ \A k \in Uuids \ {i} :
            /\ rows'[k] = rows[k]
            /\ (k \in cut' <=> k \in cut) /\ (k \in struck' <=> k \in struck)
      /\ job[w].gone => cut' = cut
    BY DEF MonitorInv, TypeOK, SaveRow, Written, At, Goes, Others, Right
<1>2. kids[w] = {} /\ disk' = disk
    BY <1>1 DEF OrderInv, KidsInTurn, WorkerRest, diskVars
<1>3. ASSUME NEW p \in Paths, disk[p] \in Ids
      PROVE  /\ Working(w, p) => Working(w, p)'
             /\ Current(p) /\ Harmless(w, p) => Working(w, p)' \/ (Current(p)' /\ Harmless(w, p)')
    <2>1. job[w] \in Puts(p) => ~job[w].gone /\ job[w].path = p
        BY DEF Puts
    <2>2. disk[p] \in Uuids
        BY <1>3 DEF Uuids
    <2>3. job[w] \in Puts(p) /\ i = disk[p] => Working(w, p)'
        BY <1>1, <1>2, <2>1 DEF Working, Puts, Right
    <2>4. Working(w, p) => job[w] \in Puts(p) /\ i = disk[p]
        BY <1>1 DEF Working
    <2>5. ASSUME Current(p), Harmless(w, p), i # disk[p] \/ job[w] \notin Puts(p)
          PROVE  Current(p)' /\ Harmless(w, p)'
        <3>1. i = disk[p] => job[w].gone /\ disk[p] \in cut
            BY <1>1, <2>5 DEF Harmless
        <3>2. Current(p)'
            BY <1>1, <1>2, <2>2, <2>5, <3>1 DEF Current
        <3>3. job[w] \notin Takes(p)
            BY <1>1, <2>5 DEF Harmless
        <3> QED
            BY <1>1, <1>2, <3>1, <3>2, <3>3 DEF Harmless, Takes
    <2> QED
        BY <2>3, <2>4, <2>5
<1> QED
    BY <1>1, <1>2, <1>3, StepInOrder DEF WorkerRest, diskVars, watchVars, loopVars

LEMMA SaveHistoryInOrder ==
    ASSUME MonitorInv, OrderInv, NEW w \in Workers, SaveHistory(w)
    PROVE  OrderInv'
<1> PICK i \in Uuids : i = uuid[w]
    BY DEF SaveHistory, At, MonitorInv, WorkInv, Fits
<1>1. /\ WorkerRest /\ UNCHANGED <<dbChan, overlap, job, kids, rows, cut, struck>>
      /\ stage[w] = "log" /\ stage'[w] = "idle" /\ Others(w)
      /\ ~job[w].gone => logged'[i] = "put"
      /\ \A k \in Uuids \ {i} : logged'[k] = logged[k]
    BY DEF MonitorInv, TypeOK, SaveHistory, At, Goes, Others
<1>2. kids[w] = {} /\ disk' = disk
    BY <1>1 DEF OrderInv, KidsInTurn, WorkerRest, diskVars
<1>3. ASSUME NEW p \in Paths, disk[p] \in Ids
      PROVE  /\ Working(w, p) => Current(p)' /\ Harmless(w, p)'
             /\ Current(p) /\ Harmless(w, p) => Current(p)' /\ Harmless(w, p)'
    <2>1. job[w] \in Puts(p) => ~job[w].gone
        BY DEF Puts
    <2>2. disk[p] \in Uuids
        BY <1>3 DEF Uuids
    <2>3. Harmless(w, p)'
        BY <1>1, <1>2 DEF Harmless
    <2>4. Working(w, p) => Current(p)'
        BY <1>1, <1>2, <2>1 DEF Working, Current, Right
    <2>5. Current(p) /\ Harmless(w, p) => Current(p)'
        BY <1>1, <1>2, <2>1, <2>2 DEF Current, Harmless
    <2> QED
        BY <2>3, <2>4, <2>5
<1> QED
    BY <1>1, <1>2, <1>3, StepInOrder DEF WorkerRest, diskVars, watchVars, loopVars

(* A file whose uuid, row or log entry got lost is no longer asked about.  *)
LEMMA PersistFailsInOrder ==
    ASSUME MonitorInv, OrderInv, NEW w \in Workers, PersistFails(w)
    PROVE  OrderInv'
<1>1. /\ UNCHANGED <<dirs, disk, watches, inotify, scan, left, dbChan, dropped, job, overlap,
                     rows, logged, struck>>
      /\ touched' \subseteq touched /\ cut \subseteq cut'
    BY DEF PersistFails, watchVars, loopVars
<1>2. /\ Others(w) /\ stage[w] # "idle" /\ kids'[w] \subseteq kids[w]
      /\ stage'[w] \in {"child", "childrow", "idle", "log"} /\ (stage'[w] = "log" => stage[w] = "update")
      /\ stage[w] = "id" => job[w].path \notin touched' /\ stage'[w] = "idle"
      /\ stage[w] = "update" => stage'[w] = "log" /\ uuid'[w] = uuid[w]
                                /\ (~job[w].gone => uuid[w] \in cut')
      /\ stage[w] = "log" => stage'[w] = "idle" /\ (~job[w].gone => uuid[w] \in cut')
      /\ stage[w] \in {"children", "child", "childrow"} /\ stage'[w] = "idle" => kids[w] = {}
      /\ stage[w] \notin {"children", "child", "childrow"} => stage'[w] \in {"idle", "log"}
      /\ stage'[w] = "childrow" => uuid'[w] \in kids[w]
    BY DEF MonitorInv, TypeOK, PersistFails, At, Goes, Others, Unlogged
<1>3. /\ stage'[w] \notin {"child", "childrow"} => kids'[w] = {}
      /\ stage'[w] \in {"children", "child", "childrow"} => job'[w].gone
    BY <1>1, <1>2 DEF OrderInv, KidsInTurn, MonitorInv, TypeOK
<1>4. ASSUME NEW p \in Paths, disk[p] \in Ids, p \in touched'
      PROVE  /\ Working(w, p) => Working(w, p)' \/ (Current(p)' /\ Harmless(w, p)')
             /\ Current(p) /\ Harmless(w, p) => Current(p)' /\ Harmless(w, p)'
    <2>1. job[w] \in Puts(p) => ~job[w].gone /\ job[w].path = p
        BY DEF Puts
    <2>2. ASSUME Working(w, p) PROVE Working(w, p)' \/ (Current(p)' /\ Harmless(w, p)')
        <3>1. stage[w] # "id"
            BY <1>2, <1>4, <2>1, <2>2 DEF Working
        <3>2. uuid[w] = disk[p] /\ disk[p] \in cut'
            BY <1>2, <2>1, <2>2, <3>1 DEF Working
        <3>3. CASE stage[w] = "update"
            BY <1>1, <1>2, <2>2, <3>2, <3>3 DEF Working, Puts
        <3>4. CASE stage[w] = "log"
            BY <1>1, <1>2, <1>3, <3>2, <3>4 DEF Current, Harmless
        <3> QED
            BY <2>2, <3>1, <3>3, <3>4 DEF Working
    <2>3. ASSUME Current(p), Harmless(w, p) PROVE Current(p)' /\ Harmless(w, p)'
        <3>1. Current(p)'
            BY <1>1, <2>3 DEF Current
        <3>2. job[w] \notin Takes(p)
            BY <1>2, <2>3 DEF Harmless
        <3>3. disk[p] \in kids[w] => disk[p] \in struck \union cut
            BY <2>3 DEF Harmless
        <3>4. stage'[w] \in {"update", "log"} => stage[w] = "update" /\ uuid'[w] = uuid[w]
            BY <1>2
        <3>5. stage[w] = "update" /\ uuid[w] = disk[p] =>
                 job[w] \in Puts(p) \/ (job[w].gone /\ disk[p] \in cut)
            BY <2>3 DEF Harmless
        <3>6. stage'[w] = "childrow" => uuid'[w] \in kids[w]
            BY <1>2
        <3> QED
            BY <1>1, <1>2, <3>1, <3>2, <3>3, <3>4, <3>5, <3>6 DEF Harmless, Puts, Takes
    <2> QED
        BY <2>2, <2>3
<1> QED
    BY <1>1, <1>2, <1>3, <1>4, StepInOrder

(***************************************************************************)
(* The start, restarts and the theorem.                                    *)
(***************************************************************************)
LEMMA OrderInvInit == Init => OrderInv
<1> SUFFICES ASSUME Init PROVE OrderInv
    OBVIOUS
<1>1. FilesInOrder /\ OneAtATime /\ KidsInTurn /\ FilesInDirs
    BY DEF Init, FilesInOrder, OneAtATime, KidsInTurn, FilesInDirs
<1>2. DirsInOrder
    BY EmptyClean DEF Init, DirsInOrder
<1> QED
    BY <1>1, <1>2 DEF OrderInv

LEMMA RestartInOrder ==
    ASSUME MonitorInv, OrderInv, Restart
    PROVE  OrderInv'
<1>1. /\ touched' = {} /\ inotify' = <<>> /\ dirs' = dirs /\ watches' = dirs \union {Root}
      /\ \A w \in Workers : stage'[w] = "idle" /\ kids'[w] = {}
    BY DEF Restart, Fresh
<1>2. FilesInOrder' /\ OneAtATime' /\ KidsInTurn'
    BY <1>1 DEF FilesInOrder, OneAtATime, KidsInTurn
<1>3. DirsInOrder'
    BY <1>1, EmptyClean, DirsNext
<1>4. FilesInDirs'
    <2>1. \A p \in Paths : disk'[p] # None => disk[p] # None
        BY PathFacts DEF Restart
    <2> QED
        BY <1>1, <2>1 DEF OrderInv, FilesInDirs
<1> QED
    BY <1>2, <1>3, <1>4 DEF OrderInv

LEMMA StutterInOrder ==
    ASSUME OrderInv, UNCHANGED vars
    PROVE  OrderInv'
<1>1. UNCHANGED <<Beyond, disk, overlap, dropped, dirs, touched, watches, inotify>>
    BY DEF vars, diskVars, watchVars, loopVars, workerVars, dbVars, Beyond
<1>2. FilesInOrder'
    BY <1>1, OrderKept DEF OrderInv, FilesInOrder
<1>3. DirsInOrder' /\ FilesInDirs'
    BY <1>1, DirsNext DEF OrderInv, DirsInOrder, FilesInDirs
<1> QED
    BY <1>1, <1>2, <1>3, WorkersSame DEF OrderInv, Beyond

LEMMA OrderInvNext ==
    ASSUME MonitorInv, OrderInv, [Next]_vars
    PROVE  OrderInv'
<1>1. CASE DiskChange
    BY <1>1, CreateFileInOrder, WriteFileInOrder, ChangeModeInOrder, RemoveFileInOrder, MoveFileInOrder,
       MakeDirInOrder, RemoveDirInOrder DEF DiskChange
<1>2. CASE mainLoop
    BY <1>2, HandleNewDirInOrder, ReadDirInOrder, ScanFileInOrder, ScanDoneInOrder, HandleFileInOrder,
       HandleGoneInOrder, SkipInOrder DEF mainLoop
<1>3. CASE Restart
    BY <1>3, RestartInOrder
<1>4. CASE \E w \in Workers : Take(w) \/ persistToDB(w) \/ PersistFails(w)
    BY <1>4, TakeInOrder, FindChildrenInOrder, LogChildInOrder, RecordChildInOrder, ReadIdInOrder,
       SaveRowInOrder, SaveHistoryInOrder, PersistFailsInOrder DEF persistToDB
<1>5. CASE UNCHANGED vars
    BY <1>5, StutterInOrder
<1> QED
    BY <1>1, <1>2, <1>3, <1>4, <1>5 DEF Next

(* As long as no two workers have been at work at once, the row of a file  *)
(* changed in a watched directory says, once all is worked off, where the  *)
(* file is and that it is there, and so does the log: no event about what  *)
(* was at the path or in the directory before overtakes the one about the  *)
(* file, however often it and its directory were removed and made again.   *)
(* What may be wrong is the row that could not be written, and whether the *)
(* file is there if a removed directory's pattern matched its path.        *)
THEOREM RowsInOrder == Spec => []InOrderRowsAreCurrent
<1>1. OrderInv => InOrderRowsAreCurrent
    <2> SUFFICES ASSUME OrderInv, Quiet, ~overlap, NEW p \in Paths, Obliged(p), disk[p] \in Ids \ cut
                 PROVE  /\ rows[disk[p]].path = p
                        /\ disk[p] \notin struck => ~rows[disk[p]].gone /\ logged[disk[p]] = "put"
        BY DEF InOrderRowsAreCurrent
    <2>1. InOrder(p)
        BY DEF OrderInv, FilesInOrder, Obliged
    <2>2. ~Scanned(p) /\ \A F, S : ~Settled(inotify, F, S) /\ ~Settled(dbChan, F, S)
        BY EmptyClean, ConcernFacts DEF Quiet, Scanned
    <2>3. \A w \in Workers : ~Working(w, p)
        BY DEF Quiet, At, Working
    <2>4. Current(p)
        BY <2>1, <2>2, <2>3 DEF InOrder, InChan, InWorker
    <2> QED
        BY <2>4 DEF Current
<1>2. Spec => [](MonitorInv /\ OrderInv)
    BY MonitorInvInit, MonitorInvNext, OrderInvInit, OrderInvNext, PTL DEF Spec
<1> QED
    BY <1>1, <1>2, PTL
=============================================================================
