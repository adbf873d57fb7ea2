--------------------------- MODULE FileSync_proofs ---------------------------
(***************************************************************************)
(* Proofs about the synchronisation of the file history, for any batch     *)
(* size, number of events, threads and failures.                           *)
(***************************************************************************)
EXTENDS FileSync, TLAPS, WellFoundedInduction, FiniteSetTheorems, SequenceTheorems

(***************************************************************************)
(* The inductive invariant: what the worker waits for, and what an answer  *)
(* of success means for the batch it was about.                            *)
(***************************************************************************)
Types ==
    /\ log \in Seq(Events) /\ Len(log) <= MaxEvents
    /\ mark \in 0..Len(log) /\ upto \in 0..Len(log)
    /\ waits \in Threads \union {NoThread}
    /\ answer \in {"none", "success", "error"}
    /\ stage \in [Threads -> {"free", "event", "node", "below"}]
    /\ batch \in [Threads -> SUBSET (1..Len(log))]
    /\ copies \in [Numbers -> Nat]
    /\ lost \in Nat /\ late \in Nat /\ crashes \in Nat

OneRequest ==
    /\ upto # 0 => mark < upto
    /\ answer # "none" => upto # 0 /\ waits = NoThread
    /\ waits # NoThread =>
         upto # 0 /\ stage[waits] # "free" /\ batch[waits] = (mark + 1)..upto

SuccessIsStored ==
    /\ answer = "success" => \A n \in (mark + 1)..upto : copies[n] > 0
    /\ \A n \in 1..mark : copies[n] > 0

NoFailure == lost + late + crashes = 0

(* Without a failure there is one thread at most, the one waited for, and  *)
(* the history holds what is acknowledged or about to be, once.            *)
OnceSoFar ==
    NoFailure =>
        /\ \A t \in Threads : stage[t] # "free" => t = waits
        /\ \A n \in Numbers :
             copies[n] = IF n <= mark \/ (answer = "success" /\ n <= upto) THEN 1 ELSE 0

SyncInv == Types /\ OneRequest /\ SuccessIsStored /\ OnceSoFar

(* What a step may look like to the log: none of its three variables moves *)
(* or one action of ReplicatedLog is taken.                                *)
LogStutter == UNCHANGED <<log, copies, mark>>
LogStep == Replicated!Next \/ LogStutter

LEMMA SyncInvInit == Init => SyncInv
BY BoundsAssumption
DEF Init, SyncInv, Types, OneRequest, SuccessIsStored, NoFailure, OnceSoFar, Numbers

(***************************************************************************)
(* The device.                                                             *)
(***************************************************************************)
LEMMA LogGrows ==
    ASSUME SyncInv, NEW e \in Events, Log(e)
    PROVE  SyncInv' /\ LogStep
<1>1. Len(log') = Len(log) + 1 /\ log' \in Seq(Events)
    BY DEF SyncInv, Types, Log
<1>2. UNCHANGED <<mark, upto, waits, answer, stage, batch, copies, lost, late, crashes>>
    BY DEF Log, clientVars, threadVars, faultVars
<1>3. Types'
    BY <1>1, <1>2, BoundsAssumption DEF SyncInv, Types, Log, Numbers
<1>4. OneRequest' /\ SuccessIsStored' /\ OnceSoFar'
    BY <1>2 DEF SyncInv, OneRequest, SuccessIsStored, OnceSoFar, NoFailure
<1>5. Replicated!Append1(e)
    BY <1>2 DEF Log, Replicated!Append1, Delivered
<1> QED
    BY <1>3, <1>4, <1>5 DEF SyncInv, LogStep, Replicated!Next

LEMMA SendPreserves ==
    ASSUME SyncInv, Send
    PROVE  SyncInv' /\ LogStutter
<1> USE BoundsAssumption, ThreadsAssumption
<1>1. upto' \in (mark + 1)..Len(log) /\ upto = 0 /\ waits = NoThread /\ answer = "none"
    BY DEF Send, Idle, BatchEnd, SyncInv, Types, OneRequest
<1>2. UNCHANGED <<log, mark, copies, late, crashes>>
    BY DEF Send
<1>3. CASE UNCHANGED <<answer, lost>> /\ \E t \in Threads \ Busy :
             /\ waits' = t
             /\ stage' = [stage EXCEPT ![t] = "event"]
             /\ batch' = [batch EXCEPT ![t] = mark + 1..upto']
    <2>1. PICK t \in Threads \ Busy :
             /\ waits' = t
             /\ stage' = [stage EXCEPT ![t] = "event"]
             /\ batch' = [batch EXCEPT ![t] = mark + 1..upto']
        BY <1>3
    <2>2. Types'
        BY <1>1, <1>2, <1>3, <2>1 DEF SyncInv, Types
    <2>3. OneRequest' /\ SuccessIsStored'
        BY <1>1, <1>2, <1>3, <2>1 DEF SyncInv, Types, OneRequest, SuccessIsStored
    <2>4. OnceSoFar'
        BY <1>1, <1>2, <1>3, <2>1 DEF SyncInv, Types, OnceSoFar, NoFailure, Busy
    <2> QED
        BY <1>2, <2>2, <2>3, <2>4 DEF SyncInv, LogStutter
<1>4. CASE lost' = lost + 1 /\ answer' = "error" /\ UNCHANGED <<waits, stage, batch>>
    <2>1. Types'
        BY <1>1, <1>2, <1>4 DEF SyncInv, Types
    <2>2. OneRequest' /\ SuccessIsStored' /\ OnceSoFar'
        BY <1>1, <1>2, <1>4
        DEF SyncInv, Types, OneRequest, SuccessIsStored, OnceSoFar, NoFailure
    <2> QED
        BY <1>2, <2>1, <2>2 DEF SyncInv, LogStutter
<1> QED
    BY <1>3, <1>4 DEF Send

LEMMA ReceivedPreserves ==
    ASSUME SyncInv, Received
    PROVE  SyncInv' /\ LogStep
<1>1. /\ upto # 0 /\ mark < upto /\ waits = NoThread /\ upto' = 0 /\ answer' = "none"
      /\ UNCHANGED <<log, waits, stage, batch, copies, lost, late, crashes>>
    BY DEF Received, SyncInv, OneRequest, threadVars, faultVars
<1>2. CASE answer = "success"
    <2>1. mark' = upto
        BY <1>2 DEF Received
    <2>2. Types' /\ OneRequest'
        BY <1>1, <2>1 DEF SyncInv, Types, OneRequest
    <2>3. \A n \in 1..upto : copies[n] > 0
        BY <1>1, <1>2 DEF SyncInv, Types, SuccessIsStored
    <2>4. SuccessIsStored' /\ OnceSoFar'
        BY <1>1, <1>2, <2>1, <2>3
        DEF SyncInv, Types, SuccessIsStored, OnceSoFar, NoFailure, Numbers
    <2>5. 1..mark' \subseteq Delivered
        BY <2>1, <2>3, BoundsAssumption DEF Delivered, Numbers, SyncInv, Types
    <2>6. mark' \in {n \in DOMAIN log : mark < n /\ 1..n \subseteq Delivered}
        BY <1>1, <2>1, <2>5 DEF SyncInv, Types
    <2>7. Replicated!Acknowledge
        BY <1>1, <2>6 DEF Replicated!Acknowledge, Delivered
    <2> QED
        BY <2>2, <2>4, <2>7 DEF SyncInv, LogStep, Replicated!Next
<1>3. CASE answer # "success"
    <2>1. mark' = mark
        BY <1>3 DEF Received
    <2>2. SyncInv'
        BY <1>1, <1>3, <2>1
        DEF SyncInv, Types, OneRequest, SuccessIsStored, OnceSoFar, NoFailure
    <2> QED
        BY <1>1, <2>1, <2>2 DEF LogStep, LogStutter
<1> QED
    BY <1>2, <1>3

LEMMA GiveUpPreserves ==
    ASSUME SyncInv, GiveUp
    PROVE  SyncInv' /\ LogStutter
BY DEF GiveUp, SyncInv, Types, OneRequest, SuccessIsStored, OnceSoFar, NoFailure,
       LogStutter, threadVars

(***************************************************************************)
(* A request thread.  While it works on the tree it stays busy and neither *)
(* its batch nor the history changes.                                      *)
(***************************************************************************)
ParentStep(t) == FindParent(t) \/ FindParentFails(t)
NodeStep(t)   == SaveNode(t) \/ MarkChildren(t)
TreeStep(t)   == ParentStep(t) \/ NodeStep(t) \/ MarkNode(t) \/ UpdateFails(t)

(* What the steps have in common.                                          *)
LEMMA ParentStepIs ==
    ASSUME NEW t, ParentStep(t)
    PROVE  /\ Takes(t, "put") /\ Goes(t, "node")
           /\ \E errors : ParentWith(t, errors)
           /\ UNCHANGED <<log, clientVars, next, batch, missed, copies, faultVars>>
           /\ dropped' \in {dropped, dropped + 1}
BY DEF ParentStep, FindParent, FindParentFails, Drops

LEMMA EventStepIs ==
    ASSUME NEW t, NodeStep(t) \/ UpdateFails(t)
    PROVE  /\ EventDone(t) /\ (stage[t] \in {"node", "below"} \/ Takes(t, "delete"))
           /\ NodeStep(t) => missed' = missed \ {next[t]} /\ stage[t] \in {"node", "below"}
           /\ UpdateFails(t) => missed' = missed \union {next[t]} /\ nodes' = nodes
           /\ dropped' \in {dropped, dropped + 1}
BY DEF NodeStep, SaveNode, MarkChildren, UpdateFails, Applied, Drops

LEMMA TreeStepIs ==
    ASSUME NEW t, TreeStep(t)
    PROVE  /\ stage[t] # "free"
           /\ \E s \in {"event", "node", "below"} : stage' = [stage EXCEPT ![t] = s]
           /\ UNCHANGED <<log, clientVars, batch, copies, faultVars>>
<1>1. CASE ParentStep(t)
    BY <1>1, ParentStepIs DEF Takes, Goes
<1>2. CASE NodeStep(t) \/ UpdateFails(t)
    BY <1>2, EventStepIs DEF EventDone, Takes, Goes
<1>3. CASE MarkNode(t)
    BY <1>3 DEF MarkNode, Takes, Goes
<1> QED
    BY <1>1, <1>2, <1>3 DEF TreeStep

LEMMA TreePreserves ==
    ASSUME SyncInv, NEW t \in Threads, TreeStep(t)
    PROVE  SyncInv' /\ LogStutter
<1>1. stage[t] # "free" /\ \E s \in {"event", "node", "below"} : stage' = [stage EXCEPT ![t] = s]
    BY TreeStepIs
<1>2. UNCHANGED <<log, mark, upto, waits, answer, batch, copies, lost, late, crashes>>
    BY TreeStepIs DEF clientVars, faultVars
<1>3. \A u \in Threads : stage'[u] # "free" <=> stage[u] # "free"
    BY <1>1 DEF SyncInv, Types
<1>4. Types'
    BY <1>1, <1>2 DEF SyncInv, Types
<1>5. OneRequest' /\ SuccessIsStored' /\ OnceSoFar'
    BY <1>2, <1>3, ThreadsAssumption
    DEF SyncInv, Types, OneRequest, SuccessIsStored, OnceSoFar, NoFailure
<1> QED
    BY <1>2, <1>4, <1>5 DEF SyncInv, LogStutter

LEMMA BulkCreatePreserves ==
    ASSUME SyncInv, NEW t \in Threads, BulkCreate(t)
    PROVE  SyncInv' /\ LogStep
<1> USE ThreadsAssumption
<1>1. /\ stage[t] = "event" /\ stage' = [stage EXCEPT ![t] = "free"]
      /\ UNCHANGED <<log, mark, upto, batch, late, crashes>>
    BY DEF BulkCreate, Answers, Goes
<1>2. ASSUME Answers(t, "success"), UNCHANGED lost,
             copies' = [n \in Numbers |-> copies[n] + (IF n \in batch[t] THEN 1 ELSE 0)]
      PROVE  SyncInv' /\ LogStep
    <2>1. /\ copies' \in [Numbers -> Nat]
          /\ \A n \in Numbers : copies'[n] >= copies[n] /\ (n \in batch[t] => copies'[n] > 0)
        BY <1>2 DEF SyncInv, Types
    <2>2. batch[t] \subseteq DOMAIN log /\ (mark + 1)..upto \subseteq Numbers
          /\ 1..mark \subseteq Numbers
        BY BoundsAssumption DEF SyncInv, Types, Numbers
    <2>3. Types'
        BY <1>1, <1>2, <2>1 DEF SyncInv, Types, Answers
    <2>4. OneRequest'
        BY <1>1, <1>2 DEF SyncInv, Types, OneRequest, Answers
    <2>5. SuccessIsStored' /\ OnceSoFar'
        <3>1. CASE waits = t
            <4>1. /\ answer = "none" /\ answer' = "success" /\ waits' = NoThread
                  /\ batch[t] = (mark + 1)..upto
                BY <1>2, <3>1 DEF SyncInv, OneRequest, Answers, Types
            <4>2. SuccessIsStored'
                <5>1. \A n \in (mark + 1)..upto : copies'[n] > 0
                    BY <2>1, <2>2, <4>1
                <5>2. \A n \in 1..mark : copies'[n] > 0
                    BY <2>1, <2>2 DEF SyncInv, Types, SuccessIsStored
                <5> QED
                    BY <1>1, <5>1, <5>2 DEF SuccessIsStored
            <4>3. OnceSoFar'
                BY <1>1, <1>2, <2>2, <3>1, <4>1
                DEF SyncInv, Types, OnceSoFar, NoFailure, Numbers
            <4> QED
                BY <4>2, <4>3
        <3>2. CASE waits # t
            <4>1. UNCHANGED <<answer, waits>>
                BY <1>2, <3>2 DEF Answers
            <4>2. SuccessIsStored'
                BY <1>1, <2>1, <2>2, <4>1 DEF SyncInv, Types, SuccessIsStored
            <4>3. ~NoFailure'
                BY <1>1, <1>2, <3>2 DEF SyncInv, OnceSoFar, NoFailure
            <4> QED
                BY <4>2, <4>3 DEF OnceSoFar
        <3> QED
            BY <3>1, <3>2
    <2>6. Delivered' = Delivered \union batch[t]
        BY <1>2, <2>1, <2>2, BoundsAssumption DEF Delivered, SyncInv, Types, Numbers
    <2>7. Replicated!Deliver
        BY <1>1, <2>2, <2>6 DEF Replicated!Deliver
    <2> QED
        BY <2>3, <2>4, <2>5, <2>7 DEF SyncInv, LogStep, Replicated!Next
<1>3. ASSUME Answers(t, "error"), lost' = lost + 1, UNCHANGED copies
      PROVE  SyncInv' /\ LogStep
    <2>1. Types'
        BY <1>1, <1>3 DEF SyncInv, Types, Answers
    <2>2. OneRequest' /\ SuccessIsStored' /\ OnceSoFar'
        BY <1>1, <1>3
        DEF SyncInv, Types, OneRequest, SuccessIsStored, OnceSoFar, NoFailure, Answers
    <2> QED
        BY <1>1, <1>3, <2>1, <2>2 DEF SyncInv, LogStep, LogStutter
<1> QED
    BY <1>2, <1>3 DEF BulkCreate

LEMMA CrashPreserves ==
    ASSUME SyncInv, ServerCrash
    PROVE  SyncInv' /\ LogStutter
BY DEF ServerCrash, SyncInv, Types, OneRequest, SuccessIsStored, OnceSoFar, NoFailure,
       LogStutter

(***************************************************************************)
(* The whole.                                                              *)
(***************************************************************************)
LEMMA SyncStep ==
    ASSUME SyncInv, [Next]_vars
    PROVE  SyncInv' /\ LogStep
<1>1. CASE UNCHANGED vars
    BY <1>1
    DEF vars, clientVars, threadVars, faultVars, SyncInv, Types, OneRequest,
        SuccessIsStored, OnceSoFar, NoFailure, LogStep, LogStutter
<1>2. CASE Next
    BY <1>2, LogGrows, SendPreserves, ReceivedPreserves, GiveUpPreserves, TreePreserves,
       BulkCreatePreserves, CrashPreserves
    DEF Next, ClientStep, SyncEvents, LogStep, TreeStep, ParentStep, NodeStep
<1> QED
    BY <1>1, <1>2

LEMMA SyncInvariance == Spec => []SyncInv
<1>1. SyncInv /\ [Next]_vars => SyncInv'
    BY SyncStep
<1> QED
    BY <1>1, SyncInvInit, PTL DEF Spec

(* The synchronisation implements ReplicatedLog: however requests are      *)
(* lost, repeated or left behind and whatever thread answers late, the     *)
(* watermark moves only over events that the server has.                   *)
THEOREM LogReplicated == Spec => ReplicatesLog
<1>1. Init => Replicated!Init
    BY BoundsAssumption DEF Init, Replicated!Init, Delivered, Numbers
<1>2. SyncInv /\ [Next]_vars => [Replicated!Next]_(Replicated!vars)
    BY SyncStep DEF LogStep, LogStutter, Replicated!vars, Delivered
<1> QED
    BY <1>1, <1>2, SyncInvariance, PTL DEF Spec, Replicated!Spec, ReplicatesLog

(* Duplicates in the history come from failures only.                      *)
THEOREM NoDuplicates == Spec => []OnceIfNothingFails
<1>1. SyncInv => OnceIfNothingFails
    BY DEF SyncInv, OnceSoFar, NoFailure, OnceIfNothingFails
<1> QED
    BY <1>1, SyncInvariance, PTL

(***************************************************************************)
(* What the operations on the directory tree do to the table.              *)
(***************************************************************************)
(* A set of numbers has a least one.                                       *)
LEMMA LeastNumber ==
    ASSUME NEW S \in SUBSET Nat, S # {}
    PROVE  \E x \in S : \A y \in S : x <= y
<1> DEFINE R == OpToRel(<, Nat)
<1>1. PICK x \in S : \A y \in S : ~(<<y, x>> \in R)
    BY NatLessThanWellFounded, WFMin
<1>2. \A m, n \in Nat : m < n => <<m, n>> \in R
    BY DEF OpToRel
<1> HIDE DEF R
<1>3. \A y \in S : x <= y
    <2> SUFFICES ASSUME NEW y \in S
                 PROVE  x <= y
        OBVIOUS
    <2>1. ~(<<y, x>> \in R)
        BY <1>1
    <2> QED
        BY <1>2, <2>1
<1> QED
    BY <1>3

LEMMA FirstFacts ==
    ASSUME NEW ids \in SUBSET (Nat \ {0})
    PROVE  /\ ids = {} => First(ids) = 0
           /\ ids # {} => First(ids) \in ids /\ First(ids) # 0
           /\ \A i \in ids : First(ids) <= i
<1>1. CASE ids = {}
    BY <1>1 DEF First
<1>2. CASE ids # {}
    <2>1. \E x \in ids : \A y \in ids : x <= y
        BY <1>2, LeastNumber
    <2>2. Min(ids) \in ids /\ \A y \in ids : Min(ids) <= y
        BY <2>1 DEF Min
    <2> QED
        BY <1>2, <2>2 DEF First
<1> QED
    BY <1>1, <1>2

LEMMA FindByUUIDFacts ==
    ASSUME NEW table \in Seq(Rows), NEW uuid
    PROVE  /\ FindByUUID(table, uuid) \in Nat
           /\ FindByUUID(table, uuid) # 0 =>
                FindByUUID(table, uuid) \in DOMAIN table /\ table[FindByUUID(table, uuid)].uuid = uuid
           /\ FindByUUID(table, uuid) = 0 => \A n \in DOMAIN table : table[n].uuid # uuid
<1> DEFINE ids == {n \in DOMAIN table : table[n].uuid = uuid}
<1>1. ids \in SUBSET (Nat \ {0})
    OBVIOUS
<1> QED
    BY <1>1, FirstFacts DEF FindByUUID

LEMMA SamePathFacts ==
    ASSUME NEW p \in Seq(STRING)
    PROVE  /\ SamePath(p, p)
           /\ \A q : SamePath(p, q) => Len(q) = Len(p) /\ SamePath(q, p)
BY DEF SamePath

LEMMA FindByPathFacts ==
    ASSUME NEW table \in Seq(Rows), NEW dev, NEW path
    PROVE  /\ FindByPath(table, dev, path) \in Nat
           /\ FindByPath(table, dev, path) # 0 =>
                /\ FindByPath(table, dev, path) \in DOMAIN table
                /\ table[FindByPath(table, dev, path)].device = dev
                /\ SamePath(table[FindByPath(table, dev, path)].path, path)
                /\ ~table[FindByPath(table, dev, path)].deleted
<1> DEFINE ids == {n \in DOMAIN table :
             table[n].device = dev /\ SamePath(table[n].path, path) /\ ~table[n].deleted}
<1>1. ids \in SUBSET (Nat \ {0})
    OBVIOUS
<1> QED
    BY <1>1, FirstFacts DEF FindByPath

(* The recursion of EnsureParent has a solution for every number of        *)
(* folders, and so is what it is defined to be.                            *)
AreFolders(f, table, dev, path, errors, K) ==
    f = [n \in 0..K |->
           IF n = 0 THEN [nodes |-> table, id |-> 0]
           ELSE EnsureFolder(table, dev, SubSeq(path, 1, n), f[n - 1], errors[n])]

LEMMA FoldersExist ==
    ASSUME NEW table, NEW dev, NEW path, NEW errors, NEW K \in Nat
    PROVE  \E f : AreFolders(f, table, dev, path, errors, K)
<1> SUFFICES \E f : f = [n \in 0..K |->
             IF n = 0 THEN [nodes |-> table, id |-> 0]
             ELSE EnsureFolder(table, dev, SubSeq(path, 1, n), f[n - 1], errors[n])]
    BY DEF AreFolders
<1> DEFINE Solves(f, k) == f = [n \in 0..k |->
             IF n = 0 THEN [nodes |-> table, id |-> 0]
             ELSE EnsureFolder(table, dev, SubSeq(path, 1, n), f[n - 1], errors[n])]
           Unsolved == {k \in Nat : ~\E f : Solves(f, k)}
<1>1. CASE K \in Unsolved
    <2>1. PICK k \in Unsolved : \A j \in Unsolved : k <= j
        BY <1>1, LeastNumber
    <2>2. k # 0
        <3> DEFINE f == [n \in 0..0 |-> [nodes |-> table, id |-> 0]]
        <3>1. Solves(f, 0)
            OBVIOUS
        <3> QED
            BY <3>1
    <2>3. k - 1 \in Nat /\ ~(k <= k - 1)
        BY <2>1, <2>2
    <2>4. PICK f : Solves(f, k - 1)
        <3> HIDE DEF Solves
        <3> QED
            BY <2>1, <2>3
    <2> DEFINE g == [n \in 0..k |->
                       IF n < k THEN f[n]
                       ELSE EnsureFolder(table, dev, SubSeq(path, 1, k), f[k - 1], errors[k])]
    <2>5. Solves(g, k)
        BY <2>2, <2>3, <2>4
    <2> QED
        BY <2>5
<1>2. CASE K \notin Unsolved
    BY <1>2
<1> QED
    BY <1>1, <1>2

LEMMA EnsureParentIs ==
    ASSUME NEW table, NEW dev, NEW path, NEW errors, Len(Dir(path)) \in Nat
    PROVE  \E f : /\ f[0] = [nodes |-> table, id |-> 0]
                  /\ \A n \in 1..Len(Dir(path)) :
                       f[n] = EnsureFolder(table, dev, SubSeq(path, 1, n), f[n - 1], errors[n])
                  /\ EnsureParent(table, dev, path, errors) = f[Len(Dir(path))]
<1> DEFINE K == Len(Dir(path))
           folder[n \in 0..K] ==
             IF n = 0 THEN [nodes |-> table, id |-> 0]
             ELSE EnsureFolder(table, dev, SubSeq(path, 1, n), folder[n - 1], errors[n])
<1>1. folder = [n \in 0..K |->
             IF n = 0 THEN [nodes |-> table, id |-> 0]
             ELSE EnsureFolder(table, dev, SubSeq(path, 1, n), folder[n - 1], errors[n])]
    <2>1. K \in Nat
        OBVIOUS
    <2> HIDE DEF K
    <2>2. \E f : AreFolders(f, table, dev, path, errors, K)
        <3> HIDE DEF folder
        <3> QED
            BY <2>1, FoldersExist
    <2> QED
        BY <2>2, Zenon DEF AreFolders
<1>2. EnsureParent(table, dev, path, errors) = folder[K]
    BY DEF EnsureParent
<1> HIDE DEF folder
<1>3. folder[0] = [nodes |-> table, id |-> 0]
    BY <1>1
<1>4. \A n \in 1..K : folder[n] = EnsureFolder(table, dev, SubSeq(path, 1, n), folder[n - 1], errors[n])
    BY <1>1
<1> QED
    BY <1>2, <1>3, <1>4

(* A live row of a device at a path; and a table with nothing but          *)
(* placeholders added, for folders above a path, each below a live row.    *)
LiveAt(rows, n, dev, path) ==
    /\ n \in DOMAIN rows
    /\ rows[n].device = dev /\ SamePath(rows[n].path, path) /\ ~rows[n].deleted

Placeholder(rows, n, dev, path) ==
    /\ rows[n].device = dev /\ ~rows[n].deleted /\ rows[n].type = "folder"
    /\ rows[n].uuid = PlaceholderUuid(rows[n].path)
    /\ \E i \in 1..Len(path) - 1 : rows[n].path = SubSeq(path, 1, i)
    /\ rows[n].parent = 0 \/ LiveAt(rows, rows[n].parent, dev, Dir(rows[n].path))

Placed(old, new, dev, path) ==
    /\ new \in Seq(Rows) /\ UniqueUuids(new) /\ Len(old) <= Len(new)
    /\ \A n \in 1..Len(old) : new[n] = old[n]
    /\ \A n \in Len(old) + 1..Len(new) : Placeholder(new, n, dev, path)

LEMMA SubSeqFacts ==
    ASSUME NEW path \in Seq(STRING), NEW n \in 0..Len(path)
    PROVE  /\ SubSeq(path, 1, n) \in Seq(STRING) /\ Len(SubSeq(path, 1, n)) = n
           /\ \A i \in 1..n : SubSeq(path, 1, n)[i] = path[i]
OBVIOUS

LEMMA DirFacts ==
    ASSUME NEW path \in Seq(STRING), path # <<>>
    PROVE  /\ Dir(path) \in Seq(STRING) /\ Len(Dir(path)) = Len(path) - 1
           /\ Dir(path) = SubSeq(path, 1, Len(path) - 1)
           /\ \A i \in 1..Len(path) - 1 : Dir(path)[i] = path[i]
<1>1. Dir(path) = SubSeq(path, 1, Len(path) - 1)
    BY DEF Dir
<1>2. Len(path) \in Nat \ {0}
    OBVIOUS
<1>3. Len(path) - 1 \in 0..Len(path)
    BY <1>2
<1> QED
    BY <1>1, <1>3, SubSeqFacts

LEMMA PrefixFacts ==
    ASSUME NEW path \in Seq(STRING), NEW n \in 1..Len(path)
    PROVE  /\ SubSeq(path, 1, n) \in Seq(STRING) /\ SubSeq(path, 1, n) # <<>>
           /\ Len(SubSeq(path, 1, n)) = n
           /\ Dir(SubSeq(path, 1, n)) = SubSeq(path, 1, n - 1)
<1>1. /\ SubSeq(path, 1, n) \in Seq(STRING) /\ Len(SubSeq(path, 1, n)) = n
      /\ \A i \in 1..n : SubSeq(path, 1, n)[i] = path[i]
    OBVIOUS
<1>2. SubSeq(path, 1, n) # <<>>
    BY <1>1
<1>3. Dir(SubSeq(path, 1, n)) = SubSeq(SubSeq(path, 1, n), 1, n - 1)
    BY <1>1, <1>2 DEF Dir
<1>4. SubSeq(SubSeq(path, 1, n), 1, n - 1) = SubSeq(path, 1, n - 1)
    <2>1. /\ SubSeq(SubSeq(path, 1, n), 1, n - 1) \in Seq(STRING)
          /\ Len(SubSeq(SubSeq(path, 1, n), 1, n - 1)) = n - 1
          /\ \A i \in 1..n - 1 : SubSeq(SubSeq(path, 1, n), 1, n - 1)[i] = path[i]
        BY <1>1
    <2>2. /\ SubSeq(path, 1, n - 1) \in Seq(STRING)
          /\ Len(SubSeq(path, 1, n - 1)) = n - 1
          /\ \A i \in 1..n - 1 : SubSeq(path, 1, n - 1)[i] = path[i]
        OBVIOUS
    <2> QED
        BY <2>1, <2>2
<1> QED
    BY <1>1, <1>2, <1>3, <1>4

LEMMA CreateFacts ==
    ASSUME NEW rows \in Seq(Rows), UniqueUuids(rows), NEW row \in Rows
    PROVE  \/ Create(rows, row) = [nodes |-> rows, id |-> 0]
           \/ /\ Create(rows, row) = [nodes |-> Append(rows, row), id |-> Len(rows) + 1]
              /\ Append(rows, row) \in Seq(Rows) /\ UniqueUuids(Append(rows, row))
<1>1. CASE FindByUUID(rows, row.uuid) # 0 \/ row.path \in TooLong
    BY <1>1 DEF Create
<1>2. CASE ~(FindByUUID(rows, row.uuid) # 0 \/ row.path \in TooLong)
    <2>1. \A n \in DOMAIN rows : rows[n].uuid # row.uuid
        BY <1>2, FindByUUIDFacts
    <2>2. UniqueUuids(Append(rows, row))
        BY <2>1 DEF UniqueUuids
    <2> QED
        BY <1>2, <2>2 DEF Create
<1> QED
    BY <1>1, <1>2

LEMMA PlacedAppend ==
    ASSUME NEW old \in Seq(Rows), NEW dev, NEW path, NEW rows, Placed(old, rows, dev, path),
           NEW row \in Rows, UniqueUuids(Append(rows, row)),
           row.device = dev, ~row.deleted, row.type = "folder",
           row.uuid = PlaceholderUuid(row.path),
           \E i \in 1..Len(path) - 1 : row.path = SubSeq(path, 1, i),
           row.parent = 0 \/ LiveAt(rows, row.parent, dev, Dir(row.path))
    PROVE  Placed(old, Append(rows, row), dev, path)
<1> DEFINE new == Append(rows, row)
<1>1. rows \in Seq(Rows) /\ Len(old) \in Nat /\ Len(rows) \in Nat /\ Len(old) <= Len(rows)
    BY DEF Placed
<1>2. /\ new \in Seq(Rows) /\ Len(new) = Len(rows) + 1 /\ DOMAIN rows \subseteq DOMAIN new
      /\ \A k \in 1..Len(rows) : new[k] = rows[k]
      /\ new[Len(rows) + 1] = row
    BY <1>1
<1> HIDE DEF new
<1>3. \A k, d, p : LiveAt(rows, k, d, p) => LiveAt(new, k, d, p)
    BY <1>1, <1>2 DEF LiveAt
<1>4. Placeholder(new, Len(rows) + 1, dev, path)
    BY <1>2, <1>3 DEF Placeholder
<1>5. ASSUME NEW k \in Len(old) + 1..Len(rows)
      PROVE  Placeholder(new, k, dev, path)
    <2>1. Placeholder(rows, k, dev, path) /\ new[k] = rows[k]
        BY <1>1, <1>2 DEF Placed
    <2> QED
        BY <1>3, <2>1 DEF Placeholder
<1>6. \A k \in Len(old) + 1..Len(new) : Placeholder(new, k, dev, path)
    BY <1>1, <1>2, <1>4, <1>5
<1>7. \A k \in 1..Len(old) : new[k] = old[k]
    BY <1>1, <1>2 DEF Placed
<1> QED
    BY <1>1, <1>2, <1>6, <1>7 DEF Placed, new

(* One folder on the way down.                                             *)
LEMMA EnsureFolderFacts ==
    ASSUME NEW table \in Seq(Rows), UniqueUuids(table),
           NEW dev \in STRING, NEW path \in Seq(STRING), NEW n \in 1..Len(path) - 1,
           NEW above, Placed(table, above.nodes, dev, path), above.id \in Nat,
           above.id = 0 \/ LiveAt(above.nodes, above.id, dev, SubSeq(path, 1, n - 1)),
           Folded(SubSeq(path, 1, n)) \in Seq(STRING),
           NEW error, NEW new, new = EnsureFolder(table, dev, SubSeq(path, 1, n), above, error)
    PROVE  /\ Placed(table, new.nodes, dev, path) /\ new.id \in Nat
           /\ new.id = 0 \/ LiveAt(new.nodes, new.id, dev, SubSeq(path, 1, n))
<1> DEFINE prefix == SubSeq(path, 1, n)
           found  == FindByPath(table, dev, prefix)
           row    == Node(dev, above.id, PlaceholderUuid(prefix), prefix, "folder")
<1>1. prefix \in Seq(STRING) /\ Dir(prefix) = SubSeq(path, 1, n - 1)
    BY PrefixFacts
<1>5. new = EnsureFolder(table, dev, prefix, above, error) /\ Folded(prefix) \in Seq(STRING)
    OBVIOUS
<1> SUFFICES /\ Placed(table, new.nodes, dev, path) /\ new.id \in Nat
             /\ new.id = 0 \/ LiveAt(new.nodes, new.id, dev, prefix)
    OBVIOUS
<1> HIDE DEF prefix
<1>4. CASE new \in {[nodes |-> table, id |-> 0], [nodes |-> above.nodes, id |-> 0]}
    <2>1. Placed(table, table, dev, path)
        BY DEF Placed
    <2> QED
        BY <1>4, <2>1
<1>2. CASE new = [nodes |-> table, id |-> found] /\ found # 0
    <2>1. new = [nodes |-> table, id |-> found]
        BY <1>2
    <2>2. found \in Nat /\ LiveAt(table, found, dev, prefix)
        BY <1>2, FindByPathFacts DEF LiveAt
    <2>3. Placed(table, table, dev, path)
        BY DEF Placed
    <2> QED
        BY <2>1, <2>2, <2>3
<1>3. CASE new = Create(above.nodes, row)
    <2>1. new = Create(above.nodes, row)
        BY <1>3
    <2>2. /\ row \in Rows /\ row.device = dev /\ row.parent = above.id /\ row.path = prefix
          /\ row.uuid = PlaceholderUuid(prefix) /\ row.type = "folder" /\ ~row.deleted
        <3>1. PlaceholderUuid(prefix) \in Uuids
            BY <1>5 DEF PlaceholderUuid, Uuids
        <3> QED
            BY <1>1, <3>1 DEF Node, Rows
    <2> HIDE DEF row
    <2>3. above.nodes \in Seq(Rows) /\ UniqueUuids(above.nodes)
        BY DEF Placed
    <2>4. CASE new = [nodes |-> above.nodes, id |-> 0]
        BY <2>4
    <2>5. CASE /\ new = [nodes |-> Append(above.nodes, row), id |-> Len(above.nodes) + 1]
               /\ Append(above.nodes, row) \in Seq(Rows)
               /\ UniqueUuids(Append(above.nodes, row))
        <3>1. Placed(table, Append(above.nodes, row), dev, path)
            <4>1. \E i \in 1..Len(path) - 1 : row.path = SubSeq(path, 1, i)
                BY <2>2 DEF prefix
            <4>2. row.parent = 0 \/ LiveAt(above.nodes, row.parent, dev, Dir(row.path))
                BY <1>1, <2>2
            <4> QED
                BY <2>2, <2>5, <4>1, <4>2, PlacedAppend
        <3>2. LiveAt(Append(above.nodes, row), Len(above.nodes) + 1, dev, prefix)
            BY <1>1, <2>2, <2>3, SamePathFacts DEF LiveAt
        <3>3. new.nodes = Append(above.nodes, row) /\ new.id = Len(above.nodes) + 1
            BY <2>5
        <3>4. Len(above.nodes) + 1 \in Nat
            BY <2>3
        <3> QED
            BY <3>1, <3>2, <3>3, <3>4
    <2> QED
        BY <2>1, <2>2, <2>3, <2>4, <2>5, CreateFacts
<1> QED
    BY <1>2, <1>3, <1>4, <1>5 DEF EnsureFolder

(* The parent of a path is none or a live row of the device at its         *)
(* directory, and only placeholders were made.                             *)
LEMMA EnsureParentFacts ==
    ASSUME NEW table \in Seq(Rows), UniqueUuids(table),
           NEW dev \in STRING, NEW path \in Seq(STRING) \ {<<>>},
           \A n \in 1..Len(path) : Folded(SubSeq(path, 1, n)) \in Seq(STRING),
           NEW errors, NEW new, new = EnsureParent(table, dev, path, errors)
    PROVE  /\ Placed(table, new.nodes, dev, path) /\ new.id \in Nat
           /\ new.id = 0 \/ LiveAt(new.nodes, new.id, dev, Dir(path))
<1> DEFINE K == Len(path) - 1
<1>1. Len(Dir(path)) = K /\ Dir(path) = SubSeq(path, 1, K) /\ K \in Nat
    BY DirFacts
<1>2. PICK f : /\ f[0] = [nodes |-> table, id |-> 0]
               /\ \A n \in 1..K :
                    f[n] = EnsureFolder(table, dev, SubSeq(path, 1, n), f[n - 1], errors[n])
               /\ new = f[K]
    BY <1>1, EnsureParentIs
<1> DEFINE Good(n) == /\ Placed(table, f[n].nodes, dev, path) /\ f[n].id \in Nat
                      /\ f[n].id = 0 \/ LiveAt(f[n].nodes, f[n].id, dev, SubSeq(path, 1, n))
           Wrong   == {n \in 0..K : ~Good(n)}
<1>3. Good(0)
    BY <1>2 DEF Placed
<1>4. ASSUME NEW n \in 1..K, Good(n - 1)
      PROVE  Good(n)
    <2>1. Folded(SubSeq(path, 1, n)) \in Seq(STRING)
        BY <1>1
    <2>2. f[n] = EnsureFolder(table, dev, SubSeq(path, 1, n), f[n - 1], errors[n])
        BY <1>2
    <2> QED
        BY <1>4, <2>1, <2>2, EnsureFolderFacts
<1> HIDE DEF Good
<1>5. Wrong = {}
    <2> SUFFICES ASSUME Wrong # {}
                 PROVE  FALSE
        OBVIOUS
    <2>1. PICK n \in Wrong : \A k \in Wrong : n <= k
        <3>1. Wrong \in SUBSET Nat
            BY <1>1
        <3> QED
            BY <3>1, LeastNumber
    <2>2. n \in 1..K /\ n - 1 \in 0..K /\ ~(n <= n - 1)
        BY <1>1, <1>3, <2>1
    <2>3. Good(n - 1)
        BY <2>1, <2>2
    <2> QED
        BY <1>4, <2>1, <2>2, <2>3
<1>6. Good(K)
    BY <1>1, <1>5
<1> QED
    BY <1>1, <1>2, <1>6 DEF Good

(* What an upsert does: one row has the uuid, at the new place and live;   *)
(* it is the old one with its device and type, or a new one.               *)
Upserted(old, new, n, dev, under, uuid, path, type) ==
    /\ DOMAIN new = DOMAIN old \union {n}
    /\ \A k \in DOMAIN old \ {n} : new[k] = old[k]
    /\ new[n].uuid = uuid /\ new[n].path = path /\ new[n].parent = under
    /\ ~new[n].deleted
    /\ n \in DOMAIN old =>
         /\ old[n].uuid = uuid
         /\ new[n].device = old[n].device /\ new[n].type = old[n].type
    /\ n \notin DOMAIN old => new[n].device = dev /\ new[n].type = type

LEMMA UpsertFacts ==
    ASSUME NEW table \in Seq(Rows), UniqueUuids(table),
           NEW dev \in STRING, NEW under \in Nat, NEW uuid \in Uuids,
           NEW path \in Seq(STRING), NEW type \in {"file", "folder"},
           NEW new, new = UpsertNode(table, dev, under, uuid, path, type)
    PROVE  /\ new \in Seq(Rows) /\ UniqueUuids(new)
           /\ \E n \in DOMAIN new : Upserted(table, new, n, dev, under, uuid, path, type)
<1> DEFINE n == FindByUUID(table, uuid)
<1>1. CASE n = 0
    <2> DEFINE row == Node(dev, under, uuid, path, type)
    <2>1. new = Append(table, row)
        BY <1>1 DEF UpsertNode
    <2>2. /\ row \in Rows /\ row.uuid = uuid /\ row.path = path /\ row.parent = under
          /\ ~row.deleted /\ row.device = dev /\ row.type = type
        BY DEF Node, Rows
    <2> HIDE DEF row
    <2>3. \A k \in DOMAIN table : table[k].uuid # uuid
        BY <1>1, FindByUUIDFacts
    <2>4. /\ new \in Seq(Rows) /\ DOMAIN new = DOMAIN table \union {Len(table) + 1}
          /\ Len(table) + 1 \notin DOMAIN table /\ new[Len(table) + 1] = row
          /\ \A k \in DOMAIN table : new[k] = table[k]
        BY <2>1, <2>2
    <2>5. UniqueUuids(new)
        BY <2>2, <2>3, <2>4 DEF UniqueUuids
    <2>6. Upserted(table, new, Len(table) + 1, dev, under, uuid, path, type)
        BY <2>2, <2>4 DEF Upserted
    <2> QED
        BY <2>4, <2>5, <2>6
<1>2. CASE n # 0
    <2>1. n \in DOMAIN table /\ table[n].uuid = uuid
        BY <1>2, FindByUUIDFacts
    <2>2. new = [table EXCEPT ![n].path = path, ![n].parent = under, ![n].deleted = FALSE]
        BY <1>2 DEF UpsertNode
    <2> HIDE DEF n
    <2> DEFINE row == [device |-> table[n].device, parent |-> under, uuid |-> table[n].uuid,
                       path |-> path, type |-> table[n].type, deleted |-> FALSE]
    <2>3. table[n] \in Rows
        BY <2>1
    <2>4. row \in Rows /\ new[n] = row
        BY <2>1, <2>2, <2>3 DEF Rows
    <2>5. /\ new \in Seq(Rows) /\ DOMAIN new = DOMAIN table
          /\ \A k \in DOMAIN table \ {n} : new[k] = table[k]
        <3> HIDE DEF row
        <3>1. new = [table EXCEPT ![n] = row]
            BY <2>1, <2>2, <2>4
        <3> QED
            BY <2>1, <2>4, <3>1
    <2>6. UniqueUuids(new)
        BY <2>1, <2>4, <2>5 DEF UniqueUuids
    <2>7. /\ new[n].uuid = uuid /\ new[n].path = path /\ new[n].parent = under
          /\ ~new[n].deleted /\ new[n].device = table[n].device /\ new[n].type = table[n].type
        BY <2>1, <2>4
    <2>8. n \in DOMAIN new /\ DOMAIN new = DOMAIN table \union {n}
        BY <2>1, <2>5
    <2> HIDE DEF row
    <2>9. Upserted(table, new, n, dev, under, uuid, path, type)
        BY <2>1, <2>5, <2>7, <2>8 DEF Upserted
    <2> QED
        BY <2>5, <2>6, <2>8, <2>9
<1> QED
    BY <1>1, <1>2

(* Marking changes nothing but the mark.                                   *)
SameRows(old, new) ==
    /\ new \in Seq(Rows) /\ UniqueUuids(new) /\ DOMAIN new = DOMAIN old
    /\ \A n \in DOMAIN old :
          /\ new[n].device = old[n].device /\ new[n].parent = old[n].parent
          /\ new[n].uuid = old[n].uuid /\ new[n].path = old[n].path
          /\ new[n].type = old[n].type

LEMMA DeleteRowsFacts ==
    ASSUME NEW table \in Seq(Rows), UniqueUuids(table), NEW ids
    PROVE  /\ SameRows(table, DeleteRows(table, ids))
           /\ \A n \in DOMAIN table :
                DeleteRows(table, ids)[n].deleted <=> table[n].deleted \/ n \in ids
<1> DEFINE new == DeleteRows(table, ids)
<1>1. DOMAIN new = DOMAIN table /\ DOMAIN table = 1..Len(table) /\ Len(table) \in Nat
    BY DEF DeleteRows
<1>2. ASSUME NEW n \in DOMAIN table
      PROVE  /\ new[n] \in Rows
             /\ new[n].device = table[n].device /\ new[n].parent = table[n].parent
             /\ new[n].uuid = table[n].uuid /\ new[n].path = table[n].path
             /\ new[n].type = table[n].type
             /\ new[n].deleted <=> table[n].deleted \/ n \in ids
    <2>1. table[n] \in Rows /\ new[n] = IF n \in ids THEN [table[n] EXCEPT !.deleted = TRUE] ELSE table[n]
        BY DEF DeleteRows
    <2>2. CASE n \in ids
        BY <2>1, <2>2 DEF Rows
    <2>3. CASE n \notin ids
        BY <2>1, <2>3
    <2> QED
        BY <2>2, <2>3
<1>3. new = [n \in 1..Len(table) |-> new[n]]
    BY <1>1 DEF DeleteRows
<1> HIDE DEF new
<1>4. new \in Seq(Rows)
    BY <1>1, <1>2, <1>3
<1>5. UniqueUuids(new)
    BY <1>1, <1>2 DEF UniqueUuids
<1> QED
    BY <1>1, <1>2, <1>4, <1>5 DEF SameRows, new

LEMMA MarkSelfFacts ==
    ASSUME NEW table \in Seq(Rows), UniqueUuids(table), NEW uuid,
           NEW new, new = MarkSelf(table, uuid)
    PROVE  /\ SameRows(table, new)
           /\ \A n \in DOMAIN table :
                new[n].deleted <=> table[n].deleted \/ table[n].uuid = uuid
<1>1. \A n \in DOMAIN table : n \in {FindByUUID(table, uuid)} <=> table[n].uuid = uuid
    BY FindByUUIDFacts DEF UniqueUuids
<1> QED
    BY <1>1, DeleteRowsFacts DEF MarkSelf

LEMMA MarkBelowFacts ==
    ASSUME NEW table \in Seq(Rows), UniqueUuids(table), NEW uuid,
           NEW new, new = MarkBelow(table, uuid)
    PROVE  /\ SameRows(table, new)
           /\ \A n \in DOMAIN table :
                new[n].deleted <=>
                  \/ table[n].deleted
                  \/ \E m \in DOMAIN table :
                       /\ table[m].uuid = uuid /\ table[m].type = "folder"
                       /\ table[n].device = table[m].device
                       /\ Below(table[m].path, table[n].path)
<1> DEFINE m == FindByUUID(table, uuid)
           ids == {k \in DOMAIN table :
                     table[k].device = table[m].device /\ Below(table[m].path, table[k].path)}
<1>1. m # 0 => m \in DOMAIN table /\ table[m].uuid = uuid
    BY FindByUUIDFacts
<1>2. \A k \in DOMAIN table : table[k].uuid = uuid => k = m
    BY <1>1, FindByUUIDFacts DEF UniqueUuids
<1>3. CASE m = 0 \/ table[m].type # "folder"
    <2>1. new = table
        BY <1>3 DEF MarkBelow
    <2>2. SameRows(table, table)
        BY DEF SameRows
    <2>3. \A k \in DOMAIN table : ~(table[k].uuid = uuid /\ table[k].type = "folder")
        BY <1>2, <1>3
    <2> QED
        BY <2>1, <2>2, <2>3
<1>4. CASE m # 0 /\ table[m].type = "folder"
    <2>1. new = DeleteRows(table, ids)
        BY <1>4 DEF MarkBelow
    <2> HIDE DEF m
    <2>2. SameRows(table, new) /\ \A n \in DOMAIN table :
            new[n].deleted <=> table[n].deleted \/ n \in ids
        BY <2>1, DeleteRowsFacts
    <2>3. \A n \in DOMAIN table : n \in ids <=>
            \E k \in DOMAIN table : /\ table[k].uuid = uuid /\ table[k].type = "folder"
                                    /\ table[n].device = table[k].device
                                    /\ Below(table[k].path, table[n].path)
        BY <1>1, <1>2, <1>4
    <2> QED
        BY <2>2, <2>3
<1> QED
    BY <1>3, <1>4

(* What is in a directory matches its pattern if it has no backslash, and  *)
(* every pattern that the directory matches.                               *)
LEMMA WithinFacts ==
    ASSUME NEW path \in Seq(STRING) \ {<<>>}, NEW up \in Seq(STRING), SamePath(up, Dir(path))
    PROVE  /\ Len(up) < Len(path) /\ Within(up, path)
           /\ \A dir \in Seq(STRING) : Within(dir, up) => Within(dir, path)
<1>1. /\ Dir(path) \in Seq(STRING) /\ Len(Dir(path)) = Len(path) - 1 /\ Len(path) \in Nat
      /\ \A i \in 1..Len(path) - 1 : Dir(path)[i] = path[i]
    BY DirFacts
<1>2. Len(up) = Len(path) - 1 /\ \A i \in 1..Len(up) : Fold(up[i]) = Fold(path[i])
    BY <1>1 DEF SamePath
<1>3. Within(up, path)
    BY <1>1, <1>2 DEF Within
<1>4. ASSUME NEW dir \in Seq(STRING), Within(dir, up)
      PROVE  Within(dir, path)
    BY <1>1, <1>2, <1>4 DEF Within
<1> QED
    BY <1>1, <1>2, <1>3, <1>4

LEMMA BelowFacts ==
    ASSUME NEW path \in Paths, path \in Seq(STRING) \ {<<>>},
           NEW up \in Paths, up \in Seq(STRING), SamePath(up, Dir(path))
    PROVE  /\ up \notin Escaped => Below(up, path)
           /\ \A dir \in Paths : dir \in Seq(STRING) /\ Below(dir, up) => Below(dir, path)
BY WithinFacts, StraysAssumption DEF Below

LEMMA PathsFacts ==
    ASSUME NEW e \in Events
    PROVE  /\ e.path \in Paths /\ e.path \in Seq(STRING) \ {<<>>}
           /\ \A i \in 1..Len(e.path) : SubSeq(e.path, 1, i) \in Paths
           /\ \A i \in 1..Len(e.path) : Folded(SubSeq(e.path, 1, i)) \in Seq(STRING)
<1>1. e.path \in Seq(STRING) \ {<<>>}
    BY EventsAssumption
<1>2. \A i \in 1..Len(e.path) : SubSeq(e.path, 1, i) \in Paths
    BY DEF Paths
<1>3. Len(e.path) \in 1..Len(e.path) /\ SubSeq(e.path, 1, Len(e.path)) = e.path
    BY <1>1
<1> QED
    BY <1>1, <1>2, <1>3, FoldAssumption

(***************************************************************************)
(* The table and the threads that work on it.                              *)
(***************************************************************************)
TableTypes ==
    /\ nodes \in Seq(Rows) /\ UniqueUuids(nodes)
    /\ next \in [Threads -> Nat] /\ parent \in [Threads -> Nat]
    /\ dropped \in Nat /\ missed \subseteq DOMAIN log

(* A folder's uuid gives away its path, and a file is where some event has *)
(* put it.                                                                 *)
PathOfKind(row) ==
    /\ row.path # <<>> /\ row.path \in Paths
    /\ row.type = "folder" =>
         row.uuid \in {FolderUuid(Device, row.path), PlaceholderUuid(row.path)}
    /\ row.type = "file" =>
         /\ row.uuid.from = "file"
         /\ \E e \in Events : e.type = "file" /\ e.path = row.path

KindsFit == \A n \in DOMAIN nodes : nodes[n].device = Device => PathOfKind(nodes[n])

(* A thread is at an event of its batch, and without a thread left behind  *)
(* there is one at most.                                                   *)
AtEvents ==
    /\ \A t \in Threads : stage[t] \in {"node", "below"} =>
         /\ next[t] \in batch[t]
         /\ Event(t).action = IF stage[t] = "node" THEN "put" ELSE "delete"
    /\ waits # NoThread => next[waits] \in mark + 1..upto + 1
    /\ late = 0 => \A t \in Threads : stage[t] # "free" => t = waits

TableInv == SyncInv /\ TableTypes /\ KindsFit /\ AtEvents

LEMMA TableInvInit == Init => TableInv
<1> SUFFICES ASSUME Init
             PROVE  TableInv
    OBVIOUS
<1>1. SyncInv
    BY SyncInvInit
<1>2. TableTypes /\ KindsFit /\ AtEvents
    BY StrangersAssumption DEF Init, TableTypes, KindsFit, AtEvents
<1> QED
    BY <1>1, <1>2 DEF TableInv

(* The steps that leave the table alone.                                   *)
LEMMA LastOfFacts ==
    ASSUME log \in Seq(Events), NEW uuid
    PROVE  LastOf(uuid) # 0 =>
             /\ LastOf(uuid) \in DOMAIN log /\ log[LastOf(uuid)].uuid = uuid
             /\ \A k \in DOMAIN log : log[k].uuid = uuid => k <= LastOf(uuid)
<1> DEFINE ids == {n \in DOMAIN log : log[n].uuid = uuid /\
                     \A k \in DOMAIN log : log[k].uuid = uuid => k <= n}
<1>1. ids \in SUBSET (Nat \ {0})
    OBVIOUS
<1> QED
    BY <1>1, FirstFacts DEF LastOf

LEMMA LogKeepsTable ==
    ASSUME TableInv, NEW e \in Events, Log(e)
    PROVE  TableInv'
<1>1. /\ log \in Seq(Events) /\ log' = Append(log, e)
      /\ UNCHANGED <<nodes, dropped, missed, next, parent, stage, batch, waits, mark, upto, late>>
    BY DEF Log, clientVars, threadVars, treeVars, faultVars, TableInv, SyncInv, Types
<1>2. /\ Len(log') = Len(log) + 1 /\ log' \in Seq(Events)
      /\ \A k \in DOMAIN log : log'[k] = log[k]
      /\ log'[Len(log) + 1] = e
    BY <1>1
<1>3. SyncInv' /\ TableTypes' /\ KindsFit'
    BY <1>1, <1>2, LogGrows DEF TableInv, TableTypes, KindsFit
<1>4. AtEvents'
    <2>1. \A t \in Threads : next[t] \in batch[t] => Event(t)' = Event(t)
        BY <1>1, <1>2 DEF TableInv, SyncInv, Types, Event
    <2> QED
        BY <1>1, <2>1 DEF TableInv, AtEvents
<1> QED
    BY <1>3, <1>4 DEF TableInv

LEMMA RestKeepsTable ==
    ASSUME TableInv,
           \/ Send \/ Received \/ GiveUp \/ ServerCrash
           \/ \E t \in Threads : BulkCreate(t)
    PROVE  TableInv'
<1> USE ThreadsAssumption
<1>1. SyncInv'
    BY SendPreserves, ReceivedPreserves, GiveUpPreserves, CrashPreserves, BulkCreatePreserves
    DEF TableInv
<1>2. UNCHANGED <<log, nodes, parent, dropped, missed>>
    BY DEF Send, Received, GiveUp, ServerCrash, BulkCreate, threadVars, treeVars
<1>3. KindsFit'
    BY <1>2 DEF TableInv, KindsFit
<1>4. CASE Send
    <2>1. /\ mark \in Nat /\ upto' \in Nat /\ mark + 1 <= upto' + 1 /\ waits = NoThread
          /\ UNCHANGED <<mark, late>>
        BY <1>4, BoundsAssumption DEF Send, Idle, BatchEnd, TableInv, SyncInv, Types, OneRequest
    <2>2. CASE UNCHANGED <<waits, stage, next, batch>>
        BY <1>1, <1>2, <1>3, <2>1, <2>2 DEF TableInv, TableTypes, AtEvents, Event
    <2>3. CASE \E t \in Threads \ Busy :
             /\ waits' = t
             /\ stage' = [stage EXCEPT ![t] = "event"]
             /\ next' = [next EXCEPT ![t] = mark + 1]
             /\ batch' = [batch EXCEPT ![t] = mark + 1..upto']
        <3>1. PICK t \in Threads \ Busy :
                /\ waits' = t
                /\ stage' = [stage EXCEPT ![t] = "event"]
                /\ next' = [next EXCEPT ![t] = mark + 1]
                /\ batch' = [batch EXCEPT ![t] = mark + 1..upto']
            BY <2>3
        <3>2. /\ next'[t] = mark + 1 /\ stage'[t] = "event"
              /\ \A u \in Threads \ {t} : next'[u] = next[u] /\ stage'[u] = stage[u] /\ batch'[u] = batch[u]
            BY <3>1 DEF TableInv, SyncInv, Types, TableTypes
        <3>3. TableTypes'
            BY <1>2, <2>1, <3>1 DEF TableInv, TableTypes
        <3>4. \A u \in Threads : stage'[u] \in {"node", "below"} =>
                 /\ next'[u] \in batch'[u]
                 /\ Event(u)'.action = IF stage'[u] = "node" THEN "put" ELSE "delete"
            BY <1>2, <3>2 DEF TableInv, AtEvents, Event
        <3>5. waits' # NoThread => next'[waits'] \in mark' + 1..upto' + 1
            <4>1. waits' = t /\ next'[t] = mark + 1 /\ mark' = mark
                BY <2>1, <3>1, <3>2
            <4>2. mark + 1 \in mark + 1..upto' + 1
                <5>1. \A m, u \in Nat : m + 1 <= u + 1 => m + 1 \in m + 1..u + 1
                    OBVIOUS
                <5> QED
                    BY <2>1, <5>1
            <4> QED
                BY <4>1, <4>2
        <3>6. late' = 0 => \A u \in Threads : stage'[u] # "free" => u = waits'
            BY <2>1, <3>1, <3>2 DEF TableInv, AtEvents
        <3>7. AtEvents'
            BY <3>4, <3>5, <3>6 DEF AtEvents
        <3> QED
            BY <1>1, <1>3, <3>3, <3>7 DEF TableInv
    <2> QED
        BY <1>4, <2>2, <2>3 DEF Send
<1>5. CASE Received
    BY <1>1, <1>2, <1>3, <1>5
    DEF Received, threadVars, faultVars, TableInv, SyncInv, OneRequest, TableTypes, AtEvents, Event
<1>6. CASE GiveUp
    BY <1>1, <1>2, <1>3, <1>6
    DEF GiveUp, threadVars, TableInv, SyncInv, Types, TableTypes, AtEvents, Event
<1>7. CASE ServerCrash
    BY <1>1, <1>2, <1>3, <1>7
    DEF ServerCrash, TableInv, SyncInv, Types, TableTypes, AtEvents, Event
<1>8. CASE \E t \in Threads : BulkCreate(t)
    BY <1>1, <1>2, <1>3, <1>8
    DEF BulkCreate, Answers, Goes, TableInv, SyncInv, Types, TableTypes, AtEvents, Event
<1> QED
    BY <1>4, <1>5, <1>6, <1>7, <1>8

(***************************************************************************)
(* The steps of a thread that work on the table.                           *)
(***************************************************************************)
(* What a thread at work knows: its event, which is one of its batch.      *)
LEMMA EventFacts ==
    ASSUME TableInv, NEW t \in Threads, TreeStep(t)
    PROVE  /\ next[t] \in batch[t] /\ next[t] \in DOMAIN log /\ next[t] \in Nat
           /\ Event(t) \in Events /\ Event(t) = log[next[t]]
           /\ Event(t).uuid \in Uuids /\ Event(t).path \in Seq(STRING) \ {<<>>}
           /\ Event(t).type \in {"file", "folder"}
           /\ Device \in STRING /\ parent[t] \in Nat
           /\ \A i \in 1..Len(Event(t).path) :
                Folded(SubSeq(Event(t).path, 1, i)) \in Seq(STRING)
<1>1. next[t] \in batch[t]
    <2>1. stage[t] \in {"node", "below"} \/ next[t] \in batch[t]
        BY ParentStepIs, EventStepIs DEF TreeStep, MarkNode, Takes
    <2> QED
        BY <2>1 DEF TableInv, AtEvents
<1>2. next[t] \in DOMAIN log /\ next[t] \in Nat /\ parent[t] \in Nat
    BY <1>1 DEF TableInv, SyncInv, Types, TableTypes
<1>3. Event(t) \in Events
    BY <1>2 DEF Event, TableInv, SyncInv, Types
<1> QED
    BY <1>1, <1>2, <1>3, EventsAssumption, PathsFacts DEF Event

LEMMA FolderUuidFacts ==
    ASSUME NEW p \in Seq(STRING), NEW q \in Seq(STRING), Device \in STRING,
           FolderUuid(Device, p) = FolderUuid(Device, q)
    PROVE  p = q
<1>1. <<Device>> \o p = <<Device>> \o q
    BY DEF FolderUuid
<1>2. Len(p) = Len(q)
    <2>1. Len(<<Device>> \o p) = Len(p) + 1 /\ Len(<<Device>> \o q) = Len(q) + 1
        OBVIOUS
    <2> QED
        BY <1>1, <2>1
<1>3. \A i \in 1..Len(p) : p[i] = q[i]
    <2>1. \A i \in 1..Len(p) : (<<Device>> \o p)[i + 1] = p[i]
        OBVIOUS
    <2>2. \A i \in 1..Len(q) : (<<Device>> \o q)[i + 1] = q[i]
        OBVIOUS
    <2> QED
        BY <1>1, <1>2, <2>1, <2>2
<1> QED
    BY <1>2, <1>3

(* A row of the device keeps its kind when an event moves it: a folder is  *)
(* where it was.                                                           *)
LEMMA RowKeepsKind ==
    ASSUME NEW row \in Rows, PathOfKind(row), NEW e \in Events, row.uuid = e.uuid
    PROVE  /\ row.type = e.type
           /\ e.type = "folder" => row.path = e.path
<1>1. /\ e.path \in Seq(STRING) /\ Device \in STRING
      /\ \/ e.type = "file" /\ e.uuid.from = "file"
         \/ e.type = "folder" /\ e.uuid = FolderUuid(Device, e.path)
    BY EventsAssumption
<1>2. row.path \in Seq(STRING) /\ row.type \in {"file", "folder"}
    BY DEF Rows
<1>3. e.type = "folder" => e.uuid.from = "folder"
    BY <1>1 DEF FolderUuid
<1>4. row.type = "folder" =>
        \/ row.uuid = FolderUuid(Device, row.path) /\ row.uuid.from = "folder"
        \/ row.uuid.from = "placeholder"
    <2>1. FolderUuid(Device, row.path).from = "folder" /\ PlaceholderUuid(row.path).from = "placeholder"
        BY DEF FolderUuid, PlaceholderUuid
    <2> QED
        BY <2>1 DEF PathOfKind
<1>5. row.type = "file" => row.uuid.from = "file"
    BY DEF PathOfKind
<1>6. row.type = e.type
    BY <1>1, <1>2, <1>3, <1>4, <1>5
<1>7. ASSUME e.type = "folder"
      PROVE  row.path = e.path
    <2>1. FolderUuid(Device, row.path) = FolderUuid(Device, e.path)
        BY <1>1, <1>3, <1>4, <1>6, <1>7
    <2> QED
        BY <1>1, <1>2, <2>1, FolderUuidFacts
<1> QED
    BY <1>6, <1>7

LEMMA EventHasKind ==
    ASSUME NEW row \in Rows, NEW e \in Events,
           row.uuid = e.uuid, row.path = e.path, row.type = e.type
    PROVE  PathOfKind(row)
BY EventsAssumption, PathsFacts DEF PathOfKind, FolderUuid

(* What a thread finds or makes for a parent, whatever errors there are.   *)
LEMMA ParentStepFacts ==
    ASSUME TableInv, NEW t \in Threads, ParentStep(t)
    PROVE  \E found : /\ nodes' = found.nodes /\ parent' = [parent EXCEPT ![t] = found.id]
                      /\ Placed(nodes, nodes', Device, Event(t).path) /\ found.id \in Nat
                      /\ \/ found.id = 0
                         \/ LiveAt(nodes', found.id, Device, Dir(Event(t).path))
<1>1. PICK errors : ParentWith(t, errors)
    BY ParentStepIs
<1> DEFINE found == EnsureParent(nodes, Device, Event(t).path, errors)
<1>2. nodes' = found.nodes /\ parent' = [parent EXCEPT ![t] = found.id]
    BY <1>1 DEF ParentWith
<1>3. /\ Event(t).path \in Seq(STRING) \ {<<>>} /\ Device \in STRING
      /\ nodes \in Seq(Rows) /\ UniqueUuids(nodes)
      /\ \A i \in 1..Len(Event(t).path) : Folded(SubSeq(Event(t).path, 1, i)) \in Seq(STRING)
    BY EventFacts DEF TreeStep, TableInv, TableTypes
<1>4. /\ Placed(nodes, found.nodes, Device, Event(t).path) /\ found.id \in Nat
      /\ found.id = 0 \/ LiveAt(found.nodes, found.id, Device, Dir(Event(t).path))
    BY <1>3, EnsureParentFacts
<1> HIDE DEF found
<1> QED
    BY <1>2, <1>4

LEMMA FindParentKeepsTable ==
    ASSUME TableInv, NEW t \in Threads, ParentStep(t)
    PROVE  TableTypes' /\ KindsFit'
<1> PICK found : /\ nodes' = found.nodes /\ parent' = [parent EXCEPT ![t] = found.id]
                 /\ Placed(nodes, nodes', Device, Event(t).path) /\ found.id \in Nat
    BY ParentStepFacts
<1>1. /\ UNCHANGED <<next, missed, log>> /\ dropped' \in {dropped, dropped + 1}
    BY ParentStepIs
<1>2. /\ Event(t).path \in Seq(STRING) \ {<<>>} /\ Device \in STRING
      /\ nodes \in Seq(Rows) /\ UniqueUuids(nodes)
    BY EventFacts DEF TreeStep, TableInv, TableTypes
<1>3. Placed(nodes, nodes', Device, Event(t).path) /\ found.id \in Nat
    OBVIOUS
<1>4. TableTypes'
    BY <1>1, <1>3 DEF Placed, TableInv, TableTypes
<1>5. KindsFit'
    <2> SUFFICES ASSUME NEW n \in DOMAIN nodes', nodes'[n].device = Device
                 PROVE  PathOfKind(nodes'[n])
        BY DEF KindsFit
    <2>1. CASE n \in 1..Len(nodes)
        BY <1>3, <2>1 DEF Placed, TableInv, TableTypes, KindsFit
    <2>2. CASE n \in Len(nodes) + 1..Len(nodes')
        <3>1. Placeholder(nodes', n, Device, Event(t).path)
            BY <1>3, <2>2 DEF Placed
        <3>2. nodes'[n].path # <<>> /\ nodes'[n].path \in Paths
            <4>1. PICK i \in 1..Len(Event(t).path) - 1 : nodes'[n].path = SubSeq(Event(t).path, 1, i)
                BY <3>1 DEF Placeholder
            <4>2. i \in 1..Len(Event(t).path)
                BY <1>2
            <4>3. Event(t) \in Events
                BY EventFacts DEF TreeStep
            <4> QED
                BY <1>2, <4>1, <4>2, <4>3, PrefixFacts, PathsFacts
        <3> QED
            BY <3>1, <3>2 DEF Placeholder, PathOfKind
    <2> QED
        BY <1>2, <1>3, <2>1, <2>2 DEF Placed
<1> QED
    BY <1>4, <1>5

LEMMA SaveNodeKeepsTable ==
    ASSUME TableInv, NEW t \in Threads, SaveNode(t)
    PROVE  TableTypes' /\ KindsFit'
<1> DEFINE e == Event(t)
<1>1. /\ nodes' = UpsertNode(nodes, Device, parent[t], e.uuid, e.path, e.type)
      /\ next' = [next EXCEPT ![t] = @ + 1] /\ UNCHANGED <<parent, dropped, log>>
      /\ missed' = missed \ {next[t]}
    BY DEF SaveNode, Applied, EventDone
<1>2. /\ e \in Events /\ e.uuid \in Uuids /\ e.path \in Seq(STRING) /\ e.path # <<>>
      /\ e.type \in {"file", "folder"} /\ Device \in STRING /\ parent[t] \in Nat
      /\ nodes \in Seq(Rows) /\ UniqueUuids(nodes)
    BY EventFacts DEF TreeStep, NodeStep, TableInv, TableTypes
<1> HIDE DEF e
<1>3. nodes' \in Seq(Rows) /\ UniqueUuids(nodes')
    BY <1>1, <1>2, UpsertFacts
<1>4. PICK n \in DOMAIN nodes' :
             Upserted(nodes, nodes', n, Device, parent[t], e.uuid, e.path, e.type)
    BY <1>1, <1>2, UpsertFacts
<1>5. nodes'[n] \in Rows
    BY <1>3
<1>6. TableTypes'
    BY <1>1, <1>3 DEF TableInv, TableTypes
<1>7. nodes'[n].device = Device => PathOfKind(nodes'[n])
    <2>1. CASE n \notin DOMAIN nodes
        BY <1>2, <1>4, <1>5, <2>1, EventHasKind DEF Upserted
    <2>2. CASE n \in DOMAIN nodes /\ nodes[n].device = Device
        <3>1. nodes[n] \in Rows /\ PathOfKind(nodes[n])
            BY <1>2, <2>2 DEF TableInv, KindsFit
        <3>2. nodes[n].type = e.type
            BY <1>2, <1>4, <2>2, <3>1, RowKeepsKind DEF Upserted
        <3> QED
            BY <1>2, <1>4, <1>5, <2>2, <3>2, EventHasKind DEF Upserted
    <2> QED
        BY <1>4, <2>1, <2>2 DEF Upserted
<1>8. KindsFit'
    BY <1>4, <1>7 DEF TableInv, KindsFit, Upserted
<1> QED
    BY <1>6, <1>8

LEMMA MarkingKeepsTable ==
    ASSUME TableInv, NEW t \in Threads, MarkNode(t) \/ MarkChildren(t)
    PROVE  TableTypes' /\ KindsFit' /\ SameRows(nodes, nodes')
<1>1. nodes \in Seq(Rows) /\ UniqueUuids(nodes)
    BY DEF TableInv, TableTypes
<1>2. SameRows(nodes, nodes')
    <2>1. CASE MarkNode(t)
        BY <1>1, <2>1, MarkSelfFacts DEF MarkNode
    <2>2. CASE MarkChildren(t)
        BY <1>1, <2>2, MarkBelowFacts DEF MarkChildren
    <2> QED
        BY <2>1, <2>2
<1>3. TableTypes'
    BY <1>2 DEF MarkNode, MarkChildren, Applied, EventDone, SameRows, TableInv, TableTypes
<1>4. KindsFit'
    BY <1>2 DEF SameRows, TableInv, KindsFit, PathOfKind
<1> QED
    BY <1>2, <1>3, <1>4

LEMMA UpdateFailsKeepsTable ==
    ASSUME TableInv, NEW t \in Threads, UpdateFails(t)
    PROVE  TableTypes' /\ KindsFit'
<1>1. /\ UNCHANGED <<log, nodes, parent>> /\ next' = [next EXCEPT ![t] = @ + 1]
      /\ missed' = missed \union {next[t]} /\ dropped' \in {dropped, dropped + 1}
    BY EventStepIs DEF EventDone
<1>2. next[t] \in DOMAIN log
    BY EventFacts DEF TreeStep
<1> QED
    BY <1>1, <1>2 DEF TableInv, TableTypes, KindsFit

LEMMA TreeKeepsTable ==
    ASSUME TableInv, NEW t \in Threads, TreeStep(t)
    PROVE  TableInv'
<1> USE ThreadsAssumption
<1>1. SyncInv'
    BY TreePreserves DEF TableInv
<1>2. TableTypes' /\ KindsFit'
    BY FindParentKeepsTable, SaveNodeKeepsTable, MarkingKeepsTable, UpdateFailsKeepsTable
    DEF TreeStep, NodeStep
<1>3. UNCHANGED <<log, batch, waits, mark, upto, late>>
    BY TreeStepIs DEF clientVars, faultVars
<1>5. /\ next[t] \in Nat /\ next[t] \in batch[t] /\ stage[t] # "free"
      /\ waits # NoThread => batch[waits] = mark + 1..upto
    BY EventFacts, TreeStepIs DEF TableInv, SyncInv, OneRequest
<1>6. \/ /\ stage' = [stage EXCEPT ![t] = "event"]
         /\ next' = [next EXCEPT ![t] = @ + 1]
      \/ /\ stage' = [stage EXCEPT ![t] = "node"]
         /\ next' = next /\ Event(t).action = "put"
      \/ /\ stage' = [stage EXCEPT ![t] = "below"]
         /\ next' = next /\ Event(t).action = "delete"
    BY ParentStepIs, EventStepIs DEF TreeStep, EventDone, MarkNode, Goes, Takes
<1>7. AtEvents'
    <2>1. \A u \in Threads : stage'[u] \in {"node", "below"} =>
             /\ next'[u] \in batch'[u]
             /\ Event(u)'.action = IF stage'[u] = "node" THEN "put" ELSE "delete"
        BY <1>3, <1>5, <1>6 DEF TableInv, SyncInv, Types, TableTypes, AtEvents, Event
    <2>2. waits' # NoThread => next'[waits'] \in mark' + 1..upto' + 1
        <3> SUFFICES ASSUME waits # NoThread
                     PROVE  next'[waits] \in mark + 1..upto + 1
            BY <1>3
        <3>1. next[waits] \in mark + 1..upto + 1 /\ mark \in Nat /\ upto \in Nat
            BY DEF TableInv, SyncInv, Types, AtEvents
        <3>2. CASE waits = t
            BY <1>5, <1>6, <3>1, <3>2 DEF TableInv, TableTypes
        <3>3. CASE waits # t
            <4>1. waits \in Threads
                BY DEF TableInv, SyncInv, Types
            <4>2. next'[waits] = next[waits]
                BY <1>6, <3>3, <4>1 DEF TableInv, TableTypes
            <4> QED
                BY <3>1, <4>2
        <3> QED
            BY <3>2, <3>3
    <2>3. late' = 0 => \A u \in Threads : stage'[u] # "free" => u = waits'
        BY <1>3, <1>5, <1>6 DEF TableInv, SyncInv, Types, AtEvents
    <2> QED
        BY <2>1, <2>2, <2>3 DEF AtEvents
<1> QED
    BY <1>1, <1>2, <1>7 DEF TableInv

LEMMA TableStep ==
    ASSUME TableInv, [Next]_vars
    PROVE  TableInv'
<1>1. CASE UNCHANGED vars
    BY <1>1, SyncStep
    DEF vars, clientVars, threadVars, treeVars, faultVars, TableInv, TableTypes, KindsFit,
        AtEvents, Event
<1>2. CASE Next
    BY <1>2, LogKeepsTable, RestKeepsTable, TreeKeepsTable
    DEF Next, ClientStep, SyncEvents, TreeStep, ParentStep, NodeStep
<1> QED
    BY <1>1, <1>2

LEMMA TableInvariance == Spec => []TableInv
<1>1. TableInv /\ [Next]_vars => TableInv'
    BY TableStep
<1> QED
    BY <1>1, TableInvInit, PTL DEF Spec

(* Every variable keeps its type, and a uuid has one row, whoever put it   *)
(* there.                                                                  *)
THEOREM TypeCorrect == Spec => []TypeOK
<1>1. TableInv => TypeOK
    BY DEF TableInv, SyncInv, Types, TableTypes, TypeOK
<1> QED
    BY <1>1, TableInvariance, PTL

(***************************************************************************)
(* How far the events are applied: the next one to be is Reached.  It goes *)
(* back when a batch has to be sent again.                                 *)
(***************************************************************************)
Reached == IF waits # NoThread THEN next[waits]
           ELSE IF answer = "success" THEN upto + 1 ELSE mark + 1

(* A step that leaves the table alone: events may be logged, and what is   *)
(* applied may have to be applied again.                                   *)
Quiet ==
    /\ late = 0 /\ UNCHANGED <<nodes, missed>> /\ log' \in Seq(Events)
    /\ Len(log) <= Len(log') /\ \A k \in DOMAIN log : log'[k] = log[k]
    /\ Reached \in Nat \ {0} /\ Reached' \in Nat \ {0} /\ Reached' <= Reached
    /\ \A t \in Threads : stage'[t] \in {"node", "below"} =>
         /\ stage'[t] = stage[t] /\ next'[t] = next[t] /\ parent'[t] = parent[t]
         /\ Event(t)' = Event(t)

LEMMA ReachedFacts ==
    ASSUME TableInv
    PROVE  /\ Reached \in Nat \ {0} /\ mark \in Nat /\ mark + 1 <= Reached
           /\ Len(log) \in Nat /\ Reached <= Len(log) + 1
<1>1. /\ mark \in Nat /\ upto \in Nat /\ (upto # 0 => mark < upto)
      /\ Len(log) \in Nat /\ mark <= Len(log) /\ upto <= Len(log)
    BY DEF TableInv, SyncInv, Types, OneRequest
<1>2. CASE waits # NoThread
    <2>1. next[waits] \in mark + 1..upto + 1
        BY <1>2 DEF TableInv, AtEvents
    <2>2. \A m, u \in Nat : \A n \in m + 1..u + 1 : n \in Nat \ {0} /\ m + 1 <= n /\ n <= u + 1
        OBVIOUS
    <2> QED
        BY <1>1, <1>2, <2>1, <2>2 DEF Reached
<1>3. CASE waits = NoThread
    BY <1>1, <1>3 DEF TableInv, SyncInv, OneRequest, Reached
<1> QED
    BY <1>2, <1>3

LEMMA QuietSteps ==
    ASSUME TableInv, late' = 0,
           \/ \E e \in Events : Log(e)
           \/ Send \/ Received \/ GiveUp \/ ServerCrash
           \/ \E t \in Threads : BulkCreate(t)
    PROVE  Quiet
<1> USE ThreadsAssumption
<1>1. TableInv' /\ log \in Seq(Events) /\ log' \in Seq(Events)
    BY LogKeepsTable, RestKeepsTable DEF TableInv, SyncInv, Types
<1>2. Reached \in Nat \ {0} /\ mark \in Nat /\ mark + 1 <= Reached
    BY ReachedFacts
<1>3. UNCHANGED <<nodes, missed>>
    BY DEF Log, Send, Received, GiveUp, ServerCrash, BulkCreate, treeVars
<1>4. Len(log) <= Len(log') /\ \A k \in DOMAIN log : log'[k] = log[k]
    BY <1>1 DEF Log, Send, Received, GiveUp, ServerCrash, BulkCreate
<1>5. late = 0 /\ ~GiveUp
    BY DEF Log, Send, Received, GiveUp, ServerCrash, BulkCreate, faultVars, TableInv, SyncInv, Types
<1>6. Reached' \in {Reached, mark + 1}
    <2>1. CASE \E e \in Events : Log(e)
        BY <2>1 DEF Log, clientVars, threadVars, Reached
    <2>2. CASE Send
        BY <2>2 DEF Send, Idle, TableInv, SyncInv, Types, OneRequest, TableTypes, Reached
    <2>3. CASE Received
        BY <2>3 DEF Received, TableInv, SyncInv, OneRequest, Reached
    <2>4. CASE ServerCrash
        BY <2>4 DEF ServerCrash, Reached
    <2>5. CASE \E t \in Threads : BulkCreate(t)
        <3>1. PICK t \in Threads : BulkCreate(t)
            BY <2>5
        <3>2. waits = t /\ next[t] \notin batch[t] /\ batch[t] = mark + 1..upto
            BY <1>5, <3>1 DEF BulkCreate, TableInv, AtEvents, SyncInv, OneRequest
        <3>3. next[t] \in mark + 1..upto + 1 /\ mark \in Nat /\ upto \in Nat
            BY <3>2 DEF TableInv, AtEvents, SyncInv, Types
        <3>4. next[t] = upto + 1
            <4>1. \A m, u \in Nat : \A n \in m + 1..u + 1 : n \notin m + 1..u => n = u + 1
                OBVIOUS
            <4> QED
                BY <3>2, <3>3, <4>1
        <3>5. Reached = upto + 1 /\ waits' = NoThread /\ UNCHANGED <<mark, upto>>
            BY <3>1, <3>2, <3>4 DEF BulkCreate, Answers, Reached
        <3> QED
            BY <3>5 DEF Reached
    <2> QED
        BY <1>5, <2>1, <2>2, <2>3, <2>4, <2>5
<1>7. ASSUME NEW t \in Threads, stage'[t] \in {"node", "below"}
      PROVE  /\ stage'[t] = stage[t] /\ next'[t] = next[t] /\ parent'[t] = parent[t]
             /\ Event(t)' = Event(t)
    <2>1. stage'[t] = stage[t] /\ next'[t] = next[t] /\ parent' = parent
        BY <1>7 DEF Log, Send, Received, GiveUp, ServerCrash, BulkCreate, Answers, Goes, threadVars,
                    TableInv, SyncInv, Types, TableTypes
    <2>2. next[t] \in DOMAIN log
        BY <1>7, <2>1 DEF TableInv, AtEvents, SyncInv, Types
    <2> QED
        BY <1>4, <2>1, <2>2 DEF Event
<1> QED
    BY <1>1, <1>2, <1>3, <1>4, <1>5, <1>6, <1>7 DEF Quiet

(* A step of a thread on the table, while no thread was left behind: it is *)
(* the one the worker waits for, at the event that is next.                *)
LEMMA TreeSteps ==
    ASSUME TableInv, late' = 0, NEW t \in Threads, TreeStep(t)
    PROVE  /\ late = 0 /\ Reached = next[t] /\ Reached \in DOMAIN log /\ Reached \in Nat \ {0}
           /\ Reached' = next'[t]
           /\ log' = log /\ log \in Seq(Events)
           /\ \A u \in Threads : stage'[u] # "free" => u = t
<1>1. UNCHANGED <<log, waits, late>>
    BY TreeStepIs DEF clientVars, faultVars
<1>2. stage[t] # "free"
    BY TreeStepIs
<1>3. waits = t /\ waits # NoThread
    BY <1>1, <1>2, ThreadsAssumption DEF TableInv, AtEvents
<1>4. Reached = next[t] /\ Reached' = next'[t]
    BY <1>1, <1>3 DEF Reached
<1>5. next[t] \in DOMAIN log /\ log \in Seq(Events)
    BY EventFacts DEF TableInv, SyncInv, Types
<1>6. TableInv'
    BY TreeKeepsTable
<1>7. \A u \in Threads : stage'[u] # "free" => u = t
    BY <1>1, <1>3, <1>6 DEF TableInv, AtEvents
<1> QED
    BY <1>1, <1>4, <1>5, <1>7

(* Whoever opens every folder finds all live rows of a device, if each is  *)
(* at the top or below a live row at its directory: the number of live     *)
(* rows with a shorter path bounds how deep it is.                         *)
AreLayers(f, table, dev, K) ==
    f = [depth \in 0..K |->
          IF depth = 0 THEN QueryTree(table, dev, 0) ELSE Opened(table, dev, f[depth - 1])]

LEMMA LayersExist ==
    ASSUME NEW table, NEW dev, NEW K \in Nat
    PROVE  \E f : AreLayers(f, table, dev, K)
<1> USE DEF AreLayers
<1> DEFINE Solves(f, k) == AreLayers(f, table, dev, k)
           Unsolved == {k \in Nat : ~\E f : Solves(f, k)}
<1>1. CASE K \in Unsolved
    <2>1. PICK k \in Unsolved : \A j \in Unsolved : k <= j
        BY <1>1, LeastNumber
    <2>2. k # 0
        <3> DEFINE f == [depth \in 0..0 |-> QueryTree(table, dev, 0)]
        <3>1. Solves(f, 0)
            OBVIOUS
        <3> QED
            BY <3>1
    <2>3. k - 1 \in Nat /\ ~(k <= k - 1)
        BY <2>1, <2>2
    <2>4. PICK f : Solves(f, k - 1)
        <3> HIDE DEF Solves, AreLayers
        <3> QED
            BY <2>1, <2>3
    <2> DEFINE g == [depth \in 0..k |->
                       IF depth < k THEN f[depth]
                       ELSE Opened(table, dev, f[k - 1])]
    <2>5. Solves(g, k)
        BY <2>2, <2>3, <2>4
    <2> QED
        BY <2>5
<1>2. CASE K \notin Unsolved
    BY <1>2
<1> QED
    BY <1>1, <1>2

LEMMA BrowsedIs ==
    ASSUME NEW table, NEW dev, Len(table) \in Nat
    PROVE  \E f : /\ f[0] = QueryTree(table, dev, 0)
                  /\ \A d \in 1..Len(table) :
                       f[d] = Opened(table, dev, f[d - 1])
                  /\ Browsed(table, dev) = f[Len(table)]
<1> DEFINE K == Len(table)
<1>0. \E f : AreLayers(f, table, dev, K)
    BY LayersExist
<1> DEFINE layer[depth \in 0..K] ==
             IF depth = 0 THEN QueryTree(table, dev, 0)
             ELSE Opened(table, dev, layer[depth - 1])
<1>1. layer = [depth \in 0..K |->
             IF depth = 0 THEN QueryTree(table, dev, 0)
             ELSE Opened(table, dev, layer[depth - 1])]
    BY <1>0 DEF AreLayers
<1>2. Browsed(table, dev) = layer[Len(table)]
    BY DEF Browsed
<1> HIDE DEF layer
<1>3. layer[0] = QueryTree(table, dev, 0)
    BY <1>1
<1>4. \A d \in 1..Len(table) :
         layer[d] = Opened(table, dev, layer[d - 1])
    BY <1>1
<1> QED
    BY <1>2, <1>3, <1>4

Alive(rows, dev) == {n \in DOMAIN rows : rows[n].device = dev /\ ~rows[n].deleted}

Shorter(rows, dev, n) == {m \in Alive(rows, dev) : Len(rows[m].path) < Len(rows[n].path)}

LEMMA ShorterFacts ==
    ASSUME NEW table \in Seq(Rows), NEW dev
    PROVE  /\ \A n \in DOMAIN table : Cardinality(Shorter(table, dev, n)) \in 0..Len(table)
           /\ \A n \in DOMAIN table, p \in Alive(table, dev) :
                Len(table[p].path) < Len(table[n].path) =>
                  Cardinality(Shorter(table, dev, p)) < Cardinality(Shorter(table, dev, n))
<1> DEFINE S(n) == Shorter(table, dev, n)
<1>1. IsFiniteSet(1..Len(table)) /\ Cardinality(1..Len(table)) = Len(table)
    <2>1. Len(table) \in Nat
        OBVIOUS
    <2>2. 1 - 1 = 0 /\ \A b \in Nat : b - 1 + 1 = b
        OBVIOUS
    <2> QED
        BY <2>1, <2>2, FS_Interval
<1>2. \A n : S(n) \subseteq 1..Len(table)
    BY DEF Shorter, Alive
<1>3. \A n : IsFiniteSet(S(n)) /\ Cardinality(S(n)) <= Len(table)
    BY <1>1, <1>2, FS_Subset
<1>4. \A n : Cardinality(S(n)) \in Nat
    BY <1>3, FS_CardinalityType
<1>5. ASSUME NEW n \in DOMAIN table, NEW p \in Alive(table, dev),
             Len(table[p].path) < Len(table[n].path)
      PROVE  Cardinality(S(p)) < Cardinality(S(n))
    <2>1. \A m \in DOMAIN table : Len(table[m].path) \in Nat
        BY DEF Rows
    <2>2. S(p) \subseteq S(n) /\ p \in S(n) /\ p \notin S(p)
        BY <1>5, <2>1 DEF Shorter, Alive
    <2> HIDE DEF S
    <2>3. S(p) # S(n)
        BY <2>2
    <2> QED
        BY <1>3, <1>4, <2>2, <2>3, FS_Subset
<1> QED
    BY <1>3, <1>4, <1>5

LEMMA BrowsedFacts ==
    ASSUME NEW table \in Seq(Rows), NEW dev, NEW G \in SUBSET Alive(table, dev),
           \A n \in G :
             /\ table[n].path # <<>>
             /\ \/ table[n].parent = 0
                \/ /\ table[n].parent \in G
                   /\ LiveAt(table, table[n].parent, dev, Dir(table[n].path))
    PROVE  G \subseteq Browsed(table, dev)
<1> DEFINE N == Len(table)
           Depth(n) == Cardinality(Shorter(table, dev, n))
<1>1. PICK f : /\ f[0] = QueryTree(table, dev, 0)
               /\ \A d \in 1..N :
                    f[d] = Opened(table, dev, f[d - 1])
               /\ Browsed(table, dev) = f[N]
    BY BrowsedIs
<1> DEFINE Good(d) == \A n \in G :
                        table[n].parent = 0 \/ Depth(n) <= d => n \in f[d]
           Wrong   == {d \in 0..N : ~Good(d)}
<1>2. /\ \A n \in G : Depth(n) \in 0..N
      /\ \A n \in G : table[n].parent # 0 =>
           table[n].parent \in G /\ Depth(table[n].parent) < Depth(n)
    <2>1. \A n \in G : Depth(n) \in 0..N
        BY ShorterFacts DEF Alive
    <2>2. ASSUME NEW n \in G, table[n].parent # 0
          PROVE  table[n].parent \in G /\ Depth(table[n].parent) < Depth(n)
        <3>1. LiveAt(table, table[n].parent, dev, Dir(table[n].path)) /\ table[n].path # <<>>
            BY <2>2 DEF LiveAt
        <3>2. table[n].parent \in Alive(table, dev)
            BY <3>1 DEF LiveAt, Alive
        <3>3. table[n].path \in Seq(STRING) /\ n \in DOMAIN table
            <4>1. n \in DOMAIN table
                BY DEF Alive
            <4>2. table[n] \in Rows
                BY <4>1
            <4> QED
                BY <4>1, <4>2 DEF Rows
        <3>4. Len(table[table[n].parent].path) < Len(table[n].path)
            BY <3>1, <3>3, DirFacts DEF LiveAt, SamePath
        <3> QED
            BY <2>2, <3>2, <3>3, <3>4, ShorterFacts
    <2> QED
        BY <2>1, <2>2
<1> HIDE DEF Depth
<1>3. Good(0)
    <2> SUFFICES ASSUME NEW n \in G, table[n].parent = 0 \/ Depth(n) <= 0
                 PROVE  n \in f[0]
        OBVIOUS
    <2>1. table[n].parent = 0
        BY <1>2
    <2> QED
        BY <1>1, <2>1 DEF QueryTree, Alive
<1>4. ASSUME NEW d \in 1..N, Good(d - 1)
      PROVE  Good(d)
    <2> SUFFICES ASSUME NEW n \in G, table[n].parent = 0 \/ Depth(n) <= d
                 PROVE  n \in f[d]
        OBVIOUS
    <2>1. CASE table[n].parent = 0
        BY <1>1, <1>4, <2>1 DEF Opened
    <2>2. CASE table[n].parent # 0
        <3> DEFINE p == table[n].parent
        <3>1. p \in G /\ Depth(p) <= d - 1
            BY <1>2, <2>2
        <3>2. p \in f[d - 1]
            BY <1>4, <3>1
        <3>3. n \in QueryTree(table, dev, p)
            BY DEF QueryTree, Alive
        <3> QED
            BY <1>1, <3>2, <3>3 DEF Opened
    <2> QED
        BY <2>1, <2>2
<1> HIDE DEF Good
<1>5. Wrong = {}
    <2> SUFFICES ASSUME Wrong # {}
                 PROVE  FALSE
        OBVIOUS
    <2>1. PICK d \in Wrong : \A k \in Wrong : d <= k
        <3>1. Wrong \in SUBSET Nat
            OBVIOUS
        <3> QED
            BY <3>1, LeastNumber
    <2>2. d \in 1..N /\ d - 1 \in 0..N /\ ~(d <= d - 1)
        BY <1>3, <2>1
    <2>3. Good(d - 1)
        BY <2>1, <2>2
    <2> QED
        BY <1>4, <2>1, <2>2, <2>3
<1>6. Good(N)
    <2>1. N \in 0..N
        OBVIOUS
    <2> QED
        BY <1>5, <2>1
<1> QED
    BY <1>1, <1>2, <1>6 DEF Good

(***************************************************************************)
(* Every live row can be found.                                            *)
(***************************************************************************)
(* Every live row is at the top or in a folder, which is live unless an    *)
(* event deletes it that is still to be applied, or that did not delete    *)
(* what is in it.                                                          *)
ToDelete(events, gone, from, row) ==
    \E k \in DOMAIN events :
        /\ events[k].action = "delete" /\ events[k].uuid = row.uuid
        /\ k >= from \/ k \in gone \/ row.path \in Escaped

FolderOf(rows, p, path) ==
    /\ p \in DOMAIN rows
    /\ rows[p].device = Device /\ rows[p].type = "folder" /\ SamePath(rows[p].path, Dir(path))

RootedAt(rows, events, gone, from, n) ==
    LET p == rows[n].parent
    IN  \/ p = 0
        \/ /\ FolderOf(rows, p, rows[n].path)
           /\ rows[p].deleted => ToDelete(events, gone, from, rows[p])

Rooted == \A n \in Alive(nodes, Device) : RootedAt(nodes, log, missed, Reached, n)

ParentReady ==
    \A t \in Threads : stage[t] = "node" =>
        parent[t] = 0 \/ (FolderOf(nodes, parent[t], Event(t).path) /\ ~nodes[parent[t]].deleted)

FoundInv == late = 0 => Rooted /\ ParentReady

LEMMA FoundInvInit == Init => FoundInv
BY StrangersAssumption DEF Init, FoundInv, Rooted, ParentReady, Alive

LEMMA QuietKeepsFound ==
    ASSUME TableInv, FoundInv, Quiet
    PROVE  FoundInv'
<1>1. \A row : ToDelete(log, missed, Reached, row) => ToDelete(log', missed', Reached', row)
    <2> SUFFICES ASSUME NEW row, NEW k \in DOMAIN log,
                        log[k].action = "delete", log[k].uuid = row.uuid,
                        k >= Reached \/ k \in missed \/ row.path \in Escaped
                 PROVE  ToDelete(log', missed', Reached', row)
        BY DEF ToDelete
    <2>1. k \in DOMAIN log' /\ log'[k] = log[k] /\ (k >= Reached => k >= Reached')
        BY DEF Quiet, TableInv, SyncInv, Types
    <2>2. missed' = missed
        BY DEF Quiet
    <2> QED
        BY <2>1, <2>2 DEF ToDelete
<1>2. Rooted'
    BY <1>1 DEF FoundInv, Quiet, Rooted, RootedAt, FolderOf, Alive
<1>3. ParentReady'
    BY DEF FoundInv, Quiet, ParentReady, FolderOf
<1> QED
    BY <1>2, <1>3 DEF FoundInv

(* What a lookup of a directory finds is a folder.                         *)
LEMMA LiveIsFolder ==
    ASSUME NamesKeepTheirKind, NEW rows \in Seq(Rows),
           \A n \in DOMAIN rows : rows[n].device = Device => PathOfKind(rows[n]),
           NEW e \in Events, NEW i \in 0..Len(e.path) - 1, NEW n,
           LiveAt(rows, n, Device, SubSeq(e.path, 1, i))
    PROVE  rows[n].type = "folder"
<1>1. n \in DOMAIN rows /\ PathOfKind(rows[n]) /\ SamePath(rows[n].path, SubSeq(e.path, 1, i))
    BY DEF LiveAt
<1>2. rows[n].type \in {"file", "folder"}
    <2>1. rows[n] \in Rows
        BY <1>1
    <2> QED
        BY <2>1 DEF Rows
<1>3. i # 0
    <2>1. e.path \in Seq(STRING)
        BY EventsAssumption
    <2>2. Len(SubSeq(e.path, 1, 0)) = 0
        BY <2>1
    <2>3. rows[n].path \in Seq(STRING) /\ rows[n].path # <<>>
        <3>1. rows[n] \in Rows
            BY <1>1
        <3> QED
            BY <1>1, <3>1 DEF Rows, PathOfKind
    <2>4. Len(rows[n].path) # 0
        BY <2>3
    <2> QED
        BY <1>1, <2>2, <2>4 DEF SamePath
<1>4. i \in 1..Len(e.path) - 1
    <2>1. Len(e.path) \in Nat
        BY EventsAssumption
    <2> QED
        BY <1>3, <2>1
<1>5. rows[n].type # "file"
    BY <1>1, <1>4 DEF PathOfKind, NamesKeepTheirKind
<1> QED
    BY <1>2, <1>5

LEMMA FindParentKeepsFound ==
    ASSUME NamesKeepTheirKind, TableInv, FoundInv, NEW t \in Threads, ParentStep(t)
    PROVE  FoundInv'
<1> SUFFICES ASSUME late' = 0
             PROVE  Rooted' /\ ParentReady'
    BY DEF FoundInv
<1> DEFINE path == Event(t).path
<1>1. /\ late = 0 /\ log' = log /\ Reached = next[t] /\ Reached' = next'[t]
      /\ \A u \in Threads : stage'[u] # "free" => u = t
    BY TreeSteps DEF TreeStep
<1> PICK found : /\ nodes' = found.nodes /\ parent' = [parent EXCEPT ![t] = found.id]
                 /\ Placed(nodes, nodes', Device, path) /\ found.id \in Nat
                 /\ found.id = 0 \/ LiveAt(nodes', found.id, Device, Dir(path))
    BY ParentStepFacts
<1>2. UNCHANGED <<next, missed>> /\ parent' = [parent EXCEPT ![t] = found.id]
    BY ParentStepIs
<1>3. /\ Event(t) \in Events /\ path \in Seq(STRING) \ {<<>>} /\ Device \in STRING
      /\ nodes \in Seq(Rows) /\ UniqueUuids(nodes)
    BY EventFacts DEF TreeStep, TableInv, TableTypes
<1>4. /\ Placed(nodes, nodes', Device, path)
      /\ found.id = 0 \/ LiveAt(nodes', found.id, Device, Dir(path))
    OBVIOUS
<1>5. /\ nodes' \in Seq(Rows)
      /\ \A n \in DOMAIN nodes' : nodes'[n].device = Device => PathOfKind(nodes'[n])
    BY FindParentKeepsTable DEF TableTypes, KindsFit
<1>6. ASSUME NEW i \in 0..Len(path) - 1, NEW n, LiveAt(nodes', n, Device, SubSeq(path, 1, i))
      PROVE  nodes'[n].type = "folder"
    BY <1>3, <1>5, <1>6, LiveIsFolder
<1>7. ASSUME NEW n \in 1..Len(nodes), n \in Alive(nodes', Device)
      PROVE  RootedAt(nodes', log', missed', Reached', n)
    <2>1. n \in Alive(nodes, Device) /\ nodes'[n] = nodes[n]
        BY <1>3, <1>4, <1>7 DEF Placed, Alive
    <2>2. RootedAt(nodes, log, missed, Reached, n)
        BY <1>1, <2>1 DEF FoundInv, Rooted
    <2>3. \A p \in DOMAIN nodes : p \in DOMAIN nodes' /\ nodes'[p] = nodes[p]
        BY <1>3, <1>4 DEF Placed
    <2> QED
        BY <1>1, <1>2, <2>1, <2>2, <2>3 DEF RootedAt, FolderOf, ToDelete
<1>8. ASSUME NEW n \in Len(nodes) + 1..Len(nodes')
      PROVE  RootedAt(nodes', log', missed', Reached', n)
    <2>1. Placeholder(nodes', n, Device, path)
        BY <1>4, <1>8 DEF Placed
    <2>2. CASE nodes'[n].parent = 0
        BY <2>2 DEF RootedAt
    <2>3. CASE LiveAt(nodes', nodes'[n].parent, Device, Dir(nodes'[n].path))
        <3>1. PICK i \in 1..Len(path) - 1 : nodes'[n].path = SubSeq(path, 1, i)
            BY <2>1 DEF Placeholder
        <3>2. i \in 1..Len(path) /\ i - 1 \in 0..Len(path) - 1
            BY <1>3
        <3>3. Dir(nodes'[n].path) = SubSeq(path, 1, i - 1)
            BY <1>3, <3>1, <3>2, PrefixFacts
        <3>4. nodes'[nodes'[n].parent].type = "folder"
            BY <1>6, <2>3, <3>2, <3>3
        <3> QED
            BY <2>3, <3>4 DEF RootedAt, FolderOf, LiveAt
    <2> QED
        BY <2>1, <2>2, <2>3 DEF Placeholder
<1>9. Rooted'
    <2> SUFFICES ASSUME NEW n \in Alive(nodes', Device)
                 PROVE  RootedAt(nodes', log', missed', Reached', n)
        BY DEF Rooted
    <2>1. n \in 1..Len(nodes) \/ n \in Len(nodes) + 1..Len(nodes')
        BY <1>3, <1>5 DEF Alive
    <2> QED
        BY <1>7, <1>8, <2>1
<1>10. ParentReady'
    <2>1. parent'[t] = found.id /\ Event(t)' = Event(t)
        BY <1>1, <1>2 DEF TableInv, TableTypes, Event
    <2>2. CASE found.id = 0
        BY <1>1, <2>1, <2>2 DEF ParentReady
    <2>3. CASE LiveAt(nodes', found.id, Device, Dir(path))
        <3>1. Dir(path) = SubSeq(path, 1, Len(path) - 1) /\ Len(path) - 1 \in 0..Len(path) - 1
            BY <1>3, DirFacts
        <3>2. nodes'[found.id].type = "folder"
            BY <1>6, <2>3, <3>1
        <3>3. FolderOf(nodes', parent'[t], Event(t)'.path) /\ ~nodes'[parent'[t]].deleted
            BY <2>1, <2>3, <3>2 DEF FolderOf, LiveAt
        <3> QED
            BY <1>1, <3>3 DEF ParentReady
    <2> QED
        BY <1>4, <2>2, <2>3
<1> QED
    BY <1>9, <1>10

LEMMA SaveNodeKeepsFound ==
    ASSUME TableInv, FoundInv, NEW t \in Threads, SaveNode(t)
    PROVE  FoundInv'
<1> SUFFICES ASSUME late' = 0
             PROVE  Rooted' /\ ParentReady'
    BY DEF FoundInv
<1> DEFINE e == Event(t)
           p0 == parent[t]
<1>1. /\ late = 0 /\ log' = log /\ Reached = next[t] /\ Reached' = next'[t]
      /\ Reached \in DOMAIN log /\ Reached \in Nat /\ log \in Seq(Events)
      /\ \A u \in Threads : stage'[u] # "free" => u = t
    BY TreeSteps DEF TreeStep, NodeStep
<1>2. /\ nodes' = UpsertNode(nodes, Device, p0, e.uuid, e.path, e.type)
      /\ stage[t] = "node" /\ stage' = [stage EXCEPT ![t] = "event"]
      /\ next' = [next EXCEPT ![t] = @ + 1] /\ missed' = missed \ {Reached}
    BY <1>1 DEF SaveNode, Applied, EventDone, Goes
<1>3. /\ e \in Events /\ e.uuid \in Uuids /\ e.path \in Seq(STRING) /\ e.path # <<>>
      /\ e.type \in {"file", "folder"} /\ Device \in STRING /\ p0 \in Nat
      /\ nodes \in Seq(Rows) /\ UniqueUuids(nodes)
    BY EventFacts DEF TreeStep, NodeStep, TableInv, TableTypes
<1>4. p0 = 0 \/ (FolderOf(nodes, p0, e.path) /\ ~nodes[p0].deleted)
    BY <1>1, <1>2 DEF FoundInv, ParentReady
<1>5. log[Reached].action # "delete"
    BY <1>1, <1>2 DEF TableInv, AtEvents, Event
<1> HIDE DEF e, p0
<1>6. PICK n \in DOMAIN nodes' : Upserted(nodes, nodes', n, Device, p0, e.uuid, e.path, e.type)
    BY <1>2, <1>3, UpsertFacts
<1>7. /\ DOMAIN nodes \subseteq DOMAIN nodes'
      /\ \A k \in DOMAIN nodes \ {n} : nodes'[k] = nodes[k]
      /\ \A k \in DOMAIN nodes' \ {n} : k \in DOMAIN nodes
    BY <1>6 DEF Upserted
<1>8. ASSUME n \in DOMAIN nodes, nodes[n].device = Device
      PROVE  nodes[n].type = e.type /\ (e.type = "folder" => nodes[n].path = e.path)
    <2>1. nodes[n] \in Rows /\ PathOfKind(nodes[n]) /\ nodes[n].uuid = e.uuid
        BY <1>3, <1>6, <1>8 DEF TableInv, KindsFit, Upserted
    <2> QED
        BY <1>3, <2>1, RowKeepsKind
<1>9. \A p, path : FolderOf(nodes, p, path) => FolderOf(nodes', p, path) /\ (p = n => ~nodes'[p].deleted)
    <2> SUFFICES ASSUME NEW p, NEW path, FolderOf(nodes, p, path)
                 PROVE  FolderOf(nodes', p, path) /\ (p = n => ~nodes'[p].deleted)
        OBVIOUS
    <2>1. CASE p = n
        <3>1. nodes[n].path = e.path /\ nodes[n].type = "folder"
            BY <1>8, <2>1 DEF FolderOf
        <3> QED
            BY <1>6, <2>1, <3>1 DEF FolderOf, Upserted
    <2>2. CASE p # n
        BY <1>7, <2>2 DEF FolderOf
    <2> QED
        BY <2>1, <2>2
<1>10. \A row : ToDelete(log, missed, Reached, row) => ToDelete(log', missed', Reached', row)
    <2> SUFFICES ASSUME NEW row, NEW k \in DOMAIN log,
                        log[k].action = "delete", log[k].uuid = row.uuid,
                        k >= Reached \/ k \in missed \/ row.path \in Escaped
                 PROVE  ToDelete(log', missed', Reached', row)
        BY DEF ToDelete
    <2>1. Reached' = Reached + 1
        BY <1>1, <1>2 DEF TableInv, TableTypes
    <2>2. k # Reached /\ k \in Nat
        BY <1>1, <1>5
    <2>3. k >= Reached' \/ k \in missed' \/ row.path \in Escaped
        BY <1>1, <1>2, <2>1, <2>2
    <2> QED
        BY <1>1, <2>3 DEF ToDelete
<1>11. RootedAt(nodes', log', missed', Reached', n)
    <2>1. nodes'[n].parent = p0 /\ nodes'[n].path = e.path
        BY <1>6 DEF Upserted
    <2>2. CASE p0 = 0
        BY <2>1, <2>2 DEF RootedAt
    <2>3. CASE FolderOf(nodes, p0, e.path) /\ ~nodes[p0].deleted
        <3>1. FolderOf(nodes', p0, e.path)
            BY <1>9, <2>3
        <3>2. ~nodes'[p0].deleted
            BY <1>7, <1>9, <2>3 DEF FolderOf
        <3> QED
            BY <2>1, <3>1, <3>2 DEF RootedAt, FolderOf
    <2> QED
        BY <1>4, <2>2, <2>3
<1>12. ASSUME NEW k \in Alive(nodes', Device), k # n
       PROVE  RootedAt(nodes', log', missed', Reached', k)
    <2>1. k \in Alive(nodes, Device) /\ nodes'[k] = nodes[k]
        BY <1>7, <1>12 DEF Alive
    <2>2. RootedAt(nodes, log, missed, Reached, k)
        BY <1>1, <2>1 DEF FoundInv, Rooted
    <2> DEFINE p == nodes[k].parent
    <2>3. CASE p = 0
        BY <2>1, <2>3 DEF RootedAt
    <2>4. CASE p # 0
        <3>1. FolderOf(nodes, p, nodes[k].path) /\ (nodes[p].deleted => ToDelete(log, missed, Reached, nodes[p]))
            BY <2>2, <2>4 DEF RootedAt
        <3>2. FolderOf(nodes', p, nodes[k].path)
            <4>1. \A path : FolderOf(nodes, p, path) => FolderOf(nodes', p, path)
                BY <1>9
            <4> QED
                BY <2>1, <3>1, <4>1 DEF FolderOf
        <3>3. nodes'[p].deleted => ToDelete(log', missed', Reached', nodes'[p])
            <4>1. CASE p = n
                BY <1>9, <3>1, <4>1
            <4>2. CASE p # n
                <5>1. nodes'[p] = nodes[p]
                    BY <1>7, <3>1, <4>2 DEF FolderOf
                <5> QED
                    BY <1>10, <3>1, <5>1 DEF ToDelete
            <4> QED
                BY <4>1, <4>2
        <3> QED
            BY <2>1, <3>2, <3>3 DEF RootedAt, FolderOf, ToDelete
    <2> QED
        BY <2>3, <2>4
<1>13. Rooted'
    BY <1>11, <1>12 DEF Rooted
<1>14. ParentReady'
    BY <1>1, <1>2 DEF ParentReady, TableInv, SyncInv, Types
<1> QED
    BY <1>13, <1>14

LEMMA MarkNodeKeepsFound ==
    ASSUME TableInv, FoundInv, NEW t \in Threads, MarkNode(t)
    PROVE  FoundInv'
<1> SUFFICES ASSUME late' = 0
             PROVE  Rooted' /\ ParentReady'
    BY DEF FoundInv
<1> DEFINE u == Event(t).uuid
<1>1. /\ late = 0 /\ log' = log /\ Reached = next[t] /\ Reached' = next'[t]
      /\ Reached \in DOMAIN log /\ Reached \in Nat /\ log \in Seq(Events)
      /\ \A v \in Threads : stage'[v] # "free" => v = t
    BY TreeSteps DEF TreeStep
<1>2. /\ nodes' = MarkSelf(nodes, u) /\ Event(t).action = "delete"
      /\ stage' = [stage EXCEPT ![t] = "below"] /\ UNCHANGED <<next, missed>>
    BY DEF MarkNode, Goes, Takes
<1>3. nodes \in Seq(Rows) /\ UniqueUuids(nodes)
    BY DEF TableInv, TableTypes
<1>4. /\ SameRows(nodes, nodes')
      /\ \A n \in DOMAIN nodes : nodes'[n].deleted <=> nodes[n].deleted \/ nodes[n].uuid = u
    BY <1>2, <1>3, MarkSelfFacts
<1>5. \A row : row.uuid = u => ToDelete(log', missed', Reached', row)
    BY <1>1, <1>2 DEF ToDelete, Event, TableInv, SyncInv, Types
<1>6. \A row, old : /\ row.uuid = old.uuid /\ row.path = old.path
                   /\ ToDelete(log, missed, Reached, old)
                     => ToDelete(log', missed', Reached', row)
    BY <1>1, <1>2 DEF ToDelete
<1> HIDE DEF u
<1>7. ASSUME NEW n \in Alive(nodes', Device)
      PROVE  RootedAt(nodes', log', missed', Reached', n)
    <2>1. n \in Alive(nodes, Device)
        BY <1>4, <1>7 DEF Alive, SameRows
    <2>2. RootedAt(nodes, log, missed, Reached, n)
        BY <1>1, <2>1 DEF FoundInv, Rooted
    <2> DEFINE p == nodes[n].parent
    <2>3. nodes'[n].parent = p /\ nodes'[n].path = nodes[n].path
        BY <1>4, <2>1 DEF Alive, SameRows
    <2>4. CASE p = 0
        BY <2>3, <2>4 DEF RootedAt
    <2>5. CASE p # 0
        <3>1. FolderOf(nodes, p, nodes[n].path) /\ (nodes[p].deleted => ToDelete(log, missed, Reached, nodes[p]))
            BY <2>2, <2>5 DEF RootedAt
        <3>2. FolderOf(nodes', p, nodes[n].path) /\ nodes'[p].uuid = nodes[p].uuid
              /\ nodes'[p].path = nodes[p].path
            BY <1>4, <2>3, <3>1 DEF FolderOf, SameRows
        <3>3. nodes'[p].deleted => ToDelete(log', missed', Reached', nodes'[p])
            BY <1>4, <1>5, <1>6, <3>1, <3>2 DEF FolderOf
        <3> QED
            BY <2>3, <3>2, <3>3 DEF RootedAt, FolderOf
    <2> QED
        BY <2>4, <2>5
<1>8. Rooted'
    BY <1>7 DEF Rooted
<1>9. ParentReady'
    BY <1>1, <1>2 DEF ParentReady, TableInv, SyncInv, Types
<1> QED
    BY <1>8, <1>9

LEMMA MarkChildrenKeepsFound ==
    ASSUME TableInv, FoundInv, NEW t \in Threads, MarkChildren(t)
    PROVE  FoundInv'
<1> SUFFICES ASSUME late' = 0
             PROVE  Rooted' /\ ParentReady'
    BY DEF FoundInv
<1> DEFINE u == Event(t).uuid
           Hit(n) == \E m \in DOMAIN nodes :
                       /\ nodes[m].uuid = u /\ nodes[m].type = "folder"
                       /\ nodes[n].device = nodes[m].device
                       /\ Below(nodes[m].path, nodes[n].path)
<1>1. /\ late = 0 /\ log' = log /\ Reached = next[t] /\ Reached' = next'[t]
      /\ Reached \in DOMAIN log /\ Reached \in Nat /\ log \in Seq(Events)
      /\ \A v \in Threads : stage'[v] # "free" => v = t
    BY TreeSteps DEF TreeStep, NodeStep
<1>2. /\ nodes' = MarkBelow(nodes, u)
      /\ stage' = [stage EXCEPT ![t] = "event"] /\ next' = [next EXCEPT ![t] = @ + 1]
      /\ missed' = missed \ {Reached}
    BY <1>1 DEF MarkChildren, Applied, EventDone, Goes
<1>3. nodes \in Seq(Rows) /\ UniqueUuids(nodes)
    BY DEF TableInv, TableTypes
<1>4. /\ SameRows(nodes, nodes')
      /\ \A n \in DOMAIN nodes : nodes'[n].deleted <=> nodes[n].deleted \/ Hit(n)
    BY <1>2, <1>3, MarkBelowFacts
<1>5. Reached' = Reached + 1 /\ log[Reached].uuid = u /\ log[Reached].action = "delete"
    BY <1>1, <1>2 DEF MarkChildren, TableInv, TableTypes, AtEvents, Event
<1>6. ASSUME NEW row, NEW old, row.uuid = old.uuid, row.path = old.path,
             ToDelete(log, missed, Reached, old), row.uuid # u \/ row.path \in Escaped
      PROVE  ToDelete(log', missed', Reached', row)
    <2>1. PICK k \in DOMAIN log : /\ log[k].action = "delete" /\ log[k].uuid = row.uuid
                                  /\ k >= Reached \/ k \in missed \/ row.path \in Escaped
        BY <1>6 DEF ToDelete
    <2>2. k = Reached => row.path \in Escaped
        BY <1>5, <1>6, <2>1
    <2>3. k >= Reached' \/ k \in missed' \/ row.path \in Escaped
        <3>1. k \in Nat
            BY <1>1, <2>1
        <3> QED
            BY <1>1, <1>2, <1>5, <2>1, <2>2, <3>1
    <2> QED
        BY <1>1, <2>1, <2>3 DEF ToDelete
<1> HIDE DEF u
<1>7. ASSUME NEW n \in Alive(nodes', Device)
      PROVE  RootedAt(nodes', log', missed', Reached', n)
    <2>1. n \in Alive(nodes, Device) /\ n \in DOMAIN nodes /\ ~Hit(n) /\ nodes[n].device = Device
        BY <1>4, <1>7 DEF Alive, SameRows
    <2>2. RootedAt(nodes, log, missed, Reached, n)
        BY <1>1, <2>1 DEF FoundInv, Rooted
    <2> DEFINE p == nodes[n].parent
    <2>3. nodes'[n].parent = p /\ nodes'[n].path = nodes[n].path
        BY <1>4, <2>1 DEF SameRows
    <2>4. \A k \in DOMAIN nodes : nodes[k].device = Device =>
             nodes[k].path \in Seq(STRING) \ {<<>>} /\ nodes[k].path \in Paths
        <3>1. \A k \in DOMAIN nodes : nodes[k] \in Rows
            BY <1>3
        <3> QED
            BY <3>1 DEF Rows, TableInv, KindsFit, PathOfKind
    <2>5. CASE p = 0
        BY <2>3, <2>5 DEF RootedAt
    <2>6. CASE p # 0
        <3>1. /\ p \in DOMAIN nodes /\ nodes[p].device = Device /\ nodes[p].type = "folder"
              /\ SamePath(nodes[p].path, Dir(nodes[n].path))
              /\ nodes[p].deleted => ToDelete(log, missed, Reached, nodes[p])
            BY <2>2, <2>6 DEF RootedAt, FolderOf
        <3>2. FolderOf(nodes', p, nodes[n].path) /\ nodes'[p].uuid = nodes[p].uuid
              /\ nodes'[p].path = nodes[p].path
            BY <1>4, <2>3, <3>1 DEF FolderOf, SameRows
        <3>3. ~Hit(p)
            <4> SUFFICES ASSUME NEW m \in DOMAIN nodes,
                                nodes[m].uuid = u, nodes[m].type = "folder",
                                nodes[p].device = nodes[m].device,
                                Below(nodes[m].path, nodes[p].path)
                         PROVE  FALSE
                OBVIOUS
            <4>1. nodes[m].path \in Seq(STRING) /\ nodes[m].path \in Paths
                BY <2>4, <3>1
            <4>2. Below(nodes[m].path, nodes[n].path)
                BY <2>1, <2>4, <3>1, <4>1, BelowFacts
            <4> QED
                BY <2>1, <3>1, <4>2
        <3>4. nodes[p].uuid # u \/ nodes[p].path \in Escaped
            <4>1. nodes[p].path \notin Escaped => Below(nodes[p].path, nodes[n].path)
                BY <2>1, <2>4, <3>1, BelowFacts
            <4> QED
                BY <2>1, <3>1, <4>1
        <3>5. nodes'[p].deleted => ToDelete(log', missed', Reached', nodes'[p])
            <4>1. p \in DOMAIN nodes /\ ~Hit(p)
                BY <3>1, <3>3
            <4> HIDE DEF Hit
            <4>2. nodes'[p].deleted => nodes[p].deleted
                BY <1>4, <4>1
            <4> QED
                BY <1>6, <3>1, <3>2, <3>4, <4>2
        <3> QED
            BY <2>3, <3>2, <3>5 DEF RootedAt, FolderOf
    <2> QED
        BY <2>5, <2>6
<1>8. Rooted'
    BY <1>7 DEF Rooted
<1>9. ParentReady'
    BY <1>1, <1>2 DEF ParentReady, TableInv, SyncInv, Types
<1> QED
    BY <1>8, <1>9

LEMMA UpdateFailsKeepsFound ==
    ASSUME TableInv, FoundInv, NEW t \in Threads, UpdateFails(t)
    PROVE  FoundInv'
<1> SUFFICES ASSUME late' = 0
             PROVE  Rooted' /\ ParentReady'
    BY DEF FoundInv
<1>1. /\ late = 0 /\ log' = log /\ Reached = next[t] /\ Reached' = next'[t]
      /\ Reached \in DOMAIN log /\ Reached \in Nat /\ log \in Seq(Events)
      /\ \A v \in Threads : stage'[v] # "free" => v = t
    BY TreeSteps DEF TreeStep
<1>2. /\ nodes' = nodes /\ missed' = missed \union {Reached}
      /\ stage' = [stage EXCEPT ![t] = "event"] /\ next' = [next EXCEPT ![t] = @ + 1]
    BY <1>1, EventStepIs DEF EventDone, Goes
<1>3. Reached' = Reached + 1
    BY <1>1, <1>2 DEF TableInv, TableTypes
<1>4. \A row : ToDelete(log, missed, Reached, row) => ToDelete(log', missed', Reached', row)
    <2> SUFFICES ASSUME NEW row, NEW k \in DOMAIN log,
                        log[k].action = "delete", log[k].uuid = row.uuid,
                        k >= Reached \/ k \in missed \/ row.path \in Escaped
                 PROVE  ToDelete(log', missed', Reached', row)
        BY DEF ToDelete
    <2>1. k \in Nat
        BY <1>1
    <2>2. k >= Reached' \/ k \in missed' \/ row.path \in Escaped
        BY <1>1, <1>2, <1>3, <2>1
    <2> QED
        BY <1>1, <2>2 DEF ToDelete
<1>5. Rooted'
    BY <1>1, <1>2, <1>4 DEF FoundInv, Rooted, RootedAt, FolderOf, Alive
<1>6. ParentReady'
    BY <1>1, <1>2 DEF ParentReady, TableInv, SyncInv, Types
<1> QED
    BY <1>5, <1>6

LEMMA FoundStep ==
    ASSUME NamesKeepTheirKind, TableInv, FoundInv, [Next]_vars
    PROVE  FoundInv'
<1> SUFFICES ASSUME late' = 0
             PROVE  FoundInv'
    BY DEF FoundInv
<1>1. CASE UNCHANGED vars
    BY <1>1 DEF vars, clientVars, threadVars, treeVars, faultVars, FoundInv, Rooted, RootedAt, ParentReady,
                ToDelete, FolderOf, Alive, Event, Reached
<1>2. CASE Next
    <2>1. ASSUME \/ \E e \in Events : Log(e)
                 \/ Send \/ Received \/ GiveUp \/ ServerCrash
                 \/ \E t \in Threads : BulkCreate(t)
          PROVE  FoundInv'
        BY <2>1, QuietSteps, QuietKeepsFound
    <2>2. ASSUME NEW t \in Threads, TreeStep(t)
          PROVE  FoundInv'
        BY <2>2, FindParentKeepsFound, SaveNodeKeepsFound, MarkNodeKeepsFound,
           MarkChildrenKeepsFound, UpdateFailsKeepsFound DEF TreeStep, NodeStep
    <2> QED
        BY <1>2, <2>1, <2>2 DEF Next, ClientStep, SyncEvents, TreeStep, ParentStep, NodeStep
<1> QED
    BY <1>1, <1>2

LEMMA FoundInvariance ==
    ASSUME NamesKeepTheirKind
    PROVE  Spec => [](TableInv /\ FoundInv)
<1>1. TableInv /\ FoundInv /\ [Next]_vars => TableInv' /\ FoundInv'
    BY TableStep, FoundStep
<1> QED
    BY <1>1, TableInvInit, FoundInvInit, PTL DEF Spec

(* When all is synchronised no event is left that could delete a folder.   *)
LEMMA SettledFacts ==
    ASSUME TableInv, Settled
    PROVE  late = 0 /\ log \in Seq(Events) /\ Reached = Len(log) + 1
<1>1. late = 0 /\ log \in Seq(Events) /\ mark = Len(log) /\ upto = 0
    BY DEF Settled, Idle, TableInv, SyncInv, Types
<1>2. waits = NoThread /\ answer # "success"
    BY <1>1 DEF TableInv, SyncInv, Types, OneRequest
<1> QED
    BY <1>1, <1>2 DEF Reached

(* If no file ever has the name of a folder, an administrator who opens    *)
(* folder after folder finds every live row of a device whose events have  *)
(* all been applied, whatever errors there were on the way: only what is   *)
(* in a folder that was deleted without it may be out of sight.            *)
THEOREM NodesFound ==
    ASSUME NamesKeepTheirKind
    PROVE  Spec => []EveryNodeIsFound
<1>1. ASSUME TableInv, FoundInv
      PROVE  EveryNodeIsFound
    <2> DEFINE G == {n \in Alive(nodes, Device) : ~Forgotten(nodes[n].path)}
    <2> SUFFICES ASSUME Settled
                 PROVE  G \subseteq Browsed(nodes, Device)
        BY DEF EveryNodeIsFound, Alive
    <2>1. /\ nodes \in Seq(Rows) /\ late = 0 /\ Reached = Len(log) + 1 /\ Len(log) \in Nat
          /\ log \in Seq(Events)
        BY <1>1, SettledFacts DEF TableInv, TableTypes
    <2>2. \A n \in DOMAIN nodes : nodes[n].device = Device =>
             PathOfKind(nodes[n]) /\ nodes[n] \in Rows /\ nodes[n].path \in Seq(STRING) \ {<<>>}
        <3>1. \A n \in DOMAIN nodes : nodes[n] \in Rows
            BY <2>1
        <3> QED
            BY <1>1, <3>1 DEF TableInv, KindsFit, PathOfKind, Rows
    <2>3. ASSUME NEW n \in G
          PROVE  /\ nodes[n].path # <<>>
                 /\ \/ nodes[n].parent = 0
                    \/ /\ nodes[n].parent \in G
                       /\ LiveAt(nodes, nodes[n].parent, Device, Dir(nodes[n].path))
        <3> DEFINE p == nodes[n].parent
        <3>1. n \in DOMAIN nodes /\ nodes[n].device = Device /\ nodes[n].path \in Seq(STRING) \ {<<>>}
            BY <2>2 DEF Alive
        <3>2. RootedAt(nodes, log, missed, Reached, n)
            BY <1>1, <2>1 DEF FoundInv, Rooted
        <3> SUFFICES ASSUME p # 0
                     PROVE  p \in G /\ LiveAt(nodes, p, Device, Dir(nodes[n].path))
            BY <3>1
        <3>3. /\ FolderOf(nodes, p, nodes[n].path)
              /\ nodes[p].deleted => ToDelete(log, missed, Reached, nodes[p])
            BY <3>2 DEF RootedAt
        <3> HIDE DEF p
        <3>4. /\ p \in DOMAIN nodes /\ nodes[p].device = Device /\ nodes[p].type = "folder"
              /\ SamePath(nodes[p].path, Dir(nodes[n].path))
              /\ PathOfKind(nodes[p]) /\ nodes[p] \in Rows /\ nodes[p].path \in Seq(STRING)
            BY <2>2, <3>3 DEF FolderOf
        <3>5. ASSUME NEW dir \in Seq(STRING), Within(dir, nodes[p].path) \/ dir = nodes[p].path
              PROVE  Within(dir, nodes[n].path)
            BY <3>1, <3>4, <3>5, WithinFacts
        <3>6. ~Forgotten(nodes[p].path)
            <4> SUFFICES ASSUME NEW k \in DOMAIN log,
                                ~Put(log[k]), log[k].type = "folder",
                                Within(log[k].path, nodes[p].path),
                                k \in missed \/ log[k].path \in Escaped
                         PROVE  FALSE
                BY DEF Forgotten
            <4>1. log[k].path \in Seq(STRING)
                BY <2>1, EventsAssumption
            <4> QED
                BY <3>5, <4>1 DEF Forgotten
        <3>7. ~nodes[p].deleted
            <4> SUFFICES ASSUME NEW k \in DOMAIN log,
                                log[k].action = "delete", log[k].uuid = nodes[p].uuid,
                                k >= Reached \/ k \in missed \/ nodes[p].path \in Escaped
                         PROVE  FALSE
                BY <3>3 DEF ToDelete
            <4>1. log[k] \in Events /\ ~(k >= Reached)
                BY <2>1
            <4>2. log[k].type = "folder" /\ log[k].path = nodes[p].path
                BY <3>4, <4>1, RowKeepsKind
            <4>3. Within(log[k].path, nodes[n].path)
                BY <3>4, <3>5, <4>2
            <4> QED
                BY <4>1, <4>2, <4>3 DEF Forgotten, Put
        <3> QED
            BY <3>4, <3>6, <3>7 DEF Alive, LiveAt
    <2> QED
        BY <2>1, <2>3, BrowsedFacts
<1> QED
    BY <1>1, FoundInvariance, PTL

(***************************************************************************)
(* What the tree says of the events applied so far.                        *)
(***************************************************************************)
EventRowsOurs == \A n \in DOMAIN nodes, e \in Events : nodes[n].uuid = e.uuid => nodes[n].device = Device

RowsExist == \A k \in DOMAIN log \ missed : k < Reached /\ Put(log[k]) =>
    \E n \in DOMAIN nodes : nodes[n].uuid = log[k].uuid

(* A deletion of a folder that the database applies to a path, and one     *)
(* that comes after a put of its uuid that was not missed.                 *)
Catches(e, path) == ~Put(e) /\ e.type = "folder" /\ Below(e.path, path)

Heard(events, gone, j) ==
    \E i \in 1..j - 1 : events[i].uuid = events[j].uuid /\ Put(events[i]) /\ i \notin gone

Caught(events, gone, j, path) ==
    j \notin gone /\ Heard(events, gone, j) /\ Catches(events[j], path)

IsLast(events, k) == \A j \in DOMAIN events : events[j].uuid = events[k].uuid => j <= k

(* A row and the last event of its uuid, when the events before from have  *)
(* been applied but for those that are gone: it is deleted if one that is  *)
(* not catches it and its folder was known, and only if some event does.   *)
Follows(events, gone, from, k, row) ==
    /\ ~Put(events[k]) => row.deleted
    /\ Put(events[k]) =>
         /\ row.path = events[k].path
         /\ (\E j \in k..from - 1 : Caught(events, gone, j, row.path)) => row.deleted
         /\ row.deleted => \E j \in k..Len(events) : Catches(events[j], row.path)

RowsFollow == \A k \in DOMAIN log \ missed, n \in DOMAIN nodes :
    k < Reached /\ IsLast(log, k) /\ nodes[n].uuid = log[k].uuid =>
        Follows(log, missed, Reached, k, nodes[n])

SelfMarked == \A t \in Threads : stage[t] = "below" =>
    \A n \in DOMAIN nodes : nodes[n].uuid = Event(t).uuid => nodes[n].deleted

FollowInv == EventRowsOurs /\ (late = 0 => RowsExist /\ RowsFollow /\ SelfMarked)

LEMMA FollowInvInit ==
    ASSUME StrangersOwnUuids
    PROVE  Init => FollowInv
BY DEF StrangersOwnUuids, Init, FollowInv, EventRowsOurs, RowsExist, RowsFollow, SelfMarked

LEMMA QuietKeepsFollow ==
    ASSUME TableInv, FollowInv, Quiet
    PROVE  FollowInv'
<1>1. /\ Len(log) \in Nat /\ Len(log') \in Nat /\ Len(log) <= Len(log')
      /\ DOMAIN log = 1..Len(log) /\ DOMAIN log' = 1..Len(log')
      /\ \A k \in DOMAIN log : log'[k] = log[k]
    <2>1. log \in Seq(Events)
        BY DEF TableInv, SyncInv, Types
    <2>2. log' \in Seq(Events)
        BY DEF Quiet
    <2> QED
        BY <2>1, <2>2 DEF Quiet
<1>2. /\ nodes' = nodes /\ missed' = missed /\ late = 0
      /\ Reached \in Nat /\ Reached' \in Nat /\ Reached' <= Reached
      /\ Reached <= Len(log) + 1
    BY ReachedFacts DEF Quiet
<1>3. ASSUME NEW k \in DOMAIN log', k < Reached'
      PROVE  /\ k \in DOMAIN log /\ k \in Nat /\ k < Reached /\ log'[k] = log[k]
             /\ IsLast(log', k) => IsLast(log, k)
    <2>1. k \in DOMAIN log /\ k \in Nat /\ k < Reached
        BY <1>1, <1>2, <1>3
    <2> QED
        BY <1>1, <2>1 DEF IsLast
<1>4. EventRowsOurs'
    BY <1>2 DEF FollowInv, EventRowsOurs
<1>5. RowsExist'
    BY <1>2, <1>3 DEF FollowInv, RowsExist, Put
<1>6. RowsFollow'
    <2> SUFFICES ASSUME NEW k \in DOMAIN log' \ missed, NEW n \in DOMAIN nodes,
                        k < Reached', IsLast(log', k), nodes[n].uuid = log'[k].uuid
                 PROVE  Follows(log', missed, Reached', k, nodes[n])
        BY <1>2 DEF RowsFollow
    <2>1. Follows(log, missed, Reached, k, nodes[n])
        BY <1>2, <1>3 DEF FollowInv, RowsFollow
    <2>2. ASSUME NEW j \in k..Reached' - 1, Caught(log', missed, j, nodes[n].path)
          PROVE  j \in k..Reached - 1 /\ Caught(log, missed, j, nodes[n].path)
        <3>1. j \in Nat /\ k <= j /\ j < Reached' /\ k \in Nat /\ 1 <= k
            <4>1. \A a, b \in Nat : \A i \in a..b - 1 : i \in Nat /\ a <= i /\ i < b
                OBVIOUS
            <4>2. k \in Nat /\ 1 <= k /\ Reached' \in Nat
                BY <1>1, <1>2, <1>3
            <4> QED
                BY <4>1, <4>2
        <3>2. j \in k..Reached - 1 /\ j \in DOMAIN log
            BY <1>1, <1>2, <1>3, <3>1
        <3>3. \A i \in 1..j - 1 : i \in DOMAIN log
            BY <1>1, <3>2
        <3> QED
            BY <1>1, <2>2, <3>2, <3>3 DEF Caught, Heard, Catches, Put
    <2>3. ASSUME NEW j \in k..Len(log), Catches(log[j], nodes[n].path)
          PROVE  j \in k..Len(log') /\ Catches(log'[j], nodes[n].path)
        BY <1>1, <1>2, <1>3, <2>3
    <2> QED
        BY <1>3, <2>1, <2>2, <2>3 DEF Follows, Put
<1>7. SelfMarked'
    BY <1>2 DEF Quiet, FollowInv, SelfMarked
<1> QED
    BY <1>4, <1>5, <1>6, <1>7 DEF FollowInv

LEMMA FindParentKeepsFollow ==
    ASSUME TableInv, FollowInv, NEW t \in Threads, ParentStep(t)
    PROVE  FollowInv'
<1>1. UNCHANGED <<next, missed>> /\ stage'[t] = "node"
    BY ParentStepIs DEF Goes, Takes, TableInv, SyncInv, Types
<1>2. Placed(nodes, nodes', Device, Event(t).path) /\ nodes \in Seq(Rows)
    BY ParentStepFacts DEF TableInv, TableTypes
<1>3. ASSUME NEW e \in Events, NEW n \in DOMAIN nodes', nodes'[n].uuid = e.uuid
      PROVE  n \in DOMAIN nodes /\ nodes'[n] = nodes[n]
    <2>1. nodes' \in Seq(Rows)
        BY <1>2 DEF Placed
    <2>2. e.uuid.from # "placeholder"
        <3>1. \A p : FolderUuid(Device, p).from = "folder"
            BY DEF FolderUuid
        <3> QED
            BY <3>1, EventsAssumption
    <2>3. n \notin Len(nodes) + 1..Len(nodes')
        <3> SUFFICES ASSUME n \in Len(nodes) + 1..Len(nodes')
                     PROVE  FALSE
            OBVIOUS
        <3>1. nodes'[n].uuid = PlaceholderUuid(nodes'[n].path)
            BY <1>2 DEF Placed, Placeholder
        <3> QED
            BY <1>3, <2>2, <3>1 DEF PlaceholderUuid
    <2> QED
        BY <1>2, <2>1, <2>3 DEF Placed
<1>4. \A n \in DOMAIN nodes : n \in DOMAIN nodes' /\ nodes'[n] = nodes[n]
    BY <1>2 DEF Placed
<1>5. EventRowsOurs'
    BY <1>3 DEF FollowInv, EventRowsOurs
<1> SUFFICES ASSUME late' = 0
             PROVE  RowsExist' /\ RowsFollow' /\ SelfMarked'
    BY <1>5 DEF FollowInv
<1>6. /\ late = 0 /\ log' = log /\ missed' = missed /\ Reached = next[t] /\ Reached' = Reached
      /\ log \in Seq(Events) /\ \A u \in Threads : stage'[u] # "free" => u = t
    BY <1>1, TreeSteps DEF TreeStep
<1>7. RowsExist'
    BY <1>4, <1>6 DEF FollowInv, RowsExist, Put
<1>8. RowsFollow'
    BY <1>3, <1>6 DEF FollowInv, RowsFollow
<1>9. SelfMarked'
    BY <1>1, <1>6 DEF SelfMarked
<1> QED
    BY <1>7, <1>8, <1>9

(* What an event does to those before it: they are known as they were.     *)
LEMMA EarlierCaught ==
    ASSUME NEW events, NEW gone, NEW at \in Nat, NEW k \in Nat, NEW path,
           NEW new, new = gone \ {at} \/ new = gone \union {at},
           NEW j \in k..(at + 1) - 1, Caught(events, new, j, path),
           at \in new \/ ~Catches(events[at], path)
    PROVE  j \in k..at - 1 /\ Caught(events, gone, j, path)
<1>1. j # at
    BY DEF Caught
<1>2. j \in k..at - 1 /\ \A i \in 1..j - 1 : i # at
    BY <1>1
<1>3. \A i \in 1..j - 1 : i \notin new => i \notin gone
    BY <1>2
<1>4. j \notin gone /\ Heard(events, gone, j)
    BY <1>1, <1>3 DEF Caught, Heard
<1> QED
    BY <1>2, <1>4 DEF Caught

LEMMA SaveNodeKeepsFollow ==
    ASSUME TableInv, FollowInv, NEW t \in Threads, SaveNode(t)
    PROVE  FollowInv'
<1> DEFINE e == Event(t)
<1>1. /\ nodes' = UpsertNode(nodes, Device, parent[t], e.uuid, e.path, e.type)
      /\ stage[t] = "node" /\ stage' = [stage EXCEPT ![t] = "event"]
      /\ next' = [next EXCEPT ![t] = @ + 1] /\ missed' = missed \ {next[t]}
    BY DEF SaveNode, Applied, EventDone, Goes
<1>2. /\ e \in Events /\ e.uuid \in Uuids /\ e.path \in Seq(STRING)
      /\ e.type \in {"file", "folder"} /\ Device \in STRING /\ parent[t] \in Nat
      /\ nodes \in Seq(Rows) /\ UniqueUuids(nodes) /\ e = log[next[t]]
    BY EventFacts DEF TreeStep, NodeStep, TableInv, TableTypes
<1>3. Put(e)
    BY <1>1 DEF TableInv, AtEvents, Put
<1> HIDE DEF e
<1>4. PICK m \in DOMAIN nodes' :
             Upserted(nodes, nodes', m, Device, parent[t], e.uuid, e.path, e.type)
    BY <1>1, <1>2, UpsertFacts
<1>5. /\ DOMAIN nodes \subseteq DOMAIN nodes'
      /\ \A k \in DOMAIN nodes' \ {m} : k \in DOMAIN nodes /\ nodes'[k] = nodes[k]
      /\ nodes'[m].uuid = e.uuid /\ nodes'[m].path = e.path /\ ~nodes'[m].deleted
    BY <1>4 DEF Upserted
<1>6. /\ nodes'[m].device = Device
      /\ \A k \in DOMAIN nodes : nodes'[k].uuid = nodes[k].uuid
    BY <1>2, <1>4 DEF Upserted, FollowInv, EventRowsOurs
<1>7. EventRowsOurs'
    BY <1>5, <1>6 DEF FollowInv, EventRowsOurs
<1> SUFFICES ASSUME late' = 0
             PROVE  RowsExist' /\ RowsFollow' /\ SelfMarked'
    BY <1>7 DEF FollowInv
<1>8. /\ late = 0 /\ log' = log /\ Reached = next[t] /\ Reached' = next'[t]
      /\ Reached \in DOMAIN log /\ Reached \in Nat /\ log \in Seq(Events)
      /\ \A u \in Threads : stage'[u] # "free" => u = t
    BY TreeSteps DEF TreeStep, NodeStep
<1>9. /\ Reached' = Reached + 1 /\ e = log[Reached] /\ missed' = missed \ {Reached}
      /\ \A k \in DOMAIN log : k \in Nat /\ (k < Reached' => k < Reached \/ k = Reached)
    BY <1>1, <1>2, <1>8 DEF TableInv, TableTypes
<1>10. RowsExist'
    <2> SUFFICES ASSUME NEW k \in DOMAIN log \ missed', k < Reached', Put(log[k])
                 PROVE  \E n \in DOMAIN nodes' : nodes'[n].uuid = log[k].uuid
        BY <1>8 DEF RowsExist, Put
    <2>1. CASE k < Reached
        <3>1. k \notin missed
            BY <1>8, <1>9, <2>1
        <3> QED
            BY <1>5, <1>6, <1>8, <2>1, <3>1 DEF FollowInv, RowsExist
    <2>2. CASE k = Reached
        BY <1>5, <1>9, <2>2
    <2> QED
        BY <1>9, <2>1, <2>2
<1>11. RowsFollow'
    <2> SUFFICES ASSUME NEW k \in DOMAIN log \ missed', NEW n \in DOMAIN nodes',
                        k < Reached', IsLast(log, k), nodes'[n].uuid = log[k].uuid
                 PROVE  Follows(log, missed', Reached', k, nodes'[n])
        BY <1>8 DEF RowsFollow
    <2>0. \A path : ~Catches(log[Reached], path)
        BY <1>3, <1>9 DEF Catches
    <2>1. CASE k = Reached
        <3>1. n = m
            <4>1. UniqueUuids(nodes')
                BY SaveNodeKeepsTable DEF TableTypes
            <4> QED
                BY <1>5, <1>9, <2>1, <4>1 DEF UniqueUuids
        <3>2. \A j \in Reached..Reached' - 1 : j = Reached
            BY <1>8, <1>9
        <3> QED
            BY <1>3, <1>5, <1>9, <2>0, <2>1, <3>1, <3>2 DEF Follows, Caught
    <2>2. CASE k < Reached
        <3>1. log[Reached].uuid # log[k].uuid
            BY <1>8, <1>9, <2>2 DEF IsLast
        <3>2. n \in DOMAIN nodes /\ nodes'[n] = nodes[n]
            BY <1>5, <1>9, <3>1
        <3>3. Follows(log, missed, Reached, k, nodes[n])
            <4>1. k \notin missed
                BY <1>8, <1>9, <2>2
            <4> QED
                BY <1>8, <2>2, <3>2, <4>1 DEF FollowInv, RowsFollow
        <3>4. ASSUME NEW j \in k..Reached' - 1, Caught(log, missed', j, nodes[n].path)
              PROVE  j \in k..Reached - 1 /\ Caught(log, missed, j, nodes[n].path)
            <4>1. k \in Nat /\ j \in k..(Reached + 1) - 1
                BY <1>9
            <4>2. ~Catches(log[Reached], nodes[n].path)
                BY <2>0
            <4> QED
                BY <1>8, <1>9, <3>4, <4>1, <4>2, EarlierCaught
        <3> QED
            BY <3>2, <3>3, <3>4 DEF Follows
    <2> QED
        BY <1>9, <2>1, <2>2
<1>12. SelfMarked'
    BY <1>1, <1>8 DEF SelfMarked, TableInv, SyncInv, Types
<1> QED
    BY <1>10, <1>11, <1>12

LEMMA MarkNodeKeepsFollow ==
    ASSUME TableInv, FollowInv, NEW t \in Threads, MarkNode(t)
    PROVE  FollowInv'
<1> DEFINE u == Event(t).uuid
<1>1. /\ nodes' = MarkSelf(nodes, u) /\ UNCHANGED <<next, missed>>
      /\ nodes \in Seq(Rows) /\ UniqueUuids(nodes)
    BY DEF MarkNode, TableInv, TableTypes
<1>2. /\ SameRows(nodes, nodes')
      /\ \A n \in DOMAIN nodes : nodes'[n].deleted <=> nodes[n].deleted \/ nodes[n].uuid = u
    BY <1>1, MarkSelfFacts
<1>3. EventRowsOurs'
    BY <1>2 DEF FollowInv, EventRowsOurs, SameRows
<1> SUFFICES ASSUME late' = 0
             PROVE  RowsExist' /\ RowsFollow' /\ SelfMarked'
    BY <1>3 DEF FollowInv
<1>4. /\ late = 0 /\ log' = log /\ Reached = next[t] /\ Reached' = next'[t]
      /\ Reached \in DOMAIN log /\ Reached \in Nat /\ log \in Seq(Events)
      /\ \A v \in Threads : stage'[v] # "free" => v = t
    BY TreeSteps DEF TreeStep
<1>5. Reached' = Reached /\ u = log[Reached].uuid /\ Event(t)'.uuid = u
    BY <1>1, <1>4 DEF Event
<1> HIDE DEF u
<1>6. RowsExist'
    BY <1>1, <1>2, <1>4, <1>5 DEF FollowInv, RowsExist, SameRows, Put
<1>7. RowsFollow'
    <2> SUFFICES ASSUME NEW k \in DOMAIN log \ missed, NEW n \in DOMAIN nodes,
                        k < Reached, IsLast(log, k), nodes[n].uuid = log[k].uuid
                 PROVE  Follows(log, missed, Reached, k, nodes'[n])
        BY <1>1, <1>2, <1>4, <1>5 DEF RowsFollow, SameRows
    <2>1. Follows(log, missed, Reached, k, nodes[n])
        BY <1>4 DEF FollowInv, RowsFollow
    <2>2. log[Reached].uuid # log[k].uuid
        BY <1>4 DEF IsLast
    <2>3. nodes'[n].path = nodes[n].path /\ (nodes'[n].deleted <=> nodes[n].deleted)
        BY <1>2, <1>5, <2>2 DEF SameRows
    <2> QED
        BY <2>1, <2>3 DEF Follows
<1>8. SelfMarked'
    <2> SUFFICES ASSUME NEW n \in DOMAIN nodes, nodes'[n].uuid = u
                 PROVE  nodes'[n].deleted
        BY <1>2, <1>4, <1>5 DEF SelfMarked, SameRows
    <2> QED
        BY <1>2 DEF SameRows
<1> QED
    BY <1>6, <1>7, <1>8

LEMMA MarkChildrenKeepsFollow ==
    ASSUME TableInv, FollowInv, NEW t \in Threads, MarkChildren(t)
    PROVE  FollowInv'
<1> DEFINE e == Event(t)
           Hit(n) == \E m \in DOMAIN nodes :
                       /\ nodes[m].uuid = e.uuid /\ nodes[m].type = "folder"
                       /\ nodes[n].device = nodes[m].device
                       /\ Below(nodes[m].path, nodes[n].path)
<1>1. /\ nodes' = MarkBelow(nodes, e.uuid)
      /\ stage[t] = "below" /\ stage' = [stage EXCEPT ![t] = "event"]
      /\ next' = [next EXCEPT ![t] = @ + 1] /\ missed' = missed \ {next[t]}
      /\ nodes \in Seq(Rows) /\ UniqueUuids(nodes)
    BY DEF MarkChildren, Applied, EventDone, Goes, TableInv, TableTypes
<1>2. /\ SameRows(nodes, nodes')
      /\ \A n \in DOMAIN nodes : nodes'[n].deleted <=> nodes[n].deleted \/ Hit(n)
    BY <1>1, MarkBelowFacts
<1>3. EventRowsOurs'
    BY <1>2 DEF FollowInv, EventRowsOurs, SameRows
<1> SUFFICES ASSUME late' = 0
             PROVE  RowsExist' /\ RowsFollow' /\ SelfMarked'
    BY <1>3 DEF FollowInv
<1>4. /\ late = 0 /\ log' = log /\ Reached = next[t] /\ Reached' = next'[t]
      /\ Reached \in DOMAIN log /\ Reached \in Nat /\ log \in Seq(Events)
      /\ \A v \in Threads : stage'[v] # "free" => v = t
    BY TreeSteps DEF TreeStep, NodeStep
<1>5. e = log[Reached] /\ e \in Events /\ e.action = "delete"
    BY <1>1, <1>4 DEF TableInv, AtEvents, Event
<1>6. /\ Reached' = Reached + 1 /\ missed' = missed \ {Reached}
      /\ \A k \in DOMAIN log : k \in Nat /\ (k < Reached' => k < Reached \/ k = Reached)
    BY <1>1, <1>4 DEF TableInv, TableTypes
<1>7. \A n \in DOMAIN nodes : nodes[n].uuid = e.uuid => nodes[n].deleted
    BY <1>1, <1>4 DEF FollowInv, SelfMarked
<1> HIDE DEF e
<1>8. ASSUME NEW m \in DOMAIN nodes, nodes[m].uuid = e.uuid
      PROVE  /\ nodes[m].device = Device /\ nodes[m].type = e.type
             /\ e.type = "folder" => nodes[m].path = e.path
    <2>1. nodes[m].device = Device
        BY <1>5, <1>8 DEF FollowInv, EventRowsOurs
    <2>2. nodes[m] \in Rows /\ PathOfKind(nodes[m])
        BY <1>1, <2>1 DEF TableInv, KindsFit
    <2> QED
        BY <1>5, <1>8, <2>1, <2>2, RowKeepsKind
<1>9. \A n \in DOMAIN nodes : Hit(n) => Catches(log[Reached], nodes[n].path)
    BY <1>5, <1>8 DEF Catches, Put
<1>10. ASSUME NEW n \in DOMAIN nodes, nodes[n].device = Device,
              Caught(log, missed', Reached, nodes[n].path)
       PROVE  Hit(n)
    <2>1. PICK i \in 1..Reached - 1 : log[i].uuid = e.uuid /\ Put(log[i]) /\ i \notin missed'
        BY <1>5, <1>10 DEF Caught, Heard
    <2>2. i \in DOMAIN log \ missed /\ i < Reached
        BY <1>4, <1>6, <2>1
    <2>3. PICK m \in DOMAIN nodes : nodes[m].uuid = e.uuid
        BY <1>4, <2>1, <2>2 DEF FollowInv, RowsExist
    <2>4. e.type = "folder" /\ Below(e.path, nodes[n].path)
        BY <1>5, <1>10 DEF Caught, Catches
    <2> QED
        BY <1>8, <1>10, <2>3, <2>4
<1> HIDE DEF Hit
<1>11. \A k \in DOMAIN log \ missed' : k # Reached => k \in DOMAIN log \ missed
    BY <1>6
<1>12. RowsExist'
    <2> SUFFICES ASSUME NEW k \in DOMAIN log \ missed', k < Reached', Put(log[k])
                 PROVE  \E n \in DOMAIN nodes : nodes[n].uuid = log[k].uuid
        BY <1>2, <1>4 DEF RowsExist, SameRows, Put
    <2>1. k < Reached
        BY <1>5, <1>6 DEF Put
    <2>2. k \in DOMAIN log \ missed
        BY <1>4, <1>11, <2>1
    <2> QED
        BY <1>4, <2>1, <2>2 DEF FollowInv, RowsExist
<1>13. RowsFollow'
    <2> SUFFICES ASSUME NEW k \in DOMAIN log \ missed', NEW n \in DOMAIN nodes,
                        k < Reached', IsLast(log, k), nodes[n].uuid = log[k].uuid
                 PROVE  Follows(log, missed', Reached', k, nodes'[n])
        BY <1>2, <1>4 DEF RowsFollow, SameRows
    <2>1. CASE k = Reached
        <3>1. nodes'[n].deleted /\ ~Put(log[k])
            BY <1>2, <1>5, <1>7, <2>1 DEF Put
        <3> QED
            BY <3>1 DEF Follows
    <2>2. CASE k < Reached
        <3> DEFINE path == nodes[n].path
        <3>1. Follows(log, missed, Reached, k, nodes[n])
            <4>1. k \in DOMAIN log \ missed
                BY <1>4, <1>11, <2>2
            <4> QED
                BY <1>4, <2>2, <4>1 DEF FollowInv, RowsFollow
        <3>2. /\ nodes'[n].path = path
              /\ nodes'[n].deleted <=> nodes[n].deleted \/ Hit(n)
            BY <1>2 DEF SameRows
        <3>3. nodes[n].device = Device
            <4>1. log[k] \in Events
                BY <1>4
            <4> QED
                BY <4>1 DEF FollowInv, EventRowsOurs
        <3> HIDE DEF path
        <3>4. ASSUME NEW j \in k..Reached' - 1, Caught(log, missed', j, path)
              PROVE  Hit(n) \/ (j \in k..Reached - 1 /\ Caught(log, missed, j, path))
            <4>1. CASE Catches(log[Reached], path) /\ j = Reached
                BY <1>10, <3>3, <3>4, <4>1 DEF path
            <4>2. CASE ~Catches(log[Reached], path)
                BY <1>4, <1>6, <3>4, <4>2, EarlierCaught
            <4>3. CASE j # Reached
                <5>1. j \in k..Reached - 1 /\ \A i \in 1..j - 1 : i # Reached
                    BY <1>4, <1>6, <4>3
                <5>2. j \notin missed /\ Heard(log, missed, j)
                    BY <1>6, <3>4, <4>3, <5>1 DEF Caught, Heard
                <5> QED
                    BY <3>4, <5>1, <5>2 DEF Caught
            <4> QED
                BY <4>1, <4>2, <4>3
        <3>5. Reached \in k..Len(log) /\ (Hit(n) => Catches(log[Reached], path))
            BY <1>4, <1>6, <1>9, <2>2 DEF path
        <3>6. ASSUME ~Put(log[k])
              PROVE  nodes'[n].deleted
            BY <3>1, <3>2, <3>6 DEF Follows
        <3>7. ASSUME Put(log[k])
              PROVE  /\ nodes'[n].path = log[k].path
                     /\ (\E j \in k..Reached' - 1 : Caught(log, missed', j, path)) => nodes'[n].deleted
                     /\ nodes'[n].deleted => \E j \in k..Len(log) : Catches(log[j], path)
            BY <3>1, <3>2, <3>4, <3>5, <3>7 DEF Follows, path
        <3> QED
            BY <3>2, <3>6, <3>7 DEF Follows
    <2> QED
        BY <1>6, <2>1, <2>2
<1>14. SelfMarked'
    BY <1>1, <1>4 DEF SelfMarked, TableInv, SyncInv, Types
<1> QED
    BY <1>12, <1>13, <1>14

LEMMA UpdateFailsKeepsFollow ==
    ASSUME TableInv, FollowInv, NEW t \in Threads, UpdateFails(t)
    PROVE  FollowInv'
<1>1. /\ nodes' = nodes /\ missed' = missed \union {next[t]}
      /\ stage' = [stage EXCEPT ![t] = "event"] /\ next' = [next EXCEPT ![t] = @ + 1]
    BY EventStepIs DEF EventDone, Goes
<1>2. EventRowsOurs'
    BY <1>1 DEF FollowInv, EventRowsOurs
<1> SUFFICES ASSUME late' = 0
             PROVE  RowsExist' /\ RowsFollow' /\ SelfMarked'
    BY <1>2 DEF FollowInv
<1>3. /\ late = 0 /\ log' = log /\ Reached = next[t] /\ Reached' = next'[t]
      /\ Reached \in DOMAIN log /\ Reached \in Nat /\ log \in Seq(Events)
      /\ \A v \in Threads : stage'[v] # "free" => v = t
    BY TreeSteps DEF TreeStep
<1>4. Reached' = Reached + 1 /\ missed' = missed \union {Reached}
    BY <1>1, <1>3 DEF TableInv, TableTypes
<1>5. \A k \in DOMAIN log \ missed' : k < Reached' =>
        k \in DOMAIN log \ missed /\ k < Reached /\ k \in Nat
    BY <1>3, <1>4
<1>6. RowsExist'
    BY <1>1, <1>3, <1>5 DEF FollowInv, RowsExist, Put
<1>7. RowsFollow'
    <2> SUFFICES ASSUME NEW k \in DOMAIN log \ missed', NEW n \in DOMAIN nodes,
                        k < Reached', IsLast(log, k), nodes[n].uuid = log[k].uuid
                 PROVE  Follows(log, missed', Reached', k, nodes[n])
        BY <1>1, <1>3 DEF RowsFollow
    <2>1. Follows(log, missed, Reached, k, nodes[n])
        BY <1>3, <1>5 DEF FollowInv, RowsFollow
    <2>2. ASSUME NEW j \in k..Reached' - 1, Caught(log, missed', j, nodes[n].path)
          PROVE  j \in k..Reached - 1 /\ Caught(log, missed, j, nodes[n].path)
        BY <1>3, <1>4, <1>5, <2>2, EarlierCaught
    <2> QED
        BY <2>1, <2>2 DEF Follows
<1>8. SelfMarked'
    BY <1>1, <1>3 DEF SelfMarked, TableInv, SyncInv, Types
<1> QED
    BY <1>6, <1>7, <1>8

LEMMA FollowStep ==
    ASSUME TableInv, FollowInv, [Next]_vars
    PROVE  FollowInv'
<1>1. CASE UNCHANGED vars
    BY <1>1 DEF vars, clientVars, threadVars, treeVars, faultVars, FollowInv, EventRowsOurs, RowsExist,
                RowsFollow, SelfMarked, Event, Reached, Put
<1>2. CASE Next
    <2>1. ASSUME NEW t \in Threads, TreeStep(t)
          PROVE  FollowInv'
        BY <2>1, FindParentKeepsFollow, SaveNodeKeepsFollow, MarkNodeKeepsFollow,
           MarkChildrenKeepsFollow, UpdateFailsKeepsFollow DEF TreeStep, NodeStep
    <2>2. ASSUME \/ \E e \in Events : Log(e)
                 \/ Send \/ Received \/ GiveUp \/ ServerCrash
                 \/ \E t \in Threads : BulkCreate(t)
          PROVE  FollowInv'
        <3>1. CASE late' = 0
            BY <2>2, <3>1, QuietSteps, QuietKeepsFollow
        <3>2. CASE late' # 0
            <4>1. nodes' = nodes
                BY <2>2 DEF Log, Send, Received, GiveUp, ServerCrash, BulkCreate, treeVars
            <4> QED
                BY <3>2, <4>1 DEF FollowInv, EventRowsOurs
        <3> QED
            BY <3>1, <3>2
    <2> QED
        BY <1>2, <2>1, <2>2 DEF Next, ClientStep, SyncEvents, TreeStep, ParentStep, NodeStep
<1> QED
    BY <1>1, <1>2

LEMMA FollowInvariance ==
    ASSUME StrangersOwnUuids
    PROVE  Spec => [](TableInv /\ FollowInv)
<1>1. TableInv /\ FollowInv /\ [Next]_vars => TableInv' /\ FollowInv'
    BY TableStep, FollowStep
<1> QED
    BY <1>1, TableInvInit, FollowInvInit, PTL DEF Spec

(* When all is synchronised, no thread was left behind and no other device *)
(* has a uuid of these events, the row of a uuid is what the log says,     *)
(* whatever errors there were in the updates for other events.             *)
THEOREM TreeFollows ==
    ASSUME StrangersOwnUuids
    PROVE  Spec => []TreeFollowsLog
<1>1. ASSUME TableInv, FollowInv
      PROVE  TreeFollowsLog
    <2> SUFFICES ASSUME Settled, NEW k \in DOMAIN log \ missed, LastOf(log[k].uuid) = k,
                        NEW n, n = FindByUUID(nodes, log[k].uuid)
                 PROVE  IF Put(log[k])
                          THEN /\ n # 0 /\ nodes[n].path = log[k].path
                               /\ (\A j \in k..Len(log) : ~Errs(j, log[k].path)) =>
                                    (nodes[n].deleted <=>
                                       \E j \in k..Len(log) : Buries(j, log[k].path))
                          ELSE (n # 0 => nodes[n].deleted) /\ (Known(k) => n # 0)
        BY DEF TreeFollowsLog
    <2>1. /\ late = 0 /\ log \in Seq(Events) /\ Reached = Len(log) + 1 /\ Len(log) \in Nat
          /\ nodes \in Seq(Rows)
        BY <1>1, SettledFacts DEF TableInv, TableTypes
    <2>2. k \in Nat /\ k # 0 /\ k < Reached /\ Reached - 1 = Len(log) /\ IsLast(log, k)
        BY <2>1, LastOfFacts DEF IsLast
    <2>3. n = 0 => ~\E m \in DOMAIN nodes : nodes[m].uuid = log[k].uuid
        BY <2>1, FindByUUIDFacts
    <2>4. n # 0 => n \in DOMAIN nodes /\ nodes[n].uuid = log[k].uuid
        BY <2>1, FindByUUIDFacts
    <2>5. n # 0 => Follows(log, missed, Reached, k, nodes[n])
        BY <1>1, <2>1, <2>2, <2>4 DEF FollowInv, RowsFollow
    <2>6. ASSUME Put(log[k])
          PROVE  n # 0
        BY <1>1, <2>1, <2>2, <2>3, <2>6 DEF FollowInv, RowsExist
    <2>7. ASSUME Known(k)
          PROVE  n # 0
        <3>1. PICK i \in 1..k - 1 : log[i].uuid = log[k].uuid /\ Put(log[i]) /\ i \notin missed
            BY <2>7 DEF Known
        <3>2. i \in DOMAIN log \ missed /\ i < Reached
            BY <2>1, <2>2, <3>1
        <3> QED
            BY <1>1, <2>1, <2>3, <3>1, <3>2 DEF FollowInv, RowsExist
    <2>8. ASSUME Put(log[k]), NEW path, path = log[k].path,
                 \A j \in k..Len(log) : ~Errs(j, path)
          PROVE  nodes[n].deleted <=> \E j \in k..Len(log) : Buries(j, path)
        <3>1. /\ nodes[n].path = path
              /\ (\E j \in k..Len(log) : Caught(log, missed, j, path)) => nodes[n].deleted
              /\ nodes[n].deleted => \E j \in k..Len(log) : Catches(log[j], path)
            BY <2>2, <2>5, <2>6, <2>8 DEF Follows
        <3>2. ASSUME NEW j \in k..Len(log)
              PROVE  /\ Catches(log[j], path) => Buries(j, path)
                     /\ Buries(j, path) => Caught(log, missed, j, path)
            <4>1. ~Errs(j, path)
                BY <2>8
            <4>2. Known(j) <=> Heard(log, missed, j)
                BY DEF Known, Heard
            <4> QED
                BY <4>1, <4>2 DEF Errs, Buries, Catches, Caught
        <3> QED
            BY <3>1, <3>2
    <2>9. CASE Put(log[k])
        BY <2>5, <2>6, <2>8, <2>9 DEF Follows
    <2>10. CASE ~Put(log[k])
        BY <2>5, <2>7, <2>10 DEF Follows
    <2> QED
        BY <2>9, <2>10
<1> QED
    BY <1>1, FollowInvariance, PTL
=============================================================================
