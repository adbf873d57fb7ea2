---------------------- MODULE NotificationServer_proofs ----------------------
(***************************************************************************)
(* Proofs about the list of online clients, for any devices, descriptors   *)
(* and bounds.                                                             *)
(***************************************************************************)
EXTENDS NotificationServer, FiniteSetTheorems, FunctionTheorems,
        SequenceTheorems, TLAPS

Nodes == [device : Devices, socket : Fds]

(***************************************************************************)
(* The list operators.                                                     *)
(***************************************************************************)

(* The nodes of a device are finitely many.                                *)
LEMMA NodesOfFinite ==
    ASSUME NEW list \in Seq(Nodes), NEW d
    PROVE  /\ NodesOf(list, d) \in SUBSET (1..Len(list))
           /\ IsFiniteSet(NodesOf(list, d))
           /\ Cardinality(NodesOf(list, d)) \in Nat
<1>1. NodesOf(list, d) \in SUBSET (1..Len(list)) /\ Len(list) \in Nat
    BY LenProperties DEF NodesOf
<1>2. IsFiniteSet(1..Len(list))
    BY <1>1, FS_Interval
<1> QED
    BY <1>1, <1>2, FS_Subset, FS_CardinalityType

(* A walk from the head that finds a device stops at one of its nodes.     *)
LEMMA FirstNodeIsNode ==
    ASSUME NEW list \in Seq(Nodes), NEW d, NodesOf(list, d) # {}
    PROVE  FirstNode(list, d) \in NodesOf(list, d)
<1> DEFINE R == OpToRel(<, Nat)
<1>1. NodesOf(list, d) \subseteq Nat
    BY NodesOfFinite
<1>2. PICK i \in NodesOf(list, d) : \A j \in NodesOf(list, d) : ~(<<j, i>> \in R)
    BY <1>1, NatLessThanWellFounded, WFMin
<1>3. \A m, n \in Nat : m < n => <<m, n>> \in R
    BY DEF OpToRel
<1> HIDE DEF R
<1>4. \A j \in NodesOf(list, d) : i <= j
    <2> SUFFICES ASSUME NEW j \in NodesOf(list, d)
                 PROVE  i <= j
        OBVIOUS
    <2>1. ~(<<j, i>> \in R)
        BY <1>2
    <2>2. ~(j < i)
        BY <1>1, <1>3, <2>1
    <2> QED
        BY <1>1, <2>2
<1> QED
    BY <1>4 DEF FirstNode

(* add_client_to_list adds one node, of the device it is given.            *)
LEMMA AddClientProperties ==
    ASSUME NEW list \in Seq(Nodes), NEW d \in Devices, NEW fd \in Fds
    PROVE  /\ AddClient(list, d, fd) \in Seq(Nodes)
           /\ Len(AddClient(list, d, fd)) = Len(list) + 1
           /\ \A e : Cardinality(NodesOf(AddClient(list, d, fd), e)) =
                       Cardinality(NodesOf(list, e)) + (IF e = d THEN 1 ELSE 0)
<1> DEFINE new == AddClient(list, d, fd)
<1>1. /\ new \in Seq(Nodes)
      /\ Len(list) \in Nat
      /\ Len(new) = Len(list) + 1
      /\ new[1] = Node(d, fd)
      /\ \A i \in 1..Len(list) : new[i + 1] = list[i]
    <2>1. <<Node(d, fd)>> \in Seq(Nodes) /\ Len(<<Node(d, fd)>>) = 1
        BY DEF Node, Nodes
    <2>2. Len(list) \in Nat
        BY LenProperties
    <2> HIDE DEF Nodes
    <2>3. /\ new \in Seq(Nodes)
          /\ Len(new) = 1 + Len(list)
          /\ \A i \in 1..(1 + Len(list)) :
               new[i] = IF i <= 1 THEN <<Node(d, fd)>>[i] ELSE list[i - 1]
        BY <2>1, ConcatProperties DEF AddClient
    <2> QED
        BY <2>2, <2>3
<1>2. ASSUME NEW e
      PROVE  Cardinality(NodesOf(new, e)) =
               Cardinality(NodesOf(list, e)) + (IF e = d THEN 1 ELSE 0)
    <2> DEFINE Old == NodesOf(list, e)
               Shifted == {i \in 2..Len(new) : new[i].device = e}
               shift == [i \in Old |-> i + 1]
    <2>1. IsFiniteSet(Old) /\ Cardinality(Old) \in Nat /\ Old \subseteq 1..Len(list)
        BY NodesOfFinite
    <2>2. shift \in Bijection(Old, Shifted)
        <3>1. Old = {i \in 1..Len(list) : list[i].device = e}
            BY LenProperties DEF NodesOf
        <3>2. \A i \in Old : shift[i] \in Shifted
            BY <1>1, <3>1
        <3>3. \A i, j \in Old : shift[i] = shift[j] => i = j
            BY <2>1
        <3>4. \A k \in Shifted : \E i \in Old : shift[i] = k
            <4> SUFFICES ASSUME NEW k \in Shifted
                         PROVE  k - 1 \in Old /\ shift[k - 1] = k
                OBVIOUS
            <4>1. k - 1 \in 1..Len(list) /\ k = (k - 1) + 1
                BY <1>1
            <4>2. new[k] = list[k - 1]
                BY <1>1, <4>1
            <4> QED
                BY <3>1, <4>1, <4>2
        <3> QED
            BY <3>2, <3>3, <3>4, Fun_IsBij
    <2>3. IsFiniteSet(Shifted) /\ Cardinality(Shifted) = Cardinality(Old)
        BY <2>1, <2>2, FS_Bijection DEF ExistsBijection
    <2>4. NodesOf(new, e) = IF e = d THEN Shifted \union {1} ELSE Shifted
        <3>1. NodesOf(new, e) = {i \in 1..Len(new) : new[i].device = e}
            BY <1>1, LenProperties DEF NodesOf
        <3>2. new[1].device = d /\ Len(new) >= 1
            BY <1>1 DEF Node
        <3> QED
            BY <1>1, <3>1, <3>2
    <2>5. 1 \notin Shifted
        OBVIOUS
    <2>6. Cardinality(Shifted \union {1}) = Cardinality(Shifted) + 1
        BY <2>3, <2>5, FS_AddElement
    <2> HIDE DEF Old, Shifted, new
    <2> QED
        BY <2>1, <2>3, <2>4, <2>6 DEF Old
<1> QED
    BY <1>1, <1>2

(* remove_client_from_list takes one node, of the device it is given.      *)
LEMMA RemoveClientProperties ==
    ASSUME NEW list \in Seq(Nodes), NEW d, NodesOf(list, d) # {}
    PROVE  /\ RemoveClient(list, d) \in Seq(Nodes)
           /\ Len(list) \in Nat \ {0}
           /\ Len(RemoveClient(list, d)) = Len(list) - 1
           /\ \A e : Cardinality(NodesOf(RemoveClient(list, d), e)) =
                       Cardinality(NodesOf(list, e)) - (IF e = d THEN 1 ELSE 0)
<1> DEFINE k == FirstNode(list, d)
           new == RemoveClient(list, d)
<1>1. k \in NodesOf(list, d) /\ k \in 1..Len(list) /\ Len(list) \in Nat
    BY FirstNodeIsNode, NodesOfFinite, LenProperties
<1>2. list[k].device = d
    BY <1>1 DEF NodesOf
<1> HIDE DEF k
<1>3. /\ new \in Seq(Nodes)
      /\ Len(new) = Len(list) - 1
      /\ \A i \in 1..Len(new) : new[i] = IF i < k THEN list[i] ELSE list[i + 1]
    <2> DEFINE before == SubSeq(list, 1, k - 1)
               after == SubSeq(list, k + 1, Len(list))
    <2>1. \A i \in 1..Len(list) : list[i] \in Nodes
        BY ElementOfSeq
    <2>2. /\ before \in Seq(Nodes)
          /\ Len(before) = k - 1
          /\ \A i \in 1..(k - 1) : before[i] = list[i]
        <3>1. 1 \in Int /\ k - 1 \in Int /\ \A i \in 1..(k - 1) : list[i] \in Nodes
            BY <1>1, <2>1
        <3>2. /\ before \in Seq(Nodes)
              /\ Len(before) = IF 1 <= k - 1 THEN (k - 1) - 1 + 1 ELSE 0
              /\ \A i \in 1..((k - 1) - 1 + 1) : before[i] = list[1 + i - 1]
            BY <3>1, SubSeqProperties
        <3> QED
            BY <1>1, <3>2
    <2>3. /\ after \in Seq(Nodes)
          /\ Len(after) = Len(list) - k
          /\ \A i \in 1..(Len(list) - k) : after[i] = list[k + i]
        <3>1. /\ k + 1 \in Int /\ Len(list) \in Int
              /\ \A i \in (k + 1)..Len(list) : list[i] \in Nodes
            BY <1>1, <2>1
        <3>2. /\ after \in Seq(Nodes)
              /\ Len(after) =
                   IF k + 1 <= Len(list) THEN Len(list) - (k + 1) + 1 ELSE 0
              /\ \A i \in 1..(Len(list) - (k + 1) + 1) :
                   after[i] = list[(k + 1) + i - 1]
            BY <3>1, SubSeqProperties
        <3>3. \A i \in Int : (k + 1) + i - 1 = k + i
            BY <1>1
        <3> QED
            BY <1>1, <3>2, <3>3
    <2>4. new = before \o after
        BY DEF RemoveClient, RemoveAt, k
    <2> HIDE DEF before, after, new
    <2>5. /\ new \in Seq(Nodes)
          /\ Len(new) = Len(before) + Len(after)
          /\ \A i \in 1..(Len(before) + Len(after)) :
               new[i] = IF i <= Len(before) THEN before[i]
                                            ELSE after[i - Len(before)]
        BY <2>2, <2>3, <2>4, ConcatProperties
    <2>6. ASSUME NEW i \in 1..Len(new)
          PROVE  new[i] = IF i < k THEN list[i] ELSE list[i + 1]
        <3>1. CASE i < k
            BY <1>1, <2>2, <2>3, <2>5, <3>1
        <3>2. CASE ~(i < k)
            <4>1. /\ i - (k - 1) \in 1..(Len(list) - k)
                  /\ k + (i - (k - 1)) = i + 1
                BY <1>1, <2>2, <2>3, <2>5, <3>2
            <4>2. new[i] = after[i - (k - 1)]
                BY <1>1, <2>2, <2>3, <2>5, <3>2
            <4> QED
                BY <2>3, <3>2, <4>1, <4>2
        <3> QED
            BY <3>1, <3>2
    <2> QED
        BY <1>1, <2>2, <2>3, <2>5, <2>6
<1> HIDE DEF new
<1>4. ASSUME NEW e
      PROVE  Cardinality(NodesOf(new, e)) =
               Cardinality(NodesOf(list, e)) - (IF e = d THEN 1 ELSE 0)
    <2> DEFINE Kept == NodesOf(list, e) \ {k}
               shift == [i \in Kept |-> IF i < k THEN i ELSE i - 1]
    <2>1. /\ IsFiniteSet(NodesOf(list, e))
          /\ Cardinality(NodesOf(list, e)) \in Nat
          /\ NodesOf(list, e) = {i \in 1..Len(list) : list[i].device = e}
        BY NodesOfFinite, LenProperties DEF NodesOf
    <2>2. NodesOf(new, e) = {i \in 1..Len(new) : new[i].device = e}
        BY <1>3, LenProperties DEF NodesOf
    <2>3. shift \in Bijection(Kept, NodesOf(new, e))
        <3>1. \A i \in Kept : shift[i] \in NodesOf(new, e)
            <4> SUFFICES ASSUME NEW i \in Kept
                         PROVE  shift[i] \in NodesOf(new, e)
                OBVIOUS
            <4>1. i \in 1..Len(list) /\ i # k /\ list[i].device = e
                BY <2>1
            <4>2. CASE i < k
                BY <1>1, <1>3, <2>2, <4>1, <4>2
            <4>3. CASE k < i
                <5>1. shift[i] = i - 1
                    BY <1>1, <4>1, <4>3
                <5>2. i - 1 \in 1..Len(new) /\ ~(i - 1 < k) /\ (i - 1) + 1 = i
                    BY <1>1, <1>3, <4>1, <4>3
                <5> QED
                    BY <1>3, <2>2, <4>1, <5>1, <5>2
            <4> QED
                BY <1>1, <4>1, <4>2, <4>3
        <3>2. \A i, j \in Kept : shift[i] = shift[j] => i = j
            BY <1>1, <2>1
        <3>3. \A m \in NodesOf(new, e) : \E i \in Kept : shift[i] = m
            <4> SUFFICES ASSUME NEW m \in NodesOf(new, e)
                         PROVE  \E i \in Kept : shift[i] = m
                OBVIOUS
            <4>1. m \in 1..Len(new) /\ new[m].device = e
                BY <2>2
            <4>2. CASE m < k
                <5>1. m \in Kept /\ shift[m] = m
                    BY <1>1, <1>3, <2>1, <4>1, <4>2
                <5> QED
                    BY <5>1
            <4>3. CASE ~(m < k)
                <5>1. m + 1 \in Kept
                    BY <1>1, <1>3, <2>1, <4>1, <4>3
                <5>2. ~(m + 1 < k) /\ (m + 1) - 1 = m
                    BY <1>1, <4>1, <4>3
                <5> QED
                    BY <5>1, <5>2
            <4> QED
                BY <4>2, <4>3
        <3> QED
            BY <3>1, <3>2, <3>3, Fun_IsBij
    <2>4. IsFiniteSet(Kept) /\ Cardinality(Kept) =
            IF k \in NodesOf(list, e) THEN Cardinality(NodesOf(list, e)) - 1
                                      ELSE Cardinality(NodesOf(list, e))
        BY <2>1, FS_RemoveElement
    <2>5. Cardinality(NodesOf(new, e)) = Cardinality(Kept)
        BY <2>3, <2>4, FS_Bijection DEF ExistsBijection
    <2>6. k \in NodesOf(list, e) <=> e = d
        BY <1>1, <1>2, <2>1
    <2> QED
        BY <2>1, <2>4, <2>5, <2>6
<1> QED
    BY <1>1, <1>3, <1>4 DEF new

(***************************************************************************)
(* The inductive invariant.  NodePerThread makes sure that the thread that *)
(* leaves finds a node to remove, which ActiveCoversThreads needs.         *)
(***************************************************************************)
RegistryInv == RegistryTypeOK /\ NodePerThread /\ ActiveCoversThreads

(* The steps that touch the list, the counter or a handler thread.         *)
RegistryStep ==
    \/ \E d \in Devices, fd \in Fds : Connect(d, fd)
    \/ \E fd \in Fds : HandlerStep(fd) \/ OnConnectReturns(fd)
    \/ ServerCrash
    \/ UNCHANGED registryVars

(* Sets of descriptors are finite and can be counted.                      *)
LEMMA FdSetsFinite ==
    ASSUME NEW S \in SUBSET Fds
    PROVE  IsFiniteSet(S) /\ Cardinality(S) \in Nat
BY FdsAssumption, FS_Subset, FS_CardinalityType

(* A set of descriptors that gains or loses one.                           *)
LEMMA CountGains ==
    ASSUME NEW S \in SUBSET Fds, NEW fd \in Fds, fd \notin S
    PROVE  Cardinality(S \union {fd}) = Cardinality(S) + 1
BY FdSetsFinite, FS_AddElement

(* Taking an element out of a set of descriptors lowers its count by one.  *)
LEMMA CountLoses ==
    ASSUME NEW S \in SUBSET Fds, NEW fd \in S
    PROVE  /\ Cardinality(S \ {fd}) = Cardinality(S) - 1
           /\ Cardinality(S) \in Nat \ {0}
<1>1. Cardinality(S \ {fd}) = Cardinality(S) - 1
    BY FdSetsFinite, FS_RemoveElement
<1>2. Cardinality(S \ {fd}) \in Nat /\ Cardinality(S) \in Nat
    BY FdSetsFinite
<1> QED
    BY <1>1, <1>2

(* The invariant holds when the server starts, or starts again.            *)
LEMMA RegistryEmpty ==
    ASSUME registry = <<>>, active = 0, pc = [fd \in Fds |-> "free"],
           device = [fd \in Fds |-> NoDevice]
    PROVE  RegistryInv
<1>1. RegistryTypeOK
    BY DEF RegistryTypeOK, HandlerStates
<1>2. \A d : NodesOf(registry, d) = {}
    BY DEF NodesOf
<1>3. \A d : RegisteredFor(d) = {}
    BY DEF RegisteredFor, Registered
<1>4. NodePerThread
    BY <1>2, <1>3 DEF NodePerThread
<1>5. Unlisted = {} /\ Len(registry) = 0
    BY DEF Unlisted
<1>6. ActiveCoversThreads
    BY <1>5, FS_EmptySet DEF ActiveCoversThreads
<1> QED
    BY <1>1, <1>4, <1>6 DEF RegistryInv

(* A server that starts again has a registry as it should be.              *)
LEMMA RegistryEmptyNext ==
    ASSUME registry' = <<>>, active' = 0, pc' = [fd \in Fds |-> "free"],
           device' = [fd \in Fds |-> NoDevice]
    PROVE  RegistryInv'
<1>1. RegistryTypeOK'
    BY DEF RegistryTypeOK, HandlerStates
<1>2. \A d : NodesOf(registry', d) = {}
    BY DEF NodesOf
<1>3. \A d : RegisteredFor(d)' = {}
    BY DEF RegisteredFor, Registered
<1>4. NodePerThread'
    BY <1>2, <1>3 DEF NodePerThread
<1>5. Unlisted' = {} /\ Len(registry') = 0
    BY DEF Unlisted
<1>6. ActiveCoversThreads'
    BY <1>5, FS_EmptySet DEF ActiveCoversThreads
<1> QED
    BY <1>1, <1>4, <1>6 DEF RegistryInv

(* What a thread needs of NodePerThread: while it is registered, its       *)
(* device is on the list.                                                  *)
LEMMA RegisteredIsListed ==
    ASSUME RegistryInv, NEW fd \in Registered
    PROVE  device[fd] \in Devices /\ Listed(device[fd])
<1>1. fd \in Fds /\ device[fd] \in Devices
    BY DEF Registered, RegistryInv, RegistryTypeOK
<1>2. RegisteredFor(device[fd]) \in SUBSET Fds /\ fd \in RegisteredFor(device[fd])
    BY DEF RegisteredFor, Registered
<1>3. Cardinality(RegisteredFor(device[fd])) # 0
    BY <1>2, CountLoses
<1>4. Cardinality(NodesOf(registry, device[fd])) # 0
    BY <1>1, <1>3 DEF RegistryInv, NodePerThread
<1> QED
    BY <1>1, <1>4, FS_EmptySet DEF Listed

(***************************************************************************)
(* Each kind of step preserves the invariant.                              *)
(***************************************************************************)

(* An accepted connection is counted before it is listed.                  *)
LEMMA ConnectStep ==
    ASSUME RegistryInv, NEW d \in Devices, NEW fd \in Fds, Connect(d, fd)
    PROVE  RegistryInv'
<1> USE DEF Connect
<1>1. RegistryTypeOK'
    BY DEF RegistryInv, RegistryTypeOK, HandlerStates
<1>2. \A e \in Devices : RegisteredFor(e)' = RegisteredFor(e)
    BY DEF RegistryInv, RegistryTypeOK, RegisteredFor, Registered
<1>3. NodePerThread'
    BY <1>2 DEF RegistryInv, NodePerThread
<1>4. Unlisted' = Unlisted \union {fd} /\ fd \notin Unlisted /\ Unlisted \in SUBSET Fds
    BY DEF RegistryInv, RegistryTypeOK, Unlisted
<1>5. Cardinality(Unlisted') = Cardinality(Unlisted) + 1 /\ Cardinality(Unlisted) \in Nat
    BY <1>4, CountGains, FdSetsFinite
<1>6. Len(registry) \in Nat /\ active \in Nat
    BY LenProperties DEF RegistryInv, RegistryTypeOK
<1>7. ActiveCoversThreads'
    BY <1>5, <1>6 DEF RegistryInv, ActiveCoversThreads
<1> QED
    BY <1>1, <1>3, <1>7 DEF RegistryInv

(* A node is added for the thread that registers.                          *)
LEMMA RegisterStep ==
    ASSUME RegistryInv, NEW fd \in Fds, Register(fd)
    PROVE  RegistryInv'
<1> USE DEF Register
<1> DEFINE d == device[fd]
<1>1. d \in Devices /\ registry \in Seq(Nodes) /\ pc \in [Fds -> HandlerStates]
    BY DEF RegistryInv, RegistryTypeOK, Nodes
<1>2. /\ registry' \in Seq(Nodes)
      /\ Len(registry') = Len(registry) + 1
      /\ \A e : Cardinality(NodesOf(registry', e)) =
                  Cardinality(NodesOf(registry, e)) + (IF e = d THEN 1 ELSE 0)
    BY <1>1, AddClientProperties
<1>3. RegistryTypeOK'
    BY <1>2 DEF RegistryInv, RegistryTypeOK, HandlerStates, Nodes
<1>4. NodePerThread'
    <2> SUFFICES ASSUME NEW e \in Devices
                 PROVE  Cardinality(NodesOf(registry', e)) =
                          Cardinality(RegisteredFor(e)')
        BY DEF NodePerThread
    <2>1. RegisteredFor(e)' =
            IF e = d THEN RegisteredFor(e) \union {fd} ELSE RegisteredFor(e)
        BY <1>1 DEF RegisteredFor, Registered
    <2>2. fd \notin RegisteredFor(e) /\ RegisteredFor(e) \in SUBSET Fds
        BY DEF RegisteredFor, Registered
    <2>3. Cardinality(NodesOf(registry, e)) = Cardinality(RegisteredFor(e))
        BY DEF RegistryInv, NodePerThread
    <2>4. CASE e = d
        BY <1>2, <2>1, <2>2, <2>3, <2>4, CountGains
    <2>5. CASE e # d
        <3>1. Cardinality(NodesOf(registry', e)) = Cardinality(RegisteredFor(e)) + 0
            BY <1>2, <2>3, <2>5
        <3> QED
            BY <2>1, <2>2, <2>5, <3>1, FdSetsFinite
    <2> QED
        BY <2>4, <2>5
<1>5. ActiveCoversThreads'
    <2>1. Unlisted' = Unlisted \ {fd} /\ fd \in Unlisted /\ Unlisted \in SUBSET Fds
        BY <1>1 DEF Unlisted
    <2>2. /\ Cardinality(Unlisted') = Cardinality(Unlisted) - 1
          /\ Cardinality(Unlisted) \in Nat
        BY <2>1, CountLoses
    <2>3. Len(registry) \in Nat /\ active \in Nat
        BY <1>1, LenProperties DEF RegistryInv, RegistryTypeOK
    <2> QED
        BY <1>2, <2>2, <2>3 DEF RegistryInv, ActiveCoversThreads
<1> QED
    BY <1>3, <1>4, <1>5 DEF RegistryInv

(* One node is removed for the thread that leaves, whosever it was.        *)
LEMMA UnregisterStep ==
    ASSUME RegistryInv, NEW fd \in Fds, Unregister(fd)
    PROVE  RegistryInv'
<1> USE DEF Unregister
<1> DEFINE d == device[fd]
<1>1. fd \in Registered /\ registry \in Seq(Nodes) /\ pc \in [Fds -> HandlerStates]
    BY DEF RegistryInv, RegistryTypeOK, Nodes, Registered
<1>2. d \in Devices /\ NodesOf(registry, d) # {}
    BY <1>1, RegisteredIsListed DEF Listed
<1>3. /\ registry' \in Seq(Nodes)
      /\ Len(registry) \in Nat
      /\ Len(registry') = Len(registry) - 1
      /\ \A e : Cardinality(NodesOf(registry', e)) =
                  Cardinality(NodesOf(registry, e)) - (IF e = d THEN 1 ELSE 0)
    BY <1>1, <1>2, RemoveClientProperties
<1>4. RegistryTypeOK'
    BY <1>3 DEF RegistryInv, RegistryTypeOK, HandlerStates, Nodes
<1>5. NodePerThread'
    <2> SUFFICES ASSUME NEW e \in Devices
                 PROVE  Cardinality(NodesOf(registry', e)) =
                          Cardinality(RegisteredFor(e)')
        BY DEF NodePerThread
    <2>1. RegisteredFor(e)' =
            IF e = d THEN RegisteredFor(e) \ {fd} ELSE RegisteredFor(e)
        BY <1>1 DEF RegisteredFor, Registered
    <2>2. (e = d => fd \in RegisteredFor(e)) /\ RegisteredFor(e) \in SUBSET Fds
        BY <1>1 DEF RegisteredFor, Registered
    <2>3. Cardinality(NodesOf(registry, e)) = Cardinality(RegisteredFor(e))
        BY DEF RegistryInv, NodePerThread
    <2>4. CASE e = d
        BY <1>3, <2>1, <2>2, <2>3, <2>4, CountLoses
    <2>5. CASE e # d
        <3>1. Cardinality(NodesOf(registry', e)) = Cardinality(RegisteredFor(e)) - 0
            BY <1>3, <2>3, <2>5
        <3> QED
            BY <2>1, <2>2, <2>5, <3>1, FdSetsFinite
    <2> QED
        BY <2>4, <2>5
<1>6. ActiveCoversThreads'
    <2>1. Unlisted' = Unlisted \union {fd} /\ fd \notin Unlisted /\ Unlisted \in SUBSET Fds
        BY <1>1 DEF Unlisted
    <2>2. /\ Cardinality(Unlisted') = Cardinality(Unlisted) + 1
          /\ Cardinality(Unlisted) \in Nat
        BY <2>1, CountGains, FdSetsFinite
    <2>3. active \in Nat
        BY DEF RegistryInv, RegistryTypeOK
    <2> QED
        BY <1>3, <2>2, <2>3 DEF RegistryInv, ActiveCoversThreads
<1> QED
    BY <1>4, <1>5, <1>6 DEF RegistryInv

(* A thread that stays on the same side of the list.                       *)
LEMMA QuietStep ==
    ASSUME RegistryInv, NEW fd \in Fds,
           \/ AnnounceOnline(fd) \/ OnConnectReturns(fd) \/ SendHello(fd)
           \/ AnnounceOffline(fd) \/ CloseSocket(fd)
    PROVE  RegistryInv'
<1> USE DEF AnnounceOnline, OnConnectReturns, SendHello, AnnounceOffline, CloseSocket
<1>1. RegistryTypeOK'
    BY DEF RegistryInv, RegistryTypeOK, HandlerStates
<1>2. \A e \in Devices : RegisteredFor(e)' = RegisteredFor(e)
    BY DEF RegistryInv, RegistryTypeOK, RegisteredFor, Registered
<1>3. Unlisted' = Unlisted
    BY DEF RegistryInv, RegistryTypeOK, Unlisted
<1>4. registry' = registry /\ active' = active
    OBVIOUS
<1> QED
    BY <1>1, <1>2, <1>3, <1>4 DEF RegistryInv, NodePerThread, ActiveCoversThreads

(* A thread that gives up its place among the counted: active_clients goes *)
(* down at most by one.                                                    *)
LEMMA LeaveStep ==
    ASSUME RegistryInv, NEW fd \in Fds, Retire(fd) \/ RecvIdFails(fd)
    PROVE  RegistryInv'
<1> USE DEF Retire, RecvIdFails
<1>1. /\ Unlisted' = Unlisted \ {fd}
      /\ fd \in Unlisted
      /\ Unlisted \in SUBSET Fds
    BY DEF RegistryInv, RegistryTypeOK, Unlisted
<1>2. /\ Cardinality(Unlisted') = Cardinality(Unlisted) - 1
      /\ Cardinality(Unlisted) \in Nat \ {0}
    BY <1>1, CountLoses
<1>3. Len(registry) \in Nat /\ active \in Nat /\ registry' = registry
    BY LenProperties DEF RegistryInv, RegistryTypeOK
<1>4. active' \in {active, active - 1}
    OBVIOUS
<1>5. active' \in Nat /\ ActiveCoversThreads'
    BY <1>2, <1>3, <1>4 DEF RegistryInv, ActiveCoversThreads
<1>6. RegistryTypeOK'
    BY <1>5 DEF RegistryInv, RegistryTypeOK, HandlerStates
<1>7. \A e \in Devices : RegisteredFor(e)' = RegisteredFor(e)
    BY DEF RegistryInv, RegistryTypeOK, RegisteredFor, Registered
<1> QED
    BY <1>3, <1>5, <1>6, <1>7 DEF RegistryInv, NodePerThread

(* Steps that leave the registry alone keep its invariant.                 *)
LEMMA RegistryStutters ==
    ASSUME RegistryInv, UNCHANGED registryVars
    PROVE  RegistryInv'
<1>1. /\ RegistryTypeOK'
      /\ \A e \in Devices : RegisteredFor(e)' = RegisteredFor(e)
      /\ Unlisted' = Unlisted
    BY DEF registryVars, RegistryInv, RegistryTypeOK, RegisteredFor, Registered,
           Unlisted
<1> QED
    BY <1>1
    DEF registryVars, RegistryInv, NodePerThread, ActiveCoversThreads

(* Every step of the server preserves the invariant.                       *)
LEMMA RegistryStepPreserves ==
    ASSUME RegistryInv, RegistryStep
    PROVE  RegistryInv'
<1>1. ASSUME NEW d \in Devices, NEW fd \in Fds, Connect(d, fd)
      PROVE  RegistryInv'
    BY <1>1, ConnectStep
<1>2. ASSUME NEW fd \in Fds, HandlerStep(fd) \/ OnConnectReturns(fd)
      PROVE  RegistryInv'
    <2>1. CASE Register(fd)
        BY <2>1, RegisterStep
    <2>2. CASE Unregister(fd)
        BY <2>2, UnregisterStep
    <2>3. CASE \/ AnnounceOnline(fd) \/ OnConnectReturns(fd) \/ SendHello(fd)
               \/ AnnounceOffline(fd) \/ CloseSocket(fd)
        BY <2>3, QuietStep
    <2>4. CASE Retire(fd) \/ RecvIdFails(fd)
        BY <2>4, LeaveStep
    <2> QED
        BY <1>2, <2>1, <2>2, <2>3, <2>4 DEF HandlerStep
<1>3. CASE ServerCrash
    BY <1>3, RegistryEmptyNext DEF ServerCrash
<1>4. CASE UNCHANGED registryVars
    BY <1>4, RegistryStutters
<1> QED
    BY <1>1, <1>2, <1>3, <1>4 DEF RegistryStep

(* Every step of the server is one of these to the registry.               *)
LEMMA NextIsRegistryStep ==
    ASSUME [Next]_serverVars
    PROVE  RegistryStep
BY DEF Next, serverVars, RegistryStep, ClientStep, ReadGreeting, OnMessage,
       ConnectionClosed, Drop, registryVars

(* What the invariant says of the list, in the words of the properties.    *)
LEMMA RegistryInvImplies ==
    ASSUME RegistryInv
    PROVE  NodePerThread /\ ServedIsListed /\ ActiveCoversThreads
BY RegisteredIsListed DEF RegistryInv, ServedIsListed

(* The registry's invariant holds always.                                  *)
LEMMA RegistryInvariance == Spec => []RegistryInv
<1>1. Init => RegistryInv
    BY RegistryEmpty DEF Init
<1>2. RegistryInv /\ [Next]_serverVars => RegistryInv'
    BY NextIsRegistryStep, RegistryStepPreserves
<1> QED
    BY <1>1, <1>2, PTL DEF Spec

(* However reconnections of a device overlap, the list names it as many    *)
(* times as threads serve it, a device being served is found, and          *)
(* active_clients covers the list.                                         *)
THEOREM RegistryCorrect ==
    Spec => [](NodePerThread /\ ServedIsListed /\ ActiveCoversThreads)
BY RegistryInvariance, RegistryInvImplies, PTL

(* Each node, and each thread that has not added its node yet or has       *)
(* removed one, stays counted by active_clients, however add_client and    *)
(* remove_client of overlapping connections interleave.                    *)
THEOREM ActiveThreadsCovered == Spec => []ActiveCoversThreads
BY RegistryCorrect, PTL

(***************************************************************************)
(* Types of the rest of the state, and the connections.                    *)
(***************************************************************************)

(* Writing to sockets keeps every inbox a sequence of packets.             *)
LEMMA WriteType ==
    ASSUME NEW fd, NEW p \in Packets, inbox \in [Devices -> Seq(Packets)],
           Write(fd, p)
    PROVE  inbox' \in [Devices -> Seq(Packets)]
<1>1. \A d \in Devices : Append(inbox[d], p) \in Seq(Packets)
    BY AppendProperties
<1> QED
    BY <1>1 DEF Write

(* A broadcast keeps the type of the inboxes.                              *)
LEMMA BroadcastType ==
    ASSUME NEW sender, NEW p \in Packets, RegistryTypeOK,
           inbox \in [Devices -> Seq(Packets)], Broadcast(sender, p)
    PROVE  inbox' \in [Devices -> Seq(Packets)]
<1> DEFINE Reached(d) == {n \in BroadcastNodes(sender) :
                            registry[n].socket = sock[d]}
           copies(d) == [i \in 1..Cardinality(Reached(d)) |-> p]
<1>1. registry \in Seq(Nodes)
    BY DEF RegistryTypeOK, Nodes
<1>2. ASSUME NEW d \in Devices
      PROVE  inbox[d] \o copies(d) \in Seq(Packets)
    <2>1. IsFiniteSet(BroadcastNodes(sender))
        BY <1>1, NodesOfFinite, FS_EmptySet DEF BroadcastNodes
    <2>2. Cardinality(Reached(d)) \in Nat
        BY <2>1, FS_Subset, FS_CardinalityType
    <2>3. copies(d) \in [1..Cardinality(Reached(d)) -> Packets]
        OBVIOUS
    <2>4. copies(d) \in Seq(Packets)
        BY <2>2, <2>3, SeqDef
    <2> QED
        BY <2>4, ConcatProperties
<1>3. inbox' = [d \in Devices |-> inbox[d] \o copies(d)]
    BY DEF Broadcast
<1> QED
    BY <1>2, <1>3

(* Every variable keeps its type.                                          *)
LEMMA TypeStep ==
    ASSUME TypeOK, RegistryInv, RegistryInv', [Next]_serverVars
    PROVE  TypeOK'
<1> DEFINE Others ==
             /\ client \in [Devices -> {"down", "greeting", "listening"}]
             /\ sock \in [Devices -> Fds \union {NoFd}]
             /\ inbox \in [Devices -> Seq(Packets)]
             /\ handled \in [Devices -> SUBSET Packets]
             /\ swallowed \in [Devices -> SUBSET Packets]
             /\ drops \in 0..MaxDrops
             /\ crashes \in 0..MaxCrashes
<1>1. RegistryTypeOK'
    BY DEF RegistryInv
<1>2. Hello \in Packets /\ Notice \in Packets /\ Payloads \subseteq Packets
    BY DEF Packets
<1>3. SUFFICES Others'
    BY <1>1 DEF TypeOK
<1>4. Others /\ RegistryTypeOK
    BY DEF TypeOK
<1>5. ASSUME NEW d \in Devices, NEW fd \in Fds, Connect(d, fd)
      PROVE  Others'
    BY <1>4, <1>5 DEF Connect, budgetVars
<1>6. ASSUME NEW fd \in Fds, HandlerStep(fd) \/ OnConnectReturns(fd)
      PROVE  Others'
    <2>1. CASE \/ Register(fd) \/ RecvIdFails(fd) \/ OnConnectReturns(fd)
               \/ Unregister(fd) \/ Retire(fd) \/ CloseSocket(fd)
        BY <1>4, <2>1 DEF Register, RecvIdFails, OnConnectReturns, Unregister,
                          Retire, CloseSocket, clientVars, budgetVars
    <2>2. CASE AnnounceOnline(fd) \/ AnnounceOffline(fd)
        <3>1. inbox' \in [Devices -> Seq(Packets)]
            BY <1>2, <1>4, <2>2, BroadcastType DEF AnnounceOnline, AnnounceOffline
        <3> QED
            BY <1>4, <2>2, <3>1 DEF AnnounceOnline, AnnounceOffline, budgetVars
    <2>3. CASE SendHello(fd)
        <3>1. inbox' \in [Devices -> Seq(Packets)]
            BY <1>2, <1>4, <2>3, WriteType DEF SendHello
        <3> QED
            BY <1>4, <2>3, <3>1 DEF SendHello, budgetVars
    <2> QED
        BY <1>6, <2>1, <2>2, <2>3 DEF HandlerStep
<1>7. ASSUME NEW d \in Devices, ReadGreeting(d) \/ OnMessage(d)
      PROVE  Others'
    <2>1. inbox[d] \in Seq(Packets) /\ inbox[d] # <<>>
        BY <1>4, <1>7 DEF ReadGreeting, OnMessage
    <2>2. Head(inbox[d]) \in Packets /\ Tail(inbox[d]) \in Seq(Packets)
        BY <2>1, HeadTailProperties
    <2>3. CASE ReadGreeting(d)
        BY <1>4, <2>2, <2>3 DEF ReadGreeting, budgetVars
    <2>4. CASE OnMessage(d)
        BY <1>4, <2>2, <2>4 DEF OnMessage, budgetVars
    <2> QED
        BY <1>7, <2>3, <2>4
<1>8. ASSUME NEW d \in Devices, ConnectionClosed(d)
      PROVE  Others'
    BY <1>4, <1>8 DEF ConnectionClosed, budgetVars
<1>9. ASSUME NEW d \in Devices, Drop(d)
      PROVE  Others'
    <2>1. drops' \in 0..MaxDrops
        BY <1>4, <1>9, BoundsAssumption DEF Drop
    <2> QED
        BY <1>4, <1>9, <2>1 DEF Drop
<1>11. CASE ServerCrash
    <2>1. crashes' \in 0..MaxCrashes
        BY <1>4, <1>11, BoundsAssumption DEF ServerCrash
    <2> QED
        BY <1>4, <1>11, <2>1 DEF ServerCrash
<1>12. CASE UNCHANGED serverVars
    BY <1>4, <1>12 DEF serverVars, clientVars, budgetVars
<1> QED
    BY <1>5, <1>6, <1>7, <1>8, <1>9, <1>11, <1>12 DEF Next, ClientStep

(* Type correctness of the notification server.                            *)
THEOREM TypeCorrect == Spec => []TypeOK
<1>1. Init => TypeOK
    <2>1. ASSUME Init PROVE RegistryTypeOK
        BY <2>1, RegistryEmpty DEF Init, RegistryInv
    <2> QED
        BY <2>1, BoundsAssumption DEF Init, TypeOK
<1>2. TypeOK /\ RegistryInv /\ RegistryInv' /\ [Next]_serverVars => TypeOK'
    BY TypeStep
<1> QED
    BY <1>1, <1>2, RegistryInvariance, PTL DEF Spec

(* Every connection keeps a thread of its own device at its server end.    *)
LEMMA ConnectedStep ==
    ASSUME TypeOK, ConnectedIsServed, [Next]_serverVars
    PROVE  ConnectedIsServed'
<1> USE FdsAssumption
<1>1. /\ pc \in [Fds -> HandlerStates]
      /\ device \in [Fds -> Devices \union {NoDevice}]
      /\ sock \in [Devices -> Fds \union {NoFd}]
    BY DEF TypeOK, RegistryTypeOK
<1>2. ASSUME NEW d \in Devices, NEW fd \in Fds, Connect(d, fd)
      PROVE  ConnectedIsServed'
    <2>1. \A e \in Devices : sock[e] # fd
        BY <1>2 DEF Connect, ConnectedIsServed
    <2> QED
        BY <1>1, <1>2, <2>1 DEF Connect, ConnectedIsServed
<1>3. ASSUME NEW fd \in Fds, HandlerStep(fd) \/ OnConnectReturns(fd)
      PROVE  ConnectedIsServed'
    <2> USE <1>1 DEF ConnectedIsServed, clientVars
    <2>1. CASE Register(fd) \/ AnnounceOnline(fd) \/ OnConnectReturns(fd) \/ SendHello(fd)
        BY <2>1 DEF Register, AnnounceOnline, OnConnectReturns, SendHello
    <2>2. CASE RecvIdFails(fd) \/ Unregister(fd)
        <3>1. \A e \in Devices : sock[e] # fd
            BY <2>2 DEF RecvIdFails, Unregister, PeerGone
        <3> QED
            BY <2>2, <3>1 DEF RecvIdFails, Unregister
    <2>3. CASE AnnounceOffline(fd) \/ Retire(fd) \/ CloseSocket(fd)
        <3>1. \A e \in Devices : sock[e] # fd
            BY <2>3 DEF AnnounceOffline, Retire, CloseSocket
        <3> QED
            BY <2>3, <3>1 DEF AnnounceOffline, Retire, CloseSocket
    <2> QED
        BY <1>3, <2>1, <2>2, <2>3 DEF HandlerStep
<1>4. ASSUME NEW d \in Devices, Drop(d)
      PROVE  ConnectedIsServed'
    BY <1>1, <1>4 DEF Drop, ConnectedIsServed, registryVars
<1>5. CASE ServerCrash
    BY <1>5 DEF ServerCrash, ConnectedIsServed
<1>6. CASE UNCHANGED <<registryVars, sock>>
    BY <1>6 DEF ConnectedIsServed, registryVars
<1> QED
    BY <1>2, <1>3, <1>4, <1>5, <1>6
    DEF Next, ClientStep, ReadGreeting, OnMessage, ConnectionClosed,
        serverVars, clientVars

(* No client is ever left talking to a thread that has gone, to the thread *)
(* of another device, or to a socket that another client shares.           *)
THEOREM ConnectionsAreServed == Spec => []ConnectedIsServed
<1>1. Init => ConnectedIsServed
    BY DEF Init, ConnectedIsServed
<1>2. TypeOK /\ ConnectedIsServed /\ [Next]_serverVars => ConnectedIsServed'
    BY ConnectedStep
<1> QED
    BY <1>1, <1>2, TypeCorrect, PTL DEF Spec
=============================================================================
