----------------------- MODULE FirewallControl_proofs -----------------------
(***************************************************************************)
(* Proofs about firewall control, for any devices, settings, domains,      *)
(* requests and faults.                                                    *)
(***************************************************************************)
EXTENDS FirewallControl, CommandDelivery_proofs, SequenceTheorems

(***************************************************************************)
(* The composition takes only steps that command delivery has.             *)
(***************************************************************************)
LEMMA FCNextIsCDStep ==
    ASSUME [FCNext]_fcVars
    PROVE  [CDNext]_vars
<1>1. ASSUME NEW fd \in Fds,
             (HandlerStep(fd) /\ UNCHANGED <<commandVars, fwVars>>) \/ Drain(fd)
      PROVE  CDNext
    BY <1>1 DEF CDNext, Drain
<1>2. ASSUME NEW c \in Payloads, Sender(c)
      PROVE  CDNext
    BY <1>2 DEF CDNext, Sender
<1>3. ASSUME NEW u \in Requests, UpdateConfig(u)
      PROVE  [CDNext]_vars
    BY <1>3, HostAssumption DEF UpdateConfig, GetByDeviceID, Insert, Update, UpsertFails,
                                Notify, CDNext
<1>4. CASE Listen
    BY <1>4, HostAssumption DEF Listen, CDNext
<1>5. CASE HostStep \/ FetchFails \/ FetchUnlisted \/ RewriteFails \/ FlushFails
    BY <1>5 DEF HostStep, FetchConfig, Rewrite, Flush, FetchFails, FetchUnlisted,
                RewriteFails, FlushFails
<1>6. CASE ConnectionBreaks
    BY <1>6, HostAssumption DEF ConnectionBreaks, CDNext
<1>7. CASE HostRestarts
    BY <1>7, HostAssumption DEF HostRestarts, CDNext, vars
<1>8. CASE ServerRestarts
    BY <1>8 DEF ServerRestarts, CDNext
<1>9. CASE UNCHANGED fcVars
    BY <1>9 DEF fcVars
<1> QED
    BY <1>1, <1>2, <1>3, <1>4, <1>5, <1>6, <1>7, <1>8, <1>9 DEF FCNext

(* Whatever is proved of the command queue holds under firewall control.   *)
THEOREM FirewallUsesQueue == FCSpec => CDSpec
<1>1. FCInit => CDInit
    BY DEF FCInit
<1> QED
    BY <1>1, FCNextIsCDStep, PTL DEF FCSpec, CDSpec

(***************************************************************************)
(* The hosts file as sequences of lines.                                   *)
(***************************************************************************)
LEMMA SeqOfSet ==
    ASSUME NEW S, IsFiniteSet(S)
    PROVE  SetToSeq(S) \in Seq(S) /\ IsInjective(SetToSeq(S))
<1> DEFINE n == Cardinality(S)
<1>1. n \in Nat /\ ExistsBijection(1..n, S)
    BY FS_CardinalityType
<1>2. \E f \in [1..n -> S] : IsInjective(f)
    BY <1>1 DEF ExistsBijection, Bijection, Injection, IsInjective
<1>3. SetToSeq(S) \in [1..n -> S] /\ IsInjective(SetToSeq(S))
    BY <1>2 DEF SetToSeq
<1> QED
    BY <1>1, <1>3, SeqDef

(* A block begins with its first marker, ends with the other, has domains  *)
(* in between and no line twice.                                           *)
LEMMA BlockFacts ==
    ASSUME NEW D, IsFiniteSet(D), D \intersect {Start, End} = {}
    PROVE  /\ Block(D) \in Seq(D \union {Start, End}) /\ IsInjective(Block(D))
           /\ Block(D) # <<>> => /\ Block(D)[1] = Start
                                      /\ Block(D)[Len(Block(D))] = End
           /\ \A i \in 2..Len(Block(D)) - 1 : Block(D)[i] \in D
<1>1. CASE D = {}
    <2>1. Block(D) = <<>>
        BY <1>1 DEF Block
    <2> QED
        BY <2>1 DEF IsInjective
<1>2. CASE D # {}
    <2> PICK q : q = SetToSeq(D)
        OBVIOUS
    <2>1. q \in Seq(D) /\ IsInjective(q) /\ Len(q) \in Nat
        BY SeqOfSet, LenProperties
    <2> PICK b : b = <<Start>> \o q \o <<End>>
        OBVIOUS
    <2>2. Block(D) = b
        BY <1>2 DEF Block
    <2>3. /\ b \in Seq(D \union {Start, End}) /\ Len(b) = Len(q) + 2
          /\ b[1] = Start /\ b[Len(b)] = End
          /\ \A i \in 2..Len(b) - 1 : b[i] = q[i - 1]
        BY <2>1
    <2>4. \A i \in 2..Len(b) - 1 : b[i] \in D
        BY <2>1, <2>3, ElementOfSeq
    <2>5. \A i, j \in 1..Len(b) : b[i] = b[j] => i = j
        <3> SUFFICES ASSUME NEW i \in 1..Len(b), NEW j \in 1..Len(b), b[i] = b[j] PROVE i = j
            OBVIOUS
        <3>1. CASE i \in 2..Len(b) - 1 /\ j \in 2..Len(b) - 1
            <4>1. q[i - 1] = q[j - 1] /\ i - 1 \in 1..Len(q) /\ j - 1 \in 1..Len(q)
                BY <2>1, <2>3, <3>1
            <4> QED
                BY <2>1, <4>1 DEF IsInjective
        <3>2. \A x \in 1..Len(b) : x = 1 \/ x = Len(b) \/ x \in 2..Len(b) - 1
            BY <2>1, <2>3
        <3>3. \A x \in 2..Len(b) - 1 : b[x] # Start /\ b[x] # End
            BY <2>4
        <3> QED
            BY <2>3, <3>1, <3>2, <3>3, LinesAssumption
    <2>6. DOMAIN b = 1..Len(b)
        BY <2>3, LenProperties
    <2>7. IsInjective(b)
        BY <2>5, <2>6 DEF IsInjective
    <2> QED
        BY <2>2, <2>3, <2>4, <2>7
<1> QED
    BY <1>1, <1>2

LEMMA LineFacts ==
    /\ Start # End /\ UserLine # Scrap
    /\ \A x \in {UserLine, Scrap} : x # Start /\ x # End
BY LinesAssumption

(* What the lines before the block may be, and what a list of domains is.  *)
User == {UserLine, Scrap}

Listable(D) ==
    IsFiniteSet(D) /\ D \subseteq Lines /\ D \intersect {Start, End, UserLine, Scrap} = {}

LEMMA ListFacts ==
    ASSUME NEW D \in Lists
    PROVE  Listable(D)
<1>1. CASE D = {}
    BY <1>1, FS_EmptySet DEF Listable
<1>2. ASSUME NEW s \in Settings, D = s.domains
      PROVE  Listable(D)
    BY <1>2, SettingsAssumption, LinesAssumption DEF Listable, Lines
<1> QED
    BY <1>1, <1>2 DEF Lists

(* A file that is m lines of the user and some beginning of a block, cut   *)
(* at any byte.                                                            *)
Shape(w, m) ==
    /\ w \in Seq(Lines) /\ Len(w) \in Nat /\ m \in 0..Len(w)
    /\ OnceEach(w)
    /\ \A i \in 1..m : w[i] \in User
    /\ m < Len(w) => w[m + 1] = Start
    /\ \A i \in m + 1..Len(w) - 1 : w[i] # End

Shapely(w) == \E m \in Nat : Shape(w, m)

(* Nothing but the lines of the user is kept of such a file.               *)
LEMMA KeptOfShape ==
    ASSUME NEW w, NEW m, Shape(w, m)
    PROVE  Kept(w) = 1..m
<1>1. m \in Nat /\ Len(w) \in Nat /\ m <= Len(w) /\ DOMAIN w = 1..Len(w)
    BY LenProperties DEF Shape
<1>2. ASSUME NEW i \in 1..m
      PROVE  i \in Kept(w)
    <2>1. \A j \in 1..i : w[j] \in User
        BY <1>1 DEF Shape
    <2>2. ~InBlock(w, i)
        BY <2>1, LineFacts DEF InBlock, User
    <2>3. w[i] # Start /\ w[i] # End /\ i \in DOMAIN w
        BY <1>1, <2>1, LineFacts DEF User
    <2> QED
        BY <2>2, <2>3 DEF Kept
<1>3. ASSUME NEW i \in DOMAIN w, i > m, i \in Kept(w)
      PROVE  FALSE
    <2>1. w[i] # Start /\ w[i] # End /\ ~InBlock(w, i)
        BY <1>3 DEF Kept
    <2>2. m + 1 \in 1..i /\ w[m + 1] = Start
        BY <1>1, <1>3 DEF Shape
    <2>3. ASSUME NEW k \in m + 1..i
          PROVE  w[k] # End
        <3>1. k \in m + 1..Len(w) - 1 \/ k = i
            BY <1>1, <1>3
        <3> QED
            BY <2>1, <3>1 DEF Shape
    <2> QED
        BY <2>1, <2>2, <2>3 DEF InBlock
<1>4. Kept(w) \subseteq DOMAIN w
    BY DEF Kept
<1>5. ASSUME NEW i \in Kept(w)
      PROVE  i \in 1..m
    <2>1. i \in 1..Len(w)
        BY <1>1, <1>4
    <2>2. ~(i > m)
        BY <1>1, <1>3, <2>1
    <2> QED
        BY <1>1, <2>1, <2>2
<1> QED
    BY <1>2, <1>5

LEMMA NthOfInterval ==
    ASSUME NEW m \in Nat, NEW n \in 1..m
    PROVE  Nth(1..m, n) = n
<1>1. ASSUME NEW i \in 1..m
      PROVE  Cardinality((1..m) \intersect 1..i) = i
    <2>1. (1..m) \intersect 1..i = 1..i
        OBVIOUS
    <2>2. Cardinality(1..i) = i
        BY FS_Interval
    <2> QED
        BY <2>1, <2>2
<1> QED
    BY <1>1 DEF Nth

LEMMA RemovedOfShape ==
    ASSUME NEW w, NEW m, Shape(w, m)
    PROVE  /\ removeBlockSection(w) = SubSeq(w, 1, m)
           /\ removeBlockSection(w) \in Seq(User) /\ OnceEach(removeBlockSection(w))
<1>1. m \in Nat /\ Len(w) \in Nat /\ m <= Len(w) /\ DOMAIN w = 1..Len(w)
    BY LenProperties DEF Shape
<1>2. Kept(w) = 1..m /\ Cardinality(1..m) = m
    BY <1>1, KeptOfShape, FS_Interval
<1> PICK q : q = [n \in 1..m |-> w[n]]
    OBVIOUS
<1>3. removeBlockSection(w) = q
    BY <1>1, <1>2, NthOfInterval DEF removeBlockSection
<1>4. q \in Seq(User) /\ DOMAIN q = 1..m /\ \A i \in 1..m : q[i] = w[i]
    <2>1. \A i \in 1..m : w[i] \in User
        BY DEF Shape
    <2>2. q \in [1..m -> User]
        BY <2>1
    <2> QED
        BY <1>1, <2>2, SeqDef
<1>5. Len(q) = m
    BY <1>1, <1>4, LenProperties
<1> PICK p : p = SubSeq(w, 1, m)
    OBVIOUS
<1>6. p \in Seq(User) /\ Len(p) = m /\ \A i \in 1..m : p[i] = w[i]
    <2>1. \A i \in 1..m : w[i] \in User
        BY DEF Shape
    <2> QED
        BY <1>1, <2>1, SubSeqProperties
<1>7. q = p
    BY <1>4, <1>5, <1>6, SeqEqual
<1>8. OnceEach(q)
    BY <1>1, <1>4 DEF Shape, OnceEach
<1> QED
    BY <1>3, <1>4, <1>7, <1>8

(* However the writing of such a file ends early, one is left.             *)
LEMMA PartOfShape ==
    ASSUME NEW w, NEW m, Shape(w, m), NEW p \in PartsOf(w)
    PROVE  Shapely(p)
<1>1. m \in Nat /\ Len(w) \in Nat /\ m <= Len(w) /\ DOMAIN w = 1..Len(w)
    BY LenProperties DEF Shape
<1>2. w \in Seq(Lines) /\ Scrap \in Lines
    BY DEF Shape, Lines
<1>3. ASSUME NEW n \in 0..Len(w)
      PROVE  /\ SubSeq(w, 1, n) \in Seq(Lines) /\ Len(SubSeq(w, 1, n)) = n
             /\ \A i \in 1..n : SubSeq(w, 1, n)[i] = w[i]
    <2>1. \A i \in 1..n : w[i] \in Lines
        BY <1>1, <1>2, ElementOfSeq
    <2> QED
        BY <1>1, <2>1, SubSeqProperties
<1>4. ASSUME NEW n \in 0..Len(w), p = SubSeq(w, 1, n)
      PROVE  Shapely(p)
    <2>1. p \in Seq(Lines) /\ Len(p) = n /\ DOMAIN p = 1..n /\ \A i \in 1..n : p[i] = w[i]
        BY <1>3, <1>4, LenProperties
    <2>2. OnceEach(p)
        BY <1>1, <2>1 DEF Shape, OnceEach
    <2>3. CASE n <= m
        <3>1. Shape(p, n)
            BY <1>1, <2>1, <2>2, <2>3 DEF Shape
        <3> QED
            BY <1>1, <3>1 DEF Shapely
    <2>4. CASE n > m
        <3>1. m + 1 \in 1..n /\ m < Len(w)
            BY <1>1, <2>4
        <3>2. Shape(p, m)
            BY <1>1, <2>1, <2>2, <2>4, <3>1 DEF Shape
        <3> QED
            BY <1>1, <3>2 DEF Shapely
    <2> QED
        BY <1>1, <2>3, <2>4
<1>5. ASSUME NEW n \in 0..Len(w) - 1, p = Append(SubSeq(w, 1, n), Scrap)
      PROVE  Shapely(p)
    <2> PICK q : q = SubSeq(w, 1, n)
        OBVIOUS
    <2>1. n \in 0..Len(w) /\ n \in Nat
        BY <1>1
    <2>2. q \in Seq(Lines) /\ Len(q) = n /\ \A i \in 1..n : q[i] = w[i]
        BY <1>3, <2>1
    <2>3. /\ p \in Seq(Lines) /\ Len(p) = n + 1 /\ p[n + 1] = Scrap
          /\ \A i \in 1..n : p[i] = w[i]
        BY <1>2, <1>5, <2>2, AppendProperties
    <2>4. DOMAIN p = 1..n + 1
        BY <2>3, LenProperties
    <2>5. OnceEach(p)
        <3> SUFFICES ASSUME NEW i \in 1..n + 1, NEW j \in 1..n + 1, p[i] = p[j], p[i] # Scrap
                     PROVE  i = j
            BY <2>4 DEF OnceEach
        <3>1. i \in 1..n /\ j \in 1..n
            BY <2>1, <2>3
        <3>2. w[i] = w[j] /\ w[i] # Scrap /\ i \in DOMAIN w /\ j \in DOMAIN w
            BY <1>1, <2>1, <2>3, <3>1
        <3> QED
            BY <3>2 DEF Shape, OnceEach
    <2>6. CASE n <= m
        <3>1. \A i \in 1..n + 1 : p[i] \in User
            BY <1>1, <2>1, <2>3, <2>6 DEF Shape, User
        <3>2. Shape(p, n + 1)
            BY <2>1, <2>3, <2>5, <3>1 DEF Shape
        <3> QED
            BY <2>1, <3>2 DEF Shapely
    <2>7. CASE n > m
        <3>1. m + 1 \in 1..n /\ m < Len(w)
            BY <1>1, <2>1, <2>7
        <3>2. \A i \in m + 1..n : p[i] # End
            <4> SUFFICES ASSUME NEW i \in m + 1..n PROVE p[i] # End
                OBVIOUS
            <4>1. i \in 1..n /\ i \in m + 1..Len(w) - 1
                BY <1>1, <2>1
            <4> QED
                BY <2>3, <4>1 DEF Shape
        <3>3. \A i \in 1..m : p[i] \in User
            BY <1>1, <2>1, <2>3, <2>7 DEF Shape
        <3>4. p[m + 1] = Start
            BY <2>3, <3>1 DEF Shape
        <3>5. Shape(p, m)
            BY <1>1, <2>1, <2>3, <2>5, <2>7, <3>2, <3>3, <3>4 DEF Shape
        <3> QED
            BY <1>1, <3>5 DEF Shapely
    <2> QED
        BY <1>1, <2>1, <2>6, <2>7
<1> QED
    BY <1>4, <1>5 DEF PartsOf

(***************************************************************************)
(* The inductive invariant of the hosts manager.  A block that was left    *)
(* unfinished is no block of a setting, but a rewrite takes it away all    *)
(* the same.                                                               *)
(***************************************************************************)
Wanted == IF enabled THEN domains ELSE {}

(* A file in order is the user's lines, unless they were lost, and a block *)
(* of a list of domains.                                                   *)
InForm(file, t) ==
    \E D \in Lists : \E mine \in Seq(User) :
        /\ file = mine \o Block(D)
        /\ OnceEach(mine)
        /\ t = "no" => mine = <<UserLine>>

FileInv ==
    /\ stage \in {"rewrite", "flush"} => Wanted \in Lists
    /\ stage # "flush" => Shapely(hosts)
    /\ stage # "flush" /\ torn # "torn" => InForm(hosts, torn)
    /\ stage = "flush" => InForm(lines, torn)

HostInv == FirewallTypeOK /\ FileInv

(* What is in form has such a shape; the user's lines are its beginning.   *)
LEMMA FormShape ==
    ASSUME NEW D \in Lists, NEW mine \in Seq(User), OnceEach(mine)
    PROVE  Shape(mine \o Block(D), Len(mine)) /\ SubSeq(mine \o Block(D), 1, Len(mine)) = mine
<1> PICK b : b = Block(D)
    OBVIOUS
<1> PICK k : k = Len(mine)
    OBVIOUS
<1> PICK w : w = mine \o b
    OBVIOUS
<1>1. /\ Listable(D)
      /\ b \in Seq(D \union {Start, End}) /\ IsInjective(b) /\ Len(b) \in Nat
      /\ b # <<>> => b[1] = Start /\ b[Len(b)] = End
      /\ \A i \in 2..Len(b) - 1 : b[i] \in D
    <2>1. Listable(D)
        BY ListFacts
    <2>2. IsFiniteSet(D) /\ D \intersect {Start, End} = {}
        BY <2>1 DEF Listable
    <2>3. b \in Seq(D \union {Start, End})
        BY <2>2, BlockFacts
    <2>4. Len(b) \in Nat
        BY <2>3, LenProperties
    <2> QED
        BY <2>1, <2>2, <2>3, <2>4, BlockFacts
<1>2. k \in Nat /\ DOMAIN mine = 1..k /\ \A i \in 1..k : mine[i] \in User
    BY LenProperties, ElementOfSeq
<1>3. mine \in Seq(Lines) /\ b \in Seq(Lines)
    <2>1. User \subseteq Lines /\ D \union {Start, End} \subseteq Lines
        BY <1>1 DEF User, Lines, Listable
    <2> QED
        BY <1>1, <2>1, SeqMonotonic
<1>4. /\ w \in Seq(Lines) /\ Len(w) = k + Len(b)
      /\ \A i \in 1..k : w[i] = mine[i]
      /\ \A i \in k + 1..Len(w) : w[i] = b[i - k]
    <2>1. /\ w \in Seq(Lines) /\ Len(w) = Len(mine) + Len(b)
          /\ \A i \in 1..Len(mine) + Len(b) :
                w[i] = IF i <= Len(mine) THEN mine[i] ELSE b[i - Len(mine)]
        BY <1>3, ConcatProperties
    <2> QED
        BY <1>1, <1>2, <2>1
<1>5. \A i \in 1..Len(b) : b[i] \in D \union {Start, End} /\ b[i] \notin User
    <2>1. \A i \in 1..Len(b) : b[i] \in D \union {Start, End}
        BY <1>1, ElementOfSeq
    <2> QED
        BY <1>1, <2>1, LineFacts DEF Listable, User
<1>6. DOMAIN w = 1..Len(w) /\ DOMAIN b = 1..Len(b)
    BY <1>1, <1>4, LenProperties
<1>7. OnceEach(w)
    <2> SUFFICES ASSUME NEW i \in 1..Len(w), NEW j \in 1..Len(w), w[i] = w[j], w[i] # Scrap
                 PROVE  i = j
        BY <1>6 DEF OnceEach
    <2>1. \A x \in 1..Len(w) : \/ x \in 1..k /\ w[x] = mine[x] /\ w[x] \in User
                               \/ x - k \in 1..Len(b) /\ w[x] = b[x - k] /\ w[x] \notin User
        <3> SUFFICES ASSUME NEW x \in 1..Len(w)
                     PROVE  \/ x \in 1..k /\ w[x] = mine[x] /\ w[x] \in User
                            \/ x - k \in 1..Len(b) /\ w[x] = b[x - k] /\ w[x] \notin User
            OBVIOUS
        <3>1. CASE x <= k
            BY <1>2, <1>4, <3>1
        <3>2. CASE x > k
            <4>1. x - k \in 1..Len(b) /\ x \in k + 1..Len(w)
                BY <1>1, <1>2, <1>4, <3>2
            <4> QED
                BY <1>4, <1>5, <4>1
        <3> QED
            BY <1>2, <3>1, <3>2
    <2>2. CASE w[i] \in User
        <3>1. i \in 1..k /\ j \in 1..k /\ mine[i] = mine[j] /\ mine[i] # Scrap
            BY <2>1, <2>2
        <3> QED
            BY <1>2, <3>1 DEF OnceEach
    <2>3. CASE w[i] \notin User
        <3>1. i - k \in 1..Len(b) /\ j - k \in 1..Len(b) /\ b[i - k] = b[j - k]
            BY <2>1, <2>3
        <3>2. i - k = j - k
            BY <1>1, <1>6, <3>1 DEF IsInjective
        <3> QED
            BY <1>2, <3>2
    <2> QED
        BY <2>2, <2>3
<1>8. \A i \in 1..k : w[i] \in User
    BY <1>2, <1>4
<1>9. k < Len(w) => w[k + 1] = Start
    <2> SUFFICES ASSUME k < Len(w) PROVE w[k + 1] = Start
        OBVIOUS
    <2>1. Len(b) > 0 /\ b # <<>>
        BY <1>1, <1>2, <1>4
    <2>2. k + 1 \in k + 1..Len(w) /\ (k + 1) - k = 1
        BY <1>1, <1>2, <1>4
    <2> QED
        BY <1>1, <1>4, <2>1, <2>2
<1>10. \A i \in k + 1..Len(w) - 1 : w[i] # End
    <2> SUFFICES ASSUME NEW i \in k + 1..Len(w) - 1 PROVE w[i] # End
        OBVIOUS
    <2>1. i - k \in 1..Len(b) - 1 /\ w[i] = b[i - k] /\ b # <<>>
        BY <1>1, <1>2, <1>4
    <2>2. CASE i - k = 1
        BY <1>1, <2>1, <2>2, LineFacts
    <2>3. CASE i - k # 1
        <3>1. i - k \in 2..Len(b) - 1
            BY <1>1, <2>1, <2>3
        <3> QED
            BY <1>1, <2>1, <3>1 DEF Listable
    <2> QED
        BY <2>2, <2>3
<1>11. Shape(w, k)
    BY <1>1, <1>2, <1>4, <1>7, <1>8, <1>9, <1>10 DEF Shape
<1>12. SubSeq(w, 1, k) = mine
    <2> PICK q : q = SubSeq(w, 1, k)
        OBVIOUS
    <2>1. q \in Seq(User) /\ Len(q) = k /\ \A i \in 1..k : q[i] = w[i]
        BY <1>2, <1>8, SubSeqProperties
    <2> QED
        BY <1>2, <1>4, <2>1, SeqEqual
<1> QED
    BY <1>11, <1>12

(* So a file in form has nothing but lines that there are, each of them    *)
(* once, and so has what is left when its writing ends early.              *)
LEMMA FormFacts ==
    ASSUME NEW file, NEW t, InForm(file, t)
    PROVE  /\ file \in Seq(Lines) /\ OnceEach(file) /\ Shapely(file)
           /\ \A p \in PartsOf(file) : Shapely(p)
           /\ t = "no" => removeBlockSection(file) = <<UserLine>>
<1> PICK D \in Lists, mine \in Seq(User) :
        file = mine \o Block(D) /\ OnceEach(mine) /\ (t = "no" => mine = <<UserLine>>)
    BY DEF InForm
<1>1. Shape(file, Len(mine)) /\ SubSeq(file, 1, Len(mine)) = mine
    BY FormShape
<1>2. Len(mine) \in Nat
    BY LenProperties
<1>3. file \in Seq(Lines) /\ OnceEach(file) /\ Shapely(file)
    BY <1>1, <1>2 DEF Shape, Shapely
<1>4. \A p \in PartsOf(file) : Shapely(p)
    BY <1>1, PartOfShape
<1>5. removeBlockSection(file) = mine
    BY <1>1, RemovedOfShape
<1> QED
    BY <1>3, <1>4, <1>5

LEMMA ShapelyIsLines ==
    ASSUME NEW file, Shapely(file)
    PROVE  /\ file \in Seq(Lines) /\ OnceEach(file)
           /\ removeBlockSection(file) \in Seq(User) /\ OnceEach(removeBlockSection(file))
BY RemovedOfShape DEF Shapely, Shape

LEMMA FormWritten ==
    ASSUME NEW file, Shapely(file), NEW t, NEW D \in Lists,
           t = "no" => removeBlockSection(file) = <<UserLine>>
    PROVE  InForm(applyBlocks(file, D), t)
BY ShapelyIsLines DEF InForm, applyBlocks

(***************************************************************************)
(* The steps.                                                              *)
(***************************************************************************)
LEMMA HostInvInit == FCInit => HostInv
<1> SUFFICES ASSUME FCInit PROVE HostInv
    OBVIOUS
<1> PICK s \in Settings : s.enabled /\ hosts = applyBlocks(<<UserLine>>, s.domains)
    BY DEF FCInit
<1>1. InForm(hosts, torn)
    <2> PICK w : w = <<UserLine>>
        OBVIOUS
    <2>1. Shape(w, 1)
        <3>1. w \in Seq(Lines) /\ Len(w) = 1 /\ w[1] = UserLine /\ DOMAIN w = 1..1
            BY DEF Lines
        <3> QED
            BY <3>1 DEF Shape, OnceEach, User
    <2>2. Shapely(w) /\ removeBlockSection(w) = w
        <3>1. SubSeq(w, 1, 1) = w
            <4>1. w \in Seq(Lines) /\ Len(w) = 1
                BY DEF Lines
            <4>2. SubSeq(w, 1, Len(w)) = w
                BY <4>1, SubSeqFull
            <4> QED
                BY <4>1, <4>2
        <3>2. removeBlockSection(w) = SubSeq(w, 1, 1)
            BY <2>1, RemovedOfShape
        <3> QED
            BY <2>1, <3>1, <3>2 DEF Shapely
    <2>3. s.domains \in Lists
        BY DEF Lists
    <2> QED
        BY <2>2, <2>3, FormWritten
<1>2. hosts \in Seq(Lines) /\ OnceEach(hosts) /\ Shapely(hosts)
    BY <1>1, FormFacts
<1>3. lines \in Seq(Lines) /\ OnceEach(lines)
    BY DEF FCInit, OnceEach
<1>4. FirewallTypeOK
    <2>1. /\ setting \in {NoSetting} \union Settings
          /\ api \in [Requests -> {"read", "insert", "update", "saved", "done"}]
          /\ stage = "fetch" /\ enabled = FALSE /\ domains = {} /\ calls = 0
          /\ failures = 0 /\ restarts = 0 /\ untold = FALSE /\ torn = "no"
        BY DEF FCInit
    <2>2. enabled \in BOOLEAN /\ untold \in BOOLEAN
        BY <2>1
    <2>3. calls \in 0..2 /\ (stage \in {"rewrite", "flush"} <=> calls > 0)
        BY <2>1
    <2>4. failures + restarts <= MaxFaults
        BY <2>1, FaultsAssumption
    <2> QED
        BY <1>2, <1>3, <2>1, <2>2, <2>3, <2>4 DEF FirewallTypeOK
<1>5. FileInv
    BY <1>1, <1>2 DEF FCInit, FileInv
<1> QED
    BY <1>4, <1>5 DEF HostInv

LEMMA FaultRoom ==
    ASSUME TypeOK, CommandTypeOK, FirewallTypeOK, FaultLeft
    PROVE  failures + restarts + 1 <= MaxFaults
BY FaultsAssumption DEF TypeOK, CommandTypeOK, FirewallTypeOK, FaultLeft, Faults

(* What leaves the manager, its file and the kind of its stage alone.      *)
LEMMA FileInvKept ==
    ASSUME FileInv, UNCHANGED <<enabled, domains, fileVars, torn>>,
           stage' = stage \/ (stage \in {"idle", "fetch"} /\ stage' \in {"idle", "fetch"})
    PROVE  FileInv'
<1>1. UNCHANGED <<hosts, lines, Wanted>>
    BY DEF fileVars, Wanted
<1> QED
    BY <1>1 DEF FileInv, InForm

LEMMA RequestKeeps ==
    ASSUME HostInv, NEW u \in Requests, UpdateConfig(u)
    PROVE  HostInv'
<1>1. /\ UNCHANGED <<clientSide, faultVars>>
      /\ setting' \in {NoSetting} \union Settings
      /\ api' \in [Requests -> {"read", "insert", "update", "saved", "done"}]
    BY DEF UpdateConfig, GetByDeviceID, Insert, Update, UpsertFails, Notify, Api,
           HostInv, FirewallTypeOK
<1>2. FirewallTypeOK'
    BY <1>1 DEF HostInv, FirewallTypeOK, clientSide, faultVars, managerVars, fileVars
<1>3. FileInv'
    BY <1>1, FileInvKept DEF HostInv, clientSide, faultVars, managerVars, fileVars
<1> QED
    BY <1>2, <1>3 DEF HostInv

LEMMA ListenKeeps ==
    ASSUME HostInv, Listen
    PROVE  HostInv'
<1>1. UNCHANGED <<serverSide, managerVars, fileVars, faultVars>> /\ stage = "idle" /\ stage' \in {"idle", "fetch"}
    BY DEF Listen
<1>2. FirewallTypeOK'
    BY <1>1 DEF HostInv, FirewallTypeOK, serverSide, faultVars, managerVars, fileVars
<1>3. FileInv'
    BY <1>1, FileInvKept DEF HostInv, faultVars, managerVars
<1> QED
    BY <1>2, <1>3 DEF HostInv

(* An answer that is applied becomes what is to be written.                *)
LEMMA ApplyKeeps ==
    ASSUME HostInv, NEW on \in BOOLEAN, NEW list \in Lists, ~on => list = {},
           Apply(on, list), UNCHANGED <<serverSide, fileVars, untold, torn>>,
           stage = "fetch", failures' \in Nat, restarts' \in Nat,
           failures' + restarts' <= MaxFaults
    PROVE  HostInv'
<1>1. /\ stage' = "rewrite" /\ enabled' = on
      /\ domains' = (IF on THEN list ELSE domains)
      /\ calls' = (IF on /\ enabled THEN 2 ELSE 1)
    BY DEF Apply
<1>2. list \subseteq Lines
    BY ListFacts DEF Listable
<1>3. FirewallTypeOK'
    <2>1. domains' \subseteq Lines /\ enabled' \in BOOLEAN /\ calls' \in 0..2 /\ calls' > 0
        BY <1>1, <1>2 DEF HostInv, FirewallTypeOK
    <2> QED
        BY <1>1, <2>1 DEF HostInv, FirewallTypeOK, serverSide, fileVars
<1>4. Wanted' = list
    BY <1>1 DEF Wanted
<1>5. FileInv'
    BY <1>1, <1>4 DEF HostInv, FileInv, InForm, fileVars
<1> QED
    BY <1>3, <1>5 DEF HostInv

LEMMA FetchConfigKeeps ==
    ASSUME HostInv, FetchConfig
    PROVE  HostInv'
<1>1. UNCHANGED <<serverSide, fileVars, faultVars>> /\ stage = "fetch"
    BY DEF FetchConfig
<1>2. CASE setting = NoSetting
    <2>1. stage' = "idle" /\ UNCHANGED managerVars
        BY <1>2 DEF FetchConfig
    <2>2. FirewallTypeOK'
        BY <1>1, <2>1 DEF HostInv, FirewallTypeOK, serverSide, faultVars, managerVars, fileVars
    <2>3. FileInv'
        BY <1>1, <2>1, FileInvKept DEF HostInv, faultVars, managerVars
    <2> QED
        BY <2>2, <2>3 DEF HostInv
<1>3. CASE setting # NoSetting
    <2>1. Apply(setting.enabled, setting.domains) /\ setting \in Settings
        BY <1>3 DEF FetchConfig, HostInv, FirewallTypeOK
    <2>2. /\ setting.enabled \in BOOLEAN /\ setting.domains \in Lists
          /\ ~setting.enabled => setting.domains = {}
        BY <2>1, SettingsAssumption DEF Lists
    <2>3. /\ UNCHANGED <<failures, restarts, untold, torn>>
          /\ failures \in Nat /\ restarts \in Nat /\ failures + restarts <= MaxFaults
        BY <1>1 DEF faultVars, HostInv, FirewallTypeOK
    <2> QED
        BY <1>1, <2>1, <2>2, <2>3, ApplyKeeps
<1> QED
    BY <1>2, <1>3

LEMMA FetchUnlistedKeeps ==
    ASSUME TypeOK, CommandTypeOK, HostInv, FetchUnlisted
    PROVE  HostInv'
<1>1. /\ UNCHANGED <<serverSide, fileVars, restarts, untold, torn>> /\ stage = "fetch"
      /\ Apply(TRUE, {}) /\ FaultLeft /\ failures' = failures + 1
    BY DEF FetchUnlisted, Fails
<1>2. failures' \in Nat /\ restarts' \in Nat /\ failures' + restarts' <= MaxFaults
    BY <1>1, FaultRoom DEF HostInv, FirewallTypeOK
<1> QED
    BY <1>1, <1>2, ApplyKeeps DEF Lists

LEMMA FetchFailsKeeps ==
    ASSUME TypeOK, CommandTypeOK, HostInv, FetchFails
    PROVE  HostInv'
<1>1. /\ UNCHANGED <<serverSide, managerVars, fileVars, restarts, untold, torn>>
      /\ stage = "fetch" /\ stage' = "idle" /\ failures' = failures + 1 /\ FaultLeft
    BY DEF FetchFails, Fails
<1>2. FirewallTypeOK'
    BY <1>1, FaultRoom DEF HostInv, FirewallTypeOK, serverSide, managerVars, fileVars
<1>3. FileInv'
    BY <1>1, FileInvKept DEF HostInv, managerVars
<1> QED
    BY <1>2, <1>3 DEF HostInv

(* The file is taken apart: what comes to be written is in form.           *)
LEMMA RewriteKeeps ==
    ASSUME HostInv, Rewrite
    PROVE  HostInv'
<1>1. /\ UNCHANGED <<serverSide, managerVars, faultVars>> /\ stage = "rewrite" /\ stage' = "flush"
      /\ lines' = applyBlocks(hosts, Wanted) /\ hosts' = <<>> /\ Wanted \in Lists
    BY DEF Rewrite, Wanted, HostInv, FileInv
<1>2. InForm(lines', torn)
    <2>1. Shapely(hosts)
        BY <1>1 DEF HostInv, FileInv
    <2>2. torn = "no" => removeBlockSection(hosts) = <<UserLine>>
        <3>1. torn = "no" => InForm(hosts, torn)
            BY <1>1 DEF HostInv, FileInv
        <3> QED
            BY <3>1, FormFacts
    <2> QED
        BY <1>1, <2>1, <2>2, FormWritten
<1>3. lines' \in Seq(Lines) /\ OnceEach(lines')
    BY <1>2, FormFacts
<1>4. hosts' \in Seq(Lines) /\ OnceEach(hosts')
    BY <1>1 DEF OnceEach
<1>5. FirewallTypeOK'
    BY <1>1, <1>3, <1>4 DEF HostInv, FirewallTypeOK, serverSide, faultVars, managerVars
<1>6. Wanted' = Wanted /\ InForm(lines', torn') /\ stage' = "flush"
    BY <1>1, <1>2 DEF Wanted, managerVars, faultVars
<1>7. Wanted' \in Lists
    BY <1>1, <1>6
<1>8. FileInv'
    <2>1. InForm(lines, torn)'
        BY <1>6 DEF InForm
    <2> QED
        BY <1>6, <1>7, <2>1 DEF FileInv
<1> QED
    BY <1>5, <1>8 DEF HostInv

(* A call is over: the manager is in the next one or in none.              *)
LEMMA CallOver ==
    ASSUME FirewallTypeOK, CallDone, stage \in {"rewrite", "flush"}
    PROVE  /\ calls' \in 0..2 /\ stage' \in {"idle", "rewrite"}
           /\ stage' \in {"rewrite", "flush"} <=> calls' > 0
BY DEF FirewallTypeOK, CallDone

LEMMA RewriteFailsKeeps ==
    ASSUME TypeOK, CommandTypeOK, HostInv, RewriteFails
    PROVE  HostInv'
<1>1. /\ UNCHANGED <<serverSide, enabled, domains, fileVars, restarts, untold, torn>>
      /\ stage = "rewrite" /\ failures' = failures + 1 /\ FaultLeft
    BY DEF RewriteFails, Fails
<1>2. /\ calls' \in 0..2 /\ stage' \in {"idle", "rewrite"}
      /\ stage' \in {"rewrite", "flush"} <=> calls' > 0
    BY <1>1, CallOver DEF RewriteFails, HostInv
<1>3. FirewallTypeOK'
    BY <1>1, <1>2, FaultRoom DEF HostInv, FirewallTypeOK, serverSide, fileVars
<1>4. FileInv'
    BY <1>1, <1>2 DEF HostInv, FileInv, InForm, Wanted, fileVars
<1> QED
    BY <1>3, <1>4 DEF HostInv

LEMMA FlushKeeps ==
    ASSUME HostInv, Flush
    PROVE  HostInv'
<1>1. /\ UNCHANGED <<serverSide, enabled, domains, failures, restarts, untold>>
      /\ stage = "flush" /\ hosts' = lines /\ lines' = <<>>
      /\ torn' = IF torn = "torn" THEN "mended" ELSE torn
    BY DEF Flush
<1>2. /\ calls' \in 0..2 /\ stage' \in {"idle", "rewrite"}
      /\ stage' \in {"rewrite", "flush"} <=> calls' > 0
    BY <1>1, CallOver DEF Flush, HostInv
<1>3. lines' \in Seq(Lines) /\ OnceEach(lines')
    BY <1>1 DEF OnceEach
<1>4. FirewallTypeOK'
    BY <1>1, <1>2, <1>3 DEF HostInv, FirewallTypeOK, serverSide
<1>5. InForm(lines, torn) /\ InForm(lines, torn')
    BY <1>1 DEF HostInv, FileInv, InForm
<1>6. Shapely(lines)
    BY <1>5, FormFacts
<1>7. InForm(hosts, torn)' /\ Shapely(hosts') /\ Wanted' = Wanted
    BY <1>1, <1>5, <1>6 DEF InForm, Wanted
<1>8. FileInv'
    BY <1>1, <1>2, <1>7 DEF HostInv, FileInv
<1> QED
    BY <1>4, <1>8 DEF HostInv

(* A write that fails leaves some beginning of what it wrote.              *)
LEMMA FlushFailsKeeps ==
    ASSUME TypeOK, CommandTypeOK, HostInv, FlushFails
    PROVE  HostInv'
<1>1. /\ UNCHANGED <<serverSide, enabled, domains, restarts, untold>> /\ FaultLeft
      /\ stage = "flush" /\ hosts' \in PartsOf(lines) /\ lines' = <<>>
      /\ failures' = failures + 1 /\ torn' = "torn"
    BY DEF FlushFails, Fails
<1>2. /\ calls' \in 0..2 /\ stage' \in {"idle", "rewrite"}
      /\ stage' \in {"rewrite", "flush"} <=> calls' > 0
    BY <1>1, CallOver DEF FlushFails, HostInv
<1>3. Shapely(hosts')
    <2>1. InForm(lines, torn)
        BY <1>1 DEF HostInv, FileInv
    <2> QED
        BY <1>1, <2>1, FormFacts
<1>4. hosts' \in Seq(Lines) /\ OnceEach(hosts') /\ lines' \in Seq(Lines) /\ OnceEach(lines')
    <2>1. hosts' \in Seq(Lines) /\ OnceEach(hosts')
        BY <1>3, ShapelyIsLines
    <2> QED
        BY <1>1, <2>1 DEF OnceEach
<1>5. FirewallTypeOK'
    BY <1>1, <1>2, <1>4, FaultRoom DEF HostInv, FirewallTypeOK, serverSide
<1>6. Wanted' = Wanted
    BY <1>1 DEF Wanted
<1>7. FileInv'
    BY <1>1, <1>2, <1>3, <1>6 DEF HostInv, FileInv
<1> QED
    BY <1>5, <1>7 DEF HostInv

(* A client that dies leaves some beginning of what it wrote.              *)
LEMMA HostRestartsKeeps ==
    ASSUME TypeOK, CommandTypeOK, HostInv, HostRestarts
    PROVE  HostInv'
<1>1. /\ UNCHANGED <<serverSide, failures, untold>> /\ FaultLeft /\ restarts' = restarts + 1
      /\ stage' = "fetch" /\ enabled' = FALSE /\ domains' = {} /\ calls' = 0 /\ lines' = <<>>
      /\ torn' = IF stage = "flush" THEN "torn" ELSE torn
    BY DEF HostRestarts
<1>2. Shapely(hosts') /\ (stage # "flush" => hosts' = hosts)
    <2>1. CASE stage = "flush"
        <3>1. InForm(lines, torn) /\ hosts' \in PartsOf(lines)
            BY <2>1 DEF HostInv, FileInv, HostRestarts
        <3> QED
            BY <2>1, <3>1, FormFacts
    <2>2. CASE stage # "flush"
        <3>1. hosts' = hosts
            BY <2>2 DEF HostRestarts
        <3> QED
            BY <2>2, <3>1 DEF HostInv, FileInv
    <2> QED
        BY <2>1, <2>2
<1>3. hosts' \in Seq(Lines) /\ OnceEach(hosts') /\ lines' \in Seq(Lines) /\ OnceEach(lines')
    <2>1. hosts' \in Seq(Lines) /\ OnceEach(hosts')
        BY <1>2, ShapelyIsLines
    <2> QED
        BY <1>1, <2>1 DEF OnceEach
<1>4. FirewallTypeOK'
    <2>1. failures' \in Nat /\ restarts' \in Nat /\ failures' + restarts' <= MaxFaults
        BY <1>1, FaultRoom DEF HostInv, FirewallTypeOK
    <2>2. torn' \in {"no", "torn", "mended"} /\ domains' \subseteq Lines
        BY <1>1 DEF HostInv, FirewallTypeOK
    <2>3. enabled' \in BOOLEAN
        BY <1>1
    <2>4. calls' \in 0..2 /\ (stage' \in {"rewrite", "flush"} <=> calls' > 0)
        BY <1>1
    <2>5. /\ UNCHANGED <<setting, api, untold>>
          /\ setting \in {NoSetting} \union Settings /\ untold \in BOOLEAN
          /\ api \in [Requests -> {"read", "insert", "update", "saved", "done"}]
        BY <1>1 DEF HostInv, FirewallTypeOK, serverSide
    <2> QED
        BY <1>1, <1>2, <1>3, <2>1, <2>2, <2>3, <2>4, <2>5 DEF FirewallTypeOK
<1>5. FileInv'
    BY <1>1, <1>2 DEF HostInv, FileInv, InForm
<1> QED
    BY <1>4, <1>5 DEF HostInv

LEMMA ServerRestartsKeeps ==
    ASSUME HostInv, ServerRestarts
    PROVE  HostInv'
<1>1. /\ UNCHANGED <<setting, clientSide, failures, restarts, torn>>
      /\ untold' \in BOOLEAN
      /\ api' \in [Requests -> {"read", "insert", "update", "saved", "done"}]
    BY DEF ServerRestarts, HostInv, FirewallTypeOK
<1>2. FirewallTypeOK'
    BY <1>1 DEF HostInv, FirewallTypeOK, clientSide, managerVars, fileVars
<1>3. FileInv'
    BY <1>1, FileInvKept DEF HostInv, clientSide, managerVars
<1> QED
    BY <1>2, <1>3 DEF HostInv

LEMMA HostInvNext ==
    ASSUME TypeOK, CommandTypeOK, HostInv, [FCNext]_fcVars
    PROVE  HostInv'
<1>1. ASSUME UNCHANGED fwVars PROVE HostInv'
    <2>1. FirewallTypeOK'
        BY <1>1 DEF HostInv, FirewallTypeOK, fwVars, serverSide, clientSide, managerVars, fileVars, faultVars
    <2>2. FileInv'
        BY <1>1, FileInvKept DEF HostInv, fwVars, clientSide, managerVars, faultVars
    <2> QED
        BY <2>1, <2>2 DEF HostInv
<1>2. CASE UNCHANGED fcVars
    BY <1>1, <1>2 DEF fcVars
<1>3. CASE ConnectionBreaks
    BY <1>1, <1>3 DEF ConnectionBreaks
<1>4. CASE \E u \in Requests : UpdateConfig(u)
    BY <1>4, RequestKeeps
<1>5. CASE Listen \/ HostStep
    BY <1>5, ListenKeeps, FetchConfigKeeps, RewriteKeeps, FlushKeeps DEF HostStep
<1>6. CASE FetchFails \/ FetchUnlisted \/ RewriteFails \/ FlushFails
    BY <1>6, FetchFailsKeeps, FetchUnlistedKeeps, RewriteFailsKeeps, FlushFailsKeeps
<1>7. CASE HostRestarts \/ ServerRestarts
    BY <1>7, HostRestartsKeeps, ServerRestartsKeeps
<1> QED
    BY <1>1, <1>2, <1>3, <1>4, <1>5, <1>6, <1>7 DEF FCNext, Drain, Sender

LEMMA HostInvariance == FCSpec => [](TypeOK /\ CommandTypeOK /\ HostInv)
<1>1. FCSpec => [](TypeOK /\ CommandTypeOK)
    BY FirewallUsesQueue, ServerCorrectWithQueue, CommandTypes, PTL
<1> QED
    BY <1>1, HostInvInit, HostInvNext, PTL DEF FCSpec

(* Types; the client has a call of the hosts manager to make exactly when  *)
(* it is in one, and no rewrite puts a whole line into the file twice,     *)
(* however often the writing of a block ended early.                       *)
THEOREM FirewallTypes == FCSpec => []FirewallTypeOK
<1>1. HostInv => FirewallTypeOK
    BY DEF HostInv
<1> QED
    BY <1>1, HostInvariance, PTL

(* Between two rewrites the hosts file is the user's lines and at most one *)
(* block; only if a write failed or the client died in one are lines lost, *)
(* and only then is there the beginning of a line that was cut, behind     *)
(* which the next block is written and found again like any other.         *)
THEOREM HostsFileKept == FCSpec => []HostsFileInOrder
<1>1. ASSUME HostInv, stage = "idle", torn # "torn"
      PROVE  HostsFileInOrder
    <2> PICK D \in Lists, mine \in Seq(User) :
            /\ hosts = mine \o Block(D)
            /\ OnceEach(mine)
            /\ torn = "no" => mine = <<UserLine>>
        BY <1>1 DEF HostInv, FileInv, InForm
    <2>1. Shape(hosts, Len(mine)) /\ SubSeq(hosts, 1, Len(mine)) = mine
        BY FormShape
    <2>2. Len(mine) \in 0..Len(hosts) /\ \A i \in 1..Len(mine) : hosts[i] \in {UserLine, Scrap}
        BY <2>1 DEF Shape, User
    <2> QED
        BY <2>1, <2>2 DEF HostsFileInOrder
<1>2. HostInv => HostsFileInOrder
    BY <1>1 DEF HostsFileInOrder
<1> QED
    BY <1>2, HostInvariance, PTL
=============================================================================
