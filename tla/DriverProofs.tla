----------------------------- MODULE DriverProofs -----------------------------
(***************************************************************************)
(* Proofs about what the driver keeps between the C host and the           *)
(* controller, each for any values of the constants of its module.         *)
(*                                                                         *)
(* HciBridge: commands and ACL packets keep their order and are neither    *)
(* lost nor duplicated, acks tell the truth and no buffer leaks.           *)
(* OsMempool (names in Mem): the free lists and the list of pools keep     *)
(* their shape, whatever clients do, and while they free only what they    *)
(* have no block is in two hands.                                          *)
(* BleDriver (names in Life; TAKEN and the callback slots): a single       *)
(* driver, nothing dangling while the host runs, nothing left behind.      *)
(* NplCritical (names in Cs; CS_STATE): critical sections exclude each     *)
(* other.                                                                  *)
(***************************************************************************)
EXTENDS HciBridge, OsMempool, BleDriver, NplCritical, StructureProofs

-----------------------------------------------------------------------------
(* The HCI bridge.                                                         *)

\* A lane of the pump: what is done with, at most one packet in hand (h), and
\* the queue, which together number 1..n.
Ordered(done, h, c, q, n) ==
  /\ n = Len(done) + h + Len(q)
  /\ \A i \in 1..Len(done) : done[i].n = i
  /\ h = 1 => c = Len(done) + 1
  /\ \A j \in 1..Len(q) : q[j] = Len(done) + h + j

CmdHand == IF tx \in {"dispatch", "exec"} THEN 1 ELSE 0
AclHand == IF tx = "write" THEN 1 ELSE 0

CmdsOrdered == Ordered(answers, CmdHand, cur, cmdq, Len(class))
AclsOrdered == Ordered(fates, AclHand, cur, aclq, accepted)

\* The controller has seen no command later than those answered, but for the
\* one it is executing.
ExecutedOK ==
  /\ \A i \in 1..Len(executed) :
       executed[i] \in 1..(Len(answers) + IF tx = "exec" THEN 1 ELSE 0)
  /\ tx = "exec" => \E i \in 1..Len(executed) : executed[i] = cur

\* The parts of TypeOK.
CmdsType ==
  /\ cmdq \in Seq(Nat) /\ Len(cmdq) <= CMD_QUEUE_DEPTH
  /\ class \in Seq(Classes) /\ answers \in Seq(Answers) /\ executed \in Seq(Nat)

AclsType ==
  /\ aclq \in Seq(Nat) /\ Len(aclq) <= ACL_QUEUE_DEPTH
  /\ accepted \in Nat /\ fates \in Seq(Fates)
  /\ credits \in Nat /\ returned \in Nat

PoolsType ==
  /\ held \in Seq({"evt", "lo", "acl"})
  /\ evt \in 0..EvtCount /\ lo \in 0..EvtLoCount /\ acl \in 0..AclCount

RestType ==
  /\ tx \in {"off", "select", "dispatch", "exec", "write"}
  /\ cur \in Nat /\ waiting \in Nat /\ ack \in Nat
  /\ past \in [cmds : Nat, acls : Nat]
  /\ budget \in Budgets
  /\ packets \in 0..budget.packets /\ timeouts \in 0..budget.timeouts /\ drops \in 0..budget.drops

\* What an earlier session accepted is neither queued nor in hand.
SessionOK ==
  /\ past.cmds + CmdHand + Len(cmdq) <= Len(class)
  /\ past.acls + AclHand + Len(aclq) <= accepted

IInv == /\ TypeOK /\ CmdsOrdered /\ AclsOrdered /\ SessionOK
        /\ ExecutedOK /\ AcksTruthful /\ BuffersConserved

-----------------------------------------------------------------------------
(* Counting the buffers of one kind.                                       *)

Where(s, k) == {i \in DOMAIN s : s[i] = k}

\* The places of k in a sequence are finitely many.
LEMMA CountType ==
  ASSUME NEW S, NEW s \in Seq(S), NEW k
  PROVE  IsFiniteSet(Where(s, k)) /\ Cardinality(Where(s, k)) \in Nat
<1>1. Len(s) \in Int /\ DOMAIN s = 1..Len(s)
  BY LenProperties
<1>2. IsFiniteSet(1..Len(s)) /\ Where(s, k) \in SUBSET (1..Len(s))
  BY <1>1, FS_Interval DEF Where
<1>3. IsFiniteSet(Where(s, k))
  BY <1>2, FS_Subset
<1> QED
  BY <1>3, FS_CardinalityType

\* The empty sequence has none.
LEMMA CountEmpty ==
  ASSUME NEW k
  PROVE  Cardinality(Where(<< >>, k)) = 0
<1>1. Where(<< >>, k) = {}
  BY DEF Where
<1> QED
  BY <1>1, FS_EmptySet

\* Append adds one place at most.
LEMMA CountAppend ==
  ASSUME NEW S, NEW s \in Seq(S), NEW x \in S, NEW k
  PROVE  Cardinality(Where(Append(s, x), k)) =
           Cardinality(Where(s, k)) + IF x = k THEN 1 ELSE 0
<1>1. IsFiniteSet(Where(s, k)) /\ Cardinality(Where(s, k)) \in Nat
  BY CountType
<1>2. /\ Len(s) \in Nat /\ DOMAIN s = 1..Len(s) /\ DOMAIN Append(s, x) = 1..(Len(s) + 1)
      /\ \A i \in 1..Len(s) : Append(s, x)[i] = s[i]
      /\ Append(s, x)[Len(s) + 1] = x
  BY AppendProperties, LenProperties
<1>3. CASE x = k
  <2>1. Where(Append(s, x), k) = Where(s, k) \cup {Len(s) + 1} /\ Len(s) + 1 \notin Where(s, k)
    BY <1>2, <1>3 DEF Where
  <2> QED
    BY <1>1, <1>3, <2>1, FS_AddElement
<1>4. CASE x # k
  <2>1. Where(Append(s, x), k) = Where(s, k)
    BY <1>2, <1>4 DEF Where
  <2> QED
    BY <1>1, <1>4, <2>1
<1> QED
  BY <1>3, <1>4

\* Tail takes one away at most.
LEMMA CountTail ==
  ASSUME NEW S, NEW s \in Seq(S), s # << >>, NEW k
  PROVE  Cardinality(Where(s, k)) =
           Cardinality(Where(Tail(s), k)) + IF Head(s) = k THEN 1 ELSE 0
<1> DEFINE T == Where(Tail(s), k)
           U == Where(s, k) \ {1}
<1>1. /\ Len(s) \in Nat \ {0} /\ DOMAIN s = 1..Len(s) /\ Head(s) = s[1]
      /\ Tail(s) \in Seq(S) /\ DOMAIN Tail(s) = 1..(Len(s) - 1)
      /\ \A i \in 1..(Len(s) - 1) : Tail(s)[i] = s[i + 1]
  BY HeadTailProperties, LenProperties, EmptySeq
<1>2. IsFiniteSet(T) /\ Cardinality(T) \in Nat /\ IsFiniteSet(Where(s, k))
  BY <1>1, CountType
<1>3. Cardinality(U) = Cardinality(T)
  <2> DEFINE f == [i \in T |-> i + 1]
  <2>1. \A i \in T : i \in Nat /\ i + 1 \in U
    BY <1>1 DEF Where
  <2>2. \A j \in U : j - 1 \in T /\ (j - 1) + 1 = j
    BY <1>1 DEF Where
  <2>3. f \in Bijection(T, U)
    <3>1. f \in [T -> U]
      BY <2>1
    <3>2. \A a, b \in T : f[a] = f[b] => a = b
      BY <2>1
    <3>3. \A j \in U : \E i \in T : f[i] = j
      BY <2>2
    <3> QED
      BY <3>1, <3>2, <3>3 DEF Bijection, Injection, Surjection, IsInjective
  <2> QED
    BY <1>2, <2>3, FS_Bijection DEF ExistsBijection
<1>4. CASE Head(s) = k
  <2>0. IsFiniteSet(U)
    BY <1>2, FS_RemoveElement
  <2>1. Where(s, k) = U \cup {1} /\ 1 \notin U
    BY <1>1, <1>4 DEF Where
  <2> HIDE DEF U
  <2>2. Cardinality(Where(s, k)) = Cardinality(U) + 1
    BY <2>0, <2>1, FS_AddElement
  <2> QED
    BY <1>3, <1>4, <2>2
<1>5. CASE Head(s) # k
  <2>1. Where(s, k) = U
    BY <1>1, <1>5 DEF Where
  <2> HIDE DEF T, U
  <2> QED
    BY <1>2, <1>3, <1>5, <2>1 DEF T
<1> QED
  BY <1>4, <1>5

-----------------------------------------------------------------------------
(* What the steps of a lane do to its order.                               *)

\* A packet is accepted.
LEMMA LaneAccept ==
  ASSUME NEW D, NEW done \in Seq(D), NEW q \in Seq(Nat), NEW h \in {0, 1}, NEW c,
         NEW n \in Nat, Ordered(done, h, c, q, n)
  PROVE  Ordered(done, h, c, Append(q, n + 1), n + 1)
<1>1. Len(done) \in Nat /\ Len(q) \in Nat
  BY LenProperties
<1>2. /\ Len(Append(q, n + 1)) = Len(q) + 1
      /\ \A j \in 1..Len(q) : Append(q, n + 1)[j] = q[j]
      /\ Append(q, n + 1)[Len(q) + 1] = n + 1
  BY AppendProperties
<1>3. ASSUME NEW j \in 1..(Len(q) + 1) PROVE Append(q, n + 1)[j] = Len(done) + h + j
  <2>1. j \in 1..Len(q) \/ j = Len(q) + 1
    BY <1>1
  <2> QED
    BY <1>1, <1>2, <2>1 DEF Ordered
<1> QED
  BY <1>1, <1>2, <1>3 DEF Ordered

\* The first packet of the queue is taken.
LEMMA LaneTake ==
  ASSUME NEW D, NEW done \in Seq(D), NEW q \in Seq(Nat), q # << >>, NEW c, NEW n,
         Ordered(done, 0, c, q, n)
  PROVE  Ordered(done, 1, Head(q), Tail(q), n)
<1>1. /\ Len(done) \in Nat /\ Len(q) \in Nat \ {0} /\ Head(q) = q[1]
      /\ Len(Tail(q)) = Len(q) - 1
      /\ \A j \in 1..(Len(q) - 1) : Tail(q)[j] = q[j + 1]
  BY LenProperties, HeadTailProperties, EmptySeq
<1>2. ASSUME NEW j \in 1..(Len(q) - 1) PROVE Tail(q)[j] = Len(done) + 1 + j
  <2>1. j + 1 \in 1..Len(q)
    BY <1>1
  <2> QED
    BY <1>1, <2>1 DEF Ordered
<1> QED
  BY <1>1, <1>2 DEF Ordered

\* The packet in hand is done with.
LEMMA LaneFinish ==
  ASSUME NEW D, NEW done \in Seq(D), NEW q \in Seq(Nat), NEW r \in D, NEW c, NEW n,
         Ordered(done, 1, r.n, q, n)
  PROVE  Ordered(Append(done, r), 0, c, q, n)
<1>1. Len(done) \in Nat /\ Len(q) \in Nat
  BY LenProperties
<1>2. /\ Len(Append(done, r)) = Len(done) + 1
      /\ \A i \in 1..Len(done) : Append(done, r)[i] = done[i]
      /\ Append(done, r)[Len(done) + 1] = r
  BY AppendProperties
<1>3. ASSUME NEW i \in 1..(Len(done) + 1) PROVE Append(done, r)[i].n = i
  <2>1. i \in 1..Len(done) \/ i = Len(done) + 1
    BY <1>1
  <2> QED
    BY <1>1, <1>2, <2>1 DEF Ordered
<1>4. n = Len(done) + 1 + Len(q) /\ \A j \in 1..Len(q) : q[j] = Len(done) + 1 + j
  BY DEF Ordered
<1> DEFINE d == Append(done, r)
<1>5. Len(d) = Len(done) + 1 /\ \A i \in 1..Len(d) : d[i].n = i
  BY <1>2, <1>3
<1> HIDE DEF d
<1>6. n = Len(d) + 0 + Len(q) /\ \A j \in 1..Len(q) : q[j] = Len(d) + 0 + j
  BY <1>1, <1>4, <1>5
<1>7. Ordered(d, 0, c, q, n)
  BY <1>5, <1>6 DEF Ordered
<1> QED
  BY <1>7 DEF d

\* The queue is emptied, and its packets are done with.
LEMMA LaneDrain ==
  ASSUME NEW D, NEW done \in Seq(D), NEW q \in Seq(Nat), NEW e \in Seq(D), NEW c, NEW n,
         Len(e) = Len(q), \A j \in 1..Len(q) : e[j].n = q[j],
         Ordered(done, 0, c, q, n)
  PROVE  Ordered(done \o e, 0, c, << >>, n)
<1>1. Len(done) \in Nat /\ Len(q) \in Nat
  BY LenProperties
<1>2. /\ Len(done \o e) = Len(done) + Len(q)
      /\ \A i \in 1..(Len(done) + Len(q)) :
           (done \o e)[i] = IF i <= Len(done) THEN done[i] ELSE e[i - Len(done)]
  <2>1. /\ Len(done \o e) = Len(done) + Len(e)
        /\ \A i \in 1..(Len(done) + Len(e)) :
             (done \o e)[i] = IF i <= Len(done) THEN done[i] ELSE e[i - Len(done)]
    BY ConcatProperties, ZenonT(40)
  <2> QED
    BY <2>1
<1>3. ASSUME NEW i \in 1..(Len(done) + Len(q)) PROVE (done \o e)[i].n = i
  <2>1. CASE i <= Len(done)
    BY <1>1, <1>2, <2>1 DEF Ordered
  <2>2. CASE ~(i <= Len(done))
    <3>1. i - Len(done) \in 1..Len(q) /\ (done \o e)[i] = e[i - Len(done)]
      BY <1>1, <1>2, <2>2
    <3>2. e[i - Len(done)].n = Len(done) + 0 + (i - Len(done))
      BY <3>1 DEF Ordered
    <3> QED
      BY <1>1, <3>1, <3>2
  <2> QED
    BY <2>1, <2>2
<1> QED
  BY <1>1, <1>2, <1>3 DEF Ordered

\* The hand of the TX loop as a sequence.
AtMost(b, c) == b = << >> \/ b = <<c>>

\* A lane from front to back.
ReadsInOrder(done, b, q, n) == NumbersOf(done) \o b \o q = Numbers(n)

\* An ordered lane reads 1..n from front to back.
LEMMA LaneNumbers ==
  ASSUME NEW D, NEW done \in Seq(D), NEW q \in Seq(Nat), NEW c, NEW n \in Nat,
         NEW b, AtMost(b, c), Ordered(done, Len(b), c, q, n)
  PROVE  ReadsInOrder(done, b, q, n)
<1> DEFINE a == NumbersOf(done)
           ab == a \o b
           abq == ab \o q
<1>0. b \in Seq({c}) /\ Len(b) \in {0, 1}
  <2>1. CASE b = << >>
    BY <2>1
  <2>2. CASE b = <<c>>
    BY <2>2
  <2> QED
    BY <2>1, <2>2 DEF AtMost
<1>1. Len(done) \in Nat /\ Len(q) \in Nat /\ Len(b) \in Nat
  BY <1>0, LenProperties
<1>2. a \in Seq(Nat) /\ Len(a) = Len(done) /\ \A i \in 1..Len(done) : a[i] = i
  BY <1>1 DEF NumbersOf, Ordered
<1>3. b \in Seq(Nat) /\ \A i \in 1..Len(b) : b[i] = Len(done) + i
  <2>1. CASE Len(b) = 0
    BY <2>1, EmptySeq
  <2>2. CASE Len(b) = 1
    <3>1. b[1] = c /\ c = Len(done) + 1 /\ c \in Nat
      <4>1. b[1] \in {c}
        <5>1. 1 \in 1..Len(b)
          BY <2>2
        <5> QED
          BY <1>0, <5>1, ElementOfSeq
      <4> QED
        BY <1>1, <2>2, <4>1 DEF Ordered
    <3> QED
      BY <1>0, <2>2, <3>1
  <2> QED
    BY <1>0, <2>1, <2>2
<1> HIDE DEF a
<1>4. /\ ab \in Seq(Nat) /\ Len(ab) = Len(done) + Len(b)
      /\ \A i \in 1..(Len(done) + Len(b)) : ab[i] = i
  <2>1. /\ ab \in Seq(Nat) /\ Len(ab) = Len(a) + Len(b)
        /\ \A i \in 1..(Len(a) + Len(b)) : ab[i] = IF i <= Len(a) THEN a[i] ELSE b[i - Len(a)]
    BY <1>2, <1>3, ConcatProperties
  <2> HIDE DEF ab
  <2>2. ASSUME NEW i \in 1..(Len(done) + Len(b)) PROVE ab[i] = i
    <3>1. CASE i <= Len(done)
      <4>1. i \in 1..(Len(a) + Len(b)) /\ i <= Len(a) /\ i \in 1..Len(done)
        BY <1>1, <1>2, <3>1
      <4>2. ab[i] = a[i]
        BY <2>1, <4>1
      <4> QED
        BY <1>2, <4>1, <4>2
    <3>2. CASE ~(i <= Len(done))
      <4>1. i - Len(done) \in 1..Len(b) /\ ab[i] = b[i - Len(done)]
        BY <1>1, <1>2, <2>1, <3>2
      <4>2. b[i - Len(done)] = Len(done) + (i - Len(done))
        BY <1>3, <4>1
      <4> QED
        BY <1>1, <4>1, <4>2
    <3> QED
      BY <3>1, <3>2
  <2> QED
    BY <1>2, <2>1, <2>2
<1> HIDE DEF ab
<1>5. /\ abq \in Seq(Nat) /\ Len(abq) = n
      /\ \A i \in 1..n : abq[i] = i
  <2>1. /\ abq \in Seq(Nat) /\ Len(abq) = Len(ab) + Len(q)
        /\ \A i \in 1..(Len(ab) + Len(q)) : abq[i] = IF i <= Len(ab) THEN ab[i] ELSE q[i - Len(ab)]
    BY <1>4, ConcatProperties
  <2> HIDE DEF abq
  <2>2. n = Len(ab) + Len(q) /\ Len(ab) \in Nat
    BY <1>1, <1>4 DEF Ordered
  <2>3. ASSUME NEW i \in 1..n PROVE abq[i] = i
    <3>1. CASE i <= Len(ab)
      BY <1>4, <2>1, <2>2, <3>1
    <3>2. CASE ~(i <= Len(ab))
      <4>1. i - Len(ab) \in 1..Len(q) /\ abq[i] = q[i - Len(ab)]
        BY <1>1, <2>1, <2>2, <3>2
      <4>2. q[i - Len(ab)] = Len(ab) + (i - Len(ab))
        BY <1>1, <1>4, <4>1 DEF Ordered
      <4> QED
        BY <2>2, <4>1, <4>2
    <3> QED
      BY <3>1, <3>2
  <2> QED
    BY <2>1, <2>2, <2>3
<1>6. abq = Numbers(n)
  <2>1. Numbers(n) \in Seq(Nat) /\ Len(Numbers(n)) = n /\ \A i \in 1..n : Numbers(n)[i] = i
    BY DEF Numbers
  <2> HIDE DEF abq
  <2> QED
    BY <1>5, <2>1, SeqEqual
<1> QED
  BY <1>6 DEF a, ab, ReadsInOrder

-----------------------------------------------------------------------------
(* The steps.                                                              *)

\* TypeOK is its parts.
LEMMA TypeParts == TypeOK <=> CmdsType /\ AclsType /\ PoolsType /\ RestType
  BY DEF TypeOK, CmdsType, AclsType, PoolsType, RestType

\* The initial states satisfy the invariant.
LEMMA InitOK == Init => IInv
<1> SUFFICES ASSUME Init PROVE IInv
  OBVIOUS
<1>1. TypeOK
  BY BridgeAssumption DEF Init, TypeOK, Budget
<1>2. CmdsOrdered /\ AclsOrdered /\ SessionOK
  BY DEF Init, CmdsOrdered, AclsOrdered, SessionOK, Ordered, CmdHand, AclHand
<1>3. ExecutedOK /\ AcksTruthful
  BY DEF Init, ExecutedOK, AcksTruthful
<1>4. BuffersConserved
  <2>1. \A k : HeldOf(k) = 0
    BY CountEmpty DEF Init, HeldOf, Where
  <2> QED
    BY <2>1, BridgeAssumption DEF Init, BuffersConserved
<1> QED
  BY <1>1, <1>2, <1>3, <1>4 DEF IInv

\* A step that leaves CMD_QUEUE, the answers and the hand of the TX loop
\* alone keeps the commands in order.
LEMMA CmdsFrame ==
  ASSUME CmdsOrdered, UNCHANGED <<cmdq, class, answers>>, CmdHand' = CmdHand,
         CmdHand = 1 => cur' = cur
  PROVE  CmdsOrdered'
BY DEF CmdsOrdered, Ordered

\* The same for ACL packets.
LEMMA AclsFrame ==
  ASSUME AclsOrdered, UNCHANGED <<aclq, accepted, fates>>, AclHand' = AclHand,
         AclHand = 1 => cur' = cur
  PROVE  AclsOrdered'
BY DEF AclsOrdered, Ordered

\* An ack, or the end of the pump, is the end of the command in hand.
LEMMA CmdsFinish ==
  ASSUME IInv, tx \in {"dispatch", "exec"}, tx' \in {"off", "select"},
         NEW kind \in {"complete", "status", "none"},
         NEW status \in {"ok", "hci", "hw", "unknown", "invalid", "none"},
         answers' = Append(answers, [n |-> cur, kind |-> kind, status |-> status]),
         UNCHANGED <<cmdq, class, executed>>
  PROVE  CmdsType' /\ CmdsOrdered'
<1> DEFINE r == [n |-> cur, kind |-> kind, status |-> status]
<1>1. CmdsType /\ RestType
  BY TypeParts DEF IInv
<1>2. r \in Answers /\ r.n = cur
  BY <1>1 DEF Answers, RestType
<1> HIDE DEF r
<1>3. answers' \in Seq(Answers) /\ answers' = Append(answers, r)
  BY <1>1, <1>2, AppendProperties DEF r, CmdsType
<1>4. Ordered(answers, 1, r.n, cmdq, Len(class))
  BY <1>2 DEF IInv, CmdsOrdered, CmdHand
<1>5. Ordered(answers', 0, cur', cmdq', Len(class'))
  BY <1>1, <1>2, <1>3, <1>4, LaneFinish DEF CmdsType
<1> QED
  BY <1>1, <1>3, <1>5 DEF CmdsType, CmdsOrdered, CmdHand

\* Every step keeps the commands in order.
LEMMA CmdsStep == IInv /\ [Next]_vars => CmdsType' /\ CmdsOrdered'
<1> SUFFICES ASSUME IInv, [Next]_vars PROVE CmdsType' /\ CmdsOrdered'
  OBVIOUS
<1>1. CmdsType /\ RestType /\ CmdsOrdered
  BY TypeParts DEF IInv
<1>2. CASE UNCHANGED <<cmdVars, txVars>>
  BY <1>1, <1>2, CmdsFrame DEF cmdVars, txVars, CmdHand, CmdsType
<1>3. ASSUME NEW k \in Classes, ToLlCmd(k) PROVE CmdsType' /\ CmdsOrdered'
  <2>1. class' \in Seq(Classes) /\ Len(class') = Len(class) + 1 /\ Len(class) \in Nat
    BY <1>1, <1>3, AppendProperties, LenProperties DEF ToLlCmd, CmdsType
  <2>2. cmdq' = Append(cmdq, Len(class) + 1)
    BY <1>3, <2>1 DEF ToLlCmd
  <2>3. cmdq' \in Seq(Nat) /\ Len(cmdq') = Len(cmdq) + 1 /\ Len(cmdq) \in Nat
    BY <1>1, <2>1, <2>2, AppendProperties, LenProperties DEF CmdsType
  <2>4. CmdsType'
    BY <1>1, <1>3, <2>1, <2>3, BridgeAssumption DEF ToLlCmd, CmdsType
  <2>5. Ordered(answers, CmdHand, cur, Append(cmdq, Len(class) + 1), Len(class) + 1)
    BY <1>1, <2>1, LaneAccept DEF CmdsType, CmdsOrdered, CmdHand
  <2>6. answers' = answers /\ cur' = cur /\ CmdHand' = CmdHand
    BY <1>3 DEF ToLlCmd, txVars, CmdHand
  <2> QED
    BY <2>1, <2>2, <2>4, <2>5, <2>6 DEF CmdsOrdered
<1>4. ASSUME TxSelect PROVE CmdsType' /\ CmdsOrdered'
  <2>1. UNCHANGED <<class, answers, executed>> /\ CmdHand = 0
    BY <1>4 DEF TxSelect, CmdHand
  <2>2. CASE cmdq # << >>
    <3>1. cmdq' = Tail(cmdq) /\ cur' = Head(cmdq) /\ CmdHand' = 1
      BY <1>4, <2>2 DEF TxSelect, CmdHand
    <3>2. Tail(cmdq) \in Seq(Nat) /\ Len(Tail(cmdq)) = Len(cmdq) - 1 /\ Len(cmdq) \in Nat
      BY <1>1, <2>2, HeadTailProperties, LenProperties DEF CmdsType
    <3>3. Ordered(answers, 1, Head(cmdq), Tail(cmdq), Len(class))
      BY <1>1, <2>1, <2>2, LaneTake DEF CmdsType, CmdsOrdered
    <3>4. CmdsType'
      BY <1>1, <2>1, <3>1, <3>2, BridgeAssumption DEF CmdsType
    <3> QED
      BY <2>1, <3>1, <3>3, <3>4 DEF CmdsOrdered
  <2>3. CASE cmdq = << >>
    <3>1. cmdq' = cmdq /\ CmdHand' = 0
      BY <1>4, <2>3 DEF TxSelect, CmdHand
    <3> QED
      BY <1>1, <2>1, <3>1, CmdsFrame DEF CmdsType
  <2> QED
    BY <2>2, <2>3
<1>5. ASSUME DispatchHere PROVE CmdsType' /\ CmdsOrdered'
  <2>1. \A k : AckKind(k) \in {"complete", "status", "none"}
    BY DEF AckKind
  <2>2. PICK kind \in {"complete", "status", "none"}, status \in {"ok", "unknown", "invalid"} :
          Answer(kind, status)
    BY <1>5, <2>1 DEF DispatchHere
  <2> QED
    BY <1>5, <2>2, CmdsFinish DEF DispatchHere, Answer
<1>6. ASSUME Executed PROVE CmdsType' /\ CmdsOrdered'
  <2>1. \A k : AckKind(k) \in {"complete", "status", "none"}
    BY DEF AckKind
  <2>2. PICK kind \in {"complete", "status", "none"}, status \in {"ok", "hci", "hw"} :
          Answer(kind, status)
    BY <1>6, <2>1 DEF Executed
  <2> QED
    BY <1>6, <2>2, CmdsFinish DEF Executed, Answer
<1>7. ASSUME Forward PROVE CmdsType' /\ CmdsOrdered'
  <2>1. executed' \in Seq(Nat)
    BY <1>1, <1>7, AppendProperties DEF Forward, CmdsType, RestType
  <2> QED
    BY <1>1, <1>7, <2>1, CmdsFrame DEF Forward, CmdsType, CmdHand
<1>8. ASSUME WriteAcl \/ StartPump PROVE CmdsType' /\ CmdsOrdered'
  <2>1. UNCHANGED cmdVars /\ CmdHand = 0 /\ CmdHand' = 0
    BY <1>8 DEF WriteAcl, StartPump, CmdHand
  <2> QED
    BY <1>1, <2>1, CmdsFrame DEF cmdVars, CmdsType
<1>9. ASSUME DropPump PROVE CmdsType' /\ CmdsOrdered'
  <2>1. CASE tx \in {"dispatch", "exec"}
    BY <1>9, <2>1, CmdsFinish DEF DropPump, Unanswered
  <2>2. CASE tx \notin {"dispatch", "exec"}
    <3>1. UNCHANGED cmdVars /\ CmdHand = 0 /\ CmdHand' = 0
      BY <1>9, <2>2 DEF DropPump, CmdHand, cmdVars
    <3> QED
      BY <1>1, <3>1, CmdsFrame DEF cmdVars, CmdsType
  <2> QED
    BY <2>1, <2>2
<1>10. ASSUME LlDeinit PROVE CmdsType' /\ CmdsOrdered'
  <2> DEFINE e == [i \in 1..Len(cmdq) |-> Unanswered(cmdq[i])]
  <2>1. /\ Len(cmdq) \in Nat /\ e \in Seq(Answers) /\ Len(e) = Len(cmdq)
        /\ \A i \in 1..Len(cmdq) : e[i].n = cmdq[i]
    <3>1. Len(cmdq) \in Nat /\ \A i \in 1..Len(cmdq) : cmdq[i] \in Nat
      BY <1>1, LenProperties, ElementOfSeq DEF CmdsType
    <3>2. \A i \in 1..Len(cmdq) : Unanswered(cmdq[i]) \in Answers /\ Unanswered(cmdq[i]).n = cmdq[i]
      BY <3>1 DEF Unanswered, Answers
    <3>3. e \in [1..Len(cmdq) -> Answers]
      BY <3>2
    <3> QED
      BY <3>1, <3>2, <3>3
  <2>2. answers' = answers \o e /\ UNCHANGED <<class, executed, cur, tx>> /\ cmdq' = << >>
    BY <1>10 DEF LlDeinit, txVars
  <2> HIDE DEF e
  <2>3. answers \o e \in Seq(Answers)
    BY <1>1, <2>1, ConcatProperties DEF CmdsType
  <2>4. CmdHand = 0 /\ CmdHand' = 0
    BY <1>10 DEF LlDeinit, CmdHand, txVars
  <2>5. Ordered(answers \o e, 0, cur, << >>, Len(class))
    BY <1>1, <2>1, <2>4, LaneDrain DEF CmdsType, CmdsOrdered
  <2>6. CmdsType'
    BY <1>1, <2>2, <2>3, BridgeAssumption DEF CmdsType
  <2> QED
    BY <2>2, <2>4, <2>5, <2>6 DEF CmdsOrdered
<1>11. ToLlAcl \/ RxEvent \/ RxAcl \/ HandleHeld \/ TakeAck \/ AckTimeout \/ CompleteAcl
         \/ UNCHANGED vars => UNCHANGED <<cmdVars, txVars>>
  BY DEF ToLlAcl, RxEvent, RxAcl, Arrives, HandleHeld, TakeAck, AckTimeout, CompleteAcl,
         vars
<1> QED
  BY <1>2, <1>3, <1>4, <1>5, <1>6, <1>7, <1>8, <1>9, <1>10, <1>11 DEF Next, TxStep

\* The end of the packet in hand, whatever becomes of it.
LEMMA AclsFinish ==
  ASSUME IInv, tx = "write", tx' \in {"off", "select"},
         NEW fate \in {"written", "failed", "malformed", "cut"},
         fates' = Append(fates, [n |-> cur, fate |-> fate]),
         UNCHANGED <<aclq, accepted, credits, returned>>
  PROVE  AclsType' /\ AclsOrdered'
<1> DEFINE r == [n |-> cur, fate |-> fate]
<1>1. AclsType /\ RestType
  BY TypeParts DEF IInv
<1>2. r \in Fates /\ r.n = cur
  BY <1>1 DEF Fates, RestType
<1> HIDE DEF r
<1>3. fates' \in Seq(Fates) /\ fates' = Append(fates, r)
  BY <1>1, <1>2, AppendProperties DEF r, AclsType
<1>4. Ordered(fates, 1, r.n, aclq, accepted)
  BY <1>2 DEF IInv, AclsOrdered, AclHand
<1>5. Ordered(fates', 0, cur', aclq', accepted')
  BY <1>1, <1>2, <1>3, <1>4, LaneFinish DEF AclsType
<1> QED
  BY <1>1, <1>3, <1>5 DEF AclsType, AclsOrdered, AclHand

\* The packets written are finitely many.
LEMMA WrittenType == AclsType => Written \in Nat
<1> SUFFICES ASSUME AclsType PROVE Written \in Nat
  OBVIOUS
<1> DEFINE W == {i \in DOMAIN fates : fates[i].fate = "written"}
<1>1. Len(fates) \in Int /\ DOMAIN fates = 1..Len(fates)
  BY LenProperties DEF AclsType
<1>2. IsFiniteSet(1..Len(fates)) /\ W \in SUBSET (1..Len(fates))
  BY <1>1, FS_Interval
<1>3. IsFiniteSet(W)
  BY <1>2, FS_Subset
<1> QED
  BY <1>3, FS_CardinalityType DEF Written

\* Every step keeps the ACL packets in order.
LEMMA AclsStep == IInv /\ [Next]_vars => AclsType' /\ AclsOrdered'
<1> SUFFICES ASSUME IInv, [Next]_vars PROVE AclsType' /\ AclsOrdered'
  OBVIOUS
<1>1. AclsType /\ RestType /\ AclsOrdered
  BY TypeParts DEF IInv
<1>2. CASE UNCHANGED aclVars /\ AclHand = 0 /\ AclHand' = 0
  BY <1>1, <1>2, AclsFrame DEF aclVars, AclsType
<1>3. CASE UNCHANGED <<aclVars, txVars>>
  BY <1>1, <1>3, AclsFrame DEF aclVars, txVars, AclHand, AclsType
<1>4. ASSUME ToLlAcl PROVE AclsType' /\ AclsOrdered'
  <2>1. aclq' = Append(aclq, accepted + 1) /\ accepted' = accepted + 1
    BY <1>4 DEF ToLlAcl
  <2>2. aclq' \in Seq(Nat) /\ Len(aclq') = Len(aclq) + 1 /\ Len(aclq) \in Nat
    BY <1>1, <2>1, AppendProperties, LenProperties DEF AclsType
  <2>3. AclsType'
    BY <1>1, <1>4, <2>1, <2>2, BridgeAssumption DEF ToLlAcl, AclsType
  <2>4. Ordered(fates, AclHand, cur, Append(aclq, accepted + 1), accepted + 1)
    BY <1>1, LaneAccept DEF AclsType, AclsOrdered, AclHand
  <2>5. fates' = fates /\ cur' = cur /\ AclHand' = AclHand
    BY <1>4 DEF ToLlAcl, txVars, AclHand
  <2> QED
    BY <2>1, <2>3, <2>4, <2>5 DEF AclsOrdered
<1>5. ASSUME TxSelect PROVE AclsType' /\ AclsOrdered'
  <2>1. UNCHANGED <<accepted, fates, credits, returned>> /\ AclHand = 0
    BY <1>5 DEF TxSelect, AclHand
  <2>2. CASE cmdq # << >>
    <3>1. aclq' = aclq /\ AclHand' = 0
      BY <1>5, <2>2 DEF TxSelect, AclHand
    <3> QED
      BY <1>1, <2>1, <3>1, AclsFrame DEF AclsType
  <2>3. CASE cmdq = << >>
    <3>1. aclq # << >> /\ aclq' = Tail(aclq) /\ cur' = Head(aclq) /\ AclHand' = 1
      BY <1>5, <2>3 DEF TxSelect, AclHand
    <3>2. Tail(aclq) \in Seq(Nat) /\ Len(Tail(aclq)) = Len(aclq) - 1 /\ Len(aclq) \in Nat
      BY <1>1, <3>1, HeadTailProperties, LenProperties DEF AclsType
    <3>3. Ordered(fates, 1, Head(aclq), Tail(aclq), accepted)
      BY <1>1, <2>1, <3>1, LaneTake DEF AclsType, AclsOrdered
    <3>4. AclsType'
      BY <1>1, <2>1, <3>1, <3>2, BridgeAssumption DEF AclsType
    <3> QED
      BY <2>1, <3>1, <3>3, <3>4 DEF AclsOrdered
  <2> QED
    BY <2>2, <2>3
<1>6. ASSUME WriteAcl PROVE AclsType' /\ AclsOrdered'
  <2>1. PICK fate \in {"written", "failed", "malformed"} :
          fates' = Append(fates, [n |-> cur, fate |-> fate])
    BY <1>6 DEF WriteAcl
  <2> QED
    BY <1>6, <2>1, AclsFinish DEF WriteAcl
<1>7. ASSUME DropPump PROVE AclsType' /\ AclsOrdered'
  <2>1. CASE tx = "write"
    BY <1>7, <2>1, AclsFinish DEF DropPump
  <2>2. CASE tx # "write"
    <3>1. UNCHANGED aclVars /\ AclHand = 0 /\ AclHand' = 0
      BY <1>7, <2>2 DEF DropPump, AclHand, aclVars
    <3> QED
      BY <1>2, <3>1
  <2> QED
    BY <2>1, <2>2
<1>8. ASSUME CompleteAcl PROVE AclsType' /\ AclsOrdered'
  <2>1. UNCHANGED <<aclq, accepted, fates, txVars>>
    BY <1>8 DEF CompleteAcl
  <2>2. AclsOrdered'
    BY <1>1, <2>1, AclsFrame DEF txVars, AclHand
  <2> QED
    BY <1>1, <1>8, <2>1, <2>2 DEF CompleteAcl, AclsType
<1>9. ASSUME LlDeinit PROVE AclsType' /\ AclsOrdered'
  <2> DEFINE e == [i \in 1..Len(aclq) |-> [n |-> aclq[i], fate |-> "drained"]]
  <2>1. /\ Len(aclq) \in Nat /\ e \in Seq(Fates) /\ Len(e) = Len(aclq)
        /\ \A i \in 1..Len(aclq) : e[i].n = aclq[i]
    <3>1. Len(aclq) \in Nat /\ \A i \in 1..Len(aclq) : aclq[i] \in Nat
      BY <1>1, LenProperties, ElementOfSeq DEF AclsType
    <3>2. e \in [1..Len(aclq) -> Fates]
      BY <3>1 DEF Fates
    <3> QED
      BY <3>1, <3>2
  <2>2. fates' = fates \o e /\ UNCHANGED <<accepted, cur, tx>> /\ aclq' = << >>
    BY <1>9 DEF LlDeinit, txVars
  <2> HIDE DEF e
  <2>3. fates \o e \in Seq(Fates)
    BY <1>1, <2>1, ConcatProperties DEF AclsType
  <2>4. AclHand = 0 /\ AclHand' = 0
    BY <1>9 DEF LlDeinit, AclHand, txVars
  <2>5. Ordered(fates \o e, 0, cur, << >>, accepted)
    BY <1>1, <2>1, <2>4, LaneDrain DEF AclsType, AclsOrdered
  <2>6. credits' \in Nat /\ returned' \in Nat
    BY <1>1, <1>9, WrittenType, BridgeAssumption DEF LlDeinit
  <2>7. AclsType'
    BY <1>1, <2>2, <2>3, <2>6, BridgeAssumption DEF AclsType
  <2> QED
    BY <2>2, <2>4, <2>5, <2>7 DEF AclsOrdered
<1>10. DispatchHere \/ Forward \/ Executed \/ StartPump
         => UNCHANGED aclVars /\ AclHand = 0 /\ AclHand' = 0
  BY DEF DispatchHere, Forward, Executed, StartPump, Answer, AclHand
<1>11. (\E k \in Classes : ToLlCmd(k)) \/ RxEvent \/ RxAcl \/ HandleHeld \/ TakeAck \/ AckTimeout
         \/ UNCHANGED vars => UNCHANGED <<aclVars, txVars>>
  BY DEF ToLlCmd, RxEvent, RxAcl, Arrives, HandleHeld, TakeAck, AckTimeout, vars
<1> QED
  BY <1>2, <1>3, <1>4, <1>5, <1>6, <1>7, <1>8, <1>9, <1>10, <1>11 DEF Next, TxStep

\* Every step keeps the rest of the state in its type.
LEMMA RestStep == IInv /\ [Next]_vars => RestType'
<1> SUFFICES ASSUME IInv, [Next]_vars PROVE RestType'
  OBVIOUS
<1>1. CmdsType /\ AclsType /\ RestType
  BY TypeParts DEF IInv
<1>2. budget.packets \in Nat /\ budget.timeouts \in Nat /\ budget.drops \in Nat
  BY <1>1, BridgeAssumption DEF RestType, Budget
<1>3. /\ tx' \in {"off", "select", "dispatch", "exec", "write"}
      /\ cur' \in Nat /\ waiting' \in Nat /\ ack' \in Nat
  <2>1. cmdq # << >> => Head(cmdq) \in Nat
    BY <1>1, HeadTailProperties DEF CmdsType
  <2>2. aclq # << >> => Head(aclq) \in Nat
    BY <1>1, HeadTailProperties DEF AclsType
  <2>3. \A k \in Classes : Len(Append(class, k)) \in Nat
    BY <1>1, AppendProperties, LenProperties DEF CmdsType
  <2>4. CASE \E k \in Classes : ToLlCmd(k)
    BY <1>1, <2>3, <2>4 DEF ToLlCmd, RestType, txVars
  <2>5. CASE TxSelect
    BY <1>1, <2>1, <2>2, <2>5 DEF TxSelect, RestType, hostVars
  <2>6. CASE DispatchHere \/ Executed
    <3>1. PICK kind, status : Answer(kind, status)
      BY <2>6 DEF DispatchHere, Executed
    <3> QED
      BY <1>1, <3>1 DEF Answer, RestType
  <2>7. CASE Forward \/ WriteAcl \/ StartPump \/ DropPump \/ LlDeinit
    BY <1>1, <2>7 DEF Forward, WriteAcl, StartPump, DropPump, LlDeinit, RestType, hostVars, txVars
  <2>8. CASE ToLlAcl \/ RxEvent \/ RxAcl \/ HandleHeld \/ TakeAck \/ AckTimeout \/ CompleteAcl
               \/ UNCHANGED vars
    BY <1>1, <2>8 DEF ToLlAcl, RxEvent, RxAcl, Arrives, HandleHeld, TakeAck, AckTimeout, CompleteAcl,
         RestType, hostVars, txVars, vars
  <2> QED
    BY <2>4, <2>5, <2>6, <2>7, <2>8 DEF Next, TxStep
<1>4. /\ budget' = budget
      /\ packets' = packets \/ (packets < budget.packets /\ packets' = packets + 1)
      /\ timeouts' = timeouts \/ (timeouts < budget.timeouts /\ timeouts' = timeouts + 1)
      /\ drops' = drops \/ (drops < budget.drops /\ drops' = drops + 1)
  BY DEF Next, TxStep, ToLlCmd, ToLlAcl, TxSelect, DispatchHere, Forward, Executed, Answer, WriteAcl,
         RxEvent, RxAcl, Arrives, HandleHeld, TakeAck, AckTimeout, CompleteAcl, StartPump, DropPump,
         LlDeinit, restartVars, boundVars, vars
<1>5. past' = past \/ past' = [cmds |-> Len(class), acls |-> accepted]
  BY DEF Next, TxStep, ToLlCmd, ToLlAcl, TxSelect, DispatchHere, Forward, Executed, Answer, WriteAcl,
         RxEvent, RxAcl, Arrives, HandleHeld, TakeAck, AckTimeout, CompleteAcl, StartPump, DropPump,
         LlDeinit, restartVars, boundVars, vars
<1>6. past' \in [cmds : Nat, acls : Nat]
  BY <1>1, <1>5, LenProperties DEF CmdsType, AclsType, RestType
<1> QED
  BY <1>1, <1>2, <1>3, <1>4, <1>6 DEF RestType

\* No step brings back what an earlier session accepted; the end of a session
\* leaves nothing queued or in hand.
LEMMA SessionStep == IInv /\ [Next]_vars => SessionOK'
<1> SUFFICES ASSUME IInv, [Next]_vars PROVE SessionOK'
  OBVIOUS
<1>1. /\ past.cmds \in Nat /\ past.acls \in Nat /\ accepted \in Nat
      /\ Len(cmdq) \in Nat /\ Len(aclq) \in Nat /\ Len(class) \in Nat
      /\ CmdHand \in {0, 1} /\ AclHand \in {0, 1} /\ SessionOK
  BY TypeParts, LenProperties DEF IInv, CmdsType, AclsType, RestType, CmdHand, AclHand
<1>2. ASSUME NEW k \in Classes, ToLlCmd(k) PROVE SessionOK'
  <2>1. Len(class') = Len(class) + 1 /\ Len(cmdq') = Len(cmdq) + 1
    <3>1. Len(class') = Len(class) + 1 /\ Len(class') \in Nat
      BY <1>1, <1>2, TypeParts, AppendProperties DEF ToLlCmd, IInv, CmdsType
    <3> QED
      BY <1>2, <3>1, TypeParts, AppendProperties DEF ToLlCmd, IInv, CmdsType
  <2>2. UNCHANGED <<past, tx, aclq, accepted>>
    BY <1>2 DEF ToLlCmd, aclVars, txVars, boundVars, restartVars
  <2> QED
    BY <1>1, <2>1, <2>2 DEF SessionOK, CmdHand, AclHand
<1>3. ASSUME ToLlAcl PROVE SessionOK'
  <2>1. accepted' = accepted + 1 /\ Len(aclq') = Len(aclq) + 1
    BY <1>1, <1>3, TypeParts, AppendProperties DEF ToLlAcl, IInv, AclsType
  <2>2. UNCHANGED <<past, tx, cmdq, class>>
    BY <1>3 DEF ToLlAcl, cmdVars, txVars, boundVars, restartVars
  <2> QED
    BY <1>1, <2>1, <2>2 DEF SessionOK, CmdHand, AclHand
<1>4. ASSUME TxSelect PROVE SessionOK'
  <2>1. UNCHANGED <<past, class, accepted>> /\ CmdHand = 0 /\ AclHand = 0
    BY <1>4 DEF TxSelect, CmdHand, AclHand, boundVars, restartVars
  <2>2. CASE cmdq # << >>
    <3>1. Len(cmdq') = Len(cmdq) - 1 /\ aclq' = aclq /\ CmdHand' = 1 /\ AclHand' = 0
      BY <1>4, <2>2, TypeParts, HeadTailProperties DEF TxSelect, IInv, CmdsType, CmdHand, AclHand
    <3> QED
      BY <1>1, <2>1, <3>1 DEF SessionOK
  <2>3. CASE cmdq = << >>
    <3>1. Len(aclq') = Len(aclq) - 1 /\ cmdq' = cmdq /\ CmdHand' = 0 /\ AclHand' = 1
      BY <1>4, <2>3, TypeParts, HeadTailProperties DEF TxSelect, IInv, AclsType, CmdHand, AclHand
    <3> QED
      BY <1>1, <2>1, <3>1 DEF SessionOK
  <2> QED
    BY <2>2, <2>3
<1>5. ASSUME DispatchHere \/ Forward \/ Executed \/ WriteAcl \/ StartPump \/ DropPump
      PROVE  SessionOK'
  <2>1. UNCHANGED <<past, cmdq, class, aclq, accepted>>
    BY <1>5 DEF DispatchHere, Forward, Executed, Answer, WriteAcl, StartPump, DropPump,
         cmdVars, aclVars, boundVars, restartVars
  <2>2. CmdHand' \in {0, CmdHand} /\ AclHand' \in {0, AclHand}
    BY <1>5 DEF DispatchHere, Forward, Executed, Answer, WriteAcl, StartPump, DropPump,
         CmdHand, AclHand
  <2> QED
    BY <1>1, <2>1, <2>2 DEF SessionOK
<1>6. ASSUME LlDeinit PROVE SessionOK'
  <2>1. /\ past'.cmds = Len(class) /\ past'.acls = accepted /\ UNCHANGED <<class, accepted>>
        /\ cmdq' = << >> /\ aclq' = << >> /\ CmdHand' = 0 /\ AclHand' = 0
    BY <1>6 DEF LlDeinit, txVars, CmdHand, AclHand
  <2>2. Len(cmdq') = 0 /\ Len(aclq') = 0
    BY <2>1
  <2> QED
    BY <1>1, <2>1, <2>2 DEF SessionOK
<1>7. ASSUME RxEvent \/ RxAcl \/ HandleHeld \/ TakeAck \/ AckTimeout \/ CompleteAcl \/ UNCHANGED vars
      PROVE  SessionOK'
  <2>1. UNCHANGED <<past, cmdq, class, aclq, accepted, tx>>
    BY <1>7 DEF RxEvent, RxAcl, Arrives, HandleHeld, TakeAck, AckTimeout, CompleteAcl, vars,
         cmdVars, aclVars, txVars, boundVars, restartVars
  <2> QED
    BY <1>1, <2>1 DEF SessionOK, CmdHand, AclHand
<1> QED
  BY <1>2, <1>3, <1>4, <1>5, <1>6, <1>7 DEF Next, TxStep

\* How the commands answered, in hand and executed are numbered.
LEMMA Numbering ==
  ASSUME IInv
  PROVE  /\ Len(answers) \in Nat /\ Len(class) \in Nat /\ Len(executed) \in Nat
         /\ DOMAIN answers = 1..Len(answers) /\ DOMAIN executed = 1..Len(executed)
         /\ Len(answers) <= Len(class)
         /\ \A i \in 1..Len(answers) : answers[i].n = i
         /\ tx \in {"dispatch", "exec"} => cur = Len(answers) + 1 /\ cur <= Len(class)
<1>1. CmdsType
  BY TypeParts DEF IInv
<1>2. /\ Len(answers) \in Nat /\ Len(class) \in Nat /\ Len(executed) \in Nat /\ Len(cmdq) \in Nat
      /\ DOMAIN answers = 1..Len(answers) /\ DOMAIN executed = 1..Len(executed)
  BY <1>1, LenProperties DEF CmdsType
<1> QED
  BY <1>2 DEF IInv, CmdsOrdered, Ordered, CmdHand

\* Truth, one answer at a time.
TrueAnswer(a, ex, cl) ==
  /\ a.status = "ok" => Contains(ex, a.n) \/ cl[a.n] = "local"
  /\ a.status \in {"unknown", "invalid"} => ~Contains(ex, a.n)

Increasing(s) == \A i, j \in DOMAIN s : i < j => s[i] < s[j]

\* AcksTruthful is truth of every answer and an increasing execution order.
LEMMA TruthParts ==
  AcksTruthful <=> Increasing(executed) /\ \A i \in DOMAIN answers : TrueAnswer(answers[i], executed, class)
BY DEF AcksTruthful, Increasing, TrueAnswer

\* An ack that tells the truth about the command in hand, or none, may join
\* the answers.
LEMMA TruthFinish ==
  ASSUME IInv, tx \in {"dispatch", "exec"}, tx' \in {"off", "select"},
         NEW kind, NEW status,
         answers' = Append(answers, [n |-> cur, kind |-> kind, status |-> status]),
         UNCHANGED <<class, executed>>,
         TrueAnswer([n |-> cur, kind |-> kind, status |-> status], executed, class),
         kind \in {"complete", "status", "none"},
         status \in {"ok", "hci", "hw", "unknown", "invalid", "none"}
  PROVE  ExecutedOK' /\ AcksTruthful'
<1> DEFINE r == [n |-> cur, kind |-> kind, status |-> status]
<1>1. CmdsType /\ RestType
  BY TypeParts DEF IInv
<1>2. r \in Answers
  BY <1>1 DEF Answers, RestType
<1> HIDE DEF r
<1>3. /\ Len(answers') = Len(answers) + 1 /\ DOMAIN answers' = 1..(Len(answers) + 1)
      /\ \A i \in 1..Len(answers) : answers'[i] = answers[i]
      /\ answers'[Len(answers) + 1] = r
  <2>1. answers' = Append(answers, r)
    BY DEF r
  <2> QED
    BY <1>1, <1>2, <2>1, AppendProperties DEF CmdsType
<1>4. ExecutedOK'
  BY <1>3, Numbering DEF IInv, ExecutedOK
<1>5. \A i \in DOMAIN answers' : TrueAnswer(answers'[i], executed, class)
  <2>1. TrueAnswer(r, executed, class)
    BY DEF r
  <2>2. \A i \in 1..Len(answers) : TrueAnswer(answers[i], executed, class)
    BY Numbering, TruthParts DEF IInv
  <2>3. \A i \in 1..(Len(answers) + 1) : i \in 1..Len(answers) \/ i = Len(answers) + 1
    BY Numbering
  <2> QED
    BY <1>3, <2>1, <2>2, <2>3
<1> QED
  BY <1>4, <1>5, TruthParts DEF IInv, AcksTruthful, TrueAnswer

\* Every step keeps the acks truthful.
LEMMA TruthStep == IInv /\ [Next]_vars => ExecutedOK' /\ AcksTruthful'
<1> SUFFICES ASSUME IInv, [Next]_vars PROVE ExecutedOK' /\ AcksTruthful'
  OBVIOUS
<1>1. CmdsType /\ RestType /\ ExecutedOK /\ AcksTruthful
  BY TypeParts DEF IInv
<1>2. CASE /\ UNCHANGED <<answers, executed, class>>
           /\ (tx = "exec") = (tx' = "exec") /\ (tx = "exec" => cur' = cur)
  BY <1>1, <1>2 DEF ExecutedOK, AcksTruthful
<1>3. ASSUME NEW k \in Classes, ToLlCmd(k) PROVE ExecutedOK' /\ AcksTruthful'
  <2>1. UNCHANGED <<answers, executed, tx, cur>> /\ class' = Append(class, k)
    BY <1>3 DEF ToLlCmd, txVars
  <2>2. \A i \in DOMAIN answers : answers[i].n = i /\ i \in 1..Len(class)
    BY Numbering
  <2>3. \A i \in 1..Len(class) : class'[i] = class[i]
    BY <1>1, <2>1, AppendProperties DEF CmdsType
  <2>4. \A i \in DOMAIN answers : class'[answers[i].n] = class[answers[i].n]
    BY <2>2, <2>3
  <2> QED
    BY <1>1, <2>1, <2>4 DEF ExecutedOK, AcksTruthful
<1>4. ASSUME DispatchHere PROVE ExecutedOK' /\ AcksTruthful'
  <2>1. \A k : AckKind(k) \in {"complete", "status", "none"}
    BY DEF AckKind
  <2>2. PICK kind \in {"complete", "status", "none"}, status \in {"ok", "unknown", "invalid"} :
          Answer(kind, status) /\ (status = "ok" => class[cur] = "local")
    BY <1>4, <2>1 DEF DispatchHere
  <2>3. ~Contains(executed, cur)
    BY <1>1, <1>4, Numbering DEF DispatchHere, ExecutedOK, Contains
  <2>4. TrueAnswer([n |-> cur, kind |-> kind, status |-> status], executed, class)
    BY <2>2, <2>3 DEF TrueAnswer
  <2> QED
    BY <1>4, <2>2, <2>4, TruthFinish DEF DispatchHere, Answer
<1>5. ASSUME Forward PROVE ExecutedOK' /\ AcksTruthful'
  <2>1. executed' = Append(executed, cur) /\ tx' = "exec" /\ tx = "dispatch"
        /\ UNCHANGED <<answers, class, cur>>
    BY <1>5 DEF Forward
  <2>2. /\ Len(executed') = Len(executed) + 1 /\ DOMAIN executed' = 1..(Len(executed) + 1)
        /\ \A i \in 1..Len(executed) : executed'[i] = executed[i]
        /\ executed'[Len(executed) + 1] = cur
    BY <1>1, <2>1, AppendProperties DEF CmdsType, RestType
  <2>3. /\ Len(answers) \in Nat /\ Len(executed) \in Nat /\ cur = Len(answers) + 1
        /\ DOMAIN executed = 1..Len(executed) /\ DOMAIN answers = 1..Len(answers)
        /\ \A i \in 1..Len(answers) : answers[i].n = i
    BY <2>1, Numbering
  <2>4. \A i \in 1..Len(executed) : executed[i] \in 1..Len(answers)
    BY <1>1, <2>1, <2>3 DEF ExecutedOK
  <2>5. ExecutedOK'
    <3>1. ASSUME NEW i \in 1..(Len(executed) + 1) PROVE executed'[i] \in 1..(Len(answers) + 1)
      <4>1. i \in 1..Len(executed) \/ i = Len(executed) + 1
        BY <2>3
      <4> QED
        BY <2>2, <2>3, <2>4, <4>1
    <3>2. Len(executed) + 1 \in 1..(Len(executed) + 1)
      BY <2>3
    <3> QED
      BY <2>1, <2>2, <3>1, <3>2 DEF ExecutedOK
  <2>6. Increasing(executed')
    <3>1. ASSUME NEW i \in 1..(Len(executed) + 1), NEW j \in 1..(Len(executed) + 1), i < j
          PROVE  executed'[i] < executed'[j]
      <4>1. i \in 1..Len(executed) /\ (j \in 1..Len(executed) \/ j = Len(executed) + 1)
        BY <2>3, <3>1
      <4>2. CASE j \in 1..Len(executed)
        BY <1>1, <2>2, <2>3, <3>1, <4>1, <4>2 DEF AcksTruthful
      <4>3. CASE j = Len(executed) + 1
        BY <2>2, <2>3, <2>4, <4>1, <4>3
      <4> QED
        BY <4>1, <4>2, <4>3
    <3> QED
      BY <2>2, <3>1 DEF Increasing
  <2>7. ASSUME NEW i \in 1..Len(answers) PROVE TrueAnswer(answers[i], executed', class)
    <3>1. answers[i].n # cur
      BY <2>3
    <3>2. Contains(executed', answers[i].n) <=> Contains(executed, answers[i].n)
      <4>1. \A j \in 1..(Len(executed) + 1) : j \in 1..Len(executed) \/ j = Len(executed) + 1
        BY <2>3
      <4>2. \A j \in 1..Len(executed) : j \in 1..(Len(executed) + 1)
        BY <2>3
      <4> QED
        BY <2>2, <3>1, <4>1, <4>2 DEF Contains
    <3>3. TrueAnswer(answers[i], executed, class)
      BY <1>1, <2>3, TruthParts
    <3> QED
      BY <3>2, <3>3 DEF TrueAnswer
  <2> QED
    BY <2>1, <2>3, <2>5, <2>6, <2>7 DEF AcksTruthful, Increasing, TrueAnswer
<1>6. ASSUME Executed PROVE ExecutedOK' /\ AcksTruthful'
  <2>1. \A k : AckKind(k) \in {"complete", "status", "none"}
    BY DEF AckKind
  <2>2. PICK kind \in {"complete", "status", "none"}, status \in {"ok", "hci", "hw"} :
          Answer(kind, status)
    BY <1>6, <2>1 DEF Executed
  <2>3. Contains(executed, cur)
    BY <1>1, <1>6 DEF Executed, ExecutedOK, Contains
  <2>4. TrueAnswer([n |-> cur, kind |-> kind, status |-> status], executed, class)
    BY <2>2, <2>3 DEF TrueAnswer
  <2> QED
    BY <1>6, <2>2, <2>4, TruthFinish DEF Executed, Answer
<1>7. ASSUME DropPump PROVE ExecutedOK' /\ AcksTruthful'
  <2>1. CASE tx \in {"dispatch", "exec"}
    <3>1. TrueAnswer([n |-> cur, kind |-> "none", status |-> "none"], executed, class)
      BY DEF TrueAnswer
    <3> QED
      BY <1>7, <2>1, <3>1, TruthFinish DEF DropPump, Unanswered
  <2>2. CASE tx \notin {"dispatch", "exec"}
    BY <1>2, <1>7, <2>2 DEF DropPump
  <2> QED
    BY <2>1, <2>2
<1>8. ASSUME LlDeinit PROVE ExecutedOK' /\ AcksTruthful'
  <2> DEFINE e == [i \in 1..Len(cmdq) |-> Unanswered(cmdq[i])]
  <2>1. /\ Len(cmdq) \in Nat /\ e \in Seq(Answers) /\ Len(e) = Len(cmdq)
        /\ \A i \in 1..Len(cmdq) : e[i].status = "none"
    <3>1. Len(cmdq) \in Nat /\ \A i \in 1..Len(cmdq) : cmdq[i] \in Nat
      BY <1>1, LenProperties, ElementOfSeq DEF CmdsType
    <3>2. \A i \in 1..Len(cmdq) : Unanswered(cmdq[i]) \in Answers /\ Unanswered(cmdq[i]).status = "none"
      BY <3>1 DEF Unanswered, Answers
    <3>3. e \in [1..Len(cmdq) -> Answers]
      BY <3>2
    <3> QED
      BY <3>1, <3>2, <3>3
  <2>2. answers' = answers \o e /\ UNCHANGED <<class, executed, cur, tx>> /\ tx = "off"
    BY <1>8 DEF LlDeinit, txVars
  <2> HIDE DEF e
  <2>3. Len(answers) \in Nat /\ Len(executed) \in Nat /\ DOMAIN answers = 1..Len(answers)
    BY Numbering
  <2>4. /\ answers' \in Seq(Answers)
        /\ Len(answers') = Len(answers) + Len(cmdq)
        /\ \A i \in 1..(Len(answers) + Len(cmdq)) :
             answers'[i] = IF i <= Len(answers) THEN answers[i] ELSE e[i - Len(answers)]
    <3>1. /\ answers \o e \in Seq(Answers)
          /\ Len(answers \o e) = Len(answers) + Len(e)
          /\ \A i \in 1..(Len(answers) + Len(e)) :
               (answers \o e)[i] = IF i <= Len(answers) THEN answers[i] ELSE e[i - Len(answers)]
      BY <1>1, <2>1, ConcatProperties, ZenonT(40) DEF CmdsType
    <3> QED
      BY <2>1, <2>2, <3>1
  <2>5. DOMAIN answers' = 1..(Len(answers) + Len(cmdq))
    BY <2>4, LenProperties
  <2>6. ExecutedOK'
    BY <1>1, <2>1, <2>2, <2>3, <2>4 DEF ExecutedOK
  <2>7. ASSUME NEW i \in 1..(Len(answers) + Len(cmdq)) PROVE TrueAnswer(answers'[i], executed, class)
    <3>1. CASE i <= Len(answers)
      <4>1. i \in 1..Len(answers) /\ answers'[i] = answers[i]
        BY <2>1, <2>3, <2>4, <3>1
      <4> QED
        BY <1>1, <2>3, <4>1, TruthParts
    <3>2. CASE ~(i <= Len(answers))
      <4>1. i - Len(answers) \in 1..Len(cmdq) /\ answers'[i] = e[i - Len(answers)]
        BY <2>1, <2>3, <2>4, <3>2
      <4> QED
        BY <2>1, <4>1 DEF TrueAnswer
    <3> QED
      BY <3>1, <3>2
  <2> QED
    BY <1>1, <2>2, <2>5, <2>6, <2>7 DEF AcksTruthful, TrueAnswer
<1>9. TxSelect \/ WriteAcl \/ StartPump
        => /\ UNCHANGED <<answers, executed, class>>
           /\ (tx = "exec") = (tx' = "exec") /\ (tx = "exec" => cur' = cur)
  BY DEF TxSelect, WriteAcl, StartPump, cmdVars
<1>10. ToLlAcl \/ RxEvent \/ RxAcl \/ HandleHeld \/ TakeAck \/ AckTimeout \/ CompleteAcl \/ UNCHANGED vars
        => /\ UNCHANGED <<answers, executed, class>>
           /\ (tx = "exec") = (tx' = "exec") /\ (tx = "exec" => cur' = cur)
  BY DEF ToLlAcl, RxEvent, RxAcl, Arrives, HandleHeld, TakeAck, AckTimeout, CompleteAcl, vars, cmdVars,
         txVars
<1> QED
  BY <1>2, <1>3, <1>4, <1>5, <1>6, <1>7, <1>8, <1>9, <1>10 DEF Next, TxStep

\* The buffers of a kind that the host holds are finitely many.
LEMMA HeldType == PoolsType => \A k : HeldOf(k) \in Nat
BY CountType DEF PoolsType, HeldOf, Where

\* A packet comes: one buffer of its kind more is held.
LEMMA HeldAppend ==
  ASSUME PoolsType, NEW x \in {"evt", "lo", "acl"}, held' = Append(held, x)
  PROVE  /\ held' \in Seq({"evt", "lo", "acl"})
         /\ \A k : HeldOf(k)' = HeldOf(k) + IF x = k THEN 1 ELSE 0
<1>1. held' \in Seq({"evt", "lo", "acl"})
  BY AppendProperties DEF PoolsType
<1>2. ASSUME NEW k PROVE HeldOf(k)' = HeldOf(k) + IF x = k THEN 1 ELSE 0
  <2>1. Cardinality(Where(Append(held, x), k)) = Cardinality(Where(held, k)) + IF x = k THEN 1 ELSE 0
    BY CountAppend DEF PoolsType
  <2> QED
    BY <2>1 DEF HeldOf, Where
<1> QED
  BY <1>1, <1>2

\* A packet is handled: one buffer of its kind less is held.
LEMMA HeldTail ==
  ASSUME PoolsType, held # << >>, held' = Tail(held)
  PROVE  /\ held' \in Seq({"evt", "lo", "acl"}) /\ Head(held) \in {"evt", "lo", "acl"}
         /\ \A k : HeldOf(k) = HeldOf(k)' + IF Head(held) = k THEN 1 ELSE 0
<1>1. held' \in Seq({"evt", "lo", "acl"}) /\ Head(held) \in {"evt", "lo", "acl"}
  BY HeadTailProperties DEF PoolsType
<1>2. ASSUME NEW k PROVE HeldOf(k) = HeldOf(k)' + IF Head(held) = k THEN 1 ELSE 0
  <2>1. Cardinality(Where(held, k)) =
          Cardinality(Where(Tail(held), k)) + IF Head(held) = k THEN 1 ELSE 0
    BY CountTail DEF PoolsType
  <2> QED
    BY <2>1 DEF HeldOf, Where
<1> QED
  BY <1>1, <1>2

\* What is conserved bounds the pools.
LEMMA PoolsBounded ==
  ASSUME held' \in Seq({"evt", "lo", "acl"}), evt' \in Nat, lo' \in Nat, acl' \in Nat,
         BuffersConserved'
  PROVE  PoolsType'
<1>1. \A k : HeldOf(k)' \in Nat
  BY CountType DEF HeldOf, Where
<1>2. evt' <= EvtCount /\ lo' <= EvtLoCount /\ acl' <= AclCount
  BY <1>1, BridgeAssumption DEF BuffersConserved
<1> QED
  BY <1>2, BridgeAssumption DEF PoolsType

\* Every step conserves the buffers.
LEMMA PoolsStep == IInv /\ [Next]_vars => PoolsType' /\ BuffersConserved'
<1> SUFFICES ASSUME IInv, [Next]_vars PROVE PoolsType' /\ BuffersConserved'
  OBVIOUS
<1>1. PoolsType /\ RestType /\ BuffersConserved
  BY TypeParts DEF IInv
<1>2. /\ held \in Seq({"evt", "lo", "acl"})
      /\ evt \in Nat /\ lo \in Nat /\ acl \in Nat /\ EvtCount \in Nat /\ EvtLoCount \in Nat /\ AclCount \in Nat
      /\ HeldOf("evt") \in Nat /\ HeldOf("lo") \in Nat /\ HeldOf("acl") \in Nat
  BY <1>1, HeldType, BridgeAssumption DEF PoolsType
<1>3. UNCHANGED held => \A k : HeldOf(k)' = HeldOf(k)
  BY DEF HeldOf
<1>4. CASE UNCHANGED <<ack, held, poolVars>>
  BY <1>1, <1>3, <1>4 DEF poolVars, PoolsType, BuffersConserved
<1>5. ASSUME NEW kind, NEW status, Answer(kind, status), tx \in {"dispatch", "exec"}
      PROVE  PoolsType' /\ BuffersConserved'
  <2>1. cur \in Nat \ {0}
    BY <1>1, <1>5, Numbering DEF RestType
  <2>2. CASE evt > 0 /\ ack = 0
    <3>1. ack' = cur /\ evt' = evt - 1 /\ UNCHANGED <<held, lo, acl>>
      BY <1>5, <2>2 DEF Answer
    <3>2. BuffersConserved'
      BY <1>1, <1>2, <1>3, <2>1, <2>2, <3>1 DEF BuffersConserved
    <3> QED
      BY <1>2, <2>2, <3>1, <3>2, PoolsBounded
  <2>3. CASE ~(evt > 0 /\ ack = 0)
    BY <1>4, <1>5, <2>3 DEF Answer, poolVars
  <2> QED
    BY <2>2, <2>3
<1>6. ASSUME NEW x \in {"evt", "lo", "acl"}, held' = Append(held, x), ack' = ack,
             evt' = (IF x = "evt" THEN evt - 1 ELSE evt), x = "evt" => evt > 0,
             lo' = (IF x = "lo" THEN lo - 1 ELSE lo), x = "lo" => lo > 0,
             acl' = (IF x = "acl" THEN acl - 1 ELSE acl), x = "acl" => acl > 0
      PROVE  PoolsType' /\ BuffersConserved'
  <2>1. /\ held' \in Seq({"evt", "lo", "acl"})
        /\ HeldOf("evt")' = HeldOf("evt") + IF x = "evt" THEN 1 ELSE 0
        /\ HeldOf("lo")' = HeldOf("lo") + IF x = "lo" THEN 1 ELSE 0
        /\ HeldOf("acl")' = HeldOf("acl") + IF x = "acl" THEN 1 ELSE 0
    BY <1>1, <1>6, HeldAppend
  <2>2. evt' \in Nat /\ lo' \in Nat /\ acl' \in Nat
    BY <1>2, <1>6
  <2>3. BuffersConserved'
    <3>1. CASE x = "evt"
      BY <1>1, <1>2, <1>6, <2>1, <3>1, SMTT(30) DEF BuffersConserved
    <3>2. CASE x = "lo"
      BY <1>1, <1>2, <1>6, <2>1, <3>2 DEF BuffersConserved
    <3>3. CASE x = "acl"
      BY <1>1, <1>2, <1>6, <2>1, <3>3 DEF BuffersConserved
    <3> QED
      BY <1>6, <3>1, <3>2, <3>3
  <2> QED
    BY <2>1, <2>2, <2>3, PoolsBounded
<1>7. ASSUME RxEvent PROVE PoolsType' /\ BuffersConserved'
  <2>1. ack' = ack
    BY <1>7 DEF RxEvent, Arrives
  <2>2. CASE UNCHANGED <<held, evt, lo, acl>>
    BY <1>4, <2>1, <2>2 DEF poolVars
  <2>3. CASE evt > 0 /\ evt' = evt - 1 /\ held' = Append(held, "evt") /\ UNCHANGED <<lo, acl>>
    BY <1>6, <2>1, <2>3
  <2>4. CASE lo > 0 /\ lo' = lo - 1 /\ held' = Append(held, "lo") /\ UNCHANGED <<evt, acl>>
    BY <1>6, <2>1, <2>4
  <2> QED
    BY <1>7, <2>2, <2>3, <2>4 DEF RxEvent
<1>8. ASSUME RxAcl PROVE PoolsType' /\ BuffersConserved'
  <2>1. ack' = ack
    BY <1>8 DEF RxAcl, Arrives
  <2>2. CASE UNCHANGED <<held, evt, lo, acl>>
    BY <1>4, <2>1, <2>2 DEF poolVars
  <2>3. CASE acl > 0 /\ acl' = acl - 1 /\ held' = Append(held, "acl") /\ UNCHANGED <<evt, lo>>
    BY <1>6, <2>1, <2>3
  <2> QED
    BY <1>8, <2>2, <2>3 DEF RxAcl
<1>9. ASSUME HandleHeld PROVE PoolsType' /\ BuffersConserved'
  <2>1. /\ held' \in Seq({"evt", "lo", "acl"})
        /\ HeldOf("evt") = HeldOf("evt")' + IF Head(held) = "evt" THEN 1 ELSE 0
        /\ HeldOf("lo") = HeldOf("lo")' + IF Head(held) = "lo" THEN 1 ELSE 0
        /\ HeldOf("acl") = HeldOf("acl")' + IF Head(held) = "acl" THEN 1 ELSE 0
    BY <1>1, <1>9, HeldTail DEF HandleHeld
  <2>2. evt' \in Nat /\ lo' \in Nat /\ acl' \in Nat
    BY <1>2, <1>9 DEF HandleHeld
  <2>3. \A k : HeldOf(k)' \in Nat
    <3>1. held' \in Seq({"evt", "lo", "acl"})
      BY <2>1
    <3> QED
      BY <3>1, CountType DEF HeldOf, Where
  <2>4. /\ evt' + HeldOf("evt")' = evt + HeldOf("evt")
        /\ lo' + HeldOf("lo")' = lo + HeldOf("lo")
        /\ acl' + HeldOf("acl")' = acl + HeldOf("acl")
    <3>1. /\ HeldOf("evt")' \in Nat /\ HeldOf("lo")' \in Nat /\ HeldOf("acl")' \in Nat
          /\ Head(held) \in {"evt", "lo", "acl"}
      BY <1>1, <1>9, <2>3, HeldTail DEF HandleHeld
    <3>2. CASE Head(held) = "evt"
      <4>1. HeldOf("evt") = HeldOf("evt")' + 1 /\ HeldOf("lo") = HeldOf("lo")' + 0
            /\ HeldOf("acl") = HeldOf("acl")' + 0
        BY <2>1, <3>2
      <4>2. evt' = evt + 1 /\ lo' = lo /\ acl' = acl
        BY <1>9, <3>2 DEF HandleHeld
      <4> QED
        BY <1>2, <3>1, <4>1, <4>2
    <3>3. CASE Head(held) = "lo"
      <4>1. HeldOf("evt") = HeldOf("evt")' + 0 /\ HeldOf("lo") = HeldOf("lo")' + 1
            /\ HeldOf("acl") = HeldOf("acl")' + 0
        BY <2>1, <3>3
      <4>2. evt' = evt /\ lo' = lo + 1 /\ acl' = acl
        BY <1>9, <3>3 DEF HandleHeld
      <4> QED
        BY <1>2, <3>1, <4>1, <4>2
    <3>4. CASE Head(held) = "acl"
      <4>1. HeldOf("evt") = HeldOf("evt")' + 0 /\ HeldOf("lo") = HeldOf("lo")' + 0
            /\ HeldOf("acl") = HeldOf("acl")' + 1
        BY <2>1, <3>4
      <4>2. evt' = evt /\ lo' = lo /\ acl' = acl + 1
        BY <1>9, <3>4 DEF HandleHeld
      <4> QED
        BY <1>2, <3>1, <4>1, <4>2
    <3> QED
      BY <3>1, <3>2, <3>3, <3>4
  <2>5. BuffersConserved'
    <3>1. ack' = ack
      BY <1>9 DEF HandleHeld
    <3>2. CASE ack = 0
      BY <1>1, <1>2, <2>2, <2>3, <2>4, <3>1, <3>2 DEF BuffersConserved
    <3>3. CASE ack # 0
      BY <1>1, <1>2, <2>2, <2>3, <2>4, <3>1, <3>3 DEF BuffersConserved
    <3> QED
      BY <3>2, <3>3
  <2> QED
    BY <2>1, <2>2, <2>5, PoolsBounded
<1>10. ASSUME TakeAck PROVE PoolsType' /\ BuffersConserved'
  <2>1. BuffersConserved'
    BY <1>1, <1>2, <1>3, <1>10 DEF BuffersConserved, TakeAck
  <2>2. held' = held /\ evt' \in Nat /\ lo' \in Nat /\ acl' \in Nat
    BY <1>2, <1>10 DEF TakeAck
  <2> QED
    BY <1>2, <2>1, <2>2, PoolsBounded
<1>11. ASSUME LlDeinit PROVE PoolsType' /\ BuffersConserved'
  <2>1. held' = << >> /\ ack' = 0 /\ evt' = EvtCount /\ lo' = EvtLoCount /\ acl' = AclCount
    BY <1>11 DEF LlDeinit
  <2>2. \A k : HeldOf(k)' = 0
    BY <2>1, CountEmpty DEF HeldOf, Where
  <2>3. BuffersConserved'
    BY <1>2, <2>1, <2>2 DEF BuffersConserved
  <2> QED
    BY <1>2, <2>1, <2>3 DEF PoolsType
<1>12. (\E k \in Classes : ToLlCmd(k)) \/ ToLlAcl \/ TxSelect \/ Forward \/ WriteAcl \/ AckTimeout
         \/ CompleteAcl \/ StartPump \/ DropPump \/ UNCHANGED vars => UNCHANGED <<ack, held, poolVars>>
  BY DEF ToLlCmd, ToLlAcl, TxSelect, Forward, WriteAcl, AckTimeout, CompleteAcl, StartPump, DropPump,
         vars, hostVars
<1>13. DispatchHere \/ Executed => PoolsType' /\ BuffersConserved'
  BY <1>5 DEF DispatchHere, Executed
<1> QED
  BY <1>4, <1>7, <1>8, <1>9, <1>10, <1>11, <1>12, <1>13 DEF Next, TxStep

-----------------------------------------------------------------------------
(* The theorems.                                                           *)

(***************************************************************************)
(* The inductive invariant holds in every reachable state of the bridge.   *)
(***************************************************************************)
THEOREM Inductive == Spec => []IInv
<1>1. IInv /\ [Next]_vars => IInv'
  <2> SUFFICES ASSUME IInv, [Next]_vars PROVE IInv'
    OBVIOUS
  <2>1. CmdsType' /\ CmdsOrdered' /\ AclsType' /\ AclsOrdered' /\ SessionOK' /\ RestType'
    BY CmdsStep, AclsStep, SessionStep, RestStep
  <2>2. ExecutedOK' /\ AcksTruthful' /\ PoolsType' /\ BuffersConserved'
    BY TruthStep, PoolsStep
  <2>3. TypeOK'
    BY <2>1, <2>2 DEF TypeOK, CmdsType, AclsType, PoolsType, RestType
  <2> QED
    BY <2>1, <2>2, <2>3 DEF IInv
<1> QED
  BY InitOK, <1>1, PTL DEF Spec

(***************************************************************************)
(* Every variable keeps its type: the queues stay within CMD_QUEUE_DEPTH   *)
(* and ACL_QUEUE_DEPTH (hci.rs:694-741), and no pool ever has more free    *)
(* buffers than it was made with.                                          *)
(***************************************************************************)
THEOREM TypeCorrect == Spec => []TypeOK
<1>1. IInv => TypeOK
  BY DEF IInv
<1> QED
  BY Inductive, <1>1, PTL

(***************************************************************************)
(* Answers, the command in hand and CMD_QUEUE are the commands accepted,   *)
(* each once and in order (hci.rs:694-713, 829-854), whenever the pump is  *)
(* dropped, started again or the driver is torn down; and no driver        *)
(* executes or answers a command that an earlier one left in CMD_QUEUE     *)
(* (hci.rs:687-690).                                                       *)
(***************************************************************************)
THEOREM CommandOrder == Spec => []CommandsInOrder
<1>1. IInv => CommandsInOrder
  <2> SUFFICES ASSUME IInv PROVE CommandsInOrder
    OBVIOUS
  <2>1. CmdsType /\ Len(class) \in Nat
    BY TypeParts, Numbering DEF IInv
  <2> DEFINE b == InHand({"dispatch", "exec"})
  <2>2. AtMost(b, cur) /\ Len(b) = CmdHand
    <3>1. CASE tx \in {"dispatch", "exec"}
      <4>1. b = <<cur>> /\ CmdHand = 1
        BY <3>1 DEF InHand, CmdHand
      <4> HIDE DEF b
      <4> QED
        BY <4>1 DEF AtMost
    <3>2. CASE tx \notin {"dispatch", "exec"}
      <4>1. b = << >> /\ CmdHand = 0
        BY <3>2 DEF InHand, CmdHand
      <4> HIDE DEF b
      <4> QED
        BY <4>1 DEF AtMost
    <3> QED
      BY <3>1, <3>2
  <2> HIDE DEF b
  <2>3. Ordered(answers, Len(b), cur, cmdq, Len(class))
    BY <2>2 DEF IInv, CmdsOrdered
  <2>4. ReadsInOrder(answers, b, cmdq, Len(class))
    <3>1. answers \in Seq(Answers) /\ cmdq \in Seq(Nat)
      BY <2>1 DEF CmdsType
    <3> QED
      BY <2>1, <2>2, <2>3, <3>1, LaneNumbers
  <2>5. past.cmds <= Len(answers)
    <3>1. past.cmds \in Nat /\ Len(answers) \in Nat /\ Len(cmdq) \in Nat /\ CmdHand \in {0, 1}
      BY <2>1, TypeParts, LenProperties DEF IInv, CmdsType, RestType, CmdHand
    <3> QED
      BY <3>1 DEF IInv, SessionOK, CmdsOrdered, Ordered
  <2> QED
    BY <2>4, <2>5 DEF CommandsInOrder, ReadsInOrder, b
<1> QED
  BY Inductive, <1>1, PTL

(***************************************************************************)
(* The same of ACL packets (hci.rs:717-741, 838-847): none is lost,        *)
(* duplicated or overtaken, however commands and data interleave, and none *)
(* is written by a later driver than the one that accepted it.             *)
(***************************************************************************)
THEOREM AclOrder == Spec => []AclInOrder
<1>1. IInv => AclInOrder
  <2> SUFFICES ASSUME IInv PROVE AclInOrder
    OBVIOUS
  <2>1. AclsType
    BY TypeParts DEF IInv
  <2> DEFINE b == InHand({"write"})
  <2>2. AtMost(b, cur) /\ Len(b) = AclHand
    <3>1. CASE tx = "write"
      <4>1. b = <<cur>> /\ AclHand = 1
        BY <3>1 DEF InHand, AclHand
      <4> HIDE DEF b
      <4> QED
        BY <4>1 DEF AtMost
    <3>2. CASE tx # "write"
      <4>1. b = << >> /\ AclHand = 0
        BY <3>2 DEF InHand, AclHand
      <4> HIDE DEF b
      <4> QED
        BY <4>1 DEF AtMost
    <3> QED
      BY <3>1, <3>2
  <2> HIDE DEF b
  <2>3. Ordered(fates, Len(b), cur, aclq, accepted)
    BY <2>2 DEF IInv, AclsOrdered
  <2>4. ReadsInOrder(fates, b, aclq, accepted)
    <3>1. fates \in Seq(Fates) /\ aclq \in Seq(Nat) /\ accepted \in Nat
      BY <2>1 DEF AclsType
    <3> QED
      BY <2>2, <2>3, <3>1, LaneNumbers
  <2>5. past.acls <= Len(fates)
    <3>1. past.acls \in Nat /\ Len(fates) \in Nat /\ Len(aclq) \in Nat /\ AclHand \in {0, 1}
      BY <2>1, TypeParts, LenProperties DEF IInv, AclsType, RestType, AclHand
    <3> QED
      BY <3>1 DEF IInv, SessionOK, AclsOrdered, Ordered
  <2> QED
    BY <2>4, <2>5 DEF AclInOrder, ReadsInOrder, b
<1> QED
  BY Inductive, <1>1, PTL

(***************************************************************************)
(* An ack of send_cmd tells the truth (hci.rs:424-465, 561-670): success   *)
(* is reported only for a command the controller was given or the bridge   *)
(* answers itself, a refusal only for one it never saw, and no command is  *)
(* given to the controller twice.                                          *)
(***************************************************************************)
THEOREM AcksTrue == Spec => []AcksTruthful
<1>1. IInv => AcksTruthful
  BY DEF IInv
<1> QED
  BY Inductive, <1>1, PTL

(***************************************************************************)
(* No path of feed_event, rx_dispatch or the acks leaks or double-frees a  *)
(* buffer of the host's pools (hci.rs:757-821), whatever their sizes.      *)
(***************************************************************************)
THEOREM Conservation == Spec => []BuffersConserved
<1>1. IInv => BuffersConserved
  BY DEF IInv
<1> QED
  BY Inductive, <1>1, PTL

-----------------------------------------------------------------------------
(* The memory pools.                                                       *)

\* The inductive invariant.
MemIInv == MemTypeOK /\ FreeListOK /\ PoolListOK

-----------------------------------------------------------------------------
(* Facts about the layout.                                                 *)

\* The blocks of a pool are the members of its layout.
LEMMA LayoutFacts ==
  ASSUME NEW p \in Pools
  PROVE  /\ Layout[p] \in Seq(Blocks) /\ Len(Layout[p]) \in Nat
         /\ BlocksOf(p) \subseteq Blocks
         /\ \A i \in 1..Len(Layout[p]) : Layout[p][i] \in BlocksOf(p)
         /\ \A b \in BlocksOf(p) : \E i \in 1..Len(Layout[p]) : Layout[p][i] = b
<1>1. Layout[p] \in Seq(Blocks)
  BY PoolAssumption
<1>2. /\ Len(Layout[p]) \in Nat /\ DOMAIN Layout[p] = 1..Len(Layout[p])
      /\ \A i \in 1..Len(Layout[p]) : Layout[p][i] \in Blocks
  BY <1>1, ElementOfSeq, LenProperties
<1> QED
  BY <1>1, <1>2 DEF BlocksOf, Range

\* Chaining makes the whole pool the free list, in the order of the
\* addresses, and leaves the links of other pools' blocks alone.
LEMMA ChainFacts ==
  ASSUME MemTypeOK, NEW p \in Pools, Chain(p)
  PROVE  /\ next' \in [Blocks -> Blocks \cup {NULL}]
         /\ first'[p] \in Blocks \cup {NULL}
         /\ \A b \in Blocks \ BlocksOf(p) : next'[b] = next[b]
         /\ Spells(Layout[p], first'[p], next', NULL)
<1> DEFINE l == Layout[p]
<1>1. /\ l \in Seq(Blocks) /\ Len(l) \in Nat /\ BlocksOf(p) \subseteq Blocks
      /\ \A i \in 1..Len(l) : l[i] \in BlocksOf(p)
      /\ \A b \in BlocksOf(p) : \E i \in 1..Len(l) : l[i] = b
  BY LayoutFacts
<1>2. Distinct(l)
  BY PoolAssumption
<1>3. first'[p] = IF l = << >> THEN NULL ELSE l[1]
  BY DEF Chain, MemTypeOK
<1>4. first'[p] \in Blocks \cup {NULL}
  BY <1>1, <1>3, EmptySeq
<1> DEFINE Ix(b) == CHOOSE i \in 1..Len(l) : l[i] = b
<1>5. \A b \in BlocksOf(p) : Ix(b) \in 1..Len(l) /\ l[Ix(b)] = b
  BY <1>1
<1>6. \A b \in Blocks : next'[b] = IF b \notin BlocksOf(p) THEN next[b]
                                   ELSE IF Ix(b) = Len(l) THEN NULL ELSE l[Ix(b) + 1]
  BY DEF Chain
<1>7. \A i \in 1..Len(l) : Ix(l[i]) = i
  <2>1. ASSUME NEW i \in 1..Len(l) PROVE Ix(l[i]) = i
    <3>1. l[i] \in BlocksOf(p)
      BY <1>1
    <3>2. Ix(l[i]) \in 1..Len(l) /\ l[Ix(l[i])] = l[i]
      BY <3>1, <1>5
    <3> HIDE DEF Ix
    <3> QED
      BY <3>2, <1>2 DEF Distinct
  <2> QED
    BY <2>1
<1> HIDE DEF Ix
<1>8. \A i \in 1..Len(l) : next'[l[i]] = IF i = Len(l) THEN NULL ELSE l[i + 1]
  BY <1>1, <1>6, <1>7
<1>9. Spells(l, first'[p], next', NULL)
  BY <1>3, <1>8 DEF Spells
<1>10. ASSUME NEW b \in Blocks PROVE next'[b] \in Blocks \cup {NULL}
  <2>1. CASE b \notin BlocksOf(p)
    BY <2>1, <1>6 DEF MemTypeOK
  <2>2. CASE b \in BlocksOf(p)
    <3>1. Ix(b) \in 1..Len(l)
      BY <2>2, <1>5
    <3>2. Ix(b) # Len(l) => Ix(b) + 1 \in 1..Len(l)
      BY <3>1, <1>1
    <3> QED
      BY <2>2, <3>2, <1>1, <1>6
  <2> QED
    BY <2>1, <2>2
<1>11. next' \in [Blocks -> Blocks \cup {NULL}]
  BY <1>10 DEF Chain
<1> QED
  BY <1>4, <1>6, <1>9, <1>11

-----------------------------------------------------------------------------
(* The free lists.                                                         *)

\* One pool's part of FreeListOK.
PoolOK(p) ==
  /\ Spells(free[p], first[p], next, NULL)
  /\ Distinct(free[p]) /\ Range(free[p]) \subseteq BlocksOf(p)
  /\ numFree[p] = Len(free[p])
  /\ minFree[p] <= numFree[p]

\* A pool is not touched by a step that changes neither its record nor the
\* links of its free blocks.
LEMMA PoolFrame ==
  ASSUME MemTypeOK, NEW q \in Pools, PoolOK(q),
         first'[q] = first[q], free'[q] = free[q],
         numFree'[q] = numFree[q], minFree'[q] = minFree[q],
         \A b \in Range(free[q]) : next'[b] = next[b]
  PROVE  PoolOK(q)'
<1>1. free[q] \in Seq(Blocks)
  BY DEF MemTypeOK
<1>2. \A i \in 1..Len(free[q]) : next'[free[q][i]] = next[free[q][i]]
  BY <1>1, LenProperties DEF Range
<1>3. Spells(free[q], first[q], next', NULL)
  BY <1>1, <1>2, SpellsFrame DEF PoolOK
<1> QED
  BY <1>3 DEF PoolOK, BlocksOf

\* os_mempool_init_internal and os_mempool_clear leave every free list in
\* shape, the pool's own and the others'.
LEMMA ChainIInv ==
  ASSUME MemIInv, NEW p \in Pools, Chain(p),
         ready' \subseteq ready \cup {p}
  PROVE  /\ FreeListOK'
         /\ first' \in [Pools -> Blocks \cup {NULL}] /\ next' \in [Blocks -> Blocks \cup {NULL}]
         /\ numFree' \in [Pools -> Nat] /\ minFree' \in [Pools -> Nat]
         /\ free' \in [Pools -> Seq(Blocks)]
<1> MemTypeOK /\ FreeListOK
  BY DEF MemIInv
<1>1. /\ next' \in [Blocks -> Blocks \cup {NULL}]
      /\ first'[p] \in Blocks \cup {NULL}
      /\ \A b \in Blocks \ BlocksOf(p) : next'[b] = next[b]
      /\ Spells(Layout[p], first'[p], next', NULL)
  BY ChainFacts
<1>2. Layout[p] \in Seq(Blocks) /\ Len(Layout[p]) \in Nat
  BY LayoutFacts
<1>3. /\ first' \in [Pools -> Blocks \cup {NULL}]
      /\ numFree' \in [Pools -> Nat] /\ minFree' \in [Pools -> Nat]
      /\ free' \in [Pools -> Seq(Blocks)]
  BY <1>1, <1>2 DEF Chain, MemTypeOK
<1>4. PoolOK(p)'
  <2>1. free'[p] = Layout[p] /\ numFree'[p] = Len(Layout[p]) /\ minFree'[p] = Len(Layout[p])
    BY DEF Chain, MemTypeOK
  <2> QED
    BY <1>1, <1>2, <2>1, PoolAssumption DEF PoolOK, BlocksOf
<1>5. ASSUME NEW q \in ready, q # p PROVE PoolOK(q)'
  <2>1. q \in Pools /\ PoolOK(q)
    BY DEF MemTypeOK, FreeListOK, PoolOK
  <2>2. /\ first'[q] = first[q] /\ free'[q] = free[q]
        /\ numFree'[q] = numFree[q] /\ minFree'[q] = minFree[q]
    BY <1>5, <2>1 DEF Chain, MemTypeOK
  <2>3. \A b \in Range(free[q]) : b \in Blocks \ BlocksOf(p)
    BY <1>5, <2>1, LayoutFacts, PoolAssumption DEF PoolOK, BlocksOf
  <2> QED
    BY <1>1, <2>1, <2>2, <2>3, PoolFrame
<1>6. FreeListOK'
  BY <1>4, <1>5 DEF FreeListOK, PoolOK
<1> QED
  BY <1>1, <1>3, <1>6

\* os_memblock_get takes the first free block.
LEMMA GetIInv ==
  ASSUME MemIInv, NEW c \in Clients, NEW p \in Pools, MemblockGet(c, p)
  PROVE  MemIInv'
<1> MemTypeOK /\ FreeListOK /\ PoolListOK
  BY DEF MemIInv
<1>1. p \in ready /\ PoolOK(p) /\ free[p] \in Seq(Blocks) /\ free[p] # << >>
  BY EmptySeq DEF MemblockGet, FreeListOK, PoolOK, MemTypeOK
<1>2. /\ Tail(free[p]) \in Seq(Blocks)
      /\ Len(Tail(free[p])) = Len(free[p]) - 1
      /\ first[p] \in Blocks
      /\ Range(Tail(free[p])) = Range(free[p]) \ {first[p]}
      /\ Spells(Tail(free[p]), next[first[p]], next, NULL)
      /\ Distinct(Tail(free[p]))
  BY <1>1, SpellsPop DEF PoolOK, MemTypeOK
<1>3. /\ first'[p] = next[first[p]] /\ free'[p] = Tail(free[p])
      /\ numFree'[p] = numFree[p] - 1 /\ numFree'[p] \in Nat
      /\ minFree'[p] \in Nat /\ minFree'[p] <= numFree'[p]
      /\ UNCHANGED <<next, putCb, listVars, sessionVars, putting, misused>>
  BY <1>1 DEF MemblockGet, MemTypeOK
<1>4. MemTypeOK'
  <2>1. /\ first' \in [Pools -> Blocks \cup {NULL}] /\ free' \in [Pools -> Seq(Blocks)]
        /\ owned' \in [Clients -> SUBSET Blocks]
    BY <1>2 DEF MemblockGet, MemTypeOK
  <2>2. numFree' \in [Pools -> Nat] /\ minFree' \in [Pools -> Nat]
    BY <1>3 DEF MemblockGet, MemTypeOK
  <2> QED
    BY <1>3, <2>1, <2>2 DEF MemTypeOK, listVars, sessionVars
<1>5. PoolOK(p)'
  BY <1>1, <1>2, <1>3 DEF PoolOK, BlocksOf
<1>6. ASSUME NEW q \in ready, q # p PROVE PoolOK(q)'
  <2>1. q \in Pools /\ PoolOK(q)
    BY DEF MemTypeOK, FreeListOK, PoolOK
  <2>2. /\ first'[q] = first[q] /\ free'[q] = free[q]
        /\ numFree'[q] = numFree[q] /\ minFree'[q] = minFree[q]
    BY <1>6, <2>1 DEF MemblockGet, MemTypeOK
  <2> QED
    BY <1>3, <2>1, <2>2, PoolFrame
<1>7. FreeListOK'
  BY <1>3, <1>5, <1>6 DEF FreeListOK, PoolOK, sessionVars
<1>8. PoolListOK'
  BY <1>3 DEF PoolListOK, listVars
<1> QED
  BY <1>4, <1>7, <1>8 DEF MemIInv

\* What pushing a block to the free list makes of it.
LEMMA PushSpells ==
  ASSUME NEW p \in Pools, NEW b \in Blocks,
         next \in [Blocks -> Blocks \cup {NULL}], free[p] \in Seq(Blocks),
         Spells(free[p], first[p], next, NULL), Distinct(free[p]), b \notin Range(free[p])
  PROVE  /\ Len(<<b>> \o free[p]) = Len(free[p]) + 1
         /\ Range(<<b>> \o free[p]) = Range(free[p]) \cup {b}
         /\ Spells(<<b>> \o free[p], b, [next EXCEPT ![b] = first[p]], NULL)
         /\ Distinct(<<b>> \o free[p])
<1>1. Spells(<<b>> \o free[p], b, [next EXCEPT ![b] = first[p]], NULL)
  BY SpellsPush
<1>2. Len(<<b>> \o free[p]) = Len(free[p]) + 1
  BY SpellsPush
<1>3. Range(<<b>> \o free[p]) = Range(free[p]) \cup {b}
  BY RangePush
<1>4. Distinct(<<b>> \o free[p])
  BY SpellsPush
<1> QED
  BY <1>1, <1>2, <1>3, <1>4

\* A block of the pool that its free list does not have is pushed to it.
LEMMA PushFacts ==
  ASSUME MemTypeOK, FreeListOK, NEW p \in Pools, NEW b \in BlocksOf(p), b \notin FreeWalked(p),
         next' = [next EXCEPT ![b] = first[p]],
         first' = [first EXCEPT ![p] = b],
         numFree' = [numFree EXCEPT ![p] = @ + 1],
         free' = [free EXCEPT ![p] = <<b>> \o @],
         UNCHANGED <<minFree, ready>>
  PROVE  /\ FreeListOK'
         /\ first' \in [Pools -> Blocks \cup {NULL}] /\ next' \in [Blocks -> Blocks \cup {NULL}]
         /\ numFree' \in [Pools -> Nat] /\ free' \in [Pools -> Seq(Blocks)]
<1>1. /\ b \in Blocks /\ NULL \notin Blocks /\ first[p] \in Blocks \cup {NULL}
      /\ next \in [Blocks -> Blocks \cup {NULL}] /\ free[p] \in Seq(Blocks)
      /\ minFree[p] \in Nat /\ numFree[p] \in Nat
  BY LayoutFacts, PoolAssumption DEF MemTypeOK
<1>2. <<b>> \o free[p] \in Seq(Blocks)
  BY <1>1
<1>3. /\ first' \in [Pools -> Blocks \cup {NULL}] /\ next' \in [Blocks -> Blocks \cup {NULL}]
      /\ numFree' \in [Pools -> Nat] /\ free' \in [Pools -> Seq(Blocks)]
  BY <1>1, <1>2 DEF MemTypeOK
<1>4. ASSUME p \in ready PROVE PoolOK(p)'
  <2>1. PoolOK(p)
    BY <1>4 DEF FreeListOK, PoolOK
  <2>2. Spells(free[p], first[p], next, NULL) /\ Distinct(free[p])
    BY <2>1 DEF PoolOK
  <2>3. b \notin Range(free[p])
    <3>1. Walked(Blocks, first[p], next, NULL) = Range(free[p])
      BY <1>1, <2>2, WalkedIsRange
    <3> QED
      BY <3>1 DEF FreeWalked
  <2>4. /\ Len(<<b>> \o free[p]) = Len(free[p]) + 1
        /\ Range(<<b>> \o free[p]) = Range(free[p]) \cup {b}
        /\ Spells(<<b>> \o free[p], b, [next EXCEPT ![b] = first[p]], NULL)
        /\ Distinct(<<b>> \o free[p])
    BY <1>1, <2>2, <2>3, PushSpells
  <2>5. /\ free'[p] = <<b>> \o free[p] /\ first'[p] = b /\ numFree'[p] = numFree[p] + 1
        /\ minFree'[p] = minFree[p]
    BY DEF MemTypeOK
  <2>6. minFree'[p] <= numFree'[p]
    BY <1>1, <2>1, <2>5 DEF PoolOK
  <2>7. Range(free'[p]) \subseteq BlocksOf(p)
    BY <2>1, <2>4, <2>5 DEF PoolOK
  <2>8. numFree'[p] = Len(free'[p]) /\ Distinct(free'[p])
    BY <2>1, <2>4, <2>5 DEF PoolOK
  <2>9. Spells(free'[p], first'[p], next', NULL)
    BY <2>4, <2>5
  <2> QED
    BY <2>6, <2>7, <2>8, <2>9 DEF PoolOK, BlocksOf
<1>5. ASSUME NEW q \in ready, q # p PROVE PoolOK(q)'
  <2>1. q \in Pools /\ PoolOK(q)
    BY DEF MemTypeOK, FreeListOK, PoolOK
  <2>2. /\ first'[q] = first[q] /\ free'[q] = free[q]
        /\ numFree'[q] = numFree[q] /\ minFree'[q] = minFree[q]
    BY <1>5, <2>1 DEF MemTypeOK
  <2>3. \A x \in Range(free[q]) : x # b /\ x \in Blocks
    BY <1>5, <2>1, LayoutFacts, PoolAssumption DEF PoolOK, BlocksOf
  <2>4. \A x \in Range(free[q]) : next'[x] = next[x]
    BY <2>3 DEF MemTypeOK
  <2> QED
    BY <2>1, <2>2, <2>4, PoolFrame
<1>6. \A q \in ready' : PoolOK(q)'
  BY <1>4, <1>5
<1>7. FreeListOK'
  BY <1>6 DEF FreeListOK, PoolOK
<1> QED
  BY <1>3, <1>7

\* os_memblock_put_from_cb keeps the invariant, whether it takes the block or
\* refuses it.
LEMMA PutIInv ==
  ASSUME MemIInv, NEW c \in Clients, PutFromCb(c)
  PROVE  MemIInv'
<1> MemTypeOK /\ FreeListOK /\ PoolListOK
  BY DEF MemIInv
<1>1. putting[c].pool \in Pools /\ putting[c].block \in Blocks
  BY DEF PutFromCb, MemTypeOK
<1>2. /\ putting' = [putting EXCEPT ![c] = Idle]
      /\ UNCHANGED <<minFree, putCb, listVars, sessionVars, owned, misused>>
  BY DEF PutFromCb
<1>3. putting' \in [Clients -> [pool : Pools \cup {NULL}, block : Blocks \cup {NULL},
                                at : {"idle", "callback", "free"}]]
      /\ \A d \in Clients :
           putting'[d].at # "idle" => putting'[d].pool \in Pools /\ putting'[d].block \in Blocks
  BY <1>2 DEF MemTypeOK, Idle
<1>4. CASE UNCHANGED <<next, first, numFree, free>>
  BY <1>2, <1>3, <1>4 DEF MemIInv, MemTypeOK, FreeListOK, PoolListOK, listVars, sessionVars, BlocksOf
<1>5. CASE ~UNCHANGED <<next, first, numFree, free>>
  <2>1. \E p \in Pools : \E b \in BlocksOf(p) :
          /\ b \notin FreeWalked(p)
          /\ next' = [next EXCEPT ![b] = first[p]]
          /\ first' = [first EXCEPT ![p] = b]
          /\ numFree' = [numFree EXCEPT ![p] = @ + 1]
          /\ free' = [free EXCEPT ![p] = <<b>> \o @]
    BY <1>1, <1>5 DEF PutFromCb
  <2>2. UNCHANGED <<minFree, ready>>
    BY <1>2 DEF sessionVars
  <2>3. /\ FreeListOK'
        /\ first' \in [Pools -> Blocks \cup {NULL}] /\ next' \in [Blocks -> Blocks \cup {NULL}]
        /\ numFree' \in [Pools -> Nat] /\ free' \in [Pools -> Seq(Blocks)]
    BY <2>1, <2>2, PushFacts
  <2>4. MemTypeOK'
    BY <1>2, <1>3, <2>3 DEF MemTypeOK, listVars, sessionVars
  <2>5. PoolListOK'
    BY <1>2 DEF PoolListOK, listVars
  <2> QED
    BY <2>3, <2>4, <2>5 DEF MemIInv
<1> QED
  BY <1>4, <1>5

\* A client's write into a block that no free list has.
LEMMA WriteIInv ==
  ASSUME MemIInv, NEW c \in Clients, NEW b \in Blocks, ClientWrite(c, b)
  PROVE  MemIInv'
<1> MemTypeOK /\ FreeListOK /\ PoolListOK
  BY DEF MemIInv
<1>1. UNCHANGED <<first, numFree, minFree, free, putCb, listVars, sessionVars, clientVars, misused>>
  BY DEF ClientWrite
<1>2. PICK v \in Blocks \cup {NULL} : next' = [next EXCEPT ![b] = v]
  BY DEF ClientWrite
<1>3. MemTypeOK'
  BY <1>1, <1>2 DEF MemTypeOK, listVars, sessionVars, clientVars
<1>4. ASSUME NEW q \in ready PROVE PoolOK(q)'
  <2>1. q \in Pools /\ PoolOK(q)
    BY DEF MemTypeOK, FreeListOK, PoolOK
  <2>2. \A x \in Range(free[q]) : x # b /\ x \in Blocks
    BY <2>1, LayoutFacts DEF PoolOK, ClientWrite
  <2>3. \A x \in Range(free[q]) : next'[x] = next[x]
    BY <1>2, <2>2 DEF MemTypeOK
  <2> QED
    BY <1>1, <2>1, <2>3, PoolFrame
<1>5. FreeListOK'
  BY <1>1, <1>4 DEF FreeListOK, PoolOK, sessionVars
<1>6. PoolListOK'
  BY <1>1 DEF PoolListOK, listVars
<1> QED
  BY <1>3, <1>5, <1>6 DEF MemIInv

-----------------------------------------------------------------------------
(* The list of pools.                                                      *)

\* os_mempool_init registers the pool at the end of the list.
LEMMA InitPoolIInv ==
  ASSUME MemIInv, NEW p \in Pools, MempoolInit(p)
  PROVE  MemIInv'
<1> MemTypeOK /\ FreeListOK /\ PoolListOK
  BY DEF MemIInv
<1>1. /\ FreeListOK'
      /\ first' \in [Pools -> Blocks \cup {NULL}] /\ next' \in [Blocks -> Blocks \cup {NULL}]
      /\ numFree' \in [Pools -> Nat] /\ minFree' \in [Pools -> Nat]
      /\ free' \in [Pools -> Seq(Blocks)]
  BY ChainIInv DEF MempoolInit
<1>2. /\ pools \in Seq(Pools) /\ qNext \in [Pools -> Pools \cup {NULL}]
      /\ Spells(pools, qFirst, qNext, NULL) /\ Distinct(pools) /\ p \notin Range(pools)
      /\ qLast \in Pools \cup {NULL} /\ qFirst \in Pools \cup {NULL} /\ NULL \notin Pools
  BY PoolAssumption DEF MemTypeOK, PoolListOK, MempoolInit
<1>3. /\ qLast = IF pools = << >> THEN NULL ELSE pools[Len(pools)]
      /\ pools # << >> => pools[Len(pools)] \in Pools
  <2>1. pools # << >> => Len(pools) \in 1..Len(pools)
    BY <1>2, EmptySeq, LenProperties
  <2> QED
    BY <1>2, <2>1, ElementOfSeq DEF PoolListOK
<1>4. qLast = NULL <=> pools = << >>
  BY <1>2, <1>3
<1>5. qNext' = IF pools = << >> THEN [qNext EXCEPT ![p] = NULL]
                                ELSE [qNext EXCEPT ![p] = NULL, ![pools[Len(pools)]] = p]
  BY <1>3, <1>4 DEF MempoolInit
<1>6. qNext' \in [Pools -> Pools \cup {NULL}]
  BY <1>2, <1>3, <1>5
<1>7. /\ pools' = Append(pools, p) /\ qLast' = p
      /\ qFirst' = IF pools = << >> THEN p ELSE qFirst
  BY <1>4 DEF MempoolInit
<1>8. /\ Len(pools) \in Nat
       /\ \A i \in 1..Len(pools) : pools[i] \in Pools /\ pools[i] # p
  BY <1>2, LenProperties, ElementOfSeq DEF Range
<1>9. /\ pools' \in Seq(Pools) /\ pools' # << >> /\ pools'[Len(pools')] = p
      /\ Spells(pools', qFirst', qNext', NULL) /\ Distinct(pools')
  <2>1. /\ Append(pools, p) \in Seq(Pools) /\ Append(pools, p) # << >>
        /\ Append(pools, p)[Len(Append(pools, p))] = p
        /\ Spells(Append(pools, p), IF pools = << >> THEN p ELSE qFirst, qNext', NULL)
        /\ Distinct(Append(pools, p))
    <3>1. qNext'[p] = NULL
      BY <1>2, <1>3, <1>5, <1>8
    <3>2. pools # << >> => qNext'[pools[Len(pools)]] = p
      BY <1>2, <1>3, <1>5
    <3>3. \A i \in 1..(Len(pools) - 1) : qNext'[pools[i]] = qNext[pools[i]]
      BY <1>2, <1>3, <1>5, <1>8 DEF Distinct
    <3> QED
      BY <1>2, <1>6, <3>1, <3>2, <3>3, SpellsAppend
  <2> QED
    BY <2>1, <1>7
<1>10. PoolListOK'
  BY <1>7, <1>9 DEF PoolListOK
<1>11. MemTypeOK'
  BY <1>1, <1>2, <1>6, <1>7, <1>9 DEF MemTypeOK, MempoolInit, clientVars
<1> QED
  BY <1>1, <1>10, <1>11 DEF MemIInv

\* What unlinking the i-th pool makes of the list.
LEMMA RemoveSpells ==
  ASSUME NEW i \in 1..Len(pools),
         pools \in Seq(Pools), qNext \in [Pools -> Pools \cup {NULL}],
         Spells(pools, qFirst, qNext, NULL), Distinct(pools),
         qNext' \in [Pools -> Pools \cup {NULL}],
         i # 1 => qNext'[pools[i - 1]] = qNext[pools[i]],
         \A k \in 1..Len(pools) : k # i - 1 => qNext'[pools[k]] = qNext[pools[k]]
  PROVE  /\ Spells(RemoveAt(pools, i), IF i = 1 THEN qNext[qFirst] ELSE qFirst, qNext', NULL)
         /\ Distinct(RemoveAt(pools, i))
BY SpellsRemove, ZenonT(60)

\* os_mempool_unregister takes the pool out, wherever it is in the list.
LEMMA UnregisterIInv ==
  ASSUME MemIInv, NEW p \in Pools, Unregister(p)
  PROVE  MemIInv'
<1> MemTypeOK /\ FreeListOK /\ PoolListOK
  BY DEF MemIInv
<1>1. UNCHANGED <<blockVars, putCb, sessionVars, clientVars, misused>>
  BY DEF Unregister
<1>2. FreeListOK'
  BY <1>1 DEF FreeListOK, blockVars, sessionVars, BlocksOf
<1>3. /\ pools \in Seq(Pools) /\ qNext \in [Pools -> Pools \cup {NULL}]
      /\ Spells(pools, qFirst, qNext, NULL) /\ Distinct(pools)
      /\ qLast \in Pools \cup {NULL} /\ qFirst \in Pools \cup {NULL} /\ NULL \notin Pools
      /\ Len(pools) \in Nat /\ DOMAIN pools = 1..Len(pools)
      /\ \A k \in 1..Len(pools) : pools[k] \in Pools
  BY LenProperties, ElementOfSeq, PoolAssumption DEF MemTypeOK, PoolListOK
<1>4. PICK i \in 1..Len(pools) : pools[i] = p /\ pools' = RemoveAt(pools, i)
  BY <1>3 DEF Unregister
<1>0. Len(pools) \in Nat
  BY <1>3
<1>5. qFirst = pools[1] /\ qLast = pools[Len(pools)]
  <2>1. pools # << >>
    BY <1>0, EmptySeq
  <2> QED
    BY <1>3, <2>1 DEF Spells, PoolListOK
<1>6. qFirst = p <=> i = 1
  <2>1. 1 \in 1..Len(pools)
    BY <1>0
  <2> QED
    BY <2>1, <1>4, <1>5, <1>3 DEF Distinct
<1>7. qNext[p] = IF i = Len(pools) THEN NULL ELSE pools[i + 1]
  BY <1>3, <1>4 DEF Spells
<1>8. qNext[p] = NULL <=> i = Len(pools)
  <2>1. i # Len(pools) => i + 1 \in 1..Len(pools)
    BY <1>0
  <2>2. i # Len(pools) => pools[i + 1] # NULL
    BY <2>1, <1>3
  <2> QED
    BY <2>2, <1>7
<1> DEFINE prev == CHOOSE x \in QWalked : qNext[x] = p
<1>9. i # 1 => prev = pools[i - 1] /\ i - 1 \in 1..Len(pools)
  <2> SUFFICES ASSUME i # 1 PROVE prev = pools[i - 1] /\ i - 1 \in 1..Len(pools)
    OBVIOUS
  <2>1. QWalked = Range(pools)
    BY <1>3, WalkedIsRange DEF QWalked
  <2>2. i - 1 \in 1..Len(pools) /\ i - 1 # Len(pools) /\ (i - 1) + 1 = i
    BY <1>3
  <2>3. pools[i - 1] \in QWalked /\ qNext[pools[i - 1]] = p
    BY <1>3, <1>4, <2>1, <2>2 DEF Spells, Range
  <2>4. ASSUME NEW x \in QWalked, qNext[x] = p PROVE x = pools[i - 1]
    <3>1. PICK k \in 1..Len(pools) : x = pools[k]
      BY <1>3, <2>1 DEF Range
    <3>2. k # Len(pools) /\ pools[k + 1] = p /\ k + 1 \in 1..Len(pools)
      <4>1. qNext[pools[k]] = IF k = Len(pools) THEN NULL ELSE pools[k + 1]
        BY <1>3 DEF Spells
      <4>2. k # Len(pools) /\ pools[k + 1] = p
        BY <4>1, <3>1, <2>4, <1>3
      <4> QED
        BY <4>2, <1>0
    <3>3. k + 1 = i
      BY <1>3, <1>4, <3>2 DEF Distinct
    <3> QED
      BY <1>3, <3>1, <3>3
  <2> QED
    BY <2>2, <2>3, <2>4
<1> HIDE DEF prev
<1>10. /\ qFirst' = IF i = 1 THEN qNext[qFirst] ELSE qFirst
       /\ qNext' = IF i = 1 THEN qNext ELSE [qNext EXCEPT ![pools[i - 1]] = qNext[pools[i]]]
       /\ qLast' = IF i # Len(pools) THEN qLast ELSE IF i = 1 THEN NULL ELSE pools[i - 1]
  BY <1>4, <1>6, <1>8, <1>9 DEF Unregister, prev
<1>11. qNext' \in [Pools -> Pools \cup {NULL}]
  BY <1>3, <1>4, <1>10
<1>12. Spells(pools', qFirst', qNext', NULL) /\ Distinct(pools')
  <2>1. /\ Spells(RemoveAt(pools, i), IF i = 1 THEN qNext[qFirst] ELSE qFirst, qNext', NULL)
        /\ Distinct(RemoveAt(pools, i))
    <3>1. i # 1 => qNext'[pools[i - 1]] = qNext[pools[i]]
      BY <1>3, <1>9, <1>10
    <3>2. ASSUME NEW k \in 1..Len(pools), k # i - 1
          PROVE  qNext'[pools[k]] = qNext[pools[k]]
      <4>1. i # 1 => pools[k] # pools[i - 1]
        BY <3>2, <1>3, <1>9 DEF Distinct
      <4> QED
        BY <4>1, <1>3, <1>9, <1>10
    <3>3. /\ pools \in Seq(Pools) /\ qNext \in [Pools -> Pools \cup {NULL}]
          /\ Spells(pools, qFirst, qNext, NULL) /\ Distinct(pools)
      BY <1>3
    <3> QED
      BY <1>11, <3>1, <3>2, <3>3, RemoveSpells
  <2> QED
    BY <2>1, <1>4, <1>10
<1>13. /\ pools' \in Seq(Pools) /\ Len(pools') = Len(pools) - 1
       /\ \A j \in 1..(Len(pools) - 1) :
            pools'[j] = IF j < i THEN pools[j] ELSE pools[j + 1]
  BY <1>3, <1>4, RemoveAtProperties
<1>14. qLast' = IF pools' = << >> THEN NULL ELSE pools'[Len(pools')]
  <2>1. CASE Len(pools) = 1
    BY <2>1, <1>10, <1>13, EmptySeq
  <2>2. CASE Len(pools) # 1
    <3>1. pools' # << >> /\ Len(pools') \in 1..(Len(pools) - 1)
      BY <2>2, <1>3, <1>13, EmptySeq
    <3>2. CASE i = Len(pools)
      BY <2>2, <3>1, <3>2, <1>3, <1>10, <1>13
    <3>3. CASE i # Len(pools)
      <4>1. ~(Len(pools) - 1 < i)
        BY <3>3, <1>0
      <4>2. (Len(pools) - 1) + 1 = Len(pools)
        BY <1>0
      <4>3. pools'[Len(pools')] = pools[Len(pools)]
        BY <3>1, <4>1, <4>2, <1>13
      <4> QED
        BY <3>1, <3>3, <4>3, <1>5, <1>10
    <3> QED
      BY <3>2, <3>3
  <2> QED
    BY <2>1, <2>2
<1>15. PoolListOK'
  BY <1>12, <1>14 DEF PoolListOK
<1>16. qFirst' \in Pools \cup {NULL} /\ qLast' \in Pools \cup {NULL}
  <2>1. qFirst \in Pools /\ qNext[qFirst] \in Pools \cup {NULL}
    BY <1>3, <1>5
  <2>2. qLast \in Pools /\ (i # 1 => pools[i - 1] \in Pools)
    BY <1>3, <1>5, <1>9
  <2> QED
    BY <2>1, <2>2, <1>10
<1>17. MemTypeOK'
  BY <1>1, <1>11, <1>13, <1>16 DEF MemTypeOK, blockVars, sessionVars, clientVars
<1> QED
  BY <1>2, <1>15, <1>17 DEF MemIInv

-----------------------------------------------------------------------------
(* The specification.                                                      *)

\* No pool is ready and no list holds anything.
LEMMA MemInitIInv == MemInit => MemIInv
<1> SUFFICES ASSUME MemInit PROVE MemIInv
  OBVIOUS
<1>1. MemTypeOK
  <2>1. << >> \in Seq(Blocks) /\ << >> \in Seq(Pools)
    BY EmptySeq
  <2>2. putting \in [Clients -> [pool : Pools \cup {NULL}, block : Blocks \cup {NULL},
                                 at : {"idle", "callback", "free"}]]
    BY DEF MemInit, Idle
  <2>3. \A c \in Clients : putting[c].at = "idle"
    BY DEF MemInit, Idle
  <2> QED
    BY <2>1, <2>2, <2>3 DEF MemInit, MemTypeOK
<1>2. FreeListOK
  BY DEF MemInit, FreeListOK
<1>3. PoolListOK
  BY DEF MemInit, PoolListOK, Spells, Distinct
<1> QED
  BY <1>1, <1>2, <1>3 DEF MemIInv

\* Every step keeps the invariant.
LEMMA MemNextIInv ==
  ASSUME MemIInv, [MemNext]_memVars
  PROVE  MemIInv'
<1> MemTypeOK /\ FreeListOK /\ PoolListOK
  BY DEF MemIInv
<1>1. CASE ModuleInit
  <2>1. MemTypeOK'
    BY <1>1 DEF ModuleInit, MemTypeOK, blockVars, clientVars
  <2>2. FreeListOK'
    BY <1>1 DEF ModuleInit, FreeListOK, blockVars, BlocksOf
  <2>3. PoolListOK'
    BY <1>1 DEF ModuleInit, PoolListOK, Spells, Distinct
  <2> QED
    BY <2>1, <2>2, <2>3 DEF MemIInv
<1>2. CASE EndSession
  <2>1. MemTypeOK'
    BY <1>2 DEF EndSession, MemTypeOK, blockVars, listVars, Idle
  <2>2. FreeListOK' /\ PoolListOK'
    BY <1>2 DEF EndSession, FreeListOK, PoolListOK, blockVars, listVars
  <2> QED
    BY <2>1, <2>2 DEF MemIInv
<1>3. ASSUME NEW p \in Pools, MempoolInit(p) PROVE MemIInv'
  BY <1>3, InitPoolIInv
<1>4. ASSUME NEW p \in Pools, SetPutCb(p) PROVE MemIInv'
  BY <1>4 DEF SetPutCb, MemIInv, MemTypeOK, FreeListOK, PoolListOK, blockVars, listVars,
              sessionVars, clientVars, BlocksOf
<1>5. ASSUME NEW p \in Pools, Unregister(p) PROVE MemIInv'
  BY <1>5, UnregisterIInv
<1>6. ASSUME NEW p \in Pools, MempoolClear(p) \/ ExtClear(p) PROVE MemIInv'
  <2>1. /\ Chain(p) /\ UNCHANGED <<listVars, sessionVars, clientVars>>
        /\ putCb' \in [Pools -> BOOLEAN] /\ misused' \in BOOLEAN
    BY <1>6 DEF MempoolClear, ExtClear, MemTypeOK
  <2>2. /\ FreeListOK'
        /\ first' \in [Pools -> Blocks \cup {NULL}] /\ next' \in [Blocks -> Blocks \cup {NULL}]
        /\ numFree' \in [Pools -> Nat] /\ minFree' \in [Pools -> Nat]
        /\ free' \in [Pools -> Seq(Blocks)]
    BY <2>1, ChainIInv DEF sessionVars
  <2>3. MemTypeOK'
    BY <2>1, <2>2 DEF MemTypeOK, listVars, sessionVars, clientVars
  <2>4. PoolListOK'
    BY <2>1 DEF PoolListOK, listVars
  <2> QED
    BY <2>2, <2>3, <2>4 DEF MemIInv
<1>7. ASSUME NEW c \in Clients, PutCallback(c) PROVE MemIInv'
  <2>1. MemTypeOK'
    BY <1>7 DEF PutCallback, MemTypeOK, blockVars, listVars, sessionVars
  <2>2. FreeListOK' /\ PoolListOK'
    BY <1>7 DEF PutCallback, FreeListOK, PoolListOK, blockVars, listVars, sessionVars, BlocksOf
  <2> QED
    BY <2>1, <2>2 DEF MemIInv
<1>8. ASSUME NEW c \in Clients, PutFromCb(c) PROVE MemIInv'
  BY <1>8, PutIInv
<1>9. ASSUME NEW c \in Clients, NEW p \in Pools, MemblockGet(c, p) PROVE MemIInv'
  BY <1>9, GetIInv
<1>10. ASSUME NEW c \in Clients, NEW p \in Pools, NEW b \in Blocks, MemblockPut(c, p, b)
       PROVE  MemIInv'
  <2>1. MemTypeOK'
    BY <1>10 DEF MemblockPut, MemTypeOK, blockVars, listVars, sessionVars
  <2>2. FreeListOK' /\ PoolListOK'
    BY <1>10 DEF MemblockPut, FreeListOK, PoolListOK, blockVars, listVars, sessionVars, BlocksOf
  <2> QED
    BY <2>1, <2>2 DEF MemIInv
<1>11. ASSUME NEW c \in Clients, NEW b \in Blocks, ClientWrite(c, b) PROVE MemIInv'
  BY <1>11, WriteIInv
<1>12. CASE UNCHANGED memVars
  BY <1>12 DEF MemIInv, MemTypeOK, FreeListOK, PoolListOK, memVars, blockVars, listVars, sessionVars,
               clientVars, BlocksOf
<1> QED
  BY <1>1, <1>2, <1>3, <1>4, <1>5, <1>6, <1>7, <1>8, <1>9, <1>10, <1>11, <1>12 DEF MemNext

\* The invariant holds in every behaviour.
LEMMA MemInvariance == MemSpec => []MemIInv
BY MemInitIInv, MemNextIInv, PTL DEF MemSpec

(***************************************************************************)
(* No pool ever hands out NULL as a block or keeps a count that is no      *)
(* natural number (os_mempool.c:444-672), however clients behave.          *)
(***************************************************************************)
THEOREM MemTypeCorrect == MemSpec => []MemTypeOK
<1>1. MemIInv => MemTypeOK
  BY DEF MemIInv
<1> QED
  BY <1>1, MemInvariance, PTL

(***************************************************************************)
(* The free lists keep their shape whatever is freed twice, freed to the   *)
(* wrong pool or written into blocks in use (os_mempool.c:518-531,         *)
(* 590-612).                                                               *)
(***************************************************************************)
THEOREM FreeListCorrect == MemSpec => []FreeListOK
<1>1. MemIInv => FreeListOK
  BY DEF MemIInv
<1> QED
  BY <1>1, MemInvariance, PTL

(***************************************************************************)
(* g_os_mempool_list holds the registered pools, each once, across any     *)
(* number of drivers (os_mempool.c:238, 268-307, 703-711).                 *)
(***************************************************************************)
THEOREM PoolListCorrect == MemSpec => []PoolListOK
<1>1. MemIInv => PoolListOK
  BY DEF MemIInv
<1> QED
  BY <1>1, MemInvariance, PTL

-----------------------------------------------------------------------------
(* Who has which block.                                                    *)

\* A client that puts nothing has an idle record; one that puts, while nobody
\* misuses a pool, puts a block of a pool in use.
PutsOK ==
  \A c \in Clients :
    /\ putting[c].at = "idle" => putting[c] = Idle
    /\ ~misused /\ putting[c].at # "idle"
         => putting[c].pool \in ready /\ putting[c].block \in BlocksOf(putting[c].pool)

\* HandedOutOnce of the puts, and of one pool.
PutsApart == \A c \in Clients : putting[c].at # "idle" => putting[c].block \notin owned[c]

PoolOwned(p) ==
  \A b \in BlocksOf(p) :
    /\ \A c \in Clients : Has(c, b) => ~Freed(p, b)
    /\ \A c, d \in Clients : Has(c, b) /\ Has(d, b) => d = c
    /\ Freed(p, b) \/ \E c \in Clients : Has(c, b)

\* HandedOutOnce is its parts.
LEMMA OwnedParts == HandedOutOnce <=> (~misused => PutsApart /\ \A p \in ready : PoolOwned(p))
BY DEF HandedOutOnce, PutsApart, PoolOwned

\* The invariant of ownership.
OInv == PutsOK /\ HandedOutOnce

\* A list of different blocks has room left when it lacks a block of the pool.
LEMMA RoomLeft ==
  ASSUME NEW S, NEW s \in Seq(S), NEW l \in Seq(S), Distinct(s),
         Range(s) \subseteq Range(l), NEW b \in Range(l), b \notin Range(s)
  PROVE  Len(s) < Len(l)
<1>1. /\ Len(s) \in Nat /\ DOMAIN s = 1..Len(s) /\ s \in [1..Len(s) -> S]
      /\ Len(l) \in Nat /\ DOMAIN l = 1..Len(l) /\ l \in [1..Len(l) -> S]
  BY LenProperties
<1>2. /\ IsFiniteSet(1..Len(s)) /\ Cardinality(1..Len(s)) = Len(s)
      /\ IsFiniteSet(1..Len(l)) /\ Cardinality(1..Len(l)) = Len(l)
  <2>1. ASSUME NEW n \in Nat PROVE IsFiniteSet(1..n) /\ Cardinality(1..n) = n
    BY FS_Interval
  <2> QED
    BY <1>1, <2>1
<1>3. /\ s \in Surjection(1..Len(s), Range(s)) /\ s \in Injection(1..Len(s), Range(s))
      /\ l \in Surjection(1..Len(l), Range(l))
  BY <1>1 DEF Surjection, Injection, IsInjective, Range, Distinct
<1>4. IsFiniteSet(Range(s)) /\ Cardinality(Range(s)) = Len(s)
  BY <1>2, <1>3, FS_Surjection
<1>5. IsFiniteSet(Range(l)) /\ Cardinality(Range(l)) <= Len(l) /\ Cardinality(Range(l)) \in Nat
  BY <1>2, <1>3, FS_Surjection, FS_CardinalityType
<1>6. Cardinality(Range(s)) <= Cardinality(Range(l)) /\ Cardinality(Range(s)) # Cardinality(Range(l))
  BY <1>5, FS_Subset
<1> QED
  BY <1>1, <1>4, <1>5, <1>6

\* A pool whose blocks are all back owns every block of its free list once it
\* is chained.
LEMMA ChainOwned ==
  ASSUME MemIInv, OInv, ~misused, NEW p \in Pools, AllBack(p), Chain(p), UNCHANGED clientVars,
         ready' \subseteq ready \cup {p}
  PROVE  \A q \in ready' : PoolOwned(q)'
<1>1. /\ free'[p] = Layout[p] /\ \A q \in Pools : q # p => free'[q] = free[q]
  BY DEF Chain, MemIInv, MemTypeOK
<1>2. \A q \in ready : q \in Pools /\ PoolOwned(q)
  BY OwnedParts DEF OInv, MemIInv, MemTypeOK
<1>3. \A b : \A c \in Clients : Has(c, b)' <=> Has(c, b)
  BY DEF Has, clientVars
<1>4. \A c \in Clients, b \in BlocksOf(p) : ~Has(c, b)
  <2> SUFFICES ASSUME NEW c \in Clients, NEW b \in BlocksOf(p) PROVE ~Has(c, b)
    OBVIOUS
  <2>1. b \notin owned[c] /\ putting[c].pool # p
    BY DEF AllBack
  <2>2. b # NULL
    BY LayoutFacts, PoolAssumption
  <2>3. CASE putting[c].at = "idle"
    BY <2>1, <2>2, <2>3 DEF OInv, PutsOK, Has, Idle
  <2>4. CASE putting[c].at # "idle"
    <3>1. putting[c].pool \in ready /\ putting[c].block \in BlocksOf(putting[c].pool)
      BY <2>4 DEF OInv, PutsOK
    <3>2. putting[c].block # b
      BY <1>2, <2>1, <3>1, PoolAssumption DEF BlocksOf
    <3> QED
      BY <2>1, <3>2 DEF Has
  <2> QED
    BY <2>3, <2>4
<1>5. PoolOwned(p)'
  <2>1. \A b \in BlocksOf(p) : Freed(p, b)'
    BY <1>1 DEF Freed, BlocksOf
  <2> QED
    BY <1>3, <1>4, <2>1 DEF PoolOwned, BlocksOf
<1>6. ASSUME NEW q \in ready, q # p PROVE PoolOwned(q)'
  <2>1. \A b : Freed(q, b)' <=> Freed(q, b)
    BY <1>1, <1>2, <1>6 DEF Freed
  <2> QED
    BY <1>2, <1>3, <2>1 DEF PoolOwned, BlocksOf
<1> QED
  BY <1>5, <1>6

\* os_memblock_get hands out a block that nobody has.
LEMMA GetOwned ==
  ASSUME MemIInv, OInv, ~misused, NEW c \in Clients, NEW p \in Pools, MemblockGet(c, p)
  PROVE  PutsApart' /\ \A q \in ready : PoolOwned(q)'
<1> DEFINE b == first[p]
<1>1. /\ p \in ready /\ free[p] \in Seq(Blocks) /\ free[p] # << >>
      /\ Spells(free[p], first[p], next, NULL) /\ Distinct(free[p])
      /\ Range(free[p]) \subseteq BlocksOf(p)
      /\ next \in [Blocks -> Blocks \cup {NULL}] /\ owned \in [Clients -> SUBSET Blocks]
      /\ free \in [Pools -> Seq(Blocks)]
  BY EmptySeq DEF MemblockGet, MemIInv, MemTypeOK, FreeListOK
<1>2. b \in Range(free[p]) /\ Range(Tail(free[p])) = Range(free[p]) \ {b}
  <2>1. b = free[p][1] /\ 1 \in DOMAIN free[p]
    BY <1>1, EmptySeq, LenProperties DEF Spells
  <2>2. b \in Range(free[p])
    BY <2>1 DEF Range
  <2>3. Range(Tail(free[p])) = Range(free[p]) \ {first[p]}
    BY <1>1, SpellsPop
  <2> QED
    BY <2>2, <2>3
<1>3. /\ owned' = [owned EXCEPT ![c] = @ \cup {b}] /\ free' = [free EXCEPT ![p] = Tail(@)]
      /\ putting' = putting /\ putting[c] = Idle
  BY DEF MemblockGet
<1>4. \A q \in ready : q \in Pools /\ PoolOwned(q)
  BY OwnedParts DEF OInv, MemIInv, MemTypeOK
<1>5. PutsApart
  BY OwnedParts DEF OInv
<1> HIDE DEF b
<1>6. PutsApart'
  BY <1>1, <1>3, <1>5 DEF PutsApart, Idle
<1>7. \A d \in Clients : ~Has(d, b)
  BY <1>1, <1>2, <1>4 DEF PoolOwned, Freed
<1>8. \A x : \A d \in Clients : Has(d, x)' <=> Has(d, x) \/ (d = c /\ x = b)
  BY <1>1, <1>3 DEF Has
<1>9. PoolOwned(p)'
  <2>1. \A x : Freed(p, x)' <=> Freed(p, x) /\ x # b
    BY <1>1, <1>2, <1>3 DEF Freed
  <2>2. PoolOwned(p)
    BY <1>1, <1>4
  <2>3. ASSUME NEW x \in BlocksOf(p)
        PROVE  /\ \A d \in Clients : Has(d, x)' => ~Freed(p, x)'
               /\ \A d, e \in Clients : Has(d, x)' /\ Has(e, x)' => e = d
               /\ Freed(p, x)' \/ \E d \in Clients : Has(d, x)'
    <3>1. CASE x = b
      BY <1>7, <1>8, <2>1, <3>1
    <3>2. CASE x # b
      BY <1>8, <2>1, <2>2, <3>2 DEF PoolOwned
    <3> QED
      BY <3>1, <3>2
  <2> QED
    BY <2>3 DEF PoolOwned, BlocksOf
<1>10. ASSUME NEW q \in ready, q # p PROVE PoolOwned(q)'
  <2>1. \A x : Freed(q, x)' <=> Freed(q, x)
    BY <1>1, <1>3, <1>4, <1>10 DEF Freed
  <2>2. \A x \in BlocksOf(q) : x # b
    BY <1>1, <1>2, <1>4, <1>10, PoolAssumption DEF BlocksOf
  <2>3. \A x \in BlocksOf(q) : \A d \in Clients : Has(d, x)' <=> Has(d, x)
    BY <1>8, <2>2
  <2> QED
    BY <1>4, <2>1, <2>3 DEF PoolOwned, BlocksOf
<1> QED
  BY <1>6, <1>9, <1>10

\* os_memblock_put of a block the client has moves it from one hand to the
\* other.
LEMMA PutOwned ==
  ASSUME MemIInv, OInv, ~misused, NEW c \in Clients, NEW p \in Pools, NEW b \in Blocks,
         MemblockPut(c, p, b), b \in owned[c] \cap BlocksOf(p)
  PROVE  PutsApart' /\ \A q \in ready : PoolOwned(q)'
<1>1. /\ owned' = [owned EXCEPT ![c] = @ \ {b}] /\ free' = free
      /\ putting[c] = Idle
      /\ putting' = [putting EXCEPT ![c] =
           [pool |-> p, block |-> b, at |-> IF putCb[p] THEN "callback" ELSE "free"]]
  BY DEF MemblockPut, blockVars
<1>2. owned \in [Clients -> SUBSET Blocks] /\ NULL \notin Blocks /\ DOMAIN putting = Clients
  BY PoolAssumption DEF MemIInv, MemTypeOK
<1>3. \A q \in ready : q \in Pools /\ PoolOwned(q)
  BY OwnedParts DEF OInv, MemIInv, MemTypeOK
<1>4. PutsApart
  BY OwnedParts DEF OInv
<1>5. putting'[c].block = b /\ \A d \in Clients : d # c => putting'[d] = putting[d]
  BY <1>1, <1>2
<1>6. owned'[c] = owned[c] \ {b} /\ \A d \in Clients : d # c => owned'[d] = owned[d]
  BY <1>1, <1>2
<1>7. PutsApart'
  BY <1>4, <1>5, <1>6 DEF PutsApart
<1>8. \A d \in Clients, x \in Blocks : Has(d, x)' <=> Has(d, x)
  BY <1>1, <1>2, <1>5, <1>6 DEF Has, Idle
<1>9. ASSUME NEW q \in ready PROVE PoolOwned(q)'
  <2>1. \A x : Freed(q, x)' <=> Freed(q, x)
    BY <1>1 DEF Freed
  <2>2. \A x \in BlocksOf(q) : x \in Blocks
    BY <1>3, LayoutFacts
  <2>3. \A x \in BlocksOf(q) : \A d \in Clients : Has(d, x)' <=> Has(d, x)
    BY <1>8, <2>2
  <2> QED
    BY <1>3, <2>1, <2>3 DEF PoolOwned, BlocksOf
<1> QED
  BY <1>7, <1>9

\* os_memblock_put_from_cb takes every block that a client rightly frees.
LEMMA FreeOwned ==
  ASSUME MemIInv, OInv, ~misused, NEW c \in Clients, PutFromCb(c)
  PROVE  PutsApart' /\ \A q \in ready : PoolOwned(q)'
<1>0. PICK p, b : p = putting[c].pool /\ b = putting[c].block
  OBVIOUS
<1>1. owned' = owned /\ putting' = [putting EXCEPT ![c] = Idle] /\ putting[c].at = "free"
  BY DEF PutFromCb
<1>2. p \in ready /\ b \in BlocksOf(p) /\ b \notin owned[c]
  BY <1>0, <1>1, OwnedParts DEF OInv, PutsOK, PutsApart
<1>3. \A q \in ready : q \in Pools /\ PoolOwned(q)
  BY OwnedParts DEF OInv, MemIInv, MemTypeOK
<1>4. /\ p \in Pools /\ b \in Blocks /\ b \notin Range(free[p]) /\ NULL \notin Blocks
      /\ DOMAIN putting = Clients /\ free[p] \in Seq(Blocks) /\ free \in [Pools -> Seq(Blocks)]
  <2>1. p \in Pools /\ b \in Blocks
    BY <1>2, <1>3, LayoutFacts
  <2>2. Has(c, b)
    BY <1>0 DEF Has
  <2>3. ~Freed(p, b)
    BY <1>2, <1>3, <2>2 DEF PoolOwned
  <2> QED
    BY <2>1, <2>3, PoolAssumption DEF MemIInv, MemTypeOK, Freed
<1>5. free' = [free EXCEPT ![p] = <<b>> \o @]
  <2>1. /\ Spells(free[p], first[p], next, NULL) /\ Distinct(free[p])
        /\ Range(free[p]) \subseteq BlocksOf(p) /\ numFree[p] = Len(free[p])
        /\ next \in [Blocks -> Blocks \cup {NULL}]
    BY <1>2 DEF MemIInv, MemTypeOK, FreeListOK
  <2>2. b \notin FreeWalked(p)
    BY <1>4, <2>1, WalkedIsRange DEF FreeWalked
  <2>3. numFree[p] < Len(Layout[p])
    <3>1. Layout[p] \in Seq(Blocks)
      BY <1>4, LayoutFacts
    <3>2. Len(free[p]) < Len(Layout[p])
      BY <1>2, <1>4, <2>1, <3>1, RoomLeft DEF BlocksOf
    <3> QED
      BY <2>1, <3>2
  <2> QED
    BY <1>0, <1>2, <2>2, <2>3 DEF PutFromCb
<1>6. /\ putting'[c] = Idle /\ \A d \in Clients : d # c => putting'[d] = putting[d]
  BY <1>1, <1>4
<1>7. PutsApart'
  BY <1>1, <1>6, OwnedParts DEF OInv, PutsApart, Idle
<1>8. \A d \in Clients, x \in Blocks : Has(d, x)' <=> Has(d, x) /\ ~(d = c /\ x = b)
  BY <1>0, <1>1, <1>2, <1>4, <1>6 DEF Has, Idle
<1>9. \A d \in Clients : Has(d, b) <=> d = c
  <2>1. Has(c, b)
    BY <1>0 DEF Has
  <2> QED
    BY <1>2, <1>3, <2>1 DEF PoolOwned
<1>10. PoolOwned(p)'
  <2>1. \A x : Freed(p, x)' <=> Freed(p, x) \/ x = b
    <3>1. free'[p] = <<b>> \o free[p]
      BY <1>4, <1>5
    <3>2. Range(<<b>> \o free[p]) = Range(free[p]) \cup {b}
      BY <1>4, RangePush
    <3> QED
      BY <3>1, <3>2 DEF Freed
  <2>2. PoolOwned(p) /\ \A x \in BlocksOf(p) : x \in Blocks
    BY <1>2, <1>3, LayoutFacts
  <2>3. ASSUME NEW x \in BlocksOf(p)
        PROVE  /\ \A d \in Clients : Has(d, x)' => ~Freed(p, x)'
               /\ \A d, e \in Clients : Has(d, x)' /\ Has(e, x)' => e = d
               /\ Freed(p, x)' \/ \E d \in Clients : Has(d, x)'
    <3>1. CASE x = b
      BY <1>8, <1>9, <2>1, <2>2, <3>1
    <3>2. CASE x # b
      BY <1>8, <2>1, <2>2, <3>2 DEF PoolOwned
    <3> QED
      BY <3>1, <3>2
  <2> QED
    BY <2>3 DEF PoolOwned, BlocksOf
<1>11. ASSUME NEW q \in ready, q # p PROVE PoolOwned(q)'
  <2>1. \A x : Freed(q, x)' <=> Freed(q, x)
    BY <1>3, <1>4, <1>5, <1>11 DEF Freed
  <2>2. \A x \in BlocksOf(q) : x # b /\ x \in Blocks
    BY <1>2, <1>3, <1>4, <1>11, LayoutFacts, PoolAssumption DEF BlocksOf
  <2>3. \A x \in BlocksOf(q) : \A d \in Clients : Has(d, x)' <=> Has(d, x)
    BY <1>8, <2>2
  <2> QED
    BY <1>3, <2>1, <2>3 DEF PoolOwned, BlocksOf
<1> QED
  BY <1>7, <1>10, <1>11

\* Every step keeps what is known of the puts.
LEMMA NextPuts ==
  ASSUME MemIInv, OInv, [MemNext]_memVars
  PROVE  PutsOK'
<1>1. \A c \in Clients : putting[c].at = "idle" => putting[c] = Idle
  BY DEF OInv, PutsOK
<1>2. ~misused => \A c \in Clients : putting[c].at # "idle"
        => putting[c].pool \in ready /\ putting[c].block \in BlocksOf(putting[c].pool)
  BY DEF OInv, PutsOK
<1>3. DOMAIN putting = Clients
  BY DEF MemIInv, MemTypeOK
<1>4. CASE putting' = putting /\ ready \subseteq ready' /\ (misused => misused')
  BY <1>1, <1>2, <1>4 DEF PutsOK, BlocksOf
<1>5. CASE EndSession
  BY <1>5 DEF EndSession, PutsOK, Idle
<1>6. ASSUME NEW c \in Clients, PutCallback(c) PROVE PutsOK'
  <2>1. UNCHANGED <<ready, misused>> /\ putting' = [putting EXCEPT ![c].at = "free"]
        /\ putting[c].at = "callback"
    BY <1>6 DEF PutCallback, sessionVars
  <2>2. \A d \in Clients : putting'[d].at = "idle" => putting'[d] = putting[d] /\ putting[d].at = "idle"
    BY <1>3, <2>1 DEF MemIInv, MemTypeOK
  <2>3. \A d \in Clients : putting'[d].at # "idle" => putting[d].at # "idle"
          /\ putting'[d].pool = putting[d].pool /\ putting'[d].block = putting[d].block
    BY <1>3, <2>1 DEF MemIInv, MemTypeOK
  <2> QED
    BY <1>1, <1>2, <2>1, <2>2, <2>3 DEF PutsOK, BlocksOf
<1>7. ASSUME NEW c \in Clients, PutFromCb(c) PROVE PutsOK'
  <2>1. UNCHANGED <<ready, misused>> /\ putting' = [putting EXCEPT ![c] = Idle]
    BY <1>7 DEF PutFromCb, sessionVars
  <2>2. \A d \in Clients : putting'[d] = Idle \/ putting'[d] = putting[d]
    BY <1>3, <2>1
  <2>3. Idle.at = "idle"
    BY DEF Idle
  <2> QED
    BY <1>1, <1>2, <2>1, <2>2, <2>3 DEF PutsOK, BlocksOf
<1>8. ASSUME NEW c \in Clients, NEW p \in Pools, NEW b \in Blocks, MemblockPut(c, p, b) PROVE PutsOK'
  <2>1. /\ ready' = ready /\ p \in ready
        /\ putting' = [putting EXCEPT ![c] =
             [pool |-> p, block |-> b, at |-> IF putCb[p] THEN "callback" ELSE "free"]]
    BY <1>8 DEF MemblockPut, sessionVars
  <2>2. ~misused' => ~misused /\ b \in BlocksOf(p)
    BY <1>8 DEF MemblockPut
  <2>3. /\ \A d \in Clients : d # c => putting'[d] = putting[d]
        /\ putting'[c].at # "idle" /\ putting'[c].pool = p /\ putting'[c].block = b
    BY <1>3, <2>1
  <2> QED
    BY <1>1, <1>2, <2>1, <2>2, <2>3 DEF PutsOK, BlocksOf
<1>9. /\ ModuleInit \/ UNCHANGED memVars => putting' = putting /\ ready \subseteq ready' /\ misused' = misused
      /\ \A p \in Pools : MempoolInit(p) \/ SetPutCb(p) \/ Unregister(p)
           => putting' = putting /\ ready \subseteq ready' /\ misused' = misused
      /\ \A p \in Pools : MempoolClear(p) \/ ExtClear(p)
           => putting' = putting /\ ready \subseteq ready' /\ (misused => misused')
  BY DEF ModuleInit, memVars, MempoolInit, SetPutCb, Unregister, MempoolClear, ExtClear, clientVars,
         sessionVars
<1>10. ModuleInit \/ UNCHANGED memVars => PutsOK'
  BY <1>4, <1>9
<1>11. ASSUME NEW p \in Pools,
              MempoolInit(p) \/ SetPutCb(p) \/ Unregister(p) \/ MempoolClear(p) \/ ExtClear(p)
       PROVE  PutsOK'
  BY <1>4, <1>9, <1>11
<1>12. ASSUME NEW c \in Clients, NEW p \in Pools, MemblockGet(c, p) PROVE PutsOK'
  <2>1. putting' = putting /\ ready \subseteq ready' /\ misused' = misused
    BY <1>12 DEF MemblockGet, sessionVars
  <2> QED
    BY <1>4, <2>1
<1>13. ASSUME NEW c \in Clients, NEW b \in Blocks, ClientWrite(c, b) PROVE PutsOK'
  <2>1. putting' = putting /\ ready \subseteq ready' /\ misused' = misused
    BY <1>13 DEF ClientWrite, clientVars, sessionVars
  <2> QED
    BY <1>4, <2>1
<1> QED
  BY <1>5, <1>6, <1>7, <1>8, <1>10, <1>11, <1>12, <1>13 DEF MemNext

\* Every step keeps the invariant of ownership.
LEMMA NextOInv ==
  ASSUME MemIInv, OInv, [MemNext]_memVars
  PROVE  OInv'
<1> SUFFICES ASSUME ~misused' PROVE PutsApart' /\ \A q \in ready' : PoolOwned(q)'
  <2>1. HandedOutOnce'
    BY DEF HandedOutOnce, PutsApart, PoolOwned
  <2> QED
    BY <2>1, NextPuts DEF OInv
<1>1. ~misused => PutsApart /\ \A q \in ready : PoolOwned(q)
  BY OwnedParts DEF OInv
<1>2. CASE ~misused /\ UNCHANGED <<owned, putting, free, ready>>
  BY <1>1, <1>2 DEF PutsApart, PoolOwned, Has, Freed, BlocksOf
<1>3. CASE EndSession
  BY <1>3 DEF EndSession, PutsApart, Idle
<1>4. ASSUME NEW p \in Pools, MempoolInit(p) \/ MempoolClear(p) \/ ExtClear(p)
      PROVE  PutsApart' /\ \A q \in ready' : PoolOwned(q)'
  <2>1. ~misused /\ AllBack(p)
    <3>1. CASE MempoolInit(p)
      BY <3>1 DEF MempoolInit
    <3>2. CASE MempoolClear(p)
      BY <3>2 DEF MempoolClear
    <3>3. CASE ExtClear(p)
      BY <3>3 DEF ExtClear
    <3> QED
      BY <1>4, <3>1, <3>2, <3>3
  <2>2. Chain(p) /\ UNCHANGED clientVars /\ ready' \subseteq ready \cup {p}
    BY <1>4 DEF MempoolInit, MempoolClear, ExtClear, sessionVars
  <2>3. PutsApart'
    BY <1>1, <2>1, <2>2 DEF PutsApart, clientVars
  <2> QED
    BY <2>1, <2>2, <2>3, ChainOwned
<1>5. ASSUME NEW c \in Clients, PutCallback(c) PROVE PutsApart' /\ \A q \in ready' : PoolOwned(q)'
  <2>1. /\ UNCHANGED <<owned, free, ready, misused>> /\ putting' = [putting EXCEPT ![c].at = "free"]
        /\ putting[c].at = "callback"
    BY <1>5 DEF PutCallback, blockVars, sessionVars
  <2>2. \A d \in Clients : /\ putting'[d].block = putting[d].block
                           /\ putting'[d].at # "idle" => putting[d].at # "idle"
    BY <2>1 DEF MemIInv, MemTypeOK
  <2>3. \A x : \A d \in Clients : Has(d, x)' <=> Has(d, x)
    BY <2>1, <2>2 DEF Has
  <2>4. \A q, x : Freed(q, x)' <=> Freed(q, x)
    BY <2>1 DEF Freed
  <2>5. PutsApart'
    BY <1>1, <2>1, <2>2 DEF PutsApart
  <2> QED
    BY <1>1, <2>1, <2>3, <2>4, <2>5 DEF PoolOwned, BlocksOf
<1>6. ASSUME NEW c \in Clients, PutFromCb(c) PROVE PutsApart' /\ \A q \in ready' : PoolOwned(q)'
  <2>1. ~misused /\ ready' = ready
    BY <1>6 DEF PutFromCb, sessionVars
  <2> QED
    BY <1>6, <2>1, FreeOwned
<1>7. ASSUME NEW c \in Clients, NEW p \in Pools, MemblockGet(c, p)
      PROVE  PutsApart' /\ \A q \in ready' : PoolOwned(q)'
  <2>1. ~misused /\ ready' = ready
    BY <1>7 DEF MemblockGet, sessionVars
  <2> QED
    BY <1>7, <2>1, GetOwned
<1>8. ASSUME NEW c \in Clients, NEW p \in Pools, NEW b \in Blocks, MemblockPut(c, p, b)
      PROVE  PutsApart' /\ \A q \in ready' : PoolOwned(q)'
  <2>1. ~misused /\ b \in owned[c] \cap BlocksOf(p) /\ ready' = ready
    BY <1>8 DEF MemblockPut, sessionVars
  <2> QED
    BY <1>8, <2>1, PutOwned
<1>9. /\ ModuleInit \/ UNCHANGED memVars => ~misused /\ UNCHANGED <<owned, putting, free, ready>>
      /\ \A p \in Pools : SetPutCb(p) \/ Unregister(p)
           => ~misused /\ UNCHANGED <<owned, putting, free, ready>>
      /\ \A c \in Clients, b \in Blocks : ClientWrite(c, b)
           => ~misused /\ UNCHANGED <<owned, putting, free, ready>>
  BY DEF ModuleInit, memVars, SetPutCb, Unregister, ClientWrite, clientVars, sessionVars, blockVars
<1> QED
  BY <1>2, <1>3, <1>4, <1>5, <1>6, <1>7, <1>8, <1>9 DEF MemNext

(***************************************************************************)
(* While clients free only what they have, no block is in two hands, and   *)
(* none is lost: os_memblock_put_from_cb never refuses a rightful owner,   *)
(* and os_memblock_get never hands out a block somebody has                *)
(* (os_mempool.c:444-672).                                                 *)
(***************************************************************************)
THEOREM Ownership == MemSpec => []HandedOutOnce
<1>1. MemInit => OInv
  BY DEF MemInit, OInv, PutsOK, HandedOutOnce, Idle
<1>2. OInv => HandedOutOnce
  BY DEF OInv
<1> QED
  BY <1>1, <1>2, MemInvariance, NextOInv, PTL DEF MemSpec

-----------------------------------------------------------------------------
(* The life of the driver, and critical sections.                          *)

(* The driver.                                                             *)

USE DriverAssumption

\* What is set belongs to the driver of the thread that has the flag.
Owned ==
  \A t \in Threads :
    pc[t] # "idle" =>
      /\ driver[t] \in alive
      /\ \A s \in Slots : slot[s] \in {0, driver[t]}
      /\ svcs \in {0, driver[t]}

\* What a thread has set up, or taken down, by where it is.
Phases ==
  /\ \A t \in Threads :
       /\ pc[t] \in {"init", "initialising", "configure", "release"} => svcs = 0
       /\ pc[t] \in {"init", "initialising", "configure", "services", "deinit",
                     "deinitialising", "release"} => \A s \in Slots : slot[s] = 0
       /\ pc[t] \in {"init", "initialising", "configure", "deinit", "deinitialising",
                     "release"} => cfg = {}
       /\ pc[t] \notin {"idle", "ready"} => runs = {}
  /\ runs = {} => fut = 0
  /\ leaked => runs = {}

\* A leaked driver keeps the flag for ever, and nobody else has it.
LeakOK == leaked => \A t \in Threads : pc[t] = "idle"

\* The inductive invariant.
LifeIInv == LifeTypeOK /\ OneDriver /\ FreshWhenFree /\ Owned /\ Phases /\ LeakOK

\* Before the first driver.
LEMMA LifeInitIInv == LifeInit => LifeIInv
<1> SUFFICES ASSUME LifeInit PROVE LifeIInv
  OBVIOUS
<1> USE DEF LifeInit
<1>1. 0 \in Ids
  BY DEF Ids
<1>2. LifeTypeOK
  BY <1>1 DEF LifeTypeOK
<1>3. OneDriver /\ LeakOK
  BY DEF OneDriver, LeakOK
<1>4. FreshWhenFree
  BY DEF FreshWhenFree
<1>5. Owned /\ Phases
  BY DEF Owned, Phases
<1> QED
  BY <1>2, <1>3, <1>4, <1>5 DEF LifeIInv

\* A step of the thread that has the flag.
LEMMA LifeStepIInv ==
  ASSUME LifeIInv, NEW t \in Threads,
         Step(t) \/ Forget(t) \/ BeginDrop(t)
  PROVE  LifeIInv'
<1> USE DEF LifeIInv, LifeTypeOK, OneDriver, FreshWhenFree, Owned, Phases, LeakOK, Ids, RunIds,
            StackAt, slotVars, runVars, Goto
<1>0. pc[t] # "idle" /\ \A u \in Threads : u # t => pc[u] = "idle"
  BY DEF Step, PortInit, PortInitDone, Configure, AddServices, ClearAll, PortDeinit,
         PortDeinitDone, Release, Forget, BeginDrop, Ready
<1>1. CASE PortInit(t)
  BY <1>0, <1>1 DEF PortInit
<1>2. CASE PortInitDone(t)
  BY <1>0, <1>2 DEF PortInitDone
<1>3. CASE Configure(t)
  BY <1>0, <1>3 DEF Configure
<1>4. CASE AddServices(t)
  BY <1>0, <1>4 DEF AddServices
<1>5. CASE ClearAll(t)
  BY <1>0, <1>5 DEF ClearAll
<1>6. CASE PortDeinit(t)
  BY <1>0, <1>6 DEF PortDeinit
<1>7. CASE PortDeinitDone(t)
  BY <1>0, <1>7 DEF PortDeinitDone
<1>8. CASE Release(t)
  BY <1>0, <1>8, ZenonT(60) DEF Release
<1>9. CASE Forget(t)
  BY <1>0, <1>9 DEF Forget, Ready
<1>10. CASE BeginDrop(t)
  BY <1>0, <1>10 DEF BeginDrop, Ready
<1> QED
  BY <1>1, <1>2, <1>3, <1>4, <1>5, <1>6, <1>7, <1>8, <1>9, <1>10 DEF Step

\* Every step keeps the invariant.
LEMMA LifeNextIInv == LifeIInv /\ [LifeNext]_lifeVars => LifeIInv'
<1> SUFFICES ASSUME LifeIInv, [LifeNext]_lifeVars PROVE LifeIInv'
  OBVIOUS
<1> USE DEF LifeTypeOK, OneDriver, FreshWhenFree, Owned, Phases, LeakOK, Ids, RunIds,
            StackAt, slotVars, runVars, Goto, Ready
<1>1. ASSUME NEW t \in Threads, Take(t) PROVE LifeIInv'
  BY <1>1 DEF Take, LifeIInv
<1>2. ASSUME NEW t \in Threads, Step(t) \/ Forget(t) \/ BeginDrop(t) PROVE LifeIInv'
  BY <1>2, LifeStepIInv
<1>3. ASSUME NEW s \in Slots, SetSlot(s) PROVE LifeIInv'
  BY <1>3 DEF SetSlot, LifeIInv
<1>4. ASSUME NEW s \in Slots, ClearSlot(s) PROVE LifeIInv'
  BY <1>4 DEF ClearSlot, LifeIInv
<1>5. ASSUME NEW r \in RunIds, StartRun(r) PROVE LifeIInv'
  BY <1>5 DEF StartRun, LifeIInv
<1>6. ASSUME NEW r \in RunIds, DropRun(r) PROVE LifeIInv'
  BY <1>6 DEF DropRun, LifeIInv
<1>7. CASE UNCHANGED lifeVars
  BY <1>7 DEF lifeVars, LifeIInv
<1> QED
  BY <1>1, <1>2, <1>3, <1>4, <1>5, <1>6, <1>7 DEF LifeNext

\* The invariant holds in every behaviour.
LEMMA LifeInvariance == LifeSpec => []LifeIInv
BY LifeInitIInv, LifeNextIInv, PTL DEF LifeSpec

(***************************************************************************)
(* Every variable keeps its type, and the C host is in the state in which  *)
(* the thread that constructs, uses or drops the driver expects it.        *)
(***************************************************************************)
THEOREM LifeTypeCorrect == LifeSpec => []LifeTypeOK
<1>1. LifeIInv => LifeTypeOK
  BY DEF LifeIInv
<1> QED
  BY <1>1, LifeInvariance, PTL

(***************************************************************************)
(* However many threads construct and drop drivers, one has the stack at a *)
(* time, and TAKEN says so (lib.rs:486-495, 614).                          *)
(***************************************************************************)
THEOREM OneDriverAtATime == LifeSpec => []OneDriver
<1>1. LifeIInv => OneDriver
  BY DEF LifeIInv
<1> QED
  BY <1>1, LifeInvariance, PTL

(***************************************************************************)
(* No callback slot, parker or service table refers to a driver that is    *)
(* gone while the host can run (lib.rs:412-422).                           *)
(***************************************************************************)
THEOREM NothingDangles == LifeSpec => []NoDangling
<1>1. LifeIInv => NoDangling
  BY DEF LifeIInv, Owned, NoDangling, HostRuns
<1> QED
  BY <1>1, LifeInvariance, PTL

(***************************************************************************)
(* A new driver starts from what the first one found, whatever became of   *)
(* the one before (lib.rs:461-469, 491-494, 586-615).                      *)
(***************************************************************************)
THEOREM FreshStart == LifeSpec => []FreshWhenFree
<1>1. LifeIInv => FreshWhenFree
  BY DEF LifeIInv
<1> QED
  BY <1>1, LifeInvariance, PTL

-----------------------------------------------------------------------------
(* Critical sections.                                                      *)

\* The initial state satisfies the inductive invariant.
LEMMA CsInitOK == CsInit => CsIInv
  BY CriticalAssumption DEF CsInit, CsIInv, CsTypeOK, Labels, Holding

\* Every step keeps it.
LEMMA CsStepOK == CsIInv /\ [CsNext]_csVars => CsIInv'
<1> SUFFICES ASSUME CsIInv, [CsNext]_csVars PROVE CsIInv'
  OBVIOUS
<1> USE CriticalAssumption
<1>1. CASE UNCHANGED csVars
  BY <1>1 DEF csVars, CsIInv, CsTypeOK, Holding
<1>2. ASSUME NEW t \in Contexts, EnterCritical(t) PROVE CsIInv'
  <2>1. CsTypeOK'
    BY <1>2 DEF EnterCritical, CsGoto, CsIInv, CsTypeOK, Labels
  <2>2. CASE owner = ctx_id[t]
    <3>1. nest[t] > 0 /\ at[t] = "in"
      <4>1. PICK s \in Contexts : nest[s] # 0
        BY <2>2 DEF CsIInv
      <4>2. s = t
        BY <2>2, <4>1 DEF CsIInv, CsTypeOK
      <4> QED
        BY <1>2, <4>1, <4>2 DEF EnterCritical, CsIInv, CsTypeOK
    <3> QED
      BY <1>2, <2>1, <2>2, <3>1 DEF EnterCritical, CsGoto, CsIInv, CsTypeOK, Labels, Holding
  <2>3. CASE owner # ctx_id[t]
    <3>1. nest[t] = 0 /\ at[t] = "out"
      <4>1. nest[t] \in Nat /\ ~(nest[t] > 0)
        BY <2>3 DEF CsIInv, CsTypeOK
      <4> QED
        BY <1>2, <4>1 DEF EnterCritical, CsIInv
    <3> QED
      BY <1>2, <2>1, <2>3, <3>1 DEF EnterCritical, CsGoto, CsIInv, CsTypeOK, Labels, Holding
  <2> QED
    BY <2>2, <2>3
<1>3. ASSUME NEW t \in Contexts, EnterAcquire(t) PROVE CsIInv'
  BY <1>3 DEF EnterAcquire, acquire, CsGoto, CsIInv, CsTypeOK, Labels, Holding, CS_STATE
<1>4. ASSUME NEW t \in Contexts, EnterOwn(t) PROVE CsIInv'
  BY <1>4 DEF EnterOwn, CsGoto, CsIInv, CsTypeOK, Labels, Holding
<1>5. ASSUME NEW t \in Contexts, ExitCritical(t) PROVE CsIInv'
  BY <1>5 DEF ExitCritical, CsGoto, CsIInv, CsTypeOK, Labels, Holding
<1>6. ASSUME NEW t \in Contexts, ExitRelease(t) PROVE CsIInv'
  BY <1>6 DEF ExitRelease, release, CsGoto, CsIInv, CsTypeOK, Labels, Holding
<1>7. ASSUME NEW t \in Contexts, WithBegin(t) PROVE CsIInv'
  BY <1>7 DEF WithBegin, acquire, CsGoto, CsIInv, CsTypeOK, Labels, Holding, CS_STATE
<1>8. ASSUME NEW t \in Contexts, WithEnd(t) PROVE CsIInv'
  BY <1>8 DEF WithEnd, release, CsGoto, CsIInv, CsTypeOK, Labels, Holding, CS_STATE
<1> QED
  BY <1>1, <1>2, <1>3, <1>4, <1>5, <1>6, <1>7, <1>8 DEF CsNext, CsStep

\* The invariant holds of every behaviour.
THEOREM CsInductive == CsSpec => []CsIInv
  BY CsInitOK, CsStepOK, PTL DEF CsSpec

\* CS_STATE, the lock and the program counters keep their types.
THEOREM CsTypeCorrect == CsSpec => []CsTypeOK
<1>1. CsIInv => CsTypeOK
  BY DEF CsIInv
<1> QED
  BY <1>1, CsInductive, PTL

\* At most one thread is in a critical section, however sections nest and
\* whenever the owner is read (ble_npl_hw_enter_critical).
THEOREM MutualExclusion == CsSpec => []Exclusive
<1>1. CsIInv => Exclusive
  BY CriticalAssumption DEF CsIInv, CsTypeOK, Exclusive, Inside, Holding
<1> QED
  BY <1>1, CsInductive, PTL

\* A thread knows whether it is inside, has the lock until its outermost
\* exit, and gives it back there (ble_npl_hw_is_in_critical,
\* ble_npl_hw_exit_critical).
THEOREM OwnerCorrect == CsSpec => []KnowsAndKeeps
<1>1. CsIInv => KnowsAndKeeps
  <2> SUFFICES ASSUME CsIInv PROVE KnowsAndKeeps
    OBVIOUS
  <2>1. ASSUME NEW t \in Contexts, nest[t] > 0
        PROVE  lock = t /\ depth = nest[t] /\ hw_is_in_critical(t)
    BY <2>1 DEF CsIInv, CsTypeOK, Holding, hw_is_in_critical
  <2>2. ASSUME NEW t \in Contexts, hw_is_in_critical(t) PROVE nest[t] > 0
    <3>1. PICK s \in Contexts : nest[s] # 0
      BY <2>2, CriticalAssumption DEF CsIInv, hw_is_in_critical
    <3>2. s = t
      BY <2>2, <3>1, CriticalAssumption DEF CsIInv, CsTypeOK, hw_is_in_critical
    <3> QED
      BY <3>1, <3>2 DEF CsIInv, CsTypeOK
  <2>3. (\A t \in Contexts : at[t] \in {"out", "acquire"}) => lock = NONE
    BY CriticalAssumption DEF CsIInv, CsTypeOK, Holding
  <2> QED
    BY <2>1, <2>2, <2>3 DEF KnowsAndKeeps
<1> QED
  BY <1>1, CsInductive, PTL
================================================================================
