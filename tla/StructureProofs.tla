---------------------------- MODULE StructureProofs ----------------------------
(***************************************************************************)
(* Lemmas about the data structures the components keep, for any contents. *)
(*                                                                         *)
(* Lists: what the operations of C code on singly linked lists do to the   *)
(* sequence a list spells out.  The proofs about the event queue, the      *)
(* callouts and the memory pools rest on these.                            *)
(*                                                                         *)
(* Service tables: for any services, the walk of a reader of the C         *)
(* structures over a table built by BleGattServices::new, or by the macro  *)
(* gatt_services!, finds the services the table was built from, and the    *)
(* handles the C host gives them rise in the order of the table.  Each     *)
(* loop that fills or reads an array has a lemma that says what it has     *)
(* done after n rounds, proved by induction over the set of such n         *)
(* (Upwards).  The proofs about the GATT server and client rest on these.  *)
(***************************************************************************)
EXTENDS LinkedLists, GattTable, SequencesExt, SequenceTheorems, FiniteSetTheorems,
        WellFoundedInduction, TLAPS

\* A non-empty set of natural numbers has a least element; it stands in for
\* an induction along the list.
LEMMA LeastNumber ==
  ASSUME NEW T \in SUBSET Nat, T # {}
  PROVE  \E m \in T : \A k \in T : m <= k
<1>1. \E x \in T : \A y \in T : ~ (<<y, x>> \in OpToRel(<, Nat))
  BY WFMin, NatLessThanWellFounded
<1>2. \A x, y \in Nat : x < y => <<x, y>> \in OpToRel(<, Nat)
  BY DEF OpToRel
<1>3. PICK m \in T : \A y \in T : ~ (<<y, m>> \in OpToRel(<, Nat))
  BY <1>1
<1>4. \A y \in T : ~(y < m)
  BY <1>2, <1>3
<1>5. \A y \in T : m <= y
  BY <1>4
<1> QED
  BY <1>5

\* What dropping one position leaves of a sequence.
LEMMA RemoveAtProperties ==
  ASSUME NEW S, NEW s \in Seq(S), NEW i \in 1..Len(s)
  PROVE  /\ RemoveAt(s, i) \in Seq(S)
         /\ Len(RemoveAt(s, i)) = Len(s) - 1
         /\ \A j \in 1..(Len(s) - 1) :
              RemoveAt(s, i)[j] = IF j < i THEN s[j] ELSE s[j + 1]
<1> DEFINE a == SubSeq(s, 1, i - 1)
           b == SubSeq(s, i + 1, Len(s))
<1>1. Len(s) \in Nat /\ \A j \in 1..Len(s) : s[j] \in S
  BY ElementOfSeq, LenProperties
<1>2. /\ a \in Seq(S) /\ Len(a) = i - 1
      /\ \A j \in 1..(i - 1) : a[j] = s[j]
  BY <1>1
<1>3. /\ b \in Seq(S) /\ Len(b) = Len(s) - i
      /\ \A j \in 1..(Len(s) - i) : b[j] = s[j + i]
  BY <1>1
<1>4. /\ a \o b \in Seq(S)
      /\ Len(a \o b) = Len(a) + Len(b)
      /\ \A j \in 1..(Len(a) + Len(b)) :
           (a \o b)[j] = IF j <= Len(a) THEN a[j] ELSE b[j - Len(a)]
  BY <1>2, <1>3, ConcatProperties
<1>5. RemoveAt(s, i) = a \o b
  BY DEF RemoveAt
<1> HIDE DEF a, b
<1>6. ASSUME NEW j \in 1..(Len(s) - 1)
      PROVE  (a \o b)[j] = IF j < i THEN s[j] ELSE s[j + 1]
  <2>1. CASE j < i
    BY <2>1, <1>1, <1>2, <1>3, <1>4
  <2>2. CASE ~(j < i)
    <3>1. (a \o b)[j] = b[j - (i - 1)]
      BY <2>2, <1>1, <1>2, <1>3, <1>4
    <3>2. j - (i - 1) \in 1..(Len(s) - i) /\ (j - (i - 1)) + i = j + 1
      BY <2>2, <1>1
    <3> QED
      BY <2>2, <3>1, <3>2, <1>3
  <2> QED
    BY <2>1, <2>2
<1> QED
  BY <1>1, <1>2, <1>3, <1>4, <1>5, <1>6

-----------------------------------------------------------------------------
(* Lists.                                                                  *)

\* A walk from the head meets exactly the members of the list.
LEMMA WalkedIsRange ==
  ASSUME NEW Nodes, NEW null, null \notin Nodes,
         NEW head, NEW next \in [Nodes -> Nodes \cup {null}],
         NEW s \in Seq(Nodes), Spells(s, head, next, null)
  PROVE  Walked(Nodes, head, next, null) = Range(s)
<1> DEFINE M == {s[i] : i \in 1..Len(s)}
<1>1. Len(s) \in Nat /\ (\A i \in 1..Len(s) : s[i] \in Nodes) /\ M = Range(s)
  BY ElementOfSeq, LenProperties DEF Range
<1>2. M \in SUBSET Nodes
  BY <1>1
<1>3. ClosedUnder(M, head, next, null)
  <2>1. head # null => head \in M
    BY <1>1, EmptySeq DEF Spells
  <2>2. ASSUME NEW x \in M, next[x] # null
        PROVE  next[x] \in M
    <3>1. PICK i \in 1..Len(s) : x = s[i]
      OBVIOUS
    <3>2. i # Len(s) /\ next[x] = s[i + 1]
      BY <2>2, <3>1 DEF Spells
    <3>3. i + 1 \in 1..Len(s)
      BY <1>1, <3>2
    <3> QED
      BY <3>2, <3>3
  <2> QED
    BY <2>1, <2>2 DEF ClosedUnder
<1>4. Walked(Nodes, head, next, null) \subseteq M
  BY <1>2, <1>3 DEF Walked
<1>5. ASSUME NEW S \in SUBSET Nodes, ClosedUnder(S, head, next, null), NEW i \in 1..Len(s)
      PROVE  s[i] \in S
  <2> DEFINE Out == {k \in 1..Len(s) : s[k] \notin S}
  <2>1. SUFFICES ASSUME Out # {} PROVE FALSE
    OBVIOUS
  <2>2. Out \in SUBSET Nat
    BY <1>1
  <2>3. PICK m \in Out : \A k \in Out : m <= k
    BY <2>1, <2>2, LeastNumber
  <2>4. CASE m = 1
    <3>1. head = s[1] /\ head # null
      BY <1>1, <2>3, <2>4, EmptySeq DEF Spells
    <3> QED
      BY <1>5, <2>3, <2>4, <3>1 DEF ClosedUnder
  <2>5. CASE m # 1
    <3>1. m - 1 \in 1..Len(s) /\ m - 1 \notin Out /\ m - 1 # Len(s)
      BY <1>1, <2>3, <2>5
    <3>2. s[m - 1] \in S /\ next[s[m - 1]] = s[m]
      BY <1>1, <3>1 DEF Spells
    <3>3. s[m] # null
      BY <1>1, <2>3
    <3> QED
      BY <1>5, <2>3, <3>2, <3>3 DEF ClosedUnder
  <2> QED
    BY <2>4, <2>5
<1>6. M \subseteq Walked(Nodes, head, next, null)
  BY <1>1, <1>5 DEF Walked
<1> QED
  BY <1>1, <1>4, <1>6

\* The links of the members are all that matters.
LEMMA SpellsFrame ==
  ASSUME NEW Nodes, NEW null, NEW head, NEW next, NEW next2,
         NEW s \in Seq(Nodes), Spells(s, head, next, null),
         \A i \in 1..Len(s) : next2[s[i]] = next[s[i]]
  PROVE  Spells(s, head, next2, null)
BY DEF Spells

\* The members after a push to the front.
LEMMA RangePush ==
  ASSUME NEW Nodes, NEW s \in Seq(Nodes), NEW b \in Nodes
  PROVE  Range(<<b>> \o s) = Range(s) \cup {b}
<1> DEFINE q == <<b>> \o s
<1>1. Len(s) \in Nat
  BY LenProperties
<1>2. /\ q \in Seq(Nodes) /\ Len(q) = Len(s) + 1
      /\ q[1] = b /\ \A i \in 1..Len(s) : q[i + 1] = s[i]
  BY <1>1
<1> HIDE DEF q
<1>3. \A i \in 2..Len(q) : i - 1 \in 1..Len(s) /\ q[i] = s[i - 1]
  <2> SUFFICES ASSUME NEW i \in 2..Len(q) PROVE i - 1 \in 1..Len(s) /\ q[i] = s[i - 1]
    OBVIOUS
  <2>1. i - 1 \in 1..Len(s) /\ (i - 1) + 1 = i
    BY <1>1, <1>2
  <2> QED
    BY <1>2, <2>1
<1>4. Range(q) = Range(s) \cup {b}
  <2>1. DOMAIN q = 1..Len(q) /\ DOMAIN s = 1..Len(s)
    BY <1>2
  <2>2. ASSUME NEW i \in 1..Len(q) PROVE q[i] \in Range(s) \cup {b}
    <3>1. CASE i = 1
      BY <3>1, <1>2
    <3>2. CASE i # 1
      BY <3>2, <1>1, <1>2, <1>3, <2>1 DEF Range
    <3> QED
      BY <3>1, <3>2
  <2>3. ASSUME NEW i \in 1..Len(s) PROVE s[i] \in Range(q)
    <3>1. i + 1 \in 1..Len(q) /\ q[i + 1] = s[i]
      BY <1>1, <1>2
    <3> QED
      BY <2>1, <3>1 DEF Range
  <2>4. b \in Range(q)
    <3>1. 1 \in 1..Len(q)
      BY <1>1, <1>2
    <3> QED
      BY <1>2, <2>1, <3>1 DEF Range
  <2> QED
    BY <2>1, <2>2, <2>3, <2>4 DEF Range
<1> QED
  BY <1>4 DEF q

\* Push to the front.
LEMMA SpellsPush ==
  ASSUME NEW Nodes, NEW null, NEW head, NEW next \in [Nodes -> Nodes \cup {null}],
         NEW s \in Seq(Nodes), Spells(s, head, next, null), Distinct(s),
         NEW b \in Nodes, b \notin Range(s)
  PROVE  /\ <<b>> \o s \in Seq(Nodes)
         /\ Len(<<b>> \o s) = Len(s) + 1
         /\ Spells(<<b>> \o s, b, [next EXCEPT ![b] = head], null)
         /\ Distinct(<<b>> \o s)
<1> DEFINE q == <<b>> \o s
<1>1. Len(s) \in Nat /\ \A i \in 1..Len(s) : s[i] \in Nodes /\ s[i] # b
  BY ElementOfSeq, LenProperties DEF Range
<1>2. /\ q \in Seq(Nodes) /\ Len(q) = Len(s) + 1
      /\ q[1] = b /\ \A i \in 1..Len(s) : q[i + 1] = s[i]
  BY <1>1
<1> HIDE DEF q
<1>3. \A i \in 2..Len(q) : i - 1 \in 1..Len(s) /\ q[i] = s[i - 1]
  <2> SUFFICES ASSUME NEW i \in 2..Len(q) PROVE i - 1 \in 1..Len(s) /\ q[i] = s[i - 1]
    OBVIOUS
  <2>1. i - 1 \in 1..Len(s) /\ (i - 1) + 1 = i
    BY <1>1, <1>2
  <2> QED
    BY <1>2, <2>1
<1>5. Distinct(q)
  <2> SUFFICES ASSUME NEW i \in 1..Len(q), NEW j \in 1..Len(q), q[i] = q[j]
               PROVE  i = j
    BY DEF Distinct
  <2>1. CASE i = 1 \/ j = 1
    <3>1. \A k \in 2..Len(q) : q[k] # b
      BY <1>1, <1>3
    <3>2. \A k \in 1..Len(q) : k # 1 => k \in 2..Len(q)
      BY <1>1, <1>2
    <3> QED
      BY <2>1, <3>1, <3>2, <1>2
  <2>2. CASE i # 1 /\ j # 1
    <3>1. i \in 2..Len(q) /\ j \in 2..Len(q)
      BY <2>2, <1>1, <1>2
    <3>2. s[i - 1] = s[j - 1] /\ i - 1 \in 1..Len(s) /\ j - 1 \in 1..Len(s)
      BY <3>1, <1>3
    <3>3. i - 1 = j - 1
      BY <3>2 DEF Distinct
    <3> QED
      BY <3>3
  <2> QED
    BY <2>1, <2>2
<1>6. Spells(q, b, [next EXCEPT ![b] = head], null)
  <2> DEFINE n2 == [next EXCEPT ![b] = head]
  <2>1. b = IF q = << >> THEN null ELSE q[1]
    BY <1>1, <1>2, EmptySeq
  <2>2. ASSUME NEW i \in 1..Len(q)
        PROVE  n2[q[i]] = IF i = Len(q) THEN null ELSE q[i + 1]
    <3>1. CASE i = 1
      <4>1. n2[q[i]] = head
        BY <3>1, <1>2
      <4>2. CASE s = << >>
        BY <4>1, <4>2, <3>1, <1>2, EmptySeq DEF Spells
      <4>3. CASE s # << >>
        <5>1. 1 \in 1..Len(s) /\ head = s[1]
          BY <4>3, <1>1, EmptySeq DEF Spells
        <5> QED
          BY <4>1, <5>1, <3>1, <1>1, <1>2
      <4> QED
        BY <4>2, <4>3
    <3>2. CASE i # 1
      <4>1. i - 1 \in 1..Len(s) /\ q[i] = s[i - 1]
        BY <3>2, <1>1, <1>2, <1>3
      <4>2. n2[q[i]] = next[s[i - 1]]
        BY <4>1, <1>1
      <4>3. CASE i = Len(q)
        BY <4>1, <4>2, <4>3, <1>1, <1>2 DEF Spells
      <4>4. CASE i # Len(q)
        <5>1. i - 1 # Len(s) /\ (i - 1) + 1 = i /\ i \in 1..Len(s) /\ q[i + 1] = s[i]
          BY <4>4, <4>1, <1>1, <1>2
        <5> QED
          BY <4>1, <4>2, <4>4, <5>1 DEF Spells
      <4> QED
        BY <4>3, <4>4
    <3> QED
      BY <3>1, <3>2
  <2> QED
    BY <2>1, <2>2 DEF Spells
<1> QED
  BY <1>2, <1>5, <1>6 DEF q

\* Pop from the front.
LEMMA SpellsPop ==
  ASSUME NEW Nodes, NEW null, NEW head, NEW next \in [Nodes -> Nodes \cup {null}],
         NEW s \in Seq(Nodes), Spells(s, head, next, null), Distinct(s), s # << >>
  PROVE  /\ Tail(s) \in Seq(Nodes)
         /\ Len(Tail(s)) = Len(s) - 1
         /\ head \in Nodes
         /\ Range(Tail(s)) = Range(s) \ {head}
         /\ Spells(Tail(s), next[head], next, null)
         /\ Distinct(Tail(s))
<1> DEFINE q == Tail(s)
<1>1. Len(s) \in Nat /\ Len(s) # 0 /\ \A i \in 1..Len(s) : s[i] \in Nodes
  BY ElementOfSeq, LenProperties, EmptySeq
<1>2. /\ q \in Seq(Nodes) /\ Len(q) = Len(s) - 1
      /\ \A i \in 1..Len(q) : q[i] = s[i + 1]
  BY <1>1, HeadTailProperties
<1>3. head = s[1] /\ head \in Nodes
  BY <1>1 DEF Spells
<1> HIDE DEF q
<1>4. Distinct(q)
  <2> SUFFICES ASSUME NEW i \in 1..Len(q), NEW j \in 1..Len(q), q[i] = q[j]
               PROVE  i = j
    BY DEF Distinct
  <2>1. i + 1 \in 1..Len(s) /\ j + 1 \in 1..Len(s) /\ s[i + 1] = s[j + 1]
    BY <1>1, <1>2
  <2>2. i + 1 = j + 1
    BY <2>1 DEF Distinct
  <2> QED
    BY <2>2
<1>5. Range(q) = Range(s) \ {head}
  <2>1. DOMAIN q = 1..Len(q) /\ DOMAIN s = 1..Len(s)
    BY <1>2
  <2>2. ASSUME NEW i \in 1..Len(q) PROVE q[i] \in Range(s) /\ q[i] # head
    <3>1. i + 1 \in 1..Len(s) /\ q[i] = s[i + 1] /\ 1 \in 1..Len(s) /\ i + 1 # 1
      BY <1>1, <1>2
    <3>2. s[i + 1] # s[1]
      BY <3>1 DEF Distinct
    <3> QED
      BY <3>1, <3>2, <1>3, <2>1 DEF Range
  <2>3. ASSUME NEW i \in 1..Len(s), s[i] # head PROVE s[i] \in Range(q)
    <3>1. i # 1
      BY <2>3, <1>3
    <3>2. i - 1 \in 1..Len(q) /\ (i - 1) + 1 = i
      BY <3>1, <1>1, <1>2
    <3>3. q[i - 1] = s[i]
      BY <3>2, <1>2
    <3> QED
      BY <3>2, <3>3, <2>1 DEF Range
  <2> QED
    BY <2>1, <2>2, <2>3 DEF Range
<1>6. Spells(q, next[head], next, null)
  <2>1. next[head] = IF Len(s) = 1 THEN null ELSE s[2]
    <3>1. 1 \in 1..Len(s) /\ 1 + 1 = 2
      BY <1>1
    <3>2. next[s[1]] = IF 1 = Len(s) THEN null ELSE s[1 + 1]
      BY <3>1 DEF Spells
    <3> QED
      BY <3>1, <3>2, <1>3
  <2>2. next[head] = IF q = << >> THEN null ELSE q[1]
    <3>1. q = << >> <=> Len(s) = 1
      BY <1>1, <1>2, EmptySeq
    <3>2. Len(s) # 1 => q[1] = s[2]
      BY <1>1, <1>2
    <3> QED
      BY <2>1, <3>1, <3>2
  <2>3. ASSUME NEW i \in 1..Len(q)
        PROVE  next[q[i]] = IF i = Len(q) THEN null ELSE q[i + 1]
    <3>1. i + 1 \in 1..Len(s) /\ q[i] = s[i + 1] /\ (i = Len(q) <=> i + 1 = Len(s))
      BY <1>1, <1>2
    <3>2. next[q[i]] = IF i + 1 = Len(s) THEN null ELSE s[(i + 1) + 1]
      BY <3>1 DEF Spells
    <3>3. i # Len(q) => i + 1 \in 1..Len(q) /\ q[i + 1] = s[(i + 1) + 1]
      BY <1>1, <1>2
    <3> QED
      BY <3>1, <3>2, <3>3
  <2> QED
    BY <2>2, <2>3 DEF Spells
<1> QED
  BY <1>2, <1>3, <1>4, <1>5, <1>6 DEF q

\* Insert at the end, through the link of the last node.
LEMMA SpellsAppend ==
  ASSUME NEW Nodes, NEW null, NEW head, NEW next \in [Nodes -> Nodes \cup {null}],
         NEW s \in Seq(Nodes), Spells(s, head, next, null), Distinct(s),
         NEW b \in Nodes, b \notin Range(s),
         NEW next2 \in [Nodes -> Nodes \cup {null}],
         next2[b] = null,
         s # << >> => next2[s[Len(s)]] = b,
         \A i \in 1..(Len(s) - 1) : next2[s[i]] = next[s[i]]
  PROVE  /\ Append(s, b) \in Seq(Nodes)
         /\ Append(s, b) # << >>
         /\ Append(s, b)[Len(Append(s, b))] = b
         /\ Spells(Append(s, b), IF s = << >> THEN b ELSE head, next2, null)
         /\ Distinct(Append(s, b))
<1> DEFINE q == Append(s, b)
<1>1. Len(s) \in Nat /\ \A i \in 1..Len(s) : s[i] \in Nodes /\ s[i] # b
  BY ElementOfSeq, LenProperties DEF Range
<1>2. /\ q \in Seq(Nodes) /\ Len(q) = Len(s) + 1
      /\ q[Len(s) + 1] = b /\ \A i \in 1..Len(s) : q[i] = s[i]
  BY <1>1, AppendProperties
<1> HIDE DEF q
<1>3. q # << >> /\ q[Len(q)] = b
  BY <1>1, <1>2, EmptySeq
<1>4. \A i \in 1..Len(q) : i = Len(s) + 1 \/ i \in 1..Len(s)
  BY <1>1, <1>2
<1>5. Distinct(q)
  <2> SUFFICES ASSUME NEW i \in 1..Len(q), NEW j \in 1..Len(q), q[i] = q[j]
               PROVE  i = j
    BY DEF Distinct
  <2> QED
    BY <1>1, <1>2, <1>4 DEF Distinct
<1>6. (IF s = << >> THEN b ELSE head) = IF q = << >> THEN null ELSE q[1]
  <2>1. CASE s = << >>
    BY <2>1, <1>2, <1>3, EmptySeq
  <2>2. CASE s # << >>
    <3>1. 1 \in 1..Len(s)
      BY <2>2, <1>1, EmptySeq
    <3> QED
      BY <2>2, <3>1, <1>2, <1>3 DEF Spells
  <2> QED
    BY <2>1, <2>2
<1>7. ASSUME NEW i \in 1..Len(q)
      PROVE  next2[q[i]] = IF i = Len(q) THEN null ELSE q[i + 1]
  <2>1. CASE s = << >>
    <3>1. i = 1 /\ i = Len(q) /\ q[i] = b
      BY <2>1, <1>1, <1>2, EmptySeq
    <3> QED
      BY <2>1, <3>1
  <2>2. CASE s # << >>
    <3>1. Len(s) \in 1..Len(s) /\ s[Len(s)] \in Nodes /\ s[Len(s)] # b
      BY <2>2, <1>1, EmptySeq
    <3>2. CASE i = Len(s) + 1
      BY <2>2, <3>1, <3>2, <1>2
    <3>3. CASE i = Len(s)
      <4>1. q[i] = s[Len(s)] /\ q[i + 1] = b /\ i # Len(q)
        BY <3>1, <3>3, <1>1, <1>2
      <4> QED
        BY <2>2, <4>1
    <3>4. CASE i # Len(s) /\ i # Len(s) + 1
      <4>1. i \in 1..Len(s) /\ i + 1 \in 1..Len(s) /\ i # Len(q)
        BY <3>4, <1>1, <1>2
      <4>2. q[i] = s[i] /\ q[i + 1] = s[i + 1]
        BY <4>1, <1>2
      <4>3. i \in 1..(Len(s) - 1)
        BY <3>4, <4>1, <1>1
      <4>4. next2[s[i]] = next[s[i]]
        BY <4>3
      <4>5. next[s[i]] = s[i + 1]
        BY <3>4, <4>1 DEF Spells
      <4> QED
        BY <4>1, <4>2, <4>4, <4>5
    <3> QED
      BY <3>2, <3>3, <3>4
  <2> QED
    BY <2>1, <2>2
<1>8. Spells(q, IF s = << >> THEN b ELSE head, next2, null)
  BY <1>6, <1>7 DEF Spells
<1> QED
  BY <1>2, <1>3, <1>5, <1>8 DEF q

\* Take out the i-th node, through the link of the one before it.
LEMMA SpellsRemove ==
  ASSUME NEW Nodes, NEW null, NEW head, NEW next \in [Nodes -> Nodes \cup {null}],
         NEW s \in Seq(Nodes), Spells(s, head, next, null), Distinct(s),
         NEW i \in 1..Len(s),
         NEW next2 \in [Nodes -> Nodes \cup {null}],
         i # 1 => next2[s[i - 1]] = next[s[i]],
         \A k \in 1..Len(s) : k # i - 1 => next2[s[k]] = next[s[k]]
  PROVE  /\ Spells(RemoveAt(s, i), IF i = 1 THEN next[head] ELSE head, next2, null)
         /\ Distinct(RemoveAt(s, i))
<1> DEFINE q == RemoveAt(s, i)
<1>1. Len(s) \in Nat /\ \A k \in 1..Len(s) : s[k] \in Nodes
  BY ElementOfSeq, LenProperties
<1>2. /\ q \in Seq(Nodes) /\ Len(q) = Len(s) - 1
      /\ \A j \in 1..Len(q) : q[j] = IF j < i THEN s[j] ELSE s[j + 1]
  BY <1>1, RemoveAtProperties
<1> HIDE DEF q
<1> DEFINE At(j) == IF j < i THEN j ELSE j + 1
<1>3. \A j \in 1..Len(q) : At(j) \in 1..Len(s) /\ q[j] = s[At(j)] /\ At(j) # i
  BY <1>1, <1>2
<1>4. \A j, k \in 1..Len(q) : At(j) = At(k) => j = k
  BY <1>1, <1>2
<1> HIDE DEF At
<1>5. Distinct(q)
  BY <1>3, <1>4, SMTT(30) DEF Distinct
<1>6. next[s[i]] = IF i = Len(s) THEN null ELSE s[i + 1]
  BY DEF Spells
<1>7. (IF i = 1 THEN next[head] ELSE head) = IF q = << >> THEN null ELSE q[1]
  <2>0. q = << >> <=> Len(s) = 1
    BY <1>1, <1>2, EmptySeq
  <2>1. head = s[1]
    BY <1>1, EmptySeq DEF Spells
  <2>2. CASE Len(s) = 1
    BY <1>6, <2>0, <2>1, <2>2
  <2>3. CASE Len(s) # 1 /\ i = 1
    <3>1. 1 \in 1..Len(q) /\ q[1] = s[1 + 1]
      BY <1>1, <1>2, <2>3
    <3> QED
      BY <1>6, <2>0, <2>1, <2>3, <3>1
  <2>4. CASE Len(s) # 1 /\ i # 1
    <3>1. 1 \in 1..Len(q) /\ q[1] = s[1]
      BY <1>1, <1>2, <2>4
    <3> QED
      BY <2>0, <2>1, <2>4, <3>1
  <2> QED
    BY <2>2, <2>3, <2>4
<1>8. ASSUME NEW j \in 1..Len(q)
      PROVE  next2[q[j]] = IF j = Len(q) THEN null ELSE q[j + 1]
  <2>1. j = Len(q) \/ j + 1 \in 1..Len(q)
    BY <1>2, <1>1
  <2>2. CASE j = i - 1
    <3>1. i # 1 /\ At(j) = i - 1 /\ i - 1 \in 1..Len(s)
      BY <1>1, <1>2, <2>2 DEF At
    <3>2. next2[q[j]] = next[s[i]]
      BY <1>1, <1>3, <3>1
    <3>3. j = Len(q) <=> i = Len(s)
      BY <1>1, <1>2, <2>2
    <3>4. j # Len(q) => q[j + 1] = s[i + 1]
      BY <1>1, <1>2, <2>1, <2>2
    <3> QED
      BY <1>6, <3>2, <3>3, <3>4
  <2>3. CASE j # i - 1
    <3>1. At(j) # i - 1
      BY <1>1, <1>2, <2>3 DEF At
    <3>2. At(j) \in 1..Len(s) /\ q[j] = s[At(j)]
      BY <1>3
    <3>3. next2[q[j]] = next[s[At(j)]]
      BY <3>1, <3>2
    <3>4. next[s[At(j)]] = IF At(j) = Len(s) THEN null ELSE s[At(j) + 1]
      BY <1>3 DEF Spells
    <3>5. At(j) = Len(s) <=> j = Len(q)
      BY <1>1, <1>2, <2>3 DEF At
    <3>6. j # Len(q) => q[j + 1] = s[At(j) + 1]
      BY <1>1, <1>2, <2>1, <2>3 DEF At
    <3> QED
      BY <3>3, <3>4, <3>5, <3>6
  <2> QED
    BY <2>2, <2>3
<1>9. Spells(q, IF i = 1 THEN next[head] ELSE head, next2, null)
  BY <1>7, <1>8 DEF Spells
<1> QED
  BY <1>5, <1>9 DEF q

-----------------------------------------------------------------------------
(* Service tables.                                                         *)

\* Induction up to N over the numbers that have a property, as a set.
LEMMA Upwards ==
  ASSUME NEW N \in Nat, NEW S, 0 \in S, \A n \in 0..(N - 1) : n \in S => n + 1 \in S
  PROVE  \A n \in 0..N : n \in S
<1> DEFINE T == {n \in 0..N : n \notin S}
<1> SUFFICES ASSUME T # {} PROVE FALSE
  OBVIOUS
<1>1. PICK m \in T : \A k \in T : m <= k
  <2>1. T \in SUBSET Nat
    OBVIOUS
  <2> QED
    BY <2>1, LeastNumber
<1>2. m - 1 \in 0..(N - 1) /\ m - 1 \notin T
  BY <1>1
<1>3. m - 1 \in S
  BY <1>2
<1> QED
  BY <1>1, <1>2, <1>3

-----------------------------------------------------------------------------
\* CharsUpTo adds up.
LEMMA CharsUpToFacts ==
  ASSUME NEW services \in Seq(Services)
  PROVE  /\ DOMAIN CharsUpTo(services) = 0..Len(services)
         /\ CharsUpTo(services)[0] = 0
         /\ \A i \in 1..Len(services) :
              CharsUpTo(services)[i] = CharsUpTo(services)[i - 1] + Len(services[i].chrs)
<1> DEFINE Is(f, m) == f = [i \in 0..m |-> IF i = 0 THEN 0 ELSE f[i - 1] + Len(services[i].chrs)]
           S == {m \in Nat : \E f : Is(f, m)}
<1>0. Len(services) \in Nat
  BY LenProperties
<1>1. 0 \in S
  <2>1. PICK f : f = [i \in 0..0 |-> 0]
    OBVIOUS
  <2>2. Is(f, 0)
    BY <2>1
  <2> QED
    BY <2>2
<1>2. ASSUME NEW m \in 0..(Len(services) - 1), m \in S PROVE m + 1 \in S
  <2>1. PICK f : Is(f, m)
    BY <1>2
  <2>2. PICK g : g = [i \in 0..(m + 1) |-> IF i = m + 1 THEN f[m] + Len(services[m + 1].chrs)
                                                       ELSE f[i]]
    OBVIOUS
  <2>3. Is(g, m + 1)
    BY <2>1, <2>2, <1>0
  <2> QED
    BY <2>3, <1>0
<1>3. Len(services) \in S
  <2> HIDE DEF S
  <2>1. \A n \in 0..Len(services) : n \in S
    BY <1>0, <1>1, <1>2, Upwards
  <2> QED
    BY <2>1, <1>0
<1>4. Is(CharsUpTo(services), Len(services))
  BY <1>3 DEF CharsUpTo
<1> QED
  BY <1>4, <1>0

-----------------------------------------------------------------------------
(* Filling the arrays.                                                     *)

Fields == {"chars", "svc_uuids", "chr_defs", "svc_defs", "char_at", "def_at", "svc_at"}

\* What AddChr leaves in each field.
LEMMA AddChrFields ==
  ASSUME NEW t, DOMAIN t = Fields, NEW chr
  PROVE  /\ DOMAIN AddChr(t, chr) = Fields
         /\ AddChr(t, chr).chars = [t.chars EXCEPT ![t.char_at + 1] = chr]
         /\ AddChr(t, chr).chr_defs =
              [t.chr_defs EXCEPT ![t.def_at + 1] = make_chr(<<"chars", 0, t.char_at>>, chr.flags)]
         /\ AddChr(t, chr).char_at = t.char_at + 1 /\ AddChr(t, chr).def_at = t.def_at + 1
         /\ AddChr(t, chr).svc_uuids = t.svc_uuids /\ AddChr(t, chr).svc_defs = t.svc_defs
         /\ AddChr(t, chr).svc_at = t.svc_at
<1> HIDE DEF make_chr
<1> QED
  BY DEF AddChr, Fields

\* What AddSvc leaves in each field.
LEMMA AddSvcFields ==
  ASSUME NEW t, DOMAIN t = Fields, NEW s
  PROVE  /\ DOMAIN AddSvc(t, s) = Fields
         /\ AddSvc(t, s).svc_uuids = [t.svc_uuids EXCEPT ![t.svc_at + 1] = [uuid |-> s.uuid]]
         /\ AddSvc(t, s).svc_defs =
              [t.svc_defs EXCEPT ![t.svc_at + 1] =
                 make_svc(s.primary, <<"svc_uuids", 0, t.svc_at>>, <<"chr_defs", 0, t.def_at>>)]
         /\ AddSvc(t, s).chars = t.chars /\ AddSvc(t, s).chr_defs = t.chr_defs
         /\ AddSvc(t, s).char_at = t.char_at /\ AddSvc(t, s).def_at = t.def_at
         /\ AddSvc(t, s).svc_at = t.svc_at
  BY DEF AddSvc, Fields

\* An array of C places of which m from a on are filled from h.
Filled(old, C, a, m, h) == [k \in 1..C |-> IF k \in (a + 1)..(a + m) THEN h[k] ELSE old[k]]

\* One more place of an array is filled.
LEMMA FillOne ==
  ASSUME NEW C \in Nat, NEW a \in Nat, NEW m \in Nat, a + m < C, NEW old, NEW h
  PROVE  [Filled(old, C, a, m, h) EXCEPT ![a + m + 1] = h[a + m + 1]] =
           Filled(old, C, a, m + 1, h)
<1>1. PICK arr : arr = Filled(old, C, a, m, h)
  OBVIOUS
<1>2. PICK new : new = Filled(old, C, a, m + 1, h)
  OBVIOUS
<1>3. ASSUME NEW k \in 1..C PROVE [arr EXCEPT ![a + m + 1] = h[a + m + 1]][k] = new[k]
  <2>1. CASE k = a + m + 1
    BY <1>1, <1>2, <2>1 DEF Filled
  <2>2. CASE k # a + m + 1
    BY <1>1, <1>2, <2>2 DEF Filled
  <2> QED
    BY <2>1, <2>2
<1>4. DOMAIN arr = 1..C
  BY <1>1 DEF Filled
<1>5. new = [k \in 1..C |-> new[k]]
  BY <1>2 DEF Filled
<1> QED
  BY <1>1, <1>2, <1>3, <1>4, <1>5

\* What the place of a characteristic that starts at ca and da is filled with.
CharFill(chrs, ca, C) == [k \in 1..C |-> chrs[k - ca]]
DefFill(chrs, ca, da, D) ==
  [k \in 1..D |-> make_chr(<<"chars", 0, ca + (k - da) - 1>>, chrs[k - da].flags)]

\* r is t with the first j of chrs added.
Added(t, r, chrs, ca, da, C, D, j) ==
  /\ DOMAIN r = Fields
  /\ r.char_at = ca + j /\ r.def_at = da + j
  /\ r.svc_uuids = t.svc_uuids /\ r.svc_defs = t.svc_defs /\ r.svc_at = t.svc_at
  /\ r.chars = Filled(t.chars, C, ca, j, CharFill(chrs, ca, C))
  /\ r.chr_defs = Filled(t.chr_defs, D, da, j, DefFill(chrs, ca, da, D))

\* The loop over a service's characteristics.
LEMMA AddChrsFacts ==
  ASSUME NEW chrs \in Seq(Characteristics), NEW t, DOMAIN t = Fields,
         NEW ca \in Nat, NEW da \in Nat, t.char_at = ca, t.def_at = da,
         NEW C \in Nat, NEW D \in Nat,
         t.chars = [k \in 1..C |-> t.chars[k]], t.chr_defs = [k \in 1..D |-> t.chr_defs[k]],
         ca + Len(chrs) <= C, da + Len(chrs) <= D
  PROVE  Added(t, AddChrs(t, chrs), chrs, ca, da, C, D, Len(chrs))
<1> DEFINE Is(f, m) == f = [j \in 0..m |-> IF j = 0 THEN t ELSE AddChr(f[j - 1], chrs[j])]
           S == {m \in Nat : \E f : Is(f, m)}
<1>0. Len(chrs) \in Nat
  BY LenProperties
<1>1. 0 \in S
  <2>1. PICK f : f = [i \in 0..0 |-> t]
    OBVIOUS
  <2>2. Is(f, 0)
    BY <2>1
  <2> QED
    BY <2>2
<1>2. ASSUME NEW m \in 0..(Len(chrs) - 1), m \in S PROVE m + 1 \in S
  <2>1. PICK f : Is(f, m)
    BY <1>2
  <2>2. PICK g : g = [j \in 0..(m + 1) |-> IF j = m + 1 THEN AddChr(f[m], chrs[m + 1]) ELSE f[j]]
    OBVIOUS
  <2>3. Is(g, m + 1)
    BY <2>1, <2>2, <1>0
  <2>4. m + 1 \in Nat
    BY <1>0
  <2> HIDE DEF Is
  <2> QED
    BY <2>3, <2>4
<1>3. Len(chrs) \in S
  <2> HIDE DEF S
  <2>1. \A n \in 0..Len(chrs) : n \in S
    BY <1>0, <1>1, <1>2, Upwards
  <2> QED
    BY <2>1, <1>0
<1>4. PICK f : Is(f, Len(chrs)) /\ AddChrs(t, chrs) = f[Len(chrs)]
  BY <1>3 DEF AddChrs
<1> DEFINE A == {m \in Nat : m <= Len(chrs) => Added(t, f[m], chrs, ca, da, C, D, m)}
<1>5. 0 \in A
  <2>1. f[0] = t
    BY <1>4, <1>0
  <2>2. Added(t, t, chrs, ca, da, C, D, 0)
    <3>1. t.chars = Filled(t.chars, C, ca, 0, CharFill(chrs, ca, C))
      BY DEF Filled
    <3>2. t.chr_defs = Filled(t.chr_defs, D, da, 0, DefFill(chrs, ca, da, D))
      BY DEF Filled
    <3> QED
      BY <3>1, <3>2 DEF Added
  <2> QED
    BY <2>1, <2>2
<1>6. ASSUME NEW m \in 0..(Len(chrs) - 1), m \in A PROVE m + 1 \in A
  <2>0. m \in Nat /\ m + 1 <= Len(chrs) /\ m + 1 \in Nat
    BY <1>0
  <2>1. PICK u : u = f[m]
    OBVIOUS
  <2>2. PICK c : c = chrs[m + 1]
    OBVIOUS
  <2>3. f[m + 1] = AddChr(u, c)
    <3>1. m + 1 \in 0..Len(chrs) /\ m + 1 # 0 /\ (m + 1) - 1 = m
      BY <1>0, <2>0
    <3>2. f[m + 1] = AddChr(f[(m + 1) - 1], chrs[m + 1])
      BY <1>4, <3>1
    <3> QED
      BY <2>1, <2>2, <3>1, <3>2
  <2>4. Added(t, u, chrs, ca, da, C, D, m)
    BY <1>6, <1>0, <2>1
  <2>5. PICK r : r = AddChr(u, c)
    OBVIOUS
  <2>6. DOMAIN u = Fields
    BY <2>4 DEF Added
  <2>7. /\ DOMAIN r = Fields
        /\ r.chars = [u.chars EXCEPT ![u.char_at + 1] = c]
        /\ r.chr_defs =
              [u.chr_defs EXCEPT ![u.def_at + 1] = make_chr(<<"chars", 0, u.char_at>>, c.flags)]
        /\ r.char_at = u.char_at + 1 /\ r.def_at = u.def_at + 1
        /\ r.svc_uuids = u.svc_uuids /\ r.svc_defs = u.svc_defs
        /\ r.svc_at = u.svc_at
    BY <2>5, <2>6, AddChrFields, ZenonT(30)
  <2>8. u.char_at = ca + m /\ u.def_at = da + m
    BY <2>4 DEF Added
  <2>9. r.svc_uuids = t.svc_uuids /\ r.svc_defs = t.svc_defs /\ r.svc_at = t.svc_at
    BY <2>4, <2>7 DEF Added
  <2>10. r.char_at = ca + (m + 1) /\ r.def_at = da + (m + 1)
    <3>1. ca + m + 1 = ca + (m + 1) /\ da + m + 1 = da + (m + 1)
      BY <2>0
    <3> QED
      BY <2>7, <2>8, <3>1
  <2>11. PICK h : h = CharFill(chrs, ca, C)
    OBVIOUS
  <2>12. h[ca + m + 1] = c
    BY <2>0, <2>2, <2>11 DEF CharFill
  <2>13. u.chars = Filled(t.chars, C, ca, m, h)
    BY <2>4, <2>11 DEF Added
  <2>14. r.chars = [u.chars EXCEPT ![ca + m + 1] = c]
    BY <2>7, <2>8
  <2>16. ca + m < C
    BY <2>0, <1>0
  <2>18. r.chars = Filled(t.chars, C, ca, m + 1, h)
    BY <2>0, <2>12, <2>13, <2>14, <2>16, FillOne
  <2>21. PICK d : d = DefFill(chrs, ca, da, D)
    OBVIOUS
  <2>19. PICK y : y = make_chr(<<"chars", 0, ca + m>>, c.flags)
    OBVIOUS
  <2>26. da + m < D
    BY <2>0, <1>0
  <2>22. d[da + m + 1] = y
    <3>0. PICK k : k = da + m + 1
      OBVIOUS
    <3>1. k \in 1..D
      BY <2>0, <2>26, <3>0
    <3>2. ca + (k - da) - 1 = ca + m /\ k - da = m + 1
      BY <2>0, <3>0
    <3>3. d[k] = make_chr(<<"chars", 0, ca + (k - da) - 1>>, chrs[k - da].flags)
      BY <2>21, <3>1, Zenon DEF DefFill
    <3> QED
      BY <2>2, <2>19, <3>0, <3>2, <3>3
  <2>23. u.chr_defs = Filled(t.chr_defs, D, da, m, d)
    BY <2>4, <2>21 DEF Added
  <2>24. r.chr_defs = [u.chr_defs EXCEPT ![da + m + 1] = y]
    BY <2>7, <2>8, <2>19
  <2>28. r.chr_defs = Filled(t.chr_defs, D, da, m + 1, d)
    BY <2>0, <2>22, <2>23, <2>24, <2>26, FillOne
  <2>29. Added(t, r, chrs, ca, da, C, D, m + 1)
    BY <2>7, <2>9, <2>10, <2>11, <2>18, <2>21, <2>28 DEF Added
  <2> QED
    BY <2>0, <2>3, <2>5, <2>29
<1>7. Len(chrs) \in A
  <2> HIDE DEF A
  <2>1. \A n \in 0..Len(chrs) : n \in A
    BY <1>0, <1>5, <1>6, Upwards
  <2> QED
    BY <2>1, <1>0
<1> QED
  BY <1>0, <1>4, <1>7

\* The offsets of the services are numbers that never fall.
LEMMA OffsetFacts ==
  ASSUME NEW services \in Seq(Services)
  PROVE  /\ \A i \in 0..Len(services) : CharsUpTo(services)[i] \in Nat
         /\ \A i \in 0..Len(services) : \A k \in 0..i : CharsUpTo(services)[k] <= CharsUpTo(services)[i]
<1>0. Len(services) \in Nat
  BY LenProperties
<1>1. PICK off : off = CharsUpTo(services)
  OBVIOUS
<1>2. off[0] = 0 /\ \A i \in 1..Len(services) : off[i] = off[i - 1] + Len(services[i].chrs)
  BY <1>1, CharsUpToFacts
<1>3. \A i \in 1..Len(services) : Len(services[i].chrs) \in Nat
  <2>1. ASSUME NEW i \in 1..Len(services) PROVE Len(services[i].chrs) \in Nat
    <3>1. services[i] \in Services
      BY ElementOfSeq
    <3>2. services[i].chrs \in Seq(Characteristics)
      BY <3>1 DEF Services
    <3> QED
      BY <3>2, LenProperties
  <2> QED
    BY <2>1
<1> DEFINE S == {m \in Nat : m <= Len(services) =>
                   \A k \in 0..m : off[k] \in Nat /\ off[k] <= off[m]}
<1>4. 0 \in S
  BY <1>2
<1>5. ASSUME NEW m \in 0..(Len(services) - 1), m \in S PROVE m + 1 \in S
  <2>1. m + 1 \in 1..Len(services) /\ (m + 1) - 1 = m /\ m + 1 \in Nat
    BY <1>0
  <2>2. PICK n \in Nat : n = Len(services[m + 1].chrs)
    BY <1>3, <2>1
  <2>3. off[m + 1] = off[m] + n
    BY <1>2, <2>1, <2>2
  <2>4. off[m] \in Nat /\ \A k \in 0..m : off[k] \in Nat /\ off[k] <= off[m]
    BY <1>5, <1>0
  <2>5. ASSUME NEW k \in 0..(m + 1) PROVE off[k] \in Nat /\ off[k] <= off[m + 1]
    <3>1. CASE k = m + 1
      BY <2>3, <2>4, <3>1
    <3>2. CASE k # m + 1
      <4>1. k \in 0..m
        BY <3>2
      <4> QED
        BY <4>1, <2>3, <2>4
    <3> QED
      BY <3>1, <3>2
  <2> QED
    BY <2>1, <2>5
<1>6. \A m \in 0..Len(services) : m \in S
  <2> HIDE DEF S
  <2> QED
    BY <1>0, <1>4, <1>5, Upwards
<1> QED
  BY <1>0, <1>1, <1>6

-----------------------------------------------------------------------------
(* The table after each service.                                           *)

\* What the places of the service arrays are filled with.
UuidFill(services) == [k \in 1..Len(services) |-> [uuid |-> services[k].uuid]]
SvcFill(services) ==
  [k \in 1..(Len(services) + 1) |->
     make_svc(services[k].primary, <<"svc_uuids", 0, k - 1>>,
              <<"chr_defs", 0, CharsUpTo(services)[k - 1] + (k - 1)>>)]

\* The characteristics of service k are in place, and the terminator.
ChrsLaid(services, chars, chr_defs, k) ==
  LET before == CharsUpTo(services)[k - 1]
  IN  /\ \A j \in 1..Len(services[k].chrs) :
           /\ chars[before + j] = services[k].chrs[j]
           /\ chr_defs[before + (k - 1) + j] =
                make_chr(<<"chars", 0, before + j - 1>>, services[k].chrs[j].flags)
      /\ chr_defs[before + (k - 1) + Len(services[k].chrs) + 1] = ZERO

\* r is the table after the first i services, in arrays of C and D places.
Laid(services, r, C, D, i) ==
  /\ DOMAIN r = Fields
  /\ r.char_at = CharsUpTo(services)[i] /\ r.def_at = CharsUpTo(services)[i] + i /\ r.svc_at = i
  /\ r.svc_uuids = Filled(Zeroed(Len(services)), Len(services), 0, i, UuidFill(services))
  /\ r.svc_defs = Filled(Zeroed(Len(services) + 1), Len(services) + 1, 0, i, SvcFill(services))
  /\ r.chars = [k \in 1..C |-> r.chars[k]]
  /\ r.chr_defs = [k \in 1..D |-> r.chr_defs[k]]
  /\ \A k \in 1..i : ChrsLaid(services, r.chars, r.chr_defs, k)
  /\ \A q \in (CharsUpTo(services)[i] + i + 1)..D : r.chr_defs[q] = ZERO

\* One more service.
LEMMA LaidStep ==
  ASSUME NEW services \in Seq(Services), NEW i \in 0..(Len(services) - 1), NEW r,
         NEW C \in Nat, NEW D \in Nat, C = total_chars(services), D = C + Len(services),
         Laid(services, r, C, D, i)
  PROVE  Laid(services, AddService(r, services[i + 1]), C, D, i + 1)
<1>0. Len(services) \in Nat /\ i \in Nat /\ i + 1 \in 1..Len(services) /\ (i + 1) - 1 = i
  BY LenProperties
<1>1. PICK off : off = CharsUpTo(services)
  OBVIOUS
<1>2. PICK s : s = services[i + 1]
  OBVIOUS
<1>3. PICK chrs : chrs = s.chrs
  OBVIOUS
<1>4. chrs \in Seq(Characteristics)
  <2>1. s \in Services
    BY <1>0, <1>2, ElementOfSeq
  <2> QED
    BY <1>3, <2>1 DEF Services
<1>5. PICK n \in Nat : n = Len(chrs)
  BY <1>4, LenProperties
<1>6. PICK ca \in Nat : ca = off[i]
  BY <1>0, <1>1, OffsetFacts
<1>7. off[i + 1] = ca + n
  BY <1>0, <1>1, <1>2, <1>3, <1>5, <1>6, CharsUpToFacts
<1>8. ca + n <= C
  <2>1. off[i + 1] <= off[Len(services)]
    BY <1>0, <1>1, OffsetFacts
  <2> QED
    BY <1>1, <1>7, <2>1 DEF total_chars
<1>9. PICK da \in Nat : da = ca + i
  BY <1>0
<1>10. da + n + 1 <= D
  BY <1>0, <1>8, <1>9
<1>11. PICK u : u = AddSvc(r, s)
  OBVIOUS
<1>12. PICK v : v = AddChrs(u, chrs)
  OBVIOUS
<1>13. PICK w : w = AddService(r, s)
  OBVIOUS
<1>14. /\ DOMAIN r = Fields
       /\ r.char_at = ca /\ r.def_at = da /\ r.svc_at = i
  BY <1>1, <1>6, <1>9 DEF Laid
<1>15. /\ DOMAIN u = Fields
       /\ u.svc_uuids = [r.svc_uuids EXCEPT ![i + 1] = [uuid |-> s.uuid]]
       /\ u.svc_defs = [r.svc_defs EXCEPT ![i + 1] =
                 make_svc(s.primary, <<"svc_uuids", 0, i>>, <<"chr_defs", 0, da>>)]
       /\ u.chars = r.chars /\ u.chr_defs = r.chr_defs
       /\ u.char_at = ca /\ u.def_at = da /\ u.svc_at = i
  BY <1>11, <1>14, AddSvcFields, ZenonT(30)
<1>16. Added(u, v, chrs, ca, da, C, D, n)
  <2>1. u.chars = [k \in 1..C |-> u.chars[k]] /\ u.chr_defs = [k \in 1..D |-> u.chr_defs[k]]
    BY <1>15 DEF Laid
  <2>2. da + n <= D
    BY <1>10
  <2> QED
    BY <1>4, <1>5, <1>8, <1>12, <1>15, <2>1, <2>2, AddChrsFacts
<1>17. /\ DOMAIN w = Fields
       /\ w.char_at = v.char_at /\ w.def_at = v.def_at + 1 /\ w.svc_at = v.svc_at + 1
       /\ w.svc_uuids = v.svc_uuids /\ w.svc_defs = v.svc_defs
       /\ w.chars = v.chars /\ w.chr_defs = v.chr_defs
  <2>1. DOMAIN v = Fields
    BY <1>16 DEF Added
  <2>2. w = [v EXCEPT !.def_at = @ + 1, !.svc_at = @ + 1]
    BY <1>3, <1>11, <1>12, <1>13 DEF AddService
  <2> QED
    BY <2>1, <2>2 DEF Fields
<1>18. /\ w.char_at = off[i + 1] /\ w.def_at = off[i + 1] + (i + 1) /\ w.svc_at = i + 1
  <2>1. v.char_at = ca + n /\ v.def_at = da + n /\ v.svc_at = i
    BY <1>15, <1>16 DEF Added
  <2>2. da + n + 1 = (ca + n) + (i + 1)
    BY <1>0, <1>9
  <2> QED
    BY <1>7, <1>17, <2>1, <2>2
<1>19. w.svc_uuids = Filled(Zeroed(Len(services)), Len(services), 0, i + 1, UuidFill(services))
  <2>1. UuidFill(services)[i + 1] = [uuid |-> s.uuid]
    BY <1>0, <1>2 DEF UuidFill
  <2>2. w.svc_uuids = [r.svc_uuids EXCEPT ![i + 1] = [uuid |-> s.uuid]]
    BY <1>15, <1>16, <1>17 DEF Added
  <2>3. r.svc_uuids = Filled(Zeroed(Len(services)), Len(services), 0, i, UuidFill(services))
    BY DEF Laid
  <2>4. 0 + i + 1 = i + 1 /\ 0 + i < Len(services)
    BY <1>0
  <2> HIDE DEF UuidFill
  <2>5. PICK y : y = [uuid |-> s.uuid]
    OBVIOUS
  <2> QED
    BY <1>0, <2>1, <2>2, <2>3, <2>4, <2>5, FillOne
<1>20. w.svc_defs = Filled(Zeroed(Len(services) + 1), Len(services) + 1, 0, i + 1, SvcFill(services))
  <2>0. PICK y : y = make_svc(s.primary, <<"svc_uuids", 0, i>>, <<"chr_defs", 0, da>>)
    OBVIOUS
  <2>1. SvcFill(services)[i + 1] = y
    <3>1. SvcFill(services)[i + 1] =
            make_svc(services[i + 1].primary, <<"svc_uuids", 0, (i + 1) - 1>>,
              <<"chr_defs", 0, CharsUpTo(services)[(i + 1) - 1] + ((i + 1) - 1)>>)
      BY <1>0 DEF SvcFill
    <3> QED
      BY <1>0, <1>1, <1>2, <1>6, <1>9, <2>0, <3>1
  <2>2. w.svc_defs = [r.svc_defs EXCEPT ![i + 1] = y]
    BY <1>15, <1>16, <1>17, <2>0 DEF Added
  <2>3. r.svc_defs = Filled(Zeroed(Len(services) + 1), Len(services) + 1, 0, i, SvcFill(services))
    BY DEF Laid
  <2>4. 0 + i + 1 = i + 1 /\ 0 + i < Len(services) + 1 /\ Len(services) + 1 \in Nat
    BY <1>0
  <2> QED
    BY <1>0, <2>1, <2>2, <2>3, <2>4, FillOne
<1>21. /\ w.chars = Filled(r.chars, C, ca, n, CharFill(chrs, ca, C))
       /\ w.chr_defs = Filled(r.chr_defs, D, da, n, DefFill(chrs, ca, da, D))
  BY <1>15, <1>16, <1>17 DEF Added
<1>22. w.chars = [k \in 1..C |-> w.chars[k]] /\ w.chr_defs = [k \in 1..D |-> w.chr_defs[k]]
  BY <1>21 DEF Filled
<1>23. \A k \in 1..C : k \notin (ca + 1)..(ca + n) => w.chars[k] = r.chars[k]
  BY <1>21 DEF Filled
<1>24. \A k \in 1..D : k \notin (da + 1)..(da + n) => w.chr_defs[k] = r.chr_defs[k]
  BY <1>21 DEF Filled
<1>25. ASSUME NEW j \in 1..n
       PROVE  w.chars[ca + j] = chrs[j]
  <2>1. ca + j \in 1..C /\ ca + j \in (ca + 1)..(ca + n) /\ (ca + j) - ca = j
    BY <1>8
  <2>2. w.chars[ca + j] = CharFill(chrs, ca, C)[ca + j]
    BY <1>21, <2>1 DEF Filled
  <2> QED
    BY <2>1, <2>2 DEF CharFill
<1>26. ASSUME NEW j \in 1..n
       PROVE  w.chr_defs[da + j] = make_chr(<<"chars", 0, ca + j - 1>>, chrs[j].flags)
  <2>1. da + j \in 1..D /\ da + j \in (da + 1)..(da + n) /\ (da + j) - da = j
    BY <1>10
  <2>2. w.chr_defs[da + j] = DefFill(chrs, ca, da, D)[da + j]
    BY <1>21, <2>1 DEF Filled
  <2>3. DefFill(chrs, ca, da, D)[da + j] =
          make_chr(<<"chars", 0, ca + ((da + j) - da) - 1>>, chrs[(da + j) - da].flags)
    BY <2>1 DEF DefFill
  <2> QED
    BY <2>1, <2>2, <2>3
<1>27. \A q \in (ca + n + (i + 1) + 1)..D : w.chr_defs[q] = ZERO
  <2>1. \A q \in (ca + i + 1)..D : r.chr_defs[q] = ZERO
    BY <1>1, <1>6 DEF Laid
  <2>2. ASSUME NEW q \in (ca + n + (i + 1) + 1)..D PROVE w.chr_defs[q] = ZERO
    <3>1. q \in 1..D /\ q \notin (da + 1)..(da + n) /\ q \in (ca + i + 1)..D
      BY <1>0, <1>9
    <3>2. w.chr_defs[q] = r.chr_defs[q]
      BY <1>24, <3>1
    <3>3. r.chr_defs[q] = ZERO
      BY <2>1, <3>1
    <3> QED
      BY <3>2, <3>3
  <2> QED
    BY <2>2
<1>28. ChrsLaid(services, w.chars, w.chr_defs, i + 1)
  <2>1. w.chr_defs[da + n + 1] = ZERO
    <3>1. da + n + 1 \in 1..D /\ da + n + 1 \notin (da + 1)..(da + n) /\ da + n + 1 \in (ca + i + 1)..D
      BY <1>0, <1>9, <1>10
    <3>2. r.chr_defs[da + n + 1] = ZERO
      BY <1>1, <1>6, <3>1 DEF Laid
    <3> QED
      BY <1>24, <3>1, <3>2
  <2>2. off[(i + 1) - 1] = ca /\ ca + ((i + 1) - 1) = da
    BY <1>0, <1>6, <1>9
  <2>3. chrs = services[i + 1].chrs
    BY <1>2, <1>3
  <2> QED
    BY <1>1, <1>5, <1>25, <1>26, <2>1, <2>2, <2>3 DEF ChrsLaid
<1>29. ASSUME NEW k \in 1..i PROVE ChrsLaid(services, w.chars, w.chr_defs, k)
  <2>1. k \in 1..Len(services) /\ k - 1 \in 0..Len(services) /\ k \in 0..i /\ k - 1 \in Nat /\ i \in 0..Len(services)
    BY <1>0
  <2>2. PICK before \in Nat : before = off[k - 1]
    BY <1>1, <2>1, OffsetFacts
  <2>3. services[k].chrs \in Seq(Characteristics)
    <3>1. services[k] \in Services
      BY <2>1, ElementOfSeq
    <3> QED
      BY <3>1 DEF Services
  <2>4. PICK len \in Nat : len = Len(services[k].chrs)
    BY <2>3, LenProperties
  <2>5. before + len <= ca
    <3>1. off[k] = before + len
      BY <1>1, <2>1, <2>2, <2>4, CharsUpToFacts
    <3>2. off[k] <= off[i]
      BY <1>1, <2>1, OffsetFacts
    <3> QED
      BY <1>6, <3>1, <3>2
  <2>6. ChrsLaid(services, r.chars, r.chr_defs, k)
    BY DEF Laid
  <2>7. ASSUME NEW j \in 1..len
        PROVE  /\ w.chars[before + j] = r.chars[before + j]
               /\ w.chr_defs[before + (k - 1) + j] = r.chr_defs[before + (k - 1) + j]
    <3>1. before + j \in 1..C /\ before + j \notin (ca + 1)..(ca + n)
      BY <1>8, <2>5
    <3>2. before + (k - 1) + j \in 1..D /\ before + (k - 1) + j \notin (da + 1)..(da + n)
      BY <1>0, <1>9, <1>10, <2>1, <2>5
    <3> QED
      BY <1>23, <1>24, <3>1, <3>2
  <2>8. w.chr_defs[before + (k - 1) + len + 1] = r.chr_defs[before + (k - 1) + len + 1]
    <3>2. before + (k - 1) + len + 1 \in 1..D /\ before + (k - 1) + len + 1 \notin (da + 1)..(da + n)
      BY <1>0, <1>9, <1>10, <2>1, <2>5
    <3> QED
      BY <1>24, <3>2
  <2> QED
    BY <1>1, <2>2, <2>4, <2>6, <2>7, <2>8 DEF ChrsLaid
<1>30. \A k \in 1..(i + 1) : ChrsLaid(services, w.chars, w.chr_defs, k)
  BY <1>0, <1>28, <1>29
<1>31. \A q \in (CharsUpTo(services)[i + 1] + (i + 1) + 1)..D : w.chr_defs[q] = ZERO
  BY <1>1, <1>7, <1>27
<1>32. w.char_at = CharsUpTo(services)[i + 1] /\ w.def_at = CharsUpTo(services)[i + 1] + (i + 1)
  BY <1>1, <1>18
<1>33. Laid(services, w, C, D, i + 1)
  BY <1>17, <1>18, <1>19, <1>20, <1>22, <1>30, <1>31, <1>32 DEF Laid
<1> QED
  BY <1>2, <1>13, <1>33

\* The table when every service is in it.
LEMMA AddSvcsFacts ==
  ASSUME NEW services \in Seq(Services)
  PROVE  Laid(services, AddSvcs(services), total_chars(services),
              total_chars(services) + Len(services), Len(services))
<1>0. Len(services) \in Nat
  BY LenProperties
<1>1. PICK t : t = Empty(Lengths(services))
  OBVIOUS
<1> DEFINE Is(f, m) == f = [i \in 0..m |-> IF i = 0 THEN t ELSE AddService(f[i - 1], services[i])]
           S == {m \in Nat : \E f : Is(f, m)}
<1>2. 0 \in S
  <2>1. PICK f : f = [i \in 0..0 |-> t]
    OBVIOUS
  <2>2. Is(f, 0)
    BY <2>1
  <2> QED
    BY <2>2
<1>3. ASSUME NEW m \in 0..(Len(services) - 1), m \in S PROVE m + 1 \in S
  <2>1. PICK f : Is(f, m)
    BY <1>3
  <2>2. PICK g : g = [i \in 0..(m + 1) |->
                        IF i = m + 1 THEN AddService(f[m], services[m + 1]) ELSE f[i]]
    OBVIOUS
  <2>3. Is(g, m + 1)
    BY <2>1, <2>2, <1>0
  <2>4. m + 1 \in Nat
    BY <1>0
  <2> HIDE DEF Is
  <2> QED
    BY <2>3, <2>4
<1>4. Len(services) \in S
  <2> HIDE DEF S
  <2>1. \A n \in 0..Len(services) : n \in S
    BY <1>0, <1>2, <1>3, Upwards
  <2> QED
    BY <2>1, <1>0
<1>5. PICK f : Is(f, Len(services)) /\ AddSvcs(services) = f[Len(services)]
  BY <1>1, <1>4 DEF AddSvcs
<1>6. PICK C \in Nat : C = total_chars(services)
  BY <1>0, OffsetFacts DEF total_chars
<1>7. PICK D \in Nat : D = C + Len(services)
  BY <1>0
<1> DEFINE A == {m \in Nat : m <= Len(services) => Laid(services, f[m], C, D, m)}
<1>8. 0 \in A
  <2>1. f[0] = t
    BY <1>0, <1>5
  <2>2. /\ DOMAIN t = Fields
        /\ t.chars = Zeroed(C) /\ t.svc_uuids = Zeroed(Len(services))
        /\ t.chr_defs = Zeroed(D) /\ t.svc_defs = Zeroed(Len(services) + 1)
        /\ t.char_at = 0 /\ t.def_at = 0 /\ t.svc_at = 0
    BY <1>1, <1>6, <1>7 DEF Empty, Lengths, Fields
  <2>3. CharsUpTo(services)[0] = 0
    BY CharsUpToFacts
  <2>4. t.svc_uuids = Filled(Zeroed(Len(services)), Len(services), 0, 0, UuidFill(services))
    BY <1>0, <2>2 DEF Zeroed, Filled
  <2>5. t.svc_defs = Filled(Zeroed(Len(services) + 1), Len(services) + 1, 0, 0, SvcFill(services))
    BY <1>0, <2>2 DEF Zeroed, Filled
  <2>6. /\ t.chars = [k \in 1..C |-> t.chars[k]]
        /\ t.chr_defs = [k \in 1..D |-> t.chr_defs[k]]
        /\ \A q \in (0 + 0 + 1)..D : t.chr_defs[q] = ZERO
    BY <2>2 DEF Zeroed
  <2>7. Laid(services, t, C, D, 0)
    BY <2>2, <2>3, <2>4, <2>5, <2>6 DEF Laid
  <2> QED
    BY <2>1, <2>7
<1>9. ASSUME NEW m \in 0..(Len(services) - 1), m \in A PROVE m + 1 \in A
  <2>1. m + 1 \in 0..Len(services) /\ m + 1 # 0 /\ (m + 1) - 1 = m /\ m + 1 \in Nat /\ m \in Nat
    BY <1>0
  <2>2. f[m + 1] = AddService(f[(m + 1) - 1], services[m + 1])
    BY <1>5, <2>1
  <2>3. Laid(services, f[m], C, D, m)
    BY <1>0, <1>9
  <2>4. Laid(services, AddService(f[m], services[m + 1]), C, D, m + 1)
    BY <1>6, <1>7, <2>3, LaidStep
  <2> QED
    BY <2>1, <2>2, <2>4
<1>10. Len(services) \in A
  <2> HIDE DEF A
  <2>1. \A n \in 0..Len(services) : n \in A
    BY <1>0, <1>8, <1>9, Upwards
  <2> QED
    BY <2>1, <1>0
<1> QED
  BY <1>0, <1>5, <1>6, <1>7, <1>10

-----------------------------------------------------------------------------
(* Walking a table.                                                        *)

\* An array of n places.
IsArray(block, n) == block = [k \in 1..n |-> block[k]]

\* A pointer into an array.
LEMMA DerefIn ==
  ASSUME NEW mem, NEW a, NEW b, NEW block, block = mem[a][b], NEW n \in Nat,
         IsArray(block, n), NEW at \in 0..(n - 1)
  PROVE  Deref(mem, <<a, b, at>>) = block[at + 1]
<1>1. Len(block) = n
  BY DEF IsArray
<1>2. at < n
  OBVIOUS
<1> QED
  BY <1>1, <1>2 DEF Deref

\* From at on there are n entries that are none, then the terminator.
Walkable(block, at, n) ==
  /\ \A k \in 1..n : block[at + k].uuid \notin {ZERO.uuid, GARBAGE.uuid}
  /\ block[at + n + 1] = ZERO

\* There are, in an array of the table.
Stretch(mem, a, b, block, size, at, n) ==
  /\ block = mem[a][b] /\ size \in Nat /\ IsArray(block, size)
  /\ at \in Nat /\ n \in Nat /\ at + n < size
  /\ Walkable(block, at, n)

\* Those n entries are what is walked.
LEMMA EntriesFacts ==
  ASSUME NEW mem, NEW a, NEW b, NEW block, NEW size, NEW at, NEW n,
         Stretch(mem, a, b, block, size, at, n)
  PROVE  Entries(mem, <<a, b, at>>) = [k \in 1..n |-> block[at + k]]
<1> USE DEF Stretch
<1> DEFINE Entry(k) == Deref(mem, <<a, b, at + k>>)
           Ends == {k \in 0..size : Entry(k).uuid \in {ZERO.uuid, GARBAGE.uuid}}
<1>0. /\ \A k \in 1..n : block[at + k].uuid \notin {ZERO.uuid, GARBAGE.uuid}
      /\ block[at + n + 1] = ZERO
  BY DEF Walkable
<1>1. \A k \in 0..n : Entry(k) = block[at + k + 1]
  <2>1. ASSUME NEW k \in 0..n PROVE Entry(k) = block[at + k + 1]
    <3>1. at + k \in 0..(size - 1)
      OBVIOUS
    <3> QED
      BY <3>1, DerefIn
  <2> QED
    BY <2>1
<1>2. n \in Ends
  <2>1. n \in 0..size /\ n \in 0..n
    OBVIOUS
  <2> HIDE DEF Entry
  <2>2. Entry(n) = ZERO
    BY <1>0, <1>1, <2>1
  <2> QED
    BY <2>1, <2>2
<1>3. \A k \in 0..(n - 1) : k \notin Ends
  <2>1. ASSUME NEW k \in 0..(n - 1) PROVE Entry(k).uuid \notin {ZERO.uuid, GARBAGE.uuid}
    <3>1. k + 1 \in 1..n /\ at + (k + 1) = at + k + 1 /\ k \in 0..n
      OBVIOUS
    <3>2. block[at + (k + 1)].uuid \notin {ZERO.uuid, GARBAGE.uuid}
      BY <1>0, <3>1
    <3> HIDE DEF Entry
    <3> QED
      BY <1>1, <3>1, <3>2
  <2> QED
    BY <2>1
<1>4. Min(Ends) = n
  <2>1. \A k \in Ends : k \in Nat /\ n <= k
    BY <1>3
  <2> HIDE DEF Ends
  <2>2. PICK x : x = Min(Ends)
    OBVIOUS
  <2>3. x \in Ends /\ \A y \in Ends : x <= y
    BY <1>2, <2>1, <2>2 DEF Min
  <2> QED
    BY <1>2, <2>1, <2>2, <2>3
<1>5. Len(mem[a][b]) = size
  BY DEF IsArray
<1>6. Entry(n).uuid = ZERO.uuid
  BY <1>0, <1>1
<1>7. Entries(mem, <<a, b, at>>) = [k \in 1..n |-> Entry(k - 1)]
  BY <1>4, <1>5, <1>6 DEF Entries
<1>8. \A k \in 1..n : Entry(k - 1) = block[at + k]
  <2>1. ASSUME NEW k \in 1..n PROVE Entry(k - 1) = block[at + k]
    <3>1. k - 1 \in 0..n /\ at + (k - 1) + 1 = at + k
      OBVIOUS
    <3> HIDE DEF Entry
    <3> QED
      BY <1>1, <3>1
  <2> QED
    BY <2>1
<1> HIDE DEF Entry
<1> QED
  BY <1>7, <1>8

\* A pointer is neither null nor garbage.
LEMMA PointerReal ==
  ASSUME NEW a, NEW b, NEW c
  PROVE  <<a, b, c>> \notin {ZERO.uuid, GARBAGE.uuid}
<1>1. ZERO.uuid = << >> /\ GARBAGE.uuid = <<"garbage">>
  BY DEF ZERO, GARBAGE
<1>2. Len(<<a, b, c>>) = 3 /\ Len(<<"garbage">>) = 1 /\ Len(<< >>) = 0
  OBVIOUS
<1> QED
  BY <1>1, <1>2

\* The flags come back out of the word they are put into.
LEMMA FlagsRoundTrip ==
  ASSUME NEW flags \in SUBSET ToSet(Flags)
  PROVE  {f \in ToSet(Flags) : HasFlag(flags_to_repr(flags), f)} = flags
<1> DEFINE ix(f) == CHOOSE i \in 1..Len(Flags) : Flags[i] = f
<1>1. \A f \in ToSet(Flags) : ix(f) \in 1..Len(Flags) /\ Flags[ix(f)] = f
  <2>1. ASSUME NEW f \in ToSet(Flags) PROVE \E i \in 1..Len(Flags) : Flags[i] = f
    <3>1. Len(Flags) = 18
      BY DEF Flags
    <3>2. DOMAIN Flags = 1..Len(Flags)
      BY <3>1 DEF Flags
    <3> QED
      BY <3>2 DEF ToSet
  <2> QED
    BY <2>1
<1>2. \A f : repr(f) = {ix(f)}
  BY DEF repr
<1> HIDE DEF ix
<1>3. ASSUME NEW f \in ToSet(Flags) PROVE HasFlag(flags_to_repr(flags), f) <=> f \in flags
  <2>1. HasFlag(flags_to_repr(flags), f) <=> \E g \in flags : ix(f) = ix(g)
    BY <1>2 DEF HasFlag, flags_to_repr
  <2> QED
    BY <1>1, <2>1
<1> QED
  BY <1>3

\* The definitions defs stand for chrs.
ChrDefsOf(mem, defs, chrs) ==
  \A j \in 1..Len(chrs) : /\ defs[j].uuid # GARBAGE.uuid
                          /\ Deref(mem, defs[j].uuid).uuid = chrs[j].uuid
                          /\ defs[j].flags = flags_to_repr(chrs[j].flags)

\* The walk over one service's characteristics.
LEMMA WalkChrsFacts ==
  ASSUME NEW mem, NEW p, NEW chrs \in Seq(Characteristics), NEW defs, defs = Entries(mem, p),
         IsArray(defs, Len(chrs)), ChrDefsOf(mem, defs, chrs)
  PROVE  WalkChrs(mem, p) = chrs
<1>1. Len(chrs) \in Nat /\ chrs = [j \in 1..Len(chrs) |-> chrs[j]]
  BY LenProperties
<1>2. Len(defs) = Len(chrs)
  BY <1>1 DEF IsArray
<1>3. ASSUME NEW j \in 1..Len(chrs) PROVE WalkChr(mem, defs[j]) = chrs[j]
  <2>1. chrs[j] \in Characteristics
    BY ElementOfSeq
  <2>2. /\ chrs[j] = [uuid |-> chrs[j].uuid, flags |-> chrs[j].flags]
        /\ chrs[j].flags \in SUBSET ToSet(Flags)
    BY <2>1 DEF Characteristics
  <2>3. {f \in ToSet(Flags) : HasFlag(flags_to_repr(chrs[j].flags), f)} = chrs[j].flags
    BY <2>2, FlagsRoundTrip
  <2>4. /\ defs[j].uuid # GARBAGE.uuid /\ Deref(mem, defs[j].uuid).uuid = chrs[j].uuid
        /\ defs[j].flags = flags_to_repr(chrs[j].flags)
    BY DEF ChrDefsOf
  <2>5. WalkChr(mem, defs[j]) = [uuid |-> chrs[j].uuid, flags |-> chrs[j].flags]
    BY <2>3, <2>4 DEF WalkChr
  <2> QED
    BY <2>2, <2>5
<1>4. WalkChrs(mem, p) = [j \in 1..Len(chrs) |-> WalkChr(mem, defs[j])]
  BY <1>2 DEF WalkChrs
<1> QED
  BY <1>1, <1>3, <1>4

\* The definitions defs stand for services.
SvcDefsOf(mem, defs, services) ==
  \A i \in 1..Len(services) :
    /\ defs[i].type = IF services[i].primary THEN 1 ELSE 2
    /\ Deref(mem, defs[i].uuid).uuid = services[i].uuid
    /\ WalkChrs(mem, defs[i].chrs) = services[i].chrs

\* The walk over the services.
LEMMA WalkFacts ==
  ASSUME NEW mem, NEW services \in Seq(Services), NEW defs,
         defs = Entries(mem, <<"svc_defs", 0, 0>>), IsArray(defs, Len(services)),
         SvcDefsOf(mem, defs, services)
  PROVE  Walk(mem) = services
<1>1. Len(services) \in Nat /\ services = [i \in 1..Len(services) |-> services[i]]
  BY LenProperties
<1>2. Len(defs) = Len(services)
  BY <1>1 DEF IsArray
<1> DEFINE svc(i) == [primary |-> defs[i].type = 1, uuid |-> Deref(mem, defs[i].uuid).uuid,
                      chrs |-> WalkChrs(mem, defs[i].chrs)]
<1>3. ASSUME NEW i \in 1..Len(services) PROVE svc(i) = services[i]
  <2>1. services[i] \in Services
    BY ElementOfSeq
  <2>2. /\ services[i] = [primary |-> services[i].primary, uuid |-> services[i].uuid,
                          chrs |-> services[i].chrs]
        /\ services[i].primary \in BOOLEAN
    BY <2>1 DEF Services
  <2>3. (defs[i].type = 1) = services[i].primary
    <3>0. defs[i].type = IF services[i].primary THEN 1 ELSE 2
      BY DEF SvcDefsOf
    <3>1. CASE services[i].primary = TRUE
      BY <3>0, <3>1
    <3>2. CASE services[i].primary = FALSE
      <4>1. defs[i].type = 2
        BY <3>0, <3>2
      <4>2. (defs[i].type = 1) = FALSE
        BY <4>1
      <4> QED
        BY <3>2, <4>2
    <3> QED
      BY <2>2, <3>1, <3>2
  <2>4. /\ Deref(mem, defs[i].uuid).uuid = services[i].uuid
        /\ WalkChrs(mem, defs[i].chrs) = services[i].chrs
    BY DEF SvcDefsOf
  <2> QED
    BY <2>2, <2>3, <2>4
<1>4. Walk(mem) = [i \in 1..Len(services) |-> svc(i)]
  BY <1>2 DEF Walk
<1> HIDE DEF svc
<1> QED
  BY <1>1, <1>3, <1>4

\* The fields of a definition.
LEMMA MakeFields ==
  /\ \A primary, uuid, chrs :
       /\ make_svc(primary, uuid, chrs).type = IF primary THEN 1 ELSE 2
       /\ make_svc(primary, uuid, chrs).uuid = uuid
       /\ make_svc(primary, uuid, chrs).chrs = chrs
  /\ \A uuid, flags : /\ make_chr(uuid, flags).uuid = uuid
                      /\ make_chr(uuid, flags).flags = flags_to_repr(flags)
  BY DEF make_svc, make_chr

\* The table built at run time reads back as what was declared.
LEMMA NewTableWalk ==
  ASSUME NEW services \in Seq(Services)
  PROVE  Walk(NewTable(services)) = services
<1>0. PICK N \in Nat : N = Len(services)
  BY LenProperties
<1>1. PICK off : off = CharsUpTo(services)
  OBVIOUS
<1>2. PICK C \in Nat : C = off[N] /\ C = total_chars(services)
  BY <1>0, <1>1, OffsetFacts DEF total_chars
<1>3. PICK D \in Nat : D = C + N
  BY <1>0
<1>4. PICK t : t = AddSvcs(services)
  OBVIOUS
<1>5. PICK mem : mem = NewTable(services)
  OBVIOUS
<1>6. /\ mem["svc_defs"][0] = t.svc_defs /\ mem["svc_uuids"][0] = t.svc_uuids
      /\ mem["chr_defs"][0] = t.chr_defs /\ mem["chars"][0] = t.chars
  BY <1>4, <1>5 DEF NewTable, Lengths
<1>7. Laid(services, t, C, D, N)
  BY <1>0, <1>2, <1>3, <1>4, AddSvcsFacts
<1>8. /\ IsArray(t.svc_defs, N + 1)
      /\ \A k \in 1..N : t.svc_defs[k] = SvcFill(services)[k]
      /\ t.svc_defs[N + 1] = ZERO
  <2>1. t.svc_defs = Filled(Zeroed(N + 1), N + 1, 0, N, SvcFill(services))
    BY <1>0, <1>7 DEF Laid
  <2> QED
    BY <2>1 DEF Filled, IsArray, Zeroed
<1>9. /\ IsArray(t.svc_uuids, N)
      /\ \A k \in 1..N : t.svc_uuids[k].uuid = services[k].uuid
  <2>1. t.svc_uuids = Filled(Zeroed(N), N, 0, N, UuidFill(services))
    BY <1>0, <1>7 DEF Laid
  <2> QED
    BY <1>0, <2>1 DEF Filled, IsArray, UuidFill
<1>10. IsArray(t.chars, C) /\ IsArray(t.chr_defs, D)
  BY <1>7 DEF Laid, IsArray
<1>11. ASSUME NEW k \in 1..N
       PROVE  /\ t.svc_defs[k].type = IF services[k].primary THEN 1 ELSE 2
              /\ t.svc_defs[k].uuid = <<"svc_uuids", 0, k - 1>>
              /\ t.svc_defs[k].chrs = <<"chr_defs", 0, off[k - 1] + (k - 1)>>
  <2>1. t.svc_defs[k] = make_svc(services[k].primary, <<"svc_uuids", 0, k - 1>>,
                                 <<"chr_defs", 0, off[k - 1] + (k - 1)>>)
    <3>1. k \in 1..(Len(services) + 1)
      BY <1>0
    <3>2. SvcFill(services)[k] =
            make_svc(services[k].primary, <<"svc_uuids", 0, k - 1>>,
                     <<"chr_defs", 0, CharsUpTo(services)[k - 1] + (k - 1)>>)
      BY <3>1 DEF SvcFill
    <3> QED
      BY <1>1, <1>8, <3>2
  <2> QED
    BY <2>1, MakeFields
<1>12. PICK defs : defs = Entries(mem, <<"svc_defs", 0, 0>>)
  OBVIOUS
<1>13. IsArray(defs, N) /\ \A k \in 1..N : defs[k] = t.svc_defs[k]
  <2>1. \A k \in 1..N : t.svc_defs[0 + k].uuid \notin {ZERO.uuid, GARBAGE.uuid}
    <3>1. ASSUME NEW k \in 1..N PROVE t.svc_defs[0 + k].uuid \notin {ZERO.uuid, GARBAGE.uuid}
      <4>1. t.svc_defs[k].uuid \notin {ZERO.uuid, GARBAGE.uuid}
        BY <1>11, PointerReal
      <4>2. 0 + k = k
        OBVIOUS
      <4> QED
        BY <4>1, <4>2
    <3> QED
      BY <3>1
  <2>2. t.svc_defs[0 + N + 1] = ZERO /\ 0 + N < N + 1 /\ N + 1 \in Nat
    BY <1>8
  <2>3. PICK block : block = t.svc_defs
    OBVIOUS
  <2>4. defs = [k \in 1..N |-> block[0 + k]]
    <3>1. block = mem["svc_defs"][0] /\ IsArray(block, N + 1)
      BY <1>6, <1>8, <2>3
    <3>2. Walkable(block, 0, N)
      BY <2>1, <2>2, <2>3 DEF Walkable
    <3>3. Stretch(mem, "svc_defs", 0, block, N + 1, 0, N)
      BY <1>0, <2>2, <3>1, <3>2 DEF Stretch
    <3> QED
      BY <1>12, <2>2, <3>3, EntriesFacts
  <2> QED
    BY <2>3, <2>4 DEF IsArray
<1>14. ASSUME NEW i \in 1..N PROVE Deref(mem, defs[i].uuid).uuid = services[i].uuid
  <2>1. defs[i].uuid = <<"svc_uuids", 0, i - 1>>
    BY <1>11, <1>13
  <2>2. i - 1 \in 0..(N - 1) /\ (i - 1) + 1 = i
    OBVIOUS
  <2>3. PICK block : block = t.svc_uuids
    OBVIOUS
  <2>4. Deref(mem, <<"svc_uuids", 0, i - 1>>) = block[(i - 1) + 1]
    <3>1. block = mem["svc_uuids"][0] /\ IsArray(block, N)
      BY <1>6, <1>9, <2>3
    <3> QED
      BY <2>2, <3>1, DerefIn
  <2> QED
    BY <1>9, <2>1, <2>2, <2>3, <2>4
<1>15. ASSUME NEW i \in 1..N PROVE WalkChrs(mem, defs[i].chrs) = services[i].chrs
  <2>0. i \in 1..Len(services) /\ i - 1 \in 0..Len(services) /\ i \in 0..N /\ N \in 0..N
    BY <1>0
  <2>1. PICK chrs \in Seq(Characteristics) : chrs = services[i].chrs
    <3>1. services[i] \in Services
      BY <2>0, ElementOfSeq
    <3> QED
      BY <3>1 DEF Services
  <2>2. PICK n \in Nat : n = Len(chrs)
    BY <2>1, LenProperties
  <2>3. PICK before \in Nat : before = off[i - 1]
    BY <1>1, <2>0, OffsetFacts
  <2>4. before + n <= C
    <3>1. off[i] = before + n
      BY <1>1, <2>0, <2>1, <2>2, <2>3, CharsUpToFacts
    <3>2. off[i] <= off[N]
      BY <1>0, <1>1, <2>0, OffsetFacts
    <3> QED
      BY <1>2, <3>1, <3>2
  <2>5. PICK at \in Nat : at = before + (i - 1)
    OBVIOUS
  <2>6. at + n < D
    BY <1>3, <2>4, <2>5
  <2>7. ChrsLaid(services, t.chars, t.chr_defs, i)
    BY <1>7 DEF Laid
  <2>8. /\ \A j \in 1..n : /\ t.chars[before + j] = chrs[j]
                           /\ t.chr_defs[at + j] =
                                make_chr(<<"chars", 0, before + j - 1>>, chrs[j].flags)
        /\ t.chr_defs[at + n + 1] = ZERO
    BY <1>1, <2>1, <2>2, <2>3, <2>5, <2>7 DEF ChrsLaid
  <2>9. PICK block : block = t.chr_defs
    OBVIOUS
  <2>10. \A j \in 1..n : block[at + j].uuid = <<"chars", 0, before + j - 1>>
                         /\ block[at + j].flags = flags_to_repr(chrs[j].flags)
    <3>1. ASSUME NEW j \in 1..n
          PROVE  /\ block[at + j].uuid = <<"chars", 0, before + j - 1>>
                 /\ block[at + j].flags = flags_to_repr(chrs[j].flags)
      <4>1. block[at + j] = make_chr(<<"chars", 0, before + j - 1>>, chrs[j].flags)
        BY <2>8, <2>9
      <4> QED
        BY <4>1, MakeFields
    <3> QED
      BY <3>1
  <2>11. \A j \in 1..n : block[at + j].uuid \notin {ZERO.uuid, GARBAGE.uuid}
    BY <2>10, PointerReal
  <2>12. PICK entries : entries = Entries(mem, <<"chr_defs", 0, at>>)
    OBVIOUS
  <2>13. entries = [j \in 1..n |-> block[at + j]]
    <3>1. block = mem["chr_defs"][0] /\ IsArray(block, D)
      BY <1>6, <1>10, <2>9
    <3>2. Walkable(block, at, n)
      BY <2>8, <2>9, <2>11 DEF Walkable
    <3>3. D \in Nat /\ n \in Nat /\ at \in Nat
      BY <1>3, <2>2, <2>5
    <3>4. Stretch(mem, "chr_defs", 0, block, D, at, n)
      BY <2>6, <3>1, <3>2, <3>3 DEF Stretch
    <3> QED
      BY <2>12, <3>4, EntriesFacts, SMTT(30)
  <2>14. ASSUME NEW j \in 1..n
         PROVE  /\ entries[j].uuid # GARBAGE.uuid
                /\ Deref(mem, entries[j].uuid).uuid = chrs[j].uuid
                /\ entries[j].flags = flags_to_repr(chrs[j].flags)
    <3>1. entries[j] = block[at + j]
      BY <2>13
    <3>2. before + j - 1 \in 0..(C - 1) /\ (before + j - 1) + 1 = before + j
      BY <2>4
    <3>3. PICK arr : arr = t.chars
      OBVIOUS
    <3>4. Deref(mem, <<"chars", 0, before + j - 1>>) = arr[(before + j - 1) + 1]
      <4>1. arr = mem["chars"][0] /\ IsArray(arr, C)
        BY <1>6, <1>10, <3>3
      <4> QED
        BY <3>2, <4>1, DerefIn
    <3>5. arr[(before + j - 1) + 1] = chrs[j]
      BY <2>8, <3>2, <3>3
    <3> QED
      BY <2>10, <2>11, <3>1, <3>4, <3>5
  <2>15. IsArray(entries, Len(chrs))
    BY <2>2, <2>13 DEF IsArray
  <2>16. WalkChrs(mem, <<"chr_defs", 0, at>>) = chrs
    <3>1. ChrDefsOf(mem, entries, chrs)
      BY <2>2, <2>14 DEF ChrDefsOf
    <3> QED
      BY <2>12, <2>15, <3>1, WalkChrsFacts
  <2>17. defs[i].chrs = <<"chr_defs", 0, at>>
    BY <1>11, <1>13, <2>3, <2>5
  <2> QED
    BY <2>1, <2>16, <2>17
<1>16. \A i \in 1..N : defs[i].type = IF services[i].primary THEN 1 ELSE 2
  BY <1>11, <1>13
<1>17. SvcDefsOf(mem, defs, services)
  BY <1>0, <1>14, <1>15, <1>16 DEF SvcDefsOf
<1> QED
  BY <1>0, <1>5, <1>12, <1>13, <1>17, WalkFacts

\* So does the static one.
LEMMA StaticTableWalk ==
  ASSUME NEW services \in Seq(Services)
  PROVE  Walk(StaticTable(services)) = services
<1>0. PICK N \in Nat : N = Len(services)
  BY LenProperties
<1>1. PICK mem : mem = StaticTable(services)
  OBVIOUS
<1> DEFINE SvcDefs == [i \in 1..N |-> make_svc(services[i].primary, <<"U", 0, i - 1>>, <<"CHRS", i, 0>>)]
           ChrDefs(i) == [j \in 1..Len(services[i].chrs) |->
                            make_chr(<<"U", i, j - 1>>, services[i].chrs[j].flags)]
           Uuids(f) == [j \in 1..Len(f) |-> [uuid |-> f[j].uuid]]
<1>2. /\ mem["svc_defs"][0] = Append(SvcDefs, ZERO)
      /\ \A i \in 1..N : mem["CHRS"][i] = Append(ChrDefs(i), ZERO)
      /\ mem["U"][0] = Uuids(services)
      /\ \A i \in 1..N : mem["U"][i] = Uuids(services[i].chrs)
  <2>1. PICK A : A = [block \in {0} |-> Append(SvcDefs, ZERO)]
    OBVIOUS
  <2>2. PICK B : B = [block \in 1..N |-> Append(ChrDefs(block), ZERO)]
    OBVIOUS
  <2>3. PICK U : U = [block \in 0..N |-> Uuids(IF block = 0 THEN services ELSE services[block].chrs)]
    OBVIOUS
  <2>4. mem = [svc_defs |-> A, CHRS |-> B, U |-> U]
    BY <1>0, <1>1, <2>1, <2>2, <2>3 DEF StaticTable
  <2>5. mem["svc_defs"] = A /\ mem["CHRS"] = B /\ mem["U"] = U
    BY <2>4
  <2>6. A[0] = Append(SvcDefs, ZERO) /\ \A i \in 1..N : B[i] = Append(ChrDefs(i), ZERO)
    BY <2>1, <2>2
  <2>7. U[0] = Uuids(services)
    BY <1>0, <2>3
  <2>8. \A i \in 1..N : U[i] = Uuids(services[i].chrs)
    <3> HIDE DEF Uuids
    <3>1. ASSUME NEW i \in 1..N PROVE U[i] = Uuids(services[i].chrs)
      <4>1. i \in 0..N /\ i # 0
        BY <1>0
      <4> QED
        BY <2>3, <4>1
    <3> QED
      BY <3>1
  <2> QED
    BY <2>5, <2>6, <2>7, <2>8
<1>3. PICK block : block = mem["svc_defs"][0]
  OBVIOUS
<1>4. ASSUME NEW f, NEW n \in Nat, IsArray(f, n)
      PROVE  /\ IsArray(Append(f, ZERO), n + 1) /\ Append(f, ZERO)[n + 1] = ZERO
             /\ \A k \in 1..n : Append(f, ZERO)[k] = f[k]
  BY <1>4 DEF IsArray
<1>5. /\ IsArray(block, N + 1) /\ block[N + 1] = ZERO
      /\ \A k \in 1..N : block[k] = SvcDefs[k]
  <2>1. IsArray(SvcDefs, N)
    BY DEF IsArray
  <2>2. block = Append(SvcDefs, ZERO)
    BY <1>2, <1>3
  <2> HIDE DEF SvcDefs
  <2> QED
    BY <1>0, <1>4, <2>1, <2>2
<1>6. ASSUME NEW k \in 1..N
      PROVE  /\ block[k].type = IF services[k].primary THEN 1 ELSE 2
             /\ block[k].uuid = <<"U", 0, k - 1>> /\ block[k].chrs = <<"CHRS", k, 0>>
  <2>1. block[k] = make_svc(services[k].primary, <<"U", 0, k - 1>>, <<"CHRS", k, 0>>)
    BY <1>5
  <2> QED
    BY <2>1, MakeFields
<1>7. PICK defs : defs = Entries(mem, <<"svc_defs", 0, 0>>)
  OBVIOUS
<1>8. IsArray(defs, N) /\ \A k \in 1..N : defs[k] = block[k]
  <2>1. Walkable(block, 0, N)
    <3>1. ASSUME NEW k \in 1..N PROVE block[0 + k].uuid \notin {ZERO.uuid, GARBAGE.uuid}
      <4>1. block[k].uuid \notin {ZERO.uuid, GARBAGE.uuid}
        BY <1>6, PointerReal
      <4>2. 0 + k = k
        OBVIOUS
      <4> QED
        BY <4>1, <4>2
    <3>2. block[0 + N + 1] = ZERO
      BY <1>5
    <3> QED
      BY <3>1, <3>2 DEF Walkable
  <2>2. 0 + N < N + 1 /\ N + 1 \in Nat
    OBVIOUS
  <2>3. defs = [k \in 1..N |-> block[0 + k]]
    <3>1. Stretch(mem, "svc_defs", 0, block, N + 1, 0, N)
      BY <1>0, <1>3, <1>5, <2>1, <2>2 DEF Stretch
    <3> QED
      BY <1>7, <3>1, EntriesFacts
  <2> QED
    BY <2>3 DEF IsArray
<1>9. ASSUME NEW f, NEW n \in Nat, n = Len(f), NEW b, mem["U"][b] = Uuids(f), NEW j \in 1..n
      PROVE  Deref(mem, <<"U", b, j - 1>>).uuid = f[j].uuid
  <2>1. PICK u : u = mem["U"][b]
    OBVIOUS
  <2>2. IsArray(u, n) /\ \A k \in 1..n : u[k].uuid = f[k].uuid
    BY <1>9, <2>1 DEF IsArray
  <2>3. j - 1 \in 0..(n - 1) /\ (j - 1) + 1 = j
    OBVIOUS
  <2>4. Deref(mem, <<"U", b, j - 1>>) = u[(j - 1) + 1]
    BY <2>1, <2>2, <2>3, DerefIn
  <2> QED
    BY <2>2, <2>3, <2>4
<1>10. ASSUME NEW i \in 1..N PROVE WalkChrs(mem, <<"CHRS", i, 0>>) = services[i].chrs
  <2>1. PICK chrs \in Seq(Characteristics) : chrs = services[i].chrs
    <3>1. services[i] \in Services
      BY <1>0, ElementOfSeq
    <3> QED
      BY <3>1 DEF Services
  <2>2. PICK n \in Nat : n = Len(chrs)
    BY <2>1, LenProperties
  <2>3. PICK b : b = mem["CHRS"][i]
    OBVIOUS
  <2>4. PICK f : f = [j \in 1..n |-> make_chr(<<"U", i, j - 1>>, chrs[j].flags)]
    OBVIOUS
  <2>5. b = Append(f, ZERO)
    BY <1>2, <2>1, <2>2, <2>3, <2>4
  <2>6. IsArray(b, n + 1) /\ b[n + 1] = ZERO /\ \A k \in 1..n : b[k] = f[k]
    <3>1. IsArray(f, n)
      BY <2>4 DEF IsArray
    <3> QED
      BY <1>4, <2>2, <2>5, <3>1
  <2>7. ASSUME NEW j \in 1..n
        PROVE  b[j].uuid = <<"U", i, j - 1>> /\ b[j].flags = flags_to_repr(chrs[j].flags)
    <3>1. b[j] = make_chr(<<"U", i, j - 1>>, chrs[j].flags)
      BY <2>4, <2>6
    <3> QED
      BY <3>1, MakeFields
  <2>8. Walkable(b, 0, n)
    <3>1. ASSUME NEW k \in 1..n PROVE b[0 + k].uuid \notin {ZERO.uuid, GARBAGE.uuid}
      <4>1. b[k].uuid \notin {ZERO.uuid, GARBAGE.uuid}
        BY <2>7, PointerReal
      <4>2. 0 + k = k
        BY <2>2
      <4> QED
        BY <4>1, <4>2
    <3>2. b[0 + n + 1] = ZERO
      BY <2>2, <2>6
    <3> QED
      BY <3>1, <3>2 DEF Walkable
  <2>9. PICK entries : entries = Entries(mem, <<"CHRS", i, 0>>)
    OBVIOUS
  <2>10. IsArray(entries, n) /\ \A j \in 1..n : entries[j] = b[j]
    <3>1. 0 + n < n + 1 /\ n + 1 \in Nat
      BY <2>2
    <3>2. entries = [j \in 1..n |-> b[0 + j]]
      <4>1. Stretch(mem, "CHRS", i, b, n + 1, 0, n)
        BY <2>2, <2>3, <2>6, <2>8, <3>1 DEF Stretch
      <4> QED
        BY <2>9, <4>1, EntriesFacts
    <3> QED
      BY <2>2, <3>2 DEF IsArray
  <2>11. ASSUME NEW j \in 1..n
         PROVE  /\ entries[j].uuid # GARBAGE.uuid
                /\ Deref(mem, entries[j].uuid).uuid = chrs[j].uuid
                /\ entries[j].flags = flags_to_repr(chrs[j].flags)
    <3>1. entries[j].uuid = <<"U", i, j - 1>> /\ entries[j].flags = flags_to_repr(chrs[j].flags)
      BY <2>7, <2>10
    <3>2. Deref(mem, <<"U", i, j - 1>>).uuid = chrs[j].uuid
      <4>1. mem["U"][i] = Uuids(chrs)
        BY <1>2, <2>1
      <4> HIDE DEF Uuids
      <4> QED
        BY <1>9, <2>2, <4>1
    <3>3. entries[j].uuid # GARBAGE.uuid
      BY <3>1, PointerReal
    <3> QED
      BY <3>1, <3>2, <3>3
  <2>12. ChrDefsOf(mem, entries, chrs)
    BY <2>2, <2>11 DEF ChrDefsOf
  <2> QED
    BY <2>1, <2>2, <2>9, <2>10, <2>12, WalkChrsFacts
<1>11. ASSUME NEW i \in 1..N PROVE Deref(mem, <<"U", 0, i - 1>>).uuid = services[i].uuid
  <2> HIDE DEF Uuids
  <2> QED
    BY <1>0, <1>2, <1>9
<1>12. SvcDefsOf(mem, defs, services)
  BY <1>0, <1>6, <1>8, <1>10, <1>11, Zenon DEF SvcDefsOf
<1> QED
  BY <1>0, <1>1, <1>7, <1>8, <1>12, WalkFacts

-----------------------------------------------------------------------------
(* The attributes the host makes of a table.                               *)

\* An attribute of service svc, made of chr, between two handles.
AttrOf(c, chr, svc, after, before) ==
  /\ c.uuid = chr.uuid /\ c.flags = chr.flags /\ c.svc = svc
  /\ c.val = c.def + 1 /\ after < c.def /\ c.def < before

\* r is the database d with the first j characteristics of service svc.
Grown(d, r, svc, chrs, j) ==
  /\ r.next \in Nat /\ d.next < r.next
  /\ r.chrs \in Seq(Attrs) /\ Len(r.chrs) = Len(d.chrs) + j
  /\ \A k \in 1..Len(d.chrs) : r.chrs[k] = d.chrs[k]
  /\ \A k \in 1..j : AttrOf(r.chrs[Len(d.chrs) + k], chrs[k], svc, d.next, r.next)

\* One more characteristic.
LEMMA GrownStep ==
  ASSUME NEW d, NEW r, NEW svc \in Nat, NEW chrs \in Seq(Characteristics), NEW j \in 0..(Len(chrs) - 1),
         d.next \in Nat, d.chrs \in Seq(Attrs), Grown(d, r, svc, chrs, j)
  PROVE  Grown(d, AddAttribute(r, svc, chrs[j + 1]), svc, chrs, j + 1)
<1>0. Len(chrs) \in Nat /\ j \in Nat /\ j + 1 \in 1..Len(chrs)
  BY LenProperties
<1>1. PICK m \in Nat : m = d.next
  OBVIOUS
<1>2. PICK n \in Nat : n = r.next
  BY DEF Grown
<1>3. m < n
  BY <1>1, <1>2 DEF Grown
<1>4. PICK old \in Seq(Attrs) : old = d.chrs
  OBVIOUS
<1>5. PICK now \in Seq(Attrs) : now = r.chrs
  BY DEF Grown
<1>6. PICK l \in Nat : l = Len(old)
  BY <1>4, LenProperties
<1>7. Len(now) = l + j
  BY <1>4, <1>5, <1>6 DEF Grown
<1>8. PICK chr \in Characteristics : chr = chrs[j + 1]
  BY <1>0, ElementOfSeq
<1>9. PICK c : c = [uuid |-> chr.uuid, flags |-> chr.flags, svc |-> svc, def |-> n, val |-> n + 1]
  OBVIOUS
<1>10. c \in Attrs
  BY <1>2, <1>8, <1>9 DEF Attrs, Characteristics
<1>11. PICK w \in Nat : w = Width(chr) /\ w > 0
  <2>1. Width(chr) \in {2, 3}
    BY DEF Width
  <2> QED
    BY <2>1
<1>12. PICK x : x = AddAttribute(r, svc, chr)
  OBVIOUS
<1>13. x.next = n + w /\ x.chrs = Append(now, c)
  BY <1>2, <1>5, <1>9, <1>11, <1>12 DEF AddAttribute
<1>14. x.next \in Nat /\ m < x.next
  <2>1. n + w \in Nat /\ m < n + w
    BY <1>1, <1>2, <1>3, <1>11
  <2> QED
    BY <1>13, <2>1
<1>15. /\ x.chrs \in Seq(Attrs) /\ Len(x.chrs) = l + (j + 1)
       /\ \A k \in 1..(l + j) : x.chrs[k] = now[k]
       /\ x.chrs[l + (j + 1)] = c
  <2>1. l + (j + 1) = (l + j) + 1
    BY <1>0, <1>6
  <2> QED
    BY <1>5, <1>7, <1>10, <1>13, <2>1, AppendProperties, SMTT(30)
<1>16. ASSUME NEW k \in 1..l PROVE x.chrs[k] = old[k]
  <2>1. k \in 1..(l + j)
    BY <1>0, <1>6
  <2>2. now[k] = old[k]
    BY <1>4, <1>5, <1>6 DEF Grown
  <2> QED
    BY <1>15, <2>1, <2>2
<1>17. ASSUME NEW k \in 1..(j + 1) PROVE AttrOf(x.chrs[l + k], chrs[k], svc, m, x.next)
  <2>1. CASE k = j + 1
    <3>1. AttrOf(c, chr, svc, m, n + w)
      BY <1>2, <1>3, <1>9, <1>11 DEF AttrOf
    <3> QED
      BY <1>8, <1>13, <1>15, <2>1, <3>1
  <2>2. CASE k # j + 1
    <3>1. k \in 1..j /\ l + k \in 1..(l + j)
      BY <1>0, <1>6, <2>2
    <3>2. AttrOf(now[l + k], chrs[k], svc, m, n)
      BY <1>1, <1>2, <1>4, <1>5, <1>6, <3>1 DEF Grown
    <3>3. now[l + k] \in Attrs
      BY <1>5, <1>7, <3>1, ElementOfSeq
    <3>4. AttrOf(now[l + k], chrs[k], svc, m, n + w)
      <4>1. PICK f \in Nat : f = now[l + k].def
        BY <3>3 DEF Attrs
      <4>2. f < n
        BY <3>2, <4>1 DEF AttrOf
      <4>3. f < n + w
        BY <1>2, <1>11, <4>1, <4>2, SMTT(30)
      <4> QED
        BY <3>2, <4>1, <4>3 DEF AttrOf
    <3> QED
      BY <1>13, <1>15, <3>1, <3>4
  <2> QED
    BY <2>1, <2>2
<1>18. Grown(d, x, svc, chrs, j + 1)
  BY <1>1, <1>4, <1>6, <1>14, <1>15, <1>16, <1>17 DEF Grown
<1> QED
  BY <1>8, <1>12, <1>18

\* One more service.
LEMMA AddAttributesFacts ==
  ASSUME NEW d, NEW svc \in Nat, NEW s \in Services, d.next \in Nat, d.chrs \in Seq(Attrs)
  PROVE  Grown(d, AddAttributes(d, svc, s), svc, s.chrs, Len(s.chrs))
<1>0. PICK chrs \in Seq(Characteristics) : chrs = s.chrs
  BY DEF Services
<1>1. Len(chrs) \in Nat
  BY <1>0, LenProperties
<1>2. PICK t : t = [next |-> d.next + 1, chrs |-> d.chrs]
  OBVIOUS
<1> DEFINE Is(f, m) == f = [j \in 0..m |-> IF j = 0 THEN t ELSE AddAttribute(f[j - 1], svc, chrs[j])]
           S == {m \in Nat : \E f : Is(f, m)}
<1>3. 0 \in S
  <2>1. PICK f : f = [i \in 0..0 |-> t]
    OBVIOUS
  <2>2. Is(f, 0)
    BY <2>1
  <2> QED
    BY <2>2
<1>4. ASSUME NEW m \in 0..(Len(chrs) - 1), m \in S PROVE m + 1 \in S
  <2>1. PICK f : Is(f, m)
    BY <1>4
  <2>2. PICK g : g = [j \in 0..(m + 1) |->
                        IF j = m + 1 THEN AddAttribute(f[m], svc, chrs[m + 1]) ELSE f[j]]
    OBVIOUS
  <2>3. Is(g, m + 1)
    BY <1>1, <2>1, <2>2
  <2>4. m + 1 \in Nat
    BY <1>1
  <2> HIDE DEF Is
  <2> QED
    BY <2>3, <2>4
<1>5. Len(chrs) \in S
  <2> HIDE DEF S
  <2>1. \A n \in 0..Len(chrs) : n \in S
    BY <1>1, <1>3, <1>4, Upwards
  <2> QED
    BY <2>1, <1>1
<1>6. PICK f : Is(f, Len(chrs)) /\ AddAttributes(d, svc, s) = f[Len(chrs)]
  BY <1>0, <1>2, <1>5, ZenonT(30) DEF AddAttributes
<1> DEFINE A == {m \in Nat : m <= Len(chrs) => Grown(d, f[m], svc, chrs, m)}
<1>7. 0 \in A
  <2>1. f[0] = t
    BY <1>1, <1>6
  <2>2. t.next = d.next + 1 /\ t.chrs = d.chrs
    BY <1>2
  <2>3. Len(d.chrs) \in Nat
    BY LenProperties
  <2>4. Grown(d, t, svc, chrs, 0)
    BY <2>2, <2>3 DEF Grown
  <2> QED
    BY <2>1, <2>4
<1>8. ASSUME NEW m \in 0..(Len(chrs) - 1), m \in A PROVE m + 1 \in A
  <2>1. m + 1 \in 0..Len(chrs) /\ m + 1 # 0 /\ (m + 1) - 1 = m /\ m + 1 \in Nat
    BY <1>1
  <2>2. f[m + 1] = AddAttribute(f[(m + 1) - 1], svc, chrs[m + 1])
    BY <1>6, <2>1
  <2>3. Grown(d, f[m], svc, chrs, m)
    BY <1>1, <1>8
  <2>4. Grown(d, AddAttribute(f[m], svc, chrs[m + 1]), svc, chrs, m + 1)
    BY <1>0, <2>3, GrownStep
  <2> QED
    BY <2>1, <2>2, <2>4
<1>9. Len(chrs) \in A
  <2> HIDE DEF A
  <2>1. \A n \in 0..Len(chrs) : n \in A
    BY <1>1, <1>7, <1>8, Upwards
  <2> QED
    BY <2>1, <1>1
<1> QED
  BY <1>0, <1>1, <1>6, <1>9

\* The database after each service, step by step.
LEMMA DatabaseSteps ==
  ASSUME NEW services \in Seq(Services)
  PROVE  /\ Database(services)[0] = [next |-> 1, chrs |-> << >>]
         /\ \A i \in 1..Len(services) :
              Database(services)[i] = AddAttributes(Database(services)[i - 1], i, services[i])
<1>0. Len(services) \in Nat
  BY LenProperties
<1>1. PICK t : t = [next |-> 1, chrs |-> << >>]
  OBVIOUS
<1> DEFINE Is(f, m) == f = [i \in 0..m |-> IF i = 0 THEN t ELSE AddAttributes(f[i - 1], i, services[i])]
           S == {m \in Nat : \E f : Is(f, m)}
<1>2. 0 \in S
  <2>1. PICK f : f = [i \in 0..0 |-> t]
    OBVIOUS
  <2>2. Is(f, 0)
    BY <2>1
  <2> QED
    BY <2>2
<1>3. ASSUME NEW m \in 0..(Len(services) - 1), m \in S PROVE m + 1 \in S
  <2>1. PICK f : Is(f, m)
    BY <1>3
  <2>2. PICK g : g = [i \in 0..(m + 1) |->
                        IF i = m + 1 THEN AddAttributes(f[m], m + 1, services[m + 1]) ELSE f[i]]
    OBVIOUS
  <2>3. Is(g, m + 1)
    BY <1>0, <2>1, <2>2
  <2>4. m + 1 \in Nat
    BY <1>0
  <2> HIDE DEF Is
  <2> QED
    BY <2>3, <2>4
<1>4. Len(services) \in S
  <2> HIDE DEF S
  <2>1. \A n \in 0..Len(services) : n \in S
    BY <1>0, <1>2, <1>3, Upwards
  <2> QED
    BY <2>1, <1>0
<1>5. Is(Database(services), Len(services))
  BY <1>1, <1>4 DEF Database
<1>6. PICK f : f = Database(services)
  OBVIOUS
<1>7. f[0] = t
  BY <1>0, <1>5, <1>6
<1>8. ASSUME NEW i \in 1..Len(services) PROVE f[i] = AddAttributes(f[i - 1], i, services[i])
  <2>1. i \in 0..Len(services) /\ i # 0
    BY <1>0
  <2> QED
    BY <1>5, <1>6, <2>1
<1> QED
  BY <1>1, <1>6, <1>7, <1>8

\* The groups of handles of the services follow each other.
LEMMA DatabaseFacts ==
  ASSUME NEW services \in Seq(Services)
  PROVE  \A i \in 0..Len(services) : /\ Database(services)[i].next \in Nat
                                     /\ Database(services)[i].chrs \in Seq(Attrs)
<1>0. Len(services) \in Nat
  BY LenProperties
<1>1. PICK f : f = Database(services)
  OBVIOUS
<1> DEFINE A == {m \in Nat : m <= Len(services) => f[m].next \in Nat /\ f[m].chrs \in Seq(Attrs)}
<1>2. 0 \in A
  <2>1. f[0] = [next |-> 1, chrs |-> << >>]
    BY <1>1, DatabaseSteps
  <2>2. f[0].next = 1 /\ f[0].chrs = << >>
    BY <2>1
  <2>3. << >> \in Seq(Attrs)
    BY EmptySeq
  <2>4. f[0].next \in Nat
    BY <2>2
  <2>5. f[0].chrs \in Seq(Attrs)
    BY <2>2, <2>3
  <2> QED
    BY <2>4, <2>5
<1>3. ASSUME NEW m \in 0..(Len(services) - 1), m \in A PROVE m + 1 \in A
  <2>1. m + 1 \in 1..Len(services) /\ (m + 1) - 1 = m /\ m + 1 \in Nat
    BY <1>0
  <2>2. f[m + 1] = AddAttributes(f[m], m + 1, services[m + 1])
    BY <1>1, <2>1, DatabaseSteps
  <2>3. f[m].next \in Nat /\ f[m].chrs \in Seq(Attrs)
    BY <1>0, <1>3
  <2>4. services[m + 1] \in Services
    BY <2>1, ElementOfSeq
  <2>5. Grown(f[m], f[m + 1], m + 1, services[m + 1].chrs, Len(services[m + 1].chrs))
    BY <2>1, <2>2, <2>3, <2>4, AddAttributesFacts
  <2> QED
    BY <2>1, <2>5 DEF Grown
<1>4. \A m \in 0..Len(services) : m \in A
  <2> HIDE DEF A
  <2> QED
    BY <1>0, <1>2, <1>3, Upwards
<1> QED
  BY <1>0, <1>1, <1>4

\* The handles of c lie within its service, one of the first m.
Placed(f, c, m) ==
  /\ c.svc \in 1..m /\ c.val = c.def + 1
  /\ f[c.svc - 1].next < c.def /\ c.def < f[c.svc].next

\* Handles count up, and every characteristic lies within its service.
LEMMA DatabasePlaces ==
  ASSUME NEW services \in Seq(Services)
  PROVE  /\ \A i \in 0..Len(services) : \A k \in 0..i :
              Database(services)[k].next <= Database(services)[i].next
         /\ \A c \in ToSet(Attributes(services)) : Placed(Database(services), c, Len(services))
<1>0. PICK N \in Nat : N = Len(services)
  BY LenProperties
<1>1. PICK f : f = Database(services)
  OBVIOUS
<1>2. \A i \in 0..N : f[i].next \in Nat /\ f[i].chrs \in Seq(Attrs)
  BY <1>0, <1>1, DatabaseFacts
<1>3. ASSUME NEW m \in 0..(N - 1)
      PROVE  Grown(f[m], f[m + 1], m + 1, services[m + 1].chrs, Len(services[m + 1].chrs))
  <2>1. m + 1 \in 1..Len(services) /\ (m + 1) - 1 = m /\ m \in 0..N /\ m + 1 \in Nat
    BY <1>0
  <2>2. f[m + 1] = AddAttributes(f[m], m + 1, services[m + 1])
    BY <1>1, <2>1, DatabaseSteps
  <2>3. services[m + 1] \in Services
    BY <2>1, ElementOfSeq
  <2> QED
    BY <1>2, <2>1, <2>2, <2>3, AddAttributesFacts
<1>4. \A i \in 0..N : \A k \in 0..i : f[k].next <= f[i].next
  <2> DEFINE A == {m \in Nat : m <= N => \A k \in 0..m : f[k].next <= f[m].next}
  <2>1. 0 \in A
    BY <1>2
  <2>2. ASSUME NEW m \in 0..(N - 1), m \in A PROVE m + 1 \in A
    <3>1. m \in 0..N /\ m + 1 \in 0..N
      OBVIOUS
    <3>2. PICK a \in Nat : a = f[m].next
      BY <1>2, <3>1
    <3>3. PICK b \in Nat : b = f[m + 1].next
      BY <1>2, <3>1
    <3>4. a < b
      BY <1>3, <3>2, <3>3 DEF Grown
    <3>5. ASSUME NEW k \in 0..(m + 1) PROVE f[k].next <= b
      <4>1. CASE k = m + 1
        BY <3>3, <4>1
      <4>2. CASE k # m + 1
        <5>1. k \in 0..m /\ k \in 0..N
          BY <4>2
        <5>2. f[k].next <= a
          BY <2>2, <3>1, <3>2, <5>1
        <5>3. PICK c \in Nat : c = f[k].next
          BY <1>2, <5>1
        <5> QED
          BY <3>4, <5>2, <5>3
      <4> QED
        BY <4>1, <4>2
    <3> QED
      BY <3>1, <3>3, <3>5
  <2> HIDE DEF A
  <2>3. \A n \in 0..N : n \in A
    BY <2>1, <2>2, Upwards
  <2> QED
    BY <2>3 DEF A
<1>5. \A c \in ToSet(f[N].chrs) : Placed(f, c, N)
  <2> DEFINE A == {m \in Nat : m <= N => \A c \in ToSet(f[m].chrs) : Placed(f, c, m)}
  <2>1. 0 \in A
    <3>1. f[0].chrs = << >>
      BY <1>1, DatabaseSteps
    <3>2. ToSet(<< >>) = {}
      BY DEF ToSet
    <3> QED
      BY <3>1, <3>2
  <2>2. ASSUME NEW m \in 0..(N - 1), m \in A PROVE m + 1 \in A
    <3>1. m \in 0..N /\ m + 1 \in 0..N /\ (m + 1) - 1 = m
      OBVIOUS
    <3>2. PICK old \in Seq(Attrs) : old = f[m].chrs
      BY <1>2, <3>1
    <3>3. PICK new \in Seq(Attrs) : new = f[m + 1].chrs
      BY <1>2, <3>1
    <3>4. PICK chrs : chrs = services[m + 1].chrs
      OBVIOUS
    <3>5. PICK n \in Nat : n = Len(chrs)
      <4>1. services[m + 1] \in Services
        BY <1>0, ElementOfSeq
      <4>2. chrs \in Seq(Characteristics)
        BY <3>4, <4>1 DEF Services
      <4> QED
        BY <4>2, LenProperties
    <3>6. PICK L \in Nat : L = Len(old)
      BY <3>2, LenProperties
    <3>7. /\ Len(new) = L + n
          /\ \A k \in 1..L : new[k] = old[k]
          /\ \A k \in 1..n : AttrOf(new[L + k], chrs[k], m + 1, f[m].next, f[m + 1].next)
      BY <1>3, <3>2, <3>3, <3>4, <3>5, <3>6 DEF Grown
    <3>8. ASSUME NEW c \in ToSet(new) PROVE Placed(f, c, m + 1)
      <4>1. PICK j \in 1..(L + n) : c = new[j]
        <5>1. DOMAIN new = 1..(L + n)
          BY <3>3, <3>7, LenProperties
        <5> QED
          BY <5>1 DEF ToSet
      <4>2. CASE j \in 1..L
        <5>1. DOMAIN old = 1..L
          BY <3>2, <3>6, LenProperties
        <5>2. c \in ToSet(old)
          BY <3>7, <4>1, <4>2, <5>1 DEF ToSet
        <5>3. Placed(f, c, m)
          BY <2>2, <3>1, <3>2, <5>2
        <5> QED
          BY <5>3 DEF Placed
      <4>3. CASE j \notin 1..L
        <5>1. j - L \in 1..n /\ L + (j - L) = j
          BY <4>1, <4>3
        <5>2. AttrOf(c, chrs[j - L], m + 1, f[m].next, f[m + 1].next)
          BY <3>7, <4>1, <5>1
        <5>3. c.svc = m + 1 /\ c.svc - 1 = m /\ m + 1 \in 1..(m + 1)
          BY <5>2 DEF AttrOf
        <5> QED
          BY <5>2, <5>3 DEF AttrOf, Placed
      <4> QED
        BY <4>2, <4>3
    <3> QED
      BY <3>1, <3>3, <3>8
  <2> HIDE DEF A
  <2>3. \A n \in 0..N : n \in A
    BY <2>1, <2>2, Upwards
  <2> QED
    BY <2>3 DEF A
<1> QED
  BY <1>0, <1>1, <1>4, <1>5 DEF Attributes

\* The attributes are attributes, and those with a handle in the group of a
\* service are its own.
LEMMA GroupFacts ==
  ASSUME NEW services \in Seq(Services)
  PROVE  /\ Attributes(services) \in Seq(Attrs)
         /\ \A c \in ToSet(Attributes(services)) :
              c \in Attrs /\ c.val # 0 /\ c.svc \in 1..Len(services)
         /\ \A c \in ToSet(Attributes(services)), i \in 1..Len(services) :
              c.def \in Group(services, i).start..Group(services, i).end <=> c.svc = i
<1>0. PICK N \in Nat : N = Len(services)
  BY LenProperties
<1>1. PICK f : f = Database(services)
  OBVIOUS
<1>2. \A i \in 0..N : f[i].next \in Nat /\ f[i].chrs \in Seq(Attrs)
  BY <1>0, <1>1, DatabaseFacts
<1>3. Attributes(services) \in Seq(Attrs)
  BY <1>0, <1>1, <1>2 DEF Attributes
<1>4. ASSUME NEW c \in ToSet(Attributes(services))
      PROVE  /\ c \in Attrs /\ c.val # 0 /\ c.svc \in 1..N
             /\ \A i \in 1..N : c.def \in Group(services, i).start..Group(services, i).end <=> c.svc = i
  <2>1. c \in Attrs
    <3>1. PICK seq \in Seq(Attrs) : seq = Attributes(services)
      BY <1>3
    <3>2. PICK j \in DOMAIN seq : c = seq[j]
      BY <3>1 DEF ToSet
    <3> QED
      BY <3>1, <3>2, ElementOfSeq, LenProperties
  <2>2. PICK d \in Nat : d = c.def
    BY <2>1 DEF Attrs
  <2>3. Placed(f, c, N)
    BY <1>0, <1>1, DatabasePlaces
  <2>4. PICK s \in 1..N : s = c.svc
    BY <2>3 DEF Placed
  <2>5. c.val = d + 1 /\ f[s - 1].next < d /\ d < f[s].next
    BY <2>2, <2>3, <2>4 DEF Placed
  <2>6. ASSUME NEW i \in 1..N
        PROVE  c.def \in Group(services, i).start..Group(services, i).end <=> c.svc = i
    <3>1. i - 1 \in 0..N /\ i \in 0..N /\ s - 1 \in 0..N /\ s \in 0..N
      OBVIOUS
    <3>2. PICK a \in Nat : a = f[i - 1].next
      BY <1>2, <3>1
    <3>3. PICK b \in Nat : b = f[i].next
      BY <1>2, <3>1
    <3>4. PICK lo \in Nat : lo = f[s - 1].next
      BY <1>2, <3>1
    <3>5. PICK hi \in Nat : hi = f[s].next
      BY <1>2, <3>1
    <3>6. Group(services, i).start = a /\ Group(services, i).end = b - 1
      BY <1>1, <3>2, <3>3 DEF Group
    <3>7. CASE s = i
      BY <2>2, <2>4, <2>5, <3>2, <3>3, <3>6, <3>7, SMTT(30)
    <3>8. CASE s < i
      <4>1. s \in 0..(i - 1)
        BY <3>8
      <4>2. hi <= a
        BY <1>0, <1>1, <3>1, <3>2, <3>5, <4>1, DatabasePlaces
      <4>3. d < hi
        BY <2>5, <3>5
      <4>4. d \notin a..(b - 1)
        BY <4>2, <4>3, <3>5, <3>2
      <4>5. s # i
        BY <3>8
      <4> QED
        BY <2>2, <2>4, <3>6, <4>4, <4>5
    <3>9. CASE s > i
      <4>1. i \in 0..(s - 1)
        BY <3>9
      <4>2. b <= lo
        BY <1>0, <1>1, <3>1, <3>3, <3>4, <4>1, DatabasePlaces
      <4>3. lo < d
        BY <2>5, <3>4
      <4>4. d \notin a..(b - 1)
        BY <4>2, <4>3, <3>4, <3>3
      <4>5. s # i
        BY <3>9
      <4> QED
        BY <2>2, <2>4, <3>6, <4>4, <4>5
    <3> QED
      BY <3>7, <3>8, <3>9
  <2> QED
    BY <2>1, <2>2, <2>4, <2>5, <2>6
<1> QED
  BY <1>0, <1>3, <1>4
================================================================================
