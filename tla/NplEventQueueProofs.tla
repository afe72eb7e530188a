------------------------- MODULE NplEventQueueProofs -------------------------
(***************************************************************************)
(* Proofs about NplEventQueue, for any sets of events, threads and tasks:  *)
(* type correctness, the list invariant, absence of lost wake-ups, and the *)
(* refinement of the FIFO of EventFifo.                                    *)
(***************************************************************************)
EXTENDS NplEventQueue, StructureProofs

USE NullAssumption

-----------------------------------------------------------------------------
(* What the walk of ble_npl_eventq_remove finds.                           *)

\* The events linked from the head are the members of the queue.
LEMMA LinkedIsFifo ==
  ASSUME TypeOK, ListOK
  PROVE  Linked = {fifo[i] : i \in 1..Len(fifo)}
<1>1. Spells(fifo, head, next, NULL)
  BY DEF ListOK, ListSpellsFifo, Spells
<1>2. Linked = Range(fifo)
  BY <1>1, WalkedIsRange DEF TypeOK, Linked
<1> QED
  BY <1>2, LenProperties DEF Range, TypeOK

\* The node before the i-th event of the queue is the (i-1)-th event.
LEMMA PrevInFifo ==
  ASSUME TypeOK, ListOK, NEW i \in 1..Len(fifo)
  PROVE  Prev(fifo[i]) = IF i = 1 THEN NULL ELSE fifo[i - 1]
<1>1. Len(fifo) \in Nat /\ \A k \in 1..Len(fifo) : fifo[k] \in Events
  BY ElementOfSeq, LenProperties DEF TypeOK
<1>2. \A p \in Linked : \E k \in 1..Len(fifo) : p = fifo[k]
  BY LinkedIsFifo
<1>3. \A k \in 1..Len(fifo) : fifo[k] \in Linked
  BY LinkedIsFifo
<1>4. ASSUME NEW p \in Linked, next[p] = fifo[i]
      PROVE  i # 1 /\ p = fifo[i - 1]
  <2>1. PICK k \in 1..Len(fifo) : p = fifo[k]
    BY <1>2
  <2>2. next[p] # NULL
    BY <1>1, <1>4, NullAssumption
  <2>3. k # Len(fifo) /\ fifo[k + 1] = fifo[i] /\ k + 1 \in 1..Len(fifo)
    BY <1>1, <1>4, <2>1, <2>2 DEF ListOK, ListSpellsFifo
  <2>4. k + 1 = i
    BY <2>3 DEF ListOK, FifoHasNoRepeats
  <2> QED
    BY <1>1, <2>1, <2>4
<1>5. CASE i = 1
  BY <1>4, <1>5 DEF Prev
<1>6. CASE i # 1
  <2>1. i - 1 \in 1..Len(fifo) /\ i - 1 # Len(fifo) /\ (i - 1) + 1 = i
    BY <1>1, <1>6
  <2>2. fifo[i - 1] \in Linked /\ next[fifo[i - 1]] = fifo[i]
    BY <1>3, <2>1 DEF ListOK, ListSpellsFifo
  <2> QED
    BY <1>4, <1>6, <2>2 DEF Prev
<1> QED
  BY <1>5, <1>6

-----------------------------------------------------------------------------
(* The inductive invariant.                                                *)

\* It holds when the queue has not been initialised yet.
LEMMA InitIInv == Init => IInv
<1> SUFFICES ASSUME Init PROVE IInv
  OBVIOUS
<1>1. fifo \in Seq(Events) /\ Len(fifo) = 0
  BY EmptySeq DEF Init
<1>2. TypeOK
  BY <1>1 DEF Init, TypeOK
<1>3. ListOK
  BY <1>1 DEF Init, ListOK, ListSpellsFifo, FifoHasNoRepeats, QueuedMarksMembers
<1> QED
  BY <1>2, <1>3 DEF Init, IInv, SleeperReachable, LifeOK

\* Steps that leave the list and its history alone preserve ListOK.
LEMMA ListUntouched ==
  ASSUME ListOK,
         UNCHANGED <<head, tail, next, queued, usable, fifo>>,
         init_tag' = init_tag
  PROVE  ListOK'
BY DEF ListOK, ListSpellsFifo, FifoHasNoRepeats, QueuedMarksMembers

\* ble_npl_eventq_put (npl.rs:205-228) preserves the inductive invariant: the
\* new event goes behind the last one, or becomes the only one.
LEMMA PutIInv ==
  ASSUME IInv, NEW c \in Callers, NEW e \in Events, EventqPut(c, e)
  PROVE  IInv'
<1>1. Len(fifo) \in Nat /\ \A k \in 1..Len(fifo) : fifo[k] \in Events
  BY ElementOfSeq, LenProperties DEF IInv, TypeOK
<1>2. CASE queued[e] \/ ~init_tag
  <2>1. UNCHANGED vars
    BY <1>2 DEF EventqPut, vars, queueVars, runVars
  <2> QED
    BY <2>1 DEF IInv, TypeOK, ListOK, ListSpellsFifo, FifoHasNoRepeats,
                QueuedMarksMembers, SleeperReachable, LifeOK, vars, queueVars, runVars
<1>3. CASE ~queued[e] /\ init_tag
  <2> DEFINE n == Len(fifo)
  <2>1. /\ e \in usable /\ held[c] = NULL
        /\ queued' = [queued EXCEPT ![e] = TRUE]
        /\ next' = [x \in Events |-> IF x = e THEN NULL
                                     ELSE IF x = tail THEN e ELSE next[x]]
        /\ head' = IF tail = NULL THEN e ELSE head
        /\ tail' = e
        /\ held' = [held EXCEPT ![c] = waker]
        /\ waker' = NULL
        /\ fifo' = Append(fifo, e)
        /\ UNCHANGED <<init_tag, usable, run, woken, pollPc, current>>
    BY <1>3 DEF EventqPut, CanCall, runVars
  <2>2. /\ fifo' \in Seq(Events) /\ fifo' # << >> /\ Len(fifo') = n + 1
        /\ \A i \in 1..n : fifo'[i] = fifo[i]
        /\ fifo'[n + 1] = e
    BY <2>1, AppendProperties DEF IInv, TypeOK
  <2>3. \A i \in 1..n : fifo[i] # e
    BY <1>3 DEF IInv, ListOK, QueuedMarksMembers
  <2>4. TypeOK'
    BY <2>1, <2>2 DEF IInv, TypeOK, Callers
  <2>5. FifoHasNoRepeats'
    <3> SUFFICES ASSUME NEW i \in 1..(n + 1), NEW j \in 1..(n + 1), fifo'[i] = fifo'[j]
                 PROVE  i = j
      BY <2>2 DEF FifoHasNoRepeats
    <3> QED
      BY <1>1, <2>2, <2>3 DEF IInv, ListOK, FifoHasNoRepeats
  <2>6. QueuedMarksMembers'
    <3>1. \A i \in 1..(n + 1) : fifo'[i] \in usable /\ queued'[fifo'[i]]
      BY <1>1, <2>1, <2>2 DEF IInv, TypeOK, ListOK, QueuedMarksMembers
    <3>2. ASSUME NEW x \in usable, queued'[x]
          PROVE  \E i \in 1..(n + 1) : fifo'[i] = x
      BY <1>1, <1>3, <2>1, <2>2, <3>2 DEF IInv, TypeOK, ListOK, QueuedMarksMembers
    <3> QED
      BY <2>1, <2>2, <3>1, <3>2 DEF QueuedMarksMembers
  <2>7. ListSpellsFifo'
    <3>1. head' = fifo'[1] /\ tail' = fifo'[Len(fifo')]
      <4>1. CASE fifo = << >>
        BY <4>1, <2>1, <2>2, EmptySeq DEF IInv, ListOK, ListSpellsFifo
      <4>2. CASE fifo # << >>
        <5>1. n \in Nat \ {0}
          BY <4>2, EmptySeq DEF IInv, TypeOK
        <5>2. tail # NULL /\ head = fifo[1]
          BY <1>1, <4>2, <5>1, NullAssumption DEF IInv, ListOK, ListSpellsFifo
        <5> QED
          BY <5>1, <5>2, <2>1, <2>2
      <4> QED
        BY <4>1, <4>2
    <3>2. ASSUME NEW i \in 1..(n + 1)
          PROVE  next'[fifo'[i]] = IF i = n + 1 THEN NULL ELSE fifo'[i + 1]
      <4>1. CASE i = n + 1
        BY <4>1, <2>1, <2>2
      <4>2. CASE i = n
        <5>1. n \in 1..n /\ fifo # << >>
          BY <1>1, <4>2, <3>2, EmptySeq
        <5>2. tail = fifo[n] /\ fifo'[i] = fifo[n] /\ fifo[n] # e /\ fifo[n] \in Events
          BY <1>1, <4>2, <5>1, <2>2, <2>3 DEF IInv, ListOK, ListSpellsFifo
        <5> QED
          BY <1>1, <4>2, <5>1, <5>2, <2>1, <2>2
      <4>3. CASE i < n
        <5>1. i \in 1..n /\ n \in 1..n /\ i # n /\ i + 1 \in 1..n /\ fifo # << >>
          BY <1>1, <4>3, <3>2, EmptySeq
        <5>2. tail = fifo[n] /\ fifo[i] # fifo[n] /\ next[fifo[i]] = fifo[i + 1]
          BY <5>1 DEF IInv, ListOK, ListSpellsFifo, FifoHasNoRepeats
        <5> QED
          BY <1>1, <4>3, <5>1, <5>2, <2>1, <2>2, <2>3
      <4> QED
        BY <1>1, <4>1, <4>2, <4>3
    <3> QED
      BY <2>2, <3>1, <3>2 DEF ListSpellsFifo
  <2>8. SleeperReachable'
    BY <2>1 DEF IInv, TypeOK, SleeperReachable
  <2>9. LifeOK'
    BY <2>1, <1>3 DEF IInv, LifeOK
  <2> QED
    BY <2>4, <2>5, <2>6, <2>7, <2>8, <2>9 DEF IInv, ListOK
<1> QED
  BY <1>2, <1>3 DEF IInv, TypeOK

\* ble_npl_eventq_remove (npl.rs:309-341) preserves the inductive invariant,
\* wherever in the list the event is.
LEMMA RemoveIInv ==
  ASSUME IInv, NEW c \in Callers, NEW e \in Events, EventqRemove(c, e)
  PROVE  IInv'
<1> DEFINE n == Len(fifo)
<1>1. n \in Nat /\ \A k \in 1..n : fifo[k] \in Events
  BY ElementOfSeq, LenProperties DEF IInv, TypeOK
<1>2. PICK i \in 1..n : fifo[i] = e /\ fifo' = RemoveAt(fifo, i)
  BY LenProperties DEF EventqRemove, IInv, TypeOK
<1>3. /\ fifo' \in Seq(Events) /\ Len(fifo') = n - 1
      /\ \A j \in 1..(n - 1) : fifo'[j] = IF j < i THEN fifo[j] ELSE fifo[j + 1]
  BY <1>2, RemoveAtProperties, ZenonT(60) DEF IInv, TypeOK
<1>4. Prev(e) = IF i = 1 THEN NULL ELSE fifo[i - 1]
  BY <1>2, PrevInFifo DEF IInv
<1>5. /\ head' = IF head = e THEN next[e] ELSE head
      /\ tail' = IF tail = e THEN Prev(e) ELSE tail
      /\ next' = [x \in Events |-> IF x = e THEN NULL
                                   ELSE IF x = Prev(e) THEN next[e] ELSE next[x]]
      /\ queued' = [queued EXCEPT ![e] = FALSE]
      /\ UNCHANGED <<init_tag, waker, usable, run, woken, pollPc, current, held>>
  BY DEF EventqRemove, runVars
<1>6. \A j, k \in 1..n : fifo[j] = fifo[k] => j = k
  BY DEF IInv, ListOK, FifoHasNoRepeats
<1>7. /\ \A k \in 1..n : next[fifo[k]] = IF k = n THEN NULL ELSE fifo[k + 1]
      /\ head = fifo[1] /\ tail = fifo[n] /\ fifo # << >>
  BY <1>1, <1>2, EmptySeq DEF IInv, ListOK, ListSpellsFifo
<1>8. TypeOK'
  <2>1. Prev(e) \in Events \cup {NULL}
    BY <1>1, <1>2, <1>4
  <2> QED
    BY <1>3, <1>5, <2>1 DEF IInv, TypeOK
<1>9. FifoHasNoRepeats'
  <2> SUFFICES ASSUME NEW j \in 1..(n - 1), NEW k \in 1..(n - 1), fifo'[j] = fifo'[k]
               PROVE  j = k
    BY <1>3 DEF FifoHasNoRepeats
  <2> DEFINE old(x) == IF x < i THEN x ELSE x + 1
  <2>1. old(j) \in 1..n /\ old(k) \in 1..n
    BY <1>1
  <2>2. fifo'[j] = fifo[old(j)] /\ fifo'[k] = fifo[old(k)]
    BY <1>3
  <2>3. old(j) = old(k)
    <3> HIDE DEF old
    <3> QED
      BY <1>6, <2>1, <2>2
  <2> QED
    BY <1>1, <2>3
<1>10. QueuedMarksMembers'
  <2>1. ASSUME NEW j \in 1..(n - 1)
        PROVE  fifo'[j] \in usable /\ queued'[fifo'[j]]
    <3>1. PICK k \in 1..n : fifo'[j] = fifo[k] /\ k # i
      BY <1>1, <1>2, <1>3, SMTT(30)
    <3>2. fifo[k] # e /\ fifo[k] \in usable /\ queued[fifo[k]]
      BY <1>2, <1>6, <3>1 DEF IInv, ListOK, QueuedMarksMembers
    <3> QED
      BY <1>1, <1>5, <3>1, <3>2 DEF IInv, TypeOK
  <2>2. ASSUME init_tag, NEW x \in usable, queued'[x]
        PROVE  \E j \in 1..(n - 1) : fifo'[j] = x
    <3>1. x # e /\ queued[x]
      BY <1>5, <2>2 DEF IInv, TypeOK
    <3>2. PICK k \in 1..n : fifo[k] = x
      BY <2>2, <3>1 DEF IInv, ListOK, QueuedMarksMembers
    <3>3. CASE k < i
      BY <1>1, <1>2, <1>3, <3>2, <3>3
    <3>4. CASE k > i
      <4>1. k - 1 \in 1..(n - 1) /\ ~(k - 1 < i) /\ (k - 1) + 1 = k
        BY <1>1, <1>2, <3>4
      <4> QED
        BY <1>3, <3>2, <4>1
    <3> QED
      BY <1>1, <1>2, <3>1, <3>2, <3>3, <3>4
  <2> QED
    BY <1>3, <1>5, <2>1, <2>2 DEF QueuedMarksMembers
<1>11. ListSpellsFifo'
  <2>1. head' = IF fifo' = << >> THEN NULL ELSE fifo'[1]
    <3>1. fifo' = << >> <=> n = 1
      BY <1>1, <1>2, <1>3, EmptySeq
    <3>2. CASE i = 1
      <4>1. head' = next[fifo[1]]
        BY <1>2, <1>5, <1>7, <3>2
      <4>2. next[fifo[1]] = IF n = 1 THEN NULL ELSE fifo[1 + 1]
        BY <1>2, <1>7, <3>2
      <4> QED
        BY <1>1, <1>3, <3>1, <3>2, <4>1, <4>2
    <3>3. CASE i # 1
      <4>1. head # e /\ n # 1
        BY <1>1, <1>2, <1>6, <1>7, <3>3
      <4> QED
        BY <1>1, <1>3, <1>5, <1>7, <3>1, <3>3, <4>1
    <3> QED
      BY <3>2, <3>3
  <2>2. tail' = IF fifo' = << >> THEN NULL ELSE fifo'[Len(fifo')]
    <3>1. fifo' = << >> <=> n = 1
      BY <1>1, <1>2, <1>3, EmptySeq
    <3>2. CASE i = n
      BY <1>1, <1>2, <1>3, <1>4, <1>5, <1>7, <3>1, <3>2
    <3>3. CASE i # n
      <4>1. tail # e /\ n # 1 /\ n - 1 \in 1..(n - 1) /\ ~(n - 1 < i)
        BY <1>1, <1>2, <1>6, <1>7, <3>3
      <4>2. fifo'[n - 1] = fifo[n]
        BY <1>1, <1>3, <4>1
      <4> QED
        BY <1>3, <1>5, <1>7, <3>1, <4>1, <4>2
    <3> QED
      BY <3>2, <3>3
  <2>3. ASSUME NEW j \in 1..(n - 1)
        PROVE  next'[fifo'[j]] = IF j = n - 1 THEN NULL ELSE fifo'[j + 1]
    <3>1. CASE j < i - 1
      <4>1. j \in 1..n /\ j + 1 < i /\ j + 1 \in 1..(n - 1) /\ j # n /\ i - 1 \in 1..n /\ i # 1
        BY <1>1, <1>2, <3>1
      <4>2. fifo'[j] = fifo[j] /\ fifo'[j + 1] = fifo[j + 1]
        BY <1>1, <1>3, <4>1
      <4>3. fifo[j] # e /\ fifo[j] # Prev(e)
        BY <1>1, <1>2, <1>4, <1>6, <3>1, <4>1
      <4> QED
        BY <1>1, <1>5, <1>7, <4>1, <4>2, <4>3
    <3>2. CASE j = i - 1
      <4>1. i # 1 /\ i - 1 \in 1..n /\ j < i
        BY <1>1, <1>2, <3>2
      <4>2. fifo'[j] = fifo[i - 1] /\ fifo[i - 1] # e /\ fifo[i - 1] = Prev(e)
        BY <1>1, <1>2, <1>3, <1>4, <1>6, <3>2, <4>1
      <4>3. next'[fifo'[j]] = next[e]
        BY <1>1, <1>5, <4>1, <4>2
      <4>4. CASE i = n
        BY <1>1, <1>2, <1>7, <3>2, <4>3, <4>4
      <4>5. CASE i # n
        <5>1. j + 1 \in 1..(n - 1) /\ ~(j + 1 < i) /\ (j + 1) + 1 = i + 1 /\ j # n - 1
          BY <1>1, <1>2, <3>2, <4>5
        <5>2. fifo'[j + 1] = fifo[i + 1]
          BY <1>3, <5>1
        <5> QED
          BY <1>1, <1>2, <1>7, <4>3, <4>5, <5>1, <5>2
      <4> QED
        BY <4>4, <4>5
    <3>3. CASE j > i - 1
      <4>1. j + 1 \in 1..n /\ ~(j < i) /\ j + 1 # i /\ (i # 1 => i - 1 \in 1..n /\ j + 1 # i - 1)
        BY <1>1, <1>2, <3>3
      <4>2. fifo'[j] = fifo[j + 1] /\ fifo[j + 1] # e /\ fifo[j + 1] # Prev(e)
        BY <1>1, <1>2, <1>3, <1>4, <1>6, <4>1, NullAssumption
      <4>3. next'[fifo'[j]] = next[fifo[j + 1]]
        BY <1>1, <1>5, <4>1, <4>2
      <4>4. CASE j = n - 1
        BY <1>1, <1>7, <4>1, <4>3, <4>4
      <4>5. CASE j # n - 1
        <5>1. j + 1 \in 1..(n - 1) /\ ~(j + 1 < i) /\ j + 1 # n
          BY <1>1, <3>3, <4>5
        <5> QED
          BY <1>1, <1>3, <1>7, <4>1, <4>3, <4>5, <5>1
      <4> QED
        BY <4>4, <4>5
    <3> QED
      BY <1>1, <1>2, <3>1, <3>2, <3>3
  <2> QED
    BY <1>3, <2>1, <2>2, <2>3 DEF ListSpellsFifo
<1>12. SleeperReachable'
  BY <1>5, <1>7 DEF IInv, SleeperReachable
<1>13. LifeOK'
  BY <1>5, <1>7 DEF IInv, LifeOK
<1> QED
  BY <1>8, <1>9, <1>10, <1>11, <1>12, <1>13 DEF IInv, ListOK

\* eventq_try_pop (npl.rs:235-248) preserves the inductive invariant.
LEMMA TryPopIInv ==
  ASSUME IInv, EventqTryPop
  PROVE  IInv'
<1> DEFINE n == Len(fifo)
<1>1. n \in Nat /\ \A k \in 1..n : fifo[k] \in Events
  BY ElementOfSeq, LenProperties DEF IInv, TypeOK
<1>2. CASE head = NULL
  <2>1. /\ pollPc' = "peek" /\ pollPc = "pop"
        /\ UNCHANGED <<queueVars, current, fifo, usable, run, woken, held>>
    BY <1>2 DEF EventqTryPop, queueVars
  <2>2. TypeOK'
    BY <2>1 DEF IInv, TypeOK, queueVars
  <2>3. ListOK'
    BY <2>1, ListUntouched DEF IInv, queueVars
  <2> QED
    BY <2>1, <2>2, <2>3 DEF IInv, SleeperReachable, LifeOK, queueVars
<1>3. CASE head # NULL
  <2>1. /\ head' = next[head]
        /\ tail' = IF next[head] = NULL THEN NULL ELSE tail
        /\ next' = [next EXCEPT ![head] = NULL]
        /\ queued' = [queued EXCEPT ![head] = FALSE]
        /\ current' = head
        /\ pollPc = "pop" /\ pollPc' = "handle"
        /\ fifo' = Tail(fifo)
        /\ UNCHANGED <<init_tag, waker, usable, run, woken, held>>
    BY <1>3 DEF EventqTryPop
  <2>2. fifo # << >> /\ n \in Nat \ {0} /\ head = fifo[1] /\ head \in Events
    BY <1>3, EmptySeq DEF IInv, TypeOK, ListOK, ListSpellsFifo
  <2>3. /\ fifo' \in Seq(Events) /\ Len(fifo') = n - 1
        /\ \A j \in 1..(n - 1) : fifo'[j] = fifo[j + 1]
    BY <2>1, <2>2, HeadTailProperties DEF IInv, TypeOK
  <2>4. /\ \A k \in 1..n : next[fifo[k]] = IF k = n THEN NULL ELSE fifo[k + 1]
        /\ tail = fifo[n]
        /\ \A j, k \in 1..n : fifo[j] = fifo[k] => j = k
    BY <2>2 DEF IInv, ListOK, ListSpellsFifo, FifoHasNoRepeats
  <2>5. fifo' = << >> <=> n = 1
    BY <2>2, <2>3, EmptySeq
  <2>6. next[head] = IF n = 1 THEN NULL ELSE fifo[2]
    <3>1. 1 \in 1..n
      BY <2>2
    <3>2. next[fifo[1]] = IF 1 = n THEN NULL ELSE fifo[1 + 1]
      BY <2>4, <3>1
    <3> QED
      BY <2>2, <3>2
  <2>7. TypeOK'
    BY <1>3, <2>1, <2>2, <2>3 DEF IInv, TypeOK
  <2>8. ListSpellsFifo'
    <3>1. head' = IF fifo' = << >> THEN NULL ELSE fifo'[1]
      BY <2>1, <2>2, <2>3, <2>5, <2>6
    <3>2. tail' = IF fifo' = << >> THEN NULL ELSE fifo'[Len(fifo')]
      <4>1. CASE n = 1
        BY <4>1, <2>1, <2>5, <2>6
      <4>2. CASE n # 1
        <5>1. n - 1 \in 1..(n - 1) /\ (n - 1) + 1 = n /\ 2 \in 1..n
          BY <2>2, <4>2
        <5>2. fifo'[n - 1] = fifo[n] /\ fifo[2] # NULL
          BY <1>1, <2>3, <5>1, NullAssumption
        <5> QED
          BY <2>1, <2>3, <2>4, <2>5, <2>6, <4>2, <5>2
      <4> QED
        BY <4>1, <4>2
    <3>3. ASSUME NEW j \in 1..(n - 1)
          PROVE  next'[fifo'[j]] = IF j = n - 1 THEN NULL ELSE fifo'[j + 1]
      <4>1. j + 1 \in 1..n /\ 1 \in 1..n /\ j + 1 # 1
        BY <2>2
      <4>2. fifo'[j] = fifo[j + 1] /\ fifo[j + 1] # head /\ fifo[j + 1] \in Events
        BY <1>1, <2>2, <2>3, <2>4, <4>1
      <4>3. next'[fifo'[j]] = IF j + 1 = n THEN NULL ELSE fifo[j + 2]
        BY <2>1, <2>4, <4>1, <4>2 DEF IInv, TypeOK
      <4>4. CASE j = n - 1
        BY <4>3, <4>4, <1>1
      <4>5. CASE j # n - 1
        <5>1. j + 1 \in 1..(n - 1) /\ j + 1 # n
          BY <4>5, <1>1
        <5> QED
          BY <2>3, <4>3, <4>5, <5>1
      <4> QED
        BY <4>4, <4>5
    <3> QED
      BY <2>3, <3>1, <3>2, <3>3 DEF ListSpellsFifo
  <2>9. FifoHasNoRepeats'
    <3> SUFFICES ASSUME NEW j \in 1..(n - 1), NEW k \in 1..(n - 1), fifo'[j] = fifo'[k]
                 PROVE  j = k
      BY <2>3 DEF FifoHasNoRepeats
    <3>1. j + 1 \in 1..n /\ k + 1 \in 1..n
      BY <1>1
    <3> QED
      BY <2>3, <2>4, <3>1
  <2>10. QueuedMarksMembers'
    <3>1. ASSUME NEW j \in 1..(n - 1)
          PROVE  fifo'[j] \in usable /\ queued'[fifo'[j]]
      <4>1. j + 1 \in 1..n /\ 1 \in 1..n /\ j + 1 # 1
        BY <2>2
      <4>2. fifo[j + 1] # head /\ fifo[j + 1] \in usable /\ queued[fifo[j + 1]]
        BY <2>2, <2>4, <4>1 DEF IInv, ListOK, QueuedMarksMembers
      <4> QED
        BY <1>1, <2>1, <2>3, <4>1, <4>2 DEF IInv, TypeOK
    <3>2. ASSUME init_tag, NEW x \in usable, queued'[x]
          PROVE  \E j \in 1..(n - 1) : fifo'[j] = x
      <4>1. x # head /\ queued[x]
        BY <2>1, <2>2, <3>2 DEF IInv, TypeOK
      <4>2. PICK k \in 1..n : fifo[k] = x
        BY <3>2, <4>1 DEF IInv, ListOK, QueuedMarksMembers
      <4>3. k - 1 \in 1..(n - 1) /\ (k - 1) + 1 = k
        BY <2>2, <4>1, <4>2
      <4> QED
        BY <2>3, <4>2, <4>3
    <3> QED
      BY <2>1, <2>3, <3>1, <3>2 DEF QueuedMarksMembers
  <2>11. SleeperReachable' /\ LifeOK'
    BY <2>1, <2>2 DEF IInv, SleeperReachable, LifeOK
  <2> QED
    BY <2>7, <2>8, <2>9, <2>10, <2>11 DEF IInv, ListOK
<1> QED
  BY <1>2, <1>3

\* ble_npl_event_init (npl.rs:113-124) preserves the inductive invariant: an
\* event that is not in use is not linked.
LEMMA EventInitIInv ==
  ASSUME IInv, NEW e \in Events, EventInit(e) \/ EventDeinit(e)
  PROVE  IInv'
<1>1. Len(fifo) \in Nat /\ \A k \in 1..Len(fifo) : fifo[k] \in Events
  BY ElementOfSeq, LenProperties DEF IInv, TypeOK
<1>2. TypeOK'
  BY ZenonT(60) DEF IInv, TypeOK, EventInit, EventDeinit, runVars
<1>3. CASE EventInit(e)
  <2>1. \A k \in 1..Len(fifo) : fifo[k] # e
    BY <1>3 DEF IInv, ListOK, QueuedMarksMembers, EventInit
  <2>2. ListSpellsFifo' /\ FifoHasNoRepeats'
    BY <1>1, <1>3, <2>1 DEF IInv, TypeOK, ListOK, ListSpellsFifo, FifoHasNoRepeats, EventInit
  <2>3. QueuedMarksMembers'
    BY <1>1, <1>3, <2>1 DEF IInv, TypeOK, ListOK, QueuedMarksMembers, EventInit
  <2>4. SleeperReachable' /\ LifeOK'
    BY <1>3 DEF IInv, SleeperReachable, LifeOK, EventInit, runVars
  <2> QED
    BY <1>2, <2>2, <2>3, <2>4 DEF IInv, ListOK
<1>4. CASE EventDeinit(e)
  <2>1. fifo = << >> /\ Len(fifo) = 0 /\ ~init_tag
    BY <1>4, EmptySeq DEF IInv, LifeOK, EventDeinit
  <2>2. ListOK'
    BY <1>4, <2>1 DEF IInv, ListOK, ListSpellsFifo, FifoHasNoRepeats, QueuedMarksMembers, EventDeinit
  <2>3. SleeperReachable' /\ LifeOK'
    BY <1>4 DEF IInv, SleeperReachable, LifeOK, EventDeinit, runVars
  <2> QED
    BY <1>2, <2>2, <2>3 DEF IInv
<1> QED
  BY <1>3, <1>4

\* Initialising or tearing down the queue leaves it empty.
LEMMA QueueLifeIInv ==
  ASSUME IInv, EventqInit \/ EventqDeinit
  PROVE  IInv'
<1>1. fifo' = << >> /\ fifo' \in Seq(Events) /\ Len(fifo') = 0
  BY EmptySeq DEF EventqInit, EventqDeinit, IInv, LifeOK
<1>2. head' = NULL /\ tail' = NULL /\ run' = NULL /\ pollPc' = "await"
  BY DEF EventqInit, EventqDeinit, IInv, LifeOK, TypeOK, runVars
<1>3. TypeOK'
  BY <1>1 DEF EventqInit, EventqDeinit, IInv, TypeOK, runVars
<1>4. ListOK'
  BY <1>1, <1>2 DEF EventqInit, EventqDeinit, ListOK, ListSpellsFifo, FifoHasNoRepeats, QueuedMarksMembers
<1> QED
  BY <1>1, <1>2, <1>3, <1>4 DEF IInv, SleeperReachable, LifeOK

\* The steps that touch neither the list nor its history.
LEMMA RunIInv ==
  ASSUME IInv,
         \/ \E r \in RunTasks : StartRun(r)
         \/ DropRun \/ SpuriousWake \/ BeginPoll \/ EventqPeek \/ EventRunDone
         \/ \E c \in Callers : Wake(c)
         \/ UNCHANGED vars
  PROVE  IInv'
<1> USE DEF StartRun, DropRun, SpuriousWake, BeginPoll, EventqPeek, EventRunDone,
            Wake, vars, queueVars, runVars
<1>1. UNCHANGED <<head, tail, next, queued, usable, fifo, init_tag>>
  OBVIOUS
<1>2. ListOK'
  BY <1>1, ListUntouched DEF IInv
<1>3. TypeOK'
  BY <1>1 DEF IInv, TypeOK
<1>4. LifeOK'
  BY <1>1 DEF IInv, LifeOK, TypeOK
<1>5. SleeperReachable'
  <2>1. CASE EventqPeek
    BY <2>1 DEF IInv, SleeperReachable, ListOK, ListSpellsFifo, LifeOK, TypeOK
  <2>2. CASE \E c \in Callers : Wake(c)
    BY <2>2 DEF IInv, SleeperReachable, TypeOK
  <2>3. CASE ~EventqPeek /\ ~(\E c \in Callers : Wake(c))
    BY <2>3 DEF IInv, SleeperReachable, TypeOK
  <2> QED
    BY <2>1, <2>2, <2>3
<1> QED
  BY <1>2, <1>3, <1>4, <1>5 DEF IInv

\* Every step preserves the inductive invariant.
LEMMA NextIInv == IInv /\ [Next]_vars => IInv'
<1> SUFFICES ASSUME IInv, [Next]_vars PROVE IInv'
  OBVIOUS
<1>1. CASE EventqInit \/ EventqDeinit
  BY <1>1, QueueLifeIInv
<1>2. CASE \E e \in Events : EventInit(e) \/ EventDeinit(e)
  BY <1>2, EventInitIInv
<1>3. CASE \E c \in Callers, e \in Events : EventqPut(c, e)
  BY <1>3, PutIInv
<1>4. CASE \E c \in Callers, e \in Events : EventqRemove(c, e)
  BY <1>4, RemoveIInv
<1>5. CASE EventqTryPop
  BY <1>5, TryPopIInv
<1>6. CASE \/ \E r \in RunTasks : StartRun(r)
           \/ DropRun \/ SpuriousWake \/ BeginPoll \/ EventqPeek \/ EventRunDone
           \/ \E c \in Callers : Wake(c)
           \/ UNCHANGED vars
  BY <1>6, RunIInv
<1> QED
  BY <1>1, <1>2, <1>3, <1>4, <1>5, <1>6 DEF Next

-----------------------------------------------------------------------------
(* The theorems.                                                           *)

\* The inductive invariant holds in every reachable state.
LEMMA Invariance == Spec => []IInv
BY InitIInv, NextIInv, PTL DEF Spec

\* Every variable keeps its type, and run_events never runs a null event
\* (port.rs:94), whatever the threads do between its two critical sections.
THEOREM TypeCorrect == Spec => []TypeOK
<1>1. IInv => TypeOK
  BY DEF IInv
<1> QED
  BY <1>1, Invariance, PTL

\* The intrusive list of npl.rs spells the queue of waiting events, for any
\* number of events, threads and driver restarts.
THEOREM ListCorrect == Spec => []ListOK
<1>1. IInv => ListOK
  BY DEF IInv
<1> QED
  BY <1>1, Invariance, PTL

\* A waiting event never meets a sleeping run task that nobody will wake.
THEOREM WakeupCorrect == Spec => []NoLostWakeup
<1>1. IInv => NoLostWakeup
  BY DEF IInv, SleeperReachable, NoLostWakeup
<1> QED
  BY <1>1, Invariance, PTL

\* Every step of the list is a step of the FIFO or leaves it alone: the
\* event popped is the oldest one, and a removed event leaves the queue.
LEMMA StepRefines == IInv /\ [Next]_vars => [Fifo!FifoNext]_(Fifo!fifoVars)
<1> SUFFICES ASSUME IInv, [Next]_vars
             PROVE  Fifo!FifoNext \/ UNCHANGED <<init_tag, fifo, current>>
  BY DEF Fifo!fifoVars
<1> USE DEF Fifo!FifoNext
<1>1. CASE EventqInit
  BY <1>1 DEF EventqInit, Fifo!Open, runVars
<1>2. CASE EventqDeinit
  BY <1>2 DEF EventqDeinit, Fifo!Close, IInv, TypeOK, LifeOK, runVars
<1>3. ASSUME NEW c \in Callers, NEW e \in Events, EventqPut(c, e)
      PROVE  Fifo!FifoNext \/ UNCHANGED <<init_tag, fifo, current>>
  <2>1. DOMAIN fifo = 1..Len(fifo)
    BY LenProperties DEF IInv, TypeOK
  <2>2. CASE queued[e] \/ ~init_tag
    BY <1>3, <2>2 DEF EventqPut, runVars
  <2>3. CASE ~queued[e] /\ init_tag
    <3>1. \A i \in DOMAIN fifo : fifo[i] # e
      BY <2>1, <2>3 DEF IInv, ListOK, QueuedMarksMembers
    <3>2. Fifo!Post(e)
      BY <1>3, <2>3, <3>1 DEF EventqPut, Fifo!Post, runVars
    <3> QED
      BY <3>2
  <2> QED
    BY <2>2, <2>3 DEF IInv, TypeOK
<1>4. ASSUME NEW c \in Callers, NEW e \in Events, EventqRemove(c, e)
      PROVE  Fifo!FifoNext
  BY <1>4 DEF EventqRemove, Fifo!Cancel, Fifo!RemoveAt, RemoveAt, runVars
<1>5. CASE EventqTryPop
  <2>1. CASE head = NULL
    BY <1>5, <2>1 DEF EventqTryPop
  <2>2. CASE head # NULL
    <3>1. fifo # << >> /\ Head(fifo) = head
      BY <2>2 DEF IInv, TypeOK, ListOK, ListSpellsFifo
    <3>2. init_tag /\ current = NULL
      BY <1>5 DEF EventqTryPop, IInv, TypeOK, LifeOK
    <3>3. Fifo!Take
      BY <1>5, <2>2, <3>1, <3>2 DEF EventqTryPop, Fifo!Take
    <3> QED
      BY <3>3
  <2> QED
    BY <2>1, <2>2
<1>6. CASE EventRunDone
  BY <1>6 DEF EventRunDone, Fifo!Finish, IInv, TypeOK, queueVars
<1>7. CASE \/ \E r \in RunTasks : StartRun(r)
           \/ \E e \in Events : EventInit(e) \/ EventDeinit(e)
           \/ \E c \in Callers : Wake(c)
           \/ DropRun \/ SpuriousWake \/ BeginPoll \/ EventqPeek \/ UNCHANGED vars
  BY <1>7 DEF StartRun, EventInit, EventDeinit, Wake, DropRun, SpuriousWake, BeginPoll,
              EventqPeek, vars, queueVars, runVars
<1> QED
  BY <1>1, <1>2, <1>3, <1>4, <1>5, <1>6, <1>7 DEF Next

\* The event queue of npl.rs, with its waker and its two-step poll,
\* implements the FIFO of EventFifo.
THEOREM RefinesFifo == Spec => ImplementsFifo
<1>1. Init => Fifo!FifoInit
  BY DEF Init, Fifo!FifoInit
<1> QED
  BY <1>1, Invariance, StepRefines, PTL DEF Spec, ImplementsFifo, Fifo!FifoSpec

==============================================================================
