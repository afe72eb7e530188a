--------------------------- MODULE NplCalloutProofs ---------------------------
(***************************************************************************)
(* The timer list stays sorted and holds exactly the active callouts, and  *)
(* the run task never sleeps past a deadline, for any callouts, contexts,  *)
(* delays and bounds.                                                      *)
(***************************************************************************)
EXTENDS NplCallout, StructureProofs

\* A call in progress has a callout, and only a callout with a queue is put.
ArgsOK ==
  /\ \A c \in Ctxs : pc[c] # "idle" => arg[c] \in Callouts
  /\ runPc = "put" => running \in Callouts \ Inline

Waking == \E c \in Ctxs : pc[c] = "wake"

\* Between reading the first deadline and the next poll, the run task has
\* the waker in TIMERS, or has been or is being woken; while it arms its
\* timer, the deadline it has read is not too late, or it is being woken.
WakeOK ==
  /\ now < alarm
  /\ runPc \in {"await", "arm"} /\ ~woken => timersWaker \/ Waking
  /\ runPc = "arm" /\ ~woken /\ list # << >> => seen <= deadline[list[1]] \/ Waking
  /\ runPc = "await" /\ ~woken /\ list # << >> => alarm <= deadline[list[1]] \/ Waking

\* The flags of TypeOK, the sequences, and the rest of it.
FlagsOK ==
  /\ active \in [Callouts -> BOOLEAN] /\ stopped \in [Callouts -> BOOLEAN]
  /\ timersWaker \in BOOLEAN /\ woken \in BOOLEAN

SeqsOK == list \in Seq(Callouts) /\ evq \in Seq(Callouts \ Inline)

DataOK ==
  /\ now \in 0..MaxTime /\ alarm \in 0..NoAlarm
  /\ deadline \in [Callouts -> 0..MaxTime]
  /\ linked \in [Callouts -> Nat] /\ links \in Nat
  /\ runPc \in {"await", "events", "handle", "inline", "timers", "arm", "fire", "put"}
  /\ running \in Callouts \cup {NULL}
  /\ seen \in 0..MaxTime
  /\ pc \in [Ctxs -> {"idle", "link", "wake", "unqueue"}]
  /\ arg \in [Ctxs -> Callouts \cup {NULL}]
  /\ due \in [Ctxs -> 0..MaxTime]
  /\ resets \in 0..MaxResets

IInv == TypeOK /\ ArgsOK /\ ListOK /\ WakeOK

-----------------------------------------------------------------------------
(* The list operators.                                                     *)

\* Min is the least element.
LEMMA MinProperties ==
  ASSUME NEW T \in SUBSET Nat, T # {}
  PROVE  Min(T) \in T /\ \A k \in T : Min(T) <= k
<1>1. \E m \in T : \A k \in T : m <= k
  BY LeastNumber
<1> QED
  BY <1>1 DEF Min

\* r is s with x at position p.
Inserted(r, s, p, x) ==
  /\ Len(r) = Len(s) + 1
  /\ \A j \in 1..(Len(s) + 1) : r[j] = IF j < p THEN s[j] ELSE IF j = p THEN x ELSE s[j - 1]

\* What inserting at one position makes of a sequence.
LEMMA InsertAtProperties ==
  ASSUME NEW S, NEW s \in Seq(S), NEW x \in S, NEW p \in 1..(Len(s) + 1)
  PROVE  InsertAt(s, p, x) \in Seq(S) /\ Inserted(InsertAt(s, p, x), s, p, x)
<1> DEFINE a == SubSeq(s, 1, p - 1)
           b == SubSeq(s, p, Len(s))
           ax == a \o <<x>>
<1>1. Len(s) \in Nat /\ \A j \in 1..Len(s) : s[j] \in S
  BY ElementOfSeq, LenProperties
<1>2. a \in Seq(S) /\ Len(a) = p - 1 /\ \A j \in 1..(p - 1) : a[j] = s[j]
  BY <1>1
<1>3. /\ b \in Seq(S) /\ Len(b) = Len(s) - p + 1
      /\ \A j \in 1..(Len(s) - p + 1) : b[j] = s[j + p - 1]
  BY <1>1
<1>4. <<x>> \in Seq(S) /\ Len(<<x>>) = 1 /\ <<x>>[1] = x
  OBVIOUS
<1>5. InsertAt(s, p, x) = ax \o b
  BY DEF InsertAt
<1> HIDE DEF a, b
<1>6. ax \in Seq(S) /\ Len(ax) = p /\ \A j \in 1..p : ax[j] = IF j < p THEN s[j] ELSE x
  <2>1. /\ ax \in Seq(S)
        /\ Len(ax) = Len(a) + 1
        /\ \A j \in 1..(Len(a) + 1) : ax[j] = IF j <= Len(a) THEN a[j] ELSE <<x>>[j - Len(a)]
    BY <1>2, <1>4, ConcatProperties
  <2> HIDE DEF ax
  <2>2. ASSUME NEW j \in 1..p PROVE ax[j] = IF j < p THEN s[j] ELSE x
    <3>1. CASE j < p
      BY <1>1, <1>2, <2>1, <3>1
    <3>2. CASE j = p
      BY <1>1, <1>2, <1>4, <2>1, <3>2
    <3> QED
      BY <1>1, <3>1, <3>2
  <2> QED
    BY <1>1, <1>2, <2>1, <2>2
<1> HIDE DEF ax
<1>7. /\ ax \o b \in Seq(S)
      /\ Len(ax \o b) = Len(ax) + Len(b)
      /\ \A j \in 1..(Len(ax) + Len(b)) :
           (ax \o b)[j] = IF j <= Len(ax) THEN ax[j] ELSE b[j - Len(ax)]
  BY <1>3, <1>6, ConcatProperties
<1>8. ASSUME NEW j \in 1..(Len(s) + 1)
      PROVE  (ax \o b)[j] = IF j < p THEN s[j] ELSE IF j = p THEN x ELSE s[j - 1]
  <2>1. CASE j <= p
    BY <1>1, <1>3, <1>6, <1>7, <2>1
  <2>2. CASE j > p
    <3>1. (ax \o b)[j] = b[j - p]
      BY <1>1, <1>3, <1>6, <1>7, <2>2
    <3>2. j - p \in 1..(Len(s) - p + 1) /\ (j - p) + p - 1 = j - 1
      BY <1>1, <2>2
    <3> QED
      BY <1>1, <1>3, <2>2, <3>1, <3>2
  <2>3. j <= p \/ j > p
    BY <1>1
  <2> QED
    BY <2>1, <2>2, <2>3
<1> QED
  BY <1>1, <1>3, <1>5, <1>6, <1>7, <1>8 DEF Inserted

\* Every deadline before the place is at most d, the one at the place later.
LEMMA PlaceProperties ==
  ASSUME deadline \in [Callouts -> Nat], NEW s \in Seq(Callouts), NEW d \in Nat
  PROVE  /\ Place(s, d) \in 1..(Len(s) + 1)
         /\ \A i \in 1..Len(s) : i < Place(s, d) => deadline[s[i]] <= d
         /\ Place(s, d) <= Len(s) => deadline[s[Place(s, d)]] > d
<1> DEFINE T == {i \in 1..Len(s) : deadline[s[i]] > d} \cup {Len(s) + 1}
<1>1. Len(s) \in Nat /\ \A j \in 1..Len(s) : s[j] \in Callouts /\ deadline[s[j]] \in Nat
  BY ElementOfSeq, LenProperties
<1>2. T \in SUBSET Nat /\ T # {}
  BY <1>1
<1>3. Min(T) \in T /\ \A k \in T : Min(T) <= k
  BY <1>2, MinProperties
<1>4. Place(s, d) = Min(T)
  BY DEF Place
<1> DEFINE p == Min(T)
<1> HIDE DEF p
<1>5. p \in T /\ \A k \in T : p <= k
  BY <1>3 DEF p
<1>6. ASSUME NEW i \in 1..Len(s), i < p PROVE deadline[s[i]] <= d
  BY <1>1, <1>2, <1>5, <1>6
<1> QED
  BY <1>1, <1>4, <1>5, <1>6 DEF p

\* No member occurs twice.
Once(s) == \A i, j \in 1..Len(s) : i < j => s[i] # s[j]

\* w is s with some members left out.
Embeds(w, s) ==
  \A i, j \in 1..Len(w) : i < j => \E k, l \in 1..Len(s) : k < l /\ w[i] = s[k] /\ w[j] = s[l]

\* Without drops x and nothing else, and keeps the order.
LEMMA WithoutProperties ==
  ASSUME NEW S, NEW s \in Seq(S), NEW x, Once(s)
  PROVE  /\ Without(s, x) \in Seq(S)
         /\ Range(Without(s, x)) = Range(s) \ {x}
         /\ Embeds(Without(s, x), s)
<1> DEFINE T == {i \in 1..Len(s) : s[i] = x}
           w == Without(s, x)
<1>1. Len(s) \in Nat /\ DOMAIN s = 1..Len(s)
  BY LenProperties
<1>2. CASE T = {}
  <2>1. w = s
    BY <1>2 DEF Without
  <2> HIDE DEF w
  <2>2. Range(s) = Range(s) \ {x}
    BY <1>1, <1>2 DEF Range
  <2>3. Embeds(s, s)
    BY <1>1 DEF Embeds
  <2> QED
    BY <2>1, <2>2, <2>3 DEF w
<1>3. CASE T # {}
  <2>1. PICK m \in 1..Len(s) : m = Min(T) /\ s[m] = x
    <3>1. T \in SUBSET Nat
      BY <1>1
    <3> QED
      BY <1>3, <3>1, MinProperties
  <2>2. w = RemoveAt(s, m)
    BY <1>3, <2>1 DEF Without
  <2>3. /\ w \in Seq(S) /\ Len(w) = Len(s) - 1
        /\ \A j \in 1..(Len(s) - 1) : w[j] = IF j < m THEN s[j] ELSE s[j + 1]
    BY <2>2, RemoveAtProperties
  <2> HIDE DEF w
  <2>4. ASSUME NEW y, NEW i \in 1..Len(w), w[i] = y
        PROVE  y # x /\ \E k \in 1..Len(s) : s[k] = y
    <3>1. CASE i < m
      BY <1>1, <2>1, <2>3, <2>4, <3>1 DEF Once
    <3>2. CASE ~(i < m)
      <4>1. w[i] = s[i + 1] /\ i + 1 \in 1..Len(s) /\ m < i + 1
        BY <1>1, <2>3, <3>2
      <4> QED
        BY <2>1, <2>4, <4>1 DEF Once
    <3> QED
      BY <3>1, <3>2
  <2>5. ASSUME NEW y, y # x, NEW k \in 1..Len(s), s[k] = y
        PROVE  \E i \in 1..Len(w) : w[i] = y
    <3>1. CASE k < m
      <4>1. k \in 1..Len(w) /\ w[k] = s[k]
        BY <1>1, <2>3, <3>1
      <4> QED
        BY <2>5, <4>1
    <3>2. CASE ~(k < m)
      <4>1. k # m
        BY <2>1, <2>5
      <4>2. k - 1 \in 1..Len(w) /\ ~(k - 1 < m) /\ (k - 1) + 1 = k
        BY <1>1, <2>3, <3>2, <4>1
      <4>3. w[k - 1] = s[k]
        BY <1>1, <2>3, <4>2
      <4> QED
        BY <2>5, <4>2, <4>3
    <3> QED
      BY <3>1, <3>2
  <2>6. ASSUME NEW i \in 1..Len(w), NEW j \in 1..Len(w), i < j
        PROVE  \E k, l \in 1..Len(s) : k < l /\ w[i] = s[k] /\ w[j] = s[l]
    <3> DEFINE k == IF i < m THEN i ELSE i + 1
               l == IF j < m THEN j ELSE j + 1
    <3>1. k \in 1..Len(s) /\ l \in 1..Len(s) /\ k < l
      BY <1>1, <2>3, <2>6
    <3>2. w[i] = s[k] /\ w[j] = s[l]
      BY <1>1, <2>3
    <3> QED
      BY <3>1, <3>2
  <2>7. Range(w) = Range(s) \ {x}
    <3>1. DOMAIN w = 1..Len(w)
      BY <2>3, LenProperties
    <3> QED
      BY <1>1, <2>4, <2>5, <3>1 DEF Range
  <2>8. Embeds(w, s)
    BY <2>6 DEF Embeds
  <2> QED
    BY <2>3, <2>7, <2>8 DEF w
<1> QED
  BY <1>2, <1>3

\* f does not decrease along s, which has no member twice.
Sorted(s, f) == \A i, j \in 1..Len(s) : i < j => s[i] # s[j] /\ f[s[i]] <= f[s[j]]

\* In order of f, x belongs at position p of s.
Fits(s, p, x, f) ==
  /\ \A i \in 1..Len(s) : i < p => f[s[i]] <= f[x]
  /\ p <= Len(s) => f[x] <= f[s[p]]

\* Inserting a new member between the ones that are at most as late and the
\* ones that are later keeps a sequence sorted.
LEMMA InsertSorted ==
  ASSUME NEW S, NEW f \in [S -> Nat], NEW s \in Seq(S),
         NEW x \in S, NEW p \in 1..(Len(s) + 1), Sorted(s, f),
         x \notin Range(s), Fits(s, p, x, f)
  PROVE  /\ InsertAt(s, p, x) \in Seq(S)
         /\ Sorted(InsertAt(s, p, x), f)
         /\ Range(InsertAt(s, p, x)) = Range(s) \cup {x}
<1> DEFINE r == InsertAt(s, p, x)
           n == Len(s)
<1>1. /\ r \in Seq(S) /\ Len(r) = n + 1
      /\ \A j \in 1..(n + 1) : r[j] = IF j < p THEN s[j] ELSE IF j = p THEN x ELSE s[j - 1]
  <2>1. r \in Seq(S) /\ Inserted(r, s, p, x)
    BY InsertAtProperties
  <2> QED
    BY <2>1 DEF Inserted
<1>0. /\ n \in Nat /\ DOMAIN s = 1..n /\ p \in 1..(n + 1)
      /\ \A i \in 1..n : s[i] # x
      /\ \A i \in 1..n : i < p => f[s[i]] <= f[x]
      /\ p <= n => f[x] <= f[s[p]]
  BY LenProperties DEF Range, Fits
<1>4. \A i, j \in 1..n : i < j => s[i] # s[j] /\ f[s[i]] <= f[s[j]]
  BY DEF Sorted
<1>3. \A i \in 1..n : s[i] \in S /\ f[s[i]] \in Nat
  BY ElementOfSeq
<1> HIDE DEF r, n
<1>2. /\ \A j \in 1..(n + 1) : j < p => j \in 1..n /\ r[j] = s[j]
      /\ r[p] = x
      /\ \A j \in 1..(n + 1) : p < j => j - 1 \in 1..n /\ r[j] = s[j - 1]
  BY <1>0, <1>1
<1>5. \A i \in 1..n : ~(i < p) => f[x] <= f[s[i]]
  <2> SUFFICES ASSUME NEW i \in 1..n, ~(i < p) PROVE f[x] <= f[s[i]]
    OBVIOUS
  <2>1. p \in 1..n /\ (p = i \/ p < i)
    BY <1>0
  <2>2. f[s[p]] <= f[s[i]]
    BY <1>3, <1>4, <2>1
  <2>3. f[x] <= f[s[p]]
    BY <1>0, <2>1
  <2> QED
    BY <1>3, <2>1, <2>2, <2>3
<1>6. ASSUME NEW i \in 1..(n + 1), NEW j \in 1..(n + 1), i < j
      PROVE  r[i] # r[j] /\ f[r[i]] <= f[r[j]]
  <2>1. CASE j < p
    <3>1. i \in 1..n /\ j \in 1..n /\ r[i] = s[i] /\ r[j] = s[j]
      BY <1>2, <1>6, <2>1
    <3> QED
      BY <1>4, <1>6, <3>1
  <2>2. CASE j = p
    <3>1. i \in 1..n /\ i < p /\ r[i] = s[i] /\ r[j] = x
      BY <1>2, <1>6, <2>2
    <3> QED
      BY <1>0, <3>1
  <2>3. CASE i = p
    <3>1. j - 1 \in 1..n /\ ~(j - 1 < p) /\ r[i] = x /\ r[j] = s[j - 1]
      BY <1>2, <1>6, <2>3
    <3> QED
      BY <1>0, <1>5, <3>1
  <2>4. CASE i < p /\ p < j
    <3>1. i \in 1..n /\ j - 1 \in 1..n /\ i < j - 1 /\ r[i] = s[i] /\ r[j] = s[j - 1]
      BY <1>2, <2>4
    <3> QED
      BY <1>4, <3>1
  <2>5. CASE p < i
    <3>1. p < j
      BY <1>6, <2>5
    <3>2. i - 1 \in 1..n /\ j - 1 \in 1..n /\ r[i] = s[i - 1] /\ r[j] = s[j - 1]
      BY <1>2, <2>5, <3>1
    <3>3. i - 1 < j - 1
      BY <1>6
    <3> QED
      BY <1>4, <3>2, <3>3
  <2>6. j < p \/ j = p \/ i = p \/ (i < p /\ p < j) \/ p < i
    OBVIOUS
  <2> QED
    BY <2>1, <2>2, <2>3, <2>4, <2>5, <2>6
<1>7. ASSUME NEW k \in 1..n PROVE \E i \in 1..(n + 1) : r[i] = s[k]
  <2>1. CASE k < p
    BY <1>0, <1>2, <2>1
  <2>2. CASE ~(k < p)
    <3>1. k + 1 \in 1..(n + 1) /\ p < k + 1 /\ (k + 1) - 1 = k
      BY <1>0, <2>2
    <3> QED
      BY <1>2, <3>1
  <2> QED
    BY <2>1, <2>2
<1>8. ASSUME NEW i \in 1..(n + 1) PROVE r[i] = x \/ \E k \in 1..n : s[k] = r[i]
  <2>1. i < p \/ i = p \/ p < i
    OBVIOUS
  <2> QED
    BY <1>2, <2>1
<1>9. Range(r) = Range(s) \cup {x}
  <2>1. DOMAIN r = 1..(n + 1)
    BY <1>1, LenProperties
  <2>2. ASSUME NEW y \in Range(r) PROVE y \in Range(s) \cup {x}
    BY <1>0, <1>8, <2>1 DEF Range
  <2>3. ASSUME NEW y \in Range(s) PROVE y \in Range(r)
    <3>1. PICK k \in 1..n : y = s[k]
      BY <1>0 DEF Range
    <3>2. PICK i \in 1..(n + 1) : r[i] = s[k]
      BY <1>7
    <3> QED
      BY <2>1, <3>1, <3>2 DEF Range
  <2>4. x \in Range(r)
    BY <1>0, <1>2, <2>1 DEF Range
  <2>5. Range(r) \subseteq Range(s) \cup {x}
    BY <2>2
  <2> QED
    BY <2>2, <2>3, <2>4, <2>5
<1>10. Sorted(r, f)
  BY <1>1, <1>6 DEF Sorted
<1> QED
  BY <1>1, <1>9, <1>10 DEF r

-----------------------------------------------------------------------------
(* The timer list.                                                         *)

\* The timer list holds the active callouts, each once, in deadline order.
LEMMA ListOf ==
  ASSUME TypeOK, ListOK
  PROVE  /\ list \in Seq(Callouts) /\ Len(list) \in Nat /\ DOMAIN list = 1..Len(list)
         /\ \A i \in 1..Len(list) : list[i] \in Callouts /\ deadline[list[i]] \in Nat
         /\ deadline \in [Callouts -> Nat]
         /\ \A y \in Callouts : active[y] <=> y \in Range(list)
         /\ Sorted(list, deadline)
<1>1. /\ list \in Seq(Callouts) /\ Len(list) \in Nat /\ DOMAIN list = 1..Len(list)
      /\ \A i \in 1..Len(list) : list[i] \in Callouts /\ deadline[list[i]] \in Nat
      /\ deadline \in [Callouts -> Nat]
  BY CalloutAssumption, ElementOfSeq, LenProperties DEF TypeOK
<1> QED
  BY <1>1 DEF ListOK, Sorted, Range

\* What unlinking leaves: every other active callout, in order, none earlier
\* than the first one was.
LEMMA Unlinked ==
  ASSUME TypeOK, ListOK, NEW co \in Callouts,
         NEW w, w = IF active[co] THEN Without(list, co) ELSE list
  PROVE  /\ w \in Seq(Callouts)
         /\ Range(w) = {y \in Callouts : active[y]} \ {co}
         /\ Sorted(w, deadline)
         /\ w # << >> => list # << >> /\ deadline[list[1]] <= deadline[w[1]]
<1>1. /\ list \in Seq(Callouts) /\ Len(list) \in Nat /\ DOMAIN list = 1..Len(list)
      /\ \A i \in 1..Len(list) : list[i] \in Callouts /\ deadline[list[i]] \in Nat
      /\ Sorted(list, deadline)
  BY ListOf
<1>2. Range(list) = {y \in Callouts : active[y]}
  <2>1. \A y \in Callouts : active[y] <=> y \in Range(list)
    BY ListOf
  <2>2. Range(list) \subseteq Callouts
    BY <1>1 DEF Range
  <2> QED
    BY <2>1, <2>2
<1>3. \A i, j \in 1..Len(list) : i < j =>
        list[i] # list[j] /\ deadline[list[i]] <= deadline[list[j]]
  BY <1>1 DEF Sorted
<1>4. CASE active[co]
  <2>1. Once(list) /\ w = Without(list, co)
    BY <1>3, <1>4 DEF Once
  <2>2. w \in Seq(Callouts) /\ Range(w) = Range(list) \ {co} /\ Embeds(w, list)
    BY <1>1, <2>1, WithoutProperties
  <2>3. ASSUME NEW i \in 1..Len(w), NEW j \in 1..Len(w), i < j
        PROVE  w[i] # w[j] /\ deadline[w[i]] <= deadline[w[j]]
    <3>1. PICK k \in 1..Len(list), l \in 1..Len(list) : k < l /\ w[i] = list[k] /\ w[j] = list[l]
      BY <2>2, <2>3 DEF Embeds
    <3> QED
      BY <1>3, <3>1
  <2>4. ASSUME w # << >> PROVE list # << >> /\ deadline[list[1]] <= deadline[w[1]]
    <3>1. w[1] \in Range(w)
      BY <2>2, <2>4 DEF Range
    <3>2. PICK k \in 1..Len(list) : list[k] = w[1]
      BY <1>1, <2>2, <3>1 DEF Range
    <3>3. 1 \in 1..Len(list) /\ (k = 1 \/ 1 < k)
      BY <1>1
    <3> QED
      BY <1>1, <1>3, <3>2, <3>3
  <2> QED
    BY <1>2, <2>2, <2>3, <2>4 DEF Sorted
<1>5. CASE ~active[co]
  <2>1. w = list
    BY <1>5
  <2>2. list # << >> => deadline[list[1]] <= deadline[list[1]]
    BY <1>1
  <2> QED
    BY <1>1, <1>2, <1>5, <2>1, <2>2
<1> QED
  BY <1>4, <1>5

\* What ble_npl_callout_reset's critical section makes of the list.
LEMMA Linked ==
  ASSUME TypeOK, ListOK, NEW co \in Callouts, NEW d \in 0..MaxTime,
         NEW rest, rest = IF active[co] THEN Without(list, co) ELSE list,
         NEW new, new = InsertAt(rest, Place(rest, d), co)
  PROVE  /\ new \in Seq(Callouts)
         /\ Range(new) = {y \in Callouts : active[y]} \cup {co}
         /\ Sorted(new, [deadline EXCEPT ![co] = d])
<1> DEFINE f == [deadline EXCEPT ![co] = d]
           p == Place(rest, d)
           n == Len(rest)
<1>1. /\ rest \in Seq(Callouts)
      /\ Range(rest) = {y \in Callouts : active[y]} \ {co}
      /\ Sorted(rest, deadline)
  BY Unlinked
<1>2. deadline \in [Callouts -> Nat] /\ f \in [Callouts -> Nat] /\ d \in Nat
  BY CalloutAssumption DEF TypeOK
<1>3. /\ n \in Nat /\ DOMAIN rest = 1..n
      /\ \A i \in 1..n : rest[i] \in Callouts /\ rest[i] # co
  BY <1>1, ElementOfSeq, LenProperties DEF Range
<1>4. /\ p \in 1..(n + 1)
      /\ \A i \in 1..n : i < p => deadline[rest[i]] <= d
      /\ p <= n => deadline[rest[p]] > d
  BY <1>1, <1>2, PlaceProperties
<1>5. f[co] = d /\ \A i \in 1..n : f[rest[i]] = deadline[rest[i]]
  BY <1>2, <1>3
<1> HIDE DEF f, p, n
<1>6. Sorted(rest, f)
  BY <1>1, <1>5 DEF Sorted, n
<1>7. \A i \in 1..n : i < p => f[rest[i]] <= f[co]
  BY <1>4, <1>5
<1>8. p <= n => f[co] <= f[rest[p]]
  <2> SUFFICES ASSUME p <= n PROVE f[co] <= f[rest[p]]
    OBVIOUS
  <2>1. p \in 1..n
    BY <1>3, <1>4
  <2>2. f[rest[p]] = deadline[rest[p]] /\ deadline[rest[p]] \in Nat
    BY <1>2, <1>3, <1>5, <2>1
  <2> QED
    BY <1>2, <1>4, <1>5, <2>2
<1>9. new \in Seq(Callouts) /\ Sorted(new, f) /\ Range(new) = Range(rest) \cup {co}
  <2>1. co \notin Range(rest)
    BY <1>1
  <2>2. new = InsertAt(rest, p, co)
    BY DEF p
  <2>3. Fits(rest, p, co, f)
    BY <1>7, <1>8 DEF Fits, n
  <2> QED
    BY <1>1, <1>2, <1>4, <1>6, <2>1, <2>2, <2>3, InsertSorted, SMTT(30) DEF n
<1> QED
  BY <1>1, <1>9 DEF f

-----------------------------------------------------------------------------
(* The steps.                                                              *)

\* The initial state satisfies the invariant.
LEMMA InitOK == Init => IInv
<1> SUFFICES ASSUME Init PROVE IInv
  OBVIOUS
<1>1. FlagsOK
  BY DEF Init, FlagsOK
<1>2. DataOK /\ SeqsOK
  BY CalloutAssumption DEF Init, DataOK, SeqsOK, NoAlarm
<1>3. TypeOK
  BY <1>1, <1>2 DEF TypeOK, FlagsOK, DataOK, SeqsOK
<1>4. ArgsOK /\ WakeOK
  BY CalloutAssumption DEF Init, ArgsOK, WakeOK, NoAlarm
<1>5. ListOK
  BY DEF Init, ListOK
<1> QED
  BY <1>3, <1>4, <1>5 DEF IInv

\* The parts of the type invariant.
LEMMA TypeParts == TypeOK <=> FlagsOK /\ SeqsOK /\ DataOK
  BY DEF TypeOK, FlagsOK, SeqsOK, DataOK

\* ble_npl_callout_reset's critical section.
LEMMA ResetLinkOK ==
  ASSUME IInv, NEW c \in Ctxs, ResetLink(c)
  PROVE  IInv'
<1> DEFINE co == arg[c]
           rest == IF active[co] THEN Without(list, co) ELSE list
<1>1. co \in Callouts /\ due[c] \in 0..MaxTime
  BY DEF IInv, TypeOK, ArgsOK, ResetLink
<1>2. FlagsOK /\ SeqsOK /\ DataOK
  BY TypeParts DEF IInv
<1>3. /\ list' \in Seq(Callouts)
      /\ Range(list') = {y \in Callouts : active[y]} \cup {co}
      /\ Sorted(list', [deadline EXCEPT ![co] = due[c]])
  <2>1. list' = InsertAt(rest, Place(rest, due[c]), co)
    BY DEF ResetLink
  <2> HIDE DEF co, rest
  <2>2. TypeOK /\ ListOK /\ rest = IF active[co] THEN Without(list, co) ELSE list
    BY DEF IInv, rest
  <2> QED
    BY <1>1, <2>1, <2>2, Linked
<1>4. TypeOK'
  <2>1. FlagsOK'
    BY <1>1, <1>2 DEF ResetLink, FlagsOK
  <2>2. DataOK'
    BY <1>1, <1>2 DEF ResetLink, DataOK, Goto, clockVars, runVars
  <2>3. SeqsOK'
    BY <1>2, <1>3 DEF ResetLink, SeqsOK
  <2> QED
    BY <2>1, <2>2, <2>3 DEF TypeOK, FlagsOK, SeqsOK, DataOK
<1>5. ArgsOK'
  BY DEF IInv, ArgsOK, TypeOK, ResetLink, Goto, runVars
<1>6. ListOK'
  <2>1. DOMAIN list' = 1..Len(list')
    BY <1>3, LenProperties
  <2>2. \A y \in Callouts : active'[y] <=> y \in Range(list')
    BY <1>1, <1>2, <1>3 DEF ResetLink, FlagsOK
  <2>3. \A y \in Callouts : active'[y] <=> \E i \in DOMAIN list' : list'[i] = y
    BY <2>2 DEF Range
  <2>4. deadline' = [deadline EXCEPT ![co] = due[c]] /\ evq' = evq
    BY DEF ResetLink
  <2>5. \A i, j \in DOMAIN list' : i < j =>
          list'[i] # list'[j] /\ deadline'[list'[i]] <= deadline'[list'[j]]
    BY <1>3, <2>1, <2>4 DEF Sorted
  <2> QED
    BY <2>3, <2>4, <2>5 DEF IInv, ListOK
<1>7. WakeOK'
  <2>1. runPc' = runPc /\ woken' = woken /\ now' = now /\ alarm' = alarm /\ seen' = seen
    BY DEF ResetLink, clockVars, runVars
  <2>2. timersWaker => Waking'
    BY DEF ResetLink, Goto, Waking, IInv, TypeOK
  <2>3. Waking => Waking'
    BY DEF ResetLink, Goto, Waking, IInv, TypeOK
  <2>4. runPc \in {"await", "arm"} /\ ~woken => Waking'
    BY <2>2, <2>3 DEF IInv, WakeOK
  <2> QED
    BY <2>1, <2>4 DEF IInv, WakeOK
<1> QED
  BY <1>4, <1>5, <1>6, <1>7 DEF IInv

\* ble_npl_callout_stop's critical section.
LEMMA StopUnlinkOK ==
  ASSUME IInv, NEW c \in Ctxs, NEW co \in Callouts, StopUnlink(c, co)
  PROVE  IInv'
<1>1. FlagsOK /\ SeqsOK /\ DataOK
  BY TypeParts DEF IInv
<1>2. /\ list' \in Seq(Callouts)
      /\ Range(list') = {y \in Callouts : active[y]} \ {co}
      /\ Sorted(list', deadline)
      /\ list' # << >> => list # << >> /\ deadline[list[1]] <= deadline[list'[1]]
  <2>1. list' = IF active[co] THEN Without(list, co) ELSE list
    BY DEF StopUnlink
  <2> QED
    BY <2>1, Unlinked DEF IInv
<1>3. TypeOK'
  <2>1. FlagsOK'
    BY <1>1 DEF StopUnlink, FlagsOK
  <2>2. DataOK'
    BY <1>1 DEF StopUnlink, DataOK, Goto, orderVars, clockVars, runVars
  <2>3. SeqsOK'
    BY <1>1, <1>2 DEF StopUnlink, SeqsOK
  <2> QED
    BY <2>1, <2>2, <2>3 DEF TypeOK, FlagsOK, SeqsOK, DataOK
<1>4. ArgsOK'
  BY DEF IInv, ArgsOK, TypeOK, StopUnlink, Goto, runVars
<1>5. ListOK'
  <2>1. DOMAIN list' = 1..Len(list')
    BY <1>2, LenProperties
  <2>2. \A y \in Callouts : active'[y] <=> y \in Range(list')
    BY <1>1, <1>2 DEF StopUnlink, FlagsOK
  <2>3. \A y \in Callouts : active'[y] <=> \E i \in DOMAIN list' : list'[i] = y
    BY <2>2 DEF Range
  <2>4. deadline' = deadline /\ evq' = evq
    BY DEF StopUnlink
  <2>5. \A i, j \in DOMAIN list' : i < j =>
          list'[i] # list'[j] /\ deadline'[list'[i]] <= deadline'[list'[j]]
    BY <1>2, <2>1, <2>4 DEF Sorted
  <2> QED
    BY <2>3, <2>4, <2>5 DEF IInv, ListOK
<1>6. WakeOK'
  <2>1. /\ runPc' = runPc /\ woken' = woken /\ now' = now /\ alarm' = alarm
        /\ seen' = seen /\ timersWaker' = timersWaker /\ deadline' = deadline
    BY DEF StopUnlink, clockVars, runVars
  <2>2. Waking => Waking'
    BY DEF StopUnlink, Goto, Waking, IInv, TypeOK
  <2>3. /\ seen \in Nat /\ alarm \in Nat
        /\ list # << >> => deadline[list[1]] \in Nat
        /\ list' # << >> => deadline[list'[1]] \in Nat
    <3>1. deadline \in [Callouts -> Nat] /\ seen \in Nat /\ alarm \in Nat
      BY <1>1, CalloutAssumption DEF DataOK, NoAlarm
    <3>2. list # << >> => list[1] \in Callouts
      BY <1>1 DEF SeqsOK
    <3>3. list' # << >> => list'[1] \in Callouts
      BY <1>2
    <3> QED
      BY <3>1, <3>2, <3>3
  <2> QED
    BY <1>2, <2>1, <2>2, <2>3 DEF IInv, WakeOK
<1> QED
  BY <1>3, <1>4, <1>5, <1>6 DEF IInv

\* ble_npl_callout_stop cancels the queued event.
LEMMA StopUnqueueOK ==
  ASSUME IInv, NEW c \in Ctxs, StopUnqueue(c)
  PROVE  IInv'
<1>1. FlagsOK /\ SeqsOK /\ DataOK /\ arg[c] \in Callouts
  BY TypeParts DEF IInv, ArgsOK, StopUnqueue
<1>2. Once(evq) /\ Len(evq) \in Nat /\ DOMAIN evq = 1..Len(evq)
  BY <1>1, LenProperties DEF IInv, ListOK, Once, SeqsOK
<1>3. evq' \in Seq(Callouts \ Inline) /\ Once(evq')
  <2>1. CASE evq' = evq
    BY <1>1, <1>2, <2>1 DEF SeqsOK
  <2>2. CASE evq' = Without(evq, arg[c])
    <3>1. Without(evq, arg[c]) \in Seq(Callouts \ Inline) /\ Embeds(Without(evq, arg[c]), evq)
      BY <1>1, <1>2, WithoutProperties DEF SeqsOK
    <3>2. evq' \in Seq(Callouts \ Inline) /\ Embeds(evq', evq)
      BY <2>2, <3>1
    <3>3. ASSUME NEW i \in 1..Len(evq'), NEW j \in 1..Len(evq'), i < j
          PROVE  evq'[i] # evq'[j]
      <4>1. PICK k \in 1..Len(evq), l \in 1..Len(evq) :
                   k < l /\ evq'[i] = evq[k] /\ evq'[j] = evq[l]
        BY <3>2, <3>3 DEF Embeds
      <4> QED
        BY <1>2, <4>1 DEF Once
    <3> QED
      BY <3>2, <3>3 DEF Once
  <2> QED
    BY <2>1, <2>2 DEF StopUnqueue
<1>4. TypeOK'
  <2>1. FlagsOK'
    BY <1>1 DEF StopUnqueue, FlagsOK, listVars, orderVars
  <2>2. DataOK'
    BY <1>1 DEF StopUnqueue, DataOK, Goto, clockVars, listVars, orderVars, runVars
  <2>3. SeqsOK'
    BY <1>1, <1>3 DEF StopUnqueue, SeqsOK, listVars, orderVars
  <2> QED
    BY <2>1, <2>2, <2>3 DEF TypeOK, FlagsOK, SeqsOK, DataOK
<1>5. ArgsOK'
  BY DEF IInv, ArgsOK, TypeOK, StopUnqueue, Goto, runVars
<1>6. ListOK'
  <2>1. DOMAIN evq' = 1..Len(evq')
    BY <1>3, LenProperties
  <2>2. \A i, j \in DOMAIN evq' : i < j => evq'[i] # evq'[j]
    BY <1>3, <2>1 DEF Once
  <2> QED
    BY <2>2 DEF IInv, ListOK, StopUnqueue, listVars, orderVars
<1>7. WakeOK'
  <2>1. Waking => Waking'
    BY DEF StopUnqueue, Goto, Waking, IInv, TypeOK
  <2> QED
    BY <2>1 DEF IInv, WakeOK, StopUnqueue, clockVars, listVars, orderVars, runVars
<1> QED
  BY <1>4, <1>5, <1>6, <1>7 DEF IInv

\* The events arm takes the first event.
LEMMA RunEventsOK ==
  ASSUME IInv, RunEvents
  PROVE  IInv'
<1>1. FlagsOK /\ SeqsOK /\ DataOK
  BY TypeParts DEF IInv
<1>2. CASE evq = << >>
  <2>1. TypeOK'
    <3>1. FlagsOK'
      BY <1>1, <1>2 DEF RunEvents, FlagsOK, listVars, orderVars
    <3>2. DataOK' /\ SeqsOK'
      BY <1>1, <1>2 DEF RunEvents, DataOK, SeqsOK, clockVars, listVars, orderVars, callVars
    <3> QED
      BY <3>1, <3>2 DEF TypeOK, FlagsOK, SeqsOK, DataOK
  <2>2. ArgsOK' /\ ListOK' /\ WakeOK'
    BY <1>2 DEF IInv, ArgsOK, ListOK, WakeOK, RunEvents, clockVars, listVars, orderVars, callVars
  <2> QED
    BY <2>1, <2>2 DEF IInv
<1>3. CASE evq # << >>
  <2>1. /\ Head(evq) \in Callouts \ Inline /\ Tail(evq) \in Seq(Callouts \ Inline)
        /\ Len(Tail(evq)) = Len(evq) - 1
        /\ \A i \in 1..Len(Tail(evq)) : Tail(evq)[i] = evq[i + 1]
    BY <1>1, <1>3 DEF SeqsOK
  <2>2. TypeOK'
    <3>1. FlagsOK'
      BY <1>1, <1>3 DEF RunEvents, FlagsOK, listVars, orderVars
    <3>2. DataOK' /\ SeqsOK'
      BY <1>1, <1>3, <2>1 DEF RunEvents, DataOK, SeqsOK, clockVars, listVars, orderVars, callVars
    <3> QED
      BY <3>1, <3>2 DEF TypeOK, FlagsOK, SeqsOK, DataOK
  <2>3. ArgsOK' /\ WakeOK'
    BY <1>3 DEF IInv, ArgsOK, WakeOK, RunEvents, clockVars, listVars, orderVars, callVars
  <2>4. ListOK'
    <3>1. evq' = Tail(evq) /\ list' = list /\ active' = active /\ deadline' = deadline
      BY <1>3 DEF RunEvents, listVars, orderVars
    <3>2. /\ Len(evq) \in Nat /\ DOMAIN evq = 1..Len(evq)
          /\ DOMAIN Tail(evq) = 1..(Len(evq) - 1)
      BY <1>1, <2>1, LenProperties DEF SeqsOK
    <3>3. ASSUME NEW i \in DOMAIN Tail(evq), NEW j \in DOMAIN Tail(evq), i < j
          PROVE  Tail(evq)[i] # Tail(evq)[j]
      <4>1. i + 1 \in DOMAIN evq /\ j + 1 \in DOMAIN evq /\ i + 1 < j + 1
        BY <3>2, <3>3
      <4> QED
        BY <2>1, <3>2, <4>1 DEF IInv, ListOK
    <3> QED
      BY <3>1, <3>3 DEF IInv, ListOK
  <2> QED
    BY <2>2, <2>3, <2>4 DEF IInv
<1> QED
  BY <1>2, <1>3

\* timers_fire_due takes the first callout if it is due.
LEMMA FirePopOK ==
  ASSUME IInv, FirePop
  PROVE  IInv'
<1>1. FlagsOK /\ SeqsOK /\ DataOK
  BY TypeParts DEF IInv
<1> DEFINE Due == list # << >> /\ deadline[Head(list)] <= now
<1>2. CASE ~Due
  <2>1. TypeOK'
    <3>1. FlagsOK'
      BY <1>1, <1>2 DEF FirePop, FlagsOK
    <3>2. DataOK' /\ SeqsOK'
      BY <1>1, <1>2 DEF FirePop, DataOK, SeqsOK, orderVars, clockVars, callVars
    <3> QED
      BY <3>1, <3>2 DEF TypeOK, FlagsOK, SeqsOK, DataOK
  <2>2. ArgsOK' /\ ListOK' /\ WakeOK'
    BY <1>2 DEF IInv, ArgsOK, ListOK, WakeOK, FirePop, clockVars, callVars
  <2> QED
    BY <2>1, <2>2 DEF IInv
<1>3. CASE Due
  <2>1. /\ Head(list) = list[1] /\ list[1] \in Callouts /\ Tail(list) \in Seq(Callouts)
        /\ Len(list) \in Nat \ {0} /\ DOMAIN list = 1..Len(list)
        /\ DOMAIN Tail(list) = 1..(Len(list) - 1)
        /\ \A i \in 1..(Len(list) - 1) : Tail(list)[i] = list[i + 1]
    BY <1>1, <1>3 DEF SeqsOK
  <2>2. /\ list' = Tail(list) /\ active' = [active EXCEPT ![list[1]] = FALSE]
        /\ running' = list[1] /\ deadline' = deadline /\ evq' = evq
        /\ runPc' = IF list[1] \in Inline THEN "inline" ELSE "put"
    BY <1>3, <2>1 DEF FirePop
  <2>3. TypeOK'
    <3>1. FlagsOK'
      BY <1>1, <2>1, <2>2 DEF FirePop, FlagsOK
    <3>2. DataOK' /\ SeqsOK'
      BY <1>1, <2>1, <2>2 DEF FirePop, DataOK, SeqsOK, orderVars, clockVars, callVars
    <3> QED
      BY <3>1, <3>2 DEF TypeOK, FlagsOK, SeqsOK, DataOK
  <2>4. ArgsOK' /\ WakeOK'
    BY <2>1, <2>2 DEF IInv, ArgsOK, WakeOK, FirePop, clockVars, callVars
  <2>5. \A y \in Callouts : active[y] <=> \E i \in 1..Len(list) : list[i] = y
    BY <2>1 DEF IInv, ListOK
  <2>6. \A i, j \in 1..Len(list) : i < j =>
          list[i] # list[j] /\ deadline[list[i]] <= deadline[list[j]]
    BY <2>1 DEF IInv, ListOK
  <2>7. ASSUME NEW y \in Callouts
        PROVE  active'[y] <=> \E i \in 1..(Len(list) - 1) : list'[i] = y
    <3>1. CASE y = list[1]
      <4>1. ~active'[y]
        BY <1>1, <2>2, <3>1 DEF FlagsOK
      <4>2. ASSUME NEW i \in 1..(Len(list) - 1) PROVE list'[i] # y
        <5>1. i + 1 \in 1..Len(list) /\ 1 \in 1..Len(list) /\ 1 < i + 1
          BY <2>1
        <5> QED
          BY <2>1, <2>2, <2>6, <3>1, <5>1
      <4> QED
        BY <4>1, <4>2
    <3>2. CASE y # list[1]
      <4>1. active'[y] <=> active[y]
        BY <1>1, <2>2, <3>2 DEF FlagsOK
      <4>2. ASSUME NEW k \in 1..Len(list), list[k] = y
            PROVE  \E i \in 1..(Len(list) - 1) : list'[i] = y
        <5>1. k - 1 \in 1..(Len(list) - 1) /\ (k - 1) + 1 = k
          BY <2>1, <3>2, <4>2
        <5> QED
          BY <2>1, <2>2, <4>2, <5>1
      <4>3. ASSUME NEW i \in 1..(Len(list) - 1), list'[i] = y
            PROVE  \E k \in 1..Len(list) : list[k] = y
        <5>1. i + 1 \in 1..Len(list)
          BY <2>1
        <5> QED
          BY <2>1, <2>2, <4>3, <5>1
      <4> QED
        BY <2>5, <4>1, <4>2, <4>3
    <3> QED
      BY <3>1, <3>2
  <2>8. ASSUME NEW i \in 1..(Len(list) - 1), NEW j \in 1..(Len(list) - 1), i < j
        PROVE  list'[i] # list'[j] /\ deadline'[list'[i]] <= deadline'[list'[j]]
    <3>1. i + 1 \in 1..Len(list) /\ j + 1 \in 1..Len(list) /\ i + 1 < j + 1
      BY <2>1, <2>8
    <3>2. list'[i] = list[i + 1] /\ list'[j] = list[j + 1]
      BY <2>1, <2>2
    <3> QED
      BY <2>2, <2>6, <3>1, <3>2
  <2>9. ListOK'
    <3>1. DOMAIN list' = 1..(Len(list) - 1)
      BY <2>1, <2>2
    <3> QED
      BY <2>2, <2>7, <2>8, <3>1 DEF IInv, ListOK
  <2> QED
    BY <2>3, <2>4, <2>9 DEF IInv
<1> QED
  BY <1>2, <1>3

\* timers_fire_due queues the event of the callout it took, unless it waits.
LEMMA FirePutOK ==
  ASSUME IInv, FirePut
  PROVE  IInv'
<1>1. FlagsOK /\ SeqsOK /\ DataOK /\ running \in Callouts \ Inline
  BY TypeParts DEF IInv, ArgsOK, FirePut
<1>2. ArgsOK' /\ WakeOK'
  BY DEF IInv, ArgsOK, WakeOK, FirePut, clockVars, listVars, orderVars, callVars
<1>3. /\ list' = list /\ active' = active /\ deadline' = deadline
      /\ timersWaker' = timersWaker /\ stopped' = stopped /\ linked' = linked /\ links' = links
  BY DEF FirePut, listVars, orderVars
<1>4. CASE Contains(evq, running)
  <2>1. FlagsOK'
    BY <1>1, <1>3, <1>4 DEF FirePut, FlagsOK
  <2>2. DataOK' /\ SeqsOK'
    BY <1>1, <1>3, <1>4 DEF FirePut, DataOK, SeqsOK, clockVars, callVars
  <2>3. ListOK'
    BY <1>3, <1>4 DEF IInv, ListOK, FirePut
  <2> QED
    BY <1>2, <2>1, <2>2, <2>3 DEF IInv, TypeOK, FlagsOK, SeqsOK, DataOK
<1>5. CASE ~Contains(evq, running)
  <2>1. evq' = Append(evq, running) /\ woken' = TRUE
    BY <1>5 DEF FirePut
  <2>2. FlagsOK'
    BY <1>1, <1>3, <2>1 DEF FlagsOK
  <2>3. /\ evq' \in Seq(Callouts \ Inline) /\ Len(evq) \in Nat
        /\ DOMAIN evq = 1..Len(evq) /\ DOMAIN evq' = 1..(Len(evq) + 1)
        /\ \A i \in 1..Len(evq) : evq'[i] = evq[i]
        /\ evq'[Len(evq) + 1] = running
    BY <1>1, <2>1 DEF SeqsOK
  <2>4. DataOK' /\ SeqsOK'
    BY <1>1, <1>3, <2>3 DEF FirePut, DataOK, SeqsOK, clockVars, callVars
  <2>5. ASSUME NEW i \in 1..(Len(evq) + 1), NEW j \in 1..(Len(evq) + 1), i < j
        PROVE  evq'[i] # evq'[j]
    <3>1. i \in 1..Len(evq) /\ (j \in 1..Len(evq) \/ j = Len(evq) + 1)
      BY <2>3, <2>5
    <3>2. evq[i] # running
      BY <1>5, <3>1 DEF Contains
    <3> QED
      BY <2>3, <2>5, <3>1, <3>2 DEF IInv, ListOK
  <2>6. ListOK'
    BY <1>3, <2>3, <2>5 DEF IInv, ListOK
  <2> QED
    BY <1>2, <2>2, <2>4, <2>6 DEF IInv, TypeOK, FlagsOK, SeqsOK, DataOK
<1> QED
  BY <1>4, <1>5

\* The steps that leave the timer list and the event queue alone.
LEMMA OthersOK ==
  ASSUME IInv,
         \/ UNCHANGED vars
         \/ \E c \in Ctxs, co \in Callouts, d \in Delays : CalloutReset(c, co, d)
         \/ \E c \in Ctxs : ResetWake(c)
         \/ BeginPoll \/ HandlerDone \/ NextDeadline \/ ArmTimer \/ Tick
  PROVE  IInv'
<1>1. FlagsOK /\ SeqsOK /\ DataOK
  BY TypeParts DEF IInv
<1>2. MaxTime \in Nat /\ MaxResets \in Nat /\ Delays \subseteq Nat /\ NoAlarm = MaxTime + 1
  BY CalloutAssumption DEF NoAlarm
<1>3. list # << >> => Head(list) = list[1] /\ list[1] \in Callouts /\ deadline[list[1]] \in 0..MaxTime
  BY <1>1 DEF SeqsOK, DataOK
<1>4. CASE UNCHANGED vars
  BY <1>4 DEF IInv, TypeOK, ArgsOK, ListOK, WakeOK, Waking,
              vars, clockVars, listVars, orderVars, runVars, callVars
<1>5. ASSUME NEW c \in Ctxs, NEW co \in Callouts, NEW d \in Delays, CalloutReset(c, co, d) PROVE IInv'
  <2>1. FlagsOK'
    BY <1>1, <1>5 DEF CalloutReset, FlagsOK, Goto, clockVars, listVars, orderVars, runVars
  <2>2. DataOK' /\ SeqsOK'
    BY <1>1, <1>2, <1>3, <1>5
       DEF CalloutReset, DataOK, SeqsOK, Goto, clockVars, listVars, orderVars, runVars
  <2>3. ArgsOK' /\ ListOK'
    BY <1>5
       DEF IInv, TypeOK, ArgsOK, ListOK, CalloutReset, Goto, clockVars, listVars, orderVars, runVars
  <2>4. WakeOK'
    BY <1>1, <1>2, <1>3, <1>5
       DEF IInv, DataOK, WakeOK, Waking, CalloutReset, Goto, clockVars, listVars, orderVars, runVars
  <2> QED
    BY <2>1, <2>2, <2>3, <2>4 DEF IInv, TypeOK, FlagsOK, SeqsOK, DataOK
<1>6. ASSUME NEW c \in Ctxs, ResetWake(c) PROVE IInv'
  <2>1. FlagsOK'
    BY <1>1, <1>6 DEF ResetWake, FlagsOK, Goto, clockVars, listVars, orderVars, runVars
  <2>2. DataOK' /\ SeqsOK'
    BY <1>1, <1>2, <1>3, <1>6
       DEF ResetWake, DataOK, SeqsOK, Goto, clockVars, listVars, orderVars, runVars
  <2>3. ArgsOK' /\ ListOK'
    BY <1>6
       DEF IInv, TypeOK, ArgsOK, ListOK, ResetWake, Goto, clockVars, listVars, orderVars, runVars
  <2>4. WakeOK'
    BY <1>1, <1>2, <1>3, <1>6
       DEF IInv, DataOK, WakeOK, Waking, ResetWake, Goto, clockVars, listVars, orderVars, runVars
  <2> QED
    BY <2>1, <2>2, <2>3, <2>4 DEF IInv, TypeOK, FlagsOK, SeqsOK, DataOK
<1>7. ASSUME BeginPoll PROVE IInv'
  <2>1. FlagsOK'
    BY <1>1, <1>7 DEF BeginPoll, FlagsOK, clockVars, listVars, orderVars, callVars
  <2>2. DataOK' /\ SeqsOK'
    BY <1>1, <1>2, <1>3, <1>7
       DEF BeginPoll, DataOK, SeqsOK, clockVars, listVars, orderVars, callVars
  <2>3. ArgsOK' /\ ListOK'
    BY <1>7 DEF IInv, TypeOK, ArgsOK, ListOK, BeginPoll, clockVars, listVars, orderVars, callVars
  <2>4. WakeOK'
    BY <1>1, <1>2, <1>3, <1>7
       DEF IInv, DataOK, WakeOK, Waking, BeginPoll, clockVars, listVars, orderVars, callVars
  <2> QED
    BY <2>1, <2>2, <2>3, <2>4 DEF IInv, TypeOK, FlagsOK, SeqsOK, DataOK
<1>8. ASSUME HandlerDone PROVE IInv'
  <2>1. FlagsOK'
    BY <1>1, <1>8 DEF HandlerDone, FlagsOK, clockVars, listVars, orderVars, callVars
  <2>2. DataOK' /\ SeqsOK'
    BY <1>1, <1>2, <1>3, <1>8
       DEF HandlerDone, DataOK, SeqsOK, clockVars, listVars, orderVars, callVars
  <2>3. ArgsOK' /\ ListOK'
    BY <1>8 DEF IInv, TypeOK, ArgsOK, ListOK, HandlerDone, clockVars, listVars, orderVars, callVars
  <2>4. WakeOK'
    BY <1>1, <1>2, <1>3, <1>8
       DEF IInv, DataOK, WakeOK, Waking, HandlerDone, clockVars, listVars, orderVars, callVars
  <2> QED
    BY <2>1, <2>2, <2>3, <2>4 DEF IInv, TypeOK, FlagsOK, SeqsOK, DataOK
<1>9. ASSUME NextDeadline PROVE IInv'
  <2>1. FlagsOK'
    BY <1>1, <1>9 DEF NextDeadline, FlagsOK, clockVars, callVars
  <2>2. DataOK' /\ SeqsOK'
    BY <1>1, <1>2, <1>3, <1>9 DEF NextDeadline, DataOK, SeqsOK, orderVars, clockVars, callVars
  <2>3. ArgsOK' /\ ListOK'
    BY <1>9 DEF IInv, TypeOK, ArgsOK, ListOK, NextDeadline, clockVars, callVars
  <2>4. WakeOK'
    BY <1>1, <1>2, <1>3, <1>9 DEF IInv, DataOK, WakeOK, Waking, NextDeadline, clockVars, callVars
  <2> QED
    BY <2>1, <2>2, <2>3, <2>4 DEF IInv, TypeOK, FlagsOK, SeqsOK, DataOK
<1>10. ASSUME ArmTimer PROVE IInv'
  <2>1. FlagsOK'
    BY <1>1, <1>10 DEF ArmTimer, FlagsOK, listVars, orderVars, callVars
  <2>2. DataOK' /\ SeqsOK'
    BY <1>1, <1>2, <1>3, <1>10 DEF ArmTimer, DataOK, SeqsOK, listVars, orderVars, callVars
  <2>3. ArgsOK' /\ ListOK'
    BY <1>10 DEF IInv, TypeOK, ArgsOK, ListOK, ArmTimer, listVars, orderVars, callVars
  <2>4. WakeOK'
    BY <1>1, <1>2, <1>3, <1>10
       DEF IInv, DataOK, WakeOK, Waking, ArmTimer, listVars, orderVars, callVars
  <2> QED
    BY <2>1, <2>2, <2>3, <2>4 DEF IInv, TypeOK, FlagsOK, SeqsOK, DataOK
<1>11. ASSUME Tick PROVE IInv'
  <2>1. FlagsOK'
    BY <1>1, <1>11 DEF Tick, FlagsOK, listVars, orderVars, runVars, callVars
  <2>2. DataOK' /\ SeqsOK'
    BY <1>1, <1>2, <1>3, <1>11 DEF Tick, DataOK, SeqsOK, listVars, orderVars, runVars, callVars
  <2>3. ArgsOK' /\ ListOK'
    BY <1>11 DEF IInv, TypeOK, ArgsOK, ListOK, Tick, listVars, orderVars, runVars, callVars
  <2>4. WakeOK'
    BY <1>1, <1>2, <1>3, <1>11
       DEF IInv, DataOK, WakeOK, Waking, Tick, listVars, orderVars, runVars, callVars
  <2> QED
    BY <2>1, <2>2, <2>3, <2>4 DEF IInv, TypeOK, FlagsOK, SeqsOK, DataOK
<1> QED
  BY <1>4, <1>5, <1>6, <1>7, <1>8, <1>9, <1>10, <1>11

\* The invariant holds of every behaviour.
THEOREM Inductive == Spec => []IInv
<1>1. IInv /\ [Next]_vars => IInv'
  BY ResetLinkOK, StopUnlinkOK, StopUnqueueOK, RunEventsOK, FirePopOK, FirePutOK, OthersOK
     DEF Next, CallStep, PollStep
<1> QED
  BY InitOK, <1>1, PTL DEF Spec

\* The timers, the event queue and the clock keep their types.
THEOREM TypeCorrect == Spec => []TypeOK
<1>1. IInv => TypeOK
  BY DEF IInv
<1> QED
  BY <1>1, Inductive, PTL

-----------------------------------------------------------------------------
(* Callouts with one deadline.                                             *)

\* Members that are equal in f come in the order of g.
Ties(s, f, g) ==
  \A i, j \in 1..Len(s) : i < j /\ f[s[i]] = f[s[j]] => g[s[i]] < g[s[j]]

\* The numbers given so far are the ones up to links.
OrderOK == Ties(list, deadline, linked) /\ \A y \in Callouts : linked[y] <= links

\* Inserting a member that comes last in g before all that are greater in f.
LEMMA InsertTies ==
  ASSUME NEW S, NEW f \in [S -> Nat], NEW g \in [S -> Nat], NEW s \in Seq(S),
         NEW x \in S, NEW p \in 1..(Len(s) + 1), Ties(s, f, g),
         \A i \in 1..Len(s) : g[s[i]] < g[x],
         \A i \in 1..Len(s) : ~(i < p) => f[x] < f[s[i]]
  PROVE  Ties(InsertAt(s, p, x), f, g)
<1> DEFINE r == InsertAt(s, p, x)
           n == Len(s)
<1>1. /\ r \in Seq(S) /\ Len(r) = n + 1
      /\ \A j \in 1..(n + 1) : r[j] = IF j < p THEN s[j] ELSE IF j = p THEN x ELSE s[j - 1]
  <2>1. r \in Seq(S) /\ Inserted(r, s, p, x)
    BY InsertAtProperties
  <2> QED
    BY <2>1 DEF Inserted
<1>2. /\ n \in Nat /\ p \in 1..(n + 1)
      /\ \A i \in 1..n : g[s[i]] < g[x]
      /\ \A i \in 1..n : ~(i < p) => f[x] < f[s[i]]
      /\ \A i, j \in 1..n : i < j /\ f[s[i]] = f[s[j]] => g[s[i]] < g[s[j]]
  BY LenProperties DEF Ties
<1>3. f[x] \in Nat /\ \A i \in 1..n : f[s[i]] \in Nat
  BY ElementOfSeq
<1> HIDE DEF r, n
<1>4. \A j \in 1..(n + 1) : j < p => r[j] = s[j]
  BY <1>1
<1>5. \A j \in 1..(n + 1) : p < j => r[j] = s[j - 1]
  <2>1. ASSUME NEW j \in 1..(n + 1), p < j PROVE r[j] = s[j - 1]
    <3>1. ~(j < p) /\ j # p
      BY <1>2, <2>1
    <3> QED
      BY <1>1, <3>1
  <2> QED
    BY <2>1
<1>6. ASSUME NEW i \in 1..(n + 1), NEW j \in 1..(n + 1), i < j, f[r[i]] = f[r[j]]
      PROVE  g[r[i]] < g[r[j]]
  <2>1. CASE j < p
    <3>1. i \in 1..n /\ j \in 1..n /\ r[i] = s[i] /\ r[j] = s[j]
      BY <1>1, <1>2, <1>6, <2>1
    <3> QED
      BY <1>2, <1>6, <3>1
  <2>2. CASE j = p
    <3>1. i \in 1..n /\ r[i] = s[i] /\ r[j] = x
      BY <1>1, <1>2, <1>6, <2>2
    <3> QED
      BY <1>2, <3>1
  <2>3. CASE i = p
    <3>1. j - 1 \in 1..n /\ ~(j - 1 < p) /\ r[i] = x /\ r[j] = s[j - 1]
      BY <1>1, <1>2, <1>6, <2>3
    <3> QED
      BY <1>2, <1>3, <1>6, <3>1
  <2>4. CASE i < p /\ p < j
    <3>1. i \in 1..n /\ j - 1 \in 1..n /\ i < j - 1
      BY <1>2, <2>4
    <3>2. r[i] = s[i] /\ r[j] = s[j - 1]
      BY <1>4, <1>5, <2>4
    <3> QED
      BY <1>2, <1>6, <3>1, <3>2
  <2>5. CASE p < i
    <3>1. i - 1 \in 1..n /\ j - 1 \in 1..n /\ i - 1 < j - 1
      BY <1>2, <1>6, <2>5
    <3>2. r[i] = s[i - 1] /\ r[j] = s[j - 1]
      BY <1>5, <2>5, <1>2, <1>6
    <3> QED
      BY <1>2, <1>6, <3>1, <3>2
  <2>6. j < p \/ j = p \/ i = p \/ (i < p /\ p < j) \/ p < i
    OBVIOUS
  <2> QED
    BY <2>1, <2>2, <2>3, <2>4, <2>5, <2>6
<1>7. Ties(r, f, g)
  BY <1>1, <1>6 DEF Ties
<1> QED
  BY <1>7 DEF r

\* Leaving members out keeps the order of the others.
LEMMA TiesKept ==
  ASSUME IInv, OrderOK, NEW co \in Callouts,
         NEW w, w = IF active[co] THEN Without(list, co) ELSE list
  PROVE  Ties(w, deadline, linked)
<1>1. list \in Seq(Callouts) /\ Sorted(list, deadline)
  BY ListOf DEF IInv
<1>2. CASE active[co]
  <2>1. Once(list)
    BY <1>1 DEF Sorted, Once
  <2>2. Embeds(w, list)
    BY <1>1, <1>2, <2>1, WithoutProperties
  <2>3. ASSUME NEW i \in 1..Len(w), NEW j \in 1..Len(w), i < j, deadline[w[i]] = deadline[w[j]]
        PROVE  linked[w[i]] < linked[w[j]]
    <3>1. PICK k \in 1..Len(list), l \in 1..Len(list) : k < l /\ w[i] = list[k] /\ w[j] = list[l]
      BY <2>2, <2>3 DEF Embeds
    <3>2. deadline[list[k]] = deadline[list[l]]
      BY <2>3, <3>1
    <3> QED
      BY <3>1, <3>2 DEF OrderOK, Ties
  <2> QED
    BY <2>3 DEF Ties
<1>3. CASE ~active[co]
  BY <1>3 DEF OrderOK
<1> QED
  BY <1>2, <1>3

\* Every step keeps callouts with one deadline in the order of their resets.
LEMMA OrderStep == IInv /\ OrderOK /\ [Next]_vars => OrderOK'
<1> SUFFICES ASSUME IInv, OrderOK, [Next]_vars PROVE OrderOK'
  OBVIOUS
<1>1. FlagsOK /\ SeqsOK /\ DataOK
  BY TypeParts DEF IInv
<1>2. CASE UNCHANGED <<list, deadline, linked, links>>
  BY <1>2 DEF OrderOK, Ties
<1>3. ASSUME NEW c \in Ctxs, ResetLink(c) PROVE OrderOK'
  <2> DEFINE co == arg[c]
             d == due[c]
             rest == IF active[co] THEN Without(list, co) ELSE list
             p == Place(rest, d)
  <2>1. co \in Callouts /\ d \in Nat
    BY <1>1, <1>3, CalloutAssumption DEF IInv, ArgsOK, ResetLink, DataOK
  <2>2. deadline \in [Callouts -> Nat] /\ linked \in [Callouts -> Nat] /\ links \in Nat
    BY <1>1, CalloutAssumption DEF DataOK
  <2>3. /\ list' = InsertAt(rest, p, co)
        /\ deadline' = [deadline EXCEPT ![co] = d]
        /\ linked' = [linked EXCEPT ![co] = links + 1] /\ links' = links + 1
    BY <1>3 DEF ResetLink
  <2>4. rest = IF active[co] THEN Without(list, co) ELSE list
    OBVIOUS
  <2> HIDE DEF co, d, rest
  <2>5. /\ rest \in Seq(Callouts) /\ Sorted(rest, deadline)
        /\ Range(rest) = {y \in Callouts : active[y]} \ {co}
    BY <2>1, <2>4, Unlinked DEF IInv
  <2>6. Ties(rest, deadline, linked)
    BY <2>1, <2>4, TiesKept
  <2>7. /\ Len(rest) \in Nat /\ DOMAIN rest = 1..Len(rest)
        /\ \A i \in 1..Len(rest) : rest[i] \in Callouts /\ rest[i] # co
    BY <2>5, ElementOfSeq, LenProperties DEF Range
  <2>8. /\ p \in 1..(Len(rest) + 1)
        /\ p <= Len(rest) => deadline[rest[p]] > d
    BY <2>1, <2>2, <2>5, PlaceProperties
  <2> HIDE DEF p
  <2>9. /\ deadline' \in [Callouts -> Nat] /\ linked' \in [Callouts -> Nat]
        /\ deadline'[co] = d /\ linked'[co] = links + 1
        /\ \A i \in 1..Len(rest) : deadline'[rest[i]] = deadline[rest[i]]
        /\ \A i \in 1..Len(rest) : linked'[rest[i]] = linked[rest[i]]
    BY <2>1, <2>2, <2>3, <2>7
  <2>10. Ties(rest, deadline', linked')
    BY <2>6, <2>9 DEF Ties
  <2>11. \A i \in 1..Len(rest) : linked'[rest[i]] < linked'[co]
    <3> SUFFICES ASSUME NEW i \in 1..Len(rest) PROVE linked'[rest[i]] < linked'[co]
      OBVIOUS
    <3>1. linked[rest[i]] <= links /\ linked[rest[i]] \in Nat
      BY <2>2, <2>7 DEF OrderOK
    <3> QED
      BY <2>2, <2>9, <3>1
  <2>12. ASSUME NEW i \in 1..Len(rest), ~(i < p) PROVE deadline'[co] < deadline'[rest[i]]
    <3>1. p \in 1..Len(rest) /\ (p = i \/ p < i)
      BY <2>7, <2>8, <2>12
    <3>2. deadline[rest[p]] <= deadline[rest[i]]
      <4>1. deadline[rest[i]] \in Nat
        BY <2>2, <2>7
      <4> QED
        BY <2>5, <3>1, <4>1 DEF Sorted
    <3>3. d < deadline[rest[p]] /\ deadline[rest[p]] \in Nat /\ deadline[rest[i]] \in Nat
      BY <2>1, <2>2, <2>7, <2>8, <3>1
    <3> QED
      BY <2>1, <2>9, <3>2, <3>3
  <2>13. Ties(InsertAt(rest, p, co), deadline', linked')
    BY <2>1, <2>5, <2>8, <2>9, <2>10, <2>11, <2>12, InsertTies
  <2>14. Ties(list', deadline', linked')
    BY <2>3, <2>13
  <2>15. \A y \in Callouts : linked'[y] <= links'
    BY <2>1, <2>2, <2>3 DEF OrderOK
  <2> QED
    BY <2>14, <2>15 DEF OrderOK
<1>4. ASSUME NEW c \in Ctxs, NEW co \in Callouts, StopUnlink(c, co) PROVE OrderOK'
  <2>1. /\ list' = (IF active[co] THEN Without(list, co) ELSE list)
        /\ UNCHANGED <<deadline, linked, links>>
    BY <1>4 DEF StopUnlink, orderVars
  <2>2. Ties(list', deadline, linked)
    BY <2>1, TiesKept
  <2> QED
    BY <2>1, <2>2 DEF OrderOK
<1>5. ASSUME FirePop PROVE OrderOK'
  <2>1. UNCHANGED <<deadline, linked, links>>
    BY <1>5 DEF FirePop, orderVars
  <2>2. CASE list' = list
    BY <1>2, <2>1, <2>2
  <2>3. CASE list # << >> /\ list' = Tail(list)
    <3>1. /\ Len(list') = Len(list) - 1 /\ Len(list) \in Nat
          /\ \A i \in 1..(Len(list) - 1) : list'[i] = list[i + 1]
      BY <1>1, <2>3, HeadTailProperties, LenProperties DEF SeqsOK
    <3>2. ASSUME NEW i \in 1..Len(list'), NEW j \in 1..Len(list'), i < j,
                 deadline[list'[i]] = deadline[list'[j]]
          PROVE  linked[list'[i]] < linked[list'[j]]
      <4>1. i + 1 \in 1..Len(list) /\ j + 1 \in 1..Len(list) /\ i + 1 < j + 1
        BY <3>1, <3>2
      <4>2. list'[i] = list[i + 1] /\ list'[j] = list[j + 1]
        BY <3>1, <3>2
      <4> QED
        BY <3>2, <4>1, <4>2 DEF OrderOK, Ties
    <3>3. Ties(list', deadline', linked')
      BY <2>1, <3>2 DEF Ties
    <3> QED
      BY <2>1, <3>3 DEF OrderOK
  <2> QED
    BY <1>5, <2>2, <2>3 DEF FirePop
<1>6. \/ \E c \in Ctxs, co \in Callouts, d \in Delays : CalloutReset(c, co, d)
      \/ \E c \in Ctxs : ResetWake(c) \/ StopUnqueue(c)
      \/ BeginPoll \/ RunEvents \/ HandlerDone \/ NextDeadline \/ ArmTimer \/ FirePut \/ Tick
      \/ UNCHANGED vars
      => UNCHANGED <<list, deadline, linked, links>>
  BY DEF CalloutReset, ResetWake, StopUnqueue, BeginPoll, RunEvents, HandlerDone, NextDeadline,
         ArmTimer, FirePut, Tick, vars, listVars, orderVars
<1> QED
  BY <1>2, <1>3, <1>4, <1>5, <1>6 DEF Next, CallStep, PollStep

\* Whatever contexts reset and stop callouts at once, the timer list holds
\* exactly the active ones, each once, in deadline order and those with one
\* deadline in the order of their resets, and no callout's event is queued
\* twice (ble_npl_callout_reset, timers_unlink, timers_fire_due).
THEOREM TimersCorrect == Spec => []TimersOK
<1>1. Init => OrderOK
  BY DEF Init, OrderOK, Ties
<1>2. IInv /\ OrderOK => TimersOK
  <2> SUFFICES ASSUME IInv, OrderOK PROVE TimersOK
    OBVIOUS
  <2>1. DOMAIN list = 1..Len(list)
    BY ListOf DEF IInv
  <2> QED
    BY <2>1 DEF IInv, OrderOK, Ties, EqualsInOrder, TimersOK
<1> QED
  BY Inductive, OrderStep, <1>1, <1>2, PTL DEF Spec

\* The run task never sleeps past the first deadline: no reset falls between
\* the deadline it read and the timer it armed without waking it (run_timers
\* with timers_poll_next_deadline).
THEOREM DeadlinesKept == Spec => []NoMissedDeadline
<1>1. IInv => NoMissedDeadline
  <2> SUFFICES ASSUME IInv, list # << >> PROVE NoMissedDeadline
    BY DEF NoMissedDeadline
  <2>1. Head(list) = list[1]
    BY DEF IInv, TypeOK
  <2> QED
    BY <2>1 DEF IInv, WakeOK, Waking, NoMissedDeadline
<1> QED
  BY <1>1, Inductive, PTL
=============================================================================
