----------------------------- MODULE L2capProofs -----------------------------
(***************************************************************************)
(* The L2CAP channels of the two ends, for any pool sizes, numbers of SDUs *)
(* and faults, and whatever the C host answers.                            *)
(*                                                                         *)
(* Every mbuf has one owner.  The argument follows a buffer through the    *)
(* calls: Keeps(n, v, X) says that the end v, of n buffers, accounts for   *)
(* each of them once when those of X are in the hands of the code that     *)
(* runs.  Each operator of the model has a lemma that says what it does to *)
(* X.                                                                      *)
(*                                                                         *)
(* Three buffers are enough.  The same lemmas count: an event holds one    *)
(* buffer, a stalled send another, so a third is free for the next SDU.    *)
(*                                                                         *)
(* The echoes are faithful.  A number is in one place at a time, and the   *)
(* places form a line in the order of the numbers (Line, EchoOK); each     *)
(* operator has a second lemma, on how it moves numbers along the line.    *)
(***************************************************************************)
EXTENDS L2capChannel, SequenceTheorems, FiniteSetTheorems, TLAPS

Fields == {"pool", "link", "chan", "rx", "tx", "data", "credits", "CHAN", "hooked", "lost",
           "dropped", "unarmed"}

\* An end with n buffers.
IsEnd(n, v) ==
  /\ DOMAIN v = Fields
  /\ v.pool \in [1..n -> Nat]
  /\ v.rx \in 1..n \cup {NULL} /\ v.tx \in 1..n \cup {NULL}
  /\ v.lost \in SUBSET (1..n)
  /\ v.data \in Nat

\* Who has buffer b.
Owners(v, X, b) ==
  v.pool[b] + (IF v.rx = b THEN 1 ELSE 0) + (IF v.tx = b THEN 1 ELSE 0)
            + (IF b \in v.lost THEN 1 ELSE 0) + (IF b \in X THEN 1 ELSE 0)

Keeps(n, v, X) ==
  /\ n \in Nat /\ NULL \notin 1..n /\ X \in SUBSET (1..n)
  /\ IsEnd(n, v)
  /\ \A b \in 1..n : Owners(v, X, b) = 1

\* What an end may say in answer to a message.
Reply == [type : {"rsp", "refused", "credit", "sdu", "disc", "gone"}, val : Nat]

Sendable(m) == m \in Nat

\* An outcome of a call of v that leaves X in hand and gives no buffer up.
IsResult(r) == DOMAIN r = {"dev", "rc", "out", "faults"} /\ r.faults \in Nat /\ r.out \in Seq(Reply)

Same(v, w) == w.lost = v.lost /\ w.hooked = v.hooked /\ w.chan = v.chan

Outcome(n, X, v, r) == IsResult(r) /\ Keeps(n, r.dev, X) /\ Same(v, r.dev)

\* The ends v and w differ only in their pools.
PoolOnly(v, w) == DOMAIN w = Fields /\ \A f \in Fields \ {"pool"} : w[f] = v[f]

\* A call that ends without a fault left an event with its receive buffer, if
\* there are three buffers and a hook to provide it.
Calm(n, v, r) ==
  (n >= 3 /\ v.lost = {} /\ v.hooked /\ r.faults = 0) => r.dev.unarmed = v.unarmed

Good(n, X, v, r) == Outcome(n, X, v, r) /\ Calm(n, v, r)
AllGood(n, X, v, S) == \A r \in S : Good(n, X, v, r)

\* An outcome of the handling of a message; a channel that came to be stays.
Handled(n, v, r) ==
  /\ IsResult(r) /\ Keeps(n, r.dev, {}) /\ Calm(n, v, r)
  /\ r.dev.lost = v.lost /\ r.dev.hooked = v.hooked
  /\ r.dev.chan # "none"

AllHandled(n, v, S) == \A r \in S : Handled(n, v, r)

-----------------------------------------------------------------------------
(* The inductive invariant.                                                *)

Message == [type : {"req", "rsp", "refused", "credit", "sdu", "disc", "gone"}, val : Nat]

\* The end d between two steps, when the client's program is at p and f faults
\* have happened.
Stands(n, d, v, p, f) ==
  /\ Keeps(n, v, {})
  /\ v.lost # {} => d = "client" /\ p = "panic"
  /\ v.chan = "none" => v.rx = NULL
  /\ f = 0 => v.hooked = TRUE /\ (n >= 3 => v.unarmed = FALSE)

DevOK ==
  DOMAIN dev = Ends /\ \A d \in Ends : \E n \in PoolSizes : Stands(n, d, dev[d], pc, faults)

NoReq(s) == s \in Seq(Message) /\ \A i \in 1..Len(s) : s[i].type # "req"
ReqFirst(s) == s \in Seq(Message) /\ \A i \in 1..Len(s) : s[i].type = "req" => i = 1

\* The one request to open a channel is the first message to the server, which
\* has no channel until it comes.
WireOK ==
  /\ DOMAIN wire = Ends /\ NoReq(wire["client"]) /\ ReqFirst(wire["server"])
  /\ dev["server"].chan # "none" => NoReq(wire["server"])
  /\ pc = "connect" => /\ wire["server"] = << >>
                       /\ dev["client"].chan = "none" /\ dev["server"].chan = "none"

IInv == DevOK /\ WireOK /\ counter \in Nat /\ faults \in Nat

-----------------------------------------------------------------------------
(* Buffers.                                                                *)

\* The holders of a buffer that is in nobody's hands, counted one by one.
LEMMA HoldersCount ==
  ASSUME NEW v, NEW b, v.pool[b] \in Nat
  PROVE  Holders(v, b) = v.pool[b] + (IF v.rx = b THEN 1 ELSE 0) + (IF v.tx = b THEN 1 ELSE 0)
                           + (IF b \in v.lost THEN 1 ELSE 0)
<1> DEFINE C == {h \in {"rx", "tx"} : v[h] = b}
<1>1. Cardinality(C) = (IF v.rx = b THEN 1 ELSE 0) + (IF v.tx = b THEN 1 ELSE 0)
  <2>1. CASE v.rx # b /\ v.tx # b
    <3>1. C = {}
      BY <2>1
    <3> QED
      BY <2>1, <3>1, FS_EmptySet
  <2>2. CASE v.rx = b /\ v.tx # b
    <3>1. C = {"rx"}
      BY <2>2
    <3>2. Cardinality({"rx"}) = 1
      BY FS_Singleton
    <3> HIDE DEF C
    <3> QED
      BY <2>2, <3>1, <3>2
  <2>3. CASE v.rx # b /\ v.tx = b
    <3>1. C = {"tx"}
      BY <2>3
    <3>2. Cardinality({"tx"}) = 1
      BY FS_Singleton
    <3> HIDE DEF C
    <3> QED
      BY <2>3, <3>1, <3>2
  <2>4. CASE v.rx = b /\ v.tx = b
    <3>1. C = {"rx"} \cup {"tx"}
      BY <2>4
    <3>2. IsFiniteSet({"rx"}) /\ Cardinality({"rx"}) = 1 /\ "tx" \notin {"rx"}
      BY FS_Singleton
    <3>3. Cardinality({"rx"} \cup {"tx"}) = 1 + 1
      BY <3>2, FS_AddElement
    <3> HIDE DEF C
    <3> QED
      BY <2>4, <3>1, <3>3
  <2> QED
    BY <2>1, <2>2, <2>3, <2>4
<1> HIDE DEF C
<1>2. Holders(v, b) = v.pool[b] + Cardinality(C) + (IF b \in v.lost THEN 1 ELSE 0)
  BY DEF Holders, C
<1> QED
  BY <1>1, <1>2

\* Only the buffers matter.
LEMMA KeepsFrame ==
  ASSUME NEW n, NEW v, NEW w, NEW X, Keeps(n, v, X),
         DOMAIN w = DOMAIN v, w.pool = v.pool, w.rx = v.rx, w.tx = v.tx, w.lost = v.lost,
         w.data \in Nat
  PROVE  Keeps(n, w, X)
BY DEF Keeps, IsEnd, Owners

\* One count of a pool is set.
LEMMA SetCount ==
  ASSUME NEW S, NEW f \in [S -> Nat], NEW b \in S, NEW k \in Nat
  PROVE  /\ [f EXCEPT ![b] = k] \in [S -> Nat]
         /\ \A c \in S : [f EXCEPT ![b] = k][c] = IF c = b THEN k ELSE f[c]
OBVIOUS

\* The end w is v with b on the free list once more.
Freed(n, v, b, w) ==
  /\ PoolOnly(v, w)
  /\ w.pool \in [1..n -> Nat]
  /\ \A c \in 1..n : w.pool[c] = v.pool[c] + (IF c = b THEN 1 ELSE 0)

\* What a free does to the pool.
LEMMA FreePool ==
  ASSUME NEW n, NEW v, NEW b \in 1..n \cup {NULL}, NULL \notin 1..n,
         DOMAIN v = Fields, v.pool \in [1..n -> Nat]
  PROVE  Freed(n, v, b, free_mbuf(v, b))
<1>1. CASE b = NULL
  <2>1. free_mbuf(v, b) = v
    BY <1>1 DEF free_mbuf
  <2>2. \A c \in 1..n : v.pool[c] \in Nat /\ c # b
    BY <1>1
  <2>3. \A c \in 1..n : v.pool[c] = v.pool[c] + (IF c = b THEN 1 ELSE 0)
    BY <2>2
  <2> QED
    BY <2>1, <2>3 DEF Freed, PoolOnly
<1>2. CASE b # NULL
  <2> DEFINE w == free_mbuf(v, b)
  <2>1. w = [v EXCEPT !.pool = [v.pool EXCEPT ![b] = @ + 1]]
    BY <1>2 DEF free_mbuf
  <2> HIDE DEF w
  <2>2. w.pool = [v.pool EXCEPT ![b] = @ + 1] /\ PoolOnly(v, w)
    BY <2>1 DEF Fields, PoolOnly
  <2>3. PICK f, g : f = v.pool /\ g = w.pool
    OBVIOUS
  <2>4. f \in [1..n -> Nat] /\ b \in 1..n /\ g = [f EXCEPT ![b] = f[b] + 1]
    BY <1>2, <2>2, <2>3
  <2>5. f[b] + 1 \in Nat
    BY <2>4
  <2>6. g \in [1..n -> Nat] /\ \A c \in 1..n : g[c] = IF c = b THEN f[b] + 1 ELSE f[c]
    BY <2>4, <2>5, SetCount
  <2>7. \A c \in 1..n : g[c] = f[c] + (IF c = b THEN 1 ELSE 0)
    BY <2>4, <2>6
  <2> QED
    BY <2>2, <2>3, <2>6, <2>7 DEF Freed, w
<1> QED
  BY <1>1, <1>2

\* A buffer in hand is freed.
LEMMA FreeKeeps ==
  ASSUME NEW n, NEW v, NEW X, NEW b \in X, Keeps(n, v, X)
  PROVE  /\ Keeps(n, free_mbuf(v, b), X \ {b})
         /\ PoolOnly(v, free_mbuf(v, b))
<1> DEFINE w == free_mbuf(v, b)
<1>1. b \in 1..n /\ NULL \notin 1..n /\ DOMAIN v = Fields /\ v.pool \in [1..n -> Nat]
  BY DEF Keeps, IsEnd
<1>2. /\ PoolOnly(v, w) /\ w.pool \in [1..n -> Nat]
      /\ \A c \in 1..n : w.pool[c] = v.pool[c] + (IF c = b THEN 1 ELSE 0)
  <2>1. Freed(n, v, b, w)
    BY <1>1, FreePool
  <2> QED
    BY <2>1 DEF Freed
<1> HIDE DEF w
<1>3. DOMAIN w = Fields /\ w.rx = v.rx /\ w.tx = v.tx /\ w.lost = v.lost /\ w.data = v.data
  BY <1>2 DEF Fields, PoolOnly
<1>4. IsEnd(n, w)
  BY <1>2, <1>3 DEF Keeps, IsEnd
<1>5. ASSUME NEW c \in 1..n PROVE Owners(w, X \ {b}, c) = 1
  <2>1. Owners(v, X, c) = 1
    BY DEF Keeps
  <2>2. v.pool[c] \in Nat
    BY <1>1
  <2>3. CASE c = b
    BY <1>2, <1>3, <2>1, <2>2, <2>3 DEF Owners
  <2>4. CASE c # b
    BY <1>2, <1>3, <2>1, <2>2, <2>4 DEF Owners
  <2> QED
    BY <2>3, <2>4
<1>6. Keeps(n, w, X \ {b})
  BY <1>4, <1>5 DEF Keeps
<1> QED
  BY <1>2, <1>6 DEF w

\* A buffer is allocated.
LEMMA AllocKeeps ==
  ASSUME NEW n, NEW v, NEW X, NEW b, Keeps(n, v, X), b = alloc_sdu(v), b # NULL
  PROVE  /\ b \in 1..n /\ b \notin X
         /\ Keeps(n, Taken(v, b), X \cup {b})
         /\ PoolOnly(v, Taken(v, b))
<1> DEFINE w == Taken(v, b)
           F == {c \in DOMAIN v.pool : v.pool[c] > 0}
<1>1. DOMAIN v = Fields /\ v.pool \in [1..n -> Nat]
  BY DEF Keeps, IsEnd
<1>2. b \in F
  <2>1. F # {} /\ b = CHOOSE c \in F : TRUE
    BY DEF alloc_sdu
  <2> QED
    BY <2>1
<1>3. b \in 1..n /\ v.pool[b] > 0 /\ v.pool[b] \in Nat
  BY <1>1, <1>2
<1>4. b \notin X /\ v.pool[b] = 1
  <2>1. Owners(v, X, b) = 1
    BY <1>3 DEF Keeps
  <2> QED
    BY <1>3, <2>1 DEF Owners
<1>5. w = [v EXCEPT !.pool = [v.pool EXCEPT ![b] = @ - 1]]
  BY DEF Taken
<1> HIDE DEF w, F
<1>6. /\ DOMAIN w = Fields /\ w.pool = [v.pool EXCEPT ![b] = @ - 1]
      /\ \A f \in Fields \ {"pool"} : w[f] = v[f]
  BY <1>1, <1>5 DEF Fields
<1>7. w.rx = v.rx /\ w.tx = v.tx /\ w.lost = v.lost /\ w.data = v.data
  BY <1>6 DEF Fields
<1>8. w.pool \in [1..n -> Nat] /\ \A c \in 1..n : w.pool[c] = IF c = b THEN 0 ELSE v.pool[c]
  <2>1. PICK f, g : f = v.pool /\ g = w.pool
    OBVIOUS
  <2>2. f \in [1..n -> Nat] /\ b \in 1..n /\ f[b] = 1 /\ g = [f EXCEPT ![b] = f[b] - 1]
    BY <1>1, <1>3, <1>4, <1>6, <2>1
  <2>3. g = [f EXCEPT ![b] = 0]
    BY <2>2
  <2>4. g \in [1..n -> Nat] /\ \A c \in 1..n : g[c] = IF c = b THEN 0 ELSE f[c]
    BY <2>2, <2>3, SetCount
  <2> QED
    BY <2>1, <2>4
<1>9. IsEnd(n, w)
  BY <1>6, <1>7, <1>8 DEF Keeps, IsEnd
<1>10. ASSUME NEW c \in 1..n PROVE Owners(w, X \cup {b}, c) = 1
  <2>1. Owners(v, X, c) = 1
    BY DEF Keeps
  <2>2. v.pool[c] \in Nat
    BY <1>1
  <2>3. CASE c = b
    BY <1>4, <1>7, <1>8, <2>1, <2>2, <2>3 DEF Owners
  <2>4. CASE c # b
    BY <1>4, <1>7, <1>8, <2>1, <2>2, <2>4 DEF Owners
  <2> QED
    BY <2>3, <2>4
<1> QED
  BY <1>3, <1>4, <1>6, <1>9, <1>10 DEF Keeps, PoolOnly, w

\* The same, for a buffer that is not among the others in hand.
LEMMA FreeKeepsRest ==
  ASSUME NEW n, NEW v, NEW X, NEW b, b \notin X, Keeps(n, v, X \cup {b})
  PROVE  /\ Keeps(n, free_mbuf(v, b), X)
         /\ PoolOnly(v, free_mbuf(v, b))
<1>1. PICK Y : Y = X \cup {b}
  OBVIOUS
<1>2. b \in Y /\ Keeps(n, v, Y) /\ Y \ {b} = X
  BY <1>1
<1>3. /\ Keeps(n, free_mbuf(v, b), Y \ {b})
      /\ PoolOnly(v, free_mbuf(v, b))
  BY <1>2, FreeKeeps
<1> QED
  BY <1>2, <1>3

\* The host keeps a buffer in hand until there is a credit to send it.
LEMMA TxKeeps ==
  ASSUME NEW n, NEW v, NEW w, NEW X, NEW b, b \notin X, Keeps(n, v, X \cup {b}), v.tx = NULL,
         DOMAIN w = DOMAIN v, w.pool = v.pool, w.rx = v.rx, w.tx = b, w.lost = v.lost,
         w.data \in Nat
  PROVE  Keeps(n, w, X)
<1>1. b \in 1..n /\ NULL \notin 1..n /\ v.pool \in [1..n -> Nat]
  BY DEF Keeps, IsEnd
<1>2. ASSUME NEW c \in 1..n PROVE Owners(w, X, c) = 1
  <2>1. Owners(v, X \cup {b}, c) = 1 /\ v.pool[c] \in Nat /\ c # NULL
    BY <1>1 DEF Keeps
  <2>2. CASE c = b
    BY <2>1, <2>2 DEF Owners
  <2>3. CASE c # b
    BY <2>1, <2>3 DEF Owners
  <2> QED
    BY <2>2, <2>3
<1> QED
  BY <1>1, <1>2 DEF Keeps, IsEnd

\* The host takes a buffer in hand to receive into.
LEMMA RxKeeps ==
  ASSUME NEW n, NEW v, NEW w, NEW X, NEW b, b \notin X, Keeps(n, v, X \cup {b}), v.rx = NULL,
         DOMAIN w = DOMAIN v, w.pool = v.pool, w.tx = v.tx, w.rx = b, w.lost = v.lost,
         w.data \in Nat
  PROVE  Keeps(n, w, X)
<1>1. b \in 1..n /\ NULL \notin 1..n /\ v.pool \in [1..n -> Nat]
  BY DEF Keeps, IsEnd
<1>2. ASSUME NEW c \in 1..n PROVE Owners(w, X, c) = 1
  <2>1. Owners(v, X \cup {b}, c) = 1 /\ v.pool[c] \in Nat /\ c # NULL
    BY <1>1 DEF Keeps
  <2>2. CASE c = b
    BY <2>1, <2>2 DEF Owners
  <2>3. CASE c # b
    BY <2>1, <2>3 DEF Owners
  <2> QED
    BY <2>2, <2>3
<1> QED
  BY <1>1, <1>2 DEF Keeps, IsEnd

\* The receive buffer comes back into hand.
LEMMA RxTaken ==
  ASSUME NEW n, NEW v, NEW w, NEW X, Keeps(n, v, X), v.rx # NULL,
         DOMAIN w = DOMAIN v, w.pool = v.pool, w.tx = v.tx, w.rx = NULL, w.lost = v.lost,
         w.data = v.data
  PROVE  Keeps(n, w, X \cup {v.rx}) /\ v.rx \notin X
<1>1. v.rx \in 1..n /\ NULL \notin 1..n /\ v.pool \in [1..n -> Nat]
  BY DEF Keeps, IsEnd
<1>2. v.rx \notin X
  <2>1. Owners(v, X, v.rx) = 1 /\ v.pool[v.rx] \in Nat
    BY <1>1 DEF Keeps
  <2> QED
    BY <2>1 DEF Owners
<1>3. ASSUME NEW c \in 1..n PROVE Owners(w, X \cup {v.rx}, c) = 1
  <2>1. Owners(v, X, c) = 1 /\ v.pool[c] \in Nat /\ c # NULL
    BY <1>1 DEF Keeps
  <2>2. CASE c = v.rx
    BY <1>2, <2>1, <2>2 DEF Owners
  <2>3. CASE c # v.rx
    BY <2>1, <2>3 DEF Owners
  <2> QED
    BY <2>2, <2>3
<1> QED
  BY <1>1, <1>2, <1>3 DEF Keeps, IsEnd

\* With three buffers, one of them in dispatch and one waiting to be sent, one
\* is left.
LEMMA Room ==
  ASSUME NEW n, NEW v, NEW X, NEW x, Keeps(n, v, X), n >= 3, v.rx = NULL, v.lost = {},
         X \subseteq {x}
  PROVE  alloc_sdu(v) # NULL
<1>1. n \in Nat /\ NULL \notin 1..n /\ v.pool \in [1..n -> Nat]
  BY DEF Keeps, IsEnd
<1>2. PICK b \in {1, 2, 3} : b # v.tx /\ b # x
  OBVIOUS
<1>3. b \in 1..n
  BY <1>1, <1>2
<1>4. v.pool[b] = 1
  <2>1. Owners(v, X, b) = 1 /\ v.pool[b] \in Nat /\ b # NULL
    BY <1>1, <1>3 DEF Keeps
  <2> QED
    BY <1>2, <2>1 DEF Owners
<1> DEFINE F == {c \in DOMAIN v.pool : v.pool[c] > 0}
<1>5. b \in F /\ F \subseteq 1..n
  BY <1>1, <1>3, <1>4
<1>6. alloc_sdu(v) \in F
  <2> HIDE DEF F
  <2>1. alloc_sdu(v) = CHOOSE c \in F : TRUE
    BY <1>5 DEF alloc_sdu, F
  <2> QED
    BY <1>5, <2>1
<1> HIDE DEF F
<1> QED
  BY <1>1, <1>5, <1>6

-----------------------------------------------------------------------------
(* The calls.                                                              *)

\* A send took the buffer b in hand unless its code says that it did not.
Sent(n, X, b, v, r) ==
  /\ r.rc \in {"EBADDATA", "EBUSY"} => Outcome(n, X \cup {b}, v, r)
  /\ r.rc \notin {"EBADDATA", "EBUSY"} => Outcome(n, X, v, r)
  /\ r.dev.rx = v.rx /\ r.dev.unarmed = v.unarmed

\* What ble_l2cap_send does.
LEMMA HostSend ==
  ASSUME NEW n, NEW v, NEW X, NEW b, NEW m, Sendable(m), b \notin X,
         Keeps(n, v, X \cup {b}), NEW r \in ble_l2cap_send(v, b, m)
  PROVE  Sent(n, X, b, v, r)
<1>0. DOMAIN v = Fields /\ v.data \in Nat
  BY DEF Keeps, IsEnd
<1>1. ASSUME NEW w, NEW rc, NEW o \in Seq(Reply), NEW f \in Nat, r = Result(w, rc, o, f)
      PROVE  IsResult(r) /\ r.dev = w /\ r.rc = rc
  BY <1>1 DEF Result, IsResult
<1>2. << >> \in Seq(Reply) /\ <<Msg("sdu", m)>> \in Seq(Reply) /\ m \in Nat
  <2>1. m \in Nat /\ Msg("sdu", m) \in Reply
    BY DEF Sendable, Msg, Reply
  <2> QED
    BY <2>1
<1>3. CASE r = Result(v, "EBUSY", << >>, 0) \/ r = Result(v, "EBADDATA", << >>, 1)
  <2>1. IsResult(r) /\ r.dev = v /\ r.rc \in {"EBADDATA", "EBUSY"}
    BY <1>1, <1>2, <1>3
  <2> QED
    BY <2>1 DEF Sent, Outcome, Same
<1>4. CASE v.tx = NULL /\ r = Result([v EXCEPT !.tx = b, !.data = m], "ESTALLED", << >>, 0)
  <2> DEFINE w == [v EXCEPT !.tx = b, !.data = m]
  <2>1. /\ DOMAIN w = DOMAIN v /\ w.pool = v.pool /\ w.rx = v.rx /\ w.tx = b /\ w.lost = v.lost
        /\ w.data = m /\ w.hooked = v.hooked /\ w.chan = v.chan /\ w.unarmed = v.unarmed
    BY <1>0 DEF Fields
  <2>2. IsResult(r) /\ r.dev = w /\ r.rc = "ESTALLED"
    BY <1>1, <1>2, <1>4
  <2> HIDE DEF w
  <2>3. Keeps(n, w, X)
    BY <1>2, <1>4, <2>1, TxKeeps
  <2> QED
    BY <2>1, <2>2, <2>3 DEF Sent, Outcome, Same
<1>5. CASE r = Result(free_mbuf([v EXCEPT !.credits = @ - 1], b), "OK", <<Msg("sdu", m)>>, 0)
  <2> DEFINE u == [v EXCEPT !.credits = @ - 1]
             w == free_mbuf(u, b)
  <2>1. /\ DOMAIN u = DOMAIN v /\ u.pool = v.pool /\ u.rx = v.rx /\ u.tx = v.tx /\ u.lost = v.lost
        /\ u.data = v.data /\ u.hooked = v.hooked /\ u.chan = v.chan /\ u.unarmed = v.unarmed
    BY <1>0 DEF Fields
  <2>2. IsResult(r) /\ r.dev = w /\ r.rc = "OK"
    BY <1>1, <1>2, <1>5
  <2> HIDE DEF u
  <2>3. Keeps(n, u, X \cup {b})
    BY <1>0, <2>1, KeepsFrame
  <2>4. Keeps(n, w, X) /\ PoolOnly(u, w)
    BY <2>3, FreeKeepsRest
  <2> HIDE DEF w
  <2>5. w.rx = v.rx /\ w.lost = v.lost /\ w.hooked = v.hooked /\ w.chan = v.chan /\ w.unarmed = v.unarmed
    BY <2>1, <2>4 DEF PoolOnly, Fields
  <2> QED
    BY <2>2, <2>4, <2>5 DEF Sent, Outcome, Same
<1>6. CASE r = Result(free_mbuf(v, b), "ENOTCONN", << >>, 1)
  <2> DEFINE w == free_mbuf(v, b)
  <2>1. IsResult(r) /\ r.dev = w /\ r.rc = "ENOTCONN"
    BY <1>1, <1>2, <1>6
  <2>2. /\ Keeps(n, free_mbuf(v, b), X)
        /\ PoolOnly(v, free_mbuf(v, b))
    BY FreeKeepsRest
  <2> HIDE DEF w
  <2>3. Keeps(n, w, X) /\ w.rx = v.rx /\ w.unarmed = v.unarmed /\ Same(v, w)
    BY <2>2 DEF w, Same, PoolOnly, Fields
  <2> QED
    BY <2>1, <2>2, <2>3 DEF Sent, Outcome, Same
<1> QED
  BY <1>3, <1>4, <1>5, <1>6 DEF ble_l2cap_send

\* ble_l2cap_recv_ready takes the buffer unless there is one already.
LEMMA HostRecvReady ==
  ASSUME NEW n, NEW v, NEW X, NEW b, b \notin X, Keeps(n, v, X \cup {b}),
         NEW r \in ble_l2cap_recv_ready(v, b)
  PROVE  /\ r.rc \in {"EBUSY", "EINVAL"} => Outcome(n, X \cup {b}, v, r)
         /\ r.rc \notin {"EBUSY", "EINVAL"} => Outcome(n, X, v, r)
         /\ r.dev.unarmed = v.unarmed
         /\ v.rx = NULL /\ r.faults = 0 => r.rc = "OK"
<1>0. DOMAIN v = Fields /\ v.data \in Nat
  BY DEF Keeps, IsEnd
<1>1. ASSUME NEW w, NEW rc, NEW o \in Seq(Reply), NEW f \in Nat, r = Result(w, rc, o, f)
      PROVE  IsResult(r) /\ r.dev = w /\ r.rc = rc /\ r.faults = f
  BY <1>1 DEF Result, IsResult
<1>2. << >> \in Seq(Reply) /\ <<Msg("credit", 1)>> \in Seq(Reply)
  <2>1. Msg("credit", 1) \in Reply
    BY DEF Msg, Reply
  <2> QED
    BY <2>1
<1>3. CASE v.rx # NULL
  <2>1. r = Result(v, "EBUSY", << >>, 0)
    BY <1>3 DEF ble_l2cap_recv_ready
  <2>2. IsResult(r) /\ r.dev = v /\ r.rc = "EBUSY"
    BY <1>1, <1>2, <2>1
  <2> QED
    BY <1>3, <2>2 DEF Outcome, Same
<1>4. CASE v.rx = NULL
  <2> DEFINE w == [v EXCEPT !.rx = b]
  <2>1. /\ DOMAIN w = DOMAIN v /\ w.pool = v.pool /\ w.tx = v.tx /\ w.rx = b /\ w.lost = v.lost
        /\ w.data = v.data /\ w.unarmed = v.unarmed /\ Same(v, w)
    BY <1>0 DEF Fields, Same
  <2>2. PICK o \in Seq(Reply) : \/ r = Result(w, "OK", o, 0)
                               \/ r = Result(w, "ENOENT", o, 1)
    BY <1>2, <1>4 DEF ble_l2cap_recv_ready
  <2> HIDE DEF w
  <2>3. Keeps(n, w, X)
    BY <1>0, <1>4, <2>1, RxKeeps
  <2>4. CASE r = Result(w, "OK", o, 0)
    <3>1. IsResult(r) /\ r.dev = w /\ r.rc = "OK"
      BY <1>1, <2>4
    <3> QED
      BY <2>1, <2>3, <3>1 DEF Outcome
  <2>5. CASE r = Result(w, "ENOENT", o, 1)
    <3>1. IsResult(r) /\ r.dev = w /\ r.rc = "ENOENT" /\ r.faults = 1
      BY <1>1, <2>5
    <3> QED
      BY <2>1, <2>3, <3>1 DEF Outcome
  <2> QED
    BY <2>2, <2>4, <2>5
<1> QED
  BY <1>3, <1>4

\* The wrapper gives back what the host did not take.
LEMMA GivenBack ==
  ASSUME NEW n, NEW v, NEW X, NEW b, NEW r, NEW s, b \notin X, Outcome(n, X \cup {b}, v, r),
         DOMAIN s = DOMAIN r, s.dev = free_mbuf(r.dev, b), s.out = r.out, s.faults = r.faults
  PROVE  Outcome(n, X, v, s) /\ PoolOnly(r.dev, s.dev)
<1>1. DOMAIN r = {"dev", "rc", "out", "faults"} /\ Keeps(n, r.dev, X \cup {b})
  BY DEF Outcome, IsResult
<1>3. PICK u : u = r.dev
  OBVIOUS
<1>4. Keeps(n, free_mbuf(u, b), X) /\ PoolOnly(u, free_mbuf(u, b))
  BY <1>1, <1>3, FreeKeepsRest
<1>5. Same(u, free_mbuf(u, b))
  BY <1>4 DEF Same, PoolOnly, Fields
<1> QED
  BY <1>3, <1>4, <1>5 DEF Outcome, IsResult, Same

\* l2cap_send, whatever comes of it, leaves the buffers in hand as they were.
LEMMA SendOutcome ==
  ASSUME NEW n, NEW v, NEW X, NEW m, Sendable(m), Keeps(n, v, X),
         NEW r \in l2cap_send(v, m)
  PROVE  Outcome(n, X, v, r) /\ r.dev.rx = v.rx /\ r.dev.unarmed = v.unarmed
<1>1. PICK b : b = alloc_sdu(v)
  OBVIOUS
<1>2. CASE b = NULL
  <2>1. r = Result(v, "ENOMEM", << >>, 0)
    BY <1>1, <1>2 DEF l2cap_send
  <2> QED
    BY <2>1 DEF Outcome, Same, IsResult, Result
<1>3. CASE b # NULL
  <2>1. PICK u : u = Taken(v, b)
    OBVIOUS
  <2>2. b \notin X /\ Keeps(n, u, X \cup {b}) /\ PoolOnly(v, u)
    BY <1>1, <1>3, <2>1, AllocKeeps
  <2>3. u.rx = v.rx /\ u.unarmed = v.unarmed /\ Same(v, u)
    BY <2>2 DEF PoolOnly, Fields, Same
  <2>4. PICK s \in ble_l2cap_send(u, b, m) :
          r = IF s.rc \in {"EBADDATA", "EBUSY"} THEN [s EXCEPT !.dev = free_mbuf(@, b)] ELSE s
    BY <1>1, <1>3, <2>1 DEF l2cap_send
  <2>5. /\ s.rc \in {"EBADDATA", "EBUSY"} => Outcome(n, X \cup {b}, u, s)
        /\ s.rc \notin {"EBADDATA", "EBUSY"} => Outcome(n, X, u, s)
        /\ s.dev.rx = u.rx /\ s.dev.unarmed = u.unarmed
    <3>1. Sent(n, X, b, u, s)
      BY <2>2, HostSend
    <3> QED
      BY <3>1 DEF Sent
  <2>6. CASE s.rc \in {"EBADDATA", "EBUSY"}
    <3>1. Outcome(n, X \cup {b}, u, s)
      BY <2>5, <2>6
    <3>2. DOMAIN s = {"dev", "rc", "out", "faults"} /\ r = [s EXCEPT !.dev = free_mbuf(@, b)]
      BY <2>4, <2>6, <3>1 DEF Outcome, IsResult
    <3>3. /\ DOMAIN r = DOMAIN s /\ r.dev = free_mbuf(s.dev, b) /\ r.rc = s.rc
          /\ r.out = s.out /\ r.faults = s.faults
      BY <3>2
    <3>4. Outcome(n, X, u, r) /\ PoolOnly(s.dev, r.dev)
      BY <2>2, <3>1, <3>3, GivenBack
    <3>5. r.dev.rx = s.dev.rx /\ r.dev.unarmed = s.dev.unarmed
      BY <3>4 DEF PoolOnly, Fields
    <3> QED
      BY <2>3, <2>5, <3>3, <3>4, <3>5 DEF Outcome, Same
  <2>7. CASE s.rc \notin {"EBADDATA", "EBUSY"}
    BY <2>3, <2>4, <2>5, <2>7 DEF Outcome, Same
  <2> QED
    BY <2>6, <2>7
<1> QED
  BY <1>2, <1>3

\* So does l2cap_recv_ready, which fails for want of a buffer only if more than
\* one is in hand.
LEMMA RecvReadyOutcome ==
  ASSUME NEW n, NEW v, NEW X, NEW x, X \subseteq {x}, Keeps(n, v, X),
         NEW r \in l2cap_recv_ready(v)
  PROVE  /\ Outcome(n, X, v, r) /\ r.dev.unarmed = v.unarmed
         /\ n >= 3 /\ v.rx = NULL /\ v.lost = {} /\ r.faults = 0 => r.rc = "OK"
<1>1. PICK b : b = alloc_sdu(v)
  OBVIOUS
<1>2. CASE b = NULL
  <2>1. r = Result(v, "ENOMEM", << >>, 0)
    BY <1>1, <1>2 DEF l2cap_recv_ready
  <2>2. ~(n >= 3 /\ v.rx = NULL /\ v.lost = {})
    BY <1>1, <1>2, Room
  <2> QED
    BY <2>1, <2>2 DEF Outcome, Same, IsResult, Result
<1>3. CASE b # NULL
  <2>1. PICK u : u = Taken(v, b)
    OBVIOUS
  <2>2. b \notin X /\ Keeps(n, u, X \cup {b}) /\ PoolOnly(v, u)
    BY <1>1, <1>3, <2>1, AllocKeeps
  <2>3. u.rx = v.rx /\ u.unarmed = v.unarmed /\ Same(v, u)
    BY <2>2 DEF PoolOnly, Fields, Same
  <2>4. PICK s \in ble_l2cap_recv_ready(u, b) :
          r = IF s.rc \in {"EBUSY", "EINVAL"} THEN [s EXCEPT !.dev = free_mbuf(@, b)] ELSE s
    BY <1>1, <1>3, <2>1 DEF l2cap_recv_ready
  <2>5. /\ s.rc \in {"EBUSY", "EINVAL"} => Outcome(n, X \cup {b}, u, s)
        /\ s.rc \notin {"EBUSY", "EINVAL"} => Outcome(n, X, u, s)
        /\ s.dev.unarmed = u.unarmed /\ (u.rx = NULL /\ s.faults = 0 => s.rc = "OK")
    BY <2>2, HostRecvReady
  <2>6. CASE s.rc \in {"EBUSY", "EINVAL"}
    <3>1. Outcome(n, X \cup {b}, u, s)
      BY <2>5, <2>6
    <3>2. DOMAIN s = {"dev", "rc", "out", "faults"} /\ r = [s EXCEPT !.dev = free_mbuf(@, b)]
      BY <2>4, <2>6, <3>1 DEF Outcome, IsResult
    <3>3. /\ DOMAIN r = DOMAIN s /\ r.dev = free_mbuf(s.dev, b) /\ r.rc = s.rc
          /\ r.out = s.out /\ r.faults = s.faults
      BY <3>2
    <3>4. Outcome(n, X, u, r) /\ PoolOnly(s.dev, r.dev)
      BY <2>2, <3>1, <3>3, GivenBack
    <3>5. r.dev.unarmed = s.dev.unarmed
      BY <3>4 DEF PoolOnly, Fields
    <3> QED
      BY <2>3, <2>5, <3>3, <3>4, <3>5 DEF Outcome, Same
  <2>7. CASE s.rc \notin {"EBUSY", "EINVAL"}
    BY <2>3, <2>4, <2>5, <2>7 DEF Outcome, Same
  <2> QED
    BY <2>6, <2>7
<1> QED
  BY <1>2, <1>3

\* A connect of v that leaves X in hand: it opened a channel, or it did not and
\* may have given a buffer up.
Connected(n, X, v, r) ==
  /\ DOMAIN r = {"dev", "rc", "out", "faults"} /\ r.faults \in Nat
  /\ Keeps(n, r.dev, X)
  /\ r.dev.hooked = v.hooked /\ r.dev.unarmed = v.unarmed
  /\ \/ /\ r.rc = "OK" /\ r.out = <<Msg("req", 1)>>
        /\ r.dev.lost = v.lost /\ r.dev.chan = "opening"
     \/ /\ r.rc # "OK" /\ r.out = << >>
        /\ r.dev.chan = v.chan /\ r.dev.rx = v.rx

\* A buffer in hand is given up.
LEMMA LostKeeps ==
  ASSUME NEW n, NEW v, NEW w, NEW X, NEW b, b \notin X, Keeps(n, v, X \cup {b}),
         DOMAIN w = DOMAIN v, w.pool = v.pool, w.rx = v.rx, w.tx = v.tx,
         w.lost = v.lost \cup {b}, w.data = v.data
  PROVE  Keeps(n, w, X)
<1>1. b \in 1..n /\ v.pool \in [1..n -> Nat]
  BY DEF Keeps, IsEnd
<1>2. ASSUME NEW c \in 1..n PROVE Owners(w, X, c) = 1
  <2>1. Owners(v, X \cup {b}, c) = 1 /\ v.pool[c] \in Nat
    BY <1>1 DEF Keeps
  <2>2. CASE c = b
    BY <2>1, <2>2 DEF Owners
  <2>3. CASE c # b
    BY <2>1, <2>3 DEF Owners
  <2> QED
    BY <2>2, <2>3
<1> QED
  BY <1>1, <1>2 DEF Keeps, IsEnd

\* ble_l2cap_connect returns the buffer only with ENOTCONN.
LEMMA HostConnect ==
  ASSUME NEW n, NEW v, NEW b, b \notin {}, Keeps(n, v, {} \cup {b}), v.rx = NULL,
         NEW r \in ble_l2cap_connect(v, b)
  PROVE  /\ r.rc = "ENOTCONN" => Connected(n, {} \cup {b}, v, r)
         /\ r.rc # "ENOTCONN" => r.rc \in {"OK", "ENOMEM"} /\ Connected(n, {}, v, r)
<1>0. DOMAIN v = Fields /\ v.data \in Nat
  BY DEF Keeps, IsEnd
<1>1. ASSUME NEW w, NEW rc, NEW o, NEW f \in Nat, r = Result(w, rc, o, f)
      PROVE  /\ DOMAIN r = {"dev", "rc", "out", "faults"} /\ r.faults \in Nat
             /\ r.dev = w /\ r.rc = rc /\ r.out = o
  BY <1>1 DEF Result
<1>2. CASE r = Result(v, "ENOTCONN", << >>, 0)
  <2>1. /\ DOMAIN r = {"dev", "rc", "out", "faults"} /\ r.faults \in Nat
        /\ r.dev = v /\ r.rc = "ENOTCONN" /\ r.out = << >>
    BY <1>1, <1>2
  <2> QED
    BY <2>1 DEF Connected
<1>3. CASE r = Result([v EXCEPT !.chan = "opening", !.rx = b], "OK", <<Msg("req", 1)>>, 0)
  <2> DEFINE w == [v EXCEPT !.chan = "opening", !.rx = b]
  <2>1. /\ DOMAIN w = DOMAIN v /\ w.pool = v.pool /\ w.tx = v.tx /\ w.rx = b /\ w.lost = v.lost
        /\ w.data = v.data /\ w.unarmed = v.unarmed /\ w.hooked = v.hooked /\ w.chan = "opening"
    BY <1>0 DEF Fields
  <2>2. /\ DOMAIN r = {"dev", "rc", "out", "faults"} /\ r.faults \in Nat
        /\ r.dev = w /\ r.rc = "OK" /\ r.out = <<Msg("req", 1)>>
    BY <1>1, <1>3
  <2> HIDE DEF w
  <2>3. Keeps(n, w, {})
    BY <1>0, <2>1, RxKeeps
  <2> QED
    BY <2>1, <2>2, <2>3 DEF Connected
<1>4. CASE r = Result([v EXCEPT !.lost = @ \cup {b}], "ENOMEM", << >>, 1)
  <2> DEFINE w == [v EXCEPT !.lost = @ \cup {b}]
  <2>1. /\ DOMAIN w = DOMAIN v /\ w.pool = v.pool /\ w.tx = v.tx /\ w.rx = v.rx
        /\ w.lost = v.lost \cup {b} /\ w.data = v.data /\ w.unarmed = v.unarmed
        /\ w.hooked = v.hooked /\ w.chan = v.chan
    BY <1>0 DEF Fields
  <2>2. /\ DOMAIN r = {"dev", "rc", "out", "faults"} /\ r.faults \in Nat
        /\ r.dev = w /\ r.rc = "ENOMEM" /\ r.out = << >>
    BY <1>1, <1>4
  <2> HIDE DEF w
  <2>3. Keeps(n, w, {})
    BY <2>1, LostKeeps
  <2> QED
    BY <2>1, <2>2, <2>3 DEF Connected
<1>5. CASE r = Result(free_mbuf(v, b), "ENOMEM", << >>, 1)
  <2> DEFINE w == free_mbuf(v, b)
  <2>1. /\ DOMAIN r = {"dev", "rc", "out", "faults"} /\ r.faults \in Nat
        /\ r.dev = w /\ r.rc = "ENOMEM" /\ r.out = << >>
    BY <1>1, <1>5
  <2>2. Keeps(n, w, {}) /\ PoolOnly(v, w)
    BY FreeKeepsRest
  <2> HIDE DEF w
  <2>3. w.unarmed = v.unarmed /\ w.hooked = v.hooked /\ w.chan = v.chan /\ w.rx = v.rx
    BY <2>2 DEF PoolOnly, Fields
  <2> QED
    BY <2>1, <2>2, <2>3 DEF Connected
<1> QED
  BY <1>2, <1>3, <1>4, <1>5 DEF ble_l2cap_connect

\* l2cap_connect leaves no buffer in hand.
LEMMA ConnectOutcome ==
  ASSUME NEW n, NEW v, Keeps(n, v, {}), v.rx = NULL, NEW r \in l2cap_connect(v)
  PROVE  Connected(n, {}, v, r)
<1>1. PICK b : b = alloc_sdu(v)
  OBVIOUS
<1>2. CASE b = NULL
  <2>1. r = Result(v, "ENOMEM", << >>, 0)
    BY <1>1, <1>2 DEF l2cap_connect
  <2> QED
    BY <2>1 DEF Connected, Result
<1>3. CASE b # NULL
  <2>1. PICK u : u = Taken(v, b)
    OBVIOUS
  <2>2. b \notin {} /\ Keeps(n, u, {} \cup {b}) /\ PoolOnly(v, u)
    BY <1>1, <1>3, <2>1, AllocKeeps
  <2>3. /\ u.rx = v.rx /\ u.unarmed = v.unarmed /\ u.lost = v.lost /\ u.hooked = v.hooked
        /\ u.chan = v.chan
    BY <2>2 DEF PoolOnly, Fields
  <2>4. PICK s \in ble_l2cap_connect(u, b) :
          r = IF s.rc \in {"ENOTCONN", "EINVAL"} THEN [s EXCEPT !.dev = free_mbuf(@, b)] ELSE s
    BY <1>1, <1>3, <2>1 DEF l2cap_connect
  <2>5. /\ s.rc = "ENOTCONN" => Connected(n, {} \cup {b}, u, s)
        /\ s.rc # "ENOTCONN" => s.rc \in {"OK", "ENOMEM"} /\ Connected(n, {}, u, s)
    BY <2>2, <2>3, HostConnect
  <2>6. CASE s.rc = "ENOTCONN"
    <3>1. Connected(n, {} \cup {b}, u, s)
      BY <2>5, <2>6
    <3>2. /\ DOMAIN s = {"dev", "rc", "out", "faults"} /\ r = [s EXCEPT !.dev = free_mbuf(@, b)]
          /\ s.out = << >> /\ s.faults \in Nat
          /\ s.dev.hooked = u.hooked /\ s.dev.unarmed = u.unarmed
          /\ s.dev.chan = u.chan /\ s.dev.rx = u.rx
      BY <2>4, <2>6, <3>1 DEF Connected
    <3>3. PICK w : w = s.dev
      OBVIOUS
    <3>4. /\ DOMAIN r = DOMAIN s /\ r.dev = free_mbuf(w, b) /\ r.rc = s.rc
          /\ r.out = s.out /\ r.faults = s.faults
      BY <3>2, <3>3
    <3>5. Keeps(n, w, {} \cup {b})
      BY <3>1, <3>3 DEF Connected
    <3>6. Keeps(n, free_mbuf(w, b), {}) /\ PoolOnly(w, free_mbuf(w, b))
      BY <2>2, <3>5, FreeKeepsRest
    <3>7. /\ Keeps(n, r.dev, {})
          /\ r.dev.hooked = w.hooked /\ r.dev.unarmed = w.unarmed
          /\ r.dev.chan = w.chan /\ r.dev.rx = w.rx
      BY <3>4, <3>6 DEF PoolOnly, Fields
    <3> QED
      BY <2>3, <2>6, <3>2, <3>3, <3>4, <3>7 DEF Connected
  <2>7. CASE s.rc # "ENOTCONN"
    <3>1. r = s /\ Connected(n, {}, u, s)
      BY <2>4, <2>5, <2>7
    <3> QED
      BY <2>3, <3>1 DEF Connected
  <2> QED
    BY <2>6, <2>7
<1> QED
  BY <1>2, <1>3

-----------------------------------------------------------------------------
(* The hook and the event callback.                                        *)

\* A hook that answers an Accept.
LEMMA AcceptGood ==
  ASSUME NEW n, NEW v, Keeps(n, v, {}), v.rx = NULL
  PROVE  AllGood(n, {}, v, OnAccept(v))
<1> SUFFICES ASSUME NEW s \in OnAccept(v) PROVE Good(n, {}, v, s)
  BY DEF AllGood
<1>1. PICK r \in l2cap_recv_ready(v) :
        s = IF r.rc = "OK" THEN [r EXCEPT !.dev.CHAN = TRUE]
            ELSE [r EXCEPT !.dev.unarmed = TRUE, !.rc = "rejected"]
  BY DEF OnAccept
<1>2. /\ Outcome(n, {}, v, r) /\ r.dev.unarmed = v.unarmed
      /\ n >= 3 /\ v.rx = NULL /\ v.lost = {} /\ r.faults = 0 => r.rc = "OK"
  BY RecvReadyOutcome
<1>3. PICK u : u = r.dev
  OBVIOUS
<1>4. /\ DOMAIN r = {"dev", "rc", "out", "faults"} /\ DOMAIN u = Fields /\ Keeps(n, u, {})
      /\ u.data \in Nat /\ r.faults \in Nat /\ r.out \in Seq(Reply)
  BY <1>2, <1>3 DEF Outcome, IsResult, Keeps, IsEnd
<1>5. CASE r.rc = "OK"
  <2> DEFINE w == [u EXCEPT !.CHAN = TRUE]
  <2>1. s = [r EXCEPT !.dev = w]
    BY <1>1, <1>3, <1>5
  <2>2. /\ DOMAIN w = DOMAIN u /\ w.pool = u.pool /\ w.rx = u.rx /\ w.tx = u.tx
        /\ w.lost = u.lost /\ w.data = u.data /\ w.unarmed = u.unarmed /\ Same(u, w)
    BY <1>4 DEF Fields, Same
  <2> HIDE DEF w
  <2>3. DOMAIN s = DOMAIN r /\ s.dev = w /\ s.out = r.out /\ s.faults = r.faults
    BY <1>4, <2>1
  <2>4. Keeps(n, w, {})
    BY <1>4, <2>2, KeepsFrame
  <2> QED
    BY <1>2, <1>3, <1>4, <2>2, <2>3, <2>4 DEF Good, Calm, Outcome, IsResult, Same
<1>6. CASE r.rc # "OK"
  <2> DEFINE w == [u EXCEPT !.unarmed = TRUE]
  <2>1. s = [r EXCEPT !.dev = w, !.rc = "rejected"]
    BY <1>1, <1>3, <1>6
  <2>2. /\ DOMAIN w = DOMAIN u /\ w.pool = u.pool /\ w.rx = u.rx /\ w.tx = u.tx
        /\ w.lost = u.lost /\ w.data = u.data /\ Same(u, w)
    BY <1>4 DEF Fields, Same
  <2> HIDE DEF w
  <2>3. DOMAIN s = DOMAIN r /\ s.dev = w /\ s.out = r.out /\ s.faults = r.faults
    BY <1>4, <2>1
  <2>4. Keeps(n, w, {})
    BY <1>4, <2>2, KeepsFrame
  <2> QED
    BY <1>2, <1>3, <1>4, <1>6, <2>2, <2>3, <2>4 DEF Good, Calm, Outcome, IsResult, Same
<1> QED
  BY <1>5, <1>6

\* A status event: nothing but CHAN changes.
LEMMA StatusGood ==
  ASSUME NEW n, NEW v, NEW x, NEW X, Keeps(n, v, X)
  PROVE  AllGood(n, X, v, {Result([v EXCEPT !.CHAN = x], "OK", << >>, 0)})
<1> DEFINE w == [v EXCEPT !.CHAN = x]
           r == Result(w, "OK", << >>, 0)
<1>1. DOMAIN v = Fields /\ v.data \in Nat
  BY DEF Keeps, IsEnd
<1>2. /\ DOMAIN w = DOMAIN v /\ w.pool = v.pool /\ w.rx = v.rx /\ w.tx = v.tx
      /\ w.lost = v.lost /\ w.data = v.data /\ w.unarmed = v.unarmed /\ Same(v, w)
  BY <1>1 DEF Fields, Same
<1> HIDE DEF w
<1>3. Keeps(n, w, X)
  BY <1>1, <1>2, KeepsFrame
<1>4. r.dev = w /\ IsResult(r)
  BY DEF Result, IsResult
<1> HIDE DEF r
<1>5. Good(n, X, v, r)
  BY <1>2, <1>3, <1>4 DEF Good, Calm, Outcome
<1> QED
  BY <1>5 DEF AllGood, r, w

\* An event that changes nothing.
LEMMA QuietGood ==
  ASSUME NEW n, NEW v, NEW X, Keeps(n, v, X)
  PROVE  AllGood(n, X, v, {Result(v, "OK", << >>, 0)})
<1> DEFINE r == Result(v, "OK", << >>, 0)
<1>1. r.dev = v /\ IsResult(r)
  BY DEF Result, IsResult
<1> HIDE DEF r
<1>2. Good(n, X, v, r)
  BY <1>1 DEF Good, Calm, Outcome, Same
<1> QED
  BY <1>2 DEF AllGood, r

\* The results of two calls in a row.
LEMMA ThenResult ==
  ASSUME NEW r, NEW s, IsResult(r), IsResult(s)
  PROVE  /\ IsResult(Then(r, s)) /\ Then(r, s).dev = s.dev /\ Then(r, s).rc = s.rc
         /\ Then(r, s).out = r.out \o s.out /\ Then(r, s).faults = r.faults + s.faults
<1>1. r.out \o s.out \in Seq(Reply) /\ r.faults + s.faults \in Nat
  BY DEF IsResult
<1>2. Then(r, s) = [s EXCEPT !.out = r.out \o s.out, !.faults = r.faults + s.faults]
  BY DEF Then
<1> QED
  BY <1>1, <1>2 DEF IsResult

\* A received SDU: what comes of the echo leaves the channel without a receive
\* buffer, and one is free for it.
LEMMA ReceivedGood ==
  ASSUME NEW n, NEW d, NEW v, NEW X, NEW x, X \subseteq {x}, NEW m, Sendable(m),
         Keeps(n, v, X), v.rx = NULL
  PROVE  AllGood(n, X, v, OnReceived(d, v, m))
<1> SUFFICES ASSUME NEW s \in OnReceived(d, v, m) PROVE Good(n, X, v, s)
  BY DEF AllGood
<1> DEFINE E == IF d = "server" THEN server_driver_echo(v, m) ELSE {Result(v, "OK", << >>, 0)}
<1>1. PICK e \in E : s \in {[Then(e, r) EXCEPT !.dev = Armed(@, r.rc), !.rc = "OK"]
                               : r \in l2cap_recv_ready(Refused(e.dev, m, e.rc))}
  BY DEF OnReceived
<1>2. Outcome(n, X, v, e) /\ e.dev.rx = v.rx /\ e.dev.unarmed = v.unarmed
  <2>1. CASE d = "server"
    <3>1. e \in l2cap_send(v, m)
      BY <2>1 DEF server_driver_echo
    <3> QED
      BY <3>1, SendOutcome
  <2>2. CASE d # "server"
    <3>1. e = Result(v, "OK", << >>, 0)
      BY <2>2
    <3> QED
      BY <3>1 DEF Outcome, Same, IsResult, Result
  <2> QED
    BY <2>1, <2>2
<1> HIDE DEF E
<1>3. PICK u : u = Refused(e.dev, m, e.rc)
  OBVIOUS
<1>4. Keeps(n, u, X) /\ Same(v, u) /\ u.rx = NULL /\ u.unarmed = v.unarmed
  <2>1. PICK w : w = e.dev
    OBVIOUS
  <2>2. /\ Keeps(n, w, X) /\ Same(v, w) /\ w.rx = NULL /\ w.unarmed = v.unarmed
        /\ DOMAIN w = Fields /\ w.data \in Nat
    BY <1>2, <2>1 DEF Outcome, Keeps, IsEnd
  <2>3. CASE u = w
    BY <2>2, <2>3
  <2>4. CASE u = [w EXCEPT !.dropped = @ \cup {m}]
    <3>1. /\ DOMAIN u = DOMAIN w /\ u.pool = w.pool /\ u.rx = w.rx /\ u.tx = w.tx
          /\ u.lost = w.lost /\ u.data = w.data /\ u.unarmed = w.unarmed /\ Same(w, u)
      BY <2>2, <2>4 DEF Fields, Same
    <3>2. Keeps(n, u, X)
      BY <2>2, <3>1, KeepsFrame
    <3> QED
      BY <2>2, <3>1, <3>2 DEF Same
  <2> QED
    BY <1>3, <2>1, <2>3, <2>4 DEF Refused
<1>5. PICK r \in l2cap_recv_ready(u) : s = [Then(e, r) EXCEPT !.dev = Armed(@, r.rc), !.rc = "OK"]
  BY <1>1, <1>3
<1>6. /\ Outcome(n, X, u, r) /\ r.dev.unarmed = u.unarmed
      /\ n >= 3 /\ u.rx = NULL /\ u.lost = {} /\ r.faults = 0 => r.rc = "OK"
  BY <1>4, RecvReadyOutcome
<1>7. PICK t : t = Then(e, r)
  OBVIOUS
<1>8. IsResult(e) /\ IsResult(r) /\ e.faults \in Nat /\ r.faults \in Nat
  BY <1>2, <1>6 DEF Outcome, IsResult
<1>9. IsResult(t) /\ t.dev = r.dev /\ t.faults = e.faults + r.faults
  BY <1>7, <1>8, ThenResult
<1>10. PICK w : w = Armed(r.dev, r.rc)
  OBVIOUS
<1>11. DOMAIN s = DOMAIN t /\ s.dev = w /\ s.out = t.out /\ s.faults = t.faults
  BY <1>5, <1>7, <1>9, <1>10 DEF IsResult
<1>12. Keeps(n, w, X) /\ Same(u, w) /\ (r.rc = "OK" => w.unarmed = u.unarmed)
  <2>1. PICK y : y = r.dev
    OBVIOUS
  <2>2. /\ Keeps(n, y, X) /\ Same(u, y) /\ y.unarmed = u.unarmed
        /\ DOMAIN y = Fields /\ y.data \in Nat
    BY <1>6, <2>1 DEF Outcome, Keeps, IsEnd
  <2>3. CASE r.rc = "OK"
    BY <1>10, <2>1, <2>2, <2>3 DEF Armed
  <2>4. CASE r.rc # "OK"
    <3>0. w = [y EXCEPT !.unarmed = TRUE]
      BY <1>10, <2>1, <2>4 DEF Armed
    <3>1. /\ DOMAIN w = DOMAIN y /\ w.pool = y.pool /\ w.rx = y.rx /\ w.tx = y.tx
          /\ w.lost = y.lost /\ w.data = y.data /\ Same(y, w)
      BY <2>2, <3>0 DEF Fields, Same
    <3>2. Keeps(n, w, X)
      BY <2>2, <3>1, KeepsFrame
    <3> QED
      BY <2>2, <2>4, <3>1, <3>2 DEF Same
  <2> QED
    BY <2>3, <2>4
<1>13. Outcome(n, X, v, s)
  BY <1>4, <1>9, <1>11, <1>12 DEF Outcome, IsResult, Same
<1>14. Calm(n, v, s)
  <2> SUFFICES ASSUME n >= 3, v.lost = {}, v.hooked, s.faults = 0
               PROVE  s.dev.unarmed = v.unarmed
    BY DEF Calm
  <2>1. r.faults = 0 /\ u.lost = {}
    BY <1>4, <1>8, <1>9, <1>11 DEF Same
  <2> QED
    BY <1>4, <1>6, <1>11, <1>12, <2>1
<1> QED
  BY <1>13, <1>14 DEF Good

\* Which part of the hook an event runs.
LEMMA HookCases ==
  ASSUME NEW d, NEW v, NEW x
  PROVE  /\ on_l2cap_event(d, v, Msg("Accept", x)) = OnAccept(v)
         /\ on_l2cap_event(d, v, Msg("Connected", x)) = OnConnected(v, x)
         /\ on_l2cap_event(d, v, Msg("Received", x)) = OnReceived(d, v, x)
         /\ on_l2cap_event(d, v, Msg("Disconnected", x)) = OnDisconnected(v)
         /\ on_l2cap_event(d, v, Msg("TxUnstalled", x)) = {Result(v, "OK", << >>, 0)}
BY DEF on_l2cap_event, Msg

\* The buffers that an event brings into hand.
Hand(sdu) == IF sdu = NULL THEN {} ELSE {sdu}

\* The callback frees the SDU after the hook, if there is a hook or not.
LEMMA CallbackGood ==
  ASSUME NEW n, NEW d, NEW v, NEW ev, NEW sdu, Keeps(n, v, Hand(sdu)),
         AllGood(n, Hand(sdu), v, on_l2cap_event(d, v, ev))
  PROVE  AllGood(n, {}, v, l2cap_event_cb(d, v, ev, sdu))
<1> SUFFICES ASSUME NEW s \in l2cap_event_cb(d, v, ev, sdu) PROVE Good(n, {}, v, s)
  BY DEF AllGood
<1> DEFINE R == IF v.hooked THEN on_l2cap_event(d, v, ev)
                ELSE {Result(Armed(v, "unhooked"), "OK", << >>, 0)}
<1>1. PICK r \in R : s = [r EXCEPT !.dev = free_mbuf(@, sdu)]
  BY DEF l2cap_event_cb
<1>2. Good(n, Hand(sdu), v, r)
  <2>1. CASE v.hooked
    <3>1. r \in on_l2cap_event(d, v, ev)
      BY <2>1
    <3> QED
      BY <3>1 DEF AllGood
  <2>2. CASE ~v.hooked
    <3> DEFINE w == [v EXCEPT !.unarmed = TRUE]
    <3>1. r = Result(w, "OK", << >>, 0)
      BY <2>2 DEF Armed
    <3>2. DOMAIN v = Fields /\ v.data \in Nat
      BY DEF Keeps, IsEnd
    <3>3. /\ DOMAIN w = DOMAIN v /\ w.pool = v.pool /\ w.rx = v.rx /\ w.tx = v.tx
          /\ w.lost = v.lost /\ w.data = v.data /\ Same(v, w)
      BY <3>2 DEF Fields, Same
    <3> HIDE DEF w
    <3>4. Keeps(n, w, Hand(sdu))
      BY <3>2, <3>3, KeepsFrame
    <3>5. r.dev = w /\ IsResult(r)
      BY <3>1 DEF Result, IsResult
    <3> QED
      BY <2>2, <3>3, <3>4, <3>5 DEF Good, Calm, Outcome
  <2> QED
    BY <2>1, <2>2
<1> HIDE DEF R
<1>3. /\ DOMAIN s = DOMAIN r /\ s.dev = free_mbuf(r.dev, sdu)
      /\ s.out = r.out /\ s.faults = r.faults
  BY <1>1, <1>2 DEF Good, Outcome, IsResult
<1>4. CASE sdu = NULL
  <2>1. s.dev = r.dev
    BY <1>3, <1>4 DEF free_mbuf
  <2>2. Good(n, {}, v, r)
    BY <1>2, <1>4 DEF Hand
  <2> QED
    BY <1>3, <2>1, <2>2 DEF Good, Calm, Outcome, IsResult
<1>5. CASE sdu # NULL
  <2>1. sdu \notin {} /\ {} \cup {sdu} = Hand(sdu)
    BY <1>5 DEF Hand
  <2>2. Outcome(n, {} \cup {sdu}, v, r) /\ Calm(n, v, r)
    BY <1>2, <2>1 DEF Good
  <2>3. Outcome(n, {}, v, s) /\ PoolOnly(r.dev, s.dev)
    BY <1>3, <2>1, <2>2, GivenBack
  <2>4. s.dev.unarmed = r.dev.unarmed
    BY <2>3 DEF PoolOnly, Fields
  <2> QED
    BY <1>3, <2>2, <2>3, <2>4 DEF Good, Calm
<1> QED
  BY <1>4, <1>5

\* The events that bring no buffer.
LEMMA EventsGood ==
  ASSUME NEW n, NEW d, NEW v, NEW x, Keeps(n, v, {})
  PROVE  /\ v.rx = NULL => AllGood(n, {}, v, l2cap_event_cb(d, v, Msg("Accept", x), NULL))
         /\ AllGood(n, {}, v, l2cap_event_cb(d, v, Msg("Connected", x), NULL))
         /\ AllGood(n, {}, v, l2cap_event_cb(d, v, Msg("Disconnected", x), NULL))
         /\ AllGood(n, {}, v, l2cap_event_cb(d, v, Msg("TxUnstalled", x), NULL))
<1>1. Hand(NULL) = {}
  BY DEF Hand
<1>2. ASSUME NEW ev, AllGood(n, {}, v, on_l2cap_event(d, v, ev))
      PROVE  AllGood(n, {}, v, l2cap_event_cb(d, v, ev, NULL))
  <2>1. Keeps(n, v, Hand(NULL)) /\ AllGood(n, Hand(NULL), v, on_l2cap_event(d, v, ev))
    BY <1>1, <1>2
  <2> QED
    BY <2>1, CallbackGood
<1>3. ASSUME v.rx = NULL PROVE AllGood(n, {}, v, on_l2cap_event(d, v, Msg("Accept", x)))
  BY <1>3, AcceptGood, HookCases
<1>4. AllGood(n, {}, v, OnConnected(v, x))
  <2>1. PICK c : c = (v.CHAN \/ x = "OK")
    OBVIOUS
  <2>2. OnConnected(v, x) = {Result([v EXCEPT !.CHAN = c], "OK", << >>, 0)}
    BY <2>1 DEF OnConnected
  <2>3. AllGood(n, {}, v, {Result([v EXCEPT !.CHAN = c], "OK", << >>, 0)})
    BY StatusGood
  <2> QED
    BY <2>2, <2>3
<1>5. AllGood(n, {}, v, OnDisconnected(v))
  BY StatusGood DEF OnDisconnected
<1>6. AllGood(n, {}, v, {Result(v, "OK", << >>, 0)})
  BY QuietGood
<1>7. v.rx = NULL => AllGood(n, {}, v, l2cap_event_cb(d, v, Msg("Accept", x), NULL))
  BY <1>2, <1>3
<1>8. AllGood(n, {}, v, on_l2cap_event(d, v, Msg("Connected", x)))
  BY <1>4, HookCases
<1>9. AllGood(n, {}, v, on_l2cap_event(d, v, Msg("Disconnected", x)))
  BY <1>5, HookCases
<1>10. AllGood(n, {}, v, on_l2cap_event(d, v, Msg("TxUnstalled", x)))
  BY <1>6, HookCases
<1> QED
  BY <1>2, <1>7, <1>8, <1>9, <1>10

-----------------------------------------------------------------------------
(* The host's handling of a message.                                       *)

\* An event for an end that differs from v in its channel and its buffers.
LEMMA HandledFrom ==
  ASSUME NEW n, NEW v, NEW w, NEW r, Good(n, {}, w, r), w.lost = v.lost,
         w.hooked = v.hooked, w.unarmed = v.unarmed, w.chan # "none"
  PROVE  Handled(n, v, r)
BY DEF Good, Outcome, Same, Calm, Handled

\* One event after another.
LEMMA ThenHandled ==
  ASSUME NEW n, NEW v, NEW r, NEW q, IsResult(r), Calm(n, v, r), r.dev.lost = v.lost,
         r.dev.hooked = v.hooked, Handled(n, r.dev, q)
  PROVE  Handled(n, v, Then(r, q))
<1>1. PICK t : t = Then(r, q)
  OBVIOUS
<1>2. IsResult(q) /\ r.faults \in Nat /\ q.faults \in Nat
  BY DEF Handled, IsResult
<1>3. IsResult(t) /\ t.dev = q.dev /\ t.faults = r.faults + q.faults
  BY <1>1, <1>2, ThenResult
<1>4. t.faults = 0 => r.faults = 0 /\ q.faults = 0
  BY <1>2, <1>3
<1>5. Calm(n, v, t)
  BY <1>3, <1>4 DEF Calm, Handled
<1> QED
  BY <1>1, <1>3, <1>5 DEF Handled

\* A last word to the peer.
LEMMA OutHandled ==
  ASSUME NEW n, NEW v, NEW t, NEW s, NEW o \in Reply, Handled(n, v, t),
         DOMAIN s = DOMAIN t, s.dev = t.dev, s.faults = t.faults, s.out = t.out \o <<o>>
  PROVE  Handled(n, v, s)
<1>1. t.out \o <<o>> \in Seq(Reply)
  BY DEF Handled, IsResult
<1> QED
  BY <1>1 DEF Handled, IsResult, Calm

\* A channel freed with its buffers, before the hook hears of it.
Closed(v) == [free_mbuf(free_mbuf(v, v.rx), v.tx) EXCEPT
                !.chan = "closed", !.rx = NULL, !.tx = NULL, !.credits = 0]

\* The buffers of the channel are free again.
LEMMA ChannelFreed ==
  ASSUME NEW n, NEW v, NEW w, Keeps(n, v, {}), w = Closed(v)
  PROVE  /\ Keeps(n, w, {}) /\ w.chan = "closed"
         /\ w.lost = v.lost /\ w.hooked = v.hooked /\ w.unarmed = v.unarmed
<1>1. /\ n \in Nat /\ NULL \notin 1..n /\ DOMAIN v = Fields /\ v.pool \in [1..n -> Nat]
      /\ v.rx \in 1..n \cup {NULL} /\ v.tx \in 1..n \cup {NULL} /\ v.data \in Nat
      /\ v.lost \in SUBSET (1..n)
  BY DEF Keeps, IsEnd
<1>2. PICK a, c : a = v.rx /\ c = v.tx
  OBVIOUS
<1>3. PICK u : u = free_mbuf(v, a)
  OBVIOUS
<1>4. /\ PoolOnly(v, u) /\ u.pool \in [1..n -> Nat]
      /\ \A b \in 1..n : u.pool[b] = v.pool[b] + (IF b = a THEN 1 ELSE 0)
  <2>1. Freed(n, v, a, u)
    BY <1>1, <1>2, <1>3, FreePool
  <2> QED
    BY <2>1 DEF Freed
<1>5. DOMAIN u = Fields
  BY <1>4 DEF PoolOnly
<1>6. PICK y : y = free_mbuf(u, c)
  OBVIOUS
<1>7. /\ PoolOnly(u, y) /\ y.pool \in [1..n -> Nat]
      /\ \A b \in 1..n : y.pool[b] = u.pool[b] + (IF b = c THEN 1 ELSE 0)
  <2>1. Freed(n, u, c, y)
    BY <1>1, <1>2, <1>4, <1>5, <1>6, FreePool
  <2> QED
    BY <2>1 DEF Freed
<1>8. w = [y EXCEPT !.chan = "closed", !.rx = NULL, !.tx = NULL, !.credits = 0]
  BY <1>2, <1>3, <1>6 DEF Closed
<1>9. /\ DOMAIN y = Fields /\ y.lost = v.lost /\ y.hooked = v.hooked /\ y.unarmed = v.unarmed
      /\ y.data = v.data
  BY <1>4, <1>7 DEF PoolOnly, Fields
<1>10. /\ DOMAIN w = Fields /\ w.lost = v.lost /\ w.hooked = v.hooked /\ w.unarmed = v.unarmed
       /\ w.data = v.data /\ w.chan = "closed" /\ w.rx = NULL /\ w.tx = NULL /\ w.pool = y.pool
  BY <1>8, <1>9 DEF Fields
<1>11. IsEnd(n, w)
  BY <1>1, <1>7, <1>10 DEF IsEnd
<1>12. ASSUME NEW b \in 1..n PROVE Owners(w, {}, b) = 1
  <2>1. Owners(v, {}, b) = 1 /\ v.pool[b] \in Nat /\ b # NULL
    BY <1>1 DEF Keeps
  <2>2. w.pool[b] = v.pool[b] + (IF b = a THEN 1 ELSE 0) + (IF b = c THEN 1 ELSE 0)
    BY <1>4, <1>7, <1>10
  <2> QED
    BY <1>2, <1>10, <2>1, <2>2 DEF Owners
<1> QED
  BY <1>1, <1>10, <1>11, <1>12 DEF Keeps

\* An end that lost its channel.
AllClosed(n, v, S) == \A r \in S : Handled(n, v, r) /\ r.faults = 0

\* The free of a channel, with the event that tells of it.
LEMMA ChanFreeHandled ==
  ASSUME NEW n, NEW d, NEW v, Keeps(n, v, {})
  PROVE  AllClosed(n, v, chan_free(d, v))
<1> SUFFICES ASSUME NEW r \in chan_free(d, v) PROVE Handled(n, v, r) /\ r.faults = 0
  BY DEF AllClosed
<1>1. PICK w : w = Closed(v)
  OBVIOUS
<1>2. r \in l2cap_event_cb(d, w, Msg("Disconnected", 0), NULL)
  BY <1>1 DEF chan_free, Closed
<1>3. /\ Keeps(n, w, {}) /\ w.chan = "closed"
      /\ w.lost = v.lost /\ w.hooked = v.hooked /\ w.unarmed = v.unarmed
  BY <1>1, ChannelFreed
<1>4. AllGood(n, {}, w, l2cap_event_cb(d, w, Msg("Disconnected", 0), NULL))
  BY <1>3, EventsGood
<1>5. Good(n, {}, w, r)
  BY <1>2, <1>4 DEF AllGood
<1>6. Handled(n, v, r)
  BY <1>3, <1>5, HandledFrom
<1>7. r.faults = 0
  <2>1. PICK q \in IF w.hooked THEN on_l2cap_event(d, w, Msg("Disconnected", 0))
                   ELSE {Result(Armed(w, "unhooked"), "OK", << >>, 0)} :
          r = [q EXCEPT !.dev = free_mbuf(@, NULL)]
    BY <1>2 DEF l2cap_event_cb
  <2>2. on_l2cap_event(d, w, Msg("Disconnected", 0)) = OnDisconnected(w)
    BY HookCases
  <2>3. PICK y : q = Result(y, "OK", << >>, 0)
    <3>1. CASE w.hooked
      BY <2>1, <2>2, <3>1 DEF OnDisconnected
    <3>2. CASE ~w.hooked
      BY <2>1, <3>2
    <3> QED
      BY <3>1, <3>2
  <2> QED
    BY <2>1, <2>3 DEF Result
<1> QED
  BY <1>6, <1>7

\* A request for a channel.
LEMMA AcceptHandled ==
  ASSUME NEW n, NEW d, NEW v, Keeps(n, v, {}), v.rx = NULL
  PROVE  AllHandled(n, v, HostAccept(d, v))
<1> SUFFICES ASSUME NEW s \in HostAccept(d, v) PROVE Handled(n, v, s)
  BY DEF AllHandled
<1> DEFINE u == [v EXCEPT !.chan = "opening"]
<1>1. DOMAIN v = Fields /\ v.data \in Nat
  BY DEF Keeps, IsEnd
<1>2. /\ DOMAIN u = DOMAIN v /\ u.pool = v.pool /\ u.rx = v.rx /\ u.tx = v.tx
      /\ u.lost = v.lost /\ u.data = v.data /\ u.unarmed = v.unarmed
      /\ u.hooked = v.hooked /\ u.chan = "opening"
  BY <1>1 DEF Fields
<1>3. PICK r \in l2cap_event_cb(d, u, Msg("Accept", 0), NULL) :
        s \in IF r.rc = "OK"
              THEN {[r EXCEPT !.dev.chan = "open", !.dev.credits = 1,
                              !.out = @ \o <<Msg("rsp", IF r.dev.rx # NULL THEN 1 ELSE 0)>>]}
              ELSE {[Then(r, q) EXCEPT !.out = @ \o <<Msg("refused", 0)>>]
                      : q \in chan_free(d, r.dev)}
  BY DEF HostAccept
<1> HIDE DEF u
<1>4. Keeps(n, u, {})
  BY <1>1, <1>2, KeepsFrame
<1>5. AllGood(n, {}, u, l2cap_event_cb(d, u, Msg("Accept", 0), NULL))
  BY <1>2, <1>4, EventsGood
<1>6. Good(n, {}, u, r)
  BY <1>3, <1>5 DEF AllGood
<1>7. /\ IsResult(r) /\ Calm(n, v, r) /\ Keeps(n, r.dev, {}) /\ r.dev.lost = v.lost
      /\ r.dev.hooked = v.hooked
  BY <1>2, <1>6 DEF Good, Outcome, Same, Calm
<1>8. CASE r.rc = "OK"
  <2>1. PICK y : y = r.dev
    OBVIOUS
  <2>2. PICK o : o = Msg("rsp", IF r.dev.rx # NULL THEN 1 ELSE 0)
    OBVIOUS
  <2>3. o \in Reply
    BY <2>2 DEF Msg, Reply
  <2> DEFINE w == [y EXCEPT !.chan = "open", !.credits = 1]
  <2>4. s = [r EXCEPT !.dev = w, !.out = @ \o <<o>>]
    BY <1>3, <1>8, <2>1, <2>2
  <2>5. Keeps(n, y, {}) /\ DOMAIN y = Fields /\ y.data \in Nat
    BY <1>7, <2>1 DEF Keeps, IsEnd
  <2>6. /\ DOMAIN w = DOMAIN y /\ w.pool = y.pool /\ w.rx = y.rx /\ w.tx = y.tx
        /\ w.lost = y.lost /\ w.data = y.data /\ w.unarmed = y.unarmed
        /\ w.hooked = y.hooked /\ w.chan = "open"
    BY <2>5 DEF Fields
  <2> HIDE DEF w
  <2>7. Keeps(n, w, {})
    BY <2>5, <2>6, KeepsFrame
  <2>8. DOMAIN s = DOMAIN r /\ s.dev = w /\ s.faults = r.faults /\ s.out = r.out \o <<o>>
    BY <1>7, <2>4 DEF IsResult
  <2>9. s.out \in Seq(Reply)
    BY <1>7, <2>3, <2>8 DEF IsResult
  <2> QED
    BY <1>7, <2>1, <2>6, <2>7, <2>8, <2>9 DEF Handled, IsResult, Calm
<1>9. CASE r.rc # "OK"
  <2>1. PICK q \in chan_free(d, r.dev) :
          s = [Then(r, q) EXCEPT !.out = @ \o <<Msg("refused", 0)>>]
    BY <1>3, <1>9
  <2>2. Handled(n, r.dev, q)
    BY <1>7, ChanFreeHandled DEF AllClosed
  <2>3. PICK t : t = Then(r, q)
    OBVIOUS
  <2>4. Handled(n, v, t)
    BY <1>7, <2>2, <2>3, ThenHandled
  <2>5. PICK o : o = Msg("refused", 0)
    OBVIOUS
  <2>6. o \in Reply
    BY <2>5 DEF Msg, Reply
  <2>7. DOMAIN s = DOMAIN t /\ s.dev = t.dev /\ s.faults = t.faults /\ s.out = t.out \o <<o>>
    BY <2>1, <2>3, <2>4, <2>5 DEF Handled, IsResult
  <2> QED
    BY <2>4, <2>6, <2>7, OutHandled
<1> QED
  BY <1>8, <1>9

\* A refusal of the channel.
LEMMA RefusedHandled ==
  ASSUME NEW n, NEW d, NEW v, Keeps(n, v, {})
  PROVE  AllHandled(n, v, HostRefused(d, v))
<1> SUFFICES ASSUME NEW s \in HostRefused(d, v) PROVE Handled(n, v, s)
  BY DEF AllHandled
<1>1. PICK r \in l2cap_event_cb(d, v, Msg("Connected", "refused"), NULL) :
        s \in {Then(r, q) : q \in chan_free(d, r.dev)}
  BY DEF HostRefused
<1>2. PICK q \in chan_free(d, r.dev) : s = Then(r, q)
  BY <1>1
<1>3. Good(n, {}, v, r)
  <2>1. AllGood(n, {}, v, l2cap_event_cb(d, v, Msg("Connected", "refused"), NULL))
    BY EventsGood
  <2> QED
    BY <2>1 DEF AllGood
<1>4. /\ IsResult(r) /\ Calm(n, v, r) /\ Keeps(n, r.dev, {}) /\ r.dev.lost = v.lost
      /\ r.dev.hooked = v.hooked
  BY <1>3 DEF Good, Outcome, Same
<1>5. Handled(n, r.dev, q)
  BY <1>4, ChanFreeHandled DEF AllClosed
<1> QED
  BY <1>2, <1>4, <1>5, ThenHandled

\* A credit, which may let an SDU go that waited for it.
LEMMA CreditHandled ==
  ASSUME NEW n, NEW d, NEW v, Keeps(n, v, {}), v.chan # "none"
  PROVE  AllHandled(n, v, HostCredit(d, v))
<1> SUFFICES ASSUME NEW s \in HostCredit(d, v) PROVE Handled(n, v, s)
  BY DEF AllHandled
<1>1. /\ n \in Nat /\ NULL \notin 1..n /\ DOMAIN v = Fields /\ v.pool \in [1..n -> Nat]
      /\ v.rx \in 1..n \cup {NULL} /\ v.tx \in 1..n \cup {NULL} /\ v.data \in Nat
      /\ v.lost \in SUBSET (1..n)
  BY DEF Keeps, IsEnd
<1>2. CASE v.tx = NULL
  <2> DEFINE w == [v EXCEPT !.credits = @ + 1]
  <2>1. s = Result(w, "OK", << >>, 0)
    BY <1>2 DEF HostCredit
  <2>2. /\ DOMAIN w = DOMAIN v /\ w.pool = v.pool /\ w.rx = v.rx /\ w.tx = v.tx
        /\ w.lost = v.lost /\ w.data = v.data /\ w.unarmed = v.unarmed
        /\ w.hooked = v.hooked /\ w.chan = v.chan
    BY <1>1 DEF Fields
  <2> HIDE DEF w
  <2>3. Keeps(n, w, {})
    BY <1>1, <2>2, KeepsFrame
  <2>4. IsResult(s) /\ s.dev = w
    BY <2>1 DEF Result, IsResult
  <2> QED
    BY <2>2, <2>3, <2>4 DEF Handled, Calm
<1>3. CASE v.tx # NULL
  <2>1. PICK c : c = v.tx
    OBVIOUS
  <2>2. PICK u : u = free_mbuf(v, c)
    OBVIOUS
  <2>3. Freed(n, v, c, u)
    BY <1>1, <2>1, <2>2, FreePool
  <2>4. /\ DOMAIN u = Fields /\ u.rx = v.rx /\ u.lost = v.lost /\ u.data = v.data
        /\ u.unarmed = v.unarmed /\ u.hooked = v.hooked /\ u.chan = v.chan
    BY <2>3 DEF Freed, PoolOnly, Fields
  <2>5. PICK w : w = [u EXCEPT !.tx = NULL]
    OBVIOUS
  <2>6. /\ DOMAIN w = Fields /\ w.rx = v.rx /\ w.lost = v.lost /\ w.data = v.data
        /\ w.unarmed = v.unarmed /\ w.hooked = v.hooked /\ w.chan = v.chan
        /\ w.tx = NULL /\ w.pool = u.pool
    BY <2>4, <2>5 DEF Fields
  <2>7. Keeps(n, w, {})
    <3>1. IsEnd(n, w)
      BY <1>1, <2>3, <2>6 DEF IsEnd, Freed
    <3>2. ASSUME NEW b \in 1..n PROVE Owners(w, {}, b) = 1
      <4>1. Owners(v, {}, b) = 1 /\ v.pool[b] \in Nat /\ b # NULL
        BY <1>1 DEF Keeps
      <4>2. w.pool[b] = v.pool[b] + (IF b = c THEN 1 ELSE 0)
        BY <2>3, <2>6 DEF Freed
      <4> QED
        BY <2>1, <2>6, <4>1, <4>2 DEF Owners
    <3> QED
      BY <1>1, <3>1, <3>2 DEF Keeps
  <2> DEFINE y == [w EXCEPT !.credits = @ + 1, !.dropped = @ \cup {v.data}]
  <2>8. /\ DOMAIN y = DOMAIN w /\ y.pool = w.pool /\ y.rx = w.rx /\ y.tx = w.tx
        /\ y.lost = w.lost /\ y.data = w.data /\ y.unarmed = w.unarmed
        /\ y.hooked = w.hooked /\ y.chan = w.chan
    BY <2>6 DEF Fields
  <2>9. Keeps(n, y, {})
    <3> HIDE DEF y
    <3> QED
      BY <1>1, <2>6, <2>7, <2>8, KeepsFrame
  <2>10. PICK r \in {Result(w, "OK", <<Msg("sdu", v.data)>>, 0), Result(y, "ENOMEM", << >>, 1)} :
           s \in {Then(r, q) : q \in l2cap_event_cb(d, r.dev, Msg("TxUnstalled", r.rc), NULL)}
    BY <1>3, <2>1, <2>2, <2>5 DEF HostCredit
  <2> HIDE DEF y
  <2>11. PICK q \in l2cap_event_cb(d, r.dev, Msg("TxUnstalled", r.rc), NULL) : s = Then(r, q)
    BY <2>10
  <2>12. /\ IsResult(r) /\ Keeps(n, r.dev, {}) /\ r.dev.lost = v.lost /\ r.dev.hooked = v.hooked
         /\ r.dev.unarmed = v.unarmed /\ r.dev.chan = v.chan
    <3>1. Msg("sdu", v.data) \in Reply
      BY <1>1 DEF Msg, Reply
    <3>2. CASE r = Result(w, "OK", <<Msg("sdu", v.data)>>, 0)
      <4>1. r.dev = w /\ IsResult(r)
        BY <3>1, <3>2 DEF Result, IsResult
      <4> QED
        BY <2>6, <2>7, <4>1
    <3>3. CASE r = Result(y, "ENOMEM", << >>, 1)
      <4>1. r.dev = y /\ IsResult(r)
        BY <3>3 DEF Result, IsResult
      <4> QED
        BY <2>6, <2>8, <2>9, <4>1
    <3> QED
      BY <2>10, <3>2, <3>3
  <2>13. PICK x, rc : x = r.dev /\ rc = r.rc
    OBVIOUS
  <2>14. AllGood(n, {}, x, l2cap_event_cb(d, x, Msg("TxUnstalled", rc), NULL))
    BY <2>12, <2>13, EventsGood
  <2>15. Good(n, {}, r.dev, q)
    BY <2>11, <2>13, <2>14 DEF AllGood
  <2>16. Handled(n, r.dev, q)
    BY <2>12, <2>15, HandledFrom
  <2>17. Calm(n, v, r)
    BY <2>12 DEF Calm
  <2> QED
    BY <2>11, <2>12, <2>16, <2>17, ThenHandled
<1> QED
  BY <1>2, <1>3

\* An SDU: its buffer is the receive buffer, which is in dispatch from then on.
LEMMA SduHandled ==
  ASSUME NEW n, NEW d, NEW v, NEW w, NEW m, Sendable(m), Keeps(n, v, {}), v.chan # "none",
         w = [v EXCEPT !.rx = NULL]
  PROVE  AllHandled(n, v, l2cap_event_cb(d, w, Msg("Received", m), v.rx))
<1>1. DOMAIN v = Fields /\ v.data \in Nat
  BY DEF Keeps, IsEnd
<1>2. /\ DOMAIN w = DOMAIN v /\ w.pool = v.pool /\ w.rx = NULL /\ w.tx = v.tx
      /\ w.lost = v.lost /\ w.data = v.data /\ w.unarmed = v.unarmed
      /\ w.hooked = v.hooked /\ w.chan = v.chan
  BY <1>1 DEF Fields
<1>3. PICK b, X : b = v.rx /\ X = Hand(b)
  OBVIOUS
<1>4. Keeps(n, w, X) /\ X \subseteq {b}
  <2>1. CASE b = NULL
    <3>1. X = {}
      BY <1>3, <2>1 DEF Hand
    <3>2. Keeps(n, w, {})
      BY <1>1, <1>2, <1>3, <2>1, KeepsFrame
    <3> QED
      BY <3>1, <3>2
  <2>2. CASE b # NULL
    <3>1. X = {} \cup {v.rx}
      BY <1>3, <2>2 DEF Hand
    <3>2. Keeps(n, w, {} \cup {v.rx})
      BY <1>2, <1>3, <2>2, RxTaken
    <3> QED
      BY <1>3, <3>1, <3>2
  <2> QED
    BY <2>1, <2>2
<1>5. AllGood(n, X, w, OnReceived(d, w, m))
  BY <1>2, <1>4, ReceivedGood
<1>6. AllGood(n, X, w, on_l2cap_event(d, w, Msg("Received", m)))
  BY <1>5, HookCases
<1>7. AllGood(n, {}, w, l2cap_event_cb(d, w, Msg("Received", m), b))
  BY <1>3, <1>4, <1>6, CallbackGood
<1> SUFFICES ASSUME NEW r \in l2cap_event_cb(d, w, Msg("Received", m), v.rx)
             PROVE  Handled(n, v, r)
  BY DEF AllHandled
<1>8. Good(n, {}, w, r)
  BY <1>3, <1>7 DEF AllGood
<1> QED
  BY <1>2, <1>8, HandledFrom

\* The answer to a request.
LEMMA RspHandled ==
  ASSUME NEW n, NEW d, NEW v, NEW w, NEW x, Keeps(n, v, {}),
         w = [v EXCEPT !.chan = "open", !.credits = x]
  PROVE  AllHandled(n, v, l2cap_event_cb(d, w, Msg("Connected", "OK"), NULL))
<1>1. DOMAIN v = Fields /\ v.data \in Nat
  BY DEF Keeps, IsEnd
<1>2. /\ DOMAIN w = DOMAIN v /\ w.pool = v.pool /\ w.rx = v.rx /\ w.tx = v.tx
      /\ w.lost = v.lost /\ w.data = v.data /\ w.unarmed = v.unarmed
      /\ w.hooked = v.hooked /\ w.chan = "open"
  BY <1>1 DEF Fields
<1>3. Keeps(n, w, {})
  BY <1>1, <1>2, KeepsFrame
<1>4. AllGood(n, {}, w, l2cap_event_cb(d, w, Msg("Connected", "OK"), NULL))
  BY <1>3, EventsGood
<1> SUFFICES ASSUME NEW r \in l2cap_event_cb(d, w, Msg("Connected", "OK"), NULL)
             PROVE  Handled(n, v, r)
  BY DEF AllHandled
<1>5. Good(n, {}, w, r)
  BY <1>4 DEF AllGood
<1> QED
  BY <1>2, <1>5, HandledFrom

\* A request to close, which is confirmed.
LEMMA DiscHandled ==
  ASSUME NEW n, NEW d, NEW v, NEW r \in chan_free(d, v), NEW s, Keeps(n, v, {}),
         s = Then(r, Result(r.dev, "OK", <<Msg("gone", 0)>>, 0))
  PROVE  Handled(n, v, s)
<1>1. Handled(n, v, r)
  BY ChanFreeHandled DEF AllClosed
<1>2. PICK o : o = Msg("gone", 0)
  OBVIOUS
<1>3. o \in Reply
  BY <1>2 DEF Msg, Reply
<1>4. PICK q : q = Result(r.dev, "OK", <<o>>, 0)
  OBVIOUS
<1>5. IsResult(q) /\ q.dev = r.dev /\ q.faults = 0 /\ q.out = <<o>>
  BY <1>3, <1>4 DEF Result, IsResult
<1>6. Handled(n, r.dev, q)
  BY <1>1, <1>5 DEF Handled, Calm
<1>7. IsResult(r) /\ Calm(n, v, r) /\ r.dev.lost = v.lost /\ r.dev.hooked = v.hooked
  BY <1>1 DEF Handled
<1>8. Handled(n, v, Then(r, q))
  BY <1>6, <1>7, ThenHandled
<1> QED
  BY <1>2, <1>4, <1>8

\* A message that is ignored.
Ignored(v, r) == r = Result(v, "OK", << >>, 0)

\* Every message that may arrive.
LEMMA HandleOutcome ==
  ASSUME NEW n, NEW d, NEW v, NEW m \in Message, Keeps(n, v, {}),
         m.type = "req" => v.rx = NULL, NEW r \in Handle(d, v, m)
  PROVE  \/ Handled(n, v, r) /\ (m.type = "req" \/ v.chan # "none")
         \/ Ignored(v, r) /\ m.type # "req"
<1>1. CASE m.type = "req"
  <2>1. r \in HostAccept(d, v)
    BY <1>1 DEF Handle
  <2> QED
    BY <1>1, <2>1, AcceptHandled DEF AllHandled
<1>2. CASE m.type # "req" /\ v.chan \notin {"opening", "open"}
  BY <1>2 DEF Handle, Ignored
<1>3. CASE m.type # "req" /\ v.chan \in {"opening", "open"}
  <2>0. v.chan # "none" /\ Sendable(m.val)
    BY <1>3 DEF Message, Sendable
  <2>1. CASE m.type = "rsp"
    <3>1. PICK w, x : x = m.val /\ w = [v EXCEPT !.chan = "open", !.credits = x]
      OBVIOUS
    <3>2. r \in l2cap_event_cb(d, w, Msg("Connected", "OK"), NULL)
      BY <1>3, <2>1, <3>1 DEF Handle
    <3> QED
      BY <2>0, <3>1, <3>2, RspHandled DEF AllHandled
  <2>2. CASE m.type = "refused"
    <3>1. r \in HostRefused(d, v)
      BY <1>3, <2>2 DEF Handle
    <3> QED
      BY <2>0, <3>1, RefusedHandled DEF AllHandled
  <2>3. CASE m.type = "credit"
    <3>1. r \in HostCredit(d, v)
      BY <1>3, <2>3 DEF Handle
    <3> QED
      BY <2>0, <3>1, CreditHandled DEF AllHandled
  <2>4. CASE m.type = "sdu"
    <3>1. PICK w, x : x = m.val /\ w = [v EXCEPT !.rx = NULL]
      OBVIOUS
    <3>2. r \in l2cap_event_cb(d, w, Msg("Received", x), v.rx)
      BY <1>3, <2>4, <3>1 DEF Handle
    <3> QED
      BY <2>0, <3>1, <3>2, SduHandled DEF AllHandled
  <2>5. CASE m.type = "disc"
    <3>1. PICK q \in chan_free(d, v) : r = Then(q, Result(q.dev, "OK", <<Msg("gone", 0)>>, 0))
      BY <1>3, <2>5 DEF Handle
    <3> QED
      BY <2>0, <3>1, DiscHandled
  <2>6. CASE m.type = "gone"
    <3>1. r \in chan_free(d, v)
      BY <1>3, <2>6 DEF Handle
    <3> QED
      BY <2>0, <3>1, ChanFreeHandled DEF AllClosed
  <2>7. m.type \in {"rsp", "refused", "credit", "sdu", "disc", "gone"}
    BY <1>3 DEF Message
  <2> QED
    BY <2>0, <2>1, <2>2, <2>3, <2>4, <2>5, <2>6, <2>7
<1> QED
  BY <1>1, <1>2, <1>3

-----------------------------------------------------------------------------
(* The wire.                                                               *)

\* What an end says in answer is a message, and no request.
LEMMA AnswerWire ==
  ASSUME NEW s \in Seq(Message), NEW o \in Seq(Reply)
  PROVE  /\ NoReq(s) => NoReq(s \o o)
         /\ ReqFirst(s) => ReqFirst(s \o o)
<1>1. o \in Seq(Message) /\ \A i \in 1..Len(o) : o[i].type # "req"
  <2>1. Reply \subseteq Message /\ \A m \in Reply : m.type # "req"
    BY DEF Reply, Message
  <2> HIDE DEF Reply, Message
  <2>2. \A i \in 1..Len(o) : o[i] \in Reply
    OBVIOUS
  <2> QED
    BY <2>1, <2>2
<1>2. /\ s \o o \in Seq(Message) /\ Len(s \o o) = Len(s) + Len(o)
      /\ \A i \in 1..Len(s) + Len(o) : (s \o o)[i] = IF i <= Len(s) THEN s[i] ELSE o[i - Len(s)]
  BY <1>1, ConcatProperties
<1>3. ASSUME NEW i \in 1..Len(s \o o), (s \o o)[i].type = "req"
      PROVE  i \in 1..Len(s) /\ s[i].type = "req"
  <2>1. CASE i <= Len(s)
    BY <1>2, <1>3, <2>1
  <2>2. CASE ~(i <= Len(s))
    <3>1. i - Len(s) \in 1..Len(o) /\ (s \o o)[i] = o[i - Len(s)]
      BY <1>2, <2>2
    <3> QED
      BY <1>1, <1>3, <3>1
  <2> QED
    BY <2>1, <2>2
<1> QED
  BY <1>2, <1>3 DEF NoReq, ReqFirst

\* Once the first message is taken there is no request.
LEMMA TakeWire ==
  ASSUME NEW s, ReqFirst(s), s # << >>
  PROVE  /\ Head(s) \in Message /\ NoReq(SubSeq(s, 2, Len(s)))
         /\ Head(s) = s[1] /\ 1 \in 1..Len(s)
<1>1. s \in Seq(Message) /\ Len(s) \in Nat /\ Len(s) >= 1
  BY DEF ReqFirst
<1>2. Head(s) = s[1] /\ 1 \in 1..Len(s) /\ Head(s) \in Message
  BY <1>1
<1>3. \A i \in 2..Len(s) : s[i] \in Message
  BY <1>1
<1>4. PICK t : t = SubSeq(s, 2, Len(s))
  OBVIOUS
<1>5. /\ t \in Seq(Message) /\ Len(t) = (IF 2 <= Len(s) THEN Len(s) - 2 + 1 ELSE 0)
      /\ \A i \in 1..(Len(s) - 2 + 1) : t[i] = s[2 + i - 1]
  BY <1>1, <1>3, <1>4, SubSeqProperties
<1>6. ASSUME NEW i \in 1..Len(t) PROVE t[i].type # "req"
  <2>1. i \in 1..(Len(s) - 2 + 1) /\ 2 + i - 1 \in 1..Len(s) /\ 2 + i - 1 # 1
    BY <1>1, <1>5
  <2>2. s[2 + i - 1].type # "req"
    BY <2>1 DEF ReqFirst
  <2> QED
    BY <1>5, <2>1, <2>2
<1> QED
  BY <1>2, <1>4, <1>5, <1>6 DEF NoReq

\* A call takes no message.
LEMMA TakeNone ==
  ASSUME NEW s \in Seq(Message)
  PROVE  SubSeq(s, 0 + 1, Len(s)) = s
BY SubSeqFull

\* What a step of the end d does.
LEMMA CommitStep ==
  ASSUME DOMAIN dev = Ends, DOMAIN wire = Ends, NEW d \in Ends, NEW rs, NEW r, NEW k,
         Commit(d, rs, r, k)
  PROVE  /\ DOMAIN dev' = Ends /\ dev'[d] = r.dev /\ dev'[Peer(d)] = dev[Peer(d)]
         /\ DOMAIN wire' = Ends
         /\ wire'[d] = SubSeq(wire[d], k + 1, Len(wire[d]))
         /\ wire'[Peer(d)] = IF up THEN wire[Peer(d)] \o r.out ELSE wire[Peer(d)]
         /\ faults' = faults + r.faults
<1>1. Peer(d) \in Ends /\ Peer(d) # d
  BY DEF Ends, Peer
<1> QED
  BY <1>1 DEF Commit

-----------------------------------------------------------------------------
(* The ends, from step to step.                                            *)

\* More faults, or a panic, ask less of an end.
LEMMA StandsOn ==
  ASSUME NEW n, NEW d, NEW v, NEW p, NEW q, NEW f \in Nat, NEW g \in Nat,
         Stands(n, d, v, p, f), p = "panic" => q = "panic"
  PROVE  Stands(n, d, v, q, f + g)
<1>1. f + g = 0 => f = 0
  OBVIOUS
<1> QED
  BY <1>1 DEF Stands

\* An end that handled a message stands.
LEMMA StandsHandled ==
  ASSUME NEW n, NEW d, NEW v, NEW p, NEW f \in Nat, NEW r, Stands(n, d, v, p, f),
         d = "client" => p # "panic", Handled(n, v, r)
  PROVE  Stands(n, d, r.dev, p, f + r.faults) /\ r.faults \in Nat
<1>1. r.faults \in Nat /\ v.lost = {} /\ r.dev.lost = {} /\ r.dev.hooked = v.hooked
  BY DEF Handled, IsResult, Stands
<1>2. Keeps(n, r.dev, {}) /\ r.dev.chan # "none" /\ Calm(n, v, r)
  BY DEF Handled
<1>3. ASSUME f + r.faults = 0
      PROVE  r.dev.hooked = TRUE /\ (n >= 3 => r.dev.unarmed = FALSE)
  <2>1. f = 0 /\ r.faults = 0
    BY <1>1, <1>3
  <2>2. v.hooked = TRUE /\ (n >= 3 => v.unarmed = FALSE)
    BY <2>1 DEF Stands
  <2>3. v.hooked
    BY <2>2
  <2>4. n >= 3 => r.dev.unarmed = v.unarmed
    BY <1>1, <1>2, <2>1, <2>3 DEF Calm
  <2> QED
    BY <1>1, <2>2, <2>4
<1> QED
  BY <1>1, <1>2, <1>3 DEF Stands

\* The ends of a state and their peers.
LEMMA BothEnds ==
  /\ Peer("client") = "server" /\ Peer("server") = "client"
  /\ \A d \in Ends : Peer(d) \in Ends /\ Peer(d) # d
  /\ \A d \in Ends : \A e \in Ends : e = d \/ e = Peer(d)
BY DEF Peer, Ends

\* DevOK holds after a step of one end.
LEMMA DevStep ==
  ASSUME DevOK, faults \in Nat, NEW d \in Ends, NEW n \in PoolSizes, NEW g \in Nat,
         faults' = faults + g, pc = "panic" => pc' = "panic",
         DOMAIN dev' = Ends, dev'[Peer(d)] = dev[Peer(d)],
         Stands(n, d, dev'[d], pc', faults')
  PROVE  DevOK'
<1> SUFFICES ASSUME NEW e \in Ends
             PROVE  \E k \in PoolSizes : Stands(k, e, dev'[e], pc', faults')
  BY DEF DevOK
<1>1. CASE e = d
  BY <1>1
<1>2. CASE e = Peer(d)
  <2>1. PICK k \in PoolSizes : Stands(k, e, dev[e], pc, faults)
    BY DEF DevOK
  <2>2. PICK v, p, q, f : v = dev[e] /\ p = pc /\ q = pc' /\ f = faults
    OBVIOUS
  <2>3. Stands(k, e, v, q, f + g)
    BY <2>1, <2>2, StandsOn
  <2> QED
    BY <1>2, <2>2, <2>3
<1> QED
  BY <1>1, <1>2, BothEnds

\* The first state.
LEMMA InitIInv == Init => IInv
<1> SUFFICES ASSUME Init PROVE IInv
  OBVIOUS
<1>1. PICK n \in PoolSizes : dev = [d \in Ends |-> NewEnd(n)]
  BY DEF Init
<1>2. n \in Nat /\ NULL \notin 1..n
  BY L2capAssumption
<1>3. PICK v : v = NewEnd(n)
  OBVIOUS
<1>4. /\ DOMAIN v = Fields /\ v.pool = [b \in 1..n |-> 1] /\ v.rx = NULL /\ v.tx = NULL
      /\ v.lost = {} /\ v.data = 0 /\ v.hooked = TRUE /\ v.unarmed = FALSE /\ v.chan = "none"
  BY <1>3 DEF NewEnd, Fields
<1>5. Keeps(n, v, {})
  BY <1>2, <1>4 DEF Keeps, IsEnd, Owners
<1>6. \A d \in Ends : Stands(n, d, v, pc, faults)
  BY <1>4, <1>5 DEF Stands
<1>7. DevOK
  BY <1>1, <1>3, <1>6 DEF DevOK
<1>8. NoReq(<< >>) /\ ReqFirst(<< >>)
  BY DEF NoReq, ReqFirst
<1>9. WireOK
  BY <1>1, <1>3, <1>4, <1>8 DEF WireOK, Init, Ends
<1> QED
  BY <1>7, <1>9 DEF IInv, Init

\* A message is handled.
LEMMA ReceiveIInv ==
  ASSUME IInv, NEW d \in Ends, Receive(d)
  PROVE  IInv'
<1>1. /\ DOMAIN dev = Ends /\ DOMAIN wire = Ends /\ NoReq(wire["client"])
      /\ ReqFirst(wire["server"]) /\ faults \in Nat /\ counter \in Nat
  BY DEF IInv, DevOK, WireOK
<1>2. PICK s, m : s = wire[d] /\ m = Head(s)
  OBVIOUS
<1>3. PICK r \in Handle(d, dev[d], m) : Commit(d, Handle(d, dev[d], m), r, 1)
  BY <1>2 DEF Receive, Commit
<1>4. s # << >> /\ ReqFirst(s) /\ (d = "client" => NoReq(s))
  BY <1>1, <1>2 DEF Receive, Ends, NoReq, ReqFirst
<1>5. /\ m \in Message /\ NoReq(SubSeq(s, 2, Len(s))) /\ m = s[1] /\ 1 \in 1..Len(s)
  BY <1>2, <1>4, TakeWire
<1>6. m.type = "req" => d = "server" /\ dev["server"].chan = "none"
  <2>1. NoReq(s) => m.type # "req"
    BY <1>5 DEF NoReq
  <2> QED
    BY <1>2, <1>4, <2>1 DEF IInv, WireOK, Ends
<1>7. PICK n \in PoolSizes : Stands(n, d, dev[d], pc, faults)
  BY DEF IInv, DevOK
<1>8. PICK v, p, f : v = dev[d] /\ p = pc /\ f = faults
  OBVIOUS
<1>9. /\ Stands(n, d, v, p, f) /\ Keeps(n, v, {}) /\ f \in Nat /\ (m.type = "req" => v.rx = NULL)
      /\ (d = "client" => p # "panic")
  BY <1>1, <1>6, <1>7, <1>8 DEF Stands, Receive, Runs
<1>10. \/ Handled(n, v, r) /\ (m.type = "req" \/ v.chan # "none")
       \/ Ignored(v, r) /\ m.type # "req"
  BY <1>3, <1>5, <1>8, <1>9, HandleOutcome
<1>11. Stands(n, d, r.dev, p, f + r.faults) /\ r.faults \in Nat /\ r.out \in Seq(Reply)
  <2>1. CASE Handled(n, v, r)
    <3>1. r.out \in Seq(Reply)
      BY <2>1 DEF Handled, IsResult
    <3> QED
      BY <1>9, <2>1, <3>1, StandsHandled
  <2>2. CASE Ignored(v, r)
    <3>1. r.dev = v /\ r.faults = 0 /\ r.out = << >>
      BY <2>2 DEF Ignored, Result
    <3>2. f + 0 = f
      BY <1>9
    <3> QED
      BY <1>9, <3>1, <3>2
  <2> QED
    BY <1>10, <2>1, <2>2
<1>12. /\ DOMAIN dev' = Ends /\ dev'[d] = r.dev /\ dev'[Peer(d)] = dev[Peer(d)]
       /\ DOMAIN wire' = Ends
       /\ wire'[d] = SubSeq(wire[d], 1 + 1, Len(wire[d]))
       /\ wire'[Peer(d)] = IF up THEN wire[Peer(d)] \o r.out ELSE wire[Peer(d)]
       /\ faults' = faults + r.faults
  BY <1>1, <1>3, CommitStep
<1>13. pc' = pc /\ counter' = counter
  BY DEF Receive
<1>14. DevOK'
  <2>1. Stands(n, d, dev'[d], pc', faults')
    BY <1>8, <1>11, <1>12, <1>13
  <2> QED
    BY <1>1, <1>11, <1>12, <1>13, <2>1, DevStep DEF IInv
<1>15. NoReq(wire'[d])
  BY <1>2, <1>5, <1>12
<1>16. PICK t : t = wire[Peer(d)]
  OBVIOUS
<1>17. /\ NoReq(t) => NoReq(wire'[Peer(d)])
       /\ ReqFirst(t) => ReqFirst(wire'[Peer(d)])
  <2>1. CASE up
    <3>1. wire'[Peer(d)] = t \o r.out
      BY <1>12, <1>16, <2>1
    <3>2. NoReq(t) => t \in Seq(Message)
      BY DEF NoReq
    <3>3. ReqFirst(t) => t \in Seq(Message)
      BY DEF ReqFirst
    <3> QED
      BY <1>11, <3>1, <3>2, <3>3, AnswerWire
  <2>2. CASE ~up
    BY <1>12, <1>16, <2>2
  <2> QED
    BY <2>1, <2>2
<1>18. WireOK'
  <2>1. CASE d = "server"
    <3>1. NoReq(wire'["server"]) /\ NoReq(wire'["client"])
      BY <1>1, <1>15, <1>16, <1>17, <2>1, BothEnds
    <3>2. pc # "connect"
      BY <1>2, <1>4, <2>1 DEF IInv, WireOK
    <3> QED
      BY <1>12, <1>13, <3>1, <3>2 DEF WireOK, NoReq, ReqFirst
  <2>2. CASE d = "client"
    <3>1. NoReq(wire'["client"]) /\ ReqFirst(wire'["server"])
      BY <1>1, <1>15, <1>16, <1>17, <2>2, BothEnds
    <3>2. dev'["server"] = dev["server"]
      BY <1>12, <2>2, BothEnds
    <3>3. dev'["server"].chan # "none" => NoReq(wire'["server"])
      BY <1>16, <1>17, <2>2, <3>2, BothEnds DEF IInv, WireOK
    <3>4. ASSUME pc' = "connect"
          PROVE  /\ wire'["server"] = << >>
                 /\ dev'["client"].chan = "none" /\ dev'["server"].chan = "none"
      <4>1. /\ wire["server"] = << >> /\ dev["client"].chan = "none"
            /\ dev["server"].chan = "none"
        BY <1>13, <3>4 DEF IInv, WireOK
      <4>2. Ignored(v, r)
        BY <1>6, <1>8, <1>10, <2>2, <4>1
      <4>3. r.dev = v /\ r.out = << >>
        BY <4>2 DEF Ignored, Result
      <4>4. wire'["server"] = << >>
        BY <1>12, <2>2, <4>1, <4>3, BothEnds
      <4> QED
        BY <1>8, <1>12, <2>2, <3>2, <4>1, <4>3, <4>4
    <3> QED
      BY <1>12, <3>1, <3>3, <3>4 DEF WireOK
  <2> QED
    BY <2>1, <2>2 DEF Ends
<1> QED
  BY <1>1, <1>11, <1>12, <1>13, <1>14, <1>18 DEF IInv

\* The client opens its channel.
LEMMA ConnectIInv ==
  ASSUME IInv, ClientConnect
  PROVE  IInv'
<1>1. /\ DOMAIN dev = Ends /\ DOMAIN wire = Ends /\ NoReq(wire["client"])
      /\ faults \in Nat /\ counter \in Nat /\ pc = "connect"
      /\ wire["server"] = << >> /\ dev["client"].chan = "none" /\ dev["server"].chan = "none"
  BY DEF IInv, DevOK, WireOK, ClientConnect
<1>2. "client" \in Ends
  BY DEF Ends
<1>3. PICK r \in l2cap_connect(dev["client"]) :
        /\ Commit("client", l2cap_connect(dev["client"]), r, 0)
        /\ pc' = IF r.rc = "OK" THEN "wait" ELSE "panic"
  BY DEF ClientConnect, Commit
<1>4. PICK n \in PoolSizes : Stands(n, "client", dev["client"], pc, faults)
  BY <1>2 DEF IInv, DevOK
<1>5. PICK v : v = dev["client"]
  OBVIOUS
<1>6. Keeps(n, v, {}) /\ v.rx = NULL /\ v.lost = {}
  BY <1>1, <1>4, <1>5 DEF Stands
<1>7. Connected(n, {}, v, r)
  BY <1>3, <1>5, <1>6, ConnectOutcome
<1>8. /\ DOMAIN dev' = Ends /\ dev'["client"] = r.dev /\ dev'["server"] = dev["server"]
      /\ DOMAIN wire' = Ends
      /\ wire'["client"] = SubSeq(wire["client"], 0 + 1, Len(wire["client"]))
      /\ wire'["server"] = (IF up THEN wire["server"] \o r.out ELSE wire["server"])
      /\ faults' = faults + r.faults
  <2>1. Peer("client") = "server"
    BY BothEnds
  <2>2. /\ dev' = [dev EXCEPT !["client"] = r.dev]
       /\ wire' = [wire EXCEPT !["client"] = SubSeq(@, 0 + 1, Len(@)),
                              !["server"] = IF up THEN @ \o r.out ELSE @]
       /\ faults' = faults + r.faults
    BY <1>3, <2>1 DEF Commit
  <2> QED
    BY <1>1, <2>2 DEF Ends
<1>9. counter' = counter /\ pc' # "connect"
  BY <1>3 DEF ClientConnect
<1>10. DevOK'
  <2>1. r.faults \in Nat
    BY <1>7 DEF Connected
  <2>2. faults' = 0 => faults = 0
    BY <1>1, <1>8, <2>1
  <2>3. Stands(n, "client", dev'["client"], pc', faults')
    <3>1. CASE r.rc = "OK"
      <4>1. r.dev.lost = {} /\ r.dev.chan = "opening"
        BY <1>6, <1>7, <3>1 DEF Connected
      <4> QED
        BY <1>4, <1>5, <1>7, <1>8, <2>2, <4>1 DEF Connected, Stands
    <3>2. CASE r.rc # "OK"
      <4>1. r.dev.chan = v.chan /\ r.dev.rx = v.rx /\ pc' = "panic"
        BY <1>3, <1>7, <3>2 DEF Connected
      <4> QED
        BY <1>4, <1>5, <1>7, <1>8, <2>2, <4>1 DEF Connected, Stands
    <3> QED
      BY <3>1, <3>2
  <2>4. dev'[Peer("client")] = dev[Peer("client")]
    BY <1>8, BothEnds
  <2> QED
    BY <1>1, <1>2, <1>8, <2>1, <2>3, <2>4, DevStep DEF IInv
<1>11. NoReq(wire'["client"])
  <2>1. wire["client"] \in Seq(Message)
    BY <1>1 DEF NoReq
  <2> QED
    BY <1>1, <1>8, <2>1, TakeNone
<1>12. ReqFirst(wire'["server"])
  <2>1. r.out = << >> \/ r.out = <<Msg("req", 1)>>
    BY <1>7 DEF Connected
  <2>2. PICK m : m = Msg("req", 1)
    OBVIOUS
  <2>3. m \in Message
    BY <2>2 DEF Msg, Message
  <2>4. wire'["server"] = << >> \/ wire'["server"] = <<m>>
    BY <1>1, <1>8, <2>1, <2>2
  <2>5. ReqFirst(<< >>) /\ ReqFirst(<<m>>)
    BY <2>3 DEF ReqFirst
  <2> QED
    BY <2>4, <2>5
<1>13. WireOK'
  BY <1>1, <1>8, <1>9, <1>11, <1>12 DEF WireOK
<1>14. faults' \in Nat
  BY <1>1, <1>7, <1>8 DEF Connected
<1> QED
  BY <1>1, <1>9, <1>10, <1>13, <1>14 DEF IInv

\* The client sends, or stops.
LEMMA SendIInv ==
  ASSUME IInv, ClientSend
  PROVE  IInv'
<1>1. /\ DOMAIN dev = Ends /\ DOMAIN wire = Ends /\ NoReq(wire["client"])
      /\ ReqFirst(wire["server"]) /\ faults \in Nat /\ counter \in Nat /\ pc = "send"
  BY DEF IInv, DevOK, WireOK, ClientSend
<1>2. "client" \in Ends
  BY DEF Ends
<1>3. CASE pc' = "done" /\ UNCHANGED <<dev, wire, counter, faults>>
  <2>1. DevOK'
    BY <1>1, <1>3 DEF IInv, DevOK, Stands
  <2>2. WireOK'
    BY <1>1, <1>3 DEF IInv, WireOK
  <2> QED
    BY <1>3, <2>1, <2>2 DEF IInv
<1>4. CASE /\ counter' = counter + 1 /\ UNCHANGED pc
           /\ LET rs == {[r EXCEPT !.dev = Refused(@, counter + 1, r.rc)]
                           : r \in l2cap_send(dev["client"], counter + 1)}
              IN  \E r \in rs : Commit("client", rs, r, 0)
  <2>1. PICK m, v : m = counter + 1 /\ v = dev["client"]
    OBVIOUS
  <2>2. PICK RS : RS = {[r EXCEPT !.dev = Refused(@, m, r.rc)] : r \in l2cap_send(v, m)}
    OBVIOUS
  <2>3. PICK s \in RS : Commit("client", RS, s, 0)
    BY <1>4, <2>1, <2>2
  <2>4. PICK r \in l2cap_send(v, m) : s = [r EXCEPT !.dev = Refused(@, m, r.rc)]
    BY <2>2, <2>3
  <2>5. Sendable(m)
    BY <1>1, <2>1 DEF Sendable
  <2>6. PICK n \in PoolSizes : Stands(n, "client", dev["client"], pc, faults)
    BY <1>2 DEF IInv, DevOK
  <2>7. Keeps(n, v, {})
    BY <2>1, <2>6 DEF Stands
  <2>8. Outcome(n, {}, v, r) /\ r.dev.rx = v.rx /\ r.dev.unarmed = v.unarmed
    BY <2>5, <2>7, SendOutcome
  <2>9. PICK u, w : u = r.dev /\ w = Refused(u, m, r.rc)
    OBVIOUS
  <2>10. /\ s.dev = w /\ s.faults = r.faults /\ s.out = r.out /\ r.faults \in Nat
         /\ r.out \in Seq(Reply)
    BY <2>4, <2>8, <2>9 DEF Outcome, IsResult
  <2>11. /\ Keeps(n, w, {}) /\ w.rx = v.rx /\ w.unarmed = v.unarmed /\ w.lost = v.lost
         /\ w.hooked = v.hooked /\ w.chan = v.chan
    <3>1. /\ Keeps(n, u, {}) /\ u.rx = v.rx /\ u.unarmed = v.unarmed /\ u.lost = v.lost
          /\ u.hooked = v.hooked /\ u.chan = v.chan /\ DOMAIN u = Fields /\ u.data \in Nat
      BY <2>8, <2>9 DEF Outcome, Same, Keeps, IsEnd
    <3>2. CASE w = u
      BY <3>1, <3>2
    <3>3. CASE w = [u EXCEPT !.dropped = @ \cup {m}]
      <4>1. /\ DOMAIN w = DOMAIN u /\ w.pool = u.pool /\ w.rx = u.rx /\ w.tx = u.tx
            /\ w.lost = u.lost /\ w.data = u.data /\ w.unarmed = u.unarmed
            /\ w.hooked = u.hooked /\ w.chan = u.chan
        BY <3>1, <3>3 DEF Fields
      <4>2. Keeps(n, w, {})
        BY <3>1, <4>1, KeepsFrame
      <4> QED
        BY <3>1, <4>1, <4>2
    <3> QED
      BY <2>9, <3>2, <3>3 DEF Refused
  <2>12. /\ DOMAIN dev' = Ends /\ dev'["client"] = s.dev /\ dev'["server"] = dev["server"]
         /\ DOMAIN wire' = Ends
         /\ wire'["client"] = SubSeq(wire["client"], 0 + 1, Len(wire["client"]))
         /\ wire'["server"] = (IF up THEN wire["server"] \o s.out ELSE wire["server"])
         /\ faults' = faults + s.faults
    <3>1. Peer("client") = "server"
      BY BothEnds
    <3>2. /\ dev' = [dev EXCEPT !["client"] = s.dev]
         /\ wire' = [wire EXCEPT !["client"] = SubSeq(@, 0 + 1, Len(@)),
                                !["server"] = IF up THEN @ \o s.out ELSE @]
         /\ faults' = faults + s.faults
      BY <2>3, <3>1 DEF Commit
    <3> QED
      BY <1>1, <3>2 DEF Ends
  <2>13. DevOK'
    <3>1. faults' = 0 => faults = 0
      BY <1>1, <2>10, <2>12
    <3>2. Stands(n, "client", dev'["client"], pc', faults')
      BY <1>4, <2>1, <2>6, <2>10, <2>11, <2>12, <3>1 DEF Stands
    <3>3. dev'[Peer("client")] = dev[Peer("client")]
      BY <2>12, BothEnds
    <3> QED
      BY <1>1, <1>2, <1>4, <2>10, <2>12, <3>2, <3>3, DevStep DEF IInv
  <2>14. NoReq(wire'["client"])
    <3>1. wire["client"] \in Seq(Message)
      BY <1>1 DEF NoReq
    <3> QED
      BY <1>1, <2>12, <3>1, TakeNone
  <2>15. PICK t : t = wire["server"]
    OBVIOUS
  <2>16. ReqFirst(wire'["server"]) /\ (NoReq(t) => NoReq(wire'["server"]))
    <3>0. ReqFirst(t) /\ t \in Seq(Message)
      BY <1>1, <2>15 DEF ReqFirst
    <3>1. CASE up
      <4>1. wire'["server"] = t \o r.out
        BY <2>10, <2>12, <2>15, <3>1
      <4> QED
        BY <2>10, <3>0, <4>1, AnswerWire
    <3>2. CASE ~up
      BY <2>12, <2>15, <3>0, <3>2
    <3> QED
      BY <3>1, <3>2
  <2>17. WireOK'
    BY <1>1, <1>4, <2>12, <2>14, <2>15, <2>16 DEF IInv, WireOK
  <2>18. faults' \in Nat /\ counter' \in Nat
    BY <1>1, <1>4, <2>10, <2>12
  <2> QED
    BY <2>13, <2>17, <2>18 DEF IInv
<1> QED
  BY <1>3, <1>4 DEF ClientSend

\* The calls that the example leaves out, and the loss of the link.
LEMMA EnvIInv ==
  ASSUME IInv, Env
  PROVE  IInv'
<1>1. /\ DOMAIN dev = Ends /\ DOMAIN wire = Ends /\ NoReq(wire["client"])
      /\ ReqFirst(wire["server"]) /\ faults \in Nat /\ counter \in Nat
  BY DEF IInv, DevOK, WireOK
<1>2. "server" \in Ends /\ "client" \in Ends
  BY DEF Ends
<1>3. ASSUME NEW d \in Ends, l2cap_disconnect(d) PROVE IInv'
  <2>1. PICK o : o = Msg("disc", 0)
    OBVIOUS
  <2>2. o \in Reply /\ <<o>> \in Seq(Reply)
    BY <2>1 DEF Msg, Reply
  <2>3. /\ DOMAIN wire' = Ends /\ wire'[d] = wire[d]
        /\ wire'[Peer(d)] = (IF up THEN Append(wire[Peer(d)], o) ELSE wire[Peer(d)])
        /\ faults' = faults + 1 /\ dev' = dev /\ pc' = pc /\ counter' = counter
        /\ dev[d].chan = "open"
    BY <1>1, <1>3, <2>1, BothEnds DEF l2cap_disconnect
  <2>4. DevOK'
    <3>1. PICK n \in PoolSizes : Stands(n, d, dev[d], pc, faults)
      BY DEF IInv, DevOK
    <3>2. PICK v, p, f : v = dev[d] /\ p = pc /\ f = faults
      OBVIOUS
    <3>3. Stands(n, d, v, p, f + 1)
      BY <1>1, <3>1, <3>2, StandsOn
    <3>4. Stands(n, d, dev'[d], pc', faults')
      BY <2>3, <3>2, <3>3
    <3> QED
      BY <1>1, <2>3, <3>4, DevStep DEF IInv
  <2>5. PICK t : t = wire[Peer(d)]
    OBVIOUS
  <2>6. ReqFirst(t) /\ (d = "server" => NoReq(t)) /\ t \in Seq(Message)
    BY <1>1, <2>5, BothEnds DEF Ends, NoReq, ReqFirst
  <2>7. ReqFirst(wire'[Peer(d)]) /\ (NoReq(t) => NoReq(wire'[Peer(d)]))
    <3>1. CASE up
      <4>1. Append(t, o) = t \o <<o>>
        BY <2>6
      <4>2. wire'[Peer(d)] = t \o <<o>>
        BY <2>3, <2>5, <3>1, <4>1
      <4> QED
        BY <2>2, <2>6, <4>2, AnswerWire
    <3>2. CASE ~up
      BY <2>3, <2>5, <2>6, <3>2
    <3> QED
      BY <3>1, <3>2
  <2>8. WireOK'
    <3>1. pc # "connect"
      BY <2>3 DEF IInv, WireOK, Ends
    <3>2. CASE d = "server"
      BY <1>1, <2>3, <2>5, <2>6, <2>7, <3>1, <3>2, BothEnds DEF IInv, WireOK
    <3>3. CASE d = "client"
      BY <1>1, <2>3, <2>5, <2>6, <2>7, <3>1, <3>3, BothEnds DEF IInv, WireOK
    <3> QED
      BY <3>2, <3>3 DEF Ends
  <2> QED
    BY <1>1, <2>3, <2>4, <2>8 DEF IInv
<1>4. ASSUME NEW x, dev' = [dev EXCEPT !["server"].hooked = x], wire' = wire, pc' = pc,
             counter' = counter, NEW g \in Nat, faults' = faults + g, x = TRUE \/ g # 0
      PROVE  IInv'
  <2>1. PICK n \in PoolSizes : Stands(n, "server", dev["server"], pc, faults)
    BY <1>2 DEF IInv, DevOK
  <2>2. PICK v : v = dev["server"]
    OBVIOUS
  <2>3. PICK w : w = [v EXCEPT !.hooked = x]
    OBVIOUS
  <2>4. DOMAIN dev' = Ends /\ dev'["server"] = w /\ dev'["client"] = dev["client"]
    BY <1>1, <1>2, <1>4, <2>2, <2>3
  <2>5. Keeps(n, v, {}) /\ DOMAIN v = Fields /\ v.data \in Nat
    BY <2>1, <2>2 DEF Stands, Keeps, IsEnd
  <2>6. /\ DOMAIN w = DOMAIN v /\ w.pool = v.pool /\ w.rx = v.rx /\ w.tx = v.tx
        /\ w.lost = v.lost /\ w.data = v.data /\ w.unarmed = v.unarmed
        /\ w.hooked = x /\ w.chan = v.chan
    BY <2>3, <2>5 DEF Fields
  <2>7. Keeps(n, w, {})
    BY <2>5, <2>6, KeepsFrame
  <2>8. faults' = 0 => faults = 0 /\ x = TRUE
    BY <1>1, <1>4
  <2>9. Stands(n, "server", dev'["server"], pc', faults')
    BY <1>4, <2>1, <2>2, <2>4, <2>6, <2>7, <2>8 DEF Stands
  <2>10. DevOK'
    <3>1. dev'[Peer("server")] = dev[Peer("server")]
      BY <2>4, BothEnds
    <3> QED
      BY <1>1, <1>2, <1>4, <2>4, <2>9, <3>1, DevStep DEF IInv
  <2>11. WireOK'
    BY <1>4, <2>2, <2>4, <2>6 DEF IInv, WireOK
  <2>12. faults' \in Nat
    BY <1>1, <1>4
  <2> QED
    BY <1>1, <1>4, <2>10, <2>11, <2>12 DEF IInv
<1>5. CASE l2cap_unsubscribe
  <2>1. /\ dev' = [dev EXCEPT !["server"].hooked = FALSE] /\ wire' = wire /\ pc' = pc
        /\ counter' = counter /\ faults' = faults + 1 /\ 1 \in Nat /\ 1 # 0
    BY <1>5 DEF l2cap_unsubscribe
  <2> QED
    BY <1>4, <2>1
<1>6. CASE l2cap_subscribe
  <2>1. /\ dev' = [dev EXCEPT !["server"].hooked = TRUE] /\ wire' = wire /\ pc' = pc
        /\ counter' = counter /\ faults' = faults + 0 /\ 0 \in Nat
    BY <1>1, <1>6 DEF l2cap_subscribe
  <2> QED
    BY <1>4, <2>1
<1>7. CASE LinkLoss
  <2>1. /\ wire' = [d \in Ends |-> << >>] /\ dev' = dev /\ pc' = pc /\ counter' = counter
        /\ faults' = faults
    BY <1>7 DEF LinkLoss
  <2>2. NoReq(<< >>) /\ ReqFirst(<< >>)
    BY DEF NoReq, ReqFirst
  <2>3. WireOK'
    BY <1>2, <2>1, <2>2 DEF IInv, WireOK
  <2>4. DevOK'
    BY <2>1 DEF IInv, DevOK
  <2> QED
    BY <2>1, <2>3, <2>4 DEF IInv
<1> QED
  BY <1>3, <1>5, <1>6, <1>7 DEF Env

\* An end notices that the link is gone.
LEMMA LinkLostIInv ==
  ASSUME IInv, NEW d \in Ends, LinkLost(d)
  PROVE  IInv'
<1>1. /\ DOMAIN dev = Ends /\ faults \in Nat /\ counter \in Nat
      /\ wire' = wire /\ pc' = pc /\ counter' = counter /\ faults' = faults
      /\ (d = "client" => pc # "panic")
  BY DEF IInv, DevOK, LinkLost, Runs
<1>2. PICK v, p, f : v = dev[d] /\ p = pc /\ f = faults
  OBVIOUS
<1>3. PICK n \in PoolSizes : Stands(n, d, v, p, f)
  BY <1>2 DEF IInv, DevOK
<1>4. PICK r : /\ \/ v.chan \in {"opening", "open"} /\ r \in chan_free(d, v)
                  \/ r = Result(v, "OK", << >>, 0)
               /\ dev' = [dev EXCEPT ![d] = on_gap_disconnect(r.dev)]
  BY <1>2 DEF LinkLost
<1>5. /\ Stands(n, d, r.dev, p, f)
      /\ r.dev.chan = "none" => v.chan = "none"
      /\ r.dev.chan = v.chan \/ v.chan # "none"
  <2>1. CASE v.chan \in {"opening", "open"} /\ r \in chan_free(d, v)
    <3>1. Keeps(n, v, {})
      BY <1>3 DEF Stands
    <3>2. Handled(n, v, r) /\ r.faults = 0
      BY <2>1, <3>1, ChanFreeHandled DEF AllClosed
    <3>3. Stands(n, d, r.dev, p, f + r.faults)
      BY <1>1, <1>2, <1>3, <3>2, StandsHandled
    <3>4. f + r.faults = f
      BY <1>1, <1>2, <3>2
    <3>5. r.dev.chan # "none" /\ v.chan # "none"
      BY <2>1, <3>2 DEF Handled
    <3> QED
      BY <3>3, <3>4, <3>5
  <2>2. CASE r = Result(v, "OK", << >>, 0)
    <3>1. r.dev = v
      BY <2>2 DEF Result
    <3> QED
      BY <1>3, <3>1
  <2> QED
    BY <1>4, <2>1, <2>2
<1>6. PICK u, w : u = r.dev /\ w = on_gap_disconnect(u)
  OBVIOUS
<1>7. Keeps(n, u, {}) /\ DOMAIN u = Fields /\ u.data \in Nat
  BY <1>5, <1>6 DEF Stands, Keeps, IsEnd
<1>8. /\ DOMAIN w = DOMAIN u /\ w.pool = u.pool /\ w.rx = u.rx /\ w.tx = u.tx
      /\ w.lost = u.lost /\ w.data = u.data /\ w.unarmed = u.unarmed
      /\ w.hooked = u.hooked /\ w.chan = u.chan
  BY <1>6, <1>7 DEF on_gap_disconnect, Fields
<1>9. Keeps(n, w, {})
  BY <1>7, <1>8, KeepsFrame
<1>10. Stands(n, d, w, p, f)
  BY <1>5, <1>6, <1>8, <1>9 DEF Stands
<1>11. DOMAIN dev' = Ends /\ dev'[d] = w /\ dev'[Peer(d)] = dev[Peer(d)]
  BY <1>1, <1>4, <1>6, BothEnds
<1>12. DevOK'
  <2>1. faults' = faults + 0
    BY <1>1
  <2>2. Stands(n, d, dev'[d], pc', faults')
    BY <1>1, <1>2, <1>10, <1>11
  <2> QED
    BY <1>1, <1>11, <2>1, <2>2, DevStep DEF IInv
<1>13. \A e \in Ends : (dev'[e].chan = "none") = (dev[e].chan = "none")
  BY <1>2, <1>5, <1>6, <1>8, <1>11, BothEnds
<1>14. WireOK'
  <2>1. /\ dev'["server"].chan # "none" => dev["server"].chan # "none"
        /\ dev["server"].chan = "none" => dev'["server"].chan = "none"
        /\ dev["client"].chan = "none" => dev'["client"].chan = "none"
    BY <1>13 DEF Ends
  <2> QED
    BY <1>1, <2>1 DEF IInv, WireOK
<1> QED
  BY <1>1, <1>12, <1>14 DEF IInv

\* Every step keeps the invariant.
LEMMA NextIInv ==
  ASSUME IInv, [Next]_vars
  PROVE  IInv'
<1>1. CASE Host
  BY <1>1, ReceiveIInv, LinkLostIInv DEF Host
<1>2. CASE ClientConnect
  BY <1>2, ConnectIInv
<1>3. CASE ClientWait
  <2>1. /\ dev' = dev /\ wire' = wire /\ counter' = counter /\ faults' = faults
        /\ pc = "wait" /\ pc' = "send"
    BY <1>3 DEF ClientWait
  <2>2. DevOK'
    BY <2>1 DEF IInv, DevOK, Stands
  <2>3. WireOK'
    BY <2>1 DEF IInv, WireOK
  <2> QED
    BY <2>1, <2>2, <2>3 DEF IInv
<1>4. CASE ClientSend
  BY <1>4, SendIInv
<1>5. CASE Env
  BY <1>5, EnvIInv
<1>6. CASE UNCHANGED vars
  BY <1>6 DEF vars, IInv, DevOK, WireOK
<1> QED
  BY <1>1, <1>2, <1>3, <1>4, <1>5, <1>6 DEF Next, Client

\* The invariant of the two ends, the wires and the client's program holds
\* throughout, whatever the sizes of the pools.
THEOREM Inductive == Spec => []IInv
BY InitIInv, NextIInv, PTL DEF Spec

\* Every buffer of both pools has exactly one owner in every state, for any pool
\* sizes and any number of SDUs and faults; only the connect that ends in the
\* client's panic may give one up.
THEOREM OwnedOnce == Spec => []BuffersOwnedOnce
<1>1. IInv => BuffersOwnedOnce
  <2> SUFFICES ASSUME IInv, NEW d \in Ends
               PROVE  /\ \A b \in DOMAIN dev[d].pool : Holders(dev[d], b) = 1
                      /\ dev[d].lost # {} => d = "client" /\ pc = "panic"
    BY DEF BuffersOwnedOnce
  <2>1. PICK v : v = dev[d]
    OBVIOUS
  <2>2. PICK n \in PoolSizes : Stands(n, d, v, pc, faults)
    BY <2>1 DEF IInv, DevOK
  <2>3. Keeps(n, v, {}) /\ (v.lost # {} => d = "client" /\ pc = "panic")
    BY <2>2 DEF Stands
  <2>4. v.pool \in [1..n -> Nat]
    BY <2>3 DEF Keeps, IsEnd
  <2>5. ASSUME NEW b \in DOMAIN v.pool PROVE Holders(v, b) = 1
    <3>1. b \in 1..n /\ v.pool[b] \in Nat
      BY <2>4
    <3>2. Owners(v, {}, b) = 1
      BY <2>3, <3>1 DEF Keeps
    <3>3. Holders(v, b) = v.pool[b] + (IF v.rx = b THEN 1 ELSE 0) + (IF v.tx = b THEN 1 ELSE 0)
                            + (IF b \in v.lost THEN 1 ELSE 0)
      BY <3>1, HoldersCount
    <3> QED
      BY <3>1, <3>2, <3>3 DEF Owners
  <2> QED
    BY <2>1, <2>3, <2>5
<1> QED
  BY <1>1, Inductive, PTL

\* With three buffers or more, as long as no call of the C host failed, no event
\* of either end went without a receive buffer.
THEOREM PoolSuffices == Spec => []NeverStarved
<1>1. IInv => NeverStarved
  <2> SUFFICES ASSUME IInv, NEW d \in Ends, Cardinality(DOMAIN dev[d].pool) >= 3, faults = 0
               PROVE  ~dev[d].unarmed
    BY DEF NeverStarved
  <2>1. PICK n \in PoolSizes : Stands(n, d, dev[d], pc, faults)
    BY DEF IInv, DevOK
  <2>2. n \in Nat /\ DOMAIN dev[d].pool = 1..n
    BY <2>1 DEF Stands, Keeps, IsEnd
  <2>3. Cardinality(1..n) = n
    BY <2>2, FS_Interval
  <2>4. n >= 3
    BY <2>2, <2>3
  <2>5. dev[d].unarmed = FALSE
    BY <2>1, <2>4 DEF Stands
  <2> QED
    BY <2>5
<1> QED
  BY <1>1, Inductive, PTL

-----------------------------------------------------------------------------
(* The echoes.  A number is in one place at a time, and the places are in  *)
(* the order of the numbers: those that came back, those on their way to   *)
(* the client, the one that waits at the server, those on their way to the *)
(* server, the one that waits at the client.                               *)

IsSdu(s, i) == i \in 1..Len(s) /\ s[i].type = "sdu"
Carried(s) == {s[i].val : i \in {j \in 1..Len(s) : s[j].type = "sdu"}}
Rising(s) == \A i, j \in 1..Len(s) : IsSdu(s, i) /\ IsSdu(s, j) /\ i < j => s[i].val < s[j].val
Waits(v) == IF v.tx = NULL THEN {} ELSE {v.data}
Below(A, B) == \A a \in A : \A b \in B : a < b

\* The five places in order; the numbers up to k were sent, those of D refused.
Line(E, C, T, S, W, k, D) ==
  /\ k \in Nat /\ E \cup C \cup T \cup S \cup W \cup D \subseteq 1..k
  /\ Below(E, C) /\ Below(E, T) /\ Below(E, S) /\ Below(E, W)
  /\ Below(C, T) /\ Below(C, S) /\ Below(C, W)
  /\ Below(T, S) /\ Below(T, W) /\ Below(S, W)
  /\ (E \cup C \cup T \cup S \cup W) \cap D = {}

Echoed == {echoes[i] : i \in 1..Len(echoes)}

EchoOK ==
  /\ echoes \in Seq(Nat)
  /\ \A i, j \in 1..Len(echoes) : i < j => echoes[i] < echoes[j]
  /\ Rising(wire["client"]) /\ Rising(wire["server"])
  /\ Line(Echoed, Carried(wire["client"]), Waits(dev["server"]), Carried(wire["server"]),
          Waits(dev["client"]), counter, dev["client"].dropped \cup dev["server"].dropped)

\* A step of an end that is offered the numbers N while T wait: it says O, T2
\* wait, and the refused numbers grow from D to D2.
Passes(T, N, O, T2, D, D2) ==
  \/ D2 \subseteq D /\ T2 = {} /\ (O \subseteq T \/ (O \subseteq N /\ T = {}))
  \/ D2 \subseteq D /\ O = {} /\ T = {} /\ T2 \subseteq N
  \/ O = {} /\ T2 \subseteq T /\ D2 \subseteq D \cup N \cup (T \ T2)

-----------------------------------------------------------------------------
(* The line.                                                               *)

\* Numbers may go.
LEMMA LineLess ==
  ASSUME NEW E, NEW C, NEW T, NEW S, NEW W, NEW k, NEW D, Line(E, C, T, S, W, k, D),
         NEW C2, NEW T2, NEW S2, NEW W2, NEW D2, C2 \subseteq C, T2 \subseteq T, S2 \subseteq S,
         W2 \subseteq W, D2 \subseteq D
  PROVE  Line(E, C2, T2, S2, W2, k, D2)
BY DEF Line, Below

\* Numbers that reach the client are heard, or not.
LEMMA LineHeard ==
  ASSUME NEW E, NEW C, NEW T, NEW S, NEW W, NEW k, NEW D, Line(E, C, T, S, W, k, D),
         NEW N, NEW C2, NEW E2, C = N \cup C2, Below(N, C2), E2 \subseteq E \cup N
  PROVE  Line(E2, C2, T, S, W, k, D) /\ Below(E, N)
BY DEF Line, Below

\* The server is offered N.
LEMMA LineServer ==
  ASSUME NEW E, NEW C, NEW T, NEW S, NEW W, NEW k, NEW D, Line(E, C, T, S, W, k, D),
         NEW N, NEW S2, S = N \cup S2, Below(N, S2),
         NEW O, NEW T2, NEW D2, Passes(T, N, O, T2, D, D2)
  PROVE  Line(E, C \cup O, T2, S2, W, k, D2) /\ Below(C, O)
<1>1. k \in Nat /\ E \cup C \cup T \cup N \cup S2 \cup W \cup D \subseteq 1..k
  BY DEF Line
<1>2. O \subseteq 1..k /\ T2 \subseteq 1..k /\ D2 \subseteq 1..k
  BY <1>1 DEF Passes
<1>3. CASE D2 \subseteq D /\ T2 = {} /\ (O \subseteq T \/ (O \subseteq N /\ T = {}))
  BY <1>1, <1>2, <1>3 DEF Line, Below
<1>4. CASE D2 \subseteq D /\ O = {} /\ T = {} /\ T2 \subseteq N
  BY <1>1, <1>2, <1>4 DEF Line, Below
<1>5. CASE O = {} /\ T2 \subseteq T /\ D2 \subseteq D \cup N \cup (T \ T2)
  <2>1. /\ Below(E, C) /\ Below(E, T2) /\ Below(E, S2) /\ Below(E, W) /\ Below(C, T2)
        /\ Below(C, S2) /\ Below(C, W) /\ Below(T2, S2) /\ Below(T2, W) /\ Below(S2, W)
    BY <1>5 DEF Line, Below
  <2>2. ASSUME NEW x \in E \cup C \cup T2 \cup S2 \cup W PROVE x \notin D2
    <3>1. x \notin D
      BY <1>5 DEF Line
    <3>2. x \notin N
      BY <1>1, <1>5 DEF Line, Below
    <3>3. x \in T => x \in T2
      BY <1>1, <1>5 DEF Line, Below
    <3> QED
      BY <1>5, <3>1, <3>2, <3>3
  <2>3. C \cup O = C /\ Below(C, O)
    BY <1>5 DEF Below
  <2> QED
    BY <1>1, <1>2, <2>1, <2>2, <2>3 DEF Line
<1> QED
  BY <1>3, <1>4, <1>5 DEF Passes

\* The client is offered N, the number after the last one if any.
LEMMA LineClient ==
  ASSUME NEW E, NEW C, NEW T, NEW S, NEW W, NEW k, NEW D, Line(E, C, T, S, W, k, D),
         NEW N, NEW k2, (k2 = k /\ N = {}) \/ (k2 = k + 1 /\ N = {k + 1}),
         NEW O, NEW W2, NEW D2, Passes(W, N, O, W2, D, D2)
  PROVE  Line(E, C, T, S \cup O, W2, k2, D2) /\ Below(S, O)
<1>1. k \in Nat /\ E \cup C \cup T \cup S \cup W \cup D \subseteq 1..k
  BY DEF Line
<1>2. k2 \in Nat /\ N \subseteq 1..k2 /\ 1..k \subseteq 1..k2 /\ Below(1..k, N)
  BY <1>1 DEF Below
<1>3. O \subseteq 1..k2 /\ W2 \subseteq 1..k2 /\ D2 \subseteq 1..k2
  BY <1>1, <1>2 DEF Passes
<1>4. CASE D2 \subseteq D /\ W2 = {} /\ (O \subseteq W \/ (O \subseteq N /\ W = {}))
  <2>1. /\ Below(E, S \cup O) /\ Below(C, S \cup O) /\ Below(T, S \cup O) /\ Below(S, O)
    BY <1>1, <1>2, <1>4 DEF Line, Below
  <2>2. /\ Below(E, W2) /\ Below(C, W2) /\ Below(T, W2) /\ Below(S \cup O, W2)
    BY <1>1, <1>2, <1>4 DEF Line, Below
  <2>3. ASSUME NEW x \in E \cup C \cup T \cup S \cup O \cup W2 PROVE x \notin D2
    <3>1. x \in E \cup C \cup T \cup S \cup W => x \notin D /\ x \notin N
      BY <1>1, <1>2 DEF Line, Below
    <3>2. x \in N => x \notin D
      BY <1>1, <1>2 DEF Line, Below
    <3>3. x \in E \cup C \cup T \cup S => x \notin W
      BY <1>1 DEF Line, Below
    <3> QED
      BY <1>4, <3>1, <3>2, <3>3
  <2> QED
    BY <1>1, <1>2, <1>3, <2>1, <2>2, <2>3 DEF Line
<1>5. CASE D2 \subseteq D /\ O = {} /\ W = {} /\ W2 \subseteq N
  <2>1. /\ Below(E, S \cup O) /\ Below(C, S \cup O) /\ Below(T, S \cup O) /\ Below(S, O)
    BY <1>1, <1>2, <1>5 DEF Line, Below
  <2>2. /\ Below(E, W2) /\ Below(C, W2) /\ Below(T, W2) /\ Below(S \cup O, W2)
    BY <1>1, <1>2, <1>5 DEF Line, Below
  <2>3. ASSUME NEW x \in E \cup C \cup T \cup S \cup O \cup W2 PROVE x \notin D2
    <3>1. x \in E \cup C \cup T \cup S \cup W => x \notin D /\ x \notin N
      BY <1>1, <1>2 DEF Line, Below
    <3>2. x \in N => x \notin D
      BY <1>1, <1>2 DEF Line, Below
    <3>3. x \in E \cup C \cup T \cup S => x \notin W
      BY <1>1 DEF Line, Below
    <3> QED
      BY <1>5, <3>1, <3>2, <3>3
  <2> QED
    BY <1>1, <1>2, <1>3, <2>1, <2>2, <2>3 DEF Line
<1>6. CASE O = {} /\ W2 \subseteq W /\ D2 \subseteq D \cup N \cup (W \ W2)
  <2>1. /\ Below(E, S \cup O) /\ Below(C, S \cup O) /\ Below(T, S \cup O) /\ Below(S, O)
    BY <1>1, <1>2, <1>6 DEF Line, Below
  <2>2. /\ Below(E, W2) /\ Below(C, W2) /\ Below(T, W2) /\ Below(S \cup O, W2)
    BY <1>1, <1>2, <1>6 DEF Line, Below
  <2>3. ASSUME NEW x \in E \cup C \cup T \cup S \cup O \cup W2 PROVE x \notin D2
    <3>1. x \in E \cup C \cup T \cup S \cup W => x \notin D /\ x \notin N
      BY <1>1, <1>2 DEF Line, Below
    <3>2. x \in N => x \notin D
      BY <1>1, <1>2 DEF Line, Below
    <3>3. x \in E \cup C \cup T \cup S => x \notin W
      BY <1>1 DEF Line, Below
    <3> QED
      BY <1>6, <3>1, <3>2, <3>3
  <2> QED
    BY <1>1, <1>2, <1>3, <2>1, <2>2, <2>3 DEF Line
<1> QED
  BY <1>4, <1>5, <1>6 DEF Passes

-----------------------------------------------------------------------------
(* The numbers on a wire.                                                  *)

\* What is said comes after what was said.
LEMMA CarriedConcat ==
  ASSUME NEW s \in Seq(Message), NEW o \in Seq(Message)
  PROVE  /\ Carried(s \o o) = Carried(s) \cup Carried(o)
         /\ Rising(s) /\ Rising(o) /\ Below(Carried(s), Carried(o)) => Rising(s \o o)
<1>1. PICK t : t = s \o o
  OBVIOUS
<1>2. PICK a, b : a = Len(s) /\ b = Len(o)
  OBVIOUS
<1>3. /\ a \in Nat /\ b \in Nat /\ Len(t) = a + b
      /\ \A i \in 1..a + b : t[i] = IF i <= a THEN s[i] ELSE o[i - a]
  BY <1>1, <1>2, ConcatProperties
<1>4. \A i \in 1..a : i \in 1..a + b /\ t[i] = s[i]
  BY <1>3
<1>5. \A i \in 1..b : i + a \in 1..a + b /\ t[i + a] = o[i]
  BY <1>3
<1>6. ASSUME NEW i \in 1..a + b
      PROVE  (i \in 1..a /\ t[i] = s[i]) \/ (i - a \in 1..b /\ t[i] = o[i - a])
  <2>1. CASE i <= a
    BY <1>3, <2>1
  <2>2. CASE ~(i <= a)
    BY <1>3, <2>2
  <2> QED
    BY <2>1, <2>2
<1>7. Carried(t) = Carried(s) \cup Carried(o)
  <2>1. ASSUME NEW x \in Carried(t) PROVE x \in Carried(s) \cup Carried(o)
    <3>1. PICK i \in 1..a + b : t[i].type = "sdu" /\ x = t[i].val
      BY <1>3, <2>1 DEF Carried
    <3> QED
      BY <1>2, <1>6, <3>1 DEF Carried
  <2>2. ASSUME NEW x \in Carried(s) PROVE x \in Carried(t)
    <3>1. PICK i \in 1..a : s[i].type = "sdu" /\ x = s[i].val
      BY <1>2, <2>2 DEF Carried
    <3> QED
      BY <1>3, <1>4, <3>1 DEF Carried
  <2>3. ASSUME NEW x \in Carried(o) PROVE x \in Carried(t)
    <3>1. PICK i \in 1..b : o[i].type = "sdu" /\ x = o[i].val
      BY <1>2, <2>3 DEF Carried
    <3> QED
      BY <1>3, <1>5, <3>1 DEF Carried
  <2> QED
    BY <2>1, <2>2, <2>3
<1>8. ASSUME Rising(s), Rising(o), Below(Carried(s), Carried(o)) PROVE Rising(t)
  <2> SUFFICES ASSUME NEW i \in 1..a + b, NEW j \in 1..a + b, t[i].type = "sdu",
                      t[j].type = "sdu", i < j
               PROVE  t[i].val < t[j].val
    BY <1>3 DEF Rising, IsSdu
  <2>1. CASE i \in 1..a /\ j \in 1..a
    BY <1>2, <1>4, <1>8, <2>1 DEF Rising, IsSdu
  <2>2. CASE i \in 1..a /\ j - a \in 1..b
    <3>1. t[i] = s[i] /\ t[j] = o[j - a]
      BY <1>3, <2>2
    <3>2. s[i].val \in Carried(s) /\ o[j - a].val \in Carried(o)
      BY <1>2, <2>2, <3>1 DEF Carried
    <3> QED
      BY <1>8, <3>1, <3>2 DEF Below
  <2>3. CASE i - a \in 1..b /\ j - a \in 1..b
    <3>1. t[i] = o[i - a] /\ t[j] = o[j - a] /\ i - a < j - a
      BY <1>3, <2>3
    <3> QED
      BY <1>2, <1>8, <2>3, <3>1 DEF Rising, IsSdu
  <2> QED
    BY <1>3, <2>1, <2>2, <2>3
<1> QED
  BY <1>1, <1>7, <1>8

\* The numbers in the first message of a wire.
First(m) == IF m.type = "sdu" THEN {m.val} ELSE {}

\* The first message is taken.
LEMMA CarriedTail ==
  ASSUME NEW s \in Seq(Message), s # << >>, Rising(s), NEW t, t = SubSeq(s, 2, Len(s))
  PROVE  /\ Carried(s) = First(s[1]) \cup Carried(t)
         /\ Below(First(s[1]), Carried(t)) /\ Rising(t)
<1>1. PICK a : a = Len(s)
  OBVIOUS
<1>2. a \in Nat /\ a >= 1 /\ \A i \in 1..a : s[i] \in Message
  BY <1>1
<1>3. \A i \in 2..a : s[i] \in Message
  BY <1>2
<1>4. /\ Len(t) = (IF 2 <= a THEN a - 2 + 1 ELSE 0)
      /\ \A i \in 1..(a - 2 + 1) : t[i] = s[2 + i - 1]
  BY <1>1, <1>2, <1>3, SubSeqProperties
<1>5. Len(t) = a - 1
  BY <1>2, <1>4
<1>6. \A i \in 1..Len(t) : t[i] = s[i + 1] /\ i + 1 \in 2..a
  BY <1>2, <1>4, <1>5
<1>7. Carried(s) = First(s[1]) \cup Carried(t)
  <2>1. ASSUME NEW x \in Carried(s) PROVE x \in First(s[1]) \cup Carried(t)
    <3>1. PICK i \in 1..a : s[i].type = "sdu" /\ x = s[i].val
      BY <1>1, <2>1 DEF Carried
    <3>2. CASE i = 1
      BY <3>1, <3>2 DEF First
    <3>3. CASE i # 1
      <4>1. i - 1 \in 1..Len(t) /\ t[i - 1] = s[i]
        BY <1>2, <1>4, <1>5, <3>3
      <4> QED
        BY <3>1, <4>1 DEF Carried
    <3> QED
      BY <3>2, <3>3
  <2>2. ASSUME NEW x \in First(s[1]) PROVE x \in Carried(s)
    BY <1>1, <1>2, <2>2 DEF First, Carried
  <2>3. ASSUME NEW x \in Carried(t) PROVE x \in Carried(s)
    <3>1. PICK i \in 1..Len(t) : t[i].type = "sdu" /\ x = t[i].val
      BY <2>3 DEF Carried
    <3>2. i + 1 \in 1..a /\ t[i] = s[i + 1]
      BY <1>2, <1>6
    <3> QED
      BY <1>1, <3>1, <3>2 DEF Carried
  <2> QED
    BY <2>1, <2>2, <2>3
<1>8. Below(First(s[1]), Carried(t))
  <2> SUFFICES ASSUME NEW x \in First(s[1]), NEW y \in Carried(t) PROVE x < y
    BY DEF Below
  <2>1. PICK i \in 1..Len(t) : t[i].type = "sdu" /\ y = t[i].val
    BY DEF Carried
  <2>2. i + 1 \in 1..a /\ t[i] = s[i + 1] /\ 1 \in 1..a /\ 1 < i + 1
    BY <1>2, <1>5, <1>6
  <2>3. s[1].type = "sdu" /\ x = s[1].val
    BY DEF First
  <2> QED
    BY <1>1, <2>1, <2>2, <2>3 DEF Rising, IsSdu
<1>9. Rising(t)
  <2> SUFFICES ASSUME NEW i \in 1..Len(t), NEW j \in 1..Len(t), t[i].type = "sdu",
                      t[j].type = "sdu", i < j
               PROVE  t[i].val < t[j].val
    BY DEF Rising, IsSdu
  <2>1. /\ t[i] = s[i + 1] /\ t[j] = s[j + 1] /\ i + 1 < j + 1
        /\ i + 1 \in 1..a /\ j + 1 \in 1..a
    BY <1>2, <1>5, <1>6
  <2> QED
    BY <1>1, <2>1 DEF Rising, IsSdu
<1> QED
  BY <1>7, <1>8, <1>9

\* What an end says: nothing, or one message.
LEMMA SayOne ==
  /\ Seq(Reply) \subseteq Seq(Message)
  /\ << >> \in Seq(Reply) /\ Carried(<< >>) = {} /\ Rising(<< >>)
  /\ \A m \in Message : Carried(<<m>>) = First(m) /\ Rising(<<m>>)
  /\ \A s \in Seq(Message) : Carried(s) = {} => Rising(s)
<1>1. Reply \subseteq Message
  BY DEF Reply, Message
<1>2. Seq(Reply) \subseteq Seq(Message)
  BY <1>1
<1>3. Carried(<< >>) = {} /\ Rising(<< >>)
  BY DEF Carried, Rising
<1>4. ASSUME NEW m \in Message PROVE Carried(<<m>>) = First(m) /\ Rising(<<m>>)
  <2>1. PICK s : s = <<m>>
    OBVIOUS
  <2>2. Len(s) = 1 /\ s[1] = m /\ \A i \in 1..Len(s) : i = 1
    BY <2>1
  <2>3. Carried(s) = First(m)
    BY <2>2 DEF Carried, First
  <2>4. Rising(s)
    BY <2>2 DEF Rising
  <2> QED
    BY <2>1, <2>3, <2>4
<1>5. ASSUME NEW s \in Seq(Message), Carried(s) = {} PROVE Rising(s)
  BY <1>5 DEF Carried, Rising, IsSdu
<1> QED
  BY <1>2, <1>3, <1>4, <1>5

-----------------------------------------------------------------------------
(* The calls and the events again, for the numbers.                        *)

\* No number moves, but the one that waits may be gone.
Settled(v, w) == DOMAIN w = Fields /\ Waits(w) \subseteq Waits(v) /\ w.dropped = v.dropped

Still(v, r) == IsResult(r) /\ Carried(r.out) = {} /\ Settled(v, r.dev)
AllStill(v, S) == \A r \in S : Still(v, r)

Moved(v, r, N) ==
  /\ IsResult(r) /\ DOMAIN r.dev = Fields /\ Rising(r.out)
  /\ Passes(Waits(v), N, Carried(r.out), Waits(r.dev), v.dropped, r.dev.dropped)

AllMoved(v, S, N) == \A r \in S : Moved(v, r, N)

\* The same number waits and the same are refused.
LEMMA SettledSame ==
  ASSUME NEW v, NEW w, DOMAIN w = Fields, w.tx = v.tx, w.data = v.data, w.dropped = v.dropped
  PROVE  Settled(v, w) /\ Waits(w) = Waits(v)
BY DEF Settled, Waits

\* Allocating and freeing buffers.
LEMMA PoolSettled ==
  ASSUME NEW v, NEW b, DOMAIN v = Fields
  PROVE  /\ PoolOnly(v, free_mbuf(v, b)) /\ PoolOnly(v, Taken(v, b))
         /\ Settled(v, free_mbuf(v, b)) /\ Waits(free_mbuf(v, b)) = Waits(v)
         /\ Settled(v, Taken(v, b)) /\ Waits(Taken(v, b)) = Waits(v)
<1>1. PICK u, w : u = free_mbuf(v, b) /\ w = Taken(v, b)
  OBVIOUS
<1>2. PICK g, h : /\ u = v \/ u = [v EXCEPT !.pool = g]
                  /\ w = [v EXCEPT !.pool = h]
  BY <1>1 DEF free_mbuf, Taken
<1>3. PoolOnly(v, u) /\ PoolOnly(v, w)
  BY <1>2 DEF PoolOnly, Fields
<1>4. /\ DOMAIN u = Fields /\ u.tx = v.tx /\ u.data = v.data /\ u.dropped = v.dropped
      /\ DOMAIN w = Fields /\ w.tx = v.tx /\ w.data = v.data /\ w.dropped = v.dropped
  BY <1>3 DEF PoolOnly, Fields
<1> QED
  BY <1>1, <1>3, <1>4, SettledSame

\* One thing after another.
LEMMA SettledOn ==
  ASSUME NEW u, NEW v, NEW w, Settled(u, v), Settled(v, w)
  PROVE  Settled(u, w)
BY DEF Settled

\* A number that moved goes no further.
LEMMA MovedOn ==
  ASSUME NEW v, NEW r, NEW s, NEW N, IsResult(s), Settled(r.dev, s.dev),
         Rising(s.out), Carried(s.out) = Carried(r.out), Moved(v, r, N)
  PROVE  Moved(v, s, N)
<1>1. PICK T, T1, T2, O, D, D1, D2 :
        /\ T = Waits(v) /\ T1 = Waits(r.dev) /\ T2 = Waits(s.dev) /\ O = Carried(s.out)
        /\ D = v.dropped /\ D1 = r.dev.dropped /\ D2 = s.dev.dropped
  OBVIOUS
<1>2. T2 \subseteq T1 /\ D2 = D1 /\ Passes(T, N, O, T1, D, D1)
  BY <1>1 DEF Moved, Settled
<1>3. Passes(T, N, O, T2, D, D2)
  BY <1>2 DEF Passes
<1> QED
  BY <1>1, <1>3 DEF Moved, Settled

\* A step that moves nothing may be offered any number.
LEMMA StillMoved ==
  ASSUME NEW v, NEW r, NEW N, Still(v, r)
  PROVE  Moved(v, r, N)
<1>1. Rising(r.out)
  BY SayOne DEF Still, IsResult
<1>2. Passes(Waits(v), N, {}, Waits(r.dev), v.dropped, r.dev.dropped)
  BY DEF Passes, Still, Settled
<1> QED
  BY <1>1, <1>2 DEF Moved, Still, Settled

\* Two calls in a row, of which the second moves nothing.
LEMMA ThenStill ==
  ASSUME NEW v, NEW r, NEW q, NEW N, Still(r.dev, q)
  PROVE  /\ Still(v, r) => Still(v, Then(r, q))
         /\ Moved(v, r, N) => Moved(v, Then(r, q), N)
<1>1. PICK t : t = Then(r, q)
  OBVIOUS
<1>2. ASSUME IsResult(r), Rising(r.out)
      PROVE  /\ IsResult(t) /\ t.dev = q.dev
             /\ Carried(t.out) = Carried(r.out) /\ Rising(t.out)
  <2>1. IsResult(q)
    BY DEF Still
  <2>2. IsResult(t) /\ t.dev = q.dev /\ t.out = r.out \o q.out
    BY <1>1, <1>2, <2>1, ThenResult
  <2>3. r.out \in Seq(Message) /\ q.out \in Seq(Message) /\ Carried(q.out) = {}
    BY <1>2, SayOne DEF Still, IsResult
  <2>4. PICK a, b : a = r.out /\ b = q.out
    OBVIOUS
  <2>5. Rising(b) /\ Below(Carried(a), Carried(b))
    BY <2>3, <2>4, SayOne DEF Below
  <2>6. Carried(a \o b) = Carried(a) \cup Carried(b) /\ Rising(a \o b)
    BY <1>2, <2>3, <2>4, <2>5, CarriedConcat
  <2> QED
    BY <2>2, <2>3, <2>4, <2>6
<1>3. ASSUME Still(v, r) PROVE Still(v, t)
  <2>1. IsResult(r) /\ Rising(r.out)
    BY <1>3, SayOne DEF Still, IsResult
  <2>2. Settled(v, r.dev) /\ Settled(r.dev, q.dev)
    BY <1>3 DEF Still
  <2>3. Settled(v, q.dev)
    BY <2>2, SettledOn
  <2> QED
    BY <1>2, <1>3, <2>1, <2>3 DEF Still
<1>4. ASSUME Moved(v, r, N) PROVE Moved(v, t, N)
  <2>1. IsResult(r) /\ Rising(r.out)
    BY <1>4 DEF Moved
  <2>2. Settled(r.dev, t.dev) /\ IsResult(t) /\ Rising(t.out) /\ Carried(t.out) = Carried(r.out)
    BY <1>2, <2>1 DEF Still
  <2> QED
    BY <1>4, <2>2, MovedOn
<1> QED
  BY <1>1, <1>3, <1>4

\* A call that says nothing.
LEMMA QuietStill ==
  ASSUME NEW v, NEW w, NEW rc, NEW f \in Nat, Settled(v, w)
  PROVE  Still(v, Result(w, rc, << >>, f))
BY SayOne DEF Still, IsResult, Result

\* A result whose end is touched up.
LEMMA TouchStill ==
  ASSUME NEW v, NEW r, NEW s, NEW N, DOMAIN s = DOMAIN r, s.out = r.out, s.faults = r.faults,
         Settled(r.dev, s.dev)
  PROVE  /\ Still(v, r) => Still(v, s)
         /\ Moved(v, r, N) => Moved(v, s, N)
<1>1. ASSUME Still(v, r) PROVE Still(v, s)
  <2>1. Settled(v, s.dev)
    BY <1>1, SettledOn DEF Still
  <2> QED
    BY <1>1, <2>1 DEF Still, IsResult
<1>2. ASSUME Moved(v, r, N) PROVE Moved(v, s, N)
  <2>1. IsResult(s) /\ Rising(s.out) /\ Carried(s.out) = Carried(r.out)
    BY <1>2 DEF Moved, IsResult
  <2> QED
    BY <1>2, <2>1, MovedOn
<1> QED
  BY <1>1, <1>2

\* A buffer to receive into moves no number.
LEMMA RecvReadyStill ==
  ASSUME NEW v, DOMAIN v = Fields, NEW r \in l2cap_recv_ready(v)
  PROVE  Still(v, r)
<1>1. PICK b : b = alloc_sdu(v)
  OBVIOUS
<1>2. CASE b = NULL
  <2>1. r = Result(v, "ENOMEM", << >>, 0)
    BY <1>1, <1>2 DEF l2cap_recv_ready
  <2>2. Settled(v, v)
    BY DEF Settled
  <2> QED
    BY <2>1, <2>2, QuietStill
<1>3. CASE b # NULL
  <2>1. PICK u : u = Taken(v, b)
    OBVIOUS
  <2>2. DOMAIN u = Fields /\ Settled(v, u)
    BY <2>1, PoolSettled DEF Settled
  <2>3. PICK s \in ble_l2cap_recv_ready(u, b) :
          r = IF s.rc \in {"EBUSY", "EINVAL"} THEN [s EXCEPT !.dev = free_mbuf(@, b)] ELSE s
    BY <1>1, <1>3, <2>1 DEF l2cap_recv_ready
  <2>4. Still(u, s)
    <3>1. PICK w : w = [u EXCEPT !.rx = b]
      OBVIOUS
    <3>2. Settled(u, u) /\ Settled(u, w)
      <4>1. DOMAIN w = Fields /\ w.tx = u.tx /\ w.data = u.data /\ w.dropped = u.dropped
        BY <2>2, <3>1 DEF Fields
      <4> QED
        BY <2>2, <4>1, SettledSame
    <3>3. PICK m : m = Msg("credit", 1)
      OBVIOUS
    <3>4. m \in Message /\ m \in Reply /\ First(m) = {}
      BY <3>3 DEF Msg, Message, Reply, First
    <3>5. \/ s = Result(u, "EBUSY", << >>, 0) \/ s = Result(w, "ENOENT", << >>, 1)
          \/ s = Result(w, "OK", << >>, 0) \/ s = Result(w, "OK", <<m>>, 0)
      BY <3>1, <3>3 DEF ble_l2cap_recv_ready
    <3>6. CASE s = Result(w, "OK", <<m>>, 0)
      <4>1. s.dev = w /\ s.out = <<m>> /\ IsResult(s)
        BY <3>4, <3>6 DEF Result, IsResult
      <4>2. Carried(<<m>>) = {}
        BY <3>4, SayOne
      <4> QED
        BY <3>2, <4>1, <4>2 DEF Still
    <3> QED
      BY <3>2, <3>5, <3>6, QuietStill
  <2>5. Still(u, r)
    <3>1. CASE s.rc \in {"EBUSY", "EINVAL"}
      <4>1. DOMAIN s = {"dev", "rc", "out", "faults"} /\ DOMAIN s.dev = Fields
        BY <2>4 DEF Still, IsResult, Settled
      <4>2. PICK y : y = s.dev
        OBVIOUS
      <4>3. /\ DOMAIN r = DOMAIN s /\ r.dev = free_mbuf(y, b) /\ r.out = s.out
            /\ r.faults = s.faults
        BY <2>3, <3>1, <4>1, <4>2
      <4>4. Settled(y, free_mbuf(y, b))
        BY <4>1, <4>2, PoolSettled
      <4> QED
        BY <2>4, <4>2, <4>3, <4>4, TouchStill
    <3>2. CASE s.rc \notin {"EBUSY", "EINVAL"}
      BY <2>3, <2>4, <3>2
    <3> QED
      BY <3>1, <3>2
  <2>6. Settled(v, r.dev)
    BY <2>2, <2>5, SettledOn DEF Still
  <2> QED
    BY <2>5, <2>6 DEF Still
<1> QED
  BY <1>2, <1>3

\* A number to send is on its way, waits, or is refused.
Offered(v, r, m) ==
  /\ r.rc \in {"OK", "ESTALLED"} => Moved(v, r, {m})
  /\ r.rc \notin {"OK", "ESTALLED"} => Still(v, r)

\* What the host makes of it.
LEMMA HostOffered ==
  ASSUME NEW v, NEW b, NEW m, Sendable(m), DOMAIN v = Fields, NEW r \in ble_l2cap_send(v, b, m)
  PROVE  Offered(v, r, m)
<1>1. Settled(v, v)
  BY DEF Settled
<1>2. CASE r = Result(v, "EBUSY", << >>, 0) \/ r = Result(v, "EBADDATA", << >>, 1)
  <2>1. Still(v, r)
    BY <1>1, <1>2, QuietStill
  <2>2. r.rc \notin {"OK", "ESTALLED"}
    BY <1>2 DEF Result
  <2> QED
    BY <2>1, <2>2 DEF Offered
<1>3. CASE v.tx = NULL /\ r = Result([v EXCEPT !.tx = b, !.data = m], "ESTALLED", << >>, 0)
  <2>1. PICK w : w = [v EXCEPT !.tx = b, !.data = m]
    OBVIOUS
  <2>2. DOMAIN w = Fields /\ w.data = m /\ w.dropped = v.dropped
    BY <2>1 DEF Fields
  <2>3. Waits(v) = {} /\ Waits(w) \subseteq {m}
    BY <1>3, <2>2 DEF Waits
  <2>4. r.dev = w /\ r.rc = "ESTALLED" /\ r.out = << >> /\ IsResult(r)
    BY <1>3, <2>1 DEF Result, IsResult
  <2>5. Carried(r.out) = {} /\ Rising(r.out)
    BY <2>4, SayOne
  <2>6. Passes(Waits(v), {m}, {}, Waits(w), v.dropped, w.dropped)
    BY <2>2, <2>3 DEF Passes
  <2> QED
    BY <2>2, <2>4, <2>5, <2>6 DEF Offered, Moved
<1>4. CASE /\ v.tx = NULL
           /\ r = Result(free_mbuf([v EXCEPT !.credits = @ - 1], b), "OK", <<Msg("sdu", m)>>, 0)
  <2>1. PICK u : u = [v EXCEPT !.credits = @ - 1]
    OBVIOUS
  <2>2. PICK w : w = free_mbuf(u, b)
    OBVIOUS
  <2>3. DOMAIN u = Fields /\ u.tx = v.tx /\ u.data = v.data /\ u.dropped = v.dropped
    BY <2>1 DEF Fields
  <2>4. DOMAIN w = Fields /\ Waits(w) = Waits(u) /\ w.dropped = u.dropped
    BY <2>2, <2>3, PoolSettled DEF Settled
  <2>5. Waits(u) = {} /\ Waits(v) = {}
    BY <1>4, <2>3 DEF Waits
  <2>6. PICK o : o = Msg("sdu", m)
    OBVIOUS
  <2>7. o \in Message /\ o \in Reply /\ First(o) = {m}
    BY <2>6 DEF Msg, Message, Reply, First, Sendable
  <2>8. r.dev = w /\ r.rc = "OK" /\ r.out = <<o>> /\ IsResult(r)
    BY <1>4, <2>1, <2>2, <2>6, <2>7 DEF Result, IsResult
  <2>9. Carried(r.out) = {m} /\ Rising(r.out)
    BY <2>7, <2>8, SayOne
  <2>10. Passes(Waits(v), {m}, {m}, Waits(w), v.dropped, w.dropped)
    BY <2>3, <2>4, <2>5 DEF Passes
  <2> QED
    BY <2>4, <2>8, <2>9, <2>10 DEF Offered, Moved
<1>5. CASE r = Result(free_mbuf(v, b), "ENOTCONN", << >>, 1)
  <2>1. Settled(v, free_mbuf(v, b))
    BY PoolSettled
  <2>2. Still(v, r)
    BY <1>5, <2>1, QuietStill
  <2>3. r.rc \notin {"OK", "ESTALLED"}
    BY <1>5 DEF Result
  <2> QED
    BY <2>2, <2>3 DEF Offered
<1> QED
  BY <1>2, <1>3, <1>4, <1>5 DEF ble_l2cap_send

\* What l2cap_send makes of it.
LEMMA SendOffered ==
  ASSUME NEW v, NEW m, Sendable(m), DOMAIN v = Fields, NEW r \in l2cap_send(v, m)
  PROVE  Offered(v, r, m)
<1>1. PICK b : b = alloc_sdu(v)
  OBVIOUS
<1>2. CASE b = NULL
  <2>1. r = Result(v, "ENOMEM", << >>, 0)
    BY <1>1, <1>2 DEF l2cap_send
  <2>2. Settled(v, v)
    BY DEF Settled
  <2>3. Still(v, r)
    BY <2>1, <2>2, QuietStill
  <2>4. r.rc = "ENOMEM"
    BY <2>1 DEF Result
  <2> QED
    BY <2>3, <2>4 DEF Offered
<1>3. CASE b # NULL
  <2>1. PICK u : u = Taken(v, b)
    OBVIOUS
  <2>2. DOMAIN u = Fields /\ Settled(v, u) /\ Waits(u) = Waits(v) /\ u.dropped = v.dropped
    BY <2>1, PoolSettled DEF Settled
  <2>3. PICK s \in ble_l2cap_send(u, b, m) :
          r = IF s.rc \in {"EBADDATA", "EBUSY"} THEN [s EXCEPT !.dev = free_mbuf(@, b)] ELSE s
    BY <1>1, <1>3, <2>1 DEF l2cap_send
  <2>4. Offered(u, s, m)
    BY <2>2, HostOffered
  <2>5. Offered(u, r, m)
    <3>1. CASE s.rc \in {"EBADDATA", "EBUSY"}
      <4>0. Still(u, s)
        BY <2>4, <3>1 DEF Offered
      <4>1. DOMAIN s = {"dev", "rc", "out", "faults"} /\ DOMAIN s.dev = Fields
        BY <4>0 DEF Still, IsResult, Settled
      <4>2. PICK y : y = s.dev
        OBVIOUS
      <4>3. /\ DOMAIN r = DOMAIN s /\ r.dev = free_mbuf(y, b) /\ r.out = s.out
            /\ r.faults = s.faults /\ r.rc = s.rc
        BY <2>3, <3>1, <4>1, <4>2
      <4>4. Settled(y, free_mbuf(y, b))
        BY <4>1, <4>2, PoolSettled
      <4>5. Still(u, r)
        BY <4>0, <4>2, <4>3, <4>4, TouchStill
      <4> QED
        BY <3>1, <4>3, <4>5 DEF Offered
    <3>2. CASE s.rc \notin {"EBADDATA", "EBUSY"}
      BY <2>3, <2>4, <3>2
    <3> QED
      BY <3>1, <3>2
  <2> QED
    BY <2>2, <2>5 DEF Offered, Still, Moved, Settled
<1> QED
  BY <1>2, <1>3

\* The programs note a number that was refused.
LEMMA RefusedMoved ==
  ASSUME NEW v, NEW r, NEW m, Offered(v, r, m), NEW s, DOMAIN s = DOMAIN r, s.out = r.out,
         s.faults = r.faults, s.dev = Refused(r.dev, m, r.rc)
  PROVE  Moved(v, s, {m})
<1>1. CASE r.rc \in {"OK", "ESTALLED"}
  <2>1. Moved(v, r, {m}) /\ s.dev = r.dev
    BY <1>1 DEF Offered, Refused
  <2> QED
    BY <2>1 DEF Moved, IsResult
<1>2. CASE r.rc \notin {"OK", "ESTALLED"}
  <2>1. PICK u : u = r.dev
    OBVIOUS
  <2>2. Still(v, r) /\ s.dev = [u EXCEPT !.dropped = @ \cup {m}]
    BY <1>2, <2>1 DEF Offered, Refused
  <2>3. DOMAIN u = Fields /\ Waits(u) \subseteq Waits(v) /\ u.dropped = v.dropped
    BY <2>1, <2>2 DEF Still, Settled
  <2>4. PICK w : w = s.dev
    OBVIOUS
  <2>5. DOMAIN w = Fields /\ w.tx = u.tx /\ w.data = u.data /\ w.dropped = v.dropped \cup {m}
    BY <2>2, <2>3, <2>4 DEF Fields
  <2>6. Waits(w) = Waits(u)
    BY <2>5 DEF Waits
  <2>7. Carried(s.out) = {} /\ Rising(s.out) /\ IsResult(s)
    BY <2>2, SayOne DEF Still, IsResult
  <2>8. Passes(Waits(v), {m}, {}, Waits(w), v.dropped, w.dropped)
    BY <2>3, <2>5, <2>6 DEF Passes
  <2> QED
    BY <2>4, <2>5, <2>7, <2>8 DEF Moved
<1> QED
  BY <1>1, <1>2

\* A flag of an end is set.
LEMMA FlagSettled ==
  ASSUME NEW v, NEW x, DOMAIN v = Fields
  PROVE  /\ Settled(v, [v EXCEPT !.CHAN = x]) /\ Settled(v, [v EXCEPT !.unarmed = x])
         /\ Settled(v, [v EXCEPT !.rx = x]) /\ Settled(v, [v EXCEPT !.chan = x])
         /\ Settled(v, v)
<1>1. PICK a, b, c, d : /\ a = [v EXCEPT !.CHAN = x] /\ b = [v EXCEPT !.unarmed = x]
                        /\ c = [v EXCEPT !.rx = x] /\ d = [v EXCEPT !.chan = x]
  OBVIOUS
<1>2. /\ DOMAIN a = Fields /\ a.tx = v.tx /\ a.data = v.data /\ a.dropped = v.dropped
      /\ DOMAIN b = Fields /\ b.tx = v.tx /\ b.data = v.data /\ b.dropped = v.dropped
      /\ DOMAIN c = Fields /\ c.tx = v.tx /\ c.data = v.data /\ c.dropped = v.dropped
      /\ DOMAIN d = Fields /\ d.tx = v.tx /\ d.data = v.data /\ d.dropped = v.dropped
  BY <1>1 DEF Fields
<1>3. Settled(v, a) /\ Settled(v, b) /\ Settled(v, c) /\ Settled(v, d) /\ Settled(v, v)
  BY <1>2, SettledSame
<1> QED
  BY <1>1, <1>3

\* The hook moves no number unless it is given one.
LEMMA HookStill ==
  ASSUME NEW d, NEW v, NEW x, DOMAIN v = Fields
  PROVE  /\ AllStill(v, on_l2cap_event(d, v, Msg("Accept", x)))
         /\ AllStill(v, on_l2cap_event(d, v, Msg("Connected", x)))
         /\ AllStill(v, on_l2cap_event(d, v, Msg("Disconnected", x)))
         /\ AllStill(v, on_l2cap_event(d, v, Msg("TxUnstalled", x)))
<1>1. AllStill(v, OnAccept(v))
  <2> SUFFICES ASSUME NEW s \in OnAccept(v) PROVE Still(v, s)
    BY DEF AllStill
  <2>1. PICK r \in l2cap_recv_ready(v) :
          s = IF r.rc = "OK" THEN [r EXCEPT !.dev.CHAN = TRUE]
              ELSE [r EXCEPT !.dev.unarmed = TRUE, !.rc = "rejected"]
    BY DEF OnAccept
  <2>2. Still(v, r)
    BY RecvReadyStill
  <2>3. PICK u : u = r.dev
    OBVIOUS
  <2>4. DOMAIN r = {"dev", "rc", "out", "faults"} /\ DOMAIN u = Fields
    BY <2>2, <2>3 DEF Still, IsResult, Settled
  <2>6. CASE r.rc = "OK"
    <3>1. PICK y : y = [u EXCEPT !.CHAN = TRUE]
      OBVIOUS
    <3>2. s = [r EXCEPT !.dev = y]
      BY <2>1, <2>3, <2>6, <3>1
    <3>3. DOMAIN s = DOMAIN r /\ s.dev = y /\ s.out = r.out /\ s.faults = r.faults
      BY <2>4, <3>2
    <3>4. Settled(u, y)
      BY <2>4, <3>1, FlagSettled
    <3> QED
      BY <2>2, <2>3, <3>3, <3>4, TouchStill
  <2>7. CASE r.rc # "OK"
    <3>1. PICK y : y = [u EXCEPT !.unarmed = TRUE]
      OBVIOUS
    <3>2. s = [r EXCEPT !.dev = y, !.rc = "rejected"]
      BY <2>1, <2>3, <2>7, <3>1
    <3>3. DOMAIN s = DOMAIN r /\ s.dev = y /\ s.out = r.out /\ s.faults = r.faults
      BY <2>4, <3>2
    <3>4. Settled(u, y)
      BY <2>4, <3>1, FlagSettled
    <3> QED
      BY <2>2, <2>3, <3>3, <3>4, TouchStill
  <2> QED
    BY <2>6, <2>7
<1>2. ASSUME NEW w, Settled(v, w) PROVE AllStill(v, {Result(w, "OK", << >>, 0)})
  BY <1>2, QuietStill DEF AllStill
<1>3. AllStill(v, OnConnected(v, x))
  <2>1. PICK c : c = (v.CHAN \/ x = "OK")
    OBVIOUS
  <2>2. PICK w : w = [v EXCEPT !.CHAN = c]
    OBVIOUS
  <2>3. OnConnected(v, x) = {Result(w, "OK", << >>, 0)}
    BY <2>1, <2>2 DEF OnConnected
  <2>4. Settled(v, w)
    BY <2>2, FlagSettled
  <2> QED
    BY <1>2, <2>3, <2>4
<1>4. AllStill(v, OnDisconnected(v))
  <2>1. PICK w : w = [v EXCEPT !.CHAN = FALSE]
    OBVIOUS
  <2>2. OnDisconnected(v) = {Result(w, "OK", << >>, 0)}
    BY <2>1 DEF OnDisconnected
  <2>3. Settled(v, w)
    BY <2>1, FlagSettled
  <2> QED
    BY <1>2, <2>2, <2>3
<1>5. AllStill(v, {Result(v, "OK", << >>, 0)})
  BY <1>2, FlagSettled
<1>6. AllStill(v, on_l2cap_event(d, v, Msg("Accept", x)))
  BY <1>1, HookCases
<1>7. AllStill(v, on_l2cap_event(d, v, Msg("Connected", x)))
  BY <1>3, HookCases
<1>8. AllStill(v, on_l2cap_event(d, v, Msg("Disconnected", x)))
  BY <1>4, HookCases
<1>9. AllStill(v, on_l2cap_event(d, v, Msg("TxUnstalled", x)))
  BY <1>5, HookCases
<1> QED
  BY <1>6, <1>7, <1>8, <1>9

\* The server echoes the number it is given, the client only hears it.
LEMMA ReceivedMoved ==
  ASSUME NEW d, NEW v, NEW m, Sendable(m), DOMAIN v = Fields
  PROVE  AllMoved(v, OnReceived(d, v, m), IF d = "server" THEN {m} ELSE {})
<1>0. PICK N : N = IF d = "server" THEN {m} ELSE {}
  OBVIOUS
<1> SUFFICES ASSUME NEW s \in OnReceived(d, v, m) PROVE Moved(v, s, N)
  BY <1>0 DEF AllMoved
<1> DEFINE E == IF d = "server" THEN server_driver_echo(v, m) ELSE {Result(v, "OK", << >>, 0)}
<1>1. PICK e \in E : s \in {[Then(e, r) EXCEPT !.dev = Armed(@, r.rc), !.rc = "OK"]
                               : r \in l2cap_recv_ready(Refused(e.dev, m, e.rc))}
  BY DEF OnReceived
<1>2. PICK u : u = Refused(e.dev, m, e.rc)
  OBVIOUS
<1>3. PICK x : x = [e EXCEPT !.dev = u]
  OBVIOUS
<1>4. IsResult(e) /\ Moved(v, x, N) /\ x.dev = u /\ x.out = e.out /\ x.faults = e.faults
  <2>1. CASE d = "server"
    <3>1. e \in l2cap_send(v, m)
      BY <2>1 DEF server_driver_echo
    <3>2. Offered(v, e, m)
      BY <3>1, SendOffered
    <3>3. IsResult(e)
      BY <3>2 DEF Offered, Moved, Still
    <3>4. DOMAIN x = DOMAIN e /\ x.out = e.out /\ x.faults = e.faults /\ x.dev = u
      BY <1>3, <3>3 DEF IsResult
    <3>5. Moved(v, x, {m})
      BY <1>2, <3>2, <3>4, RefusedMoved
    <3> QED
      BY <1>0, <2>1, <3>3, <3>4, <3>5
  <2>2. CASE d # "server"
    <3>1. e = Result(v, "OK", << >>, 0)
      BY <2>2
    <3>2. e.dev = v /\ e.rc = "OK" /\ DOMAIN e = {"dev", "rc", "out", "faults"}
      BY <3>1 DEF Result
    <3>3. u = v
      BY <1>2, <3>2 DEF Refused
    <3>4. x = e
      BY <1>3, <3>1, <3>3 DEF Result
    <3>5. Still(v, e)
      BY <3>1, FlagSettled, QuietStill
    <3> QED
      BY <3>2, <3>3, <3>4, <3>5, StillMoved DEF Still
  <2> QED
    BY <2>1, <2>2
<1> HIDE DEF E
<1>5. DOMAIN u = Fields
  BY <1>4 DEF Moved
<1>6. PICK r \in l2cap_recv_ready(u) : s = [Then(e, r) EXCEPT !.dev = Armed(@, r.rc), !.rc = "OK"]
  BY <1>1, <1>2
<1>7. Still(u, r)
  BY <1>5, RecvReadyStill
<1>8. Then(x, r) = Then(e, r)
  BY <1>4 DEF Then
<1>9. PICK t : t = Then(x, r)
  OBVIOUS
<1>10. Moved(v, t, N)
  BY <1>4, <1>7, <1>9, ThenStill
<1>11. PICK y, w : y = t.dev /\ w = Armed(y, r.rc)
  OBVIOUS
<1>12. y = r.dev
  BY <1>4, <1>7, <1>9, <1>11, ThenResult DEF Still, Moved
<1>13. /\ DOMAIN s = DOMAIN t /\ s.dev = w /\ s.out = t.out /\ s.faults = t.faults
  BY <1>6, <1>8, <1>9, <1>10, <1>11 DEF Moved, IsResult
<1>14. Settled(y, w)
  <2>1. DOMAIN y = Fields
    BY <1>10, <1>11 DEF Moved
  <2>2. w = y \/ w = [y EXCEPT !.unarmed = TRUE]
    BY <1>11 DEF Armed
  <2>3. DOMAIN w = Fields /\ w.tx = y.tx /\ w.data = y.data /\ w.dropped = y.dropped
    BY <2>1, <2>2 DEF Fields
  <2> QED
    BY <2>3, SettledSame
<1> QED
  BY <1>10, <1>11, <1>13, <1>14, TouchStill

\* Nor does the callback.
LEMMA CallbackMoved ==
  ASSUME NEW d, NEW v, NEW ev, NEW sdu, NEW N, DOMAIN v = Fields
  PROVE  /\ AllStill(v, on_l2cap_event(d, v, ev)) => AllStill(v, l2cap_event_cb(d, v, ev, sdu))
         /\ AllMoved(v, on_l2cap_event(d, v, ev), N)
              => AllMoved(v, l2cap_event_cb(d, v, ev, sdu), N)
<1>1. ASSUME NEW s \in l2cap_event_cb(d, v, ev, sdu)
      PROVE  /\ AllStill(v, on_l2cap_event(d, v, ev)) => Still(v, s)
             /\ AllMoved(v, on_l2cap_event(d, v, ev), N) => Moved(v, s, N)
  <2> DEFINE R == IF v.hooked THEN on_l2cap_event(d, v, ev)
                  ELSE {Result(Armed(v, "unhooked"), "OK", << >>, 0)}
  <2>1. PICK r \in R : s = [r EXCEPT !.dev = free_mbuf(@, sdu)]
    BY <1>1 DEF l2cap_event_cb
  <2>2. /\ AllStill(v, on_l2cap_event(d, v, ev)) => Still(v, r)
        /\ AllMoved(v, on_l2cap_event(d, v, ev), N) => Moved(v, r, N)
    <3>1. CASE v.hooked
      <4>1. r \in on_l2cap_event(d, v, ev)
        BY <3>1
      <4> QED
        BY <4>1 DEF AllStill, AllMoved
    <3>2. CASE ~v.hooked
      <4>1. PICK w : w = [v EXCEPT !.unarmed = TRUE]
        OBVIOUS
      <4>2. r = Result(w, "OK", << >>, 0)
        BY <3>2, <4>1 DEF Armed
      <4>3. Settled(v, w)
        BY <4>1, FlagSettled
      <4>4. Still(v, r)
        BY <4>2, <4>3, QuietStill
      <4> QED
        BY <4>4, StillMoved
    <3> QED
      BY <3>1, <3>2
  <2> HIDE DEF R
  <2>3. ASSUME IsResult(r), DOMAIN r.dev = Fields
        PROVE  /\ Still(v, r) => Still(v, s)
               /\ Moved(v, r, N) => Moved(v, s, N)
    <3>1. PICK y : y = r.dev
      OBVIOUS
    <3>2. /\ DOMAIN s = DOMAIN r /\ s.dev = free_mbuf(y, sdu) /\ s.out = r.out
          /\ s.faults = r.faults
      BY <2>1, <2>3, <3>1 DEF IsResult
    <3>3. Settled(y, free_mbuf(y, sdu))
      BY <2>3, <3>1, PoolSettled
    <3> QED
      BY <3>1, <3>2, <3>3, TouchStill
  <2>4. Still(v, r) => IsResult(r) /\ DOMAIN r.dev = Fields
    BY DEF Still, Settled
  <2>5. Moved(v, r, N) => IsResult(r) /\ DOMAIN r.dev = Fields
    BY DEF Moved
  <2> QED
    BY <2>2, <2>3, <2>4, <2>5
<1> QED
  BY <1>1 DEF AllStill, AllMoved

\* Nor do the events that bring no SDU.
LEMMA EventStill ==
  ASSUME NEW d, NEW v, NEW x, DOMAIN v = Fields
  PROVE  /\ AllStill(v, l2cap_event_cb(d, v, Msg("Accept", x), NULL))
         /\ AllStill(v, l2cap_event_cb(d, v, Msg("Connected", x), NULL))
         /\ AllStill(v, l2cap_event_cb(d, v, Msg("Disconnected", x), NULL))
         /\ AllStill(v, l2cap_event_cb(d, v, Msg("TxUnstalled", x), NULL))
<1>1. ASSUME NEW ev, AllStill(v, on_l2cap_event(d, v, ev))
      PROVE  AllStill(v, l2cap_event_cb(d, v, ev, NULL))
  BY <1>1, CallbackMoved
<1> QED
  BY <1>1, HookStill

\* A channel that is freed takes the number that waits with it.
LEMMA ChanFreeStill ==
  ASSUME NEW d, NEW v, DOMAIN v = Fields
  PROVE  AllStill(v, chan_free(d, v))
<1>1. PICK u, y, w : /\ u = free_mbuf(v, v.rx) /\ y = free_mbuf(u, v.tx) /\ w = Closed(v)
  OBVIOUS
<1>2. DOMAIN u = Fields /\ u.dropped = v.dropped
  BY <1>1, PoolSettled DEF Settled
<1>3. DOMAIN y = Fields /\ y.dropped = v.dropped
  BY <1>1, <1>2, PoolSettled DEF Settled
<1>4. w = [y EXCEPT !.chan = "closed", !.rx = NULL, !.tx = NULL, !.credits = 0]
  BY <1>1 DEF Closed
<1>5. DOMAIN w = Fields /\ w.tx = NULL /\ w.dropped = v.dropped
  BY <1>3, <1>4 DEF Fields
<1>6. Settled(v, w)
  BY <1>5 DEF Settled, Waits
<1>7. AllStill(w, l2cap_event_cb(d, w, Msg("Disconnected", 0), NULL))
  BY <1>5, EventStill
<1>8. chan_free(d, v) = l2cap_event_cb(d, w, Msg("Disconnected", 0), NULL)
  BY <1>1 DEF chan_free, Closed
<1> QED
  BY <1>6, <1>7, <1>8, SettledOn DEF AllStill, Still

\* A request for a channel moves no number.
LEMMA AcceptStill ==
  ASSUME NEW d, NEW v, DOMAIN v = Fields
  PROVE  AllStill(v, HostAccept(d, v))
<1> SUFFICES ASSUME NEW s \in HostAccept(d, v) PROVE Still(v, s)
  BY DEF AllStill
<1>1. PICK u : u = [v EXCEPT !.chan = "opening"]
  OBVIOUS
<1>2. PICK r \in l2cap_event_cb(d, u, Msg("Accept", 0), NULL) :
        s \in IF r.rc = "OK"
              THEN {[r EXCEPT !.dev.chan = "open", !.dev.credits = 1,
                              !.out = @ \o <<Msg("rsp", IF r.dev.rx # NULL THEN 1 ELSE 0)>>]}
              ELSE {[Then(r, q) EXCEPT !.out = @ \o <<Msg("refused", 0)>>]
                      : q \in chan_free(d, r.dev)}
  BY <1>1 DEF HostAccept
<1>3. Settled(v, u) /\ DOMAIN u = Fields
  BY <1>1, FlagSettled DEF Settled
<1>4. Still(u, r)
  BY <1>3, EventStill DEF AllStill
<1>5. Still(v, r)
  BY <1>3, <1>4, SettledOn DEF Still
<1>6. ASSUME NEW t, NEW m, Still(v, t), m \in Reply, m \in Message, First(m) = {},
             DOMAIN s = DOMAIN t, s.out = t.out \o <<m>>, s.faults = t.faults,
             Settled(t.dev, s.dev)
      PROVE  Still(v, s)
  <2>1. t.out \in Seq(Reply) /\ t.out \in Seq(Message) /\ <<m>> \in Seq(Message)
    BY <1>6, SayOne DEF Still, IsResult
  <2>2. PICK a, b : a = t.out /\ b = <<m>>
    OBVIOUS
  <2>3. Carried(a \o b) = Carried(a) \cup Carried(b)
    BY <2>1, <2>2, CarriedConcat
  <2>4. Carried(b) = {} /\ Carried(a) = {}
    BY <1>6, <2>2, SayOne DEF Still
  <2>5. IsResult(s)
    BY <1>6, <2>1 DEF Still, IsResult
  <2>6. Settled(v, s.dev)
    BY <1>6, SettledOn DEF Still
  <2> QED
    BY <1>6, <2>2, <2>3, <2>4, <2>5, <2>6 DEF Still
<1>7. CASE r.rc = "OK"
  <2>1. PICK y, m : y = r.dev /\ m = Msg("rsp", IF r.dev.rx # NULL THEN 1 ELSE 0)
    OBVIOUS
  <2>2. m \in Reply /\ m \in Message /\ First(m) = {}
    BY <2>1 DEF Msg, Reply, Message, First
  <2>3. PICK w : w = [y EXCEPT !.chan = "open", !.credits = 1]
    OBVIOUS
  <2>4. s = [r EXCEPT !.dev = w, !.out = @ \o <<m>>]
    BY <1>2, <1>7, <2>1, <2>3
  <2>5. DOMAIN r = {"dev", "rc", "out", "faults"} /\ DOMAIN y = Fields
    BY <1>5, <2>1 DEF Still, IsResult, Settled
  <2>6. DOMAIN s = DOMAIN r /\ s.dev = w /\ s.out = r.out \o <<m>> /\ s.faults = r.faults
    BY <2>4, <2>5
  <2>7. DOMAIN w = Fields /\ w.tx = y.tx /\ w.data = y.data /\ w.dropped = y.dropped
    BY <2>3, <2>5 DEF Fields
  <2>8. Settled(y, w)
    BY <2>7, SettledSame
  <2> QED
    BY <1>5, <1>6, <2>1, <2>2, <2>6, <2>8
<1>8. CASE r.rc # "OK"
  <2>1. PICK q \in chan_free(d, r.dev) :
          s = [Then(r, q) EXCEPT !.out = @ \o <<Msg("refused", 0)>>]
    BY <1>2, <1>8
  <2>2. PICK m, t : m = Msg("refused", 0) /\ t = Then(r, q)
    OBVIOUS
  <2>3. m \in Reply /\ m \in Message /\ First(m) = {}
    BY <2>2 DEF Msg, Reply, Message, First
  <2>4. DOMAIN r.dev = Fields
    BY <1>5 DEF Still, Settled
  <2>5. Still(r.dev, q)
    BY <2>4, ChanFreeStill DEF AllStill
  <2>6. Still(v, t)
    BY <1>5, <2>2, <2>5, ThenStill
  <2>7. /\ DOMAIN s = DOMAIN t /\ s.dev = t.dev /\ s.out = t.out \o <<m>> /\ s.faults = t.faults
    BY <2>1, <2>2, <2>6 DEF Still, IsResult
  <2>8. Settled(t.dev, s.dev)
    BY <2>6, <2>7 DEF Still, Settled
  <2> QED
    BY <1>6, <2>3, <2>6, <2>7, <2>8
<1> QED
  BY <1>7, <1>8

\* A refusal moves none.
LEMMA RefusalStill ==
  ASSUME NEW d, NEW v, DOMAIN v = Fields
  PROVE  AllStill(v, HostRefused(d, v))
<1> SUFFICES ASSUME NEW s \in HostRefused(d, v) PROVE Still(v, s)
  BY DEF AllStill
<1>1. PICK r \in l2cap_event_cb(d, v, Msg("Connected", "refused"), NULL) :
        s \in {Then(r, q) : q \in chan_free(d, r.dev)}
  BY DEF HostRefused
<1>2. PICK q \in chan_free(d, r.dev) : s = Then(r, q)
  BY <1>1
<1>3. AllStill(v, l2cap_event_cb(d, v, Msg("Connected", "refused"), NULL))
  BY EventStill
<1>4. Still(v, r)
  BY <1>3 DEF AllStill
<1>5. DOMAIN r.dev = Fields
  BY <1>4 DEF Still, Settled
<1>6. Still(r.dev, q)
  BY <1>5, ChanFreeStill DEF AllStill
<1> QED
  BY <1>2, <1>4, <1>6, ThenStill

\* A credit moves the number that waits on, or it is refused.
LEMMA CreditMoved ==
  ASSUME NEW d, NEW v, NEW N, DOMAIN v = Fields, Sendable(v.data)
  PROVE  AllMoved(v, HostCredit(d, v), N)
<1> SUFFICES ASSUME NEW s \in HostCredit(d, v) PROVE Moved(v, s, N)
  BY DEF AllMoved
<1>1. CASE v.tx = NULL
  <2>1. PICK w : w = [v EXCEPT !.credits = @ + 1]
    OBVIOUS
  <2>2. s = Result(w, "OK", << >>, 0)
    BY <1>1, <2>1 DEF HostCredit
  <2>3. DOMAIN w = Fields /\ w.tx = v.tx /\ w.data = v.data /\ w.dropped = v.dropped
    BY <2>1 DEF Fields
  <2>4. Still(v, s)
    BY <2>2, <2>3, SettledSame, QuietStill
  <2> QED
    BY <2>4, StillMoved
<1>2. CASE v.tx # NULL
  <2>1. PICK x, u : x = v.data /\ u = free_mbuf(v, v.tx)
    OBVIOUS
  <2>2. DOMAIN u = Fields /\ u.dropped = v.dropped
    BY <2>1, PoolSettled DEF Settled
  <2>3. PICK w : w = [u EXCEPT !.tx = NULL]
    OBVIOUS
  <2>4. DOMAIN w = Fields /\ w.tx = NULL /\ w.dropped = v.dropped
    BY <2>2, <2>3 DEF Fields
  <2>5. PICK y : y = [w EXCEPT !.credits = @ + 1, !.dropped = @ \cup {x}]
    OBVIOUS
  <2>6. DOMAIN y = Fields /\ y.tx = NULL /\ y.dropped = v.dropped \cup {x}
    BY <2>4, <2>5 DEF Fields
  <2>7. PICK m : m = Msg("sdu", x)
    OBVIOUS
  <2>8. m \in Message /\ m \in Reply /\ First(m) = {x}
    BY <2>1, <2>7 DEF Msg, Message, Reply, First, Sendable
  <2>9. PICK r \in {Result(w, "OK", <<m>>, 0), Result(y, "ENOMEM", << >>, 1)} :
          s \in {Then(r, q) : q \in l2cap_event_cb(d, r.dev, Msg("TxUnstalled", r.rc), NULL)}
    BY <1>2, <2>1, <2>3, <2>5, <2>7 DEF HostCredit
  <2>10. PICK q \in l2cap_event_cb(d, r.dev, Msg("TxUnstalled", r.rc), NULL) : s = Then(r, q)
    BY <2>9
  <2>11. Waits(v) = {x} /\ Waits(w) = {} /\ Waits(y) = {}
    BY <1>2, <2>1, <2>4, <2>6 DEF Waits
  <2>12. Moved(v, r, N)
    <3>1. CASE r = Result(w, "OK", <<m>>, 0)
      <4>1. r.dev = w /\ r.out = <<m>> /\ IsResult(r)
        BY <2>8, <3>1 DEF Result, IsResult
      <4>2. Carried(r.out) = {x} /\ Rising(r.out)
        BY <2>8, <4>1, SayOne
      <4>3. Passes(Waits(v), N, {x}, Waits(w), v.dropped, w.dropped)
        BY <2>4, <2>11 DEF Passes
      <4> QED
        BY <2>4, <4>1, <4>2, <4>3 DEF Moved
    <3>2. CASE r = Result(y, "ENOMEM", << >>, 1)
      <4>1. r.dev = y /\ r.out = << >> /\ IsResult(r)
        BY <3>2 DEF Result, IsResult
      <4>2. Carried(r.out) = {} /\ Rising(r.out)
        BY <4>1, SayOne
      <4>3. Passes(Waits(v), N, {}, Waits(y), v.dropped, y.dropped)
        BY <2>6, <2>11 DEF Passes
      <4> QED
        BY <2>6, <4>1, <4>2, <4>3 DEF Moved
    <3> QED
      BY <2>9, <3>1, <3>2
  <2>13. PICK z, rc : z = r.dev /\ rc = r.rc
    OBVIOUS
  <2>14. DOMAIN z = Fields
    BY <2>12, <2>13 DEF Moved
  <2>15. AllStill(z, l2cap_event_cb(d, z, Msg("TxUnstalled", rc), NULL))
    BY <2>14, EventStill
  <2>16. Still(r.dev, q)
    BY <2>10, <2>13, <2>15 DEF AllStill
  <2> QED
    BY <2>10, <2>12, <2>16, ThenStill
<1> QED
  BY <1>1, <1>2

\* What a message may do to the numbers of an end: the server is offered the
\* number in it, the client is not.
LEMMA HandleMoved ==
  ASSUME NEW d, NEW v, NEW m \in Message, DOMAIN v = Fields, Sendable(v.data),
         NEW r \in Handle(d, v, m)
  PROVE  Moved(v, r, IF d = "server" THEN First(m) ELSE {})
<1>1. PICK N : N = IF d = "server" THEN First(m) ELSE {}
  OBVIOUS
<1>2. Still(v, r) => Moved(v, r, N)
  BY StillMoved
<1>3. CASE m.type = "req"
  <2>1. r \in HostAccept(d, v)
    BY <1>3 DEF Handle
  <2>2. Still(v, r)
    BY <2>1, AcceptStill DEF AllStill
  <2> QED
    BY <1>1, <1>2, <2>2
<1>4. CASE m.type # "req" /\ v.chan \notin {"opening", "open"}
  <2>1. r = Result(v, "OK", << >>, 0)
    BY <1>4 DEF Handle
  <2>2. Still(v, r)
    BY <2>1, FlagSettled, QuietStill
  <2> QED
    BY <1>1, <1>2, <2>2
<1>5. CASE m.type # "req" /\ v.chan \in {"opening", "open"}
  <2>1. CASE m.type = "rsp"
    <3>1. PICK w : w = [v EXCEPT !.chan = "open", !.credits = m.val]
      OBVIOUS
    <3>2. r \in l2cap_event_cb(d, w, Msg("Connected", "OK"), NULL)
      BY <1>5, <2>1, <3>1 DEF Handle
    <3>3. DOMAIN w = Fields /\ w.tx = v.tx /\ w.data = v.data /\ w.dropped = v.dropped
      BY <3>1 DEF Fields
    <3>4. Settled(v, w)
      BY <3>3, SettledSame
    <3>5. AllStill(w, l2cap_event_cb(d, w, Msg("Connected", "OK"), NULL))
      BY <3>3, EventStill
    <3>6. Still(v, r)
      BY <3>2, <3>4, <3>5, SettledOn DEF AllStill, Still
    <3> QED
      BY <1>1, <1>2, <3>6
  <2>2. CASE m.type = "refused"
    <3>1. r \in HostRefused(d, v)
      BY <1>5, <2>2 DEF Handle
    <3>2. Still(v, r)
      BY <3>1, RefusalStill DEF AllStill
    <3> QED
      BY <1>1, <1>2, <3>2
  <2>3. CASE m.type = "credit"
    <3>1. r \in HostCredit(d, v)
      BY <1>5, <2>3 DEF Handle
    <3>2. Moved(v, r, N)
      BY <3>1, CreditMoved DEF AllMoved
    <3> QED
      BY <1>1, <3>2
  <2>4. CASE m.type = "sdu"
    <3>1. PICK w, x : w = [v EXCEPT !.rx = NULL] /\ x = m.val
      OBVIOUS
    <3>2. r \in l2cap_event_cb(d, w, Msg("Received", x), v.rx)
      BY <1>5, <2>4, <3>1 DEF Handle
    <3>3. /\ DOMAIN w = Fields /\ w.tx = v.tx /\ w.data = v.data /\ w.dropped = v.dropped
          /\ Sendable(x) /\ First(m) = {x}
      BY <2>4, <3>1 DEF Fields, Message, Sendable, First
    <3>4. Waits(w) = Waits(v)
      BY <3>3, SettledSame
    <3>5. N = IF d = "server" THEN {x} ELSE {}
      BY <1>1, <3>3
    <3>6. AllMoved(w, OnReceived(d, w, x), N)
      BY <3>3, <3>5, ReceivedMoved
    <3>7. AllMoved(w, on_l2cap_event(d, w, Msg("Received", x)), N)
      BY <3>6, HookCases
    <3>8. AllMoved(w, l2cap_event_cb(d, w, Msg("Received", x), v.rx), N)
      BY <3>3, <3>7, CallbackMoved
    <3>9. Moved(w, r, N)
      BY <3>2, <3>8 DEF AllMoved
    <3> QED
      BY <1>1, <3>3, <3>4, <3>9 DEF Moved
  <2>5. CASE m.type = "disc"
    <3>1. PICK q \in chan_free(d, v) : r = Then(q, Result(q.dev, "OK", <<Msg("gone", 0)>>, 0))
      BY <1>5, <2>5 DEF Handle
    <3>2. Still(v, q)
      BY ChanFreeStill DEF AllStill
    <3>3. PICK o, t : o = Msg("gone", 0) /\ t = Result(q.dev, "OK", <<o>>, 0)
      OBVIOUS
    <3>4. o \in Reply /\ o \in Message /\ First(o) = {}
      BY <3>3 DEF Msg, Reply, Message, First
    <3>5. t.dev = q.dev /\ t.out = <<o>> /\ IsResult(t)
      BY <3>3, <3>4 DEF Result, IsResult
    <3>6. Still(q.dev, t)
      BY <3>2, <3>4, <3>5, SayOne DEF Still, Settled
    <3>7. Still(v, r)
      BY <3>1, <3>2, <3>3, <3>6, ThenStill
    <3> QED
      BY <1>1, <1>2, <3>7
  <2>6. CASE m.type = "gone"
    <3>1. r \in chan_free(d, v)
      BY <1>5, <2>6 DEF Handle
    <3>2. Still(v, r)
      BY <3>1, ChanFreeStill DEF AllStill
    <3> QED
      BY <1>1, <1>2, <3>2
  <2>7. m.type \in {"rsp", "refused", "credit", "sdu", "disc", "gone"}
    BY <1>5 DEF Message
  <2> QED
    BY <2>1, <2>2, <2>3, <2>4, <2>5, <2>6, <2>7
<1> QED
  BY <1>3, <1>4, <1>5

\* A connect moves no number.
LEMMA ConnectSettled ==
  ASSUME NEW v, DOMAIN v = Fields, NEW r \in l2cap_connect(v)
  PROVE  Settled(v, r.dev) /\ (r.out = << >> \/ r.out = <<Msg("req", 1)>>)
<1>1. PICK b : b = alloc_sdu(v)
  OBVIOUS
<1>2. CASE b = NULL
  <2>1. r = Result(v, "ENOMEM", << >>, 0)
    BY <1>1, <1>2 DEF l2cap_connect
  <2> QED
    BY <2>1, FlagSettled DEF Result
<1>3. CASE b # NULL
  <2>1. PICK u : u = Taken(v, b)
    OBVIOUS
  <2>2. DOMAIN u = Fields /\ Settled(v, u)
    BY <2>1, PoolSettled DEF Settled
  <2>3. PICK s \in ble_l2cap_connect(u, b) :
          r = IF s.rc \in {"ENOTCONN", "EINVAL"} THEN [s EXCEPT !.dev = free_mbuf(@, b)] ELSE s
    BY <1>1, <1>3, <2>1 DEF l2cap_connect
  <2>4. PICK w, x, y : /\ w = [u EXCEPT !.chan = "opening", !.rx = b]
                       /\ x = [u EXCEPT !.lost = @ \cup {b}] /\ y = free_mbuf(u, b)
    OBVIOUS
  <2>5. /\ DOMAIN w = Fields /\ w.tx = u.tx /\ w.data = u.data /\ w.dropped = u.dropped
        /\ DOMAIN x = Fields /\ x.tx = u.tx /\ x.data = u.data /\ x.dropped = u.dropped
    BY <2>2, <2>4 DEF Fields
  <2>6. Settled(u, w) /\ Settled(u, x) /\ Settled(u, y) /\ Settled(u, u)
    BY <2>2, <2>4, <2>5, SettledSame, PoolSettled
  <2>7. \/ s = Result(u, "ENOTCONN", << >>, 0) \/ s = Result(w, "OK", <<Msg("req", 1)>>, 0)
        \/ s = Result(x, "ENOMEM", << >>, 1) \/ s = Result(y, "ENOMEM", << >>, 1)
    BY <2>4 DEF ble_l2cap_connect
  <2>8. /\ Settled(u, s.dev) /\ (s.out = << >> \/ s.out = <<Msg("req", 1)>>)
        /\ DOMAIN s = {"dev", "rc", "out", "faults"}
    BY <2>6, <2>7 DEF Result
  <2>9. CASE s.rc \in {"ENOTCONN", "EINVAL"}
    <3>1. PICK z : z = s.dev
      OBVIOUS
    <3>2. r.dev = free_mbuf(z, b) /\ r.out = s.out
      BY <2>3, <2>8, <2>9, <3>1
    <3>3. Settled(z, free_mbuf(z, b)) /\ Settled(u, z)
      BY <2>8, <3>1, PoolSettled DEF Settled
    <3>4. Settled(u, free_mbuf(z, b))
      BY <3>3, SettledOn
    <3>5. Settled(v, r.dev)
      BY <2>2, <3>2, <3>4, SettledOn
    <3> QED
      BY <2>8, <3>2, <3>5
  <2>10. CASE s.rc \notin {"ENOTCONN", "EINVAL"}
    <3>1. Settled(v, s.dev)
      BY <2>2, <2>8, SettledOn
    <3> QED
      BY <2>3, <2>8, <2>10, <3>1
  <2> QED
    BY <2>9, <2>10
<1> QED
  BY <1>2, <1>3

-----------------------------------------------------------------------------
(* The line, from step to step.                                            *)

\* The other end's refused numbers make no difference.
LEMMA PassesBeside ==
  ASSUME NEW T, NEW N, NEW O, NEW T2, NEW D, NEW D2, Passes(T, N, O, T2, D, D2), NEW F
  PROVE  Passes(T, N, O, T2, D \cup F, D2 \cup F)
BY DEF Passes

\* The ends of a state are records, and hold numbers.
LEMMA EndFields ==
  ASSUME IInv, NEW d \in Ends
  PROVE  DOMAIN dev[d] = Fields /\ Sendable(dev[d].data)
BY DEF IInv, DevOK, Stands, Keeps, IsEnd, Sendable

\* What the server says goes to the end of the client's wire, or is lost.
LEMMA EchoServer ==
  ASSUME IInv, EchoOK, Receive("server")
  PROVE  EchoOK'
<1>0. "server" \in Ends
  BY DEF Ends
<1>1. PICK s, c, m, v, k : /\ s = wire["server"] /\ c = wire["client"] /\ m = Head(s)
                           /\ v = dev["server"] /\ k = counter
  OBVIOUS
<1>2. PICK r \in Handle("server", v, m) : Commit("server", Handle("server", v, m), r, 1)
  BY <1>1 DEF Receive, Commit
<1>3. /\ DOMAIN dev = Ends /\ DOMAIN wire = Ends /\ s # << >> /\ ReqFirst(s)
      /\ c \in Seq(Message) /\ s \in Seq(Message)
  BY <1>1 DEF IInv, DevOK, WireOK, Receive, NoReq, ReqFirst
<1>4. m \in Message /\ m = s[1]
  BY <1>1, <1>3, TakeWire
<1>5. Moved(v, r, First(m))
  <2>1. DOMAIN v = Fields /\ Sendable(v.data)
    BY <1>0, <1>1, EndFields
  <2>2. Moved(v, r, IF "server" = "server" THEN First(m) ELSE {})
    BY <1>2, <1>4, <2>1, HandleMoved
  <2> QED
    BY <2>2
<1>6. PICK t : t = SubSeq(s, 2, Len(s))
  OBVIOUS
<1>7. /\ dev'["server"] = r.dev /\ dev'["client"] = dev["client"]
      /\ wire'["server"] = t /\ wire'["client"] = IF up THEN c \o r.out ELSE c
  <2>1. Peer("server") = "client"
    BY BothEnds
  <2>2. /\ dev' = [dev EXCEPT !["server"] = r.dev]
        /\ wire' = [wire EXCEPT !["server"] = SubSeq(@, 1 + 1, Len(@)),
                                !["client"] = IF up THEN @ \o r.out ELSE @]
    BY <1>2, <2>1 DEF Commit
  <2>3. 1 + 1 = 2
    OBVIOUS
  <2> QED
    BY <1>1, <1>3, <1>6, <2>2, <2>3 DEF Ends
<1>8. counter' = k /\ echoes' = echoes /\ Echoed' = Echoed
  BY <1>1 DEF Receive, Echoed
<1>9. /\ Carried(s) = First(m) \cup Carried(t) /\ Below(First(m), Carried(t)) /\ Rising(t)
  BY <1>1, <1>3, <1>4, <1>6, CarriedTail DEF EchoOK
<1>10. PICK E, C, T, S, W, D, F, O, T2, D2 :
         /\ E = Echoed /\ C = Carried(c) /\ T = Waits(v) /\ S = Carried(s)
         /\ W = Waits(dev["client"]) /\ D = v.dropped /\ F = dev["client"].dropped
         /\ O = Carried(r.out) /\ T2 = Waits(r.dev) /\ D2 = r.dev.dropped
  OBVIOUS
<1>11. Line(E, C, T, S, W, k, D \cup F)
  <2>1. D \cup F = F \cup D
    OBVIOUS
  <2> QED
    BY <1>1, <1>10, <2>1 DEF EchoOK
<1>12. Passes(T, First(m), O, T2, D \cup F, D2 \cup F)
  BY <1>5, <1>10, PassesBeside DEF Moved
<1>13. Line(E, C \cup O, T2, Carried(t), W, k, D2 \cup F) /\ Below(C, O)
  BY <1>9, <1>10, <1>11, <1>12, LineServer
<1>14. PICK c2 : c2 = IF up THEN c \o r.out ELSE c
  OBVIOUS
<1>15. Rising(c2) /\ Line(E, Carried(c2), T2, Carried(t), W, k, D2 \cup F)
  <2>1. CASE up
    <3>1. PICK o : o = r.out
      OBVIOUS
    <3>2. o \in Seq(Message) /\ Rising(o) /\ Rising(c)
      BY <1>1, <1>5, <3>1, SayOne DEF Moved, IsResult, EchoOK
    <3>3. Carried(c \o o) = C \cup O /\ Rising(c \o o)
      BY <1>3, <1>10, <1>13, <3>1, <3>2, CarriedConcat
    <3> QED
      BY <1>13, <1>14, <2>1, <3>1, <3>3
  <2>2. CASE ~up
    <3>1. C \subseteq C \cup O
      OBVIOUS
    <3>2. Line(E, C, T2, Carried(t), W, k, D2 \cup F)
      BY <1>13, <3>1, LineLess
    <3> QED
      BY <1>1, <1>10, <1>14, <2>2, <3>2 DEF EchoOK
  <2> QED
    BY <2>1, <2>2
<1>16. D2 \cup F = F \cup D2
  OBVIOUS
<1> QED
  BY <1>7, <1>8, <1>9, <1>10, <1>14, <1>15, <1>16 DEF EchoOK

\* The client hears the first number on its wire, and may say something too.
LEMMA EchoClient ==
  ASSUME IInv, EchoOK, Receive("client")
  PROVE  EchoOK'
<1>0. "client" \in Ends
  BY DEF Ends
<1>1. PICK s, c, m, v, k : /\ s = wire["server"] /\ c = wire["client"] /\ m = Head(c)
                           /\ v = dev["client"] /\ k = counter
  OBVIOUS
<1>2. PICK r \in Handle("client", v, m) : Commit("client", Handle("client", v, m), r, 1)
  BY <1>1 DEF Receive, Commit
<1>3. /\ DOMAIN dev = Ends /\ DOMAIN wire = Ends /\ c # << >> /\ ReqFirst(c)
      /\ c \in Seq(Message) /\ s \in Seq(Message)
  BY <1>1 DEF IInv, DevOK, WireOK, Receive, NoReq, ReqFirst
<1>4. m \in Message /\ m = c[1]
  BY <1>1, <1>3, TakeWire
<1>5. Moved(v, r, {})
  <2>1. DOMAIN v = Fields /\ Sendable(v.data)
    BY <1>0, <1>1, EndFields
  <2>2. Moved(v, r, IF "client" = "server" THEN First(m) ELSE {})
    BY <1>2, <1>4, <2>1, HandleMoved
  <2> QED
    BY <2>2
<1>6. PICK t : t = SubSeq(c, 2, Len(c))
  OBVIOUS
<1>7. /\ dev'["client"] = r.dev /\ dev'["server"] = dev["server"]
      /\ wire'["client"] = t /\ wire'["server"] = IF up THEN s \o r.out ELSE s
  <2>1. Peer("client") = "server"
    BY BothEnds
  <2>2. /\ dev' = [dev EXCEPT !["client"] = r.dev]
        /\ wire' = [wire EXCEPT !["client"] = SubSeq(@, 1 + 1, Len(@)),
                                !["server"] = IF up THEN @ \o r.out ELSE @]
    BY <1>2, <2>1 DEF Commit
  <2>3. 1 + 1 = 2
    OBVIOUS
  <2> QED
    BY <1>1, <1>3, <1>6, <2>2, <2>3 DEF Ends
<1>8. /\ Carried(c) = First(m) \cup Carried(t) /\ Below(First(m), Carried(t)) /\ Rising(t)
  BY <1>1, <1>3, <1>4, <1>6, CarriedTail DEF EchoOK
<1>9. PICK E, C, T, S, W, D, F, O, W2, D2, N :
        /\ E = Echoed /\ C = Carried(c) /\ T = Waits(dev["server"]) /\ S = Carried(s)
        /\ W = Waits(v) /\ D = v.dropped /\ F = dev["server"].dropped
        /\ O = Carried(r.out) /\ W2 = Waits(r.dev) /\ D2 = r.dev.dropped /\ N = First(m)
  OBVIOUS
<1>10. Line(E, C, T, S, W, k, D \cup F)
  BY <1>1, <1>9 DEF EchoOK
<1>11. /\ counter' = k /\ Echoed' \subseteq E \cup N /\ echoes' \in Seq(Nat)
       /\ \A i, j \in 1..Len(echoes') : i < j => echoes'[i] < echoes'[j]
  <2>0. /\ counter' = counter /\ echoes \in Seq(Nat)
        /\ \A i, j \in 1..Len(echoes) : i < j => echoes[i] < echoes[j]
    BY DEF Receive, EchoOK
  <2>1. CASE m.type = "sdu" /\ echoes' = Append(echoes, m.val)
    <3>1. N = {m.val} /\ Below(E, N) /\ m.val \in Nat
      <4>1. Below(E, N)
        BY <1>8, <1>9, <1>10, LineHeard
      <4> QED
        BY <1>4, <1>9, <2>1, <4>1 DEF First, Message
    <3>2. PICK e, f, x, n : e = echoes /\ f = echoes' /\ x = m.val /\ n = Len(echoes)
      OBVIOUS
    <3>3. /\ e \in Seq(Nat) /\ x \in Nat /\ n \in Nat /\ f \in Seq(Nat) /\ Len(f) = n + 1
          /\ \A i \in 1..n : f[i] = e[i]
          /\ f[n + 1] = x
      BY <2>0, <2>1, <3>1, <3>2, AppendProperties
    <3>4. \A i \in 1..n : e[i] \in E /\ e[i] < x
      BY <1>9, <3>1, <3>2 DEF Echoed, Below
    <3>5. ASSUME NEW i \in 1..Len(f) PROVE i \in 1..n \/ i = n + 1
      BY <3>3
    <3>6. ASSUME NEW i \in 1..Len(f), NEW j \in 1..Len(f), i < j PROVE f[i] < f[j]
      <4>1. i \in 1..n
        BY <3>3, <3>6
      <4>2. CASE j = n + 1
        BY <3>3, <3>4, <4>1, <4>2
      <4>3. CASE j \in 1..n
        BY <2>0, <3>2, <3>3, <3>6, <4>1, <4>3
      <4> QED
        BY <3>5, <4>2, <4>3
    <3>7. {f[i] : i \in 1..Len(f)} \subseteq E \cup N
      BY <3>1, <3>2, <3>3, <3>4, <3>5
    <3> QED
      BY <1>1, <2>0, <3>2, <3>3, <3>6, <3>7 DEF Echoed
  <2>2. CASE echoes' = echoes
    BY <1>1, <1>9, <2>0, <2>2 DEF Echoed
  <2> QED
    BY <1>1, <2>1, <2>2 DEF Receive
<1>12. Line(Echoed', Carried(t), T, S, W, k, D \cup F)
  <2>1. PICK E2 : E2 = Echoed'
    OBVIOUS
  <2> QED
    BY <1>8, <1>9, <1>10, <1>11, <2>1, LineHeard
<1>13. Passes(W, {}, O, W2, D \cup F, D2 \cup F)
  BY <1>5, <1>9, PassesBeside DEF Moved
<1>14. PICK E2, C2 : E2 = Echoed' /\ C2 = Carried(t)
  OBVIOUS
<1>15. Line(E2, C2, T, S \cup O, W2, k, D2 \cup F) /\ Below(S, O)
  BY <1>12, <1>13, <1>14, LineClient
<1>16. PICK s2 : s2 = IF up THEN s \o r.out ELSE s
  OBVIOUS
<1>17. Rising(s2) /\ Line(E2, C2, T, Carried(s2), W2, k, D2 \cup F)
  <2>1. CASE up
    <3>1. PICK o : o = r.out
      OBVIOUS
    <3>2. o \in Seq(Message) /\ Rising(o) /\ Rising(s)
      BY <1>1, <1>5, <3>1, SayOne DEF Moved, IsResult, EchoOK
    <3>3. Carried(s \o o) = S \cup O /\ Rising(s \o o)
      BY <1>3, <1>9, <1>15, <3>1, <3>2, CarriedConcat
    <3> QED
      BY <1>15, <1>16, <2>1, <3>1, <3>3
  <2>2. CASE ~up
    <3>1. S \subseteq S \cup O
      OBVIOUS
    <3>2. Line(E2, C2, T, S, W2, k, D2 \cup F)
      BY <1>15, <3>1, LineLess
    <3> QED
      BY <1>1, <1>9, <1>16, <2>2, <3>2 DEF EchoOK
  <2> QED
    BY <2>1, <2>2
<1> QED
  BY <1>7, <1>8, <1>9, <1>11, <1>14, <1>16, <1>17 DEF EchoOK
\* A step that neither sends nor refuses a number keeps the line.
LEMMA EchoQuiet ==
  ASSUME EchoOK, echoes' = echoes, counter' = counter,
         Rising(wire'["client"]), Carried(wire'["client"]) \subseteq Carried(wire["client"]),
         Rising(wire'["server"]), Carried(wire'["server"]) \subseteq Carried(wire["server"]),
         Settled(dev["client"], dev'["client"]), Settled(dev["server"], dev'["server"])
  PROVE  EchoOK'
<1>1. PICK C, S, T, W, D, C2, S2, T2, W2, D2 :
        /\ C = Carried(wire["client"]) /\ S = Carried(wire["server"])
        /\ T = Waits(dev["server"]) /\ W = Waits(dev["client"])
        /\ D = dev["client"].dropped \cup dev["server"].dropped
        /\ C2 = Carried(wire'["client"]) /\ S2 = Carried(wire'["server"])
        /\ T2 = Waits(dev'["server"]) /\ W2 = Waits(dev'["client"])
        /\ D2 = dev'["client"].dropped \cup dev'["server"].dropped
  OBVIOUS
<1>2. C2 \subseteq C /\ S2 \subseteq S /\ T2 \subseteq T /\ W2 \subseteq W /\ D2 \subseteq D
  BY <1>1 DEF Settled
<1>3. PICK E, k : E = Echoed /\ k = counter
  OBVIOUS
<1>4. Line(E, C, T, S, W, k, D)
  BY <1>1, <1>3 DEF EchoOK
<1>5. Line(E, C2, T2, S2, W2, k, D2)
  BY <1>2, <1>4, LineLess
<1>6. Echoed' = E /\ counter' = k
  BY <1>3 DEF Echoed
<1> QED
  BY <1>1, <1>5, <1>6 DEF EchoOK

\* No number is anywhere in the first state.
LEMMA InitEcho == Init => EchoOK
<1> SUFFICES ASSUME Init PROVE EchoOK
  OBVIOUS
<1>1. wire["client"] = << >> /\ wire["server"] = << >> /\ echoes = << >> /\ counter = 0
  BY DEF Init, Ends
<1>2. /\ dev["client"].tx = NULL /\ dev["client"].dropped = {}
      /\ dev["server"].tx = NULL /\ dev["server"].dropped = {}
  BY DEF Init, Ends, NewEnd
<1>3. Waits(dev["client"]) = {} /\ Waits(dev["server"]) = {} /\ Echoed = {}
  BY <1>1, <1>2 DEF Waits, Echoed
<1>4. Line({}, {}, {}, {}, {}, 0, {} \cup {})
  BY DEF Line, Below
<1>5. echoes \in Seq(Nat) /\ \A i, j \in 1..Len(echoes) : i < j => echoes[i] < echoes[j]
  BY <1>1
<1> QED
  BY <1>1, <1>2, <1>3, <1>4, <1>5, SayOne DEF EchoOK

\* The client's connect puts no number on the wire.
LEMMA EchoConnect ==
  ASSUME IInv, EchoOK, ClientConnect
  PROVE  EchoOK'
<1>0. "client" \in Ends /\ "server" \in Ends
  BY DEF Ends
<1>1. /\ DOMAIN dev = Ends /\ DOMAIN wire = Ends /\ wire["client"] \in Seq(Message)
      /\ wire["server"] = << >> /\ echoes' = echoes /\ counter' = counter
  BY DEF IInv, DevOK, WireOK, NoReq, ClientConnect
<1>2. PICK v : v = dev["client"]
  OBVIOUS
<1>3. PICK r \in l2cap_connect(v) : Commit("client", l2cap_connect(v), r, 0)
  BY <1>2 DEF ClientConnect, Commit
<1>4. Settled(v, r.dev) /\ (r.out = << >> \/ r.out = <<Msg("req", 1)>>)
  BY <1>0, <1>2, <1>3, EndFields, ConnectSettled
<1>5. /\ dev'["client"] = r.dev /\ dev'["server"] = dev["server"]
      /\ wire'["client"] = SubSeq(wire["client"], 0 + 1, Len(wire["client"]))
      /\ wire'["server"] = IF up THEN wire["server"] \o r.out ELSE wire["server"]
  <2>1. Peer("client") = "server"
    BY BothEnds
  <2>2. /\ dev' = [dev EXCEPT !["client"] = r.dev]
        /\ wire' = [wire EXCEPT !["client"] = SubSeq(@, 0 + 1, Len(@)),
                                !["server"] = IF up THEN @ \o r.out ELSE @]
    BY <1>3, <2>1 DEF Commit
  <2> QED
    BY <1>1, <2>2 DEF Ends
<1>6. wire'["client"] = wire["client"]
  BY <1>1, <1>5, TakeNone
<1>7. Rising(wire'["server"]) /\ Carried(wire'["server"]) = {}
  <2>1. PICK m : m = Msg("req", 1)
    OBVIOUS
  <2>2. m \in Message /\ First(m) = {}
    BY <2>1 DEF Msg, Message, First
  <2>3. wire'["server"] = << >> \/ wire'["server"] = <<m>>
    BY <1>1, <1>4, <1>5, <2>1
  <2> QED
    BY <2>2, <2>3, SayOne
<1>8. Settled(dev["server"], dev'["server"])
  BY <1>0, <1>5, EndFields, FlagSettled
<1>9. Rising(wire'["client"])
  BY <1>6 DEF EchoOK
<1> QED
  BY <1>1, <1>2, <1>4, <1>5, <1>6, <1>7, <1>8, <1>9, EchoQuiet

\* The client is offered the next number.
LEMMA EchoSend ==
  ASSUME IInv, EchoOK, ClientSend
  PROVE  EchoOK'
<1>0. "client" \in Ends /\ "server" \in Ends
  BY DEF Ends
<1>1. PICK s, c, v, k, n : /\ s = wire["server"] /\ c = wire["client"] /\ v = dev["client"]
                           /\ k = counter /\ n = counter + 1
  OBVIOUS
<1>2. /\ DOMAIN dev = Ends /\ DOMAIN wire = Ends /\ c \in Seq(Message) /\ s \in Seq(Message)
      /\ k \in Nat /\ echoes' = echoes /\ Echoed' = Echoed
  BY <1>1 DEF IInv, DevOK, WireOK, NoReq, ReqFirst, ClientSend, Echoed
<1>3. CASE UNCHANGED <<dev, wire, counter, faults>>
  BY <1>2, <1>3 DEF EchoOK
<1>4. CASE /\ counter' = counter + 1
           /\ LET rs == {[r EXCEPT !.dev = Refused(@, counter + 1, r.rc)]
                           : r \in l2cap_send(dev["client"], counter + 1)}
              IN  \E r \in rs : Commit("client", rs, r, 0)
  <2>1. PICK RS : RS = {[r EXCEPT !.dev = Refused(@, n, r.rc)] : r \in l2cap_send(v, n)}
    OBVIOUS
  <2>2. PICK q \in RS : Commit("client", RS, q, 0)
    BY <1>1, <1>4, <2>1
  <2>3. PICK r \in l2cap_send(v, n) : q = [r EXCEPT !.dev = Refused(@, n, r.rc)]
    BY <2>1, <2>2
  <2>4. Sendable(n) /\ DOMAIN v = Fields
    BY <1>0, <1>1, <1>2, EndFields DEF Sendable
  <2>5. Offered(v, r, n)
    BY <2>4, SendOffered
  <2>6. DOMAIN r = {"dev", "rc", "out", "faults"}
    BY <2>5 DEF Offered, Moved, Still, IsResult
  <2>7. PICK u : u = r.dev
    OBVIOUS
  <2>8. /\ DOMAIN q = DOMAIN r /\ q.out = r.out /\ q.faults = r.faults
        /\ q.dev = Refused(u, n, r.rc)
    BY <2>3, <2>6, <2>7
  <2>9. Moved(v, q, {n})
    BY <2>5, <2>7, <2>8, RefusedMoved
  <2>10. /\ dev'["client"] = q.dev /\ dev'["server"] = dev["server"]
         /\ wire'["client"] = c /\ wire'["server"] = IF up THEN s \o q.out ELSE s
    <3>1. Peer("client") = "server"
      BY BothEnds
    <3>2. /\ dev' = [dev EXCEPT !["client"] = q.dev]
          /\ wire' = [wire EXCEPT !["client"] = SubSeq(@, 0 + 1, Len(@)),
                                  !["server"] = IF up THEN @ \o q.out ELSE @]
      BY <2>2, <3>1 DEF Commit
    <3>3. SubSeq(c, 0 + 1, Len(c)) = c
      BY <1>2, TakeNone
    <3> QED
      BY <1>1, <1>2, <3>2, <3>3 DEF Ends
  <2>11. PICK E, C, T, S, W, D, F, O, W2, D2, N :
           /\ E = Echoed /\ C = Carried(c) /\ T = Waits(dev["server"]) /\ S = Carried(s)
           /\ W = Waits(v) /\ D = v.dropped /\ F = dev["server"].dropped
           /\ O = Carried(q.out) /\ W2 = Waits(q.dev) /\ D2 = q.dev.dropped /\ N = {n}
    OBVIOUS
  <2>12. Line(E, C, T, S, W, k, D \cup F)
    BY <1>1, <2>11 DEF EchoOK
  <2>13. Passes(W, N, O, W2, D \cup F, D2 \cup F)
    BY <2>9, <2>11, PassesBeside DEF Moved
  <2>14. n = k + 1 /\ N = {k + 1}
    BY <1>1, <2>11
  <2>15. Line(E, C, T, S \cup O, W2, n, D2 \cup F) /\ Below(S, O)
    BY <2>12, <2>13, <2>14, LineClient
  <2>16. PICK s2 : s2 = IF up THEN s \o q.out ELSE s
    OBVIOUS
  <2>17. Rising(s2) /\ Line(E, C, T, Carried(s2), W2, n, D2 \cup F)
    <3>1. CASE up
      <4>1. PICK o : o = q.out
        OBVIOUS
      <4>2. o \in Seq(Message) /\ Rising(o) /\ Rising(s)
        BY <1>1, <2>9, <4>1, SayOne DEF Moved, IsResult, EchoOK
      <4>3. Carried(s \o o) = S \cup O /\ Rising(s \o o)
        BY <1>2, <2>11, <2>15, <4>1, <4>2, CarriedConcat
      <4> QED
        BY <2>15, <2>16, <3>1, <4>1, <4>3
    <3>2. CASE ~up
      <4>1. S \subseteq S \cup O
        OBVIOUS
      <4>2. Line(E, C, T, S, W2, n, D2 \cup F)
        BY <2>15, <4>1, LineLess
      <4> QED
        BY <1>1, <2>11, <2>16, <3>2, <4>2 DEF EchoOK
    <3> QED
      BY <3>1, <3>2
  <2>18. counter' = n /\ Rising(c)
    BY <1>1, <1>4 DEF EchoOK
  <2> QED
    BY <1>2, <2>10, <2>11, <2>16, <2>17, <2>18 DEF EchoOK
<1> QED
  BY <1>3, <1>4 DEF ClientSend

\* The calls that the example leaves out, and the loss of the link.
LEMMA EchoEnv ==
  ASSUME IInv, EchoOK, Env
  PROVE  EchoOK'
<1>0. "client" \in Ends /\ "server" \in Ends
  BY DEF Ends
<1>1. /\ DOMAIN dev = Ends /\ DOMAIN wire = Ends /\ wire["client"] \in Seq(Message)
      /\ wire["server"] \in Seq(Message) /\ Rising(wire["client"]) /\ Rising(wire["server"])
  BY DEF IInv, DevOK, WireOK, NoReq, ReqFirst, EchoOK
<1>2. /\ DOMAIN dev["client"] = Fields /\ DOMAIN dev["server"] = Fields
      /\ Settled(dev["client"], dev["client"]) /\ Settled(dev["server"], dev["server"])
  BY <1>0, EndFields, FlagSettled
<1>3. ASSUME NEW d \in Ends, l2cap_disconnect(d) PROVE EchoOK'
  <2>1. PICK o, t : o = Msg("disc", 0) /\ t = wire[Peer(d)]
    OBVIOUS
  <2>2. o \in Message /\ First(o) = {} /\ <<o>> \in Seq(Message)
    BY <2>1 DEF Msg, Message, First
  <2>3. /\ wire'[d] = wire[d] /\ wire'[Peer(d)] = (IF up THEN Append(t, o) ELSE t)
        /\ dev' = dev /\ counter' = counter /\ echoes' = echoes
    BY <1>1, <1>3, <2>1, BothEnds DEF l2cap_disconnect
  <2>4. t \in Seq(Message) /\ Rising(t)
    BY <1>1, <2>1, BothEnds DEF Ends
  <2>5. Append(t, o) = t \o <<o>>
    BY <2>2, <2>4
  <2>6. Carried(<<o>>) = {} /\ Rising(<<o>>)
    BY <2>2, SayOne
  <2>7. Below(Carried(t), {})
    BY DEF Below
  <2>8. Carried(t \o <<o>>) = Carried(t) /\ Rising(t \o <<o>>)
    <3>1. PICK y : y = <<o>>
      OBVIOUS
    <3>2. y \in Seq(Message) /\ Carried(y) = {} /\ Rising(y)
      BY <2>2, <2>6, <3>1
    <3>3. Carried(t \o y) = Carried(t) \cup {} /\ Rising(t \o y)
      BY <2>4, <2>7, <3>2, CarriedConcat
    <3> QED
      BY <3>1, <3>3
  <2>9. Rising(wire'[Peer(d)]) /\ Carried(wire'[Peer(d)]) \subseteq Carried(wire[Peer(d)])
    BY <2>1, <2>3, <2>4, <2>5, <2>8
  <2>10. \A e \in Ends : Rising(wire'[e]) /\ Carried(wire'[e]) \subseteq Carried(wire[e])
    BY <1>1, <2>3, <2>9, BothEnds DEF Ends
  <2> QED
    BY <1>0, <1>2, <2>3, <2>10, EchoQuiet
<1>4. ASSUME NEW x, dev' = [dev EXCEPT !["server"].hooked = x], wire' = wire,
             counter' = counter, echoes' = echoes
      PROVE  EchoOK'
  <2>1. PICK v, w : v = dev["server"] /\ w = [v EXCEPT !.hooked = x]
    OBVIOUS
  <2>2. dev'["server"] = w /\ dev'["client"] = dev["client"]
    BY <1>0, <1>1, <1>4, <2>1
  <2>3. DOMAIN w = Fields /\ w.tx = v.tx /\ w.data = v.data /\ w.dropped = v.dropped
    BY <1>2, <2>1 DEF Fields
  <2>4. Settled(v, w)
    BY <2>3, SettledSame
  <2> QED
    BY <1>1, <1>2, <1>4, <2>1, <2>2, <2>4, EchoQuiet
<1>5. CASE l2cap_unsubscribe \/ l2cap_subscribe
  BY <1>4, <1>5 DEF l2cap_unsubscribe, l2cap_subscribe
<1>6. CASE LinkLoss
  <2>1. /\ wire'["client"] = << >> /\ wire'["server"] = << >> /\ dev' = dev
        /\ counter' = counter /\ echoes' = echoes
    BY <1>0, <1>6 DEF LinkLoss
  <2> QED
    BY <1>2, <2>1, SayOne, EchoQuiet
<1> QED
  BY <1>3, <1>5, <1>6 DEF Env

\* An end notices that the link is gone; the number that waits is lost.
LEMMA EchoLost ==
  ASSUME IInv, EchoOK, NEW d \in Ends, LinkLost(d)
  PROVE  EchoOK'
<1>1. /\ DOMAIN dev = Ends /\ wire' = wire /\ counter' = counter /\ echoes' = echoes
      /\ Rising(wire["client"]) /\ Rising(wire["server"])
  BY DEF IInv, DevOK, LinkLost, EchoOK
<1>2. PICK v : v = dev[d]
  OBVIOUS
<1>3. PICK r : /\ r \in chan_free(d, v) \/ r = Result(v, "OK", << >>, 0)
               /\ dev' = [dev EXCEPT ![d] = on_gap_disconnect(r.dev)]
  BY <1>2 DEF LinkLost
<1>4. DOMAIN v = Fields
  BY <1>2, EndFields
<1>5. Settled(v, r.dev)
  <2>1. CASE r \in chan_free(d, v)
    BY <1>4, <2>1, ChanFreeStill DEF AllStill, Still
  <2>2. CASE r = Result(v, "OK", << >>, 0)
    BY <1>4, <2>2, FlagSettled DEF Result
  <2> QED
    BY <1>3, <2>1, <2>2
<1>6. PICK u, w : u = r.dev /\ w = on_gap_disconnect(u)
  OBVIOUS
<1>7. DOMAIN u = Fields
  BY <1>5, <1>6 DEF Settled
<1>8. DOMAIN w = Fields /\ w.tx = u.tx /\ w.data = u.data /\ w.dropped = u.dropped
  BY <1>6, <1>7 DEF on_gap_disconnect, Fields
<1>9. Settled(v, w)
  BY <1>5, <1>6, <1>8, SettledSame, SettledOn
<1>10. dev'[d] = w /\ dev'[Peer(d)] = dev[Peer(d)]
  BY <1>1, <1>3, <1>6, BothEnds
<1>11. Settled(dev[d], dev'[d]) /\ Settled(dev[Peer(d)], dev'[Peer(d)])
  BY <1>2, <1>9, <1>10, BothEnds, EndFields, FlagSettled
<1>12. Settled(dev["client"], dev'["client"]) /\ Settled(dev["server"], dev'["server"])
  BY <1>11, BothEnds DEF Ends
<1> QED
  BY <1>1, <1>12, EchoQuiet

\* Every step keeps the line.
LEMMA NextEcho ==
  ASSUME IInv, EchoOK, [Next]_vars
  PROVE  EchoOK'
<1>1. CASE Host
  BY <1>1, EchoServer, EchoClient, EchoLost DEF Host, Ends
<1>2. CASE ClientConnect
  BY <1>2, EchoConnect
<1>3. CASE ClientWait
  BY <1>3 DEF ClientWait, EchoOK, Echoed
<1>4. CASE ClientSend
  BY <1>4, EchoSend
<1>5. CASE Env
  BY <1>5, EchoEnv
<1>6. CASE UNCHANGED vars
  BY <1>6 DEF vars, EchoOK, Echoed
<1> QED
  BY <1>1, <1>2, <1>3, <1>4, <1>5, <1>6 DEF Next, Client

\* The numbers come back in the order in which the client sent them, none twice,
\* and none that either program was refused, for any number of SDUs and faults
\* and wherever the link or a channel breaks.
THEOREM EchoOrder == Spec => []EchoesFaithful
<1>1. EchoOK => EchoesFaithful
  <2> SUFFICES ASSUME EchoOK, NEW i \in 1..Len(echoes)
               PROVE  echoes[i] <= counter /\ \A d \in Ends : echoes[i] \notin dev[d].dropped
    BY DEF EchoOK, EchoesFaithful
  <2>1. PICK E, C, T, S, W, k, D :
          /\ E = Echoed /\ k = counter /\ D = dev["client"].dropped \cup dev["server"].dropped
          /\ Line(E, C, T, S, W, k, D)
    BY DEF EchoOK
  <2>2. echoes[i] \in E
    BY <2>1 DEF Echoed
  <2>3. k \in Nat /\ E \subseteq 1..k /\ E \cap D = {}
    BY <2>1 DEF Line
  <2>4. echoes[i] \in 1..k /\ echoes[i] \notin D
    BY <2>2, <2>3
  <2> QED
    BY <2>1, <2>3, <2>4 DEF Ends
<1>2. Init => IInv /\ EchoOK
  BY InitIInv, InitEcho
<1>3. IInv /\ EchoOK /\ [Next]_vars => IInv' /\ EchoOK'
  BY NextIInv, NextEcho
<1> QED
  BY <1>1, <1>2, <1>3, PTL DEF Spec
==============================================================================
