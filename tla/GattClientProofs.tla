--------------------------- MODULE GattClientProofs ---------------------------
(***************************************************************************)
(* Proofs about GattClient, for any programs, payloads and peers, and any  *)
(* number of calls, faults and resets: the client goes for the peer with   *)
(* the name, writes where it means to, sees every call completed once and  *)
(* ends only for a reason.                                                 *)
(*                                                                         *)
(* The invariant follows a discovery while it is under way: the items the  *)
(* host has yet to report are a suffix of what the peer has, and what the  *)
(* hooks hold is what the items before it make of it.  A discovery cut     *)
(* short by the loss of the link, or one with a fault, is excused where    *)
(* the properties excuse it and nowhere else.                              *)
(***************************************************************************)
EXTENDS GattClient, StructureProofs

-----------------------------------------------------------------------------
(* The inductive invariant.                                                *)

AppFields ==
  {"SYNCED", "PEER", "CONN", "CONNECTED", "DISCONNECTED", "SVC_RANGE", "SVC_DONE", "RECV_VAL",
   "IND_VAL", "CHR_DONE", "ROUND_DONE", "heard", "completed"}

HostFields == {"synced", "scanning", "connecting", "conn", "terminating"}

\* What the host may be asked to do.
Procs ==
  [op : {"services"}, items : Seq(Groups)] \cup [op : {"characteristics"}, items : Seq(Attrs)]
  \cup [op : {"read"}, items : {<< >>}]
  \cup [op : {"write"}, items : {<< >>}, purpose : {"recv", "subscribe", "any"}, handle : Nat]

Typed ==
  /\ program \in Programs /\ peer \in Peers \cup {<< >>}
  /\ pc \in {"sync", "scan", "connect", "services", "chrs", "loop", "calls", "round", "ended"}
  /\ DOMAIN app = AppFields /\ DOMAIN host = HostFields
  /\ app.RECV_VAL \in Nat /\ app.IND_VAL \in Nat /\ app.SVC_RANGE \in Ranges \cup {NONE}
  /\ procs \in Seq(Procs) /\ faults \in Nat /\ resets \in Nat
  /\ app.completed \in [Ops -> Nat] /\ calls \in [Ops -> Nat]

\* Which program is where, and what it cannot have yet.
Control ==
  /\ program \notin Clients => pc \in {"sync", "round", "ended"} /\ host.conn = NONE
  /\ program \in Clients => pc # "round"
  /\ program = "calls" => pc \notin {"services", "chrs", "loop"}
  /\ program # "calls" /\ program \in Clients => pc # "calls" /\ hooked
  /\ host.scanning => pc \in {"scan", "round"}
  /\ host.connecting => pc = "connect" /\ ~app.CONNECTED /\ host.conn = NONE /\ ~app.DISCONNECTED
  /\ pc \in {"sync", "scan"} => host.conn = NONE /\ ~app.CONNECTED /\ ~app.DISCONNECTED
  /\ host.conn = NONE => procs = << >>
  /\ app.DISCONNECTED => host.conn = NONE
  /\ pc \in {"sync", "scan", "connect", "round"} =>
       /\ procs = << >> /\ hits = {} /\ app.RECV_VAL = 0 /\ app.IND_VAL = 0
       /\ app.SVC_RANGE = NONE /\ ~app.SVC_DONE /\ ~app.CHR_DONE

\* Something has gone wrong, which the program may end for.
Blamed == faults > 0 \/ resets > 0 \/ app.DISCONNECTED

\* Until then the calls find the host as they need it.
Ready ==
  /\ pc = "sync" /\ app.SYNCED => host.synced \/ resets > 0
  /\ pc \in {"scan", "round"} => host.synced \/ resets > 0
  /\ pc = "round" /\ app.ROUND_DONE => ~host.scanning
  /\ pc = "connect" /\ app.CONNECTED => Blamed \/ (host.conn # NONE /\ app.CONN = host.conn)
  /\ pc \in {"services", "chrs", "loop"} =>
       app.DISCONNECTED \/ (host.conn # NONE /\ app.CONN = host.conn)

\* The client has the range of one of our services.
RangeOf(i) == [start |-> Group(peer, i).start, end |-> Group(peer, i).end]

OurRange == app.SVC_RANGE # NONE =>
              \E i \in DOMAIN peer : peer[i].uuid = "SVC" /\ app.SVC_RANGE = RangeOf(i)

\* After k of the services: the range is that of the last of ours, if any.
RangeAfter(k) ==
  \/ app.SVC_RANGE = NONE /\ \A j \in 1..k : peer[j].uuid # "SVC"
  \/ \E i \in 1..k : /\ peer[i].uuid = "SVC" /\ app.SVC_RANGE = RangeOf(i)
                     /\ \A j \in (i + 1)..k : peer[j].uuid # "SVC"

\* The discovery of services, unless the link was lost.
SvcInv ==
  pc = "services" /\ ~app.DISCONNECTED =>
    \E k \in 0..Len(peer) :
      /\ RangeAfter(k) /\ ~app.CHR_DONE
      /\ \/ /\ ~app.SVC_DONE
            /\ procs = <<[op |-> "services", items |-> SubSeq(View[peer].groups, k + 1, Len(peer))]>>
         \/ app.SVC_DONE /\ procs = << >> /\ k = Len(peer)

\* What the client is to find in service i is found or still to come.
Coming == IF procs = << >> THEN << >> ELSE procs[1].items
Awaits(i, uuid, val) == \A c \in Chrs(uuid) : c.svc = i => val # 0 \/ c \in ToSet(Coming)

\* The discovery of characteristics, unless the link was lost.
ChrInv ==
  pc = "chrs" /\ ~app.DISCONNECTED =>
    /\ \E i \in DOMAIN peer :
         IsLastOurs(i) /\ Awaits(i, "RECV", app.RECV_VAL) /\ Awaits(i, "IND", app.IND_VAL)
    /\ \/ ~app.CHR_DONE /\ Len(procs) = 1 /\ procs[1].op = "characteristics"
       \/ app.CHR_DONE /\ procs = << >>

\* A handle the client writes to is one of ours.
GoodRecv(v) == \E c \in OurChrs("RECV") : c.val = v
GoodCccd(v) == \E c \in OurChrs("IND") : c.val + 1 = v
GoodWrite(purpose, v) == (purpose = "recv" => GoodRecv(v)) /\ (purpose = "subscribe" => GoodCccd(v))

GoodProc(p) ==
  /\ p.op = "characteristics" => \A c \in ToSet(p.items) : c \in OurChrs(c.uuid)
  /\ p.op = "write" => GoodWrite(p.purpose, p.handle)

Targets ==
  /\ app.RECV_VAL # 0 => GoodRecv(app.RECV_VAL)
  /\ app.IND_VAL # 0 => \E c \in OurChrs("IND") : c.val = app.IND_VAL
  /\ pc = "loop" => app.RECV_VAL # 0 /\ \A i \in DOMAIN procs : procs[i].op = "write"
  /\ \A i \in DOMAIN procs : GoodProc(procs[i])
  /\ \A w \in hits : GoodWrite(w[1], w[2])

\* The program that makes the calls has nothing else under way.
Counted ==
  /\ program = "calls" => \A i \in DOMAIN procs : procs[i].op \in Ops
  /\ CompletedOnce

\* Services that were all looked at are still looked at after them.
Looked == pc \in {"chrs", "loop"} => app.SVC_DONE

IInv ==
  /\ Typed /\ PeerNamed /\ Control /\ Ready /\ OurRange /\ SvcInv /\ ChrInv /\ Targets /\ Counted
  /\ Looked /\ EndsForCause

-----------------------------------------------------------------------------
(* What a discovery goes over.                                             *)

\* What lies in the range, and nothing else.
LEMMA WithinFacts ==
  ASSUME NEW chrs \in Seq(Attrs), NEW range
  PROVE  /\ Within(chrs, range) \in Seq(Attrs)
         /\ ToSet(Within(chrs, range)) = {c \in ToSet(chrs) : c.def \in range.start..range.end}
<1> DEFINE In(c) == c.def \in range.start..range.end
           Is(f, m) == f = [i \in 0..m |-> IF i = 0 THEN << >>
                              ELSE IF In(chrs[i]) THEN Append(f[i - 1], chrs[i]) ELSE f[i - 1]]
           S == {m \in Nat : \E f : Is(f, m)}
<1>0. Len(chrs) \in Nat /\ DOMAIN chrs = 1..Len(chrs)
  BY LenProperties
<1>1. 0 \in S
  <2>1. PICK f : f = [i \in 0..0 |-> << >>]
    OBVIOUS
  <2>2. Is(f, 0)
    BY <2>1
  <2> QED
    BY <2>2
<1>2. ASSUME NEW m \in Nat, m \in S PROVE m + 1 \in S
  <2> HIDE DEF In
  <2>1. PICK f : Is(f, m)
    BY <1>2
  <2>2. PICK g : g = [i \in 0..(m + 1) |->
                        IF i = m + 1
                        THEN IF In(chrs[m + 1]) THEN Append(f[m], chrs[m + 1]) ELSE f[m]
                        ELSE f[i]]
    OBVIOUS
  <2>3. ASSUME NEW i \in 0..(m + 1)
        PROVE  g[i] = IF i = 0 THEN << >>
                      ELSE IF In(chrs[i]) THEN Append(g[i - 1], chrs[i]) ELSE g[i - 1]
    <3>1. CASE i = m + 1
      <4>1. i # 0 /\ i - 1 = m /\ m # m + 1 /\ m \in 0..(m + 1)
        BY <3>1
      <4>2. g[m] = f[m] /\ g[i] = IF In(chrs[m + 1]) THEN Append(f[m], chrs[m + 1]) ELSE f[m]
        BY <2>2, <3>1, <4>1
      <4> QED
        BY <3>1, <4>1, <4>2
    <3>2. CASE i # m + 1
      <4>1. i \in 0..m
        BY <3>2
      <4>2. g[i] = f[i]
        BY <2>2, <3>2
      <4>3. f[i] = IF i = 0 THEN << >>
                   ELSE IF In(chrs[i]) THEN Append(f[i - 1], chrs[i]) ELSE f[i - 1]
        BY <2>1, <4>1
      <4>4. i # 0 => g[i - 1] = f[i - 1]
        BY <2>2, <4>1
      <4> QED
        BY <4>2, <4>3, <4>4
    <3> QED
      BY <3>1, <3>2
  <2>4. Is(g, m + 1)
    BY <2>2, <2>3
  <2> HIDE DEF Is
  <2> QED
    BY <2>4
<1>3. Len(chrs) \in S
  <2> HIDE DEF S
  <2>1. \A n \in 0..Len(chrs) : n \in S
    BY <1>0, <1>1, <1>2, Upwards
  <2> QED
    BY <1>0, <2>1
<1>4. PICK f : Is(f, Len(chrs)) /\ Within(chrs, range) = f[Len(chrs)]
  BY <1>3 DEF Within
<1> DEFINE P(s, m) == /\ s \in Seq(Attrs)
                      /\ \A c : c \in ToSet(s) <=> \E k \in 1..m : c = chrs[k] /\ In(chrs[k])
           A == {m \in Nat : m <= Len(chrs) => P(f[m], m)}
<1>5. 0 \in A
  <2>1. f[0] = << >>
    BY <1>4
  <2>2. ToSet(<< >>) = {}
    BY DEF ToSet
  <2>3. P(<< >>, 0)
    BY <2>2
  <2> QED
    BY <2>1, <2>3
<1>6. ASSUME NEW m \in 0..(Len(chrs) - 1), m \in A PROVE m + 1 \in A
  <2> HIDE DEF In
  <2>1. m + 1 \in 0..Len(chrs) /\ m + 1 # 0 /\ (m + 1) - 1 = m /\ m + 1 \in 1..Len(chrs) /\ m \in Nat
    BY <1>0
  <2>2. PICK b : b = f[m]
    OBVIOUS
  <2>3. P(b, m)
    BY <1>0, <1>6, <2>1, <2>2
  <2>4. PICK d \in Attrs : d = chrs[m + 1]
    BY <2>1, ElementOfSeq
  <2>5. f[m + 1] = IF In(d) THEN Append(b, d) ELSE b
    <3>1. f[m + 1] = IF In(chrs[m + 1]) THEN Append(f[(m + 1) - 1], chrs[m + 1]) ELSE f[(m + 1) - 1]
      BY <1>4, <2>1
    <3> QED
      BY <2>1, <2>2, <2>4, <3>1
  <2>6. CASE ~In(d)
    <3>1. ASSUME NEW c
          PROVE  (\E k \in 1..(m + 1) : c = chrs[k] /\ In(chrs[k])) <=> (\E k \in 1..m : c = chrs[k] /\ In(chrs[k]))
      BY <2>1, <2>4, <2>6
    <3>2. P(b, m + 1)
      BY <2>3, <3>1
    <3> HIDE DEF P
    <3> QED
      BY <2>1, <2>5, <2>6, <3>2
  <2>7. CASE In(d)
    <3>1. ASSUME NEW c
          PROVE  (\E k \in 1..(m + 1) : c = chrs[k] /\ In(chrs[k]))
                   <=> (c = d \/ \E k \in 1..m : c = chrs[k] /\ In(chrs[k]))
      BY <2>1, <2>4, <2>7
    <3>2. Append(b, d) \in Seq(Attrs) /\ ToSet(Append(b, d)) = ToSet(b) \cup {d}
      <4>1. b \in Seq(Attrs)
        BY <2>3
      <4>2. Append(b, d) \in Seq(Attrs) /\ Len(Append(b, d)) = Len(b) + 1 /\ Len(b) \in Nat
            /\ DOMAIN b = 1..Len(b) /\ DOMAIN Append(b, d) = 1..(Len(b) + 1)
            /\ Append(b, d)[Len(b) + 1] = d /\ \A k \in 1..Len(b) : Append(b, d)[k] = b[k]
        BY <4>1, LenProperties, AppendProperties
      <4> QED
        BY <4>2 DEF ToSet
    <3>3. P(Append(b, d), m + 1)
      BY <2>3, <3>1, <3>2
    <3>4. f[m + 1] = Append(b, d)
      BY <2>5, <2>7
    <3> HIDE DEF P
    <3>5. P(f[m + 1], m + 1)
      BY <3>3, <3>4
    <3> QED
      BY <2>1, <3>5
  <2> QED
    BY <2>6, <2>7
<1>7. Len(chrs) \in A
  <2> HIDE DEF A
  <2>1. \A n \in 0..Len(chrs) : n \in A
    BY <1>0, <1>5, <1>6, Upwards
  <2> QED
    BY <1>0, <2>1
<1>8. P(Within(chrs, range), Len(chrs))
  BY <1>0, <1>4, <1>7
<1>9. \A c : c \in ToSet(chrs) <=> \E k \in 1..Len(chrs) : c = chrs[k]
  BY <1>0 DEF ToSet
<1> QED
  BY <1>8, <1>9

-----------------------------------------------------------------------------
(* The name in a payload: the loop of adv_has_name finds what CarriesName  *)
(* says is there.                                                          *)

\* What Max and Min return.
LEMMA MaxIs ==
  ASSUME NEW S \in SUBSET Nat, NEW m \in S, \A x \in S : x <= m
  PROVE  Max(S) = m
<1>1. PICK x \in S : x = Max(S) /\ \A y \in S : x >= y
  BY DEF Max
<1>2. x >= m /\ x <= m /\ x \in Nat /\ m \in Nat
  BY <1>1
<1> QED
  BY <1>1, <1>2

\* The same of the least element.
LEMMA MinIs ==
  ASSUME NEW S \in SUBSET Nat, NEW m \in S, \A x \in S : m <= x
  PROVE  Min(S) = m
<1>1. PICK x \in S : x = Min(S) /\ \A y \in S : x <= y
  BY DEF Min
<1>2. x <= m /\ m <= x /\ x \in Nat /\ m \in Nat
  BY <1>1
<1> QED
  BY <1>1, <1>2

\* A bounded set of numbers has a greatest one.
LEMMA MaxExists ==
  ASSUME NEW L \in Nat, NEW S \in SUBSET (1..L), S # {}
  PROVE  Max(S) \in S /\ \A x \in S : x <= Max(S)
<1> DEFINE T == {n \in Nat : L - n \in S}
<1>1. T # {}
  <2>1. PICK x \in S : TRUE
    OBVIOUS
  <2>2. L - x \in Nat /\ L - (L - x) = x
    BY <2>1
  <2> QED
    BY <2>1, <2>2
<1>2. PICK m \in T : \A k \in T : m <= k
  <2>1. T \in SUBSET Nat
    OBVIOUS
  <2> HIDE DEF T
  <2> QED
    BY <1>1, <2>1, LeastNumber
<1>3. PICK n \in S : n = L - m
  BY <1>2
<1>4. ASSUME NEW x \in S PROVE x <= n
  <2>1. L - x \in T
    BY <1>4
  <2>2. m <= L - x /\ m \in Nat /\ x \in Nat
    BY <1>2, <1>4, <2>1
  <2> QED
    BY <1>3, <2>2
<1>5. Max(S) = n
  <2>1. S \in SUBSET Nat
    OBVIOUS
  <2> QED
    BY <1>3, <1>4, <2>1, MaxIs
<1> QED
  BY <1>3, <1>4, <1>5

\* The structure at i has the complete name: type 9, then the bytes.
NameAt(data, i) == SubSeq(data, i + 1, i + data[i]) = <<9>> \o DEVICE_NAME

\* It does exactly when the loop's comparison says so.
LEMMA NameAtFacts ==
  ASSUME NEW data \in Seq(Nat), NEW i \in 1..Len(data), data[i] # 0, i + data[i] <= Len(data)
  PROVE  NameAt(data, i) <=> data[i + 1] = 9 /\ SubSeq(data, i + 2, i + data[i]) = DEVICE_NAME
<1>0. PICK L \in Nat : L = Len(data)
  BY LenProperties
<1>1. PICK d \in Nat : d = data[i]
  BY <1>0, ElementOfSeq
<1>2. d # 0 /\ i + d <= L /\ i + 1 \in 1..L /\ i + d \in (i + 1)..L /\ (i + 1) + 1 = i + 2
  BY <1>0, <1>1
<1>3. PICK rest \in Seq(Nat) : rest = SubSeq(data, i + 2, i + d)
  <2>1. i + 2 \in Int /\ i + d \in Int
    BY <1>1
  <2>2. \A k \in (i + 2)..(i + d) : data[k] \in Nat
    <3>1. ASSUME NEW k \in (i + 2)..(i + d) PROVE data[k] \in Nat
      <4>1. k \in 1..Len(data)
        BY <1>0, <1>2
      <4> QED
        BY <4>1, ElementOfSeq
    <3> QED
      BY <3>1
  <2> QED
    BY <2>1, <2>2, SubSeqProperties
<1>4. PICK x \in Nat : x = data[i + 1]
  BY <1>0, <1>2, ElementOfSeq
<1>5. SubSeq(data, i + 1, i + d) = <<x>> \o rest
  <2>1. SubSeq(data, i + 1, i + d) = <<data[i + 1]>> \o SubSeq(data, (i + 1) + 1, i + d)
    BY <1>0, <1>2, SubSeqRecursiveFirst
  <2> QED
    BY <1>2, <1>3, <1>4, <2>1
<1>6. PICK name \in Seq(Nat) : name = DEVICE_NAME
  BY GattClientAssumption
<1>7. <<x>> \o rest = <<9>> \o name <=> x = 9 /\ rest = name
  <2>1. CASE <<x>> \o rest = <<9>> \o name
    <3>1. (<<x>> \o rest)[1] = x /\ (<<9>> \o name)[1] = 9
      BY <1>3, <1>4, <1>6
    <3>2. x = 9
      BY <2>1, <3>1
    <3>3. Len(<<x>> \o rest) = 1 + Len(rest) /\ Len(<<9>> \o name) = 1 + Len(name)
          /\ Len(rest) \in Nat /\ Len(name) \in Nat
      BY <1>3, <1>4, <1>6, LenProperties
    <3>4. Len(rest) = Len(name)
      BY <2>1, <3>3
    <3>5. ASSUME NEW k \in 1..Len(rest) PROVE rest[k] = name[k]
      <4>1. (<<x>> \o rest)[k + 1] = rest[k] /\ (<<9>> \o name)[k + 1] = name[k]
        BY <1>3, <1>4, <1>6, <3>3, <3>4, SMTT(30)
      <4> QED
        BY <2>1, <4>1
    <3>6. rest = name
      BY <1>3, <1>6, <3>4, <3>5, SeqEqual
    <3> QED
      BY <2>1, <3>2, <3>6
  <2>2. CASE x = 9 /\ rest = name
    BY <2>2
  <2> QED
    BY <2>1, <2>2
<1> QED
  BY <1>1, <1>3, <1>4, <1>5, <1>6, <1>7 DEF NameAt

\* A cut of the payload from i on, as CarriesName has it from 1 on.
CutFrom(data, i, cut) ==
  /\ cut \in SUBSET (i..Len(data)) /\ i \in cut
  /\ \A j \in cut : data[j] # 0 /\ j + data[j] <= Len(data)
  /\ \A j \in cut \ {Max(cut)} : Min({k \in cut : k > j}) = j + data[j] + 1
  /\ NameAt(data, Max(cut))

CarriesFrom(data, i) == \E cut : CutFrom(data, i, cut)

\* What one turn of the loop requires of the structure at i.
Whole(data, i) == i + 1 <= Len(data) /\ data[i] # 0 /\ i + data[i] <= Len(data)

\* A cut is a whole structure with the name, or one followed by a cut.
LEMMA CutUnfolds ==
  ASSUME NEW data \in Seq(Nat), NEW i \in 1..Len(data), NEW cut, CutFrom(data, i, cut)
  PROVE  Whole(data, i) /\ (NameAt(data, i) \/ CarriesFrom(data, i + data[i] + 1))
<1>0. PICK L \in Nat : L = Len(data)
  BY LenProperties
<1>1. PICK d \in Nat : d = data[i]
  BY ElementOfSeq
<1>2. cut \in SUBSET (1..L) /\ cut # {} /\ cut \in SUBSET Nat
  BY <1>0 DEF CutFrom
<1>3. d # 0 /\ i + d <= L
  BY <1>0, <1>1 DEF CutFrom
<1>4. Whole(data, i)
  BY <1>0, <1>1, <1>3 DEF Whole
<1>5. PICK m \in cut : m = Max(cut) /\ \A x \in cut : x <= m
  BY <1>0, <1>2, MaxExists
<1>6. CASE i = m
  BY <1>4, <1>5, <1>6 DEF CutFrom
<1>7. CASE i # m
  <2> DEFINE more == {k \in cut : k > i}
             rest == cut \ {i}
  <2>1. more # {} /\ m \in more
    BY <1>2, <1>5, <1>7 DEF CutFrom
  <2>2. PICK n \in more : \A k \in more : n <= k
    <3>1. more \in SUBSET Nat
      BY <1>2
    <3> HIDE DEF more
    <3> QED
      BY <2>1, <3>1, LeastNumber
  <2>3. n = i + d + 1
    <3>1. more \in SUBSET Nat
      BY <1>2
    <3>2. Min(more) = n
      <4> HIDE DEF more
      <4> QED
        BY <2>2, <3>1, MinIs
    <3>3. i \in cut \ {Max(cut)}
      BY <1>5, <1>7 DEF CutFrom
    <3>4. Min(more) = i + d + 1
      BY <1>1, <3>3 DEF CutFrom
    <3> QED
      BY <3>2, <3>4
  <2>4. rest = more
    <3>1. ASSUME NEW k \in cut PROVE k # i <=> k > i
      BY <1>2, <3>1 DEF CutFrom
    <3> QED
      BY <3>1
  <2>5. rest \in SUBSET (n..L) /\ n \in rest
    <3>1. ASSUME NEW k \in rest PROVE k \in n..L
      BY <1>2, <2>2, <2>4, <3>1
    <3> QED
      BY <2>2, <2>4, <3>1
  <2>6. Max(rest) = m
    <3>1. rest \in SUBSET Nat /\ m \in rest /\ \A x \in rest : x <= m
      BY <1>2, <1>5, <1>7
    <3> HIDE DEF rest
    <3> QED
      BY <3>1, MaxIs
  <2>7. ASSUME NEW j \in rest \ {m} PROVE Min({k \in rest : k > j}) = j + data[j] + 1
    <3>1. j > i
      BY <2>4, <2>7
    <3>2. {k \in rest : k > j} = {k \in cut : k > j}
      BY <1>2, <3>1
    <3>3. j \in cut \ {Max(cut)}
      BY <1>5, <2>7
    <3> QED
      BY <3>2, <3>3 DEF CutFrom
  <2>8. \A j \in rest : data[j] # 0 /\ j + data[j] <= Len(data)
    BY DEF CutFrom
  <2>9. NameAt(data, m)
    BY <1>5 DEF CutFrom
  <2>10. CutFrom(data, n, rest)
    <3> HIDE DEF rest
    <3> QED
      BY <1>0, <2>5, <2>6, <2>7, <2>8, <2>9 DEF CutFrom
  <2> QED
    BY <1>1, <1>4, <2>3, <2>10 DEF CarriesFrom
<1> QED
  BY <1>6, <1>7

\* A whole structure before a cut, or with the name, makes a cut.
LEMMA CutFolds ==
  ASSUME NEW data \in Seq(Nat), NEW i \in 1..Len(data), Whole(data, i),
         NameAt(data, i) \/ CarriesFrom(data, i + data[i] + 1)
  PROVE  CarriesFrom(data, i)
<1>0. PICK L \in Nat : L = Len(data)
  BY LenProperties
<1>1. PICK d \in Nat : d = data[i]
  BY ElementOfSeq
<1>2. d # 0 /\ i + d <= L
  BY <1>0, <1>1 DEF Whole
<1>3. CASE NameAt(data, i)
  <2>1. PICK cut : cut = {i}
    OBVIOUS
  <2>2. Max(cut) = i
    <3>1. cut \in SUBSET Nat /\ i \in cut /\ \A x \in cut : x <= i
      BY <2>1
    <3> QED
      BY <3>1, MaxIs
  <2>3. CutFrom(data, i, cut)
    BY <1>0, <1>1, <1>2, <1>3, <2>1, <2>2 DEF CutFrom
  <2> QED
    BY <2>3 DEF CarriesFrom
<1>4. CASE CarriesFrom(data, i + data[i] + 1)
  <2>1. PICK n \in Nat : n = i + d + 1
    BY <1>1
  <2>2. PICK rest : CutFrom(data, n, rest)
    BY <1>1, <1>4, <2>1 DEF CarriesFrom
  <2>3. PICK cut : cut = rest \cup {i}
    OBVIOUS
  <2>4. n > i /\ rest \in SUBSET (n..L) /\ n \in rest /\ i \notin rest
    BY <1>0, <2>1, <2>2 DEF CutFrom
  <2>5. rest \in SUBSET (1..L) /\ rest # {} /\ cut \in SUBSET Nat /\ cut \in SUBSET (i..L)
    BY <1>0, <2>1, <2>3, <2>4
  <2>6. PICK m \in rest : m = Max(rest) /\ \A x \in rest : x <= m
    BY <1>0, <2>5, MaxExists
  <2>7. m > i /\ m \in Nat
    BY <2>4, <2>6
  <2>8. Max(cut) = m
    <3>1. m \in cut /\ \A x \in cut : x <= m
      BY <2>3, <2>6, <2>7
    <3> QED
      BY <2>5, <3>1, MaxIs
  <2>9. ASSUME NEW j \in cut \ {m} PROVE Min({k \in cut : k > j}) = j + data[j] + 1
    <3>1. CASE j = i
      <4>1. PICK more : more = {k \in cut : k > i}
        OBVIOUS
      <4>2. more \in SUBSET Nat /\ n \in more /\ \A x \in more : n <= x
        <5>1. more \in SUBSET Nat
          BY <2>5, <4>1
        <5>2. n \in more
          BY <2>3, <2>4, <4>1
        <5>3. \A x \in more : x \in rest
          BY <2>3, <4>1
        <5>4. \A x \in rest : n <= x
          BY <2>4
        <5> QED
          BY <5>1, <5>2, <5>3, <5>4
      <4>3. Min(more) = n
        BY <4>2, MinIs
      <4> QED
        BY <1>1, <2>1, <3>1, <4>1, <4>3
    <3>2. CASE j # i
      <4>1. j \in rest \ {Max(rest)} /\ j > i
        BY <2>3, <2>4, <2>6, <2>9, <3>2
      <4>2. {k \in cut : k > j} = {k \in rest : k > j}
        BY <2>3, <2>5, <4>1
      <4> QED
        BY <2>2, <4>1, <4>2 DEF CutFrom
    <3> QED
      BY <3>1, <3>2
  <2>10. \A j \in cut : data[j] # 0 /\ j + data[j] <= Len(data)
    BY <1>0, <1>1, <1>2, <2>2, <2>3 DEF CutFrom
  <2>11. NameAt(data, m)
    BY <2>2, <2>6 DEF CutFrom
  <2>12. CutFrom(data, i, cut)
    BY <1>0, <2>3, <2>5, <2>8, <2>9, <2>10, <2>11 DEF CutFrom
  <2> QED
    BY <2>12 DEF CarriesFrom
<1> QED
  BY <1>3, <1>4

\* Two ways to go over the payload that agree on each turn agree.
LEMMA TurnsAgree ==
  ASSUME NEW data \in Seq(Nat), NEW f, NEW g, NEW T,
         \A i \in 1..(Len(data) + 1) : f[i] <=> Whole(data, i) /\ (i \in T \/ f[i + data[i] + 1]),
         \A i \in 1..(Len(data) + 1) : g[i] <=> Whole(data, i) /\ (i \in T \/ g[i + data[i] + 1])
  PROVE  \A i \in 1..(Len(data) + 1) : f[i] <=> g[i]
<1>0. PICK L \in Nat : L = Len(data)
  BY LenProperties
<1> DEFINE D == {n \in 0..L : ~(f[L + 1 - n] <=> g[L + 1 - n])}
<1>1. ASSUME D # {} PROVE FALSE
  <2>1. PICK n \in D : \A k \in D : n <= k
    <3>1. D \in SUBSET Nat
      OBVIOUS
    <3> HIDE DEF D
    <3> QED
      BY <1>1, <3>1, LeastNumber
  <2>2. PICK i \in 1..(L + 1) : i = L + 1 - n
    BY <2>1
  <2>3. ~(f[i] <=> g[i])
    BY <2>1, <2>2
  <2>4. Whole(data, i)
    BY <1>0, <2>2, <2>3
  <2>5. i \in 1..L
    BY <1>0, <2>2, <2>4 DEF Whole
  <2>6. PICK d \in Nat : d = data[i]
    BY <1>0, <2>5, ElementOfSeq
  <2>7. d # 0 /\ i + d <= L
    BY <1>0, <2>4, <2>6 DEF Whole
  <2>8. PICK k \in 0..L : k = L - (i + d)
    BY <2>7
  <2>9. k < n /\ L + 1 - k = i + d + 1
    BY <2>2, <2>7, <2>8
  <2>10. k \notin D
    BY <2>1, <2>9
  <2>11. f[i + d + 1] <=> g[i + d + 1]
    BY <2>8, <2>9, <2>10
  <2> QED
    BY <1>0, <2>2, <2>3, <2>6, <2>11
<1>2. ASSUME NEW i \in 1..(L + 1) PROVE f[i] <=> g[i]
  <2>1. L + 1 - i \in 0..L /\ L + 1 - (L + 1 - i) = i
    OBVIOUS
  <2>2. L + 1 - i \notin D
    <3> HIDE DEF D
    <3> QED
      BY <1>1
  <2> QED
    BY <2>1, <2>2
<1> QED
  BY <1>0, <1>2

\* The loop of adv_has_name finds the name in exactly the payloads that
\* carry it.
LEMMA HasNameFacts ==
  ASSUME NEW data \in Seq(Nat)
  PROVE  adv_has_name(data) <=> CarriesName(data)
<1>0. PICK L \in Nat : L = Len(data)
  BY LenProperties
<1> DEFINE Name(i) == data[i + 1] = 9 /\ SubSeq(data, i + 2, i + data[i]) = DEVICE_NAME
           T == {i \in 1..(L + 1) : Name(i)}
           Body(f, i) == /\ i + 1 <= Len(data) /\ data[i] # 0 /\ i + data[i] <= Len(data)
                         /\ \/ data[i + 1] = 9 /\ SubSeq(data, i + 2, i + data[i]) = DEVICE_NAME
                            \/ f[i + data[i] + 1]
<1>1. ASSUME NEW i \in 1..(L + 1), NEW f
      PROVE  Body(f, i) <=> Whole(data, i) /\ (i \in T \/ f[i + data[i] + 1])
  BY DEF Whole
<1>2. PICK c : c = [i \in 1..(L + 1) |-> CarriesFrom(data, i)]
  OBVIOUS
<1>3. ASSUME NEW i \in 1..(L + 1)
      PROVE  c[i] <=> Whole(data, i) /\ (i \in T \/ c[i + data[i] + 1])
  <2> HIDE DEF Name
  <2>1. c[i] <=> CarriesFrom(data, i)
    BY <1>2
  <2>2. CASE i = L + 1
    <3>1. ~Whole(data, i)
      BY <1>0, <2>2 DEF Whole
    <3>2. ~CarriesFrom(data, i)
      BY <1>0, <2>2 DEF CarriesFrom, CutFrom
    <3> QED
      BY <2>1, <3>1, <3>2
  <2>3. CASE i # L + 1
    <3>1. i \in 1..Len(data)
      BY <1>0, <2>3
    <3>2. CarriesFrom(data, i) <=> Whole(data, i) /\ (NameAt(data, i) \/ CarriesFrom(data, i + data[i] + 1))
      BY <3>1, CutUnfolds, CutFolds DEF CarriesFrom
    <3>3. Whole(data, i) => (NameAt(data, i) <=> i \in T)
      <4>1. Whole(data, i) => (NameAt(data, i) <=> Name(i))
        BY <3>1, NameAtFacts DEF Whole, Name
      <4> QED
        BY <4>1
    <3>4. PICK d \in Nat : d = data[i]
      BY <3>1, ElementOfSeq
    <3>5. Whole(data, i) => i + d + 1 \in 1..(L + 1)
      BY <1>0, <3>4, SMTT(30) DEF Whole
    <3>6. Whole(data, i) => (c[i + d + 1] <=> CarriesFrom(data, i + d + 1))
      BY <1>2, <3>5
    <3> HIDE DEF T
    <3> QED
      BY <2>1, <3>2, <3>3, <3>4, <3>6
  <2> QED
    BY <2>2, <2>3
<1>4. c = [i \in 1..(L + 1) |-> Body(c, i)]
  <2>1. ASSUME NEW i \in 1..(L + 1) PROVE CarriesFrom(data, i) <=> Body(c, i)
    <3>1. c[i] <=> CarriesFrom(data, i)
      BY <1>2
    <3> HIDE DEF Body, T
    <3> QED
      BY <1>1, <1>3, <3>1
  <2>2. ASSUME NEW i \in 1..(L + 1) PROVE CarriesFrom(data, i) = Body(c, i)
    <3>1. CarriesFrom(data, i) \in BOOLEAN
      BY DEF CarriesFrom
    <3>2. Body(c, i) \in BOOLEAN
      OBVIOUS
    <3> HIDE DEF Body
    <3> QED
      BY <2>1, <3>1, <3>2
  <2> HIDE DEF Body
  <2> QED
    BY <1>2, <2>2
<1>5. PICK g : g = [i \in 1..(L + 1) |-> Body(g, i)] /\ adv_has_name(data) = g[1]
  <2>1. c = [i \in 1..(Len(data) + 1) |-> Body(c, i)]
    BY <1>0, <1>4
  <2>2. PICK g : g = [i \in 1..(Len(data) + 1) |-> Body(g, i)] /\ adv_has_name(data) = g[1]
    BY <2>1 DEF adv_has_name
  <2> QED
    BY <1>0, <2>2
<1>6. ASSUME NEW i \in 1..(L + 1)
      PROVE  g[i] <=> Whole(data, i) /\ (i \in T \/ g[i + data[i] + 1])
  <2>1. g[i] <=> Body(g, i)
    BY <1>5
  <2> HIDE DEF Body, T
  <2> QED
    BY <1>1, <2>1
<1>7. g[1] <=> c[1]
  <2>1. 1 \in 1..(Len(data) + 1)
    BY <1>0
  <2> HIDE DEF T
  <2> QED
    BY <1>0, <1>3, <1>6, <2>1, TurnsAgree
<1>8. c[1] <=> CarriesFrom(data, 1)
  BY <1>2
<1>9. CarriesFrom(data, 1) <=> CarriesName(data)
  BY DEF CarriesFrom, CutFrom, CarriesName, NameAt
<1> QED
  BY <1>5, <1>7, <1>8, <1>9

-----------------------------------------------------------------------------
(* What the hooks do to the statics.                                       *)

\* b is a but for the fields in F.
Same(a, b, F) == DOMAIN b = AppFields /\ \A f \in AppFields \ F : b[f] = a[f]

\* A service is found.
LEMMA ServiceItem ==
  ASSUME hooked, NEW a, DOMAIN a = AppFields, NEW item, item # NONE, NEW r,
         r = gattc_cb(a, "Service", item, TRUE)
  PROVE  /\ Same(a, r, {"SVC_RANGE"})
         /\ r.SVC_RANGE = IF item.uuid = "SVC" THEN [start |-> item.start, end |-> item.end]
                          ELSE a.SVC_RANGE
<1>1. PICK ev : ev = [type |-> "Service", item |-> item, ok |-> TRUE]
  OBVIOUS
<1>2. ev.item = item /\ ev.type = "Service"
  BY <1>1
<1>3. r = OnService(a, ev)
  <2>1. r = on_gattc_event(a, ev)
    BY <1>1 DEF gattc_cb
  <2> QED
    BY <1>2, <2>1 DEF on_gattc_event
<1>4. CASE item.uuid = "SVC"
  <2>1. PICK range : range = [start |-> item.start, end |-> item.end]
    OBVIOUS
  <2>2. r = [a EXCEPT !.SVC_RANGE = range]
    BY <1>2, <1>3, <1>4, <2>1 DEF OnService
  <2> QED
    BY <1>4, <2>1, <2>2 DEF Same, AppFields
<1>5. CASE item.uuid # "SVC"
  <2>1. r = a
    BY <1>2, <1>3, <1>5 DEF OnService
  <2> QED
    BY <1>5, <2>1 DEF Same
<1> QED
  BY <1>4, <1>5

\* A characteristic is found.
LEMMA ChrItem ==
  ASSUME hooked, NEW a, DOMAIN a = AppFields, NEW item, item # NONE, NEW r,
         r = gattc_cb(a, "Characteristic", item, TRUE)
  PROVE  /\ Same(a, r, {"RECV_VAL", "IND_VAL"})
         /\ r.RECV_VAL = IF item.uuid = "RECV" THEN item.val ELSE a.RECV_VAL
         /\ r.IND_VAL = IF item.uuid = "IND" THEN item.val ELSE a.IND_VAL
<1>1. PICK ev : ev = [type |-> "Characteristic", item |-> item, ok |-> TRUE]
  OBVIOUS
<1>2. ev.item = item /\ ev.type = "Characteristic"
  BY <1>1
<1>3. r = OnCharacteristic(a, ev)
  <2>1. r = on_gattc_event(a, ev)
    BY <1>1 DEF gattc_cb
  <2> QED
    BY <1>2, <2>1 DEF on_gattc_event
<1>4. CASE item.uuid = "RECV"
  <2>1. r = [a EXCEPT !.RECV_VAL = item.val]
    BY <1>2, <1>3, <1>4 DEF OnCharacteristic
  <2> QED
    BY <1>4, <2>1 DEF Same, AppFields
<1>5. CASE item.uuid = "IND"
  <2>1. r = [a EXCEPT !.IND_VAL = item.val]
    BY <1>2, <1>3, <1>5 DEF OnCharacteristic
  <2> QED
    BY <1>5, <2>1 DEF Same, AppFields
<1>6. CASE item.uuid \notin {"RECV", "IND"}
  <2>1. r = a
    BY <1>2, <1>3, <1>6 DEF OnCharacteristic
  <2> QED
    BY <1>6, <2>1 DEF Same
<1> QED
  BY <1>4, <1>5, <1>6

\* What the end of procedure p makes of a.
ProcEnded(a, r, p) ==
  /\ Same(a, r, {"SVC_DONE", "CHR_DONE", "completed"})
  /\ (hooked /\ p.op = "services") => r.SVC_DONE = TRUE
  /\ ~(hooked /\ p.op = "services") => r.SVC_DONE = a.SVC_DONE
  /\ (hooked /\ p.op = "characteristics") => r.CHR_DONE = TRUE
  /\ ~(hooked /\ p.op = "characteristics") => r.CHR_DONE = a.CHR_DONE
  /\ (hooked /\ p.op \in Ops /\ program = "calls") =>
       r.completed = [a.completed EXCEPT ![p.op] = @ + 1]
  /\ ~(hooked /\ p.op \in Ops /\ program = "calls") => r.completed = a.completed

\* A procedure ends, well or not.
LEMMA ProcEnds ==
  ASSUME NEW a, DOMAIN a = AppFields, NEW p, p.op \in {"services", "characteristics", "read", "write"},
         NEW ok, NEW r, r = proc_cb(a, p, ok)
  PROVE  ProcEnded(a, r, p)
<1>1. CASE ~hooked
  <2>1. r = a
    BY <1>1 DEF proc_cb, read_cb, gattc_cb
  <2> QED
    BY <1>1, <2>1 DEF Same, ProcEnded
<1>2. CASE hooked /\ p.op = "services"
  <2>1. PICK ev : ev = [type |-> "Service", item |-> NONE, ok |-> ok]
    OBVIOUS
  <2>2. ev.item = NONE /\ ev.type = "Service"
    BY <2>1
  <2>3. r = OnService(a, ev)
    <3>1. r = on_gattc_event(a, ev)
      BY <1>2, <2>1 DEF proc_cb, gattc_cb
    <3> QED
      BY <2>2, <3>1 DEF on_gattc_event
  <2>4. r = [a EXCEPT !.SVC_DONE = TRUE]
    BY <2>2, <2>3 DEF OnService
  <2> QED
    BY <1>2, <2>4 DEF Same, AppFields, Ops, ProcEnded
<1>3. CASE hooked /\ p.op = "characteristics"
  <2>1. PICK ev : ev = [type |-> "Characteristic", item |-> NONE, ok |-> ok]
    OBVIOUS
  <2>2. ev.item = NONE /\ ev.type = "Characteristic"
    BY <2>1
  <2>3. r = OnCharacteristic(a, ev)
    <3>1. r = on_gattc_event(a, ev)
      BY <1>3, <2>1 DEF proc_cb, gattc_cb
    <3> QED
      BY <2>2, <3>1 DEF on_gattc_event
  <2>4. r = [a EXCEPT !.CHR_DONE = TRUE]
    BY <2>2, <2>3 DEF OnCharacteristic
  <2> QED
    BY <1>3, <2>4 DEF Same, AppFields, Ops, ProcEnded
<1>4. CASE hooked /\ p.op \in Ops
  <2>1. PICK op \in Ops : op = p.op
    BY <1>4
  <2>2. r = gattc_cb(a, op, NONE, ok)
    BY <2>1 DEF proc_cb, read_cb, Ops
  <2>3. r = IF program = "calls" THEN [a EXCEPT !.completed[op] = @ + 1] ELSE a
    <3>1. PICK ev : ev = [type |-> op, item |-> NONE, ok |-> ok]
      OBVIOUS
    <3>2. ev.type = op
      BY <3>1
    <3>3. r = on_gattc_event(a, ev)
      BY <1>4, <2>2, <3>1 DEF gattc_cb
    <3>4. op \notin {"Service", "Characteristic", "Notify"}
      BY <2>1 DEF Ops
    <3>5. on_gattc_event(a, ev) = IF program = "calls" THEN [a EXCEPT !.completed[op] = @ + 1] ELSE a
      BY <3>2, <3>4 DEF on_gattc_event
    <3> QED
      BY <3>3, <3>5
  <2>4. op # "services" /\ op # "characteristics"
    BY <2>1 DEF Ops
  <2>5. CASE program = "calls"
    <3>1. r = [a EXCEPT !.completed[op] = @ + 1]
      BY <2>3, <2>5
    <3>2. r.completed = [a.completed EXCEPT ![op] = @ + 1]
      BY <3>1 DEF AppFields
    <3>3. Same(a, r, {"SVC_DONE", "CHR_DONE", "completed"}) /\ r.SVC_DONE = a.SVC_DONE /\ r.CHR_DONE = a.CHR_DONE
      BY <3>1 DEF Same, AppFields
    <3> QED
      BY <1>4, <2>1, <2>4, <2>5, <3>2, <3>3 DEF ProcEnded
  <2>6. CASE program # "calls"
    <3>1. r = a
      BY <2>3, <2>6
    <3> QED
      BY <2>1, <2>4, <2>6, <3>1 DEF Same, ProcEnded
  <2> QED
    BY <2>5, <2>6
<1> QED
  BY <1>1, <1>2, <1>3, <1>4 DEF Ops

\* The first m procedures of one kind.
OfKind(m, op) == {i \in 1..m : procs[i].op = op}

\* They are counted one by one.
LEMMA OfKindCount ==
  ASSUME NEW m \in Nat, NEW op
  PROVE  /\ Cardinality(OfKind(m, op)) \in Nat
         /\ Cardinality(OfKind(m + 1, op)) =
              Cardinality(OfKind(m, op)) + IF procs[m + 1].op = op THEN 1 ELSE 0
<1>1. IsFiniteSet(OfKind(m, op))
  <2>1. IsFiniteSet(1..m) /\ OfKind(m, op) \in SUBSET (1..m)
    BY FS_Interval DEF OfKind
  <2> QED
    BY <2>1, FS_Subset
<1>2. Cardinality(OfKind(m, op)) \in Nat
  BY <1>1, FS_CardinalityType
<1>3. CASE procs[m + 1].op = op
  <2>1. OfKind(m + 1, op) = OfKind(m, op) \cup {m + 1} /\ m + 1 \notin OfKind(m, op)
    BY <1>3 DEF OfKind
  <2> QED
    BY <1>1, <1>2, <1>3, <2>1, FS_AddElement
<1>4. CASE procs[m + 1].op # op
  <2>1. OfKind(m + 1, op) = OfKind(m, op)
    BY <1>4 DEF OfKind
  <2> QED
    BY <1>2, <1>4, <2>1
<1> QED
  BY <1>2, <1>3, <1>4

\* What b has counted more than a, when the program counts, is n.
Adds(a, b, m) ==
  program = "calls" /\ hooked /\ (\A i \in 1..Len(procs) : procs[i].op \in Ops) =>
    \A op \in Ops : b.completed[op] = a.completed[op] + Cardinality(OfKind(m, op))

\* After the failures of the first m procedures.
Failed(a, b, m) ==
  /\ Same(a, b, {"SVC_DONE", "CHR_DONE", "completed"}) /\ (a.SVC_DONE => b.SVC_DONE)
  /\ b.completed \in [Ops -> Nat] /\ Adds(a, b, m)

\* The next procedure fails.
LEMMA FailedNext ==
  ASSUME procs \in Seq(Procs), NEW a, a.completed \in [Ops -> Nat], NEW b, NEW m \in 0..(Len(procs) - 1),
         Failed(a, b, m), NEW ok, NEW r, r = proc_cb(b, procs[m + 1], ok)
  PROVE  Failed(a, r, m + 1)
<1>0. m + 1 \in 1..Len(procs) /\ m \in Nat
  BY LenProperties
<1>1. PICK p \in Procs : p = procs[m + 1]
  BY <1>0, ElementOfSeq
<1>2. p.op \in {"services", "characteristics", "read", "write"}
  BY DEF Procs
<1>3. DOMAIN b = AppFields
  BY DEF Failed, Same
<1>4. ProcEnded(b, r, p)
  <2>1. r = proc_cb(b, p, ok)
    BY <1>1
  <2> QED
    BY <1>2, <1>3, <2>1, ProcEnds
<1>5. Same(a, r, {"SVC_DONE", "CHR_DONE", "completed"})
  BY <1>4 DEF Failed, Same, ProcEnded
<1>6. a.SVC_DONE => r.SVC_DONE
  BY <1>4 DEF Failed, ProcEnded
<1>7. PICK n \in [Ops -> Nat] : n = b.completed
  BY DEF Failed
<1>8. r.completed \in [Ops -> Nat]
  <2>1. CASE hooked /\ p.op \in Ops /\ program = "calls"
    <3>1. PICK k \in Ops : k = p.op
      BY <2>1
    <3>2. r.completed = [n EXCEPT ![k] = n[k] + 1]
      BY <1>4, <1>7, <2>1, <3>1 DEF ProcEnded
    <3>3. n[k] + 1 \in Nat
      BY <1>7
    <3> QED
      BY <3>2, <3>3
  <2>2. CASE ~(hooked /\ p.op \in Ops /\ program = "calls")
    BY <1>4, <1>7, <2>2 DEF ProcEnded
  <2> QED
    BY <2>1, <2>2
<1>9. Adds(a, r, m + 1)
  <2> SUFFICES ASSUME program = "calls", hooked, \A i \in 1..Len(procs) : procs[i].op \in Ops, NEW op \in Ops
               PROVE  r.completed[op] = a.completed[op] + Cardinality(OfKind(m + 1, op))
    BY DEF Adds
  <2>1. n[op] = a.completed[op] + Cardinality(OfKind(m, op)) /\ n[op] \in Nat /\ a.completed[op] \in Nat
    BY <1>7 DEF Failed, Adds
  <2>2. PICK k \in Ops : k = p.op
    BY <1>0, <1>1
  <2>3. PICK q : q = [n EXCEPT ![k] = n[k] + 1] /\ q = r.completed
    BY <1>4, <1>7, <2>2 DEF ProcEnded
  <2>4. q[op] = n[op] + IF k = op THEN 1 ELSE 0
    <3>1. CASE k = op
      BY <2>3, <3>1
    <3>2. CASE k # op
      BY <2>1, <2>3, <3>2
    <3> QED
      BY <3>1, <3>2
  <2>5. /\ Cardinality(OfKind(m, op)) \in Nat
        /\ Cardinality(OfKind(m + 1, op)) = Cardinality(OfKind(m, op)) + IF k = op THEN 1 ELSE 0
    BY <1>0, <1>1, <2>2, OfKindCount
  <2>6. PICK x, y, z \in Nat : x = Cardinality(OfKind(m, op)) /\ y = a.completed[op] /\ z = n[op]
    BY <2>1, <2>5
  <2>7. z + (IF k = op THEN 1 ELSE 0) = y + (x + IF k = op THEN 1 ELSE 0)
    BY <2>1, <2>6
  <2> QED
    BY <2>3, <2>4, <2>5, <2>6, <2>7
<1> QED
  BY <1>5, <1>6, <1>8, <1>9 DEF Failed

\* The connection breaks.
LEMMA BrokenFacts ==
  ASSUME procs \in Seq(Procs), program \in Clients, NEW a, DOMAIN a = AppFields,
         a.completed \in [Ops -> Nat], NEW r, r = Broken(a)
  PROVE  /\ Same(a, r, {"SVC_DONE", "CHR_DONE", "completed", "DISCONNECTED"})
         /\ r.DISCONNECTED = TRUE /\ (a.SVC_DONE => r.SVC_DONE)
         /\ r.completed \in [Ops -> Nat] /\ Adds(a, r, Len(procs))
         /\ procs = << >> => Same(a, r, {"DISCONNECTED"})
<1> DEFINE Is(f, m) == f = [i \in 0..m |-> IF i = 0 THEN a ELSE proc_cb(f[i - 1], procs[i], FALSE)]
           S == {m \in Nat : \E f : Is(f, m)}
<1>0. Len(procs) \in Nat
  BY LenProperties
<1>1. 0 \in S
  <2>1. PICK f : f = [i \in 0..0 |-> a]
    OBVIOUS
  <2>2. Is(f, 0)
    BY <2>1
  <2> QED
    BY <2>2
<1>2. ASSUME NEW m \in Nat, m \in S PROVE m + 1 \in S
  <2>1. PICK f : Is(f, m)
    BY <1>2
  <2>2. PICK g : g = [i \in 0..(m + 1) |-> IF i = m + 1 THEN proc_cb(f[m], procs[m + 1], FALSE) ELSE f[i]]
    OBVIOUS
  <2>3. ASSUME NEW i \in 0..(m + 1)
        PROVE  g[i] = IF i = 0 THEN a ELSE proc_cb(g[i - 1], procs[i], FALSE)
    <3>1. CASE i = m + 1
      <4>1. i # 0 /\ i - 1 = m /\ m # m + 1 /\ m \in 0..(m + 1)
        BY <3>1
      <4>2. g[m] = f[m] /\ g[i] = proc_cb(f[m], procs[m + 1], FALSE)
        BY <2>2, <3>1, <4>1
      <4> QED
        BY <3>1, <4>1, <4>2
    <3>2. CASE i # m + 1
      <4>1. i \in 0..m
        BY <3>2
      <4>2. g[i] = f[i]
        BY <2>2, <3>2
      <4>3. f[i] = IF i = 0 THEN a ELSE proc_cb(f[i - 1], procs[i], FALSE)
        BY <2>1, <4>1
      <4>4. i # 0 => g[i - 1] = f[i - 1]
        <5>1. i # 0 => i - 1 \in 0..(m + 1) /\ i - 1 # m + 1
          BY <4>1
        <5> QED
          BY <2>2, <5>1
      <4> QED
        BY <4>2, <4>3, <4>4
    <3> QED
      BY <3>1, <3>2
  <2>4. Is(g, m + 1)
    BY <2>2, <2>3
  <2> HIDE DEF Is
  <2> QED
    BY <2>4
<1>3. Len(procs) \in S
  <2> HIDE DEF S
  <2>0. \A n \in 0..(Len(procs) - 1) : n \in S => n + 1 \in S
    BY <1>0, <1>2
  <2>1. \A n \in 0..Len(procs) : n \in S
    BY <1>0, <1>1, <2>0, Upwards
  <2> QED
    BY <1>0, <2>1
<1>4. PICK f : Is(f, Len(procs)) /\ r = gap_event_cb(f[Len(procs)], [type |-> "Disconnect"])
  BY <1>3 DEF Broken
<1> DEFINE A == {m \in Nat : m <= Len(procs) => Failed(a, f[m], m)}
<1>5. f[0] = a
  BY <1>0, <1>4
<1>6. 0 \in A
  <2>1. ASSUME NEW op PROVE Cardinality(OfKind(0, op)) = 0
    <3>1. OfKind(0, op) = {}
      BY DEF OfKind
    <3> QED
      BY <3>1, FS_EmptySet
  <2>2. PICK n \in [Ops -> Nat] : n = a.completed
    OBVIOUS
  <2>3. Adds(a, a, 0)
    BY <2>1, <2>2 DEF Adds
  <2>4. Failed(a, a, 0)
    BY <2>3 DEF Failed, Same
  <2> QED
    BY <1>5, <2>4
<1>7. ASSUME NEW m \in 0..(Len(procs) - 1), m \in A PROVE m + 1 \in A
  <2>1. m + 1 \in 0..Len(procs) /\ m + 1 # 0 /\ (m + 1) - 1 = m /\ m \in Nat /\ m <= Len(procs)
    BY <1>0
  <2>2. PICK ok : f[m + 1] = proc_cb(f[m], procs[m + 1], ok)
    <3>1. f[m + 1] = proc_cb(f[(m + 1) - 1], procs[m + 1], FALSE)
      BY <1>4, <2>1
    <3> QED
      BY <3>1, <2>1
  <2>3. Failed(a, f[m], m)
    BY <1>7, <2>1
  <2>4. Failed(a, f[m + 1], m + 1)
    BY <2>2, <2>3, FailedNext
  <2> QED
    BY <2>1, <2>4
<1>8. Len(procs) \in A
  <2> HIDE DEF A
  <2>1. \A n \in 0..Len(procs) : n \in A
    BY <1>0, <1>6, <1>7, Upwards
  <2> QED
    BY <1>0, <2>1
<1>9. PICK b : b = f[Len(procs)]
  OBVIOUS
<1>10. Failed(a, b, Len(procs))
  BY <1>0, <1>8, <1>9
<1>11. r = [b EXCEPT !.DISCONNECTED = TRUE]
  <2>1. PICK ev : ev = [type |-> "Disconnect"]
    OBVIOUS
  <2>2. ev.type = "Disconnect"
    BY <2>1
  <2>3. r = on_gap_event(b, ev)
    BY <1>4, <1>9, <2>1, <2>2 DEF gap_event_cb
  <2> QED
    BY <2>2, <2>3 DEF on_gap_event
<1>12. /\ Same(b, r, {"DISCONNECTED"}) /\ r.DISCONNECTED = TRUE
       /\ r.SVC_DONE = b.SVC_DONE /\ r.completed = b.completed
  <2>1. DOMAIN b = AppFields
    BY <1>10 DEF Failed, Same
  <2> QED
    BY <1>11, <2>1 DEF Same, AppFields
<1>13. Same(a, r, {"SVC_DONE", "CHR_DONE", "completed", "DISCONNECTED"})
  BY <1>10, <1>12 DEF Failed, Same
<1>14. (a.SVC_DONE => r.SVC_DONE) /\ r.completed \in [Ops -> Nat]
  BY <1>10, <1>12 DEF Failed
<1>15. Adds(a, r, Len(procs))
  BY <1>10, <1>12 DEF Failed, Adds
<1>16. procs = << >> => Same(a, r, {"DISCONNECTED"})
  <2>1. procs = << >> => Len(procs) = 0
    OBVIOUS
  <2>2. procs = << >> => b = a
    BY <1>5, <1>9, <2>1
  <2> QED
    BY <1>12, <2>2 DEF Same
<1> QED
  BY <1>12, <1>13, <1>14, <1>15, <1>16

-----------------------------------------------------------------------------
(* Procedures by kind, peers from outside, the answers of the host.        *)

\* The places in s of procedures of one kind.
Kind(s, op) == {i \in DOMAIN s : s[i].op = op}

\* There are finitely many.
LEMMA KindType ==
  ASSUME NEW s \in Seq(Procs), NEW op
  PROVE  IsFiniteSet(Kind(s, op)) /\ Cardinality(Kind(s, op)) \in Nat
<1>1. Len(s) \in Int /\ DOMAIN s = 1..Len(s)
  BY LenProperties
<1>2. IsFiniteSet(1..Len(s)) /\ Kind(s, op) \in SUBSET (1..Len(s))
  BY <1>1, FS_Interval DEF Kind
<1>3. IsFiniteSet(Kind(s, op))
  BY <1>2, FS_Subset
<1> QED
  BY <1>3, FS_CardinalityType

\* None in the empty sequence.
LEMMA KindEmpty ==
  ASSUME NEW op
  PROVE  Cardinality(Kind(<< >>, op)) = 0
<1>1. Kind(<< >>, op) = {}
  BY DEF Kind
<1> QED
  BY <1>1, FS_EmptySet

\* A new procedure is one more of its kind.
LEMMA KindAppend ==
  ASSUME NEW s \in Seq(Procs), NEW p \in Procs, NEW op
  PROVE  Cardinality(Kind(Append(s, p), op)) = Cardinality(Kind(s, op)) + IF p.op = op THEN 1 ELSE 0
<1>1. IsFiniteSet(Kind(s, op)) /\ Cardinality(Kind(s, op)) \in Nat
  BY KindType
<1>2. /\ Len(s) \in Nat /\ DOMAIN s = 1..Len(s) /\ DOMAIN Append(s, p) = 1..(Len(s) + 1)
      /\ \A i \in 1..Len(s) : Append(s, p)[i] = s[i]
      /\ Append(s, p)[Len(s) + 1] = p
  BY AppendProperties, LenProperties
<1>3. CASE p.op = op
  <2>1. Kind(Append(s, p), op) = Kind(s, op) \cup {Len(s) + 1} /\ Len(s) + 1 \notin Kind(s, op)
    BY <1>2, <1>3 DEF Kind
  <2> QED
    BY <1>1, <1>3, <2>1, FS_AddElement
<1>4. CASE p.op # op
  <2>1. Kind(Append(s, p), op) = Kind(s, op)
    BY <1>2, <1>4, SMTT(30) DEF Kind
  <2> QED
    BY <1>1, <1>4, <2>1
<1> QED
  BY <1>3, <1>4

\* A finished one is one less.
LEMMA KindTail ==
  ASSUME NEW s \in Seq(Procs), s # << >>, NEW op
  PROVE  Cardinality(Kind(s, op)) = Cardinality(Kind(Tail(s), op)) + IF Head(s).op = op THEN 1 ELSE 0
<1> DEFINE T == Kind(Tail(s), op)
           U == Kind(s, op) \ {1}
<1>1. /\ Len(s) \in Nat \ {0} /\ DOMAIN s = 1..Len(s) /\ Head(s) = s[1]
      /\ Tail(s) \in Seq(Procs) /\ DOMAIN Tail(s) = 1..(Len(s) - 1)
      /\ \A i \in 1..(Len(s) - 1) : Tail(s)[i] = s[i + 1]
  BY HeadTailProperties, LenProperties, EmptySeq
<1>2. IsFiniteSet(T) /\ Cardinality(T) \in Nat /\ IsFiniteSet(Kind(s, op))
  BY <1>1, KindType
<1>3. Cardinality(U) = Cardinality(T)
  <2> DEFINE f == [i \in T |-> i + 1]
  <2>1. \A i \in T : i \in Nat /\ i + 1 \in U
    BY <1>1 DEF Kind
  <2>2. \A j \in U : j - 1 \in T /\ (j - 1) + 1 = j
    BY <1>1 DEF Kind
  <2>3. f \in Bijection(T, U)
    <3>1. f \in [T -> U]
      BY <2>1
    <3>2. \A a, b \in T : f[a] = f[b] => a = b
      BY <2>1
    <3>3. \A j \in U : \E i \in T : f[i] = j
      BY <2>2
    <3> QED
      BY <3>1, <3>2, <3>3 DEF Bijection, Injection, Surjection, IsInjective
  <2> QED
    BY <1>2, <2>3, FS_Bijection DEF ExistsBijection
<1>4. CASE Head(s).op = op
  <2>0. IsFiniteSet(U)
    BY <1>2, FS_Subset
  <2>1. Kind(s, op) = U \cup {1} /\ 1 \notin U
    BY <1>1, <1>4 DEF Kind
  <2>2. Cardinality(Kind(s, op)) = Cardinality(U) + 1
    BY <2>0, <2>1, FS_AddElement
  <2> QED
    BY <1>3, <1>4, <2>2
<1>5. CASE Head(s).op # op
  <2>1. U = Kind(s, op)
    BY <1>1, <1>5 DEF Kind
  <2>2. Cardinality(Kind(s, op)) = Cardinality(T)
    BY <1>3, <2>1
  <2>3. PICK n \in Nat : n = Cardinality(T)
    BY <1>2
  <2> QED
    BY <1>5, <2>2, <2>3
<1> QED
  BY <1>4, <1>5

\* What a peer looks like from outside.
LEMMA ViewFacts ==
  ASSUME Typed
  PROVE  /\ peer \in Seq(Services) /\ Len(peer) \in Nat /\ DOMAIN peer = 1..Len(peer)
         /\ View[peer].chrs = Attributes(peer)
         /\ View[peer].groups \in Seq(Groups) /\ Len(View[peer].groups) = Len(peer)
         /\ \A i \in 1..Len(peer) :
              /\ RangeOf(i) \in Ranges /\ View[peer].groups[i].uuid = peer[i].uuid
              /\ RangeOf(i).start = Group(peer, i).start /\ RangeOf(i).end = Group(peer, i).end
              /\ RangeOf(i) = [start |-> View[peer].groups[i].start, end |-> View[peer].groups[i].end]
<1>1. PICK p \in Seq(Services) : p = peer
  <2>1. << >> \in Seq(Services)
    BY EmptySeq
  <2> QED
    BY <2>1, GattClientAssumption DEF Typed
<1>2. PICK N \in Nat : N = Len(p) /\ DOMAIN p = 1..N
  BY <1>1, LenProperties
<1>3. PICK f : f = Database(p)
  OBVIOUS
<1>4. f[0].next = 1
  <2>1. f[0] = [next |-> 1, chrs |-> << >>]
    BY <1>3, DatabaseSteps
  <2> QED
    BY <2>1
<1>5. \A i \in 0..N : f[i].next \in Nat /\ f[i].next - 1 \in Nat
  <2> SUFFICES ASSUME NEW i \in 0..N PROVE f[i].next \in Nat /\ f[i].next - 1 \in Nat
    OBVIOUS
  <2>1. PICK n \in Nat : n = f[i].next
    BY <1>2, <1>3, DatabaseFacts
  <2>2. 0 \in 0..i
    OBVIOUS
  <2>3. 1 <= n
    BY <1>2, <1>3, <1>4, <2>1, <2>2, DatabasePlaces
  <2> QED
    BY <2>1, <2>3
<1>6. ASSUME NEW i \in 1..N
      PROVE  /\ Group(p, i).start \in Nat /\ Group(p, i).end \in Nat /\ p[i].uuid \in STRING
  <2>1. i - 1 \in 0..N /\ i \in 0..N
    OBVIOUS
  <2>2. Group(p, i).start = f[i - 1].next /\ Group(p, i).end = f[i].next - 1
    BY <1>3 DEF Group
  <2>3. p[i] \in Services
    BY <1>2, ElementOfSeq
  <2> QED
    BY <1>5, <2>1, <2>2, <2>3 DEF Services
<1>7. PICK g : g = [i \in 1..N |-> [uuid |-> p[i].uuid, start |-> Group(p, i).start,
                                    end |-> Group(p, i).end]]
  OBVIOUS
<1>8. View[peer].groups = g /\ View[peer].chrs = Attributes(peer)
  <2>1. peer \in Peers \cup {<< >>}
    BY DEF Typed
  <2>2. View[peer] = [groups |-> g, chrs |-> Attributes(peer)]
    BY <1>1, <1>2, <1>7, <2>1 DEF View
  <2> QED
    BY <2>2
<1>9. g \in Seq(Groups) /\ Len(g) = N
  <2>1. \A i \in 1..N : g[i] \in Groups
    BY <1>6, <1>7 DEF Groups
  <2>2. g \in [1..N -> Groups]
    BY <1>7, <2>1
  <2>3. g \in Seq(Groups)
    BY <2>2, SeqDef
  <2>4. DOMAIN g = 1..Len(g) /\ DOMAIN g = 1..N /\ Len(g) \in Nat
    BY <2>2, <2>3, LenProperties
  <2>5. PICK n \in Nat : n = Len(g) /\ 1..n = 1..N
    BY <2>4
  <2>6. n = N
    <3>1. n > N => n \in 1..n /\ n \notin 1..N
      BY <2>5
    <3>2. N > n => N \in 1..N /\ N \notin 1..n
      BY <2>5
    <3> QED
      BY <2>5, <3>1, <3>2
  <2> QED
    BY <2>3, <2>5, <2>6
<1>10. ASSUME NEW i \in 1..N
       PROVE  /\ RangeOf(i) \in Ranges /\ g[i].uuid = p[i].uuid
              /\ RangeOf(i).start = Group(p, i).start /\ RangeOf(i).end = Group(p, i).end
              /\ RangeOf(i) = [start |-> g[i].start, end |-> g[i].end]
  <2>1. PICK x : x = Group(p, i).start
    OBVIOUS
  <2>2. PICK y : y = Group(p, i).end
    OBVIOUS
  <2>3. RangeOf(i) = [start |-> x, end |-> y]
    BY <1>1, <2>1, <2>2 DEF RangeOf
  <2>4. x \in Nat /\ y \in Nat
    BY <1>6, <2>1, <2>2
  <2>5. g[i] = [uuid |-> p[i].uuid, start |-> x, end |-> y]
    BY <1>7, <2>1, <2>2
  <2> QED
    BY <2>1, <2>2, <2>3, <2>4, <2>5 DEF Ranges
<1> QED
  BY <1>1, <1>2, <1>8, <1>9, <1>10

\* A call fails on its own, or because the host says so.
LEMMA OutcomeFacts ==
  ASSUME NEW rc, NEW o \in Outcomes(rc)
  PROVE  /\ o[1] = "OK" => rc = "OK" /\ o[2] = 0
         /\ o[1] # "OK" => o[2] = 1 \/ rc # "OK"
         /\ o[2] \in {0, 1}
<1>1. o = <<rc, 0>> \/ (rc = "OK" /\ o = <<"EFAIL", 1>>)
  BY DEF Outcomes
<1>2. CASE o = <<rc, 0>>
  BY <1>2
<1>3. CASE rc = "OK" /\ o = <<"EFAIL", 1>>
  BY <1>3
<1> QED
  BY <1>1, <1>2, <1>3

-----------------------------------------------------------------------------
(* What leaves the discoveries, the writes and the counts alone.           *)

Data == OurRange /\ SvcInv /\ ChrInv /\ Targets /\ Counted /\ Looked

\* The fields of the statics that these do not look at.
Apart == {"SYNCED", "PEER", "heard", "ROUND_DONE", "CONN", "CONNECTED"}

\* The fields they do look at.
LEMMA SameFields ==
  ASSUME Same(app, app', Apart)
  PROVE  /\ DOMAIN app' = AppFields
         /\ app'.SVC_RANGE = app.SVC_RANGE /\ app'.SVC_DONE = app.SVC_DONE
         /\ app'.RECV_VAL = app.RECV_VAL /\ app'.IND_VAL = app.IND_VAL
         /\ app'.CHR_DONE = app.CHR_DONE /\ app'.DISCONNECTED = app.DISCONNECTED
         /\ app'.completed = app.completed
<1>1. PICK a : a = app
  OBVIOUS
<1>2. PICK r : r = app'
  OBVIOUS
<1>3. Same(a, r, Apart)
  BY <1>1, <1>2
<1>4. /\ DOMAIN r = AppFields
      /\ r.SVC_RANGE = a.SVC_RANGE /\ r.SVC_DONE = a.SVC_DONE
      /\ r.RECV_VAL = a.RECV_VAL /\ r.IND_VAL = a.IND_VAL
      /\ r.CHR_DONE = a.CHR_DONE /\ r.DISCONNECTED = a.DISCONNECTED
      /\ r.completed = a.completed
  BY <1>3 DEF Same, AppFields, Apart
<1> QED
  BY <1>1, <1>2, <1>4

\* A step of that kind, to the same place of the program or to one where
\* nothing is under way.
LEMMA Frame ==
  ASSUME Typed, Data, UNCHANGED <<program, procs, peer, hits, calls>>, hooked' => hooked,
         Same(app, app', Apart), pc' = pc \/ pc' \notin {"services", "chrs", "loop"}
  PROVE  Data'
<1>1. /\ app'.SVC_RANGE = app.SVC_RANGE /\ app'.SVC_DONE = app.SVC_DONE
      /\ app'.RECV_VAL = app.RECV_VAL /\ app'.IND_VAL = app.IND_VAL
      /\ app'.CHR_DONE = app.CHR_DONE /\ app'.DISCONNECTED = app.DISCONNECTED
      /\ app'.completed = app.completed
  BY SameFields
<1>2. program' = program /\ procs' = procs /\ peer' = peer /\ hits' = hits /\ calls' = calls
  OBVIOUS
<1>3. OurRange'
  BY <1>1, <1>2 DEF Data, OurRange, RangeOf
<1>4. SvcInv'
  <2>1. CASE pc' = pc
    <3>1. SvcInv
      BY DEF Data
    <3>2. ASSUME NEW k PROVE RangeAfter(k) => RangeAfter(k)'
      <4>1. \A i : RangeOf(i)' = RangeOf(i)
        BY <1>2, Zenon DEF RangeOf
      <4> QED
        BY <1>1, <1>2, <4>1 DEF RangeAfter
    <3> SUFFICES ASSUME pc' = "services", ~app'.DISCONNECTED
                 PROVE  \E k \in 0..Len(peer') :
                          /\ RangeAfter(k)' /\ ~app'.CHR_DONE
                          /\ \/ /\ ~app'.SVC_DONE
                                /\ procs' = <<[op |-> "services",
                                              items |-> SubSeq(View[peer'].groups, k + 1, Len(peer'))]>>
                             \/ app'.SVC_DONE /\ procs' = << >> /\ k = Len(peer')
      BY Zenon DEF SvcInv
    <3>3. PICK k \in 0..Len(peer) :
            /\ RangeAfter(k) /\ ~app.CHR_DONE
            /\ \/ /\ ~app.SVC_DONE
                  /\ procs = <<[op |-> "services", items |-> SubSeq(View[peer].groups, k + 1, Len(peer))]>>
               \/ app.SVC_DONE /\ procs = << >> /\ k = Len(peer)
      BY <1>1, <2>1, <3>1, Zenon DEF SvcInv
    <3>4. RangeAfter(k)'
      BY <3>2, <3>3, Zenon
    <3> QED
      BY <1>1, <1>2, <3>3, <3>4, Zenon
  <2>2. CASE pc' # pc
    BY <2>2 DEF SvcInv
  <2> QED
    BY <2>1, <2>2
<1>5. ChrInv'
  <2>1. CASE pc' = pc
    <3>1. ChrInv
      BY DEF Data
    <3> QED
      BY <1>1, <1>2, <2>1, <3>1 DEF ChrInv, IsLastOurs, Awaits, Coming, Chrs
  <2>2. CASE pc' # pc
    BY <2>2 DEF ChrInv
  <2> QED
    BY <2>1, <2>2
<1>6. Targets'
  <2>1. Targets
    BY DEF Data
  <2>2. \A v : (GoodRecv(v)' <=> GoodRecv(v)) /\ (GoodCccd(v)' <=> GoodCccd(v))
    BY <1>2 DEF GoodRecv, GoodCccd, OurChrs, Chrs
  <2>3. \A p : GoodProc(p)' <=> GoodProc(p)
    BY <1>2, <2>2 DEF GoodProc, GoodWrite, OurChrs, Chrs
  <2>4. app'.RECV_VAL # 0 => GoodRecv(app.RECV_VAL)'
    BY <1>1, <1>2, <2>1 DEF Targets, GoodRecv, OurChrs, Chrs
  <2>5. OurChrs("IND")' = OurChrs("IND")
    BY <1>2 DEF OurChrs, Chrs
  <2>6. \A w \in hits : GoodWrite(w[1], w[2])'
    BY <2>1, <2>2 DEF Targets, GoodWrite
  <2>7. pc' = "loop" => pc = "loop"
    OBVIOUS
  <2> QED
    BY <1>1, <1>2, <2>1, <2>2, <2>3, <2>4, <2>5, <2>6, <2>7 DEF Targets
<1>7. Counted'
  BY <1>1, <1>2 DEF Data, Counted, CompletedOnce, Pending
<1>8. Looked'
  BY <1>1, <1>2 DEF Data, Looked
<1> QED
  BY <1>3, <1>4, <1>5, <1>6, <1>7, <1>8 DEF Data

-----------------------------------------------------------------------------
(* The events of the gap, one by one.                                      *)

\* An advertiser is heard.
LEMMA DiscoveryEvent ==
  ASSUME NEW a, DOMAIN a = AppFields, NEW addr, NEW data \in Seq(Nat), NEW r,
         r = gap_event_cb(a, [type |-> "Discovery", addr |-> addr, data |-> data])
  PROVE  /\ Same(a, r, {"PEER"})
         /\ program \in Clients /\ CarriesName(data) /\ a.PEER = NONE => r.PEER = addr
         /\ ~(program \in Clients /\ CarriesName(data) /\ a.PEER = NONE) => r.PEER = a.PEER
<1>1. PICK ev : ev = [type |-> "Discovery", addr |-> addr, data |-> data]
  OBVIOUS
<1>2. ev.type = "Discovery" /\ ev.addr = addr /\ ev.data = data
  BY <1>1
<1>3. r = IF program \in Clients THEN on_gap_event(a, ev) ELSE scanner_on_gap_event(a, ev)
  BY <1>1, <1>2 DEF gap_event_cb
<1>4. adv_has_name(data) <=> CarriesName(data)
  BY HasNameFacts
<1>5. CASE program \notin Clients
  <2>1. r = a
    BY <1>2, <1>3, <1>5 DEF scanner_on_gap_event
  <2> QED
    BY <1>5, <2>1 DEF Same
<1>6. CASE program \in Clients
  <2>1. r = OnDiscovery(a, ev)
    BY <1>2, <1>3, <1>6 DEF on_gap_event
  <2>2. r = IF adv_has_name(data) /\ a.PEER = NONE THEN [a EXCEPT !.PEER = addr] ELSE a
    BY <1>2, <2>1 DEF OnDiscovery
  <2>3. CASE CarriesName(data) /\ a.PEER = NONE
    <3>1. r = [a EXCEPT !.PEER = addr]
      BY <1>4, <2>2, <2>3
    <3> QED
      BY <1>6, <2>3, <3>1 DEF Same, AppFields
  <2>4. CASE ~(CarriesName(data) /\ a.PEER = NONE)
    <3>1. r = a
      BY <1>4, <2>2, <2>4
    <3> QED
      BY <2>4, <3>1 DEF Same
  <2> QED
    BY <2>3, <2>4
<1> QED
  BY <1>5, <1>6

\* A scan is over.
LEMMA CompleteEvent ==
  ASSUME NEW a, DOMAIN a = AppFields, NEW r, r = gap_event_cb(a, [type |-> "DiscoveryComplete"])
  PROVE  /\ Same(a, r, {"ROUND_DONE"})
         /\ program \in Clients => r = a
         /\ program \notin Clients => r.ROUND_DONE = TRUE
<1>1. PICK ev : ev = [type |-> "DiscoveryComplete"]
  OBVIOUS
<1>2. ev.type = "DiscoveryComplete"
  BY <1>1
<1>3. r = IF program \in Clients THEN on_gap_event(a, ev) ELSE scanner_on_gap_event(a, ev)
  BY <1>1, <1>2 DEF gap_event_cb
<1>4. CASE program \notin Clients
  <2>1. r = [a EXCEPT !.ROUND_DONE = TRUE]
    BY <1>2, <1>3, <1>4 DEF scanner_on_gap_event
  <2> QED
    BY <1>4, <2>1 DEF Same, AppFields
<1>5. CASE program \in Clients
  <2>1. r = a
    BY <1>2, <1>3, <1>5 DEF on_gap_event
  <2> QED
    BY <1>5, <2>1 DEF Same
<1> QED
  BY <1>4, <1>5

\* An attempt to connect is over.
LEMMA ConnectEvent ==
  ASSUME program \in Clients, NEW a, DOMAIN a = AppFields, NEW ev, ev.type = "Connect",
         NEW r, r = gap_event_cb(a, ev)
  PROVE  /\ Same(a, r, {"CONN", "CONNECTED"})
         /\ program = "app" \/ ev.ok => r.CONN = ev.conn /\ r.CONNECTED = TRUE
         /\ ~(program = "app" \/ ev.ok) => r = a
<1>1. r = OnConnect(a, ev)
  <2>1. r = on_gap_event(a, ev)
    BY DEF gap_event_cb
  <2> QED
    BY <2>1 DEF on_gap_event
<1>2. CASE program = "app" \/ ev.ok
  <2>1. r = [a EXCEPT !.CONN = ev.conn, !.CONNECTED = TRUE]
    BY <1>1, <1>2 DEF OnConnect
  <2> QED
    BY <1>2, <2>1 DEF Same, AppFields
<1>3. CASE ~(program = "app" \/ ev.ok)
  <2>1. r = a
    BY <1>1, <1>3 DEF OnConnect
  <2> QED
    BY <1>3, <2>1 DEF Same
<1> QED
  BY <1>2, <1>3

\* The peer pushes an indication.
LEMMA NotifyEvent ==
  ASSUME NEW a, DOMAIN a = AppFields, NEW r, r = gap_event_cb(a, [type |-> "Notify"])
  PROVE  Same(a, r, {"heard"})
<1>1. r = gattc_cb(a, "Notify", NONE, TRUE)
  BY DEF gap_event_cb
<1>2. CASE ~hooked
  <2>1. r = a
    BY <1>1, <1>2 DEF gattc_cb
  <2> QED
    BY <2>1 DEF Same
<1>3. CASE hooked
  <2>1. PICK ev : ev = [type |-> "Notify", item |-> NONE, ok |-> TRUE]
    OBVIOUS
  <2>2. ev.type = "Notify"
    BY <2>1
  <2>3. r = on_gattc_event(a, ev)
    BY <1>1, <1>3, <2>1 DEF gattc_cb
  <2>4. r = [a EXCEPT !.heard = TRUE]
    BY <2>2, <2>3 DEF on_gattc_event
  <2> QED
    BY <2>4 DEF Same, AppFields
<1> QED
  BY <1>2, <1>3

-----------------------------------------------------------------------------
(* The steps that leave the discoveries alone.                             *)

PCs == {"sync", "scan", "connect", "services", "chrs", "loop", "calls", "round", "ended"}

\* Types are kept.
LEMMA TypedFrame ==
  ASSUME Typed, UNCHANGED <<program, procs, peer, calls>>, Same(app, app', Apart), pc' \in PCs,
         DOMAIN host' = HostFields, faults' \in Nat, resets' \in Nat
  PROVE  Typed'
<1>1. /\ DOMAIN app' = AppFields /\ app'.SVC_RANGE = app.SVC_RANGE
      /\ app'.RECV_VAL = app.RECV_VAL /\ app'.IND_VAL = app.IND_VAL /\ app'.completed = app.completed
  BY SameFields
<1> QED
  BY <1>1 DEF Typed, PCs

\* What is the same but for some fields of Apart.
LEMMA SameWeaker ==
  ASSUME NEW a, NEW r, NEW F \in SUBSET Apart, Same(a, r, F)
  PROVE  Same(a, r, Apart)
BY DEF Same

\* The host comes into sync.
LEMMA SyncStep ==
  ASSUME IInv, on_sync
  PROVE  IInv'
<1>0. PICK a : a = app
  OBVIOUS
<1>1. PICK r : r = app'
  OBVIOUS
<1>2. r = [a EXCEPT !.SYNCED = TRUE] /\ DOMAIN a = AppFields
  BY <1>0, <1>1 DEF on_sync, on_host_event, IInv, Typed
<1>3. Same(a, r, {"SYNCED"}) /\ r.PEER = a.PEER /\ r.CONN = a.CONN /\ r.CONNECTED = a.CONNECTED
      /\ r.ROUND_DONE = a.ROUND_DONE
  BY <1>2 DEF Same, AppFields
<1>4. Same(app, app', Apart)
  <2>1. Same(a, r, Apart)
    BY <1>3, SameWeaker DEF Apart
  <2> QED
    BY <1>0, <1>1, <2>1
<1>5. /\ app'.SVC_RANGE = app.SVC_RANGE /\ app'.SVC_DONE = app.SVC_DONE
      /\ app'.RECV_VAL = app.RECV_VAL /\ app'.IND_VAL = app.IND_VAL
      /\ app'.CHR_DONE = app.CHR_DONE /\ app'.DISCONNECTED = app.DISCONNECTED
      /\ app'.PEER = app.PEER /\ app'.CONN = app.CONN /\ app'.CONNECTED = app.CONNECTED
      /\ app'.ROUND_DONE = app.ROUND_DONE
  BY <1>0, <1>1, <1>3, <1>4, SameFields
<1>6. /\ program' = program /\ pc' = pc /\ procs' = procs /\ peer' = peer /\ hooked' = hooked
      /\ named' = named /\ hits' = hits /\ calls' = calls /\ faults' = faults /\ resets' = resets
  BY DEF on_sync, history, bounds
<1>7. /\ DOMAIN host' = HostFields /\ host'.synced /\ host'.scanning = host.scanning
      /\ host'.connecting = host.connecting /\ host'.conn = host.conn
  BY DEF on_sync, IInv, Typed, HostFields
<1>8. Typed'
  BY <1>4, <1>6, <1>7, TypedFrame DEF IInv, Typed, PCs
<1>9. Data'
  BY <1>4, <1>6, Frame DEF IInv, Data
<1>10. PeerNamed'
  BY <1>5, <1>6 DEF IInv, PeerNamed
<1>11. Control'
  BY <1>5, <1>6, <1>7 DEF IInv, Control
<1>12. Ready'
  BY <1>5, <1>6, <1>7 DEF IInv, Ready, Blamed
<1>13. EndsForCause'
  BY <1>6 DEF on_sync, EndsForCause
<1> QED
  BY <1>8, <1>9, <1>10, <1>11, <1>12, <1>13 DEF IInv, Data

\* An advertiser is heard: the client takes the first that sent the name.
LEMMA AdvStep ==
  ASSUME IInv, NEW addr \in Addrs, NEW data \in Payloads, AdvReport(addr, data)
  PROVE  IInv'
<1>0. PICK a : a = app
  OBVIOUS
<1>1. PICK r : r = app'
  OBVIOUS
<1>2. r = gap_event_cb(a, [type |-> "Discovery", addr |-> addr, data |-> data]) /\ DOMAIN a = AppFields
  BY <1>0, <1>1 DEF AdvReport, IInv, Typed
<1>3. data \in Seq(Nat) /\ addr # NONE
  BY GattClientAssumption
<1>4. /\ Same(a, r, {"PEER"})
      /\ program \in Clients /\ CarriesName(data) /\ a.PEER = NONE => r.PEER = addr
      /\ ~(program \in Clients /\ CarriesName(data) /\ a.PEER = NONE) => r.PEER = a.PEER
  BY <1>2, <1>3, DiscoveryEvent
<1>5. Same(app, app', Apart)
  <2>1. Same(a, r, Apart)
    BY <1>4, SameWeaker DEF Apart
  <2> QED
    BY <1>0, <1>1, <2>1
<1>6. /\ app'.SVC_RANGE = app.SVC_RANGE /\ app'.SVC_DONE = app.SVC_DONE
      /\ app'.RECV_VAL = app.RECV_VAL /\ app'.IND_VAL = app.IND_VAL
      /\ app'.CHR_DONE = app.CHR_DONE /\ app'.DISCONNECTED = app.DISCONNECTED
  BY <1>5, SameFields
<1>7. /\ app'.SYNCED = app.SYNCED /\ app'.CONN = app.CONN /\ app'.CONNECTED = app.CONNECTED
      /\ app'.ROUND_DONE = app.ROUND_DONE
  <2>1. /\ r.SYNCED = a.SYNCED /\ r.CONN = a.CONN /\ r.CONNECTED = a.CONNECTED
        /\ r.ROUND_DONE = a.ROUND_DONE
    BY <1>4 DEF Same, AppFields
  <2> QED
    BY <1>0, <1>1, <2>1
<1>8. /\ program' = program /\ pc' = pc /\ host' = host /\ procs' = procs /\ peer' = peer
      /\ hooked' = hooked /\ hits' = hits /\ calls' = calls /\ faults' = faults /\ resets' = resets
  BY DEF AdvReport, bounds
<1>9. Typed'
  BY <1>5, <1>8, TypedFrame DEF IInv, Typed, PCs
<1>10. Data'
  BY <1>5, <1>8, Frame DEF IInv, Data
<1>11. PeerNamed'
  <2>1. (CarriesName(data) /\ named' = named \cup {addr}) \/ (~CarriesName(data) /\ named' = named)
    BY DEF AdvReport
  <2> QED
    BY <1>0, <1>1, <1>3, <1>4, <1>8, <2>1 DEF IInv, PeerNamed
<1>12. Control'
  BY <1>6, <1>7, <1>8 DEF IInv, Control
<1>13. Ready'
  BY <1>6, <1>7, <1>8 DEF IInv, Ready, Blamed
<1>14. EndsForCause'
  <2>1. pc # "ended"
    BY DEF AdvReport, IInv, Control
  <2> QED
    BY <1>8, <2>1 DEF EndsForCause
<1> QED
  BY <1>9, <1>10, <1>11, <1>12, <1>13, <1>14 DEF IInv, Data

\* A round of a scanner is over.
LEMMA ScanTimeoutStep ==
  ASSUME IInv, ScanTimeout
  PROVE  IInv'
<1>0. PICK a : a = app
  OBVIOUS
<1>1. PICK r : r = app'
  OBVIOUS
<1>2. r = gap_event_cb(a, [type |-> "DiscoveryComplete"]) /\ DOMAIN a = AppFields
  BY <1>0, <1>1 DEF ScanTimeout, IInv, Typed
<1>3. Same(a, r, {"ROUND_DONE"})
  BY <1>2, CompleteEvent
<1>4. r.SYNCED = a.SYNCED /\ r.PEER = a.PEER /\ r.CONN = a.CONN /\ r.CONNECTED = a.CONNECTED
  BY <1>3 DEF Same, AppFields
<1>5. Same(app, app', Apart)
  <2>1. Same(a, r, Apart)
    BY <1>3, SameWeaker DEF Apart
  <2> QED
    BY <1>0, <1>1, <2>1
<1>6. /\ app'.SVC_RANGE = app.SVC_RANGE /\ app'.SVC_DONE = app.SVC_DONE
      /\ app'.RECV_VAL = app.RECV_VAL /\ app'.IND_VAL = app.IND_VAL
      /\ app'.CHR_DONE = app.CHR_DONE /\ app'.DISCONNECTED = app.DISCONNECTED
      /\ app'.SYNCED = app.SYNCED /\ app'.PEER = app.PEER /\ app'.CONN = app.CONN
      /\ app'.CONNECTED = app.CONNECTED
  BY <1>0, <1>1, <1>4, <1>5, SameFields
<1>7. /\ program' = program /\ pc' = pc /\ procs' = procs /\ peer' = peer /\ hooked' = hooked
      /\ named' = named /\ hits' = hits /\ calls' = calls /\ faults' = faults /\ resets' = resets
  BY DEF ScanTimeout, history, bounds
<1>8. /\ DOMAIN host' = HostFields /\ ~host'.scanning /\ host'.synced = host.synced
      /\ host'.connecting = host.connecting /\ host'.conn = host.conn
  BY DEF ScanTimeout, IInv, Typed, HostFields
<1>9. Typed'
  BY <1>5, <1>7, <1>8, TypedFrame DEF IInv, Typed, PCs
<1>10. Data'
  BY <1>5, <1>7, Frame DEF IInv, Data
<1>11. PeerNamed'
  BY <1>6, <1>7 DEF IInv, PeerNamed
<1>12. Control'
  BY <1>6, <1>7, <1>8 DEF IInv, Control
<1>13. Ready'
  BY <1>6, <1>7, <1>8 DEF IInv, Ready, Blamed
<1>14. EndsForCause'
  <2>1. pc # "ended"
    BY DEF ScanTimeout, IInv, Control
  <2> QED
    BY <1>7, <2>1 DEF EndsForCause
<1> QED
  BY <1>9, <1>10, <1>11, <1>12, <1>13, <1>14 DEF IInv, Data

\* The peer pushes an indication.
LEMMA IndicateStep ==
  ASSUME IInv, PeerIndicate
  PROVE  IInv'
<1>0. PICK a : a = app
  OBVIOUS
<1>1. PICK r : r = app'
  OBVIOUS
<1>2. r = gap_event_cb(a, [type |-> "Notify"]) /\ DOMAIN a = AppFields
  BY <1>0, <1>1 DEF PeerIndicate, IInv, Typed
<1>3. Same(a, r, {"heard"})
  BY <1>2, NotifyEvent
<1>4. /\ r.SYNCED = a.SYNCED /\ r.PEER = a.PEER /\ r.CONN = a.CONN /\ r.CONNECTED = a.CONNECTED
      /\ r.ROUND_DONE = a.ROUND_DONE
  BY <1>3 DEF Same, AppFields
<1>5. Same(app, app', Apart)
  <2>1. Same(a, r, Apart)
    BY <1>3, SameWeaker DEF Apart
  <2> QED
    BY <1>0, <1>1, <2>1
<1>6. /\ app'.SVC_RANGE = app.SVC_RANGE /\ app'.SVC_DONE = app.SVC_DONE
      /\ app'.RECV_VAL = app.RECV_VAL /\ app'.IND_VAL = app.IND_VAL
      /\ app'.CHR_DONE = app.CHR_DONE /\ app'.DISCONNECTED = app.DISCONNECTED
      /\ app'.SYNCED = app.SYNCED /\ app'.PEER = app.PEER /\ app'.CONN = app.CONN
      /\ app'.CONNECTED = app.CONNECTED /\ app'.ROUND_DONE = app.ROUND_DONE
  BY <1>0, <1>1, <1>4, <1>5, SameFields
<1>7. /\ program' = program /\ pc' = pc /\ host' = host /\ procs' = procs /\ peer' = peer
      /\ hooked' = hooked /\ named' = named /\ hits' = hits /\ calls' = calls
      /\ faults' = faults /\ resets' = resets
  BY DEF PeerIndicate, history, bounds
<1>9. Typed'
  BY <1>5, <1>7, TypedFrame DEF IInv, Typed, PCs
<1>10. Data'
  BY <1>5, <1>7, Frame DEF IInv, Data
<1>11. PeerNamed'
  BY <1>6, <1>7 DEF IInv, PeerNamed
<1>12. Control'
  BY <1>6, <1>7 DEF IInv, Control
<1>13. Ready'
  BY <1>6, <1>7 DEF IInv, Ready, Blamed
<1>14. EndsForCause'
  BY <1>7 DEF PeerIndicate, EndsForCause
<1> QED
  BY <1>9, <1>10, <1>11, <1>12, <1>13, <1>14 DEF IInv, Data

\* Nothing of the statics is touched.
LEMMA AppSame ==
  ASSUME Typed, app' = app
  PROVE  Same(app, app', Apart)
BY DEF Typed, Same

\* A disconnect is asked for.
LEMMA DisconnectStep ==
  ASSUME IInv, disconnect
  PROVE  IInv'
<1>1. /\ program' = program /\ pc' = pc /\ app' = app /\ procs' = procs /\ peer' = peer
      /\ hooked' = hooked /\ named' = named /\ hits' = hits /\ calls' = calls
      /\ faults' = faults /\ resets' = resets
  BY DEF disconnect, history, bounds
<1>2. /\ DOMAIN host' = HostFields /\ host'.synced = host.synced /\ host'.scanning = host.scanning
      /\ host'.connecting = host.connecting /\ host'.conn = host.conn
  BY DEF disconnect, IInv, Typed, HostFields
<1>3. Same(app, app', Apart)
  BY <1>1, AppSame DEF IInv
<1>4. Typed'
  BY <1>1, <1>2, <1>3, TypedFrame DEF IInv, Typed, PCs
<1>5. Data'
  BY <1>1, <1>3, Frame DEF IInv, Data
<1>6. PeerNamed'
  BY <1>1 DEF IInv, PeerNamed
<1>7. Control'
  BY <1>1, <1>2 DEF IInv, Control
<1>8. Ready'
  BY <1>1, <1>2 DEF IInv, Ready, Blamed
<1>9. EndsForCause'
  BY <1>1 DEF disconnect, EndsForCause
<1> QED
  BY <1>4, <1>5, <1>6, <1>7, <1>8, <1>9 DEF IInv, Data

\* The hook is taken away.
LEMMA UnsubscribeStep ==
  ASSUME IInv, gattc_unsubscribe
  PROVE  IInv'
<1>1. /\ program' = program /\ pc' = pc /\ app' = app /\ host' = host /\ procs' = procs
      /\ peer' = peer /\ hooked' = FALSE /\ named' = named /\ hits' = hits /\ calls' = calls
      /\ faults' \in Nat /\ faults' > 0 /\ resets' = resets
  BY DEF gattc_unsubscribe, history, Spend, IInv, Typed
<1>3. Same(app, app', Apart)
  BY <1>1, AppSame DEF IInv
<1>4. Typed'
  BY <1>1, <1>3, TypedFrame DEF IInv, Typed, PCs
<1>5. Data'
  BY <1>1, <1>3, Frame DEF IInv, Data
<1>6. PeerNamed'
  BY <1>1 DEF IInv, PeerNamed
<1>7. Control'
  BY <1>1 DEF gattc_unsubscribe, IInv, Control
<1>8. Ready'
  BY <1>1 DEF IInv, Ready, Blamed
<1>9. EndsForCause'
  BY <1>1 DEF EndsForCause
<1> QED
  BY <1>4, <1>5, <1>6, <1>7, <1>8, <1>9 DEF IInv, Data

\* A write command goes out.
LEMMA WriteCmdStep ==
  ASSUME IInv, write_cmd
  PROVE  IInv'
<1>1. /\ program' = program /\ pc' = pc /\ app' = app /\ host' = host /\ procs' = procs
      /\ peer' = peer /\ hooked' = hooked /\ named' = named /\ calls' = calls
      /\ faults' = faults /\ resets' = resets /\ pc = "calls"
  BY DEF write_cmd, bounds
<1>2. hits' = hits \cup {<<"cmd", 0>>}
  BY DEF write_cmd
<1>3. Same(app, app', Apart)
  BY <1>1, AppSame DEF IInv
<1>4. Typed'
  BY <1>1, <1>3, TypedFrame DEF IInv, Typed, PCs
<1>5. Targets'
  <2>1. Targets
    BY DEF IInv
  <2>2. OurChrs("IND")' = OurChrs("IND") /\ OurChrs("RECV")' = OurChrs("RECV")
    BY <1>1 DEF OurChrs, Chrs
  <2>3. \A v : (GoodRecv(v)' <=> GoodRecv(v)) /\ (GoodCccd(v)' <=> GoodCccd(v))
    BY <2>2 DEF GoodRecv, GoodCccd
  <2>4. \A p : GoodProc(p)' <=> GoodProc(p)
    BY <1>1, <2>3 DEF GoodProc, GoodWrite, OurChrs, Chrs
  <2>5. app'.RECV_VAL # 0 => GoodRecv(app.RECV_VAL)'
    BY <1>1, <2>1, <2>2 DEF Targets, GoodRecv
  <2>6. GoodWrite("cmd", 0)'
    BY DEF GoodWrite
  <2>7. ASSUME NEW w \in hits' PROVE GoodWrite(w[1], w[2])'
    <3>1. CASE w = <<"cmd", 0>>
      BY <2>6, <3>1
    <3>2. CASE w \in hits
      BY <2>1, <2>3, <3>2 DEF Targets, GoodWrite
    <3> QED
      BY <1>2, <3>1, <3>2
  <2> QED
    BY <1>1, <2>1, <2>2, <2>4, <2>5, <2>7 DEF Targets
<1>6. Data'
  <2>1. OurRange'
    BY <1>1 DEF IInv, OurRange, RangeOf
  <2>2. SvcInv' /\ ChrInv' /\ Looked'
    BY <1>1 DEF SvcInv, ChrInv, Looked
  <2>3. Counted'
    BY <1>1 DEF IInv, Counted, CompletedOnce, Pending
  <2> QED
    BY <1>5, <2>1, <2>2, <2>3 DEF Data
<1>7. PeerNamed'
  BY <1>1 DEF IInv, PeerNamed
<1>8. Control'
  BY <1>1 DEF IInv, Control
<1>9. Ready'
  BY <1>1 DEF IInv, Ready, Blamed
<1>10. EndsForCause'
  BY <1>1 DEF EndsForCause
<1> QED
  BY <1>4, <1>6, <1>7, <1>8, <1>9, <1>10 DEF IInv, Data

\* The program of a client scans, or ends because that failed.
LEMMA ScanStep ==
  ASSUME IInv, pc = "sync", app.SYNCED, program \in Clients, NEW o \in ble_gap_disc, Spend(o[2]),
         pc' = IF o[1] = "OK" THEN "scan" ELSE "ended",
         host' = [host EXCEPT !.scanning = (o[1] = "OK")],
         UNCHANGED <<app, program, procs, peer, hooked, history, resets>>
  PROVE  IInv'
<1>1. /\ program' = program /\ app' = app /\ procs' = procs /\ peer' = peer
      /\ hooked' = hooked /\ named' = named /\ hits' = hits /\ calls' = calls /\ resets' = resets
  BY DEF history
<1>2. /\ DOMAIN host' = HostFields /\ host'.synced = host.synced /\ (host'.scanning <=> o[1] = "OK")
      /\ host'.connecting = host.connecting /\ host'.conn = host.conn
  BY DEF IInv, Typed, HostFields
<1>3. PICK rc : /\ o \in Outcomes(rc)
                /\ rc = IF ~host.synced THEN "EDISABLED"
                        ELSE IF host.scanning \/ host.connecting THEN "EBUSY" ELSE "OK"
  BY DEF ble_gap_disc
<1>4. /\ o[1] = "OK" => rc = "OK" /\ o[2] = 0
      /\ o[1] # "OK" => o[2] = 1 \/ rc # "OK"
      /\ o[2] \in {0, 1}
  BY <1>3, OutcomeFacts
<1>5. faults' \in Nat /\ faults' = faults + o[2]
  BY <1>4 DEF Spend, IInv, Typed
<1>6. ~host.scanning /\ ~host.connecting
  BY DEF IInv, Control
<1>7. pc' \in {"scan", "ended"} /\ (pc' = "scan" => o[1] = "OK") /\ (pc' = "ended" => o[1] # "OK")
  OBVIOUS
<1>8. Same(app, app', Apart)
  BY <1>1, AppSame DEF IInv
<1>9. Typed'
  BY <1>1, <1>2, <1>5, <1>7, <1>8, TypedFrame DEF IInv, Typed, PCs
<1>10. Data'
  BY <1>1, <1>7, <1>8, Frame DEF IInv, Data
<1>11. PeerNamed'
  BY <1>1 DEF IInv, PeerNamed
<1>12. Control'
  BY <1>1, <1>2, <1>6, <1>7 DEF IInv, Control, Clients
<1>13. pc' = "scan" => host'.synced \/ resets' > 0
  BY <1>2, <1>3, <1>4, <1>7
<1>14. Ready'
  BY <1>1, <1>7, <1>13 DEF Ready
<1>15. EndsForCause'
  <2>1. faults \in Nat
    BY DEF IInv, Typed
  <2>2. CASE o[2] = 1
    BY <1>5, <2>1, <2>2 DEF EndsForCause
  <2>3. CASE rc # "OK"
    <3>1. ~host.synced
      BY <1>3, <1>6, <2>3
    <3>2. resets' > 0
      BY <1>1, <3>1 DEF IInv, Ready
    <3> QED
      BY <3>2 DEF EndsForCause
  <2>4. CASE o[1] = "OK"
    BY <1>7, <2>4 DEF EndsForCause
  <2> QED
    BY <1>4, <2>2, <2>3, <2>4
<1> QED
  BY <1>9, <1>10, <1>11, <1>12, <1>14, <1>15 DEF IInv, Data

\* A scanner begins a round, or ends because that failed.
LEMMA RoundStep ==
  ASSUME IInv, pc \in {"sync", "round"}, program \notin Clients, host.synced \/ resets > 0,
         ~host.scanning, ScanRound, UNCHANGED <<program, procs, peer, hooked, history, resets>>
  PROVE  IInv'
<1>1. /\ program' = program /\ procs' = procs /\ peer' = peer
      /\ hooked' = hooked /\ named' = named /\ hits' = hits /\ calls' = calls /\ resets' = resets
  BY DEF history
<1>2. PICK o \in ble_gap_disc :
        /\ Spend(o[2]) /\ pc' = IF o[1] = "OK" THEN "round" ELSE "ended"
        /\ host' = [host EXCEPT !.scanning = @ \/ o[1] = "OK"]
        /\ app' = [app EXCEPT !.ROUND_DONE = FALSE]
  BY DEF ScanRound
<1>3. PICK rc : /\ o \in Outcomes(rc)
                /\ rc = IF ~host.synced THEN "EDISABLED"
                        ELSE IF host.scanning \/ host.connecting THEN "EBUSY" ELSE "OK"
  BY DEF ble_gap_disc
<1>4. /\ o[1] = "OK" => rc = "OK" /\ o[2] = 0
      /\ o[1] # "OK" => o[2] = 1 \/ rc # "OK"
      /\ o[2] \in {0, 1}
  BY <1>3, OutcomeFacts
<1>5. faults' \in Nat /\ faults' = faults + o[2]
  BY <1>2, <1>4 DEF Spend, IInv, Typed
<1>6. ~host.connecting
  BY DEF IInv, Control
<1>7. pc' \in {"round", "ended"} /\ (pc' = "round" => o[1] = "OK") /\ (pc' = "ended" => o[1] # "OK")
  BY <1>2
<1>8. /\ DOMAIN host' = HostFields /\ host'.synced = host.synced /\ (host'.scanning => o[1] = "OK")
      /\ host'.connecting = host.connecting /\ host'.conn = host.conn
  <2>1. PICK b \in BOOLEAN : b = (host.scanning \/ o[1] = "OK")
    OBVIOUS
  <2>2. host' = [host EXCEPT !.scanning = b]
    BY <1>2, <2>1
  <2>3. b => o[1] = "OK"
    BY <2>1
  <2> QED
    BY <2>2, <2>3 DEF IInv, Typed, HostFields
<1>9. PICK a : a = app
  OBVIOUS
<1>10. PICK r : r = app'
  OBVIOUS
<1>11. Same(a, r, {"ROUND_DONE"}) /\ ~r.ROUND_DONE
  BY <1>2, <1>9, <1>10 DEF IInv, Typed, Same, AppFields
<1>12. r.SYNCED = a.SYNCED /\ r.PEER = a.PEER /\ r.CONN = a.CONN /\ r.CONNECTED = a.CONNECTED
  BY <1>11 DEF Same, AppFields
<1>13. Same(app, app', Apart)
  <2>1. Same(a, r, Apart)
    BY <1>11, SameWeaker DEF Apart
  <2> QED
    BY <1>9, <1>10, <2>1
<1>14. /\ app'.SVC_RANGE = app.SVC_RANGE /\ app'.SVC_DONE = app.SVC_DONE
       /\ app'.RECV_VAL = app.RECV_VAL /\ app'.IND_VAL = app.IND_VAL
       /\ app'.CHR_DONE = app.CHR_DONE /\ app'.DISCONNECTED = app.DISCONNECTED
       /\ app'.SYNCED = app.SYNCED /\ app'.PEER = app.PEER /\ app'.CONN = app.CONN
       /\ app'.CONNECTED = app.CONNECTED /\ ~app'.ROUND_DONE
  BY <1>9, <1>10, <1>11, <1>12, <1>13, SameFields
<1>15. Typed'
  BY <1>1, <1>5, <1>7, <1>8, <1>13, TypedFrame DEF IInv, Typed, PCs
<1>16. Data'
  BY <1>1, <1>7, <1>13, Frame DEF IInv, Data
<1>17. PeerNamed'
  BY <1>1 DEF PeerNamed
<1>18. Control'
  BY <1>1, <1>6, <1>7, <1>8, <1>14 DEF IInv, Control, Clients
<1>19. Ready'
  <2>1. pc' = "round" => host'.synced
    BY <1>3, <1>4, <1>7, <1>8
  <2> QED
    BY <1>7, <1>14, <2>1 DEF Ready
<1>20. EndsForCause'
  <2>1. faults \in Nat
    BY DEF IInv, Typed
  <2>2. CASE o[2] = 1
    BY <1>5, <2>1, <2>2 DEF EndsForCause
  <2>3. CASE rc # "OK"
    <3>1. ~host.synced
      BY <1>3, <1>6, <2>3
    <3>2. resets' > 0
      BY <1>1, <3>1
    <3> QED
      BY <3>2 DEF EndsForCause
  <2>4. CASE o[1] = "OK"
    BY <1>7, <2>4 DEF EndsForCause
  <2> QED
    BY <1>4, <2>2, <2>3, <2>4
<1> QED
  BY <1>15, <1>16, <1>17, <1>18, <1>19, <1>20 DEF IInv, Data

\* The program ends, and there is a reason.
LEMMA EndStep ==
  ASSUME IInv, pc' = "ended", UNCHANGED <<program, app, procs, peer, hooked, history, resets>>,
         host' = host, ~host.scanning, ~host.connecting, faults' \in Nat, EndsForCause'
  PROVE  IInv'
<1>1. /\ program' = program /\ app' = app /\ procs' = procs /\ peer' = peer
      /\ hooked' = hooked /\ named' = named /\ hits' = hits /\ calls' = calls /\ resets' = resets
  BY DEF history
<1>2. DOMAIN host' = HostFields /\ host'.conn = host.conn /\ ~host'.scanning /\ ~host'.connecting
  BY DEF IInv, Typed
<1>3. Same(app, app', Apart)
  BY <1>1, AppSame DEF IInv
<1>4. Typed'
  BY <1>1, <1>2, <1>3, TypedFrame DEF IInv, Typed, PCs
<1>5. Data'
  BY <1>1, <1>3, Frame DEF IInv, Data
<1>6. PeerNamed'
  BY <1>1 DEF IInv, PeerNamed
<1>7. Control'
  BY <1>1, <1>2 DEF IInv, Control
<1>8. Ready'
  BY DEF Ready
<1> QED
  BY <1>4, <1>5, <1>6, <1>7, <1>8 DEF IInv, Data

\* In sync.
LEMMA StartStep ==
  ASSUME IInv, Start
  PROVE  IInv'
<1>1. pc = "sync" /\ app.SYNCED /\ UNCHANGED <<program, procs, peer, hooked, history, resets>>
  BY DEF Start
<1>2. ~host.scanning /\ ~host.connecting
  BY <1>1 DEF IInv, Control
<1>3. CASE program \in Clients /\ UNCHANGED app /\
           \E o \in ble_gap_disc : /\ Spend(o[2])
                                   /\ pc' = IF o[1] = "OK" THEN "scan" ELSE "ended"
                                   /\ host' = [host EXCEPT !.scanning = (o[1] = "OK")]
  <2>1. PICK o \in ble_gap_disc : /\ Spend(o[2])
                                  /\ pc' = IF o[1] = "OK" THEN "scan" ELSE "ended"
                                  /\ host' = [host EXCEPT !.scanning = (o[1] = "OK")]
    BY <1>3
  <2> QED
    BY <1>1, <1>3, <2>1, ScanStep
<1>4. CASE program \notin Clients /\ ScanRound
  <2>1. host.synced \/ resets > 0
    BY <1>1 DEF IInv, Ready
  <2> QED
    BY <1>1, <1>2, <1>4, <2>1, RoundStep
<1>5. CASE Spend(1) /\ pc' = "ended" /\ UNCHANGED <<host, app>>
  <2>1. faults' \in Nat /\ faults' > 0
    BY <1>5 DEF Spend, IInv, Typed
  <2>2. EndsForCause'
    BY <2>1 DEF EndsForCause
  <2> QED
    BY <1>1, <1>2, <1>5, <2>1, <2>2, EndStep
<1> QED
  BY <1>3, <1>4, <1>5 DEF Start

\* A round is over.
LEMMA NextRoundStep ==
  ASSUME IInv, NextRound
  PROVE  IInv'
<1>1. pc = "round" /\ app.ROUND_DONE /\ UNCHANGED <<program, procs, peer, hooked, history, resets>>
  BY DEF NextRound
<1>2. ~host.scanning /\ ~host.connecting
  BY <1>1 DEF IInv, Control, Ready
<1>3. CASE program = "scanner" /\ ScanRound
  <2>1. (host.synced \/ resets > 0) /\ program \notin Clients
    BY <1>1, <1>3 DEF IInv, Ready, Clients
  <2> QED
    BY <1>1, <1>2, <1>3, <2>1, RoundStep
<1>4. CASE program = "std_scanner" /\ pc' = "ended" /\ UNCHANGED <<app, host, faults>>
  <2>1. faults' \in Nat
    BY <1>4 DEF IInv, Typed
  <2>2. EndsForCause'
    BY <1>1, <1>4 DEF EndsForCause
  <2> QED
    BY <1>1, <1>2, <1>4, <2>1, <2>2, EndStep
<1> QED
  BY <1>3, <1>4 DEF NextRound

\* The advertiser is found.
LEMMA FoundStep ==
  ASSUME IInv, Found
  PROVE  IInv'
<1>1. /\ pc = "scan" /\ app.PEER # NONE
      /\ program' = program /\ app' = app /\ procs' = procs /\ peer' = peer
      /\ hooked' = hooked /\ named' = named /\ hits' = hits /\ calls' = calls /\ resets' = resets
  BY DEF Found, history
<1>2. PICK h : h = [host EXCEPT !.scanning = FALSE]
  OBVIOUS
<1>3. PICK o \in ble_gap_connect(h) :
        /\ Spend(o[2]) /\ pc' = IF o[1] = "OK" THEN "connect" ELSE "ended"
        /\ host' = [h EXCEPT !.connecting = (o[1] = "OK")]
  BY <1>2 DEF Found
<1>4. PICK rc : /\ o \in Outcomes(rc)
                /\ rc = IF ~h.synced THEN "EDISABLED"
                        ELSE IF h.scanning \/ h.connecting THEN "EBUSY" ELSE "OK"
  BY DEF ble_gap_connect
<1>5. /\ o[1] = "OK" => rc = "OK" /\ o[2] = 0
      /\ o[1] # "OK" => o[2] = 1 \/ rc # "OK"
      /\ o[2] \in {0, 1}
  BY <1>4, OutcomeFacts
<1>6. faults' \in Nat /\ faults' = faults + o[2]
  BY <1>3, <1>5 DEF Spend, IInv, Typed
<1>7. ~host.connecting
  BY <1>1 DEF IInv, Control
<1>8. /\ DOMAIN h = HostFields /\ h.synced = host.synced /\ ~h.scanning
      /\ ~h.connecting /\ h.conn = host.conn
  BY <1>2, <1>7 DEF IInv, Typed, HostFields
<1>9. /\ DOMAIN host' = HostFields /\ host'.synced = host.synced /\ ~host'.scanning
      /\ (host'.connecting <=> o[1] = "OK") /\ host'.conn = host.conn
  BY <1>3, <1>8 DEF HostFields
<1>10. pc' \in {"connect", "ended"} /\ (pc' = "connect" <=> o[1] = "OK")
  BY <1>3
<1>11. Same(app, app', Apart)
  BY <1>1, AppSame DEF IInv
<1>12. Typed'
  BY <1>1, <1>6, <1>9, <1>10, <1>11, TypedFrame DEF IInv, Typed, PCs
<1>13. Data'
  BY <1>1, <1>10, <1>11, Frame DEF IInv, Data
<1>14. PeerNamed'
  BY <1>1 DEF IInv, PeerNamed
<1>15. Control'
  <2>1. program \in Clients
    BY <1>1 DEF IInv, Control
  <2> QED
    BY <1>1, <1>9, <1>10, <2>1 DEF IInv, Control
<1>16. Ready'
  BY <1>1, <1>10 DEF IInv, Ready, Control
<1>17. EndsForCause'
  <2>1. faults \in Nat
    BY DEF IInv, Typed
  <2>2. CASE o[2] = 1
    BY <1>6, <2>1, <2>2 DEF EndsForCause
  <2>3. CASE rc # "OK"
    <3>1. ~host.synced
      BY <1>4, <1>8, <2>3
    <3>2. resets' > 0
      BY <1>1, <3>1 DEF IInv, Ready
    <3> QED
      BY <3>2 DEF EndsForCause
  <2>4. CASE o[1] = "OK"
    BY <1>10, <2>4 DEF EndsForCause
  <2> QED
    BY <1>5, <2>2, <2>3, <2>4
<1> QED
  BY <1>12, <1>13, <1>14, <1>15, <1>16, <1>17 DEF IInv, Data

-----------------------------------------------------------------------------
(* A connection is made, and breaks.                                       *)

\* The attempt to connect fails.
LEMMA ConnectFails ==
  ASSUME IInv, pc = "connect", program \in Clients, NEW ev, ev.type = "Connect", ev.conn = NONE, ~ev.ok,
         app' = gap_event_cb(app, ev), host'.conn = NONE, ~host'.scanning, ~host'.connecting,
         DOMAIN host' = HostFields, host.connecting,
         faults' \in Nat, resets' \in Nat, faults' > 0 \/ resets' > 0,
         UNCHANGED <<program, pc, procs, peer, hooked, history>>
  PROVE  IInv'
<1>0. PICK a : a = app
  OBVIOUS
<1>1. PICK r : r = app'
  OBVIOUS
<1>2. r = gap_event_cb(a, ev) /\ DOMAIN a = AppFields
  BY <1>0, <1>1 DEF IInv, Typed
<1>3. Same(a, r, {"CONN", "CONNECTED"})
  BY <1>2, ConnectEvent
<1>4. r.SYNCED = a.SYNCED /\ r.PEER = a.PEER /\ r.ROUND_DONE = a.ROUND_DONE
  BY <1>3 DEF Same, AppFields
<1>5. Same(app, app', Apart)
  <2>1. Same(a, r, Apart)
    BY <1>3, SameWeaker DEF Apart
  <2> QED
    BY <1>0, <1>1, <2>1
<1>6. /\ app'.SVC_RANGE = app.SVC_RANGE /\ app'.SVC_DONE = app.SVC_DONE
      /\ app'.RECV_VAL = app.RECV_VAL /\ app'.IND_VAL = app.IND_VAL
      /\ app'.CHR_DONE = app.CHR_DONE /\ app'.DISCONNECTED = app.DISCONNECTED
      /\ app'.PEER = app.PEER
  BY <1>0, <1>1, <1>4, <1>5, SameFields
<1>7. /\ program' = program /\ pc' = pc /\ procs' = procs /\ peer' = peer /\ hooked' = hooked
      /\ named' = named /\ hits' = hits /\ calls' = calls
  BY DEF history
<1>8. Typed'
  BY <1>5, <1>7, TypedFrame DEF IInv, Typed, PCs
<1>9. Data'
  BY <1>5, <1>7, Frame DEF IInv, Data
<1>10. PeerNamed'
  BY <1>6, <1>7 DEF IInv, PeerNamed
<1>11. Control'
  BY <1>6, <1>7 DEF IInv, Control
<1>12. Ready'
  BY <1>7 DEF Ready, Blamed
<1>13. EndsForCause'
  BY <1>7 DEF EndsForCause
<1> QED
  BY <1>8, <1>9, <1>10, <1>11, <1>12, <1>13 DEF IInv, Data

\* It succeeds: the client knows nothing yet of its peer.
LEMMA ConnectSucceeds ==
  ASSUME IInv, pc = "connect", program \in Clients, host.connecting,
         peer' \in IF program = "calls" THEN {<< >>} ELSE Peers,
         host' = [host EXCEPT !.connecting = FALSE, !.conn = CONN_HANDLE],
         NEW ev, ev.type = "Connect", ev.conn = CONN_HANDLE, ev.ok,
         app' = gap_event_cb(app, ev), UNCHANGED bounds,
         UNCHANGED <<program, pc, procs, hooked, history>>
  PROVE  IInv'
<1>0. PICK a : a = app
  OBVIOUS
<1>1. PICK r : r = app'
  OBVIOUS
<1>2. r = gap_event_cb(a, ev) /\ DOMAIN a = AppFields
  BY <1>0, <1>1 DEF IInv, Typed
<1>3. Same(a, r, {"CONN", "CONNECTED"}) /\ r.CONN = CONN_HANDLE
  <2>1. /\ Same(a, r, {"CONN", "CONNECTED"})
        /\ program = "app" \/ ev.ok => r.CONN = ev.conn /\ r.CONNECTED = TRUE
    BY <1>2, ConnectEvent, ZenonT(30)
  <2> QED
    BY <2>1
<1>4. r.PEER = a.PEER
  BY <1>3 DEF Same, AppFields
<1>5. Same(app, app', Apart)
  <2>1. Same(a, r, Apart)
    BY <1>3, SameWeaker DEF Apart
  <2> QED
    BY <1>0, <1>1, <2>1
<1>6. /\ app'.SVC_RANGE = app.SVC_RANGE /\ app'.SVC_DONE = app.SVC_DONE
      /\ app'.RECV_VAL = app.RECV_VAL /\ app'.IND_VAL = app.IND_VAL
      /\ app'.CHR_DONE = app.CHR_DONE /\ app'.DISCONNECTED = app.DISCONNECTED
      /\ app'.PEER = app.PEER /\ app'.CONN = CONN_HANDLE /\ app'.completed = app.completed
      /\ DOMAIN app' = AppFields
  BY <1>0, <1>1, <1>3, <1>4, <1>5, SameFields
<1>7. /\ program' = program /\ pc' = pc /\ procs' = procs /\ hooked' = hooked
      /\ named' = named /\ hits' = hits /\ calls' = calls /\ faults' = faults /\ resets' = resets
  BY DEF history, bounds
<1>8. /\ DOMAIN host' = HostFields /\ host'.synced = host.synced /\ host'.scanning = host.scanning
      /\ ~host'.connecting /\ host'.conn = CONN_HANDLE
  BY DEF IInv, Typed, HostFields
<1>9. Typed'
  <2>1. peer' \in Peers \cup {<< >>}
    OBVIOUS
  <2> QED
    BY <1>6, <1>7, <1>8, <2>1 DEF IInv, Typed
<1>10. /\ procs = << >> /\ hits = {} /\ app.RECV_VAL = 0 /\ app.IND_VAL = 0 /\ app.SVC_RANGE = NONE
       /\ ~app.DISCONNECTED
  BY DEF IInv, Control
<1>11. Data'
  <2>1. OurRange'
    BY <1>6, <1>10 DEF OurRange
  <2>2. SvcInv' /\ ChrInv' /\ Looked'
    BY <1>7 DEF SvcInv, ChrInv, Looked
  <2>3. Targets'
    BY <1>6, <1>7, <1>10 DEF Targets
  <2>4. Counted'
    BY <1>6, <1>7 DEF IInv, Counted, CompletedOnce, Pending
  <2> QED
    BY <2>1, <2>2, <2>3, <2>4 DEF Data
<1>12. PeerNamed'
  BY <1>6, <1>7 DEF IInv, PeerNamed
<1>13. Control'
  BY <1>6, <1>7, <1>8 DEF IInv, Control
<1>14. Ready'
  BY <1>6, <1>7, <1>8, GattClientAssumption DEF Ready
<1>15. EndsForCause'
  BY <1>7 DEF EndsForCause
<1> QED
  BY <1>9, <1>11, <1>12, <1>13, <1>14, <1>15 DEF IInv, Data

\* The attempt to connect is over.
LEMMA HostConnectStep ==
  ASSUME IInv, HostConnect
  PROVE  IInv'
<1>1. host.connecting /\ UNCHANGED <<program, pc, procs, hooked, history>>
  BY DEF HostConnect
<1>2. pc = "connect" /\ program \in Clients /\ host.conn = NONE /\ ~host.scanning
  BY <1>1 DEF IInv, Control
<1>3. CASE /\ peer' \in IF program = "calls" THEN {<< >>} ELSE Peers
           /\ host' = [host EXCEPT !.connecting = FALSE, !.conn = CONN_HANDLE]
           /\ app' = gap_event_cb(app, [type |-> "Connect", conn |-> CONN_HANDLE, ok |-> TRUE])
           /\ UNCHANGED bounds
  <2>1. PICK ev : ev = [type |-> "Connect", conn |-> CONN_HANDLE, ok |-> TRUE]
    OBVIOUS
  <2>2. ev.type = "Connect" /\ ev.conn = CONN_HANDLE /\ ev.ok /\ app' = gap_event_cb(app, ev)
    BY <1>3, <2>1
  <2> QED
    BY <1>1, <1>2, <1>3, <2>2, ConnectSucceeds
<1>4. CASE /\ Spend(1)
           /\ host' = [host EXCEPT !.connecting = FALSE]
           /\ app' = gap_event_cb(app, [type |-> "Connect", conn |-> NONE, ok |-> FALSE])
           /\ UNCHANGED <<peer, resets>>
  <2>1. PICK ev : ev = [type |-> "Connect", conn |-> NONE, ok |-> FALSE]
    OBVIOUS
  <2>2. ev.type = "Connect" /\ ev.conn = NONE /\ ~ev.ok /\ app' = gap_event_cb(app, ev)
    BY <1>4, <2>1
  <2>3. faults' \in Nat /\ faults' > 0 /\ resets' \in Nat
    BY <1>4 DEF Spend, IInv, Typed
  <2>4. DOMAIN host' = HostFields /\ host'.conn = NONE /\ ~host'.scanning /\ ~host'.connecting
    BY <1>2, <1>4 DEF IInv, Typed, HostFields
  <2> QED
    BY <1>1, <1>2, <1>4, <2>2, <2>3, <2>4, ConnectFails
<1> QED
  BY <1>3, <1>4 DEF HostConnect

\* The connection breaks, with everything under way on it.
LEMMA BreakStep ==
  ASSUME IInv, host.conn # NONE, pc # "ended", app' = Broken(app), procs' = << >>,
         host'.conn = NONE, ~host'.scanning, ~host'.connecting, DOMAIN host' = HostFields,
         faults' = faults, resets' \in Nat,
         UNCHANGED <<program, pc, peer, hooked, history>>
  PROVE  IInv'
<1>0. PICK a : a = app
  OBVIOUS
<1>1. PICK r : r = app'
  OBVIOUS
<1>2. /\ r = Broken(a) /\ DOMAIN a = AppFields /\ procs \in Seq(Procs) /\ a.completed \in [Ops -> Nat]
      /\ program \in Clients
  BY <1>0, <1>1 DEF IInv, Typed, Control
<1>3. /\ Same(a, r, {"SVC_DONE", "CHR_DONE", "completed", "DISCONNECTED"})
      /\ r.DISCONNECTED = TRUE /\ (a.SVC_DONE => r.SVC_DONE)
      /\ r.completed \in [Ops -> Nat] /\ Adds(a, r, Len(procs))
      /\ procs = << >> => Same(a, r, {"DISCONNECTED"})
  BY <1>2, BrokenFacts
<1>4. /\ r.SYNCED = a.SYNCED /\ r.PEER = a.PEER /\ r.CONN = a.CONN /\ r.CONNECTED = a.CONNECTED
      /\ r.SVC_RANGE = a.SVC_RANGE /\ r.RECV_VAL = a.RECV_VAL /\ r.IND_VAL = a.IND_VAL
      /\ r.ROUND_DONE = a.ROUND_DONE /\ DOMAIN r = AppFields
  BY <1>3 DEF Same, AppFields
<1>5. procs = << >> => r.SVC_DONE = a.SVC_DONE /\ r.CHR_DONE = a.CHR_DONE
  BY <1>3 DEF Same, AppFields
<1>6. /\ app'.PEER = app.PEER /\ app'.CONN = app.CONN /\ app'.CONNECTED = app.CONNECTED
      /\ app'.SVC_RANGE = app.SVC_RANGE /\ app'.RECV_VAL = app.RECV_VAL /\ app'.IND_VAL = app.IND_VAL
      /\ DOMAIN app' = AppFields /\ app'.DISCONNECTED = TRUE /\ (app.SVC_DONE => app'.SVC_DONE)
      /\ app'.completed \in [Ops -> Nat]
      /\ (procs = << >> => app'.SVC_DONE = app.SVC_DONE /\ app'.CHR_DONE = app.CHR_DONE)
  BY <1>0, <1>1, <1>3, <1>4, <1>5
<1>7. /\ program' = program /\ pc' = pc /\ peer' = peer /\ hooked' = hooked
      /\ named' = named /\ hits' = hits /\ calls' = calls
  BY DEF history
<1>8. Typed'
  <2>1. procs' \in Seq(Procs)
    BY EmptySeq
  <2> QED
    BY <1>6, <1>7, <2>1 DEF IInv, Typed
<1>9. OurRange'
  BY <1>6, <1>7 DEF IInv, OurRange, RangeOf
<1>10. SvcInv' /\ ChrInv'
  BY <1>6 DEF SvcInv, ChrInv
<1>11. Targets'
  <2>1. Targets
    BY DEF IInv
  <2>2. OurChrs("IND")' = OurChrs("IND") /\ OurChrs("RECV")' = OurChrs("RECV")
    BY <1>7 DEF OurChrs, Chrs
  <2>3. app'.RECV_VAL # 0 => GoodRecv(app.RECV_VAL)'
    BY <1>6, <2>1, <2>2 DEF Targets, GoodRecv
  <2>4. \A w \in hits : GoodWrite(w[1], w[2])'
    BY <2>1, <2>2 DEF Targets, GoodWrite, GoodRecv, GoodCccd
  <2>5. DOMAIN procs' = {}
    OBVIOUS
  <2> QED
    BY <1>6, <1>7, <2>1, <2>2, <2>3, <2>4, <2>5 DEF Targets
<1>12. Counted'
  <2>1. Counted
    BY DEF IInv
  <2>2. ASSUME program = "calls", hooked, NEW op \in Ops
        PROVE  app'.completed[op] + Cardinality(Pending(op)') = calls[op]
    <3>1. DOMAIN procs = 1..Len(procs) /\ Len(procs) \in Nat
      BY <1>2, LenProperties
    <3>2. \A i \in 1..Len(procs) : procs[i].op \in Ops
      BY <2>1, <2>2, <3>1 DEF Counted
    <3>3. r.completed[op] = a.completed[op] + Cardinality(OfKind(Len(procs), op))
      BY <1>3, <2>2, <3>2 DEF Adds
    <3>4. Pending(op) = OfKind(Len(procs), op)
      BY <3>1 DEF Pending, OfKind
    <3>5. a.completed[op] + Cardinality(Pending(op)) = calls[op]
      BY <1>0, <2>1, <2>2 DEF Counted, CompletedOnce
    <3>6. Pending(op)' = {}
      BY DEF Pending
    <3>7. Cardinality(Pending(op)') = 0
      BY <3>6, FS_EmptySet
    <3>8. r.completed[op] = calls[op] /\ calls[op] \in Nat
      BY <3>3, <3>4, <3>5 DEF IInv, Typed
    <3> QED
      BY <1>1, <3>7, <3>8
  <2>3. CompletedOnce'
    BY <1>7, <2>2 DEF CompletedOnce
  <2> QED
    BY <2>3 DEF Counted
<1>13. Looked'
  BY <1>6, <1>7 DEF IInv, Looked
<1>14. PeerNamed'
  BY <1>6, <1>7 DEF IInv, PeerNamed
<1>15. Control'
  BY <1>6, <1>7 DEF IInv, Control
<1>16. Ready'
  <2>1. pc \notin {"sync", "scan", "round"}
    BY <1>2 DEF IInv, Control
  <2> QED
    BY <1>6, <1>7, <2>1 DEF Ready, Blamed
<1>17. EndsForCause'
  BY <1>7 DEF EndsForCause
<1> QED
  BY <1>8, <1>9, <1>10, <1>11, <1>12, <1>13, <1>14, <1>15, <1>16, <1>17 DEF IInv

\* The link is lost.
LEMMA LinkLossStep ==
  ASSUME IInv, LinkLoss
  PROVE  IInv'
<1>1. /\ host.conn # NONE /\ pc # "ended" /\ app' = Broken(app) /\ procs' = << >>
      /\ faults' = faults /\ resets' = resets /\ UNCHANGED <<program, pc, peer, hooked, history>>
  BY DEF LinkLoss, bounds
<1>2. ~host.scanning /\ ~host.connecting
  BY <1>1 DEF IInv, Control
<1>3. host'.conn = NONE /\ ~host'.scanning /\ ~host'.connecting /\ DOMAIN host' = HostFields
  BY <1>2 DEF LinkLoss, IInv, Typed, HostFields
<1>4. resets' \in Nat
  BY <1>1 DEF IInv, Typed
<1> QED
  BY <1>1, <1>3, <1>4, BreakStep

\* The host is reset.
LEMMA ResetStep ==
  ASSUME IInv, on_reset
  PROVE  IInv'
<1>1. /\ pc # "ended" /\ procs' = << >> /\ faults' = faults /\ resets' = resets + 1
      /\ program' = program /\ pc' = pc /\ peer' = peer /\ hooked' = hooked
      /\ named' = named /\ hits' = hits /\ calls' = calls
  BY DEF on_reset, history
<1>2. faults' \in Nat /\ resets' \in Nat /\ resets' > 0
  BY <1>1 DEF IInv, Typed
<1>3. ~host'.synced /\ host'.conn = NONE /\ ~host'.scanning /\ ~host'.connecting /\ DOMAIN host' = HostFields
  BY DEF on_reset, HostFields
<1> DEFINE a == IF host.conn # NONE THEN Broken(app) ELSE app
           b == IF host.scanning THEN gap_event_cb(a, [type |-> "DiscoveryComplete"]) ELSE a
           c == IF host.connecting
                THEN gap_event_cb(b, [type |-> "Connect", conn |-> NONE, ok |-> FALSE]) ELSE b
<1>4. app' = c
  <2>1. app' = on_host_event(c, "Reset")
    BY DEF on_reset
  <2> HIDE DEF c
  <2> QED
    BY <2>1 DEF on_host_event
<1>5. CASE host.conn # NONE
  <2>1. ~host.scanning /\ ~host.connecting
    BY <1>5 DEF IInv, Control
  <2>2. app' = Broken(app)
    BY <1>4, <1>5, <2>1
  <2>3. UNCHANGED <<program, pc, peer, hooked, history>>
    BY <1>1 DEF history
  <2> QED
    BY <1>1, <1>2, <1>3, <1>5, <2>2, <2>3, BreakStep
<1>6. CASE host.connecting
  <2>1. host.conn = NONE /\ ~host.scanning /\ pc = "connect" /\ program \in Clients /\ procs = << >>
    BY <1>6 DEF IInv, Control
  <2>2. PICK ev : ev = [type |-> "Connect", conn |-> NONE, ok |-> FALSE]
    OBVIOUS
  <2>3. app' = gap_event_cb(app, ev)
    BY <1>4, <1>6, <2>1, <2>2
  <2>4. ev.type = "Connect" /\ ev.conn = NONE /\ ~ev.ok
    BY <2>2
  <2>5. UNCHANGED <<program, pc, procs, peer, hooked, history>>
    BY <1>1, <2>1 DEF history
  <2> QED
    BY <1>2, <1>3, <1>6, <2>1, <2>3, <2>4, <2>5, ConnectFails
<1>7. CASE host.conn = NONE /\ ~host.connecting
  <2>1. PICK x : x = app
    OBVIOUS
  <2>2. PICK r : r = app'
    OBVIOUS
  <2>3. DOMAIN x = AppFields /\ procs = << >>
    BY <1>7, <2>1 DEF IInv, Typed, Control
  <2>4. Same(x, r, {"ROUND_DONE"}) /\ (program \in Clients => r = x)
    <3>1. CASE host.scanning
      <4>1. r = gap_event_cb(x, [type |-> "DiscoveryComplete"])
        BY <1>4, <1>7, <2>1, <2>2, <3>1
      <4> QED
        BY <2>3, <4>1, CompleteEvent
    <3>2. CASE ~host.scanning
      <4>1. r = x
        BY <1>4, <1>7, <2>1, <2>2, <3>2
      <4> QED
        BY <2>3, <4>1 DEF Same
    <3> QED
      BY <3>1, <3>2
  <2>5. r.SYNCED = x.SYNCED /\ r.PEER = x.PEER /\ r.CONN = x.CONN /\ r.CONNECTED = x.CONNECTED
    BY <2>4 DEF Same, AppFields
  <2>6. Same(app, app', Apart)
    <3>1. Same(x, r, Apart)
      BY <2>4, SameWeaker DEF Apart
    <3> QED
      BY <2>1, <2>2, <3>1
  <2>7. /\ app'.SVC_RANGE = app.SVC_RANGE /\ app'.SVC_DONE = app.SVC_DONE
        /\ app'.RECV_VAL = app.RECV_VAL /\ app'.IND_VAL = app.IND_VAL
        /\ app'.CHR_DONE = app.CHR_DONE /\ app'.DISCONNECTED = app.DISCONNECTED
        /\ app'.PEER = app.PEER /\ app'.CONN = app.CONN /\ app'.CONNECTED = app.CONNECTED
    BY <2>1, <2>2, <2>5, <2>6, SameFields
  <2>8. procs' = procs
    BY <1>1, <2>3
  <2>9. Typed'
    BY <1>1, <1>2, <1>3, <2>6, <2>8, TypedFrame DEF IInv, Typed, PCs
  <2>10. Data'
    BY <1>1, <2>6, <2>8, Frame DEF IInv, Data
  <2>11. PeerNamed'
    BY <1>1, <2>7 DEF IInv, PeerNamed
  <2>12. Control'
    BY <1>1, <1>3, <1>7, <2>7, <2>8 DEF IInv, Control
  <2>13. Ready'
    BY <1>1, <1>2, <1>3, <1>7, <2>7 DEF IInv, Ready, Blamed
  <2>14. EndsForCause'
    BY <1>1 DEF EndsForCause
  <2> QED
    BY <2>9, <2>10, <2>11, <2>12, <2>13, <2>14 DEF IInv, Data
<1> QED
  BY <1>5, <1>6, <1>7

-----------------------------------------------------------------------------
(* The calls of the clients.                                               *)

\* The answer to a call on the connection.
LEMMA CallFacts ==
  ASSUME NEW conn, NEW o \in ble_gattc(conn), faults \in Nat, Spend(o[2])
  PROVE  /\ faults' \in Nat /\ (faults' > 0 \/ faults' = faults)
         /\ o[1] = "OK" => host.conn # NONE /\ conn = host.conn /\ faults' = faults
         /\ o[1] # "OK" => faults' > 0 \/ host.conn = NONE \/ conn # host.conn \/ Len(procs) = MaxProcs
<1>1. PICK rc : /\ o \in Outcomes(rc)
                /\ rc = IF host.conn = NONE \/ conn # host.conn THEN "ENOTCONN"
                        ELSE IF Len(procs) = MaxProcs THEN "ENOMEM" ELSE "OK"
  BY DEF ble_gattc
<1>2. /\ o[1] = "OK" => rc = "OK" /\ o[2] = 0
      /\ o[1] # "OK" => o[2] = 1 \/ rc # "OK"
      /\ o[2] \in {0, 1}
  BY <1>1, OutcomeFacts
<1>3. PICK n \in {0, 1} : n = o[2]
  BY <1>2
<1>4. faults' = faults + n
  BY <1>3 DEF Spend
<1>5. faults' \in Nat /\ (faults' > 0 \/ faults' = faults) /\ (n = 0 => faults' = faults) /\ (n = 1 => faults' > 0)
  BY <1>3, <1>4
<1>6. o[1] = "OK" => host.conn # NONE /\ conn = host.conn
  BY <1>1, <1>2
<1>7. o[1] # "OK" => n = 1 \/ host.conn = NONE \/ conn # host.conn \/ Len(procs) = MaxProcs
  BY <1>1, <1>2, <1>3
<1> QED
  BY <1>2, <1>3, <1>5, <1>6, <1>7

\* A call that the program depends on fails, for a reason.
LEMMA CallFailed ==
  ASSUME IInv, pc \in {"connect", "services", "chrs"}, NEW conn, conn = app.CONN,
         pc = "connect" => app.CONNECTED, ~app.DISCONNECTED => procs = << >>,
         NEW o \in ble_gattc(conn), Spend(o[2]), o[1] # "OK",
         pc' = "ended", UNCHANGED <<program, app, host, procs, peer, hooked, history, resets>>
  PROVE  IInv'
<1>1. /\ faults' \in Nat /\ (faults' > 0 \/ faults' = faults)
      /\ o[1] # "OK" => faults' > 0 \/ host.conn = NONE \/ conn # host.conn \/ Len(procs) = MaxProcs
  BY CallFacts DEF IInv, Typed
<1>2. app.DISCONNECTED \/ faults' > 0 \/ resets > 0
  <2>1. app.DISCONNECTED \/ Len(procs) # MaxProcs
    <3>1. procs = << >> => Len(procs) = 0
      OBVIOUS
    <3> QED
      BY <3>1, GattClientAssumption
  <2>2. faults > 0 \/ resets > 0 \/ app.DISCONNECTED \/ (host.conn # NONE /\ app.CONN = host.conn)
    BY DEF IInv, Ready, Blamed
  <2>3. faults > 0 => faults' > 0
    BY <1>1
  <2> QED
    BY <1>1, <2>1, <2>2, <2>3
<1>3. EndsForCause'
  BY <1>2 DEF EndsForCause
<1>4. ~host.scanning /\ ~host.connecting
  BY DEF IInv, Control
<1> QED
  BY <1>1, <1>3, <1>4, EndStep

\* A procedure is taken on: the types, and the sequence of procedures.
LEMMA Asked ==
  ASSUME IInv, NEW p \in Procs, procs' = Append(procs, p), pc' \in PCs, calls' \in [Ops -> Nat],
         faults' \in Nat, UNCHANGED <<program, app, host, peer, resets>>
  PROVE  /\ Typed'
         /\ Len(procs) \in Nat /\ DOMAIN procs = 1..Len(procs) /\ DOMAIN procs' = 1..(Len(procs) + 1)
         /\ \A i \in 1..Len(procs) : procs'[i] = procs[i]
         /\ procs'[Len(procs) + 1] = p
<1>1. procs \in Seq(Procs)
  BY DEF IInv, Typed
<1>2. /\ Append(procs, p) \in Seq(Procs)
      /\ Len(procs) \in Nat /\ DOMAIN procs = 1..Len(procs) /\ DOMAIN Append(procs, p) = 1..(Len(procs) + 1)
      /\ \A i \in 1..Len(procs) : Append(procs, p)[i] = procs[i]
      /\ Append(procs, p)[Len(procs) + 1] = p
  BY <1>1, AppendProperties, LenProperties
<1>3. Typed'
  BY <1>2 DEF IInv, Typed, PCs
<1> QED
  BY <1>2, <1>3

\* The same, when it is the only one.
LEMMA AskedFirst ==
  ASSUME IInv, NEW p \in Procs, procs = << >>, procs' = Append(procs, p), pc' \in PCs,
         UNCHANGED <<program, app, host, peer, resets, calls, faults>>
  PROVE  /\ Typed'
         /\ procs' = <<p>> /\ DOMAIN procs' = {1} /\ procs'[1] = p /\ Len(procs') = 1 /\ procs' # << >>
<1>1. calls' \in [Ops -> Nat] /\ faults' \in Nat
  BY DEF IInv, Typed
<1>2. Typed'
  BY <1>1, Asked
<1>3. procs' = <<p>>
  OBVIOUS
<1> QED
  BY <1>2, <1>3

\* Where our characteristics are depends on the peer alone.
LEMMA SamePeer ==
  ASSUME peer' = peer
  PROVE  /\ \A u : OurChrs(u)' = OurChrs(u) /\ Chrs(u)' = Chrs(u)
         /\ \A v : (GoodRecv(v)' <=> GoodRecv(v)) /\ (GoodCccd(v)' <=> GoodCccd(v))
         /\ \A u, v : GoodWrite(u, v)' <=> GoodWrite(u, v)
         /\ \A p : GoodProc(p)' <=> GoodProc(p)
<1>1. ASSUME NEW u PROVE OurChrs(u)' = OurChrs(u) /\ Chrs(u)' = Chrs(u)
  BY DEF OurChrs, Chrs
<1>2. ASSUME NEW v PROVE (GoodRecv(v)' <=> GoodRecv(v)) /\ (GoodCccd(v)' <=> GoodCccd(v))
  BY <1>1 DEF GoodRecv, GoodCccd
<1>3. ASSUME NEW u, NEW v PROVE GoodWrite(u, v)' <=> GoodWrite(u, v)
  BY <1>2 DEF GoodWrite
<1>4. ASSUME NEW p PROVE GoodProc(p)' <=> GoodProc(p)
  BY <1>1, <1>3 DEF GoodProc
<1> QED
  BY <1>1, <1>2, <1>3, <1>4

\* A procedure that is good leaves what is written where it was.
LEMMA TargetsAsked ==
  ASSUME IInv, NEW p \in Procs, GoodProc(p), peer' = peer, app' = app, hits' = hits,
         DOMAIN procs' = 1..(Len(procs) + 1), DOMAIN procs = 1..Len(procs), Len(procs) \in Nat,
         \A i \in 1..Len(procs) : procs'[i] = procs[i],
         procs'[Len(procs) + 1] = p,
         pc' = "loop" => app.RECV_VAL # 0 /\ \A i \in DOMAIN procs' : procs'[i].op = "write"
  PROVE  Targets'
<1>1. Targets
  BY DEF IInv
<1>2. app'.RECV_VAL # 0 => GoodRecv(app.RECV_VAL)'
  BY <1>1, SamePeer DEF Targets, GoodRecv
<1>3. app'.IND_VAL # 0 => \E c \in OurChrs("IND")' : c.val = app'.IND_VAL
  BY <1>1, SamePeer DEF Targets
<1>4. ASSUME NEW i \in DOMAIN procs' PROVE GoodProc(procs[i])'
  <2>1. GoodProc(procs'[i])
    BY <1>1, <1>4 DEF Targets
  <2>2. PICK q : q = procs'[i]
    OBVIOUS
  <2>3. GoodProc(q)'
    BY <2>1, <2>2, SamePeer
  <2> QED
    BY <2>2, <2>3
<1>5. \A w \in hits' : GoodWrite(w[1], w[2])'
  <2>1. \A u, v : GoodWrite(u, v)' <=> GoodWrite(u, v)
    BY SamePeer
  <2> QED
    BY <1>1, <2>1 DEF Targets
<1> QED
  BY <1>2, <1>3, <1>4, <1>5 DEF Targets

\* The client asks for the services of its peer.
LEMMA DiscoverServicesStep ==
  ASSUME IInv, DiscoverServices
  PROVE  IInv'
<1>1. /\ pc = "connect" /\ app.CONNECTED
      /\ program' = program /\ app' = app /\ host' = host /\ peer' = peer
      /\ hooked' = hooked /\ named' = named /\ hits' = hits /\ calls' = calls /\ resets' = resets
  BY DEF DiscoverServices, history
<1>2. /\ program \in Clients /\ ~host.scanning /\ ~host.connecting /\ procs = << >>
      /\ app.SVC_RANGE = NONE /\ ~app.SVC_DONE /\ ~app.CHR_DONE
  BY <1>1 DEF IInv, Control
<1>3. PeerNamed'
  BY <1>1 DEF IInv, PeerNamed
<1>4. CASE program = "calls"
  <2>1. pc' = "calls" /\ procs' = procs /\ faults' = faults
    BY <1>4 DEF DiscoverServices
  <2>2. Same(app, app', Apart)
    BY <1>1, AppSame DEF IInv
  <2>3. Typed'
    BY <1>1, <2>1, <2>2, TypedFrame DEF IInv, Typed, PCs
  <2>4. Data'
    BY <1>1, <2>1, <2>2, Frame DEF IInv, Data
  <2>5. Control'
    BY <1>1, <1>2, <1>4, <2>1 DEF IInv, Control
  <2>6. Ready' /\ EndsForCause'
    BY <2>1 DEF Ready, EndsForCause
  <2> QED
    BY <1>3, <2>3, <2>4, <2>5, <2>6 DEF IInv, Data
<1>5. CASE program # "calls"
  <2>1. PICK p : p = discover_services(app.CONN)
    OBVIOUS
  <2>2. PICK o \in ble_gattc(app.CONN) :
          /\ Spend(o[2])
          /\ IF o[1] = "OK" THEN pc' = "services" /\ procs' = Append(procs, p)
             ELSE pc' = "ended" /\ UNCHANGED procs
    BY <1>5, <2>1 DEF DiscoverServices, Depends
  <2>3. CASE o[1] # "OK"
    <3>1. pc' = "ended" /\ procs' = procs
      BY <2>2, <2>3
    <3>2. UNCHANGED <<program, app, host, procs, peer, hooked, history, resets>>
      BY <1>1, <3>1 DEF history
    <3>3. PICK conn : conn = app.CONN
      OBVIOUS
    <3> QED
      BY <1>1, <1>2, <2>2, <2>3, <3>1, <3>2, <3>3, CallFailed
  <2>4. CASE o[1] = "OK"
    <3>1. pc' = "services" /\ procs' = Append(procs, p)
      BY <2>2, <2>4
    <3>2. host.conn # NONE /\ app.CONN = host.conn /\ faults' = faults
      BY <2>2, <2>4, CallFacts DEF IInv, Typed
    <3>3. /\ View[peer].groups \in Seq(Groups) /\ Len(View[peer].groups) = Len(peer) /\ Len(peer) \in Nat
      BY ViewFacts DEF IInv
    <3>4. PICK g \in Seq(Groups) : g = View[peer].groups
      BY <3>3
    <3>5. p = [op |-> "services", items |-> g]
      BY <2>1, <3>4 DEF discover_services
    <3>6. p \in Procs /\ p.op = "services"
      BY <3>5 DEF Procs
    <3>7. /\ Typed'
          /\ procs' = <<p>> /\ DOMAIN procs' = {1} /\ procs'[1] = p /\ Len(procs') = 1 /\ procs' # << >>
      BY <1>1, <1>2, <3>1, <3>2, <3>6, AskedFirst DEF PCs
    <3>8. SvcInv'
      <4>1. g = SubSeq(g, 0 + 1, Len(peer))
        BY <3>3, <3>4, SubSeqFull
      <4>2. procs' = <<[op |-> "services", items |-> SubSeq(View[peer].groups, 0 + 1, Len(peer))]>>
        BY <3>4, <3>5, <3>7, <4>1
      <4>3. RangeAfter(0)'
        BY <1>1, <1>2 DEF RangeAfter
      <4>4. 0 \in 0..Len(peer)
        BY <3>3
      <4> QED
        BY <1>1, <1>2, <4>2, <4>3, <4>4 DEF SvcInv
    <3>9. Targets'
      <4>1. GoodProc(p)
        BY <3>6 DEF GoodProc
      <4>2. Len(procs) = 0
        BY <1>2
      <4> QED
        BY <1>1, <1>2, <3>1, <3>6, <3>7, <4>1, <4>2, TargetsAsked
    <3>10. OurRange'
      BY <1>1, <1>2 DEF OurRange
    <3>11. ChrInv' /\ Looked'
      BY <3>1 DEF ChrInv, Looked
    <3>12. Counted'
      BY <1>1, <1>5 DEF Counted, CompletedOnce
    <3>13. Control'
      BY <1>1, <1>2, <1>5, <3>1, <3>2 DEF IInv, Control
    <3>14. Ready'
      BY <1>1, <3>1, <3>2 DEF Ready
    <3>15. EndsForCause'
      BY <3>1 DEF EndsForCause
    <3> QED
      BY <1>3, <3>7, <3>8, <3>9, <3>10, <3>11, <3>12, <3>13, <3>14, <3>15 DEF IInv
  <2> QED
    BY <2>3, <2>4
<1> QED
  BY <1>4, <1>5

\* The client goes on to the characteristics of the last service of ours.
LEMMA DiscoverCharacteristicsStep ==
  ASSUME IInv, DiscoverCharacteristics
  PROVE  IInv'
<1>1. /\ pc = "services" /\ app.SVC_DONE
      /\ program' = program /\ app' = app /\ host' = host /\ peer' = peer
      /\ hooked' = hooked /\ named' = named /\ hits' = hits /\ calls' = calls /\ resets' = resets
  BY DEF DiscoverCharacteristics, history
<1>2. program \in Clients /\ program # "calls" /\ ~host.scanning /\ ~host.connecting
  BY <1>1 DEF IInv, Control
<1>3. PeerNamed'
  BY <1>1 DEF IInv, PeerNamed
<1>4. ~app.DISCONNECTED => procs = << >> /\ RangeAfter(Len(peer)) /\ ~app.CHR_DONE
  BY <1>1 DEF IInv, SvcInv
<1>5. /\ peer \in Seq(Services) /\ Len(peer) \in Nat /\ DOMAIN peer = 1..Len(peer)
      /\ View[peer].chrs = Attributes(peer)
      /\ \A i \in 1..Len(peer) :
           /\ RangeOf(i) \in Ranges
           /\ RangeOf(i).start = Group(peer, i).start /\ RangeOf(i).end = Group(peer, i).end
  BY ViewFacts DEF IInv
<1>6. CASE app.SVC_RANGE = NONE
  <2>1. pc' = "ended" /\ procs' = procs /\ faults' = faults
    BY <1>6 DEF DiscoverCharacteristics
  <2>2. app.DISCONNECTED \/ Unfit
    <3>1. RangeAfter(Len(peer)) => \A j \in 1..Len(peer) : peer[j].uuid # "SVC"
      BY <1>5, <1>6, GattClientAssumption DEF RangeAfter
    <3> QED
      BY <1>4, <1>5, <3>1 DEF Unfit, IsLastOurs
  <2>3. Unfit => Unfit'
    BY <1>1 DEF Unfit, IsLastOurs, Chrs
  <2>4. EndsForCause'
    BY <1>1, <1>2, <2>2, <2>3 DEF EndsForCause
  <2>5. faults' \in Nat
    BY <2>1 DEF IInv, Typed
  <2>6. UNCHANGED <<program, app, procs, peer, hooked, history, resets>>
    BY <1>1, <2>1 DEF history
  <2> QED
    BY <1>1, <1>2, <2>1, <2>4, <2>5, <2>6, EndStep
<1>7. CASE app.SVC_RANGE # NONE
  <2>1. PICK p : p = discover_characteristics(app.CONN, app.SVC_RANGE)
    OBVIOUS
  <2>2. PICK o \in ble_gattc(app.CONN) :
          /\ Spend(o[2])
          /\ IF o[1] = "OK" THEN pc' = "chrs" /\ procs' = Append(procs, p)
             ELSE pc' = "ended" /\ UNCHANGED procs
    BY <1>7, <2>1 DEF DiscoverCharacteristics, Depends
  <2>3. CASE o[1] # "OK"
    <3>1. pc' = "ended" /\ procs' = procs
      BY <2>2, <2>3
    <3>2. UNCHANGED <<program, app, host, procs, peer, hooked, history, resets>>
      BY <1>1, <3>1 DEF history
    <3>3. PICK conn : conn = app.CONN
      OBVIOUS
    <3> QED
      BY <1>1, <1>4, <2>2, <2>3, <3>1, <3>2, <3>3, CallFailed
  <2>4. CASE o[1] = "OK"
    <3>1. pc' = "chrs" /\ procs' = Append(procs, p)
      BY <2>2, <2>4
    <3>2. host.conn # NONE /\ app.CONN = host.conn /\ faults' = faults
      BY <2>2, <2>4, CallFacts DEF IInv, Typed
    <3>3. ~app.DISCONNECTED
      BY <3>2 DEF IInv, Control
    <3>4. PICK i \in 1..Len(peer) : /\ peer[i].uuid = "SVC" /\ app.SVC_RANGE = RangeOf(i)
                                    /\ \A j \in (i + 1)..Len(peer) : peer[j].uuid # "SVC"
      BY <1>4, <1>7, <3>3 DEF RangeAfter
    <3>5. PICK range : range = RangeOf(i)
      OBVIOUS
    <3>6. range.start = Group(peer, i).start /\ range.end = Group(peer, i).end
      BY <1>5, <3>5
    <3>7. PICK chrs \in Seq(Attrs) : chrs = Attributes(peer)
      BY <1>5, GroupFacts
    <3>8. PICK items \in Seq(Attrs) :
            items = Within(chrs, range) /\ ToSet(items) = {c \in ToSet(chrs) : c.def \in range.start..range.end}
      BY WithinFacts
    <3>9. \A c \in ToSet(chrs) : c \in ToSet(items) <=> c.svc = i
      BY <1>5, <3>6, <3>7, <3>8, GroupFacts
    <3>10. p = [op |-> "characteristics", items |-> items]
      BY <1>5, <2>1, <3>4, <3>5, <3>7, <3>8 DEF discover_characteristics
    <3>11. p \in Procs /\ p.op = "characteristics" /\ p.items = items
      BY <3>10 DEF Procs
    <3>12. /\ Typed'
           /\ procs' = <<p>> /\ DOMAIN procs' = {1} /\ procs'[1] = p /\ Len(procs') = 1 /\ procs' # << >>
      BY <1>1, <1>4, <3>1, <3>2, <3>3, <3>11, AskedFirst DEF PCs
    <3>13. ChrInv'
      <4>1. IsLastOurs(i)'
        BY <1>1, <1>5, <3>4 DEF IsLastOurs
      <4>2. Coming' = items
        BY <3>11, <3>12 DEF Coming
      <4>3. ASSUME NEW uuid, NEW val PROVE Awaits(i, uuid, val)'
        BY <1>1, <1>5, <3>7, <3>9, <4>2 DEF Awaits, Chrs
      <4>4. Awaits(i, "RECV", app.RECV_VAL)' /\ Awaits(i, "IND", app.IND_VAL)'
        BY <4>3
      <4>5. i \in DOMAIN peer' /\ ~app'.CHR_DONE
        BY <1>1, <1>4, <1>5, <3>3
      <4> QED
        BY <3>11, <3>12, <4>1, <4>4, <4>5 DEF ChrInv
    <3>14. Targets'
      <4>1. GoodProc(p)
        <5>1. ASSUME NEW c \in ToSet(items) PROVE c \in OurChrs(c.uuid)
          <6>1. c \in ToSet(chrs) /\ c.svc = i
            BY <3>8, <3>9, <5>1
          <6> QED
            BY <1>5, <3>4, <3>7, <6>1 DEF OurChrs, Chrs
        <5> QED
          BY <3>11, <5>1 DEF GoodProc
      <4>2. Len(procs) = 0
        BY <1>4, <3>3
      <4> QED
        BY <1>1, <1>4, <3>1, <3>3, <3>11, <3>12, <4>1, <4>2, TargetsAsked
    <3>15. OurRange'
      BY <1>1 DEF IInv, OurRange, RangeOf
    <3>16. SvcInv' /\ Looked'
      BY <1>1, <3>1 DEF SvcInv, Looked
    <3>17. Counted'
      BY <1>1, <1>2 DEF Counted, CompletedOnce
    <3>18. Control'
      BY <1>1, <1>2, <3>1, <3>2 DEF IInv, Control
    <3>19. Ready'
      BY <1>1, <3>1, <3>2 DEF Ready
    <3>20. EndsForCause'
      BY <3>1 DEF EndsForCause
    <3> QED
      BY <1>3, <3>12, <3>13, <3>14, <3>15, <3>16, <3>17, <3>18, <3>19, <3>20 DEF IInv
  <2> QED
    BY <2>3, <2>4
<1> QED
  BY <1>6, <1>7

\* A write is a procedure.
LEMMA WriteProc ==
  ASSUME NEW conn, NEW purpose \in {"recv", "subscribe", "any"}, NEW v \in Nat, NEW p, p = write(conn, purpose, v)
  PROVE  p \in Procs /\ p.op = "write" /\ p.purpose = purpose /\ p.handle = v
<1>1. p = [op |-> "write", items |-> << >>, purpose |-> purpose, handle |-> v]
  BY DEF write
<1>2. p \in [op : {"write"}, items : {<< >>}, purpose : {"recv", "subscribe", "any"}, handle : Nat]
  BY <1>1
<1> QED
  BY <1>1, <1>2 DEF Procs

\* The client subscribes, when it has found what it needs.
LEMMA SubscribeStep ==
  ASSUME IInv, Subscribe
  PROVE  IInv'
<1>1. /\ pc = "chrs" /\ app.CHR_DONE
      /\ program' = program /\ app' = app /\ host' = host /\ peer' = peer
      /\ hooked' = hooked /\ named' = named /\ hits' = hits /\ calls' = calls /\ resets' = resets
  BY DEF Subscribe, history
<1>2. program \in Clients /\ program # "calls" /\ ~host.scanning /\ ~host.connecting /\ app.SVC_DONE
  BY <1>1 DEF IInv, Control, Looked
<1>3. PeerNamed'
  BY <1>1 DEF IInv, PeerNamed
<1>4. ~app.DISCONNECTED => procs = << >> /\
        \E i \in DOMAIN peer :
          IsLastOurs(i) /\ Awaits(i, "RECV", app.RECV_VAL) /\ Awaits(i, "IND", app.IND_VAL)
  BY <1>1 DEF IInv, ChrInv
<1>5. CASE app.RECV_VAL = 0 \/ app.IND_VAL = 0
  <2>1. pc' = "ended" /\ procs' = procs /\ faults' = faults
    BY <1>5 DEF Subscribe
  <2>2. app.DISCONNECTED \/ Unfit
    <3> SUFFICES ASSUME ~app.DISCONNECTED PROVE Unfit
      OBVIOUS
    <3>1. PICK i \in DOMAIN peer :
            IsLastOurs(i) /\ Awaits(i, "RECV", app.RECV_VAL) /\ Awaits(i, "IND", app.IND_VAL)
      BY <1>4
    <3>2. PICK uuid \in {"RECV", "IND"} : Awaits(i, uuid, 0)
      BY <1>5, <3>1
    <3>3. ToSet(Coming) = {}
      BY <1>4 DEF Coming, ToSet
    <3>4. \A c \in Chrs(uuid) : c.svc # i
      BY <3>2, <3>3 DEF Awaits
    <3>5. ASSUME NEW k \in DOMAIN peer, IsLastOurs(k) PROVE k = i
      <4>1. DOMAIN peer = 1..Len(peer) /\ Len(peer) \in Nat
        BY ViewFacts DEF IInv
      <4>2. ~(k > i) /\ ~(i > k) /\ k \in Nat /\ i \in Nat
        BY <3>1, <3>5, <4>1 DEF IsLastOurs
      <4> QED
        BY <4>2
    <3> QED
      BY <3>4, <3>5 DEF Unfit
  <2>3. Unfit => Unfit'
    BY <1>1 DEF Unfit, IsLastOurs, Chrs
  <2>4. EndsForCause'
    BY <1>1, <1>2, <2>2, <2>3 DEF EndsForCause
  <2>5. faults' \in Nat
    BY <2>1 DEF IInv, Typed
  <2>6. UNCHANGED <<program, app, procs, peer, hooked, history, resets>>
    BY <1>1, <2>1 DEF history
  <2> QED
    BY <1>1, <1>2, <2>1, <2>4, <2>5, <2>6, EndStep
<1>6. CASE app.RECV_VAL # 0 /\ app.IND_VAL # 0
  <2>1. PICK p : p = write(app.CONN, "subscribe", app.IND_VAL + 1)
    OBVIOUS
  <2>2. PICK o \in ble_gattc(app.CONN) :
          /\ Spend(o[2])
          /\ IF o[1] = "OK" THEN /\ pc' = IF app.DISCONNECTED THEN "ended" ELSE "loop"
                                 /\ procs' = Append(procs, p)
             ELSE pc' = "ended" /\ UNCHANGED procs
    BY <1>6, <2>1 DEF Subscribe, Depends
  <2>3. CASE o[1] # "OK"
    <3>1. pc' = "ended" /\ procs' = procs
      BY <2>2, <2>3
    <3>2. UNCHANGED <<program, app, host, procs, peer, hooked, history, resets>>
      BY <1>1, <3>1 DEF history
    <3>3. PICK conn : conn = app.CONN
      OBVIOUS
    <3> QED
      BY <1>1, <1>4, <2>2, <2>3, <3>1, <3>2, <3>3, CallFailed
  <2>4. CASE o[1] = "OK"
    <3>1. host.conn # NONE /\ app.CONN = host.conn /\ faults' = faults
      BY <2>2, <2>4, CallFacts DEF IInv, Typed
    <3>2. ~app.DISCONNECTED
      BY <3>1 DEF IInv, Control
    <3>3. pc' = "loop" /\ procs' = Append(procs, p)
      BY <2>2, <2>4, <3>2
    <3>4. PICK v \in Nat : v = app.IND_VAL
      BY DEF IInv, Typed
    <3>5. PICK u \in Nat : u = v + 1
      OBVIOUS
    <3>6. p \in Procs /\ p.op = "write" /\ p.purpose = "subscribe" /\ p.handle = v + 1
      BY <2>1, <3>4, <3>5, WriteProc
    <3>7. /\ Typed'
          /\ procs' = <<p>> /\ DOMAIN procs' = {1} /\ procs'[1] = p /\ Len(procs') = 1 /\ procs' # << >>
      BY <1>1, <1>4, <3>1, <3>2, <3>3, <3>6, AskedFirst DEF PCs
    <3>8. Targets'
      <4>1. GoodProc(p)
        <5>1. PICK c \in OurChrs("IND") : c.val = v
          BY <1>6, <3>4 DEF IInv, Targets
        <5>2. GoodCccd(v + 1)
          BY <5>1 DEF GoodCccd
        <5>3. GoodWrite("subscribe", v + 1)
          BY <5>2 DEF GoodWrite
        <5> QED
          BY <3>6, <5>3 DEF GoodProc
      <4>2. Len(procs) = 0
        BY <1>4, <3>2
      <4> QED
        BY <1>1, <1>4, <1>6, <3>2, <3>3, <3>6, <3>7, <4>1, <4>2, TargetsAsked
    <3>9. OurRange'
      BY <1>1 DEF IInv, OurRange, RangeOf
    <3>10. SvcInv' /\ ChrInv' /\ Looked'
      BY <1>1, <1>2, <3>3 DEF SvcInv, ChrInv, Looked
    <3>11. Counted'
      BY <1>1, <1>2 DEF Counted, CompletedOnce
    <3>12. Control'
      BY <1>1, <1>2, <3>1, <3>3 DEF IInv, Control
    <3>13. Ready'
      BY <1>1, <3>1, <3>3 DEF Ready
    <3>14. EndsForCause'
      BY <3>3 DEF EndsForCause
    <3> QED
      BY <1>3, <3>7, <3>8, <3>9, <3>10, <3>11, <3>12, <3>13, <3>14 DEF IInv
  <2> QED
    BY <2>3, <2>4
<1> QED
  BY <1>5, <1>6

\* The client writes its counter, until it notices that the server is gone.
LEMMA WriteLoopStep ==
  ASSUME IInv, WriteLoop
  PROVE  IInv'
<1>1. /\ pc = "loop" /\ pc' = IF app.DISCONNECTED THEN "ended" ELSE "loop"
      /\ program' = program /\ app' = app /\ host' = host /\ peer' = peer
      /\ hooked' = hooked /\ named' = named /\ hits' = hits /\ calls' = calls /\ resets' = resets
  BY DEF WriteLoop, history
<1>2. program \in Clients /\ program # "calls" /\ ~host.scanning /\ ~host.connecting
  BY <1>1 DEF IInv, Control
<1>3. PICK v \in Nat : v = app.RECV_VAL
  BY DEF IInv, Typed
<1>4. PICK p : p = write(app.CONN, "recv", v)
  OBVIOUS
<1>5. PICK o \in ble_gattc(app.CONN) :
        Spend(o[2]) /\ procs' = IF o[1] = "OK" THEN Append(procs, p) ELSE procs
  BY <1>3, <1>4 DEF WriteLoop
<1>6. /\ faults' \in Nat
      /\ o[1] = "OK" => host.conn # NONE /\ app.CONN = host.conn /\ faults' = faults
  BY <1>5, CallFacts DEF IInv, Typed
<1>7. EndsForCause'
  BY <1>1 DEF EndsForCause
<1>8. pc' \in {"loop", "ended"}
  BY <1>1
<1>9. CASE o[1] # "OK"
  <2>1. procs' = procs
    BY <1>5, <1>9
  <2>2. Same(app, app', Apart)
    BY <1>1, AppSame DEF IInv
  <2>3. Typed'
    BY <1>1, <1>6, <1>8, <2>1, <2>2, TypedFrame DEF IInv, Typed, PCs
  <2>4. Data'
    BY <1>1, <1>8, <2>1, <2>2, Frame DEF IInv, Data
  <2>5. PeerNamed'
    BY <1>1 DEF IInv, PeerNamed
  <2>6. Control'
    BY <1>1, <1>2, <1>8, <2>1 DEF IInv, Control
  <2>7. Ready'
    BY <1>1, <1>8 DEF IInv, Ready
  <2> QED
    BY <1>7, <2>3, <2>4, <2>5, <2>6, <2>7 DEF IInv, Data
<1>10. CASE o[1] = "OK"
  <2>1. procs' = Append(procs, p) /\ host.conn # NONE /\ ~app.DISCONNECTED /\ pc' = "loop"
    BY <1>1, <1>5, <1>6, <1>10 DEF IInv, Control
  <2>3. p \in Procs /\ p.op = "write" /\ p.purpose = "recv" /\ p.handle = v
    BY <1>4, WriteProc
  <2>4. calls' \in [Ops -> Nat]
    BY <1>1 DEF IInv, Typed
  <2>5. /\ Typed'
        /\ Len(procs) \in Nat /\ DOMAIN procs = 1..Len(procs) /\ DOMAIN procs' = 1..(Len(procs) + 1)
        /\ \A i \in 1..Len(procs) : procs'[i] = procs[i]
        /\ procs'[Len(procs) + 1] = p
    BY <1>1, <1>6, <2>1, <2>3, <2>4, Asked DEF PCs
  <2>6. Targets'
    <3>1. v # 0 /\ GoodRecv(v) /\ \A i \in DOMAIN procs : procs[i].op = "write"
      BY <1>1, <1>3 DEF IInv, Targets
    <3>2. GoodWrite("recv", v)
      BY <3>1 DEF GoodWrite
    <3>3. GoodProc(p)
      BY <2>3, <3>2 DEF GoodProc
    <3>4. app.RECV_VAL # 0 /\ \A i \in DOMAIN procs' : procs'[i].op = "write"
      BY <1>3, <2>3, <2>5, <3>1
    <3> QED
      BY <1>1, <2>3, <2>5, <3>3, <3>4, TargetsAsked
  <2>7. OurRange'
    BY <1>1 DEF IInv, OurRange, RangeOf
  <2>8. SvcInv' /\ ChrInv'
    BY <2>1 DEF SvcInv, ChrInv
  <2>9. Looked'
    BY <1>1, <2>1 DEF IInv, Looked
  <2>10. Counted'
    BY <1>1, <1>2 DEF Counted, CompletedOnce
  <2>11. PeerNamed'
    BY <1>1 DEF IInv, PeerNamed
  <2>12. Control'
    BY <1>1, <1>2, <2>1 DEF IInv, Control
  <2>13. Ready'
    BY <1>1, <1>8 DEF IInv, Ready
  <2> QED
    BY <1>7, <2>5, <2>6, <2>7, <2>8, <2>9, <2>10, <2>11, <2>12, <2>13 DEF IInv
<1> QED
  BY <1>9, <1>10

\* A call that promises a completion.
LEMMA CallStep ==
  ASSUME IInv, NEW op \in Ops, Call(op)
  PROVE  IInv'
<1>1. /\ pc = "calls" /\ program' = program /\ pc' = pc /\ app' = app /\ host' = host /\ peer' = peer
      /\ hooked' = hooked /\ named' = named /\ hits' = hits /\ resets' = resets
  BY DEF Call
<1>2. program = "calls" /\ ~host.scanning /\ ~host.connecting
  BY <1>1 DEF IInv, Control, Clients
<1>3. PICK p : p = IF op = "read" THEN read(app.CONN) ELSE write(app.CONN, "any", 0)
  OBVIOUS
<1>4. PICK o \in ble_gattc(app.CONN) :
        /\ Spend(o[2]) /\ procs' = IF o[1] # "OK" THEN procs ELSE Append(procs, p)
        /\ calls' = IF o[1] = "OK" THEN [calls EXCEPT ![op] = @ + 1] ELSE calls
  BY <1>3 DEF Call
<1>5. /\ faults' \in Nat /\ (faults' > 0 \/ faults' = faults)
      /\ o[1] = "OK" => host.conn # NONE /\ app.CONN = host.conn /\ faults' = faults
  BY <1>4, CallFacts DEF IInv, Typed
<1>6. PeerNamed' /\ Ready' /\ EndsForCause'
  BY <1>1 DEF IInv, PeerNamed, Ready, EndsForCause
<1>7. CASE o[1] # "OK"
  <2>1. procs' = procs /\ calls' = calls
    BY <1>4, <1>7
  <2>2. Same(app, app', Apart)
    BY <1>1, AppSame DEF IInv
  <2>3. Typed'
    BY <1>1, <1>5, <2>1, <2>2, TypedFrame DEF IInv, Typed, PCs
  <2>4. Data'
    BY <1>1, <2>1, <2>2, Frame DEF IInv, Data
  <2>5. Control'
    BY <1>1, <2>1 DEF IInv, Control
  <2> QED
    BY <1>6, <2>3, <2>4, <2>5 DEF IInv, Data
<1>8. CASE o[1] = "OK"
  <2>1. procs' = Append(procs, p) /\ host.conn # NONE /\ calls' = [calls EXCEPT ![op] = @ + 1]
    BY <1>4, <1>5, <1>8
  <2>2. p \in Procs /\ p.op = op /\ GoodProc(p)
    <3>1. CASE op = "read"
      <4>1. p = [op |-> "read", items |-> << >>]
        BY <1>3, <3>1 DEF read
      <4>2. p.op = "read"
        BY <4>1
      <4> QED
        BY <3>1, <4>1, <4>2 DEF Procs, GoodProc
    <3>2. CASE op = "write"
      <4>1. p = write(app.CONN, "any", 0)
        BY <1>3, <3>2
      <4>2. p.op = "write" /\ p.purpose = "any" /\ p.handle = 0 /\ p \in Procs
        BY <4>1, WriteProc
      <4>3. GoodWrite("any", 0)
        BY DEF GoodWrite
      <4> QED
        BY <3>2, <4>2, <4>3 DEF GoodProc
    <3> QED
      BY <3>1, <3>2 DEF Ops
  <2>3. PICK n \in [Ops -> Nat] : n = calls
    BY DEF IInv, Typed
  <2>4. calls' \in [Ops -> Nat] /\ \A q \in Ops : calls'[q] = calls[q] + IF op = q THEN 1 ELSE 0
    <3>1. calls' = [n EXCEPT ![op] = n[op] + 1] /\ n[op] + 1 \in Nat
      BY <2>1, <2>3
    <3>2. \A q \in Ops : n[q] \in Nat
      BY <2>3
    <3> QED
      BY <2>3, <3>1, <3>2
  <2>5. /\ Typed'
        /\ Len(procs) \in Nat /\ DOMAIN procs = 1..Len(procs) /\ DOMAIN procs' = 1..(Len(procs) + 1)
        /\ \A i \in 1..Len(procs) : procs'[i] = procs[i]
        /\ procs'[Len(procs) + 1] = p
    BY <1>1, <1>5, <2>1, <2>2, <2>4, Asked DEF PCs
  <2>6. Targets'
    BY <1>1, <2>2, <2>5, TargetsAsked
  <2>7. Counted'
    <3>1. \A i \in DOMAIN procs' : procs'[i].op \in Ops
      BY <1>2, <2>2, <2>5 DEF IInv, Counted
    <3>2. ASSUME hooked, NEW q \in Ops PROVE app.completed[q] + Cardinality(Pending(q)') = calls'[q]
      <4>1. procs \in Seq(Procs)
        BY DEF IInv, Typed
      <4>2. Pending(q) = Kind(procs, q) /\ Pending(q)' = Kind(Append(procs, p), q)
        BY <2>1 DEF Pending, Kind
      <4>3. Cardinality(Kind(Append(procs, p), q)) = Cardinality(Kind(procs, q)) + IF op = q THEN 1 ELSE 0
        BY <2>2, <4>1, KindAppend
      <4>4. PICK x \in Nat : x = Cardinality(Kind(procs, q))
        BY <4>1, KindType
      <4>5. PICK y \in Nat : y = app.completed[q]
        BY DEF IInv, Typed
      <4>6. PICK z \in Nat : z = calls[q]
        BY <2>3
      <4>7. y + x = z
        BY <1>2, <3>2, <4>2, <4>4, <4>5, <4>6 DEF IInv, Counted, CompletedOnce
      <4>8. y + (x + IF op = q THEN 1 ELSE 0) = z + IF op = q THEN 1 ELSE 0
        BY <4>7
      <4> QED
        BY <2>4, <4>2, <4>3, <4>4, <4>5, <4>6, <4>8
    <3>3. CompletedOnce'
      BY <1>1, <3>2 DEF CompletedOnce
    <3> QED
      BY <3>1, <3>3 DEF Counted
  <2>8. OurRange'
    BY <1>1 DEF IInv, OurRange, RangeOf
  <2>9. SvcInv' /\ ChrInv' /\ Looked'
    BY <1>1 DEF SvcInv, ChrInv, Looked
  <2>10. Control'
    BY <1>1, <2>1 DEF IInv, Control
  <2> QED
    BY <1>6, <2>5, <2>6, <2>7, <2>8, <2>9, <2>10 DEF IInv
<1> QED
  BY <1>7, <1>8

-----------------------------------------------------------------------------
(* The host works on the procedures.                                       *)

\* What a procedure does not touch.
LEMMA ProcFrame ==
  ASSUME IInv, UNCHANGED <<program, pc, host, peer, hooked, named, calls, bounds>>,
         pc \in {"services", "chrs", "loop", "calls"}, host.conn # NONE,
         Same(app, app', {"SVC_RANGE", "SVC_DONE", "CHR_DONE", "RECV_VAL", "IND_VAL", "completed"})
  PROVE  /\ PeerNamed' /\ Control' /\ Ready' /\ EndsForCause'
         /\ DOMAIN app' = AppFields /\ app'.DISCONNECTED = app.DISCONNECTED
<1>0. PICK a : a = app
  OBVIOUS
<1>1. PICK r : r = app'
  OBVIOUS
<1>2. Same(a, r, {"SVC_RANGE", "SVC_DONE", "CHR_DONE", "RECV_VAL", "IND_VAL", "completed"})
  BY <1>0, <1>1
<1>3. /\ r.SYNCED = a.SYNCED /\ r.PEER = a.PEER /\ r.CONN = a.CONN /\ r.CONNECTED = a.CONNECTED
      /\ r.ROUND_DONE = a.ROUND_DONE /\ r.DISCONNECTED = a.DISCONNECTED /\ DOMAIN r = AppFields
  BY <1>2 DEF Same, AppFields
<1>4. /\ app'.PEER = app.PEER /\ app'.CONN = app.CONN /\ app'.CONNECTED = app.CONNECTED
      /\ app'.DISCONNECTED = app.DISCONNECTED /\ DOMAIN app' = AppFields
  BY <1>0, <1>1, <1>3
<1>5. /\ program' = program /\ pc' = pc /\ host' = host /\ peer' = peer /\ hooked' = hooked
      /\ named' = named /\ faults' = faults /\ resets' = resets
  BY DEF bounds
<1>6. PeerNamed'
  BY <1>4, <1>5 DEF IInv, PeerNamed
<1>7. Control'
  BY <1>4, <1>5 DEF IInv, Control
<1>8. Ready'
  BY <1>4, <1>5 DEF IInv, Ready
<1>9. EndsForCause'
  BY <1>5 DEF EndsForCause
<1> QED
  BY <1>4, <1>6, <1>7, <1>8, <1>9

\* One more service is looked at.
LEMMA RangeGrows ==
  ASSUME Typed, peer' = peer, NEW k \in 0..(Len(peer) - 1), RangeAfter(k), NEW item,
         item = View[peer].groups[k + 1],
         app'.SVC_RANGE = IF item.uuid = "SVC" THEN [start |-> item.start, end |-> item.end]
                          ELSE app.SVC_RANGE
  PROVE  RangeAfter(k + 1)'
<1>1. /\ Len(peer) \in Nat
      /\ \A i \in 1..Len(peer) :
           /\ View[peer].groups[i].uuid = peer[i].uuid
           /\ RangeOf(i) = [start |-> View[peer].groups[i].start, end |-> View[peer].groups[i].end]
  BY ViewFacts
<1>2. k + 1 \in 1..Len(peer) /\ k + 1 \in 1..(k + 1)
  BY <1>1
<1>3. item.uuid = peer[k + 1].uuid /\ RangeOf(k + 1) = [start |-> item.start, end |-> item.end]
  BY <1>1, <1>2
<1>4. \A i : RangeOf(i)' = RangeOf(i)
  BY DEF RangeOf
<1>5. CASE item.uuid = "SVC"
  <2>1. peer'[k + 1].uuid = "SVC" /\ app'.SVC_RANGE = RangeOf(k + 1)'
    BY <1>3, <1>4, <1>5
  <2>2. \A j \in ((k + 1) + 1)..(k + 1) : peer'[j].uuid # "SVC"
    BY <1>2
  <2> QED
    BY <1>2, <2>1, <2>2 DEF RangeAfter
<1>6. CASE item.uuid # "SVC"
  <2>1. app'.SVC_RANGE = app.SVC_RANGE /\ peer[k + 1].uuid # "SVC"
    BY <1>3, <1>6
  <2>2. CASE app.SVC_RANGE = NONE /\ \A j \in 1..k : peer[j].uuid # "SVC"
    <3>1. \A j \in 1..(k + 1) : j \in 1..k \/ j = k + 1
      OBVIOUS
    <3> QED
      BY <2>1, <2>2, <3>1 DEF RangeAfter
  <2>3. CASE \E i \in 1..k : /\ peer[i].uuid = "SVC" /\ app.SVC_RANGE = RangeOf(i)
                             /\ \A j \in (i + 1)..k : peer[j].uuid # "SVC"
    <3>1. PICK i \in 1..k : /\ peer[i].uuid = "SVC" /\ app.SVC_RANGE = RangeOf(i)
                            /\ \A j \in (i + 1)..k : peer[j].uuid # "SVC"
      BY <2>3
    <3>2. i \in 1..(k + 1) /\ \A j \in (i + 1)..(k + 1) : j \in (i + 1)..k \/ j = k + 1
      OBVIOUS
    <3>3. peer'[i].uuid = "SVC" /\ app'.SVC_RANGE = RangeOf(i)'
      BY <1>4, <2>1, <3>1
    <3>4. \A j \in (i + 1)..(k + 1) : peer'[j].uuid # "SVC"
      BY <2>1, <3>1, <3>2
    <3> QED
      BY <3>2, <3>3, <3>4 DEF RangeAfter
  <2> QED
    BY <2>2, <2>3 DEF RangeAfter
<1> QED
  BY <1>5, <1>6

\* A sequence of one.
LEMMA Single ==
  ASSUME NEW S, NEW q \in S
  PROVE  <<q>> \in Seq(S)
<1>1. Append(<< >>, q) \in Seq(S)
  BY EmptySeq, AppendProperties
<1> QED
  BY <1>1

\* A service is found.
LEMMA ServiceStep ==
  ASSUME IInv, UNCHANGED <<program, pc, host, peer, hooked, named, calls, bounds, hits>>,
         pc = "services", host.conn # NONE, NEW p, p = procs[1], procs # << >>, p.items # << >>,
         app' = gattc_cb(app, "Service", Head(p.items), TRUE),
         procs' = [procs EXCEPT ![1].items = Tail(@)]
  PROVE  IInv'
<1>0. PICK a : a = app
  OBVIOUS
<1>1. PICK r : r = app'
  OBVIOUS
<1>2. ~app.DISCONNECTED /\ hooked /\ program # "calls" /\ DOMAIN a = AppFields
  BY <1>0 DEF IInv, Control, Typed
<1>3. /\ peer \in Seq(Services) /\ Len(peer) \in Nat /\ DOMAIN peer = 1..Len(peer)
      /\ View[peer].groups \in Seq(Groups) /\ Len(View[peer].groups) = Len(peer)
      /\ \A i \in 1..Len(peer) : RangeOf(i) \in Ranges
  BY ViewFacts DEF IInv
<1>4. PICK g \in Seq(Groups) : g = View[peer].groups /\ Len(g) = Len(peer)
  BY <1>3
<1>5. PICK k \in 0..Len(peer) :
        /\ RangeAfter(k) /\ ~app.CHR_DONE /\ ~app.SVC_DONE
        /\ procs = <<[op |-> "services", items |-> SubSeq(g, k + 1, Len(peer))]>>
  BY <1>2, <1>4 DEF IInv, SvcInv
<1>6. p = [op |-> "services", items |-> SubSeq(g, k + 1, Len(peer))]
  BY <1>5
<1>7. p.op = "services" /\ p.items = SubSeq(g, k + 1, Len(peer))
  BY <1>6, SMTT(30)
<1>8. k < Len(peer)
  <2> SUFFICES ASSUME k = Len(peer) PROVE FALSE
    BY <1>3
  <2>1. k + 1 \in Int /\ Len(peer) \in Int /\ Len(peer) < k + 1
    BY <1>3
  <2>2. p.items = << >>
    BY <1>7, <2>1, SubSeqEmpty
  <2> QED
    BY <2>2
<1>9. k + 1 \in 1..Len(g) /\ Len(peer) \in (k + 1)..Len(g) /\ k + 1 \in 0..Len(peer) /\ k \in 0..(Len(peer) - 1)
  BY <1>3, <1>4, <1>8
<1>10. Head(p.items) = g[k + 1] /\ Tail(p.items) = SubSeq(g, (k + 1) + 1, Len(peer))
  BY <1>7, <1>9, HeadTailOfSubSeq, ZenonT(30)
<1>11. PICK item \in Groups : item = g[k + 1]
  BY <1>9, ElementOfSeq
<1>12. item # NONE
  BY <1>11, GattClientAssumption
<1>13. /\ Same(a, r, {"SVC_RANGE"})
       /\ r.SVC_RANGE = IF item.uuid = "SVC" THEN [start |-> item.start, end |-> item.end]
                        ELSE a.SVC_RANGE
  <2>1. r = gattc_cb(a, "Service", item, TRUE)
    BY <1>0, <1>1, <1>10, <1>11
  <2> QED
    BY <1>2, <1>12, <2>1, ServiceItem
<1>14. /\ r.SVC_DONE = a.SVC_DONE /\ r.RECV_VAL = a.RECV_VAL /\ r.IND_VAL = a.IND_VAL
       /\ r.CHR_DONE = a.CHR_DONE /\ r.completed = a.completed
  BY <1>13 DEF Same, AppFields
<1>15. /\ PeerNamed' /\ Control' /\ Ready' /\ EndsForCause'
       /\ DOMAIN app' = AppFields /\ app'.DISCONNECTED = app.DISCONNECTED
  <2>1. Same(a, r, {"SVC_RANGE", "SVC_DONE", "CHR_DONE", "RECV_VAL", "IND_VAL", "completed"})
    BY <1>13 DEF Same
  <2>2. Same(app, app', {"SVC_RANGE", "SVC_DONE", "CHR_DONE", "RECV_VAL", "IND_VAL", "completed"})
    BY <1>0, <1>1, <2>1
  <2> QED
    BY <2>2, ProcFrame
<1>16. /\ app'.SVC_DONE = app.SVC_DONE /\ app'.RECV_VAL = app.RECV_VAL /\ app'.IND_VAL = app.IND_VAL
       /\ app'.CHR_DONE = app.CHR_DONE /\ app'.completed = app.completed
       /\ app'.SVC_RANGE = IF item.uuid = "SVC" THEN [start |-> item.start, end |-> item.end]
                           ELSE app.SVC_RANGE
  BY <1>0, <1>1, <1>13, <1>14
<1>17. PICK q : q = [op |-> "services", items |-> SubSeq(g, (k + 1) + 1, Len(peer))]
  OBVIOUS
<1>18. q.op = "services" /\ q \in Procs
  <2>1. \A i \in ((k + 1) + 1)..Len(peer) : g[i] \in Groups
    <3>1. \A i \in ((k + 1) + 1)..Len(peer) : i \in 1..Len(g)
      BY <1>3, <1>4
    <3> QED
      BY <3>1, ElementOfSeq
  <2>2. (k + 1) + 1 \in Int /\ Len(peer) \in Int
    BY <1>3
  <2>3. PICK s \in Seq(Groups) : s = SubSeq(g, (k + 1) + 1, Len(peer))
    BY <2>1, <2>2, SubSeqProperties
  <2>4. q = [op |-> "services", items |-> s]
    BY <1>17, <2>3
  <2> QED
    BY <2>4 DEF Procs
<1>19. procs' = <<q>> /\ procs' \in Seq(Procs)
  <2>1. procs = <<p>>
    BY <1>5, <1>6
  <2>2. PICK x : x = SubSeq(g, k + 1, Len(peer))
    OBVIOUS
  <2>3. PICK y : y = SubSeq(g, (k + 1) + 1, Len(peer))
    OBVIOUS
  <2>4. procs[1].items = x /\ Tail(x) = y
    BY <1>7, <1>10, <2>2, <2>3
  <2>5. procs' = [procs EXCEPT ![1].items = y]
    BY <2>4
  <2>6. p = [op |-> "services", items |-> x] /\ q = [op |-> "services", items |-> y]
    BY <1>6, <1>17, <2>2, <2>3
  <2>7. PICK t : t = procs'
    OBVIOUS
  <2>8. PICK s : s = procs
    OBVIOUS
  <2>9. s = <<p>> /\ t = [s EXCEPT ![1].items = y]
    BY <2>1, <2>5, <2>7, <2>8
  <2>10. [p EXCEPT !.items = y] = q
    BY <2>6
  <2>11. t = [s EXCEPT ![1] = q]
    <3>1. s[1] = p
      BY <2>9
    <3> QED
      BY <2>9, <2>10, <3>1
  <2>12. t = <<q>>
    BY <2>9, <2>11
  <2>13. <<q>> \in Seq(Procs)
    BY <1>18, Single
  <2> QED
    BY <2>7, <2>12, <2>13
<1>20. RangeAfter(k + 1)'
  BY <1>4, <1>5, <1>9, <1>11, <1>16, RangeGrows DEF IInv
<1>21. program' = program /\ pc' = pc /\ peer' = peer /\ hits' = hits /\ calls' = calls /\ faults' = faults
       /\ resets' = resets
  BY DEF bounds
<1>22. app'.SVC_RANGE \in Ranges \cup {NONE}
  <2>1. [start |-> item.start, end |-> item.end] \in Ranges
    BY <1>11 DEF Groups, Ranges
  <2> QED
    BY <1>16, <2>1 DEF IInv, Typed
<1>23. Typed'
  <2>1. procs' \in Seq(Procs)
    BY <1>19
  <2> QED
    BY <1>15, <1>16, <1>21, <1>22, <2>1 DEF IInv, Typed
<1>24. SvcInv'
  <2>1. procs' = <<[op |-> "services", items |-> SubSeq(View[peer].groups, (k + 1) + 1, Len(peer))]>>
    BY <1>4, <1>17, <1>19
  <2> QED
    BY <1>5, <1>9, <1>16, <1>20, <1>21, <2>1 DEF SvcInv
<1>25. OurRange'
  <2>1. app'.SVC_RANGE # NONE =>
          \E i \in 1..(k + 1) : peer'[i].uuid = "SVC" /\ app'.SVC_RANGE = RangeOf(i)'
    BY <1>20, Zenon DEF RangeAfter
  <2>2. \A i \in 1..(k + 1) : i \in DOMAIN peer'
    BY <1>3, <1>9, <1>21
  <2> QED
    BY <2>1, <2>2 DEF OurRange
<1>26. ChrInv' /\ Looked'
  BY <1>21 DEF ChrInv, Looked
<1>27. Targets'
  <2>1. Targets
    BY DEF IInv
  <2>2. app'.RECV_VAL # 0 => GoodRecv(app.RECV_VAL)'
    BY <1>16, <1>21, <2>1, SamePeer DEF Targets, GoodRecv
  <2>3. app'.IND_VAL # 0 => \E c \in OurChrs("IND")' : c.val = app'.IND_VAL
    BY <1>16, <1>21, <2>1, SamePeer DEF Targets
  <2>4. ASSUME NEW i \in DOMAIN procs' PROVE GoodProc(procs[i])'
    <3>1. procs'[i] = q
      BY <1>19, <2>4
    <3>2. GoodProc(q)'
      BY <1>18 DEF GoodProc
    <3> QED
      BY <3>1, <3>2
  <2>5. \A w \in hits' : GoodWrite(w[1], w[2])'
    <3>1. \A u, v : GoodWrite(u, v)' <=> GoodWrite(u, v)
      BY <1>21, SamePeer
    <3> QED
      BY <1>21, <2>1, <3>1 DEF Targets
  <2> QED
    BY <1>21, <2>2, <2>3, <2>4, <2>5 DEF Targets
<1>28. Counted'
  BY <1>2, <1>21 DEF Counted, CompletedOnce
<1> QED
  BY <1>15, <1>23, <1>24, <1>25, <1>26, <1>27, <1>28 DEF IInv

\* The services are all looked at.
LEMMA ServicesDone ==
  ASSUME IInv, UNCHANGED <<program, pc, host, peer, hooked, named, calls, bounds, hits>>,
         pc = "services", host.conn # NONE, NEW p, p = procs[1], procs # << >>, p.items = << >>,
         NEW ok, app' = proc_cb(app, p, ok), procs' = Tail(procs)
  PROVE  IInv'
<1>0. PICK a : a = app
  OBVIOUS
<1>1. PICK r : r = app'
  OBVIOUS
<1>2. ~app.DISCONNECTED /\ hooked /\ program # "calls" /\ DOMAIN a = AppFields
  BY <1>0 DEF IInv, Control, Typed
<1>3. /\ Len(peer) \in Nat /\ View[peer].groups \in Seq(Groups) /\ Len(View[peer].groups) = Len(peer)
  BY ViewFacts DEF IInv
<1>4. PICK g \in Seq(Groups) : g = View[peer].groups /\ Len(g) = Len(peer)
  BY <1>3
<1>5. PICK k \in 0..Len(peer) :
        /\ RangeAfter(k) /\ ~app.CHR_DONE /\ ~app.SVC_DONE
        /\ procs = <<[op |-> "services", items |-> SubSeq(g, k + 1, Len(peer))]>>
  BY <1>2, <1>4 DEF IInv, SvcInv
<1>6. p = [op |-> "services", items |-> SubSeq(g, k + 1, Len(peer))]
  BY <1>5
<1>7. p.op = "services" /\ p.items = SubSeq(g, k + 1, Len(peer)) /\ procs' = << >>
  BY <1>5, <1>6
<1>8. k = Len(peer)
  <2> SUFFICES ASSUME k < Len(peer) PROVE FALSE
    BY <1>3
  <2>1. \A i \in (k + 1)..Len(peer) : g[i] \in Groups
    <3>1. \A i \in (k + 1)..Len(peer) : i \in 1..Len(g)
      BY <1>3, <1>4
    <3> QED
      BY <3>1, ElementOfSeq
  <2>2. Len(p.items) = IF k + 1 <= Len(peer) THEN Len(peer) - (k + 1) + 1 ELSE 0
    <3>1. k + 1 \in Int /\ Len(peer) \in Int
      BY <1>3
    <3> QED
      BY <1>7, <2>1, <3>1, SubSeqProperties
  <2>3. Len(p.items) = 0
    OBVIOUS
  <2> QED
    BY <1>3, <2>2, <2>3
<1>9. ProcEnded(a, r, p)
  <2>1. r = proc_cb(a, p, ok)
    BY <1>0, <1>1
  <2> QED
    BY <1>2, <1>7, <2>1, ProcEnds
<1>10. /\ Same(a, r, {"SVC_DONE", "CHR_DONE", "completed"}) /\ r.SVC_DONE = TRUE
       /\ r.CHR_DONE = a.CHR_DONE /\ r.completed = a.completed
  BY <1>2, <1>7, <1>9 DEF ProcEnded, Ops
<1>11. r.RECV_VAL = a.RECV_VAL /\ r.IND_VAL = a.IND_VAL /\ r.SVC_RANGE = a.SVC_RANGE
  BY <1>10 DEF Same, AppFields
<1>12. /\ PeerNamed' /\ Control' /\ Ready' /\ EndsForCause'
       /\ DOMAIN app' = AppFields /\ app'.DISCONNECTED = app.DISCONNECTED
  <2>1. Same(a, r, {"SVC_RANGE", "SVC_DONE", "CHR_DONE", "RECV_VAL", "IND_VAL", "completed"})
    BY <1>10 DEF Same
  <2>2. Same(app, app', {"SVC_RANGE", "SVC_DONE", "CHR_DONE", "RECV_VAL", "IND_VAL", "completed"})
    BY <1>0, <1>1, <2>1
  <2> QED
    BY <2>2, ProcFrame
<1>13. /\ app'.SVC_DONE /\ app'.RECV_VAL = app.RECV_VAL /\ app'.IND_VAL = app.IND_VAL
       /\ app'.CHR_DONE = app.CHR_DONE /\ app'.completed = app.completed
       /\ app'.SVC_RANGE = app.SVC_RANGE
  BY <1>0, <1>1, <1>10, <1>11
<1>14. program' = program /\ pc' = pc /\ peer' = peer /\ hits' = hits /\ calls' = calls /\ faults' = faults
       /\ resets' = resets
  BY DEF bounds
<1>15. Typed'
  <2>1. procs' \in Seq(Procs)
    BY <1>7, EmptySeq
  <2> QED
    BY <1>12, <1>13, <1>14, <2>1 DEF IInv, Typed
<1>16. SvcInv'
  <2>1. RangeAfter(Len(peer))'
    BY <1>5, <1>8, <1>13, <1>14 DEF RangeAfter, RangeOf
  <2>2. Len(peer) \in 0..Len(peer)
    BY <1>3
  <2> QED
    BY <1>5, <1>7, <1>13, <1>14, <2>1, <2>2 DEF SvcInv
<1>17. OurRange'
  BY <1>13, <1>14 DEF IInv, OurRange, RangeOf
<1>18. ChrInv' /\ Looked'
  BY <1>14 DEF ChrInv, Looked
<1>19. Targets'
  <2>1. Targets
    BY DEF IInv
  <2>2. app'.RECV_VAL # 0 => GoodRecv(app.RECV_VAL)'
    BY <1>13, <1>14, <2>1, SamePeer DEF Targets, GoodRecv
  <2>3. app'.IND_VAL # 0 => \E c \in OurChrs("IND")' : c.val = app'.IND_VAL
    BY <1>13, <1>14, <2>1, SamePeer DEF Targets
  <2>4. DOMAIN procs' = {}
    BY <1>7
  <2>5. \A w \in hits' : GoodWrite(w[1], w[2])'
    <3>1. \A u, v : GoodWrite(u, v)' <=> GoodWrite(u, v)
      BY <1>14, SamePeer
    <3> QED
      BY <1>14, <2>1, <3>1 DEF Targets
  <2> QED
    BY <1>14, <2>2, <2>3, <2>4, <2>5 DEF Targets
<1>20. Counted'
  BY <1>2, <1>14 DEF Counted, CompletedOnce
<1> QED
  BY <1>12, <1>15, <1>16, <1>17, <1>18, <1>19, <1>20 DEF IInv

\* The elements of a sequence are its first and those of the rest.
LEMMA ToSetTail ==
  ASSUME NEW S, NEW s \in Seq(S), s # << >>
  PROVE  ToSet(s) = {Head(s)} \cup ToSet(Tail(s))
<1>1. /\ Len(s) \in Nat \ {0} /\ DOMAIN s = 1..Len(s) /\ Head(s) = s[1]
      /\ Tail(s) \in Seq(S) /\ DOMAIN Tail(s) = 1..(Len(s) - 1)
      /\ \A i \in 1..(Len(s) - 1) : Tail(s)[i] = s[i + 1]
  BY HeadTailProperties, LenProperties, EmptySeq
<1>2. ASSUME NEW x \in ToSet(s) PROVE x \in {Head(s)} \cup ToSet(Tail(s))
  <2>1. PICK i \in 1..Len(s) : x = s[i]
    BY <1>1, <1>2 DEF ToSet
  <2>2. CASE i = 1
    BY <1>1, <2>1, <2>2
  <2>3. CASE i # 1
    <3>1. i - 1 \in 1..(Len(s) - 1) /\ (i - 1) + 1 = i
      BY <1>1, <2>3
    <3>2. Tail(s)[i - 1] = x
      BY <1>1, <2>1, <3>1
    <3> QED
      BY <1>1, <3>1, <3>2 DEF ToSet
  <2> QED
    BY <2>2, <2>3
<1>3. ASSUME NEW x \in ToSet(Tail(s)) PROVE x \in ToSet(s)
  <2>1. PICK i \in 1..(Len(s) - 1) : x = Tail(s)[i]
    BY <1>1, <1>3 DEF ToSet
  <2>2. i + 1 \in 1..Len(s) /\ x = s[i + 1]
    BY <1>1, <2>1
  <2> QED
    BY <1>1, <2>2 DEF ToSet
<1>4. Head(s) \in ToSet(s)
  BY <1>1 DEF ToSet
<1> QED
  BY <1>2, <1>3, <1>4

\* The one procedure of a discovery of characteristics.
LEMMA ChrProc ==
  ASSUME IInv, pc = "chrs", host.conn # NONE, procs # << >>, NEW p, p = procs[1]
  PROVE  /\ ~app.DISCONNECTED /\ hooked /\ program # "calls" /\ ~app.CHR_DONE /\ app.SVC_DONE
         /\ procs = <<p>> /\ p = [op |-> "characteristics", items |-> p.items]
         /\ p.op = "characteristics" /\ p.items \in Seq(Attrs)
         /\ \A c \in ToSet(p.items) : c \in OurChrs(c.uuid) /\ c.val # 0 /\ c.val \in Nat
<1>1. ~app.DISCONNECTED /\ hooked /\ program # "calls" /\ app.SVC_DONE
  BY DEF IInv, Control, Looked
<1>2. ~app.CHR_DONE /\ Len(procs) = 1 /\ p.op = "characteristics"
  BY <1>1 DEF IInv, ChrInv
<1>3. procs \in Seq(Procs)
  BY DEF IInv, Typed
<1>4. DOMAIN procs = 1..1 /\ p \in Procs
  BY <1>2, <1>3, LenProperties, ElementOfSeq
<1>5. procs = <<p>>
  BY <1>2, <1>3
<1>6. p \in [op : {"characteristics"}, items : Seq(Attrs)]
  BY <1>2, <1>4 DEF Procs
<1>7. p = [op |-> "characteristics", items |-> p.items] /\ p.items \in Seq(Attrs)
  BY <1>6
<1>8. ASSUME NEW c \in ToSet(p.items) PROVE c \in OurChrs(c.uuid) /\ c.val # 0 /\ c.val \in Nat
  <2>1. GoodProc(p)
    BY <1>4 DEF IInv, Targets
  <2>2. c \in OurChrs(c.uuid)
    BY <1>2, <1>8, <2>1 DEF GoodProc
  <2>3. c \in ToSet(Attributes(peer)) /\ peer \in Seq(Services)
    BY <2>2, ViewFacts DEF IInv, OurChrs, Chrs
  <2>4. c \in Attrs /\ c.val # 0
    BY <2>3, GroupFacts
  <2> QED
    BY <2>2, <2>4 DEF Attrs
<1> QED
  BY <1>1, <1>2, <1>5, <1>7, <1>8

\* A characteristic is found.
LEMMA ChrStep ==
  ASSUME IInv, UNCHANGED <<program, pc, host, peer, hooked, named, calls, bounds, hits>>,
         pc = "chrs", host.conn # NONE, NEW p, p = procs[1], procs # << >>, p.items # << >>,
         app' = gattc_cb(app, "Characteristic", Head(p.items), TRUE),
         procs' = [procs EXCEPT ![1].items = Tail(@)]
  PROVE  IInv'
<1>0. PICK a : a = app
  OBVIOUS
<1>1. PICK r : r = app'
  OBVIOUS
<1>2. /\ ~app.DISCONNECTED /\ hooked /\ program # "calls" /\ ~app.CHR_DONE /\ app.SVC_DONE
      /\ procs = <<p>> /\ p = [op |-> "characteristics", items |-> p.items]
      /\ p.op = "characteristics" /\ p.items \in Seq(Attrs)
      /\ \A c \in ToSet(p.items) : c \in OurChrs(c.uuid) /\ c.val # 0 /\ c.val \in Nat
  BY ChrProc
<1>3. PICK x \in Seq(Attrs) : x = p.items
  BY <1>2
<1>4. PICK item \in Attrs : item = Head(x)
  BY <1>3, HeadTailProperties
<1>5. PICK y \in Seq(Attrs) : y = Tail(x)
  BY <1>3, HeadTailProperties
<1>6. ToSet(x) = {item} \cup ToSet(y)
  BY <1>3, <1>4, <1>5, ToSetTail
<1>7. item \in OurChrs(item.uuid) /\ item.val # 0 /\ item.val \in Nat
  BY <1>2, <1>3, <1>6
<1>8. item # NONE /\ DOMAIN a = AppFields
  BY <1>0, <1>4, GattClientAssumption DEF IInv, Typed
<1>9. /\ Same(a, r, {"RECV_VAL", "IND_VAL"})
      /\ r.RECV_VAL = IF item.uuid = "RECV" THEN item.val ELSE a.RECV_VAL
      /\ r.IND_VAL = IF item.uuid = "IND" THEN item.val ELSE a.IND_VAL
  <2>1. r = gattc_cb(a, "Characteristic", item, TRUE)
    BY <1>0, <1>1, <1>3, <1>4
  <2> QED
    BY <1>2, <1>8, <2>1, ChrItem
<1>10. /\ r.SVC_DONE = a.SVC_DONE /\ r.SVC_RANGE = a.SVC_RANGE
       /\ r.CHR_DONE = a.CHR_DONE /\ r.completed = a.completed
  BY <1>9, Zenon DEF Same, AppFields
<1>11. /\ PeerNamed' /\ Control' /\ Ready' /\ EndsForCause'
       /\ DOMAIN app' = AppFields /\ app'.DISCONNECTED = app.DISCONNECTED
  <2>1. Same(a, r, {"SVC_RANGE", "SVC_DONE", "CHR_DONE", "RECV_VAL", "IND_VAL", "completed"})
    BY <1>9 DEF Same
  <2>2. Same(app, app', {"SVC_RANGE", "SVC_DONE", "CHR_DONE", "RECV_VAL", "IND_VAL", "completed"})
    BY <1>0, <1>1, <2>1
  <2> QED
    BY <2>2, ProcFrame
<1>12. /\ app'.SVC_DONE = app.SVC_DONE /\ app'.SVC_RANGE = app.SVC_RANGE
       /\ app'.CHR_DONE = app.CHR_DONE /\ app'.completed = app.completed
       /\ app'.RECV_VAL = (IF item.uuid = "RECV" THEN item.val ELSE app.RECV_VAL)
       /\ app'.IND_VAL = (IF item.uuid = "IND" THEN item.val ELSE app.IND_VAL)
  BY <1>0, <1>1, <1>9, <1>10
<1>13. PICK q : q = [op |-> "characteristics", items |-> y]
  OBVIOUS
<1>14. q.op = "characteristics" /\ q.items = y /\ q \in Procs
  BY <1>13 DEF Procs
<1>15. procs' = <<q>> /\ procs' \in Seq(Procs)
  <2>1. PICK t : t = procs'
    OBVIOUS
  <2>2. PICK s : s = procs
    OBVIOUS
  <2>3. procs[1].items = x /\ Tail(x) = y
    BY <1>3, <1>5
  <2>4. s = <<p>> /\ t = [s EXCEPT ![1].items = y]
    BY <1>2, <2>1, <2>2, <2>3
  <2>5. p = [op |-> "characteristics", items |-> x]
    BY <1>2, <1>3
  <2>6. [p EXCEPT !.items = y] = q
    BY <1>13, <2>5
  <2>7. t = [s EXCEPT ![1] = q]
    <3>1. s[1] = p
      BY <2>4
    <3> QED
      BY <2>4, <2>6, <3>1
  <2>8. t = <<q>>
    BY <2>4, <2>7
  <2>9. <<q>> \in Seq(Procs)
    BY <1>14, Single
  <2> QED
    BY <2>1, <2>8, <2>9
<1>16. program' = program /\ pc' = pc /\ peer' = peer /\ hits' = hits /\ calls' = calls /\ faults' = faults
       /\ resets' = resets
  BY DEF bounds
<1>17. Typed'
  <2>1. app'.RECV_VAL \in Nat /\ app'.IND_VAL \in Nat
    BY <1>7, <1>12 DEF IInv, Typed
  <2> QED
    BY <1>11, <1>12, <1>15, <1>16, <2>1 DEF IInv, Typed
<1>18. SvcInv'
  BY <1>16 DEF SvcInv
<1>19. OurRange'
  BY <1>12, <1>16 DEF IInv, OurRange, RangeOf
<1>20. Looked'
  BY <1>2, <1>12 DEF Looked
<1>21. ChrInv'
  <2>1. PICK i \in DOMAIN peer :
          IsLastOurs(i) /\ Awaits(i, "RECV", app.RECV_VAL) /\ Awaits(i, "IND", app.IND_VAL)
    BY <1>2 DEF IInv, ChrInv
  <2>2. Coming = x /\ Coming' = y
    <3>1. Coming = x
      BY <1>3 DEF Coming
    <3>2. procs' # << >> /\ procs'[1] = q
      BY <1>15
    <3> QED
      BY <1>14, <3>1, <3>2 DEF Coming
  <2>3. IsLastOurs(i)' /\ i \in DOMAIN peer'
    BY <1>16, <2>1 DEF IsLastOurs
  <2>4. \A c \in Chrs("RECV") : c.svc = i => app.RECV_VAL # 0 \/ c \in ToSet(x)
    BY <2>1, <2>2 DEF Awaits
  <2>5. \A c \in Chrs("IND") : c.svc = i => app.IND_VAL # 0 \/ c \in ToSet(x)
    BY <2>1, <2>2 DEF Awaits
  <2>6. \A c : (c \in Chrs("RECV") => c.uuid = "RECV") /\ (c \in Chrs("IND") => c.uuid = "IND")
    BY DEF Chrs
  <2>7. Chrs("RECV")' = Chrs("RECV") /\ Chrs("IND")' = Chrs("IND")
    BY <1>16, SamePeer
  <2>8. \A c \in Chrs("RECV")' : c.svc = i => app'.RECV_VAL # 0 \/ c \in ToSet(y)
    BY <1>6, <1>7, <1>12, <2>4, <2>6, <2>7
  <2>9. \A c \in Chrs("IND")' : c.svc = i => app'.IND_VAL # 0 \/ c \in ToSet(y)
    BY <1>6, <1>7, <1>12, <2>5, <2>6, <2>7
  <2>10. Awaits(i, "RECV", app.RECV_VAL)' /\ Awaits(i, "IND", app.IND_VAL)'
    BY <2>2, <2>8, <2>9 DEF Awaits
  <2>11. Len(procs') = 1 /\ procs'[1].op = "characteristics"
    <3>1. procs'[1] = q /\ Len(procs') = 1
      BY <1>15
    <3> QED
      BY <1>14, <3>1
  <2> QED
    BY <1>2, <1>12, <2>3, <2>10, <2>11 DEF ChrInv
<1>22. Targets'
  <2>1. Targets
    BY DEF IInv
  <2>2. app'.RECV_VAL # 0 => GoodRecv(app.RECV_VAL)'
    <3>1. CASE item.uuid = "RECV"
      BY <1>7, <1>12, <1>16, <3>1, SamePeer DEF GoodRecv
    <3>2. CASE item.uuid # "RECV"
      BY <1>12, <1>16, <2>1, <3>2, SamePeer DEF Targets, GoodRecv
    <3> QED
      BY <3>1, <3>2
  <2>3. app'.IND_VAL # 0 => \E c \in OurChrs("IND")' : c.val = app'.IND_VAL
    <3>1. CASE item.uuid = "IND"
      BY <1>7, <1>12, <1>16, <3>1, SamePeer
    <3>2. CASE item.uuid # "IND"
      BY <1>12, <1>16, <2>1, <3>2, SamePeer DEF Targets
    <3> QED
      BY <3>1, <3>2
  <2>4. ASSUME NEW i \in DOMAIN procs' PROVE GoodProc(procs[i])'
    <3>1. procs'[i] = q
      BY <1>15, <2>4
    <3>2. \A c \in ToSet(y) : c \in OurChrs(c.uuid)
      BY <1>2, <1>3, <1>6
    <3>3. GoodProc(q)
      BY <1>14, <3>2 DEF GoodProc
    <3>4. GoodProc(q)'
      BY <1>16, <3>3, SamePeer
    <3> QED
      BY <3>1, <3>4
  <2>5. \A w \in hits' : GoodWrite(w[1], w[2])'
    <3>1. \A u, v : GoodWrite(u, v)' <=> GoodWrite(u, v)
      BY <1>16, SamePeer
    <3> QED
      BY <1>16, <2>1, <3>1 DEF Targets
  <2> QED
    BY <1>16, <2>2, <2>3, <2>4, <2>5 DEF Targets
<1>23. Counted'
  BY <1>2, <1>16 DEF Counted, CompletedOnce
<1> QED
  BY <1>11, <1>17, <1>18, <1>19, <1>20, <1>21, <1>22, <1>23 DEF IInv

\* The characteristics are all looked at.
LEMMA ChrsDone ==
  ASSUME IInv, UNCHANGED <<program, pc, host, peer, hooked, named, calls, bounds, hits>>,
         pc = "chrs", host.conn # NONE, NEW p, p = procs[1], procs # << >>, p.items = << >>,
         NEW ok, app' = proc_cb(app, p, ok), procs' = Tail(procs)
  PROVE  IInv'
<1>0. PICK a : a = app
  OBVIOUS
<1>1. PICK r : r = app'
  OBVIOUS
<1>2. /\ ~app.DISCONNECTED /\ hooked /\ program # "calls" /\ app.SVC_DONE
      /\ procs = <<p>> /\ p.op = "characteristics"
  BY ChrProc
<1>3. procs' = << >> /\ DOMAIN a = AppFields
  BY <1>0, <1>2 DEF IInv, Typed
<1>4. ProcEnded(a, r, p)
  <2>1. r = proc_cb(a, p, ok)
    BY <1>0, <1>1
  <2> QED
    BY <1>2, <1>3, <2>1, ProcEnds
<1>5. /\ Same(a, r, {"SVC_DONE", "CHR_DONE", "completed"}) /\ r.CHR_DONE = TRUE
      /\ r.SVC_DONE = a.SVC_DONE /\ r.completed = a.completed
  BY <1>2, <1>4 DEF ProcEnded, Ops
<1>6. r.RECV_VAL = a.RECV_VAL /\ r.IND_VAL = a.IND_VAL /\ r.SVC_RANGE = a.SVC_RANGE
  BY <1>5 DEF Same, AppFields
<1>7. /\ PeerNamed' /\ Control' /\ Ready' /\ EndsForCause'
      /\ DOMAIN app' = AppFields /\ app'.DISCONNECTED = app.DISCONNECTED
  <2>1. Same(a, r, {"SVC_RANGE", "SVC_DONE", "CHR_DONE", "RECV_VAL", "IND_VAL", "completed"})
    BY <1>5 DEF Same
  <2>2. Same(app, app', {"SVC_RANGE", "SVC_DONE", "CHR_DONE", "RECV_VAL", "IND_VAL", "completed"})
    BY <1>0, <1>1, <2>1
  <2> QED
    BY <2>2, ProcFrame
<1>8. /\ app'.CHR_DONE /\ app'.RECV_VAL = app.RECV_VAL /\ app'.IND_VAL = app.IND_VAL
      /\ app'.SVC_DONE = app.SVC_DONE /\ app'.completed = app.completed
      /\ app'.SVC_RANGE = app.SVC_RANGE
  BY <1>0, <1>1, <1>5, <1>6
<1>9. program' = program /\ pc' = pc /\ peer' = peer /\ hits' = hits /\ calls' = calls /\ faults' = faults
      /\ resets' = resets
  BY DEF bounds
<1>10. Typed'
  <2>1. procs' \in Seq(Procs)
    BY <1>3, EmptySeq
  <2> QED
    BY <1>7, <1>8, <1>9, <2>1 DEF IInv, Typed
<1>11. SvcInv'
  BY <1>9 DEF SvcInv
<1>12. OurRange'
  BY <1>8, <1>9 DEF IInv, OurRange, RangeOf
<1>13. Looked'
  BY <1>2, <1>8 DEF Looked
<1>14. ChrInv'
  <2>1. PICK i \in DOMAIN peer :
          IsLastOurs(i) /\ Awaits(i, "RECV", app.RECV_VAL) /\ Awaits(i, "IND", app.IND_VAL)
    BY <1>2 DEF IInv, ChrInv
  <2>2. Coming = << >> /\ Coming' = << >>
    BY <1>3 DEF Coming
  <2>3. IsLastOurs(i)' /\ i \in DOMAIN peer'
    BY <1>9, <2>1 DEF IsLastOurs
  <2>4. Awaits(i, "RECV", app.RECV_VAL)' /\ Awaits(i, "IND", app.IND_VAL)'
    BY <1>8, <1>9, <2>1, <2>2, SamePeer DEF Awaits
  <2> QED
    BY <1>3, <1>8, <2>3, <2>4 DEF ChrInv
<1>15. Targets'
  <2>1. Targets
    BY DEF IInv
  <2>2. app'.RECV_VAL # 0 => GoodRecv(app.RECV_VAL)'
    BY <1>8, <1>9, <2>1, SamePeer DEF Targets, GoodRecv
  <2>3. app'.IND_VAL # 0 => \E c \in OurChrs("IND")' : c.val = app'.IND_VAL
    BY <1>8, <1>9, <2>1, SamePeer DEF Targets
  <2>4. DOMAIN procs' = {}
    BY <1>3
  <2>5. \A w \in hits' : GoodWrite(w[1], w[2])'
    <3>1. \A u, v : GoodWrite(u, v)' <=> GoodWrite(u, v)
      BY <1>9, SamePeer
    <3> QED
      BY <1>9, <2>1, <3>1 DEF Targets
  <2> QED
    BY <1>9, <2>2, <2>3, <2>4, <2>5 DEF Targets
<1>16. Counted'
  BY <1>2, <1>9 DEF Counted, CompletedOnce
<1> QED
  BY <1>7, <1>10, <1>11, <1>12, <1>13, <1>14, <1>15, <1>16 DEF IInv

\* A read or a write is completed.
LEMMA OpDone ==
  ASSUME IInv, UNCHANGED <<program, pc, host, peer, hooked, named, calls, bounds>>,
         pc \in {"loop", "calls"}, host.conn # NONE, NEW p \in Procs, p = procs[1], procs # << >>, p.op \in Ops,
         NEW ok, app' = proc_cb(app, p, ok), procs' = Tail(procs),
         hits' = IF p.op = "write" THEN hits \cup {<<p.purpose, p.handle>>} ELSE hits
  PROVE  IInv'
<1>0. PICK a : a = app
  OBVIOUS
<1>1. PICK r : r = app'
  OBVIOUS
<1>2. /\ DOMAIN a = AppFields /\ procs \in Seq(Procs) /\ a.completed \in [Ops -> Nat]
      /\ (pc = "loop" => program # "calls")
  BY <1>0 DEF IInv, Typed, Control
<1>3. /\ Len(procs) \in Nat \ {0} /\ DOMAIN procs = 1..Len(procs) /\ Head(procs) = p
      /\ procs' \in Seq(Procs) /\ DOMAIN procs' = 1..(Len(procs) - 1)
      /\ \A i \in 1..(Len(procs) - 1) : procs'[i] = procs[i + 1]
  BY <1>2, HeadTailProperties, LenProperties, EmptySeq
<1>4. ProcEnded(a, r, p)
  <2>1. r = proc_cb(a, p, ok)
    BY <1>0, <1>1
  <2> QED
    BY <1>2, <2>1, ProcEnds DEF Ops
<1>5. /\ Same(a, r, {"SVC_DONE", "CHR_DONE", "completed"})
      /\ r.SVC_DONE = a.SVC_DONE /\ r.CHR_DONE = a.CHR_DONE
      /\ hooked /\ program = "calls" => r.completed = [a.completed EXCEPT ![p.op] = @ + 1]
      /\ ~(hooked /\ program = "calls") => r.completed = a.completed
  BY <1>4 DEF ProcEnded, Ops
<1>6. r.RECV_VAL = a.RECV_VAL /\ r.IND_VAL = a.IND_VAL /\ r.SVC_RANGE = a.SVC_RANGE
  BY <1>5 DEF Same, AppFields
<1>7. /\ PeerNamed' /\ Control' /\ Ready' /\ EndsForCause'
      /\ DOMAIN app' = AppFields /\ app'.DISCONNECTED = app.DISCONNECTED
  <2>1. Same(a, r, {"SVC_RANGE", "SVC_DONE", "CHR_DONE", "RECV_VAL", "IND_VAL", "completed"})
    BY <1>5 DEF Same
  <2>2. Same(app, app', {"SVC_RANGE", "SVC_DONE", "CHR_DONE", "RECV_VAL", "IND_VAL", "completed"})
    BY <1>0, <1>1, <2>1
  <2> QED
    BY <2>2, ProcFrame
<1>8. /\ app'.RECV_VAL = app.RECV_VAL /\ app'.IND_VAL = app.IND_VAL
      /\ app'.SVC_DONE = app.SVC_DONE /\ app'.SVC_RANGE = app.SVC_RANGE
  BY <1>0, <1>1, <1>5, <1>6
<1>9. program' = program /\ pc' = pc /\ peer' = peer /\ hooked' = hooked /\ calls' = calls /\ faults' = faults
      /\ resets' = resets
  BY DEF bounds
<1>10. PICK n \in [Ops -> Nat] : n = a.completed
  BY <1>2
<1>11. PICK op \in Ops : op = p.op
  OBVIOUS
<1>12. hooked /\ program = "calls" => \A q \in Ops : r.completed[q] = n[q] + IF op = q THEN 1 ELSE 0
  <2> SUFFICES ASSUME hooked, program = "calls", NEW q \in Ops
               PROVE  r.completed[q] = n[q] + IF op = q THEN 1 ELSE 0
    OBVIOUS
  <2>1. PICK m : m = [n EXCEPT ![op] = n[op] + 1] /\ m = r.completed
    BY <1>5, <1>10, <1>11
  <2>2. CASE op = q
    BY <2>1, <2>2
  <2>3. CASE op # q
    <3>1. m[q] = n[q] /\ n[q] \in Nat
      BY <2>1, <2>3
    <3> QED
      BY <2>1, <2>3, <3>1
  <2> QED
    BY <2>2, <2>3
<1>13. Typed'
  <2>1. r.completed \in [Ops -> Nat]
    <3>1. CASE hooked /\ program = "calls"
      <4>1. r.completed = [n EXCEPT ![op] = n[op] + 1]
        BY <1>5, <1>10, <1>11, <3>1
      <4>2. n[op] + 1 \in Nat
        BY <1>10
      <4> QED
        BY <4>1, <4>2
    <3>2. CASE ~(hooked /\ program = "calls")
      BY <1>2, <1>5, <3>2
    <3> QED
      BY <3>1, <3>2
  <2> QED
    BY <1>1, <1>3, <1>7, <1>8, <1>9, <2>1 DEF IInv, Typed
<1>14. SvcInv' /\ ChrInv'
  BY <1>9 DEF SvcInv, ChrInv
<1>15. OurRange'
  BY <1>8, <1>9 DEF IInv, OurRange, RangeOf
<1>16. Looked'
  BY <1>8, <1>9 DEF IInv, Looked
<1>17. Targets'
  <2>1. Targets
    BY DEF IInv
  <2>2. app'.RECV_VAL # 0 => GoodRecv(app.RECV_VAL)'
    BY <1>8, <1>9, <2>1, SamePeer DEF Targets, GoodRecv
  <2>3. app'.IND_VAL # 0 => \E c \in OurChrs("IND")' : c.val = app'.IND_VAL
    BY <1>8, <1>9, <2>1, SamePeer DEF Targets
  <2>4. ASSUME NEW i \in DOMAIN procs'
        PROVE  GoodProc(procs[i])' /\ (pc = "loop" => procs'[i].op = "write")
    <3>1. PICK q : q = procs'[i]
      OBVIOUS
    <3>2. i + 1 \in DOMAIN procs /\ q = procs[i + 1]
      BY <1>3, <2>4, <3>1
    <3>3. GoodProc(q) /\ (pc = "loop" => q.op = "write")
      BY <2>1, <3>2 DEF Targets
    <3>4. GoodProc(q)'
      BY <1>9, <3>3, SamePeer
    <3> QED
      BY <3>1, <3>3, <3>4
  <2>5. ASSUME NEW w \in hits' PROVE GoodWrite(w[1], w[2])'
    <3>1. \A u, v : GoodWrite(u, v)' <=> GoodWrite(u, v)
      BY <1>9, SamePeer
    <3>2. CASE w \in hits
      BY <2>1, <3>1, <3>2 DEF Targets
    <3>3. CASE w \notin hits
      <4>1. p.op = "write" /\ w = <<p.purpose, p.handle>>
        BY <2>5, <3>3
      <4>2. 1 \in DOMAIN procs
        BY <1>3
      <4>3. GoodProc(p)
        BY <2>1, <4>2 DEF Targets
      <4>4. GoodWrite(p.purpose, p.handle)
        BY <4>1, <4>3 DEF GoodProc
      <4>5. w[1] = p.purpose /\ w[2] = p.handle
        BY <4>1
      <4> QED
        BY <3>1, <4>4, <4>5
    <3> QED
      BY <3>2, <3>3
  <2>6. pc = "loop" => app'.RECV_VAL # 0
    BY <1>8, <2>1 DEF Targets
  <2> QED
    BY <1>9, <2>2, <2>3, <2>4, <2>5, <2>6 DEF Targets
<1>18. Counted'
  <2>1. ASSUME program = "calls", NEW i \in DOMAIN procs' PROVE procs'[i].op \in Ops
    <3>1. i + 1 \in DOMAIN procs /\ procs'[i] = procs[i + 1]
      BY <1>3, <2>1
    <3> QED
      BY <2>1, <3>1 DEF IInv, Counted
  <2>2. ASSUME program = "calls", hooked, NEW q \in Ops
        PROVE  app'.completed[q] + Cardinality(Pending(q)') = calls[q]
    <3>1. Pending(q) = Kind(procs, q) /\ Pending(q)' = Kind(Tail(procs), q)
      BY DEF Pending, Kind
    <3>2. Cardinality(Kind(procs, q)) = Cardinality(Kind(Tail(procs), q)) + IF op = q THEN 1 ELSE 0
      BY <1>2, <1>3, <1>11, KindTail
    <3>3. PICK x \in Nat : x = Cardinality(Kind(Tail(procs), q))
      BY <1>3, KindType
    <3>4. PICK y \in Nat : y = n[q]
      BY <1>10
    <3>5. y + (x + IF op = q THEN 1 ELSE 0) = calls[q]
      BY <1>0, <1>10, <2>2, <3>1, <3>2, <3>3, <3>4 DEF IInv, Counted, CompletedOnce
    <3>6. (y + IF op = q THEN 1 ELSE 0) + x = calls[q]
      BY <3>5
    <3> QED
      BY <1>1, <1>12, <2>2, <3>1, <3>3, <3>4, <3>6
  <2>3. CompletedOnce'
    BY <1>9, <2>2 DEF CompletedOnce
  <2> QED
    BY <1>9, <2>1, <2>3 DEF Counted
<1> QED
  BY <1>7, <1>13, <1>14, <1>15, <1>16, <1>17, <1>18 DEF IInv

\* The procedure at the head goes on.
LEMMA HostProcStep ==
  ASSUME IInv, HostProc
  PROVE  IInv'
<1>1. /\ procs # << >> /\ host.conn # NONE /\ pc # "ended"
      /\ UNCHANGED <<program, pc, host, peer, hooked, named, calls, bounds>>
  BY DEF HostProc
<1>2. procs \in Seq(Procs)
  BY DEF IInv, Typed
<1>3. PICK p \in Procs : p = procs[1] /\ p = Head(procs)
  BY <1>1, <1>2, HeadTailProperties
<1>4. 1 \in DOMAIN procs
  BY <1>1, <1>2, EmptySeq, LenProperties
<1>5. pc \in {"services", "chrs", "loop", "calls"}
  BY <1>1 DEF IInv, Typed, Control
<1>6. CASE p.items # << >>
  <2>1. PICK type : type = IF p.op = "services" THEN "Service" ELSE "Characteristic"
    OBVIOUS
  <2>2. /\ app' = gattc_cb(app, type, Head(p.items), TRUE)
        /\ procs' = [procs EXCEPT ![1].items = Tail(@)] /\ hits' = hits
    BY <1>3, <1>6, <2>1 DEF HostProc
  <2>3. p.op \in {"services", "characteristics"}
    BY <1>6 DEF Procs
  <2>4. pc \in {"services", "chrs"}
    <3>1. pc = "loop" => p.op = "write"
      BY <1>3, <1>4 DEF IInv, Targets
    <3>2. pc = "calls" => p.op \in Ops
      BY <1>3, <1>4 DEF IInv, Counted, Control, Clients
    <3> QED
      BY <1>5, <2>3, <3>1, <3>2 DEF Ops
  <2>5. ~app.DISCONNECTED
    BY <1>1 DEF IInv, Control
  <2>6. CASE pc = "services"
    <3>1. p.op = "services"
      BY <1>1, <1>3, <2>5, <2>6 DEF IInv, SvcInv
    <3> QED
      BY <1>1, <1>3, <1>6, <2>1, <2>2, <2>6, <3>1, ServiceStep
  <2>7. CASE pc = "chrs"
    <3>1. p.op = "characteristics"
      BY <1>1, <1>3, <2>7, ChrProc
    <3> QED
      BY <1>1, <1>3, <1>6, <2>1, <2>2, <2>7, <3>1, ChrStep
  <2> QED
    BY <2>4, <2>6, <2>7
<1>7. CASE p.items = << >>
  <2>1. PICK ok : app' = proc_cb(app, p, ok)
    BY <1>3, <1>7 DEF HostProc
  <2>2. /\ procs' = Tail(procs)
        /\ hits' = IF p.op = "write" THEN hits \cup {<<p.purpose, p.handle>>} ELSE hits
    BY <1>3, <1>7 DEF HostProc
  <2>3. ~app.DISCONNECTED
    BY <1>1 DEF IInv, Control
  <2>4. CASE pc = "services"
    <3>1. p.op = "services"
      BY <1>1, <1>3, <2>3, <2>4 DEF IInv, SvcInv
    <3>2. hits' = hits
      BY <2>2, <3>1
    <3> QED
      BY <1>1, <1>3, <1>7, <2>1, <2>2, <2>4, <3>2, ServicesDone
  <2>5. CASE pc = "chrs"
    <3>1. p.op = "characteristics"
      BY <1>1, <1>3, <2>5, ChrProc
    <3>2. hits' = hits
      BY <2>2, <3>1
    <3> QED
      BY <1>1, <1>3, <1>7, <2>1, <2>2, <2>5, <3>2, ChrsDone
  <2>6. CASE pc \in {"loop", "calls"}
    <3>1. p.op \in Ops
      <4>1. pc = "loop" => p.op = "write"
        BY <1>3, <1>4 DEF IInv, Targets
      <4>2. pc = "calls" => p.op \in Ops
        BY <1>3, <1>4 DEF IInv, Counted, Control, Clients
      <4> QED
        BY <2>6, <4>1, <4>2 DEF Ops
    <3> QED
      BY <1>1, <1>3, <2>1, <2>2, <2>6, <3>1, OpDone
  <2> QED
    BY <1>5, <2>4, <2>5, <2>6
<1> QED
  BY <1>6, <1>7

-----------------------------------------------------------------------------
(* The theorems.                                                           *)

\* It holds at the start.
LEMMA InitIInv == Init => IInv
<1> SUFFICES ASSUME Init PROVE IInv
  OBVIOUS
<1>0. PICK a : a = [SYNCED |-> FALSE, PEER |-> NONE, CONN |-> NONE, CONNECTED |-> FALSE,
                    DISCONNECTED |-> FALSE, SVC_RANGE |-> NONE, SVC_DONE |-> FALSE, RECV_VAL |-> 0,
                    IND_VAL |-> 0, CHR_DONE |-> FALSE, ROUND_DONE |-> FALSE,
                    heard |-> FALSE, completed |-> [op \in Ops |-> 0]]
  OBVIOUS
<1>1. /\ DOMAIN a = AppFields /\ ~a.SYNCED /\ a.PEER = NONE /\ a.CONN = NONE /\ ~a.CONNECTED
      /\ ~a.DISCONNECTED /\ a.SVC_RANGE = NONE /\ ~a.SVC_DONE /\ a.RECV_VAL = 0 /\ a.IND_VAL = 0
      /\ ~a.CHR_DONE /\ ~a.ROUND_DONE /\ a.completed = [op \in Ops |-> 0]
  BY <1>0 DEF AppFields
<1>2. app = a
  BY <1>0 DEF Init
<1>3. DOMAIN host = HostFields /\ ~host.synced /\ ~host.scanning /\ ~host.connecting /\ host.conn = NONE
  BY DEF Init, HostFields
<1>4. /\ program \in Programs /\ pc = "sync" /\ procs = << >> /\ peer = << >> /\ hooked = (program \in Clients)
      /\ named = {} /\ hits = {} /\ calls = [op \in Ops |-> 0] /\ faults = 0 /\ resets = 0
  BY DEF Init
<1>5. Typed
  <2>1. procs \in Seq(Procs)
    BY <1>4, EmptySeq
  <2>2. a.completed \in [Ops -> Nat] /\ calls \in [Ops -> Nat]
    BY <1>1, <1>4
  <2> QED
    BY <1>1, <1>2, <1>3, <1>4, <2>1, <2>2 DEF Typed
<1>6. PeerNamed
  BY <1>1, <1>2, <1>4 DEF PeerNamed
<1>7. Control
  BY <1>1, <1>2, <1>3, <1>4 DEF Control
<1>8. Ready
  BY <1>1, <1>2, <1>4 DEF Ready
<1>9. OurRange /\ SvcInv /\ ChrInv /\ Looked /\ EndsForCause
  BY <1>1, <1>2, <1>4 DEF OurRange, SvcInv, ChrInv, Looked, EndsForCause
<1>10. Targets
  BY <1>1, <1>2, <1>4 DEF Targets
<1>11. Counted
  <2>1. ASSUME NEW op \in Ops PROVE a.completed[op] + Cardinality(Pending(op)) = calls[op]
    <3>1. Pending(op) = Kind(<< >>, op)
      BY <1>4 DEF Pending, Kind
    <3>2. Cardinality(Pending(op)) = 0
      BY <3>1, KindEmpty
    <3>3. a.completed[op] = 0 /\ calls[op] = 0
      BY <1>1, <1>4
    <3> QED
      BY <3>2, <3>3
  <2> QED
    BY <1>2, <1>4, <2>1 DEF Counted, CompletedOnce
<1> QED
  BY <1>5, <1>6, <1>7, <1>8, <1>9, <1>10, <1>11 DEF IInv

\* A step that changes nothing keeps it.
LEMMA StutterStep ==
  ASSUME IInv, UNCHANGED vars
  PROVE  IInv'
<1>1. /\ program' = program /\ pc' = pc /\ app' = app /\ host' = host /\ procs' = procs /\ peer' = peer
      /\ hooked' = hooked /\ named' = named /\ hits' = hits /\ calls' = calls
      /\ faults' = faults /\ resets' = resets
  BY DEF vars, history, bounds
<1>2. Same(app, app', Apart)
  BY <1>1, AppSame DEF IInv
<1>3. Typed'
  BY <1>1, <1>2, TypedFrame DEF IInv, Typed, PCs
<1>4. Data'
  BY <1>1, <1>2, Frame DEF IInv, Data
<1>5. PeerNamed'
  BY <1>1 DEF IInv, PeerNamed
<1>6. Control'
  BY <1>1 DEF IInv, Control
<1>7. Ready'
  BY <1>1 DEF IInv, Ready, Blamed
<1>8. EndsForCause'
  <2>1. Unfit' <=> Unfit
    BY <1>1 DEF Unfit, IsLastOurs, Chrs
  <2> QED
    BY <1>1, <2>1 DEF IInv, EndsForCause
<1> QED
  BY <1>3, <1>4, <1>5, <1>6, <1>7, <1>8 DEF IInv, Data

\* Every step keeps it.
LEMMA NextIInv == IInv /\ [Next]_vars => IInv'
<1> SUFFICES ASSUME IInv, [Next]_vars PROVE IInv'
  OBVIOUS
<1>1. CASE HostStep
  <2>1. CASE on_sync
    BY <2>1, SyncStep
  <2>2. CASE on_reset
    BY <2>2, ResetStep
  <2>3. CASE LinkLoss
    BY <2>3, LinkLossStep
  <2>4. CASE ScanTimeout
    BY <2>4, ScanTimeoutStep
  <2>5. CASE HostConnect
    BY <2>5, HostConnectStep
  <2>6. CASE HostProc
    BY <2>6, HostProcStep
  <2>7. CASE PeerIndicate
    BY <2>7, IndicateStep
  <2>8. CASE \E addr \in Addrs, data \in Payloads : AdvReport(addr, data)
    BY <2>8, AdvStep
  <2> QED
    BY <1>1, <2>1, <2>2, <2>3, <2>4, <2>5, <2>6, <2>7, <2>8 DEF HostStep
<1>2. CASE ProgramStep
  <2>1. CASE Start
    BY <2>1, StartStep
  <2>2. CASE NextRound
    BY <2>2, NextRoundStep
  <2>3. CASE Found
    BY <2>3, FoundStep
  <2>4. CASE DiscoverServices
    BY <2>4, DiscoverServicesStep
  <2>5. CASE DiscoverCharacteristics
    BY <2>5, DiscoverCharacteristicsStep
  <2>6. CASE Subscribe
    BY <2>6, SubscribeStep
  <2>7. CASE WriteLoop
    BY <2>7, WriteLoopStep
  <2> QED
    BY <1>2, <2>1, <2>2, <2>3, <2>4, <2>5, <2>6, <2>7 DEF ProgramStep
<1>3. CASE \E op \in Ops : Call(op)
  BY <1>3, CallStep
<1>4. CASE write_cmd
  BY <1>4, WriteCmdStep
<1>5. CASE disconnect
  BY <1>5, DisconnectStep
<1>6. CASE gattc_unsubscribe
  BY <1>6, UnsubscribeStep
<1>7. CASE UNCHANGED vars
  BY <1>7, StutterStep
<1> QED
  BY <1>1, <1>2, <1>3, <1>4, <1>5, <1>6, <1>7 DEF Next

\* The invariant holds in every reachable state, whatever the host, the peer
\* and the link do, for every set of programs, payloads and peers.
THEOREM Invariance == Spec => []IInv
<1>1. Init => IInv
  BY InitIInv
<1>2. IInv /\ [Next]_vars => IInv'
  BY NextIInv
<1> QED
  BY <1>1, <1>2, PTL DEF Spec

\* The client goes for an advertiser exactly when one has sent a payload that
\* carries the complete name, and then for one that did (adv_has_name and
\* on_gap_event), for every payload there may be.
THEOREM PeerIsNamed == Spec => []PeerNamed
<1>1. IInv => PeerNamed
  BY DEF IInv
<1> QED
  BY <1>1, Invariance, PTL

\* What the client writes reaches the characteristics it was meant for, on
\* every peer (the range of the discovery, SVC_RANGE, and the handles
\* RECV_VAL and IND_VAL).
THEOREM WritesReachTargets == Spec => []WritesHitTargets
<1>1. IInv => WritesHitTargets
  <2> SUFFICES ASSUME IInv, \A c \in OurChrs("IND") : "Indicate" \in c.flags, NEW w \in hits
               PROVE  /\ w[1] = "recv" => \E c \in OurChrs("RECV") : c.val = w[2]
                      /\ w[1] = "subscribe" => \E c \in OurChrs("IND") : Width(c) = 3 /\ c.val + 1 = w[2]
    BY DEF WritesHitTargets
  <2>1. GoodWrite(w[1], w[2])
    BY DEF IInv, Targets
  <2>2. \A c \in OurChrs("IND") : Width(c) = 3
    BY DEF Width
  <2> QED
    BY <2>1, <2>2 DEF GoodWrite, GoodRecv, GoodCccd
<1> QED
  BY <1>1, Invariance, PTL

\* An accepted read or write is completed exactly once, and only a procedure
\* that is still pending is not (read_cb, write_cb), also when the link
\* breaks under any number of procedures.
THEOREM CallsCompletedOnce == Spec => []CompletedOnce
<1>1. IInv => CompletedOnce
  BY DEF IInv, Counted
<1> QED
  BY <1>1, Invariance, PTL

\* A program ends only for a reason: a client on a good peer never panics on
\* its own, and a scanner never runs into its own scan.
THEOREM EndsHaveCause == Spec => []EndsForCause
<1>1. IInv => EndsForCause
  BY DEF IInv
<1> QED
  BY <1>1, Invariance, PTL
===============================================================================
