--------------------------- MODULE GattServerProofs ---------------------------
(***************************************************************************)
(* Proofs about GattServer, for any lists of services and any connections: *)
(* the host finds the declared services, the table's memory is freed once, *)
(* and the example's statics mirror what the peers did.  What the          *)
(* constructors build and what the walk reads is in StructureProofs.       *)
(*                                                                         *)
(* The invariant adds to the properties where the construction is, that    *)
(* the host has the handles of these services, that a host with a peer     *)
(* does not advertise (so that the list of subscribers has at most one     *)
(* entry) and which handles the hooks were told.                           *)
(***************************************************************************)
EXTENDS GattServer, StructureProofs

-----------------------------------------------------------------------------
(* The inductive invariant.                                                *)

\* The characteristic at i is the only one with that UUID.
OnlyOne(uuid, i) == \A j \in DOMAIN db : db[j].uuid = uuid <=> j = i

\* The construction: what is where, and whose the table is.
BuildInv ==
  /\ services \in ServiceLists /\ builder \in {"static", "dynamic"} /\ built \in 0..4
  /\ pc \in {"build", "new", "start", "run", "failed", "dropped"}
  /\ builder = "static" => built = 0 /\ pc \notin {"build", "failed"}
  /\ pc = "build" => built # 4
  /\ heap = [a \in ToSet(Allocs) |-> heap[a]]
  /\ HeapBalanced

AppFields == {"SUBSCRIBERS", "IND_VAL", "RECV_VAL", "NEEDS_ADV", "heard"}

\* The host before it starts, while it runs and when it is gone.
HostInv ==
  /\ pc = "run" => db = Attributes(services)
  /\ pc # "run" => db = << >> /\ conns = {} /\ cccd = {} /\ ~synced /\ ~advertising
  /\ pc \in {"build", "new", "start"} => app.SUBSCRIBERS = << >> /\ acked = {}
  /\ pc = "start" => hooked
  /\ DOMAIN app = AppFields
  /\ conns \subseteq Conns /\ cccd \subseteq conns \X Nat

\* One peer at a time: nobody connects to a host that does not advertise.
OnePeer ==
  /\ advertising => synced /\ conns = {} /\ ~app.NEEDS_ADV
  /\ conns # {} => synced /\ ~app.NEEDS_ADV
  /\ \A g, h \in conns : g = h

\* The hooks know the value handles.
HandlesInv ==
  pc = "run" => \A i \in DOMAIN db : /\ OnlyOne("IND", i) => app.IND_VAL = db[i].val
                                     /\ OnlyOne("RECV", i) => app.RECV_VAL = db[i].val

\* The list of subscribers has the peer if it has indications on.
SubsInv ==
  pc = "run" /\ hooked =>
    \A i \in DOMAIN db : OnlyOne("IND", i) =>
      /\ \A h \in conns : app.SUBSCRIBERS = IF <<h, db[i].val>> \in cccd THEN <<h>> ELSE << >>
      /\ conns = {} => app.SUBSCRIBERS = << >>

IInv == BuildInv /\ TableFaithful /\ HostInv /\ OnePeer /\ HandlesInv /\ SubsInv /\ AckedWasHeard

-----------------------------------------------------------------------------
(* What the hooks do to the statics.                                       *)

\* The statics that a connection's end leaves alone.
Kept(a, b) ==
  DOMAIN b = AppFields /\ b.IND_VAL = a.IND_VAL /\ b.RECV_VAL = a.RECV_VAL /\ b.heard = a.heard

\* An empty list stays empty.
LEMMA RetainEmpty ==
  ASSUME NEW h
  PROVE  retain(<< >>, h) = << >>
<1>1. PICK f : f = [i \in 0..0 |-> << >>]
  OBVIOUS
<1>2. f = [i \in 0..0 |-> IF i = 0 THEN << >>
             ELSE IF << >>[i] = h THEN f[i - 1] ELSE Append(f[i - 1], << >>[i])]
  BY <1>1
<1>3. Len(<< >>) = 0
  OBVIOUS
<1>4. PICK g : g = [i \in 0..0 |-> IF i = 0 THEN << >>
                     ELSE IF << >>[i] = h THEN g[i - 1] ELSE Append(g[i - 1], << >>[i])]
               /\ retain(<< >>, h) = g[0]
  BY <1>2, <1>3 DEF retain
<1> QED
  BY <1>4

\* A list of one loses it or keeps it.
LEMMA RetainOne ==
  ASSUME NEW g, NEW h
  PROVE  retain(<<g>>, h) = IF g = h THEN << >> ELSE <<g>>
<1>0. PICK s : s = <<g>>
  OBVIOUS
<1>1. PICK f : f = [i \in 0..1 |-> IF i = 0 THEN << >> ELSE IF g = h THEN << >> ELSE <<g>>]
  OBVIOUS
<1>a. Append(<< >>, g) = <<g>> /\ s[1] = g /\ Len(s) = 1
  BY <1>0
<1>b. f[0] = << >> /\ f[1] = IF g = h THEN << >> ELSE <<g>>
  BY <1>1
<1>2. f = [i \in 0..1 |-> IF i = 0 THEN << >>
             ELSE IF s[i] = h THEN f[i - 1] ELSE Append(f[i - 1], s[i])]
  <2>1. ASSUME NEW i \in 0..1
        PROVE  f[i] = IF i = 0 THEN << >>
                      ELSE IF s[i] = h THEN f[i - 1] ELSE Append(f[i - 1], s[i])
    <3>1. CASE i = 0
      BY <3>1, <1>b
    <3>2. CASE i = 1
      <4>1. i - 1 = 0
        BY <3>2
      <4> QED
        BY <3>2, <4>1, <1>a, <1>b
    <3> QED
      BY <3>1, <3>2
  <2> QED
    BY <2>1, <1>1
<1>4. PICK k : k = [i \in 0..1 |-> IF i = 0 THEN << >>
                     ELSE IF s[i] = h THEN k[i - 1] ELSE Append(k[i - 1], s[i])]
               /\ retain(s, h) = k[1]
  BY <1>2, <1>a DEF retain
<1>5. k[0] = << >>
  BY <1>4
<1>6. k[1] = IF s[1] = h THEN k[0] ELSE Append(k[0], s[1])
  <2>1. 1 - 1 = 0 /\ 1 \in 0..1 /\ 1 # 0
    OBVIOUS
  <2>2. k[1] = IF s[1] = h THEN k[1 - 1] ELSE Append(k[1 - 1], s[1])
    BY <2>1, <1>4
  <2> QED
    BY <2>1, <2>2
<1> QED
  BY <1>0, <1>a, <1>4, <1>5, <1>6

\* A change of subscription reaches only the list.
LEMMA SubscriptionFields ==
  ASSUME NEW a, DOMAIN a = AppFields, NEW ev
  PROVE  /\ Kept(a, SubscriptionChanged(a, ev))
         /\ SubscriptionChanged(a, ev).NEEDS_ADV = a.NEEDS_ADV
         /\ SubscriptionChanged(a, ev).SUBSCRIBERS =
              IF ev.cur_indicate /\ Len(retain(a.SUBSCRIBERS, ev.conn)) < MAX_SUBSCRIBERS
              THEN Append(retain(a.SUBSCRIBERS, ev.conn), ev.conn)
              ELSE retain(a.SUBSCRIBERS, ev.conn)
<1>1. PICK v : v = IF ev.cur_indicate /\ Len(retain(a.SUBSCRIBERS, ev.conn)) < MAX_SUBSCRIBERS
                   THEN Append(retain(a.SUBSCRIBERS, ev.conn), ev.conn)
                   ELSE retain(a.SUBSCRIBERS, ev.conn)
  OBVIOUS
<1>2. SubscriptionChanged(a, ev) = [a EXCEPT !.SUBSCRIBERS = v]
  BY <1>1 DEF SubscriptionChanged
<1> QED
  BY <1>1, <1>2 DEF Kept, AppFields

\* The same through the callback, which a foreign handle or a missing hook
\* turns into nothing.
LEMMA SubscribeEvent ==
  ASSUME NEW a, DOMAIN a = AppFields, NEW h, NEW v, NEW on,
         NEW r, r = gap_event_cb(a, [type |-> "SubscriptionChanged", conn |-> h, attr |-> v,
                                     cur_indicate |-> on])
  PROVE  /\ Kept(a, r) /\ r.NEEDS_ADV = a.NEEDS_ADV
         /\ ~(hooked /\ v = a.IND_VAL) => r = a
         /\ hooked /\ v = a.IND_VAL =>
              r.SUBSCRIBERS = IF on /\ Len(retain(a.SUBSCRIBERS, h)) < MAX_SUBSCRIBERS
                              THEN Append(retain(a.SUBSCRIBERS, h), h)
                              ELSE retain(a.SUBSCRIBERS, h)
<1>1. PICK ev : ev = [type |-> "SubscriptionChanged", conn |-> h, attr |-> v, cur_indicate |-> on]
  OBVIOUS
<1>2. ev.type = "SubscriptionChanged" /\ ev.conn = h /\ ev.attr = v /\ ev.cur_indicate = on
  BY <1>1
<1>3. r = IF hooked THEN on_gatts_event(a, ev) ELSE a
  BY <1>1, <1>2 DEF gap_event_cb
<1>4. on_gatts_event(a, ev) = IF v = a.IND_VAL THEN SubscriptionChanged(a, ev) ELSE a
  BY <1>2 DEF on_gatts_event
<1>5. CASE hooked /\ v = a.IND_VAL
  <2>1. r = SubscriptionChanged(a, ev)
    BY <1>3, <1>4, <1>5
  <2> QED
    BY <1>2, <1>5, <2>1, SubscriptionFields
<1>6. CASE ~(hooked /\ v = a.IND_VAL)
  <2>1. r = a
    BY <1>3, <1>4, <1>6
  <2> QED
    BY <1>6, <2>1 DEF Kept
<1> QED
  BY <1>5, <1>6

\* One subscription of a connection that ends.
LEMMA UnsubscribeFacts ==
  ASSUME NEW a, DOMAIN a = AppFields, NEW h, NEW chr, NEW r, r = Unsubscribe(a, h, chr)
  PROVE  /\ Kept(a, r)
         /\ a.SUBSCRIBERS \in {<< >>, <<h>>} => r.SUBSCRIBERS \in {<< >>, <<h>>}
<1>1. CASE <<h, chr.val>> \notin cccd
  BY <1>1 DEF Unsubscribe, Kept
<1>2. CASE <<h, chr.val>> \in cccd
  <2>1. r = gap_event_cb(a, [type |-> "SubscriptionChanged", conn |-> h, attr |-> chr.val,
                             cur_indicate |-> FALSE])
    BY <1>2 DEF Unsubscribe
  <2>2. r = a \/ r.SUBSCRIBERS = retain(a.SUBSCRIBERS, h)
    BY <2>1, SubscribeEvent
  <2>3. a.SUBSCRIBERS \in {<< >>, <<h>>} => retain(a.SUBSCRIBERS, h) = << >>
    BY RetainEmpty, RetainOne
  <2> QED
    BY <2>1, <2>2, <2>3, SubscribeEvent
<1> QED
  BY <1>1, <1>2

\* A connection ends: its peer is off the list, and the flag is up.
LEMMA ClosedFacts ==
  ASSUME Len(db) \in Nat, NEW a, DOMAIN a = AppFields, NEW h, NEW r, r = Closed(a, h)
  PROVE  /\ Kept(a, r) /\ r.NEEDS_ADV = TRUE
         /\ a.SUBSCRIBERS \in {<< >>, <<h>>} => r.SUBSCRIBERS = << >>
<1> DEFINE Is(f, m) == f = [i \in 0..m |-> IF i = 0 THEN a ELSE Unsubscribe(f[i - 1], h, db[i])]
           S == {m \in Nat : \E f : Is(f, m)}
<1>1. 0 \in S
  <2>1. PICK f : f = [i \in 0..0 |-> a]
    OBVIOUS
  <2>2. Is(f, 0)
    BY <2>1
  <2> QED
    BY <2>2
<1>2. ASSUME NEW m \in Nat, m \in S PROVE m + 1 \in S
  <2>1. PICK f : Is(f, m)
    BY <1>2
  <2>2. PICK g : g = [i \in 0..(m + 1) |-> IF i = m + 1 THEN Unsubscribe(f[m], h, db[m + 1]) ELSE f[i]]
    OBVIOUS
  <2>3. ASSUME NEW i \in 0..(m + 1)
        PROVE  g[i] = IF i = 0 THEN a ELSE Unsubscribe(g[i - 1], h, db[i])
    <3>1. CASE i = m + 1
      <4>1. i # 0 /\ i - 1 = m /\ m # m + 1 /\ m \in 0..(m + 1)
        BY <3>1
      <4>2. g[m] = f[m] /\ g[i] = Unsubscribe(f[m], h, db[m + 1])
        BY <2>2, <3>1, <4>1
      <4> QED
        BY <3>1, <4>1, <4>2
    <3>2. CASE i # m + 1
      <4>1. i \in 0..m
        BY <3>2
      <4>2. g[i] = f[i]
        BY <2>2, <3>2
      <4>3. f[i] = IF i = 0 THEN a ELSE Unsubscribe(f[i - 1], h, db[i])
        BY <2>1, <4>1
      <4>4. i # 0 => g[i - 1] = f[i - 1]
        BY <2>2, <4>1
      <4> QED
        BY <4>2, <4>3, <4>4
    <3> QED
      BY <3>1, <3>2
  <2>4. Is(g, m + 1)
    BY <2>2, <2>3
  <2> HIDE DEF Is
  <2> QED
    BY <2>4
<1>3. Len(db) \in S
  <2> HIDE DEF S
  <2>1. \A n \in 0..Len(db) : n \in S
    BY <1>1, <1>2, Upwards, SMTT(30)
  <2> QED
    BY <2>1
<1>4. PICK f : /\ Is(f, Len(db))
               /\ r = gap_event_cb(f[Len(db)], [type |-> "Disconnect", conn |-> h])
  BY <1>3 DEF Closed
<1> DEFINE P(b) == Kept(a, b) /\ (a.SUBSCRIBERS \in {<< >>, <<h>>} => b.SUBSCRIBERS \in {<< >>, <<h>>})
           A == {m \in Nat : m <= Len(db) => P(f[m])}
<1>5. 0 \in A
  <2>1. f[0] = a
    BY <1>4
  <2>2. P(a)
    BY DEF Kept
  <2> QED
    BY <2>1, <2>2
<1>6. ASSUME NEW m \in 0..(Len(db) - 1), m \in A PROVE m + 1 \in A
  <2>1. m + 1 \in 0..Len(db) /\ m + 1 # 0 /\ (m + 1) - 1 = m
    OBVIOUS
  <2>2. f[m + 1] = Unsubscribe(f[m], h, db[m + 1])
    <3>1. f[m + 1] = Unsubscribe(f[(m + 1) - 1], h, db[m + 1])
      BY <1>4, <2>1
    <3> QED
      BY <3>1, <2>1
  <2>3. PICK b : b = f[m]
    OBVIOUS
  <2>4. PICK c : c = f[m + 1]
    OBVIOUS
  <2>5. P(b)
    BY <1>6, <2>1, <2>3
  <2>6. DOMAIN b = AppFields
    BY <2>5 DEF Kept
  <2>7. Kept(b, c) /\ (b.SUBSCRIBERS \in {<< >>, <<h>>} => c.SUBSCRIBERS \in {<< >>, <<h>>})
    BY <2>2, <2>3, <2>4, <2>6, UnsubscribeFacts
  <2>8. P(c)
    BY <2>5, <2>7 DEF Kept
  <2> HIDE DEF P
  <2> QED
    BY <2>1, <2>4, <2>8
<1>7. Len(db) \in A
  <2> HIDE DEF A
  <2>1. \A n \in 0..Len(db) : n \in A
    BY <1>5, <1>6, Upwards
  <2> QED
    BY <2>1
<1>8. PICK b : b = f[Len(db)]
  OBVIOUS
<1>9. P(b)
  BY <1>7, <1>8
<1>10. r = [b EXCEPT !.SUBSCRIBERS = retain(@, h), !.NEEDS_ADV = TRUE]
  <2>1. PICK ev : ev = [type |-> "Disconnect", conn |-> h]
    OBVIOUS
  <2>2. ev.type = "Disconnect" /\ ev.conn = h
    BY <2>1
  <2>3. r = on_gap_event(b, ev)
    BY <1>4, <1>8, <2>1, <2>2 DEF gap_event_cb
  <2> QED
    BY <2>2, <2>3 DEF on_gap_event
<1>11. Kept(b, r) /\ r.NEEDS_ADV = TRUE /\ r.SUBSCRIBERS = retain(b.SUBSCRIBERS, h)
  BY <1>9, <1>10 DEF Kept, AppFields
<1>12. b.SUBSCRIBERS \in {<< >>, <<h>>} => retain(b.SUBSCRIBERS, h) = << >>
  BY RetainEmpty, RetainOne
<1> QED
  BY <1>9, <1>11, <1>12 DEF Kept

\* The connections in some order, when there is none or one.
LEMMA OrderOfOne ==
  ASSUME NEW S, NEW h, S = {} \/ S = {h}
  PROVE  /\ S = {} => Len(SetToSeq(S)) = 0
         /\ S = {h} => Len(SetToSeq(S)) = 1 /\ SetToSeq(S)[1] = h
<1> DEFINE Ok(n, f) == f \in [1..n -> S] /\ IsInjective(f)
<1>0. \A n \in {0, 1} : \A f \in [1..n -> S] : IsInjective(f)
  BY DEF IsInjective
<1>1. CASE S = {}
  <2>1. Cardinality(S) = 0
    BY <1>1, FS_EmptySet
  <2>2. PICK f : f = [i \in 1..0 |-> h]
    OBVIOUS
  <2>3. f \in [1..0 -> S]
    BY <2>2
  <2>4. SetToSeq(S) \in [1..0 -> S]
    BY <2>1, <2>3, <1>0 DEF SetToSeq
  <2>5. Len(SetToSeq(S)) = 0
    BY <2>4
  <2> QED
    BY <1>1, <2>5
<1>2. CASE S = {h}
  <2>1. Cardinality(S) = 1
    BY <1>2, FS_Singleton
  <2>2. PICK f : f = [i \in 1..1 |-> h]
    OBVIOUS
  <2>3. f \in [1..1 -> S]
    BY <2>2, <1>2
  <2>4. SetToSeq(S) \in [1..1 -> S]
    BY <2>1, <2>3, <1>0 DEF SetToSeq
  <2>5. Len(SetToSeq(S)) = 1
    BY <2>4
  <2>6. SetToSeq(S)[1] = h
    BY <1>2, <2>4
  <2> QED
    BY <1>2, <2>5, <2>6
<1> QED
  BY <1>1, <1>2

\* A reset closes what connection there is.
LEMMA AllClosedFacts ==
  ASSUME Len(db) \in Nat, NEW a, DOMAIN a = AppFields, NEW h, conns = {} \/ conns = {h},
         NEW r, r = AllClosed(a)
  PROVE  /\ Kept(a, r)
         /\ conns = {} => r = a
         /\ conns = {h} /\ a.SUBSCRIBERS \in {<< >>, <<h>>} => r.SUBSCRIBERS = << >>
<1>1. PICK order : order = SetToSeq(conns)
  OBVIOUS
<1>2. CASE conns = {}
  <2>1. Len(order) = 0
    BY <1>1, <1>2, OrderOfOne
  <2>2. PICK f : f = [i \in 0..0 |-> a]
    OBVIOUS
  <2>3. f = [i \in 0..Len(order) |-> IF i = 0 THEN a ELSE Closed(f[i - 1], order[i])]
    BY <2>1, <2>2
  <2>4. PICK g : /\ g = [i \in 0..Len(order) |-> IF i = 0 THEN a ELSE Closed(g[i - 1], order[i])]
                 /\ r = g[Len(order)]
    BY <2>3, <1>1 DEF AllClosed
  <2>5. r = a
    BY <2>1, <2>4
  <2>6. conns # {h}
    BY <1>2
  <2> QED
    BY <2>5, <2>6 DEF Kept
<1>3. CASE conns = {h}
  <2>1. Len(order) = 1 /\ order[1] = h
    <3>1. PICK T : T = conns
      OBVIOUS
    <3>2. T = {h}
      BY <3>1, <1>3
    <3>3. Len(SetToSeq(T)) = 1 /\ SetToSeq(T)[1] = h
      BY <3>2, OrderOfOne
    <3> QED
      BY <1>1, <3>1, <3>3
  <2>2. PICK f : f = [i \in 0..1 |-> IF i = 0 THEN a ELSE Closed(a, h)]
    OBVIOUS
  <2>a. f[0] = a /\ f[1] = Closed(a, h)
    BY <2>2
  <2>3. f = [i \in 0..1 |-> IF i = 0 THEN a ELSE Closed(f[i - 1], order[i])]
    <3>1. ASSUME NEW i \in 0..1 PROVE f[i] = IF i = 0 THEN a ELSE Closed(f[i - 1], order[i])
      <4>1. CASE i = 0
        BY <4>1, <2>a
      <4>2. CASE i = 1
        <5>1. i - 1 = 0
          BY <4>2
        <5> QED
          BY <4>2, <5>1, <2>a, <2>1
      <4> QED
        BY <4>1, <4>2
    <3> QED
      BY <2>2, <3>1
  <2>4. PICK g : g = [i \in 0..1 |-> IF i = 0 THEN a ELSE Closed(g[i - 1], order[i])] /\ r = g[1]
    BY <2>1, <2>3, <1>1 DEF AllClosed
  <2>5. g[0] = a
    BY <2>4
  <2>6. r = Closed(a, h)
    <3>1. 1 - 1 = 0 /\ 1 \in 0..1 /\ 1 # 0
      OBVIOUS
    <3>2. g[1] = Closed(g[1 - 1], order[1])
      BY <2>4, <3>1
    <3> QED
      BY <3>1, <3>2, <2>4, <2>5, <2>1
  <2>7. conns # {}
    BY <1>3
  <2> QED
    BY <2>6, <2>7, ClosedFacts
<1> QED
  BY <1>2, <1>3

\* What the registration of one characteristic leaves in each field.
LEMMA RegisterFields ==
  ASSUME hooked, NEW a, DOMAIN a = AppFields, NEW chr, NEW r, r = gatts_register_cb(a, chr)
  PROVE  /\ DOMAIN r = AppFields /\ r.SUBSCRIBERS = a.SUBSCRIBERS /\ r.heard = a.heard
         /\ r.NEEDS_ADV = a.NEEDS_ADV
         /\ r.IND_VAL = IF chr.uuid = "IND" THEN chr.val ELSE a.IND_VAL
         /\ r.RECV_VAL = IF chr.uuid = "RECV" THEN chr.val ELSE a.RECV_VAL
<1>1. PICK ev : ev = [type |-> "Register", uuid |-> chr.uuid, def |-> chr.def, val |-> chr.val]
  OBVIOUS
<1>2. ev.type = "Register" /\ ev.uuid = chr.uuid /\ ev.val = chr.val
  BY <1>1
<1>3. r = on_gatts_event(a, ev)
  BY <1>1 DEF gatts_register_cb
<1>4. r = RegisterCharacteristic(a, ev)
  BY <1>2, <1>3 DEF on_gatts_event
<1>5. CASE chr.uuid = "IND"
  <2>1. r = [a EXCEPT !.IND_VAL = chr.val]
    BY <1>2, <1>4, <1>5 DEF RegisterCharacteristic
  <2> QED
    BY <1>5, <2>1 DEF AppFields
<1>6. CASE chr.uuid = "RECV"
  <2>1. r = [a EXCEPT !.RECV_VAL = chr.val]
    BY <1>2, <1>4, <1>6 DEF RegisterCharacteristic
  <2> QED
    BY <1>6, <2>1 DEF AppFields
<1>7. CASE chr.uuid \notin {"IND", "RECV"}
  <2>1. r = a
    BY <1>2, <1>4, <1>7 DEF RegisterCharacteristic
  <2> QED
    BY <1>7, <2>1
<1> QED
  BY <1>5, <1>6, <1>7

\* The only characteristic of chrs with that UUID.
SoleIn(chrs, uuid, i) == \A j \in DOMAIN chrs : chrs[j].uuid = uuid <=> j = i

\* The hook has learnt the value handles of chrs, and nothing else changed.
Learnt(a, r, chrs) ==
  /\ DOMAIN r = AppFields /\ r.SUBSCRIBERS = a.SUBSCRIBERS /\ r.heard = a.heard
  /\ r.NEEDS_ADV = a.NEEDS_ADV
  /\ \A i \in DOMAIN chrs : /\ SoleIn(chrs, "IND", i) => r.IND_VAL = chrs[i].val
                            /\ SoleIn(chrs, "RECV", i) => r.RECV_VAL = chrs[i].val

\* The registration of all of them: the hook ends up with the value handle
\* of the one that bears the name.
LEMMA RegisteredFacts ==
  ASSUME hooked, NEW a, DOMAIN a = AppFields, NEW chrs, Len(chrs) \in Nat,
         DOMAIN chrs = 1..Len(chrs), NEW r, r = Registered(a, chrs)
  PROVE  Learnt(a, r, chrs)
<1> DEFINE Is(f, m) == f = [i \in 0..m |-> IF i = 0 THEN a ELSE gatts_register_cb(f[i - 1], chrs[i])]
           S == {m \in Nat : \E f : Is(f, m)}
<1>1. 0 \in S
  <2>1. PICK f : f = [i \in 0..0 |-> a]
    OBVIOUS
  <2>2. Is(f, 0)
    BY <2>1
  <2> QED
    BY <2>2
<1>2. ASSUME NEW m \in Nat, m \in S PROVE m + 1 \in S
  <2>1. PICK f : Is(f, m)
    BY <1>2
  <2>2. PICK g : g = [i \in 0..(m + 1) |-> IF i = m + 1 THEN gatts_register_cb(f[m], chrs[m + 1]) ELSE f[i]]
    OBVIOUS
  <2>3. ASSUME NEW i \in 0..(m + 1)
        PROVE  g[i] = IF i = 0 THEN a ELSE gatts_register_cb(g[i - 1], chrs[i])
    <3>1. CASE i = m + 1
      <4>1. i # 0 /\ i - 1 = m /\ m # m + 1 /\ m \in 0..(m + 1)
        BY <3>1
      <4>2. g[m] = f[m] /\ g[i] = gatts_register_cb(f[m], chrs[m + 1])
        BY <2>2, <3>1, <4>1
      <4> QED
        BY <3>1, <4>1, <4>2
    <3>2. CASE i # m + 1
      <4>1. i \in 0..m
        BY <3>2
      <4>2. g[i] = f[i]
        BY <2>2, <3>2
      <4>3. f[i] = IF i = 0 THEN a ELSE gatts_register_cb(f[i - 1], chrs[i])
        BY <2>1, <4>1
      <4>4. i # 0 => g[i - 1] = f[i - 1]
        BY <2>2, <4>1
      <4> QED
        BY <4>2, <4>3, <4>4
    <3> QED
      BY <3>1, <3>2
  <2>4. Is(g, m + 1)
    BY <2>2, <2>3
  <2> HIDE DEF Is
  <2> QED
    BY <2>4
<1>3. Len(chrs) \in S
  <2> HIDE DEF S
  <2>1. \A n \in 0..Len(chrs) : n \in S
    BY <1>1, <1>2, Upwards, SMTT(30)
  <2> QED
    BY <2>1
<1>4. PICK f : Is(f, Len(chrs)) /\ r = f[Len(chrs)]
  BY <1>3 DEF Registered
<1> DEFINE P(b, m) ==
      /\ DOMAIN b = AppFields /\ b.SUBSCRIBERS = a.SUBSCRIBERS /\ b.heard = a.heard
      /\ b.NEEDS_ADV = a.NEEDS_ADV
      /\ \A i \in 1..m : /\ SoleIn(chrs, "IND", i) => b.IND_VAL = chrs[i].val
                         /\ SoleIn(chrs, "RECV", i) => b.RECV_VAL = chrs[i].val
           A == {m \in Nat : m <= Len(chrs) => P(f[m], m)}
<1>5. 0 \in A
  <2>1. f[0] = a
    BY <1>4
  <2>2. P(a, 0)
    OBVIOUS
  <2> QED
    BY <2>1, <2>2
<1>6. ASSUME NEW m \in 0..(Len(chrs) - 1), m \in A PROVE m + 1 \in A
  <2>1. m + 1 \in 0..Len(chrs) /\ m + 1 # 0 /\ (m + 1) - 1 = m /\ m + 1 \in DOMAIN chrs
    OBVIOUS
  <2>3. PICK b : b = f[m]
    OBVIOUS
  <2>4. PICK c : c = f[m + 1]
    OBVIOUS
  <2>2. c = gatts_register_cb(b, chrs[m + 1])
    <3>1. f[m + 1] = gatts_register_cb(f[(m + 1) - 1], chrs[m + 1])
      BY <1>4, <2>1
    <3> QED
      BY <3>1, <2>1, <2>3, <2>4
  <2>5. P(b, m)
    BY <1>6, <2>1, <2>3
  <2>7. /\ DOMAIN c = AppFields /\ c.SUBSCRIBERS = b.SUBSCRIBERS /\ c.heard = b.heard
        /\ c.NEEDS_ADV = b.NEEDS_ADV
        /\ c.IND_VAL = IF chrs[m + 1].uuid = "IND" THEN chrs[m + 1].val ELSE b.IND_VAL
        /\ c.RECV_VAL = IF chrs[m + 1].uuid = "RECV" THEN chrs[m + 1].val ELSE b.RECV_VAL
    <3>1. DOMAIN b = AppFields
      BY <2>5
    <3>2. PICK chr : chr = chrs[m + 1]
      OBVIOUS
    <3>3. c = gatts_register_cb(b, chr)
      BY <2>2, <3>2
    <3> HIDE DEF P
    <3>4. /\ DOMAIN c = AppFields /\ c.SUBSCRIBERS = b.SUBSCRIBERS /\ c.heard = b.heard
          /\ c.NEEDS_ADV = b.NEEDS_ADV
          /\ c.IND_VAL = IF chr.uuid = "IND" THEN chr.val ELSE b.IND_VAL
          /\ c.RECV_VAL = IF chr.uuid = "RECV" THEN chr.val ELSE b.RECV_VAL
      BY <3>1, <3>3, RegisterFields, ZenonT(30)
    <3> QED
      BY <3>2, <3>4
  <2>9. ASSUME NEW i \in 1..(m + 1), SoleIn(chrs, "IND", i) PROVE c.IND_VAL = chrs[i].val
    <3>1. CASE i = m + 1
      BY <2>1, <2>7, <2>9, <3>1 DEF SoleIn
    <3>2. CASE i # m + 1
      <4>1. chrs[m + 1].uuid # "IND" /\ i \in 1..m
        BY <2>1, <2>9, <3>2 DEF SoleIn
      <4> QED
        BY <2>5, <2>7, <2>9, <4>1
    <3> QED
      BY <3>1, <3>2
  <2>10. ASSUME NEW i \in 1..(m + 1), SoleIn(chrs, "RECV", i) PROVE c.RECV_VAL = chrs[i].val
    <3>1. CASE i = m + 1
      BY <2>1, <2>7, <2>10, <3>1 DEF SoleIn
    <3>2. CASE i # m + 1
      <4>1. chrs[m + 1].uuid # "RECV" /\ i \in 1..m
        BY <2>1, <2>10, <3>2 DEF SoleIn
      <4> QED
        BY <2>5, <2>7, <2>10, <4>1
    <3> QED
      BY <3>1, <3>2
  <2>8. P(c, m + 1)
    BY <2>5, <2>7, <2>9, <2>10
  <2> HIDE DEF P
  <2> QED
    BY <2>1, <2>4, <2>8
<1>7. Len(chrs) \in A
  <2> HIDE DEF A
  <2>1. \A n \in 0..Len(chrs) : n \in A
    BY <1>5, <1>6, Upwards
  <2> QED
    BY <2>1
<1>8. P(r, Len(chrs))
  BY <1>4, <1>7
<1> QED
  BY <1>8 DEF Learnt

-----------------------------------------------------------------------------
(* The steps of the construction.                                          *)

\* The four arrays.
LEMMA AllocsFacts ==
  /\ ToSet(Allocs) = {"chars", "svc_uuids", "chr_defs", "svc_defs"}
  /\ Allocs[1] = "chars" /\ Allocs[2] = "svc_uuids" /\ Allocs[3] = "chr_defs" /\ Allocs[4] = "svc_defs"
  BY DEF Allocs, ToSet

\* The registered characteristics are what the host makes of the services.
LEMMA DbFacts ==
  ASSUME BuildInv, HostInv
  PROVE  db \in Seq(Attrs) /\ Len(db) \in Nat /\ DOMAIN db = 1..Len(db)
<1>1. CASE pc = "run"
  <2>1. services \in Seq(Services)
    BY GattServerAssumption DEF BuildInv
  <2>2. Len(services) \in 0..Len(services)
    BY <2>1, LenProperties
  <2>3. Attributes(services) \in Seq(Attrs)
    BY <2>1, <2>2, DatabaseFacts DEF Attributes
  <2>4. db \in Seq(Attrs)
    BY <1>1, <2>3 DEF HostInv
  <2> QED
    BY <2>4, LenProperties
<1>2. CASE pc # "run"
  <2>1. db = << >>
    BY <1>2 DEF HostInv
  <2>2. << >> \in Seq(Attrs)
    OBVIOUS
  <2>3. db \in Seq(Attrs)
    BY <2>1, <2>2
  <2> QED
    BY <2>3, LenProperties
<1> QED
  BY <1>1, <1>2

\* What a step that leaves the table alone keeps.
LEMMA BuildFrame ==
  ASSUME BuildInv, TableFaithful, UNCHANGED buildVars
  PROVE  BuildInv' /\ TableFaithful'
  BY DEF BuildInv, TableFaithful, HeapBalanced, buildVars, Allocs, Lengths, total_chars

\* No characteristics, nothing to say of them.
LEMMA NoDb ==
  ASSUME NEW d, d = << >>
  PROVE  DOMAIN d = {}
  OBVIOUS

\* An allocation, and what a failed one gives back.
LEMMA BuildAllocStep ==
  ASSUME IInv, BuildAlloc
  PROVE  IInv'
<1> USE DEF IInv
<1>1. PICK a : a = Allocs[built + 1]
  OBVIOUS
<1>2. PICK len : len = Lengths(services)[a]
  OBVIOUS
<1>3. pc = "build" /\ builder = "dynamic" /\ built \in 0..3
  BY DEF BuildAlloc, BuildInv
<1>4. a \in ToSet(Allocs)
  BY <1>1, <1>3, AllocsFacts
<1>5. ASSUME NEW b \in ToSet(Allocs)
      PROVE  (\E i \in 1..(built + 1) : Allocs[i] = b) <=> (b = a \/ \E i \in 1..built : Allocs[i] = b)
  BY <1>1, <1>3, AllocsFacts
<1>6. \A i \in 1..built : Allocs[i] # a
  BY <1>1, <1>3, AllocsFacts
<1>7. \A b \in ToSet(Allocs) :
        heap[b] = IF Lengths(services)[b] # 0 /\ \E i \in 1..built : Allocs[i] = b THEN 1 ELSE 0
  BY <1>3 DEF BuildInv, HeapBalanced
<1>8. \/ heap' = new_zeroed(heap, a, len) /\ built' = built + 1
         /\ pc' = IF built = 3 THEN "new" ELSE "build"
      \/ heap' = DropFirst(heap, built) /\ pc' = "failed" /\ built' = built
  BY <1>1, <1>2 DEF BuildAlloc
<1>9. UNCHANGED <<services, builder, table, hostVars, app, hooked, history>>
  BY DEF BuildAlloc
<1>10. BuildInv'
  <2>1. CASE heap' = new_zeroed(heap, a, len) /\ built' = built + 1
             /\ pc' = IF built = 3 THEN "new" ELSE "build"
    <3>1. heap' = [b \in ToSet(Allocs) |-> heap'[b]]
      BY <2>1 DEF BuildInv, new_zeroed
    <3>2. ASSUME NEW b \in ToSet(Allocs)
          PROVE  heap'[b] = IF Lengths(services)[b] # 0 /\ \E i \in 1..(built + 1) : Allocs[i] = b
                            THEN 1 ELSE 0
      <4>1. CASE b = a
        <5>1. heap[a] = 0
          BY <1>4, <1>6, <1>7
        <5>2. heap'[a] = IF len = 0 THEN 0 ELSE 1
          BY <1>4, <2>1, <5>1 DEF new_zeroed, BuildInv
        <5> QED
          BY <1>2, <1>5, <4>1, <5>2
      <4>2. CASE b # a
        <5>1. heap'[b] = heap[b]
          BY <1>4, <2>1, <4>2 DEF new_zeroed, BuildInv
        <5> QED
          BY <1>5, <1>7, <4>2, <5>1
      <4> QED
        BY <4>1, <4>2
    <3>3. HeapBalanced'
      BY <1>3, <1>9, <2>1, <3>2 DEF HeapBalanced, Allocs, Lengths, total_chars
    <3> QED
      BY <1>3, <1>9, <2>1, <3>1, <3>3 DEF BuildInv, Allocs
  <2>2. CASE heap' = DropFirst(heap, built) /\ pc' = "failed" /\ built' = built
    <3>1. heap' = [b \in ToSet(Allocs) |-> heap'[b]]
      BY <2>2 DEF DropFirst
    <3>2. ASSUME NEW b \in ToSet(Allocs) PROVE heap'[b] = 0
      <4>1. heap'[b] = IF \E i \in 1..built : Allocs[i] = b
                       THEN DropCSlice(heap[b], Lengths(services)[b]) ELSE heap[b]
        BY <2>2 DEF DropFirst
      <4> QED
        BY <1>7, <4>1 DEF DropCSlice
    <3>3. HeapBalanced'
      BY <2>2, <3>2 DEF HeapBalanced, Allocs
    <3> QED
      BY <1>3, <1>9, <2>2, <3>1, <3>3 DEF BuildInv, Allocs
  <2> QED
    BY <1>8, <2>1, <2>2
<1>11. pc' \in {"build", "new", "failed"}
  BY <1>8
<1>12. TableFaithful'
  BY <1>11 DEF TableFaithful
<1>13. HostInv' /\ OnePeer'
  BY <1>3, <1>9, <1>11 DEF HostInv, OnePeer, hostVars, history
<1>14. HandlesInv' /\ SubsInv'
  BY <1>11 DEF HandlesInv, SubsInv
<1>15. AckedWasHeard'
  BY <1>3, <1>9, NoDb DEF HostInv, AckedWasHeard, DeclaredOnce, hostVars
<1> QED
  BY <1>10, <1>12, <1>13, <1>14, <1>15

\* The finished table goes to the host, which reads what was declared.
LEMMA NewDriverStep ==
  ASSUME IInv, NewDriver
  PROVE  IInv'
<1> USE DEF IInv
<1>1. pc = "new" /\ pc' = "start" /\ hooked' = TRUE
      /\ UNCHANGED <<services, builder, heap, built, hostVars, app, history>>
  BY DEF NewDriver
<1>2. services \in Seq(Services)
  BY GattServerAssumption DEF BuildInv
<1>3. Walk(table') = services'
  <2>1. CASE builder = "static"
    BY <1>1, <1>2, <2>1, StaticTableWalk DEF NewDriver
  <2>2. CASE builder # "static"
    BY <1>1, <1>2, <2>2, NewTableWalk DEF NewDriver
  <2> QED
    BY <2>1, <2>2
<1>4. TableFaithful'
  BY <1>3 DEF TableFaithful
<1>5. BuildInv'
  BY <1>1 DEF BuildInv, HeapBalanced, Allocs, Lengths, total_chars
<1>6. HostInv' /\ OnePeer'
  BY <1>1 DEF HostInv, OnePeer, hostVars, history
<1>7. HandlesInv' /\ SubsInv'
  BY <1>1 DEF HandlesInv, SubsInv
<1>8. AckedWasHeard'
  BY <1>1, NoDb DEF HostInv, AckedWasHeard, DeclaredOnce, hostVars
<1> QED
  BY <1>4, <1>5, <1>6, <1>7, <1>8

\* The driver goes, and its table with it.
LEMMA DropDriverStep ==
  ASSUME IInv, DropDriver
  PROVE  IInv'
<1> USE DEF IInv
<1>1. /\ pc \in {"start", "run"} /\ pc' = "dropped" /\ heap' = DropFirst(heap, built)
      /\ db' = << >> /\ ~synced' /\ ~advertising' /\ conns' = {} /\ cccd' = {}
      /\ UNCHANGED <<services, builder, built, table, app, history>>
  BY DEF DropDriver
<1>2. heap' = [b \in ToSet(Allocs) |-> heap'[b]]
  BY <1>1 DEF DropFirst
<1>3. ASSUME NEW b \in ToSet(Allocs) PROVE heap'[b] = 0
  <2>1. heap'[b] = IF \E i \in 1..built : Allocs[i] = b
                   THEN DropCSlice(heap[b], Lengths(services)[b]) ELSE heap[b]
    BY <1>1 DEF DropFirst
  <2>2. heap[b] = IF builder = "dynamic" /\ Lengths(services)[b] # 0 /\ \E i \in 1..built : Allocs[i] = b
                  THEN 1 ELSE 0
    BY <1>1 DEF BuildInv, HeapBalanced
  <2>3. CASE builder = "dynamic"
    BY <2>1, <2>2, <2>3 DEF DropCSlice
  <2>4. CASE builder = "static"
    BY <2>1, <2>2, <2>4 DEF BuildInv
  <2> QED
    BY <2>3, <2>4 DEF BuildInv
<1>4. HeapBalanced'
  BY <1>1, <1>3 DEF HeapBalanced, Allocs
<1>5. BuildInv'
  BY <1>1, <1>2, <1>4 DEF BuildInv, Allocs
<1>6. TableFaithful' /\ HandlesInv' /\ SubsInv'
  BY <1>1 DEF TableFaithful, HandlesInv, SubsInv
<1>7. HostInv' /\ OnePeer'
  BY <1>1 DEF HostInv, OnePeer, history
<1>8. AckedWasHeard'
  BY <1>1, NoDb DEF AckedWasHeard, DeclaredOnce
<1> QED
  BY <1>5, <1>6, <1>7, <1>8

-----------------------------------------------------------------------------
(* The steps of the host and of the application.                           *)

\* A peer, or the host in sync, means that the driver runs.
LEMMA Running ==
  ASSUME HostInv, synced \/ advertising \/ conns # {}
  PROVE  pc = "run"
  BY DEF HostInv

\* Hooks that take no write away keep what was heard.
LEMMA HeardFrame ==
  ASSUME AckedWasHeard, UNCHANGED <<db, acked>>, app'.heard = app.heard
  PROVE  AckedWasHeard'
  BY DEF AckedWasHeard, DeclaredOnce

\* Hooks that keep the handles keep what is known of them.
LEMMA HandlesFrame ==
  ASSUME HandlesInv, UNCHANGED <<pc, db>>, Kept(app, app')
  PROVE  HandlesInv'
  BY DEF HandlesInv, OnlyOne, Kept

\* The host starts: the hook learns the handles.
LEMMA HostStartStep ==
  ASSUME IInv, HostStart
  PROVE  IInv'
<1> USE DEF IInv
<1>1. /\ pc = "start" /\ pc' = "run" /\ hooked
      /\ db' = Attributes(Walk(table)) /\ app' = Registered(app, db')
      /\ UNCHANGED <<services, builder, heap, built, table, synced, advertising, conns, cccd,
                     hooked, history>>
  BY DEF HostStart, HostInv
<1>2. db' = Attributes(services)
  BY <1>1 DEF TableFaithful
<1>3. services \in Seq(Services)
  BY GattServerAssumption DEF BuildInv
<1>4. Len(services) \in 0..Len(services)
  BY <1>3, LenProperties
<1>5. PICK chrs \in Seq(Attrs) : chrs = db'
  BY <1>2, <1>3, <1>4, DatabaseFacts DEF Attributes
<1>6. Len(chrs) \in Nat /\ DOMAIN chrs = 1..Len(chrs)
  BY <1>5, LenProperties
<1>7. PICK r : r = app'
  OBVIOUS
<1>8. DOMAIN app = AppFields
  BY DEF HostInv
<1>9. Learnt(app, r, chrs)
  <2>1. PICK a : a = app
    OBVIOUS
  <2>2. DOMAIN a = AppFields /\ r = Registered(a, chrs) /\ hooked
    BY <1>1, <1>5, <1>7, <1>8, <2>1
  <2>3. Learnt(a, r, chrs)
    BY <1>6, <2>2, RegisteredFacts
  <2> QED
    BY <2>1, <2>3
<1>10. BuildInv' /\ TableFaithful'
  BY <1>1 DEF BuildInv, TableFaithful, HeapBalanced, Allocs, Lengths, total_chars
<1>11. conns = {} /\ cccd = {} /\ ~synced /\ ~advertising /\ app.SUBSCRIBERS = << >> /\ acked = {}
  BY <1>1 DEF HostInv
<1>12. HostInv'
  BY <1>1, <1>2, <1>7, <1>9, <1>11 DEF HostInv, Learnt
<1>13. OnePeer'
  BY <1>1, <1>11 DEF OnePeer
<1>14. HandlesInv'
  BY <1>5, <1>7, <1>9 DEF HandlesInv, OnlyOne, SoleIn, Learnt
<1>15. SubsInv'
  BY <1>1, <1>7, <1>9, <1>11 DEF SubsInv, Learnt
<1>16. AckedWasHeard'
  BY <1>1, <1>11 DEF AckedWasHeard, history
<1> QED
  BY <1>10, <1>12, <1>13, <1>14, <1>15, <1>16

\* The host comes into sync: the flag goes up.
LEMMA SyncStep ==
  ASSUME IInv, on_sync
  PROVE  IInv'
<1> USE DEF IInv
<1>1. /\ pc = "run" /\ ~synced /\ synced'
      /\ app' = [app EXCEPT !.NEEDS_ADV = TRUE]
      /\ UNCHANGED <<buildVars, db, advertising, conns, cccd, hooked, history>>
  BY DEF on_sync, on_host_event
<1>2. Kept(app, app') /\ app'.SUBSCRIBERS = app.SUBSCRIBERS
  BY <1>1 DEF Kept, HostInv, AppFields
<1>3. BuildInv' /\ TableFaithful'
  BY <1>1, BuildFrame
<1>4. ~advertising /\ conns = {}
  BY <1>1 DEF OnePeer
<1>5. HostInv'
  BY <1>1, <1>2 DEF HostInv, buildVars, history, Kept
<1>6. OnePeer'
  BY <1>1, <1>4 DEF OnePeer
<1>7. HandlesInv'
  BY <1>1, <1>2, HandlesFrame DEF buildVars
<1>8. SubsInv'
  BY <1>1, <1>2 DEF SubsInv, OnlyOne, buildVars
<1>9. AckedWasHeard'
  BY <1>1, <1>2, HeardFrame DEF history, Kept
<1> QED
  BY <1>3, <1>5, <1>6, <1>7, <1>8, <1>9

\* A reset: the peer, if there is one, leaves the list.
LEMMA ResetStep ==
  ASSUME IInv, on_reset
  PROVE  IInv'
<1> USE DEF IInv
<1>1. /\ synced /\ ~synced' /\ ~advertising' /\ conns' = {} /\ cccd' = {}
      /\ app' = AllClosed(app)
      /\ UNCHANGED <<buildVars, db, hooked, acked>>
  BY DEF on_reset, on_host_event
<1>2. pc = "run" /\ pc' = "run"
  BY <1>1, Running DEF buildVars
<1>3. Len(db) \in Nat /\ DOMAIN app = AppFields
  BY DbFacts DEF HostInv
<1>4. PICK h : conns = {} \/ conns = {h}
  <2>1. CASE conns = {}
    BY <2>1
  <2>2. CASE conns # {}
    <3>1. PICK g : g \in conns
      BY <2>2
    <3>2. conns = {g}
      BY <3>1 DEF OnePeer
    <3> QED
      BY <3>2
  <2> QED
    BY <2>1, <2>2
<1>5. PICK r : r = app'
  OBVIOUS
<1>6. /\ Kept(app, r)
      /\ conns = {} => r = app
      /\ conns = {h} /\ app.SUBSCRIBERS \in {<< >>, <<h>>} => r.SUBSCRIBERS = << >>
  BY <1>1, <1>3, <1>4, <1>5, AllClosedFacts
<1>7. BuildInv' /\ TableFaithful'
  BY <1>1, BuildFrame
<1>8. HostInv'
  BY <1>1, <1>2, <1>5, <1>6 DEF HostInv, buildVars, Kept
<1>9. OnePeer'
  BY <1>1 DEF OnePeer
<1>10. HandlesInv'
  BY <1>1, <1>5, <1>6, HandlesFrame DEF buildVars
<1>11. SubsInv'
  <2>1. ASSUME hooked, NEW i \in DOMAIN db, OnlyOne("IND", i) PROVE r.SUBSCRIBERS = << >>
    <3>1. conns = {} => app.SUBSCRIBERS = << >>
      BY <1>2, <2>1 DEF SubsInv
    <3>2. conns = {h} => app.SUBSCRIBERS \in {<< >>, <<h>>}
      BY <1>2, <2>1 DEF SubsInv
    <3> QED
      BY <1>4, <1>6, <3>1, <3>2
  <2> QED
    BY <1>1, <1>5, <2>1 DEF SubsInv, OnlyOne
<1>12. AckedWasHeard'
  BY <1>1, <1>5, <1>6, HeardFrame DEF Kept
<1> QED
  BY <1>7, <1>8, <1>9, <1>10, <1>11, <1>12

\* A peer connects, or fails to, which the hooks do not see.
LEMMA ConnectStep ==
  ASSUME IInv, NEW h \in Conns, PeerConnect(h)
  PROVE  IInv'
<1> USE DEF IInv
<1>1. /\ advertising /\ ~advertising' /\ conns' \in {conns, conns \cup {h}}
      /\ UNCHANGED <<buildVars, db, synced, cccd, hooked, acked>>
  BY DEF PeerConnect
<1>2. app' = app
  <2>1. PICK ev : ev = [type |-> "Connect", conn |-> h]
    OBVIOUS
  <2>2. ev.type = "Connect"
    BY <2>1
  <2>3. app' = gap_event_cb(app, ev)
    BY <2>1 DEF PeerConnect
  <2> QED
    BY <2>2, <2>3 DEF gap_event_cb, on_gap_event
<1>3. pc = "run" /\ pc' = "run"
  BY <1>1, Running DEF buildVars
<1>4. conns = {} /\ synced /\ ~app.NEEDS_ADV
  BY <1>1 DEF OnePeer
<1>5. conns' = {} \/ conns' = {h}
  BY <1>1, <1>4
<1>6. cccd = {}
  BY <1>4 DEF HostInv
<1>7. BuildInv' /\ TableFaithful'
  BY <1>1, BuildFrame
<1>8. HostInv'
  BY <1>1, <1>2, <1>3, <1>5, <1>6 DEF HostInv, buildVars
<1>9. OnePeer'
  BY <1>1, <1>2, <1>4, <1>5 DEF OnePeer
<1>10. HandlesInv'
  BY <1>1, <1>2 DEF HandlesInv, OnlyOne, buildVars
<1>11. SubsInv'
  <2>1. ASSUME hooked, NEW i \in DOMAIN db, OnlyOne("IND", i) PROVE app.SUBSCRIBERS = << >>
    BY <1>3, <1>4, <2>1 DEF SubsInv
  <2> QED
    BY <1>1, <1>2, <1>6, <2>1 DEF SubsInv, OnlyOne
<1>12. AckedWasHeard'
  BY <1>1, <1>2, HeardFrame
<1> QED
  BY <1>7, <1>8, <1>9, <1>10, <1>11, <1>12

\* A peer goes: it leaves the list, and the flag goes up.
LEMMA DisconnectStep ==
  ASSUME IInv, NEW h \in Conns, PeerDisconnect(h)
  PROVE  IInv'
<1> USE DEF IInv
<1>1. /\ h \in conns /\ conns' = conns \ {h} /\ cccd' = {s \in cccd : s[1] # h}
      /\ app' = Closed(app, h)
      /\ UNCHANGED <<buildVars, db, synced, advertising, hooked, acked>>
  BY DEF PeerDisconnect
<1>2. pc = "run" /\ pc' = "run"
  BY <1>1, Running DEF buildVars
<1>3. conns = {h}
  BY <1>1 DEF OnePeer
<1>4. conns' = {} /\ cccd' = {} /\ ~advertising
  <2>1. \A s \in cccd : s[1] = h
    BY <1>3 DEF HostInv
  <2> QED
    BY <1>1, <1>3, <2>1 DEF OnePeer
<1>5. Len(db) \in Nat /\ DOMAIN app = AppFields
  BY DbFacts DEF HostInv
<1>6. PICK r : r = app'
  OBVIOUS
<1>7. /\ Kept(app, r) /\ r.NEEDS_ADV = TRUE
      /\ app.SUBSCRIBERS \in {<< >>, <<h>>} => r.SUBSCRIBERS = << >>
  BY <1>1, <1>5, <1>6, ClosedFacts
<1>8. BuildInv' /\ TableFaithful'
  BY <1>1, BuildFrame
<1>9. HostInv'
  BY <1>1, <1>2, <1>4, <1>6, <1>7 DEF HostInv, buildVars, Kept
<1>10. OnePeer'
  BY <1>1, <1>4 DEF OnePeer
<1>11. HandlesInv'
  BY <1>1, <1>6, <1>7, HandlesFrame DEF buildVars
<1>12. SubsInv'
  <2>1. ASSUME hooked, NEW i \in DOMAIN db, OnlyOne("IND", i) PROVE r.SUBSCRIBERS = << >>
    <3>1. app.SUBSCRIBERS \in {<< >>, <<h>>}
      BY <1>1, <1>2, <2>1 DEF SubsInv
    <3> QED
      BY <1>7, <3>1
  <2> QED
    BY <1>1, <1>4, <1>6, <2>1 DEF SubsInv, OnlyOne
<1>13. AckedWasHeard'
  BY <1>1, <1>6, <1>7, HeardFrame DEF Kept
<1> QED
  BY <1>8, <1>9, <1>10, <1>11, <1>12, <1>13

\* A CCCD is written: the list follows when it is the one of IND.
LEMMA SubscribeStep ==
  ASSUME IInv, NEW h \in Conns, NEW chr \in ToSet(db), NEW on \in BOOLEAN, PeerSubscribe(h, chr, on)
  PROVE  IInv'
<1> USE DEF IInv
<1>1. /\ h \in conns
      /\ cccd' = IF on THEN cccd \cup {<<h, chr.val>>} ELSE cccd \ {<<h, chr.val>>}
      /\ app' = gap_event_cb(app, [type |-> "SubscriptionChanged", conn |-> h, attr |-> chr.val,
                                   cur_indicate |-> on])
      /\ UNCHANGED <<buildVars, db, synced, advertising, conns, hooked, acked>>
  BY DEF PeerSubscribe
<1>2. pc = "run" /\ pc' = "run"
  BY <1>1, Running DEF buildVars
<1>3. conns = {h}
  BY <1>1 DEF OnePeer
<1>4. DOMAIN app = AppFields
  BY DEF HostInv
<1>5. PICK v \in Nat : v = chr.val
  <2>1. PICK i \in DOMAIN db : db[i] = chr
    BY DEF ToSet
  <2>2. db[i] \in Attrs
    BY <2>1, DbFacts, ElementOfSeq
  <2> QED
    BY <2>1, <2>2 DEF Attrs
<1>6. PICK r : r = app'
  OBVIOUS
<1>7. /\ Kept(app, r) /\ r.NEEDS_ADV = app.NEEDS_ADV
      /\ ~(hooked /\ v = app.IND_VAL) => r = app
      /\ hooked /\ v = app.IND_VAL =>
           r.SUBSCRIBERS = IF on /\ Len(retain(app.SUBSCRIBERS, h)) < MAX_SUBSCRIBERS
                           THEN Append(retain(app.SUBSCRIBERS, h), h)
                           ELSE retain(app.SUBSCRIBERS, h)
  <2>1. PICK a : a = app
    OBVIOUS
  <2>2. r = gap_event_cb(a, [type |-> "SubscriptionChanged", conn |-> h, attr |-> v,
                             cur_indicate |-> on])
    BY <1>1, <1>5, <1>6, <2>1
  <2>3. DOMAIN a = AppFields
    BY <1>4, <2>1
  <2>4. /\ Kept(a, r) /\ r.NEEDS_ADV = a.NEEDS_ADV
        /\ ~(hooked /\ v = a.IND_VAL) => r = a
        /\ hooked /\ v = a.IND_VAL =>
             r.SUBSCRIBERS = IF on /\ Len(retain(a.SUBSCRIBERS, h)) < MAX_SUBSCRIBERS
                             THEN Append(retain(a.SUBSCRIBERS, h), h)
                             ELSE retain(a.SUBSCRIBERS, h)
    BY <2>2, <2>3, SubscribeEvent
  <2> QED
    BY <2>1, <2>4
<1>8. BuildInv' /\ TableFaithful'
  BY <1>1, BuildFrame
<1>9. HostInv'
  <2>1. cccd' \subseteq conns' \X Nat
    BY <1>1, <1>5 DEF HostInv
  <2> QED
    BY <1>1, <1>2, <1>6, <1>7, <2>1 DEF HostInv, buildVars, Kept
<1>10. OnePeer'
  BY <1>1, <1>6, <1>7 DEF OnePeer
<1>11. HandlesInv'
  BY <1>1, <1>6, <1>7, HandlesFrame DEF buildVars
<1>12. SubsInv'
  <2>1. ASSUME hooked, NEW i \in DOMAIN db, OnlyOne("IND", i)
        PROVE  r.SUBSCRIBERS = IF <<h, db[i].val>> \in cccd' THEN <<h>> ELSE << >>
    <3>1. app.SUBSCRIBERS = IF <<h, db[i].val>> \in cccd THEN <<h>> ELSE << >>
      BY <1>1, <1>2, <2>1 DEF SubsInv
    <3>2. app.IND_VAL = db[i].val
      BY <1>2, <2>1 DEF HandlesInv
    <3>3. CASE v = app.IND_VAL
      <4>1. retain(app.SUBSCRIBERS, h) = << >>
        BY <3>1, RetainEmpty, RetainOne
      <4>2. Len(<< >>) < MAX_SUBSCRIBERS /\ Append(<< >>, h) = <<h>>
        BY GattServerAssumption
      <4>3. r.SUBSCRIBERS = IF on THEN <<h>> ELSE << >>
        BY <1>7, <2>1, <3>3, <4>1, <4>2
      <4>4. <<h, db[i].val>> \in cccd' <=> on
        BY <1>1, <1>5, <3>2, <3>3
      <4> QED
        BY <4>3, <4>4
    <3>4. CASE v # app.IND_VAL
      <4>1. <<h, db[i].val>> # <<h, chr.val>>
        BY <1>5, <3>2, <3>4
      <4>2. <<h, db[i].val>> \in cccd' <=> <<h, db[i].val>> \in cccd
        BY <1>1, <4>1
      <4> QED
        BY <1>7, <3>1, <3>4, <4>2
    <3> QED
      BY <3>3, <3>4
  <2>2. conns' = {h} /\ db' = db /\ hooked' = hooked
    BY <1>1, <1>3
  <2> QED
    BY <1>6, <2>1, <2>2 DEF SubsInv, OnlyOne
<1>13. AckedWasHeard'
  BY <1>1, <1>6, <1>7, HeardFrame DEF Kept
<1> QED
  BY <1>8, <1>9, <1>10, <1>11, <1>12, <1>13

\* An access: a write that is answered 0 was heard.
LEMMA AccessStep ==
  ASSUME IInv, NEW h \in Conns, NEW chr \in ToSet(db), NEW op \in {"Read", "Write"},
         PeerAccess(h, chr, op)
  PROVE  IInv'
<1> USE DEF IInv
<1>1. h \in conns /\ UNCHANGED <<buildVars, hostVars, hooked, got, faults, resets>>
  BY DEF PeerAccess
<1>2. pc = "run" /\ pc' = "run"
  BY <1>1, Running DEF buildVars
<1>3. DOMAIN app = AppFields
  BY DEF HostInv
<1>4. PICK v : v = chr.val
  OBVIOUS
<1>5. CASE ~hooked
  <2>1. gatts_access_cb(app, v, op) = [app |-> app, status |-> "UNLIKELY"]
    BY <1>5 DEF gatts_access_cb
  <2>2. app' = app /\ acked' = acked
    BY <1>4, <2>1 DEF PeerAccess
  <2>3. BuildInv' /\ TableFaithful'
    BY <1>1, BuildFrame
  <2>4. HostInv' /\ OnePeer'
    BY <1>1, <1>2, <2>2 DEF HostInv, OnePeer, buildVars, hostVars
  <2>5. HandlesInv' /\ SubsInv'
    BY <1>1, <1>2, <1>5, <2>2 DEF HandlesInv, SubsInv, OnlyOne, hostVars
  <2>6. AckedWasHeard'
    BY <1>1, <2>2, HeardFrame DEF hostVars
  <2> QED
    BY <2>3, <2>4, <2>5, <2>6
<1>6. CASE hooked
  <2>1. PICK ev : ev = [type |-> op, attr |-> v]
    OBVIOUS
  <2>2. ev.type = op /\ ev.attr = v
    BY <2>1
  <2>3. PICK r : r = on_gatts_event(app, ev)
    OBVIOUS
  <2>4. gatts_access_cb(app, v, op) = [app |-> r, status |-> "OK"]
    BY <1>6, <2>1, <2>3 DEF gatts_access_cb
  <2>5. app' = r /\ acked' = IF op = "Write" THEN acked \cup {v} ELSE acked
    BY <1>4, <2>4 DEF PeerAccess
  <2>6. r = IF op = "Write" /\ v = app.RECV_VAL THEN [app EXCEPT !.heard = @ \cup {v}] ELSE app
    BY <2>2, <2>3 DEF on_gatts_event
  <2>7. /\ DOMAIN r = AppFields /\ r.IND_VAL = app.IND_VAL /\ r.RECV_VAL = app.RECV_VAL
        /\ r.SUBSCRIBERS = app.SUBSCRIBERS /\ r.NEEDS_ADV = app.NEEDS_ADV
        /\ r.heard = IF op = "Write" /\ v = app.RECV_VAL THEN app.heard \cup {v} ELSE app.heard
    <3>1. CASE op = "Write" /\ v = app.RECV_VAL
      <4>1. r = [app EXCEPT !.heard = @ \cup {v}]
        BY <2>6, <3>1
      <4> QED
        BY <1>3, <3>1, <4>1 DEF AppFields
    <3>2. CASE ~(op = "Write" /\ v = app.RECV_VAL)
      BY <1>3, <2>6, <3>2
    <3> QED
      BY <3>1, <3>2
  <2>8. BuildInv' /\ TableFaithful'
    BY <1>1, BuildFrame
  <2>9. HostInv'
    BY <1>1, <1>2, <2>5, <2>7 DEF HostInv, buildVars, hostVars
  <2>10. OnePeer'
    BY <1>1, <2>5, <2>7 DEF OnePeer, hostVars
  <2>11. HandlesInv'
    BY <1>1, <1>2, <2>5, <2>7 DEF HandlesInv, OnlyOne, hostVars
  <2>12. SubsInv'
    BY <1>1, <1>2, <1>6, <2>5, <2>7 DEF SubsInv, OnlyOne, hostVars
  <2>13. AckedWasHeard'
    <3>1. db' = db
      BY <1>1 DEF hostVars
    <3>2. ASSUME DeclaredOnce("RECV"), NEW i \in DOMAIN db, db[i].uuid = "RECV", db[i].val \in acked'
          PROVE  db[i].val \in r.heard
      <4>1. OnlyOne("RECV", i)
        BY <3>2 DEF DeclaredOnce, OnlyOne
      <4>2. app.RECV_VAL = db[i].val
        BY <1>2, <4>1 DEF HandlesInv
      <4>3. CASE db[i].val \in acked
        <5>1. db[i].val \in app.heard
          BY <3>2, <4>3 DEF AckedWasHeard
        <5> QED
          BY <2>7, <5>1
      <4>4. CASE db[i].val \notin acked
        <5>1. op = "Write" /\ v = db[i].val
          BY <2>5, <3>2, <4>4
        <5> QED
          BY <2>7, <4>2, <5>1
      <4> QED
        BY <4>3, <4>4
    <3> QED
      BY <2>5, <3>1, <3>2 DEF AckedWasHeard, DeclaredOnce
  <2> QED
    BY <2>8, <2>9, <2>10, <2>11, <2>12, <2>13
<1> QED
  BY <1>5, <1>6

\* The application takes its hook away.
LEMMA UnhookStep ==
  ASSUME IInv, gatts_unsubscribe
  PROVE  IInv'
<1> USE DEF IInv
<1>1. pc = "run" /\ ~hooked' /\ UNCHANGED <<buildVars, hostVars, app, got, acked, resets>>
  BY DEF gatts_unsubscribe
<1>2. BuildInv' /\ TableFaithful'
  BY <1>1, BuildFrame
<1>3. HostInv' /\ OnePeer'
  BY <1>1 DEF HostInv, OnePeer, buildVars, hostVars
<1>4. HandlesInv' /\ SubsInv'
  BY <1>1 DEF HandlesInv, SubsInv, OnlyOne, buildVars, hostVars
<1>5. AckedWasHeard'
  BY <1>1, HeardFrame DEF hostVars
<1> QED
  BY <1>2, <1>3, <1>4, <1>5

\* A round of the application: it advertises when the flag is up, and then
\* there is no peer.
LEMMA TickStep ==
  ASSUME IInv, Tick
  PROVE  IInv'
<1> USE DEF IInv
<1>1. /\ pc = "run" /\ app' = [app EXCEPT !.NEEDS_ADV = FALSE]
      /\ UNCHANGED <<buildVars, db, synced, conns, cccd, hooked, acked, resets>>
  BY DEF Tick
<1>2. /\ Kept(app, app') /\ app'.SUBSCRIBERS = app.SUBSCRIBERS
  BY <1>1 DEF Kept, HostInv, AppFields
<1>3. ~app'.NEEDS_ADV
  BY <1>1 DEF HostInv, AppFields
<1>4. advertising' => synced /\ conns = {}
  <2>1. PICK o \in IF app.NEEDS_ADV THEN start_advertising ELSE {<<advertising, 0>>} : advertising' = o[1]
    BY DEF Tick
  <2>2. CASE ~app.NEEDS_ADV
    <3>1. o[1] = advertising
      BY <2>1, <2>2
    <3> QED
      BY <2>1, <3>1 DEF OnePeer
  <2>3. CASE app.NEEDS_ADV
    <3>1. conns = {}
      BY <2>3 DEF OnePeer
    <3>2. o \in start_advertising
      BY <2>1, <2>3
    <3>3. CASE ~synced
      <4>1. ~advertising
        BY <3>3 DEF OnePeer
      <4>2. ~adv_start(ble_gap_adv_start)
        BY <3>3 DEF adv_start, ble_gap_adv_start
      <4>3. o[1] = advertising \/ o[1] = (advertising \/ adv_start(ble_gap_adv_start))
        BY <3>2 DEF start_advertising
      <4> QED
        BY <2>1, <4>1, <4>2, <4>3
    <3>4. CASE synced
      BY <3>1, <3>4
    <3> QED
      BY <3>3, <3>4
  <2> QED
    BY <2>2, <2>3
<1>5. BuildInv' /\ TableFaithful'
  BY <1>1, BuildFrame
<1>6. HostInv'
  BY <1>1, <1>2 DEF HostInv, buildVars, Kept
<1>7. OnePeer'
  BY <1>1, <1>3, <1>4 DEF OnePeer
<1>8. HandlesInv'
  BY <1>1, <1>2, HandlesFrame DEF buildVars
<1>9. SubsInv'
  BY <1>1, <1>2 DEF SubsInv, OnlyOne, buildVars
<1>10. AckedWasHeard'
  BY <1>1, <1>2, HeardFrame DEF Kept
<1> QED
  BY <1>5, <1>6, <1>7, <1>8, <1>9, <1>10

-----------------------------------------------------------------------------
(* The theorems.                                                           *)

\* Nothing is built, connected or subscribed at first.
LEMMA InitIInv ==
  ASSUME Init
  PROVE  IInv
<1>1. BuildInv
  BY DEF Init, BuildInv, HeapBalanced
<1>2. TableFaithful /\ HandlesInv /\ SubsInv
  BY DEF Init, TableFaithful, HandlesInv, SubsInv
<1>3. HostInv
  BY DEF Init, HostInv, AppFields
<1>4. OnePeer
  BY DEF Init, OnePeer
<1>5. AckedWasHeard
  BY DEF Init, AckedWasHeard
<1> QED
  BY <1>1, <1>2, <1>3, <1>4, <1>5 DEF IInv

\* A step that changes nothing keeps everything.
LEMMA StutterIInv ==
  ASSUME IInv, UNCHANGED vars
  PROVE  IInv'
<1>1. UNCHANGED <<buildVars, hostVars, app, hooked, acked>>
  BY DEF vars, history
<1>2. BuildInv' /\ TableFaithful'
  BY <1>1, BuildFrame DEF IInv
<1>3. HostInv' /\ OnePeer'
  BY <1>1 DEF IInv, HostInv, OnePeer, buildVars, hostVars
<1>4. HandlesInv' /\ SubsInv'
  BY <1>1 DEF IInv, HandlesInv, SubsInv, OnlyOne, buildVars, hostVars
<1>5. AckedWasHeard'
  BY <1>1, HeardFrame DEF IInv, hostVars
<1> QED
  BY <1>2, <1>3, <1>4, <1>5 DEF IInv

\* Every step keeps the invariant.
LEMMA NextIInv ==
  ASSUME IInv, [Next]_vars
  PROVE  IInv'
<1>1. CASE BuildAlloc
  BY <1>1, BuildAllocStep
<1>2. CASE NewDriver
  BY <1>2, NewDriverStep
<1>3. CASE DropDriver
  BY <1>3, DropDriverStep
<1>4. CASE HostStart
  BY <1>4, HostStartStep
<1>5. CASE on_sync
  BY <1>5, SyncStep
<1>6. CASE on_reset
  BY <1>6, ResetStep
<1>7. CASE Peers
  <2>1. ASSUME NEW h \in Conns, PeerConnect(h) PROVE IInv'
    BY <2>1, ConnectStep
  <2>2. ASSUME NEW h \in Conns, PeerDisconnect(h) PROVE IInv'
    BY <2>2, DisconnectStep
  <2>3. ASSUME NEW h \in Conns, NEW chr \in ToSet(db), NEW on \in BOOLEAN, PeerSubscribe(h, chr, on)
        PROVE  IInv'
    BY <2>3, SubscribeStep
  <2>4. ASSUME NEW h \in Conns, NEW chr \in ToSet(db), NEW op \in {"Read", "Write"},
               PeerAccess(h, chr, op)
        PROVE  IInv'
    BY <2>4, AccessStep
  <2> QED
    BY <1>7, <2>1, <2>2, <2>3, <2>4 DEF Peers
<1>8. CASE gatts_unsubscribe
  BY <1>8, UnhookStep
<1>9. CASE Tick
  BY <1>9, TickStep
<1>10. CASE UNCHANGED vars
  BY <1>10, StutterIInv
<1> QED
  BY <1>1, <1>2, <1>3, <1>4, <1>5, <1>6, <1>7, <1>8, <1>9, <1>10 DEF Next

\* The inductive invariant holds in every reachable state.
THEOREM Invariance == Spec => []IInv
<1>1. Init => IInv
  BY InitIInv
<1>2. IInv /\ [Next]_vars => IInv'
  BY NextIInv
<1> QED
  BY <1>1, <1>2, PTL DEF Spec

\* The host reads out of the table exactly the services the program declared,
\* however many and of whatever shape, from either constructor
\* (BleGattServices::new and gatt_services! in gatt/server.rs).
THEOREM TablesFaithful == Spec => []TableFaithful
<1>1. IInv => TableFaithful
  BY DEF IInv
<1> QED
  BY <1>1, Invariance, PTL

\* Every array of the table is freed exactly once, on the failure of a later
\* allocation or with the driver, and an empty one never (CSlice in mem.rs).
THEOREM HeapStaysBalanced == Spec => []HeapBalanced
<1>1. IInv => HeapBalanced
  BY DEF IInv, BuildInv
<1> QED
  BY <1>1, Invariance, PTL

\* The example's list of subscribers is the peers with indications on, each
\* once, whatever the number of services, connections and repetitions.
THEOREM SubscribersMirrored == Spec => []SubscribersMirror
<1>1. ASSUME IInv, pc = "run", hooked, DeclaredOnce("IND")
      PROVE  /\ ToSet(app.SUBSCRIBERS) = IndicationsOn
             /\ Len(app.SUBSCRIBERS) = Cardinality(ToSet(app.SUBSCRIBERS))
             /\ Cardinality(conns) <= 1
  <2> USE DEF IInv
  <2>1. PICK i \in DOMAIN db : OnlyOne("IND", i)
    BY <1>1 DEF DeclaredOnce, OnlyOne
  <2>2. IndicationsOn = {h \in Conns : <<h, db[i].val>> \in cccd}
    BY <2>1 DEF IndicationsOn, OnlyOne
  <2>3. \A h : <<h, db[i].val>> \in cccd => h \in conns
    BY <1>1 DEF HostInv
  <2>4. ToSet(<< >>) = {} /\ Len(<< >>) = 0 /\ Cardinality({}) = 0
    BY FS_EmptySet DEF ToSet
  <2>5. CASE conns = {}
    <3>1. app.SUBSCRIBERS = << >>
      BY <1>1, <2>1, <2>5 DEF SubsInv
    <3>2. IndicationsOn = {}
      BY <2>2, <2>3, <2>5
    <3>3. Cardinality(conns) <= 1
      <4>1. Cardinality(conns) = 0
        BY <2>4, <2>5
      <4> QED
        BY <4>1
    <3>4. Len(app.SUBSCRIBERS) = 0 /\ Cardinality(ToSet(app.SUBSCRIBERS)) = 0
      BY <2>4, <3>1, Zenon
    <3> QED
      BY <2>4, <3>1, <3>2, <3>3, <3>4
  <2>6. CASE conns # {}
    <3>1. PICK h \in Conns : h \in conns
      BY <1>1, <2>6 DEF HostInv
    <3>2. conns = {h}
      BY <1>1, <3>1 DEF OnePeer
    <3>3. Cardinality({h}) = 1 /\ ToSet(<<h>>) = {h} /\ Len(<<h>>) = 1
      <4>1. Cardinality({h}) = 1
        BY FS_Singleton
      <4>2. ToSet(<<h>>) = {h}
        BY DEF ToSet
      <4>3. Len(<<h>>) = 1
        OBVIOUS
      <4> QED
        BY <4>1, <4>2, <4>3
    <3>4. CASE <<h, db[i].val>> \in cccd
      <4>1. app.SUBSCRIBERS = <<h>>
        BY <1>1, <2>1, <3>1, <3>4 DEF SubsInv
      <4>2. IndicationsOn = {h}
        BY <2>2, <2>3, <3>1, <3>2, <3>4
      <4> QED
        BY <3>2, <3>3, <4>1, <4>2
    <3>5. CASE <<h, db[i].val>> \notin cccd
      <4>1. app.SUBSCRIBERS = << >>
        BY <1>1, <2>1, <3>1, <3>5 DEF SubsInv
      <4>2. IndicationsOn = {}
        BY <2>2, <2>3, <3>2, <3>5
      <4>3. Len(app.SUBSCRIBERS) = 0 /\ Cardinality(ToSet(app.SUBSCRIBERS)) = 0
        BY <2>4, <4>1, Zenon
      <4>4. Cardinality(conns) <= 1
        BY <3>2, <3>3
      <4> QED
        BY <2>4, <4>1, <4>2, <4>3, <4>4
    <3> QED
      BY <3>4, <3>5
  <2> QED
    BY <2>5, <2>6
<1>2. IInv => SubscribersMirror
  BY <1>1 DEF SubscribersMirror
<1> QED
  BY <1>2, Invariance, PTL

\* A write that the host acknowledged has reached the example's hook
\* (gatts_access_cb in lib.rs).
THEOREM AcknowledgedHeard == Spec => []AckedWasHeard
<1>1. IInv => AckedWasHeard
  BY DEF IInv
<1> QED
  BY <1>1, Invariance, PTL
===============================================================================
