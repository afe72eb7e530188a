------------------------------ MODULE GattServer ------------------------------
(***************************************************************************)
(* A GATT server on nimble-rs: the service table from its construction on  *)
(* the C heap to its release, the callbacks of lib.rs that route the C     *)
(* host's events to the hooks, the GAP calls of gap.rs, and the server     *)
(* example (examples/app/src/gatt_server.rs and its two std variants),     *)
(* which uses them all.                                                    *)
(*                                                                         *)
(* The example runs on one executor thread.  A hook runs inside the run    *)
(* task's poll, and one round of the application's loop does not yield:    *)
(* each is one step.  The C host is external: it registers the table,      *)
(* synchronises with the controller and resets, and reports what peers do. *)
(***************************************************************************)
EXTENDS GattTable

CONSTANTS
  ServiceLists,     \* the services a program may declare
  Conns,            \* connection handles; a handle is used again once it is free
  MAX_SUBSCRIBERS,
  MaxFaults,        \* bound: failed calls, failed connects, unsubscriptions
  MaxResets         \* bound: resets of the host

ASSUME GattServerAssumption ==
  /\ ServiceLists \subseteq Seq(Services)
  /\ MAX_SUBSCRIBERS \in Nat \ {0} /\ MaxFaults \in Nat /\ MaxResets \in Nat

VARIABLES
  services,    \* what the program declared
  builder,     \* with BleGattServices::new or gatt_services!
  heap,        \* per array of the table: allocations minus frees
  built,       \* how many arrays BleGattServices::new has
  pc,          \* construction, then "run" until the driver is dropped
  table,       \* what the C host was given
  db,          \* the characteristics it registered
  synced, advertising,
  conns,       \* the open connections
  cccd,        \* the <<connection, value handle>> that have indications on
  app,         \* the example's statics; heard is the writes its hook took
  hooked,      \* GATTS_CALLBACK is set
  got,         \* history: the subscriptions that have had an indication
  acked,       \* history: the handles for which a write was answered 0
  faults, resets

hostVars == <<db, synced, advertising, conns, cccd>>
buildVars == <<services, builder, heap, built, pc, table>>
history == <<got, acked, faults, resets>>
vars == <<buildVars, hostVars, app, hooked, history>>

Allocs == <<"chars", "svc_uuids", "chr_defs", "svc_defs">>

Init ==
  /\ services \in ServiceLists
  /\ builder \in {"static", "dynamic"}
  /\ heap = [a \in ToSet(Allocs) |-> 0] /\ built = 0
  /\ pc = IF builder = "static" THEN "new" ELSE "build"
  /\ table = [a \in {} |-> ZERO]
  /\ db = << >> /\ synced = FALSE /\ advertising = FALSE /\ conns = {} /\ cccd = {}
  /\ app = [SUBSCRIBERS |-> << >>, IND_VAL |-> 0, RECV_VAL |-> 0, NEEDS_ADV |-> FALSE, heard |-> {}]
  /\ hooked = FALSE /\ got = {} /\ acked = {} /\ faults = 0 /\ resets = 0

-----------------------------------------------------------------------------
(* CSlice (mem.rs) and the construction of the table.                      *)

new_zeroed(h, a, len) == IF len = 0 THEN h ELSE [h EXCEPT ![a] = @ + 1]

\* Fault: an empty slice is freed too.
DropEmpty(count, len) == count - 1

DropCSlice(count, len) == IF len = 0 THEN count ELSE count - 1

\* What goes out of scope with the first n slices.
DropFirst(h, n) ==
  [a \in ToSet(Allocs) |->
     IF \E i \in 1..n : Allocs[i] = a THEN DropCSlice(h[a], Lengths(services)[a]) ELSE h[a]]

\* BleGattServices::new: four allocations, each of which may fail and then
\* takes the earlier ones with it.
BuildAlloc ==
  /\ pc = "build"
  /\ LET a   == Allocs[built + 1]
         len == Lengths(services)[a]
     IN  \/ /\ heap' = new_zeroed(heap, a, len)
            /\ built' = built + 1
            /\ pc' = IF built = 3 THEN "new" ELSE "build"
         \/ /\ len # 0
            /\ heap' = DropFirst(heap, built)
            /\ pc' = "failed" /\ UNCHANGED built
  /\ UNCHANGED <<services, builder, table, hostVars, app, hooked, history>>

\* The table is filled in and handed to new_with_services; the example
\* subscribes before it runs the driver.
NewDriver ==
  /\ pc = "new"
  /\ table' = IF builder = "static" THEN StaticTable(services) ELSE NewTable(services)
  /\ pc' = "start" /\ hooked' = TRUE
  /\ UNCHANGED <<services, builder, heap, built, hostVars, app, history>>

\* The driver is dropped, and its table with it.
DropDriver ==
  /\ pc \in {"start", "run"}
  /\ pc' = "dropped" /\ hooked' = FALSE
  /\ heap' = DropFirst(heap, built)
  /\ db' = << >> /\ synced' = FALSE /\ advertising' = FALSE /\ conns' = {} /\ cccd' = {}
  /\ UNCHANGED <<services, builder, built, table, app, history>>

-----------------------------------------------------------------------------
(* The example's hooks.                                                    *)

retain(subs, h) ==
  LET kept[i \in 0..Len(subs)] ==
        IF i = 0 THEN << >>
        ELSE IF subs[i] = h THEN kept[i - 1] ELSE Append(kept[i - 1], subs[i])
  IN  kept[Len(subs)]

\* Fault: a peer that writes its CCCD again is listed again.
SubscriptionAdds(a, ev) ==
  IF ev.cur_indicate
  THEN [a EXCEPT !.SUBSCRIBERS = Append(@, ev.conn)]
  ELSE [a EXCEPT !.SUBSCRIBERS = retain(@, ev.conn)]

SubscriptionChanged(a, ev) ==
  LET subs == retain(a.SUBSCRIBERS, ev.conn)
  IN  [a EXCEPT !.SUBSCRIBERS =
         IF ev.cur_indicate /\ Len(subs) < MAX_SUBSCRIBERS THEN Append(subs, ev.conn) ELSE subs]

\* Fault: the hook takes the handle of the declaration.
RegisterDefs(a, ev) ==
  CASE ev.uuid = "IND"  -> [a EXCEPT !.IND_VAL = ev.def]
    [] ev.uuid = "RECV" -> [a EXCEPT !.RECV_VAL = ev.def]
    [] OTHER            -> a

RegisterCharacteristic(a, ev) ==
  CASE ev.uuid = "IND"  -> [a EXCEPT !.IND_VAL = ev.val]
    [] ev.uuid = "RECV" -> [a EXCEPT !.RECV_VAL = ev.val]
    [] OTHER            -> a

on_gatts_event(a, ev) ==
  CASE ev.type = "Register" -> RegisterCharacteristic(a, ev)
    [] ev.type = "Write" /\ ev.attr = a.RECV_VAL -> [a EXCEPT !.heard = @ \cup {ev.attr}]
    [] ev.type = "SubscriptionChanged" /\ ev.attr = a.IND_VAL -> SubscriptionChanged(a, ev)
    [] OTHER -> a

on_gap_event(a, ev) ==
  IF ev.type = "Disconnect"
  THEN [a EXCEPT !.SUBSCRIBERS = retain(@, ev.conn), !.NEEDS_ADV = TRUE]
  ELSE a

\* Fault: the hook re-arms advertising on a reset instead.
ArmsOnReset(a, event) == IF event = "Reset" THEN [a EXCEPT !.NEEDS_ADV = TRUE] ELSE a

on_host_event(a, event) == IF event = "Sync" THEN [a EXCEPT !.NEEDS_ADV = TRUE] ELSE a

-----------------------------------------------------------------------------
(* The callbacks of lib.rs.                                                *)

\* The server-role events go to the GATTS hook, the others to the GAP hook.
gap_event_cb(a, ev) ==
  IF ev.type \in {"SubscriptionChanged", "NotifyComplete"}
  THEN IF hooked THEN on_gatts_event(a, ev) ELSE a
  ELSE on_gap_event(a, ev)

gatts_register_cb(a, chr) ==
  IF hooked
  THEN on_gatts_event(a, [type |-> "Register", uuid |-> chr.uuid, def |-> chr.def, val |-> chr.val])
  ELSE a

\* One call for each characteristic.
Registered(a, chrs) ==
  LET after[i \in 0..Len(chrs)] ==
        IF i = 0 THEN a ELSE gatts_register_cb(after[i - 1], chrs[i])
  IN  after[Len(chrs)]

\* Fault: an access that no hook can answer is answered 0.
AccessUnhooked(a, attr, op) ==
  IF hooked THEN [app |-> on_gatts_event(a, [type |-> op, attr |-> attr]), status |-> "OK"]
  ELSE [app |-> a, status |-> "OK"]

gatts_access_cb(a, attr, op) ==
  IF hooked /\ op \in {"Read", "Write"}
  THEN [app |-> on_gatts_event(a, [type |-> op, attr |-> attr]), status |-> "OK"]
  ELSE [app |-> a, status |-> "UNLIKELY"]

-----------------------------------------------------------------------------
(* The C host.                                                             *)

\* The host starts from inside run: it walks the table and registers it.
HostStart ==
  /\ pc = "start"
  /\ pc' = "run"
  /\ db' = Attributes(Walk(table))
  /\ app' = Registered(app, db')
  /\ UNCHANGED <<services, builder, heap, built, table, synced, advertising, conns, cccd,
                 hooked, history>>

on_sync ==
  /\ pc = "run" /\ ~synced
  /\ synced' = TRUE
  /\ app' = on_host_event(app, "Sync")
  /\ UNCHANGED <<buildVars, db, advertising, conns, cccd, hooked, history>>

\* A connection ends: its subscriptions first, then itself.
Unsubscribe(a, h, chr) ==
  IF <<h, chr.val>> \in cccd
  THEN gap_event_cb(a, [type |-> "SubscriptionChanged", conn |-> h, attr |-> chr.val,
                        cur_indicate |-> FALSE])
  ELSE a

Closed(a, h) ==
  LET after[i \in 0..Len(db)] == IF i = 0 THEN a ELSE Unsubscribe(after[i - 1], h, db[i])
  IN  gap_event_cb(after[Len(db)], [type |-> "Disconnect", conn |-> h])

AllClosed(a) ==
  LET order == SetToSeq(conns)
      after[i \in 0..Len(order)] == IF i = 0 THEN a ELSE Closed(after[i - 1], order[i])
  IN  after[Len(order)]

\* A fatal error: the host drops every connection and what it was doing.
on_reset ==
  /\ synced /\ resets < MaxResets
  /\ resets' = resets + 1
  /\ synced' = FALSE /\ advertising' = FALSE /\ conns' = {} /\ cccd' = {}
  /\ app' = on_host_event(AllClosed(app), "Reset")
  /\ got' = {}
  /\ UNCHANGED <<buildVars, db, hooked, acked, faults>>

\* Connecting ends the advertising, also when it fails.
PeerConnect(h) ==
  /\ advertising /\ h \notin conns
  /\ advertising' = FALSE
  /\ \/ conns' = conns \cup {h} /\ UNCHANGED faults
     \/ faults < MaxFaults /\ faults' = faults + 1 /\ UNCHANGED conns
  /\ app' = gap_event_cb(app, [type |-> "Connect", conn |-> h])
  /\ UNCHANGED <<buildVars, db, synced, cccd, hooked, got, acked, resets>>

\* A peer writes a CCCD, which may change nothing.
PeerSubscribe(h, chr, on) ==
  /\ h \in conns /\ "Indicate" \in chr.flags
  /\ cccd' = IF on THEN cccd \cup {<<h, chr.val>>} ELSE cccd \ {<<h, chr.val>>}
  /\ app' = gap_event_cb(app, [type |-> "SubscriptionChanged", conn |-> h, attr |-> chr.val,
                               cur_indicate |-> on])
  /\ got' = IF on THEN got ELSE got \ {<<h, chr.val>>}
  /\ UNCHANGED <<buildVars, db, synced, advertising, conns, hooked, acked, faults, resets>>

PeerAccess(h, chr, op) ==
  /\ h \in conns /\ op \in chr.flags
  /\ LET r == gatts_access_cb(app, chr.val, op)
     IN  /\ app' = r.app
         /\ acked' = IF op = "Write" /\ r.status = "OK" THEN acked \cup {chr.val} ELSE acked
  /\ UNCHANGED <<buildVars, hostVars, hooked, got, faults, resets>>

PeerDisconnect(h) ==
  /\ h \in conns
  /\ conns' = conns \ {h}
  /\ cccd' = {s \in cccd : s[1] # h} /\ got' = {s \in got : s[1] # h}
  /\ app' = Closed(app, h)
  /\ UNCHANGED <<buildVars, db, synced, advertising, hooked, acked, faults, resets>>

gatts_unsubscribe ==
  /\ pc = "run" /\ hooked /\ faults < MaxFaults
  /\ hooked' = FALSE /\ faults' = faults + 1
  /\ UNCHANGED <<buildVars, hostVars, app, got, acked, resets>>

-----------------------------------------------------------------------------
(* The application's loop, once a second.                                  *)

\* EALREADY is no error to adv_start.
adv_start(rc) == rc \in {"OK", "EALREADY"}

ble_gap_adv_start ==
  IF ~synced THEN "EDISABLED" ELSE IF advertising THEN "EALREADY" ELSE "OK"

\* The address, the name, the payload and the start; each may fail.  What
\* comes of it: whether the host advertises, and the failures.
start_advertising ==
  {<<advertising \/ adv_start(ble_gap_adv_start), 0>>, <<advertising, 1>>}

Tick ==
  /\ pc = "run"
  /\ app' = [app EXCEPT !.NEEDS_ADV = FALSE]
  /\ \E o \in IF app.NEEDS_ADV THEN start_advertising ELSE {<<advertising, 0>>} :
     \E failed \in SUBSET ToSet(app.SUBSCRIBERS) :
       LET n == o[2] + Cardinality(failed)
       IN  /\ faults + n <= MaxFaults
           /\ advertising' = o[1] /\ faults' = faults + n
           /\ got' = IF app.IND_VAL = 0 THEN got
                     ELSE got \cup ((ToSet(app.SUBSCRIBERS) \ failed) \X {app.IND_VAL})
  /\ UNCHANGED <<buildVars, db, synced, conns, cccd, hooked, acked, resets>>

Peers ==
  \E h \in Conns : \/ PeerConnect(h) \/ PeerDisconnect(h)
                   \/ \E chr \in ToSet(db) : \/ \E on \in BOOLEAN : PeerSubscribe(h, chr, on)
                                              \/ \E op \in {"Read", "Write"} : PeerAccess(h, chr, op)

Next ==
  \/ BuildAlloc \/ NewDriver \/ DropDriver \/ HostStart
  \/ on_sync \/ on_reset \/ Peers \/ gatts_unsubscribe \/ Tick

Spec == Init /\ [][Next]_vars

\* The host comes back into sync and the application's task is polled.
FairSpec == Spec /\ WF_vars(on_sync) /\ WF_vars(Tick)

-----------------------------------------------------------------------------
(* Properties                                                              *)

TypeOK ==
  /\ builder \in {"static", "dynamic"} /\ built \in 0..4
  /\ pc \in {"build", "new", "start", "run", "failed", "dropped"}
  /\ conns \subseteq Conns /\ cccd \subseteq Conns \X Nat /\ got \subseteq Conns \X Nat
  /\ app.SUBSCRIBERS \in Seq(Conns) /\ Len(app.SUBSCRIBERS) <= MAX_SUBSCRIBERS
  /\ app.IND_VAL \in Nat /\ app.RECV_VAL \in Nat
  /\ faults \in 0..MaxFaults /\ resets \in 0..MaxResets

\* Whichever way the table is built, what the C host reads out of it is what
\* was declared: every service with its type, its characteristics and their
\* flags, in order (BleGattServices::new, gatt_services!, flags_to_repr).
TableFaithful == pc \in {"start", "run"} => Walk(table) = services

\* Every allocation of the table is freed exactly once: the earlier ones
\* when a later one fails, all of them when the driver is dropped, and an
\* empty array, which never was allocated, not at all (CSlice).
HeapBalanced ==
  \A a \in ToSet(Allocs) :
    heap[a] = IF /\ builder = "dynamic" /\ pc \in {"build", "new", "start", "run"}
                 /\ Lengths(services)[a] # 0 /\ \E i \in 1..built : Allocs[i] = a
              THEN 1 ELSE 0

\* The server has one characteristic of that name.
DeclaredOnce(uuid) == \E i \in DOMAIN db : \A j \in DOMAIN db : db[j].uuid = uuid <=> j = i

IndicationsOn == {h \in Conns : \E i \in DOMAIN db : db[i].uuid = "IND" /\ <<h, db[i].val>> \in cccd}

\* The hook's list is the peers that have indications on, each once, through
\* repeated CCCD writes, disconnects, reused handles and resets; it never
\* overflows, since a server that advertises again only after a disconnect
\* has one peer at a time.
SubscribersMirror ==
  (pc = "run" /\ hooked /\ DeclaredOnce("IND")) =>
     /\ ToSet(app.SUBSCRIBERS) = IndicationsOn
     /\ Len(app.SUBSCRIBERS) = Cardinality(ToSet(app.SUBSCRIBERS))
     /\ Cardinality(conns) <= 1

\* A write that was answered with success reached the hook: the handle it
\* compares with is the one the host dispatches on, and an access with no
\* hook to take it is refused.
AckedWasHeard ==
  DeclaredOnce("RECV") =>
    \A i \in DOMAIN db : (db[i].uuid = "RECV" /\ db[i].val \in acked) => db[i].val \in app.heard

\* A running server without a peer advertises again, after a disconnect and
\* after a reset during which a start was tried in vain, unless a call that
\* could fail did (the flag is cleared before the attempt and not restored).
AdvertisesAgain ==
  (pc = "run" /\ conns = {}) ~> (advertising \/ conns # {} \/ pc = "dropped" \/ faults > 0)

\* A peer that turns indications on gets one.
SubscriberServed ==
  \A h \in Conns :
    (pc = "run" /\ DeclaredOnce("IND") /\ h \in IndicationsOn) ~>
       (h \in {s[1] : s \in got} \/ h \notin IndicationsOn \/ faults > 0)
=============================================================================
