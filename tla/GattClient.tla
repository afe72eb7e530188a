------------------------------ MODULE GattClient ------------------------------
(***************************************************************************)
(* The central role on nimble-rs: the GATT client operations and callbacks *)
(* of gatt/client.rs, the discovery calls of gap.rs, and the programs that *)
(* use them.  These are the GATT client scenario (examples/app) and its    *)
(* std original, the scanner in the same two versions, and a program that  *)
(* makes every client call there is on its connection.                     *)
(*                                                                         *)
(* A hook runs inside the run task's poll, and a program does not yield    *)
(* between two of its waits: each is one step.  The C host and the peer    *)
(* are external.  The peer's attributes are laid out as a nimble-rs server *)
(* lays them out (GattTable).                                              *)
(***************************************************************************)
EXTENDS GattTable

CONSTANTS
  NONE,         \* no connection, no address, no range, no item
  Programs,     \* a subset of {"app", "std", "scanner", "std_scanner", "calls"}
  Addrs,        \* advertisers
  Payloads,     \* advertising payloads, sequences of bytes
  DEVICE_NAME,  \* the bytes of the name to look for
  Peers,        \* the services a peer may have
  MaxProcs,     \* the host's pool of GATT procedures
  MaxCalls,     \* bound: calls of each kind that "calls" makes
  MaxFaults,    \* bound: failed calls and failed connects
  MaxResets     \* bound: resets of the host

CONN_HANDLE == 1

\* What the discovery of services finds, and what the client keeps of it.
Groups == [uuid : STRING, start : Nat, end : Nat]
Ranges == [start : Nat, end : Nat]

ASSUME GattClientAssumption ==
  /\ Programs \subseteq {"app", "std", "scanner", "std_scanner", "calls"}
  /\ NONE \notin Addrs /\ NONE # CONN_HANDLE
  /\ NONE \notin Groups /\ NONE \notin Ranges /\ NONE \notin Attrs
  /\ Payloads \subseteq Seq(Nat) /\ DEVICE_NAME \in Seq(Nat) /\ Peers \subseteq Seq(Services)
  /\ MaxProcs \in Nat \ {0} /\ MaxCalls \in Nat /\ MaxFaults \in Nat /\ MaxResets \in Nat

VARIABLES
  program, pc,
  app,          \* the program's statics; what its hook has heard
  host,         \* the C host: synced, scanning, connecting, the connection
  procs,        \* its GATT procedures, one transaction at a time
  peer,         \* the services of the connected peer (none that "calls" would look at)
  hooked,       \* GATTC_CALLBACK is set
  named,        \* history: the advertisers that sent the name
  hits,         \* history: the writes that reached the peer, <<purpose, handle>>
  calls,        \* history: accepted calls that promise a completion
  faults, resets

history == <<named, hits, calls>>
bounds == <<faults, resets>>
vars == <<program, pc, app, host, procs, peer, hooked, history, bounds>>

Clients == {"app", "std", "calls"}
Ops == {"read", "write"}

Init ==
  /\ program \in Programs
  /\ pc = "sync"
  /\ app = [SYNCED |-> FALSE, PEER |-> NONE, CONN |-> NONE, CONNECTED |-> FALSE,
            DISCONNECTED |-> FALSE, SVC_RANGE |-> NONE, SVC_DONE |-> FALSE, RECV_VAL |-> 0,
            IND_VAL |-> 0, CHR_DONE |-> FALSE, ROUND_DONE |-> FALSE,
            heard |-> FALSE, completed |-> [op \in Ops |-> 0]]
  /\ host = [synced |-> FALSE, scanning |-> FALSE, connecting |-> FALSE, conn |-> NONE,
           terminating |-> FALSE]
  /\ procs = << >> /\ peer = << >> /\ hooked = (program \in Clients)
  /\ named = {} /\ hits = {} /\ calls = [op \in Ops |-> 0] /\ faults = 0 /\ resets = 0

-----------------------------------------------------------------------------
(* The advertising payload: structures of a length, a type and a value.    *)

\* Fault: the length byte itself is not skipped.
HasNameUnskipped(data) ==
  LET rest[i \in 1..(Len(data) + 1)] ==
        /\ i + 1 <= Len(data) /\ data[i] # 0 /\ i + data[i] <= Len(data)
        /\ \/ data[i + 1] = 9 /\ SubSeq(data, i + 2, i + data[i]) = DEVICE_NAME
           \/ rest[i + data[i]]
  IN  rest[1]

adv_has_name(data) ==
  LET rest[i \in 1..(Len(data) + 1)] ==
        /\ i + 1 <= Len(data) /\ data[i] # 0 /\ i + data[i] <= Len(data)
        /\ \/ data[i + 1] = 9 /\ SubSeq(data, i + 2, i + data[i]) = DEVICE_NAME
           \/ rest[i + data[i] + 1]
  IN  rest[1]

\* What it stands for: some prefix of the payload is cut at the positions of
\* whole, non-empty structures, the last of which is the complete name.
CarriesName(data) ==
  \E cut \in SUBSET (1..Len(data)) :
    /\ 1 \in cut
    /\ \A i \in cut : data[i] # 0 /\ i + data[i] <= Len(data)
    /\ \A i \in cut \ {Max(cut)} : Min({j \in cut : j > i}) = i + data[i] + 1
    /\ LET last == Max(cut)
       IN  SubSeq(data, last + 1, last + data[last]) = <<9>> \o DEVICE_NAME

-----------------------------------------------------------------------------
(* The programs' hooks.                                                    *)

on_host_event(a, event) == IF event = "Sync" THEN [a EXCEPT !.SYNCED = TRUE] ELSE a

OnDiscovery(a, ev) ==
  IF adv_has_name(ev.data) /\ a.PEER = NONE THEN [a EXCEPT !.PEER = ev.addr] ELSE a

\* The scenario takes any connect event for a connection, its std original
\* only a successful one.
OnConnect(a, ev) ==
  IF program = "app" \/ ev.ok THEN [a EXCEPT !.CONN = ev.conn, !.CONNECTED = TRUE] ELSE a

on_gap_event(a, ev) ==
  CASE ev.type = "Discovery"  -> OnDiscovery(a, ev)
    [] ev.type = "Connect"    -> OnConnect(a, ev)
    [] ev.type = "Disconnect" -> [a EXCEPT !.DISCONNECTED = TRUE]
    [] OTHER                  -> a

scanner_on_gap_event(a, ev) ==
  IF ev.type = "DiscoveryComplete" THEN [a EXCEPT !.ROUND_DONE = TRUE] ELSE a

OnService(a, ev) ==
  CASE ev.item = NONE         -> [a EXCEPT !.SVC_DONE = TRUE]
    [] ev.item # NONE /\ ev.item.uuid = "SVC" ->
         [a EXCEPT !.SVC_RANGE = [start |-> ev.item.start, end |-> ev.item.end]]
    [] OTHER                  -> a

\* Fault: the end of the discovery counts only when it succeeded.
OnCharacteristicOk(a, ev) ==
  CASE ev.item = NONE /\ ev.ok -> [a EXCEPT !.CHR_DONE = TRUE]
    [] ev.item # NONE /\ ev.item.uuid = "RECV" -> [a EXCEPT !.RECV_VAL = ev.item.val]
    [] ev.item # NONE /\ ev.item.uuid = "IND"  -> [a EXCEPT !.IND_VAL = ev.item.val]
    [] OTHER                  -> a

OnCharacteristic(a, ev) ==
  CASE ev.item = NONE         -> [a EXCEPT !.CHR_DONE = TRUE]
    [] ev.item # NONE /\ ev.item.uuid = "RECV" -> [a EXCEPT !.RECV_VAL = ev.item.val]
    [] ev.item # NONE /\ ev.item.uuid = "IND"  -> [a EXCEPT !.IND_VAL = ev.item.val]
    [] OTHER                  -> a

on_gattc_event(a, ev) ==
  CASE ev.type = "Service"        -> OnService(a, ev)
    [] ev.type = "Characteristic" -> OnCharacteristic(a, ev)
    [] ev.type = "Notify"         -> [a EXCEPT !.heard = TRUE]
    [] OTHER -> IF program = "calls" THEN [a EXCEPT !.completed[ev.type] = @ + 1] ELSE a

-----------------------------------------------------------------------------
(* The callbacks of gatt/client.rs and lib.rs.                             *)

\* All of disc_svc_cb, disc_chr_cb, read_cb and write_cb: item and attr may
\* be null, and the hook is called all the same.
gattc_cb(a, type, item, ok) ==
  IF hooked THEN on_gattc_event(a, [type |-> type, item |-> item, ok |-> ok]) ELSE a

\* Fault: a read that failed has no attribute, and is not reported.
ReadOnlyWithAttr(a, ok) == IF ok THEN gattc_cb(a, "read", NONE, ok) ELSE a

read_cb(a, ok) == gattc_cb(a, "read", NONE, ok)

proc_cb(a, proc, ok) ==
  CASE proc.op = "services"        -> gattc_cb(a, "Service", NONE, ok)
    [] proc.op = "characteristics" -> gattc_cb(a, "Characteristic", NONE, ok)
    [] proc.op = "read"            -> read_cb(a, ok)
    [] proc.op = "write"           -> gattc_cb(a, "write", NONE, ok)

gap_event_cb(a, ev) ==
  IF ev.type = "Notify" THEN gattc_cb(a, "Notify", NONE, TRUE)
  ELSE IF program \in Clients THEN on_gap_event(a, ev) ELSE scanner_on_gap_event(a, ev)

-----------------------------------------------------------------------------
(* The C host's answers to the calls, with the failures it may add.        *)

Outcomes(rc) == {<<rc, 0>>} \cup (IF rc = "OK" THEN {<<"EFAIL", 1>>} ELSE {})

ble_gap_disc ==
  Outcomes(IF ~host.synced THEN "EDISABLED"
           ELSE IF host.scanning \/ host.connecting THEN "EBUSY" ELSE "OK")

ble_gap_connect(h) ==
  Outcomes(IF ~h.synced THEN "EDISABLED"
           ELSE IF h.scanning \/ h.connecting THEN "EBUSY" ELSE "OK")

\* A client call on a connection takes a procedure from the pool.
ble_gattc(conn) ==
  Outcomes(IF host.conn = NONE \/ conn # host.conn THEN "ENOTCONN"
           ELSE IF Len(procs) = MaxProcs THEN "ENOMEM" ELSE "OK")

Spend(n) == faults + n <= MaxFaults /\ faults' = faults + n

\* What a peer's services look like from outside.
View == [p \in Peers \cup {<< >>} |->
           [groups |-> [i \in 1..Len(p) |-> [uuid |-> p[i].uuid, start |-> Group(p, i).start,
                                             end |-> Group(p, i).end]],
            chrs   |-> Attributes(p)]]

\* Discovery goes over what lies in the range, in the order of handles.
discover_services(conn) == [op |-> "services", items |-> View[peer].groups]

\* Fault: the whole database is discovered.
DiscoverEverywhere(conn, range) ==
  [op |-> "characteristics", items |-> View[peer].chrs]

Within(chrs, range) ==
  LET found[i \in 0..Len(chrs)] ==
        IF i = 0 THEN << >>
        ELSE IF chrs[i].def \in range.start..range.end THEN Append(found[i - 1], chrs[i])
        ELSE found[i - 1]
  IN  found[Len(chrs)]

discover_characteristics(conn, range) ==
  [op |-> "characteristics", items |-> Within(View[peer].chrs, range)]

write(conn, purpose, handle) ==
  [op |-> "write", items |-> << >>, purpose |-> purpose, handle |-> handle]

read(conn) == [op |-> "read", items |-> << >>]

-----------------------------------------------------------------------------
(* The C host's steps.                                                     *)

on_sync ==
  /\ ~host.synced /\ pc # "ended"
  /\ host' = [host EXCEPT !.synced = TRUE]
  /\ app' = on_host_event(app, "Sync")
  /\ UNCHANGED <<program, pc, procs, peer, hooked, history, bounds>>

\* A connection ends: its procedures fail, then the event.
Broken(a) ==
  LET after[i \in 0..Len(procs)] ==
        IF i = 0 THEN a ELSE proc_cb(after[i - 1], procs[i], FALSE)
  IN  gap_event_cb(after[Len(procs)], [type |-> "Disconnect"])

LinkLoss ==
  /\ host.conn # NONE /\ pc # "ended"
  /\ host' = [host EXCEPT !.conn = NONE, !.terminating = FALSE]
  /\ app' = Broken(app) /\ procs' = << >>
  /\ UNCHANGED <<program, pc, peer, hooked, history, bounds>>

\* A fatal error ends the connection, the scan and the attempt to connect.
on_reset ==
  /\ host.synced /\ resets < MaxResets /\ pc # "ended"
  /\ resets' = resets + 1
  /\ host' = [synced |-> FALSE, scanning |-> FALSE, connecting |-> FALSE, conn |-> NONE,
           terminating |-> FALSE]
  /\ LET a == IF host.conn # NONE THEN Broken(app) ELSE app
         b == IF host.scanning THEN gap_event_cb(a, [type |-> "DiscoveryComplete"]) ELSE a
         c == IF host.connecting
              THEN gap_event_cb(b, [type |-> "Connect", conn |-> NONE, ok |-> FALSE]) ELSE b
     IN  app' = on_host_event(c, "Reset")
  /\ procs' = << >>
  /\ UNCHANGED <<program, pc, peer, hooked, history, faults>>

AdvReport(addr, data) ==
  /\ host.scanning
  /\ app' = gap_event_cb(app, [type |-> "Discovery", addr |-> addr, data |-> data])
  /\ named' = IF CarriesName(data) THEN named \cup {addr} ELSE named
  /\ UNCHANGED <<program, pc, host, procs, peer, hooked, hits, calls, bounds>>

\* Only the scanners' scans have a duration.
ScanTimeout ==
  /\ host.scanning /\ program \notin Clients
  /\ host' = [host EXCEPT !.scanning = FALSE]
  /\ app' = gap_event_cb(app, [type |-> "DiscoveryComplete"])
  /\ UNCHANGED <<program, pc, procs, peer, hooked, history, bounds>>

\* The attempt to connect may fail, or go on forever.
HostConnect ==
  /\ host.connecting
  /\ \/ /\ peer' \in IF program = "calls" THEN {<< >>} ELSE Peers
        /\ host' = [host EXCEPT !.connecting = FALSE, !.conn = CONN_HANDLE]
        /\ app' = gap_event_cb(app, [type |-> "Connect", conn |-> CONN_HANDLE, ok |-> TRUE])
        /\ UNCHANGED bounds
     \/ /\ Spend(1)
        /\ host' = [host EXCEPT !.connecting = FALSE]
        /\ app' = gap_event_cb(app, [type |-> "Connect", conn |-> NONE, ok |-> FALSE])
        /\ UNCHANGED <<peer, resets>>
  /\ UNCHANGED <<program, pc, procs, hooked, history>>

\* The procedure at the head delivers its next item, or completes.
HostProc ==
  /\ procs # << >> /\ host.conn # NONE /\ pc # "ended"
  /\ LET p == Head(procs)
         type == IF p.op = "services" THEN "Service" ELSE "Characteristic"
     IN  IF p.items # << >>
         THEN /\ app' = gattc_cb(app, type, Head(p.items), TRUE)
              /\ procs' = [procs EXCEPT ![1].items = Tail(@)]
              /\ UNCHANGED hits
         ELSE /\ app' = proc_cb(app, p, TRUE)
              /\ procs' = Tail(procs)
              /\ hits' = IF p.op = "write" THEN hits \cup {<<p.purpose, p.handle>>} ELSE hits
  /\ UNCHANGED <<program, pc, host, peer, hooked, named, calls, bounds>>

\* The peer's characteristics by name, in our service and anywhere.
Chrs(uuid) == {c \in ToSet(View[peer].chrs) : c.uuid = uuid}
OurChrs(uuid) == {c \in Chrs(uuid) : peer[c.svc].uuid = "SVC"}

\* A peer whose CCCD was written pushes indications.
PeerIndicate ==
  /\ host.conn # NONE /\ pc # "ended"
  /\ \E c \in OurChrs("IND") : <<"subscribe", c.val + 1>> \in hits
  /\ app' = gap_event_cb(app, [type |-> "Notify"])
  /\ UNCHANGED <<program, pc, host, procs, peer, hooked, history, bounds>>

-----------------------------------------------------------------------------
(* The programs, from one wait to the next.                                *)

\* Fault: the flag of the last round is still up when the next one starts.
RoundUnreset ==
  \E o \in ble_gap_disc :
    /\ Spend(o[2])
    /\ pc' = IF o[1] = "OK" THEN "round" ELSE "ended"
    /\ host' = [host EXCEPT !.scanning = @ \/ o[1] = "OK"]
    /\ UNCHANGED app

\* One round of a scanner.
ScanRound ==
  \E o \in ble_gap_disc :
    /\ Spend(o[2])
    /\ pc' = IF o[1] = "OK" THEN "round" ELSE "ended"
    /\ host' = [host EXCEPT !.scanning = @ \/ o[1] = "OK"]
    /\ app' = [app EXCEPT !.ROUND_DONE = FALSE]

\* In sync: infer the address (the portable programs), then scan.
Start ==
  /\ pc = "sync" /\ app.SYNCED
  /\ \/ /\ program \in Clients
        /\ \E o \in ble_gap_disc :
             /\ Spend(o[2])
             /\ pc' = IF o[1] = "OK" THEN "scan" ELSE "ended"
             /\ host' = [host EXCEPT !.scanning = (o[1] = "OK")]
        /\ UNCHANGED app
     \/ program \notin Clients /\ ScanRound
     \/ /\ program \in {"app", "scanner"} /\ Spend(1)     \* address
        /\ pc' = "ended" /\ UNCHANGED <<host, app>>
  /\ UNCHANGED <<program, procs, peer, hooked, history, resets>>

\* A round is over: the portable scanner begins the next one.
NextRound ==
  /\ pc = "round" /\ app.ROUND_DONE
  /\ \/ program = "scanner" /\ ScanRound
     \/ program = "std_scanner" /\ pc' = "ended" /\ UNCHANGED <<app, host, faults>>
  /\ UNCHANGED <<program, procs, peer, hooked, history, resets>>

\* Found: cancel the scan, whatever comes of it, and connect.
Found ==
  /\ pc = "scan" /\ app.PEER # NONE
  /\ LET cancelled == [host EXCEPT !.scanning = FALSE]
     IN  \E o \in ble_gap_connect(cancelled) :
           /\ Spend(o[2])
           /\ pc' = IF o[1] = "OK" THEN "connect" ELSE "ended"
           /\ host' = [cancelled EXCEPT !.connecting = (o[1] = "OK")]
  /\ UNCHANGED <<program, app, procs, peer, hooked, history, resets>>

\* A call the program depends on: it panics when the call fails.
Depends(conn, proc, next) ==
  \E o \in ble_gattc(conn) :
    /\ Spend(o[2])
    /\ IF o[1] = "OK" THEN pc' = next /\ procs' = Append(procs, proc)
       ELSE pc' = "ended" /\ UNCHANGED procs

DiscoverServices ==
  /\ pc = "connect" /\ app.CONNECTED
  /\ IF program = "calls" THEN pc' = "calls" /\ UNCHANGED <<procs, faults>>
     ELSE Depends(app.CONN, discover_services(app.CONN), "services")
  /\ UNCHANGED <<program, app, host, peer, hooked, history, resets>>

DiscoverCharacteristics ==
  /\ pc = "services" /\ app.SVC_DONE
  /\ IF app.SVC_RANGE = NONE THEN pc' = "ended" /\ UNCHANGED <<procs, faults>>
     ELSE Depends(app.CONN, discover_characteristics(app.CONN, app.SVC_RANGE), "chrs")
  /\ UNCHANGED <<program, app, host, peer, hooked, history, resets>>

\* The CCCD is taken to be right after the value.
Subscribe ==
  /\ pc = "chrs" /\ app.CHR_DONE
  /\ IF app.RECV_VAL = 0 \/ app.IND_VAL = 0 THEN pc' = "ended" /\ UNCHANGED <<procs, faults>>
     ELSE Depends(app.CONN, write(app.CONN, "subscribe", app.IND_VAL + 1),
                  IF app.DISCONNECTED THEN "ended" ELSE "loop")
  /\ UNCHANGED <<program, app, host, peer, hooked, history, resets>>

\* Once a second: write, and a failure is only logged; then look whether the
\* server is gone.
WriteLoop ==
  /\ pc = "loop"
  /\ \E o \in ble_gattc(app.CONN) :
       /\ Spend(o[2])
       /\ procs' = IF o[1] = "OK" THEN Append(procs, write(app.CONN, "recv", app.RECV_VAL)) ELSE procs
  /\ pc' = IF app.DISCONNECTED THEN "ended" ELSE "loop"
  /\ UNCHANGED <<program, app, host, peer, hooked, history, resets>>

\* The program that makes all the calls.
Call(op) ==
  /\ pc = "calls" /\ calls[op] < MaxCalls
  /\ \E o \in ble_gattc(app.CONN) :
       /\ Spend(o[2])
       /\ procs' = IF o[1] # "OK" THEN procs
                   ELSE Append(procs, IF op = "read" THEN read(app.CONN)
                                      ELSE write(app.CONN, "any", 0))
       /\ calls' = IF o[1] = "OK" THEN [calls EXCEPT ![op] = @ + 1] ELSE calls
  /\ UNCHANGED <<program, pc, app, host, peer, hooked, named, hits, resets>>

\* A write command takes no procedure and promises nothing.
write_cmd ==
  /\ pc = "calls" /\ host.conn # NONE
  /\ hits' = hits \cup {<<"cmd", 0>>}
  /\ UNCHANGED <<program, pc, app, host, procs, peer, hooked, named, calls, bounds>>

\* The host asks the peer's side to end; the event comes later.
disconnect ==
  /\ pc = "calls" /\ host.conn # NONE /\ ~host.terminating
  /\ host' = [host EXCEPT !.terminating = TRUE]
  /\ UNCHANGED <<program, pc, app, procs, peer, hooked, history, bounds>>

gattc_unsubscribe ==
  /\ pc = "calls" /\ hooked /\ Spend(1)
  /\ hooked' = FALSE
  /\ UNCHANGED <<program, pc, app, host, procs, peer, history, resets>>

ProgramStep ==
  \/ Start \/ NextRound \/ Found
  \/ DiscoverServices \/ DiscoverCharacteristics \/ Subscribe \/ WriteLoop

HostStep ==
  \/ on_sync \/ on_reset \/ LinkLoss \/ ScanTimeout \/ HostConnect \/ HostProc \/ PeerIndicate
  \/ \E addr \in Addrs, data \in Payloads : AdvReport(addr, data)

Next ==
  \/ HostStep \/ ProgramStep
  \/ (\E op \in Ops : Call(op)) \/ write_cmd \/ disconnect \/ gattc_unsubscribe

Spec == Init /\ [][Next]_vars

\* The program is polled, and the host works on its procedures.
FairSpec == Spec /\ WF_vars(ProgramStep) /\ WF_vars(HostProc)

-----------------------------------------------------------------------------
(* Properties                                                              *)

TypeOK ==
  /\ program \in Programs
  /\ pc \in {"sync", "scan", "connect", "services", "chrs", "loop", "calls", "round", "ended"}
  /\ app.PEER \in Addrs \cup {NONE} /\ app.CONN \in {NONE, CONN_HANDLE}
  /\ app.RECV_VAL \in Nat /\ app.IND_VAL \in Nat
  /\ host.conn \in {NONE, CONN_HANDLE} /\ Len(procs) <= MaxProcs
  /\ (host.conn = NONE => procs = << >>)
  /\ faults \in 0..MaxFaults /\ resets \in 0..MaxResets

\* The client goes for an advertiser exactly when it has sent a payload that
\* carries the complete name, whatever else the payload holds, empty and
\* truncated structures included; it stays with the first (adv_has_name,
\* on_gap_event).
PeerNamed ==
  program \in Clients => /\ app.PEER = NONE <=> named = {}
                         /\ app.PEER # NONE => app.PEER \in named

\* What the client writes goes where it was meant to: the counter to the
\* recv characteristic and the subscription to the CCCD of the indicate
\* characteristic, both of our service, also when other services of the peer
\* have characteristics of the same names or our service is there twice; a
\* peer whose characteristic cannot indicate has no CCCD and is excepted.
WritesHitTargets ==
  (\A c \in OurChrs("IND") : "Indicate" \in c.flags) =>
    \A w \in hits :
      /\ w[1] = "recv" => \E c \in OurChrs("RECV") : c.val = w[2]
      /\ w[1] = "subscribe" => \E c \in OurChrs("IND") : Width(c) = 3 /\ c.val + 1 = w[2]

\* The procedures of one kind.
Pending(op) == {i \in DOMAIN procs : procs[i].op = op}

\* A call that was accepted is completed exactly once, also when the link
\* goes down with procedures of several kinds pending; a write command is
\* never (read_cb, write_cb).
CompletedOnce ==
  (program = "calls" /\ hooked) =>
    \A op \in Ops : app.completed[op] + Cardinality(Pending(op)) = calls[op]

\* The last of the peer's services of our name, which is the one the client
\* settles for, lacks a characteristic, or there is no such service.
IsLastOurs(i) == peer[i].uuid = "SVC" /\ \A j \in DOMAIN peer : j > i => peer[j].uuid # "SVC"

Unfit ==
  \A i \in DOMAIN peer :
    IsLastOurs(i) => \E uuid \in {"RECV", "IND"} : \A c \in Chrs(uuid) : c.svc # i

\* A program ends only for a reason: a call or a connect failed, the host
\* was reset, the server went away or was discovered to lack what the client
\* needs, or the std scanner's one round is over.  A scanner never runs into
\* its own scan.
EndsForCause ==
  pc = "ended" =>
    \/ faults > 0 \/ resets > 0 \/ app.DISCONNECTED \/ program = "std_scanner"
    \/ program \in Clients /\ app.SVC_DONE /\ Unfit

\* The scenario ends when the server disconnects, whatever it was waiting
\* for at that time: "panics when the server disconnects".
EndsOnDisconnect ==
  (program \in {"app", "std"} /\ app.DISCONNECTED) ~> (pc = "ended")
=============================================================================
