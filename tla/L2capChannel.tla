------------------------------ MODULE L2capChannel ------------------------------
(***************************************************************************)
(* L2CAP channels: the calls and the event callback of                     *)
(* nimble-rs/src/l2cap.rs with the mbufs they pass to the C host and get   *)
(* back from it, at the two ends of the echo example                       *)
(* (examples/std/src/bin/l2cap.rs).                                        *)
(*                                                                         *)
(* Every SDU is in an mbuf of a bounded pool (os_msys).  Which of the      *)
(* wrapper and the C host owns a buffer after a call depends on the code   *)
(* the call returns; a buffer that both free, or neither, shows as a       *)
(* buffer that is not held exactly once.                                   *)
(*                                                                         *)
(* Both programs run on one executor thread: a call is one step, and so is *)
(* an event with everything its hook does.  The C host and the link are    *)
(* external: a credit stands for one receive buffer, messages of one       *)
(* direction arrive in order, the link may be lost.                        *)
(***************************************************************************)
EXTENDS Naturals, Sequences, FiniteSets, SequencesExt

CONSTANTS
  PoolSizes,     \* how many buffers os_msys may have
  MaxSdus,       \* bound: SDUs the client sends
  MaxFaults,     \* bound: failures of the C host and calls the example does not make
  NULL

Ends == {"client", "server"}
Peer(d) == IF d = "client" THEN "server" ELSE "client"

ASSUME L2capAssumption ==
  /\ PoolSizes \subseteq Nat \ {0}
  /\ MaxSdus \in Nat /\ MaxFaults \in Nat
  /\ \A n \in PoolSizes : NULL \notin 1..n

VARIABLES
  dev,       \* per end, one record: what the host has and what the program has
  wire,      \* the messages under way to each end
  up,        \* the link is there
  pc,        \* where the client's program stands
  counter,   \* the number the client sent last
  echoes,    \* the numbers its hook got back
  faults

vars == <<dev, wire, up, pc, counter, echoes, faults>>

(* Of an end: how often each buffer is on the free list of os_msys, the    *)
(* connection and the channel as the host has them with the receive buffer *)
(* and the SDU that waits for credits, the program's CHAN, and whether     *)
(* L2CAP_CALLBACK is set.  The last three are history: buffers the wrapper *)
(* gave up, SDUs that were refused, an event that provided no receive      *)
(* buffer.                                                                 *)
NewEnd(n) ==
  [pool |-> [b \in 1..n |-> 1], link |-> TRUE, chan |-> "none", rx |-> NULL,
   tx |-> NULL, data |-> 0, credits |-> 0, CHAN |-> FALSE, hooked |-> TRUE,
   lost |-> {}, dropped |-> {}, unarmed |-> FALSE]

Init ==
  /\ \E n \in PoolSizes : dev = [d \in Ends |-> NewEnd(n)]
  /\ wire = [d \in Ends |-> << >>]
  /\ up = TRUE
  /\ pc = "connect" /\ counter = 0 /\ echoes = << >> /\ faults = 0

Msg(type, val) == [type |-> type, val |-> val]

\* What a call comes to: the end after it, the code, the messages sent, and
\* how many of the C host's steps in it failed.
Result(v, rc, out, f) == [dev |-> v, rc |-> rc, out |-> out, faults |-> f]
Then(r, s) == [s EXCEPT !.out = r.out \o @, !.faults = r.faults + @]

-----------------------------------------------------------------------------
(* Buffers                                                                 *)

free_mbuf(v, b) == IF b = NULL THEN v ELSE [v EXCEPT !.pool[b] = @ + 1]

\* The buffer that os_msys hands out; which one makes no difference.
alloc_sdu(v) ==
  LET free == {b \in DOMAIN v.pool : v.pool[b] > 0}
  IN  IF free = {} THEN NULL ELSE CHOOSE b \in free : TRUE

Taken(v, b) == [v EXCEPT !.pool[b] = @ - 1]

-----------------------------------------------------------------------------
(* The C host's calls.  A buffer is the host's from some point of a call   *)
(* on; a failure before that point leaves it with the caller.              *)

ble_l2cap_connect(v, b) ==
  IF ~v.link THEN {Result(v, "ENOTCONN", << >>, 0)}
  ELSE {Result([v EXCEPT !.chan = "opening", !.rx = b], "OK", <<Msg("req", 1)>>, 0),
        Result([v EXCEPT !.lost = @ \cup {b}], "ENOMEM", << >>, 1),
        Result(free_mbuf(v, b), "ENOMEM", << >>, 1)}

ble_l2cap_send(v, b, n) ==
  IF v.tx # NULL THEN {Result(v, "EBUSY", << >>, 0)}
  ELSE {IF v.credits = 0
        THEN Result([v EXCEPT !.tx = b, !.data = n], "ESTALLED", << >>, 0)
        ELSE Result(free_mbuf([v EXCEPT !.credits = @ - 1], b), "OK", <<Msg("sdu", n)>>, 0),
        Result(v, "EBADDATA", << >>, 1),
        Result(free_mbuf(v, b), "ENOTCONN", << >>, 1)}

ble_l2cap_recv_ready(v, b) ==
  IF v.rx # NULL THEN {Result(v, "EBUSY", << >>, 0)}
  ELSE {Result([v EXCEPT !.rx = b], "OK",
               IF v.chan = "open" THEN <<Msg("credit", 1)>> ELSE << >>, 0),
        Result([v EXCEPT !.rx = b], "ENOENT", << >>, 1)}

-----------------------------------------------------------------------------
(* The wrappers                                                            *)

\* Fault: ENOMEM is taken for a failure before the host owns the buffer.
ConnectFreesOnNoMem(v) ==
  LET b == alloc_sdu(v)
  IN  IF b = NULL THEN {Result(v, "ENOMEM", << >>, 0)}
      ELSE {IF r.rc \in {"ENOTCONN", "EINVAL", "ENOMEM"}
            THEN [r EXCEPT !.dev = free_mbuf(@, b)] ELSE r
              : r \in ble_l2cap_connect(Taken(v, b), b)}

l2cap_connect(v) ==
  LET b == alloc_sdu(v)
  IN  IF b = NULL THEN {Result(v, "ENOMEM", << >>, 0)}
      ELSE {IF r.rc \in {"ENOTCONN", "EINVAL"} THEN [r EXCEPT !.dev = free_mbuf(@, b)] ELSE r
              : r \in ble_l2cap_connect(Taken(v, b), b)}

\* Fault: a send refused because another one is pending keeps its buffer.
SendKeepsOnBusy(v, n) ==
  LET b == alloc_sdu(v)
  IN  IF b = NULL THEN {Result(v, "ENOMEM", << >>, 0)}
      ELSE {IF r.rc = "EBADDATA" THEN [r EXCEPT !.dev = free_mbuf(@, b)] ELSE r
              : r \in ble_l2cap_send(Taken(v, b), b, n)}

l2cap_send(v, n) ==
  LET b == alloc_sdu(v)
  IN  IF b = NULL THEN {Result(v, "ENOMEM", << >>, 0)}
      ELSE {IF r.rc \in {"EBADDATA", "EBUSY"} THEN [r EXCEPT !.dev = free_mbuf(@, b)] ELSE r
              : r \in ble_l2cap_send(Taken(v, b), b, n)}

l2cap_recv_ready(v) ==
  LET b == alloc_sdu(v)
  IN  IF b = NULL THEN {Result(v, "ENOMEM", << >>, 0)}
      ELSE {IF r.rc \in {"EBUSY", "EINVAL"} THEN [r EXCEPT !.dev = free_mbuf(@, b)] ELSE r
              : r \in ble_l2cap_recv_ready(Taken(v, b), b)}

-----------------------------------------------------------------------------
(* The example's hook.  Its result's code is the status it returns.        *)

Refused(v, n, rc) == IF rc \in {"OK", "ESTALLED"} THEN v ELSE [v EXCEPT !.dropped = @ \cup {n}]
Armed(v, rc) == IF rc = "OK" THEN v ELSE [v EXCEPT !.unarmed = TRUE]

OnAccept(v) ==
  {IF r.rc = "OK" THEN [r EXCEPT !.dev.CHAN = TRUE]
   ELSE [r EXCEPT !.dev.unarmed = TRUE, !.rc = "rejected"] : r \in l2cap_recv_ready(v)}

OnConnected(v, status) ==
  {Result([v EXCEPT !.CHAN = @ \/ status = "OK"], "OK", << >>, 0)}

\* Fault: the echo is sent again without looking at what became of it.
EchoTwice(v, n) == UNION {{Then(r, s) : s \in l2cap_send(r.dev, n)} : r \in l2cap_send(v, n)}

server_driver_echo(v, n) == l2cap_send(v, n)

\* Fault: only an end that echoes asks for the next SDU.
OnReceivedRearms(d, v, n) ==
  IF d = "client" THEN {Result(v, "OK", << >>, 0)}
  ELSE UNION {{[Then(e, r) EXCEPT !.dev = Armed(@, r.rc), !.rc = "OK"]
                 : r \in l2cap_recv_ready(Refused(e.dev, n, e.rc))}
              : e \in server_driver_echo(v, n)}

OnReceived(d, v, n) ==
  UNION {{[Then(e, r) EXCEPT !.dev = Armed(@, r.rc), !.rc = "OK"]
            : r \in l2cap_recv_ready(Refused(e.dev, n, e.rc))}
         : e \in IF d = "server" THEN server_driver_echo(v, n)
                 ELSE {Result(v, "OK", << >>, 0)}}

OnDisconnected(v) == {Result([v EXCEPT !.CHAN = FALSE], "OK", << >>, 0)}

on_l2cap_event(d, v, ev) ==
  CASE ev.type = "Accept"       -> OnAccept(v)
    [] ev.type = "Connected"    -> OnConnected(v, ev.val)
    [] ev.type = "Received"     -> OnReceived(d, v, ev.val)
    [] ev.type = "Disconnected" -> OnDisconnected(v)
    [] OTHER                    -> {Result(v, "OK", << >>, 0)}

-----------------------------------------------------------------------------
(* l2cap_event_cb: sdu is the buffer of a received SDU, else NULL.  Without *)
(* a hook every event is answered 0, an Accept included.                    *)

l2cap_event_cb(d, v, ev, sdu) ==
  {[r EXCEPT !.dev = free_mbuf(@, sdu)]
     : r \in IF v.hooked THEN on_l2cap_event(d, v, ev)
             ELSE {Result(Armed(v, "unhooked"), "OK", << >>, 0)}}

\* The host frees a channel with its buffers and tells the hook.
chan_free(d, v) ==
  l2cap_event_cb(d, [free_mbuf(free_mbuf(v, v.rx), v.tx) EXCEPT
                       !.chan = "closed", !.rx = NULL, !.tx = NULL, !.credits = 0],
                 Msg("Disconnected", 0), NULL)

-----------------------------------------------------------------------------
(* The host's handling of a message from the peer.                         *)

\* An incoming channel: the hook accepts it, or it is freed again.
HostAccept(d, v) ==
  UNION {IF r.rc = "OK"
         THEN {[r EXCEPT !.dev.chan = "open", !.dev.credits = 1,
                         !.out = @ \o <<Msg("rsp", IF r.dev.rx # NULL THEN 1 ELSE 0)>>]}
         ELSE {[Then(r, s) EXCEPT !.out = @ \o <<Msg("refused", 0)>>] : s \in chan_free(d, r.dev)}
         : r \in l2cap_event_cb(d, [v EXCEPT !.chan = "opening"], Msg("Accept", 0), NULL)}

HostRefused(d, v) ==
  UNION {{Then(r, s) : s \in chan_free(d, r.dev)}
         : r \in l2cap_event_cb(d, v, Msg("Connected", "refused"), NULL)}

\* Credits let a stalled send go on, which the hook is told (TxUnstalled); it
\* may still fail for want of memory.
HostCredit(d, v) ==
  IF v.tx = NULL THEN {Result([v EXCEPT !.credits = @ + 1], "OK", << >>, 0)}
  ELSE LET w == [free_mbuf(v, v.tx) EXCEPT !.tx = NULL]
       IN  UNION {{Then(r, s) : s \in l2cap_event_cb(d, r.dev, Msg("TxUnstalled", r.rc), NULL)}
                  : r \in {Result(w, "OK", <<Msg("sdu", v.data)>>, 0),
                           Result([w EXCEPT !.credits = @ + 1, !.dropped = @ \cup {v.data}],
                                  "ENOMEM", << >>, 1)}}

Handle(d, v, m) ==
  IF m.type = "req" THEN HostAccept(d, v)
  ELSE IF v.chan \notin {"opening", "open"} THEN {Result(v, "OK", << >>, 0)}
  ELSE CASE m.type = "rsp"     -> l2cap_event_cb(d, [v EXCEPT !.chan = "open", !.credits = m.val],
                                                 Msg("Connected", "OK"), NULL)
         [] m.type = "refused" -> HostRefused(d, v)
         [] m.type = "credit"  -> HostCredit(d, v)
         [] m.type = "sdu"     -> l2cap_event_cb(d, [v EXCEPT !.rx = NULL],
                                                 Msg("Received", m.val), v.rx)
         [] m.type = "disc"    -> {Then(r, Result(r.dev, "OK", <<Msg("gone", 0)>>, 0))
                                     : r \in chan_free(d, v)}
         [] m.type = "gone"    -> chan_free(d, v)

-----------------------------------------------------------------------------
(* Steps                                                                   *)

\* An end makes a call or handles a message, with one of the outcomes rs,
\* and what it had to say is on its way.
Commit(d, rs, r, taken) ==
  /\ r \in rs
  /\ faults + r.faults <= MaxFaults
  /\ faults' = faults + r.faults
  /\ dev' = [dev EXCEPT ![d] = r.dev]
  /\ wire' = [wire EXCEPT ![d] = SubSeq(@, taken + 1, Len(@)),
                          ![Peer(d)] = IF up THEN @ \o r.out ELSE @]

\* Both programs run until the client leaves its select or panics.
Runs(d) == d = "client" => pc \notin {"done", "panic"}

Receive(d) ==
  /\ Runs(d) /\ wire[d] # << >>
  /\ LET m  == Head(wire[d])
         rs == Handle(d, dev[d], m)
     IN  /\ \E r \in rs : Commit(d, rs, r, 1)
         /\ echoes' = IF d = "client" /\ m.type = "sdu" /\ dev[d].chan = "open"
                      THEN Append(echoes, m.val) ELSE echoes
  /\ UNCHANGED <<up, pc, counter>>

\* amain: open the channel; an error is a panic.
ClientConnect ==
  /\ pc = "connect"
  /\ LET rs == l2cap_connect(dev["client"])
     IN  \E r \in rs : /\ Commit("client", rs, r, 0)
                       /\ pc' = IF r.rc = "OK" THEN "wait" ELSE "panic"
  /\ UNCHANGED <<up, counter, echoes>>

\* The loop that waits for CHAN.
ClientWait ==
  /\ pc = "wait" /\ dev["client"].CHAN
  /\ pc' = "send"
  /\ UNCHANGED <<dev, wire, up, counter, echoes, faults>>

\* Once a second: stop if the connection or the channel is gone, else send.
ClientSend ==
  /\ pc = "send"
  /\ \/ /\ ~dev["client"].CHAN
        /\ pc' = "done"
        /\ UNCHANGED <<dev, wire, counter, faults>>
     \/ /\ dev["client"].CHAN /\ counter < MaxSdus
        /\ counter' = counter + 1
        /\ LET rs == {[r EXCEPT !.dev = Refused(@, counter + 1, r.rc)]
                        : r \in l2cap_send(dev["client"], counter + 1)}
           IN  \E r \in rs : Commit("client", rs, r, 0)
        /\ UNCHANGED pc
  /\ UNCHANGED <<up, echoes>>

\* Calls the example leaves out.
l2cap_disconnect(d) ==
  /\ Runs(d) /\ dev[d].chan = "open" /\ faults < MaxFaults
  /\ faults' = faults + 1
  /\ wire' = [wire EXCEPT ![Peer(d)] = IF up THEN Append(@, Msg("disc", 0)) ELSE @]
  /\ UNCHANGED <<dev, up, pc, counter, echoes>>

l2cap_unsubscribe ==
  /\ dev["server"].hooked /\ faults < MaxFaults
  /\ faults' = faults + 1
  /\ dev' = [dev EXCEPT !["server"].hooked = FALSE]
  /\ UNCHANGED <<wire, up, pc, counter, echoes>>

l2cap_subscribe ==
  /\ ~dev["server"].hooked
  /\ dev' = [dev EXCEPT !["server"].hooked = TRUE]
  /\ UNCHANGED <<wire, up, pc, counter, echoes, faults>>

\* The link goes, with everything under way; later each host notices, frees
\* the channel and reports the loss of the connection.
LinkLoss ==
  /\ up /\ up' = FALSE
  /\ wire' = [d \in Ends |-> << >>]
  /\ UNCHANGED <<dev, pc, counter, echoes, faults>>

on_gap_disconnect(v) == [v EXCEPT !.link = FALSE, !.CHAN = FALSE]

LinkLost(d) ==
  /\ Runs(d) /\ ~up /\ dev[d].link
  /\ \E r \in IF dev[d].chan \in {"opening", "open"} THEN chan_free(d, dev[d])
              ELSE {Result(dev[d], "OK", << >>, 0)} :
       dev' = [dev EXCEPT ![d] = on_gap_disconnect(r.dev)]
  /\ UNCHANGED <<wire, up, pc, counter, echoes, faults>>

Host == \E d \in Ends : Receive(d) \/ LinkLost(d)
Client == ClientConnect \/ ClientWait \/ ClientSend
Env == \/ \E d \in Ends : l2cap_disconnect(d)
       \/ l2cap_unsubscribe \/ l2cap_subscribe \/ LinkLoss

Next == Host \/ Client \/ Env

Spec == Init /\ [][Next]_vars

\* The hosts handle what arrives.
FairSpec == Spec /\ \A d \in Ends : WF_vars(Receive(d)) /\ WF_vars(LinkLost(d))

-----------------------------------------------------------------------------
(* Properties                                                              *)

TypeOK ==
  /\ \A d \in Ends :
       LET v == dev[d]
       IN  /\ v.pool \in [DOMAIN v.pool -> Nat]
           /\ v.chan \in {"none", "opening", "open", "closed"}
           /\ {v.rx, v.tx} \subseteq DOMAIN v.pool \cup {NULL}
           /\ v.credits \in 0..1
           /\ v.dropped \subseteq 1..MaxSdus
  /\ pc \in {"connect", "wait", "send", "done", "panic"}
  /\ counter \in 0..MaxSdus /\ faults \in 0..MaxFaults
  /\ echoes \in Seq(1..MaxSdus)

Holders(v, b) ==
  v.pool[b] + Cardinality({h \in {"rx", "tx"} : v[h] = b}) + (IF b \in v.lost THEN 1 ELSE 0)

\* Whatever codes the C host returns and however channels end, every buffer
\* is on the free list or with the channel, once: none is freed twice and
\* none is lost, but for the buffer of a connect that ran out of memory,
\* which l2cap_connect leaves alone on purpose (l2cap.rs, l2cap_connect,
\* l2cap_send, l2cap_recv_ready and l2cap_event_cb).
BuffersOwnedOnce ==
  \A d \in Ends : /\ \A b \in DOMAIN dev[d].pool : Holders(dev[d], b) = 1
                  /\ dev[d].lost # {} => d = "client" /\ pc = "panic"

\* With three buffers the pool never fails the hook: one SDU in dispatch,
\* one stalled and one to receive into are all it needs, because a refused
\* echo gives its buffer back before the next one is asked for.  Every
\* event then leaves the peer a buffer to send to.
NeverStarved ==
  \A d \in Ends : (Cardinality(DOMAIN dev[d].pool) >= 3 /\ faults = 0) => ~dev[d].unarmed

\* The numbers come back in the order they were sent, none twice, and each
\* was sent and not refused.
EchoesFaithful ==
  /\ \A i, j \in 1..Len(echoes) : i < j => echoes[i] < echoes[j]
  /\ \A i \in 1..Len(echoes) :
       echoes[i] <= counter /\ \A d \in Ends : echoes[i] \notin dev[d].dropped

Disturbed == faults > 0 \/ ~up \/ \E d \in Ends : dev[d].unarmed

\* A number that was sent, also one that stalled, comes back, unless an end
\* refused it or the channel was disturbed: a failed call, an event without
\* a receive buffer for the next SDU, a lost link.
EchoReturns ==
  \A n \in 1..MaxSdus :
    (counter >= n) ~> (\/ \E i \in 1..Len(echoes) : echoes[i] = n
                       \/ \E d \in Ends : n \in dev[d].dropped
                       \/ Disturbed)
=============================================================================
