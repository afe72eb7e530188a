------------------------------ MODULE HciBridge ------------------------------
(***************************************************************************)
(* The HCI bridge of nimble-rs/src/hci.rs: host commands and ACL packets   *)
(* copied into CMD_QUEUE and ACL_QUEUE, the pump that dispatches them to   *)
(* the controller and synthesizes the acks, and the buffers that inbound   *)
(* packets need from the host's pools.                                     *)
(*                                                                         *)
(* A packet is its number in the order of acceptance; of a command only    *)
(* its class under the enabled features is kept.  PumpWait has the wakers  *)
(* and the contexts that poll the pump; here a step of the pump is what it *)
(* does between two awaits.                                                *)
(***************************************************************************)
EXTENDS Naturals, FiniteSets, Sequences, SequencesExt

CONSTANTS
  CMD_QUEUE_DEPTH, ACL_QUEUE_DEPTH,
  EvtCount, EvtLoCount, AclCount,  \* the host's pools for inbound packets
  Credits,       \* ACL packets the controller lets the host have underway
  Budgets        \* bounds: what may happen how often, see Budget

\* How many commands, ACL packets, inbound packets, ack timeouts and drops of
\* the pump a behaviour may have.
Budget == [cmds : Nat, acls : Nat, packets : Nat, timeouts : Nat, drops : Nat]

ASSUME BridgeAssumption ==
  /\ CMD_QUEUE_DEPTH \in Nat \ {0} /\ ACL_QUEUE_DEPTH \in Nat \ {0}
  /\ EvtCount \in Nat /\ EvtLoCount \in Nat /\ AclCount \in Nat
  /\ Credits \in Nat
  /\ Budgets \subseteq Budget

\* send_cmd forwards a command with a Command Complete or a Command Status
\* ack, answers it itself, or does not know it.
Classes == {"sync", "async", "local", "unmapped"}
Forwarded == {"sync", "async"}

VARIABLES
  cmdq, aclq,     \* CMD_QUEUE and ACL_QUEUE
  tx, cur,        \* the TX loop: its step, and the packet in its hands
  waiting, ack,   \* host: the command it waits for; the ack it holds
  held,           \* host: inbound packets not yet handled
  evt, lo, acl,   \* free buffers of the host's pools
  credits, returned,  \* ACL flow control
  class,          \* history: the class of each command accepted
  answers,        \* history: what became of each command
  executed,       \* history: the commands handed to the controller
  accepted,       \* the number of ACL packets accepted
  fates,          \* history: what became of each ACL packet
  past,           \* history: what was accepted before this session
  budget, packets, timeouts, drops   \* bounds

cmdVars  == <<cmdq, class, answers, executed>>
aclVars  == <<aclq, accepted, fates, credits, returned>>
txVars   == <<tx, cur>>
hostVars == <<waiting, ack, held>>
poolVars == <<evt, lo, acl>>
restartVars == <<past, drops>>
boundVars == <<restartVars, budget, packets, timeouts>>
vars == <<cmdVars, aclVars, txVars, hostVars, poolVars, boundVars>>

\* The host is initialised and Ble::run has been started.
Init ==
  /\ cmdq = << >> /\ aclq = << >>
  /\ tx = "select" /\ cur = 0
  /\ waiting = 0 /\ ack = 0 /\ held = << >>
  /\ evt = EvtCount /\ lo = EvtLoCount /\ acl = AclCount
  /\ credits = Credits /\ returned = 0
  /\ class = << >> /\ answers = << >> /\ executed = << >>
  /\ accepted = 0 /\ fates = << >>
  /\ past = [cmds |-> 0, acls |-> 0]
  /\ budget \in Budgets /\ packets = 0 /\ timeouts = 0 /\ drops = 0

-----------------------------------------------------------------------------
(***************************************************************************)
(* The host sends.  It has one command underway at a time, and no more ACL *)
(* packets than the controller has buffers (external); the bridge frees    *)
(* the host's buffer before it looks whether its queue has room.           *)
(***************************************************************************)

\* A command refused by a full queue changes nothing.
ToLlCmd(k) ==
  /\ waiting = 0 /\ Len(class) < budget.cmds
  /\ Len(cmdq) < CMD_QUEUE_DEPTH
  /\ class' = Append(class, k)
  /\ cmdq' = Append(cmdq, Len(class'))
  /\ waiting' = Len(class')
  /\ UNCHANGED <<answers, executed, aclVars, txVars, ack, held, poolVars, boundVars>>

\* A packet refused by a full queue changes nothing either.
ToLlAcl ==
  /\ credits > 0 /\ accepted < budget.acls
  /\ Len(aclq) < ACL_QUEUE_DEPTH
  /\ accepted' = accepted + 1
  /\ aclq' = Append(aclq, accepted')
  /\ credits' = credits - 1
  /\ UNCHANGED <<cmdVars, fates, returned, txVars, hostVars, poolVars, boundVars>>

-----------------------------------------------------------------------------
(***************************************************************************)
(* The pump, TX.                                                           *)
(***************************************************************************)

\* Fault: both receives complete and the select keeps only the first.
TxSelectBoth ==
  /\ tx = "select" /\ cmdq # << >>
  /\ tx' = "dispatch" /\ cur' = Head(cmdq)
  /\ cmdq' = Tail(cmdq)
  /\ aclq' = IF aclq = << >> THEN aclq ELSE Tail(aclq)
  /\ UNCHANGED <<class, answers, executed, accepted, fates, credits, returned,
                 hostVars, poolVars, boundVars>>

\* Commands take priority over data.
TxSelect ==
  /\ tx = "select"
  /\ \/ /\ cmdq # << >>
        /\ tx' = "dispatch" /\ cur' = Head(cmdq)
        /\ cmdq' = Tail(cmdq)
        /\ UNCHANGED aclq
     \/ /\ cmdq = << >> /\ aclq # << >>
        /\ tx' = "write" /\ cur' = Head(aclq)
        /\ aclq' = Tail(aclq)
        /\ UNCHANGED cmdq
  /\ UNCHANGED <<class, answers, executed, accepted, fates, credits, returned,
                 hostVars, poolVars, boundVars>>

\* The ack of the command in hand: an event buffer is taken for it and goes
\* to the host, which frees it at once when it still holds an ack (external).
\* With the pool empty the ack is lost.
Answer(kind, status) ==
  /\ answers' = Append(answers, [n |-> cur, kind |-> kind, status |-> status])
  /\ IF evt > 0 /\ ack = 0
     THEN ack' = cur /\ evt' = evt - 1
     ELSE UNCHANGED <<ack, evt>>
  /\ tx' = "select" /\ cur' = 0
  /\ UNCHANGED <<cmdq, class, executed, aclVars, waiting, held, lo, acl, boundVars>>

AckKind(k) == IF k = "async" THEN "status" ELSE "complete"

\* Fault: malformed parameters are acknowledged as a success.
DispatchHereOk ==
  /\ tx = "dispatch"
  /\ Answer(AckKind(class[cur]), "ok")

\* send_cmd without the controller: Read Local Supported Commands, a command
\* that is not mapped, or parameters that do not parse.
DispatchHere ==
  /\ tx = "dispatch"
  /\ \/ class[cur] = "local" /\ Answer("complete", "ok")
     \/ class[cur] = "unmapped" /\ Answer("complete", "unknown")
     \/ class[cur] \in Forwarded /\ Answer(AckKind(class[cur]), "invalid")

\* sync_cmd and async_cmd: controller.exec ...
Forward ==
  /\ tx = "dispatch" /\ class[cur] \in Forwarded
  /\ executed' = Append(executed, cur)
  /\ tx' = "exec"
  /\ UNCHANGED <<cmdq, class, answers, aclVars, cur, hostVars, poolVars, boundVars>>

\* ... and its result: success, an HCI error or a failed transport.
Executed ==
  /\ tx = "exec"
  /\ \E status \in {"ok", "hci", "hw"} : Answer(AckKind(class[cur]), status)

\* Fault: a malformed packet ends the loop.
WriteAclEnds ==
  /\ tx = "write"
  /\ \E fate \in {"written", "failed", "malformed"} :
       /\ fates' = Append(fates, [n |-> cur, fate |-> fate])
       /\ tx' = IF fate = "malformed" THEN "done" ELSE "select"
  /\ cur' = 0
  /\ UNCHANGED <<cmdVars, aclq, accepted, credits, returned, hostVars,
                 poolVars, boundVars>>

\* The packet is written, does not parse, or the write fails; the loop goes on.
WriteAcl ==
  /\ tx = "write"
  /\ \E fate \in {"written", "failed", "malformed"} :
       fates' = Append(fates, [n |-> cur, fate |-> fate])
  /\ tx' = "select" /\ cur' = 0
  /\ UNCHANGED <<cmdVars, aclq, accepted, credits, returned, hostVars,
                 poolVars, boundVars>>

-----------------------------------------------------------------------------
(***************************************************************************)
(* The pump, RX: rx_dispatch and feed_event.  A packet that finds its pool *)
(* empty is dropped; Sync and Iso packets are ignored.                     *)
(***************************************************************************)
Arrives ==
  /\ tx # "off" /\ packets < budget.packets
  /\ packets' = packets + 1
  /\ UNCHANGED <<cmdVars, aclVars, txVars, waiting, ack, restartVars, budget, timeouts>>

\* An advertising report is discardable and has a pool of its own.
RxEvent ==
  /\ Arrives
  /\ \/ /\ IF evt > 0 THEN evt' = evt - 1 /\ held' = Append(held, "evt")
                      ELSE UNCHANGED <<evt, held>>
        /\ UNCHANGED <<lo, acl>>
     \/ /\ IF lo > 0 THEN lo' = lo - 1 /\ held' = Append(held, "lo")
                     ELSE UNCHANGED <<lo, held>>
        /\ UNCHANGED <<evt, acl>>

\* Fault: a failed append does not free the buffer.
RxAclLeaks ==
  /\ Arrives
  /\ IF acl > 0
     THEN /\ acl' = acl - 1
          /\ held' = Append(held, "acl") \/ UNCHANGED held
     ELSE UNCHANGED <<acl, held>>
  /\ UNCHANGED <<evt, lo>>

\* The copy into the mbuf may fail, and the buffer is freed.
RxAcl ==
  /\ Arrives
  /\ \/ acl > 0 /\ acl' = acl - 1 /\ held' = Append(held, "acl")
     \/ UNCHANGED <<acl, held>>
  /\ UNCHANGED <<evt, lo>>

-----------------------------------------------------------------------------
(***************************************************************************)
(* The host receives, and the controller completes ACL packets (external). *)
(***************************************************************************)
HandleHeld ==
  /\ held # << >>
  /\ held' = Tail(held)
  /\ evt' = IF Head(held) = "evt" THEN evt + 1 ELSE evt
  /\ lo' = IF Head(held) = "lo" THEN lo + 1 ELSE lo
  /\ acl' = IF Head(held) = "acl" THEN acl + 1 ELSE acl
  /\ UNCHANGED <<cmdVars, aclVars, txVars, waiting, ack, boundVars>>

TakeAck ==
  /\ waiting # 0 /\ ack # 0
  /\ waiting' = 0 /\ ack' = 0
  /\ evt' = evt + 1
  /\ UNCHANGED <<cmdVars, aclVars, txVars, held, lo, acl, boundVars>>

AckTimeout ==
  /\ waiting # 0 /\ ack = 0
  /\ timeouts < budget.timeouts
  /\ timeouts' = timeouts + 1
  /\ waiting' = 0
  /\ UNCHANGED <<cmdVars, aclVars, txVars, ack, held, poolVars, restartVars, budget, packets>>

Written == Cardinality({i \in DOMAIN fates : fates[i].fate = "written"})

CompleteAcl ==
  /\ returned < Written
  /\ returned' = returned + 1
  /\ credits' = credits + 1
  /\ UNCHANGED <<cmdVars, aclq, accepted, fates, txVars, hostVars, poolVars,
                 boundVars>>

-----------------------------------------------------------------------------
(***************************************************************************)
(* Ble::run starts and is dropped; the driver is dropped.                  *)
(***************************************************************************)
StartPump ==
  /\ tx = "off"
  /\ tx' = "select"
  /\ UNCHANGED <<cmdVars, aclVars, cur, hostVars, poolVars, boundVars>>

Unanswered(n) == [n |-> n, kind |-> "none", status |-> "none"]

\* The pump future goes, with the packet it has in hand.
DropPump ==
  /\ tx # "off" /\ drops < budget.drops
  /\ drops' = drops + 1
  /\ answers' = IF tx \in {"dispatch", "exec"} THEN Append(answers, Unanswered(cur)) ELSE answers
  /\ fates' = IF tx = "write" THEN Append(fates, [n |-> cur, fate |-> "cut"]) ELSE fates
  /\ tx' = "off" /\ cur' = 0
  /\ UNCHANGED <<cmdq, class, executed, aclq, accepted, credits, returned,
                 hostVars, poolVars, past, budget, packets, timeouts>>

\* Fault: the queues outlive the driver as they are.
LlDeinitKeeps ==
  /\ tx = "off"
  /\ past' = [cmds |-> Len(class), acls |-> accepted]
  /\ waiting' = 0 /\ ack' = 0 /\ held' = << >>
  /\ evt' = EvtCount /\ lo' = EvtLoCount /\ acl' = AclCount
  /\ credits' = Credits /\ returned' = Written
  /\ UNCHANGED <<cmdVars, aclq, accepted, fates, txVars, drops, budget, packets, timeouts>>

\* ble_transport_ll_deinit empties both queues; the host gives its buffers
\* back and a new session starts from full pools (external).
LlDeinit ==
  /\ tx = "off"
  /\ cmdq' = << >> /\ aclq' = << >>
  /\ answers' = answers \o [i \in 1..Len(cmdq) |-> Unanswered(cmdq[i])]
  /\ fates' = fates \o [i \in 1..Len(aclq) |-> [n |-> aclq[i], fate |-> "drained"]]
  /\ past' = [cmds |-> Len(class), acls |-> accepted]
  /\ waiting' = 0 /\ ack' = 0 /\ held' = << >>
  /\ evt' = EvtCount /\ lo' = EvtLoCount /\ acl' = AclCount
  /\ credits' = Credits /\ returned' = Written
  /\ UNCHANGED <<class, executed, accepted, txVars, drops, budget, packets, timeouts>>

-----------------------------------------------------------------------------
TxStep == TxSelect \/ DispatchHere \/ Forward \/ Executed \/ WriteAcl

Next ==
  \/ \E k \in Classes : ToLlCmd(k)
  \/ ToLlAcl
  \/ TxStep \/ RxEvent \/ RxAcl
  \/ HandleHeld \/ TakeAck \/ AckTimeout \/ CompleteAcl
  \/ StartPump \/ DropPump \/ LlDeinit

Spec == Init /\ [][Next]_vars

\* The pump is polled and the controller finishes what it is given.
FairSpec == Spec /\ WF_vars(TxStep)

-----------------------------------------------------------------------------
Answers == [n : Nat, kind : {"complete", "status", "none"},
            status : {"ok", "hci", "hw", "unknown", "invalid", "none"}]
Fates == [n : Nat, fate : {"written", "failed", "malformed", "cut", "drained"}]

TypeOK ==
  /\ cmdq \in Seq(Nat) /\ aclq \in Seq(Nat)
  /\ Len(cmdq) <= CMD_QUEUE_DEPTH /\ Len(aclq) <= ACL_QUEUE_DEPTH
  /\ tx \in {"off", "select", "dispatch", "exec", "write"}
  /\ cur \in Nat
  /\ waiting \in Nat /\ ack \in Nat
  /\ held \in Seq({"evt", "lo", "acl"})
  /\ evt \in 0..EvtCount /\ lo \in 0..EvtLoCount /\ acl \in 0..AclCount
  /\ credits \in Nat /\ returned \in Nat
  /\ class \in Seq(Classes)
  /\ answers \in Seq(Answers)
  /\ executed \in Seq(Nat)
  /\ accepted \in Nat
  /\ fates \in Seq(Fates)
  /\ past \in [cmds : Nat, acls : Nat]
  /\ budget \in Budgets
  /\ packets \in 0..budget.packets /\ timeouts \in 0..budget.timeouts /\ drops \in 0..budget.drops

(***************************************************************************)
(* Each command the bridge accepted is answered or given up once, in the   *)
(* order in which the host sent them: answers, the command in hand and     *)
(* CMD_QUEUE (hci.rs:694-713, 829-854) make up the sequence of commands.   *)
(* And those of earlier sessions are done with (hci.rs:687-690): although  *)
(* CMD_QUEUE is a static, no driver executes or answers what another left. *)
(***************************************************************************)
Numbers(n) == [i \in 1..n |-> i]
NumbersOf(s) == [i \in 1..Len(s) |-> s[i].n]
InHand(at) == IF tx \in at THEN <<cur>> ELSE << >>

CommandsInOrder ==
  /\ NumbersOf(answers) \o InHand({"dispatch", "exec"}) \o cmdq = Numbers(Len(class))
  /\ past.cmds <= Len(answers)

(***************************************************************************)
(* The same for ACL packets (hci.rs:717-741, 838-847): none is lost,       *)
(* duplicated or overtaken between the host and the controller, and none   *)
(* is written in a later session than its own.                             *)
(***************************************************************************)
AclInOrder ==
  /\ NumbersOf(fates) \o InHand({"write"}) \o aclq = Numbers(accepted)
  /\ past.acls <= Len(fates)

(***************************************************************************)
(* An ack tells the truth (hci.rs:424-465, 561-670): success is reported   *)
(* only for a command the controller executed or the bridge answers        *)
(* itself, "unknown" and "invalid" only for one it never saw, and no       *)
(* command is executed twice.                                              *)
(***************************************************************************)
AcksTruthful ==
  /\ \A i, j \in DOMAIN executed : i < j => executed[i] < executed[j]
  /\ \A i \in DOMAIN answers :
       LET a == answers[i]
           seen == Contains(executed, a.n)
       IN  /\ a.status = "ok" => seen \/ class[a.n] = "local"
           /\ a.status \in {"unknown", "invalid"} => ~seen

(***************************************************************************)
(* Every buffer of the host's pools is free, waits in the host, or is the  *)
(* ack it holds (hci.rs:757-821): no error path leaks or frees twice.      *)
(***************************************************************************)
HeldOf(k) == Cardinality({i \in DOMAIN held : held[i] = k})

BuffersConserved ==
  /\ evt + HeldOf("evt") + (IF ack # 0 THEN 1 ELSE 0) = EvtCount
  /\ lo + HeldOf("lo") = EvtLoCount
  /\ acl + HeldOf("acl") = AclCount

(***************************************************************************)
(* A command in CMD_QUEUE is answered while the pump runs, however much    *)
(* data waits and whatever fails on the way (hci.rs:831-853).              *)
(***************************************************************************)
CommandAnswered ==
  \A n \in 1..Max({b.cmds : b \in Budgets}) :
    Contains(cmdq, n) ~> (tx = "off" \/ \E i \in DOMAIN answers : answers[i].n = n)

==============================================================================
