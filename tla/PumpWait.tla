------------------------------ MODULE PumpWait ------------------------------
(***************************************************************************)
(* Pump-while-pending: how a host call that blocks for an HCI command ack  *)
(* (ble_npl_sem_pend, ble_npl_mutex_pend and wait_until of npl.rs) shares  *)
(* the HCI pump (hci.rs) with the task that runs the driver (Ble::run).    *)
(*                                                                         *)
(* A context is a thread with a StdParker: its waker unparks it, leaving a *)
(* token when it is not parked.  Run is the context that polls Ble::run;   *)
(* it has two wakers, its task's (in the executor) and its thread's (while *)
(* a handler blocks).  Contexts are preemptive threads, or all share one   *)
(* thread as tasks of one executor: a step of one then needs the others at *)
(* rest, since a blocking call does not yield.                             *)
(*                                                                         *)
(* The C host is external: a command call takes the HCI mutex, queues one  *)
(* command, pends on the ack semaphore, releases the mutex.  The event     *)
(* queue wakes the run task on every put (NplEventQueue!NoLostWakeup).     *)
(***************************************************************************)
EXTENDS Naturals, Sequences

CONSTANTS
  Apps,          \* contexts that call the host API
  Run,           \* the context that polls Ble::run
  Task,          \* the executor's waker for the run task
  NULL,
  CMD_QUEUE_DEPTH,
  Budgets        \* the threading and the bounds of a behaviour, see Budget

Ctxs == Apps \cup {Run}

\* Contexts are preemptive threads; the contexts that call; how many command
\* calls, unsolicited packets, ack timeouts and drops of the run future.
Budget == [threads : BOOLEAN, apps : SUBSET Apps, calls : Nat, packets : Nat,
           timeouts : Nat, drops : Nat]

ASSUME PumpAssumption ==
  /\ NULL \notin Ctxs \cup {Task}
  /\ Task \notin Ctxs
  /\ Run \notin Apps
  /\ CMD_QUEUE_DEPTH \in Nat \ {0}
  /\ Budgets \subseteq Budget

VARIABLES
  pc, goal,     \* per context: its step, and what it waits for
  token,        \* per context: its thread has been unparked
  woken,        \* the run task is scheduled
  evq,          \* events waiting in the default event queue
  mu,           \* Mutex.owner of the host's HCI mutex
  sem, semWaker,     \* Sem.count and Sem.waker of the ack semaphore
  cmdq, qWaker,      \* commands in CMD_QUEUE; its receiver waker
  tx, slot, slotWaker,  \* pump TX: "recv", "exec" or "off" (no future); its ack
  ctl, inbox, ioWaker,  \* controller: a command to answer; packets to read
  fut, busy,         \* PumpSlot: the pump is registered; a poll is in flight
  budget, calls, packets, timeouts, drops    \* bounds

hostVars  == <<evq, mu, sem, semWaker>>
pumpVars  == <<tx, slot, slotWaker, ctl, inbox, ioWaker>>
queueVars == <<cmdq, qWaker>>
slotVars  == <<fut, busy>>
boundVars == <<budget, calls, packets, timeouts, drops>>
vars == <<pc, goal, token, woken, hostVars, pumpVars, queueVars, slotVars, boundVars>>

Resting == {"idle", "await", "off"}

Init ==
  /\ pc = [x \in Ctxs |-> IF x = Run THEN "await" ELSE "idle"]
  /\ goal = [x \in Ctxs |-> "none"]
  /\ token = [x \in Ctxs |-> FALSE]
  /\ woken = TRUE
  /\ evq = 0
  /\ mu = NULL /\ sem = 0 /\ semWaker = NULL
  /\ cmdq = 0 /\ qWaker = NULL
  /\ tx = "recv" /\ slot = FALSE /\ slotWaker = NULL
  /\ ctl = FALSE /\ inbox = << >> /\ ioWaker = NULL
  /\ fut = TRUE /\ busy = FALSE
  /\ budget \in Budgets
  /\ calls = 0 /\ packets = 0 /\ timeouts = 0 /\ drops = 0

\* x may take a step.
Runs(x) == budget.threads \/ \A y \in Ctxs \ {x} : pc[y] \in Resting

Goto(x, l) == pc' = [pc EXCEPT ![x] = l]

\* Waker::wake, for each waker of W.
Wake(W) ==
  /\ token' = [x \in Ctxs |-> token[x] \/ x \in W]
  /\ woken' = (woken \/ Task \in W)

\* The waker with which x polls the pump: the run arm's own, or the parker's.
WakerOf(x) == IF x = Run /\ goal[x] = "none" THEN Task ELSE x

-----------------------------------------------------------------------------
(***************************************************************************)
(* A host call that sends a command (external: the C host).                *)
(***************************************************************************)
CallHost(x) ==
  /\ pc[x] = "idle" /\ Runs(x) /\ x \in budget.apps
  /\ calls < budget.calls
  /\ calls' = calls + 1
  /\ goal' = [goal EXCEPT ![x] = "mutex"]
  /\ Goto(x, "enter")
  /\ UNCHANGED <<token, woken, hostVars, pumpVars, queueVars, slotVars,
                 packets, timeouts, drops, budget>>

\* ble_transport_to_ll_cmd_impl: the buffer is freed, then the copy queued;
\* try_send wakes the pump's receiver.  The host then pends for the ack,
\* or gives up on a refusal (a full queue: commands whose waits timed out).
SendCmd(x) ==
  /\ pc[x] = "send" /\ Runs(x)
  /\ IF cmdq < CMD_QUEUE_DEPTH
     THEN /\ cmdq' = cmdq + 1
          /\ Wake({qWaker})
          /\ qWaker' = NULL
          /\ goal' = [goal EXCEPT ![x] = "sem"]
          /\ Goto(x, "enter")
     ELSE /\ Goto(x, "unlock")
          /\ UNCHANGED <<cmdq, qWaker, goal, token, woken>>
  /\ UNCHANGED <<hostVars, pumpVars, slotVars, boundVars>>

\* ble_npl_mutex_release wakes nobody.
MutexRelease(x) ==
  /\ pc[x] = "unlock" /\ Runs(x)
  /\ mu' = NULL
  /\ goal' = [goal EXCEPT ![x] = "none"]
  /\ Goto(x, IF x = Run THEN "events" ELSE "idle")
  /\ UNCHANGED <<token, woken, evq, sem, semWaker, pumpVars, queueVars, slotVars, boundVars>>

-----------------------------------------------------------------------------
(***************************************************************************)
(* wait_until: check, register, check, pump, check, park.                  *)
(***************************************************************************)

\* try_lock and try_take.
Ready(x) == IF goal[x] = "mutex" THEN mu = NULL ELSE sem > 0

Granted(x) ==
  /\ IF goal[x] = "mutex"
     THEN /\ mu' = x
          /\ Goto(x, "send")
          /\ UNCHANGED <<sem, goal>>
     ELSE /\ sem' = sem - 1
          /\ Goto(x, "unlock")
          /\ goal' = [goal EXCEPT ![x] = "none"]
          /\ UNCHANGED mu

\* A ready() test: on entry (the pend's own test and the loop's first one),
\* after the registration, after the pump, and after the park.  A failed
\* test goes on to `else'.
Test(x, at, else) ==
  /\ pc[x] = at /\ Runs(x)
  /\ IF Ready(x) THEN Granted(x) ELSE Goto(x, else) /\ UNCHANGED <<mu, sem, goal>>
  /\ UNCHANGED <<token, woken, evq, semWaker, pumpVars, queueVars, slotVars, boundVars>>

Enter(x)     == Test(x, "enter", "register")
Check(x)     == Test(x, "check", "register")
Recheck(x)   == Test(x, "recheck", "pump")
LastCheck(x) == Test(x, "last", "park")

\* The deadline has passed in an earlier round of the loop: sem_pend returns
\* TIMEOUT and the host gives up.
Expire(x) ==
  /\ pc[x] = "check" /\ Runs(x)
  /\ goal[x] = "sem" /\ ~Ready(x)
  /\ timeouts < budget.timeouts
  /\ timeouts' = timeouts + 1
  /\ goal' = [goal EXCEPT ![x] = "none"]
  /\ Goto(x, "unlock")
  /\ UNCHANGED <<token, woken, hostVars, pumpVars, queueVars, slotVars, calls, packets, drops, budget>>

\* Fault: a semaphore wait that, like the mutex's, registers no waker.
RegisterNothing(x) ==
  /\ pc[x] = "register" /\ Runs(x)
  /\ Goto(x, "recheck")
  /\ UNCHANGED <<goal, token, woken, hostVars, pumpVars, queueVars, slotVars, boundVars>>

\* A semaphore stores the thread's waker; a mutex has no waker to store.
Register(x) ==
  /\ pc[x] = "register" /\ Runs(x)
  /\ semWaker' = IF goal[x] = "sem" THEN x ELSE semWaker
  /\ Goto(x, "recheck")
  /\ UNCHANGED <<goal, token, woken, evq, mu, sem, pumpVars, queueVars, slotVars, boundVars>>

\* thread::park consumes the token; park_timeout also returns at the deadline.
Park(x) ==
  /\ pc[x] = "park" /\ Runs(x)
  /\ token[x] \/ (goal[x] = "sem" /\ timeouts < budget.timeouts)
  /\ token' = [token EXCEPT ![x] = FALSE]
  /\ Goto(x, "check")
  /\ UNCHANGED <<goal, woken, hostVars, pumpVars, queueVars, slotVars, boundVars>>

-----------------------------------------------------------------------------
(***************************************************************************)
(* pump_manual and the pump future it polls.                               *)
(***************************************************************************)
Polling == {x \in Ctxs : pc[x] \in {"polltx", "pollrx", "pollend"}}

\* Where a context goes after pump_manual.
AfterPump(x) == IF goal[x] = "none" THEN "await" ELSE "last"

\* Fault: the busy flag is not looked at.
PumpBeginRegardless(x) ==
  /\ pc[x] = "pump" /\ Runs(x)
  /\ IF fut
     THEN busy' = TRUE /\ Goto(x, "polltx")
     ELSE Goto(x, AfterPump(x)) /\ UNCHANGED busy
  /\ UNCHANGED <<goal, token, woken, hostVars, pumpVars, queueVars, fut, boundVars>>

\* The first critical section: a busy or unregistered pump is left alone,
\* and the caller's waker is then registered nowhere.
PumpBegin(x) ==
  /\ pc[x] = "pump" /\ Runs(x)
  /\ IF fut /\ ~busy
     THEN busy' = TRUE /\ Goto(x, "polltx")
     ELSE Goto(x, AfterPump(x)) /\ UNCHANGED busy
  /\ UNCHANGED <<goal, token, woken, hostVars, pumpVars, queueVars, fut, boundVars>>

\* TX: take a command when one waits, else leave the waker with the channel,
\* which wakes the waker it replaces.
TxReceive(x) ==
  /\ pc[x] = "polltx" /\ Runs(x)
  /\ tx = "recv"
  /\ IF cmdq > 0
     THEN /\ cmdq' = cmdq - 1
          /\ tx' = "exec" /\ ctl' = TRUE
          /\ UNCHANGED <<pc, qWaker, token, woken>>
     ELSE /\ Wake({qWaker} \ {WakerOf(x)})
          /\ qWaker' = WakerOf(x)
          /\ Goto(x, "pollrx")
          /\ UNCHANGED <<cmdq, tx, ctl>>
  /\ UNCHANGED <<goal, hostVars, slot, slotWaker, inbox, ioWaker, slotVars, boundVars>>

\* Fault: the ack is fed to the host twice.
TxExecTwice(x) ==
  /\ pc[x] = "polltx" /\ Runs(x)
  /\ tx = "exec"
  /\ IF slot
     THEN /\ sem' = sem + 1
          /\ tx' = IF sem = 0 THEN "exec" ELSE "recv"
          /\ slot' = (sem = 0)
          /\ Wake({semWaker}) /\ semWaker' = NULL
          /\ UNCHANGED <<pc, slotWaker>>
     ELSE /\ slotWaker' = WakerOf(x)
          /\ Goto(x, "pollrx")
          /\ UNCHANGED <<tx, slot, sem, semWaker, token, woken>>
  /\ UNCHANGED <<goal, evq, mu, queueVars, ctl, inbox, ioWaker, slotVars, boundVars>>

\* TX inside send_cmd: when the controller has acked, the synthesized event
\* reaches the host, which ignores an ack nobody has consumed the last of
\* (external), else releases the semaphore.
TxExec(x) ==
  /\ pc[x] = "polltx" /\ Runs(x)
  /\ tx = "exec"
  /\ IF slot
     THEN /\ tx' = "recv" /\ slot' = FALSE
          /\ IF sem > 0
             THEN UNCHANGED <<sem, semWaker, token, woken>>
             ELSE sem' = sem + 1 /\ Wake({semWaker}) /\ semWaker' = NULL
          /\ UNCHANGED <<pc, slotWaker>>
     ELSE /\ slotWaker' = WakerOf(x)
          /\ Goto(x, "pollrx")
          /\ UNCHANGED <<tx, slot, sem, semWaker, token, woken>>
  /\ UNCHANGED <<goal, evq, mu, queueVars, ctl, inbox, ioWaker, slotVars, boundVars>>

\* RX: a command ack goes to the waiting send_cmd, any other packet to the
\* host's event queue; with nothing to read the waker is left with the I/O.
RxRead(x) ==
  /\ pc[x] = "pollrx" /\ Runs(x)
  /\ IF inbox # << >>
     THEN /\ inbox' = Tail(inbox)
          /\ IF Head(inbox) = "ack"
             THEN /\ slot' = (tx = "exec")
                  /\ Wake({slotWaker})
                  /\ slotWaker' = NULL
                  /\ UNCHANGED evq
             ELSE /\ evq' = evq + 1
                  /\ Wake({Task})
                  /\ UNCHANGED <<slot, slotWaker>>
          /\ UNCHANGED <<pc, ioWaker>>
     ELSE /\ ioWaker' = WakerOf(x)
          /\ Goto(x, "pollend")
          /\ UNCHANGED <<inbox, slot, slotWaker, evq, token, woken>>
  /\ UNCHANGED <<goal, mu, sem, semWaker, queueVars, tx, ctl, slotVars, boundVars>>

PumpEnd(x) ==
  /\ pc[x] = "pollend" /\ Runs(x)
  /\ busy' = FALSE
  /\ Goto(x, AfterPump(x))
  /\ UNCHANGED <<goal, token, woken, hostVars, pumpVars, queueVars, fut, boundVars>>

-----------------------------------------------------------------------------
(***************************************************************************)
(* Ble::run: a poll runs the events arm, then the pump arm.                *)
(***************************************************************************)
BeginPoll ==
  /\ pc[Run] = "await" /\ Runs(Run)
  /\ woken
  /\ woken' = FALSE
  /\ Goto(Run, "events")
  /\ UNCHANGED <<goal, token, hostVars, pumpVars, queueVars, slotVars, boundVars>>

\* A handler either just runs or makes a host call of its own.
RunEvent ==
  /\ pc[Run] = "events" /\ Runs(Run)
  /\ evq > 0
  /\ evq' = evq - 1
  /\ \/ UNCHANGED <<pc, goal, calls>>
     \/ /\ calls < budget.calls
        /\ calls' = calls + 1
        /\ goal' = [goal EXCEPT ![Run] = "mutex"]
        /\ Goto(Run, "enter")
  /\ UNCHANGED <<token, woken, mu, sem, semWaker, pumpVars, queueVars, slotVars,
                 packets, timeouts, drops, budget>>

\* Fault: the pump arm polls only when no blocked wait could be doing it.
EventsDoneNoPump ==
  /\ pc[Run] = "events" /\ Runs(Run)
  /\ evq = 0
  /\ Goto(Run, IF calls > 0 THEN "await" ELSE "pump")
  /\ UNCHANGED <<goal, token, woken, hostVars, pumpVars, queueVars, slotVars, boundVars>>

EventsDone ==
  /\ pc[Run] = "events" /\ Runs(Run)
  /\ evq = 0
  /\ Goto(Run, "pump")
  /\ UNCHANGED <<goal, token, woken, hostVars, pumpVars, queueVars, slotVars, boundVars>>

\* The run future is dropped between two polls: PumpGuard deregisters the
\* pump, and the pump future is gone with whatever it was doing.
DropRun ==
  /\ pc[Run] = "await" /\ Runs(Run)
  /\ drops < budget.drops
  /\ drops' = drops + 1
  /\ fut' = FALSE /\ busy' = FALSE
  /\ tx' = "off" /\ slot' = FALSE /\ slotWaker' = NULL
  /\ Goto(Run, "off")
  /\ UNCHANGED <<goal, token, woken, hostVars, ctl, inbox, ioWaker, queueVars,
                 calls, packets, timeouts, budget>>

\* A new call of Ble::run: register_pump.
StartRun ==
  /\ pc[Run] = "off" /\ Runs(Run)
  /\ fut' = TRUE /\ busy' = FALSE
  /\ tx' = "recv"
  /\ woken' = TRUE
  /\ Goto(Run, "await")
  /\ UNCHANGED <<goal, token, hostVars, slot, slotWaker, ctl, inbox, ioWaker,
                 queueVars, boundVars>>

-----------------------------------------------------------------------------
(***************************************************************************)
(* The controller (external).                                              *)
(***************************************************************************)
Send(p) ==
  /\ inbox' = Append(inbox, p)
  /\ Wake({ioWaker})
  /\ ioWaker' = NULL

CtlAnswer ==
  /\ ctl
  /\ ctl' = FALSE
  /\ Send("ack")
  /\ UNCHANGED <<pc, goal, hostVars, tx, slot, slotWaker, queueVars, slotVars, boundVars>>

CtlPacket ==
  /\ packets < budget.packets
  /\ packets' = packets + 1
  /\ Send("evt")
  /\ UNCHANGED <<pc, goal, hostVars, tx, slot, slotWaker, ctl, queueVars, slotVars,
                 calls, timeouts, drops, budget>>

-----------------------------------------------------------------------------
\* What a context does once it is inside a host call or a poll.
Step(x) ==
  \/ SendCmd(x) \/ MutexRelease(x)
  \/ Enter(x) \/ Check(x) \/ Register(x) \/ Recheck(x) \/ LastCheck(x) \/ Park(x)
  \/ PumpBegin(x) \/ TxReceive(x) \/ TxExec(x) \/ RxRead(x) \/ PumpEnd(x)

Next ==
  \/ \E x \in Ctxs : Step(x) \/ Expire(x)
  \/ \E x \in Apps : CallHost(x)
  \/ BeginPoll \/ RunEvent \/ EventsDone \/ DropRun \/ StartRun
  \/ CtlAnswer \/ CtlPacket

Spec == Init /\ [][Next]_vars

\* Threads are scheduled, the executor polls a woken task, handlers return
\* and the controller answers the commands it is sent.  Nothing obliges an
\* application to call, a packet to come, a run to be dropped or restarted.
Fairness ==
  /\ \A x \in Ctxs : WF_vars(Step(x))
  /\ WF_vars(BeginPoll) /\ WF_vars(RunEvent) /\ WF_vars(EventsDone)
  /\ WF_vars(CtlAnswer)

FairSpec == Spec /\ Fairness

-----------------------------------------------------------------------------
TypeOK ==
  /\ pc \in [Ctxs -> Resting \cup {"enter", "check", "register", "recheck", "pump", "polltx",
                                   "pollrx", "pollend", "last", "park", "send",
                                   "unlock", "events"}]
  /\ goal \in [Ctxs -> {"none", "mutex", "sem"}]
  /\ token \in [Ctxs -> BOOLEAN]
  /\ woken \in BOOLEAN
  /\ evq \in Nat
  /\ mu \in Ctxs \cup {NULL}
  /\ sem \in Nat
  /\ semWaker \in Ctxs \cup {NULL}
  /\ cmdq \in 0..CMD_QUEUE_DEPTH
  /\ qWaker \in Ctxs \cup {Task, NULL}
  /\ tx \in {"recv", "exec", "off"}
  /\ slot \in BOOLEAN
  /\ slotWaker \in Ctxs \cup {Task, NULL}
  /\ ctl \in BOOLEAN
  /\ inbox \in Seq({"ack", "evt"})
  /\ ioWaker \in Ctxs \cup {Task, NULL}
  /\ fut \in BOOLEAN /\ busy \in BOOLEAN
  /\ budget \in Budgets
  /\ calls \in 0..budget.calls /\ packets \in 0..budget.packets
  /\ timeouts \in 0..budget.timeouts /\ drops \in 0..budget.drops

(***************************************************************************)
(* The pump future is polled by one context at a time, and never once it   *)
(* has been dropped (hci.rs:953: "`fut` is valid and pinned [...] and the  *)
(* `busy` flag guarantees exclusive access for the duration of the poll"). *)
(* A run future that is dropped on one thread while another polls its pump *)
(* breaks it (PumpGuard's drop does not wait): the futures of the run that *)
(* checks it are dropped on the thread that polls them.                    *)
(***************************************************************************)
PollsExclusively ==
  /\ \A x, y \in Polling : x = y
  /\ Polling # {} => tx # "off"

(***************************************************************************)
(* The commands on their way (queued, being executed, or acked with the    *)
(* ack not consumed) are the one a context waits for and at most one more  *)
(* for each wait that gave up (npl.rs:476-524 with hci.rs:694-713 and      *)
(* 827-878): an ack that comes late can be taken for a later command's     *)
(* once, not over and over.  Until a wait gives up or the run future is    *)
(* dropped, the ack a pend consumes answers the command it sent.           *)
(***************************************************************************)
Executing == IF tx = "exec" THEN 1 ELSE 0
OnTheWay == cmdq + Executing + sem
Awaited == IF \E x \in Ctxs : goal[x] = "sem" THEN 1 ELSE 0

AcksMatchWaiters ==
  /\ OnTheWay <= Awaited + timeouts
  /\ timeouts = 0 /\ drops = 0 => OnTheWay = Awaited

(***************************************************************************)
(* While the driver runs, a context that pends on the ack semaphore is     *)
(* released, as the controller answers (npl.rs:13-17); no timeout is       *)
(* obliged to come to its help.                                            *)
(***************************************************************************)
AckServed == \A x \in Ctxs : (goal[x] = "sem") ~> (goal[x] # "sem" \/ ~fut)

(***************************************************************************)
(* Packets from the controller are read, and their events handled, even    *)
(* when blocked waits took the pump's wakers in between (lib.rs:543-546),  *)
(* while all contexts share one thread, as long as the driver runs and no  *)
(* wait times out: a wait that gives up hands the transport's waker back   *)
(* to nobody.  With threads they are not: a run task that finds the pump   *)
(* busy leaves no waker (pump_manual).                                     *)
(***************************************************************************)
PacketsServedOneThread ==
  (~budget.threads /\ (inbox # << >> \/ evq > 0)) ~>
     ((inbox = << >> /\ evq = 0) \/ ~fut \/ timeouts > 0)

(***************************************************************************)
(* A context that waits for the HCI mutex gets it while the driver runs,   *)
(* although the mutex has no waker (npl.rs:404-406: "There is no per-mutex *)
(* waker; rely on the pump/park loop's re-checks.").                       *)
(***************************************************************************)
MutexServed == \A x \in Ctxs : (goal[x] = "mutex") ~> (goal[x] # "mutex" \/ ~fut)

=============================================================================
