------------------------------ MODULE NplCallout ------------------------------
(***************************************************************************)
(* The NPL callouts (timers) of nimble-rs/src/npl.rs, serviced by          *)
(* port::run_timers and port::run_events inside Ble::run.                  *)
(*                                                                         *)
(* The deadline-sorted intrusive list is a sequence here, and the default  *)
(* event queue the FIFO that NplEventQueue is proved to implement.  One    *)
(* critical section is one step: ble_npl_callout_reset reads the clock,    *)
(* then links, then wakes; ble_npl_callout_stop unlinks, then cancels the  *)
(* queued event; timers_fire_due pops, then queues the event.              *)
(***************************************************************************)
EXTENDS Naturals, Sequences, SequencesExt

CONSTANTS
  Callouts,
  Inline,        \* the callouts that have no event queue
  Threads,       \* contexts that call the host beside the run task
  Run,           \* the context that polls Ble::run
  MultiThread,   \* contexts are preemptive threads
  Delays,        \* the tick counts callouts are reset with
  MaxTime,       \* bound: the clock stops here
  MaxResets,     \* bound: resets made
  NULL

Ctxs == Threads \cup {Run}
NoAlarm == MaxTime + 1

ASSUME CalloutAssumption ==
  /\ NULL \notin Callouts
  /\ Inline \subseteq Callouts
  /\ Run \notin Threads
  /\ MultiThread \in BOOLEAN
  /\ Delays \subseteq Nat
  /\ MaxTime \in Nat /\ MaxResets \in Nat

VARIABLES
  now,         \* Instant::now()
  list,        \* TIMERS.head: the linked callouts
  deadline,    \* Callout.deadline
  active,      \* Callout.active
  linked,      \* history: each callout's number in the order of linking,
  links,       \*   and the last number given
  timersWaker, \* TIMERS.waker holds the run task's waker
  evq,         \* the fired callouts whose events wait
  alarm,       \* when the executor's timer wakes the run task
  woken,       \* the run task is scheduled
  runPc,       \* where the poll of Ble::run stands
  running,     \* the callout being fired or handled
  seen,        \* run_timers: the deadline it read
  pc, arg, due,     \* per caller: its step, its callout, its deadline
  stopped,     \* history: callout_stop has returned, with no reset since
  resets

clockVars == <<now, alarm>>
orderVars == <<linked, links>>
listVars  == <<list, deadline, active, orderVars, timersWaker>>
runVars   == <<runPc, running, seen>>
callVars  == <<pc, arg, due>>
vars == <<clockVars, listVars, evq, woken, runVars, callVars, stopped, resets>>

Init ==
  /\ now = 0 /\ alarm = NoAlarm
  /\ list = << >>
  /\ deadline = [co \in Callouts |-> 0]
  /\ active = [co \in Callouts |-> FALSE]
  /\ linked = [co \in Callouts |-> 0] /\ links = 0
  /\ timersWaker = FALSE
  /\ evq = << >>
  /\ woken = TRUE /\ runPc = "await" /\ running = NULL /\ seen = 0
  /\ pc = [c \in Ctxs |-> "idle"]
  /\ arg = [c \in Ctxs |-> NULL]
  /\ due = [c \in Ctxs |-> 0]
  /\ stopped = [co \in Callouts |-> FALSE]
  /\ resets = 0

Handling == {"handle", "inline"}

\* With one thread, a caller runs when the run task is between polls or is
\* itself the caller, and the run task runs when no call is in progress.
CallerRuns(c) ==
  \/ c = Run /\ runPc \in Handling
  \/ c # Run /\ (MultiThread \/ (runPc = "await" /\ \A d \in Ctxs \ {c} : pc[d] = "idle"))

RunRuns == pc[Run] = "idle" /\ (MultiThread \/ \A c \in Threads : pc[c] = "idle")

Goto(c, l) == pc' = [pc EXCEPT ![c] = l]

\* s without co: the unlinking walk stops where it meets co, if it does.
Without(s, co) ==
  LET at == {i \in 1..Len(s) : s[i] = co}
  IN  IF at = {} THEN s ELSE RemoveAt(s, Min(at))

-----------------------------------------------------------------------------
(***************************************************************************)
(* ble_npl_callout_reset.                                                  *)
(***************************************************************************)
CalloutReset(c, co, ticks) ==
  /\ pc[c] = "idle" /\ CallerRuns(c)
  /\ resets < MaxResets /\ now + ticks <= MaxTime
  /\ resets' = resets + 1
  /\ arg' = [arg EXCEPT ![c] = co]
  /\ due' = [due EXCEPT ![c] = now + ticks]
  /\ Goto(c, "link")
  /\ UNCHANGED <<clockVars, listVars, evq, woken, runVars, stopped>>

\* Fault: the walk stops at the first equal deadline.
PlaceBeforeEquals(s, d) == Min({i \in 1..Len(s) : deadline[s[i]] >= d} \cup {Len(s) + 1})

\* Where the insertion walk stops: past equal deadlines, at the first later one.
Place(s, d) == Min({i \in 1..Len(s) : deadline[s[i]] > d} \cup {Len(s) + 1})

\* The critical section: unlink if linked, insert in order, take the waker.
ResetLink(c) ==
  /\ pc[c] = "link" /\ CallerRuns(c)
  /\ LET co == arg[c]
         d == due[c]
         rest == IF active[co] THEN Without(list, co) ELSE list
     IN  /\ list' = InsertAt(rest, Place(rest, d), co)
         /\ deadline' = [deadline EXCEPT ![co] = d]
         /\ active' = [active EXCEPT ![co] = TRUE]
         /\ links' = links + 1 /\ linked' = [linked EXCEPT ![co] = links']
         /\ stopped' = [stopped EXCEPT ![co] = FALSE]
  /\ timersWaker' = FALSE
  /\ Goto(c, IF timersWaker THEN "wake" ELSE "idle")
  /\ UNCHANGED <<clockVars, evq, woken, runVars, arg, due, resets>>

ResetWake(c) ==
  /\ pc[c] = "wake" /\ CallerRuns(c)
  /\ woken' = TRUE
  /\ Goto(c, "idle")
  /\ UNCHANGED <<clockVars, listVars, evq, runVars, arg, due, stopped, resets>>

(***************************************************************************)
(* ble_npl_callout_stop (and callout_deinit, which is only that call).     *)
(***************************************************************************)
StopUnlink(c, co) ==
  /\ pc[c] = "idle" /\ CallerRuns(c)
  /\ list' = IF active[co] THEN Without(list, co) ELSE list
  /\ active' = [active EXCEPT ![co] = FALSE]
  /\ arg' = [arg EXCEPT ![c] = co]
  /\ Goto(c, "unqueue")
  /\ UNCHANGED <<clockVars, deadline, orderVars, timersWaker, evq, woken, runVars, due, stopped,
                 resets>>

\* A callout that another context has reset meanwhile is not a stopped one.
StopUnqueue(c) ==
  /\ pc[c] = "unqueue" /\ CallerRuns(c)
  /\ evq' = IF arg[c] \in Inline THEN evq ELSE Without(evq, arg[c])
  /\ stopped' = [stopped EXCEPT ![arg[c]] = ~active[arg[c]]]
  /\ Goto(c, "idle")
  /\ UNCHANGED <<clockVars, listVars, woken, runVars, arg, due, resets>>

-----------------------------------------------------------------------------
(***************************************************************************)
(* Ble::run: the events arm, then the timers arm.                          *)
(***************************************************************************)
BeginPoll ==
  /\ runPc = "await" /\ RunRuns /\ woken
  /\ woken' = FALSE
  /\ runPc' = "events"
  /\ UNCHANGED <<clockVars, listVars, evq, running, seen, callVars, stopped, resets>>

RunEvents ==
  /\ runPc = "events" /\ RunRuns
  /\ IF evq = << >>
     THEN runPc' = "timers" /\ UNCHANGED <<evq, running>>
     ELSE runPc' = "handle" /\ running' = Head(evq) /\ evq' = Tail(evq)
  /\ UNCHANGED <<clockVars, listVars, woken, seen, callVars, stopped, resets>>

HandlerDone ==
  /\ runPc \in Handling /\ pc[Run] = "idle"
  /\ running' = NULL
  /\ runPc' = IF runPc = "handle" THEN "events" ELSE "fire"
  /\ UNCHANGED <<clockVars, listVars, evq, woken, seen, callVars, stopped, resets>>

\* Fault: the waker is registered only while no callout is active.
NextDeadlineNoWaker ==
  /\ runPc = "timers" /\ RunRuns
  /\ timersWaker' = (list = << >> \/ timersWaker)
  /\ IF list = << >>
     THEN runPc' = "await" /\ UNCHANGED seen
     ELSE runPc' = "arm" /\ seen' = deadline[Head(list)]
  /\ UNCHANGED <<clockVars, list, deadline, active, orderVars, evq, woken, running, callVars,
                 stopped, resets>>

\* timers_poll_next_deadline: one critical section.
NextDeadline ==
  /\ runPc = "timers" /\ RunRuns
  /\ timersWaker' = TRUE
  /\ IF list = << >>
     THEN runPc' = "await" /\ UNCHANGED seen
     ELSE runPc' = "arm" /\ seen' = deadline[Head(list)]
  /\ UNCHANGED <<clockVars, list, deadline, active, orderVars, evq, woken, running, callVars,
                 stopped, resets>>

\* The deadline read has passed, or an executor timer is armed for it; the
\* executor keeps the earliest of the wake-ups asked for.
ArmTimer ==
  /\ runPc = "arm" /\ RunRuns
  /\ IF now >= seen
     THEN runPc' = "fire" /\ UNCHANGED alarm
     ELSE runPc' = "await" /\ alarm' = IF seen < alarm THEN seen ELSE alarm
  /\ UNCHANGED <<now, listVars, evq, woken, running, seen, callVars, stopped, resets>>

\* Fault: one callout is fired per wake-up.
FirePopOnce ==
  /\ runPc = "fire" /\ RunRuns
  /\ IF list # << >> /\ running = NULL /\ deadline[Head(list)] <= now
     THEN /\ list' = Tail(list)
          /\ active' = [active EXCEPT ![Head(list)] = FALSE]
          /\ running' = Head(list)
          /\ runPc' = IF Head(list) \in Inline THEN "inline" ELSE "put"
     ELSE runPc' = "await" /\ UNCHANGED <<list, active, running>>
  /\ UNCHANGED <<clockVars, deadline, orderVars, timersWaker, evq, woken, seen, callVars,
                 stopped, resets>>

\* timers_fire_due, the critical section; when nothing is due run_timers
\* goes round its loop.
FirePop ==
  /\ runPc = "fire" /\ RunRuns
  /\ IF list # << >> /\ deadline[Head(list)] <= now
     THEN /\ list' = Tail(list)
          /\ active' = [active EXCEPT ![Head(list)] = FALSE]
          /\ running' = Head(list)
          /\ runPc' = IF Head(list) \in Inline THEN "inline" ELSE "put"
     ELSE runPc' = "timers" /\ UNCHANGED <<list, active, running>>
  /\ UNCHANGED <<clockVars, deadline, orderVars, timersWaker, evq, woken, seen, callVars,
                 stopped, resets>>

\* ble_npl_eventq_put of the callout's event; it wakes the run task.
FirePut ==
  /\ runPc = "put" /\ RunRuns
  /\ IF Contains(evq, running)
     THEN UNCHANGED <<evq, woken>>
     ELSE evq' = Append(evq, running) /\ woken' = TRUE
  /\ running' = NULL
  /\ runPc' = "fire"
  /\ UNCHANGED <<clockVars, listVars, seen, callVars, stopped, resets>>

\* Time passes; the executor's timer wakes the run task (external).
Tick ==
  /\ now < MaxTime
  /\ now' = now + 1
  /\ IF alarm <= now'
     THEN woken' = TRUE /\ alarm' = NoAlarm
     ELSE UNCHANGED <<woken, alarm>>
  /\ UNCHANGED <<listVars, evq, runVars, callVars, stopped, resets>>

-----------------------------------------------------------------------------
CallStep(c) == ResetLink(c) \/ ResetWake(c) \/ StopUnqueue(c)
PollStep == RunEvents \/ HandlerDone \/ NextDeadline \/ ArmTimer \/ FirePop \/ FirePut

Next ==
  \/ \E c \in Ctxs, co \in Callouts :
       StopUnlink(c, co) \/ \E d \in Delays : CalloutReset(c, co, d)
  \/ \E c \in Ctxs : CallStep(c)
  \/ BeginPoll \/ PollStep \/ Tick

Spec == Init /\ [][Next]_vars

\* Calls run on, the executor polls a woken task, time passes, and handlers
\* return: one that calls the host over and over only leaves HandlerDone
\* enabled now and then, hence strong fairness.
Fairness ==
  /\ \A c \in Ctxs : WF_vars(CallStep(c))
  /\ WF_vars(BeginPoll)
  /\ WF_vars(RunEvents \/ NextDeadline \/ ArmTimer \/ FirePop \/ FirePut)
  /\ SF_vars(HandlerDone)
  /\ WF_vars(Tick)

FairSpec == Spec /\ Fairness

-----------------------------------------------------------------------------
TypeOK ==
  /\ now \in 0..MaxTime /\ alarm \in 0..NoAlarm
  /\ list \in Seq(Callouts)
  /\ deadline \in [Callouts -> 0..MaxTime]
  /\ active \in [Callouts -> BOOLEAN]
  /\ linked \in [Callouts -> Nat] /\ links \in Nat
  /\ timersWaker \in BOOLEAN
  /\ evq \in Seq(Callouts \ Inline)
  /\ woken \in BOOLEAN
  /\ runPc \in {"await", "events", "handle", "inline", "timers", "arm", "fire", "put"}
  /\ running \in Callouts \cup {NULL}
  /\ seen \in 0..MaxTime
  /\ pc \in [Ctxs -> {"idle", "link", "wake", "unqueue"}]
  /\ arg \in [Ctxs -> Callouts \cup {NULL}]
  /\ due \in [Ctxs -> 0..MaxTime]
  /\ stopped \in [Callouts -> BOOLEAN]
  /\ resets \in 0..MaxResets

(***************************************************************************)
(* The timer list holds exactly the active callouts, each once, earliest   *)
(* deadline first (npl.rs:546-547, 612-649), so that firing can stop at    *)
(* the first callout that is not due; and no event is queued twice.        *)
(* Callouts with one deadline are in the order of their last resets        *)
(* (npl.rs:630), so that they fire in that order.                          *)
(***************************************************************************)
ListOK ==
  /\ \A co \in Callouts : active[co] <=> \E i \in DOMAIN list : list[i] = co
  /\ \A i, j \in DOMAIN list : i < j => list[i] # list[j] /\ deadline[list[i]] <= deadline[list[j]]
  /\ \A i, j \in DOMAIN evq : i < j => evq[i] # evq[j]

EqualsInOrder ==
  \A i, j \in DOMAIN list :
    i < j /\ deadline[list[i]] = deadline[list[j]] => linked[list[i]] < linked[list[j]]

TimersOK == ListOK /\ EqualsInOrder

(***************************************************************************)
(* The run task never sleeps past a deadline (port.rs:107-127): while it   *)
(* sleeps, the executor's timer is yet to go off and does so no later than *)
(* the first callout is due, or the caller that changed the list is about  *)
(* to wake it.                                                             *)
(***************************************************************************)
NoMissedDeadline ==
  (runPc = "await" /\ ~woken /\ list # << >>)
    => \/ now < alarm /\ alarm <= deadline[Head(list)]
       \/ \E c \in Ctxs : pc[c] = "wake"

(***************************************************************************)
(* "Also cancel a fired-but-not-yet-run event" (npl.rs:662): once          *)
(* callout_stop has returned, the handler does not start before the        *)
(* callout is reset.                                                       *)
(***************************************************************************)
StopCancels ==
  [][ (runPc' \in Handling /\ runPc \notin Handling) => ~stopped[running'] ]_vars

(***************************************************************************)
(* An active callout fires or is stopped (npl.rs:710-740), and the event   *)
(* of a fired one is handled or cancelled.                                 *)
(***************************************************************************)
FiresEventually ==
  \A co \in Callouts : /\ active[co] ~> ~active[co]
                       /\ Contains(evq, co) ~> ~Contains(evq, co)

==============================================================================
