---------------------------- MODULE NplEventQueue ----------------------------
(***************************************************************************)
(* The NPL event queue of nimble-rs/src/npl.rs (the intrusive list and its *)
(* single waker slot) together with the loop that consumes it,             *)
(* port::run_events inside Ble::run.                                       *)
(*                                                                         *)
(* One critical section of the code is one step.  ble_npl_eventq_put is    *)
(* two steps, because the waker taken inside the critical section is woken *)
(* after it; eventq_poll is two steps, because the event seen by the first *)
(* critical section is popped in a second one.  `fifo' is a history        *)
(* variable: the events in the order in which they were put.               *)
(***************************************************************************)
EXTENDS Naturals, Sequences, SequencesExt, LinkedLists

CONSTANTS Events,    \* the ble_npl_event objects of the host
          Threads,   \* threads that call into the host beside the run task
          RunTasks,  \* executor tasks that may poll Ble::run
          NULL       \* the null pointer, no waker, no task

ASSUME NullAssumption == NULL \notin Events \cup RunTasks

VARIABLES
  init_tag,   \* EventQueue.init_tag is not null
  head,       \* EventQueue.head
  tail,       \* EventQueue.tail
  waker,      \* EventQueue.waker
  next,       \* Event.next, for every event
  queued,     \* Event.queued, for every event
  usable,     \* the events the host has initialised in this driver lifetime
  run,        \* the task that owns the live Ble::run future, or NULL
  woken,      \* that task is scheduled to be polled
  pollPc,     \* where the poll of run_events stands
  current,    \* the event run_events has popped and is running
  held,       \* the waker a caller of eventq_put has taken and not yet woken
  fifo        \* history: the events put and not yet popped or removed

queueVars == <<init_tag, head, tail, waker, next, queued>>
runVars   == <<run, woken, pollPc, current>>
vars      == <<queueVars, usable, runVars, held, fifo>>

Callers == Threads \cup RunTasks

Init ==
  /\ init_tag = FALSE
  /\ head = NULL /\ tail = NULL /\ waker = NULL
  /\ next = [e \in Events |-> NULL]
  /\ queued = [e \in Events |-> FALSE]
  /\ usable = {}
  /\ run = NULL /\ woken = FALSE /\ pollPc = "await" /\ current = NULL
  /\ held = [c \in Callers |-> NULL]
  /\ fifo = << >>

(***************************************************************************)
(* Life of the driver: port::init, Ble::run, port::deinit.  Rust's borrow  *)
(* rules make the driver's Drop exclusive with a live run future and with  *)
(* a host call in progress.                                                *)
(***************************************************************************)
EventqInit ==
  /\ ~init_tag
  /\ init_tag' = TRUE
  /\ head' = NULL /\ tail' = NULL /\ waker' = NULL
  /\ usable' = {}
  /\ UNCHANGED <<next, queued, runVars, held, fifo>>

\* The host initialises each of its events once the queue exists, before it
\* uses them; an event left over from an earlier lifetime is overwritten.
EventInit(e) ==
  /\ init_tag /\ e \notin usable
  /\ next' = [next EXCEPT ![e] = NULL]
  /\ queued' = [queued EXCEPT ![e] = FALSE]
  /\ usable' = usable \cup {e}
  /\ UNCHANGED <<init_tag, head, tail, waker, runVars, held, fifo>>

\* The queue forgets its events without touching them: they stay `queued'
\* and keep their `next'.  The waker taken here belongs to a finished task.
EventqDeinit ==
  /\ init_tag
  /\ run = NULL
  /\ \A c \in Callers : held[c] = NULL
  /\ init_tag' = FALSE
  /\ head' = NULL /\ tail' = NULL /\ waker' = NULL
  /\ fifo' = << >>
  /\ UNCHANGED <<next, queued, usable, runVars, held>>

\* ble_hs_deinit, which runs after the queue is gone.
EventDeinit(e) ==
  /\ ~init_tag /\ e \in usable
  /\ queued' = [queued EXCEPT ![e] = FALSE]
  /\ usable' = usable \ {e}
  /\ UNCHANGED <<init_tag, head, tail, waker, next, runVars, held, fifo>>

StartRun(r) ==
  /\ init_tag /\ run = NULL
  /\ run' = r /\ woken' = TRUE
  /\ UNCHANGED <<queueVars, usable, pollPc, current, held, fifo>>

\* A future is dropped between two polls; its waker stays where it was put.
DropRun ==
  /\ run # NULL /\ pollPc = "await"
  /\ run' = NULL /\ woken' = FALSE
  /\ UNCHANGED <<queueVars, usable, pollPc, current, held, fifo>>

(***************************************************************************)
(* The operations the host calls, from any thread or from a handler that   *)
(* the run task is executing.                                              *)
(***************************************************************************)
CanCall(c) ==
  /\ held[c] = NULL
  /\ c \in Threads \/ (c = run /\ pollPc = "handle")

\* Fault: an event pushed at the front of the list.
EventqPutFront(c, e) ==
  /\ CanCall(c) /\ e \in usable
  /\ ~queued[e] /\ init_tag
  /\ queued' = [queued EXCEPT ![e] = TRUE]
  /\ next' = [next EXCEPT ![e] = head]
  /\ head' = e
  /\ tail' = IF tail = NULL THEN e ELSE tail
  /\ held' = [held EXCEPT ![c] = waker]
  /\ waker' = NULL
  /\ fifo' = Append(fifo, e)
  /\ UNCHANGED <<init_tag, usable, runVars>>

\* ble_npl_eventq_put, the critical section: refused when the event already
\* waits or the queue is not initialised, else appended, and the waker taken.
EventqPut(c, e) ==
  /\ CanCall(c) /\ e \in usable
  /\ IF queued[e] \/ ~init_tag
     THEN UNCHANGED <<head, tail, next, queued, waker, held, fifo>>
     ELSE /\ queued' = [queued EXCEPT ![e] = TRUE]
          /\ next' = [x \in Events |-> IF x = e THEN NULL
                                       ELSE IF x = tail THEN e ELSE next[x]]
          /\ head' = IF tail = NULL THEN e ELSE head
          /\ tail' = e
          /\ held' = [held EXCEPT ![c] = waker]
          /\ waker' = NULL
          /\ fifo' = Append(fifo, e)
  /\ UNCHANGED <<init_tag, usable, runVars>>

\* waker.wake() after the critical section: schedules the task, if it is
\* still the one that runs the driver.
Wake(c) ==
  /\ held[c] # NULL
  /\ held' = [held EXCEPT ![c] = NULL]
  /\ woken' = (woken \/ held[c] = run)
  /\ UNCHANGED <<queueVars, usable, run, pollPc, current, fifo>>

\* The events the list walk of ble_npl_eventq_remove visits: the smallest
\* set that holds the head and the successor of each of its members.
Linked == Walked(Events, head, next, NULL)

Prev(e) == IF \E p \in Linked : next[p] = e
           THEN CHOOSE p \in Linked : next[p] = e
           ELSE NULL

\* Fault: removing the last event leaves the tail on it.
EventqRemoveKeepsTail(c, e) ==
  /\ CanCall(c) /\ e \in usable
  /\ queued[e] /\ e \in Linked
  /\ head' = IF head = e THEN next[e] ELSE head
  /\ next' = [x \in Events |-> IF x = e THEN NULL
                               ELSE IF x = Prev(e) THEN next[e] ELSE next[x]]
  /\ queued' = [queued EXCEPT ![e] = FALSE]
  /\ fifo' = Remove(fifo, e)
  /\ UNCHANGED <<init_tag, tail, waker, usable, runVars, held>>

\* ble_npl_eventq_remove: one critical section; a walk that does not meet
\* the event changes nothing, not even its `queued'.
EventqRemove(c, e) ==
  /\ CanCall(c) /\ e \in usable
  /\ queued[e] /\ e \in Linked
  /\ head' = IF head = e THEN next[e] ELSE head
  /\ tail' = IF tail = e THEN Prev(e) ELSE tail
  /\ next' = [x \in Events |-> IF x = e THEN NULL
                               ELSE IF x = Prev(e) THEN next[e] ELSE next[x]]
  /\ queued' = [queued EXCEPT ![e] = FALSE]
  /\ \E i \in DOMAIN fifo : fifo[i] = e /\ fifo' = RemoveAt(fifo, i)
  /\ UNCHANGED <<init_tag, waker, usable, runVars, held>>

(***************************************************************************)
(* port::run_events, polled by the executor when its task is woken.        *)
(***************************************************************************)

\* Another arm of the run future, or the executor itself, schedules the task.
SpuriousWake ==
  /\ run # NULL /\ ~woken
  /\ woken' = TRUE
  /\ UNCHANGED <<queueVars, usable, run, pollPc, current, held, fifo>>

BeginPoll ==
  /\ run # NULL /\ woken /\ pollPc = "await"
  /\ woken' = FALSE
  /\ pollPc' = "peek"
  /\ UNCHANGED <<queueVars, usable, run, current, held, fifo>>

\* Fault: the waker is stored only when the slot is free.
EventqPeekKeepsWaker ==
  /\ pollPc = "peek"
  /\ IF head = NULL
     THEN waker' = (IF waker = NULL THEN run ELSE waker) /\ pollPc' = "await"
     ELSE pollPc' = "pop" /\ UNCHANGED waker
  /\ UNCHANGED <<init_tag, head, tail, next, queued, usable, run, woken,
                 current, held, fifo>>

\* eventq_poll, first critical section: an empty queue takes the waker.
EventqPeek ==
  /\ pollPc = "peek"
  /\ IF head = NULL
     THEN waker' = run /\ pollPc' = "await"
     ELSE pollPc' = "pop" /\ UNCHANGED waker
  /\ UNCHANGED <<init_tag, head, tail, next, queued, usable, run, woken,
                 current, held, fifo>>

\* Fault: the popped pointer is run without the null check.
EventqTryPopUnchecked ==
  /\ pollPc = "pop"
  /\ pollPc' = "handle"
  /\ current' = head
  /\ IF head = NULL
     THEN UNCHANGED <<head, tail, next, queued, fifo>>
     ELSE /\ head' = next[head]
          /\ tail' = IF next[head] = NULL THEN NULL ELSE tail
          /\ next' = [next EXCEPT ![head] = NULL]
          /\ queued' = [queued EXCEPT ![head] = FALSE]
          /\ fifo' = Tail(fifo)
  /\ UNCHANGED <<init_tag, waker, usable, run, woken, held>>

\* Fault: popping the last event leaves the tail on it, so that the next
\* event put hangs behind an event that is no longer in the list.
EventqTryPopKeepsTail ==
  /\ pollPc = "pop"
  /\ head # NULL
  /\ head' = next[head]
  /\ next' = [next EXCEPT ![head] = NULL]
  /\ queued' = [queued EXCEPT ![head] = FALSE]
  /\ current' = head
  /\ pollPc' = "handle"
  /\ fifo' = Tail(fifo)
  /\ UNCHANGED <<init_tag, tail, waker, usable, run, woken, held>>

\* eventq_try_pop, the second critical section: the event seen by the first
\* may have been removed meanwhile, and then run_events polls again.
EventqTryPop ==
  /\ pollPc = "pop"
  /\ IF head = NULL
     THEN /\ pollPc' = "peek"
          /\ UNCHANGED <<head, tail, next, queued, current, fifo>>
     ELSE /\ head' = next[head]
          /\ tail' = IF next[head] = NULL THEN NULL ELSE tail
          /\ next' = [next EXCEPT ![head] = NULL]
          /\ queued' = [queued EXCEPT ![head] = FALSE]
          /\ current' = head
          /\ pollPc' = "handle"
          /\ fifo' = Tail(fifo)
  /\ UNCHANGED <<init_tag, waker, usable, run, woken, held>>

\* ble_npl_event_run returns and run_events goes round its loop.
EventRunDone ==
  /\ pollPc = "handle" /\ held[run] = NULL
  /\ pollPc' = "peek"
  /\ current' = NULL
  /\ UNCHANGED <<queueVars, usable, run, woken, held, fifo>>

Next ==
  \/ EventqInit \/ EventqDeinit
  \/ \E e \in Events : EventInit(e) \/ EventDeinit(e)
  \/ \E r \in RunTasks : StartRun(r)
  \/ DropRun
  \/ \E c \in Callers : Wake(c) \/ \E e \in Events : EventqPut(c, e) \/ EventqRemove(c, e)
  \/ SpuriousWake \/ BeginPoll \/ EventqPeek \/ EventqTryPop \/ EventRunDone

Spec == Init /\ [][Next]_vars

\* The executor polls a woken task, a poll runs on, handlers return, and a
\* thread that has taken a waker goes on to wake it.
Fairness ==
  /\ WF_vars(BeginPoll)
  /\ WF_vars(EventqPeek)
  /\ WF_vars(EventqTryPop)
  /\ WF_vars(EventRunDone)
  /\ \A c \in Callers : WF_vars(Wake(c))

FairSpec == Spec /\ Fairness

-----------------------------------------------------------------------------
(***************************************************************************)
(* Type invariant.  The last conjunct says that run_events never hands a   *)
(* null pointer to ble_npl_event_run (port.rs:94), although the event it   *)
(* saw may vanish before it is popped.                                     *)
(***************************************************************************)
TypeOK ==
  /\ init_tag \in BOOLEAN
  /\ head \in Events \cup {NULL}
  /\ tail \in Events \cup {NULL}
  /\ waker \in RunTasks \cup {NULL}
  /\ next \in [Events -> Events \cup {NULL}]
  /\ queued \in [Events -> BOOLEAN]
  /\ usable \in SUBSET Events
  /\ run \in RunTasks \cup {NULL}
  /\ woken \in BOOLEAN
  /\ pollPc \in {"await", "peek", "pop", "handle"}
  /\ current \in Events \cup {NULL}
  /\ held \in [Callers -> RunTasks \cup {NULL}]
  /\ fifo \in Seq(Events)
  /\ (current # NULL) <=> (pollPc = "handle")

(***************************************************************************)
(* The intrusive list is exactly the queue of events put and not yet taken *)
(* (npl.rs:205-341): head, next and tail spell it out in order, without    *)
(* repetition, and `queued' marks its members among the events in use, so  *)
(* that no put can link an event twice and no put is refused wrongly.      *)
(***************************************************************************)
ListSpellsFifo ==
  /\ head = IF fifo = << >> THEN NULL ELSE fifo[1]
  /\ tail = IF fifo = << >> THEN NULL ELSE fifo[Len(fifo)]
  /\ \A i \in 1..Len(fifo) :
       next[fifo[i]] = IF i = Len(fifo) THEN NULL ELSE fifo[i + 1]

FifoHasNoRepeats ==
  \A i, j \in 1..Len(fifo) : fifo[i] = fifo[j] => i = j

QueuedMarksMembers ==
  /\ \A i \in 1..Len(fifo) : fifo[i] \in usable /\ queued[fifo[i]]
  /\ init_tag => \A e \in usable :
       queued[e] => \E i \in 1..Len(fifo) : fifo[i] = e

ListOK == ListSpellsFifo /\ FifoHasNoRepeats /\ QueuedMarksMembers

(***************************************************************************)
(* No lost wake-up (npl.rs:212-232 against 265-271): whenever an event     *)
(* waits while the run task sleeps, some thread is between taking the run  *)
(* task's waker and waking it.                                             *)
(***************************************************************************)
NoLostWakeup ==
  (run # NULL /\ pollPc = "await" /\ ~woken /\ fifo # << >>)
    => \E c \in Callers : held[c] = run

\* The parts of the inductive invariant that NoLostWakeup and the
\* refinement rest on: a sleeping run task either has its waker in the slot
\* of an empty queue or is about to be woken; the loop runs only over an
\* initialised queue; a queue that is not initialised is empty.
SleeperReachable ==
  (run # NULL /\ pollPc = "await" /\ ~woken)
    => (fifo = << >> /\ waker = run) \/ \E c \in Callers : held[c] = run

LifeOK ==
  /\ run # NULL => init_tag
  /\ pollPc # "await" => run # NULL
  /\ ~init_tag => fifo = << >>

IInv == TypeOK /\ ListOK /\ SleeperReachable /\ LifeOK

(***************************************************************************)
(* Every event put is eventually popped or removed, as long as the driver  *)
(* keeps running (npl.rs:259-279 with port.rs:84-100).                     *)
(***************************************************************************)
EventServed ==
  \A e \in Events :
    (run # NULL /\ queued[e] /\ e \in usable) ~> (run = NULL \/ ~queued[e])

(***************************************************************************)
(* The list with its waker implements the plain FIFO of EventFifo: the     *)
(* event run_events pops is the oldest one put, whatever the threads do.   *)
(***************************************************************************)
Fifo == INSTANCE EventFifo WITH open <- init_tag, q <- fifo

ImplementsFifo == Fifo!FifoSpec

==============================================================================
