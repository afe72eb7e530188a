------------------------------ MODULE EventFifo ------------------------------
(***************************************************************************)
(* What the NPL default event queue promises to the NimBLE host: events    *)
(* wait in the order in which they were posted, none waits twice, the      *)
(* event handed to the driver's loop is always the oldest one, and a       *)
(* cancelled event is never handed out.  NplEventQueue, the intrusive      *)
(* linked list of nimble-rs/src/npl.rs, is shown to implement it.          *)
(***************************************************************************)
EXTENDS Naturals, Sequences, SequencesExt

CONSTANTS Events,   \* the host's event objects
          NULL      \* no event

VARIABLES open,     \* the queue is initialised
          q,        \* the waiting events, oldest first
          current   \* the event whose handler is running, or NULL

fifoVars == <<open, q, current>>

FifoInit ==
  /\ open = FALSE
  /\ q = << >>
  /\ current = NULL

Open ==
  /\ ~open
  /\ open' = TRUE
  /\ UNCHANGED <<q, current>>

\* A queue is closed with whatever still waits in it thrown away, and never
\* under a running handler.
Close ==
  /\ open /\ current = NULL
  /\ open' = FALSE
  /\ q' = << >>
  /\ UNCHANGED current

Post(e) ==
  /\ open
  /\ \A i \in DOMAIN q : q[i] # e
  /\ q' = Append(q, e)
  /\ UNCHANGED <<open, current>>

Take ==
  /\ open /\ current = NULL
  /\ q # << >>
  /\ current' = Head(q)
  /\ q' = Tail(q)
  /\ UNCHANGED open

Finish ==
  /\ current # NULL
  /\ current' = NULL
  /\ UNCHANGED <<open, q>>

Cancel(e) ==
  /\ \E i \in DOMAIN q : q[i] = e /\ q' = RemoveAt(q, i)
  /\ UNCHANGED <<open, current>>

FifoNext ==
  \/ Open \/ Close \/ Take \/ Finish
  \/ \E e \in Events : Post(e) \/ Cancel(e)

FifoSpec == FifoInit /\ [][FifoNext]_fifoVars

==============================================================================
