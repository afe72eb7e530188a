------------------------------ MODULE NplCritical ------------------------------
(***************************************************************************)
(* The critical sections the C host asks for (ble_npl_hw_enter_critical    *)
(* and ble_npl_hw_exit_critical, nimble-rs/src/npl.rs), which may be       *)
(* nested, on top of the program's critical-section implementation, which  *)
(* Rust code also uses directly (critical_section::with).                  *)
(*                                                                         *)
(* CS_STATE says who is inside and how deep.  Its owner is read before the *)
(* lock is taken, while another thread may be writing it: each access is a *)
(* step of its own.  The lock is external: acquire blocks while another    *)
(* thread has it and says whether the caller had it already; release       *)
(* restores that.                                                          *)
(*                                                                         *)
(* The prefix Cs keeps the names apart from those of the modules with      *)
(* which this one is extended in DriverProofs.                             *)
(***************************************************************************)
EXTENDS Naturals, FiniteSets

CONSTANTS
  Contexts,   \* the contexts that call into the driver
  ctx_id,     \* the identity the parker gives each of them
  MaxDepth,   \* bound: how deep sections are nested
  NONE

\* Parker::ctx_id is "Never 0, and unique among contexts that call into the
\* driver concurrently".
ASSUME CriticalAssumption ==
  /\ ctx_id \in [Contexts -> Nat \ {0}]
  /\ \A s, t \in Contexts : ctx_id[s] = ctx_id[t] => s = t
  /\ MaxDepth \in Nat \ {0}
  /\ NONE \notin Contexts

VARIABLES
  owner, depth, restore,   \* the fields of CS_STATE
  lock,       \* the thread that has the lock, or NONE
  was,        \* per thread: what its last acquire returned, "free" or "held"
  at,         \* out, in (a section), or in the middle of a call
  nest        \* history: the sections each thread is in

CS_STATE == <<owner, depth, restore>>

csVars == <<owner, depth, restore, lock, was, at, nest>>

CsInit ==
  /\ owner = 0 /\ depth = 0 /\ restore = "none"
  /\ lock = NONE
  /\ was = [t \in Contexts |-> "free"]
  /\ at = [t \in Contexts |-> "out"]
  /\ nest = [t \in Contexts |-> 0]

CsGoto(t, l) == at' = [at EXCEPT ![t] = l]

\* critical_section::acquire and release.
acquire(t) ==
  /\ lock \in {NONE, t}
  /\ lock' = t
  /\ was' = [was EXCEPT ![t] = IF lock = t THEN "held" ELSE "free"]

release(had) == lock' = IF had = "free" THEN NONE ELSE lock

-----------------------------------------------------------------------------
(* ble_npl_hw_enter_critical                                               *)

\* Fault: a section that is open is taken for the caller's own.
EnterAnyOpen(t) ==
  /\ at[t] \in {"out", "in"} /\ nest[t] < MaxDepth
  /\ IF depth > 0
     THEN /\ depth' = depth + 1
          /\ nest' = [nest EXCEPT ![t] = @ + 1]
          /\ CsGoto(t, "in")
     ELSE CsGoto(t, "acquire") /\ UNCHANGED <<depth, nest>>
  /\ UNCHANGED <<owner, restore, lock, was>>

\* Look at the owner: a nested section only counts up.
EnterCritical(t) ==
  /\ at[t] \in {"out", "in"} /\ nest[t] < MaxDepth
  /\ IF owner = ctx_id[t]
     THEN /\ depth' = depth + 1
          /\ nest' = [nest EXCEPT ![t] = @ + 1]
          /\ CsGoto(t, "in")
     ELSE CsGoto(t, "acquire") /\ UNCHANGED <<depth, nest>>
  /\ UNCHANGED <<owner, restore, lock, was>>

EnterAcquire(t) ==
  /\ at[t] = "acquire"
  /\ acquire(t)
  /\ CsGoto(t, "own")
  /\ UNCHANGED <<CS_STATE, nest>>

EnterOwn(t) ==
  /\ at[t] = "own"
  /\ owner' = ctx_id[t] /\ depth' = 1 /\ restore' = was[t]
  /\ nest' = [nest EXCEPT ![t] = @ + 1]
  /\ CsGoto(t, "in")
  /\ UNCHANGED <<lock, was>>

-----------------------------------------------------------------------------
(* ble_npl_hw_exit_critical                                                *)

\* The outermost one gives up the ownership while it still has the lock.
ExitCritical(t) ==
  /\ at[t] = "in"
  /\ depth' = depth - 1
  /\ owner' = IF depth = 1 THEN 0 ELSE owner
  /\ nest' = [nest EXCEPT ![t] = @ - 1]
  /\ CsGoto(t, IF depth = 1 THEN "release" ELSE "in")
  /\ UNCHANGED <<restore, lock, was>>

\* Fault: the lock is released before the state's last field is taken.
ExitTakesLate(t) ==
  /\ at[t] \in {"release", "late"}
  /\ IF at[t] = "release"
     THEN release(restore) /\ CsGoto(t, "late") /\ UNCHANGED restore
     ELSE restore' = "none" /\ CsGoto(t, "out") /\ UNCHANGED lock
  /\ UNCHANGED <<owner, depth, was, nest>>

ExitRelease(t) ==
  /\ at[t] = "release"
  /\ restore' = "none"
  /\ release(restore)
  /\ CsGoto(t, "out")
  /\ UNCHANGED <<owner, depth, was, nest>>

\* ble_npl_hw_is_in_critical
hw_is_in_critical(t) == owner = ctx_id[t]

-----------------------------------------------------------------------------
(* critical_section::with, inside a section of the C host and outside.     *)

WithBegin(t) ==
  /\ at[t] \in {"out", "in"}
  /\ acquire(t)
  /\ CsGoto(t, IF at[t] = "in" THEN "nested" ELSE "with")
  /\ UNCHANGED <<CS_STATE, nest>>

WithEnd(t) ==
  /\ at[t] \in {"with", "nested"}
  /\ release(was[t])
  /\ CsGoto(t, IF at[t] = "nested" THEN "in" ELSE "out")
  /\ UNCHANGED <<CS_STATE, was, nest>>

CsStep(t) ==
  \/ EnterCritical(t) \/ EnterAcquire(t) \/ EnterOwn(t)
  \/ ExitCritical(t) \/ ExitRelease(t)
  \/ WithBegin(t) \/ WithEnd(t)

CsNext == \E t \in Contexts : CsStep(t)

CsSpec == CsInit /\ [][CsNext]_csVars

-----------------------------------------------------------------------------
(* Properties                                                              *)

Labels == {"out", "acquire", "own", "in", "release", "with", "nested"}

CsTypeOK ==
  /\ owner \in Nat /\ depth \in Nat /\ restore \in {"free", "held", "none"}
  /\ lock \in Contexts \cup {NONE}
  /\ was \in [Contexts -> {"free", "held"}]
  /\ at \in [Contexts -> Labels]
  /\ nest \in [Contexts -> Nat]

Inside(t) == nest[t] > 0 \/ at[t] \in {"with", "nested"}

\* At most one thread is in a critical section, of the C host or of Rust
\* code, although the owner is read without the lock and sections nest.
Exclusive == \A s, t \in Contexts : Inside(s) /\ Inside(t) => s = t

\* A thread that asks whether it is in a critical section gets the truth.
\* Whoever is inside a section of the C host has the lock until it has left
\* as many as it entered: nothing nested releases it early.  When every
\* thread is outside, the lock is free.
KnowsAndKeeps ==
  /\ \A t \in Contexts :
       /\ at[t] \in {"out", "in", "with", "nested"} => (hw_is_in_critical(t) <=> nest[t] > 0)
       /\ nest[t] > 0 => lock = t /\ depth = nest[t]
  /\ (\A t \in Contexts : at[t] \in {"out", "acquire"}) => lock = NONE

-----------------------------------------------------------------------------
(* The inductive invariant: who has the lock, by where it stands, and what *)
(* CS_STATE then says.                                                     *)

Holding == {"own", "in", "release", "with", "nested"}

CsIInv ==
  /\ CsTypeOK
  /\ \A t \in Contexts :
       /\ at[t] \in Holding <=> lock = t
       /\ nest[t] > 0 <=> at[t] \in {"in", "nested"}
       /\ nest[t] > 0 => owner = ctx_id[t] /\ depth = nest[t] /\ restore = "free"
       /\ at[t] \in {"own", "with"} => was[t] = "free"
       /\ at[t] = "nested" => was[t] = "held"
       /\ at[t] = "release" => owner = 0 /\ depth = 0 /\ restore = "free"
  /\ (\A t \in Contexts : nest[t] = 0) => owner = 0 /\ depth = 0
=============================================================================
