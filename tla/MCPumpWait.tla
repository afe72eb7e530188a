------------------------------ MODULE MCPumpWait ------------------------------
(* Model checking of PumpWait: a long behaviour on one thread, two calling     *)
(* threads next to the run task, and two threads that want the mutex.          *)
EXTENDS PumpWait

CONSTANTS a1, a2

Threads(callers, c, p) ==
  [threads |-> TRUE, apps |-> callers, calls |-> c, packets |-> p,
   timeouts |-> 0, drops |-> 0]

MCBudgets ==
  {[threads |-> FALSE, apps |-> {a1}, calls |-> 4, packets |-> 2, timeouts |-> 3, drops |-> 1],
   Threads({a1, a2}, 2, 1)}
Contention == {Threads({a1, a2}, 2, 0)}
===============================================================================
