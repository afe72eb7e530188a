----------------------------- MODULE MCEventQueue -----------------------------
(* Model checking of NplEventQueue: the events, threads and tasks are model  *)
(* values given in the configurations.                                       *)
EXTENDS NplEventQueue
==============================================================================
