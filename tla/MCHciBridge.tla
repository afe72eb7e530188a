------------------------------ MODULE MCHciBridge ------------------------------
(* Model checking of HciBridge: a budget for commands, whose acks may come     *)
(* late or not at all, and one for data next to a command.                     *)
EXTENDS HciBridge

MCBudgets ==
  {[cmds |-> 3, acls |-> 0, packets |-> 1, timeouts |-> 2, drops |-> 1],
   [cmds |-> 1, acls |-> 3, packets |-> 0, timeouts |-> 0, drops |-> 1]}
================================================================================
