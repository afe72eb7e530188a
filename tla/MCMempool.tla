------------------------------ MODULE MCMempool ------------------------------
(* Model checking of OsMempool with a pool of event buffers and two pools     *)
(* without blocks, for the list of pools; to these every block is foreign.    *)
EXTENDS OsMempool, TLC, FiniteSets

CONSTANTS evt, cmd, none, e1, e2

ThreePools == (evt :> <<e1, e2>>) @@ (cmd :> << >>) @@ (none :> << >>)

Alike == {f @@ g : f \in Permutations(Clients), g \in Permutations({cmd, none})}
================================================================================
