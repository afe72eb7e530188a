-------------------------------- MODULE MCL2cap --------------------------------
(* Model checking of L2capChannel; the configuration chooses the pool sizes  *)
(* and the bounds.                                                           *)
EXTENDS L2capChannel
==============================================================================
