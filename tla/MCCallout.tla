------------------------------- MODULE MCCallout -------------------------------
(* Model checking of NplCallout; the configurations choose the callouts, the *)
(* threading model and the bounds.                                           *)
EXTENDS NplCallout
==============================================================================
