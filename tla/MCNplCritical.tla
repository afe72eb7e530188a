----------------------------- MODULE MCNplCritical -----------------------------
(* Model checking of NplCritical. *)
EXTENDS NplCritical, TLC

CONSTANTS t1, t2, t3

MCContexts == {t1, t2, t3}
MCCtxId == t1 :> 1 @@ t2 :> 2 @@ t3 :> 3
==============================================================================
