----------------------------- MODULE MCGattServer -----------------------------
(* Model checking of GattServer: tables of up to three services, with and    *)
(* without characteristics, the example's own among them.                    *)
EXTENDS GattServer

Chr(uuid, flags) == [uuid |-> uuid, flags |-> flags]
Svc(primary, uuid, chrs) == [primary |-> primary, uuid |-> uuid, chrs |-> chrs]

Example == Svc(TRUE, "SVC", <<Chr("RECV", {"Write"}), Chr("IND", {"Indicate"})>>)
Bare    == Svc(FALSE, "BARE", << >>)
Other   == Svc(TRUE, "OTHER", <<Chr("X", {"Read", "Notify", "NotifyIndicateAuthor"})>>)

MCServiceLists ==
  {list \in SeqOf({Example, Bare, Other}, 3) :
     list # << >> /\ Cardinality({i \in DOMAIN list : list[i] = Example}) <= 1}
==============================================================================
