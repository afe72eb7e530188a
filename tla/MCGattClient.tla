----------------------------- MODULE MCGattClient -----------------------------
(* Model checking of GattClient: every payload of up to five bytes over a    *)
(* small alphabet, the example's server and servers like it.                 *)
EXTENDS GattClient

MCName == <<1>>
MCPayloads == SeqOf({0, 1, 2, 9}, 5)

Chr(uuid, flags) == [uuid |-> uuid, flags |-> flags]
Svc(uuid, chrs) == [primary |-> TRUE, uuid |-> uuid, chrs |-> chrs]
Example == Svc("SVC", <<Chr("RECV", {"Write"}), Chr("IND", {"Indicate"})>>)
Twin    == Svc("OTHER", <<Chr("IND", {"Indicate"}), Chr("RECV", {"Write"})>>)

MCPeers ==
  {<<Example>>, <<Twin>>, <<Twin, Example>>, <<Example, Twin>>, <<Example, Example>>,
   <<Svc("SVC", <<Chr("RECV", {"Write"})>>), Twin>>,
   <<Example, Svc("SVC", <<Chr("RECV", {"Write"})>>)>>,
   <<Svc("SVC", <<Chr("RECV", {"Write"}), Chr("IND", {"Read"})>>), Twin>>}
=============================================================================
