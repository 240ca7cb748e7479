------------------------- MODULE MCRequestPipeline -------------------------
(* Instances of RequestPipeline: a name in two nested zones and one in     *)
(* none, under pipelines that bypass, fall back and forbid both.           *)
EXTENDS RequestPipeline, TLC

nas == <<"nas", "lan">>
org == <<"org">>
MCNames == {nas, org}

lan == <<"lan">>
root == <<>>
MCZones == {nas, lan, root}
MCWidth == (nas :> 7) @@ (lan :> 3) @@ (root :> 1)

E(zone, bypass, fallback) == [zone |-> zone, bypass |-> bypass, fallback |-> fallback]

MCPipelines ==
  {[entries |-> <<E(lan, FALSE, FALSE), E(nas, FALSE, TRUE)>>, policy |-> "notimp"],
   [entries |-> <<E(lan, TRUE, TRUE), E(nas, FALSE, FALSE)>>, policy |-> "passthrough"],
   [entries |-> <<E(root, TRUE, FALSE), E(nas, TRUE, TRUE)>>, policy |-> "refused"]}
=============================================================================
