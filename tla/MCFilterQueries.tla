-------------------------- MODULE MCFilterQueries --------------------------
(* Instances of FilterQueries: a block list and an allow list over a       *)
(* domain and its parent.                                                  *)
EXTENDS FilterQueries, TLC

CONSTANTS ads, safe

MCLists == {ads, safe}
MCKind == (ads :> "Block") @@ (safe :> "Allow")
parent == <<"example">>
child == <<"cdn", "example">>
MCDomains == {parent, child}
MCDocs == {[domains |-> {parent}, exceptions |-> {}],
           [domains |-> {child}, exceptions |-> {}]}
=============================================================================
