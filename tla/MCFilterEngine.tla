-------------------------- MODULE MCFilterEngine --------------------------
(* An instance of FilterEngine: a block list whose documents name a domain *)
(* or block its parent with an inline exception for it.                    *)
EXTENDS FilterEngine, TLC

CONSTANT ads

OneList == {ads}
OneKind == (ads :> "Block")
parent == <<"example">>
child == <<"cdn", "example">>
MCDomains == {parent, child}
MCDocs == {[domains |-> {parent}, exceptions |-> {child}],
           [domains |-> {child}, exceptions |-> {}]}
=============================================================================
