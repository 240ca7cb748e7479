-------------------------- MODULE MCConfigReload --------------------------
(* Instances of ConfigReload: one key per table at most, values the        *)
(* builders accept and one they do not, and one or two calls.              *)
EXTENDS ConfigReload, TLC

CONSTANTS ads, resolver, quad9, lan, index, a, b, bad, refused, i1, i2, i3

Bag(vs) == [v \in Vals |-> IF v \in vs THEN 1 ELSE 0]

SeedRow(id, vs) == [id |-> id, on |-> TRUE, val |-> a, parts |-> Bag(vs)]

(* An upstream that stays, and a zone that is not there at first. *)
JustUpstream == {quad9}
JustZone == {lan}
OneGood == {NoParts, Bag({a})}

(* The resolver settings and an upstream. *)
JustSetting == {resolver}
SettingAndUpstream == {resolver, quad9}
SettingSeeds == {(quad9 :> SeedRow(i1, {})) @@ (resolver :> SeedRow(i2, {a}))}

(* A row in every table but zones. *)
JustList == {ads}
JustSource == {index}
AllSeeds ==
  {(quad9 :> SeedRow(i1, {})) @@ (lan :> NoRow) @@ (ads :> SeedRow(i2, {}))
   @@ (resolver :> SeedRow(i2, {a})) @@ (index :> SeedRow(i3, {a}))}
MixedServers == {Bag({a, b}), Bag({bad, refused})}

MCSymmetry == Permutations(Calls) \cup Permutations(Ids \ {i1, i2, i3})
=============================================================================
