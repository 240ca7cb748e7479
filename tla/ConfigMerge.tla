--------------------------- MODULE ConfigMerge ---------------------------
(***************************************************************************)
(* `dns-filter merge-config`: the example configuration filled in under    *)
(* the user's, src/frameworks/config/merger.rs.                            *)
(*                                                                         *)
(* A YAML value is [map |-> its entries], [seq |-> its items] or           *)
(* [scalar |-> a value].                                                   *)
(***************************************************************************)
EXTENDS Naturals, Sequences, SequencesExt

IsMap(v) == "map" \in DOMAIN v

\* Mappings are merged entry by entry; of anything else the overlay wins.
RECURSIVE deep_merge(_, _)
deep_merge(base, overlay) ==
  IF ~(IsMap(base) /\ IsMap(overlay)) THEN overlay
  ELSE [map |-> [k \in DOMAIN base.map \cup DOMAIN overlay.map |->
         IF k \notin DOMAIN overlay.map THEN base.map[k]
         ELSE IF k \notin DOMAIN base.map THEN overlay.map[k]
         ELSE deep_merge(base.map[k], overlay.map[k])]]

\* A listener's "address" becomes "addresses", which wins if both are there.
Section(v) ==
  IF ~IsMap(v) \/ "address" \notin DOMAIN v.map THEN v
  ELSE LET list == IF "seq" \in DOMAIN v.map["address"] THEN v.map["address"] ELSE [seq |-> <<v.map["address"]>>]
       IN [map |-> [k \in (DOMAIN v.map \ {"address"}) \cup {"addresses"} |->
            IF k \in DOMAIN v.map THEN v.map[k] ELSE list]]

normalize_listen_addresses(root) ==
  IF IsMap(root) /\ "listen" \in DOMAIN root.map /\ IsMap(root.map["listen"])
  THEN [root EXCEPT !.map["listen"].map = [k \in DOMAIN @ |-> Section(@[k])]]
  ELSE root

merge_with_example(example, user) ==
  deep_merge(normalize_listen_addresses(example), normalize_listen_addresses(user))

-----------------------------------------------------------------------------
\* The value at a path.
RECURSIVE Has(_, _)
Has(v, path) ==
  path = <<>> \/ (IsMap(v) /\ path[1] \in DOMAIN v.map /\ Has(v.map[path[1]], Tail(path)))

RECURSIVE At(_, _)
At(v, path) == IF path = <<>> THEN v ELSE At(v.map[path[1]], Tail(path))

Leaf(v, path) == Has(v, path) /\ ~IsMap(At(v, path))

(* "every value present in the user config wins over the example default.  *)
(* Sections the user omits are filled from the example config": for each   *)
(* path, where a listener's addresses may be written in the old way by     *)
(* either of the two.                                                      *)
UserSettingsWin(example, user, paths) ==
  LET merged == merge_with_example(example, user)
      Old(path) == IF Len(path) = 3 /\ path[1] = "listen" /\ path[3] = "addresses"
                   THEN [path EXCEPT ![3] = "address"] ELSE path
      Written(v, path) == Has(v, path) \/ Has(v, Old(path))
      Value(v, path) == IF Has(v, path) THEN At(v, path) ELSE [seq |-> <<At(v, Old(path))>>]
      Legacy(path) == Len(path) = 3 /\ path[1] = "listen" /\ path[3] = "address"
      Cut(path) == \E n \in 0 .. Len(path) - 1 : Leaf(user, SubSeq(path, 1, n))
  IN \A path \in paths :
       IF Legacy(path) THEN ~Has(merged, path)
       ELSE IF Written(user, path)
       THEN Has(merged, path) /\ (~IsMap(Value(user, path)) => At(merged, path) = Value(user, path))
       ELSE IF Written(example, path) /\ ~Cut(path)
       THEN Has(merged, path) /\ (~IsMap(Value(example, path)) => At(merged, path) = Value(example, path))
       ELSE ~Has(merged, path)
=============================================================================
