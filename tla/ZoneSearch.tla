---------------------------- MODULE ZoneSearch ----------------------------
(***************************************************************************)
(* Searching the zones of ZoneAuthority: search_records of                 *)
(* src/use_cases/zone_authority.rs, for one zone, and of zone_registry.rs, *)
(* for all of them.  score[n] is how well a name matches the text that is  *)
(* searched for; 0 if it does not.                                         *)
(***************************************************************************)
EXTENDS ZoneAuthority, FiniteSets, SequencesExt

\* A type it does not know filters nothing.
parse_record_type_filter(type) == IF type \in RecordTypes THEN {type} ELSE RecordTypes

BestFirst(found) == SortSeq(found, LAMBDA a, b : a.score > b.score)

Truncated(s, limit) == SubSeq(s, 1, IF Len(s) < limit THEN Len(s) ELSE limit)

search_zone(snapshot, score, type, limit) ==
  LET hits == SelectSeq(snapshot.records, LAMBDA r :
                score[r.name] > 0 /\ r.type \in parse_record_type_filter(type))
  IN Truncated(BestFirst([i \in DOMAIN hits |->
       [record |-> hits[i], zone |-> snapshot.zone, score |-> score[hits[i].name]]]), limit)

\* ZoneRegistry::search_records; <<>> is no filter.
search_records(zones, score, zone_filter, type, limit) ==
  LET asked == SelectSeq(zones, LAMBDA z : zone_filter = <<>> \/ z.zone = zone_filter)
  IN Truncated(BestFirst(FlattenSeq([i \in DOMAIN asked |-> search_zone(asked[i], score, type, limit)])), limit)

(* A search returns the best matches of all zones together, best first and *)
(* as many as there are up to the limit, although each zone is cut at the  *)
(* limit before the results are put together.                              *)
SearchFindsBest(zones, score, zone_filter, type, limit) ==
  LET found == search_records(zones, score, zone_filter, type, limit)
      Matches(z) == {i \in DOMAIN z.records :
                       score[z.records[i].name] > 0 /\ (type \in RecordTypes => z.records[i].type = type)}
      all == {m \in (DOMAIN zones) \X (1 .. 9) :
                m[2] \in Matches(zones[m[1]]) /\ (zone_filter = <<>> \/ zones[m[1]].zone = zone_filter)}
      Score(m) == score[zones[m[1]].records[m[2]].name]
  IN /\ Len(found) = IF Cardinality(all) < limit THEN Cardinality(all) ELSE limit
     /\ \A i \in DOMAIN found : found[i].record \in {zones[m[1]].records[m[2]] : m \in all}
     /\ \A i, j \in DOMAIN found : i < j => found[i].score >= found[j].score
     /\ \A i \in DOMAIN found :
          Cardinality({m \in all : Score(m) > found[i].score}) < i
=============================================================================
