-------------------------- MODULE ZoneAuthority --------------------------
(***************************************************************************)
(* Zones the daemon answers itself: src/use_cases/zone_authority.rs (a     *)
(* JSON document becomes a snapshot, a query is answered from it) and      *)
(* zone_discovery.rs (zones named in an index are added to the configured  *)
(* ones).                                                                  *)
(*                                                                         *)
(* A name is a sequence of labels, least significant first.  The text of   *)
(* one may end with a dot and may have capitals.                           *)
(***************************************************************************)
EXTENDS Naturals, Sequences

CONSTANTS
  Lower,  \* Lower[t]: the text t, which has capitals, in lower case
  Bad     \* an error

to_lowercase(t) == IF t \in DOMAIN Lower THEN Lower[t] ELSE t

At == [labels |-> <<"@">>, dot |-> FALSE]

\* An empty name is no name.
normalize_name(text) ==
  IF text.labels = <<>> THEN Bad ELSE [i \in DOMAIN text.labels |-> to_lowercase(text.labels[i])]

\* "@" is the zone; a name that ends with a dot is not completed.
resolve_record_name(zone, text) ==
  IF text.labels = <<>> THEN Bad
  ELSE IF text = At THEN zone
  ELSE IF text.dot THEN normalize_name(text)
  ELSE normalize_name(text) \o zone

RecordTypes ==
  {"A", "AAAA", "NS", "CNAME", "PTR", "MX", "TXT", "SOA", "SRV", "CAA", "TLSA", "NAPTR"}

\* A type it does not know, or data that do not fit the type, are an error.
parse_record(entry, name) ==
  IF entry.type \notin RecordTypes \/ ~entry.fits THEN Bad
  ELSE [name |-> name, type |-> entry.type,
        target |-> IF entry.type \in {"NS", "CNAME", "PTR"} THEN normalize_name(entry.target) ELSE <<>>]

Records(zone, doc) ==
  [i \in DOMAIN doc.records |->
     parse_record(doc.records[i], resolve_record_name(zone, doc.records[i].name))]

\* Where records of a type are at the apex.
AtApex(rs, zone, type) == {i \in DOMAIN rs : rs[i].name = zone /\ rs[i].type = type}

ensure_default_apex_ns(rs, zone) ==
  IF AtApex(rs, zone, "NS") # {} THEN rs
  ELSE Append(rs, [name |-> zone, type |-> "NS", target |-> <<"ns1">> \o zone])

build_default_soa_record(zone) == [name |-> zone, type |-> "SOA", target |-> <<>>]

(* One bad record fails the document.  A document without apex NS or SOA   *)
(* gets one of each.                                                       *)
load_snapshot(expected, doc) ==
  LET zone == normalize_name(doc.zone)
      read == Records(zone, doc)
      rs   == ensure_default_apex_ns(read, zone)
      soas == AtApex(read, zone, "SOA")
      soa  == IF soas # {} THEN read[CHOOSE i \in soas : \A j \in soas : i <= j] ELSE build_default_soa_record(zone)
  IN IF zone = Bad \/ zone # normalize_name(expected) THEN Bad
     ELSE IF \E i \in DOMAIN doc.records : Bad \in {read[i], resolve_record_name(zone, doc.records[i].name)} THEN Bad
     ELSE [zone |-> zone, soa |-> soa,
           records |-> IF soas # {} THEN rs ELSE Append(rs, soa)]

\* spawn_periodic_url_refresh: a load that fails keeps the last good snapshot.
Refreshed(snapshot, loaded) == IF loaded = Bad THEN snapshot ELSE loaded

(* The order and the number of equal records in an answer are left out:    *)
(* the sections are sets.                                                  *)
records_by_name(snapshot, name) == {snapshot.records[i] : i \in {i \in DOMAIN snapshot.records : snapshot.records[i].name = name}}

filter_answers(records, type) ==
  IF type = "ANY" THEN records ELSE {r \in records : r.type = type}

\* Addresses, in the zone, of the name servers that are in the answer.
collect_ns_glue_records(answers, snapshot) ==
  {r \in UNION {records_by_name(snapshot, a.target) : a \in {a \in answers : a.type = "NS"}} :
     r.type \in {"A", "AAAA"}}

domain_matches_zone(domain, zone) ==
  Len(zone) <= Len(domain) /\ SubSeq(domain, Len(domain) - Len(zone) + 1, Len(domain)) = zone

Response(rcode, answers, authority, additional) ==
  [rcode |-> rcode, answers |-> answers, authority |-> authority, additional |-> additional]

\* Mutant: a name that has records of other types does not exist.
resolve_NoData(snapshot, name, type) ==
  LET answers == filter_answers(records_by_name(snapshot, name), type)
  IN IF ~domain_matches_zone(name, snapshot.zone) THEN Response("Refused", {}, {}, {})
     ELSE IF answers = {} THEN Response("NXDomain", {}, {snapshot.soa}, {})
     ELSE Response("NoError", answers, {}, collect_ns_glue_records(answers, snapshot))

resolve(snapshot, name, type) ==
  LET records == records_by_name(snapshot, name)
      exact   == filter_answers(records, type)
      answers == IF exact = {} /\ type # "CNAME" THEN filter_answers(records, "CNAME") ELSE exact
  IN IF ~domain_matches_zone(name, snapshot.zone) THEN Response("Refused", {}, {}, {})
     ELSE IF records = {} THEN Response("NXDomain", {}, {snapshot.soa}, {})
     ELSE IF answers = {} THEN Response("NoError", {}, {snapshot.soa}, {})
     ELSE Response("NoError", answers, {}, collect_ns_glue_records(answers, snapshot))

(* What a query for a name in the zone gets is what the last document that *)
(* loaded says: the records it has for that name and type (or the alias in *)
(* their place), NXDOMAIN only for a name it does not have, and with every *)
(* negative answer the SOA of this zone.  The zone itself always has name  *)
(* servers and a SOA, written or not; additional records are addresses of  *)
(* the name servers in the answer.                                         *)
ZoneAnswersAsWritten(zone, doc, next, name, type) ==
  LET s == Refreshed(load_snapshot(zone, doc), load_snapshot(zone, next))
      last == IF load_snapshot(zone, next) = Bad THEN doc ELSE next
      Zone == s.zone
      Owner(e) == IF e.name = At THEN Zone
                  ELSE normalize_name(e.name) \o (IF e.name.dot THEN <<>> ELSE Zone)
      written == {last.records[i] : i \in {i \in DOMAIN last.records : Owner(last.records[i]) = name}}
      types == {e.type : e \in written} \cup (IF name = Zone THEN {"NS", "SOA"} ELSE {})
      r == resolve(s, name, type)
      given == {a.type : a \in r.answers}
  IN s # Bad /\ domain_matches_zone(name, Zone) =>
       /\ (r.rcode = "NXDomain") = (types = {})
       /\ type \in types => given = {type}
       /\ type = "ANY" => given = types
       /\ type \notin types /\ "CNAME" \in types /\ type # "ANY" => given = {"CNAME"}
       /\ type \notin types \cup {"ANY"} /\ "CNAME" \notin types => given = {}
       /\ \A a \in r.answers : a.name = name
       /\ given = {} => \E soa \in r.authority : r.authority = {soa} /\ soa.type = "SOA" /\ soa.name = Zone
       /\ r.additional # {} => "NS" \in given

-----------------------------------------------------------------------------
(* Discovery.  An index lists zones with a type and a document.            *)

VALID_ZONE_TYPES == {"forward", "reverse", "reverse-aggregate"}

\* The sequences of qs one after the other.
Joined(qs) ==
  LET upto[i \in 0 .. Len(qs)] == IF i = 0 THEN <<>> ELSE upto[i - 1] \o qs[i] IN upto[Len(qs)]

Allowed(source, z) == source.allowed_types # {} => to_lowercase(z.type) \in source.allowed_types

(* The zones of an index at the wanted positions, in its order; one that   *)
(* does not load fails the whole source.                                   *)
Discovered(source, wanted) ==
  LET zones == source.zones
  IN IF ~source.is_url \/ ~(source.allowed_types \subseteq VALID_ZONE_TYPES) \/ ~source.fetched THEN Bad
     ELSE IF \E i \in wanted : load_snapshot(zones[i].name, zones[i].doc) = Bad THEN Bad
     ELSE Joined([i \in DOMAIN zones |->
            IF i \in wanted THEN <<[zone |-> normalize_name(zones[i].name), from |-> "index"]>> ELSE <<>>])

\* Mutant: names are compared as they are written.
build_zone_discovery_entries_Verbatim(source, existing) ==
  Discovered(source, {k \in DOMAIN source.zones :
    Allowed(source, source.zones[k]) /\ \A i \in DOMAIN existing : existing[i] # source.zones[k].name})

\* The names of configured zones are passed over.
build_zone_discovery_entries(source, existing) ==
  Discovered(source, {k \in DOMAIN source.zones :
    /\ Allowed(source, source.zones[k])
    /\ \A i \in DOMAIN existing : normalize_name(existing[i]) # normalize_name(source.zones[k].name)})

(* build_zone_entries: the configured zones, then those of each source in  *)
(* turn; a source that fails is passed over.                               *)
build_zone_entries(manual, sources) ==
  LET found(s) == build_zone_discovery_entries(s, manual)
  IN [i \in DOMAIN manual |-> [zone |-> normalize_name(manual[i]), from |-> "config"]]
       \o Joined([i \in DOMAIN sources |-> IF found(sources[i]) = Bad THEN <<>> ELSE found(sources[i])])

(* A zone of the configuration is served from the configuration, however   *)
(* an index writes its name, and from there once: no discovered entry of   *)
(* build_zone_entries stands beside it.                                    *)
DiscoveryKeepsManualZones(manual, sources) ==
  LET entries == build_zone_entries(manual, sources)
  IN \A i \in DOMAIN manual :
       {j \in DOMAIN entries : entries[j].zone = normalize_name(manual[i])}
         = {j \in DOMAIN manual : normalize_name(manual[j]) = normalize_name(manual[i])}
=============================================================================
