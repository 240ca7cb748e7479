------------------------- MODULE ManagementProofs -------------------------
(***************************************************************************)
(* For any requests that callers can make, over HTTP and through the MCP   *)
(* tools in any order: the database holds only rows that a single call     *)
(* would accept, a refused call has changed nothing, an update changes     *)
(* only what it was given, and the two faces do the same.                  *)
(*                                                                         *)
(* The argument goes through the operation that both faces call: Core is   *)
(* what ServerOperations does for a request, and each face is Core with an *)
(* answer around it.  Last, the lengths of time that calls and the seeding *)
(* store as numbers are read back as what was written.                     *)
(***************************************************************************)
EXTENDS Management, TLAPS

All == Tables \cup {"repos"}

ListRow(x) ==
  {"url", "list_type"} \subseteq DOMAIN x /\ validate_url(x.url) /\ validate_list_type(x.list_type)

ServerRow(s) ==
  /\ {"protocol", "address", "bind_address", "fwmark", "sort_order"} \subseteq DOMAIN s
  /\ validate_upstream_protocol(s.protocol) /\ validate_upstream_address(s.protocol, s.address)
  /\ validate_bind_address(s.bind_address) /\ parse_fwmark(s.fwmark) /\ validate_sort_order(s.sort_order)

SourceRow(s) == "address" \in DOMAIN s /\ validate_url(s.address)

SettingsRow(s) ==
  /\ {"dns_cache_min_ttl", "dns_cache_max_ttl"} \subseteq DOMAIN s
  /\ validate_resolver_cache_bounds(s.dns_cache_min_ttl, s.dns_cache_max_ttl)

\* The database is a function from its tables; their rows have their fields and are valid.
IsDb(d) == d = [t \in All |-> d[t]]

Valid(d) ==
  /\ IsDb(d)
  /\ \A n \in DOMAIN d.lists : ListRow(d.lists[n])
  /\ \A i \in DOMAIN d.servers : ServerRow(d.servers[i])
  /\ \A i \in DOMAIN d.sources : SourceRow(d.sources[i])
  /\ SettingsRow(d.settings)

\* Nothing but zones has changed.
OnlyZones(d, e) == e = [d EXCEPT !.zones = e.zones]

-----------------------------------------------------------------------------
(* Rows that are written.                                                  *)

\* One table changes, and no other.
LEMMA PutIs ==
  ASSUME NEW d, IsDb(d), NEW table \in All, NEW key, NEW row
  PROVE  LET e == Put(d, table, key, row)
         IN /\ IsDb(e) /\ \A t \in All : t # table => e[t] = d[t]
            /\ DOMAIN e[table] = {key} \cup DOMAIN d[table]
            /\ e[table][key] = row
            /\ \A k \in DOMAIN d[table] : k # key => e[table][k] = d[table][k]
<1> DEFINE new == [k \in {key} |-> row]
           to  == new ++ d[table]
           e   == Put(d, table, key, row)
<1>1. DOMAIN new = {key} /\ new[key] = row
  OBVIOUS
<1> HIDE DEF new
<1>2. /\ DOMAIN to = {key} \cup DOMAIN d[table] /\ to[key] = row
      /\ \A k \in DOMAIN d[table] : k # key => to[k] = d[table][k]
  BY <1>1 DEF ++
<1>3. e = [d EXCEPT ![table] = to]
  BY DEF Put, new
<1> HIDE DEF e, to
<1>4. IsDb(e) /\ e[table] = to /\ \A t \in All : t # table => e[t] = d[t]
  BY <1>3 DEF IsDb
<1> QED  BY <1>2, <1>4 DEF e

LEMMA PutList ==
  ASSUME NEW d, Valid(d), NEW key, NEW row, ListRow(row)
  PROVE  Valid(Put(d, "lists", key, row))
<1> DEFINE e == Put(d, "lists", key, row)
<1>1. /\ IsDb(e) /\ e.servers = d.servers /\ e.sources = d.sources /\ e.settings = d.settings
      /\ DOMAIN e.lists = {key} \cup DOMAIN d.lists /\ e.lists[key] = row
      /\ \A k \in DOMAIN d.lists : k # key => e.lists[k] = d.lists[k]
  BY PutIs DEF Valid, All, Tables
<1> HIDE DEF e
<1>2. Valid(e)
  BY <1>1, Zenon DEF Valid
<1> QED  BY <1>2 DEF e

LEMMA PutServer ==
  ASSUME NEW d, Valid(d), NEW key, NEW row, ServerRow(row)
  PROVE  Valid(Put(d, "servers", key, row))
<1> DEFINE e == Put(d, "servers", key, row)
<1>1. /\ IsDb(e) /\ e.lists = d.lists /\ e.sources = d.sources /\ e.settings = d.settings
      /\ DOMAIN e.servers = {key} \cup DOMAIN d.servers /\ e.servers[key] = row
      /\ \A k \in DOMAIN d.servers : k # key => e.servers[k] = d.servers[k]
  BY PutIs DEF Valid, All, Tables
<1> HIDE DEF e
<1>2. Valid(e)
  BY <1>1, Zenon DEF Valid
<1> QED  BY <1>2 DEF e

LEMMA PutSource ==
  ASSUME NEW d, Valid(d), NEW key, NEW row, SourceRow(row)
  PROVE  Valid(Put(d, "sources", key, row))
<1> DEFINE e == Put(d, "sources", key, row)
<1>1. /\ IsDb(e) /\ e.lists = d.lists /\ e.servers = d.servers /\ e.settings = d.settings
      /\ DOMAIN e.sources = {key} \cup DOMAIN d.sources /\ e.sources[key] = row
      /\ \A k \in DOMAIN d.sources : k # key => e.sources[k] = d.sources[k]
  BY PutIs DEF Valid, All, Tables
<1> HIDE DEF e
<1>2. Valid(e)
  BY <1>1, Zenon DEF Valid
<1> QED  BY <1>2 DEF e

LEMMA PutZone ==
  ASSUME NEW d, Valid(d), NEW key, NEW row
  PROVE  /\ Valid(Put(d, "zones", key, row))
         /\ OnlyZones(d, Put(d, "zones", key, row))
<1> DEFINE e == Put(d, "zones", key, row)
<1>1. IsDb(e) /\ \A t \in All : t # "zones" => e[t] = d[t]
  BY PutIs DEF Valid, All, Tables
<1> HIDE DEF e
<1>2. Valid(e)
  BY <1>1, Zenon DEF Valid, All, Tables
<1>3. OnlyZones(d, e)
  BY <1>1, Zenon DEF OnlyZones, Valid, IsDb
<1> QED  BY <1>2, <1>3 DEF e

-----------------------------------------------------------------------------
(* What every operation does: it says how it ended, it leaves a valid      *)
(* database, and if it failed it has changed nothing but a zone.           *)

Sound(d, res) ==
  /\ res.status \in {"ok", "NotFound", "Unavailable", "InvalidInput"}
  /\ Valid(res.db)
  /\ res.status # "ok" => OnlyZones(d, res.db)

LEMMA RefusedSound ==
  ASSUME NEW d, Valid(d), NEW status \in {"NotFound", "Unavailable", "InvalidInput"}
  PROVE  Sound(d, Refused(status, d))
<1>1. OnlyZones(d, d)
  BY Zenon DEF OnlyZones, Valid, IsDb, All, Tables
<1>2. Refused(status, d).db = d /\ Refused(status, d).status = status
  BY DEF Refused
<1> QED  BY <1>1, <1>2 DEF Sound

LEMMA ShownSound ==
  ASSUME NEW d, NEW e, Valid(e), NEW body
  PROVE  Sound(d, Show(e, body)) /\ Sound(d, Done(e))
<1>1. /\ Show(e, body).db = e /\ Show(e, body).status = "ok"
      /\ Done(e).db = e /\ Done(e).status = "ok"
  BY DEF Show, Done
<1> QED  BY <1>1 DEF Sound

LEMMA StoredInterval ==
  ASSUME NEW input
  PROVE  LET in == Stored(input, "interval", parse_interval_secs)
         IN /\ DOMAIN in = DOMAIN input
            /\ \A f \in DOMAIN input : f # "interval" => in[f] = input[f]
  BY DEF Stored, Given

LEMMA AddList ==
  ASSUME NEW d, Valid(d), NEW kind, NEW input, {"name", "url"} \subseteq DOMAIN input
  PROVE  Sound(d, add_filter_list(d, kind, input))
<1> DEFINE in  == Stored(input, "interval", parse_interval_secs)
           own == Without(in, "name")
           new == [kind |-> kind, interval |-> DEFAULT_INTERVAL, enabled |-> TRUE, list_type |-> "adguard"]
           row == own ++ new
           res == add_filter_list(d, kind, input)
<1>1. "url" \in DOMAIN own
  <2>1. DOMAIN in = DOMAIN input
    BY StoredInterval
  <2> HIDE DEF in
  <2> QED  BY <2>1 DEF Without
<1>2. "list_type" \in DOMAIN new
  OBVIOUS
<1>3. res = IF ~(validate_list_name(input.name) /\ validate_url(row.url) /\ validate_list_type(row.list_type))
            THEN Refused("InvalidInput", d)
            ELSE IF ~d.repos THEN Refused("Unavailable", d)
            ELSE IF input.name \in DOMAIN d.lists THEN Refused("InvalidInput", d)
            ELSE Done(Put(d, "lists", input.name, row))
  BY DEF add_filter_list
<1> HIDE DEF own, new, in, res
<1>4. {"url", "list_type"} \subseteq DOMAIN row
  BY <1>1, <1>2 DEF ++
<1> HIDE DEF row
<1>5. CASE validate_url(row.url) /\ validate_list_type(row.list_type)
  <2>1. ListRow(row)
    BY <1>4, <1>5 DEF ListRow
  <2>2. Valid(Put(d, "lists", input.name, row))
    BY <2>1, PutList
  <2>3. Sound(d, res)
    BY <1>3, <2>2, RefusedSound, ShownSound, Zenon
  <2> QED  BY <2>3 DEF res
<1>6. CASE ~(validate_url(row.url) /\ validate_list_type(row.list_type))
  BY <1>3, <1>6, RefusedSound, Zenon DEF res
<1> QED  BY <1>5, <1>6

LEMMA UpdateList ==
  ASSUME NEW d, Valid(d), NEW name, NEW input
  PROVE  Sound(d, update_filter_list(d, name, input))
<1> DEFINE in  == Stored(input, "interval", parse_interval_secs)
           row == in ++ d.lists[name]
           res == update_filter_list(d, name, input)
           bad == \/ Given(input, "url") /\ ~validate_url(input.url)
                  \/ Given(input, "list_type") /\ ~validate_list_type(input.list_type)
<1>1. /\ DOMAIN in = DOMAIN input
      /\ \A f \in DOMAIN input : f # "interval" => in[f] = input[f]
  BY StoredInterval
<1>2. res = IF ~d.repos THEN Refused("Unavailable", d)
            ELSE IF name \notin DOMAIN d.lists THEN Refused("NotFound", d)
            ELSE IF bad THEN Refused("InvalidInput", d)
            ELSE Done(Put(d, "lists", name, row))
  BY DEF update_filter_list
<1> HIDE DEF in, res
<1>3. ASSUME name \in DOMAIN d.lists, ~bad
      PROVE  ListRow(row)
  <2>1. ListRow(d.lists[name])
    BY <1>3, Zenon DEF Valid
  <2>2. {"url", "list_type"} \subseteq DOMAIN row
    BY <2>1, Zenon DEF ListRow, ++
  <2>3. validate_url(row.url)
    <3>1. CASE "url" \in DOMAIN input
      BY <1>1, <1>3, <3>1 DEF Given, ++
    <3>2. CASE "url" \notin DOMAIN input
      BY <1>1, <2>1, <3>2, Zenon DEF ListRow, ++
    <3> QED  BY <3>1, <3>2, Zenon
  <2>4. validate_list_type(row.list_type)
    <3>1. CASE "list_type" \in DOMAIN input
      BY <1>1, <1>3, <3>1 DEF Given, ++
    <3>2. CASE "list_type" \notin DOMAIN input
      BY <1>1, <2>1, <3>2, Zenon DEF ListRow, ++
    <3> QED  BY <3>1, <3>2, Zenon
  <2> QED  BY <2>2, <2>3, <2>4, Zenon DEF ListRow
<1> HIDE DEF row, bad
<1>4. CASE name \in DOMAIN d.lists /\ ~bad
  <2>1. Valid(Put(d, "lists", name, row))
    BY <1>3, <1>4, PutList
  <2> QED  BY <1>2, <2>1, RefusedSound, ShownSound DEF res
<1>5. CASE ~(name \in DOMAIN d.lists /\ ~bad)
  BY <1>2, <1>5, RefusedSound DEF res
<1> QED  BY <1>4, <1>5

LEMMA DeleteAny ==
  ASSUME NEW d, Valid(d), NEW table \in {"lists", "servers", "zones", "sources"}, NEW key
  PROVE  Sound(d, DeleteRow(d, table, key))
<1> DEFINE less == Without(d[table], key)
           e    == [d EXCEPT ![table] = less]
<1>1. DOMAIN less \subseteq DOMAIN d[table] /\ \A k \in DOMAIN less : less[k] = d[table][k]
  BY Zenon DEF Without
<1>2. DeleteRow(d, table, key) \in {Refused("Unavailable", d), Refused("NotFound", d), Done(e)}
  BY DEF DeleteRow
<1> HIDE DEF less
<1>3. IsDb(e) /\ e[table] = less /\ \A t \in All : t # table => e[t] = d[t]
  BY Zenon DEF Valid, IsDb, All, Tables
<1> HIDE DEF e
<1>4. Valid(e)
  BY <1>1, <1>3, Zenon DEF Valid, All, Tables
<1> QED  BY <1>2, <1>4, RefusedSound, ShownSound

LEMMA UpdateSettings ==
  ASSUME NEW d, Valid(d), NEW input
  PROVE  Sound(d, update_resolver_config(d, input))
<1> DEFINE in  == Stored(Stored(input, "dns_cache_min_ttl", parse_cache_ttl_secs),
                         "dns_cache_max_ttl", parse_cache_ttl_secs)
           row == in ++ d.settings
           res == update_resolver_config(d, input)
           e   == [d EXCEPT !.settings = row]
<1>1. /\ res \in {Refused("Unavailable", d), Refused("InvalidInput", d), Done(e)}
      /\ \/ res \in {Refused("Unavailable", d), Refused("InvalidInput", d)}
         \/ validate_resolver_cache_bounds(row.dns_cache_min_ttl, row.dns_cache_max_ttl)
  BY Zenon DEF update_resolver_config
<1> HIDE DEF in, res
<1>2. {"dns_cache_min_ttl", "dns_cache_max_ttl"} \subseteq DOMAIN row
  BY Zenon DEF Valid, SettingsRow, ++
<1> HIDE DEF row
<1>3. IsDb(e) /\ e.settings = row /\ \A t \in All : t # "settings" => e[t] = d[t]
  BY Zenon DEF Valid, IsDb, All, Tables
<1> HIDE DEF e
<1>4. CASE validate_resolver_cache_bounds(row.dns_cache_min_ttl, row.dns_cache_max_ttl)
  <2>1. Valid(e)
    BY <1>2, <1>3, <1>4, Zenon DEF Valid, SettingsRow, All, Tables
  <2> QED  BY <1>1, <2>1, RefusedSound, ShownSound DEF res
<1>5. CASE ~validate_resolver_cache_bounds(row.dns_cache_min_ttl, row.dns_cache_max_ttl)
  BY <1>1, <1>5, RefusedSound DEF res
<1> QED  BY <1>4, <1>5

LEMMA AddServer ==
  ASSUME NEW d, Valid(d), NEW id, NEW input, {"protocol", "address"} \subseteq DOMAIN input
  PROVE  Sound(d, add_upstream_server(d, id, input))
<1> DEFINE none == [f \in {"max_hops", "nameserver_ip_family", "root_hints_path", "root_key_path",
                           "bind_address", "fwmark"} |-> None]
           new  == [enabled |-> TRUE, dnssec |-> TRUE, authentication |-> NoAuth,
                    sort_order |-> Cardinality(DOMAIN d.servers)]
           row  == input ++ none ++ new
           res  == add_upstream_server(d, id, input)
           fits == /\ validate_upstream_protocol(row.protocol)
                   /\ validate_upstream_address(row.protocol, row.address)
                   /\ validate_bind_address(row.bind_address) /\ parse_fwmark(row.fwmark)
<1>1. {"bind_address", "fwmark"} \subseteq DOMAIN none /\ "sort_order" \in DOMAIN new
  OBVIOUS
<1>2. res = IF ~fits THEN Refused("InvalidInput", d)
            ELSE IF ~d.repos THEN Refused("Unavailable", d)
            ELSE IF ~validate_sort_order(row.sort_order) THEN Refused("InvalidInput", d)
            ELSE Done(Put(d, "servers", id, row))
  BY Zenon DEF add_upstream_server
<1> HIDE DEF none, new, res
<1>3. {"protocol", "address", "bind_address", "fwmark", "sort_order"} \subseteq DOMAIN row
  BY <1>1 DEF ++
<1> HIDE DEF row
<1>4. CASE fits /\ validate_sort_order(row.sort_order)
  <2>1. ServerRow(row)
    BY <1>3, <1>4 DEF ServerRow
  <2>2. Valid(Put(d, "servers", id, row))
    BY <2>1, PutServer
  <2> QED  BY <1>2, <2>2, RefusedSound, ShownSound, Zenon DEF res
<1>5. CASE ~(fits /\ validate_sort_order(row.sort_order))
  <2> HIDE DEF fits
  <2> QED  BY <1>2, <1>5, RefusedSound DEF res
<1> QED  BY <1>4, <1>5, Zenon

(* A field that is not given keeps its valid value; the address is looked  *)
(* at with the protocol that there will be.                                *)
LEMMA UpdateServer ==
  ASSUME NEW d, Valid(d), NEW id, NEW input
  PROVE  Sound(d, update_upstream_server(d, id, input))
<1> DEFINE row  == input ++ d.servers[id]
           res  == update_upstream_server(d, id, input)
           fits == /\ Given(input, "protocol") => validate_upstream_protocol(input.protocol)
                   /\ validate_upstream_address(row.protocol, row.address)
                   /\ Given(input, "bind_address") => validate_bind_address(input.bind_address)
                   /\ Given(input, "fwmark") => parse_fwmark(input.fwmark)
                   /\ Given(input, "sort_order") => validate_sort_order(input.sort_order)
<1>1. res = IF ~d.repos THEN Refused("Unavailable", d)
            ELSE IF id \notin DOMAIN d.servers THEN Refused("NotFound", d)
            ELSE IF fits THEN Done(Put(d, "servers", id, row))
            ELSE Refused("InvalidInput", d)
  BY DEF update_upstream_server
<1> HIDE DEF res
<1>2. ASSUME id \in DOMAIN d.servers, fits
      PROVE  ServerRow(row)
  <2> DEFINE old == d.servers[id]
  <2>1. ServerRow(old)
    BY <1>2, Zenon DEF Valid
  <2> HIDE DEF old
  <2>2. {"protocol", "address", "bind_address", "fwmark", "sort_order"} \subseteq DOMAIN row
    BY <2>1, Zenon DEF ServerRow, old, ++
  <2>3. \A f \in {"protocol", "bind_address", "fwmark", "sort_order"} :
          row[f] = IF Given(input, f) THEN input[f] ELSE old[f]
    BY <2>1, Zenon DEF ServerRow, Given, old, ++
  <2> HIDE DEF row
  <2>4. validate_upstream_protocol(row.protocol)
    BY <1>2, <2>1, <2>3, Zenon DEF ServerRow
  <2>5. validate_bind_address(row.bind_address)
    BY <1>2, <2>1, <2>3, Zenon DEF ServerRow
  <2>6. parse_fwmark(row.fwmark)
    BY <1>2, <2>1, <2>3, Zenon DEF ServerRow
  <2>7. validate_sort_order(row.sort_order)
    BY <1>2, <2>1, <2>3, Zenon DEF ServerRow
  <2> QED  BY <1>2, <2>2, <2>4, <2>5, <2>6, <2>7 DEF ServerRow
<1> HIDE DEF row, fits
<1>3. CASE id \in DOMAIN d.servers /\ fits
  <2>1. Valid(Put(d, "servers", id, row))
    BY <1>2, <1>3, PutServer
  <2> QED  BY <1>1, <2>1, RefusedSound, ShownSound DEF res
<1>4. CASE ~(id \in DOMAIN d.servers /\ fits)
  BY <1>1, <1>4, RefusedSound DEF res
<1> QED  BY <1>3, <1>4

LEMMA WrittenZone ==
  ASSUME NEW d, Valid(d), NEW zone, NEW row, NEW servers
  PROVE  Sound(d, WriteZone(d, zone, row, servers))
<1> DEFINE to == Put(d, "zones", zone, [row EXCEPT !.servers = ZoneServers(servers)])
<1>1. WriteZone(d, zone, row, servers) \in {Done(to), Refused("InvalidInput", to)}
  BY DEF WriteZone
<1>2. Valid(to) /\ OnlyZones(d, to)
  BY PutZone
<1> HIDE DEF to
<1>3. Sound(d, Refused("InvalidInput", to))
  BY <1>2 DEF Sound, Refused
<1> QED  BY <1>1, <1>2, <1>3, ShownSound

LEMMA AddZone ==
  ASSUME NEW d, Valid(d), NEW input
  PROVE  Sound(d, add_zone(d, input))
<1>1. \/ add_zone(d, input) \in {Refused("Unavailable", d), Refused("InvalidInput", d)}
      \/ \E row, servers : add_zone(d, input) = WriteZone(d, input.zone, row, servers)
  BY Zenon DEF add_zone
<1> QED  BY <1>1, RefusedSound, WrittenZone

LEMMA UpdateZone ==
  ASSUME NEW d, Valid(d), NEW zone, NEW input
  PROVE  Sound(d, update_zone(d, zone, input))
<1>1. \/ update_zone(d, zone, input) \in {Refused("Unavailable", d), Refused("NotFound", d)}
      \/ \E row, servers : update_zone(d, zone, input) = WriteZone(d, zone, row, servers)
      \/ \E row : update_zone(d, zone, input) = Done(Put(d, "zones", zone, row))
  BY Zenon DEF update_zone
<1> QED  BY <1>1, RefusedSound, WrittenZone, ShownSound, PutZone

LEMMA AddSource ==
  ASSUME NEW d, Valid(d), NEW id, NEW input, "address" \in DOMAIN input
  PROVE  Sound(d, add_zone_discovery(d, id, input))
<1> DEFINE new == [enabled |-> TRUE, check_interval |-> None, allowed_types |-> <<"forward", "reverse">>,
                   bypass_filter |-> FALSE, fallback_to_default_resolvers |-> FALSE,
                   authentication |-> NoAuth]
           row == input ++ new
           res == add_zone_discovery(d, id, input)
<1>1. /\ res \in {Refused("InvalidInput", d), Refused("Unavailable", d), Done(Put(d, "sources", id, row))}
      /\ validate_url(row.address) \/ res = Refused("InvalidInput", d)
  BY Zenon DEF add_zone_discovery
<1> HIDE DEF new, res
<1>2. "address" \in DOMAIN row
  BY DEF ++
<1> HIDE DEF row
<1>3. CASE validate_url(row.address)
  <2>1. Valid(Put(d, "sources", id, row))
    BY <1>2, <1>3, PutSource DEF SourceRow
  <2> QED  BY <1>1, <2>1, RefusedSound, ShownSound DEF res
<1>4. CASE ~validate_url(row.address)
  BY <1>1, <1>4, RefusedSound DEF res
<1> QED  BY <1>3, <1>4

LEMMA UpdateSource ==
  ASSUME NEW d, Valid(d), NEW id, NEW input
  PROVE  Sound(d, update_zone_discovery(d, id, input))
<1> DEFINE row == input ++ d.sources[id]
           res == update_zone_discovery(d, id, input)
<1>1. \/ res \in {Refused("InvalidInput", d), Refused("Unavailable", d), Refused("NotFound", d)}
      \/ /\ res = Done(Put(d, "sources", id, row)) /\ id \in DOMAIN d.sources
         /\ Given(input, "address") => validate_url(input.address)
  BY Zenon DEF update_zone_discovery
<1> HIDE DEF res
<1>2. CASE /\ res = Done(Put(d, "sources", id, row)) /\ id \in DOMAIN d.sources
           /\ Given(input, "address") => validate_url(input.address)
  <2>1. SourceRow(d.sources[id])
    BY <1>2, Zenon DEF Valid
  <2>2. SourceRow(row)
    <3>1. CASE "address" \in DOMAIN input
      BY <1>2, <3>1, Zenon DEF SourceRow, Given, ++
    <3>2. CASE "address" \notin DOMAIN input
      BY <2>1, <3>2, Zenon DEF SourceRow, ++
    <3> QED  BY <3>1, <3>2
  <2> HIDE DEF row
  <2>3. Valid(Put(d, "sources", id, row))
    BY <2>2, PutSource
  <2> QED  BY <1>2, <2>3, ShownSound DEF res
<1> QED  BY <1>1, <1>2, RefusedSound, Zenon DEF res

\* The engine's flags are no rows.
LEMMA EngineChanges ==
  ASSUME NEW d, Valid(d), NEW engine
  PROVE  Valid([d EXCEPT !.engine = engine])
<1> DEFINE e == [d EXCEPT !.engine = engine]
<1>1. IsDb(e) /\ \A t \in All : t # "engine" => e[t] = d[t]
  BY Zenon DEF Valid, IsDb, All, Tables
<1> HIDE DEF e
<1>2. Valid(e)
  BY <1>1, Zenon DEF Valid, All, Tables
<1> QED  BY <1>2 DEF e

LEMMA EngineCalls ==
  ASSUME NEW d, Valid(d), NEW name
  PROVE  /\ Sound(d, set_filtering(d, TRUE)) /\ Sound(d, set_filtering(d, FALSE))
         /\ Sound(d, filter_status(d)) /\ Sound(d, list_filters(d)) /\ Sound(d, refresh_all_lists(d))
         /\ Sound(d, refresh_list(d, name)) /\ Sound(d, enable_list(d, name))
         /\ Sound(d, disable_list(d, name))
         /\ Sound(d, get_stats(d)) /\ Sound(d, get_query_log(d))
<1>1. Sound(d, filter_status(d)) /\ Sound(d, list_filters(d)) /\ Sound(d, get_stats(d))
  BY ShownSound, Zenon DEF filter_status, list_filters, get_stats
<1>2. Sound(d, get_query_log(d))
  BY ShownSound, RefusedSound DEF get_query_log
<1>3. ASSUME NEW on PROVE Sound(d, set_filtering(d, on))
  BY ShownSound, EngineChanges, Zenon DEF set_filtering
<1>4. Sound(d, refresh_all_lists(d))
  BY ShownSound, EngineChanges, Zenon DEF refresh_all_lists
<1>5. Sound(d, refresh_list(d, name))
  BY ShownSound, RefusedSound, EngineChanges, Zenon DEF refresh_list
<1>6. Sound(d, enable_list(d, name)) /\ Sound(d, disable_list(d, name))
  BY ShownSound, RefusedSound, EngineChanges, Zenon DEF enable_list, disable_list
<1> QED  BY <1>1, <1>2, <1>3, <1>4, <1>5, <1>6, Zenon

LEMMA Reads ==
  ASSUME NEW d, Valid(d), NEW kind, NEW table
  PROVE  Sound(d, list_filter_lists(d, kind)) /\ Sound(d, ReadTable(d, table))
  BY ShownSound, RefusedSound, Zenon DEF list_filter_lists, ReadTable

-----------------------------------------------------------------------------
(* The operation behind a request.                                         *)

CoreLists(d, kind, op, key, input) ==
  IF op = "add" THEN add_filter_list(d, kind, input)
  ELSE IF op = "update" THEN update_filter_list(d, key, input)
  ELSE IF op = "delete" THEN DeleteRow(d, "lists", key)
  ELSE list_filter_lists(d, kind)

CoreSettings(d, op, input) ==
  IF op = "update" THEN update_resolver_config(d, input) ELSE ReadTable(d, "settings")

CoreServers(d, op, key, input) ==
  IF op = "add" THEN add_upstream_server(d, key, input)
  ELSE IF op = "update" THEN update_upstream_server(d, key, input)
  ELSE IF op = "delete" THEN DeleteRow(d, "servers", key)
  ELSE ReadTable(d, "servers")

CoreZones(d, op, key, input) ==
  IF op = "add" THEN add_zone(d, input)
  ELSE IF op = "update" THEN update_zone(d, key, input)
  ELSE IF op = "delete" THEN DeleteRow(d, "zones", key)
  ELSE ReadTable(d, "zones")

CoreSources(d, op, key, input) ==
  IF op = "add" THEN add_zone_discovery(d, key, input)
  ELSE IF op = "update" THEN update_zone_discovery(d, key, input)
  ELSE IF op = "delete" THEN DeleteRow(d, "sources", key)
  ELSE ReadTable(d, "sources")

CoreEngine(d, op, key) ==
  IF op = "list" THEN list_filters(d)
  ELSE IF op = "refresh_all" THEN refresh_all_lists(d)
  ELSE IF op = "refresh" THEN refresh_list(d, key)
  ELSE IF op = "disable" THEN disable_list(d, key)
  ELSE enable_list(d, key)

CoreFiltering(d, op) ==
  IF op = "status" THEN filter_status(d) ELSE set_filtering(d, op = "enable")

Core(d, table, op, key, input) ==
  IF table = "blocklists" THEN CoreLists(d, "block", op, key, input)
  ELSE IF table = "allowlists" THEN CoreLists(d, "allow", op, key, input)
  ELSE IF table = "settings" THEN CoreSettings(d, op, input)
  ELSE IF table = "servers" THEN CoreServers(d, op, key, input)
  ELSE IF table = "zones" THEN CoreZones(d, op, key, input)
  ELSE IF table = "sources" THEN CoreSources(d, op, key, input)
  ELSE IF table = "filtering" THEN CoreFiltering(d, op)
  ELSE IF table = "filters" THEN CoreEngine(d, op, key)
  ELSE IF op = "stats" THEN get_stats(d) ELSE get_query_log(d)

Names == {"blocklists", "allowlists", "settings", "servers", "zones", "sources", "filtering",
          "filters", "system"}

LEMMA RoutesAre ==
  /\ DOMAIN Routes = Names
  /\ \A t \in {"blocklists", "allowlists", "servers", "zones", "sources"} : Routes[t] = Edits
  /\ Routes["settings"] = {"update", "list"}
  /\ Routes["filtering"] = {"enable", "disable", "status"}
  /\ Routes["filters"] = {"list", "refresh", "refresh_all", "enable", "disable"}
  /\ Routes["system"] = {"stats", "log"}
  BY DEF Routes, Names

\* What the operation must be given.
Complete(table, op, input) == op = "add" => Required(table) \subseteq DOMAIN input

\* Each of them is sound, whatever is asked.
LEMMA CoreSound ==
  ASSUME NEW d, Valid(d), NEW table \in Names, NEW op, NEW key, NEW input, Complete(table, op, input)
  PROVE  Sound(d, Core(d, table, op, key, input))
<1>2. CASE table \in {"blocklists", "allowlists"}
  <2>1. op = "add" => {"name", "url"} \subseteq DOMAIN input
    BY <1>2 DEF Complete, Required
  <2>2. ASSUME NEW kind PROVE Sound(d, CoreLists(d, kind, op, key, input))
    BY <2>1, AddList, UpdateList, DeleteAny, Reads DEF CoreLists
  <2> QED  BY <1>2, <2>2 DEF Core
<1>3. CASE table = "settings"
  BY <1>3, UpdateSettings, Reads DEF Core, CoreSettings
<1>4. CASE table = "servers"
  <2>1. op = "add" => {"protocol", "address"} \subseteq DOMAIN input
    BY <1>4 DEF Complete, Required
  <2> QED  BY <1>4, <2>1, AddServer, UpdateServer, DeleteAny, Reads DEF Core, CoreServers
<1>5. CASE table = "zones"
  BY <1>5, AddZone, UpdateZone, DeleteAny, Reads DEF Core, CoreZones
<1>6. CASE table = "sources"
  <2>1. op = "add" => "address" \in DOMAIN input
    BY <1>6 DEF Complete, Required
  <2> QED  BY <1>6, <2>1, AddSource, UpdateSource, DeleteAny, Reads DEF Core, CoreSources
<1>7. CASE table = "filtering"
  <2>1. (op = "enable") \in {TRUE, FALSE}
    BY Zenon
  <2> QED  BY <1>7, <2>1, EngineCalls, Zenon DEF Core, CoreFiltering
<1>8. CASE table = "filters"
  BY <1>8, EngineCalls, Zenon DEF Core, CoreEngine
<1>9. CASE table = "system"
  BY <1>9, EngineCalls, Zenon DEF Core
<1> QED  BY <1>2, <1>3, <1>4, <1>5, <1>6, <1>7, <1>8, <1>9 DEF Names

-----------------------------------------------------------------------------
(* The HTTP API answers with the result of that operation.                 *)

LEMMA EditCases == \A op \in Edits : op = "add" \/ op = "update" \/ op = "delete" \/ op = "list"
  BY DEF Edits

LEMMA HttpEdits ==
  ASSUME NEW d, NEW r, r.op \in Edits
  PROVE  \E ok \in {200, 201} :
           /\ handle_blocklists(d, r) = Response(CoreLists(d, "block", r.op, r.key, r.input), ok)
           /\ handle_allowlists(d, r) = Response(CoreLists(d, "allow", r.op, r.key, r.input), ok)
           /\ handle_upstreams(d, r) = Response(CoreServers(d, r.op, r.key, r.input), ok)
           /\ handle_zones(d, r) = Response(CoreZones(d, r.op, r.key, r.input), ok)
           /\ handle_zone_discovery(d, r) = Response(CoreSources(d, r.op, r.key, r.input), ok)
<1> DEFINE ok == IF r.op = "add" THEN 201 ELSE 200
<1>1. handle_blocklists(d, r) = Response(CoreLists(d, "block", r.op, r.key, r.input), ok)
  <2>1. CASE r.op = "add"
    BY <2>1, Zenon DEF handle_blocklists, CoreLists
  <2>2. CASE r.op = "update"
    BY <2>2, Zenon DEF handle_blocklists, CoreLists
  <2>3. CASE r.op = "delete"
    BY <2>3, Zenon DEF handle_blocklists, CoreLists
  <2>4. CASE r.op = "list"
    BY <2>4, Zenon DEF handle_blocklists, CoreLists
  <2> QED  BY <2>1, <2>2, <2>3, <2>4, EditCases, Zenon
<1>2. handle_allowlists(d, r) = Response(CoreLists(d, "allow", r.op, r.key, r.input), ok)
  <2>1. CASE r.op = "add"
    BY <2>1, Zenon DEF handle_allowlists, CoreLists
  <2>2. CASE r.op = "update"
    BY <2>2, Zenon DEF handle_allowlists, CoreLists
  <2>3. CASE r.op = "delete"
    BY <2>3, Zenon DEF handle_allowlists, CoreLists
  <2>4. CASE r.op = "list"
    BY <2>4, Zenon DEF handle_allowlists, CoreLists
  <2> QED  BY <2>1, <2>2, <2>3, <2>4, EditCases, Zenon
<1>3. handle_upstreams(d, r) = Response(CoreServers(d, r.op, r.key, r.input), ok)
  <2>1. CASE r.op = "add"
    BY <2>1, Zenon DEF handle_upstreams, CoreServers
  <2>2. CASE r.op = "update"
    BY <2>2, Zenon DEF handle_upstreams, CoreServers
  <2>3. CASE r.op = "delete"
    BY <2>3, Zenon DEF handle_upstreams, CoreServers
  <2>4. CASE r.op = "list"
    BY <2>4, Zenon DEF handle_upstreams, CoreServers
  <2> QED  BY <2>1, <2>2, <2>3, <2>4, EditCases, Zenon
<1>4. handle_zones(d, r) = Response(CoreZones(d, r.op, r.key, r.input), ok)
  <2>1. CASE r.op = "add"
    BY <2>1, Zenon DEF handle_zones, CoreZones
  <2>2. CASE r.op = "update"
    BY <2>2, Zenon DEF handle_zones, CoreZones
  <2>3. CASE r.op = "delete"
    BY <2>3, Zenon DEF handle_zones, CoreZones
  <2>4. CASE r.op = "list"
    BY <2>4, Zenon DEF handle_zones, CoreZones
  <2> QED  BY <2>1, <2>2, <2>3, <2>4, EditCases, Zenon
<1>5. handle_zone_discovery(d, r) = Response(CoreSources(d, r.op, r.key, r.input), ok)
  <2>1. CASE r.op = "add"
    BY <2>1, Zenon DEF handle_zone_discovery, CoreSources
  <2>2. CASE r.op = "update"
    BY <2>2, Zenon DEF handle_zone_discovery, CoreSources
  <2>3. CASE r.op = "delete"
    BY <2>3, Zenon DEF handle_zone_discovery, CoreSources
  <2>4. CASE r.op = "list"
    BY <2>4, Zenon DEF handle_zone_discovery, CoreSources
  <2> QED  BY <2>1, <2>2, <2>3, <2>4, EditCases, Zenon
<1>6. ok \in {200, 201}
  OBVIOUS
<1> HIDE DEF ok
<1> QED  BY <1>1, <1>2, <1>3, <1>4, <1>5, <1>6

LEMMA HttpOthers ==
  ASSUME NEW d, NEW r
  PROVE  /\ r.op \in {"update", "list"} =>
              handle_resolver_config(d, r) = Response(CoreSettings(d, r.op, r.input), 200)
         /\ r.op \in {"enable", "disable", "status"} =>
              handle_filtering(d, r) = Response(CoreFiltering(d, r.op), 200)
         /\ r.op \in {"list", "refresh", "refresh_all", "enable", "disable"} =>
              handle_lists(d, r) = Response(CoreEngine(d, r.op, r.key), 200)
         /\ r.op \in {"stats", "log"} =>
              handle_stats_and_log(d, r) = Response(IF r.op = "stats" THEN get_stats(d) ELSE get_query_log(d), 200)
<1>1. CASE r.op = "update"
  BY <1>1, Zenon DEF handle_resolver_config, CoreSettings
<1>2. CASE r.op = "list"
  BY <1>2, Zenon DEF handle_resolver_config, CoreSettings, handle_lists, CoreEngine
<1>3. CASE r.op = "enable"
  <2>1. (r.op = "enable") = TRUE
    BY <1>3
  <2> QED  BY <1>3, <2>1, ZenonT(60) DEF handle_filtering, CoreFiltering, handle_lists, CoreEngine
<1>4. CASE r.op = "disable"
  <2>1. (r.op = "enable") = FALSE
    BY <1>4
  <2> QED  BY <1>4, <2>1, Zenon DEF handle_filtering, CoreFiltering, handle_lists, CoreEngine
<1>5. CASE r.op = "status"
  BY <1>5, Zenon DEF handle_filtering, CoreFiltering
<1>6. CASE r.op \in {"refresh", "refresh_all"}
  BY <1>6, ZenonT(60) DEF handle_lists, CoreEngine
<1>7. CASE r.op \in {"stats", "log"}
  BY <1>7, Zenon DEF handle_stats_and_log
<1> QED  BY <1>1, <1>2, <1>3, <1>4, <1>5, <1>6, <1>7, Zenon

LEMMA HttpIsCore ==
  ASSUME NEW d, NEW r, WellFormed(r.table, r.op, r.input), bearer_auth_middleware(r)
  PROVE  \E ok \in {200, 201} :
           api_router(d, r) = Response(Core(d, r.table, r.op, r.key, r.input), ok)
<1>1. r.table \in Names /\ r.op \in Routes[r.table]
  BY RoutesAre, Zenon DEF WellFormed
<1>2. CASE r.table = "blocklists"
  <2>1. r.op \in Edits
    BY <1>1, <1>2, RoutesAre
  <2>2. /\ api_router(d, r) = handle_blocklists(d, r)
        /\ Core(d, r.table, r.op, r.key, r.input) = CoreLists(d, "block", r.op, r.key, r.input)
    BY <1>2, Zenon DEF api_router, Core
  <2> QED  BY <2>1, <2>2, HttpEdits
<1>3. CASE r.table = "allowlists"
  <2>1. r.op \in Edits
    BY <1>1, <1>3, RoutesAre
  <2>2. /\ api_router(d, r) = handle_allowlists(d, r)
        /\ Core(d, r.table, r.op, r.key, r.input) = CoreLists(d, "allow", r.op, r.key, r.input)
    BY <1>3, Zenon DEF api_router, Core
  <2> QED  BY <2>1, <2>2, HttpEdits
<1>4. CASE r.table = "servers"
  <2>1. r.op \in Edits
    BY <1>1, <1>4, RoutesAre
  <2>2. /\ api_router(d, r) = handle_upstreams(d, r)
        /\ Core(d, r.table, r.op, r.key, r.input) = CoreServers(d, r.op, r.key, r.input)
    BY <1>4, Zenon DEF api_router, Core
  <2> QED  BY <2>1, <2>2, HttpEdits
<1>5. CASE r.table = "zones"
  <2>1. r.op \in Edits
    BY <1>1, <1>5, RoutesAre
  <2>2. /\ api_router(d, r) = handle_zones(d, r)
        /\ Core(d, r.table, r.op, r.key, r.input) = CoreZones(d, r.op, r.key, r.input)
    BY <1>5, Zenon DEF api_router, Core
  <2> QED  BY <2>1, <2>2, HttpEdits
<1>6. CASE r.table = "sources"
  <2>1. r.op \in Edits
    BY <1>1, <1>6, RoutesAre
  <2>2. /\ api_router(d, r) = handle_zone_discovery(d, r)
        /\ Core(d, r.table, r.op, r.key, r.input) = CoreSources(d, r.op, r.key, r.input)
    BY <1>6, Zenon DEF api_router, Core
  <2> QED  BY <2>1, <2>2, HttpEdits
<1>7. CASE r.table = "settings"
  <2>1. r.op \in {"update", "list"}
    BY <1>1, <1>7, RoutesAre, Zenon
  <2>2. /\ api_router(d, r) = handle_resolver_config(d, r)
        /\ Core(d, r.table, r.op, r.key, r.input) = CoreSettings(d, r.op, r.input)
    BY <1>7, Zenon DEF api_router, Core
  <2> QED  BY <2>1, <2>2, HttpOthers
<1>8. CASE r.table = "filtering"
  <2>1. r.op \in {"enable", "disable", "status"}
    BY <1>1, <1>8, RoutesAre, Zenon
  <2>2. /\ api_router(d, r) = handle_filtering(d, r)
        /\ Core(d, r.table, r.op, r.key, r.input) = CoreFiltering(d, r.op)
    BY <1>8, Zenon DEF api_router, Core
  <2> QED  BY <2>1, <2>2, HttpOthers
<1>9. CASE r.table = "filters"
  <2>1. r.op \in {"list", "refresh", "refresh_all", "enable", "disable"}
    BY <1>1, <1>9, RoutesAre, Zenon
  <2>2. /\ api_router(d, r) = handle_lists(d, r)
        /\ Core(d, r.table, r.op, r.key, r.input) = CoreEngine(d, r.op, r.key)
    BY <1>9, Zenon DEF api_router, Core
  <2> QED  BY <2>1, <2>2, HttpOthers
<1>10. CASE r.table = "system"
  <2>1. r.op \in {"stats", "log"}
    BY <1>1, <1>10, RoutesAre, Zenon
  <2>2. /\ api_router(d, r) = handle_stats_and_log(d, r)
        /\ Core(d, r.table, r.op, r.key, r.input) = (IF r.op = "stats" THEN get_stats(d) ELSE get_query_log(d))
    BY <1>10, Zenon DEF api_router, Core
  <2> QED  BY <2>1, <2>2, HttpOthers
<1> QED  BY <1>1, <1>2, <1>3, <1>4, <1>5, <1>6, <1>7, <1>8, <1>9, <1>10, Zenon DEF Names

-----------------------------------------------------------------------------
(* The tools answer with it as well, once their arguments are the input    *)
(* that the operation takes.                                               *)

Plain(table, op, input) ==
  IF table = "servers" /\ op = "update" THEN build_mcp_auth(deserialize_optional_fwmark_field(input))
  ELSE IF table \in {"servers", "sources"} THEN build_mcp_auth(input)
  ELSE IF table = "zones" THEN mcp_server_to_input(input)
  ELSE input

LEMMA McpLists ==
  ASSUME NEW d, NEW r, r.op \in Edits
  PROVE  /\ mcp_blocklists(d, r) = Reply(CoreLists(d, "block", r.op, r.key, r.input))
         /\ mcp_allowlists(d, r) = Reply(CoreLists(d, "allow", r.op, r.key, r.input))
<1>1. CASE r.op = "add"
  BY <1>1, Zenon DEF mcp_blocklists, mcp_allowlists, CoreLists
<1>2. CASE r.op = "update"
  BY <1>2, Zenon DEF mcp_blocklists, mcp_allowlists, CoreLists
<1>3. CASE r.op = "delete"
  BY <1>3, Zenon DEF mcp_blocklists, mcp_allowlists, CoreLists
<1>4. CASE r.op = "list"
  BY <1>4, Zenon DEF mcp_blocklists, mcp_allowlists, CoreLists
<1> QED  BY <1>1, <1>2, <1>3, <1>4, EditCases, Zenon

LEMMA McpServers ==
  ASSUME NEW d, NEW r, r.op \in Edits
  PROVE  mcp_upstreams(d, r) = Reply(CoreServers(d, r.op, r.key, Plain("servers", r.op, r.input)))
<1>1. CASE r.op = "add"
  <2>1. Plain("servers", r.op, r.input) = build_mcp_auth(r.input)
    BY <1>1 DEF Plain
  <2> QED  BY <1>1, <2>1, Zenon DEF mcp_upstreams, CoreServers
<1>2. CASE r.op = "update"
  <2>1. Plain("servers", r.op, r.input) = build_mcp_auth(deserialize_optional_fwmark_field(r.input))
    BY <1>2 DEF Plain
  <2> QED  BY <1>2, <2>1, Zenon DEF mcp_upstreams, CoreServers
<1>3. CASE r.op = "delete"
  BY <1>3, Zenon DEF mcp_upstreams, CoreServers
<1>4. CASE r.op = "list"
  BY <1>4, Zenon DEF mcp_upstreams, CoreServers
<1> QED  BY <1>1, <1>2, <1>3, <1>4, EditCases, Zenon

LEMMA McpZones ==
  ASSUME NEW d, NEW r, r.op \in Edits
  PROVE  mcp_zones(d, r) = Reply(CoreZones(d, r.op, r.key, Plain("zones", r.op, r.input)))
<1>1. CASE r.op = "add"
  <2>1. Plain("zones", r.op, r.input) = mcp_server_to_input(r.input)
    BY <1>1 DEF Plain
  <2> QED  BY <1>1, <2>1, Zenon DEF mcp_zones, CoreZones
<1>2. CASE r.op = "update"
  <2>1. Plain("zones", r.op, r.input) = mcp_server_to_input(r.input)
    BY <1>2 DEF Plain
  <2> QED  BY <1>2, <2>1, Zenon DEF mcp_zones, CoreZones
<1>3. CASE r.op = "delete"
  BY <1>3, Zenon DEF mcp_zones, CoreZones
<1>4. CASE r.op = "list"
  BY <1>4, Zenon DEF mcp_zones, CoreZones
<1> QED  BY <1>1, <1>2, <1>3, <1>4, EditCases, Zenon

LEMMA McpSources ==
  ASSUME NEW d, NEW r, r.op \in Edits
  PROVE  mcp_zone_discovery(d, r) = Reply(CoreSources(d, r.op, r.key, Plain("sources", r.op, r.input)))
<1>1. CASE r.op = "add"
  <2>1. Plain("sources", r.op, r.input) = build_mcp_auth(r.input)
    BY <1>1 DEF Plain
  <2> QED  BY <1>1, <2>1, Zenon DEF mcp_zone_discovery, CoreSources
<1>2. CASE r.op = "update"
  <2>1. Plain("sources", r.op, r.input) = build_mcp_auth(r.input)
    BY <1>2 DEF Plain
  <2> QED  BY <1>2, <2>1, Zenon DEF mcp_zone_discovery, CoreSources
<1>3. CASE r.op = "delete"
  BY <1>3, Zenon DEF mcp_zone_discovery, CoreSources
<1>4. CASE r.op = "list"
  BY <1>4, Zenon DEF mcp_zone_discovery, CoreSources
<1> QED  BY <1>1, <1>2, <1>3, <1>4, EditCases, Zenon

LEMMA McpOthers ==
  ASSUME NEW d, NEW r
  PROVE  /\ r.op \in {"update", "list"} =>
              mcp_resolver_config(d, r) = Reply(CoreSettings(d, r.op, r.input))
         /\ filter_toggle(d, r) = Reply(CoreFiltering(d, r.op))
         /\ r.op \in {"list", "refresh", "refresh_all", "enable", "disable"} =>
              mcp_lists(d, r) = Reply(CoreEngine(d, r.op, r.key))
         /\ r.op \in {"stats", "log"} =>
              mcp_stats_and_log(d, r) = Reply(IF r.op = "stats" THEN get_stats(d) ELSE get_query_log(d))
<1>1. filter_toggle(d, r) = Reply(CoreFiltering(d, r.op))
  BY Zenon DEF filter_toggle, CoreFiltering
<1>2. CASE r.op = "update"
  BY <1>1, <1>2, Zenon DEF mcp_resolver_config, CoreSettings
<1>3. CASE r.op = "list"
  BY <1>1, <1>3, Zenon DEF mcp_resolver_config, CoreSettings, mcp_lists, refresh_lists, CoreEngine
<1>4. CASE r.op \in {"enable", "disable"}
  BY <1>1, <1>4, Zenon DEF mcp_lists, CoreEngine
<1>5. CASE r.op = "refresh"
  BY <1>1, <1>5, Zenon DEF mcp_lists, refresh_lists, CoreEngine
<1>6. CASE r.op = "refresh_all"
  BY <1>1, <1>6, Zenon DEF mcp_lists, refresh_lists, CoreEngine
<1>7. CASE r.op \in {"stats", "log"}
  BY <1>1, <1>7, Zenon DEF mcp_stats_and_log
<1> QED  BY <1>1, <1>2, <1>3, <1>4, <1>5, <1>6, <1>7, Zenon

LEMMA McpIsCore ==
  ASSUME NEW d, NEW r, WellFormed(r.table, r.op, r.input), bearer_auth_middleware(r)
  PROVE  McpHandler(d, r) = Reply(Core(d, r.table, r.op, r.key, Plain(r.table, r.op, r.input)))
<1> DEFINE in == Plain(r.table, r.op, r.input)
<1>1. r.table \in Names /\ r.op \in Routes[r.table]
  BY RoutesAre, Zenon DEF WellFormed
<1> HIDE DEF in
<1>2. CASE r.table = "blocklists"
  <2>1. r.op \in Edits
    BY <1>1, <1>2, RoutesAre
  <2>2. /\ McpHandler(d, r) = mcp_blocklists(d, r)
        /\ Core(d, r.table, r.op, r.key, in) = CoreLists(d, "block", r.op, r.key, in)
    BY <1>2, Zenon DEF McpHandler, Core
  <2>3. in = r.input
    BY <1>2 DEF in, Plain
  <2> QED  BY <2>1, <2>2, <2>3, McpLists, Zenon DEF in
<1>3. CASE r.table = "allowlists"
  <2>1. r.op \in Edits
    BY <1>1, <1>3, RoutesAre
  <2>2. /\ McpHandler(d, r) = mcp_allowlists(d, r)
        /\ Core(d, r.table, r.op, r.key, in) = CoreLists(d, "allow", r.op, r.key, in)
    BY <1>3, Zenon DEF McpHandler, Core
  <2>3. in = r.input
    BY <1>3 DEF in, Plain
  <2> QED  BY <2>1, <2>2, <2>3, McpLists, Zenon DEF in
<1>4. CASE r.table = "servers"
  <2>1. r.op \in Edits
    BY <1>1, <1>4, RoutesAre
  <2>2. /\ McpHandler(d, r) = mcp_upstreams(d, r)
        /\ Core(d, r.table, r.op, r.key, in) = CoreServers(d, r.op, r.key, in)
    BY <1>4, Zenon DEF McpHandler, Core
  <2> QED  BY <1>4, <2>1, <2>2, McpServers, Zenon DEF in
<1>5. CASE r.table = "zones"
  <2>1. r.op \in Edits
    BY <1>1, <1>5, RoutesAre
  <2>2. /\ McpHandler(d, r) = mcp_zones(d, r)
        /\ Core(d, r.table, r.op, r.key, in) = CoreZones(d, r.op, r.key, in)
    BY <1>5, Zenon DEF McpHandler, Core
  <2> QED  BY <1>5, <2>1, <2>2, McpZones, Zenon DEF in
<1>6. CASE r.table = "sources"
  <2>1. r.op \in Edits
    BY <1>1, <1>6, RoutesAre
  <2>2. /\ McpHandler(d, r) = mcp_zone_discovery(d, r)
        /\ Core(d, r.table, r.op, r.key, in) = CoreSources(d, r.op, r.key, in)
    BY <1>6, Zenon DEF McpHandler, Core
  <2> QED  BY <1>6, <2>1, <2>2, McpSources, Zenon DEF in
<1>7. CASE r.table = "settings"
  <2>1. r.op \in {"update", "list"}
    BY <1>1, <1>7, RoutesAre, Zenon
  <2>2. /\ McpHandler(d, r) = mcp_resolver_config(d, r)
        /\ Core(d, r.table, r.op, r.key, in) = CoreSettings(d, r.op, in)
    BY <1>7, Zenon DEF McpHandler, Core
  <2>3. in = r.input
    BY <1>7 DEF in, Plain
  <2> QED  BY <2>1, <2>2, <2>3, McpOthers, Zenon DEF in
<1>8. CASE r.table = "filtering"
  <2>1. r.op \in {"enable", "disable", "status"}
    BY <1>1, <1>8, RoutesAre, Zenon
  <2>2. /\ McpHandler(d, r) = filter_toggle(d, r)
        /\ Core(d, r.table, r.op, r.key, in) = CoreFiltering(d, r.op)
    BY <1>8, Zenon DEF McpHandler, Core
  <2> QED  BY <2>1, <2>2, McpOthers, Zenon DEF in
<1>9. CASE r.table = "filters"
  <2>1. r.op \in {"list", "refresh", "refresh_all", "enable", "disable"}
    BY <1>1, <1>9, RoutesAre, Zenon
  <2>2. /\ McpHandler(d, r) = mcp_lists(d, r)
        /\ Core(d, r.table, r.op, r.key, in) = CoreEngine(d, r.op, r.key)
    BY <1>9, Zenon DEF McpHandler, Core
  <2> QED  BY <2>1, <2>2, McpOthers, Zenon DEF in
<1>10. CASE r.table = "system"
  <2>1. r.op \in {"stats", "log"}
    BY <1>1, <1>10, RoutesAre, Zenon
  <2>2. /\ McpHandler(d, r) = mcp_stats_and_log(d, r)
        /\ Core(d, r.table, r.op, r.key, in) = (IF r.op = "stats" THEN get_stats(d) ELSE get_query_log(d))
    BY <1>10, Zenon DEF McpHandler, Core
  <2> QED  BY <2>1, <2>2, McpOthers, Zenon DEF in
<1> QED  BY <1>1, <1>2, <1>3, <1>4, <1>5, <1>6, <1>7, <1>8, <1>9, <1>10, Zenon DEF Names

LEMMA PlainAuth ==
  ASSUME NEW input
  PROVE  /\ DOMAIN build_mcp_auth(input) \subseteq DOMAIN input
         /\ \A f \in DOMAIN input : f # "authentication" =>
              f \in DOMAIN build_mcp_auth(input) /\ build_mcp_auth(input)[f] = input[f]
  BY DEF build_mcp_auth, Without

LEMMA PlainMark ==
  ASSUME NEW input
  PROVE  /\ DOMAIN deserialize_optional_fwmark_field(input) = DOMAIN input
         /\ \A f \in DOMAIN input : f # "fwmark" =>
              deserialize_optional_fwmark_field(input)[f] = input[f]
  BY DEF deserialize_optional_fwmark_field

LEMMA PlainServers ==
  ASSUME NEW input
  PROVE  /\ DOMAIN mcp_server_to_input(input) = DOMAIN input
         /\ \A f \in DOMAIN input : f # "servers" => mcp_server_to_input(input)[f] = input[f]
  BY DEF mcp_server_to_input

\* A tool gives no field that its caller did not give, and drops only the authentication.
LEMMA PlainIs ==
  ASSUME NEW table, NEW op, NEW input
  PROVE  /\ DOMAIN Plain(table, op, input) \subseteq DOMAIN input
         /\ \A f \in DOMAIN input : f # "authentication" => f \in DOMAIN Plain(table, op, input)
<1> DEFINE mark == deserialize_optional_fwmark_field(input)
<1>1. CASE table = "servers" /\ op = "update"
  <2>1. DOMAIN mark = DOMAIN input
    BY PlainMark
  <2>2. Plain(table, op, input) = build_mcp_auth(mark)
    BY <1>1 DEF Plain
  <2> HIDE DEF mark
  <2> QED  BY <2>1, <2>2, PlainAuth
<1>2. CASE ~(table = "servers" /\ op = "update") /\ table \in {"servers", "sources"}
  <2>1. Plain(table, op, input) = build_mcp_auth(input)
    BY <1>2 DEF Plain
  <2> QED  BY <2>1, PlainAuth
<1>3. CASE table = "zones"
  <2>1. Plain(table, op, input) = mcp_server_to_input(input)
    BY <1>3 DEF Plain
  <2> QED  BY <2>1, PlainServers
<1>4. CASE table \notin {"servers", "sources", "zones"}
  <2>1. Plain(table, op, input) = input
    BY <1>4 DEF Plain
  <2> QED  BY <2>1
<1> QED  BY <1>1, <1>2, <1>3, <1>4

LEMMA StaysComplete ==
  ASSUME NEW table, NEW op, NEW input, WellFormed(table, op, input)
  PROVE  /\ table \in Names /\ Complete(table, op, input)
         /\ Complete(table, op, Plain(table, op, input))
<1>1. table \in Names /\ Complete(table, op, input) /\ op \in Routes[table]
  BY RoutesAre, Zenon DEF WellFormed, Complete
<1>2. op = "add" => "authentication" \notin Required(table)
  <2>1. SUFFICES ASSUME op = "add" PROVE "authentication" \notin Required(table)
    OBVIOUS
  <2>2. table \in {"blocklists", "allowlists", "servers", "zones", "sources"}
    BY <1>1, <2>1, RoutesAre DEF Names
  <2>3. CASE table \in {"blocklists", "allowlists"}
    BY <2>3, Zenon DEF Required
  <2>4. CASE table = "servers"
    BY <2>4, Zenon DEF Required
  <2>5. CASE table = "zones"
    BY <2>5, Zenon DEF Required
  <2>6. CASE table = "sources"
    BY <2>6, Zenon DEF Required
  <2> QED  BY <2>2, <2>3, <2>4, <2>5, <2>6
<1>3. \A f \in DOMAIN input : f # "authentication" => f \in DOMAIN Plain(table, op, input)
  BY PlainIs
<1>4. Complete(table, op, Plain(table, op, input))
  BY <1>1, <1>2, <1>3 DEF Complete
<1> QED  BY <1>1, <1>4

-----------------------------------------------------------------------------
(* What the callers see.                                                   *)

LEMMA Codes ==
  ASSUME NEW d, NEW res, Sound(d, res), NEW ok \in {200, 201}
  PROVE  /\ Response(res, ok).db = res.db /\ Response(res, ok).body = res.body
         /\ Reply(res).db = res.db /\ Reply(res).body = res.body
         /\ res.status = "ok" => Response(res, ok).code = ok /\ Reply(res).code = 200
         /\ res.status # "ok" => Response(res, ok).code \in {400, 404} /\ Reply(res).code = 400
<1>1. res.status # "ok" => op_error_to_response(res.status) \in {400, 404}
  <2>1. CASE res.status = "ok"
    BY <2>1
  <2>2. CASE res.status \in {"NotFound", "Unavailable"}
    <3>1. op_error_to_response(res.status) = 404
      BY <2>2, ZenonT(60) DEF op_error_to_response
    <3> QED  BY <3>1
  <2>3. CASE res.status = "InvalidInput"
    BY <2>3, Zenon DEF op_error_to_response
  <2> QED  BY <2>1, <2>2, <2>3, Zenon DEF Sound
<1>2. /\ Response(res, ok).db = res.db /\ Response(res, ok).body = res.body
      /\ Reply(res).db = res.db /\ Reply(res).body = res.body
  BY DEF Response, Reply
<1>3. /\ Response(res, ok).code = IF res.status = "ok" THEN ok ELSE op_error_to_response(res.status)
      /\ Reply(res).code = IF res.status = "ok" THEN 200 ELSE 400
  BY DEF Response, Reply
<1> QED  BY <1>1, <1>2, <1>3

LEMMA Unauthorized ==
  ASSUME NEW d, NEW r, ~bearer_auth_middleware(r)
  PROVE  /\ api_router(d, r).db = d /\ McpHandler(d, r).db = d
         /\ api_router(d, r).body = None /\ McpHandler(d, r).body = None
         /\ api_router(d, r).code = 401 /\ McpHandler(d, r).code = 401
<1> DEFINE no == [code |-> 401, db |-> d, body |-> None]
<1>1. no.code = 401 /\ no.db = d /\ no.body = None
  OBVIOUS
<1> HIDE DEF no
<1>2. api_router(d, r) = no /\ McpHandler(d, r) = no
  BY Zenon DEF api_router, McpHandler, no
<1> QED  BY <1>1, <1>2

LEMMA Answers ==
  ASSUME NEW d, Valid(d), NEW r \in Requests, NEW a \in {api_router(d, r), McpHandler(d, r)}
  PROVE  Valid(a.db) /\ (a.code >= 400 => OnlyZones(d, a.db))
<1>1. WellFormed(r.table, r.op, r.input)
  BY RequestsAssumption
<1>2. CASE ~bearer_auth_middleware(r)
  <2>1. OnlyZones(d, d)
    BY Zenon DEF OnlyZones, Valid, IsDb, All, Tables
  <2> QED  BY <1>2, <2>1, Unauthorized
<1>3. CASE bearer_auth_middleware(r)
  <2>1. ASSUME NEW in, Complete(r.table, r.op, in), NEW ok \in {200, 201},
               \/ a = Response(Core(d, r.table, r.op, r.key, in), ok)
               \/ a = Reply(Core(d, r.table, r.op, r.key, in))
        PROVE  Valid(a.db) /\ (a.code >= 400 => OnlyZones(d, a.db))
    <3> DEFINE res == Core(d, r.table, r.op, r.key, in)
    <3>1. Sound(d, res)
      BY <1>1, <2>1, CoreSound, StaysComplete
    <3> HIDE DEF res
    <3>2. a = Response(res, ok) \/ a = Reply(res)
      BY <2>1 DEF res
    <3>3. a.db = res.db /\ (a.code >= 400 => res.status # "ok")
      BY <3>1, <3>2, Codes
    <3> QED  BY <3>1, <3>3, Zenon DEF Sound
  <2>2. CASE a = api_router(d, r)
    <3>1. PICK ok \in {200, 201} : a = Response(Core(d, r.table, r.op, r.key, r.input), ok)
      BY <1>1, <1>3, <2>2, HttpIsCore
    <3> QED  BY <1>1, <2>1, <3>1, StaysComplete
  <2>3. CASE a = McpHandler(d, r)
    <3>1. a = Reply(Core(d, r.table, r.op, r.key, Plain(r.table, r.op, r.input)))
      BY <1>1, <1>3, <2>3, McpIsCore, Zenon
    <3> QED  BY <1>1, <2>1, <3>1, StaysComplete, Zenon
  <2> QED  BY <2>2, <2>3
<1> QED  BY <1>2, <1>3

LEMMA ValidInit == ASSUME Init PROVE Valid(db)
<1>1. PICK repos \in BOOLEAN : db = [t \in All |-> IF t = "repos" THEN repos ELSE Created(t)]
  BY DEF Init, All
<1>2. IsDb(db) /\ \A t \in Tables : db[t] = Created(t)
  BY <1>1 DEF IsDb, All, Tables
<1>3. db.lists = <<>> /\ db.servers = <<>> /\ db.sources = <<>>
  BY <1>2, Zenon DEF Tables, Created
<1>4. SettingsRow(db.settings)
  <2>1. db.settings = [strategy |-> "round_robin", bootstrap_resolvers |-> <<>>, dns_cache_enabled |-> TRUE,
                       dns_cache_min_ttl |-> None, dns_cache_max_ttl |-> None]
    BY <1>2, Zenon DEF Tables, Created
  <2> QED  BY <2>1 DEF SettingsRow, validate_resolver_cache_bounds
<1> QED  BY <1>2, <1>3, <1>4 DEF Valid

LEMMA ValidHolds == Spec => []Valid(db)
<1>1. Init => Valid(db)
  BY ValidInit
<1>2. Valid(db) /\ [Next]_db => Valid(db)'
  <2> SUFFICES ASSUME Valid(db), [Next]_db PROVE Valid(db')
    BY Zenon DEF Valid, IsDb, ListRow, ServerRow, SourceRow, SettingsRow
  <2>1. CASE HttpCall
    <3>1. PICK r \in Requests : db' = api_router(db, r).db
      BY <2>1 DEF HttpCall
    <3>2. Valid(api_router(db, r).db)
      BY Answers
    <3> QED  BY <3>1, <3>2
  <2>2. CASE McpCall
    <3>1. PICK r \in Requests : db' = McpHandler(db, r).db
      BY <2>2 DEF McpCall
    <3>2. Valid(McpHandler(db, r).db)
      BY Answers
    <3> QED  BY <3>1, <3>2
  <2>3. CASE UNCHANGED db
    BY <2>3
  <2> QED  BY <2>1, <2>2, <2>3 DEF Next
<1> QED  BY <1>1, <1>2, PTL DEF Spec

(* However calls over HTTP and through the tools follow one another, every *)
(* row is one that a single call would accept: the validation of an update *)
(* is enough for the row that it leaves.                                   *)
THEOREM RowsStayValid == Spec => []StoredRowsAreValid
<1>1. Valid(db) => StoredRowsAreValid
  BY Zenon DEF Valid, ListRow, ServerRow, SourceRow, SettingsRow, StoredRowsAreValid
<1> QED  BY <1>1, ValidHolds, PTL

(* An answer with an error means that nothing was changed, through both    *)
(* faces and for all calls but those that write the servers of a zone.     *)
THEOREM RefusalsChangeNothing == Spec => []RefusedChangesNothing
<1>1. Valid(db) => RefusedChangesNothing
  <2> SUFFICES ASSUME Valid(db), NEW r \in Requests, NEW answer \in {api_router(db, r), McpHandler(db, r)},
                      answer.code >= 400
               PROVE  answer.db = [db EXCEPT !.zones = answer.db.zones]
    BY Zenon DEF RefusedChangesNothing
  <2>1. answer = api_router(db, r) \/ answer = McpHandler(db, r)
    OBVIOUS
  <2>2. OnlyZones(db, answer.db)
    BY <2>1, Answers, Zenon
  <2> QED  BY <2>2 DEF OnlyZones
<1> QED  BY <1>1, ValidHolds, PTL

-----------------------------------------------------------------------------
(* What an update leaves alone.                                            *)

Provided(before, after, key, input) ==
  /\ DOMAIN after = DOMAIN before
  /\ \A k \in DOMAIN before : \A f \in DOMAIN before[k] :
       k # key \/ ~Given(input, f) => after[k][f] = before[k][f]

LEMMA NothingProvided ==
  ASSUME NEW before, NEW key, NEW input
  PROVE  Provided(before, before, key, input)
  BY DEF Provided

LEMMA PutProvided ==
  ASSUME NEW d, IsDb(d), NEW table \in All, NEW key \in DOMAIN d[table], NEW row, NEW input,
         \A f \in DOMAIN d[table][key] : ~Given(input, f) => row[f] = d[table][key][f]
  PROVE  Provided(d[table], Put(d, table, key, row)[table], key, input)
<1> DEFINE after == Put(d, table, key, row)[table]
<1>1. /\ DOMAIN after = {key} \cup DOMAIN d[table] /\ after[key] = row
      /\ \A k \in DOMAIN d[table] : k # key => after[k] = d[table][k]
  BY PutIs
<1> HIDE DEF after
<1>2. DOMAIN after = DOMAIN d[table]
  BY <1>1, Zenon
<1>3. ASSUME NEW k \in DOMAIN d[table], NEW f \in DOMAIN d[table][k], k # key \/ ~Given(input, f)
      PROVE  after[k][f] = d[table][k][f]
  <2>1. CASE k = key
    BY <1>1, <1>3, <2>1, Zenon
  <2>2. CASE k # key
    BY <1>1, <2>2, Zenon
  <2> QED  BY <2>1, <2>2, Zenon
<1>4. Provided(d[table], after, key, input)
  BY <1>2, <1>3, Zenon DEF Provided
<1> QED  BY <1>4 DEF after

\* What is laid over a row changes only its own fields.
LEMMA OverKeeps ==
  ASSUME NEW in, NEW old, NEW input, DOMAIN in \subseteq DOMAIN input
  PROVE  \A f \in DOMAIN old : ~Given(input, f) => (in ++ old)[f] = old[f]
  BY DEF Given, ++

LEMMA EndsWith ==
  ASSUME NEW d, NEW status, NEW body
  PROVE  Refused(status, d).db = d /\ Done(d).db = d /\ Show(d, body).db = d
  BY DEF Refused, Done, Show

LEMMA ListProvided ==
  ASSUME NEW d, Valid(d), NEW key, NEW input
  PROVE  Provided(d.lists, update_filter_list(d, key, input).db.lists, key, input)
<1> DEFINE in  == Stored(input, "interval", parse_interval_secs)
           row == in ++ d.lists[key]
           res == update_filter_list(d, key, input)
<1>1. DOMAIN in = DOMAIN input
  BY StoredInterval
<1>2. \/ res \in {Refused("Unavailable", d), Refused("NotFound", d), Refused("InvalidInput", d)}
      \/ key \in DOMAIN d.lists /\ res = Done(Put(d, "lists", key, row))
  BY Zenon DEF update_filter_list
<1> HIDE DEF in, res
<1>3. \A f \in DOMAIN d.lists[key] : ~Given(input, f) => row[f] = d.lists[key][f]
  BY <1>1, OverKeeps
<1> HIDE DEF row
<1>4. CASE key \in DOMAIN d.lists /\ res = Done(Put(d, "lists", key, row))
  <2>1. Provided(d.lists, Put(d, "lists", key, row).lists, key, input)
    BY <1>3, <1>4, PutProvided, Zenon DEF Valid, All, Tables
  <2> QED  BY <1>4, <2>1, EndsWith, Zenon DEF res
<1>5. CASE res \in {Refused("Unavailable", d), Refused("NotFound", d), Refused("InvalidInput", d)}
  BY <1>5, EndsWith, NothingProvided DEF res
<1> QED  BY <1>2, <1>4, <1>5, Zenon

LEMMA ServerProvided ==
  ASSUME NEW d, Valid(d), NEW key, NEW in, NEW input, DOMAIN in \subseteq DOMAIN input
  PROVE  Provided(d.servers, update_upstream_server(d, key, in).db.servers, key, input)
<1> DEFINE row == in ++ d.servers[key]
           res == update_upstream_server(d, key, in)
<1>1. \/ res \in {Refused("Unavailable", d), Refused("NotFound", d), Refused("InvalidInput", d)}
      \/ key \in DOMAIN d.servers /\ res = Done(Put(d, "servers", key, row))
  BY Zenon DEF update_upstream_server
<1> HIDE DEF res
<1>2. \A f \in DOMAIN d.servers[key] : ~Given(input, f) => row[f] = d.servers[key][f]
  BY OverKeeps
<1> HIDE DEF row
<1>3. CASE key \in DOMAIN d.servers /\ res = Done(Put(d, "servers", key, row))
  <2>1. Provided(d.servers, Put(d, "servers", key, row).servers, key, input)
    BY <1>2, <1>3, PutProvided, Zenon DEF Valid, All, Tables
  <2> QED  BY <1>3, <2>1, EndsWith, Zenon DEF res
<1>4. CASE res \in {Refused("Unavailable", d), Refused("NotFound", d), Refused("InvalidInput", d)}
  BY <1>4, EndsWith, NothingProvided DEF res
<1> QED  BY <1>1, <1>3, <1>4, Zenon

LEMMA SourceProvided ==
  ASSUME NEW d, Valid(d), NEW key, NEW in, NEW input, DOMAIN in \subseteq DOMAIN input
  PROVE  Provided(d.sources, update_zone_discovery(d, key, in).db.sources, key, input)
<1> DEFINE row == in ++ d.sources[key]
           res == update_zone_discovery(d, key, in)
<1>1. \/ res \in {Refused("Unavailable", d), Refused("NotFound", d), Refused("InvalidInput", d)}
      \/ key \in DOMAIN d.sources /\ res = Done(Put(d, "sources", key, row))
  BY Zenon DEF update_zone_discovery
<1> HIDE DEF res
<1>2. \A f \in DOMAIN d.sources[key] : ~Given(input, f) => row[f] = d.sources[key][f]
  BY OverKeeps
<1> HIDE DEF row
<1>3. CASE key \in DOMAIN d.sources /\ res = Done(Put(d, "sources", key, row))
  <2>1. Provided(d.sources, Put(d, "sources", key, row).sources, key, input)
    BY <1>2, <1>3, PutProvided, Zenon DEF Valid, All, Tables
  <2> QED  BY <1>3, <2>1, EndsWith, Zenon DEF res
<1>4. CASE res \in {Refused("Unavailable", d), Refused("NotFound", d), Refused("InvalidInput", d)}
  BY <1>4, EndsWith, NothingProvided DEF res
<1> QED  BY <1>1, <1>3, <1>4, Zenon

LEMMA ZoneProvided ==
  ASSUME NEW d, Valid(d), NEW key, NEW in, NEW input, DOMAIN in \subseteq DOMAIN input
  PROVE  Provided(d.zones, update_zone(d, key, in).db.zones, key, input)
<1> DEFINE old == d.zones[key]
           row == in ++ old
           all == [row EXCEPT !.servers = ZoneServers(in.servers)]
           res == update_zone(d, key, in)
<1>1. \/ res \in {Refused("Unavailable", d), Refused("NotFound", d)}
      \/ key \in DOMAIN d.zones /\ Given(in, "servers") /\ res = WriteZone(d, key, row, in.servers)
      \/ key \in DOMAIN d.zones /\ res = Done(Put(d, "zones", key, row))
  BY Zenon DEF update_zone
<1> HIDE DEF res
<1>2. /\ \A f \in DOMAIN old : ~Given(input, f) => row[f] = old[f]
      /\ DOMAIN old \subseteq DOMAIN row
  BY OverKeeps, Zenon DEF ++
<1> HIDE DEF row
<1>3. CASE res \in {Refused("Unavailable", d), Refused("NotFound", d)}
  BY <1>3, EndsWith, NothingProvided DEF res
<1>4. CASE key \in DOMAIN d.zones /\ Given(in, "servers") /\ res = WriteZone(d, key, row, in.servers)
  <2>1. \A f \in DOMAIN old : ~Given(input, f) => all[f] = old[f]
    BY <1>2, <1>4, Zenon DEF Given
  <2>2. WriteZone(d, key, row, in.servers)
          \in {Done(Put(d, "zones", key, all)), Refused("InvalidInput", Put(d, "zones", key, all))}
    BY DEF WriteZone
  <2> HIDE DEF all
  <2>3. Provided(d.zones, Put(d, "zones", key, all).zones, key, input)
    BY <1>4, <2>1, PutProvided, Zenon DEF Valid, All, Tables, old
  <2>4. res.db = Put(d, "zones", key, all)
    BY <1>4, <2>2, EndsWith, Zenon
  <2> QED  BY <2>3, <2>4, Zenon DEF res
<1>5. CASE key \in DOMAIN d.zones /\ res = Done(Put(d, "zones", key, row))
  <2>1. Provided(d.zones, Put(d, "zones", key, row).zones, key, input)
    BY <1>2, <1>5, PutProvided, Zenon DEF Valid, All, Tables
  <2> QED  BY <1>5, <2>1, EndsWith, Zenon DEF res
<1> QED  BY <1>1, <1>3, <1>4, <1>5, Zenon

LEMMA CoreProvided ==
  ASSUME NEW d, Valid(d), NEW table \in {"blocklists", "allowlists", "servers", "zones", "sources"},
         NEW key, NEW in, NEW input, DOMAIN in \subseteq DOMAIN input,
         table \in {"blocklists", "allowlists"} => in = input
  PROVE  Provided(RowsOf(d, table), RowsOf(Core(d, table, "update", key, in).db, table), key, input)
<1>1. CASE table \in {"blocklists", "allowlists"}
  <2>1. Core(d, table, "update", key, in) = update_filter_list(d, key, input)
    BY <1>1 DEF Core, CoreLists
  <2> QED  BY <1>1, <2>1, ListProvided, Zenon DEF RowsOf
<1>2. CASE table = "servers"
  <2>1. Core(d, table, "update", key, in) = update_upstream_server(d, key, in)
    BY <1>2 DEF Core, CoreServers
  <2> QED  BY <1>2, <2>1, ServerProvided, Zenon DEF RowsOf
<1>3. CASE table = "zones"
  <2>1. Core(d, table, "update", key, in) = update_zone(d, key, in)
    BY <1>3, Zenon DEF Core, CoreZones
  <2> QED  BY <1>3, <2>1, ZoneProvided, Zenon DEF RowsOf
<1>4. CASE table = "sources"
  <2>1. Core(d, table, "update", key, in) = update_zone_discovery(d, key, in)
    BY <1>4, Zenon DEF Core, CoreSources
  <2> QED  BY <1>4, <2>1, SourceProvided, Zenon DEF RowsOf
<1> QED  BY <1>1, <1>2, <1>3, <1>4, Zenon

LEMMA UpdatesProvided ==
  ASSUME NEW d, Valid(d), NEW r \in Requests, r.op = "update", r.table # "settings",
         NEW to \in {api_router(d, r).db, McpHandler(d, r).db}
  PROVE  Provided(RowsOf(d, r.table), RowsOf(to, r.table), r.key, r.input)
<1>1. WellFormed(r.table, r.op, r.input)
  BY RequestsAssumption, Zenon
<1>2. r.table \in {"blocklists", "allowlists", "servers", "zones", "sources"}
  BY <1>1, RoutesAre, Zenon DEF WellFormed, Names
<1>3. CASE ~bearer_auth_middleware(r)
  <2>1. to = d
    BY <1>3, Unauthorized
  <2> QED  BY <2>1, NothingProvided
<1>4. CASE bearer_auth_middleware(r)
  <2> DEFINE in == Plain(r.table, r.op, r.input)
  <2>1. to \in {Core(d, r.table, r.op, r.key, r.input).db, Core(d, r.table, r.op, r.key, in).db}
    <3>1. /\ Sound(d, Core(d, r.table, r.op, r.key, r.input))
          /\ Sound(d, Core(d, r.table, r.op, r.key, in))
      BY <1>1, CoreSound, StaysComplete, Zenon
    <3>2. PICK ok \in {200, 201} : api_router(d, r) = Response(Core(d, r.table, r.op, r.key, r.input), ok)
      BY <1>1, <1>4, HttpIsCore
    <3>3. McpHandler(d, r) = Reply(Core(d, r.table, r.op, r.key, in))
      BY <1>1, <1>4, McpIsCore
    <3>4. api_router(d, r).db = Core(d, r.table, r.op, r.key, r.input).db
      BY <3>1, <3>2, Codes
    <3>5. McpHandler(d, r).db = Core(d, r.table, r.op, r.key, in).db
      BY <3>1, <3>3, Codes
    <3> QED  BY <3>4, <3>5, Zenon
  <2>2. DOMAIN in \subseteq DOMAIN r.input /\ (r.table \in {"blocklists", "allowlists"} => in = r.input)
    BY PlainIs, Zenon DEF Plain
  <2> HIDE DEF in
  <2>3. Provided(RowsOf(d, r.table), RowsOf(Core(d, r.table, r.op, r.key, r.input).db, r.table), r.key, r.input)
    BY <1>2, CoreProvided, Zenon
  <2>4. Provided(RowsOf(d, r.table), RowsOf(Core(d, r.table, r.op, r.key, in).db, r.table), r.key, r.input)
    BY <1>2, <2>2, CoreProvided, Zenon
  <2> QED  BY <2>1, <2>3, <2>4, Zenon
<1> QED  BY <1>3, <1>4, Zenon

(* "Only provided fields are changed": for any update, over HTTP or through*)
(* a tool, whatever the table holds.                                       *)
THEOREM UpdatesChangeOnlyProvided == Spec => []OnlyProvidedChange
<1>1. Valid(db) => OnlyProvidedChange
  <2> SUFFICES ASSUME Valid(db), NEW r \in Requests, r.op = "update", r.table # "settings",
                      NEW to \in {api_router(db, r).db, McpHandler(db, r).db}
               PROVE  Provided(RowsOf(db, r.table), RowsOf(to, r.table), r.key, r.input)
    BY Zenon DEF OnlyProvidedChange, Provided
  <2> QED  BY UpdatesProvided, Zenon
<1> QED  BY <1>1, ValidHolds, PTL

-----------------------------------------------------------------------------
(* The tools' way to give the servers of a zone makes no difference: an    *)
(* authentication that is left out becomes the empty one.                  *)

ZoneDefaults == [enabled |-> TRUE, authentication |-> NoAuth]

LEMMA AuthLeftOut ==
  ASSUME NEW s
  PROVE  build_mcp_auth(s) ++ ZoneDefaults = s ++ ZoneDefaults
<1>1. CASE Given(s, "authentication") /\ s.authentication = NoAuth
  <2> DEFINE t == Without(s, "authentication")
  <2>1. build_mcp_auth(s) = t
    BY <1>1 DEF build_mcp_auth
  <2>2. DOMAIN t = DOMAIN s \ {"authentication"} /\ \A x \in DOMAIN t : t[x] = s[x]
    BY DEF Without
  <2>3. DOMAIN ZoneDefaults = {"enabled", "authentication"} /\ ZoneDefaults["authentication"] = NoAuth
    BY DEF ZoneDefaults
  <2> HIDE DEF t
  <2>4. t ++ ZoneDefaults = s ++ ZoneDefaults
    <3>1. DOMAIN t \cup DOMAIN ZoneDefaults = DOMAIN s \cup DOMAIN ZoneDefaults
      BY <2>2, <2>3
    <3>2. ASSUME NEW x \in DOMAIN s \cup DOMAIN ZoneDefaults
          PROVE  (IF x \in DOMAIN t THEN t[x] ELSE ZoneDefaults[x]) = IF x \in DOMAIN s THEN s[x] ELSE ZoneDefaults[x]
      <4>1. CASE x = "authentication"
        BY <1>1, <2>2, <2>3, <4>1 DEF Given
      <4>2. CASE x # "authentication"
        BY <2>2, <4>2
      <4> QED  BY <4>1, <4>2
    <3> QED  BY <3>1, <3>2 DEF ++
  <2> QED  BY <2>1, <2>4
<1>2. CASE ~(Given(s, "authentication") /\ s.authentication = NoAuth)
  BY <1>2 DEF build_mcp_auth
<1> QED  BY <1>1, <1>2

LEMMA SameServers ==
  ASSUME NEW S, \A i \in DOMAIN S : Given(S[i], "protocol")
  PROVE  ZoneServers([i \in DOMAIN S |-> build_mcp_auth(S[i])]) = ZoneServers(S)
<1> DEFINE T == [i \in DOMAIN S |-> build_mcp_auth(S[i])]
           fit(U) == {i \in DOMAIN U : \A j \in DOMAIN U : j <= i => validate_protocol(U[j].protocol)}
<1>1. DOMAIN T = DOMAIN S /\ \A i \in DOMAIN S : T[i] = build_mcp_auth(S[i])
  OBVIOUS
<1>2. /\ ZoneServers(T) = [i \in fit(T) |-> T[i] ++ ZoneDefaults]
      /\ ZoneServers(S) = [i \in fit(S) |-> S[i] ++ ZoneDefaults]
  BY Zenon DEF ZoneServers, ZoneDefaults
<1> HIDE DEF T
<1>3. \A i \in DOMAIN S : T[i].protocol = S[i].protocol
  BY <1>1, PlainAuth DEF Given
<1>4. fit(T) = fit(S)
  BY <1>1, <1>3
<1>5. \A i \in DOMAIN S : T[i] ++ ZoneDefaults = S[i] ++ ZoneDefaults
  BY <1>1, AuthLeftOut, Zenon
<1>6. fit(S) \subseteq DOMAIN S
  OBVIOUS
<1> HIDE DEF fit
<1>7. ZoneServers(T) = ZoneServers(S)
  BY <1>2, <1>4, <1>5, <1>6
<1> QED  BY <1>7 DEF T

\* Two rows that differ in their servers only, and servers that are stored alike.
LEMMA SameZone ==
  ASSUME NEW d, NEW zone, NEW row, NEW row2, NEW S, NEW S2,
         DOMAIN row2 = DOMAIN row, \A f \in DOMAIN row : f # "servers" => row2[f] = row[f],
         DOMAIN S2 = DOMAIN S, ZoneServers(S2) = ZoneServers(S)
  PROVE  WriteZone(d, zone, row2, S2) = WriteZone(d, zone, row, S)
<1> DEFINE kept == ZoneServers(S)
           one == [row EXCEPT !.servers = kept]
           two == [row2 EXCEPT !.servers = kept]
<1>1. two = one
  <2> HIDE DEF kept
  <2> QED  OBVIOUS
<1>2. ZoneServers(S) = kept /\ ZoneServers(S2) = kept
  OBVIOUS
<1> HIDE DEF kept, one, two
<1>3. WriteZone(d, zone, row, S)
        = IF DOMAIN kept = DOMAIN S THEN Done(Put(d, "zones", zone, one))
          ELSE Refused("InvalidInput", Put(d, "zones", zone, one))
  BY <1>2, Zenon DEF WriteZone, one
<1>4. WriteZone(d, zone, row2, S2)
        = IF DOMAIN kept = DOMAIN S2 THEN Done(Put(d, "zones", zone, two))
          ELSE Refused("InvalidInput", Put(d, "zones", zone, two))
  BY <1>2, Zenon DEF WriteZone, two
<1> QED  BY <1>1, <1>3, <1>4

LEMMA ZonesAlike ==
  ASSUME NEW d, NEW op, NEW key, NEW input, WellFormed("zones", op, input)
  PROVE  CoreZones(d, op, key, mcp_server_to_input(input)) = CoreZones(d, op, key, input)
<1>1. CASE ~Given(input, "servers")
  BY <1>1 DEF mcp_server_to_input
<1>2. CASE Given(input, "servers")
  <2> DEFINE S  == input.servers
             S2 == [i \in DOMAIN S |-> build_mcp_auth(S[i])]
             in == mcp_server_to_input(input)
  <2>1. in = [input EXCEPT !.servers = S2]
    BY <1>2 DEF mcp_server_to_input
  <2>2. ZoneServers(S2) = ZoneServers(S) /\ DOMAIN S2 = DOMAIN S
    <3>1. \A i \in DOMAIN S : Given(S[i], "protocol")
      BY <1>2 DEF WellFormed
    <3> HIDE DEF S
    <3> QED  BY <3>1, SameServers
  <2> HIDE DEF S2, in
  <2>3. /\ DOMAIN in = DOMAIN input /\ in.servers = S2 /\ "servers" \in DOMAIN input
        /\ \A f \in DOMAIN input : f # "servers" => in[f] = input[f]
    BY <1>2, <2>1 DEF Given
  <2> HIDE DEF S
  <2>4. input.servers = S
    BY DEF S
  <2>5. CASE op = "update"
    <3> DEFINE row  == input ++ d.zones[key]
               row2 == in ++ d.zones[key]
    <3>1. DOMAIN row2 = DOMAIN row /\ \A f \in DOMAIN row : f # "servers" => row2[f] = row[f]
      BY <2>3, Zenon DEF ++
    <3>2. /\ update_zone(d, key, input) = IF ~d.repos THEN Refused("Unavailable", d)
                                          ELSE IF key \notin DOMAIN d.zones THEN Refused("NotFound", d)
                                          ELSE WriteZone(d, key, row, S)
          /\ update_zone(d, key, in) = IF ~d.repos THEN Refused("Unavailable", d)
                                       ELSE IF key \notin DOMAIN d.zones THEN Refused("NotFound", d)
                                       ELSE WriteZone(d, key, row2, S2)
      BY <1>2, <2>3, <2>4, Zenon DEF update_zone, Given
    <3> HIDE DEF row, row2
    <3>3. WriteZone(d, key, row2, S2) = WriteZone(d, key, row, S)
      BY <2>2, <3>1, SameZone
    <3> QED  BY <2>5, <3>2, <3>3 DEF CoreZones, in
  <2>6. CASE op = "add"
    <3> DEFINE new  == [enabled |-> TRUE, bypass_filter |-> FALSE,
                        fallback_to_default_resolvers |-> FALSE,
                        strategy |-> None, servers |-> <<>>]
               row  == Without(input, "zone") ++ new
               row2 == Without(in, "zone") ++ new
    <3>1. in.zone = input.zone
      <4>1. "zone" \in DOMAIN input
        <5>1. Required("zones") = {"zone"}
          BY Zenon DEF Required
        <5> QED  BY <2>6, <5>1 DEF WellFormed
      <4> QED  BY <2>3, <4>1, Zenon
    <3>2. /\ add_zone(d, input) = IF ~validate_zone_name(input.zone) THEN Refused("InvalidInput", d)
                                  ELSE IF ~d.repos THEN Refused("Unavailable", d)
                                  ELSE IF input.zone \in DOMAIN d.zones THEN Refused("InvalidInput", d)
                                  ELSE WriteZone(d, input.zone, row, row.servers)
          /\ add_zone(d, in) = IF ~validate_zone_name(in.zone) THEN Refused("InvalidInput", d)
                               ELSE IF ~d.repos THEN Refused("Unavailable", d)
                               ELSE IF in.zone \in DOMAIN d.zones THEN Refused("InvalidInput", d)
                               ELSE WriteZone(d, in.zone, row2, row2.servers)
      BY Zenon DEF add_zone
    <3> HIDE DEF new
    <3>3. /\ DOMAIN row2 = DOMAIN row /\ \A f \in DOMAIN row : f # "servers" => row2[f] = row[f]
          /\ row.servers = S /\ row2.servers = S2
      BY <2>3, <2>4, Zenon DEF Without, ++
    <3> HIDE DEF row, row2
    <3>4. WriteZone(d, input.zone, row2, S2) = WriteZone(d, input.zone, row, S)
      BY <2>2, <3>3, SameZone
    <3> QED  BY <2>6, <3>1, <3>2, <3>3, <3>4, Zenon DEF CoreZones, in
  <2>7. CASE op \notin {"add", "update"}
    BY <2>7 DEF CoreZones
  <2> QED  BY <2>5, <2>6, <2>7
<1> QED  BY <1>1, <1>2

\* A tool's caller who writes a mark as "none" means the same as null.
LEMMA FormsAre ==
  ASSUME NEW r \in Requests, NEW m \in McpForms(r),
         ~(Given(r.input, "authentication") /\ r.input.authentication = NoAuth)
  PROVE  /\ m.table = r.table /\ m.op = r.op /\ m.key = r.key /\ m.header = r.header
         /\ WellFormed(m.table, m.op, m.input)
         /\ r.table # "zones" => Plain(m.table, m.op, m.input) = r.input
         /\ r.table = "zones" => m.input = r.input
<1>1. /\ DOMAIN r = {"op", "table", "key", "input", "header"} /\ WellFormed(r.table, r.op, r.input)
      /\ Given(r.input, "fwmark") => r.input.fwmark # NoneText
  BY RequestsAssumption, Zenon
<1>2. build_mcp_auth(r.input) = r.input
  BY DEF build_mcp_auth
<1>3. CASE m = r
  <2>1. deserialize_optional_fwmark_field(r.input) = r.input
    BY <1>1 DEF deserialize_optional_fwmark_field
  <2>2. r.table # "zones" => Plain(r.table, r.op, r.input) = r.input
    BY <1>2, <2>1, Zenon DEF Plain
  <2> QED  BY <1>1, <1>3, <2>2
<1>4. CASE m # r
  <2>1. /\ r.op = "update" /\ Given(r.input, "fwmark") /\ r.input.fwmark = None
        /\ m = [r EXCEPT !.input = [r.input EXCEPT !.fwmark = NoneText]]
    BY <1>4, Zenon DEF McpForms
  <2> DEFINE in == [r.input EXCEPT !.fwmark = NoneText]
  <2>2. m.table = r.table /\ m.op = r.op /\ m.key = r.key /\ m.header = r.header /\ m.input = in
    BY <1>1, <2>1, Zenon
  <2>3. r.table = "servers"
    BY <1>1, <2>1, Zenon DEF WellFormed
  <2>4. /\ in = [f \in DOMAIN in |-> in[f]] /\ DOMAIN in = DOMAIN r.input
        /\ in.fwmark = NoneText /\ "fwmark" \in DOMAIN in
        /\ \A f \in DOMAIN r.input : f # "fwmark" => in[f] = r.input[f]
    BY <2>1, Zenon DEF Given
  <2>5. r.input = [f \in DOMAIN r.input |-> r.input[f]]
    BY <1>1, Zenon DEF WellFormed
  <2> HIDE DEF in
  <2>6. deserialize_optional_fwmark_field(in) = r.input
    <3>1. deserialize_optional_fwmark_field(in) = [in EXCEPT !.fwmark = None]
      BY <2>4, Zenon DEF deserialize_optional_fwmark_field, Given
    <3>2. [in EXCEPT !.fwmark = None] = r.input
      BY <2>1, <2>4, <2>5, Zenon
    <3> QED  BY <3>1, <3>2
  <2>7. Plain(m.table, m.op, m.input) = r.input
    BY <1>2, <2>1, <2>2, <2>3, <2>6, Zenon DEF Plain
  <2>8. WellFormed(m.table, m.op, m.input)
    <3>1. /\ r.table \in DOMAIN Routes /\ r.op \in Routes[r.table]
          /\ r.op = "add" => Required(r.table) \subseteq DOMAIN in
      BY <1>1, <2>4, Zenon DEF WellFormed
    <3>2. \A f \in DOMAIN in : in[f] = None => f \in Nullable
      BY <1>1, <2>4, Zenon DEF WellFormed, Nullable
    <3>3. Given(in, "servers") => \A i \in DOMAIN in.servers : Given(in.servers[i], "protocol")
      BY <1>1, <2>4, Zenon DEF WellFormed, Given
    <3> QED  BY <2>2, <2>3, <2>4, <3>1, <3>2, <3>3, Zenon DEF WellFormed
  <2> QED  BY <2>2, <2>3, <2>7, <2>8, Zenon
<1> QED  BY <1>3, <1>4, Zenon

LEMMA SameOperation ==
  ASSUME NEW d, NEW r \in Requests, NEW m \in McpForms(r),
         ~(Given(r.input, "authentication") /\ r.input.authentication = NoAuth)
  PROVE  Core(d, m.table, m.op, m.key, Plain(m.table, m.op, m.input))
           = Core(d, r.table, r.op, r.key, r.input)
<1>1. /\ m.table = r.table /\ m.op = r.op /\ m.key = r.key
      /\ WellFormed(m.table, m.op, m.input)
      /\ r.table # "zones" => Plain(m.table, m.op, m.input) = r.input
      /\ r.table = "zones" => m.input = r.input
  BY FormsAre, Zenon
<1>2. CASE r.table # "zones"
  BY <1>1, <1>2, Zenon
<1>3. CASE r.table = "zones"
  <2>1. Plain(m.table, m.op, m.input) = mcp_server_to_input(r.input)
    BY <1>1, <1>3, Zenon DEF Plain
  <2>2. CoreZones(d, r.op, r.key, mcp_server_to_input(r.input)) = CoreZones(d, r.op, r.key, r.input)
    BY <1>1, <1>3, ZonesAlike
  <2> QED  BY <1>1, <1>3, <2>1, <2>2, Zenon DEF Core
<1> QED  BY <1>2, <1>3, Zenon

(* The HTTP API and the MCP tools are two faces of the same operations:    *)
(* for any database and any request, with a mark as null or as "none", and *)
(* with the servers of a zone with or without an authentication.           *)
THEOREM FacesAlwaysAgree == Spec => []FacesAgree
<1>1. Valid(db) => FacesAgree
  <2> SUFFICES ASSUME Valid(db), NEW r \in Requests,
                      ~(Given(r.input, "authentication") /\ r.input.authentication = NoAuth),
                      NEW m \in McpForms(r)
               PROVE  /\ McpHandler(db, m).db = api_router(db, r).db
                      /\ McpHandler(db, m).body = api_router(db, r).body
                      /\ McpHandler(db, m).code < 300 <=> api_router(db, r).code < 300
    BY Zenon DEF FacesAgree
  <2>1. WellFormed(r.table, r.op, r.input) /\ WellFormed(m.table, m.op, m.input) /\ m.header = r.header
    BY RequestsAssumption, FormsAre, Zenon
  <2>2. CASE ~bearer_auth_middleware(r)
    <3>1. ~bearer_auth_middleware(m)
      BY <2>1, <2>2, Zenon DEF bearer_auth_middleware
    <3> QED  BY <2>2, <3>1, Unauthorized
  <2>3. CASE bearer_auth_middleware(r)
    <3> DEFINE res == Core(db, r.table, r.op, r.key, r.input)
    <3>1. bearer_auth_middleware(m)
      BY <2>1, <2>3, Zenon DEF bearer_auth_middleware
    <3>2. McpHandler(db, m) = Reply(res)
      <4>1. McpHandler(db, m) = Reply(Core(db, m.table, m.op, m.key, Plain(m.table, m.op, m.input)))
        BY <2>1, <3>1, McpIsCore, Zenon
      <4>2. Core(db, m.table, m.op, m.key, Plain(m.table, m.op, m.input)) = res
        BY SameOperation, Zenon
      <4> QED  BY <4>1, <4>2, Zenon
    <3>3. PICK ok \in {200, 201} : api_router(db, r) = Response(res, ok)
      BY <2>1, <2>3, HttpIsCore
    <3>4. Sound(db, res)
      BY <2>1, CoreSound, StaysComplete
    <3> HIDE DEF res
    <3>5. /\ Response(res, ok).db = res.db /\ Response(res, ok).body = res.body
          /\ Reply(res).db = res.db /\ Reply(res).body = res.body
          /\ res.status = "ok" => Response(res, ok).code = ok /\ Reply(res).code = 200
          /\ res.status # "ok" => Response(res, ok).code \in {400, 404} /\ Reply(res).code = 400
      BY <3>4, Codes
    <3>6. /\ Response(res, ok).code < 300 <=> res.status = "ok"
          /\ Reply(res).code < 300 <=> res.status = "ok"
      BY <3>5
    <3> QED  BY <3>2, <3>3, <3>5, <3>6
  <2> QED  BY <2>2, <2>3, Zenon
<1> QED  BY <1>1, ValidHolds, PTL

-----------------------------------------------------------------------------
(* Lengths of time, for machine words of any width.  The provers do not    *)
(* know the powers of two: what they need of the two that bound a word is  *)
(* a hypothesis.                                                           *)

\* A number below the modulus is its own remainder.
LEMMA SmallRemainder ==
  ASSUME NEW w \in Nat \ {0}, NEW x \in Nat, x < w
  PROVE  x % w = x
  OBVIOUS

\* What the products of the four units are.
LEMMA Factors ==
  /\ DOMAIN Factor = {"s", "m", "h", "d"}
  /\ Factor["s"] = 1 /\ Factor["m"] = 60 /\ Factor["h"] = 3600 /\ Factor["d"] = 86400
  BY DEF Factor

(* Lengths of time through the database, src/use_cases/seed.rs,            *)
(* server_operations.rs and config_from_db.rs: whatever number and unit a  *)
(* text has, an interval whose seconds fit a signed word and a time to     *)
(* live that a call accepted are read back from their rows as the same     *)
(* duration, and the reader of filtering/mod.rs and that of acme/mod.rs    *)
(* give a text the same meaning, also where the product wraps.             *)
THEOREM DurationsSurvive ==
  ASSUME NEW num \in Int \cup {NotANumber}, NEW unit \in Units, NotANumber \notin Int,
         2^(Width - 1) \in Nat \ {0}, 2^Width = 2 * 2^(Width - 1)
  PROVE  /\ IntervalSurvivesDatabase(Text(num, unit))
         /\ TtlSurvivesDatabase(Text(num, unit))
         /\ ReadersAgree(Text(num, unit))
<1> DEFINE t == Text(num, unit)
<1> DEFINE Half == 2^(Width - 1)
<1> DEFINE Word == 2^Width
<1>w. Half \in Nat \ {0} /\ Word = 2 * Half /\ Word \in Nat \ {0} /\ Half < Word
  OBVIOUS
<1>t. t.num = num /\ t.unit = unit
  BY DEF Text
\* A number of seconds that fits a signed word is read back from its row.
<1>r. ASSUME NEW secs \in Nat, secs < Half
      PROVE  parse_interval(FromRow(secs)) = secs
  <2>1. FromRow(secs).num = secs /\ FromRow(secs).unit = "s"
    BY DEF FromRow, Text
  <2>2. IsU64(secs)
    BY <1>r, <1>w DEF IsU64
  <2>3. secs * Factor["s"] = secs
    BY Factors
  <2>4. secs % Word = secs
    BY <1>r, <1>w, SmallRemainder
  <2> QED
    BY <2>1, <2>2, <2>3, <2>4, Factors DEF parse_interval, AsU64
<1>1. ReadersAgree(t)
  BY Factors DEF ReadersAgree, parse_duration, parse_interval
<1>2. TtlSurvivesDatabase(t)
  <2> SUFFICES ASSUME parse_cache_ttl_secs(t) # Err
               PROVE  parse_interval(FromRow(parse_cache_ttl_secs(t))) = parse_interval(t)
    BY DEF TtlSurvivesDatabase
  <2>1. IsI64(parse_interval(t)) /\ parse_cache_ttl_secs(t) = parse_interval(t) /\ parse_interval(t) # Err
    BY DEF parse_cache_ttl_secs
  <2>2. IsU64(num) /\ unit \in DOMAIN Factor /\ parse_interval(t) = AsU64(num * Factor[unit])
    BY <2>1, <1>t, Zenon DEF parse_interval
  <2>3. num \in Nat
    BY <2>2 DEF IsU64
  <2>4. num * Factor[unit] \in Nat
    BY <2>2, <2>3, Factors
  <2>5. parse_interval(t) \in Nat
    BY <2>2, <2>4, <1>w DEF AsU64
  <2>6. parse_interval(t) < Half
    BY <2>1, Zenon DEF IsI64
  <2> QED
    BY <2>1, <2>5, <2>6, <1>r, Zenon
<1>3. IntervalSurvivesDatabase(t)
  <2> SUFFICES ASSUME unit \in {"s", "m", "h"}, IsU64(num), IsI64(num * Factor[unit])
               PROVE  parse_interval(FromRow(parse_interval_secs(t))) = parse_interval(t)
    BY <1>t, Zenon DEF IntervalSurvivesDatabase
  <2> DEFINE p == num * Factor[unit]
  <2>1. num \in Nat
    BY DEF IsU64
  <2>2. p \in Nat /\ num <= p
    BY <2>1, Factors
  <2>3. p < Half
    BY Zenon DEF IsI64
  <2>4. IsI64(num)
    <3>1. num < Half /\ num >= -Half
      BY <2>1, <2>2, <2>3, <1>w
    <3> QED
      BY <3>1, <2>1 DEF IsI64
  <2>5. p % Word = p
    <3>1. p < Word
      BY <2>2, <2>3, <1>w
    <3> HIDE DEF p, Word
    <3> QED
      BY <2>2, <3>1, <1>w, SmallRemainder, Zenon
  <2>6. AsI64(p) = p
    BY <2>3, <2>5, Zenon DEF AsI64
  <2>7. parse_interval_secs(t) = p
    BY <2>4, <2>6, <1>t, Zenon DEF parse_interval_secs
  <2>8. parse_interval(t) = p
    BY <2>5, <1>t, Factors DEF parse_interval, AsU64
  <2> QED
    BY <2>2, <2>3, <2>7, <2>8, <1>r, Zenon
<1> QED
  BY <1>1, <1>2, <1>3
=============================================================================
