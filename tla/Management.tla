---------------------------- MODULE Management ----------------------------
(***************************************************************************)
(* What the management calls do to the database: ServerOperations of       *)
(* src/use_cases/server_operations.rs, reached through the HTTP API        *)
(* (src/interface_adapters/listeners/http.rs) and through the tools of the *)
(* MCP server (mcp.rs).  Here a call is one step; its statements, and      *)
(* calls that overlap, are in ConfigReload.                                *)
(*                                                                         *)
(* An input is a function from the fields that the caller gave.  A row is  *)
(* a function from all fields of its table.  None is the value of a field  *)
(* that holds nothing; in an input it is JSON's null.                      *)
(***************************************************************************)
EXTENDS Durations, FiniteSets

CONSTANTS
  None,
  NoneText,  \* the text "none" in the place of a number
  Token,     \* the API token of the configuration, or None
  Requests,  \* [op, table, key, input, header]: what callers may ask
  MAX_I32,   \* 2^31 - 1 in the code
  Lists,     \* the lists of the filter engine
  QueryLogging  \* whether there is a query log

VARIABLE db  \* the tables: functions from keys to rows; repos: there is a database;
             \* engine: the flag, and the lists switched off and asked to refresh

Empty == [scheme |-> "none", host |-> ""]  \* the empty address

NoAuth == [token |-> None, username |-> None, password |-> None]

\* What a call returns, what it leaves behind, and what it shows.
Show(d, body) == [status |-> "ok", db |-> d, body |-> body]

Done(d) == Show(d, None)

Refused(status, d) == [status |-> status, db |-> d, body |-> None]

\* Letters, digits, "-" and "_"; "a b" stands for the texts with something else.
validate_list_name(name) == name # "" /\ name # "a b"

validate_zone_name(zone) == zone # "" /\ zone # "a b"

validate_url(url) == url.scheme \in {"http", "https", "file"}

validate_list_type(type) == type \in {"adguard", "hosts", "rpz", "domains", "wildcard"}

validate_upstream_protocol(p) == p \in {"dns", "dot", "doh", "doq", "recursive"}

validate_protocol(p) == p \in {"dns", "dot", "doh", "doq", "recursive", "json"}

validate_upstream_strategy(s) == s \in {"round_robin", "random", "failover"}

\* bs is a sequence of addresses; those with the scheme "ip" parse.
validate_bootstrap_resolvers(bs) == bs # <<>> /\ \A i \in DOMAIN bs : bs[i].scheme = "ip"

validate_resolver_cache_bounds(min, max) == min = None \/ max = None \/ min <= max

validate_upstream_address(protocol, a) ==
  a # Empty /\ (protocol = "doh" => a.scheme = "https" /\ a.host # "")

validate_bind_address(a) == a = None \/ a.scheme = "ip"

validate_sort_order(n) == n >= 0

parse_fwmark(n) == n = None \/ n <= MAX_I32

validate_allowed_type(t) == t \in {"forward", "reverse", "reverse-aggregate"}

-----------------------------------------------------------------------------
Given(input, field) == field \in DOMAIN input

\* The fields of f, and those of g that f does not have.
f ++ g == [x \in DOMAIN f \cup DOMAIN g |-> IF x \in DOMAIN f THEN f[x] ELSE g[x]]

Put(d, table, key, row) == [d EXCEPT ![table] = [k \in {key} |-> row] ++ @]

Without(f, key) == [x \in DOMAIN f \ {key} |-> f[x]]

\* Converts the texts of durations in an input to what is stored.
Stored(input, field, parse(_)) ==
  IF Given(input, field) /\ input[field] # None
  THEN [input EXCEPT ![field] = parse(@)] ELSE input

add_filter_list(d, kind, input) ==
  LET row == Without(Stored(input, "interval", parse_interval_secs), "name")
               ++ [kind |-> kind, interval |-> DEFAULT_INTERVAL, enabled |-> TRUE, list_type |-> "adguard"]
  IN IF ~(validate_list_name(input.name) /\ validate_url(row.url) /\ validate_list_type(row.list_type))
     THEN Refused("InvalidInput", d)
     ELSE IF ~d.repos THEN Refused("Unavailable", d)
     ELSE IF input.name \in DOMAIN d.lists THEN Refused("InvalidInput", d)
     ELSE Done(Put(d, "lists", input.name, row))

\* Mutant: the row is written before the type is looked at.
update_filter_list_Early(d, name, input) ==
  IF ~d.repos THEN Refused("Unavailable", d)
  ELSE IF name \notin DOMAIN d.lists THEN Refused("NotFound", d)
  ELSE IF Given(input, "list_type") /\ ~validate_list_type(input.list_type)
  THEN Refused("InvalidInput", Put(d, "lists", name, [d.lists[name] EXCEPT !.enabled = ~@]))
  ELSE Done(Put(d, "lists", name, Stored(input, "interval", parse_interval_secs) ++ d.lists[name]))

\* Any list, whatever its kind.
update_filter_list(d, name, input) ==
  IF ~d.repos THEN Refused("Unavailable", d)
  ELSE IF name \notin DOMAIN d.lists THEN Refused("NotFound", d)
  ELSE IF \/ Given(input, "url") /\ ~validate_url(input.url)
          \/ Given(input, "list_type") /\ ~validate_list_type(input.list_type)
  THEN Refused("InvalidInput", d)
  ELSE Done(Put(d, "lists", name, Stored(input, "interval", parse_interval_secs) ++ d.lists[name]))

\* delete_filter_list, delete_upstream_server, delete_zone, delete_zone_discovery
DeleteRow(d, table, key) ==
  IF ~d.repos THEN Refused("Unavailable", d)
  ELSE IF key \notin DOMAIN d[table] THEN Refused("NotFound", d)
  ELSE Done([d EXCEPT ![table] = Without(@, key)])

update_resolver_config(d, input) ==
  LET in  == Stored(Stored(input, "dns_cache_min_ttl", parse_cache_ttl_secs),
                    "dns_cache_max_ttl", parse_cache_ttl_secs)
      row == in ++ d.settings
  IN IF ~d.repos THEN Refused("Unavailable", d)
     ELSE IF /\ Given(in, "strategy") => validate_upstream_strategy(in.strategy)
             /\ Given(in, "bootstrap_resolvers") => validate_bootstrap_resolvers(in.bootstrap_resolvers)
             /\ row.dns_cache_min_ttl # Err /\ row.dns_cache_max_ttl # Err
             /\ validate_resolver_cache_bounds(row.dns_cache_min_ttl, row.dns_cache_max_ttl)
     THEN Done([d EXCEPT !.settings = row])
     ELSE Refused("InvalidInput", d)

\* A new server comes after as many as there are.
add_upstream_server(d, id, input) ==
  LET row == input ++ [f \in {"max_hops", "nameserver_ip_family", "root_hints_path", "root_key_path",
                              "bind_address", "fwmark"} |-> None]
               ++ [enabled |-> TRUE, dnssec |-> TRUE, authentication |-> NoAuth,
                   sort_order |-> Cardinality(DOMAIN d.servers)]
  IN IF ~(/\ validate_upstream_protocol(row.protocol)
          /\ validate_upstream_address(row.protocol, row.address)
          /\ validate_bind_address(row.bind_address) /\ parse_fwmark(row.fwmark))
     THEN Refused("InvalidInput", d)
     ELSE IF ~d.repos THEN Refused("Unavailable", d)
     ELSE IF ~validate_sort_order(row.sort_order) THEN Refused("InvalidInput", d)
     ELSE Done(Put(d, "servers", id, row))

\* Mutant: the address is checked only when it is given.
update_upstream_server_GivenAddress(d, id, input) ==
  LET row == input ++ d.servers[id]
  IN IF ~d.repos THEN Refused("Unavailable", d)
     ELSE IF id \notin DOMAIN d.servers THEN Refused("NotFound", d)
     ELSE IF /\ validate_upstream_protocol(row.protocol)
             /\ Given(input, "address") => validate_upstream_address(row.protocol, row.address)
             /\ validate_bind_address(row.bind_address) /\ parse_fwmark(row.fwmark)
             /\ validate_sort_order(row.sort_order)
     THEN Done(Put(d, "servers", id, row))
     ELSE Refused("InvalidInput", d)

\* The stored address must also fit a new protocol.
update_upstream_server(d, id, input) ==
  LET row == input ++ d.servers[id]
  IN IF ~d.repos THEN Refused("Unavailable", d)
     ELSE IF id \notin DOMAIN d.servers THEN Refused("NotFound", d)
     ELSE IF /\ Given(input, "protocol") => validate_upstream_protocol(input.protocol)
             /\ validate_upstream_address(row.protocol, row.address)
             /\ Given(input, "bind_address") => validate_bind_address(input.bind_address)
             /\ Given(input, "fwmark") => parse_fwmark(input.fwmark)
             /\ Given(input, "sort_order") => validate_sort_order(input.sort_order)
     THEN Done(Put(d, "servers", id, row))
     ELSE Refused("InvalidInput", d)

\* The rows of zone_servers: those before the first with a protocol that is refused.
ZoneServers(servers) ==
  [i \in {i \in DOMAIN servers : \A j \in DOMAIN servers : j <= i => validate_protocol(servers[j].protocol)} |->
     servers[i] ++ [enabled |-> TRUE, authentication |-> NoAuth]]

\* What has been written stays when a server is refused.
WriteZone(d, zone, row, servers) ==
  LET kept == ZoneServers(servers)
      to   == Put(d, "zones", zone, [row EXCEPT !.servers = kept])
  IN IF DOMAIN kept = DOMAIN servers THEN Done(to) ELSE Refused("InvalidInput", to)

add_zone(d, input) ==
  LET row == Without(input, "zone") ++ [enabled |-> TRUE, bypass_filter |-> FALSE,
                                        fallback_to_default_resolvers |-> FALSE,
                                        strategy |-> None, servers |-> <<>>]
  IN IF ~validate_zone_name(input.zone) THEN Refused("InvalidInput", d)
     ELSE IF ~d.repos THEN Refused("Unavailable", d)
     ELSE IF input.zone \in DOMAIN d.zones THEN Refused("InvalidInput", d)
     ELSE WriteZone(d, input.zone, row, row.servers)

update_zone(d, zone, input) ==
  IF ~d.repos THEN Refused("Unavailable", d)
  ELSE IF zone \notin DOMAIN d.zones THEN Refused("NotFound", d)
  ELSE IF Given(input, "servers") THEN WriteZone(d, zone, input ++ d.zones[zone], input.servers)
  ELSE Done(Put(d, "zones", zone, input ++ d.zones[zone]))

add_zone_discovery(d, id, input) ==
  LET row == input ++ [enabled |-> TRUE, check_interval |-> None, allowed_types |-> <<"forward", "reverse">>,
                       bypass_filter |-> FALSE, fallback_to_default_resolvers |-> FALSE,
                       authentication |-> NoAuth]
  IN IF ~(validate_url(row.address) /\ \A i \in DOMAIN row.allowed_types : validate_allowed_type(row.allowed_types[i]))
     THEN Refused("InvalidInput", d)
     ELSE IF ~d.repos THEN Refused("Unavailable", d)
     ELSE Done(Put(d, "sources", id, row))

update_zone_discovery(d, id, input) ==
  IF ~d.repos THEN Refused("Unavailable", d)
  ELSE IF id \notin DOMAIN d.sources THEN Refused("NotFound", d)
  ELSE IF /\ Given(input, "address") => validate_url(input.address)
          /\ Given(input, "allowed_types") =>
               \A i \in DOMAIN input.allowed_types : validate_allowed_type(input.allowed_types[i])
  THEN Done(Put(d, "sources", id, input ++ d.sources[id]))
  ELSE Refused("InvalidInput", d)

-----------------------------------------------------------------------------
(* Calls that read.                                                        *)

list_filter_lists(d, kind) ==
  IF ~d.repos THEN Refused("Unavailable", d)
  ELSE Show(d, [n \in {x \in DOMAIN d.lists : d.lists[x].kind = kind} |-> d.lists[n]])

\* list_upstream_servers, get_resolver_config, list_zone_configs, list_zone_discovery
ReadTable(d, table) == IF ~d.repos THEN Refused("Unavailable", d) ELSE Show(d, d[table])

-----------------------------------------------------------------------------
(* Calls on the engine.                                                    *)

filter_status(d) == Show(d, d.engine.on)

set_filtering(d, enabled) == Show([d EXCEPT !.engine.on = enabled], enabled)

list_filters(d) == Show(d, [l \in Lists |-> l \notin d.engine.off])

refresh_list(d, name) ==
  IF name \in Lists THEN Done([d EXCEPT !.engine.refreshing = @ \cup {name}]) ELSE Refused("NotFound", d)

refresh_all_lists(d) == Show([d EXCEPT !.engine.refreshing = Lists], Lists)

enable_list(d, name) ==
  IF name \in Lists THEN Done([d EXCEPT !.engine.off = @ \ {name}]) ELSE Refused("NotFound", d)

disable_list(d, name) ==
  IF name \in Lists THEN Done([d EXCEPT !.engine.off = @ \cup {name}]) ELSE Refused("NotFound", d)

get_stats(d) == Show(d, [filtering_enabled |-> d.engine.on, lists |-> list_filters(d).body])

get_query_log(d) == IF QueryLogging THEN Show(d, "entries") ELSE Refused("Unavailable", d)

-----------------------------------------------------------------------------
(* The HTTP API.  The body of a request is the input.                      *)

op_error_to_response(status) ==
  CASE status = "ok" -> 200
    [] status \in {"NotFound", "Unavailable"} -> 404
    [] status = "InvalidInput" -> 400

Response(result, ok) ==
  [code |-> IF result.status = "ok" THEN ok ELSE op_error_to_response(result.status),
   db |-> result.db, body |-> result.body]

handle_blocklists(d, r) ==
  CASE r.op = "add"    -> Response(add_filter_list(d, "block", r.input), 201)
    [] r.op = "update" -> Response(update_filter_list(d, r.key, r.input), 200)
    [] r.op = "delete" -> Response(DeleteRow(d, "lists", r.key), 200)
    [] r.op = "list"   -> Response(list_filter_lists(d, "block"), 200)

handle_allowlists(d, r) ==
  CASE r.op = "add"    -> Response(add_filter_list(d, "allow", r.input), 201)
    [] r.op = "update" -> Response(update_filter_list(d, r.key, r.input), 200)
    [] r.op = "delete" -> Response(DeleteRow(d, "lists", r.key), 200)
    [] r.op = "list"   -> Response(list_filter_lists(d, "allow"), 200)

handle_resolver_config(d, r) ==
  CASE r.op = "update" -> Response(update_resolver_config(d, r.input), 200)
    [] r.op = "list"   -> Response(ReadTable(d, "settings"), 200)

handle_upstreams(d, r) ==
  CASE r.op = "add"    -> Response(add_upstream_server(d, r.key, r.input), 201)
    [] r.op = "update" -> Response(update_upstream_server(d, r.key, r.input), 200)
    [] r.op = "delete" -> Response(DeleteRow(d, "servers", r.key), 200)
    [] r.op = "list"   -> Response(ReadTable(d, "servers"), 200)

handle_zones(d, r) ==
  CASE r.op = "add"    -> Response(add_zone(d, r.input), 201)
    [] r.op = "update" -> Response(update_zone(d, r.key, r.input), 200)
    [] r.op = "delete" -> Response(DeleteRow(d, "zones", r.key), 200)
    [] r.op = "list"   -> Response(ReadTable(d, "zones"), 200)

handle_zone_discovery(d, r) ==
  CASE r.op = "add"    -> Response(add_zone_discovery(d, r.key, r.input), 201)
    [] r.op = "update" -> Response(update_zone_discovery(d, r.key, r.input), 200)
    [] r.op = "delete" -> Response(DeleteRow(d, "sources", r.key), 200)
    [] r.op = "list"   -> Response(ReadTable(d, "sources"), 200)

handle_filtering(d, r) ==
  CASE r.op = "disable" -> Response(set_filtering(d, FALSE), 200)
    [] r.op = "enable"  -> Response(set_filtering(d, TRUE), 200)
    [] r.op = "status"  -> Response(filter_status(d), 200)

handle_lists(d, r) ==
  CASE r.op = "list"        -> Response(list_filters(d), 200)
    [] r.op = "refresh_all" -> Response(refresh_all_lists(d), 200)
    [] r.op = "refresh"     -> Response(refresh_list(d, r.key), 200)
    [] r.op = "disable"     -> Response(disable_list(d, r.key), 200)
    [] r.op = "enable"      -> Response(enable_list(d, r.key), 200)

handle_stats_and_log(d, r) ==
  CASE r.op = "stats" -> Response(get_stats(d), 200)
    [] r.op = "log"   -> Response(get_query_log(d), 200)

\* Without a token in the configuration everybody may call.
bearer_auth_middleware(r) == Token = None \/ r.header = Token

api_router(d, r) ==
  IF ~bearer_auth_middleware(r) THEN [code |-> 401, db |-> d, body |-> None]
  ELSE CASE r.table = "blocklists"  -> handle_blocklists(d, r)
         [] r.table = "allowlists"  -> handle_allowlists(d, r)
         [] r.table = "settings"    -> handle_resolver_config(d, r)
         [] r.table = "servers"     -> handle_upstreams(d, r)
         [] r.table = "zones"       -> handle_zones(d, r)
         [] r.table = "sources"     -> handle_zone_discovery(d, r)
         [] r.table = "filtering"   -> handle_filtering(d, r)
         [] r.table = "filters"     -> handle_lists(d, r)
         [] r.table = "system"      -> handle_stats_and_log(d, r)

-----------------------------------------------------------------------------
(* The MCP tools.  They take the authentication as three fields of their   *)
(* own, and a firewall mark as a number, null or the text "none".          *)

\* Mutant: what is not given is given as nothing.
build_mcp_auth_Always(input) == IF Given(input, "authentication") THEN input ELSE [authentication |-> NoAuth] ++ input

\* None of the three fields: no authentication is given.
build_mcp_auth(input) ==
  IF Given(input, "authentication") /\ input.authentication = NoAuth
  THEN Without(input, "authentication") ELSE input

deserialize_optional_fwmark_field(input) ==
  IF Given(input, "fwmark") /\ input.fwmark = NoneText THEN [input EXCEPT !.fwmark = None] ELSE input

Reply(result) ==
  [code |-> IF result.status = "ok" THEN 200 ELSE 400, db |-> result.db, body |-> result.body]

mcp_blocklists(d, r) ==
  CASE r.op = "add"    -> Reply(add_filter_list(d, "block", r.input))
    [] r.op = "update" -> Reply(update_filter_list(d, r.key, r.input))
    [] r.op = "delete" -> Reply(DeleteRow(d, "lists", r.key))
    [] r.op = "list"   -> Reply(list_filter_lists(d, "block"))

mcp_allowlists(d, r) ==
  CASE r.op = "add"    -> Reply(add_filter_list(d, "allow", r.input))
    [] r.op = "update" -> Reply(update_filter_list(d, r.key, r.input))
    [] r.op = "delete" -> Reply(DeleteRow(d, "lists", r.key))
    [] r.op = "list"   -> Reply(list_filter_lists(d, "allow"))

mcp_resolver_config(d, r) ==
  CASE r.op = "update" -> Reply(update_resolver_config(d, r.input))
    [] r.op = "list"   -> Reply(ReadTable(d, "settings"))

\* Mutant: null counts as not given.
mcp_upstreams_NullIsAbsent(d, r) ==
  LET in   == build_mcp_auth(deserialize_optional_fwmark_field(r.input))
      some == [f \in {x \in DOMAIN in : in[x] # None} |-> in[f]]
  IN CASE r.op = "add"    -> Reply(add_upstream_server(d, r.key, some))
       [] r.op = "update" -> Reply(update_upstream_server(d, r.key, some))
       [] r.op = "delete" -> Reply(DeleteRow(d, "servers", r.key))
       [] r.op = "list"   -> Reply(ReadTable(d, "servers"))

mcp_upstreams(d, r) ==
  CASE r.op = "add"    -> Reply(add_upstream_server(d, r.key, build_mcp_auth(r.input)))
    [] r.op = "update" ->
         Reply(update_upstream_server(d, r.key, build_mcp_auth(deserialize_optional_fwmark_field(r.input))))
    [] r.op = "delete" -> Reply(DeleteRow(d, "servers", r.key))
    [] r.op = "list"   -> Reply(ReadTable(d, "servers"))

mcp_server_to_input(input) ==
  IF ~Given(input, "servers") THEN input
  ELSE [input EXCEPT !.servers = [i \in DOMAIN @ |-> build_mcp_auth(@[i])]]

mcp_zones(d, r) ==
  CASE r.op = "add"    -> Reply(add_zone(d, mcp_server_to_input(r.input)))
    [] r.op = "update" -> Reply(update_zone(d, r.key, mcp_server_to_input(r.input)))
    [] r.op = "delete" -> Reply(DeleteRow(d, "zones", r.key))
    [] r.op = "list"   -> Reply(ReadTable(d, "zones"))

mcp_zone_discovery(d, r) ==
  CASE r.op = "add"    -> Reply(add_zone_discovery(d, r.key, build_mcp_auth(r.input)))
    [] r.op = "update" -> Reply(update_zone_discovery(d, r.key, build_mcp_auth(r.input)))
    [] r.op = "delete" -> Reply(DeleteRow(d, "sources", r.key))
    [] r.op = "list"   -> Reply(ReadTable(d, "sources"))

filter_toggle(d, r) ==
  Reply(IF r.op = "status" THEN filter_status(d) ELSE set_filtering(d, r.op = "enable"))

\* All lists without a name.
refresh_lists(d, r) ==
  CASE r.op = "list"        -> Reply(list_filters(d))
    [] r.op = "refresh"     -> Reply(refresh_list(d, r.key))
    [] r.op = "refresh_all" -> Reply(refresh_all_lists(d))

mcp_lists(d, r) ==
  CASE r.op = "enable"  -> Reply(enable_list(d, r.key))
    [] r.op = "disable" -> Reply(disable_list(d, r.key))
    [] OTHER            -> refresh_lists(d, r)

mcp_stats_and_log(d, r) ==
  CASE r.op = "stats" -> Reply(get_stats(d))
    [] r.op = "log"   -> Reply(get_query_log(d))

McpHandler(d, r) ==
  IF ~bearer_auth_middleware(r) THEN [code |-> 401, db |-> d, body |-> None]
  ELSE CASE r.table = "blocklists"  -> mcp_blocklists(d, r)
         [] r.table = "allowlists"  -> mcp_allowlists(d, r)
         [] r.table = "settings"    -> mcp_resolver_config(d, r)
         [] r.table = "servers"     -> mcp_upstreams(d, r)
         [] r.table = "zones"       -> mcp_zones(d, r)
         [] r.table = "sources"     -> mcp_zone_discovery(d, r)
         [] r.table = "filtering"   -> filter_toggle(d, r)
         [] r.table = "filters"     -> mcp_lists(d, r)
         [] r.table = "system"      -> mcp_stats_and_log(d, r)

-----------------------------------------------------------------------------
(* What callers can ask: there is a route and a tool for it, and the input *)
(* can be deserialized.                                                    *)

Edits == {"add", "update", "delete", "list"}

Routes ==
  [blocklists |-> Edits, allowlists |-> Edits, servers |-> Edits, zones |-> Edits, sources |-> Edits,
   settings |-> {"update", "list"}, filtering |-> {"enable", "disable", "status"},
   filters |-> {"list", "refresh", "refresh_all", "enable", "disable"}, system |-> {"stats", "log"}]

\* The fields of the input structs that are no Option and have no default.
Required(table) ==
  CASE table \in {"blocklists", "allowlists"} -> {"name", "url"}
    [] table = "servers" -> {"protocol", "address"}
    [] table = "zones"   -> {"zone"}
    [] table = "sources" -> {"address"}

\* Elsewhere null counts as not given.
Nullable == {"bind_address", "fwmark", "dns_cache_min_ttl", "dns_cache_max_ttl"}

WellFormed(table, op, input) ==
  /\ table \in DOMAIN Routes /\ op \in Routes[table]
  /\ input = [f \in DOMAIN input |-> input[f]]
  /\ op = "add" => Required(table) \subseteq DOMAIN input
  /\ \A f \in DOMAIN input : input[f] = None => f \in Nullable
  /\ Given(input, "fwmark") => table = "servers"
  /\ Given(input, "servers") => \A i \in DOMAIN input.servers : Given(input.servers[i], "protocol")

ASSUME RequestsAssumption ==
  \A r \in Requests :
    /\ DOMAIN r = {"op", "table", "key", "input", "header"}
    /\ WellFormed(r.table, r.op, r.input)
    /\ Given(r.input, "fwmark") => r.input.fwmark # NoneText

-----------------------------------------------------------------------------
\* A database that the migrations made, with nothing in it.
Created(table) ==
  IF table = "settings"
  THEN [strategy |-> "round_robin", bootstrap_resolvers |-> <<>>, dns_cache_enabled |-> TRUE,
        dns_cache_min_ttl |-> None, dns_cache_max_ttl |-> None]
  ELSE IF table = "engine" THEN [on |-> TRUE, off |-> {}, refreshing |-> {}]
  ELSE <<>>

Tables == {"lists", "servers", "zones", "sources", "settings", "engine"}

Init ==
  \E repos \in BOOLEAN :
    db = [t \in Tables \cup {"repos"} |-> IF t = "repos" THEN repos ELSE Created(t)]

\* A new row gets an id that no row has.
Fresh(r) == r.op = "add" /\ r.table \in {"servers", "sources"} => r.key \notin DOMAIN db[r.table]

HttpCall == \E r \in Requests : Fresh(r) /\ db' = api_router(db, r).db

McpCall == \E r \in Requests : Fresh(r) /\ db' = McpHandler(db, r).db

Next == HttpCall \/ McpCall

Spec == Init /\ [][Next]_db

-----------------------------------------------------------------------------
(* No sequence of calls stores what a single call would refuse: an update  *)
(* of some fields leaves a row whose fields fit each other, the address    *)
(* its protocol and the bounds of the cache one another.                   *)
StoredRowsAreValid ==
  /\ \A n \in DOMAIN db.lists : validate_url(db.lists[n].url) /\ validate_list_type(db.lists[n].list_type)
  /\ \A i \in DOMAIN db.servers :
       LET s == db.servers[i]
       IN /\ validate_upstream_protocol(s.protocol) /\ validate_upstream_address(s.protocol, s.address)
          /\ validate_bind_address(s.bind_address) /\ parse_fwmark(s.fwmark)
          /\ validate_sort_order(s.sort_order)
  /\ \A i \in DOMAIN db.sources : validate_url(db.sources[i].address)
  /\ validate_resolver_cache_bounds(db.settings.dns_cache_min_ttl, db.settings.dns_cache_max_ttl)

\* The ways to put an input to a tool.
McpForms(r) ==
  {r} \cup (IF r.op = "update" /\ Given(r.input, "fwmark") /\ r.input.fwmark = None
            THEN {[r EXCEPT !.input.fwmark = NoneText]} ELSE {})

(* A request does the same to the database and the engine, shows the same, *)
(* and succeeds or fails alike, through the HTTP API and the MCP tools.    *)
(* Left out is the empty authentication, which clears the stored one over  *)
(* HTTP and which a tool cannot express.                                   *)
FacesAgree ==
  \A r \in Requests :
    Fresh(r) /\ ~(Given(r.input, "authentication") /\ r.input.authentication = NoAuth) =>
      \A m \in McpForms(r) :
        /\ McpHandler(db, m).db = api_router(db, r).db
        /\ McpHandler(db, m).body = api_router(db, r).body
        /\ McpHandler(db, m).code < 300 <=> api_router(db, r).code < 300

RowsOf(d, table) ==
  IF table \in {"blocklists", "allowlists"} THEN d.lists ELSE d[table]

(* "Only provided fields are changed": an update through either face       *)
(* leaves every other field of its row, and every other row, as it was.    *)
OnlyProvidedChange ==
  \A r \in Requests : r.op = "update" /\ r.table # "settings" =>
    \A to \in {api_router(db, r).db, McpHandler(db, r).db} :
      LET before == RowsOf(db, r.table)
          after  == RowsOf(to, r.table)
      IN /\ DOMAIN after = DOMAIN before
         /\ \A k \in DOMAIN before : \A f \in DOMAIN before[k] :
              k # r.key \/ ~Given(r.input, f) => after[k][f] = before[k][f]

(* A call that is answered with an error has changed nothing, except a     *)
(* zone, whose row is written before its servers are looked at.            *)
RefusedChangesNothing ==
  \A r \in Requests : \A answer \in {api_router(db, r), McpHandler(db, r)} :
    Fresh(r) /\ answer.code >= 400 => answer.db = [db EXCEPT !.zones = answer.db.zones]
=============================================================================
