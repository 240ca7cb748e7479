--------------------------- MODULE MCManagement ---------------------------
(***************************************************************************)
(* Management for TLC: the requests.  Every validator meets a value that   *)
(* it refuses.  A behaviour changes one table, as a call touches one only. *)
(***************************************************************************)
EXTENDS Management, TLC

Https == [scheme |-> "https", host |-> "a"]
Http  == [scheme |-> "http", host |-> "a"]
Ftp   == [scheme |-> "ftp", host |-> "a"]
Ip    == [scheme |-> "ip", host |-> "a"]

Auth(token, username) == [token |-> token, username |-> username, password |-> None]

Give(field, values) == {field :> v : v \in values}

And(as, bs) == {a @@ b : a \in as, b \in bs}

Maybe(as) == as \cup {<<>>}

\* Requests with the right token, and one without.
Ask(op, tables, keys, inputs) ==
  [op: {op}, table: tables, key: keys, input: inputs, header: {"secret"}]

ServerFields ==
  Give("max_hops", {3}) \cup Give("bind_address", {Ip, Http})
    \cup Give("fwmark", {5, 9}) \cup Give("sort_order", {2, -1})
    \cup Give("authentication", {Auth("t", None), Auth(None, "u")})

ZoneServerInputs ==
  Give("servers", {<<[protocol |-> "json", address |-> Https]>>,
                   <<[protocol |-> "dns", address |-> Ip, authentication |-> Auth("t", None)],
                     [protocol |-> "x", address |-> Ip]>>})

MCRequests ==
  UNION {
    Ask("add", {"blocklists", "allowlists"}, {"-"},
        And(And(Give("name", {"ads", "more", "a b"}), Give("url", {Https, Ftp})),
            Maybe(Give("list_type", {"rpz", "x"}) \cup Give("interval", {Text(1, "h")})))),
    Ask("update", {"blocklists", "allowlists"}, {"ads", "none"},
        Give("url", {Http, Ftp}) \cup Give("enabled", {FALSE}) \cup Give("interval", {Text(9, "d")})
          \cup And(Give("enabled", {TRUE}), Give("list_type", {"hosts", "x"}))),
    Ask("delete", {"blocklists", "allowlists"}, {"ads", "none"}, {<<>>}),
    Ask("update", {"settings"}, {"-"},
        Give("strategy", {"random", "x"}) \cup Give("bootstrap_resolvers", {<<>>, <<Ip>>, <<Ip, Http>>})
          \cup Give("dns_cache_min_ttl", {None, Text(90, "s"), Text(NotANumber, "s")})
          \cup Give("dns_cache_max_ttl", {None, Text(1, "m"), Text(2, "m"), Text(1, "w")})
          \cup And(Give("dns_cache_min_ttl", {Text(2, "m")}), Give("dns_cache_max_ttl", {Text(2, "m")}))),
    Ask("add", {"servers"}, {"i1", "i2"},
        And(And(Give("protocol", {"dns", "doh", "x"}), Give("address", {Ip, Https, Empty})),
            Maybe(Give("bind_address", {Ip, Http}) \cup Give("fwmark", {9})
                    \cup Give("authentication", {Auth("t", None)}) \cup Give("sort_order", {-1})))),
    Ask("update", {"servers"}, {"i1", "none"},
        ServerFields \cup Give("protocol", {"dns", "doh", "x"}) \cup Give("address", {Ip, Https, Empty})
          \cup And(Give("protocol", {"doh"}), Give("address", {Ip, Https}))
          \cup Give("bind_address", {None}) \cup Give("fwmark", {None})
          \cup Give("authentication", {Auth(None, None)})),
    Ask("delete", {"servers"}, {"i1", "i2"}, {<<>>}),
    Ask("add", {"zones"}, {"-"},
        And(Give("zone", {"lan", "a b"}), Maybe(Give("strategy", {"x"}) \cup ZoneServerInputs))),
    Ask("update", {"zones"}, {"lan"}, Give("bypass_filter", {TRUE}) \cup ZoneServerInputs),
    Ask("delete", {"zones"}, {"lan"}, {<<>>}),
    Ask("add", {"sources"}, {"i1"},
        And(Give("address", {Https, Ftp}), Maybe(Give("allowed_types", {<<"reverse">>, <<"reverse", "x">>})))),
    Ask("update", {"sources"}, {"i1", "i2"},
        Give("address", {Http, Ftp}) \cup Give("allowed_types", {<<>>, <<"x">>})
          \cup Give("authentication", {Auth("t", None), Auth(None, None)})),
    Ask("delete", {"sources"}, {"i1"}, {<<>>}),
    UNION {Ask(op, {"filtering"}, {"-"}, {<<>>}) : op \in {"enable", "disable", "status"}},
    UNION {Ask(op, {"filters"}, {"ads", "more", "none"}, {<<>>}) :
             op \in {"list", "refresh", "refresh_all", "enable", "disable"}},
    Ask("list", {"blocklists", "allowlists", "settings", "servers", "zones", "sources"}, {"-"}, {<<>>}),
    UNION {Ask(op, {"system"}, {"-"}, {<<>>}) : op \in {"stats", "log"}},
    {[op |-> "delete", table |-> "blocklists", key |-> "ads", input |-> <<>>, header |-> "wrong"]}
  }

OneTable == Cardinality({t \in Tables : db[t] # Created(t)}) <= 1

MCSpec == Init /\ [][(HttpCall /\ OneTable') \/ (McpCall /\ OneTable')]_db
=============================================================================
