-------------------------- MODULE UpstreamClients --------------------------
(***************************************************************************)
(* Queries to a group of upstream servers: StrategyUpstreamResolver and    *)
(* InstrumentedUpstreamResolver (src/use_cases/upstream_resolver.rs) over  *)
(* the clients in src/frameworks/upstream: dns_client.rs (UDP, then TCP    *)
(* for what is truncated), dot_client.rs, doh_client.rs and doq_client.rs, *)
(* each of which caches one connection that all queries share, and         *)
(* recursive_resolver.rs.  Servers go away and come back, and close        *)
(* connections whenever they like.                                         *)
(*                                                                         *)
(* A time-out is an error that can come only while the server is in        *)
(* trouble.  A lock is held for one statement only and is not modelled.    *)
(***************************************************************************)
EXTENDS Integers, Sequences, FiniteSets

CONSTANTS
  Queries,   \* the tasks that ask
  Groups,    \* configured groups: a strategy and a sequence of servers
  Servers,   \* positions in a group
  Wrap,      \* 2^64: the counter of the round robin wraps there
  Conns      \* numbers for connections

Resolver == [proto: {"dns", "dot", "doh", "doq", "recursive"}, hostname: BOOLEAN, routable: BOOLEAN]

ASSUME GroupsAssumption ==
  /\ Servers \subseteq Nat \ {0}
  /\ \A g \in Groups : /\ g.strategy \in {"round_robin", "random", "failover"}
                      /\ g.resolvers \in Seq(Resolver)
                      /\ DOMAIN g.resolvers \subseteq Servers
ASSUME WrapAssumption == Wrap \in Nat \ {0}
ASSUME ConnsAssumption == Conns \subseteq Nat \ {0}

VARIABLES
  group,    \* the group, as it was built
  counter,  \* of StrategyUpstreamResolver
  cache,    \* cache[s]: the client's cached connection
  conns,    \* conns[k]: the server of connection k, whether it is open
  up,       \* the servers that are well
  q,        \* q[c]: where the query is: the server it began with, how many it gave up, its connection
  steady,   \* history: the servers that were well with c all the time
  turns     \* history: how many more queries began with each server than with the
            \* one that had fewest (round robin)

vars == <<group, counter, cache, conns, up, q, steady, turns>>

Resolvers == group.resolvers
Strategy == group.strategy
n == Len(Resolvers)
NoConn == 0

Pcs == {"idle", "client", "cached", "connect", "fresh", "answered", "failed"}
Free == [of |-> 0, open |-> FALSE]

Ended(pc) == [pc |-> pc, start |-> 0, i |-> 0, conn |-> NoConn]

\* The server that query c is trying.
Now(c) == ((q[c].start + q[c].i) % n) + 1
ProtoOf(c) == Resolvers[Now(c)].proto

Init ==
  /\ group \in Groups
  /\ counter = 0
  /\ cache = [s \in Servers |-> NoConn]
  /\ conns = [k \in Conns |-> Free]
  /\ up \in SUBSET DOMAIN Resolvers
  /\ q = [c \in Queries |-> Ended("idle")]
  /\ steady = [c \in Queries |-> {}]
  /\ turns = [s \in Servers |-> 0]

\* A connection lives as long as the cache or a query holds it.
Hold(ks, ca, qs) ==
  /\ cache' = ca /\ q' = qs
  /\ conns' = [k \in Conns |->
                 IF (\E s \in Servers : ca[s] = k) \/ (\E c \in Queries : qs[c].conn = k)
                 THEN ks[k] ELSE Free]

\* The servers are watched until the query has its answer.
Watch == steady' = [c \in Queries |-> IF q'[c].pc = "answered" THEN {} ELSE steady[c]]

FreeConns == {k \in Conns : conns[k].of = 0}

-----------------------------------------------------------------------------
(* StrategyUpstreamResolver::resolve.                                      *)

\* One more query begins with s.
Turn(s) ==
  LET t == [turns EXCEPT ![s] = @ + 1]
  IN  IF \A r \in DOMAIN Resolvers : t[r] > 0
      THEN [r \in Servers |-> IF t[r] > 0 THEN t[r] - 1 ELSE 0] ELSE t

\* Mutant: the counter moves on only while the first server is well.
Begin_Stays(c, start) ==
  /\ q[c].pc \in {"idle", "answered", "failed"}
  /\ n = 0 \/ Strategy = "failover" => start = 0
  /\ n > 0 /\ Strategy = "round_robin" => start = counter % n
  /\ n > 0 /\ Strategy = "random" => start \in 0..(n - 1)
  /\ counter' = IF n > 0 /\ Strategy = "round_robin" /\ start + 1 \in up THEN (counter + 1) % Wrap ELSE counter
  /\ turns' = IF n > 0 /\ Strategy = "round_robin" THEN Turn(start + 1) ELSE turns
  /\ q' = [q EXCEPT ![c] = [pc |-> "client", start |-> start, i |-> 0, conn |-> NoConn]]
  /\ steady' = [steady EXCEPT ![c] = {s \in up : Resolvers[s].routable}]
  /\ UNCHANGED <<group, cache, conns, up>>

\* The strategy chooses where to begin; then the others follow in their order.
Begin(c, start) ==
  /\ q[c].pc \in {"idle", "answered", "failed"}
  /\ n = 0 \/ Strategy = "failover" => start = 0
  /\ n > 0 /\ Strategy = "round_robin" => start = counter % n
  /\ n > 0 /\ Strategy = "random" => start \in 0..(n - 1)
  /\ counter' = IF n > 0 /\ Strategy = "round_robin" THEN (counter + 1) % Wrap ELSE counter
  /\ turns' = IF n > 0 /\ Strategy = "round_robin" THEN Turn(start + 1) ELSE turns
  /\ q' = [q EXCEPT ![c] = [pc |-> "client", start |-> start, i |-> 0, conn |-> NoConn]]
  /\ steady' = [steady EXCEPT ![c] = {s \in up : Resolvers[s].routable}]
  /\ UNCHANGED <<group, cache, conns, up>>

\* No server at all.
NoResolvers(c) ==
  /\ n = 0 /\ q[c].pc = "client"
  /\ q' = [q EXCEPT ![c] = Ended("failed")]
  /\ UNCHANGED <<group, counter, cache, conns, up, steady, turns>>

\* Mutant: the last server is left out.
GiveUp_LastSkipped(c) ==
  IF q[c].i + 2 < n THEN [q[c] EXCEPT !.pc = "client", !.i = @ + 1, !.conn = NoConn]
  ELSE Ended("failed")

\* The server's error: the next one is tried, or it is the result.
GiveUp(c) ==
  IF q[c].i + 1 < n THEN [q[c] EXCEPT !.pc = "client", !.i = @ + 1, !.conn = NoConn]
  ELSE Ended("failed")

Answered(c) == Ended("answered")

-----------------------------------------------------------------------------
(* The clients.                                                            *)

\* Well, and reachable from the address and with the mark that are configured.
Well(s) == s \in up /\ Resolvers[s].routable

\* Sockets are bound to the configured address and marked before they connect.
connect_tcp(s) == Well(s)
bind_udp(s) == Well(s)
build_quic_socket(s) == Well(s)

\* DnsUdpTcpClient::resolve_udp and the truncation bit of its answer.
resolve_udp(c) ==
  LET s == Now(c) IN
  /\ q[c].pc = "client" /\ ProtoOf(c) = "dns"
  /\ \/ bind_udp(s) /\ \/ Hold(conns, cache, [q EXCEPT ![c] = Answered(c)])
                       \/ IF cache[s] = NoConn
                          THEN Hold(conns, cache, [q EXCEPT ![c].pc = "connect"])
                          ELSE Hold(conns, cache, [q EXCEPT ![c].pc = "cached", ![c].conn = cache[s]])
     \/ ~bind_udp(s) /\ Hold(conns, cache, [q EXCEPT ![c] = GiveUp(c)])
  /\ Watch
  /\ UNCHANGED <<group, counter, up, turns>>

\* The cached connection is cloned, if there is one.
TakeCached(c) ==
  LET s == Now(c) IN
  /\ q[c].pc = "client" /\ ProtoOf(c) # "dns"
  /\ IF cache[s] = NoConn
     THEN Hold(conns, cache, [q EXCEPT ![c].pc = "connect"])
     ELSE Hold(conns, cache, [q EXCEPT ![c].pc = "cached", ![c].conn = cache[s]])
  /\ Watch
  /\ UNCHANGED <<group, counter, up, turns>>

\* Mutant: an error on the cached connection is the server's error.
UseCached_NoReconnect(c) ==
  LET s == Now(c) IN
  /\ q[c].pc = "cached"
  /\ IF conns[q[c].conn].open /\ Well(s)
     THEN Hold(conns, cache, [q EXCEPT ![c] = Answered(c)])
     ELSE Hold(conns, [cache EXCEPT ![s] = NoConn], [q EXCEPT ![c] = GiveUp(c)])
  /\ Watch
  /\ UNCHANGED <<group, counter, up, turns>>

\* Mutant: after an error the query looks into the cache again.
UseCached_Again(c) ==
  LET s == Now(c) IN
  /\ q[c].pc = "cached"
  /\ IF conns[q[c].conn].open /\ Well(s)
     THEN Hold(conns, cache, [q EXCEPT ![c] = Answered(c)])
     ELSE Hold(conns, [cache EXCEPT ![s] = NoConn], [q EXCEPT ![c].pc = "client", ![c].conn = NoConn])
  /\ Watch
  /\ UNCHANGED <<group, counter, up, turns>>

(* On an error whatever is cached by then is dropped, and the query goes   *)
(* on to connect.                                                          *)
UseCached(c) ==
  LET s == Now(c) IN
  /\ q[c].pc = "cached"
  /\ IF conns[q[c].conn].open /\ Well(s)
     THEN Hold(conns, cache, [q EXCEPT ![c] = Answered(c)])
     ELSE Hold(conns, [cache EXCEPT ![s] = NoConn],
               [q EXCEPT ![c].pc = "connect", ![c].conn = NoConn])
  /\ Watch
  /\ UNCHANGED <<group, counter, up, turns>>

(* resolve_address: a host name is looked up by the system and, if that    *)
(* gives an error, at the bootstrap resolvers one after the other; a       *)
(* lookup without addresses is final.                                      *)
resolve_hostname_via_bootstrap(boots) == \E b \in DOMAIN boots : boots[b]

resolve_address(s, os, boots) ==
  \/ ~Resolvers[s].hostname
  \/ os = "found"
  \/ os = "error" /\ resolve_hostname_via_bootstrap(boots)

Connect(c) ==
  LET s == Now(c) IN
  /\ q[c].pc = "connect"
  /\ \E os \in {"found", "empty", "error"}, boots \in [1..2 -> BOOLEAN] :
       IF resolve_address(s, os, boots) /\ Well(s)
       THEN /\ FreeConns # {}
            /\ LET k == CHOOSE k \in FreeConns : TRUE
               IN  Hold([conns EXCEPT ![k] = [of |-> s, open |-> TRUE]],
                        cache, [q EXCEPT ![c].pc = "fresh", ![c].conn = k])
            /\ UNCHANGED steady
       ELSE /\ Hold(conns, cache, [q EXCEPT ![c] = GiveUp(c)])
            /\ steady' = IF resolve_address(s, os, boots) THEN steady
                         ELSE [steady EXCEPT ![c] = @ \ {s}]
  /\ UNCHANGED <<group, counter, up, turns>>

\* The connection is cached once it has answered.
UseFresh(c) ==
  LET s == Now(c)
      k == q[c].conn
  IN
  /\ q[c].pc = "fresh"
  /\ IF conns[k].open /\ Well(s)
     THEN Hold(conns, [cache EXCEPT ![s] = k], [q EXCEPT ![c] = Answered(c)])
     ELSE Hold(conns, cache, [q EXCEPT ![c] = GiveUp(c)])
  /\ Watch
  /\ UNCHANGED <<group, counter, up, turns>>

\* The steps of the four clients on a connection.
OnConnection(c) == UseCached(c) \/ Connect(c) \/ UseFresh(c)

resolve_tcp(c) == n > 0 /\ ProtoOf(c) = "dns" /\ OnConnection(c)
resolve_dot(c) == n > 0 /\ ProtoOf(c) = "dot" /\ (TakeCached(c) \/ OnConnection(c))
resolve_doh(c) == n > 0 /\ ProtoOf(c) = "doh" /\ (TakeCached(c) \/ OnConnection(c))
resolve_doq(c) == n > 0 /\ ProtoOf(c) = "doq" /\ (TakeCached(c) \/ OnConnection(c))

(* RecursiveResolver::resolve: what the library's recursor finds, that a   *)
(* name or its records do not exist included, is an answer.  A name whose  *)
(* own servers or signatures are bad is an error all the same.             *)
resolve_recursive(c) ==
  LET s == Now(c) IN
  /\ q[c].pc = "client" /\ ProtoOf(c) = "recursive"
  /\ \E found \in {"response", "nx_domain", "no_records", "error"} :
       /\ found # "error" => Well(s)
       /\ q' = [q EXCEPT ![c] = IF found = "error" THEN GiveUp(c) ELSE Answered(c)]
       /\ steady' = [steady EXCEPT ![c] = IF found = "error" THEN @ \ {s} ELSE {}]
  /\ UNCHANGED <<group, counter, cache, conns, up, turns>>

-----------------------------------------------------------------------------
(* The servers.                                                            *)

ServerDown(s) ==
  /\ s \in up
  /\ up' = up \ {s}
  /\ conns' = [k \in Conns |-> IF conns[k].of = s THEN [conns[k] EXCEPT !.open = FALSE] ELSE conns[k]]
  /\ steady' = [c \in Queries |-> steady[c] \ {s}]
  /\ UNCHANGED <<group, counter, cache, q, turns>>

ServerUp(s) ==
  /\ s \notin up
  /\ up' = up \cup {s}
  /\ UNCHANGED <<group, counter, cache, conns, q, steady, turns>>

\* Closing a connection is trouble only for a query that has just opened it.
CloseConn(k) ==
  /\ conns[k].open
  /\ conns' = [conns EXCEPT ![k].open = FALSE]
  /\ steady' = [c \in Queries |->
                  IF q[c].pc = "fresh" /\ q[c].conn = k THEN steady[c] \ {conns[k].of} ELSE steady[c]]
  /\ UNCHANGED <<group, counter, cache, up, q, turns>>

-----------------------------------------------------------------------------
resolve(c) ==
  \/ NoResolvers(c)
  \/ n > 0 /\ q[c].pc = "client" /\ (resolve_udp(c) \/ resolve_recursive(c))
  \/ resolve_tcp(c) \/ resolve_dot(c) \/ resolve_doh(c) \/ resolve_doq(c)

Next ==
  \/ \E c \in Queries : resolve(c) \/ \E start \in 0..n : Begin(c, start)
  \/ \E s \in DOMAIN Resolvers : ServerDown(s) \/ ServerUp(s)
  \/ \E k \in Conns : CloseConn(k)

Spec == Init /\ [][Next]_vars

(* Requests end with an answer, an error or a time-out.                    *)
FairSpec == Spec /\ \A c \in Queries : WF_vars(resolve(c))

-----------------------------------------------------------------------------
(* Types of the connections, the caches and the queries.                   *)
TypeOK ==
  /\ group \in Groups /\ counter \in 0..(Wrap - 1)
  /\ cache \in [Servers -> Conns \cup {NoConn}]
  /\ conns \in [Conns -> [of: Servers \cup {0}, open: BOOLEAN]]
  /\ up \in SUBSET Servers
  /\ q \in [Queries -> [pc: Pcs, start: Nat, i: Nat, conn: Conns \cup {NoConn}]]
  /\ steady \in [Queries -> SUBSET Servers]
  /\ turns \in [Servers -> Nat]

(* The strategies' promise: a query fails only if every one of the servers *)
(* was in trouble while it lasted.  A stale cached connection, also one    *)
(* that other queries close, replace or evict meanwhile, is no trouble: it *)
(* is hidden by connecting anew.  (Trouble with a server that is looked up *)
(* by name is also that its name cannot be found, and with the recursive   *)
(* resolver that the queried name cannot be.)                              *)
FailsOnlyInTrouble == \A c \in Queries : q[c].pc = "failed" => steady[c] = {}

(* "RoundRobin cycles through resolvers starting from the next in line":   *)
(* however queries overlap and fail, no server is first two times more     *)
(* often than another (before the counter wraps).                          *)
TurnsAreEven ==
  \A s \in Servers : turns[s] <= 1

(* Every query ends, whatever servers and other queries do.                *)
QueriesEnd == \A c \in Queries : q[c].pc = "client" ~> q[c].pc \in {"answered", "failed"}

\* What the pipeline sees of the group.
Status == [c \in Queries |->
  IF q[c].pc \in {"idle", "answered", "failed"} THEN q[c].pc ELSE "asked"]

Service == INSTANCE UpstreamService WITH status <- Status

(* The group of clients is a group of servers as the pipeline sees it:     *)
(* every step of a client is one of UpstreamService or invisible to it.    *)
ImplementsService == Service!Spec
=============================================================================
