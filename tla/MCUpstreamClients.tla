------------------------- MODULE MCUpstreamClients -------------------------
(* Instances of UpstreamClients.                                           *)
EXTENDS UpstreamClients

dns == [proto |-> "dns", hostname |-> FALSE, routable |-> TRUE]
dot == [proto |-> "dot", hostname |-> TRUE, routable |-> TRUE]
doh == [proto |-> "doh", hostname |-> TRUE, routable |-> TRUE]
doq == [proto |-> "doq", hostname |-> FALSE, routable |-> TRUE]
marked == [proto |-> "doq", hostname |-> FALSE, routable |-> FALSE]
recursive == [proto |-> "recursive", hostname |-> FALSE, routable |-> TRUE]
MCGroups ==
  {[strategy |-> "round_robin", resolvers |-> <<dot, recursive>>],
   [strategy |-> "random", resolvers |-> <<doh, marked>>],
   [strategy |-> "failover", resolvers |-> <<dns, dot>>],
   [strategy |-> "failover", resolvers |-> <<doq, recursive>>],
   [strategy |-> "failover", resolvers |-> <<>>]}
=============================================================================
