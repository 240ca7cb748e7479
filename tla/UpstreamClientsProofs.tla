----------------------- MODULE UpstreamClientsProofs -----------------------
(***************************************************************************)
(* UpstreamClients implements UpstreamService, and a query fails only if   *)
(* each of its servers was in trouble while it lasted, for every set of    *)
(* queries, every group of servers and any number of connections; and the  *)
(* servers of a round robin take their turns evenly.                       *)
(***************************************************************************)
EXTENDS UpstreamClients, TLAPS

Over == {"idle", "answered", "failed"}

\* The server that query c tries after j others.
Nth(c, j) == ((q[c].start + j) % n) + 1

(* What is known of one query: the servers that are left as steady are     *)
(* well; none of those it gave up is among them; and a connection that it  *)
(* has just opened leads to the server it is trying, and closes only if    *)
(* that server is no longer steady.                                        *)
QueryInv(c) ==
  /\ steady[c] \subseteq {s \in up : Resolvers[s].routable}
  /\ q[c].pc \in Over => steady[c] = {}
  /\ n = 0 /\ q[c].pc \notin Over => q[c].pc = "client"
  /\ n > 0 /\ q[c].pc \notin Over =>
       /\ q[c].start \in 0 .. (n - 1) /\ q[c].i \in 0 .. (n - 1)
       /\ \A j \in 0 .. (q[c].i - 1) : Nth(c, j) \notin steady[c]
  /\ q[c].pc = "fresh" =>
       /\ q[c].conn \in Conns
       /\ conns[q[c].conn].of = Now(c)
       /\ ~conns[q[c].conn].open => Now(c) \notin steady[c]

\* Types, as far as the argument needs them.
Types ==
  /\ group \in Groups
  /\ up \subseteq DOMAIN Resolvers
  /\ counter \in Nat
  /\ cache \in [Servers -> Conns \cup {NoConn}]
  /\ conns \in [Conns -> [of: Servers \cup {0}, open: BOOLEAN]]
  /\ q \in [Queries -> [pc: Pcs, start: Nat, i: Nat, conn: Conns \cup {NoConn}]]
  /\ steady \in [Queries -> SUBSET Servers]

IInv == Types /\ \A c \in Queries : QueryInv(c)

-----------------------------------------------------------------------------
\* The rotation of StrategyUpstreamResolver::resolve reaches every server once.
LEMMA Rotation ==
  ASSUME NEW len \in Nat, NEW start \in 0 .. (len - 1), NEW s \in 1 .. len
  PROVE  \E j \in 0 .. (len - 1) : ((start + j) % len) + 1 = s
<1> DEFINE j == IF s - 1 >= start THEN s - 1 - start ELSE s - 1 - start + len
<1>1. j \in 0 .. (len - 1)
  OBVIOUS
<1>2. ((start + j) % len) + 1 = s
  <2>1. CASE s - 1 >= start
    <3>1. start + j = s - 1 /\ s - 1 \in 0 .. (len - 1)
      BY <2>1
    <3>2. (s - 1) % len = s - 1
      BY <3>1, SMT
    <3> QED  BY <3>1, <3>2
  <2>2. CASE s - 1 < start
    <3>1. start + j = s - 1 + len /\ s - 1 \in 0 .. (len - 1)
      BY <2>2
    <3>2. (s - 1 + len) % len = s - 1
      BY <3>1, SMT
    <3> QED  BY <3>1, <3>2
  <2> QED  BY <2>1, <2>2
<1> HIDE DEF j
<1> QED  BY <1>1, <1>2

\* The position that a rotation is at is one of the group.
LEMMA InGroup ==
  ASSUME NEW len \in Nat \ {0}, NEW a \in Nat
  PROVE  a % len \in 0 .. (len - 1) /\ (a % len) + 1 \in 1 .. len
  BY SMT

LEMMA GroupTypes ==
  ASSUME Types
  PROVE  /\ Resolvers \in Seq(Resolver) /\ n \in Nat
         /\ DOMAIN Resolvers = 1 .. n /\ DOMAIN Resolvers \subseteq Servers
         /\ Strategy \in {"round_robin", "random", "failover"}
  BY GroupsAssumption DEF Types, Resolvers, n, Strategy

-----------------------------------------------------------------------------
(* What a step of a client comes to, whichever protocol it speaks.         *)

QueryType == [pc: Pcs, start: Nat, i: Nat, conn: Conns \cup {NoConn}]
ConnType == [of: Servers \cup {0}, open: BOOLEAN]

AnswersQ(c) == q'[c] = Ended("answered") /\ steady'[c] = {}

GoesOn(c) ==
  /\ q'[c].pc \in {"cached", "connect"}
  /\ q'[c].start = q[c].start /\ q'[c].i = q[c].i
  /\ steady'[c] = steady[c]

Opens(c) ==
  /\ q'[c].pc = "fresh"
  /\ q'[c].start = q[c].start /\ q'[c].i = q[c].i
  /\ q'[c].conn \in Conns
  /\ conns'[q'[c].conn].of = Now(c) /\ conns'[q'[c].conn].open
  /\ steady'[c] = steady[c]

GivesUp(c) ==
  /\ q'[c] = GiveUp(c)
  /\ steady'[c] = steady[c] \ {Now(c)}

Moves(c) ==
  /\ n > 0 /\ q[c].pc \notin Over
  /\ UNCHANGED <<group, up, counter>>
  /\ cache' \in [Servers -> Conns \cup {NoConn}]
  /\ conns' \in [Conns -> ConnType]
  /\ q' \in [Queries -> QueryType]
  /\ steady' \in [Queries -> SUBSET Servers]
  /\ \A d \in Queries \ {c} :
       /\ q'[d] = q[d] /\ steady'[d] = steady[d]
       /\ q[d].pc = "fresh" => conns'[q[d].conn] = conns[q[d].conn]
  /\ AnswersQ(c) \/ GoesOn(c) \/ Opens(c) \/ GivesUp(c)

\* A query that fails has given up every server.
LEMMA AllGivenUp ==
  ASSUME IInv, NEW c \in Queries, Moves(c), GivesUp(c), q[c].i + 1 >= n
  PROVE  steady'[c] = {}
<1>1. /\ n \in Nat \ {0} /\ DOMAIN Resolvers = 1 .. n
  BY GroupTypes DEF IInv, Moves
<1>2. /\ q[c].start \in 0 .. (n - 1) /\ q[c].i \in 0 .. (n - 1)
      /\ \A j \in 0 .. (q[c].i - 1) : Nth(c, j) \notin steady[c]
      /\ steady[c] \subseteq 1 .. n
  BY <1>1, Zenon DEF IInv, QueryInv, Moves, Types
<1>3. q[c].i = n - 1
  BY <1>1, <1>2
<1>4. ASSUME NEW s \in steady'[c]  PROVE FALSE
  <2>1. s \in steady[c] /\ s # Now(c) /\ s \in 1 .. n
    BY <1>2, <1>4, Zenon DEF GivesUp
  <2>2. PICK j \in 0 .. (n - 1) : ((q[c].start + j) % n) + 1 = s
    BY Rotation, <1>1, <1>2, <2>1, Zenon
  <2>3. CASE j = q[c].i
    BY <2>1, <2>2, <2>3, Zenon DEF Now
  <2>4. CASE j \in 0 .. (q[c].i - 1)
    BY <1>2, <2>1, <2>2, <2>4, Zenon DEF Nth
  <2> QED  BY <1>1, <1>3, <2>2, <2>3, <2>4
<1> QED  BY <1>4

\* A client's step keeps the invariant.
LEMMA MovesInv ==
  ASSUME IInv, NEW c \in Queries, Moves(c)
  PROVE  IInv'
<1>1. /\ n \in Nat \ {0} /\ n' = n /\ Resolvers' = Resolvers
      /\ DOMAIN Resolvers = 1 .. n
  BY GroupTypes DEF IInv, Moves, n, Resolvers
<1>2. Types'
  BY <1>1, Zenon DEF IInv, Types, Moves, QueryType, ConnType, Resolvers
<1>3. ASSUME NEW d \in Queries \ {c}  PROVE QueryInv(d)'
  <2>1. q'[d] = q[d] /\ steady'[d] = steady[d] /\ up' = up
        /\ (q[d].pc = "fresh" => conns'[q[d].conn] = conns[q[d].conn])
    BY Zenon DEF Moves
  <2>2. QueryInv(d)
    BY DEF IInv
  <2> QED  BY <1>1, <2>1, <2>2, Zenon DEF QueryInv, Now, Nth
<1>4. QueryInv(c)'
  <2>1. /\ q[c].start \in 0 .. (n - 1) /\ q[c].i \in 0 .. (n - 1)
        /\ \A j \in 0 .. (q[c].i - 1) : Nth(c, j) \notin steady[c]
        /\ steady[c] \subseteq {s \in up : Resolvers[s].routable}
        /\ up' = up
    BY <1>1, Zenon DEF IInv, QueryInv, Moves
  <2>2. CASE AnswersQ(c)
    BY <1>1, <2>2 DEF AnswersQ, QueryInv, Ended, Over
  <2>3. CASE GoesOn(c)
    BY <1>1, <2>1, <2>3, Zenon DEF GoesOn, QueryInv, Over, Nth
  <2>4. CASE Opens(c)
    BY <1>1, <2>1, <2>4, Zenon DEF Opens, QueryInv, Over, Nth, Now
  <2>5. CASE GivesUp(c) /\ q[c].i + 1 >= n
    <3>1. steady'[c] = {}
      BY <2>5, AllGivenUp
    <3>2. ~(q[c].i + 1 < n)
      BY <1>1, <2>1, <2>5
    <3>3. q'[c].pc = "failed"
      BY <2>5, <3>2 DEF GivesUp, GiveUp, Ended
    <3> QED  BY <3>1, <3>3 DEF QueryInv, Over
  <2>6. CASE GivesUp(c) /\ q[c].i + 1 < n
    <3>1. /\ q'[c].pc = "client" /\ q'[c].start = q[c].start /\ q'[c].i = q[c].i + 1
      BY <2>6 DEF GivesUp, GiveUp, Moves, IInv, Types
    <3>2. ASSUME NEW j \in 0 .. q[c].i  PROVE Nth(c, j)' \notin steady'[c]
      <4>1. Nth(c, j)' = Nth(c, j) /\ Nth(c, q[c].i) = Now(c)
        BY <1>1, <3>1, Zenon DEF Nth, Now
      <4>2. CASE j = q[c].i
        BY <4>1, <4>2, <2>6, Zenon DEF GivesUp
      <4>3. CASE j \in 0 .. (q[c].i - 1)
        BY <4>1, <4>3, <2>1, <2>6, Zenon DEF GivesUp
      <4> QED  BY <4>2, <4>3, <2>1
    <3>3. q'[c].i - 1 = q[c].i /\ q'[c].i \in 0 .. (n - 1)
      BY <1>1, <2>1, <2>6, <3>1
    <3>4. steady'[c] \subseteq steady[c]
      BY <2>6 DEF GivesUp
    <3> QED  BY <1>1, <2>1, <3>1, <3>2, <3>3, <3>4, Zenon DEF QueryInv, Over
  <2> QED  BY <1>1, <2>1, <2>2, <2>3, <2>4, <2>5, <2>6 DEF Moves
<1> QED  BY <1>2, <1>3, <1>4 DEF IInv

\* A client's step is an answer, a failure, trouble or nothing to the pipeline.
LEMMA MovesService ==
  ASSUME IInv, NEW c \in Queries, Moves(c)
  PROVE  Service!Next \/ UNCHANGED Service!vars
<1>1. /\ n \in Nat \ {0} /\ q[c].i \in 0 .. (n - 1) /\ q[c].start \in 0 .. (n - 1)
      /\ DOMAIN Resolvers = 1 .. n /\ DOMAIN Resolvers \subseteq Servers
  BY GroupTypes DEF IInv, Moves, QueryInv
<1>2. Status[c] = "asked"
  BY Zenon DEF Status, Moves, Over
<1>3. ASSUME NEW d \in Queries \ {c}  PROVE Status'[d] = Status[d] /\ steady'[d] = steady[d]
  BY Zenon DEF Status, Moves
<1>4. steady \in [Queries -> SUBSET Servers] /\ steady' \in [Queries -> SUBSET Servers]
  BY Zenon DEF IInv, Types, Moves
<1>5. CASE AnswersQ(c)
  <2>0. q'[c].pc = "answered"
    BY <1>5 DEF AnswersQ, Ended
  <2>1. Status' = [Status EXCEPT ![c] = "answered"]
    BY <1>3, <2>0, Zenon DEF Status
  <2>2. steady' = [steady EXCEPT ![c] = {}]
    BY <1>3, <1>4, <1>5 DEF AnswersQ
  <2> QED  BY <1>2, <2>1, <2>2, Zenon DEF Service!Next, Service!Answer
<1>6. CASE GivesUp(c) /\ q[c].i + 1 >= n
  <2>1. steady'[c] = {}
    BY <1>6, AllGivenUp
  <2>2. ~(q[c].i + 1 < n)
    BY <1>1, <1>6
  <2>3. q'[c].pc = "failed"
    BY <1>6, <2>2 DEF GivesUp, GiveUp, Ended
  <2>4. Status' = [Status EXCEPT ![c] = "failed"]
    BY <1>3, <2>3, Zenon DEF Status
  <2>5. steady' = [steady EXCEPT ![c] = {}]
    BY <1>3, <1>4, <2>1
  <2>6. Now(c) \in Servers
    <3>0. q[c].start + q[c].i \in Nat
      BY <1>1
    <3>1. ((q[c].start + q[c].i) % n) + 1 \in 1 .. n
      BY <1>1, <3>0, InGroup, Zenon
    <3> QED  BY <1>1, <3>1, Zenon DEF Now
  <2>7. steady[c] = {} \/ steady[c] = {Now(c)}
    BY <1>6, <2>1 DEF GivesUp
  <2> QED  BY <1>2, <2>4, <2>5, <2>6, <2>7, Zenon DEF Service!Next, Service!Fail
<1>7. CASE GoesOn(c) \/ Opens(c) \/ (GivesUp(c) /\ q[c].i + 1 < n)
  <2>1. q'[c].pc \in Pcs \ Over
    <3>1. CASE GivesUp(c) /\ q[c].i + 1 < n
      BY <3>1, Zenon DEF GivesUp, GiveUp, Pcs, Over, IInv, Types
    <3>2. CASE GoesOn(c) \/ Opens(c)
      BY <3>2, Zenon DEF GoesOn, Opens, Pcs, Over
    <3> QED  BY <1>7, <3>1, <3>2, Zenon
  <2>2. Status' = Status
    BY <1>2, <1>3, <2>1, Zenon DEF Status, Over
  <2>3. \A d \in Queries : steady'[d] \subseteq steady[d]
    BY <1>3, <1>7, Zenon DEF GoesOn, Opens, GivesUp
  <2> QED  BY <1>4, <2>2, <2>3 DEF Service!Next, Service!Trouble
<1> QED  BY <1>1, <1>5, <1>6, <1>7 DEF Moves

-----------------------------------------------------------------------------
(* The steps of the clients.                                               *)

\* A connection that a query holds survives the step.
LEMMA Held ==
  ASSUME NEW ks \in [Conns -> ConnType], NEW ca \in [Servers -> Conns \cup {NoConn}],
         NEW qs \in [Queries -> QueryType], Hold(ks, ca, qs)
  PROVE  /\ cache' = ca /\ q' = qs
         /\ conns' \in [Conns -> ConnType]
         /\ \A d \in Queries : qs[d].conn \in Conns => conns'[qs[d].conn] = ks[qs[d].conn]
<1>1. Free \in ConnType
  BY DEF Free, ConnType
<1> QED  BY <1>1, Zenon DEF Hold

\* The answered query is no longer watched; those answered before were not either.
LEMMA Watched ==
  ASSUME IInv, NEW c \in Queries, Watch, \A d \in Queries \ {c} : q'[d] = q[d]
  PROVE  /\ steady' \in [Queries -> SUBSET Servers]
         /\ \A d \in Queries \ {c} : steady'[d] = steady[d]
         /\ steady'[c] = IF q'[c].pc = "answered" THEN {} ELSE steady[c]
  BY Zenon DEF IInv, Types, QueryInv, Watch, Over

\* A query in trouble with a server that is not well was not steady with it.
LEMMA NotWell ==
  ASSUME IInv, NEW c \in Queries, ~Well(Now(c))
  PROVE  steady[c] = steady[c] \ {Now(c)}
  BY Zenon DEF IInv, QueryInv, Well

\* The ways a server's turn ends are of a query's type.
LEMMA EndTypes ==
  ASSUME Types, NEW c \in Queries
  PROVE  Answered(c) \in QueryType /\ GiveUp(c) \in QueryType
<1>1. q[c] \in QueryType
  BY Zenon DEF Types, QueryType
<1>2. Answered(c) \in QueryType
  BY DEF QueryType, Answered, Ended, Pcs
<1>3. CASE q[c].i + 1 < n
  <2>1. GiveUp(c) = [pc |-> "client", start |-> q[c].start, i |-> q[c].i + 1, conn |-> NoConn]
    BY <1>1, <1>3, Zenon DEF QueryType, GiveUp
  <2>2. q[c].start \in Nat /\ q[c].i + 1 \in Nat
    BY <1>1 DEF QueryType
  <2> QED  BY <1>2, <2>1, <2>2 DEF QueryType, Pcs
<1>4. CASE ~(q[c].i + 1 < n)
  BY <1>2, <1>4, Zenon DEF QueryType, GiveUp, Ended, Pcs
<1> QED  BY <1>3, <1>4

(* A step with Hold and Watch that leaves the connections as they are, or  *)
(* opens one that was free, is a move.                                     *)
LEMMA HoldMoves ==
  ASSUME IInv, NEW c \in Queries, n > 0, q[c].pc \notin Over,
         NEW ca \in [Servers -> Conns \cup {NoConn}],
         NEW new \in QueryType,
         Hold(conns, ca, [q EXCEPT ![c] = new]), Watch,
         UNCHANGED <<group, counter, up>>,
         \/ new = Ended("answered")
         \/ new.pc \in {"cached", "connect"} /\ new.start = q[c].start /\ new.i = q[c].i
         \/ new = GiveUp(c) /\ Now(c) \notin steady[c]
  PROVE  Moves(c)
<1> DEFINE qs == [q EXCEPT ![c] = new]
<1>0. conns \in [Conns -> ConnType] /\ q \in [Queries -> QueryType]
  BY Zenon DEF IInv, Types, ConnType, QueryType
<1>1. qs \in [Queries -> QueryType] /\ qs[c] = new /\ \A d \in Queries \ {c} : qs[d] = q[d]
  BY <1>0, Zenon
<1> HIDE DEF qs
<1>2. /\ cache' = ca /\ q' = qs /\ conns' \in [Conns -> ConnType]
      /\ \A d \in Queries : qs[d].conn \in Conns => conns'[qs[d].conn] = conns[qs[d].conn]
  <2>1. Hold(conns, ca, qs)
    BY Zenon DEF qs
  <2> QED  BY <1>0, <1>1, <2>1, Held
<1>3. /\ steady' \in [Queries -> SUBSET Servers]
      /\ \A d \in Queries \ {c} : steady'[d] = steady[d]
      /\ steady'[c] = IF new.pc = "answered" THEN {} ELSE steady[c]
  BY <1>1, <1>2, Watched, Zenon
<1>4. \A d \in Queries \ {c} : q[d].pc = "fresh" => conns'[q[d].conn] = conns[q[d].conn]
  BY <1>1, <1>2, Zenon DEF IInv, QueryInv
<1>5. CASE new = Ended("answered")
  <2>1. AnswersQ(c)
    BY <1>1, <1>2, <1>3, <1>5 DEF AnswersQ, Ended
  <2> QED  BY <1>1, <1>2, <1>3, <1>4, <2>1, Zenon DEF Moves
<1>6. CASE new.pc \in {"cached", "connect"} /\ new.start = q[c].start /\ new.i = q[c].i
  <2>1. GoesOn(c)
    BY <1>1, <1>2, <1>3, <1>6, Zenon DEF GoesOn
  <2> QED  BY <1>1, <1>2, <1>3, <1>4, <2>1, Zenon DEF Moves
<1>7. CASE new = GiveUp(c) /\ Now(c) \notin steady[c]
  <2>1. new.pc \in {"client", "failed"}
    BY <1>0, <1>7, Zenon DEF GiveUp, Ended, QueryType
  <2>2. GivesUp(c)
    BY <1>1, <1>2, <1>3, <1>7, <2>1, Zenon DEF GivesUp
  <2> QED  BY <1>1, <1>2, <1>3, <1>4, <2>2, Zenon DEF Moves
<1> QED  BY <1>5, <1>6, <1>7, Zenon

\* The server that a query is trying is one of the group.
LEMMA NowInGroup ==
  ASSUME IInv, NEW c \in Queries, n > 0, q[c].pc \notin Over
  PROVE  Now(c) \in Servers /\ Now(c) \in DOMAIN Resolvers
<1>1. /\ n \in Nat \ {0} /\ q[c].start + q[c].i \in Nat
      /\ DOMAIN Resolvers = 1 .. n /\ DOMAIN Resolvers \subseteq Servers
  BY GroupTypes DEF IInv, Types
<1>2. ((q[c].start + q[c].i) % n) + 1 \in 1 .. n
  BY <1>1, InGroup, Zenon
<1> QED  BY <1>1, <1>2, Zenon DEF Now

\* A query's own state, with the steps that set only a part of it.
LEMMA Parts ==
  ASSUME Types, NEW c \in Queries, NEW k \in Conns \cup {NoConn}, NEW pc \in Pcs
  PROVE  LET new == [pc |-> pc, start |-> q[c].start, i |-> q[c].i, conn |-> k] IN
         /\ new \in QueryType
         /\ [q EXCEPT ![c].pc = pc, ![c].conn = k] = [q EXCEPT ![c] = new]
         /\ q[c].conn = k => [q EXCEPT ![c].pc = pc] = [q EXCEPT ![c] = new]
<1>1. q \in [Queries -> QueryType] /\ q[c] \in QueryType
  BY Zenon DEF Types, QueryType
<1> DEFINE new == [pc |-> pc, start |-> q[c].start, i |-> q[c].i, conn |-> k]
<1>2. new \in QueryType
  BY <1>1, Zenon DEF QueryType
<1>3. [q[c] EXCEPT !.pc = pc, !.conn = k] = new
  <2> DEFINE r == [q[c] EXCEPT !.pc = pc]
  <2>1. r = [pc |-> pc, start |-> q[c].start, i |-> q[c].i, conn |-> q[c].conn]
    BY <1>1 DEF QueryType
  <2>2. [[pc |-> pc, start |-> q[c].start, i |-> q[c].i, conn |-> q[c].conn] EXCEPT !.conn = k] = new
    OBVIOUS
  <2> QED  BY <2>1, <2>2, Zenon
<1>4. q[c].conn = k => [q[c] EXCEPT !.pc = pc] = new
  BY <1>1 DEF QueryType
<1> HIDE DEF new
<1>5. [q EXCEPT ![c].pc = pc, ![c].conn = k] = [q EXCEPT ![c] = new]
  <2> DEFINE p == [q EXCEPT ![c] = [q[c] EXCEPT !.pc = pc]]
  <2>1. p \in [Queries -> QueryType] /\ p[c] = [q[c] EXCEPT !.pc = pc]
    BY <1>1, Zenon DEF QueryType
  <2>2. [p[c] EXCEPT !.conn = k] = new
    BY <1>1, <1>3, <2>1, Zenon DEF QueryType
  <2>3. [p EXCEPT ![c] = new] = [q EXCEPT ![c] = new]
    BY <1>1, <2>1, Zenon
  <2> QED  BY <2>2, <2>3, Zenon
<1>6. q[c].conn = k => [q EXCEPT ![c].pc = pc] = [q EXCEPT ![c] = new]
  BY <1>1, <1>4, Zenon
<1> QED  BY <1>2, <1>5, <1>6, Zenon DEF new

\* The cached connection is cloned or a new one is needed.
LEMMA TakeMoves ==
  ASSUME IInv, NEW c \in Queries, n > 0, q[c].pc = "client",
         IF cache[Now(c)] = NoConn
         THEN Hold(conns, cache, [q EXCEPT ![c].pc = "connect"])
         ELSE Hold(conns, cache, [q EXCEPT ![c].pc = "cached", ![c].conn = cache[Now(c)]]),
         Watch, UNCHANGED <<group, counter, up>>
  PROVE  Moves(c)
<1>1. q[c].pc \notin Over
  BY Zenon DEF Over
<1>2. Types /\ cache \in [Servers -> Conns \cup {NoConn}] /\ cache[Now(c)] \in Conns \cup {NoConn}
      /\ q[c].conn \in Conns \cup {NoConn}
  BY <1>1, NowInGroup, Zenon DEF IInv, Types
<1>3. CASE cache[Now(c)] = NoConn
  <2> DEFINE new == [pc |-> "connect", start |-> q[c].start, i |-> q[c].i, conn |-> q[c].conn]
  <2>1. new \in QueryType /\ [q EXCEPT ![c].pc = "connect"] = [q EXCEPT ![c] = new]
    BY <1>2, Parts, Zenon DEF Pcs
  <2>2. new.pc = "connect" /\ new.start = q[c].start /\ new.i = q[c].i
    BY Zenon
  <2>3. Hold(conns, cache, [q EXCEPT ![c] = new])
    BY <1>3, <2>1, Zenon
  <2> HIDE DEF new
  <2> QED  BY <1>1, <1>2, <2>1, <2>2, <2>3, HoldMoves, Zenon
<1>4. CASE cache[Now(c)] # NoConn
  <2> DEFINE new == [pc |-> "cached", start |-> q[c].start, i |-> q[c].i, conn |-> cache[Now(c)]]
  <2>1. new \in QueryType /\ [q EXCEPT ![c].pc = "cached", ![c].conn = cache[Now(c)]] = [q EXCEPT ![c] = new]
    BY <1>2, Parts, Zenon DEF Pcs
  <2>2. new.pc = "cached" /\ new.start = q[c].start /\ new.i = q[c].i
    BY Zenon
  <2>3. Hold(conns, cache, [q EXCEPT ![c] = new])
    BY <1>4, <2>1, Zenon
  <2> HIDE DEF new
  <2> QED  BY <1>1, <1>2, <2>1, <2>2, <2>3, HoldMoves, Zenon
<1> QED  BY <1>3, <1>4, Zenon

\* A query that is answered or gives its server up.
LEMMA EndMoves ==
  ASSUME IInv, NEW c \in Queries, n > 0, q[c].pc \notin Over,
         NEW ca \in [Servers -> Conns \cup {NoConn}],
         Watch, UNCHANGED <<group, counter, up>>,
         \/ Hold(conns, ca, [q EXCEPT ![c] = Answered(c)])
         \/ Hold(conns, ca, [q EXCEPT ![c] = GiveUp(c)]) /\ Now(c) \notin steady[c]
  PROVE  Moves(c)
<1>1. Answered(c) \in QueryType /\ GiveUp(c) \in QueryType
  BY EndTypes DEF IInv
<1>2. CASE Hold(conns, ca, [q EXCEPT ![c] = Answered(c)])
  <2>1. Answered(c) = Ended("answered")
    BY DEF Answered
  <2> QED  BY <1>1, <1>2, <2>1, HoldMoves, Zenon
<1>3. CASE Hold(conns, ca, [q EXCEPT ![c] = GiveUp(c)]) /\ Now(c) \notin steady[c]
  BY <1>1, <1>3, HoldMoves, Zenon
<1> QED  BY <1>2, <1>3

LEMMA UdpMoves ==
  ASSUME IInv, NEW c \in Queries, n > 0, resolve_udp(c)
  PROVE  Moves(c)
<1>1. q[c].pc = "client" /\ q[c].pc \notin Over /\ Watch /\ UNCHANGED <<group, counter, up>>
  BY Zenon DEF resolve_udp, Over
<1>2. cache \in [Servers -> Conns \cup {NoConn}]
  BY Zenon DEF IInv, Types
<1>3. CASE Hold(conns, cache, [q EXCEPT ![c] = Answered(c)])
  BY <1>1, <1>2, <1>3, EndMoves, Zenon
<1>4. CASE ~Well(Now(c)) /\ Hold(conns, cache, [q EXCEPT ![c] = GiveUp(c)])
  <2>1. Now(c) \notin steady[c]
    BY <1>4, NotWell
  <2> QED  BY <1>1, <1>2, <1>4, <2>1, EndMoves, Zenon
<1>5. CASE IF cache[Now(c)] = NoConn
           THEN Hold(conns, cache, [q EXCEPT ![c].pc = "connect"])
           ELSE Hold(conns, cache, [q EXCEPT ![c].pc = "cached", ![c].conn = cache[Now(c)]])
  BY <1>1, <1>5, TakeMoves, Zenon
<1> QED  BY <1>3, <1>4, <1>5, Zenon DEF resolve_udp, bind_udp

LEMMA CachedMoves ==
  ASSUME IInv, NEW c \in Queries, n > 0, UseCached(c)
  PROVE  Moves(c)
<1>1. q[c].pc = "cached" /\ q[c].pc \notin Over /\ Watch /\ UNCHANGED <<group, counter, up>>
  BY Zenon DEF UseCached, Over
<1>2. /\ cache \in [Servers -> Conns \cup {NoConn}]
      /\ [cache EXCEPT ![Now(c)] = NoConn] \in [Servers -> Conns \cup {NoConn}]
  BY Zenon DEF IInv, Types
<1>3. CASE Hold(conns, cache, [q EXCEPT ![c] = Answered(c)])
  BY <1>1, <1>2, <1>3, EndMoves, Zenon
<1>4. CASE Hold(conns, [cache EXCEPT ![Now(c)] = NoConn],
                [q EXCEPT ![c].pc = "connect", ![c].conn = NoConn])
  <2> DEFINE new == [pc |-> "connect", start |-> q[c].start, i |-> q[c].i, conn |-> NoConn]
  <2>1. new \in QueryType /\ [q EXCEPT ![c].pc = "connect", ![c].conn = NoConn] = [q EXCEPT ![c] = new]
    BY Parts, Zenon DEF Pcs, IInv
  <2>2. new.pc = "connect" /\ new.start = q[c].start /\ new.i = q[c].i
    OBVIOUS
  <2>3. Hold(conns, [cache EXCEPT ![Now(c)] = NoConn], [q EXCEPT ![c] = new])
    BY <1>4, <2>1, Zenon
  <2> HIDE DEF new
  <2> QED  BY <1>1, <1>2, <2>1, <2>2, <2>3, HoldMoves, Zenon
<1> QED  BY <1>3, <1>4, Zenon DEF UseCached

LEMMA FreshMoves ==
  ASSUME IInv, NEW c \in Queries, n > 0, UseFresh(c)
  PROVE  Moves(c)
<1>1. q[c].pc = "fresh" /\ q[c].pc \notin Over /\ Watch /\ UNCHANGED <<group, counter, up>>
  BY Zenon DEF UseFresh, Over
<1>2. /\ cache \in [Servers -> Conns \cup {NoConn}]
      /\ q[c].conn \in Conns \cup {NoConn}
      /\ [cache EXCEPT ![Now(c)] = q[c].conn] \in [Servers -> Conns \cup {NoConn}]
  BY Zenon DEF IInv, Types
<1>3. CASE Hold(conns, [cache EXCEPT ![Now(c)] = q[c].conn], [q EXCEPT ![c] = Answered(c)])
  BY <1>1, <1>2, <1>3, EndMoves, Zenon
<1>4. CASE /\ ~(conns[q[c].conn].open /\ Well(Now(c)))
           /\ Hold(conns, cache, [q EXCEPT ![c] = GiveUp(c)])
  <2>1. CASE ~Well(Now(c))
    <3>1. Now(c) \notin steady[c]
      BY <2>1, NotWell
    <3> QED  BY <1>1, <1>2, <1>4, <3>1, EndMoves, Zenon
  <2>2. CASE ~conns[q[c].conn].open
    <3>1. Now(c) \notin steady[c]
      BY <1>1, <2>2, Zenon DEF IInv, QueryInv
    <3> QED  BY <1>1, <1>2, <1>4, <3>1, EndMoves, Zenon
  <2> QED  BY <1>4, <2>1, <2>2, Zenon
<1> QED  BY <1>3, <1>4, Zenon DEF UseFresh

\* A new connection takes a number that no query's fresh connection has.
LEMMA OpenMoves ==
  ASSUME IInv, NEW c \in Queries, n > 0, q[c].pc \notin Over,
         NEW k \in FreeConns,
         Hold([conns EXCEPT ![k] = [of |-> Now(c), open |-> TRUE]],
              cache, [q EXCEPT ![c].pc = "fresh", ![c].conn = k]),
         UNCHANGED <<group, counter, up, steady>>
  PROVE  Moves(c)
<1> DEFINE ks == [conns EXCEPT ![k] = [of |-> Now(c), open |-> TRUE]]
           new == [pc |-> "fresh", start |-> q[c].start, i |-> q[c].i, conn |-> k]
           qs == [q EXCEPT ![c] = new]
<1>1. /\ k \in Conns /\ conns[k].of = 0 /\ Now(c) \in Servers /\ Now(c) # 0
      /\ conns \in [Conns -> ConnType] /\ q \in [Queries -> QueryType]
      /\ cache \in [Servers -> Conns \cup {NoConn}] /\ steady' \in [Queries -> SUBSET Servers]
  BY NowInGroup, GroupsAssumption, Zenon DEF FreeConns, IInv, Types, ConnType, QueryType
<1>2. /\ ks \in [Conns -> ConnType] /\ ks[k].of = Now(c) /\ ks[k].open
      /\ \A j \in Conns \ {k} : ks[j] = conns[j]
  BY <1>1, Zenon DEF ConnType
<1>3. new \in QueryType /\ [q EXCEPT ![c].pc = "fresh", ![c].conn = k] = qs
  BY <1>1, Parts, Zenon DEF Pcs, IInv
<1>4. new.pc = "fresh" /\ new.start = q[c].start /\ new.i = q[c].i /\ new.conn = k
  BY Zenon
<1> HIDE DEF new, ks
<1>5. qs \in [Queries -> QueryType] /\ qs[c] = new /\ \A d \in Queries \ {c} : qs[d] = q[d]
  BY <1>1, <1>3, Zenon
<1>6. Hold(ks, cache, qs)
  BY <1>3, Zenon DEF ks
<1> HIDE DEF qs
<1>7. /\ cache' = cache /\ q' = qs /\ conns' \in [Conns -> ConnType]
      /\ \A d \in Queries : qs[d].conn \in Conns => conns'[qs[d].conn] = ks[qs[d].conn]
  BY <1>1, <1>2, <1>5, <1>6, Held
<1>8. Opens(c)
  BY <1>1, <1>2, <1>4, <1>5, <1>7, Zenon DEF Opens
<1>9. ASSUME NEW d \in Queries \ {c}, q[d].pc = "fresh"
      PROVE  conns'[q[d].conn] = conns[q[d].conn]
  <2>1. q[d].conn \in Conns /\ conns[q[d].conn].of = Now(d)
    BY <1>9, Zenon DEF IInv, QueryInv
  <2>2. n > 0 /\ q[d].pc \notin Over /\ Now(d) # 0
    BY <1>9, NowInGroup, GroupsAssumption, Zenon DEF Over
  <2>3. q[d].conn # k
    BY <1>1, <2>1, <2>2, Zenon
  <2> QED  BY <1>2, <1>5, <1>7, <2>1, <2>3
<1> QED  BY <1>1, <1>5, <1>7, <1>8, <1>9, Zenon DEF Moves

LEMMA ConnectMoves ==
  ASSUME IInv, NEW c \in Queries, n > 0, Connect(c)
  PROVE  Moves(c)
<1>1. q[c].pc = "connect" /\ q[c].pc \notin Over /\ UNCHANGED <<group, counter, up>>
  BY Zenon DEF Connect, Over
<1>2. /\ conns \in [Conns -> ConnType] /\ q \in [Queries -> QueryType]
      /\ cache \in [Servers -> Conns \cup {NoConn}] /\ steady \in [Queries -> SUBSET Servers]
      /\ GiveUp(c) \in QueryType
  BY EndTypes, Zenon DEF IInv, Types, ConnType, QueryType
<1>3. PICK os \in {"found", "empty", "error"}, boots \in [1..2 -> BOOLEAN] :
       IF resolve_address(Now(c), os, boots) /\ Well(Now(c))
       THEN /\ FreeConns # {}
            /\ LET k == CHOOSE k \in FreeConns : TRUE
               IN  Hold([conns EXCEPT ![k] = [of |-> Now(c), open |-> TRUE]],
                        cache, [q EXCEPT ![c].pc = "fresh", ![c].conn = k])
            /\ UNCHANGED steady
       ELSE /\ Hold(conns, cache, [q EXCEPT ![c] = GiveUp(c)])
            /\ steady' = IF resolve_address(Now(c), os, boots) THEN steady
                         ELSE [steady EXCEPT ![c] = @ \ {Now(c)}]
  BY Zenon DEF Connect
<1>4. CASE resolve_address(Now(c), os, boots) /\ Well(Now(c))
  <2> DEFINE k == CHOOSE k \in FreeConns : TRUE
  <2>1. k \in FreeConns
    BY <1>3, <1>4, Zenon
  <2>2. /\ Hold([conns EXCEPT ![k] = [of |-> Now(c), open |-> TRUE]],
                cache, [q EXCEPT ![c].pc = "fresh", ![c].conn = k])
        /\ UNCHANGED steady
    BY <1>3, <1>4, Zenon
  <2> HIDE DEF k
  <2> QED  BY <1>1, <2>1, <2>2, OpenMoves, Zenon
<1>5. CASE ~(resolve_address(Now(c), os, boots) /\ Well(Now(c)))
  <2>1. /\ steady' \in [Queries -> SUBSET Servers]
        /\ \A d \in Queries \ {c} : steady'[d] = steady[d]
        /\ steady'[c] = steady[c] \ {Now(c)}
    <3>1. CASE resolve_address(Now(c), os, boots)
      BY <1>2, <1>3, <1>5, <3>1, NotWell, Zenon
    <3>2. CASE ~resolve_address(Now(c), os, boots)
      BY <1>2, <1>3, <1>5, <3>2, Zenon
    <3> QED  BY <3>1, <3>2, Zenon
  <2> DEFINE qs == [q EXCEPT ![c] = GiveUp(c)]
  <2>2. qs \in [Queries -> QueryType] /\ qs[c] = GiveUp(c) /\ \A d \in Queries \ {c} : qs[d] = q[d]
    BY <1>2
  <2>3. Hold(conns, cache, qs)
    BY <1>3, <1>5, Zenon
  <2> HIDE DEF qs
  <2>4. /\ cache' = cache /\ q' = qs /\ conns' \in [Conns -> ConnType]
        /\ \A d \in Queries : qs[d].conn \in Conns => conns'[qs[d].conn] = conns[qs[d].conn]
    BY <1>2, <2>2, <2>3, Held, Zenon
  <2>5. \A d \in Queries \ {c} : q[d].pc = "fresh" => conns'[q[d].conn] = conns[q[d].conn]
    BY <2>2, <2>4, Zenon DEF IInv, QueryInv
  <2>6. GivesUp(c)
    BY <2>1, <2>2, <2>4, Zenon DEF GivesUp
  <2> QED  BY <1>1, <1>2, <2>1, <2>2, <2>4, <2>5, <2>6, Zenon DEF Moves
<1> QED  BY <1>4, <1>5

LEMMA RecursiveMoves ==
  ASSUME IInv, NEW c \in Queries, n > 0, resolve_recursive(c)
  PROVE  Moves(c)
<1>1. /\ q[c].pc = "client" /\ q[c].pc \notin Over
      /\ UNCHANGED <<group, counter, up, cache, conns>>
  BY Zenon DEF resolve_recursive, Over
<1>2. /\ conns \in [Conns -> ConnType] /\ q \in [Queries -> QueryType]
      /\ cache \in [Servers -> Conns \cup {NoConn}] /\ steady \in [Queries -> SUBSET Servers]
      /\ GiveUp(c) \in QueryType /\ Answered(c) \in QueryType
  BY EndTypes, Zenon DEF IInv, Types, ConnType, QueryType
<1>3. \/ /\ q' = [q EXCEPT ![c] = GiveUp(c)]
         /\ steady' = [steady EXCEPT ![c] = @ \ {Now(c)}]
      \/ /\ q' = [q EXCEPT ![c] = Answered(c)]
         /\ steady' = [steady EXCEPT ![c] = {}]
  BY Zenon DEF resolve_recursive
<1>4. /\ q' \in [Queries -> QueryType] /\ steady' \in [Queries -> SUBSET Servers]
      /\ \A d \in Queries \ {c} : q'[d] = q[d] /\ steady'[d] = steady[d]
  BY <1>2, <1>3, Zenon
<1>5. AnswersQ(c) \/ GivesUp(c)
  BY <1>2, <1>3, Zenon DEF AnswersQ, GivesUp, Answered
<1> QED  BY <1>1, <1>2, <1>4, <1>5, Zenon DEF Moves

\* Every step of a client of a group with servers.
LEMMA ResolveMoves ==
  ASSUME IInv, NEW c \in Queries, n > 0, resolve(c)
  PROVE  Moves(c)
<1>1. CASE TakeCached(c)
  BY <1>1, TakeMoves, Zenon DEF TakeCached
<1>2. CASE OnConnection(c)
  BY <1>2, CachedMoves, ConnectMoves, FreshMoves DEF OnConnection
<1>3. CASE resolve_udp(c) \/ resolve_recursive(c)
  BY <1>3, UdpMoves, RecursiveMoves
<1>4. ~NoResolvers(c)
  BY GroupTypes DEF NoResolvers, IInv
<1> QED  BY <1>1, <1>2, <1>3, <1>4 DEF resolve, resolve_tcp, resolve_dot, resolve_doh, resolve_doq

-----------------------------------------------------------------------------
LEMMA InitInv == ASSUME Init PROVE IInv
<1>1. group \in Groups /\ up \subseteq DOMAIN Resolvers
  BY DEF Init
<1>2. Types
  BY <1>1, Zenon DEF Init, Types, Ended, Pcs, Free, NoConn
<1>3. ASSUME NEW c \in Queries  PROVE QueryInv(c)
  BY Zenon DEF Init, QueryInv, Ended, Over
<1> QED  BY <1>2, <1>3 DEF IInv

\* A query begins.
LEMMA BeginStep ==
  ASSUME IInv, NEW c \in Queries, NEW start \in 0 .. n, Begin(c, start)
  PROVE  IInv' /\ Service!Next
<1>1. /\ n \in Nat /\ n' = n /\ Resolvers' = Resolvers
      /\ DOMAIN Resolvers = 1 .. n /\ DOMAIN Resolvers \subseteq Servers
      /\ Strategy \in {"round_robin", "random", "failover"}
      /\ UNCHANGED <<group, cache, conns, up>>
  BY GroupTypes, Zenon DEF IInv, Begin, n, Resolvers
<1>2. n > 0 => start \in 0 .. (n - 1)
  <2>1. CASE n > 0 /\ Strategy = "round_robin"
    <3>1. start = counter % n /\ counter \in Nat
      BY <1>1, <2>1, Zenon DEF Begin, IInv, Types
    <3> QED  BY <1>1, <2>1, <3>1, InGroup
  <2>2. CASE n > 0 /\ Strategy \in {"random", "failover"}
    BY <1>1, <2>2 DEF Begin
  <2> QED  BY <1>1, <2>1, <2>2
<1> DEFINE new == [pc |-> "client", start |-> start, i |-> 0, conn |-> NoConn]
           S == {s \in up : Resolvers[s].routable}
<1>3. new \in QueryType /\ new.pc = "client" /\ new.start = start /\ new.i = 0
  BY <1>1 DEF QueryType, Pcs
<1>4. S \subseteq Servers /\ (n = 0 => S = {})
  BY <1>1 DEF IInv, Types
<1> HIDE DEF new
<1>5. /\ q \in [Queries -> QueryType] /\ steady \in [Queries -> SUBSET Servers]
      /\ q' = [q EXCEPT ![c] = new] /\ steady' = [steady EXCEPT ![c] = S]
      /\ q[c].pc \in Over
  BY Zenon DEF IInv, Types, QueryType, Begin, Over, new
<1> HIDE DEF S
<1>6. /\ q' \in [Queries -> QueryType] /\ steady' \in [Queries -> SUBSET Servers]
      /\ q'[c] = new /\ steady'[c] = S
      /\ \A d \in Queries \ {c} : q'[d] = q[d] /\ steady'[d] = steady[d]
  BY <1>3, <1>4, <1>5, Zenon
<1>7. counter' \in Nat
  <2>1. counter \in Nat
    BY Zenon DEF IInv, Types
  <2>2. (counter + 1) % Wrap \in Nat
    BY <2>1, WrapAssumption, InGroup
  <2> QED  BY <2>1, <2>2, Zenon DEF Begin
<1>8. Types'
  BY <1>1, <1>6, <1>7, Zenon DEF IInv, Types, QueryType
<1>9. ASSUME NEW d \in Queries \ {c}  PROVE QueryInv(d)'
  <2>1. QueryInv(d)
    BY DEF IInv
  <2> QED  BY <1>1, <1>6, <2>1, Zenon DEF QueryInv, Now, Nth
<1>10. QueryInv(c)'
  <2>1. /\ n > 0 => q'[c].start \in 0 .. (n - 1) /\ q'[c].i \in 0 .. (n - 1)
        /\ q'[c].pc = "client" /\ q'[c].i - 1 = -1
    BY <1>1, <1>2, <1>3, <1>6
  <2> QED  BY <1>1, <1>6, <2>1 DEF QueryInv, Over, S
<1>11. Service!Next
  <2>1. Status[c] # "asked"
    BY <1>5, Zenon DEF Status, Over
  <2>2. Status' = [Status EXCEPT ![c] = "asked"]
    BY <1>3, <1>6, Zenon DEF Status
  <2> QED  BY <1>4, <1>5, <2>1, <2>2, Zenon DEF Service!Next, Service!Ask
<1> QED  BY <1>8, <1>9, <1>10, <1>11 DEF IInv

\* A group without servers fails every query.
LEMMA NoResolversStep ==
  ASSUME IInv, NEW c \in Queries, NoResolvers(c)
  PROVE  IInv' /\ Service!Next
<1>1. /\ n = 0 /\ n' = n /\ Resolvers' = Resolvers /\ q[c].pc = "client"
      /\ UNCHANGED <<group, counter, cache, conns, up, steady>>
  BY DEF NoResolvers, n, Resolvers
<1>2. DOMAIN Resolvers = {} /\ up = {}
  BY <1>1, GroupTypes DEF IInv, Types
<1>3. steady[c] = {}
  BY <1>2, Zenon DEF IInv, QueryInv
<1> DEFINE new == Ended("failed")
<1>4. new \in QueryType /\ new.pc = "failed"
  BY DEF QueryType, Ended, Pcs
<1> HIDE DEF new
<1>5. /\ q \in [Queries -> QueryType] /\ steady \in [Queries -> SUBSET Servers]
      /\ q' = [q EXCEPT ![c] = new]
  BY Zenon DEF IInv, Types, QueryType, NoResolvers, new
<1>6. q' \in [Queries -> QueryType] /\ q'[c] = new /\ \A d \in Queries \ {c} : q'[d] = q[d]
  BY <1>4, <1>5
<1>7. Types'
  BY <1>1, <1>6, Zenon DEF IInv, Types, QueryType
<1>8. ASSUME NEW d \in Queries  PROVE QueryInv(d)'
  <2>1. QueryInv(d)
    BY DEF IInv
  <2>2. CASE d = c
    BY <1>1, <1>3, <1>4, <1>6, <2>2, Zenon DEF QueryInv, Over
  <2>3. CASE d # c
    BY <1>1, <1>6, <2>1, <2>3, Zenon DEF QueryInv, Now, Nth
  <2> QED  BY <2>2, <2>3
<1>9. Service!Next
  <2>1. Status[c] = "asked"
    BY <1>1, Zenon DEF Status
  <2>2. Status' = [Status EXCEPT ![c] = "failed"]
    BY <1>4, <1>6, Zenon DEF Status
  <2>3. steady' = [steady EXCEPT ![c] = {}]
    BY <1>1, <1>3, <1>5
  <2> QED  BY <1>3, <2>1, <2>2, <2>3, Zenon DEF Service!Next, Service!Fail
<1> QED  BY <1>7, <1>8, <1>9 DEF IInv

\* Servers go and come and close connections.
LEMMA ServersStep ==
  ASSUME IInv,
         \/ \E s \in DOMAIN Resolvers : ServerDown(s) \/ ServerUp(s)
         \/ \E k \in Conns : CloseConn(k)
  PROVE  IInv' /\ (Service!Next \/ UNCHANGED Service!vars)
<1>1. /\ n' = n /\ Resolvers' = Resolvers /\ Status' = Status
      /\ UNCHANGED <<group, counter, cache, q>>
  BY Zenon DEF ServerDown, ServerUp, CloseConn, n, Resolvers, Status
<1>2. /\ conns \in [Conns -> ConnType] /\ steady \in [Queries -> SUBSET Servers]
      /\ up \subseteq DOMAIN Resolvers
  BY Zenon DEF IInv, Types, ConnType
<1>3. /\ conns' \in [Conns -> ConnType] /\ steady' \in [Queries -> SUBSET Servers]
      /\ up' \subseteq DOMAIN Resolvers
      /\ \A c \in Queries : steady'[c] \subseteq steady[c]
      /\ \A k \in Conns : conns'[k].of = conns[k].of
  <2>1. ASSUME NEW s \in DOMAIN Resolvers, ServerDown(s)  PROVE <1>3!:
    BY <1>2, <2>1, Zenon DEF ServerDown, ConnType
  <2>2. ASSUME NEW s \in DOMAIN Resolvers, ServerUp(s)  PROVE <1>3!:
    BY <1>2, <2>2 DEF ServerUp
  <2>3. ASSUME NEW k \in Conns, CloseConn(k)  PROVE <1>3!:
    BY <1>2, <2>3, ZenonT(40) DEF CloseConn, ConnType
  <2> QED  BY <2>1, <2>2, <2>3, Zenon
<1>4. Types'
  BY <1>1, <1>3, Zenon DEF IInv, Types, ConnType
<1>5. ASSUME NEW c \in Queries  PROVE QueryInv(c)'
  <2>1. QueryInv(c) /\ steady'[c] \subseteq steady[c] /\ q'[c] = q[c] /\ Now(c)' = Now(c)
        /\ \A j : Nth(c, j)' = Nth(c, j)
    BY <1>1, <1>3, Zenon DEF IInv, Now, Nth
  <2>2. steady'[c] \subseteq {s \in up' : Resolvers[s].routable}
    <3>1. steady[c] \subseteq {s \in up : Resolvers[s].routable}
      BY <2>1, Zenon DEF QueryInv
    <3>2. ASSUME NEW s \in DOMAIN Resolvers, ServerDown(s)  PROVE <2>2
      BY <3>1, <3>2, Zenon DEF ServerDown
    <3>3. ASSUME NEW s \in DOMAIN Resolvers, ServerUp(s)  PROVE <2>2
      BY <2>1, <3>1, <3>3, Zenon DEF ServerUp
    <3>4. ASSUME NEW k \in Conns, CloseConn(k)  PROVE <2>2
      BY <2>1, <3>1, <3>4, Zenon DEF CloseConn
    <3> QED  BY <3>2, <3>3, <3>4, Zenon
  <2>3. ASSUME q[c].pc = "fresh", ~conns'[q[c].conn].open  PROVE Now(c) \notin steady'[c]
    <3>1. /\ q[c].conn \in Conns /\ conns[q[c].conn].of = Now(c)
          /\ ~conns[q[c].conn].open => Now(c) \notin steady[c]
      BY <2>1, <2>3, Zenon DEF QueryInv
    <3>2. CASE ~conns[q[c].conn].open
      BY <2>1, <3>1, <3>2, Zenon
    <3>3. ASSUME NEW s \in DOMAIN Resolvers, ServerDown(s), conns[q[c].conn].open
          PROVE  Now(c) \notin steady'[c]
      <4>1. s = Now(c)
        BY <1>2, <2>3, <3>1, <3>3, Zenon DEF ServerDown, ConnType
      <4> QED  BY <3>3, <4>1, Zenon DEF ServerDown
    <3>4. ASSUME NEW s \in DOMAIN Resolvers, ServerUp(s), conns[q[c].conn].open
          PROVE  FALSE
      BY <2>3, <3>4, Zenon DEF ServerUp
    <3>5. ASSUME NEW k \in Conns, CloseConn(k), conns[q[c].conn].open
          PROVE  Now(c) \notin steady'[c]
      <4>1. k = q[c].conn
        BY <1>2, <2>3, <3>1, <3>5, Zenon DEF CloseConn, ConnType
      <4> QED  BY <2>3, <3>1, <3>5, <4>1, Zenon DEF CloseConn
    <3> QED  BY <3>2, <3>3, <3>4, <3>5, Zenon
  <2>4. q[c].pc = "fresh" => q[c].conn \in Conns /\ conns'[q[c].conn].of = Now(c)
    BY <1>3, <2>1, Zenon DEF QueryInv
  <2> QED  BY <1>1, <2>1, <2>2, <2>3, <2>4, Zenon DEF QueryInv
<1>6. Service!Next
  BY <1>1, <1>3, Zenon DEF Service!Next, Service!Trouble
<1> QED  BY <1>4, <1>5, <1>6 DEF IInv

\* Every step keeps the invariant and is one of the service or invisible to it.
LEMMA Step ==
  ASSUME IInv, [Next]_vars
  PROVE  IInv' /\ (Service!Next \/ UNCHANGED Service!vars)
<1>1. ASSUME NEW c \in Queries, resolve(c)
      PROVE  IInv' /\ (Service!Next \/ UNCHANGED Service!vars)
  <2>1. CASE n > 0
    BY <1>1, <2>1, ResolveMoves, MovesInv, MovesService
  <2>2. CASE ~(n > 0)
    <3>1. NoResolvers(c)
      BY <1>1, <2>2 DEF resolve, resolve_tcp, resolve_dot, resolve_doh, resolve_doq
    <3> QED  BY <3>1, NoResolversStep
  <2> QED  BY <2>1, <2>2
<1>2. ASSUME NEW c \in Queries, NEW start \in 0 .. n, Begin(c, start)
      PROVE  IInv' /\ Service!Next
  BY <1>2, BeginStep
<1>3. CASE UNCHANGED vars
  <2>1. Types'
    BY <1>3, Zenon DEF IInv, Types, vars, Resolvers
  <2>2. \A c \in Queries : QueryInv(c)'
    BY <1>3, Zenon DEF IInv, QueryInv, vars, n, Resolvers, Now, Nth
  <2>3. UNCHANGED Service!vars
    BY <1>3 DEF vars, Status, Service!vars
  <2> QED  BY <2>1, <2>2, <2>3 DEF IInv
<1> QED  BY <1>1, <1>2, <1>3, ServersStep DEF Next

-----------------------------------------------------------------------------
(* A query fails only if each of its servers was in trouble while it       *)
(* lasted: stale cached connections and other queries, in whatever order   *)
(* they use, evict and replace them, never make one fail.                  *)
THEOREM FailuresAreTrouble == Spec => []FailsOnlyInTrouble
<1>1. IInv => FailsOnlyInTrouble
  BY Zenon DEF IInv, QueryInv, FailsOnlyInTrouble, Over
<1>2. IInv /\ [Next]_vars => IInv'
  BY Step
<1> QED  BY InitInv, <1>1, <1>2, PTL DEF Spec

(* StrategyUpstreamResolver over its clients does what UpstreamService     *)
(* promises to the pipeline.                                               *)
THEOREM ServiceImplemented == Spec => ImplementsService
<1>1. Init => Service!Init
  BY DEF Init, Service!Init, Status, Ended
<1>2. IInv /\ [Next]_vars => IInv'
  BY Step
<1>3. IInv /\ [Next]_vars => [Service!Next]_(Service!vars)
  BY Step
<1> QED  BY InitInv, <1>1, <1>2, <1>3, PTL DEF Spec, ImplementsService, Service!Spec

-----------------------------------------------------------------------------
(* Turns.                                                                  *)

RoundRobin == n > 0 /\ Strategy = "round_robin"

(* Since the last time that all servers were equal, those up to the        *)
(* counter's place in the group have had their turn.                       *)
TurnsInv ==
  /\ counter \in 0 .. (Wrap - 1)
  /\ turns \in [Servers -> Nat]
  /\ \A s \in Servers : turns[s] = IF RoundRobin /\ s <= counter % n THEN 1 ELSE 0

\* One more goes to the next place of the group, after the last to the first.
LEMMA NextPlace ==
  ASSUME NEW len \in Nat \ {0}, NEW a \in Nat
  PROVE  (a + 1) % len = IF (a % len) + 1 = len THEN 0 ELSE (a % len) + 1
<1> DEFINE d == a \div len
           r == a % len
<1>1. d \in Nat /\ r \in 0 .. (len - 1) /\ a = len * d + r
  BY SMT
<1> HIDE DEF d, r
<1>2. CASE r + 1 = len
  <2>1. a + 1 = len * (d + 1)
    BY <1>1, <1>2, SMT
  <2>2. (a + 1) % len = 0
    BY <1>1, <2>1, SMT
  <2> QED  BY <1>2, <2>2 DEF r
<1>3. CASE r + 1 # len
  <2>1. a + 1 = len * d + (r + 1) /\ r + 1 \in 0 .. (len - 1)
    BY <1>1, <1>3, SMT
  <2>2. (a + 1) % len = r + 1
    BY <1>1, <2>1, SMT
  <2> QED  BY <1>3, <2>2 DEF r
<1> QED  BY <1>2, <1>3

\* Also where the counter wraps, if the group's size divides its range.
LEMMA NextPlaceWrapped ==
  ASSUME NEW len \in Nat \ {0}, NEW a \in 0 .. (Wrap - 1), a + 1 < Wrap \/ Wrap % len = 0
  PROVE  ((a + 1) % Wrap) % len = IF (a % len) + 1 = len THEN 0 ELSE (a % len) + 1
<1>1. Wrap \in Nat \ {0} /\ a \in Nat
  BY WrapAssumption
<1> DEFINE next == IF (a % len) + 1 = len THEN 0 ELSE (a % len) + 1
<1>4. (a + 1) % len = next
  BY <1>1, NextPlace, Zenon
<1>2. CASE a + 1 < Wrap
  <2>1. (a + 1) % Wrap = a + 1
    BY <1>1, <1>2, SMT
  <2> QED  BY <2>1, <1>4
<1>3. CASE a + 1 = Wrap /\ Wrap % len = 0
  <2>1. (a + 1) % Wrap = 0 /\ 0 % len = 0
    BY <1>1, <1>3, SMT
  <2>2. (a + 1) % len = 0 /\ (a % len) + 1 # 0
    BY <1>1, <1>3, InGroup
  <2>3. (a % len) + 1 = len
    BY <1>4, <2>2
  <2> QED  BY <2>1, <2>3
<1> QED  BY <1>1, <1>2, <1>3

LEMMA TurnsInit == ASSUME Init PROVE TurnsInv
<1>1. group \in Groups /\ counter = 0 /\ turns = [s \in Servers |-> 0] /\ Servers \subseteq Nat \ {0}
  BY GroupsAssumption, Zenon DEF Init
<1>2. n \in Nat
  BY <1>1, GroupsAssumption DEF n, Resolvers
<1>3. RoundRobin => 0 % n = 0
  BY <1>2, SMT DEF RoundRobin
<1>4. ASSUME NEW s \in Servers  PROVE ~(RoundRobin /\ s <= counter % n)
  BY <1>1, <1>3
<1> QED  BY <1>1, <1>4, WrapAssumption DEF TurnsInv

\* The server whose turn it is has its turn.
LEMMA TurnsBegin ==
  ASSUME IInv, TurnsInv, NEW c \in Queries, NEW start \in 0 .. n, Begin(c, start),
         RoundRobin => counter + 1 < Wrap \/ Wrap % n = 0
  PROVE  TurnsInv'
<1>1. /\ n \in Nat /\ n' = n /\ Resolvers' = Resolvers /\ RoundRobin' = RoundRobin
      /\ DOMAIN Resolvers = 1 .. n /\ DOMAIN Resolvers \subseteq Servers
  BY GroupTypes, Zenon DEF IInv, Begin, n, Resolvers, RoundRobin, Strategy
<1>2. Servers \subseteq Nat \ {0} /\ counter \in 0 .. (Wrap - 1) /\ Wrap \in Nat \ {0}
  BY GroupsAssumption, WrapAssumption, Zenon DEF TurnsInv
<1>3. CASE ~RoundRobin
  <2>1. counter' = counter /\ turns' = turns
    BY <1>3, Zenon DEF Begin, RoundRobin
  <2> QED  BY <1>1, <1>3, <2>1, Zenon DEF TurnsInv
<1>4. CASE RoundRobin
  <2> DEFINE r == counter % n
             t == [turns EXCEPT ![r + 1] = @ + 1]
  <2>1. n \in Nat \ {0} /\ r \in 0 .. (n - 1) /\ r + 1 \in Servers
    <3>1. n \in Nat \ {0} /\ counter \in Nat
      BY <1>1, <1>2, <1>4 DEF RoundRobin
    <3>2. r \in 0 .. (n - 1) /\ r + 1 \in 1 .. n
      BY <3>1, InGroup, Zenon
    <3> QED  BY <1>1, <3>1, <3>2, Zenon
  <2>2. /\ counter' = (counter + 1) % Wrap
        /\ turns' = IF \A s \in DOMAIN Resolvers : t[s] > 0
                    THEN [s \in Servers |-> IF t[s] > 0 THEN t[s] - 1 ELSE 0] ELSE t
    <3>1. n > 0 /\ Strategy = "round_robin"
      BY <1>4 DEF RoundRobin
    <3>2. start = r /\ counter' = (counter + 1) % Wrap /\ turns' = Turn(start + 1)
      BY <3>1, Zenon DEF Begin
    <3> HIDE DEF r
    <3> QED  BY <3>2 DEF Turn
  <2>3. counter' \in 0 .. (Wrap - 1)
    BY <1>2, <2>2, InGroup
  <2>4. counter' % n = IF r + 1 = n THEN 0 ELSE r + 1
    <3>1. counter + 1 < Wrap \/ Wrap % n = 0
      BY <1>4
    <3> QED  BY <1>2, <2>1, <2>2, <3>1, NextPlaceWrapped, Zenon
  <2>5. turns \in [Servers -> Nat] /\ \A s \in Servers : turns[s] = IF s <= r THEN 1 ELSE 0
    BY <1>4 DEF TurnsInv
  <2> HIDE DEF r
  <2>6. t \in [Servers -> Nat] /\ \A s \in Servers : t[s] = IF s <= r + 1 THEN 1 ELSE 0
    BY <1>2, <2>1, <2>5
  <2> HIDE DEF t
  <2>7. CASE r + 1 = n
    <3>1. \A s \in DOMAIN Resolvers : t[s] > 0
      BY <1>1, <2>1, <2>6, <2>7
    <3>2. turns' = [s \in Servers |-> IF t[s] > 0 THEN t[s] - 1 ELSE 0]
      BY <2>2, <3>1, Zenon
    <3>3. turns' \in [Servers -> Nat] /\ \A s \in Servers : turns'[s] = 0
      BY <2>6, <3>2
    <3>4. \A s \in Servers : ~(s <= counter' % n)
      BY <1>2, <2>4, <2>7
    <3> QED  BY <1>1, <1>4, <2>3, <3>3, <3>4, Zenon DEF TurnsInv
  <2>8. CASE r + 1 # n
    <3>1. n \in DOMAIN Resolvers /\ t[n] = 0
      BY <1>1, <2>1, <2>6, <2>8
    <3>2. turns' = t
      BY <2>2, <3>1
    <3> QED  BY <1>1, <1>4, <2>3, <2>4, <2>6, <2>8, <3>2, Zenon DEF TurnsInv
  <2> QED  BY <2>7, <2>8
<1> QED  BY <1>3, <1>4

\* No other step touches the counter or counts a turn.
LEMMA TurnsStep ==
  ASSUME IInv, TurnsInv, [Next]_vars,
         UNCHANGED <<counter, turns>> \/ ~RoundRobin \/ counter + 1 < Wrap \/ Wrap % n = 0
  PROVE  TurnsInv'
<1>1. ASSUME UNCHANGED <<group, counter, turns>>  PROVE TurnsInv'
  <2>1. n' = n /\ RoundRobin' = RoundRobin
    BY <1>1 DEF RoundRobin, n, Resolvers, Strategy
  <2> QED  BY <1>1, <2>1 DEF TurnsInv
<1>2. ASSUME NEW c \in Queries, resolve(c)  PROVE UNCHANGED <<group, counter, turns>>
  BY <1>2, Zenon DEF resolve, NoResolvers, resolve_udp, resolve_recursive, resolve_tcp, resolve_dot,
     resolve_doh, resolve_doq, OnConnection, TakeCached, UseCached, Connect, UseFresh
<1>3. ASSUME NEW c \in Queries, NEW start \in 0 .. n, Begin(c, start)  PROVE TurnsInv'
  <2>1. CASE UNCHANGED <<counter, turns>>
    BY <1>1, <1>3, <2>1, Zenon DEF Begin
  <2>2. CASE ~UNCHANGED <<counter, turns>>
    BY <1>3, <2>2, TurnsBegin
  <2> QED  BY <2>1, <2>2
<1>4. ASSUME \/ \E s \in DOMAIN Resolvers : ServerDown(s) \/ ServerUp(s)
             \/ \E k \in Conns : CloseConn(k)
      PROVE  UNCHANGED <<group, counter, turns>>
  BY <1>4, Zenon DEF ServerDown, ServerUp, CloseConn
<1>5. CASE UNCHANGED vars
  BY <1>1, <1>5 DEF vars
<1> QED  BY <1>1, <1>2, <1>3, <1>4, <1>5 DEF Next

LEMMA TurnsShown == ASSUME TurnsInv PROVE TurnsAreEven
  BY DEF TurnsInv, TurnsAreEven

(* However queries overlap and fail, round robin begins with no server two *)
(* times more often than with another, as long as no query begins at the   *)
(* last value of the counter (2^64 - 1).                                   *)
THEOREM TurnsEvenUntilWrap == Spec /\ [][counter + 1 < Wrap]_<<counter, turns>> => []TurnsAreEven
<1>1. IInv /\ [Next]_vars => IInv'
  BY Step
<1>2. IInv /\ TurnsInv /\ [Next]_vars /\ [counter + 1 < Wrap]_<<counter, turns>> => TurnsInv'
  BY TurnsStep
<1> QED  BY InitInv, TurnsInit, TurnsShown, <1>1, <1>2, PTL DEF Spec

(* A group whose size divides the range of the counter (a power of two)    *)
(* takes turns evenly for ever, where the counter wraps as well.           *)
THEOREM TurnsEvenForEver ==
  ASSUME \A g \in Groups : g.strategy = "round_robin" /\ Len(g.resolvers) > 0
                             => Wrap % Len(g.resolvers) = 0
  PROVE  Spec => []TurnsAreEven
<1>1. IInv /\ [Next]_vars => IInv'
  BY Step, Zenon
<1>2. IInv /\ TurnsInv /\ [Next]_vars => TurnsInv'
  <2>1. IInv => ~RoundRobin \/ Wrap % n = 0
    BY Zenon DEF IInv, Types, RoundRobin, n, Resolvers, Strategy
  <2> QED  BY <2>1, TurnsStep, Zenon
<1> QED  BY InitInv, TurnsInit, TurnsShown, <1>1, <1>2, PTL DEF Spec
=============================================================================
