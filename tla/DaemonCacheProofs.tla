------------------------- MODULE DaemonCacheProofs -------------------------
(***************************************************************************)
(* Two machines that share no state.                                       *)
(*                                                                         *)
(* The daemon, for any number of processes that are started, stopped and   *)
(* killed at any time: the socket file of a running daemon is its own, and *)
(* the database is seeded at most once.                                    *)
(*                                                                         *)
(* The response cache, for every set of keys and of concurrent queries,    *)
(* every limit and every TTL: it stays within its limit, drops what        *)
(* expires first, and what it answers is fresh.                            *)
(***************************************************************************)
EXTENDS Daemon, ResponseCache, FiniteSetTheorems, TLAPS

Pcs == {"down", "count_lists", "count_servers", "seed", "load", "port", "listeners",
        "check", "remove", "bind", "run", "closing", "closed"}

\* Where a process has the port.
Holding == {"listeners", "check", "remove", "bind", "run"}

(* The exclusive port serialises the start-ups from its binding to the     *)
(* binding of the socket, and a daemon that closes still answers on the    *)
(* socket until it has removed the file: so nobody else can have a file    *)
(* when one is removed.                                                    *)
SocketInv ==
  /\ pc \in [Procs -> Pcs]
  /\ file \in Procs \cup {"none", "stale"}
  /\ \A p \in Procs :
       /\ pc[p] \in Holding => port = p
       /\ pc[p] = "remove" => file = "stale"
       /\ pc[p] = "bind" => file = "none"
       /\ pc[p] \in {"run", "closing"} <=> file = p

LEMMA SocketInit == ASSUME DaemonInit PROVE SocketInv
  BY ProcsAssumption DEF DaemonInit, SocketInv, Pcs, Holding

\* The process is gone, wherever it was.
LEMMA SocketEnds ==
  ASSUME SocketInv, NEW p \in Procs, Ends(p)
  PROVE  SocketInv'
<1>1. pc' \in [Procs -> Pcs] /\ pc'[p] = "down" /\ \A o \in Procs \ {p} : pc'[o] = pc[o]
  BY Zenon DEF Ends, Goto, SocketInv, Pcs
<1>2. /\ file' = IF file = p THEN "stale" ELSE file
      /\ port' = IF port = p THEN Nobody ELSE port
  BY DEF Ends
<1>3. ASSUME NEW o \in Procs  PROVE
        /\ pc'[o] \in Holding => port' = o
        /\ pc'[o] = "remove" => file' = "stale"
        /\ pc'[o] = "bind" => file' = "none"
        /\ pc'[o] \in {"run", "closing"} <=> file' = o
  <2>1. CASE o = p
    BY <1>1, <1>2, <2>1, ProcsAssumption DEF Holding
  <2>2. CASE o # p
    BY <1>1, <1>2, <2>2, ProcsAssumption DEF SocketInv
  <2> QED  BY <2>1, <2>2, Zenon
<1>4. file' \in Procs \cup {"none", "stale"}
  BY <1>2 DEF SocketInv
<1> QED  BY <1>1, <1>3, <1>4, Zenon DEF SocketInv

\* A step that leaves the sockets alone and goes on before them.
LEMMA SocketGoes ==
  ASSUME SocketInv, NEW p \in Procs, NEW to \in Pcs \ {"remove", "bind", "run", "closing"},
         Goto(p, to), UNCHANGED net,
         pc[p] \notin {"run", "closing"}, to \in Holding => port = p
  PROVE  SocketInv'
<1>1. /\ pc' \in [Procs -> Pcs] /\ pc'[p] = to /\ \A o \in Procs \ {p} : pc'[o] = pc[o]
      /\ port' = port /\ file' = file
  BY DEF Goto, SocketInv, net
<1>2. ASSUME NEW o \in Procs  PROVE
        /\ pc'[o] \in Holding => port' = o
        /\ pc'[o] = "remove" => file' = "stale"
        /\ pc'[o] = "bind" => file' = "none"
        /\ pc'[o] \in {"run", "closing"} <=> file' = o
  BY <1>1 DEF SocketInv
<1> QED  BY <1>1, <1>2, Zenon DEF SocketInv

\* A step that changes neither the processes nor their sockets.
LEMMA SocketStays ==
  ASSUME SocketInv, UNCHANGED <<pc, net>>
  PROVE  SocketInv'
  BY DEF SocketInv, net

\* How a start-up that has the port goes on to its socket.
LEMMA SocketBinds ==
  ASSUME SocketInv, NEW p \in Procs,
         CheckSocket(p) \/ RemoveStale(p) \/ BindSocket(p)
  PROVE  SocketInv'
<1>1. CASE Ends(p)
  BY <1>1, SocketEnds
<1>2. CASE ~Ends(p)
  <2>1. pc[p] \in Holding /\ port = p /\ port' = p /\ pc[p] \in Pcs /\ file # p
    BY <1>2, Zenon DEF CheckSocket, RemoveStale, BindSocket, SocketInv, Holding, net
  <2>2. \A o \in Procs \ {p} : pc[o] \notin Holding
    BY <2>1 DEF SocketInv
  <2>3. \/ pc'[p] = "bind" /\ file' = "none" /\ file \in {"none", "stale"}
        \/ pc'[p] = "remove" /\ file' = "stale" /\ file = "stale"
        \/ pc'[p] = "run" /\ file' = p /\ file = "none"
    <3>1. CASE CheckSocket(p)
      <4>1. file \notin Procs
        BY <1>2, <3>1 DEF CheckSocket, Alive, SocketInv
      <4> QED  BY <1>2, <3>1, <4>1, Zenon DEF CheckSocket, Goto, SocketInv, net
    <3>2. CASE RemoveStale(p)
      BY <1>2, <3>2, Zenon DEF RemoveStale, Goto, SocketInv
    <3>3. CASE BindSocket(p)
      BY <1>2, <3>3, Zenon DEF BindSocket, Goto, SocketInv
    <3> QED  BY <3>1, <3>2, <3>3, Zenon
  <2>4. pc' \in [Procs -> Pcs] /\ \A o \in Procs \ {p} : pc'[o] = pc[o]
    BY <1>2, Zenon DEF CheckSocket, RemoveStale, BindSocket, Goto, SocketInv, Pcs
  <2>5. ASSUME NEW o \in Procs \ {p}  PROVE
          /\ pc'[o] \notin Holding /\ pc'[o] \notin {"run", "closing"} /\ file' # o
    <3>1. pc[o] \notin Holding /\ file # o
      BY <2>2, <2>3, ProcsAssumption
    <3>2. pc[o] \notin {"run", "closing"}
      BY <3>1 DEF SocketInv
    <3> QED  BY <2>3, <2>4, <3>1, <3>2, ProcsAssumption
  <2>6. "remove" \in Holding /\ "bind" \in Holding /\ "run" \in Holding
    BY DEF Holding
  <2> QED  BY <2>1, <2>3, <2>4, <2>5, <2>6, ProcsAssumption, Zenon DEF SocketInv
<1> QED  BY <1>1, <1>2

\* The end of a daemon, without the end of its process.
LEMMA SocketCloses ==
  ASSUME SocketInv, NEW p \in Procs,
         Terminate(p) \/ ClosePort(p) \/ Cleanup(p)
  PROVE  SocketInv'
<1>1. CASE Terminate(p)
  BY <1>1, Zenon DEF Terminate, Goto, SocketInv, Pcs, Holding, net
<1>2. CASE ClosePort(p)
  BY <1>2, Zenon DEF ClosePort, SocketInv, Holding
<1>3. CASE Cleanup(p)
  <2>1. /\ file = p /\ file' = "none" /\ port' = port
        /\ pc' \in [Procs -> Pcs] /\ pc'[p] = "closed" /\ \A o \in Procs \ {p} : pc'[o] = pc[o]
    BY <1>3, Zenon DEF Cleanup, Goto, SocketInv, Pcs
  <2>2. ASSUME NEW o \in Procs  PROVE
          /\ pc'[o] \in Holding => port' = o
          /\ pc'[o] # "remove" /\ pc'[o] \notin {"run", "closing"} /\ file' # o
    <3>1. CASE o = p
      BY <2>1, <3>1, ProcsAssumption DEF Holding
    <3>2. CASE o # p
      BY <2>1, <3>2, ProcsAssumption DEF SocketInv
    <3> QED  BY <3>1, <3>2
  <2> QED  BY <2>1, <2>2 DEF SocketInv
<1> QED  BY <1>1, <1>2, <1>3

\* `stop` on the control socket cancels the token of the daemon that runs.
LEMMA SocketRuntime ==
  ASSUME SocketInv, Runtime
  PROVE  SocketInv'
<1>1. CASE Handle
  <2>1. UNCHANGED pc \/ pc' = [p \in Procs |-> IF pc[p] = "run" THEN "closing" ELSE pc[p]]
    BY <1>1, Zenon DEF Handle
  <2>2. port' = port /\ file' = file
    BY <1>1, Zenon DEF Handle, net
  <2> QED  BY <2>1, <2>2, Zenon DEF SocketInv, Pcs, Holding
<1>2. CASE ~Handle
  <2>1. UNCHANGED <<pc, net>>
    BY <1>2, Zenon DEF Runtime, Edit, Hangup, Forward, Accept, Reply, Timeout, ReloadBegin, ReloadEnd, SetList, still
  <2> QED  BY <2>1, SocketStays
<1> QED  BY <1>1, <1>2

LEMMA SocketStep == ASSUME SocketInv, [DaemonNext]_daemon_vars PROVE SocketInv'
<1>1. ASSUME NEW p \in Procs, Launch(p) \/ CountLists(p) \/ CountServers(p)  PROVE SocketInv'
  BY <1>1, SocketGoes, Zenon DEF Launch, CountLists, CountServers, Pcs, Holding
<1>2. ASSUME NEW p \in Procs, SeedRow(p)  PROVE SocketInv'
  BY <1>2, SocketEnds, SocketGoes, Zenon DEF SeedRow, Pcs, Holding
<1>3. ASSUME NEW p \in Procs, Load(p)  PROVE SocketInv'
  BY <1>3, SocketEnds, SocketGoes, Zenon DEF Load, Pcs, Holding
<1>4. ASSUME NEW p \in Procs, BindPort(p)  PROVE SocketInv'
  <2>1. CASE Ends(p)
    BY <2>1, SocketEnds
  <2>2. CASE port = Nobody /\ port' = p /\ Goto(p, "listeners") /\ UNCHANGED file
    BY <1>4, <2>2, ProcsAssumption, Zenon DEF BindPort, Goto, SocketInv, Pcs, Holding
  <2> QED  BY <1>4, <2>1, <2>2 DEF BindPort
<1>5. ASSUME NEW p \in Procs, BindTlsListeners(p)  PROVE SocketInv'
  <2>1. port = p
    BY <1>5 DEF BindTlsListeners, SocketInv, Holding
  <2> QED  BY <1>5, <2>1, SocketEnds, SocketGoes, Zenon DEF BindTlsListeners, Pcs, Holding
<1>6. ASSUME NEW p \in Procs, MainReturns(p) \/ Crash(p)  PROVE SocketInv'
  BY <1>6, SocketEnds, Zenon DEF MainReturns, Crash
<1>7. CASE UNCHANGED daemon_vars
  BY <1>7, SocketStays DEF daemon_vars
<1> QED  BY <1>1, <1>2, <1>3, <1>4, <1>5, <1>6, <1>7, SocketBinds, SocketCloses, SocketRuntime
            DEF DaemonNext, StartUp, Finish

(* `dns-filter stop`, `reload` and `status` reach the daemon that runs: no *)
(* start-up, however it is timed, and no shut-down of another daemon takes *)
(* its socket file away.                                                   *)
THEOREM DaemonReachable == DaemonSpec => []SocketReachesDaemon
<1>1. SocketInv => SocketReachesDaemon
  BY DEF SocketInv, SocketReachesDaemon
<1>2. SocketInv /\ [DaemonNext]_daemon_vars => SocketInv'
  BY SocketStep
<1> QED  BY SocketInit, <1>1, <1>2, PTL DEF DaemonSpec

-----------------------------------------------------------------------------
(* Seeding.                                                                *)

\* The first list, whose unique name only one process can write.
First == rows["lists"][1]

\* Process p has written it and is still seeding.
Seeder(p) == pc[p] = "seed" /\ seeding[p] # <<1, 1>>

\* Row j of section b is still to come when a process is at position at.
Ahead(at, b, j) == b > at[1] \/ (b = at[1] /\ j >= at[2])

(* Nothing is written before the first list, so that a process which finds *)
(* it free finds an empty database; after that the process that wrote it   *)
(* is the only one to write, and it writes every row once.                 *)
SeedInv ==
  /\ DOMAIN rows = Tables
  /\ \A s \in Tables : rows[s] \in [1 .. Yaml[s] -> {0, 1}]
  /\ seeding \in [Procs -> (1 .. 6) \X (Nat \ {0})]
  /\ pc \in [Procs -> Pcs]
  /\ \A s \in Tables : \A i \in 1 .. Yaml[s] : rows[s][i] = 1 => First = 1
  /\ \A p \in Procs : Seeder(p) =>
       /\ First = 1
       /\ \A b \in 1 .. 6 : \A j \in 1 .. Yaml[Sections[b]] :
            Ahead(seeding[p], b, j) => rows[Sections[b]][j] = 0
  /\ \A p, o \in Procs : Seeder(p) /\ Seeder(o) => p = o

LEMMA SectionsAre ==
  /\ Len(Sections) = 6
  /\ Sections[1] = "lists"
  /\ \A b \in 1 .. 6 : Sections[b] \in Tables
  /\ \A b, d \in 1 .. 6 : Sections[b] = Sections[d] => b = d
<1>1. /\ Sections[1] = "lists" /\ Sections[2] = "filtering" /\ Sections[3] = "resolver"
      /\ Sections[4] = "servers" /\ Sections[5] = "zones" /\ Sections[6] = "sources"
      /\ Len(Sections) = 6
  BY DEF Sections
<1>2. \A b \in 1 .. 6 : b = 1 \/ b = 2 \/ b = 3 \/ b = 4 \/ b = 5 \/ b = 6
  OBVIOUS
<1>3. \A b \in 1 .. 6 : Sections[b] \in Tables
  BY <1>1, <1>2 DEF Tables
<1>4. ASSUME NEW b \in 1 .. 6, NEW d \in 1 .. 6, Sections[b] = Sections[d]  PROVE b = d
  BY <1>1, <1>2, <1>4
<1> QED  BY <1>1, <1>3, <1>4, Zenon

LEMMA SeedInit == ASSUME DaemonInit PROVE SeedInv
<1>1. DOMAIN Yaml = Tables /\ \A s \in Tables : Yaml[s] \in Nat
  BY YamlAssumption
<1>2. rows = [s \in Tables |-> [i \in 1 .. Yaml[s] |-> 0]]
  BY <1>1 DEF DaemonInit
<1>3. \A s \in Tables : rows[s] \in [1 .. Yaml[s] -> {0, 1}]
                        /\ \A i \in 1 .. Yaml[s] : rows[s][i] = 0
  BY <1>2
<1>4. DOMAIN rows = Tables
  BY <1>2
<1>5. pc \in [Procs -> Pcs] /\ \A p \in Procs : ~Seeder(p)
  BY DEF DaemonInit, Seeder, Pcs
<1>6. seeding \in [Procs -> (1 .. 6) \X (Nat \ {0})]
  BY DEF DaemonInit
<1> QED  BY <1>3, <1>4, <1>5, <1>6 DEF SeedInv

\* A step that writes no row and makes no process seed anew.
LEMMA SeedQuiet ==
  ASSUME SeedInv, rows' = rows,
         pc' \in [Procs -> Pcs], seeding' \in [Procs -> (1 .. 6) \X (Nat \ {0})],
         \A p \in Procs : Seeder(p)' => Seeder(p) /\ seeding'[p] = seeding[p]
  PROVE  SeedInv'
<1>1. First' = First
  BY DEF First
<1>2. ASSUME NEW p \in Procs, Seeder(p)'  PROVE
        /\ First' = 1
        /\ \A b \in 1 .. 6 : \A j \in 1 .. Yaml[Sections[b]] :
             Ahead(seeding[p], b, j)' => rows'[Sections[b]][j] = 0
  <2>1. Seeder(p) /\ seeding'[p] = seeding[p]
    BY <1>2
  <2> QED  BY <1>1, <2>1 DEF SeedInv, Ahead
<1>3. \A p, o \in Procs : Seeder(p)' /\ Seeder(o)' => p = o
  BY Zenon DEF SeedInv
<1>4. /\ DOMAIN rows' = Tables /\ \A s \in Tables : rows'[s] \in [1 .. Yaml[s] -> {0, 1}]
      /\ \A s \in Tables : \A i \in 1 .. Yaml[s] : rows'[s][i] = 1 => First' = 1
  BY <1>1, Zenon DEF SeedInv
<1> QED  BY <1>2, <1>3, <1>4, Zenon DEF SeedInv

\* What a process that may write finds: nothing from here on, and nobody else.
LEMMA SeedFinds ==
  ASSUME SeedInv, NEW p \in Procs, pc[p] = "seed",
         ~(seeding[p] = <<1, 1>> /\ rows["lists"][1] > 0)
  PROVE  /\ \A b \in 1 .. 6 : \A j \in 1 .. Yaml[Sections[b]] :
              Ahead(seeding[p], b, j) => rows[Sections[b]][j] = 0
         /\ \A o \in Procs \ {p} : ~Seeder(o)
         /\ seeding[p] # <<1, 1>> => First = 1
<1>1. CASE Seeder(p)
  BY <1>1, Zenon DEF SeedInv
<1>2. CASE ~Seeder(p)
  <2>1. seeding[p] = <<1, 1>> /\ First # 1
    BY <1>2 DEF Seeder, First
  <2>2. ASSUME NEW s \in Tables, NEW i \in 1 .. Yaml[s]
        PROVE  rows[s][i] = 0
    <3>1. rows[s] \in [1 .. Yaml[s] -> {0, 1}] /\ rows[s][i] # 1
      BY <2>1, Zenon DEF SeedInv
    <3> QED  BY <3>1, Zenon
  <2> QED  BY <2>1, <2>2, SectionsAre, Zenon DEF SeedInv
<1> QED  BY <1>1, <1>2, Zenon

LEMMA SeedRowStep ==
  ASSUME SeedInv, NEW p \in Procs, SeedRow(p)
  PROVE  SeedInv'
<1> DEFINE a == seeding[p][1]
           i == seeding[p][2]
           s == Sections[a]
           next == IF i < Yaml[s] THEN <<a, i + 1>> ELSE <<a + 1, 1>>
<1>1. /\ seeding[p] = <<a, i>> /\ a \in 1 .. 6 /\ i \in Nat \ {0}
      /\ s \in Tables /\ Yaml[s] \in Nat /\ pc[p] = "seed"
      /\ Yaml["lists"] \in Nat \ {0} /\ "lists" \in Tables
  <2>1. seeding[p] \in (1 .. 6) \X (Nat \ {0}) /\ pc[p] = "seed"
    BY Zenon DEF SeedInv, SeedRow
  <2>2. a \in 1 .. 6
    BY <2>1, Zenon
  <2>3. s \in Tables
    BY <2>2, SectionsAre, Zenon
  <2>4. Yaml[s] \in Nat /\ Yaml["lists"] \in Nat \ {0} /\ "lists" \in Tables
    <3> HIDE DEF s
    <3> QED  BY <2>3, YamlAssumption DEF Tables
  <2>5. seeding[p] = <<a, i>> /\ i \in Nat \ {0}
    BY <2>1
  <2> QED  BY <2>1, <2>2, <2>3, <2>4, <2>5, Zenon
<1> HIDE DEF a, i
<1>2. CASE Ends(p) /\ UNCHANGED <<rows, seeding>>
  <2>1. pc' \in [Procs -> Pcs] /\ pc'[p] = "down" /\ \A o \in Procs \ {p} : pc'[o] = pc[o]
    BY <1>2, Zenon DEF Ends, Goto, SeedInv, Pcs
  <2>2. ASSUME NEW o \in Procs, Seeder(o)'  PROVE Seeder(o) /\ seeding'[o] = seeding[o]
    BY <1>2, <2>1, <2>2 DEF Seeder
  <2> QED  BY <1>2, <2>1, <2>2, SeedQuiet, Zenon DEF SeedInv
<1>3. CASE /\ ~(i <= Yaml[s] /\ s \in Unique /\ rows[s][i] > 0)
           /\ rows' = IF i > Yaml[s] THEN rows
                      ELSE [rows EXCEPT ![s][i] = IF s \in Updated THEN 1 ELSE @ + 1]
           /\ seeding' = [seeding EXCEPT ![p] = IF next[1] > Len(Sections) THEN <<1, 1>> ELSE next]
           /\ Goto(p, IF next[1] > Len(Sections) THEN "load" ELSE "seed")
  <2>1. ~(seeding[p] = <<1, 1>> /\ rows["lists"][1] > 0)
    <3>1. ASSUME seeding[p] = <<1, 1>>  PROVE a = 1 /\ i = 1 /\ s = "lists" /\ i <= Yaml[s] /\ s \in Unique
      BY <1>1, <3>1, SectionsAre DEF Unique
    <3> QED  BY <1>3, <3>1, Zenon
  <2>2. /\ \A b \in 1 .. 6 : \A j \in 1 .. Yaml[Sections[b]] :
             Ahead(seeding[p], b, j) => rows[Sections[b]][j] = 0
        /\ \A o \in Procs \ {p} : ~Seeder(o)
        /\ seeding[p] # <<1, 1>> => First = 1
    BY <1>1, <2>1, SeedFinds, Zenon
  <2>3. i <= Yaml[s] => rows[s][i] = 0 /\ i \in 1 .. Yaml[s]
    <3>1. Ahead(seeding[p], a, i)
      BY <1>1 DEF Ahead
    <3>2. i <= Yaml[s] => i \in 1 .. Yaml[s]
      BY <1>1
    <3> QED  BY <1>1, <2>2, <3>1, <3>2, Zenon
  <2>4. rows' = IF i > Yaml[s] THEN rows ELSE [rows EXCEPT ![s][i] = 1]
    <3>1. CASE i > Yaml[s]
      <4> HIDE DEF s, i, next
      <4> QED  BY <1>3, <3>1, Zenon
    <3>2. CASE i <= Yaml[s]
      <4>1. (IF s \in Updated THEN 1 ELSE rows[s][i] + 1) = 1
        BY <2>3, <3>2
      <4>2. ~(i > Yaml[s])
        BY <1>1, <3>2
      <4> HIDE DEF s, i, next
      <4>3. rows' = [rows EXCEPT ![s][i] = IF s \in Updated THEN 1 ELSE rows[s][i] + 1]
        BY <1>3, <4>2, Zenon
      <4> QED  BY <4>1, <4>2, <4>3, Zenon
    <3>3. i > Yaml[s] \/ i <= Yaml[s]
      BY <1>1
    <3> QED  BY <3>1, <3>2, <3>3, Zenon
  <2>5. /\ DOMAIN rows' = Tables /\ \A t \in Tables : rows'[t] \in [1 .. Yaml[t] -> {0, 1}]
        /\ \A t \in Tables : \A j \in 1 .. Yaml[t] : <<t, j>> # <<s, i>> => rows'[t][j] = rows[t][j]
        /\ i <= Yaml[s] => rows'[s][i] = 1
    <3>1. DOMAIN rows = Tables /\ \A t \in Tables : rows[t] \in [1 .. Yaml[t] -> {0, 1}]
      BY Zenon DEF SeedInv
    <3> HIDE DEF s, i
    <3>2. CASE i > Yaml[s]
      BY <1>1, <2>4, <3>1, <3>2
    <3>3. CASE i <= Yaml[s]
      <4>1. rows' = [rows EXCEPT ![s] = [rows[s] EXCEPT ![i] = 1]]
        BY <1>1, <2>4, <3>3
      <4>2. [rows[s] EXCEPT ![i] = 1] \in [1 .. Yaml[s] -> {0, 1}]
        BY <1>1, <3>1, Zenon
      <4>3. /\ [rows[s] EXCEPT ![i] = 1][i] = 1
            /\ \A j \in 1 .. Yaml[s] : j # i => [rows[s] EXCEPT ![i] = 1][j] = rows[s][j]
        BY <1>1, <2>3, <3>1, <3>3, Zenon
      <4>4. DOMAIN rows' = Tables /\ rows'[s] = [rows[s] EXCEPT ![i] = 1]
            /\ \A t \in Tables : t # s => rows'[t] = rows[t]
        BY <1>1, <3>1, <4>1, Zenon
      <4> QED  BY <3>1, <4>2, <4>3, <4>4, ZenonT(60)
    <3> QED  BY <1>1, <3>2, <3>3
  <2>6. First' = 1
    <3>1. CASE seeding[p] = <<1, 1>>
      BY <1>1, <2>5, <3>1, SectionsAre DEF First
    <3>2. CASE seeding[p] # <<1, 1>>
      <4>1. First = 1 /\ 1 \in 1 .. Yaml["lists"]
        BY <1>1, <2>2, <3>2
      <4>2. CASE <<"lists", 1>> = <<s, i>>
        BY <1>1, <2>5, <4>2 DEF First
      <4>3. CASE <<"lists", 1>> # <<s, i>>
        BY <1>1, <2>5, <4>1, <4>3, Zenon DEF First
      <4> QED  BY <4>2, <4>3, Zenon
    <3> QED  BY <3>1, <3>2
  <2>7. /\ pc' \in [Procs -> Pcs] /\ \A o \in Procs \ {p} : pc'[o] = pc[o] /\ seeding'[o] = seeding[o]
        /\ pc'[p] = IF next[1] > 6 THEN "load" ELSE "seed"
        /\ seeding'[p] = IF next[1] > 6 THEN <<1, 1>> ELSE next
    BY <1>3, SectionsAre, ZenonT(60) DEF SeedInv, Goto, Pcs
  <2>8. seeding' \in [Procs -> (1 .. 6) \X (Nat \ {0})]
    <3>1. (IF next[1] > 6 THEN <<1, 1>> ELSE next) \in (1 .. 6) \X (Nat \ {0})
      BY <1>1
    <3> HIDE DEF next
    <3> QED  BY <1>3, <3>1, SectionsAre, Zenon DEF SeedInv
  <2>9. \A o \in Procs \ {p} : ~Seeder(o)'
    BY <2>2, <2>7, Zenon DEF Seeder
  <2>10. ASSUME Seeder(p)', NEW b \in 1 .. 6, NEW j \in 1 .. Yaml[Sections[b]], Ahead(seeding'[p], b, j)
         PROVE  rows'[Sections[b]][j] = 0
    <3>1. seeding'[p] = next
      <4> HIDE DEF next
      <4> QED  BY <2>7, <2>10, Zenon DEF Seeder
    <3>2. /\ Sections[b] \in Tables /\ Yaml[Sections[b]] \in Nat /\ j \in Nat
          /\ b = a => Sections[b] = s
      BY SectionsAre, YamlAssumption
    <3>3. Ahead(seeding[p], b, j) /\ ~(b = a /\ j = i)
      BY <1>1, <2>10, <3>1, <3>2 DEF Ahead
    <3>4. <<Sections[b], j>> # <<s, i>>
      BY <1>1, <3>3, SectionsAre, Zenon
    <3> DEFINE u == Sections[b]
    <3>5. rows[u][j] = 0 /\ u \in Tables /\ j \in 1 .. Yaml[u] /\ <<u, j>> # <<s, i>>
      BY <2>2, <3>2, <3>3, <3>4, Zenon
    <3> HIDE DEF s, u
    <3>6. rows'[u][j] = rows[u][j]
      BY <2>5, <3>5, Zenon
    <3> QED  BY <3>5, <3>6, Zenon DEF u
  <2> HIDE DEF a, i, s, next
  <2>11. ASSUME NEW o \in Procs, Seeder(o)'  PROVE
          /\ First' = 1
          /\ \A b \in 1 .. 6 : \A j \in 1 .. Yaml[Sections[b]] :
               Ahead(seeding[o], b, j)' => rows'[Sections[b]][j] = 0
    <3>1. o = p
      BY <2>9, <2>11
    <3> QED  BY <2>6, <2>10, <2>11, <3>1, Zenon DEF Ahead
  <2> QED  BY <2>5, <2>6, <2>7, <2>8, <2>9, <2>11, Zenon DEF SeedInv
<1> QED  BY <1>2, <1>3, Zenon DEF SeedRow, a, i

\* Every other step of a process: it goes somewhere, but not on with seeding.
LEMMA SeedMoves ==
  ASSUME SeedInv, NEW p \in Procs, rows' = rows,
         NEW to \in Pcs, Goto(p, to),
         seeding' \in [Procs -> (1 .. 6) \X (Nat \ {0})],
         \A o \in Procs \ {p} : seeding'[o] = seeding[o],
         to = "seed" => seeding'[p] = <<1, 1>>
  PROVE  SeedInv'
<1>1. pc' \in [Procs -> Pcs] /\ pc'[p] = to /\ \A o \in Procs \ {p} : pc'[o] = pc[o]
  BY Zenon DEF Goto, SeedInv
<1>2. ASSUME NEW o \in Procs, Seeder(o)'  PROVE Seeder(o) /\ seeding'[o] = seeding[o]
  BY <1>1, <1>2, Zenon DEF Seeder
<1> QED  BY <1>1, <1>2, SeedQuiet, Zenon

LEMMA SeedStep == ASSUME SeedInv, [DaemonNext]_daemon_vars PROVE SeedInv'
<1>0. seeding \in [Procs -> (1 .. 6) \X (Nat \ {0})]
  BY Zenon DEF SeedInv
<1>1. ASSUME NEW p \in Procs, CountServers(p)  PROVE SeedInv'
  <2>1. /\ seeding' \in [Procs -> (1 .. 6) \X (Nat \ {0})] /\ seeding'[p] = <<1, 1>>
        /\ \A o \in Procs \ {p} : seeding'[o] = seeding[o]
    BY <1>0, <1>1 DEF CountServers
  <2>2. rows' = rows
    BY <1>1 DEF CountServers, disk
  <2>3. PICK to \in {"load", "seed"} : Goto(p, to)
    BY <1>1 DEF CountServers
  <2> QED  BY <2>1, <2>2, <2>3, SeedMoves, Zenon DEF Pcs
<1>2. ASSUME NEW p \in Procs, Crash(p)  PROVE SeedInv'
  <2>1. /\ seeding' \in [Procs -> (1 .. 6) \X (Nat \ {0})]
        /\ \A o \in Procs \ {p} : seeding'[o] = seeding[o]
    BY <1>0, <1>2 DEF Crash
  <2>2. rows' = rows /\ Goto(p, "down")
    BY <1>2 DEF Crash, Ends, disk
  <2> QED  BY <2>1, <2>2, SeedMoves, Zenon DEF Pcs
<1>3. ASSUME NEW p \in Procs,
             \/ Launch(p) \/ CountLists(p) \/ Load(p) \/ BindPort(p) \/ BindTlsListeners(p)
             \/ CheckSocket(p) \/ RemoveStale(p) \/ BindSocket(p)
             \/ Terminate(p) \/ Cleanup(p) \/ MainReturns(p)
      PROVE  SeedInv'
  <2>1. rows' = rows /\ seeding' = seeding
    BY <1>3, Zenon DEF Launch, CountLists, Load, BindPort, BindTlsListeners, CheckSocket, RemoveStale,
                BindSocket, Terminate, Cleanup, MainReturns, disk
  <2>2. PICK to \in Pcs \ {"seed"} : Goto(p, to)
    BY <1>3, Zenon DEF Launch, CountLists, Load, BindPort, BindTlsListeners, CheckSocket, RemoveStale,
                BindSocket, Terminate, Cleanup, MainReturns, Ends, Pcs
  <2> QED  BY <1>0, <2>1, <2>2, SeedMoves, Zenon
<1>4. CASE Handle
  <2>1. rows' = rows /\ seeding' = seeding
    BY <1>4, Zenon DEF Handle, disk
  <2>2. UNCHANGED pc \/ pc' = [p \in Procs |-> IF pc[p] = "run" THEN "closing" ELSE pc[p]]
    BY <1>4, Zenon DEF Handle
  <2>3. pc' \in [Procs -> Pcs] /\ \A o \in Procs : pc'[o] = "seed" => pc[o] = "seed"
    BY <2>2, Zenon DEF SeedInv, Pcs
  <2>4. ASSUME NEW o \in Procs, Seeder(o)'  PROVE Seeder(o) /\ seeding'[o] = seeding[o]
    BY <2>1, <2>3, <2>4 DEF Seeder
  <2> QED  BY <1>0, <2>1, <2>3, <2>4, SeedQuiet, Zenon
<1>5. CASE (Runtime /\ ~Handle) \/ (\E p \in Procs : ClosePort(p)) \/ UNCHANGED daemon_vars
  <2>1. rows' = rows /\ seeding' = seeding /\ pc' = pc
    BY <1>5, Zenon DEF Runtime, Edit, Hangup, Forward, Accept, Reply, Timeout, ReloadBegin, ReloadEnd,
                SetList, ClosePort, still, disk, daemon_vars
  <2>2. pc' \in [Procs -> Pcs] /\ \A o \in Procs : Seeder(o)' => Seeder(o) /\ seeding'[o] = seeding[o]
    BY <2>1, Zenon DEF SeedInv, Seeder
  <2> QED  BY <1>0, <2>1, <2>2, SeedQuiet, Zenon
<1> QED  BY <1>1, <1>2, <1>3, <1>4, <1>5, SeedRowStep DEF DaemonNext, StartUp, Finish

(* However many processes find the database empty at the same time, and    *)
(* wherever one of them is killed, no row of the YAML file is written      *)
(* twice, whether or not its table has a unique key.                       *)
THEOREM SeededOnce == DaemonSpec => []NeverSeededTwice
<1>1. SeedInv => NeverSeededTwice
  BY YamlAssumption DEF SeedInv, NeverSeededTwice
<1>2. SeedInv /\ [DaemonNext]_daemon_vars => SeedInv'
  BY SeedStep
<1> QED  BY SeedInit, <1>1, <1>2, PTL DEF DaemonSpec

-----------------------------------------------------------------------------
(* The response cache.                                                     *)

(* An entry was born no later than its response was sent.                  *)
EntrySound(entry) ==
  /\ entry \in Entries
  /\ Cacheable(entry.response)
  /\ entry.stored_at <= entry.response.at
  /\ entry.expires_at = entry.stored_at + Lifetime(entry.response)

(* A query came in before now, and before the answer it is about to insert *)
(* was sent; a hit is fresh.                                               *)
QuerySound(q, t) ==
  /\ q \in ClientStates
  /\ q.pc # "idle" => q.now <= t /\ q.key \in Keys
  /\ q.pc = "insert" => q.now <= q.response.at
  /\ q.pc = "hit" =>
       /\ Cacheable(q.response)
       /\ q.now < q.response.at + Lifetime(q.response)

Room == IF MaxEntries = 0 THEN 1 ELSE MaxEntries

(* The inductive invariant.                                                *)
IInv ==
  /\ time \in Time
  /\ DOMAIN entries \subseteq Keys
  /\ IsFiniteSet(DOMAIN entries)
  /\ Cardinality(DOMAIN entries) <= Room
  /\ \A k \in DOMAIN entries : EntrySound(entries[k])
  /\ client \in [Clients -> ClientStates]
  /\ \A c \in Clients : QuerySound(client[c], time)

-----------------------------------------------------------------------------
(* The lifetime of a response that may be cached is a number of ticks.     *)
LEMMA LifetimeType ==
  ASSUME NEW r \in Responses, Cacheable(r)
  PROVE  r.ttl \in Nat /\ Lifetime(r) \in Nat
<1>1. r.ttl \in Nat
  BY TtlsAssumption, Zenon DEF Responses, Cacheable
<1>2. clamp_ttl(r.ttl) \in Nat
  BY <1>1, BoundsAssumption DEF clamp_ttl
<1>3. \A a, b \in Nat : a * b \in Nat
  BY SMT
<1>. QED
  BY <1>1, <1>2, <1>3, ClockAssumption DEF Lifetime

(* The TTL handed out is a number of seconds.                              *)
LEMMA RemainingType ==
  ASSUME NEW ttl \in Nat, NEW age \in Int
  PROVE  Remaining(ttl, age) \in Nat
<1>1. age \div TicksPerSecond \in Int
  BY ClockAssumption
<1>. DEFINE q == age \div TicksPerSecond
<1>2. q \in Int
  BY <1>1
<1>3. Remaining(ttl, age) = IF q > ttl THEN 0 ELSE ttl - q
  BY DEF Remaining
<1>. HIDE DEF q
<1>. QED
  BY <1>2, <1>3

(* The two passes of eviction keep entries as they are, and leave room for *)
(* one more.                                                               *)
LEMMA RoomIsMade ==
  ASSUME NEW es, NEW now, IsFiniteSet(DOMAIN es), NEW made \in MadeRoom(es, now)
  PROVE  /\ DOMAIN made \subseteq DOMAIN es
         /\ \A k \in DOMAIN made : made[k] = es[k]
         /\ IsFiniteSet(DOMAIN made)
         /\ Cardinality(DOMAIN made) + 1 <= Room
<1>. DEFINE first == Unexpired(es, now)
<1>1. /\ DOMAIN first \subseteq DOMAIN es
      /\ \A k \in DOMAIN first : first[k] = es[k]
  BY Zenon DEF Unexpired, Restricted
<1>2. IsFiniteSet(DOMAIN first)
  BY <1>1, FS_Subset
<1>3. made \in IF Full(first) THEN {Restricted(first, keys) : keys \in Survivors(first)} ELSE {first}
  BY DEF MadeRoom
<1>. HIDE DEF first
<1>4. CASE Full(first)
  <2>1. PICK keys \in Survivors(first) : made = Restricted(first, keys)
    BY <1>3, <1>4
  <2>2. keys \subseteq DOMAIN first /\ Cardinality(keys) = MaxEntries \div 2
    BY Zenon DEF Survivors
  <2>3. DOMAIN made = keys /\ \A k \in keys : made[k] = first[k]
    BY <2>1 DEF Restricted
  <2>4. IsFiniteSet(keys)
    BY <1>2, <2>2, FS_Subset, Zenon
  <2>5. MaxEntries \div 2 + 1 <= Room
    BY SizeAssumption DEF Room
  <2>. QED
    BY <1>1, <2>2, <2>3, <2>4, <2>5
<1>5. CASE ~Full(first)
  <2>1. made = first
    BY <1>3, <1>5, Zenon
  <2>2. Cardinality(DOMAIN first) \in Nat
    BY <1>2, FS_CardinalityType, Zenon
  <2>3. Cardinality(DOMAIN first) + 1 <= MaxEntries
    BY <1>5, <2>2, SizeAssumption DEF Full
  <2>. QED
    BY <1>1, <1>2, <2>1, <2>2, <2>3, SizeAssumption DEF Room
<1>. QED
  BY <1>4, <1>5

(* A client between queries satisfies the invariant.                       *)
LEMMA IdleSound ==
  ASSUME NEW t \in Time
  PROVE  IdleClient \in ClientStates /\ QuerySound(IdleClient, t)
<1>1. 0 \in Time
  BY ClockAssumption DEF Time
<1>2. IdleClient \in ClientStates
  BY <1>1, Zenon DEF IdleClient, ClientStates, NoResponse, Responses
<1>3. IdleClient.pc = "idle"
  BY DEF IdleClient
<1>. QED
  BY <1>2, <1>3, Zenon DEF QuerySound

LEMMA InitIInv == Init => IInv
<1>. SUFFICES ASSUME Init PROVE IInv
  OBVIOUS
<1>1. time = 0 /\ time \in Time
  BY ClockAssumption DEF Init, Time
<1>2. DOMAIN entries = {}
  BY DEF Init
<1>3. IsFiniteSet({}) /\ Cardinality({}) = 0
  BY FS_EmptySet
<1>4. 0 <= Room
  BY SizeAssumption DEF Room
<1>5. /\ client \in [Clients -> ClientStates]
      /\ \A c \in Clients : QuerySound(client[c], time)
  BY <1>1, IdleSound DEF Init
<1>. QED
  BY <1>1, <1>2, <1>3, <1>4, <1>5 DEF IInv

-----------------------------------------------------------------------------
(* A step that changes one query and no entry needs only that query to     *)
(* stay sound.                                                             *)
LEMMA QueryMoves ==
  ASSUME IInv, NEW c \in Clients, NEW q,
         client' = [client EXCEPT ![c] = q], QuerySound(q, time),
         UNCHANGED <<time, entries>>
  PROVE  IInv'
<1>1. q \in ClientStates
  BY Zenon DEF QuerySound
<1>2. client' \in [Clients -> ClientStates]
  BY <1>1 DEF IInv
<1>3. \A d \in Clients : QuerySound(client'[d], time)
  BY DEF IInv
<1>. QED
  BY <1>2, <1>3, Zenon DEF IInv

LEMMA StartIInv ==
  ASSUME IInv, NEW c \in Clients, NEW k \in Keys, StartResolve(c, k)
  PROVE  IInv'
<1>. DEFINE q == [IdleClient EXCEPT !.pc = "lookup", !.key = k, !.now = time]
<1>1. time \in Time /\ time \in Nat
  BY ClockAssumption DEF IInv, Time
<1>2. q \in ClientStates /\ q.pc = "lookup" /\ q.key = k /\ q.now = time
  BY <1>1, IdleSound, Zenon DEF ClientStates
<1>3. client' = [client EXCEPT ![c] = q] /\ UNCHANGED <<time, entries>>
  BY DEF StartResolve
<1>. HIDE DEF q
<1>4. QuerySound(q, time)
  BY <1>1, <1>2 DEF QuerySound
<1>. QED
  BY <1>3, <1>4, QueryMoves, Zenon

(* An entry that is sound and, at the time a query began, not expired: what *)
(* a hit makes of it has its type and is within the response's lifetime.    *)
LEMMA EntryServes ==
  ASSUME NEW e, EntrySound(e), NEW t \in Time, NEW now \in Time, e.expires_at > now
  PROVE  /\ e.response \in Responses /\ Cacheable(e.response)
         /\ Remaining(e.response.ttl, t - e.stored_at) \in Nat
         /\ now < e.response.at + Lifetime(e.response)
<1>. DEFINE r == e.response
            s == e.stored_at
            at == r.at
            life == Lifetime(r)
<1>1. r \in Responses /\ s \in Time /\ Cacheable(r) /\ s <= at /\ e.expires_at = s + life
  BY Zenon DEF EntrySound, Entries
<1>2. s + life > now
  BY <1>1, Zenon
<1>. HIDE DEF r, s
<1>3. at \in Time
  BY <1>1 DEF Responses
<1>4. r.ttl \in Nat /\ life \in Nat
  BY <1>1, LifetimeType
<1>. HIDE DEF at, life
<1>5. \A x \in Time : x \in Nat
  BY ClockAssumption DEF Time
<1>6. s \in Nat /\ at \in Nat /\ t \in Nat /\ now \in Nat
  BY <1>1, <1>3, <1>5, Zenon
<1>7. t - s \in Int
  BY <1>6
<1>8. Remaining(r.ttl, t - s) \in Nat
  BY <1>4, <1>7, RemainingType, Zenon
<1>9. now < at + life
  BY <1>1, <1>2, <1>4, <1>6
<1>. QED
  BY <1>1, <1>8, <1>9, Zenon DEF r, s, at, life

LEMMA LookupIInv ==
  ASSUME IInv, NEW c \in Clients, Lookup(c)
  PROVE  IInv'
<1>. DEFINE k == client[c].key
            found == k \in DOMAIN entries /\ entries[k].expires_at > client[c].now
            hit == [client[c] EXCEPT !.pc = "hit", !.response = entries[k].response,
                      !.left = Remaining(entries[k].response.ttl, time - entries[k].stored_at),
                      !.served_at = time]
            miss == [client[c] EXCEPT !.pc = "ask"]
<1>1. /\ client[c] \in ClientStates /\ client[c].pc = "lookup"
      /\ client[c].now <= time /\ client[c].key \in Keys /\ time \in Time
  BY Zenon DEF IInv, QuerySound, Lookup
<1>2. client' = [client EXCEPT ![c] = IF found THEN hit ELSE miss] /\ UNCHANGED <<time, entries>>
  BY Zenon DEF Lookup
<1>3. CASE found
  <2>. DEFINE e == entries[k]
              r == e.response
              now == client[c].now
              left == Remaining(r.ttl, time - e.stored_at)
  <2>1. EntrySound(e)
    BY <1>3, Zenon DEF IInv
  <2>2. now \in Time /\ e.expires_at > now
    BY <1>1, <1>3, Zenon DEF ClientStates
  <2>3. hit = [client[c] EXCEPT !.pc = "hit", !.response = r, !.left = left, !.served_at = time]
    OBVIOUS
  <2>. HIDE DEF e, now, hit
  <2>4. r \in Responses /\ Cacheable(r) /\ left \in Nat /\ now < r.at + Lifetime(r)
    BY <1>1, <2>1, <2>2, EntryServes, Zenon
  <2>5. /\ hit \in ClientStates /\ hit.pc = "hit" /\ hit.now = now
        /\ hit.key = client[c].key /\ hit.response = r
    <3>. HIDE DEF r, left
    <3>. QED
      BY <1>1, <2>3, <2>4, Zenon DEF ClientStates, now
  <2>6. QuerySound(hit, time)
    <3>. HIDE DEF r
    <3>1. now <= time /\ hit.key \in Keys
      BY <1>1, <2>5, Zenon DEF now
    <3>. QED
      BY <2>4, <2>5, <3>1, Zenon DEF QuerySound
  <2>7. client' = [client EXCEPT ![c] = hit]
    BY <1>2, <1>3, Zenon
  <2>. QED
    BY <1>2, <2>6, <2>7, QueryMoves, Zenon
<1>4. CASE ~found
  <2>1. /\ miss \in ClientStates /\ miss.pc = "ask" /\ miss.now = client[c].now
        /\ miss.key = client[c].key
    BY <1>1, Zenon DEF ClientStates
  <2>2. client' = [client EXCEPT ![c] = miss]
    BY <1>2, <1>4, Zenon
  <2>. HIDE DEF miss
  <2>3. QuerySound(miss, time)
    BY <1>1, <2>1, Zenon DEF QuerySound
  <2>. QED
    BY <1>2, <2>2, <2>3, QueryMoves, Zenon
<1>. QED
  BY <1>3, <1>4, Zenon

LEMMA AnswerIInv ==
  ASSUME IInv, NEW c \in Clients, NEW ttl \in Ttls \cup {NoTtl}, UpstreamAnswers(c, ttl)
  PROVE  IInv'
<1>. DEFINE r == [at |-> time, ttl |-> ttl]
            q == [client[c] EXCEPT !.pc = "insert", !.response = r]
<1>1. /\ client[c] \in ClientStates /\ client[c].pc = "ask"
      /\ client[c].now <= time /\ client[c].key \in Keys /\ time \in Time
  BY Zenon DEF IInv, QuerySound, UpstreamAnswers
<1>2. r \in Responses /\ r.at = time
  BY <1>1 DEF Responses
<1>. HIDE DEF r
<1>3. /\ q \in ClientStates /\ q.pc = "insert" /\ q.now = client[c].now
      /\ q.key = client[c].key /\ q.response = r
  BY <1>1, <1>2, Zenon DEF ClientStates
<1>4. client' = [client EXCEPT ![c] = q] /\ UNCHANGED <<time, entries>>
  BY DEF UpstreamAnswers, r
<1>. HIDE DEF q
<1>5. QuerySound(q, time)
  BY <1>1, <1>2, <1>3, Zenon DEF QuerySound
<1>. QED
  BY <1>4, <1>5, QueryMoves, Zenon

LEMMA EndIInv ==
  ASSUME IInv, NEW c \in Clients, ReturnHit(c) \/ UpstreamFails(c)
  PROVE  IInv'
<1>1. client' = [client EXCEPT ![c] = IdleClient] /\ UNCHANGED <<time, entries>>
  BY DEF ReturnHit, UpstreamFails
<1>2. QuerySound(IdleClient, time)
  BY IdleSound DEF IInv
<1>. QED
  BY <1>1, <1>2, QueryMoves, Zenon

LEMMA InsertIInv ==
  ASSUME IInv, NEW c \in Clients, Insert(c)
  PROVE  IInv'
<1>. DEFINE r == client[c].response
            now == client[c].now
            k == client[c].key
            fresh == Fresh(c)
<1>1. /\ client[c] \in ClientStates /\ client[c].pc = "insert"
      /\ now <= r.at /\ k \in Keys /\ time \in Time
  BY Zenon DEF IInv, QuerySound, Insert
<1>2. client' = [client EXCEPT ![c] = IdleClient] /\ time' = time
  BY Zenon DEF Insert
<1>3. QuerySound(IdleClient, time) /\ IdleClient \in ClientStates
  BY IdleSound DEF IInv
<1>4. CASE Cacheable(r)
  <2>1. PICK made \in MadeRoom(entries, now) : entries' = Put(made, k, fresh)
    BY <1>4, Zenon DEF Insert
  <2>2. IsFiniteSet(DOMAIN entries)
    BY DEF IInv
  <2>3. /\ DOMAIN made \subseteq DOMAIN entries
        /\ \A j \in DOMAIN made : made[j] = entries[j]
        /\ IsFiniteSet(DOMAIN made)
        /\ Cardinality(DOMAIN made) + 1 <= Room
    <3>. HIDE DEF now
    <3>. QED
      BY <2>2, RoomIsMade, Zenon
  <2>4. EntrySound(fresh)
    <3>1. r \in Responses /\ now \in Time /\ now \in Nat
      BY <1>1, ClockAssumption DEF ClientStates, Time
    <3>2. Lifetime(r) \in Nat
      BY <1>4, <3>1, LifetimeType, Zenon
    <3>3. fresh = [response |-> r, stored_at |-> now, expires_at |-> now + Lifetime(r)]
      BY Zenon DEF Fresh
    <3>. HIDE DEF fresh, r, now
    <3>4. now + Lifetime(r) \in Nat
      BY <3>1, <3>2
    <3>5. /\ fresh \in Entries /\ fresh.response = r /\ fresh.stored_at = now
          /\ fresh.expires_at = now + Lifetime(r)
      BY <3>1, <3>3, <3>4, Zenon DEF Entries
    <3>. QED
      BY <1>1, <1>4, <3>5, Zenon DEF EntrySound
  <2>. HIDE DEF fresh, r, now, k
  <2>5. /\ DOMAIN entries' = DOMAIN made \cup {k}
        /\ \A j \in DOMAIN entries' : entries'[j] = IF j = k THEN fresh ELSE made[j]
    BY <2>1, Zenon DEF Put
  <2>6. DOMAIN entries' \subseteq Keys
    BY <1>1, <2>3, <2>5, Zenon DEF IInv
  <2>7. IsFiniteSet(DOMAIN entries') /\ Cardinality(DOMAIN entries') <= Room
    <3>1. Cardinality(DOMAIN made) \in Nat /\ Room \in Nat
      BY <2>3, FS_CardinalityType, SizeAssumption, Zenon DEF Room
    <3>2. /\ IsFiniteSet(DOMAIN made \cup {k})
          /\ Cardinality(DOMAIN made \cup {k}) =
               IF k \in DOMAIN made THEN Cardinality(DOMAIN made) ELSE Cardinality(DOMAIN made) + 1
      BY <2>3, FS_AddElement, Zenon
    <3>. QED
      BY <2>3, <2>5, <3>1, <3>2
  <2>8. \A j \in DOMAIN entries' : EntrySound(entries'[j])
    BY <2>3, <2>4, <2>5, Zenon DEF IInv
  <2>. QED
    BY <1>2, <1>3, <2>6, <2>7, <2>8, Zenon DEF IInv
<1>5. CASE ~Cacheable(r)
  <2>1. entries' = entries
    BY <1>5, Zenon DEF Insert
  <2>. QED
    BY <1>2, <1>3, <2>1, QueryMoves, Zenon
<1>. QED
  BY <1>4, <1>5

LEMMA TickIInv ==
  ASSUME IInv, Tick
  PROVE  IInv'
<1>1. time \in Nat /\ time' = time + 1 /\ time' \in Time /\ UNCHANGED <<entries, client>>
  BY ClockAssumption DEF IInv, Tick, Time
<1>2. ASSUME NEW c \in Clients
      PROVE  QuerySound(client[c], time')
  <2>1. QuerySound(client[c], time) /\ client[c].now \in Nat
    BY ClockAssumption DEF IInv, ClientStates, Time
  <2>2. client[c].now <= time => client[c].now <= time'
    BY <1>1, <2>1
  <2>. QED
    BY <2>1, <2>2, Zenon DEF QuerySound
<1>. QED
  BY <1>1, <1>2 DEF IInv

LEMMA NextIInv == IInv /\ [Next]_vars => IInv'
<1>. SUFFICES ASSUME IInv, [Next]_vars PROVE IInv'
  OBVIOUS
<1>1. CASE UNCHANGED vars
  BY <1>1 DEF IInv, vars
<1>2. CASE Next
  BY <1>2, StartIInv, LookupIInv, EndIInv, AnswerIInv, InsertIInv, TickIInv, Zenon DEF Next
<1>. QED
  BY <1>1, <1>2

LEMMA Invariance == Spec => []IInv
  BY InitIInv, NextIInv, PTL DEF Spec

-----------------------------------------------------------------------------
(* The TTL of a hit.                                                       *)

(* Cutting an age to whole seconds loses less than a second of it.         *)
LEMMA WholeSeconds ==
  ASSUME NEW age \in Int
  PROVE  /\ age \div TicksPerSecond \in Int
         /\ age < (age \div TicksPerSecond) * TicksPerSecond + TicksPerSecond
<1>. DEFINE T == TicksPerSecond
            q == age \div T
<1>1. T \in Nat /\ T > 0
  BY ClockAssumption
<1>. HIDE DEF T
<1>2. q \in Int /\ age = q * T + (age % T) /\ (age % T) < T /\ (age % T) \in Int
  BY <1>1, SMTT(30)
<1>3. q * T \in Int
  BY <1>1, <1>2
<1>. DEFINE m == q * T
            r == age % T
<1>4. age < m + T
  <2>1. m \in Int /\ r \in Int /\ age = m + r /\ r < T
    BY <1>2, <1>3, Zenon
  <2>. HIDE DEF m, r
  <2>. QED
    BY <1>1, <2>1
<1>. QED
  BY <1>2, <1>4, Zenon DEF T

(* What is left of a TTL after an age, counted from the birth of an entry. *)
LEMMA RemainingBound ==
  ASSUME NEW ttl \in Nat, NEW age \in Int, Remaining(ttl, age) > 0
  PROVE  age + Remaining(ttl, age) * TicksPerSecond < (ttl + 1) * TicksPerSecond
<1>. DEFINE T == TicksPerSecond
            q == age \div TicksPerSecond
<1>1. T \in Nat
  BY ClockAssumption
<1>2. q \in Int /\ age < q * T + T
  BY WholeSeconds
<1>3. Remaining(ttl, age) = IF q > ttl THEN 0 ELSE ttl - q
  BY DEF Remaining
<1>. HIDE DEF T, q
<1>4. Remaining(ttl, age) = ttl - q
  BY <1>2, <1>3
<1>5. (ttl - q) * T = ttl * T - q * T /\ (ttl + 1) * T = ttl * T + T
  BY <1>1, <1>2
<1>6. ttl * T \in Int /\ q * T \in Int
  BY <1>1, <1>2
<1>. DEFINE a == ttl * T
            b == q * T
<1>7. age + (a - b) < a + T
  <2>1. a \in Int /\ b \in Int /\ age < b + T
    BY <1>2, <1>6
  <2>. HIDE DEF a, b
  <2>. QED
    BY <1>1, <2>1
<1>. QED
  BY <1>4, <1>5, <1>7 DEF T

(* The TTL of one hit lets the client keep the response less than a second *)
(* longer than the upstream allowed.                                       *)
TtlKept(q) ==
  q.pc = "hit" /\ q.left > 0 =>
    q.served_at + q.left * TicksPerSecond < q.response.at + (q.response.ttl + 1) * TicksPerSecond

LEMMA EntryKeepsTtl ==
  ASSUME NEW e, EntrySound(e), NEW t \in Time,
         Remaining(e.response.ttl, t - e.stored_at) > 0
  PROVE  t + Remaining(e.response.ttl, t - e.stored_at) * TicksPerSecond
           < e.response.at + (e.response.ttl + 1) * TicksPerSecond
<1>. DEFINE r == e.response
            s == e.stored_at
            ttl == r.ttl
            at == r.at
            left == Remaining(ttl, t - s)
            a == left * TicksPerSecond
            b == (ttl + 1) * TicksPerSecond
<1>1. r \in Responses /\ s \in Time /\ Cacheable(r) /\ s <= at
  BY Zenon DEF EntrySound, Entries
<1>2. left > 0
  OBVIOUS
<1>. HIDE DEF r, s
<1>3. at \in Time /\ ttl \in Nat
  BY <1>1, LifetimeType, Zenon DEF Responses
<1>. HIDE DEF at, ttl
<1>4. \A x \in Time : x \in Int
  BY ClockAssumption DEF Time
<1>5. s \in Int /\ at \in Int /\ t \in Int
  BY <1>1, <1>3, <1>4, Zenon
<1>6. t - s \in Int
  BY <1>5
<1>7. left \in Nat /\ (t - s) + a < b
  BY <1>2, <1>3, <1>6, RemainingType, RemainingBound, Zenon
<1>. HIDE DEF left
<1>8. a \in Int /\ b \in Int
  BY <1>3, <1>7, ClockAssumption
<1>. HIDE DEF a, b
<1>9. t + a < at + b
  BY <1>1, <1>5, <1>7, <1>8
<1>. QED
  BY <1>9, Zenon DEF r, s, ttl, at, left, a, b

LEMMA LookupTtlKept ==
  ASSUME IInv, NEW c \in Clients, Lookup(c)
  PROVE  TtlKept(client'[c])
<1>. DEFINE e == entries[client[c].key]
            r == e.response
            left == Remaining(r.ttl, time - e.stored_at)
            hit == [client[c] EXCEPT !.pc = "hit", !.response = r, !.left = left, !.served_at = time]
<1>1. client \in [Clients -> ClientStates] /\ client[c].pc = "lookup" /\ time \in Time
  BY Zenon DEF IInv, Lookup
<1>2. CASE client[c].key \in DOMAIN entries /\ e.expires_at > client[c].now
  <2>1. client'[c] = hit
    BY <1>1, <1>2, Zenon DEF Lookup
  <2>2. EntrySound(e)
    BY <1>2, Zenon DEF IInv
  <2>. HIDE DEF e
  <2>3. left > 0 => time + left * TicksPerSecond < r.at + (r.ttl + 1) * TicksPerSecond
    BY <1>1, <2>2, EntryKeepsTtl, Zenon
  <2>. HIDE DEF left, r
  <2>4. client'[c].left = left /\ client'[c].served_at = time /\ client'[c].response = r
    BY <1>1, <2>1, Zenon DEF ClientStates
  <2>. QED
    BY <2>3, <2>4, Zenon DEF TtlKept
<1>3. CASE ~(client[c].key \in DOMAIN entries /\ e.expires_at > client[c].now)
  <2>1. client'[c] = [client[c] EXCEPT !.pc = "ask"]
    BY <1>1, <1>3, Zenon DEF Lookup
  <2>2. client'[c].pc = "ask"
    BY <1>1, <2>1, Zenon DEF ClientStates
  <2>. QED
    BY <2>2, Zenon DEF TtlKept
<1>. QED
  BY <1>2, <1>3, Zenon

LEMMA NextTtlKept == IInv /\ TtlNotExtended /\ [Next]_vars => TtlNotExtended'
<1>. SUFFICES ASSUME IInv, TtlNotExtended, [Next]_vars, NEW d \in Clients
              PROVE  TtlKept(client'[d])
  BY Zenon DEF TtlNotExtended, TtlKept
<1>1. TtlKept(client[d]) /\ client \in [Clients -> ClientStates]
  BY Zenon DEF TtlNotExtended, TtlKept, IInv
<1>2. CASE client' = client
  BY <1>1, <1>2
<1>3. ASSUME NEW c \in Clients, Lookup(c)
      PROVE  TtlKept(client'[d])
  <2>1. d # c => client'[d] = client[d]
    BY <1>1, <1>3, Zenon DEF Lookup
  <2>. QED
    BY <1>1, <1>3, <2>1, LookupTtlKept
<1>4. ASSUME NEW c \in Clients, NEW q \in ClientStates, q.pc # "hit",
             client' = [client EXCEPT ![c] = q]
      PROVE  TtlKept(client'[d])
  BY <1>1, <1>4, Zenon DEF TtlKept
<1>5. ASSUME NEW c \in Clients, NEW k \in Keys, StartResolve(c, k)
      PROVE  TtlKept(client'[d])
  <2>. DEFINE q == [IdleClient EXCEPT !.pc = "lookup", !.key = k, !.now = time]
  <2>1. q \in ClientStates /\ q.pc = "lookup"
    BY IdleSound, Zenon DEF IInv, ClientStates
  <2>2. client' = [client EXCEPT ![c] = q]
    BY <1>5 DEF StartResolve
  <2>. HIDE DEF q
  <2>. QED
    BY <1>4, <2>1, <2>2, Zenon
<1>6. ASSUME NEW c \in Clients, NEW ttl \in Ttls \cup {NoTtl}, UpstreamAnswers(c, ttl)
      PROVE  TtlKept(client'[d])
  <2>. DEFINE q == [client[c] EXCEPT !.pc = "insert", !.response = [at |-> time, ttl |-> ttl]]
  <2>1. q \in ClientStates /\ q.pc = "insert"
    BY <1>1, ZenonT(60) DEF IInv, ClientStates, Responses
  <2>2. client' = [client EXCEPT ![c] = q]
    BY <1>6 DEF UpstreamAnswers
  <2>. HIDE DEF q
  <2>. QED
    BY <1>4, <2>1, <2>2, Zenon
<1>7. ASSUME NEW c \in Clients, ReturnHit(c) \/ UpstreamFails(c) \/ Insert(c)
      PROVE  TtlKept(client'[d])
  <2>1. IdleClient \in ClientStates
    BY IdleSound, Zenon DEF IInv
  <2>2. IdleClient.pc = "idle"
    BY Zenon DEF IdleClient
  <2>3. client' = [client EXCEPT ![c] = IdleClient]
    BY <1>7, Zenon DEF ReturnHit, UpstreamFails, Insert
  <2>. QED
    BY <1>4, <2>1, <2>2, <2>3, Zenon
<1>8. CASE Tick \/ UNCHANGED vars
  BY <1>2, <1>8 DEF Tick, vars
<1>. QED
  BY <1>3, <1>5, <1>6, <1>7, <1>8, Zenon DEF Next

-----------------------------------------------------------------------------
(* Eviction.                                                               *)

(* The two passes drop nothing from a cache that is not full, and never an *)
(* entry while one that expires sooner is kept.                            *)
LEMMA SoonestAreDropped ==
  ASSUME NEW es, NEW now \in Nat, \A k \in DOMAIN es : es[k].expires_at \in Nat,
         NEW made \in MadeRoom(es, now), NEW k \in DOMAIN es \ DOMAIN made
  PROVE  Full(es) /\ \A j \in DOMAIN made : es[k].expires_at <= es[j].expires_at
<1>. DEFINE first == Unexpired(es, now)
<1>1. \A j \in DOMAIN first : j \in DOMAIN es /\ first[j] = es[j]
  BY Zenon DEF Unexpired, Restricted
<1>2. made \in IF Full(first) THEN {Restricted(first, keys) : keys \in Survivors(first)} ELSE {first}
  BY Zenon DEF MadeRoom
<1>3. Full(es)
  <2>. SUFFICES ASSUME ~Full(es) PROVE FALSE
    BY Zenon
  <2>1. DOMAIN first = DOMAIN es
    BY DEF Unexpired, Restricted
  <2>2. ~Full(first)
    BY <2>1 DEF Full
  <2>3. made = first
    BY <1>2, <2>2, Zenon
  <2>. QED
    BY <2>1, <2>3, Zenon
<1>4. DOMAIN first = {j \in DOMAIN es : es[j].expires_at > now}
  BY <1>3, Zenon DEF Unexpired, Restricted
<1>. HIDE DEF first
<1>5. CASE k \notin DOMAIN first
  <2>1. DOMAIN made \subseteq DOMAIN first
    BY <1>2, Zenon DEF Restricted, Survivors
  <2>2. es[k].expires_at <= now
    BY <1>4, <1>5
  <2>3. ASSUME NEW j \in DOMAIN made
        PROVE  es[k].expires_at <= es[j].expires_at
    <3>1. es[j].expires_at > now /\ es[j].expires_at \in Nat /\ es[k].expires_at \in Nat
      BY <1>4, <2>1, Zenon
    <3>. QED
      BY <2>2, <3>1
  <2>. QED
    BY <1>3, <2>3, Zenon
<1>6. CASE k \in DOMAIN first
  <2>1. made # first
    BY <1>6, Zenon
  <2>2. PICK keys \in Survivors(first) : made = Restricted(first, keys)
    BY <1>2, <2>1
  <2>3. DOMAIN made = keys /\ keys \subseteq DOMAIN first
    BY <2>2, Zenon DEF Restricted, Survivors
  <2>4. \A j \in keys : first[k].expires_at <= first[j].expires_at
    BY <1>6, <2>3, Zenon DEF Survivors
  <2>. QED
    BY <1>1, <1>3, <1>6, <2>3, <2>4, Zenon
<1>. QED
  BY <1>5, <1>6, Zenon

LEMMA NextDropsSoonest == IInv /\ [Next]_vars => [DropsSoonestToExpire]_vars
<1>. SUFFICES ASSUME IInv, Next, NEW k \in DOMAIN entries \ DOMAIN entries'
              PROVE  /\ Full(entries)
                     /\ \E c \in Clients :
                          /\ client[c].pc = "insert" /\ client'[c].pc = "idle"
                          /\ \A j \in (DOMAIN entries \cap DOMAIN entries') \ {client[c].key} :
                               entries[k].expires_at <= entries[j].expires_at
  BY Zenon DEF DropsSoonestToExpire
<1>1. entries' # entries
  OBVIOUS
<1>2. PICK c \in Clients : Insert(c)
  BY <1>1, Zenon DEF Next, StartResolve, Lookup, ReturnHit, UpstreamAnswers, UpstreamFails, Tick
<1>3. client[c].pc = "insert" /\ client'[c].pc = "idle"
  BY <1>2, Zenon DEF Insert, IInv, IdleClient
<1>. DEFINE now == client[c].now
            fresh == Fresh(c)
<1>4. PICK made \in MadeRoom(entries, now) : entries' = Put(made, client[c].key, fresh)
  BY <1>1, <1>2, Zenon DEF Insert
<1>5. now \in Nat
  BY ClockAssumption DEF IInv, ClientStates, Time
<1>6. \A j \in DOMAIN entries : entries[j].expires_at \in Nat
  BY Zenon DEF IInv, EntrySound, Entries
<1>. HIDE DEF now, fresh
<1>7. DOMAIN entries' = DOMAIN made \cup {client[c].key}
  BY <1>4, Zenon DEF Put
<1>8. Full(entries) /\ \A j \in DOMAIN made : entries[k].expires_at <= entries[j].expires_at
  BY <1>5, <1>6, <1>7, SoonestAreDropped, Zenon
<1>. QED
  BY <1>3, <1>7, <1>8, Zenon

-----------------------------------------------------------------------------
(* Types are kept: the clock, the entries and the queries in flight of     *)
(* CachedUpstreamResolver::resolve.                                        *)
THEOREM TypeCorrect == Spec => []TypeOK
<1>1. IInv => TypeOK
  BY Zenon DEF IInv, TypeOK, EntrySound
<1>. QED
  BY <1>1, Invariance, PTL

(* However many queries insert at once, the eviction in resolve keeps the  *)
(* cache within max_entries, or at one entry when that is 0.               *)
THEOREM SizeStaysBounded == Spec => []SizeBounded
<1>1. IInv => SizeBounded
  BY Zenon DEF IInv, SizeBounded, Room
<1>. QED
  BY <1>1, Invariance, PTL

(* However slow the upstream, resolve answers from the cache only with     *)
(* responses whose TTL had not run out when the query came in.             *)
THEOREM HitsAreFresh == Spec => []HitIsFresh
<1>1. IInv => HitIsFresh
  BY Zenon DEF IInv, QuerySound, HitIsFresh
<1>. QED
  BY <1>1, Invariance, PTL

(* However late a hit is served, the TTL that decrement_record_ttls leaves *)
(* in it lets the client keep the response less than a second longer than  *)
(* the upstream allowed.                                                   *)
THEOREM TtlsAreNotExtended == Spec => []TtlNotExtended
<1>1. Init => TtlNotExtended
  BY DEF Init, IdleClient, TtlNotExtended
<1>. QED
  BY <1>1, NextTtlKept, Invariance, PTL DEF Spec

(* Making room in resolve drops responses only from a full cache, and      *)
(* keeps none that expires sooner than one it drops.                       *)
THEOREM EvictionIsOrderly == Spec => EvictsSoonestToExpire
  BY NextDropsSoonest, Invariance, PTL DEF Spec, EvictsSoonestToExpire
=============================================================================
