------------------------------ MODULE Daemon ------------------------------
(***************************************************************************)
(* The life of the daemon: run_daemon of src/main.rs from start-up to      *)
(* exit, the seeding of the database (src/use_cases/seed.rs), the control  *)
(* socket (src/frameworks/control_socket.rs), the signals                  *)
(* (signal_handler.rs) and the reloads they ask for.                       *)
(*                                                                         *)
(* Several processes may be started on the same database, port and socket  *)
(* path, one after the other or at the same time; each may be killed       *)
(* anywhere.  A reload is two steps here: see ConfigReload for its reads.  *)
(***************************************************************************)
EXTENDS Naturals, Sequences, FiniteSets

CONSTANTS
  Procs,       \* processes
  Yaml,        \* Yaml[s]: how many rows the YAML file has for section s
  Capacity,    \* of the reload channel; 4 in the code
  MaxStarts,   \* bound on the starts of a process
  MaxEdits,    \* bound on the changes of the database
  Nobody

Tables == {"lists", "filtering", "resolver", "servers", "zones", "sources"}

ASSUME CapacityAssumption == Capacity \in Nat \ {0}
ASSUME ProcsAssumption == {Nobody, "none", "stale"} \cap Procs = {}
ASSUME YamlAssumption == Yaml \in [Tables -> Nat] /\ Yaml["lists"] > 0

VARIABLES
  pc,       \* pc[p]: how far process p has come
  seeding,  \* seeding[p]: the section and the row that p writes next
  view,     \* view[p]: the edits that p had seen when it loaded its configuration
  starts,   \* starts left
  rows,     \* rows[s]: the rows of section s, as row |-> how often it is there
  edits,    \* changes of the database by management calls, so far
  port,     \* the process that listens on the DNS port
  file,     \* the process whose listener is behind the socket file, "stale" or "none"
  hup,      \* SIGHUPs: in the kernel, in its task, in its channel, in the forwarder
  queue,    \* messages in the reload channel
  reload,   \* the reload task: the edits it has read, or Nobody
  control,  \* the connection that the control socket serves
  engine,   \* the filter engine that queries use
  asked,    \* edits that an acknowledged reload or a signal was to bring in
  begun     \* edits that the latest reload has read

net  == <<port, file>>
run  == <<hup, queue, reload, control, engine, asked, begun>>
disk == <<rows, edits>>
daemon_vars == <<pc, seeding, view, starts, disk, net, run>>

\* Mutant: the servers come first.
Sections_ServersFirst == <<"servers", "lists", "filtering", "resolver", "zones", "sources">>

\* The order of seed_if_empty.
Sections == <<"lists", "filtering", "resolver", "servers", "zones", "sources">>

\* Tables with a unique name; the two settings are updates of a row that is there.
Unique == {"lists", "zones"}
Updated == {"filtering", "resolver"}

Count(s) == Cardinality({i \in DOMAIN rows[s] : rows[s][i] > 0})

Idle == [pc |-> "accept", command |-> "none", at |-> 0]

NoHup == [kernel |-> FALSE, task |-> FALSE, channel |-> FALSE, forwarder |-> FALSE]

\* Whether the calls switched a list off, and whether a reload has replaced the
\* engine that they act on.
Engine == [reloaded |-> FALSE, off |-> FALSE]

DaemonInit ==
  /\ pc = [p \in Procs |-> "down"]
  /\ seeding = [p \in Procs |-> <<1, 1>>]
  /\ starts = MaxStarts
  /\ rows = [s \in DOMAIN Yaml |-> [i \in 1 .. Yaml[s] |-> 0]]
  /\ edits = 0 /\ port = Nobody /\ file = "none"
  /\ view = [p \in Procs |-> 0] /\ hup = NoHup /\ queue = 0 /\ reload = Nobody
  /\ control = Idle /\ engine = Engine /\ asked = 0 /\ begun = 0

Alive(p) == p \in Procs /\ pc[p] # "down"

-----------------------------------------------------------------------------
(* Start-up.  Every failure ends the process.                              *)

Goto(p, to) == pc' = [pc EXCEPT ![p] = to]

\* What a daemon starts with; v is what its configuration was loaded from.
Reset(v) ==
  /\ hup' = NoHup /\ queue' = 0 /\ reload' = Nobody
  /\ control' = Idle /\ engine' = Engine /\ asked' = 0 /\ begun' = v

\* The kernel closes the sockets; the socket file stays.
Ends(p) ==
  /\ Goto(p, "down")
  /\ port' = IF port = p THEN Nobody ELSE port
  /\ file' = IF file = p THEN "stale" ELSE file

Launch(p) ==
  /\ pc[p] = "down" /\ starts > 0
  /\ Goto(p, "count_lists")
  /\ starts' = starts - 1
  /\ UNCHANGED <<seeding, view, disk, net, run>>

\* The two counts of seed_if_empty.
CountLists(p) ==
  /\ pc[p] = "count_lists"
  /\ Goto(p, IF Count("lists") > 0 THEN "load" ELSE "count_servers")
  /\ UNCHANGED <<seeding, view, starts, disk, net, run>>

CountServers(p) ==
  /\ pc[p] = "count_servers"
  /\ Goto(p, IF Count("servers") > 0 THEN "load" ELSE "seed")
  /\ seeding' = [seeding EXCEPT ![p] = <<1, 1>>]
  /\ UNCHANGED <<view, starts, disk, net, run>>

\* One statement of the seeding.  A name that is taken is an error.
SeedRow(p) ==
  LET s == Sections[seeding[p][1]]
      i == seeding[p][2]
      next == IF i < Yaml[s] THEN <<seeding[p][1], i + 1>> ELSE <<seeding[p][1] + 1, 1>>
  IN /\ pc[p] = "seed"
     /\ IF i <= Yaml[s] /\ s \in Unique /\ rows[s][i] > 0
        THEN Ends(p) /\ UNCHANGED <<rows, seeding>>
        ELSE /\ rows' = IF i > Yaml[s] THEN rows
                        ELSE [rows EXCEPT ![s][i] = IF s \in Updated THEN 1 ELSE @ + 1]
             /\ seeding' = [seeding EXCEPT ![p] = IF next[1] > Len(Sections) THEN <<1, 1>> ELSE next]
             /\ Goto(p, IF next[1] > Len(Sections) THEN "load" ELSE "seed")
             /\ UNCHANGED net
     /\ UNCHANGED <<view, starts, edits, run>>

\* apply_db_config and the builders: without a server there is no resolver.
Load(p) ==
  /\ pc[p] = "load"
  /\ IF Count("servers") = 0 THEN Ends(p) ELSE Goto(p, "port") /\ UNCHANGED net
  /\ view' = [view EXCEPT ![p] = edits]
  /\ UNCHANGED <<seeding, starts, disk, run>>

\* The TCP listener is exclusive.
BindPort(p) ==
  /\ pc[p] = "port"
  /\ IF port = Nobody THEN port' = p /\ Goto(p, "listeners") /\ UNCHANGED file ELSE Ends(p)
  /\ UNCHANGED <<seeding, view, starts, disk, run>>

\* DoT, DoH and DoQ: their addresses, certificates or ports may not be usable.
BindTlsListeners(p) ==
  /\ pc[p] = "listeners"
  /\ \/ Ends(p)
     \/ Goto(p, "check") /\ UNCHANGED net
  /\ UNCHANGED <<seeding, view, starts, disk, run>>

\* Mutant: an existing file is always taken for stale.
CheckSocket_NoConnect(p) ==
  /\ pc[p] = "check"
  /\ Goto(p, IF file = "none" THEN "bind" ELSE "remove")
  /\ UNCHANGED <<seeding, view, starts, disk, net, run>>

\* ControlServer::bind: a file behind which somebody answers is another daemon's.
CheckSocket(p) ==
  /\ pc[p] = "check"
  /\ IF Alive(file) THEN Ends(p)
     ELSE Goto(p, IF file = "none" THEN "bind" ELSE "remove") /\ UNCHANGED net
  /\ UNCHANGED <<seeding, view, starts, disk, run>>

RemoveStale(p) ==
  /\ pc[p] = "remove"
  /\ IF file = "none" THEN Ends(p) ELSE file' = "none" /\ Goto(p, "bind") /\ UNCHANGED port
  /\ UNCHANGED <<seeding, view, starts, disk, run>>

\* The channels, the tasks and the pipeline of the new daemon.
BindSocket(p) ==
  /\ pc[p] = "bind"
  /\ UNCHANGED <<seeding, view, starts, disk>>
  /\ IF file # "none" THEN Ends(p) /\ UNCHANGED run
     ELSE /\ file' = p /\ Goto(p, "run") /\ UNCHANGED port
          /\ Reset(view[p])

StartUp(p) ==
  \/ CountLists(p) \/ CountServers(p) \/ SeedRow(p) \/ Load(p)
  \/ BindPort(p) \/ BindTlsListeners(p) \/ CheckSocket(p) \/ RemoveStale(p) \/ BindSocket(p)

-----------------------------------------------------------------------------
(* The running daemon.                                                     *)

Running == \E p \in Procs : pc[p] = "run"

still == <<pc, seeding, view, starts, net>>

\* A management call writes to the database.
Edit ==
  /\ Running /\ edits < MaxEdits
  /\ edits' = edits + 1
  /\ UNCHANGED <<still, rows, run>>

\* An operator sends SIGHUP; the kernel keeps one.
Hangup ==
  /\ Running
  /\ hup' = [hup EXCEPT !.kernel = TRUE]
  /\ asked' = edits
  /\ UNCHANGED <<still, disk, queue, reload, control, engine, begun>>

\* The signal's task, its channel of one, and the task that forwards to the reload channel.
Forward ==
  /\ Running
  /\ \/ hup.kernel /\ ~hup.task /\ hup' = [hup EXCEPT !.kernel = FALSE, !.task = TRUE]
                   /\ UNCHANGED queue
     \/ hup.task /\ ~hup.channel /\ hup' = [hup EXCEPT !.task = FALSE, !.channel = TRUE]
                 /\ UNCHANGED queue
     \/ hup.channel /\ ~hup.forwarder /\ hup' = [hup EXCEPT !.channel = FALSE, !.forwarder = TRUE]
                    /\ UNCHANGED queue
     \/ hup.forwarder /\ queue < Capacity /\ hup' = [hup EXCEPT !.forwarder = FALSE]
                      /\ queue' = queue + 1
  /\ UNCHANGED <<still, disk, reload, control, engine, asked, begun>>

\* A client is accepted; the task serves one at a time.
Accept(command) ==
  /\ Running /\ control.pc = "accept"
  /\ control' = [pc |-> "read", command |-> command, at |-> edits]
  /\ UNCHANGED <<still, disk, hup, queue, reload, engine, asked, begun>>

\* handle_connection, up to its reply.
Handle ==
  /\ Running /\ control.pc = "read"
  /\ UNCHANGED <<seeding, view, starts, disk, net, hup, reload, engine, asked, begun>>
  /\ \/ /\ control.command = "reload" /\ queue < Capacity
        /\ queue' = queue + 1
        /\ control' = [control EXCEPT !.pc = "reply"]
        /\ UNCHANGED pc
     \/ /\ control.command = "stop"
        /\ pc' = [p \in Procs |-> IF pc[p] = "run" THEN "closing" ELSE pc[p]]
        /\ control' = Idle
        /\ UNCHANGED queue

Reply ==
  /\ Running /\ control.pc = "reply"
  /\ asked' = IF control.at > asked THEN control.at ELSE asked
  /\ control' = Idle
  /\ UNCHANGED <<still, disk, hup, queue, reload, engine, begun>>

\* The time-out around handle_connection drops it wherever it is: the line has not
\* come, the channel is full, or the reply cannot be written.
Timeout ==
  /\ Running /\ control.pc # "accept"
  /\ control' = Idle
  /\ UNCHANGED <<still, disk, hup, queue, reload, engine, asked, begun>>

\* The reload task takes a message and reads the database.
ReloadBegin ==
  /\ Running /\ queue > 0 /\ reload = Nobody
  /\ queue' = queue - 1
  /\ reload' = edits
  /\ begun' = edits
  /\ UNCHANGED <<still, disk, hup, control, engine, asked>>

\* Mutant: what was queued during the reload is thrown away with it.
ReloadEnd_Drain ==
  /\ Running /\ reload # Nobody
  /\ reload' = Nobody
  /\ queue' = 0
  /\ engine' \in {engine, [engine EXCEPT !.reloaded = TRUE]}
  /\ UNCHANGED <<still, disk, hup, control, asked, begun>>

\* It swaps the pipeline in, or keeps the old one when a part cannot be built.
ReloadEnd ==
  /\ Running /\ reload # Nobody
  /\ reload' = Nobody
  /\ engine' \in {engine, [engine EXCEPT !.reloaded = TRUE]}
  /\ UNCHANGED <<still, disk, hup, queue, control, asked, begun>>

\* disable_list and enable_list: on the engine that ServerOperations was made with.
SetList(off) ==
  /\ Running
  /\ engine' = [engine EXCEPT !.off = off]
  /\ UNCHANGED <<still, disk, hup, queue, reload, control, asked, begun>>

Runtime ==
  \/ Edit \/ Hangup \/ Forward
  \/ (\E command \in {"reload", "stop"} : Accept(command))
  \/ Handle \/ Reply \/ Timeout \/ ReloadBegin \/ ReloadEnd
  \/ (\E b \in BOOLEAN : SetList(b))

-----------------------------------------------------------------------------
(* The end.                                                                *)

\* SIGTERM or SIGINT cancels the token.
Terminate(p) ==
  /\ pc[p] = "run"
  /\ Goto(p, "closing")
  /\ Reset(0)
  /\ UNCHANGED <<seeding, view, starts, disk, net>>

\* The listeners see the token and close.
ClosePort(p) ==
  /\ pc[p] \in {"closing", "closed"} /\ port = p
  /\ port' = Nobody
  /\ UNCHANGED <<pc, seeding, view, starts, disk, file, run>>

\* The control task sees it and removes the file, whoever's it is.
Cleanup(p) ==
  /\ pc[p] = "closing"
  /\ Goto(p, "closed")
  /\ file' = "none"
  /\ UNCHANGED <<seeding, view, starts, disk, port, run>>

\* The final select returns as soon as one branch does.
MainReturns(p) ==
  /\ pc[p] \in {"closing", "closed"}
  /\ Ends(p)
  /\ UNCHANGED <<seeding, view, starts, disk, run>>

Crash(p) ==
  /\ pc[p] # "down"
  /\ Ends(p)
  /\ IF pc[p] = "run" THEN Reset(0) ELSE UNCHANGED run
  /\ UNCHANGED <<starts, disk>>
  /\ seeding' = [seeding EXCEPT ![p] = <<1, 1>>]
  /\ view' = [view EXCEPT ![p] = 0]

Finish(p) == Terminate(p) \/ ClosePort(p) \/ Cleanup(p) \/ MainReturns(p) \/ Crash(p)

DaemonNext == Runtime \/ \E p \in Procs : Launch(p) \/ StartUp(p) \/ Finish(p)

DaemonSpec == DaemonInit /\ [][DaemonNext]_daemon_vars

\* The schedulers run a process that was started and the tasks of the runtime;
\* nobody has to send a command.
Fairness ==
  /\ WF_daemon_vars(\E p \in Procs : StartUp(p))
  /\ WF_daemon_vars(Forward) /\ WF_daemon_vars(ReloadBegin) /\ WF_daemon_vars(ReloadEnd)

FairSpec == DaemonSpec /\ Fairness

-----------------------------------------------------------------------------
(* Properties.                                                             *)

\* A daemon that runs and was not asked to stop can be reached: the file at the
\* socket's path is the one of its own listener.  ControlServer::bind removes the
\* file of a dead daemon, and the cleanup of a stopping one removes whatever is there.
SocketReachesDaemon == \A p \in Procs : pc[p] = "run" => file = p

\* No row of the YAML file is in the database twice, though only some of the tables
\* have a unique key, processes may overlap, and a start may be killed half-way.  (The
\* file names at least one list, see YamlAssumption: the unique names of the lists,
\* which are written first, keep a second process from writing the rest.)
NeverSeededTwice == \A s \in DOMAIN rows : \A i \in DOMAIN rows[s] : rows[s][i] <= 1

\* A reload that was acknowledged on the control socket, or asked for by a signal,
\* reads what was in the database when it was asked for, unless the daemon ends.
ReloadRequestsTakeEffect ==
  \A n \in 1 .. MaxEdits : asked = n /\ Running ~> begun >= n \/ ~Running

\* README.md: `disable_list` disables a filter list by name.  The list is off for
\* queries exactly when the calls say so.
OpsReachQueries == Running => (engine.off => ~engine.reloaded)
=============================================================================
