------------------------------ MODULE MCDaemon ------------------------------
(* Two processes, and a YAML file with rows in unique and in other tables. *)
EXTENDS Daemon

CONSTANTS p1, p2

MCYaml == [lists |-> 2, filtering |-> 1, resolver |-> 1, servers |-> 1, zones |-> 0, sources |-> 1]

\* The bound: tasks other than the management calls are busy only when all
\* processes have been started and none is starting.
Started == starts = 0 /\ \A p \in Procs : pc[p] \in {"down", "run", "closing", "closed"}

MCNext ==
  \/ Edit
  \/ Started /\ Runtime
  \/ \E p \in Procs : Launch(p) \/ StartUp(p) \/ Finish(p)

MCSpec == DaemonInit /\ [][MCNext]_daemon_vars /\ Fairness
=============================================================================
