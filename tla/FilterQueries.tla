--------------------------- MODULE FilterQueries ---------------------------
(***************************************************************************)
(* Queries against a filter engine that is being refreshed: DnsFilterStage *)
(* of src/use_cases/request_pipeline.rs over the engine of FilterEngine.   *)
(*                                                                         *)
(* A query is decided on the snapshot.  When it is blocked, blocked_by     *)
(* works out again, from the flags and the map, which lists did it; the    *)
(* names go into the log and the blocklist_hits_total metric.  The engine  *)
(* moves on between the two.                                               *)
(***************************************************************************)
EXTENDS FilterEngine

VARIABLE
  query   \* the query: its domain, the flags loaded so far and the lists found

qvars == <<vars, query>>

(* steady: history, no refresh was past its fetch and no enable or disable *)
(* was running at any moment since the query was decided.                  *)
IdleQuery ==
  [pc |-> "idle", domain |-> CHOOSE d \in Domains : TRUE,
   loaded |-> {}, off |-> {}, by |-> {}, steady |-> FALSE]

Steady == \A t \in Tasks : task[t].pc \in {"idle", "fetch"}

QInit == Init /\ query = IdleQuery

\* Only a blocked query goes on to blocked_by.
HandleQuery(d) ==
  /\ query.pc = "idle"
  /\ decide(snapshot, d) = "Block"
  /\ query' = [IdleQuery EXCEPT !.pc = "flags", !.domain = d, !.steady = Steady]
  /\ UNCHANGED vars

LoadQueryFlag(l) ==
  /\ query.pc = "flags"
  /\ l \notin query.loaded
  /\ query' = [query EXCEPT !.loaded = query.loaded \cup {l},
                            !.off = query.off \cup {k \in {l} : disabled[k]}]
  /\ UNCHANGED vars

\* Mutant: only the domain itself is looked up, not its parents.
Names_Exact(l, d) == d \in lists[l].domains

\* List l has an entry for the domain or a parent of it.
Names(l, d) == matches_any(lists[l].domains, d)

blocked_by ==
  /\ query.pc = "flags"
  /\ query.loaded = Lists
  /\ query' = [query EXCEPT !.pc = "blocked",
       !.by = {l \in Lists \ query.off : Kind[l] = "Block" /\ lists[l] # NoDoc /\ Names(l, query.domain)}]
  /\ UNCHANGED vars

\* The hits are recorded and the sinkhole answer is sent.
RecordHits ==
  /\ query.pc = "blocked"
  /\ query' = IdleQuery
  /\ UNCHANGED vars

Engine(t) ==
  /\ TaskStep(t)
  /\ query' = [query EXCEPT !.steady = query.steady /\ Steady']

QRestart(readable) == Restart(readable) /\ query' = IdleQuery

QNext ==
  \/ \E d \in Domains : HandleQuery(d)
  \/ \E l \in Lists : LoadQueryFlag(l)
  \/ blocked_by
  \/ RecordHits
  \/ \E t \in Tasks : Engine(t)
  \/ \E readable \in SUBSET Lists : QRestart(readable)

QSpec == QInit /\ [][QNext]_qvars

-----------------------------------------------------------------------------
(* The decision and its attribution agree as long as the engine is left    *)
(* alone: the lists that are named are all those that are enabled and have *)
(* an entry for the domain or a parent of it, and there is at least one.   *)
SteadyAttribution ==
  query.pc = "blocked" /\ query.steady =>
    /\ query.by # {}
    /\ query.by = {l \in Lists : /\ Kind[l] = "Block" /\ ~disabled[l] /\ lists[l] # NoDoc
                                 /\ \E e \in lists[l].domains : \E i \in 1..Len(query.domain) :
                                      e = SubSeq(query.domain, i, Len(query.domain))}
=============================================================================
