-------------------------- MODULE UpstreamService --------------------------
(***************************************************************************)
(* What a group of upstream servers promises to the pipeline: a query that *)
(* is asked is answered or fails, and it fails only if each of the servers *)
(* was in trouble at some moment while the query lasted.  How the servers  *)
(* are tried and over which connections is the business of                 *)
(* UpstreamClients, which implements this.                                 *)
(***************************************************************************)
CONSTANTS Queries, Servers

VARIABLES
  status,  \* status[c]: "idle", "asked", "answered" or "failed"
  steady   \* steady[c]: the servers that were well since c was asked

vars == <<status, steady>>

Init ==
  /\ status = [c \in Queries |-> "idle"]
  /\ steady = [c \in Queries |-> {}]

\* Some servers may be in trouble when the query is asked.
Ask(c) ==
  /\ status[c] # "asked"
  /\ status' = [status EXCEPT ![c] = "asked"]
  /\ \E S \in SUBSET Servers : steady' = [steady EXCEPT ![c] = S]

\* Servers get into trouble with some of the queries.
Trouble ==
  /\ DOMAIN steady' = Queries
  /\ \A c \in Queries : steady'[c] \subseteq steady[c]
  /\ UNCHANGED status

Answer(c) ==
  /\ status[c] = "asked"
  /\ status' = [status EXCEPT ![c] = "answered"]
  /\ steady' = [steady EXCEPT ![c] = {}]

\* The trouble with the last server may be what ends the query.
Fail(c) ==
  /\ status[c] = "asked"
  /\ steady[c] = {} \/ \E s \in Servers : steady[c] = {s}
  /\ status' = [status EXCEPT ![c] = "failed"]
  /\ steady' = [steady EXCEPT ![c] = {}]

Next == Trouble \/ \E c \in Queries : Ask(c) \/ Answer(c) \/ Fail(c)

Spec == Init /\ [][Next]_vars
=============================================================================
