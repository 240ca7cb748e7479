-------------------------- MODULE RequestPipeline --------------------------
(***************************************************************************)
(* What happens to one DNS query: src/interface_adapters/listeners/        *)
(* handler.rs takes the current pipeline and runs its stages, which are    *)
(* those of src/use_cases/request_pipeline.rs and zone_forwarding.rs in    *)
(* the order that build_dns_request_pipeline_full puts them in.            *)
(*                                                                         *)
(* A query waits for the network in the zone stages and in the upstream    *)
(* stage.  Meanwhile filtering is switched off and on, the engines refresh *)
(* their lists and a reload puts another pipeline into the slot; a query   *)
(* keeps the pipeline it took, and the engine of a replaced pipeline goes  *)
(* on refreshing.                                                          *)
(***************************************************************************)
EXTENDS Integers, Sequences, FiniteSets

CONSTANTS
  Names,       \* query names, each a sequence of labels, leftmost first
  NoName,      \* the name of a query that has no readable question
  Zones,       \* zone names; the root zone is the empty sequence
  Width,       \* Width[z]: length of zone z as text; that of the root is 1
  Pipelines,   \* the pipelines a configuration may give
  Clients,     \* queries in flight
  MaxReloads   \* bound on the number of reloads

ZoneEntry == [zone: Zones, bypass: BOOLEAN, fallback: BOOLEAN]

AnyQueryPolicy == {"passthrough", "refused", "notimp"}

Gens == 0..MaxReloads

ASSUME ReloadsAssumption == MaxReloads \in Nat
ASSUME WidthAssumption == Width \in [Zones -> 1..255]  \* a DNS name is at most that long
ASSUME NamesAssumption ==
  Names \subseteq Seq(STRING) /\ Zones \subseteq Seq(STRING) /\ NoName \notin Names
ASSUME PipelinesAssumption ==
  Pipelines \subseteq [entries: Seq(ZoneEntry), policy: AnyQueryPolicy] /\ Pipelines # {}

VARIABLES
  slot,     \* the generation of the pipeline in the slot
  pipe,     \* pipe[g]: the entries and the policy of generation g
  blocks,   \* blocks[g]: the names the engine of generation g blocks
  enabled,  \* the filtering_enabled flag, shared by all generations
  req       \* req[c]: how far query c has come

vars == <<slot, pipe, blocks, enabled, req>>

\* Whom a query was sent to: zone entries by position, 0 for the upstreams.
Default == 0

(* saw: history, what has been true at some moment of the query's life:    *)
(* that filtering was on or off, that its engine blocked its name or not.  *)
Requests ==
  [pc: {"idle", "bypass", "bypass_wait", "filter", "decide", "any", "zone", "zone_wait",
        "upstream", "upstream_wait", "respond"},
   name: Names \cup {NoName}, any: BOOLEAN, gen: Gens,
   asked: SUBSET Nat, saw: SUBSET {"on", "off", "blocked", "clear"}, counted: BOOLEAN,
   answer: {"none", "zone", "upstream", "garbled", "sinkhole", "refused", "notimp",
            "nodata", "servfail"}]

-----------------------------------------------------------------------------
(* Choosing a zone.                                                        *)

domain_matches_zone(name, zone) ==
  /\ Len(zone) <= Len(name)
  /\ SubSeq(name, Len(name) - Len(zone) + 1, Len(name)) = zone

(* The text of a zone is longer than that of the zones it is in.  The one  *)
(* exception is a zone of one letter, whose text is as long as the root's: *)
(* of those two, the first in the configuration wins.                      *)
ASSUME TextAssumption ==
  \A y, z \in Zones : domain_matches_zone(z, y) /\ y # z => Width[y] < Width[z]

\* Positions of the entries of one stage whose zone the name is in.
Hits(p, name, bypass) ==
  {i \in DOMAIN p.entries :
     p.entries[i].bypass = bypass /\ domain_matches_zone(name, p.entries[i].zone)}

\* Mutant: the entries are left in the order of the configuration.
matching_entry_Unsorted(p, name, bypass) ==
  CHOOSE i \in Hits(p, name, bypass) : \A j \in Hits(p, name, bypass) : i <= j

(* The first hit after sort_entries, a stable sort by length of the text,  *)
(* longest first.                                                          *)
matching_entry(p, name, bypass) ==
  CHOOSE i \in Hits(p, name, bypass) :
    \A j \in Hits(p, name, bypass) :
      \/ Width[p.entries[i].zone] > Width[p.entries[j].zone]
      \/ Width[p.entries[i].zone] = Width[p.entries[j].zone] /\ i <= j

NoHit(c, bypass) ==
  req[c].name = NoName \/ Hits(pipe[req[c].gen], req[c].name, bypass) = {}

Entry(c, bypass) == matching_entry(pipe[req[c].gen], req[c].name, bypass)

-----------------------------------------------------------------------------
Blocked(c) == req[c].name \in blocks[req[c].gen]

\* What a query at generation g sees of the flag and of its engine.
Sights(on, name, set) ==
  {IF on THEN "on" ELSE "off", IF name \in set THEN "blocked" ELSE "clear"}

IdleRequest ==
  [pc |-> "idle", name |-> NoName, any |-> FALSE, gen |-> 0, asked |-> {}, saw |-> {},
   counted |-> FALSE, answer |-> "none"]

Init ==
  /\ slot = 0
  /\ pipe \in {[g \in Gens |-> p] : p \in Pipelines}
  /\ blocks \in {[g \in Gens |-> set] : set \in SUBSET Names}
  /\ enabled = TRUE
  /\ req = [c \in Clients |-> IdleRequest]

Goto(c, pc) == req' = [req EXCEPT ![c] = [req[c] EXCEPT !.pc = pc]]

Send(c, pc, i) ==
  req' = [req EXCEPT ![c] = [req[c] EXCEPT !.pc = pc, !.asked = req[c].asked \cup {i}]]

Answer(c, a) == req' = [req EXCEPT ![c] = [req[c] EXCEPT !.pc = "respond", !.answer = a]]

\* The handler clones the pipeline out of the slot.
handle_request(c, name, any) ==
  /\ req[c].pc = "idle"
  /\ req' = [req EXCEPT ![c] =
       [IdleRequest EXCEPT !.pc = "bypass", !.name = name, !.any = any, !.gen = slot,
                           !.saw = Sights(enabled, name, blocks[slot])]]
  /\ UNCHANGED <<slot, pipe, blocks, enabled>>

(* A zone stage: the query goes to the servers of the best match, or to    *)
(* the next stage when there is none.                                      *)
ForwardToZone(c, pc, bypass, wait, next) ==
  /\ req[c].pc = pc
  /\ IF NoHit(c, bypass) THEN Goto(c, next) ELSE Send(c, wait, Entry(c, bypass))
  /\ UNCHANGED <<slot, pipe, blocks, enabled>>

\* Mutant: every failed zone falls back.
ZoneFails_AlwaysFallback(c, wait, bypass, next) ==
  /\ req[c].pc = wait
  /\ Goto(c, next)
  /\ UNCHANGED <<slot, pipe, blocks, enabled>>

\* Mutant: the query is sent to the zone again.
ZoneFails_Retry(c, wait, bypass, next) ==
  /\ req[c].pc = wait
  /\ IF pipe[req[c].gen].entries[Entry(c, bypass)].fallback
     THEN Goto(c, IF bypass THEN "bypass" ELSE "zone")
     ELSE Answer(c, "servfail")
  /\ UNCHANGED <<slot, pipe, blocks, enabled>>

ZoneFails(c, wait, bypass, next) ==
  /\ req[c].pc = wait
  /\ IF pipe[req[c].gen].entries[Entry(c, bypass)].fallback
     THEN Goto(c, next)
     ELSE Answer(c, "servfail")
  /\ UNCHANGED <<slot, pipe, blocks, enabled>>

\* The reply goes on with the client's id; one that does not parse, as it is.
ZoneReplies(c, wait) ==
  /\ req[c].pc = wait
  /\ Answer(c, "zone") \/ Answer(c, "garbled")
  /\ UNCHANGED <<slot, pipe, blocks, enabled>>

-----------------------------------------------------------------------------
(* DnsFilterStage loads the flag and then asks the engine.                 *)

\* Mutant: a query that is not filtered is not counted.
LoadFlag_Uncounted(c) ==
  /\ req[c].pc = "filter"
  /\ Goto(c, IF enabled /\ req[c].name # NoName THEN "decide" ELSE "any")
  /\ UNCHANGED <<slot, pipe, blocks, enabled>>

LoadFlag(c) ==
  /\ req[c].pc = "filter"
  /\ req' = [req EXCEPT ![c] =
       IF ~enabled THEN [req[c] EXCEPT !.pc = "any", !.counted = TRUE]
       ELSE IF req[c].name = NoName THEN [req[c] EXCEPT !.pc = "any"]
       ELSE [req[c] EXCEPT !.pc = "decide"]]
  /\ UNCHANGED <<slot, pipe, blocks, enabled>>

\* Mutant: the engine of the pipeline in the slot now is asked.
Decide_CurrentEngine(c) ==
  /\ req[c].pc = "decide"
  /\ req' = [req EXCEPT ![c] =
       IF req[c].name \in blocks[slot]
       THEN [req[c] EXCEPT !.pc = "respond", !.answer = "sinkhole", !.counted = TRUE]
       ELSE [req[c] EXCEPT !.pc = "any", !.counted = TRUE]]
  /\ UNCHANGED <<slot, pipe, blocks, enabled>>

Decide(c) ==
  /\ req[c].pc = "decide"
  /\ req' = [req EXCEPT ![c] =
       IF Blocked(c)
       THEN [req[c] EXCEPT !.pc = "respond", !.answer = "sinkhole", !.counted = TRUE]
       ELSE [req[c] EXCEPT !.pc = "any", !.counted = TRUE]]
  /\ UNCHANGED <<slot, pipe, blocks, enabled>>

\* DnsAnyQueryPolicyStage.
ApplyAnyPolicy(c) ==
  /\ req[c].pc = "any"
  /\ IF req[c].any /\ req[c].name # NoName /\ pipe[req[c].gen].policy # "passthrough"
     THEN Answer(c, pipe[req[c].gen].policy)
     ELSE Goto(c, "zone")
  /\ UNCHANGED <<slot, pipe, blocks, enabled>>

-----------------------------------------------------------------------------
(* DnsUpstreamStage answers whatever the resolver returns, so the stage    *)
(* after it, DnsServfailFallbackStage, is never reached.                   *)

AskUpstream(c) ==
  /\ req[c].pc = "upstream"
  /\ Send(c, "upstream_wait", Default)
  /\ UNCHANGED <<slot, pipe, blocks, enabled>>

\* A reply, one that does not parse, an NSEC error, or any other error.
UpstreamReturns(c) ==
  /\ req[c].pc = "upstream_wait"
  /\ \E a \in {"upstream", "garbled", "nodata", "servfail"} : Answer(c, a)
  /\ UNCHANGED <<slot, pipe, blocks, enabled>>

\* build_response turns what does not parse into SERVFAIL; sending may fail.
Respond(c) ==
  /\ req[c].pc = "respond"
  /\ req' = [req EXCEPT ![c] = IdleRequest]
  /\ UNCHANGED <<slot, pipe, blocks, enabled>>

-----------------------------------------------------------------------------
\* set_filtering_enabled, from the API and MCP.
SetFiltering(b) ==
  /\ enabled' = b
  /\ req' = [c \in Clients |->
       IF req[c].pc = "idle" THEN req[c]
       ELSE [req[c] EXCEPT !.saw = req[c].saw \cup Sights(b, req[c].name, blocks[req[c].gen])]]
  /\ UNCHANGED <<slot, pipe, blocks>>

\* An engine publishes a snapshot.
PublishSnapshot(g, set) ==
  /\ g <= slot
  /\ blocks' = [blocks EXCEPT ![g] = set]
  /\ req' = [c \in Clients |->
       IF req[c].pc = "idle" \/ req[c].gen # g THEN req[c]
       ELSE [req[c] EXCEPT !.saw = req[c].saw \cup Sights(enabled, req[c].name, set)]]
  /\ UNCHANGED <<slot, pipe, enabled>>

\* The reload task puts a pipeline with an engine of its own into the slot.
SwapPipeline(p, set) ==
  /\ slot < MaxReloads
  /\ slot' = slot + 1
  /\ pipe' = [pipe EXCEPT ![slot + 1] = p]
  /\ blocks' = [blocks EXCEPT ![slot + 1] = set]
  /\ UNCHANGED <<enabled, req>>

-----------------------------------------------------------------------------
Stages(c) ==
  \/ ForwardToZone(c, "bypass", TRUE, "bypass_wait", "filter")
  \/ ZoneReplies(c, "bypass_wait")
  \/ ZoneFails(c, "bypass_wait", TRUE, "filter")
  \/ LoadFlag(c)
  \/ Decide(c)
  \/ ApplyAnyPolicy(c)
  \/ ForwardToZone(c, "zone", FALSE, "zone_wait", "upstream")
  \/ ZoneReplies(c, "zone_wait")
  \/ ZoneFails(c, "zone_wait", FALSE, "upstream")
  \/ AskUpstream(c)
  \/ UpstreamReturns(c)
  \/ Respond(c)

Next ==
  \/ \E c \in Clients :
       \/ \E name \in Names \cup {NoName}, any \in BOOLEAN : handle_request(c, name, any)
       \/ Stages(c)
  \/ \E b \in BOOLEAN : SetFiltering(b)
  \/ \E g \in Gens, set \in SUBSET Names : PublishSnapshot(g, set)
  \/ \E p \in Pipelines, set \in SUBSET Names : SwapPipeline(p, set)

Spec == Init /\ [][Next]_vars

(* A query keeps running; every resolver returns, because each attempt has *)
(* a timeout and a resolver makes a bounded number of them.                *)
FairSpec == Spec /\ \A c \in Clients : WF_vars(Stages(c))

-----------------------------------------------------------------------------
(* Types of the slot, the pipelines, the engines and the queries.          *)
TypeOK ==
  /\ slot \in Gens
  /\ pipe \in [Gens -> Pipelines]
  /\ blocks \in [Gens -> SUBSET Names]
  /\ enabled \in BOOLEAN
  /\ req \in [Clients -> Requests]

Asked(c) == req[c].asked

\* The entries of query c's pipeline.
Entries(c) == pipe[req[c].gen].entries

(* A blocked query goes nowhere: a name that the engine blocks and a flag  *)
(* that is on for the whole life of a query are enough that neither the    *)
(* upstreams nor the servers of a zone that is subject to filtering see    *)
(* it, also when the query came back from a failed bypass zone or its      *)
(* pipeline was replaced while it waited.                                  *)
BlockedIsNeverForwarded ==
  \A c \in Clients :
    (\E i \in Asked(c) : i = Default \/ ~Entries(c)[i].bypass)
      => req[c].saw \cap {"off", "clear"} # {}

(* A sinkhole answer is given only to a name that the engine blocked at    *)
(* some moment of the query's life, with the flag on at some moment.       *)
SinkholedOnlyIfBlocked ==
  \A c \in Clients : req[c].answer = "sinkhole" => {"on", "blocked"} \subseteq req[c].saw

(* Names of a zone that may not fall back stay inside: when every zone     *)
(* that a name is in says so, the upstreams never see the name.            *)
InternalNamesStayInside ==
  \A c \in Clients :
    Default \in Asked(c) /\ req[c].name # NoName =>
      LET in == {e \in {Entries(c)[i] : i \in DOMAIN Entries(c)} :
                   \E k \in 0..Len(req[c].name) :
                     e.zone = SubSeq(req[c].name, k + 1, Len(req[c].name))}
      IN  in = {} \/ \E e \in in : e.fallback

(* Of the zones that a name is in, the servers of the most specific one    *)
(* are asked, among those that bypass the filter and among the others.     *)
LongestZoneWins ==
  \A c \in Clients : \A i \in Asked(c) \ {Default} : \A j \in DOMAIN Entries(c) :
    /\ Entries(c)[j].bypass = Entries(c)[i].bypass
    /\ domain_matches_zone(req[c].name, Entries(c)[j].zone)
    => Len(Entries(c)[j].zone) <= Len(Entries(c)[i].zone)

(* dns_queries_total misses only what the filter stage never saw: a query  *)
(* with a readable name is counted before it is answered, unless a bypass  *)
(* zone answered it, whichever later stage does and whether filtering is   *)
(* on or off.                                                              *)
CountedUnlessBypassed ==
  \A c \in Clients :
    /\ req[c].pc = "respond" /\ req[c].name # NoName
    /\ Asked(c) = {} \/ \E i \in Asked(c) : i = Default \/ ~Entries(c)[i].bypass
    => req[c].counted

(* Every query is answered, whatever fails and however often the           *)
(* configuration is reloaded meanwhile.                                    *)
QueriesAreAnswered == \A c \in Clients : []<>(req[c].pc = "idle")
=============================================================================
