----------------------- MODULE RequestPipelineProofs -----------------------
(***************************************************************************)
(* Proofs about RequestPipeline, for any names, zones, pipelines and       *)
(* number of queries and reloads.                                          *)
(*                                                                         *)
(* Queries do not touch each other, so the invariant is a predicate Sound  *)
(* of one query's record, the pipeline and the engine it took and the      *)
(* flag.  Its heart is that the history of a query always includes what is *)
(* true now: the moment in which a stage looks at the flag or at the       *)
(* engine is then a moment of the query's life.  A reload touches neither  *)
(* the pipeline nor the engine of a query in flight, which are of an       *)
(* earlier generation.                                                     *)
(***************************************************************************)
EXTENDS RequestPipeline, WellFoundedInduction, TLAPS

Late == {"any", "zone", "zone_wait", "upstream", "upstream_wait"}

Free(r) == r.saw \cap {"off", "clear"} # {}

\* The name is in a zone of the stage.
Found(r, p, bypass) == r.name # NoName /\ Hits(p, r.name, bypass) # {}

\* The stage lets the query pass: no zone, or one that may fall back.
Passed(r, p, bypass) ==
  ~Found(r, p, bypass) \/ p.entries[matching_entry(p, r.name, bypass)].fallback

Sound(r, p, b, on) ==
  /\ r.pc # "idle" => Sights(on, r.name, b) \subseteq r.saw
  /\ r.pc = "decide" => "on" \in r.saw
  /\ r.answer = "sinkhole" => {"on", "blocked"} \subseteq r.saw
  /\ r.pc \in Late => Free(r)
  /\ \A i \in r.asked : (i = Default \/ ~p.entries[i].bypass) => Free(r)
  /\ r.pc = "bypass_wait" => Found(r, p, TRUE)
  /\ r.pc = "zone_wait" => Found(r, p, FALSE)
  /\ (r.pc \in {"filter", "decide"} \cup Late \/ Default \in r.asked) => Passed(r, p, TRUE)
  /\ (r.pc \in {"upstream", "upstream_wait"} \/ Default \in r.asked) => Passed(r, p, FALSE)

IInv ==
  /\ TypeOK
  /\ \A c \in Clients : /\ req[c].gen <= slot
                        /\ Sound(req[c], pipe[req[c].gen], blocks[req[c].gen], enabled)

-----------------------------------------------------------------------------
(* A non-empty set of natural numbers has a least element.                 *)
LEMMA LeastNatural ==
  ASSUME NEW S, S \subseteq Nat, S # {}
  PROVE  \E m \in S : \A n \in S : m <= n
<1> DEFINE R == OpToRel(<, Nat)
<1>1. IsWellFoundedOn(R, Nat)
  BY NatLessThanWellFounded, Zenon
<1>2. \A m, n \in Nat : <<n, m>> \in R <=> n < m
  BY DEF OpToRel
<1> HIDE DEF R
<1>3. PICK m \in S : \A n \in S : ~(<<n, m>> \in R)
  BY <1>1, WFMin, Zenon
<1>4. ASSUME NEW n \in S PROVE m <= n
  <2>1. m \in Nat /\ n \in Nat
    OBVIOUS
  <2>2. ~(n < m)
    BY <1>2, <1>3, <2>1, Zenon
  <2> QED
    BY <2>1, <2>2
<1> QED
  BY <1>4

(* matching_entry finds an entry whenever there is one, and none has a     *)
(* longer text: some entry has the longest text, and of those some entry   *)
(* is first.                                                               *)
LEMMA LongestEntryFound ==
  ASSUME NEW p \in Pipelines, NEW name, NEW bypass, Hits(p, name, bypass) # {}
  PROVE  /\ matching_entry(p, name, bypass) \in Hits(p, name, bypass)
         /\ \A j \in Hits(p, name, bypass) :
              LET i == matching_entry(p, name, bypass)
              IN  \/ Width[p.entries[i].zone] > Width[p.entries[j].zone]
                  \/ Width[p.entries[i].zone] = Width[p.entries[j].zone] /\ i <= j
<1> DEFINE H == Hits(p, name, bypass)
           w == [i \in H |-> Width[p.entries[i].zone]]
<1>1. H \subseteq Nat /\ w \in [H -> 1..255]
  <2>1. p.entries \in Seq(ZoneEntry)
    BY PipelinesAssumption
  <2>2. ASSUME NEW i \in H PROVE i \in Nat /\ Width[p.entries[i].zone] \in 1..255
    <3>1. i \in 1..Len(p.entries) /\ Len(p.entries) \in Nat
      BY <2>1 DEF Hits
    <3>2. p.entries[i] \in ZoneEntry
      BY <2>1, <3>1
    <3>3. p.entries[i].zone \in Zones
      BY <3>2, Zenon DEF ZoneEntry
    <3>4. \A n \in 1..Len(p.entries) : n \in Nat
      BY <3>1
    <3> QED
      BY <3>1, <3>3, <3>4, WidthAssumption, Zenon
  <2> QED
    BY <2>2, Zenon
<1>2. H # {}
  OBVIOUS
<1>3. ASSUME NEW i \in H, \A j \in H : w[i] > w[j] \/ (w[i] = w[j] /\ i <= j)
      PROVE  /\ matching_entry(p, name, bypass) \in H
             /\ \A j \in Hits(p, name, bypass) :
                  LET k == matching_entry(p, name, bypass)
                  IN  \/ Width[p.entries[k].zone] > Width[p.entries[j].zone]
                      \/ Width[p.entries[k].zone] = Width[p.entries[j].zone] /\ k <= j
  <2>1. \E k \in Hits(p, name, bypass) : \A j \in Hits(p, name, bypass) :
          \/ Width[p.entries[k].zone] > Width[p.entries[j].zone]
          \/ Width[p.entries[k].zone] = Width[p.entries[j].zone] /\ k <= j
    BY <1>3, Zenon
  <2> QED
    BY <2>1, Zenon DEF matching_entry
<1> HIDE DEF H, w
<1> DEFINE Short == {255 - w[i] : i \in H}
<1>4. PICK m \in Short : \A n \in Short : m <= n
  <2>1. ASSUME NEW i \in H PROVE 255 - w[i] \in Nat
    <3>1. w[i] \in 1..255
      BY <1>1, Zenon
    <3> QED
      BY <3>1
  <2>2. Short \subseteq Nat /\ Short # {}
    BY <1>2, <2>1
  <2> HIDE DEF Short
  <2> QED
    BY <2>2, LeastNatural, Zenon
<1> DEFINE Longest == {i \in H : 255 - w[i] = m}
<1>5. PICK i \in Longest : \A j \in Longest : i <= j
  <2>1. Longest \subseteq Nat /\ Longest # {}
    BY <1>1, <1>4, Zenon
  <2> HIDE DEF Longest
  <2> QED
    BY <2>1, LeastNatural, Zenon
<1>6. i \in H /\ 255 - w[i] = m
  BY <1>5
<1>7. ASSUME NEW j \in H PROVE w[i] > w[j] \/ (w[i] = w[j] /\ i <= j)
  <2>1. w[i] \in Int /\ w[j] \in Int
    <3>1. \A n \in 1..255 : n \in Int
      OBVIOUS
    <3> QED
      BY <1>1, <1>6, <3>1, Zenon
  <2>2. 255 - w[i] <= 255 - w[j]
    BY <1>4, <1>6
  <2>3. w[i] = w[j] => i <= j
    BY <1>5, <1>6
  <2>4. w[i] >= w[j]
    BY <2>1, <2>2
  <2> QED
    BY <2>1, <2>3, <2>4
<1> QED
  BY <1>3, <1>6, <1>7, Zenon DEF H

LEMMA EntryFound ==
  ASSUME NEW p \in Pipelines, NEW name, NEW bypass, Hits(p, name, bypass) # {}
  PROVE  matching_entry(p, name, bypass) \in Hits(p, name, bypass)
  BY LongestEntryFound, Zenon

(* A query goes from one stage to the next, or back to idle: what the      *)
(* stages rely on is kept.                                                 *)
LEMMA ForwardSound ==
  ASSUME NEW r \in Requests, NEW p \in Pipelines, NEW b, NEW on, NEW bypass \in BOOLEAN,
         Sound(r, p, b, on),
         r.pc = IF bypass THEN "bypass" ELSE "zone"
  PROVE  /\ ~Found(r, p, bypass) =>
              Sound([r EXCEPT !.pc = IF bypass THEN "filter" ELSE "upstream"], p, b, on)
         /\ Found(r, p, bypass) =>
              Sound([r EXCEPT !.pc = IF bypass THEN "bypass_wait" ELSE "zone_wait",
                              !.asked = r.asked \cup {matching_entry(p, r.name, bypass)}],
                    p, b, on)
<1>1. ASSUME ~Found(r, p, bypass)
      PROVE  Sound([r EXCEPT !.pc = IF bypass THEN "filter" ELSE "upstream"], p, b, on)
  <2> DEFINE q == [r EXCEPT !.pc = IF bypass THEN "filter" ELSE "upstream"]
  <2>1. /\ q.pc = (IF bypass THEN "filter" ELSE "upstream")
        /\ q.asked = r.asked /\ q.name = r.name /\ q.saw = r.saw /\ q.answer = r.answer
    BY Zenon DEF Requests
  <2> HIDE DEF q
  <2>2. Sound(q, p, b, on)
    BY <1>1, <2>1, Zenon DEF Sound, Free, Found, Passed, Late, Sights
  <2> QED
    BY <2>2 DEF q
<1>2. ASSUME Found(r, p, bypass)
      PROVE  Sound([r EXCEPT !.pc = IF bypass THEN "bypass_wait" ELSE "zone_wait",
                             !.asked = r.asked \cup {matching_entry(p, r.name, bypass)}],
                   p, b, on)
  <2> DEFINE i == matching_entry(p, r.name, bypass)
  <2>1. i \in Hits(p, r.name, bypass)
    BY <1>2, EntryFound DEF Found
  <2>2. i # Default /\ p.entries[i].bypass = bypass
    <3>1. p.entries \in Seq(ZoneEntry)
      BY PipelinesAssumption
    <3> QED
      BY <2>1, <3>1 DEF Hits, Default
  <2> HIDE DEF i
  <2> DEFINE q == [r EXCEPT !.pc = IF bypass THEN "bypass_wait" ELSE "zone_wait",
                            !.asked = r.asked \cup {i}]
  <2>3. /\ q.pc = (IF bypass THEN "bypass_wait" ELSE "zone_wait")
        /\ q.asked = r.asked \cup {i} /\ q.name = r.name /\ q.saw = r.saw
        /\ q.answer = r.answer
    BY Zenon DEF Requests
  <2> HIDE DEF q
  <2>4. Sound(q, p, b, on)
    BY <1>2, <2>2, <2>3, Zenon DEF Sound, Free, Found, Passed, Late, Sights
  <2> QED
    BY <2>4 DEF q, i
<1> QED
  BY <1>1, <1>2

(* A query that moves on with the same name, history and list of those     *)
(* asked is sound when it has what its new place asks for.                 *)
LEMMA MoveSound ==
  ASSUME NEW r, NEW q, NEW p, NEW b, NEW on, Sound(r, p, b, on), r.pc # "idle",
         q.name = r.name, q.saw = r.saw, q.asked = r.asked,
         q.pc \notin {"bypass_wait", "zone_wait"},
         q.pc = "decide" => "on" \in r.saw,
         q.answer = "sinkhole" => {"on", "blocked"} \subseteq r.saw,
         q.pc \in Late => Free(r),
         q.pc \in {"filter", "decide"} \cup Late => Passed(r, p, TRUE),
         q.pc \in {"upstream", "upstream_wait"} => Passed(r, p, FALSE)
  PROVE  Sound(q, p, b, on)
BY Zenon DEF Sound, Free, Found, Passed

(* Seeing more, including what is true now, keeps a query sound.           *)
LEMMA SeeMoreSound ==
  ASSUME NEW r \in Requests, NEW more \in SUBSET {"on", "off", "blocked", "clear"},
         NEW p, NEW b, NEW on, NEW b2, NEW on2, Sound(r, p, b, on),
         Sights(on2, r.name, b2) \subseteq more
  PROVE  /\ [r EXCEPT !.saw = r.saw \cup more] \in Requests
         /\ Sound([r EXCEPT !.saw = r.saw \cup more], p, b2, on2)
<1> DEFINE q == [r EXCEPT !.saw = r.saw \cup more]
<1>1. q \in Requests
  BY Zenon DEF Requests
<1>2. /\ q.pc = r.pc /\ q.name = r.name /\ q.asked = r.asked /\ q.answer = r.answer
      /\ q.saw = r.saw \cup more
  BY Zenon DEF Requests
<1> HIDE DEF q
<1>3. Free(r) => Free(q)
  BY <1>2 DEF Free
<1>4. (Passed(q, p, TRUE) <=> Passed(r, p, TRUE)) /\ (Passed(q, p, FALSE) <=> Passed(r, p, FALSE))
      /\ (Found(q, p, TRUE) <=> Found(r, p, TRUE)) /\ (Found(q, p, FALSE) <=> Found(r, p, FALSE))
  BY <1>2 DEF Passed, Found
<1>5. Sound(q, p, b2, on2)
  BY <1>2, <1>3, <1>4, Zenon DEF Sound
<1> QED
  BY <1>1, <1>5 DEF q

(* An idle query is sound.                                                 *)
LEMMA IdleSound ==
  /\ IdleRequest \in Requests
  /\ \A p, b, on : Sound(IdleRequest, p, b, on)
<1>1. 0 \in Gens
  BY ReloadsAssumption DEF Gens
<1> QED
  BY <1>1 DEF IdleRequest, Requests, Sound, Late, Default

(* The initial states satisfy the invariant.                               *)
LEMMA InitIInv == Init => IInv
<1> SUFFICES ASSUME Init PROVE IInv
  OBVIOUS
<1>1. slot \in Gens /\ slot = 0
  BY ReloadsAssumption DEF Init, Gens
<1>2. pipe \in [Gens -> Pipelines] /\ blocks \in [Gens -> SUBSET Names]
  BY DEF Init
<1>3. enabled \in BOOLEAN
  BY Zenon DEF Init
<1>4. req \in [Clients -> Requests]
  BY IdleSound DEF Init
<1>5. ASSUME NEW c \in Clients PROVE req[c] = IdleRequest /\ req[c].gen = 0
  BY Zenon DEF Init, IdleRequest
<1> QED
  BY <1>1, <1>2, <1>3, <1>4, <1>5, IdleSound DEF IInv, TypeOK

(* It is enough to look at the one query that moves.                       *)
LEMMA OneQuery ==
  ASSUME IInv, NEW c \in Clients, NEW q \in Requests, q.gen <= slot,
         Sound(q, pipe[q.gen], blocks[q.gen], enabled),
         req' = [req EXCEPT ![c] = q], UNCHANGED <<slot, pipe, blocks, enabled>>
  PROVE  IInv'
<1>1. TypeOK'
  BY Zenon DEF IInv, TypeOK
<1>2. ASSUME NEW d \in Clients
      PROVE  /\ req'[d].gen <= slot'
             /\ Sound(req'[d], pipe'[req'[d].gen], blocks'[req'[d].gen], enabled')
  <2>1. req'[d] = IF d = c THEN q ELSE req[d]
    BY Zenon DEF IInv, TypeOK
  <2> QED
    BY <2>1, Zenon DEF IInv
<1> QED
  BY <1>1, <1>2, Zenon DEF IInv

(* The stages keep the invariant.                                          *)
LEMMA StagesIInv ==
  ASSUME IInv, NEW c \in Clients, Stages(c)
  PROVE  IInv'
<1> DEFINE r == req[c]
           p == pipe[r.gen]
           b == blocks[r.gen]
<1>0. /\ r \in Requests /\ r.gen \in Gens /\ r.gen <= slot
      /\ p \in Pipelines /\ b \subseteq Names
      /\ Sound(r, p, b, enabled)
      /\ r.pc # "idle" => Sights(enabled, r.name, b) \subseteq r.saw
  <2>1. r \in Requests /\ r.gen <= slot /\ Sound(r, p, b, enabled)
    BY Zenon DEF IInv, TypeOK
  <2>2. r.gen \in Gens
    BY <2>1, Zenon DEF Requests
  <2> QED
    BY <2>1, <2>2, Zenon DEF IInv, TypeOK, Sound
<1>1. UNCHANGED <<slot, pipe, blocks, enabled>>
  BY Zenon DEF Stages, ForwardToZone, ZoneReplies, ZoneFails, LoadFlag, Decide, ApplyAnyPolicy,
         AskUpstream, UpstreamReturns, Respond
<1>2. ASSUME NEW q \in Requests, q.gen = r.gen, Sound(q, p, b, enabled),
             req' = [req EXCEPT ![c] = q]
      PROVE  IInv'
  BY <1>0, <1>1, <1>2, OneQuery, Zenon
<1>3. ASSUME NEW pc \in {"filter", "any", "zone", "upstream"}, Goto(c, pc), r.pc # "idle",
             pc \in Late => Free(r), Passed(r, p, TRUE), pc = "upstream" => Passed(r, p, FALSE)
      PROVE  IInv'
  <2> DEFINE q == [r EXCEPT !.pc = pc]
  <2>1. /\ q \in Requests /\ q.gen = r.gen /\ q.pc = pc
        /\ q.name = r.name /\ q.saw = r.saw /\ q.asked = r.asked /\ q.answer = r.answer
    BY <1>0, <1>3, Zenon DEF Requests
  <2>2. req' = [req EXCEPT ![c] = q]
    BY <1>3, Zenon DEF Goto
  <2>3. q.answer = "sinkhole" => {"on", "blocked"} \subseteq r.saw
    BY <1>0, <2>1, Zenon DEF Sound
  <2> HIDE DEF q, r, p, b
  <2>4. Sound(q, p, b, enabled)
    BY <1>0, <1>3, <2>1, <2>3, MoveSound, Zenon
  <2> QED
    BY <1>2, <2>1, <2>2, <2>4, Zenon
<1>4. ASSUME NEW a \in {"zone", "upstream", "garbled", "refused", "notimp", "nodata", "servfail"},
             Answer(c, a), r.pc # "idle"
      PROVE  IInv'
  <2> DEFINE q == [r EXCEPT !.pc = "respond", !.answer = a]
  <2>1. /\ q \in Requests /\ q.gen = r.gen /\ q.pc = "respond" /\ q.answer = a
        /\ q.name = r.name /\ q.saw = r.saw /\ q.asked = r.asked
    BY <1>0, <1>4, Zenon DEF Requests
  <2>2. req' = [req EXCEPT ![c] = q]
    BY <1>4 DEF Answer
  <2> HIDE DEF q, r, p, b
  <2>4. Sound(q, p, b, enabled)
    BY <1>0, <1>4, <2>1, MoveSound, Zenon DEF Late
  <2> QED
    BY <1>2, <2>1, <2>2, <2>4, Zenon
<1>5. ASSUME NEW bypass \in BOOLEAN, NEW pc, NEW wait, NEW next,
             pc = IF bypass THEN "bypass" ELSE "zone",
             wait = IF bypass THEN "bypass_wait" ELSE "zone_wait",
             next = IF bypass THEN "filter" ELSE "upstream",
             ForwardToZone(c, pc, bypass, wait, next)
      PROVE  IInv'
  <2>0. r.pc = pc
    BY <1>5 DEF ForwardToZone
  <2>1. CASE ~Found(r, p, bypass)
    <3> DEFINE q == [r EXCEPT !.pc = next]
    <3>1. req' = [req EXCEPT ![c] = q]
      BY <1>5, <2>1, Zenon DEF ForwardToZone, NoHit, Found, Goto
    <3>2. q \in Requests /\ q.gen = r.gen
      BY <1>0, <1>5, Zenon DEF Requests
    <3>3. Sound(q, p, b, enabled)
      BY <1>0, <1>5, <2>0, <2>1, ForwardSound, Zenon
    <3> QED
      BY <1>2, <3>1, <3>2, <3>3, Zenon
  <2>2. CASE Found(r, p, bypass)
    <3> DEFINE i == matching_entry(p, r.name, bypass)
               q == [r EXCEPT !.pc = wait, !.asked = r.asked \cup {i}]
    <3>1. req' = [req EXCEPT ![c] = q]
      BY <1>5, <2>2, Zenon DEF ForwardToZone, NoHit, Found, Send, Entry
    <3>2. i \in Nat
      <4>1. i \in DOMAIN p.entries
        BY <1>0, <2>2, EntryFound, Zenon DEF Found, Hits
      <4>2. p.entries \in Seq(ZoneEntry)
        BY <1>0, PipelinesAssumption, Zenon
      <4> QED
        BY <4>1, <4>2
    <3>3. Sound(q, p, b, enabled)
      <4>1. r \in Requests /\ p \in Pipelines /\ Sound(r, p, b, enabled)
        BY <1>0, Zenon
      <4>2. r.pc = IF bypass THEN "bypass" ELSE "zone"
        BY <1>5, <2>0
      <4> HIDE DEF r, p, b
      <4>3. Sound([r EXCEPT !.pc = IF bypass THEN "bypass_wait" ELSE "zone_wait",
                            !.asked = r.asked \cup {i}], p, b, enabled)
        BY <2>2, <4>1, <4>2, ForwardSound, Zenon
      <4> QED
        BY <1>5, <4>3
    <3> HIDE DEF i
    <3>4. q \in Requests /\ q.gen = r.gen
      BY <1>0, <1>5, <3>2, Zenon DEF Requests
    <3> QED
      BY <1>2, <3>1, <3>3, <3>4, Zenon
  <2> QED
    BY <2>1, <2>2, Zenon
<1>6. ASSUME NEW bypass \in BOOLEAN, NEW wait, NEW next,
             wait = IF bypass THEN "bypass_wait" ELSE "zone_wait",
             next = IF bypass THEN "filter" ELSE "upstream",
             ZoneFails(c, wait, bypass, next)
      PROVE  IInv'
  <2>0. r.pc = wait
    BY <1>6, Zenon DEF ZoneFails
  <2>1. CASE p.entries[Entry(c, bypass)].fallback
    <3>1. Goto(c, next)
      BY <1>6, <2>1, Zenon DEF ZoneFails
    <3>2. Passed(r, p, bypass)
      BY <2>1, Zenon DEF Passed, Entry
    <3>3. ~bypass => Free(r) /\ Passed(r, p, TRUE)
      BY <1>0, <1>6, <2>0, Zenon DEF Sound, Late
    <3> QED
      BY <1>3, <1>6, <2>0, <3>1, <3>2, <3>3, Zenon DEF Late
  <2>2. CASE ~p.entries[Entry(c, bypass)].fallback
    BY <1>4, <1>6, <2>0, <2>2, Zenon DEF ZoneFails
  <2> QED
    BY <2>1, <2>2, Zenon
<1>7. CASE LoadFlag(c)
  <2>0. r.pc = "filter" /\ Passed(r, p, TRUE) /\ Sights(enabled, r.name, b) \subseteq r.saw
        /\ (r.answer = "sinkhole" => {"on", "blocked"} \subseteq r.saw)
    BY <1>0, <1>7, Zenon DEF LoadFlag, Sound
  <2> DEFINE q == IF ~enabled THEN [r EXCEPT !.pc = "any", !.counted = TRUE]
                  ELSE IF r.name = NoName THEN [r EXCEPT !.pc = "any"]
                  ELSE [r EXCEPT !.pc = "decide"]
  <2>1. /\ q \in Requests /\ q.gen = r.gen
        /\ q.name = r.name /\ q.saw = r.saw /\ q.asked = r.asked /\ q.answer = r.answer
        /\ q.pc = IF ~enabled \/ r.name = NoName THEN "any" ELSE "decide"
    BY <1>0, Zenon DEF Requests
  <2>2. req' = [req EXCEPT ![c] = q]
    BY <1>7, Zenon DEF LoadFlag
  <2>3. q.pc \in Late => Free(r)
    BY <1>0, <2>0, <2>1, NamesAssumption DEF Late, Free, Sights
  <2>4. q.pc = "decide" => "on" \in r.saw
    BY <2>0, <2>1 DEF Sights
  <2>5. q.pc \in {"any", "decide"}
    BY <2>1
  <2> HIDE DEF q, r, p, b
  <2>6. Sound(q, p, b, enabled)
    BY <1>0, <2>0, <2>1, <2>3, <2>4, <2>5, MoveSound, Zenon
  <2> QED
    BY <1>2, <2>1, <2>2, <2>6, Zenon
<1>8. CASE Decide(c)
  <2>0. r.pc = "decide" /\ Passed(r, p, TRUE) /\ Sights(enabled, r.name, b) \subseteq r.saw
        /\ "on" \in r.saw /\ (r.answer = "sinkhole" => {"on", "blocked"} \subseteq r.saw)
    BY <1>0, <1>8, Zenon DEF Decide, Sound
  <2> DEFINE q == IF r.name \in b
                  THEN [r EXCEPT !.pc = "respond", !.answer = "sinkhole", !.counted = TRUE]
                  ELSE [r EXCEPT !.pc = "any", !.counted = TRUE]
  <2>1. /\ q \in Requests /\ q.gen = r.gen
        /\ q.name = r.name /\ q.saw = r.saw /\ q.asked = r.asked
        /\ q.pc = IF r.name \in b THEN "respond" ELSE "any"
        /\ q.answer = IF r.name \in b THEN "sinkhole" ELSE r.answer
    BY <1>0, Zenon DEF Requests
  <2>2. req' = [req EXCEPT ![c] = q]
    BY <1>8, Zenon DEF Decide, Blocked
  <2>3. q.pc \in Late => Free(r)
    BY <2>0, <2>1 DEF Late, Free, Sights
  <2>4. q.answer = "sinkhole" => {"on", "blocked"} \subseteq r.saw
    BY <2>0, <2>1, Zenon DEF Sights
  <2>5. q.pc \in {"any", "respond"}
    BY <2>1
  <2> HIDE DEF q, r, p, b
  <2>6. Sound(q, p, b, enabled)
    BY <1>0, <2>0, <2>1, <2>3, <2>4, <2>5, MoveSound, Zenon
  <2> QED
    BY <1>2, <2>1, <2>2, <2>6, Zenon
<1>9. CASE ApplyAnyPolicy(c)
  <2>0. r.pc = "any" /\ Free(r) /\ Passed(r, p, TRUE)
    BY <1>0, <1>9, Zenon DEF ApplyAnyPolicy, Sound, Late
  <2>1. p.policy # "passthrough" => p.policy \in {"refused", "notimp"}
    BY <1>0, PipelinesAssumption, Zenon DEF AnyQueryPolicy
  <2> QED
    BY <1>3, <1>4, <1>9, <2>0, <2>1, Zenon DEF ApplyAnyPolicy
<1>10. CASE AskUpstream(c)
  <2>0. r.pc = "upstream" /\ Free(r) /\ Passed(r, p, TRUE) /\ Passed(r, p, FALSE)
    BY <1>0, <1>10, Zenon DEF AskUpstream, Sound, Late
  <2> DEFINE q == [r EXCEPT !.pc = "upstream_wait", !.asked = r.asked \cup {Default}]
  <2>1. /\ q \in Requests /\ q.gen = r.gen /\ q.pc = "upstream_wait"
        /\ q.name = r.name /\ q.saw = r.saw /\ q.answer = r.answer
        /\ q.asked = r.asked \cup {Default}
    <3>1. Default \in Nat
      BY DEF Default
    <3> QED
      BY <1>0, <3>1, Zenon DEF Requests
  <2>2. req' = [req EXCEPT ![c] = q]
    BY <1>10 DEF AskUpstream, Send
  <2> HIDE DEF q
  <2>3. Sound(q, p, b, enabled)
    BY <1>0, <2>0, <2>1, Zenon DEF Sound, Free, Found, Passed
  <2> QED
    BY <1>2, <2>1, <2>2, <2>3, Zenon
<1>11. CASE UpstreamReturns(c)
  BY <1>4, <1>11 DEF UpstreamReturns
<1>12. CASE Respond(c)
  <2>1. IdleRequest.gen = 0 /\ 0 <= slot
    BY ReloadsAssumption DEF IdleRequest, IInv, TypeOK, Gens
  <2> QED
    BY <1>1, <1>12, <2>1, IdleSound, OneQuery, Zenon DEF Respond
<1>13. CASE ZoneReplies(c, "bypass_wait") \/ ZoneReplies(c, "zone_wait")
  BY <1>4, <1>13, Zenon DEF ZoneReplies
<1> HIDE DEF r, p, b
<1> QED
  BY <1>5, <1>6, <1>7, <1>8, <1>9, <1>10, <1>11, <1>12, <1>13, Zenon DEF Stages

(* Every step keeps the invariant.                                         *)
LEMMA NextIInv == IInv /\ [Next]_vars => IInv'
<1> SUFFICES ASSUME IInv, [Next]_vars PROVE IInv'
  OBVIOUS
<1>0. /\ slot \in Gens /\ pipe \in [Gens -> Pipelines] /\ blocks \in [Gens -> SUBSET Names]
      /\ enabled \in BOOLEAN /\ req \in [Clients -> Requests] /\ slot \in Nat
      /\ \A c \in Clients :
           /\ req[c].gen \in Gens /\ req[c].gen <= slot
           /\ Sound(req[c], pipe[req[c].gen], blocks[req[c].gen], enabled)
  <2>1. \A g \in Gens : g \in Nat
    BY ReloadsAssumption DEF Gens
  <2>2. \A x \in Requests : x.gen \in Gens
    BY Zenon DEF Requests
  <2> QED
    BY <2>1, <2>2, Zenon DEF IInv, TypeOK
<1>1. ASSUME NEW c \in Clients, NEW name \in Names \cup {NoName}, NEW any \in BOOLEAN,
             handle_request(c, name, any)
      PROVE  IInv'
  <2> DEFINE q == [IdleRequest EXCEPT !.pc = "bypass", !.name = name, !.any = any, !.gen = slot,
                                      !.saw = Sights(enabled, name, blocks[slot])]
  <2>1. /\ q \in Requests /\ q.gen = slot /\ q.pc = "bypass" /\ q.name = name /\ q.asked = {}
        /\ q.saw = Sights(enabled, name, blocks[slot]) /\ q.answer = "none"
    BY <1>0, <1>1, ZenonT(60) DEF IdleRequest, Requests, Sights
  <2>2. req' = [req EXCEPT ![c] = q] /\ UNCHANGED <<slot, pipe, blocks, enabled>>
    BY <1>1 DEF handle_request
  <2> HIDE DEF q
  <2>3. Sound(q, pipe[slot], blocks[slot], enabled)
    BY <2>1 DEF Sound, Late
  <2>4. q.gen <= slot /\ Sound(q, pipe[q.gen], blocks[q.gen], enabled)
    BY <1>0, <2>1, <2>3
  <2> QED
    BY <2>1, <2>2, <2>4, OneQuery, Zenon
<1>2. ASSUME NEW c \in Clients, Stages(c) PROVE IInv'
  BY <1>2, StagesIInv
<1>3. ASSUME NEW set, NEW on, UNCHANGED <<slot, pipe>>,
             blocks' \in [Gens -> SUBSET Names], enabled' \in BOOLEAN,
             req' = [c \in Clients |-> IF c \in set THEN req[c] ELSE
                       [req[c] EXCEPT !.saw =
                          req[c].saw \cup Sights(enabled', req[c].name, blocks'[req[c].gen])]],
             \A c \in Clients : c \in set =>
               \/ req[c].pc = "idle"
               \/ blocks'[req[c].gen] = blocks[req[c].gen] /\ enabled' = enabled
      PROVE  IInv'
  <2>1. ASSUME NEW c \in Clients
        PROVE  /\ req'[c] \in Requests /\ req'[c].gen = req[c].gen
               /\ Sound(req'[c], pipe[req[c].gen], blocks'[req[c].gen], enabled')
    <3>1. CASE c \notin set
      <4> DEFINE more == Sights(enabled', req[c].name, blocks'[req[c].gen])
      <4>1. more \in SUBSET {"on", "off", "blocked", "clear"}
        BY DEF Sights
      <4>2. req'[c] = [req[c] EXCEPT !.saw = req[c].saw \cup more]
        BY <1>3, <3>1, Zenon
      <4>3. req[c] \in Requests /\ req'[c].gen = req[c].gen
        BY <1>0, <4>2 DEF Requests
      <4>4. Sights(enabled', req[c].name, blocks'[req[c].gen]) \subseteq more
        OBVIOUS
      <4> HIDE DEF more
      <4>5. /\ [req[c] EXCEPT !.saw = req[c].saw \cup more] \in Requests
            /\ Sound([req[c] EXCEPT !.saw = req[c].saw \cup more],
                     pipe[req[c].gen], blocks'[req[c].gen], enabled')
        BY <1>0, <4>1, <4>3, <4>4, SeeMoreSound, Zenon
      <4> QED
        BY <4>2, <4>3, <4>5, Zenon
    <3>2. CASE c \in set
      <4>1. req'[c] = req[c] /\ req[c] \in Requests
        BY <1>0, <1>3, <3>2, Zenon
      <4>2. CASE req[c].pc = "idle"
        BY <1>0, <4>1, <4>2, Zenon DEF Sound
      <4>3. CASE blocks'[req[c].gen] = blocks[req[c].gen] /\ enabled' = enabled
        BY <1>0, <4>1, <4>3, Zenon
      <4> QED
        BY <1>3, <3>2, <4>2, <4>3, Zenon
    <3> QED
      BY <3>1, <3>2, Zenon
  <2>2. req' \in [Clients -> Requests]
    BY <1>3, <2>1, Zenon
  <2> QED
    BY <1>0, <1>3, <2>1, <2>2, Zenon DEF IInv, TypeOK
<1>4. ASSUME NEW on \in BOOLEAN, SetFiltering(on) PROVE IInv'
  <2> DEFINE set == {c \in Clients : req[c].pc = "idle"}
  <2>1. /\ enabled' \in BOOLEAN /\ UNCHANGED <<slot, pipe>>
        /\ blocks' \in [Gens -> SUBSET Names]
    BY <1>0, <1>4, Zenon DEF SetFiltering
  <2>2. req' = [c \in Clients |-> IF c \in set THEN req[c] ELSE
                  [req[c] EXCEPT !.saw =
                     req[c].saw \cup Sights(enabled', req[c].name, blocks'[req[c].gen])]]
    BY <1>4, Zenon DEF SetFiltering
  <2>3. \A c \in Clients : c \in set => req[c].pc = "idle"
    OBVIOUS
  <2> HIDE DEF set
  <2> QED
    BY <1>3, <2>1, <2>2, <2>3, Zenon
<1>5. ASSUME NEW g \in Gens, NEW names \in SUBSET Names, PublishSnapshot(g, names) PROVE IInv'
  <2> DEFINE set == {c \in Clients : req[c].pc = "idle" \/ req[c].gen # g}
  <2>1. /\ enabled' = enabled /\ enabled' \in BOOLEAN /\ UNCHANGED <<slot, pipe>>
        /\ blocks' \in [Gens -> SUBSET Names] /\ blocks'[g] = names
        /\ \A h \in Gens : h # g => blocks'[h] = blocks[h]
    BY <1>0, <1>5, Zenon DEF PublishSnapshot
  <2>2. req' = [c \in Clients |-> IF c \in set THEN req[c] ELSE
                  [req[c] EXCEPT !.saw =
                     req[c].saw \cup Sights(enabled', req[c].name, blocks'[req[c].gen])]]
    BY <1>5, <2>1, Zenon DEF PublishSnapshot
  <2>3. \A c \in Clients : c \in set =>
          \/ req[c].pc = "idle"
          \/ blocks'[req[c].gen] = blocks[req[c].gen] /\ enabled' = enabled
    BY <1>0, <2>1, Zenon
  <2> HIDE DEF set
  <2> QED
    BY <1>3, <2>1, <2>2, <2>3, Zenon
<1>6. ASSUME NEW p \in Pipelines, NEW names \in SUBSET Names, SwapPipeline(p, names) PROVE IInv'
  <2>1. slot + 1 \in Gens /\ slot' = slot + 1 /\ UNCHANGED <<enabled, req>>
    BY <1>0, <1>6, ReloadsAssumption DEF SwapPipeline, Gens
  <2>2. /\ pipe' \in [Gens -> Pipelines] /\ blocks' \in [Gens -> SUBSET Names]
        /\ \A g \in Gens : g # slot + 1 => pipe'[g] = pipe[g] /\ blocks'[g] = blocks[g]
    BY <1>0, <1>6, <2>1, Zenon DEF SwapPipeline
  <2>3. ASSUME NEW c \in Clients
        PROVE  /\ req[c].gen <= slot' /\ pipe'[req[c].gen] = pipe[req[c].gen]
               /\ blocks'[req[c].gen] = blocks[req[c].gen]
    <3>1. req[c].gen \in Nat /\ req[c].gen <= slot
      BY <1>0, ReloadsAssumption DEF Gens
    <3> QED
      BY <1>0, <2>1, <2>2, <3>1
  <2> QED
    BY <1>0, <2>1, <2>2, <2>3, Zenon DEF IInv, TypeOK
<1>7. CASE UNCHANGED vars
  BY <1>0, <1>7, Zenon DEF vars, IInv, TypeOK
<1> QED
  BY <1>1, <1>2, <1>4, <1>5, <1>6, <1>7 DEF Next

-----------------------------------------------------------------------------
(* The slot, the pipelines, the engines and the queries keep their types.  *)
THEOREM TypeCorrect == Spec => []TypeOK
<1>1. IInv => TypeOK
  BY Zenon DEF IInv
<1> QED
  BY <1>1, InitIInv, NextIInv, PTL DEF Spec

(* A query whose name is blocked with filtering on for as long as it lives *)
(* is sent to no upstream and to no zone that is subject to filtering, in  *)
(* every interleaving with refreshes, toggles and reloads.                 *)
THEOREM BlockedStays == Spec => []BlockedIsNeverForwarded
<1>1. IInv => BlockedIsNeverForwarded
  BY Zenon DEF IInv, Sound, Free, BlockedIsNeverForwarded, Asked, Entries
<1> QED
  BY <1>1, InitIInv, NextIInv, PTL DEF Spec

(* The filter stage gives the sinkhole answer only to names that were      *)
(* blocked, and only when filtering was on, while the query was running.   *)
THEOREM SinkholeJustified == Spec => []SinkholedOnlyIfBlocked
<1>1. IInv => SinkholedOnlyIfBlocked
  BY Zenon DEF IInv, Sound, SinkholedOnlyIfBlocked
<1> QED
  BY <1>1, InitIInv, NextIInv, PTL DEF Spec

(* A name that is only in zones that may not fall back is never sent to    *)
(* the upstreams: neither zone stage lets such a query pass when its       *)
(* servers fail.                                                           *)
THEOREM NamesStayInside == Spec => []InternalNamesStayInside
<1>1. IInv => InternalNamesStayInside
  <2> SUFFICES ASSUME IInv, NEW c \in Clients, Default \in Asked(c), req[c].name # NoName
               PROVE  LET in == {e \in {Entries(c)[i] : i \in DOMAIN Entries(c)} :
                                   \E k \in 0..Len(req[c].name) :
                                     e.zone = SubSeq(req[c].name, k + 1, Len(req[c].name))}
                      IN  in = {} \/ \E e \in in : e.fallback
    BY Zenon DEF InternalNamesStayInside
  <2> DEFINE name == req[c].name
             p == pipe[req[c].gen]
             inside(z) == \E k \in 0..Len(name) : z = SubSeq(name, k + 1, Len(name))
  <2>1. name \in Seq(STRING) /\ p \in Pipelines /\ p.entries \in Seq(ZoneEntry)
    <3>1. req[c] \in Requests /\ req[c].gen \in Gens
      BY Zenon DEF IInv, TypeOK, Requests
    <3>2. name \in Names /\ p \in Pipelines
      BY <3>1, Zenon DEF IInv, TypeOK, Requests
    <3> QED
      BY <3>2, NamesAssumption, PipelinesAssumption, Zenon
  <2>2. ASSUME NEW i \in DOMAIN p.entries PROVE p.entries[i] \in ZoneEntry
    BY <2>1, <2>2
  <2>3. Passed(req[c], p, TRUE) /\ Passed(req[c], p, FALSE)
    BY Zenon DEF IInv, Sound, Asked
  <2>4. ASSUME NEW i \in DOMAIN p.entries
        PROVE  inside(p.entries[i].zone) <=> domain_matches_zone(name, p.entries[i].zone)
    <3> DEFINE z == p.entries[i].zone
    <3>1. z \in Seq(STRING)
      BY <2>2, <2>4, NamesAssumption, Zenon DEF ZoneEntry
    <3> HIDE DEF z
    <3>2. Len(name) \in Nat /\ Len(z) \in Nat
      BY <2>1, <3>1
    <3>3. ASSUME NEW k \in 0..Len(name), z = SubSeq(name, k + 1, Len(name))
          PROVE  domain_matches_zone(name, z)
      <4>1. Len(z) = Len(name) - k
        BY <2>1, <3>2, <3>3
      <4>2. Len(name) - Len(z) + 1 = k + 1 /\ Len(z) <= Len(name)
        BY <3>2, <4>1
      <4> QED
        BY <3>3, <4>2, Zenon DEF domain_matches_zone
    <3>4. ASSUME domain_matches_zone(name, z) PROVE inside(z)
      <4>1. Len(name) - Len(z) \in 0..Len(name)
        BY <3>2, <3>4 DEF domain_matches_zone
      <4> QED
        BY <3>4, <4>1, Zenon DEF domain_matches_zone
    <3> QED
      BY <3>3, <3>4, Zenon DEF z
  <2>5. ASSUME NEW i \in DOMAIN p.entries, inside(p.entries[i].zone)
        PROVE  \E j \in DOMAIN p.entries : inside(p.entries[j].zone) /\ p.entries[j].fallback
    <3> DEFINE bypass == p.entries[i].bypass
               j == matching_entry(p, name, bypass)
    <3>1. bypass \in BOOLEAN
      BY <2>2, <2>5, Zenon DEF ZoneEntry
    <3>2. i \in Hits(p, name, bypass)
      BY <2>4, <2>5, Zenon DEF Hits
    <3>3. j \in Hits(p, name, bypass)
      BY <2>1, <3>2, EntryFound, Zenon
    <3>4. p.entries[j].fallback
      BY <2>3, <3>1, <3>2, Zenon DEF Passed, Found
    <3>5. j \in DOMAIN p.entries /\ domain_matches_zone(name, p.entries[j].zone)
      BY <3>3, Zenon DEF Hits
    <3> HIDE DEF j, inside
    <3> QED
      BY <2>4, <3>4, <3>5, Zenon
  <2> QED
    BY <2>5, Zenon DEF Entries
<1> QED
  BY <1>1, InitIInv, NextIInv, PTL DEF Spec

-----------------------------------------------------------------------------
(* Whom a query has asked: the best entries of the zone stages and the     *)
(* upstreams.  Beyond the filter stage a query with a name is counted, and *)
(* what it asked before the filter stage was a bypass zone.                *)

Chosen(i, name, p) ==
  /\ name # NoName
  /\ \E bypass \in BOOLEAN : Hits(p, name, bypass) # {} /\ i = matching_entry(p, name, bypass)

Odd(r, p) == \E i \in r.asked : i = Default \/ ~p.entries[i].bypass

Traced(r, p) ==
  /\ r.name # NoName /\ (r.pc \in Late \/ Odd(r, p)) => r.counted
  /\ r.pc = "bypass_wait" => r.asked # {}
  /\ r.name # NoName /\ r.pc = "respond" /\ r.asked = {} => r.counted
  /\ \A i \in r.asked : i = Default \/ Chosen(i, r.name, p)

AllTraced == \A c \in Clients : Traced(req[c], pipe[req[c].gen])

LEMMA HitIsAnEntry ==
  ASSUME NEW p \in Pipelines, NEW name, NEW bypass, NEW i \in Hits(p, name, bypass)
  PROVE  i # Default /\ p.entries[i].bypass = bypass
<1>1. i \in DOMAIN p.entries /\ p.entries[i].bypass = bypass
  BY Zenon DEF Hits
<1>2. p.entries \in Seq(ZoneEntry)
  BY PipelinesAssumption
<1>3. i \in 1..Len(p.entries) /\ Len(p.entries) \in Nat
  BY <1>1, <1>2
<1>4. i # Default
  BY <1>3 DEF Default
<1> QED  BY <1>1, <1>4

(* The query that moves; r and q are its records before and after.         *)
LEMMA StagesTraced ==
  ASSUME IInv, AllTraced, NEW c \in Clients, Stages(c)
  PROVE  /\ Traced(req'[c], pipe[req'[c].gen])
         /\ UNCHANGED pipe /\ \A d \in Clients : d # c => req'[d] = req[d]
<1> DEFINE r == req[c]
           p == pipe[r.gen]
           q == req'[c]
<1>0. /\ r \in Requests /\ p \in Pipelines /\ req \in [Clients -> Requests]
      /\ Sound(r, p, blocks[r.gen], enabled) /\ Traced(r, p)
  <2>1. r \in Requests /\ r.gen \in Gens
    BY Zenon DEF IInv, TypeOK, Requests
  <2> QED  BY <2>1, Zenon DEF IInv, TypeOK, AllTraced
<1>1. UNCHANGED pipe /\ \A d \in Clients : d # c => req'[d] = req[d]
  BY <1>0, Zenon DEF Stages, ForwardToZone, ZoneReplies, ZoneFails, LoadFlag, Decide, ApplyAnyPolicy,
              AskUpstream, UpstreamReturns, Respond, Goto, Send, Answer
<1>2. ASSUME q.gen = r.gen, q.name = r.name, q.asked = r.asked, q.counted = r.counted,
             q.pc \in Late => r.pc \in Late \/ r.name = NoName, q.pc # "bypass_wait",
             q.pc = "respond" => r.pc \in Late \cup {"bypass_wait"}
      PROVE  Traced(q, p)
  BY <1>0, <1>2, Zenon DEF Traced, Odd
<1>3. ASSUME q.gen = r.gen, q.name = r.name, q.asked = r.asked, q.counted = TRUE, q.pc # "bypass_wait"
      PROVE  Traced(q, p)
  BY <1>0, <1>3, Zenon DEF Traced
<1>4. ASSUME NEW pc, Goto(c, pc)
      PROVE  q.gen = r.gen /\ q.name = r.name /\ q.asked = r.asked /\ q.counted = r.counted /\ q.pc = pc
  BY <1>0, <1>4, Zenon DEF Goto, Requests
<1>5. ASSUME NEW a, Answer(c, a)
      PROVE  /\ q.gen = r.gen /\ q.name = r.name /\ q.asked = r.asked /\ q.counted = r.counted
             /\ q.pc = "respond"
  BY <1>0, <1>5, Zenon DEF Answer, Requests
<1>6. ASSUME NEW pc, NEW i, Send(c, pc, i)
      PROVE  /\ q.gen = r.gen /\ q.name = r.name /\ q.asked = r.asked \cup {i}
             /\ q.counted = r.counted /\ q.pc = pc
  BY <1>0, <1>6, Zenon DEF Send, Requests
<1>7. CASE ForwardToZone(c, "bypass", TRUE, "bypass_wait", "filter")
  <2>1. CASE NoHit(c, TRUE)
    <3>1. r.pc = "bypass" /\ Goto(c, "filter")
      BY <1>7, <2>1 DEF ForwardToZone
    <3>2. q.gen = r.gen /\ q.name = r.name /\ q.asked = r.asked /\ q.counted = r.counted /\ q.pc = "filter"
      BY <1>4, <3>1, Zenon
    <3> HIDE DEF p, q, r
    <3>3. Traced(q, p)
      BY <1>2, <3>2 DEF Late
    <3> QED  BY <1>1, <3>2, <3>3, Zenon DEF p, q
  <2>2. CASE ~NoHit(c, TRUE)
    <3> DEFINE i == Entry(c, TRUE)
    <3>1. i \in Hits(p, r.name, TRUE)
      BY <1>0, <2>2, EntryFound, Zenon DEF NoHit, Entry
    <3>2. i # Default /\ p.entries[i].bypass = TRUE
      <4> HIDE DEF i, p, r
      <4> QED  BY <1>0, <3>1, HitIsAnEntry, Zenon
    <3>3. Send(c, "bypass_wait", i)
      BY <1>7, <2>2, Zenon DEF ForwardToZone
    <3> HIDE DEF i
    <3>4. Chosen(i, r.name, p)
      BY <2>2, Zenon DEF NoHit, Entry, Chosen, i
    <3>5. Traced(q, p)
      <4>1. /\ q.name = r.name /\ q.asked = r.asked \cup {i}
            /\ q.counted = r.counted /\ q.pc = "bypass_wait"
        BY <1>6, <3>3, Zenon
      <4>2. Traced(r, p)
        BY <1>0, Zenon
      <4> HIDE DEF p, q, r
      <4>3. Odd(q, p) => Odd(r, p)
        BY <3>2, <4>1, Zenon DEF Odd
      <4> QED  BY <3>4, <4>1, <4>2, <4>3, Zenon DEF Traced, Late
    <3> QED  BY <1>1, <1>6, <3>3, <3>5, Zenon
  <2> QED  BY <2>1, <2>2, Zenon
<1>8. CASE \/ ForwardToZone(c, "zone", FALSE, "zone_wait", "upstream")
           \/ AskUpstream(c)
  <2>1. r.pc \in Late /\ (r.name # NoName => r.counted)
    BY <1>0, <1>8, Zenon DEF ForwardToZone, AskUpstream, Traced, Late
  <2>2. \/ Goto(c, "upstream")
        \/ Send(c, "zone_wait", Entry(c, FALSE)) /\ Chosen(Entry(c, FALSE), r.name, p)
        \/ Send(c, "upstream_wait", Default)
    BY <1>8, Zenon DEF ForwardToZone, AskUpstream, NoHit, Entry, Chosen
  <2>3. CASE Goto(c, "upstream")
    BY <1>1, <1>2, <1>4, <2>1, <2>3
  <2>4. ASSUME NEW pc \in {"zone_wait", "upstream_wait"}, NEW i, Send(c, pc, i),
               i = Default \/ Chosen(i, r.name, p)
        PROVE  Traced(q, p) /\ q.gen = r.gen
    <3>1. /\ q.gen = r.gen /\ q.name = r.name /\ q.asked = r.asked \cup {i}
          /\ q.counted = r.counted /\ q.pc = pc
      BY <1>6, <2>4, Zenon
    <3>2. Traced(r, p)
      BY <1>0, Zenon
    <3> HIDE DEF p, q, r
    <3> QED  BY <2>1, <2>4, <3>1, <3>2, Zenon DEF Traced
  <2> QED  BY <1>1, <2>2, <2>3, <2>4, Zenon
<1>9. CASE ZoneReplies(c, "bypass_wait") \/ ZoneReplies(c, "zone_wait") \/ UpstreamReturns(c)
  <2>1. r.pc \in Late \cup {"bypass_wait"}
    BY <1>9, Zenon DEF ZoneReplies, UpstreamReturns, Late
  <2>2. PICK a : Answer(c, a)
    BY <1>9, Zenon DEF ZoneReplies, UpstreamReturns
  <2> QED  BY <1>1, <1>2, <1>5, <2>1, <2>2, Zenon DEF Late
<1>10. CASE ZoneFails(c, "bypass_wait", TRUE, "filter")
  <2>1. r.pc = "bypass_wait" /\ (Goto(c, "filter") \/ Answer(c, "servfail"))
    BY <1>10, Zenon DEF ZoneFails
  <2>2. Goto(c, "filter") => Traced(q, p) /\ q.gen = r.gen
    BY <1>2, <1>4, <2>1 DEF Late
  <2>3. Answer(c, "servfail") => Traced(q, p) /\ q.gen = r.gen
    BY <1>2, <1>5, <2>1, Zenon DEF Late
  <2> QED  BY <1>1, <2>1, <2>2, <2>3, Zenon
<1>11. CASE ZoneFails(c, "zone_wait", FALSE, "upstream")
  <2>1. r.pc = "zone_wait" /\ (Goto(c, "upstream") \/ Answer(c, "servfail"))
    BY <1>11, Zenon DEF ZoneFails
  <2>2. Goto(c, "upstream") => Traced(q, p) /\ q.gen = r.gen
    BY <1>2, <1>4, <2>1 DEF Late
  <2>3. Answer(c, "servfail") => Traced(q, p) /\ q.gen = r.gen
    BY <1>2, <1>5, <2>1, Zenon DEF Late
  <2> QED  BY <1>1, <2>1, <2>2, <2>3, Zenon
<1>12. CASE ApplyAnyPolicy(c)
  BY <1>1, <1>2, <1>4, <1>5, <1>12 DEF ApplyAnyPolicy, Late
<1>13. CASE LoadFlag(c)
  <2>1. CASE ~enabled
    <3>1. q = [r EXCEPT !.pc = "any", !.counted = TRUE]
      BY <1>0, <1>13, <2>1, Zenon DEF LoadFlag
    <3>2. q.gen = r.gen /\ q.name = r.name /\ q.asked = r.asked /\ q.counted = TRUE /\ q.pc = "any"
      BY <1>0, <3>1, Zenon DEF Requests
    <3> QED  BY <1>1, <1>3, <3>2, Zenon
  <2>2. CASE enabled
    <3>1. q = [r EXCEPT !.pc = IF r.name = NoName THEN "any" ELSE "decide"]
      BY <1>0, <1>13, <2>2, Zenon DEF LoadFlag
    <3>2. /\ q.gen = r.gen /\ q.name = r.name /\ q.asked = r.asked /\ q.counted = r.counted
          /\ q.pc \in {"any", "decide"} /\ (q.pc = "any" => r.name = NoName)
      BY <1>0, <3>1, Zenon DEF Requests
    <3> QED  BY <1>1, <1>2, <3>2, Zenon DEF Late
  <2> QED  BY <2>1, <2>2, Zenon
<1>14. CASE Decide(c)
  <2>1. \/ q = [r EXCEPT !.pc = "respond", !.answer = "sinkhole", !.counted = TRUE]
        \/ q = [r EXCEPT !.pc = "any", !.counted = TRUE]
    BY <1>0, <1>14, Zenon DEF Decide
  <2>2. /\ q.gen = r.gen /\ q.name = r.name /\ q.asked = r.asked /\ q.counted = TRUE
        /\ q.pc \in {"respond", "any"}
    <3>1. r \in Requests
      BY <1>0, Zenon
    <3> HIDE DEF q, r
    <3>2. CASE q = [r EXCEPT !.pc = "respond", !.answer = "sinkhole", !.counted = TRUE]
      BY <3>1, <3>2, Zenon DEF Requests
    <3>3. CASE q = [r EXCEPT !.pc = "any", !.counted = TRUE]
      BY <3>1, <3>3, Zenon DEF Requests
    <3> QED  BY <2>1, <3>2, <3>3, Zenon
  <2> QED  BY <1>1, <1>3, <2>2, Zenon
<1>15. CASE Respond(c)
  <2>1. q = IdleRequest
    BY <1>0, <1>15, Zenon DEF Respond
  <2>2. Traced(q, pipe[q.gen])
    BY <2>1 DEF IdleRequest, Traced, Odd, Late
  <2> QED  BY <1>1, <2>2
<1> HIDE DEF r, p, q
<1> QED
  BY <1>7, <1>8, <1>9, <1>10, <1>11, <1>12, <1>13, <1>14, <1>15, Zenon DEF Stages

LEMMA InitTraced == Init => AllTraced
<1> SUFFICES ASSUME Init, NEW c \in Clients PROVE Traced(req[c], pipe[req[c].gen])
  BY Zenon DEF AllTraced
<1>1. req[c].asked = {} /\ req[c].pc = "idle"
  BY Zenon DEF Init, IdleRequest
<1> QED  BY <1>1 DEF Traced, Odd, Late

LEMMA NextTraced == IInv /\ AllTraced /\ [Next]_vars => AllTraced'
<1> SUFFICES ASSUME IInv, AllTraced, [Next]_vars, NEW d \in Clients
             PROVE  Traced(req'[d], pipe'[req'[d].gen])
  BY Zenon DEF AllTraced
<1>0. /\ req \in [Clients -> Requests] /\ req[d] \in Requests /\ pipe \in [Gens -> Pipelines]
      /\ slot \in Nat /\ req[d].gen \in Gens /\ req[d].gen <= slot /\ req[d].gen \in Nat
      /\ Traced(req[d], pipe[req[d].gen])
  <2>1. req \in [Clients -> Requests] /\ req[d] \in Requests /\ slot \in Gens
    BY Zenon DEF IInv, TypeOK
  <2>2. req[d].gen \in Gens
    BY <2>1, Zenon DEF Requests
  <2>3. \A g \in Gens : g \in Nat
    BY ReloadsAssumption DEF Gens
  <2> QED  BY <2>1, <2>2, <2>3, Zenon DEF IInv, TypeOK, AllTraced
<1>1. ASSUME NEW c \in Clients, NEW name, NEW any, handle_request(c, name, any)
      PROVE  Traced(req'[d], pipe'[req'[d].gen])
  <2>1. CASE c # d
    BY <1>0, <1>1, <2>1, Zenon DEF handle_request
  <2>2. CASE c = d
    <3>1. req'[d].asked = {} /\ req'[d].pc = "bypass"
      BY <1>0, <1>1, <2>2, Zenon DEF handle_request, IdleRequest
    <3> QED  BY <3>1 DEF Traced, Odd, Late
  <2> QED  BY <2>1, <2>2, Zenon
<1>2. ASSUME NEW c \in Clients, Stages(c) PROVE Traced(req'[d], pipe'[req'[d].gen])
  BY <1>0, <1>2, StagesTraced, Zenon
<1>3. ASSUME req'[d].pc = req[d].pc, req'[d].name = req[d].name, req'[d].gen = req[d].gen,
             req'[d].asked = req[d].asked, req'[d].counted = req[d].counted,
             pipe'[req[d].gen] = pipe[req[d].gen]
      PROVE  Traced(req'[d], pipe'[req'[d].gen])
  BY <1>0, <1>3, Zenon DEF Traced, Odd
<1>4. ASSUME NEW b, SetFiltering(b) PROVE Traced(req'[d], pipe'[req'[d].gen])
  <2> DEFINE new == req[d].saw \cup Sights(b, req[d].name, blocks[req[d].gen])
  <2>1. req'[d] = req[d] \/ req'[d] = [req[d] EXCEPT !.saw = new]
    BY <1>0, <1>4, Zenon DEF SetFiltering
  <2>2. UNCHANGED pipe
    BY <1>4, Zenon DEF SetFiltering
  <2> HIDE DEF new
  <2>3. /\ req'[d].pc = req[d].pc /\ req'[d].name = req[d].name /\ req'[d].gen = req[d].gen
        /\ req'[d].asked = req[d].asked /\ req'[d].counted = req[d].counted
    BY <1>0, <2>1, Zenon DEF Requests
  <2> QED  BY <1>3, <2>2, <2>3, Zenon
<1>5. ASSUME NEW g, NEW set, PublishSnapshot(g, set) PROVE Traced(req'[d], pipe'[req'[d].gen])
  <2> DEFINE new == req[d].saw \cup Sights(enabled, req[d].name, set)
  <2>1. req'[d] = req[d] \/ req'[d] = [req[d] EXCEPT !.saw = new]
    BY <1>0, <1>5, Zenon DEF PublishSnapshot
  <2>2. UNCHANGED pipe
    BY <1>5, Zenon DEF PublishSnapshot
  <2> HIDE DEF new
  <2>3. /\ req'[d].pc = req[d].pc /\ req'[d].name = req[d].name /\ req'[d].gen = req[d].gen
        /\ req'[d].asked = req[d].asked /\ req'[d].counted = req[d].counted
    BY <1>0, <2>1, Zenon DEF Requests
  <2> QED  BY <1>3, <2>2, <2>3, Zenon
<1>6. ASSUME NEW p, NEW set, SwapPipeline(p, set) PROVE Traced(req'[d], pipe'[req'[d].gen])
  <2>1. UNCHANGED req /\ pipe' = [pipe EXCEPT ![slot + 1] = p]
    BY <1>6 DEF SwapPipeline
  <2>2. req[d].gen # slot + 1
    BY <1>0
  <2>3. pipe'[req[d].gen] = pipe[req[d].gen]
    BY <1>0, <2>1, <2>2, Zenon
  <2> QED  BY <1>3, <2>1, <2>3, Zenon
<1>7. CASE UNCHANGED vars
  BY <1>0, <1>7, Zenon DEF vars
<1> QED
  BY <1>1, <1>2, <1>4, <1>5, <1>6, <1>7, Zenon DEF Next

(* Every query with a name that is answered, and that something other than *)
(* a bypass zone was asked about or nothing was, has been counted by the   *)
(* filter stage.                                                           *)
THEOREM QueriesAreCounted == Spec => []CountedUnlessBypassed
<1>1. IInv /\ AllTraced => CountedUnlessBypassed
  BY Zenon DEF AllTraced, Traced, Odd, CountedUnlessBypassed, Asked, Entries
<1> QED
  BY <1>1, InitIInv, NextIInv, InitTraced, NextTraced, PTL DEF Spec

(* The labels of the end of a name.                                        *)
LEMMA EndOfName ==
  ASSUME NEW name \in Seq(STRING), NEW k \in Nat, k <= Len(name), NEW i \in 1..k
  PROVE  SubSeq(name, Len(name) - k + 1, Len(name))[i] = name[Len(name) - k + i]
<1>1. Len(name) \in Nat
  OBVIOUS
<1>2. (Len(name) - k + 1) + i - 1 = Len(name) - k + i
  BY <1>1
<1>3. i \in 1..(Len(name) - (Len(name) - k + 1) + 1)
  BY <1>1
<1>4. /\ Len(name) - k + 1 \in 1..(Len(name) + 1)
      /\ Len(name) - k + 1 \in Int
  BY <1>1
<1> DEFINE m == Len(name) - k + 1
           n == Len(name)
<1>5. SubSeq(name, m, n)[i] = name[m + i - 1]
  <2>1. m \in Int /\ n \in Nat /\ i \in 1..(n - m + 1) /\ 1 <= m
    BY <1>1, <1>3, <1>4
  <2> HIDE DEF m, n
  <2> QED  BY <2>1
<1> QED  BY <1>2, <1>5, Zenon

(* Two zones that a name is in: the shorter is the end of the longer.      *)
LEMMA Nested ==
  ASSUME NEW name \in Seq(STRING), NEW y \in Seq(STRING), NEW z \in Seq(STRING),
         domain_matches_zone(name, y), domain_matches_zone(name, z), Len(y) <= Len(z)
  PROVE  domain_matches_zone(z, y)
<1> DEFINE n == Len(name)
           k == Len(y)
           l == Len(z)
           e == SubSeq(z, l - k + 1, l)
<1>1. n \in Nat /\ k \in Nat /\ l \in Nat /\ k <= l /\ l <= n
  BY DEF domain_matches_zone
<1>2. y = SubSeq(name, n - k + 1, n) /\ z = SubSeq(name, n - l + 1, n)
  BY Zenon DEF domain_matches_zone
<1>3. \A i \in 1..k : y[i] = name[n - k + i]
  <2>1. \A i \in 1..k : SubSeq(name, n - k + 1, n)[i] = name[n - k + i]
    BY <1>1, EndOfName
  <2> HIDE DEF k
  <2> QED  BY <1>2, <2>1, Zenon
<1>4. \A i \in 1..l : z[i] = name[n - l + i]
  <2>1. \A i \in 1..l : SubSeq(name, n - l + 1, n)[i] = name[n - l + i]
    BY <1>1, EndOfName, Zenon
  <2> HIDE DEF l
  <2> QED  BY <1>2, <2>1, Zenon
<1>5. e \in Seq(STRING) /\ Len(e) = k /\ \A i \in 1..k : e[i] = z[l - k + i]
  BY <1>1
<1>6. ASSUME NEW i \in 1..k PROVE e[i] = y[i]
  <2>1. l - k + i \in 1..l /\ n - l + (l - k + i) = n - k + i
    BY <1>1
  <2> QED  BY <1>3, <1>4, <1>5, <2>1, Zenon
<1> HIDE DEF e
<1>7. e = y
  BY <1>5, <1>6
<1> QED  BY <1>1, <1>7, Zenon DEF domain_matches_zone, e

(* Of the zones a name is in, within a stage the most specific one is      *)
(* asked: sort_entries puts longer texts first, and a zone inside another  *)
(* has the longer text.                                                    *)
THEOREM LongestIsAsked == Spec => []LongestZoneWins
<1>1. IInv /\ AllTraced => LongestZoneWins
  <2> SUFFICES ASSUME IInv, AllTraced, NEW c \in Clients, NEW i \in Asked(c) \ {Default},
                      NEW j \in DOMAIN Entries(c),
                      Entries(c)[j].bypass = Entries(c)[i].bypass,
                      domain_matches_zone(req[c].name, Entries(c)[j].zone)
               PROVE  Len(Entries(c)[j].zone) <= Len(Entries(c)[i].zone)
    BY Zenon DEF LongestZoneWins
  <2> DEFINE name == req[c].name
             p == pipe[req[c].gen]
             y == p.entries[i].zone
             z == p.entries[j].zone
  <2>1. Chosen(i, name, p)
    BY Zenon DEF AllTraced, Traced, Asked
  <2>2. name \in Seq(STRING) /\ p \in Pipelines /\ p.entries \in Seq(ZoneEntry)
    <3>1. req[c] \in Requests /\ req[c].gen \in Gens
      BY Zenon DEF IInv, TypeOK, Requests
    <3>2. name \in Names /\ p \in Pipelines
      BY <2>1, <3>1, Zenon DEF IInv, TypeOK, Requests, Chosen
    <3> QED  BY <3>2, NamesAssumption, PipelinesAssumption, Zenon
  <2>3. PICK bypass \in BOOLEAN : Hits(p, name, bypass) # {} /\ i = matching_entry(p, name, bypass)
    BY <2>1, Zenon DEF Chosen
  <2>4. /\ i \in Hits(p, name, bypass)
        /\ \A k \in Hits(p, name, bypass) :
             Width[y] > Width[p.entries[k].zone] \/ Width[y] = Width[p.entries[k].zone]
    <3> HIDE DEF p, name
    <3>1. /\ matching_entry(p, name, bypass) \in Hits(p, name, bypass)
          /\ \A k \in Hits(p, name, bypass) :
               LET m == matching_entry(p, name, bypass)
               IN  \/ Width[p.entries[m].zone] > Width[p.entries[k].zone]
                   \/ Width[p.entries[m].zone] = Width[p.entries[k].zone] /\ m <= k
      BY <2>2, <2>3, LongestEntryFound, Zenon
    <3> QED  BY <2>3, <3>1, Zenon
  <2>5. /\ i \in DOMAIN p.entries /\ p.entries[i].bypass = bypass
        /\ domain_matches_zone(name, y)
    BY <2>4, Zenon DEF Hits
  <2>6. j \in Hits(p, name, bypass)
    BY <2>5, Zenon DEF Hits, Entries
  <2>7. y \in Zones /\ z \in Zones
    <3>1. j \in DOMAIN p.entries
      BY Zenon DEF Entries
    <3>2. p.entries[i] \in ZoneEntry /\ p.entries[j] \in ZoneEntry
      <4> HIDE DEF p
      <4> QED  BY <2>2, <2>5, <3>1
    <3> QED  BY <3>2, Zenon DEF ZoneEntry
  <2>8. ~(Width[y] < Width[z])
    <3>1. Width[y] \in 1..255 /\ Width[z] \in 1..255
      BY <2>7, WidthAssumption, Zenon
    <3>2. Width[y] > Width[z] \/ Width[y] = Width[z]
      BY <2>4, <2>6, Zenon
    <3>3. \A a, b \in 1..255 : a > b \/ a = b => ~(a < b)
      OBVIOUS
    <3> QED  BY <3>1, <3>2, <3>3, Zenon
  <2>9. domain_matches_zone(name, z)
    BY Zenon DEF Entries
  <2>10. y \in Seq(STRING) /\ z \in Seq(STRING)
    BY <2>7, NamesAssumption, Zenon
  <2> HIDE DEF name, p, y, z
  <2>11. Len(z) <= Len(y)
    <3>1. SUFFICES ASSUME ~(Len(z) <= Len(y)) PROVE FALSE
      BY Zenon
    <3>2. Len(y) <= Len(z) /\ y # z
      BY <2>10, <3>1
    <3>3. domain_matches_zone(z, y)
      BY <2>2, <2>5, <2>9, <2>10, <3>2, Nested, Zenon
    <3>4. Width[y] < Width[z]
      BY <2>7, <3>2, <3>3, TextAssumption, Zenon
    <3> QED  BY <2>8, <3>4
  <2> QED  BY <2>11, Zenon DEF Entries, y, z, p
<1> QED
  BY <1>1, InitIInv, NextIInv, InitTraced, NextTraced, PTL DEF Spec

-----------------------------------------------------------------------------
(* The zones that the daemon answers itself (ZoneAuthority), which the     *)
(* zone stages of the pipeline ask.  A document, an index and the words in *)
(* them are arbitrary; Lower gives texts.                                  *)
CONSTANTS Lower, Bad

Authority == INSTANCE ZoneAuthority

Texts == [labels: Seq(STRING), dot: BOOLEAN]

DocEntries == [name: Texts, type: STRING, fits: BOOLEAN, target: Texts]

Documents == [zone: Texts, records: Seq(DocEntries)]

\* The name that an entry of a document is for.
OwnerOf(zone, e) ==
  IF e.name = Authority!At THEN zone
  ELSE Authority!normalize_name(e.name) \o (IF e.name.dot THEN <<>> ELSE zone)

LEMMA OwnerIsResolved ==
  ASSUME NEW zone, NEW t \in Texts, Lower \in [DOMAIN Lower -> STRING],
         Authority!resolve_record_name(zone, t) # Bad
  PROVE  Authority!resolve_record_name(zone, t)
           = IF t = Authority!At THEN zone
             ELSE Authority!normalize_name(t) \o (IF t.dot THEN <<>> ELSE zone)
<1>1. CASE t.labels = <<>>
  BY <1>1, Zenon DEF Authority!resolve_record_name
<1>2. CASE t.labels # <<>>
  <2>1. t.labels \in Seq(STRING)
    BY DEF Texts
  <2>2. \A i \in DOMAIN t.labels : Authority!to_lowercase(t.labels[i]) \in STRING
    BY <2>1 DEF Authority!to_lowercase
  <2>3. Authority!normalize_name(t) = [i \in DOMAIN t.labels |-> Authority!to_lowercase(t.labels[i])]
    BY <1>2 DEF Authority!normalize_name
  <2>4. Authority!normalize_name(t) \in Seq(STRING)
    BY <2>1, <2>2, <2>3
  <2>5. Authority!normalize_name(t) \o <<>> = Authority!normalize_name(t)
    BY <2>4
  <2> QED  BY <1>2, <2>5, Zenon DEF Authority!resolve_record_name
<1> QED  BY <1>1, <1>2, Zenon

(* load_snapshot: a document that loads gives each of its entries a record *)
(* of the same type under the entry's name.                                *)
LEMMA EntryIsRead ==
  ASSUME NEW expected, NEW doc \in Documents, Lower \in [DOMAIN Lower -> STRING],
         Authority!load_snapshot(expected, doc) # Bad,
         NEW i \in DOMAIN doc.records
  PROVE  LET zone == Authority!normalize_name(doc.zone)
             r == Authority!Records(zone, doc)[i]
         IN /\ r.name = OwnerOf(zone, doc.records[i])
            /\ r.type = doc.records[i].type
            /\ r.type \in Authority!RecordTypes
<1> DEFINE zone == Authority!normalize_name(doc.zone)
           e == doc.records[i]
           owner == Authority!resolve_record_name(zone, e.name)
           r == Authority!Records(zone, doc)[i]
<1>1. r # Bad /\ owner # Bad
  BY Zenon DEF Authority!load_snapshot
<1>2. r = Authority!parse_record(e, owner)
  BY Zenon DEF Authority!Records
<1>3. e.name \in Texts
  <2>1. doc.records \in Seq(DocEntries)
    BY DEF Documents
  <2>2. e \in DocEntries
    BY <2>1
  <2> QED  BY <2>2, Zenon DEF DocEntries
<1>4. owner = OwnerOf(zone, e)
  BY <1>1, <1>3, OwnerIsResolved, Zenon DEF OwnerOf
<1> HIDE DEF owner, e, zone
<1>5. /\ e.type \in Authority!RecordTypes
      /\ r.name = owner /\ r.type = e.type
  BY <1>1, <1>2 DEF Authority!parse_record
<1> QED  BY <1>4, <1>5, Zenon DEF zone, e

(* The elements of a sequence that got one more.                           *)
LEMMA AppendedSet ==
  ASSUME NEW V, NEW q \in Seq(V), NEW x
  PROVE  /\ Append(q, x) \in Seq(V \cup {x})
         /\ {Append(q, x)[i] : i \in DOMAIN Append(q, x)} = {q[i] : i \in DOMAIN q} \cup {x}
<1>1. /\ q \in Seq(V \cup {x}) /\ DOMAIN q = 1 .. Len(q) /\ Len(q) \in Nat
  OBVIOUS
<1>2. /\ Append(q, x) \in Seq(V \cup {x})
      /\ DOMAIN Append(q, x) = 1 .. Len(q) + 1
      /\ \A i \in 1 .. Len(q) : Append(q, x)[i] = q[i]
      /\ Append(q, x)[Len(q) + 1] = x
  BY <1>1
<1>3. ASSUME NEW i \in DOMAIN Append(q, x) PROVE Append(q, x)[i] \in {q[j] : j \in DOMAIN q} \cup {x}
  <2>1. i \in 1 .. Len(q) \/ i = Len(q) + 1
    BY <1>1, <1>2
  <2> QED  BY <1>1, <1>2, <2>1
<1>4. ASSUME NEW i \in DOMAIN q PROVE i \in DOMAIN Append(q, x) /\ q[i] = Append(q, x)[i]
  BY <1>1, <1>2
<1>5. Len(q) + 1 \in DOMAIN Append(q, x)
  BY <1>1, <1>2
<1> QED  BY <1>2, <1>3, <1>4, <1>5, Zenon

(* The snapshot holds what the document has, and at the apex a name server *)
(* and a SOA in any case.                                                  *)
Holds(s, zone, doc) ==
  LET read == Authority!Records(zone, doc)
      ns == [name |-> zone, type |-> "NS", target |-> <<"ns1">> \o zone]
      soa == [name |-> zone, type |-> "SOA", target |-> <<>>]
  IN /\ s.zone = zone /\ s.soa.name = zone /\ s.soa.type = "SOA"
     /\ \E extra \in SUBSET {ns, soa} :
          /\ {s.records[i] : i \in DOMAIN s.records} = {read[i] : i \in DOMAIN doc.records} \cup extra
          /\ ns \in extra \/ \E i \in DOMAIN doc.records : read[i].name = zone /\ read[i].type = "NS"
          /\ soa \in extra \/ \E i \in DOMAIN doc.records : read[i].name = zone /\ read[i].type = "SOA"

(* load_snapshot completes a document with what it lacks at the apex.      *)
LEMMA SnapshotRecords ==
  ASSUME NEW expected, NEW doc \in Documents, Lower \in [DOMAIN Lower -> STRING],
         Authority!load_snapshot(expected, doc) # Bad
  PROVE  Holds(Authority!load_snapshot(expected, doc), Authority!normalize_name(doc.zone), doc)
<1> DEFINE s == Authority!load_snapshot(expected, doc)
           zone == Authority!normalize_name(doc.zone)
           read == Authority!Records(zone, doc)
           ns == [name |-> zone, type |-> "NS", target |-> <<"ns1">> \o zone]
           soa == [name |-> zone, type |-> "SOA", target |-> <<>>]
           rs == Authority!ensure_default_apex_ns(read, zone)
           soas == Authority!AtApex(read, zone, "SOA")
           nss == Authority!AtApex(read, zone, "NS")
           least == CHOOSE i \in soas : \A j \in soas : i <= j
           first == IF soas # {} THEN read[least] ELSE soa
           All(q) == {q[i] : i \in DOMAIN q}
<1>1. s = [zone |-> zone, soa |-> first, records |-> IF soas # {} THEN rs ELSE Append(rs, first)]
  BY Zenon DEF Authority!load_snapshot, Authority!build_default_soa_record
<1>2. s.zone = zone /\ s.soa = first /\ s.records = IF soas # {} THEN rs ELSE Append(rs, first)
  <2> HIDE DEF s, zone, first, soas, rs
  <2> QED  BY <1>1, Zenon
<1>3. doc.records \in Seq(DocEntries)
  BY DEF Documents
<1>4. read \in Seq(All(read)) /\ DOMAIN read = DOMAIN doc.records
  BY <1>3 DEF Authority!Records
<1>5. /\ rs = IF nss # {} THEN read ELSE Append(read, ns)
      /\ nss = {i \in DOMAIN read : read[i].name = zone /\ read[i].type = "NS"}
      /\ soas = {i \in DOMAIN read : read[i].name = zone /\ read[i].type = "SOA"}
  BY Zenon DEF Authority!ensure_default_apex_ns, Authority!AtApex
<1>6. soas # {} => least \in soas
  <2>1. soas \in SUBSET Nat
    <3> HIDE DEF read
    <3> QED  BY <1>4, <1>5
  <2> HIDE DEF soas
  <2>2. soas # {} => \E x \in soas : \A y \in soas : x <= y
    BY <2>1, LeastNatural
  <2> QED  BY <2>2
<1>7. first.name = zone /\ first.type = "SOA" /\ (soas = {} => first = soa)
  <2>1. CASE soas = {}
    BY <2>1, Zenon
  <2>2. CASE soas # {}
    <3> HIDE DEF soas, read, zone, least
    <3> QED  BY <1>5, <1>6, <2>2, Zenon
  <2> QED  BY <2>1, <2>2, Zenon
<1>8. /\ rs \in Seq(All(read) \cup {ns})
      /\ All(rs) = All(read) \cup IF nss # {} THEN {} ELSE {ns}
  <2> HIDE DEF read, ns, nss
  <2>1. CASE nss # {}
    BY <1>4, <1>5, <2>1
  <2>2. CASE nss = {}
    <3>1. rs = Append(read, ns)
      BY <1>5, <2>2, Zenon
    <3> HIDE DEF rs
    <3>2. rs \in Seq(All(read) \cup {ns}) /\ All(rs) = All(read) \cup {ns}
      BY <1>4, <3>1, AppendedSet
    <3> QED  BY <2>2, <3>2
  <2> QED  BY <2>1, <2>2, Zenon
<1>9. All(s.records) = All(read) \cup (IF nss # {} THEN {} ELSE {ns}) \cup (IF soas # {} THEN {} ELSE {soa})
  <2>1. CASE soas # {}
    <3> HIDE DEF read, ns, nss, soas, soa, s, rs
    <3> QED  BY <1>2, <1>8, <2>1, Zenon
  <2>2. CASE soas = {}
    <3>1. s.records = Append(rs, soa)
      <4> HIDE DEF s, rs, soa, soas, first
      <4> QED  BY <1>2, <1>7, <2>2, Zenon
    <3> HIDE DEF read, ns, nss, soas, soa, s, rs, first
    <3>2. All(s.records) = All(rs) \cup {soa}
      BY <1>8, <3>1, AppendedSet
    <3> QED  BY <1>8, <2>2, <3>2, Zenon
  <2> QED  BY <2>1, <2>2, Zenon
<1> DEFINE extra == (IF nss # {} THEN {} ELSE {ns}) \cup (IF soas # {} THEN {} ELSE {soa})
<1>10. extra \in SUBSET {ns, soa} /\ All(s.records) = All(read) \cup extra
  <2> HIDE DEF read, ns, nss, soas, soa, s
  <2> QED  BY <1>9
<1>11. /\ ns \in extra \/ \E i \in DOMAIN doc.records : read[i].name = zone /\ read[i].type = "NS"
       /\ soa \in extra \/ \E i \in DOMAIN doc.records : read[i].name = zone /\ read[i].type = "SOA"
  <2> HIDE DEF read, ns, nss, soas, soa, zone
  <2> QED  BY <1>4, <1>5, Zenon
<1>12. All(read) = {read[i] : i \in DOMAIN doc.records}
  <2> HIDE DEF read
  <2> QED  BY <1>4
<1>13. s.soa.name = zone /\ s.soa.type = "SOA"
  <2> HIDE DEF s, zone, first
  <2> QED  BY <1>2, <1>7, Zenon
<1> HIDE DEF extra
<1> QED  BY <1>2, <1>10, <1>11, <1>12, <1>13, Zenon DEF Holds

(* The types that a document has for a name.                               *)
TypesFor(zone, doc, name) ==
  LET written == {doc.records[i] : i \in {i \in DOMAIN doc.records : OwnerOf(zone, doc.records[i]) = name}}
  IN {e.type : e \in written} \cup IF name = zone THEN {"NS", "SOA"} ELSE {}

(* What a snapshot has for a name is what the document has for it.         *)
LEMMA TypesOfName ==
  ASSUME NEW expected, NEW doc \in Documents, Lower \in [DOMAIN Lower -> STRING],
         Authority!load_snapshot(expected, doc) # Bad, NEW name
  PROVE  LET s == Authority!load_snapshot(expected, doc)
             rs == Authority!records_by_name(s, name)
         IN /\ {r.type : r \in rs} = TypesFor(s.zone, doc, name)
            /\ \A r \in rs : r.name = name /\ r.type \in Authority!RecordTypes
<1> DEFINE s == Authority!load_snapshot(expected, doc)
           rs == Authority!records_by_name(s, name)
           zone == Authority!normalize_name(doc.zone)
           read == Authority!Records(zone, doc)
           at == {i \in DOMAIN doc.records : OwnerOf(zone, doc.records[i]) = name}
           written == {doc.records[i] : i \in at}
           ns == [name |-> zone, type |-> "NS", target |-> <<"ns1">> \o zone]
           soa == [name |-> zone, type |-> "SOA", target |-> <<>>]
           all == {s.records[i] : i \in DOMAIN s.records}
<1>1. rs = {r \in all : r.name = name}
  BY Zenon DEF Authority!records_by_name
<1>2. /\ s.zone = zone
      /\ \E extra \in SUBSET {ns, soa} :
           /\ all = {read[i] : i \in DOMAIN doc.records} \cup extra
           /\ ns \in extra \/ \E i \in DOMAIN doc.records : read[i].name = zone /\ read[i].type = "NS"
           /\ soa \in extra \/ \E i \in DOMAIN doc.records : read[i].name = zone /\ read[i].type = "SOA"
  <2>1. Holds(s, zone, doc)
    BY SnapshotRecords, Zenon
  <2> HIDE DEF s, zone
  <2> QED  BY <2>1, Zenon DEF Holds
<1>3. \A i \in DOMAIN doc.records :
        /\ read[i].name = OwnerOf(zone, doc.records[i]) /\ read[i].type = doc.records[i].type
        /\ read[i].type \in Authority!RecordTypes
  BY EntryIsRead, Zenon
<1>4. /\ ns.name = zone /\ ns.type = "NS" /\ soa.name = zone /\ soa.type = "SOA"
      /\ ns.type \in Authority!RecordTypes /\ soa.type \in Authority!RecordTypes
  BY DEF Authority!RecordTypes
<1>5. PICK extra \in SUBSET {ns, soa} :
           /\ all = {read[i] : i \in DOMAIN doc.records} \cup extra
           /\ ns \in extra \/ \E i \in DOMAIN doc.records : read[i].name = zone /\ read[i].type = "NS"
           /\ soa \in extra \/ \E i \in DOMAIN doc.records : read[i].name = zone /\ read[i].type = "SOA"
  BY <1>2, Zenon
<1> HIDE DEF ns, soa, read, zone, all, s, rs
<1>6. \A r \in all : r.type \in Authority!RecordTypes
  BY <1>3, <1>4, <1>5, Zenon
<1>7. ASSUME NEW r \in rs PROVE r.type \in {e.type : e \in written} \cup IF name = zone THEN {"NS", "SOA"} ELSE {}
  <2>1. r \in all /\ r.name = name
    BY <1>1
  <2>2. CASE \E i \in DOMAIN doc.records : r = read[i]
    <3>1. PICK i \in DOMAIN doc.records : r = read[i]
      BY <2>2
    <3>2. i \in at /\ r.type = doc.records[i].type
      BY <1>3, <2>1, <3>1, Zenon
    <3> QED  BY <3>2, Zenon
  <2>3. CASE r = ns \/ r = soa
    BY <1>4, <2>1, <2>3, Zenon
  <2> QED  BY <1>5, <2>1, <2>2, <2>3, Zenon
<1>8. ASSUME NEW i \in at PROVE doc.records[i].type \in {r.type : r \in rs}
  <2>1. read[i] \in all /\ read[i].name = name /\ read[i].type = doc.records[i].type
    BY <1>3, <1>5, Zenon
  <2> QED  BY <1>1, <2>1, Zenon
<1>9. ASSUME name = zone, NEW t \in {"NS", "SOA"} PROVE \E r \in rs : r.type = t
  <2>1. \E r \in all : r.name = zone /\ r.type = t
    <3>1. CASE t = "NS"
      BY <1>4, <1>5, <3>1, Zenon
    <3>2. CASE t = "SOA"
      BY <1>4, <1>5, <3>2, Zenon
    <3> QED  BY <3>1, <3>2
  <2> QED  BY <1>1, <1>9, <2>1
<1>10. {r.type : r \in rs} = {e.type : e \in written} \cup IF name = zone THEN {"NS", "SOA"} ELSE {}
  <2>1. ASSUME NEW t \in {e.type : e \in written} \cup IF name = zone THEN {"NS", "SOA"} ELSE {}
        PROVE  t \in {r.type : r \in rs}
    <3>1. CASE t \in {e.type : e \in written}
      BY <1>8, <3>1, Zenon
    <3>2. CASE name = zone /\ t \in {"NS", "SOA"}
      BY <1>9, <3>2, Zenon
    <3> QED  BY <2>1, <3>1, <3>2, Zenon
  <2> HIDE DEF written
  <2> QED  BY <1>7, <2>1, Zenon
<1>11. \A r \in rs : r.name = name /\ r.type \in Authority!RecordTypes
  BY <1>1, <1>6
<1>12. s.zone = zone
  BY <1>2, Zenon
<1>13. TypesFor(s.zone, doc, name) = {e.type : e \in written} \cup IF name = zone THEN {"NS", "SOA"} ELSE {}
  BY <1>12 DEF TypesFor
<1> HIDE DEF written
<1> QED  BY <1>10, <1>11, <1>13, Zenon DEF s, rs

(* What resolve answers, told by the types that the name has.              *)
AnswersTypes(s, name, type, types) ==
  LET r == Authority!resolve(s, name, type)
      given == {a.type : a \in r.answers}
  IN /\ (r.rcode = "NXDomain") = (types = {})
     /\ type \in types => given = {type}
     /\ type = "ANY" => given = types
     /\ type \notin types /\ "CNAME" \in types /\ type # "ANY" => given = {"CNAME"}
     /\ type \notin types \cup {"ANY"} /\ "CNAME" \notin types => given = {}
     /\ \A a \in r.answers : a.name = name
     /\ given = {} => \E soa \in r.authority : r.authority = {soa} /\ soa.type = "SOA" /\ soa.name = s.zone
     /\ r.additional # {} => "NS" \in given

LEMMA ResolveByTypes ==
  ASSUME NEW s, NEW name, NEW type, NEW types,
         s.soa.name = s.zone, s.soa.type = "SOA",
         Authority!domain_matches_zone(name, s.zone),
         types = {r.type : r \in Authority!records_by_name(s, name)},
         \A r \in Authority!records_by_name(s, name) : r.name = name /\ r.type \in Authority!RecordTypes
  PROVE  AnswersTypes(s, name, type, types)
<1> DEFINE rs == Authority!records_by_name(s, name)
           exact == IF type = "ANY" THEN rs ELSE {r \in rs : r.type = type}
           alias == {r \in rs : r.type = "CNAME"}
           answers == IF exact = {} /\ type # "CNAME" THEN alias ELSE exact
           glue == Authority!collect_ns_glue_records(answers, s)
           r == Authority!resolve(s, name, type)
           given == {a.type : a \in r.answers}
<1>1. r = IF rs = {} THEN Authority!Response("NXDomain", {}, {s.soa}, {})
          ELSE IF answers = {} THEN Authority!Response("NoError", {}, {s.soa}, {})
          ELSE Authority!Response("NoError", answers, {}, glue)
  BY Zenon DEF Authority!resolve, Authority!filter_answers
<1>2. /\ r.rcode = IF rs = {} THEN "NXDomain" ELSE "NoError"
      /\ r.answers = answers
      /\ r.authority = IF answers = {} THEN {s.soa} ELSE {}
      /\ r.additional = IF answers = {} THEN {} ELSE glue
  <2>1. rs = {} => answers = {}
    BY Zenon
  <2> HIDE DEF rs, answers, glue, r
  <2> QED  BY <1>1, <2>1, Zenon DEF Authority!Response
<1>3. glue # {} => \E a \in answers : a.type = "NS"
  BY Zenon DEF Authority!collect_ns_glue_records
<1> HIDE DEF glue, r
<1>4. "ANY" \notin types
  BY Zenon DEF Authority!RecordTypes
<1> HIDE DEF rs
<1>5. types = {x.type : x \in rs} /\ \A x \in rs : x.name = name
  BY DEF rs
<1>6. given = {a.type : a \in answers}
  BY <1>2, Zenon
<1>7. type \in types => given = {type}
  BY <1>4, <1>5, <1>6
<1>8. type = "ANY" => given = types
  BY <1>5, <1>6, Zenon
<1>9. type \notin types /\ "CNAME" \in types /\ type # "ANY" => given = {"CNAME"}
  BY <1>5, <1>6, Zenon
<1>10. type \notin types \cup {"ANY"} /\ "CNAME" \notin types => given = {}
  BY <1>5, <1>6, Zenon
<1>11. \A a \in r.answers : a.name = name
  BY <1>2, <1>5, Zenon
<1>12. given = {} => \E soa \in r.authority : r.authority = {soa} /\ soa.type = "SOA" /\ soa.name = s.zone
  <2>1. given = {} => answers = {}
    BY <1>6, Zenon
  <2> QED  BY <1>2, <2>1, Zenon
<1>13. r.additional # {} => "NS" \in given
  BY <1>2, <1>3, <1>6, Zenon
<1>14. (r.rcode = "NXDomain") = (types = {})
  <2>1. rs = {} <=> types = {}
    BY <1>5, Zenon
  <2>2. CASE rs = {}
    BY <1>2, <2>1, <2>2, Zenon
  <2>3. CASE rs # {}
    BY <1>2, <2>1, <2>3, Zenon
  <2> QED  BY <2>2, <2>3, Zenon
<1> HIDE DEF given
<1> QED  BY <1>7, <1>8, <1>9, <1>10, <1>11, <1>12, <1>13, <1>14, Zenon DEF AnswersTypes, given, r

(* A zone that the daemon answers itself is answered as the last document  *)
(* that load_snapshot accepted says, whatever the document, the one that   *)
(* was fetched after it, the name in the zone and the type that is asked:  *)
(* resolve answers NXDOMAIN only for names that are not in it, an alias    *)
(* only where there is nothing of the type, and a negative answer with the *)
(* zone's own SOA.                                                         *)
THEOREM EveryZoneAnswersAsWritten ==
  ASSUME NEW zone, NEW doc \in Documents, NEW next \in Documents, NEW name, NEW type,
         Lower \in [DOMAIN Lower -> STRING]
  PROVE  Authority!ZoneAnswersAsWritten(zone, doc, next, name, type)
<1> DEFINE s == Authority!Refreshed(Authority!load_snapshot(zone, doc), Authority!load_snapshot(zone, next))
           last == IF Authority!load_snapshot(zone, next) = Bad THEN doc ELSE next
           types == TypesFor(s.zone, last, name)
<1>1. s = Authority!load_snapshot(zone, last) /\ last \in Documents
  BY DEF Authority!Refreshed
<1> HIDE DEF s, last
<1>2. ASSUME s # Bad, Authority!domain_matches_zone(name, s.zone)
      PROVE  AnswersTypes(s, name, type, types)
  <2>1. Authority!load_snapshot(zone, last) # Bad
    BY <1>1, <1>2
  <2>2. Holds(s, Authority!normalize_name(last.zone), last)
    BY <1>1, <2>1, SnapshotRecords, Zenon
  <2>3. s.soa.name = s.zone /\ s.soa.type = "SOA"
    BY <2>2, Zenon DEF Holds
  <2>4. /\ types = {r.type : r \in Authority!records_by_name(s, name)}
        /\ \A r \in Authority!records_by_name(s, name) : r.name = name /\ r.type \in Authority!RecordTypes
    BY <1>1, <2>1, TypesOfName
  <2> HIDE DEF types
  <2> QED  BY <1>2, <2>3, <2>4, ResolveByTypes, Zenon
<1> QED  BY <1>2, Zenon DEF AnswersTypes, TypesFor, Authority!ZoneAnswersAsWritten, OwnerOf, s, last

-----------------------------------------------------------------------------
(* Discovery.                                                              *)

(* What holds of 0, and of the next number with each, holds of all.        *)
LEMMA SetInduction ==
  ASSUME NEW S, S \subseteq Nat, 0 \in S, \A k \in S : k + 1 \in S
  PROVE  S = Nat
<1>1. ASSUME Nat \ S # {} PROVE FALSE
  <2>1. PICK m \in Nat \ S : \A n \in Nat \ S : m <= n
    BY <1>1, LeastNatural, Zenon
  <2>2. m - 1 \in Nat /\ (m - 1) + 1 = m /\ ~(m <= m - 1)
    BY <2>1
  <2>3. m - 1 \in S
    BY <2>1, <2>2
  <2> QED  BY <2>1, <2>2, <2>3
<1> QED  BY <1>1, Zenon

(* f[i] is the first i sequences of q one after the other.                 *)
Joins(f, q, n) ==
  f = [i \in 0 .. n |-> IF i = 0 THEN <<>> ELSE f[i - 1] \o q[i]]

LEMMA JoinsExist ==
  ASSUME NEW S, NEW q \in Seq(Seq(S)), NEW n \in Nat, n <= Len(q)
  PROVE  \E f \in [0 .. n -> Seq(S)] : Joins(f, q, n)
<1> DEFINE T == {m \in Nat : m <= Len(q) => \E f \in [0 .. m -> Seq(S)] : Joins(f, q, m)}
<1>1. 0 \in T
  <2> DEFINE f == [i \in 0 .. 0 |-> <<>>]
  <2>1. f \in [0 .. 0 -> Seq(S)] /\ Joins(f, q, 0)
    BY DEF Joins
  <2> QED  BY <2>1, Zenon
<1>2. ASSUME NEW m \in T PROVE m + 1 \in T
  <2>1. CASE ~(m + 1 <= Len(q))
    BY <2>1
  <2>2. CASE m + 1 <= Len(q)
    <3>1. m \in Nat /\ m <= Len(q) /\ Len(q) \in Nat /\ m + 1 \in 1 .. Len(q)
      BY <2>2
    <3>2. PICK f \in [0 .. m -> Seq(S)] : Joins(f, q, m)
      BY <3>1
    <3>3. f[m] \in Seq(S) /\ q[m + 1] \in Seq(S)
      BY <3>1
    <3> DEFINE x == f[m] \o q[m + 1]
               g == [i \in 0 .. m + 1 |-> IF i = m + 1 THEN x ELSE f[i]]
    <3>4. x \in Seq(S)
      BY <3>3
    <3>5. \A i \in 0 .. m : f[i] = IF i = 0 THEN <<>> ELSE f[i - 1] \o q[i]
      BY <3>2, Zenon DEF Joins
    <3>6. ASSUME NEW i \in 0 .. m + 1 PROVE g[i] = IF i = 0 THEN <<>> ELSE g[i - 1] \o q[i]
      <4>1. i # 0 => g[i - 1] = f[i - 1]
        BY <3>1
      <4>2. CASE i = m + 1
        <5>1. i # 0 /\ i - 1 = m
          BY <3>1, <4>2
        <5>2. g[i] = x
          BY <4>2, Zenon
        <5> HIDE DEF g
        <5> QED  BY <4>1, <4>2, <5>1, <5>2, Zenon
      <4>3. CASE i # m + 1
        <5>1. i \in 0 .. m /\ g[i] = f[i]
          BY <3>1, <4>3
        <5> HIDE DEF g
        <5> QED  BY <3>5, <4>1, <5>1, Zenon
      <4> QED  BY <4>2, <4>3, Zenon
    <3>7. g \in [0 .. m + 1 -> Seq(S)]
      <4> HIDE DEF x
      <4> QED  BY <3>1, <3>4
    <3>8. Joins(g, q, m + 1)
      <4>1. g = [i \in 0 .. m + 1 |-> g[i]]
        OBVIOUS
      <4> HIDE DEF g
      <4> QED  BY <3>6, <4>1, Zenon DEF Joins
    <3> HIDE DEF g
    <3> QED  BY <3>1, <3>7, <3>8
  <2> QED  BY <2>1, <2>2
<1>3. T \subseteq Nat
  OBVIOUS
<1>4. T = Nat
  <2> HIDE DEF T
  <2> QED  BY <1>1, <1>2, <1>3, SetInduction, Zenon
<1> QED  BY <1>4

(* Sequences of elements of S, joined, are a sequence of elements of S.    *)
LEMMA JoinedIsSequence ==
  ASSUME NEW S, NEW q \in Seq(Seq(S))
  PROVE  Authority!Joined(q) \in Seq(S)
<1> DEFINE n == Len(q)
           upto == CHOOSE f : Joins(f, q, n)
<1>1. n \in Nat /\ n <= Len(q) /\ n <= n
  OBVIOUS
<1>2. Authority!Joined(q) = upto[n]
  BY Zenon DEF Authority!Joined, Joins
<1>3. Joins(upto, q, n)
  <2>1. \E f \in [0 .. n -> Seq(S)] : Joins(f, q, n)
    <3> HIDE DEF n
    <3> QED  BY <1>1, JoinsExist
  <2> QED  BY <2>1, Zenon
<1> HIDE DEF upto
<1>4. \A i \in 0 .. n : upto[i] = IF i = 0 THEN <<>> ELSE upto[i - 1] \o q[i]
  BY <1>3, Zenon DEF Joins
<1> DEFINE T == {m \in Nat : m <= n => upto[m] \in Seq(S)}
<1>5. 0 \in T
  <2>1. upto[0] = <<>>
    <3>1. 0 \in 0 .. n
      <4> HIDE DEF n
      <4> QED  BY <1>1, SMT
    <3> HIDE DEF n
    <3> QED  BY <1>4, <3>1, Zenon
  <2>2. upto[0] \in Seq(S)
    BY <2>1
  <2> QED  BY <2>2
<1>6. ASSUME NEW m \in T PROVE m + 1 \in T
  <2>1. CASE ~(m + 1 <= n)
    BY <2>1
  <2>2. CASE m + 1 <= n
    <3>1. m \in Nat /\ upto[m] \in Seq(S)
      BY <1>1, <2>2
    <3>2. m + 1 \in 1 .. n /\ m + 1 \in 0 .. n /\ m + 1 # 0 /\ (m + 1) - 1 = m
      BY <1>1, <2>2, <3>1
    <3>3. upto[m + 1] = upto[m] \o q[m + 1]
      <4> HIDE DEF n, T
      <4> QED  BY <1>4, <3>2, Zenon
    <3>5. q[m + 1] \in Seq(S)
      BY <3>2
    <3>4. upto[m + 1] \in Seq(S)
      BY <3>1, <3>3, <3>5
    <3> QED  BY <3>1, <3>4
  <2> QED  BY <2>1, <2>2
<1>7. T \subseteq Nat
  OBVIOUS
<1>8. T = Nat
  <2> HIDE DEF T
  <2> QED  BY <1>5, <1>6, <1>7, SetInduction, Zenon
<1>9. upto[n] \in Seq(S)
  <2> HIDE DEF n
  <2> QED  BY <1>1, <1>8
<1> QED  BY <1>2, <1>9, Zenon

(* Two sequences one after the other.                                      *)
LEMMA Concatenated ==
  ASSUME NEW V, NEW p \in Seq(V), NEW q \in Seq(V)
  PROVE  /\ Len(p) \in Nat /\ Len(q) \in Nat
         /\ DOMAIN (p \o q) = 1 .. Len(p) + Len(q)
         /\ \A j \in 1 .. Len(p) : (p \o q)[j] = p[j]
         /\ \A j \in Len(p) + 1 .. Len(p) + Len(q) : (p \o q)[j] = q[j - Len(p)]
OBVIOUS

(* An index, as build_zone_discovery_entries reads it, and where it is.    *)
Listings == [name: Texts, type: STRING, doc: Documents]

Sources ==
  [is_url: BOOLEAN, allowed_types: SUBSET STRING, fetched: BOOLEAN, zones: Seq(Listings)]

(* The entries that no configured zone has the name of.                    *)
Foreign(manual, names) ==
  {e \in [zone: names, from: {"index"}] :
     \A i \in DOMAIN manual : e.zone # Authority!normalize_name(manual[i])}

LEMMA DiscoveredIsForeign ==
  ASSUME NEW manual, NEW source \in Sources, NEW names,
         \A i \in DOMAIN source.zones : Authority!normalize_name(source.zones[i].name) \in names,
         Authority!build_zone_discovery_entries(source, manual) # Bad
  PROVE  Authority!build_zone_discovery_entries(source, manual) \in Seq(Foreign(manual, names))
<1> DEFINE zones == source.zones
           wanted == {k \in DOMAIN source.zones :
                        /\ Authority!Allowed(source, source.zones[k])
                        /\ \A i \in DOMAIN manual :
                             Authority!normalize_name(manual[i]) # Authority!normalize_name(source.zones[k].name)}
           entry(i) == [zone |-> Authority!normalize_name(zones[i].name), from |-> "index"]
           parts == [i \in DOMAIN zones |-> IF i \in wanted THEN <<entry(i)>> ELSE <<>>]
<1>1. Authority!build_zone_discovery_entries(source, manual) = Authority!Joined(parts)
  BY Zenon DEF Authority!build_zone_discovery_entries, Authority!Discovered
<1>2. zones \in Seq(Listings)
  BY Zenon DEF Sources
<1>3. ASSUME NEW i \in DOMAIN zones PROVE parts[i] \in Seq(Foreign(manual, names))
  <2>1. CASE i \in wanted
    <3>1. entry(i) \in Foreign(manual, names)
      BY <2>1, Zenon DEF Foreign
    <3>2. parts[i] = <<entry(i)>>
      BY <2>1, Zenon
    <3> HIDE DEF entry, parts
    <3> QED  BY <3>1, <3>2
  <2>2. CASE i \notin wanted
    BY <2>2
  <2> QED  BY <2>1, <2>2, Zenon
<1>4. parts \in Seq(Seq(Foreign(manual, names)))
  <2>1. DOMAIN zones = 1 .. Len(zones) /\ Len(zones) \in Nat
    BY <1>2
  <2>2. DOMAIN parts = DOMAIN zones /\ parts = [i \in DOMAIN zones |-> parts[i]]
    BY Zenon
  <2> HIDE DEF parts, zones
  <2> QED  BY <1>3, <2>1, <2>2
<1> HIDE DEF parts
<1> QED  BY <1>1, <1>4, JoinedIsSequence, Zenon

(* A zone of the configuration is served from the configuration and        *)
(* nothing else, however many indexes list it and however they write its   *)
(* name: build_zone_entries, for any configured zones and any indexes.     *)
THEOREM ManualZonesAlwaysStay ==
  ASSUME NEW manual \in Seq(Texts), NEW sources \in Seq(Sources)
  PROVE  Authority!DiscoveryKeepsManualZones(manual, sources)
<1> DEFINE found(s) == Authority!build_zone_discovery_entries(s, manual)
           names == {Authority!normalize_name(t) : t \in Texts}
           own == [i \in DOMAIN manual |-> [zone |-> Authority!normalize_name(manual[i]), from |-> "config"]]
           parts == [i \in DOMAIN sources |-> IF found(sources[i]) = Bad THEN <<>> ELSE found(sources[i])]
           rest == Authority!Joined(parts)
           entries == Authority!build_zone_entries(manual, sources)
<1>1. entries = own \o rest
  BY Zenon DEF Authority!build_zone_entries
<1>2. ASSUME NEW i \in DOMAIN sources PROVE parts[i] \in Seq(Foreign(manual, names))
  <2>1. sources[i] \in Sources
    OBVIOUS
  <2>2. ASSUME NEW k \in DOMAIN sources[i].zones
        PROVE  Authority!normalize_name(sources[i].zones[k].name) \in names
    <3>1. sources[i].zones \in Seq(Listings)
      BY <2>1, Zenon DEF Sources
    <3>2. sources[i].zones[k] \in Listings
      BY <3>1
    <3>3. sources[i].zones[k].name \in Texts
      BY <3>2, Zenon DEF Listings
    <3> QED  BY <3>3, Zenon
  <2>3. found(sources[i]) # Bad => found(sources[i]) \in Seq(Foreign(manual, names))
    <3> HIDE DEF names
    <3> QED  BY <2>1, <2>2, DiscoveredIsForeign, Zenon
  <2> HIDE DEF found
  <2> QED  BY <2>3
<1>3. parts \in Seq(Seq(Foreign(manual, names)))
  <2>1. DOMAIN sources = 1 .. Len(sources) /\ Len(sources) \in Nat
    OBVIOUS
  <2>2. parts = [i \in DOMAIN sources |-> parts[i]]
    OBVIOUS
  <2> HIDE DEF parts
  <2> QED  BY <1>2, <2>1, <2>2
<1>4. rest \in Seq(Foreign(manual, names))
  <2> HIDE DEF parts, names
  <2> QED  BY <1>3, JoinedIsSequence
<1> DEFINE V == {own[i] : i \in DOMAIN manual} \cup Foreign(manual, names)
<1>5. own \in Seq(V) /\ rest \in Seq(V) /\ Len(own) = Len(manual)
  <2>1. \A i \in DOMAIN manual : own[i] \in V
    BY Zenon
  <2>2. own = [i \in 1 .. Len(manual) |-> own[i]] /\ Len(manual) \in Nat /\ DOMAIN manual = 1 .. Len(manual)
    OBVIOUS
  <2>3. own \in Seq(V) /\ Len(own) = Len(manual)
    <3> HIDE DEF own, V
    <3> QED  BY <2>1, <2>2
  <2>4. Foreign(manual, names) \subseteq V
    OBVIOUS
  <2> HIDE DEF rest, V, names
  <2> QED  BY <1>4, <2>3, <2>4
<1>6. /\ DOMAIN entries = 1 .. Len(own) + Len(rest)
      /\ \A j \in 1 .. Len(own) : entries[j] = own[j]
      /\ \A j \in Len(own) + 1 .. Len(own) + Len(rest) : entries[j] = rest[j - Len(own)]
      /\ Len(own) \in Nat /\ Len(rest) \in Nat
  <2> HIDE DEF own, rest, V, entries
  <2> QED  BY <1>1, <1>5, Concatenated, ZenonT(60)
<1>7. ASSUME NEW i \in DOMAIN manual, NEW j \in DOMAIN entries, j \notin DOMAIN manual
      PROVE  entries[j].zone # Authority!normalize_name(manual[i])
  <2>1. j \in Len(own) + 1 .. Len(own) + Len(rest) /\ j - Len(own) \in 1 .. Len(rest)
    <3> HIDE DEF own, rest, entries
    <3> QED  BY <1>5, <1>6, <1>7
  <2>2. entries[j] \in Foreign(manual, names)
    <3> HIDE DEF own, rest, entries, names
    <3> QED  BY <1>4, <1>6, <2>1
  <2> QED  BY <2>2 DEF Foreign
<1>8. ASSUME NEW j \in DOMAIN manual
      PROVE  j \in DOMAIN entries /\ entries[j].zone = Authority!normalize_name(manual[j])
  <2>1. j \in 1 .. Len(own) /\ j \in DOMAIN entries
    <3> HIDE DEF own, rest, entries
    <3> QED  BY <1>5, <1>6
  <2>2. entries[j] = own[j]
    <3> HIDE DEF own, rest, entries
    <3> QED  BY <1>6, <2>1, Zenon
  <2> HIDE DEF entries
  <2> QED  BY <2>1, <2>2
<1> HIDE DEF entries
<1>9. \A i \in DOMAIN manual :
        {j \in DOMAIN entries : entries[j].zone = Authority!normalize_name(manual[i])}
          = {j \in DOMAIN manual : Authority!normalize_name(manual[j]) = Authority!normalize_name(manual[i])}
  BY <1>7, <1>8, Zenon
<1> QED  BY <1>9, Zenon DEF entries, Authority!DiscoveryKeepsManualZones
=============================================================================
