--------------------------- MODULE ResponseCache ---------------------------
(***************************************************************************)
(* The cache of DNS responses: CachedUpstreamResolver of                   *)
(* src/use_cases/upstream_resolver.rs.                                     *)
(*                                                                         *)
(* A query notes the time once, before it waits for the read lock, and     *)
(* uses it to the end: to judge the entry it finds, to evict expired       *)
(* entries and as the birth of the entry it inserts, although the upstream *)
(* answers much later.  Any number of queries for one key may be at the    *)
(* upstream at once.                                                       *)
(***************************************************************************)
EXTENDS Integers, FiniteSets

CONSTANTS
  Keys,            \* cache keys: queries with the id blanked out
  NoKey,           \* of a client with no query
  Ttls,            \* TTLs of upstream responses, in seconds
  NoTtl,           \* of a response that cache_ttl does not accept
  MinTtl, MaxTtl,  \* the configured bounds; 0 and a large number for none
  MaxEntries,
  Clients,         \* queries in flight
  TicksPerSecond,  \* resolution of the clock
  MaxTime          \* bound on the clock, in ticks

ASSUME TtlsAssumption == Ttls \subseteq Nat /\ NoTtl \notin Nat
ASSUME BoundsAssumption == MinTtl \in Nat /\ MaxTtl \in Nat /\ MinTtl <= MaxTtl
ASSUME SizeAssumption == MaxEntries \in Nat
ASSUME ClockAssumption == TicksPerSecond \in Nat \ {0} /\ MaxTime \in Nat

VARIABLES
  time,     \* the clock
  entries,  \* the cached responses, by key
  client    \* client[c]: how far query c has come

vars == <<time, entries, client>>

Time == 0..MaxTime

\* What the upstream sent, and when (history).
Responses == [at: Time, ttl: Ttls \cup {NoTtl}]

Entries == [response: Responses, stored_at: Time, expires_at: Nat]

\* left: the TTL given to the client, in seconds, at time served_at.
ClientStates ==
  [pc: {"idle", "lookup", "ask", "insert", "hit"}, key: Keys \cup {NoKey}, now: Time,
   response: Responses, left: Nat, served_at: Time]

\* ResolverCacheSettings::clamp_ttl; zero means that nothing is cached.
clamp_ttl(ttl) ==
  LET raised == IF ttl < MinTtl THEN MinTtl ELSE ttl
  IN  IF raised > MaxTtl THEN MaxTtl ELSE raised

Cacheable(response) == response.ttl # NoTtl /\ clamp_ttl(response.ttl) # 0

\* How long a response is kept, in ticks.
Lifetime(response) == clamp_ttl(response.ttl) * TicksPerSecond

\* Mutant: the age is not subtracted.
Remaining_Whole(ttl, age) == ttl

\* decrement_record_ttls, with the age cut to whole seconds.
Remaining(ttl, age) ==
  IF age \div TicksPerSecond > ttl THEN 0 ELSE ttl - age \div TicksPerSecond

NoResponse == [at |-> 0, ttl |-> NoTtl]

IdleClient ==
  [pc |-> "idle", key |-> NoKey, now |-> 0, response |-> NoResponse,
   left |-> 0, served_at |-> 0]

Init ==
  /\ time = 0
  /\ entries = [k \in {} |-> NoResponse]
  /\ client = [c \in Clients |-> IdleClient]

-----------------------------------------------------------------------------
StartResolve(c, k) ==
  /\ client[c].pc = "idle"
  /\ client' = [client EXCEPT ![c] =
       [IdleClient EXCEPT !.pc = "lookup", !.key = k, !.now = time]]
  /\ UNCHANGED <<time, entries>>

\* Under the read lock.  An expired entry stays where it is.
Lookup(c) ==
  LET k == client[c].key
      found == k \in DOMAIN entries /\ entries[k].expires_at > client[c].now
  IN  /\ client[c].pc = "lookup"
      /\ client' = [client EXCEPT ![c] =
           IF found
           THEN [client[c] EXCEPT !.pc = "hit", !.response = entries[k].response,
                   !.left = Remaining(entries[k].response.ttl, time - entries[k].stored_at),
                   !.served_at = time]
           ELSE [client[c] EXCEPT !.pc = "ask"]]
      /\ UNCHANGED <<time, entries>>

ReturnHit(c) ==
  /\ client[c].pc = "hit"
  /\ client' = [client EXCEPT ![c] = IdleClient]
  /\ UNCHANGED <<time, entries>>

UpstreamAnswers(c, ttl) ==
  /\ client[c].pc = "ask"
  /\ client' = [client EXCEPT ![c] =
       [client[c] EXCEPT !.pc = "insert", !.response = [at |-> time, ttl |-> ttl]]]
  /\ UNCHANGED <<time, entries>>

UpstreamFails(c) ==
  /\ client[c].pc = "ask"
  /\ client' = [client EXCEPT ![c] = IdleClient]
  /\ UNCHANGED <<time, entries>>

-----------------------------------------------------------------------------
(* Making room.                                                            *)

Restricted(es, keys) == [k \in keys |-> es[k]]

\* Mutant: the limit is noticed one entry late.
Full_Late(es) == Cardinality(DOMAIN es) > MaxEntries

Full(es) == Cardinality(DOMAIN es) >= MaxEntries

\* The first pass: entries that had expired when the query came in.
Unexpired(es, now) ==
  Restricted(es, IF Full(es) THEN {k \in DOMAIN es : es[k].expires_at > now} ELSE DOMAIN es)

\* Mutant: the entries that expire last are dropped.
Survivors_Soonest(es) ==
  {keys \in SUBSET DOMAIN es :
    /\ Cardinality(keys) = MaxEntries \div 2
    /\ \A k \in keys, j \in DOMAIN es \ keys : es[k].expires_at <= es[j].expires_at}

(* The second pass keeps the half that expires last.  Which of two that    *)
(* expire together comes first is up to the hash map.                      *)
Survivors(es) ==
  {keys \in SUBSET DOMAIN es :
    /\ Cardinality(keys) = MaxEntries \div 2
    /\ \A k \in keys, j \in DOMAIN es \ keys : es[j].expires_at <= es[k].expires_at}

MadeRoom(es, now) ==
  LET first == Unexpired(es, now)
  IN  IF Full(first) THEN {Restricted(first, keys) : keys \in Survivors(first)} ELSE {first}

Put(es, k, entry) == [j \in DOMAIN es \cup {k} |-> IF j = k THEN entry ELSE es[j]]

\* Mutant: the entry is born when it is inserted.
Fresh_Now(c) ==
  [response |-> client[c].response, stored_at |-> time,
   expires_at |-> time + Lifetime(client[c].response)]

\* The entry is born when the query came in.
Fresh(c) ==
  [response |-> client[c].response, stored_at |-> client[c].now,
   expires_at |-> client[c].now + Lifetime(client[c].response)]

\* Under the write lock; then the response goes to the client as it is.
Insert(c) ==
  /\ client[c].pc = "insert"
  /\ IF Cacheable(client[c].response)
     THEN \E es \in MadeRoom(entries, client[c].now) :
            entries' = Put(es, client[c].key, Fresh(c))
     ELSE UNCHANGED entries
  /\ client' = [client EXCEPT ![c] = IdleClient]
  /\ UNCHANGED time

Tick ==
  /\ time < MaxTime
  /\ time' = time + 1
  /\ UNCHANGED <<entries, client>>

-----------------------------------------------------------------------------
Next ==
  \/ \E c \in Clients :
       \/ \E k \in Keys : StartResolve(c, k)
       \/ Lookup(c)
       \/ ReturnHit(c)
       \/ \E ttl \in Ttls \cup {NoTtl} : UpstreamAnswers(c, ttl)
       \/ UpstreamFails(c)
       \/ Insert(c)
  \/ Tick

Spec == Init /\ [][Next]_vars

-----------------------------------------------------------------------------
(* Types of the clock, the entries and the queries.                        *)
TypeOK ==
  /\ time \in Time
  /\ DOMAIN entries \subseteq Keys
  /\ \A k \in DOMAIN entries : entries[k] \in Entries
  /\ client \in [Clients -> ClientStates]

(* The cache never holds more than max_entries responses, or one when that *)
(* is 0, however many queries insert at once.                              *)
SizeBounded ==
  Cardinality(DOMAIN entries) <= IF MaxEntries = 0 THEN 1 ELSE MaxEntries

(* No query is answered from the cache with a response that the upstream   *)
(* sent longer ago than its (clamped) TTL when the query came in, however  *)
(* slow the upstream was and in whatever order answers to the same         *)
(* question were inserted.                                                 *)
HitIsFresh ==
  \A c \in Clients : client[c].pc = "hit" =>
    /\ Cacheable(client[c].response)
    /\ client[c].now < client[c].response.at + Lifetime(client[c].response)

(* The TTL handed out with a hit does not let the client keep the response *)
(* a second or more longer than the upstream allowed.                      *)
TtlNotExtended ==
  \A c \in Clients : client[c].pc = "hit" /\ client[c].left > 0 =>
    client[c].served_at + client[c].left * TicksPerSecond
      < client[c].response.at + (client[c].response.ttl + 1) * TicksPerSecond

DropsSoonestToExpire ==
  \A k \in DOMAIN entries \ DOMAIN entries' :
    /\ Full(entries)
    /\ \E c \in Clients :
         /\ client[c].pc = "insert" /\ client'[c].pc = "idle"
         /\ \A j \in (DOMAIN entries \cap DOMAIN entries') \ {client[c].key} :
              entries[k].expires_at <= entries[j].expires_at

(* A response is dropped only to make room for one that a query inserts    *)
(* into a full cache, and of the others none is kept that expires sooner.  *)
EvictsSoonestToExpire == [][DropsSoonestToExpire]_vars
=============================================================================
