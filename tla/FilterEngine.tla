--------------------------- MODULE FilterEngine ---------------------------
(***************************************************************************)
(* The list filter engine: src/use_cases/filtering/mod.rs.                 *)
(*                                                                         *)
(* One engine owns a map of parsed lists (behind an RwLock), one AtomicBool *)
(* per list that disables it at run time, and a snapshot (behind a second  *)
(* RwLock) that queries are decided on.  Refreshes and enable/disable      *)
(* calls run on different worker threads; each of them ends by rebuilding  *)
(* the snapshot.  Parsed documents are also stored in the database and are *)
(* restored when the process starts again.                                 *)
(***************************************************************************)
EXTENDS Naturals, Sequences, FiniteSets

CONSTANTS
  Lists,    \* the engine's runtimes: the lists configured and enabled
  Kind,     \* Kind[l]: "Block" or "Allow"
  Domains,  \* domain names, each a sequence of labels, leftmost first
  Docs,     \* the documents a source may serve, after parsing
  NoDoc,    \* no entry in the map, no row in the database
  Tasks     \* concurrent calls into the engine: refreshes, enables, disables

ListDomains == [domains: SUBSET Domains, exceptions: SUBSET Domains]

ASSUME KindAssumption   == Kind \in [Lists -> {"Block", "Allow"}]
ASSUME DocsAssumption   == Docs \subseteq ListDomains
ASSUME NoDocAssumption  == NoDoc \notin Docs
ASSUME DomainAssumption == Domains \subseteq Seq(STRING)
ASSUME ListsAssumption  == Lists # {}

VARIABLES
  lists,     \* lists[l]: the parsed document of l in memory, or NoDoc
  disabled,  \* disabled[l]: the runtime_disabled flag of l
  snapshot,  \* what decide() reads
  stored,    \* stored[l]: the filter_cache_documents row of l, or NoDoc
  task       \* task[t]: how far call t has come

vars == <<lists, disabled, snapshot, stored, task>>

Snapshots == [blocked: SUBSET Domains, allowed: SUBSET Domains]

EmptySnapshot == [blocked |-> {}, allowed |-> {}]

(* A task's local variables: the list and the document it works on, the    *)
(* flags rebuild_snapshot has loaded so far, the lists among them that were *)
(* found disabled, and the two sets it has collected.                      *)
TaskStates ==
  [pc: {"idle", "fetch", "insert", "lock", "load", "publish", "persist"},
   list: Lists, doc: Docs \cup {NoDoc},
   loaded: SUBSET Lists, off: SUBSET Lists, built: Snapshots]

\* Which entries a domain list matches: the domain itself and every parent.
matches_any(set, domain) ==
  \E i \in 1..Len(domain) : SubSeq(domain, i, Len(domain)) \in set

\* An allow match wins over a block match.
decide(snap, domain) ==
  IF matches_any(snap.allowed, domain) THEN "Allow"
  ELSE IF matches_any(snap.blocked, domain) THEN "Block"
  ELSE "Neutral"

(***************************************************************************)
(* The sets rebuild_snapshot collects from the map ls when the lists in    *)
(* off are disabled.                                                       *)
(***************************************************************************)
Active(ls, off) == {l \in Lists \ off : ls[l] # NoDoc}

\* Mutant: the inline exceptions of the lists are left out.
BuildSnapshot_NoExceptions(ls, off) ==
  [blocked |-> UNION {ls[l].domains : l \in {k \in Active(ls, off) : Kind[k] = "Block"}},
   allowed |-> UNION {ls[l].domains : l \in {k \in Active(ls, off) : Kind[k] = "Allow"}}]

BuildSnapshot(ls, off) ==
  [blocked |-> UNION {ls[l].domains : l \in {k \in Active(ls, off) : Kind[k] = "Block"}},
   allowed |-> (UNION {ls[l].domains : l \in {k \in Active(ls, off) : Kind[k] = "Allow"}})
               \cup (UNION {ls[l].exceptions : l \in Active(ls, off)})]

\* Mutant: the read guard is dropped before the snapshot is written.
HoldsReadLock_EarlyDrop(t) == task[t].pc = "load"

\* Tasks inside rebuild_snapshot hold the read lock on the map to its end.
HoldsReadLock(t) == task[t].pc \in {"load", "publish"}

(* std::sync::RwLock as it is on Linux: while a writer waits, no reader is *)
(* let in beside those that hold the lock.                                 *)
ReadLockable ==
  \/ \A r \in Tasks : ~HoldsReadLock(r)
  \/ \A w \in Tasks : task[w].pc # "insert"

At(pc, l, d) ==
  [pc |-> pc, list |-> l, doc |-> d,
   loaded |-> {}, off |-> {}, built |-> EmptySnapshot]

Idle == At("idle", CHOOSE l \in Lists : TRUE, NoDoc)

AllIdle == [t \in Tasks |-> Idle]

Init ==
  /\ lists = [l \in Lists |-> NoDoc]
  /\ disabled = [l \in Lists |-> FALSE]
  /\ snapshot = EmptySnapshot
  /\ stored = [l \in Lists |-> NoDoc]
  /\ task = AllIdle

-----------------------------------------------------------------------------
(* refresh_single_list, from the background loop of the list or spawned by *)
(* refresh_list and refresh_all_lists.                                     *)

StartRefresh(t, l) ==
  /\ task[t].pc = "idle"
  /\ task' = [task EXCEPT ![t] = At("fetch", l, NoDoc)]
  /\ UNCHANGED <<lists, disabled, snapshot, stored>>

FetchOk(t, d) ==
  /\ task[t].pc = "fetch"
  /\ task' = [task EXCEPT ![t] = [@ EXCEPT !.pc = "insert", !.doc = d]]
  /\ UNCHANGED <<lists, disabled, snapshot, stored>>

\* The old document stays in force.
FetchFails(t) ==
  /\ task[t].pc = "fetch"
  /\ task' = [task EXCEPT ![t] = Idle]
  /\ UNCHANGED <<lists, disabled, snapshot, stored>>

\* Under the write lock, which is released before the rebuild.
InsertDocument(t) ==
  /\ task[t].pc = "insert"
  /\ \A r \in Tasks : ~HoldsReadLock(r)
  /\ lists' = [lists EXCEPT ![task[t].list] = task[t].doc]
  /\ task' = [task EXCEPT ![t].pc = "lock"]
  /\ UNCHANGED <<disabled, snapshot, stored>>

-----------------------------------------------------------------------------
(* rebuild_snapshot.  The flags are separate atomics read with relaxed     *)
(* ordering, so they are loaded one at a time, in any order.               *)

\* Mutant: a refresh rebuilds while its own write guard is still alive.
LockLists_GuardHeld(t) ==
  /\ task[t].pc = "lock"
  /\ task[t].doc = NoDoc
  /\ ReadLockable
  /\ task' = [task EXCEPT ![t].pc = "load"]
  /\ UNCHANGED <<lists, disabled, snapshot, stored>>

LockLists(t) ==
  /\ task[t].pc = "lock"
  /\ ReadLockable
  /\ task' = [task EXCEPT ![t].pc = "load"]
  /\ UNCHANGED <<lists, disabled, snapshot, stored>>

LoadFlag(t, l) ==
  /\ task[t].pc = "load"
  /\ l \notin task[t].loaded
  /\ task' = [task EXCEPT ![t] =
       [@ EXCEPT !.loaded = task[t].loaded \cup {l},
                 !.off = task[t].off \cup {k \in {l} : disabled[k]}]]
  /\ UNCHANGED <<lists, disabled, snapshot, stored>>

CollectDomains(t) ==
  /\ task[t].pc = "load"
  /\ task[t].loaded = Lists
  /\ task' = [task EXCEPT ![t] =
       [@ EXCEPT !.pc = "publish", !.built = BuildSnapshot(lists, task[t].off)]]
  /\ UNCHANGED <<lists, disabled, snapshot, stored>>

\* A refresh goes on to persist its document, an enable or disable returns.
PublishSnapshot(t) ==
  /\ task[t].pc = "publish"
  /\ snapshot' = task[t].built
  /\ task' = [task EXCEPT ![t] =
       IF task[t].doc = NoDoc THEN Idle ELSE At("persist", task[t].list, task[t].doc)]
  /\ UNCHANGED <<lists, disabled, stored>>

-----------------------------------------------------------------------------
(* persist_list_document: an upsert of the row of this list.               *)

PersistOk(t) ==
  /\ task[t].pc = "persist"
  /\ stored' = [stored EXCEPT ![task[t].list] = task[t].doc]
  /\ task' = [task EXCEPT ![t] = Idle]
  /\ UNCHANGED <<lists, disabled, snapshot>>

\* Only logged.
PersistFails(t) ==
  /\ task[t].pc = "persist"
  /\ task' = [task EXCEPT ![t] = Idle]
  /\ UNCHANGED <<lists, disabled, snapshot, stored>>

-----------------------------------------------------------------------------
(* enable_list and disable_list: the flag is stored, then rebuilt from.    *)

\* Mutant: the flag is stored and the snapshot is left as it is.
SetDisabled_NoRebuild(t, l, value) ==
  /\ task[t].pc = "idle"
  /\ disabled' = [disabled EXCEPT ![l] = value]
  /\ UNCHANGED <<lists, snapshot, stored, task>>

SetDisabled(t, l, value) ==
  /\ task[t].pc = "idle"
  /\ disabled' = [disabled EXCEPT ![l] = value]
  /\ task' = [task EXCEPT ![t] = At("lock", l, NoDoc)]
  /\ UNCHANGED <<lists, snapshot, stored>>

disable_list(t, l) == SetDisabled(t, l, TRUE)

enable_list(t, l) == SetDisabled(t, l, FALSE)

-----------------------------------------------------------------------------
(* The process stops at any point and starts again: from_config_with_cache *)
(* restores the rows that can be read (those in readable) before any task  *)
(* runs, and rebuilds the snapshot when there was one.                     *)
Restart(readable) ==
  LET restored == {l \in readable : stored[l] # NoDoc}
      memory   == [l \in Lists |-> IF l \in restored THEN stored[l] ELSE NoDoc]
  IN  /\ lists' = memory
      /\ disabled' = [l \in Lists |-> FALSE]
      /\ snapshot' = IF restored # {} THEN BuildSnapshot(memory, {}) ELSE EmptySnapshot
      /\ task' = AllIdle
      /\ UNCHANGED stored

-----------------------------------------------------------------------------
Rebuild(t) ==
  \/ LockLists(t)
  \/ \E l \in Lists : LoadFlag(t, l)
  \/ CollectDomains(t)
  \/ PublishSnapshot(t)

Persist(t) == PersistOk(t) \/ PersistFails(t)

Fetch(t) == FetchFails(t) \/ \E d \in Docs : FetchOk(t, d)

TaskStep(t) ==
  \/ \E l \in Lists :
       StartRefresh(t, l) \/ disable_list(t, l) \/ enable_list(t, l)
  \/ Fetch(t)
  \/ InsertDocument(t)
  \/ Rebuild(t)
  \/ Persist(t)

Next ==
  \/ \E t \in Tasks : TaskStep(t)
  \/ \E readable \in SUBSET Lists : Restart(readable)

Spec == Init /\ [][Next]_vars

(* A started call keeps running.  A fetch or a database call may hang, the *)
(* steps in memory may not.  A writer whose lock becomes free again and    *)
(* again gets it some time, and so does a reader that is let in again and  *)
(* again.                                                                  *)
Fairness == \A t \in Tasks : SF_vars(InsertDocument(t) \/ Rebuild(t))

FairSpec == Spec /\ Fairness

-----------------------------------------------------------------------------
(* Types of the map, the flags, the snapshot, the rows and the task states. *)
TypeOK ==
  /\ lists \in [Lists -> Docs \cup {NoDoc}]
  /\ disabled \in [Lists -> BOOLEAN]
  /\ snapshot \in Snapshots
  /\ stored \in [Lists -> Docs \cup {NoDoc}]
  /\ task \in [Tasks -> TaskStates]

\* Refreshes whose document is in the map and not yet in the snapshot.
Owing == {t \in Tasks : task[t].doc # NoDoc /\ task[t].pc \in {"lock", "load", "publish"}}

(* What the documents in the map ls say about a domain when the lists in   *)
(* off are disabled: an exception in any list, or an entry of an allow     *)
(* list, for the domain or a parent of it wins over every block entry.     *)
Verdict(ls, off, domain) ==
  LET Names(set) == \E i \in 1..Len(domain) : SubSeq(domain, i, Len(domain)) \in set
      Says(l, kind) == /\ l \notin off /\ ls[l] # NoDoc
                       /\ \/ Kind[l] = kind /\ Names(ls[l].domains)
                          \/ kind = "Allow" /\ Names(ls[l].exceptions)
  IN  CASE \E l \in Lists : Says(l, "Allow") -> "Allow"
        [] \A l \in Lists : ~Says(l, "Allow") ->
             IF \E l \in Lists : Says(l, "Block") THEN "Block" ELSE "Neutral"

(* When every refresh that replaced a document has also rebuilt, the       *)
(* snapshot holds exactly the documents in memory, whichever rebuild was   *)
(* last: rebuild_snapshot keeps the read lock on the map until it has      *)
(* written the snapshot, so no rebuild can publish an older map.           *)
SnapshotReflectsLists ==
  Owing = {} => \E off \in SUBSET Lists : snapshot = BuildSnapshot(lists, off)

(* Then decide() answers every query as the documents in memory say, with  *)
(* the allow entries and the inline exceptions of all of them above the    *)
(* block entries of any.                                                   *)
DecisionsFollowLists ==
  Owing = {} =>
    \E off \in SUBSET Lists :
      \A domain \in Domains : decide(snapshot, domain) = Verdict(lists, off, domain)

(* enable_list and disable_list take effect: once no call is past its      *)
(* fetch, queries are decided without the lists whose flag is set and with *)
(* all the others.                                                         *)
DisableTakesEffect ==
  (\A t \in Tasks : task[t].pc \in {"idle", "fetch"}) =>
    \A domain \in Domains :
      decide(snapshot, domain) = Verdict(lists, {l \in Lists : disabled[l]}, domain)

(* A document that a refresh has fetched is published, unless the process  *)
(* restarts: the rebuild never waits for a lock held by itself or by       *)
(* another rebuild, and the insert is not starved by them.  Stated for one *)
(* of the tasks, which are all alike.                                      *)
FetchedIsPublished ==
  LET t == CHOOSE t \in Tasks : TRUE
  IN  (task[t].pc = "insert") ~> (task[t].pc \in {"persist", "idle"})
=============================================================================
