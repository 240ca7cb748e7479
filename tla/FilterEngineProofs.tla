------------------------ MODULE FilterEngineProofs ------------------------
(***************************************************************************)
(* Proofs about the filter engine, and the queries against it, for any     *)
(* lists, documents, domains and any number of concurrent calls.           *)
(***************************************************************************)
EXTENDS FilterQueries, TLAPS

(* A refresh that is about to insert has a document.                       *)
FetchedDocument == \A t \in Tasks : task[t].pc = "insert" => task[t].doc # NoDoc

(* What a rebuild has collected is still what the map says: the read lock  *)
(* it holds keeps every insert out.                                        *)
CollectedIsCurrent ==
  \A t \in Tasks : task[t].pc = "publish" =>
                     task[t].built = BuildSnapshot(lists, task[t].off)

(* The inductive invariant. *)
IInv == TypeOK /\ FetchedDocument /\ CollectedIsCurrent /\ SnapshotReflectsLists

-----------------------------------------------------------------------------
(* rebuild_snapshot collects domain names only.                            *)
LEMMA BuildSnapshotType ==
  ASSUME NEW ls \in [Lists -> Docs \cup {NoDoc}], NEW off \in SUBSET Lists
  PROVE  BuildSnapshot(ls, off) \in Snapshots
<1>1. \A l \in Active(ls, off) : /\ ls[l].domains \subseteq Domains
                                 /\ ls[l].exceptions \subseteq Domains
  BY DocsAssumption DEF Active, ListDomains
<1>2. BuildSnapshot(ls, off).blocked \subseteq Domains
  BY <1>1 DEF BuildSnapshot
<1>3. BuildSnapshot(ls, off).allowed \subseteq Domains
  BY <1>1 DEF BuildSnapshot
<1> QED
  BY <1>2, <1>3 DEF BuildSnapshot, Snapshots

(* With no document in memory the rebuilt snapshot is the default one.     *)
LEMMA BuildSnapshotEmpty ==
  ASSUME NEW ls, \A l \in Lists : ls[l] = NoDoc
  PROVE  BuildSnapshot(ls, {}) = EmptySnapshot
<1>1. Active(ls, {}) = {}
  BY DEF Active
<1> QED
  BY <1>1, Zenon DEF BuildSnapshot, EmptySnapshot

(* A query decided on a rebuilt snapshot is answered as the documents say. *)
LEMMA DecideIsVerdict ==
  ASSUME NEW ls, NEW off, NEW domain
  PROVE  decide(BuildSnapshot(ls, off), domain) = Verdict(ls, off, domain)
<1> DEFINE Hit(set) == \E i \in 1..Len(domain) : SubSeq(domain, i, Len(domain)) \in set
           Says(l, kind) == /\ l \notin off /\ ls[l] # NoDoc
                            /\ \/ Kind[l] = kind /\ Hit(ls[l].domains)
                               \/ kind = "Allow" /\ Hit(ls[l].exceptions)
           snap == BuildSnapshot(ls, off)
<1>1. matches_any(snap.allowed, domain) <=> \E l \in Lists : Says(l, "Allow")
  BY DEF matches_any, BuildSnapshot, Active
<1>2. matches_any(snap.blocked, domain) <=> \E l \in Lists : Says(l, "Block")
  BY DEF matches_any, BuildSnapshot, Active
<1>3. CASE \E l \in Lists : Says(l, "Allow")
  BY <1>1, <1>3 DEF decide, Verdict
<1>4. CASE \A l \in Lists : ~Says(l, "Allow")
  BY <1>1, <1>2, <1>4 DEF decide, Verdict
<1> QED
  BY <1>3, <1>4

-----------------------------------------------------------------------------
(* The values a task state is set to are task states.                      *)
LEMMA AtType ==
  ASSUME NEW pc \in {"idle", "fetch", "insert", "lock", "load", "publish", "persist"},
         NEW l \in Lists, NEW d \in Docs \cup {NoDoc}
  PROVE  At(pc, l, d) \in TaskStates
BY DEF At, TaskStates, Snapshots, EmptySnapshot

LEMMA IdleType == Idle \in TaskStates /\ AllIdle \in [Tasks -> TaskStates]
<1>1. (CHOOSE l \in Lists : TRUE) \in Lists
  BY ListsAssumption
<1> QED
  BY <1>1, AtType DEF Idle, AllIdle

LEMMA InitTypeOK == Init => TypeOK
BY IdleType DEF Init, TypeOK, Snapshots, EmptySnapshot

LEMMA NextTypeOK == TypeOK /\ [Next]_vars => TypeOK'
<1> SUFFICES ASSUME TypeOK, [Next]_vars PROVE TypeOK'
  OBVIOUS
<1> USE DEF TypeOK
<1>1. ASSUME NEW t \in Tasks, NEW l \in Lists, StartRefresh(t, l) PROVE TypeOK'
  BY <1>1, AtType DEF StartRefresh
<1>2. ASSUME NEW t \in Tasks, NEW d \in Docs, FetchOk(t, d) PROVE TypeOK'
  <2>1. [task[t] EXCEPT !.pc = "insert", !.doc = d] \in TaskStates
    BY Zenon DEF TaskStates
  <2> QED
    BY <1>2, <2>1 DEF FetchOk
<1>3. ASSUME NEW t \in Tasks, FetchFails(t) PROVE TypeOK'
  BY <1>3, IdleType DEF FetchFails
<1>4. ASSUME NEW t \in Tasks, InsertDocument(t) PROVE TypeOK'
  BY <1>4 DEF InsertDocument, TaskStates
<1>5. ASSUME NEW t \in Tasks, LockLists(t) PROVE TypeOK'
  BY <1>5 DEF LockLists, TaskStates
<1>6. ASSUME NEW t \in Tasks, NEW l \in Lists, LoadFlag(t, l) PROVE TypeOK'
  <2> DEFINE off == task[t].off \cup {k \in {l} : disabled[k]}
  <2>1. task[t].loaded \cup {l} \in SUBSET Lists /\ off \in SUBSET Lists
    BY DEF TaskStates
  <2>2. [task[t] EXCEPT !.loaded = task[t].loaded \cup {l}, !.off = off] \in TaskStates
    BY <2>1, Zenon DEF TaskStates
  <2>3. /\ task' = [task EXCEPT ![t] =
                      [task[t] EXCEPT !.loaded = task[t].loaded \cup {l}, !.off = off]]
        /\ UNCHANGED <<lists, disabled, snapshot, stored>>
    BY <1>6 DEF LoadFlag
  <2> HIDE DEF off
  <2> QED
    BY <2>2, <2>3
<1>7. ASSUME NEW t \in Tasks, CollectDomains(t) PROVE TypeOK'
  <2>1. BuildSnapshot(lists, task[t].off) \in Snapshots
    BY BuildSnapshotType DEF TaskStates
  <2>2. [task[t] EXCEPT !.pc = "publish", !.built = BuildSnapshot(lists, task[t].off)]
          \in TaskStates
    BY <2>1, Zenon DEF TaskStates
  <2> QED
    BY <1>7, <2>2 DEF CollectDomains
<1>8. ASSUME NEW t \in Tasks, PublishSnapshot(t) PROVE TypeOK'
  <2>1. task[t] \in TaskStates
    OBVIOUS
  <2>2. /\ task[t].built \in Snapshots
        /\ At("persist", task[t].list, task[t].doc) \in TaskStates
    BY <2>1, AtType DEF TaskStates
  <2> QED
    BY <1>8, <2>2, IdleType DEF PublishSnapshot
<1>9. ASSUME NEW t \in Tasks, PersistOk(t) PROVE TypeOK'
  BY <1>9, IdleType DEF PersistOk, TaskStates
<1>10. ASSUME NEW t \in Tasks, PersistFails(t) PROVE TypeOK'
  BY <1>10, IdleType DEF PersistFails
<1>11. ASSUME NEW t \in Tasks, NEW l \in Lists, NEW v \in BOOLEAN, SetDisabled(t, l, v)
       PROVE  TypeOK'
  BY <1>11, AtType DEF SetDisabled
<1>12. ASSUME NEW readable \in SUBSET Lists, Restart(readable) PROVE TypeOK'
  <2>1. lists' \in [Lists -> Docs \cup {NoDoc}]
    BY <1>12 DEF Restart
  <2>2. snapshot' \in Snapshots
    BY <1>12, <2>1, BuildSnapshotType DEF Restart, Snapshots, EmptySnapshot
  <2> QED
    BY <1>12, <2>1, <2>2, IdleType DEF Restart
<1>13. CASE UNCHANGED vars
  BY <1>13 DEF vars
<1> QED
  BY <1>1, <1>2, <1>3, <1>4, <1>5, <1>6, <1>7, <1>8, <1>9, <1>10, <1>11, <1>12, <1>13, Zenon
     DEF Next, TaskStep, Fetch, Rebuild, Persist, disable_list, enable_list

(* The state of the engine keeps its types in every execution.             *)
THEOREM TypeCorrect == Spec => []TypeOK
BY InitTypeOK, NextTypeOK, PTL DEF Spec

-----------------------------------------------------------------------------
LEMMA InitIInv == Init => IInv
<1> SUFFICES ASSUME Init PROVE IInv
  OBVIOUS
<1>1. TypeOK
  BY InitTypeOK
<1>2. FetchedDocument /\ CollectedIsCurrent
  BY DEF Init, AllIdle, Idle, At, FetchedDocument, CollectedIsCurrent
<1>3. snapshot = BuildSnapshot(lists, {})
  BY BuildSnapshotEmpty DEF Init
<1> QED
  BY <1>1, <1>2, <1>3 DEF IInv, SnapshotReflectsLists

(* A step of a task that leaves the map and the snapshot alone, and neither *)
(* ends nor begins a debt to the snapshot, keeps the snapshot property.     *)
LEMMA SnapshotFrame ==
  ASSUME UNCHANGED <<lists, snapshot>>, Owing \subseteq Owing', SnapshotReflectsLists
  PROVE  SnapshotReflectsLists'
BY DEF SnapshotReflectsLists, BuildSnapshot, Active

(* A step of one task that leaves the map alone and has nothing in its      *)
(* hands afterwards keeps what is known of the documents in flight.         *)
LEMMA InFlightFrame ==
  ASSUME FetchedDocument, CollectedIsCurrent, UNCHANGED lists, NEW t \in Tasks,
         \A r \in Tasks \ {t} : task'[r] = task[r],
         task'[t].pc \notin {"insert", "publish"}
  PROVE  FetchedDocument' /\ CollectedIsCurrent'
<1>1. FetchedDocument'
  BY DEF FetchedDocument
<1>2. ASSUME NEW r \in Tasks, task'[r].pc = "publish"
      PROVE  task'[r].built = BuildSnapshot(lists, task'[r].off)
  BY <1>2 DEF CollectedIsCurrent
<1> QED
  BY <1>1, <1>2 DEF CollectedIsCurrent, BuildSnapshot, Active

(* A restart begins with the snapshot of what it restored.                 *)
LEMMA RestartSnapshot ==
  ASSUME NEW readable \in SUBSET Lists, Restart(readable)
  PROVE  snapshot' = BuildSnapshot(lists', {})
<1>1. CASE {l \in readable : stored[l] # NoDoc} # {}
  BY <1>1 DEF Restart
<1>2. CASE {l \in readable : stored[l] # NoDoc} = {}
  <2>1. \A l \in Lists : lists'[l] = NoDoc
    BY <1>2 DEF Restart
  <2> QED
    BY <1>2, <2>1, BuildSnapshotEmpty DEF Restart
<1> QED
  BY <1>1, <1>2

LEMMA NextIInv == IInv /\ [Next]_vars => IInv'
<1> SUFFICES ASSUME IInv, [Next]_vars PROVE IInv'
  OBVIOUS
<1> USE DEF IInv
<1>0. TypeOK'
  BY NextTypeOK
<1> USE DEF FetchedDocument, CollectedIsCurrent
<1>a. ASSUME NEW t \in Tasks, NEW l \in Lists, StartRefresh(t, l) PROVE IInv'
  <2>1. Owing \subseteq Owing'
    BY <1>a DEF StartRefresh, Owing, TypeOK
  <2>2. FetchedDocument' /\ CollectedIsCurrent'
    <3>1. /\ UNCHANGED lists /\ task'[t].pc \notin {"insert", "publish"}
          /\ \A r \in Tasks \ {t} : task'[r] = task[r]
      BY <1>a DEF StartRefresh, At, TypeOK
    <3> QED
      BY <3>1, InFlightFrame
  <2> QED
    BY <1>0, <1>a, <2>1, <2>2, SnapshotFrame DEF StartRefresh
<1>b. ASSUME NEW t \in Tasks, NEW d \in Docs, FetchOk(t, d) PROVE IInv'
  <2>1. Owing \subseteq Owing'
    BY <1>b DEF FetchOk, Owing, TypeOK, TaskStates
  <2>2. FetchedDocument' /\ CollectedIsCurrent'
    BY <1>b, NoDocAssumption DEF FetchOk, TypeOK, TaskStates, BuildSnapshot, Active
  <2> QED
    BY <1>0, <1>b, <2>1, <2>2, SnapshotFrame DEF FetchOk
<1>c. ASSUME NEW t \in Tasks, FetchFails(t) PROVE IInv'
  <2>1. Owing \subseteq Owing'
    BY <1>c DEF FetchFails, Owing, TypeOK
  <2>2. FetchedDocument' /\ CollectedIsCurrent'
    <3>1. /\ UNCHANGED lists /\ task'[t].pc \notin {"insert", "publish"}
          /\ \A r \in Tasks \ {t} : task'[r] = task[r]
      BY <1>c DEF FetchFails, Idle, At, TypeOK
    <3> QED
      BY <3>1, InFlightFrame
  <2> QED
    BY <1>0, <1>c, <2>1, <2>2, SnapshotFrame DEF FetchFails
<1>d. ASSUME NEW t \in Tasks, InsertDocument(t) PROVE IInv'
  <2>1. t \in Owing'
    BY <1>d DEF InsertDocument, Owing, TypeOK, TaskStates
  <2>2. FetchedDocument'
    BY <1>d DEF InsertDocument, TypeOK, TaskStates
  <2>3. CollectedIsCurrent'
    BY <1>d DEF InsertDocument, HoldsReadLock, TypeOK, TaskStates
  <2> QED
    BY <1>0, <2>1, <2>2, <2>3 DEF SnapshotReflectsLists
<1>e. ASSUME NEW t \in Tasks, LockLists(t) PROVE IInv'
  <2>1. Owing \subseteq Owing'
    BY <1>e DEF LockLists, Owing, TypeOK, TaskStates
  <2>2. FetchedDocument' /\ CollectedIsCurrent'
    <3>1. /\ UNCHANGED lists /\ task'[t].pc = "load"
          /\ \A r \in Tasks \ {t} : task'[r] = task[r]
      BY <1>e DEF LockLists, TypeOK, TaskStates
    <3> QED
      BY <3>1, InFlightFrame
  <2> QED
    BY <1>0, <1>e, <2>1, <2>2, SnapshotFrame DEF LockLists
<1>f. ASSUME NEW t \in Tasks, NEW l \in Lists, LoadFlag(t, l) PROVE IInv'
  <2>1. Owing \subseteq Owing'
    BY <1>f DEF LoadFlag, Owing, TypeOK, TaskStates
  <2>2. FetchedDocument' /\ CollectedIsCurrent'
    <3>1. /\ UNCHANGED lists /\ task'[t].pc = "load"
          /\ \A r \in Tasks \ {t} : task'[r] = task[r]
      BY <1>f DEF LoadFlag, TypeOK, TaskStates
    <3> QED
      BY <3>1, InFlightFrame
  <2> QED
    BY <1>0, <1>f, <2>1, <2>2, SnapshotFrame DEF LoadFlag
<1>g. ASSUME NEW t \in Tasks, CollectDomains(t) PROVE IInv'
  <2>1. Owing \subseteq Owing'
    BY <1>g DEF CollectDomains, Owing, TypeOK, TaskStates
  <2>2. FetchedDocument' /\ CollectedIsCurrent'
    <3>1. UNCHANGED lists /\ \A r \in Tasks \ {t} : task'[r] = task[r]
      BY <1>g DEF CollectDomains, TypeOK
    <3>2. /\ task'[t].pc = "publish" /\ task'[t].off = task[t].off
          /\ task'[t].built = BuildSnapshot(lists, task[t].off)
      BY <1>g DEF CollectDomains, TypeOK, TaskStates
    <3>3. FetchedDocument'
      BY <3>1, <3>2
    <3>4. ASSUME NEW r \in Tasks, task'[r].pc = "publish"
          PROVE  task'[r].built = BuildSnapshot(lists, task'[r].off)
      BY <3>1, <3>2, <3>4
    <3> QED
      BY <3>1, <3>3, <3>4 DEF BuildSnapshot, Active
  <2> QED
    BY <1>0, <1>g, <2>1, <2>2, SnapshotFrame DEF CollectDomains
<1>h. ASSUME NEW t \in Tasks, PublishSnapshot(t) PROVE IInv'
  <2>1. snapshot' = BuildSnapshot(lists', task[t].off) /\ task[t].off \in SUBSET Lists
    <3>1. snapshot' = BuildSnapshot(lists, task[t].off) /\ UNCHANGED lists
      BY <1>h DEF PublishSnapshot
    <3> QED
      BY <3>1 DEF TypeOK, TaskStates
  <2>2. FetchedDocument' /\ CollectedIsCurrent'
    <3>1. /\ UNCHANGED lists /\ task'[t].pc \notin {"insert", "publish"}
          /\ \A r \in Tasks \ {t} : task'[r] = task[r]
      BY <1>h DEF PublishSnapshot, Idle, At, TypeOK
    <3> QED
      BY <3>1, InFlightFrame
  <2> QED
    BY <1>0, <2>1, <2>2, Zenon DEF SnapshotReflectsLists
<1>i. ASSUME NEW t \in Tasks, PersistOk(t) PROVE IInv'
  <2>1. Owing \subseteq Owing'
    BY <1>i DEF PersistOk, Owing, TypeOK
  <2>2. FetchedDocument' /\ CollectedIsCurrent'
    <3>1. /\ UNCHANGED lists /\ task'[t].pc \notin {"insert", "publish"}
          /\ \A r \in Tasks \ {t} : task'[r] = task[r]
      BY <1>i DEF PersistOk, Idle, At, TypeOK
    <3> QED
      BY <3>1, InFlightFrame
  <2> QED
    BY <1>0, <1>i, <2>1, <2>2, SnapshotFrame DEF PersistOk
<1>j. ASSUME NEW t \in Tasks, PersistFails(t) PROVE IInv'
  <2>1. Owing \subseteq Owing'
    BY <1>j DEF PersistFails, Owing, TypeOK
  <2>2. FetchedDocument' /\ CollectedIsCurrent'
    <3>1. /\ UNCHANGED lists /\ task'[t].pc \notin {"insert", "publish"}
          /\ \A r \in Tasks \ {t} : task'[r] = task[r]
      BY <1>j DEF PersistFails, Idle, At, TypeOK
    <3> QED
      BY <3>1, InFlightFrame
  <2> QED
    BY <1>0, <1>j, <2>1, <2>2, SnapshotFrame DEF PersistFails
<1>k. ASSUME NEW t \in Tasks, NEW l \in Lists, NEW v \in BOOLEAN, SetDisabled(t, l, v)
      PROVE  IInv'
  <2>1. Owing \subseteq Owing'
    BY <1>k DEF SetDisabled, Owing, TypeOK
  <2>2. FetchedDocument' /\ CollectedIsCurrent'
    <3>1. /\ UNCHANGED lists /\ task'[t].pc \notin {"insert", "publish"}
          /\ \A r \in Tasks \ {t} : task'[r] = task[r]
      BY <1>k DEF SetDisabled, At, TypeOK
    <3> QED
      BY <3>1, InFlightFrame
  <2> QED
    BY <1>0, <1>k, <2>1, <2>2, SnapshotFrame DEF SetDisabled
<1>l. ASSUME NEW readable \in SUBSET Lists, Restart(readable) PROVE IInv'
  <2>1. snapshot' = BuildSnapshot(lists', {})
    BY <1>l, RestartSnapshot
  <2>2. FetchedDocument' /\ CollectedIsCurrent'
    BY <1>l DEF Restart, AllIdle, Idle, At
  <2> QED
    BY <1>0, <2>1, <2>2 DEF SnapshotReflectsLists
<1>m. CASE UNCHANGED vars
  BY <1>0, <1>m, SnapshotFrame DEF vars, Owing, BuildSnapshot, Active
<1>t. ASSUME NEW t \in Tasks, TaskStep(t) PROVE IInv'
  <2>1. CASE \E l \in Lists : StartRefresh(t, l) \/ disable_list(t, l) \/ enable_list(t, l)
    BY <1>a, <1>k, <2>1, Zenon DEF disable_list, enable_list
  <2>2. CASE Fetch(t) \/ Persist(t)
    BY <1>b, <1>c, <1>i, <1>j, <2>2, Zenon DEF Fetch, Persist
  <2>3. CASE Rebuild(t)
    BY <1>e, <1>f, <1>g, <1>h, <2>3, Zenon DEF Rebuild
  <2> QED
    BY <1>d, <1>t, <2>1, <2>2, <2>3, Zenon DEF TaskStep
<1> QED
  BY <1>l, <1>m, <1>t, Zenon DEF Next

(* However refreshes, enables, disables and restarts interleave, once every *)
(* inserted document has been followed by its rebuild the snapshot is built *)
(* from exactly the documents in memory.                                    *)
THEOREM SnapshotCorrect == Spec => []SnapshotReflectsLists
<1>1. IInv => SnapshotReflectsLists
  BY DEF IInv
<1> QED
  BY <1>1, InitIInv, NextIInv, PTL DEF Spec

(* And so every query is then decided as those documents say.               *)
THEOREM DecisionsCorrect == Spec => []DecisionsFollowLists
<1>1. SnapshotReflectsLists => DecisionsFollowLists
  BY DecideIsVerdict DEF SnapshotReflectsLists, DecisionsFollowLists
<1> QED
  BY <1>1, SnapshotCorrect, PTL

-----------------------------------------------------------------------------
(* The flags.  Two enables or disables at the same time may leave a        *)
(* snapshot behind that neither of them asked for: a rebuild that loaded   *)
(* the flags before the last change can publish after the one that loaded  *)
(* them after it.  What follows is about executions in which no flag       *)
(* changes while a rebuild is under way.                                   *)

FlagsChangeBetweenRebuilds == [][\A t \in Tasks : ~HoldsReadLock(t)']_disabled

Disabled == {l \in Lists : disabled[l]}

(* What a rebuild has loaded is what the flags say now.                    *)
LoadedIsCurrent ==
  \A t \in Tasks :
    /\ task[t].off = {l \in task[t].loaded : disabled[l]}
    /\ task[t].pc \notin {"load", "publish"} => task[t].loaded = {}
    /\ task[t].pc = "publish" => task[t].loaded = Lists

(* Unless a rebuild is still to come, the snapshot is that of the map and  *)
(* the flags.                                                              *)
SnapshotIsExact ==
  (\A t \in Tasks : task[t].pc \notin {"lock", "load", "publish"}) =>
     snapshot = BuildSnapshot(lists, Disabled)

FlagInv == LoadedIsCurrent /\ SnapshotIsExact

LEMMA FlagInit == ASSUME Init PROVE FlagInv
<1>1. LoadedIsCurrent
  BY DEF Init, AllIdle, Idle, At, LoadedIsCurrent
<1>2. Disabled = {}
  BY DEF Init, Disabled
<1>3. snapshot = BuildSnapshot(lists, {})
  BY BuildSnapshotEmpty DEF Init
<1> QED
  BY <1>1, <1>2, <1>3 DEF FlagInv, SnapshotIsExact

(* A step of one task outside of rebuild_snapshot that leaves the flags    *)
(* alone keeps what is known of the flags loaded by the others.            *)
LEMMA LoadedFrame ==
  ASSUME LoadedIsCurrent, UNCHANGED disabled, NEW t \in Tasks,
         \A r \in Tasks \ {t} : task'[r] = task[r],
         task'[t].loaded = {}, task'[t].off = {}, task'[t].pc \notin {"load", "publish"}
  PROVE  LoadedIsCurrent'
<1>1. ASSUME NEW r \in Tasks \ {t}
      PROVE  /\ task'[r].off = {l \in task'[r].loaded : disabled'[l]}
             /\ task'[r].pc \notin {"load", "publish"} => task'[r].loaded = {}
             /\ task'[r].pc = "publish" => task'[r].loaded = Lists
  BY DEF LoadedIsCurrent
<1>2. /\ task'[t].off = {l \in task'[t].loaded : disabled'[l]}
      /\ task'[t].pc \notin {"load", "publish"} => task'[t].loaded = {}
      /\ task'[t].pc = "publish" => task'[t].loaded = Lists
  OBVIOUS
<1> QED
  BY <1>1, <1>2 DEF LoadedIsCurrent

(* A step that leaves the map, the flags and the snapshot alone, and does  *)
(* not end a rebuild.                                                      *)
LEMMA ExactFrame ==
  ASSUME SnapshotIsExact, UNCHANGED <<lists, disabled, snapshot>>, NEW t \in Tasks,
         \A r \in Tasks \ {t} : task'[r] = task[r],
         \/ task[t].pc \notin {"lock", "load", "publish"}
         \/ task'[t].pc \in {"lock", "load", "publish"}
  PROVE  SnapshotIsExact'
<1> SUFFICES ASSUME \A r \in Tasks : task'[r].pc \notin {"lock", "load", "publish"}
             PROVE  snapshot' = BuildSnapshot(lists, Disabled)'
  BY DEF SnapshotIsExact
<1>1. \A r \in Tasks : task[r].pc \notin {"lock", "load", "publish"}
  OBVIOUS
<1>2. snapshot = BuildSnapshot(lists, Disabled)
  BY <1>1 DEF SnapshotIsExact
<1> QED
  BY <1>2 DEF Disabled, BuildSnapshot, Active

LEMMA FlagStep ==
  ASSUME IInv, FlagInv, [Next]_vars, [\A t \in Tasks : ~HoldsReadLock(t)']_disabled
  PROVE  FlagInv'
<1> USE DEF FlagInv
<1>0. TypeOK /\ LoadedIsCurrent /\ SnapshotIsExact
  BY DEF IInv
<1>a. ASSUME NEW t \in Tasks, NEW l \in Lists, StartRefresh(t, l) PROVE FlagInv'
  <2>1. /\ UNCHANGED <<lists, disabled, snapshot>> /\ task[t].pc = "idle"
        /\ task'[t] = At("fetch", l, NoDoc) /\ \A r \in Tasks \ {t} : task'[r] = task[r]
    BY <1>a DEF StartRefresh, IInv, TypeOK
  <2> QED
    BY <2>1, LoadedFrame, ExactFrame DEF At
<1>b. ASSUME NEW t \in Tasks, NEW d \in Docs, FetchOk(t, d) PROVE FlagInv'
  <2>1. /\ UNCHANGED <<lists, disabled, snapshot>> /\ task[t].pc = "fetch"
        /\ task'[t].pc = "insert" /\ \A r \in Tasks \ {t} : task'[r] = task[r]
        /\ task'[t].loaded = task[t].loaded /\ task'[t].off = task[t].off
    BY <1>0, <1>b DEF FetchOk, TypeOK, TaskStates
  <2>2. task[t].loaded = {} /\ task[t].off = {}
    BY <2>1 DEF LoadedIsCurrent
  <2> QED
    BY <2>1, <2>2, LoadedFrame, ExactFrame
<1>c. ASSUME NEW t \in Tasks, FetchFails(t) \/ PersistOk(t) \/ PersistFails(t) PROVE FlagInv'
  <2>1. /\ UNCHANGED <<lists, disabled, snapshot>> /\ task[t].pc \in {"fetch", "persist"}
        /\ task'[t] = Idle /\ \A r \in Tasks \ {t} : task'[r] = task[r]
    BY <1>c DEF FetchFails, PersistOk, PersistFails, IInv, TypeOK
  <2> QED
    BY <2>1, LoadedFrame, ExactFrame DEF Idle, At
<1>d. ASSUME NEW t \in Tasks, InsertDocument(t) PROVE FlagInv'
  <2>1. /\ UNCHANGED <<disabled, snapshot>> /\ task[t].pc = "insert"
        /\ task'[t].pc = "lock" /\ \A r \in Tasks \ {t} : task'[r] = task[r]
        /\ task'[t].loaded = task[t].loaded /\ task'[t].off = task[t].off
    BY <1>0, <1>d DEF InsertDocument, TypeOK, TaskStates
  <2>2. task[t].loaded = {} /\ task[t].off = {}
    BY <2>1 DEF LoadedIsCurrent
  <2>3. SnapshotIsExact'
    BY <2>1 DEF SnapshotIsExact
  <2> QED
    BY <2>1, <2>2, <2>3, LoadedFrame
<1>e. ASSUME NEW t \in Tasks, LockLists(t) PROVE FlagInv'
  <2>1. /\ UNCHANGED <<lists, disabled, snapshot>> /\ task[t].pc = "lock"
        /\ task'[t].pc = "load" /\ \A r \in Tasks \ {t} : task'[r] = task[r]
        /\ task'[t].loaded = task[t].loaded /\ task'[t].off = task[t].off
    BY <1>0, <1>e DEF LockLists, TypeOK, TaskStates
  <2>2. LoadedIsCurrent'
    BY <2>1 DEF LoadedIsCurrent
  <2> QED
    BY <2>1, <2>2, ExactFrame
<1>f. ASSUME NEW t \in Tasks, NEW l \in Lists, LoadFlag(t, l) PROVE FlagInv'
  <2>1. /\ UNCHANGED <<lists, disabled, snapshot>> /\ task[t].pc = "load"
        /\ task'[t].pc = "load" /\ \A r \in Tasks \ {t} : task'[r] = task[r]
        /\ task'[t].loaded = task[t].loaded \cup {l}
        /\ task'[t].off = task[t].off \cup {k \in {l} : disabled[k]}
    BY <1>0, <1>f DEF LoadFlag, TypeOK, TaskStates
  <2>2. task'[t].off = {k \in task'[t].loaded : disabled[k]}
    BY <2>1 DEF LoadedIsCurrent
  <2>3. LoadedIsCurrent'
    BY <2>1, <2>2 DEF LoadedIsCurrent
  <2> QED
    BY <2>1, <2>3, ExactFrame
<1>g. ASSUME NEW t \in Tasks, CollectDomains(t) PROVE FlagInv'
  <2>1. /\ UNCHANGED <<lists, disabled, snapshot>> /\ task[t].pc = "load" /\ task[t].loaded = Lists
        /\ task'[t].pc = "publish" /\ \A r \in Tasks \ {t} : task'[r] = task[r]
        /\ task'[t].loaded = task[t].loaded /\ task'[t].off = task[t].off
    BY <1>0, <1>g DEF CollectDomains, TypeOK, TaskStates
  <2>2. LoadedIsCurrent'
    BY <2>1 DEF LoadedIsCurrent
  <2> QED
    BY <2>1, <2>2, ExactFrame
<1>h. ASSUME NEW t \in Tasks, PublishSnapshot(t) PROVE FlagInv'
  <2>1. /\ UNCHANGED <<lists, disabled>> /\ task[t].pc = "publish" /\ snapshot' = task[t].built
        /\ task'[t] \in {Idle, At("persist", task[t].list, task[t].doc)}
        /\ \A r \in Tasks \ {t} : task'[r] = task[r]
    BY <1>h DEF PublishSnapshot, IInv, TypeOK
  <2>2. task[t].off = Disabled /\ task[t].built = BuildSnapshot(lists, task[t].off)
    BY <2>1 DEF LoadedIsCurrent, Disabled, IInv, CollectedIsCurrent
  <2>3. snapshot' = BuildSnapshot(lists, Disabled)'
    BY <2>1, <2>2 DEF Disabled, BuildSnapshot, Active
  <2> QED
    BY <2>1, <2>3, LoadedFrame DEF Idle, At, SnapshotIsExact
<1>k. ASSUME NEW t \in Tasks, NEW l \in Lists, NEW v \in BOOLEAN, SetDisabled(t, l, v)
      PROVE  FlagInv'
  <2>1. /\ task[t].pc = "idle" /\ task'[t] = At("lock", l, NoDoc)
        /\ \A r \in Tasks \ {t} : task'[r] = task[r]
    BY <1>k DEF SetDisabled, IInv, TypeOK
  <2>2. SnapshotIsExact'
    BY <2>1 DEF SnapshotIsExact, At
  <2>3. CASE UNCHANGED disabled
    BY <2>1, <2>2, <2>3, LoadedFrame DEF At
  <2>4. CASE \A r \in Tasks : ~HoldsReadLock(r)'
    <3>1. \A r \in Tasks : task'[r].loaded = {} /\ task'[r].off = {}
      BY <2>1, <2>4 DEF HoldsReadLock, LoadedIsCurrent, At
    <3> QED
      BY <2>2, <2>4, <3>1 DEF HoldsReadLock, LoadedIsCurrent
  <2> QED
    BY <2>3, <2>4
<1>l. ASSUME NEW readable \in SUBSET Lists, Restart(readable) PROVE FlagInv'
  <2>1. LoadedIsCurrent'
    BY <1>l DEF Restart, AllIdle, Idle, At, LoadedIsCurrent
  <2>2. Disabled' = {}
    BY <1>l DEF Restart, Disabled
  <2>3. snapshot' = BuildSnapshot(lists', {})
    BY <1>l, RestartSnapshot
  <2> QED
    BY <2>1, <2>2, <2>3 DEF SnapshotIsExact, BuildSnapshot, Active
<1>m. CASE UNCHANGED vars
  BY <1>m DEF vars, LoadedIsCurrent, SnapshotIsExact, Disabled, BuildSnapshot, Active
<1>t. ASSUME NEW t \in Tasks, TaskStep(t) PROVE FlagInv'
  <2>1. CASE \E l \in Lists : StartRefresh(t, l) \/ disable_list(t, l) \/ enable_list(t, l)
    BY <1>a, <1>k, <2>1, Zenon DEF disable_list, enable_list
  <2>2. CASE Fetch(t) \/ Persist(t)
    BY <1>b, <1>c, <2>2, Zenon DEF Fetch, Persist
  <2>3. CASE Rebuild(t)
    BY <1>e, <1>f, <1>g, <1>h, <2>3, Zenon DEF Rebuild
  <2> QED
    BY <1>d, <1>t, <2>1, <2>2, <2>3, Zenon DEF TaskStep
<1> QED
  BY <1>l, <1>m, <1>t, Zenon DEF Next

LEMMA ExactDecisions == ASSUME SnapshotIsExact PROVE DisableTakesEffect
<1> SUFFICES ASSUME \A t \in Tasks : task[t].pc \in {"idle", "fetch"}, NEW domain \in Domains
             PROVE  decide(snapshot, domain) = Verdict(lists, {l \in Lists : disabled[l]}, domain)
  BY DEF DisableTakesEffect
<1>1. snapshot = BuildSnapshot(lists, Disabled)
  BY DEF SnapshotIsExact
<1> QED
  BY <1>1, DecideIsVerdict DEF Disabled

(* enable_list and disable_list take effect, whatever the other calls do   *)
(* meanwhile, as long as no flag changes during a rebuild.                 *)
THEOREM DisableWorks == Spec /\ FlagsChangeBetweenRebuilds => []DisableTakesEffect
<1>1. FlagInv => DisableTakesEffect
  BY ExactDecisions DEF FlagInv
<1> QED
  BY <1>1, InitIInv, NextIInv, FlagInit, FlagStep, PTL DEF Spec, FlagsChangeBetweenRebuilds

\* One call at a time never changes a flag during a rebuild.
LEMMA AloneBetweenRebuilds ==
  ASSUME \A t, r \in Tasks : t = r, TypeOK, [Next]_vars
  PROVE  [\A t \in Tasks : ~HoldsReadLock(t)']_disabled
<1>1. ASSUME NEW t \in Tasks, NEW l \in Lists, NEW v \in BOOLEAN, SetDisabled(t, l, v)
      PROVE  \A r \in Tasks : ~HoldsReadLock(r)'
  <2>1. task'[t].pc = "lock"
    BY <1>1 DEF SetDisabled, At, TypeOK
  <2> QED
    BY <2>1 DEF HoldsReadLock
<1>2. ASSUME NEW readable \in SUBSET Lists, Restart(readable)
      PROVE  \A r \in Tasks : ~HoldsReadLock(r)'
  BY <1>2 DEF Restart, AllIdle, Idle, At, HoldsReadLock
<1>3. ASSUME NEW t \in Tasks,
             Fetch(t) \/ InsertDocument(t) \/ Rebuild(t) \/ Persist(t) \/ \E l \in Lists : StartRefresh(t, l)
      PROVE  UNCHANGED disabled
  BY <1>3, Zenon DEF Fetch, FetchFails, FetchOk, InsertDocument, Rebuild, LockLists, LoadFlag,
     CollectDomains, PublishSnapshot, Persist, PersistOk, PersistFails, StartRefresh
<1>4. CASE UNCHANGED vars
  BY <1>4 DEF vars
<1> QED
  BY <1>1, <1>2, <1>3, <1>4, Zenon DEF Next, TaskStep, disable_list, enable_list

(* So they always do when calls come one at a time.                        *)
THEOREM DisableWorksAlone ==
  ASSUME \A t, r \in Tasks : t = r
  PROVE  Spec => []DisableTakesEffect
<1>1. TypeOK /\ [Next]_vars => [\A t \in Tasks : ~HoldsReadLock(t)']_disabled
  BY AloneBetweenRebuilds
<1> QED
  BY <1>1, TypeCorrect, DisableWorks, PTL DEF Spec, FlagsChangeBetweenRebuilds

-----------------------------------------------------------------------------
(* Queries.                                                                *)

\* The block lists in force that name the domain.
Naming(domain) ==
  {l \in Lists : Kind[l] = "Block" /\ ~disabled[l] /\ lists[l] # NoDoc /\ Names(l, domain)}

QueryStates ==
  [pc: {"idle", "flags", "blocked"}, domain: Domains \cup {CHOOSE d \in Domains : TRUE},
   loaded: SUBSET Lists, off: SUBSET Lists, by: SUBSET Lists, steady: BOOLEAN]

(* While the engine is left alone after a decision, it is still the one    *)
(* that the snapshot says, and the flags loaded for the attribution and    *)
(* the lists found are those in force.                                     *)
QueryInv ==
  /\ query \in QueryStates
  /\ query.steady =>
       /\ Steady
       /\ decide(snapshot, query.domain) = "Block"
       /\ query.off = {l \in query.loaded : disabled[l]}
       /\ query.pc = "blocked" => query.by = Naming(query.domain)

\* A blocked name is named by a list in force.
LEMMA BlockedIsNamed ==
  ASSUME NEW domain, decide(snapshot, domain) = "Block", snapshot = BuildSnapshot(lists, Disabled)
  PROVE  Naming(domain) # {}
<1>1. matches_any(BuildSnapshot(lists, Disabled).blocked, domain)
  BY DEF decide
<1>2. PICK i \in 1..Len(domain) : SubSeq(domain, i, Len(domain)) \in BuildSnapshot(lists, Disabled).blocked
  BY <1>1 DEF matches_any
<1>3. PICK l \in Active(lists, Disabled) :
        Kind[l] = "Block" /\ SubSeq(domain, i, Len(domain)) \in lists[l].domains
  BY <1>2 DEF BuildSnapshot
<1> QED
  BY <1>3 DEF Naming, Names, matches_any, Active, Disabled

\* A step between two states without a rebuild changes nothing that is read.
LEMMA SteadyStep ==
  ASSUME TypeOK, NEW t \in Tasks, TaskStep(t), Steady, Steady'
  PROVE  UNCHANGED <<lists, disabled, snapshot>>
<1>1. task[t].pc \in {"idle", "fetch"} /\ task'[t].pc \in {"idle", "fetch"}
  BY DEF Steady
<1>2. ~InsertDocument(t) /\ ~Rebuild(t) /\ ~Persist(t)
  <2>1. Rebuild(t) \/ Persist(t) \/ InsertDocument(t) =>
          task[t].pc \in {"insert", "lock", "load", "publish", "persist"}
    BY Zenon DEF InsertDocument, Rebuild, LockLists, LoadFlag, CollectDomains, PublishSnapshot,
       Persist, PersistOk, PersistFails
  <2> QED
    BY <1>1, <2>1
<1>3. ASSUME NEW l \in Lists, NEW v \in BOOLEAN, SetDisabled(t, l, v) PROVE FALSE
  BY <1>1, <1>3 DEF SetDisabled, At, TypeOK
<1>4. \/ \E l \in Lists : StartRefresh(t, l)
      \/ Fetch(t)
  BY <1>2, <1>3, Zenon DEF TaskStep, disable_list, enable_list
<1> QED
  BY <1>4, Zenon DEF StartRefresh, Fetch, FetchOk, FetchFails

LEMMA IdleQueryInv == ASSUME query = IdleQuery PROVE QueryInv
<1>1. query \in QueryStates /\ query.steady = FALSE
  BY DEF IdleQuery, QueryStates
<1> QED
  BY <1>1 DEF QueryInv

LEMMA QueryStep ==
  ASSUME TypeOK, QueryInv, [QNext]_qvars
  PROVE  QueryInv'
<1>0. query \in QueryStates
  BY DEF QueryInv
<1>1. ASSUME NEW d \in Domains, HandleQuery(d) PROVE QueryInv'
  <2>1. /\ query' = [IdleQuery EXCEPT !.pc = "flags", !.domain = d, !.steady = Steady]
        /\ UNCHANGED <<lists, disabled, snapshot, task>> /\ decide(snapshot, d) = "Block"
    BY <1>1, Zenon DEF HandleQuery, vars
  <2>2. Steady \in BOOLEAN
    BY DEF Steady
  <2>3. /\ query' \in QueryStates /\ query'.steady = Steady /\ query'.pc = "flags" /\ query'.domain = d
        /\ query'.loaded = {} /\ query'.off = {}
    <3> DEFINE idle == IdleQuery
               b == Steady
               next == [idle EXCEPT !.pc = "flags", !.domain = d, !.steady = b]
    <3>1. idle \in QueryStates /\ idle.loaded = {} /\ idle.off = {}
      BY DEF IdleQuery, QueryStates
    <3>2. b \in BOOLEAN /\ query' = next
      BY <2>1, <2>2
    <3> HIDE DEF idle, b
    <3>3. next.pc = "flags" /\ next.loaded = {} /\ next.off = {}
      BY <3>1 DEF QueryStates
    <3>4. next.domain = d
      BY <3>1 DEF QueryStates
    <3>5. next.steady = b
      BY <3>1 DEF QueryStates
    <3>6. next \in QueryStates
      <4> DEFINE one == [idle EXCEPT !.pc = "flags"]
                 two == [one EXCEPT !.domain = d]
      <4>1. one \in QueryStates
        BY <3>1, Zenon DEF QueryStates
      <4> HIDE DEF one
      <4>2. two \in QueryStates
        BY <4>1, Zenon DEF QueryStates
      <4> HIDE DEF two
      <4>3. [two EXCEPT !.steady = b] \in QueryStates
        BY <3>2, <4>2, Zenon DEF QueryStates
      <4> QED
        BY <4>3 DEF one, two
    <3> HIDE DEF next
    <3> QED
      BY <3>2, <3>3, <3>4, <3>5, <3>6 DEF b
  <2>4. decide(snapshot', query'.domain) = "Block" /\ query'.pc # "blocked"
        /\ query'.off = {k \in query'.loaded : disabled'[k]}
    BY <2>1, <2>3
  <2>5. Steady' = Steady
    BY <2>1 DEF Steady
  <2> QED
    BY <2>3, <2>4, <2>5, Zenon DEF QueryInv
<1>2. ASSUME NEW l \in Lists, LoadQueryFlag(l) PROVE QueryInv'
  <2>1. /\ query' = [query EXCEPT !.loaded = query.loaded \cup {l},
                                  !.off = query.off \cup {k \in {l} : disabled[k]}]
        /\ query.pc = "flags"
        /\ UNCHANGED <<lists, disabled, snapshot, task>>
    BY <1>2 DEF LoadQueryFlag, vars
  <2>2. /\ query' \in QueryStates
        /\ query'.domain = query.domain /\ query'.pc = "flags" /\ query'.steady = query.steady
        /\ query'.loaded = query.loaded \cup {l}
        /\ query'.off = query.off \cup {k \in {l} : disabled[k]}
    <3> DEFINE loaded == query.loaded \cup {l}
               off == query.off \cup {k \in {l} : disabled[k]}
    <3>1. loaded \in SUBSET Lists /\ off \in SUBSET Lists
      BY <1>0 DEF QueryStates
    <3>2. query' = [query EXCEPT !.loaded = loaded, !.off = off]
      BY <2>1, Zenon
    <3> HIDE DEF loaded, off
    <3> DEFINE next == [query EXCEPT !.loaded = loaded, !.off = off]
    <3>3. next \in QueryStates
      BY <1>0, <3>1, Zenon DEF QueryStates
    <3>4. next.loaded = loaded /\ next.off = off /\ next.pc = query.pc /\ next.domain = query.domain
      BY <1>0 DEF QueryStates
    <3>5. next.steady = query.steady
      BY <1>0 DEF QueryStates
    <3>6. query' = next
      BY <3>2
    <3> HIDE DEF next
    <3> QED
      BY <2>1, <3>3, <3>4, <3>5, <3>6, Zenon DEF loaded, off
  <2>3. ASSUME query.steady
        PROVE  Steady' /\ decide(snapshot', query'.domain) = "Block"
               /\ query'.off = {k \in query'.loaded : disabled'[k]}
    <3>1. query.off = {k \in query.loaded : disabled[k]} /\ Steady /\ decide(snapshot, query.domain) = "Block"
      BY <2>3 DEF QueryInv
    <3> QED
      BY <2>1, <2>2, <3>1 DEF Steady
  <2>4. query'.pc # "blocked"
    BY <2>2
  <2> QED
    BY <2>2, <2>3, <2>4, Zenon DEF QueryInv
<1>3. ASSUME blocked_by PROVE QueryInv'
  <2> DEFINE by == {l \in Lists \ query.off : Kind[l] = "Block" /\ lists[l] # NoDoc /\ Names(l, query.domain)}
  <2>1. /\ query' = [query EXCEPT !.pc = "blocked", !.by = by] /\ query.loaded = Lists
        /\ UNCHANGED <<lists, disabled, snapshot, task>>
    BY <1>3 DEF blocked_by, vars
  <2>2. by \in SUBSET Lists
    OBVIOUS
  <2> HIDE DEF by
  <2>3. /\ query' \in QueryStates /\ query'.by = by
        /\ query'.domain = query.domain /\ query'.steady = query.steady
        /\ query'.loaded = query.loaded /\ query'.off = query.off
    <3> DEFINE next == [query EXCEPT !.pc = "blocked", !.by = by]
    <3>1. next \in QueryStates
      BY <1>0, <2>2, Zenon DEF QueryStates
    <3>2. next.by = by /\ next.loaded = query.loaded /\ next.off = query.off /\ next.domain = query.domain
      BY <1>0 DEF QueryStates
    <3>3. next.steady = query.steady
      BY <1>0 DEF QueryStates
    <3>4. query' = next
      BY <2>1
    <3> HIDE DEF next
    <3> QED
      BY <3>1, <3>2, <3>3, <3>4, Zenon
  <2>4. ASSUME query.steady
        PROVE  /\ Steady' /\ decide(snapshot', query'.domain) = "Block"
               /\ query'.off = {k \in query'.loaded : disabled'[k]}
               /\ query'.by = Naming(query.domain)
    <3>1. query.off = {k \in query.loaded : disabled[k]} /\ Steady /\ decide(snapshot, query.domain) = "Block"
      BY <2>4 DEF QueryInv
    <3>2. by = Naming(query.domain)
      BY <2>1, <3>1 DEF by, Naming
    <3> QED
      BY <2>1, <2>3, <3>1, <3>2 DEF Steady
  <2>5. Naming(query.domain)' = Naming(query.domain)
    BY <2>1, <2>3 DEF Naming, Names
  <2> QED
    BY <2>3, <2>4, <2>5, Zenon DEF QueryInv
<1>4. ASSUME RecordHits \/ \E readable \in SUBSET Lists : QRestart(readable) PROVE QueryInv'
  <2>1. query' = IdleQuery'
    BY <1>4 DEF RecordHits, QRestart, IdleQuery
  <2>2. query' \in QueryStates /\ query'.steady = FALSE
    BY <2>1 DEF IdleQuery, QueryStates
  <2> QED
    BY <2>2 DEF QueryInv
<1>5. ASSUME NEW t \in Tasks, Engine(t) PROVE QueryInv'
  <2>1. query' = [query EXCEPT !.steady = query.steady /\ Steady'] /\ TaskStep(t)
    BY <1>5 DEF Engine
  <2>2. /\ query' \in QueryStates /\ query'.steady = (query.steady /\ Steady')
        /\ query'.domain = query.domain /\ query'.pc = query.pc /\ query'.by = query.by
        /\ query'.loaded = query.loaded /\ query'.off = query.off
    <3>1. (query.steady /\ Steady') \in BOOLEAN
      OBVIOUS
    <3> QED
      <4> DEFINE b == query.steady /\ Steady'
                 next == [query EXCEPT !.steady = b]
      <4>1. b \in BOOLEAN /\ query' = next
        BY <2>1, <3>1
      <4> HIDE DEF b
      <4>2. next \in QueryStates
        BY <1>0, <4>1, Zenon DEF QueryStates
      <4>3. /\ next.by = query.by /\ next.loaded = query.loaded /\ next.off = query.off
            /\ next.domain = query.domain /\ next.pc = query.pc
        BY <1>0 DEF QueryStates
      <4>4. next.steady = b
        BY <1>0 DEF QueryStates
      <4> HIDE DEF next
      <4> QED
        BY <4>1, <4>2, <4>3, <4>4, Zenon DEF b
  <2>3. ASSUME query.steady, Steady'
        PROVE  /\ decide(snapshot', query'.domain) = "Block"
               /\ query'.off = {k \in query'.loaded : disabled'[k]}
               /\ query'.pc = "blocked" => query'.by = Naming(query.domain)'
    <3>1. /\ Steady /\ query.off = {k \in query.loaded : disabled[k]}
          /\ decide(snapshot, query.domain) = "Block"
          /\ query.pc = "blocked" => query.by = Naming(query.domain)
      BY <2>3 DEF QueryInv
    <3>2. UNCHANGED <<lists, disabled, snapshot>>
      BY <2>1, <2>3, <3>1, SteadyStep
    <3>3. Naming(query.domain)' = Naming(query.domain)
      BY <2>2, <3>2 DEF Naming, Names
    <3> QED
      BY <2>2, <3>1, <3>2, <3>3
  <2> QED
    BY <2>2, <2>3, Zenon DEF QueryInv
<1>6. CASE UNCHANGED qvars
  BY <1>6 DEF qvars, vars, QueryInv, Steady, Naming, Names
<1> QED
  BY <1>1, <1>2, <1>3, <1>4, <1>5, <1>6, Zenon DEF QNext

LEMMA AttributionShown == ASSUME FlagInv, QueryInv PROVE SteadyAttribution
<1> SUFFICES ASSUME query.pc = "blocked", query.steady
             PROVE  /\ query.by # {}
                    /\ query.by = {l \in Lists : /\ Kind[l] = "Block" /\ ~disabled[l] /\ lists[l] # NoDoc
                                                 /\ \E e \in lists[l].domains : \E i \in 1..Len(query.domain) :
                                                      e = SubSeq(query.domain, i, Len(query.domain))}
  BY DEF SteadyAttribution
<1>1. Steady /\ decide(snapshot, query.domain) = "Block" /\ query.by = Naming(query.domain)
  BY DEF QueryInv
<1>2. snapshot = BuildSnapshot(lists, Disabled)
  BY <1>1 DEF FlagInv, SnapshotIsExact, Steady
<1>3. query.by # {}
  BY <1>1, <1>2, BlockedIsNamed
<1>4. \A l \in Lists : Names(l, query.domain) <=>
        \E e \in lists[l].domains : \E i \in 1..Len(query.domain) :
          e = SubSeq(query.domain, i, Len(query.domain))
  BY Zenon DEF Names, matches_any
<1> QED
  BY <1>1, <1>3, <1>4 DEF Naming

\* Queries read the engine and change nothing of it.
LEMMA QueriesOnlyRead == ASSUME [QNext]_qvars PROVE [Next]_vars
  BY Zenon DEF QNext, qvars, HandleQuery, LoadQueryFlag, blocked_by, RecordHits, Engine, QRestart, Next

LEMMA QInitInv == ASSUME QInit PROVE Init /\ QueryInv
  BY IdleQueryInv DEF QInit

(* A blocked query is attributed to the lists that blocked it, all of them *)
(* and at least one, if the engine is left alone between the decision and  *)
(* its attribution, whatever calls came before (but no flag was changed    *)
(* during a rebuild).                                                      *)
THEOREM AttributionCorrect == QSpec /\ FlagsChangeBetweenRebuilds => []SteadyAttribution
<1>1. IInv => TypeOK
  BY DEF IInv
<1> QED
  BY <1>1, QInitInv, InitIInv, NextIInv, FlagInit, FlagStep, QueryStep, QueriesOnlyRead,
     AttributionShown, PTL DEF QSpec, FlagsChangeBetweenRebuilds

(* The same when calls come one at a time.                                 *)
THEOREM AttributionCorrectAlone ==
  ASSUME \A t, r \in Tasks : t = r
  PROVE  QSpec => []SteadyAttribution
<1>1. TypeOK /\ [Next]_vars => [\A t \in Tasks : ~HoldsReadLock(t)']_disabled
  BY AloneBetweenRebuilds
<1> QED
  BY <1>1, QInitInv, QueriesOnlyRead, TypeCorrect, AttributionCorrect, PTL
     DEF QSpec, Spec, FlagsChangeBetweenRebuilds
=============================================================================
