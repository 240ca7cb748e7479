--------------------------- MODULE ConfigReload ---------------------------
(***************************************************************************)
(* The configuration database and the pipeline served from it:             *)
(* src/use_cases/server_operations.rs (the calls that change the           *)
(* database), src/frameworks/database/*_repo.rs (their statements),        *)
(* src/use_cases/config_from_db.rs and reload.rs (reading it back),        *)
(* src/use_cases/config_bootstrap.rs (building from it) and the reload     *)
(* task and start-up of src/main.rs.                                       *)
(*                                                                         *)
(* Calls run concurrently.  Every call is several database statements with *)
(* an await after each, and no transaction around them; a call that        *)
(* changed something ends by sending on a bounded channel.  One task       *)
(* receives from the channel, reads the tables one query after another,    *)
(* builds a pipeline from what it read and swaps it in.                    *)
(*                                                                         *)
(* The rows of three tables have rows of a second table under them: a zone *)
(* its zone_servers, the resolver settings their bootstrap_resolvers and a *)
(* discovery source its allowed types.  They are called its parts.         *)
(***************************************************************************)
EXTENDS Naturals, FiniteSets

CONSTANTS
  Lists, Settings, Upstreams, Zones, Sources,  \* keys of the rows, by table
  Ids,          \* row ids (UUIDs)
  Vals,         \* what a row or a part says, apart from a row's enabled flag
  Good,         \* the values the builders accept
  Rejected,     \* the zone servers that validate_protocol refuses
  Disabled,     \* the zone servers that are not enabled
  Json,         \* the zone servers that name a JSON source
  Named,        \* dot and doh servers: bootstrap resolvers look up their names
  PartLists,    \* the parts a call may give
  Seeds,        \* the databases the daemon may have started on
  NoRow, Absent,
  Targets,      \* the keys that the calls are about
  Calls,        \* concurrent API and MCP calls
  Capacity,     \* of the reload channel; 4 in the code
  Faults        \* which of "disconnect", "database", "source" may happen

Key == Lists \cup Settings \cup Upstreams \cup Zones \cup Sources

\* How many parts there are of each value; their order is left out.
Parts == [Vals -> Nat]

NoParts == [v \in Vals |-> 0]

Row == [id: Ids, on: BOOLEAN, val: Vals, parts: Parts]

\* What the builders take from a key's row: nothing when it is disabled.
Items == [val: Vals, parts: Parts]

ASSUME ValsAssumption == Good \subseteq Vals /\ Rejected \subseteq Vals
ASSUME PartsAssumption == PartLists \subseteq Parts
ASSUME UpstreamsAssumption == Upstreams # {}
ASSUME TargetsAssumption == Targets \subseteq Key
ASSUME CapacityAssumption == Capacity \in Nat \ {0}
ASSUME NoneAssumption == NoRow \notin Row /\ Absent \notin Items

VARIABLES
  rows,    \* rows[k]: the row of key k with its parts, or NoRow
  call,    \* call[c]: how far call c has come
  queue,   \* messages in the reload channel
  reload,  \* the reload task: how far it is and the rows it has read
  served,  \* the configuration the current pipeline was built from
  up,      \* the daemon runs; it exits when it cannot build at start
  missed   \* history: since the last reload began, a call that had written gave
           \* up without sending, or the reload failed on a fault from outside

vars == <<rows, call, queue, reload, served, up, missed>>

CallStates ==
  [pc: {"idle", "insert_row", "read_parts", "update_row", "delete_row", "clear", "insert", "send"},
   key: Key, row: Row \cup {NoRow}, todo: Parts, replace: BOOLEAN]

Reading == {"lists", "settings", "bootstraps", "upstreams", "zones", "servers", "sources", "types"}

ReloadStates ==
  [pc: {"idle", "build"} \cup Reading, rows: [Key -> Row \cup {NoRow}]]

On(r) == r # NoRow /\ r.on

Config(rs) ==
  [k \in Key |-> IF On(rs[k]) THEN [val |-> rs[k].val, parts |-> rs[k].parts] ELSE Absent]

\* The servers of a zone that are built.
Servers(p) == {v \in Vals \ Disabled : p[v] > 0}

\* Mutant: a zone without servers is built.
ZoneBuilds_Empty(p) ==
  /\ Servers(p) \subseteq Good
  /\ Servers(p) \cap Json # {} => \E v \in Vals : Servers(p) = {v} /\ p[v] = 1

\* One JSON source, or any number of other servers.
ZoneBuilds(p) ==
  /\ Servers(p) # {} /\ Servers(p) \subseteq Good
  /\ Servers(p) \cap Json # {} => \E v \in Vals : Servers(p) = {v} /\ p[v] = 1

NeedsBootstrap(rs) ==
  \/ \E u \in Upstreams : On(rs[u]) /\ rs[u].val \in Named
  \/ \E z \in Zones : On(rs[z]) /\ Servers(rs[z].parts) \cap Named # {}

(* build_upstream_resolver, build_domain_filter_with_cache and             *)
(* build_zone_entries succeed.  The interval of a disabled list is parsed  *)
(* all the same.                                                           *)
Buildable(rs) ==
  /\ \E u \in Upstreams : On(rs[u])
  /\ \A k \in Key : On(rs[k]) \/ (k \in Lists /\ rs[k] # NoRow) => rs[k].val \in Good
  /\ \A z \in Zones : On(rs[z]) => ZoneBuilds(rs[z].parts)
  /\ NeedsBootstrap(rs) => \A k \in Settings : On(rs[k]) => rs[k].parts # NoParts

(* A zone served from a JSON source is loaded while building, and a source *)
(* that does not answer fails it.                                          *)
SourceMayFail(rs) ==
  /\ "source" \in Faults
  /\ \E z \in Zones : On(rs[z]) /\ Servers(rs[z].parts) \cap Json # {}

ASSUME SeedsAssumption == \A rs \in Seeds : rs \in [Key -> Row \cup {NoRow}] /\ Buildable(rs)

IdleCall == [pc |-> "idle", key |-> CHOOSE k \in Key : TRUE, row |-> NoRow,
             todo |-> NoParts, replace |-> FALSE]

Sending == [IdleCall EXCEPT !.pc = "send"]

IdleReload == [pc |-> "idle", rows |-> [k \in Key |-> NoRow]]

(* The daemon has started on a seeded database.                            *)
Init ==
  /\ rows \in Seeds
  /\ call = [c \in Calls |-> IdleCall]
  /\ queue = 0
  /\ reload = IdleReload
  /\ served = Config(rows)
  /\ up = TRUE
  /\ missed = FALSE

-----------------------------------------------------------------------------
(* The calls.  A call starts with the query that looks its row up; one     *)
(* that ends there, because the input is invalid, the name is taken or the *)
(* row does not exist, changes nothing and is left out.                    *)

\* Uuid::new_v4: no row, call or reading knows the id.
FreshId(id) ==
  /\ \A k \in Key : (rows[k] # NoRow => rows[k].id # id) /\ (reload.rows[k] # NoRow => reload.rows[k].id # id)
  /\ \A c \in Calls : call[c].row # NoRow => call[c].row.id # id

(* add_filter_list, add_upstream_server, add_zone, add_zone_discovery. The *)
(* key of an upstream or a source is its id, which no other call has.      *)
StartAdd(c, k, id, on, val, todo) ==
  /\ up /\ call[c].pc = "idle"
  /\ rows[k] = NoRow
  /\ k \in Upstreams \cup Sources =>
       \A d \in Calls : call[d].pc = "insert_row" => call[d].key # k
  /\ FreshId(id)
  /\ call' = [call EXCEPT ![c] =
       [pc |-> "insert_row", key |-> k,
        row |-> [id |-> id, on |-> on, val |-> val, parts |-> NoParts],
        todo |-> todo, replace |-> FALSE]]
  /\ UNCHANGED <<rows, queue, reload, served, up, missed>>

(* update_filter_list, update_upstream_server, update_zone,                *)
(* update_zone_discovery, update_resolver_config: the whole row is read,   *)
(* the fields given in the input are replaced, the whole row is written.   *)
(* The last two also write all parts again: at "read_parts" the call has   *)
(* none in its input and reads the present ones with a second query.       *)
StartUpdate(c, pc, k, r, replace, todo) ==
  /\ up /\ call[c].pc = "idle"
  /\ rows[k] # NoRow
  /\ call' = [call EXCEPT ![c] =
       [pc |-> pc, key |-> k, row |-> r, todo |-> todo, replace |-> replace]]
  /\ UNCHANGED <<rows, queue, reload, served, up, missed>>

StartDelete(c, k) ==
  /\ up /\ call[c].pc = "idle"
  /\ rows[k] # NoRow
  /\ call' = [call EXCEPT ![c] =
       [pc |-> "delete_row", key |-> k, row |-> rows[k], todo |-> NoParts, replace |-> FALSE]]
  /\ UNCHANGED <<rows, queue, reload, served, up, missed>>

\* The row the call looked up, or inserted, is still there.
RowAlive(c) ==
  rows[call[c].key] # NoRow /\ rows[call[c].key].id = call[c].row.id

(* What call c wrote is in the database, and no message says so.  When the *)
(* row is gone, whoever deleted it has the message to send.                *)
Owes(c) ==
  call[c].pc = "send" \/ (call[c].pc \in {"clear", "insert"} /\ RowAlive(c))

ReadCallParts(c) ==
  /\ call[c].pc = "read_parts"
  /\ call' = [call EXCEPT ![c] =
       [call[c] EXCEPT !.pc = "update_row",
                       !.todo = IF RowAlive(c) THEN rows[call[c].key].parts ELSE NoParts]]
  /\ UNCHANGED <<rows, queue, reload, served, up, missed>>

\* After the row is written: its parts, then the reload.
AfterRow(c) ==
  IF call[c].replace THEN [call[c] EXCEPT !.pc = "clear"]
  ELSE IF call[c].todo # NoParts THEN [call[c] EXCEPT !.pc = "insert"]
  ELSE Sending

\* The UNIQUE constraint on names refuses the second of two adds.
InsertRow(c) ==
  /\ call[c].pc = "insert_row"
  /\ IF rows[call[c].key] = NoRow
     THEN /\ rows' = [rows EXCEPT ![call[c].key] = call[c].row]
          /\ call' = [call EXCEPT ![c] = AfterRow(c)]
     ELSE /\ call' = [call EXCEPT ![c] = IdleCall]
          /\ UNCHANGED rows
  /\ UNCHANGED <<queue, reload, served, up, missed>>

\* No error when the row is gone; the parts are in a table of their own.
UpdateRow(c) ==
  /\ call[c].pc = "update_row"
  /\ rows' = IF RowAlive(c)
             THEN [rows EXCEPT ![call[c].key] =
                     [call[c].row EXCEPT !.parts = rows[call[c].key].parts]]
             ELSE rows
  /\ call' = [call EXCEPT ![c] = AfterRow(c)]
  /\ UNCHANGED <<queue, reload, served, up, missed>>

\* The parts of a row go with it.
DeleteRow(c) ==
  /\ call[c].pc = "delete_row"
  /\ rows' = IF RowAlive(c) THEN [rows EXCEPT ![call[c].key] = NoRow] ELSE rows
  /\ call' = [call EXCEPT ![c] = Sending]
  /\ UNCHANGED <<queue, reload, served, up, missed>>

\* delete_zone_servers and the two like it.
DeleteParts(c) ==
  /\ call[c].pc = "clear"
  /\ rows' = IF RowAlive(c) THEN [rows EXCEPT ![call[c].key] = [@ EXCEPT !.parts = NoParts]] ELSE rows
  /\ call' = [call EXCEPT ![c] =
       IF call[c].todo = NoParts THEN Sending ELSE [call[c] EXCEPT !.pc = "insert"]]
  /\ UNCHANGED <<queue, reload, served, up, missed>>

\* bootstrap_resolvers and the allowed types of a source are UNIQUE.
Clashes(c, v) ==
  call[c].key \in Settings \cup Sources /\ RowAlive(c) /\ rows[call[c].key].parts[v] > 0

Less(p, v) == [p EXCEPT ![v] = p[v] - 1]

(* create_zone_server and the two like it.  The call goes through its      *)
(* parts in the order given, which may be any.                             *)
InsertPart(c, v) ==
  /\ call[c].pc = "insert"
  /\ call[c].todo[v] > 0
  /\ v \notin Rejected /\ RowAlive(c) /\ ~Clashes(c, v)
  /\ rows' = [rows EXCEPT ![call[c].key] =
       [@ EXCEPT !.parts = [rows[call[c].key].parts EXCEPT ![v] = rows[call[c].key].parts[v] + 1]]]
  /\ call' = [call EXCEPT ![c] =
       IF Less(call[c].todo, v) = NoParts THEN Sending
       ELSE [call[c] EXCEPT !.todo = Less(call[c].todo, v)]]
  /\ UNCHANGED <<queue, reload, served, up, missed>>

\* The call returns an error and sends nothing.
GiveUp(c) ==
  /\ call' = [call EXCEPT ![c] = IdleCall]
  /\ missed' = (missed \/ Owes(c))
  /\ UNCHANGED <<rows, queue, reload, served, up>>

(* validate_protocol refuses the next server, the foreign key refuses it   *)
(* because the row was deleted, or the UNIQUE constraint does.             *)
PartFails(c, v) ==
  /\ call[c].pc = "insert"
  /\ call[c].todo[v] > 0
  /\ v \in Rejected \/ ~RowAlive(c) \/ Clashes(c, v)
  /\ GiveUp(c)

\* reload_after_mutation waits for room in the channel.
SendReload(c) ==
  /\ call[c].pc = "send"
  /\ queue < Capacity
  /\ queue' = queue + 1
  /\ call' = [call EXCEPT ![c] = IdleCall]
  /\ UNCHANGED <<rows, reload, served, up, missed>>

\* A statement fails.
DatabaseError(c) ==
  /\ "database" \in Faults
  /\ call[c].pc \notin {"idle", "send"}
  /\ GiveUp(c)

\* The HTTP server drops the handler of a client that went away.
Disconnect(c) ==
  /\ "disconnect" \in Faults
  /\ call[c].pc # "idle"
  /\ GiveUp(c)

\* SIGHUP, the control socket and trigger_reload.
TriggerReload ==
  /\ up /\ queue < Capacity
  /\ queue' = queue + 1
  /\ UNCHANGED <<rows, call, reload, served, up, missed>>

-----------------------------------------------------------------------------
(* The reload task.                                                        *)

ReceiveReload ==
  /\ reload.pc = "idle"
  /\ queue > 0
  /\ queue' = queue - 1
  /\ reload' = [IdleReload EXCEPT !.pc = "lists"]
  /\ missed' = FALSE
  /\ UNCHANGED <<rows, call, served, up>>

\* One query of apply_db_config: the rows of one table.
ReadTable(pc, keys, next) ==
  /\ reload.pc = pc
  /\ reload' = [pc |-> next,
                rows |-> [k \in Key |-> IF k \in keys THEN rows[k] ELSE reload.rows[k]]]
  /\ UNCHANGED <<rows, call, queue, served, up, missed>>

(* The query after it reads the parts, which replace those of the rows     *)
(* that were read; parts of rows that were not are dropped.                *)
ReadParts(pc, keys, next) ==
  /\ reload.pc = pc
  /\ reload' = [pc |-> next,
       rows |-> [k \in Key |->
         IF k \in keys /\ reload.rows[k] # NoRow
         THEN [reload.rows[k] EXCEPT !.parts =
                 IF rows[k] # NoRow /\ rows[k].id = reload.rows[k].id
                 THEN rows[k].parts ELSE NoParts]
         ELSE reload.rows[k]]]
  /\ UNCHANGED <<rows, call, queue, served, up, missed>>

apply_db_config ==
  \/ ReadTable("lists", Lists, "settings")
  \/ ReadTable("settings", Settings, "bootstraps")
  \/ ReadParts("bootstraps", Settings, "upstreams")
  \/ ReadTable("upstreams", Upstreams, "zones")
  \/ ReadTable("zones", Zones, "servers")
  \/ ReadParts("servers", Zones, "sources")
  \/ ReadTable("sources", Sources, "types")
  \/ ReadParts("types", Sources, "build")

\* A query fails, and the previous pipeline stays.
ReadFails ==
  /\ "database" \in Faults
  /\ reload.pc \in Reading
  /\ reload' = IdleReload
  /\ missed' = TRUE
  /\ UNCHANGED <<rows, call, queue, served, up>>

\* Mutant: the messages that came in meanwhile are taken as served.
SwapPipeline_Drain ==
  /\ reload.pc = "build"
  /\ Buildable(reload.rows)
  /\ served' = Config(reload.rows)
  /\ reload' = IdleReload
  /\ queue' = 0
  /\ UNCHANGED <<rows, call, up, missed>>

SwapPipeline ==
  /\ reload.pc = "build"
  /\ Buildable(reload.rows)
  /\ served' = Config(reload.rows)
  /\ reload' = IdleReload
  /\ UNCHANGED <<rows, call, queue, up, missed>>

\* Mutant: a failed reload is tried again until it succeeds.
KeepPipeline_Retry ==
  /\ reload.pc = "build"
  /\ ~Buildable(reload.rows) \/ SourceMayFail(reload.rows)
  /\ reload' = [IdleReload EXCEPT !.pc = "lists"]
  /\ UNCHANGED <<rows, call, queue, served, up, missed>>

\* The build fails, and the previous pipeline stays.
KeepPipeline ==
  /\ reload.pc = "build"
  /\ ~Buildable(reload.rows) \/ SourceMayFail(reload.rows)
  /\ reload' = IdleReload
  /\ missed' = (missed \/ Buildable(reload.rows))
  /\ UNCHANGED <<rows, call, queue, served, up>>

ReloadTask == ReceiveReload \/ apply_db_config \/ ReadFails \/ SwapPipeline \/ KeepPipeline

-----------------------------------------------------------------------------
(* The process ends at any point and is started again on the database it   *)
(* left, which is not empty, so nothing is seeded.  It exits when it       *)
(* cannot build.                                                           *)
Restart ==
  /\ \E k \in Lists \cup Upstreams : rows[k] # NoRow
  /\ call' = [c \in Calls |-> IdleCall]
  /\ queue' = 0
  /\ reload' = IdleReload
  /\ missed' = FALSE
  /\ \/ /\ Buildable(rows)
        /\ up' = TRUE
        /\ served' = Config(rows)
     \/ /\ ~Buildable(rows) \/ SourceMayFail(rows)
        /\ up' = FALSE
        /\ UNCHANGED served
  /\ UNCHANGED rows

-----------------------------------------------------------------------------
\* The parts a call can give for key k; all but zone servers are validated.
Todo(k) ==
  {p \in PartLists :
    /\ k \in Lists \cup Upstreams => p = NoParts
    /\ k \in Settings => p # NoParts
    /\ k \notin Zones => \A v \in Vals \ Good : p[v] = 0}

\* The values a call can write in a row of key k.
Accepted(k) == IF k \in Settings THEN Good ELSE Vals \ Rejected

Edits(k) ==
  {[rows[k] EXCEPT !.val = v] : v \in Accepted(k)}
  \cup {[rows[k] EXCEPT !.on = b] : b \in IF k \in Settings THEN {rows[k].on} ELSE BOOLEAN}

Add(c) ==
  \E k \in Targets \ Settings, id \in Ids, on \in BOOLEAN :
    \E val \in Accepted(k), todo \in Todo(k) : StartAdd(c, k, id, on, val, todo)

Update(c) ==
  \E k \in {t \in Targets : rows[t] # NoRow} :
    \E r \in Edits(k) :
      \/ /\ k \notin Settings \cup Sources
         /\ StartUpdate(c, "update_row", k, r, FALSE, NoParts)
      \/ /\ k \in Settings \cup Sources
         /\ StartUpdate(c, "read_parts", k, r, TRUE, NoParts)
      \/ /\ k \in Settings \cup Sources \cup Zones
         /\ \E todo \in Todo(k) : StartUpdate(c, "update_row", k, r, TRUE, todo)

Delete(c) == \E k \in Targets \ Settings : StartDelete(c, k)

CallStep(c) ==
  \/ InsertRow(c) \/ ReadCallParts(c) \/ UpdateRow(c) \/ DeleteRow(c) \/ DeleteParts(c)
  \/ \E v \in Vals : InsertPart(c, v) \/ PartFails(c, v)

Next ==
  \/ \E c \in Calls :
       \/ Add(c) \/ Update(c) \/ Delete(c) \/ CallStep(c)
       \/ SendReload(c) \/ DatabaseError(c) \/ Disconnect(c)
  \/ TriggerReload
  \/ ReloadTask
  \/ Restart

Spec == Init /\ [][Next]_vars

(* A started call and the reload task keep running; the channel admits     *)
(* waiting senders in the order they came.                                 *)
Fairness ==
  /\ WF_vars(ReloadTask)
  /\ \A c \in Calls : WF_vars(CallStep(c)) /\ SF_vars(SendReload(c))

FairSpec == Spec /\ Fairness

-----------------------------------------------------------------------------
(* Types of the rows, the calls, the channel and the served configuration. *)
TypeOK ==
  /\ rows \in [Key -> Row \cup {NoRow}]
  /\ call \in [Calls -> CallStates]
  /\ queue \in 0..Capacity
  /\ reload \in ReloadStates
  /\ served \in [Key -> Items \cup {Absent}]
  /\ up \in BOOLEAN
  /\ missed \in BOOLEAN

\* Nothing is on its way in the running daemon: no call, no message, no reload.
Quiet ==
  up /\ queue = 0 /\ reload.pc = "idle" /\ \A c \in Calls : call[c].pc = "idle"

(* Every change in the database is followed by a reload that read it: with *)
(* nothing on its way, a database that can be built from is what is        *)
(* served, unless a call gave up half-way or the last reload met a fault   *)
(* from outside.  A reload that raced with a call and read half of its     *)
(* rows, or failed on them, is always followed by one that started after   *)
(* the last write.                                                         *)
AppliedWhenQuiet == Quiet /\ ~missed /\ Buildable(rows) => served = Config(rows)

Usable(config) ==
  /\ \E u \in Upstreams : config[u] # Absent
  /\ \A k \in Key : config[k] # Absent => config[k].val \in Good
  /\ \A z \in Zones : config[z] # Absent =>
       LET built == {v \in Vals \ Disabled : config[z].parts[v] > 0}
       IN  /\ built # {} /\ built \subseteq Good
           /\ built \cap Json = {} \/ \E v \in Json : built = {v} /\ config[z].parts[v] = 1
  /\ \A k \in Settings : config[k] # Absent /\ config[k].parts = NoParts =>
       \A u \in Upstreams : config[u] # Absent => config[u].val \notin Named

(* Queries always find an upstream, with bootstrap resolvers if it needs   *)
(* them, and every served zone has servers, all of them usable and no JSON *)
(* source next to another, whatever mixture of old and new rows a reload   *)
(* has read and whichever of its steps fails.                              *)
ServedIsUsable == Usable(served)

(* reload_after_mutation never waits for ever on a full channel, although  *)
(* signals and other calls keep refilling it, unless the process restarts. *)
SendCompletes == \A c \in Calls : []<>(call[c].pc # "send")

(* Once the database stays as it is and can be built from, and no fault    *)
(* keeps interfering, it is served from some time on, however many reloads *)
(* are still triggered.                                                    *)
SettledIsServed ==
  <>[](up /\ Buildable(rows) /\ ~missed /\ \A c \in Calls : call[c].pc = "idle")
    => <>[](served = Config(rows))
=============================================================================
