------------------------ MODULE ConfigReloadProofs ------------------------
(***************************************************************************)
(* Proofs about the configuration database and the served pipeline, for    *)
(* any tables, values, channel capacity and number of concurrent calls.    *)
(***************************************************************************)
EXTENDS ConfigReload, TLAPS

(* A call past its lookup knows its row, and one that inserts parts has  *)
(* at least one left.                                                      *)
CallsKnowRows ==
  \A c \in Calls :
    /\ call[c].pc \notin {"idle", "send"} => call[c].row \in Row
    /\ call[c].pc = "insert" => call[c].todo # NoParts

\* The type invariant, strengthened to be inductive.
TypeInv == TypeOK /\ CallsKnowRows

\* A reload will start after everything that is in the database now.
Pending == queue > 0 \/ \E c \in Calls : Owes(c)

\* The keys whose rows the reload task has read when it is at pc.
ReadKeys(pc) ==
  CASE pc = "settings" -> Lists
    [] pc \in {"bootstraps", "upstreams"} -> Lists \cup Settings
    [] pc = "zones" -> Lists \cup Settings \cup Upstreams
    [] pc \in {"servers", "sources"} -> Lists \cup Settings \cup Upstreams \cup Zones
    [] pc \in {"types", "build"} -> Key
    [] OTHER -> {}

ReadIsCurrent == \A k \in ReadKeys(reload.pc) : reload.rows[k] = rows[k]

(* With no reload pending or missed, what was read is still in the         *)
(* database and, if the task is idle, is served.                           *)
Current ==
  ~missed /\ ~Pending =>
    /\ ReadIsCurrent
    /\ reload.pc = "idle" /\ up /\ Buildable(rows) => served = Config(rows)

-----------------------------------------------------------------------------
(* No parts, and one part more or less, are parts.                         *)
LEMMA PartsType ==
  /\ NoParts \in Parts
  /\ \A p \in Parts, v \in Vals :
       /\ [p EXCEPT ![v] = p[v] + 1] \in Parts
       /\ p[v] > 0 => Less(p, v) \in Parts
<1>1. NoParts \in Parts
  BY DEF NoParts, Parts
<1>2. ASSUME NEW p \in Parts, NEW v \in Vals
      PROVE  /\ [p EXCEPT ![v] = p[v] + 1] \in Parts
             /\ p[v] > 0 => Less(p, v) \in Parts
  <2>1. p[v] \in Nat /\ p[v] + 1 \in Nat /\ (p[v] > 0 => p[v] - 1 \in Nat)
    BY DEF Parts
  <2> QED
    BY <2>1 DEF Parts, Less
<1> QED
  BY <1>1, <1>2

(* The states calls and the reload task rest in are well typed.            *)
LEMMA IdleTypes ==
  /\ IdleCall \in CallStates
  /\ IdleCall.pc = "idle"
  /\ Sending \in CallStates
  /\ Sending.pc = "send"
  /\ IdleReload \in ReloadStates
  /\ IdleReload.pc = "idle"
<1>1. (CHOOSE k \in Key : TRUE) \in Key
  BY UpstreamsAssumption DEF Key
<1> QED
  BY <1>1, PartsType, Zenon DEF IdleCall, Sending, IdleReload, CallStates, ReloadStates

(* The configuration built from rows is well typed.                        *)
LEMMA ConfigType ==
  ASSUME NEW rs \in [Key -> Row \cup {NoRow}]
  PROVE  Config(rs) \in [Key -> Items \cup {Absent}]
<1>1. ASSUME NEW k \in Key, On(rs[k])
      PROVE  [val |-> rs[k].val, parts |-> rs[k].parts] \in Items
  BY <1>1 DEF On, Row, Items
<1> QED
  BY <1>1, Zenon DEF Config

(* What follows the write of a row is well typed and keeps the row.        *)
LEMMA AfterRowType ==
  ASSUME TypeInv, NEW c \in Calls, call[c].pc \in {"insert_row", "update_row"}
  PROVE  /\ AfterRow(c) \in CallStates
         /\ \/ AfterRow(c) = Sending
            \/ /\ AfterRow(c).pc \in {"clear", "insert"}
               /\ AfterRow(c).key = call[c].key
               /\ AfterRow(c).row = call[c].row
               /\ AfterRow(c).pc = "insert" => AfterRow(c).todo # NoParts
<1>1. call[c] \in CallStates
  BY DEF TypeInv, TypeOK
<1>2. CASE call[c].replace
  BY <1>1, <1>2, Zenon DEF AfterRow, CallStates
<1>3. CASE ~call[c].replace /\ call[c].todo # NoParts
  BY <1>1, <1>3, Zenon DEF AfterRow, CallStates
<1>4. CASE ~call[c].replace /\ call[c].todo = NoParts
  BY <1>4, IdleTypes, Zenon DEF AfterRow
<1> QED
  BY <1>2, <1>3, <1>4, Zenon

(* Changing one call keeps the types when its new state has them.          *)
LEMMA OneCallType ==
  ASSUME TypeInv, NEW c \in Calls, NEW s \in CallStates,
         call' = [call EXCEPT ![c] = s],
         s.pc \notin {"idle", "send"} => s.row \in Row,
         s.pc = "insert" => s.todo # NoParts
  PROVE  call' \in [Calls -> CallStates] /\ CallsKnowRows'
<1>1. call' \in [Calls -> CallStates]
  BY Zenon DEF TypeInv, TypeOK
<1>2. \A d \in Calls : call'[d] = IF d = c THEN s ELSE call[d]
  BY DEF TypeInv, TypeOK
<1> QED
  BY <1>1, <1>2, Zenon DEF TypeInv, CallsKnowRows

-----------------------------------------------------------------------------
(* The three ways a call starts, with what Next lets them be given.        *)
LEMMA StartTypes ==
  ASSUME TypeInv, NEW c \in Calls, Add(c) \/ Update(c) \/ Delete(c)
  PROVE  /\ \E s \in CallStates :
              /\ call' = [call EXCEPT ![c] = s]
              /\ s.pc \in {"insert_row", "read_parts", "update_row", "delete_row"}
              /\ s.row \in Row
         /\ call[c].pc = "idle"
         /\ UNCHANGED <<rows, queue, reload, served, up, missed>>
<1>0. rows \in [Key -> Row \cup {NoRow}]
  BY DEF TypeInv, TypeOK
<1>1. \A k \in Key : Todo(k) \subseteq Parts
  BY PartsAssumption DEF Todo
<1>2. \A k \in Key : Accepted(k) \subseteq Vals
  BY ValsAssumption DEF Accepted
<1>3. CASE Add(c)
  <2>0. PICK k \in Targets \ Settings, id \in Ids, on \in BOOLEAN :
          \E val \in Accepted(k), todo \in Todo(k) : StartAdd(c, k, id, on, val, todo)
    BY <1>3 DEF Add
  <2>1. PICK val \in Accepted(k), todo \in Todo(k) : StartAdd(c, k, id, on, val, todo)
    BY <2>0
  <2> DEFINE r == [id |-> id, on |-> on, val |-> val, parts |-> NoParts]
             s == [pc |-> "insert_row", key |-> k, row |-> r, todo |-> todo, replace |-> FALSE]
  <2>2. k \in Key
    BY TargetsAssumption
  <2>3. r \in Row
    BY <1>2, <2>2, PartsType, Zenon DEF Row
  <2>4. s \in CallStates /\ s.pc = "insert_row" /\ s.row = r
    BY <1>1, <2>2, <2>3, Zenon DEF CallStates
  <2>5. call' = [call EXCEPT ![c] = s]
    BY <2>1, Zenon DEF StartAdd
  <2>6. call[c].pc = "idle" /\ UNCHANGED <<rows, queue, reload, served, up, missed>>
    BY <2>1, Zenon DEF StartAdd
  <2> HIDE DEF s, r
  <2> QED
    BY <2>3, <2>4, <2>5, <2>6, Zenon
<1>4. CASE Update(c)
  <2>0. PICK k \in {t \in Targets : rows[t] # NoRow} :
          \E r \in Edits(k) :
            \/ StartUpdate(c, "update_row", k, r, FALSE, NoParts)
            \/ StartUpdate(c, "read_parts", k, r, TRUE, NoParts)
            \/ \E todo \in Todo(k) : StartUpdate(c, "update_row", k, r, TRUE, todo)
    BY <1>4, Zenon DEF Update
  <2>1. PICK r \in Edits(k) :
            \/ StartUpdate(c, "update_row", k, r, FALSE, NoParts)
            \/ StartUpdate(c, "read_parts", k, r, TRUE, NoParts)
            \/ \E todo \in Todo(k) : StartUpdate(c, "update_row", k, r, TRUE, todo)
    BY <2>0, Zenon
  <2>3. k \in Key /\ rows[k] \in Row
    BY <1>0, TargetsAssumption
  <2>2. PICK pc \in {"update_row", "read_parts"}, replace \in BOOLEAN, todo \in Parts :
          StartUpdate(c, pc, k, r, replace, todo)
    BY <1>1, <2>1, <2>3, PartsType, Zenon
  <2> DEFINE s == [pc |-> pc, key |-> k, row |-> r, todo |-> todo, replace |-> replace]
  <2>4. r \in Row
    BY <1>2, <2>3, Zenon DEF Edits, Row
  <2>5. s \in CallStates /\ s.pc = pc /\ s.row = r
    BY <2>2, <2>3, <2>4 DEF CallStates
  <2>6. call' = [call EXCEPT ![c] = s]
    BY <2>2, Zenon DEF StartUpdate
  <2>7. call[c].pc = "idle" /\ UNCHANGED <<rows, queue, reload, served, up, missed>>
    BY <2>2, Zenon DEF StartUpdate
  <2> HIDE DEF s
  <2> QED
    BY <2>4, <2>5, <2>6, <2>7, Zenon
<1>5. CASE Delete(c)
  <2>1. PICK k \in Targets \ Settings : StartDelete(c, k)
    BY <1>5 DEF Delete
  <2> DEFINE s == [pc |-> "delete_row", key |-> k, row |-> rows[k], todo |-> NoParts, replace |-> FALSE]
  <2>2. k \in Key /\ rows[k] \in Row
    BY <1>0, <2>1, TargetsAssumption, Zenon DEF StartDelete
  <2>4. s \in CallStates /\ s.pc = "delete_row" /\ s.row = rows[k]
    BY <2>2, PartsType, Zenon DEF CallStates
  <2>5. call' = [call EXCEPT ![c] = s]
    BY <2>1, Zenon DEF StartDelete
  <2>6. call[c].pc = "idle" /\ UNCHANGED <<rows, queue, reload, served, up, missed>>
    BY <2>1, Zenon DEF StartDelete
  <2> HIDE DEF s
  <2> QED
    BY <2>2, <2>4, <2>5, <2>6, Zenon
<1> QED
  BY <1>3, <1>4, <1>5, Zenon

(* The initial states are well typed.                                      *)
LEMMA InitTypeInv == Init => TypeInv
<1> SUFFICES ASSUME Init PROVE TypeInv
  OBVIOUS
<1>1. rows \in [Key -> Row \cup {NoRow}]
  BY SeedsAssumption DEF Init
<1>2. served \in [Key -> Items \cup {Absent}]
  BY <1>1, ConfigType DEF Init
<1>3. call \in [Calls -> CallStates] /\ reload \in ReloadStates
  BY IdleTypes DEF Init
<1>4. CallsKnowRows
  BY IdleTypes DEF Init, CallsKnowRows
<1>5. queue \in 0..Capacity
  BY CapacityAssumption DEF Init
<1>6. up \in BOOLEAN /\ missed \in BOOLEAN
  BY Zenon DEF Init
<1> QED
  BY <1>1, <1>2, <1>3, <1>4, <1>5, <1>6 DEF TypeInv, TypeOK

(* A call that gives up keeps the types.                                   *)
LEMMA GiveUpTypeInv ==
  ASSUME TypeInv, NEW c \in Calls, GiveUp(c)
  PROVE  TypeInv'
<1>1. call' \in [Calls -> CallStates] /\ CallsKnowRows'
  BY OneCallType, IdleTypes, Zenon DEF GiveUp
<1>2. missed' \in BOOLEAN
  BY DEF GiveUp
<1> QED
  BY <1>1, <1>2 DEF GiveUp, TypeInv, TypeOK

(* A step of a call in the database keeps the types.                       *)
LEMMA CallStepTypeInv ==
  ASSUME TypeInv, NEW c \in Calls, CallStep(c)
  PROVE  TypeInv'
<1> DEFINE key == call[c].key
<1>0. /\ rows \in [Key -> Row \cup {NoRow}]
      /\ call[c] \in CallStates
      /\ key \in Key
  BY Zenon DEF TypeInv, TypeOK, CallStates
<1>1. ASSUME NEW v \in Vals, PartFails(c, v) PROVE TypeInv'
  BY <1>1, GiveUpTypeInv DEF PartFails
<1>2. SUFFICES ASSUME \/ InsertRow(c) \/ ReadCallParts(c) \/ UpdateRow(c)
                      \/ DeleteRow(c) \/ DeleteParts(c)
                      \/ \E v \in Vals : InsertPart(c, v)
               PROVE  /\ rows' \in [Key -> Row \cup {NoRow}]
                      /\ call' \in [Calls -> CallStates] /\ CallsKnowRows'
  <2>1. CASE \E v \in Vals : PartFails(c, v)
    BY <1>1, <2>1
  <2>2. CASE \/ InsertRow(c) \/ ReadCallParts(c) \/ UpdateRow(c)
             \/ DeleteRow(c) \/ DeleteParts(c)
             \/ \E v \in Vals : InsertPart(c, v)
    <3>1. UNCHANGED <<queue, reload, served, up, missed>>
      BY <2>2, Zenon DEF InsertRow, ReadCallParts, UpdateRow, DeleteRow, DeleteParts, InsertPart
    <3> QED
      BY <1>2, <2>2, <3>1, Zenon DEF TypeInv, TypeOK
  <2> QED
    BY <2>1, <2>2 DEF CallStep
<1>3. CASE InsertRow(c)
  <2>1. rows' \in [Key -> Row \cup {NoRow}]
    BY <1>0, <1>3, Zenon DEF InsertRow, TypeInv, CallsKnowRows
  <2>2. AfterRow(c) \in CallStates /\ (AfterRow(c).pc \notin {"idle", "send"} => AfterRow(c).row \in Row)
        /\ (AfterRow(c).pc = "insert" => AfterRow(c).todo # NoParts)
    BY <1>3, AfterRowType, IdleTypes, Zenon DEF InsertRow, TypeInv, CallsKnowRows
  <2>3. CASE rows[key] = NoRow
    BY <1>3, <2>1, <2>2, <2>3, OneCallType, Zenon DEF InsertRow
  <2>4. CASE rows[key] # NoRow
    BY <1>3, <2>1, <2>4, OneCallType, IdleTypes, Zenon DEF InsertRow
  <2> QED
    BY <2>3, <2>4, Zenon
<1>4. CASE UpdateRow(c)
  <2>1. ASSUME RowAlive(c)
        PROVE  [call[c].row EXCEPT !.parts = rows[key].parts] \in Row
    BY <1>0, <1>4, <2>1, Zenon DEF UpdateRow, RowAlive, Row, TypeInv, CallsKnowRows
  <2>2. rows' \in [Key -> Row \cup {NoRow}]
    BY <1>0, <1>4, <2>1, Zenon DEF UpdateRow
  <2>3. AfterRow(c) \in CallStates /\ (AfterRow(c).pc \notin {"idle", "send"} => AfterRow(c).row \in Row)
        /\ (AfterRow(c).pc = "insert" => AfterRow(c).todo # NoParts)
    BY <1>4, AfterRowType, IdleTypes, Zenon DEF UpdateRow, TypeInv, CallsKnowRows
  <2> QED
    BY <1>4, <2>2, <2>3, OneCallType, Zenon DEF UpdateRow
<1>5. CASE DeleteRow(c)
  <2>1. rows' \in [Key -> Row \cup {NoRow}]
    BY <1>0, <1>5, Zenon DEF DeleteRow
  <2> QED
    BY <1>5, <2>1, OneCallType, IdleTypes, Zenon DEF DeleteRow
<1>6. CASE DeleteParts(c)
  <2>1. ASSUME RowAlive(c)
        PROVE  [rows[key] EXCEPT !.parts = NoParts] \in Row
    BY <1>0, <2>1, PartsType, Zenon DEF RowAlive, Row
  <2>2. rows' \in [Key -> Row \cup {NoRow}]
    BY <1>0, <1>6, <2>1, Zenon DEF DeleteParts
  <2>3. CASE call[c].todo = NoParts
    BY <1>6, <2>2, <2>3, OneCallType, IdleTypes, Zenon DEF DeleteParts
  <2>4. CASE call[c].todo # NoParts
    <3> DEFINE s == [call[c] EXCEPT !.pc = "insert"]
    <3>1. s \in CallStates /\ s.row = call[c].row /\ s.todo = call[c].todo
      BY <1>0, Zenon DEF CallStates
    <3>2. s.row \in Row
      BY <1>6, <3>1, Zenon DEF DeleteParts, TypeInv, CallsKnowRows
    <3>3. call' = [call EXCEPT ![c] = s]
      BY <1>6, <2>4, Zenon DEF DeleteParts
    <3> HIDE DEF s
    <3> QED
      BY <2>2, <2>4, <3>1, <3>2, <3>3, OneCallType, Zenon
  <2> QED
    BY <2>3, <2>4
<1>7. ASSUME NEW v \in Vals, InsertPart(c, v)
      PROVE  /\ rows' \in [Key -> Row \cup {NoRow}]
             /\ call' \in [Calls -> CallStates] /\ CallsKnowRows'
  <2>1. rows[key] \in Row /\ rows[key].parts \in Parts
    BY <1>0, <1>7, Zenon DEF InsertPart, RowAlive, Row
  <2> DEFINE more == [rows[key].parts EXCEPT ![v] = rows[key].parts[v] + 1]
  <2>2. more \in Parts
    BY <2>1, PartsType, Zenon
  <2>3. rows' = [rows EXCEPT ![key] = [@ EXCEPT !.parts = more]]
    BY <1>7, Zenon DEF InsertPart
  <2> HIDE DEF more
  <2>4. [rows[key] EXCEPT !.parts = more] \in Row
    BY <2>1, <2>2, Zenon DEF Row
  <2>5. rows' \in [Key -> Row \cup {NoRow}]
    BY <1>0, <2>3, <2>4, Zenon
  <2> DEFINE less == Less(call[c].todo, v)
  <2>6. less \in Parts
    BY <1>0, <1>7, PartsType, Zenon DEF InsertPart, CallStates
  <2>7. CASE less = NoParts
    BY <1>7, <2>5, <2>7, OneCallType, IdleTypes, Zenon DEF InsertPart
  <2>8. CASE less # NoParts
    <3> DEFINE s == [call[c] EXCEPT !.todo = less]
    <3>1. call' = [call EXCEPT ![c] = s]
      BY <1>7, <2>8, Zenon DEF InsertPart
    <3> HIDE DEF less
    <3>2. s \in CallStates /\ s.row = call[c].row /\ s.todo # NoParts
      BY <1>0, <2>6, <2>8, Zenon DEF CallStates
    <3>3. s.row \in Row
      BY <1>7, <3>2, Zenon DEF InsertPart, TypeInv, CallsKnowRows
    <3> HIDE DEF s
    <3> QED
      BY <2>5, <3>1, <3>2, <3>3, OneCallType, Zenon
  <2> QED
    BY <2>7, <2>8
<1>8. CASE ReadCallParts(c)
  <2> DEFINE read == IF RowAlive(c) THEN rows[key].parts ELSE NoParts
             s == [call[c] EXCEPT !.pc = "update_row", !.todo = read]
  <2>1. read \in Parts
    BY <1>0, PartsType, Zenon DEF RowAlive, Row
  <2>2. call' = [call EXCEPT ![c] = s]
    BY <1>8 DEF ReadCallParts
  <2> HIDE DEF read
  <2>3. s \in CallStates /\ s.row = call[c].row /\ s.pc = "update_row"
    BY <1>0, <2>1, Zenon DEF CallStates
  <2>4. s.row \in Row
    BY <1>8, <2>3, Zenon DEF ReadCallParts, TypeInv, CallsKnowRows
  <2> HIDE DEF s
  <2> QED
    BY <1>0, <1>8, <2>2, <2>3, <2>4, OneCallType, Zenon DEF ReadCallParts
<1> QED
  BY <1>2, <1>3, <1>4, <1>5, <1>6, <1>7, <1>8, Zenon

(* Reading a table or parts keeps the types.                               *)
LEMMA ReadTypeInv ==
  ASSUME TypeInv, apply_db_config
  PROVE  reload' \in ReloadStates /\ UNCHANGED <<rows, call, queue, served, up, missed>>
<1>0. rows \in [Key -> Row \cup {NoRow}] /\ reload.rows \in [Key -> Row \cup {NoRow}]
  BY DEF TypeInv, TypeOK, ReloadStates
<1>1. ASSUME NEW pc, NEW keys, NEW next \in Reading \cup {"build"}, ReadTable(pc, keys, next)
      PROVE  reload' \in ReloadStates /\ UNCHANGED <<rows, call, queue, served, up, missed>>
  BY <1>0, <1>1, Zenon DEF ReadTable, ReloadStates
<1>2. ASSUME NEW pc, NEW keys, NEW next \in Reading \cup {"build"}, ReadParts(pc, keys, next)
      PROVE  reload' \in ReloadStates /\ UNCHANGED <<rows, call, queue, served, up, missed>>
  <2>1. ASSUME NEW k \in Key, reload.rows[k] # NoRow, NEW ps \in Parts
        PROVE  [reload.rows[k] EXCEPT !.parts = ps] \in Row
    BY <1>0, <2>1, Zenon DEF Row
  <2>2. ASSUME NEW k \in Key
        PROVE  (IF rows[k] # NoRow /\ rows[k].id = reload.rows[k].id THEN rows[k].parts ELSE NoParts)
                 \in Parts
    BY <1>0, PartsType, Zenon DEF Row
  <2>3. ASSUME NEW k \in Key
        PROVE  reload'.rows[k] \in Row \cup {NoRow}
    BY <1>0, <1>2, <2>1, <2>2, Zenon DEF ReadParts
  <2> QED
    BY <1>2, <2>3, Zenon DEF ReadParts, ReloadStates
<1> QED
  BY <1>1, <1>2, Zenon DEF apply_db_config, Reading

(* Every step keeps the types.                                             *)
LEMMA NextTypeInv == TypeInv /\ [Next]_vars => TypeInv'
<1> SUFFICES ASSUME TypeInv, [Next]_vars PROVE TypeInv'
  OBVIOUS
<1>1. ASSUME NEW c \in Calls, Add(c) \/ Update(c) \/ Delete(c) PROVE TypeInv'
  BY <1>1, StartTypes, OneCallType, Zenon DEF TypeInv, TypeOK
<1>2. ASSUME NEW c \in Calls, CallStep(c) PROVE TypeInv'
  BY <1>2, CallStepTypeInv
<1>3. ASSUME NEW c \in Calls, SendReload(c) PROVE TypeInv'
  <2>1. queue' \in 0..Capacity
    BY <1>3, CapacityAssumption DEF SendReload, TypeInv, TypeOK
  <2>2. call' \in [Calls -> CallStates] /\ CallsKnowRows'
    BY <1>3, OneCallType, IdleTypes, Zenon DEF SendReload
  <2> QED
    BY <1>3, <2>1, <2>2, Zenon DEF SendReload, TypeInv, TypeOK
<1>4. ASSUME NEW c \in Calls, DatabaseError(c) \/ Disconnect(c) PROVE TypeInv'
  BY <1>4, GiveUpTypeInv DEF DatabaseError, Disconnect
<1>5. CASE TriggerReload
  <2>1. queue' \in 0..Capacity
    BY <1>5, CapacityAssumption DEF TriggerReload, TypeInv, TypeOK
  <2> QED
    BY <1>5, <2>1, Zenon DEF TriggerReload, TypeInv, TypeOK, CallsKnowRows
<1>6. CASE ReceiveReload
  <2>1. queue' \in 0..Capacity
    BY <1>6, CapacityAssumption DEF ReceiveReload, TypeInv, TypeOK
  <2>2. reload' \in ReloadStates
    BY <1>6, Zenon DEF ReceiveReload, IdleReload, ReloadStates, Reading
  <2> QED
    BY <1>6, <2>1, <2>2, Zenon DEF ReceiveReload, TypeInv, TypeOK, CallsKnowRows
<1>7. CASE apply_db_config
  BY <1>7, ReadTypeInv, Zenon DEF TypeInv, TypeOK, CallsKnowRows
<1>8. CASE SwapPipeline
  <2>1. reload.rows \in [Key -> Row \cup {NoRow}]
    BY DEF TypeInv, TypeOK, ReloadStates
  <2>2. served' \in [Key -> Items \cup {Absent}]
    BY <1>8, <2>1, ConfigType, Zenon DEF SwapPipeline
  <2> QED
    BY <1>8, <2>2, IdleTypes, Zenon DEF SwapPipeline, TypeInv, TypeOK, CallsKnowRows
<1>9. CASE KeepPipeline \/ ReadFails
  <2>1. missed' \in BOOLEAN
    BY <1>9, Zenon DEF KeepPipeline, ReadFails
  <2> QED
    BY <1>9, <2>1, IdleTypes, Zenon DEF KeepPipeline, ReadFails, TypeInv, TypeOK, CallsKnowRows
<1>10. CASE Restart
  <2>1. call' \in [Calls -> CallStates] /\ CallsKnowRows'
    BY <1>10, IdleTypes, Zenon DEF Restart, CallsKnowRows
  <2>2. served' \in [Key -> Items \cup {Absent}]
    BY <1>10, ConfigType, Zenon DEF Restart, TypeInv, TypeOK
  <2>3. up' \in BOOLEAN /\ missed' \in BOOLEAN
    BY <1>10, Zenon DEF Restart
  <2>4. queue' \in 0..Capacity /\ reload' \in ReloadStates /\ rows' = rows
    BY <1>10, IdleTypes, CapacityAssumption DEF Restart
  <2> QED
    BY <2>1, <2>2, <2>3, <2>4, Zenon DEF TypeInv, TypeOK
<1>11. CASE UNCHANGED vars
  BY <1>11, Zenon DEF vars, TypeInv, TypeOK, CallsKnowRows
<1> QED
  BY <1>1, <1>2, <1>3, <1>4, <1>5, <1>6, <1>7, <1>8, <1>9, <1>10, <1>11 DEF Next, ReloadTask

-----------------------------------------------------------------------------
(* A call that changes the database owes a reload from then on, and one    *)
(* that changes nothing does not stop owing, unless it gives up.           *)
LEMMA WritersOwe ==
  ASSUME TypeInv, NEW c \in Calls, CallStep(c), ~GiveUp(c)
  PROVE  /\ rows' # rows => Owes(c)'
         /\ rows' = rows /\ Owes(c) => Owes(c)'
         /\ \A d \in Calls \ {c} : call'[d] = call[d]
<1> DEFINE key == call[c].key
<1>0. /\ rows \in [Key -> Row \cup {NoRow}]
      /\ call \in [Calls -> CallStates]
      /\ key \in Key
      /\ NoRow \notin Row
  BY NoneAssumption, Zenon DEF TypeInv, TypeOK, CallStates, Row
<1>1. ASSUME NEW s, call' = [call EXCEPT ![c] = s]
      PROVE  call'[c] = s /\ \A d \in Calls \ {c} : call'[d] = call[d]
  BY <1>0, <1>1
<1>2. ASSUME call' = [call EXCEPT ![c] = Sending]
      PROVE  Owes(c)' /\ \A d \in Calls \ {c} : call'[d] = call[d]
  BY <1>1, <1>2, IdleTypes, Zenon DEF Owes
<1>3. CASE InsertRow(c)
  <2>1. ~Owes(c)
    BY <1>3, Zenon DEF InsertRow, Owes
  <2>2. CASE rows[key] # NoRow
    BY <1>1, <1>3, <2>1, <2>2, Zenon DEF InsertRow
  <2>3. CASE rows[key] = NoRow
    <3>1. call'[c] = AfterRow(c) /\ \A d \in Calls \ {c} : call'[d] = call[d]
      BY <1>1, <1>3, <2>3, Zenon DEF InsertRow
    <3>2. rows'[key] = call[c].row /\ call[c].row \in Row
      BY <1>0, <1>3, <2>3, Zenon DEF InsertRow, TypeInv, CallsKnowRows
    <3>3. CASE AfterRow(c) = Sending
      BY <3>1, <3>3, IdleTypes DEF Owes
    <3>4. CASE /\ AfterRow(c).pc \in {"clear", "insert"}
               /\ AfterRow(c).key = key /\ AfterRow(c).row = call[c].row
      BY <1>0, <3>1, <3>2, <3>4, Zenon DEF Owes, RowAlive
    <3> QED
      BY <1>3, <3>1, <3>3, <3>4, AfterRowType, Zenon DEF InsertRow
  <2> QED
    BY <2>2, <2>3, Zenon
<1>4. CASE UpdateRow(c)
  <2>1. ~Owes(c)
    BY <1>4, Zenon DEF UpdateRow, Owes
  <2>2. call'[c] = AfterRow(c) /\ \A d \in Calls \ {c} : call'[d] = call[d]
    BY <1>1, <1>4, Zenon DEF UpdateRow
  <2>3. CASE ~RowAlive(c)
    BY <1>4, <2>1, <2>2, <2>3 DEF UpdateRow
  <2>4. CASE RowAlive(c)
    <3>1. call[c].row \in Row
      BY <1>4, Zenon DEF UpdateRow, TypeInv, CallsKnowRows
    <3>2. rows'[key] = [call[c].row EXCEPT !.parts = rows[key].parts]
      BY <1>0, <1>4, <2>4, Zenon DEF UpdateRow
    <3>3. rows'[key] \in Row /\ rows'[key].id = call[c].row.id
      BY <1>0, <2>4, <3>1, <3>2, Zenon DEF Row, RowAlive
    <3>4. CASE AfterRow(c) = Sending
      BY <2>2, <3>4, IdleTypes DEF Owes
    <3>5. CASE /\ AfterRow(c).pc \in {"clear", "insert"}
               /\ AfterRow(c).key = key /\ AfterRow(c).row = call[c].row
      BY <1>0, <2>2, <3>3, <3>5, Zenon DEF Owes, RowAlive
    <3> QED
      BY <1>4, <2>2, <3>4, <3>5, AfterRowType, Zenon DEF UpdateRow
  <2> QED
    BY <2>3, <2>4
<1>5. CASE DeleteRow(c)
  BY <1>2, <1>5, Zenon DEF DeleteRow
<1>6. CASE DeleteParts(c)
  <2>1. CASE call[c].todo = NoParts
    BY <1>2, <1>6, <2>1, Zenon DEF DeleteParts
  <2>2. CASE call[c].todo # NoParts
    <3>1. /\ call'[c] = [call[c] EXCEPT !.pc = "insert"]
          /\ \A d \in Calls \ {c} : call'[d] = call[d]
      BY <1>1, <1>6, <2>2, Zenon DEF DeleteParts
    <3>2. call'[c].pc = "insert" /\ call'[c].key = key /\ call'[c].row = call[c].row
      BY <1>0, <3>1 DEF CallStates
    <3>3. CASE RowAlive(c)
      <4>1. rows'[key] = [rows[key] EXCEPT !.parts = NoParts]
        BY <1>0, <1>6, <3>3, Zenon DEF DeleteParts
      <4>2. rows'[key] \in Row /\ rows'[key].id = call[c].row.id
        BY <1>0, <3>3, <4>1, PartsType, Zenon DEF Row, RowAlive
      <4> QED
        BY <1>0, <3>1, <3>2, <4>2, Zenon DEF Owes, RowAlive
    <3>4. CASE ~RowAlive(c)
      BY <1>6, <3>1, <3>4, Zenon DEF DeleteParts, Owes
    <3> QED
      BY <3>3, <3>4
  <2> QED
    BY <2>1, <2>2
<1>7. ASSUME NEW v \in Vals, InsertPart(c, v)
      PROVE  Owes(c)' /\ \A d \in Calls \ {c} : call'[d] = call[d]
  <2>1. CASE Less(call[c].todo, v) = NoParts
    BY <1>2, <1>7, <2>1, Zenon DEF InsertPart
  <2>2. CASE Less(call[c].todo, v) # NoParts
    <3>1. /\ call'[c] = [call[c] EXCEPT !.todo = Less(call[c].todo, v)]
          /\ \A d \in Calls \ {c} : call'[d] = call[d]
      BY <1>1, <1>7, <2>2, Zenon DEF InsertPart
    <3>2. call'[c].pc = "insert" /\ call'[c].key = key /\ call'[c].row = call[c].row
      BY <1>0, <1>7, <3>1, Zenon DEF CallStates, InsertPart
    <3> DEFINE more == [rows[key].parts EXCEPT ![v] = rows[key].parts[v] + 1]
    <3>3. rows[key] \in Row /\ rows[key].id = call[c].row.id
      BY <1>0, <1>7, Zenon DEF InsertPart, RowAlive
    <3>4. rows'[key] = [rows[key] EXCEPT !.parts = more]
      BY <1>0, <1>7, Zenon DEF InsertPart
    <3>5. more \in Parts
      BY <3>3, PartsType, Zenon DEF Row
    <3> HIDE DEF more
    <3>6. rows'[key] \in Row /\ rows'[key].id = call[c].row.id
      BY <3>3, <3>4, <3>5, Zenon DEF Row
    <3> QED
      BY <1>0, <3>1, <3>2, <3>6, Zenon DEF Owes, RowAlive
  <2> QED
    BY <2>1, <2>2
<1>8. CASE ReadCallParts(c)
  BY <1>1, <1>8 DEF ReadCallParts, Owes
<1> QED
  BY <1>3, <1>4, <1>5, <1>6, <1>7, <1>8, Zenon DEF CallStep, PartFails

(* A call that gives up leaves Current: if it owed a reload, it is missed. *)
LEMMA GiveUpCurrent ==
  ASSUME TypeInv, Current, NEW c \in Calls, GiveUp(c)
  PROVE  Current'
<1>0. call \in [Calls -> CallStates] /\ UNCHANGED <<rows, queue, reload, served, up>>
  BY DEF GiveUp, TypeInv, TypeOK
<1>1. CASE Owes(c)
  BY <1>1, Zenon DEF GiveUp, Current
<1>2. CASE ~Owes(c)
  <2>1. ~missed' => ~missed
    BY Zenon DEF GiveUp
  <2>2. ASSUME NEW d \in Calls, Owes(d) PROVE Owes(d)'
    <3>1. call'[d] = call[d]
      BY <1>0, <1>2, <2>2 DEF GiveUp
    <3> QED
      BY <1>0, <2>2, <3>1, Zenon DEF Owes, RowAlive
  <2>3. Pending => Pending'
    BY <1>0, <2>2 DEF Pending
  <2>4. Buildable(rows)' <=> Buildable(rows)
    BY <1>0, Zenon DEF Buildable, NeedsBootstrap, ZoneBuilds, Servers, On
  <2>5. Config(rows)' = Config(rows)
    BY <1>0 DEF Config, On
  <2> QED
    BY <1>0, <2>1, <2>3, <2>4, <2>5, Zenon DEF Current, ReadIsCurrent
<1> QED
  BY <1>1, <1>2

(* A step of a call keeps Current: either it leaves a reload pending or    *)
(* nothing that Current speaks of has changed.                             *)
LEMMA CallStepCurrent ==
  ASSUME TypeInv, Current, NEW c \in Calls, CallStep(c)
  PROVE  Current'
<1>0. SUFFICES ASSUME ~GiveUp(c) PROVE Current'
  BY GiveUpCurrent
<1>1. UNCHANGED <<queue, reload, served, up, missed>>
  BY <1>0, Zenon DEF CallStep, InsertRow, ReadCallParts, UpdateRow, DeleteRow, DeleteParts, InsertPart,
         PartFails
<1>2. CASE rows' # rows
  BY <1>0, <1>2, WritersOwe DEF Current, Pending
<1>3. CASE rows' = rows
  <2>1. ASSUME NEW d \in Calls, Owes(d) PROVE Owes(d)'
    <3>1. CASE d = c
      BY <1>0, <1>3, <2>1, <3>1, WritersOwe
    <3>2. CASE d # c
      <4>1. call'[d] = call[d]
        BY <1>0, <3>2, WritersOwe
      <4> QED
        BY <1>3, <2>1, <4>1, Zenon DEF Owes, RowAlive
    <3> QED
      BY <3>1, <3>2
  <2>2. Pending => Pending'
    BY <1>1, <2>1 DEF Pending
  <2>3. (Buildable(rows)' <=> Buildable(rows)) /\ Config(rows)' = Config(rows)
    BY <1>3, Zenon DEF Buildable, NeedsBootstrap, ZoneBuilds, Servers, Config, On
  <2> QED
    BY <1>1, <1>3, <2>2, <2>3, Zenon DEF Current, ReadIsCurrent
<1> QED
  BY <1>2, <1>3

(* A step that leaves the database and the calls alone leaves Pending to   *)
(* the channel.                                                            *)
LEMMA PendingFrame ==
  ASSUME UNCHANGED <<rows, call, queue>>
  PROVE  Pending' <=> Pending
BY Zenon DEF Pending, Owes, RowAlive

(* Each query adds the keys of its table to those read.                    *)
LEMMA ReadKeysGrow ==
  /\ ReadKeys("settings") = ReadKeys("lists") \cup Lists
  /\ ReadKeys("bootstraps") = ReadKeys("settings") \cup Settings
  /\ ReadKeys("upstreams") = ReadKeys("bootstraps")
  /\ ReadKeys("zones") = ReadKeys("upstreams") \cup Upstreams
  /\ ReadKeys("servers") = ReadKeys("zones") \cup Zones
  /\ ReadKeys("sources") = ReadKeys("servers")
  /\ ReadKeys("types") = ReadKeys("sources") \cup Sources
  /\ ReadKeys("build") = ReadKeys("types")
  /\ \A pc : ReadKeys(pc) \subseteq Key
  /\ Lists \subseteq Key /\ Settings \subseteq Key /\ Upstreams \subseteq Key
  /\ Zones \subseteq Key /\ Sources \subseteq Key
BY DEF ReadKeys, Key

(* Reading keeps Current: the rows just read are the ones in the database. *)
LEMMA ReadCurrent ==
  ASSUME TypeInv, Current, apply_db_config
  PROVE  Current'
<1>0. /\ rows \in [Key -> Row \cup {NoRow}]
      /\ UNCHANGED <<rows, call, queue, served, up, missed>>
      /\ reload' \in ReloadStates
  BY ReadTypeInv DEF TypeInv, TypeOK
<1>1. SUFFICES ASSUME ~missed, ~Pending PROVE ReadIsCurrent' /\ reload'.pc # "idle"
  BY <1>0, PendingFrame DEF Current
<1>2. ReadIsCurrent
  BY <1>1 DEF Current
<1>3. ASSUME NEW pc, NEW keys \in SUBSET Key, NEW next, ReadTable(pc, keys, next),
             ReadKeys(next) = ReadKeys(pc) \cup keys
      PROVE  ReadIsCurrent' /\ reload'.pc = next
  BY <1>0, <1>2, <1>3, ReadKeysGrow, Zenon DEF ReadIsCurrent, ReadTable
<1>4. ASSUME NEW pc, NEW keys, NEW next, ReadParts(pc, keys, next), ReadKeys(next) = ReadKeys(pc)
      PROVE  ReadIsCurrent' /\ reload'.pc = next
  <2>1. reload.pc = pc /\ reload'.pc = next
    BY <1>4, Zenon DEF ReadParts
  <2>2. ASSUME NEW k \in ReadKeys(pc)
        PROVE  reload'.rows[k] = rows[k]
    <3>1. k \in Key /\ reload.rows[k] = rows[k]
      BY <1>2, <2>1, ReadKeysGrow, Zenon DEF ReadIsCurrent
    <3>2. CASE k \in keys /\ rows[k] # NoRow
      <4>1. rows[k] \in Row
        BY <1>0, <3>1, <3>2
      <4>2. [rows[k] EXCEPT !.parts = rows[k].parts] = rows[k]
        BY <4>1, Zenon DEF Row
      <4> QED
        BY <1>4, <3>1, <3>2, <4>2, Zenon DEF ReadParts
    <3>3. CASE ~(k \in keys /\ rows[k] # NoRow)
      BY <1>4, <3>1, <3>3, Zenon DEF ReadParts
    <3> QED
      BY <3>2, <3>3
  <2> QED
    BY <1>0, <1>4, <2>1, <2>2, Zenon DEF ReadIsCurrent
<1>5. CASE ReadTable("lists", Lists, "settings")
  BY <1>3, <1>5, ReadKeysGrow
<1>6. CASE ReadTable("settings", Settings, "bootstraps")
  BY <1>3, <1>6, ReadKeysGrow
<1>7. CASE ReadParts("bootstraps", Settings, "upstreams")
  BY <1>4, <1>7, ReadKeysGrow
<1>8. CASE ReadTable("upstreams", Upstreams, "zones")
  BY <1>3, <1>8, ReadKeysGrow
<1>9. CASE ReadTable("zones", Zones, "servers")
  BY <1>3, <1>9, ReadKeysGrow
<1>10. CASE ReadParts("servers", Zones, "sources")
  BY <1>4, <1>10, ReadKeysGrow
<1>11. CASE ReadTable("sources", Sources, "types")
  BY <1>3, <1>11, ReadKeysGrow
<1>12. CASE ReadParts("types", Sources, "build")
  BY <1>4, <1>12, ReadKeysGrow
<1> QED
  BY <1>5, <1>6, <1>7, <1>8, <1>9, <1>10, <1>11, <1>12, Zenon DEF apply_db_config

(* Every step keeps Current.                                               *)
LEMMA NextCurrent ==
  ASSUME TypeInv, Current, [Next]_vars
  PROVE  Current'
<1>0. /\ rows \in [Key -> Row \cup {NoRow}]
      /\ reload.rows \in [Key -> Row \cup {NoRow}]
      /\ call \in [Calls -> CallStates]
      /\ queue \in Nat
  BY CapacityAssumption DEF TypeInv, TypeOK, ReloadStates
<1>1. ASSUME NEW c \in Calls, Add(c) \/ Update(c) \/ Delete(c) PROVE Current'
  <2>1. PICK s \in CallStates : call' = [call EXCEPT ![c] = s]
    BY <1>1, StartTypes, Zenon
  <2>2. call[c].pc = "idle" /\ UNCHANGED <<rows, queue, reload, served, up, missed>>
    BY <1>1, StartTypes, Zenon
  <2>3. \A d \in Calls : Owes(d) => Owes(d)'
    BY <1>0, <2>1, <2>2, Zenon DEF Owes, RowAlive
  <2>4. Pending => Pending'
    BY <2>2, <2>3 DEF Pending
  <2>5. (Buildable(rows)' <=> Buildable(rows)) /\ Config(rows)' = Config(rows)
    BY <2>2, Zenon DEF Buildable, NeedsBootstrap, ZoneBuilds, Servers, Config, On
  <2> QED
    BY <2>2, <2>4, <2>5, Zenon DEF Current, ReadIsCurrent
<1>2. ASSUME NEW c \in Calls, CallStep(c) PROVE Current'
  BY <1>2, CallStepCurrent
<1>3. ASSUME NEW c \in Calls, SendReload(c) PROVE Current'
  <2>1. queue' > 0
    BY <1>0, <1>3 DEF SendReload
  <2> QED
    BY <2>1 DEF Current, Pending
<1>4. ASSUME NEW c \in Calls, DatabaseError(c) \/ Disconnect(c) PROVE Current'
  BY <1>4, GiveUpCurrent DEF DatabaseError, Disconnect
<1>5. CASE TriggerReload
  <2>1. queue' > 0
    BY <1>0, <1>5 DEF TriggerReload
  <2> QED
    BY <2>1 DEF Current, Pending
<1>6. CASE ReceiveReload
  BY <1>6, Zenon DEF ReceiveReload, IdleReload, Current, ReadIsCurrent, ReadKeys
<1>7. CASE apply_db_config
  BY <1>7, ReadCurrent
<1>8. ASSUME ~missed, ~Pending, reload.pc = "build" PROVE reload.rows = rows
  BY <1>0, <1>8 DEF Current, ReadIsCurrent, ReadKeys
<1>9. reload'.pc = "idle" => ReadIsCurrent'
  BY DEF ReadIsCurrent, ReadKeys
<1>10. CASE SwapPipeline
  <2>1. UNCHANGED <<rows, call, queue, missed>> /\ reload.pc = "build" /\ reload'.pc = "idle"
    BY <1>10, IdleTypes DEF SwapPipeline
  <2>2. ASSUME ~missed, ~Pending PROVE served' = Config(rows)
    BY <1>8, <1>10, <2>1, <2>2 DEF SwapPipeline
  <2>3. Config(rows)' = Config(rows)
    BY <2>1 DEF Config, On
  <2> QED
    BY <1>9, <2>1, <2>2, <2>3, PendingFrame DEF Current
<1>11. CASE KeepPipeline
  <2>1. UNCHANGED <<rows, call, queue>> /\ reload.pc = "build" /\ reload'.pc = "idle"
    BY <1>11, IdleTypes DEF KeepPipeline
  <2>2. ASSUME ~missed', ~Pending PROVE ~Buildable(rows)
    <3>1. ~missed /\ ~Buildable(reload.rows)
      BY <1>11, <2>2, Zenon DEF KeepPipeline
    <3> QED
      BY <1>8, <2>1, <2>2, <3>1
  <2>3. Buildable(rows)' <=> Buildable(rows)
    BY <2>1, Zenon DEF Buildable, NeedsBootstrap, ZoneBuilds, Servers, On
  <2> QED
    BY <1>9, <2>1, <2>2, <2>3, PendingFrame DEF Current
<1>12. CASE Restart
  <2>1. rows' = rows /\ reload'.pc = "idle" /\ (up' => served' = Config(rows))
    BY <1>12, IdleTypes DEF Restart
  <2>2. Config(rows)' = Config(rows)
    BY <2>1, Zenon DEF Config, On
  <2> QED
    BY <1>9, <2>1, <2>2 DEF Current
<1>13. CASE ReadFails
  BY <1>13 DEF ReadFails, Current
<1>14. CASE UNCHANGED vars
  <2>1. UNCHANGED <<rows, call, queue, reload, served, up, missed>>
    BY <1>14 DEF vars
  <2>2. (Buildable(rows)' <=> Buildable(rows)) /\ Config(rows)' = Config(rows)
    BY <2>1, Zenon DEF Buildable, NeedsBootstrap, ZoneBuilds, Servers, Config, On
  <2> QED
    BY <2>1, <2>2, PendingFrame, Zenon DEF Current, ReadIsCurrent
<1> QED
  BY <1>1, <1>2, <1>3, <1>4, <1>5, <1>6, <1>7, <1>10, <1>11, <1>12, <1>13, <1>14 DEF Next, ReloadTask

(* A configuration built from rows that can be built from is usable.       *)
LEMMA BuildableIsUsable ==
  ASSUME NEW rs \in [Key -> Row \cup {NoRow}], Buildable(rs)
  PROVE  Usable(Config(rs))
<1>0. Upstreams \subseteq Key /\ Zones \subseteq Key /\ Settings \subseteq Key
  BY DEF Key
<1>1. ASSUME NEW k \in Key, On(rs[k])
      PROVE  /\ Config(rs)[k] # Absent
             /\ Config(rs)[k].val = rs[k].val
             /\ Config(rs)[k].parts = rs[k].parts
  <2>1. Config(rs)[k] = [val |-> rs[k].val, parts |-> rs[k].parts]
    BY <1>1 DEF Config
  <2>2. [val |-> rs[k].val, parts |-> rs[k].parts] \in Items
    BY <1>1 DEF On, Row, Items
  <2>3. Config(rs)[k] # Absent
    BY <2>1, <2>2, NoneAssumption
  <2> QED
    BY <2>1, <2>3
<1>2. ASSUME NEW k \in Key, Config(rs)[k] # Absent PROVE On(rs[k])
  BY <1>2 DEF Config
<1>3. \E u \in Upstreams : Config(rs)[u] # Absent
  BY <1>0, <1>1, Zenon DEF Buildable
<1>4. ASSUME NEW k \in Key, Config(rs)[k] # Absent PROVE Config(rs)[k].val \in Good
  <2>1. On(rs[k])
    BY <1>2, <1>4
  <2>2. rs[k].val \in Good
    BY <2>1 DEF Buildable
  <2> QED
    BY <1>1, <2>1, <2>2, Zenon
<1>5. ASSUME NEW z \in Zones, Config(rs)[z] # Absent,
             NEW built, built = {v \in Vals \ Disabled : Config(rs)[z].parts[v] > 0}
      PROVE  /\ built # {} /\ built \subseteq Good
             /\ built \cap Json = {} \/ \E v \in Json : built = {v} /\ Config(rs)[z].parts[v] = 1
  <2>1. z \in Key /\ On(rs[z])
    BY <1>0, <1>2, <1>5, Zenon
  <2>2. ZoneBuilds(rs[z].parts)
    BY <2>1 DEF Buildable
  <2>3. Config(rs)[z].parts = rs[z].parts
    BY <1>1, <2>1, Zenon
  <2>4. built = Servers(rs[z].parts)
    BY <1>5, <2>3, Zenon DEF Servers
  <2> QED
    BY <2>2, <2>3, <2>4, Zenon DEF ZoneBuilds
<1>6. ASSUME NEW k \in Settings, Config(rs)[k] # Absent, Config(rs)[k].parts = NoParts,
             NEW u \in Upstreams, Config(rs)[u] # Absent
      PROVE  Config(rs)[u].val \notin Named
  <2>1. k \in Key /\ On(rs[k]) /\ u \in Key /\ On(rs[u])
    BY <1>0, <1>2, <1>6
  <2>2. rs[k].parts = NoParts /\ Config(rs)[u].val = rs[u].val
    BY <1>1, <1>6, <2>1, Zenon
  <2> QED
    BY <2>1, <2>2, Zenon DEF Buildable, NeedsBootstrap
<1> QED
  BY <1>3, <1>4, <1>5, <1>6, Zenon DEF Usable

-----------------------------------------------------------------------------
(* The rows, the calls, the channel and the reload task keep their types   *)
(* in every run of the daemon; the channel never exceeds its capacity.     *)
THEOREM TypeCorrect == Spec => []TypeOK
<1>1. TypeInv => TypeOK
  BY DEF TypeInv
<1> QED
  BY <1>1, InitTypeInv, NextTypeInv, PTL DEF Spec

(* Whenever nothing is on its way, a database that can be built from is    *)
(* what is served, unless a call gave up half-way or the last reload met a *)
(* fault from outside: no interleaving of calls with the reads of the      *)
(* reload task loses a change.                                             *)
THEOREM ChangesApplied == Spec => []AppliedWhenQuiet
<1>1. Init => Current
  BY IdleTypes, Zenon DEF Init, Current, ReadIsCurrent, ReadKeys
<1>2. TypeInv /\ Current /\ [Next]_vars => Current'
  BY NextCurrent
<1>3. Current => AppliedWhenQuiet
  <2>1. Quiet => ~Pending
    BY DEF Quiet, Pending, Owes
  <2> QED
    BY <2>1, Zenon DEF Current, AppliedWhenQuiet, Quiet
<1> QED
  BY <1>1, <1>2, <1>3, InitTypeInv, NextTypeInv, PTL DEF Spec

(* Whatever fails, and whatever mixture of rows a reload has read, the     *)
(* pipeline in the slot has an upstream and servers for each of its zones. *)
THEOREM ServedUsable == Spec => []ServedIsUsable
<1>1. Init => ServedIsUsable
  <2> SUFFICES ASSUME Init PROVE ServedIsUsable
    OBVIOUS
  <2>1. rows \in [Key -> Row \cup {NoRow}] /\ Buildable(rows) /\ served = Config(rows)
    BY SeedsAssumption DEF Init
  <2> QED
    BY <2>1, BuildableIsUsable DEF ServedIsUsable
<1>2. TypeInv /\ ServedIsUsable /\ [Next]_vars => ServedIsUsable'
  <2> SUFFICES ASSUME TypeInv, ServedIsUsable, [Next]_vars PROVE Usable(served')
    BY Zenon DEF ServedIsUsable, Usable
  <2>0. /\ rows \in [Key -> Row \cup {NoRow}]
        /\ reload.rows \in [Key -> Row \cup {NoRow}]
    BY DEF TypeInv, TypeOK, ReloadStates
  <2>1. CASE SwapPipeline
    BY <2>0, <2>1, BuildableIsUsable DEF SwapPipeline
  <2>2. CASE Restart
    BY <2>0, <2>2, BuildableIsUsable, Zenon DEF Restart, ServedIsUsable
  <2>3. CASE served' = served
    BY <2>3 DEF ServedIsUsable
  <2>4. ASSUME NEW c \in Calls,
               Add(c) \/ Update(c) \/ Delete(c) \/ CallStep(c) \/ SendReload(c)
               \/ DatabaseError(c) \/ Disconnect(c)
        PROVE  served' = served
    BY <2>4, StartTypes, Zenon DEF CallStep, InsertRow, UpdateRow, DeleteRow, ReadCallParts,
       DeleteParts, InsertPart, PartFails, GiveUp, SendReload, DatabaseError, Disconnect
  <2>5. CASE TriggerReload \/ ReceiveReload \/ apply_db_config \/ ReadFails \/ KeepPipeline
             \/ UNCHANGED vars
    BY <2>3, <2>5, ReadTypeInv, Zenon DEF TriggerReload, ReceiveReload, ReadFails, KeepPipeline, vars
  <2> QED
    BY <2>1, <2>2, <2>3, <2>4, <2>5 DEF Next, ReloadTask
<1> QED
  BY <1>1, <1>2, InitTypeInv, NextTypeInv, PTL DEF Spec

=============================================================================
