--------------------------- MODULE EdgeSyncProofs ---------------------------
(***************************************************************************)
(* Proofs about EdgeSync, for every set of instances, requests, domains,   *)
(* records, keys and values, and every bound.                              *)
(***************************************************************************)
EXTENDS EdgeSync, TLAPS

-----------------------------------------------------------------------------
(***************************************************************************)
(* Type correctness.  TypeOK is not inductive: the store's type depends on *)
(* a handler holding a record's fields by the time it calls PutRecord.     *)
(***************************************************************************)
\* The fields a request holds, from its operation and its place in the handler.
WellFormed(q) ==
    /\ q.pc # "idle" => q.node \in Nodes /\ q.zone \in Apexes
    /\ q.op \in {"createRecord", "updateRecord"} => q.key \in Keys /\ q.val \in Vals
    /\ q.op \in {"updateRecord", "deleteRecord"} => q.id \in Ids
    /\ q.pc = "getZone" => q.op \in {"createRecord", "updateRecord", "deleteRecord"}
    /\ q.pc \in {"insertRecord", "fetchRecord"} => q.op = "createRecord"
    /\ q.pc = "updateRecord" => q.op = "updateRecord"
    /\ q.pc \in {"softDeleteRecord", "DropRecord"} => q.op = "deleteRecord"
    /\ q.pc = "PutRecord" => q.op \in {"createRecord", "updateRecord"} /\ q.id \in Ids

TypeInv == TypeOK /\ \A h \in Reqs : WellFormed(req[h])

\* The store's operations yield stores.
LEMMA StoreTypes ==
    ASSUME NEW s \in Store, NEW a \in Apexes, NEW id \in Ids, NEW rec \in Entry
    PROVE  /\ NewStore \in Store
           /\ Update(s, a, {}) \in Store
           /\ Delete(s, a) \in Store
           /\ PutRecord(s, rec) \in Store
           /\ DropRecord(s, a, id) \subseteq Store
<1>1. NewStore \in Store
  BY DEF NewStore, Store
<1>2. Update(s, a, {}) \in Store
  BY DEF Update, Store
<1>3. Delete(s, a) \in Store
  BY DEF Delete, Store
<1>4. PutRecord(s, rec) \in Store
  BY DEF PutRecord, Store, Entry
<1>5. DropRecord(s, a, id) \subseteq Store
  BY DEF DropRecord, Copies, Store
<1> QED
  BY <1>1, <1>2, <1>3, <1>4, <1>5

\* A row gives an entry; a loaded table gives a store.
LEMMA EntryTypes ==
    /\ \A r \in Row : EntryOf(r) \in Entry
    /\ \A R \in SUBSET Row :
          [zones |-> {r.zone : r \in R}, recs |-> {EntryOf(r) : r \in R}] \in Store
<1>1. \A r \in Row : EntryOf(r) \in Entry
  BY DEF EntryOf, Row, Entry
<1>2. ASSUME NEW R \in SUBSET Row
      PROVE  [zones |-> {r.zone : r \in R}, recs |-> {EntryOf(r) : r \in R}] \in Store
  <2>1. {r.zone : r \in R} \in SUBSET Apexes
    BY DEF Row
  <2>2. {EntryOf(r) : r \in R} \in SUBSET Entry
    BY <1>1
  <2> QED
    BY <2>1, <2>2 DEF Store
<1> QED
  BY <1>1, <1>2

\* The tables' part of TypeOK.
PgTypeOK == clock \in Nat /\ zoneRows \subseteq ZoneRow /\ recRows \subseteq Row

\* Every writing statement keeps the tables' types.
LEMMA StatementTypes ==
    ASSUME PgTypeOK, NEW a \in Apexes,
           \/ InsertZone(a)
           \/ SoftDeleteZone(a)
           \/ \E id \in Ids, k \in Keys, v \in Vals :
                 InsertRecord(a, id, k, v) \/ UpdateRecord(a, id, k, v)
           \/ \E id \in Ids : SoftDeleteRecord(a, id)
    PROVE  PgTypeOK'
<1>0. Stamps \subseteq Nat /\ clock + 1 \in Nat
  BY DEF PgTypeOK, Stamps
<1>a. \A z \in ZoneRow, Z \in SUBSET ZoneRow : Z \cup {z} \subseteq ZoneRow
  OBVIOUS
<1>b. \A r \in Row, R \in SUBSET Row : R \cup {r} \subseteq Row
  OBVIOUS
<1>c. \A u \in Stamps, gone \in BOOLEAN : [name |-> a, deleted |-> gone, upd |-> u] \in ZoneRow
  BY <1>0 DEF ZoneRow
<1>d. \A id \in Ids, k \in Keys, v \in Vals, gone \in BOOLEAN, u \in Stamps :
         RowVersion(a, id, k, v, gone, u) \in Row
  BY <1>0 DEF Row, RowVersion
<1>1. CASE InsertZone(a)
  BY <1>0, <1>1, <1>a, <1>c DEF PgTypeOK, InsertZone, Commit
<1>2. CASE SoftDeleteZone(a)
  BY <1>0, <1>2, <1>a, <1>c DEF PgTypeOK, SoftDeleteZone, Commit
<1>3. CASE \E id \in Ids, k \in Keys, v \in Vals : InsertRecord(a, id, k, v)
  BY <1>0, <1>3, <1>b, <1>d DEF PgTypeOK, InsertRecord, Commit
<1>4. CASE \E id \in Ids, k \in Keys, v \in Vals : UpdateRecord(a, id, k, v)
  BY <1>0, <1>4, <1>b, <1>d DEF PgTypeOK, UpdateRecord, Commit
<1>5. CASE \E id \in Ids : SoftDeleteRecord(a, id)
  <2>1. \A r \in recRows : r.key \in Keys /\ r.val \in Vals
    BY DEF PgTypeOK, Row
  <2> QED
    BY <1>0, <1>5, <1>b, <1>d, <2>1 DEF PgTypeOK, SoftDeleteRecord, Commit
<1> QED
  BY <1>1, <1>2, <1>3, <1>4, <1>5

\* Replacing one request by a well-formed one.
LEMMA ReqTypes ==
    ASSUME TypeInv, NEW h \in Reqs, NEW q \in Request, WellFormed(q),
           req' = [req EXCEPT ![h] = q]
    PROVE  req' \in [Reqs -> Request] /\ \A g \in Reqs : WellFormed(req'[g])
BY DEF TypeInv, TypeOK

\* The requests that Goto, Returned and Done leave in a slot.
LEMMA NoReqTypes == NoReq \in Request /\ WellFormed(NoReq)
BY DEF NoReq, Request, Ops, WellFormed

\* What the fields of a request in flight are.
LEMMA ReqFields ==
    ASSUME TypeInv, NEW h \in Reqs
    PROVE  /\ req[h] \in Request /\ WellFormed(req[h])
           /\ req[h].pc # "idle" => req[h].node \in Nodes /\ req[h].zone \in Apexes
BY DEF TypeInv, TypeOK, WellFormed

\* A handler that goes on to its next step is still a request.
LEMMA GotoTypes ==
    ASSUME TypeInv, NEW h \in Reqs, NEW pc \in PgPcs \cup MemPcs, req[h].pc # "idle",
           WellFormed([req[h] EXCEPT !.pc = pc]), Goto(h, pc)
    PROVE  req' \in [Reqs -> Request] /\ \A g \in Reqs : WellFormed(req'[g])
<1>1. [req[h] EXCEPT !.pc = pc] \in Request
  BY ReqFields DEF Request
<1>2. req' = [req EXCEPT ![h] = [req[h] EXCEPT !.pc = pc]]
  BY DEF Goto
<1> QED
  BY <1>1, <1>2, ReqTypes

\* A handler that goes on with a returned row is still a request.
LEMMA ReturnedTypes ==
    ASSUME TypeInv, NEW h \in Reqs, NEW id \in Ids, NEW ver \in Nat,
           req[h].pc # "idle", req[h].op \in {"createRecord", "updateRecord"},
           Returned(h, id, ver)
    PROVE  req' \in [Reqs -> Request] /\ \A g \in Reqs : WellFormed(req'[g])
<1> DEFINE q == [req[h] EXCEPT !.pc = "PutRecord", !.id = id, !.ver = ver]
<1>1. q \in Request
  BY ReqFields DEF Request, MemPcs
<1>2. WellFormed(q)
  BY ReqFields DEF Request, WellFormed
<1>3. req' = [req EXCEPT ![h] = q]
  BY DEF Returned
<1> QED
  BY <1>1, <1>2, <1>3, ReqTypes

\* A request that arrives has the fields its operation needs.
LEMMA BeginTypes ==
    ASSUME TypeInv, NEW h \in Reqs, Begins(h)
    PROVE  TypeInv'
<1>1. PICK i \in Nodes, a \in Apexes :
        \/ BeginCreateDomain(h, i, a)
        \/ BeginDeleteDomain(h, i, a)
        \/ \E k \in Keys, v \in Vals : BeginCreateRecord(h, i, a, k, v)
        \/ \E id \in Ids, k \in Keys, v \in Vals : BeginUpdateRecord(h, i, a, id, k, v)
        \/ \E id \in Ids : BeginDeleteRecord(h, i, a, id)
  BY DEF Begins
<1>2. ASSUME NEW q \in Request, WellFormed(q), Begin(h, q)
      PROVE  TypeInv'
  <2>1. req' \in [Reqs -> Request] /\ \A g \in Reqs : WellFormed(req'[g])
    BY <1>2, ReqTypes DEF Begin
  <2> QED
    BY <2>1, <1>2 DEF Begin, TypeInv, TypeOK, pgVars
<1>3. CASE BeginCreateDomain(h, i, a)
  <2> DEFINE q == [NoReq EXCEPT !.pc = "insertZone", !.op = "createDomain",
                                !.node = i, !.zone = a]
  <2>1. q \in Request /\ WellFormed(q)
    BY NoReqTypes DEF NoReq, Request, Ops, PgPcs, WellFormed
  <2> QED
    BY <1>2, <1>3, <2>1 DEF BeginCreateDomain
<1>4. CASE BeginDeleteDomain(h, i, a)
  <2> DEFINE q == [NoReq EXCEPT !.pc = "softDeleteZone", !.op = "deleteDomain",
                                !.node = i, !.zone = a]
  <2>1. q \in Request /\ WellFormed(q)
    BY NoReqTypes DEF NoReq, Request, Ops, PgPcs, WellFormed
  <2> QED
    BY <1>2, <1>4, <2>1 DEF BeginDeleteDomain
<1>5. ASSUME NEW k \in Keys, NEW v \in Vals, BeginCreateRecord(h, i, a, k, v)
      PROVE  TypeInv'
  <2> DEFINE q == [NoReq EXCEPT !.pc = "getZone", !.op = "createRecord",
                                !.node = i, !.zone = a, !.key = k, !.val = v]
  <2>1. q \in Request /\ WellFormed(q)
    BY NoReqTypes DEF NoReq, Request, Ops, PgPcs, WellFormed
  <2> QED
    BY <1>2, <1>5, <2>1 DEF BeginCreateRecord
<1>6. ASSUME NEW id \in Ids, NEW k \in Keys, NEW v \in Vals,
             BeginUpdateRecord(h, i, a, id, k, v)
      PROVE  TypeInv'
  <2> DEFINE q == [NoReq EXCEPT !.pc = "getZone", !.op = "updateRecord", !.node = i,
                                !.zone = a, !.id = id, !.key = k, !.val = v]
  <2>1. q \in Request /\ WellFormed(q)
    BY NoReqTypes DEF NoReq, Request, Ops, PgPcs, WellFormed
  <2> QED
    BY <1>2, <1>6, <2>1 DEF BeginUpdateRecord
<1>7. ASSUME NEW id \in Ids, BeginDeleteRecord(h, i, a, id)
      PROVE  TypeInv'
  <2> DEFINE q == [NoReq EXCEPT !.pc = "getZone", !.op = "deleteRecord", !.node = i,
                                !.zone = a, !.id = id]
  <2>1. q \in Request /\ WellFormed(q)
    BY NoReqTypes DEF NoReq, Request, Ops, PgPcs, WellFormed
  <2> QED
    BY <1>2, <1>7, <2>1 DEF BeginDeleteRecord
<1> QED
  BY <1>1, <1>3, <1>4, <1>5, <1>6, <1>7

\* A statement of a handler.
LEMMA StatementStepTypes ==
    ASSUME TypeInv, NEW h \in Reqs,
           \/ CreateZoneInsert(h) \/ CreateZoneFetch(h) \/ DeleteZone(h)
           \/ GetZone(h) \/ CreateRecordInsert(h) \/ CreateRecordFetch(h)
           \/ UpdateRecordRow(h) \/ DeleteRecordRow(h)
    PROVE  TypeInv'
<1> DEFINE q == req[h]
           ReqOK == req' \in [Reqs -> Request] /\ \A g \in Reqs : WellFormed(req'[g])
<1>1. q \in Request /\ WellFormed(q) /\ q.pc # "idle" /\ q.zone \in Apexes
  BY ReqFields DEF CreateZoneInsert, CreateZoneFetch, DeleteZone, GetZone, AtPg,
       CreateRecordInsert, CreateRecordFetch, UpdateRecordRow, DeleteRecordRow
<1>2. UNCHANGED <<phase, store, lastAt, sync, faults>>
  BY DEF CreateZoneInsert, CreateZoneFetch, DeleteZone, GetZone, AtPg,
       CreateRecordInsert, CreateRecordFetch, UpdateRecordRow, DeleteRecordRow
<1>3. PgTypeOK /\ (UNCHANGED pgVars => PgTypeOK')
  BY DEF TypeInv, TypeOK, PgTypeOK, pgVars
<1>4. Done(h) => ReqOK
  BY NoReqTypes, ReqTypes DEF Done
<1>5. \A r \in recRows : r.id \in Ids /\ r.ver \in Nat
  BY <1>3 DEF PgTypeOK, Row
<1>6. clock + 1 \in Nat
  BY <1>3 DEF PgTypeOK
<1>7. SUFFICES PgTypeOK' /\ ReqOK
  BY <1>2 DEF TypeInv, TypeOK, PgTypeOK
<1>8. CASE CreateZoneInsert(h)
  <2>1. \A pc \in {"Update", "fetchZone"} : WellFormed([q EXCEPT !.pc = pc])
    BY <1>1 DEF WellFormed, Request
  <2>2. Goto(h, "Update") \/ Goto(h, "fetchZone") => ReqOK
    BY <1>1, <2>1, GotoTypes DEF PgPcs, MemPcs
  <2> QED
    BY <1>1, <1>3, <1>8, <2>2, StatementTypes DEF CreateZoneInsert
<1>9. CASE CreateZoneFetch(h)
  <2>1. WellFormed([q EXCEPT !.pc = "Update"])
    BY <1>1 DEF WellFormed, Request
  <2>2. Goto(h, "Update") => ReqOK
    BY <1>1, <2>1, GotoTypes DEF PgPcs, MemPcs
  <2> QED
    BY <1>3, <1>4, <1>9, <2>2 DEF CreateZoneFetch
<1>10. CASE DeleteZone(h)
  <2>1. WellFormed([q EXCEPT !.pc = "Delete"])
    BY <1>1 DEF WellFormed, Request
  <2>2. Goto(h, "Delete") => ReqOK
    BY <1>1, <2>1, GotoTypes DEF PgPcs, MemPcs
  <2> QED
    BY <1>1, <1>3, <1>4, <1>10, <2>2, StatementTypes DEF DeleteZone
<1>11. CASE GetZone(h)
  <2>1. q.op \in {"createRecord", "updateRecord", "deleteRecord"}
    BY <1>1, <1>11 DEF GetZone, AtPg, WellFormed
  <2>2. /\ AfterGetZone(q.op) \in PgPcs
        /\ WellFormed([q EXCEPT !.pc = AfterGetZone(q.op)])
    BY <1>1, <2>1 DEF AfterGetZone, PgPcs, WellFormed, Request
  <2>3. Goto(h, AfterGetZone(q.op)) => ReqOK
    BY <1>1, <2>2, GotoTypes
  <2> QED
    BY <1>3, <1>4, <1>11, <2>3 DEF GetZone
<1>12. CASE CreateRecordInsert(h)
  <2>1. q.op = "createRecord" /\ q.key \in Keys /\ q.val \in Vals
    BY <1>1, <1>12 DEF CreateRecordInsert, AtPg, WellFormed
  <2>2. WellFormed([q EXCEPT !.pc = "fetchRecord"])
    BY <1>1, <2>1 DEF WellFormed, Request
  <2>3. Goto(h, "fetchRecord") => ReqOK
    BY <1>1, <2>2, GotoTypes DEF PgPcs
  <2>4. \A id \in Ids : Returned(h, id, clock + 1) => ReqOK
    BY <1>1, <1>6, <2>1, ReturnedTypes
  <2> QED
    BY <1>1, <1>3, <1>4, <1>12, <2>1, <2>3, <2>4, StatementTypes DEF CreateRecordInsert
<1>13. CASE CreateRecordFetch(h)
  <2>1. q.op = "createRecord"
    BY <1>1, <1>13 DEF CreateRecordFetch, AtPg, WellFormed
  <2>2. \A r \in recRows : Returned(h, r.id, r.ver) => ReqOK
    BY <1>1, <1>5, <2>1, ReturnedTypes
  <2> QED
    BY <1>3, <1>4, <1>13, <2>2 DEF CreateRecordFetch, ActiveRows
<1>14. CASE UpdateRecordRow(h)
  <2>1. q.op = "updateRecord" /\ q.id \in Ids /\ q.key \in Keys /\ q.val \in Vals
    BY <1>1, <1>14 DEF UpdateRecordRow, AtPg, WellFormed
  <2>2. Returned(h, q.id, clock + 1) => ReqOK
    BY <1>1, <1>6, <2>1, ReturnedTypes
  <2> QED
    BY <1>1, <1>3, <1>4, <1>14, <2>1, <2>2, StatementTypes DEF UpdateRecordRow
<1>15. CASE DeleteRecordRow(h)
  <2>1. q.op = "deleteRecord" /\ q.id \in Ids
    BY <1>1, <1>15 DEF DeleteRecordRow, AtPg, WellFormed
  <2>2. WellFormed([q EXCEPT !.pc = "DropRecord"])
    BY <1>1, <2>1 DEF WellFormed, Request
  <2>3. Goto(h, "DropRecord") => ReqOK
    BY <1>1, <2>2, GotoTypes DEF MemPcs
  <2> QED
    BY <1>1, <1>3, <1>4, <1>15, <2>1, <2>3, StatementTypes DEF DeleteRecordRow
<1> QED
  BY <1>8, <1>9, <1>10, <1>11, <1>12, <1>13, <1>14, <1>15

\* The record a handler hands to PutRecord.
HeldRecord(q) == [zone |-> q.zone, id |-> q.id, key |-> q.key, val |-> q.val,
                  ver |-> q.ver]

\* The four outcomes of a handler's last step, one per MemPcs.
LEMMA HandlerStoreCases ==
    ASSUME TypeInv, NEW h \in Reqs, HandlerStore(h)
    PROVE  /\ req[h].node \in Nodes /\ req[h].zone \in Apexes
           /\ req' = [req EXCEPT ![h] = NoReq]
           /\ UNCHANGED <<pgVars, phase, lastAt, sync, faults>>
           /\ \E t : /\ store' = [store EXCEPT ![req[h].node] = t]
                     /\ \/ /\ req[h].pc = "Update"
                           /\ t = Update(store[req[h].node], req[h].zone, {})
                        \/ /\ req[h].pc = "Delete"
                           /\ t = Delete(store[req[h].node], req[h].zone)
                        \/ /\ req[h].pc = "PutRecord" /\ HeldRecord(req[h]) \in Entry
                           /\ t = PutRecord(store[req[h].node], HeldRecord(req[h]))
                        \/ /\ req[h].pc = "DropRecord" /\ req[h].id \in Ids
                           /\ t \in DropRecord(store[req[h].node], req[h].zone, req[h].id)
<1>1. req[h].pc \in MemPcs
  BY DEF HandlerStore
<1>2. /\ req[h] \in Request /\ WellFormed(req[h])
      /\ req[h].node \in Nodes /\ req[h].zone \in Apexes
  BY <1>1, ReqFields DEF MemPcs
<1>3. req[h].pc = "PutRecord" => HeldRecord(req[h]) \in Entry
  BY <1>2 DEF WellFormed, HeldRecord, Entry, Request
<1>4. req[h].pc = "DropRecord" => req[h].id \in Ids
  BY <1>2 DEF WellFormed
<1>5. /\ req' = [req EXCEPT ![h] = NoReq]
      /\ UNCHANGED <<pgVars, phase, lastAt, sync, faults>>
  BY DEF HandlerStore, Done
<1>6. CASE req[h].pc = "Update"
  BY <1>2, <1>5, <1>6 DEF HandlerStore
<1>7. CASE req[h].pc = "Delete"
  BY <1>2, <1>5, <1>7 DEF HandlerStore
<1>8. CASE req[h].pc = "PutRecord"
  BY <1>2, <1>3, <1>5, <1>8 DEF HandlerStore, HeldRecord
<1>9. CASE req[h].pc = "DropRecord"
  BY <1>2, <1>4, <1>5, <1>9 DEF HandlerStore
<1> QED
  BY <1>1, <1>6, <1>7, <1>8, <1>9 DEF MemPcs

\* What the rest of the actions preserve.
LEMMA OtherStepTypes ==
    ASSUME TypeInv,
           \/ \E h \in Reqs : HandlerStore(h) \/ Abort(h)
           \/ \E i \in Nodes : SyncStep(i) \/ SyncError(i) \/ Crash(i) \/ Boot(i) \/ LoadAll(i)
           \/ \E a \in Apexes, id \in Ids, k \in Keys, v \in Vals :
                 OpsInsertRecord(a, id, k, v)
           \/ UNCHANGED vars
    PROVE  TypeInv'
<1> USE DEF TypeInv, TypeOK
<1>0. NoSync \in SyncState
  BY DEF NoSync, SyncState
<1>1. ASSUME NEW h \in Reqs, HandlerStore(h)
      PROVE  TypeInv'
  <2>1. PICK t : /\ store' = [store EXCEPT ![req[h].node] = t]
                 /\ \/ t = Update(store[req[h].node], req[h].zone, {})
                    \/ t = Delete(store[req[h].node], req[h].zone)
                    \/ /\ HeldRecord(req[h]) \in Entry
                       /\ t = PutRecord(store[req[h].node], HeldRecord(req[h]))
                    \/ /\ req[h].id \in Ids
                       /\ t \in DropRecord(store[req[h].node], req[h].zone, req[h].id)
    BY <1>1, HandlerStoreCases
  <2>2. req[h].node \in Nodes /\ req[h].zone \in Apexes
    BY <1>1, HandlerStoreCases
  <2>3. store[req[h].node] \in Store
    BY <2>2
  <2>4. t \in Store
    <3>1. CASE t = Update(store[req[h].node], req[h].zone, {})
      BY <2>2, <2>3, <3>1 DEF Update, Store
    <3>2. CASE t = Delete(store[req[h].node], req[h].zone)
      BY <2>2, <2>3, <3>2 DEF Delete, Store
    <3>3. CASE /\ HeldRecord(req[h]) \in Entry
               /\ t = PutRecord(store[req[h].node], HeldRecord(req[h]))
      BY <2>2, <2>3, <3>3 DEF PutRecord, Store, Entry
    <3>4. CASE /\ req[h].id \in Ids
               /\ t \in DropRecord(store[req[h].node], req[h].zone, req[h].id)
      BY <2>2, <2>3, <3>4 DEF DropRecord, Copies, Store
    <3> QED
      BY <2>1, <3>1, <3>2, <3>3, <3>4
  <2>5. req' \in [Reqs -> Request] /\ \A g \in Reqs : WellFormed(req'[g])
    BY <1>1, HandlerStoreCases, NoReqTypes, ReqTypes
  <2> QED
    BY <1>1, <2>1, <2>4, <2>5, HandlerStoreCases DEF pgVars
<1>2. ASSUME NEW h \in Reqs, Abort(h)
      PROVE  TypeInv'
  <2>1. req' \in [Reqs -> Request] /\ \A g \in Reqs : WellFormed(req'[g])
    BY <1>2, NoReqTypes, ReqTypes DEF Abort, Done
  <2> QED
    BY <1>2, <2>1 DEF Abort, Fault, pgVars
<1>3. ASSUME NEW i \in Nodes, StartSync(i) \/ QueryZones(i)
      PROVE  TypeInv'
  <2>0. IncrementalZones(lastAt[i]) \subseteq Apexes
    BY DEF IncrementalZones, ZoneRow
  <2>1. sync' \in [Nodes -> SyncState]
    BY <1>3, <2>0 DEF StartSync, QueryZones, SyncState
  <2> QED
    BY <1>3, <2>1 DEF StartSync, QueryZones, pgVars
<1>4. ASSUME NEW i \in Nodes, ApplyZone(i)
      PROVE  TypeInv'
  <2>1. PICK a \in sync[i].zset : /\ store' = [store EXCEPT ![i] = Delete(store[i], a)]
                                  /\ sync' = [sync EXCEPT ![i].zset = @ \ {a}]
    BY <1>4 DEF ApplyZone
  <2>2. a \in Apexes /\ store[i] \in Store
    BY <2>1 DEF SyncState
  <2>3. Delete(store[i], a) \in Store
    BY <2>2 DEF Delete, Store
  <2>4. sync' \in [Nodes -> SyncState]
    BY <2>1 DEF SyncState
  <2> QED
    BY <1>4, <2>1, <2>3, <2>4 DEF ApplyZone, pgVars
<1>5. ASSUME NEW i \in Nodes, QueryRecords(i)
      PROVE  TypeInv'
  <2>1. IncrementalRecords(lastAt[i]) \subseteq Row
    BY DEF IncrementalRecords
  <2>2. sync' \in [Nodes -> SyncState]
    BY <1>5, <2>1 DEF QueryRecords, SyncState
  <2> QED
    BY <1>5, <2>2 DEF QueryRecords, pgVars
<1>6. ASSUME NEW i \in Nodes, ApplyRecord(i)
      PROVE  TypeInv'
  <2>1. PICK r \in sync[i].rset :
          /\ \E t \in ApplyRow(store[i], r) : store' = [store EXCEPT ![i] = t]
          /\ sync' = [sync EXCEPT ![i].rset = @ \ {r}]
    BY <1>6 DEF ApplyRecord
  <2>2. r \in Row /\ store[i] \in Store
    BY <2>1 DEF SyncState
  <2>3. r.zone \in Apexes /\ r.id \in Ids /\ EntryOf(r) \in Entry
    BY <2>2, EntryTypes DEF Row
  <2>4. ApplyRow(store[i], r) \subseteq Store
    BY <2>2, <2>3, StoreTypes DEF ApplyRow
  <2>5. sync' \in [Nodes -> SyncState]
    BY <2>1 DEF SyncState
  <2> QED
    BY <1>6, <2>1, <2>4, <2>5 DEF ApplyRecord, pgVars
<1>7. ASSUME NEW i \in Nodes, EndSync(i) \/ SyncError(i)
      PROVE  TypeInv'
  <2>1. sync[i].start \in Nat
    BY DEF SyncState
  <2> QED
    BY <1>0, <1>7, <2>1 DEF EndSync, SyncError, Fault, pgVars
<1>8. ASSUME NEW i \in Nodes, Crash(i)
      PROVE  TypeInv'
  <2>1. NewStore \in Store
    BY DEF NewStore, Store
  <2>2. req' \in [Reqs -> Request] /\ \A g \in Reqs : WellFormed(req'[g])
    BY <1>8, NoReqTypes DEF Crash
  <2> QED
    BY <1>0, <1>8, <2>1, <2>2 DEF Crash, Fault, pgVars
<1>9. ASSUME NEW i \in Nodes, Boot(i) \/ LoadAll(i)
      PROVE  TypeInv'
  <2>1. LoadAllRows \in SUBSET Row
    BY DEF LoadAllRows
  <2> QED
    BY <1>9, <2>1, EntryTypes DEF Boot, LoadAll, pgVars
<1>10. ASSUME NEW a \in Apexes, NEW id \in Ids, NEW k \in Keys, NEW v \in Vals,
              OpsInsertRecord(a, id, k, v)
       PROVE  TypeInv'
  BY <1>10, StatementTypes DEF OpsInsertRecord, PgTypeOK
<1>11. CASE UNCHANGED vars
  BY <1>11 DEF vars
<1> QED
  BY <1>1, <1>2, <1>3, <1>4, <1>5, <1>6, <1>7, <1>8, <1>9, <1>10, <1>11 DEF SyncStep

\* Every step keeps the types.
LEMMA TypeStep == TypeInv /\ [Next]_vars => TypeInv'
BY BeginTypes, StatementStepTypes, OtherStepTypes DEF Next, HandlerStep

\* The initial state has them.
LEMMA TypeInit == Init => TypeInv
<1> SUFFICES ASSUME Init PROVE TypeInv
  OBVIOUS
<1>1. NewStore \in Store
  BY DEF NewStore, Store
<1>2. NoSync \in SyncState
  BY DEF NoSync, SyncState
<1> QED
  BY <1>1, <1>2, NoReqTypes, FleetAssumption DEF Init, PgInit, TypeInv, TypeOK

\* Type correctness: the tables, the stores, the syncs and the requests always
\* hold what TypeOK says, whatever the environment does.
THEOREM TypeCorrect == Spec => []TypeOK
<1>1. Spec => []TypeInv
  BY TypeInit, TypeStep, PTL DEF Spec
<1>2. TypeInv => TypeOK
  BY DEF TypeInv
<1> QED
  BY <1>1, <1>2, PTL
-----------------------------------------------------------------------------
(***************************************************************************)
(* Proof that instances serve committed rows only, whatever the            *)
(* environment does.  The invariant follows every copy of a record: in a   *)
(* store, among the rows a sync has still to apply, and in the hands of a  *)
(* handler between its statement and its PutRecord.                        *)
(***************************************************************************)
\* s is row r, now or after later commits.
Later(r, s) == /\ s.id = r.id /\ s.zone = r.zone /\ r.ver <= s.ver
               /\ r.ver = s.ver => s = r

\* Table T once held the record x as it is.
BackedIn(T, x) == \E r \in T : /\ r.id = x.id /\ r.zone = x.zone /\ x.ver <= r.ver
                               /\ x.ver = r.ver => ~r.deleted /\ EntryOf(r) = EntryOf(x)

HasZone(Z, a) == \E z \in Z : z.name = a

\* Primary key, foreign key and commit numbers of the tables.
TableInv ==
    /\ \A r, s \in recRows : r.id = s.id => r = s
    /\ \A y, z \in zoneRows : y.name = z.name => y = z
    /\ \A r \in recRows : r.ver <= clock /\ HasZone(zoneRows, r.zone)

\* Every copy of a record in a store, in the rows a sync has still to apply and
\* in a handler's hands comes from a committed row.
CommittedInv ==
    /\ TableInv
    /\ \A i \in Nodes : \A e \in store[i].recs :
          e.zone \in store[i].zones /\ BackedIn(recRows, e)
    /\ \A i \in Nodes : \A a \in store[i].zones : HasZone(zoneRows, a)
    /\ \A i \in Nodes : \A p \in sync[i].rset : \E r \in recRows : Later(p, r)
    /\ \A h \in Reqs : req[h].pc = "PutRecord" => BackedIn(recRows, req[h])
    /\ \A h \in Reqs : req[h].pc \in {"Update", "insertRecord"} =>
          HasZone(zoneRows, req[h].zone)

-----------------------------------------------------------------------------
(***************************************************************************)
(* What a writing statement does to the tables.                            *)
(***************************************************************************)
\* The statement replaces or adds the row of n's id.
RowWrite(n) ==
    /\ clock' = clock + 1 /\ zoneRows' = zoneRows
    /\ n \in Row /\ n.ver = clock + 1 /\ n.upd \in Stamps
    /\ HasZone(zoneRows, n.zone)
    /\ \A r \in recRows : r.id = n.id => r.zone = n.zone
    /\ recRows' = {r \in recRows : r.id # n.id} \cup {n}

\* The statement replaces or adds the row of z's name.
ZoneWrite(z) ==
    /\ clock' = clock + 1 /\ recRows' = recRows
    /\ z \in ZoneRow /\ z.upd \in Stamps
    /\ zoneRows' = {y \in zoneRows : y.name # z.name} \cup {z}

\* Stamps and commit numbers are numbers.
LEMMA StampsNat == PgTypeOK => Stamps \subseteq Nat /\ clock + 1 \in Nat
BY DEF PgTypeOK, Stamps

\* The row each record statement writes.
LEMMA InsertRecordWrites ==
    ASSUME PgTypeOK, TableInv, NEW a \in Apexes, NEW id \in Ids, NEW k \in Keys,
           NEW v \in Vals, HasZone(zoneRows, a), InsertRecord(a, id, k, v)
    PROVE  \E u \in Stamps : /\ RowWrite(RowVersion(a, id, k, v, FALSE, u))
                             /\ \A r \in recRows : r.id # id
<1>1. PICK u \in Stamps : recRows' = recRows \cup {RowVersion(a, id, k, v, FALSE, u)}
  BY DEF InsertRecord
<1> DEFINE n == RowVersion(a, id, k, v, FALSE, u)
<1>2. /\ n \in Row /\ n.ver = clock + 1 /\ n.upd = u /\ n.zone = a /\ n.id = id
  BY StampsNat DEF RowVersion, Row
<1>3. \A r \in recRows : r.id # id
  BY DEF InsertRecord
<1>4. recRows' = {r \in recRows : r.id # n.id} \cup {n}
  BY <1>1, <1>2, <1>3
<1> QED
  BY <1>2, <1>3, <1>4 DEF InsertRecord, Commit, RowWrite

\* UpdateRecord writes one new version of the row, not deleted.
LEMMA UpdateRecordWrites ==
    ASSUME PgTypeOK, TableInv, NEW a \in Apexes, NEW id \in Ids, NEW k \in Keys,
           NEW v \in Vals, UpdateRecord(a, id, k, v)
    PROVE  \E u \in Stamps : /\ RowWrite(RowVersion(a, id, k, v, FALSE, u))
                             /\ \E r \in recRows : r.id = id /\ r.zone = a
<1>1. PICK r \in recRows, u \in Stamps :
        /\ r.id = id /\ r.zone = a
        /\ recRows' = (recRows \ {r}) \cup {RowVersion(a, id, k, v, FALSE, u)}
  BY DEF UpdateRecord
<1> DEFINE n == RowVersion(a, id, k, v, FALSE, u)
<1>2. /\ n \in Row /\ n.ver = clock + 1 /\ n.upd = u /\ n.zone = a /\ n.id = id
  BY StampsNat DEF RowVersion, Row
<1>3. /\ \A s \in recRows : s.id = id => s = r
      /\ HasZone(zoneRows, a)
  BY <1>1 DEF TableInv
<1>4. recRows' = {s \in recRows : s.id # n.id} \cup {n}
  BY <1>1, <1>2, <1>3
<1> QED
  BY <1>1, <1>2, <1>3, <1>4 DEF UpdateRecord, Commit, RowWrite

\* SoftDeleteRecord writes one new version of the row, deleted.
LEMMA SoftDeleteRecordWrites ==
    ASSUME PgTypeOK, TableInv, NEW a \in Apexes, NEW id \in Ids, SoftDeleteRecord(a, id)
    PROVE  \E u \in Stamps, r \in recRows :
              /\ RowWrite(RowVersion(a, id, r.key, r.val, TRUE, u))
              /\ r.id = id /\ r.zone = a
<1>1. PICK r \in recRows, u \in Stamps :
        /\ r.id = id /\ r.zone = a
        /\ recRows' = (recRows \ {r}) \cup {RowVersion(a, id, r.key, r.val, TRUE, u)}
  BY DEF SoftDeleteRecord
<1>0. r.key \in Keys /\ r.val \in Vals
  BY <1>1 DEF PgTypeOK, Row
<1> DEFINE n == RowVersion(a, id, r.key, r.val, TRUE, u)
<1>2. /\ n \in Row /\ n.ver = clock + 1 /\ n.upd = u /\ n.zone = a /\ n.id = id
  BY <1>0, StampsNat DEF RowVersion, Row
<1>3. /\ \A s \in recRows : s.id = id => s = r
      /\ HasZone(zoneRows, a)
  BY <1>1 DEF TableInv
<1>4. recRows' = {s \in recRows : s.id # n.id} \cup {n}
  BY <1>1, <1>2, <1>3
<1>5. RowWrite(n)
  <2> HIDE DEF n
  <2> QED
    BY <1>1, <1>2, <1>3, <1>4 DEF SoftDeleteRecord, Commit, RowWrite
<1> QED
  BY <1>1, <1>5

\* The row each zone statement writes.
LEMMA ZoneStatementWrites ==
    ASSUME PgTypeOK, TableInv, NEW a \in Apexes
    PROVE  /\ InsertZone(a) => \E u \in Stamps :
                 /\ ZoneWrite([name |-> a, deleted |-> FALSE, upd |-> u])
                 /\ ~HasZone(zoneRows, a)
           /\ SoftDeleteZone(a) => \E u \in Stamps :
                 ZoneWrite([name |-> a, deleted |-> TRUE, upd |-> u])
<1>0. \A u \in Stamps, gone \in BOOLEAN : [name |-> a, deleted |-> gone, upd |-> u] \in ZoneRow
  BY StampsNat DEF ZoneRow
<1>1. ASSUME InsertZone(a)
      PROVE  \E u \in Stamps : /\ ZoneWrite([name |-> a, deleted |-> FALSE, upd |-> u])
                               /\ ~HasZone(zoneRows, a)
  <2>1. PICK u \in Stamps :
          zoneRows' = zoneRows \cup {[name |-> a, deleted |-> FALSE, upd |-> u]}
    BY <1>1 DEF InsertZone
  <2>2. \A z \in zoneRows : z.name # a
    BY <1>1 DEF InsertZone
  <2>3. zoneRows' = {y \in zoneRows : y.name # a} \cup
                      {[name |-> a, deleted |-> FALSE, upd |-> u]}
    BY <2>1, <2>2
  <2> QED
    BY <1>0, <1>1, <2>2, <2>3 DEF InsertZone, Commit, ZoneWrite, HasZone
<1>2. ASSUME SoftDeleteZone(a)
      PROVE  \E u \in Stamps : ZoneWrite([name |-> a, deleted |-> TRUE, upd |-> u])
  <2>1. PICK z \in zoneRows, u \in Stamps :
          /\ z.name = a
          /\ zoneRows' = (zoneRows \ {z}) \cup {[name |-> a, deleted |-> TRUE, upd |-> u]}
    BY <1>2 DEF SoftDeleteZone
  <2>2. \A y \in zoneRows : y.name = a => y = z
    BY <2>1 DEF TableInv
  <2>3. zoneRows' = {y \in zoneRows : y.name # a} \cup
                      {[name |-> a, deleted |-> TRUE, upd |-> u]}
    BY <2>1, <2>2
  <2> QED
    BY <1>0, <1>2, <2>3 DEF SoftDeleteZone, Commit, ZoneWrite
<1> QED
  BY <1>1, <1>2
-----------------------------------------------------------------------------
(***************************************************************************)
(* Instances serve committed rows only.                                    *)
(***************************************************************************)
\* Rows and zones persist: a row only moves on to later versions of itself.
Evolves == /\ \A r \in recRows : \E s \in recRows' : Later(r, s)
           /\ \A a : HasZone(zoneRows, a) => HasZone(zoneRows', a)

\* A write of one row keeps the tables consistent and only moves versions on.
LEMMA WritesEvolve ==
    ASSUME PgTypeOK, TableInv,
           (\E n : RowWrite(n)) \/ (\E z : ZoneWrite(z)) \/ UNCHANGED pgVars
    PROVE  TableInv' /\ Evolves
<1>0. clock \in Nat /\ \A r \in recRows : r.ver \in Nat
  BY DEF PgTypeOK, Row
<1>1. ASSUME NEW n, RowWrite(n)
      PROVE  TableInv' /\ Evolves
  <2>1. \A r, s \in recRows' : r.id = s.id => r = s
    BY <1>1 DEF RowWrite, TableInv
  <2>2. \A r \in recRows' : r.ver <= clock' /\ HasZone(zoneRows', r.zone)
    BY <1>0, <1>1 DEF RowWrite, TableInv
  <2>3. ASSUME NEW r \in recRows
        PROVE  \E s \in recRows' : Later(r, s)
    <3>1. CASE r.id # n.id
      BY <1>0, <1>1, <3>1 DEF RowWrite, Later
    <3>2. CASE r.id = n.id
      <4>1. r.ver <= clock /\ r.zone = n.zone /\ n.ver = clock + 1 /\ n \in recRows'
        BY <1>1, <3>2 DEF RowWrite, TableInv
      <4>2. r.ver <= n.ver /\ r.ver # n.ver
        BY <1>0, <4>1
      <4> QED
        BY <3>2, <4>1, <4>2 DEF Later
    <3> QED
      BY <3>1, <3>2
  <2>4. zoneRows' = zoneRows
    BY <1>1 DEF RowWrite
  <2> QED
    BY <2>1, <2>2, <2>3, <2>4 DEF TableInv, Evolves
<1>2. ASSUME NEW z, ZoneWrite(z)
      PROVE  TableInv' /\ Evolves
  <2>1. \A y, x \in zoneRows' : y.name = x.name => y = x
    BY <1>2 DEF ZoneWrite, TableInv
  <2>2. \A a : HasZone(zoneRows, a) => HasZone(zoneRows', a)
    BY <1>2 DEF ZoneWrite, HasZone
  <2>3. recRows' = recRows /\ clock' = clock + 1
    BY <1>2 DEF ZoneWrite
  <2>4. \A r \in recRows' : r.ver <= clock' /\ HasZone(zoneRows', r.zone)
    BY <1>0, <2>2, <2>3 DEF TableInv
  <2>5. \A r \in recRows : Later(r, r)
    BY <1>0 DEF Later
  <2> QED
    BY <2>1, <2>2, <2>3, <2>4, <2>5 DEF TableInv, Evolves
<1>3. CASE UNCHANGED pgVars
  <2>1. \A r \in recRows : Later(r, r)
    BY <1>0 DEF Later
  <2> QED
    BY <1>3, <2>1 DEF pgVars, TableInv, Evolves, HasZone
<1> QED
  BY <1>1, <1>2, <1>3

\* What was committed stays committed.
LEMMA BackedStays ==
    ASSUME NEW T \in SUBSET Row, NEW U \in SUBSET Row,
           \A r \in T : \E s \in U : Later(r, s), NEW x, x.ver \in Nat
    PROVE  /\ BackedIn(T, x) => BackedIn(U, x)
           /\ (\E r \in T : Later(x, r)) => \E s \in U : Later(x, s)
<1>0. \A r \in T \cup U : r.ver \in Nat
  BY DEF Row
<1>1. ASSUME BackedIn(T, x) PROVE BackedIn(U, x)
  <2>1. PICK r \in T : /\ r.id = x.id /\ r.zone = x.zone /\ x.ver <= r.ver
                       /\ x.ver = r.ver => ~r.deleted /\ EntryOf(r) = EntryOf(x)
    BY <1>1 DEF BackedIn
  <2>2. PICK s \in U : Later(r, s)
    OBVIOUS
  <2>3. x.ver <= s.ver /\ (x.ver = s.ver => x.ver = r.ver /\ s = r)
    BY <1>0, <2>1, <2>2 DEF Later
  <2> QED
    BY <2>1, <2>2, <2>3 DEF BackedIn, Later
<1>2. ASSUME NEW r \in T, Later(x, r) PROVE \E s \in U : Later(x, s)
  <2>2. PICK s \in U : Later(r, s)
    OBVIOUS
  <2>3. x.ver <= s.ver /\ (x.ver = s.ver => x.ver = r.ver /\ s = r)
    BY <1>0, <1>2, <2>2 DEF Later
  <2> QED
    BY <1>2, <2>2, <2>3 DEF Later
<1> QED
  BY <1>1, <1>2

\* A step of the tables and of one request, the stores and syncs left alone.
LEMMA CommittedTables ==
    ASSUME TypeInv, TypeInv', CommittedInv,
           (\E n : RowWrite(n)) \/ (\E z : ZoneWrite(z)) \/ UNCHANGED pgVars,
           store' = store, sync' = sync,
           \A g \in Reqs :
              \/ req'[g] = req[g]
              \/ /\ req'[g].pc = "PutRecord" => BackedIn(recRows', req'[g])
                 /\ req'[g].pc \in {"Update", "insertRecord"} =>
                       HasZone(zoneRows', req'[g].zone)
    PROVE  CommittedInv'
<1>1. TableInv' /\ Evolves
  BY WritesEvolve DEF TypeInv, TypeOK, PgTypeOK, CommittedInv
<1>2. recRows \in SUBSET Row /\ recRows' \in SUBSET Row
  BY DEF TypeInv, TypeOK
<1>3. /\ \A i \in Nodes : \A e \in store[i].recs : e.ver \in Nat
      /\ \A i \in Nodes : \A p \in sync[i].rset : p.ver \in Nat
      /\ \A g \in Reqs : req[g].ver \in Nat
  BY DEF TypeInv, TypeOK, Store, Entry, SyncState, Row, Request
<1>4. \A i \in Nodes : \A e \in store'[i].recs :
         e.zone \in store'[i].zones /\ BackedIn(recRows', e)
  BY <1>1, <1>2, <1>3, BackedStays DEF CommittedInv, Evolves
<1>5. \A i \in Nodes : \A a \in store'[i].zones : HasZone(zoneRows', a)
  BY <1>1 DEF CommittedInv, Evolves
<1>6. \A i \in Nodes : \A p \in sync'[i].rset : \E r \in recRows' : Later(p, r)
  BY <1>1, <1>2, <1>3, BackedStays DEF CommittedInv, Evolves
<1>7. \A g \in Reqs : req'[g].pc = "PutRecord" => BackedIn(recRows', req'[g])
  BY <1>1, <1>2, <1>3, BackedStays DEF CommittedInv, Evolves
<1>8. \A g \in Reqs : req'[g].pc \in {"Update", "insertRecord"} =>
         HasZone(zoneRows', req'[g].zone)
  BY <1>1 DEF CommittedInv, Evolves
<1> QED
  BY <1>1, <1>4, <1>5, <1>6, <1>7, <1>8 DEF CommittedInv

\* What Goto, Returned and Done do to the requests.
LEMMA GotoSlot ==
    ASSUME TypeInv, NEW h \in Reqs, NEW pc, Goto(h, pc)
    PROVE  /\ req'[h].pc = pc /\ req'[h].zone = req[h].zone /\ req'[h].id = req[h].id
           /\ req'[h].op = req[h].op /\ req'[h].key = req[h].key
           /\ \A g \in Reqs : g # h => req'[g] = req[g]
<1>1. req \in [Reqs -> Request] /\ req[h] \in Request
  BY DEF TypeInv, TypeOK
<1> QED
  BY <1>1 DEF Goto, Request

\* What a handler holds once a statement returned a row.
LEMMA ReturnedSlot ==
    ASSUME TypeInv, NEW h \in Reqs, NEW id, NEW ver, Returned(h, id, ver)
    PROVE  /\ req'[h].pc = "PutRecord" /\ req'[h].id = id /\ req'[h].ver = ver
           /\ req'[h].zone = req[h].zone /\ req'[h].key = req[h].key
           /\ req'[h].val = req[h].val
           /\ \A g \in Reqs : g # h => req'[g] = req[g]
<1>1. req \in [Reqs -> Request] /\ req[h] \in Request
  BY DEF TypeInv, TypeOK
<1>2. req'[h] = [req[h] EXCEPT !.pc = "PutRecord", !.id = id, !.ver = ver]
  BY <1>1 DEF Returned
<1>3. \A g \in Reqs : g # h => req'[g] = req[g]
  BY <1>1 DEF Returned
<1> QED
  BY <1>1, <1>2, <1>3 DEF Request

\* A handler that has answered holds nothing.
LEMMA DoneSlot ==
    ASSUME TypeInv, NEW h \in Reqs, Done(h)
    PROVE  /\ req'[h] = NoReq /\ req'[h].pc = "idle" /\ req'[h].op = "none"
           /\ \A g \in Reqs : g # h => req'[g] = req[g]
<1>1. req \in [Reqs -> Request]
  BY DEF TypeInv, TypeOK
<1> QED
  BY <1>1 DEF Done, NoReq

\* The record that a handler takes from the row a statement returned.
LEMMA ReturnedBacked ==
    ASSUME TypeInv, TypeInv', NEW h \in Reqs, NEW id, NEW ver, Returned(h, id, ver),
           NEW r \in recRows', r.id = id, r.ver = ver, ~r.deleted,
           r.zone = req[h].zone, r.key = req[h].key, r.val = req[h].val
    PROVE  /\ req'[h].pc = "PutRecord"
           /\ EntryOf(r) = EntryOf(req'[h]) /\ BackedIn(recRows', req'[h])
<1>2. r.ver \in Nat
  BY DEF TypeInv, TypeOK, Row
<1>3. /\ req'[h].pc = "PutRecord" /\ req'[h].id = r.id /\ req'[h].ver = r.ver
      /\ req'[h].zone = r.zone /\ req'[h].key = r.key /\ req'[h].val = r.val
  BY ReturnedSlot
<1>4. EntryOf(r) = EntryOf(req'[h])
  BY <1>3 DEF EntryOf
<1> QED
  BY <1>2, <1>3, <1>4 DEF BackedIn

\* A handler's statement: the tables move on, the handler holds what it wrote.
LEMMA CommittedStatement ==
    ASSUME TypeInv, TypeInv', CommittedInv, NEW h \in Reqs,
           \/ CreateZoneInsert(h) \/ CreateZoneFetch(h) \/ DeleteZone(h)
           \/ GetZone(h) \/ CreateRecordInsert(h) \/ CreateRecordFetch(h)
           \/ UpdateRecordRow(h) \/ DeleteRecordRow(h)
    PROVE  CommittedInv'
<1> DEFINE q == req[h]
           Writes == (\E n : RowWrite(n)) \/ (\E z : ZoneWrite(z)) \/ UNCHANGED pgVars
           Slot == /\ \A g \in Reqs : g # h => req'[g] = req[g]
                   /\ req'[h].pc = "PutRecord" => BackedIn(recRows', req'[h])
                   /\ req'[h].pc \in {"Update", "insertRecord"} =>
                         HasZone(zoneRows', req'[h].zone)
<1>1. q \in Request /\ WellFormed(q) /\ q.pc # "idle" /\ q.zone \in Apexes
  BY ReqFields DEF CreateZoneInsert, CreateZoneFetch, DeleteZone, GetZone, AtPg,
       CreateRecordInsert, CreateRecordFetch, UpdateRecordRow, DeleteRecordRow
<1>2. store' = store /\ sync' = sync
  BY DEF CreateZoneInsert, CreateZoneFetch, DeleteZone, GetZone, AtPg,
       CreateRecordInsert, CreateRecordFetch, UpdateRecordRow, DeleteRecordRow
<1>3. PgTypeOK /\ TableInv
  BY DEF TypeInv, TypeOK, PgTypeOK, CommittedInv
<1>4. SUFFICES Writes /\ Slot
  BY <1>2, CommittedTables
<1>5. Done(h) => Slot
  BY DoneSlot
<1>6. Active(q.zone) => HasZone(zoneRows, q.zone)
  BY DEF Active, HasZone
<1>7. CASE CreateZoneInsert(h)
  <2>1. CASE InsertZone(q.zone) /\ Goto(h, "Update")
    <3>1. PICK u \in Stamps : ZoneWrite([name |-> q.zone, deleted |-> FALSE, upd |-> u])
      BY <1>1, <1>3, <2>1, ZoneStatementWrites
    <3>2. HasZone(zoneRows', q.zone)
      BY <3>1 DEF ZoneWrite, HasZone
    <3> QED
      BY <2>1, <3>1, <3>2, GotoSlot
  <2>2. CASE Goto(h, "fetchZone") /\ UNCHANGED pgVars
    BY <2>2, GotoSlot
  <2> QED
    BY <1>7, <2>1, <2>2 DEF CreateZoneInsert
<1>8. CASE CreateZoneFetch(h)
  BY <1>5, <1>6, <1>8, GotoSlot DEF CreateZoneFetch, pgVars
<1>9. CASE DeleteZone(h)
  <2>1. CASE SoftDeleteZone(q.zone) /\ Goto(h, "Delete")
    <3>1. PICK u \in Stamps : ZoneWrite([name |-> q.zone, deleted |-> TRUE, upd |-> u])
      BY <1>1, <1>3, <2>1, ZoneStatementWrites
    <3> QED
      BY <2>1, <3>1, GotoSlot
  <2> QED
    BY <1>5, <1>9, <2>1 DEF DeleteZone
<1>10. CASE GetZone(h)
  <2>1. AfterGetZone(q.op) # "PutRecord" /\ AfterGetZone(q.op) # "Update"
    BY <1>1, <1>10 DEF GetZone, AtPg, WellFormed, AfterGetZone
  <2> QED
    BY <1>5, <1>6, <1>10, <2>1, GotoSlot DEF GetZone, pgVars
<1>11. CASE CreateRecordInsert(h)
  <2>0. /\ HasZone(zoneRows, q.zone)
        /\ q.key \in Keys /\ q.val \in Vals
    BY <1>1, <1>11 DEF CreateRecordInsert, AtPg, CommittedInv, WellFormed
  <2>1. ASSUME NEW id \in Ids, InsertRecord(q.zone, id, q.key, q.val),
               Returned(h, id, clock + 1)
        PROVE  Writes /\ Slot
    <3>1. PICK u \in Stamps : RowWrite(RowVersion(q.zone, id, q.key, q.val, FALSE, u))
      BY <1>1, <1>3, <2>0, <2>1, InsertRecordWrites
    <3> DEFINE n == RowVersion(q.zone, id, q.key, q.val, FALSE, u)
    <3>2. /\ n.id = id /\ n.ver = clock + 1 /\ ~n.deleted
          /\ n.zone = q.zone /\ n.key = q.key /\ n.val = q.val
      BY DEF RowVersion
    <3>3. n \in recRows'
      BY <3>1 DEF RowWrite
    <3>4. req'[h].pc = "PutRecord" /\ BackedIn(recRows', req'[h])
      BY <2>1, <3>2, <3>3, ReturnedBacked
    <3> QED
      BY <2>1, <3>1, <3>4, ReturnedSlot
  <2>2. CASE Goto(h, "fetchRecord") /\ UNCHANGED pgVars
    BY <2>2, GotoSlot
  <2>3. CASE Done(h) /\ UNCHANGED pgVars
    BY <1>5, <2>3
  <2> QED
    BY <1>11, <2>1, <2>2, <2>3 DEF CreateRecordInsert
<1>12. CASE CreateRecordFetch(h)
  <2>1. ASSUME NEW r \in ActiveRows(q.zone, q.key, q.val), Returned(h, r.id, r.ver),
               UNCHANGED pgVars
        PROVE  Writes /\ Slot
    <3>1. r \in recRows' /\ ~r.deleted /\ r.zone = q.zone /\ r.key = q.key /\ r.val = q.val
      BY <2>1 DEF ActiveRows, pgVars
    <3>2. req'[h].pc = "PutRecord" /\ BackedIn(recRows', req'[h])
      BY <2>1, <3>1, ReturnedBacked
    <3> QED
      BY <2>1, <3>2, ReturnedSlot
  <2> QED
    BY <1>5, <1>12, <2>1 DEF CreateRecordFetch
<1>13. CASE UpdateRecordRow(h)
  <2>0. q.id \in Ids /\ q.key \in Keys /\ q.val \in Vals
    BY <1>1, <1>13 DEF UpdateRecordRow, AtPg, WellFormed
  <2>1. CASE UpdateRecord(q.zone, q.id, q.key, q.val) /\ Returned(h, q.id, clock + 1)
    <3>1. PICK u \in Stamps : RowWrite(RowVersion(q.zone, q.id, q.key, q.val, FALSE, u))
      BY <1>1, <1>3, <2>0, <2>1, UpdateRecordWrites
    <3> DEFINE n == RowVersion(q.zone, q.id, q.key, q.val, FALSE, u)
    <3>2. /\ n.id = q.id /\ n.ver = clock + 1 /\ ~n.deleted
          /\ n.zone = q.zone /\ n.key = q.key /\ n.val = q.val
      BY DEF RowVersion
    <3>3. n \in recRows'
      BY <3>1 DEF RowWrite
    <3>4. req'[h].pc = "PutRecord" /\ BackedIn(recRows', req'[h])
      BY <2>1, <3>2, <3>3, ReturnedBacked
    <3> QED
      BY <2>1, <3>1, <3>4, ReturnedSlot
  <2> QED
    BY <1>5, <1>13, <2>1 DEF UpdateRecordRow
<1>14. CASE DeleteRecordRow(h)
  <2>0. q.id \in Ids
    BY <1>1, <1>14 DEF DeleteRecordRow, AtPg, WellFormed
  <2>1. CASE SoftDeleteRecord(q.zone, q.id) /\ Goto(h, "DropRecord")
    <3>1. \E n : RowWrite(n)
      BY <1>1, <1>3, <2>0, <2>1, SoftDeleteRecordWrites
    <3> QED
      BY <2>1, <3>1, GotoSlot
  <2> QED
    BY <1>5, <1>14, <2>1 DEF DeleteRecordRow
<1> QED
  BY <1>7, <1>8, <1>9, <1>10, <1>11, <1>12, <1>13, <1>14

\* What the store's operations leave in it.
LEMMA ZoneOpContents ==
    ASSUME NEW s \in Store, NEW a \in Apexes
    PROVE  /\ Update(s, a, {}).zones = s.zones \cup {a}
           /\ Update(s, a, {}).recs = {e \in s.recs : e.zone # a}
           /\ Delete(s, a).zones = s.zones \ {a}
           /\ Delete(s, a).recs = {e \in s.recs : e.zone # a}
BY DEF Update, Delete

\* PutRecord: the new copy replaces those of its id in its rrset.
LEMMA PutContents ==
    ASSUME NEW s \in Store, NEW rec \in Entry
    PROVE  /\ PutRecord(s, rec).zones = s.zones \cup {rec.zone}
           /\ \A e : e \in PutRecord(s, rec).recs <=>
                 \/ e = rec
                 \/ e \in s.recs /\ ~(e.zone = rec.zone /\ e.key = rec.key /\ e.id = rec.id)
BY DEF PutRecord

\* DropRecord takes away one copy of the record, whichever it finds first.
LEMMA DropContents ==
    ASSUME NEW s \in Store, NEW a \in Apexes, NEW id \in Ids, NEW t \in DropRecord(s, a, id)
    PROVE  /\ t.zones = s.zones /\ t.recs \subseteq s.recs
           /\ \A e \in s.recs : ~(e.zone = a /\ e.id = id) => e \in t.recs
           /\ \A e \in Copies(s, a, id) : e \in t.recs => \E f \in Copies(s, a, id) : f # e
<1>1. CASE Copies(s, a, id) = {}
  BY <1>1 DEF DropRecord
<1>2. CASE Copies(s, a, id) # {}
  <2>1. PICK f \in Copies(s, a, id) : t = [s EXCEPT !.recs = @ \ {f}]
    BY <1>2 DEF DropRecord
  <2>2. t.zones = s.zones /\ t.recs = s.recs \ {f}
    BY <2>1 DEF Store
  <2> QED
    BY <2>1, <2>2 DEF Copies
<1> QED
  BY <1>1, <1>2

\* A step of one instance's store (and sync), tables left alone.
LEMMA CommittedStore ==
    ASSUME TypeInv, TypeInv', CommittedInv, UNCHANGED pgVars,
           NEW i \in Nodes, \A j \in Nodes : j # i => store'[j] = store[j] /\ sync'[j] = sync[j],
           \A e \in store'[i].recs : e.zone \in store'[i].zones /\ BackedIn(recRows, e),
           \A a \in store'[i].zones : HasZone(zoneRows, a),
           \A p \in sync'[i].rset : \E r \in recRows : Later(p, r),
           \A h \in Reqs : req'[h] = req[h] \/ req'[h] = NoReq
    PROVE  CommittedInv'
<1>1. recRows' = recRows /\ zoneRows' = zoneRows /\ clock' = clock
  BY DEF pgVars
<1>2. TableInv'
  BY <1>1 DEF CommittedInv, TableInv
<1>3. NoReq.pc = "idle"
  BY DEF NoReq
<1> QED
  BY <1>1, <1>2, <1>3 DEF CommittedInv

\* PutRecord of a committed record of a known domain.
LEMMA CommittedPut ==
    ASSUME TypeInv, CommittedInv, NEW i \in Nodes, NEW rec \in Entry, BackedIn(recRows, rec)
    PROVE  LET t == PutRecord(store[i], rec) IN
           /\ \A e \in t.recs : e.zone \in t.zones /\ BackedIn(recRows, e)
           /\ \A a \in t.zones : HasZone(zoneRows, a)
<1>1. store[i] \in Store /\ rec.zone \in Apexes
  BY DEF TypeInv, TypeOK, Entry
<1>2. HasZone(zoneRows, rec.zone)
  BY DEF CommittedInv, TableInv, BackedIn
<1> QED
  BY <1>1, <1>2, PutContents DEF CommittedInv

\* DropRecord of anything.
LEMMA CommittedDrop ==
    ASSUME TypeInv, CommittedInv, NEW i \in Nodes, NEW a \in Apexes, NEW id \in Ids,
           NEW t \in DropRecord(store[i], a, id)
    PROVE  /\ \A e \in t.recs : e.zone \in t.zones /\ BackedIn(recRows, e)
           /\ \A b \in t.zones : HasZone(zoneRows, b)
<1>1. store[i] \in Store
  BY DEF TypeInv, TypeOK
<1> QED
  BY <1>1, DropContents DEF CommittedInv

\* A handler's store call publishes what it holds, which is backed.
LEMMA CommittedHandlerStore ==
    ASSUME TypeInv, TypeInv', CommittedInv, NEW h \in Reqs, HandlerStore(h)
    PROVE  CommittedInv'
<1> DEFINE q == req[h]  i == req[h].node
<1>1. /\ i \in Nodes /\ q.zone \in Apexes /\ store[i] \in Store
      /\ req' = [req EXCEPT ![h] = NoReq] /\ sync' = sync /\ UNCHANGED pgVars
  BY HandlerStoreCases DEF TypeInv, TypeOK
<1>2. PICK t : /\ store' = [store EXCEPT ![i] = t]
               /\ \/ q.pc = "Update" /\ t = Update(store[i], q.zone, {})
                  \/ q.pc = "Delete" /\ t = Delete(store[i], q.zone)
                  \/ /\ q.pc = "PutRecord" /\ HeldRecord(q) \in Entry
                     /\ t = PutRecord(store[i], HeldRecord(q))
                  \/ /\ q.pc = "DropRecord" /\ q.id \in Ids
                     /\ t \in DropRecord(store[i], q.zone, q.id)
  BY HandlerStoreCases
<1>3. /\ \A e \in t.recs : e.zone \in t.zones /\ BackedIn(recRows, e)
      /\ \A a \in t.zones : HasZone(zoneRows, a)
  <2>1. CASE q.pc = "Update" /\ t = Update(store[i], q.zone, {})
    BY <1>1, <2>1, ZoneOpContents DEF CommittedInv
  <2>2. CASE q.pc = "Delete" /\ t = Delete(store[i], q.zone)
    BY <1>1, <2>2, ZoneOpContents DEF CommittedInv
  <2>3. CASE /\ q.pc = "PutRecord" /\ HeldRecord(q) \in Entry
             /\ t = PutRecord(store[i], HeldRecord(q))
    <3>1. BackedIn(recRows, q)
      BY <2>3 DEF CommittedInv
    <3>2. BackedIn(recRows, HeldRecord(q))
      BY <3>1 DEF BackedIn, HeldRecord, EntryOf
    <3> QED
      BY <1>1, <2>3, <3>2, CommittedPut
  <2>4. CASE /\ q.pc = "DropRecord" /\ q.id \in Ids
             /\ t \in DropRecord(store[i], q.zone, q.id)
    BY <1>1, <2>4, CommittedDrop
  <2> QED
    BY <1>2, <2>1, <2>2, <2>3, <2>4
<1>4. store'[i] = t /\ \A j \in Nodes : j # i => store'[j] = store[j] /\ sync'[j] = sync[j]
  BY <1>1, <1>2 DEF TypeInv, TypeOK
<1>5. \A g \in Reqs : req'[g] = req[g] \/ req'[g] = NoReq
  BY <1>1 DEF TypeInv, TypeOK
<1>6. \A p \in sync'[i].rset : \E r \in recRows : Later(p, r)
  BY <1>1 DEF CommittedInv
<1> QED
  BY <1>1, <1>3, <1>4, <1>5, <1>6, CommittedStore

\* A step of a sync, a failed sync, a crash and a restart copy rows only.
LEMMA CommittedSync ==
    ASSUME TypeInv, TypeInv', CommittedInv, NEW i \in Nodes,
           SyncStep(i) \/ SyncError(i) \/ Crash(i) \/ Boot(i) \/ LoadAll(i)
    PROVE  CommittedInv'
<1> USE DEF pgVars
<1>0. /\ store \in [Nodes -> Store] /\ sync \in [Nodes -> SyncState] /\ store[i] \in Store
      /\ recRows \subseteq Row /\ req \in [Reqs -> Request] /\ sync[i] \in SyncState
  BY DEF TypeInv, TypeOK
<1> DEFINE Untouched == /\ store'[i] = store[i]
                        /\ \A j \in Nodes : j # i => store'[j] = store[j] /\ sync'[j] = sync[j]
                        /\ \A g \in Reqs : req'[g] = req[g]
                        /\ UNCHANGED pgVars
<1>1. ASSUME Untouched, \A p \in sync'[i].rset : \E r \in recRows : Later(p, r)
      PROVE  CommittedInv'
  BY <1>1, CommittedStore DEF CommittedInv
<1>2. CASE StartSync(i) \/ QueryZones(i)
  <2>1. sync'[i].rset = sync[i].rset
    BY <1>0, <1>2 DEF StartSync, QueryZones, SyncState
  <2>2. Untouched
    BY <1>0, <1>2 DEF StartSync, QueryZones
  <2> QED
    BY <1>1, <2>1, <2>2 DEF CommittedInv
<1>3. CASE ApplyZone(i)
  <2>1. PICK a \in sync[i].zset : /\ store' = [store EXCEPT ![i] = Delete(store[i], a)]
                                  /\ sync' = [sync EXCEPT ![i].zset = @ \ {a}]
    BY <1>3 DEF ApplyZone
  <2>2. a \in Apexes
    BY <1>0, <2>1 DEF SyncState
  <2>3. /\ store'[i] = Delete(store[i], a) /\ sync'[i].rset = sync[i].rset
        /\ \A j \in Nodes : j # i => store'[j] = store[j] /\ sync'[j] = sync[j]
    BY <1>0, <2>1 DEF SyncState
  <2>4. /\ \A e \in store'[i].recs : e.zone \in store'[i].zones /\ BackedIn(recRows, e)
        /\ \A b \in store'[i].zones : HasZone(zoneRows, b)
        /\ \A p \in sync'[i].rset : \E r \in recRows : Later(p, r)
    BY <1>0, <2>2, <2>3, ZoneOpContents DEF CommittedInv
  <2> QED
    BY <1>3, <2>3, <2>4, CommittedStore DEF ApplyZone
<1>4. CASE QueryRecords(i)
  <2>1. sync'[i].rset = IncrementalRecords(lastAt[i]) /\ Untouched
    BY <1>0, <1>4 DEF QueryRecords, SyncState
  <2>2. \A p \in IncrementalRecords(lastAt[i]) : p \in recRows /\ Later(p, p)
    BY <1>0 DEF IncrementalRecords, Later, Row
  <2> QED
    BY <1>1, <2>1, <2>2
<1>5. CASE ApplyRecord(i)
  <2>1. PICK p \in sync[i].rset :
          /\ \E t \in ApplyRow(store[i], p) : store' = [store EXCEPT ![i] = t]
          /\ sync' = [sync EXCEPT ![i].rset = @ \ {p}]
    BY <1>5 DEF ApplyRecord
  <2>2. PICK t \in ApplyRow(store[i], p) : store' = [store EXCEPT ![i] = t]
    BY <2>1
  <2>3. p \in Row /\ p.zone \in Apexes /\ p.id \in Ids /\ EntryOf(p) \in Entry
    BY <1>0, <2>1, EntryTypes DEF SyncState, Row
  <2>4. /\ \A e \in t.recs : e.zone \in t.zones /\ BackedIn(recRows, e)
        /\ \A b \in t.zones : HasZone(zoneRows, b)
    <3>1. CASE p.deleted
      BY <2>2, <2>3, <3>1, CommittedDrop DEF ApplyRow
    <3>2. CASE ~p.deleted
      <4>1. PICK r \in recRows : Later(p, r)
        BY <2>1 DEF CommittedInv
      <4>2. BackedIn(recRows, EntryOf(p))
        BY <3>2, <4>1 DEF Later, BackedIn, EntryOf
      <4> QED
        BY <2>2, <2>3, <3>2, <4>2, CommittedPut DEF ApplyRow
    <3> QED
      BY <3>1, <3>2
  <2>5. /\ store'[i] = t /\ sync'[i].rset = sync[i].rset \ {p}
        /\ \A j \in Nodes : j # i => store'[j] = store[j] /\ sync'[j] = sync[j]
    BY <1>0, <2>1, <2>2 DEF SyncState
  <2>6. \A r \in sync'[i].rset : \E s \in recRows : Later(r, s)
    BY <2>5 DEF CommittedInv
  <2> QED
    BY <1>5, <2>4, <2>5, <2>6, CommittedStore DEF ApplyRecord
<1>6. CASE EndSync(i) \/ SyncError(i)
  <2>1. sync'[i].rset = {} /\ Untouched
    BY <1>0, <1>6 DEF EndSync, SyncError, NoSync
  <2> QED
    BY <1>1, <2>1
<1>7. CASE Crash(i)
  <2>1. /\ store'[i] = NewStore /\ sync'[i] = NoSync
        /\ \A j \in Nodes : j # i => store'[j] = store[j] /\ sync'[j] = sync[j]
        /\ \A g \in Reqs : req'[g] = req[g] \/ req'[g] = NoReq
    BY <1>0, <1>7 DEF Crash
  <2>2. NewStore.recs = {} /\ NewStore.zones = {} /\ NoSync.rset = {}
    BY DEF NewStore, NoSync
  <2> QED
    BY <1>7, <2>1, <2>2, CommittedStore DEF Crash
<1>8. CASE Boot(i)
  <2>1. sync'[i].rset = sync[i].rset /\ Untouched
    BY <1>0, <1>8 DEF Boot
  <2> QED
    BY <1>1, <2>1 DEF CommittedInv
<1>9. CASE LoadAll(i)
  <2>1. /\ store'[i].zones = {r.zone : r \in LoadAllRows}
        /\ store'[i].recs = {EntryOf(r) : r \in LoadAllRows}
        /\ \A j \in Nodes : j # i => store'[j] = store[j] /\ sync'[j] = sync[j]
        /\ sync'[i] = sync[i]
    BY <1>0, <1>9 DEF LoadAll
  <2>2. \A r \in LoadAllRows : /\ r \in recRows /\ ~r.deleted /\ r.ver \in Nat
                               /\ HasZone(zoneRows, r.zone)
    BY <1>0 DEF LoadAllRows, CommittedInv, TableInv, Row
  <2>4. \A r \in LoadAllRows : BackedIn(recRows, EntryOf(r)) /\ EntryOf(r).zone = r.zone
    BY <2>2 DEF BackedIn, EntryOf
  <2>3. /\ \A e \in store'[i].recs : e.zone \in store'[i].zones /\ BackedIn(recRows, e)
        /\ \A b \in store'[i].zones : HasZone(zoneRows, b)
        /\ \A p \in sync'[i].rset : \E r \in recRows : Later(p, r)
    BY <2>1, <2>2, <2>4 DEF CommittedInv
  <2> QED
    BY <1>9, <2>1, <2>3, CommittedStore DEF LoadAll
<1> QED
  BY <1>2, <1>3, <1>4, <1>5, <1>6, <1>7, <1>8, <1>9 DEF SyncStep

\* What the arrival of a request does.
LEMMA BeginSlot ==
    ASSUME TypeInv, NEW h \in Reqs, Begins(h)
    PROVE  /\ UNCHANGED <<pgVars, phase, store, lastAt, sync, faults>>
           /\ ~InFlight(h) /\ Turn(req'[h].zone)
           /\ \A g \in Reqs : g # h => req'[g] = req[g]
           /\ req'[h].pc \in {"insertZone", "softDeleteZone", "getZone"}
           /\ req'[h].pc = "insertZone" => MayRepost \/ ~Active(req'[h].zone)
           /\ req'[h].op = "updateRecord" =>
                 \E r \in recRows : r.id = req'[h].id /\ (MayRename \/ r.key = req'[h].key)
<1>0. req \in [Reqs -> Request]
  BY DEF TypeInv, TypeOK
<1>1. PICK i \in Nodes, a \in Apexes :
        \/ BeginCreateDomain(h, i, a)
        \/ BeginDeleteDomain(h, i, a)
        \/ \E k \in Keys, v \in Vals : BeginCreateRecord(h, i, a, k, v)
        \/ \E id \in Ids, k \in Keys, v \in Vals : BeginUpdateRecord(h, i, a, id, k, v)
        \/ \E id \in Ids : BeginDeleteRecord(h, i, a, id)
  BY DEF Begins
<1>2. CASE BeginCreateDomain(h, i, a)
  BY <1>0, <1>2 DEF BeginCreateDomain, Begin, NoReq
<1>3. CASE BeginDeleteDomain(h, i, a)
  BY <1>0, <1>3 DEF BeginDeleteDomain, Begin, NoReq
<1>4. CASE \E k \in Keys, v \in Vals : BeginCreateRecord(h, i, a, k, v)
  BY <1>0, <1>4 DEF BeginCreateRecord, Begin, NoReq
<1>5. CASE \E id \in Ids, k \in Keys, v \in Vals : BeginUpdateRecord(h, i, a, id, k, v)
  BY <1>0, <1>5 DEF BeginUpdateRecord, Begin, NoReq
<1>6. CASE \E id \in Ids : BeginDeleteRecord(h, i, a, id)
  BY <1>0, <1>6 DEF BeginDeleteRecord, Begin, NoReq
<1> QED
  BY <1>1, <1>2, <1>3, <1>4, <1>5, <1>6

\* Every step keeps the invariant.
LEMMA CommittedStep ==
    ASSUME TypeInv, TypeInv', CommittedInv, [Next]_vars
    PROVE  CommittedInv'
<1>1. ASSUME NEW h \in Reqs, Begins(h)
      PROVE  CommittedInv'
  <2>1. /\ UNCHANGED pgVars /\ store' = store /\ sync' = sync
        /\ \A g \in Reqs : g # h => req'[g] = req[g]
        /\ req'[h].pc \notin {"PutRecord", "Update", "insertRecord"}
    BY <1>1, BeginSlot
  <2> QED
    BY <2>1, CommittedTables
<1>2. ASSUME NEW h \in Reqs, Abort(h)
      PROVE  CommittedInv'
  <2>1. /\ UNCHANGED pgVars /\ store' = store /\ sync' = sync
        /\ \A g \in Reqs : g # h => req'[g] = req[g]
        /\ req'[h].pc \notin {"PutRecord", "Update", "insertRecord"}
    BY <1>2, DoneSlot DEF Abort
  <2> QED
    BY <2>1, CommittedTables
<1>3. ASSUME NEW a \in Apexes, NEW id \in Ids, NEW k \in Keys, NEW v \in Vals,
             OpsInsertRecord(a, id, k, v)
      PROVE  CommittedInv'
  <2>1. HasZone(zoneRows, a) /\ InsertRecord(a, id, k, v)
    BY <1>3 DEF OpsInsertRecord, HasZone
  <2>2. PgTypeOK /\ TableInv
    BY DEF TypeInv, TypeOK, PgTypeOK, CommittedInv
  <2>3. \E n : RowWrite(n)
    BY <2>1, <2>2, InsertRecordWrites
  <2>4. store' = store /\ sync' = sync /\ req' = req
    BY <1>3 DEF OpsInsertRecord
  <2> QED
    BY <2>3, <2>4, CommittedTables
<1>4. CASE UNCHANGED vars
  BY <1>4 DEF vars, CommittedInv, TableInv
<1> QED
  BY <1>1, <1>2, <1>3, <1>4, CommittedStatement, CommittedHandlerStore, CommittedSync
     DEF Next, HandlerStep

\* The invariant holds before the first request.
LEMMA CommittedInit == Init => CommittedInv
BY DEF Init, PgInit, CommittedInv, TableInv, NewStore, NoSync, NoReq

\* The invariant holds throughout.
LEMMA CommittedAlways == Spec => [](TypeInv /\ CommittedInv)
<1>1. Init => TypeInv /\ CommittedInv
  BY TypeInit, CommittedInit
<1>2. (TypeInv /\ CommittedInv) /\ [Next]_vars => (TypeInv /\ CommittedInv)'
  BY TypeStep, CommittedStep
<1> QED
  BY <1>1, <1>2, PTL DEF Spec

\* An instance serves only records that were committed and domains that exist,
\* whatever order handlers, syncs, crashes and restarts take their steps in.
THEOREM ServesCommitted == Spec => []ServesCommittedRows
<1>1. ASSUME TypeInv, CommittedInv
      PROVE  ServesCommittedRows
  <2>1. ASSUME NEW i \in Nodes, NEW e \in store[i].recs
        PROVE  /\ e.zone \in store[i].zones
               /\ \E r \in recRows :
                     /\ r.id = e.id /\ r.zone = e.zone /\ e.ver <= r.ver
                     /\ e.ver = r.ver => ~r.deleted /\ EntryOf(r) = e
    <3>1. e \in Entry
      BY <1>1 DEF TypeInv, TypeOK, Store
    <3>2. EntryOf(e) = e
      BY <3>1 DEF EntryOf, Entry
    <3>3. e.zone \in store[i].zones /\ BackedIn(recRows, e)
      BY <1>1 DEF CommittedInv
    <3> QED
      BY <3>2, <3>3 DEF BackedIn
  <2>2. \A i \in Nodes : \A a \in store[i].zones : \E z \in zoneRows : z.name = a
    BY <1>1 DEF CommittedInv, HasZone
  <2> QED
    BY <2>1, <2>2 DEF ServesCommittedRows
<1> QED
  BY <1>1, CommittedAlways, PTL
=============================================================================
