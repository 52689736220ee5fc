--------------------------- MODULE EdgeSyncNoLoss ---------------------------
(***************************************************************************)
(* What holds for an environment that keeps to some rules: no store holds  *)
(* two copies of a record, and no change is lost.                          *)
(***************************************************************************)
EXTENDS EdgeSyncProofs

-----------------------------------------------------------------------------
(***************************************************************************)
(* Proof that no store holds two copies of a record, provided that no PUT  *)
(* changes a record's name or type.  PutRecord looks for the id in the     *)
(* rrset of one key only, so the invariant has to say that every copy of a *)
(* record, wherever it travels, is under the key of its row.               *)
(***************************************************************************)
\* The key of x is the key of its row.
KeyedIn(T, x) == \E r \in T : r.id = x.id /\ r.key = x.key

\* Store s holds an id at most once in an rrset, and under the key of its row.
KeyedStore(s) ==
    /\ \A e, f \in s.recs : e.zone = f.zone /\ e.key = f.key /\ e.id = f.id => e = f
    /\ \A e \in s.recs : KeyedIn(recRows, e)

\* A request that names a row, or holds one, has the row's key.
KeyedReq(q) == q.op = "updateRecord" \/ q.pc = "PutRecord" => KeyedIn(recRows, q)

KeyInv ==
    /\ \A i \in Nodes : KeyedStore(store[i])
    /\ \A i \in Nodes : \A p \in sync[i].rset : KeyedIn(recRows, p)
    /\ \A h \in Reqs : KeyedReq(req[h])

\* Rows keep their keys.
KeyKept == \A r \in recRows : \E s \in recRows' : s.id = r.id /\ s.key = r.key

\* A copy under its row's key stays so while rows keep their keys.
LEMMA KeyedStays ==
    ASSUME KeyKept, NEW x, KeyedIn(recRows, x)
    PROVE  KeyedIn(recRows', x)
BY DEF KeyKept, KeyedIn

\* A statement that keeps the key of the row it writes keeps every key.
LEMMA WriteKeepsKeys ==
    ASSUME NEW n, RowWrite(n), \A r \in recRows : r.id = n.id => r.key = n.key
    PROVE  KeyKept
BY DEF RowWrite, KeyKept

\* A step of the tables and of one request, the stores and syncs left alone.
LEMMA KeyTables ==
    ASSUME KeyInv, KeyKept, store' = store, sync' = sync,
           \A g \in Reqs : req'[g] = req[g] \/ KeyedReq(req[g])'
    PROVE  KeyInv'
<1>1. \A i \in Nodes : KeyedStore(store[i])'
  BY KeyedStays DEF KeyInv, KeyedStore
<1>2. \A i \in Nodes : \A p \in sync'[i].rset : KeyedIn(recRows', p)
  BY KeyedStays DEF KeyInv
<1>3. \A h \in Reqs : KeyedReq(req[h])'
  BY KeyedStays DEF KeyInv, KeyedReq
<1> QED
  BY <1>1, <1>2, <1>3 DEF KeyInv

\* A step of one instance's store (and sync), tables left alone.
LEMMA KeyStore ==
    ASSUME KeyInv, UNCHANGED pgVars, NEW i \in Nodes,
           \A j \in Nodes : j # i => store'[j] = store[j] /\ sync'[j] = sync[j],
           KeyedStore(store'[i]), \A p \in sync'[i].rset : KeyedIn(recRows, p),
           \A h \in Reqs : req'[h] = req[h] \/ req'[h] = NoReq
    PROVE  KeyInv'
<1>1. recRows' = recRows
  BY DEF pgVars
<1>2. NoReq.pc = "idle" /\ NoReq.op = "none"
  BY DEF NoReq
<1>3. \A h \in Reqs : KeyedReq(req[h])'
  BY <1>1, <1>2 DEF KeyInv, KeyedReq
<1>4. \A j \in Nodes : KeyedStore(store[j])'
  BY <1>1 DEF KeyInv, KeyedStore
<1>5. \A j \in Nodes : \A p \in sync'[j].rset : KeyedIn(recRows', p)
  BY <1>1 DEF KeyInv
<1> QED
  BY <1>3, <1>4, <1>5 DEF KeyInv

\* What the store's operations do to a store that is keyed.
LEMMA KeyedOps ==
    ASSUME NEW s \in Store, KeyedStore(s), NEW a \in Apexes
    PROVE  /\ KeyedStore(Update(s, a, {})) /\ KeyedStore(Delete(s, a))
           /\ \A rec \in Entry : KeyedIn(recRows, rec) => KeyedStore(PutRecord(s, rec))
           /\ \A id \in Ids : \A t \in DropRecord(s, a, id) : KeyedStore(t)
<1>1. KeyedStore(Update(s, a, {})) /\ KeyedStore(Delete(s, a))
  BY ZoneOpContents DEF KeyedStore
<1>2. ASSUME NEW rec \in Entry, KeyedIn(recRows, rec)
      PROVE  KeyedStore(PutRecord(s, rec))
  BY <1>2, PutContents DEF KeyedStore
<1>3. ASSUME NEW id \in Ids, NEW t \in DropRecord(s, a, id)
      PROVE  KeyedStore(t)
  <2>1. t.recs \subseteq s.recs
    BY DropContents
  <2> QED
    BY <2>1 DEF KeyedStore
<1> QED
  BY <1>1, <1>2, <1>3
-----------------------------------------------------------------------------
\* A handler's statement, with no PUT that renames.
LEMMA KeyStatement ==
    ASSUME TypeInv, TypeInv', CommittedInv, KeyInv, NEW h \in Reqs,
           \/ CreateZoneInsert(h) \/ CreateZoneFetch(h) \/ DeleteZone(h)
           \/ GetZone(h) \/ CreateRecordInsert(h) \/ CreateRecordFetch(h)
           \/ UpdateRecordRow(h) \/ DeleteRecordRow(h)
    PROVE  KeyInv'
<1> DEFINE q == req[h]
           Slot == /\ \A g \in Reqs : g # h => req'[g] = req[g]
                   /\ KeyedReq(req[h])'
<1>1. q \in Request /\ WellFormed(q) /\ q.pc # "idle" /\ q.zone \in Apexes
  BY ReqFields DEF CreateZoneInsert, CreateZoneFetch, DeleteZone, GetZone, AtPg,
       CreateRecordInsert, CreateRecordFetch, UpdateRecordRow, DeleteRecordRow
<1>2. store' = store /\ sync' = sync
  BY DEF CreateZoneInsert, CreateZoneFetch, DeleteZone, GetZone, AtPg,
       CreateRecordInsert, CreateRecordFetch, UpdateRecordRow, DeleteRecordRow
<1>3. PgTypeOK /\ TableInv
  BY DEF TypeInv, TypeOK, PgTypeOK, CommittedInv
<1>4. SUFFICES KeyKept /\ Slot
  BY <1>2, KeyTables
<1>5. Done(h) => Slot
  BY DoneSlot DEF KeyedReq
<1>6. recRows' = recRows => KeyKept
  BY DEF KeyKept
<1>7. ASSUME NEW pc, Goto(h, pc), pc # "PutRecord", KeyKept
      PROVE  Slot
  <2>1. /\ req'[h].pc = pc /\ req'[h].op = q.op /\ req'[h].id = q.id
        /\ req'[h].key = q.key /\ \A g \in Reqs : g # h => req'[g] = req[g]
    BY <1>7, GotoSlot
  <2>2. q.op = "updateRecord" => KeyedIn(recRows', q)
    BY <1>7, KeyedStays DEF KeyInv, KeyedReq
  <2> QED
    BY <1>7, <2>1, <2>2 DEF KeyedReq, KeyedIn
<1>8. ASSUME NEW id, NEW ver, Returned(h, id, ver),
             NEW r \in recRows', r.id = id, r.key = q.key
      PROVE  Slot
  BY <1>8, ReturnedSlot DEF KeyedReq, KeyedIn
<1>9. CASE CreateZoneInsert(h) \/ CreateZoneFetch(h) \/ DeleteZone(h) \/ GetZone(h)
  <2>1. recRows' = recRows
    BY <1>9 DEF CreateZoneInsert, CreateZoneFetch, DeleteZone, GetZone, pgVars,
         InsertZone, SoftDeleteZone
  <2>2. AfterGetZone(q.op) # "PutRecord" \/ ~GetZone(h)
    BY <1>1 DEF GetZone, AtPg, WellFormed, AfterGetZone
  <2>3. Done(h) \/ \E pc : Goto(h, pc) /\ pc # "PutRecord"
    BY <1>9, <2>2 DEF CreateZoneInsert, CreateZoneFetch, DeleteZone, GetZone
  <2> QED
    BY <1>5, <1>6, <1>7, <2>1, <2>3
<1>11. CASE CreateRecordInsert(h)
  <2>0. /\ HasZone(zoneRows, q.zone)
        /\ q.key \in Keys /\ q.val \in Vals
    BY <1>1, <1>11 DEF CreateRecordInsert, AtPg, CommittedInv, WellFormed
  <2>1. ASSUME NEW id \in Ids, InsertRecord(q.zone, id, q.key, q.val),
               Returned(h, id, clock + 1)
        PROVE  KeyKept /\ Slot
    <3>1. PICK u \in Stamps : /\ RowWrite(RowVersion(q.zone, id, q.key, q.val, FALSE, u))
                              /\ \A r \in recRows : r.id # id
      BY <1>1, <1>3, <2>0, <2>1, InsertRecordWrites
    <3> DEFINE n == RowVersion(q.zone, id, q.key, q.val, FALSE, u)
    <3>2. n.id = id /\ n.key = q.key
      BY DEF RowVersion
    <3>3. n \in recRows' /\ KeyKept
      BY <3>1, <3>2, WriteKeepsKeys DEF RowWrite
    <3> QED
      BY <1>8, <2>1, <3>2, <3>3
  <2>2. CASE Goto(h, "fetchRecord") /\ UNCHANGED pgVars
    BY <1>6, <1>7, <2>2 DEF pgVars
  <2>3. CASE Done(h) /\ UNCHANGED pgVars
    BY <1>5, <1>6, <2>3 DEF pgVars
  <2> QED
    BY <1>11, <2>1, <2>2, <2>3 DEF CreateRecordInsert
<1>12. CASE CreateRecordFetch(h)
  <2>1. recRows' = recRows
    BY <1>12 DEF CreateRecordFetch, pgVars
  <2>2. ASSUME NEW r \in ActiveRows(q.zone, q.key, q.val), Returned(h, r.id, r.ver)
        PROVE  Slot
    BY <1>8, <2>1, <2>2 DEF ActiveRows
  <2> QED
    BY <1>5, <1>6, <1>12, <2>1, <2>2 DEF CreateRecordFetch
<1>13. CASE UpdateRecordRow(h)
  <2>0. q.id \in Ids /\ q.key \in Keys /\ q.val \in Vals /\ KeyedIn(recRows, q)
    BY <1>1, <1>13 DEF UpdateRecordRow, AtPg, WellFormed, KeyInv, KeyedReq
  <2>1. CASE UpdateRecord(q.zone, q.id, q.key, q.val) /\ Returned(h, q.id, clock + 1)
    <3>1. PICK u \in Stamps : RowWrite(RowVersion(q.zone, q.id, q.key, q.val, FALSE, u))
      BY <1>1, <1>3, <2>0, <2>1, UpdateRecordWrites
    <3> DEFINE n == RowVersion(q.zone, q.id, q.key, q.val, FALSE, u)
    <3>2. n.id = q.id /\ n.key = q.key
      BY DEF RowVersion
    <3>3. \A r \in recRows : r.id = n.id => r.key = n.key
      BY <1>3, <2>0, <3>2 DEF KeyedIn, TableInv
    <3>4. n \in recRows' /\ KeyKept
      BY <3>1, <3>3, WriteKeepsKeys DEF RowWrite
    <3> QED
      BY <1>8, <2>1, <3>2, <3>4
  <2>2. CASE Done(h) /\ UNCHANGED pgVars
    BY <1>5, <1>6, <2>2 DEF pgVars
  <2> QED
    BY <1>13, <2>1, <2>2 DEF UpdateRecordRow
<1>14. CASE DeleteRecordRow(h)
  <2>0. q.id \in Ids
    BY <1>1, <1>14 DEF DeleteRecordRow, AtPg, WellFormed
  <2>1. CASE SoftDeleteRecord(q.zone, q.id) /\ Goto(h, "DropRecord")
    <3>1. PICK u \in Stamps, r \in recRows :
            /\ RowWrite(RowVersion(q.zone, q.id, r.key, r.val, TRUE, u))
            /\ r.id = q.id /\ r.zone = q.zone
      BY <1>1, <1>3, <2>0, <2>1, SoftDeleteRecordWrites
    <3> DEFINE n == RowVersion(q.zone, q.id, r.key, r.val, TRUE, u)
    <3>2. n.id = q.id /\ n.key = r.key
      BY DEF RowVersion
    <3>3. \A s \in recRows : s.id = n.id => s.key = n.key
      BY <1>3, <3>1, <3>2 DEF TableInv
    <3>4. KeyKept
      BY <3>1, <3>3, WriteKeepsKeys
    <3> QED
      BY <1>7, <2>1, <3>4
  <2>2. CASE Done(h) /\ UNCHANGED pgVars
    BY <1>5, <1>6, <2>2 DEF pgVars
  <2> QED
    BY <1>14, <2>1, <2>2 DEF DeleteRecordRow
<1> QED
  BY <1>9, <1>11, <1>12, <1>13, <1>14

\* A handler's store call.
LEMMA KeyHandlerStore ==
    ASSUME TypeInv, TypeInv', KeyInv, NEW h \in Reqs, HandlerStore(h)
    PROVE  KeyInv'
<1> DEFINE q == req[h]  i == req[h].node
<1>1. /\ i \in Nodes /\ q.zone \in Apexes /\ store[i] \in Store
      /\ req' = [req EXCEPT ![h] = NoReq] /\ sync' = sync /\ UNCHANGED pgVars
  BY HandlerStoreCases DEF TypeInv, TypeOK
<1>2. PICK t : /\ store' = [store EXCEPT ![i] = t]
               /\ \/ q.pc = "Update" /\ t = Update(store[i], q.zone, {})
                  \/ q.pc = "Delete" /\ t = Delete(store[i], q.zone)
                  \/ /\ q.pc = "PutRecord" /\ HeldRecord(q) \in Entry
                     /\ t = PutRecord(store[i], HeldRecord(q))
                  \/ /\ q.pc = "DropRecord" /\ q.id \in Ids
                     /\ t \in DropRecord(store[i], q.zone, q.id)
  BY HandlerStoreCases
<1>3. q.pc = "PutRecord" => KeyedIn(recRows, HeldRecord(q))
  BY DEF KeyInv, KeyedReq, KeyedIn, HeldRecord
<1>4. KeyedStore(store[i])
  BY <1>1 DEF KeyInv
<1>5. KeyedStore(t)
  BY <1>1, <1>2, <1>3, <1>4, KeyedOps
<1>6. store'[i] = t /\ \A j \in Nodes : j # i => store'[j] = store[j] /\ sync'[j] = sync[j]
  BY <1>1, <1>2 DEF TypeInv, TypeOK
<1>7. \A g \in Reqs : req'[g] = req[g] \/ req'[g] = NoReq
  BY <1>1 DEF TypeInv, TypeOK
<1>8. \A p \in sync'[i].rset : KeyedIn(recRows, p)
  BY <1>1 DEF KeyInv
<1> QED
  BY <1>1, <1>5, <1>6, <1>7, <1>8, KeyStore

\* A step of a sync, a failed sync, a crash and a restart.
LEMMA KeySync ==
    ASSUME TypeInv, TypeInv', CommittedInv, KeyInv, NEW i \in Nodes,
           SyncStep(i) \/ SyncError(i) \/ Crash(i) \/ Boot(i) \/ LoadAll(i)
    PROVE  KeyInv'
<1> USE DEF pgVars
<1>0. /\ store \in [Nodes -> Store] /\ sync \in [Nodes -> SyncState] /\ store[i] \in Store
      /\ recRows \subseteq Row /\ req \in [Reqs -> Request] /\ sync[i] \in SyncState
  BY DEF TypeInv, TypeOK
<1> DEFINE Others == /\ \A j \in Nodes : j # i => store'[j] = store[j] /\ sync'[j] = sync[j]
                     /\ \A g \in Reqs : req'[g] = req[g] \/ req'[g] = NoReq
                     /\ UNCHANGED pgVars
<1>1. KeyedStore(store[i]) /\ \A p \in sync[i].rset : KeyedIn(recRows, p)
  BY DEF KeyInv
<1>2. ASSUME Others, KeyedStore(store'[i]), \A p \in sync'[i].rset : KeyedIn(recRows, p)
      PROVE  KeyInv'
  BY <1>2, KeyStore
<1>3. CASE StartSync(i) \/ QueryZones(i)
  <2>1. sync'[i].rset = sync[i].rset /\ store'[i] = store[i]
    BY <1>0, <1>3 DEF StartSync, QueryZones, SyncState
  <2>2. Others
    BY <1>0, <1>3 DEF StartSync, QueryZones
  <2> QED
    BY <1>1, <1>2, <2>1, <2>2
<1>4. CASE ApplyZone(i)
  <2>1. PICK a \in sync[i].zset : /\ store' = [store EXCEPT ![i] = Delete(store[i], a)]
                                  /\ sync' = [sync EXCEPT ![i].zset = @ \ {a}]
    BY <1>4 DEF ApplyZone
  <2>2. a \in Apexes
    BY <1>0, <2>1 DEF SyncState
  <2>3. store'[i] = Delete(store[i], a) /\ sync'[i].rset = sync[i].rset /\ Others
    BY <1>0, <1>4, <2>1 DEF SyncState, ApplyZone
  <2> QED
    BY <1>0, <1>1, <1>2, <2>2, <2>3, KeyedOps
<1>5. CASE QueryRecords(i)
  <2>1. sync'[i].rset = IncrementalRecords(lastAt[i]) /\ store'[i] = store[i] /\ Others
    BY <1>0, <1>5 DEF QueryRecords, SyncState
  <2>2. \A p \in IncrementalRecords(lastAt[i]) : KeyedIn(recRows, p)
    BY DEF IncrementalRecords, KeyedIn
  <2> QED
    BY <1>1, <1>2, <2>1, <2>2
<1>6. CASE ApplyRecord(i)
  <2>1. PICK p \in sync[i].rset :
          /\ \E t \in ApplyRow(store[i], p) : store' = [store EXCEPT ![i] = t]
          /\ sync' = [sync EXCEPT ![i].rset = @ \ {p}]
    BY <1>6 DEF ApplyRecord
  <2>2. PICK t \in ApplyRow(store[i], p) : store' = [store EXCEPT ![i] = t]
    BY <2>1
  <2>3. p \in Row /\ p.zone \in Apexes /\ p.id \in Ids /\ EntryOf(p) \in Entry
    BY <1>0, <2>1, EntryTypes DEF SyncState, Row
  <2>4. KeyedIn(recRows, EntryOf(p))
    BY <1>1, <2>1 DEF KeyedIn, EntryOf
  <2>5. KeyedStore(t)
    BY <1>0, <1>1, <2>2, <2>3, <2>4, KeyedOps DEF ApplyRow
  <2>6. store'[i] = t /\ sync'[i].rset = sync[i].rset \ {p} /\ Others
    BY <1>0, <1>6, <2>1, <2>2 DEF SyncState, ApplyRecord
  <2> QED
    BY <1>1, <1>2, <2>5, <2>6
<1>7. CASE EndSync(i) \/ SyncError(i)
  <2>1. sync'[i].rset = {} /\ store'[i] = store[i] /\ Others
    BY <1>0, <1>7 DEF EndSync, SyncError, NoSync
  <2> QED
    BY <1>1, <1>2, <2>1
<1>8. CASE Crash(i)
  <2>1. store'[i].recs = {} /\ sync'[i].rset = {} /\ Others
    BY <1>0, <1>8 DEF Crash, NewStore, NoSync
  <2> QED
    BY <1>2, <2>1 DEF KeyedStore
<1>9. CASE Boot(i)
  <2>1. sync'[i].rset = sync[i].rset /\ store'[i] = store[i] /\ Others
    BY <1>0, <1>9 DEF Boot
  <2> QED
    BY <1>1, <1>2, <2>1
<1>10. CASE LoadAll(i)
  <2>1. store'[i].recs = {EntryOf(r) : r \in LoadAllRows} /\ sync'[i] = sync[i] /\ Others
    BY <1>0, <1>10 DEF LoadAll
  <2>2. \A r, s \in LoadAllRows : r \in recRows /\ (r.id = s.id => r = s)
    BY DEF LoadAllRows, CommittedInv, TableInv
  <2>3. KeyedStore(store'[i])
    <3>1. \A r \in LoadAllRows : EntryOf(r).id = r.id /\ EntryOf(r).key = r.key
      BY DEF EntryOf
    <3> QED
      BY <2>1, <2>2, <3>1 DEF KeyedStore, KeyedIn
  <2> QED
    BY <1>1, <1>2, <2>1, <2>3
<1> QED
  BY <1>3, <1>4, <1>5, <1>6, <1>7, <1>8, <1>9, <1>10 DEF SyncStep

\* Every step keeps the keys, when no PUT renames.
LEMMA KeyStep ==
    ASSUME ~MayRename, TypeInv, TypeInv', CommittedInv, KeyInv, [Next]_vars
    PROVE  KeyInv'
<1>0. recRows' = recRows => KeyKept
  BY DEF KeyKept
<1>1. ASSUME NEW h \in Reqs, Begins(h)
      PROVE  KeyInv'
  <2>1. /\ recRows' = recRows /\ store' = store /\ sync' = sync
        /\ \A g \in Reqs : g # h => req'[g] = req[g]
        /\ req'[h].pc # "PutRecord"
        /\ req'[h].op = "updateRecord" =>
              \E r \in recRows : r.id = req'[h].id /\ r.key = req'[h].key
    BY <1>1, BeginSlot DEF pgVars
  <2>2. KeyedReq(req[h])'
    BY <2>1 DEF KeyedReq, KeyedIn
  <2> QED
    BY <1>0, <2>1, <2>2, KeyTables
<1>2. ASSUME NEW h \in Reqs, Abort(h)
      PROVE  KeyInv'
  <2>1. /\ recRows' = recRows /\ store' = store /\ sync' = sync
        /\ \A g \in Reqs : g # h => req'[g] = req[g]
        /\ req'[h].pc # "PutRecord" /\ req'[h].op # "updateRecord"
    BY <1>2, DoneSlot DEF Abort, pgVars
  <2> QED
    BY <1>0, <2>1, KeyTables DEF KeyedReq
<1>3. ASSUME NEW a \in Apexes, NEW id \in Ids, NEW k \in Keys, NEW v \in Vals,
             OpsInsertRecord(a, id, k, v)
      PROVE  KeyInv'
  <2>1. recRows \subseteq recRows' /\ store' = store /\ sync' = sync /\ req' = req
    BY <1>3 DEF OpsInsertRecord, InsertRecord
  <2> QED
    BY <2>1, KeyTables DEF KeyKept
<1>4. CASE UNCHANGED vars
  <2>1. recRows' = recRows /\ store' = store /\ sync' = sync /\ req' = req
    BY <1>4 DEF vars
  <2> QED
    BY <1>0, <2>1, KeyTables
<1> QED
  BY <1>1, <1>2, <1>3, <1>4, KeyStatement, KeyHandlerStore, KeySync DEF Next, HandlerStep

\* No copy exists before the first request.
LEMMA KeyInit == Init => KeyInv
BY DEF Init, KeyInv, KeyedStore, KeyedReq, NewStore, NoSync, NoReq

\* The three invariants hold together throughout.
LEMMA KeyAlways ==
    ASSUME ~MayRename
    PROVE  Spec => [](TypeInv /\ CommittedInv /\ KeyInv)
<1>1. Init => TypeInv /\ CommittedInv /\ KeyInv
  BY TypeInit, CommittedInit, KeyInit
<1>2. (TypeInv /\ CommittedInv /\ KeyInv) /\ [Next]_vars =>
         (TypeInv /\ CommittedInv /\ KeyInv)'
  BY TypeStep, CommittedStep, KeyStep
<1> QED
  BY <1>1, <1>2, PTL DEF Spec

\* As long as no PUT changes a record's name or type, no interleaving of
\* PutRecord, DropRecord, Update, Delete and LoadAll leaves two copies of a
\* record in a store.
THEOREM OneCopy ==
    ASSUME ~MayRename
    PROVE  Spec => []OneCopyPerRecord
<1>1. ASSUME CommittedInv, KeyInv
      PROVE  OneCopyPerRecord
  <2>1. ASSUME NEW i \in Nodes, NEW e \in store[i].recs, NEW f \in store[i].recs,
               e.id = f.id
        PROVE  e = f
    <3>1. PICK r \in recRows : r.id = e.id /\ r.zone = e.zone
      BY <1>1 DEF CommittedInv, BackedIn
    <3>2. PICK s \in recRows : s.id = f.id /\ s.zone = f.zone
      BY <1>1 DEF CommittedInv, BackedIn
    <3>3. e.zone = f.zone
      BY <1>1, <2>1, <3>1, <3>2 DEF CommittedInv, TableInv
    <3>4. KeyedIn(recRows, e) /\ KeyedIn(recRows, f)
      BY <1>1 DEF KeyInv, KeyedStore
    <3>5. e.key = f.key
      BY <1>1, <2>1, <3>4 DEF KeyedIn, CommittedInv, TableInv
    <3> QED
      BY <1>1, <2>1, <3>3, <3>5 DEF KeyInv, KeyedStore
  <2> QED
    BY <2>1 DEF OneCopyPerRecord
<1> QED
  BY <1>1, KeyAlways, PTL
-----------------------------------------------------------------------------
(***************************************************************************)
(* Proof that no change is lost, for an environment that keeps to some     *)
(* rules: the writers of a domain take turns, no PUT renames a record,     *)
(* nobody posts an active domain, and stamps order rows as their commits   *)
(* do.  The invariant follows a handler from its statement to its store    *)
(* call, and a sync from its first query to its last row.                  *)
(***************************************************************************)
\* What the environment keeps to.
TakingTurns == ~MayRename /\ ~MayRepost /\ ~Overlap /\ MaxLag = 0

\* What store s does not show is stamped after l.
Caught(s, l) ==
    /\ \A r \in recRows : Active(r.zone) => Reflected(s, r) \/ r.upd > l
    /\ \A z \in zoneRows : z.deleted => Gone(s, z) \/ z.upd > l

\* A sync y over store s: what was stamped before its start is in the store or
\* among the rows still to be applied, once they were read; and a row still to
\* be applied that is no longer current was overtaken after the start.
SyncOK(y, s) ==
    /\ y.pc # "zones" => y.zset = {}
    /\ y.pc # "records" => y.rset = {}
    /\ \A a \in y.zset : \E z \in zoneRows : z.name = a /\ z.deleted
    /\ y.pc \in {"zones", "records"} => \A z \in zoneRows :
          z.deleted => Gone(s, z) \/ z.upd > y.start \/ z.name \in y.zset
    /\ y.pc = "records" => \A r \in recRows :
          Active(r.zone) => Reflected(s, r) \/ r.upd > y.start \/ r \in y.rset
    /\ \A p \in y.rset : \A r \in recRows : p.id = r.id => p = r \/ r.upd > y.start
    /\ \A p \in y.rset : \A z \in zoneRows :
          z.name = p.zone /\ z.deleted => z.upd > y.start

NodeInv(i) ==
    /\ lastAt[i] <= clock /\ sync[i].start <= clock
    /\ sync[i].pc # "idle" => phase[i] = "up" /\ lastAt[i] <= sync[i].start
    /\ phase[i] = "up" => Caught(store[i], lastAt[i])
    /\ SyncOK(sync[i], store[i])

\* What a handler is about to do to the store is what the tables say now.
HandlerOK(q) ==
    /\ q.pc \in {"insertZone", "fetchZone", "Delete"} => ~Active(q.zone)
    /\ q.pc \in {"Update", "insertRecord", "fetchRecord", "updateRecord",
                 "softDeleteRecord", "PutRecord", "DropRecord"} => Active(q.zone)
    /\ q.pc = "Update" => \A r \in recRows : r.zone # q.zone
    /\ q.pc = "PutRecord" => \E r \in recRows : ~r.deleted /\ EntryOf(r) = EntryOf(q)
    /\ q.pc = "DropRecord" =>
          \E r \in recRows : r.deleted /\ r.id = q.id /\ r.zone = q.zone

\* A handler alone works on its domain.
HandlerInv ==
    /\ \A g, h \in Reqs :
          InFlight(g) /\ InFlight(h) /\ req[g].zone = req[h].zone => g = h
    /\ \A h \in Reqs : HandlerOK(req[h])

NoLossInv == HandlerInv /\ \A i \in Nodes : NodeInv(i)

-----------------------------------------------------------------------------
(***************************************************************************)
(* What the store's operations do to the copies of a record.               *)
(***************************************************************************)
\* PutRecord leaves one copy of the record under its id, and touches no other.
LEMMA PutCopies ==
    ASSUME TableInv, NEW s \in Store, KeyedStore(s),
           NEW rec \in Entry, KeyedIn(recRows, rec), NEW t, t = PutRecord(s, rec)
    PROVE  /\ t.zones = s.zones \cup {rec.zone}
           /\ Copies(t, rec.zone, rec.id) = {rec}
           /\ \A a, id : id # rec.id => Copies(t, a, id) = Copies(s, a, id)
<1>1. /\ t.zones = s.zones \cup {rec.zone}
      /\ \A e : e \in t.recs <=>
            \/ e = rec
            \/ e \in s.recs /\ ~(e.zone = rec.zone /\ e.key = rec.key /\ e.id = rec.id)
  BY PutContents
<1>2. \A e \in s.recs : e.id = rec.id => e.key = rec.key
  BY DEF KeyedStore, KeyedIn, TableInv
<1>3. Copies(t, rec.zone, rec.id) = {rec}
  BY <1>1, <1>2 DEF Copies
<1>4. ASSUME NEW a, NEW id, id # rec.id
      PROVE  Copies(t, a, id) = Copies(s, a, id)
  BY <1>1, <1>4 DEF Copies
<1> QED
  BY <1>1, <1>3, <1>4

\* DropRecord leaves no copy of the record, and touches no other.
LEMMA DropCopies ==
    ASSUME TableInv, NEW s \in Store, KeyedStore(s), NEW a \in Apexes, NEW id \in Ids,
           NEW t \in DropRecord(s, a, id)
    PROVE  /\ t.zones = s.zones
           /\ Copies(t, a, id) = {}
           /\ \A b, j : j # id => Copies(t, b, j) = Copies(s, b, j)
<1>1. /\ t.zones = s.zones /\ t.recs \subseteq s.recs
      /\ \A e \in s.recs : ~(e.zone = a /\ e.id = id) => e \in t.recs
      /\ \A e \in Copies(s, a, id) : e \in t.recs => \E f \in Copies(s, a, id) : f # e
  BY DropContents
<1>2. \A e, f \in Copies(s, a, id) : e = f
  BY DEF Copies, KeyedStore, KeyedIn, TableInv
<1>3. Copies(t, a, id) = {}
  BY <1>1, <1>2 DEF Copies
<1>4. ASSUME NEW b, NEW j, j # id
      PROVE  Copies(t, b, j) = Copies(s, b, j)
  BY <1>1, <1>4 DEF Copies
<1> QED
  BY <1>1, <1>3, <1>4

\* Update and Delete of a zone touch no record of another zone.
LEMMA ZoneOpCopies ==
    ASSUME NEW s \in Store, NEW a \in Apexes
    PROVE  \A b, id : b # a => /\ Copies(Update(s, a, {}), b, id) = Copies(s, b, id)
                               /\ Copies(Delete(s, a), b, id) = Copies(s, b, id)
BY ZoneOpContents DEF Copies

-----------------------------------------------------------------------------
(***************************************************************************)
(* Steps of the tables.                                                    *)
(***************************************************************************)
\* The zone statements, as they are reached: a new name or a deletion.
ZoneStep(z) == ZoneWrite(z) /\ (z.deleted \/ ~HasZone(zoneRows, z.name))

\* With MaxLag = 0 a statement stamps its row with its own commit number.
LEMMA ExactStamps ==
    ASSUME TakingTurns, clock \in Nat
    PROVE  \A u \in Stamps : u = clock + 1
BY DEF TakingTurns, Stamps

\* A statement stamps what it writes after every lastAt and every sync's start,
\* so each instance is as caught up as before.
LEMMA NodesTables ==
    ASSUME TakingTurns, TypeInv, TypeInv', CommittedInv, \A i \in Nodes : NodeInv(i),
           (\E n : RowWrite(n)) \/ (\E z : ZoneStep(z)) \/ UNCHANGED pgVars,
           store' = store, sync' = sync, lastAt' = lastAt, phase' = phase
    PROVE  \A i \in Nodes : NodeInv(i)'
<1> SUFFICES ASSUME NEW i \in Nodes PROVE NodeInv(i)'
  OBVIOUS
<1>0. /\ clock \in Nat /\ lastAt[i] \in Nat /\ sync[i].start \in Nat
      /\ NodeInv(i) /\ TableInv
  BY DEF TypeInv, TypeOK, SyncState, CommittedInv
<1> DEFINE y == sync[i]  s == store[i]
<1>1. ASSUME NEW n, RowWrite(n)
      PROVE  NodeInv(i)'
  <2>1. /\ n.upd = clock + 1 /\ clock' = clock + 1 /\ zoneRows' = zoneRows
        /\ \A r \in recRows' : r = n \/ r \in recRows
    BY <1>0, <1>1, ExactStamps DEF RowWrite
  <2>2. n.upd > lastAt[i] /\ n.upd > y.start /\ lastAt[i] <= clock' /\ y.start <= clock'
    BY <1>0, <2>1 DEF NodeInv
  <2>3. \A a : Active(a)' <=> Active(a)
    BY <2>1 DEF Active
  <2>4. phase[i] = "up" => Caught(s, lastAt[i])'
    BY <1>0, <2>1, <2>2, <2>3 DEF NodeInv, Caught
  <2>5. SyncOK(y, s)'
    BY <1>0, <2>1, <2>2, <2>3 DEF NodeInv, SyncOK
  <2> QED
    BY <1>0, <2>2, <2>4, <2>5 DEF NodeInv
<1>2. ASSUME NEW z, ZoneStep(z)
      PROVE  NodeInv(i)'
  <2>1. /\ z.upd = clock + 1 /\ clock' = clock + 1 /\ recRows' = recRows
        /\ \A x \in zoneRows' : x = z \/ x \in zoneRows
        /\ z \in zoneRows' /\ \A x \in zoneRows : x.name # z.name => x \in zoneRows'
    BY <1>0, <1>2, ExactStamps DEF ZoneStep, ZoneWrite
  <2>2. z.upd > lastAt[i] /\ z.upd > y.start /\ lastAt[i] <= clock' /\ y.start <= clock'
    BY <1>0, <2>1 DEF NodeInv
  <2>3. \A r \in recRows : Active(r.zone)' => Active(r.zone)
    BY <1>0, <1>2, <2>1 DEF Active, ZoneStep, TableInv, HasZone
  <2>4. phase[i] = "up" => Caught(s, lastAt[i])'
    BY <1>0, <2>1, <2>2, <2>3 DEF NodeInv, Caught
  <2>5. \A a \in y.zset : \E x \in zoneRows' : x.name = a /\ x.deleted
    BY <1>0, <1>2, <2>1 DEF NodeInv, SyncOK, ZoneStep, HasZone
  <2>6. SyncOK(y, s)'
    BY <1>0, <2>1, <2>2, <2>3, <2>5 DEF NodeInv, SyncOK
  <2> QED
    BY <1>0, <2>2, <2>4, <2>6 DEF NodeInv
<1>3. CASE UNCHANGED pgVars
  BY <1>0, <1>3 DEF pgVars, NodeInv, Caught, SyncOK, Active
<1> QED
  BY <1>1, <1>2, <1>3
-----------------------------------------------------------------------------
(***************************************************************************)
(* Steps of one instance.                                                  *)
(***************************************************************************)
\* The step from store s to t hides nothing that s shows.
Keeps(s, t) == /\ \A r \in recRows : Active(r.zone) /\ Reflected(s, r) => Reflected(t, r)
               /\ \A z \in zoneRows : z.deleted /\ Gone(s, z) => Gone(t, z)

\* A store that hides nothing more is as caught up as before.
LEMMA KeptCaught ==
    ASSUME NEW s, NEW t, Keeps(s, t)
    PROVE  /\ \A l : Caught(s, l) => Caught(t, l)
           /\ \A y : SyncOK(y, s) => SyncOK(y, t)
BY DEF Keeps, Caught, SyncOK

\* NodeInv(i) of the next state, when the tables are those of this one.
NodeNext(i) ==
    /\ lastAt'[i] <= clock /\ sync'[i].start <= clock
    /\ sync'[i].pc # "idle" => phase'[i] = "up" /\ lastAt'[i] <= sync'[i].start
    /\ phase'[i] = "up" => Caught(store'[i], lastAt'[i])
    /\ SyncOK(sync'[i], store'[i])

\* A step of instance i, tables left alone.
LEMMA NodesStore ==
    ASSUME \A j \in Nodes : NodeInv(j), UNCHANGED pgVars, NEW i \in Nodes, NodeNext(i),
           \A j \in Nodes : j # i => /\ store'[j] = store[j] /\ sync'[j] = sync[j]
                                     /\ lastAt'[j] = lastAt[j] /\ phase'[j] = phase[j]
    PROVE  \A j \in Nodes : NodeInv(j)'
<1>1. recRows' = recRows /\ zoneRows' = zoneRows /\ clock' = clock
  BY DEF pgVars
<1>2. \A a : Active(a)' <=> Active(a)
  BY <1>1 DEF Active
<1>3. ASSUME NEW j \in Nodes
      PROVE  NodeNext(j)
  BY <1>3 DEF NodeInv, NodeNext
<1>4. ASSUME NEW j \in Nodes, NodeNext(j)
      PROVE  NodeInv(j)'
  <2>1. Caught(store'[j], lastAt'[j]) => Caught(store[j], lastAt[j])'
    BY <1>1, <1>2 DEF Caught
  <2>2. SyncOK(sync'[j], store'[j]) => SyncOK(sync[j], store[j])'
    BY <1>1, <1>2 DEF SyncOK
  <2> QED
    BY <1>1, <1>4, <2>1, <2>2 DEF NodeInv, NodeNext
<1> QED
  BY <1>3, <1>4

\* An active zone has no deleted row.
LEMMA ActiveNotDeleted ==
    ASSUME TableInv, NEW z \in zoneRows, z.deleted
    PROVE  ~Active(z.name)
BY DEF TableInv, Active

\* Putting the current version of an active row shows it and hides nothing.
LEMMA PutKeeps ==
    ASSUME TableInv, recRows \subseteq Row, NEW s \in Store, KeyedStore(s),
           NEW r \in recRows, ~r.deleted, Active(r.zone)
    PROVE  /\ Keeps(s, PutRecord(s, EntryOf(r)))
           /\ Reflected(PutRecord(s, EntryOf(r)), r)
<1> DEFINE e == EntryOf(r)  t == PutRecord(s, e)
<1>1. e \in Entry /\ KeyedIn(recRows, e) /\ e.zone = r.zone /\ e.id = r.id
  BY EntryTypes DEF KeyedIn, EntryOf
<1>2. /\ t.zones = s.zones \cup {r.zone} /\ Copies(t, r.zone, r.id) = {e}
      /\ \A a, id : id # r.id => Copies(t, a, id) = Copies(s, a, id)
  BY <1>1, PutCopies
<1> HIDE DEF t
<1>3. Reflected(t, r)
  BY <1>2 DEF Reflected
<1>4. ASSUME NEW x \in recRows, Reflected(s, x)
      PROVE  Reflected(t, x)
  <2>1. CASE x.id = r.id
    BY <1>3, <2>1 DEF TableInv
  <2>2. CASE x.id # r.id
    BY <1>2, <1>4, <2>2 DEF Reflected
  <2> QED
    BY <2>1, <2>2
<1>5. ASSUME NEW z \in zoneRows, z.deleted, Gone(s, z)
      PROVE  Gone(t, z)
  BY <1>2, <1>5, ActiveNotDeleted DEF Gone
<1> QED
  BY <1>3, <1>4, <1>5 DEF Keeps, t

\* Dropping a deleted row shows the deletion and hides nothing.
LEMMA DropKeeps ==
    ASSUME TableInv, recRows \subseteq Row, NEW s \in Store, KeyedStore(s),
           NEW r \in recRows, r.deleted, NEW t \in DropRecord(s, r.zone, r.id)
    PROVE  Keeps(s, t) /\ Reflected(t, r)
<1>0. r.zone \in Apexes /\ r.id \in Ids
  BY DEF Row
<1>1. /\ t.zones = s.zones /\ Copies(t, r.zone, r.id) = {}
      /\ \A a, id : id # r.id => Copies(t, a, id) = Copies(s, a, id)
  BY <1>0, DropCopies
<1>2. Reflected(t, r)
  BY <1>1 DEF Reflected
<1>3. ASSUME NEW x \in recRows, Reflected(s, x)
      PROVE  Reflected(t, x)
  <2>1. CASE x.id = r.id
    BY <1>2, <2>1 DEF TableInv
  <2>2. CASE x.id # r.id
    BY <1>1, <1>3, <2>2 DEF Reflected
  <2> QED
    BY <2>1, <2>2
<1> QED
  BY <1>1, <1>2, <1>3 DEF Keeps, Gone

\* Publishing a zone that has no records, and deleting one that is not active,
\* hide nothing.
LEMMA ZoneOpKeeps ==
    ASSUME TableInv, NEW s \in Store, NEW a \in Apexes
    PROVE  /\ Active(a) /\ (\A r \in recRows : r.zone # a) => Keeps(s, Update(s, a, {}))
           /\ ~Active(a) => Keeps(s, Delete(s, a))
<1>1. ASSUME Active(a), \A r \in recRows : r.zone # a
      PROVE  Keeps(s, Update(s, a, {}))
  <2>1. \A r \in recRows : Reflected(s, r) => Reflected(Update(s, a, {}), r)
    BY <1>1, ZoneOpCopies DEF Reflected
  <2>2. \A z \in zoneRows : z.deleted /\ Gone(s, z) => Gone(Update(s, a, {}), z)
    BY <1>1, ActiveNotDeleted, ZoneOpContents DEF Gone
  <2> QED
    BY <2>1, <2>2 DEF Keeps
<1>2. ASSUME ~Active(a)
      PROVE  Keeps(s, Delete(s, a))
  <2>1. \A r \in recRows : Active(r.zone) /\ Reflected(s, r) => Reflected(Delete(s, a), r)
    BY <1>2, ZoneOpCopies DEF Reflected
  <2>2. \A z \in zoneRows : Gone(s, z) => Gone(Delete(s, a), z)
    BY ZoneOpContents DEF Gone
  <2> QED
    BY <2>1, <2>2 DEF Keeps
<1> QED
  BY <1>1, <1>2

\* A handler's store call agrees with the tables, so it hides nothing.
LEMMA NodesHandlerStore ==
    ASSUME TypeInv, CommittedInv, KeyInv, NoLossInv, NEW h \in Reqs, HandlerStore(h)
    PROVE  \A j \in Nodes : NodeInv(j)'
<1> DEFINE q == req[h]  i == req[h].node
<1>1. /\ i \in Nodes /\ q.zone \in Apexes /\ store[i] \in Store /\ store \in [Nodes -> Store]
      /\ UNCHANGED <<pgVars, phase, lastAt, sync>>
      /\ recRows \subseteq Row /\ TableInv /\ KeyedStore(store[i])
  BY HandlerStoreCases DEF TypeInv, TypeOK, CommittedInv, KeyInv
<1>2. PICK t : /\ store' = [store EXCEPT ![i] = t]
               /\ \/ q.pc = "Update" /\ t = Update(store[i], q.zone, {})
                  \/ q.pc = "Delete" /\ t = Delete(store[i], q.zone)
                  \/ /\ q.pc = "PutRecord" /\ HeldRecord(q) \in Entry
                     /\ t = PutRecord(store[i], HeldRecord(q))
                  \/ /\ q.pc = "DropRecord" /\ q.id \in Ids
                     /\ t \in DropRecord(store[i], q.zone, q.id)
  BY HandlerStoreCases
<1>3. HandlerOK(q)
  BY DEF NoLossInv, HandlerInv
<1>4. Keeps(store[i], t)
  <2>1. CASE q.pc = "Update" /\ t = Update(store[i], q.zone, {})
    BY <1>1, <1>3, <2>1, ZoneOpKeeps DEF HandlerOK
  <2>2. CASE q.pc = "Delete" /\ t = Delete(store[i], q.zone)
    BY <1>1, <1>3, <2>2, ZoneOpKeeps DEF HandlerOK
  <2>3. CASE q.pc = "PutRecord" /\ t = PutRecord(store[i], HeldRecord(q))
    <3>1. PICK r \in recRows : ~r.deleted /\ EntryOf(r) = EntryOf(q) /\ Active(q.zone)
      BY <1>3, <2>3 DEF HandlerOK
    <3>2. HeldRecord(q) = EntryOf(r) /\ r.zone = q.zone
      BY <3>1 DEF HeldRecord, EntryOf
    <3> QED
      BY <1>1, <2>3, <3>1, <3>2, PutKeeps
  <2>4. CASE q.pc = "DropRecord" /\ t \in DropRecord(store[i], q.zone, q.id)
    <3>1. PICK r \in recRows : r.deleted /\ r.id = q.id /\ r.zone = q.zone
      BY <1>3, <2>4 DEF HandlerOK
    <3> QED
      BY <1>1, <2>4, <3>1, DropKeeps
  <2> QED
    BY <1>2, <2>1, <2>2, <2>3, <2>4
<1>5. store'[i] = t /\ \A j \in Nodes : j # i => store'[j] = store[j]
  BY <1>1, <1>2
<1>6. NodeNext(i)
  <2>1. Caught(store[i], lastAt[i]) => Caught(t, lastAt[i])
    BY <1>4, KeptCaught
  <2>2. SyncOK(sync[i], t)
    BY <1>1, <1>4, KeptCaught DEF NoLossInv, NodeInv
  <2> QED
    BY <1>1, <1>5, <2>1, <2>2 DEF NoLossInv, NodeInv, NodeNext
<1> HIDE DEF i
<1> QED
  BY <1>1, <1>5, <1>6, NodesStore DEF NoLossInv

\* The steps of doSync.
LEMMA NodesSyncStep ==
    ASSUME TypeInv, CommittedInv, KeyInv, \A j \in Nodes : NodeInv(j),
           NEW i \in Nodes, SyncStep(i)
    PROVE  \A j \in Nodes : NodeInv(j)'
<1>0. /\ store \in [Nodes -> Store] /\ sync \in [Nodes -> SyncState]
      /\ lastAt \in [Nodes -> Nat] /\ store[i] \in Store /\ sync[i] \in SyncState
      /\ recRows \subseteq Row /\ clock \in Nat /\ lastAt[i] \in Nat /\ sync[i].start \in Nat
  BY DEF TypeInv, TypeOK, SyncState
<1>1. TableInv /\ KeyedStore(store[i]) /\ NodeInv(i)
  BY DEF CommittedInv, KeyInv
<1> DEFINE y == sync[i]  s == store[i]
           Others == /\ \A j \in Nodes : j # i => /\ store'[j] = store[j] /\ sync'[j] = sync[j]
                                                  /\ lastAt'[j] = lastAt[j]
                     /\ UNCHANGED <<pgVars, phase>>
<1>2. SUFFICES NodeNext(i) /\ Others
  BY NodesStore
<1>3. CASE StartSync(i)
  <2>1. /\ store'[i] = s /\ lastAt'[i] = lastAt[i] /\ phase'[i] = "up" /\ Others
        /\ sync'[i].pc = "queryZones" /\ sync'[i].start = clock
        /\ sync'[i].zset = y.zset /\ sync'[i].rset = y.rset
        /\ y.pc = "idle" /\ phase[i] = "up"
    BY <1>0, <1>3 DEF StartSync, SyncState
  <2>2. SyncOK(sync'[i], s)
    BY <1>1, <2>1 DEF NodeInv, SyncOK
  <2> QED
    BY <1>0, <1>1, <2>1, <2>2 DEF NodeInv, NodeNext
<1>4. CASE QueryZones(i)
  <2>1. /\ store'[i] = s /\ lastAt'[i] = lastAt[i] /\ phase'[i] = phase[i] /\ Others
        /\ sync'[i].pc = "zones" /\ sync'[i].start = y.start
        /\ sync'[i].zset = IncrementalZones(lastAt[i]) /\ sync'[i].rset = y.rset
        /\ y.pc = "queryZones"
    BY <1>0, <1>4 DEF QueryZones, SyncState
  <2>2. Caught(s, lastAt[i]) /\ phase[i] = "up"
    BY <1>1, <2>1 DEF NodeInv
  <2>3. y.rset = {}
    BY <1>1, <2>1 DEF NodeInv, SyncOK
  <2>4. \A z \in zoneRows : z.deleted => Gone(s, z) \/ z.name \in sync'[i].zset
    BY <2>1, <2>2 DEF Caught, IncrementalZones
  <2>5. \A a \in sync'[i].zset : \E z \in zoneRows : z.name = a /\ z.deleted
    BY <2>1 DEF IncrementalZones
  <2>6. SyncOK(sync'[i], s)
    BY <2>1, <2>3, <2>4, <2>5 DEF SyncOK
  <2> QED
    BY <1>1, <2>1, <2>6 DEF NodeInv, NodeNext
<1>5. CASE ApplyZone(i)
  <2>1. PICK a \in y.zset : /\ store' = [store EXCEPT ![i] = Delete(s, a)]
                            /\ sync' = [sync EXCEPT ![i].zset = @ \ {a}]
    BY <1>5 DEF ApplyZone
  <2>2. /\ store'[i] = Delete(s, a) /\ lastAt'[i] = lastAt[i] /\ phase'[i] = phase[i] /\ Others
        /\ sync'[i].pc = "zones" /\ sync'[i].start = y.start
        /\ sync'[i].zset = y.zset \ {a} /\ sync'[i].rset = y.rset
        /\ y.pc = "zones" /\ a \in Apexes
    BY <1>0, <1>5, <2>1 DEF ApplyZone, SyncState
  <2>3. ~Active(a)
    BY <1>1, <2>1, ActiveNotDeleted DEF NodeInv, SyncOK
  <2>4. Keeps(s, Delete(s, a))
    BY <1>0, <1>1, <2>2, <2>3, ZoneOpKeeps
  <2>5. SyncOK(y, Delete(s, a)) /\ (phase[i] = "up" => Caught(Delete(s, a), lastAt[i]))
    BY <1>1, <2>4, KeptCaught DEF NodeInv
  <2>6. \A z \in zoneRows : z.name = a => Gone(Delete(s, a), z)
    BY <1>0, <2>2, ZoneOpContents DEF Gone
  <2>7. SyncOK(sync'[i], Delete(s, a))
    BY <2>2, <2>5, <2>6 DEF SyncOK
  <2> QED
    BY <1>1, <2>2, <2>5, <2>7 DEF NodeInv, NodeNext
<1>6. CASE QueryRecords(i)
  <2>1. /\ store'[i] = s /\ lastAt'[i] = lastAt[i] /\ phase'[i] = phase[i] /\ Others
        /\ sync'[i].pc = "records" /\ sync'[i].start = y.start
        /\ sync'[i].zset = y.zset /\ sync'[i].rset = IncrementalRecords(lastAt[i])
        /\ y.pc = "zones" /\ y.zset = {}
    BY <1>0, <1>6 DEF QueryRecords, SyncState
  <2>2. Caught(s, lastAt[i]) /\ phase[i] = "up" /\ SyncOK(y, s)
    BY <1>1, <2>1 DEF NodeInv
  <2>3. \A r \in recRows : Active(r.zone) => Reflected(s, r) \/ r \in sync'[i].rset
    BY <2>1, <2>2 DEF Caught, IncrementalRecords
  <2>4. \A p \in sync'[i].rset : p \in recRows /\ Active(p.zone)
    BY <2>1 DEF IncrementalRecords
  <2>5. \A p \in sync'[i].rset : \A r \in recRows : p.id = r.id => p = r
    BY <1>1, <2>4 DEF TableInv
  <2>6. \A p \in sync'[i].rset : \A z \in zoneRows : ~(z.name = p.zone /\ z.deleted)
    BY <1>1, <2>4, ActiveNotDeleted
  <2>7. SyncOK(sync'[i], s)
    BY <2>1, <2>2, <2>3, <2>5, <2>6 DEF SyncOK
  <2> QED
    BY <1>1, <2>1, <2>7 DEF NodeInv, NodeNext
<1>7. CASE ApplyRecord(i)
  <2>1. PICK p \in y.rset :
          /\ \E t \in ApplyRow(s, p) : store' = [store EXCEPT ![i] = t]
          /\ sync' = [sync EXCEPT ![i].rset = @ \ {p}]
    BY <1>7 DEF ApplyRecord
  <2>2. PICK t \in ApplyRow(s, p) : store' = [store EXCEPT ![i] = t]
    BY <2>1
  <2>3. /\ store'[i] = t /\ lastAt'[i] = lastAt[i] /\ phase'[i] = phase[i] /\ Others
        /\ sync'[i].pc = "records" /\ sync'[i].start = y.start
        /\ sync'[i].zset = y.zset /\ sync'[i].rset = y.rset \ {p} /\ y.pc = "records"
    BY <1>0, <1>7, <2>1, <2>2 DEF ApplyRecord, SyncState
  <2>4. /\ SyncOK(y, s) /\ Caught(s, lastAt[i]) /\ lastAt[i] <= y.start
    BY <1>1, <2>3 DEF NodeInv
  <2>5. p \in Row /\ p.zone \in Apexes /\ p.id \in Ids /\ EntryOf(p) \in Entry
    BY <1>0, <2>1, EntryTypes DEF SyncState, Row
  <2>6. KeyedIn(recRows, EntryOf(p)) /\ EntryOf(p).zone = p.zone /\ EntryOf(p).id = p.id
    BY <2>1 DEF KeyInv, KeyedIn, EntryOf
  <2>7. /\ t.zones \subseteq s.zones \cup {p.zone}
        /\ Copies(t, p.zone, p.id) = IF p.deleted THEN {} ELSE {EntryOf(p)}
        /\ \A a, id : id # p.id => Copies(t, a, id) = Copies(s, a, id)
    <3>a. TableInv /\ s \in Store /\ KeyedStore(s)
      BY <1>0, <1>1
    <3>1. CASE p.deleted
      <4>1. t \in DropRecord(s, p.zone, p.id)
        BY <2>2, <3>1 DEF ApplyRow
      <4>2. /\ t.zones = s.zones /\ Copies(t, p.zone, p.id) = {}
            /\ \A a, id : id # p.id => Copies(t, a, id) = Copies(s, a, id)
        BY <2>5, <3>a, <4>1, DropCopies
      <4> QED
        BY <3>1, <4>2
    <3>2. CASE ~p.deleted
      <4> DEFINE rec == EntryOf(p)
      <4>1. t = PutRecord(s, rec) /\ rec \in Entry /\ KeyedIn(recRows, rec)
        BY <2>2, <2>5, <2>6, <3>2 DEF ApplyRow
      <4> HIDE DEF rec
      <4>2. /\ t.zones = s.zones \cup {rec.zone} /\ Copies(t, rec.zone, rec.id) = {rec}
            /\ \A a, id : id # rec.id => Copies(t, a, id) = Copies(s, a, id)
        BY <3>a, <4>1, PutCopies
      <4> QED
        BY <2>6, <3>2, <4>2 DEF rec
    <3> QED
      BY <3>1, <3>2
  <2>8. \A r \in recRows : r.upd \in Nat /\ (r.upd > y.start => r.upd > lastAt[i])
    BY <1>0, <2>4 DEF Row
  <2>9. \A z \in zoneRows : z.upd \in Nat /\ (z.upd > y.start => z.upd > lastAt[i])
    BY <1>0, <2>4 DEF TypeInv, TypeOK, ZoneRow
  <2>10. ASSUME NEW r \in recRows
         PROVE  \/ r.upd > y.start
                \/ r = p /\ Reflected(t, r)
                \/ r # p /\ (Reflected(s, r) => Reflected(t, r))
    <3>1. CASE r.id = p.id
      BY <2>1, <2>4, <2>7, <3>1 DEF SyncOK, Reflected
    <3>2. CASE r.id # p.id
      BY <2>7, <3>2 DEF Reflected
    <3> QED
      BY <3>1, <3>2
  <2>11. ASSUME NEW z \in zoneRows, z.deleted, Gone(s, z)
         PROVE  z.upd > y.start \/ Gone(t, z)
    <3>1. CASE z.name = p.zone
      BY <2>1, <2>4, <2>11, <3>1 DEF SyncOK
    <3>2. CASE z.name # p.zone
      BY <2>7, <2>11, <3>2 DEF Gone
    <3> QED
      BY <3>1, <3>2
  <2>12. Caught(t, lastAt[i])
    BY <2>4, <2>8, <2>9, <2>10, <2>11 DEF Caught
  <2>13. \A r \in recRows : Active(r.zone) =>
            Reflected(t, r) \/ r.upd > y.start \/ r \in sync'[i].rset
    BY <2>3, <2>4, <2>10 DEF SyncOK
  <2>14. \A z \in zoneRows : z.deleted =>
            Gone(t, z) \/ z.upd > y.start \/ z.name \in y.zset
    BY <2>3, <2>4, <2>11 DEF SyncOK
  <2>15. SyncOK(sync'[i], t)
    BY <2>3, <2>4, <2>13, <2>14 DEF SyncOK
  <2> QED
    BY <1>1, <2>3, <2>12, <2>15 DEF NodeInv, NodeNext
<1>8. CASE EndSync(i)
  <2>1. /\ store'[i] = s /\ lastAt'[i] = y.start /\ phase'[i] = phase[i] /\ Others
        /\ sync'[i] = NoSync /\ y.pc = "records" /\ y.rset = {}
    BY <1>0, <1>8 DEF EndSync
  <2>2. NoSync.pc = "idle" /\ NoSync.start = 0 /\ NoSync.zset = {} /\ NoSync.rset = {}
    BY DEF NoSync
  <2>3. Caught(s, y.start)
    BY <1>1, <2>1 DEF NodeInv, SyncOK, Caught
  <2>4. SyncOK(NoSync, s)
    BY <2>2 DEF SyncOK
  <2> QED
    BY <1>0, <1>1, <2>1, <2>2, <2>3, <2>4 DEF NodeInv, NodeNext
<1> QED
  BY <1>3, <1>4, <1>5, <1>6, <1>7, <1>8 DEF SyncStep

\* A failed sync, a crash and a restart.
LEMMA NodesFault ==
    ASSUME TypeInv, CommittedInv, \A j \in Nodes : NodeInv(j), NEW i \in Nodes,
           SyncError(i) \/ Crash(i) \/ Boot(i) \/ LoadAll(i)
    PROVE  \A j \in Nodes : NodeInv(j)'
<1>0. /\ store \in [Nodes -> Store] /\ sync \in [Nodes -> SyncState]
      /\ lastAt \in [Nodes -> Nat] /\ phase \in [Nodes -> {"up", "down", "boot"}]
      /\ recRows \subseteq Row /\ clock \in Nat /\ lastAt[i] \in Nat
  BY DEF TypeInv, TypeOK
<1>1. TableInv /\ NodeInv(i)
  BY DEF CommittedInv
<1> DEFINE Others == /\ \A j \in Nodes : j # i => /\ store'[j] = store[j] /\ sync'[j] = sync[j]
                                                  /\ lastAt'[j] = lastAt[j] /\ phase'[j] = phase[j]
                     /\ UNCHANGED pgVars
<1>2. SUFFICES NodeNext(i) /\ Others
  BY NodesStore
<1>3. NoSync.pc = "idle" /\ NoSync.start = 0 /\ NoSync.zset = {} /\ NoSync.rset = {}
  BY DEF NoSync
<1>4. \A x : SyncOK(NoSync, x)
  BY <1>3 DEF SyncOK
<1>5. CASE SyncError(i)
  <2>1. /\ store'[i] = store[i] /\ lastAt'[i] = lastAt[i] /\ phase'[i] = phase[i] /\ Others
        /\ sync'[i] = NoSync
    BY <1>0, <1>5 DEF SyncError
  <2> QED
    BY <1>0, <1>1, <1>3, <1>4, <2>1 DEF NodeInv, NodeNext
<1>6. CASE Crash(i)
  <2>1. lastAt'[i] = lastAt[i] /\ phase'[i] = "down" /\ sync'[i] = NoSync /\ Others
    BY <1>0, <1>6 DEF Crash
  <2> QED
    BY <1>0, <1>1, <1>3, <1>4, <2>1 DEF NodeInv, NodeNext
<1>7. CASE Boot(i)
  <2>1. /\ store'[i] = store[i] /\ sync'[i] = sync[i] /\ phase[i] = "down"
        /\ lastAt'[i] = clock /\ phase'[i] = "boot" /\ Others
    BY <1>0, <1>7 DEF Boot
  <2> QED
    BY <1>0, <1>1, <2>1 DEF NodeInv, NodeNext
<1>8. CASE LoadAll(i)
  <2> DEFINE t == store'[i]
  <2>1. /\ t.zones = {r.zone : r \in LoadAllRows} /\ t.recs = {EntryOf(r) : r \in LoadAllRows}
        /\ sync'[i] = sync[i] /\ lastAt'[i] = lastAt[i]
        /\ phase[i] = "boot" /\ phase'[i] = "up" /\ Others
    BY <1>0, <1>8 DEF LoadAll
  <2> HIDE DEF t
  <2>2. \A r \in LoadAllRows : EntryOf(r).zone = r.zone /\ EntryOf(r).id = r.id
    BY DEF EntryOf
  <2>3. ASSUME NEW r \in recRows, Active(r.zone)
        PROVE  Reflected(t, r)
    <3>1. \A x \in LoadAllRows : x.id = r.id => x = r
      BY <1>1 DEF LoadAllRows, TableInv
    <3>2. r \in LoadAllRows <=> ~r.deleted
      BY <2>3 DEF LoadAllRows
    <3>3. Copies(t, r.zone, r.id) = {e \in t.recs : e.zone = r.zone /\ e.id = r.id}
      BY DEF Copies
    <3> QED
      BY <2>1, <2>2, <3>1, <3>2, <3>3 DEF Reflected
  <2>4. ASSUME NEW z \in zoneRows, z.deleted
        PROVE  Gone(t, z)
    BY <1>1, <2>1, <2>4, ActiveNotDeleted DEF Gone, LoadAllRows
  <2>5. Caught(t, lastAt[i])
    BY <2>3, <2>4 DEF Caught
  <2>6. sync[i].pc = "idle" /\ SyncOK(sync[i], store[i])
    BY <1>1, <2>1 DEF NodeInv
  <2>7. SyncOK(sync[i], t)
    BY <2>6 DEF SyncOK
  <2> QED
    BY <1>1, <2>1, <2>5, <2>6, <2>7 DEF NodeInv, NodeNext, t
<1> QED
  BY <1>5, <1>6, <1>7, <1>8
-----------------------------------------------------------------------------
(***************************************************************************)
(* Steps of the requests.                                                  *)
(***************************************************************************)
\* The statement writes nothing of domain a.
Elsewhere(a) == \/ \E n : RowWrite(n) /\ n.zone # a
                \/ \E z : ZoneWrite(z) /\ z.name # a
                \/ UNCHANGED pgVars

\* Statements on other domains leave a handler's expectations alone.
LEMMA HandlerElsewhere ==
    ASSUME NEW q, Elsewhere(q.zone)
    PROVE  /\ Active(q.zone)' <=> Active(q.zone)
           /\ \A r \in recRows' : r.zone = q.zone => r \in recRows
           /\ \A r \in recRows : r.zone = q.zone => r \in recRows'
<1>1. ASSUME NEW n, RowWrite(n), n.zone # q.zone
      PROVE  /\ Active(q.zone)' <=> Active(q.zone)
             /\ \A r \in recRows' : r.zone = q.zone => r \in recRows
             /\ \A r \in recRows : r.zone = q.zone => r \in recRows'
  BY <1>1 DEF RowWrite, Active
<1>2. ASSUME NEW z, ZoneWrite(z), z.name # q.zone
      PROVE  /\ Active(q.zone)' <=> Active(q.zone)
             /\ recRows' = recRows
  BY <1>2 DEF ZoneWrite, Active
<1>3. CASE UNCHANGED pgVars
  BY <1>3 DEF pgVars, Active
<1> QED
  BY <1>1, <1>2, <1>3 DEF Elsewhere

\* A step in which only the handler in slot h, if any, works on the domain
\* that is written.
LEMMA HandlersStep ==
    ASSUME TypeInv, HandlerInv, NEW h \in Reqs,
           \A g \in Reqs : g # h => req'[g] = req[g],
           req'[h].pc # "idle" =>
              \A g \in Reqs : g # h /\ InFlight(g) => req[g].zone # req'[h].zone,
           \A g \in Reqs : g # h /\ InFlight(g) => Elsewhere(req[g].zone),
           HandlerOK(req[h])'
    PROVE  HandlerInv'
<1>1. ASSUME NEW g \in Reqs
      PROVE  HandlerOK(req[g])'
  <2>1. CASE g = h
    BY <2>1
  <2>2. CASE g # h /\ ~InFlight(g)
    BY <2>2 DEF HandlerOK, InFlight
  <2>3. CASE g # h /\ InFlight(g)
    <3>1. req'[g] = req[g] /\ HandlerOK(req[g])
      BY <2>3 DEF HandlerInv
    <3>2. /\ Active(req[g].zone)' <=> Active(req[g].zone)
          /\ \A r \in recRows' : r.zone = req[g].zone => r \in recRows
          /\ \A r \in recRows : r.zone = req[g].zone => r \in recRows'
      BY <2>3, <3>1, HandlerElsewhere
    <3>3. \A r \in recRows : EntryOf(r) = EntryOf(req[g]) => r.zone = req[g].zone
      BY DEF EntryOf
    <3> QED
      BY <3>1, <3>2, <3>3 DEF HandlerOK
  <2> QED
    BY <2>1, <2>2, <2>3
<1>2. ASSUME NEW f \in Reqs, NEW g \in Reqs, InFlight(f)', InFlight(g)',
             req'[f].zone = req'[g].zone
      PROVE  f = g
  BY <1>2 DEF HandlerInv, InFlight
<1> QED
  BY <1>1, <1>2 DEF HandlerInv

\* Steps of a handler at the database.
LEMMA NoLossStatement ==
    ASSUME TakingTurns, TypeInv, TypeInv', CommittedInv, NoLossInv, NEW h \in Reqs,
           \/ CreateZoneInsert(h) \/ CreateZoneFetch(h) \/ DeleteZone(h)
           \/ GetZone(h) \/ CreateRecordInsert(h) \/ CreateRecordFetch(h)
           \/ UpdateRecordRow(h) \/ DeleteRecordRow(h)
    PROVE  NoLossInv'
<1> DEFINE q == req[h]
           Writes == \/ \E n : RowWrite(n) /\ n.zone = q.zone
                     \/ \E z : ZoneStep(z) /\ z.name = q.zone
                     \/ UNCHANGED pgVars
           Slot == /\ \A g \in Reqs : g # h => req'[g] = req[g]
                   /\ req'[h].pc # "idle" => req'[h].zone = q.zone
                   /\ HandlerOK(req[h])'
<1>1. q \in Request /\ WellFormed(q) /\ q.pc # "idle" /\ q.zone \in Apexes
  BY ReqFields DEF CreateZoneInsert, CreateZoneFetch, DeleteZone, GetZone, AtPg,
       CreateRecordInsert, CreateRecordFetch, UpdateRecordRow, DeleteRecordRow
<1>2. store' = store /\ sync' = sync /\ lastAt' = lastAt /\ phase' = phase
  BY DEF CreateZoneInsert, CreateZoneFetch, DeleteZone, GetZone, AtPg,
       CreateRecordInsert, CreateRecordFetch, UpdateRecordRow, DeleteRecordRow
<1>3. PgTypeOK /\ TableInv /\ HandlerOK(q) /\ HandlerInv
  BY DEF TypeInv, TypeOK, PgTypeOK, CommittedInv, NoLossInv, HandlerInv
<1>4. SUFFICES Writes /\ Slot
  <2>1. \A i \in Nodes : NodeInv(i)'
    BY <1>2, <1>4, NodesTables DEF NoLossInv
  <2>2. \A g \in Reqs : g # h /\ InFlight(g) => req[g].zone # q.zone
    BY <1>1, <1>3 DEF HandlerInv, InFlight
  <2>3. \A g \in Reqs : g # h /\ InFlight(g) => Elsewhere(req[g].zone)
    BY <1>4, <2>2 DEF Elsewhere, ZoneStep
  <2>4. HandlerInv'
    BY <1>3, <1>4, <2>2, <2>3, HandlersStep
  <2> QED
    BY <2>1, <2>4 DEF NoLossInv
<1>5. Done(h) => Slot
  BY DoneSlot DEF HandlerOK
<1>6. zoneRows' = zoneRows => \A a : Active(a)' <=> Active(a)
  BY DEF Active
<1>7. UNCHANGED pgVars => zoneRows' = zoneRows /\ recRows' = recRows
  BY DEF pgVars
<1>8. ASSUME NEW id, NEW ver, Returned(h, id, ver), Active(q.zone), zoneRows' = zoneRows,
             NEW r \in recRows', r.id = id, r.ver = ver, ~r.deleted,
             r.zone = q.zone, r.key = q.key, r.val = q.val
      PROVE  Slot
  <2>1. /\ req'[h].pc = "PutRecord" /\ req'[h].zone = q.zone
        /\ \A g \in Reqs : g # h => req'[g] = req[g]
    BY <1>8, ReturnedSlot
  <2>2. EntryOf(r) = EntryOf(req'[h])
    BY <1>8, ReturnedBacked
  <2> QED
    BY <1>6, <1>8, <2>1, <2>2 DEF HandlerOK
<1>9. CASE CreateZoneInsert(h)
  <2>1. CASE InsertZone(q.zone) /\ Goto(h, "Update")
    <3>1. PICK u \in Stamps : /\ ZoneWrite([name |-> q.zone, deleted |-> FALSE, upd |-> u])
                              /\ ~HasZone(zoneRows, q.zone)
      BY <1>1, <1>3, <2>1, ZoneStatementWrites
    <3> DEFINE z == [name |-> q.zone, deleted |-> FALSE, upd |-> u]
    <3>2. z.name = q.zone /\ ~z.deleted /\ ZoneStep(z)
      BY <3>1 DEF ZoneStep
    <3> HIDE DEF z
    <3>3. (\A a : a = q.zone => Active(a)') /\ recRows' = recRows
      BY <3>2 DEF ZoneStep, ZoneWrite, Active
    <3>4. \A r \in recRows : r.zone # q.zone
      BY <1>3, <3>1 DEF TableInv
    <3>5. /\ req'[h].pc = "Update" /\ req'[h].zone = q.zone
          /\ \A g \in Reqs : g # h => req'[g] = req[g]
      BY <2>1, GotoSlot
    <3>6. HandlerOK(req[h])'
      BY <3>3, <3>4, <3>5 DEF HandlerOK
    <3> QED
      BY <3>2, <3>5, <3>6
  <2>2. CASE Goto(h, "fetchZone") /\ UNCHANGED pgVars
    <3>1. ~Active(q.zone)
      BY <1>3, <1>9 DEF HandlerOK, CreateZoneInsert, AtPg
    <3> QED
      BY <1>6, <1>7, <2>2, <3>1, GotoSlot DEF HandlerOK
  <2> QED
    BY <1>9, <2>1, <2>2 DEF CreateZoneInsert
<1>10. CASE CreateZoneFetch(h)
  <2>1. ~Active(q.zone) /\ UNCHANGED pgVars
    BY <1>3, <1>10 DEF HandlerOK, CreateZoneFetch, AtPg
  <2> QED
    BY <1>5, <1>10, <2>1 DEF CreateZoneFetch
<1>11. CASE DeleteZone(h)
  <2>1. CASE SoftDeleteZone(q.zone) /\ Goto(h, "Delete")
    <3>1. PICK u \in Stamps : ZoneWrite([name |-> q.zone, deleted |-> TRUE, upd |-> u])
      BY <1>1, <1>3, <2>1, ZoneStatementWrites
    <3> DEFINE z == [name |-> q.zone, deleted |-> TRUE, upd |-> u]
    <3>2. z.name = q.zone /\ z.deleted /\ ZoneStep(z)
      BY <3>1 DEF ZoneStep
    <3> HIDE DEF z
    <3>3. \A a : a = q.zone => ~Active(a)'
      BY <3>2 DEF ZoneStep, ZoneWrite, Active
    <3>4. /\ req'[h].pc = "Delete" /\ req'[h].zone = q.zone
          /\ \A g \in Reqs : g # h => req'[g] = req[g]
      BY <2>1, GotoSlot
    <3>5. HandlerOK(req[h])'
      BY <3>3, <3>4 DEF HandlerOK
    <3> QED
      BY <3>2, <3>4, <3>5
  <2> QED
    BY <1>5, <1>11, <2>1 DEF DeleteZone
<1>12. CASE GetZone(h)
  <2>1. CASE Active(q.zone) /\ Goto(h, AfterGetZone(q.op)) /\ UNCHANGED pgVars
    <3>1. AfterGetZone(q.op) \in {"insertRecord", "updateRecord", "softDeleteRecord"}
      BY <1>1, <1>12 DEF GetZone, AtPg, WellFormed, AfterGetZone
    <3>2. /\ req'[h].pc = AfterGetZone(q.op) /\ req'[h].zone = q.zone
          /\ \A g \in Reqs : g # h => req'[g] = req[g]
      BY <2>1, GotoSlot
    <3>3. HandlerOK(req[h])'
      BY <1>6, <1>7, <2>1, <3>1, <3>2 DEF HandlerOK
    <3> QED
      BY <2>1, <3>2, <3>3
  <2> QED
    BY <1>5, <1>12, <2>1 DEF GetZone
<1>13. CASE CreateRecordInsert(h)
  <2>0. Active(q.zone) /\ HasZone(zoneRows, q.zone) /\ q.key \in Keys /\ q.val \in Vals
    BY <1>1, <1>3, <1>13 DEF CreateRecordInsert, AtPg, HandlerOK, WellFormed, Active, HasZone
  <2>1. ASSUME NEW id \in Ids, InsertRecord(q.zone, id, q.key, q.val),
               Returned(h, id, clock + 1)
        PROVE  Writes /\ Slot
    <3>1. PICK u \in Stamps : RowWrite(RowVersion(q.zone, id, q.key, q.val, FALSE, u))
      BY <1>1, <1>3, <2>0, <2>1, InsertRecordWrites
    <3> DEFINE n == RowVersion(q.zone, id, q.key, q.val, FALSE, u)
    <3>2. /\ n.id = id /\ n.ver = clock + 1 /\ ~n.deleted
          /\ n.zone = q.zone /\ n.key = q.key /\ n.val = q.val
      BY DEF RowVersion
    <3> HIDE DEF n
    <3>3. RowWrite(n) /\ n \in recRows' /\ zoneRows' = zoneRows
      BY <3>1 DEF RowWrite, n
    <3> QED
      BY <1>8, <2>0, <2>1, <3>2, <3>3
  <2>2. CASE Goto(h, "fetchRecord") /\ UNCHANGED pgVars
    BY <1>6, <1>7, <2>0, <2>2, GotoSlot DEF HandlerOK
  <2>3. CASE Done(h) /\ UNCHANGED pgVars
    BY <1>5, <2>3
  <2> QED
    BY <1>13, <2>1, <2>2, <2>3 DEF CreateRecordInsert
<1>14. CASE CreateRecordFetch(h)
  <2>0. Active(q.zone) /\ UNCHANGED pgVars
    BY <1>3, <1>14 DEF CreateRecordFetch, AtPg, HandlerOK
  <2>1. ASSUME NEW r \in ActiveRows(q.zone, q.key, q.val), Returned(h, r.id, r.ver)
        PROVE  Slot
    <3>1. r \in recRows' /\ ~r.deleted /\ r.zone = q.zone /\ r.key = q.key /\ r.val = q.val
      BY <1>7, <2>0, <2>1 DEF ActiveRows
    <3> QED
      BY <1>7, <1>8, <2>0, <2>1, <3>1
  <2> QED
    BY <1>5, <1>14, <2>0, <2>1 DEF CreateRecordFetch
<1>15. CASE UpdateRecordRow(h)
  <2>0. Active(q.zone) /\ q.id \in Ids /\ q.key \in Keys /\ q.val \in Vals
    BY <1>1, <1>3, <1>15 DEF UpdateRecordRow, AtPg, HandlerOK, WellFormed
  <2>1. CASE UpdateRecord(q.zone, q.id, q.key, q.val) /\ Returned(h, q.id, clock + 1)
    <3>1. PICK u \in Stamps : RowWrite(RowVersion(q.zone, q.id, q.key, q.val, FALSE, u))
      BY <1>1, <1>3, <2>0, <2>1, UpdateRecordWrites
    <3> DEFINE n == RowVersion(q.zone, q.id, q.key, q.val, FALSE, u)
    <3>2. /\ n.id = q.id /\ n.ver = clock + 1 /\ ~n.deleted
          /\ n.zone = q.zone /\ n.key = q.key /\ n.val = q.val
      BY DEF RowVersion
    <3> HIDE DEF n
    <3>3. RowWrite(n) /\ n \in recRows' /\ zoneRows' = zoneRows
      BY <3>1 DEF RowWrite, n
    <3> QED
      BY <1>8, <2>0, <2>1, <3>2, <3>3
  <2>2. CASE Done(h) /\ UNCHANGED pgVars
    BY <1>5, <2>2
  <2> QED
    BY <1>15, <2>1, <2>2 DEF UpdateRecordRow
<1>16. CASE DeleteRecordRow(h)
  <2>0. Active(q.zone) /\ q.id \in Ids
    BY <1>1, <1>3, <1>16 DEF DeleteRecordRow, AtPg, HandlerOK, WellFormed
  <2>1. CASE SoftDeleteRecord(q.zone, q.id) /\ Goto(h, "DropRecord")
    <3>1. PICK u \in Stamps, r \in recRows :
            RowWrite(RowVersion(q.zone, q.id, r.key, r.val, TRUE, u))
      BY <1>1, <1>3, <2>0, <2>1, SoftDeleteRecordWrites
    <3> DEFINE n == RowVersion(q.zone, q.id, r.key, r.val, TRUE, u)
    <3>2. n.id = q.id /\ n.deleted /\ n.zone = q.zone
      BY DEF RowVersion
    <3> HIDE DEF n
    <3>3. RowWrite(n) /\ n \in recRows' /\ zoneRows' = zoneRows
      BY <3>1 DEF RowWrite, n
    <3>4. /\ req'[h].pc = "DropRecord" /\ req'[h].zone = q.zone /\ req'[h].id = q.id
          /\ \A g \in Reqs : g # h => req'[g] = req[g]
      BY <2>1, GotoSlot
    <3>5. HandlerOK(req[h])'
      BY <1>6, <2>0, <3>2, <3>3, <3>4 DEF HandlerOK
    <3> QED
      BY <3>2, <3>3, <3>4, <3>5
  <2>2. CASE Done(h) /\ UNCHANGED pgVars
    BY <1>5, <2>2
  <2> QED
    BY <1>16, <2>1, <2>2 DEF DeleteRecordRow
<1> QED
  BY <1>9, <1>10, <1>11, <1>12, <1>13, <1>14, <1>15, <1>16

\* Requests only end: the tables stay.
LEMMA HandlersEnd ==
    ASSUME HandlerInv, UNCHANGED pgVars,
           \A g \in Reqs : req'[g] = req[g] \/ req'[g] = NoReq
    PROVE  HandlerInv'
<1>1. recRows' = recRows /\ zoneRows' = zoneRows
  BY DEF pgVars
<1>2. NoReq.pc = "idle"
  BY DEF NoReq
<1>3. \A g \in Reqs : HandlerOK(req[g])'
  BY <1>1, <1>2 DEF HandlerInv, HandlerOK, Active
<1> QED
  BY <1>2, <1>3 DEF HandlerInv, InFlight

\* Every step keeps the invariant.
LEMMA NoLossStep ==
    ASSUME TakingTurns, TypeInv, TypeInv', CommittedInv, KeyInv, NoLossInv, [Next]_vars
    PROVE  NoLossInv'
<1>0. req \in [Reqs -> Request] /\ HandlerInv
  BY DEF TypeInv, TypeOK, NoLossInv
<1>1. ASSUME NEW h \in Reqs, Begins(h)
      PROVE  NoLossInv'
  <2>1. /\ UNCHANGED pgVars /\ store' = store /\ sync' = sync /\ lastAt' = lastAt
        /\ phase' = phase
        /\ \A g \in Reqs : g # h => req'[g] = req[g]
        /\ req'[h].pc \in {"insertZone", "softDeleteZone", "getZone"}
        /\ req'[h].pc = "insertZone" => ~Active(req'[h].zone)
        /\ \A g \in Reqs : InFlight(g) => req[g].zone # req'[h].zone
    BY <1>1, BeginSlot DEF TakingTurns, Turn
  <2>2. HandlerOK(req[h])'
    BY <2>1 DEF HandlerOK, Active, pgVars
  <2>3. HandlerInv'
    BY <1>0, <2>1, <2>2, HandlersStep DEF Elsewhere
  <2> QED
    BY <2>1, <2>3, NodesTables DEF NoLossInv
<1>2. ASSUME NEW h \in Reqs, Abort(h)
      PROVE  NoLossInv'
  <2>1. /\ UNCHANGED pgVars /\ store' = store /\ sync' = sync /\ lastAt' = lastAt
        /\ phase' = phase
        /\ \A g \in Reqs : req'[g] = req[g] \/ req'[g] = NoReq
    BY <1>2, DoneSlot DEF Abort
  <2> QED
    BY <1>0, <2>1, NodesTables, HandlersEnd DEF NoLossInv
<1>3. ASSUME NEW h \in Reqs, HandlerStore(h)
      PROVE  NoLossInv'
  <2>1. UNCHANGED pgVars /\ \A g \in Reqs : req'[g] = req[g] \/ req'[g] = NoReq
    BY <1>0, <1>3, HandlerStoreCases
  <2> QED
    BY <1>0, <1>3, <2>1, NodesHandlerStore, HandlersEnd DEF NoLossInv
<1>4. ASSUME NEW a \in Apexes, NEW id \in Ids, NEW k \in Keys, NEW v \in Vals,
             OpsInsertRecord(a, id, k, v)
      PROVE  NoLossInv'
  <2>1. /\ HasZone(zoneRows, a) /\ InsertRecord(a, id, k, v)
        /\ \A g \in Reqs : InFlight(g) => req[g].zone # a
        /\ store' = store /\ sync' = sync /\ req' = req /\ lastAt' = lastAt /\ phase' = phase
    BY <1>4 DEF OpsInsertRecord, HasZone, Turn, TakingTurns
  <2>2. PgTypeOK /\ TableInv
    BY DEF TypeInv, TypeOK, PgTypeOK, CommittedInv
  <2>3. PICK u \in Stamps : RowWrite(RowVersion(a, id, k, v, FALSE, u))
    BY <2>1, <2>2, InsertRecordWrites
  <2> DEFINE n == RowVersion(a, id, k, v, FALSE, u)
  <2>4. n.zone = a
    BY DEF RowVersion
  <2>5. RowWrite(n)
    BY <2>3
  <2> HIDE DEF n
  <2>6. \A i \in Nodes : NodeInv(i)'
    BY <2>1, <2>5, NodesTables DEF NoLossInv
  <2>7. ASSUME NEW g \in Reqs
        PROVE  HandlerOK(req[g])'
    <3>1. CASE ~InFlight(g)
      BY <2>1, <3>1 DEF HandlerOK, InFlight
    <3>2. CASE InFlight(g)
      <4>1. Elsewhere(req[g].zone) /\ HandlerOK(req[g])
        BY <1>0, <2>1, <2>4, <2>5, <3>2 DEF Elsewhere, HandlerInv
      <4>2. /\ Active(req[g].zone)' <=> Active(req[g].zone)
            /\ \A r \in recRows' : r.zone = req[g].zone => r \in recRows
            /\ \A r \in recRows : r.zone = req[g].zone => r \in recRows'
        BY <2>1, <4>1, HandlerElsewhere
      <4>3. \A r \in recRows : EntryOf(r) = EntryOf(req[g]) => r.zone = req[g].zone
        BY DEF EntryOf
      <4> QED
        BY <2>1, <4>1, <4>2, <4>3 DEF HandlerOK
    <3> QED
      BY <3>1, <3>2
  <2>8. HandlerInv'
    BY <1>0, <2>1, <2>7 DEF HandlerInv, InFlight
  <2> QED
    BY <2>6, <2>8 DEF NoLossInv
<1>5. ASSUME NEW i \in Nodes, SyncStep(i) \/ SyncError(i) \/ Crash(i) \/ Boot(i) \/ LoadAll(i)
      PROVE  NoLossInv'
  <2>1. UNCHANGED pgVars /\ \A g \in Reqs : req'[g] = req[g] \/ req'[g] = NoReq
    BY <1>0, <1>5 DEF SyncStep, StartSync, QueryZones, ApplyZone, QueryRecords, ApplyRecord,
         EndSync, SyncError, Crash, Boot, LoadAll
  <2>2. \A j \in Nodes : NodeInv(j)'
    BY <1>5, NodesSyncStep, NodesFault DEF NoLossInv
  <2> QED
    BY <1>0, <2>1, <2>2, HandlersEnd DEF NoLossInv
<1>6. CASE UNCHANGED vars
  <2>1. /\ UNCHANGED pgVars /\ store' = store /\ sync' = sync /\ lastAt' = lastAt
        /\ phase' = phase
        /\ \A g \in Reqs : req'[g] = req[g] \/ req'[g] = NoReq
    BY <1>6 DEF vars, pgVars
  <2> QED
    BY <1>0, <2>1, NodesTables, HandlersEnd DEF NoLossInv
<1> QED
  BY <1>1, <1>2, <1>3, <1>4, <1>5, <1>6, NoLossStatement DEF Next, HandlerStep

\* The invariant holds before the first request.
LEMMA NoLossInit == Init => NoLossInv
BY DEF Init, PgInit, NoLossInv, HandlerInv, InFlight, HandlerOK, NodeInv, Caught, SyncOK,
       NewStore, NoSync, NoReq

\* When the writers of a domain take turns, no PUT renames a record, nobody
\* posts an active domain and stamps are exact, every change that an instance
\* does not show yet is in the range of its next sync: whatever handlers, syncs,
\* lost connections, crashes and restarts fall between.
THEOREM NoLoss ==
    ASSUME TakingTurns
    PROVE  Spec => [](RecordChangeNotLost /\ ZoneDeletionNotLost)
<1>1. ~MayRename
  BY DEF TakingTurns
<1>2. Init => NoLossInv
  BY NoLossInit
<1>3. TypeInv /\ TypeInv' /\ CommittedInv /\ KeyInv /\ NoLossInv /\ [Next]_vars => NoLossInv'
  BY NoLossStep
<1>4. NoLossInv => RecordChangeNotLost /\ ZoneDeletionNotLost
  BY DEF NoLossInv, NodeInv, Caught, RecordChangeNotLost, ZoneDeletionNotLost
<1>5. Spec => [](TypeInv /\ CommittedInv /\ KeyInv)
  BY <1>1, KeyAlways
<1> QED
  BY <1>2, <1>3, <1>4, <1>5, PTL DEF Spec

\* In particular a deleted domain never stays in an instance's memory unnoticed:
\* while the instance still holds it, its deletion is in the range of the next
\* sync (IncrementalLoad's query for deleted zones, internal/pg/sync.go:14-17).
THEOREM ZoneDeletionKept ==
    ASSUME TakingTurns
    PROVE  Spec => []ZoneDeletionNotLost
<1>1. Spec => [](RecordChangeNotLost /\ ZoneDeletionNotLost)
  BY NoLoss
<1> QED
  BY <1>1, PTL
=============================================================================
