------------------------------ MODULE EdgeSync ------------------------------
(***************************************************************************)
(* A fleet of dns-edge instances over one PostgreSQL database: the write   *)
(* path of the HTTP API (internal/api), the start-up load (cmd/dns-edge)   *)
(* and the incremental syncer (internal/syncer), all of them changing the  *)
(* in-memory zone store of their own instance.                             *)
(*                                                                         *)
(* A handler and a sync are split at every statement they send and every   *)
(* call of the store they make, since other goroutines and other instances *)
(* run in between.                                                         *)
(*                                                                         *)
(* Four constants say what the environment may do, none of which the code  *)
(* prevents: MaxLag (PgStore), MayRename, MayRepost and Overlap.  A fifth, *)
(* Accepts, says whether PostgreSQL accepts queryCreateRecord.  It names a *)
(* constraint, where the schema (store.go:91, 001_init.sql:44) has only a  *)
(* unique index of that name, and is rejected: {FALSE}.  TRUE is for a     *)
(* database with a constraint of that name.                                *)
(***************************************************************************)
EXTENDS PgStore, ZoneStore

CONSTANTS Nodes,      \* dns-edge instances
          Reqs,       \* requests that can be in flight at once
          Nil,        \* no value
          MaxFaults,  \* bound on failures: lost connections, crashes
          MayRename,  \* a PUT may change a record's name or type
          MayRepost,  \* a POST may name a domain that is already active
          Overlap,    \* two writers may work on one domain at the same time
          Accepts     \* what PostgreSQL may say to queryCreateRecord

ASSUME FleetAssumption ==
    /\ MaxFaults \in Nat
    /\ {MayRename, MayRepost, Overlap} \cup Accepts \subseteq BOOLEAN
    /\ Nil \notin Apexes \cup Ids \cup Keys \cup Vals \cup Nodes

VARIABLES phase,    \* phase[i]: where instance i is between crash and service
          store,    \* store[i]: its in-memory ZoneStore
          lastAt,   \* lastAt[i]: PGSyncer.lastAt
          sync,     \* sync[i]: the doSync in progress, if any
          req,      \* req[h]: the API request in slot h, if any
          faults    \* failures left

vars == <<clock, zoneRows, recRows, phase, store, lastAt, sync, req, faults>>

\* pc names the next statement or store call; zset and rset are the rows the
\* running query has still to deliver; start is queryStart.
SyncState == [pc : {"idle", "queryZones", "zones", "records"}, start : Nat,
              zset : SUBSET Apexes, rset : SUBSET Row]

NoSync == [pc |-> "idle", start |-> 0, zset |-> {}, rset |-> {}]

Ops == {"none", "createDomain", "deleteDomain", "createRecord",
        "updateRecord", "deleteRecord"}

\* pcs at which a handler waits for PostgreSQL, and at which it goes on to
\* change the in-memory store.
PgPcs  == {"insertZone", "fetchZone", "softDeleteZone", "getZone",
           "insertRecord", "fetchRecord", "updateRecord", "softDeleteRecord"}
MemPcs == {"Update", "Delete", "PutRecord", "DropRecord"}

\* id, key, val and ver hold the request's arguments, and later the row that
\* the statement returned.
Request == [pc : PgPcs \cup MemPcs \cup {"idle"}, op : Ops,
            node : Nodes \cup {Nil}, zone : Apexes \cup {Nil},
            id : Ids \cup {Nil}, key : Keys \cup {Nil}, val : Vals \cup {Nil},
            ver : Nat]

NoReq == [pc |-> "idle", op |-> "none", node |-> Nil, zone |-> Nil, id |-> Nil,
          key |-> Nil, val |-> Nil, ver |-> 0]

InFlight(h) == req[h].pc # "idle"

\* Every instance is up over an empty database and has not synced yet.
Init == /\ PgInit
        /\ phase  = [i \in Nodes |-> "up"]
        /\ store  = [i \in Nodes |-> NewStore]
        /\ lastAt = [i \in Nodes |-> 0]
        /\ sync   = [i \in Nodes |-> NoSync]
        /\ req    = [h \in Reqs |-> NoReq]
        /\ faults = MaxFaults
-----------------------------------------------------------------------------
(***************************************************************************)
(* The environment's requests.                                             *)
(***************************************************************************)
\* Unless Overlap, the writers of one domain take turns across the fleet.
Turn(a) == Overlap \/ \A h \in Reqs : InFlight(h) => req[h].zone # a

\* A request reaches an instance whose API server is running.
Begin(h, r) ==
    /\ ~InFlight(h)
    /\ phase[r.node] = "up"
    /\ Turn(r.zone)
    /\ req' = [req EXCEPT ![h] = r]
    /\ UNCHANGED <<pgVars, phase, store, lastAt, sync, faults>>

BeginCreateDomain(h, i, a) ==
    /\ MayRepost \/ ~Active(a)
    /\ Begin(h, [NoReq EXCEPT !.pc = "insertZone", !.op = "createDomain",
                              !.node = i, !.zone = a])

BeginDeleteDomain(h, i, a) ==
    Begin(h, [NoReq EXCEPT !.pc = "softDeleteZone", !.op = "deleteDomain",
                           !.node = i, !.zone = a])

BeginCreateRecord(h, i, a, k, v) ==
    Begin(h, [NoReq EXCEPT !.pc = "getZone", !.op = "createRecord", !.node = i,
                           !.zone = a, !.key = k, !.val = v])

\* A client uses an id that it was given; the domain in its URL may be wrong.
BeginUpdateRecord(h, i, a, id, k, v) ==
    /\ \E r \in recRows : r.id = id /\ (MayRename \/ r.key = k)
    /\ Begin(h, [NoReq EXCEPT !.pc = "getZone", !.op = "updateRecord", !.node = i,
                              !.zone = a, !.id = id, !.key = k, !.val = v])

BeginDeleteRecord(h, i, a, id) ==
    /\ \E r \in recRows : r.id = id
    /\ Begin(h, [NoReq EXCEPT !.pc = "getZone", !.op = "deleteRecord", !.node = i,
                              !.zone = a, !.id = id])

\* An operator inserts a record with SQL of their own.
OpsInsertRecord(a, id, k, v) ==
    /\ Turn(a)
    /\ \E z \in zoneRows : z.name = a
    /\ InsertRecord(a, id, k, v)
    /\ UNCHANGED <<phase, store, lastAt, sync, req, faults>>

-----------------------------------------------------------------------------
(***************************************************************************)
(* The handlers, one action per statement.  Goto continues a handler at    *)
(* another step, Done sends the answer.                                    *)
(***************************************************************************)
Goto(h, pc) == req' = [req EXCEPT ![h].pc = pc]
Done(h)     == req' = [req EXCEPT ![h] = NoReq]

\* The handler goes on to PutRecord with the row a statement returned.
Returned(h, id, ver) ==
    req' = [req EXCEPT ![h].pc = "PutRecord", ![h].id = id, ![h].ver = ver]

\* A statement leaves everything but the tables and the handler alone.
AtPg(h, pc) == /\ req[h].pc = pc
               /\ UNCHANGED <<phase, store, lastAt, sync, faults>>

\* CreateZone, first statement: inserts, or finds the name taken.
CreateZoneInsert(h) ==
    /\ AtPg(h, "insertZone")
    /\ \/ InsertZone(req[h].zone) /\ Goto(h, "Update")
       \/ /\ \E z \in zoneRows : z.name = req[h].zone
          /\ Goto(h, "fetchZone")
          /\ UNCHANGED pgVars

\* CreateZone, second statement: fetches the existing active zone; a name that
\* only a deleted zone holds ends in 500.
CreateZoneFetch(h) ==
    /\ AtPg(h, "fetchZone")
    /\ \/ Active(req[h].zone) /\ Goto(h, "Update")
       \/ ~Active(req[h].zone) /\ Done(h)
    /\ UNCHANGED pgVars

\* SoftDeleteZone: 404 when no active zone has the name.
DeleteZone(h) ==
    /\ AtPg(h, "softDeleteZone")
    /\ \/ SoftDeleteZone(req[h].zone) /\ Goto(h, "Delete")
       \/ ~Active(req[h].zone) /\ Done(h) /\ UNCHANGED pgVars

\* The statement each record handler sends once it has the zone's id.
AfterGetZone(op) == CASE op = "createRecord" -> "insertRecord"
                      [] op = "updateRecord" -> "updateRecord"
                      [] op = "deleteRecord" -> "softDeleteRecord"

GetZone(h) ==
    /\ AtPg(h, "getZone")
    /\ \/ Active(req[h].zone) /\ Goto(h, AfterGetZone(req[h].op))
       \/ ~Active(req[h].zone) /\ Done(h)
    /\ UNCHANGED pgVars

\* Mutant: the id that RETURNING sends back is not scanned into the record.
CreateRecordInsertUnscanned(h) ==
    /\ AtPg(h, "insertRecord")
    /\ \E id \in Ids : /\ InsertRecord(req[h].zone, id, req[h].key, req[h].val)
                       /\ Returned(h, req[h].id, clock + 1)

\* CreateRecord, first statement: inserts, or finds an equal active record.
\* When PostgreSQL rejects it, with 42704, nothing is written and the request
\* ends in 500.
CreateRecordInsert(h) ==
    /\ AtPg(h, "insertRecord")
    /\ \/ /\ TRUE \in Accepts
          /\ \E id \in Ids : /\ InsertRecord(req[h].zone, id, req[h].key, req[h].val)
                             /\ Returned(h, id, clock + 1)
       \/ /\ TRUE \in Accepts
          /\ ActiveRows(req[h].zone, req[h].key, req[h].val) # {}
          /\ Goto(h, "fetchRecord")
          /\ UNCHANGED pgVars
       \/ FALSE \in Accepts /\ Done(h) /\ UNCHANGED pgVars

\* CreateRecord, second statement: the equal record, if it is still active.
CreateRecordFetch(h) ==
    LET found == ActiveRows(req[h].zone, req[h].key, req[h].val)
    IN  /\ AtPg(h, "fetchRecord")
        /\ \/ \E r \in found : Returned(h, r.id, r.ver)
           \/ found = {} /\ Done(h)
        /\ UNCHANGED pgVars

\* Mutant: ErrNotFound is not returned, and the request's record is published.
UpdateRecordRowUnchecked(h) ==
    LET a == req[h].zone  id == req[h].id  k == req[h].key  v == req[h].val
        ours == {r \in recRows : r.id = id /\ r.zone = a}
    IN  /\ AtPg(h, "updateRecord")
        /\ \/ UpdateRecord(a, id, k, v) /\ Returned(h, id, clock + 1)
           \/ ours = {} /\ Returned(h, id, clock + 1) /\ UNCHANGED pgVars
           \/ /\ ours # {} /\ \E r \in ActiveRows(a, k, v) : r.id # id
              /\ Done(h) /\ UNCHANGED pgVars

\* UpdateRecord: 404 when the zone has no such row, 409 when another active
\* record of the zone has the key and the value.
UpdateRecordRow(h) ==
    LET a == req[h].zone  id == req[h].id  k == req[h].key  v == req[h].val
        ours == {r \in recRows : r.id = id /\ r.zone = a}
    IN  /\ AtPg(h, "updateRecord")
        /\ \/ UpdateRecord(a, id, k, v) /\ Returned(h, id, clock + 1)
           \/ ours = {} /\ Done(h) /\ UNCHANGED pgVars
           \/ /\ ours # {} /\ \E r \in ActiveRows(a, k, v) : r.id # id
              /\ Done(h) /\ UNCHANGED pgVars

\* SoftDeleteRecord: 404 when the zone has no active record with the id.
DeleteRecordRow(h) ==
    LET a == req[h].zone  id == req[h].id
    IN  /\ AtPg(h, "softDeleteRecord")
        /\ \/ SoftDeleteRecord(a, id) /\ Goto(h, "DropRecord")
           \/ /\ \A r \in recRows : r.id = id /\ r.zone = a => r.deleted
              /\ Done(h) /\ UNCHANGED pgVars

\* The last step of a handler: the change of its instance's store, then the
\* answer.  createDomain publishes an empty zone whether or not it created one.
HandlerStore(h) ==
    LET s == store[req[h].node]  a == req[h].zone
        rec == [zone |-> a, id |-> req[h].id, key |-> req[h].key,
                val |-> req[h].val, ver |-> req[h].ver]
        after == CASE req[h].pc = "Update"     -> {Update(s, a, {})}
                   [] req[h].pc = "Delete"     -> {Delete(s, a)}
                   [] req[h].pc = "PutRecord"  -> {PutRecord(s, rec)}
                   [] req[h].pc = "DropRecord" -> DropRecord(s, a, req[h].id)
    IN  /\ req[h].pc \in MemPcs
        /\ \E t \in after : store' = [store EXCEPT ![req[h].node] = t]
        /\ Done(h)
        /\ UNCHANGED <<pgVars, phase, lastAt, sync, faults>>

Fault == faults > 0 /\ faults' = faults - 1

\* The connection to PostgreSQL fails or the client goes away: before the
\* statement took effect, or, at a MemPcs step, after it committed and before
\* the handler learnt so.  The handler answers 500 and leaves its store alone.
Abort(h) ==
    /\ InFlight(h)
    /\ Fault
    /\ Done(h)
    /\ UNCHANGED <<pgVars, phase, store, lastAt, sync>>

-----------------------------------------------------------------------------
(***************************************************************************)
(* The syncer's goroutine of instance i: doSync and IncrementalLoad.       *)
(* Whether the ticker or a query triggered it makes no difference here; a  *)
(* trigger that the token bucket refuses changes nothing.                  *)
(***************************************************************************)
\* since is lastAt, which nothing else changes until EndSync.
StartSync(i) ==
    /\ phase[i] = "up" /\ sync[i].pc = "idle"
    /\ sync' = [sync EXCEPT ![i].pc = "queryZones", ![i].start = clock]
    /\ UNCHANGED <<pgVars, phase, store, lastAt, req, faults>>

QueryZones(i) ==
    /\ sync[i].pc = "queryZones"
    /\ sync' = [sync EXCEPT ![i].pc = "zones",
                            ![i].zset = IncrementalZones(lastAt[i])]
    /\ UNCHANGED <<pgVars, phase, store, lastAt, req, faults>>

\* The next zone row: its zone is deleted.
ApplyZone(i) ==
    /\ sync[i].pc = "zones"
    /\ \E a \in sync[i].zset :
          /\ store' = [store EXCEPT ![i] = Delete(@, a)]
          /\ sync' = [sync EXCEPT ![i].zset = @ \ {a}]
    /\ UNCHANGED <<pgVars, phase, lastAt, req, faults>>

QueryRecords(i) ==
    /\ sync[i].pc = "zones" /\ sync[i].zset = {}
    /\ sync' = [sync EXCEPT ![i].pc = "records",
                            ![i].rset = IncrementalRecords(lastAt[i])]
    /\ UNCHANGED <<pgVars, phase, store, lastAt, req, faults>>

\* What a record row of the sync does to the store: the outcomes.
ApplyRow(s, r) == IF r.deleted THEN DropRecord(s, r.zone, r.id)
                               ELSE {PutRecord(s, EntryOf(r))}

\* The next record row, in no particular order.
ApplyRecord(i) ==
    /\ sync[i].pc = "records"
    /\ \E r \in sync[i].rset :
          /\ \E t \in ApplyRow(store[i], r) : store' = [store EXCEPT ![i] = t]
          /\ sync' = [sync EXCEPT ![i].rset = @ \ {r}]
    /\ UNCHANGED <<pgVars, phase, lastAt, req, faults>>

\* Mutant: lastAt is the time at which the sync ends.
EndSyncStampedLate(i) ==
    /\ sync[i].pc = "records" /\ sync[i].rset = {}
    /\ lastAt' = [lastAt EXCEPT ![i] = clock]
    /\ sync' = [sync EXCEPT ![i] = NoSync]
    /\ UNCHANGED <<pgVars, phase, store, req, faults>>

\* IncrementalLoad succeeded: the next sync asks from this one's queryStart.
EndSync(i) ==
    /\ sync[i].pc = "records" /\ sync[i].rset = {}
    /\ lastAt' = [lastAt EXCEPT ![i] = sync[i].start]
    /\ sync' = [sync EXCEPT ![i] = NoSync]
    /\ UNCHANGED <<pgVars, phase, store, req, faults>>

\* Mutant: lastAt moves on although the load failed.
SyncErrorForgotten(i) ==
    /\ sync[i].pc # "idle"
    /\ Fault
    /\ lastAt' = [lastAt EXCEPT ![i] = sync[i].start]
    /\ sync' = [sync EXCEPT ![i] = NoSync]
    /\ UNCHANGED <<pgVars, phase, store, req>>

\* A query or the delivery of its rows fails: what was applied stays applied,
\* lastAt stays, the next sync asks from there again.
SyncError(i) ==
    /\ sync[i].pc # "idle"
    /\ Fault
    /\ sync' = [sync EXCEPT ![i] = NoSync]
    /\ UNCHANGED <<pgVars, phase, store, lastAt, req>>

-----------------------------------------------------------------------------
(***************************************************************************)
(* The life of an instance (cmd/dns-edge/main.go).                         *)
(***************************************************************************)
\* The process ends: its memory, its sync and its requests are gone.
Crash(i) ==
    /\ phase[i] # "down"
    /\ Fault
    /\ phase' = [phase EXCEPT ![i] = "down"]
    /\ store' = [store EXCEPT ![i] = NewStore]
    /\ sync'  = [sync EXCEPT ![i] = NoSync]
    /\ req'   = [h \in Reqs |-> IF req[h].node = i THEN NoReq ELSE req[h]]
    /\ UNCHANGED <<pgVars, lastAt>>

\* main: syncSince is taken before LoadAll.
Boot(i) ==
    /\ phase[i] = "down"
    /\ phase'  = [phase EXCEPT ![i] = "boot"]
    /\ lastAt' = [lastAt EXCEPT ![i] = clock]
    /\ UNCHANGED <<pgVars, store, sync, req, faults>>

\* LoadAll: one query, then one Update per zone that has a row.  API server and
\* syncer start afterwards, so no other step touches this store.
LoadAll(i) ==
    /\ phase[i] = "boot"
    /\ store' = [store EXCEPT ![i] = [zones |-> {r.zone : r \in LoadAllRows},
                                      recs  |-> {EntryOf(r) : r \in LoadAllRows}]]
    /\ phase' = [phase EXCEPT ![i] = "up"]
    /\ UNCHANGED <<pgVars, lastAt, sync, req, faults>>
-----------------------------------------------------------------------------
Begins(h) ==
    \E i \in Nodes, a \in Apexes :
       \/ BeginCreateDomain(h, i, a)
       \/ BeginDeleteDomain(h, i, a)
       \/ \E k \in Keys, v \in Vals : BeginCreateRecord(h, i, a, k, v)
       \/ \E id \in Ids, k \in Keys, v \in Vals :
             BeginUpdateRecord(h, i, a, id, k, v)
       \/ \E id \in Ids : BeginDeleteRecord(h, i, a, id)

HandlerStep(h) ==
    \/ CreateZoneInsert(h)
    \/ CreateZoneFetch(h)
    \/ DeleteZone(h)
    \/ GetZone(h)
    \/ CreateRecordInsert(h)
    \/ CreateRecordFetch(h)
    \/ UpdateRecordRow(h)
    \/ DeleteRecordRow(h)
    \/ HandlerStore(h)

SyncStep(i) ==
    \/ StartSync(i)
    \/ QueryZones(i)
    \/ ApplyZone(i)
    \/ QueryRecords(i)
    \/ ApplyRecord(i)
    \/ EndSync(i)

Next ==
    \/ \E h \in Reqs : Begins(h) \/ HandlerStep(h) \/ Abort(h)
    \/ \E i \in Nodes : \/ SyncStep(i) \/ SyncError(i)
                        \/ Crash(i) \/ Boot(i) \/ LoadAll(i)
    \/ \E a \in Apexes, id \in Ids, k \in Keys, v \in Vals :
          OpsInsertRecord(a, id, k, v)

Spec == Init /\ [][Next]_vars

\* A handler's goroutine runs on until it answers, and the ticker lets doSync
\* run again and again; nothing else is promised.
Fairness == /\ \A h \in Reqs : WF_vars(HandlerStep(h))
            /\ \A i \in Nodes : WF_vars(SyncStep(i))

FairSpec == Spec /\ Fairness

-----------------------------------------------------------------------------
(***************************************************************************)
(* Properties.                                                             *)
(***************************************************************************)
\* Types: what each table, store, sync and request may contain.
TypeOK ==
    /\ clock \in Nat
    /\ zoneRows \subseteq ZoneRow
    /\ recRows \subseteq Row
    /\ phase \in [Nodes -> {"up", "down", "boot"}]
    /\ store \in [Nodes -> Store]
    /\ lastAt \in [Nodes -> Nat]
    /\ sync \in [Nodes -> SyncState]
    /\ req \in [Reqs -> Request]
    /\ faults \in Nat

\* The store shows exactly what row r says: no copy of a deleted record, and
\* one copy of an active one, under r's key and with r's content.
Reflected(s, r) ==
    Copies(s, r.zone, r.id) = IF r.deleted THEN {} ELSE {EntryOf(r)}

\* The store does not serve a deleted domain.
Gone(s, z) == z.name \notin s.zones

\* No change of a record is lost: an instance that serves shows the row as it
\* is now, or its next sync asks for a range that holds it (doSync's since and
\* queryIncrementalRecords).  An update, delete, failed sync, lost connection
\* or restart may fall between any two steps.
RecordChangeNotLost ==
    \A i \in Nodes, r \in recRows :
       phase[i] = "up" /\ Active(r.zone) =>
          Reflected(store[i], r) \/ r.upd > lastAt[i]

\* An instance serves an outdated version of a record only until its next sync:
\* whatever order the handlers' PutRecord and DropRecord calls ran in, a copy
\* that differs from its row is one the next sync asks for again, or one that a
\* handler still has to replace.
StaleCopyIsTemporary ==
    \A i \in Nodes, r \in recRows :
       phase[i] = "up" /\ Active(r.zone) =>
          \/ \A e \in Copies(store[i], r.zone, r.id) : ~r.deleted /\ e = EntryOf(r)
          \/ r.upd > lastAt[i]
          \/ \E h \in Reqs : req[h].node = i /\ req[h].id = r.id /\ req[h].pc \in MemPcs

\* No deletion of a domain is lost: an instance that serves has dropped the
\* domain, or its next sync asks for a range that holds the deletion; in
\* particular a PutRecord that comes late never brings the domain back for good.
ZoneDeletionNotLost ==
    \A i \in Nodes, z \in zoneRows :
       phase[i] = "up" /\ z.deleted =>
          Gone(store[i], z) \/ z.upd > lastAt[i]

\* What an instance serves was once committed: each entry belongs to a row of
\* the same domain, is no newer than it and equals it when it is as new; an
\* entry's zone is in the zone map, and only domains of the database are.
ServesCommittedRows ==
    \A i \in Nodes :
       /\ \A e \in store[i].recs :
             /\ e.zone \in store[i].zones
             /\ \E r \in recRows :
                   /\ r.id = e.id /\ r.zone = e.zone /\ e.ver <= r.ver
                   /\ e.ver = r.ver => ~r.deleted /\ EntryOf(r) = e
       /\ \A a \in store[i].zones : \E z \in zoneRows : z.name = a

\* A record is in the answers of at most one rrset, and once: after any
\* interleaving of PutRecord, DropRecord, Update, Delete and LoadAll no store
\* holds two copies of one id.
OneCopyPerRecord ==
    \A i \in Nodes : \A e, f \in store[i].recs : e.id = f.id => e = f

Converged ==
    \A i \in Nodes : phase[i] = "up" =>
       /\ \A r \in recRows : Active(r.zone) => Reflected(store[i], r)
       /\ \A z \in zoneRows : z.deleted => Gone(store[i], z)

\* Eventual consistency of the records: since the bounds let only finitely many
\* writes happen, every instance that stays up ends up serving each record as
\* its row says and no deleted domain, however the writes, syncs, failures and
\* restarts interleaved.  It says nothing of a domain without records.
EventuallyConsistent == <>[]Converged

\* Every instance that stays up ends up serving every active domain, a new one
\* without records as well, for whose names it then answers NXDOMAIN and not
\* REFUSED (internal/api/zone.go:51, internal/pg/load.go:30, README.md:11).
DomainsServed ==
    \A i \in Nodes : phase[i] = "up" =>
       \A z \in zoneRows : ~z.deleted => z.name \in store[i].zones
EveryDomainServed == <>[]DomainsServed
=============================================================================
