------------------------------- MODULE PgStore -------------------------------
(***************************************************************************)
(* The PostgreSQL side (internal/pg, migrations/001_init.sql): the tables  *)
(* zones and records, and every statement the program sends.  A statement  *)
(* commits on its own (no code opens a transaction), so a writing          *)
(* statement is one atomic step and a reading one sees the rows committed  *)
(* when it starts.                                                         *)
(*                                                                         *)
(* clock numbers the commits.  A row version carries the number of its     *)
(* commit (ver) and the updated_at the trigger gave it (upd).  updated_at  *)
(* is NOW(), the start of the statement's transaction on the server's      *)
(* clock; the statement may commit later (it waits for a row lock, a slow  *)
(* fsync) and the reader compares it with its own clock.  MaxLag bounds by *)
(* how many commits a stamp can trail the commit it belongs to: 0 is a     *)
(* database whose stamps order rows as their commits do.                   *)
(***************************************************************************)
EXTENDS DnsRecords

CONSTANTS MaxClock,   \* bound on the number of commits
          MaxLag      \* bound on how far a stamp trails its commit

ASSUME ClockAssumption == MaxClock \in Nat /\ MaxLag \in Nat

VARIABLES clock,      \* number of commits so far
          zoneRows,   \* table zones
          recRows     \* table records

pgVars == <<clock, zoneRows, recRows>>

PgInit == clock = 0 /\ zoneRows = {} /\ recRows = {}

-----------------------------------------------------------------------------
(***************************************************************************)
(* What a statement reads.                                                 *)
(***************************************************************************)
Active(a) == \E z \in zoneRows : z.name = a /\ ~z.deleted

\* The active record with these (zone_id, name, type, value), as a set: the
\* partial unique index records_unique_active_rrset allows at most one.
ActiveRows(a, k, v) ==
    {r \in recRows : r.zone = a /\ r.key = k /\ r.val = v /\ ~r.deleted}

\* queryIncrementalZones, restricted to the rows the caller acts on: a row
\* that is not deleted is scanned and left alone.
IncrementalZones(since) ==
    {z.name : z \in {x \in zoneRows : x.upd > since /\ x.deleted}}

\* Mutant: the record query does not look at the zone's deleted_at.
IncrementalRecordsOfAnyZone(since) == {r \in recRows : r.upd > since}

\* queryIncrementalRecords: changed rows, deleted ones included, of zones
\* that are not deleted.
IncrementalRecords(since) ==
    {r \in recRows : r.upd > since /\ Active(r.zone)}

\* queryLoadAll: the active rows of active zones.  It is an inner join, so a
\* zone without an active record does not occur in the result.
LoadAllRows == {r \in recRows : ~r.deleted /\ Active(r.zone)}
-----------------------------------------------------------------------------
(***************************************************************************)
(* What a statement writes.  Each is enabled when it affects a row; the    *)
(* caller's other branches cover "no row" and "conflict".                  *)
(***************************************************************************)
\* The values updated_at can get from a statement that commits next.
Stamps == {u \in 1 .. (clock + 1) : u + MaxLag >= clock + 1}

Commit == clock < MaxClock /\ clock' = clock + 1

\* INSERT INTO zones ... ON CONFLICT (name) DO NOTHING, inserting.  The name
\* stays taken after a soft delete.
InsertZone(a) ==
    /\ \A z \in zoneRows : z.name # a
    /\ Commit
    /\ \E u \in Stamps :
          zoneRows' = zoneRows \cup {[name |-> a, deleted |-> FALSE, upd |-> u]}
    /\ UNCHANGED recRows

\* UPDATE zones SET deleted_at=NOW(): the records of the zone keep their rows.
SoftDeleteZone(a) ==
    /\ Commit
    /\ \E z \in zoneRows, u \in Stamps :
          /\ z.name = a /\ ~z.deleted
          /\ zoneRows' = (zoneRows \ {z}) \cup
                            {[name |-> a, deleted |-> TRUE, upd |-> u]}
    /\ UNCHANGED recRows

\* The row version the next commit writes.
RowVersion(a, id, k, v, gone, u) ==
    [zone |-> a, id |-> id, key |-> k, val |-> v, ver |-> clock + 1,
     deleted |-> gone, upd |-> u]

\* An INSERT INTO records that PostgreSQL accepts: id comes from the sequence, so
\* it was never used.  The zone must exist, deleted or not.
InsertRecord(a, id, k, v) ==
    /\ ActiveRows(a, k, v) = {}
    /\ \A r \in recRows : r.id # id
    /\ Commit
    /\ \E u \in Stamps :
          recRows' = recRows \cup {RowVersion(a, id, k, v, FALSE, u)}
    /\ UNCHANGED zoneRows

\* queryUpdateRecord: sets the new key and value and clears deleted_at, so it
\* also revives a soft-deleted row.  The zone's deleted_at is not looked at.
UpdateRecord(a, id, k, v) ==
    /\ \A r \in ActiveRows(a, k, v) : r.id = id
    /\ Commit
    /\ \E r \in recRows, u \in Stamps :
          /\ r.id = id /\ r.zone = a
          /\ recRows' = (recRows \ {r}) \cup {RowVersion(a, id, k, v, FALSE, u)}
    /\ UNCHANGED zoneRows

\* querySoftDeleteRecord.
SoftDeleteRecord(a, id) ==
    /\ Commit
    /\ \E r \in recRows, u \in Stamps :
          /\ r.id = id /\ r.zone = a /\ ~r.deleted
          /\ recRows' = (recRows \ {r}) \cup
                           {RowVersion(a, id, r.key, r.val, TRUE, u)}
    /\ UNCHANGED zoneRows
=============================================================================
