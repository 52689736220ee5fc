----------------------------- MODULE DnsRecords -----------------------------
(***************************************************************************)
(* The data every part of dns-edge shares (internal/iface/iface.go).       *)
(*                                                                         *)
(* A domain is known by its apex.  A record is known by its PostgreSQL row *)
(* id; it belongs to one apex, sits in the rrset of one key -- a           *)
(* RecordKey, the pair (owner name, type) -- and carries rdata.  TTL and   *)
(* static weight change nothing of what this development states, so they   *)
(* are left to the version number "ver": the commit number of the row      *)
(* version a record was read from.  ver is a history field, no code field. *)
(***************************************************************************)
EXTENDS Naturals

CONSTANTS Apexes,   \* domain apexes (names of rows of the zones table)
          Ids,      \* record row ids
          Keys,     \* RecordKeys: (owner name, qtype)
          Vals      \* rdata values

\* A record as the in-memory store holds it, under the zone it was put in.
Entry == [zone : Apexes, id : Ids, key : Keys, val : Vals, ver : Nat]

\* A row of the zones table.  UNIQUE(name) identifies a row with its name;
\* upd is updated_at, deleted is deleted_at IS NOT NULL.
ZoneRow == [name : Apexes, deleted : BOOLEAN, upd : Nat]

\* A row of the records table; ver is the number of the commit that wrote it.
Row == [zone : Apexes, id : Ids, key : Keys, val : Vals, ver : Nat,
        deleted : BOOLEAN, upd : Nat]

\* The iface.Record built from a row.
EntryOf(r) == [zone |-> r.zone, id |-> r.id, key |-> r.key, val |-> r.val,
               ver |-> r.ver]
=============================================================================
