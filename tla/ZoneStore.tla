------------------------------ MODULE ZoneStore ------------------------------
(***************************************************************************)
(* What the in-memory zone store promises (iface.ZoneStore, implemented by *)
(* internal/store/rwmutex.go).  Each operation runs under the store's      *)
(* write lock, so it is one atomic change of the store's value:            *)
(*   zones  the apexes present in the map,                                 *)
(*   recs   the records of all of them.                                    *)
(* The rrset of (zone, key) is the set of the entries with that zone and   *)
(* key: its slice order is left out, and since every record that reaches   *)
(* the store in PG mode has ID > 0 an id occurs once per rrset at most.    *)
(***************************************************************************)
EXTENDS DnsRecords

Store == [zones : SUBSET Apexes, recs : SUBSET Entry]

\* store.New: no zones.
NewStore == [zones |-> {}, recs |-> {}]

\* Update replaces the whole zone a by one that holds exactly the records E.
Update(s, a, E) ==
    [zones |-> s.zones \cup {a},
     recs  |-> {e \in s.recs : e.zone # a} \cup E]

\* Delete removes zone a.  An absent zone is an error every caller ignores.
Delete(s, a) ==
    [zones |-> s.zones \ {a},
     recs  |-> {e \in s.recs : e.zone # a}]

\* Mutant: PutRecord appends without looking for the id.
PutRecordAppends(s, rec) ==
    [zones |-> s.zones \cup {rec.zone}, recs |-> s.recs \cup {rec}]

\* PutRecord replaces the copy with the same id in the rrset of rec's own key,
\* or appends; a copy of that id under another key is not looked for.  It
\* creates the zone when it is absent.
PutRecord(s, rec) ==
    [zones |-> s.zones \cup {rec.zone},
     recs  |-> {e \in s.recs : \/ e.zone # rec.zone
                               \/ e.key # rec.key
                               \/ e.id # rec.id} \cup {rec}]

\* The copies of record id in zone a, under whatever key.
Copies(s, a, id) == {e \in s.recs : e.zone = a /\ e.id = id}

\* DropRecord ranges over the map of rrsets, in Go's unspecified order, and
\* removes the first copy it meets; without one it does nothing.  The set of
\* the stores it can leave behind.
DropRecord(s, a, id) ==
    IF Copies(s, a, id) = {}
    THEN {s}
    ELSE {[s EXCEPT !.recs = @ \ {e}] : e \in Copies(s, a, id)}
=============================================================================
