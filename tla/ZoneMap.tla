------------------------------- MODULE ZoneMap -------------------------------
(***************************************************************************)
(* The zone store as internal/store/rwmutex.go builds it: a map from apex  *)
(* to a pointer to a Zone, whose Records map holds slices of records, all  *)
(* behind one sync.RWMutex.  Zone objects and slices live on a heap;       *)
(* goroutines that returned from FindZone, Lookup or Snapshot keep         *)
(* pointers into it and read them without any lock.                        *)
(*                                                                         *)
(* References are numbers, handed out in turn; 0 is nil.  A reading call   *)
(* runs under the read lock and changes nothing, so its body is one step,  *)
(* possible when no writer holds the lock; a writing call that builds a    *)
(* new Zone is two, and in between it holds the lock.                      *)
(***************************************************************************)
EXTENDS ZoneStore, DnsNames, FiniteSets, SequencesExt

CONSTANTS Procs,     \* goroutines that call the store
          MaxZones   \* bound on the Zone objects ever allocated

\* Row ids are finitely many.
ASSUME MapAssumption == MaxZones \in Nat /\ IsFiniteSet(Ids)

VARIABLES zones,      \* RWMutexStore.zones: apex -> Zone reference
          zoneHeap,   \* the Zone objects: their name and their Records map
          sliceHeap,  \* the record slices
          mu,         \* RWMutexStore.mu: the writers that hold it
          calls,      \* calls[p]: the call p has made, until it makes another
          pc,         \* pc[p]: "idle", "called", or "publish"
          fresh,      \* fresh[p]: the Zone object p is about to publish
          ret         \* ret[p]: the references the last call returned

heap    == <<zoneHeap, sliceHeap>>
mapVars == <<zones, zoneHeap, sliceHeap, mu, calls, pc, fresh, ret>>

Present == {a \in Apexes : zones[a] # 0}

\* The records of a Zone object, and its Records map (a nil Zone has none).
ZoneRecs(z) == UNION {Range(sliceHeap[s]) : s \in Range(zoneHeap[z].recs)}
RecordsOf(z) == IF z = 0 THEN [k \in {} |-> 0] ELSE zoneHeap[z].recs

\* The records of E grouped into slices, one per key of the sequence ks, and
\* the Records map that holds them when they follow n other slices.
Slices(E, ks)    == [i \in DOMAIN ks |-> SetToSeq({e \in E : e.key = ks[i]})]
RecordMap(ks, n) == [k \in Range(ks) |-> n + CHOOSE i \in DOMAIN ks : ks[i] = k]

\* LoadAll has put the records E into the store, before anyone else calls it:
\* one Zone for each apex that has records, one slice for each rrset.
MapInit(E) ==
    LET as == SetToSeq({e.zone : e \in E})
        ks == SetToSeq({<<e.zone, e.key>> : e \in E})
        place(s, v) == CHOOSE i \in DOMAIN s : s[i] = v
        keys(a) == {e.key : e \in {e \in E : e.zone = a}}
    IN /\ zoneHeap = [i \in DOMAIN as |->
                         [name |-> as[i],
                          recs |-> [k \in keys(as[i]) |-> place(ks, <<as[i], k>>)]]]
       /\ sliceHeap = [i \in DOMAIN ks |-> SetToSeq({e \in E : <<e.zone, e.key>> = ks[i]})]
       /\ zones = [a \in Apexes |-> IF a \in Range(as) THEN place(as, a) ELSE 0]
       /\ mu = {}
       /\ calls = [p \in Procs |-> [op |-> "none"]]
       /\ pc = [p \in Procs |-> "idle"]
       /\ fresh = [p \in Procs |-> 0]
       /\ ret = [p \in Procs |-> {}]
-----------------------------------------------------------------------------
\* p calls the store.  The bound leaves room for the calls under way.
Call(p, c) ==
    /\ pc[p] = "idle"
    /\ Len(zoneHeap) + Cardinality({q \in Procs : pc[q] # "idle"}) < MaxZones
    /\ calls' = [calls EXCEPT ![p] = c]
    /\ pc' = [pc EXCEPT ![p] = "called"]
    /\ ret' = [ret EXCEPT ![p] = {}]
    /\ UNCHANGED <<zones, heap, mu, fresh>>

\* Mutant: writers lock one another out only from reading.
AcquireShared(p) == mu' = mu \cup {p}

\* Lock, and the deferred Unlock.
Acquire(p) == mu = {} /\ mu' = {p}
Release(p) == mu' = mu \ {p}

\* The last statement of a writer: s.zones[apex] = z, or its deletion (z = 0).
SetZone(p, z) ==
    /\ zones' = [zones EXCEPT ![calls[p].zone] = z]
    /\ pc' = [pc EXCEPT ![p] = "idle"]

Called(p, op) == pc[p] = "called" /\ calls[p].op = op

\* Update publishes the Zone the caller has built.
UpdateZone(p) ==
    LET c == calls[p]
        ks == SetToSeq({e.key : e \in c.arg})
    IN /\ Called(p, "Update")
       /\ mu = {}
       /\ sliceHeap' = sliceHeap \o Slices(c.arg, ks)
       /\ zoneHeap' = Append(zoneHeap,
              [name |-> c.zone, recs |-> RecordMap(ks, Len(sliceHeap))])
       /\ SetZone(p, Len(zoneHeap'))
       /\ UNCHANGED <<mu, calls, fresh, ret>>

DeleteZone(p) ==
    /\ Called(p, "Delete")
    /\ mu = {}
    /\ SetZone(p, 0)
    /\ UNCHANGED <<heap, mu, calls, fresh, ret>>

\* PutRecord and DropRecord build a new Zone with the Records map recs, and
\* publish it as their last statement.
Build(p, recs) ==
    /\ zoneHeap' = Append(zoneHeap, [name |-> calls[p].zone, recs |-> recs])
    /\ fresh' = [fresh EXCEPT ![p] = Len(zoneHeap')]
    /\ pc' = [pc EXCEPT ![p] = "publish"]
    /\ UNCHANGED <<zones, calls, ret>>

\* The slice PutRecord makes: a copy with the record of the same id replaced,
\* the first one if there were two, or with the record appended.
PutSlice(existing, rec) ==
    LET hits == {i \in DOMAIN existing : existing[i].id = rec.id}
    IN IF hits = {} THEN Append(existing, rec)
       ELSE ReplaceAt(existing, CHOOSE i \in hits : \A j \in hits : i <= j, rec)

\* Mutant: an existing record is replaced in the slice that is published.
PutCopyInPlace(p) ==
    LET c == calls[p]
        k == c.arg.key
        recs == RecordsOf(zones[c.zone])
        s == IF k \in DOMAIN recs THEN recs[k] ELSE Len(sliceHeap) + 1
    IN /\ Called(p, "PutRecord")
       /\ Acquire(p)
       /\ sliceHeap' = IF k \in DOMAIN recs
              THEN [sliceHeap EXCEPT ![s] = PutSlice(@, c.arg)]
              ELSE Append(sliceHeap, <<c.arg>>)
       /\ Build(p, [x \in DOMAIN recs \cup {k} |-> IF x = k THEN s ELSE recs[x]])

\* PutRecord up to the new Zone: a new slice for the record's key in a copy of
\* the Records map, whose other keys share their slices with the old one.
PutCopy(p) ==
    LET c == calls[p]
        k == c.arg.key
        recs == RecordsOf(zones[c.zone])
        existing == IF k \in DOMAIN recs THEN sliceHeap[recs[k]] ELSE <<>>
        s == Len(sliceHeap) + 1
    IN /\ Called(p, "PutRecord")
       /\ Acquire(p)
       /\ sliceHeap' = Append(sliceHeap, PutSlice(existing, c.arg))
       /\ Build(p, [x \in DOMAIN recs \cup {k} |-> IF x = k THEN s ELSE recs[x]])

\* Where DropRecord can find the id: at its first place in the slice of a key.
Found(recs, id) ==
    UNION {{<<k, i>> : i \in {i \in DOMAIN sliceHeap[recs[k]] :
                /\ sliceHeap[recs[k]][i].id = id
                /\ \A j \in 1 .. i - 1 : sliceHeap[recs[k]][j].id # id}} :
           k \in DOMAIN recs}

\* Mutant: a key whose only record goes stays, with an empty slice.
DropCopyKeepsKey(p) ==
    LET c == calls[p]
        recs == RecordsOf(zones[c.zone])
    IN /\ Called(p, "DropRecord")
       /\ Acquire(p)
       /\ \E f \in Found(recs, c.arg) :
             /\ sliceHeap' = Append(sliceHeap, RemoveAt(sliceHeap[recs[f[1]]], f[2]))
             /\ Build(p, [recs EXCEPT ![f[1]] = Len(sliceHeap) + 1])

\* DropRecord up to the new Zone: the map is ranged over in any order; a key
\* whose only record goes is removed from the copied map.
DropCopy(p) ==
    LET c == calls[p]
        recs == RecordsOf(zones[c.zone])
    IN /\ Called(p, "DropRecord")
       /\ Acquire(p)
       /\ \E f \in Found(recs, c.arg) :
             LET existing == sliceHeap[recs[f[1]]]
             IN IF Len(existing) = 1
                THEN /\ Build(p, Restrict(recs, DOMAIN recs \ {f[1]}))
                     /\ UNCHANGED sliceHeap
                ELSE /\ sliceHeap' = Append(sliceHeap, RemoveAt(existing, f[2]))
                     /\ Build(p, [recs EXCEPT ![f[1]] = Len(sliceHeap) + 1])

\* DropRecord without the zone or the record.
DropNothing(p) ==
    /\ Called(p, "DropRecord")
    /\ mu = {}
    /\ Found(RecordsOf(zones[calls[p].zone]), calls[p].arg) = {}
    /\ pc' = [pc EXCEPT ![p] = "idle"]
    /\ UNCHANGED <<zones, heap, mu, calls, fresh, ret>>

Publish(p) ==
    /\ pc[p] = "publish"
    /\ SetZone(p, fresh[p])
    /\ Release(p)
    /\ UNCHANGED <<heap, calls, fresh, ret>>

\* A reading call returns the references R.
Return(p, R) ==
    /\ mu = {}
    /\ ret' = [ret EXCEPT ![p] = R]
    /\ pc' = [pc EXCEPT ![p] = "idle"]
    /\ UNCHANGED <<zones, heap, mu, calls, fresh>>

FindZone(p) ==
    /\ Called(p, "FindZone")
    /\ Return(p, {zones[a] : a \in lockedFindZone(Present, calls[p].arg)})

\* Lookup returns the slice of the key, if there is one.
Lookup(p) ==
    LET k == calls[p].arg
        found == {zones[a] : a \in lockedFindZone(Present, k.name)}
    IN /\ Called(p, "Lookup")
       /\ Return(p, {zoneHeap[z].recs[k] :
                         z \in {z \in found : k \in DOMAIN zoneHeap[z].recs}})

Snapshot(p) ==
    /\ Called(p, "Snapshot")
    /\ Return(p, {zones[a] : a \in Present})

InCall(p) == \/ UpdateZone(p) \/ DeleteZone(p)
             \/ PutCopy(p) \/ DropCopy(p) \/ DropNothing(p) \/ Publish(p)
             \/ FindZone(p) \/ Lookup(p) \/ Snapshot(p)
-----------------------------------------------------------------------------
\* The value of the store, the phases of the calls, and what the references
\* that the calls returned lead to now.
StoreValue == [zones |-> Present,
               recs  |-> UNION {ZoneRecs(zones[a]) : a \in Present}]
PhaseOf == [p \in Procs |->
               IF calls[p].op = "none" THEN "idle"
               ELSE IF pc[p] = "idle" THEN "done" ELSE "called"]
ResultOf == [p \in Procs |->
               IF calls[p].op = "Lookup"
               THEN UNION {Range(sliceHeap[s]) : s \in ret[p]}
               ELSE {[apex |-> zoneHeap[z].name, recs |-> ZoneRecs(z)] : z \in ret[p]}]

Promise == INSTANCE ZoneStoreSpec
               WITH store <- StoreValue, phase <- PhaseOf, result <- ResultOf

\* The heap implementation keeps the store's promise: every call of Update,
\* Delete, PutRecord, DropRecord, FindZone, Lookup and Snapshot takes effect
\* at one moment, concurrent writers lose no update of each other, and what a
\* reader was handed never changes although it reads it without the lock
\* (internal/store/rwmutex.go:14-16 and 43-45).
ImplementsZoneStore == Promise!Spec
=============================================================================
