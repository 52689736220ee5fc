---------------------------- MODULE ZoneStoreSpec ----------------------------
(***************************************************************************)
(* What the callers of the zone store rely on: every call takes effect at  *)
(* one moment between its invocation and its return, as the operations of  *)
(* ZoneStore say, and what a reading call returned never changes           *)
(* afterwards ("safe to dereference after the call returns",               *)
(* iface.ZoneStore.FindZone).                                              *)
(***************************************************************************)
EXTENDS ZoneStore, DnsNames

CONSTANTS Procs    \* goroutines that call the store

VARIABLES store,   \* the store's value
          calls,   \* calls[p]: the call p has made, until it makes another
          phase,   \* phase[p]: "idle", "called" or "done"
          result   \* result[p]: what the call returned

\* A reading call returns zones, each with its apex and its records.
ZoneValue(s, a) == [apex |-> a, recs |-> {e \in s.recs : e.zone = a}]

RRset(s, a, k) == {e \in s.recs : e.zone = a /\ e.key = k}

\* The outcomes of call c on store s: the store left behind and the result.
Outcomes(c, s) ==
    CASE c.op = "Update"     -> {<<Update(s, c.zone, c.arg), {}>>}
      [] c.op = "Delete"     -> {<<Delete(s, c.zone), {}>>}
      [] c.op = "PutRecord"  -> {<<PutRecord(s, c.arg), {}>>}
      [] c.op = "DropRecord" -> {<<t, {}>> : t \in DropRecord(s, c.zone, c.arg)}
      [] c.op = "FindZone"   -> {<<s, {ZoneValue(s, a) :
                                       a \in Authoritative(s.zones, c.arg)}>>}
      [] c.op = "Lookup"     -> {<<s, UNION {RRset(s, a, c.arg) :
                                       a \in Authoritative(s.zones, c.arg.name)}>>}
      [] c.op = "Snapshot"   -> {<<s, {ZoneValue(s, a) : a \in s.zones}>>}

\* The calls start once LoadAll has filled the store.
Init == /\ store \in Store
        /\ phase = [p \in Procs |-> "idle"]
        /\ result = [p \in Procs |-> {}]

\* p makes a call, which forgets what the one before returned.
Call(p) ==
    /\ phase[p] # "called"
    /\ phase' = [phase EXCEPT ![p] = "called"]
    /\ result' = [result EXCEPT ![p] = {}]
    /\ \A q \in Procs \ {p} : calls'[q] = calls[q]
    /\ UNCHANGED store

\* The call takes effect, all at once.
Effect(p) ==
    /\ phase[p] = "called"
    /\ \E o \in Outcomes(calls[p], store) :
          /\ store' = o[1]
          /\ result' = [result EXCEPT ![p] = o[2]]
    /\ phase' = [phase EXCEPT ![p] = "done"]
    /\ UNCHANGED calls

Next == \E p \in Procs : Call(p) \/ Effect(p)

Spec == Init /\ [][Next]_<<store, calls, phase, result>>
=============================================================================
