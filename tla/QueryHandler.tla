---------------------------- MODULE QueryHandler ----------------------------
(***************************************************************************)
(* A DNS query (Handler.ServeDNS and handleQuery in                        *)
(* internal/dns/handler.go) against a zone store that API handlers and the *)
(* syncer change meanwhile.  A query makes up to four calls of the store,  *)
(* each under the read lock on its own: between two of them any writer may *)
(* run.  The calls are atomic and what they return is frozen, as ZoneMap   *)
(* shows.  Queries share nothing else, so one at a time is enough.         *)
(*                                                                         *)
(* A key is a record [name, type].  Type "A" stands for A and AAAA, "MX"   *)
(* for every type that is answered in full; the rdata of a CNAME is its    *)
(* target.  Transfers are in ZoneTransfer.                                 *)
(***************************************************************************)
EXTENDS ZoneStore, DnsNames, FiniteSets

CONSTANTS QNames,     \* names that are asked for
          Targets,    \* names that CNAMEs point to
          MayTrigger, \* a syncer is configured, with a positive probability
          MaxWrites   \* bound on the writes during one query

\* Names are sequences of labels, keys have a name and a type.
ASSUME QueryAssumption ==
    /\ MayTrigger \in BOOLEAN /\ MaxWrites \in Nat
    /\ \A n \in QNames \cup Targets : n \in Seq({n[i] : i \in DOMAIN n})
    /\ \A k \in Keys : k = [name |-> k.name, type |-> k.type]

VARIABLES store,    \* the zone store
          trigger,  \* a sync trigger is pending in the syncer's channel
          q,        \* the query in progress
          seen      \* history: the values of the store during the query

vars == <<store, trigger, q, seen>>

QTypes == {"A", "MX", "CNAME", "ANY"}
Key(n, t) == [name |-> n, type |-> t]

\* A reply: its rcode, the records of the answer section, and the apex whose
\* SOA is in the authority section.
Reply(rcode, answer, soa) == [rcode |-> rcode, answer |-> answer, soa |-> soa]
NoReply == Reply("none", {}, {})

\* cname is the CNAME that is followed, zone what FindZone returned.
NoQuery == [pc |-> "idle", name |-> <<>>, type |-> "A", cname |-> {}, zone |-> {},
            reply |-> NoReply]

\* The rdata that fits a key.
Rdata(k) == IF k.type = "CNAME" THEN Targets ELSE Vals \ Targets

\* Any store that LoadAll and the writers can have left: zones, some of them
\* empty, and records in them, each row in one place.
NewRec(a, id, k, v) == [zone |-> a, id |-> id, key |-> k, val |-> v, ver |-> 0]
Init == /\ \E Z \in SUBSET Apexes : \E S \in SUBSET Ids :
           \E f \in [S -> Z \X Keys \X Vals] :
              /\ \A id \in S : f[id][3] \in Rdata(f[id][2])
              /\ store = [zones |-> Z,
                          recs  |-> {NewRec(f[id][1], id, f[id][2], f[id][3]) : id \in S}]
        /\ trigger = FALSE
        /\ q = NoQuery
        /\ seen = {}
-----------------------------------------------------------------------------
(***************************************************************************)
(* The reading calls of the store.                                         *)
(***************************************************************************)
FindZone(s, n) == lockedFindZone(s.zones, n)

\* Mutant: Lookup also finds the rrset in a zone above the authoritative one.
LookupAnywhere(s, n, t) == {e \in s.recs : e.key = Key(n, t)}

Lookup(s, n, t) == {e \in s.recs : e.zone \in FindZone(s, n) /\ e.key = Key(n, t)}

NameExists(s, n) == \E e \in s.recs : e.zone \in FindZone(s, n) /\ e.key.name = n
-----------------------------------------------------------------------------
(***************************************************************************)
(* The query, one action per call of the store.                            *)
(***************************************************************************)
Goto(pc) == q' = [q EXCEPT !.pc = pc]
Answer(reply) == q' = [q EXCEPT !.pc = "done", !.reply = reply]
AtStore(pc) == q.pc = pc /\ UNCHANGED <<store, trigger, seen>>

\* addAnswers: one record of the rrset R for A and AAAA, the whole of it for
\* the other types.  pick draws any record: every weight is at least 1 there.
addAnswers(R, t) == IF t = "A" THEN {{e} : e \in R} ELSE {R}

\* A message without a question is answered FORMERR at once; any other may
\* trigger a sync first; ANY is answered with a fixed HINFO.
ServeDNS(n, t) ==
    /\ q.pc = "idle"
    /\ trigger' \in {trigger} \cup (IF MayTrigger THEN {TRUE} ELSE {})
    /\ q' = [NoQuery EXCEPT !.name = n, !.type = t,
                !.pc = IF t = "ANY" THEN "done" ELSE "lookup",
                !.reply = IF t = "ANY" THEN Reply("HINFO", {}, {}) ELSE @]
    /\ seen' = {store}
    /\ UNCHANGED store

ServeEmpty ==
    /\ q.pc = "idle"
    /\ q' = [NoQuery EXCEPT !.pc = "formerr", !.reply = Reply("FORMERR", {}, {})]
    /\ UNCHANGED <<store, trigger, seen>>

\* Mutant: only an existing CNAME is answered, none is followed.
LookupDirectOnly ==
    LET R == Lookup(store, q.name, q.type)
    IN /\ AtStore("lookup")
       /\ \/ /\ R # {}
             /\ \E A \in addAnswers(R, q.type) : Answer(Reply("NOERROR", A, {}))
          \/ R = {} /\ Goto("findZone")

\* The rrset asked for; without one a CNAME is looked for, unless it was a
\* CNAME that was asked for.
LookupDirect ==
    LET R == Lookup(store, q.name, q.type)
    IN /\ AtStore("lookup")
       /\ \/ /\ R # {}
             /\ \E A \in addAnswers(R, q.type) : Answer(Reply("NOERROR", A, {}))
          \/ R = {} /\ q.type # "CNAME" /\ Goto("cname")
          \/ R = {} /\ q.type = "CNAME" /\ Goto("findZone")

\* cnames[0]: the order of an rrset is left out, so any of them.
LookupCNAME ==
    LET C == Lookup(store, q.name, "CNAME")
    IN /\ AtStore("cname")
       /\ \/ \E c \in C : q' = [q EXCEPT !.pc = "target", !.cname = {c}]
          \/ C = {} /\ Goto("findZone")

\* The chase ends after one hop, with or without records at the target.
LookupTarget ==
    LET c == CHOOSE c \in q.cname : TRUE
        R == Lookup(store, c.val, q.type)
    IN /\ AtStore("target")
       /\ \/ /\ R # {}
             /\ \E A \in addAnswers(R, q.type) : Answer(Reply("NOERROR", {c} \cup A, {}))
          \/ R = {} /\ Answer(Reply("NOERROR", {c}, {}))

\* No zone covers the name: REFUSED.
QueryFindZone ==
    LET Z == FindZone(store, q.name)
    IN /\ AtStore("findZone")
       /\ \/ Z = {} /\ Answer(Reply("REFUSED", {}, {}))
          \/ Z # {} /\ q' = [q EXCEPT !.pc = "nameExists", !.zone = Z]

\* NODATA or NXDOMAIN, with the SOA of the zone found before.
QueryNameExists ==
    /\ AtStore("nameExists")
    /\ \/ NameExists(store, q.name) /\ Answer(Reply("NOERROR", {}, q.zone))
       \/ ~NameExists(store, q.name) /\ Answer(Reply("NXDOMAIN", {}, q.zone))

\* WriteMsg.
WriteMsg ==
    /\ q.pc \in {"done", "formerr"}
    /\ q' = NoQuery
    /\ seen' = {}
    /\ UNCHANGED <<store, trigger>>
-----------------------------------------------------------------------------
\* A writer's call.  Outside a query it only leads to another initial store;
\* records are not renamed, since EdgeSync is about that.
Publish(S) ==
    /\ q.pc \notin {"idle", "done", "formerr"}
    /\ Cardinality(seen) <= MaxWrites
    /\ \E s \in S : s # store /\ store' = s
    /\ seen' = seen \cup {store'}
    /\ UNCHANGED <<trigger, q>>

WriteStore ==
    \E a \in Apexes :
        \/ Publish({Update(store, a, {})})
        \/ Publish({Delete(store, a)})
        \/ \E id \in Ids, k \in Keys :
              /\ \A e \in store.recs : e.id = id => e.zone = a /\ e.key = k
              /\ Publish({PutRecord(store, NewRec(a, id, k, v)) : v \in Rdata(k)})
        \/ Publish(UNION {DropRecord(store, a, id) : id \in Ids})

\* The syncer's loop takes the pending trigger.
TakeTrigger == trigger /\ trigger' = FALSE /\ UNCHANGED <<store, q, seen>>

Next == \/ \E n \in QNames, t \in QTypes : ServeDNS(n, t)
        \/ ServeEmpty \/ LookupDirect \/ LookupCNAME \/ LookupTarget
        \/ QueryFindZone \/ QueryNameExists \/ WriteMsg
        \/ WriteStore \/ TakeTrigger

Spec == Init /\ [][Next]_vars
-----------------------------------------------------------------------------
(***************************************************************************)
(* What the answer should be, on one state s of the store: the records of  *)
(* the zone with the longest matching apex decide it.                      *)
(***************************************************************************)
At(s, n) == {e \in s.recs : e.zone \in Authoritative(s.zones, n) /\ e.key.name = n}
RRset(s, n, t) == {e \in At(s, n) : e.key.type = t}

\* The records that answer (n, t), if any: one of an A rrset, else all.
Choices(s, n, t) == IF t = "A" /\ RRset(s, n, t) # {}
                    THEN {{e} : e \in RRset(s, n, t)} ELSE {RRset(s, n, t)}

Resolve(s, n, t) ==
    LET C == RRset(s, n, "CNAME")
        Z == Authoritative(s.zones, n)
    IN CASE t = "ANY"              -> {Reply("HINFO", {}, {})}
         [] t # "ANY" /\ RRset(s, n, t) # {}
                                   -> {Reply("NOERROR", A, {}) : A \in Choices(s, n, t)}
         [] t \notin {"ANY", "CNAME"} /\ RRset(s, n, t) = {} /\ C # {}
                                   -> UNION {{Reply("NOERROR", {c} \cup A, {}) :
                                             A \in Choices(s, c.val, t)} : c \in C}
         [] OTHER                  -> {IF Z = {} THEN Reply("REFUSED", {}, {})
                                       ELSE IF At(s, n) # {} THEN Reply("NOERROR", {}, Z)
                                       ELSE Reply("NXDOMAIN", {}, Z)}

\* The answers that were right at some moment of the query.
Right == UNION {Resolve(s, q.name, q.type) : s \in seen}

\* Writers that do not change what the right answer is do not change the
\* answer: when every state of the store during the query agrees on it, the
\* query gives it, whatever else was written between its calls of Lookup,
\* FindZone and NameExists (handleQuery, internal/dns/handler.go:106-167).
StableAnswer ==
    q.pc = "done" =>
        \/ \E s, t \in seen : Resolve(s, q.name, q.type) # Resolve(t, q.name, q.type)
        \/ q.reply \in Right

\* Whatever is written during the query, each claim of the answer on its own
\* held at some moment of it: an answered record was served by the
\* authoritative zone, an answered rrset was complete, REFUSED means that no
\* zone covered the name, NXDOMAIN that it had no record, NODATA that it had
\* one, and both that the rrset asked for was empty and that the zone of the
\* SOA was the authoritative one (internal/dns/handler.go:120-186).
ClaimsHeld ==
    LET r == q.reply
        asked == {e \in r.answer : e.key.type = q.type}
    IN q.pc = "done" =>
        /\ \A e \in r.answer : \E s \in seen : e \in RRset(s, e.key.name, e.key.type)
        /\ (q.type = "MX" /\ asked # {}) =>
              \A e \in asked : \E s \in seen : asked = RRset(s, e.key.name, "MX")
        /\ r.rcode = "REFUSED" => \E s \in seen : Authoritative(s.zones, q.name) = {}
        /\ r.soa # {} =>
              /\ \E s \in seen : Authoritative(s.zones, q.name) = r.soa
              /\ \E s \in seen : RRset(s, q.name, q.type) = {}
              /\ \E s \in seen : (At(s, q.name) # {}) <=> (r.rcode = "NOERROR")
=============================================================================
