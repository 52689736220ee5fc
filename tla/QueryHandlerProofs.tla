-------------------------- MODULE QueryHandlerProofs --------------------------
(***************************************************************************)
(* What a DNS answer is worth while the store changes under the query, for *)
(* every set of zones, names, keys and records and any number of writes.   *)
(***************************************************************************)
EXTENDS QueryHandler, DnsNamesProofs

\* The records of a store are under keys, and a CNAME points to a name.
RecordsOK(s) ==
    \A e \in s.recs : e.key \in Keys /\ (e.key.type = "CNAME" => e.val \in Targets)

StoreInv == /\ store = [zones |-> store.zones, recs |-> store.recs]
            /\ RecordsOK(store)
            /\ \A s \in seen : RecordsOK(s)

\* While a query runs, seen holds the present store.
Asking == q.pc \notin {"idle", "formerr"} =>
    /\ store \in seen
    /\ q.name \in QNames /\ q.type \in QTypes
    /\ q.pc # "done" => q.type # "ANY"
    /\ q.pc \in {"cname", "target"} => q.type # "CNAME"

\* What a query has learnt when it gets to each of its calls, each fact on its
\* own and of some moment since the query came.
Learnt ==
    /\ q.pc \in {"cname", "target", "findZone", "nameExists"} =>
          \E s \in seen : RRset(s, q.name, q.type) = {}
    /\ q.pc = "target" =>
          \E c : q.cname = {c} /\ \E s \in seen : c \in RRset(s, q.name, "CNAME")
    /\ q.pc \in {"findZone", "nameExists"} /\ q.type # "CNAME" =>
          \E s \in seen : RRset(s, q.name, "CNAME") = {}
    /\ q.pc = "nameExists" =>
          /\ q.zone # {}
          /\ \E s \in seen : Authoritative(s.zones, q.name) = q.zone

Places == {"idle", "formerr", "lookup", "cname", "target", "findZone", "nameExists", "done"}

QueryInv == /\ q.pc \in Places
            /\ q = [pc |-> q.pc, name |-> q.name, type |-> q.type, cname |-> q.cname,
                    zone |-> q.zone, reply |-> q.reply]
            /\ StoreInv /\ Asking /\ Learnt /\ ClaimsHeld /\ StableAnswer
-----------------------------------------------------------------------------
(***************************************************************************)
(* The store's calls return what Resolve is made of.                       *)
(***************************************************************************)
LEMMA FindZoneCorrect ==
    ASSUME NEW s, NEW n \in QNames \cup Targets
    PROVE  FindZone(s, n) = Authoritative(s.zones, n)
BY WalkFindsZone, QueryAssumption DEF FindZone

LEMMA LookupCorrect ==
    ASSUME NEW s, RecordsOK(s), NEW n \in QNames \cup Targets, NEW t
    PROVE  Lookup(s, n, t) = RRset(s, n, t)
<1>1. FindZone(s, n) = Authoritative(s.zones, n)
  BY FindZoneCorrect
<1>2. ASSUME NEW e \in s.recs
      PROVE  e.key = Key(n, t) <=> e.key.name = n /\ e.key.type = t
  <2>1. e.key = [name |-> e.key.name, type |-> e.key.type]
    BY QueryAssumption DEF RecordsOK
  <2> QED
    BY <2>1 DEF Key
<1>3. Lookup(s, n, t) = {e \in s.recs : e.zone \in Authoritative(s.zones, n)
                                        /\ e.key.name = n /\ e.key.type = t}
  BY <1>1, <1>2 DEF Lookup
<1> QED
  BY <1>3 DEF RRset, At

LEMMA NameExistsCorrect ==
    ASSUME NEW s, NEW n \in QNames \cup Targets
    PROVE  NameExists(s, n) <=> At(s, n) # {}
BY FindZoneCorrect DEF NameExists, At

\* What is answered is in the rrset, the whole of it unless A is asked for.
LEMMA AddAnswers ==
    ASSUME NEW s, NEW n, NEW t, RRset(s, n, t) # {}
    PROVE  /\ addAnswers(RRset(s, n, t), t) = Choices(s, n, t)
           /\ Choices(s, n, t) # {}
           /\ \A A \in Choices(s, n, t) : A # {} /\ A \subseteq RRset(s, n, t)
BY DEF addAnswers, Choices

LEMMA NoAnswers ==
    ASSUME NEW s, NEW n, NEW t, RRset(s, n, t) = {}
    PROVE  Choices(s, n, t) = {{}}
BY DEF Choices

LEMMA ChoicesTypes ==
    ASSUME NEW s, NEW n, NEW t
    PROVE  /\ Choices(s, n, t) # {}
           /\ \A A \in Choices(s, n, t) : \A e \in A : e.key.type = t
<1>1. CASE RRset(s, n, t) = {}
  BY <1>1, NoAnswers
<1>2. CASE RRset(s, n, t) # {}
  <2>1. \A e \in RRset(s, n, t) : e.key.type = t
    BY DEF RRset
  <2>2. /\ Choices(s, n, t) # {}
        /\ \A A \in Choices(s, n, t) : A \subseteq RRset(s, n, t)
    BY <1>2, AddAnswers
  <2> QED
    BY <2>1, <2>2
<1> QED
  BY <1>1, <1>2
-----------------------------------------------------------------------------
(***************************************************************************)
(* The three kinds of right answers, and that they exclude one another.    *)
(***************************************************************************)
Negative(s, n) ==
    LET Z == Authoritative(s.zones, n)
    IN IF Z = {} THEN Reply("REFUSED", {}, {})
       ELSE IF At(s, n) # {} THEN Reply("NOERROR", {}, Z) ELSE Reply("NXDOMAIN", {}, Z)

HasDirect(s, n, t) == t # "ANY" /\ RRset(s, n, t) # {}
HasAlias(s, n, t) == /\ t \notin {"ANY", "CNAME"} /\ RRset(s, n, t) = {}
                     /\ RRset(s, n, "CNAME") # {}
HasNothing(s, n, t) == /\ t # "ANY" /\ RRset(s, n, t) = {}
                       /\ (t = "CNAME" \/ RRset(s, n, "CNAME") = {})

LEMMA ThreeKinds ==
    ASSUME NEW s, NEW n, NEW t, t # "ANY"
    PROVE  HasDirect(s, n, t) \/ HasAlias(s, n, t) \/ HasNothing(s, n, t)
BY DEF HasDirect, HasAlias, HasNothing

LEMMA ResolveDirect ==
    ASSUME NEW s, NEW n, NEW t, HasDirect(s, n, t)
    PROVE  /\ Resolve(s, n, t) = {Reply("NOERROR", A, {}) : A \in Choices(s, n, t)}
           /\ Resolve(s, n, t) # {}
           /\ \A r \in Resolve(s, n, t) : r.answer # {} /\ \A e \in r.answer : e.key.type = t
<1>1. Resolve(s, n, t) = {Reply("NOERROR", A, {}) : A \in Choices(s, n, t)}
  BY DEF HasDirect, Resolve
<1>2. Choices(s, n, t) # {} /\ \A A \in Choices(s, n, t) : A # {}
  BY AddAnswers DEF HasDirect
<1>3. \A A \in Choices(s, n, t) : \A e \in A : e.key.type = t
  BY ChoicesTypes
<1>4. \A A : Reply("NOERROR", A, {}).answer = A
  BY DEF Reply
<1>5. ASSUME NEW r \in Resolve(s, n, t)
      PROVE  r.answer # {} /\ \A e \in r.answer : e.key.type = t
  <2>1. PICK A \in Choices(s, n, t) : r = Reply("NOERROR", A, {})
    BY <1>1
  <2>2. r.answer = A
    BY <1>4, <2>1
  <2> QED
    BY <1>2, <1>3, <2>1, <2>2
<1>6. Resolve(s, n, t) # {}
  BY <1>1, <1>2
<1> QED
  BY <1>1, <1>5, <1>6

LEMMA ResolveAlias ==
    ASSUME NEW s, NEW n, NEW t, HasAlias(s, n, t)
    PROVE  \A r : r \in Resolve(s, n, t) <=>
                    \E c \in RRset(s, n, "CNAME") : \E A \in Choices(s, c.val, t) :
                        r = Reply("NOERROR", {c} \cup A, {})
<1> DEFINE C == RRset(s, n, "CNAME")
           via(c) == {Reply("NOERROR", {c} \cup A, {}) : A \in Choices(s, c.val, t)}
<1>1. Resolve(s, n, t) = UNION {via(c) : c \in C}
  BY DEF HasAlias, Resolve
<1>2. ASSUME NEW r
      PROVE  \A c : r \in via(c) <=> \E A \in Choices(s, c.val, t) :
                                       r = Reply("NOERROR", {c} \cup A, {})
  OBVIOUS
<1> HIDE DEF via
<1>3. ASSUME NEW r
      PROVE  r \in Resolve(s, n, t) <=> \E c \in C : r \in via(c)
  BY <1>1
<1> QED
  BY <1>2, <1>3

LEMMA ResolveNothing ==
    ASSUME NEW s, NEW n, NEW t, HasNothing(s, n, t)
    PROVE  Resolve(s, n, t) = {Negative(s, n)} /\ Negative(s, n).answer = {}
<1>1. Resolve(s, n, t) = {Negative(s, n)}
  BY DEF HasNothing, Resolve, Negative
<1>2. Negative(s, n).answer = {}
  BY DEF Negative, Reply
<1> QED
  BY <1>1, <1>2

\* An answer by an alias holds a CNAME, and one record of that type only.
LEMMA AliasAnswer ==
    ASSUME NEW s, NEW n, NEW t, t # "CNAME", NEW c \in RRset(s, n, "CNAME"),
           NEW u, NEW m, NEW A \in Choices(u, m, t)
    PROVE  /\ c.key.type = "CNAME"
           /\ \A e \in {c} \cup A : e.key.type = "CNAME" <=> e = c
<1>1. c.key.type = "CNAME"
  BY DEF RRset
<1>2. \A e \in A : e.key.type = t
  BY ChoicesTypes
<1> QED
  BY <1>1, <1>2

\* States of the store that agree on the right answer agree on its kind.
LEMMA SameKind ==
    ASSUME NEW s, NEW u, NEW n, NEW t, Resolve(s, n, t) = Resolve(u, n, t), t # "ANY"
    PROVE  /\ HasDirect(s, n, t) => HasDirect(u, n, t)
           /\ HasAlias(s, n, t) => HasAlias(u, n, t)
           /\ HasNothing(s, n, t) => HasNothing(u, n, t)
<1>1. ASSUME NEW a, NEW b, Resolve(a, n, t) = Resolve(b, n, t),
             HasDirect(a, n, t), HasNothing(b, n, t)
      PROVE  FALSE
  BY <1>1, ResolveDirect, ResolveNothing
<1>2. ASSUME NEW a, NEW b, Resolve(a, n, t) = Resolve(b, n, t), HasAlias(a, n, t)
      PROVE  ~HasDirect(b, n, t) /\ ~HasNothing(b, n, t)
  <2>1. PICK c \in RRset(a, n, "CNAME") : TRUE
    BY <1>2 DEF HasAlias
  <2>2. PICK A \in Choices(a, c.val, t) : TRUE
    BY ChoicesTypes
  <2> DEFINE r == Reply("NOERROR", {c} \cup A, {})
  <2>3. r \in Resolve(b, n, t)
    BY <1>2, <2>1, <2>2, ResolveAlias
  <2>4. c \in r.answer
    BY DEF Reply
  <2>5. c.key.type = "CNAME" /\ t # "CNAME"
    BY <1>2, <2>1 DEF RRset, HasAlias
  <2> HIDE DEF r
  <2>6. ~HasDirect(b, n, t)
    BY <2>3, <2>4, <2>5, ResolveDirect
  <2>7. ~HasNothing(b, n, t)
    BY <2>3, <2>4, ResolveNothing
  <2> QED
    BY <2>6, <2>7
<1>3. HasDirect(u, n, t) \/ HasAlias(u, n, t) \/ HasNothing(u, n, t)
  BY ThreeKinds
<1>4. HasDirect(s, n, t) => HasDirect(u, n, t)
  BY <1>1, <1>2, <1>3
<1>5. HasAlias(s, n, t) => HasAlias(u, n, t)
  BY <1>2, <1>3
<1>6. HasNothing(s, n, t) => HasNothing(u, n, t)
  BY <1>1, <1>2, <1>3
<1> QED
  BY <1>4, <1>5, <1>6
-----------------------------------------------------------------------------
(***************************************************************************)
(* What is promised of a reply r to (n, t), given the values S that the    *)
(* store had during the query, and why each reply that is given keeps it.  *)
(***************************************************************************)
ClaimsFor(S, n, t, r) ==
    LET asked == {e \in r.answer : e.key.type = t}
    IN /\ \A e \in r.answer : \E s \in S : e \in RRset(s, e.key.name, e.key.type)
       /\ (t = "MX" /\ asked # {}) =>
             \A e \in asked : \E s \in S : asked = RRset(s, e.key.name, "MX")
       /\ r.rcode = "REFUSED" => \E s \in S : Authoritative(s.zones, n) = {}
       /\ r.soa # {} =>
             /\ \E s \in S : Authoritative(s.zones, n) = r.soa
             /\ \E s \in S : RRset(s, n, t) = {}
             /\ \E s \in S : (At(s, n) # {}) <=> (r.rcode = "NOERROR")

StableFor(S, n, t, r) ==
    \/ \E s, u \in S : Resolve(s, n, t) # Resolve(u, n, t)
    \/ \E s \in S : r \in Resolve(s, n, t)

Good(S, n, t, r) == ClaimsFor(S, n, t, r) /\ StableFor(S, n, t, r)

LEMMA ReplyFields ==
    ASSUME NEW c, NEW A, NEW z
    PROVE  /\ Reply(c, A, z).rcode = c
           /\ Reply(c, A, z).answer = A
           /\ Reply(c, A, z).soa = z
BY DEF Reply

\* The record claims of an answer made of an rrset, or of a CNAME and an rrset.
LEMMA RRsetMembers ==
    ASSUME NEW s, NEW n, NEW t
    PROVE  \A e \in RRset(s, n, t) : e.key.name = n /\ e.key.type = t
BY DEF RRset, At

LEMMA RecordsClaimed ==
    ASSUME NEW s, NEW n, NEW t, NEW A \in Choices(s, n, t)
    PROVE  /\ \A e \in A : e \in RRset(s, e.key.name, e.key.type)
           /\ \A e \in A : e.key.name = n /\ e.key.type = t
           /\ t # "A" => A = RRset(s, n, t)
<1>1. A \subseteq RRset(s, n, t)
  BY AddAnswers, NoAnswers
<1>2. t # "A" => A = RRset(s, n, t)
  BY DEF Choices
<1> QED
  BY <1>1, <1>2, RRsetMembers

LEMMA DirectGood ==
    ASSUME NEW S, NEW s \in S, NEW n, NEW t, t # "ANY", RRset(s, n, t) # {},
           NEW A \in Choices(s, n, t)
    PROVE  Good(S, n, t, Reply("NOERROR", A, {}))
<1> DEFINE r == Reply("NOERROR", A, {})
<1>1. r.rcode = "NOERROR" /\ r.answer = A /\ r.soa = {}
  BY ReplyFields
<1>2. StableFor(S, n, t, r)
  <2>1. r \in Resolve(s, n, t)
    BY ResolveDirect DEF HasDirect
  <2> QED
    BY <2>1 DEF StableFor
<1> HIDE DEF r
<1>3. /\ \A e \in A : e \in RRset(s, e.key.name, e.key.type)
      /\ \A e \in A : e.key.name = n /\ e.key.type = t
      /\ t # "A" => A = RRset(s, n, t)
  BY RecordsClaimed
<1>4. {e \in r.answer : e.key.type = t} = A
  BY <1>1, <1>3
<1>5. ClaimsFor(S, n, t, r)
  BY <1>1, <1>3, <1>4 DEF ClaimsFor
<1> QED
  BY <1>2, <1>5 DEF Good, r

LEMMA AliasGood ==
    ASSUME NEW S, NEW s0 \in S, NEW s1 \in S, NEW s2 \in S, NEW n, NEW t,
           t \notin {"ANY", "CNAME"}, RRset(s0, n, t) = {},
           NEW c \in RRset(s1, n, "CNAME"), NEW A \in Choices(s2, c.val, t)
    PROVE  Good(S, n, t, Reply("NOERROR", {c} \cup A, {}))
<1> DEFINE r == Reply("NOERROR", {c} \cup A, {})
<1>1. r.rcode = "NOERROR" /\ r.answer = {c} \cup A /\ r.soa = {}
  BY ReplyFields
<1>2. c.key.name = n /\ c.key.type = "CNAME"
  BY RRsetMembers
<1>3. /\ \A e \in A : e \in RRset(s2, e.key.name, e.key.type)
      /\ \A e \in A : e.key.name = c.val /\ e.key.type = t
      /\ t # "A" => A = RRset(s2, c.val, t)
  BY RecordsClaimed
<1>4. StableFor(S, n, t, r)
  <2> SUFFICES ASSUME \A s, u \in S : Resolve(s, n, t) = Resolve(u, n, t)
               PROVE  \E s \in S : r \in Resolve(s, n, t)
    BY DEF StableFor
  <2>1. HasAlias(s1, n, t) /\ HasAlias(s2, n, t)
    <3>1. ~HasDirect(s0, n, t) /\ ~HasNothing(s1, n, t)
      BY DEF HasDirect, HasNothing
    <3>2. Resolve(s0, n, t) = Resolve(s1, n, t) /\ Resolve(s1, n, t) = Resolve(s2, n, t)
      OBVIOUS
    <3>3. ~HasDirect(s1, n, t)
      BY <3>1, <3>2, SameKind
    <3>4. HasAlias(s1, n, t)
      BY <3>1, <3>3, ThreeKinds
    <3> QED
      BY <3>2, <3>4, SameKind
  <2>2. PICK A1 \in Choices(s1, c.val, t) : TRUE
    BY ChoicesTypes
  <2> DEFINE r1 == Reply("NOERROR", {c} \cup A1, {})
  <2>3. r1 \in Resolve(s1, n, t)
    BY <2>1, ResolveAlias
  <2>4. r1 \in Resolve(s2, n, t)
    BY <2>3
  <2>5. PICK c2 \in RRset(s2, n, "CNAME") : \E A2 \in Choices(s2, c2.val, t) :
             r1 = Reply("NOERROR", {c2} \cup A2, {})
    BY <2>1, <2>4, ResolveAlias
  <2>a. PICK A2 \in Choices(s2, c2.val, t) : r1 = Reply("NOERROR", {c2} \cup A2, {})
    BY <2>5
  <2>6. {c} \cup A1 = {c2} \cup A2
    BY <2>a, ReplyFields
  <2>7. c = c2
    BY <1>2, <2>6, AliasAnswer
  <2> HIDE DEF r1
  <2>8. r \in Resolve(s2, n, t)
    BY <2>1, <2>5, <2>7, ResolveAlias
  <2> QED
    BY <2>8
<1> HIDE DEF r
<1>5. \A e \in r.answer : \E s \in S : e \in RRset(s, e.key.name, e.key.type)
  <2>1. c \in RRset(s1, c.key.name, c.key.type)
    BY <1>2
  <2> QED
    BY <1>1, <1>3, <2>1
<1>6. {e \in r.answer : e.key.type = t} = A
  BY <1>1, <1>2, <1>3
<1>7. t = "MX" => \A e \in A : A = RRset(s2, e.key.name, "MX")
  BY <1>3
<1>8. ClaimsFor(S, n, t, r)
  BY <1>1, <1>5, <1>6, <1>7 DEF ClaimsFor
<1> QED
  BY <1>4, <1>8 DEF Good, r

\* Facts of four moments make a negative answer that is right if all agree.
LEMMA NegativeGood ==
    ASSUME NEW S, NEW s0 \in S, NEW s1 \in S, NEW s2 \in S, NEW s3 \in S, NEW n, NEW t,
           t # "ANY", RRset(s0, n, t) = {}, t # "CNAME" => RRset(s1, n, "CNAME") = {},
           NEW r,
           \/ r = Reply("REFUSED", {}, {}) /\ Authoritative(s3.zones, n) = {}
           \/ /\ Authoritative(s2.zones, n) # {}
              /\ r = Reply(IF At(s3, n) # {} THEN "NOERROR" ELSE "NXDOMAIN", {},
                           Authoritative(s2.zones, n))
    PROVE  Good(S, n, t, r)
<1>1. r.answer = {}
  BY ReplyFields
<1>2. /\ r.rcode = "REFUSED" => Authoritative(s3.zones, n) = {}
      /\ r.soa # {} => /\ Authoritative(s2.zones, n) = r.soa
                       /\ (At(s3, n) # {}) <=> (r.rcode = "NOERROR")
  <2>1. CASE r = Reply("REFUSED", {}, {}) /\ Authoritative(s3.zones, n) = {}
    BY <2>1, ReplyFields
  <2>2. CASE /\ Authoritative(s2.zones, n) # {}
             /\ r = Reply(IF At(s3, n) # {} THEN "NOERROR" ELSE "NXDOMAIN", {},
                          Authoritative(s2.zones, n))
    <3>1. /\ r.rcode = IF At(s3, n) # {} THEN "NOERROR" ELSE "NXDOMAIN"
          /\ r.soa = Authoritative(s2.zones, n)
      BY <2>2, ReplyFields
    <3> QED
      BY <3>1
  <2> QED
    BY <2>1, <2>2
<1>3. ClaimsFor(S, n, t, r)
  BY <1>1, <1>2 DEF ClaimsFor
<1>4. StableFor(S, n, t, r)
  <2> SUFFICES ASSUME \A s, u \in S : Resolve(s, n, t) = Resolve(u, n, t)
               PROVE  \E s \in S : r \in Resolve(s, n, t)
    BY DEF StableFor
  <2>1. ~HasDirect(s0, n, t) /\ ~HasAlias(s1, n, t)
    BY DEF HasDirect, HasAlias
  <2>2. HasNothing(s0, n, t)
    <3>1. Resolve(s0, n, t) = Resolve(s1, n, t)
      OBVIOUS
    <3>2. ~HasAlias(s0, n, t)
      BY <2>1, <3>1, SameKind
    <3> QED
      BY <2>1, <3>2, ThreeKinds
  <2>3. ASSUME NEW s \in S PROVE Resolve(s, n, t) = {Negative(s, n)}
    <3>1. Resolve(s0, n, t) = Resolve(s, n, t)
      OBVIOUS
    <3>2. HasNothing(s, n, t)
      BY <2>2, <3>1, SameKind
    <3> QED
      BY <3>2, ResolveNothing
  <2>4. Resolve(s2, n, t) = Resolve(s3, n, t)
    OBVIOUS
  <2>5. Negative(s2, n) = Negative(s3, n)
    BY <2>3, <2>4
  <2>6. r = Negative(s3, n)
    <3>1. CASE r = Reply("REFUSED", {}, {}) /\ Authoritative(s3.zones, n) = {}
      BY <3>1 DEF Negative
    <3>2. CASE /\ Authoritative(s2.zones, n) # {}
               /\ r = Reply(IF At(s3, n) # {} THEN "NOERROR" ELSE "NXDOMAIN", {},
                            Authoritative(s2.zones, n))
      <4>1. Negative(s2, n).soa = Authoritative(s2.zones, n)
        BY <3>2, ReplyFields DEF Negative
      <4>2. Negative(s3, n).soa = Authoritative(s3.zones, n)
        BY DEF Negative, Reply
      <4>3. Authoritative(s3.zones, n) = Authoritative(s2.zones, n)
        BY <2>5, <4>1, <4>2
      <4> QED
        BY <3>2, <4>3 DEF Negative
    <3> QED
      BY <3>1, <3>2
  <2> QED
    BY <2>3, <2>6
<1> QED
  BY <1>3, <1>4 DEF Good
-----------------------------------------------------------------------------
(***************************************************************************)
(* The invariant: what each call has learnt is kept by the writers, since  *)
(* it is about a moment that is past, and is enough for the reply.         *)
(***************************************************************************)
GoodDone == q.pc = "done" => Good(seen, q.name, q.type, q.reply)

LEMMA GoodReply == GoodDone <=> ClaimsHeld /\ StableAnswer
<1>1. ClaimsHeld <=> (q.pc = "done" => ClaimsFor(seen, q.name, q.type, q.reply))
  BY DEF ClaimsHeld, ClaimsFor
<1>2. q.reply \in Right <=> \E s \in seen : q.reply \in Resolve(s, q.name, q.type)
  BY DEF Right
<1>3. StableAnswer <=> (q.pc = "done" => StableFor(seen, q.name, q.type, q.reply))
  BY <1>2 DEF StableAnswer, StableFor
<1> QED
  BY <1>1, <1>3 DEF Good, GoodDone

LEMMA GoodReplyNext == GoodDone' => ClaimsHeld' /\ StableAnswer'
BY GoodReply, PTL

LEMMA QueryInit == Init => QueryInv
<1> SUFFICES ASSUME Init PROVE QueryInv
  OBVIOUS
<1>1. q = NoQuery /\ seen = {} /\ q.pc = "idle"
  BY DEF Init, NoQuery
<1>2. store = [zones |-> store.zones, recs |-> store.recs] /\ RecordsOK(store)
  <2>1. PICK Z \in SUBSET Apexes : \E S \in SUBSET Ids :
           \E f \in [S -> Z \X Keys \X Vals] :
              /\ \A id \in S : f[id][3] \in Rdata(f[id][2])
              /\ store = [zones |-> Z,
                          recs  |-> {NewRec(f[id][1], id, f[id][2], f[id][3]) : id \in S}]
    BY DEF Init
  <2>2. PICK S \in SUBSET Ids : \E f \in [S -> Z \X Keys \X Vals] :
              /\ \A id \in S : f[id][3] \in Rdata(f[id][2])
              /\ store = [zones |-> Z,
                          recs  |-> {NewRec(f[id][1], id, f[id][2], f[id][3]) : id \in S}]
    BY <2>1
  <2>3. PICK f \in [S -> Z \X Keys \X Vals] :
              /\ \A id \in S : f[id][3] \in Rdata(f[id][2])
              /\ store = [zones |-> Z,
                          recs  |-> {NewRec(f[id][1], id, f[id][2], f[id][3]) : id \in S}]
    BY <2>2
  <2>4. /\ store = [zones |-> store.zones, recs |-> store.recs]
        /\ store.recs = {NewRec(f[id][1], id, f[id][2], f[id][3]) : id \in S}
    BY <2>3
  <2>5. ASSUME NEW e \in store.recs
        PROVE  e.key \in Keys /\ (e.key.type = "CNAME" => e.val \in Targets)
    <3>1. PICK id \in S : e = NewRec(f[id][1], id, f[id][2], f[id][3])
      BY <2>4
    <3>2. e.key = f[id][2] /\ e.val = f[id][3]
      BY <3>1 DEF NewRec
    <3>3. f[id][2] \in Keys /\ f[id][3] \in Rdata(f[id][2])
      BY <2>3, <3>1
    <3> QED
      BY <3>2, <3>3 DEF Rdata
  <2> QED
    BY <2>4, <2>5 DEF RecordsOK
<1>3. StoreInv
  BY <1>1, <1>2 DEF StoreInv
<1>4. Asking /\ Learnt
  BY <1>1 DEF Asking, Learnt
<1>5. ClaimsHeld /\ StableAnswer
  BY <1>1 DEF ClaimsHeld, StableAnswer
<1>6. /\ q.pc \in Places
      /\ q = [pc |-> q.pc, name |-> q.name, type |-> q.type, cname |-> q.cname,
              zone |-> q.zone, reply |-> q.reply]
  BY <1>1 DEF NoQuery, Places
<1> QED
  BY <1>3, <1>4, <1>5, <1>6 DEF QueryInv

\* A query at a place of the handler that reads the store.
LEMMA WhileAsking ==
    ASSUME QueryInv, q.pc \notin {"idle", "formerr"}
    PROVE  /\ store \in seen /\ RecordsOK(store)
           /\ q.name \in QNames /\ q.type \in QTypes
BY DEF QueryInv, StoreInv, Asking

LEMMA AnswerKeeps ==
    ASSUME QueryInv, q.pc \notin {"idle", "formerr"}, NEW r,
           UNCHANGED <<store, seen>>, Answer(r), Good(seen, q.name, q.type, r)
    PROVE  QueryInv'
<1>1. /\ q'.pc = "done" /\ q'.name = q.name /\ q'.type = q.type /\ q'.reply = r
      /\ q' = [pc |-> q'.pc, name |-> q'.name, type |-> q'.type, cname |-> q'.cname,
               zone |-> q'.zone, reply |-> q'.reply]
  BY DEF Answer, QueryInv
<1>2. Good(seen', q'.name, q'.type, q'.reply)
  BY <1>1
<1>3. (ClaimsHeld /\ StableAnswer)'
  BY <1>2, GoodReplyNext DEF GoodDone
<1>4. StoreInv'
  BY DEF QueryInv, StoreInv
<1>5. Asking'
  BY <1>1, WhileAsking DEF Asking
<1>6. Learnt'
  BY <1>1 DEF Learnt
<1> QED
  BY <1>1, <1>3, <1>4, <1>5, <1>6 DEF QueryInv, Places

\* A query that goes on: only Asking and Learnt have something to say.
LEMMA GoOnKeeps ==
    ASSUME QueryInv, UNCHANGED <<store, seen>>, q'.pc \in Places \ {"done"},
           q' = [pc |-> q'.pc, name |-> q'.name, type |-> q'.type, cname |-> q'.cname,
                 zone |-> q'.zone, reply |-> q'.reply],
           Asking', Learnt'
    PROVE  QueryInv'
<1>1. StoreInv'
  BY DEF QueryInv, StoreInv
<1>2. ClaimsHeld' /\ StableAnswer'
  BY DEF ClaimsHeld, StableAnswer
<1> QED
  BY <1>1, <1>2 DEF QueryInv

LEMMA ServeDNSKeeps ==
    ASSUME QueryInv, NEW n \in QNames, NEW t \in QTypes, ServeDNS(n, t)
    PROVE  QueryInv'
<1>1. /\ q'.name = n /\ q'.type = t
      /\ q'.pc = (IF t = "ANY" THEN "done" ELSE "lookup")
      /\ q'.reply = (IF t = "ANY" THEN Reply("HINFO", {}, {}) ELSE NoReply)
      /\ q' = [pc |-> q'.pc, name |-> q'.name, type |-> q'.type, cname |-> q'.cname,
               zone |-> q'.zone, reply |-> q'.reply]
  BY DEF ServeDNS, NoQuery
<1>2. store' = store /\ seen' = {store}
  BY DEF ServeDNS
<1>3. StoreInv'
  BY <1>2 DEF QueryInv, StoreInv
<1>4. Asking'
  BY <1>1, <1>2 DEF Asking
<1>5. Learnt'
  BY <1>1 DEF Learnt
<1>6. q'.pc = "done" => Good(seen', q'.name, q'.type, q'.reply)
  <2> SUFFICES ASSUME t = "ANY"
               PROVE  Good({store}, n, "ANY", Reply("HINFO", {}, {}))
    BY <1>1, <1>2
  <2> DEFINE r == Reply("HINFO", {}, {})
  <2>1. r.rcode = "HINFO" /\ r.answer = {} /\ r.soa = {}
    BY ReplyFields
  <2>2. r \in Resolve(store, n, "ANY")
    BY DEF Resolve
  <2> HIDE DEF r
  <2>3. ClaimsFor({store}, n, "ANY", r)
    BY <2>1 DEF ClaimsFor
  <2>4. StableFor({store}, n, "ANY", r)
    BY <2>2 DEF StableFor
  <2> QED
    BY <2>3, <2>4 DEF Good, r
<1>7. (ClaimsHeld /\ StableAnswer)'
  BY <1>6, GoodReplyNext DEF GoodDone
<1> QED
  BY <1>1, <1>3, <1>4, <1>5, <1>7 DEF QueryInv, Places

LEMMA LookupDirectKeeps ==
    ASSUME QueryInv, LookupDirect PROVE QueryInv'
<1> DEFINE R == Lookup(store, q.name, q.type)
<1>1. q.pc = "lookup" /\ UNCHANGED <<store, seen>>
  BY DEF LookupDirect, AtStore
<1>2. q.type # "ANY" /\ store \in seen /\ RecordsOK(store) /\ q.name \in QNames
  BY <1>1, WhileAsking DEF QueryInv, Asking
<1>3. R = RRset(store, q.name, q.type)
  BY <1>2, LookupCorrect
<1>4. ASSUME R # {}, NEW A \in addAnswers(R, q.type), Answer(Reply("NOERROR", A, {}))
      PROVE  QueryInv'
  <2>1. A \in Choices(store, q.name, q.type)
    BY <1>3, <1>4, AddAnswers
  <2>2. Good(seen, q.name, q.type, Reply("NOERROR", A, {}))
    BY <1>2, <1>3, <1>4, <2>1, DirectGood
  <2> QED
    BY <1>1, <1>4, <2>2, AnswerKeeps
<1>5. ASSUME R = {}, NEW pc, Goto(pc),
             \/ q.type # "CNAME" /\ pc = "cname"
             \/ q.type = "CNAME" /\ pc = "findZone"
      PROVE  QueryInv'
  <2>1. /\ q'.pc = pc /\ q'.name = q.name /\ q'.type = q.type
        /\ q' = [pc |-> q'.pc, name |-> q'.name, type |-> q'.type, cname |-> q'.cname,
                 zone |-> q'.zone, reply |-> q'.reply]
    BY <1>5 DEF Goto, QueryInv
  <2>2. Asking'
    BY <1>1, <1>2, <1>5, <2>1, WhileAsking DEF Asking
  <2>3. Learnt'
    BY <1>1, <1>2, <1>3, <1>5, <2>1 DEF Learnt
  <2> QED
    BY <1>1, <1>5, <2>1, <2>2, <2>3, GoOnKeeps DEF Places
<1> QED
  BY <1>4, <1>5 DEF LookupDirect

LEMMA LookupCNAMEKeeps ==
    ASSUME QueryInv, LookupCNAME PROVE QueryInv'
<1> DEFINE C == Lookup(store, q.name, "CNAME")
<1>1. q.pc = "cname" /\ UNCHANGED <<store, seen>>
  BY DEF LookupCNAME, AtStore
<1>2. /\ q.type # "ANY" /\ q.type # "CNAME" /\ store \in seen /\ RecordsOK(store)
      /\ q.name \in QNames
  BY <1>1, WhileAsking DEF QueryInv, Asking
<1>3. C = RRset(store, q.name, "CNAME")
  BY <1>2, LookupCorrect
<1>4. \E s \in seen : RRset(s, q.name, q.type) = {}
  BY <1>1 DEF QueryInv, Learnt
<1>5. ASSUME NEW c \in C, q' = [q EXCEPT !.pc = "target", !.cname = {c}]
      PROVE  QueryInv'
  <2>1. /\ q'.pc = "target" /\ q'.name = q.name /\ q'.type = q.type /\ q'.cname = {c}
        /\ q' = [pc |-> q'.pc, name |-> q'.name, type |-> q'.type, cname |-> q'.cname,
                 zone |-> q'.zone, reply |-> q'.reply]
    BY <1>5 DEF QueryInv
  <2>2. Asking'
    BY <1>1, <1>2, <2>1, WhileAsking DEF Asking
  <2>3. c \in RRset(store, q.name, "CNAME")
    BY <1>3
  <2>4. Learnt'
    BY <1>1, <1>2, <1>4, <2>1, <2>3 DEF Learnt
  <2> QED
    BY <1>1, <2>1, <2>2, <2>4, GoOnKeeps DEF Places
<1>6. ASSUME C = {}, Goto("findZone")
      PROVE  QueryInv'
  <2>1. /\ q'.pc = "findZone" /\ q'.name = q.name /\ q'.type = q.type
        /\ q' = [pc |-> q'.pc, name |-> q'.name, type |-> q'.type, cname |-> q'.cname,
                 zone |-> q'.zone, reply |-> q'.reply]
    BY <1>6 DEF Goto, QueryInv
  <2>2. Asking'
    BY <1>1, <1>2, <2>1, WhileAsking DEF Asking
  <2>3. Learnt'
    BY <1>1, <1>2, <1>3, <1>4, <1>6, <2>1 DEF Learnt
  <2> QED
    BY <1>1, <2>1, <2>2, <2>3, GoOnKeeps DEF Places
<1> QED
  BY <1>5, <1>6 DEF LookupCNAME

LEMMA LookupTargetKeeps ==
    ASSUME QueryInv, LookupTarget PROVE QueryInv'
<1>1. q.pc = "target" /\ UNCHANGED <<store, seen>>
  BY DEF LookupTarget, AtStore
<1>2. /\ q.type # "ANY" /\ q.type # "CNAME" /\ store \in seen /\ RecordsOK(store)
      /\ \A s \in seen : RecordsOK(s)
  BY <1>1, WhileAsking DEF QueryInv, Asking, StoreInv
<1>3. PICK s0 \in seen : RRset(s0, q.name, q.type) = {}
  BY <1>1 DEF QueryInv, Learnt
<1>4. PICK c : q.cname = {c} /\ \E s \in seen : c \in RRset(s, q.name, "CNAME")
  BY <1>1 DEF QueryInv, Learnt
<1>5. PICK s1 \in seen : c \in RRset(s1, q.name, "CNAME")
  BY <1>4
<1>6. c.val \in Targets
  BY <1>2, <1>5 DEF RRset, At, RecordsOK
<1> DEFINE R == Lookup(store, c.val, q.type)
<1>7. R = RRset(store, c.val, q.type)
  BY <1>2, <1>6, LookupCorrect
<1>8. (CHOOSE x \in q.cname : TRUE) = c
  BY <1>4
<1>9. ASSUME NEW A \in Choices(store, c.val, q.type),
             Answer(Reply("NOERROR", {c} \cup A, {}))
      PROVE  QueryInv'
  <2>1. Good(seen, q.name, q.type, Reply("NOERROR", {c} \cup A, {}))
    BY <1>2, <1>3, <1>5, <1>9, AliasGood
  <2> QED
    BY <1>1, <1>9, <2>1, AnswerKeeps
<1>10. \/ R # {} /\ \E A \in addAnswers(R, q.type) : Answer(Reply("NOERROR", {c} \cup A, {}))
       \/ R = {} /\ Answer(Reply("NOERROR", {c}, {}))
  BY <1>8 DEF LookupTarget
<1>11. CASE R # {} /\ \E A \in addAnswers(R, q.type) : Answer(Reply("NOERROR", {c} \cup A, {}))
  <2>1. addAnswers(R, q.type) = Choices(store, c.val, q.type)
    BY <1>7, <1>11, AddAnswers
  <2> QED
    BY <1>9, <1>11, <2>1
<1>12. CASE R = {} /\ Answer(Reply("NOERROR", {c}, {}))
  <2>1. {} \in Choices(store, c.val, q.type) /\ {c} \cup {} = {c}
    BY <1>7, <1>12, NoAnswers
  <2> QED
    BY <1>9, <1>12, <2>1
<1> QED
  BY <1>10, <1>11, <1>12

LEMMA QueryFindZoneKeeps ==
    ASSUME QueryInv, QueryFindZone PROVE QueryInv'
<1> DEFINE Z == FindZone(store, q.name)
<1>1. q.pc = "findZone" /\ UNCHANGED <<store, seen>>
  BY DEF QueryFindZone, AtStore
<1>2. q.type # "ANY" /\ store \in seen /\ q.name \in QNames
  BY <1>1, WhileAsking DEF QueryInv, Asking
<1>3. Z = Authoritative(store.zones, q.name)
  BY <1>2, FindZoneCorrect
<1>4. PICK s0 \in seen : RRset(s0, q.name, q.type) = {}
  BY <1>1 DEF QueryInv, Learnt
<1>5. PICK s1 \in seen : q.type # "CNAME" => RRset(s1, q.name, "CNAME") = {}
  BY <1>1, <1>2 DEF QueryInv, Learnt
<1>6. CASE Z = {} /\ Answer(Reply("REFUSED", {}, {}))
  <2>1. Good(seen, q.name, q.type, Reply("REFUSED", {}, {}))
    BY <1>2, <1>3, <1>4, <1>5, <1>6, NegativeGood
  <2> QED
    BY <1>1, <1>6, <2>1, AnswerKeeps
<1>7. CASE Z # {} /\ q' = [q EXCEPT !.pc = "nameExists", !.zone = Z]
  <2>1. /\ q'.pc = "nameExists" /\ q'.name = q.name /\ q'.type = q.type /\ q'.zone = Z
        /\ q' = [pc |-> q'.pc, name |-> q'.name, type |-> q'.type, cname |-> q'.cname,
                 zone |-> q'.zone, reply |-> q'.reply]
    BY <1>7 DEF QueryInv
  <2>2. Asking'
    BY <1>1, <1>2, <2>1, WhileAsking DEF Asking
  <2>3. Learnt'
    BY <1>1, <1>2, <1>3, <1>4, <1>5, <1>7, <2>1 DEF Learnt
  <2> QED
    BY <1>1, <2>1, <2>2, <2>3, GoOnKeeps DEF Places
<1> QED
  BY <1>6, <1>7 DEF QueryFindZone

LEMMA QueryNameExistsKeeps ==
    ASSUME QueryInv, QueryNameExists PROVE QueryInv'
<1>1. q.pc = "nameExists" /\ UNCHANGED <<store, seen>>
  BY DEF QueryNameExists, AtStore
<1>2. q.type # "ANY" /\ store \in seen /\ q.name \in QNames
  BY <1>1, WhileAsking DEF QueryInv, Asking
<1>3. PICK s0 \in seen : RRset(s0, q.name, q.type) = {}
  BY <1>1 DEF QueryInv, Learnt
<1>4. PICK s1 \in seen : q.type # "CNAME" => RRset(s1, q.name, "CNAME") = {}
  BY <1>1, <1>2 DEF QueryInv, Learnt
<1>5. PICK s2 \in seen : Authoritative(s2.zones, q.name) = q.zone
  BY <1>1 DEF QueryInv, Learnt
<1> DEFINE r == Reply(IF At(store, q.name) # {} THEN "NOERROR" ELSE "NXDOMAIN", {}, q.zone)
<1>6. Answer(r)
  <2>1. NameExists(store, q.name) <=> At(store, q.name) # {}
    BY <1>2, NameExistsCorrect
  <2>2. CASE NameExists(store, q.name) /\ Answer(Reply("NOERROR", {}, q.zone))
    BY <2>1, <2>2
  <2>3. CASE ~NameExists(store, q.name) /\ Answer(Reply("NXDOMAIN", {}, q.zone))
    BY <2>1, <2>3
  <2> QED
    BY <2>2, <2>3 DEF QueryNameExists
<1>7. q.zone # {}
  BY <1>1 DEF QueryInv, Learnt
<1>8. Good(seen, q.name, q.type, r)
  <2>1. r = Reply(IF At(store, q.name) # {} THEN "NOERROR" ELSE "NXDOMAIN", {},
                  Authoritative(s2.zones, q.name))
    BY <1>5
  <2> HIDE DEF r
  <2> QED
    BY <1>2, <1>3, <1>4, <1>5, <1>7, <2>1, NegativeGood
<1> HIDE DEF r
<1> QED
  BY <1>1, <1>6, <1>8, AnswerKeeps

\* A writer leaves a store of the same shape.
LEMMA WritesFit ==
    ASSUME QueryInv, WriteStore
    PROVE  /\ store' = [zones |-> store'.zones, recs |-> store'.recs]
           /\ RecordsOK(store')
           /\ seen' = seen \cup {store'} /\ q' = q /\ q.pc \notin {"idle", "done", "formerr"}
<1>1. store = [zones |-> store.zones, recs |-> store.recs] /\ RecordsOK(store)
  BY DEF QueryInv, StoreInv
<1>2. PICK a \in Apexes :
        \/ Publish({Update(store, a, {})})
        \/ Publish({Delete(store, a)})
        \/ \E id \in Ids, k \in Keys :
              Publish({PutRecord(store, NewRec(a, id, k, v)) : v \in Rdata(k)})
        \/ Publish(UNION {DropRecord(store, a, id) : id \in Ids})
  BY DEF WriteStore
<1> DEFINE Fits(s) == s = [zones |-> s.zones, recs |-> s.recs] /\ RecordsOK(s)
<1>3. ASSUME NEW S, Publish(S), \A s \in S : Fits(s)
      PROVE  /\ Fits(store')
             /\ seen' = seen \cup {store'} /\ q' = q
             /\ q.pc \notin {"idle", "done", "formerr"}
  <2> HIDE DEF Fits
  <2> QED
    BY <1>3 DEF Publish
<1>4. ASSUME NEW s, s = [zones |-> s.zones, recs |-> s.recs],
             s.recs \subseteq store.recs
      PROVE  Fits(s)
  BY <1>1, <1>4 DEF RecordsOK
<1>5. Fits(Update(store, a, {})) /\ Fits(Delete(store, a))
  <2>1. /\ Update(store, a, {}).recs = {e \in store.recs : e.zone # a}
        /\ Delete(store, a).recs = {e \in store.recs : e.zone # a}
    BY DEF Update, Delete
  <2>2. LET s == Update(store, a, {}) IN s = [zones |-> s.zones, recs |-> s.recs]
    BY DEF Update
  <2>3. LET s == Delete(store, a) IN s = [zones |-> s.zones, recs |-> s.recs]
    BY DEF Delete
  <2> HIDE DEF Fits
  <2> QED
    BY <1>4, <2>1, <2>2, <2>3
<1>6. ASSUME NEW id \in Ids, NEW k \in Keys, NEW v \in Rdata(k)
      PROVE  Fits(PutRecord(store, NewRec(a, id, k, v)))
  <2> DEFINE r == NewRec(a, id, k, v)
             s == PutRecord(store, r)
  <2>1. r.key = k /\ r.val = v
    BY DEF NewRec
  <2>2. s.recs \subseteq store.recs \cup {r} /\ s = [zones |-> s.zones, recs |-> s.recs]
    BY DEF PutRecord
  <2>3. k.type = "CNAME" => v \in Targets
    BY DEF Rdata
  <2> HIDE DEF r, s
  <2>4. RecordsOK(s)
    BY <1>1, <2>1, <2>2, <2>3 DEF RecordsOK
  <2> QED
    BY <2>2, <2>4 DEF s, r
<1>7. ASSUME NEW id \in Ids, NEW s \in DropRecord(store, a, id)
      PROVE  Fits(s)
  <2>1. CASE s = store
    BY <1>1, <2>1
  <2>2. CASE \E e \in Copies(store, a, id) : s = [store EXCEPT !.recs = @ \ {e}]
    <3>1. PICK e : s = [store EXCEPT !.recs = @ \ {e}]
      BY <2>2
    <3>2. s.recs = store.recs \ {e} /\ s = [zones |-> s.zones, recs |-> s.recs]
      BY <1>1, <3>1
    <3> HIDE DEF Fits
    <3> QED
      BY <1>4, <3>2
  <2> QED
    BY <1>7, <2>1, <2>2 DEF DropRecord
<1> HIDE DEF Fits
<1>8. \A id \in Ids, k \in Keys :
          \A s \in {PutRecord(store, NewRec(a, id, k, v)) : v \in Rdata(k)} : Fits(s)
  BY <1>6
<1>9. \A s \in UNION {DropRecord(store, a, id) : id \in Ids} : Fits(s)
  BY <1>7
<1>10. /\ Fits(store')
       /\ seen' = seen \cup {store'} /\ q' = q /\ q.pc \notin {"idle", "done", "formerr"}
  <2>1. CASE Publish({Update(store, a, {})}) \/ Publish({Delete(store, a)})
    BY <1>3, <1>5, <2>1
  <2>2. CASE \E id \in Ids, k \in Keys :
                 Publish({PutRecord(store, NewRec(a, id, k, v)) : v \in Rdata(k)})
    BY <1>3, <1>8, <2>2
  <2>3. CASE Publish(UNION {DropRecord(store, a, id) : id \in Ids})
    BY <1>3, <1>9, <2>3
  <2> QED
    BY <1>2, <2>1, <2>2, <2>3
<1> QED
  BY <1>10 DEF Fits

LEMMA WriteStoreKeeps ==
    ASSUME QueryInv, WriteStore PROVE QueryInv'
<1>1. /\ store' = [zones |-> store'.zones, recs |-> store'.recs]
      /\ RecordsOK(store')
      /\ seen' = seen \cup {store'} /\ q' = q /\ q.pc \notin {"idle", "done", "formerr"}
  BY WritesFit
<1>2. StoreInv'
  BY <1>1 DEF QueryInv, StoreInv
<1>3. Asking'
  BY <1>1 DEF QueryInv, Asking
<1>4. Learnt'
  BY <1>1 DEF QueryInv, Learnt
<1>5. ClaimsHeld' /\ StableAnswer'
  BY <1>1 DEF ClaimsHeld, StableAnswer
<1> QED
  BY <1>1, <1>2, <1>3, <1>4, <1>5 DEF QueryInv

LEMMA NoQueryKeeps ==
    ASSUME QueryInv, ServeEmpty \/ WriteMsg PROVE QueryInv'
<1>1. /\ q'.pc \in {"idle", "formerr"} /\ store' = store /\ seen' \subseteq seen
      /\ q' = [pc |-> q'.pc, name |-> q'.name, type |-> q'.type, cname |-> q'.cname,
               zone |-> q'.zone, reply |-> q'.reply]
  <2>1. CASE ServeEmpty
    BY <2>1 DEF ServeEmpty, NoQuery
  <2>2. CASE WriteMsg
    BY <2>2 DEF WriteMsg, NoQuery
  <2> QED
    BY <2>1, <2>2
<1>2. StoreInv'
  BY <1>1 DEF QueryInv, StoreInv
<1>3. Asking' /\ Learnt'
  BY <1>1 DEF Asking, Learnt
<1>4. ClaimsHeld' /\ StableAnswer'
  BY <1>1 DEF ClaimsHeld, StableAnswer
<1> QED
  BY <1>1, <1>2, <1>3, <1>4 DEF QueryInv, Places

LEMMA SameKeeps ==
    ASSUME QueryInv, UNCHANGED <<store, q, seen>> PROVE QueryInv'
BY DEF QueryInv, StoreInv, Asking, Learnt, ClaimsHeld, StableAnswer, Right

LEMMA QueryStep == QueryInv /\ [Next]_vars => QueryInv'
<1> SUFFICES ASSUME QueryInv, [Next]_vars PROVE QueryInv'
  OBVIOUS
<1>1. CASE \E n \in QNames, t \in QTypes : ServeDNS(n, t)
  BY <1>1, ServeDNSKeeps
<1>2. CASE ServeEmpty \/ WriteMsg
  BY <1>2, NoQueryKeeps
<1>3. CASE LookupDirect
  BY <1>3, LookupDirectKeeps
<1>4. CASE LookupCNAME
  BY <1>4, LookupCNAMEKeeps
<1>5. CASE LookupTarget
  BY <1>5, LookupTargetKeeps
<1>6. CASE QueryFindZone
  BY <1>6, QueryFindZoneKeeps
<1>7. CASE QueryNameExists
  BY <1>7, QueryNameExistsKeeps
<1>8. CASE WriteStore
  BY <1>8, WriteStoreKeeps
<1>9. CASE TakeTrigger
  BY <1>9, SameKeeps DEF TakeTrigger
<1>10. CASE UNCHANGED vars
  BY <1>10, SameKeeps DEF vars
<1> QED
  BY <1>1, <1>2, <1>3, <1>4, <1>5, <1>6, <1>7, <1>8, <1>9, <1>10 DEF Next

LEMMA QueryInvariant == Spec => []QueryInv
BY QueryInit, QueryStep, PTL DEF Spec

\* Every claim of an answer held at some moment of the query, whatever the
\* writers do between its calls of the store (handleQuery,
\* internal/dns/handler.go:106-186).
THEOREM ClaimsHold == Spec => []ClaimsHeld
<1>1. QueryInv => ClaimsHeld
  BY DEF QueryInv
<1> QED
  BY <1>1, QueryInvariant, PTL

\* Writers that leave the right answer alone leave the answer alone
\* (handleQuery, internal/dns/handler.go:106-167).
THEOREM StableAnswers == Spec => []StableAnswer
<1>1. QueryInv => StableAnswer
  BY DEF QueryInv
<1> QED
  BY <1>1, QueryInvariant, PTL
=============================================================================
