-------------------------- MODULE ZoneTransferProofs --------------------------
(***************************************************************************)
(* The zone store keeps its promise and a transfer sends a whole zone, for *)
(* every number of goroutines, zones, keys and records.                    *)
(***************************************************************************)
EXTENDS ZoneTransfer, DnsNamesProofs, FiniteSetTheorems,
        SequenceTheorems

(***************************************************************************)
(* Sequences: a sequence of anything, and what the slices of the store are *)
(* made with.                                                              *)
(***************************************************************************)
IsSeq(s) == s \in Seq(Range(s))

LEMMA SeqIsSeq ==
    ASSUME NEW S, NEW s \in Seq(S)
    PROVE  /\ IsSeq(s) /\ Len(s) \in Nat /\ DOMAIN s = 1 .. Len(s)
           /\ \A i \in DOMAIN s : s[i] \in S
           /\ Range(s) \subseteq S
BY DEF IsSeq, Range

LEMMA IsSeqFacts ==
    ASSUME NEW s, IsSeq(s)
    PROVE  Len(s) \in Nat /\ DOMAIN s = 1 .. Len(s)
BY DEF IsSeq

LEMMA AppendIsSeq ==
    ASSUME NEW s, IsSeq(s), NEW e
    PROVE  /\ IsSeq(Append(s, e))
           /\ Len(Append(s, e)) = Len(s) + 1
           /\ DOMAIN Append(s, e) = 1 .. Len(s) + 1
           /\ \A i \in DOMAIN s : Append(s, e)[i] = s[i]
           /\ Append(s, e)[Len(s) + 1] = e
           /\ Range(Append(s, e)) = Range(s) \cup {e}
<1> DEFINE t == Append(s, e)
           S == Range(s) \cup {e}
<1>1. s \in Seq(S) /\ e \in S /\ Len(s) \in Nat
  BY DEF IsSeq
<1> HIDE DEF S
<1>2. /\ t \in Seq(S) /\ Len(t) = Len(s) + 1 /\ DOMAIN t = 1 .. Len(s) + 1
      /\ \A i \in DOMAIN s : t[i] = s[i]
      /\ t[Len(s) + 1] = e
  BY <1>1
<1>3. IsSeq(t)
  BY <1>2, SeqIsSeq
<1>4. DOMAIN t = DOMAIN s \cup {Len(s) + 1} /\ Len(s) + 1 \notin DOMAIN s
  BY <1>1, <1>2
<1> HIDE DEF t
<1>5. Range(t) = Range(s) \cup {e}
  <2>1. \A x : (\E i \in DOMAIN t : x = t[i]) <=> (\E i \in DOMAIN s : x = s[i]) \/ x = e
    BY <1>2, <1>4
  <2> QED
    BY <2>1 DEF Range
<1> QED
  BY <1>1, <1>2, <1>3, <1>5 DEF t

LEMMA SetToSeqCorrect ==
    ASSUME NEW S, IsFiniteSet(S)
    PROVE  /\ SetToSeq(S) \in Seq(S)
           /\ IsInjective(SetToSeq(S))
           /\ Range(SetToSeq(S)) = S
           /\ S # {} => SetToSeq(S) # <<>>
<1> DEFINE n == Cardinality(S)
           q == SetToSeq(S)
<1>1. n \in Nat /\ ExistsBijection(1 .. n, S)
  BY FS_CardinalityType
<1>2. PICK g \in Bijection(1 .. n, S) : TRUE
  BY <1>1 DEF ExistsBijection
<1>3. g \in [1 .. n -> S] /\ IsInjective(g)
  BY <1>2 DEF Bijection, Injection, IsInjective
<1>4. q \in [1 .. n -> S] /\ IsInjective(q)
  BY <1>3 DEF SetToSeq
<1>5. q \in Seq(S)
  BY <1>1, <1>4
<1>6. q \in Injection(1 .. n, S)
  BY <1>4 DEF Injection, IsInjective
<1>7. IsFiniteSet(1 .. n) /\ Cardinality(1 .. n) = n
  BY <1>1, FS_Interval
<1>8. q \in Surjection(1 .. n, S)
  BY <1>6, <1>7, FS_Injection
<1>9. Range(q) = S
  <2>1. \A s \in S : \E i \in 1 .. n : q[i] = s
    BY <1>8 DEF Surjection
  <2> HIDE DEF q
  <2> QED
    BY <1>4, <2>1 DEF Range
<1>10. S # {} => q # <<>>
  <2> HIDE DEF q
  <2> QED
    BY <1>9 DEF Range
<1> QED
  BY <1>4, <1>5, <1>9, <1>10

LEMMA FiniteImage ==
    ASSUME NEW S, IsFiniteSet(S), NEW g, DOMAIN g = S, g = [x \in S |-> g[x]]
    PROVE  IsFiniteSet({g[x] : x \in S})
<1> DEFINE T == {g[x] : x \in S}
<1>1. g \in [S -> T]
  OBVIOUS
<1>2. \A t \in T : \E x \in S : g[x] = t
  OBVIOUS
<1>3. g \in Surjection(S, T)
  BY <1>1, <1>2 DEF Surjection
<1> HIDE DEF T
<1>4. IsFiniteSet(T)
  BY <1>3, FS_Surjection
<1> QED
  BY <1>4 DEF T
-----------------------------------------------------------------------------
(***************************************************************************)
(* The heap: Zone objects zh and slices sh.  A slice under key k of a Zone *)
(* of apex a holds records of a and k, at least one and no id twice.       *)
(***************************************************************************)
SliceOK(s, a, k) ==
    /\ s \in Seq(Entry) /\ s # <<>>
    /\ \A i \in DOMAIN s : s[i].zone = a /\ s[i].key = k
    /\ \A i, j \in DOMAIN s : s[i].id = s[j].id => i = j

ZoneOK(o, sh) ==
    /\ o.name \in Apexes /\ DOMAIN o.recs \subseteq Keys
    /\ \A k \in DOMAIN o.recs : o.recs[k] \in DOMAIN sh /\ SliceOK(sh[o.recs[k]], o.name, k)

HeapOK(zh, sh) ==
    /\ IsSeq(zh) /\ IsSeq(sh)
    /\ \A z \in DOMAIN zh : ZoneOK(zh[z], sh)
    /\ \A s \in DOMAIN sh : sh[s] # <<>> /\ sh[s] \in Seq(Entry)

\* The records of a Zone object.
ObjRecs(o, sh) == UNION {Range(sh[s]) : s \in Range(o.recs)}

\* The heap only grows: what is there is never written again.
Grows(h, h1) == DOMAIN h \subseteq DOMAIN h1 /\ \A i \in DOMAIN h : h1[i] = h[i]

LEMMA ObjMember ==
    ASSUME NEW o, NEW sh, NEW e
    PROVE  e \in ObjRecs(o, sh) <=> \E x \in DOMAIN o.recs : e \in Range(sh[o.recs[x]])
BY DEF ObjRecs, Range

LEMMA SliceMembers ==
    ASSUME NEW o, NEW sh, ZoneOK(o, sh), NEW x \in DOMAIN o.recs,
           NEW e \in Range(sh[o.recs[x]])
    PROVE  e \in Entry /\ e.zone = o.name /\ e.key = x
<1>1. SliceOK(sh[o.recs[x]], o.name, x)
  BY DEF ZoneOK
<1> QED
  BY <1>1 DEF SliceOK, Range

LEMMA ObjMembers ==
    ASSUME NEW o, NEW sh, ZoneOK(o, sh)
    PROVE  \A e \in ObjRecs(o, sh) : e \in Entry /\ e.zone = o.name
BY ObjMember, SliceMembers

\* The records of one key are its slice.
LEMMA ObjKey ==
    ASSUME NEW o, NEW sh, ZoneOK(o, sh), NEW k
    PROVE  {e \in ObjRecs(o, sh) : e.key = k}
             = IF k \in DOMAIN o.recs THEN Range(sh[o.recs[k]]) ELSE {}
<1>1. ASSUME NEW e
      PROVE  (e \in ObjRecs(o, sh) /\ e.key = k)
                <=> (k \in DOMAIN o.recs /\ e \in Range(sh[o.recs[k]]))
  <2>1. ASSUME e \in ObjRecs(o, sh), e.key = k
        PROVE  k \in DOMAIN o.recs /\ e \in Range(sh[o.recs[k]])
    BY <2>1, ObjMember, SliceMembers
  <2>2. ASSUME k \in DOMAIN o.recs, e \in Range(sh[o.recs[k]])
        PROVE  e \in ObjRecs(o, sh) /\ e.key = k
    BY <2>2, ObjMember, SliceMembers
  <2> QED
    BY <2>1, <2>2
<1> QED
  BY <1>1

LEMMA GrowsKeeps ==
    ASSUME NEW o, NEW sh, NEW sh1, ZoneOK(o, sh), Grows(sh, sh1)
    PROVE  ZoneOK(o, sh1) /\ ObjRecs(o, sh1) = ObjRecs(o, sh)
<1>1. \A k \in DOMAIN o.recs : o.recs[k] \in DOMAIN sh1 /\ sh1[o.recs[k]] = sh[o.recs[k]]
  BY DEF ZoneOK, Grows
<1>2. ZoneOK(o, sh1)
  BY <1>1 DEF ZoneOK
<1>3. \A s \in Range(o.recs) : sh1[s] = sh[s]
  BY <1>1 DEF Range
<1>4. ObjRecs(o, sh1) = ObjRecs(o, sh)
  BY <1>3 DEF ObjRecs
<1> QED
  BY <1>2, <1>4
-----------------------------------------------------------------------------
(***************************************************************************)
(* The value that the map zs stands for on a heap.                         *)
(***************************************************************************)
PresentIn(zs) == {a \in Apexes : zs[a] # 0}

ValueOf(zs, zh, sh) ==
    [zones |-> PresentIn(zs),
     recs  |-> UNION {ObjRecs(zh[zs[a]], sh) : a \in PresentIn(zs)}]

StoreOK(zs, zh, sh) ==
    /\ HeapOK(zh, sh)
    /\ zs \in [Apexes -> 0 .. Len(zh)]
    /\ \A a \in Apexes : zs[a] # 0 => zh[zs[a]].name = a

LEMMA ValueFields ==
    ASSUME NEW zs, NEW zh, NEW sh
    PROVE  /\ ValueOf(zs, zh, sh).zones = PresentIn(zs)
           /\ ValueOf(zs, zh, sh).recs = UNION {ObjRecs(zh[zs[a]], sh) : a \in PresentIn(zs)}
BY DEF ValueOf

LEMMA ValueMember ==
    ASSUME NEW zs, NEW zh, NEW sh, NEW e
    PROVE  e \in ValueOf(zs, zh, sh).recs <=> \E a \in PresentIn(zs) : e \in ObjRecs(zh[zs[a]], sh)
BY ValueFields

LEMMA PresentObj ==
    ASSUME NEW zs, NEW zh, NEW sh, StoreOK(zs, zh, sh), NEW a \in PresentIn(zs)
    PROVE  /\ a \in Apexes /\ zs[a] \in DOMAIN zh
           /\ ZoneOK(zh[zs[a]], sh) /\ zh[zs[a]].name = a
<1>1. a \in Apexes /\ zs[a] # 0 /\ zs[a] \in 0 .. Len(zh)
  BY DEF PresentIn, StoreOK
<1>2. Len(zh) \in Nat /\ DOMAIN zh = 1 .. Len(zh)
  BY IsSeqFacts DEF StoreOK, HeapOK
<1>3. zs[a] \in DOMAIN zh
  BY <1>1, <1>2
<1> QED
  BY <1>1, <1>3 DEF StoreOK, HeapOK

LEMMA ValueOfZone ==
    ASSUME NEW zs, NEW zh, NEW sh, StoreOK(zs, zh, sh), NEW a \in Apexes
    PROVE  {e \in ValueOf(zs, zh, sh).recs : e.zone = a}
             = IF a \in PresentIn(zs) THEN ObjRecs(zh[zs[a]], sh) ELSE {}
<1> DEFINE V == ValueOf(zs, zh, sh)
<1>1. ASSUME NEW b \in PresentIn(zs), NEW e \in ObjRecs(zh[zs[b]], sh)
      PROVE  e.zone = b
  BY PresentObj, ObjMembers
<1>2. ASSUME NEW e
      PROVE  (e \in V.recs /\ e.zone = a)
                <=> (a \in PresentIn(zs) /\ e \in ObjRecs(zh[zs[a]], sh))
  BY <1>1, ValueMember
<1> HIDE DEF V
<1>3. {e \in V.recs : e.zone = a}
        = IF a \in PresentIn(zs) THEN ObjRecs(zh[zs[a]], sh) ELSE {}
  BY <1>2
<1> QED
  BY <1>3 DEF V

LEMMA ValueInStore ==
    ASSUME NEW zs, NEW zh, NEW sh, StoreOK(zs, zh, sh)
    PROVE  ValueOf(zs, zh, sh) \in Store
<1>1. \A e \in ValueOf(zs, zh, sh).recs : e \in Entry
  BY ValueMember, PresentObj, ObjMembers
<1>2. PresentIn(zs) \subseteq Apexes
  BY DEF PresentIn
<1> QED
  BY <1>1, <1>2, ValueFields DEF ValueOf, Store

\* A larger heap stands for the same value.
LEMMA ValueGrows ==
    ASSUME NEW zs, NEW zh, NEW sh, NEW zh1, NEW sh1, StoreOK(zs, zh, sh),
           HeapOK(zh1, sh1), Grows(zh, zh1), Grows(sh, sh1)
    PROVE  StoreOK(zs, zh1, sh1) /\ ValueOf(zs, zh1, sh1) = ValueOf(zs, zh, sh)
<1>1. ASSUME NEW a \in PresentIn(zs)
      PROVE  zh1[zs[a]] = zh[zs[a]] /\ ObjRecs(zh1[zs[a]], sh1) = ObjRecs(zh[zs[a]], sh)
  BY PresentObj, GrowsKeeps DEF Grows
<1>2. ValueOf(zs, zh1, sh1) = ValueOf(zs, zh, sh)
  BY <1>1 DEF ValueOf
<1>3. Len(zh) \in Nat /\ DOMAIN zh = 1 .. Len(zh) /\ Len(zh1) \in Nat /\ DOMAIN zh1 = 1 .. Len(zh1)
  BY IsSeqFacts DEF StoreOK, HeapOK
<1>4. Len(zh) <= Len(zh1)
  <2>1. CASE Len(zh) = 0
    BY <1>3, <2>1
  <2>2. CASE Len(zh) # 0
    <3>1. Len(zh) \in DOMAIN zh1
      BY <1>3, <2>2 DEF Grows
    <3> QED
      BY <1>3, <3>1
  <2> QED
    BY <2>1, <2>2
<1>5. zs \in [Apexes -> 0 .. Len(zh1)]
  BY <1>3, <1>4 DEF StoreOK
<1>6. \A a \in Apexes : zs[a] # 0 => zh1[zs[a]].name = a
  BY <1>1 DEF StoreOK, PresentIn
<1> QED
  BY <1>2, <1>5, <1>6 DEF StoreOK

\* The last statement of a writer: zone a gives way to a Zone with the records
\* R, or to nothing.
Replaced(v, a, z, R) ==
    [zones |-> IF z = 0 THEN v.zones \ {a} ELSE v.zones \cup {a},
     recs  |-> {e \in v.recs : e.zone # a} \cup (IF z = 0 THEN {} ELSE R)]

LEMMA ValueSet ==
    ASSUME NEW zs, NEW zh, NEW sh, StoreOK(zs, zh, sh), NEW a \in Apexes,
           NEW z \in 0 .. Len(zh), z # 0 => zh[z].name = a
    PROVE  /\ StoreOK([zs EXCEPT ![a] = z], zh, sh)
           /\ ValueOf([zs EXCEPT ![a] = z], zh, sh)
                = Replaced(ValueOf(zs, zh, sh), a, z, ObjRecs(zh[z], sh))
<1> DEFINE V == ValueOf(zs, zh, sh)
           ws == [zs EXCEPT ![a] = z]
           W == ValueOf(ws, zh, sh)
<1>1. ws \in [Apexes -> 0 .. Len(zh)] /\ ws[a] = z /\ \A b \in Apexes \ {a} : ws[b] = zs[b]
  BY DEF StoreOK
<1> HIDE DEF ws
<1>2. StoreOK(ws, zh, sh)
  BY <1>1 DEF StoreOK
<1>3. PresentIn(ws) = IF z = 0 THEN PresentIn(zs) \ {a} ELSE PresentIn(zs) \cup {a}
  BY <1>1 DEF PresentIn
<1>4. ASSUME NEW e
      PROVE  (e \in W.recs /\ e.zone # a) <=> (e \in V.recs /\ e.zone # a)
  <2>1. ASSUME NEW us, StoreOK(us, zh, sh), e.zone # a
        PROVE  e \in ValueOf(us, zh, sh).recs <=>
                 \E b \in PresentIn(us) \ {a} : e \in ObjRecs(zh[us[b]], sh)
    BY <2>1, ValueMember, PresentObj, ObjMembers
  <2>2. \A b : b \in PresentIn(ws) \ {a} <=> b \in PresentIn(zs) \ {a}
    BY <1>3
  <2>3. \A b \in PresentIn(zs) \ {a} : ws[b] = zs[b]
    BY <1>1 DEF PresentIn
  <2> QED
    BY <1>2, <2>1, <2>2, <2>3
<1>5. {e \in W.recs : e.zone = a} = IF a \in PresentIn(ws) THEN ObjRecs(zh[ws[a]], sh) ELSE {}
  BY <1>2, ValueOfZone
<1>6. a \in PresentIn(ws) <=> z # 0
  BY <1>3
<1>7. {e \in W.recs : e.zone = a} = IF z = 0 THEN {} ELSE ObjRecs(zh[z], sh)
  BY <1>1, <1>5, <1>6
<1>8. W.zones = PresentIn(ws) /\ V.zones = PresentIn(zs) /\ W = [zones |-> W.zones, recs |-> W.recs]
  BY DEF ValueOf
<1> HIDE DEF V, W
<1>9. W.recs = {e \in V.recs : e.zone # a} \cup {e \in W.recs : e.zone = a}
  BY <1>4
<1>10. W.recs = {e \in V.recs : e.zone # a} \cup (IF z = 0 THEN {} ELSE ObjRecs(zh[z], sh))
  BY <1>7, <1>9
<1>11. W = Replaced(V, a, z, ObjRecs(zh[z], sh))
  BY <1>3, <1>8, <1>10 DEF Replaced
<1> QED
  BY <1>2, <1>11 DEF V, W, ws
-----------------------------------------------------------------------------
(***************************************************************************)
(* What PutRecord and DropRecord build.                                    *)
(***************************************************************************)
LEMMA PutSliceCorrect ==
    ASSUME NEW a, NEW rec \in Entry, rec.zone = a,
           NEW s, s = <<>> \/ SliceOK(s, a, rec.key)
    PROVE  /\ SliceOK(PutSlice(s, rec), a, rec.key)
           /\ Range(PutSlice(s, rec)) = {e \in Range(s) : e.id # rec.id} \cup {rec}
<1> DEFINE hits == {i \in DOMAIN s : s[i].id = rec.id}
           u == PutSlice(s, rec)
<1>1. /\ s \in Seq(Entry) /\ Len(s) \in Nat /\ DOMAIN s = 1 .. Len(s)
      /\ \A i \in DOMAIN s : s[i].zone = a /\ s[i].key = rec.key
      /\ \A i, j \in DOMAIN s : s[i].id = s[j].id => i = j
  <2>1. CASE s = <<>>
    <3>1. s \in Seq(Entry) /\ Len(s) = 0 /\ DOMAIN s = {} /\ 1 .. 0 = {}
      BY <2>1
    <3> QED
      BY <3>1
  <2>2. CASE SliceOK(s, a, rec.key)
    BY <2>2 DEF SliceOK
  <2> QED
    BY <2>1, <2>2
<1>2. CASE hits = {}
  <2>1. u = Append(s, rec)
    BY <1>2 DEF PutSlice
  <2>2. IsSeq(s)
    BY <1>1, SeqIsSeq
  <2>3. /\ u \in Seq(Entry) /\ DOMAIN u = 1 .. Len(s) + 1
        /\ \A i \in DOMAIN s : u[i] = s[i]
        /\ u[Len(s) + 1] = rec /\ Range(u) = Range(s) \cup {rec}
    BY <1>1, <2>1, <2>2, AppendIsSeq
  <2>4. DOMAIN u = DOMAIN s \cup {Len(s) + 1}
    BY <1>1, <2>3
  <2>5. u # <<>>
    BY <1>1, <2>3
  <2>6. \A i \in DOMAIN s : s[i].id # rec.id
    BY <1>2
  <2> HIDE DEF u
  <2>7. \A e \in Range(s) : e.id # rec.id
    BY <2>6 DEF Range
  <2>8. SliceOK(u, a, rec.key)
    BY <1>1, <2>3, <2>4, <2>5, <2>6 DEF SliceOK
  <2> QED
    BY <2>3, <2>7, <2>8 DEF u
<1>3. CASE hits # {}
  <2>1. PICK h \in hits : TRUE
    BY <1>3
  <2>2. hits = {h} /\ h \in Nat
    BY <1>1, <2>1
  <2>3. (CHOOSE i \in hits : \A j \in hits : i <= j) = h
    BY <2>2
  <2>4. u = [s EXCEPT ![h] = rec]
    BY <1>3, <2>3 DEF PutSlice, ReplaceAt
  <2>5. /\ u \in Seq(Entry) /\ DOMAIN u = DOMAIN s /\ u[h] = rec
        /\ \A i \in DOMAIN s \ {h} : u[i] = s[i]
    BY <1>1, <2>1, <2>4
  <2>6. h \in DOMAIN s /\ s[h].id = rec.id /\ \A i \in DOMAIN s \ {h} : s[i].id # rec.id
    BY <2>2
  <2>7. u # <<>>
    BY <1>1, <2>5, <2>6
  <2> HIDE DEF u, hits
  <2>8. SliceOK(u, a, rec.key)
    BY <1>1, <2>5, <2>6, <2>7 DEF SliceOK
  <2>9. \A e : (\E i \in DOMAIN u : e = u[i])
               <=> ((\E i \in DOMAIN s : e = s[i]) /\ e.id # rec.id) \/ e = rec
    BY <2>5, <2>6
  <2>10. Range(u) = {e \in Range(s) : e.id # rec.id} \cup {rec}
    BY <2>9, SMTT(30) DEF Range
  <2> QED
    BY <2>8, <2>10 DEF u
<1> QED
  BY <1>2, <1>3

LEMMA RemoveAtCorrect ==
    ASSUME NEW a, NEW k, NEW s, SliceOK(s, a, k), NEW i \in DOMAIN s, Len(s) # 1
    PROVE  /\ SliceOK(RemoveAt(s, i), a, k)
           /\ Range(RemoveAt(s, i)) = Range(s) \ {s[i]}
<1> DEFINE u == RemoveAt(s, i)
           n == Len(s)
           at(j) == IF j < i THEN j ELSE j + 1
<1>1. /\ s \in Seq(Entry) /\ n \in Nat /\ DOMAIN s = 1 .. n /\ i \in 1 .. n /\ n > 1
      /\ \A j \in DOMAIN s : s[j].zone = a /\ s[j].key = k
      /\ \A j, l \in DOMAIN s : s[j].id = s[l].id => j = l
  BY DEF SliceOK
<1>2. /\ u \in Seq(Entry) /\ DOMAIN u = 1 .. n - 1 /\ Len(u) = n - 1
      /\ \A j \in 1 .. n - 1 : u[j] = s[at(j)]
  <2> DEFINE f == SubSeq(s, 1, i - 1)
             g == SubSeq(s, i + 1, n)
  <2>a. f \in Seq(Entry) /\ Len(f) = i - 1 /\ \A j \in 1 .. i - 1 : f[j] = s[j]
    <3>1. /\ f \in Seq(Entry)
          /\ Len(f) = IF 1 <= i - 1 THEN (i - 1) - 1 + 1 ELSE 0
          /\ \A j \in 1 .. (i - 1) - 1 + 1 : f[j] = s[1 + j - 1]
      BY <1>1, SubSeqProperties
    <3> QED
      BY <1>1, <3>1
  <2>b. g \in Seq(Entry) /\ Len(g) = n - i /\ \A j \in 1 .. n - i : g[j] = s[i + j]
    <3>1. /\ g \in Seq(Entry)
          /\ Len(g) = IF i + 1 <= n THEN n - (i + 1) + 1 ELSE 0
          /\ \A j \in 1 .. n - (i + 1) + 1 : g[j] = s[(i + 1) + j - 1]
      BY <1>1, SubSeqProperties, SMTT(30)
    <3> QED
      BY <1>1, <3>1, SMTT(30)
  <2>1. /\ f \in Seq(Entry) /\ Len(f) = i - 1 /\ \A j \in 1 .. i - 1 : f[j] = s[j]
        /\ g \in Seq(Entry) /\ Len(g) = n - i /\ \A j \in 1 .. n - i : g[j] = s[i + j]
    BY <2>a, <2>b
  <2>2. u = f \o g
    BY DEF RemoveAt
  <2> HIDE DEF f, g, u
  <2>3. /\ u \in Seq(Entry) /\ Len(u) = n - 1 /\ DOMAIN u = 1 .. n - 1
        /\ \A j \in 1 .. n - 1 : u[j] = IF j <= i - 1 THEN f[j] ELSE g[j - (i - 1)]
    <3>1. /\ u \in Seq(Entry) /\ Len(u) = Len(f) + Len(g)
          /\ \A j \in 1 .. Len(f) + Len(g) : u[j] = IF j <= Len(f) THEN f[j] ELSE g[j - Len(f)]
      BY <2>1, <2>2, ConcatProperties
    <3>2. Len(f) + Len(g) = n - 1
      BY <1>1, <2>1
    <3> QED
      BY <2>1, <3>1, <3>2
  <2>4. ASSUME NEW j \in 1 .. n - 1 PROVE u[j] = s[at(j)]
    <3>1. CASE j < i
      BY <1>1, <2>1, <2>3, <3>1
    <3>2. CASE ~(j < i)
      <4>1. j - (i - 1) \in 1 .. n - i /\ i + (j - (i - 1)) = j + 1
        BY <1>1, <3>2
      <4>2. at(j) = j + 1 /\ u[j] = g[j - (i - 1)]
        BY <1>1, <2>3, <3>2
      <4>3. g[j - (i - 1)] = s[i + (j - (i - 1))]
        BY <2>1, <4>1
      <4> QED
        BY <4>1, <4>2, <4>3
    <3> QED
      BY <3>1, <3>2
  <2> QED
    BY <2>3, <2>4
<1> HIDE DEF u, n
<1>3. /\ \A j \in 1 .. n - 1 : at(j) \in (1 .. n) \ {i}
      /\ \A j, l \in 1 .. n - 1 : at(j) = at(l) => j = l
      /\ \A l \in (1 .. n) \ {i} : \E j \in 1 .. n - 1 : at(j) = l
  <2>1. \A j \in 1 .. n - 1 : at(j) \in (1 .. n) \ {i}
    BY <1>1
  <2>2. \A j, l \in 1 .. n - 1 : at(j) = at(l) => j = l
    BY <1>1
  <2>3. ASSUME NEW l \in (1 .. n) \ {i} PROVE \E j \in 1 .. n - 1 : at(j) = l
    <3>1. CASE l < i
      BY <1>1, <3>1
    <3>2. CASE ~(l < i)
      <4>1. l - 1 \in 1 .. n - 1 /\ at(l - 1) = l
        BY <1>1, <3>2
      <4> QED
        BY <4>1
    <3> QED
      BY <3>1, <3>2
  <2> QED
    BY <2>1, <2>2, <2>3
<1> HIDE DEF at
<1>4. u # <<>>
  BY <1>1, <1>2
<1>5. SliceOK(u, a, k)
  <2>1. ASSUME NEW j \in DOMAIN u
        PROVE  j \in 1 .. n - 1 /\ u[j] = s[at(j)] /\ at(j) \in DOMAIN s
    BY <1>1, <1>2, <1>3
  <2>2. \A j \in DOMAIN u : u[j].zone = a /\ u[j].key = k
    BY <1>1, <2>1
  <2>3. ASSUME NEW j \in DOMAIN u, NEW l \in DOMAIN u, u[j].id = u[l].id PROVE j = l
    <3>1. at(j) = at(l)
      BY <1>1, <2>1, <2>3
    <3> QED
      BY <1>3, <2>1, <3>1
  <2> QED
    BY <1>2, <1>4, <2>2, <2>3 DEF SliceOK
<1>6. \A e : (\E j \in DOMAIN u : e = u[j]) <=> (\E j \in (1 .. n) \ {i} : e = s[j])
  BY <1>2, <1>3
<1>7. \A e : (\E j \in (1 .. n) \ {i} : e = s[j]) <=> ((\E j \in DOMAIN s : e = s[j]) /\ e # s[i])
  BY <1>1
<1>8. Range(u) = Range(s) \ {s[i]}
  BY <1>6, <1>7 DEF Range
<1> QED
  BY <1>5, <1>8 DEF u

\* A Zone in which the slice of key k, old or not there, gave way to slice n.
LEMMA ReplaceSlice ==
    ASSUME NEW o, NEW sh, NEW sh1, ZoneOK(o, sh), Grows(sh, sh1), NEW k \in Keys,
           NEW n \in DOMAIN sh1, SliceOK(sh1[n], o.name, k), NEW f,
           DOMAIN f = DOMAIN o.recs \cup {k}, f[k] = n,
           \A x \in DOMAIN o.recs \ {k} : f[x] = o.recs[x]
    PROVE  LET o1 == [name |-> o.name, recs |-> f]
           IN /\ ZoneOK(o1, sh1)
              /\ ObjRecs(o1, sh1) = {e \in ObjRecs(o, sh) : e.key # k} \cup Range(sh1[n])
<1> DEFINE o1 == [name |-> o.name, recs |-> f]
<1>1. o1.name = o.name /\ o1.recs = f
  OBVIOUS
<1> HIDE DEF o1
<1>2. \A x \in DOMAIN o.recs : o.recs[x] \in DOMAIN sh /\ SliceOK(sh[o.recs[x]], o.name, x)
  BY DEF ZoneOK
<1>3. \A x \in DOMAIN o.recs \ {k} : /\ f[x] \in DOMAIN sh1
                                      /\ sh1[f[x]] = sh[o.recs[x]]
                                      /\ SliceOK(sh1[f[x]], o.name, x)
  BY <1>2 DEF Grows
<1>4. ZoneOK(o1, sh1)
  BY <1>1, <1>3 DEF ZoneOK
<1>5. ASSUME NEW e
      PROVE  e \in ObjRecs(o1, sh1)
               <=> (e \in ObjRecs(o, sh) /\ e.key # k) \/ e \in Range(sh1[n])
  <2>1. e \in ObjRecs(o1, sh1) <=> \E x \in DOMAIN f : e \in Range(sh1[f[x]])
    BY <1>1, ObjMember
  <2>2. e \in ObjRecs(o, sh) <=> \E x \in DOMAIN o.recs : e \in Range(sh[o.recs[x]])
    BY ObjMember
  <2>3. \A x \in DOMAIN o.recs : e \in Range(sh[o.recs[x]]) => e.key = x
    BY SliceMembers
  <2> QED
    BY <1>3, <2>1, <2>2, <2>3
<1> QED
  BY <1>4, <1>5 DEF o1

LEMMA RemoveKey ==
    ASSUME NEW o, NEW sh, ZoneOK(o, sh), NEW k
    PROVE  LET o1 == [name |-> o.name, recs |-> Restrict(o.recs, DOMAIN o.recs \ {k})]
           IN /\ ZoneOK(o1, sh)
              /\ ObjRecs(o1, sh) = {e \in ObjRecs(o, sh) : e.key # k}
<1> DEFINE f == Restrict(o.recs, DOMAIN o.recs \ {k})
           o1 == [name |-> o.name, recs |-> f]
<1>1. o1.name = o.name /\ o1.recs = f
  OBVIOUS
<1>2. DOMAIN f = DOMAIN o.recs \ {k} /\ \A x \in DOMAIN f : f[x] = o.recs[x]
  BY DEF Restrict
<1> HIDE DEF o1, f
<1>3. ZoneOK(o1, sh)
  BY <1>1, <1>2 DEF ZoneOK
<1>4. ASSUME NEW e
      PROVE  e \in ObjRecs(o1, sh) <=> e \in ObjRecs(o, sh) /\ e.key # k
  <2>1. e \in ObjRecs(o1, sh) <=> \E x \in DOMAIN f : e \in Range(sh[f[x]])
    BY <1>1, ObjMember
  <2>2. e \in ObjRecs(o, sh) <=> \E x \in DOMAIN o.recs : e \in Range(sh[o.recs[x]])
    BY ObjMember
  <2>3. \A x \in DOMAIN o.recs : e \in Range(sh[o.recs[x]]) => e.key = x
    BY SliceMembers
  <2> QED
    BY <1>2, <2>1, <2>2, <2>3
<1> QED
  BY <1>3, <1>4 DEF o1, f
-----------------------------------------------------------------------------
(***************************************************************************)
(* The invariant of the store: the heap is in order; a call has the        *)
(* arguments of its operation; a call under way, or that wrote, has no     *)
(* result; a writer that has built a Zone holds the lock, and what it      *)
(* built is what its operation makes of the value the store has now.       *)
(***************************************************************************)
Value == ValueOf(zones, zoneHeap, sliceHeap)

Writing == {"Update", "Delete", "PutRecord", "DropRecord"}

CallOK(c) ==
    /\ c.op \in {"none", "FindZone", "Lookup", "Snapshot"} \cup Writing
    /\ c.op \in Writing => c.zone \in Apexes
    /\ c.op = "Update" => c.arg = {}
    /\ c.op = "PutRecord" => c.arg \in Entry /\ c.arg.zone = c.zone
    /\ c.op = "FindZone" => c.arg \in Names
    /\ c.op = "Lookup" => c.arg \in Keys

Built(c, R, v) ==
    \/ /\ c.op = "PutRecord"
       /\ R = {e \in v.recs : e.zone = c.zone /\ (e.key # c.arg.key \/ e.id # c.arg.id)}
                 \cup {c.arg}
    \/ /\ c.op = "DropRecord"
       /\ \E e \in Copies(v, c.zone, c.arg) : R = {x \in v.recs : x.zone = c.zone} \ {e}

RetOK(c, R, zh, sh) ==
    R \subseteq (IF c.op = "Lookup" THEN DOMAIN sh ELSE DOMAIN zh)

ProcOK(p) ==
    /\ CallOK(calls[p])
    /\ pc[p] # "idle" => calls[p].op # "none"
    /\ pc[p] # "idle" \/ calls[p].op \in Writing \cup {"none"} => ret[p] = {}
    /\ RetOK(calls[p], ret[p], zoneHeap, sliceHeap)
    /\ pc[p] = "publish" =>
          /\ mu = {p} /\ fresh[p] # 0
          /\ zoneHeap[fresh[p]].name = calls[p].zone
          /\ Built(calls[p], ObjRecs(zoneHeap[fresh[p]], sliceHeap), Value)

MapTypes ==
    /\ DOMAIN calls = Procs /\ DOMAIN ret = Procs
    /\ pc \in [Procs -> {"idle", "called", "publish"}]
    /\ fresh \in [Procs -> 0 .. Len(zoneHeap)]

MapInv ==
    /\ StoreOK(zones, zoneHeap, sliceHeap)
    /\ MapTypes
    /\ \A p \in Procs : ProcOK(p)
    /\ mu = {} \/ \E p \in Procs : mu = {p} /\ pc[p] = "publish"
-----------------------------------------------------------------------------
(***************************************************************************)
(* The refinement mapping.                                                 *)
(***************************************************************************)
ResOf(c, R, zh, sh) ==
    IF c.op = "Lookup" THEN UNION {Range(sh[s]) : s \in R}
    ELSE {[apex |-> zh[z].name, recs |-> ObjRecs(zh[z], sh)] : z \in R}

Phase(c, at) == IF c.op = "none" THEN "idle" ELSE IF at = "idle" THEN "done" ELSE "called"

LEMMA Mapped ==
    /\ StoreValue = Value /\ StoreValue' = Value'
    /\ PhaseOf = [p \in Procs |-> Phase(calls[p], pc[p])]
    /\ PhaseOf' = [p \in Procs |-> Phase(calls'[p], pc'[p])]
    /\ ResultOf = [p \in Procs |-> ResOf(calls[p], ret[p], zoneHeap, sliceHeap)]
    /\ ResultOf' = [p \in Procs |-> ResOf(calls'[p], ret'[p], zoneHeap', sliceHeap')]
<1>1. StoreValue = Value /\ StoreValue' = Value'
  BY DEF StoreValue, Value, ValueOf, Present, PresentIn, ZoneRecs, ObjRecs
<1>2. /\ PhaseOf = [p \in Procs |-> Phase(calls[p], pc[p])]
      /\ PhaseOf' = [p \in Procs |-> Phase(calls'[p], pc'[p])]
  BY DEF PhaseOf, Phase
<1>3. /\ ResultOf = [p \in Procs |-> ResOf(calls[p], ret[p], zoneHeap, sliceHeap)]
      /\ ResultOf' = [p \in Procs |-> ResOf(calls'[p], ret'[p], zoneHeap', sliceHeap')]
  BY DEF ResultOf, ResOf, ZoneRecs, ObjRecs
<1> QED
  BY <1>1, <1>2, <1>3

\* What a reader holds does not change while the heap grows.
LEMMA ResGrows ==
    ASSUME NEW c, NEW R, NEW zh, NEW sh, NEW zh1, NEW sh1, HeapOK(zh, sh),
           Grows(zh, zh1), Grows(sh, sh1), RetOK(c, R, zh, sh)
    PROVE  ResOf(c, R, zh1, sh1) = ResOf(c, R, zh, sh) /\ RetOK(c, R, zh1, sh1)
<1>1. RetOK(c, R, zh1, sh1)
  BY DEF RetOK, Grows
<1>2. CASE c.op = "Lookup"
  <2>1. \A s \in R : sh1[s] = sh[s]
    BY <1>2 DEF RetOK, Grows
  <2> QED
    BY <1>1, <1>2, <2>1 DEF ResOf
<1>3. CASE c.op # "Lookup"
  <2>1. ASSUME NEW z \in R
        PROVE  zh1[z] = zh[z] /\ ObjRecs(zh1[z], sh1) = ObjRecs(zh[z], sh)
    <3>1. z \in DOMAIN zh
      BY <1>3 DEF RetOK
    <3>2. ZoneOK(zh[z], sh) /\ zh1[z] = zh[z]
      BY <3>1 DEF HeapOK, Grows
    <3> QED
      BY <3>2, GrowsKeeps
  <2> QED
    BY <1>1, <1>3, <2>1 DEF ResOf
<1> QED
  BY <1>2, <1>3

LEMMA NoResult ==
    ASSUME NEW c, NEW zh, NEW sh PROVE ResOf(c, {}, zh, sh) = {}
BY DEF ResOf

LEMMA GrowsItself == \A h : Grows(h, h)
BY DEF Grows

LEMMA GrowsAppend ==
    ASSUME NEW h, IsSeq(h), NEW e PROVE Grows(h, Append(h, e))
BY AppendIsSeq, IsSeqFacts DEF Grows

\* The phases and results of the goroutines that did nothing.
Others(p) ==
    \A r \in Procs \ {p} : /\ calls'[r] = calls[r] /\ ret'[r] = ret[r]
                           /\ pc'[r] = pc[r] /\ fresh'[r] = fresh[r]

HeapGrows == Grows(zoneHeap, zoneHeap') /\ Grows(sliceHeap, sliceHeap')

LEMMA OtherKeeps ==
    ASSUME MapInv, NEW r \in Procs, HeapGrows,
           calls'[r] = calls[r], ret'[r] = ret[r], pc'[r] = pc[r], fresh'[r] = fresh[r],
           pc[r] = "publish" => mu' = mu /\ Value' = Value
    PROVE  ProcOK(r)'
<1>1. HeapOK(zoneHeap, sliceHeap) /\ ProcOK(r)
  BY DEF MapInv, StoreOK
<1>2. RetOK(calls[r], ret[r], zoneHeap', sliceHeap')
  BY <1>1, ResGrows DEF ProcOK, HeapGrows
<1>3. ASSUME pc[r] = "publish"
      PROVE  /\ zoneHeap'[fresh[r]] = zoneHeap[fresh[r]]
             /\ ObjRecs(zoneHeap'[fresh[r]], sliceHeap')
                  = ObjRecs(zoneHeap[fresh[r]], sliceHeap)
  <2>1. fresh[r] \in 0 .. Len(zoneHeap) /\ fresh[r] # 0
    BY <1>1, <1>3 DEF MapInv, MapTypes, ProcOK
  <2>2. fresh[r] \in DOMAIN zoneHeap
    BY <1>1, <2>1, IsSeqFacts DEF HeapOK
  <2>3. ZoneOK(zoneHeap[fresh[r]], sliceHeap) /\ zoneHeap'[fresh[r]] = zoneHeap[fresh[r]]
    BY <1>1, <2>2 DEF HeapOK, HeapGrows, Grows
  <2> QED
    BY <2>3, GrowsKeeps DEF HeapGrows
<1> QED
  BY <1>1, <1>2, <1>3 DEF ProcOK

LEMMA Unlocked ==
    ASSUME MapInv, mu = {} PROVE \A r \in Procs : pc[r] # "publish"
BY DEF MapInv, ProcOK

\* The goroutines that did nothing have the phases and results they had.
LEMMA OthersSame ==
    ASSUME MapInv, NEW p, Others(p), HeapGrows
    PROVE  \A r \in Procs \ {p} :
             /\ Phase(calls'[r], pc'[r]) = Phase(calls[r], pc[r])
             /\ ResOf(calls'[r], ret'[r], zoneHeap', sliceHeap')
                  = ResOf(calls[r], ret[r], zoneHeap, sliceHeap)
<1> SUFFICES ASSUME NEW r \in Procs \ {p}
             PROVE  /\ Phase(calls'[r], pc'[r]) = Phase(calls[r], pc[r])
                    /\ ResOf(calls'[r], ret'[r], zoneHeap', sliceHeap')
                         = ResOf(calls[r], ret[r], zoneHeap, sliceHeap)
  OBVIOUS
<1>1. calls'[r] = calls[r] /\ ret'[r] = ret[r] /\ pc'[r] = pc[r]
  BY DEF Others
<1>2. HeapOK(zoneHeap, sliceHeap) /\ RetOK(calls[r], ret[r], zoneHeap, sliceHeap)
  BY DEF MapInv, StoreOK, ProcOK
<1>3. ResOf(calls[r], ret[r], zoneHeap', sliceHeap') = ResOf(calls[r], ret[r], zoneHeap, sliceHeap)
  BY <1>2, ResGrows DEF HeapGrows
<1> QED
  BY <1>1, <1>3

LEMMA RefCall ==
    ASSUME MapInv, NEW p \in Procs, NEW c, Call(p, c), c.op # "none"
    PROVE  Promise!Call(p)
<1>1. /\ pc[p] = "idle" /\ pc'[p] = "called" /\ calls'[p] = c /\ ret'[p] = {}
      /\ Others(p) /\ Value' = Value /\ UNCHANGED <<zoneHeap, sliceHeap>>
  BY DEF Call, heap, Others, MapInv, MapTypes, Value
<1>2. HeapGrows
  BY <1>1, GrowsItself DEF HeapGrows
<1>3. Phase(calls[p], pc[p]) # "called" /\ Phase(calls'[p], pc'[p]) = "called"
  BY <1>1 DEF Phase
<1>4. ResOf(calls'[p], ret'[p], zoneHeap', sliceHeap') = {}
  BY <1>1, NoResult
<1>5. PhaseOf[p] # "called" /\ PhaseOf' = [PhaseOf EXCEPT ![p] = "called"]
  BY <1>1, <1>2, <1>3, Mapped, OthersSame
<1>6. ResultOf' = [ResultOf EXCEPT ![p] = {}]
  BY <1>1, <1>2, <1>4, Mapped, OthersSame
<1>7. \A r \in Procs \ {p} : calls'[r] = calls[r]
  BY <1>1 DEF Others
<1>8. UNCHANGED StoreValue
  BY <1>1, Mapped
<1> QED
  BY <1>5, <1>6, <1>7, <1>8 DEF Promise!Call

LEMMA RefEffect ==
    ASSUME MapInv, NEW p \in Procs, pc[p] # "idle", pc'[p] = "idle", UNCHANGED calls,
           Others(p), HeapGrows, NEW R, R = ResOf(calls[p], ret'[p], zoneHeap', sliceHeap'),
           <<Value', R>> \in Promise!Outcomes(calls[p], Value)
    PROVE  Promise!Effect(p)
<1>1. calls[p].op # "none"
  BY DEF MapInv, ProcOK
<1>2. Phase(calls[p], pc[p]) = "called" /\ Phase(calls'[p], pc'[p]) = "done"
  BY <1>1 DEF Phase
<1>3. PhaseOf[p] = "called" /\ PhaseOf' = [PhaseOf EXCEPT ![p] = "done"]
  BY <1>2, Mapped, OthersSame
<1>4. ResultOf' = [ResultOf EXCEPT ![p] = R]
  BY Mapped, OthersSame
<1>5. <<Value', R>>[1] = StoreValue' /\ <<Value', R>>[2] = R
  BY Mapped
<1>6. <<Value', R>> \in Promise!Outcomes(calls[p], StoreValue)
  BY Mapped
<1> QED
  BY <1>3, <1>4, <1>5, <1>6 DEF Promise!Effect

absVars == <<StoreValue, calls, PhaseOf, ResultOf>>

LEMMA RefStutter ==
    ASSUME MapInv, NEW p \in Procs, pc[p] # "idle", pc'[p] # "idle", UNCHANGED <<calls, ret>>,
           Others(p), HeapGrows, Value' = Value
    PROVE  UNCHANGED absVars
<1>1. calls[p].op # "none" /\ ret[p] = {}
  BY DEF MapInv, ProcOK
<1>2. Phase(calls[p], pc[p]) = Phase(calls'[p], pc'[p])
  BY <1>1 DEF Phase
<1>3. ResOf(calls'[p], ret'[p], zoneHeap', sliceHeap') = ResOf(calls[p], ret[p], zoneHeap, sliceHeap)
  BY <1>1, NoResult
<1>4. UNCHANGED <<PhaseOf, ResultOf>>
  BY <1>2, <1>3, Mapped, OthersSame
<1> QED
  BY <1>4, Mapped DEF absVars

LEMMA RefSame ==
    ASSUME UNCHANGED mapVars PROVE UNCHANGED absVars
BY Mapped DEF absVars, mapVars, Value
-----------------------------------------------------------------------------
(***************************************************************************)
(* The calls of the store: each keeps the invariant, and is an effect of   *)
(* the abstract store or a stutter.                                        *)
(***************************************************************************)
LEMMA SliceAppend ==
    ASSUME NEW zh, NEW sh, HeapOK(zh, sh), NEW s \in Seq(Entry), s # <<>>
    PROVE  HeapOK(zh, Append(sh, s)) /\ Grows(sh, Append(sh, s))
<1> DEFINE sh1 == Append(sh, s)
<1>1. Grows(sh, sh1)
  BY GrowsAppend DEF HeapOK
<1>2. /\ IsSeq(sh1) /\ DOMAIN sh1 = 1 .. Len(sh) + 1 /\ sh1[Len(sh) + 1] = s
      /\ \A i \in DOMAIN sh : sh1[i] = sh[i]
      /\ DOMAIN sh = 1 .. Len(sh) /\ Len(sh) \in Nat
  BY AppendIsSeq, IsSeqFacts DEF HeapOK
<1>3. DOMAIN sh1 = DOMAIN sh \cup {Len(sh) + 1}
  BY <1>2
<1> HIDE DEF sh1
<1>4. \A z \in DOMAIN zh : ZoneOK(zh[z], sh1)
  BY <1>1, GrowsKeeps DEF HeapOK
<1>5. HeapOK(zh, sh1)
  BY <1>2, <1>3, <1>4 DEF HeapOK
<1> QED
  BY <1>1, <1>5 DEF sh1

LEMMA ZoneAppend ==
    ASSUME NEW zh, NEW sh, HeapOK(zh, sh), NEW o, ZoneOK(o, sh)
    PROVE  /\ HeapOK(Append(zh, o), sh) /\ Grows(zh, Append(zh, o))
           /\ Len(Append(zh, o)) = Len(zh) + 1 /\ Len(zh) \in Nat
           /\ Append(zh, o)[Len(zh) + 1] = o
<1> DEFINE zh1 == Append(zh, o)
<1>1. Grows(zh, zh1)
  BY GrowsAppend DEF HeapOK
<1>2. /\ IsSeq(zh1) /\ DOMAIN zh1 = 1 .. Len(zh) + 1 /\ zh1[Len(zh) + 1] = o
      /\ \A i \in DOMAIN zh : zh1[i] = zh[i] /\ Len(zh1) = Len(zh) + 1
      /\ DOMAIN zh = 1 .. Len(zh) /\ Len(zh) \in Nat
  BY AppendIsSeq, IsSeqFacts DEF HeapOK
<1>3. DOMAIN zh1 = DOMAIN zh \cup {Len(zh) + 1}
  BY <1>2
<1>a. Len(zh1) = Len(zh) + 1
  BY AppendIsSeq DEF HeapOK
<1> HIDE DEF zh1
<1>4. HeapOK(zh1, sh)
  BY <1>2, <1>3 DEF HeapOK
<1> QED
  BY <1>1, <1>2, <1>a, <1>4 DEF zh1

LEMMA StepKeeps ==
    ASSUME MapInv, NEW p \in Procs, mu \subseteq {p}, HeapGrows, Others(p),
           StoreOK(zones', zoneHeap', sliceHeap'), MapTypes', ProcOK(p)',
           mu' = {} \/ (mu' = {p} /\ pc'[p] = "publish")
    PROVE  MapInv'
<1>1. ASSUME NEW r \in Procs \ {p} PROVE ProcOK(r)'
  <2>1. pc[r] # "publish"
    BY DEF MapInv, ProcOK
  <2>2. calls'[r] = calls[r] /\ ret'[r] = ret[r] /\ pc'[r] = pc[r] /\ fresh'[r] = fresh[r]
    BY DEF Others
  <2> QED
    BY <2>1, <2>2, OtherKeeps
<1>2. \A r \in Procs : ProcOK(r)'
  BY <1>1
<1> QED
  BY <1>2 DEF MapInv

\* A call is made.
LEMMA CallKeeps ==
    ASSUME MapInv, NEW p \in Procs, NEW c, Call(p, c), CallOK(c), c.op # "none"
    PROVE  MapInv'
<1>1. /\ pc[p] = "idle" /\ pc'[p] = "called" /\ calls'[p] = c /\ ret'[p] = {} /\ MapTypes'
      /\ Others(p) /\ Value' = Value /\ UNCHANGED <<zones, zoneHeap, sliceHeap, mu, fresh>>
  BY DEF Call, heap, Others, MapInv, MapTypes, Value
<1>2. HeapGrows
  BY <1>1, GrowsItself DEF HeapGrows
<1>3. ProcOK(p)'
  BY <1>1 DEF ProcOK, RetOK
<1>4. ASSUME NEW r \in Procs \ {p} PROVE ProcOK(r)'
  <2>1. calls'[r] = calls[r] /\ ret'[r] = ret[r] /\ pc'[r] = pc[r] /\ fresh'[r] = fresh[r]
    BY <1>1 DEF Others
  <2> QED
    BY <1>1, <1>2, <2>1, OtherKeeps
<1>5. \A r \in Procs : ProcOK(r)'
  BY <1>3, <1>4
<1>6. mu' = {} \/ \E r \in Procs : mu' = {r} /\ pc'[r] = "publish"
  BY <1>1 DEF MapInv, Others
<1> QED
  BY <1>1, <1>5, <1>6 DEF MapInv

\* The last statement of a writer without a lock that others could see.
LEMMA WriteKeeps ==
    ASSUME MapInv, NEW p \in Procs, mu \subseteq {p}, mu' = {}, HeapGrows,
           HeapOK(zoneHeap', sliceHeap'), Len(zoneHeap) <= Len(zoneHeap'), Len(zoneHeap') \in Nat,
           Len(zoneHeap) \in Nat,
           NEW z \in 0 .. Len(zoneHeap'), SetZone(p, z), calls[p].op \in Writing,
           z # 0 => zoneHeap'[z].name = calls[p].zone,
           UNCHANGED <<calls, fresh, ret>>, pc[p] # "idle"
    PROVE  /\ MapInv' /\ Others(p) /\ pc'[p] = "idle" /\ ret'[p] = {}
           /\ Value' = Replaced(Value, calls[p].zone, z, ObjRecs(zoneHeap'[z], sliceHeap'))
<1> DEFINE a == calls[p].zone
<1>1. CallOK(calls[p]) /\ a \in Apexes /\ ret[p] = {}
  BY DEF MapInv, ProcOK, CallOK
<1>2. /\ StoreOK(zones, zoneHeap', sliceHeap')
      /\ ValueOf(zones, zoneHeap', sliceHeap') = Value
  BY ValueGrows DEF MapInv, HeapGrows, Value
<1>3. zones' = [zones EXCEPT ![a] = z] /\ pc' = [pc EXCEPT ![p] = "idle"]
  BY DEF SetZone
<1>4. /\ StoreOK(zones', zoneHeap', sliceHeap')
      /\ Value' = Replaced(Value, a, z, ObjRecs(zoneHeap'[z], sliceHeap'))
  <2> DEFINE zh == zoneHeap'
             sh == sliceHeap'
             ws == [zones EXCEPT ![a] = z]
  <2>1. /\ StoreOK(zones, zh, sh) /\ a \in Apexes /\ z \in 0 .. Len(zh)
        /\ (z # 0 => zh[z].name = a)
    BY <1>1, <1>2
  <2> HIDE DEF zh, sh, a
  <2>2. StoreOK(ws, zh, sh)
    BY <2>1, ValueSet
  <2>3. ValueOf(ws, zh, sh) = Replaced(ValueOf(zones, zh, sh), a, z, ObjRecs(zh[z], sh))
    BY <2>1, ValueSet
  <2> QED
    BY <1>2, <1>3, <2>2, <2>3 DEF Value, zh, sh
<1>5. MapTypes' /\ Others(p) /\ pc'[p] = "idle"
  BY <1>3 DEF MapInv, MapTypes, Others
<1>6. ProcOK(p)'
  BY <1>1, <1>5 DEF ProcOK, RetOK
<1> QED
  BY <1>1, <1>4, <1>5, <1>6, StepKeeps

LEMMA HeapStays ==
    ASSUME MapInv, UNCHANGED heap
    PROVE  /\ HeapGrows /\ HeapOK(zoneHeap', sliceHeap') /\ Len(zoneHeap) \in Nat
           /\ DOMAIN zoneHeap = 1 .. Len(zoneHeap)
           /\ zoneHeap' = zoneHeap /\ sliceHeap' = sliceHeap
<1>1. zoneHeap' = zoneHeap /\ sliceHeap' = sliceHeap /\ HeapOK(zoneHeap, sliceHeap)
  BY DEF heap, MapInv, StoreOK
<1>2. Len(zoneHeap) \in Nat /\ DOMAIN zoneHeap = 1 .. Len(zoneHeap)
  BY <1>1, IsSeqFacts DEF HeapOK
<1>3. HeapGrows
  BY <1>1, GrowsItself DEF HeapGrows
<1> QED
  BY <1>1, <1>2, <1>3

LEMMA DeleteZoneStep ==
    ASSUME MapInv, NEW p \in Procs, DeleteZone(p)
    PROVE  MapInv' /\ Promise!Effect(p)
<1> DEFINE c == calls[p]
<1>1. /\ pc[p] = "called" /\ c.op = "Delete" /\ mu = {} /\ mu' = {} /\ SetZone(p, 0)
      /\ UNCHANGED heap /\ UNCHANGED <<calls, fresh, ret>>
  BY DEF DeleteZone, Called
<1>2. /\ HeapGrows /\ HeapOK(zoneHeap', sliceHeap') /\ Len(zoneHeap) \in Nat
      /\ zoneHeap' = zoneHeap /\ sliceHeap' = sliceHeap
  BY <1>1, HeapStays
<1>3. /\ MapInv' /\ Others(p) /\ pc'[p] = "idle" /\ ret'[p] = {}
      /\ Value' = Replaced(Value, c.zone, 0, ObjRecs(zoneHeap'[0], sliceHeap'))
  BY <1>1, <1>2, WriteKeeps DEF Writing
<1>4. Promise!Outcomes(c, Value) = {<<Promise!Delete(Value, c.zone), {}>>}
  BY <1>1 DEF Promise!Outcomes
<1>5. Value' = Promise!Delete(Value, c.zone)
  BY <1>3 DEF Replaced, Promise!Delete
<1>6. ResOf(c, ret'[p], zoneHeap', sliceHeap') = {}
  BY <1>3, NoResult
<1>7. <<Value', {}>> \in Promise!Outcomes(c, Value)
  BY <1>4, <1>5
<1> QED
  BY <1>1, <1>2, <1>3, <1>6, <1>7, RefEffect

\* createDomain's empty zone: no slices, and a Records map without keys.
LEMMA EmptySlices ==
    ASSUME NEW S, NEW h \in Seq(S), NEW n
    PROVE  LET ks == SetToSeq({e.key : e \in {}})
           IN h \o Slices({}, ks) = h /\ DOMAIN RecordMap(ks, n) = {}
<1> DEFINE K == {e.key : e \in {}}
           ks == SetToSeq(K)
<1>1. K = {} /\ IsFiniteSet({})
  BY FS_EmptySet
<1>2. ks \in Seq({})
  BY <1>1, SetToSeqCorrect
<1> HIDE DEF ks, K
<1>3. ks = <<>> /\ DOMAIN ks = {}
  BY <1>2
<1>4. Slices({}, ks) = <<>>
  <2>1. Slices({}, ks) = [i \in {} |-> SetToSeq({e \in {} : e.key = ks[i]})]
    BY <1>3 DEF Slices
  <2> QED
    BY <2>1
<1>5. h \o <<>> = h
  BY ConcatEmptySeq
<1>6. DOMAIN RecordMap(ks, n) = {}
  BY <1>3 DEF RecordMap, Range
<1> QED
  BY <1>4, <1>5, <1>6 DEF ks, K

LEMMA UpdateZoneStep ==
    ASSUME MapInv, NEW p \in Procs, UpdateZone(p)
    PROVE  MapInv' /\ Promise!Effect(p)
<1> DEFINE c == calls[p]
           recs == RecordMap(SetToSeq({e.key : e \in {}}), Len(sliceHeap))
           o == [name |-> c.zone, recs |-> recs]
           z == Len(zoneHeap) + 1
<1>1. /\ pc[p] = "called" /\ c.op = "Update" /\ mu = {} /\ mu' = {}
      /\ UNCHANGED <<calls, fresh, ret>>
  BY DEF UpdateZone, Called
<1>2. CallOK(c) /\ c.arg = {} /\ c.zone \in Apexes /\ HeapOK(zoneHeap, sliceHeap)
  BY <1>1 DEF MapInv, ProcOK, CallOK, StoreOK, Writing
<1>3. sliceHeap \in Seq(Range(sliceHeap))
  BY <1>2 DEF HeapOK, IsSeq
<1>4. /\ sliceHeap' = sliceHeap /\ zoneHeap' = Append(zoneHeap, o)
      /\ SetZone(p, Len(zoneHeap')) /\ DOMAIN recs = {}
  BY <1>2, <1>3, EmptySlices DEF UpdateZone
<1>5. ZoneOK(o, sliceHeap) /\ ObjRecs(o, sliceHeap) = {} /\ o.name = c.zone
  <2>1. o.name = c.zone /\ DOMAIN o.recs = {}
    BY <1>4
  <2> HIDE DEF o
  <2> QED
    BY <1>2, <2>1, ObjMember DEF ZoneOK
<1> HIDE DEF o
<1>6. /\ HeapOK(zoneHeap', sliceHeap') /\ Grows(zoneHeap, zoneHeap')
      /\ Len(zoneHeap') = z /\ Len(zoneHeap) \in Nat /\ zoneHeap'[z] = o
  BY <1>2, <1>4, <1>5, ZoneAppend
<1>7. HeapGrows
  BY <1>4, <1>6, GrowsItself DEF HeapGrows
<1>8. z \in 0 .. Len(zoneHeap') /\ z # 0 /\ Len(zoneHeap) <= Len(zoneHeap') /\ Len(zoneHeap') \in Nat
  BY <1>6
<1>9. SetZone(p, z)
  BY <1>4, <1>6
<1> HIDE DEF z
<1>10. /\ MapInv' /\ Others(p) /\ pc'[p] = "idle" /\ ret'[p] = {}
       /\ Value' = Replaced(Value, c.zone, z, ObjRecs(zoneHeap'[z], sliceHeap'))
  BY <1>1, <1>5, <1>6, <1>7, <1>8, <1>9, WriteKeeps DEF Writing
<1>11. ObjRecs(zoneHeap'[z], sliceHeap') = {}
  BY <1>4, <1>5, <1>6
<1>12. Promise!Outcomes(c, Value) = {<<Promise!Update(Value, c.zone, c.arg), {}>>}
  BY <1>1 DEF Promise!Outcomes
<1>13. Value' = Promise!Update(Value, c.zone, c.arg)
  BY <1>2, <1>8, <1>10, <1>11 DEF Replaced, Promise!Update
<1>14. ResOf(c, ret'[p], zoneHeap', sliceHeap') = {}
  BY <1>10, NoResult
<1>15. <<Value', {}>> \in Promise!Outcomes(c, Value)
  BY <1>12, <1>13
<1> QED
  BY <1>1, <1>7, <1>10, <1>14, <1>15, RefEffect

\* The Records map a writer starts from.
LEMMA OldZone ==
    ASSUME MapInv, NEW a \in Apexes
    PROVE  LET o == [name |-> a, recs |-> RecordsOf(zones[a])]
           IN ZoneOK(o, sliceHeap) /\ ObjRecs(o, sliceHeap) = {e \in Value.recs : e.zone = a}
<1> DEFINE o == [name |-> a, recs |-> RecordsOf(zones[a])]
<1>1. StoreOK(zones, zoneHeap, sliceHeap)
  BY DEF MapInv
<1>2. o.name = a /\ o.recs = RecordsOf(zones[a])
  OBVIOUS
<1> HIDE DEF o
<1>3. {e \in Value.recs : e.zone = a}
        = IF a \in PresentIn(zones) THEN ObjRecs(zoneHeap[zones[a]], sliceHeap) ELSE {}
  BY <1>1, ValueOfZone DEF Value
<1>4. CASE a \in PresentIn(zones)
  <2>1. o.recs = zoneHeap[zones[a]].recs
    BY <1>2, <1>4 DEF PresentIn, RecordsOf
  <2>2. ZoneOK(zoneHeap[zones[a]], sliceHeap) /\ zoneHeap[zones[a]].name = a
    BY <1>1, <1>4, PresentObj
  <2>3. ZoneOK(o, sliceHeap)
    BY <1>2, <2>1, <2>2 DEF ZoneOK
  <2>4. ObjRecs(o, sliceHeap) = ObjRecs(zoneHeap[zones[a]], sliceHeap)
    BY <2>1 DEF ObjRecs
  <2> QED
    BY <1>3, <1>4, <2>3, <2>4 DEF o
<1>5. CASE a \notin PresentIn(zones)
  <2>1. DOMAIN o.recs = {}
    BY <1>2, <1>5 DEF PresentIn, RecordsOf
  <2>2. ZoneOK(o, sliceHeap)
    BY <1>2, <2>1 DEF ZoneOK
  <2>3. ObjRecs(o, sliceHeap) = {}
    BY <2>1, ObjMember
  <2> QED
    BY <1>3, <1>5, <2>2, <2>3 DEF o
<1> QED
  BY <1>4, <1>5

\* A writer has built its Zone: nobody can see it yet.
LEMMA BuildStep ==
    ASSUME MapInv, NEW p \in Procs, pc[p] = "called", Acquire(p), NEW recs, Build(p, recs),
           HeapOK(zoneHeap, sliceHeap'), Grows(sliceHeap, sliceHeap'),
           NEW o, o = [name |-> calls[p].zone, recs |-> recs], ZoneOK(o, sliceHeap'),
           Built(calls[p], ObjRecs(o, sliceHeap'), Value)
    PROVE  MapInv' /\ UNCHANGED absVars
<1> DEFINE z == Len(zoneHeap) + 1
<1>1. /\ mu = {} /\ mu' = {p} /\ zoneHeap' = Append(zoneHeap, o)
      /\ fresh' = [fresh EXCEPT ![p] = Len(zoneHeap')]
      /\ pc' = [pc EXCEPT ![p] = "publish"] /\ UNCHANGED <<zones, calls, ret>>
  BY DEF Acquire, Build
<1>2. /\ HeapOK(zoneHeap', sliceHeap') /\ Grows(zoneHeap, zoneHeap')
      /\ Len(zoneHeap') = z /\ Len(zoneHeap) \in Nat /\ zoneHeap'[z] = o
  BY <1>1, ZoneAppend
<1>3. HeapGrows
  BY <1>2 DEF HeapGrows
<1>4. StoreOK(zones', zoneHeap', sliceHeap') /\ Value' = Value
  BY <1>1, <1>2, ValueGrows DEF MapInv, Value
<1>5. MapTypes'
  BY <1>1, <1>2 DEF MapInv, MapTypes
<1>6. Others(p) /\ pc'[p] = "publish" /\ fresh'[p] = z
  BY <1>1, <1>2 DEF Others, MapInv, MapTypes
<1>7. z # 0
  BY <1>2
<1> HIDE DEF z
<1>8. ProcOK(p) /\ calls'[p] = calls[p] /\ ret'[p] = ret[p]
  BY <1>1 DEF MapInv
<1>9. calls[p].op # "none" /\ ret[p] = {} /\ CallOK(calls[p])
  BY <1>8 DEF ProcOK
<1>10. RetOK(calls'[p], ret'[p], zoneHeap', sliceHeap')
  BY <1>8, <1>9 DEF RetOK
<1>11. o.name = calls[p].zone
  OBVIOUS
<1>12. ProcOK(p)'
  BY <1>1, <1>2, <1>4, <1>6, <1>7, <1>8, <1>9, <1>10, <1>11 DEF ProcOK
<1>13. MapInv'
  BY <1>1, <1>3, <1>4, <1>5, <1>6, <1>12, StepKeeps
<1>14. UNCHANGED absVars
  BY <1>1, <1>3, <1>4, <1>6, RefStutter
<1> QED
  BY <1>13, <1>14

LEMMA PutCopyStep ==
    ASSUME MapInv, NEW p \in Procs, PutCopy(p)
    PROVE  MapInv' /\ UNCHANGED absVars
<1> DEFINE c == calls[p]
           k == c.arg.key
           recs == RecordsOf(zones[c.zone])
           existing == IF k \in DOMAIN recs THEN sliceHeap[recs[k]] ELSE <<>>
           s == Len(sliceHeap) + 1
           new == PutSlice(existing, c.arg)
           f == [x \in DOMAIN recs \cup {k} |-> IF x = k THEN s ELSE recs[x]]
           o == [name |-> c.zone, recs |-> recs]
           o1 == [name |-> c.zone, recs |-> f]
<1>1. /\ pc[p] = "called" /\ c.op = "PutRecord" /\ Acquire(p)
      /\ sliceHeap' = Append(sliceHeap, new) /\ Build(p, f)
  BY DEF PutCopy, Called
<1>2. /\ c.zone \in Apexes /\ c.arg \in Entry /\ c.arg.zone = c.zone
      /\ HeapOK(zoneHeap, sliceHeap)
  BY <1>1 DEF MapInv, ProcOK, CallOK, StoreOK, Writing
<1>3. ZoneOK(o, sliceHeap) /\ ObjRecs(o, sliceHeap) = {e \in Value.recs : e.zone = c.zone}
  BY <1>2, OldZone
<1>4. k \in Keys
  BY <1>2 DEF Entry
<1>5. o.name = c.zone /\ o.recs = recs
  OBVIOUS
<1> HIDE DEF recs, o, k
<1>6. existing = <<>> \/ SliceOK(existing, c.zone, k)
  BY <1>3, <1>5 DEF ZoneOK
<1>7. SliceOK(new, c.zone, k) /\ Range(new) = {e \in Range(existing) : e.id # c.arg.id} \cup {c.arg}
  <2> HIDE DEF existing
  <2> QED
    BY <1>2, <1>6, PutSliceCorrect DEF k
<1>8. Range(existing) = {e \in ObjRecs(o, sliceHeap) : e.key = k}
  <2>1. {e \in ObjRecs(o, sliceHeap) : e.key = k}
          = IF k \in DOMAIN recs THEN Range(sliceHeap[recs[k]]) ELSE {}
    BY <1>3, <1>5, ObjKey
  <2>2. Range(<<>>) = {}
    BY DEF Range
  <2> QED
    BY <2>1, <2>2
<1> HIDE DEF existing, new
<1>9. HeapOK(zoneHeap, sliceHeap') /\ Grows(sliceHeap, sliceHeap')
  BY <1>1, <1>2, <1>7, SliceAppend DEF SliceOK
<1>10. s \in DOMAIN sliceHeap' /\ sliceHeap'[s] = new
  BY <1>1, <1>2, AppendIsSeq, IsSeqFacts DEF HeapOK
<1> HIDE DEF s
<1>11. /\ DOMAIN f = DOMAIN o.recs \cup {k} /\ f[k] = s
       /\ \A x \in DOMAIN o.recs \ {k} : f[x] = o.recs[x]
  BY <1>5
<1> HIDE DEF f
<1>12. /\ ZoneOK(o1, sliceHeap')
       /\ ObjRecs(o1, sliceHeap') = {e \in ObjRecs(o, sliceHeap) : e.key # k} \cup Range(sliceHeap'[s])
  BY <1>3, <1>4, <1>5, <1>7, <1>9, <1>10, <1>11, ReplaceSlice
<1> HIDE DEF o1
<1>13. ObjRecs(o1, sliceHeap')
         = {e \in Value.recs : e.zone = c.zone /\ (e.key # k \/ e.id # c.arg.id)} \cup {c.arg}
  BY <1>3, <1>7, <1>8, <1>10, <1>12
<1>14. Built(c, ObjRecs(o1, sliceHeap'), Value)
  BY <1>1, <1>13 DEF Built, k
<1> QED
  BY <1>1, <1>9, <1>12, <1>14, BuildStep DEF o1

LEMMA FoundPlace ==
    ASSUME NEW recs, NEW id, NEW f
    PROVE  f \in Found(recs, id) <=>
             \E k \in DOMAIN recs : \E i \in DOMAIN sliceHeap[recs[k]] :
                 /\ f = <<k, i>> /\ sliceHeap[recs[k]][i].id = id
                 /\ \A j \in 1 .. i - 1 : sliceHeap[recs[k]][j].id # id
BY DEF Found

LEMMA DropCopyStep ==
    ASSUME MapInv, NEW p \in Procs, DropCopy(p)
    PROVE  MapInv' /\ UNCHANGED absVars
<1> DEFINE c == calls[p]
           recs == RecordsOf(zones[c.zone])
           o == [name |-> c.zone, recs |-> recs]
<1>1. pc[p] = "called" /\ c.op = "DropRecord" /\ Acquire(p)
  BY DEF DropCopy, Called
<1>2. c.zone \in Apexes /\ HeapOK(zoneHeap, sliceHeap)
  BY <1>1 DEF MapInv, ProcOK, CallOK, StoreOK, Writing
<1>3. ZoneOK(o, sliceHeap) /\ ObjRecs(o, sliceHeap) = {e \in Value.recs : e.zone = c.zone}
  BY <1>2, OldZone
<1>4. o.name = c.zone /\ o.recs = recs
  OBVIOUS
<1>5. PICK f \in Found(recs, c.arg) :
           LET existing == sliceHeap[recs[f[1]]]
           IN IF Len(existing) = 1
              THEN /\ Build(p, Restrict(recs, DOMAIN recs \ {f[1]}))
                   /\ UNCHANGED sliceHeap
              ELSE /\ sliceHeap' = Append(sliceHeap, RemoveAt(existing, f[2]))
                   /\ Build(p, [recs EXCEPT ![f[1]] = Len(sliceHeap) + 1])
  BY DEF DropCopy
<1> HIDE DEF recs, o
<1>6. PICK k \in DOMAIN recs, i \in DOMAIN sliceHeap[recs[f[1]]] :
          f = <<k, i>> /\ sliceHeap[recs[k]][i].id = c.arg
  BY <1>5, FoundPlace
<1> DEFINE s == sliceHeap[recs[k]]
           e == s[i]
<1>7. f[1] = k /\ f[2] = i
  BY <1>6
<1>8. SliceOK(s, c.zone, k) /\ i \in DOMAIN s /\ e.id = c.arg
  BY <1>3, <1>4, <1>6, <1>7 DEF ZoneOK
<1>9. {x \in ObjRecs(o, sliceHeap) : x.key = k} = Range(s)
  BY <1>3, <1>4, <1>6, ObjKey
<1>10. e \in Range(s)
  BY <1>8 DEF Range
<1>11. k \in Keys
  BY <1>3, <1>4 DEF ZoneOK
<1> HIDE DEF s, e
<1>12. e \in Copies(Value, c.zone, c.arg)
  BY <1>3, <1>8, <1>9, <1>10 DEF Copies
<1>13. ASSUME NEW R, R = ObjRecs(o, sliceHeap) \ {e} PROVE Built(c, R, Value)
  BY <1>1, <1>3, <1>12, <1>13 DEF Built
<1>14. CASE Len(s) = 1
  <2> DEFINE g == Restrict(recs, DOMAIN recs \ {k})
             o1 == [name |-> c.zone, recs |-> g]
  <2>1. Build(p, g) /\ sliceHeap' = sliceHeap
    BY <1>5, <1>7, <1>14 DEF s
  <2>2. /\ ZoneOK(o1, sliceHeap)
        /\ ObjRecs(o1, sliceHeap) = {x \in ObjRecs(o, sliceHeap) : x.key # k}
    <3>1. LET o2 == [name |-> o.name, recs |-> Restrict(o.recs, DOMAIN o.recs \ {k})]
          IN /\ ZoneOK(o2, sliceHeap)
             /\ ObjRecs(o2, sliceHeap) = {x \in ObjRecs(o, sliceHeap) : x.key # k}
      BY <1>3, RemoveKey, SMTT(30)
    <3> QED
      BY <1>4, <3>1
  <2>3. Range(s) = {e}
    <3>1. s \in Seq(Entry) /\ DOMAIN s = {1}
      BY <1>8, <1>14 DEF SliceOK
    <3> QED
      BY <1>8, <3>1 DEF Range, e
  <2> HIDE DEF g, o1
  <2>4. ObjRecs(o1, sliceHeap) = ObjRecs(o, sliceHeap) \ {e}
    BY <1>9, <2>2, <2>3
  <2>5. Grows(sliceHeap, sliceHeap') /\ HeapOK(zoneHeap, sliceHeap')
    BY <1>2, <2>1, GrowsItself
  <2>6. Built(c, ObjRecs(o1, sliceHeap'), Value) /\ ZoneOK(o1, sliceHeap')
    BY <1>13, <2>1, <2>2, <2>4
  <2> QED
    BY <1>1, <2>1, <2>5, <2>6, BuildStep DEF o1
<1>15. CASE Len(s) # 1
  <2> DEFINE n == Len(sliceHeap) + 1
             g == [recs EXCEPT ![k] = n]
             o1 == [name |-> c.zone, recs |-> g]
             new == RemoveAt(s, i)
  <2>1. Build(p, g) /\ sliceHeap' = Append(sliceHeap, new)
    BY <1>5, <1>7, <1>15 DEF s
  <2>2. SliceOK(new, c.zone, k) /\ Range(new) = Range(s) \ {e}
    BY <1>8, <1>15, RemoveAtCorrect DEF e
  <2> HIDE DEF new
  <2>3. HeapOK(zoneHeap, sliceHeap') /\ Grows(sliceHeap, sliceHeap')
    BY <1>2, <2>1, <2>2, SliceAppend DEF SliceOK
  <2>4. n \in DOMAIN sliceHeap' /\ sliceHeap'[n] = new
    BY <1>2, <2>1, AppendIsSeq, IsSeqFacts DEF HeapOK
  <2> HIDE DEF n
  <2>5. /\ DOMAIN g = DOMAIN o.recs \cup {k} /\ g[k] = n
        /\ \A x \in DOMAIN o.recs \ {k} : g[x] = o.recs[x]
    BY <1>4, <1>6
  <2> HIDE DEF g
  <2>6. /\ ZoneOK(o1, sliceHeap')
        /\ ObjRecs(o1, sliceHeap') = {x \in ObjRecs(o, sliceHeap) : x.key # k} \cup Range(sliceHeap'[n])
    BY <1>3, <1>4, <1>11, <2>2, <2>3, <2>4, <2>5, ReplaceSlice
  <2> HIDE DEF o1
  <2>7. ObjRecs(o1, sliceHeap') = ObjRecs(o, sliceHeap) \ {e}
    BY <1>9, <1>10, <2>2, <2>4, <2>6
  <2>8. Built(c, ObjRecs(o1, sliceHeap'), Value)
    BY <1>13, <2>7
  <2> QED
    BY <1>1, <2>1, <2>3, <2>6, <2>8, BuildStep DEF o1
<1> QED
  BY <1>14, <1>15

LEMMA DropNothingStep ==
    ASSUME MapInv, NEW p \in Procs, DropNothing(p)
    PROVE  MapInv' /\ Promise!Effect(p)
<1> DEFINE c == calls[p]
           recs == RecordsOf(zones[c.zone])
           o == [name |-> c.zone, recs |-> recs]
<1>1. /\ pc[p] = "called" /\ c.op = "DropRecord" /\ mu = {} /\ mu' = {}
      /\ Found(recs, c.arg) = {} /\ pc' = [pc EXCEPT ![p] = "idle"]
      /\ UNCHANGED heap /\ UNCHANGED <<zones, calls, fresh, ret>>
  BY DEF DropNothing, Called
<1>2. /\ HeapGrows /\ HeapOK(zoneHeap', sliceHeap') /\ Len(zoneHeap) \in Nat
      /\ zoneHeap' = zoneHeap /\ sliceHeap' = sliceHeap
  BY <1>1, HeapStays
<1>3. StoreOK(zones', zoneHeap', sliceHeap') /\ MapTypes' /\ Others(p) /\ pc'[p] = "idle" /\ Value' = Value
  BY <1>1, <1>2 DEF MapInv, MapTypes, Others, Value
<1>4. c.zone \in Apexes /\ CallOK(c) /\ ret[p] = {}
  BY <1>1 DEF MapInv, ProcOK, CallOK, Writing
<1>5. ProcOK(p)'
  BY <1>1, <1>3, <1>4 DEF ProcOK, RetOK
<1>6. MapInv'
  BY <1>1, <1>2, <1>3, <1>5, StepKeeps
<1>7. Copies(Value, c.zone, c.arg) = {}
  <2> SUFFICES ASSUME NEW e \in Copies(Value, c.zone, c.arg) PROVE FALSE
    OBVIOUS
  <2>1. ZoneOK(o, sliceHeap) /\ ObjRecs(o, sliceHeap) = {x \in Value.recs : x.zone = c.zone}
    BY <1>4, OldZone
  <2>2. o.name = c.zone /\ o.recs = recs
    OBVIOUS
  <2> HIDE DEF o, recs
  <2>3. e \in ObjRecs(o, sliceHeap) /\ e.id = c.arg
    BY <2>1 DEF Copies
  <2>4. PICK k \in DOMAIN recs : e \in Range(sliceHeap[recs[k]])
    BY <2>2, <2>3, ObjMember
  <2>5. PICK i \in DOMAIN sliceHeap[recs[k]] : e = sliceHeap[recs[k]][i]
    BY <2>4 DEF Range
  <2>6. SliceOK(sliceHeap[recs[k]], c.zone, k)
    BY <2>1, <2>2, <2>4 DEF ZoneOK
  <2> DEFINE s == sliceHeap[recs[k]]
  <2> HIDE DEF s
  <2>7. /\ s \in Seq(Entry) /\ i \in DOMAIN s /\ s[i].id = c.arg
        /\ \A j, l \in DOMAIN s : s[j].id = s[l].id => j = l
    BY <2>3, <2>5, <2>6 DEF SliceOK, s
  <2>8. i \in Nat /\ \A j \in 1 .. i - 1 : j \in DOMAIN s /\ j # i
    BY <2>7
  <2>9. \A j \in 1 .. i - 1 : s[j].id # c.arg
    BY <2>7, <2>8
  <2>10. <<k, i>> \in Found(recs, c.arg)
    <3>1. /\ k \in DOMAIN recs /\ i \in DOMAIN sliceHeap[recs[k]]
          /\ sliceHeap[recs[k]][i].id = c.arg
          /\ \A j \in 1 .. i - 1 : sliceHeap[recs[k]][j].id # c.arg
      BY <2>4, <2>7, <2>9 DEF s
    <3> HIDE DEF c
    <3>2. \E x \in DOMAIN recs : \E y \in DOMAIN sliceHeap[recs[x]] :
             /\ <<k, i>> = <<x, y>> /\ sliceHeap[recs[x]][y].id = c.arg
             /\ \A j \in 1 .. y - 1 : sliceHeap[recs[x]][j].id # c.arg
      BY <3>1, Zenon
    <3> QED
      BY <3>2, FoundPlace
  <2> QED
    BY <1>1, <2>10 DEF recs
<1>8. Promise!Outcomes(c, Value) = {<<t, {}>> : t \in Promise!DropRecord(Value, c.zone, c.arg)}
  BY <1>1 DEF Promise!Outcomes
<1>9. Promise!DropRecord(Value, c.zone, c.arg) = {Value}
  BY <1>7 DEF Promise!DropRecord, Promise!Copies, Copies
<1>10. <<Value', {}>> \in Promise!Outcomes(c, Value)
  BY <1>3, <1>8, <1>9
<1>11. ResOf(c, ret'[p], zoneHeap', sliceHeap') = {}
  BY <1>1, <1>4, NoResult
<1> QED
  BY <1>1, <1>2, <1>3, <1>6, <1>10, <1>11, RefEffect

LEMMA PublishStep ==
    ASSUME MapInv, NEW p \in Procs, Publish(p)
    PROVE  MapInv' /\ Promise!Effect(p)
<1> DEFINE c == calls[p]
           z == fresh[p]
           R == ObjRecs(zoneHeap[z], sliceHeap)
<1>1. /\ pc[p] = "publish" /\ SetZone(p, z) /\ mu' = mu \ {p}
      /\ UNCHANGED heap /\ UNCHANGED <<calls, fresh, ret>>
  BY DEF Publish, Release
<1>2. /\ HeapGrows /\ HeapOK(zoneHeap', sliceHeap') /\ Len(zoneHeap) \in Nat
      /\ zoneHeap' = zoneHeap /\ sliceHeap' = sliceHeap
  BY <1>1, HeapStays
<1>3. /\ mu = {p} /\ z # 0 /\ zoneHeap[z].name = c.zone /\ Built(c, R, Value)
      /\ z \in 0 .. Len(zoneHeap)
  BY <1>1 DEF MapInv, ProcOK, MapTypes
<1>4. c.op \in {"PutRecord", "DropRecord"}
  BY <1>3 DEF Built
<1>5. CallOK(c) /\ c.zone \in Apexes
  BY <1>4 DEF MapInv, ProcOK, CallOK, Writing
<1> HIDE DEF z
<1>6. mu' = {}
  BY <1>1, <1>3
<1>7. /\ MapInv' /\ Others(p) /\ pc'[p] = "idle" /\ ret'[p] = {}
      /\ Value' = Replaced(Value, c.zone, z, ObjRecs(zoneHeap'[z], sliceHeap'))
  BY <1>1, <1>2, <1>3, <1>4, <1>6, WriteKeeps DEF Writing
<1>8. Value' = [zones |-> Value.zones \cup {c.zone},
               recs |-> {e \in Value.recs : e.zone # c.zone} \cup R]
  BY <1>2, <1>3, <1>7 DEF Replaced
<1> HIDE DEF R
<1>9. CASE c.op = "PutRecord"
  <2>1. c.arg.zone = c.zone
    BY <1>5, <1>9 DEF CallOK
  <2>2. R = {e \in Value.recs : e.zone = c.zone /\ (e.key # c.arg.key \/ e.id # c.arg.id)}
              \cup {c.arg}
    BY <1>3, <1>9 DEF Built
  <2>3. {e \in Value.recs : e.zone # c.zone} \cup R
         = {e \in Value.recs : \/ e.zone # c.arg.zone
                               \/ e.key # c.arg.key
                               \/ e.id # c.arg.id} \cup {c.arg}
    BY <2>1, <2>2
  <2>4. Value' = Promise!PutRecord(Value, c.arg)
    BY <1>8, <2>1, <2>3 DEF Promise!PutRecord
  <2>5. Promise!Outcomes(c, Value) = {<<Promise!PutRecord(Value, c.arg), {}>>}
    BY <1>9 DEF Promise!Outcomes
  <2> QED
    BY <1>1, <1>2, <1>7, <2>4, <2>5, NoResult, RefEffect
<1>10. CASE c.op = "DropRecord"
  <2>1. PICK e \in Copies(Value, c.zone, c.arg) :
             R = {x \in Value.recs : x.zone = c.zone} \ {e}
    BY <1>3, <1>10 DEF Built
  <2>2. e \in Value.recs /\ e.zone = c.zone
    BY <2>1 DEF Copies
  <2>3. c.zone \in Value.zones
    <3>1. c.zone \in PresentIn(zones)
      BY <1>5, <2>2, ValueOfZone DEF MapInv, Value
    <3> QED
      BY <3>1, ValueFields DEF Value
  <2>4. Value = [zones |-> Value.zones, recs |-> Value.recs]
    BY DEF Value, ValueOf
  <2>5. /\ {x \in Value.recs : x.zone # c.zone} \cup R = Value.recs \ {e}
        /\ Value.zones \cup {c.zone} = Value.zones
    BY <2>1, <2>2, <2>3
  <2>6. Value' = [Value EXCEPT !.recs = @ \ {e}]
    BY <1>8, <2>4, <2>5
  <2>7. e \in Promise!Copies(Value, c.zone, c.arg)
    BY <2>1 DEF Copies, Promise!Copies
  <2>8. Value' \in Promise!DropRecord(Value, c.zone, c.arg)
    BY <2>6, <2>7 DEF Promise!DropRecord
  <2>9. Promise!Outcomes(c, Value) = {<<t, {}>> : t \in Promise!DropRecord(Value, c.zone, c.arg)}
    BY <1>10 DEF Promise!Outcomes
  <2>10. <<Value', {}>> \in Promise!Outcomes(c, Value)
    BY <2>8, <2>9
  <2> QED
    BY <1>1, <1>2, <1>7, <2>10, NoResult, RefEffect
<1> QED
  BY <1>4, <1>9, <1>10

\* The calls that read.
LEMMA ReturnStep ==
    ASSUME MapInv, NEW p \in Procs, pc[p] = "called", NEW R, Return(p, R),
           calls[p].op \notin Writing, RetOK(calls[p], R, zoneHeap, sliceHeap),
           <<Value, ResOf(calls[p], R, zoneHeap, sliceHeap)>> \in Promise!Outcomes(calls[p], Value)
    PROVE  MapInv' /\ Promise!Effect(p)
<1>1. /\ mu = {} /\ mu' = {} /\ ret' = [ret EXCEPT ![p] = R]
      /\ pc' = [pc EXCEPT ![p] = "idle"]
      /\ UNCHANGED heap /\ UNCHANGED <<zones, calls, fresh>>
  BY DEF Return
<1>2. HeapGrows /\ zoneHeap' = zoneHeap /\ sliceHeap' = sliceHeap
  BY <1>1, HeapStays
<1>3. /\ StoreOK(zones', zoneHeap', sliceHeap') /\ MapTypes' /\ Others(p)
      /\ pc'[p] = "idle" /\ ret'[p] = R /\ Value' = Value
  BY <1>1, <1>2 DEF MapInv, MapTypes, Others, Value
<1>4. CallOK(calls[p]) /\ calls[p].op # "none"
  BY DEF MapInv, ProcOK
<1>5. ProcOK(p)'
  BY <1>1, <1>2, <1>3, <1>4 DEF ProcOK
<1>6. MapInv'
  BY <1>1, <1>2, <1>3, <1>5, StepKeeps
<1> QED
  BY <1>1, <1>2, <1>3, <1>6, RefEffect

LEMMA ZonesRead ==
    ASSUME MapInv, NEW A, A \subseteq PresentIn(zones), NEW c, c.op # "Lookup",
           NEW R, R = {zones[a] : a \in A}
    PROVE  /\ RetOK(c, R, zoneHeap, sliceHeap)
           /\ ResOf(c, R, zoneHeap, sliceHeap) = {Promise!ZoneValue(Value, a) : a \in A}
<1>1. ASSUME NEW a \in A
      PROVE  /\ zones[a] \in DOMAIN zoneHeap /\ zoneHeap[zones[a]].name = a
             /\ ObjRecs(zoneHeap[zones[a]], sliceHeap) = {e \in Value.recs : e.zone = a}
  BY PresentObj, ValueOfZone DEF MapInv, Value
<1>2. RetOK(c, R, zoneHeap, sliceHeap)
  BY <1>1 DEF RetOK
<1>3. ASSUME NEW a \in A
      PROVE  [apex |-> zoneHeap[zones[a]].name, recs |-> ObjRecs(zoneHeap[zones[a]], sliceHeap)]
               = Promise!ZoneValue(Value, a)
  BY <1>1 DEF Promise!ZoneValue
<1>4. ResOf(c, R, zoneHeap, sliceHeap) = {Promise!ZoneValue(Value, a) : a \in A}
  BY <1>3 DEF ResOf
<1> QED
  BY <1>2, <1>4

\* The walk of lockedFindZone is the one of the abstract store.
LEMMA WalkMapped ==
    ASSUME NEW n \in Names \cup {k.name : k \in Keys}
    PROVE  /\ lockedFindZone(Present, n) = Promise!Authoritative(Value.zones, n)
           /\ lockedFindZone(Present, n) \subseteq PresentIn(zones)
<1>1. Present = PresentIn(zones) /\ Value.zones = PresentIn(zones)
  BY ValueFields DEF Present, PresentIn, Value
<1>2. lockedFindZone(Present, n) = Authoritative(Present, n)
  BY WalkFindsZone, TransferAssumption
<1>3. Authoritative(Present, n) = Promise!Authoritative(Value.zones, n)
  BY <1>1 DEF Authoritative, Promise!Authoritative, Ancestor, Promise!Ancestor
<1>4. Authoritative(Present, n) \subseteq Present
  BY DEF Authoritative
<1> QED
  BY <1>1, <1>2, <1>3, <1>4

LEMMA FindZoneStep ==
    ASSUME MapInv, NEW p \in Procs, FindZone(p)
    PROVE  MapInv' /\ Promise!Effect(p)
<1> DEFINE c == calls[p]
           A == lockedFindZone(Present, c.arg)
           R == {zones[a] : a \in A}
<1>1. pc[p] = "called" /\ c.op = "FindZone" /\ Return(p, R)
  BY DEF FindZone, Called
<1>2. c.arg \in Names
  BY <1>1 DEF MapInv, ProcOK, CallOK
<1>3. A = Promise!Authoritative(Value.zones, c.arg) /\ A \subseteq PresentIn(zones)
  BY <1>2, WalkMapped
<1> HIDE DEF A
<1>4. /\ RetOK(c, R, zoneHeap, sliceHeap)
      /\ ResOf(c, R, zoneHeap, sliceHeap) = {Promise!ZoneValue(Value, a) : a \in A}
  BY <1>1, <1>3, ZonesRead
<1>5. Promise!Outcomes(c, Value)
        = {<<Value, {Promise!ZoneValue(Value, a) : a \in Promise!Authoritative(Value.zones, c.arg)}>>}
  BY <1>1 DEF Promise!Outcomes
<1> HIDE DEF R
<1>6. <<Value, ResOf(c, R, zoneHeap, sliceHeap)>> \in Promise!Outcomes(c, Value)
  BY <1>3, <1>4, <1>5
<1> QED
  BY <1>1, <1>4, <1>6, ReturnStep DEF Writing

LEMMA SnapshotStep ==
    ASSUME MapInv, NEW p \in Procs, Snapshot(p)
    PROVE  MapInv' /\ Promise!Effect(p)
<1> DEFINE c == calls[p]
           R == {zones[a] : a \in Present}
<1>1. pc[p] = "called" /\ c.op = "Snapshot" /\ Return(p, R)
  BY DEF Snapshot, Called
<1>2. Present = PresentIn(zones) /\ Value.zones = Present
  BY ValueFields DEF Present, PresentIn, Value
<1>3. /\ RetOK(c, R, zoneHeap, sliceHeap)
      /\ ResOf(c, R, zoneHeap, sliceHeap) = {Promise!ZoneValue(Value, a) : a \in Present}
  BY <1>1, <1>2, ZonesRead
<1>4. Promise!Outcomes(c, Value) = {<<Value, {Promise!ZoneValue(Value, a) : a \in Value.zones}>>}
  BY <1>1 DEF Promise!Outcomes
<1> HIDE DEF R
<1>5. <<Value, ResOf(c, R, zoneHeap, sliceHeap)>> \in Promise!Outcomes(c, Value)
  BY <1>2, <1>3, <1>4
<1> QED
  BY <1>1, <1>3, <1>5, ReturnStep DEF Writing

LEMMA LookupStep ==
    ASSUME MapInv, NEW p \in Procs, Lookup(p)
    PROVE  MapInv' /\ Promise!Effect(p)
<1> DEFINE c == calls[p]
           k == c.arg
           A == lockedFindZone(Present, k.name)
           found == {zones[a] : a \in A}
           R == {zoneHeap[z].recs[k] : z \in {z \in found : k \in DOMAIN zoneHeap[z].recs}}
<1>1. pc[p] = "called" /\ c.op = "Lookup" /\ Return(p, R)
  BY DEF Lookup, Called
<1>2. k \in Keys
  BY <1>1 DEF MapInv, ProcOK, CallOK
<1>3. A = Promise!Authoritative(Value.zones, k.name) /\ A \subseteq PresentIn(zones)
  BY <1>2, WalkMapped
<1> HIDE DEF A
<1>4. ASSUME NEW a \in A
      PROVE  LET o == zoneHeap[zones[a]]
             IN /\ ZoneOK(o, sliceHeap)
                /\ Promise!RRset(Value, a, k)
                     = IF k \in DOMAIN o.recs THEN Range(sliceHeap[o.recs[k]]) ELSE {}
  <2> DEFINE o == zoneHeap[zones[a]]
  <2>1. a \in PresentIn(zones) /\ a \in Apexes /\ StoreOK(zones, zoneHeap, sliceHeap)
    BY <1>3, <1>4 DEF PresentIn, MapInv
  <2>2. ZoneOK(o, sliceHeap)
    BY <2>1, PresentObj
  <2>3. {e \in Value.recs : e.zone = a} = ObjRecs(o, sliceHeap)
    BY <2>1, ValueOfZone DEF Value
  <2> HIDE DEF o, c, k
  <2>4. {e \in ObjRecs(o, sliceHeap) : e.key = k}
          = IF k \in DOMAIN o.recs THEN Range(sliceHeap[o.recs[k]]) ELSE {}
    BY <2>2, ObjKey
  <2>5. Promise!RRset(Value, a, k) = {e \in ObjRecs(o, sliceHeap) : e.key = k}
    BY <2>3 DEF Promise!RRset
  <2> QED
    BY <2>2, <2>4, <2>5 DEF o
<1>5. RetOK(c, R, zoneHeap, sliceHeap)
  BY <1>1, <1>4 DEF RetOK, ZoneOK
<1>6. ResOf(c, R, zoneHeap, sliceHeap) = UNION {Promise!RRset(Value, a, k) : a \in A}
  <2>1. ASSUME NEW e
        PROVE  (\E s \in R : e \in Range(sliceHeap[s]))
                 <=> (\E a \in A : e \in Promise!RRset(Value, a, k))
    <3>1. (\E s \in R : e \in Range(sliceHeap[s]))
            <=> \E a \in A : /\ k \in DOMAIN zoneHeap[zones[a]].recs
                             /\ e \in Range(sliceHeap[zoneHeap[zones[a]].recs[k]])
      OBVIOUS
    <3> HIDE DEF R, k
    <3> QED
      BY <1>4, <3>1
  <2>2. ResOf(c, R, zoneHeap, sliceHeap) = UNION {Range(sliceHeap[s]) : s \in R}
    BY <1>1 DEF ResOf
  <2> HIDE DEF R, k, c
  <2> QED
    BY <2>1, <2>2
<1>7. Promise!Outcomes(c, Value)
        = {<<Value, UNION {Promise!RRset(Value, a, k) :
                             a \in Promise!Authoritative(Value.zones, k.name)}>>}
  BY <1>1 DEF Promise!Outcomes
<1> HIDE DEF R
<1>8. <<Value, ResOf(c, R, zoneHeap, sliceHeap)>> \in Promise!Outcomes(c, Value)
  BY <1>3, <1>6, <1>7
<1> QED
  BY <1>1, <1>5, <1>8, ReturnStep DEF Writing
-----------------------------------------------------------------------------
(***************************************************************************)
(* The store after LoadAll.                                                *)
(***************************************************************************)
LEMMA FunIsSeq ==
    ASSUME NEW n \in Nat, NEW f, f = [i \in 1 .. n |-> f[i]]
    PROVE  IsSeq(f) /\ Len(f) = n /\ DOMAIN f = 1 .. n
<1>1. DOMAIN f = 1 .. n
  OBVIOUS
<1>2. f \in [1 .. n -> Range(f)]
  BY <1>1 DEF Range
<1>3. f \in Seq(Range(f))
  BY <1>2
<1> QED
  BY <1>1, <1>3 DEF IsSeq

LEMMA InitStore ==
    ASSUME NEW E, IsFiniteSet(E), E \subseteq Entry, \A d, e \in E : d.id = e.id => d = e,
           MapInit(E)
    PROVE  StoreOK(zones, zoneHeap, sliceHeap)
<1> DEFINE A == {e.zone : e \in E}
           K == {<<e.zone, e.key>> : e \in E}
           as == SetToSeq(A)
           ks == SetToSeq(K)
           place(s, v) == CHOOSE i \in DOMAIN s : s[i] = v
           keys(a) == {e.key : e \in {e \in E : e.zone = a}}
           group(i) == {e \in E : <<e.zone, e.key>> = ks[i]}
<1>1. /\ zoneHeap = [i \in DOMAIN as |->
                        [name |-> as[i],
                         recs |-> [k \in keys(as[i]) |-> place(ks, <<as[i], k>>)]]]
      /\ sliceHeap = [i \in DOMAIN ks |-> SetToSeq(group(i))]
      /\ zones = [a \in Apexes |-> IF a \in Range(as) THEN place(as, a) ELSE 0]
  BY DEF MapInit
<1>2. IsFiniteSet(A)
  <2> DEFINE g == [e \in E |-> e.zone]
  <2>1. DOMAIN g = E /\ g = [e \in E |-> g[e]] /\ A = {g[e] : e \in E}
    OBVIOUS
  <2> HIDE DEF g, A
  <2> QED
    BY <2>1, FiniteImage
<1>3. IsFiniteSet(K)
  <2> DEFINE g == [e \in E |-> <<e.zone, e.key>>]
  <2>1. DOMAIN g = E /\ g = [e \in E |-> g[e]] /\ K = {g[e] : e \in E}
    OBVIOUS
  <2> HIDE DEF g, K
  <2> QED
    BY <2>1, FiniteImage
<1>4. as \in Seq(A) /\ Range(as) = A
  BY <1>2, SetToSeqCorrect
<1>5. ks \in Seq(K) /\ Range(ks) = K
  BY <1>3, SetToSeqCorrect
<1> HIDE DEF as, ks, A, K
<1>6. /\ Len(as) \in Nat /\ DOMAIN as = 1 .. Len(as) /\ \A i \in DOMAIN as : as[i] \in A
      /\ Len(ks) \in Nat /\ DOMAIN ks = 1 .. Len(ks) /\ \A i \in DOMAIN ks : ks[i] \in K
  BY <1>4, <1>5, SeqIsSeq
<1>6a. /\ \A n \in DOMAIN as : n \in 0 .. Len(as)
       /\ 0 \in 0 .. Len(as)
  <2> SUFFICES ASSUME NEW l, l \in Nat
               PROVE  (\A n \in 1 .. l : n \in 0 .. l) /\ 0 \in 0 .. l
    BY <1>6
  <2> QED
    OBVIOUS
<1>7. \A v \in A : place(as, v) \in DOMAIN as /\ as[place(as, v)] = v
  BY <1>4 DEF Range
<1>8. \A v \in K : place(ks, v) \in DOMAIN ks /\ ks[place(ks, v)] = v
  BY <1>5 DEF Range
<1> HIDE DEF place
<1>9. ASSUME NEW j \in DOMAIN ks
      PROVE  /\ sliceHeap[j] = SetToSeq(group(j))
             /\ SliceOK(sliceHeap[j], ks[j][1], ks[j][2])
  <2>1. IsFiniteSet(group(j)) /\ group(j) # {}
    <3>1. group(j) \subseteq E
      OBVIOUS
    <3>2. PICK e \in E : ks[j] = <<e.zone, e.key>>
      BY <1>6 DEF K
    <3> QED
      BY <3>1, <3>2, FS_Subset
  <2> DEFINE s == SetToSeq(group(j))
  <2>2. /\ s \in Seq(group(j)) /\ IsInjective(s) /\ s # <<>>
    BY <2>1, SetToSeqCorrect
  <2>3. \A e \in group(j) : e \in E /\ e \in Entry /\ e.zone = ks[j][1] /\ e.key = ks[j][2]
    OBVIOUS
  <2>4. sliceHeap[j] = s
    BY <1>1
  <2> HIDE DEF s, group
  <2>5. s \in Seq(Entry) /\ \A i \in DOMAIN s : s[i] \in group(j)
    BY <2>2, <2>3
  <2>6. \A i, l \in DOMAIN s : s[i].id = s[l].id => i = l
    BY <2>2, <2>3, <2>5 DEF IsInjective
  <2>7. SliceOK(s, ks[j][1], ks[j][2])
    BY <2>2, <2>3, <2>5, <2>6 DEF SliceOK
  <2> QED
    BY <2>4, <2>7 DEF s
<1>10. IsSeq(sliceHeap) /\ DOMAIN sliceHeap = DOMAIN ks
  <2>1. sliceHeap = [i \in 1 .. Len(ks) |-> sliceHeap[i]]
    BY <1>1, <1>6
  <2> QED
    BY <1>6, <2>1, FunIsSeq
<1>11. /\ IsSeq(zoneHeap) /\ DOMAIN zoneHeap = DOMAIN as /\ Len(zoneHeap) = Len(as)
  <2>1. zoneHeap = [i \in 1 .. Len(as) |-> zoneHeap[i]]
    BY <1>1, <1>6
  <2> QED
    BY <1>6, <2>1, FunIsSeq
<1>12. ASSUME NEW i \in DOMAIN as
       PROVE  ZoneOK(zoneHeap[i], sliceHeap) /\ zoneHeap[i].name = as[i]
  <2>1. /\ zoneHeap[i].name = as[i] /\ DOMAIN zoneHeap[i].recs = keys(as[i])
        /\ \A k \in keys(as[i]) : zoneHeap[i].recs[k] = place(ks, <<as[i], k>>)
    BY <1>1
  <2>2. as[i] \in Apexes
    BY <1>6 DEF A, Entry
  <2>3. ASSUME NEW k \in keys(as[i])
        PROVE  k \in Keys /\ <<as[i], k>> \in K
    BY DEF Entry, K
  <2>4. ASSUME NEW k \in keys(as[i])
        PROVE  /\ zoneHeap[i].recs[k] \in DOMAIN sliceHeap
               /\ SliceOK(sliceHeap[zoneHeap[i].recs[k]], as[i], k)
    <3> DEFINE j == place(ks, <<as[i], k>>)
    <3>1. j \in DOMAIN ks /\ ks[j] = <<as[i], k>>
      BY <1>8, <2>3
    <3>2. zoneHeap[i].recs[k] = j
      BY <2>1
    <3> HIDE DEF j, keys
    <3>3. SliceOK(sliceHeap[j], ks[j][1], ks[j][2])
      BY <1>9, <3>1
    <3> QED
      BY <1>10, <3>1, <3>2, <3>3
  <2> HIDE DEF keys
  <2> QED
    BY <2>1, <2>2, <2>3, <2>4 DEF ZoneOK
<1>13. \A s \in DOMAIN sliceHeap : sliceHeap[s] # <<>> /\ sliceHeap[s] \in Seq(Entry)
  BY <1>9, <1>10 DEF SliceOK
<1>14. HeapOK(zoneHeap, sliceHeap)
  BY <1>10, <1>11, <1>12, <1>13 DEF HeapOK
<1>15. ASSUME NEW a \in Apexes
       PROVE  zones[a] \in 0 .. Len(zoneHeap) /\ (zones[a] # 0 => zoneHeap[zones[a]].name = a)
  <2>1. CASE a \in A
    <3>1. zones[a] = place(as, a)
      BY <1>1, <1>4, <2>1
    <3>2. zones[a] \in DOMAIN as /\ as[zones[a]] = a
      BY <1>7, <2>1, <3>1
    <3>3. zoneHeap[zones[a]].name = a
      BY <1>12, <3>2
    <3> HIDE DEF keys, group
    <3>4. zones[a] \in 0 .. Len(as)
      BY <1>6a, <3>2
    <3> QED
      BY <1>6, <1>11, <3>2, <3>3, <3>4
  <2>2. CASE a \notin A
    <3>1. zones[a] = 0
      BY <1>1, <1>4, <2>2
    <3> HIDE DEF keys, group
    <3>2. 0 \in 0 .. Len(as)
      BY <1>6a
    <3> QED
      BY <1>11, <3>1, <3>2
  <2> QED
    BY <2>1, <2>2
<1>16. zones \in [Apexes -> 0 .. Len(zoneHeap)]
  BY <1>1, <1>15
<1> QED
  BY <1>14, <1>15, <1>16 DEF StoreOK

LEMMA InitRecords ==
    ASSUME NEW S \in SUBSET Ids, NEW f \in [S -> Apexes \X Keys \X Vals]
    PROVE  LET E == {NewRec(f[id][1], id, f[id][2], f[id][3], 0) : id \in S}
           IN /\ IsFiniteSet(E) /\ E \subseteq Entry
              /\ \A d, e \in E : d.id = e.id => d = e
<1> DEFINE g == [id \in S |-> NewRec(f[id][1], id, f[id][2], f[id][3], 0)]
           E == {NewRec(f[id][1], id, f[id][2], f[id][3], 0) : id \in S}
<1>1. IsFiniteSet(S)
  BY MapAssumption, FS_Subset
<1>2. DOMAIN g = S /\ g = [id \in S |-> g[id]] /\ E = {g[id] : id \in S}
  OBVIOUS
<1>3. \A id \in S : g[id] \in Entry /\ g[id].id = id
  BY DEF NewRec, Entry
<1> HIDE DEF g, E
<1>4. IsFiniteSet(E)
  BY <1>1, <1>2, FiniteImage
<1>5. E \subseteq Entry /\ \A d, e \in E : d.id = e.id => d = e
  BY <1>2, <1>3
<1> QED
  BY <1>4, <1>5 DEF E

LEMMA MapInitStep == Init => MapInv /\ Promise!Init
<1> SUFFICES ASSUME Init PROVE MapInv /\ Promise!Init
  OBVIOUS
<1>1. PICK S \in SUBSET Ids : \E f \in [S -> Apexes \X Keys \X Vals] :
              MapInit({NewRec(f[id][1], id, f[id][2], f[id][3], 0) : id \in S})
  BY DEF Init
<1>2. PICK f \in [S -> Apexes \X Keys \X Vals] :
              MapInit({NewRec(f[id][1], id, f[id][2], f[id][3], 0) : id \in S})
  BY <1>1
<1> DEFINE E == {NewRec(f[id][1], id, f[id][2], f[id][3], 0) : id \in S}
<1>3. /\ IsFiniteSet(E) /\ E \subseteq Entry /\ \A d, e \in E : d.id = e.id => d = e
  BY InitRecords
<1>4. MapInit(E)
  BY <1>2
<1> HIDE DEF E
<1>5. StoreOK(zones, zoneHeap, sliceHeap)
  BY <1>3, <1>4, InitStore
<1>6. /\ mu = {} /\ calls = [p \in Procs |-> [op |-> "none"]]
      /\ pc = [p \in Procs |-> "idle"] /\ fresh = [p \in Procs |-> 0]
      /\ ret = [p \in Procs |-> {}]
  BY <1>4 DEF MapInit
<1>7. Len(zoneHeap) \in Nat
  BY <1>5, IsSeqFacts DEF StoreOK, HeapOK
<1>8. MapTypes
  BY <1>6, <1>7 DEF MapTypes
<1>9. ASSUME NEW p \in Procs PROVE ProcOK(p)
  BY <1>6 DEF ProcOK, CallOK, RetOK, Writing
<1>10. MapInv
  BY <1>5, <1>6, <1>8, <1>9 DEF MapInv
<1>11. StoreValue \in Promise!Store
  BY <1>5, ValueInStore, Mapped DEF Value, Store, Promise!Store, Entry, Promise!Entry
<1>12. PhaseOf = [p \in Procs |-> "idle"]
  BY <1>6, Mapped DEF Phase
<1>13. ResultOf = [p \in Procs |-> {}]
  BY <1>6, Mapped, NoResult
<1> QED
  BY <1>10, <1>11, <1>12, <1>13 DEF Promise!Init
-----------------------------------------------------------------------------
(***************************************************************************)
(* The refinement: every step of ZoneTransfer is one of the abstract store *)
(* or leaves it alone.                                                     *)
(***************************************************************************)
LEMMA InCallStep ==
    ASSUME MapInv, NEW p \in Procs, InCall(p)
    PROVE  MapInv' /\ (Promise!Next \/ UNCHANGED absVars)
<1>1. MapInv' /\ (Promise!Effect(p) \/ UNCHANGED absVars)
  BY UpdateZoneStep, DeleteZoneStep, PutCopyStep, DropCopyStep, DropNothingStep,
     PublishStep, FindZoneStep, LookupStep, SnapshotStep DEF InCall
<1> QED
  BY <1>1 DEF Promise!Next

LEMMA CallStep ==
    ASSUME MapInv, NEW p \in Procs, NEW c, Call(p, c), CallOK(c), c.op # "none"
    PROVE  MapInv' /\ (Promise!Next \/ UNCHANGED absVars)
BY CallKeeps, RefCall DEF Promise!Next

LEMMA WriteStep ==
    ASSUME MapInv, NEW w \in Writers, Write(w)
    PROVE  MapInv' /\ (Promise!Next \/ UNCHANGED absVars)
<1>1. w \in Procs
  BY TransferAssumption
<1>2. PICK a \in Apexes :
          \/ Call(w, [op |-> "Update", zone |-> a, arg |-> {}])
          \/ Call(w, [op |-> "Delete", zone |-> a])
          \/ \E id \in Ids, k \in Keys, v \in Vals :
                Call(w, [op |-> "PutRecord", zone |-> a,
                         arg |-> NewRec(a, id, k, v, Len(zoneHeap))])
          \/ \E id \in Ids : Call(w, [op |-> "DropRecord", zone |-> a, arg |-> id])
  BY DEF Write
<1>3. ASSUME NEW c, Call(w, c), CallOK(c), c.op # "none"
      PROVE  MapInv' /\ (Promise!Next \/ UNCHANGED absVars)
  BY <1>1, <1>3, CallStep
<1>4. CASE Call(w, [op |-> "Update", zone |-> a, arg |-> {}])
  <2>1. CallOK([op |-> "Update", zone |-> a, arg |-> {}])
    BY DEF CallOK, Writing
  <2> QED
    BY <1>3, <1>4, <2>1
<1>5. CASE Call(w, [op |-> "Delete", zone |-> a])
  <2>1. CallOK([op |-> "Delete", zone |-> a])
    BY DEF CallOK, Writing
  <2> QED
    BY <1>3, <1>5, <2>1
<1>6. ASSUME NEW id \in Ids, NEW k \in Keys, NEW v \in Vals,
             Call(w, [op |-> "PutRecord", zone |-> a,
                      arg |-> NewRec(a, id, k, v, Len(zoneHeap))])
      PROVE  MapInv' /\ (Promise!Next \/ UNCHANGED absVars)
  <2> DEFINE r == NewRec(a, id, k, v, Len(zoneHeap))
  <2>1. Len(zoneHeap) \in Nat
    BY IsSeqFacts DEF MapInv, StoreOK, HeapOK
  <2>2. r \in Entry /\ r.zone = a
    BY <2>1 DEF NewRec, Entry
  <2> HIDE DEF r
  <2>3. CallOK([op |-> "PutRecord", zone |-> a, arg |-> r])
    BY <2>2 DEF CallOK, Writing
  <2> QED
    BY <1>3, <1>6, <2>3 DEF r
<1>7. ASSUME NEW id \in Ids, Call(w, [op |-> "DropRecord", zone |-> a, arg |-> id])
      PROVE  MapInv' /\ (Promise!Next \/ UNCHANGED absVars)
  <2>1. CallOK([op |-> "DropRecord", zone |-> a, arg |-> id])
    BY DEF CallOK, Writing
  <2> QED
    BY <1>3, <1>7, <2>1
<1> QED
  BY <1>2, <1>4, <1>5, <1>6, <1>7

LEMMA ReadStep ==
    ASSUME MapInv, NEW x \in Xfers, ReadOther(x) \/ \E n \in Names : BeginTCP(x, n)
    PROVE  MapInv' /\ (Promise!Next \/ UNCHANGED absVars)
<1>1. x \in Procs
  BY TransferAssumption
<1>2. ASSUME NEW c, Call(x, c), CallOK(c), c.op # "none"
      PROVE  MapInv' /\ (Promise!Next \/ UNCHANGED absVars)
  BY <1>1, <1>2, CallStep
<1>3. ASSUME NEW k \in Keys, Call(x, [op |-> "Lookup", arg |-> k])
      PROVE  MapInv' /\ (Promise!Next \/ UNCHANGED absVars)
  <2>1. CallOK([op |-> "Lookup", arg |-> k])
    BY DEF CallOK, Writing
  <2> QED
    BY <1>2, <1>3, <2>1
<1>4. CASE Call(x, [op |-> "Snapshot"])
  <2>1. CallOK([op |-> "Snapshot"])
    BY DEF CallOK, Writing
  <2> QED
    BY <1>2, <1>4, <2>1
<1>5. ASSUME NEW n \in Names, Call(x, [op |-> "FindZone", arg |-> n])
      PROVE  MapInv' /\ (Promise!Next \/ UNCHANGED absVars)
  <2>1. CallOK([op |-> "FindZone", arg |-> n])
    BY DEF CallOK, Writing
  <2> QED
    BY <1>2, <1>5, <2>1
<1> QED
  BY <1>3, <1>4, <1>5 DEF ReadOther, BeginTCP

LEMMA MapSame ==
    ASSUME MapInv, UNCHANGED mapVars
    PROVE  MapInv' /\ (Promise!Next \/ UNCHANGED absVars)
<1>1. MapInv'
  BY DEF MapInv, mapVars, MapTypes, ProcOK, Value
<1> QED
  BY <1>1, RefSame

LEMMA NextStep ==
    ASSUME MapInv, [Next]_vars
    PROVE  MapInv' /\ (Promise!Next \/ UNCHANGED absVars)
<1>1. CASE UNCHANGED vars
  BY <1>1, MapSame DEF vars
<1>2. ASSUME NEW p \in Procs, InCall(p) PROVE MapInv' /\ (Promise!Next \/ UNCHANGED absVars)
  BY <1>2, InCallStep
<1>3. ASSUME NEW w \in Writers, Write(w) PROVE MapInv' /\ (Promise!Next \/ UNCHANGED absVars)
  BY <1>3, WriteStep
<1>4. ASSUME NEW x \in Xfers, ReadOther(x) \/ Transfer(x)
      PROVE  MapInv' /\ (Promise!Next \/ UNCHANGED absVars)
  <2>1. \/ ReadOther(x) \/ \E n \in Names : BeginTCP(x, n)
        \/ UNCHANGED mapVars
    BY <1>4 DEF Transfer, BeginUDP, Open, NextKey, NextRecord, LastFlush, Close, Finish
  <2> QED
    BY <2>1, ReadStep, MapSame
<1> QED
  BY <1>1, <1>2, <1>3, <1>4 DEF Next

\* The store of internal/store/rwmutex.go, with its heap, its copies and its
\* lock, implements the one that callers rely on.
THEOREM StoreImplemented == Spec => ImplementsZoneStore
<1>1. Init => MapInv /\ Promise!Init
  BY MapInitStep
<1>2. MapInv /\ [Next]_vars => MapInv'
  BY NextStep
<1>3. MapInv /\ [Next]_vars => [Promise!Next]_absVars
  BY NextStep
<1>4. Spec => Promise!Init /\ [][Promise!Next]_absVars
  BY <1>1, <1>2, <1>3, PTL DEF Spec
<1> QED
  BY <1>4 DEF ImplementsZoneStore, Promise!Spec, absVars
-----------------------------------------------------------------------------
(***************************************************************************)
(* Transfers.  The records of the Zone are those in the messages sent,     *)
(* those in the batch and those the ranges have still to reach, each in    *)
(* one place.  While others write, the heap grows and none of it changes.  *)
(***************************************************************************)
Msg == [soa : BOOLEAN, recs : Seq(Entry)]
XferType ==
    [pc : {"idle", "find", "records", "close", "sent", "refused", "failed"},
     sent : Seq(Msg), batch : Seq(Entry), left : SUBSET Keys, slice : Nat, i : Nat]

\* The messages 2 to n: the records they carry, each once.
Carries(M, n) == UNION {Range(M[m].recs) : m \in 2 .. n}
Once(M, n) ==
    \A l, m \in 2 .. n : \A i \in DOMAIN M[l].recs, j \in DOMAIN M[m].recs :
        M[l].recs[i] = M[m].recs[j] => l = m /\ i = j
Bodies(M, n) == \A m \in 2 .. n : ~M[m].soa /\ Len(M[m].recs) \in 1 .. BatchSize

\* What the inner and the outer range have still to reach.
Rest(t, sh) == IF t.slice = 0 THEN {} ELSE {sh[t.slice][j] : j \in t.i .. Len(sh[t.slice])}
Ahead(K, o, sh) == UNION {Range(sh[o.recs[k]]) : k \in K}
Due(t, o, sh) == Ahead(t.left, o, sh) \cup Rest(t, sh)

AtPlace(t, o, sh) ==
    /\ t.left \subseteq DOMAIN o.recs
    /\ t.slice # 0 => \E k \in DOMAIN o.recs \ t.left :
                         t.slice = o.recs[k] /\ t.i \in DOMAIN sh[t.slice]

\* The records gone out and those in the batch.
Taken(t) == Carries(t.sent, Len(t.sent)) \cup Range(t.batch)

\* The messages so far, and the batch.
OutOK(t) ==
    /\ Len(t.sent) >= 1 /\ t.sent[1] = SOAMsg
    /\ Bodies(t.sent, Len(t.sent)) /\ Once(t.sent, Len(t.sent))
    /\ Len(t.batch) < BatchSize /\ IsInjective(t.batch)
    /\ Range(t.batch) \cap Carries(t.sent, Len(t.sent)) = {}

SendingOK(t, o, sh) ==
    /\ OutOK(t) /\ AtPlace(t, o, sh)
    /\ Taken(t) \cup Due(t, o, sh) = ObjRecs(o, sh) /\ Taken(t) \cap Due(t, o, sh) = {}
    /\ t.pc = "close" => t.left = {} /\ t.slice = 0 /\ t.batch = <<>>

SentOK(t, o, sh) ==
    LET n == Len(t.sent) - 1
    IN /\ n >= 1 /\ t.sent[1] = SOAMsg /\ t.sent[n + 1] = SOAMsg
       /\ Bodies(t.sent, n) /\ Once(t.sent, n)
       /\ Carries(t.sent, n) = ObjRecs(o, sh)

XferOK(x) ==
    LET t == xfer[x]
        o == zoneHeap[ZoneOf(x)]
    IN /\ t \in XferType
       /\ t.pc \in {"idle", "find"} => t = [NoXfer EXCEPT !.pc = t.pc]
       /\ t.pc \in {"find", "records", "close", "sent"} => calls[x].op = "FindZone"
       /\ t.pc \in {"records", "close", "sent"} => pc[x] = "idle" /\ ret[x] # {}
       /\ t.pc \in {"records", "close"} => SendingOK(t, o, sliceHeap)
       /\ t.pc = "sent" => SentOK(t, o, sliceHeap)

XferInv == DOMAIN xfer = Xfers /\ \A x \in Xfers : XferOK(x)

\* What a transfer reads stays as it is while the heap grows.
LEMMA DueGrows ==
    ASSUME NEW t, NEW o, NEW sh, NEW sh1, ZoneOK(o, sh), Grows(sh, sh1), AtPlace(t, o, sh)
    PROVE  AtPlace(t, o, sh1) /\ Due(t, o, sh1) = Due(t, o, sh)
<1>1. \A k \in DOMAIN o.recs : sh1[o.recs[k]] = sh[o.recs[k]]
  BY DEF ZoneOK, Grows
<1>2. t.slice # 0 => sh1[t.slice] = sh[t.slice]
  BY <1>1 DEF AtPlace
<1>3. AtPlace(t, o, sh1)
  BY <1>2 DEF AtPlace
<1>4. Rest(t, sh1) = Rest(t, sh)
  BY <1>2 DEF Rest
<1>5. Ahead(t.left, o, sh1) = Ahead(t.left, o, sh)
  <2>1. \A k \in t.left : sh1[o.recs[k]] = sh[o.recs[k]]
    BY <1>1 DEF AtPlace
  <2> QED
    BY <2>1 DEF Ahead
<1> QED
  BY <1>3, <1>4, <1>5 DEF Due

LEMMA SendingGrows ==
    ASSUME NEW t, NEW o, NEW sh, NEW sh1, ZoneOK(o, sh), Grows(sh, sh1)
    PROVE  /\ SendingOK(t, o, sh) => SendingOK(t, o, sh1)
           /\ SentOK(t, o, sh) => SentOK(t, o, sh1)
<1>1. ObjRecs(o, sh1) = ObjRecs(o, sh)
  BY GrowsKeeps
<1>2. SentOK(t, o, sh) => SentOK(t, o, sh1)
  BY <1>1 DEF SentOK
<1>3. ASSUME SendingOK(t, o, sh) PROVE SendingOK(t, o, sh1)
  BY <1>1, <1>3, DueGrows DEF SendingOK
<1> QED
  BY <1>2, <1>3

\* The Zone a transfer was given is on the heap.
LEMMA ZoneGiven ==
    ASSUME MapInv, NEW x \in Xfers, calls[x].op = "FindZone", ret[x] # {}
    PROVE  ZoneOf(x) \in DOMAIN zoneHeap /\ ZoneOK(zoneHeap[ZoneOf(x)], sliceHeap)
<1>1. x \in Procs /\ HeapOK(zoneHeap, sliceHeap)
  BY TransferAssumption DEF MapInv, StoreOK
<1>2. ret[x] \subseteq DOMAIN zoneHeap
  BY <1>1 DEF MapInv, ProcOK, RetOK
<1>3. ZoneOf(x) \in ret[x]
  BY DEF ZoneOf
<1> QED
  BY <1>1, <1>2, <1>3 DEF HeapOK

\* The steps of the store only add to the heap.
LEMMA InCallGrows ==
    ASSUME MapInv, NEW p \in Procs, InCall(p)
    PROVE  HeapGrows /\ Others(p) /\ pc[p] # "idle" /\ UNCHANGED calls
<1>1. IsSeq(zoneHeap) /\ IsSeq(sliceHeap) /\ MapTypes
  BY DEF MapInv, StoreOK, HeapOK
<1>2. /\ \A e : Grows(zoneHeap, Append(zoneHeap, e)) /\ Grows(sliceHeap, Append(sliceHeap, e))
      /\ Grows(zoneHeap, zoneHeap) /\ Grows(sliceHeap, sliceHeap)
  BY <1>1, GrowsAppend, GrowsItself
<1>3. ASSUME \/ UNCHANGED zoneHeap
             \/ \E e : zoneHeap' = Append(zoneHeap, e),
             \/ UNCHANGED sliceHeap
             \/ \E e : sliceHeap' = Append(sliceHeap, e)
      PROVE  HeapGrows
  BY <1>2, <1>3 DEF HeapGrows
<1>4. CASE UpdateZone(p)
  <2>1. calls[p].arg = {}
    BY <1>4 DEF MapInv, ProcOK, CallOK, UpdateZone, Called
  <2>2. sliceHeap' = sliceHeap
    <3>1. sliceHeap \in Seq(Range(sliceHeap))
      BY <1>1 DEF IsSeq
    <3> QED
      BY <1>4, <2>1, <3>1, EmptySlices DEF UpdateZone
  <2>3. Others(p) /\ pc[p] # "idle" /\ UNCHANGED calls
    BY <1>1, <1>4 DEF UpdateZone, Called, SetZone, Others, MapTypes
  <2>4. \E e : zoneHeap' = Append(zoneHeap, e)
    BY <1>4 DEF UpdateZone
  <2> QED
    BY <1>3, <2>2, <2>3, <2>4
<1>5. CASE DeleteZone(p)
  <2>1. Others(p) /\ pc[p] # "idle" /\ UNCHANGED calls /\ UNCHANGED <<zoneHeap, sliceHeap>>
    BY <1>1, <1>5 DEF DeleteZone, Called, SetZone, Others, MapTypes, heap
  <2> QED
    BY <1>3, <2>1
<1>6. CASE PutCopy(p)
  <2>1. Others(p) /\ pc[p] # "idle" /\ UNCHANGED calls
    BY <1>1, <1>6 DEF PutCopy, Called, Build, Others, MapTypes
  <2>2. (\E e : zoneHeap' = Append(zoneHeap, e)) /\ (\E e : sliceHeap' = Append(sliceHeap, e))
    BY <1>6 DEF PutCopy, Build
  <2> QED
    BY <1>3, <2>1, <2>2
<1>7. CASE DropCopy(p)
  <2> DEFINE recs == RecordsOf(zones[calls[p].zone])
  <2>1. PICK f \in Found(recs, calls[p].arg) :
             IF Len(sliceHeap[recs[f[1]]]) = 1
             THEN /\ Build(p, Restrict(recs, DOMAIN recs \ {f[1]}))
                  /\ UNCHANGED sliceHeap
             ELSE /\ sliceHeap' = Append(sliceHeap, RemoveAt(sliceHeap[recs[f[1]]], f[2]))
                  /\ Build(p, [recs EXCEPT ![f[1]] = Len(sliceHeap) + 1])
    BY <1>7 DEF DropCopy
  <2> HIDE DEF recs
  <2>2. PICK r : Build(p, r)
    BY <2>1
  <2>3. \/ UNCHANGED sliceHeap
        \/ \E e : sliceHeap' = Append(sliceHeap, e)
    BY <2>1
  <2>4. pc[p] # "idle"
    BY <1>7 DEF DropCopy, Called
  <2>5. Others(p) /\ UNCHANGED calls
    BY <1>1, <2>2 DEF Build, Others, MapTypes
  <2>6. \E e : zoneHeap' = Append(zoneHeap, e)
    BY <2>2 DEF Build
  <2> QED
    BY <1>3, <2>3, <2>4, <2>5, <2>6
<1>8. CASE DropNothing(p)
  <2>1. Others(p) /\ pc[p] # "idle" /\ UNCHANGED calls /\ UNCHANGED <<zoneHeap, sliceHeap>>
    BY <1>1, <1>8 DEF DropNothing, Called, Others, MapTypes, heap
  <2> QED
    BY <1>3, <2>1
<1>9. CASE Publish(p)
  <2>1. Others(p) /\ pc[p] # "idle" /\ UNCHANGED calls /\ UNCHANGED <<zoneHeap, sliceHeap>>
    BY <1>1, <1>9 DEF Publish, SetZone, Others, MapTypes, heap
  <2> QED
    BY <1>3, <2>1
<1>10. CASE FindZone(p) \/ Lookup(p) \/ Snapshot(p)
  <2>1. PICK R : Return(p, R)
    BY <1>10 DEF FindZone, Lookup, Snapshot
  <2>2. pc[p] # "idle"
    BY <1>10 DEF FindZone, Lookup, Snapshot, Called
  <2>3. Others(p) /\ UNCHANGED calls /\ UNCHANGED <<zoneHeap, sliceHeap>>
    BY <1>1, <2>1 DEF Return, Others, MapTypes, heap
  <2> QED
    BY <1>3, <2>2, <2>3
<1> QED
  BY <1>4, <1>5, <1>6, <1>7, <1>8, <1>9, <1>10 DEF InCall

\* A goroutine that waits for the transfer's turn finds its Zone as it was.
LEMMA XferKeeps ==
    ASSUME MapInv, NEW x \in Xfers, XferOK(x), HeapGrows, xfer'[x] = xfer[x], calls'[x] = calls[x],
           (pc'[x] = pc[x] /\ ret'[x] = ret[x]) \/ pc[x] # "idle"
    PROVE  XferOK(x)'
<1> DEFINE t == xfer[x]
           z == ZoneOf(x)
<1>1. CASE t.pc \in {"records", "close", "sent"}
  <2>1. pc'[x] = pc[x] /\ ret'[x] = ret[x] /\ calls[x].op = "FindZone" /\ ret[x] # {}
    BY <1>1 DEF XferOK
  <2>2. z \in DOMAIN zoneHeap /\ ZoneOK(zoneHeap[z], sliceHeap)
    BY <2>1, ZoneGiven
  <2>3. ZoneOf(x)' = z /\ zoneHeap'[z] = zoneHeap[z]
    BY <2>1, <2>2 DEF ZoneOf, HeapGrows, Grows
  <2>4. /\ SendingOK(t, zoneHeap[z], sliceHeap) => SendingOK(t, zoneHeap[z], sliceHeap')
        /\ SentOK(t, zoneHeap[z], sliceHeap) => SentOK(t, zoneHeap[z], sliceHeap')
    BY <2>2, SendingGrows DEF HeapGrows
  <2> HIDE DEF z
  <2> QED
    BY <1>1, <2>1, <2>3, <2>4 DEF XferOK, z
<1>2. CASE t.pc \notin {"records", "close", "sent"}
  BY <1>2 DEF XferOK
<1> QED
  BY <1>1, <1>2

\* One more message: a batch whose records are in none of those before.
LEMMA SendBatch ==
    ASSUME NEW M \in Seq(Msg), Len(M) >= 1, Bodies(M, Len(M)), Once(M, Len(M)),
           NEW b \in Seq(Entry), Len(b) \in 1 .. BatchSize, IsInjective(b),
           Range(b) \cap Carries(M, Len(M)) = {}, NEW N, N = Append(M, BatchMsg(b))
    PROVE  /\ N \in Seq(Msg) /\ Len(N) = Len(M) + 1 /\ N[1] = M[1]
           /\ Bodies(N, Len(N)) /\ Once(N, Len(N))
           /\ Carries(N, Len(N)) = Carries(M, Len(M)) \cup Range(b)
<1> DEFINE n == Len(M)
<1>1. BatchMsg(b) \in Msg /\ BatchMsg(b).recs = b /\ BatchMsg(b).soa = FALSE
  BY DEF BatchMsg, Msg
<1>2. /\ N \in Seq(Msg) /\ Len(N) = n + 1 /\ N[n + 1] = BatchMsg(b) /\ n \in Nat
      /\ \A m \in 1 .. n : N[m] = M[m]
  BY <1>1
<1>3. /\ 2 .. Len(N) = (2 .. n) \cup {n + 1} /\ 1 \in 1 .. n
      /\ 2 .. n \subseteq 1 .. n /\ n + 1 \notin 2 .. n
  BY <1>2
<1>4. /\ \A m \in 2 .. n : N[m] = M[m]
      /\ N[n + 1].recs = b /\ N[n + 1].soa = FALSE
  BY <1>1, <1>2, <1>3
<1>5. Bodies(N, Len(N))
  BY <1>3, <1>4 DEF Bodies
<1>6. Carries(N, Len(N)) = Carries(M, n) \cup Range(b)
  <2>1. \A m \in 2 .. n : Range(N[m].recs) = Range(M[m].recs)
    BY <1>4
  <2>2. Range(N[n + 1].recs) = Range(b)
    BY <1>4
  <2> HIDE DEF n
  <2> QED
    BY <1>3, <2>1, <2>2 DEF Carries
<1>7. \A m \in 2 .. n : \A i \in DOMAIN M[m].recs, j \in DOMAIN b : M[m].recs[i] # b[j]
  <2> SUFFICES ASSUME NEW m \in 2 .. n, NEW i \in DOMAIN M[m].recs, NEW j \in DOMAIN b
               PROVE  M[m].recs[i] # b[j]
    OBVIOUS
  <2>1. M[m].recs[i] \in Carries(M, n)
    BY SMTT(30) DEF Carries, Range
  <2>2. b[j] \in Range(b)
    BY DEF Range
  <2> QED
    BY <2>1, <2>2
<1>8. Once(N, Len(N))
  <2> HIDE DEF n
  <2> SUFFICES ASSUME NEW l \in 2 .. Len(N), NEW m \in 2 .. Len(N),
                      NEW i \in DOMAIN N[l].recs, NEW j \in DOMAIN N[m].recs,
                      N[l].recs[i] = N[m].recs[j]
               PROVE  l = m /\ i = j
    BY DEF Once
  <2>1. CASE l \in 2 .. n /\ m \in 2 .. n
    BY <1>4, <2>1 DEF Once, n
  <2>2. CASE l = n + 1 /\ m = n + 1
    BY <1>4, <2>2 DEF IsInjective
  <2>3. CASE l \in 2 .. n /\ m = n + 1
    BY <1>4, <1>7, <2>3
  <2>4. CASE l = n + 1 /\ m \in 2 .. n
    BY <1>4, <1>7, <2>4
  <2> QED
    BY <1>3, <2>1, <2>2, <2>3, <2>4
<1> QED
  BY <1>2, <1>3, <1>5, <1>6, <1>8

LEMMA GrowBatch ==
    ASSUME NEW b \in Seq(Entry), IsInjective(b), NEW e \in Entry, e \notin Range(b)
    PROVE  /\ Append(b, e) \in Seq(Entry) /\ IsInjective(Append(b, e))
           /\ Len(Append(b, e)) = Len(b) + 1 /\ Len(b) \in Nat
           /\ Range(Append(b, e)) = Range(b) \cup {e}
<1> DEFINE c == Append(b, e)
<1>1. IsSeq(b) /\ Len(b) \in Nat /\ DOMAIN b = 1 .. Len(b) /\ c \in Seq(Entry)
  BY SeqIsSeq
<1>2. /\ Len(c) = Len(b) + 1 /\ DOMAIN c = 1 .. Len(b) + 1
      /\ \A i \in DOMAIN b : c[i] = b[i]
      /\ c[Len(b) + 1] = e /\ Range(c) = Range(b) \cup {e}
  BY <1>1, AppendIsSeq
<1>3. DOMAIN c = DOMAIN b \cup {Len(b) + 1}
  BY <1>1, <1>2
<1> HIDE DEF c
<1>4. \A i \in DOMAIN b : b[i] \in Range(b)
  BY DEF Range
<1>5. IsInjective(c)
  BY <1>2, <1>3, <1>4 DEF IsInjective
<1> QED
  BY <1>1, <1>2, <1>5 DEF c

\* The record the inner range has reached is due, and then no more.
LEMMA RecordTaken ==
    ASSUME NEW t \in XferType, NEW o, NEW sh, ZoneOK(o, sh), AtPlace(t, o, sh), t.slice # 0,
           NEW u, u.left = t.left,
           IF t.i < Len(sh[t.slice]) THEN u.i = t.i + 1 /\ u.slice = t.slice
                                     ELSE u.slice = 0
    PROVE  LET e == sh[t.slice][t.i]
           IN /\ e \in Entry /\ AtPlace(u, o, sh)
              /\ Due(t, o, sh) = Due(u, o, sh) \cup {e} /\ e \notin Due(u, o, sh)
<1> DEFINE s == sh[t.slice]
           e == s[t.i]
<1>1. PICK k \in DOMAIN o.recs \ t.left : t.slice = o.recs[k] /\ t.i \in DOMAIN s
  BY DEF AtPlace
<1>2. SliceOK(s, o.name, k) /\ t.left \subseteq DOMAIN o.recs
  BY <1>1 DEF ZoneOK, AtPlace
<1>3. /\ s \in Seq(Entry) /\ Len(s) \in Nat /\ DOMAIN s = 1 .. Len(s)
      /\ e \in Entry /\ e.key = k /\ t.i \in 1 .. Len(s)
      /\ \A i, j \in DOMAIN s : s[i].id = s[j].id => i = j
  BY <1>1, <1>2 DEF SliceOK
<1> HIDE DEF s
<1>4. AtPlace(u, o, sh)
  <2>1. CASE t.i < Len(s)
    <3>1. t.i + 1 \in DOMAIN s /\ u.i = t.i + 1 /\ u.slice = t.slice
      BY <1>3, <2>1 DEF s
    <3> QED
      BY <1>1, <1>2, <3>1 DEF AtPlace, s
  <2>2. CASE ~(t.i < Len(s))
    BY <1>2, <2>2 DEF AtPlace, s
  <2> QED
    BY <2>1, <2>2
<1>5. e \notin Ahead(t.left, o, sh)
  <2> SUFFICES ASSUME NEW l \in t.left, e \in Range(sh[o.recs[l]]) PROVE FALSE
    BY DEF Ahead
  <2>1. SliceOK(sh[o.recs[l]], o.name, l)
    BY <1>2 DEF ZoneOK
  <2>2. e.key = l
    BY <2>1 DEF SliceOK, Range
  <2> QED
    BY <1>1, <1>3, <2>2
<1>6. Rest(t, sh) = {s[j] : j \in t.i .. Len(s)}
  BY DEF Rest, s
<1>7. Rest(u, sh) = {s[j] : j \in t.i + 1 .. Len(s)}
  <2>1. CASE t.i < Len(s)
    BY <2>1 DEF Rest, s
  <2>2. CASE ~(t.i < Len(s))
    <3>1. u.slice = 0
      BY <2>2 DEF s
    <3>2. t.i + 1 .. Len(s) = {}
      BY <1>3, <2>2
    <3> QED
      BY <3>1, <3>2 DEF Rest
  <2> QED
    BY <2>1, <2>2
<1>8. /\ t.i .. Len(s) = {t.i} \cup (t.i + 1 .. Len(s))
      /\ \A j \in t.i + 1 .. Len(s) : j \in DOMAIN s /\ j # t.i
  BY <1>3
<1>9. Rest(t, sh) = Rest(u, sh) \cup {e} /\ e \notin Rest(u, sh)
  <2>1. \A j \in t.i + 1 .. Len(s) : s[j] # e
    BY <1>3, <1>8
  <2>2. e = s[t.i]
    OBVIOUS
  <2> HIDE DEF e
  <2> QED
    BY <1>6, <1>7, <1>8, <2>1, <2>2
<1>10. Due(t, o, sh) = Ahead(t.left, o, sh) \cup Rest(t, sh)
       /\ Due(u, o, sh) = Ahead(t.left, o, sh) \cup Rest(u, sh)
  BY DEF Due
<1> HIDE DEF e
<1>11. Due(t, o, sh) = Due(u, o, sh) \cup {e} /\ e \notin Due(u, o, sh)
  BY <1>5, <1>9, <1>10
<1> QED
  BY <1>3, <1>4, <1>11 DEF e, s

\* The outer range goes on to a key: what is due stays due.
LEMMA KeyTaken ==
    ASSUME NEW t, NEW o, NEW sh, ZoneOK(o, sh), 0 \notin DOMAIN sh,
           t.left \subseteq DOMAIN o.recs, t.slice = 0,
           NEW k \in t.left, NEW u, u.left = t.left \ {k}, u.i = 1, u.slice = o.recs[k]
    PROVE  AtPlace(u, o, sh) /\ Due(u, o, sh) = Due(t, o, sh)
<1> DEFINE s == sh[o.recs[k]]
<1>1. SliceOK(s, o.name, k)
  BY DEF ZoneOK
<1>2. s \in Seq(Entry) /\ s # <<>>
  BY <1>1 DEF SliceOK
<1> HIDE DEF s
<1>3. /\ DOMAIN s = 1 .. Len(s) /\ 1 \in DOMAIN s
  BY <1>2
<1>4. AtPlace(u, o, sh)
  BY <1>3 DEF AtPlace, s
<1>5. Ahead(t.left, o, sh) = Ahead(u.left, o, sh) \cup Range(s)
  <2>1. t.left = u.left \cup {k}
    OBVIOUS
  <2> QED
    BY <2>1 DEF Ahead, s
<1>6. Rest(t, sh) = {}
  BY DEF Rest
<1>7. Rest(u, sh) = Range(s)
  <2>1. u.slice # 0
    BY DEF ZoneOK
  <2> QED
    BY <1>3, <2>1 DEF Rest, Range, s
<1> QED
  BY <1>4, <1>5, <1>6, <1>7 DEF Due

\* A transfer goes on as u, and nothing else happens.
LEMMA Moves ==
    ASSUME XferInv, NEW x \in Xfers, UNCHANGED mapVars, NEW u \in XferType,
           xfer' = [xfer EXCEPT ![x] = u], u.pc \notin {"idle", "find"} \/ u = NoXfer,
           u.pc \in {"records", "close", "sent"} =>
               calls[x].op = "FindZone" /\ pc[x] = "idle" /\ ret[x] # {},
           u.pc \in {"records", "close"} => SendingOK(u, zoneHeap[ZoneOf(x)], sliceHeap),
           u.pc = "sent" => SentOK(u, zoneHeap[ZoneOf(x)], sliceHeap)
    PROVE  XferInv'
<1>1. /\ DOMAIN xfer' = Xfers /\ xfer'[x] = u
      /\ \A y \in Xfers \ {x} : xfer'[y] = xfer[y]
  BY DEF XferInv
<1>2. UNCHANGED <<zoneHeap, sliceHeap, calls, pc, ret>>
  BY DEF mapVars
<1>3. \A y : ZoneOf(y)' = ZoneOf(y)
  BY <1>2 DEF ZoneOf
<1>4. ASSUME NEW y \in Xfers \ {x} PROVE XferOK(y)'
  BY <1>1, <1>2, <1>3 DEF XferInv, XferOK
<1>5. NoXfer = [NoXfer EXCEPT !.pc = NoXfer.pc] /\ NoXfer.pc = "idle"
  BY DEF NoXfer
<1>6. XferOK(x)'
  BY <1>1, <1>2, <1>3, <1>5 DEF XferOK
<1> QED
  BY <1>1, <1>4, <1>6 DEF XferInv

\* A transfer that is refused, or whose WriteMsg fails, promises nothing.
LEMMA Stops ==
    ASSUME XferInv, NEW x \in Xfers, UNCHANGED mapVars, NEW s \in {"refused", "failed"}, Goto(x, s)
    PROVE  XferInv'
<1> DEFINE u == [xfer[x] EXCEPT !.pc = s]
<1>1. xfer[x] \in XferType
  BY DEF XferInv, XferOK
<1>2. u \in XferType /\ u.pc = s
  BY <1>1 DEF XferType
<1>3. xfer' = [xfer EXCEPT ![x] = u]
  BY DEF Goto
<1> HIDE DEF u
<1> QED
  BY <1>2, <1>3, Moves

LEMMA OpenStep ==
    ASSUME MapInv, XferInv, NEW x \in Xfers, Open(x)
    PROVE  XferInv'
<1> DEFINE t == xfer[x]
           o == zoneHeap[ZoneOf(x)]
           u == [t EXCEPT !.pc = "records", !.left = DOMAIN o.recs]
           v == [u EXCEPT !.sent = Append(@, SOAMsg)]
<1>1. /\ t.pc = "find" /\ pc[x] = "idle" /\ UNCHANGED mapVars
      /\ t \in XferType /\ t = [NoXfer EXCEPT !.pc = t.pc] /\ calls[x].op = "FindZone"
  BY DEF Open, XferInv, XferOK
<1>2. CASE Goto(x, "refused") \/ Goto(x, "failed")
  BY <1>1, <1>2, Stops
<1>3. CASE ret[x] # {} /\ xfer' = [xfer EXCEPT ![x] = v]
  <2>1. ZoneOK(o, sliceHeap)
    BY <1>1, <1>3, ZoneGiven
  <2>2. t.sent = <<>> /\ t.batch = <<>> /\ t.slice = 0
    BY <1>1 DEF NoXfer
  <2>3. SOAMsg \in Msg
    BY DEF SOAMsg, Msg
  <2>4. DOMAIN o.recs \in SUBSET Keys
    BY <2>1 DEF ZoneOK
  <2> HIDE DEF o, t
  <2>5. /\ u.pc = "records" /\ u.sent = <<>> /\ u.batch = <<>> /\ u.left = DOMAIN o.recs
        /\ u.slice = 0 /\ u \in XferType
    BY <1>1, <2>2, <2>4 DEF XferType
  <2> HIDE DEF u
  <2>6. Append(u.sent, SOAMsg) = <<SOAMsg>> /\ Append(u.sent, SOAMsg) \in Seq(Msg)
    BY <2>3, <2>5
  <2>7. /\ v.pc = "records" /\ v.sent = Append(u.sent, SOAMsg) /\ v.batch = <<>>
        /\ v.left = DOMAIN o.recs /\ v.slice = 0 /\ v \in XferType
    <3> DEFINE S == Append(u.sent, SOAMsg)
    <3> HIDE DEF S
    <3>1. v = [u EXCEPT !.sent = S]
      BY DEF S
    <3>2. S \in Seq(Msg)
      BY <2>6 DEF S
    <3> HIDE DEF v
    <3>3. /\ v.pc = u.pc /\ v.sent = S /\ v.batch = u.batch
          /\ v.left = u.left /\ v.slice = u.slice /\ v \in XferType
      BY <2>5, <3>1, <3>2 DEF XferType
    <3> QED
      BY <2>5, <3>3 DEF S
  <2>8. v.sent = <<SOAMsg>> /\ v \in XferType
    BY <2>6, <2>7
  <2> HIDE DEF v, o
  <2>9. /\ Len(v.sent) = 1 /\ v.sent[1] = SOAMsg /\ Len(v.batch) = 0 /\ 2 .. Len(v.sent) = {}
        /\ DOMAIN v.batch = {}
    BY <2>7, <2>8
  <2>10. Carries(v.sent, Len(v.sent)) = {} /\ Range(v.batch) = {}
    BY <2>9 DEF Carries, Range
  <2>11. OutOK(v)
    <3>1. Bodies(v.sent, Len(v.sent)) /\ Once(v.sent, Len(v.sent)) /\ IsInjective(v.batch)
      BY <2>9 DEF Bodies, Once, IsInjective
    <3>2. Len(v.batch) < BatchSize
      BY <2>9, TransferAssumption
    <3> QED
      BY <2>9, <2>10, <3>1, <3>2 DEF OutOK
  <2>12. AtPlace(v, o, sliceHeap)
    BY <2>7 DEF AtPlace
  <2>13. Due(v, o, sliceHeap) = ObjRecs(o, sliceHeap)
    <3>1. Rest(v, sliceHeap) = {}
      BY <2>7 DEF Rest
    <3>2. Ahead(DOMAIN o.recs, o, sliceHeap) = ObjRecs(o, sliceHeap)
      BY ObjMember DEF Ahead
    <3> QED
      BY <2>7, <3>1, <3>2 DEF Due
  <2>14. Taken(v) = {}
    BY <2>10 DEF Taken
  <2>15. SendingOK(v, o, sliceHeap)
    BY <2>7, <2>11, <2>12, <2>13, <2>14 DEF SendingOK
  <2> QED
    BY <1>1, <1>3, <2>7, <2>8, <2>15, Moves DEF o, t, u, v
<1> QED
  BY <1>2, <1>3 DEF Open, WriteMsg

LEMMA NextKeyStep ==
    ASSUME MapInv, XferInv, NEW x \in Xfers, NextKey(x)
    PROVE  XferInv'
<1> DEFINE t == xfer[x]
           o == zoneHeap[ZoneOf(x)]
<1>1. /\ t.pc = "records" /\ t.slice = 0 /\ pc[x] = "idle" /\ UNCHANGED mapVars
      /\ t \in XferType /\ calls[x].op = "FindZone" /\ ret[x] # {}
      /\ SendingOK(t, o, sliceHeap)
  BY DEF NextKey, XferInv, XferOK
<1>2. ZoneOK(o, sliceHeap) /\ HeapOK(zoneHeap, sliceHeap)
  BY <1>1, ZoneGiven DEF MapInv, StoreOK
<1>3. DOMAIN sliceHeap = 1 .. Len(sliceHeap) /\ Len(sliceHeap) \in Nat
  BY <1>2, IsSeqFacts DEF HeapOK
<1>4. PICK k \in t.left \cap DOMAIN o.recs :
          xfer' = [xfer EXCEPT ![x].left = @ \ {k}, ![x].i = 1, ![x].slice = o.recs[k]]
  BY DEF NextKey
<1> DEFINE u == [t EXCEPT !.left = @ \ {k}, !.i = 1, !.slice = o.recs[k]]
<1>5. xfer' = [xfer EXCEPT ![x] = u]
  BY <1>4 DEF XferInv
<1>6. o.recs[k] \in Nat
  BY <1>2, <1>3 DEF ZoneOK
<1> HIDE DEF o
<1>7. /\ u.pc = "records" /\ u.sent = t.sent /\ u.batch = t.batch
      /\ u.left = t.left \ {k} /\ u.i = 1 /\ u.slice = o.recs[k] /\ u \in XferType
  BY <1>1, <1>6 DEF XferType
<1> HIDE DEF u
<1>8. AtPlace(u, o, sliceHeap) /\ Due(u, o, sliceHeap) = Due(t, o, sliceHeap)
  <2>1. t.left \subseteq DOMAIN o.recs /\ k \in t.left /\ 0 \notin DOMAIN sliceHeap
    BY <1>1, <1>3 DEF SendingOK, AtPlace
  <2> QED
    BY <1>1, <1>2, <1>7, <2>1, KeyTaken
<1>9. OutOK(u) /\ Taken(u) = Taken(t)
  BY <1>1, <1>7 DEF SendingOK, OutOK, Taken
<1>10. SendingOK(u, o, sliceHeap)
  BY <1>1, <1>7, <1>8, <1>9 DEF SendingOK
<1> QED
  BY <1>1, <1>5, <1>7, <1>10, Moves DEF o

\* A message is sent.
LEMMA Sends ==
    ASSUME NEW t \in XferType, OutOK(t), NEW b \in Seq(Entry), Len(b) \in 1 .. BatchSize,
           IsInjective(b), Range(b) \cap Carries(t.sent, Len(t.sent)) = {},
           NEW u, u.sent = Append(t.sent, BatchMsg(b)), u.batch = <<>>
    PROVE  /\ OutOK(u) /\ u.sent \in Seq(Msg)
           /\ Taken(u) = Carries(t.sent, Len(t.sent)) \cup Range(b)
<1>1. /\ t.sent \in Seq(Msg) /\ Len(t.sent) >= 1 /\ t.sent[1] = SOAMsg
      /\ Bodies(t.sent, Len(t.sent)) /\ Once(t.sent, Len(t.sent))
  BY DEF OutOK, XferType
<1>2. /\ u.sent \in Seq(Msg) /\ Len(u.sent) = Len(t.sent) + 1 /\ u.sent[1] = t.sent[1]
      /\ Bodies(u.sent, Len(u.sent)) /\ Once(u.sent, Len(u.sent))
      /\ Carries(u.sent, Len(u.sent)) = Carries(t.sent, Len(t.sent)) \cup Range(b)
  BY <1>1, SendBatch
<1>3. Len(u.batch) = 0 /\ DOMAIN u.batch = {}
  OBVIOUS
<1>4. Range(u.batch) = {} /\ IsInjective(u.batch) /\ Len(u.batch) < BatchSize
  BY <1>3, TransferAssumption DEF Range, IsInjective
<1>5. Len(u.sent) >= 1
  BY <1>1, <1>2
<1>6. OutOK(u)
  BY <1>1, <1>2, <1>4, <1>5 DEF OutOK
<1>7. Taken(u) = Carries(t.sent, Len(t.sent)) \cup Range(b)
  BY <1>2, <1>4 DEF Taken
<1> QED
  BY <1>2, <1>6, <1>7

\* A transfer with another batch, or one more message.
LEMMA WithBatch ==
    ASSUME NEW t \in XferType, NEW b \in Seq(Entry), NEW u, u = [t EXCEPT !.batch = b]
    PROVE  /\ u \in XferType /\ u.batch = b /\ u.sent = t.sent
           /\ u.pc = t.pc /\ u.left = t.left /\ u.slice = t.slice /\ u.i = t.i
BY DEF XferType

LEMMA WithSent ==
    ASSUME NEW t \in XferType, NEW m \in Msg, NEW u, u = [t EXCEPT !.sent = Append(@, m)]
    PROVE  /\ u \in XferType /\ u.batch = t.batch /\ u.sent = Append(t.sent, m)
           /\ u.pc = t.pc /\ u.left = t.left /\ u.slice = t.slice /\ u.i = t.i
<1> DEFINE S == Append(t.sent, m)
<1>1. S \in Seq(Msg)
  BY DEF XferType
<1>2. u = [t EXCEPT !.sent = S]
  OBVIOUS
<1> HIDE DEF S
<1>3. /\ u \in XferType /\ u.batch = t.batch /\ u.sent = S
      /\ u.pc = t.pc /\ u.left = t.left /\ u.slice = t.slice /\ u.i = t.i
  BY <1>1, <1>2 DEF XferType
<1> QED
  BY <1>3 DEF S

LEMMA NextRecordStep ==
    ASSUME MapInv, XferInv, NEW x \in Xfers, NextRecord(x)
    PROVE  XferInv'
<1> DEFINE t == xfer[x]
           o == zoneHeap[ZoneOf(x)]
           e == sliceHeap[t.slice][t.i]
           b == Append(t.batch, e)
           more == t.i < Len(sliceHeap[t.slice])
           u == [t EXCEPT !.i = IF more THEN @ + 1 ELSE 0,
                          !.slice = IF more THEN @ ELSE 0]
<1>1. /\ t.pc = "records" /\ t.slice # 0 /\ pc[x] = "idle" /\ UNCHANGED mapVars
      /\ t \in XferType /\ calls[x].op = "FindZone" /\ ret[x] # {}
      /\ SendingOK(t, o, sliceHeap)
  BY DEF NextRecord, XferInv, XferOK
<1>2. ZoneOK(o, sliceHeap)
  BY <1>1, ZoneGiven
<1>3. IF Len(b) >= BatchSize
      THEN WriteMsg(x, BatchMsg(b), [u EXCEPT !.batch = <<>>])
      ELSE xfer' = [xfer EXCEPT ![x] = [u EXCEPT !.batch = b]]
  BY DEF NextRecord
<1> HIDE DEF t, o
<1>4. /\ u \in XferType /\ u.pc = "records" /\ u.sent = t.sent /\ u.batch = t.batch
      /\ u.left = t.left
      /\ IF more THEN u.i = t.i + 1 /\ u.slice = t.slice ELSE u.slice = 0
  <2> HIDE DEF more
  <2> DEFINE j == IF more THEN t.i + 1 ELSE 0
             l == IF more THEN t.slice ELSE 0
  <2>1. t.i \in Nat /\ t.slice \in Nat
    BY <1>1 DEF XferType
  <2>2. j \in Nat /\ l \in Nat
    BY <2>1
  <2>3. u = [t EXCEPT !.i = j, !.slice = l]
    OBVIOUS
  <2> HIDE DEF j, l, u
  <2>4. /\ u \in XferType /\ u.pc = "records" /\ u.sent = t.sent /\ u.batch = t.batch
        /\ u.left = t.left /\ u.i = j /\ u.slice = l
    BY <1>1, <2>2, <2>3 DEF XferType
  <2> QED
    BY <2>4 DEF j, l
<1> HIDE DEF u
<1>5. /\ e \in Entry /\ AtPlace(u, o, sliceHeap)
      /\ Due(t, o, sliceHeap) = Due(u, o, sliceHeap) \cup {e}
      /\ e \notin Due(u, o, sliceHeap)
  BY <1>1, <1>2, <1>4, RecordTaken DEF SendingOK
<1> HIDE DEF e, more
<1>6. /\ Taken(t) \cup Due(t, o, sliceHeap) = ObjRecs(o, sliceHeap)
      /\ Taken(t) \cap Due(t, o, sliceHeap) = {}
      /\ OutOK(t) /\ t.batch \in Seq(Entry)
  BY <1>1 DEF SendingOK, XferType
<1>7. e \notin Range(t.batch) /\ e \notin Carries(t.sent, Len(t.sent))
  BY <1>5, <1>6 DEF Taken
<1>8. /\ b \in Seq(Entry) /\ IsInjective(b) /\ Len(b) = Len(t.batch) + 1
      /\ Range(b) = Range(t.batch) \cup {e} /\ Len(t.batch) \in Nat
  BY <1>5, <1>6, <1>7, GrowBatch DEF OutOK
<1> HIDE DEF b
<1>9. Range(b) \cap Carries(t.sent, Len(t.sent)) = {}
  BY <1>6, <1>7, <1>8 DEF OutOK
<1>10. Carries(t.sent, Len(t.sent)) \cup Range(b) = Taken(t) \cup {e}
  BY <1>8 DEF Taken
<1>11. ASSUME NEW v \in XferType, v.pc = "records", v.left = u.left, v.slice = u.slice, v.i = u.i,
              OutOK(v), Taken(v) = Taken(t) \cup {e},
              xfer' = [xfer EXCEPT ![x] = v]
       PROVE  XferInv'
  <2>1. Due(v, o, sliceHeap) = Due(u, o, sliceHeap) /\ AtPlace(v, o, sliceHeap)
    BY <1>5, <1>11 DEF Due, Rest, AtPlace
  <2>2. SendingOK(v, o, sliceHeap)
    BY <1>5, <1>6, <1>11, <2>1 DEF SendingOK
  <2> QED
    BY <1>1, <1>11, <2>2, Moves DEF o
<1>12. CASE Len(b) >= BatchSize
  <2> DEFINE w == [u EXCEPT !.batch = <<>>]
             v == [w EXCEPT !.sent = Append(@, BatchMsg(b))]
  <2>1. CASE Goto(x, "failed")
    BY <1>1, <2>1, Stops
  <2>2. CASE xfer' = [xfer EXCEPT ![x] = v]
    <3>1. BatchMsg(b) \in Msg
      BY <1>8 DEF BatchMsg, Msg
    <3>2. /\ w \in XferType /\ w.batch = <<>> /\ w.sent = t.sent
          /\ w.pc = u.pc /\ w.left = u.left /\ w.slice = u.slice /\ w.i = u.i
      <4> DEFINE n == <<>>
      <4>1. n \in Seq(Entry) /\ w = [u EXCEPT !.batch = n]
        OBVIOUS
      <4> HIDE DEF n, w
      <4>2. /\ w \in XferType /\ w.batch = n /\ w.sent = u.sent
            /\ w.pc = u.pc /\ w.left = u.left /\ w.slice = u.slice /\ w.i = u.i
        BY <1>4, <4>1, WithBatch
      <4> QED
        BY <1>4, <4>2 DEF n
    <3> HIDE DEF w
    <3>3. /\ v \in XferType /\ v.batch = <<>> /\ v.sent = Append(t.sent, BatchMsg(b))
          /\ v.pc = u.pc /\ v.left = u.left /\ v.slice = u.slice /\ v.i = u.i
      BY <3>1, <3>2, WithSent
    <3> HIDE DEF v
    <3>4. Len(b) \in 1 .. BatchSize
      BY <1>6, <1>8, <1>12, TransferAssumption DEF OutOK
    <3>5. OutOK(v) /\ Taken(v) = Taken(t) \cup {e}
      BY <1>1, <1>6, <1>8, <1>9, <1>10, <3>3, <3>4, Sends
    <3> QED
      BY <1>4, <1>11, <2>2, <3>3, <3>5 DEF v
  <2> QED
    BY <1>3, <1>12, <2>1, <2>2 DEF WriteMsg
<1>13. CASE ~(Len(b) >= BatchSize)
  <2> DEFINE v == [u EXCEPT !.batch = b]
  <2>1. /\ v \in XferType /\ v.batch = b /\ v.sent = t.sent
        /\ v.pc = u.pc /\ v.left = u.left /\ v.slice = u.slice /\ v.i = u.i
    BY <1>4, <1>8, WithBatch
  <2>2. xfer' = [xfer EXCEPT ![x] = v]
    BY <1>3, <1>13
  <2> HIDE DEF v
  <2>3. Len(b) < BatchSize
    BY <1>8, <1>13, TransferAssumption
  <2>4. OutOK(v) /\ Taken(v) = Taken(t) \cup {e}
    BY <1>6, <1>8, <1>9, <1>10, <2>1, <2>3 DEF OutOK, Taken
  <2> QED
    BY <1>4, <1>11, <2>1, <2>2, <2>4
<1> QED
  BY <1>12, <1>13

LEMMA LastFlushStep ==
    ASSUME MapInv, XferInv, NEW x \in Xfers, LastFlush(x)
    PROVE  XferInv'
<1> DEFINE t == xfer[x]
           o == zoneHeap[ZoneOf(x)]
<1>1. /\ t.pc = "records" /\ t.slice = 0 /\ t.left = {} /\ pc[x] = "idle" /\ UNCHANGED mapVars
      /\ t \in XferType /\ calls[x].op = "FindZone" /\ ret[x] # {}
      /\ SendingOK(t, o, sliceHeap)
  BY DEF LastFlush, XferInv, XferOK
<1>2. IF t.batch = <<>>
      THEN Goto(x, "close")
      ELSE WriteMsg(x, BatchMsg(t.batch), [t EXCEPT !.pc = "close", !.batch = <<>>])
  BY DEF LastFlush
<1>3. xfer' = [xfer EXCEPT ![x].pc = "close"] => xfer' = [xfer EXCEPT ![x] = [t EXCEPT !.pc = "close"]]
  OBVIOUS
<1> HIDE DEF t, o
<1>4. ASSUME NEW v \in XferType, v.pc = "close", v.left = t.left, v.slice = t.slice,
             v.batch = <<>>, OutOK(v), Taken(v) = Taken(t), xfer' = [xfer EXCEPT ![x] = v]
      PROVE  XferInv'
  <2>1. Due(v, o, sliceHeap) = Due(t, o, sliceHeap) /\ AtPlace(v, o, sliceHeap)
    BY <1>1, <1>4 DEF Due, Rest, AtPlace
  <2>2. SendingOK(v, o, sliceHeap)
    BY <1>1, <1>4, <2>1 DEF SendingOK
  <2> QED
    BY <1>1, <1>4, <2>2, Moves DEF o
<1>5. CASE t.batch = <<>>
  <2> DEFINE v == [t EXCEPT !.pc = "close"]
  <2>1. /\ v \in XferType /\ v.pc = "close" /\ v.left = t.left /\ v.slice = t.slice
        /\ v.batch = t.batch /\ v.sent = t.sent
    BY <1>1 DEF XferType
  <2>2. xfer' = [xfer EXCEPT ![x] = v]
    BY <1>2, <1>3, <1>5 DEF Goto
  <2> HIDE DEF v
  <2>3. OutOK(v) /\ Taken(v) = Taken(t)
    BY <1>1, <2>1 DEF SendingOK, OutOK, Taken
  <2> QED
    BY <1>4, <1>5, <2>1, <2>2, <2>3
<1>6. CASE t.batch # <<>>
  <2> DEFINE w == [t EXCEPT !.pc = "close", !.batch = <<>>]
             v == [w EXCEPT !.sent = Append(@, BatchMsg(t.batch))]
  <2>1. CASE Goto(x, "failed")
    BY <1>1, <2>1, Stops
  <2>2. CASE xfer' = [xfer EXCEPT ![x] = v]
    <3>1. BatchMsg(t.batch) \in Msg /\ t.batch \in Seq(Entry)
      BY <1>1 DEF BatchMsg, Msg, XferType
    <3>2. /\ w \in XferType /\ w.pc = "close" /\ w.left = t.left /\ w.slice = t.slice
          /\ w.batch = <<>> /\ w.sent = t.sent
      <4> DEFINE n == <<>>
      <4>1. n \in Seq(Entry) /\ w = [t EXCEPT !.pc = "close", !.batch = n]
        OBVIOUS
      <4> HIDE DEF n, w
      <4>2. /\ w \in XferType /\ w.pc = "close" /\ w.left = t.left /\ w.slice = t.slice
            /\ w.batch = n /\ w.sent = t.sent
        BY <1>1, <4>1 DEF XferType
      <4> QED
        BY <4>2 DEF n
    <3> HIDE DEF w
    <3>3. /\ v \in XferType /\ v.batch = <<>> /\ v.sent = Append(t.sent, BatchMsg(t.batch))
          /\ v.pc = "close" /\ v.left = t.left /\ v.slice = t.slice
      BY <3>1, <3>2, WithSent
    <3> HIDE DEF v
    <3>4. OutOK(t)
      BY <1>1 DEF SendingOK
    <3>5. Len(t.batch) \in 1 .. BatchSize
      BY <1>6, <3>1, <3>4, TransferAssumption DEF OutOK
    <3>6. IsInjective(t.batch) /\ Range(t.batch) \cap Carries(t.sent, Len(t.sent)) = {}
      BY <3>4 DEF OutOK
    <3>7. OutOK(v) /\ Taken(v) = Carries(t.sent, Len(t.sent)) \cup Range(t.batch)
      BY <1>1, <3>1, <3>3, <3>4, <3>5, <3>6, Sends
    <3> QED
      BY <1>4, <2>2, <3>3, <3>7 DEF v, Taken
  <2> QED
    BY <1>2, <1>6, <2>1, <2>2 DEF WriteMsg
<1> QED
  BY <1>5, <1>6

LEMMA CloseStep ==
    ASSUME MapInv, XferInv, NEW x \in Xfers, Close(x)
    PROVE  XferInv'
<1> DEFINE t == xfer[x]
           o == zoneHeap[ZoneOf(x)]
           w == [t EXCEPT !.pc = "sent"]
           v == [w EXCEPT !.sent = Append(@, SOAMsg)]
<1>1. /\ t.pc = "close" /\ pc[x] = "idle" /\ UNCHANGED mapVars
      /\ t \in XferType /\ calls[x].op = "FindZone" /\ ret[x] # {}
      /\ SendingOK(t, o, sliceHeap)
  BY DEF Close, XferInv, XferOK
<1>2. Goto(x, "failed") \/ xfer' = [xfer EXCEPT ![x] = v]
  BY DEF Close, WriteMsg
<1> HIDE DEF t, o
<1>3. CASE Goto(x, "failed")
  BY <1>1, <1>3, Stops
<1>4. CASE xfer' = [xfer EXCEPT ![x] = v]
  <2>1. SOAMsg \in Msg
    BY DEF SOAMsg, Msg
  <2>2. w \in XferType /\ w.pc = "sent" /\ w.sent = t.sent
    BY <1>1 DEF XferType
  <2> HIDE DEF w
  <2>3. v \in XferType /\ v.pc = "sent" /\ v.sent = Append(t.sent, SOAMsg)
    BY <2>1, <2>2, WithSent
  <2> HIDE DEF v
  <2>4. OutOK(t) /\ t.left = {} /\ t.slice = 0 /\ t.batch = <<>>
    BY <1>1 DEF SendingOK
  <2> DEFINE M == t.sent
             N == v.sent
             n == Len(M)
  <2>5. /\ M \in Seq(Msg) /\ n >= 1 /\ M[1] = SOAMsg /\ Bodies(M, n) /\ Once(M, n)
    BY <1>1, <2>4 DEF OutOK, XferType
  <2>6. N = Append(M, SOAMsg)
    BY <2>3
  <2> HIDE DEF M, N
  <2>7. /\ n \in Nat /\ Len(N) = n + 1 /\ N[n + 1] = SOAMsg /\ \A m \in 1 .. n : N[m] = M[m]
    BY <2>1, <2>5, <2>6
  <2>8. /\ Len(N) - 1 = n /\ 1 \in 1 .. n /\ 2 .. n \subseteq 1 .. n
    BY <2>5, <2>7
  <2> HIDE DEF n
  <2>9. \A m \in 2 .. n : N[m] = M[m]
    BY <2>7, <2>8
  <2>10. Bodies(N, n) /\ Once(N, n) /\ Carries(N, n) = Carries(M, n)
    <3>1. Bodies(N, n)
      BY <2>5, <2>9 DEF Bodies
    <3>2. Once(N, n)
      BY <2>5, <2>9 DEF Once
    <3>3. Carries(N, n) = Carries(M, n)
      BY <2>9 DEF Carries
    <3> QED
      BY <3>1, <3>2, <3>3
  <2>11. Carries(M, n) = ObjRecs(o, sliceHeap)
    <3>1. Due(t, o, sliceHeap) = {}
      BY <2>4 DEF Due, Ahead, Rest
    <3>2. Range(t.batch) = {}
      BY <2>4 DEF Range
    <3>3. Taken(t) = Carries(M, n)
      BY <3>2 DEF Taken, M, n
    <3> QED
      BY <1>1, <3>1, <3>3 DEF SendingOK
  <2>12. SentOK(v, o, sliceHeap)
    <3>1. N[1] = SOAMsg /\ N[n + 1] = SOAMsg
      BY <2>5, <2>7, <2>8
    <3> QED
      BY <2>5, <2>8, <2>10, <2>11, <3>1 DEF SentOK, N
  <2> QED
    BY <1>1, <1>4, <2>3, <2>12, Moves DEF o, v
<1> QED
  BY <1>2, <1>3, <1>4

LEMMA FinishStep ==
    ASSUME XferInv, NEW x \in Xfers, Finish(x)
    PROVE  XferInv'
<1>1. NoXfer \in XferType /\ NoXfer.pc = "idle"
  <2>1. <<>> \in Seq(Msg) /\ <<>> \in Seq(Entry)
    OBVIOUS
  <2> QED
    BY <2>1 DEF NoXfer, XferType
<1>2. UNCHANGED mapVars /\ xfer' = [xfer EXCEPT ![x] = NoXfer]
  BY DEF Finish
<1> QED
  BY <1>1, <1>2, Moves

\* A call of the store by p leaves the transfers of the others alone.
LEMMA CallXfers ==
    ASSUME MapInv, XferInv, NEW p \in Procs, NEW c, Call(p, c), NEW y \in Xfers, y # p,
           xfer'[y] = xfer[y]
    PROVE  XferOK(y)'
<1>1. y \in Procs /\ MapTypes /\ XferOK(y)
  BY TransferAssumption DEF MapInv, XferInv
<1>2. calls'[y] = calls[y] /\ pc'[y] = pc[y] /\ ret'[y] = ret[y]
  BY <1>1 DEF Call, MapTypes
<1>3. HeapGrows
  BY GrowsItself DEF Call, heap, HeapGrows
<1> QED
  BY <1>1, <1>2, <1>3, XferKeeps

LEMMA BeginTCPStep ==
    ASSUME MapInv, XferInv, NEW x \in Xfers, NEW n \in Names, BeginTCP(x, n)
    PROVE  XferInv'
<1> DEFINE u == [xfer[x] EXCEPT !.pc = "find"]
<1>1. x \in Procs /\ MapTypes /\ DOMAIN xfer = Xfers
  BY TransferAssumption DEF MapInv, XferInv
<1>2. Call(x, [op |-> "FindZone", arg |-> n]) /\ xfer' = [xfer EXCEPT ![x] = u]
  BY DEF BeginTCP, Goto
<1>3. calls'[x].op = "FindZone"
  BY <1>1, <1>2 DEF Call, MapTypes
<1>4. xfer[x] \in XferType /\ xfer[x].pc = "idle" /\ xfer[x] = [NoXfer EXCEPT !.pc = xfer[x].pc]
  BY DEF BeginTCP, XferInv, XferOK
<1>5. u \in XferType /\ u.pc = "find"
  BY <1>4 DEF XferType
<1>6. u = [NoXfer EXCEPT !.pc = "find"]
  BY <1>4
<1> HIDE DEF u
<1>7. DOMAIN xfer' = Xfers /\ xfer'[x] = u /\ \A y \in Xfers \ {x} : xfer'[y] = xfer[y]
  BY <1>1, <1>2
<1>8. XferOK(x)'
  BY <1>3, <1>5, <1>6, <1>7 DEF XferOK
<1>9. \A y \in Xfers \ {x} : XferOK(y)'
  BY <1>1, <1>2, <1>7, CallXfers
<1> QED
  BY <1>7, <1>8, <1>9 DEF XferInv

\* An idle goroutine calls Lookup or Snapshot.
LEMMA ReadOtherStep ==
    ASSUME MapInv, XferInv, NEW x \in Xfers, ReadOther(x)
    PROVE  XferInv'
<1>1. x \in Procs
  BY TransferAssumption
<1>2. PICK c : Call(x, c)
  BY DEF ReadOther
<1>3. xfer' = xfer /\ xfer[x].pc = "idle" /\ XferOK(x) /\ DOMAIN xfer = Xfers
  BY DEF ReadOther, XferInv
<1>4. XferOK(x)'
  BY <1>3 DEF XferOK
<1>5. \A y \in Xfers \ {x} : XferOK(y)'
  BY <1>1, <1>2, <1>3, CallXfers
<1> QED
  BY <1>3, <1>4, <1>5 DEF XferInv

LEMMA WriteXfers ==
    ASSUME MapInv, XferInv, NEW w \in Writers, Write(w)
    PROVE  XferInv'
<1>1. w \in Procs /\ w \notin Xfers
  BY TransferAssumption
<1>2. PICK c : Call(w, c)
  BY DEF Write
<1>3. xfer' = xfer /\ DOMAIN xfer = Xfers
  BY DEF Write, XferInv
<1>4. \A y \in Xfers : XferOK(y)'
  BY <1>1, <1>2, <1>3, CallXfers
<1> QED
  BY <1>3, <1>4 DEF XferInv

LEMMA InCallXfers ==
    ASSUME MapInv, XferInv, NEW p \in Procs, InCall(p), UNCHANGED xfer
    PROVE  XferInv'
<1>1. HeapGrows /\ Others(p) /\ pc[p] # "idle" /\ UNCHANGED calls
  BY InCallGrows
<1>2. ASSUME NEW y \in Xfers PROVE XferOK(y)'
  <2>1. y \in Procs /\ XferOK(y)
    BY TransferAssumption DEF XferInv
  <2>2. (pc'[y] = pc[y] /\ ret'[y] = ret[y]) \/ pc[y] # "idle"
    BY <1>1, <2>1 DEF Others
  <2> QED
    BY <1>1, <2>1, <2>2, XferKeeps
<1> QED
  BY <1>2 DEF XferInv

LEMMA TransferStep ==
    ASSUME MapInv, XferInv, [Next]_vars
    PROVE  XferInv'
<1>1. CASE UNCHANGED vars
  BY <1>1 DEF vars, mapVars, XferInv, XferOK, ZoneOf
<1>2. ASSUME NEW p \in Procs, InCall(p), UNCHANGED xfer PROVE XferInv'
  BY <1>2, InCallXfers
<1>3. ASSUME NEW w \in Writers, Write(w) PROVE XferInv'
  BY <1>3, WriteXfers
<1>4. ASSUME NEW x \in Xfers, ReadOther(x) \/ Transfer(x) PROVE XferInv'
  <2>1. ASSUME BeginUDP(x) PROVE XferInv'
    BY <2>1, Stops DEF BeginUDP
  <2> QED
    BY <1>4, <2>1, ReadOtherStep, BeginTCPStep, OpenStep, NextKeyStep, NextRecordStep,
       LastFlushStep, CloseStep, FinishStep DEF Transfer
<1> QED
  BY <1>1, <1>2, <1>3, <1>4 DEF Next

LEMMA TransferInit == Init => XferInv
<1> SUFFICES ASSUME Init PROVE XferInv
  OBVIOUS
<1>1. NoXfer \in XferType /\ NoXfer.pc = "idle" /\ NoXfer = [NoXfer EXCEPT !.pc = "idle"]
  <2>1. <<>> \in Seq(Msg) /\ <<>> \in Seq(Entry)
    OBVIOUS
  <2> QED
    BY <2>1 DEF NoXfer, XferType
<1>2. xfer = [x \in Xfers |-> NoXfer]
  BY DEF Init
<1> QED
  BY <1>1, <1>2 DEF XferInv, XferOK

LEMMA AlwaysInv == Spec => [](MapInv /\ XferInv)
<1>1. Init => MapInv /\ XferInv
  BY MapInitStep, TransferInit
<1>2. MapInv /\ XferInv /\ [Next]_vars => MapInv' /\ XferInv'
  BY NextStep, TransferStep
<1> QED
  BY <1>1, <1>2, PTL DEF Spec

\* The store's map, its Zones and its slices are well formed whatever the
\* goroutines do: no reference dangles, no rrset is left empty, and the lock is
\* a goroutine's (internal/store/rwmutex.go).
THEOREM StoreWellFormed == Spec => []TypeOK
<1>1. ASSUME MapInv, XferInv PROVE TypeOK
  <2>1. /\ StoreOK(zones, zoneHeap, sliceHeap) /\ HeapOK(zoneHeap, sliceHeap) /\ MapTypes
    BY <1>1 DEF MapInv, StoreOK
  <2>2. zones \in [Apexes -> 0 .. Len(zoneHeap)]
    BY <2>1 DEF StoreOK
  <2>3. ASSUME NEW z \in DOMAIN zoneHeap
        PROVE  /\ zoneHeap[z].name \in Apexes
               /\ DOMAIN zoneHeap[z].recs \subseteq Keys
               /\ Range(zoneHeap[z].recs) \subseteq DOMAIN sliceHeap
    BY <2>1 DEF HeapOK, ZoneOK, Range
  <2>4. ASSUME NEW s \in DOMAIN sliceHeap
        PROVE  sliceHeap[s] # <<>> /\ Range(sliceHeap[s]) \subseteq Entry
    BY <2>1, SeqIsSeq DEF HeapOK
  <2>5. mu \subseteq Procs
    BY <1>1 DEF MapInv
  <2>6. \A x \in Xfers : xfer[x].left \subseteq Keys
    BY <1>1 DEF XferInv, XferOK, XferType
  <2> QED
    BY <2>1, <2>2, <2>3, <2>4, <2>5, <2>6 DEF TypeOK, MapTypes
<1> QED
  BY <1>1, AlwaysInv, PTL

\* A transfer that went through carried the zone as FindZone found it, every
\* record once, between the two SOAs, in batches of at most BatchSize, however
\* many writers published other versions meanwhile (serveAXFR,
\* internal/dns/handler.go:218-286).
THEOREM TransfersComplete == Spec => []TransferComplete
<1>1. ASSUME XferInv PROVE TransferComplete
  <2> SUFFICES ASSUME NEW x \in Xfers, xfer[x].pc = "sent"
               PROVE  LET sent == xfer[x].sent
                          body == 2 .. Len(sent) - 1
                      IN /\ Len(sent) >= 2 /\ sent[1] = SOAMsg /\ sent[Len(sent)] = SOAMsg
                         /\ \A m \in body : ~sent[m].soa /\ Len(sent[m].recs) \in 1 .. BatchSize
                         /\ UNION {Range(sent[m].recs) : m \in body} = ZoneRecs(ZoneOf(x))
                         /\ \A m, n \in body :
                               \A i \in DOMAIN sent[m].recs, j \in DOMAIN sent[n].recs :
                                 sent[m].recs[i] = sent[n].recs[j] => m = n /\ i = j
    BY DEF TransferComplete
  <2> DEFINE t == xfer[x]
             S == t.sent
             n == Len(S) - 1
  <2>1. SentOK(t, zoneHeap[ZoneOf(x)], sliceHeap) /\ S \in Seq(Msg)
    BY <1>1 DEF XferInv, XferOK, XferType
  <2>2. /\ n >= 1 /\ S[1] = SOAMsg /\ S[n + 1] = SOAMsg /\ Bodies(S, n) /\ Once(S, n)
        /\ Carries(S, n) = ObjRecs(zoneHeap[ZoneOf(x)], sliceHeap)
    BY <2>1 DEF SentOK
  <2>3. Len(S) >= 2 /\ n + 1 = Len(S)
    BY <2>1, <2>2
  <2>4. UNION {Range(S[m].recs) : m \in 2 .. n} = ZoneRecs(ZoneOf(x))
    BY <2>2 DEF Carries, ObjRecs, ZoneRecs
  <2> QED
    BY <2>2, <2>3, <2>4 DEF Bodies, Once
<1> QED
  BY <1>1, AlwaysInv, PTL
=============================================================================
