-------------------------- MODULE WeightedPickProofs --------------------------
(***************************************************************************)
(* The weight cache never goes back to an older publication, and a record  *)
(* is drawn in proportion to its weight, for every set of keys, contents   *)
(* and rrsets.                                                             *)
(***************************************************************************)
EXTENDS WeightedPick, DnsNamesProofs, FiniteSetTheorems

WatchSteps == {"none", "pull", "store", "listen", "end"}

\* A content of the server, with the number of its publication.
Numbered(p, limit) == p.num \in Nat /\ p.num <= limit

\* The order in which publications reach the cache of a key: of the content c
\* that the server holds, the pull p, the queue q and the number w of the
\* cached map, with pub publications so far, the watch at step st, and lis if
\* its listener is registered.  What is stored is not newer than what is
\* queued, the queue is in order, and nothing is newer than what the server
\* holds.  Until the watch has stored its pull the cache is empty, and until
\* its listener is registered the queue is.
Ordered(c, pub, p, q, w, st, lis) ==
    /\ Numbered(c, pub)
    /\ Numbered(p, c.num)
    /\ q \in Seq([content : Contents, num : Nat])
    /\ \A i \in 1 .. Len(q) : Numbered(q[i], c.num)
    /\ \A i, j \in 1 .. Len(q) : i <= j => q[i].num <= q[j].num
    /\ w \in Int /\ w <= c.num
    /\ \A i \in 1 .. Len(q) : w <= q[i].num
    /\ st # "end" => ~lis /\ q = <<>>
    /\ st \in {"none", "pull", "store"} => w = -1

InOrder(k) == Ordered(server[k], published, pulled[k], queue[k], weights[k].num,
                      watch[k], listening[k])

NacosTypes ==
    /\ published \in Nat
    /\ server \in [Keys -> [content : Contents, num : Nat]]
    /\ watch \in [Keys -> WatchSteps]
    /\ DOMAIN pulled = Keys /\ DOMAIN weights = Keys
    /\ DOMAIN queue = Keys /\ DOMAIN listening = Keys

NacosInv == NacosTypes /\ \A k \in Keys : InOrder(k)

\* A cached map never becomes older.
NotOlder == \A k \in Keys : weights'[k].num >= weights[k].num
-----------------------------------------------------------------------------
LEMMA NacosInitInv == Init => NacosInv
<1> SUFFICES ASSUME Init PROVE NacosInv
  OBVIOUS
<1>1. NacosTypes
  BY DEF Init, NacosInit, NacosTypes, WatchSteps
<1>2. ASSUME NEW k \in Keys PROVE InOrder(k)
  <2>1. /\ server[k].num = 0 /\ published = 0 /\ pulled[k].num = 0
        /\ queue[k] = <<>> /\ weights[k].num = -1 /\ ~listening[k]
    BY DEF Init, NacosInit, NoPull
  <2> QED
    BY <2>1 DEF InOrder, Ordered, Numbered
<1> QED
  BY <1>1, <1>2 DEF NacosInv

\* What update does to the cache.
LEMMA UpdateCache ==
    ASSUME DOMAIN weights = Keys, NEW k \in Keys, NEW p, update(k, p)
    PROVE  /\ DOMAIN weights' = Keys
           /\ \A j \in Keys \ {k} : weights'[j] = weights[j]
           /\ weights'[k].num = weights[k].num \/ weights'[k].num = p.num
<1>1. CASE p.content.kind # "map"
  BY <1>1 DEF update
<1>2. CASE p.content.kind = "map"
  <2>1. weights' = [weights EXCEPT ![k] = [ws |-> p.content.ws, num |-> p.num]]
    BY <1>2 DEF update
  <2> QED
    BY <2>1
<1> QED
  BY <1>1, <1>2

\* A step that concerns key k alone leaves the other keys in order.
LEMMA OneKey ==
    ASSUME NacosInv, NacosTypes', NEW k \in Keys,
           InOrder(k)' /\ weights'[k].num >= weights[k].num,
           published' = published \/ published' = published + 1,
           \A j \in Keys \ {k} :
              /\ server'[j] = server[j] /\ pulled'[j] = pulled[j]
              /\ queue'[j] = queue[j] /\ weights'[j] = weights[j]
              /\ watch'[j] = watch[j] /\ listening'[j] = listening[j]
    PROVE  NacosInv' /\ NotOlder
<1>1. ASSUME NEW j \in Keys \ {k} PROVE InOrder(j)' /\ weights'[j].num >= weights[j].num
  <2>1. Ordered(server[j], published, pulled[j], queue[j], weights[j].num,
                watch[j], listening[j])
    BY DEF NacosInv, InOrder
  <2>2. Ordered(server[j], published', pulled[j], queue[j], weights[j].num,
                watch[j], listening[j])
    BY <2>1 DEF Ordered, Numbered, NacosInv, NacosTypes
  <2>3. weights[j].num \in Int
    BY <2>1 DEF Ordered
  <2> QED
    BY <2>2, <2>3 DEF InOrder
<1> QED
  BY <1>1 DEF NacosInv, NotOlder

LEMMA PublishInOrder ==
    ASSUME NacosInv, NEW k \in Keys, NEW c \in Contents, Publish(k, c)
    PROVE  NacosInv' /\ NotOlder
<1>1. /\ published' = published + 1 /\ published \in Nat
      /\ server' = [server EXCEPT ![k] = [content |-> c, num |-> published + 1]]
      /\ UNCHANGED <<watch, pulled, listening, queue, weights>>
  BY DEF Publish, NacosInv, NacosTypes
<1>2. NacosTypes'
  BY <1>1 DEF NacosInv, NacosTypes
<1>3. server'[k].num = published + 1 /\ InOrder(k)
  BY <1>1 DEF NacosInv, NacosTypes
<1>4. InOrder(k)' /\ weights'[k].num >= weights[k].num
  BY <1>1, <1>3 DEF InOrder, Ordered, Numbered
<1> QED
  BY <1>1, <1>2, <1>4, OneKey DEF NacosInv, NacosTypes

\* A step of the watch of key k touches neither the server nor the queue.
LEMMA WatchInOrder ==
    ASSUME NacosInv, NEW k \in Keys,
           StartWatch(k) \/ GetConfig(k) \/ StorePulled(k) \/ ListenConfig(k)
    PROVE  NacosInv' /\ NotOlder
<1>1. InOrder(k)
  BY DEF NacosInv
<1>2. CASE StartWatch(k)
  <2>1. /\ watch[k] = "none" /\ watch' = [watch EXCEPT ![k] = "pull"]
        /\ UNCHANGED <<server, published, pulled, listening, queue, weights>>
    BY <1>2 DEF StartWatch, Goto, After, Watched
  <2>2. NacosTypes' /\ watch'[k] = "pull"
    BY <2>1 DEF NacosInv, NacosTypes, WatchSteps
  <2>3. InOrder(k)' /\ weights'[k].num >= weights[k].num
    BY <1>1, <2>1, <2>2 DEF InOrder, Ordered
  <2> QED
    BY <2>1, <2>2, <2>3, OneKey DEF NacosInv, NacosTypes
<1>3. CASE GetConfig(k)
  <2>1. /\ watch[k] = "pull" /\ watch' = [watch EXCEPT ![k] = "store"]
        /\ UNCHANGED <<server, published, listening, queue, weights>>
        /\ \A j \in Keys \ {k} : pulled'[j] = pulled[j]
        /\ DOMAIN pulled' = Keys
        /\ pulled'[k] \in {server[k], NoPull}
    BY <1>3 DEF GetConfig, Goto, After, NacosInv, NacosTypes
  <2>2. NacosTypes' /\ watch'[k] = "store"
    BY <2>1 DEF NacosInv, NacosTypes, WatchSteps
  <2>3. Numbered(pulled'[k], server[k].num)
    BY <1>1, <2>1 DEF InOrder, Ordered, Numbered, NoPull
  <2>4. InOrder(k)' /\ weights'[k].num >= weights[k].num
    BY <1>1, <2>1, <2>2, <2>3 DEF InOrder, Ordered
  <2> QED
    BY <2>1, <2>2, <2>4, OneKey DEF NacosInv, NacosTypes
<1>4. CASE StorePulled(k)
  <2>1. /\ watch[k] = "store" /\ watch' = [watch EXCEPT ![k] = "listen"]
        /\ UNCHANGED <<server, published, pulled, listening, queue>>
        /\ update(k, pulled[k])
    BY <1>4 DEF StorePulled, Goto, After
  <2>2. /\ DOMAIN weights' = Keys
        /\ \A j \in Keys \ {k} : weights'[j] = weights[j]
        /\ weights'[k].num = weights[k].num \/ weights'[k].num = pulled[k].num
    BY <2>1, UpdateCache DEF NacosInv, NacosTypes
  <2>3. NacosTypes' /\ watch'[k] = "listen"
    BY <2>1, <2>2 DEF NacosInv, NacosTypes, WatchSteps
  <2>4. InOrder(k)' /\ weights'[k].num >= weights[k].num
    BY <1>1, <2>1, <2>2, <2>3 DEF InOrder, Ordered, Numbered
  <2> QED
    BY <2>1, <2>2, <2>3, <2>4, OneKey DEF NacosInv, NacosTypes
<1>5. CASE ListenConfig(k)
  <2>1. /\ watch[k] = "listen" /\ watch' = [watch EXCEPT ![k] = "end"]
        /\ \A j \in Keys \ {k} : listening'[j] = listening[j]
        /\ DOMAIN listening' = Keys
        /\ pulled' = [pulled EXCEPT ![k] = NoPull]
        /\ UNCHANGED <<server, published, queue, weights>>
    BY <1>5 DEF ListenConfig, Goto, After, NacosInv, NacosTypes
  <2>2. NacosTypes' /\ watch'[k] = "end" /\ pulled'[k].num = 0
    BY <2>1 DEF NacosInv, NacosTypes, WatchSteps, NoPull
  <2>3. InOrder(k)' /\ weights'[k].num >= weights[k].num
    BY <1>1, <2>1, <2>2 DEF InOrder, Ordered, Numbered
  <2> QED
    BY <2>1, <2>2, <2>3, OneKey DEF NacosInv, NacosTypes
<1> QED
  BY <1>2, <1>3, <1>4, <1>5

\* The library appends what is newer than all it has pushed.
LEMMA PushInOrder ==
    ASSUME NacosInv, NEW k \in Keys, Push(k)
    PROVE  NacosInv' /\ NotOlder
<1> DEFINE q == queue[k]
           r == queue'[k]
<1>1. /\ listening[k] /\ queue' = [queue EXCEPT ![k] = Append(q, server[k])]
      /\ UNCHANGED <<server, published, watch, pulled, listening, weights>>
  BY DEF Push
<1>2. NacosTypes' /\ r = Append(q, server[k])
  BY <1>1 DEF NacosInv, NacosTypes
<1>3. InOrder(k) /\ q \in Seq([content : Contents, num : Nat])
      /\ server[k] \in [content : Contents, num : Nat] /\ server[k].num \in Nat
  BY DEF NacosInv, NacosTypes, InOrder, Ordered
<1>4. /\ \A i \in 1 .. Len(q) : Numbered(q[i], server[k].num)
      /\ \A i \in 1 .. Len(q) : weights[k].num <= q[i].num
      /\ \A i, j \in 1 .. Len(q) : i <= j => q[i].num <= q[j].num
      /\ weights[k].num \in Int /\ weights[k].num <= server[k].num
      /\ watch[k] = "end"
  BY <1>1, <1>3 DEF InOrder, Ordered
<1>5. /\ r \in Seq([content : Contents, num : Nat])
      /\ Len(r) = Len(q) + 1 /\ Len(q) \in Nat
      /\ \A i \in 1 .. Len(q) : r[i] = q[i]
      /\ r[Len(q) + 1] = server[k]
  BY <1>2, <1>3
<1> HIDE DEF q, r
<1>6. ASSUME NEW i \in 1 .. Len(r)
      PROVE  /\ Numbered(r[i], server[k].num)
             /\ weights[k].num <= r[i].num
  <2>1. CASE i \in 1 .. Len(q)
    BY <2>1, <1>4, <1>5
  <2>2. CASE i = Len(q) + 1
    BY <2>2, <1>3, <1>4, <1>5 DEF Numbered
  <2> QED
    BY <2>1, <2>2, <1>5
<1>7. ASSUME NEW i \in 1 .. Len(r), NEW j \in 1 .. Len(r), i <= j
      PROVE  r[i].num <= r[j].num
  <2>1. CASE j \in 1 .. Len(q)
    <3>1. i \in 1 .. Len(q)
      BY <2>1, <1>5, <1>7
    <3> QED
      BY <3>1, <2>1, <1>4, <1>5, <1>7
  <2>2. CASE j = Len(q) + 1
    BY <2>2, <1>5, <1>6 DEF Numbered
  <2> QED
    BY <2>1, <2>2, <1>5
<1>8. Ordered(server[k], published, pulled[k], r, weights[k].num, watch[k], listening[k])
  BY <1>3, <1>4, <1>5, <1>6, <1>7 DEF InOrder, Ordered
<1>9. InOrder(k)' /\ weights'[k].num >= weights[k].num
  <2>1. InOrder(k)'
    BY <1>1, <1>8 DEF InOrder, r
  <2> QED
    BY <2>1, <1>1, <1>4
<1> QED
  BY <1>1, <1>2, <1>9, OneKey DEF NacosInv, NacosTypes

\* The oldest push is not older than the cache, and not newer than the others.
LEMMA OnChangeInOrder ==
    ASSUME NacosInv, NEW k \in Keys, OnChange(k)
    PROVE  NacosInv' /\ NotOlder
<1> DEFINE q == queue[k]
           r == queue'[k]
           w == weights'[k].num
<1>1. /\ q # <<>> /\ queue' = [queue EXCEPT ![k] = Tail(q)]
      /\ update(k, Head(q))
      /\ UNCHANGED <<server, published, watch, pulled, listening>>
  BY DEF OnChange
<1>2. /\ DOMAIN weights' = Keys
      /\ \A j \in Keys \ {k} : weights'[j] = weights[j]
      /\ w = weights[k].num \/ w = Head(q).num
  BY <1>1, UpdateCache DEF NacosInv, NacosTypes
<1>3. NacosTypes' /\ r = Tail(q)
  BY <1>1, <1>2 DEF NacosInv, NacosTypes
<1>4. InOrder(k) /\ q \in Seq([content : Contents, num : Nat])
  BY DEF NacosInv, InOrder, Ordered
<1>5. /\ \A i \in 1 .. Len(q) : Numbered(q[i], server[k].num)
      /\ \A i \in 1 .. Len(q) : weights[k].num <= q[i].num
      /\ \A i, j \in 1 .. Len(q) : i <= j => q[i].num <= q[j].num
      /\ weights[k].num \in Int /\ weights[k].num <= server[k].num
      /\ watch[k] = "end"
  BY <1>1, <1>4 DEF InOrder, Ordered
<1>6. /\ r \in Seq([content : Contents, num : Nat])
      /\ Len(q) \in Nat /\ Len(q) >= 1 /\ Len(r) = Len(q) - 1
      /\ \A i \in 1 .. Len(r) : r[i] = q[i + 1]
      /\ Head(q) = q[1]
  <2>1. /\ Tail(q) \in Seq([content : Contents, num : Nat])
        /\ Len(Tail(q)) = Len(q) - 1
        /\ \A i \in 1 .. Len(Tail(q)) : Tail(q)[i] = q[i + 1]
    BY <1>1, <1>4, HeadTailProperties
  <2>2. Len(q) \in Nat /\ Len(q) >= 1 /\ Head(q) = q[1]
    BY <1>1, <1>4
  <2> QED
    BY <1>3, <2>1, <2>2
<1> HIDE DEF q, r, w
<1>7. /\ \A i \in 1 .. Len(r) : i + 1 \in 1 .. Len(q) /\ r[i] = q[i + 1]
      /\ 1 \in 1 .. Len(q)
  <2>1. \A i \in 1 .. Len(r) : i + 1 \in 1 .. Len(q)
    BY <1>6
  <2>2. 1 \in 1 .. Len(q)
    BY <1>6
  <2> QED
    BY <1>6, <2>1, <2>2
<1>8. /\ w \in Int /\ w >= weights[k].num /\ w <= server[k].num
      /\ \A i \in 1 .. Len(q) : w <= q[i].num
  <2>1. CASE w = weights[k].num
    BY <2>1, <1>5
  <2>2. CASE w = q[1].num
    BY <2>2, <1>5, <1>7 DEF Numbered
  <2> QED
    BY <2>1, <2>2, <1>2, <1>6
<1>9. ASSUME NEW i \in 1 .. Len(r), NEW j \in 1 .. Len(r), i <= j
      PROVE  r[i].num <= r[j].num
  <2>1. /\ i + 1 \in 1 .. Len(q) /\ j + 1 \in 1 .. Len(q) /\ i + 1 <= j + 1
        /\ r[i] = q[i + 1] /\ r[j] = q[j + 1]
    BY <1>6, <1>7, <1>9
  <2> QED
    BY <2>1, <1>5
<1>10. \A i \in 1 .. Len(r) : Numbered(r[i], server[k].num) /\ w <= r[i].num
  BY <1>5, <1>7, <1>8
<1>11. Ordered(server[k], published, pulled[k], r, w, watch[k], listening[k])
  BY <1>4, <1>5, <1>6, <1>8, <1>9, <1>10 DEF InOrder, Ordered
<1>12. InOrder(k)' /\ weights'[k].num >= weights[k].num
  BY <1>1, <1>8, <1>11 DEF InOrder, r, w
<1> QED
  BY <1>1, <1>2, <1>3, <1>12, OneKey DEF NacosInv, NacosTypes

\* A step of a query at most starts the watch of its key.
LEMMA QueryInOrder ==
    ASSUME NacosInv,
           UNCHANGED <<server, published, pulled, listening, queue, weights>>,
           \E k : Goto(k, IF Watched(k) THEN watch[k] ELSE After("none"))
    PROVE  NacosInv' /\ NotOlder
<1>1. PICK k : watch' = [watch EXCEPT ![k] = IF watch[k] # "none" THEN watch[k] ELSE "pull"]
  BY DEF Goto, Watched, After
<1>2. ASSUME NEW j \in Keys
      PROVE  watch'[j] = watch[j] \/ (watch[j] = "none" /\ watch'[j] = "pull")
  <2>1. DOMAIN watch = Keys
    BY DEF NacosInv, NacosTypes
  <2>2. watch'[j] = IF j = k THEN IF watch[k] # "none" THEN watch[k] ELSE "pull"
                    ELSE watch[j]
    BY <1>1, <2>1
  <2> QED
    BY <2>2
<1>3. watch' = [j \in Keys |-> watch'[j]]
  <2>1. watch = [j \in Keys |-> watch[j]]
    BY DEF NacosInv, NacosTypes
  <2> QED
    BY <1>1, <2>1
<1>4. NacosTypes'
  BY <1>2, <1>3 DEF NacosInv, NacosTypes, WatchSteps
<1>5. ASSUME NEW j \in Keys PROVE InOrder(j)' /\ weights'[j].num >= weights[j].num
  <2>1. Ordered(server[j], published, pulled[j], queue[j], weights[j].num,
                watch[j], listening[j])
    BY DEF NacosInv, InOrder
  <2>2. Ordered(server[j], published, pulled[j], queue[j], weights[j].num,
                watch'[j], listening[j])
    BY <1>2, <2>1 DEF Ordered
  <2>3. weights[j].num \in Int
    BY <2>1 DEF Ordered
  <2> QED
    BY <2>2, <2>3 DEF InOrder
<1> QED
  BY <1>4, <1>5 DEF NacosInv, NotOlder

LEMMA NacosUnchanged ==
    ASSUME NacosInv, UNCHANGED <<server, published, watch, pulled, listening, queue, weights>>
    PROVE  NacosInv' /\ NotOlder
<1>1. \A k \in Keys : weights[k].num \in Int
  BY DEF NacosInv, InOrder, Ordered
<1> QED
  BY <1>1 DEF NacosInv, NacosTypes, InOrder, NotOlder

\* The order is kept by every step, and no step takes the cache back.
LEMMA NacosNext == NacosInv /\ [Next]_vars => NacosInv' /\ NotOlder
<1> SUFFICES ASSUME NacosInv, [Next]_vars PROVE NacosInv' /\ NotOlder
  OBVIOUS
<1>1. ASSUME NEW k \in Keys, NacosStep(k) PROVE NacosInv' /\ NotOlder
  BY <1>1, PublishInOrder, WatchInOrder, PushInOrder, OnChangeInOrder DEF NacosStep
<1>2. CASE NacosGetWeights
  BY <1>2, QueryInOrder DEF NacosGetWeights
<1>3. CASE \/ StartReturns \/ StaticGetWeights \/ EndPick
           \/ \E k \in Keys, rr \in RRsets : BeginPick(k, rr)
           \/ \E rr \in RRsets \cup {<<>>} : ChangeRRset(rr) \/ UNCHANGED vars
  BY <1>3, NacosUnchanged
     DEF StartReturns, StaticGetWeights, EndPick, BeginPick, ChangeRRset, nacosVars, vars
<1> QED
  BY <1>1, <1>2, <1>3 DEF Next

\* The cached weights of a key never go back to an older publication, however
\* the pull, the pushes and the publications are interleaved
\* (internal/weight/nacos.go:93-107).
THEOREM NeverBack == Spec => WeightsNeverGoBack
<1>1. NacosInv /\ [Next]_vars => [\A k \in Keys : weights'[k].num >= weights[k].num]_vars
  BY NacosNext DEF NotOlder
<1> QED
  BY <1>1, NacosInitInv, NacosNext, PTL DEF Spec, WeightsNeverGoBack
-----------------------------------------------------------------------------
(***************************************************************************)
(* The loops of pick, by the induction of DnsNamesProofs.                  *)
(***************************************************************************)
\* The code's loop over the weights: the equation that Totals solves has a
\* solution up to any index, so that Totals satisfies it.
LEMMA TotalsLoop ==
    ASSUME NEW ws, Len(ws) \in Nat
    PROVE  /\ Totals(ws)[0] = 0
           /\ \A i \in 1 .. Len(ws) : Totals(ws)[i] = Wrap(Totals(ws)[i - 1] + ws[i])
<1> DEFINE Eq(g, n) == g = [i \in 0 .. n |-> IF i = 0 THEN 0 ELSE Wrap(g[i - 1] + ws[i])]
           Solved == {n \in Nat : \E g : Eq(g, n)}
<1>1. 0 \in Solved
  <2>1. Eq([i \in 0 .. 0 |-> 0], 0)
    OBVIOUS
  <2> QED
    BY <2>1
<1>2. ASSUME NEW n \in Nat, n \in Solved PROVE n + 1 \in Solved
  <2>1. PICK g : Eq(g, n)
    BY <1>2
  <2> DEFINE h == [i \in 0 .. n + 1 |-> IF i = n + 1 THEN Wrap(g[n] + ws[n + 1])
                                        ELSE g[i]]
  <2>2. ASSUME NEW i \in 0 .. n + 1
        PROVE  h[i] = IF i = 0 THEN 0 ELSE Wrap(h[i - 1] + ws[i])
    <3>1. CASE i = n + 1
      <4>1. i # 0 /\ i - 1 = n /\ n \in 0 .. n + 1 /\ n # n + 1
        BY <3>1
      <4>2. h[n] = g[n]
        BY <4>1
      <4> QED
        BY <3>1, <4>1, <4>2
    <3>2. CASE i # n + 1
      <4>1. i \in 0 .. n /\ (i # 0 => i - 1 \in 0 .. n + 1 /\ i - 1 # n + 1)
        BY <3>2
      <4>2. g[i] = IF i = 0 THEN 0 ELSE Wrap(g[i - 1] + ws[i])
        BY <2>1, <4>1
      <4>3. h[i] = g[i] /\ (i # 0 => h[i - 1] = g[i - 1])
        BY <3>2, <4>1
      <4> QED
        BY <4>2, <4>3
    <3> QED
      BY <3>1, <3>2
  <2>3. Eq(h, n + 1)
    <3>1. h = [i \in 0 .. n + 1 |-> h[i]]
      OBVIOUS
    <3> HIDE DEF h
    <3> QED
      BY <2>2, <3>1
  <2> HIDE DEF h, Eq
  <2> QED
    BY <2>3
<1>3. Len(ws) \in Solved
  <2> HIDE DEF Solved
  <2> QED
    BY <1>1, <1>2, SetInduction
<1>4. PICK g : Eq(g, Len(ws))
  BY <1>3
<1>5. Totals(ws) = CHOOSE h : Eq(h, Len(ws))
  BY DEF Totals
<1> HIDE DEF Eq
<1>6. Eq(Totals(ws), Len(ws))
  BY <1>4, <1>5
<1>7. Totals(ws) = [i \in 0 .. Len(ws) |->
                       IF i = 0 THEN 0 ELSE Wrap(Totals(ws)[i - 1] + ws[i])]
  BY <1>6 DEF Eq
<1> HIDE DEF Totals
<1>8. \A i \in 0 .. Len(ws) :
         Totals(ws)[i] = IF i = 0 THEN 0 ELSE Wrap(Totals(ws)[i - 1] + ws[i])
  BY <1>7
<1>9. 0 \in 0 .. Len(ws) /\ \A i \in 1 .. Len(ws) : i \in 0 .. Len(ws) /\ i # 0
  OBVIOUS
<1> QED
  BY <1>8, <1>9

\* Weights that fit: positive, and Len(ws) times each of them is an int.
Fitting(ws) ==
    /\ ws \in Seq(Nat \ {0}) /\ Len(ws) >= 1
    /\ \A i \in 1 .. Len(ws) : Len(ws) * ws[i] <= MaxInt

LEMMA WrapInt == \A x \in 0 .. MaxInt : Wrap(x) = x
<1> SUFFICES ASSUME NEW x \in 0 .. MaxInt PROVE Wrap(x) = x
  OBVIOUS
<1> DEFINE a == x + MaxInt + 1
           b == 2 * (MaxInt + 1)
<1>1. a \in Nat /\ b \in Nat /\ a < b /\ MaxInt \in Nat
  BY PickAssumption
<1>2. \A c, d \in Nat : c < d => c % d = c
  OBVIOUS
<1>3. a % b = a
  BY <1>1, <1>2
<1> QED
  BY <1>1, <1>3 DEF Wrap

\* No sum of weights that fit overflows, and the sums grow with each record.
LEMMA TotalsGrow ==
    ASSUME NEW ws, Fitting(ws)
    PROVE  /\ \A i \in 0 .. Len(ws) : Totals(ws)[i] \in 0 .. MaxInt
           /\ Totals(ws)[0] = 0
           /\ \A i \in 1 .. Len(ws) : Totals(ws)[i] = Totals(ws)[i - 1] + ws[i]
<1> DEFINE L == Len(ws)
           t == Totals(ws)
           S == {i \in Nat : i <= L => t[i] \in Nat /\ L * t[i] <= i * MaxInt}
<1>1. L \in Nat /\ L >= 1 /\ MaxInt \in Nat
  BY PickAssumption DEF Fitting
<1>2. t[0] = 0 /\ \A i \in 1 .. L : t[i] = Wrap(t[i - 1] + ws[i])
  BY <1>1, TotalsLoop
<1>3. \A i \in 1 .. L : ws[i] \in Nat \ {0} /\ L * ws[i] <= MaxInt
  BY DEF Fitting
<1> HIDE DEF L, t
<1>4. ASSUME NEW x \in Nat, NEW i \in Nat, i <= L, L * x <= i * MaxInt
      PROVE  x \in 0 .. MaxInt
  <2> SUFFICES ASSUME x >= MaxInt + 1 PROVE FALSE
    BY <1>1
  <2>1. L * x >= L * (MaxInt + 1)
    BY <1>1
  <2>2. L * (MaxInt + 1) = L * MaxInt + L
    BY <1>1
  <2>3. i * MaxInt <= L * MaxInt
    BY <1>1, <1>4
  <2>4. L * x \in Nat /\ L * MaxInt \in Nat /\ i * MaxInt \in Nat
    BY <1>1
  <2> QED
    BY <1>1, <1>4, <2>1, <2>2, <2>3, <2>4
<1>5. ASSUME NEW i \in Nat, i + 1 <= L, t[i] \in Nat, L * t[i] <= i * MaxInt
      PROVE  /\ t[i + 1] = t[i] + ws[i + 1] /\ t[i + 1] \in Nat
             /\ L * t[i + 1] <= (i + 1) * MaxInt
  <2> DEFINE w == ws[i + 1]
  <2>1. i + 1 \in 1 .. L /\ (i + 1) - 1 = i
    BY <1>1, <1>5
  <2>2. w \in Nat /\ L * w <= MaxInt /\ t[i + 1] = Wrap(t[i] + w)
    BY <1>2, <1>3, <2>1
  <2> HIDE DEF w
  <2>3. L * (t[i] + w) = L * t[i] + L * w /\ (i + 1) * MaxInt = i * MaxInt + MaxInt
    BY <1>1, <1>5, <2>2
  <2>4. L * t[i] \in Nat /\ L * w \in Nat /\ i * MaxInt \in Nat
    BY <1>1, <1>5, <2>2
  <2>5. L * (t[i] + w) <= (i + 1) * MaxInt
    BY <1>1, <1>5, <2>2, <2>3, <2>4
  <2>6. t[i] + w \in 0 .. MaxInt
    BY <1>4, <1>5, <2>2, <2>5
  <2>7. t[i + 1] = t[i] + w
    BY <2>2, <2>6, WrapInt
  <2> QED
    BY <2>5, <2>6, <2>7, <1>1 DEF w
<1>6. Nat \subseteq S
  <2>1. 0 \in S
    BY <1>1, <1>2
  <2>2. ASSUME NEW i \in Nat, i \in S PROVE i + 1 \in S
    <3> SUFFICES ASSUME i + 1 <= L
                 PROVE  t[i + 1] \in Nat /\ L * t[i + 1] <= (i + 1) * MaxInt
      OBVIOUS
    <3>1. i <= L
      BY <1>1
    <3> QED
      BY <1>5, <2>2, <3>1
  <2> HIDE DEF S
  <2> QED
    BY <2>1, <2>2, SetInduction
<1>7. ASSUME NEW i \in 0 .. L PROVE t[i] \in 0 .. MaxInt
  <2>1. i \in S /\ i <= L /\ i \in Nat
    BY <1>1, <1>6
  <2> QED
    BY <1>4, <2>1
<1>8. ASSUME NEW i \in 1 .. L PROVE t[i] = t[i - 1] + ws[i]
  <2>1. i - 1 \in Nat /\ (i - 1) + 1 = i /\ i <= L /\ i - 1 <= L /\ i - 1 \in S
    BY <1>1, <1>6
  <2> QED
    BY <1>5, <2>1
<1> QED
  BY <1>2, <1>7, <1>8 DEF L, t

\* A later sum is larger.
LEMMA TotalsOrder ==
    ASSUME NEW ws, Fitting(ws), NEW i \in 0 .. Len(ws), NEW j \in 0 .. Len(ws), i <= j
    PROVE  Totals(ws)[i] <= Totals(ws)[j]
<1> DEFINE L == Len(ws)
           t == Totals(ws)
           S == {d \in Nat : i + d <= L => t[i] <= t[i + d]}
<1>1. L \in Nat /\ \A k \in 1 .. L : ws[k] \in Nat
  BY DEF Fitting
<1>2. /\ \A k \in 0 .. L : t[k] \in Nat
      /\ \A k \in 1 .. L : t[k] = t[k - 1] + ws[k]
  BY TotalsGrow, PickAssumption
<1> HIDE DEF L, t
<1>3. i \in 0 .. L /\ j \in 0 .. L
  BY DEF L
<1>4. 0 \in S
  BY <1>2, <1>3
<1>5. ASSUME NEW d \in Nat, d \in S PROVE d + 1 \in S
  <2> SUFFICES ASSUME i + (d + 1) <= L PROVE t[i] <= t[i + (d + 1)]
    OBVIOUS
  <2>1. i + d <= L /\ i + d \in 0 .. L /\ i + (d + 1) \in 1 .. L
        /\ (i + (d + 1)) - 1 = i + d
    BY <1>1, <1>3
  <2>2. t[i + (d + 1)] = t[i + d] + ws[i + (d + 1)] /\ ws[i + (d + 1)] \in Nat
    BY <1>1, <1>2, <2>1
  <2> QED
    BY <1>2, <1>3, <1>5, <2>1, <2>2
<1>6. j - i \in Nat /\ i + (j - i) = j
  BY <1>1, <1>3
<1>7. j - i \in S
  <2> HIDE DEF S
  <2> QED
    BY <1>4, <1>5, <1>6, SetInduction
<1> QED
  BY <1>1, <1>3, <1>6, <1>7 DEF L, t

\* What is left of a draw is what the sums have not used.
LEMMA LeftOfDraw ==
    ASSUME NEW ws, Fitting(ws), NEW n \in Nat
    PROVE  \A i \in 0 .. Len(ws) : Left(ws, n)[i] = n - Totals(ws)[i]
<1> DEFINE L == Len(ws)
           t == Totals(ws)
           l == Left(ws, n)
           Eq(g) == g = [i \in 0 .. L |-> IF i = 0 THEN n ELSE g[i - 1] - ws[i]]
           S == {i \in Nat : i <= L => l[i] = n - t[i]}
<1>1. L \in Nat /\ \A k \in 1 .. L : ws[k] \in Nat
  BY DEF Fitting
<1>2. /\ t[0] = 0 /\ \A k \in 0 .. L : t[k] \in Nat
      /\ \A k \in 1 .. L : t[k] = t[k - 1] + ws[k]
  BY TotalsGrow, PickAssumption
<1>3. l = CHOOSE g : Eq(g)
  BY DEF Left
<1> HIDE DEF L, t, l
<1>4. Eq([i \in 0 .. L |-> n - t[i]])
  <2> DEFINE g == [i \in 0 .. L |-> n - t[i]]
  <2>1. ASSUME NEW i \in 0 .. L
        PROVE  g[i] = IF i = 0 THEN n ELSE g[i - 1] - ws[i]
    <3>1. CASE i = 0
      BY <3>1, <1>2
    <3>2. CASE i # 0
      <4>1. i \in 1 .. L /\ i - 1 \in 0 .. L
        BY <3>2, <1>1
      <4>2. t[i] = t[i - 1] + ws[i] /\ t[i - 1] \in Nat /\ ws[i] \in Nat
        BY <4>1, <1>1, <1>2
      <4> QED
        BY <3>2, <4>1, <4>2
    <3> QED
      BY <3>1, <3>2
  <2>2. g = [i \in 0 .. L |-> g[i]]
    OBVIOUS
  <2> HIDE DEF g
  <2>3. Eq(g)
    BY <2>1, <2>2
  <2> QED
    BY <2>3 DEF g
<1> HIDE DEF Eq
<1>5. Eq(l)
  BY <1>3, <1>4
<1>6. l = [i \in 0 .. L |-> IF i = 0 THEN n ELSE l[i - 1] - ws[i]]
  BY <1>5 DEF Eq
<1>7. \A i \in 0 .. L : l[i] = IF i = 0 THEN n ELSE l[i - 1] - ws[i]
  BY <1>6
<1>8. 0 \in S
  BY <1>1, <1>2, <1>7
<1>9. ASSUME NEW i \in Nat, i \in S PROVE i + 1 \in S
  <2> SUFFICES ASSUME i + 1 <= L PROVE l[i + 1] = n - t[i + 1]
    OBVIOUS
  <2>1. i <= L /\ i \in 0 .. L /\ i + 1 \in 0 .. L /\ i + 1 \in 1 .. L
        /\ (i + 1) - 1 = i /\ i + 1 # 0
    BY <1>1
  <2>2. l[i + 1] = l[i] - ws[i + 1] /\ t[i + 1] = t[i] + ws[i + 1]
    BY <1>2, <1>7, <2>1
  <2> QED
    BY <1>1, <1>2, <1>9, <2>1, <2>2
<1>10. Nat \subseteq S
  <2> HIDE DEF S
  <2> QED
    BY <1>8, <1>9, SetInduction
<1>11. ASSUME NEW i \in 0 .. L PROVE l[i] = n - t[i]
  <2>1. i \in Nat /\ i \in S /\ i <= L
    BY <1>1, <1>10
  <2> QED
    BY <2>1
<1> QED
  BY <1>11 DEF L, t, l

\* The draws that pick record i are those between two neighbouring sums.
LEMMA DrawPicks ==
    ASSUME NEW ws, Fitting(ws), NEW i \in 1 .. Len(ws), NEW n \in Nat,
           Totals(ws)[i - 1] <= n, n < Totals(ws)[i]
    PROVE  PickIndex(ws, n) = i
<1> DEFINE L == Len(ws)
           t == Totals(ws)
           neg == {k \in DOMAIN ws : Left(ws, n)[k] < 0}
<1>1. L \in Nat /\ DOMAIN ws = 1 .. L
  BY DEF Fitting
<1>2. \A k \in 0 .. L : t[k] \in Nat
  BY TotalsGrow, PickAssumption
<1>3. \A k \in 1 .. L : Left(ws, n)[k] = n - t[k]
  BY LeftOfDraw, <1>1
<1>4. i \in neg
  BY <1>1, <1>2, <1>3
<1>5. ASSUME NEW j \in neg PROVE i <= j
  <2>1. j \in 1 .. L /\ j \in 0 .. L /\ i - 1 \in 0 .. L /\ n < t[j]
    BY <1>1, <1>2, <1>3
  <2> SUFFICES ASSUME j <= i - 1 PROVE FALSE
    BY <1>1, <2>1
  <2>2. t[j] <= t[i - 1]
    BY <2>1, TotalsOrder
  <2> QED
    BY <1>2, <2>1, <2>2
<1>6. PickIndex(ws, n) = CHOOSE k \in DOMAIN ws : IF neg = {} THEN k = L
                                  ELSE k \in neg /\ \A j \in neg : k <= j
  BY DEF PickIndex
<1>7. neg \subseteq Int
  BY <1>1
<1> HIDE DEF neg
<1>8. i \in DOMAIN ws /\ neg # {} /\ i \in neg /\ \A j \in neg : i <= j
  BY <1>1, <1>4, <1>5
<1>9. \A k \in DOMAIN ws : (k \in neg /\ \A j \in neg : k <= j) => k = i
  BY <1>7, <1>8
<1> QED
  BY <1>6, <1>8, <1>9

\* Exactly as many draws pick a record as its weight says.
LEMMA Shares ==
    ASSUME NEW ws, Fitting(ws), NEW i \in 1 .. Len(ws)
    PROVE  Cardinality({n \in 0 .. Total(ws) - 1 : PickIndex(ws, n) = i}) = ws[i]
<1> DEFINE L == Len(ws)
           t == Totals(ws)
           D == {n \in 0 .. Total(ws) - 1 : PickIndex(ws, n) = i}
<1>1. L \in Nat /\ i \in 1 .. L /\ i - 1 \in 0 .. L /\ i \in 0 .. L /\ L \in 0 .. L
      /\ ws[i] \in Nat \ {0}
  BY DEF Fitting
<1>2. /\ t[0] = 0 /\ \A k \in 0 .. L : t[k] \in Nat
      /\ t[i] = t[i - 1] + ws[i]
  BY TotalsGrow, PickAssumption
<1>3. t[i] <= t[L]
  BY <1>1, TotalsOrder
<1>4. Total(ws) = t[L]
  BY DEF Total
<1> HIDE DEF t, L
<1>5. t[i - 1] .. (t[i] - 1) \subseteq D
  <2> SUFFICES ASSUME NEW n \in t[i - 1] .. (t[i] - 1) PROVE n \in D
    OBVIOUS
  <2>1. n \in Nat /\ t[i - 1] <= n /\ n < t[i] /\ n \in 0 .. t[L] - 1
    BY <1>1, <1>2, <1>3
  <2>2. PickIndex(ws, n) = i
    BY <2>1, DrawPicks DEF t
  <2> QED
    BY <1>4, <2>1, <2>2
<1>6. D \subseteq t[i - 1] .. (t[i] - 1)
  <2> SUFFICES ASSUME NEW n \in D PROVE n \in t[i - 1] .. (t[i] - 1)
    OBVIOUS
  <2>1. n \in Nat /\ n < t[L] /\ PickIndex(ws, n) = i
    BY <1>1, <1>2, <1>4
  <2> DEFINE above == {k \in 0 .. L : n < t[k]}
  <2>2. above \in SUBSET Nat /\ above # {}
    BY <1>1, <2>1
  <2>3. PICK j \in above : \A k \in above : j <= k
    BY <2>2, LeastNat
  <2>4. j \in 0 .. L /\ n < t[j] /\ j # 0
    BY <1>2, <2>1, <2>3
  <2>5. j \in 1 .. L /\ j - 1 \in 0 .. L
    BY <1>1, <2>4
  <2>6. t[j - 1] <= n
    <3>1. ~(j <= j - 1)
      BY <2>5, <1>1
    <3>2. ~(n < t[j - 1])
      BY <2>3, <2>5, <3>1
    <3> QED
      BY <3>2, <2>1, <2>5, <1>2
  <2>7. j = i
    BY <2>1, <2>4, <2>5, <2>6, DrawPicks DEF t, L
  <2> QED
    BY <1>2, <1>1, <2>1, <2>4, <2>6, <2>7
<1>7. D = t[i - 1] .. (t[i] - 1)
  BY <1>5, <1>6
<1>8. t[i - 1] \in Int /\ t[i] - 1 \in Int /\ t[i - 1] <= t[i] - 1
      /\ (t[i] - 1) - t[i - 1] + 1 = ws[i]
  BY <1>1, <1>2
<1>9. Cardinality(t[i - 1] .. (t[i] - 1)) = (t[i] - 1) - t[i - 1] + 1
  <2>1. \A a, b \in Int : a <= b => Cardinality(a .. b) = b - a + 1
    BY FS_Interval
  <2> QED
    BY <1>8, <2>1
<1> QED
  BY <1>7, <1>8, <1>9
-----------------------------------------------------------------------------
(***************************************************************************)
(* The weights a pick works with are documented ones.                      *)
(***************************************************************************)
\* The weight maps that can be published.
Maps == {NoMap} \cup {c.ws : c \in {c \in Contents : c.kind = "map"}}

\* What is cached and what is on its way there was published.
CacheInv == \A k \in Keys : /\ pulled[k].content \in Contents \cup {None}
                            /\ weights[k].ws \in Maps

\* Where the weights of the pick in progress come from.
PickInv ==
    /\ pick.pc \in {"idle", "single", "nacos", "static", "draw"}
    /\ seen \subseteq RRsets \cup {<<>>}
    /\ pick.pc # "idle" => pick.recs \in RRsets /\ pick.recs \in seen /\ pick.key \in Keys
    /\ pick.pc \in {"nacos", "static"} => rrset \in seen
    /\ pick.nacos \in Maps
    /\ pick.pc = "static" => pick.nacos = NoMap
    /\ pick.pc = "draw" =>
          \/ pick.dyn = pick.nacos
          \/ pick.nacos = NoMap /\ \E rr \in seen : pick.dyn = StaticWeights(rr)

ShareInv == NacosInv /\ CacheInv /\ PickInv

LEMMA ShareInit == Init => ShareInv
<1> SUFFICES ASSUME Init PROVE ShareInv
  OBVIOUS
<1>1. CacheInv
  BY DEF Init, NacosInit, CacheInv, NoPull, Maps
<1>2. PickInv
  BY DEF Init, NoPick, PickInv, Maps
<1> QED
  BY <1>1, <1>2, NacosInitInv DEF ShareInv

\* update stores a published map, or nothing.
LEMMA UpdateMaps ==
    ASSUME NacosInv, CacheInv, NEW k \in Keys, NEW p, update(k, p),
           p.content \in Contents \cup {None}
    PROVE  \A j \in Keys : weights'[j].ws \in Maps
<1>1. CASE p.content.kind # "map"
  BY <1>1 DEF update, CacheInv
<1>2. CASE p.content.kind = "map"
  <2>1. p.content \in Contents
    BY <1>2 DEF None
  <2>2. p.content.ws \in Maps
    BY <1>2, <2>1 DEF Maps
  <2>3. weights' = [weights EXCEPT ![k] = [ws |-> p.content.ws, num |-> p.num]]
    BY <1>2 DEF update
  <2> QED
    BY <2>2, <2>3 DEF CacheInv, NacosInv, NacosTypes
<1> QED
  BY <1>1, <1>2

LEMMA CacheStep ==
    ASSUME NacosInv, CacheInv, NEW k \in Keys, NacosStep(k)
    PROVE  CacheInv'
<1>1. CASE \E c \in Contents : Publish(k, c)
  BY <1>1 DEF Publish, CacheInv
<1>2. CASE StartWatch(k)
  BY <1>2 DEF StartWatch, CacheInv
<1>3. CASE GetConfig(k)
  <2>1. \A j \in Keys : pulled'[j] \in {pulled[j], server[j], NoPull}
    BY <1>3 DEF GetConfig, NacosInv, NacosTypes
  <2>2. \A j \in Keys : server[j].content \in Contents
    BY DEF NacosInv, NacosTypes
  <2>3. weights' = weights
    BY <1>3 DEF GetConfig
  <2> QED
    BY <2>1, <2>2, <2>3 DEF CacheInv, NoPull
<1>4. CASE StorePulled(k)
  BY <1>4, UpdateMaps DEF StorePulled, CacheInv
<1>5. CASE ListenConfig(k)
  <2>1. \A j \in Keys : pulled'[j] \in {pulled[j], NoPull}
    BY <1>5 DEF ListenConfig, NacosInv, NacosTypes
  <2>2. weights' = weights
    BY <1>5 DEF ListenConfig
  <2> QED
    BY <2>1, <2>2 DEF CacheInv, NoPull
<1>6. CASE Push(k)
  BY <1>6 DEF Push, CacheInv
<1>7. CASE OnChange(k)
  <2>1. queue[k] \in Seq([content : Contents, num : Nat]) /\ queue[k] # <<>>
    BY <1>7 DEF OnChange, NacosInv, InOrder, Ordered
  <2>2. Head(queue[k]) \in [content : Contents, num : Nat]
    BY <2>1, HeadTailProperties
  <2> QED
    BY <1>7, <2>2, UpdateMaps DEF OnChange, CacheInv
<1> QED
  BY <1>1, <1>2, <1>3, <1>4, <1>5, <1>6, <1>7 DEF NacosStep

LEMMA ShareStep == ShareInv /\ [Next]_vars => ShareInv'
<1> SUFFICES ASSUME ShareInv, [Next]_vars PROVE CacheInv' /\ PickInv'
  BY NacosNext DEF ShareInv
<1> USE DEF ShareInv
<1>1. ASSUME NEW k \in Keys, NacosStep(k), UNCHANGED <<rrset, pick, seen>>
      PROVE  CacheInv' /\ PickInv'
  BY <1>1, CacheStep DEF PickInv
<1>2. CASE StartReturns /\ UNCHANGED <<rrset, pick, seen>>
  BY <1>2 DEF StartReturns, CacheInv, PickInv
<1>3. ASSUME NEW k \in Keys, NEW rr \in RRsets, BeginPick(k, rr)
      PROVE  CacheInv' /\ PickInv'
  <2>1. /\ pick'.key = k /\ pick'.recs = rr /\ pick'.nacos = NoMap
        /\ pick'.pc \in {"single", "nacos", "static"}
        /\ rrset' = rr /\ seen' = {rr} /\ UNCHANGED <<pulled, weights>>
    BY <1>3 DEF BeginPick, NoPick, nacosVars
  <2> QED
    BY <2>1 DEF CacheInv, PickInv, Maps
<1>4. CASE NacosGetWeights
  <2> DEFINE ws == weights[pick.key].ws
  <2>1. pick.pc = "nacos" /\ pick.key \in Keys /\ ws \in Maps
    BY <1>4 DEF NacosGetWeights, PickInv, CacheInv
  <2>2. /\ pick' = [pick EXCEPT !.nacos = ws, !.dyn = ws,
                                !.pc = IF ws # NoMap THEN "draw" ELSE "static"]
        /\ UNCHANGED <<pulled, weights, rrset, seen>>
    BY <1>4 DEF NacosGetWeights
  <2> QED
    BY <2>1, <2>2 DEF CacheInv, PickInv
<1>5. CASE StaticGetWeights
  <2>1. /\ pick.pc = "static" /\ rrset \in seen
        /\ pick' = [pick EXCEPT !.dyn = StaticWeights(rrset), !.pc = "draw"]
        /\ UNCHANGED <<pulled, weights, rrset, seen>>
    BY <1>5 DEF StaticGetWeights, PickInv, nacosVars
  <2> QED
    BY <2>1 DEF CacheInv, PickInv
<1>6. CASE EndPick
  BY <1>6 DEF EndPick, NoPick, nacosVars, CacheInv, PickInv, Maps
<1>7. ASSUME NEW rr \in RRsets \cup {<<>>}, ChangeRRset(rr)
      PROVE  CacheInv' /\ PickInv'
  BY <1>7 DEF ChangeRRset, nacosVars, CacheInv, PickInv
<1>8. CASE UNCHANGED vars
  BY <1>8 DEF vars, nacosVars, CacheInv, PickInv
<1> QED
  BY <1>1, <1>2, <1>3, <1>4, <1>5, <1>6, <1>7, <1>8 DEF Next

\* The static provider knows the weight of a record of the rrset it reads.
LEMMA StaticFromStore ==
    ASSUME NEW rr \in RRsets \cup {<<>>}, NEW v \in DOMAIN StaticWeights(rr)
    PROVE  \E j \in DOMAIN rr : rr[j].val = v /\ StaticWeights(rr)[v] = rr[j].weight
<1> DEFINE pos  == {i \in DOMAIN rr : rr[i].weight > 0}
           best(j) == rr[j].val = v /\ \A k \in pos : rr[k].val = v => k <= j
<1>1. Len(rr) \in Nat /\ DOMAIN rr = 1 .. Len(rr)
  BY PickAssumption
<1>2. \E i \in pos : rr[i].val = v
  BY DEF StaticWeights
<1>3. \E j \in pos : best(j)
  <2> DEFINE back == {d \in Nat : \E i \in pos : rr[i].val = v /\ d = Len(rr) - i}
  <2>1. back \in SUBSET Nat /\ back # {}
    <3>1. PICK i \in pos : rr[i].val = v
      BY <1>2
    <3>2. Len(rr) - i \in Nat
      BY <1>1
    <3> QED
      BY <3>1, <3>2
  <2>2. PICK d \in back : \A e \in back : d <= e
    BY <2>1, LeastNat
  <2>3. PICK i \in pos : rr[i].val = v /\ d = Len(rr) - i
    BY <2>2
  <2>4. ASSUME NEW k \in pos, rr[k].val = v PROVE k <= i
    <3>1. Len(rr) - k \in back /\ k \in Int /\ i \in Int
      BY <1>1, <2>4
    <3>2. Len(rr) - i <= Len(rr) - k
      BY <2>2, <2>3, <3>1
    <3> QED
      BY <1>1, <3>1, <3>2
  <2> QED
    BY <2>3, <2>4
<1>4. StaticWeights(rr)[v] = rr[CHOOSE j \in pos : best(j)].weight
  BY <1>2 DEF StaticWeights
<1> DEFINE j0 == CHOOSE j \in pos : best(j)
<1>5. j0 \in pos /\ best(j0)
  BY <1>3
<1> HIDE DEF j0, best
<1>6. j0 \in DOMAIN rr /\ rr[j0].val = v
  BY <1>5 DEF best
<1> QED
  BY <1>4, <1>6 DEF j0, best

LEMMA ConfiguredWeights ==
    /\ \A rr \in RRsets : \A j \in DOMAIN rr : rr[j].weight \in AllWeights
    /\ \A c \in Contents : c.kind = "map" =>
          \A u \in DOMAIN c.ws : c.ws[u] \in AllWeights
<1> DEFINE own(rr) == {rr[i].weight : i \in DOMAIN rr}
           maps == {c \in Contents : c.kind = "map"}
           dyns == {Range(c.ws) : c \in maps}
           owns == {own(rr) : rr \in RRsets}
<1>1. AllWeights = (UNION dyns) \cup (UNION owns)
  BY DEF AllWeights
<1>2. ASSUME NEW rr \in RRsets, NEW j \in DOMAIN rr PROVE rr[j].weight \in AllWeights
  <2>1. rr[j].weight \in own(rr)
    OBVIOUS
  <2> HIDE DEF own
  <2>2. own(rr) \in owns
    OBVIOUS
  <2>3. \E o \in owns : rr[j].weight \in o
    BY <2>1, <2>2
  <2> HIDE DEF dyns, owns
  <2>4. rr[j].weight \in UNION owns
    BY <2>3
  <2> QED
    BY <1>1, <2>4
<1>3. ASSUME NEW c \in Contents, c.kind = "map", NEW u \in DOMAIN c.ws
      PROVE  c.ws[u] \in AllWeights
  <2>1. c.ws[u] \in Range(c.ws)
    BY DEF Range
  <2>2. c \in maps
    BY <1>3
  <2>3. Range(c.ws) \in dyns
    BY <2>2
  <2> HIDE DEF dyns, owns
  <2> QED
    BY <1>1, <2>1, <2>3
<1> QED
  BY <1>2, <1>3

\* The weight a record counts with is one that it had in the store during the
\* call, or the one Nacos has for it.
LEMMA WeightDocumented ==
    ASSUME ShareInv, pick.pc = "draw", NEW i \in DOMAIN pick.recs
    PROVE  LET v == pick.recs[i].val
               w == IF v \in DOMAIN pick.dyn THEN pick.dyn[v] ELSE pick.recs[i].weight
           IN w \in Documented(v) /\ w \in AllWeights
<1> DEFINE v == pick.recs[i].val
           w == IF v \in DOMAIN pick.dyn THEN pick.dyn[v] ELSE pick.recs[i].weight
           stored == UNION {{rr[j].weight : j \in {j \in DOMAIN rr : rr[j].val = v}}
                               : rr \in seen}
<1>1. pick.recs \in RRsets /\ pick.recs \in seen /\ seen \subseteq RRsets \cup {<<>>}
      /\ pick.nacos \in Maps
  BY DEF ShareInv, PickInv
<1>2. \A rr \in RRsets : \A j \in DOMAIN rr : rr[j].weight \in AllWeights
  BY ConfiguredWeights
<1>3. \A u \in DOMAIN pick.nacos : pick.nacos[u] \in AllWeights
  <2>1. CASE pick.nacos = NoMap
    BY <2>1 DEF NoMap
  <2>2. CASE pick.nacos # NoMap
    <3>1. PICK c \in Contents : c.kind = "map" /\ pick.nacos = c.ws
      BY <1>1, <2>2 DEF Maps
    <3> QED
      BY <3>1, ConfiguredWeights
  <2> QED
    BY <2>1, <2>2
<1>4. pick.recs[i].weight \in stored /\ pick.recs[i].weight \in AllWeights
  BY <1>1, <1>2
<1>5. CASE pick.dyn = pick.nacos
  BY <1>3, <1>4, <1>5 DEF Documented
<1>6. CASE pick.nacos = NoMap /\ \E rr \in seen : pick.dyn = StaticWeights(rr)
  <2>1. Documented(v) = stored
    BY <1>6 DEF Documented, NoMap
  <2>2. PICK rr \in seen : pick.dyn = StaticWeights(rr)
    BY <1>6
  <2>3. CASE v \in DOMAIN pick.dyn
    <3>1. PICK j \in DOMAIN rr : rr[j].val = v /\ pick.dyn[v] = rr[j].weight
      BY <1>1, <2>2, <2>3, StaticFromStore
    <3>2. rr \in RRsets
      BY <1>1, <3>1
    <3> QED
      BY <1>2, <2>1, <2>3, <3>1, <3>2
  <2>4. CASE v \notin DOMAIN pick.dyn
    BY <1>4, <2>1, <2>4
  <2> QED
    BY <2>3, <2>4
<1> QED
  BY <1>5, <1>6 DEF ShareInv, PickInv

\* The weights of a pick fit an int.
LEMMA PickFits ==
    ASSUME ShareInv, pick.pc = "draw"
    PROVE  Fitting(Ws(pick.recs, pick.dyn))
<1> DEFINE recs == pick.recs
           ws == Ws(recs, pick.dyn)
           w(i) == IF recs[i].val \in DOMAIN pick.dyn THEN pick.dyn[recs[i].val]
                   ELSE recs[i].weight
<1>1. recs \in RRsets
  BY DEF ShareInv, PickInv
<1>2. /\ recs \in Seq(Range(recs)) /\ recs # <<>> /\ Len(recs) <= MaxInt
      /\ \A u \in AllWeights : Len(recs) * u <= MaxInt
      /\ AllWeights \subseteq Int
  BY <1>1, PickAssumption
<1>3. Len(recs) \in Nat /\ Len(recs) >= 1 /\ DOMAIN recs = 1 .. Len(recs)
  BY <1>2
<1>4. ws = [i \in 1 .. Len(recs) |-> Positive(w(i))]
  BY <1>3 DEF Ws
<1>5. \A i \in 1 .. Len(recs) : w(i) \in AllWeights
  BY <1>3, WeightDocumented
<1> HIDE DEF w, ws, recs
<1>6. ASSUME NEW i \in 1 .. Len(recs)
      PROVE  Positive(w(i)) \in Nat \ {0} /\ Len(recs) * Positive(w(i)) <= MaxInt
  <2>1. w(i) \in Int /\ Len(recs) * w(i) <= MaxInt
    BY <1>2, <1>5
  <2>2. CASE w(i) <= 0
    BY <1>2, <1>3, <2>2 DEF Positive
  <2>3. CASE ~(w(i) <= 0)
    BY <2>1, <2>3 DEF Positive
  <2> QED
    BY <2>2, <2>3
<1>7. ws \in Seq(Nat \ {0}) /\ Len(ws) = Len(recs)
  BY <1>3, <1>4, <1>6
<1>8. \A i \in 1 .. Len(ws) : Len(ws) * ws[i] <= MaxInt
  BY <1>4, <1>6, <1>7
<1>9. Fitting(ws)
  BY <1>3, <1>7, <1>8 DEF Fitting
<1> QED
  BY <1>9 DEF ws, recs

\* Of the draws that rand.Intn can make, exactly as many pick a record as the
\* weight documented for it says, for any number of records and any weights
\* that add up to an int, whatever Nacos and the writers of the store do during
\* the call (internal/dns/handler.go:288-326).
THEOREM SharesFollow == Spec => []SharesFollowWeights
<1>1. ShareInv => SharesFollowWeights
  <2> SUFFICES ASSUME ShareInv, pick.pc = "draw", NEW i \in DOMAIN pick.recs
               PROVE  LET ws == Ws(pick.recs, pick.dyn)
                      IN \E w \in Documented(pick.recs[i].val) :
                            Cardinality({n \in 0 .. Total(ws) - 1 : PickIndex(ws, n) = i})
                               = IF w >= 1 THEN w ELSE 1
    BY DEF SharesFollowWeights
  <2> DEFINE ws == Ws(pick.recs, pick.dyn)
             v == pick.recs[i].val
             w == IF v \in DOMAIN pick.dyn THEN pick.dyn[v] ELSE pick.recs[i].weight
  <2>1. w \in Documented(v) /\ w \in Int
    BY WeightDocumented, PickAssumption
  <2>2. ws[i] = Positive(w) /\ DOMAIN ws = DOMAIN pick.recs
    BY DEF Ws
  <2>3. Fitting(ws)
    BY PickFits
  <2>4. i \in 1 .. Len(ws)
    BY <2>2, <2>3 DEF Fitting
  <2> HIDE DEF w, v, ws
  <2>5. Cardinality({n \in 0 .. Total(ws) - 1 : PickIndex(ws, n) = i}) = ws[i]
    BY <2>3, <2>4, Shares
  <2>6. Positive(w) = IF w >= 1 THEN w ELSE 1
    BY <2>1 DEF Positive
  <2> QED
    BY <2>1, <2>2, <2>5, <2>6 DEF v, ws
<1> QED
  BY <1>1, ShareInit, ShareStep, PTL DEF Spec
=============================================================================
