-------------------------- MODULE SyncTriggerProofs --------------------------
(***************************************************************************)
(* For every rate limit, interval and duration of a sync: no trigger is    *)
(* lost, the bucket bounds the syncs of a second, and syncs keep coming.   *)
(***************************************************************************)
EXTENDS SyncTrigger, TLAPS

\* The types of the loop's state.
SyncTypes ==
    /\ loop \in {"select", "sync", "stopped"}
    /\ dur \in Nat /\ gap \in Nat
    /\ timer \in 1 .. Interval
    /\ tickC \in BOOLEAN /\ trigger \in BOOLEAN /\ cancelled \in BOOLEAN
    /\ owed \in BOOLEAN
    /\ elapsed \in 0 .. Second
    /\ tokens \in 0 .. Capacity * Second
    /\ starts \in [0 .. Second - 1 -> Nat]

\* What the bucket still holds and the syncs of the last d ticks have taken
\* come from a full bucket and from what d ticks refill.
Spent == \A d \in 0 .. Second - 1 :
            starts[d] * Second + Refilled <= Capacity * Second + d * Capacity

\* The bucket is full, or has been refilled since a sync last started.
Earned == Refilled = Capacity * Second \/ Refilled >= gap * Capacity

\* The next tick comes in time, if it is not there already.
TickInTime ==
    /\ loop = "sync" => gap = dur /\ dur <= MaxDur
    /\ loop # "sync" =>
         \E late \in {MaxDur, TokenWait - 1} :
            gap + (IF loop = "stopped" \/ tickC THEN 0 ELSE timer) <= Interval + late

SyncInv == SyncTypes /\ TriggerKept /\ Spent /\ Earned /\ TickInTime
-----------------------------------------------------------------------------
LEMMA ConstantTypes ==
    /\ Capacity \in Nat \ {0} /\ Second \in Nat \ {0} /\ Interval \in Nat \ {0}
    /\ MaxDur \in Nat
    /\ Capacity * Second \in Nat
    /\ Capacity * Second >= Second /\ Capacity * Second >= Capacity
<1>1. Capacity \in Nat \ {0}
  BY SyncAssumption DEF Capacity
<1>2. Second \in Nat \ {0} /\ Interval \in Nat \ {0} /\ MaxDur \in Nat
  BY SyncAssumption
<1>3. \A a, b \in Nat \ {0} : a * b \in Nat /\ a * b >= a /\ a * b >= b
  OBVIOUS
<1> QED
  BY <1>1, <1>2, <1>3

\* An empty bucket holds a token after TokenWait ticks, and not before.
LEMMA TokenWaitTime ==
    /\ TokenWait \in Nat \ {0}
    /\ \A g \in Nat : g * Capacity < Second => g <= TokenWait - 1
<1> DEFINE c == Capacity
           w == TokenWait
<1>1. c \in Nat \ {0} /\ Second \in Nat \ {0}
  BY ConstantTypes
<1>2. w \in Int /\ w * c <= Second + c - 1 /\ Second + c - 1 < (w + 1) * c
  <2> SUFFICES ASSUME NEW a \in Int, NEW b \in Nat \ {0}
               PROVE  /\ a \div b \in Int
                      /\ (a \div b) * b <= a /\ a < (a \div b + 1) * b
    BY <1>1 DEF TokenWait
  <2> QED
    OBVIOUS
<1> HIDE DEF c, w
<1>3. ASSUME NEW g \in Nat, g * c < Second
      PROVE  g <= w - 1
  <2> SUFFICES ASSUME w <= g PROVE FALSE
    BY <1>2
  <2>1. w * c <= g * c
    BY <1>1, <1>2
  <2> QED
    BY <2>1, <1>1, <1>2, <1>3
<1>4. w \in Nat \ {0}
  <2> SUFFICES ASSUME w <= 0 PROVE FALSE
    BY <1>2
  <2>1. (w + 1) * c <= c
    BY <1>1, <1>2
  <2> QED
    BY <2>1, <1>1, <1>2
<1> QED
  BY <1>3, <1>4 DEF c, w

-----------------------------------------------------------------------------
\* What a tick, a refusal and a sync do to the bucket.
LEMMA BucketFull ==
    ASSUME SyncTypes
    PROVE  /\ Refilled \in 0 .. Capacity * Second
           /\ elapsed = Second => Refilled = Capacity * Second
<1> DEFINE full == Capacity * Second
           new  == elapsed * Capacity
<1>1. full \in Nat /\ tokens \in 0 .. full
  BY ConstantTypes DEF SyncTypes
<1>2. new \in Nat
  BY ConstantTypes DEF SyncTypes
<1>3. elapsed = Second => new = full
  BY ConstantTypes
<1>4. Refilled = IF tokens + new > full THEN full ELSE tokens + new
  BY DEF Refilled
<1> HIDE DEF full, new
<1>5. Refilled \in 0 .. full /\ (new = full => Refilled = full)
  BY <1>1, <1>2, <1>4
<1> QED
  BY <1>3, <1>5 DEF full

LEMMA BucketTick ==
    ASSUME SyncTypes, Elapse
    PROVE  Refilled' = IF Refilled + Capacity > Capacity * Second
                       THEN Capacity * Second ELSE Refilled + Capacity
<1> DEFINE full == Capacity * Second
           new  == elapsed * Capacity
<1>1. full \in Nat /\ tokens \in 0 .. full /\ Capacity \in Nat /\ new \in Nat
  BY ConstantTypes DEF SyncTypes
<1>2. tokens' = tokens
  BY DEF Elapse
<1>3. elapsed = Second => elapsed' = Second /\ new = full
  BY ConstantTypes DEF Elapse
<1>4. elapsed # Second => elapsed' * Capacity = new + Capacity
  BY ConstantTypes DEF Elapse, SyncTypes
<1>5. Refilled = IF tokens + new > full THEN full ELSE tokens + new
  BY DEF Refilled
<1>6. Refilled' = IF tokens + elapsed' * Capacity > full
                  THEN full ELSE tokens + elapsed' * Capacity
  BY <1>2 DEF Refilled, Capacity
<1>7. CASE elapsed = Second
  <2>1. elapsed' * Capacity = full
    BY <1>3, <1>7, ConstantTypes
  <2> HIDE DEF full, new
  <2> QED
    BY <1>1, <1>3, <1>5, <1>6, <1>7, <2>1 DEF full
<1>8. CASE elapsed # Second
  <2> DEFINE new2 == elapsed' * Capacity
  <2> HIDE DEF full, new, new2
  <2>1. new2 = new + Capacity
    BY <1>4, <1>8 DEF new2, new
  <2>2. Refilled' = IF tokens + new2 > full THEN full ELSE tokens + new2
    BY <1>6 DEF new2
  <2> QED
    BY <1>1, <1>5, <2>1, <2>2 DEF full
<1> QED
  BY <1>7, <1>8

\* A sync pays for itself; a refusal changes nothing.
LEMMA BucketPays ==
    ASSUME SyncTypes, doSync
    PROVE  /\ Refilled >= Second => Refilled' = Refilled - Second
           /\ Refilled < Second => Refilled' = Refilled
           /\ tokens' \in 0 .. Capacity * Second
<1> DEFINE full == Capacity * Second
<1>1. full \in Nat /\ Second \in Nat /\ Refilled \in 0 .. full
  BY ConstantTypes, BucketFull
<1>2. tokens' = IF Refilled >= Second THEN Refilled - Second ELSE Refilled
  BY <1>1 DEF doSync
<1>3. elapsed' * Capacity = 0
  BY ConstantTypes DEF doSync
<1>4. Refilled' = IF tokens' + elapsed' * Capacity > full
                  THEN full ELSE tokens' + elapsed' * Capacity
  BY DEF Refilled, Capacity
<1> HIDE DEF full
<1>5. tokens' \in 0 .. full
  BY <1>1, <1>2
<1>6. Refilled' = tokens'
  BY <1>3, <1>4, <1>5, <1>1
<1> QED
  BY <1>1, <1>2, <1>5, <1>6 DEF full
-----------------------------------------------------------------------------
LEMMA SyncInit == Init => SyncInv
<1> SUFFICES ASSUME Init PROVE SyncInv
  OBVIOUS
<1>1. SyncTypes
  <2>1. Capacity * Second \in 0 .. Capacity * Second
    BY ConstantTypes
  <2>2. timer \in 1 .. Interval /\ elapsed \in 0 .. Second
    BY ConstantTypes DEF Init
  <2> QED
    BY <2>1, <2>2 DEF Init, SyncTypes
<1>2. Refilled = Capacity * Second
  BY ConstantTypes DEF Init, Refilled
<1>3. TriggerKept /\ Earned
  BY <1>2 DEF Init, TriggerKept, Earned
<1>4. Spent
  <2> SUFFICES ASSUME NEW d \in 0 .. Second - 1
               PROVE  0 + Capacity * Second <= Capacity * Second + d * Capacity
    BY <1>2, ConstantTypes DEF Spent, Init
  <2>1. d * Capacity \in Nat
    BY ConstantTypes
  <2> QED
    BY <2>1, ConstantTypes
<1>5. TickInTime
  BY ConstantTypes DEF TickInTime, Init
<1> QED
  BY <1>1, <1>3, <1>4, <1>5 DEF SyncInv

\* The steps that leave the bucket and the time alone.
LEMMA QuietStep ==
    ASSUME SyncInv, UNCHANGED <<tokens, elapsed, gap, starts, timer, tickC>>,
           SyncTypes', TriggerKept', TickInTime'
    PROVE  SyncInv'
<1>1. Refilled' = Refilled
  BY DEF Refilled, Capacity
<1> QED
  BY <1>1 DEF SyncInv, Spent, Earned, Capacity

LEMMA SyncStepDoSync ==
    ASSUME SyncInv, doSync, UNCHANGED <<timer, cancelled>>,
           tickC' \in BOOLEAN, trigger' \in BOOLEAN,
           tickC' = tickC \/ (tickC /\ ~tickC')
    PROVE  SyncInv'
<1> USE DEF SyncInv
<1>1. Refilled \in Nat /\ Second \in Nat \ {0} /\ Capacity \in Nat \ {0}
  BY ConstantTypes, BucketFull
<1>2. tokens' \in 0 .. Capacity * Second
  BY BucketPays
<1>3. SyncTypes'
  <2>1. /\ loop' \in {"select", "sync", "stopped"} /\ dur' \in Nat /\ gap' \in Nat
        /\ starts' \in [0 .. Second - 1 -> Nat]
    BY DEF SyncTypes, doSync
  <2>2. elapsed' = 0 /\ owed' = FALSE
    BY DEF doSync
  <2>3. tokens' \in 0 .. Capacity' * Second
    BY <1>2 DEF Capacity
  <2>4. 0 \in 0 .. Second
    BY <1>1
  <2> QED
    BY <2>1, <2>2, <2>3, <2>4 DEF SyncTypes
<1>4. TriggerKept'
  BY DEF TriggerKept, doSync
<1>5. CASE Refilled >= Second
  <2>1. /\ loop' = "sync" /\ dur' = 0 /\ gap' = 0
        /\ starts' = [d \in 0 .. Second - 1 |-> starts[d] + 1]
        /\ Refilled' = Refilled - Second
    <3>1. ~(Refilled < Second)
      BY <1>1, <1>5
    <3>2. Refilled' = Refilled - Second
      BY <1>5, BucketPays
    <3> QED
      BY <3>1, <3>2 DEF doSync
  <2>2. Spent'
    <3> SUFFICES ASSUME NEW d \in 0 .. Second - 1
                 PROVE  starts'[d] * Second + Refilled'
                          <= Capacity * Second + d * Capacity
      BY DEF Spent, Capacity
    <3>1. starts[d] \in Nat /\ starts'[d] = starts[d] + 1
      BY <2>1 DEF SyncTypes
    <3>2. starts'[d] * Second = starts[d] * Second + Second
      BY <3>1, <1>1
    <3>3. starts[d] * Second + Refilled <= Capacity * Second + d * Capacity
      BY DEF Spent
    <3>4. starts[d] * Second \in Nat /\ Capacity * Second \in Nat
          /\ d * Capacity \in Nat
      BY <3>1, <1>1
    <3> QED
      BY <3>2, <3>3, <3>4, <2>1, <1>1
  <2>3. Earned'
    <3>1. Refilled' >= 0 /\ gap' * Capacity = 0
      BY <2>1, <1>1, <1>5
    <3> QED
      BY <3>1 DEF Earned, Capacity
  <2>4. TickInTime'
    BY <2>1, ConstantTypes DEF TickInTime
  <2> QED
    BY <1>3, <1>4, <2>2, <2>3, <2>4
<1>6. CASE Refilled < Second
  <2>1. UNCHANGED <<loop, dur, gap, starts>> /\ Refilled' = Refilled
    <3>1. ~(Refilled >= Second)
      BY <1>1, <1>6
    <3>2. Refilled' = Refilled
      BY <1>6, BucketPays
    <3> QED
      BY <3>1, <3>2 DEF doSync
  <2>2. Spent' /\ Earned'
    BY <2>1 DEF Spent, Earned, Capacity
  <2>3. gap <= TokenWait - 1
    <3>1. Refilled # Capacity * Second
      BY <1>6, <1>1, ConstantTypes
    <3>2. Refilled >= gap * Capacity /\ gap \in Nat
      BY <3>1 DEF Earned, SyncTypes
    <3>3. gap * Capacity < Second
      BY <3>2, <1>1, <1>6
    <3> QED
      BY <3>2, <3>3, TokenWaitTime
  <2>4. TickInTime'
    <3>1. loop = "select" /\ loop' = "select"
      BY <2>1 DEF doSync
    <3>2. gap + timer <= Interval + (TokenWait - 1)
      BY <2>3, TokenWaitTime, ConstantTypes DEF SyncTypes
    <3> QED
      BY <2>1, <3>1, <3>2, <2>3, ConstantTypes, TokenWaitTime
         DEF TickInTime, SyncTypes, TokenWait, Capacity
  <2> QED
    BY <1>3, <1>4, <2>2, <2>4
<1> QED
  BY <1>1, <1>5, <1>6

LEMMA SyncStepElapse ==
    ASSUME SyncInv, Elapse
    PROVE  SyncInv'
<1> USE DEF SyncInv
<1> DEFINE full == Capacity * Second
<1>1. /\ Refilled \in 0 .. full /\ full \in Nat
      /\ Second \in Nat \ {0} /\ Capacity \in Nat \ {0}
  BY ConstantTypes, BucketFull
<1>2. Refilled' = IF Refilled + Capacity > full THEN full ELSE Refilled + Capacity
  BY BucketTick
<1>3. SyncTypes'
  <2>1. /\ dur' \in Nat /\ gap' \in Nat /\ timer' \in 1 .. Interval
        /\ elapsed' \in 0 .. Second
    BY ConstantTypes DEF SyncTypes, Elapse
  <2>2. starts' \in [0 .. Second - 1 -> Nat]
    <3>1. \A d \in 0 .. Second - 1 : d # 0 => d - 1 \in 0 .. Second - 1
      BY <1>1
    <3> QED
      BY <3>1 DEF SyncTypes, Elapse
  <2>3. tokens' \in 0 .. Capacity' * Second
    BY DEF SyncTypes, Elapse, Capacity
  <2> QED
    BY <2>1, <2>2, <2>3 DEF SyncTypes, Elapse
<1>4. TriggerKept'
  BY DEF TriggerKept, Elapse
<1>5. Spent'
  <2> SUFFICES ASSUME NEW d \in 0 .. Second - 1
               PROVE  starts'[d] * Second + Refilled' <= full + d * Capacity
    BY DEF Spent, Capacity
  <2>1. CASE d = 0
    <3>1. starts'[d] * Second = 0 /\ d * Capacity = 0
      BY <2>1, <1>1 DEF Elapse
    <3> HIDE DEF full
    <3> QED
      BY <3>1, <1>1, <1>2
  <2>2. CASE d # 0
    <3>1. d - 1 \in 0 .. Second - 1 /\ starts'[d] = starts[d - 1]
      BY <2>2, <1>1 DEF Elapse
    <3>2. starts[d - 1] * Second + Refilled <= full + (d - 1) * Capacity
      BY <3>1 DEF Spent
    <3>3. d * Capacity = (d - 1) * Capacity + Capacity
      BY <1>1
    <3>4. starts[d - 1] * Second \in Nat /\ (d - 1) * Capacity \in Nat
      BY <3>1, <1>1 DEF SyncTypes
    <3> DEFINE a == starts[d - 1] * Second
               b == (d - 1) * Capacity
    <3>5. a \in Nat /\ b \in Nat /\ a + Refilled <= full + b
          /\ d * Capacity = b + Capacity /\ starts'[d] * Second = a
      BY <3>1, <3>2, <3>3, <3>4
    <3> HIDE DEF full, a, b
    <3>6. a + Refilled' <= full + (b + Capacity)
      BY <3>5, <1>1, <1>2
    <3> QED
      BY <3>5, <3>6
  <2> QED
    BY <2>1, <2>2
<1>6. Earned'
  <2>1. gap' * Capacity = gap * Capacity + Capacity /\ gap * Capacity \in Nat
    BY <1>1 DEF Elapse, SyncTypes
  <2> HIDE DEF full
  <2>2. Refilled = full \/ Refilled >= gap * Capacity
    BY DEF Earned, full
  <2>3. Refilled' = full \/ Refilled' >= gap' * Capacity
    BY <2>1, <2>2, <1>1, <1>2
  <2> QED
    BY <2>3 DEF Earned, full, Capacity
<1>7. TickInTime'
  <2>1. CASE loop = "sync"
    <3>1. loop' = "sync" /\ dur < MaxDur /\ dur' = dur + 1 /\ gap' = gap + 1
      BY <2>1 DEF Elapse
    <3>2. gap = dur /\ dur \in Nat /\ MaxDur \in Nat
      BY <2>1, ConstantTypes DEF TickInTime, SyncTypes
    <3>3. gap' = dur' /\ dur' <= MaxDur
      BY <3>1, <3>2
    <3> QED
      BY <3>1, <3>3 DEF TickInTime
  <2>2. CASE loop = "select" /\ ~tickC
    <3>1. PICK late \in {MaxDur, TokenWait - 1} : gap + timer <= Interval + late
      BY <2>2 DEF TickInTime
    <3>2. late \in Int /\ Interval \in Nat /\ timer \in 1 .. Interval /\ gap \in Nat
      BY ConstantTypes, TokenWaitTime DEF SyncTypes
    <3>3. gap' + (IF loop' = "stopped" \/ tickC' THEN 0 ELSE timer')
             <= Interval + late
      <4>1. CASE timer = 1
        <5>1. tickC' /\ gap' = gap + 1
          BY <4>1 DEF Elapse
        <5> QED
          BY <5>1, <4>1, <3>1, <3>2
      <4>2. CASE timer # 1
        <5>1. ~tickC' /\ loop' = "select" /\ gap' = gap + 1 /\ timer' = timer - 1
          BY <2>2, <4>2 DEF Elapse
        <5> QED
          BY <5>1, <3>1, <3>2
      <4> QED
        BY <4>1, <4>2
    <3> QED
      BY <3>3, <2>2 DEF TickInTime, Elapse, TokenWait, Capacity
  <2> QED
    BY <2>1, <2>2 DEF Elapse
<1> QED
  BY <1>3, <1>4, <1>5, <1>6, <1>7

\* The invariant is inductive.
LEMMA SyncStep == SyncInv /\ [Next]_vars => SyncInv'
<1> SUFFICES ASSUME SyncInv, [Next]_vars PROVE SyncInv'
  OBVIOUS
<1>1. CASE TriggerSync
  <2>1. SyncTypes' /\ TriggerKept' /\ TickInTime'
    BY <1>1 DEF TriggerSync, SyncInv, SyncTypes, TriggerKept, TickInTime,
                TokenWait, Capacity
  <2> QED
    BY <1>1, <2>1, QuietStep DEF TriggerSync
<1>2. CASE OnTick
  <2>1. /\ doSync /\ UNCHANGED <<timer, cancelled>> /\ tickC' \in BOOLEAN
        /\ trigger' \in BOOLEAN /\ tickC /\ ~tickC'
    BY <1>2 DEF OnTick, SyncInv, SyncTypes
  <2> QED
    BY <2>1, SyncStepDoSync
<1>3. CASE OnTrigger
  <2>1. /\ doSync /\ UNCHANGED <<timer, cancelled>> /\ tickC' \in BOOLEAN
        /\ trigger' \in BOOLEAN /\ tickC' = tickC
    BY <1>3 DEF OnTrigger, SyncInv, SyncTypes
  <2> QED
    BY <2>1, SyncStepDoSync
<1>4. CASE OnDone
  <2>1. SyncTypes' /\ TriggerKept'
    BY <1>4 DEF OnDone, SyncInv, SyncTypes, TriggerKept, Capacity
  <2>2. TickInTime'
    <3>1. PICK late \in {MaxDur, TokenWait - 1} :
            gap + (IF tickC THEN 0 ELSE timer) <= Interval + late
      BY <1>4 DEF OnDone, SyncInv, TickInTime
    <3>2. late \in Int /\ Interval \in Nat /\ timer \in 1 .. Interval /\ gap \in Nat
      BY ConstantTypes, TokenWaitTime DEF SyncInv, SyncTypes
    <3>3. gap + 0 <= Interval + late
      BY <3>1, <3>2
    <3>4. loop' = "stopped" /\ gap' = gap
      BY <1>4 DEF OnDone
    <3> QED
      BY <3>3, <3>4 DEF TickInTime, TokenWait, Capacity
  <2> QED
    BY <1>4, <2>1, <2>2, QuietStep DEF OnDone
<1>5. CASE EndSync
  <2>1. SyncTypes' /\ TriggerKept'
    BY <1>5 DEF EndSync, SyncInv, SyncTypes, TriggerKept, Capacity
  <2>2. TickInTime'
    <3>1. gap = dur /\ dur <= MaxDur /\ gap \in Nat /\ timer \in 1 .. Interval
      BY <1>5 DEF EndSync, SyncInv, TickInTime, SyncTypes
    <3>2. gap + (IF tickC THEN 0 ELSE timer) <= Interval + MaxDur
      BY <3>1, ConstantTypes
    <3>3. loop' = "select" /\ UNCHANGED <<gap, tickC, timer>>
      BY <1>5 DEF EndSync
    <3> QED
      BY <3>2, <3>3 DEF TickInTime
  <2> QED
    BY <1>5, <2>1, <2>2, QuietStep DEF EndSync
<1>6. CASE Cancel
  <2>1. SyncTypes' /\ TriggerKept' /\ TickInTime'
    BY <1>6 DEF Cancel, SyncInv, SyncTypes, TriggerKept, TickInTime,
                TokenWait, Capacity
  <2> QED
    BY <1>6, <2>1, QuietStep DEF Cancel
<1>7. CASE Elapse
  BY <1>7, SyncStepElapse
<1>8. CASE UNCHANGED vars
  BY <1>8 DEF vars, SyncInv, SyncTypes, TriggerKept, Spent, Earned, TickInTime,
              Refilled, TokenWait, Capacity
<1> QED
  BY <1>1, <1>2, <1>3, <1>4, <1>5, <1>6, <1>7, <1>8 DEF Next

\* The invariant bounds the syncs of a second and the time between two.
LEMMA SyncBounds == SyncInv => RateBound /\ SyncsKeepComing
<1> SUFFICES ASSUME SyncInv PROVE RateBound /\ SyncsKeepComing
  OBVIOUS
<1>1. RateBound
  <2> DEFINE n == starts[Second - 1]
             full == Capacity * Second
  <2>1. Second - 1 \in 0 .. Second - 1 /\ Second \in Nat \ {0}
        /\ Capacity \in Nat \ {0} /\ full \in Nat
    BY ConstantTypes
  <2>2. n \in Nat /\ n * Second + Refilled <= full + (Second - 1) * Capacity
    BY <2>1 DEF SyncInv, SyncTypes, Spent
  <2>3. (Second - 1) * Capacity = full - Capacity
    BY <2>1
  <2>4. Refilled \in Nat
    BY <2>1, BucketFull DEF SyncInv
  <2>5. (2 * Capacity) * Second = full + full
    BY <2>1
  <2>6. n * Second \in Nat
    BY <2>1, <2>2
  <2> HIDE DEF n, full
  <2>7. n * Second < (2 * Capacity) * Second
    BY <2>1, <2>2, <2>3, <2>4, <2>5, <2>6
  <2>8. ASSUME n >= 2 * Capacity PROVE FALSE
    <3>1. n * Second >= (2 * Capacity) * Second
      BY <2>1, <2>2, <2>8
    <3> QED
      BY <3>1, <2>7, <2>1, <2>5, <2>6
  <2> QED
    BY <2>1, <2>2, <2>8 DEF n, RateBound
<1>2. SyncsKeepComing
  <2>1. gap \in Nat /\ timer \in 1 .. Interval /\ Interval \in Nat /\ MaxDur \in Nat
        /\ TokenWait - 1 \in Int
    BY ConstantTypes, TokenWaitTime DEF SyncInv, SyncTypes
  <2>2. CASE loop = "sync"
    BY <2>1, <2>2 DEF SyncInv, TickInTime, SyncsKeepComing
  <2>3. CASE loop # "sync"
    BY <2>1, <2>3 DEF SyncInv, TickInTime, SyncsKeepComing
  <2> QED
    BY <2>2, <2>3
<1> QED
  BY <1>1, <1>2

\* No trigger is lost: from TriggerSync until doSync has run, the channel
\* holds a trigger (internal/syncer/syncer.go:58-66).
THEOREM TriggersKept == Spec => []TriggerKept
<1>1. SyncInv => TriggerKept
  BY DEF SyncInv
<1> QED
  BY SyncInit, SyncStep, <1>1, PTL DEF Spec

\* Whatever the interleaving of ticks, triggers and refusals, fewer than twice
\* RateLimit syncs start within a second (internal/syncer/syncer.go:136-151).
THEOREM RateBounded == Spec => []RateBound
BY SyncInit, SyncStep, SyncBounds, PTL DEF Spec

\* The loop never starves: the time between two syncs is bounded
\* (internal/syncer/syncer.go:77-90).
THEOREM SyncsComing == Spec => []SyncsKeepComing
BY SyncInit, SyncStep, SyncBounds, PTL DEF Spec
=============================================================================
