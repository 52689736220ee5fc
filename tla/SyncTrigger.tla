----------------------------- MODULE SyncTrigger -----------------------------
(***************************************************************************)
(* What decides when an instance syncs (internal/syncer/syncer.go): the    *)
(* loop of PGSyncer.Start selects between its ticker, the trigger channel  *)
(* and the cancelled context; doSync first asks the token bucket.          *)
(*                                                                         *)
(* Time is counted in ticks of 1/Second s.  The bucket holds tokens in     *)
(* units of 1/Second, so that a tick refills Capacity units and a sync     *)
(* costs Second of them, as the code's float64 does up to rounding.  What  *)
(* a sync does to the store is in EdgeSync.                                *)
(***************************************************************************)
EXTENDS Integers

CONSTANTS RateLimit,  \* SyncConfig.RateLimit
          Interval,   \* SyncConfig.Interval, in ticks
          Second,     \* ticks per second
          MaxDur      \* bound on the duration of a sync, in ticks

\* newTokenBucket is given at least 1.
Capacity == IF RateLimit <= 0 THEN 1 ELSE RateLimit

\* time.NewTicker panics unless the interval is positive (see Lifecycle).
ASSUME SyncAssumption ==
    /\ RateLimit \in Int
    /\ Interval \in Nat \ {0} /\ Second \in Nat \ {0} /\ MaxDur \in Nat

VARIABLES loop,       \* "select", "sync" or "stopped"
          dur,        \* how long the running sync has taken
          tickC,      \* a tick waits in the ticker's channel (capacity 1)
          timer,      \* ticks until the ticker fires
          trigger,    \* a trigger waits in the trigger channel (capacity 1)
          cancelled,  \* the context is cancelled
          tokens,     \* tokenBucket.tokens, in units of 1/Second
          elapsed,    \* time since tokenBucket.last, up to one second
          gap,        \* history: time since a sync last started
          starts,     \* history: starts[d]: syncs started at most d ticks ago
          owed        \* history: TriggerSync was called and doSync not since

vars == <<loop, dur, tickC, timer, trigger, cancelled, tokens, elapsed, gap,
          starts, owed>>

Init == /\ loop = "select" /\ dur = 0
        /\ tickC = FALSE /\ timer = Interval
        /\ trigger = FALSE /\ cancelled = FALSE
        /\ tokens = Capacity * Second /\ elapsed = 0
        /\ gap = 0 /\ starts = [d \in 0 .. Second - 1 |-> 0] /\ owed = FALSE

\* Mutant: the trigger channel has no buffer, so that a trigger is only taken
\* while the loop waits.
TriggerSyncUnbuffered ==
    /\ trigger' = (trigger \/ loop = "select")
    /\ owed' = TRUE
    /\ UNCHANGED <<loop, dur, tickC, timer, cancelled, tokens, elapsed, gap, starts>>

\* TriggerSync: without effect when a trigger is already pending.
TriggerSync ==
    /\ trigger' = TRUE
    /\ owed' = TRUE
    /\ UNCHANGED <<loop, dur, tickC, timer, cancelled, tokens, elapsed, gap, starts>>

\* Mutant: the bucket is not capped.
RefilledUncapped == tokens + elapsed * Capacity

\* The bucket as allow finds it.
Refilled == IF tokens + elapsed * Capacity > Capacity * Second
            THEN Capacity * Second ELSE tokens + elapsed * Capacity

\* Mutant: a refusal forgets what it refilled.
doSyncForgetful ==
    /\ loop = "select"
    /\ elapsed' = 0
    /\ owed' = FALSE
    /\ \/ /\ Refilled >= Second
          /\ tokens' = Refilled - Second
          /\ loop' = "sync" /\ dur' = 0
          /\ gap' = 0 /\ starts' = [d \in 0 .. Second - 1 |-> starts[d] + 1]
       \/ /\ Refilled < Second
          /\ UNCHANGED <<tokens, loop, dur, gap, starts>>

\* doSync: allow refills the bucket and takes a token, if there is one.
doSync ==
    /\ loop = "select"
    /\ elapsed' = 0
    /\ owed' = FALSE
    /\ \/ /\ Refilled >= Second
          /\ tokens' = Refilled - Second
          /\ loop' = "sync" /\ dur' = 0
          /\ gap' = 0 /\ starts' = [d \in 0 .. Second - 1 |-> starts[d] + 1]
       \/ /\ Refilled < Second
          /\ tokens' = Refilled
          /\ UNCHANGED <<loop, dur, gap, starts>>

\* The three cases of the select.
OnTick == /\ tickC /\ tickC' = FALSE
          /\ doSync
          /\ UNCHANGED <<timer, trigger, cancelled>>

OnTrigger == /\ trigger /\ trigger' = FALSE
             /\ doSync
             /\ UNCHANGED <<tickC, timer, cancelled>>

\* Mutant: the context is only looked at when there is nothing else to do.
OnDoneLast == /\ loop = "select" /\ cancelled /\ ~tickC /\ ~trigger
              /\ loop' = "stopped"
              /\ UNCHANGED <<dur, tickC, timer, trigger, cancelled, tokens,
                             elapsed, gap, starts, owed>>

OnDone == /\ loop = "select" /\ cancelled
          /\ loop' = "stopped"
          /\ UNCHANGED <<dur, tickC, timer, trigger, cancelled, tokens, elapsed,
                         gap, starts, owed>>

\* IncrementalLoad returns, with or without an error.
EndSync == /\ loop = "sync"
           /\ loop' = "select" /\ dur' = 0
           /\ UNCHANGED <<tickC, timer, trigger, cancelled, tokens, elapsed, gap,
                          starts, owed>>

\* main's signal context is cancelled.
Cancel == /\ ~cancelled /\ cancelled' = TRUE
          /\ UNCHANGED <<loop, dur, tickC, timer, trigger, tokens, elapsed, gap,
                         starts, owed>>

\* A tick passes.  The scheduler runs a ready loop within a tick, and a sync
\* takes at most MaxDur.  A ticker whose channel is full drops its tick.
Elapse ==
    /\ \/ loop = "select" /\ ~tickC /\ ~trigger /\ ~cancelled
       \/ loop = "sync" /\ dur < MaxDur
    /\ dur' = IF loop = "sync" THEN dur + 1 ELSE dur
    /\ timer' = IF timer = 1 THEN Interval ELSE timer - 1
    /\ tickC' = (tickC \/ timer = 1)
    /\ elapsed' = IF elapsed = Second THEN Second ELSE elapsed + 1
    /\ gap' = gap + 1
    /\ starts' = [d \in 0 .. Second - 1 |-> IF d = 0 THEN 0 ELSE starts[d - 1]]
    /\ UNCHANGED <<loop, trigger, cancelled, tokens, owed>>

Next == TriggerSync \/ OnTick \/ OnTrigger \/ OnDone \/ EndSync \/ Cancel \/ Elapse

\* Go's select chooses among its ready cases at random, so that a case that
\* stays ready is chosen in the end; the database answers, or the cancelled
\* context ends the query.
Fairness == SF_vars(OnDone) /\ SF_vars(OnTrigger) /\ WF_vars(EndSync)

Spec == Init /\ [][Next]_vars /\ Fairness
-----------------------------------------------------------------------------
\* A trigger is never lost: until doSync has run after the call of
\* TriggerSync, a trigger is pending, also when the call found one pending or
\* came while a sync was running (internal/syncer/syncer.go:58-66).
TriggerKept == owed => trigger

\* RateLimit is the maximum of syncs that start within a second, as config.go:39
\* ("max probabilistic syncs per second (Token Bucket)") and
\* docs/technical-design.md:452 have it.  It is not: a full bucket and what is
\* refilled meanwhile are spent in one second.
RateLimitIsMaximum == starts[Second - 1] <= Capacity

\* What the bucket does guarantee: fewer than twice RateLimit syncs start within
\* any second, RateLimit from a full bucket and fewer than RateLimit from what
\* the second refills (internal/syncer/syncer.go:136-151).
RateBound == starts[Second - 1] < 2 * Capacity

\* Ticks after which an empty bucket holds a token.
TokenWait == (Second + Capacity - 1) \div Capacity

\* Syncs keep coming: however often TriggerSync is called and the bucket
\* refuses, the next sync starts an interval after the last one has ended, or
\* an interval after a tick that came too early for a token.  A refusal, of a
\* tick too, never starves the loop (internal/syncer/syncer.go:77-90).
SyncsKeepComing == \E late \in {MaxDur, TokenWait - 1} : gap <= Interval + late

\* Cancelling the context ends the loop, though triggers keep coming
\* (internal/syncer/syncer.go:75).
CancelStops == cancelled ~> loop = "stopped"
=============================================================================
