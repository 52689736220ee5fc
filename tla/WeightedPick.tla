---------------------------- MODULE WeightedPick ----------------------------
(***************************************************************************)
(* How a query chooses one record of an A or AAAA rrset (Handler.pick in   *)
(* internal/dns/handler.go) by the weights of the weight provider: Nacos   *)
(* first, then the static weights, which are read from the zone store a    *)
(* second time (internal/weight/composite.go, static.go).  The provider    *)
(* without Nacos is the static one alone; Null, used without PostgreSQL,   *)
(* always returns nil.                                                     *)
(*                                                                         *)
(* A record is its rdata and its static weight.                            *)
(***************************************************************************)
EXTENDS NacosWeights, FiniteSets

CONSTANTS RRsets,   \* the record sequences an rrset can be
          UseNacos, \* an address of a Nacos server is configured
          MaxInt    \* the largest int: the ints are -MaxInt - 1 .. MaxInt

\* Every weight that can be configured.
AllWeights == (UNION {Range(c.ws) : c \in {c \in Contents : c.kind = "map"}})
                  \cup (UNION {{rr[i].weight : i \in DOMAIN rr} : rr \in RRsets})

\* The length of an rrset is an int, and so is the sum of its weights.  The code
\* does not check the sum: beyond, total can be zero or less and rand.Intn panics.
ASSUME PickAssumption ==
    /\ UseNacos \in BOOLEAN /\ MaxInt \in Nat \ {0}
    /\ AllWeights \subseteq Int
    /\ \A rr \in RRsets :
          /\ rr \in Seq(Range(rr)) /\ rr # <<>> /\ Len(rr) <= MaxInt
          /\ \A w \in AllWeights : Len(rr) * w <= MaxInt

VARIABLES rrset,  \* the rrset in the zone store that a query asks for
          pick,   \* the call of pick in progress
          seen    \* history: the values of rrset while it runs

vars == <<nacosVars, rrset, pick, seen>>

\* nacos is what the Nacos provider returned, dyn what the composite did; NoMap
\* stands for nil.
NoPick == [pc |-> "idle", key |-> "none", recs |-> <<>>, nacos |-> NoMap,
           dyn |-> NoMap]

Init == /\ NacosInit
        /\ rrset = <<>>
        /\ pick = NoPick
        /\ seen = {}
-----------------------------------------------------------------------------
\* int arithmetic.
Wrap(x) == ((x + MaxInt + 1) % (2 * (MaxInt + 1))) - (MaxInt + 1)

\* A weight that is not positive counts as 1.
Positive(w) == IF w <= 0 THEN 1 ELSE w

\* The weight of each record: the provider's, else its own.
Ws(recs, dyn) ==
    [i \in DOMAIN recs |->
        Positive(IF recs[i].val \in DOMAIN dyn THEN dyn[recs[i].val]
                 ELSE recs[i].weight)]

\* total after each record.
Totals(ws) ==
    LET t[i \in 0 .. Len(ws)] == IF i = 0 THEN 0 ELSE Wrap(t[i - 1] + ws[i])
    IN t

Total(ws) == Totals(ws)[Len(ws)]

\* Draw n, less the weights so far, after each record.
Left(ws, n) ==
    LET l[i \in 0 .. Len(ws)] == IF i = 0 THEN n ELSE l[i - 1] - ws[i]
    IN l

\* Mutant: the loop stops one draw late.
PickIndexLate(ws, n) ==
    LET neg == {i \in DOMAIN ws : Left(ws, n)[i] <= 0}
    IN CHOOSE i \in DOMAIN ws : IF neg = {} THEN i = Len(ws)
                                ELSE i \in neg /\ \A j \in neg : i <= j

\* The record that draw n of rand.Intn(total) picks: the first that makes n
\* negative, the last record otherwise.
PickIndex(ws, n) ==
    LET neg == {i \in DOMAIN ws : Left(ws, n)[i] < 0}
    IN CHOOSE i \in DOMAIN ws : IF neg = {} THEN i = Len(ws)
                                ELSE i \in neg /\ \A j \in neg : i <= j

\* StaticWeightProvider: the positive weights, by rdata.
StaticWeights(recs) ==
    LET pos == {i \in DOMAIN recs : recs[i].weight > 0}
    IN [v \in {recs[i].val : i \in pos} |->
           recs[CHOOSE i \in pos : /\ recs[i].val = v
                                   /\ \A j \in pos : recs[j].val = v => j <= i].weight]
-----------------------------------------------------------------------------
\* The handler has looked up the rrset rr of k; a single record is returned as it
\* is, otherwise the weights are asked for.
BeginPick(k, rr) ==
    /\ serving
    /\ pick.pc = "idle"
    /\ rrset' = rr
    /\ pick' = [NoPick EXCEPT !.key = k, !.recs = rr,
                   !.pc = IF Len(rr) = 1 THEN "single"
                          ELSE IF UseNacos THEN "nacos" ELSE "static"]
    /\ seen' = {rr}
    /\ UNCHANGED nacosVars

\* NacosWeightProvider.GetWeights: the cached map, and the key's watch if this
\* is the first call for it.
NacosGetWeights ==
    LET k == pick.key
    IN /\ pick.pc = "nacos"
       /\ Goto(k, IF Watched(k) THEN watch[k] ELSE After("none"))
       /\ pick' = [pick EXCEPT !.nacos = weights[k].ws, !.dyn = weights[k].ws,
                               !.pc = IF weights[k].ws # NoMap THEN "draw" ELSE "static"]
       /\ UNCHANGED <<server, published, loaded, serving, pulled, listening, deaf, given,
                      queue, weights, rrset, seen>>

\* The composite falls back to the static provider, which reads the store.
StaticGetWeights ==
    /\ pick.pc = "static"
    /\ pick' = [pick EXCEPT !.dyn = StaticWeights(rrset), !.pc = "draw"]
    /\ UNCHANGED <<nacosVars, rrset, seen>>

\* The draw; any record is returned.
EndPick ==
    /\ pick.pc \in {"single", "draw"}
    /\ pick' = NoPick
    /\ rrset' = <<>> /\ seen' = {}
    /\ UNCHANGED nacosVars

\* A writer changes the rrset during the call, or removes it.
ChangeRRset(rr) ==
    /\ pick.pc \in {"nacos", "static"}
    /\ rrset' = rr
    /\ seen' = seen \cup {rr}
    /\ UNCHANGED <<nacosVars, pick>>

Next == \/ \E k \in Keys : NacosStep(k) /\ UNCHANGED <<rrset, pick, seen>>
        \/ StartReturns /\ UNCHANGED <<rrset, pick, seen>>
        \/ \E k \in Keys, rr \in RRsets : BeginPick(k, rr)
        \/ NacosGetWeights \/ StaticGetWeights \/ EndPick
        \/ \E rr \in RRsets \cup {<<>>} : ChangeRRset(rr)

\* The goroutines of the code run, and the client library delivers.
Fairness == \A k \in Keys :
    /\ WF_vars(GetConfig(k) /\ UNCHANGED <<rrset, pick, seen>>)
    /\ WF_vars(StorePulled(k) /\ UNCHANGED <<rrset, pick, seen>>)
    /\ WF_vars(ListenConfig(k) /\ UNCHANGED <<rrset, pick, seen>>)
    /\ WF_vars(Push(k) /\ UNCHANGED <<rrset, pick, seen>>)
    /\ WF_vars(OnChange(k) /\ UNCHANGED <<rrset, pick, seen>>)

Spec == Init /\ [][Next]_vars /\ Fairness
-----------------------------------------------------------------------------
\* The weights that rdata v may count with, by the documented priority: the one
\* Nacos has for it, else a static weight it had in the store during the call.
Documented(v) ==
    IF v \in DOMAIN pick.nacos THEN {pick.nacos[v]}
    ELSE UNION {{rr[i].weight : i \in {i \in DOMAIN rr : rr[i].val = v}} : rr \in seen}

\* Every record is drawn in proportion to its weight: of the draws rand.Intn
\* can make, exactly as many pick a record as its weight says, a weight below 1
\* counting as 1 (internal/dns/handler.go:288-326: "WeightProvider (dynamic,
\* e.g. Nacos) > Record.Weight (static) > equal distribution").
SharesFollowWeights ==
    pick.pc = "draw" =>
        LET ws == Ws(pick.recs, pick.dyn)
            share(i) == Cardinality({n \in 0 .. Total(ws) - 1 : PickIndex(ws, n) = i})
        IN \A i \in DOMAIN pick.recs :
              \E w \in Documented(pick.recs[i].val) :
                  share(i) = IF w >= 1 THEN w ELSE 1

\* The cached weights of a key never go back to an older publication: neither
\* the pull of watch nor an OnChange overwrites what a later push has brought
\* (internal/weight/nacos.go:93-107).
WeightsNeverGoBack == [][\A k \in Keys : weights'[k].num >= weights[k].num]_vars

\* Unless its ListenConfig failed, a watched key whose config holds a weight map
\* ends up with the map last published, whether it was published before the
\* pull, between the pull and the listener, or after, and whether the pull failed
\* or found nothing (internal/weight/nacos.go:88-111).  A config that was removed
\* or is malformed leaves the weights there were.
EventuallyFresh ==
    \A k \in Keys : <>[](/\ watch[k] = "end"
                         /\ ~deaf[k]
                         /\ server[k].content.kind = "map"
                         => weights[k].num = server[k].num)
=============================================================================
