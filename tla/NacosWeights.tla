---------------------------- MODULE NacosWeights ----------------------------
(***************************************************************************)
(* The dynamic weights of internal/weight/nacos.go: a cache of weight maps *)
(* per (fqdn, type), filled by one watch per key -- a pull with GetConfig, *)
(* then a push listener registered with ListenConfig.  Start runs the      *)
(* watches of the loaded keys one after the other before DNS is served;    *)
(* GetWeights starts the watch of any other key in a goroutine of its own. *)
(*                                                                         *)
(* The Nacos server and its client library are external.  What the code    *)
(* relies on: GetConfig returns the present content or fails; a registered *)
(* listener sooner or later gets the present content whenever that is not  *)
(* the one it was last given, the first time included; and the calls of    *)
(* OnChange run in the order of the pushes.                                *)
(***************************************************************************)
EXTENDS Integers, Sequences, Functions

CONSTANTS Keys,         \* cacheKeys: (fqdn, type)
          Contents,     \* what the server can hold: see Kind
          MaxPublish,   \* bound on the changes of the server's contents
          MaxQueue      \* bound on the pushes that wait for OnChange

\* A content is [kind |-> "none"] (no such config, the string ""),
\* [kind |-> "bad"] (not the JSON of a weight map), or [kind |-> "map", ws],
\* ws being a function from rdata to weight, empty for {} and null.
ASSUME NacosAssumption ==
    /\ MaxPublish \in Nat /\ MaxQueue \in Nat \ {0}
    /\ \A c \in Contents : c.kind \in {"none", "bad", "map"}

VARIABLES server,     \* server[k]: the content and the number of its publication
          published,  \* publications so far
          loaded,     \* the keys of the records in the store when Start ran
          serving,    \* Start has returned and queries come
          watch,      \* watch[k]: "none" (not in watched), a step, or "end"
          pulled,     \* pulled[k]: what GetConfig returned, not yet stored
          listening,  \* listening[k]: ListenConfig has succeeded
          deaf,       \* deaf[k]: ListenConfig has failed
          given,      \* given[k]: the number the listener was last given
          queue,      \* queue[k]: pushes whose OnChange has not run yet
          weights     \* weights[k]: the cached map, and the number it came from

nacosVars == <<server, published, loaded, serving, watch, pulled, listening, deaf, given,
               queue, weights>>

None == [kind |-> "none"]
NoMap == [r \in {} |-> 0]
NoPull == [content |-> None, num |-> 0]

NacosInit ==
    /\ server \in [Keys -> {[content |-> c, num |-> 0] : c \in Contents}]
    /\ published = 0
    /\ loaded \in SUBSET Keys
    /\ serving = FALSE
    /\ watch = [k \in Keys |-> "none"]
    /\ pulled = [k \in Keys |-> NoPull]
    /\ listening = [k \in Keys |-> FALSE]
    /\ deaf = [k \in Keys |-> FALSE]
    /\ given = [k \in Keys |-> -1]
    /\ queue = [k \in Keys |-> <<>>]
    /\ weights = [k \in Keys |-> [ws |-> NoMap, num |-> -1]]
-----------------------------------------------------------------------------
\* An operator publishes a content, or removes the config.
Publish(k, c) ==
    /\ published < MaxPublish
    /\ published' = published + 1
    /\ server' = [server EXCEPT ![k] = [content |-> c, num |-> published']]
    /\ UNCHANGED <<loaded, serving, watch, pulled, listening, deaf, given, queue, weights>>

\* update: what is not the JSON of a map leaves the cache as it is; an empty
\* map removes the key.
update(k, p) ==
    weights' = IF p.content.kind # "map" THEN weights
               ELSE [weights EXCEPT ![k] = [ws |-> p.content.ws, num |-> p.num]]

\* Mutant: the listener is registered before the pull.
AfterListenFirst(step) == CASE step = "none"   -> "listen"
                            [] step = "listen" -> "pull"
                            [] step = "pull"   -> "store"
                            [] step = "store"  -> "end"

\* The order of the steps of watch.
After(step) == CASE step = "none"   -> "pull"
                 [] step = "pull"   -> "store"
                 [] step = "store"  -> "listen"
                 [] step = "listen" -> "end"

Goto(k, step) == watch' = [watch EXCEPT ![k] = step]

\* LoadOrStore: the first to ask for a key starts its watch.
Watched(k) == watch[k] # "none"

\* Start takes the loaded keys in any order, each watch to its end.
StartWatch(k) ==
    /\ ~serving
    /\ k \in loaded /\ ~Watched(k)
    /\ \A j \in Keys : watch[j] \in {"none", "end"}
    /\ Goto(k, After("none"))
    /\ UNCHANGED <<server, published, loaded, serving, pulled, listening, deaf, given,
                   queue, weights>>

\* Start returns; DNS is served from now on.
StartReturns ==
    /\ ~serving
    /\ \A k \in loaded : watch[k] = "end"
    /\ serving' = TRUE
    /\ UNCHANGED <<server, published, loaded, watch, pulled, listening, deaf, given, queue,
                   weights>>

\* GetConfig: the present content, or an error that is only logged.
GetConfig(k) ==
    /\ watch[k] = "pull"
    /\ \/ pulled' = [pulled EXCEPT ![k] = server[k]]
       \/ pulled' = [pulled EXCEPT ![k] = NoPull]
    /\ Goto(k, After("pull"))
    /\ UNCHANGED <<server, published, loaded, serving, listening, deaf, given, queue, weights>>

\* The pulled content is stored; without one there is nothing to do.
StorePulled(k) ==
    /\ watch[k] = "store"
    /\ update(k, pulled[k])
    /\ Goto(k, After("store"))
    /\ UNCHANGED <<server, published, loaded, serving, pulled, listening, deaf, given, queue>>

\* Mutant: a key without a config gets no listener.
ListenConfigIfPulled(k) ==
    /\ watch[k] = "listen"
    /\ \/ /\ pulled[k].content # None
          /\ listening' = [listening EXCEPT ![k] = TRUE]
          /\ UNCHANGED deaf
       \/ /\ pulled[k].content = None
          /\ UNCHANGED <<listening, deaf>>
    /\ Goto(k, After("listen"))
    /\ pulled' = [pulled EXCEPT ![k] = NoPull]
    /\ UNCHANGED <<server, published, loaded, serving, given, queue, weights>>

\* ListenConfig: it fails for good, since watched keeps the key.
ListenConfig(k) ==
    /\ watch[k] = "listen"
    /\ \/ listening' = [listening EXCEPT ![k] = TRUE] /\ UNCHANGED deaf
       \/ deaf' = [deaf EXCEPT ![k] = TRUE] /\ UNCHANGED listening
    /\ Goto(k, After("listen"))
    /\ pulled' = [pulled EXCEPT ![k] = NoPull]
    /\ UNCHANGED <<server, published, loaded, serving, given, queue, weights>>

\* The library learns of a content the listener was not given yet.
Push(k) ==
    /\ listening[k]
    /\ given[k] # server[k].num
    /\ Len(queue[k]) < MaxQueue
    /\ queue' = [queue EXCEPT ![k] = Append(@, server[k])]
    /\ given' = [given EXCEPT ![k] = server[k].num]
    /\ UNCHANGED <<server, published, loaded, serving, watch, pulled, listening, deaf, weights>>

\* OnChange runs on the oldest push.
OnChange(k) ==
    /\ queue[k] # <<>>
    /\ update(k, Head(queue[k]))
    /\ queue' = [queue EXCEPT ![k] = Tail(@)]
    /\ UNCHANGED <<server, published, loaded, serving, watch, pulled, listening, deaf, given>>

NacosStep(k) == \/ \E c \in Contents : Publish(k, c)
                \/ StartWatch(k) \/ GetConfig(k) \/ StorePulled(k)
                \/ ListenConfig(k) \/ Push(k) \/ OnChange(k)
=============================================================================
