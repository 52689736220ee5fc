------------------------------ MODULE Lifecycle ------------------------------
(***************************************************************************)
(* The life of the process: main (cmd/dns-edge/main.go), the goroutines of *)
(* its three servers and of the syncer, signals and the shutdown, from the *)
(* configuration that ConfigParser reads to the exit.                      *)
(*                                                                         *)
(* What goes wrong outside is a choice: PostgreSQL or Nacos does not       *)
(* answer, a port cannot be bound, a client stalls for ever.               *)
(***************************************************************************)
EXTENDS ConfigParser

CONSTANT MaxBusy   \* bound on the requests in flight at one server

ASSUME LifecycleAssumption == MaxBusy \in Nat \ {0}

VARIABLES pc,        \* the place in main
          conf,      \* the settings that main looks at, and the flag
          loaded,    \* what the zone store was filled from
          provider,  \* the WeightProvider: "null", "static" or "composite"
          srv,       \* the servers' goroutines
          busy,      \* requests in flight, by server
          stmts,     \* how many API requests are in a statement
          syncer,    \* the syncer's goroutine
          sig,       \* a signal arrived
          expired,   \* the five seconds of the shutdown are over
          exit       \* "none", or how the process ended

lifeVars == <<pc, conf, loaded, provider, srv, busy, stmts, syncer, sig, expired, exit>>
vars == <<parseVars, lifeVars>>

\* What the startup alone decides.
fixed == <<parseVars, conf, loaded, provider>>

Servers == {"api", "udp", "tcp"}
NoConf == [pg |-> FALSE, nacos |-> FALSE, tcp |-> FALSE, ticks |-> FALSE,
           migrate |-> FALSE]

Init ==
    /\ ParseInit
    /\ pc = "parse" /\ conf = NoConf
    /\ loaded = "nothing" /\ provider = "null"
    /\ srv = [s \in Servers |-> "off"] /\ busy = [s \in Servers |-> 0]
    /\ stmts = 0 /\ syncer = "off"
    /\ sig = FALSE /\ expired = FALSE /\ exit = "none"

Running == exit = "none"
Goto(from, to) == Running /\ pc = from /\ pc' = to
-----------------------------------------------------------------------------
(***************************************************************************)
(* Startup.                                                                *)
(***************************************************************************)
ReadConfig ==
    /\ Running /\ pc = "parse"
    /\ Parse
    /\ UNCHANGED lifeVars

\* Only what main looks at is kept of the configuration.
UseConfig(migrate) ==
    /\ status = "ok"
    /\ conf' = [pg      |-> cfg[<<"postgres", "dsn">>] # "",
                nacos   |-> cfg[<<"nacos", "addr">>] # "",
                tcp     |-> cfg[<<"main", "tcp">>],
                ticks   |-> cfg[<<"sync", "interval">>] > 0,
                migrate |-> migrate]
    /\ Goto("parse", IF cfg[<<"postgres", "dsn">>] # "" THEN "connect" ELSE "seed")
    /\ lines' = <<>> /\ damage' = "none" /\ toks' = <<>> /\ pos' = 1
    /\ blk' = "start" /\ cfg' = Defaults
    /\ UNCHANGED <<status, loaded, provider, srv, busy, stmts, syncer, sig, expired, exit>>

\* os.Exit(1) or log.Fatal: a bad configuration, or a step against PostgreSQL
\* that fails, the timeout of 30 seconds included.
Fatal ==
    /\ Running
    /\ \/ pc = "parse" /\ status = "error"
       \/ pc \in {"connect", "migrate", "load"}
    /\ exit' = "fatal"
    /\ UNCHANGED <<fixed, pc, srv, busy, stmts, syncer, sig, expired>>

Connect ==
    /\ Goto("connect", IF conf.migrate THEN "migrate" ELSE "load")
    /\ UNCHANGED <<fixed, srv, busy, stmts, syncer, sig, expired, exit>>

EnsureSchema ==
    /\ Goto("migrate", "load")
    /\ UNCHANGED <<fixed, srv, busy, stmts, syncer, sig, expired, exit>>

LoadAll ==
    /\ Goto("load", "weights")
    /\ loaded' = "pg"
    /\ UNCHANGED <<parseVars, conf, provider, srv, busy, stmts, syncer, sig, expired, exit>>

\* Whether a Nacos client can be made: the address must parse, and the library
\* must accept it.
newNacosClient == BOOLEAN

\* Without an address or a client the static weights are used alone.
selectWeightProvider ==
    /\ Goto("weights", "api")
    /\ \E ok \in newNacosClient :
          provider' = IF conf.nacos /\ ok THEN "composite" ELSE "static"
    /\ UNCHANGED <<parseVars, conf, loaded, srv, busy, stmts, syncer, sig, expired, exit>>

seedTestZone ==
    /\ Goto("seed", "notify")
    /\ loaded' = "seed"
    /\ UNCHANGED <<parseVars, conf, provider, srv, busy, stmts, syncer, sig, expired, exit>>

\* A server's goroutine is started, and main goes on.
Spawn(s, from, to) ==
    /\ Goto(from, to)
    /\ srv' = [srv EXCEPT ![s] = "starting"]
    /\ UNCHANGED <<fixed, busy, stmts, syncer, sig, expired, exit>>

StartAPI == Spawn("api", "api", "notify")
StartUDP == Spawn("udp", "udp", IF conf.tcp THEN "tcp" ELSE "wait")
StartTCP == Spawn("tcp", "tcp", "wait")

\* NotifyContext: from here on a signal cancels ctx.
Notify ==
    /\ Goto("notify", IF conf.pg THEN "sync" ELSE "udp")
    /\ UNCHANGED <<fixed, srv, busy, stmts, syncer, sig, expired, exit>>

StartSyncer ==
    /\ Goto("sync", "udp")
    /\ syncer' = "starting"
    /\ UNCHANGED <<fixed, srv, busy, stmts, sig, expired, exit>>
-----------------------------------------------------------------------------
(***************************************************************************)
(* The goroutines.                                                         *)
(***************************************************************************)
\* ListenAndServe; that the port cannot be bound is only logged.
Listen(s) ==
    /\ Running /\ srv[s] = "starting"
    /\ \E r \in {"up", "failed"} : srv' = [srv EXCEPT ![s] = r]
    /\ UNCHANGED <<fixed, pc, busy, stmts, syncer, sig, expired, exit>>

Accept(s) ==
    /\ Running /\ srv[s] = "up" /\ busy[s] < MaxBusy
    /\ busy' = [busy EXCEPT ![s] = @ + 1]
    /\ UNCHANGED <<fixed, pc, srv, stmts, syncer, sig, expired, exit>>

\* The pool hands out no connection once Close has been called.
BeginStatement ==
    /\ Running /\ stmts < busy["api"] /\ pc # "close"
    /\ stmts' = stmts + 1
    /\ UNCHANGED <<fixed, pc, srv, busy, syncer, sig, expired, exit>>

EndStatement ==
    /\ Running /\ stmts > 0
    /\ stmts' = stmts - 1
    /\ UNCHANGED <<fixed, pc, srv, busy, syncer, sig, expired, exit>>

\* A request ends: its client took the answer, or a handler that is not in a
\* statement gave up.
Finish(s) ==
    /\ Running /\ busy[s] > (IF s = "api" THEN stmts ELSE 0)
    /\ busy' = [busy EXCEPT ![s] = @ - 1]
    /\ UNCHANGED <<fixed, pc, srv, stmts, syncer, sig, expired, exit>>

\* PGSyncer.Start: NewTicker panics unless the interval is positive, and a
\* panic in a goroutine ends the process.
SyncerStart ==
    /\ Running /\ syncer = "starting"
    /\ syncer' = IF conf.ticks THEN "idle" ELSE "dead"
    /\ exit' = IF conf.ticks THEN exit ELSE "panic"
    /\ UNCHANGED <<fixed, pc, srv, busy, stmts, sig, expired>>

\* A tick or a trigger; after the signal the load fails before it gets a
\* connection.
BeginSync ==
    /\ Running /\ syncer = "idle" /\ ~sig
    /\ syncer' = "loading"
    /\ UNCHANGED <<fixed, pc, srv, busy, stmts, sig, expired, exit>>

\* PostgreSQL answers; the load succeeds or fails.
EndSync ==
    /\ Running /\ syncer = "loading"
    /\ syncer' = "idle"
    /\ UNCHANGED <<fixed, pc, srv, busy, stmts, sig, expired, exit>>

\* The load runs under ctx, so that a signal cuts its statement off; the error
\* is logged and the connection given back without PostgreSQL's answer.
AbortSync ==
    /\ Running /\ syncer = "loading" /\ sig
    /\ syncer' = "aborted"
    /\ UNCHANGED <<fixed, pc, srv, busy, stmts, sig, expired, exit>>

SyncerStops ==
    /\ Running /\ syncer \in {"idle", "aborted"} /\ sig
    /\ syncer' = "stopped"
    /\ UNCHANGED <<fixed, pc, srv, busy, stmts, sig, expired, exit>>

\* SIGINT or SIGTERM.  It ends the process at once before NotifyContext, and
\* again after the deferred cancel, which runs before the pool is closed.
Signal ==
    /\ Running
    /\ sig' = TRUE
    /\ exit' = IF pc \in {"sync", "udp", "tcp", "wait", "shut-api", "shut-udp", "shut-tcp"}
               THEN exit ELSE "killed"
    /\ UNCHANGED <<fixed, pc, srv, busy, stmts, syncer, expired>>
-----------------------------------------------------------------------------
(***************************************************************************)
(* Shutdown: one server after the other, all within five seconds.          *)
(***************************************************************************)
BeginShutdown ==
    /\ sig
    /\ Goto("wait", IF conf.pg THEN "shut-api" ELSE "shut-udp")
    /\ UNCHANGED <<fixed, srv, busy, stmts, syncer, sig, expired, exit>>

Expire ==
    /\ Running /\ pc \in {"shut-api", "shut-udp", "shut-tcp"}
    /\ expired' = TRUE
    /\ UNCHANGED <<fixed, pc, srv, busy, stmts, syncer, sig, exit>>

ShutPlace == [api |-> "shut-api", udp |-> "shut-udp", tcp |-> "shut-tcp"]
Stoppable(s) == srv[s] = "up" \/ (s = "api" /\ srv[s] = "starting")

\* The listener is closed.  The HTTP server remembers the shutdown, so that a
\* goroutine which has not yet listened returns at once; a DNS server that has
\* not started says so, and starts after all.
CloseListener(s) ==
    /\ Running /\ pc = ShutPlace[s]
    /\ Stoppable(s)
    /\ srv' = [srv EXCEPT ![s] = IF @ = "up" THEN "draining" ELSE "down"]
    /\ UNCHANGED <<fixed, pc, busy, stmts, syncer, sig, expired, exit>>

AfterShutdown(s) == CASE s = "api" -> "shut-udp"
                      [] s = "udp" -> IF conf.tcp THEN "shut-tcp" ELSE "close"
                      [] s = "tcp" -> "close"

\* Mutant: the servers get a context without a deadline.
ShutdownWaits(s) ==
    /\ srv[s] = "draining" => busy[s] = 0
    /\ Goto(ShutPlace[s], AfterShutdown(s))
    /\ ~Stoppable(s)
    /\ srv' = [srv EXCEPT ![s] = IF @ = "draining" THEN "down" ELSE @]
    /\ UNCHANGED <<fixed, busy, stmts, syncer, sig, expired, exit>>

\* Mutant: the servers get the context that the signal has cancelled.
ShutdownCancelled(s) ==
    /\ Goto(ShutPlace[s], AfterShutdown(s))
    /\ ~Stoppable(s)
    /\ srv' = [srv EXCEPT ![s] = IF @ = "draining" THEN "down" ELSE @]
    /\ UNCHANGED <<fixed, busy, stmts, syncer, sig, expired, exit>>

\* Shutdown returns: nothing is in flight, the time is over, or there was no
\* server to stop.  Its error is ignored.
Shutdown(s) ==
    /\ srv[s] = "draining" => busy[s] = 0 \/ expired
    /\ Goto(ShutPlace[s], AfterShutdown(s))
    /\ ~Stoppable(s)
    /\ srv' = [srv EXCEPT ![s] = IF @ = "draining" THEN "down" ELSE @]
    /\ UNCHANGED <<fixed, busy, stmts, syncer, sig, expired, exit>>

Connections == stmts + (IF syncer = "loading" THEN 1 ELSE 0)

\* The deferred pgStore.Close, of which the library says that it waits for the
\* connections in use; main returns.
Return ==
    /\ Connections = 0
    /\ Goto("close", "exited")
    /\ exit' = "done"
    /\ UNCHANGED <<fixed, srv, busy, stmts, syncer, sig, expired>>

Main ==
    \/ ReadConfig \/ (\E m \in BOOLEAN : UseConfig(m))
    \/ Connect \/ EnsureSchema \/ LoadAll \/ selectWeightProvider \/ seedTestZone
    \/ StartAPI \/ Notify \/ StartSyncer \/ StartUDP \/ StartTCP
    \/ BeginShutdown \/ (\E s \in Servers : CloseListener(s) \/ Shutdown(s)) \/ Return

Next ==
    \/ Main \/ Fatal \/ Signal \/ Expire
    \/ \E s \in Servers : Listen(s) \/ Accept(s) \/ Finish(s)
    \/ BeginStatement \/ EndStatement
    \/ SyncerStart \/ BeginSync \/ EndSync \/ AbortSync \/ SyncerStops

\* The scheduler runs main, the clock runs, PostgreSQL answers the API requests
\* and a cancelled load notices.  Nothing is asked of the clients.
Spec == Init /\ [][Next]_vars
             /\ WF_vars(Main) /\ WF_vars(Expire) /\ WF_vars(EndStatement) /\ WF_vars(AbortSync)
-----------------------------------------------------------------------------
\* A process that ends in order within its five seconds has answered every
\* request it took, except that a DNS server whose goroutine listened only
\* after its shutdown had come and gone is cut off (cmd/dns-edge/main.go:141-150,
\* internal/api/server.go:71-74).
RequestsDrain ==
    exit = "done" /\ ~expired =>
        \A s \in Servers : busy[s] > 0 => s # "api" /\ srv[s] = "up"

\* A signal ends the process, whatever its clients do and wherever it
\* is in its startup (cmd/dns-edge/main.go:107, 138-152).
SignalEnds == sig ~> ~Running
=============================================================================
