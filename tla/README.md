# A TLA+ model of dns-edge

dns-edge is an authoritative DNS server whose records live in PostgreSQL and are
served from memory. Several instances run side by side; they never talk to each
other, only to the database. The core of this project models how a change of a
domain or a record travels from an API request through the database into the
memory of every instance; it is checked with TLC on small instances, and its
safety properties are proved with TLAPS for every number of instances, requests,
domains and records. Around the core, each with its own model and its own proofs:
the zone store's copy-on-write heap and the readers that use it without a lock,
the query handler, zone transfers, the weighted pick with its providers, the loop
that decides when to sync, and the life of the process from its configuration file
to its exit.

## The system

| Component | State | Operations | Talks to |
|---|---|---|---|
| Zone store, `internal/store/rwmutex.go` | map apex -> zone, zone = map (name, type) -> records; one RWMutex | `Update`, `Delete`, `PutRecord`, `DropRecord`; `Lookup`, `FindZone`, `NameExists`, `Snapshot` | called by all others |
| PostgreSQL store, `internal/pg` | tables `zones`, `records` with soft delete and `updated_at` | `CreateZone`, `GetZone`, `SoftDeleteZone`, `CreateRecord`, `UpdateRecord`, `SoftDeleteRecord`, `LoadAll`, `IncrementalLoad`, lists | the database; writes the zone store in the two loads |
| HTTP API, `internal/api` | none between requests | create/delete domain, create/update/delete record, lists | PostgreSQL first, then its own instance's zone store |
| Syncer, `internal/syncer` | `lastAt`, trigger channel of capacity 1, token bucket | `Start` loop, `doSync`, `TriggerSync` | `IncrementalLoad` |
| Life cycle, `cmd/dns-edge/main.go` | signal context, startup and shutdown deadlines | connect, migrate, `LoadAll` or seed zone, choose weights, start API, syncer and DNS; drain, close the pool | all |
| Query handler, `internal/dns/handler.go` | none | `ServeDNS`, CNAME chase, weighted pick, AXFR | zone store reads, weight provider, `TriggerSync` |
| Weight providers, `internal/weight` | weights per (name, type), set of watched keys | `GetWeights`, `watch`, `update` | Nacos pull and push |
| Config parser, `config` | none | `ParseFile` | file at start-up |
| Metrics, seed zone, test doubles | -- | -- | -- |

What is hard here:

* **Two steps without a transaction.** A handler commits to PostgreSQL and then
  changes its own memory. Other handlers, the syncer and other instances run in
  between; the process or the connection may die there.
* **A range query over time stamps.** A sync asks for rows with
  `updated_at > since` and must choose the next `since` so that no row is skipped:
  rows may commit while the queries run, a sync may fail half way, a process may
  restart while others write.
* **Two queries per sync.** Deleted zones first, records second, each on its own
  snapshot, each applied row by row while handlers write the same store.
* **Soft deletes that can be undone** (a PUT revives a deleted record) and names
  that stay taken (a deleted domain is never created again).
* **Readers without a lock.** A transfer reads a zone's map and slices for as long
  as its client takes; a query asks the store up to four times and a writer may
  run between any two.
* **Pull and push.** The weights of a name come from a pull and from a listener's
  callbacks, in other goroutines, while the content changes.
* **Triggers, ticks and tokens.** A trigger finds the channel full, a tick finds
  no token, the context is cancelled while both are pending.
* **Shutdown.** One deadline for three servers, goroutines nobody waits for, and a
  pool that waits without a deadline.

What makes the parts correct. The core: an instance serves only what was committed; it
serves each record once; a change that it does not show yet is one that its next
sync will ask for; and it ends up showing every record as its row says and no
deleted domain. The store: calls
are atomic and what a reader got never changes. A query: the answer is right when
writers do not change it, and never claims what was not so at some moment. A
transfer: exactly the zone as it was. The pick: shares follow the documented
weights, which only move forward and end up as last published. The sync loop: no trigger lost,
a bounded rate, no starvation. The process: it starts from a whole configuration
or not at all, and a signal ends it, draining what it can.

## Modules

| Module | Models |
|---|---|
| `DnsRecords` | the shared data: records, rows of the two tables |
| `ZoneStore` | the four writing operations of the zone store, as functions from store to store |
| `PgStore` | the two tables, what each SQL statement reads and writes, time stamps |
| `EdgeSync` | composes the two: request handlers, syncer, crash and restart, for a fleet of instances; the properties |
| `DnsNames` | names as sequences of labels, the walk up to the authoritative zone |
| `ZoneStoreSpec` | abstract: what callers of the zone store rely on |
| `ZoneMap` | `RWMutexStore` with its heap, its lock and copy-on-write; implements `ZoneStoreSpec` |
| `ZoneTransfer` | AXFR over `ZoneMap`, with concurrent writers |
| `QueryHandler` | a query against `ZoneStore`, with writers between its calls |
| `SyncTrigger` | the syncer's loop, trigger channel, ticker and token bucket |
| `NacosWeights` | the cache of dynamic weights, its pulls and pushes |
| `WeightedPick` | composes `NacosWeights`, the static provider and the handler's pick |
| `ConfigParser` | from the tokens of a configuration file to a `Config` |
| `Lifecycle` | composes `ConfigParser`, `main`, the servers' and the syncer's goroutines and signals |
| `MCEdgeSync`, `MCZoneTransfer`, `MCQueryHandler`, `MCWeightedPick`, `MCLifecycle` | TLC instances |
| `EdgeSyncProofs` | proofs of the core's types, and that instances serve committed rows only |
| `EdgeSyncNoLoss` | proofs that a store holds each record once and that no change is lost |
| `DnsNamesProofs` | proof that the walk finds the authoritative zone |
| `ZoneTransferProofs` | proofs that the heap implements the abstract store and that transfers are complete |
| `QueryHandlerProofs` | proofs of what an answer claims |
| `WeightedPickProofs` | proofs that weights never go back and that shares follow them |
| `SyncTriggerProofs` | proofs about triggers, rate and gaps of the sync loop |
| `LifecycleProofs` | proofs about the end of a process, and about what its parser accepts |

### Data of the core

A domain is its apex, a record its row id. The key of a record is its
(owner name, type), the rrset it sits in. TTL and static weight are not modelled;
instead each row version carries `ver`, the number of the commit that wrote it, so
that two versions of a row never look alike. `ver` is a history field: no action
reads it except to copy it. A store is the set of apexes it holds and the set of
its record copies; the order of the records in an rrset is left out. Names are
taken as already normalised (`iface.FQDN`), types and rdata as already parsed.

### Time

`clock` counts commits. A row's `updated_at` (`upd`) is set by the column default
or the trigger to `NOW()`, the start of the statement's transaction. A statement
can commit after statements that started later, and the instance compares the
stamp with its own clock, so a stamp may trail the commit number it belongs to by
up to `MaxLag`. With `MaxLag = 0` stamps order rows as their commits do; this is
an assumption about the environment, not something the code ensures. `queryStart`
and `syncSince` are the clock when they are taken.

### Handlers

One action per statement and one for the store call; `req[h]` is the handler in
slot `h`, `pc` its next step.

| Handler | Statements | Store call |
|---|---|---|
| `createDomain` | `CreateZoneInsert`, `CreateZoneFetch` | `Update` with an empty zone, in both cases |
| `deleteDomain` | `DeleteZone` | `Delete` |
| `createRecord` | `GetZone`, `CreateRecordInsert`, `CreateRecordFetch` | `PutRecord` |
| `updateRecord` | `GetZone`, `UpdateRecordRow` | `PutRecord` |
| `deleteRecord` | `GetZone`, `DeleteRecordRow` | `DropRecord` |

`Abort` is a failed statement or a client that went away: before the statement
took effect, or after it committed and before the handler learnt so.
`OpsInsertRecord` is an operator's own SQL, which the code expects
(`internal/pg/load.go:56`).

### Syncer and life cycle

`StartSync`, `QueryZones`, `ApplyZone` (once per row), `QueryRecords`,
`ApplyRecord` (once per row, in any order), `EndSync`; `SyncError` at any point.
What started the sync, ticker or trigger, makes no difference, and a refusal of
the token bucket changes nothing. `Crash` empties memory, `Boot` takes
`syncSince`, `LoadAll` fills the store before API and syncer start.

### Zone store: `ZoneStoreSpec`, `ZoneMap`

`ZoneMap` has what `rwmutex.go` has: a map from apex to a Zone object, whose
Records map leads to slices, on a heap whose references are handed out in turn.
`Update` and `Delete` are one step, as nothing happens between their lock and
their unlock that another goroutine could see. `PutRecord` and `DropRecord` are
two, under the lock: `PutCopy` or `DropCopy` builds the new Zone, `Publish` stores
it in the map. `FindZone`, `Lookup` and `Snapshot` are one step, possible while no
writer holds the lock, and leave references in `ret`, through which their caller
reads later without a lock.

`ZoneStoreSpec` knows none of that: each call takes effect at one moment, as the
operators of `ZoneStore` say, and `result` never changes once returned. The
refinement mapping of `ZoneMap` maps the heap to the value it stands for and
`result` to *what the returned references lead to now*, so that a writer that
touched a published map or slice would be a step the abstract store cannot take.

### Zone transfer: `ZoneTransfer`

`serveAXFR`: `BeginTCP` calls `FindZone`, `Open` sends the first SOA, `NextKey`
and `NextRecord` are the two ranges (the outer in any order, as Go's), batches are
flushed when full and at the end (`LastFlush`), `Close` sends the second SOA. Any
`WriteMsg` may fail and ends the transfer. The code skips records without an RR;
the loads and the API keep only records that have one, so the skip is left out. Writers run between any two steps.

### Query: `QueryHandler`, `DnsNames`

One action per call of the store: `LookupDirect`, `LookupCNAME`, `LookupTarget`,
`QueryFindZone`, `QueryNameExists`; `ServeDNS` and `ServeEmpty` before, `WriteMsg`
after. The store's calls are atomic here because `ZoneMap` shows that they are.
`seen` collects the values of the store during the query; the reference `Resolve`
says what the answer to a query is on one of them, from the longest matching apex
and without the walk. Type `"A"` stands for A and AAAA, `"MX"` for every type
answered in full. The order of an rrset is left out, so `cnames[0]` is any CNAME.
Records are not renamed here.

### Weights: `NacosWeights`, `WeightedPick`

Each key has its `watch`: `GetConfig`, `StorePulled`, `ListenConfig`, in the order
of `After`; `Push` and `OnChange` are the listener. `published` numbers the
contents, so that an older one can be told from a newer one; the number is a
history field. The Nacos server and library are external, and the model rests on
what the code takes for granted: a listener gets every content that is still
there when the library looks and that it was not given yet, the present one when
it is registered included, and `OnChange` runs in the order of the pushes. A
failed `ListenConfig` is `deaf`: the code never tries again.

`pick` is a function of the number `rand.Intn` draws (`PickIndex`), so that a
record's share can be counted. Integers wrap around above `MaxInt`;
`PickAssumption` says that the weights of an rrset, whichever ones its records
have, add up within an int, which the code does not check.

### Sync loop: `SyncTrigger`

`OnTick`, `OnTrigger` and `OnDone` are the cases of the select; both channels have
one place. Time passes in steps of 1/`Second` s, and the bucket counts tokens in
units of 1/`Second`, which makes its float64 exact. The loop is prompt: time does
not pass while a case is ready, and a sync takes at most `MaxDur`. `gap`, `starts`
and `owed` are history variables; `starts[d]` counts the syncs that started at
most `d` ticks ago. `SyncsKeepComing` bounds the gap between two starts: a tick
that finds the bucket empty is skipped, so the bound is an interval and the longer
of a sync's duration and the wait for a token (`TokenWait`).

### Process: `ConfigParser`, `Lifecycle`

The inputs of the parser are files somebody meant to write, whole or with one token
lost or the end cut off. A file is a sequence of `lines`: the header, settings,
blocks opened and closed, and the last brace. A line knows its block and the block
that comes after it (`WellNested`), and `File` is the tokens of all lines. A block
may come more than once and hold any number of settings, a setting may be made
twice; what counts then is what `Meant` defines from the lines without a parser.
`parseMain` and its four companions are one loop over the tables of their keys. The
end of the tokens is a value of its own, `EOF`, as the parser's `ok` flag is: a value
may be empty or read like a key, as `namespace ""` and `username nacos` of
`Corefile.example` do, or even like a brace. The lexer drops the quotes around a
value, so that the parser takes `"}"` for a brace; `Said` has it as no value, and a
file with one is not valid.

`Lifecycle` follows `main`: `pc` is the place in it. A step against PostgreSQL may
fail (`Fatal`; the 30 seconds of `startCtx` are one reason), a port may not be
bound (`Listen`), the Nacos client may not be made. A signal kills the process
before `NotifyContext` and after the deferred `cancel`, and in between cancels
`ctx`. Servers are "off", "starting", "up", "failed", "draining" or "down"; a DNS
server whose goroutine has not listened when `ShutdownContext` comes is not
stopped by it, while an HTTP server remembers the shutdown. The syncer's statements
run under `ctx`, so the signal cuts a running one off (`AbortSync`); those of the API
run under their requests'. `Return` is the deferred `pgStore.Close`; that it waits
for the connections in use is what the library does, and an assumption here. Of the
configuration only what `main` looks at is kept once it is read.

### What the environment may do

Five constants say what the environment may do; the code prevents none of it.

| Constant | Meaning |
|---|---|
| `MaxLag` | how far a stamp trails its commit |
| `MayRename` | a PUT may change a record's name or type |
| `MayRepost` | a POST may name a domain that is active |
| `Overlap` | two writers may work on one domain at once |
| `Accepts` | whether PostgreSQL takes the INSERT of a POSTed record (`TRUE`), rejects it (`FALSE`), or either |

`Accepts` is there because `queryCreateRecord` says `ON CONFLICT ON CONSTRAINT
records_unique_active_rrset`, and the schema creates that name as a unique index,
which is not a constraint: PostgreSQL rejects the statement with 42704, and every POST
of a record ends in 500. The violation runs have `Accepts = {FALSE}`,
the repository's own schema; their records come from an operator's SQL and change by
PUT. The passing runs have `{TRUE, FALSE}` and the theorems any value, so that they
also hold of the code once the schema has the constraint.

## Runs

| Run | Shows |
|---|---|
| `edge_sync_turns` | writers of a domain take turns, stamps are exact, no renames, no re-posts: `RecordChangeNotLost`, `ZoneDeletionNotLost`, `EventuallyConsistent` hold with a lost connection, failed sync or crash anywhere. The last is about records and deletions; domains without records are `empty_domain_missing` |
| `edge_sync_overlap` | two handlers and a sync interleave freely, late stamps, re-posts: `TypeOK`, `ServesCommittedRows`, `OneCopyPerRecord` hold |
| `overlap_loses` | violation: with overlapping writers an outdated copy stays for good |
| `repost_loses` | violation: a re-posted domain loses its records in memory |
| `lag_loses` | violation: a row with a late stamp is never synced |
| `empty_domain_missing` | violation: a domain without records never reaches another instance |
| `zone_transfer` | `ImplementsZoneStore`: the heap implements the abstract store, with two writers and a reader; `TransferComplete`: a transfer sends the zone it was given, each record once; `TypeOK`: no dangling reference, no empty rrset |
| `query_handler` | `StableAnswer`: writers that do not change the right answer do not change the answer; `ClaimsHeld`: every claim of an answer held at some moment of the query |
| `sync_trigger` | `TriggerKept`, `RateBound`, `SyncsKeepComing`, `CancelStops` |
| `rate_exceeds` | violation: more than `RateLimit` syncs start within a second |
| `weighted_pick` | `SharesFollowWeights`, `WeightsNeverGoBack`, `EventuallyFresh` |
| `lifecycle` | `ParsesAsMeant`, `DamageDetected` of the parser; `RequestsDrain`, `SignalEnds` of the process |

The violations are kept because each contradicts something the repository says, and
most show one thing the passing runs have to exclude:

* `overlap_loses`: a PUT commits; a second PUT of the record commits and publishes; a
  sync passes; then the first PUT's `PutRecord` puts the older version back. Nothing
  orders the two store calls as the commits are ordered, and the row is no longer
  in any sync's range. The README promises a window of 0 to 30 seconds.
* `repost_loses`: `createDomain` calls `Update` with an empty zone also when
  `CreateZone` returned an existing domain.
* `lag_loses`: the comment in `doSync` says that changes written during the query
  window are caught by the next sync; a row stamped before `queryStart` that
  commits after the query is not.
* `empty_domain_missing`: a new domain is put into the memory of its own instance, so
  that it answers NXDOMAIN. `IncrementalLoad` ignores zones that are not deleted and
  `LoadAll` joins zones with records, so that the others, and it after a restart,
  answer REFUSED. `EventuallyConsistent` therefore speaks of records and deletions.
* `rate_exceeds`: `config.go` calls `RateLimit` the maximum per second. A full bucket
  and what is refilled meanwhile allow up to twice that less one, which is
  `RateBound`, the bound that does hold. The syncs of the counterexample are all
  started by triggers.

Other disagreements of the code with what the repository says of it are in the
models, and no property is stated against them:

* `PutRecord` is documented to match by id (`iface.go:67`); it matches by id within the
  rrset of the new key, so a PUT that changes a record's name or type leaves the old
  copy beside the new one. `OneCopyPerRecord` is checked and proved without such PUTs.
* A PUT that overlaps the deletion of its domain brings the domain back into memory
  (`rwmutex.go:162`), for good if a sync has applied the deletion in between.
* A sync that has read a row before a PUT of it commits overwrites the PUT's value on
  the instance that was written, where `docs/technical-design.md:359` promises 0 ms;
  the next sync repairs the copy, which is what `RecordChangeNotLost` and
  `EventuallyConsistent` say.
* A POST of a record fails (see `Accepts` above).
* A record put between the `Lookup` and the `NameExists` of a query for it makes the
  answer NODATA, "name exists but wrong type" (`handler.go:158`), for a name that
  never existed without that type. `query_handler` therefore asks for less than an
  answer that was right at one moment.
* `update` takes the empty content of a removed Nacos config for malformed JSON and
  keeps the old weights, while `GetWeights` is documented to return nil when none are
  configured (`iface.go:121`). `EventuallyFresh` therefore speaks of configs that hold
  a map.
* The comment at `main.go:49-50` says that a SIGTERM does not abort a slow load; before
  `NotifyContext` it ends the process at once.
* `RequestsDrain` has an exception: a DNS server that listens only after its shutdown
  has come and gone is cut off.

### Bounds

`edge_sync_turns` has one instance, one request slot, one domain, two records and
four commits (`MaxClock`): enough to create the domain, create a record, change it
and delete or revive it, with one failure (`MaxFaults`) anywhere. One instance is
enough because instances share nothing but the database, and what other instances
write is covered by `OpsInsertRecord` and by requests whose store call was lost;
the theorems hold for any number. `edge_sync_overlap` has two requests and two
domains (a record used under the wrong domain, a handler and a sync on one
domain), three commits and a lag of one; it uses symmetry over the interchangeable
sets, which is sound as it checks no liveness. The violation runs have the
smallest constants that show the behaviour.

* `zone_transfer`: two writers (a lost update needs two), one reader, one zone, two
  records and two keys, three Zone objects: a transfer can meet two rewrites of
  the zone it reads, and batches of two are filled exactly, partly or not at all.
  Writers and row ids are interchangeable, and the properties are safety
  properties.
* `query_handler`: a zone and one below it, four keys, two records, *every* store
  of that shape as the start, and two writes per query. Queries share nothing, so
  one at a time is enough, and writes outside a query only lead to another start.
* `sync_trigger`: three syncs per second of six ticks, an interval longer than a
  second and syncs that may outlast it, so that both channels fill up and the
  bucket refuses ticks and triggers.
* `weighted_pick`: one key, as keys share nothing, watched by `Start` or by the
  first query; two publications, which can fall before the pull, between pull and
  listener, and after; rrsets of one to three records with zero, negative and
  positive weights; integers from -16 to 15.
* `lifecycle`: every file with at most three lines between the first and the last (a
  block with a setting, an empty block beside a setting, a setting made again), whole,
  without any one token, and cut off anywhere. Of the texts one is a number, a
  duration and a probability, one is empty and one reads like a key of two blocks.
  Longer files are left to the theorems, which are about every length and every set
  of texts. Two requests per server, so that one can finish while the other holds
  the shutdown. A file that has both a database and an interval of 0 needs six
  lines: the panic of `NewTicker` in `SyncerStart` is in the model and in the
  theorems, and outside this run. Deadlock is not checked, since the process ends.

### Fairness

Weak fairness of each handler's next step (a goroutine that has started runs
until it answers; statements return or fail) and of each syncer's next step (the
ticker fires every interval and `doSync` runs when it does, the bucket having at
least one token again after a second). New requests, failures, crashes and
restarts have no fairness. Under it, since the bounds let only finitely many
writes and failures happen, every instance that stays up converges.

`SyncTrigger`: strong fairness of `OnDone` and `OnTrigger`, because Go's select
chooses at random among the cases that are ready, and weak fairness of `EndSync`.
`SyncsKeepComing` is a bound on time and needs none. `WeightedPick`: weak fairness
of the watches' steps, of the library's pushes and of `OnChange`; none of
publishing or of queries. `Lifecycle`: weak fairness of `main`, of the clock, of
PostgreSQL answering an API statement and of a cancelled sync noticing (`AbortSync`);
none of clients, which may stall for ever, and none of signals. The pool's `Close` has no
deadline, so without the third of these a signalled process could hang.

## Proofs

All theorems are about `Spec` with arbitrary constants; the named `ASSUME` of a
module (types of its constants, and what is said below) is all they rest on, but
for those theorems of the core that name an assumption on the environment.

### Core

* `TypeCorrect`: `Spec => []TypeOK`. The inductive invariant `TypeInv` adds that a
  request in flight has the fields its step uses (`WellFormed`).
* `ServesCommitted`: `Spec => []ServesCommittedRows`. The property is not
  inductive: a copy also travels in the rows a sync has still to apply and in the
  hands of a handler between its statement and its store call. `CommittedInv`
  says of each such copy that it is a version of a row (`BackedIn`, `Later`), and
  of the tables that ids and names are unique and row versions are not newer than
  the clock. A writing statement only moves rows on to later versions
  (`Evolves`), so what was committed stays committed; a store call or a sync step
  leaves the tables alone and copies only what is backed.
* `OneCopy`, assuming `~MayRename`: `Spec => []OneCopyPerRecord`. `PutRecord`
  replaces a record only within the rrset of the new key, so one copy per id needs
  more than its own induction: `KeyInv` says that every copy, in a store, among a
  sync's rows or in a handler's hands, is under the key its row has now. Rows keep
  their keys when no PUT renames, so the put always finds the copy it replaces.
  Without the assumption it does not hold (see Runs).
* `NoLoss`, assuming `TakingTurns` (no rename, no re-post, no overlapping writers,
  `MaxLag = 0`): `Spec => [](RecordChangeNotLost /\ ZoneDeletionNotLost)`.
  `NoLossInv` has two parts. `HandlerInv`: a handler is alone on its domain, and
  the store call it is about to make agrees with the tables as they are now.
  `NodeInv`, per instance: what the store does not show is stamped after `lastAt`
  (`Caught`), and, during a sync, what was stamped up to its start is shown or
  among the rows still to be applied (`SyncOK`). A statement stamps its row with
  the next commit number, later than every `lastAt` and every sync's start. A store
  call that agrees with the tables hides nothing that was shown (`Keeps`). Each
  row a sync applies moves from "to be applied" to "shown", or was overtaken
  after the sync's start; so when no row is left, `EndSync` may move `lastAt` to
  that start. A failed sync or an aborted request changes neither `lastAt` nor the
  tables; a restart takes `lastAt` before `LoadAll` reads. `overlap_loses`,
  `repost_loses` and `lag_loses` show that three of the assumptions cannot be
  dropped; the fourth, no renames, makes `PutRecord` find the copy it replaces.

  `ZoneDeletionKept` states the second conjunct by itself.

### Names

`WalkFindsZone`: for every name and every set of zones, `lockedFindZone`, which
walks from the name up and stops at the first zone or at the last label, finds
what `Authoritative` defines without a walk. The walk is a recursive function; the
proof closes it by the well-foundedness of `<` on the naturals (a least counter-
example) instead of an induction theorem with an operator parameter. The store,
the transfer and the query rest on it.

### Zone store and transfer

* `StoreImplemented`: `Spec => ImplementsZoneStore`, the refinement. `MapInv` says
  of the heap that a slice under a key of a Zone holds records of that key and
  apex, no id twice, at least one (`HeapOK`); of the map that an apex leads to a
  Zone of that name (`StoreOK`); and of each goroutine (`ProcOK`) that what it was
  returned is on the heap and, if it is about to publish, that it is the one that
  holds the lock and that its new Zone holds exactly what the *present* value of
  the zone becomes by its call (`Built`). This last part is what the lock is for:
  between the copy and the publication nobody else changes the value. Every step
  only adds to the heap (`Grows`), so the results that the refinement mapping
  reads through references stay what they were (`ResGrows`). `Publish`,
  `UpdateZone`, `DeleteZone`, `DropNothing` and the reading calls are then effects
  of the abstract store, `PutCopy`, `DropCopy` and the steps of a transfer
  stutters.
* `StoreWellFormed`: `Spec => []TypeOK`, from `MapInv`.
* `TransfersComplete`: `Spec => []TransferComplete`. `XferInv` says of a transfer
  under way that the records of its Zone are those it has sent, those in its batch
  and those its two ranges have still to reach, that the three have nothing in
  common and that none is sent or batched twice (`SendingOK`). `NextKey` moves a
  slice from the outer range to the inner, `NextRecord` a record from the inner to
  the batch, a flush the batch to the messages. That a record is in one slice and
  there once is `HeapOK`; that writers do not disturb any of it is `Grows` again.

Assumed: the names asked for are sequences, there are finitely many row ids
(`MapAssumption`; Zones are built from finite sets of records), and a goroutine
that serves DNS writes nothing (`TransferAssumption`).

### Query

`ClaimsHold` and `StableAnswers`: `Spec => []ClaimsHeld`, `Spec => []StableAnswer`,
for every set of zones, names, types and records and any number of writes. The
inductive `QueryInv` keeps, per place in `ServeDNS`, what the query has learnt and
that this was so in one of the states it has `seen` (`Learnt`): the rrset was
empty, the CNAME was there or was not, this was the zone. An answer is put
together from such facts, each of one state; if `Resolve` is the same in all of
them it is the answer.

### Weights

* `NeverBack`: `Spec => WeightsNeverGoBack`, from `NacosInv`. What is stored is older than, or as
  old as, what waits in the listener's queue, which is in order; a pull that has
  been answered and not stored has no listener yet that could have overtaken it.
* `SharesFollow`: `Spec => []SharesFollowWeights`. `PickInv` traces the weights of a
  draw to the cache or to an rrset the query has `seen`. The sum is `Totals`, the draw
  after `i` records is `Left`; both are recursive functions, closed as the walk
  above. The draws that stop at record `i` are the interval between two totals,
  whose cardinality is the weight. `PickAssumption` keeps the sum from wrapping.

### Sync loop

`SyncInv` has what the three theorems need. `TriggersKept`: `TriggerKept` is
inductive. `RateBounded`: the syncs started in the last `d` ticks were paid for by
what a full bucket holds and `d` ticks refill (`Spent`). `SyncsComing`: since the
last start the bucket has earned a token if it had the time to (`Earned`), and the
next tick comes early enough (`TickInTime`).

### Process

`Drains`: `Spec => []RequestsDrain`. `DrainInv` says which servers can be up, draining
or down at which place of `main`, that requests are in flight only where a server
listens, drains or was given up at the deadline, and that a server that was never
started has none.

### Parser

`ParserMeans` and `ParserDetects`: `Spec => []ParsesAsMeant` and
`Spec => []DamageDetected`, for files with any number of lines, every set of texts
and every conversion; all that is assumed of the texts is that the end of the file is
none of them. `DamageDetected` is about files that would be accepted whole. First the places: `TokensTo` is a recursive function, closed
as the walk above, and line `i` stands right after the `Before(lines, i)` tokens of
the lines before it (`Places`). The inductive `ParserInv` then says where a parser
that has not finished can be.

* `InStep(n)`: it is at the start of a line, in that line's block, with at most the
  first `n` tokens read, and on a whole file `cfg` is what the lines before mean.
  One iteration reads one line (`LineStep`) and moves on by its setting
  (`MeantStep`), so a whole file is read to its last brace or to the first value
  that does not convert.
* A file that is cut off after `n` tokens stays `InStep(n)` until the end of the
  file is where a key, a value or a brace should be.
* A file that lost token `k` is `InStep(k - 1)` up to the line of `k`. What
  follows is an error at once or one of three detours, which all end in one:
  `Skewed` (the parser is one token too far and takes values for keys and the keys
  after them for their values; it cannot get back into step before the next brace,
  which is then where a value should be), `Unclosed` (the brace of a block was lost,
  and lines of the outer block are read inside it: keys that both blocks have set
  the wrong one, for a while) and `AtEnd` (the file ends inside a block).

`Unclosed` is why `DamageDetected` needs an invariant of its own: `listen` after a
lost brace is accepted into `api`, and only the missing last brace tells.

### Only model-checked

* Liveness: `EventuallyConsistent`, `CancelStops`, `EventuallyFresh`, `SignalEnds`.
  Reasoning about fairness is outside TLAPS as installed here.

## Not modelled

* The lexer (`tokenize`, `lexLine`): it works on characters, line by line. Its
  tokens are the parser's input.
* EDNS0 and the other fields of a DNS message; the SOA's contents (its serial is
  always 1, as nothing sets `Zone.SOA`); TTLs.
* Metrics, which nothing reads back, the health endpoint, and the mocks of the
  unit tests.
* The GET handlers and `ListZones`/`ListRecords`, which change nothing.
* Rows that do not parse are skipped by the loads; API requests are validated
  before they are written, so such rows come only from an operator's SQL and are
  left out.
* How a (name, type) is written as a Nacos data id, and the client's settings.
