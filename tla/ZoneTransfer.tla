---------------------------- MODULE ZoneTransfer ----------------------------
(***************************************************************************)
(* Zone transfers (Handler.serveAXFR in internal/dns/handler.go) over the  *)
(* zone store of ZoneMap, while API handlers and the syncer write it.  A   *)
(* transfer takes the Zone pointer once, under the read lock, and then     *)
(* ranges over the Zone's map and slices without any lock, message by      *)
(* message, for as long as the client needs.                               *)
(***************************************************************************)
EXTENDS ZoneMap

CONSTANTS Writers,    \* goroutines that write the store
          Xfers,      \* goroutines that read it
          Names,      \* query names
          BatchSize   \* axfrBatchSize

\* A goroutine that serves DNS writes nothing.  Names are sequences of labels.
ASSUME TransferAssumption ==
    /\ Procs = Writers \cup Xfers /\ Writers \cap Xfers = {}
    /\ BatchSize \in Nat \ {0}
    /\ \A n \in Names \cup {k.name : k \in Keys} : n \in Seq({n[i] : i \in DOMAIN n})

VARIABLE xfer   \* xfer[x]: the transfer x serves

vars == <<mapVars, xfer>>

\* A message carries the SOA or a batch of records.
SOAMsg == [soa |-> TRUE, recs |-> <<>>]
BatchMsg(b) == [soa |-> FALSE, recs |-> b]

\* left are the keys the range over the Records map has still to visit, slice
\* and i where the range over the current rrset is.
NoXfer == [pc |-> "idle", sent |-> <<>>, batch |-> <<>>, left |-> {},
           slice |-> 0, i |-> 0]

\* A record as a writer builds it; the number of Zone objects so far tells the
\* versions of a record apart.
NewRec(a, id, k, v, ver) ==
    [zone |-> a, id |-> id, key |-> k, val |-> v, ver |-> ver]

\* The store after LoadAll: any rows, each in one place.
Init == /\ \E S \in SUBSET Ids : \E f \in [S -> Apexes \X Keys \X Vals] :
              MapInit({NewRec(f[id][1], id, f[id][2], f[id][3], 0) : id \in S})
        /\ xfer = [x \in Xfers |-> NoXfer]

\* The Zone the transfer was given.
ZoneOf(x) == CHOOSE z \in ret[x] : TRUE

Goto(x, s) == xfer' = [xfer EXCEPT ![x].pc = s]

\* WriteMsg sends msg and the transfer goes on as t, or it fails and the
\* transfer ends.
WriteMsg(x, msg, t) ==
    \/ xfer' = [xfer EXCEPT ![x] = [t EXCEPT !.sent = Append(@, msg)]]
    \/ Goto(x, "failed")

\* A request over TCP leads to FindZone; one over UDP is refused.
BeginTCP(x, n) ==
    /\ xfer[x].pc = "idle"
    /\ Call(x, [op |-> "FindZone", arg |-> n])
    /\ Goto(x, "find")

BeginUDP(x) ==
    /\ xfer[x].pc = "idle"
    /\ Goto(x, "refused")
    /\ UNCHANGED mapVars

\* FindZone has returned: no zone, or the opening SOA.
Open(x) ==
    /\ xfer[x].pc = "find"
    /\ pc[x] = "idle"
    /\ \/ ret[x] = {} /\ Goto(x, "refused")
       \/ /\ ret[x] # {}
          /\ WriteMsg(x, SOAMsg, [xfer[x] EXCEPT !.pc = "records",
                              !.left = DOMAIN zoneHeap[ZoneOf(x)].recs])
    /\ UNCHANGED mapVars

\* The outer range: the next key, in any order; a key that the map no longer
\* holds would be skipped.
NextKey(x) ==
    /\ xfer[x].pc = "records"
    /\ xfer[x].slice = 0
    /\ \E k \in xfer[x].left \cap DOMAIN zoneHeap[ZoneOf(x)].recs :
          xfer' = [xfer EXCEPT ![x].left = @ \ {k}, ![x].i = 1,
                               ![x].slice = zoneHeap[ZoneOf(x)].recs[k]]
    /\ UNCHANGED mapVars

\* The inner range: the next record goes into the batch, which is flushed once
\* it is full.  The skip of a record without RR is left out: the loads and the
\* API keep only records that parse to one.
NextRecord(x) ==
    LET t == xfer[x]
        b == Append(t.batch, sliceHeap[t.slice][t.i])
        more == t.i < Len(sliceHeap[t.slice])
        u == [t EXCEPT !.i = IF more THEN @ + 1 ELSE 0,
                       !.slice = IF more THEN @ ELSE 0]
    IN /\ t.pc = "records"
       /\ t.slice # 0
       /\ IF Len(b) >= BatchSize
          THEN WriteMsg(x, BatchMsg(b), [u EXCEPT !.batch = <<>>])
          ELSE xfer' = [xfer EXCEPT ![x] = [u EXCEPT !.batch = b]]
       /\ UNCHANGED mapVars

\* Mutant: the last batch is only sent when it is full.
LastFlushOnlyFull(x) ==
    /\ xfer[x].pc = "records"
    /\ xfer[x].slice = 0
    /\ xfer[x].left = {}
    /\ Goto(x, "close")
    /\ UNCHANGED mapVars

\* The ranges are over: what is left in the batch is flushed.
LastFlush(x) ==
    /\ xfer[x].pc = "records"
    /\ xfer[x].slice = 0
    /\ xfer[x].left = {}
    /\ IF xfer[x].batch = <<>>
       THEN Goto(x, "close")
       ELSE WriteMsg(x, BatchMsg(xfer[x].batch),
                     [xfer[x] EXCEPT !.pc = "close", !.batch = <<>>])
    /\ UNCHANGED mapVars

\* The closing SOA.
Close(x) ==
    /\ xfer[x].pc = "close"
    /\ WriteMsg(x, SOAMsg, [xfer[x] EXCEPT !.pc = "sent"])
    /\ UNCHANGED mapVars

\* The handler returns; the goroutine can serve another request.
Finish(x) ==
    /\ xfer[x].pc \in {"sent", "refused", "failed"}
    /\ xfer' = [xfer EXCEPT ![x] = NoXfer]
    /\ UNCHANGED mapVars
-----------------------------------------------------------------------------
\* API handlers and the syncer call the four writing operations; Update only
\* comes with the empty zone of createDomain now.
Write(w) ==
    /\ \E a \in Apexes :
          \/ Call(w, [op |-> "Update", zone |-> a, arg |-> {}])
          \/ Call(w, [op |-> "Delete", zone |-> a])
          \/ \E id \in Ids, k \in Keys, v \in Vals :
                Call(w, [op |-> "PutRecord", zone |-> a,
                         arg |-> NewRec(a, id, k, v, Len(zoneHeap))])
          \/ \E id \in Ids : Call(w, [op |-> "DropRecord", zone |-> a, arg |-> id])
    /\ UNCHANGED xfer

\* A query calls Lookup, the weight provider's Start calls Snapshot.
ReadOther(x) ==
    /\ xfer[x].pc = "idle"
    /\ \/ \E k \in Keys : Call(x, [op |-> "Lookup", arg |-> k])
       \/ Call(x, [op |-> "Snapshot"])
    /\ UNCHANGED xfer

Transfer(x) == \/ \E n \in Names : BeginTCP(x, n)
               \/ BeginUDP(x) \/ Open(x) \/ NextKey(x) \/ NextRecord(x)
               \/ LastFlush(x) \/ Close(x) \/ Finish(x)

Next == \/ \E p \in Procs : InCall(p) /\ UNCHANGED xfer
        \/ \E w \in Writers : Write(w)
        \/ \E x \in Xfers : ReadOther(x) \/ Transfer(x)

Spec == Init /\ [][Next]_vars
-----------------------------------------------------------------------------
\* Types, no reference that dangles, and no rrset left empty: NameExists
\* (internal/store/rwmutex.go:63) takes a key of the Records map for a record.
TypeOK ==
    /\ zones \in [Apexes -> 0 .. Len(zoneHeap)]
    /\ \A z \in DOMAIN zoneHeap :
          /\ zoneHeap[z].name \in Apexes
          /\ DOMAIN zoneHeap[z].recs \subseteq Keys
          /\ Range(zoneHeap[z].recs) \subseteq DOMAIN sliceHeap
    /\ \A s \in DOMAIN sliceHeap :
          sliceHeap[s] # <<>> /\ Range(sliceHeap[s]) \subseteq Entry
    /\ mu \subseteq Procs
    /\ pc \in [Procs -> {"idle", "called", "publish"}]
    /\ fresh \in [Procs -> 0 .. Len(zoneHeap)]
    /\ \A x \in Xfers : xfer[x].left \subseteq Keys

\* A transfer that went through sent the SOA, then every record of the zone as
\* it was when FindZone returned, each once and none that was written since, in
\* messages of 1 to BatchSize records, then the SOA (serveAXFR,
\* internal/dns/handler.go:218-286: "SOA -> records (<=500 per message) -> SOA").
TransferComplete ==
    \A x \in Xfers : xfer[x].pc = "sent" =>
        LET sent == xfer[x].sent
            body == 2 .. Len(sent) - 1
        IN /\ Len(sent) >= 2 /\ sent[1] = SOAMsg /\ sent[Len(sent)] = SOAMsg
           /\ \A m \in body : ~sent[m].soa /\ Len(sent[m].recs) \in 1 .. BatchSize
           /\ UNION {Range(sent[m].recs) : m \in body} = ZoneRecs(ZoneOf(x))
           /\ \A m, n \in body : \A i \in DOMAIN sent[m].recs, j \in DOMAIN sent[n].recs :
                 sent[m].recs[i] = sent[n].recs[j] => m = n /\ i = j
=============================================================================
