--------------------------- MODULE LifecycleProofs ---------------------------
(***************************************************************************)
(* A process that ends in order drains its requests, for every             *)
(* configuration and every number of requests in flight.  Its parser takes *)
(* a whole file for what it says and rejects a damaged one, for files of   *)
(* any length with any values.                                             *)
(***************************************************************************)
EXTENDS Lifecycle, DnsNamesProofs

\* The types of what the shutdown looks at.
LifeTypes ==
    /\ srv \in [Servers -> {"off", "starting", "up", "failed", "draining", "down"}]
    /\ busy \in [Servers -> Nat]
    /\ stmts \in Nat

\* The places in main before the API server is started.
Early == {"parse", "connect", "migrate", "load", "weights", "api"}

\* A server drains only while main waits for it.
Draining == \A s \in Servers : srv[s] = "draining" => pc = ShutPlace[s]

\* Requests are in flight only where a server listens, drains, or was given up
\* when the time was over.
InFlight == \A s \in Servers :
    busy[s] > 0 => srv[s] \in {"up", "draining"} \/ (srv[s] = "down" /\ expired)

\* A server is off until main starts it, and only a process with a database
\* starts the API server.
Started ==
    /\ pc \in Early => srv["api"] = "off"
    /\ pc \in Early \cup {"seed", "notify", "sync", "udp"} => srv["udp"] = "off"
    /\ pc \in Early \cup {"seed", "notify", "sync", "udp", "tcp"} => srv["tcp"] = "off"
    /\ pc \in Early \ {"parse"} => conf.pg
    /\ ~conf.pg => srv["api"] = "off"

\* Once main is past the API server, that one takes no request any more.
ApiClosed ==
    pc \in {"shut-udp", "shut-tcp", "close", "exited"} =>
        srv["api"] \in {"off", "failed", "down"}

\* A process that ended in order went through all of main.
DoneExited == exit = "done" => pc = "exited"

DrainInv == /\ LifeTypes /\ Draining /\ InFlight /\ Started /\ ApiClosed
            /\ DoneExited
-----------------------------------------------------------------------------
LEMMA DrainInit == Init => DrainInv
BY DEF Init, DrainInv, LifeTypes, Draining, InFlight, Started, Early, ApiClosed,
       DoneExited, Servers, Running, NoConf

LEMMA DrainStep == DrainInv /\ [Next]_vars => DrainInv'
<1> SUFFICES ASSUME DrainInv, [Next]_vars PROVE DrainInv'
  OBVIOUS
<1> USE DEF DrainInv, LifeTypes, Draining, InFlight, Started, Early, ApiClosed,
            DoneExited, Servers, Running, ShutPlace, fixed
<1>1. CASE ReadConfig
  BY <1>1 DEF ReadConfig, lifeVars
<1>2. CASE \E m \in BOOLEAN : UseConfig(m)
  <2>1. PICK m \in BOOLEAN : UseConfig(m)
    BY <1>2
  <2> DEFINE dsn == cfg[<<"postgres", "dsn">>]
  <2>2. /\ pc = "parse" /\ pc' = IF dsn # "" THEN "connect" ELSE "seed"
        /\ UNCHANGED <<srv, busy, stmts, syncer, expired, exit>>
    BY <2>1 DEF UseConfig, Goto
  <2>3. conf' = [pg      |-> dsn # "",
                 nacos   |-> cfg[<<"nacos", "addr">>] # "",
                 tcp     |-> cfg[<<"main", "tcp">>],
                 ticks   |-> cfg[<<"sync", "interval">>] > 0,
                 migrate |-> m]
    BY <2>1 DEF UseConfig
  <2> HIDE DEF dsn
  <2>4. conf'.pg = (dsn # "")
    BY <2>3
  <2>5. CASE dsn = ""
    <3>1. pc' = "seed" /\ ~conf'.pg
      BY <2>2, <2>4, <2>5
    <3> QED
      BY <2>2, <3>1
  <2>6. CASE dsn # ""
    <3>1. pc' = "connect" /\ conf'.pg
      BY <2>2, <2>4, <2>6
    <3> QED
      BY <2>2, <3>1
  <2> QED
    BY <2>5, <2>6
<1>3. CASE Connect
  BY <1>3 DEF Connect, Goto
<1>4. CASE EnsureSchema
  BY <1>4 DEF EnsureSchema, Goto
<1>5. CASE LoadAll
  BY <1>5 DEF LoadAll, Goto
<1>6. CASE selectWeightProvider
  BY <1>6 DEF selectWeightProvider, Goto
<1>7. CASE seedTestZone
  BY <1>7 DEF seedTestZone, Goto
<1>8. CASE StartAPI
  BY <1>8 DEF StartAPI, Spawn, Goto
<1>9. CASE Notify
  BY <1>9 DEF Notify, Goto
<1>10. CASE StartSyncer
  BY <1>10 DEF StartSyncer, Goto
<1>11. CASE StartUDP
  BY <1>11 DEF StartUDP, Spawn, Goto
<1>12. CASE StartTCP
  BY <1>12 DEF StartTCP, Spawn, Goto
<1>13. CASE BeginShutdown
  BY <1>13 DEF BeginShutdown, Goto
<1>14. CASE \E s \in Servers : CloseListener(s)
  BY <1>14 DEF CloseListener, Stoppable
<1>15. CASE \E s \in Servers : Shutdown(s)
  BY <1>15 DEF Shutdown, AfterShutdown, Stoppable, Goto
<1>16. CASE Return
  BY <1>16 DEF Return, Goto
<1>17. CASE Fatal
  BY <1>17 DEF Fatal
<1>18. CASE Signal
  BY <1>18 DEF Signal
<1>19. CASE Expire
  BY <1>19 DEF Expire
<1>20. CASE \E s \in Servers : Listen(s)
  BY <1>20 DEF Listen
<1>21. CASE \E s \in Servers : Accept(s)
  BY <1>21 DEF Accept
<1>22. CASE \E s \in Servers : Finish(s)
  BY <1>22 DEF Finish
<1>23. CASE BeginStatement
  BY <1>23 DEF BeginStatement
<1>24. CASE EndStatement
  BY <1>24 DEF EndStatement
<1>25. CASE SyncerStart
  BY <1>25 DEF SyncerStart
<1>26. CASE BeginSync
  BY <1>26 DEF BeginSync
<1>27. CASE EndSync
  BY <1>27 DEF EndSync
<1>28. CASE AbortSync
  BY <1>28 DEF AbortSync
<1>29. CASE SyncerStops
  BY <1>29 DEF SyncerStops
<1>30. CASE UNCHANGED vars
  BY <1>30 DEF vars, lifeVars
<1> QED
  BY <1>1, <1>2, <1>3, <1>4, <1>5, <1>6, <1>7, <1>8, <1>9, <1>10, <1>11, <1>12, <1>13, <1>14, <1>15, <1>16, <1>17, <1>18, <1>19, <1>20, <1>21, <1>22, <1>23, <1>24, <1>25, <1>26, <1>27, <1>28, <1>29, <1>30 DEF Next, Main

\* An exit in order, within the five seconds, leaves no request behind but
\* those of a DNS server that started too late to be stopped.
LEMMA DrainedExit == DrainInv => RequestsDrain
BY DEF DrainInv, LifeTypes, Draining, InFlight, ApiClosed, DoneExited,
       RequestsDrain, Servers, ShutPlace

\* A process that ends in order within its five seconds has answered every
\* request its API server took, and every one of a DNS server that was up when
\* it was shut down (cmd/dns-edge/main.go:141-150, internal/api/server.go:71-74).
THEOREM Drains == Spec => []RequestsDrain
BY DrainInit, DrainStep, DrainedExit, PTL DEF Spec
-----------------------------------------------------------------------------
(***************************************************************************)
(* The parser.  It reads a file line by line; the places of the lines are  *)
(* found by induction on their number.                                     *)
(***************************************************************************)
\* A whole file, as somebody meant to write it.
WholeFile(f) ==
    /\ f \in Seq(Lines \cup {Header, Footer}) /\ Len(f) >= 2
    /\ f[1] = Header /\ f[Len(f)] = Footer
    /\ \A i \in 2 .. Len(f) - 1 : f[i] \in Lines
    /\ WellNested(f)

\* How many tokens stand before line i.
Before(f, i) == Len(TokensTo(f)[i - 1])

\* Of the first n tokens nothing is wrong: the parser is at the start of a line,
\* in its block, and has made the settings of the lines before it.
InStep(n) ==
    \E i \in 1 .. Len(lines) :
        /\ pos = Before(lines, i) + 1 /\ Before(lines, i) <= n
        /\ blk = lines[i].blk
        /\ damage = "none" => /\ Valid(SubSeq(lines, 1, i - 1))
                              /\ cfg = Meant(SubSeq(lines, 1, i - 1))

\* What a lost token leads to.  A key or a value was lost, and the parser is one
\* token too far: it takes the second token of a line for a key, and may take
\* the key of the next line for its value;
Skewed(k) ==
    \E i \in 2 .. Len(lines) :
        /\ pos = Before(lines, i) + 1 /\ k <= pos
        /\ blk = lines[i].blk /\ Len(lines[i].text) = 2

\* the closing brace of a block was lost, and settings of the outer block are
\* read as if they were in this one;
Unclosed(k) ==
    \E i \in 1 .. Len(lines) :
        /\ pos = Before(lines, i) /\ k <= pos
        /\ blk \in SubBlocks /\ lines[i].blk = "main"

\* or the file has ended inside a block.
AtEnd == blk \in SubBlocks \cup {"main"} /\ pos > Len(toks)

Lost(k) == InStep(k - 1) \/ Skewed(k) \/ Unclosed(k) \/ AtEnd

ParsingInv ==
    LET f == File(lines)
    IN \/ damage = "none" /\ toks = f /\ InStep(Len(f))
       \/ damage = "cut" /\ \E n \in 0 .. Len(f) - 1 : toks = SubSeq(f, 1, n) /\ InStep(n)
       \/ damage = "lost" /\ \E k \in 1 .. Len(f) :
                toks = RemoveAt(f, k) /\ (Valid(lines) => Lost(k))

ParserInv ==
    /\ status = "parsing" => WholeFile(lines) /\ pos \in Nat \ {0} /\ ParsingInv
    /\ ParsesAsMeant /\ DamageDetected
-----------------------------------------------------------------------------
\* TokensTo is what its definition says, for every number of lines.
LEMMA TokensToFunction ==
    ASSUME NEW f, Len(f) \in Nat
    PROVE  TokensTo(f) = [n \in 0 .. Len(f) |->
               IF n = 0 THEN <<>> ELSE TokensTo(f)[n - 1] \o f[n].text]
<1> DEFINE N == Len(f)
           Nil == <<>>
           Add(s, n) == s \o f[n].text
           Eq(m, g) == g = [n \in 0 .. m |-> IF n = 0 THEN Nil ELSE Add(g[n - 1], n)]
           S == {m \in Nat : \E g : Eq(m, g)}
<1>1. TokensTo(f) = CHOOSE g : Eq(N, g)
  BY DEF TokensTo
<1> HIDE DEF Nil, Add
<1>2. 0 \in S
  <2> DEFINE g == [n \in 0 .. 0 |-> Nil]
  <2>1. g = [n \in 0 .. 0 |-> IF n = 0 THEN Nil ELSE Add(g[n - 1], n)]
    OBVIOUS
  <2> HIDE DEF g
  <2> QED
    BY <2>1
<1>3. ASSUME NEW m \in Nat, m \in S PROVE m + 1 \in S
  <2>1. PICK g : Eq(m, g)
    BY <1>3
  <2> DEFINE h == [n \in 0 .. m + 1 |-> IF n = m + 1 THEN Add(g[m], m + 1) ELSE g[n]]
  <2>2. \A n \in 0 .. m : g[n] = IF n = 0 THEN Nil ELSE Add(g[n - 1], n)
    BY <2>1
  <2>3. /\ h[m + 1] = Add(g[m], m + 1)
        /\ \A n \in 0 .. m : h[n] = g[n]
        /\ h = [n \in 0 .. m + 1 |-> h[n]]
    OBVIOUS
  <2> HIDE DEF h
  <2>4. ASSUME NEW n \in 0 .. m + 1
        PROVE  h[n] = IF n = 0 THEN Nil ELSE Add(h[n - 1], n)
    <3>1. CASE n = m + 1
      <4>1. n # 0 /\ n - 1 = m /\ m \in 0 .. m
        BY <3>1
      <4>2. h[n - 1] = g[m]
        BY <2>3, <4>1
      <4> QED
        BY <2>3, <3>1, <4>1, <4>2
    <3>2. CASE n # m + 1
      <4>1. n \in 0 .. m /\ (n # 0 => n - 1 \in 0 .. m)
        BY <3>2
      <4>2. h[n] = g[n] /\ (n # 0 => h[n - 1] = g[n - 1])
        BY <2>3, <4>1
      <4> QED
        BY <2>2, <4>1, <4>2
    <3> QED
      BY <3>1, <3>2
  <2>5. h = [n \in 0 .. m + 1 |-> IF n = 0 THEN Nil ELSE Add(h[n - 1], n)]
    BY <2>3, <2>4
  <2> QED
    BY <2>5
<1>4. N \in S
  <2> HIDE DEF S
  <2> QED
    BY <1>2, <1>3, SetInduction
<1>5. Eq(N, TokensTo(f))
  <2>1. PICK g : Eq(N, g)
    BY <1>4
  <2> HIDE DEF Eq
  <2> QED
    BY <1>1, <2>1
<1> QED
  BY <1>5 DEF Nil, Add

\* The text of a file and the places of its lines.  T stands for the tokens.
LEMMA TokensToGrow ==
    ASSUME NEW T, NEW f, Len(f) \in Nat, \A i \in 1 .. Len(f) : f[i].text \in Seq(T)
    PROVE  /\ TokensTo(f)[0] = <<>>
           /\ \A n \in 0 .. Len(f) : TokensTo(f)[n] \in Seq(T)
           /\ \A n \in 1 .. Len(f) : TokensTo(f)[n] = TokensTo(f)[n - 1] \o f[n].text
<1> DEFINE N == Len(f)
           t == TokensTo(f)
           Nil == <<>>
           Add(s, n) == s \o f[n].text
           S == {m \in Nat : m <= N => t[m] \in Seq(T)}
<1>1. t = [n \in 0 .. N |-> IF n = 0 THEN Nil ELSE Add(t[n - 1], n)]
  BY TokensToFunction
<1>2. Nil \in Seq(T)
  OBVIOUS
<1>3. \A s \in Seq(T), n \in 1 .. N : Add(s, n) \in Seq(T)
  OBVIOUS
<1> HIDE DEF t, Nil, Add
<1>4. t[0] = Nil /\ \A n \in 1 .. N : t[n] = Add(t[n - 1], n)
  BY <1>1
<1>5. 0 \in S
  BY <1>4, <1>2
<1>6. ASSUME NEW m \in Nat, m \in S PROVE m + 1 \in S
  <2> SUFFICES ASSUME m + 1 <= N PROVE t[m + 1] \in Seq(T)
    OBVIOUS
  <2>1. m + 1 \in 1 .. N /\ (m + 1) - 1 = m /\ t[m] \in Seq(T)
    BY <1>6
  <2>2. t[m + 1] = Add(t[m], m + 1)
    BY <1>4, <2>1
  <2> QED
    BY <1>3, <2>1, <2>2
<1>7. \A n \in 0 .. N : t[n] \in Seq(T)
  <2> HIDE DEF S
  <2>1. Nat \subseteq S
    BY <1>5, <1>6, SetInduction
  <2> QED
    BY <2>1 DEF S
<1> QED
  BY <1>4, <1>7 DEF Nil, Add, t

\* A token of a line is between the end of the line before it and its own.
LEMMA WithinLine ==
    ASSUME NEW a \in Nat, NEW l \in Nat, NEW b \in Nat, b = a + l,
           NEW d \in Nat, d \in 1 .. l
    PROVE  a + d \in 1 .. b
OBVIOUS

\* What stands in a file: each line at its place, one after the other.
LEMMA Places ==
    ASSUME NEW T, NEW f, Len(f) \in Nat, \A i \in 1 .. Len(f) : f[i].text \in Seq(T)
    PROVE  /\ File(f) \in Seq(T)
           /\ Before(f, 1) = 0
           /\ \A i \in 1 .. Len(f) + 1 : Before(f, i) \in Nat
           /\ \A i \in 1 .. Len(f) : Before(f, i + 1) = Before(f, i) + Len(f[i].text)
           /\ Len(File(f)) = Before(f, Len(f) + 1)
           /\ \A i \in 1 .. Len(f), d \in Nat :
                 d \in 1 .. Len(f[i].text) =>
                    /\ Before(f, i) + d <= Len(File(f))
                    /\ File(f)[Before(f, i) + d] = f[i].text[d]
<1> DEFINE N == Len(f)
           t == TokensTo(f)
           B(n) == Len(t[n])
<1>1. /\ t[0] = <<>>
      /\ \A n \in 0 .. N : t[n] \in Seq(T)
      /\ \A n \in 1 .. N : t[n] = t[n - 1] \o f[n].text
  BY TokensToGrow
<1> HIDE DEF t
<1>2. B(0) = 0 /\ \A n \in 0 .. N : B(n) \in Nat
  BY <1>1
<1>3. ASSUME NEW n \in 1 .. N
      PROVE  /\ B(n) = B(n - 1) + Len(f[n].text)
             /\ \A p \in 1 .. B(n - 1) : t[n][p] = t[n - 1][p]
             /\ \A d \in 1 .. Len(f[n].text) : t[n][B(n - 1) + d] = f[n].text[d]
  <2>1. n - 1 \in 0 .. N /\ n \in 0 .. N
    OBVIOUS
  <2> DEFINE a == t[n - 1]
             b == f[n].text
  <2>2. a \in Seq(T) /\ b \in Seq(T) /\ t[n] = a \o b
    BY <1>1, <2>1
  <2> HIDE DEF a, b
  <2>3. /\ Len(t[n]) = Len(a) + Len(b)
        /\ \A p \in 1 .. Len(a) : t[n][p] = a[p]
        /\ \A d \in 1 .. Len(b) : t[n][Len(a) + d] = b[d]
    BY <2>2
  <2> QED
    BY <2>3 DEF a, b
<1>4. ASSUME NEW i \in 0 .. N
      PROVE  B(i) <= B(N) /\ \A p \in 1 .. B(i) : t[N][p] = t[i][p]
  <2> DEFINE S == {m \in Nat : i + m <= N => /\ B(i) <= B(i + m)
                                             /\ \A p \in 1 .. B(i) : t[i + m][p] = t[i][p]}
  <2> HIDE DEF B
  <2>1. 0 \in S
    BY <1>2
  <2>2. ASSUME NEW m \in Nat, m \in S PROVE m + 1 \in S
    <3> SUFFICES ASSUME i + (m + 1) <= N
                 PROVE  /\ B(i) <= B(i + (m + 1))
                        /\ \A p \in 1 .. B(i) : t[i + (m + 1)][p] = t[i][p]
      OBVIOUS
    <3> DEFINE j == i + m
    <3>1. /\ j + 1 \in 1 .. N /\ j \in 0 .. N /\ (j + 1) - 1 = j
          /\ i + (m + 1) = j + 1 /\ i + m <= N
      OBVIOUS
    <3>2. B(i) <= B(j) /\ \A p \in 1 .. B(i) : t[j][p] = t[i][p]
      BY <2>2, <3>1
    <3> HIDE DEF j
    <3>3. /\ B(j + 1) = B(j) + Len(f[j + 1].text)
          /\ \A p \in 1 .. B(j) : t[j + 1][p] = t[j][p]
      BY <1>3, <3>1
    <3>4. Len(f[j + 1].text) \in Nat /\ B(i) \in Nat /\ B(j) \in Nat
      BY <1>2, <3>1
    <3>5. \A p \in 1 .. B(i) : p \in 1 .. B(j) /\ t[j + 1][p] = t[i][p]
      BY <3>2, <3>3, <3>4
    <3>6. B(i) <= B(j + 1)
      BY <3>2, <3>3, <3>4
    <3> QED
      BY <3>1, <3>5, <3>6
  <2> HIDE DEF S
  <2>3. N - i \in S
    <3>1. N - i \in Nat
      OBVIOUS
    <3> QED
      BY <2>1, <2>2, <3>1, SetInduction
  <2>4. i + (N - i) = N
    OBVIOUS
  <2> QED
    BY <2>3, <2>4 DEF S
<1>5. ASSUME NEW i \in 1 .. N, NEW d \in Nat, d \in 1 .. Len(f[i].text)
      PROVE  B(i - 1) + d <= B(N) /\ t[N][B(i - 1) + d] = f[i].text[d]
  <2> HIDE DEF B
  <2>1. i \in 0 .. N /\ i - 1 \in 0 .. N
    OBVIOUS
  <2>2. /\ B(i) = B(i - 1) + Len(f[i].text) /\ t[i][B(i - 1) + d] = f[i].text[d]
    BY <1>3, <1>5
  <2>3. B(i) <= B(N) /\ \A p \in 1 .. B(i) : t[N][p] = t[i][p]
    BY <1>4, <2>1
  <2>4. B(i) \in Nat /\ B(i - 1) \in Nat /\ B(N) \in Nat /\ Len(f[i].text) \in Nat
    BY <1>2, <2>1
  <2>5. B(i - 1) + d \in 1 .. B(i)
    BY <1>5, <2>2, <2>4, WithinLine
  <2> QED
    BY <2>2, <2>3, <2>4, <2>5
<1>6. \A i \in 1 .. N + 1 : i - 1 \in 0 .. N /\ Before(f, i) = B(i - 1)
  BY DEF Before, t
<1>7. File(f) = t[N] /\ (N + 1) - 1 = N
  BY DEF File, t
<1>8. Before(f, 1) = 0
  BY <1>2, <1>6
<1>9. ASSUME NEW i \in 1 .. N PROVE Before(f, i + 1) = Before(f, i) + Len(f[i].text)
  <2>1. i + 1 \in 1 .. N + 1 /\ i \in 1 .. N + 1 /\ (i + 1) - 1 = i
    OBVIOUS
  <2>2. Before(f, i + 1) = B(i) /\ Before(f, i) = B(i - 1)
    BY <1>6, <2>1
  <2>3. B(i) = B(i - 1) + Len(f[i].text)
    BY <1>3
  <2> QED
    BY <2>2, <2>3
<1>10. File(f) \in Seq(T) /\ Len(File(f)) = Before(f, N + 1)
  BY <1>1, <1>6, <1>7
<1>11. \A i \in 1 .. N + 1 : Before(f, i) \in Nat
  BY <1>2, <1>6
<1>12. ASSUME NEW i \in 1 .. N, NEW d \in Nat, d \in 1 .. Len(f[i].text)
       PROVE  /\ Before(f, i) + d <= Len(File(f))
              /\ File(f)[Before(f, i) + d] = f[i].text[d]
  <2>1. Before(f, i) = B(i - 1)
    BY <1>6
  <2> QED
    BY <1>5, <1>7, <1>12, <2>1
<1> QED
  BY <1>8, <1>9, <1>10, <1>11, <1>12
-----------------------------------------------------------------------------
(***************************************************************************)
(* The lines of a file.                                                    *)
(***************************************************************************)
Keys(b) == DOMAIN KindsOf(b)
Tokens == Words \cup Texts

IsOpen(l) == /\ l.blk = "main" /\ l.text \in Seq(Tokens) /\ Len(l.text) = 2
             /\ l.text[1] \in SubBlocks /\ l.text[2] = "{" /\ l.after = l.text[1]
IsClose(l) == /\ l.blk \in SubBlocks /\ l.text \in Seq(Tokens) /\ Len(l.text) = 1
              /\ l.text[1] = "}" /\ l.after = "main"
IsSet(l) == /\ l.blk \in SubBlocks \cup {"main"} /\ l.text \in Seq(Tokens)
            /\ Len(l.text) = 2 /\ l.text[1] \in Keys(l.blk) /\ l.text[2] \in Texts
            /\ l.after = l.blk
IsHeader(l) == /\ l.blk = "start" /\ l.text \in Seq(Tokens) /\ Len(l.text) = 2
               /\ l.text[1] = "dns-edge" /\ l.text[2] = "{" /\ l.after = "main"
IsFooter(l) == /\ l.blk = "main" /\ l.text \in Seq(Tokens) /\ Len(l.text) = 1
               /\ l.text[1] = "}" /\ l.after = "end"

\* No key is a brace or the name of a block.
LEMMA KeysOnly ==
    ASSUME NEW b \in SubBlocks \cup {"main"}
    PROVE  Keys(b) \cap ({"{", "}", "dns-edge"} \cup SubBlocks) = {}
BY DEF Keys, KindsOf, SubBlocks, mainKeys, apiKeys, pgKeys, nacosKeys, syncKeys

\* What the settings are, as pairs of a block and one of its keys.
LEMMA SettingsAre ==
    ASSUME NEW b, NEW k
    PROVE  <<b, k>> \in Settings <=> b \in SubBlocks \cup {"main"} /\ k \in Keys(b)
BY DEF Settings, Keys

LEMMA SettingPair ==
    ASSUME NEW s \in Settings
    PROVE  /\ s = <<s[1], s[2]>> /\ s[1] \in SubBlocks \cup {"main"} /\ s[2] \in Keys(s[1])
           /\ s[2] \in Words
<1>1. PICK b \in SubBlocks \cup {"main"} : s \in {<<b, k>> : k \in Keys(b)}
  BY DEF Settings, Keys
<1>2. s[2] \in Words
  BY DEF Words
<1> QED
  BY <1>1, <1>2

\* The fields of a line.
LEMMA LineText ==
    ASSUME NEW b, NEW t, NEW a
    PROVE  Line(b, t, a).blk = b /\ Line(b, t, a).text = t /\ Line(b, t, a).after = a
BY DEF Line

\* The end of the file is no token.
LEMMA EofApart ==
    /\ EOF \notin Tokens /\ EOF \notin {"{", "}", "dns-edge"} /\ EOF \notin SubBlocks
    /\ \A b \in SubBlocks \cup {"main"} : EOF \notin Keys(b)
<1>1. EOF \notin Texts /\ EOF \notin Words
  BY ParserAssumption
<1>2. ASSUME NEW b \in SubBlocks \cup {"main"}, NEW k \in Keys(b) PROVE k \in Words
  <2> DEFINE s == <<b, k>>
  <2>1. s \in Settings /\ s[2] = k
    BY SettingsAre
  <2> HIDE DEF s
  <2> QED
    BY <2>1, SettingPair
<1> QED
  BY <1>1, <1>2 DEF Tokens, Words

\* Sequences of two tokens and of one.
LEMMA PairText ==
    ASSUME NEW T, NEW x \in T, NEW y \in T
    PROVE  <<x, y>> \in Seq(T) /\ Len(<<x, y>>) = 2 /\ <<x, y>>[1] = x /\ <<x, y>>[2] = y
OBVIOUS

LEMMA OneText ==
    ASSUME NEW T, NEW x \in T
    PROVE  <<x>> \in Seq(T) /\ Len(<<x>>) = 1 /\ <<x>>[1] = x
OBVIOUS

\* The lines inside the outer block, and the first and the last line.
LEMMA LineKinds ==
    ASSUME NEW l \in Lines
    PROVE  IsOpen(l) \/ IsClose(l) \/ IsSet(l)
<1>1. {"{", "}", "dns-edge"} \cup SubBlocks \subseteq Tokens /\ Texts \subseteq Tokens
  BY DEF Tokens, Words
<1>2. ASSUME NEW b \in SubBlocks, l = Opening(b) PROVE IsOpen(l)
  <2> DEFINE t == <<b, "{">>
  <2>1. t \in Seq(Tokens) /\ Len(t) = 2 /\ t[1] = b /\ t[2] = "{"
    BY <1>1, PairText, Zenon
  <2>2. l = Line("main", t, b)
    BY <1>2 DEF Opening
  <2> HIDE DEF t
  <2>3. l.blk = "main" /\ l.text = t /\ l.after = b
    BY <2>2 DEF Line
  <2> QED
    BY <2>1, <2>3, Zenon DEF IsOpen
<1>3. ASSUME NEW b \in SubBlocks, l = Closing(b) PROVE IsClose(l)
  <2> DEFINE t == <<"}">>
  <2>1. t \in Seq(Tokens) /\ Len(t) = 1 /\ t[1] = "}"
    BY <1>1, OneText, Zenon
  <2>2. l = Line(b, t, "main")
    BY <1>3 DEF Closing
  <2> HIDE DEF t
  <2>3. l.blk = b /\ l.text = t /\ l.after = "main"
    BY <2>2 DEF Line
  <2> QED
    BY <2>1, <2>3, Zenon DEF IsClose
<1>4. ASSUME NEW s \in Settings, NEW v \in Texts, l = Setting(s, v)
      PROVE  IsSet(l)
  <2> DEFINE b == s[1]
             k == s[2]
             t == <<k, v>>
  <2>1. b \in SubBlocks \cup {"main"} /\ k \in Keys(b) /\ k \in Tokens
    BY SettingPair DEF Tokens
  <2>2. l = Line(b, t, b)
    BY <1>4 DEF Setting
  <2> HIDE DEF b, k
  <2>3. t \in Seq(Tokens) /\ Len(t) = 2 /\ t[1] = k /\ t[2] = v
    BY <1>1, <2>1, PairText, Zenon
  <2> HIDE DEF t
  <2> QED
    BY <2>1, <2>2, <2>3, LineText DEF IsSet
<1> QED
  BY <1>2, <1>3, <1>4 DEF Lines

LEMMA EndLines == IsHeader(Header) /\ IsFooter(Footer)
<1>1. {"{", "}", "dns-edge"} \subseteq Tokens
  BY DEF Tokens, Words
<1> DEFINE h == <<"dns-edge", "{">>
           t == <<"}">>
<1>2. h \in Seq(Tokens) /\ Len(h) = 2 /\ h[1] = "dns-edge" /\ h[2] = "{"
  BY <1>1, PairText, Zenon
<1>3. t \in Seq(Tokens) /\ Len(t) = 1 /\ t[1] = "}"
  BY <1>1, OneText, Zenon
<1>4. Header = Line("start", h, "main") /\ Footer = Line("main", t, "end")
  BY DEF Header, Footer
<1> HIDE DEF h, t
<1>5. /\ Header.blk = "start" /\ Header.text = h /\ Header.after = "main"
      /\ Footer.blk = "main" /\ Footer.text = t /\ Footer.after = "end"
  BY <1>4 DEF Line
<1> QED
  BY <1>2, <1>3, <1>5, Zenon DEF IsHeader, IsFooter

\* The lines of a whole file: the header is the first, the closing brace of the
\* outer block the last.
LEMMA FileLines ==
    ASSUME NEW f, WholeFile(f), NEW i \in 1 .. Len(f)
    PROVE  /\ Len(f) \in Nat
           /\ f[i].text \in Seq(Tokens)
           /\ \/ i = 1 /\ i < Len(f) /\ IsHeader(f[i])
              \/ i > 1 /\ i = Len(f) /\ IsFooter(f[i])
              \/ i > 1 /\ i < Len(f) /\ (IsOpen(f[i]) \/ IsClose(f[i]) \/ IsSet(f[i]))
           /\ i < Len(f) => i + 1 \in 1 .. Len(f) /\ f[i + 1].blk = f[i].after
<1>1. Len(f) \in Nat /\ Len(f) >= 2
  BY DEF WholeFile
<1>2. i < Len(f) => i + 1 \in 1 .. Len(f) /\ f[i + 1].blk = f[i].after
  <2> SUFFICES ASSUME i < Len(f) PROVE i + 1 \in 1 .. Len(f) /\ f[i + 1].blk = f[i].after
    OBVIOUS
  <2>1. i + 1 \in 2 .. Len(f) /\ (i + 1) - 1 = i /\ i + 1 \in 1 .. Len(f)
    BY <1>1
  <2> QED
    BY <2>1 DEF WholeFile, WellNested
<1>3. CASE i = 1
  <2>1. f[i] = Header
    BY <1>3 DEF WholeFile
  <2>2. IsHeader(f[i])
    BY <2>1, EndLines
  <2>3. f[i].text \in Seq(Tokens)
    BY <2>2, Zenon DEF IsHeader
  <2> QED
    BY <1>1, <1>2, <1>3, <2>2, <2>3
<1>4. CASE i = Len(f)
  <2>1. f[i] = Footer
    BY <1>4 DEF WholeFile
  <2>2. IsFooter(f[i])
    BY <2>1, EndLines
  <2>3. f[i].text \in Seq(Tokens)
    BY <2>2, Zenon DEF IsFooter
  <2> QED
    BY <1>1, <1>2, <1>4, <2>2, <2>3
<1>5. CASE i # 1 /\ i # Len(f)
  <2>1. i \in 2 .. Len(f) - 1
    BY <1>1, <1>5
  <2>2. f[i] \in Lines
    BY <2>1 DEF WholeFile
  <2>3. IsOpen(f[i]) \/ IsClose(f[i]) \/ IsSet(f[i])
    BY <2>2, LineKinds
  <2>4. f[i].text \in Seq(Tokens)
    BY <2>3 DEF IsOpen, IsClose, IsSet
  <2> QED
    BY <1>1, <1>2, <2>1, <2>3, <2>4
<1> QED
  BY <1>3, <1>4, <1>5

\* The places of the lines of a whole file.
LEMMA FilePlaces ==
    ASSUME NEW f, WholeFile(f)
    PROVE  /\ Len(f) \in Nat /\ Len(f) >= 2
           /\ File(f) \in Seq(Tokens) /\ Len(File(f)) \in Nat
           /\ Before(f, 1) = 0
           /\ \A i \in 1 .. Len(f) + 1 : Before(f, i) \in Nat
           /\ \A i \in 1 .. Len(f) : Before(f, i + 1) = Before(f, i) + Len(f[i].text)
           /\ Len(File(f)) = Before(f, Len(f) + 1)
           /\ \A i \in 1 .. Len(f), d \in Nat :
                 d \in 1 .. Len(f[i].text) =>
                    /\ Before(f, i) + d <= Len(File(f))
                    /\ File(f)[Before(f, i) + d] = f[i].text[d]
<1>1. Len(f) \in Nat /\ Len(f) >= 2
  BY DEF WholeFile
<1>2. \A i \in 1 .. Len(f) : f[i].text \in Seq(Tokens)
  BY FileLines
<1> QED
  BY <1>1, <1>2, Places
-----------------------------------------------------------------------------
(***************************************************************************)
(* What one iteration of the parser does.                                  *)
(***************************************************************************)
\* What the line l makes of the configuration c.
Makes(l, c, d) ==
    /\ Key(l) \notin Settings => d = c
    /\ Key(l) \in Settings => \E v \in Said(l) : d = [c EXCEPT ![Key(l)] = v]

\* It reads a line, ends the file, or stops at a value that does not convert.
Reads(l) ==
    /\ status' = "parsing" /\ pos' = pos + Len(l.text) /\ blk' = l.after
    /\ Makes(l, cfg, cfg')
Ends(l) == IsFooter(l) /\ status' = "ok" /\ cfg' = cfg
Rejects(l) == Key(l) \in Settings /\ Said(l) = {} /\ status' = "error"

\* The line l is next: the parser is in its block and finds its tokens.
IsNext(l) == /\ blk = l.blk /\ Tok(0) = l.text[1]
             /\ Len(l.text) = 2 => Tok(1) = l.text[2]

\* The parser changes nothing of its file.
LEMMA ParseKeeps ==
    ASSUME Parse PROVE status = "parsing" /\ UNCHANGED <<lines, damage, toks>>
BY DEF Parse, EmptyFile, OpenMain, Close, OpenBlock, SetKey, SyntaxError, Step

\* It reads the lines of each kind as they are meant.
LEMMA ReadsHeader ==
    ASSUME toks # <<>>, NEW l, IsHeader(l), IsNext(l), Parse
    PROVE  Reads(l)
<1>1. blk = "start" /\ Tok(0) = "dns-edge" /\ Tok(1) = "{"
  BY DEF IsHeader, IsNext
<1>2. OpenMain
  BY <1>1 DEF Parse, EmptyFile, Close, OpenBlock, SetKey, SyntaxError, HasKey
<1>3. status' = "parsing" /\ pos' = pos + 2 /\ blk' = "main" /\ cfg' = cfg
  BY <1>2 DEF OpenMain, Step
<1>4. Key(l) \notin Settings
  <2>1. ~(l.blk \in SubBlocks \cup {"main"})
    BY DEF IsHeader, SubBlocks
  <2> QED
    BY <2>1, SettingsAre DEF Key
<1>5. Len(l.text) = 2 /\ l.after = "main"
  BY DEF IsHeader
<1> QED
  BY <1>3, <1>4, <1>5 DEF Reads, Makes

LEMMA ReadsOpening ==
    ASSUME NEW l, IsOpen(l), IsNext(l), Parse
    PROVE  Reads(l)
<1>1. blk = "main" /\ Tok(0) \in SubBlocks /\ Tok(1) = "{" /\ l.after = Tok(0)
  BY DEF IsOpen, IsNext
<1>2. blk # "start" /\ Tok(0) # "}"
  BY <1>1 DEF SubBlocks
<1>3. ~HasKey
  <2>1. Tok(0) \notin Keys("main")
    BY <1>1, KeysOnly
  <2> QED
    BY <1>1, <2>1 DEF HasKey, Keys
<1>4. OpenBlock
  BY <1>1, <1>2, <1>3 DEF Parse, EmptyFile, OpenMain, Close, SetKey, SyntaxError
<1>5. status' = "parsing" /\ pos' = pos + 2 /\ blk' = Tok(0) /\ cfg' = cfg
  BY <1>4 DEF OpenBlock, Step
<1>6. Key(l) \notin Settings
  <2>1. l.text[1] \notin Keys(l.blk)
    BY <1>1, <1>3 DEF HasKey, Keys, IsNext
  <2> QED
    BY <2>1, SettingsAre DEF Key
<1>7. Len(l.text) = 2
  BY DEF IsOpen
<1> QED
  BY <1>1, <1>5, <1>6, <1>7 DEF Reads, Makes

\* A closing brace is no key, and closes the block it is in.
LEMMA BraceNoKey ==
    ASSUME NEW l, l.blk \in SubBlocks \cup {"main"}, l.text[1] = "}"
    PROVE  Key(l) \notin Settings /\ l.text[1] \notin Keys(l.blk)
<1>1. l.text[1] \notin Keys(l.blk)
  BY KeysOnly
<1> QED
  BY <1>1, SettingsAre DEF Key

LEMMA AtBrace ==
    ASSUME blk \in SubBlocks \cup {"main"}, Tok(0) = "}", Parse
    PROVE  /\ pos' = pos + 1 /\ blk' = "main" /\ cfg' = cfg
           /\ status' = IF blk = "main" THEN "ok" ELSE "parsing"
<1>1. blk # "start" /\ Tok(0) \notin SubBlocks
  BY DEF SubBlocks
<1>2. ~HasKey
  <2>1. Tok(0) \notin Keys(blk)
    BY KeysOnly
  <2> QED
    BY <2>1 DEF HasKey, Keys
<1>3. Close
  BY <1>1, <1>2 DEF Parse, EmptyFile, OpenMain, OpenBlock, SetKey, SyntaxError
<1> QED
  BY <1>3 DEF Close, Step

LEMMA ReadsClosing ==
    ASSUME NEW l, IsClose(l), IsNext(l), Parse
    PROVE  Reads(l)
<1>1. blk \in SubBlocks /\ Tok(0) = "}" /\ blk # "main" /\ l.after = "main" /\ Len(l.text) = 1
  BY DEF IsClose, IsNext, SubBlocks
<1>2. status' = "parsing" /\ pos' = pos + 1 /\ blk' = "main" /\ cfg' = cfg
  BY <1>1, AtBrace
<1>3. Key(l) \notin Settings
  BY BraceNoKey DEF IsClose
<1> QED
  BY <1>1, <1>2, <1>3 DEF Reads, Makes

LEMMA ReadsFooter ==
    ASSUME NEW l, IsFooter(l), IsNext(l), Parse
    PROVE  Ends(l)
<1>1. blk = "main" /\ Tok(0) = "}"
  BY DEF IsFooter, IsNext
<1>2. status' = "ok" /\ cfg' = cfg
  BY <1>1, AtBrace
<1> QED
  BY <1>2 DEF Ends

\* A key, in a block that knows it, sets the value after it or is an error.
LEMMA AtKey ==
    ASSUME blk \in SubBlocks \cup {"main"}, Tok(0) \in Keys(blk), Parse
    PROVE  \/ /\ Values # {} /\ status' = "parsing" /\ pos' = pos + 2 /\ blk' = blk
              /\ \E v \in Values : cfg' = [cfg EXCEPT ![<<blk, Tok(0)>>] = v]
           \/ Values = {} /\ status' = "error" /\ cfg' = cfg
<1>1. blk # "start" /\ Tok(0) # "}" /\ Tok(0) \notin SubBlocks
  BY KeysOnly DEF SubBlocks
<1>2. HasKey
  BY <1>1 DEF HasKey, Keys
<1>3. SetKey \/ SyntaxError
  BY <1>1 DEF Parse, EmptyFile, OpenMain, Close, OpenBlock
<1> QED
  BY <1>3 DEF SetKey, SyntaxError, Step

LEMMA ReadsSetting ==
    ASSUME NEW l, IsSet(l), IsNext(l), Parse
    PROVE  Key(l) \in Settings /\ (Reads(l) \/ Rejects(l))
<1>1. /\ blk = l.blk /\ blk \in SubBlocks \cup {"main"} /\ Tok(0) = l.text[1]
      /\ Tok(0) \in Keys(blk) /\ Tok(1) = l.text[2] /\ l.text[2] \in Texts
      /\ l.after = blk /\ Len(l.text) = 2
  BY DEF IsSet, IsNext
<1>2. Tok(1) # EOF
  BY <1>1, EofApart DEF Tokens
<1>3. blk # "start"
  BY <1>1 DEF SubBlocks
<1>4. Values = Said(l)
  BY <1>1, <1>2, <1>3 DEF Values, HasKey, Keys, Said
<1>5. Key(l) = <<blk, Tok(0)>>
  BY <1>1 DEF Key
<1>6. Key(l) \in Settings
  BY <1>1, <1>5, SettingsAre
<1> QED
  BY <1>1, <1>4, <1>5, <1>6, AtKey DEF Reads, Makes, Rejects

\* A whole line is next: it is read, the file ends, or its value is rejected.
LEMMA LineStep ==
    ASSUME WholeFile(lines), NEW i \in 1 .. Len(lines), toks # <<>>,
           IsNext(lines[i]), Parse
    PROVE  \/ i < Len(lines) /\ Reads(lines[i])
           \/ i = Len(lines) /\ Ends(lines[i])
           \/ Rejects(lines[i])
BY FileLines, ReadsHeader, ReadsOpening, ReadsClosing, ReadsFooter, ReadsSetting

\* A line that ends by place n has its tokens there.
LEMMA TwoPlaces ==
    ASSUME NEW B \in Nat, NEW L \in {1, 2}, NEW n \in Nat, NEW M \in Nat,
           B + L <= n, n <= M
    PROVE  /\ B + 1 <= M /\ B + 1 \in 1 .. n
           /\ L = 2 => B + 2 <= M /\ B + 2 \in 1 .. n
OBVIOUS

\* The next tokens are those of line i when the first n tokens are intact.
LEMMA LineNext ==
    ASSUME WholeFile(lines), NEW i \in 1 .. Len(lines), NEW n \in Nat,
           pos = Before(lines, i) + 1, blk = lines[i].blk,
           Before(lines, i) + Len(lines[i].text) <= n, n <= Len(toks), Len(toks) \in Nat,
           \A p \in 1 .. n : toks[p] = File(lines)[p]
    PROVE  IsNext(lines[i]) /\ toks # <<>>
<1> DEFINE B == Before(lines, i)
           t == lines[i].text
           F == File(lines)
<1>1. B \in Nat
  <2>1. i \in 1 .. Len(lines) + 1
    BY FilePlaces
  <2> QED
    BY <2>1, FilePlaces
<1>2. \A d \in Nat : d \in 1 .. Len(t) => F[B + d] = t[d]
  <2>1. i \in 1 .. Len(lines) + 1
    BY FilePlaces
  <2> QED
    BY <2>1, FilePlaces
<1>3. Len(t) \in {1, 2}
  BY FileLines DEF IsHeader, IsFooter, IsOpen, IsClose, IsSet
<1>4. pos = B + 1 /\ B + Len(t) <= n
  OBVIOUS
<1> HIDE DEF B, t, F
<1>5. F[B + 1] = t[1] /\ (Len(t) = 2 => F[B + 2] = t[2])
  BY <1>2, <1>3
<1>6. /\ B + 1 <= Len(toks) /\ B + 1 \in 1 .. n
      /\ Len(t) = 2 => B + 2 <= Len(toks) /\ B + 2 \in 1 .. n
  BY <1>1, <1>3, <1>4, TwoPlaces
<1>7. pos + 0 = B + 1 /\ pos + 1 = B + 2
  BY <1>1, <1>4
<1>8. toks[B + 1] = F[B + 1] /\ (Len(t) = 2 => toks[B + 2] = F[B + 2])
  BY <1>6 DEF F
<1>9. Tok(0) = t[1] /\ (Len(t) = 2 => Tok(1) = t[2])
  BY <1>5, <1>8, <1>6, <1>7, Zenon DEF Tok
<1>10. toks # <<>>
  BY <1>1, <1>6
<1> QED
  BY <1>9, <1>10 DEF IsNext, t

\* After a line the parser is at the next one.
LEMMA NextPlace ==
    ASSUME WholeFile(lines), NEW i \in 1 .. Len(lines), i < Len(lines),
           pos = Before(lines, i) + 1, Reads(lines[i]), lines' = lines
    PROVE  /\ i + 1 \in 1 .. Len(lines')
           /\ pos' = Before(lines', i + 1) + 1 /\ pos' \in Nat \ {0}
           /\ Before(lines', i + 1) = Before(lines, i) + Len(lines[i].text)
           /\ Before(lines, i) \in Nat /\ Len(lines[i].text) \in {1, 2}
           /\ blk' = lines'[i + 1].blk
<1>1. i + 1 \in 1 .. Len(lines) /\ lines[i + 1].blk = lines[i].after
  BY FileLines
<1>2. /\ Before(lines, i + 1) = Before(lines, i) + Len(lines[i].text)
      /\ Before(lines, i) \in Nat
  <2>1. i \in 1 .. Len(lines) + 1
    BY FilePlaces
  <2> QED
    BY <2>1, FilePlaces
<1>3. Len(lines[i].text) \in {1, 2}
  BY FileLines DEF IsHeader, IsFooter, IsOpen, IsClose, IsSet
<1>4. pos' = pos + Len(lines[i].text) /\ blk' = lines[i].after
  BY DEF Reads
<1>5. /\ i + 1 \in 1 .. Len(lines') /\ blk' = lines'[i + 1].blk
      /\ Before(lines', i + 1) = Before(lines, i + 1)
  BY <1>1, <1>4
<1>6. pos' = Before(lines, i + 1) + 1 /\ pos' \in Nat \ {0}
  BY <1>2, <1>3, <1>4
<1> QED
  BY <1>2, <1>3, <1>5, <1>6
-----------------------------------------------------------------------------
(***************************************************************************)
(* What the lines read so far mean.                                        *)
(***************************************************************************)
\* A text stands for one value at most.
LEMMA SaidOnce ==
    ASSUME NEW l, Key(l) \in Settings, NEW v \in Said(l)
    PROVE  v = CHOOSE w \in Said(l) : TRUE
<1> DEFINE kind == KindsOf(l.blk)[l.text[1]]
           x == l.text[2]
<1>1. l.blk \in SubBlocks \cup {"main"} /\ l.text[1] \in Keys(l.blk)
  BY SettingsAre DEF Key
<1>2. kind \in {"str", "bool", "int", "dur", "float"}
  BY <1>1 DEF Keys, KindsOf, SubBlocks, mainKeys, apiKeys, pgKeys, nacosKeys, syncKeys
<1>3. Said(l) \subseteq Convert(kind, x)
  BY DEF Said
<1> HIDE DEF kind, x
<1>4. \A a, b \in Convert(kind, x) : a = b
  BY <1>2 DEF Convert
<1> QED
  BY <1>3, <1>4

\* A set of places has a last one.
LEMMA MaxIn ==
    ASSUME NEW n \in Nat, NEW H \in SUBSET (1 .. n), H # {}
    PROVE  Max(H) \in H
<1> DEFINE D == {n - j : j \in H}
<1>1. \A j \in H : j \in Nat /\ n - j \in Nat
  OBVIOUS
<1>2. D \in SUBSET Nat /\ D # {}
  BY <1>1
<1>3. PICK x \in D : \A y \in D : x <= y
  BY <1>2, LeastNat
<1>4. PICK m \in H : x = n - m
  BY <1>3
<1>5. \A j \in H : m >= j
  <2> SUFFICES ASSUME NEW j \in H PROVE m >= j
    OBVIOUS
  <2>1. n - m <= n - j
    BY <1>3, <1>4
  <2> QED
    BY <1>1, <2>1
<1> QED
  BY <1>5 DEF Max

\* One more line makes its setting, over any earlier one of the same key.
LEMMA MeantStep ==
    ASSUME NEW S, NEW f \in Seq(S), NEW i \in 1 .. Len(f), NEW c, NEW d,
           Valid(SubSeq(f, 1, i - 1)), c = Meant(SubSeq(f, 1, i - 1)),
           Makes(f[i], c, d)
    PROVE  Valid(SubSeq(f, 1, i)) /\ d = Meant(SubSeq(f, 1, i))
<1> DEFINE g == SubSeq(f, 1, i - 1)
           h == SubSeq(f, 1, i)
           Hits(u, s) == {j \in DOMAIN u : Key(u[j]) = s}
           Val(u, s) == IF Hits(u, s) = {} THEN Default(s)
                        ELSE CHOOSE v \in Said(u[Max(Hits(u, s))]) : TRUE
<1>1. /\ DOMAIN g = 1 .. i - 1 /\ \A j \in 1 .. i - 1 : g[j] = f[j]
      /\ DOMAIN h = 1 .. i /\ \A j \in 1 .. i : h[j] = f[j]
  OBVIOUS
<1>2. Meant(g) = [s \in Settings |-> Val(g, s)] /\ Meant(h) = [s \in Settings |-> Val(h, s)]
  BY DEF Meant
<1>3. Valid(h)
  BY <1>1 DEF Valid, Makes
<1> HIDE DEF g, h
<1>4. ASSUME NEW s \in Settings, s # Key(f[i]) PROVE Val(h, s) = Val(g, s)
  <2>1. Hits(h, s) = Hits(g, s)
    BY <1>1, <1>4
  <2>2. CASE Hits(g, s) = {}
    BY <2>1, <2>2
  <2>3. CASE Hits(g, s) # {}
    <3> DEFINE m == Max(Hits(g, s))
    <3>1. Hits(g, s) \in SUBSET (1 .. i - 1) /\ i - 1 \in Nat
      BY <1>1
    <3>2. m \in 1 .. i - 1
      BY <2>3, <3>1, MaxIn
    <3>3. g[m] = h[m]
      BY <1>1, <3>2
    <3>4. Max(Hits(h, s)) = m
      BY <2>1
    <3> HIDE DEF m, Hits
    <3> QED
      BY <2>1, <2>3, <3>3, <3>4 DEF m
  <2> QED
    BY <2>2, <2>3
<1>5. ASSUME Key(f[i]) \in Settings PROVE Val(h, Key(f[i])) = CHOOSE v \in Said(f[i]) : TRUE
  <2> DEFINE H == Hits(h, Key(f[i]))
  <2>1. i \in H /\ \A j \in H : j \in Nat /\ i >= j
    BY <1>1
  <2>2. Max(H) = i
    BY <2>1 DEF Max
  <2> HIDE DEF H
  <2> QED
    BY <1>1, <2>1, <2>2 DEF H
<1> HIDE DEF Val
<1>6. CASE Key(f[i]) \notin Settings
  BY <1>2, <1>3, <1>4, <1>6 DEF g, h, Makes
<1>7. CASE Key(f[i]) \in Settings
  <2>1. PICK v \in Said(f[i]) : d = [c EXCEPT ![Key(f[i])] = v]
    BY <1>7 DEF Makes
  <2>2. v = Val(h, Key(f[i]))
    BY <1>5, <1>7, SaidOnce
  <2>3. c = [s \in Settings |-> Val(g, s)]
    BY <1>2 DEF g
  <2>4. d = [s \in Settings |-> Val(h, s)]
    BY <1>4, <1>7, <2>1, <2>2, <2>3
  <2> QED
    BY <1>2, <1>3, <2>4 DEF h
<1> QED
  BY <1>6, <1>7
-----------------------------------------------------------------------------
(***************************************************************************)
(* The lines that are intact are read one after the other.                 *)
(***************************************************************************)
\* The parser is at line i.
AtLine(i) ==
    /\ pos = Before(lines, i) + 1 /\ blk = lines[i].blk
    /\ damage = "none" => /\ Valid(SubSeq(lines, 1, i - 1))
                          /\ cfg = Meant(SubSeq(lines, 1, i - 1))

\* InStep, by the line that the parser is at.
LEMMA InStepAtLine ==
    ASSUME NEW n
    PROVE  InStep(n) <=> \E i \in 1 .. Len(lines) : AtLine(i) /\ Before(lines, i) <= n
BY DEF InStep, AtLine

\* A line that is read leads to the next one.
LEMMA InStepNext ==
    ASSUME WholeFile(lines), NEW n \in Nat, NEW i \in 1 .. Len(lines), i < Len(lines),
           AtLine(i), Before(lines, i) + Len(lines[i].text) <= n,
           Reads(lines[i]), UNCHANGED <<lines, damage>>
    PROVE  pos' \in Nat \ {0} /\ InStep(n)'
<1>1. /\ i + 1 \in 1 .. Len(lines')
      /\ pos' = Before(lines', i + 1) + 1 /\ pos' \in Nat \ {0}
      /\ Before(lines', i + 1) = Before(lines, i) + Len(lines[i].text)
      /\ blk' = lines'[i + 1].blk
  BY NextPlace DEF AtLine
<1>2. ASSUME damage' = "none"
      PROVE  /\ Valid(SubSeq(lines', 1, (i + 1) - 1))
             /\ cfg' = Meant(SubSeq(lines', 1, (i + 1) - 1))
  <2>1. (i + 1) - 1 = i /\ lines' = lines
    OBVIOUS
  <2>2. Valid(SubSeq(lines, 1, i - 1)) /\ cfg = Meant(SubSeq(lines, 1, i - 1))
    BY <1>2 DEF AtLine
  <2>3. Makes(lines[i], cfg, cfg')
    BY DEF Reads
  <2>4. lines \in Seq(Lines \cup {Header, Footer})
    BY DEF WholeFile
  <2>5. Valid(SubSeq(lines, 1, i)) /\ cfg' = Meant(SubSeq(lines, 1, i))
    BY <2>2, <2>3, <2>4, MeantStep
  <2> QED
    BY <2>1, <2>5
<1>3. AtLine(i + 1)'
  BY <1>1, <1>2 DEF AtLine
<1>4. Before(lines', i + 1) <= n
  BY <1>1
<1>5. \E j \in 1 .. Len(lines') : AtLine(j)' /\ Before(lines', j) <= n
  BY <1>1, <1>3, <1>4
<1>6. InStep(n)' <=> \E j \in 1 .. Len(lines') : AtLine(j)' /\ Before(lines', j) <= n
  BY DEF InStep, AtLine
<1> QED
  BY <1>1, <1>5, <1>6

\* The place of line i and the tokens there.
LEMMA LinePlace ==
    ASSUME WholeFile(lines), NEW i \in 1 .. Len(lines)
    PROVE  /\ Len(lines) \in Nat /\ Before(lines, i) \in Nat /\ Len(lines[i].text) \in {1, 2}
           /\ Before(lines, i + 1) = Before(lines, i) + Len(lines[i].text)
           /\ i = Len(lines) => Len(File(lines)) = Before(lines, i) + Len(lines[i].text)
           /\ Before(lines, i) + Len(lines[i].text) <= Len(File(lines))
           /\ Len(File(lines)) \in Nat
           /\ File(lines)[Before(lines, i) + 1] = lines[i].text[1]
           /\ Len(lines[i].text) = 2 => File(lines)[Before(lines, i) + 2] = lines[i].text[2]
<1>1. Len(lines[i].text) \in {1, 2}
  BY FileLines DEF IsHeader, IsFooter, IsOpen, IsClose, IsSet
<1>2. Len(lines) \in Nat /\ Len(File(lines)) \in Nat /\ i \in 1 .. Len(lines) + 1
  BY FilePlaces
<1>3. /\ Before(lines, i) \in Nat
      /\ Before(lines, i + 1) = Before(lines, i) + Len(lines[i].text)
      /\ Len(File(lines)) = Before(lines, Len(lines) + 1)
  BY <1>2, FilePlaces
<1>4. \A d \in Nat : d \in 1 .. Len(lines[i].text) =>
                    /\ Before(lines, i) + d <= Len(File(lines))
                    /\ File(lines)[Before(lines, i) + d] = lines[i].text[d]
  BY FilePlaces
<1>5. CASE Len(lines[i].text) = 1
  <2>1. 1 \in 1 .. Len(lines[i].text)
    BY <1>5
  <2> QED
    BY <1>2, <1>3, <1>4, <1>5, <2>1
<1>6. CASE Len(lines[i].text) = 2
  <2>1. 1 \in 1 .. Len(lines[i].text) /\ 2 \in 1 .. Len(lines[i].text)
    BY <1>6
  <2> QED
    BY <1>2, <1>3, <1>4, <1>6, <2>1
<1> QED
  BY <1>1, <1>5, <1>6

\* A whole file.
LEMMA WholeStep ==
    ASSUME WholeFile(lines), damage = "none", toks = File(lines),
           InStep(Len(File(lines))), Parse
    PROVE  \/ /\ status' = "parsing" /\ pos' \in Nat \ {0}
              /\ InStep(Len(File(lines)))'
           \/ status' = "ok" /\ Valid(lines) /\ cfg' = Meant(lines)
           \/ status' = "error" /\ ~Valid(lines)
<1>1. UNCHANGED <<lines, damage, toks>>
  BY ParseKeeps
<1>2. Len(File(lines)) \in Nat
  BY FilePlaces
<1>3. PICK n \in Nat : n = Len(File(lines))
  BY <1>2
<1>4. PICK i \in 1 .. Len(lines) : AtLine(i) /\ Before(lines, i) <= n
  BY <1>3, InStepAtLine
<1>5. /\ Before(lines, i) + Len(lines[i].text) <= n
      /\ Len(lines) \in Nat
  BY <1>3, LinePlace
<1>6. IsNext(lines[i]) /\ toks # <<>>
  BY <1>3, <1>4, <1>5, LineNext DEF AtLine
<1>7. CASE i < Len(lines) /\ Reads(lines[i])
  <2>1. pos' \in Nat \ {0} /\ InStep(n)'
    BY <1>1, <1>4, <1>5, <1>7, InStepNext
  <2>2. n = Len(File(lines'))
    BY <1>1, <1>3
  <2>3. InStep(Len(File(lines)))'
    BY <2>1, <2>2 DEF InStep
  <2> QED
    BY <1>7, <2>1, <2>3 DEF Reads
<1>8. CASE i = Len(lines) /\ Ends(lines[i])
  <2>1. Valid(SubSeq(lines, 1, i - 1)) /\ cfg = Meant(SubSeq(lines, 1, i - 1))
    BY <1>4 DEF AtLine
  <2>2. Key(lines[i]) \notin Settings
    BY <1>8, BraceNoKey DEF Ends, IsFooter
  <2>3. lines \in Seq(Lines \cup {Header, Footer})
    BY DEF WholeFile
  <2>4. Valid(SubSeq(lines, 1, i)) /\ cfg = Meant(SubSeq(lines, 1, i))
    BY <2>1, <2>2, <2>3, MeantStep DEF Makes
  <2>5. SubSeq(lines, 1, i) = lines
    BY <1>8, <2>3, SubSeqFull
  <2> QED
    BY <1>8, <2>4, <2>5 DEF Ends
<1>9. CASE Rejects(lines[i])
  <2>1. DOMAIN lines = 1 .. Len(lines)
    BY DEF WholeFile
  <2> QED
    BY <1>9, <2>1 DEF Rejects, Valid
<1> QED
  BY <1>6, <1>7, <1>8, <1>9, LineStep
-----------------------------------------------------------------------------
(***************************************************************************)
(* Damaged files.                                                          *)
(***************************************************************************)
\* Inside a block, a token that is neither a key of it, nor the name of a block
\* nor a closing brace is an error; so is a key without its value, or a block
\* without its brace.
LEMMA NoKey ==
    ASSUME blk \in SubBlocks \cup {"main"}, Tok(0) # "}", Tok(0) \notin Keys(blk),
           blk = "main" => Tok(0) \notin SubBlocks, Parse
    PROVE  status' = "error"
<1>1. blk # "start"
  BY DEF SubBlocks
<1>2. ~HasKey
  BY DEF HasKey, Keys
<1>3. SyntaxError
  BY <1>1, <1>2 DEF Parse, EmptyFile, OpenMain, Close, OpenBlock, SetKey
<1> QED
  BY <1>3 DEF SyntaxError

LEMMA NoOpening ==
    ASSUME blk = "main", Tok(0) \in SubBlocks, Tok(1) # "{", Parse
    PROVE  status' = "error"
<1>1. Tok(0) # "}" /\ Tok(0) \notin Keys("main") /\ blk # "start"
  BY KeysOnly DEF SubBlocks
<1>2. ~HasKey
  BY <1>1 DEF HasKey, Keys
<1>3. SyntaxError
  BY <1>1, <1>2 DEF Parse, EmptyFile, OpenMain, Close, OpenBlock, SetKey
<1> QED
  BY <1>3 DEF SyntaxError

LEMMA NoBrace ==
    ASSUME NEW l, IsOpen(l) \/ (IsHeader(l) /\ toks # <<>>), blk = l.blk,
           Tok(0) = l.text[1], Tok(1) # "{", Parse
    PROVE  status' = "error"
<1>1. CASE IsOpen(l)
  <2>1. blk = "main" /\ Tok(0) \in SubBlocks
    BY <1>1 DEF IsOpen
  <2> QED
    BY <2>1, NoOpening
<1>2. CASE IsHeader(l) /\ toks # <<>>
  <2>1. blk = "start"
    BY <1>2 DEF IsHeader
  <2>2. SyntaxError
    BY <1>2, <2>1 DEF Parse, EmptyFile, OpenMain, Close, OpenBlock, SetKey, HasKey
  <2> QED
    BY <2>2 DEF SyntaxError
<1> QED
  BY <1>1, <1>2

LEMMA NoName ==
    ASSUME blk = "start", toks # <<>>, Tok(0) # "dns-edge", Parse
    PROVE  status' = "error"
<1>1. SyntaxError
  BY DEF Parse, EmptyFile, OpenMain, Close, OpenBlock, SetKey, HasKey
<1> QED
  BY <1>1 DEF SyntaxError

LEMMA NoValue ==
    ASSUME NEW l, IsSet(l), blk = l.blk, Tok(0) = l.text[1], Tok(1) \in {EOF, "}"}, Parse
    PROVE  status' = "error"
<1>1. blk \in SubBlocks \cup {"main"} /\ Tok(0) \in Keys(blk)
  BY DEF IsSet
<1>2. Values = {}
  BY DEF Values
<1> QED
  BY <1>1, <1>2, AtKey

LEMMA EndInBlock ==
    ASSUME blk \in SubBlocks \cup {"main"}, Tok(0) = EOF, Parse
    PROVE  status' = "error"
<1>1. EOF \notin Keys(blk) /\ EOF \notin SubBlocks /\ EOF # "}"
  BY EofApart
<1> QED
  BY <1>1, NoKey

\* The token d places on, and the end of the file.
LEMMA TokIs ==
    ASSUME pos \in Nat, Len(toks) \in Nat, NEW d \in Nat
    PROVE  /\ pos + d <= Len(toks) => Tok(d) = toks[pos + d]
           /\ pos + d > Len(toks) => Tok(d) = EOF
<1>1. pos + d <= Len(toks) => Tok(d) = toks[pos + d]
  BY Zenon DEF Tok
<1>2. ~(pos + d <= Len(toks)) => Tok(d) = EOF
  BY Zenon DEF Tok
<1>3. pos + d > Len(toks) => ~(pos + d <= Len(toks))
  OBVIOUS
<1> QED
  BY <1>1, <1>2, <1>3

\* The block and the length of a line of each kind.
LEMMA KindBlock ==
    ASSUME NEW l
    PROVE  /\ IsHeader(l) => l.blk = "start"
           /\ IsFooter(l) \/ IsOpen(l) \/ IsClose(l) \/ IsSet(l) =>
                 l.blk \in SubBlocks \cup {"main"}
           /\ IsFooter(l) \/ IsClose(l) => Len(l.text) = 1
           /\ IsHeader(l) \/ IsOpen(l) \/ IsSet(l) => Len(l.text) = 2
BY DEF IsHeader, IsFooter, IsOpen, IsClose, IsSet

\* The block of every line but the header.
LEMMA LineBlock ==
    ASSUME WholeFile(lines), NEW i \in 1 .. Len(lines)
    PROVE  /\ i > 1 => lines[i].blk \in SubBlocks \cup {"main"}
           /\ i = 1 => lines[i].blk = "start"
<1>1. \/ i = 1 /\ IsHeader(lines[i])
      \/ i > 1 /\ (IsFooter(lines[i]) \/ IsOpen(lines[i]) \/ IsClose(lines[i]) \/ IsSet(lines[i]))
  BY FileLines
<1> QED
  BY <1>1, KindBlock

\* Of a line that starts in the first n tokens, all, nothing or the first is there.
LEMMA HowFar ==
    ASSUME NEW B \in Nat, NEW L \in {1, 2}, NEW n \in Nat, B <= n
    PROVE  B + L <= n \/ B = n \/ (B + 1 = n /\ L = 2)
OBVIOUS

\* The tokens that are left of a file that is cut off.
LEMMA CutText ==
    ASSUME NEW T, NEW f \in Seq(T), NEW n \in 0 .. Len(f) - 1, toks = SubSeq(f, 1, n)
    PROVE  n \in Nat /\ Len(toks) = n /\ \A p \in 1 .. n : toks[p] = f[p]
OBVIOUS

\* A file that is cut off after n tokens.
LEMMA CutStep ==
    ASSUME WholeFile(lines), damage = "cut", NEW n \in 0 .. Len(File(lines)) - 1,
           toks = SubSeq(File(lines), 1, n), InStep(n), Parse
    PROVE  \/ status' = "parsing" /\ pos' \in Nat \ {0} /\ InStep(n)'
           \/ status' = "ok" /\ toks = <<>>
           \/ status' = "error"
<1>1. UNCHANGED <<lines, damage, toks>>
  BY ParseKeeps
<1>2. n \in Nat /\ Len(toks) = n /\ \A p \in 1 .. n : toks[p] = File(lines)[p]
  BY FilePlaces, CutText
<1>3. PICK i \in 1 .. Len(lines) : AtLine(i) /\ Before(lines, i) <= n
  BY InStepAtLine
<1> DEFINE B == Before(lines, i)
           L == Len(lines[i].text)
<1>4. /\ B \in Nat /\ L \in {1, 2} /\ pos = B + 1 /\ blk = lines[i].blk
      /\ i = Len(lines) => Len(File(lines)) = B + L
      /\ File(lines)[B + 1] = lines[i].text[1]
  BY <1>3, LinePlace DEF AtLine
<1>5. CASE B + L <= n
  <2>1. n <= Len(toks) /\ Len(toks) \in Nat
    BY <1>2
  <2>2. IsNext(lines[i]) /\ toks # <<>>
    BY <1>2, <1>4, <1>5, <2>1, LineNext
  <2>3. ~(i = Len(lines))
    <3> HIDE DEF B, L
    <3> QED
      BY <1>2, <1>4, <1>5
  <2>4. CASE i < Len(lines) /\ Reads(lines[i])
    <3>1. pos' \in Nat \ {0} /\ InStep(n)'
      BY <1>1, <1>2, <1>3, <1>5, <2>4, InStepNext
    <3> QED
      BY <2>4, <3>1 DEF Reads
  <2>5. CASE Rejects(lines[i])
    BY <2>5 DEF Rejects
  <2> QED
    BY <2>2, <2>3, <2>4, <2>5, LineStep
<1>6. CASE B = n
  <2>1. Tok(0) = EOF
    <3>1. pos + 0 > Len(toks) /\ pos \in Nat
      BY <1>2, <1>4, <1>6
    <3> QED
      BY <1>2, <3>1, TokIs
  <2>2. CASE i = 1
    <3>1. n = 0
      BY <1>6, <2>2, FilePlaces
    <3>2. toks = <<>>
      BY <3>1
    <3>3. blk = "start"
      BY <1>4, <2>2, LineBlock
    <3> QED
      BY <2>1, <3>2, <3>3, EofApart DEF Parse, EmptyFile, OpenMain, Close, OpenBlock,
                                        SetKey, SyntaxError, HasKey
  <2>3. CASE i > 1
    BY <1>4, <2>1, <2>3, EndInBlock, LineBlock
  <2>4. i = 1 \/ i > 1
    BY FilePlaces
  <2> QED
    BY <2>2, <2>3, <2>4
<1>7. CASE B + 1 = n /\ L = 2
  <2>1. pos + 0 = n /\ pos + 1 > Len(toks) /\ n \in 1 .. n /\ pos \in Nat /\ n <= Len(toks)
    BY <1>2, <1>4, <1>7
  <2>2. toks[n] = lines[i].text[1]
    BY <1>2, <1>4, <1>7, <2>1
  <2>3. Tok(0) = lines[i].text[1] /\ Tok(1) = EOF /\ EOF # "{"
    BY <1>2, <2>1, <2>2, TokIs, EofApart
  <2>4. toks # <<>>
    BY <1>2, <2>1
  <2>5. IsHeader(lines[i]) \/ IsOpen(lines[i]) \/ IsSet(lines[i])
    <3>1. Len(lines[i].text) # 1
      BY <1>7
    <3> QED
      BY <3>1, FileLines, KindBlock
  <2> QED
    BY <1>4, <2>3, <2>5, <2>4, NoBrace, NoValue
<1> HIDE DEF B, L
<1>8. B <= n
  BY <1>3 DEF B
<1>9. B + L <= n \/ B = n \/ (B + 1 = n /\ L = 2)
  BY <1>2, <1>4, <1>8, HowFar
<1> QED
  BY <1>5, <1>6, <1>7, <1>9

\* The tokens that are left of a file that lost one.
LEMMA LostText ==
    ASSUME NEW T, NEW f \in Seq(T), NEW k \in 1 .. Len(f), toks = RemoveAt(f, k)
    PROVE  /\ k \in Nat /\ Len(toks) = Len(f) - 1 /\ Len(toks) \in Nat
           /\ \A p \in 1 .. k - 1 : toks[p] = f[p]
           /\ \A p \in k .. Len(f) - 1 : toks[p] = f[p + 1]
<1> DEFINE a == SubSeq(f, 1, k - 1)
           b == SubSeq(f, k + 1, Len(f))
<1>1. toks = a \o b
  BY DEF RemoveAt
<1>2. /\ a \in Seq(T) /\ Len(a) = k - 1
      /\ \A p \in 1 .. k - 1 : a[p] = f[p]
  OBVIOUS
<1>3. /\ b \in Seq(T) /\ Len(b) = Len(f) - k
      /\ \A p \in 1 .. Len(f) - k : b[p] = f[p + k]
  OBVIOUS
<1> HIDE DEF a, b
<1>4. /\ Len(toks) = Len(a) + Len(b)
      /\ \A p \in 1 .. Len(a) : toks[p] = a[p]
      /\ \A p \in 1 .. Len(b) : toks[Len(a) + p] = b[p]
  <2>1. a \in Seq(T) /\ b \in Seq(T)
    BY <1>2, <1>3
  <2> QED
    BY <1>1, <2>1
<1>5. k \in Nat /\ Len(f) \in Nat
  OBVIOUS
<1>6. ASSUME NEW p \in k .. Len(f) - 1 PROVE toks[p] = f[p + 1]
  <2> DEFINE q == p - (k - 1)
  <2>1. q \in 1 .. Len(f) - k /\ (k - 1) + q = p /\ q + k = p + 1
    BY <1>5
  <2> HIDE DEF q
  <2>2. toks[(k - 1) + q] = b[q]
    BY <1>2, <1>3, <1>4, <2>1
  <2>3. b[q] = f[q + k]
    BY <1>3, <2>1
  <2> QED
    BY <2>1, <2>2, <2>3
<1>7. Len(toks) = Len(f) - 1
  BY <1>2, <1>3, <1>4, <1>5
<1>8. \A p \in 1 .. k - 1 : toks[p] = f[p]
  BY <1>2, <1>4
<1> QED
  BY <1>5, <1>6, <1>7, <1>8

\* The end of the file inside a block.
LEMMA AtEndStep ==
    ASSUME AtEnd, pos \in Nat, Len(toks) \in Nat, Parse PROVE status' = "error"
<1>1. Tok(0) = EOF
  <2>1. pos + 0 > Len(toks)
    BY DEF AtEnd
  <2> QED
    BY <2>1, TokIs
<1> QED
  BY <1>1, EndInBlock DEF AtEnd

\* Lines of the outer block, read inside another one.
LEMMA UnclosedStep ==
    ASSUME WholeFile(lines), NEW k \in 1 .. Len(File(lines)),
           toks = RemoveAt(File(lines), k), Unclosed(k), Parse
    PROVE  \/ status' = "error"
           \/ status' = "parsing" /\ pos' \in Nat \ {0} /\ (Unclosed(k)' \/ AtEnd')
<1>1. UNCHANGED <<lines, damage, toks>>
  BY ParseKeeps
<1> DEFINE F == File(lines)
<1>2. /\ k \in Nat /\ Len(toks) = Len(F) - 1 /\ Len(toks) \in Nat
      /\ \A p \in k .. Len(F) - 1 : toks[p] = F[p + 1]
  BY FilePlaces, LostText
<1>3. PICK i \in 1 .. Len(lines) :
        /\ pos = Before(lines, i) /\ k <= pos
        /\ blk \in SubBlocks /\ lines[i].blk = "main"
  BY DEF Unclosed
<1> DEFINE B == Before(lines, i)
           L == Len(lines[i].text)
<1>4. /\ B \in Nat /\ L \in {1, 2} /\ B + L <= Len(F) /\ Len(F) \in Nat
      /\ Before(lines, i + 1) = B + L
      /\ i = Len(lines) => Len(F) = B + L
      /\ F[B + 1] = lines[i].text[1]
  BY LinePlace
<1>5. /\ pos \in Nat /\ pos + 0 = B /\ B \in k .. Len(F) - 1 /\ pos + 0 <= Len(toks)
  <2> HIDE DEF B, L, F
  <2>1. pos = B
    BY <1>3 DEF B
  <2>2. /\ B \in Nat /\ L \in {1, 2} /\ B + L <= Len(F) /\ Len(F) \in Nat
        /\ k \in Nat /\ k <= pos /\ Len(toks) = Len(F) - 1
    BY <1>2, <1>3, <1>4
  <2> QED
    BY ONLY <2>1, <2>2
<1>6. Tok(0) = lines[i].text[1]
  <2>1. Tok(0) = toks[pos + 0]
    BY <1>2, <1>5, TokIs
  <2>2. toks[B] = F[B + 1]
    BY <1>2, <1>5
  <2> QED
    BY <1>4, <1>5, <2>1, <2>2
<1>7. blk # "main" /\ blk \in SubBlocks \cup {"main"}
  BY <1>3 DEF SubBlocks
<1>8. \/ IsFooter(lines[i]) /\ i = Len(lines)
      \/ (IsOpen(lines[i]) \/ IsSet(lines[i])) /\ i < Len(lines)
  <2>1. "main" \notin SubBlocks /\ "start" # "main"
    BY DEF SubBlocks
  <2>2. ~IsHeader(lines[i])
    BY <1>3, <2>1, KindBlock
  <2>3. ~IsClose(lines[i])
    BY <1>3, <2>1 DEF IsClose
  <2> QED
    BY <2>2, <2>3, FileLines
<1>9. CASE IsFooter(lines[i]) /\ i = Len(lines)
  <2>1. Tok(0) = "}" /\ L = 1
    BY <1>6, <1>9 DEF IsFooter
  <2>2. status' = "parsing" /\ pos' = pos + 1 /\ blk' = "main"
    BY <1>7, <2>1, AtBrace
  <2>3. Len(F) = B + 1
    BY <1>4, <1>9, <2>1
  <2>4. pos' > Len(toks') /\ pos' \in Nat \ {0}
    <3>1. toks' = toks /\ pos = B
      BY <1>1, <1>3
    <3>2. Len(toks) = B
      BY <1>2, <1>4, <2>3
    <3> HIDE DEF B, F
    <3> QED
      BY <1>4, <2>2, <3>1, <3>2
  <2> QED
    BY <2>2, <2>4 DEF AtEnd
<1>10. CASE IsOpen(lines[i])
  <2>1. Tok(0) \in SubBlocks
    BY <1>6, <1>10 DEF IsOpen
  <2>2. Tok(0) # "}" /\ Tok(0) \notin Keys(blk)
    BY <1>7, <2>1, KeysOnly DEF SubBlocks
  <2> QED
    BY <1>7, <2>2, NoKey
<1>11. CASE IsSet(lines[i]) /\ i < Len(lines)
  <2>1. /\ Tok(0) \in Keys("main") /\ L = 2 /\ lines[i].after = "main"
    BY <1>3, <1>6, <1>11 DEF IsSet
  <2>2. Tok(0) # "}"
    BY <2>1, KeysOnly
  <2>3. CASE Tok(0) \notin Keys(blk)
    BY <1>7, <2>2, <2>3, NoKey
  <2>4. CASE Tok(0) \in Keys(blk)
    <3>1. CASE status' = "parsing" /\ pos' = pos + 2 /\ blk' = blk
      <4>1. i + 1 \in 1 .. Len(lines) /\ lines[i + 1].blk = "main"
        BY <1>11, <2>1, FileLines
      <4>2. /\ pos' = Before(lines, i + 1) /\ k <= pos' /\ pos' \in Nat \ {0}
        <5>1. pos = B
          BY <1>3
        <5> HIDE DEF B, L
        <5> QED
          BY <1>2, <1>3, <1>4, <2>1, <3>1, <5>1
      <4>3. Unclosed(k)'
        BY <1>1, <1>3, <3>1, <4>1, <4>2 DEF Unclosed
      <4> QED
        BY <3>1, <4>2, <4>3
    <3> QED
      BY <1>7, <2>4, <3>1, AtKey
  <2> QED
    BY <2>3, <2>4
<1> QED
  BY <1>8, <1>9, <1>10, <1>11

\* The tokens of a line that is not the header.
LEMMA LineTokens ==
    ASSUME WholeFile(lines), NEW i \in 1 .. Len(lines), i > 1
    PROVE  /\ lines[i].text[1] # "{"
           /\ lines[i].text[1] # "}" => Len(lines[i].text) = 2
<1>1. IsFooter(lines[i]) \/ IsOpen(lines[i]) \/ IsClose(lines[i]) \/ IsSet(lines[i])
  BY FileLines
<1>2. CASE IsFooter(lines[i]) \/ IsClose(lines[i])
  BY <1>2 DEF IsFooter, IsClose
<1>3. CASE IsOpen(lines[i])
  BY <1>3 DEF IsOpen, SubBlocks
<1>4. CASE IsSet(lines[i])
  BY <1>4, KeysOnly DEF IsSet
<1> QED
  BY <1>1, <1>2, <1>3, <1>4

\* The places of the tokens when the parser is one token too far.
LEMMA SkewedPlaces ==
    ASSUME NEW B \in Nat, NEW k \in Nat, NEW N \in Nat, NEW M \in {1, 2},
           k <= B + 1, (B + 2) + M <= N
    PROVE  /\ (B + 1) + 0 = B + 1 /\ (B + 1) + 1 = B + 2 /\ (B + 1) + 2 = (B + 2) + 1
           /\ B + 1 \in k .. N - 1 /\ B + 1 <= N - 1 /\ (B + 1) + 1 <= N - 1
           /\ B + 2 \in k .. N - 1 /\ k <= (B + 2) + 1
           /\ B + 1 \in Nat /\ (B + 2) + 1 \in Nat \ {0}
OBVIOUS

\* One token too far.  Only a value that reads like a key, with the key of the
\* next line as its value, lets the parser go on, and then in the same block.
LEMMA SkewedStep ==
    ASSUME WholeFile(lines), Valid(lines), NEW k \in 1 .. Len(File(lines)),
           toks = RemoveAt(File(lines), k), Skewed(k), Parse
    PROVE  \/ status' = "error"
           \/ status' = "parsing" /\ pos' \in Nat \ {0} /\ Skewed(k)'
<1> DEFINE F == File(lines)
<1>1. /\ k \in Nat /\ Len(toks) = Len(F) - 1 /\ Len(toks) \in Nat
      /\ \A p \in k .. Len(F) - 1 : toks[p] = F[p + 1]
  BY FilePlaces, LostText
<1>2. PICK i \in 2 .. Len(lines) :
        /\ pos = Before(lines, i) + 1 /\ k <= pos
        /\ blk = lines[i].blk /\ Len(lines[i].text) = 2
  BY DEF Skewed
<1> DEFINE B == Before(lines, i)
           l == lines[i]
           m == lines[i + 1]
<1>3. i \in 1 .. Len(lines) /\ i > 1 /\ i # 1 /\ i \in Nat
  BY FilePlaces
<1>4. /\ IsOpen(l) \/ IsSet(l)
      /\ i < Len(lines) /\ i + 1 \in 1 .. Len(lines) /\ m.blk = l.after
  <2>1. ~IsFooter(l) /\ ~IsClose(l)
    <3>1. Len(l.text) # 1
      BY <1>2
    <3> QED
      BY <3>1, KindBlock
  <2>2. i < Len(lines) /\ (IsOpen(l) \/ IsSet(l))
    BY <1>3, <2>1, FileLines
  <2> QED
    BY <1>3, <2>2, FileLines
<1>5. /\ B \in Nat /\ Before(lines, i + 1) = B + 2 /\ F[B + 2] = l.text[2]
  BY <1>2, <1>3, LinePlace
<1>6. /\ (B + 2) + Len(m.text) <= Len(F) /\ Len(F) \in Nat /\ Len(m.text) \in {1, 2}
      /\ F[(B + 2) + 1] = m.text[1]
  BY <1>4, <1>5, LinePlace
<1>7. /\ pos + 0 = B + 1 /\ pos + 1 = B + 2 /\ pos + 2 = (B + 2) + 1 /\ pos \in Nat
      /\ B + 1 \in k .. Len(F) - 1 /\ pos + 0 <= Len(toks) /\ pos + 1 <= Len(toks)
      /\ B + 2 \in k .. Len(F) - 1 /\ k <= (B + 2) + 1 /\ (B + 2) + 1 \in Nat \ {0}
  <2> DEFINE N == Len(F)
             M == Len(m.text)
  <2>1. /\ B \in Nat /\ N \in Nat /\ M \in {1, 2} /\ (B + 2) + M <= N
        /\ pos = B + 1 /\ k <= B + 1 /\ Len(toks) = N - 1 /\ k \in Nat
    BY <1>1, <1>2, <1>5, <1>6
  <2> HIDE DEF N, M, B
  <2>2. /\ (B + 1) + 0 = B + 1 /\ (B + 1) + 1 = B + 2 /\ (B + 1) + 2 = (B + 2) + 1
        /\ B + 1 \in k .. N - 1 /\ B + 1 <= N - 1 /\ (B + 1) + 1 <= N - 1
        /\ B + 2 \in k .. N - 1 /\ k <= (B + 2) + 1
        /\ B + 1 \in Nat /\ (B + 2) + 1 \in Nat \ {0}
    BY <2>1, SkewedPlaces
  <2> QED
    BY <2>1, <2>2 DEF N
<1>8. Tok(0) = l.text[2] /\ Tok(1) = m.text[1]
  <2>1. Tok(0) = toks[pos + 0] /\ Tok(1) = toks[pos + 1]
    BY <1>1, <1>7, TokIs
  <2>2. toks[B + 1] = F[(B + 1) + 1] /\ toks[B + 2] = F[(B + 2) + 1]
    BY <1>1, <1>7
  <2>3. (B + 1) + 1 = B + 2
    BY <1>5
  <2> QED
    BY <1>5, <1>6, <1>7, <2>1, <2>2, <2>3
<1>9. m.text[1] # "{" /\ (m.text[1] # "}" => Len(m.text) = 2)
  <2>1. i + 1 > 1
    BY <1>3
  <2> QED
    BY <1>4, <2>1, LineTokens
<1>10. blk \in SubBlocks \cup {"main"} /\ blk = l.blk
  BY <1>2, <1>4, KindBlock
<1>11. CASE IsOpen(l)
  <2>1. Tok(0) = "{"
    BY <1>8, <1>11 DEF IsOpen
  <2>2. Tok(0) # "}" /\ Tok(0) \notin Keys(blk) /\ Tok(0) \notin SubBlocks
    BY <1>10, <2>1, KeysOnly DEF SubBlocks
  <2> QED
    BY <1>10, <2>2, NoKey
<1>12. CASE IsSet(l)
  <2>1. Tok(0) # "}"
    <3>1. Key(l) \in Settings
      BY <1>12, SettingsAre DEF IsSet, Key
    <3>2. i \in DOMAIN lines
      BY <1>3 DEF WholeFile
    <3>3. Said(l) # {}
      BY <3>1, <3>2 DEF Valid
    <3> QED
      BY <1>8, <3>3 DEF Said
  <2>2. CASE Tok(0) \in Keys(blk)
    <3>1. CASE Values # {} /\ status' = "parsing" /\ pos' = pos + 2 /\ blk' = blk
      <4>1. Tok(1) # "}"
        BY <3>1 DEF Values
      <4>2. Len(m.text) = 2
        BY <1>8, <1>9, <4>1
      <4>3. pos' = Before(lines, i + 1) + 1 /\ k <= pos' /\ pos' \in Nat \ {0}
        BY <1>5, <1>7, <3>1
      <4>4. blk' = m.blk
        BY <1>4, <1>10, <1>12, <3>1 DEF IsSet
      <4>5. i + 1 \in 2 .. Len(lines) /\ lines' = lines
        BY <1>3, <1>4, ParseKeeps
      <4>6. Skewed(k)'
        BY <4>2, <4>3, <4>4, <4>5 DEF Skewed
      <4> QED
        BY <3>1, <4>3, <4>6
    <3> QED
      BY <1>10, <2>2, <3>1, AtKey
  <2>3. CASE Tok(0) \notin Keys(blk) /\ blk = "main" /\ Tok(0) \in SubBlocks
    BY <1>8, <1>9, <2>3, NoOpening
  <2>4. CASE Tok(0) \notin Keys(blk) /\ ~(blk = "main" /\ Tok(0) \in SubBlocks)
    BY <1>10, <2>1, <2>4, NoKey
  <2> QED
    BY <2>2, <2>3, <2>4
<1> QED
  BY <1>4, <1>11, <1>12

\* The line that the token was lost from: its first token,
LEMMA FirstLost ==
    ASSUME WholeFile(lines), Valid(lines), NEW k \in 1 .. Len(File(lines)),
           toks = RemoveAt(File(lines), k),
           NEW i \in 1 .. Len(lines), AtLine(i), Before(lines, i) = k - 1, Parse
    PROVE  \/ status' = "error"
           \/ status' = "parsing" /\ pos' \in Nat \ {0} /\ Lost(k)'
<1> DEFINE F == File(lines)
           B == Before(lines, i)
           L == Len(lines[i].text)
<1>1. /\ k \in Nat /\ Len(toks) = Len(F) - 1 /\ Len(toks) \in Nat
      /\ \A p \in k .. Len(F) - 1 : toks[p] = F[p + 1]
  BY FilePlaces, LostText
<1>2. /\ B \in Nat /\ L \in {1, 2} /\ B + L <= Len(F) /\ Len(F) \in Nat
      /\ Before(lines, i + 1) = B + L
      /\ i = Len(lines) => Len(F) = B + L
      /\ L = 2 => F[B + 2] = lines[i].text[2]
  BY LinePlace
<1>3. pos = k /\ B + 1 = k /\ blk = lines[i].blk /\ pos + 0 = k
  BY <1>1 DEF AtLine
<1>4. ASSUME L = 2 PROVE Tok(0) = lines[i].text[2] /\ toks # <<>>
  <2>1. k \in k .. Len(F) - 1 /\ k + 1 = B + 2 /\ pos + 0 <= Len(toks) /\ pos \in Nat
    <3> HIDE DEF F, B, L
    <3> QED
      BY <1>1, <1>2, <1>3, <1>4
  <2>2. toks[k] = F[k + 1]
    BY <1>1, <2>1
  <2>3. Tok(0) = toks[pos + 0]
    BY <1>1, <2>1, TokIs
  <2>4. toks # <<>>
    BY <1>1, <1>3, <2>1
  <2> QED
    BY <1>2, <1>3, <1>4, <2>1, <2>2, <2>3, <2>4
<1>5. CASE IsHeader(lines[i])
  <2>1. blk = "start" /\ L = 2 /\ lines[i].text[2] = "{"
    BY <1>3, <1>5 DEF IsHeader
  <2> QED
    BY <1>4, <2>1, NoName
<1>6. CASE IsOpen(lines[i]) \/ IsSet(lines[i])
  <2>1. L = 2 /\ lines[i].blk # "start"
    BY <1>6 DEF IsOpen, IsSet, SubBlocks
  <2>2. i \in 2 .. Len(lines)
    <3>1. i # 1
      BY <2>1, LineBlock
    <3> QED
      BY <3>1
  <2>3. Skewed(k)
    BY <1>1, <1>3, <2>1, <2>2 DEF Skewed
  <2> QED
    BY <2>3, SkewedStep DEF Lost
<1>7. CASE IsClose(lines[i]) /\ i < Len(lines)
  <2>1. blk \in SubBlocks /\ L = 1 /\ lines[i].after = "main"
    BY <1>3, <1>7 DEF IsClose
  <2>2. i + 1 \in 1 .. Len(lines) /\ lines[i + 1].blk = "main"
    BY <1>7, <2>1, FileLines
  <2>3. pos = Before(lines, i + 1) /\ k <= pos
    BY <1>1, <1>2, <1>3, <2>1
  <2>4. Unclosed(k)
    BY <2>1, <2>2, <2>3 DEF Unclosed
  <2> QED
    BY <2>4, UnclosedStep DEF Lost
<1>8. CASE IsFooter(lines[i]) /\ i = Len(lines)
  <2>1. blk = "main" /\ L = 1
    BY <1>3, <1>8 DEF IsFooter
  <2>2. pos > Len(toks) /\ pos \in Nat
    BY <1>1, <1>2, <1>3, <1>8, <2>1
  <2>3. AtEnd
    BY <2>1, <2>2 DEF AtEnd
  <2> QED
    BY <1>1, <2>2, <2>3, AtEndStep
<1> QED
  BY <1>5, <1>6, <1>7, <1>8, FileLines

\* The places around a lost second token.
LEMMA SecondPlaces ==
    ASSUME NEW B \in Nat, NEW k \in Nat, NEW N \in Nat, NEW M \in {1, 2},
           B + 1 = k - 1, (B + 2) + M <= N
    PROVE  /\ B + 2 = k /\ (B + 1) + 0 = B + 1 /\ (B + 1) + 1 = k /\ (B + 1) + 2 = k + 1
           /\ k + 1 = (B + 2) + 1 /\ k + 2 = (B + 2) + 2 /\ (k + 1) + 1 = k + 2
           /\ B + 1 \in 1 .. k - 1 /\ B + 1 <= N - 1
           /\ k \in k .. N - 1 /\ k <= N - 1
           /\ M = 2 => k + 1 \in k .. N - 1 /\ k + 1 <= N - 1
OBVIOUS

\* or its second one.
LEMMA SecondLost ==
    ASSUME WholeFile(lines), NEW k \in 1 .. Len(File(lines)),
           toks = RemoveAt(File(lines), k),
           NEW i \in 1 .. Len(lines), AtLine(i), Before(lines, i) + 1 = k - 1,
           Len(lines[i].text) = 2, Parse
    PROVE  \/ status' = "error"
           \/ status' = "parsing" /\ pos' \in Nat \ {0} /\ Lost(k)'
<1> DEFINE F == File(lines)
           B == Before(lines, i)
           l == lines[i]
           m == lines[i + 1]
<1>1. /\ k \in Nat /\ Len(toks) = Len(F) - 1 /\ Len(toks) \in Nat
      /\ \A p \in 1 .. k - 1 : toks[p] = F[p]
      /\ \A p \in k .. Len(F) - 1 : toks[p] = F[p + 1]
  BY FilePlaces, LostText
<1>2. /\ B \in Nat /\ Before(lines, i + 1) = B + 2 /\ F[B + 1] = l.text[1]
  BY LinePlace
<1>3. pos = B + 1 /\ B + 1 = k - 1 /\ blk = l.blk
  BY DEF AtLine
<1>4. /\ IsHeader(l) \/ IsOpen(l) \/ IsSet(l)
      /\ i < Len(lines) /\ i + 1 \in 1 .. Len(lines) /\ i + 1 > 1
  <2>1. Len(l.text) # 1
    OBVIOUS
  <2>2. IsHeader(l) \/ IsOpen(l) \/ IsSet(l)
    BY <2>1, FileLines, KindBlock
  <2>3. i < Len(lines) /\ i + 1 \in 1 .. Len(lines)
    BY <2>1, FileLines, KindBlock
  <2>4. i + 1 > 1
    OBVIOUS
  <2> QED
    BY <2>2, <2>3, <2>4
<1>5. /\ (B + 2) + Len(m.text) <= Len(F) /\ Len(F) \in Nat /\ Len(m.text) \in {1, 2}
      /\ F[(B + 2) + 1] = m.text[1]
      /\ Len(m.text) = 2 => F[(B + 2) + 2] = m.text[2]
  BY <1>2, <1>4, LinePlace
<1>6. /\ pos + 0 = B + 1 /\ pos + 1 = k /\ pos + 2 = k + 1 /\ pos \in Nat
      /\ k + 1 = (B + 2) + 1 /\ k + 2 = (B + 2) + 2 /\ (k + 1) + 1 = k + 2
      /\ B + 1 \in 1 .. k - 1 /\ B + 1 <= Len(toks)
      /\ k \in k .. Len(F) - 1 /\ k <= Len(toks)
      /\ Len(m.text) = 2 => k + 1 \in k .. Len(F) - 1 /\ k + 1 <= Len(toks)
  <2> DEFINE N == Len(F)
             M == Len(m.text)
  <2>1. B \in Nat /\ N \in Nat /\ M \in {1, 2} /\ (B + 2) + M <= N /\ Len(toks) = N - 1
    BY <1>1, <1>2, <1>5
  <2> HIDE DEF N, M, B
  <2>2. /\ B + 2 = k /\ (B + 1) + 0 = B + 1 /\ (B + 1) + 1 = k /\ (B + 1) + 2 = k + 1
        /\ k + 1 = (B + 2) + 1 /\ k + 2 = (B + 2) + 2 /\ (k + 1) + 1 = k + 2
        /\ B + 1 \in 1 .. k - 1 /\ B + 1 <= N - 1
        /\ k \in k .. N - 1 /\ k <= N - 1
        /\ M = 2 => k + 1 \in k .. N - 1 /\ k + 1 <= N - 1
    BY <1>1, <1>3, <2>1, SecondPlaces
  <2>3. pos \in Nat
    BY <1>3, <2>1
  <2> QED
    BY <1>3, <2>1, <2>2, <2>3 DEF N, M
<1>7. Tok(0) = l.text[1] /\ Tok(1) = m.text[1] /\ toks # <<>>
  <2>1. k <= Len(toks)
    BY <1>6
  <2>2. toks[k] = m.text[1] /\ toks[B + 1] = l.text[1]
    BY <1>1, <1>2, <1>5, <1>6
  <2>3. Tok(0) = toks[pos + 0] /\ Tok(1) = toks[pos + 1]
    BY <1>1, <1>6, TokIs
  <2>4. toks # <<>>
    BY <1>1, <2>1
  <2> QED
    BY <1>6, <2>2, <2>3, <2>4
<1>8. /\ m.text[1] # "{"
      /\ m.text[1] # "}" => Len(m.text) = 2
  BY <1>4, LineTokens
<1>9. CASE IsHeader(l) \/ IsOpen(l)
  BY <1>3, <1>7, <1>8, <1>9, NoBrace
<1>10. CASE IsSet(l)
  <2>1. blk \in SubBlocks \cup {"main"} /\ Tok(0) \in Keys(blk)
    BY <1>3, <1>7, <1>10 DEF IsSet
  <2>2. CASE Values # {} /\ status' = "parsing" /\ pos' = pos + 2 /\ blk' = blk
    <3>1. Tok(1) # "}"
      BY <2>2 DEF Values
    <3>2. Len(m.text) = 2
      BY <1>7, <1>8, <3>1
    <3>3. pos' = Before(lines, i + 1) + 1 /\ k <= pos' /\ pos' \in Nat \ {0}
      <4>1. pos' = k + 1
        BY <1>6, <2>2
      <4>2. Before(lines, i + 1) = k
        <5>1. Before(lines, i + 1) = B + 2 /\ B \in Nat /\ B + 1 = k - 1 /\ k \in Nat
          BY <1>1, <1>2, <1>3
        <5> HIDE DEF B
        <5> QED
          BY ONLY <5>1
      <4> QED
        BY <1>1, <4>1, <4>2
    <3>4. blk' = m.blk
      <4>1. m.blk = l.after
        BY <1>4, FileLines
      <4> QED
        BY <1>3, <1>10, <2>2, <4>1 DEF IsSet
    <3>5. i + 1 \in 2 .. Len(lines) /\ lines' = lines
      BY <1>4, ParseKeeps
    <3>6. Skewed(k)'
      BY <3>2, <3>3, <3>4, <3>5 DEF Skewed
    <3> QED
      BY <2>2, <3>3, <3>6 DEF Lost
  <2> QED
    BY <2>1, <2>2, AtKey
<1> QED
  BY <1>4, <1>9, <1>10

\* A valid file that lost token k.
LEMMA LostStep ==
    ASSUME WholeFile(lines), Valid(lines), pos \in Nat, NEW k \in 1 .. Len(File(lines)),
           toks = RemoveAt(File(lines), k), Lost(k), Parse
    PROVE  \/ status' = "error"
           \/ status' = "parsing" /\ pos' \in Nat \ {0} /\ Lost(k)'
<1>1. UNCHANGED <<lines, damage, toks>>
  BY ParseKeeps
<1>2. /\ k \in Nat /\ Len(toks) = Len(File(lines)) - 1 /\ Len(toks) \in Nat
      /\ \A p \in 1 .. k - 1 : toks[p] = File(lines)[p]
  BY FilePlaces, LostText
<1>3. CASE Skewed(k)
  BY <1>3, SkewedStep DEF Lost
<1>4. CASE Unclosed(k)
  BY <1>4, UnclosedStep DEF Lost
<1>5. CASE AtEnd
  BY <1>2, <1>5, AtEndStep
<1>6. CASE InStep(k - 1)
  <2>1. PICK i \in 1 .. Len(lines) : AtLine(i) /\ Before(lines, i) <= k - 1
    BY <1>6, InStepAtLine
  <2> DEFINE B == Before(lines, i)
             L == Len(lines[i].text)
             n == k - 1
  <2>2. B \in Nat /\ L \in {1, 2} /\ (i = Len(lines) => Len(File(lines)) = B + L)
    BY LinePlace
  <2>3. n \in Nat /\ n <= Len(toks) /\ B <= n /\ n < Len(File(lines))
    BY <1>2, <2>1
  <2>4. CASE B + L <= n
    <3>1. IsNext(lines[i]) /\ toks # <<>>
      BY <1>2, <2>1, <2>3, <2>4, LineNext DEF AtLine
    <3>2. i # Len(lines)
      <4> HIDE DEF B, L, n
      <4> QED
        BY <2>2, <2>3, <2>4
    <3>3. CASE i < Len(lines) /\ Reads(lines[i])
      <4>1. pos' \in Nat \ {0} /\ InStep(n)'
        BY <1>1, <2>1, <2>3, <2>4, <3>3, InStepNext
      <4> QED
        BY <3>3, <4>1 DEF Reads, Lost
    <3>4. CASE Rejects(lines[i])
      BY <3>4 DEF Rejects
    <3> QED
      BY <3>1, <3>2, <3>3, <3>4, LineStep
  <2>5. CASE B = n
    BY <2>1, <2>5, FirstLost
  <2>6. CASE B + 1 = n /\ L = 2
    BY <2>1, <2>6, SecondLost
  <2>7. B + L <= n \/ B = n \/ (B + 1 = n /\ L = 2)
    <3> HIDE DEF B, L, n
    <3> QED
      BY <2>2, <2>3, HowFar
  <2> QED
    BY <2>4, <2>5, <2>6, <2>7
<1> QED
  BY <1>3, <1>4, <1>5, <1>6 DEF Lost
-----------------------------------------------------------------------------
(***************************************************************************)
(* The invariant.                                                          *)
(***************************************************************************)
\* What stands where in two sequences, one after the other.
LEMMA Joined ==
    ASSUME NEW T, NEW a \in Seq(T), NEW b \in Seq(T), NEW c, c = a \o b
    PROVE  /\ c \in Seq(T) /\ Len(c) = Len(a) + Len(b)
           /\ \A p \in 1 .. Len(a) : c[p] = a[p]
           /\ \A p \in 1 .. Len(b) : c[Len(a) + p] = b[p]
OBVIOUS

\* The files that a parse starts with are whole ones.
LEMMA WholeFileInit ==
    ASSUME NEW n \in Nat, NEW body \in [1 .. n -> Lines],
           NEW f, f = <<Header>> \o body \o <<Footer>>, WellNested(f)
    PROVE  WholeFile(f)
<1> DEFINE S == Lines \cup {Header, Footer}
           h == <<Header>>
           t == <<Footer>>
           g == h \o body
<1>1. Header \in S /\ Footer \in S /\ Lines \subseteq S
  OBVIOUS
<1> HIDE DEF S
<1>2. /\ h \in Seq(S) /\ Len(h) = 1 /\ h[1] = Header
      /\ t \in Seq(S) /\ Len(t) = 1 /\ t[1] = Footer
  BY <1>1, OneText
<1>3. body \in Seq(S) /\ Len(body) = n /\ \A i \in 1 .. n : body[i] \in Lines
  BY <1>1
<1>4. f = g \o t
  OBVIOUS
<1>5. /\ g \in Seq(S) /\ Len(g) = Len(h) + Len(body)
      /\ \A p \in 1 .. Len(h) : g[p] = h[p]
      /\ \A p \in 1 .. Len(body) : g[Len(h) + p] = body[p]
  <2>1. h \in Seq(S) /\ body \in Seq(S) /\ g = h \o body
    BY <1>2, <1>3
  <2> HIDE DEF h, g
  <2> QED
    BY ONLY <2>1, Joined
<1> HIDE DEF h, t, g
<1>6. /\ f \in Seq(S) /\ Len(f) = Len(g) + Len(t)
      /\ \A p \in 1 .. Len(g) : f[p] = g[p]
      /\ \A p \in 1 .. Len(t) : f[Len(g) + p] = t[p]
  <2>1. g \in Seq(S) /\ t \in Seq(S) /\ f = g \o t
    BY <1>2, <1>4, <1>5
  <2> QED
    BY ONLY <2>1, Joined
<1>7. /\ g \in Seq(S) /\ Len(g) = 1 + n /\ g[1] = Header
      /\ \A i \in 2 .. n + 1 : g[i] \in Lines
  <2>1. g \in Seq(S) /\ Len(g) = 1 + n /\ g[1] = Header
    BY <1>2, <1>3, <1>5
  <2>2. ASSUME NEW i \in 2 .. n + 1 PROVE g[i] \in Lines
    <3>1. i - 1 \in 1 .. n /\ 1 + (i - 1) = i
      OBVIOUS
    <3>2. g[1 + (i - 1)] = body[i - 1]
      BY <1>2, <1>3, <1>5, <3>1
    <3> QED
      BY <1>3, <3>1, <3>2
  <2> QED
    BY <2>1, <2>2
<1>8. f \in Seq(S) /\ Len(f) = n + 2 /\ f[Len(f)] = Footer
  <2>1. 1 \in 1 .. Len(t) /\ Len(f) = n + 2 /\ Len(g) + 1 = Len(f)
    BY <1>2, <1>7, <1>6
  <2>2. f[Len(g) + 1] = Footer
    BY <1>2, <1>6, <2>1
  <2> QED
    BY <1>6, <2>1, <2>2
<1>9. \A i \in 1 .. n + 1 : f[i] = g[i]
  BY <1>7, <1>6
<1>10. f[1] = Header /\ \A i \in 2 .. Len(f) - 1 : f[i] \in Lines
  <2>1. 1 \in 1 .. n + 1 /\ Len(f) - 1 = n + 1 /\ \A i \in 2 .. n + 1 : i \in 1 .. n + 1
    BY <1>8
  <2> QED
    BY <1>7, <1>9, <2>1
<1>11. Len(f) >= 2
  BY <1>8
<1> QED
  BY <1>8, <1>10, <1>11 DEF WholeFile, S

\* An empty file means the defaults.
LEMMA NothingMeant == Valid(<<>>) /\ Meant(<<>>) = Defaults
<1>1. DOMAIN <<>> = {}
  OBVIOUS
<1> QED
  BY <1>1 DEF Valid, Meant, Defaults

\* The invariant holds at the start,
LEMMA ParserInit == Init => ParserInv
<1> SUFFICES ASSUME Init PROVE ParserInv
  OBVIOUS
<1> USE DEF Init
<1>1. WholeFile(lines)
  <2>1. PICK n \in 0 .. MaxLines : \E body \in [1 .. n -> Lines] :
           lines = <<Header>> \o body \o <<Footer>>
    BY DEF ParseInit
  <2>2. PICK body \in [1 .. n -> Lines] : lines = <<Header>> \o body \o <<Footer>>
    BY <2>1
  <2>3. n \in Nat /\ WellNested(lines)
    <3>1. MaxLines \in Nat
      BY ParserAssumption
    <3>2. n \in Nat
      BY <3>1
    <3> QED
      BY <3>2 DEF ParseInit
  <2> QED
    BY <2>2, <2>3, WholeFileInit
<1>2. pos = 1 /\ blk = "start" /\ cfg = Defaults /\ status = "parsing"
  BY DEF ParseInit
<1>3. ASSUME NEW n \in Nat PROVE InStep(n)
  <2>1. 1 \in 1 .. Len(lines) /\ Before(lines, 1) = 0
    BY <1>1, FilePlaces
  <2>2. lines[1].blk = "start"
    BY <1>1, <2>1, LineBlock
  <2>3. SubSeq(lines, 1, 1 - 1) = <<>>
    OBVIOUS
  <2>4. Valid(SubSeq(lines, 1, 1 - 1)) /\ cfg = Meant(SubSeq(lines, 1, 1 - 1))
    BY <1>2, <2>3, NothingMeant
  <2>5. AtLine(1)
    BY <1>2, <2>1, <2>2, <2>4 DEF AtLine
  <2> QED
    BY <2>1, <2>5, InStepAtLine
<1> DEFINE F == File(lines)
<1>4. F \in Seq(Tokens) /\ Len(F) \in Nat /\ DOMAIN F = 1 .. Len(F)
  BY <1>1, FilePlaces
<1>5. ParsingInv
  <2>1. \/ toks = F /\ damage = "none"
        \/ \E i \in DOMAIN F : toks = RemoveAt(F, i) /\ damage = "lost"
        \/ \E n \in 0 .. Len(F) - 1 : toks = SubSeq(F, 1, n) /\ damage = "cut"
    BY DEF ParseInit
  <2>2. CASE toks = F /\ damage = "none"
    BY <1>3, <1>4, <2>2 DEF ParsingInv
  <2>3. CASE \E i \in DOMAIN F : toks = RemoveAt(F, i) /\ damage = "lost"
    <3>1. PICK k \in 1 .. Len(F) : toks = RemoveAt(F, k) /\ damage = "lost"
      BY <1>4, <2>3
    <3>2. k - 1 \in Nat
      OBVIOUS
    <3>3. Lost(k)
      BY <1>3, <3>2 DEF Lost
    <3> QED
      BY <3>1, <3>3 DEF ParsingInv
  <2>4. CASE \E n \in 0 .. Len(F) - 1 : toks = SubSeq(F, 1, n) /\ damage = "cut"
    BY <1>3, <2>4 DEF ParsingInv
  <2> QED
    BY <2>1, <2>2, <2>3, <2>4
<1> QED
  BY <1>1, <1>2, <1>5 DEF ParserInv, ParsesAsMeant, DamageDetected

\* Nothing but the startup of main touches the parser.
LEMMA ParserSteps ==
    ASSUME [Next]_vars
    PROVE  Parse \/ (\E m \in BOOLEAN : UseConfig(m)) \/ UNCHANGED parseVars
BY DEF Next, Main, ReadConfig, Connect, EnsureSchema, LoadAll, selectWeightProvider,
       seedTestZone, StartAPI, StartUDP, StartTCP, Spawn, Notify, StartSyncer,
       BeginShutdown, CloseListener, Shutdown, Return, Fatal, Signal, Expire, Listen,
       Accept, Finish, BeginStatement, EndStatement, SyncerStart, BeginSync, EndSync,
       AbortSync, SyncerStops, vars, fixed

\* and every iteration keeps it.
LEMMA ParserParse == ParserInv /\ Parse => ParserInv'
<1> SUFFICES ASSUME ParserInv, Parse PROVE ParserInv'
  OBVIOUS
<1>1. status = "parsing" /\ UNCHANGED <<lines, damage, toks>>
  BY ParseKeeps
<1>2. WholeFile(lines) /\ pos \in Nat \ {0} /\ ParsingInv
  BY <1>1 DEF ParserInv
<1>3. WholeFile(lines')
  BY <1>1, <1>2
<1>4. CASE damage = "none" /\ toks = File(lines) /\ InStep(Len(File(lines)))
  <2>1. \/ /\ status' = "parsing" /\ pos' \in Nat \ {0}
           /\ InStep(Len(File(lines)))'
        \/ status' = "ok" /\ Valid(lines) /\ cfg' = Meant(lines)
        \/ status' = "error" /\ ~Valid(lines)
    BY <1>2, <1>4, WholeStep
  <2>2. status' = "parsing" => ParsingInv'
    BY <1>1, <1>4, <2>1 DEF ParsingInv
  <2>3. ParsesAsMeant' /\ DamageDetected'
    BY <1>1, <1>4, <2>1 DEF ParsesAsMeant, DamageDetected
  <2> QED
    BY <1>3, <2>1, <2>2, <2>3 DEF ParserInv
<1>5. CASE damage = "cut" /\ \E n \in 0 .. Len(File(lines)) - 1 :
                                toks = SubSeq(File(lines), 1, n) /\ InStep(n)
  <2>1. PICK n \in 0 .. Len(File(lines)) - 1 : toks = SubSeq(File(lines), 1, n) /\ InStep(n)
    BY <1>5
  <2>2. \/ status' = "parsing" /\ pos' \in Nat \ {0} /\ InStep(n)'
        \/ status' = "ok" /\ toks = <<>>
        \/ status' = "error"
    BY <1>2, <1>5, <2>1, CutStep
  <2>3. status' = "parsing" => ParsingInv'
    BY <1>1, <1>5, <2>1, <2>2 DEF ParsingInv
  <2>4. ParsesAsMeant' /\ DamageDetected'
    BY <1>1, <1>5, <2>2 DEF ParsesAsMeant, DamageDetected
  <2> QED
    BY <1>3, <2>2, <2>3, <2>4 DEF ParserInv
<1>6. CASE damage = "lost" /\ \E k \in 1 .. Len(File(lines)) :
                                 toks = RemoveAt(File(lines), k) /\ (Valid(lines) => Lost(k))
  <2>1. PICK k \in 1 .. Len(File(lines)) :
           toks = RemoveAt(File(lines), k) /\ (Valid(lines) => Lost(k))
    BY <1>6
  <2>2. Valid(lines) => \/ status' = "error"
                        \/ status' = "parsing" /\ Lost(k)'
    BY <1>2, <2>1, LostStep
  <2>3. status' = "parsing" => ParsingInv'
    BY <1>1, <1>6, <2>1, <2>2 DEF ParsingInv
  <2>4. ParsesAsMeant' /\ DamageDetected'
    BY <1>1, <1>6, <2>2 DEF ParsesAsMeant, DamageDetected
  <2>5. pos' \in Nat \ {0}
    <3>1. pos' = pos + 0 \/ pos' = pos + 1 \/ pos' = pos + 2
      BY Zenon DEF Parse, EmptyFile, OpenMain, Close, OpenBlock, SetKey, SyntaxError, Step
    <3> QED
      BY <1>2, <3>1
  <2> QED
    BY <1>3, <2>3, <2>4, <2>5 DEF ParserInv
<1> QED
  BY <1>2, <1>4, <1>5, <1>6 DEF ParsingInv

LEMMA ParserStep == ParserInv /\ [Next]_vars => ParserInv'
<1> SUFFICES ASSUME ParserInv, [Next]_vars PROVE ParserInv'
  OBVIOUS
<1>1. CASE Parse
  BY <1>1, ParserParse
<1>2. CASE \E m \in BOOLEAN : UseConfig(m)
  <2>1. /\ status' = status /\ status = "ok" /\ damage' = "none"
        /\ lines' = <<>> /\ cfg' = Defaults
    BY <1>2 DEF UseConfig
  <2>2. ParsesAsMeant' /\ DamageDetected'
    BY <2>1, NothingMeant DEF ParsesAsMeant, DamageDetected
  <2> QED
    BY <2>1, <2>2 DEF ParserInv
<1>3. CASE UNCHANGED parseVars
  BY <1>3 DEF parseVars, ParserInv, ParsingInv, InStep, Lost, Skewed, Unclosed, AtEnd,
              Tok, ParsesAsMeant, DamageDetected
<1> QED
  BY <1>1, <1>2, <1>3, ParserSteps

\* For every file of any length, with any values, empty ones and ones that read
\* like keys included, the parser accepts a whole file exactly when every value
\* converts, and the configuration then has the last value of each setting, in
\* the block it was written in, and the defaults elsewhere
\* (config/parser.go:116-400).
THEOREM ParserMeans == Spec => []ParsesAsMeant
<1>1. ParserInv => ParsesAsMeant
  BY DEF ParserInv
<1> QED
  BY ParserInit, ParserStep, <1>1, PTL DEF Spec

\* A valid file, whatever its values are, that lost any one token, or any part
\* of its end, is rejected, unless nothing is left of it at all: the process
\* never starts with part of its settings (config/parser.go:142-180, 155).
THEOREM ParserDetects == Spec => []DamageDetected
<1>1. ParserInv => DamageDetected
  BY DEF ParserInv
<1> QED
  BY ParserInit, ParserStep, <1>1, PTL DEF Spec
=============================================================================
