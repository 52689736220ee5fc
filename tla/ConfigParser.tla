---------------------------- MODULE ConfigParser ----------------------------
(***************************************************************************)
(* The parser of the Corefile (config/parser.go), from the tokens that the *)
(* lexer delivers to a Config.  parseMain, parseAPI, parsePG, parseNacos   *)
(* and parseSync are one loop over a table of their keys; an iteration is  *)
(* one step.                                                               *)
(*                                                                         *)
(* The inputs are files that somebody meant to write, whole or damaged: a  *)
(* token lost, or cut short.                                               *)
(***************************************************************************)
EXTENDS Integers, SequencesExt

CONSTANTS Texts,      \* what a value in a file can be: any text, empty or a
                      \* keyword as well, since a value may be quoted
          EOF,        \* what peek and next give at the end, no token
          Ints,       \* Atoi: from the texts it accepts to their number
          Durations,  \* ParseDuration
          Floats,     \* ParseFloat, in hundredths
          MaxLines    \* bound on the lines inside the outer block

VARIABLES lines,   \* history: what the file was meant to say
          damage,  \* history: "none", "lost" or "cut"
          toks,    \* the tokens
          pos,     \* the parser's position
          blk,     \* the block it is in: "start" before the first
          cfg,     \* the Config so far
          status   \* "parsing", "ok" or "error"

parseVars == <<lines, damage, toks, pos, blk, cfg, status>>

\* The keys that take a value, by block, and what kind of value it is.
mainKeys == [listen |-> "str", workers |-> "int", tcp |-> "bool", edns0 |-> "bool"]
apiKeys == [listen |-> "str"]
pgKeys == [dsn |-> "str"]
nacosKeys == [addr |-> "str", namespace |-> "str", group |-> "str",
              data_id_prefix |-> "str", username |-> "str", password |-> "str"]
syncKeys == [interval |-> "dur", prob |-> "float", ratelimit |-> "int"]

SubBlocks == {"api", "postgres", "nacos", "sync"}
KindsOf(b) == CASE b = "main"     -> mainKeys
                [] b = "api"      -> apiKeys
                [] b = "postgres" -> pgKeys
                [] b = "nacos"    -> nacosKeys
                [] b = "sync"     -> syncKeys

Settings == UNION {{<<b, k>> : k \in DOMAIN KindsOf(b)} : b \in SubBlocks \cup {"main"}}
Words == {"{", "}", "dns-edge"} \cup SubBlocks \cup {s[2] : s \in Settings}

ASSUME ParserAssumption ==
    /\ MaxLines \in Nat
    /\ EOF \notin Texts \cup Words
    /\ DOMAIN Ints \subseteq Texts /\ DOMAIN Durations \subseteq Texts
    /\ DOMAIN Floats \subseteq Texts

\* Config.Defaults: the interval in seconds, the probability in hundredths.
Default(s) == CASE s = <<"main", "listen">>          -> ":5300"
                [] s = <<"main", "workers">>         -> 0
                [] s = <<"main", "tcp">>             -> TRUE
                [] s = <<"main", "edns0">>           -> TRUE
                [] s = <<"api", "listen">>           -> ":8080"
                [] s = <<"nacos", "group">>          -> "DEFAULT_GROUP"
                [] s = <<"nacos", "data_id_prefix">> -> "dns_weights:"
                [] s = <<"sync", "interval">>        -> 30
                [] s = <<"sync", "prob">>            -> 1
                [] s = <<"sync", "ratelimit">>       -> 100
                [] OTHER                             -> ""
Defaults == [s \in Settings |-> Default(s)]

isTruthy(v) == v \in {"true", "1", "yes"}

\* The value a text stands for, or nothing when it does not convert.
Convert(kind, v) ==
    CASE kind = "str"   -> {v}
      [] kind = "bool"  -> {isTruthy(v)}
      [] kind = "int"   -> {Ints[x] : x \in {v} \cap DOMAIN Ints}
      [] kind = "dur"   -> {Durations[x] : x \in {v} \cap DOMAIN Durations}
      [] kind = "float" -> {Floats[x] : x \in {v} \cap DOMAIN Floats}
-----------------------------------------------------------------------------
(***************************************************************************)
(* The files, as a sequence of lines; where the line breaks really are     *)
(* means nothing.  A line knows the block that it is in and the block that *)
(* comes after it, so that the lines of a file fit together.               *)
(***************************************************************************)
Line(b, text, after) == [blk |-> b, text |-> text, after |-> after]

Header == Line("start", <<"dns-edge", "{">>, "main")
Opening(b) == Line("main", <<b, "{">>, b)
Closing(b) == Line(b, <<"}">>, "main")
Setting(s, v) == Line(s[1], <<s[2], v>>, s[1])
Footer == Line("main", <<"}">>, "end")

Lines == {Opening(b) : b \in SubBlocks} \cup {Closing(b) : b \in SubBlocks}
             \cup {Setting(s, v) : s \in Settings, v \in Texts}

WellNested(f) == \A i \in 2 .. Len(f) : f[i].blk = f[i - 1].after

\* The tokens of the first n lines, for every n, and those of the file.
TokensTo(f) ==
    LET t[n \in 0 .. Len(f)] == IF n = 0 THEN <<>> ELSE t[n - 1] \o f[n].text
    IN t
File(f) == TokensTo(f)[Len(f)]

\* The start of a parse, of a file as meant or a damaged one.
ParseInit ==
    /\ \E n \in 0 .. MaxLines : \E body \in [1 .. n -> Lines] :
          lines = <<Header>> \o body \o <<Footer>>
    /\ WellNested(lines)
    /\ LET f == File(lines)
       IN \/ toks = f /\ damage = "none"
          \/ \E i \in DOMAIN f : toks = RemoveAt(f, i) /\ damage = "lost"
          \/ \E n \in 0 .. Len(f) - 1 : toks = SubSeq(f, 1, n) /\ damage = "cut"
    /\ pos = 1 /\ blk = "start"
    /\ cfg = Defaults
    /\ status = "parsing"
-----------------------------------------------------------------------------
\* The token d places on.
Tok(d) == IF pos + d <= Len(toks) THEN toks[pos + d] ELSE EOF

Step(n, b) ==
    /\ status = "parsing"
    /\ pos' = pos + n
    /\ blk' = b
    /\ UNCHANGED <<lines, damage, toks>>

\* parse: an empty file means the defaults.
EmptyFile ==
    /\ blk = "start" /\ toks = <<>>
    /\ Step(0, blk)
    /\ status' = "ok" /\ UNCHANGED cfg

OpenMain ==
    /\ blk = "start" /\ Tok(0) = "dns-edge" /\ Tok(1) = "{"
    /\ Step(2, "main")
    /\ UNCHANGED <<cfg, status>>

\* Mutant: a block that ends with the file counts as closed.
CloseAtEOF ==
    /\ blk # "start" /\ Tok(0) \in {"}", EOF}
    /\ Step(1, "main")
    /\ status' = IF blk = "main" THEN "ok" ELSE status
    /\ UNCHANGED cfg

\* The end of a block; after the outer one nothing is read any more.
Close ==
    /\ blk # "start" /\ Tok(0) = "}"
    /\ Step(1, "main")
    /\ status' = IF blk = "main" THEN "ok" ELSE status
    /\ UNCHANGED cfg

OpenBlock ==
    /\ blk = "main" /\ Tok(0) \in SubBlocks /\ Tok(1) = "{"
    /\ Step(2, Tok(0))
    /\ UNCHANGED <<cfg, status>>

HasKey == blk # "start" /\ Tok(0) \in DOMAIN KindsOf(blk)

\* nextVal: every token but a closing brace is a value, an opening one too.
Values == IF HasKey /\ Tok(1) \notin {EOF, "}"}
          THEN Convert(KindsOf(blk)[Tok(0)], Tok(1)) ELSE {}

\* Mutant: the first of two equal settings counts.
SetKeyOnce ==
    /\ HasKey
    /\ \E v \in Values :
          cfg' = IF cfg[<<blk, Tok(0)>>] = Default(<<blk, Tok(0)>>)
                 THEN [cfg EXCEPT ![<<blk, Tok(0)>>] = v] ELSE cfg
    /\ Step(2, blk)
    /\ UNCHANGED status

\* A key and its value, which must convert.
SetKey ==
    /\ HasKey
    /\ \E v \in Values : cfg' = [cfg EXCEPT ![<<blk, Tok(0)>>] = v]
    /\ Step(2, blk)
    /\ UNCHANGED status

\* An unknown key, a missing or invalid value, a missing brace, or the end of
\* the file inside a block.
SyntaxError ==
    /\ blk = "start" => toks # <<>> /\ ~(Tok(0) = "dns-edge" /\ Tok(1) = "{")
    /\ blk # "start" => Tok(0) # "}"
    /\ ~(blk = "main" /\ Tok(0) \in SubBlocks /\ Tok(1) = "{")
    /\ Values = {}
    /\ Step(0, blk)
    /\ status' = "error" /\ UNCHANGED cfg

Parse == EmptyFile \/ OpenMain \/ Close \/ OpenBlock \/ SetKey \/ SyntaxError

-----------------------------------------------------------------------------
\* The setting that a line makes, and the value, if it converts; a closing
\* brace, quoted or not, is no value.
Key(l) == <<l.blk, l.text[1]>>
Said(l) == IF l.text[2] = "}" THEN {} ELSE Convert(KindsOf(l.blk)[l.text[1]], l.text[2])

Valid(f) == \A i \in DOMAIN f : Key(f[i]) \in Settings => Said(f[i]) # {}

\* What a file means: the defaults, with the last value of each setting.
Meant(f) ==
    [s \in Settings |->
        LET hits == {i \in DOMAIN f : Key(f[i]) = s}
        IN IF hits = {} THEN Default(s) ELSE CHOOSE v \in Said(f[Max(hits)]) : TRUE]

\* A whole file is accepted exactly when every value converts, and it then
\* means what it says: each setting has its last value, the others their
\* default, a key that two blocks share sets the block it is in, and a value
\* that is empty or reads like a key, a block or an opening brace is still a
\* value (config/parser.go:116-400).
ParsesAsMeant ==
    damage = "none" =>
        /\ status = "ok" => Valid(lines) /\ cfg = Meant(lines)
        /\ status = "error" => ~Valid(lines)

\* A file that would be accepted whole is rejected when it lost one token, or
\* was cut short by a failed or unfinished write, even where its values read
\* like keys and the parser goes on one token out of step: the process never
\* starts with part of its settings.  Only a file that is empty altogether is
\* taken, for the defaults (config/parser.go:142-180, 155).
DamageDetected == damage # "none" /\ Valid(lines) /\ status = "ok" => toks = <<>>
=============================================================================
