--------------------------- MODULE MCZoneTransfer ---------------------------
(* A TLC instance of ZoneTransfer: one zone, and a name it does not cover.   *)
(* Writers are interchangeable, and so are row ids.                          *)
EXTENDS ZoneTransfer

MCApexes == {<<"s", "z">>}
MCNames  == {<<"w", "s", "z">>, <<"z">>}
MCKeys   == {[name |-> <<"s", "z">>, type |-> "A"],
             [name |-> <<"w", "s", "z">>, type |-> "A"]}
MCProcs  == Writers \cup Xfers
\* No step tells ids apart; the initial order of a slice does, but a start and
\* its image under a permutation lead to the same behaviours up to it.
Symmetry == Permutations(Writers) \cup Permutations(Ids)
=============================================================================
