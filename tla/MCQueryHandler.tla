--------------------------- MODULE MCQueryHandler ---------------------------
(* TLC instances of QueryHandler: a zone and a zone below it. *)
EXTENDS QueryHandler

CONSTANT ip

MCApexes  == {<<"z">>, <<"s", "z">>}
MCQNames  == {<<"w", "s", "z">>, <<"s", "z">>}
MCTargets == {<<"s", "z">>}
MCVals    == MCTargets \cup {ip}
MCKeys    == {Key(<<"w", "s", "z">>, "A"), Key(<<"w", "s", "z">>, "MX"),
              Key(<<"w", "s", "z">>, "CNAME"), Key(<<"s", "z">>, "A")}
=============================================================================
