------------------------------ MODULE DnsNames ------------------------------
(***************************************************************************)
(* Domain names as the store sees them: the sequence of their labels, the  *)
(* leftmost one first.  "www.example.com." is <<"www", "example", "com">>  *)
(* and the root "." is <<>>.  Names are compared as they stand, as the     *)
(* store's map compares strings.                                           *)
(***************************************************************************)
EXTENDS Naturals, Sequences

\* The name without its d leftmost labels.
Ancestor(name, d) == SubSeq(name, d + 1, Len(name))

\* Which zone of Z is authoritative for name, as the RFCs mean it: the one
\* whose apex is the longest suffix of name.  At most one apex.  The root
\* zone covers the root name only.
Authoritative(Z, name) ==
    {z \in Z : \E d \in 0 .. Len(name) :
        /\ z = Ancestor(name, d)
        /\ z = <<>> => name = <<>>
        /\ \A e \in 0 .. d - 1 : Ancestor(name, e) \notin Z}

\* Mutant: the walk starts one label up.
lockedFindZoneAbove(Z, name) ==
    LET up[d \in 1 .. Len(name) + 1] ==
            IF Ancestor(name, d) \in Z THEN {Ancestor(name, d)}
            ELSE IF d + 1 >= Len(name) THEN {}
            ELSE up[d + 1]
    IN up[1]

\* lockedFindZone walks up: the name itself, then without its first label,
\* and so on; it stops before it would try the root.
lockedFindZone(Z, name) ==
    LET up[d \in 0 .. Len(name)] ==
            IF Ancestor(name, d) \in Z THEN {Ancestor(name, d)}
            ELSE IF d + 1 >= Len(name) THEN {}
            ELSE up[d + 1]
    IN up[0]
=============================================================================
