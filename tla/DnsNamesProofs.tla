---------------------------- MODULE DnsNamesProofs ----------------------------
(***************************************************************************)
(* The walk of lockedFindZone finds the zone with the longest matching     *)
(* apex, for every name and every set of zones.                            *)
(***************************************************************************)
EXTENDS DnsNames, SequenceTheorems, WellFoundedInduction, TLAPS

-----------------------------------------------------------------------------
(***************************************************************************)
(* Induction on the natural numbers, for sets: every set of them has a     *)
(* least element, since < is well-founded.                                 *)
(***************************************************************************)
LEMMA LeastNat ==
    ASSUME NEW T \in SUBSET Nat, T # {}
    PROVE  \E x \in T : \A y \in T : x <= y
<1> DEFINE R == {ss \in Nat \X Nat : ss[1] < ss[2]}
<1>1. IsWellFoundedOn(R, Nat)
  BY NatLessThanWellFounded DEF OpToRel
<1>2. \A x, y \in Nat : y < x => <<y, x>> \in R
  OBVIOUS
<1> HIDE DEF R
<1>3. PICK x \in T : \A y \in T : ~(<<y, x>> \in R)
  BY <1>1, WFMin
<1>4. ASSUME NEW y \in T PROVE x <= y
  <2>1. x \in Nat /\ y \in Nat
    OBVIOUS
  <2>2. ~(y < x)
    BY <1>2, <1>3, <2>1
  <2> QED
    BY <2>1, <2>2
<1> QED
  BY <1>4

LEMMA SetInduction ==
    ASSUME NEW S, 0 \in S, \A n \in Nat : n \in S => n + 1 \in S
    PROVE  Nat \subseteq S
<1> SUFFICES ASSUME Nat \ S # {} PROVE FALSE
  OBVIOUS
<1>1. PICK x \in Nat \ S : \A y \in Nat \ S : x <= y
  BY LeastNat
<1>2. x # 0 /\ x - 1 \in Nat
  OBVIOUS
<1>3. x - 1 \in S
  BY <1>1, <1>2
<1> QED
  BY <1>2, <1>3
-----------------------------------------------------------------------------
\* Only dropping every label leaves the root.
LEMMA RootAncestor ==
    ASSUME NEW S, NEW name \in Seq(S), NEW d \in 0 .. Len(name)
    PROVE  Ancestor(name, d) = <<>> <=> d = Len(name)
<1>1. Len(name) \in Nat /\ d \in Nat
  OBVIOUS
<1>2. Len(Ancestor(name, d)) = Len(name) - d /\ Ancestor(name, d) \in Seq(S)
  BY <1>1 DEF Ancestor
<1> QED
  BY <1>1, <1>2

\* What the walk from label d on should find: the first ancestor in Z among
\* those it tries.
FirstFrom(Z, name, d) ==
    {Ancestor(name, e) : e \in
        {e \in d .. Len(name) :
            /\ e = d \/ e < Len(name)
            /\ Ancestor(name, e) \in Z
            /\ \A f \in d .. e - 1 : Ancestor(name, f) \notin Z}}

\* One step of the walk.
LEMMA FirstFromStep ==
    ASSUME NEW Z, NEW name, Len(name) \in Nat, NEW d \in 0 .. Len(name)
    PROVE  FirstFrom(Z, name, d) = IF Ancestor(name, d) \in Z THEN {Ancestor(name, d)}
                                   ELSE IF d + 1 >= Len(name) THEN {}
                                   ELSE FirstFrom(Z, name, d + 1)
<1> DEFINE L == Len(name)
           A(e) == Ancestor(name, e)
           T(c) == {e \in c .. L : /\ e = c \/ e < L
                                   /\ A(e) \in Z
                                   /\ \A f \in c .. e - 1 : A(f) \notin Z}
<1>1. L \in Nat /\ \A c : FirstFrom(Z, name, c) = {A(e) : e \in T(c)}
  BY DEF FirstFrom
<1> HIDE DEF A, L
<1>2. d \in 0 .. L
  BY DEF L
<1>3. CASE A(d) \in Z
  <2>1. T(d) = {d}
    <3>1. d \in T(d)
      BY <1>1, <1>2, <1>3
    <3>2. ASSUME NEW e \in T(d) PROVE e = d
      <4>1. e \in d .. L /\ (d \in d .. e - 1 => A(d) \notin Z)
        OBVIOUS
      <4> QED
        BY <1>1, <1>2, <1>3, <4>1
    <3> QED
      BY <3>1, <3>2
  <2> HIDE DEF T
  <2> QED
    BY <1>1, <1>3, <2>1 DEF A
<1>4. CASE A(d) \notin Z /\ d + 1 >= L
  <2>1. T(d) = {}
    BY <1>1, <1>2, <1>4
  <2> HIDE DEF T
  <2> QED
    BY <1>1, <1>4, <2>1 DEF A, L
<1>5. CASE A(d) \notin Z /\ ~(d + 1 >= L)
  <2>1. T(d) \subseteq T(d + 1)
    <3> SUFFICES ASSUME NEW e \in T(d) PROVE e \in T(d + 1)
      OBVIOUS
    <3>1. e # d
      BY <1>5
    <3>2. e \in d + 1 .. L /\ e < L /\ \A f \in d + 1 .. e - 1 : f \in d .. e - 1
      BY <1>1, <1>2, <3>1
    <3> QED
      BY <3>2
  <2>2. T(d + 1) \subseteq T(d)
    <3> SUFFICES ASSUME NEW e \in T(d + 1) PROVE e \in T(d)
      OBVIOUS
    <3>1. e \in d .. L /\ e < L
      BY <1>1, <1>2, <1>5
    <3>2. ASSUME NEW f \in d .. e - 1 PROVE A(f) \notin Z
      <4>1. CASE f = d
        BY <1>5, <4>1
      <4>2. CASE f # d
        <5>1. f \in d + 1 .. e - 1
          BY <1>1, <1>2, <3>1, <4>2
        <5> QED
          BY <5>1
      <4> QED
        BY <4>1, <4>2
    <3> QED
      BY <3>1, <3>2
  <2>3. T(d) = T(d + 1)
    BY <2>1, <2>2
  <2> HIDE DEF T
  <2> QED
    BY <1>1, <1>5, <2>3 DEF A, L
<1> QED
  BY <1>3, <1>4, <1>5 DEF L

\* lockedFindZone finds what the RFCs mean: the zone whose apex is the longest
\* suffix of the name (internal/store/rwmutex.go, lockedFindZone).
THEOREM WalkFindsZone ==
    ASSUME NEW Z, NEW S, NEW name \in Seq(S)
    PROVE  lockedFindZone(Z, name) = Authoritative(Z, name)
<1> DEFINE L == Len(name)
           A(d) == Ancestor(name, d)
           G(d) == FirstFrom(Z, name, d)
           Eq(g) == g = [d \in 0 .. L |-> IF A(d) \in Z THEN {A(d)}
                                          ELSE IF d + 1 >= L THEN {} ELSE g[d + 1]]
           up == CHOOSE g : Eq(g)
<1>1. L \in Nat
  OBVIOUS
<1>2. lockedFindZone(Z, name) = up[0]
  BY DEF lockedFindZone
<1>3. \A d \in 0 .. L : G(d) = IF A(d) \in Z THEN {A(d)}
                               ELSE IF d + 1 >= L THEN {} ELSE G(d + 1)
  BY <1>1, FirstFromStep
<1>4. Authoritative(Z, name) = G(0)
  <2>1. ASSUME NEW z \in Authoritative(Z, name) PROVE z \in G(0)
    <3>1. PICK d \in 0 .. L : /\ z = A(d) /\ z \in Z
                              /\ z = <<>> => name = <<>>
                              /\ \A e \in 0 .. d - 1 : A(e) \notin Z
      BY DEF Authoritative
    <3>2. d = 0 \/ d < L
      <4>1. CASE d = L
        <5>1. z = <<>>
          BY <3>1, <4>1, RootAncestor
        <5>2. L = 0
          BY <3>1, <5>1
        <5> QED
          BY <4>1, <5>2
      <4> QED
        BY <1>1, <4>1
    <3> QED
      BY <3>1, <3>2 DEF FirstFrom
  <2>2. ASSUME NEW z \in G(0) PROVE z \in Authoritative(Z, name)
    <3>1. PICK d \in 0 .. L : /\ d = 0 \/ d < L
                              /\ z = A(d) /\ z \in Z
                              /\ \A e \in 0 .. d - 1 : A(e) \notin Z
      BY DEF FirstFrom
    <3>2. ASSUME z = <<>> PROVE name = <<>>
      <4>1. d = L
        BY <3>1, <3>2, RootAncestor
      <4>2. L = 0
        BY <1>1, <3>1, <4>1
      <4> QED
        BY <4>2
    <3> QED
      BY <3>1, <3>2 DEF Authoritative
  <2> HIDE DEF G
  <2> QED
    BY <2>1, <2>2
<1> HIDE DEF A, G, L
<1>5. Eq(up)
  <2> DEFINE g == [d \in 0 .. L |-> G(d)]
  <2>1. ASSUME NEW d \in 0 .. L
        PROVE  G(d) = IF A(d) \in Z THEN {A(d)} ELSE IF d + 1 >= L THEN {} ELSE g[d + 1]
    <3>1. ~(d + 1 >= L) => g[d + 1] = G(d + 1)
      BY <1>1
    <3> HIDE DEF g
    <3> QED
      BY <1>3, <3>1
  <2>2. g = [d \in 0 .. L |-> IF A(d) \in Z THEN {A(d)}
                              ELSE IF d + 1 >= L THEN {} ELSE g[d + 1]]
    BY <2>1
  <2> HIDE DEF g
  <2>3. Eq(g)
    BY <2>2
  <2> HIDE DEF Eq
  <2> QED
    BY <2>3
<1> HIDE DEF up
<1>6. \A d \in 0 .. L : up[d] = IF A(d) \in Z THEN {A(d)}
                                ELSE IF d + 1 >= L THEN {} ELSE up[d + 1]
  BY <1>5
<1>7. up[0] = G(0)
  <2> DEFINE bad == {n \in Nat : \E d \in 0 .. L : n = L - d /\ up[d] # G(d)}
  <2> SUFFICES ASSUME up[0] # G(0) PROVE FALSE
    OBVIOUS
  <2>1. L \in bad
    BY <1>1
  <2>2. PICK n \in bad : \A m \in bad : n <= m
    BY <2>1, LeastNat
  <2>3. PICK d \in 0 .. L : n = L - d /\ up[d] # G(d)
    BY <2>2
  <2>4. A(d) \notin Z /\ ~(d + 1 >= L) /\ up[d + 1] # G(d + 1)
    BY <1>3, <1>6, <2>3
  <2>5. d + 1 \in 0 .. L /\ L - (d + 1) \in Nat /\ ~(n <= L - (d + 1))
    BY <1>1, <2>3, <2>4
  <2>6. L - (d + 1) \in bad
    BY <2>4, <2>5
  <2> QED
    BY <2>2, <2>5, <2>6
<1> QED
  BY <1>2, <1>4, <1>7
=============================================================================
