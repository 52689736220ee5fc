--------------------------- MODULE MCWeightedPick ---------------------------
(* A TLC instance of WeightedPick. *)
EXTENDS WeightedPick, TLC

MCContents == {[kind |-> "none"], [kind |-> "bad"],
               [kind |-> "map", ws |-> NoMap],
               [kind |-> "map", ws |-> ("a" :> 3)],
               [kind |-> "map", ws |-> ("a" :> 0 @@ "b" :> 2)]}
Rec(v, w) == [val |-> v, weight |-> w]
MCRRsets == {<<Rec("a", 0)>>, <<Rec("a", 0), Rec("b", 0)>>,
             <<Rec("b", 3), Rec("a", 1), Rec("c", -1)>>}
=============================================================================
