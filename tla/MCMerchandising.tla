-------------------------- MODULE MCMerchandising --------------------------
(* A small instance of Merchandising for TLC: three documents whose field is *)
(* "9", "10" and missing, pages of two, up to two pins and two boosts.       *)
EXTENDS Merchandising

CONSTANTS a, b, c, k1, k2

ThreeDocs == {a, b, c}
TwoKeys == {k1, k2}

Nine == [number |-> 9, numeric |-> TRUE, rank |-> 2, parts |-> {2}]
Ten == [number |-> 10, numeric |-> TRUE, rank |-> 1, parts |-> {1}]
Word == [number |-> 0, numeric |-> FALSE, rank |-> 3, parts |-> {3}]

Fields == (a :> Nine) @@ (b :> Ten) @@ (c :> Missing)

PinRules == [doc : ThreeDocs, position : {-1, 0, 1}]
UpToTwoPins == BoundedSeq(PinRules, 2)

BoostRules == {[operator |-> "gt", value |-> Nine, weight |-> 4],
               [operator |-> "lt", value |-> Word, weight |-> 1],
               [operator |-> "exists", value |-> Word, weight |-> 4],
               [operator |-> "contains", value |-> Nine, weight |-> 1]}
UpToTwoBoosts == BoundedSeq(BoostRules, 1) \cup
    {<<[operator |-> o, value |-> Nine, weight |-> 4],
       [operator |-> p, value |-> Ten, weight |-> 1]>> :
        o \in {"eq", "lte"}, p \in {"neq", "gte"}}
=============================================================================
