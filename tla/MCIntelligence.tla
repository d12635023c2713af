--------------------------- MODULE MCIntelligence ---------------------------
(* A small instance of Intelligence, and with it of Analytics, for TLC. *)
EXTENDS Intelligence

CONSTANTS shoe, Shoe, boot, w1, w2, r1, r2, c1, c2

ThreeSpellings == {shoe, Shoe, boot}
Lower == (shoe :> shoe) @@ (Shoe :> shoe) @@ (boot :> boot)
TwoSearchers == {w1, w2}
TwoRollups == {r1, r2}
TwoCreators == {c1, c2}
Symmetry == Permutations(TwoSearchers) \cup Permutations(TwoRollups)
                \cup Permutations(TwoCreators)

FourQueries == 1..4
OrderedPairs == {p \in FourQueries \X FourQueries : p[1] < p[2]}

BothSimilar == {{shoe, boot}}
=============================================================================
