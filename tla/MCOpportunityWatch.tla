------------------------- MODULE MCOpportunityWatch -------------------------
(* Instances of OpportunityWatch for TLC. *)
EXTENDS OpportunityWatch, TLC

CONSTANTS a1, r1

OneAsset == [r \in Rules |-> a1]

\* Buy at the low bound or below; the user may move that bound.
LowAt(n) == [lower |-> [price |-> n, state |-> "buy"], upper |-> NoBound, default |-> "hold"]
Band == [lower |-> [price |-> 1, state |-> "buy"],
         upper |-> [price |-> 3, state |-> "sell"], default |-> "hold"]
Low == {LowAt(1)}
LowOrBand == {LowAt(1), Band}

Quiet == [m \in Mishaps |-> 0]
AnyTwo == {[[Quiet EXCEPT ![m] = 1] EXCEPT ![n] = 1] : m, n \in Mishaps}
TwoEdits == {[Quiet EXCEPT !["edit"] = n] : n \in 1..2}
=============================================================================
