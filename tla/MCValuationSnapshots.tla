----------------------- MODULE MCValuationSnapshots -----------------------
(* Instances of ValuationSnapshots for TLC. *)
EXTENDS ValuationSnapshots, TLC

Quiet == [k \in Events |-> 0]
With(f, k) == [f EXCEPT ![k] = 1]
Others == Events \ {"write"}

\* Up to n writes; with one other event; with two of different kinds.
Writes(n) == {[Quiet EXCEPT !["write"] = m] : m \in 0..n}
AndOne(S) == S \cup {With(f, k) : f \in S, k \in Others}
AndTwo(S) == AndOne(AndOne(S))

Expiring == {With(f, "expiry") : f \in AndOne(Writes(1))}
Mixed == AndOne(Writes(2)) \cup Expiring
WithAccrual == Writes(2) \cup {With(f, "accrue") : f \in Writes(2)}
Overlapping == Writes(2) \cup {With(f, "overlap") : f \in Writes(2)}
=============================================================================
