-------------------------- MODULE MCOfficialCloses --------------------------
(* Instances of OfficialCloses for TLC. *)
EXTENDS OfficialCloses, TLC

Quiet == [k \in Events |-> 0]
OneOf(S) == {[Quiet EXCEPT ![k] = 1] : k \in S}
With(f, k) == [f EXCEPT ![k] = @ + 1]

\* Every close; all but one asset's second, or first, day; none of its first two.
Full == Assets \X TradingDays
AllSupplied == {Full}
SomeMissing ==
    LET a == CHOOSE a \in Assets : TRUE
    IN {Full, Full \ {<<a, 2>>}, Full \ {<<a, 1>>}, Full \ ({a} \X {1, 2})}

\* One event of any kind, or an outage and a fault or another outage.
Mixed == OneOf(Events) \cup {With(f, "outage") : f \in OneOf({"fault", "outage"})}
Cuts == {With(f, "outage") : f \in OneOf({"fault"})}
Outages == {With(f, "outage") : f \in OneOf({"outage"})}
=============================================================================
