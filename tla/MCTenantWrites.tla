--------------------------- MODULE MCTenantWrites ---------------------------
(* Instances of TenantWrites for TLC. *)
EXTENDS TenantWrites, FiniteSetsExt, TLC

CONSTANTS i1, i2, t1, t2, t3,
    Share   \* units of the last stored decimal in one share

SmallAmounts == {-Share, Share, 2 * Share}
R(i, d, n) == [inst |-> i, date |-> d, qty |-> n * Share]

\* Two purchases at one institution, or at two; one purchase; none.
From(L) == [t \in Ids |-> IF t \in DOMAIN L THEN L[t] ELSE NoRow]
Bought2 == {From((t1 :> R(i1, 1, 1)) @@ (t2 :> R(i, 1, 2))) : i \in Insts}
OneBought == {From(t1 :> R(i1, 1, 1))}
TwoBought == {From(t1 :> R(i1, 1, 2))}
ThreeBought == {From(t1 :> R(i1, 1, 3))}
OneEach == {From((t1 :> R(i1, 1, 1)) @@ (t2 :> R(i2, 1, 1)))}

ThirdAmounts == SmallAmounts \cup {3 * Share}
LargeAmounts == SmallAmounts \cup {-2 * Share}
TinyAmounts == {-Share, Share}

\* At most n operations of these kinds.
AtMost(n, kinds) ==
    {f \in [OpNames -> 0..n] : /\ \A op \in OpNames \ kinds : f[op] = 0
                               /\ MapThenSumSet(LAMBDA op : f[op], OpNames) <= n}
AnyTwo == AtMost(2, OpNames)
Writers == AtMost(2, {"create", "edit", "delete", "assign"})
Editors == AtMost(2, {"create", "edit", "delete"})
Allocators == AtMost(3, {"allocate", "assign"})
\* Only a purchase and the deletion of a wallet look at the standing rule.
Ruled == {f \in AtMost(3, {"create", "rule", "drop"}) : f["create"] <= 2}
Concurrent == Writers \cup Allocators \cup Ruled
TwoSales == AtMost(2, {"create"})
AllocateAndDelete == AtMost(2, {"allocate", "delete"})
AllocateAndDrop == AtMost(2, {"allocate", "drop"})
Emptying == {f \in AtMost(4, {"create", "delete", "assign"}) :
                f["create"] <= 1 /\ f["delete"] <= 2 /\ f["assign"] <= 1}
OneSale == AtMost(1, {"create"})

OneShare == {Share}
OneOrTwo == {Share, 2 * Share}
SymProcs == Permutations(Procs)
=============================================================================
