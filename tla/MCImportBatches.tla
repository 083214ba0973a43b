-------------------------- MODULE MCImportBatches --------------------------
(* Instances of ImportBatches for TLC. *)
EXTENDS ImportBatches, TLC

CONSTANTS b1, b2, b3, b4, k1, k2

\* Two extracts that overlap: b2 repeats b1's row of k1 and adds one.
OverlapCopies == [b \in Batches |-> [k \in Keys |-> IF b = b1 THEN 1 ELSE 2]]
NoForms == [k \in Keys |-> {k}]

\* k1 is a movement type the map learned between uploads: rows staged before
\* that are keyed k2.  b4's file does not parse.
FormCopies == (b1 :> (k1 :> 0 @@ k2 :> 1)) @@ (b2 :> (k1 :> 2 @@ k2 :> 0))
              @@ (b3 :> (k1 :> 3 @@ k2 :> 0)) @@ (b4 :> (k1 :> 0 @@ k2 :> 0))
MappedForms == (k1 :> {k1, k2}) @@ (k2 :> {k2})

OneByOne == {<<b>> : b \in Batches}
AllAtOnce == {<<b1, b2, b3, b4>>}

\* No mishap; one of certain kinds; any two kinds.
Quiet == [m \in Mishaps |-> 0]
OneOf(kinds) == {[Quiet EXCEPT ![m] = 1] : m \in kinds}
AnyTwo == {[[Quiet EXCEPT ![m] = 1] EXCEPT ![n] = 1] : m, n \in Mishaps}
FaultOrDelete == OneOf({"fault", "delete"})
OneCancel == OneOf({"cancel"})

SymRuns == Permutations(Runs)
=============================================================================
