--------------------------- MODULE MCImportReview ---------------------------
(* Instances of ImportReview for TLC: an exercise, its credit, and a row     *)
(* that may have been left unclassified, ignored as a mirror, or refused.    *)
EXTENDS ImportReview, TLC

CONSTANTS exercise, credit, other

OneExercise == exercise :> credit
Left(c) == (exercise :> "unclassified") @@ (credit :> "unclassified") @@ (other :> c)
AnyLeft == {Left(c) : c \in {"unclassified", "ignored", "invalid"}}
LeftOpen == {Left("unclassified")}

AnswersAndCommits == {{"answer", "commit"}}
OffersAndCommits == {{"offer", "commit"}}
TwoAcceptances == {{"accept"}}
=============================================================================
