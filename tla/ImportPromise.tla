--------------------------- MODULE ImportPromise ---------------------------
(***************************************************************************)
(* What the import of extracts promises, whatever happens to the jobs that  *)
(* carry it out: a batch enters the ledger whole, in one step that is also  *)
(* the step that settles it, with rows of its extract that no batch has     *)
(* brought in and are still there; a settled batch brings in nothing more.  *)
(* ImportBatches implements this.                                           *)
(***************************************************************************)
CONSTANTS
    Batches,
    Extract        \* Extract[b]: the rows b's file holds

VARIABLES
    imported,      \* rows each batch brought in and the user has kept
    settled        \* batches whose import is done

Init ==
    /\ imported = [b \in Batches |-> {}]
    /\ settled = {}

Import(b) ==
    /\ b \notin settled
    /\ settled' = settled \cup {b}
    /\ \E rows \in SUBSET (Extract[b] \ UNION {imported[c] : c \in Batches}) :
         imported' = [imported EXCEPT ![b] = @ \cup rows]

\* The user deletes one of the imported rows.
Delete(b, x) ==
    /\ x \in imported[b]
    /\ imported' = [imported EXCEPT ![b] = @ \ {x}]
    /\ UNCHANGED settled

\* A cancellation, or a handler whose job expired under it, takes the batch
\* back.  What it brought in stays.
Reopen(b) ==
    /\ b \in settled
    /\ settled' = settled \ {b}
    /\ UNCHANGED imported

Next ==
    \E b \in Batches :
        \/ Import(b) \/ Reopen(b)
        \/ \E x \in imported[b] : Delete(b, x)

Spec == Init /\ [][Next]_<<imported, settled>>
=============================================================================
