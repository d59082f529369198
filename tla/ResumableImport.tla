-------------------------- MODULE ResumableImport --------------------------
(***************************************************************************)
(* What a resumable import promises, without batches, processes or ids:    *)
(* an item, once settled, stays settled; the mark, which a later run       *)
(* resumes behind, only ever covers settled items; and the mark is given   *)
(* up only when nothing is left to settle.  Ingest implements this in the  *)
(* "skip" and "mixed" modes.                                               *)
(***************************************************************************)
EXTENDS Naturals

CONSTANT Items     \* the positions 1..n of the archive

VARIABLES
    settled,       \* the items the import has nothing left to do for
    mark           \* how many leading items a resumed run passes over

vars == <<settled, mark>>

Init == settled \subseteq Items /\ mark = 0

Settle ==
    /\ settled \subseteq settled' /\ settled' \subseteq Items
    /\ UNCHANGED mark

Advance ==
    /\ mark < mark'
    /\ mark' \in Items
    /\ 1..mark' \subseteq settled
    /\ UNCHANGED settled

Close ==
    /\ settled = Items
    /\ mark' = 0
    /\ UNCHANGED settled

Next == Settle \/ Advance \/ Close

Spec == Init /\ [][Next]_vars
=============================================================================
