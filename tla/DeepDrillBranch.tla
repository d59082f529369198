--------------------------- MODULE DeepDrillBranch ---------------------------
(***************************************************************************)
(* What the DeepDrill scheduler promises of a research branch: work is     *)
(* done on an open branch; a frozen one is left alone, unless a request    *)
(* forces it open or it was frozen without ever seeing a source whose      *)
(* provenance is known.  The best tier seen never falls.                   *)
(***************************************************************************)
EXTENDS Naturals

VARIABLES
    frozen,    \* the branch status
    work,      \* strategy runs recorded so far
    tier       \* rank of the best provenance tier seen

vars == <<frozen, work, tier>>

Init == ~frozen /\ work = 0 /\ tier = 0

Work ==
    /\ ~frozen \/ tier = 0
    /\ work' = work + 1
    /\ tier' \in Nat /\ tier' >= tier
    /\ frozen' \in BOOLEAN

Reopen ==
    /\ frozen
    /\ frozen' = FALSE
    /\ UNCHANGED <<work, tier>>

Next == Work \/ Reopen

Spec == Init /\ [][Next]_vars
=============================================================================
