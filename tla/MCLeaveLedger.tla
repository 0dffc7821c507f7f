--------------------------- MODULE MCLeaveLedger ---------------------------
(* Small instances of LeaveLedger: see the .cfg files that name this module. *)
EXTENDS LeaveLedger, TLC

CONSTANTS casual, earned

On(first, last, half) == [first |-> first, last |-> last, half |-> half]

\* Both halves of a day, and that day with the first day of the next period.
ThreeSpans == {On(1, 1, "first_half"), On(1, 1, "second_half"), On(1, 2, "full")}

\* HR takes more away than there is.
Cuts == {-5}

EveryOp == AllOps
=============================================================================
