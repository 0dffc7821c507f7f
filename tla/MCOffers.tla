------------------------------- MODULE MCOffers -------------------------------
(* Small instances of Offers: see the .cfg files that name this module. *)
EXTENDS Offers, TLC

EveryOp == AllOps
AnyRound == (SUBSET (Users \ Privileged)) \ {{}}

\* Approvals, acceptances and the onboarding page overlap; the rest does not.
MostAlone == AllOps \ {"approve", "accept", "list"}
===============================================================================
