----------------------------- MODULE MCCampaigns ------------------------------
(* Small instances of Campaigns: see the .cfg files that name this module. *)
EXTENDS Campaigns, TLC

EveryOp == AllOps
===============================================================================
