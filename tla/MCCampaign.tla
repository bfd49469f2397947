----------------------------- MODULE MCCampaign -----------------------------
(* An instance of Campaign for TLC.                                        *)
EXTENDS Campaign
=============================================================================
