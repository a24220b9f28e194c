-------------------------- MODULE MCCampaignDriver --------------------------
(* Two campaigns; two slots are enough for the method events to interleave *)
(* responses and slots.                                                    *)
EXTENDS CampaignDriver

CONSTANTS c1, c2

MCPlan == <<c1, c2>>
=============================================================================
