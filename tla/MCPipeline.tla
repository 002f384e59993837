----------------------------- MODULE MCPipeline -----------------------------
(***************************************************************************)
(* Small instances of JobPipeline for TLC.                                 *)
(***************************************************************************)
EXTENDS JobPipeline, TLC

(* All jobs belong to one campaign.                                        *)
MCOneCampaign == [j \in Jobs |-> CHOOSE c \in Campaigns : TRUE]

(* Each campaign has one job, which bears the name of its campaign.        *)
MCOneJobEach == [j \in Jobs |-> j]

(* Processes are interchangeable, and so are jobs of the same kind.        *)
MCSymmetry ==
    Permutations(Workers) \cup Permutations(Drainers) \cup Permutations(Watchdogs)
    \cup Permutations(Jobs \ UnknownSource)
=============================================================================
