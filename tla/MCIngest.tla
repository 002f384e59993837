------------------------------ MODULE MCIngest ------------------------------
(***************************************************************************)
(* A small instance of LeadIngest for TLC: a lead without contact, two     *)
(* that share a phone, one of which shares its domain with a third, and    *)
(* one that Postgres refuses.                                              *)
(***************************************************************************)
EXTENDS LeadIngest

MCLeads == {"bare", "shop", "branch", "web", "bad"}

MCContactsOf ==
    [l \in MCLeads |-> CASE l = "bare"   -> {}
                         [] l = "shop"   -> {"phone"}
                         [] l = "branch" -> {"phone", "domain"}
                         [] l = "web"    -> {"domain"}
                         [] l = "bad"    -> {"mail"}]

MCUnstorable == {"bad"}

MCBatches == {"maps", "dorks", "yelp"}

MCLeadsOf ==
    [b \in MCBatches |-> CASE b = "maps"  -> <<"bare", "branch", "shop">>
                           [] b = "dorks" -> <<"web">>
                           [] b = "yelp"  -> <<"bad">>]

MCSourceOf == [b \in MCBatches |-> b]

(* The first job is retried once.                                          *)
MCMaxPushes == [b \in MCBatches |-> IF b = "maps" THEN 2 ELSE 1]
=============================================================================
