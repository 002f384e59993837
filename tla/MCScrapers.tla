----------------------------- MODULE MCScrapers -----------------------------
(***************************************************************************)
(* All ten sources, two queries of two pages, batches of two leads.  The   *)
(* result lists have results with and without a contact, with an http, an  *)
(* https or no website, an unusable one, and the same result again.        *)
(***************************************************************************)
EXTENDS Scrapers

CONSTANTS a, b, c

Result(k, usable, contact, site) ==
    [key |-> k, usable |-> usable, contact |-> contact, site |-> site]

MCKeys == {a, b, c}

MCPages ==
    { <<>>,
      << Result(a, TRUE, TRUE, "none") >>,
      << Result(c, FALSE, FALSE, "none"), Result(a, TRUE, FALSE, "http") >>,
      << Result(b, TRUE, FALSE, "https"), Result(c, TRUE, FALSE, "http"),
         Result(a, TRUE, FALSE, "http") >> }
=============================================================================
