----------------------------- MODULE SiteSearch -----------------------------
(***************************************************************************)
(* What crawling one business site promises, whatever the order in which   *)
(* its pages are visited: at most MaxPages pages are requested, each one   *)
(* once and only if the crawler had a link to it, and the site becomes a   *)
(* lead exactly when a contact was read on one of its pages.               *)
(***************************************************************************)
EXTENDS Naturals

CONSTANTS
    Pages,      \* the pages of the site
    Start,      \* the page the search starts from
    MaxPages    \* MAX_PAGES_PER_SITE

VARIABLES
    requested,  \* pages requested so far
    requests,   \* how many requests that took
    linked,     \* pages the search knows a link to
    contact,    \* an e-mail address or a phone number was read
    result

searchVars == <<requested, requests, linked, contact, result>>

SearchInit ==
    /\ requested = {} /\ requests = 0 /\ linked = {Start}
    /\ contact = FALSE /\ result = "pending"

Request(p) ==
    /\ result = "pending" /\ requests < MaxPages
    /\ p \in linked \ requested
    /\ requested' = requested \cup {p} /\ requests' = requests + 1
    /\ UNCHANGED <<linked, contact, result>>

(* A requested page tells of further pages of the site or of a contact.    *)
Read ==
    /\ result = "pending" /\ requested # {}
    /\ linked \subseteq linked' /\ linked' \subseteq linked \cup Pages
    /\ contact' \in {contact, TRUE}
    /\ UNCHANGED <<requested, requests, result>>

Conclude ==
    /\ result = "pending"
    /\ result' = IF contact THEN "lead" ELSE "none"
    /\ UNCHANGED <<requested, requests, linked, contact>>

SearchNext ==
    \/ \E p \in Pages : Request(p)
    \/ Read
    \/ Conclude

SearchSpec == SearchInit /\ [][SearchNext]_searchVars
=============================================================================
