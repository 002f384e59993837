---------------------------- MODULE MCSiteCrawl -----------------------------
(***************************************************************************)
(* A small site for TLC: a home page, a shop page that is linked with and  *)
(* without "www." and a slash, a contact page (also as a fragment), two    *)
(* ordinary pages, a file that is skipped, a mail link and another site.   *)
(***************************************************************************)
EXTENDS SiteCrawl

MCHosts == {"site", "www.site", "other"}

MCDomainOf == [h \in MCHosts |-> IF h = "other" THEN "other" ELSE "site"]

MCPaths == {"home", "shop", "contact", "news", "jobs", "pdf"}

MCPathClass ==
    [p \in MCPaths |-> CASE p = "contact" -> "priority"
                         [] p = "pdf"     -> "skip"
                         [] OTHER         -> "follow"]

Page(p) == [scheme |-> "https", host |-> "site", path |-> p,
            slash |-> FALSE, fragment |-> FALSE]
Slash(p) == [Page(p) EXCEPT !.slash = TRUE]
Anchor(p) == [Page(p) EXCEPT !.fragment = TRUE]
Www(p) == [Page(p) EXCEPT !.host = "www.site"]
Mail == [Page("home") EXCEPT !.scheme = "mailto"]
Foreign == [Page("home") EXCEPT !.host = "other"]

MCStart == Slash("home")

MCPageLinks ==
    {<<>>,
     <<Page("home"), Page("shop"), Anchor("contact")>>,
     <<Slash("shop"), Foreign, Page("news"), Www("shop")>>,
     <<Page("pdf"), Page("jobs"), Page("contact"), Mail>>}
=============================================================================
