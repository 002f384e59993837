----------------------------- MODULE MCLeadRow ------------------------------
(* Two PATCHes, one reader that goes on reading, a validator, a merge.     *)
EXTENDS LeadRow

CONSTANTS p1, p2, r1, v1, maps, yelp
MCPatchers == {p1, p2}
MCReaders == {r1}
MCValidators == {v1}
MCSources == {maps, yelp}
MCStatuses == {"new", "contacted"}
=============================================================================
