----------------------------- MODULE LeadStream -----------------------------
(***************************************************************************)
(* What the runner may rely on when it consumes a scraper, whatever the    *)
(* source: the leads found reach the consumer once each and in the order   *)
(* they were found, everything found so far at every hand-over; no         *)
(* hand-over begins once the job is cancelled; and a job completes only    *)
(* when nothing found is left behind.                                      *)
(***************************************************************************)
EXTENDS Naturals, Sequences

CONSTANT Keys

VARIABLES
    found,      \* the leads found, in order
    handed,     \* the leads the consumer has accepted
    offered,    \* a batch is being pushed
    cancelled,  \* the job was killed or timed out
    status

streamVars == <<found, handed, offered, cancelled, status>>

StreamInit ==
    /\ found = <<>> /\ handed = <<>>
    /\ offered = FALSE /\ cancelled = FALSE /\ status = "running"

(* A scraper is suspended while its batch is being pushed.                 *)
Find ==
    /\ status = "running" /\ ~offered
    /\ found' \in Seq(Keys) /\ Len(found') >= Len(found)
    /\ \A i \in 1..Len(found) : found'[i] = found[i]
    /\ UNCHANGED <<handed, offered, cancelled, status>>

Offer ==
    /\ status = "running" /\ ~offered /\ ~cancelled
    /\ offered' = TRUE
    /\ UNCHANGED <<found, handed, cancelled, status>>

Accept ==
    /\ status = "running" /\ offered
    /\ handed' = found /\ offered' = FALSE
    /\ UNCHANGED <<found, cancelled, status>>

(* A batch with nothing to push counts as handed over.                     *)
Discard ==
    /\ status = "running" /\ ~offered /\ ~cancelled
    /\ handed' = found
    /\ UNCHANGED <<found, offered, cancelled, status>>

Cancel ==
    /\ ~cancelled /\ cancelled' = TRUE
    /\ UNCHANGED <<found, handed, offered, status>>

Fail ==
    /\ status = "running"
    /\ status' = "failed" /\ offered' = FALSE
    /\ UNCHANGED <<found, handed, cancelled>>

Stop ==
    /\ status = "running" /\ ~offered
    /\ \/ ~cancelled /\ handed = found /\ status' = "completed"
       \/ cancelled /\ status' = "timeout"
    /\ UNCHANGED <<found, handed, offered, cancelled>>

StreamNext ==
    \/ Find \/ Offer \/ Accept \/ Discard \/ Cancel \/ Fail \/ Stop

StreamSpec == StreamInit /\ [][StreamNext]_streamVars
=============================================================================
