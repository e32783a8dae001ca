------------------------------ MODULE MCH2Pool ------------------------------
(* Small instances of H2Pool for TLC.                                      *)
EXTENDS H2Pool, FiniteSets

\* Who has something under way, the top-up task as 0; a request that waits
\* for its answer may do so for ever and does not count.
Busy ==
    {a \in Actors : pc[a] \notin {"none", "idle", "sent"}}
        \cup IF topup = "none" THEN {} ELSE {0}

\* A request that may still retry.
MayRetry == \E r \in Requests : pc[r] # "idle" /\ tries[r] = 2

\* Bound of the run: at most two of the request, the tick, the background
\* revives and the top-up task are busy at a time, one of them once the pool
\* is drained or while a request may still retry.
TwoAtATime ==
    /\ Cardinality(Busy) <= IF shutdown \/ MayRetry THEN 1 ELSE 2
    /\ shutdown => \A r \in Requests : pc[r] # "sent"
=============================================================================
