--------------------------- MODULE ResponseStream ---------------------------
(***************************************************************************)
(* What one HTTP/1 client connection promises its client: responses come   *)
(* back in the order of the requests, one at a time, each is finished      *)
(* before the next begins, and after an unfinished one nothing follows.    *)
(* H1Pipeline implements this specification.                               *)
(***************************************************************************)
EXTENDS Naturals

CONSTANT MaxRequests   \* requests the client sends on the connection

VARIABLES
    sent,   \* sent[r]: how much of response r the client has
    open    \* may the proxy still write to the client?

Stages == {"none", "part", "whole"}

Init ==
    /\ sent = [r \in 1 .. MaxRequests |-> "none"]
    /\ open = TRUE

\* Bytes of response r reach the client, once all earlier ones are complete.
Write(r) ==
    /\ open
    /\ \A q \in 1 .. r - 1 : sent[q] = "whole"
    /\ sent[r] # "whole"
    /\ sent' = [sent EXCEPT ![r] = "part"]
    /\ UNCHANGED open

Finish(r) ==
    /\ open
    /\ sent[r] = "part"
    /\ sent' = [sent EXCEPT ![r] = "whole"]
    /\ UNCHANGED open

\* The last bytes that reach the client are those of a response cut short.
Cut(r) ==
    /\ open
    /\ \A q \in 1 .. r - 1 : sent[q] = "whole"
    /\ sent[r] # "whole"
    /\ sent' = [sent EXCEPT ![r] = "part"]
    /\ open' = FALSE

Close == open /\ open' = FALSE /\ UNCHANGED sent

Next == Close \/ \E r \in 1 .. MaxRequests : Write(r) \/ Finish(r) \/ Cut(r)

Spec == Init /\ [][Next]_<<sent, open>>
=============================================================================
