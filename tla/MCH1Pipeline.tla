---------------------------- MODULE MCH1Pipeline ----------------------------
(* Small instances of H1Pipeline for TLC.                                  *)
EXTENDS H1Pipeline

\* Bound of the run: the first request may have any body on its own; with a
\* second one, they have one piece of body between them, and one of them is
\* an ordinary request (both, if the second has the body); a third follows
\* only ordinary requests without a body, delivered at the first attempt.
OneOddRequest ==
    /\ cur >= 2 =>
          /\ "http1" \in {kind[1], kind[2]}
          /\ size[1] + size[2] <= 1
          /\ size[1] = 1 => kind[2] = "http1"
          /\ size[2] = 1 => kind[1] = "http1" /\ kind[2] = "http1"
    /\ cur = 3 =>
          \A r \in Requests : kind[r] = "http1" /\ size[r] = 0 /\ attempt[r] <= 1
=============================================================================
