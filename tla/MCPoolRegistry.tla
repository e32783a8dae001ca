--------------------------- MODULE MCPoolRegistry ---------------------------
(* Small instances of PoolRegistry for TLC.                                *)
EXTENDS PoolRegistry

CONSTANTS a, b, port, r2

\* Two hosts on one port.
OnePort == [s \in Locations |-> port]

\* The second location is being compiled or has an id, or a second id was
\* handed out.
Several ==
    \/ nextId > 2
    \/ cfg[b] # 0
    \/ \E w \in Reloaders : b \in job[w].todo \/ job[w].out[b] # 0
    \/ \E r \in Requests : rpc[r] # "closed" /\ conn[r].loc = b

\* One location and one id with two connections and a publisher, or several
\* with one connection and none; a full reload meets one location and one
\* connection (on one port it differs from the port's by its failures only).
Small ==
    /\ Several =>
          /\ rpc[r2] = "closed"
          /\ \A p \in Publishers : ppc[p] = "idle"
          /\ \A d \in Ids : alive[d] = 0
    /\ (\E w \in Reloaders : job[w].full) => ~Several /\ rpc[r2] = "closed"
=============================================================================
