--------------------------- MODULE MCGatewayTunnel ---------------------------
(* Small instances of GatewayTunnel for TLC.                               *)
EXTENDS GatewayTunnel

\* The client's tunnel carries data, the server's only opens and closes.
OneTalks == [t \in Sides \X Ids |-> IF t[1] = "client" THEN 2 ELSE 0]

\* Bounds of the run.
Payloads == sent[<<"client", 1>>] + upSent[<<"client", 1>>]
HasTwin == user[<<"server", 1>>] # "idle"
HasFile == file["client"] # "idle"
HasLoss == ~link \/ \E p \in Sides : ~up[p]

\* Up to three payloads on a tunnel that is alone in a session that lives, one
\* with a file request or a loss of the session; the server's tunnel of the
\* same id with one payload or a loss, and then nothing refused or early.  A
\* client that accepts no tunnels opens none itself.
Small ==
    /\ Payloads <= 3
    /\ Payloads > 1 => ~HasTwin /\ ~HasFile /\ ~HasLoss
    /\ HasTwin =>
          /\ lost = {} /\ early = {} /\ ~HasFile
          /\ Payloads = 0 \/ ~HasLoss
    /\ allowed = Sides \/ user[<<"client", 1>>] = "idle"
=============================================================================
