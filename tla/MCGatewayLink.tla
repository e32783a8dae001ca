---------------------------- MODULE MCGatewayLink ----------------------------
(* A small instance of GatewayLink for TLC.                                *)
EXTENDS GatewayLink, FiniteSets, FiniteSetsExt

HasLocal == cert.origin \in {"manual", "local"} \/ loading # {} \/ overtaken
HasSilence == \E s \in Sessions : net[s] = "silent"
Renewed == issued > 1
Outstanding ==
    Quantify(Requests, LAMBDA r : request[r].st # "free")
        + MapThenSumSet(LAMBDA s : Len(reply[s]), Sessions)
Crossing == Outstanding > 1

\* One complication at a time: a certificate of the client's own, a silent
\* link, a renewal, and with the renewal two requests that cross.  Loads of the
\* local source run beside a session that is up, two of them beside the first.
Small ==
    /\ Outstanding <= 2
    /\ HasLocal => ~HasSilence /\ ~Renewed
    /\ loading # {} => loop = "ping" /\ net[cur] = "up" /\ tick = 0
    /\ Cardinality(loading) > 1 => cur = 1
    /\ HasSilence \/ srv = 0 => ~Renewed
    /\ Crossing => Renewed /\ cur = 1 /\ net[1] = "up"
=============================================================================
