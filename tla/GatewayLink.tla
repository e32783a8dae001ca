----------------------------- MODULE GatewayLink -----------------------------
(***************************************************************************)
(* How a gateway client and its server find each other again, and what     *)
(* they do with it: src/src/tcp_gateway (connection loops, handshake, ping *)
(* loop, the registry of connections by name) and the synchronisation of   *)
(* one TLS certificate over the sessions (README.md, "SSL Certificate Sync *)
(* via Gateway").                                                          *)
(*                                                                         *)
(* Sessions are numbered as the client dials them.  Either side keeps its  *)
(* connection in a map under the client's name, so that a later one        *)
(* replaces an earlier one, and a read loop that ends removes the entry    *)
(* whoever owns it.  A link may break, which both read loops notice, or    *)
(* fall silent, which only the client's ping loop does.  A certificate is  *)
(* a version number; near holds the versions with a day or less to live.   *)
(* What else a session carries is in GatewayTunnel.                        *)
(***************************************************************************)
EXTENDS Naturals, Sequences

CONSTANTS
    MaxSessions,    \* bound: dials; the last session stays up
    MaxVersion,     \* bound: issues of the certificate
    MaxRequests     \* bound: certificate requests under way at a time

ASSUME BoundsAssumption ==
    /\ MaxSessions \in Nat \ {0}
    /\ MaxVersion \in Nat \ {0}
    /\ MaxRequests \in Nat \ {0}

Sessions == 1 .. MaxSessions
Versions == 0 .. MaxVersion       \* 0: there is none
Requests == 1 .. MaxRequests

\* Who loads the local source: SslCertsRefreshTimer, RefreshSslCertificate, a
\* compile of the configuration (bound: each at most once at a time).
Loads == {"timer", "asked", "missing"}

VARIABLES
    loop, cur,            \* the client's connection_loop and its latest session
    clientMap, serverMap, \* the registered session of either side, 0: none
    net,                  \* net[s]: the TCP connection of session s
    open,                 \* open[s]: is_connected of the client's end
    cRead,                \* cRead[s]: the client's read loop
    inbound,              \* inbound[s]: the server's handle_inbound, read loop
    srv, issued, near,    \* the certificate: the server's, the last, the aged
    cert,                 \* the client's entry in its certificate cache
    request,              \* request[r]: a SyncSslCertificatesRequest
    reply,                \* reply[s]: the server's answers on their way
    removing,             \* removing[s]: NotFound is between read and write
    tick,                 \* the connection GatewaySyncCertsTimer asks, 0: idle
    loading,              \* the loads of the client's local source under way
    overtaken             \* history: cert was stored under another's check

linkVars == <<loop, cur, clientMap, serverMap, net, open, cRead, inbound>>
certVars == <<srv, issued, near, cert, removing, tick, loading, overtaken>>
vars == <<linkVars, certVars, request, reply>>

Cert(origin, v) == [origin |-> origin, ver |-> v]
NoCert == Cert("none", 0)
Free == [st |-> "free", sess |-> 0, ver |-> 0]
NextFree(r) ==
    request[r].st = "free" /\ \A q \in 1 .. r - 1 : request[q].st # "free"

Init ==
    /\ loop = "top" /\ cur = 0
    /\ clientMap = 0 /\ serverMap = 0
    /\ net = [s \in Sessions |-> "none"]
    /\ open = [s \in Sessions |-> FALSE]
    /\ cRead = [s \in Sessions |-> "none"]
    /\ inbound = [s \in Sessions |-> "none"]
    /\ srv = 1 /\ issued = 1 /\ near = {}
    /\ cert \in {NoCert, Cert("local", 0)}
    /\ request = [r \in Requests |-> Free]
    /\ reply = [s \in Sessions |-> << >>]
    /\ removing = [s \in Sessions |-> FALSE]
    /\ tick = 0 /\ loading = {}
    /\ overtaken = FALSE

\* The last session is not disturbed.
Disturbable(s) == s < MaxSessions

-----------------------------------------------------------------------------
(* The client's connection_loop and ping loop.                             *)

\* The head of the loop forgets the session of the round before.
LoopTop ==
    /\ loop = "top"
    /\ loop' = "dial"
    /\ clientMap' = 0
    /\ UNCHANGED <<cur, serverMap, net, open, cRead, inbound, certVars,
                   request, reply>>

\* No connection, or a timeout: sleep and start over.
DialFails ==
    /\ loop = "dial"
    /\ loop' = "top"
    /\ UNCHANGED <<cur, clientMap, serverMap, net, open, cRead, inbound,
                   certVars, request, reply>>

\* TcpStream::connect, and the server's accept, which spawns handle_inbound.
Dial ==
    /\ loop = "dial" /\ cur < MaxSessions
    /\ loop' = "handshake"
    /\ cur' = cur + 1
    /\ net' = [net EXCEPT ![cur + 1] = "up"]
    /\ inbound' = [inbound EXCEPT ![cur + 1] = "handshake"]
    /\ UNCHANGED <<clientMap, serverMap, open, cRead, certVars, request, reply>>

\* perform_client_handshake gets an error; the stream is dropped.
HandshakeFails ==
    /\ loop = "handshake"
    /\ net[cur] = "closed" \/ (net[cur] = "up" /\ inbound[cur] = "over")
    /\ loop' = "top"
    /\ net' = [net EXCEPT ![cur] = "closed"]
    /\ UNCHANGED <<cur, clientMap, serverMap, open, cRead, inbound, certVars,
                   request, reply>>

\* The handshake succeeds: register the connection, spawn its read loop,
\* request the certificates (a refusal is ignored), enter the ping loop.
Register ==
    /\ loop = "handshake"
    /\ net[cur] = "up" /\ inbound[cur] \in {"answered", "run"}
    /\ loop' = "ping"
    /\ clientMap' = cur
    /\ open' = [open EXCEPT ![cur] = TRUE]
    /\ cRead' = [cRead EXCEPT ![cur] = "run"]
    /\ \/ \E r \in Requests :
             /\ NextFree(r)
             /\ request' = [request EXCEPT ![r] =
                               [st |-> "sent", sess |-> cur, ver |-> 0]]
       \/ UNCHANGED request
    /\ UNCHANGED <<cur, serverMap, net, inbound, certVars, reply>>

\* Mutant of PingTimeout: an idle session is kept.
PingTimeoutIgnored ==
    /\ loop = "ping" /\ Disturbable(cur)
    /\ ~open[cur]
    /\ loop' = "top"
    /\ UNCHANGED <<cur, clientMap, serverMap, net, open, cRead, inbound,
                   certVars, request, reply>>

\* Mutant of PingTimeout: it also removes what is registered.
PingTimeoutUnregisters ==
    /\ loop = "ping" /\ Disturbable(cur)
    /\ loop' = "top"
    /\ open' = [open EXCEPT ![cur] = FALSE]
    /\ clientMap' = 0
    /\ UNCHANGED <<cur, serverMap, net, cRead, inbound, certVars, request, reply>>

\* Nothing has come in for more than nine seconds: disconnect.
PingTimeout ==
    /\ loop = "ping" /\ Disturbable(cur)
    /\ loop' = "top"
    /\ open' = [open EXCEPT ![cur] = FALSE]
    /\ UNCHANGED <<cur, clientMap, serverMap, net, cRead, inbound, certVars,
                   request, reply>>

\* The ping is refused, because the session is disconnected or because the
\* queue is full; the latter leaves the session open.
PingRefused ==
    /\ loop = "ping"
    /\ ~open[cur] \/ Disturbable(cur)
    /\ loop' = "top"
    /\ UNCHANGED <<cur, clientMap, serverMap, net, open, cRead, inbound,
                   certVars, request, reply>>

\* gateway_read_loop at the client's end of s ends: whatever is registered
\* under the name is removed, and s is disconnected.
ClientReaderEnds(s) ==
    /\ cRead[s] = "run" /\ ~removing[s]
    /\ \/ net[s] = "closed"
       \/ net[s] = "up" /\ inbound[s] = "over" /\ reply[s] = << >>
    /\ cRead' = [cRead EXCEPT ![s] = "over"]
    /\ clientMap' = 0
    /\ open' = [open EXCEPT ![s] = FALSE]
    /\ UNCHANGED <<loop, cur, serverMap, net, inbound, certVars, request, reply>>

-----------------------------------------------------------------------------
(* The server.                                                             *)

\* perform_server_handshake accepts the client and writes its answer.
ServerAnswers(s) ==
    /\ inbound[s] = "handshake" /\ net[s] = "up"
    /\ inbound' = [inbound EXCEPT ![s] = "answered"]
    /\ UNCHANGED <<loop, cur, clientMap, serverMap, net, open, cRead, certVars,
                   request, reply>>

\* The handshake fails: the connection broke, or the frame is not accepted.
ServerRejects(s) ==
    /\ inbound[s] = "handshake"
    /\ net[s] = "closed" \/ Disturbable(s)
    /\ inbound' = [inbound EXCEPT ![s] = "over"]
    /\ UNCHANGED <<loop, cur, clientMap, serverMap, net, open, cRead, certVars,
                   request, reply>>

\* handle_inbound registers the session and spawns its read loop.
ServerRegisters(s) ==
    /\ inbound[s] = "answered"
    /\ inbound' = [inbound EXCEPT ![s] = "run"]
    /\ serverMap' = s
    /\ UNCHANGED <<loop, cur, clientMap, net, open, cRead, certVars, request,
                   reply>>

\* Mutant of ServerReaderEnds: the entry stays.
ServerReaderEndsKeepsEntry(s) ==
    /\ inbound[s] = "run"
    /\ \/ net[s] = "closed"
       \/ net[s] = "up" /\ cRead[s] # "none" /\ ~open[s]
    /\ inbound' = [inbound EXCEPT ![s] = "over"]
    /\ UNCHANGED <<loop, cur, clientMap, serverMap, net, open, cRead, certVars,
                   request, reply>>

\* gateway_read_loop at the server's end of s ends, as at the client's.
ServerReaderEnds(s) ==
    /\ inbound[s] = "run"
    /\ \/ net[s] = "closed"
       \/ net[s] = "up" /\ cRead[s] # "none" /\ ~open[s]
    /\ inbound' = [inbound EXCEPT ![s] = "over"]
    /\ serverMap' = 0
    /\ UNCHANGED <<loop, cur, clientMap, net, open, cRead, certVars, request,
                   reply>>

\* The server's process is started anew; its certificates are not loaded yet.
ServerRestarts ==
    /\ Disturbable(cur)
    /\ serverMap' = 0
    /\ srv' = 0
    /\ net' = [s \in Sessions |-> IF net[s] = "up" THEN "closed" ELSE net[s]]
    /\ inbound' = [s \in Sessions |->
                      IF inbound[s] = "none" THEN "none" ELSE "over"]
    /\ request' = [r \in Requests |->
                      IF request[r].st \in {"task", "read"} THEN Free
                      ELSE request[r]]
    /\ UNCHANGED <<loop, cur, clientMap, open, cRead, issued, near, cert,
                   removing, tick, loading, overtaken, reply>>

-----------------------------------------------------------------------------
(* The network.                                                            *)

FallsSilent(s) ==
    /\ Disturbable(s) /\ net[s] = "up"
    /\ net' = [net EXCEPT ![s] = "silent"]
    /\ UNCHANGED <<loop, cur, clientMap, serverMap, open, cRead, inbound,
                   certVars, request, reply>>

Breaks(s) ==
    /\ Disturbable(s) /\ net[s] \in {"up", "silent"}
    /\ net' = [net EXCEPT ![s] = "closed"]
    /\ UNCHANGED <<loop, cur, clientMap, serverMap, open, cRead, inbound,
                   certVars, request, reply>>

\* What is on its way is lost with the link.
FramesLost(s) ==
    /\ net[s] \in {"silent", "closed"}
    /\ \/ reply[s] # << >>
       \/ \E r \in Requests : request[r].st = "sent" /\ request[r].sess = s
    /\ reply' = [reply EXCEPT ![s] = << >>]
    /\ request' = [r \in Requests |->
                      IF request[r].st = "sent" /\ request[r].sess = s
                      THEN Free ELSE request[r]]
    /\ UNCHANGED <<linkVars, certVars>>

-----------------------------------------------------------------------------
(* Certificates at the server.                                             *)

\* A new version is issued and the server loads it.
Renew ==
    /\ issued < MaxVersion
    /\ issued' = issued + 1
    /\ srv' = issued + 1
    /\ UNCHANGED <<linkVars, near, cert, removing, tick, loading, overtaken,
                   request, reply>>

\* The server loads the certificate after its start.
Load ==
    /\ srv = 0
    /\ srv' = issued
    /\ UNCHANGED <<linkVars, issued, near, cert, removing, tick, loading,
                   overtaken, request, reply>>

\* Time passes: version v has a day or less left (bound: not the last one).
Age(v) ==
    /\ v \in 1 .. issued /\ v < MaxVersion /\ v \notin near
    /\ near' = near \cup {v}
    /\ UNCHANGED <<linkVars, srv, issued, cert, removing, tick, loading,
                   overtaken, request, reply>>

\* The server's read loop takes the request and spawns the answer.
ServerTakes(r) ==
    /\ request[r].st = "sent"
    /\ inbound[request[r].sess] = "run" /\ net[request[r].sess] = "up"
    /\ request' = [request EXCEPT ![r].st = "task"]
    /\ UNCHANGED <<linkVars, certVars, reply>>

\* It reads the cache ...
ServerReads(r) ==
    /\ request[r].st = "task"
    /\ request' = [request EXCEPT ![r].st = "read", ![r].ver = srv]
    /\ UNCHANGED <<linkVars, certVars, reply>>

\* ... and sends what it found, SyncSslCertificates or NotFound.
ServerReplies(r) ==
    LET s == request[r].sess
    IN /\ request[r].st = "read"
       /\ inbound[s] = "run" /\ Len(reply[s]) < MaxRequests
       /\ request' = [request EXCEPT ![r] = Free]
       /\ reply' = [reply EXCEPT ![s] =
                       IF net[s] = "up" THEN Append(@, request[r].ver) ELSE @]
       /\ UNCHANGED <<linkVars, certVars>>

\* The session is gone or its queue is full: the answer is given up.
ServerGivesUp(r) ==
    /\ request[r].st = "read"
    /\ request' = [request EXCEPT ![r] = Free]
    /\ UNCHANGED <<linkVars, certVars, reply>>

-----------------------------------------------------------------------------
(* Certificates at the client.                                             *)

Pushed == cert.origin = "pushed"

\* A writer of the cache is between its check and its write, the loads in ls
\* among them; RefreshSslCertificate checks nothing.
InWindow(ls) == ls \ {"asked"} # {} \/ \E s \in Sessions : removing[s]

\* ssl_certs.add_or_update.
Store(c, ls) ==
    /\ cert' = c
    /\ overtaken' = InWindow(ls)

\* SyncSslCertificates: overwrite.  The server holds only what
\* SslCertificate::new has accepted, and the client parses the same bytes.
TakePushed(s) ==
    /\ cRead[s] = "run" /\ ~removing[s] /\ reply[s] # << >>
    /\ Head(reply[s]) # 0
    /\ Store(Cert("pushed", Head(reply[s])), loading)
    /\ reply' = [reply EXCEPT ![s] = Tail(@)]
    /\ UNCHANGED <<linkVars, srv, issued, near, removing, tick, loading,
                   request>>

\* SyncSslCertificateNotFound: only a pushed certificate is to be removed ...
TakeNotFound(s) ==
    /\ cRead[s] = "run" /\ ~removing[s] /\ reply[s] # << >>
    /\ Head(reply[s]) = 0
    /\ removing' = [removing EXCEPT ![s] = Pushed]
    /\ reply' = [reply EXCEPT ![s] = Tail(@)]
    /\ UNCHANGED <<linkVars, srv, issued, near, cert, tick, loading, overtaken,
                   request>>

\* ... but the removal takes the lock anew and does not look again.
Remove(s) ==
    /\ removing[s]
    /\ removing' = [removing EXCEPT ![s] = FALSE]
    /\ cert' = NoCert
    /\ UNCHANGED <<linkVars, srv, issued, near, tick, loading, overtaken,
                   request, reply>>

\* GatewaySyncCertsTimer: the connections first ...
TickBegins ==
    /\ tick = 0 /\ clientMap # 0
    /\ tick' = clientMap
    /\ UNCHANGED <<linkVars, srv, issued, near, cert, removing, loading,
                   overtaken, request, reply>>

\* Mutant of Needed: only what is missing.
NeededMissing == cert.origin = "none"

\* What the timer requests.
Needed == cert.origin = "none" \/ (Pushed /\ cert.ver \in near)

\* ... then the cache, and the request.
TickRequests(r) ==
    /\ tick # 0 /\ Needed
    /\ NextFree(r) /\ open[tick]
    /\ request' = [request EXCEPT ![r] =
                      [st |-> "sent", sess |-> tick, ver |-> 0]]
    /\ tick' = 0
    /\ UNCHANGED <<linkVars, srv, issued, near, cert, removing, loading,
                   overtaken, reply>>

\* Nothing is needed, or the send is refused.
TickEnds ==
    /\ tick # 0
    /\ tick' = 0
    /\ UNCHANGED <<linkVars, srv, issued, near, cert, removing, loading,
                   overtaken, request, reply>>

\* init_ssl_cert_manually, whatever is cached.
InitManually ==
    /\ Store(Cert("manual", 0), loading)
    /\ UNCHANGED <<linkVars, srv, issued, near, removing, tick, loading,
                   request, reply>>

\* A load of the local source begins: its files are awaited ...
Begins(k) ==
    /\ k \notin loading
    /\ loading' = loading \cup {k}
    /\ UNCHANGED <<linkVars, srv, issued, near, cert, removing, tick,
                   overtaken, request, reply>>

\* ... and the certificate is stored, or could not be loaded.
Ends(k) ==
    /\ k \in loading
    /\ loading' = loading \ {k}
    /\ \/ Store(Cert("local", 0), loading \ {k})
       \/ UNCHANGED <<cert, overtaken>>
    /\ UNCHANGED <<linkVars, srv, issued, near, removing, tick, request, reply>>

\* SslCertsRefreshTimer finds a certificate with a local source about to
\* expire, and stores what it loads without another look.
RefreshBegins == cert.origin = "local" /\ Begins("timer")
RefreshEnds == Ends("timer")

\* RefreshSslCertificate hands any certificate back to its source.
AskedBegins == Begins("asked")
AskedEnds == Ends("asked")

\* Mutant of CompileBegins: it does not ask whether there is one.
CompileBeginsAnyway == Begins("missing")

\* make_sure_ssl_cert_exists loads what is not cached when it looks.
CompileBegins == cert.origin = "none" /\ Begins("missing")
CompileEnds == Ends("missing")

-----------------------------------------------------------------------------
ServerAnswer(r) == ServerTakes(r) \/ ServerReads(r)
ClientTakes(s) == TakePushed(s) \/ TakeNotFound(s) \/ Remove(s)

Next ==
    \/ LoopTop \/ DialFails \/ Dial \/ HandshakeFails \/ Register
    \/ PingTimeout \/ PingRefused
    \/ \E s \in Sessions :
          \/ ClientReaderEnds(s) \/ ClientTakes(s)
          \/ ServerAnswers(s) \/ ServerRejects(s) \/ ServerRegisters(s)
          \/ ServerReaderEnds(s)
          \/ FallsSilent(s) \/ Breaks(s) \/ FramesLost(s)
    \/ ServerRestarts \/ Renew \/ Load \/ \E v \in Versions : Age(v)
    \/ \E r \in Requests :
          \/ ServerAnswer(r) \/ ServerReplies(r) \/ ServerGivesUp(r)
          \/ TickRequests(r)
    \/ TickBegins \/ TickEnds
    \/ InitManually
    \/ RefreshBegins \/ RefreshEnds
    \/ AskedBegins \/ AskedEnds
    \/ CompileBegins \/ CompileEnds

Spec == Init /\ [][Next]_vars

\* tokio runs ready tasks and timers tick; a broken link is reported; the
\* server is reachable and the queues drain again and again (strong fairness
\* of Dial, TickRequests, ServerReplies); a certificate ages.
FairSpec ==
    /\ Spec
    /\ WF_vars(LoopTop) /\ SF_vars(Dial)
    /\ WF_vars(HandshakeFails) /\ WF_vars(Register)
    /\ WF_vars(loop = "ping" /\ net[cur] # "up" /\ PingTimeout)
    /\ WF_vars(loop = "ping" /\ ~open[cur] /\ PingRefused)
    /\ \A s \in Sessions :
          /\ WF_vars(ClientReaderEnds(s)) /\ WF_vars(ClientTakes(s))
          /\ WF_vars(ServerAnswers(s) \/ ServerRejects(s))
          /\ WF_vars(ServerRegisters(s))
          /\ WF_vars(ServerReaderEnds(s)) /\ WF_vars(FramesLost(s))
    /\ \A r \in Requests :
          /\ WF_vars(ServerAnswer(r)) /\ SF_vars(ServerReplies(r))
          /\ WF_vars(ServerGivesUp(r))
    /\ SF_vars(\E r \in Requests : TickRequests(r))
    /\ WF_vars(TickBegins) /\ WF_vars(TickEnds)
    /\ WF_vars(RefreshEnds) /\ WF_vars(AskedEnds) /\ WF_vars(CompileEnds)
    /\ \A v \in Versions : WF_vars(Age(v))

-----------------------------------------------------------------------------
(* Properties.                                                             *)

\* Every variable has its type.
TypeOK ==
    /\ loop \in {"top", "dial", "handshake", "ping"}
    /\ cur \in 0 .. MaxSessions
    /\ clientMap \in 0 .. MaxSessions /\ serverMap \in 0 .. MaxSessions
    /\ net \in [Sessions -> {"none", "up", "silent", "closed"}]
    /\ open \in [Sessions -> BOOLEAN]
    /\ cRead \in [Sessions -> {"none", "run", "over"}]
    /\ inbound \in [Sessions ->
                       {"none", "handshake", "answered", "run", "over"}]
    /\ srv \in Versions /\ issued \in Versions /\ near \subseteq Versions
    /\ cert \in [origin : {"none", "pushed", "manual", "local"}, ver : Versions]
    /\ request \in [Requests -> [st : {"free", "sent", "task", "read"},
                                 sess : 0 .. MaxSessions, ver : Versions]]
    /\ reply \in [Sessions -> Seq(Versions)]
    /\ removing \in [Sessions -> BOOLEAN]
    /\ tick \in 0 .. MaxSessions /\ loading \subseteq Loads
    /\ overtaken \in BOOLEAN

\* The client's registry never holds a session older than the one its loop
\* pings, and one that is no longer connected only until the loop's next round
\* (set_gateway_connection, gateway_read_loop).
ClientHandsOutCurrent ==
    clientMap # 0 =>
        /\ clientMap = cur /\ cRead[cur] = "run"
        /\ open[cur] \/ loop = "top"

\* Whatever the order in which sessions register and end, the server hands
\* out a session whose read loop runs.
ServerHandsOutRead == serverMap # 0 => inbound[serverMap] = "run"

\* Every variable has its type, and what the two registries hand out under the
\* gateway's name is a session somebody reads.
LinkSound == TypeOK /\ ClientHandsOutCurrent /\ ServerHandsOutRead

\* The client's loop pings a session its registry does not have.
Orphaned ==
    loop = "ping" /\ open[cur] /\ cRead[cur] = "run" /\ clientMap # cur

\* A registered session that is alive loses its entry only to the loop itself
\* or to the end of the read loop of an older session, which removes by name.
OnlyOlderEvicts ==
    [][ clientMap # 0 /\ clientMap' # clientMap /\ cRead[cur] = "run"
           /\ cRead'[cur] = "run" =>
        \/ loop = "top"
        \/ \E s \in Sessions :
              s < cur /\ cRead[s] = "run" /\ cRead'[s] = "over" ]_vars

\* The handshake has no timeout: a link that falls silent in it is for ever.
Stuck == loop = "handshake" /\ net[cur] = "silent"

\* The client finds the server again after any loss, unless a handshake is
\* stuck; the session it ends up with is registered, unless the read loop of
\* an older one has ended since.
Reconnects ==
    []<>(\/ loop = "ping" /\ net[cur] = "up" /\ (clientMap = cur \/ Orphaned)
         \/ Stuck)

\* A session whose link is broken does not stay registered at either side,
\* nor at the client one that has fallen silent.
DeadIsUnregistered ==
    \A s \in Sessions :
        /\ clientMap = s /\ net[s] \in {"silent", "closed"} ~> clientMap # s
        /\ serverMap = s /\ net[s] = "closed" ~> serverMap # s

\* After any loss both sides forget the dead session and the client finds the
\* server again (the loop of tcp_gateway_client, the read loops).
LinkRecovers == Reconnects /\ DeadIsUnregistered

\* RefreshSslCertificate ends.
HandedBack == "asked" \in loading /\ "asked" \notin loading'

\* Whatever writers of the certificate cache cross, a manual certificate gives
\* way to a pushed or another manual one, a local certificate is not removed,
\* and neither a manual nor a pushed one becomes local unless the operator
\* asked for it, as long as it was not stored while a NotFound, a refresh or a
\* compile was between its check and its write (client_packet_handler,
\* refresh_ssl_certs_from_sources, make_sure_ssl_cert_exists, the timer).
LocalUntouched ==
    [][ \/ overtaken
        \/ /\ cert.origin \in {"manual", "local"} => cert'.origin # "none"
           /\ cert.origin \in {"manual", "pushed"} /\ cert'.origin = "local" =>
                 HandedBack ]_vars

\* The client has what the server has, or a certificate of its own.
Synced == cert.origin \in {"manual", "local"} \/ cert.ver = srv

\* However replies, renewals and reconnects cross, the client ends up with the
\* server's certificate, at the latest when the old one is about to expire,
\* unless it is orphaned: the timer then finds no connection to ask.
Converges == <>[](Synced \/ Orphaned \/ Stuck)
=============================================================================
