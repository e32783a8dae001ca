---------------------------- MODULE GatewayTunnel ----------------------------
(***************************************************************************)
(* One gateway session between two proxies (src/src/tcp_gateway): a single *)
(* encrypted TCP connection that carries many tunnels.  Either side opens  *)
(* tunnels: it sends Connect, the other side dials the upstream and        *)
(* answers Connected, and from then on payloads go both ways until one end *)
(* sends ConnectionError.  Files are fetched over the same session.        *)
(*                                                                         *)
(* A tunnel is <<p, id>>: p opened it and counts ids for itself, so both   *)
(* <<client, id>> and <<server, id>> may exist, while frames carry the id  *)
(* alone.  chan[p] holds what p has sent and the other side's read loop    *)
(* has not handled: the mpsc queue of the write loop, its accumulator and  *)
(* the socket.  A send is refused when the session is down or the queue is *)
(* full; most callers ignore that.  A payload is a number.  Frames and     *)
(* their encryption are opaque; the peer's frames are well formed.  What   *)
(* the network does to the session is the loss of the connection, which    *)
(* both sides get to know; GatewayLink has silent links and reconnects.    *)
(***************************************************************************)
EXTENDS Naturals, Sequences, FiniteSets

CONSTANTS
    Ids,                     \* bound: connection ids each side uses
    Pieces,                  \* bound: Pieces[t], payloads each end of t sends
    Requesters,              \* bound: the sides that request a file
    WRITE_CHANNEL_CAPACITY

Sides == {"client", "server"}
Other(p) == IF p = "client" THEN "server" ELSE "client"

Tunnels == Sides \X Ids

ASSUME BoundsAssumption ==
    /\ Pieces \in [Tunnels -> Nat]
    /\ Requesters \subseteq Sides
    /\ WRITE_CHANNEL_CAPACITY \in Nat \ {0}

\* The side where tunnel t is forwarded to its upstream, and the tunnel the
\* other side knows by the same id.
Far(t) == Other(t[1])
Twin(t) == <<Far(t), t[2]>>

VARIABLES
    up,        \* up[p]: is_connected of p's end of the session
    reader,    \* reader[p]: gateway_read_loop runs
    link,      \* the TCP connection works
    dropped,   \* dropped[p]: the last reference to p's connection is gone
    allowed,   \* the sides that accept tunnels of the other one
    chan,      \* chan[p]: frames from p on their way
    user,      \* user[t]: whoever opened tunnel t
    handler,   \* handler[t]: t in forward_proxy_handlers
    recv, cut, \* t's ProxyReceiveBuffer: payloads, disconnected
    sent, got, \* payloads the user has sent and has read
    task,      \* task[t]: handle_forward_connect
    fwd,       \* fwd[t]: t is in forward_connections of Far(t)
    reading,   \* reading[t]: the read loop of t's upstream runs
    writing,   \* writing[t]: the upstream's write half is not disconnected
    upSent, put, \* payloads the upstream has sent and has been given
    file, serving, \* file[p]: p's request_file; serving[p]: p's serve_file
    lost,      \* history: tunnels a frame of which was refused unnoticed
    lostFile,  \* history: sides whose file request lost a frame that way
    early      \* history: tunnels that something reached before Register

sessionVars == <<up, reader, link, dropped, allowed>>
userVars == <<user, handler, recv, cut, sent, got>>
forwardVars == <<task, fwd, reading, writing, upSent, put>>
fileVars == <<file, serving, lostFile>>
vars == <<sessionVars, chan, userVars, forwardVars, fileVars, lost, early>>

UserStates ==
    {"idle", "waiting", "open", "closing", "closed", "ended", "failed",
     "refused", "abandoned"}

Frame(kind, id, n) == [kind |-> kind, id |-> id, n |-> n]

FrameKinds ==
    {"connect", "connected", "error", "forward", "backward", "getFile", "file"}

Init ==
    /\ up = [p \in Sides |-> TRUE]
    /\ reader = [p \in Sides |-> TRUE]
    /\ link = TRUE
    /\ dropped = [p \in Sides |-> FALSE]
    /\ allowed \in {Sides, {"server"}}   \* a client if it is configured to
    /\ chan = [p \in Sides |-> << >>]
    /\ user = [t \in Tunnels |-> "idle"]
    /\ handler = [t \in Tunnels |-> "none"]
    /\ recv = [t \in Tunnels |-> << >>]
    /\ cut = [t \in Tunnels |-> FALSE]
    /\ sent = [t \in Tunnels |-> 0]
    /\ got = [t \in Tunnels |-> << >>]
    /\ task = [t \in Tunnels |-> "none"]
    /\ fwd = [t \in Tunnels |-> FALSE]
    /\ reading = [t \in Tunnels |-> FALSE]
    /\ writing = [t \in Tunnels |-> FALSE]
    /\ upSent = [t \in Tunnels |-> 0]
    /\ put = [t \in Tunnels |-> << >>]
    /\ file = [p \in Sides |-> "idle"]
    /\ serving = [p \in Sides |-> FALSE]
    /\ lost = {}
    /\ lostFile = {}
    /\ early = {}

-----------------------------------------------------------------------------
(* Sending.  The write loop empties its queue of WRITE_CHANNEL_CAPACITY    *)
(* frames into an accumulator as it likes, so any frame on its way may     *)
(* still be in the queue.                                                  *)

Working(p) == up[p] /\ link

\* send_payload returned true.
Accept(p, f) ==
    /\ Working(p)
    /\ chan' = [chan EXCEPT ![p] = Append(@, f)]

\* send_payload returned false.
Refuse(p) ==
    /\ ~Working(p) \/ Len(chan[p]) >= WRITE_CHANNEL_CAPACITY
    /\ UNCHANGED chan

\* A send for tunnel t whose result the code ignores.
SendFor(t, p, f) ==
    \/ Accept(p, f) /\ UNCHANGED lost
    \/ /\ Refuse(p)
       /\ lost' = IF Working(p) THEN lost \cup {t} ELSE lost

\* The same for a file request of side q.
SendFile(q, p, f) ==
    \/ Accept(p, f) /\ UNCHANGED lostFile
    \/ /\ Refuse(p)
       /\ lostFile' = IF Working(p) THEN lostFile \cup {q} ELSE lostFile

\* TcpConnectionInner::disconnect: the sender is taken, and the write loop
\* ends without flushing what it has accumulated.
Shut(p) ==
    /\ up' = [up EXCEPT ![p] = FALSE]
    /\ \E n \in IF up[p] THEN 0 .. Len(chan[p]) ELSE {Len(chan[p])} :
          chan' = [chan EXCEPT ![p] = SubSeq(@, 1, n)]

-----------------------------------------------------------------------------
(* The end that opens a tunnel.                                            *)

\* connect_to_forward_proxy_connection up to the await of the answer.
Open(t) ==
    /\ user[t] = "idle" /\ reader[t[1]]
    /\ handler' = [handler EXCEPT ![t] = "ack"]
    /\ \/ /\ Accept(t[1], Frame("connect", t[2], 0))
          /\ user' = [user EXCEPT ![t] = "waiting"]
       \/ /\ Refuse(t[1])
          /\ user' = [user EXCEPT ![t] = "refused"]
    /\ UNCHANGED <<sessionVars, recv, cut, sent, got, forwardVars, fileVars,
                   lost, early>>

\* Mutant of AckFails: the handler of a failed attempt stays.
AckFailsKeepsHandler(t) ==
    /\ user[t] = "waiting"
    /\ ~up[t[1]] \/ handler[t] = "none"
    /\ user' = [user EXCEPT ![t] = "failed"]
    /\ UNCHANGED <<sessionVars, chan, handler, recv, cut, sent, got,
                   forwardVars, fileVars, lost, early>>

\* ack_connection finds the session lost or its handler gone: Err.
AckFails(t) ==
    /\ user[t] = "waiting"
    /\ ~up[t[1]] \/ handler[t] = "none"
    /\ user' = [user EXCEPT ![t] = "failed"]
    /\ handler' = [handler EXCEPT ![t] = "none"]
    /\ UNCHANGED <<sessionVars, chan, recv, cut, sent, got, forwardVars,
                   fileVars, lost, early>>

\* ack_connection finds the handler Connected: the caller gets a stream.
AckConnected(t) ==
    /\ user[t] = "waiting" /\ handler[t] = "connected"
    /\ user' = [user EXCEPT ![t] = "open"]
    /\ UNCHANGED <<sessionVars, chan, handler, recv, cut, sent, got,
                   forwardVars, fileVars, lost, early>>

\* The caller's future, or its stream, is dropped without a shutdown; neither
\* has a Drop of its own.
Abandon(t) ==
    /\ user[t] \in {"waiting", "open"}
    /\ user' = [user EXCEPT ![t] = "abandoned"]
    /\ UNCHANGED <<sessionVars, chan, handler, recv, cut, sent, got,
                   forwardVars, fileVars, lost, early>>

\* TcpGatewayProxyForwardStream::write_to_socket; a refused write is an Err.
Write(t) ==
    /\ user[t] = "open" /\ sent[t] < Pieces[t]
    /\ Accept(t[1], Frame("forward", t[2], sent[t] + 1))
    /\ sent' = [sent EXCEPT ![t] = @ + 1]
    /\ UNCHANGED <<sessionVars, user, handler, recv, cut, got, forwardVars,
                   fileVars, lost, early>>

\* ProxyReceiveBuffer::get_data: as many bytes as fit.
Read(t) ==
    /\ user[t] = "open" /\ ~cut[t] /\ recv[t] # << >>
    /\ \E n \in 1 .. Len(recv[t]) :
          /\ got' = [got EXCEPT ![t] = @ \o SubSeq(recv[t], 1, n)]
          /\ recv' = [recv EXCEPT ![t] = SubSeq(@, n + 1, Len(@))]
    /\ UNCHANGED <<sessionVars, chan, user, handler, cut, sent, forwardVars,
                   fileVars, lost, early>>

\* get_data looks at `disconnected` first: Err, and what is buffered is gone.
ReadEnds(t) ==
    /\ user[t] = "open" /\ cut[t]
    /\ user' = [user EXCEPT ![t] = "ended"]
    /\ UNCHANGED <<sessionVars, chan, handler, recv, cut, sent, got,
                   forwardVars, fileVars, lost, early>>

\* TcpGatewayProxyForwardStream::disconnect, if nobody has cut the stream yet:
\* tell the peer and spawn the removal of the handler.  Otherwise nothing.
Close(t) ==
    /\ user[t] = "open"
    /\ user' = [user EXCEPT ![t] = IF cut[t] THEN "closed" ELSE "closing"]
    /\ cut' = [cut EXCEPT ![t] = TRUE]
    /\ IF cut[t]
          THEN UNCHANGED <<chan, lost>>
          ELSE SendFor(t, t[1], Frame("error", t[2], 0))
    /\ UNCHANGED <<sessionVars, handler, recv, sent, got, forwardVars,
                   fileVars, early>>

\* The spawned removal.
Reap(t) ==
    /\ user[t] = "closing"
    /\ user' = [user EXCEPT ![t] = "closed"]
    /\ handler' = [handler EXCEPT ![t] = "none"]
    /\ UNCHANGED <<sessionVars, chan, recv, cut, sent, got, forwardVars,
                   fileVars, lost, early>>

-----------------------------------------------------------------------------
(* The packet handlers: p's read loop handles the next frame of its peer.  *)

Incoming(p, kind) ==
    /\ reader[p] /\ chan[Other(p)] # << >>
    /\ Head(chan[Other(p)]).kind = kind

\* The frame is off the channel.
Handled(p) == chan' = [chan EXCEPT ![Other(p)] = Tail(@)]

\* Handle the frame and answer with f, for tunnel t, ignoring a refusal.
HandledWith(p, t, f) ==
    \/ /\ Working(p)
       /\ chan' = [chan EXCEPT ![Other(p)] = Tail(@), ![p] = Append(@, f)]
       /\ UNCHANGED lost
    \/ /\ ~Working(p) \/ Len(chan[p]) >= WRITE_CHANNEL_CAPACITY
       /\ Handled(p)
       /\ lost' = IF Working(p) THEN lost \cup {t} ELSE lost

\* Connect: a client that does not accept tunnels says so, otherwise a task
\* is spawned (has_forward_connection is false: p's peer never reuses an id).
OnConnect(p) ==
    /\ Incoming(p, "connect")
    /\ LET id == Head(chan[Other(p)]).id
           t == <<Other(p), id>>
       IN IF p \in allowed
          THEN /\ task' = [task EXCEPT ![t] = "dialing"]
               /\ Handled(p)
               /\ UNCHANGED lost
          ELSE /\ HandledWith(p, t, Frame("error", id, 0))
               /\ UNCHANGED task
    /\ UNCHANGED <<sessionVars, userVars, fwd, reading, writing, upSent, put,
                   fileVars, early>>

\* notify_forward_proxy_connection_accepted.
OnConnected(p) ==
    /\ Incoming(p, "connected")
    /\ LET t == <<p, Head(chan[Other(p)]).id>>
       IN handler' = [handler EXCEPT ![t] = IF @ = "ack" THEN "connected" ELSE @]
    /\ Handled(p)
    /\ UNCHANGED <<sessionVars, user, recv, cut, sent, got, forwardVars,
                   fileVars, lost, early>>

\* disconnect_forward_proxy_connection: the id may be that of a tunnel p has
\* opened, and also that of one p forwards; both are taken down.
OnError(p) ==
    /\ Incoming(p, "error")
    /\ LET id == Head(chan[Other(p)]).id
           own == <<p, id>>
           theirs == <<Other(p), id>>
       IN /\ handler' = [handler EXCEPT ![own] = "none"]
          /\ cut' = [cut EXCEPT ![own] = @ \/ handler[own] # "none"]
          /\ fwd' = [fwd EXCEPT ![theirs] = FALSE]
          /\ writing' = [writing EXCEPT ![theirs] = @ /\ ~fwd[theirs]]
          /\ early' = IF task[theirs] \in {"dialing", "starting"}
                      THEN early \cup {theirs} ELSE early
    /\ Handled(p)
    /\ UNCHANGED <<sessionVars, user, recv, sent, got, task, reading, upSent,
                   put, fileVars, lost>>

\* Mutant of OnForward: the opener is told, but the entry stays.
OnForwardKeepsEntry(p) ==
    /\ Incoming(p, "forward")
    /\ LET f == Head(chan[Other(p)])
           t == <<Other(p), f.id>>
       IN HandledWith(p, t, Frame("error", f.id, 0))
    /\ UNCHANGED <<sessionVars, userVars, forwardVars, fileVars, early>>

\* forward_payload: an unknown id is ignored; a write half that is closed, or
\* whose queue is full, is disconnected and the opener is told.
OnForward(p) ==
    /\ Incoming(p, "forward")
    /\ LET f == Head(chan[Other(p)])
           t == <<Other(p), f.id>>
       IN \/ /\ ~fwd[t]
             /\ early' = IF task[t] = "starting" THEN early \cup {t} ELSE early
             /\ Handled(p)
             /\ UNCHANGED <<fwd, writing, put, lost>>
          \/ /\ fwd[t] /\ writing[t]
             /\ put' = [put EXCEPT ![t] = Append(@, f.n)]
             /\ Handled(p)
             /\ UNCHANGED <<fwd, writing, lost, early>>
          \/ /\ fwd[t]
             /\ writing' = [writing EXCEPT ![t] = FALSE]
             /\ fwd' = [fwd EXCEPT ![t] = FALSE]
             /\ HandledWith(p, t, Frame("error", f.id, 0))
             /\ UNCHANGED <<put, early>>
    /\ UNCHANGED <<sessionVars, userVars, task, reading, upSent, fileVars>>

\* Mutant of OnBackward: the arm calls forward_payload, so the payload goes to
\* the upstream of the tunnel p forwards under that id.
OnBackwardAsForward(p) ==
    /\ Incoming(p, "backward")
    /\ LET f == Head(chan[Other(p)])
           t == <<Other(p), f.id>>
       IN put' = [put EXCEPT ![t] =
                     IF fwd[t] /\ writing[t] THEN Append(@, f.n) ELSE @]
    /\ Handled(p)
    /\ UNCHANGED <<sessionVars, userVars, task, fwd, reading, writing, upSent,
                   fileVars, lost, early>>

\* incoming_payload_for_proxy_connection: kept only for a Connected handler.
OnBackward(p) ==
    /\ Incoming(p, "backward")
    /\ LET f == Head(chan[Other(p)])
           t == <<p, f.id>>
       IN recv' = [recv EXCEPT ![t] =
                      IF handler[t] = "connected" THEN Append(@, f.n) ELSE @]
    /\ Handled(p)
    /\ UNCHANGED <<sessionVars, user, handler, cut, sent, got, forwardVars,
                   fileVars, lost, early>>

-----------------------------------------------------------------------------
(* The end that forwards a tunnel: handle_forward_connect and the read     *)
(* loop of the upstream.                                                   *)

\* The dial succeeds: send Connected, start the read loop.
DialOk(t) ==
    /\ task[t] = "dialing"
    /\ task' = [task EXCEPT ![t] = "starting"]
    /\ reading' = [reading EXCEPT ![t] = TRUE]
    /\ writing' = [writing EXCEPT ![t] = TRUE]
    /\ SendFor(t, Far(t), Frame("connected", t[2], 0))
    /\ UNCHANGED <<sessionVars, userVars, fwd, upSent, put, fileVars, early>>

\* The dial fails or times out: the forced error.
DialFails(t) ==
    /\ task[t] = "dialing"
    /\ task' = [task EXCEPT ![t] = "done"]
    /\ SendFor(t, Far(t), Frame("error", t[2], 0))
    /\ UNCHANGED <<sessionVars, userVars, fwd, reading, writing, upSent, put,
                   fileVars, early>>

\* Only now add_forward_connection.
Register(t) ==
    /\ task[t] = "starting"
    /\ task' = [task EXCEPT ![t] = "done"]
    /\ fwd' = [fwd EXCEPT ![t] = TRUE]
    /\ UNCHANGED <<sessionVars, chan, userVars, reading, writing, upSent, put,
                   fileVars, lost, early>>

\* The upstream sends: send_backward_payload, for a registered tunnel only.
UpstreamData(t) ==
    /\ reading[t] /\ upSent[t] < Pieces[t]
    /\ upSent' = [upSent EXCEPT ![t] = @ + 1]
    /\ IF fwd[t]
          THEN /\ SendFor(t, Far(t), Frame("backward", t[2], upSent[t] + 1))
               /\ UNCHANGED early
          ELSE /\ early' = IF task[t] = "starting" THEN early \cup {t} ELSE early
               /\ UNCHANGED <<chan, lost>>
    /\ UNCHANGED <<sessionVars, userVars, task, fwd, reading, writing, put,
                   fileVars>>

\* The upstream closes, or reading fails, which also disconnects the write
\* half: send_connection_error, unforced, for a registered tunnel only.
UpstreamEnds(t) ==
    /\ reading[t]
    /\ reading' = [reading EXCEPT ![t] = FALSE]
    /\ \E err \in BOOLEAN : writing' = [writing EXCEPT ![t] = @ /\ ~err]
    /\ fwd' = [fwd EXCEPT ![t] = FALSE]
    /\ IF fwd[t]
          THEN /\ SendFor(t, Far(t), Frame("error", t[2], 0))
               /\ UNCHANGED early
          ELSE /\ early' = IF task[t] = "starting" THEN early \cup {t} ELSE early
               /\ UNCHANGED <<chan, lost>>
    /\ UNCHANGED <<sessionVars, userVars, task, upSent, put, fileVars>>

-----------------------------------------------------------------------------
(* Files.                                                                  *)

\* request_file: registers the completion and sends; a refusal is ignored.
RequestFile(p) ==
    /\ p \in Requesters /\ file[p] = "idle" /\ reader[p]
    /\ file' = [file EXCEPT ![p] = "waiting"]
    /\ SendFile(p, p, Frame("getFile", 0, 0))
    /\ UNCHANGED <<sessionVars, userVars, forwardVars, serving, lost, early>>

\* serve_file is spawned.
OnGetFile(p) ==
    /\ Incoming(p, "getFile")
    /\ serving' = [serving EXCEPT ![p] = TRUE]
    /\ Handled(p)
    /\ UNCHANGED <<sessionVars, userVars, forwardVars, file, lostFile, lost,
                   early>>

\* The file is read, or is not there; either is answered.
ServeFile(p) ==
    /\ serving[p]
    /\ serving' = [serving EXCEPT ![p] = FALSE]
    /\ SendFile(Other(p), p, Frame("file", 0, 0))
    /\ UNCHANGED <<sessionVars, userVars, forwardVars, file, lost, early>>

\* notify_file_response.
OnFile(p) ==
    /\ Incoming(p, "file")
    /\ file' = [file EXCEPT ![p] = "done"]
    /\ Handled(p)
    /\ UNCHANGED <<sessionVars, userVars, forwardVars, serving, lostFile, lost,
                   early>>

-----------------------------------------------------------------------------
(* The session.                                                            *)

\* The TCP connection breaks; what is on its way is lost.
LinkBreaks ==
    /\ link
    /\ link' = FALSE
    /\ chan' = [p \in Sides |-> << >>]
    /\ UNCHANGED <<up, reader, dropped, allowed, userVars, forwardVars,
                   fileVars, lost, early>>

\* The client's ping loop: nothing has come in for more than nine seconds.
PingTimeout ==
    /\ up["client"]
    /\ Shut("client")
    /\ UNCHANGED <<reader, link, dropped, allowed, userVars, forwardVars,
                   fileVars, lost, early>>

\* Mutant of ReaderEnds: the session is not disconnected.
ReaderEndsUp(p) ==
    /\ reader[p]
    /\ ~link \/ (~up[Other(p)] /\ chan[Other(p)] = << >>)
    /\ reader' = [reader EXCEPT ![p] = FALSE]
    /\ UNCHANGED <<up, chan, link, dropped, allowed, userVars, forwardVars,
                   fileVars, lost, early>>

\* gateway_read_loop ends with the connection, or when the peer's write loop
\* has shut it and everything before that is read.
ReaderEnds(p) ==
    /\ reader[p]
    /\ ~link \/ (~up[Other(p)] /\ chan[Other(p)] = << >>)
    /\ reader' = [reader EXCEPT ![p] = FALSE]
    /\ Shut(p)
    /\ UNCHANGED <<link, dropped, allowed, userVars, forwardVars, fileVars, lost,
                   early>>

\* What keeps a reference to p's TcpGatewayConnection besides its read loop
\* (which leaves only after the map has let go of it, like the ping loop).
\* An entry of forward_connections is part of a cycle: it owns a reference to
\* the connection that owns the map.
Pinned(p) ==
    \/ \E t \in Tunnels : Far(t) = p /\
          (fwd[t] \/ reading[t] \/ task[t] \in {"dialing", "starting"})
    \/ \E t \in Tunnels : t[1] = p /\ user[t] = "waiting"
    \/ file[p] = "waiting" \/ serving[p]

\* Mutant of DropConnection: only the forwarded connections are closed.
DropForwardsOnly(p) ==
    /\ ~reader[p] /\ ~dropped[p] /\ ~Pinned(p)
    /\ dropped' = [dropped EXCEPT ![p] = TRUE]
    /\ UNCHANGED <<up, reader, link, allowed, chan, userVars, forwardVars,
                   fileVars, lost, early>>

\* Drop for TcpGatewayConnection: every stream opened over it is cut.
DropConnection(p) ==
    /\ ~reader[p] /\ ~dropped[p] /\ ~Pinned(p)
    /\ dropped' = [dropped EXCEPT ![p] = TRUE]
    /\ cut' = [t \in Tunnels |-> cut[t] \/ (t[1] = p /\ handler[t] # "none")]
    /\ handler' = [t \in Tunnels |-> IF t[1] = p THEN "none" ELSE handler[t]]
    /\ UNCHANGED <<up, reader, link, allowed, chan, user, recv, sent, got,
                   forwardVars, fileVars, lost, early>>

-----------------------------------------------------------------------------
Receive(p) ==
    \/ OnConnect(p) \/ OnConnected(p) \/ OnError(p)
    \/ OnForward(p) \/ OnBackward(p)
    \/ OnGetFile(p) \/ OnFile(p)

Dial(t) == DialOk(t) \/ DialFails(t)

Next ==
    \/ \E t \in Tunnels :
          \/ Open(t) \/ AckFails(t) \/ AckConnected(t) \/ Abandon(t)
          \/ Write(t) \/ Read(t) \/ ReadEnds(t) \/ Close(t) \/ Reap(t)
          \/ Dial(t) \/ Register(t) \/ UpstreamData(t) \/ UpstreamEnds(t)
    \/ \E p \in Sides :
          \/ Receive(p) \/ RequestFile(p) \/ ServeFile(p)
          \/ ReaderEnds(p) \/ DropConnection(p)
    \/ LinkBreaks \/ PingTimeout

Spec == Init /\ [][Next]_vars

\* tokio runs ready tasks, a dial has a timeout, a broken or shut connection is
\* reported to its reader, the last reference is dropped.  Nothing is assumed
\* of users, upstreams, or the network.
FairSpec ==
    /\ Spec
    /\ \A t \in Tunnels :
          /\ WF_vars(AckFails(t)) /\ WF_vars(AckConnected(t))
          /\ WF_vars(ReadEnds(t)) /\ WF_vars(Reap(t))
          /\ WF_vars(Dial(t)) /\ WF_vars(Register(t))
    /\ \A p \in Sides :
          /\ WF_vars(Receive(p)) /\ WF_vars(ServeFile(p))
          /\ WF_vars(ReaderEnds(p)) /\ WF_vars(DropConnection(p))

-----------------------------------------------------------------------------
(* Properties.                                                             *)

\* Every variable has its type.
TypeOK ==
    /\ up \in [Sides -> BOOLEAN] /\ reader \in [Sides -> BOOLEAN]
    /\ link \in BOOLEAN /\ dropped \in [Sides -> BOOLEAN]
    /\ allowed \subseteq Sides
    /\ chan \in [Sides -> Seq([kind : FrameKinds, id : Ids \cup {0}, n : Nat])]
    /\ user \in [Tunnels -> UserStates]
    /\ handler \in [Tunnels -> {"none", "ack", "connected"}]
    /\ recv \in [Tunnels -> Seq(Nat)] /\ got \in [Tunnels -> Seq(Nat)]
    /\ put \in [Tunnels -> Seq(Nat)]
    /\ sent \in [Tunnels -> Nat] /\ upSent \in [Tunnels -> Nat]
    /\ cut \in [Tunnels -> BOOLEAN]
    /\ task \in [Tunnels -> {"none", "dialing", "starting", "done"}]
    /\ fwd \in [Tunnels -> BOOLEAN]
    /\ reading \in [Tunnels -> BOOLEAN] /\ writing \in [Tunnels -> BOOLEAN]
    /\ file \in [Sides -> {"idle", "waiting", "done"}]
    /\ serving \in [Sides -> BOOLEAN]
    /\ lost \subseteq Tunnels /\ early \subseteq Tunnels
    /\ lostFile \subseteq Sides

\* Nothing of tunnel t was thrown away on the way.
Undisturbed(t) == t \notin lost \cup early

\* seq is 1, 2, ... up to at most n.
Prefix(seq, n) == Len(seq) <= n /\ \A i \in 1 .. Len(seq) : seq[i] = i

\* What each end of a tunnel gets is what the other end has sent, in order and
\* from the first byte on, and nothing of the tunnel with the same id in the
\* other direction: unless a refused or an early frame left a hole.
InOrder ==
    \A t \in Tunnels : Undisturbed(t) =>
        /\ Prefix(got[t] \o recv[t], upSent[t])
        /\ Prefix(put[t], sent[t])

\* An open stream is cut while its upstream is still connected only if the
\* other side has used the same id, or the whole session was dropped
\* (disconnect_forward_proxy_connection).
OnlyTwinCuts ==
    \A t \in Tunnels : user[t] = "open" /\ cut[t] /\ fwd[t] =>
        user[Twin(t)] # "idle" \/ dropped[t[1]]

\* The registry of handlers leaks an entry only for a Connect that was refused
\* and for a caller that went away (connect_to_forward_proxy_connection).
NoStaleHandler ==
    \A t \in Tunnels : handler[t] # "none" =>
        user[t] \in {"waiting", "open", "closing", "refused", "abandoned"}

\* A registered tunnel has an upstream that is read, unless that one closed
\* before it was registered (handle_forward_connect starts the read loop
\* first).
NoDeadEntry == \A t \in Tunnels : fwd[t] => reading[t] \/ t \in early

\* Every variable has its type, and both registries of a session hold only
\* tunnels somebody still uses, but for the named leaks.
TunnelSound == TypeOK /\ NoStaleHandler /\ NoDeadEntry

\* Opening a tunnel ends, well or badly, unless the answer was refused
\* unnoticed (ack_connection has no timeout).
ConnectReturns ==
    \A t \in Tunnels : user[t] = "waiting" ~> user[t] # "waiting" \/ t \in lost

\* A user that closes its stream frees the upstream on the other side, as long
\* as the session lives and nothing disturbed the tunnel.
CloseReachesUpstream ==
    \A t \in Tunnels : user[t] = "closing" ~>
        \/ ~fwd[t] /\ task[t] \notin {"dialing", "starting"}
        \/ ~Undisturbed(t) \/ ~link \/ \E p \in Sides : ~up[p]

\* A tunnel whose forwarding end is gone does not leave its user waiting for
\* data, as long as the session lives, nothing disturbed the tunnel, and the
\* other side has not used the same id: the error of that tunnel takes this
\* forwarding end down as well, and nobody tells its user.
EndReachesUser ==
    \A t \in Tunnels : user[t] = "open" /\ task[t] = "done" /\ ~fwd[t] ~>
        \/ user[t] # "open" \/ user[Twin(t)] # "idle"
        \/ ~Undisturbed(t) \/ ~link \/ \E p \in Sides : ~up[p]

\* When the session is lost every stream opened over it ends, unless this
\* side forwards a tunnel whose upstream stays open, or waits for a file, and
\* so keeps the connection from being dropped.
LossReachesUser ==
    \A t \in Tunnels :
        user[t] = "open" /\ ~reader[t[1]] /\ ~Pinned(t[1]) ~> user[t] # "open"

\* The end of a tunnel, at either end or of the whole session, arrives at the
\* other end, but for the named exceptions (disconnect, disconnect_gateway, Drop).
EndsArrive == CloseReachesUpstream /\ EndReachesUser /\ LossReachesUser

\* A file request is answered as long as the session lives and none of its
\* frames was refused.
FileAnswered ==
    \A p \in Sides : file[p] = "waiting" ~>
        file[p] = "done" \/ p \in lostFile \/ ~link \/ \E q \in Sides : ~up[q]

\* Whoever awaits an answer of the peer without a timeout gets it, but for the
\* named exceptions (ack_connection, request_file).
WaitersReturn == ConnectReturns /\ FileAnswered
=============================================================================
