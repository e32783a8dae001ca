----------------------------- MODULE H1Pipeline -----------------------------
(***************************************************************************)
(* One HTTP/1 client connection on the byte path of the proxy              *)
(* (src/src/h1_proxy_server/pipeline).  Three kinds of tasks share it:     *)
(*   - the reader parses requests, answers some of them itself, reserves a *)
(*     response slot for each of the others, spawns its worker and streams *)
(*     the request body to it;                                             *)
(*   - a worker per request delivers it to the upstream, replaying it once *)
(*     while that is invisible, and streams the response into its slot;    *)
(*   - the writer, sole owner of the client's write half, empties the      *)
(*     slots in the order they were reserved.                              *)
(* Upstream connections are parked between requests in a pool that belongs *)
(* to this client connection (h1_remote_connection).                       *)
(*                                                                         *)
(* A body is a number of pieces; a piece is what one write carries.  A     *)
(* read or write of a socket ends with data, with an error or with a       *)
(* timeout, whichever the peer likes.  One step is one send or receive on  *)
(* a channel or the end of one await on a socket.                          *)
(***************************************************************************)
EXTENDS Integers, Sequences, FiniteSets

CONSTANTS
    MaxRequests,   \* bound: requests the client sends on the connection
    MaxBody,       \* bound: pieces of a request body
    MaxChunks,     \* bound: pieces of a response body
    Kinds,         \* what the requests of this run ask for
    REPLAY_WINDOW, \* pieces of a body kept for a replay
    MAX_DELIVERY_ATTEMPTS,
    RESPONSE_QUEUE_CAPACITY, RESPONSE_CHANNEL_CAPACITY,
    REQUEST_BODY_CHANNEL_CAPACITY

ASSUME BoundAssumption ==
    MaxRequests \in Nat \ {0} /\ MaxBody \in Nat /\ MaxChunks \in Nat
ASSUME CapacityAssumption ==
    /\ REPLAY_WINDOW \in Nat
    /\ MAX_DELIVERY_ATTEMPTS \in Nat \ {0}
    /\ RESPONSE_QUEUE_CAPACITY \in Nat \ {0}
    /\ RESPONSE_CHANNEL_CAPACITY \in Nat \ {0}
    /\ REQUEST_BODY_CHANNEL_CAPACITY \in Nat \ {0}

\* What the reader makes of a request: no answer at all (a drop location, an
\* unknown host, a broken head), an error page, an answer of the oauth gate,
\* a static or local file, a websocket upgrade, a proxied request.
AllKinds == {"drop", "error", "oauth", "static", "upgrade", "http1", "mcp"}

ASSUME KindsAssumption == Kinds \subseteq AllKinds

Requests == 1 .. MaxRequests

\* The two upstreams of the run: connection_key of http1 and mcp differ.
Upstreams == {"http1", "mcp"}

VARIABLES
    rpc, cur,              \* the reader and the request it works on
    kind, size,            \* what request r is, pieces of its body
    keep,                  \* keep_alive of cur's endpoint
    unread,                \* pieces of cur's body still in the client's socket
    queue,                 \* slots reserved and not yet taken by the writer
    writer, slot,          \* the writer and the slot it empties
    events,                \* events[r]: r's response channel
    out,                   \* out[r]: how much of response r the client has
    body,                  \* body[r]: pieces in r's request body channel
    wpc, attempt, conn,    \* r's worker, its attempt, the connection it owns
    taken, put, completed, \* pieces taken from the channel, on the connection
    discarded,             \* pieces thrown away after a failure
    left, framing,         \* response pieces to come, how they are delimited
    pools                  \* pools[u]: the parked connection of upstream u

readerVars == <<rpc, cur, kind, keep, size, unread>>
writerVars == <<writer, slot, out>>
workVars == <<wpc, attempt, conn, taken, put, completed, discarded, left,
              framing>>
vars == <<readerVars, queue, writerVars, events, body, workVars, pools>>

ReaderPC == {"head", "drain", "emit", "slot", "body", "close", "closed",
             "upgrade", "wsDial", "wsHead", "wsResponse", "wsRelay", "wsBody",
             "wsShut", "tunnel", "halfTunnel"}

WorkerPC == {"none", "acquire", "dial", "head", "resend", "stream",
             "response", "emitHead", "relay", "park", "fail", "page",
             "pageEnd", "abort", "end"}

\* A connection is dirty when the request written on it is not complete or
\* bytes of its response are still to come.
Conns == {"none", "fresh", "clean", "dirty"}

-----------------------------------------------------------------------------
(* The channels.                                                           *)

\* The reader has dropped queue_tx.
QueueClosed == rpc \in {"close", "closed", "upgrade", "wsDial", "wsHead",
                        "wsResponse", "wsRelay", "wsBody", "wsShut",
                        "tunnel", "halfTunnel"}

\* The writer's end of the queue exists.
WriterAlive == writer \in {"idle", "slot"}

CanReserve == WriterAlive /\ Len(queue) < RESPONSE_QUEUE_CAPACITY

\* Someone will still receive r's events: its slot is queued or being emptied.
Listening(r) ==
    \/ WriterAlive /\ \E i \in 1 .. Len(queue) : queue[i] = r
    \/ writer = "slot" /\ slot = r

\* Mutant of CanEmit: an unbounded channel.
CanEmitUnbounded(r) == Listening(r)

CanEmit(r) == Listening(r) /\ Len(events[r]) < RESPONSE_CHANNEL_CAPACITY

\* The reader holds body_tx of r.
BodyOpen(r) == rpc = "body" /\ cur = r

\* r's worker holds body_rx.
BodyWanted(r) == wpc[r] \notin {"none", "end"}

-----------------------------------------------------------------------------
Init ==
    /\ rpc = "head" /\ cur = 0 /\ unread = 0
    /\ kind = [r \in Requests |-> "drop"]
    /\ keep = FALSE
    /\ size = [r \in Requests |-> 0]
    /\ queue = << >>
    /\ writer = "idle" /\ slot = 0
    /\ events = [r \in Requests |-> << >>]
    /\ out = [r \in Requests |-> "none"]
    /\ body = [r \in Requests |-> 0]
    /\ wpc = [r \in Requests |-> "none"]
    /\ attempt = [r \in Requests |-> 0]
    /\ conn = [r \in Requests |-> "none"]
    /\ taken = [r \in Requests |-> 0]
    /\ put = [r \in Requests |-> 0]
    /\ completed = [r \in Requests |-> FALSE]
    /\ discarded = [r \in Requests |-> 0]
    /\ left = [r \in Requests |-> 0]
    /\ framing = [r \in Requests |-> "none"]
    /\ pools = [u \in Upstreams |-> "none"]

-----------------------------------------------------------------------------
(* The reader: read_and_dispatch.                                          *)

FirstStep(k) ==
    CASE k = "drop"               -> "close"
      [] k = "error"              -> "emit"
      [] k \in {"oauth", "static"} -> "drain"
      [] k = "upgrade"            -> "upgrade"
      [] k \in Upstreams          -> "slot"

\* read_headers and everything up to the decision what the request is.  When
\* body pieces of the request before are still in the socket they are parsed
\* as a head; what they parse as is any request.
ReadHead ==
    /\ rpc = "head" /\ cur < MaxRequests
    /\ \E k \in Kinds, n \in 0 .. MaxBody, alive \in BOOLEAN :
          /\ kind' = [kind EXCEPT ![cur + 1] = k]
          /\ size' = [size EXCEPT ![cur + 1] = n]
          /\ keep' = alive
          /\ unread' = n
          /\ rpc' = FirstStep(k)
    /\ cur' = cur + 1
    /\ UNCHANGED <<queue, writerVars, events, body, workVars, pools>>

\* The client is gone, or silent for read_timeout.
ReadHeadFails ==
    /\ rpc = "head"
    /\ rpc' = "close"
    /\ UNCHANGED <<cur, kind, keep, size, unread, queue, writerVars, events,
                   body, workVars, pools>>

\* A body nobody wants is read into a NullSink or a BodyCollectorSink.
Drain ==
    /\ rpc = "drain" /\ unread > 0
    /\ unread' = unread - 1
    /\ UNCHANGED <<rpc, cur, kind, keep, size, queue, writerVars, events,
                   body, workVars, pools>>

Drained ==
    /\ rpc = "drain" /\ unread = 0
    /\ rpc' = "emit"
    /\ UNCHANGED <<cur, kind, keep, size, unread, queue, writerVars, events,
                   body, workVars, pools>>

\* The drain fails: the oauth gate closes, static and file answers go on.
DrainFails ==
    /\ rpc = "drain" /\ unread > 0
    /\ rpc' = IF kind[cur] = "oauth" THEN "close" ELSE "emit"
    /\ UNCHANGED <<cur, kind, keep, size, unread, queue, writerVars, events,
                   body, workVars, pools>>

\* emit_single_response and respond_error: a slot with a complete response.
\* Its channel of capacity 2 takes both events without waiting.
Emit ==
    /\ rpc = "emit" /\ CanReserve
    /\ queue' = Append(queue, cur)
    /\ events' = [events EXCEPT ![cur] = <<"chunk", "done">>]
    /\ rpc' = IF keep /\ kind[cur] # "error" THEN "head" ELSE "close"
    /\ UNCHANGED <<cur, kind, keep, size, unread, writerVars, body, workVars,
                   pools>>

\* Reserve the slot of a proxied request and spawn its worker.
Reserve ==
    /\ rpc = "slot" /\ CanReserve
    /\ queue' = Append(queue, cur)
    /\ wpc' = [wpc EXCEPT ![cur] = "acquire"]
    /\ rpc' = "body"
    /\ UNCHANGED <<cur, kind, keep, size, unread, writerVars, events, body,
                   attempt, conn, taken, put, completed, discarded, left,
                   framing, pools>>

\* The writer is gone: no slot can be had.
NoWriter ==
    /\ rpc \in {"emit", "slot"} /\ ~WriterAlive
    /\ rpc' = "close"
    /\ UNCHANGED <<cur, kind, keep, size, unread, queue, writerVars, events,
                   body, workVars, pools>>

\* transfer_body into the BodyChannelSink.
SendBody ==
    /\ rpc = "body" /\ unread > 0
    /\ BodyWanted(cur) /\ body[cur] < REQUEST_BODY_CHANNEL_CAPACITY
    /\ unread' = unread - 1
    /\ body' = [body EXCEPT ![cur] = @ + 1]
    /\ UNCHANGED <<rpc, cur, kind, keep, size, queue, writerVars, events,
                   workVars, pools>>

BodySent ==
    /\ rpc = "body" /\ unread = 0
    /\ rpc' = IF keep THEN "head" ELSE "close"
    /\ UNCHANGED <<cur, kind, keep, size, unread, queue, writerVars, events,
                   body, workVars, pools>>

\* The client stops sending in the middle of a body, or the worker is gone.
SendBodyFails ==
    /\ rpc = "body" /\ unread > 0
    /\ rpc' = "close"
    /\ UNCHANGED <<cur, kind, keep, size, unread, queue, writerVars, events,
                   body, workVars, pools>>

\* serve_reverse_proxy_pipelined: queue_tx is dropped, the writer awaited.
Close ==
    /\ rpc = "close" /\ ~WriterAlive
    /\ rpc' = "closed"
    /\ UNCHANGED <<cur, kind, keep, size, unread, queue, writerVars, events,
                   body, workVars, pools>>

-----------------------------------------------------------------------------
(* The websocket tunnel: run_ws_tunnel on the reader's task.               *)

\* The writer has handed back the write half, or has closed the connection.
Upgrade ==
    /\ rpc = "upgrade" /\ ~WriterAlive
    /\ rpc' = IF writer = "returned" THEN "wsDial" ELSE "closed"
    /\ UNCHANGED <<cur, kind, keep, size, unread, queue, writerVars, events,
                   body, workVars, pools>>

WsStep(from, to) ==
    /\ rpc = from /\ rpc' = to
    /\ UNCHANGED <<cur, kind, keep, size, unread, queue, writerVars, events,
                   body, workVars, pools>>

WsDialled == WsStep("wsDial", "wsHead")
WsHeadSent == WsStep("wsHead", "wsResponse")
WsResponse == WsStep("wsResponse", "wsRelay")

\* The response head reaches the client: 101 starts the two pumps, anything
\* else is relayed as a plain response.
WsRelay ==
    /\ rpc = "wsRelay"
    /\ out' = [out EXCEPT ![cur] = "part"]
    /\ \E next \in {"tunnel", "wsBody"} : rpc' = next
    /\ UNCHANGED <<cur, kind, keep, size, unread, queue, writer, slot, events,
                   body, workVars, pools>>

\* The body of a refused upgrade is relayed, whole or not.
WsRefused ==
    /\ rpc = "wsBody"
    /\ \E stage \in {"part", "whole"} : out' = [out EXCEPT ![cur] = stage]
    /\ rpc' = "wsShut"
    /\ UNCHANGED <<cur, kind, keep, size, unread, queue, writer, slot, events,
                   body, workVars, pools>>

\* A failed dial, write or read of the upstream or of the client.
WsFails ==
    /\ rpc \in {"wsDial", "wsHead", "wsResponse", "wsRelay"}
    /\ rpc' = "closed"
    /\ \E stage \in IF rpc = "wsRelay" THEN {"none", "part"} ELSE {"none"} :
          out' = [out EXCEPT ![cur] = stage]
    /\ UNCHANGED <<cur, kind, keep, size, unread, queue, writer, slot, events,
                   body, workVars, pools>>

\* copy_streams: one of the two pumps ends, later the other.
PumpEnds == WsStep("tunnel", "halfTunnel")
TunnelEnds == WsStep("halfTunnel", "closed")

WsShutdown == WsStep("wsShut", "closed")

-----------------------------------------------------------------------------
(* The writer: run_client_writer.                                          *)

TakeSlot ==
    /\ writer = "idle" /\ queue # << >>
    /\ slot' = Head(queue)
    /\ queue' = Tail(queue)
    /\ writer' = "slot"
    /\ UNCHANGED <<readerVars, events, out, body, workVars, pools>>

\* The queue is closed and empty: flush and hand the write half back.
WriterReturns ==
    /\ writer = "idle" /\ queue = << >> /\ QueueClosed
    /\ writer' = "returned"
    /\ UNCHANGED <<readerVars, queue, slot, events, out, body, workVars, pools>>

Received(e) ==
    /\ writer = "slot" /\ events[slot] # << >> /\ Head(events[slot]) = e

WriteChunk ==
    /\ Received("chunk")
    /\ events' = [events EXCEPT ![slot] = Tail(@)]
    /\ out' = [out EXCEPT ![slot] = "part"]
    /\ UNCHANGED <<readerVars, queue, writer, slot, body, workVars, pools>>

FinishSlot ==
    /\ Received("done")
    /\ events' = [events EXCEPT ![slot] = << >>]
    /\ out' = [out EXCEPT ![slot] = "whole"]
    /\ writer' = "idle" /\ slot' = 0
    /\ UNCHANGED <<readerVars, queue, body, workVars, pools>>

\* The writer gives the connection up; every slot is dropped with the queue.
GiveUp ==
    /\ writer' = "closed" /\ slot' = 0
    /\ queue' = << >>
    /\ events' = [r \in Requests |-> << >>]
    /\ UNCHANGED <<readerVars, body, workVars, pools>>

\* The client does not take the bytes, or only some of them.
WriteFails ==
    /\ Received("chunk")
    /\ \E stage \in {out[slot], "part"} : out' = [out EXCEPT ![slot] = stage]
    /\ GiveUp

\* Mutant of AbortSlot: on to the next slot, as after Done.
AbortSlotAdvances ==
    /\ Received("abort")
    /\ events' = [events EXCEPT ![slot] = << >>]
    /\ writer' = "idle" /\ slot' = 0
    /\ UNCHANGED <<readerVars, queue, out, body, workVars, pools>>

AbortSlot == Received("abort") /\ GiveUp /\ UNCHANGED out

\* Mutant of SlotLost: the closed channel is polled again and again.
SlotLostSpins ==
    /\ writer = "slot" /\ events[slot] = << >> /\ wpc[slot] = "end"
    /\ UNCHANGED vars

\* The worker died without Done or Abort.
SlotLost ==
    /\ writer = "slot" /\ events[slot] = << >> /\ wpc[slot] = "end"
    /\ GiveUp /\ UNCHANGED out

-----------------------------------------------------------------------------
(* A worker: run_upstream_request.                                         *)

Goto(r, label) == wpc' = [wpc EXCEPT ![r] = label]

\* The worker returns: its locals, body_rx, response_tx and the connection go.
End(r) ==
    /\ Goto(r, "end")
    /\ body' = [body EXCEPT ![r] = 0]
    /\ attempt' = [attempt EXCEPT ![r] = 0]
    /\ conn' = [conn EXCEPT ![r] = "none"]
    /\ taken' = [taken EXCEPT ![r] = 0]
    /\ put' = [put EXCEPT ![r] = 0]
    /\ completed' = [completed EXCEPT ![r] = FALSE]
    /\ discarded' = [discarded EXCEPT ![r] = 0]
    /\ left' = [left EXCEPT ![r] = 0]
    /\ framing' = [framing EXCEPT ![r] = "none"]

\* The part of the body taken so far still fits the replay window.
is_replayable(r) == taken[r] <= REPLAY_WINDOW

\* H1PoolHolder::acquire: pop a parked connection, ...
AcquireParked(r) ==
    /\ wpc[r] = "acquire" /\ pools[kind[r]] # "none"
    /\ attempt' = [attempt EXCEPT ![r] = @ + 1]
    /\ conn' = [conn EXCEPT ![r] = pools[kind[r]]]
    /\ pools' = [pools EXCEPT ![kind[r]] = "none"]
    /\ Goto(r, "head")
    /\ UNCHANGED <<readerVars, queue, writerVars, events, body, taken, put,
                   completed, discarded, left, framing>>

\* ... or dial when there is none, or only one that died while it was parked.
AcquireMiss(r) ==
    /\ wpc[r] = "acquire"
    /\ attempt' = [attempt EXCEPT ![r] = @ + 1]
    /\ pools' = [pools EXCEPT ![kind[r]] = "none"]
    /\ Goto(r, "dial")
    /\ UNCHANGED <<readerVars, queue, writerVars, events, body, conn, taken,
                   put, completed, discarded, left, framing>>

Dialled(r) ==
    /\ wpc[r] = "dial"
    /\ conn' = [conn EXCEPT ![r] = "fresh"]
    /\ Goto(r, "head")
    /\ UNCHANGED <<readerVars, queue, writerVars, events, body, attempt, taken,
                   put, completed, discarded, left, framing, pools>>

DialFails(r) ==
    /\ wpc[r] = "dial"
    /\ Goto(r, "fail")
    /\ UNCHANGED <<readerVars, queue, writerVars, events, body, attempt, conn,
                   taken, put, completed, discarded, left, framing, pools>>

\* connect_owned meets a todo!: the task panics.
Panics(r) ==
    /\ wpc[r] = "dial"
    /\ End(r)
    /\ UNCHANGED <<readerVars, queue, writerVars, events, pools>>

HeadSent(r) ==
    /\ wpc[r] = "head"
    /\ put' = [put EXCEPT ![r] = 0]
    /\ Goto(r, "resend")
    /\ UNCHANGED <<readerVars, queue, writerVars, events, body, attempt, conn,
                   taken, completed, discarded, left, framing, pools>>

\* What follows a failure: the connection is dropped and the request replayed
\* on another one, or answered with a page.
Retry(r) ==
    /\ conn' = [conn EXCEPT ![r] = "none"]
    /\ Goto(r, IF attempt[r] < MAX_DELIVERY_ATTEMPTS /\ is_replayable(r)
                  THEN "acquire" ELSE "fail")

\* The head, or the part of the body that is sent again, is not accepted.
WriteRefused(r) ==
    /\ wpc[r] \in {"head", "resend"}
    /\ Retry(r)
    /\ UNCHANGED <<readerVars, queue, writerVars, events, body, attempt, taken,
                   put, completed, discarded, left, framing, pools>>

\* Mutant of Resend: only what is still to come goes to the new connection.
ResendNothing(r) ==
    /\ wpc[r] = "resend"
    /\ Goto(r, "stream")
    /\ UNCHANGED <<readerVars, queue, writerVars, events, body, attempt, conn,
                   taken, put, completed, discarded, left, framing, pools>>

\* RequestBodyPump::resend.
Resend(r) ==
    /\ wpc[r] = "resend"
    /\ put' = [put EXCEPT ![r] = taken[r]]
    /\ Goto(r, "stream")
    /\ UNCHANGED <<readerVars, queue, writerVars, events, body, attempt, conn,
                   taken, completed, discarded, left, framing, pools>>

\* RequestBodyPump::stream: take a piece and write it.
StreamPiece(r) ==
    /\ wpc[r] = "stream" /\ body[r] > 0
    /\ body' = [body EXCEPT ![r] = @ - 1]
    /\ taken' = [taken EXCEPT ![r] = @ + 1]
    /\ put' = [put EXCEPT ![r] = @ + 1]
    /\ UNCHANGED <<readerVars, queue, writerVars, events, wpc, attempt, conn,
                   completed, discarded, left, framing, pools>>

\* The piece is remembered before the write that fails.
StreamFails(r) ==
    /\ wpc[r] = "stream" /\ body[r] > 0
    /\ body' = [body EXCEPT ![r] = @ - 1]
    /\ taken' = [taken EXCEPT ![r] = @ + 1]
    /\ conn' = [conn EXCEPT ![r] = "none"]
    /\ Goto(r, IF attempt[r] < MAX_DELIVERY_ATTEMPTS
                     /\ taken[r] + 1 <= REPLAY_WINDOW
                  THEN "acquire" ELSE "fail")
    /\ UNCHANGED <<readerVars, queue, writerVars, events, attempt, put,
                   completed, discarded, left, framing, pools>>

\* The reader has dropped body_tx, after the whole body or in the middle.
StreamEnds(r) ==
    /\ wpc[r] = "stream" /\ body[r] = 0 /\ ~BodyOpen(r)
    /\ completed' = [completed EXCEPT ![r] = TRUE]
    /\ Goto(r, "response")
    /\ UNCHANGED <<readerVars, queue, writerVars, events, body, attempt, conn,
                   taken, put, discarded, left, framing, pools>>

\* The response head: sized (Content-Length or chunked), without a length, or
\* one that switches protocols.
ResponseHead(r) ==
    /\ wpc[r] = "response"
    /\ \E f \in {"sized", "open", "websocket"}, n \in 0 .. MaxChunks :
          /\ framing' = [framing EXCEPT ![r] = f]
          /\ left' = [left EXCEPT ![r] = IF f = "sized" THEN n ELSE 0]
    /\ Goto(r, "emitHead")
    /\ UNCHANGED <<readerVars, queue, writerVars, events, body, attempt, conn,
                   taken, put, completed, discarded, pools>>

\* The transport drops before a response: stale if the connection was parked.
ResponseLost(r) ==
    /\ wpc[r] = "response"
    /\ conn' = [conn EXCEPT ![r] = "none"]
    /\ Goto(r, IF /\ conn[r] # "fresh"
                  /\ attempt[r] < MAX_DELIVERY_ATTEMPTS
                  /\ is_replayable(r)
                  THEN "acquire" ELSE "fail")
    /\ UNCHANGED <<readerVars, queue, writerVars, events, body, attempt, taken,
                   put, completed, discarded, left, framing, pools>>

\* A timeout, or bytes that are not HTTP.
ResponseBad(r) ==
    /\ wpc[r] = "response"
    /\ conn' = [conn EXCEPT ![r] = "none"]
    /\ Goto(r, "fail")
    /\ UNCHANGED <<readerVars, queue, writerVars, events, body, attempt, taken,
                   put, completed, discarded, left, framing, pools>>

Send(r, e) == events' = [events EXCEPT ![r] = Append(@, e)]

EmitHead(r) ==
    /\ wpc[r] = "emitHead" /\ CanEmit(r)
    /\ Send(r, "chunk")
    /\ Goto(r, IF framing[r] = "websocket" THEN "abort" ELSE "relay")
    /\ UNCHANGED <<readerVars, queue, writerVars, body, attempt, conn, taken,
                   put, completed, discarded, left, framing, pools>>

\* transfer_body into the ChannelSink.
RelayPiece(r) ==
    /\ wpc[r] = "relay" /\ left[r] > 0 /\ CanEmit(r)
    /\ Send(r, "chunk")
    /\ left' = [left EXCEPT ![r] = @ - 1]
    /\ UNCHANGED <<readerVars, queue, writerVars, body, wpc, attempt, conn,
                   taken, put, completed, discarded, framing, pools>>

\* Mutants of RelayFails: the request is replayed; the connection is kept.
RelayFailsRetried(r) ==
    /\ wpc[r] = "relay" /\ left[r] > 0
    /\ Retry(r)
    /\ UNCHANGED <<readerVars, queue, writerVars, events, body, attempt, taken,
                   put, completed, discarded, left, framing, pools>>

RelayFailsKept(r) ==
    /\ wpc[r] = "relay" /\ left[r] > 0
    /\ Goto(r, "park")
    /\ UNCHANGED <<readerVars, queue, writerVars, events, body, attempt, conn,
                   taken, put, completed, discarded, left, framing, pools>>

RelayFails(r) ==
    /\ wpc[r] = "relay" /\ left[r] > 0
    /\ Goto(r, "abort")
    /\ UNCHANGED <<readerVars, queue, writerVars, events, body, attempt, conn,
                   taken, put, completed, discarded, left, framing, pools>>

EmitDone(r) ==
    /\ wpc[r] = "relay" /\ left[r] = 0 /\ CanEmit(r)
    /\ Send(r, "done")
    /\ Goto(r, "park")
    /\ UNCHANGED <<readerVars, queue, writerVars, body, attempt, conn, taken,
                   put, completed, discarded, left, framing, pools>>

EmitAbort(r) ==
    /\ wpc[r] = "abort" /\ CanEmit(r)
    /\ Send(r, "abort")
    /\ End(r)
    /\ UNCHANGED <<readerVars, queue, writerVars, pools>>

\* A send finds that nobody listens any more: the worker returns.
NobodyListens(r) ==
    /\ wpc[r] \in {"emitHead", "relay", "abort", "page", "pageEnd"}
    /\ ~Listening(r)
    /\ End(r)
    /\ UNCHANGED <<readerVars, queue, writerVars, events, pools>>

\* H1PoolHolder::release of a connection whose response was self-delimiting;
\* one per upstream is kept.
Park(r) ==
    /\ wpc[r] = "park" /\ framing[r] = "sized"
    /\ pools' = [pools EXCEPT ![kind[r]] =
                     IF @ # "none" THEN @
                     ELSE IF put[r] = size[r] /\ left[r] = 0
                             THEN "clean" ELSE "dirty"]
    /\ End(r)
    /\ UNCHANGED <<readerVars, queue, writerVars, events>>

\* No length, or bytes left over behind the response: the connection goes.
Unparked(r) ==
    /\ wpc[r] = "park"
    /\ End(r)
    /\ UNCHANGED <<readerVars, queue, writerVars, events, pools>>

-----------------------------------------------------------------------------
(* fail_request: nothing has reached the client yet.                       *)

\* discard_rest takes what the reader still delivers, ...
Discard(r) ==
    /\ wpc[r] = "fail" /\ ~completed[r] /\ body[r] > 0
    /\ body' = [body EXCEPT ![r] = @ - 1]
    /\ discarded' = [discarded EXCEPT ![r] = @ + 1]
    /\ IF discarded[r] + 1 > REPLAY_WINDOW
          THEN Goto(r, IF kind[r] = "mcp" THEN "abort" ELSE "page")
          ELSE UNCHANGED wpc
    /\ UNCHANGED <<readerVars, queue, writerVars, events, attempt, conn, taken,
                   put, completed, left, framing, pools>>

\* ... until the reader has dropped body_tx.
Discarded(r) ==
    /\ wpc[r] = "fail"
    /\ completed[r] \/ (body[r] = 0 /\ ~BodyOpen(r))
    /\ completed' = [completed EXCEPT ![r] = TRUE]
    /\ Goto(r, IF kind[r] = "mcp" THEN "abort" ELSE "page")
    /\ UNCHANGED <<readerVars, queue, writerVars, events, body, attempt, conn,
                   taken, put, discarded, left, framing, pools>>

EmitPage(r) ==
    /\ wpc[r] = "page" /\ CanEmit(r)
    /\ Send(r, "chunk")
    /\ Goto(r, "pageEnd")
    /\ UNCHANGED <<readerVars, queue, writerVars, body, attempt, conn, taken,
                   put, completed, discarded, left, framing, pools>>

\* Done when the body was read to its end, else Abort.
EmitPageEnd(r) ==
    /\ wpc[r] = "pageEnd" /\ CanEmit(r)
    /\ Send(r, IF completed[r] THEN "done" ELSE "abort")
    /\ End(r)
    /\ UNCHANGED <<readerVars, queue, writerVars, pools>>

-----------------------------------------------------------------------------
Reader ==
    \/ ReadHead \/ ReadHeadFails \/ Drain \/ Drained \/ DrainFails \/ Emit
    \/ Reserve \/ NoWriter \/ SendBody \/ BodySent \/ SendBodyFails \/ Close
    \/ Upgrade \/ WsDialled \/ WsHeadSent \/ WsResponse \/ WsRelay
    \/ WsRefused \/ WsShutdown \/ WsFails \/ PumpEnds \/ TunnelEnds

Writer ==
    \/ TakeSlot \/ WriterReturns \/ WriteChunk \/ FinishSlot \/ WriteFails
    \/ AbortSlot \/ SlotLost

Worker(r) ==
    \/ AcquireParked(r) \/ AcquireMiss(r) \/ Dialled(r) \/ DialFails(r)
    \/ Panics(r) \/ HeadSent(r) \/ WriteRefused(r) \/ Resend(r)
    \/ StreamPiece(r) \/ StreamFails(r) \/ StreamEnds(r) \/ ResponseHead(r)
    \/ ResponseLost(r) \/ ResponseBad(r) \/ EmitHead(r) \/ RelayPiece(r)
    \/ RelayFails(r) \/ EmitDone(r) \/ EmitAbort(r) \/ NobodyListens(r)
    \/ Park(r) \/ Unparked(r) \/ Discard(r) \/ Discarded(r) \/ EmitPage(r)
    \/ EmitPageEnd(r)

\* The connection is over and every worker has ended.
Over ==
    /\ rpc = "closed" /\ \A r \in Requests : wpc[r] \in {"none", "end"}
    /\ UNCHANGED vars

Next == Reader \/ Writer \/ (\E r \in Requests : Worker(r)) \/ Over

Spec == Init /\ [][Next]_vars

\* tokio polls every ready task, and each read, write and dial ends, at the
\* latest by its timeout.  A tunnel may live for ever.
Fairness ==
    /\ WF_vars(Reader /\ rpc \notin {"tunnel", "halfTunnel"})
    /\ WF_vars(Writer)
    /\ \A r \in Requests : WF_vars(Worker(r))

FairSpec == Spec /\ Fairness

-----------------------------------------------------------------------------
(* Properties.                                                             *)

\* Every variable has its type, and no channel holds more than its capacity
\* (2 for the responses the reader makes itself).
TypeOK ==
    /\ rpc \in ReaderPC /\ cur \in 0 .. MaxRequests /\ unread \in 0 .. MaxBody
    /\ kind \in [Requests -> AllKinds]
    /\ keep \in BOOLEAN
    /\ size \in [Requests -> 0 .. MaxBody]
    /\ queue \in Seq(Requests)
    /\ writer \in {"idle", "slot", "returned", "closed"}
    /\ slot \in 0 .. MaxRequests
    /\ events \in [Requests -> Seq({"chunk", "done", "abort"})]
    /\ \A r \in Requests :
          Len(events[r]) <= IF kind[r] \in Upstreams
                               THEN RESPONSE_CHANNEL_CAPACITY ELSE 2
    /\ out \in [Requests -> {"none", "part", "whole"}]
    /\ body \in [Requests -> 0 .. REQUEST_BODY_CHANNEL_CAPACITY]
    /\ wpc \in [Requests -> WorkerPC]
    /\ attempt \in [Requests -> 0 .. MAX_DELIVERY_ATTEMPTS]
    /\ conn \in [Requests -> Conns]
    /\ taken \in [Requests -> 0 .. MaxBody]
    /\ put \in [Requests -> 0 .. MaxBody]
    /\ completed \in [Requests -> BOOLEAN]
    /\ discarded \in [Requests -> 0 .. MaxBody]
    /\ left \in [Requests -> 0 .. MaxChunks]
    /\ framing \in [Requests -> {"none", "sized", "open", "websocket"}]
    /\ pools \in [Upstreams -> Conns]

\* The connection implements ResponseStream: whatever the workers, the replays
\* and the reader's own answers do, the client gets the responses in order,
\* each one whole before the next, and nothing after one that was cut short
\* (run_client_writer, ResponseSlot, run_ws_tunnel).
Ordered == INSTANCE ResponseStream
               WITH sent <- out, open <- writer # "closed" /\ rpc # "closed"

OrderedResponses == Ordered!Spec

\* When a response is awaited or relayed, the connection it comes from has
\* carried the whole request body, however often it was replayed, unless the
\* client itself stopped in the middle (RequestBodyPump).
DeliveredWhole ==
    \A r \in Requests :
        wpc[r] \in {"response", "emitHead", "relay", "park"} =>
            \/ put[r] = size[r]
            \/ put[r] < size[r] /\ cur = r /\ unread > 0 /\ QueueClosed

\* A request is (re)delivered, or answered with an error page, only while its
\* client has seen nothing of a response and nothing is on the way
\* (run_upstream_request: the replay is invisible).
ReplayInvisible ==
    \A r \in Requests :
        wpc[r] \in {"acquire", "dial", "head", "resend", "stream", "response",
                   "fail", "page"} =>
            out[r] = "none" /\ events[r] = << >>

\* The reader parses the next head only behind the end of a request body,
\* except after a static or file answer (the results of transfer_body in
\* read_and_dispatch, OAuthGateOutcome::Close).
SyncedUnlessStatic ==
    rpc = "head" /\ unread > 0 => kind[cur] = "static"

\* A connection that waits for the rest of a request, because its client
\* stopped in the middle, is parked or reused only when no further request
\* will be read: at worst a request dispatched earlier is replayed on it
\* (H1PoolHolder::release after a truncated body).
LaterRequestsClean ==
    \/ QueueClosed
    \/ /\ \A u \in Upstreams : pools[u] # "dirty"
       /\ \A r \in Requests : conn[r] # "dirty"

\* Both byte streams stay in step with the requests: the client's, where the
\* next head is parsed, and the upstream connections that are used again
\* (read_and_dispatch, H1PoolHolder).
InSync == SyncedUnlessStatic /\ LaterRequestsClean

\* At most one request more than the queue has slots holds an upstream
\* connection for a response that is still to be written: what
\* RESPONSE_QUEUE_CAPACITY does bound.
PinnedBound ==
    Cardinality({r \in Requests : wpc[r] \notin {"none", "park", "end"}})
        <= RESPONSE_QUEUE_CAPACITY + 1

\* "It stops the reader from dispatching - and pinning upstream connections
\* for - later requests while a long/streaming (SSE) response occupies the head
\* slot" (RESPONSE_QUEUE_CAPACITY): while the writer waits for the rest of a
\* response, no later request has taken an upstream connection.
HeadPinsAlone ==
    writer = "slot" /\ wpc[slot] = "relay" =>
        \A r \in Requests : r > slot => conn[r] = "none"

\* Every proxied request is answered to its end, unless the connection is
\* given up.
Answered ==
    \A r \in Requests :
        wpc[r] # "none" ~> out[r] = "whole" \/ writer = "closed"

\* When the writer gives the connection up, every worker ends and lets its
\* upstream connection go.
WorkersEnd ==
    writer = "closed" ~> \A r \in Requests : wpc[r] \in {"none", "end"}

\* Three bounded channels in a row never leave anybody waiting: a request is
\* answered or its connection given up, and then every worker ends
\* (run_client_writer, run_upstream_request).
Progress == Answered /\ WorkersEnd

\* "Drain the request body first so the connection stays byte-synced for
\* reuse" (reader.rs:473): no head is ever read in the middle of a body.
ByteSynced == rpc = "head" => unread = 0
=============================================================================
