-------------------------- MODULE H1Pipeline_proofs --------------------------
(***************************************************************************)
(* H1Pipeline for every number of requests, body size, channel capacity    *)
(* and replay window.  A piece of a body is in one place (BodyInv); slots  *)
(* are consecutive and the writer empties the first that is not whole      *)
(* (QueueInv, SlotInv); the write half changes hands once (HandoverInv);   *)
(* nothing of a response exists before its slot (FutureInv); Done is the   *)
(* last thing in a response channel (EventInv).                            *)
(***************************************************************************)
EXTENDS H1Pipeline, FiniteSetTheorems, TLAPS

\* The reader works on a request whose response has no slot yet.
Pending == rpc \notin {"head", "body", "close", "closed"}

\* The pieces of r's body that are still in the client's socket.
Unsent(r) == IF cur = r THEN unread ELSE 0

\* What the reader knows of the request it works on.
ReaderInv ==
    /\ Pending \/ rpc = "body" => cur \in Requests
    /\ rpc \in {"slot", "body"} => kind[cur] \in Upstreams
    /\ rpc = "drain" => kind[cur] \in {"oauth", "static"}
    /\ rpc = "emit" => kind[cur] \in {"error", "oauth", "static"}
    /\ rpc = "slot" => unread = size[cur]
    /\ rpc = "emit" /\ kind[cur] = "oauth" => unread = 0
    /\ rpc = "head" /\ cur = 0 => unread = 0
    /\ SyncedUnlessStatic

\* Every piece of a request body is in one place.
BodyInv(r) ==
    /\ wpc[r] \in {"none", "end"} =>
          /\ body[r] = 0 /\ attempt[r] = 0 /\ taken[r] = 0 /\ put[r] = 0
          /\ discarded[r] = 0
    /\ wpc[r] # "none" =>
          /\ r <= cur /\ kind[r] \in Upstreams
          /\ r = cur => ~Pending
    /\ wpc[r] \notin {"none", "end"} =>
          taken[r] + body[r] + discarded[r] + Unsent(r) = size[r]
    /\ wpc[r] = "acquire" => attempt[r] < MAX_DELIVERY_ATTEMPTS
    /\ put[r] <= taken[r]
    /\ discarded[r] = 0 \/ wpc[r] \in {"fail", "page", "pageEnd", "abort"}
    /\ wpc[r] \in {"stream", "response", "emitHead", "relay", "park"} =>
          put[r] = taken[r]
    /\ wpc[r] \in {"response", "emitHead", "relay", "park"} =>
          body[r] = 0 /\ ~BodyOpen(r)
    /\ wpc[r] = "park" => left[r] = 0

\* The last request whose slot has been reserved, while more can be.
Reserved == IF Pending THEN cur - 1 ELSE cur

\* Slots are consecutive, the writer is at the first of them, and everything
\* before it is whole.
QueueInv ==
    /\ \A i \in 1 .. Len(queue) : queue[i] <= Reserved /\ out[queue[i]] = "none"
    /\ \A i \in 1 .. Len(queue) : queue[i] = queue[1] + i - 1
    /\ ~WriterAlive => queue = << >>
    /\ rpc \notin {"close", "closed"} /\ queue # << >> => queue[Len(queue)] = Reserved

\* The writer is at the first slot that is not whole.
SlotInv ==
    /\ writer = "slot" =>
          /\ slot \in 1 .. Reserved
          /\ out[slot] # "whole"
          /\ \A q \in 1 .. slot - 1 : out[q] = "whole"
          /\ queue # << >> => queue[1] = slot + 1
          /\ queue = << >> /\ rpc \notin {"close", "closed"} => slot = Reserved
    /\ writer = "idle" =>
          /\ queue # << >> => \A q \in 1 .. queue[1] - 1 : out[q] = "whole"
          /\ queue = << >> /\ rpc \notin {"close", "closed"} =>
                \A q \in 1 .. Reserved : out[q] = "whole"

\* The write half goes to a tunnel only after everything before it is whole.
HandoverInv ==
    /\ writer = "returned" => QueueClosed
    /\ writer = "returned" /\ Pending => \A q \in 1 .. Reserved : out[q] = "whole"
    /\ rpc = "closed" => ~WriterAlive
    /\ Pending /\ rpc \notin {"drain", "emit", "slot", "upgrade"} => writer = "returned"

\* Nothing of a response exists before its slot does.
FutureInv ==
    /\ \A r \in Requests : r > Reserved => events[r] = << >>
    /\ \A r \in Requests : r > cur => out[r] = "none"
    /\ Pending /\ rpc \notin {"wsBody", "wsShut", "tunnel", "halfTunnel"} => out[cur] = "none"
    /\ rpc = "wsBody" => out[cur] = "part"

\* Done never comes first.
EventInv ==
    \A r \in Requests :
       /\ out[r] = "none" /\ events[r] # << >> => events[r][1] # "done"
       /\ wpc[r] \in {"relay", "pageEnd"} /\ writer # "closed" =>
             out[r] # "none" \/ events[r] # << >>

\* The inductive invariant.
IInv ==
    /\ TypeOK /\ ReaderInv /\ (\A r \in Requests : BodyInv(r))
    /\ QueueInv /\ SlotInv /\ HandoverInv /\ FutureInv /\ EventInv
    /\ ReplayInvisible /\ LaterRequestsClean

\* TypeOK in parts.
ReaderType ==
    /\ rpc \in ReaderPC /\ cur \in 0 .. MaxRequests /\ unread \in 0 .. MaxBody
    /\ kind \in [Requests -> AllKinds]
    /\ keep \in BOOLEAN
    /\ size \in [Requests -> 0 .. MaxBody]

WriterType ==
    /\ queue \in Seq(Requests)
    /\ writer \in {"idle", "slot", "returned", "closed"}
    /\ slot \in 0 .. MaxRequests
    /\ out \in [Requests -> {"none", "part", "whole"}]

EventType ==
    /\ events \in [Requests -> Seq({"chunk", "done", "abort"})]
    /\ \A r \in Requests :
          Len(events[r]) <= IF kind[r] \in Upstreams
                               THEN RESPONSE_CHANNEL_CAPACITY ELSE 2

PlaceType ==
    /\ wpc \in [Requests -> WorkerPC]
    /\ conn \in [Requests -> Conns]
    /\ completed \in [Requests -> BOOLEAN]
    /\ framing \in [Requests -> {"none", "sized", "open", "websocket"}]
    /\ pools \in [Upstreams -> Conns]

CountType ==
    /\ body \in [Requests -> 0 .. REQUEST_BODY_CHANNEL_CAPACITY]
    /\ attempt \in [Requests -> 0 .. MAX_DELIVERY_ATTEMPTS]
    /\ taken \in [Requests -> 0 .. MaxBody]
    /\ put \in [Requests -> 0 .. MaxBody]
    /\ discarded \in [Requests -> 0 .. MaxBody]
    /\ left \in [Requests -> 0 .. MaxChunks]

\* TypeOK in the parts that each kind of step can disturb.
LEMMA TypeParts ==
  TypeOK <=> ReaderType /\ WriterType /\ EventType /\ PlaceType /\ CountType
  BY DEF TypeOK, ReaderType, WriterType, EventType, PlaceType, CountType

\* The slot the writer empties is a request's.
LEMMA SlotBound == IInv /\ writer = "slot" => slot \in Requests
  BY TypeParts DEF IInv, SlotInv, Reserved, ReaderType, WriterType, Requests

\* A worker changes nothing of the reader, the queue or the writer.
LEMMA WorkerFrame ==
  ASSUME NEW r \in Requests, Worker(r)
  PROVE  UNCHANGED <<readerVars, queue, writerVars>>
<1>1. CASE AcquireParked(r)
  BY <1>1 DEF AcquireParked
<1>2. CASE AcquireMiss(r)
  BY <1>2 DEF AcquireMiss
<1>3. CASE Dialled(r)
  BY <1>3 DEF Dialled
<1>4. CASE DialFails(r)
  BY <1>4 DEF DialFails
<1>5. CASE Panics(r)
  BY <1>5 DEF Panics
<1>6. CASE HeadSent(r)
  BY <1>6 DEF HeadSent
<1>7. CASE WriteRefused(r)
  BY <1>7 DEF WriteRefused
<1>8. CASE Resend(r)
  BY <1>8 DEF Resend
<1>9. CASE StreamPiece(r)
  BY <1>9 DEF StreamPiece
<1>10. CASE StreamFails(r)
  BY <1>10 DEF StreamFails
<1>11. CASE StreamEnds(r)
  BY <1>11 DEF StreamEnds
<1>12. CASE ResponseHead(r)
  BY <1>12 DEF ResponseHead
<1>13. CASE ResponseLost(r)
  BY <1>13 DEF ResponseLost
<1>14. CASE ResponseBad(r)
  BY <1>14 DEF ResponseBad
<1>15. CASE EmitHead(r)
  BY <1>15 DEF EmitHead
<1>16. CASE RelayPiece(r)
  BY <1>16 DEF RelayPiece
<1>17. CASE RelayFails(r)
  BY <1>17 DEF RelayFails
<1>18. CASE EmitDone(r)
  BY <1>18 DEF EmitDone
<1>19. CASE EmitAbort(r)
  BY <1>19 DEF EmitAbort
<1>20. CASE NobodyListens(r)
  BY <1>20 DEF NobodyListens
<1>21. CASE Park(r)
  BY <1>21 DEF Park
<1>22. CASE Unparked(r)
  BY <1>22 DEF Unparked
<1>23. CASE Discard(r)
  BY <1>23 DEF Discard
<1>24. CASE Discarded(r)
  BY <1>24 DEF Discarded
<1>25. CASE EmitPage(r)
  BY <1>25 DEF EmitPage
<1>26. CASE EmitPageEnd(r)
  BY <1>26 DEF EmitPageEnd
<1>27. QED
  BY <1>1, <1>2, <1>3, <1>4, <1>5, <1>6, <1>7, <1>8, <1>9,
     <1>10, <1>11, <1>12, <1>13, <1>14, <1>15, <1>16, <1>17, <1>18,
     <1>19, <1>20, <1>21, <1>22, <1>23, <1>24, <1>25, <1>26 DEF Worker

\* The writer changes nothing of the reader and the workers.
LEMMA WriterFrame ==
  ASSUME Writer
  PROVE  UNCHANGED <<readerVars, body, workVars, pools>>
<1>1. CASE TakeSlot
  BY <1>1 DEF TakeSlot
<1>2. CASE WriterReturns
  BY <1>2 DEF WriterReturns
<1>3. CASE WriteChunk
  BY <1>3 DEF WriteChunk
<1>4. CASE FinishSlot
  BY <1>4 DEF FinishSlot
<1>5. CASE WriteFails
  BY <1>5 DEF WriteFails, GiveUp
<1>6. CASE AbortSlot
  BY <1>6 DEF AbortSlot, GiveUp
<1>7. CASE SlotLost
  BY <1>7 DEF SlotLost, GiveUp
<1>8. QED
  BY <1>1, <1>2, <1>3, <1>4, <1>5, <1>6, <1>7 DEF Writer

\* The reader changes nothing of the workers but what it hands them.
LEMMA ReaderFrame ==
  ASSUME Reader
  PROVE  /\ UNCHANGED <<writer, slot, attempt, conn, taken, put, completed,
                        discarded, left, framing, pools>>
         /\ Emit \/ UNCHANGED events
         /\ Emit \/ Reserve \/ UNCHANGED queue
         /\ Reserve \/ UNCHANGED wpc
         /\ SendBody \/ UNCHANGED body
         /\ WsRelay \/ WsRefused \/ WsFails \/ UNCHANGED out
<1>1. CASE ReadHead
  BY <1>1 DEF ReadHead, writerVars, workVars
<1>2. CASE ReadHeadFails
  BY <1>2 DEF ReadHeadFails, writerVars, workVars
<1>3. CASE Drain
  BY <1>3 DEF Drain, writerVars, workVars
<1>4. CASE Drained
  BY <1>4 DEF Drained, writerVars, workVars
<1>5. CASE DrainFails
  BY <1>5 DEF DrainFails, writerVars, workVars
<1>6. CASE Emit
  BY <1>6 DEF Emit, writerVars, workVars
<1>7. CASE Reserve
  BY <1>7 DEF Reserve, writerVars, workVars
<1>8. CASE NoWriter
  BY <1>8 DEF NoWriter, writerVars, workVars
<1>9. CASE SendBody
  BY <1>9 DEF SendBody, writerVars, workVars
<1>10. CASE BodySent
  BY <1>10 DEF BodySent, writerVars, workVars
<1>11. CASE SendBodyFails
  BY <1>11 DEF SendBodyFails, writerVars, workVars
<1>12. CASE Close
  BY <1>12 DEF Close, writerVars, workVars
<1>13. CASE Upgrade
  BY <1>13 DEF Upgrade, writerVars, workVars
<1>14. CASE WsDialled
  BY <1>14 DEF WsDialled, writerVars, workVars, WsStep
<1>15. CASE WsHeadSent
  BY <1>15 DEF WsHeadSent, writerVars, workVars, WsStep
<1>16. CASE WsResponse
  BY <1>16 DEF WsResponse, writerVars, workVars, WsStep
<1>17. CASE WsRelay
  BY <1>17 DEF WsRelay, writerVars, workVars
<1>18. CASE WsRefused
  BY <1>18 DEF WsRefused, writerVars, workVars
<1>19. CASE WsShutdown
  BY <1>19 DEF WsShutdown, writerVars, workVars, WsStep
<1>20. CASE WsFails
  BY <1>20 DEF WsFails, writerVars, workVars
<1>21. CASE PumpEnds
  BY <1>21 DEF PumpEnds, writerVars, workVars, WsStep
<1>22. CASE TunnelEnds
  BY <1>22 DEF TunnelEnds, writerVars, workVars, WsStep
<1>23. QED
  BY <1>1, <1>2, <1>3, <1>4, <1>5, <1>6, <1>7, <1>8, <1>9, <1>10,
     <1>11, <1>12, <1>13, <1>14, <1>15, <1>16, <1>17, <1>18, <1>19,
     <1>20, <1>21, <1>22 DEF Reader


\* The reader's variables keep their types.
LEMMA ReaderTypeStep == IInv /\ [Next]_vars => ReaderType'
<1> SUFFICES ASSUME IInv, [Next]_vars PROVE ReaderType'
  OBVIOUS
<1> ReaderType
  BY TypeParts DEF IInv
<1> USE BoundAssumption, CapacityAssumption, KindsAssumption
    DEF ReaderType, ReaderPC, AllKinds, Requests
<1>1. CASE UNCHANGED vars
  BY <1>1 DEF vars, readerVars
<1>2. CASE Reader
  <2>1. CASE ReadHead
    BY <2>1 DEF ReadHead, FirstStep, Upstreams
  <2>2. CASE ReadHeadFails
    BY <2>2 DEF ReadHeadFails
  <2>3. CASE Drain
    BY <2>3 DEF Drain
  <2>4. CASE Drained
    BY <2>4 DEF Drained
  <2>5. CASE DrainFails
    BY <2>5 DEF DrainFails
  <2>6. CASE Emit
    BY <2>6 DEF Emit
  <2>7. CASE Reserve
    BY <2>7 DEF Reserve
  <2>8. CASE NoWriter
    BY <2>8 DEF NoWriter
  <2>9. CASE SendBody
    BY <2>9 DEF SendBody
  <2>10. CASE BodySent
    BY <2>10 DEF BodySent
  <2>11. CASE SendBodyFails
    BY <2>11 DEF SendBodyFails
  <2>12. CASE Close
    BY <2>12 DEF Close
  <2>13. CASE Upgrade
    BY <2>13 DEF Upgrade
  <2>14. CASE WsDialled
    BY <2>14 DEF WsDialled, WsStep
  <2>15. CASE WsHeadSent
    BY <2>15 DEF WsHeadSent, WsStep
  <2>16. CASE WsResponse
    BY <2>16 DEF WsResponse, WsStep
  <2>17. CASE WsRelay
    BY <2>17 DEF WsRelay
  <2>18. CASE WsRefused
    BY <2>18 DEF WsRefused
  <2>19. CASE WsShutdown
    BY <2>19 DEF WsShutdown, WsStep
  <2>20. CASE WsFails
    BY <2>20 DEF WsFails
  <2>21. CASE PumpEnds
    BY <2>21 DEF PumpEnds, WsStep
  <2>22. CASE TunnelEnds
    BY <2>22 DEF TunnelEnds, WsStep
  <2>23. QED
    BY <1>2, <2>1, <2>2, <2>3, <2>4, <2>5, <2>6, <2>7, <2>8, <2>9, <2>10,
       <2>11, <2>12, <2>13, <2>14, <2>15, <2>16, <2>17, <2>18, <2>19,
       <2>20, <2>21, <2>22 DEF Reader
<1>3. CASE Writer
  BY <1>3, WriterFrame DEF readerVars
<1>4. ASSUME NEW r \in Requests, Worker(r) PROVE ReaderType'
  BY <1>4, WorkerFrame DEF readerVars
<1>5. CASE Over
  BY <1>5 DEF Over, vars, readerVars
<1>6. QED
  BY <1>1, <1>2, <1>3, <1>4, <1>5 DEF Next

\* The writer's variables keep their types.
LEMMA WriterTypeStep == IInv /\ [Next]_vars => WriterType'
<1> SUFFICES ASSUME IInv, [Next]_vars PROVE WriterType'
  OBVIOUS
<1> WriterType /\ ReaderType /\ ReaderInv
  BY TypeParts DEF IInv
<1> USE BoundAssumption DEF WriterType
<1>1. CASE UNCHANGED vars
  BY <1>1 DEF vars, writerVars
<1>2. CASE Reader
  <2>1. (writer \in {"idle", "slot", "returned", "closed"} /\ slot \in 0 .. MaxRequests)'
    BY <1>2, ReaderFrame
  <2>2. (queue \in Seq(Requests))'
    <3>1. CASE Emit \/ Reserve
      <4>1. cur \in Requests
        BY <3>1 DEF Emit, Reserve, ReaderInv, Pending
      <4>2. queue' = Append(queue, cur)
        BY <3>1 DEF Emit, Reserve
      <4>3. QED
        BY <4>1, <4>2
    <3>2. QED
      BY <1>2, <3>1, ReaderFrame
  <2>3. (out \in [Requests -> {"none", "part", "whole"}])'
    <3>1. CASE WsRelay \/ WsRefused \/ WsFails
      BY <3>1 DEF WsRelay, WsRefused, WsFails
    <3>2. QED
      BY <1>2, <3>1, ReaderFrame
  <2>4. QED
    BY <2>1, <2>2, <2>3
<1>3. CASE Writer
  <2> slot \in Requests \/ writer = "idle"
    BY <1>3, SlotBound DEF IInv, Writer, TakeSlot, WriterReturns, WriteChunk, FinishSlot,
       WriteFails, AbortSlot, SlotLost, Received
  <2>1. CASE TakeSlot
    BY <2>1 DEF TakeSlot, Requests
  <2>2. CASE WriterReturns
    BY <2>2 DEF WriterReturns
  <2>3. CASE WriteChunk
    BY <2>3 DEF WriteChunk
  <2>4. CASE FinishSlot
    <3>1. out' \in [Requests -> {"none", "part", "whole"}]
      BY <2>4 DEF FinishSlot
    <3>2. slot' = 0 /\ writer' = "idle" /\ queue' = queue
      BY <2>4 DEF FinishSlot
    <3>3. QED
      BY <3>1, <3>2
  <2>5. CASE WriteFails
    BY <2>5 DEF WriteFails, Received, GiveUp
  <2>6. CASE AbortSlot
    BY <2>6 DEF AbortSlot, GiveUp
  <2>7. CASE SlotLost
    BY <2>7 DEF SlotLost, GiveUp
  <2>8. QED
    BY <1>3, <2>1, <2>2, <2>3, <2>4, <2>5, <2>6, <2>7 DEF Writer
<1>4. ASSUME NEW r \in Requests, Worker(r) PROVE WriterType'
  BY <1>4, WorkerFrame DEF writerVars
<1>5. CASE Over
  BY <1>5 DEF Over, vars, writerVars
<1>6. QED
  BY <1>1, <1>2, <1>3, <1>4, <1>5 DEF Next

\* Only ReadHead says what a request is.
LEMMA KindFixed == Reader => ReadHead \/ UNCHANGED <<kind, size, cur>>
<1> SUFFICES ASSUME Reader PROVE ReadHead \/ UNCHANGED <<kind, size, cur>>
  OBVIOUS
<1>1. CASE ReadHead
  BY <1>1
<1>2. CASE ReadHeadFails
  BY <1>2 DEF ReadHeadFails
<1>3. CASE Drain
  BY <1>3 DEF Drain
<1>4. CASE Drained
  BY <1>4 DEF Drained
<1>5. CASE DrainFails
  BY <1>5 DEF DrainFails
<1>6. CASE Emit
  BY <1>6 DEF Emit
<1>7. CASE Reserve
  BY <1>7 DEF Reserve
<1>8. CASE NoWriter
  BY <1>8 DEF NoWriter
<1>9. CASE SendBody
  BY <1>9 DEF SendBody
<1>10. CASE BodySent
  BY <1>10 DEF BodySent
<1>11. CASE SendBodyFails
  BY <1>11 DEF SendBodyFails
<1>12. CASE Close
  BY <1>12 DEF Close
<1>13. CASE Upgrade
  BY <1>13 DEF Upgrade
<1>14. CASE WsDialled
  BY <1>14 DEF WsDialled, WsStep
<1>15. CASE WsHeadSent
  BY <1>15 DEF WsHeadSent, WsStep
<1>16. CASE WsResponse
  BY <1>16 DEF WsResponse, WsStep
<1>17. CASE WsRelay
  BY <1>17 DEF WsRelay
<1>18. CASE WsRefused
  BY <1>18 DEF WsRefused
<1>19. CASE WsShutdown
  BY <1>19 DEF WsShutdown, WsStep
<1>20. CASE WsFails
  BY <1>20 DEF WsFails
<1>21. CASE PumpEnds
  BY <1>21 DEF PumpEnds, WsStep
<1>22. CASE TunnelEnds
  BY <1>22 DEF TunnelEnds, WsStep
<1>23. QED
  BY <1>1, <1>2, <1>3, <1>4, <1>5, <1>6, <1>7, <1>8, <1>9, <1>10,
     <1>11, <1>12, <1>13, <1>14, <1>15, <1>16, <1>17, <1>18, <1>19,
     <1>20, <1>21, <1>22 DEF Reader

\* A worker's send: there is someone to receive it, and room.
LEMMA Sends ==
  ASSUME NEW r \in Requests, Worker(r), BodyInv(r)
  PROVE  \/ UNCHANGED events
         \/ /\ CanEmit(r) /\ kind[r] \in Upstreams
            /\ wpc[r] \in {"emitHead", "relay", "page", "pageEnd", "abort"}
            /\ \E e \in {"chunk", "done", "abort"} : Send(r, e)
<1>1. CASE AcquireParked(r)
  BY <1>1 DEF AcquireParked
<1>2. CASE AcquireMiss(r)
  BY <1>2 DEF AcquireMiss
<1>3. CASE Dialled(r)
  BY <1>3 DEF Dialled
<1>4. CASE DialFails(r)
  BY <1>4 DEF DialFails
<1>5. CASE Panics(r)
  BY <1>5 DEF Panics
<1>6. CASE HeadSent(r)
  BY <1>6 DEF HeadSent
<1>7. CASE WriteRefused(r)
  BY <1>7 DEF WriteRefused
<1>8. CASE Resend(r)
  BY <1>8 DEF Resend
<1>9. CASE StreamPiece(r)
  BY <1>9 DEF StreamPiece
<1>10. CASE StreamFails(r)
  BY <1>10 DEF StreamFails
<1>11. CASE StreamEnds(r)
  BY <1>11 DEF StreamEnds
<1>12. CASE ResponseHead(r)
  BY <1>12 DEF ResponseHead
<1>13. CASE ResponseLost(r)
  BY <1>13 DEF ResponseLost
<1>14. CASE ResponseBad(r)
  BY <1>14 DEF ResponseBad
<1>15. CASE EmitHead(r)
  BY <1>15 DEF EmitHead, BodyInv
<1>16. CASE RelayPiece(r)
  BY <1>16 DEF RelayPiece, BodyInv
<1>17. CASE RelayFails(r)
  BY <1>17 DEF RelayFails
<1>18. CASE EmitDone(r)
  BY <1>18 DEF EmitDone, BodyInv
<1>19. CASE EmitAbort(r)
  BY <1>19 DEF EmitAbort, BodyInv
<1>20. CASE NobodyListens(r)
  BY <1>20 DEF NobodyListens
<1>21. CASE Park(r)
  BY <1>21 DEF Park
<1>22. CASE Unparked(r)
  BY <1>22 DEF Unparked
<1>23. CASE Discard(r)
  BY <1>23 DEF Discard
<1>24. CASE Discarded(r)
  BY <1>24 DEF Discarded
<1>25. CASE EmitPage(r)
  BY <1>25 DEF EmitPage, BodyInv
<1>26. CASE EmitPageEnd(r)
  BY <1>26 DEF EmitPageEnd, BodyInv
<1>27. QED
  BY <1>1, <1>2, <1>3, <1>4, <1>5, <1>6, <1>7, <1>8, <1>9, <1>10,
     <1>11, <1>12, <1>13, <1>14, <1>15, <1>16, <1>17, <1>18, <1>19,
     <1>20, <1>21, <1>22, <1>23, <1>24, <1>25, <1>26 DEF Worker

\* The response channels keep their type and their capacity.
LEMMA EventTypeStep == IInv /\ [Next]_vars => EventType'
<1> SUFFICES ASSUME IInv, [Next]_vars PROVE EventType'
  OBVIOUS
<1> EventType /\ ReaderType /\ ReaderInv /\ FutureInv /\ \A r \in Requests : BodyInv(r)
  BY TypeParts DEF IInv
<1> USE CapacityAssumption DEF EventType
<1>1. CASE UNCHANGED vars
  BY <1>1 DEF vars, readerVars
<1>2. CASE Reader
  <2>1. CASE Emit
    <3>1. cur \in Requests /\ kind[cur] \notin Upstreams
      BY <2>1 DEF Emit, ReaderInv, Pending, Upstreams
    <3>2. events' = [events EXCEPT ![cur] = <<"chunk", "done">>] /\ kind' = kind
      BY <2>1 DEF Emit
    <3>3. <<"chunk", "done">> \in Seq({"chunk", "done", "abort"}) /\ Len(<<"chunk", "done">>) = 2
      OBVIOUS
    <3>4. QED
      BY <3>1, <3>2, <3>3
  <2>2. CASE ReadHead
    <3>1. cur + 1 \in Requests /\ events[cur + 1] = << >>
      <4>1. cur + 1 \in Requests /\ Reserved = cur
        BY <2>2, BoundAssumption DEF ReadHead, Reserved, Pending, ReaderType, Requests
      <4>2. QED
        BY <4>1 DEF FutureInv, ReaderType
    <3>2. events' = events /\ \A r \in Requests \ {cur + 1} : kind'[r] = kind[r]
      BY <2>2 DEF ReadHead, ReaderType
    <3>3. QED
      BY <3>1, <3>2
  <2>3. CASE UNCHANGED <<events, kind>>
    BY <2>3
  <2>4. QED
    BY <1>2, <2>1, <2>2, <2>3, ReaderFrame, KindFixed
<1>3. CASE Writer
  <2>1. kind' = kind
    BY <1>3, WriterFrame DEF readerVars
  <2>2. CASE UNCHANGED events
    BY <2>1, <2>2
  <2>3. CASE WriteChunk
    <3>1. slot \in Requests /\ events[slot] # << >> /\ events' = [events EXCEPT ![slot] = Tail(@)]
      BY <2>3, SlotBound DEF WriteChunk, Received
    <3>2. Tail(events[slot]) \in Seq({"chunk", "done", "abort"}) /\ Len(Tail(events[slot])) <= Len(events[slot])
      BY <3>1
    <3>3. QED
      BY <2>1, <3>1, <3>2
  <2>4. CASE FinishSlot
    <3>1. events' = [events EXCEPT ![slot] = << >>]
      BY <2>4 DEF FinishSlot
    <3>2. << >> \in Seq({"chunk", "done", "abort"}) /\ Len(<< >>) = 0
      OBVIOUS
    <3>3. events' \in [Requests -> Seq({"chunk", "done", "abort"})]
      BY <3>1, <3>2
    <3>4. ASSUME NEW r \in Requests PROVE Len(events'[r]) <= Len(events[r])
      BY <3>1, <3>2
    <3>5. QED
      BY <2>1, <3>3, <3>4
  <2>5. CASE GiveUp
    BY <2>1, <2>5 DEF GiveUp
  <2>6. QED
    BY <1>3, <2>2, <2>3, <2>4, <2>5
    DEF Writer, TakeSlot, WriterReturns, WriteFails, AbortSlot, SlotLost
<1>4. ASSUME NEW r \in Requests, Worker(r) PROVE EventType'
  <2>1. kind' = kind
    BY <1>4, WorkerFrame DEF readerVars
  <2>2. CASE UNCHANGED events
    BY <2>1, <2>2
  <2>3. ASSUME NEW e \in {"chunk", "done", "abort"}, CanEmit(r), Send(r, e), kind[r] \in Upstreams
        PROVE  EventType'
    <3>1. /\ Append(events[r], e) \in Seq({"chunk", "done", "abort"})
          /\ Len(Append(events[r], e)) <= RESPONSE_CHANNEL_CAPACITY
      BY <2>3 DEF CanEmit
    <3>2. QED
      BY <2>1, <2>3, <3>1 DEF Send
  <2>4. QED
    BY <1>4, <2>2, <2>3, Sends
<1>5. CASE Over
  BY <1>5 DEF Over, vars, readerVars
<1>6. QED
  BY <1>1, <1>2, <1>3, <1>4, <1>5 DEF Next

\* Where a worker is, its connection and the parked ones keep their types.
LEMMA PlaceTypeStep == IInv /\ [Next]_vars => PlaceType'
<1> SUFFICES ASSUME IInv, [Next]_vars PROVE PlaceType'
  OBVIOUS
<1> PlaceType /\ \A r \in Requests : BodyInv(r)
  BY TypeParts DEF IInv
<1> USE DEF PlaceType, WorkerPC, Conns
<1>1. CASE UNCHANGED vars
  BY <1>1 DEF vars, workVars
<1>2. CASE Reader
  <2>1. CASE Reserve
    BY <1>2, <2>1, ReaderFrame DEF Reserve
  <2>2. QED
    BY <1>2, <2>1, ReaderFrame
<1>3. CASE Writer
  BY <1>3, WriterFrame DEF workVars
<1>4. ASSUME NEW r \in Requests, Worker(r) PROVE PlaceType'
  <2> kind[r] \in Upstreams \/ wpc[r] = "none"
    BY DEF BodyInv
  <2>1. CASE AcquireParked(r)
    BY <2>1 DEF AcquireParked, Goto
  <2>2. CASE AcquireMiss(r)
    BY <2>2 DEF AcquireMiss, Goto
  <2>3. CASE Dialled(r)
    BY <2>3 DEF Dialled, Goto
  <2>4. CASE DialFails(r)
    BY <2>4 DEF DialFails, Goto
  <2>5. CASE Panics(r)
    BY <2>5 DEF Panics, End, Goto
  <2>6. CASE HeadSent(r)
    BY <2>6 DEF HeadSent, Goto
  <2>7. CASE WriteRefused(r)
    BY <2>7 DEF WriteRefused, Retry, Goto, is_replayable
  <2>8. CASE Resend(r)
    BY <2>8 DEF Resend, Goto
  <2>9. CASE StreamPiece(r)
    BY <2>9 DEF StreamPiece
  <2>10. CASE StreamFails(r)
    BY <2>10 DEF StreamFails, Goto
  <2>11. CASE StreamEnds(r)
    BY <2>11 DEF StreamEnds, Goto
  <2>12. CASE ResponseHead(r)
    BY <2>12 DEF ResponseHead, Goto
  <2>13. CASE ResponseLost(r)
    BY <2>13 DEF ResponseLost, Goto, is_replayable
  <2>14. CASE ResponseBad(r)
    BY <2>14 DEF ResponseBad, Goto
  <2>15. CASE EmitHead(r)
    BY <2>15 DEF EmitHead, Goto
  <2>16. CASE RelayPiece(r)
    BY <2>16 DEF RelayPiece
  <2>17. CASE RelayFails(r)
    BY <2>17 DEF RelayFails, Goto
  <2>18. CASE EmitDone(r)
    BY <2>18 DEF EmitDone, Goto
  <2>19. CASE EmitAbort(r)
    BY <2>19 DEF EmitAbort, End, Goto
  <2>20. CASE NobodyListens(r)
    BY <2>20 DEF NobodyListens, End, Goto
  <2>21. CASE Park(r)
    BY <2>21 DEF Park, End, Goto
  <2>22. CASE Unparked(r)
    BY <2>22 DEF Unparked, End, Goto
  <2>23. CASE Discard(r)
    BY <2>23 DEF Discard, Goto
  <2>24. CASE Discarded(r)
    BY <2>24 DEF Discarded, Goto
  <2>25. CASE EmitPage(r)
    BY <2>25 DEF EmitPage, Goto
  <2>26. CASE EmitPageEnd(r)
    BY <2>26 DEF EmitPageEnd, End, Goto
  <2>27. QED
    BY <1>4, <2>1, <2>2, <2>3, <2>4, <2>5, <2>6, <2>7, <2>8, <2>9, <2>10,
       <2>11, <2>12, <2>13, <2>14, <2>15, <2>16, <2>17, <2>18, <2>19,
       <2>20, <2>21, <2>22, <2>23, <2>24, <2>25, <2>26 DEF Worker
<1>5. CASE Over
  BY <1>5 DEF Over, vars, workVars
<1>6. QED
  BY <1>1, <1>2, <1>3, <1>4, <1>5 DEF Next

\* Every count stays within its bound: a body is never larger than its size.
LEMMA CountTypeStep == IInv /\ [Next]_vars => CountType'
<1> SUFFICES ASSUME IInv, [Next]_vars PROVE CountType'
  OBVIOUS
<1> CountType /\ ReaderType /\ \A r \in Requests : BodyInv(r)
  BY TypeParts DEF IInv
<1> USE BoundAssumption, CapacityAssumption DEF CountType
<1>1. CASE UNCHANGED vars
  BY <1>1 DEF vars, workVars
<1>2. CASE Reader
  <2>1. CASE SendBody
    <3>1. cur \in Requests
      BY <2>1 DEF IInv, SendBody, ReaderInv
    <3>2. QED
      BY <1>2, <2>1, <3>1, ReaderFrame DEF SendBody
  <2>2. QED
    BY <1>2, <2>1, ReaderFrame
<1>3. CASE Writer
  BY <1>3, WriterFrame DEF workVars
<1>4. ASSUME NEW r \in Requests, Worker(r) PROVE CountType'
  <2>1. BodyInv(r) /\ unread \in Nat /\ size[r] \in 0 .. MaxBody
    BY DEF ReaderType
  <2>2. CASE AcquireParked(r)
    BY <2>1, <2>2 DEF AcquireParked, BodyInv
  <2>3. CASE AcquireMiss(r)
    BY <2>1, <2>3 DEF AcquireMiss, BodyInv
  <2>4. CASE Dialled(r)
    BY <2>4 DEF Dialled
  <2>5. CASE DialFails(r)
    BY <2>5 DEF DialFails
  <2>6. CASE Panics(r)
    BY <2>6 DEF Panics, End
  <2>7. CASE HeadSent(r)
    BY <2>7 DEF HeadSent
  <2>8. CASE WriteRefused(r)
    BY <2>8 DEF WriteRefused
  <2>9. CASE Resend(r)
    BY <2>9 DEF Resend
  <2>10. CASE StreamPiece(r)
    BY <2>1, <2>10 DEF StreamPiece, BodyInv, Unsent
  <2>11. CASE StreamFails(r)
    BY <2>1, <2>11 DEF StreamFails, BodyInv, Unsent
  <2>12. CASE StreamEnds(r)
    BY <2>12 DEF StreamEnds
  <2>13. CASE ResponseHead(r)
    BY <2>13 DEF ResponseHead
  <2>14. CASE ResponseLost(r)
    BY <2>14 DEF ResponseLost
  <2>15. CASE ResponseBad(r)
    BY <2>15 DEF ResponseBad
  <2>16. CASE EmitHead(r)
    BY <2>16 DEF EmitHead
  <2>17. CASE RelayPiece(r)
    BY <2>17 DEF RelayPiece
  <2>18. CASE RelayFails(r)
    BY <2>18 DEF RelayFails
  <2>19. CASE EmitDone(r)
    BY <2>19 DEF EmitDone
  <2>20. CASE EmitAbort(r)
    BY <2>20 DEF EmitAbort, End
  <2>21. CASE NobodyListens(r)
    BY <2>21 DEF NobodyListens, End
  <2>22. CASE Park(r)
    BY <2>22 DEF Park, End
  <2>23. CASE Unparked(r)
    BY <2>23 DEF Unparked, End
  <2>24. CASE Discard(r)
    BY <2>1, <2>24 DEF Discard, BodyInv, Unsent
  <2>25. CASE Discarded(r)
    BY <2>25 DEF Discarded
  <2>26. CASE EmitPage(r)
    BY <2>26 DEF EmitPage
  <2>27. CASE EmitPageEnd(r)
    BY <2>27 DEF EmitPageEnd, End
  <2>28. QED
    BY <1>4, <2>2, <2>3, <2>4, <2>5, <2>6, <2>7, <2>8, <2>9, <2>10, <2>11,
       <2>12, <2>13, <2>14, <2>15, <2>16, <2>17, <2>18, <2>19, <2>20,
       <2>21, <2>22, <2>23, <2>24, <2>25, <2>26, <2>27 DEF Worker
<1>5. CASE Over
  BY <1>5 DEF Over, vars, workVars
<1>6. QED
  BY <1>1, <1>2, <1>3, <1>4, <1>5 DEF Next

\* Types, together.
LEMMA TypeStep == IInv /\ [Next]_vars => TypeOK'
<1> SUFFICES ASSUME IInv, [Next]_vars PROVE TypeOK'
  OBVIOUS
<1>1. ReaderType' /\ WriterType' /\ EventType' /\ PlaceType' /\ CountType'
  BY ReaderTypeStep, WriterTypeStep, EventTypeStep, PlaceTypeStep, CountTypeStep
<1>2. QED
  BY <1>1 DEF TypeOK, ReaderType, WriterType, EventType, PlaceType, CountType

\* The reader knows what it works on, and where it is in the client's bytes.
LEMMA ReaderStep == IInv /\ [Next]_vars => ReaderInv'
<1> SUFFICES ASSUME IInv, [Next]_vars PROVE ReaderInv'
  OBVIOUS
<1> ReaderType /\ ReaderInv
  BY TypeParts DEF IInv
<1> USE BoundAssumption, KindsAssumption
    DEF ReaderInv, ReaderType, SyncedUnlessStatic, Pending, Upstreams, Requests, AllKinds
<1>1. CASE UNCHANGED vars
  BY <1>1 DEF vars, readerVars
<1>2. CASE Reader
  <2>1. CASE ReadHead
    BY <2>1 DEF ReadHead, FirstStep
  <2>2. CASE ReadHeadFails
    BY <2>2 DEF ReadHeadFails
  <2>3. CASE Drain
    BY <2>3 DEF Drain
  <2>4. CASE Drained
    BY <2>4 DEF Drained
  <2>5. CASE DrainFails
    BY <2>5 DEF DrainFails
  <2>6. CASE Emit
    BY <2>6 DEF Emit
  <2>7. CASE Reserve
    BY <2>7 DEF Reserve
  <2>8. CASE NoWriter
    BY <2>8 DEF NoWriter
  <2>9. CASE SendBody
    BY <2>9 DEF SendBody
  <2>10. CASE BodySent
    BY <2>10 DEF BodySent
  <2>11. CASE SendBodyFails
    BY <2>11 DEF SendBodyFails
  <2>12. CASE Close
    BY <2>12 DEF Close
  <2>13. CASE Upgrade
    BY <2>13 DEF Upgrade
  <2>14. CASE WsDialled
    BY <2>14 DEF WsDialled, WsStep
  <2>15. CASE WsHeadSent
    BY <2>15 DEF WsHeadSent, WsStep
  <2>16. CASE WsResponse
    BY <2>16 DEF WsResponse, WsStep
  <2>17. CASE WsRelay
    BY <2>17 DEF WsRelay
  <2>18. CASE WsRefused
    BY <2>18 DEF WsRefused
  <2>19. CASE WsShutdown
    BY <2>19 DEF WsShutdown, WsStep
  <2>20. CASE WsFails
    BY <2>20 DEF WsFails
  <2>21. CASE PumpEnds
    BY <2>21 DEF PumpEnds, WsStep
  <2>22. CASE TunnelEnds
    BY <2>22 DEF TunnelEnds, WsStep
  <2>23. QED
    BY <1>2, <2>1, <2>2, <2>3, <2>4, <2>5, <2>6, <2>7, <2>8, <2>9, <2>10,
       <2>11, <2>12, <2>13, <2>14, <2>15, <2>16, <2>17, <2>18, <2>19,
       <2>20, <2>21, <2>22 DEF Reader
<1>3. CASE Writer
  BY <1>3, WriterFrame DEF readerVars
<1>4. ASSUME NEW r \in Requests, Worker(r) PROVE ReaderInv'
  BY <1>4, WorkerFrame DEF readerVars
<1>5. CASE Over
  BY <1>5 DEF Over, vars, readerVars
<1>6. QED
  BY <1>1, <1>2, <1>3, <1>4, <1>5 DEF Next

\* A worker changes nothing of another one.
LEMMA OtherWorkers ==
  ASSUME IInv, NEW r \in Requests, Worker(r), NEW q \in Requests \ {r}
  PROVE  /\ body'[q] = body[q] /\ wpc'[q] = wpc[q] /\ attempt'[q] = attempt[q]
         /\ conn'[q] = conn[q] /\ taken'[q] = taken[q] /\ put'[q] = put[q]
         /\ discarded'[q] = discarded[q] /\ left'[q] = left[q] /\ events'[q] = events[q]
<1> PlaceType /\ CountType /\ EventType
  BY TypeParts DEF IInv
<1> USE DEF PlaceType, CountType, EventType
<1>1. CASE AcquireParked(r)
  BY <1>1 DEF AcquireParked, Goto
<1>2. CASE AcquireMiss(r)
  BY <1>2 DEF AcquireMiss, Goto
<1>3. CASE Dialled(r)
  BY <1>3 DEF Dialled, Goto
<1>4. CASE DialFails(r)
  BY <1>4 DEF DialFails, Goto
<1>5. CASE Panics(r)
  BY <1>5 DEF Panics, End, Goto
<1>6. CASE HeadSent(r)
  BY <1>6 DEF HeadSent, Goto
<1>7. CASE WriteRefused(r)
  BY <1>7 DEF WriteRefused, Retry, Goto, is_replayable
<1>8. CASE Resend(r)
  BY <1>8 DEF Resend, Goto
<1>9. CASE StreamPiece(r)
  BY <1>9 DEF StreamPiece
<1>10. CASE StreamFails(r)
  BY <1>10 DEF StreamFails, Goto
<1>11. CASE StreamEnds(r)
  BY <1>11 DEF StreamEnds, Goto
<1>12. CASE ResponseHead(r)
  BY <1>12 DEF ResponseHead, Goto
<1>13. CASE ResponseLost(r)
  BY <1>13 DEF ResponseLost, Goto, is_replayable
<1>14. CASE ResponseBad(r)
  BY <1>14 DEF ResponseBad, Goto
<1>15. CASE EmitHead(r)
  BY <1>15 DEF EmitHead, Send, Goto
<1>16. CASE RelayPiece(r)
  BY <1>16 DEF RelayPiece, Send
<1>17. CASE RelayFails(r)
  BY <1>17 DEF RelayFails, Goto
<1>18. CASE EmitDone(r)
  BY <1>18 DEF EmitDone, Send, Goto
<1>19. CASE EmitAbort(r)
  BY <1>19 DEF EmitAbort, Send, End, Goto
<1>20. CASE NobodyListens(r)
  BY <1>20 DEF NobodyListens, End, Goto
<1>21. CASE Park(r)
  BY <1>21 DEF Park, End, Goto
<1>22. CASE Unparked(r)
  BY <1>22 DEF Unparked, End, Goto
<1>23. CASE Discard(r)
  BY <1>23 DEF Discard, Goto
<1>24. CASE Discarded(r)
  BY <1>24 DEF Discarded, Goto
<1>25. CASE EmitPage(r)
  BY <1>25 DEF EmitPage, Send, Goto
<1>26. CASE EmitPageEnd(r)
  BY <1>26 DEF EmitPageEnd, Send, End, Goto
<1>27. QED
  BY <1>1, <1>2, <1>3, <1>4, <1>5, <1>6, <1>7, <1>8, <1>9, <1>10,
     <1>11, <1>12, <1>13, <1>14, <1>15, <1>16, <1>17, <1>18, <1>19,
     <1>20, <1>21, <1>22, <1>23, <1>24, <1>25, <1>26 DEF Worker

\* Every piece of a body stays in one place.
LEMMA BodyStep == IInv /\ [Next]_vars => \A q \in Requests : BodyInv(q)'
<1> SUFFICES ASSUME IInv, [Next]_vars, NEW q \in Requests PROVE BodyInv(q)'
  OBVIOUS
<1> ReaderType /\ ReaderInv /\ CountType /\ PlaceType /\ BodyInv(q)
  BY TypeParts DEF IInv
<1> USE BoundAssumption, CapacityAssumption
    DEF Requests
<1>1. CASE UNCHANGED vars
  BY <1>1 DEF vars, readerVars, workVars, BodyInv, Unsent, Pending, BodyOpen
<1>2. CASE Reader
  <2>1. CASE ReadHead
    <3>1. /\ cur \in Nat /\ cur' = cur + 1 /\ rpc = "head" /\ rpc' # "body"
          /\ UNCHANGED <<body, workVars>>
          /\ q # cur + 1 => kind'[q] = kind[q] /\ size'[q] = size[q]
      <4>1. PICK k \in Kinds, n \in 0 .. MaxBody :
               /\ kind' = [kind EXCEPT ![cur + 1] = k]
               /\ size' = [size EXCEPT ![cur + 1] = n]
               /\ rpc' = FirstStep(k)
        BY <2>1 DEF ReadHead
      <4>2. rpc' # "body"
        BY <4>1, KindsAssumption DEF FirstStep, AllKinds, Upstreams
      <4>3. cur \in Nat /\ cur' = cur + 1 /\ rpc = "head" /\ UNCHANGED <<body, workVars>>
        BY <2>1 DEF ReadHead, ReaderType
      <4>4. q # cur + 1 => kind'[q] = kind[q] /\ size'[q] = size[q]
        BY <4>1 DEF ReaderType
      <4>5. QED
        BY <4>2, <4>3, <4>4
    <3>2. q = cur /\ wpc[q] # "none" => unread = 0
      BY <3>1 DEF BodyInv, ReaderInv, SyncedUnlessStatic, Upstreams, ReaderType
    <3>3. q = cur + 1 => wpc[q] = "none"
      BY <3>1 DEF BodyInv
    <3>4. wpc[q] # "none" => q # cur' /\ q <= cur' /\ Unsent(q) = 0 /\ Unsent(q)' = 0
      BY <3>1, <3>2, <3>3 DEF BodyInv, Unsent
    <3>5. QED
      BY <3>1, <3>3, <3>4 DEF BodyInv, BodyOpen, workVars, CountType
  <2>2. CASE ReadHeadFails
    BY <2>2 DEF ReadHeadFails, BodyInv, Unsent, Pending, BodyOpen, workVars, ReaderType,
       CountType, PlaceType, ReaderInv, SyncedUnlessStatic, Upstreams
  <2>3. CASE Drain
    BY <2>3 DEF Drain, BodyInv, Unsent, Pending, BodyOpen, workVars, ReaderType, CountType,
       PlaceType, ReaderInv, SyncedUnlessStatic, Upstreams
  <2>4. CASE Drained
    BY <2>4 DEF Drained, BodyInv, Unsent, Pending, BodyOpen, workVars, ReaderType, CountType,
       PlaceType, ReaderInv, SyncedUnlessStatic, Upstreams
  <2>5. CASE DrainFails
    BY <2>5 DEF DrainFails, BodyInv, Unsent, Pending, BodyOpen, workVars, ReaderType, CountType,
       PlaceType, ReaderInv, SyncedUnlessStatic, Upstreams
  <2>6. CASE Emit
    BY <2>6 DEF Emit, CanReserve, WriterAlive, BodyInv, Unsent, Pending, BodyOpen, workVars,
       ReaderType, CountType, PlaceType, ReaderInv, SyncedUnlessStatic, Upstreams
  <2>7. CASE Reserve
    <3>1. cur \in Requests /\ kind[cur] \in Upstreams /\ unread = size[cur]
      BY <2>7 DEF Reserve, ReaderInv, Pending
    <3>2. /\ rpc = "slot" /\ rpc' = "body" /\ wpc' = [wpc EXCEPT ![cur] = "acquire"]
          /\ UNCHANGED <<cur, kind, size, unread, body, attempt, taken, put, discarded, left>>
      BY <2>7 DEF Reserve
    <3>3. CASE q = cur
      <4>1. wpc[q] = "none"
        BY <3>2, <3>3 DEF BodyInv, Pending
      <4>2. QED
        BY <3>1, <3>2, <3>3, <4>1 DEF BodyInv, Unsent, Pending, BodyOpen, PlaceType, CountType,
           ReaderType
    <3>4. CASE q # cur
      BY <3>2, <3>4 DEF BodyInv, Unsent, Pending, BodyOpen, PlaceType
    <3>5. QED
      BY <3>3, <3>4
  <2>8. CASE NoWriter
    BY <2>8 DEF NoWriter, WriterAlive, BodyInv, Unsent, Pending, BodyOpen, workVars, ReaderType,
       CountType, PlaceType, ReaderInv, SyncedUnlessStatic, Upstreams
  <2>9. CASE SendBody
    <3>1. /\ cur \in Requests /\ rpc = "body" /\ UNCHANGED <<rpc, cur, kind, size, workVars>>
          /\ wpc[cur] \notin {"none", "end"}
          /\ unread' = unread - 1 /\ body' = [body EXCEPT ![cur] = @ + 1]
      BY <2>9 DEF SendBody, BodyWanted, ReaderInv
    <3>2. CASE q = cur
      <4>1. body'[q] = body[q] + 1 /\ Unsent(q)' = Unsent(q) - 1
        BY <3>1, <3>2 DEF Unsent, CountType
      <4>2. Unsent(q) \in Int
        BY DEF Unsent, ReaderType
      <4>3. /\ body[q] \in Int /\ taken[q] \in Int /\ discarded[q] \in Int /\ size[q] \in Int
        BY DEF CountType, ReaderType
      <4>4. /\ UNCHANGED <<taken, discarded, size, wpc, put, attempt, left, kind>>
            /\ taken[q] + body[q] + discarded[q] + Unsent(q) = size[q]
        BY <3>1, <3>2 DEF BodyInv, workVars
      <4>5. taken'[q] + body'[q] + discarded'[q] + Unsent(q)' = size'[q]
        BY <4>1, <4>2, <4>3, <4>4
      <4>6. QED
        BY <3>1, <3>2, <4>4, <4>5 DEF BodyInv, Pending, BodyOpen
    <3>3. CASE q # cur
      BY <3>1, <3>3 DEF BodyInv, Unsent, Pending, BodyOpen, workVars, CountType
    <3>4. QED
      BY <3>2, <3>3
  <2>10. CASE BodySent
    BY <2>10 DEF BodySent, BodyInv, Unsent, Pending, BodyOpen, workVars, ReaderType, CountType,
       PlaceType, ReaderInv, SyncedUnlessStatic, Upstreams
  <2>11. CASE SendBodyFails
    BY <2>11 DEF SendBodyFails, BodyInv, Unsent, Pending, BodyOpen, workVars, ReaderType,
       CountType, PlaceType, ReaderInv, SyncedUnlessStatic, Upstreams
  <2>12. CASE Close
    BY <2>12 DEF Close, WriterAlive, BodyInv, Unsent, Pending, BodyOpen, workVars, ReaderType,
       CountType, PlaceType, ReaderInv, SyncedUnlessStatic, Upstreams
  <2>13. CASE Upgrade
    BY <2>13 DEF Upgrade, WriterAlive, BodyInv, Unsent, Pending, BodyOpen, workVars, ReaderType,
       CountType, PlaceType, ReaderInv, SyncedUnlessStatic, Upstreams
  <2>14. CASE WsDialled
    BY <2>14 DEF WsDialled, WsStep, BodyInv, Unsent, Pending, BodyOpen, workVars, ReaderType,
       CountType, PlaceType, ReaderInv, SyncedUnlessStatic, Upstreams
  <2>15. CASE WsHeadSent
    BY <2>15 DEF WsHeadSent, WsStep, BodyInv, Unsent, Pending, BodyOpen, workVars, ReaderType,
       CountType, PlaceType, ReaderInv, SyncedUnlessStatic, Upstreams
  <2>16. CASE WsResponse
    BY <2>16 DEF WsResponse, WsStep, BodyInv, Unsent, Pending, BodyOpen, workVars, ReaderType,
       CountType, PlaceType, ReaderInv, SyncedUnlessStatic, Upstreams
  <2>17. CASE WsRelay
    BY <2>17 DEF WsRelay, BodyInv, Unsent, Pending, BodyOpen, workVars, ReaderType, CountType,
       PlaceType, ReaderInv, SyncedUnlessStatic, Upstreams
  <2>18. CASE WsRefused
    BY <2>18 DEF WsRefused, BodyInv, Unsent, Pending, BodyOpen, workVars, ReaderType, CountType,
       PlaceType, ReaderInv, SyncedUnlessStatic, Upstreams
  <2>19. CASE WsShutdown
    BY <2>19 DEF WsShutdown, WsStep, BodyInv, Unsent, Pending, BodyOpen, workVars, ReaderType,
       CountType, PlaceType, ReaderInv, SyncedUnlessStatic, Upstreams
  <2>20. CASE WsFails
    BY <2>20 DEF WsFails, BodyInv, Unsent, Pending, BodyOpen, workVars, ReaderType, CountType,
       PlaceType, ReaderInv, SyncedUnlessStatic, Upstreams
  <2>21. CASE PumpEnds
    BY <2>21 DEF PumpEnds, WsStep, BodyInv, Unsent, Pending, BodyOpen, workVars, ReaderType,
       CountType, PlaceType, ReaderInv, SyncedUnlessStatic, Upstreams
  <2>22. CASE TunnelEnds
    BY <2>22 DEF TunnelEnds, WsStep, BodyInv, Unsent, Pending, BodyOpen, workVars, ReaderType,
       CountType, PlaceType, ReaderInv, SyncedUnlessStatic, Upstreams
  <2>23. QED
    BY <1>2, <2>1, <2>2, <2>3, <2>4, <2>5, <2>6, <2>7, <2>8, <2>9, <2>10,
       <2>11, <2>12, <2>13, <2>14, <2>15, <2>16, <2>17, <2>18, <2>19,
       <2>20, <2>21, <2>22 DEF Reader
<1>3. CASE Writer
  BY <1>3, WriterFrame DEF readerVars, workVars, BodyInv, Unsent, Pending, BodyOpen
<1>4. ASSUME NEW r \in Requests, Worker(r) PROVE BodyInv(q)'
  <2> UNCHANGED <<rpc, cur, kind, size, unread>>
    BY <1>4, WorkerFrame DEF readerVars
  <2>0. CASE q # r
    BY <1>4, <2>0, OtherWorkers DEF BodyInv, Unsent, Pending, BodyOpen
  <2> SUFFICES ASSUME q = r PROVE BodyInv(r)'
    BY <2>0
  <2> USE DEF BodyInv, Unsent, Pending, BodyOpen, ReaderType, CountType, PlaceType
  <2>1. CASE AcquireParked(r)
    BY <2>1 DEF AcquireParked, Goto
  <2>2. CASE AcquireMiss(r)
    BY <2>2 DEF AcquireMiss, Goto
  <2>3. CASE Dialled(r)
    BY <2>3 DEF Dialled, Goto
  <2>4. CASE DialFails(r)
    BY <2>4 DEF DialFails, Goto
  <2>5. CASE Panics(r)
    BY <2>5 DEF Panics, End, Goto
  <2>6. CASE HeadSent(r)
    BY <2>6 DEF HeadSent, Goto
  <2>7. CASE WriteRefused(r)
    BY <2>7 DEF WriteRefused, Retry, Goto, is_replayable
  <2>8. CASE Resend(r)
    BY <2>8 DEF Resend, Goto
  <2>9. CASE StreamPiece(r)
    <3>1. /\ wpc[r] = "stream" /\ body'[r] = body[r] - 1 /\ taken'[r] = taken[r] + 1
          /\ put'[r] = put[r] + 1
          /\ UNCHANGED <<wpc, attempt, discarded, left>>
      BY <2>9 DEF StreamPiece
    <3>2. /\ body[r] \in Int /\ taken[r] \in Int /\ put[r] \in Int /\ discarded[r] \in Int
          /\ unread \in Int /\ size[r] \in Int /\ attempt[r] \in Int
      BY DEF CountType, ReaderType
    <3>3. taken'[r] + body'[r] + discarded'[r] + Unsent(r)' = size'[r]
      <4>1. Unsent(r)' = Unsent(r) /\ Unsent(r) \in Int
        BY <3>2
      <4>2. taken[r] + body[r] + discarded[r] + Unsent(r) = size[r]
        BY <3>1
      <4> HIDE DEF Unsent, BodyInv, CountType, ReaderType, PlaceType
      <4>3. QED
        BY <3>1, <3>2, <4>1, <4>2
    <3> HIDE DEF Unsent, CountType, ReaderType, PlaceType
    <3>4. put'[r] <= taken'[r]
      BY <3>1, <3>2
    <3>5. QED
      BY <3>1, <3>2, <3>3, <3>4
  <2>10. CASE StreamFails(r)
    <3>1. /\ wpc[r] = "stream" /\ body'[r] = body[r] - 1 /\ taken'[r] = taken[r] + 1
          /\ wpc'[r] \in {"acquire", "fail"}
          /\ wpc'[r] = "acquire" => attempt[r] < MAX_DELIVERY_ATTEMPTS
          /\ UNCHANGED <<put, attempt, discarded, left>>
      BY <2>10 DEF StreamFails, Goto
    <3>2. /\ body[r] \in Int /\ taken[r] \in Int /\ put[r] \in Int /\ discarded[r] \in Int
          /\ unread \in Int /\ size[r] \in Int /\ attempt[r] \in Int
      BY DEF CountType, ReaderType
    <3>3. taken'[r] + body'[r] + discarded'[r] + Unsent(r)' = size'[r]
      <4>1. Unsent(r)' = Unsent(r) /\ Unsent(r) \in Int
        BY <3>2
      <4>2. taken[r] + body[r] + discarded[r] + Unsent(r) = size[r]
        BY <3>1
      <4> HIDE DEF Unsent, BodyInv, CountType, ReaderType, PlaceType
      <4>3. QED
        BY <3>1, <3>2, <4>1, <4>2
    <3> HIDE DEF Unsent, CountType, ReaderType, PlaceType
    <3>4. put'[r] <= taken'[r]
      BY <3>1, <3>2
    <3>5. QED
      BY <3>1, <3>2, <3>3, <3>4
  <2>11. CASE StreamEnds(r)
    BY <2>11 DEF StreamEnds, Goto
  <2>12. CASE ResponseHead(r)
    BY <2>12 DEF ResponseHead, Goto
  <2>13. CASE ResponseLost(r)
    BY <2>13 DEF ResponseLost, Goto, is_replayable
  <2>14. CASE ResponseBad(r)
    BY <2>14 DEF ResponseBad, Goto
  <2>15. CASE EmitHead(r)
    BY <2>15 DEF EmitHead, Goto
  <2>16. CASE RelayPiece(r)
    BY <2>16 DEF RelayPiece
  <2>17. CASE RelayFails(r)
    BY <2>17 DEF RelayFails, Goto
  <2>18. CASE EmitDone(r)
    BY <2>18 DEF EmitDone, Goto
  <2>19. CASE EmitAbort(r)
    BY <2>19 DEF EmitAbort, End, Goto
  <2>20. CASE NobodyListens(r)
    <3>1. End(r) /\ wpc[r] # "none"
      BY <2>20 DEF NobodyListens
    <3>2. QED
      BY <3>1 DEF End, Goto
  <2>21. CASE Park(r)
    BY <2>21 DEF Park, End, Goto
  <2>22. CASE Unparked(r)
    BY <2>22 DEF Unparked, End, Goto
  <2>23. CASE Discard(r)
    <3>1. /\ wpc[r] = "fail" /\ body'[r] = body[r] - 1 /\ discarded'[r] = discarded[r] + 1
          /\ wpc'[r] \in {"fail", "page", "abort"}
          /\ UNCHANGED <<put, attempt, taken, left>>
      BY <2>23 DEF Discard, Goto
    <3>2. /\ body[r] \in Int /\ taken[r] \in Int /\ put[r] \in Int /\ discarded[r] \in Int
          /\ unread \in Int /\ size[r] \in Int /\ attempt[r] \in Int
      BY DEF CountType, ReaderType
    <3>3. taken'[r] + body'[r] + discarded'[r] + Unsent(r)' = size'[r]
      <4>1. Unsent(r)' = Unsent(r) /\ Unsent(r) \in Int
        BY <3>2
      <4>2. taken[r] + body[r] + discarded[r] + Unsent(r) = size[r]
        BY <3>1
      <4> HIDE DEF Unsent, BodyInv, CountType, ReaderType, PlaceType
      <4>3. QED
        BY <3>1, <3>2, <4>1, <4>2
    <3> HIDE DEF Unsent, CountType, ReaderType, PlaceType
    <3>4. put'[r] <= taken'[r]
      BY <3>1, <3>2
    <3>5. QED
      BY <3>1, <3>2, <3>3, <3>4
  <2>24. CASE Discarded(r)
    BY <2>24 DEF Discarded, Goto
  <2>25. CASE EmitPage(r)
    BY <2>25 DEF EmitPage, Goto
  <2>26. CASE EmitPageEnd(r)
    BY <2>26 DEF EmitPageEnd, End, Goto
  <2>27. QED
    BY <1>4, <2>1, <2>2, <2>3, <2>4, <2>5, <2>6, <2>7, <2>8, <2>9, <2>10,
       <2>11, <2>12, <2>13, <2>14, <2>15, <2>16, <2>17, <2>18, <2>19,
       <2>20, <2>21, <2>22, <2>23, <2>24, <2>25, <2>26 DEF Worker
<1>5. CASE Over
  BY <1>5 DEF Over, vars, readerVars, workVars, BodyInv, Unsent, Pending, BodyOpen
<1>6. QED
  BY <1>1, <1>2, <1>3, <1>4, <1>5 DEF Next

\* The requests up to Reserved have their slots; Emit and Reserve add the next.
LEMMA ReaderOrder ==
  ASSUME IInv, Reader
  PROVE  /\ \A q \in Requests : q <= Reserved => out'[q] = out[q]
         /\ Reserved \in Int
         /\ \/ /\ Emit \/ Reserve
               /\ cur \in Requests /\ Reserved = cur - 1 /\ Reserved' = cur
               /\ queue' = Append(queue, cur) /\ WriterAlive /\ out' = out
               /\ out[cur] = "none" /\ events[cur] = << >>
               /\ rpc \in {"emit", "slot"} /\ rpc' \in {"head", "body", "close"}
            \/ /\ UNCHANGED queue /\ Reserved' \in Int /\ Reserved <= Reserved'
               /\ rpc' \notin {"close", "closed"} =>
                     Reserved' = Reserved /\ rpc \notin {"close", "closed"}
<1> ReaderType /\ ReaderInv /\ WriterType /\ FutureInv
  BY TypeParts DEF IInv
<1> USE BoundAssumption DEF Reserved, Pending, ReaderType, Requests
<1>1. CASE ReadHead
  <2>1. PICK k \in Kinds : rpc' = FirstStep(k)
    BY <1>1 DEF ReadHead
  <2>2. rpc' \in {"close", "emit", "drain", "upgrade", "slot"}
    BY <2>1, KindsAssumption DEF FirstStep, AllKinds, Upstreams
  <2>3. rpc = "head" /\ cur' = cur + 1 /\ UNCHANGED <<queue, out>>
    BY <1>1 DEF ReadHead, writerVars
  <2>4. QED
    BY <2>2, <2>3
<1>2. CASE ReadHeadFails
  BY <1>2 DEF ReadHeadFails, writerVars
<1>3. CASE Drain
  BY <1>3 DEF Drain, writerVars
<1>4. CASE Drained
  BY <1>4 DEF Drained, writerVars
<1>5. CASE DrainFails
  BY <1>5 DEF DrainFails, writerVars
<1>6. CASE Emit
  BY <1>6 DEF Emit, CanReserve, ReaderInv, FutureInv, writerVars
<1>7. CASE Reserve
  BY <1>7 DEF Reserve, CanReserve, ReaderInv, FutureInv, writerVars
<1>8. CASE NoWriter
  BY <1>8 DEF NoWriter, writerVars
<1>9. CASE SendBody
  BY <1>9 DEF SendBody, writerVars
<1>10. CASE BodySent
  BY <1>10 DEF BodySent, writerVars
<1>11. CASE SendBodyFails
  BY <1>11 DEF SendBodyFails, writerVars
<1>12. CASE Close
  BY <1>12 DEF Close, writerVars
<1>13. CASE Upgrade
  BY <1>13 DEF Upgrade, writerVars
<1>14. CASE WsDialled
  BY <1>14 DEF WsDialled, WsStep, writerVars
<1>15. CASE WsHeadSent
  BY <1>15 DEF WsHeadSent, WsStep, writerVars
<1>16. CASE WsResponse
  BY <1>16 DEF WsResponse, WsStep, writerVars
<1>17. CASE WsRelay
  BY <1>17 DEF WsRelay, WriterType
<1>18. CASE WsRefused
  BY <1>18 DEF WsRefused, WriterType
<1>19. CASE WsShutdown
  BY <1>19 DEF WsShutdown, WsStep, writerVars
<1>20. CASE WsFails
  BY <1>20 DEF WsFails, WriterType
<1>21. CASE PumpEnds
  BY <1>21 DEF PumpEnds, WsStep, writerVars
<1>22. CASE TunnelEnds
  BY <1>22 DEF TunnelEnds, WsStep, writerVars
<1>23. QED
  BY <1>1, <1>2, <1>3, <1>4, <1>5, <1>6, <1>7, <1>8, <1>9, <1>10,
     <1>11, <1>12, <1>13, <1>14, <1>15, <1>16, <1>17, <1>18, <1>19,
     <1>20, <1>21, <1>22 DEF Reader

\* The writer is at its slot, and not at one that is queued.
LEMMA SlotNotQueued ==
  ASSUME IInv, writer = "slot", NEW i \in 1 .. Len(queue)
  PROVE  queue[i] # slot
<1> QueueInv /\ SlotInv /\ WriterType
  BY TypeParts DEF IInv
<1>1. queue # << >>
  BY DEF WriterType
<1>2. queue[1] = slot + 1 /\ queue[i] = queue[1] + i - 1 /\ slot \in Int
  BY <1>1 DEF QueueInv, SlotInv, WriterType
<1>3. QED
  BY <1>2

\* The queue without its head.
LEMMA TailOfQueue ==
  ASSUME IInv, queue # << >>
  PROVE  /\ Len(Tail(queue)) = Len(queue) - 1
         /\ \A i \in 1 .. Len(Tail(queue)) : Tail(queue)[i] = queue[i + 1]
         /\ Tail(queue) # << >> => Len(queue) >= 2
         /\ Tail(queue) = << >> => Len(queue) = 1
         /\ Head(queue) = queue[1] /\ Len(queue) >= 1
<1> queue \in Seq(Requests)
  BY TypeParts DEF IInv, WriterType
<1>1. Len(queue) \in Nat /\ Len(queue) # 0
  OBVIOUS
<1>2. Tail(queue) \in Seq(Requests) /\ Len(Tail(queue)) = Len(queue) - 1
  BY <1>1
<1>3. \A i \in 1 .. Len(Tail(queue)) : Tail(queue)[i] = queue[i + 1]
  BY <1>1, <1>2
<1>4. Tail(queue) = << >> <=> Len(Tail(queue)) = 0
  <2>1. ASSUME NEW s \in Seq(Requests) PROVE s = << >> <=> Len(s) = 0
    OBVIOUS
  <2>2. QED
    BY <1>2, <2>1
<1>5. Head(queue) = queue[1]
  OBVIOUS
<1>6. QED
  BY <1>1, <1>2, <1>3, <1>4, <1>5

\* The slots stay consecutive.
LEMMA QueueStep == IInv /\ [Next]_vars => QueueInv'
<1> SUFFICES ASSUME IInv, [Next]_vars PROVE QueueInv'
  OBVIOUS
<1> QueueInv /\ SlotInv /\ WriterType
  BY TypeParts DEF IInv
<1>1. CASE UNCHANGED vars
  BY <1>1 DEF vars, readerVars, writerVars, QueueInv, Reserved, Pending, WriterAlive
<1>2. CASE Reader
  <2>1. CASE /\ UNCHANGED queue /\ Reserved' \in Int /\ Reserved <= Reserved'
             /\ rpc' \notin {"close", "closed"} =>
                   Reserved' = Reserved /\ rpc \notin {"close", "closed"}
    <3>1. \A i \in 1 .. Len(queue) : queue[i] \in Requests /\ queue[i] \in Int
      <4>1. \A i \in 1 .. Len(queue) : queue[i] \in Requests
        BY DEF WriterType
      <4>2. QED
        BY <4>1 DEF Requests
    <3>2. \A i \in 1 .. Len(queue) : queue[i] <= Reserved' /\ out'[queue[i]] = "none"
      BY <1>2, <2>1, <3>1, ReaderOrder DEF QueueInv
    <3>3. writer' = writer
      BY <1>2, ReaderFrame
    <3>4. QED
      BY <2>1, <3>2, <3>3 DEF QueueInv, WriterAlive
  <2>2. CASE /\ cur \in Requests /\ Reserved = cur - 1 /\ Reserved' = cur
             /\ queue' = Append(queue, cur) /\ WriterAlive /\ out' = out
             /\ out[cur] = "none"
             /\ rpc \in {"emit", "slot"}
    <3>1. queue \in Seq(Requests) /\ Len(queue) \in Nat /\ cur \in Int
      BY <2>2 DEF WriterType, Requests
    <3>2. /\ Len(queue') = Len(queue) + 1 /\ queue'[Len(queue) + 1] = cur
          /\ \A i \in 1 .. Len(queue) : queue'[i] = queue[i]
      BY <2>2, <3>1
    <3>3. queue # << >> => queue[1] + Len(queue) = cur /\ queue[1] \in Int /\ Len(queue) >= 1
      <4>1. queue # << >> => queue[Len(queue)] = cur - 1 /\ Len(queue) \in 1 .. Len(queue)
        BY <2>2, <3>1 DEF QueueInv
      <4>2. queue # << >> => queue[Len(queue)] = queue[1] + Len(queue) - 1 /\ queue[1] \in Requests
        BY <3>1, <4>1 DEF QueueInv
      <4>3. QED
        BY <3>1, <4>1, <4>2 DEF Requests
    <3>4. ASSUME NEW i \in 1 .. Len(queue') PROVE queue'[i] = queue'[1] + i - 1
      <4>1. CASE queue = << >>
        BY <3>1, <3>2, <4>1
      <4>2. CASE queue # << >> /\ i \in 1 .. Len(queue)
        BY <3>1, <3>2, <3>3, <4>2 DEF QueueInv
      <4>3. CASE queue # << >> /\ i = Len(queue) + 1
        BY <3>1, <3>2, <3>3, <4>3
      <4>4. QED
        BY <3>1, <3>2, <4>1, <4>2, <4>3
    <3>5. ASSUME NEW i \in 1 .. Len(queue') PROVE queue'[i] <= cur /\ out[queue'[i]] = "none"
      <4>1. CASE i \in 1 .. Len(queue)
        <5>1. queue[i] \in Requests
          BY <3>1, <4>1
        <5>2. QED
          BY <2>2, <3>1, <3>2, <4>1, <5>1 DEF QueueInv, Requests
      <4>2. CASE i = Len(queue) + 1
        BY <2>2, <3>1, <3>2, <4>2
      <4>3. QED
        BY <3>1, <3>2, <4>1, <4>2
    <3>6. WriterAlive'
      BY <1>2, <2>2, ReaderFrame DEF WriterAlive
    <3>7. QED
      BY <2>2, <3>1, <3>2, <3>4, <3>5, <3>6 DEF QueueInv
  <2>3. QED
    BY <1>2, <2>1, <2>2, ReaderOrder
<1>3. CASE Writer
  <2>1. Reserved' = Reserved /\ rpc' = rpc
    BY <1>3, WriterFrame DEF readerVars, Reserved, Pending
  <2>2. CASE TakeSlot
    <3>1. queue # << >> /\ queue' = Tail(queue) /\ out' = out /\ WriterAlive'
      BY <2>2 DEF TakeSlot, WriterAlive
    <3>2. Len(queue) \in Nat /\ queue[1] \in Int
      <4>1. Len(queue) \in Nat /\ queue[1] \in Requests
        BY <3>1 DEF WriterType
      <4>2. QED
        BY <4>1 DEF Requests
    <3>3. \A i \in 1 .. Len(queue') : queue'[i] = queue[i + 1] /\ i + 1 \in 1 .. Len(queue)
      BY <3>1, <3>2, TailOfQueue
    <3>4. \A i \in 1 .. Len(queue') : queue'[i] = queue'[1] + i - 1
      <4>1. SUFFICES ASSUME NEW i \in 1 .. Len(queue') PROVE queue'[i] = queue'[1] + i - 1
        OBVIOUS
      <4>2. Len(queue') \in Nat /\ 1 \in 1 .. Len(queue')
        BY <3>1, <3>2, TailOfQueue
      <4>3. queue'[1] = queue[2] /\ queue[2] = queue[1] + 2 - 1 /\ queue'[i] = queue[i + 1]
        BY <3>3, <4>2 DEF QueueInv
      <4>4. queue[i + 1] = queue[1] + (i + 1) - 1
        BY <3>3 DEF QueueInv
      <4>5. QED
        BY <3>2, <4>2, <4>3, <4>4
    <3>5. queue' # << >> => queue'[Len(queue')] = queue[Len(queue)]
      <4>1. queue' # << >> => Len(queue') \in 1 .. Len(queue') /\ Len(queue') + 1 = Len(queue)
        BY <3>1, <3>2, TailOfQueue
      <4>2. QED
        BY <3>3, <4>1
    <3>6. QED
      BY <2>1, <3>1, <3>3, <3>4, <3>5 DEF QueueInv
  <2>3. CASE WriterReturns
    BY <2>1, <2>3 DEF WriterReturns, QueueInv
  <2>4. CASE (WriteChunk \/ FinishSlot) /\ WriterAlive' /\ queue' = queue
    <3>1. /\ writer = "slot"
          /\ \A q \in Requests \ {slot} : out'[q] = out[q]
      BY <2>4 DEF WriteChunk, FinishSlot, Received, WriterType
    <3>2. \A i \in 1 .. Len(queue) : queue[i] \in Requests \ {slot}
      BY <3>1, SlotNotQueued DEF WriterType
    <3>3. QED
      BY <2>1, <2>4, <3>1, <3>2 DEF QueueInv
  <2>5. CASE GiveUp
    BY <2>1, <2>5 DEF GiveUp, QueueInv
  <2>6. QED
    BY <1>3, <2>2, <2>3, <2>4, <2>5
    DEF Writer, WriteChunk, FinishSlot, WriteFails, AbortSlot, SlotLost, WriterAlive, Received
<1>4. ASSUME NEW r \in Requests, Worker(r) PROVE QueueInv'
  BY <1>4, WorkerFrame DEF readerVars, writerVars, QueueInv, Reserved, Pending, WriterAlive
<1>5. CASE Over
  BY <1>5 DEF Over, vars, readerVars, writerVars, QueueInv, Reserved, Pending, WriterAlive
<1>6. QED
  BY <1>1, <1>2, <1>3, <1>4, <1>5 DEF Next

\* The writer's place stays the first that is not whole.
LEMMA SlotStep == IInv /\ [Next]_vars => SlotInv'
<1> SUFFICES ASSUME IInv, [Next]_vars PROVE SlotInv'
  OBVIOUS
<1> QueueInv /\ SlotInv /\ WriterType /\ HandoverInv
  BY TypeParts DEF IInv
<1>1. CASE UNCHANGED vars
  BY <1>1 DEF vars, readerVars, writerVars, SlotInv, Reserved, Pending
<1>2. CASE Reader
  <2>1. UNCHANGED <<writer, slot>> /\ slot \in Int /\ Reserved \in Int
    BY <1>2, ReaderFrame, ReaderOrder DEF WriterType
  <2>2. Reserved <= MaxRequests
    BY TypeParts, BoundAssumption DEF IInv, ReaderType, Reserved
  <2>3. \A q \in 1 .. Reserved : out'[q] = out[q]
    BY <1>2, <2>1, <2>2, ReaderOrder, BoundAssumption DEF Requests
  <2>4. CASE /\ UNCHANGED queue /\ Reserved' \in Int /\ Reserved <= Reserved'
             /\ rpc' \notin {"close", "closed"} =>
                   Reserved' = Reserved /\ rpc \notin {"close", "closed"}
    <3>1. writer = "slot" => /\ slot \in 1 .. Reserved' /\ out'[slot] # "whole"
                             /\ \A q \in 1 .. slot - 1 : out'[q] = "whole"
      BY <2>1, <2>3, <2>4 DEF SlotInv
    <3>2. writer = "idle" /\ queue # << >> => \A q \in 1 .. queue[1] - 1 : out'[q] = "whole"
      <4>1. SUFFICES ASSUME writer = "idle", queue # << >>, NEW q \in 1 .. queue[1] - 1
                     PROVE  out'[q] = "whole"
        OBVIOUS
      <4>2. queue[1] \in Requests /\ 1 \in 1 .. Len(queue)
        BY <4>1 DEF WriterType
      <4>3. q \in 1 .. Reserved
        BY <2>1, <4>2 DEF QueueInv, Requests
      <4>4. QED
        BY <2>3, <4>1, <4>3 DEF SlotInv
    <3>3. QED
      BY <2>1, <2>3, <2>4, <3>1, <3>2 DEF SlotInv
  <2>5. CASE /\ cur \in Requests /\ Reserved = cur - 1 /\ Reserved' = cur
             /\ queue' = Append(queue, cur) /\ out' = out
             /\ rpc \in {"emit", "slot"}
    <3>1. queue \in Seq(Requests) /\ Len(queue) \in Nat /\ cur \in Int
      BY <2>5 DEF WriterType, Requests
    <3>2. queue' # << >> /\ (queue = << >> => queue'[1] = cur)
          /\ (queue # << >> => queue'[1] = queue[1])
      BY <2>5, <3>1
    <3>3. writer = "slot" => queue'[1] = slot + 1
      BY <2>1, <2>5, <3>1, <3>2 DEF SlotInv
    <3>4. writer = "idle" => \A q \in 1 .. queue'[1] - 1 : out[q] = "whole"
      BY <2>5, <3>2 DEF SlotInv
    <3>5. writer = "slot" => slot \in 1 .. Reserved'
      BY <2>1, <2>5, <3>1 DEF SlotInv
    <3>6. QED
      BY <2>1, <2>5, <3>2, <3>3, <3>4, <3>5 DEF SlotInv
  <2>6. QED
    BY <1>2, <2>4, <2>5, ReaderOrder
<1>3. CASE Writer
  <2>1. Reserved' = Reserved /\ rpc' = rpc /\ slot \in Int /\ Reserved \in Int
    BY <1>3, WriterFrame, TypeParts, BoundAssumption
    DEF readerVars, Reserved, Pending, WriterType, IInv, ReaderType
  <2>2. CASE TakeSlot
    <3>1. /\ queue # << >> /\ queue' = Tail(queue) /\ out' = out /\ slot' = queue[1]
          /\ writer = "idle" /\ writer' = "slot"
      BY <2>2, TailOfQueue DEF TakeSlot
    <3>2. Len(queue) \in Nat /\ queue[1] \in Requests /\ queue[1] \in Int /\ queue[1] >= 1
          /\ 1 \in 1 .. Len(queue)
      <4>1. Len(queue) \in Nat /\ queue[1] \in Requests /\ 1 \in 1 .. Len(queue)
        BY <3>1 DEF WriterType
      <4>2. QED
        BY <4>1 DEF Requests
    <3>3. queue[1] <= Reserved /\ out[queue[1]] = "none"
      BY <3>2 DEF QueueInv
    <3>4. queue' # << >> => queue'[1] = slot' + 1
      <4>1. queue' # << >> => queue'[1] = queue[2] /\ 2 \in 1 .. Len(queue)
        BY <3>1, <3>2, TailOfQueue
      <4>2. QED
        BY <3>1, <3>2, <4>1 DEF QueueInv
    <3>5. queue' = << >> /\ rpc \notin {"close", "closed"} => slot' = Reserved
      BY <3>1, TailOfQueue DEF QueueInv
    <3>6. QED
      BY <2>1, <3>1, <3>2, <3>3, <3>4, <3>5 DEF SlotInv
  <2>3. CASE WriterReturns
    BY <2>3 DEF WriterReturns, SlotInv
  <2>4. CASE WriteChunk
    <3>1. /\ writer = "slot" /\ UNCHANGED <<queue, writer, slot>>
          /\ out' = [out EXCEPT ![slot] = "part"]
      BY <2>4 DEF WriteChunk, Received
    <3>2. slot \in Requests
      BY <3>1, SlotBound
    <3>3. out'[slot] = "part" /\ \A q \in 1 .. slot - 1 : out'[q] = "whole"
      BY <2>1, <3>1, <3>2 DEF SlotInv, WriterType, Requests
    <3>4. QED
      BY <2>1, <3>1, <3>3 DEF SlotInv
  <2>5. CASE FinishSlot
    <3>1. /\ writer = "slot" /\ queue' = queue /\ writer' = "idle"
          /\ out' = [out EXCEPT ![slot] = "whole"]
      BY <2>5 DEF FinishSlot, Received
    <3>2. slot \in Requests
      BY <3>1, SlotBound
    <3>3. \A q \in 1 .. slot : out'[q] = "whole"
      BY <2>1, <3>1, <3>2 DEF SlotInv, WriterType, Requests
    <3>4. QED
      BY <2>1, <3>1, <3>3 DEF SlotInv
  <2>6. CASE GiveUp
    BY <2>6 DEF GiveUp, SlotInv
  <2>7. QED
    BY <1>3, <2>2, <2>3, <2>4, <2>5, <2>6 DEF Writer, WriteFails, AbortSlot, SlotLost
<1>4. ASSUME NEW r \in Requests, Worker(r) PROVE SlotInv'
  BY <1>4, WorkerFrame DEF readerVars, writerVars, SlotInv, Reserved, Pending
<1>5. CASE Over
  BY <1>5 DEF Over, vars, readerVars, writerVars, SlotInv, Reserved, Pending
<1>6. QED
  BY <1>1, <1>2, <1>3, <1>4, <1>5 DEF Next

\* The write half is handed over after the last slot, once and for all.
LEMMA HandoverStep == IInv /\ [Next]_vars => HandoverInv'
<1> SUFFICES ASSUME IInv, [Next]_vars PROVE HandoverInv'
  OBVIOUS
<1> QueueInv /\ SlotInv /\ WriterType /\ HandoverInv /\ ReaderInv /\ ReaderType
  BY TypeParts DEF IInv
<1>1. CASE UNCHANGED vars
  BY <1>1 DEF vars, readerVars, writerVars, HandoverInv, Reserved, Pending, QueueClosed, WriterAlive
<1>2. CASE Reader
  <2>1. writer' = writer /\ \A q \in Requests : q <= Reserved => out'[q] = out[q]
    BY <1>2, ReaderFrame, ReaderOrder
  <2>2. Reserved \in Int /\ Reserved <= MaxRequests
    BY BoundAssumption DEF ReaderType, Reserved
  <2>3. \A q \in 1 .. Reserved : out'[q] = out[q]
    BY <2>1, <2>2, BoundAssumption DEF Requests
  <2>4. /\ QueueClosed => QueueClosed'
        /\ QueueClosed /\ Pending' => Pending /\ Reserved' = Reserved
        /\ rpc' = "closed" => rpc = "closed" \/ ~WriterAlive
        /\ Pending' /\ rpc' \notin {"drain", "emit", "slot", "upgrade"} => writer = "returned"
    <3> USE DEF QueueClosed, Pending, Reserved, HandoverInv, WriterAlive
    <3> HIDE DEF QueueInv
    <3>1. CASE ReadHead
      <4>1. PICK k \in Kinds : rpc' = FirstStep(k)
        BY <3>1 DEF ReadHead
      <4>2. rpc = "head" /\ rpc' \in {"close", "emit", "drain", "upgrade", "slot"}
        BY <3>1, <4>1, KindsAssumption DEF FirstStep, AllKinds, Upstreams, ReadHead
      <4>3. QED
        BY <4>2
    <3>2. CASE ReadHeadFails
      BY <3>2 DEF ReadHeadFails
    <3>3. CASE Drain
      BY <3>3 DEF Drain
    <3>4. CASE Drained
      BY <3>4 DEF Drained
    <3>5. CASE DrainFails
      BY <3>5 DEF DrainFails
    <3>6. CASE Emit
      BY <3>6 DEF Emit
    <3>7. CASE Reserve
      BY <3>7 DEF Reserve
    <3>8. CASE NoWriter
      BY <3>8 DEF NoWriter
    <3>9. CASE SendBody
      BY <3>9 DEF SendBody
    <3>10. CASE BodySent
      BY <3>10 DEF BodySent
    <3>11. CASE SendBodyFails
      BY <3>11 DEF SendBodyFails
    <3>12. CASE Close
      BY <3>12 DEF Close
    <3>13. CASE Upgrade
      BY <3>13 DEF Upgrade
    <3>14. CASE WsDialled
      BY <3>14 DEF WsDialled, WsStep
    <3>15. CASE WsHeadSent
      BY <3>15 DEF WsHeadSent, WsStep
    <3>16. CASE WsResponse
      BY <3>16 DEF WsResponse, WsStep
    <3>17. CASE WsRelay
      BY <3>17 DEF WsRelay
    <3>18. CASE WsRefused
      BY <3>18 DEF WsRefused
    <3>19. CASE WsShutdown
      BY <3>19 DEF WsShutdown, WsStep
    <3>20. CASE WsFails
      BY <3>20 DEF WsFails
    <3>21. CASE PumpEnds
      BY <3>21 DEF PumpEnds, WsStep
    <3>22. CASE TunnelEnds
      BY <3>22 DEF TunnelEnds, WsStep
    <3>23. QED
      BY <1>2, <3>1, <3>2, <3>3, <3>4, <3>5, <3>6, <3>7, <3>8, <3>9,
         <3>10, <3>11, <3>12, <3>13, <3>14, <3>15, <3>16, <3>17, <3>18,
         <3>19, <3>20, <3>21, <3>22 DEF Reader
  <2>5. QED
    BY <2>1, <2>3, <2>4 DEF HandoverInv, WriterAlive
<1>3. CASE Writer
  <2>1. Reserved' = Reserved /\ rpc' = rpc
    BY <1>3, WriterFrame DEF readerVars, Reserved, Pending
  <2>2. (WriterAlive /\ writer' # "returned") \/ WriterReturns
    BY <1>3 DEF Writer, WriterAlive, TakeSlot, WriteChunk, FinishSlot, WriteFails, AbortSlot,
       SlotLost, GiveUp, Received
  <2>3. CASE WriterReturns
    <3>1. /\ writer = "idle" /\ queue = << >> /\ QueueClosed /\ out' = out
          /\ writer' = "returned"
      BY <2>3 DEF WriterReturns
    <3>2. Pending => \A q \in 1 .. Reserved : out[q] = "whole"
      BY <3>1 DEF SlotInv, Pending
    <3>3. QED
      BY <2>1, <3>1, <3>2 DEF HandoverInv, QueueClosed, Pending, WriterAlive
  <2>4. CASE WriterAlive /\ writer' # "returned"
    BY <2>1, <2>4 DEF HandoverInv, QueueClosed, Pending, WriterAlive
  <2>5. QED
    BY <2>2, <2>3, <2>4
<1>4. ASSUME NEW r \in Requests, Worker(r) PROVE HandoverInv'
  BY <1>4, WorkerFrame
  DEF readerVars, writerVars, HandoverInv, Reserved, Pending, QueueClosed, WriterAlive
<1>5. CASE Over
  BY <1>5 DEF Over, vars, readerVars, writerVars, HandoverInv, Reserved, Pending, QueueClosed,
     WriterAlive
<1>6. QED
  BY <1>1, <1>2, <1>3, <1>4, <1>5 DEF Next

\* A request that waits for its slot has no worker, and nobody listens to one
\* that has none.
LEMMA WorkerReserved ==
  ASSUME IInv, NEW r \in Requests, wpc[r] # "none"
  PROVE  r <= Reserved
<1> BodyInv(r) /\ ReaderType
  BY TypeParts DEF IInv
<1> QED
  BY BoundAssumption DEF BodyInv, ReaderType, Reserved, Requests

\* Nothing of a response exists before its slot.
LEMMA FutureStep == IInv /\ [Next]_vars => FutureInv'
<1> SUFFICES ASSUME IInv, [Next]_vars PROVE FutureInv'
  OBVIOUS
<1> WriterType /\ HandoverInv /\ ReaderInv /\ ReaderType /\ FutureInv /\ EventType
  BY TypeParts DEF IInv
<1>1. CASE UNCHANGED vars
  BY <1>1 DEF vars, readerVars, writerVars, FutureInv, Reserved, Pending
<1>2. CASE Reader
  <2>1. \A r \in Requests : r > Reserved' => events'[r] = << >>
    <3>1. CASE Emit
      <4>1. /\ cur \in Requests /\ Reserved = cur - 1 /\ Reserved' = cur
            /\ events' = [events EXCEPT ![cur] = <<"chunk", "done">>]
        BY <3>1 DEF Emit, ReaderInv, Reserved, Pending
      <4>2. QED
        BY <4>1 DEF FutureInv, Requests
    <3>2. CASE ~Emit
      <4>1. events' = events
        BY <1>2, <3>2, ReaderFrame
      <4>2. Reserved \in Int /\ Reserved' \in Int /\ Reserved <= Reserved'
        BY <1>2, <3>2, ReaderOrder, BoundAssumption DEF Requests
      <4>3. QED
        BY <4>1, <4>2 DEF FutureInv, Requests
    <3>3. QED
      BY <3>1, <3>2
  <2>2. /\ \A r \in Requests : r > cur' => out'[r] = "none"
        /\ Pending' /\ rpc' \notin {"wsBody", "wsShut", "tunnel", "halfTunnel"} => out'[cur'] = "none"
        /\ rpc' = "wsBody" => out'[cur'] = "part"
    <3> USE BoundAssumption DEF Pending, ReaderType, Requests
    <3>1. CASE ReadHead
      <4>1. PICK k \in Kinds : rpc' = FirstStep(k)
        BY <3>1 DEF ReadHead
      <4>2. rpc' \in {"close", "emit", "drain", "upgrade", "slot"}
        BY <4>1, KindsAssumption DEF FirstStep, AllKinds, Upstreams
      <4>3. rpc = "head" /\ cur < MaxRequests /\ cur' = cur + 1 /\ out' = out
        BY <3>1 DEF ReadHead, writerVars
      <4>4. QED
        BY <4>2, <4>3 DEF FutureInv
    <3>2. CASE ReadHeadFails
      BY <3>2 DEF ReadHeadFails, FutureInv, writerVars
    <3>3. CASE Drain
      BY <3>3 DEF Drain, FutureInv, writerVars
    <3>4. CASE Drained
      BY <3>4 DEF Drained, FutureInv, writerVars
    <3>5. CASE DrainFails
      BY <3>5 DEF DrainFails, FutureInv, writerVars
    <3>6. CASE Emit
      BY <3>6 DEF Emit, FutureInv, writerVars
    <3>7. CASE Reserve
      BY <3>7 DEF Reserve, FutureInv, writerVars
    <3>8. CASE NoWriter
      BY <3>8 DEF NoWriter, FutureInv, writerVars
    <3>9. CASE SendBody
      BY <3>9 DEF SendBody, FutureInv, writerVars
    <3>10. CASE BodySent
      BY <3>10 DEF BodySent, FutureInv, writerVars
    <3>11. CASE SendBodyFails
      BY <3>11 DEF SendBodyFails, FutureInv, writerVars
    <3>12. CASE Close
      BY <3>12 DEF Close, FutureInv, writerVars
    <3>13. CASE Upgrade
      BY <3>13 DEF Upgrade, FutureInv, writerVars
    <3>14. CASE WsDialled
      BY <3>14 DEF WsDialled, FutureInv, writerVars, WsStep
    <3>15. CASE WsHeadSent
      BY <3>15 DEF WsHeadSent, FutureInv, writerVars, WsStep
    <3>16. CASE WsResponse
      BY <3>16 DEF WsResponse, FutureInv, writerVars, WsStep
    <3>17. CASE WsRelay
      <4>1. /\ cur \in Requests /\ cur' = cur /\ out' = [out EXCEPT ![cur] = "part"]
            /\ rpc' \in {"tunnel", "wsBody"}
        BY <3>17 DEF WsRelay, ReaderInv
      <4>2. QED
        BY <4>1 DEF FutureInv, WriterType
    <3>18. CASE WsRefused
      <4>1. cur \in Requests /\ cur' = cur /\ rpc' = "wsShut"
        BY <3>18 DEF WsRefused, ReaderInv
      <4>2. \A r \in Requests : r # cur => out'[r] = out[r]
        BY <3>18 DEF WsRefused, WriterType
      <4>3. QED
        BY <4>1, <4>2 DEF FutureInv
    <3>19. CASE WsShutdown
      BY <3>19 DEF WsShutdown, FutureInv, writerVars, WsStep
    <3>20. CASE WsFails
      <4>1. cur \in Requests /\ cur' = cur /\ rpc' = "closed"
        BY <3>20 DEF WsFails, ReaderInv
      <4>2. \A r \in Requests : r # cur => out'[r] = out[r]
        BY <3>20 DEF WsFails, WriterType
      <4>3. QED
        BY <4>1, <4>2 DEF FutureInv
    <3>21. CASE PumpEnds
      BY <3>21 DEF PumpEnds, FutureInv, writerVars, WsStep
    <3>22. CASE TunnelEnds
      BY <3>22 DEF TunnelEnds, FutureInv, writerVars, WsStep
    <3>23. QED
      BY <1>2, <3>1, <3>2, <3>3, <3>4, <3>5, <3>6, <3>7, <3>8, <3>9,
         <3>10, <3>11, <3>12, <3>13, <3>14, <3>15, <3>16, <3>17, <3>18,
         <3>19, <3>20, <3>21, <3>22 DEF Reader
  <2>3. QED
    BY <2>1, <2>2 DEF FutureInv
<1>3. CASE Writer
  <2>1. Reserved' = Reserved /\ rpc' = rpc /\ cur' = cur /\ Reserved \in Int /\ cur \in Int
    BY <1>3, WriterFrame, BoundAssumption DEF readerVars, Reserved, Pending, ReaderType
  <2>2. CASE UNCHANGED <<out, events>>
    BY <2>1, <2>2 DEF FutureInv, Pending
  <2>3. CASE /\ writer = "slot" /\ \A q \in Requests \ {slot} : out'[q] = out[q]
             /\ \A q \in Requests \ {slot} : events'[q] \in {events[q], << >>}
    <3>1. slot \in 1 .. Reserved /\ slot \in Requests
      BY <2>3, SlotBound DEF IInv, SlotInv
    <3>2. slot <= cur /\ (Pending => slot < cur)
      BY <2>1, <3>1 DEF Reserved
    <3>3. rpc = "wsBody" => FALSE
      BY <2>3 DEF HandoverInv, Pending
    <3>4. Pending => cur \in Requests \ {slot}
      BY <2>1, <3>1, <3>2 DEF ReaderInv
    <3>5. \A r \in Requests : r > Reserved => events'[r] = << >>
      BY <2>1, <2>3, <3>1 DEF FutureInv, Requests
    <3>6. \A r \in Requests : r > cur => out'[r] = "none"
      BY <2>1, <2>3, <3>2 DEF FutureInv, Requests
    <3>7. QED
      BY <2>1, <2>3, <3>3, <3>4, <3>5, <3>6 DEF FutureInv, Pending
  <2>4. CASE TakeSlot \/ WriterReturns
    BY <2>2, <2>4 DEF TakeSlot, WriterReturns
  <2>5. CASE WriteChunk \/ FinishSlot
    BY <2>3, <2>5 DEF WriteChunk, FinishSlot, Received, WriterType, EventType
  <2>6. CASE WriteFails \/ AbortSlot \/ SlotLost
    BY <2>3, <2>6 DEF WriteFails, AbortSlot, SlotLost, GiveUp, Received, WriterType
  <2>7. QED
    BY <1>3, <2>4, <2>5, <2>6 DEF Writer
<1>4. ASSUME NEW r \in Requests, Worker(r) PROVE FutureInv'
  <2>1. UNCHANGED <<rpc, cur, out>> /\ Reserved' = Reserved
    BY <1>4, WorkerFrame DEF readerVars, writerVars, Reserved, Pending
  <2>2. BodyInv(r)
    BY DEF IInv
  <2>3. \A q \in Requests : q # r => events'[q] = events[q]
    BY <1>4, OtherWorkers
  <2>4. events' = events \/ r <= Reserved
    <3>1. wpc[r] # "none" => r <= Reserved
      BY WorkerReserved
    <3>2. QED
      BY <1>4, <2>2, <3>1, Sends
  <2>5. \A q \in Requests : q > Reserved => events'[q] = << >>
    BY <2>1, <2>3, <2>4, BoundAssumption DEF FutureInv, ReaderType, Reserved, Requests
  <2>6. QED
    BY <2>1, <2>5 DEF FutureInv, Pending
<1>5. CASE Over
  BY <1>5 DEF Over, vars, readerVars, writerVars, FutureInv, Reserved, Pending
<1>6. QED
  BY <1>1, <1>2, <1>3, <1>4, <1>5 DEF Next

\* What a request's client has and what is under way changes, in a step of the
\* reader, only for the request that has no slot yet.
LEMMA ReaderQuiet ==
  ASSUME IInv, Reader, NEW q \in Requests, wpc'[q] # "none"
  PROVE  /\ out'[q] = out[q] /\ events'[q] = events[q] /\ writer' = writer
         /\ wpc'[q] = wpc[q] \/ (wpc'[q] = "acquire" /\ out[q] = "none" /\ events[q] = << >>)
<1> ReaderType /\ ReaderInv /\ PlaceType /\ EventType
  BY TypeParts DEF IInv
<1>1. CASE Reserve
  <2>1. cur \in Requests /\ wpc' = [wpc EXCEPT ![cur] = "acquire"] /\ UNCHANGED <<out, events, writer>>
    BY <1>1 DEF Reserve, writerVars, ReaderInv, Pending
  <2>2. out[cur] = "none" /\ events[cur] = << >>
    BY <1>1, BoundAssumption DEF Reserve, IInv, FutureInv, Reserved, Pending, ReaderInv,
       ReaderType, Requests
  <2>3. QED
    BY <2>1, <2>2 DEF PlaceType
<1>2. CASE ~Reserve
  <2>1. wpc' = wpc /\ q <= Reserved /\ writer' = writer
    BY <1>2, ReaderFrame, WorkerReserved
  <2>2. out'[q] = out[q]
    BY <2>1, ReaderOrder
  <2>3. events'[q] = events[q]
    <3>1. CASE Emit
      <4>1. cur \in Requests /\ Reserved = cur - 1 /\ events' = [events EXCEPT ![cur] = <<"chunk", "done">>]
        BY <3>1 DEF Emit, ReaderInv, Reserved, Pending
      <4>2. q # cur
        BY <2>1, <4>1 DEF Requests
      <4>3. QED
        BY <4>1, <4>2 DEF EventType
    <3>2. QED
      BY <3>1, ReaderFrame
  <2>4. QED
    BY <2>1, <2>2, <2>3
<1>3. QED
  BY <1>1, <1>2

\* Done never comes first.
LEMMA EventStep == IInv /\ [Next]_vars => EventInv'
<1> SUFFICES ASSUME IInv, [Next]_vars, NEW q \in Requests
             PROVE  /\ out'[q] = "none" /\ events'[q] # << >> => events'[q][1] # "done"
                    /\ wpc'[q] \in {"relay", "pageEnd"} /\ writer' # "closed" =>
                          out'[q] # "none" \/ events'[q] # << >>
  BY DEF EventInv
<1> DEFINE P(o, e, l, v) == /\ o = "none" /\ e # << >> => e[1] # "done"
                            /\ l \in {"relay", "pageEnd"} /\ v # "closed" => o # "none" \/ e # << >>
<1>0. P(out[q], events[q], wpc[q], writer) /\ WriterType /\ EventType /\ PlaceType /\ ReaderType /\ ReaderInv
  BY TypeParts DEF IInv, EventInv
<1> SUFFICES P(out'[q], events'[q], wpc'[q], writer')
  OBVIOUS
<1>1. CASE UNCHANGED vars
  BY <1>0, <1>1 DEF vars, writerVars, workVars
<1>2. CASE Reader
  <2>1. CASE wpc'[q] # "none"
    <3>1. CASE wpc'[q] = wpc[q]
      BY <1>0, <1>2, <2>1, <3>1, ReaderQuiet
    <3>2. CASE wpc'[q] = "acquire"
      BY <1>0, <1>2, <2>1, <3>2, ReaderQuiet
    <3>3. QED
      BY <1>2, <2>1, <3>1, <3>2, ReaderQuiet
  <2>2. CASE wpc'[q] = "none"
    <3>1. CASE Emit
      <4>1. events' = [events EXCEPT ![cur] = <<"chunk", "done">>] /\ out' = out
        BY <3>1 DEF Emit, writerVars
      <4>2. q = cur => events'[q][1] = "chunk"
        BY <1>0, <4>1 DEF EventType
      <4>3. q # cur => events'[q] = events[q]
        BY <1>0, <4>1 DEF EventType
      <4>4. QED
        BY <1>0, <2>2, <4>1, <4>2, <4>3
    <3>2. CASE ~Emit
      <4>1. events' = events
        BY <1>2, <3>2, ReaderFrame
      <4>2. Reserved \in Int /\ (q <= Reserved => out'[q] = out[q]) /\ q \in Int
        BY <1>2, ReaderOrder DEF Requests
      <4>3. q > Reserved => events[q] = << >>
        BY DEF IInv, FutureInv
      <4>4. QED
        BY <1>0, <2>2, <4>1, <4>2, <4>3
    <3>3. QED
      BY <3>1, <3>2
  <2>3. QED
    BY <2>1, <2>2
<1>3. CASE Writer
  <2>1. wpc' = wpc
    BY <1>3, WriterFrame DEF workVars
  <2>2. CASE TakeSlot \/ WriterReturns
    BY <1>0, <2>1, <2>2 DEF TakeSlot, WriterReturns
  <2>3. CASE WriteChunk \/ FinishSlot
    <3>1. CASE q = slot
      BY <1>0, <2>1, <2>3, <3>1 DEF WriteChunk, FinishSlot, WriterType
    <3>2. CASE q # slot
      <4>1. out'[q] = out[q] /\ events'[q] = events[q] /\ writer # "closed"
        BY <1>0, <2>3, <3>2 DEF WriteChunk, FinishSlot, WriterType, EventType, Received
      <4>2. QED
        BY <1>0, <2>1, <4>1
    <3>3. QED
      BY <3>1, <3>2
  <2>4. CASE WriteFails \/ AbortSlot \/ SlotLost
    BY <2>4 DEF WriteFails, AbortSlot, SlotLost, GiveUp
  <2>5. QED
    BY <1>3, <2>2, <2>3, <2>4 DEF Writer
<1>4. ASSUME NEW r \in Requests, Worker(r) PROVE P(out'[q], events'[q], wpc'[q], writer')
  <2>1. UNCHANGED <<out, writer>>
    BY <1>4, WorkerFrame DEF writerVars
  <2>2. CASE q # r
    BY <1>0, <1>4, <2>1, <2>2, OtherWorkers
  <2>3. CASE q = r
    <3>1. CASE events' = events /\ (wpc'[r] \in {"relay", "pageEnd"} => wpc'[r] = wpc[r])
      BY <1>0, <2>1, <2>3, <3>1
    <3>2. ASSUME NEW e \in {"chunk", "done", "abort"}, Send(r, e),
                 e = "done" => out[r] # "none" \/ events[r] # << >>
          PROVE  P(out'[q], events'[q], wpc'[q], writer')
      <4>1. events'[r] = Append(events[r], e) /\ events[r] \in Seq({"chunk", "done", "abort"})
        BY <1>0, <3>2 DEF Send, EventType
      <4>2. events'[r] # << >> /\ events'[r][1] = IF events[r] = << >> THEN e ELSE events[r][1]
        <5>1. ASSUME NEW s \in Seq({"chunk", "done", "abort"})
              PROVE  Append(s, e) # << >> /\ Append(s, e)[1] = IF s = << >> THEN e ELSE s[1]
          <6>1. Len(Append(s, e)) = Len(s) + 1 /\ Len(s) \in Nat
            OBVIOUS
          <6>2. CASE s = << >>
            BY <6>1, <6>2
          <6>3. CASE s # << >>
            BY <6>1, <6>3
          <6>4. QED
            BY <6>2, <6>3
        <5>2. QED
          BY <4>1, <5>1
      <4>3. QED
        BY <1>0, <2>1, <2>3, <3>2, <4>2
    <3>3. wpc[r] \in {"relay", "pageEnd"} /\ CanEmit(r) => out[r] # "none" \/ events[r] # << >>
      BY <1>0, <2>3 DEF CanEmit, Listening, WriterAlive
    <3> USE <1>0 DEF PlaceType
    <3> HIDE DEF P
    <3>4. CASE AcquireParked(r)
      BY <3>4, <3>1 DEF AcquireParked, Goto
    <3>5. CASE AcquireMiss(r)
      BY <3>5, <3>1 DEF AcquireMiss, Goto
    <3>6. CASE Dialled(r)
      BY <3>6, <3>1 DEF Dialled, Goto
    <3>7. CASE DialFails(r)
      BY <3>7, <3>1 DEF DialFails, Goto
    <3>8. CASE Panics(r)
      BY <3>8, <3>1 DEF Panics, End, Goto
    <3>9. CASE HeadSent(r)
      BY <3>9, <3>1 DEF HeadSent, Goto
    <3>10. CASE WriteRefused(r)
      BY <3>10, <3>1 DEF WriteRefused, Retry, Goto, is_replayable
    <3>11. CASE Resend(r)
      BY <3>11, <3>1 DEF Resend, Goto
    <3>12. CASE StreamPiece(r)
      BY <3>12, <3>1 DEF StreamPiece
    <3>13. CASE StreamFails(r)
      BY <3>13, <3>1 DEF StreamFails, Goto
    <3>14. CASE StreamEnds(r)
      BY <3>14, <3>1 DEF StreamEnds, Goto
    <3>15. CASE ResponseHead(r)
      BY <3>15, <3>1 DEF ResponseHead, Goto
    <3>16. CASE ResponseLost(r)
      BY <3>16, <3>1 DEF ResponseLost, Goto, is_replayable
    <3>17. CASE ResponseBad(r)
      BY <3>17, <3>1 DEF ResponseBad, Goto
    <3>18. CASE EmitHead(r)
      BY <3>18, <3>2 DEF EmitHead
    <3>19. CASE RelayPiece(r)
      BY <3>19, <3>2 DEF RelayPiece
    <3>20. CASE RelayFails(r)
      BY <3>20, <3>1 DEF RelayFails, Goto
    <3>21. CASE EmitDone(r)
      BY <3>21, <3>2, <3>3 DEF EmitDone
    <3>22. CASE EmitAbort(r)
      BY <3>22, <3>2 DEF EmitAbort
    <3>23. CASE NobodyListens(r)
      BY <3>23, <3>1 DEF NobodyListens, End, Goto
    <3>24. CASE Park(r)
      BY <3>24, <3>1 DEF Park, End, Goto
    <3>25. CASE Unparked(r)
      BY <3>25, <3>1 DEF Unparked, End, Goto
    <3>26. CASE Discard(r)
      BY <3>26, <3>1 DEF Discard, Goto
    <3>27. CASE Discarded(r)
      BY <3>27, <3>1 DEF Discarded, Goto
    <3>28. CASE EmitPage(r)
      BY <3>28, <3>2 DEF EmitPage
    <3>29. CASE EmitPageEnd(r)
      BY <3>29, <3>2, <3>3 DEF EmitPageEnd
    <3>30. QED
      BY <1>4, <3>4, <3>5, <3>6, <3>7, <3>8, <3>9, <3>10, <3>11, <3>12,
         <3>13, <3>14, <3>15, <3>16, <3>17, <3>18, <3>19, <3>20, <3>21,
         <3>22, <3>23, <3>24, <3>25, <3>26, <3>27, <3>28, <3>29 DEF Worker
  <2>4. QED
    BY <2>2, <2>3
<1>5. CASE Over
  BY <1>0, <1>5 DEF Over, vars, writerVars, workVars
<1>6. QED
  BY <1>1, <1>2, <1>3, <1>4, <1>5 DEF Next

\* The places of a worker at which its client must not have seen anything.
Unseen == {"acquire", "dial", "head", "resend", "stream", "response", "fail", "page"}

\* A worker gets back to one of them from another, and has sent nothing.
LEMMA UnseenBefore ==
  ASSUME NEW r \in Requests, Worker(r), PlaceType, wpc'[r] \in Unseen
  PROVE  wpc[r] \in Unseen /\ events' = events
<1> USE DEF Unseen, PlaceType
<1>1. CASE AcquireParked(r)
  BY <1>1 DEF AcquireParked, Goto
<1>2. CASE AcquireMiss(r)
  BY <1>2 DEF AcquireMiss, Goto
<1>3. CASE Dialled(r)
  BY <1>3 DEF Dialled, Goto
<1>4. CASE DialFails(r)
  BY <1>4 DEF DialFails, Goto
<1>5. CASE Panics(r)
  BY <1>5 DEF Panics, End, Goto
<1>6. CASE HeadSent(r)
  BY <1>6 DEF HeadSent, Goto
<1>7. CASE WriteRefused(r)
  BY <1>7 DEF WriteRefused, Retry, Goto, is_replayable
<1>8. CASE Resend(r)
  BY <1>8 DEF Resend, Goto
<1>9. CASE StreamPiece(r)
  BY <1>9 DEF StreamPiece
<1>10. CASE StreamFails(r)
  BY <1>10 DEF StreamFails, Goto
<1>11. CASE StreamEnds(r)
  BY <1>11 DEF StreamEnds, Goto
<1>12. CASE ResponseHead(r)
  BY <1>12 DEF ResponseHead, Goto
<1>13. CASE ResponseLost(r)
  BY <1>13 DEF ResponseLost, Goto, is_replayable
<1>14. CASE ResponseBad(r)
  BY <1>14 DEF ResponseBad, Goto
<1>15. CASE EmitHead(r)
  BY <1>15 DEF EmitHead, Goto
<1>16. CASE RelayPiece(r)
  BY <1>16 DEF RelayPiece
<1>17. CASE RelayFails(r)
  BY <1>17 DEF RelayFails, Goto
<1>18. CASE EmitDone(r)
  BY <1>18 DEF EmitDone, Goto
<1>19. CASE EmitAbort(r)
  BY <1>19 DEF EmitAbort, End, Goto
<1>20. CASE NobodyListens(r)
  BY <1>20 DEF NobodyListens, End, Goto
<1>21. CASE Park(r)
  BY <1>21 DEF Park, End, Goto
<1>22. CASE Unparked(r)
  BY <1>22 DEF Unparked, End, Goto
<1>23. CASE Discard(r)
  BY <1>23 DEF Discard, Goto
<1>24. CASE Discarded(r)
  BY <1>24 DEF Discarded, Goto
<1>25. CASE EmitPage(r)
  BY <1>25 DEF EmitPage, Goto
<1>26. CASE EmitPageEnd(r)
  BY <1>26 DEF EmitPageEnd, End, Goto
<1>27. QED
  BY <1>1, <1>2, <1>3, <1>4, <1>5, <1>6, <1>7, <1>8, <1>9, <1>10,
     <1>11, <1>12, <1>13, <1>14, <1>15, <1>16, <1>17, <1>18, <1>19,
     <1>20, <1>21, <1>22, <1>23, <1>24, <1>25, <1>26 DEF Worker

\* No step makes a replay visible.
LEMMA ReplayStep == IInv /\ [Next]_vars => ReplayInvisible'
<1> SUFFICES ASSUME IInv, [Next]_vars, NEW q \in Requests, wpc'[q] \in Unseen
             PROVE  out'[q] = "none" /\ events'[q] = << >>
  BY DEF ReplayInvisible, Unseen
<1>0. /\ wpc[q] \in Unseen => out[q] = "none" /\ events[q] = << >>
      /\ WriterType /\ EventType /\ PlaceType
  BY TypeParts DEF IInv, ReplayInvisible, Unseen
<1>1. CASE UNCHANGED vars
  BY <1>0, <1>1 DEF vars, writerVars, workVars
<1>2. CASE Reader
  BY <1>0, <1>2, ReaderQuiet DEF Unseen
<1>3. CASE Writer
  <2>1. out[q] = "none" /\ events[q] = << >>
    BY <1>0, <1>3, WriterFrame DEF workVars
  <2>2. CASE TakeSlot \/ WriterReturns
    BY <2>1, <2>2 DEF TakeSlot, WriterReturns
  <2>3. CASE WriteChunk \/ FinishSlot
    BY <1>0, <2>1, <2>3 DEF WriteChunk, FinishSlot, Received, WriterType, EventType
  <2>4. CASE WriteFails
    BY <1>0, <2>1, <2>4 DEF WriteFails, GiveUp, Received, WriterType
  <2>5. CASE AbortSlot \/ SlotLost
    BY <2>1, <2>5 DEF AbortSlot, SlotLost, GiveUp
  <2>6. QED
    BY <1>3, <2>2, <2>3, <2>4, <2>5 DEF Writer
<1>4. ASSUME NEW r \in Requests, Worker(r) PROVE out'[q] = "none" /\ events'[q] = << >>
  <2>1. out' = out
    BY <1>4, WorkerFrame DEF writerVars
  <2>2. CASE q = r
    BY <1>0, <1>4, <2>1, <2>2, UnseenBefore
  <2>3. CASE q # r
    BY <1>0, <1>4, <2>1, <2>3, OtherWorkers
  <2>4. QED
    BY <2>2, <2>3
<1>5. CASE Over
  BY <1>0, <1>5 DEF Over, vars, writerVars, workVars
<1>6. QED
  BY <1>1, <1>2, <1>3, <1>4, <1>5 DEF Next

\* A connection a response comes from has carried the whole body.
LEMMA Whole == IInv => DeliveredWhole
<1> SUFFICES ASSUME IInv, NEW r \in Requests, wpc[r] \in {"response", "emitHead", "relay", "park"}
             PROVE  \/ put[r] = size[r]
                    \/ put[r] < size[r] /\ cur = r /\ unread > 0 /\ QueueClosed
  BY DEF DeliveredWhole
<1>1. BodyInv(r) /\ ReaderInv /\ ReaderType /\ CountType
  BY TypeParts DEF IInv
<1>2. /\ put[r] + Unsent(r) = size[r] /\ put[r] \in Int /\ size[r] \in Int /\ unread \in Nat
      /\ kind[r] \in Upstreams /\ (cur = r => ~Pending) /\ ~BodyOpen(r)
  BY <1>1 DEF BodyInv, CountType, ReaderType, Unsent
<1>3. CASE cur = r /\ unread > 0
  <2>1. rpc # "head"
    BY <1>1, <1>2, <1>3 DEF ReaderInv, SyncedUnlessStatic, Upstreams
  <2>2. QueueClosed
    BY <1>2, <1>3, <2>1 DEF Pending, BodyOpen, QueueClosed
  <2>3. QED
    BY <1>2, <1>3, <2>2 DEF Unsent
<1>4. CASE ~(cur = r /\ unread > 0)
  BY <1>2, <1>4 DEF Unsent
<1>5. QED
  BY <1>3, <1>4

\* The reader never reopens the queue.
LEMMA ClosedForGood == IInv /\ [Next]_vars /\ QueueClosed => QueueClosed'
<1> SUFFICES ASSUME IInv, [Next]_vars, QueueClosed PROVE QueueClosed'
  OBVIOUS
<1>1. CASE UNCHANGED vars
  BY <1>1 DEF vars, readerVars, QueueClosed
<1>2. CASE Reader
  <2>1. CASE ReadHead
    BY <2>1 DEF ReadHead, QueueClosed
  <2>2. CASE ReadHeadFails
    BY <2>2 DEF ReadHeadFails, QueueClosed
  <2>3. CASE Drain
    BY <2>3 DEF Drain, QueueClosed
  <2>4. CASE Drained
    BY <2>4 DEF Drained, QueueClosed
  <2>5. CASE DrainFails
    BY <2>5 DEF DrainFails, QueueClosed
  <2>6. CASE Emit
    BY <2>6 DEF Emit, QueueClosed
  <2>7. CASE Reserve
    BY <2>7 DEF Reserve, QueueClosed
  <2>8. CASE NoWriter
    BY <2>8 DEF NoWriter, QueueClosed
  <2>9. CASE SendBody
    BY <2>9 DEF SendBody, QueueClosed
  <2>10. CASE BodySent
    BY <2>10 DEF BodySent, QueueClosed
  <2>11. CASE SendBodyFails
    BY <2>11 DEF SendBodyFails, QueueClosed
  <2>12. CASE Close
    BY <2>12 DEF Close, QueueClosed
  <2>13. CASE Upgrade
    BY <2>13 DEF Upgrade, QueueClosed
  <2>14. CASE WsDialled
    BY <2>14 DEF WsDialled, QueueClosed, WsStep
  <2>15. CASE WsHeadSent
    BY <2>15 DEF WsHeadSent, QueueClosed, WsStep
  <2>16. CASE WsResponse
    BY <2>16 DEF WsResponse, QueueClosed, WsStep
  <2>17. CASE WsRelay
    BY <2>17 DEF WsRelay, QueueClosed
  <2>18. CASE WsRefused
    BY <2>18 DEF WsRefused, QueueClosed
  <2>19. CASE WsShutdown
    BY <2>19 DEF WsShutdown, QueueClosed, WsStep
  <2>20. CASE WsFails
    BY <2>20 DEF WsFails, QueueClosed
  <2>21. CASE PumpEnds
    BY <2>21 DEF PumpEnds, QueueClosed, WsStep
  <2>22. CASE TunnelEnds
    BY <2>22 DEF TunnelEnds, QueueClosed, WsStep
  <2>23. QED
    BY <1>2, <2>1, <2>2, <2>3, <2>4, <2>5, <2>6, <2>7, <2>8, <2>9, <2>10,
       <2>11, <2>12, <2>13, <2>14, <2>15, <2>16, <2>17, <2>18, <2>19,
       <2>20, <2>21, <2>22 DEF Reader
<1>3. CASE Writer
  BY <1>3, WriterFrame DEF readerVars, QueueClosed
<1>4. ASSUME NEW r \in Requests, Worker(r) PROVE QueueClosed'
  BY <1>4, WorkerFrame DEF readerVars, QueueClosed
<1>5. CASE Over
  BY <1>5 DEF Over, vars, readerVars, QueueClosed
<1>6. QED
  BY <1>1, <1>2, <1>3, <1>4, <1>5 DEF Next

\* A connection is left in the middle of a request only on the way out.
LEMMA CleanStep == IInv /\ [Next]_vars => LaterRequestsClean'
<1> SUFFICES ASSUME IInv, [Next]_vars, ~QueueClosed
             PROVE  /\ \A u \in Upstreams : pools'[u] # "dirty"
                    /\ \A q \in Requests : conn'[q] # "dirty"
  BY ClosedForGood DEF LaterRequestsClean
<1>0. /\ \A u \in Upstreams : pools[u] # "dirty"
      /\ \A q \in Requests : conn[q] # "dirty"
      /\ PlaceType
  BY TypeParts DEF IInv, LaterRequestsClean
<1>1. CASE UNCHANGED vars
  BY <1>0, <1>1 DEF vars, workVars
<1>2. CASE Reader
  BY <1>0, <1>2, ReaderFrame
<1>3. CASE Writer
  BY <1>0, <1>3, WriterFrame DEF workVars
<1>4. ASSUME NEW r \in Requests, Worker(r)
      PROVE  /\ \A u \in Upstreams : pools'[u] # "dirty"
             /\ \A q \in Requests : conn'[q] # "dirty"
  <2> USE <1>0 DEF PlaceType
  <2>1. CASE AcquireParked(r)
    <3>1. kind[r] \in Upstreams
      BY <2>1 DEF AcquireParked, IInv, BodyInv
    <3>2. QED
      BY <2>1, <3>1 DEF AcquireParked
  <2>2. CASE AcquireMiss(r)
    BY <2>2 DEF AcquireMiss
  <2>3. CASE Dialled(r)
    BY <2>3 DEF Dialled
  <2>4. CASE DialFails(r)
    BY <2>4 DEF DialFails
  <2>5. CASE Panics(r)
    BY <2>5 DEF Panics, End
  <2>6. CASE HeadSent(r)
    BY <2>6 DEF HeadSent
  <2>7. CASE WriteRefused(r)
    BY <2>7 DEF WriteRefused, Retry
  <2>8. CASE Resend(r)
    BY <2>8 DEF Resend
  <2>9. CASE StreamPiece(r)
    BY <2>9 DEF StreamPiece
  <2>10. CASE StreamFails(r)
    BY <2>10 DEF StreamFails
  <2>11. CASE StreamEnds(r)
    BY <2>11 DEF StreamEnds
  <2>12. CASE ResponseHead(r)
    BY <2>12 DEF ResponseHead
  <2>13. CASE ResponseLost(r)
    BY <2>13 DEF ResponseLost
  <2>14. CASE ResponseBad(r)
    BY <2>14 DEF ResponseBad
  <2>15. CASE EmitHead(r)
    BY <2>15 DEF EmitHead
  <2>16. CASE RelayPiece(r)
    BY <2>16 DEF RelayPiece
  <2>17. CASE RelayFails(r)
    BY <2>17 DEF RelayFails
  <2>18. CASE EmitDone(r)
    BY <2>18 DEF EmitDone
  <2>19. CASE EmitAbort(r)
    BY <2>19 DEF EmitAbort, End
  <2>20. CASE NobodyListens(r)
    BY <2>20 DEF NobodyListens, End
  <2>21. CASE Park(r)
    <3>1. put[r] = size[r] /\ left[r] = 0
      BY <2>21, Whole DEF Park, IInv, BodyInv, DeliveredWhole
    <3>2. QED
      BY <2>21, <3>1 DEF Park, End
  <2>22. CASE Unparked(r)
    BY <2>22 DEF Unparked, End
  <2>23. CASE Discard(r)
    BY <2>23 DEF Discard
  <2>24. CASE Discarded(r)
    BY <2>24 DEF Discarded
  <2>25. CASE EmitPage(r)
    BY <2>25 DEF EmitPage
  <2>26. CASE EmitPageEnd(r)
    BY <2>26 DEF EmitPageEnd, End
  <2>27. QED
    BY <1>4, <2>1, <2>2, <2>3, <2>4, <2>5, <2>6, <2>7, <2>8, <2>9, <2>10,
       <2>11, <2>12, <2>13, <2>14, <2>15, <2>16, <2>17, <2>18, <2>19,
       <2>20, <2>21, <2>22, <2>23, <2>24, <2>25, <2>26 DEF Worker
<1>5. CASE Over
  BY <1>0, <1>5 DEF Over, vars, workVars
<1>6. QED
  BY <1>1, <1>2, <1>3, <1>4, <1>5 DEF Next

\* Nothing has happened yet.
LEMMA Initially == Init => IInv
<1> SUFFICES ASSUME Init PROVE IInv
  OBVIOUS
<1> USE BoundAssumption, CapacityAssumption DEF Init
<1>1. ReaderType
  <2>1. rpc \in ReaderPC /\ cur \in 0 .. MaxRequests /\ unread \in 0 .. MaxBody
    BY DEF ReaderPC
  <2>2. kind \in [Requests -> AllKinds]
    BY DEF AllKinds
  <2>3. size \in [Requests -> 0 .. MaxBody]
    OBVIOUS
  <2>4. keep \in BOOLEAN
    OBVIOUS
  <2>5. QED
    BY <2>1, <2>2, <2>3, <2>4 DEF ReaderType
<1>2. WriterType
  BY DEF WriterType
<1>3. EventType
  BY DEF EventType
<1>4. PlaceType
  BY DEF PlaceType, WorkerPC, Conns
<1>5. CountType
  BY DEF CountType
<1>6. ReaderInv
  BY DEF ReaderInv, Pending, SyncedUnlessStatic
<1>7. ASSUME NEW r \in Requests PROVE BodyInv(r)
  BY DEF BodyInv
<1>8. QueueInv
  BY DEF QueueInv, WriterAlive
<1>9. SlotInv /\ HandoverInv
  BY DEF SlotInv, HandoverInv, Reserved, Pending
<1>10. FutureInv /\ EventInv
  BY DEF FutureInv, EventInv, Pending
<1>11. ReplayInvisible /\ LaterRequestsClean
  BY DEF ReplayInvisible, LaterRequestsClean
<1>12. QED
  BY <1>1, <1>2, <1>3, <1>4, <1>5, <1>6, <1>7, <1>8, <1>9, <1>10, <1>11, TypeParts DEF IInv

\* The inductive invariant.
LEMMA Invariant == Spec => []IInv
<1>1. IInv /\ [Next]_vars => IInv'
  <2> SUFFICES ASSUME IInv, [Next]_vars PROVE IInv'
    OBVIOUS
  <2>1. TypeOK' /\ ReaderInv' /\ \A r \in Requests : BodyInv(r)'
    BY TypeStep, ReaderStep, BodyStep
  <2>2. QueueInv' /\ SlotInv' /\ HandoverInv' /\ FutureInv' /\ EventInv'
    BY QueueStep, SlotStep, HandoverStep, FutureStep, EventStep
  <2>3. ReplayInvisible' /\ LaterRequestsClean'
    BY ReplayStep, CleanStep
  <2>4. QED
    BY <2>1, <2>2, <2>3 DEF IInv, Requests
<1>2. QED
  BY <1>1, Initially, PTL DEF Spec

\* The variables have their types, no channel exceeds its capacity and no count
\* its bound, whatever the capacities, the replay window and the requests are.
THEOREM PipelineTypeCorrect == Spec => []TypeOK
<1>1. IInv => TypeOK
  BY DEF IInv
<1>2. QED
  BY <1>1, Invariant, PTL

\* A response is awaited and relayed only from a connection that has carried
\* the whole request body, or all the client sent before it stopped
\* (RequestBodyPump::resend and stream).
THEOREM BodiesDelivered == Spec => []DeliveredWhole
<1>1. QED
  BY Whole, Invariant, PTL

\* A request is delivered again, or answered with an error page, only while
\* its client has seen nothing of a response (run_upstream_request).
THEOREM ReplaysInvisible == Spec => []ReplayInvisible
<1>1. IInv => ReplayInvisible
  BY DEF IInv
<1>2. QED
  BY <1>1, Invariant, PTL

\* Heads are parsed behind the end of the body before, except after a static
\* or file answer (read_and_dispatch).
THEOREM HeadsSynced == Spec => []SyncedUnlessStatic
<1>1. IInv => SyncedUnlessStatic
  BY DEF IInv, ReaderInv
<1>2. QED
  BY <1>1, Invariant, PTL

\* A connection that waits for the rest of a request is parked or reused only
\* once the reader has stopped reading requests (H1PoolHolder::release).
THEOREM ReuseIsClean == Spec => []LaterRequestsClean
<1>1. IInv => LaterRequestsClean
  BY DEF IInv
<1>2. QED
  BY <1>1, Invariant, PTL

\* Client and upstream bytes stay in step with the requests, whatever fails on
\* the way (read_and_dispatch, H1PoolHolder).
THEOREM StaysInSync == Spec => []InSync
<1>1. QED
  BY HeadsSynced, ReuseIsClean, PTL DEF InSync

\* May the proxy still write to the client?
StillOpen == writer # "closed" /\ rpc # "closed"

\* A closed connection stays closed.
LEMMA ClosedStays == Reader /\ rpc = "closed" => rpc' = "closed"
<1> SUFFICES ASSUME Reader, rpc = "closed" PROVE rpc' = "closed"
  OBVIOUS
<1>1. CASE ReadHead
  BY <1>1 DEF ReadHead
<1>2. CASE ReadHeadFails
  BY <1>2 DEF ReadHeadFails
<1>3. CASE Drain
  BY <1>3 DEF Drain
<1>4. CASE Drained
  BY <1>4 DEF Drained
<1>5. CASE DrainFails
  BY <1>5 DEF DrainFails
<1>6. CASE Emit
  BY <1>6 DEF Emit
<1>7. CASE Reserve
  BY <1>7 DEF Reserve
<1>8. CASE NoWriter
  BY <1>8 DEF NoWriter
<1>9. CASE SendBody
  BY <1>9 DEF SendBody
<1>10. CASE BodySent
  BY <1>10 DEF BodySent
<1>11. CASE SendBodyFails
  BY <1>11 DEF SendBodyFails
<1>12. CASE Close
  BY <1>12 DEF Close
<1>13. CASE Upgrade
  BY <1>13 DEF Upgrade
<1>14. CASE WsDialled
  BY <1>14 DEF WsDialled, WsStep
<1>15. CASE WsHeadSent
  BY <1>15 DEF WsHeadSent, WsStep
<1>16. CASE WsResponse
  BY <1>16 DEF WsResponse, WsStep
<1>17. CASE WsRelay
  BY <1>17 DEF WsRelay
<1>18. CASE WsRefused
  BY <1>18 DEF WsRefused
<1>19. CASE WsShutdown
  BY <1>19 DEF WsShutdown, WsStep
<1>20. CASE WsFails
  BY <1>20 DEF WsFails
<1>21. CASE PumpEnds
  BY <1>21 DEF PumpEnds, WsStep
<1>22. CASE TunnelEnds
  BY <1>22 DEF TunnelEnds, WsStep
<1>23. QED
  BY <1>1, <1>2, <1>3, <1>4, <1>5, <1>6, <1>7, <1>8, <1>9, <1>10,
     <1>11, <1>12, <1>13, <1>14, <1>15, <1>16, <1>17, <1>18, <1>19,
     <1>20, <1>21, <1>22 DEF Reader

\* Every step of the connection is a step of ResponseStream, or changes nothing
\* the client can see.
LEMMA StreamStep == IInv /\ [Next]_vars => [Ordered!Next]_<<out, StillOpen>>
<1> SUFFICES ASSUME IInv, [Next]_vars
             PROVE  Ordered!Next \/ UNCHANGED <<out, StillOpen>>
  OBVIOUS
<1>0. /\ WriterType /\ ReaderType /\ ReaderInv /\ SlotInv /\ HandoverInv /\ FutureInv /\ EventInv
  BY TypeParts DEF IInv
<1>a. ASSUME out' = out, StillOpen' => StillOpen PROVE Ordered!Next \/ UNCHANGED <<out, StillOpen>>
  BY <1>a DEF Ordered!Next, Ordered!Close, StillOpen
<1>b. ASSUME NEW r \in Requests, StillOpen, \A q \in 1 .. r - 1 : out[q] = "whole",
             out[r] # "whole", out' = [out EXCEPT ![r] = "part"]
      PROVE  Ordered!Next
  <2>1. CASE StillOpen'
    BY <1>b, <2>1 DEF Ordered!Next, Ordered!Write, StillOpen, Requests
  <2>2. CASE ~StillOpen'
    BY <1>b, <2>2 DEF Ordered!Next, Ordered!Cut, StillOpen, Requests
  <2>3. QED
    BY <2>1, <2>2
<1>c. ASSUME NEW r \in Requests, StillOpen, StillOpen', out[r] = "part",
             out' = [out EXCEPT ![r] = "whole"]
      PROVE  Ordered!Next
  BY <1>c DEF Ordered!Next, Ordered!Finish, StillOpen, Requests
<1>1. CASE UNCHANGED vars
  BY <1>1 DEF vars, readerVars, writerVars, StillOpen
<1>2. CASE Reader
  <2>1. writer' = writer /\ (rpc = "closed" => rpc' = "closed")
    BY <1>2, ReaderFrame, ClosedStays
  <2>2. StillOpen' => StillOpen
    BY <2>1 DEF StillOpen
  <2>3. CASE WsRelay \/ WsRefused \/ WsFails
    <3>1. Pending /\ rpc \notin {"drain", "emit", "slot", "upgrade", "closed"}
      BY <2>3 DEF WsRelay, WsRefused, WsFails, Pending
    <3>2. /\ cur \in Requests /\ StillOpen /\ Reserved = cur - 1
          /\ \A q \in 1 .. cur - 1 : out[q] = "whole"
      BY <1>0, <3>1 DEF HandoverInv, ReaderInv, StillOpen, Reserved
    <3>3. CASE WsRelay
      BY <1>0, <1>b, <3>2, <3>3 DEF WsRelay, FutureInv, Pending
    <3>4. CASE WsRefused
      <4>1. out[cur] = "part" /\ StillOpen'
        BY <1>0, <2>1, <3>2, <3>4 DEF WsRefused, FutureInv, StillOpen
      <4>2. PICK stage \in {"part", "whole"} : out' = [out EXCEPT ![cur] = stage]
        BY <3>4 DEF WsRefused
      <4>3. CASE stage = "part"
        BY <1>b, <3>2, <4>1, <4>2, <4>3
      <4>4. CASE stage = "whole"
        BY <1>c, <3>2, <4>1, <4>2, <4>4
      <4>5. QED
        BY <4>2, <4>3, <4>4
    <3>5. CASE WsFails
      <4>1. out[cur] = "none"
        BY <1>0, <3>5 DEF WsFails, FutureInv, Pending
      <4>2. PICK stage \in {"none", "part"} : out' = [out EXCEPT ![cur] = stage]
        BY <3>5 DEF WsFails
      <4>3. CASE stage = "none"
        <5>1. out' = out
          BY <1>0, <3>2, <4>1, <4>2, <4>3 DEF WriterType
        <5>2. QED
          BY <1>a, <2>2, <5>1
      <4>4. CASE stage = "part"
        BY <1>b, <3>2, <4>1, <4>2, <4>4
      <4>5. QED
        BY <4>2, <4>3, <4>4
    <3>6. QED
      BY <2>3, <3>3, <3>4, <3>5
  <2>4. CASE out' = out
    BY <1>a, <2>2, <2>4
  <2>5. QED
    BY <1>2, <2>3, <2>4, ReaderFrame
<1>3. CASE Writer
  <2>1. rpc' = rpc
    BY <1>3, WriterFrame DEF readerVars
  <2>2. StillOpen /\ (writer = "slot" => slot \in Requests)
    BY <1>0, <1>3, SlotBound
    DEF StillOpen, HandoverInv, WriterAlive, Writer, TakeSlot, WriterReturns, WriteChunk,
        FinishSlot, WriteFails, AbortSlot, SlotLost, Received
  <2>3. writer = "slot" => out[slot] # "whole" /\ \A q \in 1 .. slot - 1 : out[q] = "whole"
    BY <1>0 DEF SlotInv
  <2>4. CASE TakeSlot \/ WriterReturns \/ AbortSlot \/ SlotLost
    BY <1>a, <2>2, <2>4 DEF TakeSlot, WriterReturns, AbortSlot, SlotLost
  <2>5. CASE WriteChunk
    BY <1>b, <2>2, <2>3, <2>5 DEF WriteChunk, Received
  <2>6. CASE FinishSlot
    <3>1. /\ writer = "slot" /\ events[slot] # << >> /\ Head(events[slot]) = "done"
          /\ out' = [out EXCEPT ![slot] = "whole"] /\ writer' = "idle"
      BY <2>6 DEF FinishSlot, Received
    <3>2. events[slot][1] = "done"
      BY <2>2, <3>1, TypeParts DEF IInv, EventType
    <3>3. out[slot] = "part"
      BY <1>0, <2>2, <2>3, <3>1, <3>2 DEF EventInv, WriterType
    <3>4. StillOpen'
      BY <2>1, <2>2, <3>1 DEF StillOpen
    <3>5. QED
      BY <1>c, <2>2, <3>1, <3>3, <3>4
  <2>7. CASE WriteFails
    <3>1. PICK stage \in {out[slot], "part"} : out' = [out EXCEPT ![slot] = stage]
      BY <2>7 DEF WriteFails
    <3>2. writer = "slot"
      BY <2>7 DEF WriteFails, Received
    <3>3. CASE stage = "part"
      BY <1>b, <2>2, <2>3, <3>1, <3>2, <3>3
    <3>4. CASE stage = out[slot]
      <4>1. out' = out
        BY <1>0, <2>2, <3>1, <3>2, <3>4 DEF WriterType
      <4>2. QED
        BY <1>a, <2>2, <4>1
    <3>5. QED
      BY <3>1, <3>3, <3>4
  <2>8. QED
    BY <1>3, <2>4, <2>5, <2>6, <2>7 DEF Writer
<1>4. ASSUME NEW r \in Requests, Worker(r) PROVE UNCHANGED <<out, StillOpen>>
  BY <1>4, WorkerFrame DEF readerVars, writerVars, StillOpen
<1>5. CASE Over
  BY <1>5 DEF Over, vars, readerVars, writerVars, StillOpen
<1>6. QED
  BY <1>1, <1>2, <1>3, <1>4, <1>5 DEF Next

\* The connection implements ResponseStream: the client gets its responses in
\* order, each whole before the next, and nothing after one that was cut short
\* (run_client_writer, ResponseSlot, run_ws_tunnel).
THEOREM ImplementsResponseStream == Spec => OrderedResponses
<1>1. Init => Ordered!Init
  BY DEF Init, Ordered!Init, Requests
<1>2. IInv /\ [Next]_vars => [Ordered!Next]_<<out, writer # "closed" /\ rpc # "closed">>
  BY StreamStep DEF StillOpen
<1>3. QED
  BY <1>1, <1>2, Invariant, PTL DEF Spec, OrderedResponses, Ordered!Spec

-----------------------------------------------------------------------------
(* The requests that hold an upstream connection.                          *)

\* The requests that may hold a connection for a response still to be written.
Pinned == {r \in Requests : wpc[r] \notin {"none", "park", "end"}}

\* The last event of r's response is in its channel.
DoneSent(r) == \E i \in 1 .. Len(events[r]) : events[r][i] = "done"

\* While the writer lives, each of these requests has its slot in the queue or
\* is the one whose slot is emptied.
PinInv ==
    /\ Len(queue) <= RESPONSE_QUEUE_CAPACITY
    /\ WriterAlive => \A r \in Pinned : Listening(r)
    /\ \A r \in Requests : DoneSent(r) => r \notin Pinned
    /\ PinnedBound

\* The slots somebody listens to are consecutive, and no more than the queue
\* has room for and the one being emptied.
LEMMA ListenedSlots ==
  ASSUME IInv, Len(queue) <= RESPONSE_QUEUE_CAPACITY
  PROVE  \E a \in Int : \A r \in Requests :
            Listening(r) => r \in a .. a + RESPONSE_QUEUE_CAPACITY
<1> WriterType /\ QueueInv /\ SlotInv
  BY TypeParts DEF IInv
<1> USE CapacityAssumption
<1>0. Len(queue) \in Nat /\ slot \in Int /\ Requests \subseteq Int
  BY DEF WriterType, Requests
<1>1. CASE queue = << >>
  <2>1. \A r \in Requests : Listening(r) => r \in slot .. slot + RESPONSE_QUEUE_CAPACITY
    BY <1>0, <1>1 DEF Listening
  <2>2. QED
    BY <1>0, <2>1
<1>2. CASE queue # << >>
  <2>1. Len(queue) >= 1 /\ queue[1] \in Int
    <3>1. queue \in Seq(Requests)
      BY DEF WriterType
    <3>2. Len(queue) >= 1 /\ queue[1] \in Requests
      BY <1>2, <3>1
    <3>3. QED
      BY <1>0, <3>2
  <2>2. \A i \in 1 .. Len(queue) : queue[i] = queue[1] + i - 1
    BY DEF QueueInv
  <2>3. CASE writer = "slot"
    <3>1. queue[1] = slot + 1
      BY <1>2, <2>3 DEF SlotInv
    <3>2. \A r \in Requests : Listening(r) => r \in slot .. slot + RESPONSE_QUEUE_CAPACITY
      BY <1>0, <2>2, <3>1 DEF Listening
    <3>3. QED
      BY <1>0, <3>2
  <2>4. CASE writer # "slot"
    <3>1. \A r \in Requests :
             Listening(r) => r \in queue[1] .. queue[1] + RESPONSE_QUEUE_CAPACITY
      BY <1>0, <2>1, <2>2, <2>4 DEF Listening
    <3>2. QED
      BY <2>1, <3>1
  <2>5. QED
    BY <2>3, <2>4
<1>3. QED
  BY <1>1, <1>2

\* What is pinned is finite, so fewer of them are no more.
LEMMA FewerPinned ==
  ASSUME NEW S \in SUBSET Requests, NEW T \in SUBSET S
  PROVE  /\ IsFiniteSet(S) /\ Cardinality(S) \in Nat /\ Cardinality(T) \in Nat
         /\ Cardinality(T) <= Cardinality(S)
<1>1. IsFiniteSet(Requests)
  BY BoundAssumption, FS_Interval DEF Requests
<1>2. IsFiniteSet(S)
  BY <1>1, FS_Subset
<1>3. QED
  BY <1>2, FS_Subset, FS_CardinalityType

\* While the writer lives, the bound of the queue bounds what is pinned.
LEMMA ListenedBound ==
  ASSUME IInv, Len(queue) <= RESPONSE_QUEUE_CAPACITY,
         \A r \in Pinned : Listening(r)
  PROVE  PinnedBound
<1>1. PICK a \in Int : \A r \in Requests :
         Listening(r) => r \in a .. a + RESPONSE_QUEUE_CAPACITY
  BY ListenedSlots
<1> DEFINE S == a .. a + RESPONSE_QUEUE_CAPACITY
<1>2. Pinned \subseteq S
  BY <1>1 DEF Pinned
<1>3. a + RESPONSE_QUEUE_CAPACITY \in Int /\ RESPONSE_QUEUE_CAPACITY \in Nat
  BY CapacityAssumption
<1>4. IsFiniteSet(S) /\ Cardinality(S) = RESPONSE_QUEUE_CAPACITY + 1
  BY <1>3, FS_Interval
<1>5. Cardinality(Pinned) <= Cardinality(S)
  BY <1>2, <1>4, FS_Subset
<1>6. QED
  BY <1>4, <1>5 DEF PinnedBound, Pinned

\* A worker lets go of its request for good, and does so when it sends Done.
LEMMA WorkerUnpins ==
  ASSUME IInv, NEW r \in Requests, Worker(r)
  PROVE  /\ wpc[r] \notin {"none", "park", "end"}
               \/ wpc'[r] \in {"none", "park", "end"}
         /\ \/ UNCHANGED events \/ Send(r, "chunk") \/ Send(r, "abort")
            \/ wpc'[r] \in {"park", "end"}
<1> PlaceType
  BY TypeParts DEF IInv
<1> USE DEF PlaceType
<1>1. CASE AcquireParked(r)
  BY <1>1 DEF AcquireParked, Goto
<1>2. CASE AcquireMiss(r)
  BY <1>2 DEF AcquireMiss, Goto
<1>3. CASE Dialled(r)
  BY <1>3 DEF Dialled, Goto
<1>4. CASE DialFails(r)
  BY <1>4 DEF DialFails, Goto
<1>5. CASE Panics(r)
  BY <1>5 DEF Panics, End, Goto
<1>6. CASE HeadSent(r)
  BY <1>6 DEF HeadSent, Goto
<1>7. CASE WriteRefused(r)
  BY <1>7 DEF WriteRefused, Retry, Goto
<1>8. CASE Resend(r)
  BY <1>8 DEF Resend, Goto
<1>9. CASE StreamPiece(r)
  BY <1>9 DEF StreamPiece, Goto
<1>10. CASE StreamFails(r)
  BY <1>10 DEF StreamFails, Goto
<1>11. CASE StreamEnds(r)
  BY <1>11 DEF StreamEnds, Goto
<1>12. CASE ResponseHead(r)
  BY <1>12 DEF ResponseHead, Goto
<1>13. CASE ResponseLost(r)
  BY <1>13 DEF ResponseLost, Goto
<1>14. CASE ResponseBad(r)
  BY <1>14 DEF ResponseBad, Goto
<1>15. CASE EmitHead(r)
  BY <1>15 DEF EmitHead, Goto
<1>16. CASE RelayPiece(r)
  BY <1>16 DEF RelayPiece, Goto
<1>17. CASE RelayFails(r)
  BY <1>17 DEF RelayFails, Goto
<1>18. CASE EmitDone(r)
  BY <1>18 DEF EmitDone, Goto
<1>19. CASE EmitAbort(r)
  BY <1>19 DEF EmitAbort, End, Send, Goto
<1>20. CASE NobodyListens(r)
  BY <1>20 DEF NobodyListens, End, Goto
<1>21. CASE Park(r)
  BY <1>21 DEF Park, End, Goto
<1>22. CASE Unparked(r)
  BY <1>22 DEF Unparked, End, Goto
<1>23. CASE Discard(r)
  BY <1>23 DEF Discard, Goto
<1>24. CASE Discarded(r)
  BY <1>24 DEF Discarded, Goto
<1>25. CASE EmitPage(r)
  BY <1>25 DEF EmitPage, Goto
<1>26. CASE EmitPageEnd(r)
  BY <1>26 DEF EmitPageEnd, End, Goto
<1>27. QED
  BY <1>1, <1>2, <1>3, <1>4, <1>5, <1>6, <1>7, <1>8, <1>9, <1>10,
     <1>11, <1>12, <1>13, <1>14, <1>15, <1>16, <1>17, <1>18, <1>19,
     <1>20, <1>21, <1>22, <1>23, <1>24, <1>25, <1>26 DEF Worker

\* A request is pinned when its slot is reserved, and only then.
LEMMA PinnedStep ==
  ASSUME IInv, [Next]_vars
  PROVE  Reserve \/ Pinned' \subseteq Pinned
<1> PlaceType
  BY TypeParts DEF IInv
<1>1. CASE UNCHANGED vars
  BY <1>1 DEF vars, workVars, Pinned
<1>2. CASE Reader
  BY <1>2, ReaderFrame DEF Pinned
<1>3. CASE Writer
  BY <1>3, WriterFrame DEF workVars, Pinned
<1>4. ASSUME NEW r \in Requests, Worker(r) PROVE Pinned' \subseteq Pinned
  <2>1. \A q \in Requests \ {r} : wpc'[q] = wpc[q]
    BY <1>4, OtherWorkers
  <2>2. r \in Pinned' => r \in Pinned
    BY <1>4, WorkerUnpins DEF Pinned
  <2>3. QED
    BY <2>1, <2>2 DEF Pinned
<1>5. CASE Over
  BY <1>5 DEF Over, vars, workVars, Pinned
<1>6. QED
  BY <1>1, <1>2, <1>3, <1>4, <1>5 DEF Next

\* The queue never exceeds its capacity.
LEMMA QueueBounded ==
  ASSUME IInv, PinInv, [Next]_vars
  PROVE  Len(queue') <= RESPONSE_QUEUE_CAPACITY
<1>0. WriterType /\ ReaderType /\ Len(queue) <= RESPONSE_QUEUE_CAPACITY
  BY TypeParts DEF IInv, PinInv
<1> USE CapacityAssumption
<1>q. queue \in Seq(Requests) /\ Len(queue) \in Nat
  BY <1>0 DEF WriterType
<1>1. CASE UNCHANGED queue
  BY <1>0, <1>1
<1>2. CASE queue' = << >>
  BY <1>2
<1>3. CASE Emit \/ Reserve
  <2>1. cur \in Requests
    BY <1>3 DEF IInv, ReaderInv, Pending, Emit, Reserve
  <2>2. Len(queue) < RESPONSE_QUEUE_CAPACITY /\ queue' = Append(queue, cur)
    BY <1>3 DEF Emit, Reserve, CanReserve
  <2>3. Len(queue') = Len(queue) + 1
    BY <1>q, <2>1, <2>2
  <2>4. QED
    BY <1>q, <2>2, <2>3
<1>4. CASE TakeSlot
  <2>1. queue # << >> /\ queue' = Tail(queue)
    BY <1>4 DEF TakeSlot
  <2>2. Len(queue') = Len(queue) - 1
    BY <2>1, TailOfQueue
  <2>3. QED
    BY <1>0, <1>q, <2>2
<1>5. CASE Reader
  BY <1>1, <1>3, <1>5, ReaderFrame
<1>6. CASE Writer
  BY <1>1, <1>2, <1>4, <1>6
  DEF Writer, WriterReturns, WriteChunk, FinishSlot, WriteFails, AbortSlot, SlotLost, GiveUp
<1>7. ASSUME NEW r \in Requests, Worker(r) PROVE UNCHANGED queue
  BY <1>7, WorkerFrame
<1>8. QED
  BY <1>1, <1>5, <1>6, <1>7 DEF Next, Over, vars

\* Done is in a channel only when its worker has let go.
LEMMA DoneStep ==
  ASSUME IInv, PinInv, [Next]_vars, NEW q \in Requests, DoneSent(q)'
  PROVE  q \notin Pinned'
<1>0. EventType /\ WriterType /\ PlaceType /\ (DoneSent(q) => q \notin Pinned)
  BY TypeParts DEF IInv, PinInv
<1>e. events[q] \in Seq({"chunk", "done", "abort"}) /\ Len(events[q]) \in Nat
  BY <1>0 DEF EventType
<1>a. ASSUME events'[q] = events[q], wpc'[q] = wpc[q] PROVE q \notin Pinned'
  BY <1>0, <1>a DEF DoneSent, Pinned
<1>1. CASE UNCHANGED vars
  BY <1>1, <1>a DEF vars, workVars
<1>2. CASE Reader
  <2>1. CASE wpc'[q] = "none"
    BY <2>1 DEF Pinned
  <2>2. CASE wpc'[q] # "none"
    <3>1. events'[q] = events[q]
      BY <1>2, <2>2, ReaderQuiet
    <3>2. CASE wpc'[q] = wpc[q]
      BY <1>a, <3>1, <3>2
    <3>3. CASE events[q] = << >>
      <4>1. Len(events'[q]) = 0
        BY <3>1, <3>3
      <4>2. QED
        BY <4>1 DEF DoneSent
    <3>4. QED
      BY <1>2, <2>2, <3>2, <3>3, ReaderQuiet
  <2>3. QED
    BY <2>1, <2>2
<1>3. CASE Writer
  <2>1. wpc' = wpc
    BY <1>3, WriterFrame DEF workVars
  <2>2. CASE events'[q] = events[q]
    BY <1>a, <2>1, <2>2
  <2>3. CASE events'[q] = << >>
    <3>1. Len(events'[q]) = 0
      BY <2>3
    <3>2. QED
      BY <3>1 DEF DoneSent
  <2>4. CASE events[q] # << >> /\ events'[q] = Tail(events[q])
    <3>1. Len(Tail(events[q])) = Len(events[q]) - 1
          /\ \A i \in 1 .. Len(Tail(events[q])) : Tail(events[q])[i] = events[q][i + 1]
      BY <1>e, <2>4
    <3>2. DoneSent(q)
      BY <1>e, <2>4, <3>1 DEF DoneSent
    <3>3. QED
      BY <1>0, <2>1, <3>2 DEF Pinned
  <2>5. CASE WriteChunk
    <3>1. slot \in Requests
      BY <2>5, SlotBound DEF WriteChunk, Received
    <3>2. events[slot] # << >> /\ events' = [events EXCEPT ![slot] = Tail(events[slot])]
      BY <2>5 DEF WriteChunk, Received
    <3>3. QED
      BY <1>0, <2>2, <2>4, <3>1, <3>2 DEF EventType
  <2>6. CASE FinishSlot
    <3>1. events' = [events EXCEPT ![slot] = << >>]
      BY <2>6 DEF FinishSlot
    <3>2. QED
      BY <1>0, <2>2, <2>3, <3>1 DEF EventType
  <2>7. QED
    BY <1>3, <2>2, <2>3, <2>5, <2>6
    DEF Writer, TakeSlot, WriterReturns, WriteFails, AbortSlot, SlotLost, GiveUp
<1>4. ASSUME NEW r \in Requests, Worker(r) PROVE q \notin Pinned'
  <2>1. CASE q # r
    BY <1>4, <1>a, <2>1, OtherWorkers
  <2>2. CASE q = r
    <3>1. CASE wpc'[r] \in {"park", "end"}
      BY <2>2, <3>1 DEF Pinned
    <3>2. ASSUME DoneSent(r) PROVE q \notin Pinned'
      BY <1>0, <1>4, <2>2, <3>2, WorkerUnpins DEF Pinned
    <3>3. CASE UNCHANGED events
      BY <2>2, <3>2, <3>3 DEF DoneSent
    <3>4. ASSUME NEW e \in {"chunk", "abort"}, Send(r, e) PROVE DoneSent(r)
      <4>1. events'[r] = Append(events[r], e)
        BY <1>0, <3>4 DEF Send, EventType
      <4>2. /\ Len(Append(events[r], e)) = Len(events[r]) + 1
            /\ \A i \in 1 .. Len(events[r]) : Append(events[r], e)[i] = events[r][i]
            /\ Append(events[r], e)[Len(events[r]) + 1] = e
        BY <1>e, <2>2
      <4>3. PICK i \in 1 .. Len(events'[r]) : events'[r][i] = "done"
        BY <2>2 DEF DoneSent
      <4>4. i \in 1 .. Len(events[r])
        <5>1. i # Len(events[r]) + 1
          BY <4>1, <4>2, <4>3
        <5>2. QED
          BY <1>e, <2>2, <4>1, <4>2, <4>3, <5>1
      <4>5. QED
        BY <4>1, <4>2, <4>3, <4>4 DEF DoneSent
    <3>5. QED
      BY <1>4, <3>1, <3>2, <3>3, <3>4, WorkerUnpins
  <2>3. QED
    BY <2>1, <2>2
<1>5. CASE Over
  BY <1>5, <1>a DEF Over, vars, workVars
<1>6. QED
  BY <1>1, <1>2, <1>3, <1>4, <1>5 DEF Next

\* A slot leaves the queue for the writer, and the writer leaves a slot only
\* when it is done or the connection is given up.
LEMMA ListenStep ==
  ASSUME IInv, PinInv, [Next]_vars, WriterAlive', NEW q \in Pinned'
  PROVE  Listening(q)'
<1>0. WriterType /\ EventType /\ (WriterAlive => \A r \in Pinned : Listening(r)) /\ q \in Requests
  BY TypeParts DEF IInv, PinInv, Pinned
<1>q. queue \in Seq(Requests) /\ Len(queue) \in Nat
  BY <1>0 DEF WriterType
<1>a. ASSUME WriterAlive, q \in Pinned, UNCHANGED <<queue, writer, slot>> PROVE Listening(q)'
  BY <1>0, <1>a DEF Listening, WriterAlive
<1>1. CASE UNCHANGED vars
  BY <1>1, <1>a DEF vars, writerVars, workVars, Pinned, WriterAlive
<1>2. CASE Reader
  <2>1. WriterAlive /\ UNCHANGED <<writer, slot>>
    BY <1>2, ReaderFrame DEF WriterAlive
  <2>2. CASE UNCHANGED queue /\ ~Reserve
    BY <1>a, <2>1, <2>2, PinnedStep
  <2>3. CASE Emit \/ Reserve
    <3>1. cur \in Requests /\ queue' = Append(queue, cur)
      BY <2>3 DEF IInv, ReaderInv, Pending, Emit, Reserve
    <3>2. /\ Len(queue') = Len(queue) + 1 /\ queue'[Len(queue) + 1] = cur
          /\ \A i \in 1 .. Len(queue) : queue'[i] = queue[i]
      BY <1>q, <3>1
    <3>3. CASE q = cur
      <4>1. Len(queue) + 1 \in 1 .. Len(queue') /\ queue'[Len(queue) + 1] = q
        BY <1>q, <3>2, <3>3
      <4>2. QED
        BY <4>1 DEF Listening
    <3>4. CASE q # cur
      <4>1. q \in Pinned
        BY <1>0, <2>3, <3>4, TypeParts DEF Emit, Reserve, Pinned, workVars, IInv, PlaceType
      <4>2. Listening(q)
        BY <1>0, <2>1, <4>1
      <4>3. CASE writer = "slot" /\ slot = q
        BY <2>1, <4>3 DEF Listening
      <4>4. ASSUME NEW i \in 1 .. Len(queue), queue[i] = q PROVE Listening(q)'
        <5>1. i \in 1 .. Len(queue') /\ queue'[i] = q
          BY <1>q, <3>2, <4>4
        <5>2. QED
          BY <5>1 DEF Listening
      <4>5. QED
        BY <4>2, <4>3, <4>4 DEF Listening
    <3>5. QED
      BY <3>3, <3>4
  <2>4. QED
    BY <1>2, <2>2, <2>3, ReaderFrame
<1>3. CASE Writer
  <2>1. WriterAlive /\ q \in Pinned
    BY <1>3, WriterFrame DEF workVars, Pinned, WriterAlive, Writer, TakeSlot, WriterReturns,
       WriteChunk, FinishSlot, WriteFails, AbortSlot, SlotLost, Received
  <2>2. Listening(q)
    BY <1>0, <2>1
  <2>3. CASE TakeSlot
    <3>1. /\ writer = "idle" /\ queue # << >> /\ slot' = Head(queue)
          /\ queue' = Tail(queue) /\ writer' = "slot"
      BY <2>3 DEF TakeSlot
    <3>2. PICK i \in 1 .. Len(queue) : queue[i] = q
      BY <2>2, <3>1 DEF Listening
    <3>3. CASE i = 1
      BY <3>1, <3>2, <3>3, TailOfQueue DEF Listening
    <3>4. CASE i # 1
      <4>1. i - 1 \in 1 .. Len(Tail(queue)) /\ (i - 1) + 1 = i
        BY <1>q, <3>1, <3>2, <3>4, TailOfQueue
      <4>2. Tail(queue)[i - 1] = q
        BY <3>1, <3>2, <4>1, TailOfQueue
      <4>3. QED
        BY <3>1, <4>1, <4>2 DEF Listening
    <3>5. QED
      BY <3>3, <3>4
  <2>4. CASE WriteChunk
    BY <1>a, <2>1, <2>4 DEF WriteChunk
  <2>5. CASE FinishSlot
    <3>1. /\ writer = "slot" /\ events[slot] # << >> /\ Head(events[slot]) = "done"
          /\ writer' = "idle" /\ queue' = queue
      BY <2>5 DEF FinishSlot, Received
    <3>2. slot \in Requests
      BY <3>1, SlotBound
    <3>3. events[slot] \in Seq({"chunk", "done", "abort"})
      BY <1>0, <3>2 DEF EventType
    <3>4. 1 \in 1 .. Len(events[slot]) /\ events[slot][1] = "done"
      BY <3>1, <3>3
    <3>5. slot \notin Pinned
      BY <3>2, <3>4 DEF PinInv, DoneSent
    <3>6. QED
      BY <2>1, <2>2, <3>1, <3>5 DEF Listening
  <2>6. QED
    BY <1>3, <2>3, <2>4, <2>5
    DEF Writer, WriterReturns, WriteFails, AbortSlot, SlotLost, GiveUp, WriterAlive
<1>4. ASSUME NEW r \in Requests, Worker(r) PROVE Listening(q)'
  <2>1. UNCHANGED <<queue, writer, slot>>
    BY <1>4, WorkerFrame DEF writerVars
  <2>2. ~Reserve
    <3>1. rpc' = rpc
      BY <1>4, WorkerFrame DEF readerVars
    <3>2. QED
      BY <3>1 DEF Reserve
  <2>3. QED
    BY <1>a, <2>1, <2>2, PinnedStep DEF WriterAlive
<1>5. CASE Over
  BY <1>5, <1>a DEF Over, vars, writerVars, workVars, Pinned, WriterAlive
<1>6. QED
  BY <1>1, <1>2, <1>3, <1>4, <1>5 DEF Next

\* Once the writer is gone nothing more is pinned, so the bound stays.
LEMMA PinStep == IInv /\ IInv' /\ PinInv /\ [Next]_vars => PinInv'
<1> SUFFICES ASSUME IInv, IInv', PinInv, [Next]_vars PROVE PinInv'
  OBVIOUS
<1>1. (Len(queue) <= RESPONSE_QUEUE_CAPACITY)'
  BY QueueBounded
<1>2. (WriterAlive => \A r \in Pinned : Listening(r))'
  BY ListenStep
<1>3. (\A r \in Requests : DoneSent(r) => r \notin Pinned)'
  BY DoneStep
<1>4. PinnedBound'
  <2>1. CASE WriterAlive'
    BY <1>1, <1>2, <2>1, ListenedBound, PTL
  <2>2. CASE ~WriterAlive'
    <3>1. ~Reserve
      BY <2>2 DEF Reserve, CanReserve, WriterAlive, writerVars
    <3>2. Pinned' \subseteq Pinned /\ Pinned \subseteq Requests
      BY <3>1, PinnedStep DEF Pinned
    <3>3. Cardinality(Pinned') <= Cardinality(Pinned) /\ Cardinality(Pinned) \in Nat
          /\ Cardinality(Pinned') \in Nat
      BY <3>2, FewerPinned
    <3>4. Cardinality(Pinned) <= RESPONSE_QUEUE_CAPACITY + 1
      BY DEF PinInv, PinnedBound, Pinned
    <3>5. Cardinality(Pinned') <= RESPONSE_QUEUE_CAPACITY + 1
      BY <3>3, <3>4, CapacityAssumption
    <3>6. QED
      BY <3>5 DEF PinnedBound, Pinned
  <2>3. QED
    BY <2>1, <2>2
<1>5. QED
  BY <1>1, <1>2, <1>3, <1>4 DEF PinInv

\* No request is pinned at first.
LEMMA PinInit == Init => PinInv
<1> SUFFICES ASSUME Init PROVE PinInv
  OBVIOUS
<1>1. Pinned = {}
  BY DEF Init, Pinned
<1>2. Cardinality(Pinned) = 0
  BY <1>1, FS_EmptySet
<1>3. PinnedBound
  BY <1>2, CapacityAssumption DEF PinnedBound, Pinned
<1>4. Len(queue) <= RESPONSE_QUEUE_CAPACITY
  BY CapacityAssumption DEF Init
<1>5. QED
  BY <1>1, <1>3, <1>4 DEF PinInv

\* However many requests a client pipelines, at most one more than the response
\* queue has room for holds an upstream connection whose response is still to
\* be written, also while the connection is given up (RESPONSE_QUEUE_CAPACITY,
\* the reservation of a slot in read_and_dispatch).
THEOREM BackPressure == Spec => []PinnedBound
<1>1. PinInv => PinnedBound
  BY DEF PinInv
<1>2. QED
  BY <1>1, PinInit, PinStep, Invariant, PTL DEF Spec

-----------------------------------------------------------------------------
(* The heads that are read in the middle of a body.                        *)

\* A request that was read is of a kind the run's clients send.
KindsAsked == \A r \in Requests : r <= cur => kind[r] \in Kinds

LEMMA KindsStep == IInv /\ KindsAsked /\ [Next]_vars => KindsAsked'
<1> SUFFICES ASSUME IInv, KindsAsked, [Next]_vars PROVE KindsAsked'
  OBVIOUS
<1>1. UNCHANGED <<kind, cur>> => KindsAsked'
  BY DEF KindsAsked
<1>2. CASE UNCHANGED vars
  BY <1>1, <1>2 DEF vars, readerVars
<1>3. CASE ReadHead
  <2>1. cur \in Nat /\ kind \in [Requests -> AllKinds]
    BY TypeParts DEF IInv, ReaderType
  <2>2. PICK k \in Kinds : kind' = [kind EXCEPT ![cur + 1] = k]
    BY <1>3 DEF ReadHead
  <2>3. cur' = cur + 1
    BY <1>3 DEF ReadHead
  <2>4. ASSUME NEW r \in Requests, r <= cur + 1 PROVE kind'[r] \in Kinds
    BY <2>1, <2>2, <2>4 DEF KindsAsked, Requests
  <2> QED
    BY <2>3, <2>4 DEF KindsAsked, Requests
<1>4. CASE Reader
  BY <1>1, <1>3, <1>4, KindFixed
<1>5. CASE Writer
  BY <1>1, <1>5, WriterFrame DEF readerVars
<1>6. ASSUME NEW r \in Requests, Worker(r) PROVE KindsAsked'
  BY <1>1, <1>6, WorkerFrame DEF readerVars
<1>7. CASE Over
  BY <1>1, <1>7 DEF Over, vars, readerVars
<1> QED
  BY <1>2, <1>4, <1>5, <1>6, <1>7 DEF Next

\* Without static and file answers no head is read in the middle of a body: the
\* drain whose failure respond_static and respond_file ignore is the one place
\* where the client's bytes get out of step (read_and_dispatch).
THEOREM SyncedWithoutStatic ==
    ASSUME "static" \notin Kinds
    PROVE  Spec => []ByteSynced
<1>1. Init => KindsAsked
  BY DEF Init, KindsAsked, Requests
<1>2. Spec => []KindsAsked
  BY <1>1, KindsStep, Invariant, PTL DEF Spec
<1>3. IInv /\ KindsAsked => ByteSynced
  <2> SUFFICES ASSUME IInv, KindsAsked, rpc = "head", unread # 0 PROVE FALSE
    BY DEF ByteSynced
  <2>1. cur \in 0 .. MaxRequests /\ unread \in 0 .. MaxBody /\ cur # 0
    BY TypeParts DEF IInv, ReaderType, ReaderInv
  <2>2. cur \in Requests /\ unread > 0
    BY <2>1, BoundAssumption DEF Requests
  <2>3. kind[cur] = "static"
    BY <2>2 DEF IInv, ReaderInv, SyncedUnlessStatic
  <2>4. kind[cur] \in Kinds
    BY <2>1, <2>2 DEF KindsAsked
  <2> QED
    BY <2>3, <2>4
<1> QED
  BY <1>2, <1>3, Invariant, PTL

=============================================================================
