-------------------------- MODULE GatewayLink_proofs --------------------------
(***************************************************************************)
(* GatewayLink for every number of sessions, certificate versions and      *)
(* requests: the two registries, who may evict a session from the client's,*)
(* and what happens to a certificate the client did not get from the       *)
(* server.                                                                 *)
(***************************************************************************)
EXTENDS GatewayLink, TLAPS

\* A session that was not dialed yet exists at neither end.
Undialed ==
    \A s \in Sessions : s > cur =>
        net[s] = "none" /\ ~open[s] /\ cRead[s] = "none" /\ inbound[s] = "none"

\* Only a session with a read loop is connected.
OpenIsRead == \A s \in Sessions : open[s] => cRead[s] = "run"

\* A loop that shakes hands or pings has a session, which has no read loop
\* until the handshake succeeds.
LoopHasSession ==
    /\ loop \in {"handshake", "ping"} => cur # 0
    /\ loop = "handshake" => cRead[cur] = "none"

\* Between the head of the loop and the end of the handshake nothing is
\* registered.
EmptyWhileDialing == loop \in {"dial", "handshake"} => clientMap = 0

\* A removal, a refresh or a compile under way was decided on the certificate
\* that is still cached, or the cache was written since.
WindowInv ==
    /\ (\E s \in Sessions : removing[s]) =>
          cert.origin \in {"pushed", "none"} \/ overtaken
    /\ "timer" \in loading => cert.origin = "local" \/ overtaken
    /\ "missing" \in loading => cert.origin = "none" \/ overtaken

\* What the registries hand out, with what makes it inductive.
LinkInv ==
    /\ Undialed /\ OpenIsRead /\ LoopHasSession /\ EmptyWhileDialing
    /\ ClientHandsOutCurrent /\ ServerHandsOutRead

IInv == TypeOK /\ LinkInv /\ WindowInv

-----------------------------------------------------------------------------
(* The steps that move the connections and those that move certificates.   *)

LoopStep ==
    \/ LoopTop \/ DialFails \/ Dial \/ HandshakeFails \/ Register
    \/ PingTimeout \/ PingRefused

SessionStep ==
    \/ \E s \in Sessions :
          \/ ClientReaderEnds(s)
          \/ ServerAnswers(s) \/ ServerRejects(s) \/ ServerRegisters(s)
          \/ ServerReaderEnds(s)
          \/ FallsSilent(s) \/ Breaks(s)
    \/ ServerRestarts

CacheStep ==
    \/ \E s \in Sessions : TakePushed(s) \/ TakeNotFound(s) \/ Remove(s)
    \/ InitManually
    \/ RefreshBegins \/ RefreshEnds
    \/ AskedBegins \/ AskedEnds
    \/ CompileBegins \/ CompileEnds

SyncStep ==
    \/ \E s \in Sessions : FramesLost(s)
    \/ Renew \/ Load \/ \E v \in Versions : Age(v)
    \/ \E r \in Requests :
          \/ ServerTakes(r) \/ ServerReads(r) \/ ServerReplies(r)
          \/ ServerGivesUp(r) \/ TickRequests(r)
    \/ TickBegins \/ TickEnds

\* Every step of the specification is one of the four kinds.
LEMMA NextIsOne ==
    ASSUME Next
    PROVE  LoopStep \/ SessionStep \/ CacheStep \/ SyncStep
  BY DEF Next, LoopStep, SessionStep, CacheStep, SyncStep, ClientTakes, ServerAnswer

\* The certificates are not the connections' business ...
LEMMA LinkLeavesCache ==
    ASSUME LoopStep \/ SessionStep
    PROVE  UNCHANGED <<cert, removing, loading, overtaken>>
<1>1. ASSUME LoopStep PROVE UNCHANGED <<cert, removing, loading, overtaken>>
  BY <1>1 DEF LoopStep, LoopTop, DialFails, Dial, HandshakeFails, Register,
              PingTimeout, PingRefused, certVars
<1>2. ASSUME SessionStep PROVE UNCHANGED <<cert, removing, loading, overtaken>>
  BY <1>2 DEF SessionStep, ClientReaderEnds, ServerAnswers, ServerRejects,
              ServerRegisters, ServerReaderEnds, FallsSilent, Breaks,
              ServerRestarts, certVars
<1> QED  BY <1>1, <1>2

\* ... nor the connections the certificates', and of what is cached only the
\* client's own steps dispose.
LEMMA SyncLeavesLink ==
    ASSUME CacheStep \/ SyncStep
    PROVE  UNCHANGED linkVars
  BY DEF CacheStep, SyncStep, TakePushed, TakeNotFound, Remove, InitManually,
         RefreshBegins, RefreshEnds, AskedBegins, AskedEnds, CompileBegins,
         CompileEnds, Begins, Ends, FramesLost, Renew, Load, Age, ServerTakes,
         ServerReads, ServerReplies, ServerGivesUp, TickRequests, TickBegins,
         TickEnds

LEMMA SyncLeavesCache ==
    ASSUME SyncStep
    PROVE  UNCHANGED <<cert, removing, loading, overtaken>>
  BY DEF SyncStep, FramesLost, Renew, Load, Age, ServerTakes, ServerReads,
         ServerReplies, ServerGivesUp, TickRequests, TickBegins, TickEnds,
         certVars

\* A load of the local source under way ...
LEMMA LoadUnderWay ==
    ASSUME CacheStep
    PROVE  \/ \E s \in Sessions : TakePushed(s) \/ TakeNotFound(s) \/ Remove(s)
           \/ InitManually
           \/ \E k \in Loads : Begins(k)
           \/ \E k \in Loads : Ends(k)
  BY DEF CacheStep, RefreshBegins, RefreshEnds, AskedBegins, AskedEnds,
         CompileBegins, CompileEnds, Loads

\* ... stores a local certificate or nothing.
LEMMA LoadStores ==
    ASSUME NEW k \in Loads, Ends(k)
    PROVE  /\ k \in loading /\ loading' = loading \ {k}
           /\ UNCHANGED removing
           /\ cert' = Cert("local", 0) \/ cert' = cert
  BY Zenon DEF Ends, Store

-----------------------------------------------------------------------------
(* Types.                                                                  *)

LEMMA LoopStepType ==
    ASSUME TypeOK, LoopStep
    PROVE  TypeOK'
<1> USE BoundsAssumption DEF TypeOK, Sessions, Versions, Requests, certVars
<1>1. CASE LoopTop  BY <1>1 DEF LoopTop
<1>2. CASE DialFails  BY <1>2 DEF DialFails
<1>3. CASE Dial  BY <1>3 DEF Dial
<1>4. CASE HandshakeFails  BY <1>4 DEF HandshakeFails
<1>5. CASE Register
  <2>1. request' \in [Requests -> [st : {"free", "sent", "task", "read"},
                                   sess : 0 .. MaxSessions, ver : Versions]]
    <3>1. ASSUME NEW r \in Requests,
                 request' = [request EXCEPT ![r] =
                                [st |-> "sent", sess |-> cur, ver |-> 0]]
          PROVE  request' \in [Requests -> [st : {"free", "sent", "task", "read"},
                                   sess : 0 .. MaxSessions, ver : Versions]]
      <4>1. [st |-> "sent", sess |-> cur, ver |-> 0] \in
               [st : {"free", "sent", "task", "read"},
                sess : 0 .. MaxSessions, ver : Versions]
        OBVIOUS
      <4> QED  BY <3>1, <4>1
    <3> QED  BY <1>5, <3>1 DEF Register
  <2> QED  BY <1>5, <2>1 DEF Register
<1>6. CASE PingTimeout  BY <1>6 DEF PingTimeout
<1>7. CASE PingRefused  BY <1>7 DEF PingRefused
<1> QED  BY <1>1, <1>2, <1>3, <1>4, <1>5, <1>6, <1>7 DEF LoopStep

LEMMA SessionStepType ==
    ASSUME TypeOK, SessionStep
    PROVE  TypeOK'
<1> USE BoundsAssumption DEF TypeOK, Sessions, Versions, Requests, certVars
<1>1. ASSUME NEW s \in Sessions, ClientReaderEnds(s) PROVE TypeOK'
  <2>1. /\ cRead' = [cRead EXCEPT ![s] = "over"] /\ clientMap' = 0
        /\ open' = [open EXCEPT ![s] = FALSE]
        /\ UNCHANGED <<loop, cur, serverMap, net, inbound, certVars, request,
                       reply>>
    BY <1>1 DEF ClientReaderEnds
  <2> QED  BY <2>1
<1>2. ASSUME NEW s \in Sessions, ServerAnswers(s) PROVE TypeOK'
  BY <1>2 DEF ServerAnswers
<1>3. ASSUME NEW s \in Sessions, ServerRejects(s) PROVE TypeOK'
  BY <1>3 DEF ServerRejects
<1>4. ASSUME NEW s \in Sessions, ServerRegisters(s) PROVE TypeOK'
  BY <1>4 DEF ServerRegisters
<1>5. ASSUME NEW s \in Sessions, ServerReaderEnds(s) PROVE TypeOK'
  BY <1>5 DEF ServerReaderEnds
<1>6. ASSUME NEW s \in Sessions, FallsSilent(s) PROVE TypeOK'
  BY <1>6 DEF FallsSilent
<1>7. ASSUME NEW s \in Sessions, Breaks(s) PROVE TypeOK'
  BY <1>7 DEF Breaks
<1>8. CASE ServerRestarts
  <2>1. Free \in [st : {"free", "sent", "task", "read"},
                  sess : 0 .. MaxSessions, ver : Versions]
    BY DEF Free
  <2> QED  BY <1>8, <2>1 DEF ServerRestarts
<1> QED
  BY <1>1, <1>2, <1>3, <1>4, <1>5, <1>6, <1>7, <1>8 DEF SessionStep

LEMMA CacheStepType ==
    ASSUME TypeOK, CacheStep
    PROVE  TypeOK'
<1> USE BoundsAssumption DEF TypeOK, Versions, Requests, linkVars, Cert, NoCert
<1>0. \A s \in Sessions : reply[s] \in Seq(Versions)
  OBVIOUS
<1>1. ASSUME NEW s \in Sessions, TakePushed(s) PROVE TypeOK'
  <2>1. Head(reply[s]) \in Versions /\ Tail(reply[s]) \in Seq(Versions)
    BY <1>0, <1>1 DEF TakePushed
  <2>2. cert' \in [origin : {"none", "pushed", "manual", "local"}, ver : Versions]
    BY <1>1, <2>1 DEF TakePushed, Store
  <2>3. reply' \in [Sessions -> Seq(Versions)]
    BY <1>1, <2>1 DEF TakePushed
  <2>4. overtaken' \in BOOLEAN
    BY <1>1 DEF TakePushed, Store, InWindow
  <2> QED  BY <1>1, <2>2, <2>3, <2>4 DEF TakePushed
<1>2. ASSUME NEW s \in Sessions, TakeNotFound(s) PROVE TypeOK'
  <2>1. reply' \in [Sessions -> Seq(Versions)]
    BY <1>0, <1>2 DEF TakeNotFound
  <2>2. removing' \in [Sessions -> BOOLEAN]
    BY <1>2 DEF TakeNotFound, Pushed
  <2> QED  BY <1>2, <2>1, <2>2 DEF TakeNotFound
<1>3. ASSUME NEW s \in Sessions, Remove(s) PROVE TypeOK'
  BY <1>3 DEF Remove
<1>4. CASE InitManually
  <2>1. overtaken' \in BOOLEAN
    BY <1>4 DEF InitManually, Store, InWindow
  <2> QED  BY <1>4, <2>1 DEF InitManually, Store
<1>5. ASSUME NEW k \in Loads, Begins(k) PROVE TypeOK'
  BY <1>5 DEF Begins
<1>6. ASSUME NEW k \in Loads, Ends(k) PROVE TypeOK'
  <2>1. overtaken' \in BOOLEAN
    <3>1. InWindow(loading \ {k}) \in BOOLEAN
      BY DEF InWindow
    <3>2. overtaken' = InWindow(loading \ {k}) \/ overtaken' = overtaken
      BY <1>6, Zenon DEF Ends, Store
    <3> QED  BY <3>1, <3>2
  <2>2. cert' \in [origin : {"none", "pushed", "manual", "local"}, ver : Versions]
    BY <1>6, LoadStores
  <2>3. loading' \subseteq Loads
    BY <1>6, LoadStores
  <2>4. UNCHANGED <<linkVars, srv, issued, near, removing, tick, request, reply>>
    BY <1>6 DEF Ends
  <2> QED  BY <2>1, <2>2, <2>3, <2>4
<1> QED  BY <1>1, <1>2, <1>3, <1>4, <1>5, <1>6, LoadUnderWay

LEMMA SyncStepType ==
    ASSUME TypeOK, SyncStep
    PROVE  TypeOK'
<1> USE BoundsAssumption DEF TypeOK, Sessions, Versions, Requests, linkVars, certVars
<1>0. Free \in [st : {"free", "sent", "task", "read"},
                sess : 0 .. MaxSessions, ver : Versions]
  BY DEF Free
<1>1. ASSUME NEW s \in Sessions, FramesLost(s) PROVE TypeOK'
  <2>1. reply' \in [Sessions -> Seq(Versions)]
    BY <1>1 DEF FramesLost
  <2> QED  BY <1>0, <1>1, <2>1 DEF FramesLost
<1>2. CASE Renew  BY <1>2 DEF Renew
<1>3. CASE Load  BY <1>3 DEF Load
<1>4. ASSUME NEW v \in Versions, Age(v) PROVE TypeOK'  BY <1>4 DEF Age
<1>5. ASSUME NEW r \in Requests, ServerTakes(r) PROVE TypeOK'
  BY <1>5 DEF ServerTakes
<1>6. ASSUME NEW r \in Requests, ServerReads(r) PROVE TypeOK'
  BY <1>6 DEF ServerReads
<1>7. ASSUME NEW r \in Requests, ServerReplies(r) PROVE TypeOK'
  <2>1. request[r].ver \in Versions
    OBVIOUS
  <2>2. reply' \in [Sessions -> Seq(Versions)]
    <3>1. ASSUME NEW q \in Seq(Versions), NEW v \in Versions
          PROVE  Append(q, v) \in Seq(Versions)
      OBVIOUS
    <3>2. request[r].sess \in Sessions =>
             Append(reply[request[r].sess], request[r].ver) \in Seq(Versions)
      BY <2>1, <3>1
    <3> QED  BY <1>7, <3>2 DEF ServerReplies
  <2> QED  BY <1>0, <1>7, <2>2 DEF ServerReplies
<1>8. ASSUME NEW r \in Requests, ServerGivesUp(r) PROVE TypeOK'
  BY <1>0, <1>8 DEF ServerGivesUp
<1>9. ASSUME NEW r \in Requests, TickRequests(r) PROVE TypeOK'
  BY <1>9 DEF TickRequests
<1>10. CASE TickBegins  BY <1>10 DEF TickBegins
<1>11. CASE TickEnds  BY <1>11 DEF TickEnds
<1> QED
  BY <1>1, <1>2, <1>3, <1>4, <1>5, <1>6, <1>7, <1>8, <1>9, <1>10, <1>11
     DEF SyncStep

-----------------------------------------------------------------------------
(* The registries.                                                         *)

LEMMA LoopStepLink ==
    ASSUME TypeOK, LinkInv, LoopStep
    PROVE  LinkInv'
<1> USE BoundsAssumption DEF TypeOK, LinkInv, Undialed, OpenIsRead,
        LoopHasSession, EmptyWhileDialing, ClientHandsOutCurrent,
        ServerHandsOutRead, Sessions
<1>1. CASE LoopTop  BY <1>1 DEF LoopTop
<1>2. CASE DialFails  BY <1>2 DEF DialFails
<1>3. CASE Dial  BY <1>3 DEF Dial
<1>4. CASE HandshakeFails  BY <1>4 DEF HandshakeFails
<1>5. CASE Register  BY <1>5 DEF Register
<1>6. CASE PingTimeout  BY <1>6 DEF PingTimeout
<1>7. CASE PingRefused  BY <1>7 DEF PingRefused
<1> QED  BY <1>1, <1>2, <1>3, <1>4, <1>5, <1>6, <1>7 DEF LoopStep

LEMMA SessionStepLink ==
    ASSUME TypeOK, LinkInv, SessionStep
    PROVE  LinkInv'
<1> USE BoundsAssumption DEF TypeOK, LinkInv, Undialed, OpenIsRead,
        LoopHasSession, EmptyWhileDialing, ClientHandsOutCurrent,
        ServerHandsOutRead, Sessions
<1>1. ASSUME NEW s \in Sessions, ClientReaderEnds(s) PROVE LinkInv'
  BY <1>1 DEF ClientReaderEnds
<1>2. ASSUME NEW s \in Sessions, ServerAnswers(s) PROVE LinkInv'
  BY <1>2 DEF ServerAnswers
<1>3. ASSUME NEW s \in Sessions, ServerRejects(s) PROVE LinkInv'
  BY <1>3 DEF ServerRejects
<1>4. ASSUME NEW s \in Sessions, ServerRegisters(s) PROVE LinkInv'
  BY <1>4 DEF ServerRegisters
<1>5. ASSUME NEW s \in Sessions, ServerReaderEnds(s) PROVE LinkInv'
  BY <1>5 DEF ServerReaderEnds
<1>6. ASSUME NEW s \in Sessions, FallsSilent(s) PROVE LinkInv'
  BY <1>6 DEF FallsSilent
<1>7. ASSUME NEW s \in Sessions, Breaks(s) PROVE LinkInv'
  BY <1>7 DEF Breaks
<1>8. CASE ServerRestarts  BY <1>8 DEF ServerRestarts
<1> QED
  BY <1>1, <1>2, <1>3, <1>4, <1>5, <1>6, <1>7, <1>8 DEF SessionStep

-----------------------------------------------------------------------------
(* The windows of the certificate cache.                                   *)

\* A store with a check outstanding is marked.
LEMMA StoreMarks ==
    ASSUME NEW c, NEW ls, Store(c, ls)
    PROVE  /\ cert' = c
           /\ overtaken' \/ (ls \subseteq {"asked"} /\ \A s \in Sessions : ~removing[s])
<1>1. cert' = c /\ (overtaken' <=> InWindow(ls))
  BY Zenon DEF Store
<1>2. InWindow(ls) \/ (ls \subseteq {"asked"} /\ \A s \in Sessions : ~removing[s])
  BY DEF InWindow
<1> QED  BY <1>1, <1>2

LEMMA CacheStepWindow ==
    ASSUME TypeOK, WindowInv, CacheStep
    PROVE  WindowInv'
<1> USE DEF TypeOK, WindowInv, Cert, NoCert
<1>1. ASSUME NEW s \in Sessions, TakePushed(s) PROVE WindowInv'
  <2>1. Store(Cert("pushed", Head(reply[s])), loading)
        /\ UNCHANGED <<removing, loading>>
    BY <1>1 DEF TakePushed
  <2> QED  BY <2>1, StoreMarks
<1>2. ASSUME NEW s \in Sessions, TakeNotFound(s) PROVE WindowInv'
  BY <1>2 DEF TakeNotFound, Pushed
<1>3. ASSUME NEW s \in Sessions, Remove(s) PROVE WindowInv'
  BY <1>3 DEF Remove
<1>4. CASE InitManually
  <2>1. Store(Cert("manual", 0), loading) /\ UNCHANGED <<removing, loading>>
    BY <1>4 DEF InitManually
  <2> QED  BY <2>1, StoreMarks
<1>5. CASE RefreshBegins  BY <1>5 DEF RefreshBegins, Begins
<1>6. CASE AskedBegins  BY <1>6 DEF AskedBegins, Begins
<1>7. CASE CompileBegins  BY <1>7 DEF CompileBegins, Begins
<1>8. ASSUME NEW k \in Loads, Ends(k) PROVE WindowInv'
  <2>1. loading' = loading \ {k} /\ UNCHANGED removing
    BY <1>8, LoadStores
  <2>2. CASE Store(Cert("local", 0), loading \ {k})
    <3>1. \/ overtaken'
          \/ loading' \subseteq {"asked"} /\ \A s \in Sessions : ~removing'[s]
      BY <2>1, <2>2, StoreMarks
    <3> QED  BY <3>1
  <2>3. CASE UNCHANGED <<cert, overtaken>>
    BY <2>1, <2>3
  <2> QED  BY <1>8, <2>2, <2>3 DEF Ends
<1>9. CASE RefreshEnds \/ AskedEnds \/ CompileEnds
  BY <1>8, <1>9 DEF RefreshEnds, AskedEnds, CompileEnds, Loads
<1> QED
  BY <1>1, <1>2, <1>3, <1>4, <1>5, <1>6, <1>7, <1>9 DEF CacheStep

-----------------------------------------------------------------------------
(* The invariant.                                                          *)

LEMMA InitIInv == Init => IInv
<1> SUFFICES ASSUME Init PROVE IInv  OBVIOUS
<1>1. TypeOK
  <2>1. reply \in [Sessions -> Seq(Versions)]
    BY DEF Init
  <2>2. request \in [Requests -> [st : {"free", "sent", "task", "read"},
                                  sess : 0 .. MaxSessions, ver : Versions]]
    BY BoundsAssumption DEF Init, Versions, Free
  <2>3. cert \in [origin : {"none", "pushed", "manual", "local"}, ver : Versions]
    BY BoundsAssumption DEF Init, Versions, Cert, NoCert
  <2>4. /\ loop = "top" /\ cur = 0
        /\ clientMap = 0 /\ serverMap = 0
        /\ srv \in Versions /\ issued \in Versions /\ near \subseteq Versions
        /\ tick = 0 /\ loading = {} /\ overtaken = FALSE
    BY BoundsAssumption DEF Init, Versions
  <2>5. /\ net \in [Sessions -> {"none", "up", "silent", "closed"}]
        /\ open \in [Sessions -> BOOLEAN]
        /\ cRead \in [Sessions -> {"none", "run", "over"}]
        /\ inbound \in [Sessions ->
                            {"none", "handshake", "answered", "run", "over"}]
        /\ removing \in [Sessions -> BOOLEAN]
    BY DEF Init
  <2>6. {0} \subseteq 0 .. MaxSessions
    BY BoundsAssumption
  <2> QED  BY <2>1, <2>2, <2>3, <2>4, <2>5, <2>6 DEF TypeOK
<1>2. LinkInv
  BY DEF Init, LinkInv, Undialed, OpenIsRead, LoopHasSession,
         EmptyWhileDialing, ClientHandsOutCurrent, ServerHandsOutRead
<1>3. WindowInv
  BY DEF Init, WindowInv
<1> QED  BY <1>1, <1>2, <1>3 DEF IInv

LEMMA StepIInv == IInv /\ [Next]_vars => IInv'
<1> SUFFICES ASSUME IInv, [Next]_vars PROVE IInv'  OBVIOUS
<1> USE DEF IInv
<1>1. CASE LoopStep \/ SessionStep
  <2>1. TypeOK'  BY <1>1, LoopStepType, SessionStepType
  <2>2. LinkInv'  BY <1>1, LoopStepLink, SessionStepLink
  <2>3. WindowInv'  BY <1>1, LinkLeavesCache DEF WindowInv
  <2> QED  BY <2>1, <2>2, <2>3
<1>2. CASE CacheStep \/ SyncStep
  <2>1. TypeOK'  BY <1>2, CacheStepType, SyncStepType
  <2>2. LinkInv'
    BY <1>2, SyncLeavesLink
       DEF linkVars, LinkInv, Undialed, OpenIsRead, LoopHasSession,
           EmptyWhileDialing, ClientHandsOutCurrent, ServerHandsOutRead
  <2>3. WindowInv'
    <3>1. CASE CacheStep  BY <3>1, CacheStepWindow
    <3>2. CASE SyncStep  BY <3>2, SyncLeavesCache DEF WindowInv
    <3> QED  BY <1>2, <3>1, <3>2
  <2> QED  BY <2>1, <2>2, <2>3
<1>3. CASE UNCHANGED vars
  BY <1>3 DEF vars, linkVars, certVars, TypeOK, LinkInv, Undialed, OpenIsRead,
              LoopHasSession, EmptyWhileDialing, ClientHandsOutCurrent,
              ServerHandsOutRead, WindowInv
<1> QED  BY <1>1, <1>2, <1>3, NextIsOne

\* IInv holds of every behaviour.
THEOREM IInvHolds == Spec => []IInv
  BY InitIInv, StepIInv, PTL DEF Spec

\* Whatever the order in which sessions register, fall silent, break and end,
\* the client's registry holds the session of its loop or none, and the
\* server's one whose read loop runs (set_gateway_connection and
\* gateway_read_loop at either side).
THEOREM LinkSoundHolds == Spec => []LinkSound
<1>1. IInv => LinkSound
  BY DEF IInv, LinkInv, LinkSound
<1> QED  BY <1>1, IInvHolds, PTL

-----------------------------------------------------------------------------
(* Who evicts a session, and who a certificate.                            *)

\* The step that takes a live session out of the client's registry is the
\* loop's own or the end of the read loop of a session dialed before it.
LEMMA EvictStep ==
    ASSUME IInv, Next, clientMap # 0, clientMap' # clientMap,
           cRead[cur] = "run", cRead'[cur] = "run"
    PROVE  \/ loop = "top"
           \/ \E s \in Sessions :
                 s < cur /\ cRead[s] = "run" /\ cRead'[s] = "over"
<1>1. CASE LoopStep
  BY <1>1 DEF IInv, LinkInv, EmptyWhileDialing, LoopStep, LoopTop, DialFails,
              Dial, HandshakeFails, Register, PingTimeout, PingRefused
<1>2. CASE SessionStep
  <2>1. PICK s \in Sessions : ClientReaderEnds(s)
    BY <1>2 DEF SessionStep, ServerAnswers, ServerRejects, ServerRegisters,
                ServerReaderEnds, FallsSilent, Breaks, ServerRestarts
  <2>2. cRead[s] = "run" /\ cRead'[s] = "over"
    BY <2>1 DEF ClientReaderEnds, IInv, TypeOK
  <2>3. s < cur
    BY <2>2, BoundsAssumption DEF IInv, TypeOK, LinkInv, Undialed, Sessions
  <2> QED  BY <2>2, <2>3
<1>3. CASE CacheStep \/ SyncStep
  BY <1>3, SyncLeavesLink DEF linkVars
<1> QED  BY <1>1, <1>2, <1>3, NextIsOne

\* A removal of the client's entry under a live session has one of two causes
\* (set_gateway_connection(name, None) in gateway_read_loop and connection_loop).
THEOREM OnlyOlderEvictsHolds == Spec => OnlyOlderEvicts
<1>1. IInv /\ [Next]_vars =>
        [ clientMap # 0 /\ clientMap' # clientMap /\ cRead[cur] = "run"
           /\ cRead'[cur] = "run" =>
          \/ loop = "top"
          \/ \E s \in Sessions :
                s < cur /\ cRead[s] = "run" /\ cRead'[s] = "over" ]_vars
  BY EvictStep
<1> QED  BY <1>1, IInvHolds, PTL DEF Spec, OnlyOlderEvicts

LEMMA LocalStep ==
    ASSUME IInv, Next
    PROVE  \/ overtaken
           \/ /\ cert.origin \in {"manual", "local"} => cert'.origin # "none"
              /\ cert.origin \in {"manual", "pushed"} /\ cert'.origin = "local" =>
                    HandedBack
<1>1. CASE LoopStep \/ SessionStep \/ SyncStep
  BY <1>1, LinkLeavesCache, SyncLeavesCache
<1>2. CASE CacheStep
  <2>1. ASSUME NEW s \in Sessions, TakePushed(s) PROVE cert'.origin = "pushed"
    BY <2>1 DEF TakePushed, Store, Cert
  <2>2. ASSUME NEW s \in Sessions, TakeNotFound(s) PROVE cert' = cert
    BY <2>2 DEF TakeNotFound
  <2>3. ASSUME NEW s \in Sessions, Remove(s)
        PROVE  \/ overtaken
               \/ cert.origin \in {"pushed", "none"} /\ cert'.origin = "none"
    BY <2>3 DEF Remove, NoCert, Cert, IInv, WindowInv
  <2>4. ASSUME InitManually PROVE cert'.origin = "manual"
    BY <2>4 DEF InitManually, Store, Cert
  <2>5. ASSUME NEW k \in Loads, Begins(k) PROVE cert' = cert
    BY <2>5 DEF Begins
  <2>6. ASSUME NEW k \in Loads, Ends(k)
        PROVE  \/ overtaken \/ cert' = cert
               \/ /\ cert'.origin = "local"
                  /\ k = "asked" => HandedBack
                  /\ k # "asked" => cert.origin \notin {"manual", "pushed"}
    <3>1. k \in loading /\ loading' = loading \ {k}
          /\ (cert'.origin = "local" \/ cert' = cert)
      BY <2>6, LoadStores DEF Cert
    <3>2. k = "asked" => HandedBack
      BY <3>1 DEF HandedBack
    <3>3. k # "asked" => overtaken \/ cert.origin \in {"local", "none"}
      BY <3>1 DEF IInv, WindowInv, Loads
    <3> QED  BY <3>1, <3>2, <3>3
  <2> QED  BY <1>2, <2>1, <2>2, <2>3, <2>4, <2>5, <2>6, LoadUnderWay
<1> QED  BY <1>1, <1>2, NextIsOne

\* For any number of sessions and requests: NotFound, the refresh timer and a
\* compile touch no certificate they did not find themselves, unless it was
\* stored between their check and their write; what the operator uploaded
\* becomes local again only when the operator asks (client_packet_handler,
\* refresh_ssl_certs_from_sources, make_sure_ssl_cert_exists, the timer).
THEOREM LocalUntouchedHolds == Spec => LocalUntouched
<1>1. IInv /\ [Next]_vars =>
        [ \/ overtaken
          \/ /\ cert.origin \in {"manual", "local"} => cert'.origin # "none"
             /\ cert.origin \in {"manual", "pushed"} /\ cert'.origin = "local" =>
                   HandedBack ]_vars
  BY LocalStep
<1> QED  BY <1>1, IInvHolds, PTL DEF Spec, LocalUntouched
=============================================================================
