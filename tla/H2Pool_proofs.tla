---------------------------- MODULE H2Pool_proofs ----------------------------
(***************************************************************************)
(* H2Pool for every pool size and every set of requests.  Indices: where  *)
(* an actor may be, and which entries exist then (WhereInv).  Mutual       *)
(* exclusion: the critical sections of the revive locks (LockInv).         *)
(***************************************************************************)
EXTENDS H2Pool, TLAPS

\* What is known of a request at each place: whatever it works on is in the
\* pool, a scan runs on a full pool, and a connection is held only from Send on.
RequestInv(r) ==
    /\ at[r] <= len
    /\ pc[r] \in {"scan", "alive", "mark", "spawn", "cas", "lock", "locked",
                  "dial", "stored", "rescan"} => at[r] >= 1
    /\ pc[r] \in {"scan", "alive", "lock", "locked", "dial", "stored", "rescan"}
           => len = PoolSize /\ held[r] = "none"
    /\ pc[r] \in {"mark", "spawn", "cas"} /\ held[r] = "none" => len = PoolSize
    /\ held[r] # "none" => pc[r] \in {"sent", "failed", "mark", "spawn", "cas"}
    /\ pc[r] # "idle" => tries[r] >= 1

\* A task exists for entries of the pool only; the tick stays in its snapshot.
WhereInv ==
    /\ \A r \in Requests : RequestInv(r)
    /\ \A e \in Entries : at[e] = e /\ (pc[e] # "none" => e <= len)
    /\ pc[Sup] # "idle" => at[Sup] >= 1 /\ at[Sup] + left[Sup] <= len

\* One actor at a time has an entry's revive_lock, and the entry is dead from
\* its dial until it clears the flag.
LockInv ==
    /\ \A a, b \in Requests \cup Entries :
          /\ at[a] = at[b]
          /\ pc[a] \in {"locked", "dial", "stored"}
          /\ pc[b] \in {"locked", "dial", "stored"}
          => a = b
    /\ \A a \in Requests \cup Entries : pc[a] \in {"dial", "stored"} => dead[at[a]]

IInv == TypeOK /\ WhereInv /\ LockInv

\* Nothing has happened yet.
LEMMA Initially == Init => IInv
<1> SUFFICES ASSUME Init PROVE IInv
  OBVIOUS
<1> USE PoolAssumption, ActorsAssumption DEF Entries, Actors
<1>1. \A r \in Requests : pc[r] = "idle" /\ at[r] = 0 /\ held[r] = "none"
  BY DEF Init
<1>2. \A e \in Entries : pc[e] = "none" /\ at[e] = e
  BY DEF Init
<1>3. pc[Sup] = "idle" /\ len = 0
  BY DEF Init
<1>4. TypeOK
  <2>1. pc \in [Actors -> RequestPC \cup TaskPC \cup TickPC] /\ at \in [Actors -> 0..PoolSize]
    BY DEF Init, RequestPC, TaskPC, TickPC
  <2>2. len \in 0..PoolSize /\ left \in [Actors -> 0..PoolSize - 1] /\ tries \in [Requests -> 0..2]
    BY DEF Init
  <2>3. /\ dead \in [Entries -> BOOLEAN] /\ cooling \in [Entries -> BOOLEAN]
        /\ down \in [Entries -> BOOLEAN] /\ shutdown \in BOOLEAN
        /\ held \in [Requests -> {"none", "current", "replaced"}] /\ topup \in {"none", "check", "dial"}
    BY DEF Init
  <2>4. /\ (\A r \in Requests : pc[r] \in RequestPC)
        /\ (\A e \in Entries : pc[e] \in TaskPC)
        /\ pc[Sup] \in TickPC
    BY <1>1, <1>2, <1>3 DEF RequestPC, TaskPC, TickPC
  <2>5. QED
    BY <2>1, <2>2, <2>3, <2>4 DEF TypeOK
<1>5. WhereInv
  <2>1. ASSUME NEW r \in Requests PROVE RequestInv(r)
    BY <2>1, <1>1, <1>3 DEF RequestInv
  <2>2. QED
    BY <2>1, <1>2, <1>3 DEF WhereInv
<1>6. LockInv
  BY <1>1, <1>2 DEF LockInv
<1>7. QED
  BY <1>4, <1>5, <1>6 DEF IInv

\* Every step keeps the types.
LEMMA TypeStep == IInv /\ [Next]_vars => TypeOK'
<1> SUFFICES ASSUME IInv, [Next]_vars PROVE TypeOK'
  OBVIOUS
<1> USE PoolAssumption, ActorsAssumption
    DEF Entries, Actors, IInv, TypeOK, WhereInv, RequestInv, RequestPC, TaskPC, TickPC,
        entryVars, poolVars, actorVars
<1>1. CASE UNCHANGED vars
  BY <1>1 DEF vars
<1>2. ASSUME NEW r \in Requests, RequestStep(r) PROVE TypeOK'
  <2>1. CASE Call(r)
    BY <2>1 DEF Call, Goto
  <2>2. CASE GetGrow(r)
    BY <2>2 DEF GetGrow, Goto
  <2>3. CASE GetScan(r)
    BY <2>3 DEF GetScan, Goto
  <2>4. CASE GrowDials(r)
    BY <2>4 DEF GrowDials, Goto
  <2>5. CASE GrowFails(r)
    BY <2>5 DEF GrowFails, Finish, Goto
  <2>6. CASE Push(r)
    BY <2>6 DEF Push, TryPush, Goto
  <2>7. CASE OneShot(r)
    BY <2>7 DEF OneShot, Goto
  <2>8. CASE ScanLive(r)
    BY <2>8 DEF ScanLive, Goto
  <2>9. CASE ScanDead(r)
    BY <2>9 DEF ScanDead, Goto
  <2>10. CASE ScanPick(r)
    BY <2>10 DEF ScanPick, Goto
  <2>11. CASE ScanBroken(r)
    BY <2>11 DEF ScanBroken, Goto
  <2>12. CASE LockTimesOut(r)
    BY <2>12 DEF LockTimesOut, Goto
  <2>13. CASE Rescan(r)
    <3>1. CASE /\ ~dead[at[r]]
               /\ Goto(r, "got")
               /\ UNCHANGED <<at, left, held, tries>>
               /\ UNCHANGED <<entryVars, poolVars, topup>>
      BY <2>13, <3>1 DEF Rescan, Goto
    <3>2. CASE /\ /\ left[r] > 0
               /\ at' = [at EXCEPT ![r] = After(@)]
               /\ left' = [left EXCEPT ![r] = @ - 1]
             /\ UNCHANGED <<pc, held, tries>> /\ UNCHANGED <<entryVars, poolVars, topup>>
      <4>1. (len \in 0..PoolSize)'
        BY <2>13, <3>2 DEF Rescan, After
      <4>2. (/\ dead \in [Entries -> BOOLEAN]
             /\ cooling \in [Entries -> BOOLEAN]
             /\ down \in [Entries -> BOOLEAN])'
        BY <2>13, <3>2 DEF Rescan, After
      <4>3. (shutdown \in BOOLEAN)'
        BY <2>13, <3>2 DEF Rescan, After
      <4>4. (pc \in [Actors -> RequestPC \cup TaskPC \cup TickPC])'
        BY <2>13, <3>2 DEF Rescan, After
      <4>5. (\A q \in Requests : pc[q] \in RequestPC)'
        BY <2>13, <3>2 DEF Rescan, After
      <4>6. (\A e \in Entries : pc[e] \in TaskPC)'
        BY <2>13, <3>2 DEF Rescan, After
      <4>7. (pc[Sup] \in TickPC)'
        BY <2>13, <3>2 DEF Rescan, After
      <4>8. (at \in [Actors -> 0..PoolSize])'
        BY <2>13, <3>2 DEF Rescan, After
      <4>9. (left \in [Actors -> 0..PoolSize - 1])'
        BY <2>13, <3>2 DEF Rescan, After
      <4>10. (held \in [Requests -> {"none", "current", "replaced"}])'
        BY <2>13, <3>2 DEF Rescan, After
      <4>11. (tries \in [Requests -> 0..2])'
        BY <2>13, <3>2 DEF Rescan, After
      <4>12. (topup \in {"none", "check", "dial"})'
        BY <2>13, <3>2 DEF Rescan, After
      <4> QED
        BY <4>1, <4>2, <4>3, <4>4, <4>5, <4>6, <4>7, <4>8, <4>9, <4>10, <4>11, <4>12
    <3>3. CASE Finish(r) /\ UNCHANGED <<entryVars, poolVars, topup>>
      BY <2>13, <3>3 DEF Rescan, Finish, Goto
    <3>4. QED
      BY <2>13, <3>1, <3>2, <3>3 DEF Rescan
  <2>14. CASE Send(r)
    BY <2>14 DEF Send, Goto
  <2>15. CASE Answered(r)
    BY <2>15 DEF Answered, Finish, Goto
  <2>16. CASE ConnectionFails(r)
    BY <2>16 DEF ConnectionFails, Goto
  <2>17. CASE IsCurrent(r)
    BY <2>17 DEF IsCurrent, Goto
  <2>18. CASE IsReplaced(r)
    BY <2>18 DEF IsReplaced, Attempt
  <2>19. CASE Cancel(r)
    BY <2>19 DEF Cancel, Finish, Goto
  <2>20. QED
    BY <1>2, <2>1, <2>2, <2>3, <2>4, <2>5, <2>6, <2>7, <2>8, <2>9, <2>10, <2>11, <2>12,
       <2>13, <2>14, <2>15, <2>16, <2>17, <2>18, <2>19 DEF RequestStep
<1>3. ASSUME NEW a \in Requests \cup {Sup}, Marker(a) PROVE TypeOK'
  <2>1. CASE MarkDead(a)
    BY <2>1 DEF MarkDead, Goto
  <2>2. CASE SpawnChecks(a)
    BY <2>2 DEF SpawnChecks, Goto
  <2>3. CASE SpawnSkips(a)
    <3>1. CASE a = Sup /\ TickNext(pc)
      BY <2>3, <3>1 DEF SpawnSkips, WorthReviving, TickNext
    <3>2. CASE a \in Requests /\ held[a] = "none" /\ ScanNext(a, pc)
      BY <2>3, <3>2 DEF SpawnSkips, WorthReviving, ScanNext, After
    <3>3. CASE a \in Requests /\ held[a] # "none" /\ Attempt(a, pc)
      BY <2>3, <3>3 DEF SpawnSkips, WorthReviving, Attempt
    <3>4. QED
      BY <2>3, <3>1, <3>2, <3>3 DEF SpawnSkips, Spawned
  <2>4. CASE SpawnPending(a)
    <3>1. CASE a = Sup /\ TickNext(pc)
      BY <2>4, <3>1 DEF SpawnPending, WorthReviving, TickNext
    <3>2. CASE a \in Requests /\ held[a] = "none" /\ ScanNext(a, pc)
      BY <2>4, <3>2 DEF SpawnPending, WorthReviving, ScanNext, After
    <3>3. CASE a \in Requests /\ held[a] # "none" /\ Attempt(a, pc)
      BY <2>4, <3>3 DEF SpawnPending, WorthReviving, Attempt
    <3>4. QED
      BY <2>4, <3>1, <3>2, <3>3 DEF SpawnPending, Spawned
  <2>5. CASE SpawnTask(a)
    <3>0. /\ pc[a] = "cas"
          /\ at[a] \in Entries
          /\ a \notin Entries
          /\ at[a] # a
          /\ at[a] <= len
          /\ at[at[a]] = at[a]
      BY <2>5 DEF SpawnTask
    <3>1. CASE a = Sup /\ TickNext([pc EXCEPT ![at[a]] = "start"])
      <4>1. (len \in 0..PoolSize)'
        BY <2>5, <3>1, <3>0 DEF SpawnTask, WorthReviving, TickNext
      <4>2. (/\ dead \in [Entries -> BOOLEAN]
             /\ cooling \in [Entries -> BOOLEAN]
             /\ down \in [Entries -> BOOLEAN])'
        BY <2>5, <3>1, <3>0 DEF SpawnTask, WorthReviving, TickNext
      <4>3. (shutdown \in BOOLEAN)'
        BY <2>5, <3>1, <3>0 DEF SpawnTask, WorthReviving, TickNext
      <4>4. (pc \in [Actors -> RequestPC \cup TaskPC \cup TickPC])'
        BY <2>5, <3>1, <3>0 DEF SpawnTask, WorthReviving, TickNext
      <4>5. (\A q \in Requests : pc[q] \in RequestPC)'
        BY <2>5, <3>1, <3>0 DEF SpawnTask, WorthReviving, TickNext
      <4>6. (\A e \in Entries : pc[e] \in TaskPC)'
        BY <2>5, <3>1, <3>0 DEF SpawnTask, WorthReviving, TickNext
      <4>7. (pc[Sup] \in TickPC)'
        BY <2>5, <3>1, <3>0 DEF SpawnTask, WorthReviving, TickNext
      <4>8. (at \in [Actors -> 0..PoolSize])'
        BY <2>5, <3>1, <3>0 DEF SpawnTask, WorthReviving, TickNext
      <4>9. (left \in [Actors -> 0..PoolSize - 1])'
        BY <2>5, <3>1, <3>0 DEF SpawnTask, WorthReviving, TickNext
      <4>10. (held \in [Requests -> {"none", "current", "replaced"}])'
        BY <2>5, <3>1, <3>0 DEF SpawnTask, WorthReviving, TickNext
      <4>11. (tries \in [Requests -> 0..2])'
        BY <2>5, <3>1, <3>0 DEF SpawnTask, WorthReviving, TickNext
      <4>12. (topup \in {"none", "check", "dial"})'
        BY <2>5, <3>1, <3>0 DEF SpawnTask, WorthReviving, TickNext
      <4> QED
        BY <4>1, <4>2, <4>3, <4>4, <4>5, <4>6, <4>7, <4>8, <4>9, <4>10, <4>11, <4>12
    <3>2. CASE a \in Requests /\ held[a] = "none" /\ ScanNext(a, [pc EXCEPT ![at[a]] = "start"])
      <4>1. (len \in 0..PoolSize)'
        BY <2>5, <3>2, <3>0 DEF SpawnTask, WorthReviving, ScanNext, After
      <4>2. (/\ dead \in [Entries -> BOOLEAN]
             /\ cooling \in [Entries -> BOOLEAN]
             /\ down \in [Entries -> BOOLEAN])'
        BY <2>5, <3>2, <3>0 DEF SpawnTask, WorthReviving, ScanNext, After
      <4>3. (shutdown \in BOOLEAN)'
        BY <2>5, <3>2, <3>0 DEF SpawnTask, WorthReviving, ScanNext, After
      <4>4. (pc \in [Actors -> RequestPC \cup TaskPC \cup TickPC])'
        BY <2>5, <3>2, <3>0 DEF SpawnTask, WorthReviving, ScanNext, After
      <4>5. (\A q \in Requests : pc[q] \in RequestPC)'
        BY <2>5, <3>2, <3>0 DEF SpawnTask, WorthReviving, ScanNext, After
      <4>6. (\A e \in Entries : pc[e] \in TaskPC)'
        BY <2>5, <3>2, <3>0 DEF SpawnTask, WorthReviving, ScanNext, After
      <4>7. (pc[Sup] \in TickPC)'
        BY <2>5, <3>2, <3>0 DEF SpawnTask, WorthReviving, ScanNext, After
      <4>8. (at \in [Actors -> 0..PoolSize])'
        BY <2>5, <3>2, <3>0 DEF SpawnTask, WorthReviving, ScanNext, After
      <4>9. (left \in [Actors -> 0..PoolSize - 1])'
        BY <2>5, <3>2, <3>0 DEF SpawnTask, WorthReviving, ScanNext, After
      <4>10. (held \in [Requests -> {"none", "current", "replaced"}])'
        BY <2>5, <3>2, <3>0 DEF SpawnTask, WorthReviving, ScanNext, After
      <4>11. (tries \in [Requests -> 0..2])'
        BY <2>5, <3>2, <3>0 DEF SpawnTask, WorthReviving, ScanNext, After
      <4>12. (topup \in {"none", "check", "dial"})'
        BY <2>5, <3>2, <3>0 DEF SpawnTask, WorthReviving, ScanNext, After
      <4> QED
        BY <4>1, <4>2, <4>3, <4>4, <4>5, <4>6, <4>7, <4>8, <4>9, <4>10, <4>11, <4>12
    <3>3. CASE a \in Requests /\ held[a] # "none" /\ Attempt(a, [pc EXCEPT ![at[a]] = "start"])
      <4>1. (len \in 0..PoolSize)'
        BY <2>5, <3>3, <3>0 DEF SpawnTask, WorthReviving, Attempt
      <4>2. (/\ dead \in [Entries -> BOOLEAN]
             /\ cooling \in [Entries -> BOOLEAN]
             /\ down \in [Entries -> BOOLEAN])'
        BY <2>5, <3>3, <3>0 DEF SpawnTask, WorthReviving, Attempt
      <4>3. (shutdown \in BOOLEAN)'
        BY <2>5, <3>3, <3>0 DEF SpawnTask, WorthReviving, Attempt
      <4>4. (pc \in [Actors -> RequestPC \cup TaskPC \cup TickPC])'
        BY <2>5, <3>3, <3>0 DEF SpawnTask, WorthReviving, Attempt
      <4>5. (\A q \in Requests : pc[q] \in RequestPC)'
        BY <2>5, <3>3, <3>0 DEF SpawnTask, WorthReviving, Attempt
      <4>6. (\A e \in Entries : pc[e] \in TaskPC)'
        BY <2>5, <3>3, <3>0 DEF SpawnTask, WorthReviving, Attempt
      <4>7. (pc[Sup] \in TickPC)'
        BY <2>5, <3>3, <3>0 DEF SpawnTask, WorthReviving, Attempt
      <4>8. (at \in [Actors -> 0..PoolSize])'
        BY <2>5, <3>3, <3>0 DEF SpawnTask, WorthReviving, Attempt
      <4>9. (left \in [Actors -> 0..PoolSize - 1])'
        BY <2>5, <3>3, <3>0 DEF SpawnTask, WorthReviving, Attempt
      <4>10. (held \in [Requests -> {"none", "current", "replaced"}])'
        BY <2>5, <3>3, <3>0 DEF SpawnTask, WorthReviving, Attempt
      <4>11. (tries \in [Requests -> 0..2])'
        BY <2>5, <3>3, <3>0 DEF SpawnTask, WorthReviving, Attempt
      <4>12. (topup \in {"none", "check", "dial"})'
        BY <2>5, <3>3, <3>0 DEF SpawnTask, WorthReviving, Attempt
      <4> QED
        BY <4>1, <4>2, <4>3, <4>4, <4>5, <4>6, <4>7, <4>8, <4>9, <4>10, <4>11, <4>12
    <3>4. QED
      BY <2>5, <3>1, <3>2, <3>3 DEF SpawnTask, Spawned
  <2>6. QED
    BY <1>3, <2>1, <2>2, <2>3, <2>4, <2>5 DEF Marker
<1>4. ASSUME NEW e \in Entries, TaskStart(e) PROVE TypeOK'
  BY <1>4 DEF TaskStart, Goto
<1>5. ASSUME NEW a \in Requests \cup Entries, Reviver(a) PROVE TypeOK'
  <2>1. CASE LockRevive(a)
    BY <2>1 DEF LockRevive, Goto, ReviveLockFree
  <2>2. CASE ReviveAlready(a)
    BY <2>2 DEF ReviveAlready, Revived, Goto
  <2>3. CASE ReviveCoolingDown(a)
    BY <2>3 DEF ReviveCoolingDown, NotRevived, Goto
  <2>4. CASE ReviveDial(a)
    BY <2>4 DEF ReviveDial, Goto
  <2>5. CASE ReviveFails(a)
    BY <2>5 DEF ReviveFails, NotRevived, Goto
  <2>6. CASE ReviveStore(a)
    BY <2>6 DEF ReviveStore, Goto, Replace
  <2>7. CASE ReviveClear(a)
    BY <2>7 DEF ReviveClear, Revived, Goto
  <2>8. QED
    BY <1>5, <2>1, <2>2, <2>3, <2>4, <2>5, <2>6, <2>7 DEF Reviver
<1>6. CASE Tick
  <2>1. CASE TickBegin
    <3>1. (len \in 0..PoolSize)'
      BY <2>1 DEF TickBegin, Goto
    <3>2. (/\ dead \in [Entries -> BOOLEAN]
           /\ cooling \in [Entries -> BOOLEAN]
           /\ down \in [Entries -> BOOLEAN])'
      BY <2>1 DEF TickBegin, Goto
    <3>3. (shutdown \in BOOLEAN)'
      BY <2>1 DEF TickBegin, Goto
    <3>4. (pc \in [Actors -> RequestPC \cup TaskPC \cup TickPC])'
      BY <2>1 DEF TickBegin, Goto
    <3>5. (\A q \in Requests : pc[q] \in RequestPC)'
      BY <2>1 DEF TickBegin, Goto
    <3>6. (\A e \in Entries : pc[e] \in TaskPC)'
      BY <2>1 DEF TickBegin, Goto
    <3>7. (pc[Sup] \in TickPC)'
      BY <2>1 DEF TickBegin, Goto
    <3>8. (at \in [Actors -> 0..PoolSize])'
      BY <2>1 DEF TickBegin, Goto
    <3>9. (left \in [Actors -> 0..PoolSize - 1])'
      BY <2>1 DEF TickBegin, Goto
    <3>10. (held \in [Requests -> {"none", "current", "replaced"}])'
      BY <2>1 DEF TickBegin, Goto
    <3>11. (tries \in [Requests -> 0..2])'
      BY <2>1 DEF TickBegin, Goto
    <3>12. (topup \in {"none", "check", "dial"})'
      BY <2>1 DEF TickBegin, Goto
    <3> QED
      BY <3>1, <3>2, <3>3, <3>4, <3>5, <3>6, <3>7, <3>8, <3>9, <3>10, <3>11, <3>12
  <2>2. CASE TickShutdown
    BY <2>2 DEF TickShutdown, TickEnds, Goto
  <2>3. CASE TickDead
    BY <2>3 DEF TickDead, Goto
  <2>4. CASE TickBroken
    BY <2>4 DEF TickBroken, Goto
  <2>5. CASE TickSkips
    BY <2>5 DEF TickSkips, TickNext
  <2>6. CASE TickPings
    BY <2>6 DEF TickPings, Goto
  <2>7. CASE PingOk
    BY <2>7 DEF PingOk, TickNext
  <2>8. CASE PingFails
    BY <2>8 DEF PingFails, Goto
  <2>9. CASE TickDropped
    BY <2>9 DEF TickDropped, TickEnds, Goto
  <2>10. QED
    BY <1>6, <2>1, <2>2, <2>3, <2>4, <2>5, <2>6, <2>7, <2>8, <2>9 DEF Tick
<1>7. CASE TopUp
  <2>1. CASE TopUpCheck
    BY <2>1 DEF TopUpCheck
  <2>2. CASE TopUpDials
    <3>1. (len \in 0..PoolSize)'
      BY <2>2 DEF TopUpDials, TryPush
    <3>2. (/\ dead \in [Entries -> BOOLEAN]
           /\ cooling \in [Entries -> BOOLEAN]
           /\ down \in [Entries -> BOOLEAN])'
      BY <2>2 DEF TopUpDials, TryPush
    <3>3. (shutdown \in BOOLEAN)'
      BY <2>2 DEF TopUpDials, TryPush
    <3>4. (pc \in [Actors -> RequestPC \cup TaskPC \cup TickPC])'
      BY <2>2 DEF TopUpDials, TryPush
    <3>5. (\A q \in Requests : pc[q] \in RequestPC)'
      BY <2>2 DEF TopUpDials, TryPush
    <3>6. (\A e \in Entries : pc[e] \in TaskPC)'
      BY <2>2 DEF TopUpDials, TryPush
    <3>7. (pc[Sup] \in TickPC)'
      BY <2>2 DEF TopUpDials, TryPush
    <3>8. (at \in [Actors -> 0..PoolSize])'
      BY <2>2 DEF TopUpDials, TryPush
    <3>9. (left \in [Actors -> 0..PoolSize - 1])'
      BY <2>2 DEF TopUpDials, TryPush
    <3>10. (held \in [Requests -> {"none", "current", "replaced"}])'
      BY <2>2 DEF TopUpDials, TryPush
    <3>11. (tries \in [Requests -> 0..2])'
      BY <2>2 DEF TopUpDials, TryPush
    <3>12. (topup \in {"none", "check", "dial"})'
      BY <2>2 DEF TopUpDials, TryPush
    <3> QED
      BY <3>1, <3>2, <3>3, <3>4, <3>5, <3>6, <3>7, <3>8, <3>9, <3>10, <3>11, <3>12
  <2>3. CASE TopUpFails
    BY <2>3 DEF TopUpFails
  <2>4. QED
    BY <1>7, <2>1, <2>2, <2>3 DEF TopUp
<1>8. ASSUME NEW e \in Entries, TransportDies(e) \/ CooldownEnds(e) PROVE TypeOK'
  <2>1. CASE TransportDies(e)
    BY <2>1 DEF TransportDies
  <2>2. CASE CooldownEnds(e)
    BY <2>2 DEF CooldownEnds
  <2>3. QED
    BY <1>8, <2>1, <2>2
<1>9. CASE Drain
  BY <1>9 DEF Drain
<1>10. QED
  BY <1>1, <1>2, <1>3, <1>4, <1>5, <1>6, <1>7, <1>8, <1>9 DEF Next

\* The end of an attempt: what is known of the request then, and of the others.
LEMMA AttemptEnds ==
    ASSUME IInv, NEW r \in Requests, pc[r] # "idle", NEW STATE f, Attempt(r, f),
           DOMAIN f = Actors, \A q \in Requests \ {r} : f[q] = pc[q], len' = len
    PROVE  \A q \in Requests : RequestInv(q)'
<1> USE DEF Actors
<1>1. tries \in [Requests -> 0..2] /\ at \in [Actors -> 0..PoolSize]
      /\ held \in [Requests -> {"none", "current", "replaced"}] /\ len \in Nat
  BY DEF IInv, TypeOK
<1>2. pc'[r] = (IF tries[r] > 1 THEN "get" ELSE "idle") /\ tries'[r] = tries[r] - 1
      /\ held'[r] = "none" /\ at'[r] = 0
  BY <1>1 DEF Attempt
<1>3. pc'[r] # "idle" => tries'[r] >= 1
  BY <1>1, <1>2
<1>4. RequestInv(r)'
  BY <1>1, <1>2, <1>3 DEF RequestInv
<1>5. ASSUME NEW q \in Requests \ {r} PROVE RequestInv(q)'
  <2>1. pc'[q] = pc[q] /\ tries'[q] = tries[q] /\ held'[q] = held[q] /\ at'[q] = at[q]
    BY <1>1 DEF Attempt
  <2>2. RequestInv(q)
    BY DEF IInv, WhereInv
  <2>3. QED
    BY <2>1, <2>2 DEF RequestInv
<1>6. QED
  BY <1>4, <1>5

\* Every step keeps the actors where they may be.
LEMMA WhereStep == IInv /\ [Next]_vars => WhereInv'
<1> SUFFICES ASSUME IInv, [Next]_vars PROVE WhereInv'
  OBVIOUS
<1> USE PoolAssumption, ActorsAssumption
    DEF Entries, Actors, IInv, TypeOK, WhereInv, RequestInv, RequestPC, TaskPC, TickPC,
        entryVars, poolVars, actorVars
<1>1. CASE UNCHANGED vars
  BY <1>1 DEF vars
<1>2. ASSUME NEW r \in Requests, RequestStep(r) PROVE WhereInv'
  <2>1. CASE Call(r)
    BY <2>1 DEF Call, Goto
  <2>2. CASE GetGrow(r)
    BY <2>2 DEF GetGrow, Goto
  <2>3. CASE GetScan(r)
    BY <2>3 DEF GetScan, Goto
  <2>4. CASE GrowDials(r)
    BY <2>4 DEF GrowDials, Goto
  <2>5. CASE GrowFails(r)
    BY <2>5 DEF GrowFails, Finish, Goto
  <2>6. CASE Push(r)
    BY <2>6 DEF Push, TryPush, Goto
  <2>7. CASE OneShot(r)
    BY <2>7 DEF OneShot, Goto
  <2>8. CASE ScanLive(r)
    BY <2>8 DEF ScanLive, Goto
  <2>9. CASE ScanDead(r)
    BY <2>9 DEF ScanDead, Goto
  <2>10. CASE ScanPick(r)
    BY <2>10 DEF ScanPick, Goto
  <2>11. CASE ScanBroken(r)
    BY <2>11 DEF ScanBroken, Goto
  <2>12. CASE LockTimesOut(r)
    BY <2>12 DEF LockTimesOut, Goto
  <2>13. CASE Rescan(r)
    <3>1. CASE /\ ~dead[at[r]]
               /\ Goto(r, "got")
               /\ UNCHANGED <<at, left, held, tries>>
               /\ UNCHANGED <<entryVars, poolVars, topup>>
      BY <2>13, <3>1 DEF Rescan, Goto
    <3>2. CASE /\ /\ left[r] > 0
               /\ at' = [at EXCEPT ![r] = After(@)]
               /\ left' = [left EXCEPT ![r] = @ - 1]
             /\ UNCHANGED <<pc, held, tries>> /\ UNCHANGED <<entryVars, poolVars, topup>>
      <4>1. ASSUME NEW q \in Requests, q # r PROVE RequestInv(q)'
        BY <2>13, <3>2 DEF Rescan, After
      <4>2. r \in Requests => RequestInv(r)'
        BY <2>13, <3>2 DEF Rescan, After
      <4>3. (\A e \in Entries : at[e] = e /\ (pc[e] # "none" => e <= len))'
        BY <2>13, <3>2 DEF Rescan, After
      <4>4. (pc[Sup] # "idle" => at[Sup] >= 1 /\ at[Sup] + left[Sup] <= len)'
        BY <2>13, <3>2 DEF Rescan, After
      <4> QED
        BY <4>1, <4>2, <4>3, <4>4
    <3>3. CASE Finish(r) /\ UNCHANGED <<entryVars, poolVars, topup>>
      BY <2>13, <3>3 DEF Rescan, Finish, Goto
    <3>4. QED
      BY <2>13, <3>1, <3>2, <3>3 DEF Rescan
  <2>14. CASE Send(r)
    BY <2>14 DEF Send, Goto
  <2>15. CASE Answered(r)
    BY <2>15 DEF Answered, Finish, Goto
  <2>16. CASE ConnectionFails(r)
    BY <2>16 DEF ConnectionFails, Goto
  <2>17. CASE IsCurrent(r)
    BY <2>17 DEF IsCurrent, Goto
  <2>18. CASE IsReplaced(r)
    <3>1. pc[r] # "idle" /\ Attempt(r, pc) /\ len' = len /\ r \in Requests
          /\ DOMAIN pc = Actors /\ \A q \in Requests \ {r} : pc[q] = pc[q]
      BY <2>18 DEF IsReplaced
    <3>2. \A q \in Requests : RequestInv(q)'
      BY <3>1, AttemptEnds
    <3>3. (\A e \in Entries : at[e] = e /\ (pc[e] # "none" => e <= len))'
      BY <2>18 DEF IsReplaced, Attempt
    <3>4. (pc[Sup] # "idle" => at[Sup] >= 1 /\ at[Sup] + left[Sup] <= len)'
      BY <2>18 DEF IsReplaced, Attempt
    <3> QED
      BY <3>1, <3>2, <3>3, <3>4
  <2>19. CASE Cancel(r)
    BY <2>19 DEF Cancel, Finish, Goto
  <2>20. QED
    BY <1>2, <2>1, <2>2, <2>3, <2>4, <2>5, <2>6, <2>7, <2>8, <2>9, <2>10, <2>11, <2>12,
       <2>13, <2>14, <2>15, <2>16, <2>17, <2>18, <2>19 DEF RequestStep
<1>3. ASSUME NEW a \in Requests \cup {Sup}, Marker(a) PROVE WhereInv'
  <2>1. CASE MarkDead(a)
    BY <2>1 DEF MarkDead, Goto
  <2>2. CASE SpawnChecks(a)
    BY <2>2 DEF SpawnChecks, Goto
  <2>3. CASE SpawnSkips(a)
    <3>1. CASE a = Sup /\ TickNext(pc)
      BY <2>3, <3>1 DEF SpawnSkips, WorthReviving, TickNext
    <3>2. CASE a \in Requests /\ held[a] = "none" /\ ScanNext(a, pc)
      BY <2>3, <3>2 DEF SpawnSkips, WorthReviving, ScanNext, After
    <3>3. CASE a \in Requests /\ held[a] # "none" /\ Attempt(a, pc)
      <4>1. pc[a] # "idle" /\ Attempt(a, pc) /\ len' = len /\ a \in Requests
            /\ DOMAIN pc = Actors /\ \A q \in Requests \ {a} : pc[q] = pc[q]
        BY <2>3, <3>3 DEF SpawnSkips
      <4>2. \A q \in Requests : RequestInv(q)'
        BY <4>1, AttemptEnds
      <4>3. (\A e \in Entries : at[e] = e /\ (pc[e] # "none" => e <= len))'
        BY <2>3, <3>3 DEF SpawnSkips, WorthReviving, Attempt
      <4>4. (pc[Sup] # "idle" => at[Sup] >= 1 /\ at[Sup] + left[Sup] <= len)'
        BY <2>3, <3>3 DEF SpawnSkips, WorthReviving, Attempt
      <4> QED
        BY <4>1, <4>2, <4>3, <4>4
    <3>4. QED
      BY <2>3, <3>1, <3>2, <3>3 DEF SpawnSkips, Spawned
  <2>4. CASE SpawnPending(a)
    <3>1. CASE a = Sup /\ TickNext(pc)
      BY <2>4, <3>1 DEF SpawnPending, WorthReviving, TickNext
    <3>2. CASE a \in Requests /\ held[a] = "none" /\ ScanNext(a, pc)
      BY <2>4, <3>2 DEF SpawnPending, WorthReviving, ScanNext, After
    <3>3. CASE a \in Requests /\ held[a] # "none" /\ Attempt(a, pc)
      <4>1. pc[a] # "idle" /\ Attempt(a, pc) /\ len' = len /\ a \in Requests
            /\ DOMAIN pc = Actors /\ \A q \in Requests \ {a} : pc[q] = pc[q]
        BY <2>4, <3>3 DEF SpawnPending
      <4>2. \A q \in Requests : RequestInv(q)'
        BY <4>1, AttemptEnds
      <4>3. (\A e \in Entries : at[e] = e /\ (pc[e] # "none" => e <= len))'
        BY <2>4, <3>3 DEF SpawnPending, WorthReviving, Attempt
      <4>4. (pc[Sup] # "idle" => at[Sup] >= 1 /\ at[Sup] + left[Sup] <= len)'
        BY <2>4, <3>3 DEF SpawnPending, WorthReviving, Attempt
      <4> QED
        BY <4>1, <4>2, <4>3, <4>4
    <3>4. QED
      BY <2>4, <3>1, <3>2, <3>3 DEF SpawnPending, Spawned
  <2>5. CASE SpawnTask(a)
    <3>0. /\ pc[a] = "cas"
          /\ at[a] \in Entries
          /\ a \notin Entries
          /\ at[a] # a
          /\ at[a] <= len
          /\ at[at[a]] = at[a]
      BY <2>5 DEF SpawnTask
    <3>1. CASE a = Sup /\ TickNext([pc EXCEPT ![at[a]] = "start"])
      <4>1. ASSUME NEW q \in Requests, q # a PROVE RequestInv(q)'
        BY <2>5, <3>1, <3>0 DEF SpawnTask, WorthReviving, TickNext
      <4>2. a \in Requests => RequestInv(a)'
        BY <2>5, <3>1, <3>0 DEF SpawnTask, WorthReviving, TickNext
      <4>3. (\A e \in Entries : at[e] = e /\ (pc[e] # "none" => e <= len))'
        BY <2>5, <3>1, <3>0 DEF SpawnTask, WorthReviving, TickNext
      <4>4. (pc[Sup] # "idle" => at[Sup] >= 1 /\ at[Sup] + left[Sup] <= len)'
        BY <2>5, <3>1, <3>0 DEF SpawnTask, WorthReviving, TickNext
      <4> QED
        BY <4>1, <4>2, <4>3, <4>4
    <3>2. CASE a \in Requests /\ held[a] = "none" /\ ScanNext(a, [pc EXCEPT ![at[a]] = "start"])
      <4>1. ASSUME NEW q \in Requests, q # a PROVE RequestInv(q)'
        BY <2>5, <3>2, <3>0 DEF SpawnTask, WorthReviving, ScanNext, After
      <4>2. a \in Requests => RequestInv(a)'
        BY <2>5, <3>2, <3>0 DEF SpawnTask, WorthReviving, ScanNext, After
      <4>3. (\A e \in Entries : at[e] = e /\ (pc[e] # "none" => e <= len))'
        BY <2>5, <3>2, <3>0 DEF SpawnTask, WorthReviving, ScanNext, After
      <4>4. (pc[Sup] # "idle" => at[Sup] >= 1 /\ at[Sup] + left[Sup] <= len)'
        BY <2>5, <3>2, <3>0 DEF SpawnTask, WorthReviving, ScanNext, After
      <4> QED
        BY <4>1, <4>2, <4>3, <4>4
    <3>3. CASE a \in Requests /\ held[a] # "none" /\ Attempt(a, [pc EXCEPT ![at[a]] = "start"])
      <4>1. /\ pc[a] # "idle"
            /\ Attempt(a, [pc EXCEPT ![at[a]] = "start"])
            /\ len' = len
            /\ a \in Requests
            /\ DOMAIN ([pc EXCEPT ![at[a]] = "start"]) = Actors
            /\ \A q \in Requests \ {a} : ([pc EXCEPT ![at[a]] = "start"])[q] = pc[q]
        BY <2>5, <3>3, <3>0 DEF SpawnTask
      <4>2. \A q \in Requests : RequestInv(q)'
        BY <4>1, AttemptEnds
      <4>3. (\A e \in Entries : at[e] = e /\ (pc[e] # "none" => e <= len))'
        BY <2>5, <3>3, <3>0 DEF SpawnTask, WorthReviving, Attempt
      <4>4. (pc[Sup] # "idle" => at[Sup] >= 1 /\ at[Sup] + left[Sup] <= len)'
        BY <2>5, <3>3, <3>0 DEF SpawnTask, WorthReviving, Attempt
      <4> QED
        BY <4>1, <4>2, <4>3, <4>4
    <3>4. QED
      BY <2>5, <3>1, <3>2, <3>3 DEF SpawnTask, Spawned
  <2>6. QED
    BY <1>3, <2>1, <2>2, <2>3, <2>4, <2>5 DEF Marker
<1>4. ASSUME NEW e \in Entries, TaskStart(e) PROVE WhereInv'
  BY <1>4 DEF TaskStart, Goto
<1>5. ASSUME NEW a \in Requests \cup Entries, Reviver(a) PROVE WhereInv'
  <2>1. CASE LockRevive(a)
    BY <2>1 DEF LockRevive, Goto, ReviveLockFree
  <2>2. CASE ReviveAlready(a)
    BY <2>2 DEF ReviveAlready, Revived, Goto
  <2>3. CASE ReviveCoolingDown(a)
    BY <2>3 DEF ReviveCoolingDown, NotRevived, Goto
  <2>4. CASE ReviveDial(a)
    BY <2>4 DEF ReviveDial, Goto
  <2>5. CASE ReviveFails(a)
    BY <2>5 DEF ReviveFails, NotRevived, Goto
  <2>6. CASE ReviveStore(a)
    BY <2>6 DEF ReviveStore, Goto, Replace
  <2>7. CASE ReviveClear(a)
    BY <2>7 DEF ReviveClear, Revived, Goto
  <2>8. QED
    BY <1>5, <2>1, <2>2, <2>3, <2>4, <2>5, <2>6, <2>7 DEF Reviver
<1>6. CASE Tick
  <2>1. CASE TickBegin
    <3>1. ASSUME NEW q \in Requests PROVE RequestInv(q)'
      BY <2>1 DEF TickBegin, Goto
    <3>2. (\A e \in Entries : at[e] = e /\ (pc[e] # "none" => e <= len))'
      BY <2>1 DEF TickBegin, Goto
    <3>3. (pc[Sup] # "idle" => at[Sup] >= 1 /\ at[Sup] + left[Sup] <= len)'
      BY <2>1 DEF TickBegin, Goto
    <3> QED
      BY <3>1, <3>2, <3>3
  <2>2. CASE TickShutdown
    BY <2>2 DEF TickShutdown, TickEnds, Goto
  <2>3. CASE TickDead
    BY <2>3 DEF TickDead, Goto
  <2>4. CASE TickBroken
    BY <2>4 DEF TickBroken, Goto
  <2>5. CASE TickSkips
    BY <2>5 DEF TickSkips, TickNext
  <2>6. CASE TickPings
    BY <2>6 DEF TickPings, Goto
  <2>7. CASE PingOk
    BY <2>7 DEF PingOk, TickNext
  <2>8. CASE PingFails
    BY <2>8 DEF PingFails, Goto
  <2>9. CASE TickDropped
    BY <2>9 DEF TickDropped, TickEnds, Goto
  <2>10. QED
    BY <1>6, <2>1, <2>2, <2>3, <2>4, <2>5, <2>6, <2>7, <2>8, <2>9 DEF Tick
<1>7. CASE TopUp
  <2>1. CASE TopUpCheck
    BY <2>1 DEF TopUpCheck
  <2>2. CASE TopUpDials
    BY <2>2 DEF TopUpDials, TryPush
  <2>3. CASE TopUpFails
    BY <2>3 DEF TopUpFails
  <2>4. QED
    BY <1>7, <2>1, <2>2, <2>3 DEF TopUp
<1>8. ASSUME NEW e \in Entries, TransportDies(e) \/ CooldownEnds(e) PROVE WhereInv'
  <2>1. CASE TransportDies(e)
    BY <2>1 DEF TransportDies
  <2>2. CASE CooldownEnds(e)
    BY <2>2 DEF CooldownEnds
  <2>3. QED
    BY <1>8, <2>1, <2>2
<1>9. CASE Drain
  BY <1>9 DEF Drain
<1>10. QED
  BY <1>1, <1>2, <1>3, <1>4, <1>5, <1>6, <1>7, <1>8, <1>9 DEF Next

\* Every step keeps the revive locks exclusive.
LEMMA LockStep == IInv /\ [Next]_vars => LockInv'
<1> SUFFICES ASSUME IInv, [Next]_vars PROVE LockInv'
  OBVIOUS
<1> USE PoolAssumption, ActorsAssumption
    DEF Entries, Actors, IInv, TypeOK, WhereInv, RequestInv, LockInv, RequestPC, TaskPC, TickPC,
        entryVars, poolVars, actorVars
<1>1. CASE UNCHANGED vars
  BY <1>1 DEF vars
<1>2. ASSUME NEW r \in Requests, RequestStep(r) PROVE LockInv'
  <2>1. CASE Call(r)
    BY <2>1 DEF Call, Goto
  <2>2. CASE GetGrow(r)
    BY <2>2 DEF GetGrow, Goto
  <2>3. CASE GetScan(r)
    BY <2>3 DEF GetScan, Goto
  <2>4. CASE GrowDials(r)
    BY <2>4 DEF GrowDials, Goto
  <2>5. CASE GrowFails(r)
    BY <2>5 DEF GrowFails, Finish, Goto
  <2>6. CASE Push(r)
    BY <2>6 DEF Push, TryPush, Goto
  <2>7. CASE OneShot(r)
    BY <2>7 DEF OneShot, Goto
  <2>8. CASE ScanLive(r)
    BY <2>8 DEF ScanLive, Goto
  <2>9. CASE ScanDead(r)
    BY <2>9 DEF ScanDead, Goto
  <2>10. CASE ScanPick(r)
    BY <2>10 DEF ScanPick, Goto
  <2>11. CASE ScanBroken(r)
    BY <2>11 DEF ScanBroken, Goto
  <2>12. CASE LockTimesOut(r)
    BY <2>12 DEF LockTimesOut, Goto
  <2>13. CASE Rescan(r)
    <3>1. CASE /\ ~dead[at[r]]
               /\ Goto(r, "got")
               /\ UNCHANGED <<at, left, held, tries>>
               /\ UNCHANGED <<entryVars, poolVars, topup>>
      BY <2>13, <3>1 DEF Rescan, Goto
    <3>2. CASE /\ /\ left[r] > 0
               /\ at' = [at EXCEPT ![r] = After(@)]
               /\ left' = [left EXCEPT ![r] = @ - 1]
             /\ UNCHANGED <<pc, held, tries>> /\ UNCHANGED <<entryVars, poolVars, topup>>
      <4>1. (\A x, y \in Requests \cup Entries :
               /\ at[x] = at[y]
               /\ pc[x] \in {"locked", "dial", "stored"}
               /\ pc[y] \in {"locked", "dial", "stored"}
               => x = y)'
        BY <2>13, <3>2 DEF Rescan, After
      <4>2. (\A x \in Requests \cup Entries : pc[x] \in {"dial", "stored"} => dead[at[x]])'
        BY <2>13, <3>2 DEF Rescan, After
      <4> QED
        BY <4>1, <4>2
    <3>3. CASE Finish(r) /\ UNCHANGED <<entryVars, poolVars, topup>>
      BY <2>13, <3>3 DEF Rescan, Finish, Goto
    <3>4. QED
      BY <2>13, <3>1, <3>2, <3>3 DEF Rescan
  <2>14. CASE Send(r)
    BY <2>14 DEF Send, Goto
  <2>15. CASE Answered(r)
    BY <2>15 DEF Answered, Finish, Goto
  <2>16. CASE ConnectionFails(r)
    BY <2>16 DEF ConnectionFails, Goto
  <2>17. CASE IsCurrent(r)
    BY <2>17 DEF IsCurrent, Goto
  <2>18. CASE IsReplaced(r)
    BY <2>18 DEF IsReplaced, Attempt
  <2>19. CASE Cancel(r)
    BY <2>19 DEF Cancel, Finish, Goto
  <2>20. QED
    BY <1>2, <2>1, <2>2, <2>3, <2>4, <2>5, <2>6, <2>7, <2>8, <2>9, <2>10, <2>11, <2>12,
       <2>13, <2>14, <2>15, <2>16, <2>17, <2>18, <2>19 DEF RequestStep
<1>3. ASSUME NEW a \in Requests \cup {Sup}, Marker(a) PROVE LockInv'
  <2>1. CASE MarkDead(a)
    BY <2>1 DEF MarkDead, Goto
  <2>2. CASE SpawnChecks(a)
    BY <2>2 DEF SpawnChecks, Goto
  <2>3. CASE SpawnSkips(a)
    <3>1. CASE a = Sup /\ TickNext(pc)
      BY <2>3, <3>1 DEF SpawnSkips, WorthReviving, TickNext
    <3>2. CASE a \in Requests /\ held[a] = "none" /\ ScanNext(a, pc)
      BY <2>3, <3>2 DEF SpawnSkips, WorthReviving, ScanNext, After
    <3>3. CASE a \in Requests /\ held[a] # "none" /\ Attempt(a, pc)
      BY <2>3, <3>3 DEF SpawnSkips, WorthReviving, Attempt
    <3>4. QED
      BY <2>3, <3>1, <3>2, <3>3 DEF SpawnSkips, Spawned
  <2>4. CASE SpawnPending(a)
    <3>1. CASE a = Sup /\ TickNext(pc)
      BY <2>4, <3>1 DEF SpawnPending, WorthReviving, TickNext
    <3>2. CASE a \in Requests /\ held[a] = "none" /\ ScanNext(a, pc)
      BY <2>4, <3>2 DEF SpawnPending, WorthReviving, ScanNext, After
    <3>3. CASE a \in Requests /\ held[a] # "none" /\ Attempt(a, pc)
      BY <2>4, <3>3 DEF SpawnPending, WorthReviving, Attempt
    <3>4. QED
      BY <2>4, <3>1, <3>2, <3>3 DEF SpawnPending, Spawned
  <2>5. CASE SpawnTask(a)
    <3>0. /\ pc[a] = "cas"
          /\ at[a] \in Entries
          /\ a \notin Entries
          /\ at[a] # a
          /\ at[a] <= len
          /\ at[at[a]] = at[a]
      BY <2>5 DEF SpawnTask
    <3>1. CASE a = Sup /\ TickNext([pc EXCEPT ![at[a]] = "start"])
      <4>1. (\A x, y \in Requests \cup Entries :
               /\ at[x] = at[y]
               /\ pc[x] \in {"locked", "dial", "stored"}
               /\ pc[y] \in {"locked", "dial", "stored"}
               => x = y)'
        BY <2>5, <3>1, <3>0 DEF SpawnTask, WorthReviving, TickNext
      <4>2. (\A x \in Requests \cup Entries : pc[x] \in {"dial", "stored"} => dead[at[x]])'
        BY <2>5, <3>1, <3>0 DEF SpawnTask, WorthReviving, TickNext
      <4> QED
        BY <4>1, <4>2
    <3>2. CASE a \in Requests /\ held[a] = "none" /\ ScanNext(a, [pc EXCEPT ![at[a]] = "start"])
      <4>1. \A x \in Requests \cup Entries : pc'[x] \in {"locked", "dial", "stored"} =>
                x # a /\ pc'[x] = pc[x] /\ at'[x] = at[x]
        BY <2>5, <3>2, <3>0 DEF SpawnTask, ScanNext
      <4>2. (\A x, y \in Requests \cup Entries :
               /\ at[x] = at[y]
               /\ pc[x] \in {"locked", "dial", "stored"}
               /\ pc[y] \in {"locked", "dial", "stored"}
               => x = y)'
        BY <4>1
      <4>3. (\A x \in Requests \cup Entries : pc[x] \in {"dial", "stored"} => dead[at[x]])'
        BY <2>5, <3>2, <3>0 DEF SpawnTask, WorthReviving, ScanNext, After
      <4> QED
        BY <4>2, <4>3
    <3>3. CASE a \in Requests /\ held[a] # "none" /\ Attempt(a, [pc EXCEPT ![at[a]] = "start"])
      <4>1. \A x \in Requests \cup Entries : pc'[x] \in {"locked", "dial", "stored"} =>
                x # a /\ pc'[x] = pc[x] /\ at'[x] = at[x]
        BY <2>5, <3>3, <3>0 DEF SpawnTask, Attempt
      <4>2. (\A x, y \in Requests \cup Entries :
               /\ at[x] = at[y]
               /\ pc[x] \in {"locked", "dial", "stored"}
               /\ pc[y] \in {"locked", "dial", "stored"}
               => x = y)'
        BY <4>1
      <4>3. (\A x \in Requests \cup Entries : pc[x] \in {"dial", "stored"} => dead[at[x]])'
        BY <2>5, <3>3, <3>0 DEF SpawnTask, WorthReviving, Attempt
      <4> QED
        BY <4>2, <4>3
    <3>4. QED
      BY <2>5, <3>1, <3>2, <3>3 DEF SpawnTask, Spawned
  <2>6. QED
    BY <1>3, <2>1, <2>2, <2>3, <2>4, <2>5 DEF Marker
<1>4. ASSUME NEW e \in Entries, TaskStart(e) PROVE LockInv'
  BY <1>4 DEF TaskStart, Goto
<1>5. ASSUME NEW a \in Requests \cup Entries, Reviver(a) PROVE LockInv'
  <2>1. CASE LockRevive(a)
    BY <2>1 DEF LockRevive, Goto, ReviveLockFree
  <2>2. CASE ReviveAlready(a)
    BY <2>2 DEF ReviveAlready, Revived, Goto
  <2>3. CASE ReviveCoolingDown(a)
    BY <2>3 DEF ReviveCoolingDown, NotRevived, Goto
  <2>4. CASE ReviveDial(a)
    BY <2>4 DEF ReviveDial, Goto
  <2>5. CASE ReviveFails(a)
    BY <2>5 DEF ReviveFails, NotRevived, Goto
  <2>6. CASE ReviveStore(a)
    BY <2>6 DEF ReviveStore, Goto, Replace
  <2>7. CASE ReviveClear(a)
    BY <2>7 DEF ReviveClear, Revived, Goto
  <2>8. QED
    BY <1>5, <2>1, <2>2, <2>3, <2>4, <2>5, <2>6, <2>7 DEF Reviver
<1>6. CASE Tick
  <2>1. CASE TickBegin
    BY <2>1 DEF TickBegin, Goto
  <2>2. CASE TickShutdown
    BY <2>2 DEF TickShutdown, TickEnds, Goto
  <2>3. CASE TickDead
    BY <2>3 DEF TickDead, Goto
  <2>4. CASE TickBroken
    BY <2>4 DEF TickBroken, Goto
  <2>5. CASE TickSkips
    BY <2>5 DEF TickSkips, TickNext
  <2>6. CASE TickPings
    BY <2>6 DEF TickPings, Goto
  <2>7. CASE PingOk
    BY <2>7 DEF PingOk, TickNext
  <2>8. CASE PingFails
    BY <2>8 DEF PingFails, Goto
  <2>9. CASE TickDropped
    BY <2>9 DEF TickDropped, TickEnds, Goto
  <2>10. QED
    BY <1>6, <2>1, <2>2, <2>3, <2>4, <2>5, <2>6, <2>7, <2>8, <2>9 DEF Tick
<1>7. CASE TopUp
  <2>1. CASE TopUpCheck
    BY <2>1 DEF TopUpCheck
  <2>2. CASE TopUpDials
    BY <2>2 DEF TopUpDials, TryPush
  <2>3. CASE TopUpFails
    BY <2>3 DEF TopUpFails
  <2>4. QED
    BY <1>7, <2>1, <2>2, <2>3 DEF TopUp
<1>8. ASSUME NEW e \in Entries, TransportDies(e) \/ CooldownEnds(e) PROVE LockInv'
  <2>1. CASE TransportDies(e)
    BY <2>1 DEF TransportDies
  <2>2. CASE CooldownEnds(e)
    BY <2>2 DEF CooldownEnds
  <2>3. QED
    BY <1>8, <2>1, <2>2
<1>9. CASE Drain
  BY <1>9 DEF Drain
<1>10. QED
  BY <1>1, <1>2, <1>3, <1>4, <1>5, <1>6, <1>7, <1>8, <1>9 DEF Next

\* IInv is an invariant.
LEMMA Inductive == Spec => []IInv
<1>1. Init => IInv
  BY Initially
<1>2. IInv /\ [Next]_vars => IInv'
  BY TypeStep, WhereStep, LockStep DEF IInv
<1>3. QED
  BY <1>1, <1>2, PTL DEF Spec

(***************************************************************************)
(* Types, and with them "no overshoot": requests and the top-up task never *)
(* push more than pool_size entries, and no index leaves the pool.         *)
(***************************************************************************)
THEOREM H2TypeCorrect == Spec => []TypeOK
BY Inductive, PTL DEF IInv

(***************************************************************************)
(* revive_lock and the second look at the dead flag: one revive at a time, *)
(* on an entry that is out of rotation all the while.                      *)
(***************************************************************************)
THEOREM H2ReviveOnce == Spec => []OneReviveOfADeadEntry
<1>1. IInv => OneReviveOfADeadEntry
  BY PoolAssumption, ActorsAssumption
  DEF IInv, TypeOK, WhereInv, RequestInv, LockInv, OneReviveOfADeadEntry, Reviving, Entries, Actors
<1>2. QED
  BY <1>1, Inductive, PTL

(***************************************************************************)
(* Both, for any pool size and any number of requests.                     *)
(***************************************************************************)
THEOREM H2PoolKept == Spec => []PoolSound
BY H2TypeCorrect, H2ReviveOnce, PTL DEF PoolSound

\* No step replaces a connection in use, except in a dead entry.
ReplaceStep ==
    \A r \in Requests : held[r] = "current" /\ held'[r] = "replaced" => dead[at[r]]

LEMMA ReplaceHolds == IInv /\ [Next]_vars => ReplaceStep
<1> SUFFICES ASSUME IInv, [Next]_vars, NEW q \in Requests,
                    held[q] = "current", held'[q] = "replaced"
             PROVE  dead[at[q]]
  BY DEF ReplaceStep
<1>1. held # held'
  OBVIOUS
<1>2. PICK a \in Requests \cup Entries : ReviveStore(a)
  <2> USE DEF IInv, TypeOK
  <2>1. ASSUME NEW r \in Requests, RequestStep(r) PROVE FALSE
    BY <2>1, <1>1 DEF RequestStep, Finish, Attempt, Call, GetGrow, GetScan, GrowDials,
       GrowFails, Push, OneShot, ScanLive, ScanDead, ScanPick, ScanBroken, LockTimesOut,
       Rescan, Send, Answered, ConnectionFails, IsCurrent, IsReplaced, Cancel
  <2>2. ASSUME NEW a \in Requests \cup {Sup}, Marker(a) PROVE FALSE
    BY <2>2, <1>1 DEF Marker, Spawned, TickNext, ScanNext, Attempt, MarkDead, SpawnChecks,
       SpawnSkips, SpawnPending, SpawnTask
  <2>3. ASSUME NEW e \in Entries, TaskStart(e) \/ TransportDies(e) \/ CooldownEnds(e) PROVE FALSE
    BY <2>3, <1>1 DEF TaskStart, TransportDies, CooldownEnds, actorVars
  <2>4. ASSUME NEW a \in Requests \cup Entries, Reviver(a) PROVE ReviveStore(a)
    BY <2>4, <1>1 DEF Reviver, LockRevive, ReviveAlready, ReviveCoolingDown, ReviveDial,
       ReviveFails, ReviveClear
  <2>5. ASSUME Tick \/ TopUp \/ Drain PROVE FALSE
    BY <2>5, <1>1 DEF Tick, TopUp, Drain, TickNext, actorVars, TickBegin, TickShutdown,
       TickDead, TickBroken, TickSkips, TickPings, PingOk, PingFails, TickDropped,
       TopUpCheck, TopUpDials, TopUpFails
  <2>6. CASE UNCHANGED vars
    BY <2>6, <1>1 DEF vars, actorVars
  <2>7. QED
    BY <2>1, <2>2, <2>3, <2>4, <2>5, <2>6 DEF Next
<1>3. at[q] = at[a]
  BY <1>2 DEF ReviveStore, Replace
<1>4. QED
  BY <1>2, <1>3 DEF ReviveStore, IInv, LockInv

(***************************************************************************)
(* A stream on a live entry never loses its connection to a revive.        *)
(***************************************************************************)
THEOREM H2LiveIsKept == Spec => ReplaceOnlyDead
<1>1. IInv /\ [Next]_vars => [ReplaceStep]_vars
  BY ReplaceHolds
<1>2. QED
  BY <1>1, Inductive, PTL DEF Spec, ReplaceOnlyDead, ReplaceStep
=============================================================================
