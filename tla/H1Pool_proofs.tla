---------------------------- MODULE H1Pool_proofs ----------------------------
(***************************************************************************)
(* Proofs about H1Pool, for every set of pools, requests and connections   *)
(* and every pool size and cap, with clients that may disconnect.          *)
(***************************************************************************)
EXTENDS H1Pool, FiniteSetTheorems, TLAPS

\* What the typing of a step rests on.
TypeInv == TypeOK /\ NoOvershoot /\ SupInSnapshot

\* Round-robin positions stay inside the pool.
LEMMA RoundRobin ==
    ASSUME NEW n \in Nat PROVE n % PoolSize \in 0 .. PoolSize - 1
  BY PoolSizeAssumption

LEMMA NoEntryType == NoEntry \in Entries
  BY PoolsAssumption, PoolSizeAssumption DEF NoEntry, Entries

\* Initially the state is well typed and every pool is empty.
LEMMA TypeInit == Init => TypeInv
  <1> SUFFICES ASSUME Init PROVE TypeInv
    OBVIOUS
  <1> USE PoolSizeAssumption, NoEntryType DEF Init
  <1>1. TypeOK
    BY DEF TypeOK, RequestPC, Kinds, TaskPC, SupPC, NoClient
  <1>2. NoOvershoot /\ SupInSnapshot
    BY DEF NoOvershoot, SupInSnapshot
  <1> QED
    BY <1>1, <1>2 DEF TypeInv

\* Every step keeps the state well typed and every pool within its size.
LEMMA TypeNext == TypeInv /\ [Next]_vars => TypeInv'
  <1> SUFFICES ASSUME TypeInv, [Next]_vars PROVE TypeInv'
    OBVIOUS
  <1> USE PoolSizeAssumption, NoEntryType
      DEF TypeInv, TypeOK, NoOvershoot, SupInSnapshot, poolVars, counterVars,
          entryVars, reqVars, supVars
  <1> USE DEF RequestPC, Kinds, TaskPC, SupPC
  <1>1. CASE UNCHANGED vars
    BY <1>1 DEF vars
  <1>2. ASSUME NEW r \in Requests, Call(r) \/ CallWs(r) \/ Acquire(r)
               \/ UseHandle(r) \/ Cancel(r) PROVE TypeInv'
    <2>1. CASE Call(r)
      BY <2>1 DEF Call, Goto, Entries
    <2>2. CASE CallWs(r)
      BY <2>2 DEF CallWs, Goto, Entries
    <2>3. CASE Disposed(r)
      BY <2>3 DEF Disposed, Finish, PoolOf, NoClient, Entries
    <2>4. CASE Grow(r)
      BY <2>4 DEF Grow, Goto, PoolOf, Entries
    <2>5. CASE GrowConnected(r)
      BY <2>5 DEF GrowConnected, Goto, FreshClients, Entries
    <2>6. CASE DialFails(r)
      BY <2>6 DEF DialFails, Finish, NoClient, Entries
    <2>7. CASE Push(r)
      BY <2>7 DEF Push, Handle, PoolOf, Entries
    <2>8. CASE PushLost(r)
      BY <2>8 DEF PushLost, Goto, PoolOf, Entries
    <2>9. CASE LostGlobal(r)
      BY <2>9 DEF LostGlobal, Goto, Entries
    <2>10. CASE LostPool(r)
      BY <2>10 DEF LostPool, Handle, PoolOf, Entries
    <2>11. CASE StartScan(r)
      <3> DEFINE p == at[r][1]
      <3>1. p \in Pools /\ next[p] \in 0 .. PoolSize - 1
        BY DEF Entries
      <3>2. (next[p] + 1) % PoolSize \in 0 .. PoolSize - 1
        BY <3>1, RoundRobin
      <3>3. <<p, next[p] + 1>> \in Entries
        BY <3>1 DEF Entries
      <3> QED
        BY <2>11, <3>1, <3>2, <3>3 DEF StartScan, Goto, PoolOf
    <2>12. CASE TryRent(r)
      BY <2>12 DEF TryRent, Goto, Entries
    <2>13. CASE RentBusy(r)
      <3> DEFINE e == <<at[r][1], (at[r][2] % PoolSize) + 1>>
      <3>1. at[r][1] \in Pools /\ at[r][2] \in 1 .. PoolSize
        BY DEF Entries
      <3>4. at[r][2] \in Nat
        BY <3>1, PoolSizeAssumption
      <3>2. at[r][2] % PoolSize \in 0 .. PoolSize - 1
        BY <3>4, RoundRobin
      <3>3. e \in Entries
        BY <3>1, <3>2 DEF Entries
      <3> QED
        BY <2>13, <3>3 DEF RentBusy, Goto
    <2>14. CASE CheckDead(r)
      BY <2>14 DEF CheckDead, Goto, Entries
    <2>15. CASE LoadClient(r)
      BY <2>15 DEF LoadClient, Handle, Entries
    <2>16. CASE ReviveLock(r)
      BY <2>16 DEF ReviveLock, Goto, Entries
    <2>17. CASE ReviveAlready(r)
      BY <2>17 DEF ReviveAlready, Goto, Entries
    <2>18. CASE ReviveConnected(r)
      BY <2>18 DEF ReviveConnected, Goto, FreshClients, Entries
    <2>19. CASE ReviveClear(r)
      BY <2>19 DEF ReviveClear, Goto, Entries
    <2>20. CASE ReviveFails(r)
      BY <2>20 DEF ReviveFails, Goto, Entries
    <2>21. CASE Unrent(r)
      BY <2>21 DEF Unrent, Finish, NoClient, Entries
    <2>22. CASE ReserveGlobal(r)
      BY <2>22 DEF ReserveGlobal, Goto, Entries
    <2>23. CASE ReservePool(r)
      BY <2>23 DEF ReservePool, Goto, PoolOf, Entries
    <2>24. CASE OverflowConnected(r)
      BY <2>24 DEF OverflowConnected, Handle, FreshClients, Entries
    <2>25. CASE OverflowFails(r)
      BY <2>25 DEF OverflowFails, Goto, Entries
    <2>26. CASE UndoGlobal(r)
      BY <2>26 DEF UndoGlobal, Goto, Entries
    <2>27. CASE UndoPoolErr(r)
      BY <2>27 DEF UndoPoolErr, Finish, PoolOf, NoClient, Entries
    <2>39. CASE UndoPoolRetry(r)
      BY <2>39 DEF UndoPoolRetry, Goto, PoolOf, Entries
    <2>28. CASE SleepEnds(r)
      BY <2>28 DEF SleepEnds, Goto, Entries
    <2>29. CASE WsConnected(r)
      BY <2>29 DEF WsConnected, Handle, FreshClients, Entries
    <2>30. CASE RequestOk(r)
      BY <2>30 DEF RequestOk, Goto, Entries
    <2>31. CASE RequestErr(r)
      BY <2>31 DEF RequestErr, Goto, Entries
    <2>32. CASE BodyEnds(r)
      BY <2>32 DEF BodyEnds, Goto, Entries
    <2>33. CASE DropReusable(r)
      BY <2>33 DEF DropReusable, Finish, NoClient, Entries
    <2>34. CASE DropWs(r)
      BY <2>34 DEF DropWs, Finish, NoClient, Entries
    <2>35. CASE DropGlobal(r)
      BY <2>35 DEF DropGlobal, Goto, Entries
    <2>36. CASE DropPool(r)
      BY <2>36 DEF DropPool, Finish, PoolOf, NoClient, Entries
    <2>37. CASE CancelAcquire(r)
      BY <2>37 DEF CancelAcquire, Finish, NoClient, Entries
    <2>38. CASE CancelRequest(r)
      BY <2>38 DEF CancelRequest, Goto, Entries
    <2> QED
      BY <1>2, <2>1, <2>2, <2>3, <2>4, <2>5, <2>6, <2>7, <2>8, <2>9, <2>10, <2>11, <2>12, <2>13,
         <2>14, <2>15, <2>16, <2>17, <2>15, <2>16, <2>17, <2>18, <2>19, <2>20, <2>21, <2>22,
         <2>23, <2>24, <2>25, <2>26, <2>27, <2>28, <2>29, <2>30, <2>31, <2>32, <2>33, <2>34,
         <2>35, <2>36, <2>37, <2>38, <2>39
         DEF Acquire, UseHandle, Cancel
  <1>3. ASSUME NEW e \in Entries, RunTask(e) PROVE TypeInv'
    <2>1. CASE TaskStart(e)
      BY <2>1 DEF TaskStart, Entries
    <2>2. CASE TaskShutdown(e)
      BY <2>2 DEF TaskShutdown, TaskReturns, Entries
    <2>3. CASE TaskLock(e)
      BY <2>3 DEF TaskLock, Entries
    <2>4. CASE TaskAlready(e)
      BY <2>4 DEF TaskAlready, TaskReturns, Entries
    <2>5. CASE TaskConnected(e)
      BY <2>5 DEF TaskConnected, FreshClients, Entries
    <2>6. CASE TaskClear(e)
      BY <2>6 DEF TaskClear, TaskReturns, Entries
    <2>7. CASE TaskFails(e)
      BY <2>7 DEF TaskFails, TaskReturns, Entries
    <2>8. CASE TaskEnd(e)
      BY <2>8 DEF TaskEnd, Entries
    <2> QED
      BY <1>3, <2>1, <2>2, <2>3, <2>4, <2>5, <2>6, <2>7, <2>8 DEF RunTask
  <1>4. ASSUME NEW p \in Pools, Tick(p) \/ SupCancel(p) \/ Drain(p) PROVE TypeInv'
    <2>1. CASE SupStart(p)
      BY <2>1 DEF SupStart, SupGoto
    <2>2. CASE SupFinish(p)
      BY <2>2 DEF SupFinish, SupEnd, NoClient, Entries
    <2>3. CASE SupDead(p)
      BY <2>3 DEF SupDead, SupGoto, SupEntry, Entries
    <2>4. CASE SupSkip(p)
      BY <2>4 DEF SupSkip, SupNext, SupEntry, Entries
    <2>5. CASE SupIdle(p)
      BY <2>5 DEF SupIdle, SupGoto, SupEntry, Entries
    <2>6. CASE SupRent(p)
      BY <2>6 DEF SupRent, SupGoto, SupEntry, Entries
    <2>7. CASE SupBusy(p)
      BY <2>7 DEF SupBusy, SupNext, SupEntry, Entries
    <2>8. CASE SupLoad(p)
      BY <2>8 DEF SupLoad, SupGoto, SupEntry, Entries
    <2>9. CASE SupPingOk(p)
      BY <2>9 DEF SupPingOk, SupEntry, NoClient, Entries
    <2>10. CASE SupPingFails(p)
      BY <2>10 DEF SupPingFails, SupGoto, SupEntry, NoClient, Entries
    <2>11. CASE SpawnRevive(p)
      BY <2>11 DEF SpawnRevive, SupNext, SupEntry, Entries
    <2>12. CASE SpawnSkipped(p)
      BY <2>12 DEF SpawnSkipped, SupNext, SupEntry, Entries
    <2>13. CASE SupCancel(p)
      BY <2>13 DEF SupCancel, SupEnd, SupEntry, NoClient, Entries
    <2>14. CASE Drain(p)
      BY <2>14 DEF Drain
    <2>15. CASE SupRelease(p)
      BY <2>15 DEF SupRelease, SupGoto, SupEntry, Entries
    <2>16. CASE SpawnDead(p)
      BY <2>16 DEF SpawnDead, SupGoto, SupEntry, Entries
    <2>17. CASE SpawnPending(p)
      BY <2>17 DEF SpawnPending, SupNext, SupEntry, Entries
    <2> QED
      BY <1>4, <2>1, <2>2, <2>3, <2>4, <2>5, <2>6, <2>7, <2>8, <2>9, <2>10, <2>11, <2>12, <2>13,
         <2>14, <2>15, <2>16, <2>17 DEF Tick
  <1> QED
    BY <1>1, <1>2, <1>3, <1>4 DEF Next

\* Type correctness of the h1 pool: in particular the supervisor and the scan
\* only ever touch entries that exist.
THEOREM TypeCorrect == Spec => []TypeOK
  <1>1. TypeInv => TypeOK
    BY DEF TypeInv
  <1> QED
    BY <1>1, TypeInit, TypeNext, PTL DEF Spec

\* Types, and the size: no race of growing requests takes a pool past pool_size.
THEOREM Sized == Spec => []PoolSound
  <1>1. TypeInv => PoolSound
    BY DEF TypeInv, PoolSound
  <1> QED
    BY <1>1, TypeInit, TypeNext, PTL DEF Spec

-----------------------------------------------------------------------------
(* Exclusive use of an entry.                                              *)

RentInv == ExclusiveRent /\ HandedOutAlive /\ NoSwapUnderRequest /\ OneRevive

LEMMA RentInit == Init => RentInv
  BY DEF Init, RentInv, ExclusiveRent, HandedOutAlive, NoSwapUnderRequest,
         OneRevive, Renting, Probing, Exchanging, Reviving

LEMMA SlotInit == Init => SlotInv
  BY PoolSizeAssumption DEF Init, SlotInv, Pushed, Entries

LEMMA SlotNext == TypeInv /\ SlotInv /\ ExclusiveRent /\ [Next]_vars => SlotInv'
  <1> SUFFICES ASSUME TypeInv, SlotInv, ExclusiveRent, [Next]_vars
               PROVE  SlotInv'
    OBVIOUS
  <1> USE PoolSizeAssumption
      DEF TypeInv, TypeOK, SupInSnapshot, NoOvershoot, Entries, SlotInv, Pushed,
          ExclusiveRent, Renting, Probing, SupEntry,
          poolVars, counterVars, entryVars, reqVars, supVars
  <1>1. CASE UNCHANGED vars
    BY <1>1 DEF vars
  <1>2. ASSUME NEW r \in Requests, Call(r) \/ CallWs(r) \/ Acquire(r)
               \/ UseHandle(r) \/ Cancel(r) PROVE SlotInv'
    <2>1. CASE Call(r)
      BY <2>1 DEF Call, Goto
    <2>2. CASE CallWs(r)
      BY <2>2 DEF CallWs, Goto
    <2>3. CASE Disposed(r)
      BY <2>3 DEF Disposed, Finish, PoolOf
    <2>4. CASE Grow(r)
      BY <2>4 DEF Grow, Goto, PoolOf
    <2>5. CASE GrowConnected(r)
      BY <2>5 DEF GrowConnected, Goto, FreshClients
    <2>6. CASE DialFails(r)
      BY <2>6 DEF DialFails, Finish
    <2>7. CASE Push(r)
      BY <2>7 DEF Push, Handle, PoolOf
    <2>8. CASE PushLost(r)
      BY <2>8 DEF PushLost, Goto, PoolOf
    <2>9. CASE LostGlobal(r)
      BY <2>9 DEF LostGlobal, Goto
    <2>10. CASE LostPool(r)
      BY <2>10 DEF LostPool, Handle, PoolOf
    <2>11. CASE StartScan(r)
      BY <2>11 DEF StartScan, Goto, PoolOf
    <2>12. CASE TryRent(r)
      BY <2>12 DEF TryRent, Goto
    <2>13. CASE RentBusy(r)
      BY <2>13 DEF RentBusy, Goto
    <2>14. CASE CheckDead(r)
      BY <2>14 DEF CheckDead, Goto
    <2>15. CASE LoadClient(r)
      BY <2>15 DEF LoadClient, Handle
    <2>16. CASE ReviveLock(r)
      BY <2>16 DEF ReviveLock, Goto
    <2>17. CASE ReviveAlready(r)
      BY <2>17 DEF ReviveAlready, Goto
    <2>18. CASE ReviveConnected(r)
      BY <2>18 DEF ReviveConnected, Goto, FreshClients
    <2>19. CASE ReviveClear(r)
      BY <2>19 DEF ReviveClear, Goto
    <2>20. CASE ReviveFails(r)
      BY <2>20 DEF ReviveFails, Goto
    <2>21. CASE Unrent(r)
      BY <2>21 DEF Unrent, Finish
    <2>22. CASE ReserveGlobal(r)
      BY <2>22 DEF ReserveGlobal, Goto
    <2>23. CASE ReservePool(r)
      BY <2>23 DEF ReservePool, Goto, PoolOf
    <2>24. CASE OverflowConnected(r)
      BY <2>24 DEF OverflowConnected, Handle, FreshClients
    <2>25. CASE OverflowFails(r)
      BY <2>25 DEF OverflowFails, Goto
    <2>26. CASE UndoGlobal(r)
      BY <2>26 DEF UndoGlobal, Goto
    <2>27. CASE UndoPoolErr(r)
      BY <2>27 DEF UndoPoolErr, Finish, PoolOf
    <2>28. CASE UndoPoolRetry(r)
      BY <2>28 DEF UndoPoolRetry, Goto, PoolOf
    <2>29. CASE SleepEnds(r)
      BY <2>29 DEF SleepEnds, Goto
    <2>30. CASE WsConnected(r)
      BY <2>30 DEF WsConnected, Handle, FreshClients
    <2>31. CASE RequestOk(r)
      BY <2>31 DEF RequestOk, Goto
    <2>32. CASE RequestErr(r)
      BY <2>32 DEF RequestErr, Goto
    <2>33. CASE BodyEnds(r)
      BY <2>33 DEF BodyEnds, Goto
    <2>34. CASE DropReusable(r)
      BY <2>34 DEF DropReusable, Finish
    <2>35. CASE DropWs(r)
      BY <2>35 DEF DropWs, Finish
    <2>36. CASE DropGlobal(r)
      BY <2>36 DEF DropGlobal, Goto
    <2>37. CASE DropPool(r)
      BY <2>37 DEF DropPool, Finish, PoolOf
    <2>38. CASE CancelAcquire(r)
      BY <2>38 DEF CancelAcquire, Finish
    <2>39. CASE CancelRequest(r)
      BY <2>39 DEF CancelRequest, Goto
    <2> QED
      BY <1>2, <2>1, <2>2, <2>3, <2>4, <2>5, <2>6, <2>7, <2>8, <2>9, <2>10, <2>11, <2>12, <2>13,
         <2>14, <2>15, <2>16, <2>17, <2>15, <2>16, <2>17, <2>18, <2>19, <2>20, <2>21, <2>22,
         <2>23, <2>24, <2>25, <2>26, <2>27, <2>28, <2>29, <2>30, <2>31, <2>32, <2>33, <2>34,
         <2>35, <2>36, <2>37, <2>38, <2>39
         DEF Acquire, UseHandle, Cancel
  <1>3. ASSUME NEW e \in Entries, RunTask(e) PROVE SlotInv'
    <2>1. CASE TaskStart(e)
      BY <2>1 DEF TaskStart
    <2>2. CASE TaskShutdown(e)
      BY <2>2 DEF TaskShutdown, TaskReturns
    <2>3. CASE TaskLock(e)
      BY <2>3 DEF TaskLock
    <2>4. CASE TaskAlready(e)
      BY <2>4 DEF TaskAlready, TaskReturns
    <2>5. CASE TaskConnected(e)
      BY <2>5 DEF TaskConnected, FreshClients
    <2>6. CASE TaskClear(e)
      BY <2>6 DEF TaskClear, TaskReturns
    <2>7. CASE TaskFails(e)
      BY <2>7 DEF TaskFails, TaskReturns
    <2>8. CASE TaskEnd(e)
      BY <2>8 DEF TaskEnd
    <2> QED
      BY <1>3, <2>1, <2>2, <2>3, <2>4, <2>5, <2>6, <2>7, <2>8
         DEF RunTask
  <1>4. ASSUME NEW p \in Pools, Tick(p) \/ SupCancel(p) \/ Drain(p) PROVE SlotInv'
    <2>1. CASE SupStart(p)
      BY <2>1 DEF SupStart, SupGoto
    <2>2. CASE SupFinish(p)
      BY <2>2 DEF SupFinish, SupEnd
    <2>3. CASE SupDead(p)
      BY <2>3 DEF SupDead, SupGoto, SupEntry
    <2>4. CASE SupSkip(p)
      BY <2>4 DEF SupSkip, SupNext, SupEntry
    <2>5. CASE SupIdle(p)
      BY <2>5 DEF SupIdle, SupGoto, SupEntry
    <2>6. CASE SupRent(p)
      BY <2>6 DEF SupRent, SupGoto, SupEntry
    <2>7. CASE SupBusy(p)
      BY <2>7 DEF SupBusy, SupNext, SupEntry
    <2>8. CASE SupLoad(p)
      BY <2>8 DEF SupLoad, SupGoto, SupEntry
    <2>9. CASE SupPingOk(p)
      BY <2>9 DEF SupPingOk, SupEntry
    <2>10. CASE SupPingFails(p)
      BY <2>10 DEF SupPingFails, SupGoto, SupEntry
    <2>11. CASE SpawnRevive(p)
      BY <2>11 DEF SpawnRevive, SupNext, SupEntry
    <2>12. CASE SpawnSkipped(p)
      BY <2>12 DEF SpawnSkipped, SupNext, SupEntry
    <2>13. CASE SupCancel(p)
      BY <2>13 DEF SupCancel, SupEnd, SupEntry
    <2>14. CASE Drain(p)
      BY <2>14 DEF Drain
    <2>15. CASE SupRelease(p)
      BY <2>15 DEF SupRelease, SupGoto, SupEntry
    <2>16. CASE SpawnDead(p)
      BY <2>16 DEF SpawnDead, SupGoto, SupEntry
    <2>17. CASE SpawnPending(p)
      BY <2>17 DEF SpawnPending, SupNext, SupEntry
    <2> QED
      BY <1>4, <2>1, <2>2, <2>3, <2>4, <2>5, <2>6, <2>7, <2>8, <2>9, <2>10, <2>11, <2>12, <2>13,
         <2>14, <2>15, <2>16, <2>17
         DEF Tick
  <1> QED
    BY <1>1, <1>2, <1>3, <1>4 DEF Next

\* A step after which request r owns no entry, and that changes no other.
WithEntry == {"rented", "load", "reviveWait", "reviveDial", "reviveClear",
              "unrent", "request", "body", "drop"}

SameRequest(q) == /\ at'[q] = at[q] /\ pc'[q] = pc[q]
                  /\ kind'[q] = kind[q] /\ held'[q] = held[q]

LEMMA ProbedEntry ==
    ASSUME TypeInv, NEW p \in Pools,
           sup[p] \in {"rent", "load", "ping", "release", "spawn", "cas"}
    PROVE  SupEntry(p) \in Entries
  BY PoolSizeAssumption DEF TypeInv, TypeOK, SupInSnapshot, SupEntry, Entries

LEMMA WithoutEntry ==
    ASSUME NEW r \in Requests, TypeInv, RentInv,
           \A q \in Requests : q # r => SameRequest(q),
           pc'[r] \notin WithEntry,
           UNCHANGED <<client, dead, revive_lock, task, sup, supAt>>,
           \/ UNCHANGED rented
           \/ Renting(r) /\ rented' = [rented EXCEPT ![at[r]] = FALSE]
    PROVE  RentInv'
  <1>1. \A q \in Requests : Renting(q)' => q # r /\ Renting(q)
    BY DEF Renting, WithEntry, SameRequest
  <1>2. \A q \in Requests : q # r => at'[q] = at[q]
    BY DEF SameRequest
  <1>3. \A p \in Pools : /\ Probing(p)' = Probing(p)
                        /\ SupEntry(p)' = SupEntry(p)
    BY DEF Probing, SupEntry
  <1>4. \A q \in Requests : Renting(q)' => rented'[at'[q]]
    BY <1>1, <1>2 DEF RentInv, ExclusiveRent, TypeInv, TypeOK
  <1>5. \A p \in Pools : Probing(p)' => rented'[SupEntry(p)']
    BY <1>3, ProbedEntry DEF RentInv, ExclusiveRent, Probing, TypeInv, TypeOK
  <1>6. ExclusiveRent'
    BY <1>1, <1>2, <1>3, <1>4, <1>5 DEF RentInv, ExclusiveRent
  <1>7. HandedOutAlive'
    BY DEF RentInv, HandedOutAlive, WithEntry, SameRequest
  <1>8. NoSwapUnderRequest'
    BY DEF RentInv, NoSwapUnderRequest, Exchanging, WithEntry, SameRequest
  <1>9. OneRevive'
    BY DEF RentInv, OneRevive, Reviving, WithEntry, SameRequest
  <1> QED
    BY <1>6, <1>7, <1>8, <1>9 DEF RentInv

\* Request r wins the CAS on a free entry, or pushes an entry pre-rented.
LEMMA Rents ==
    ASSUME NEW r \in Requests, NEW e \in Entries, TypeInv, RentInv, ~rented[e],
           \A q \in Requests : q # r => SameRequest(q),
           at'[r] = e,
           rented' = [rented EXCEPT ![e] = TRUE],
           UNCHANGED <<dead, revive_lock, task, sup, supAt>>,
           \A f \in Entries : f # e => client'[f] = client[f],
           Exchanging(r)' => ~dead[e] /\ client'[e] = held'[r],
           pc'[r] \notin {"load"} \cup Reviving
    PROVE  RentInv'
  <1>1. \A q \in Requests : Renting(q) => at[q] \in Entries \ {e}
    BY DEF RentInv, ExclusiveRent, TypeInv, TypeOK
  <1>2. \A p \in Pools : Probing(p) => SupEntry(p) \in Entries \ {e}
    BY ProbedEntry DEF RentInv, ExclusiveRent, Probing
  <1>3. \A q \in Requests : q # r => (Renting(q)' <=> Renting(q)) /\ at'[q] = at[q]
    BY DEF Renting, SameRequest
  <1>4. \A p \in Pools : /\ Probing(p)' <=> Probing(p)
                        /\ SupEntry(p)' = SupEntry(p)
    BY DEF Probing, SupEntry
  <1>5. /\ rented'[e]
        /\ \A f \in Entries : f # e => rented'[f] = rented[f]
    BY DEF TypeInv, TypeOK
  <1>6. \A q \in Requests : Renting(q)' => rented'[at'[q]]
    <2> SUFFICES ASSUME NEW q \in Requests, Renting(q)' PROVE rented'[at'[q]]
      OBVIOUS
    <2>1. CASE q = r
      BY <2>1, <1>5
    <2>2. CASE q # r
      BY <2>2, <1>1, <1>3, <1>5 DEF RentInv, ExclusiveRent
    <2> QED
      BY <2>1, <2>2
  <1>7. \A p \in Pools : Probing(p)' => rented'[SupEntry(p)']
    BY <1>2, <1>4, <1>5 DEF RentInv, ExclusiveRent
  <1>8. \A q, s \in Requests :
           Renting(q)' /\ Renting(s)' /\ at'[q] = at'[s] => q = s
    BY <1>1, <1>3 DEF RentInv, ExclusiveRent
  <1>9. \A q \in Requests, p \in Pools :
           Renting(q)' /\ Probing(p)' => at'[q] # SupEntry(p)'
    BY <1>2, <1>3, <1>4 DEF RentInv, ExclusiveRent
  <1>10. ExclusiveRent'
    BY <1>6, <1>7, <1>8, <1>9 DEF ExclusiveRent
  <1>11. HandedOutAlive'
    BY DEF RentInv, HandedOutAlive, SameRequest
  <1>12. NoSwapUnderRequest'
    <2> SUFFICES ASSUME NEW q \in Requests, Exchanging(q)', kind'[q] = "Reusable"
                 PROVE  ~dead'[at'[q]] /\ client'[at'[q]] = held'[q]
      BY DEF NoSwapUnderRequest
    <2>1. CASE q = r
      BY <2>1
    <2>2. CASE q # r
      <3>1. Exchanging(q) /\ kind[q] = "Reusable" /\ Renting(q)
        BY <2>2 DEF Exchanging, Renting, SameRequest
      <3> QED
        BY <2>2, <3>1, <1>1 DEF RentInv, NoSwapUnderRequest, SameRequest
    <2> QED
      BY <2>1, <2>2
  <1>13. OneRevive'
    BY DEF RentInv, OneRevive, Reviving, SameRequest
  <1> QED
    BY <1>10, <1>11, <1>12, <1>13 DEF RentInv

\* The supervisor wins the CAS for a probe.
LEMMA SupRents ==
    ASSUME NEW p \in Pools, TypeInv, RentInv, SupEntry(p) \in Entries,
           ~rented[SupEntry(p)],
           rented' = [rented EXCEPT ![SupEntry(p)] = TRUE],
           sup' = [sup EXCEPT ![p] = "load"],
           UNCHANGED <<client, dead, revive_lock, task, supAt, reqVars>>
    PROVE  RentInv'
  <1> DEFINE e == SupEntry(p)
  <1>1. \A q \in Requests : Renting(q) => at[q] \in Entries \ {e}
    BY DEF RentInv, ExclusiveRent, TypeInv, TypeOK
  <1>3. \A q \in Requests : (Renting(q)' <=> Renting(q)) /\ at'[q] = at[q]
    BY DEF Renting, reqVars
  <1>4. /\ rented'[e]
        /\ \A f \in Entries : f # e => rented'[f] = rented[f]
    BY DEF TypeInv, TypeOK
  <1>5. \A q \in Requests : Renting(q)' => rented'[at'[q]]
    BY <1>1, <1>3, <1>4 DEF RentInv, ExclusiveRent
  <1>6. \A q \in Pools : Probing(q)' => rented'[SupEntry(q)']
    <2> SUFFICES ASSUME NEW q \in Pools, Probing(q)'
                 PROVE  rented'[SupEntry(q)']
      OBVIOUS
    <2>1. SupEntry(q)' = SupEntry(q)
      BY DEF SupEntry
    <2>2. CASE q = p
      BY <2>1, <2>2, <1>4
    <2>3. CASE q # p
      <3>1. Probing(q)
        BY <2>3 DEF Probing, TypeInv, TypeOK
      <3>2. SupEntry(q) \in Entries /\ rented[SupEntry(q)]
        BY <3>1, ProbedEntry DEF Probing, RentInv, ExclusiveRent
      <3> QED
        BY <2>1, <3>2, <1>4
    <2> QED
      BY <2>2, <2>3
  <1>7. \A q \in Requests, s \in Pools :
           Renting(q)' /\ Probing(s)' => at'[q] # SupEntry(s)'
    <2> SUFFICES ASSUME NEW q \in Requests, NEW s \in Pools,
                        Renting(q)', Probing(s)'
                 PROVE  at'[q] # SupEntry(s)'
      OBVIOUS
    <2>1. SupEntry(s)' = SupEntry(s) /\ at'[q] = at[q] /\ Renting(q)
      BY <1>3 DEF SupEntry
    <2>2. CASE s = p
      BY <2>1, <2>2, <1>1
    <2>3. CASE s # p
      <3>1. Probing(s)
        BY <2>3 DEF Probing, TypeInv, TypeOK
      <3> QED
        BY <2>1, <3>1 DEF RentInv, ExclusiveRent
    <2> QED
      BY <2>2, <2>3
  <1>8. ExclusiveRent'
    BY <1>3, <1>5, <1>6, <1>7 DEF RentInv, ExclusiveRent
  <1>9. HandedOutAlive' /\ NoSwapUnderRequest'
    BY DEF RentInv, HandedOutAlive, NoSwapUnderRequest, Exchanging, reqVars
  <1>10. OneRevive'
    BY DEF RentInv, OneRevive, reqVars
  <1> QED
    BY <1>8, <1>9, <1>10 DEF RentInv

LEMMA RentNext == TypeInv /\ SlotInv /\ RentInv /\ [Next]_vars => RentInv'
  <1> SUFFICES ASSUME TypeInv, SlotInv, RentInv, [Next]_vars PROVE RentInv'
    OBVIOUS
  <1> USE NoEntryType
      DEF TypeInv, TypeOK,
              RentInv, ExclusiveRent, HandedOutAlive, NoSwapUnderRequest,
              OneRevive, Renting, Probing, Exchanging, Reviving, SupEntry,
              poolVars, counterVars, entryVars, reqVars, supVars
  <1>1. CASE UNCHANGED vars
    BY <1>1 DEF vars
  <1>2. ASSUME NEW r \in Requests, Call(r) \/ CallWs(r) \/ Acquire(r)
               \/ UseHandle(r) \/ Cancel(r) PROVE RentInv'
    <2>1. CASE Call(r)
      <3>1. \A q \in Requests : q # r => SameRequest(q)
        BY <2>1 DEF Call, Goto, SameRequest
      <3>2. pc'[r] \notin WithEntry
        BY <2>1 DEF Call, Goto, WithEntry
      <3>3. UNCHANGED <<client, dead, revive_lock, task, sup, supAt>>
        BY <2>1 DEF Call, Goto
      <3>4. UNCHANGED rented
        BY <2>1 DEF Call, Goto
      <3> QED
        BY <3>1, <3>2, <3>3, <3>4, WithoutEntry
    <2>2. CASE CallWs(r)
      <3>1. \A q \in Requests : q # r => SameRequest(q)
        BY <2>2 DEF CallWs, Goto, SameRequest
      <3>2. pc'[r] \notin WithEntry
        BY <2>2 DEF CallWs, Goto, WithEntry
      <3>3. UNCHANGED <<client, dead, revive_lock, task, sup, supAt>>
        BY <2>2 DEF CallWs, Goto
      <3>4. UNCHANGED rented
        BY <2>2 DEF CallWs, Goto
      <3> QED
        BY <3>1, <3>2, <3>3, <3>4, WithoutEntry
    <2>3. CASE Disposed(r)
      <3>1. \A q \in Requests : q # r => SameRequest(q)
        BY <2>3 DEF Disposed, Finish, PoolOf, SameRequest
      <3>2. pc'[r] \notin WithEntry
        BY <2>3 DEF Disposed, Finish, PoolOf, WithEntry
      <3>3. UNCHANGED <<client, dead, revive_lock, task, sup, supAt>>
        BY <2>3 DEF Disposed, Finish, PoolOf
      <3>4. UNCHANGED rented
        BY <2>3 DEF Disposed, Finish, PoolOf
      <3> QED
        BY <3>1, <3>2, <3>3, <3>4, WithoutEntry
    <2>4. CASE Grow(r)
      BY <2>4 DEF Grow, Goto, PoolOf
    <2>5. CASE GrowConnected(r)
      BY <2>5 DEF GrowConnected, Goto, FreshClients
    <2>6. CASE DialFails(r)
      <3>1. \A q \in Requests : q # r => SameRequest(q)
        BY <2>6 DEF DialFails, Finish, SameRequest
      <3>2. pc'[r] \notin WithEntry
        BY <2>6 DEF DialFails, Finish, WithEntry
      <3>3. UNCHANGED <<client, dead, revive_lock, task, sup, supAt>>
        BY <2>6 DEF DialFails, Finish
      <3>4. UNCHANGED rented
        BY <2>6 DEF DialFails, Finish
      <3> QED
        BY <3>1, <3>2, <3>3, <3>4, WithoutEntry
    <2>7. CASE Push(r)
      <3> DEFINE e == <<at[r][1], clients[at[r][1]] + 1>>
      <3>0. e \in Entries /\ ~rented[e] /\ ~dead[e]
        BY <2>7, PoolSizeAssumption DEF Push, Handle, PoolOf, Entries, SlotInv, Pushed
      <3>1. \A q \in Requests : q # r => SameRequest(q)
        BY <2>7 DEF Push, Handle, PoolOf, SameRequest
      <3>2. /\ at'[r] = e /\ pc'[r] = "request"
            /\ rented' = [rented EXCEPT ![e] = TRUE]
            /\ UNCHANGED <<dead, revive_lock, task, sup, supAt>>
        BY <2>7, <3>0 DEF Push, Handle, PoolOf
      <3>3. Exchanging(r)' => ~dead[e] /\ client'[e] = held'[r]
        BY <2>7, <3>0, <3>2 DEF Push, Handle, PoolOf
      <3>4. \A f \in Entries : f # e => client'[f] = client[f]
        BY <2>7 DEF Push, Handle, PoolOf
      <3>5. pc'[r] \notin {"load"} \cup Reviving
        BY <3>2
      <3> HIDE DEF TypeInv, TypeOK, RentInv, ExclusiveRent, HandedOutAlive,
                   NoSwapUnderRequest, OneRevive, Renting, Probing,
                   Exchanging, Reviving, SupEntry
      <3> QED
        BY <3>0, <3>1, <3>2, <3>3, <3>4, <3>5, Rents
    <2>8. CASE PushLost(r)
      BY <2>8 DEF PushLost, Goto, PoolOf
    <2>9. CASE LostGlobal(r)
      BY <2>9 DEF LostGlobal, Goto
    <2>10. CASE LostPool(r)
      BY <2>10 DEF LostPool, Handle, PoolOf
    <2>11. CASE StartScan(r)
      <3>1. \A q \in Requests : q # r => SameRequest(q)
        BY <2>11 DEF StartScan, Goto, PoolOf, SameRequest
      <3>2. pc'[r] \notin WithEntry
        BY <2>11 DEF StartScan, Goto, PoolOf, WithEntry
      <3>3. UNCHANGED <<client, dead, revive_lock, task, sup, supAt>>
        BY <2>11 DEF StartScan, Goto, PoolOf
      <3>4. UNCHANGED rented
        BY <2>11 DEF StartScan, Goto, PoolOf
      <3> QED
        BY <3>1, <3>2, <3>3, <3>4, WithoutEntry
    <2>12. CASE TryRent(r)
      <3>0. ~rented[at[r]] /\ at[r] \in Entries
        BY <2>12 DEF TryRent, Goto
      <3>1. \A q \in Requests : q # r => SameRequest(q)
        BY <2>12 DEF TryRent, Goto, SameRequest
      <3>2. /\ at'[r] = at[r] /\ pc'[r] = "rented"
            /\ rented' = [rented EXCEPT ![at[r]] = TRUE]
            /\ UNCHANGED <<dead, revive_lock, task, sup, supAt>>
        BY <2>12, <3>0 DEF TryRent, Goto
      <3>3. Exchanging(r)' => ~dead[at[r]] /\ client'[at[r]] = held'[r]
        BY <2>12, <3>0, <3>2 DEF TryRent, Goto
      <3>4. \A f \in Entries : f # at[r] => client'[f] = client[f]
        BY <2>12 DEF TryRent, Goto
      <3>5. pc'[r] \notin {"load"} \cup Reviving
        BY <3>2
      <3> HIDE DEF TypeInv, TypeOK, RentInv, ExclusiveRent, HandedOutAlive,
                   NoSwapUnderRequest, OneRevive, Renting, Probing,
                   Exchanging, Reviving, SupEntry
      <3> QED
        BY <3>0, <3>1, <3>2, <3>3, <3>4, <3>5, Rents
    <2>13. CASE RentBusy(r)
      <3>1. \A q \in Requests : q # r => SameRequest(q)
        BY <2>13 DEF RentBusy, Goto, SameRequest
      <3>2. pc'[r] \notin WithEntry
        BY <2>13 DEF RentBusy, Goto, WithEntry
      <3>3. UNCHANGED <<client, dead, revive_lock, task, sup, supAt>>
        BY <2>13 DEF RentBusy, Goto
      <3>4. UNCHANGED rented
        BY <2>13 DEF RentBusy, Goto
      <3> QED
        BY <3>1, <3>2, <3>3, <3>4, WithoutEntry
    <2>14. CASE CheckDead(r)
      BY <2>14 DEF CheckDead, Goto
    <2>15. CASE LoadClient(r)
      BY <2>15 DEF LoadClient, Handle
    <2>16. CASE ReviveLock(r)
      BY <2>16 DEF ReviveLock, Goto
    <2>17. CASE ReviveAlready(r)
      BY <2>17 DEF ReviveAlready, Goto
    <2>18. CASE ReviveConnected(r)
      BY <2>18 DEF ReviveConnected, Goto, FreshClients
    <2>19. CASE ReviveClear(r)
      BY <2>19 DEF ReviveClear, Goto
    <2>20. CASE ReviveFails(r)
      BY <2>20 DEF ReviveFails, Goto
    <2>21. CASE Unrent(r)
      <3>1. \A q \in Requests : q # r => SameRequest(q)
        BY <2>21 DEF Unrent, Finish, SameRequest
      <3>2. pc'[r] \notin WithEntry
        BY <2>21 DEF Unrent, Finish, WithEntry
      <3>3. UNCHANGED <<client, dead, revive_lock, task, sup, supAt>>
        BY <2>21 DEF Unrent, Finish
      <3>4. Renting(r) /\ rented' = [rented EXCEPT ![at[r]] = FALSE]
        BY <2>21 DEF Unrent, Finish
      <3> QED
        BY <3>1, <3>2, <3>3, <3>4, WithoutEntry
    <2>22. CASE ReserveGlobal(r)
      BY <2>22 DEF ReserveGlobal, Goto
    <2>23. CASE ReservePool(r)
      BY <2>23 DEF ReservePool, Goto, PoolOf
    <2>24. CASE OverflowConnected(r)
      BY <2>24 DEF OverflowConnected, Handle, FreshClients
    <2>25. CASE OverflowFails(r)
      BY <2>25 DEF OverflowFails, Goto
    <2>26. CASE UndoGlobal(r)
      BY <2>26 DEF UndoGlobal, Goto
    <2>27. CASE UndoPoolErr(r)
      <3>1. \A q \in Requests : q # r => SameRequest(q)
        BY <2>27 DEF UndoPoolErr, Finish, PoolOf, SameRequest
      <3>2. pc'[r] \notin WithEntry
        BY <2>27 DEF UndoPoolErr, Finish, PoolOf, WithEntry
      <3>3. UNCHANGED <<client, dead, revive_lock, task, sup, supAt>>
        BY <2>27 DEF UndoPoolErr, Finish, PoolOf
      <3>4. UNCHANGED rented
        BY <2>27 DEF UndoPoolErr, Finish, PoolOf
      <3> QED
        BY <3>1, <3>2, <3>3, <3>4, WithoutEntry
    <2>28. CASE UndoPoolRetry(r)
      BY <2>28 DEF UndoPoolRetry, Goto, PoolOf
    <2>29. CASE SleepEnds(r)
      BY <2>29 DEF SleepEnds, Goto
    <2>30. CASE WsConnected(r)
      BY <2>30 DEF WsConnected, Handle, FreshClients
    <2>31. CASE RequestOk(r)
      BY <2>31 DEF RequestOk, Goto
    <2>32. CASE RequestErr(r)
      BY <2>32 DEF RequestErr, Goto
    <2>33. CASE BodyEnds(r)
      BY <2>33 DEF BodyEnds, Goto
    <2>34. CASE DropReusable(r)
      <3>1. \A q \in Requests : q # r => SameRequest(q)
        BY <2>34 DEF DropReusable, Finish, SameRequest
      <3>2. pc'[r] \notin WithEntry
        BY <2>34 DEF DropReusable, Finish, WithEntry
      <3>3. UNCHANGED <<client, dead, revive_lock, task, sup, supAt>>
        BY <2>34 DEF DropReusable, Finish
      <3>4. Renting(r) /\ rented' = [rented EXCEPT ![at[r]] = FALSE]
        BY <2>34 DEF DropReusable, Finish
      <3> QED
        BY <3>1, <3>2, <3>3, <3>4, WithoutEntry
    <2>35. CASE DropWs(r)
      <3>1. \A q \in Requests : q # r => SameRequest(q)
        BY <2>35 DEF DropWs, Finish, SameRequest
      <3>2. pc'[r] \notin WithEntry
        BY <2>35 DEF DropWs, Finish, WithEntry
      <3>3. UNCHANGED <<client, dead, revive_lock, task, sup, supAt>>
        BY <2>35 DEF DropWs, Finish
      <3>4. UNCHANGED rented
        BY <2>35 DEF DropWs, Finish
      <3> QED
        BY <3>1, <3>2, <3>3, <3>4, WithoutEntry
    <2>36. CASE DropGlobal(r)
      BY <2>36 DEF DropGlobal, Goto
    <2>37. CASE DropPool(r)
      <3>1. \A q \in Requests : q # r => SameRequest(q)
        BY <2>37 DEF DropPool, Finish, PoolOf, SameRequest
      <3>2. pc'[r] \notin WithEntry
        BY <2>37 DEF DropPool, Finish, PoolOf, WithEntry
      <3>3. UNCHANGED <<client, dead, revive_lock, task, sup, supAt>>
        BY <2>37 DEF DropPool, Finish, PoolOf
      <3>4. UNCHANGED rented
        BY <2>37 DEF DropPool, Finish, PoolOf
      <3> QED
        BY <3>1, <3>2, <3>3, <3>4, WithoutEntry
    <2>38. CASE CancelAcquire(r)
      BY <2>38 DEF CancelAcquire, Finish
    <2>39. CASE CancelRequest(r)
      BY <2>39 DEF CancelRequest, Goto
    <2> QED
      BY <1>2, <2>1, <2>2, <2>3, <2>4, <2>5, <2>6, <2>7, <2>8, <2>9, <2>10, <2>11, <2>12, <2>13,
         <2>14, <2>15, <2>16, <2>17, <2>15, <2>16, <2>17, <2>18, <2>19, <2>20, <2>21, <2>22,
         <2>23, <2>24, <2>25, <2>26, <2>27, <2>28, <2>29, <2>30, <2>31, <2>32, <2>33, <2>34,
         <2>35, <2>36, <2>37, <2>38, <2>39
         DEF Acquire, UseHandle, Cancel
  <1>3. ASSUME NEW e \in Entries, RunTask(e) PROVE RentInv'
    <2>1. CASE TaskStart(e)
      BY <2>1 DEF TaskStart
    <2>2. CASE TaskShutdown(e)
      BY <2>2 DEF TaskShutdown, TaskReturns
    <2>3. CASE TaskLock(e)
      BY <2>3 DEF TaskLock
    <2>4. CASE TaskAlready(e)
      BY <2>4 DEF TaskAlready, TaskReturns
    <2>5. CASE TaskConnected(e)
      BY <2>5 DEF TaskConnected, FreshClients
    <2>6. CASE TaskClear(e)
      BY <2>6 DEF TaskClear, TaskReturns
    <2>7. CASE TaskFails(e)
      BY <2>7 DEF TaskFails, TaskReturns
    <2>8. CASE TaskEnd(e)
      BY <2>8 DEF TaskEnd
    <2> QED
      BY <1>3, <2>1, <2>2, <2>3, <2>4, <2>5, <2>6, <2>7, <2>8
         DEF RunTask
  <1>4. ASSUME NEW p \in Pools, Tick(p) \/ SupCancel(p) \/ Drain(p) PROVE RentInv'
    <2>1. CASE SupStart(p)
      BY <2>1 DEF SupStart, SupGoto
    <2>2. CASE SupFinish(p)
      BY <2>2 DEF SupFinish, SupEnd
    <2>3. CASE SupDead(p)
      BY <2>3 DEF SupDead, SupGoto, SupEntry
    <2>4. CASE SupSkip(p)
      BY <2>4 DEF SupSkip, SupNext, SupEntry
    <2>5. CASE SupIdle(p)
      BY <2>5 DEF SupIdle, SupGoto, SupEntry
    <2>6. CASE SupRent(p)
      <3>1. SupEntry(p) \in Entries /\ ~rented[SupEntry(p)]
        BY <2>6, ProbedEntry DEF SupRent, SupGoto, SupEntry
      <3>2. /\ rented' = [rented EXCEPT ![SupEntry(p)] = TRUE]
            /\ sup' = [sup EXCEPT ![p] = "load"]
            /\ UNCHANGED <<client, dead, revive_lock, task, supAt, reqVars>>
        BY <2>6 DEF SupRent, SupGoto, SupEntry
      <3> QED
        BY <3>1, <3>2, SupRents
    <2>7. CASE SupBusy(p)
      BY <2>7 DEF SupBusy, SupNext, SupEntry
    <2>8. CASE SupLoad(p)
      BY <2>8 DEF SupLoad, SupGoto, SupEntry
    <2>9. CASE SupPingOk(p)
      BY <2>9 DEF SupPingOk, SupEntry
    <2>10. CASE SupPingFails(p)
      BY <2>10 DEF SupPingFails, SupGoto, SupEntry
    <2>11. CASE SpawnRevive(p)
      BY <2>11 DEF SpawnRevive, SupNext, SupEntry
    <2>12. CASE SpawnSkipped(p)
      BY <2>12 DEF SpawnSkipped, SupNext, SupEntry
    <2>13. CASE SupCancel(p)
      BY <2>13 DEF SupCancel, SupEnd, SupEntry
    <2>14. CASE Drain(p)
      BY <2>14 DEF Drain
    <2>15. CASE SupRelease(p)
      BY <2>15 DEF SupRelease, SupGoto, SupEntry
    <2>16. CASE SpawnDead(p)
      BY <2>16 DEF SpawnDead, SupGoto, SupEntry
    <2>17. CASE SpawnPending(p)
      BY <2>17 DEF SpawnPending, SupNext, SupEntry
    <2> QED
      BY <1>4, <2>1, <2>2, <2>3, <2>4, <2>5, <2>6, <2>7, <2>8, <2>9, <2>10, <2>11, <2>12, <2>13,
         <2>14, <2>15, <2>16, <2>17
         DEF Tick
  <1> QED
    BY <1>1, <1>2, <1>3, <1>4 DEF Next

-----------------------------------------------------------------------------
(* One owner per connection.                                               *)

\* What a step may leave of a request's or a probe's hold on a connection.
Same(q) == /\ held'[q] = held[q]
           /\ Holding(q)' <=> Holding(q)
           /\ \A e \in Entries : Lent(q, e)' <=> Lent(q, e)

KeepsHolding(q) ==
    Holding(q) /\ held'[q] = held[q] /\ \A e \in Entries : Lent(q, e) => Lent(q, e)'

KeepsProbing(p) ==
    sup[p] = "ping" /\ supHeld'[p] = supHeld[p] /\ supAt'[p] = supAt[p]

\* A step that hands no connection on.
LEMMA OwnersKept ==
    ASSUME OneOwner, UNCHANGED <<clients, client>>,
           \A q \in Requests : Holding(q)' => KeepsHolding(q),
           \A p \in Pools : sup'[p] = "ping" => KeepsProbing(p)
    PROVE  OneOwner'
  <1>1. \A e \in Entries : Pushed(e)' <=> Pushed(e)
    BY DEF Pushed
  <1>2. \A p \in Pools : sup'[p] = "ping" => SupEntry(p)' = SupEntry(p)
    BY DEF SupEntry, KeepsProbing
  <1> QED
    BY <1>1, <1>2 DEF OneOwner, KeepsHolding, KeepsProbing

\* What it means for a dialled connection to be new.
LEMMA Fresh ==
    ASSUME NEW c \in Clients \ InUse
    PROVE  /\ \A e \in Entries : Pushed(e) => client[e] # c
           /\ \A r \in Requests : Holding(r) => held[r] # c
           /\ \A p \in Pools : sup[p] = "ping" => supHeld[p] # c
  BY DEF InUse

\* A request gets a new connection.
LEMMA NewHeld ==
    ASSUME OneOwner, NEW r \in Requests, NEW c \in Clients \ InUse,
           UNCHANGED <<clients, client, sup, supAt, supHeld>>,
           held'[r] = c, \A q \in Requests : q # r => Same(q)
    PROVE  OneOwner'
  <1>1. \A e \in Entries : Pushed(e)' <=> Pushed(e)
    BY DEF Pushed
  <1>2. \A p \in Pools : SupEntry(p)' = SupEntry(p)
    BY DEF SupEntry
  <1> QED
    BY <1>1, <1>2, Fresh DEF OneOwner, Same

\* A new connection is stored into an entry by a revive.
LEMMA NewInEntry ==
    ASSUME OneOwner, TypeInv, NEW e \in Entries, NEW c \in Clients \ InUse,
           client' = [client EXCEPT ![e] = c],
           UNCHANGED <<clients, held, sup, supAt, supHeld>>,
           \A q \in Requests : Same(q)
    PROVE  OneOwner'
  <1>1. \A f \in Entries : Pushed(f)' <=> Pushed(f)
    BY DEF Pushed
  <1>2. \A p \in Pools : SupEntry(p)' = SupEntry(p)
    BY DEF SupEntry
  <1>3. client'[e] = c /\ \A f \in Entries : f # e => client'[f] = client[f]
    BY DEF TypeInv, TypeOK
  <1> QED
    BY <1>1, <1>2, <1>3, Fresh DEF OneOwner, Same

\* The renter of an entry loads its connection.
LEMMA LentOut ==
    ASSUME OneOwner, ExclusiveRent, SlotInv, TypeInv, NEW r \in Requests,
           Renting(r), UNCHANGED <<clients, client, sup, supAt, supHeld>>,
           \A q \in Requests : q # r => Same(q),
           held'[r] = client[at[r]], at'[r] = at[r],
           pc'[r] = "request", kind'[r] = "Reusable"
    PROVE  OneOwner'
  <1>1. \A e \in Entries : Pushed(e)' <=> Pushed(e)
    BY DEF Pushed
  <1>2. \A p \in Pools : SupEntry(p)' = SupEntry(p)
    BY DEF SupEntry
  <1>3. at[r] \in Entries /\ Pushed(at[r])
    BY DEF TypeInv, TypeOK, SlotInv, ExclusiveRent
  <1>4. \A q \in Requests : q # r => ~Lent(q, at[r])
    BY DEF Lent, ExclusiveRent, Renting
  <1>5. \A p \in Pools : sup[p] = "ping" => SupEntry(p) # at[r]
    BY DEF ExclusiveRent, Probing
  <1>6. \A q \in Requests : q # r /\ Holding(q) => held[q] # client[at[r]]
    BY <1>3, <1>4 DEF OneOwner
  <1>7. \A p \in Pools : sup[p] = "ping" => supHeld[p] # client[at[r]]
    BY <1>3, <1>5 DEF OneOwner
  <1>8. \A e \in Entries : Pushed(e) /\ client[e] = client[at[r]] => e = at[r]
    BY <1>3 DEF OneOwner
  <1>10. \A e \in Entries : Pushed(e)' /\ held'[r] = client'[e] => Lent(r, e)'
    <2> SUFFICES ASSUME NEW e \in Entries, Pushed(e)', held'[r] = client'[e]
                 PROVE  Lent(r, e)'
      OBVIOUS
    <2>1. e = at[r]
      BY <1>1, <1>8
    <2> QED
      BY <2>1 DEF Lent
  <1>9. \A q \in Requests, e \in Entries :
           Holding(q)' /\ Pushed(e)' /\ held'[q] = client'[e] => Lent(q, e)'
    BY <1>1, <1>10 DEF OneOwner, Same
  <1> QED
    BY <1>1, <1>2, <1>6, <1>7, <1>9 DEF OneOwner, Same

\* The supervisor loads the connection of the entry it has rented.
LEMMA Probes ==
    ASSUME OneOwner, ExclusiveRent, SlotInv, TypeInv, NEW p \in Pools,
           Probing(p), UNCHANGED <<clients, client, supAt>>,
           \A q \in Requests : Same(q),
           sup' = [sup EXCEPT ![p] = "ping"],
           supHeld' = [supHeld EXCEPT ![p] = client[SupEntry(p)]]
    PROVE  OneOwner'
  <1>1. \A e \in Entries : Pushed(e)' <=> Pushed(e)
    BY DEF Pushed
  <1>2. \A q \in Pools : SupEntry(q)' = SupEntry(q)
    BY DEF SupEntry
  <1>3. SupEntry(p) \in Entries /\ Pushed(SupEntry(p))
    BY ProbedEntry DEF Probing, SlotInv, ExclusiveRent
  <1>4. \A q \in Requests : ~Lent(q, SupEntry(p))
    BY DEF Lent, ExclusiveRent, Renting
  <1>5. \A q \in Pools : q # p => SupEntry(q) # SupEntry(p)
    BY DEF SupEntry
  <1>6. \A q \in Pools : q # p => sup'[q] = sup[q] /\ supHeld'[q] = supHeld[q]
    BY DEF TypeInv, TypeOK
  <1>7. supHeld'[p] = client[SupEntry(p)]
    BY DEF TypeInv, TypeOK
  <1> QED
    BY <1>1, <1>2, <1>3, <1>4, <1>5, <1>6, <1>7 DEF OneOwner, Same

\* Phase 0 pushes the connection a request has dialled.
LEMMA PushedClient ==
    ASSUME OneOwner, TypeInv, ExclusiveRent, NEW r \in Requests, NEW e \in Entries,
           client' = [client EXCEPT ![e] = held[r]],
           UNCHANGED <<sup, supAt, supHeld>>, ~Pushed(e),
           \A f \in Entries : Pushed(f)' => f = e \/ Pushed(f),
           \A q \in Requests : q # r => Same(q),
           Holding(r), held'[r] = held[r], Lent(r, e)',
           \A f \in Entries : ~Lent(r, f)
    PROVE  OneOwner'
  <1>1. client'[e] = held[r] /\ \A f \in Entries : f # e => client'[f] = client[f]
    BY DEF TypeInv, TypeOK
  <1>2. \A p \in Pools : SupEntry(p)' = SupEntry(p)
    BY DEF SupEntry
  <1> QED
    BY <1>1, <1>2 DEF OneOwner, Same

LEMMA OwnerInit == Init => OneOwner
  BY DEF Init, OneOwner, Holding, Pushed, Entries

LEMMA OwnerNext ==
    TypeInv /\ SlotInv /\ ExclusiveRent /\ OneOwner /\ [Next]_vars => OneOwner'
  <1> SUFFICES ASSUME TypeInv, SlotInv, ExclusiveRent, OneOwner, [Next]_vars
               PROVE  OneOwner'
    OBVIOUS
  <1> USE DEF poolVars, counterVars, entryVars, reqVars, supVars
  <1>0. /\ pc \in [Requests -> RequestPC] /\ at \in [Requests -> Entries]
        /\ kind \in [Requests -> Kinds] /\ sup \in [Pools -> SupPC]
        /\ held \in [Requests -> Clients \cup {NoClient}]
    BY DEF TypeInv, TypeOK
  <1>1. CASE UNCHANGED vars
    BY <1>1 DEF vars, OneOwner, Pushed, Holding, Lent, SupEntry
  <1>2. ASSUME NEW r \in Requests, Call(r) \/ CallWs(r) \/ Acquire(r)
               \/ UseHandle(r) \/ Cancel(r) PROVE OneOwner'
    <2>1. CASE Call(r)
      BY <2>1, <1>0, OwnersKept DEF Call, Goto, Holding, KeepsHolding, Lent, KeepsProbing
    <2>2. CASE CallWs(r)
      BY <2>2, <1>0, OwnersKept DEF CallWs, Goto, Holding, KeepsHolding, Lent, KeepsProbing
    <2>3. CASE Disposed(r)
      BY <2>3, <1>0, OwnersKept DEF Disposed, Finish, PoolOf, Holding, KeepsHolding, Lent,
         KeepsProbing
    <2>4. CASE Grow(r)
      BY <2>4, <1>0, OwnersKept DEF Grow, Goto, PoolOf, Holding, KeepsHolding, Lent, KeepsProbing
    <2>5. CASE GrowConnected(r)
      <3>1. PICK c \in Clients \ InUse : held' = [held EXCEPT ![r] = c]
        BY <2>5 DEF GrowConnected, Goto, FreshClients
      <3>2. UNCHANGED <<clients, client, sup, supAt, supHeld>>
        BY <2>5 DEF GrowConnected, Goto, FreshClients
      <3>3. held'[r] = c /\ \A q \in Requests : q # r => Same(q)
        BY <2>5, <3>1, <1>0 DEF GrowConnected, Goto, FreshClients, Same, Holding, Lent
      <3> QED
        BY <3>1, <3>2, <3>3, NewHeld
    <2>6. CASE DialFails(r)
      BY <2>6, <1>0, OwnersKept DEF DialFails, Finish, Holding, KeepsHolding, Lent, KeepsProbing
    <2>7. CASE Push(r)
      <3>1. PICK e \in Entries : e = <<at[r][1], clients[at[r][1]] + 1>>
        BY <2>7, PoolSizeAssumption DEF Push, Handle, PoolOf, Entries, TypeInv, TypeOK
      <3>2. /\ client' = [client EXCEPT ![e] = held[r]]
            /\ UNCHANGED <<sup, supAt, supHeld>>
        BY <2>7, <3>1 DEF Push, Handle, PoolOf
      <3>3. \A f \in Entries : Pushed(f)' => f = e \/ Pushed(f)
        <4> SUFFICES ASSUME NEW f \in Entries, Pushed(f)', ~Pushed(f)
                     PROVE  f = e
          OBVIOUS
        <4>1. f = <<f[1], f[2]>> /\ f[1] \in Pools /\ f[2] \in Nat
          BY DEF Entries
        <4>2. f[1] = at[r][1] /\ f[2] = clients[at[r][1]] + 1
          BY <2>7, <3>1, <4>1 DEF Push, Handle, PoolOf, Pushed, TypeInv, TypeOK
        <4> QED
          BY <3>1, <4>1, <4>2
      <3>4. \A q \in Requests : q # r => Same(q)
        BY <2>7, <3>1 DEF Push, Handle, PoolOf, Same, Holding, Lent
      <3>5. Holding(r) /\ \A f \in Entries : ~Lent(r, f)
        BY <2>7, <3>1 DEF Push, Handle, PoolOf, Holding, Lent
      <3>8. at'[r] = e /\ held'[r] = held[r]
        BY <2>7, <3>1, <1>0 DEF Push, Handle, PoolOf
      <3>9. pc'[r] = "request" /\ kind'[r] = "Reusable"
        BY <2>7, <3>1, <1>0 DEF Push, Handle, PoolOf
      <3>7. Lent(r, e)'
        BY <3>8, <3>9 DEF Lent
      <3>6. ~Pushed(e)
        BY <2>7, <3>1 DEF Push, Handle, PoolOf, Pushed, Entries, TypeInv, TypeOK
      <3> QED
        BY <3>1, <3>2, <3>3, <3>4, <3>5, <3>6, <3>7, <3>8, PushedClient
    <2>8. CASE PushLost(r)
      BY <2>8, <1>0, OwnersKept DEF PushLost, Goto, PoolOf, Holding, KeepsHolding, Lent,
         KeepsProbing
    <2>9. CASE LostGlobal(r)
      BY <2>9, <1>0, OwnersKept DEF LostGlobal, Goto, Holding, KeepsHolding, Lent, KeepsProbing
    <2>10. CASE LostPool(r)
      BY <2>10, <1>0, OwnersKept DEF LostPool, Handle, PoolOf, Holding, KeepsHolding, Lent,
         KeepsProbing
    <2>11. CASE StartScan(r)
      BY <2>11, <1>0, OwnersKept DEF StartScan, Goto, PoolOf, Holding, KeepsHolding, Lent,
         KeepsProbing
    <2>12. CASE TryRent(r)
      BY <2>12, <1>0, OwnersKept DEF TryRent, Goto, Holding, KeepsHolding, Lent, KeepsProbing
    <2>13. CASE RentBusy(r)
      BY <2>13, <1>0, OwnersKept DEF RentBusy, Goto, Holding, KeepsHolding, Lent, KeepsProbing
    <2>14. CASE CheckDead(r)
      BY <2>14, <1>0, OwnersKept DEF CheckDead, Goto, Holding, KeepsHolding, Lent, KeepsProbing
    <2>15. CASE LoadClient(r)
      <3>1. UNCHANGED <<clients, client, sup, supAt, supHeld>>
        BY <2>15 DEF LoadClient, Handle
      <3>2. \A q \in Requests : q # r => Same(q)
        BY <2>15 DEF LoadClient, Handle, Same, Holding, Lent
      <3>3. /\ held'[r] = client[at[r]] /\ at'[r] = at[r] /\ Renting(r)
            /\ pc'[r] = "request" /\ kind'[r] = "Reusable"
        BY <2>15, <1>0 DEF LoadClient, Handle, Renting
      <3> QED
        BY <3>1, <3>2, <3>3, LentOut
    <2>16. CASE ReviveLock(r)
      BY <2>16, <1>0, OwnersKept DEF ReviveLock, Goto, Holding, KeepsHolding, Lent, KeepsProbing
    <2>17. CASE ReviveAlready(r)
      BY <2>17, <1>0, OwnersKept DEF ReviveAlready, Goto, Holding, KeepsHolding, Lent, KeepsProbing
    <2>18. CASE ReviveConnected(r)
      <3>1. PICK c \in Clients \ InUse : client' = [client EXCEPT ![at[r]] = c]
        BY <2>18 DEF ReviveConnected, Goto, FreshClients
      <3>2. UNCHANGED <<clients, held, sup, supAt, supHeld>>
        BY <2>18 DEF ReviveConnected, Goto, FreshClients
      <3>3. \A q \in Requests : Same(q)
        BY <2>18 DEF ReviveConnected, Goto, FreshClients, Same, Holding, Lent
      <3>4. at[r] \in Entries
        BY DEF TypeInv, TypeOK
      <3> QED
        BY <3>1, <3>2, <3>3, <3>4, NewInEntry
    <2>19. CASE ReviveClear(r)
      BY <2>19, <1>0, OwnersKept DEF ReviveClear, Goto, Holding, KeepsHolding, Lent, KeepsProbing
    <2>20. CASE ReviveFails(r)
      BY <2>20, <1>0, OwnersKept DEF ReviveFails, Goto, Holding, KeepsHolding, Lent, KeepsProbing
    <2>21. CASE Unrent(r)
      BY <2>21, <1>0, OwnersKept DEF Unrent, Finish, Holding, KeepsHolding, Lent, KeepsProbing
    <2>22. CASE ReserveGlobal(r)
      BY <2>22, <1>0, OwnersKept DEF ReserveGlobal, Goto, Holding, KeepsHolding, Lent, KeepsProbing
    <2>23. CASE ReservePool(r)
      BY <2>23, <1>0, OwnersKept DEF ReservePool, Goto, PoolOf, Holding, KeepsHolding, Lent,
         KeepsProbing
    <2>24. CASE OverflowConnected(r)
      <3>1. PICK c \in Clients \ InUse : held' = [held EXCEPT ![r] = c]
        BY <2>24 DEF OverflowConnected, Handle, FreshClients
      <3>2. UNCHANGED <<clients, client, sup, supAt, supHeld>>
        BY <2>24 DEF OverflowConnected, Handle, FreshClients
      <3>3. held'[r] = c /\ \A q \in Requests : q # r => Same(q)
        BY <2>24, <3>1, <1>0 DEF OverflowConnected, Handle, FreshClients, Same, Holding, Lent
      <3> QED
        BY <3>1, <3>2, <3>3, NewHeld
    <2>25. CASE OverflowFails(r)
      BY <2>25, <1>0, OwnersKept DEF OverflowFails, Goto, Holding, KeepsHolding, Lent, KeepsProbing
    <2>26. CASE UndoGlobal(r)
      BY <2>26, <1>0, OwnersKept DEF UndoGlobal, Goto, Holding, KeepsHolding, Lent, KeepsProbing
    <2>27. CASE UndoPoolErr(r)
      BY <2>27, <1>0, OwnersKept DEF UndoPoolErr, Finish, PoolOf, Holding, KeepsHolding, Lent,
         KeepsProbing
    <2>28. CASE UndoPoolRetry(r)
      BY <2>28, <1>0, OwnersKept DEF UndoPoolRetry, Goto, PoolOf, Holding, KeepsHolding, Lent,
         KeepsProbing
    <2>29. CASE SleepEnds(r)
      BY <2>29, <1>0, OwnersKept DEF SleepEnds, Goto, Holding, KeepsHolding, Lent, KeepsProbing
    <2>30. CASE WsConnected(r)
      <3>1. PICK c \in Clients \ InUse : held' = [held EXCEPT ![r] = c]
        BY <2>30 DEF WsConnected, Handle, FreshClients
      <3>2. UNCHANGED <<clients, client, sup, supAt, supHeld>>
        BY <2>30 DEF WsConnected, Handle, FreshClients
      <3>3. held'[r] = c /\ \A q \in Requests : q # r => Same(q)
        BY <2>30, <3>1, <1>0 DEF WsConnected, Handle, FreshClients, Same, Holding, Lent
      <3> QED
        BY <3>1, <3>2, <3>3, NewHeld
    <2>31. CASE RequestOk(r)
      BY <2>31, <1>0, OwnersKept DEF RequestOk, Goto, Holding, KeepsHolding, Lent, KeepsProbing
    <2>32. CASE RequestErr(r)
      BY <2>32, <1>0, OwnersKept DEF RequestErr, Goto, Holding, KeepsHolding, Lent, KeepsProbing
    <2>33. CASE BodyEnds(r)
      BY <2>33, <1>0, OwnersKept DEF BodyEnds, Goto, Holding, KeepsHolding, Lent, KeepsProbing
    <2>34. CASE DropReusable(r)
      BY <2>34, <1>0, OwnersKept DEF DropReusable, Finish, Holding, KeepsHolding, Lent, KeepsProbing
    <2>35. CASE DropWs(r)
      BY <2>35, <1>0, OwnersKept DEF DropWs, Finish, Holding, KeepsHolding, Lent, KeepsProbing
    <2>36. CASE DropGlobal(r)
      BY <2>36, <1>0, OwnersKept DEF DropGlobal, Goto, Holding, KeepsHolding, Lent, KeepsProbing
    <2>37. CASE DropPool(r)
      BY <2>37, <1>0, OwnersKept DEF DropPool, Finish, PoolOf, Holding, KeepsHolding, Lent,
         KeepsProbing
    <2>38. CASE CancelAcquire(r)
      BY <2>38, <1>0, OwnersKept DEF CancelAcquire, Finish, Holding, KeepsHolding, Lent,
         KeepsProbing
    <2>39. CASE CancelRequest(r)
      BY <2>39, <1>0, OwnersKept DEF CancelRequest, Goto, Holding, KeepsHolding, Lent, KeepsProbing
    <2> QED
      BY <1>2, <2>1, <2>2, <2>3, <2>4, <2>5, <2>6, <2>7, <2>8, <2>9, <2>10, <2>11, <2>12, <2>13,
         <2>14, <2>15, <2>16, <2>17, <2>15, <2>16, <2>17, <2>18, <2>19, <2>20, <2>21, <2>22,
         <2>23, <2>24, <2>25, <2>26, <2>27, <2>28, <2>29, <2>30, <2>31, <2>32, <2>33, <2>34,
         <2>35, <2>36, <2>37, <2>38, <2>39
         DEF Acquire, UseHandle, Cancel
  <1>3. ASSUME NEW e \in Entries, RunTask(e) PROVE OneOwner'
    <2>1. CASE TaskStart(e)
      BY <2>1, <1>0, OwnersKept DEF TaskStart, Holding, KeepsHolding, Lent, KeepsProbing
    <2>2. CASE TaskShutdown(e)
      BY <2>2, <1>0, OwnersKept DEF TaskShutdown, TaskReturns, Holding, KeepsHolding, Lent,
         KeepsProbing
    <2>3. CASE TaskLock(e)
      BY <2>3, <1>0, OwnersKept DEF TaskLock, Holding, KeepsHolding, Lent, KeepsProbing
    <2>4. CASE TaskAlready(e)
      BY <2>4, <1>0, OwnersKept DEF TaskAlready, TaskReturns, Holding, KeepsHolding, Lent,
         KeepsProbing
    <2>5. CASE TaskConnected(e)
      <3>1. PICK c \in Clients \ InUse : client' = [client EXCEPT ![e] = c]
        BY <2>5 DEF TaskConnected, FreshClients
      <3>2. UNCHANGED <<clients, held, sup, supAt, supHeld>>
        BY <2>5 DEF TaskConnected, FreshClients
      <3>3. \A q \in Requests : Same(q)
        BY <2>5 DEF TaskConnected, FreshClients, Same, Holding, Lent
      <3>4. e \in Entries
        BY DEF TypeInv, TypeOK
      <3> QED
        BY <3>1, <3>2, <3>3, <3>4, NewInEntry
    <2>6. CASE TaskClear(e)
      BY <2>6, <1>0, OwnersKept DEF TaskClear, TaskReturns, Holding, KeepsHolding, Lent,
         KeepsProbing
    <2>7. CASE TaskFails(e)
      BY <2>7, <1>0, OwnersKept DEF TaskFails, TaskReturns, Holding, KeepsHolding, Lent,
         KeepsProbing
    <2>8. CASE TaskEnd(e)
      BY <2>8, <1>0, OwnersKept DEF TaskEnd, Holding, KeepsHolding, Lent, KeepsProbing
    <2> QED
      BY <1>3, <2>1, <2>2, <2>3, <2>4, <2>5, <2>6, <2>7, <2>8
         DEF RunTask
  <1>4. ASSUME NEW p \in Pools, Tick(p) \/ SupCancel(p) \/ Drain(p) PROVE OneOwner'
    <2>1. CASE SupStart(p)
      BY <2>1, <1>0, OwnersKept DEF SupStart, SupGoto, Holding, KeepsHolding, Lent, KeepsProbing
    <2>2. CASE SupFinish(p)
      BY <2>2, <1>0, OwnersKept DEF SupFinish, SupEnd, Holding, KeepsHolding, Lent, KeepsProbing
    <2>3. CASE SupDead(p)
      BY <2>3, <1>0, OwnersKept DEF SupDead, SupGoto, SupEntry, Holding, KeepsHolding, Lent,
         KeepsProbing
    <2>4. CASE SupSkip(p)
      BY <2>4, <1>0, OwnersKept DEF SupSkip, SupNext, SupEntry, Holding, KeepsHolding, Lent,
         KeepsProbing
    <2>5. CASE SupIdle(p)
      BY <2>5, <1>0, OwnersKept DEF SupIdle, SupGoto, SupEntry, Holding, KeepsHolding, Lent,
         KeepsProbing
    <2>6. CASE SupRent(p)
      BY <2>6, <1>0, OwnersKept DEF SupRent, SupGoto, SupEntry, Holding, KeepsHolding, Lent,
         KeepsProbing
    <2>7. CASE SupBusy(p)
      BY <2>7, <1>0, OwnersKept DEF SupBusy, SupNext, SupEntry, Holding, KeepsHolding, Lent,
         KeepsProbing
    <2>8. CASE SupLoad(p)
      <3>1. UNCHANGED <<clients, client, supAt>>
        BY <2>8 DEF SupLoad, SupGoto, SupEntry
      <3>2. \A q \in Requests : Same(q)
        BY <2>8 DEF SupLoad, SupGoto, SupEntry, Same, Holding, Lent
      <3>3. /\ sup' = [sup EXCEPT ![p] = "ping"] /\ Probing(p)
            /\ supHeld' = [supHeld EXCEPT ![p] = client[SupEntry(p)]]
        BY <2>8 DEF SupLoad, SupGoto, SupEntry, Probing
      <3> QED
        BY <3>1, <3>2, <3>3, Probes
    <2>9. CASE SupPingOk(p)
      BY <2>9, <1>0, OwnersKept DEF SupPingOk, SupEntry, Holding, KeepsHolding, Lent, KeepsProbing
    <2>10. CASE SupPingFails(p)
      BY <2>10, <1>0, OwnersKept DEF SupPingFails, SupGoto, SupEntry, Holding, KeepsHolding, Lent,
         KeepsProbing
    <2>11. CASE SpawnRevive(p)
      BY <2>11, <1>0, OwnersKept DEF SpawnRevive, SupNext, SupEntry, Holding, KeepsHolding, Lent,
         KeepsProbing
    <2>12. CASE SpawnSkipped(p)
      BY <2>12, <1>0, OwnersKept DEF SpawnSkipped, SupNext, SupEntry, Holding, KeepsHolding, Lent,
         KeepsProbing
    <2>13. CASE SupCancel(p)
      BY <2>13, <1>0, OwnersKept DEF SupCancel, SupEnd, SupEntry, Holding, KeepsHolding, Lent,
         KeepsProbing
    <2>14. CASE Drain(p)
      BY <2>14, <1>0, OwnersKept DEF Drain, Holding, KeepsHolding, Lent, KeepsProbing
    <2>15. CASE SupRelease(p)
      BY <2>15, <1>0, OwnersKept DEF SupRelease, SupGoto, SupEntry, Holding, KeepsHolding, Lent,
         KeepsProbing
    <2>16. CASE SpawnDead(p)
      BY <2>16, <1>0, OwnersKept DEF SpawnDead, SupGoto, SupEntry, Holding, KeepsHolding, Lent,
         KeepsProbing
    <2>17. CASE SpawnPending(p)
      BY <2>17, <1>0, OwnersKept DEF SpawnPending, SupNext, SupEntry, Holding, KeepsHolding, Lent,
         KeepsProbing
    <2> QED
      BY <1>4, <2>1, <2>2, <2>3, <2>4, <2>5, <2>6, <2>7, <2>8, <2>9, <2>10, <2>11, <2>12, <2>13,
         <2>14, <2>15, <2>16, <2>17
         DEF Tick
  <1> QED
    BY <1>1, <1>2, <1>3, <1>4 DEF Next

-----------------------------------------------------------------------------
(* The theorems.                                                           *)

\* The inductive invariant.  Exclusive use of an entry needs the slots that
\* are not pushed yet to be clean; one owner per connection needs exclusive
\* use, because an entry's connection is loaded only by its renter.
IInv == TypeInv /\ SlotInv /\ RentInv /\ OneOwner

LEMMA IInvariant == Spec => []IInv
  <1>1. Init => IInv
    BY TypeInit, SlotInit, RentInit, OwnerInit DEF IInv
  <1>2. IInv /\ [Next]_vars => IInv'
    BY TypeNext, SlotNext, RentNext, OwnerNext DEF IInv, RentInv
  <1> QED
    BY <1>1, <1>2, PTL DEF Spec

\* An entry has one user at a time, for any number of pools, entries,
\* requests and ticks (try_rent, RentGuard and the Drop of the handle).
THEOREM Exclusive == Spec => []ExclusiveRent
  <1>1. IInv => ExclusiveRent
    BY DEF IInv, RentInv
  <1> QED
    BY <1>1, IInvariant, PTL

\* No upstream connection carries two exchanges at a time, although revives
\* replace the connection of an entry while others wait to rent it.
THEOREM OneStream == Spec => []SingleStream
  <1>1. IInv => SingleStream
    BY DEF IInv, OneOwner, SingleStream, Exchanging, Holding
  <1> QED
    BY <1>1, IInvariant, PTL

\* The connection a request was handed stays the connection of its entry,
\* and the entry stays alive, until the request ends.
THEOREM NoSwap == Spec => []NoSwapUnderRequest
  <1>1. IInv => NoSwapUnderRequest
    BY DEF IInv, RentInv
  <1> QED
    BY <1>1, IInvariant, PTL

\* A foreground and a background revive of an entry exclude each other, and
\* both only ever work on a dead entry (revive_lock and its re-check).
THEOREM ReviveOnce == Spec => []OneRevive
  <1>1. IInv => OneRevive
    BY DEF IInv, RentInv
  <1> QED
    BY <1>1, IInvariant, PTL

\* No step replaces the connection of an entry that is alive.
THEOREM LiveIsKept == Spec => ReplaceOnlyDead
  <1> DEFINE Replaces == \A e \in Entries :
                            Pushed(e) /\ client'[e] # client[e] => dead[e]
  <1>1. IInv /\ [Next]_vars => Replaces
    <2> SUFFICES ASSUME IInv, [Next]_vars
                 PROVE  Replaces
      OBVIOUS
    <2> USE DEF poolVars, counterVars, entryVars, reqVars, supVars
    <2>0. client \in [Entries -> Clients \cup {NoClient}] /\ at \in [Requests -> Entries]
      BY DEF IInv, TypeInv, TypeOK
    <2>1. CASE UNCHANGED client
      BY <2>1
    <2>2. ASSUME NEW r \in Requests, Push(r) PROVE Replaces
      <3>1. ~Pushed(<<at[r][1], clients[at[r][1]] + 1>>)
        BY <2>0 DEF Pushed, Entries, IInv, TypeInv, TypeOK
      <3> QED
        BY <2>0, <2>2, <3>1 DEF Push, PoolOf
    <2>3. ASSUME NEW r \in Requests, ReviveConnected(r) PROVE Replaces
      <3>1. dead[at[r]]
        BY <2>0, <2>3 DEF ReviveConnected, IInv, RentInv, OneRevive, Reviving
      <3> QED
        BY <2>0, <2>3, <3>1 DEF ReviveConnected
    <2>4. ASSUME NEW e \in Entries, TaskConnected(e) PROVE Replaces
      <3>1. dead[e]
        BY <2>4 DEF TaskConnected, IInv, RentInv, OneRevive, Reviving
      <3> QED
        BY <2>0, <2>4, <3>1 DEF TaskConnected
    <2>5. ASSUME NEW r \in Requests, Call(r) \/ CallWs(r) \/ Acquire(r)
                 \/ UseHandle(r) \/ Cancel(r),
                 ~Push(r), ~ReviveConnected(r)
          PROVE  UNCHANGED client
      BY <2>5 DEF Call, CallWs, Acquire, UseHandle, Cancel,
         Disposed, Grow, GrowConnected, DialFails, PushLost, LostGlobal,
         LostPool, StartScan, TryRent, RentBusy, CheckDead, LoadClient,
         ReviveLock, ReviveAlready, ReviveClear, ReviveFails, Unrent,
         ReserveGlobal, ReservePool, OverflowConnected, OverflowFails,
         UndoGlobal, UndoPoolErr, UndoPoolRetry, SleepEnds, WsConnected,
         RequestOk, RequestErr, BodyEnds, DropReusable, DropWs, DropGlobal,
         DropPool, CancelAcquire, CancelRequest
    <2>6. ASSUME NEW e \in Entries, RunTask(e), ~TaskConnected(e)
          PROVE  UNCHANGED client
      BY <2>6 DEF RunTask, TaskStart, TaskShutdown, TaskLock, TaskAlready,
         TaskClear, TaskFails, TaskEnd
    <2>7. ASSUME NEW p \in Pools, Tick(p) \/ SupCancel(p) \/ Drain(p)
          PROVE  UNCHANGED client
      BY <2>7 DEF Tick, SupStart, SupFinish, SupDead, SupSkip, SupIdle,
         SupRent, SupBusy, SupLoad, SupPingOk, SupPingFails, SupCancel,
         SupRelease, SpawnDead, SpawnRevive, SpawnPending, SpawnSkipped, Drain
    <2> QED
      BY <2>1, <2>2, <2>3, <2>4, <2>5, <2>6, <2>7 DEF Next, vars
  <1> QED
    BY <1>1, IInvariant, PTL DEF Spec, ReplaceOnlyDead

\* revive_pending and the background task of an entry come and go together,
\* so that ticks never stack tasks and no exit of a task blocks the next one.
THEOREM Pending == Spec => []PendingIffTask
  <1>1. Init => PendingIffTask
    BY DEF Init, PendingIffTask
  <1>2. TypeInv /\ PendingIffTask /\ [Next]_vars => PendingIffTask'
    <2> SUFFICES ASSUME TypeInv, PendingIffTask, [Next]_vars
                 PROVE  PendingIffTask'
      OBVIOUS
    <2> USE DEF poolVars, counterVars, entryVars, reqVars, supVars
    <2>0. /\ task \in [Entries -> TaskPC]
          /\ revive_pending \in [Entries -> BOOLEAN]
      BY DEF TypeInv, TypeOK
    <2>1. CASE UNCHANGED <<task, revive_pending>>
      BY <2>1 DEF PendingIffTask
    <2>2. ASSUME NEW r \in Requests, Call(r) \/ CallWs(r) \/ Acquire(r)
                 \/ UseHandle(r) \/ Cancel(r)
          PROVE  UNCHANGED <<task, revive_pending>>
      BY <2>2 DEF Call, CallWs, Acquire, UseHandle, Cancel,
         Disposed, Grow, GrowConnected, DialFails, Push, PushLost, LostGlobal,
         LostPool, StartScan, TryRent, RentBusy, CheckDead, LoadClient,
         ReviveLock, ReviveAlready, ReviveConnected, ReviveClear, ReviveFails,
         Unrent, ReserveGlobal, ReservePool, OverflowConnected, OverflowFails,
         UndoGlobal, UndoPoolErr, UndoPoolRetry, SleepEnds, WsConnected,
         RequestOk, RequestErr, BodyEnds, DropReusable, DropWs, DropGlobal,
         DropPool, CancelAcquire, CancelRequest
    <2>3. ASSUME NEW e \in Entries, RunTask(e) PROVE PendingIffTask'
      <3>1. CASE TaskEnd(e)
        BY <2>0, <3>1 DEF TaskEnd, PendingIffTask
      <3>2. CASE /\ task[e] # "none" /\ UNCHANGED revive_pending
                 /\ \E t \in TaskPC \ {"none"} : task' = [task EXCEPT ![e] = t]
        BY <2>0, <3>2 DEF PendingIffTask
      <3> QED
        BY <2>3, <3>1, <3>2 DEF RunTask, TaskStart, TaskShutdown, TaskLock,
           TaskAlready, TaskConnected, TaskClear, TaskFails, TaskReturns, TaskPC
    <2>4. ASSUME NEW p \in Pools, SpawnRevive(p) PROVE PendingIffTask'
      BY <2>0, <2>4 DEF SpawnRevive, SupNext, PendingIffTask, TaskPC
    <2>5. ASSUME NEW p \in Pools, Tick(p) \/ SupCancel(p) \/ Drain(p), ~SpawnRevive(p)
          PROVE  UNCHANGED <<task, revive_pending>>
      BY <2>5 DEF Tick, SupStart, SupFinish, SupDead, SupSkip, SupIdle,
         SupRent, SupBusy, SupLoad, SupPingOk, SupPingFails, SupCancel,
         SupRelease, SpawnDead, SpawnPending, SpawnSkipped, Drain
    <2> QED
      BY <2>1, <2>2, <2>3, <2>4, <2>5 DEF Next, vars
  <1> QED
    BY <1>1, <1>2, TypeInit, TypeNext, PTL DEF Spec

\* rented, dead, revive_lock and revive_pending agree with each other and with
\* what requests, tasks and probes are doing, for any number of them.
THEOREM Flags == Spec => []FlagsTellTheTruth
  BY Exclusive, ReviveOnce, Pending, PTL DEF FlagsTellTheTruth

-----------------------------------------------------------------------------
(* The two budgets of disposables.                                         *)

\* The owners of a unit of a counter.
GlobalOwners == {r \in Requests : CountedGlobally(r)}
PoolOwners(p) == {r \in Requests : CountedInPool(r) /\ PoolOf(r) = p}

\* Only finitely many requests own a unit, and each unit is counted.
CountInv ==
    /\ IsFiniteSet(GlobalOwners) /\ DISPOSABLE_COUNTER >= Cardinality(GlobalOwners)
    /\ \A p \in Pools :
          /\ IsFiniteSet(PoolOwners(p))
          /\ live_disposables[p] >= Cardinality(PoolOwners(p))

\* A reservation within both budgets so far belongs to a request on Phase 2.
GrantedAt(r) ==
    granted[r] =>
        \/ pc[r] \in {"reservePool", "overflowDial", "undoGlobal", "undoPool", "dropPool"}
        \/ pc[r] \in {"request", "body", "drop"} /\ kind[r] = "Disposable"

\* The owners whose reservation was within the budget.
GrantedGlobally == {r \in GlobalOwners : granted[r]}
GrantedInPool(p) == {r \in PoolOwners(p) : granted[r]}

BudgetInv ==
    /\ \A r \in Requests : GrantedAt(r)
    /\ Cardinality(GrantedGlobally) <= MAX_DISPOSABLE
    /\ \A p \in Pools : Cardinality(GrantedInPool(p)) <= MaxDisposables

\* What a step of request r does to the counters and to its own place: it keeps
\* a unit or, if clients disconnect, loses it uncounted, is counted, or gives its
\* unit back.
GlobalEffect(r) ==
    \/ /\ UNCHANGED DISPOSABLE_COUNTER
       /\ CountedGlobally(r)' => CountedGlobally(r) /\ (granted'[r] => granted[r])
       /\ ClientsDisconnect \/ (CountedGlobally(r) => CountedGlobally(r)')
    \/ /\ DISPOSABLE_COUNTER' = DISPOSABLE_COUNTER + 1
       /\ granted'[r] => DISPOSABLE_COUNTER < MAX_DISPOSABLE
       /\ ~CountedGlobally(r) /\ CountedGlobally(r)'
    \/ /\ DISPOSABLE_COUNTER' = DISPOSABLE_COUNTER - 1
       /\ CountedGlobally(r) /\ ~CountedGlobally(r)'

PoolEffect(r) ==
    \/ /\ UNCHANGED live_disposables
       /\ CountedInPool(r)' =>
             /\ CountedInPool(r) /\ at'[r] = at[r]
             /\ granted'[r] => granted[r]
       /\ ClientsDisconnect \/ (CountedInPool(r) => CountedInPool(r)')
    \/ /\ live_disposables' = [live_disposables EXCEPT ![PoolOf(r)] = @ + 1]
       /\ at'[r] = at[r]
       /\ granted'[r] => live_disposables[PoolOf(r)] < MaxDisposables
       /\ ~CountedInPool(r) /\ CountedInPool(r)'
    \/ /\ live_disposables' = [live_disposables EXCEPT ![PoolOf(r)] = @ - 1]
       /\ CountedInPool(r) /\ ~CountedInPool(r)'

\* The other requests stay where they are.
OthersStay(r) ==
    \A q \in Requests : q # r =>
        /\ pc'[q] = pc[q] /\ kind'[q] = kind[q]
        /\ at'[q] = at[q] /\ granted'[q] = granted[q]

LEMMA CounterEffect ==
    ASSUME TypeOK, NEW r \in Requests, GrantedAt(r),
           Call(r) \/ CallWs(r) \/ Acquire(r) \/ UseHandle(r) \/ Cancel(r)
    PROVE  OthersStay(r) /\ GrantedAt(r)' /\ GlobalEffect(r) /\ PoolEffect(r)
<1> DEFINE Goal == OthersStay(r) /\ GrantedAt(r)' /\ GlobalEffect(r) /\ PoolEffect(r)
<1> SUFFICES Goal
  OBVIOUS
<1>0. /\ pc \in [Requests -> RequestPC] /\ kind \in [Requests -> Kinds]
      /\ at \in [Requests -> Entries] /\ granted \in [Requests -> BOOLEAN]
      /\ DISPOSABLE_COUNTER \in Int /\ live_disposables \in [Pools -> Int]
  BY DEF TypeOK
<1> USE <1>0 DEF GrantedAt, OthersStay, GlobalEffect, PoolEffect, CountedGlobally,
        CountedInPool, PoolOf, poolVars, counterVars, entryVars, reqVars, supVars
<1>1. CASE Call(r)
  BY <1>1 DEF Call, Goto
<1>2. CASE CallWs(r)
  BY <1>2 DEF CallWs, Goto
<1>3. CASE Disposed(r)
  BY <1>3 DEF Disposed, Finish
<1>4. CASE Grow(r)
  BY <1>4 DEF Grow, Goto
<1>5. CASE GrowConnected(r)
  BY <1>5 DEF GrowConnected, Goto
<1>6. CASE DialFails(r)
  BY <1>6 DEF DialFails, Finish
<1>7. CASE Push(r)
  BY <1>7 DEF Push, Handle
<1>8. CASE PushLost(r)
  BY <1>8 DEF PushLost, Goto
<1>9. CASE LostGlobal(r)
  BY <1>9 DEF LostGlobal, Goto
<1>10. CASE LostPool(r)
  BY <1>10 DEF LostPool, Handle
<1>11. CASE StartScan(r)
  BY <1>11 DEF StartScan, Goto
<1>12. CASE TryRent(r)
  BY <1>12 DEF TryRent, Goto
<1>13. CASE RentBusy(r)
  BY <1>13 DEF RentBusy, Goto
<1>14. CASE CheckDead(r)
  BY <1>14 DEF CheckDead, Goto
<1>15. CASE LoadClient(r)
  BY <1>15 DEF LoadClient, Handle
<1>16. CASE ReviveLock(r)
  BY <1>16 DEF ReviveLock, Goto
<1>17. CASE ReviveAlready(r)
  BY <1>17 DEF ReviveAlready, Goto
<1>18. CASE ReviveConnected(r)
  BY <1>18 DEF ReviveConnected, Goto
<1>19. CASE ReviveClear(r)
  BY <1>19 DEF ReviveClear, Goto
<1>20. CASE ReviveFails(r)
  BY <1>20 DEF ReviveFails, Goto
<1>21. CASE Unrent(r)
  BY <1>21 DEF Unrent, Finish
<1>22. CASE ReserveGlobal(r)
  BY <1>22 DEF ReserveGlobal, Goto
<1>23. CASE ReservePool(r)
  <2> DEFINE ok == granted[r] /\ live_disposables[PoolOf(r)] < MaxDisposables
  <2>1. /\ granted' = [granted EXCEPT ![r] = ok]
        /\ pc' = [pc EXCEPT ![r] = IF ok THEN "overflowDial" ELSE "undoGlobal"]
        /\ live_disposables' = [live_disposables EXCEPT ![PoolOf(r)] = @ + 1]
        /\ UNCHANGED <<at, kind, DISPOSABLE_COUNTER>> /\ pc[r] = "reservePool"
    BY <1>23 DEF ReservePool, Goto, PoolOf
  <2>2. granted'[r] => granted[r] /\ live_disposables[PoolOf(r)] < MaxDisposables
    BY <2>1
  <2> HIDE DEF ok
  <2> QED  BY <2>1, <2>2
<1>24. CASE OverflowConnected(r)
  BY <1>24 DEF OverflowConnected, Handle
<1>25. CASE OverflowFails(r)
  BY <1>25 DEF OverflowFails, Goto
<1>26. CASE UndoGlobal(r)
  BY <1>26 DEF UndoGlobal, Goto
<1>27. CASE UndoPoolErr(r)
  BY <1>27 DEF UndoPoolErr, Finish
<1>28. CASE UndoPoolRetry(r)
  BY <1>28 DEF UndoPoolRetry, Goto
<1>29. CASE SleepEnds(r)
  BY <1>29 DEF SleepEnds, Goto
<1>30. CASE WsConnected(r)
  BY <1>30 DEF WsConnected, Handle
<1>31. CASE RequestOk(r)
  BY <1>31 DEF RequestOk, Goto
<1>32. CASE RequestErr(r)
  BY <1>32 DEF RequestErr, Goto
<1>33. CASE BodyEnds(r)
  BY <1>33 DEF BodyEnds, Goto
<1>34. CASE DropReusable(r)
  BY <1>34 DEF DropReusable, Finish
<1>35. CASE DropWs(r)
  BY <1>35 DEF DropWs, Finish
<1>36. CASE DropGlobal(r)
  BY <1>36 DEF DropGlobal, Goto
<1>37. CASE DropPool(r)
  BY <1>37 DEF DropPool, Finish
<1>38. CASE CancelAcquire(r)
  BY <1>38 DEF CancelAcquire, Finish
<1>39. CASE CancelRequest(r)
  BY <1>39 DEF CancelRequest, Goto
<1> QED
  BY <1>1, <1>2, <1>3, <1>4, <1>5, <1>6, <1>7, <1>8, <1>9, <1>10, <1>11,
     <1>12, <1>13, <1>14, <1>15, <1>16, <1>17, <1>18, <1>19, <1>20, <1>21,
     <1>22, <1>23, <1>24, <1>25, <1>26, <1>27, <1>28, <1>29, <1>30, <1>31,
     <1>32, <1>33, <1>34, <1>35, <1>36, <1>37, <1>38, <1>39
     DEF Acquire, UseHandle, Cancel

\* One unit more or less for one owner more or less.
LEMMA Counted ==
    ASSUME NEW S, NEW T, NEW r, NEW c \in Int, NEW d \in Int,
           IsFiniteSet(S), c >= Cardinality(S),
           \/ T \subseteq S /\ d = c
           \/ T \subseteq S \cup {r} /\ d = c + 1
           \/ r \in S /\ T \subseteq S \ {r} /\ d = c - 1
    PROVE  IsFiniteSet(T) /\ d >= Cardinality(T)
<1>0. Cardinality(S) \in Nat
  BY FS_CardinalityType
<1>1. CASE T \subseteq S /\ d = c
  <2>1. IsFiniteSet(T) /\ Cardinality(T) \in Nat /\ Cardinality(T) <= Cardinality(S)
    BY <1>1, FS_Subset, FS_CardinalityType
  <2> QED  BY <1>0, <1>1, <2>1
<1>2. CASE T \subseteq S \cup {r} /\ d = c + 1
  <2>1. /\ IsFiniteSet(S \cup {r}) /\ Cardinality(S \cup {r}) \in Nat
        /\ Cardinality(S \cup {r}) <= Cardinality(S) + 1
    <3>1. /\ IsFiniteSet(S \cup {r})
          /\ Cardinality(S \cup {r}) = Cardinality(S)
             \/ Cardinality(S \cup {r}) = Cardinality(S) + 1
      BY FS_AddElement
    <3> QED  BY <1>0, <3>1
  <2>2. IsFiniteSet(T) /\ Cardinality(T) \in Nat /\ Cardinality(T) <= Cardinality(S \cup {r})
    BY <1>2, <2>1, FS_Subset, FS_CardinalityType
  <2> QED  BY <1>0, <1>2, <2>1, <2>2
<1>3. CASE r \in S /\ T \subseteq S \ {r} /\ d = c - 1
  <2>1. IsFiniteSet(S \ {r}) /\ Cardinality(S \ {r}) = Cardinality(S) - 1
    BY <1>3, FS_RemoveElement
  <2>2. IsFiniteSet(T) /\ Cardinality(T) \in Nat /\ Cardinality(T) <= Cardinality(S \ {r})
    BY <1>3, <2>1, FS_Subset, FS_CardinalityType
  <2> QED  BY <1>0, <1>3, <2>1, <2>2
<1> QED  BY <1>1, <1>2, <1>3

\* One more within a budget that the counter showed to be open.
LEMMA Budgeted ==
    ASSUME NEW S, NEW A, NEW B, NEW r, NEW c \in Int, NEW max \in Nat,
           IsFiniteSet(S), c >= Cardinality(S), A \subseteq S,
           Cardinality(A) <= max,
           B \subseteq A \/ (B \subseteq A \cup {r} /\ c < max)
    PROVE  Cardinality(B) <= max
<1>1. /\ IsFiniteSet(A) /\ Cardinality(A) \in Nat /\ Cardinality(S) \in Nat
      /\ Cardinality(A) <= Cardinality(S)
  BY FS_Subset, FS_CardinalityType
<1>2. CASE B \subseteq A
  <2>1. Cardinality(B) \in Nat /\ Cardinality(B) <= Cardinality(A)
    BY <1>1, <1>2, FS_Subset, FS_CardinalityType
  <2> QED  BY <1>1, <2>1
<1>3. CASE B \subseteq A \cup {r} /\ c < max
  <2>1. Cardinality(A) \in Int /\ Cardinality(A) + 1 \in Int /\ Cardinality(A) >= Cardinality(A)
    BY <1>1
  <2>2. IsFiniteSet(B) /\ Cardinality(A) + 1 >= Cardinality(B)
    BY <1>1, <1>3, <2>1, Counted
  <2>3. Cardinality(B) \in Nat
    BY <2>2, FS_CardinalityType
  <2> QED  BY <1>1, <1>3, <2>2, <2>3
<1> QED  BY <1>2, <1>3

LEMMA CountInit == Init => CountInv /\ BudgetInv
<1> SUFFICES ASSUME Init PROVE CountInv /\ BudgetInv
  OBVIOUS
<1>1. GlobalOwners = {} /\ \A p \in Pools : PoolOwners(p) = {}
  BY DEF Init, GlobalOwners, PoolOwners, CountedGlobally, CountedInPool
<1>2. GrantedGlobally = {} /\ \A p \in Pools : GrantedInPool(p) = {}
  BY <1>1 DEF GrantedGlobally, GrantedInPool
<1>3. IsFiniteSet({}) /\ Cardinality({}) = 0
  BY FS_EmptySet
<1>4. CountInv
  <2>1. DISPOSABLE_COUNTER = 0 /\ \A p \in Pools : live_disposables[p] = 0
    BY DEF Init
  <2> QED  BY <1>1, <1>3, <2>1 DEF CountInv
<1>5. \A r \in Requests : GrantedAt(r)
  BY DEF Init, GrantedAt
<1> QED  BY <1>2, <1>3, <1>4, <1>5, CapAssumption DEF BudgetInv

\* A step of a request.
LEMMA CountRequest ==
    ASSUME TypeInv, TypeInv', CountInv, BudgetInv, NEW r \in Requests,
           Call(r) \/ CallWs(r) \/ Acquire(r) \/ UseHandle(r) \/ Cancel(r)
    PROVE  CountInv' /\ BudgetInv'
<1>0. /\ DISPOSABLE_COUNTER \in Int /\ DISPOSABLE_COUNTER' \in Int
      /\ live_disposables \in [Pools -> Int] /\ live_disposables' \in [Pools -> Int]
      /\ at[r][1] \in Pools /\ TypeOK
  BY DEF TypeInv, TypeOK, Entries
<1>1. OthersStay(r) /\ GrantedAt(r)' /\ GlobalEffect(r) /\ PoolEffect(r)
  BY <1>0, CounterEffect DEF BudgetInv
<1>2. \A q \in Requests : GrantedAt(q)'
  BY <1>1 DEF BudgetInv, GrantedAt, OthersStay
<1>3. \A q \in Requests : q # r =>
         /\ CountedGlobally(q)' <=> CountedGlobally(q)
         /\ CountedInPool(q)' <=> CountedInPool(q)
         /\ PoolOf(q)' = PoolOf(q) /\ granted'[q] = granted[q]
  BY <1>1 DEF OthersStay, CountedGlobally, CountedInPool, PoolOf
<1>4. /\ IsFiniteSet(GlobalOwners')
      /\ DISPOSABLE_COUNTER' >= Cardinality(GlobalOwners')
      /\ Cardinality(GrantedGlobally') <= MAX_DISPOSABLE
  <2>1. /\ IsFiniteSet(GlobalOwners) /\ DISPOSABLE_COUNTER >= Cardinality(GlobalOwners)
        /\ Cardinality(GrantedGlobally) <= MAX_DISPOSABLE
        /\ GrantedGlobally \subseteq GlobalOwners
    BY DEF CountInv, BudgetInv, GrantedGlobally
  <2>2. CASE /\ UNCHANGED DISPOSABLE_COUNTER
             /\ CountedGlobally(r)' => CountedGlobally(r) /\ (granted'[r] => granted[r])
    <3>1. GlobalOwners' \subseteq GlobalOwners /\ GrantedGlobally' \subseteq GrantedGlobally
      BY <1>3, <2>2 DEF GlobalOwners, GrantedGlobally
    <3> QED  BY <1>0, <2>1, <2>2, <3>1, Counted, Budgeted, CapAssumption
  <2>3. CASE /\ DISPOSABLE_COUNTER' = DISPOSABLE_COUNTER + 1
             /\ granted'[r] => DISPOSABLE_COUNTER < MAX_DISPOSABLE
    <3>1. /\ GlobalOwners' \subseteq GlobalOwners \cup {r}
          /\ GrantedGlobally' \subseteq GrantedGlobally \cup {r}
          /\ ~granted'[r] => GrantedGlobally' \subseteq GrantedGlobally
      BY <1>3 DEF GlobalOwners, GrantedGlobally
    <3> QED  BY <1>0, <2>1, <2>3, <3>1, Counted, Budgeted, CapAssumption
  <2>4. CASE /\ DISPOSABLE_COUNTER' = DISPOSABLE_COUNTER - 1
             /\ CountedGlobally(r) /\ ~CountedGlobally(r)'
    <3>1. /\ r \in GlobalOwners /\ GlobalOwners' \subseteq GlobalOwners \ {r}
          /\ GrantedGlobally' \subseteq GrantedGlobally
      BY <1>3, <2>4 DEF GlobalOwners, GrantedGlobally
    <3>2. /\ IsFiniteSet(GlobalOwners')
          /\ DISPOSABLE_COUNTER' >= Cardinality(GlobalOwners')
      BY <1>0, <2>1, <2>4, <3>1, Counted
    <3>3. Cardinality(GrantedGlobally') <= MAX_DISPOSABLE
      BY <1>0, <2>1, <3>1, Budgeted, CapAssumption
    <3> QED  BY <3>2, <3>3
  <2> QED  BY <1>1, <2>2, <2>3, <2>4 DEF GlobalEffect
<1>5. ASSUME NEW p \in Pools
      PROVE  /\ IsFiniteSet(PoolOwners(p)')
             /\ live_disposables'[p] >= Cardinality(PoolOwners(p)')
             /\ Cardinality(GrantedInPool(p)') <= MaxDisposables
  <2>1. /\ IsFiniteSet(PoolOwners(p)) /\ live_disposables[p] >= Cardinality(PoolOwners(p))
        /\ Cardinality(GrantedInPool(p)) <= MaxDisposables
        /\ GrantedInPool(p) \subseteq PoolOwners(p)
        /\ live_disposables[p] \in Int /\ live_disposables'[p] \in Int
    BY <1>0 DEF CountInv, BudgetInv, GrantedInPool
  <2>2. CASE /\ live_disposables'[p] = live_disposables[p]
             /\ CountedInPool(r)' /\ PoolOf(r)' = p =>
                   /\ CountedInPool(r) /\ PoolOf(r) = p
                   /\ granted'[r] => granted[r]
    <3>1. PoolOwners(p)' \subseteq PoolOwners(p) /\ GrantedInPool(p)' \subseteq GrantedInPool(p)
      BY <1>3, <2>2 DEF PoolOwners, GrantedInPool
    <3> QED  BY <2>1, <2>2, <3>1, Counted, Budgeted, CapAssumption
  <2>3. CASE /\ live_disposables'[p] = live_disposables[p] + 1
             /\ granted'[r] => live_disposables[p] < MaxDisposables
    <3>1. /\ PoolOwners(p)' \subseteq PoolOwners(p) \cup {r}
          /\ GrantedInPool(p)' \subseteq GrantedInPool(p) \cup {r}
          /\ ~granted'[r] => GrantedInPool(p)' \subseteq GrantedInPool(p)
      BY <1>3 DEF PoolOwners, GrantedInPool
    <3> QED  BY <2>1, <2>3, <3>1, Counted, Budgeted, CapAssumption
  <2>4. CASE /\ live_disposables'[p] = live_disposables[p] - 1
             /\ CountedInPool(r) /\ PoolOf(r) = p /\ ~CountedInPool(r)'
    <3>1. /\ r \in PoolOwners(p) /\ PoolOwners(p)' \subseteq PoolOwners(p) \ {r}
          /\ GrantedInPool(p)' \subseteq GrantedInPool(p)
      BY <1>3, <2>4 DEF PoolOwners, GrantedInPool
    <3> QED  BY <2>1, <2>4, <3>1, Counted, Budgeted, CapAssumption
  <2>5. PoolOf(r) = at[r][1] /\ PoolOf(r)' = at'[r][1]
    BY DEF PoolOf
  <2>6. CASE /\ UNCHANGED live_disposables
             /\ CountedInPool(r)' =>
                   /\ CountedInPool(r) /\ at'[r] = at[r]
                   /\ granted'[r] => granted[r]
    BY <2>2, <2>5, <2>6
  <2>7. CASE /\ live_disposables' = [live_disposables EXCEPT ![PoolOf(r)] = @ + 1]
             /\ at'[r] = at[r]
             /\ granted'[r] => live_disposables[PoolOf(r)] < MaxDisposables
    <3>1. PoolOf(r) = p => live_disposables'[p] = live_disposables[p] + 1
      BY <1>0, <2>7
    <3>2. PoolOf(r) # p => live_disposables'[p] = live_disposables[p]
      BY <1>0, <2>7
    <3> QED  BY <2>2, <2>3, <2>5, <2>7, <3>1, <3>2
  <2>8. CASE /\ live_disposables' = [live_disposables EXCEPT ![PoolOf(r)] = @ - 1]
             /\ CountedInPool(r) /\ ~CountedInPool(r)'
    <3>1. PoolOf(r) = p => live_disposables'[p] = live_disposables[p] - 1
      BY <1>0, <2>8
    <3>2. PoolOf(r) # p => live_disposables'[p] = live_disposables[p]
      BY <1>0, <2>8
    <3> QED  BY <2>2, <2>4, <2>8, <3>1, <3>2
  <2> QED  BY <1>1, <2>6, <2>7, <2>8 DEF PoolEffect
<1> QED  BY <1>2, <1>4, <1>5 DEF CountInv, BudgetInv

\* The revive tasks and the ticks touch neither requests nor counters.
LEMMA TaskFrame ==
    ASSUME NEW e \in Entries, RunTask(e) PROVE UNCHANGED <<reqVars, counterVars>>
  BY DEF RunTask, TaskStart, TaskShutdown, TaskLock, TaskAlready, TaskConnected,
     TaskClear, TaskFails, TaskEnd

LEMMA TickFrame ==
    ASSUME NEW p \in Pools, Tick(p) \/ SupCancel(p) \/ Drain(p)
    PROVE  UNCHANGED <<reqVars, counterVars>>
  BY DEF Tick, SupStart, SupFinish, SupDead, SupSkip, SupIdle, SupRent, SupBusy,
     SupLoad, SupPingOk, SupPingFails, SupCancel, SupRelease, SpawnDead, SpawnRevive,
     SpawnPending, SpawnSkipped, Drain

LEMMA CountNext == TypeInv /\ CountInv /\ BudgetInv /\ [Next]_vars => CountInv' /\ BudgetInv'
<1> SUFFICES ASSUME TypeInv, CountInv, BudgetInv, [Next]_vars
             PROVE  CountInv' /\ BudgetInv'
  OBVIOUS
<1>1. TypeInv'
  BY TypeNext
<1>2. CASE UNCHANGED <<reqVars, counterVars>>
  BY <1>2 DEF reqVars, counterVars, CountInv, BudgetInv, GrantedAt, GrantedGlobally,
     GrantedInPool, GlobalOwners, PoolOwners, CountedGlobally, CountedInPool, PoolOf
<1>3. ASSUME NEW r \in Requests,
             Call(r) \/ CallWs(r) \/ Acquire(r) \/ UseHandle(r) \/ Cancel(r)
      PROVE  CountInv' /\ BudgetInv'
  BY <1>1, <1>3, CountRequest
<1>4. ASSUME NEW e \in Entries, RunTask(e) PROVE UNCHANGED <<reqVars, counterVars>>
  BY <1>4, TaskFrame
<1>5. ASSUME NEW p \in Pools, Tick(p) \/ SupCancel(p) \/ Drain(p)
      PROVE  UNCHANGED <<reqVars, counterVars>>
  BY <1>5, TickFrame
<1> QED  BY <1>2, <1>3, <1>4, <1>5 DEF Next, vars

LEMMA CountInvariant == Spec => [](CountInv /\ BudgetInv)
  BY TypeInit, TypeNext, CountInit, CountNext, PTL DEF Spec

\* Neither DISPOSABLE_COUNTER nor live_disposables of a pool ever falls below the
\* disposables and reservations that are alive: whatever get_connection, the
\* drops of handles and the cancellations of requests interleave, nothing is
\* given back twice.
THEOREM Undercounts == Spec => []NeverUndercounted
<1>1. CountInv => NeverUndercounted
  BY DEF CountInv, NeverUndercounted, GlobalOwners, PoolOwners
<1> QED  BY <1>1, CountInvariant, PTL

\* Phase 2 of get_connection never lets more disposables out than MAX_DISPOSABLE,
\* nor more of one pool than max_disposables, though both budgets are reserved
\* first and checked later.
THEOREM WithinBudget == Spec => []OverflowWithinBudget
<1>1. ASSUME CountInv, BudgetInv PROVE OverflowWithinBudget
  <2> DEFINE Overflow == {r \in Requests : granted[r] /\
                             (pc[r] = "overflowDial" \/ Exchanging(r))}
  <2>1. Overflow \subseteq GrantedGlobally
    BY <1>1 DEF BudgetInv, GrantedAt, GrantedGlobally, GlobalOwners, CountedGlobally,
                Exchanging
  <2>2. \A p \in Pools : {r \in Overflow : PoolOf(r) = p} \subseteq GrantedInPool(p)
    BY <1>1 DEF BudgetInv, GrantedAt, GrantedInPool, PoolOwners, CountedInPool,
                Exchanging
  <2> HIDE DEF Overflow
  <2>3. ASSUME NEW S, NEW T, NEW A, NEW n \in Nat, IsFiniteSet(S), T \subseteq S,
               A \subseteq T, Cardinality(T) <= n
        PROVE  Cardinality(A) <= n
    <3>1. IsFiniteSet(T) /\ IsFiniteSet(A)
      BY <2>3, FS_Subset
    <3>2. /\ Cardinality(T) \in Nat /\ Cardinality(A) \in Nat
          /\ Cardinality(A) <= Cardinality(T)
      BY <2>3, <3>1, FS_Subset, FS_CardinalityType
    <3> QED  BY <2>3, <3>2
  <2>4. Cardinality(Overflow) <= MAX_DISPOSABLE
    BY <1>1, <2>1, <2>3, CapAssumption DEF CountInv, BudgetInv, GrantedGlobally
  <2>5. ASSUME NEW p \in Pools
        PROVE  Cardinality({r \in Overflow : PoolOf(r) = p}) <= MaxDisposables
    BY <1>1, <2>2, <2>3, CapAssumption DEF CountInv, BudgetInv, GrantedInPool
  <2> QED  BY <2>4, <2>5 DEF OverflowWithinBudget, Overflow
<1> QED  BY <1>1, CountInvariant, PTL

-----------------------------------------------------------------------------
(* Without clients that disconnect.                                        *)

\* Each owner counted once.
LEMMA CountedOnce ==
    ASSUME NEW S, NEW T, NEW r, NEW c \in Int, NEW d \in Int,
           IsFiniteSet(S), c = Cardinality(S),
           \/ T = S /\ d = c
           \/ r \notin S /\ T = S \cup {r} /\ d = c + 1
           \/ r \in S /\ T = S \ {r} /\ d = c - 1
    PROVE  d = Cardinality(T)
<1>1. CASE T = S /\ d = c
  BY <1>1
<1>2. CASE r \notin S /\ T = S \cup {r} /\ d = c + 1
  BY <1>2, FS_AddElement
<1>3. CASE r \in S /\ T = S \ {r} /\ d = c - 1
  BY <1>3, FS_RemoveElement
<1> QED  BY <1>1, <1>2, <1>3

\* A step of a request whose client stays.
LEMMA MatchRequest ==
    ASSUME TypeInv, TypeInv', CountInv, BudgetInv, MatchingDec, ~ClientsDisconnect,
           NEW r \in Requests,
           Call(r) \/ CallWs(r) \/ Acquire(r) \/ UseHandle(r) \/ Cancel(r)
    PROVE  MatchingDec'
<1>0. /\ DISPOSABLE_COUNTER \in Int /\ DISPOSABLE_COUNTER' \in Int
      /\ live_disposables \in [Pools -> Int] /\ live_disposables' \in [Pools -> Int]
      /\ at[r][1] \in Pools /\ TypeOK
  BY DEF TypeInv, TypeOK, Entries
<1>1. OthersStay(r) /\ GlobalEffect(r) /\ PoolEffect(r)
  BY <1>0, CounterEffect DEF BudgetInv
<1>2. \A q \in Requests : q # r =>
         /\ CountedGlobally(q)' <=> CountedGlobally(q)
         /\ CountedInPool(q)' <=> CountedInPool(q)
         /\ PoolOf(q)' = PoolOf(q)
  BY <1>1 DEF OthersStay, CountedGlobally, CountedInPool, PoolOf
<1>3. DISPOSABLE_COUNTER' = Cardinality(GlobalOwners')
  <2>1. IsFiniteSet(GlobalOwners) /\ DISPOSABLE_COUNTER = Cardinality(GlobalOwners)
    BY DEF CountInv, MatchingDec, GlobalOwners
  <2>2. CASE /\ UNCHANGED DISPOSABLE_COUNTER
             /\ CountedGlobally(r)' <=> CountedGlobally(r)
    <3>1. GlobalOwners' = GlobalOwners
      BY <1>2, <2>2 DEF GlobalOwners
    <3> QED  BY <2>1, <2>2, <3>1
  <2>3. CASE /\ DISPOSABLE_COUNTER' = DISPOSABLE_COUNTER + 1
             /\ ~CountedGlobally(r) /\ CountedGlobally(r)'
    <3>1. r \notin GlobalOwners /\ GlobalOwners' = GlobalOwners \cup {r}
      BY <1>2, <2>3 DEF GlobalOwners
    <3> QED  BY <1>0, <2>1, <2>3, <3>1, CountedOnce
  <2>4. CASE /\ DISPOSABLE_COUNTER' = DISPOSABLE_COUNTER - 1
             /\ CountedGlobally(r) /\ ~CountedGlobally(r)'
    <3>1. r \in GlobalOwners /\ GlobalOwners' = GlobalOwners \ {r}
      BY <1>2, <2>4 DEF GlobalOwners
    <3> QED  BY <1>0, <2>1, <2>4, <3>1, CountedOnce
  <2> QED  BY <1>1, <2>2, <2>3, <2>4 DEF GlobalEffect
<1>4. ASSUME NEW p \in Pools PROVE live_disposables'[p] = Cardinality(PoolOwners(p)')
  <2>1. /\ IsFiniteSet(PoolOwners(p)) /\ live_disposables[p] = Cardinality(PoolOwners(p))
        /\ live_disposables[p] \in Int /\ live_disposables'[p] \in Int
    BY <1>0 DEF CountInv, MatchingDec, PoolOwners
  <2>2. PoolOf(r) = at[r][1] /\ PoolOf(r)' = at'[r][1]
    BY DEF PoolOf
  <2>3. CASE /\ live_disposables'[p] = live_disposables[p]
             /\ CountedInPool(r)' /\ PoolOf(r)' = p <=> CountedInPool(r) /\ PoolOf(r) = p
    <3>1. PoolOwners(p)' = PoolOwners(p)
      BY <1>2, <2>3 DEF PoolOwners
    <3> QED  BY <2>1, <2>3, <3>1
  <2>4. CASE /\ live_disposables' = [live_disposables EXCEPT ![PoolOf(r)] = @ + 1]
             /\ at'[r] = at[r] /\ ~CountedInPool(r) /\ CountedInPool(r)'
    <3>1. CASE PoolOf(r) = p
      <4>1. live_disposables'[p] = live_disposables[p] + 1
        BY <1>0, <2>4, <3>1
      <4>2. r \notin PoolOwners(p) /\ PoolOwners(p)' = PoolOwners(p) \cup {r}
        BY <1>2, <2>2, <2>4, <3>1 DEF PoolOwners
      <4> QED  BY <2>1, <4>1, <4>2, CountedOnce
    <3>2. CASE PoolOf(r) # p
      <4>1. live_disposables'[p] = live_disposables[p]
        BY <1>0, <2>4, <3>2
      <4> QED  BY <2>2, <2>3, <2>4, <3>2, <4>1
    <3> QED  BY <3>1, <3>2
  <2>5. CASE /\ live_disposables' = [live_disposables EXCEPT ![PoolOf(r)] = @ - 1]
             /\ CountedInPool(r) /\ ~CountedInPool(r)'
    <3>1. CASE PoolOf(r) = p
      <4>1. live_disposables'[p] = live_disposables[p] - 1
        BY <1>0, <2>5, <3>1
      <4>2. r \in PoolOwners(p) /\ PoolOwners(p)' = PoolOwners(p) \ {r}
        BY <1>2, <2>5, <3>1 DEF PoolOwners
      <4> QED  BY <2>1, <4>1, <4>2, CountedOnce
    <3>2. CASE PoolOf(r) # p
      <4>1. live_disposables'[p] = live_disposables[p]
        BY <1>0, <2>5, <3>2
      <4> QED  BY <2>3, <2>5, <3>2, <4>1
    <3> QED  BY <3>1, <3>2
  <2>6. CASE /\ UNCHANGED live_disposables
             /\ CountedInPool(r)' <=> CountedInPool(r)
             /\ CountedInPool(r)' => at'[r] = at[r]
    BY <2>2, <2>3, <2>6
  <2> QED  BY <1>1, <2>4, <2>5, <2>6 DEF PoolEffect
<1> QED  BY <1>3, <1>4 DEF MatchingDec, GlobalOwners, PoolOwners

LEMMA MatchNext ==
    ASSUME ~ClientsDisconnect
    PROVE  TypeInv /\ CountInv /\ BudgetInv /\ MatchingDec /\ [Next]_vars => MatchingDec'
<1> SUFFICES ASSUME TypeInv, CountInv, BudgetInv, MatchingDec, [Next]_vars
             PROVE  MatchingDec'
  OBVIOUS
<1>1. TypeInv'
  BY TypeNext
<1>2. CASE UNCHANGED <<reqVars, counterVars>>
  BY <1>2 DEF reqVars, counterVars, MatchingDec, CountedGlobally, CountedInPool, PoolOf
<1>3. ASSUME NEW r \in Requests,
             Call(r) \/ CallWs(r) \/ Acquire(r) \/ UseHandle(r) \/ Cancel(r)
      PROVE  MatchingDec'
  BY <1>1, <1>3, MatchRequest
<1>4. ASSUME NEW e \in Entries, RunTask(e) PROVE UNCHANGED <<reqVars, counterVars>>
  BY <1>4, TaskFrame
<1>5. ASSUME NEW p \in Pools, Tick(p) \/ SupCancel(p) \/ Drain(p)
      PROVE  UNCHANGED <<reqVars, counterVars>>
  BY <1>5, TickFrame
<1> QED  BY <1>2, <1>3, <1>4, <1>5 DEF Next, vars

\* As long as clients stay until they are answered, the documentation is right:
\* every inc has its dec, and both counters equal what is alive.  The leak of
\* get_connection's reservations is the disconnect in the middle of a dial.
THEOREM MatchedWhileClientsStay ==
    ASSUME ~ClientsDisconnect PROVE Spec => []MatchingDec
<1>1. Init => MatchingDec
  <2> SUFFICES ASSUME Init PROVE MatchingDec
    OBVIOUS
  <2>1. GlobalOwners = {} /\ \A p \in Pools : PoolOwners(p) = {}
    BY DEF Init, GlobalOwners, PoolOwners, CountedGlobally, CountedInPool
  <2>2. DISPOSABLE_COUNTER = 0 /\ \A p \in Pools : live_disposables[p] = 0
    BY DEF Init
  <2> QED  BY <2>1, <2>2, FS_EmptySet DEF MatchingDec, GlobalOwners, PoolOwners
<1>2. TypeInv /\ CountInv /\ BudgetInv /\ MatchingDec /\ [Next]_vars => MatchingDec'
  BY MatchNext
<1> QED  BY <1>1, <1>2, TypeInit, TypeNext, CountInvariant, PTL DEF Spec

\* What a step of request r, whose client stays, does to the rented flags: it
\* keeps its entry, rents one, or gives its entry back.
RentEffect(r) ==
    \/ UNCHANGED rented /\ (Renting(r) => Renting(r)' /\ at'[r] = at[r])
    \/ /\ ~Renting(r) /\ Renting(r)'
       /\ rented' = [rented EXCEPT ![at'[r]] = TRUE]
    \/ Renting(r) /\ rented' = [rented EXCEPT ![at[r]] = FALSE]

LEMMA RequestRents ==
    ASSUME TypeOK, ~ClientsDisconnect, NEW r \in Requests,
           Call(r) \/ CallWs(r) \/ Acquire(r) \/ UseHandle(r) \/ Cancel(r)
    PROVE  RentEffect(r) /\ UNCHANGED supVars
<1>0. /\ pc \in [Requests -> RequestPC] /\ kind \in [Requests -> Kinds]
      /\ at \in [Requests -> Entries]
  BY DEF TypeOK
<1> USE <1>0 DEF RentEffect, Renting, entryVars, reqVars
<1>1. CASE Call(r)
  BY <1>1 DEF Call, Goto
<1>2. CASE CallWs(r)
  BY <1>2 DEF CallWs, Goto
<1>3. CASE Disposed(r)
  BY <1>3 DEF Disposed, Finish
<1>4. CASE Grow(r)
  BY <1>4 DEF Grow, Goto
<1>5. CASE GrowConnected(r)
  BY <1>5 DEF GrowConnected, Goto
<1>6. CASE DialFails(r)
  BY <1>6 DEF DialFails, Finish
<1>7. CASE Push(r)
  BY <1>7 DEF Push, Handle
<1>8. CASE PushLost(r)
  BY <1>8 DEF PushLost, Goto
<1>9. CASE LostGlobal(r)
  BY <1>9 DEF LostGlobal, Goto
<1>10. CASE LostPool(r)
  BY <1>10 DEF LostPool, Handle
<1>11. CASE StartScan(r)
  BY <1>11 DEF StartScan, Goto
<1>12. CASE TryRent(r)
  BY <1>12 DEF TryRent, Goto
<1>13. CASE RentBusy(r)
  BY <1>13 DEF RentBusy, Goto
<1>14. CASE CheckDead(r)
  BY <1>14 DEF CheckDead, Goto
<1>15. CASE LoadClient(r)
  BY <1>15 DEF LoadClient, Handle
<1>16. CASE ReviveLock(r)
  BY <1>16 DEF ReviveLock, Goto
<1>17. CASE ReviveAlready(r)
  BY <1>17 DEF ReviveAlready, Goto
<1>18. CASE ReviveConnected(r)
  BY <1>18 DEF ReviveConnected, Goto
<1>19. CASE ReviveClear(r)
  BY <1>19 DEF ReviveClear, Goto
<1>20. CASE ReviveFails(r)
  BY <1>20 DEF ReviveFails, Goto
<1>21. CASE Unrent(r)
  BY <1>21 DEF Unrent, Finish
<1>22. CASE ReserveGlobal(r)
  BY <1>22 DEF ReserveGlobal, Goto
<1>23. CASE ReservePool(r)
  BY <1>23 DEF ReservePool, Goto
<1>24. CASE OverflowConnected(r)
  BY <1>24 DEF OverflowConnected, Handle
<1>25. CASE OverflowFails(r)
  BY <1>25 DEF OverflowFails, Goto
<1>26. CASE UndoGlobal(r)
  BY <1>26 DEF UndoGlobal, Goto
<1>27. CASE UndoPoolErr(r)
  BY <1>27 DEF UndoPoolErr, Finish
<1>28. CASE UndoPoolRetry(r)
  BY <1>28 DEF UndoPoolRetry, Goto
<1>29. CASE SleepEnds(r)
  BY <1>29 DEF SleepEnds, Goto
<1>30. CASE WsConnected(r)
  BY <1>30 DEF WsConnected, Handle
<1>31. CASE RequestOk(r)
  BY <1>31 DEF RequestOk, Goto
<1>32. CASE RequestErr(r)
  BY <1>32 DEF RequestErr, Goto
<1>33. CASE BodyEnds(r)
  BY <1>33 DEF BodyEnds, Goto
<1>34. CASE DropReusable(r)
  BY <1>34 DEF DropReusable, Finish
<1>35. CASE DropWs(r)
  BY <1>35 DEF DropWs, Finish
<1>36. CASE DropGlobal(r)
  BY <1>36 DEF DropGlobal, Goto
<1>37. CASE DropPool(r)
  BY <1>37 DEF DropPool, Finish
<1> QED
  BY <1>1, <1>2, <1>3, <1>4, <1>5, <1>6, <1>7, <1>8, <1>9, <1>10, <1>11,
     <1>12, <1>13, <1>14, <1>15, <1>16, <1>17, <1>18, <1>19, <1>20, <1>21,
     <1>22, <1>23, <1>24, <1>25, <1>26, <1>27, <1>28, <1>29, <1>30, <1>31,
     <1>32, <1>33, <1>34, <1>35, <1>36, <1>37
     DEF Acquire, UseHandle, Cancel, CancelAcquire, CancelRequest

\* The same of a tick, whose RentGuard works when the timer drops the tick.
ProbeEffect(p) ==
    \/ UNCHANGED rented /\ (Probing(p) => Probing(p)' /\ SupEntry(p)' = SupEntry(p))
    \/ /\ ~Probing(p) /\ Probing(p)'
       /\ rented' = [rented EXCEPT ![SupEntry(p)'] = TRUE]
    \/ Probing(p) /\ rented' = [rented EXCEPT ![SupEntry(p)] = FALSE]

LEMMA TickRents ==
    ASSUME TypeOK, NEW p \in Pools, Tick(p) \/ SupCancel(p) \/ Drain(p)
    PROVE  /\ ProbeEffect(p) /\ UNCHANGED reqVars
           /\ \A q \in Pools : q # p => /\ Probing(q)' <=> Probing(q)
                                        /\ SupEntry(q)' = SupEntry(q)
<1>0. sup \in [Pools -> SupPC] /\ supAt \in [Pools -> Nat \ {0}]
  BY DEF TypeOK
<1> USE <1>0 DEF ProbeEffect, Probing, SupEntry, SupGoto, SupEnd, SupNext, entryVars, supVars
<1>1. CASE SupStart(p)
  BY <1>1 DEF SupStart
<1>2. CASE SupFinish(p)
  BY <1>2 DEF SupFinish
<1>3. CASE SupDead(p)
  BY <1>3 DEF SupDead
<1>4. CASE SupSkip(p)
  BY <1>4 DEF SupSkip
<1>5. CASE SupIdle(p)
  BY <1>5 DEF SupIdle
<1>6. CASE SupRent(p)
  BY <1>6 DEF SupRent
<1>7. CASE SupBusy(p)
  BY <1>7 DEF SupBusy
<1>8. CASE SupLoad(p)
  BY <1>8 DEF SupLoad
<1>9. CASE SupPingOk(p)
  BY <1>9 DEF SupPingOk
<1>10. CASE SupPingFails(p)
  BY <1>10 DEF SupPingFails
<1>11. CASE SupRelease(p)
  BY <1>11 DEF SupRelease
<1>12. CASE SpawnSkipped(p)
  BY <1>12 DEF SpawnSkipped
<1>13. CASE SpawnDead(p)
  BY <1>13 DEF SpawnDead
<1>14. CASE SpawnRevive(p)
  BY <1>14 DEF SpawnRevive
<1>15. CASE SpawnPending(p)
  BY <1>15 DEF SpawnPending
<1>16. CASE SupCancel(p)
  BY <1>16 DEF SupCancel
<1>17. CASE Drain(p)
  BY <1>17 DEF Drain
<1> QED
  BY <1>1, <1>2, <1>3, <1>4, <1>5, <1>6, <1>7, <1>8, <1>9, <1>10, <1>11,
     <1>12, <1>13, <1>14, <1>15, <1>16, <1>17 DEF Tick

LEMMA InFlightNext ==
    ASSUME ~ClientsDisconnect
    PROVE  TypeInv /\ CountInv /\ BudgetInv /\ RentedInFlight /\ [Next]_vars => RentedInFlight'
<1> SUFFICES ASSUME TypeInv, CountInv, BudgetInv, RentedInFlight, [Next]_vars,
                    NEW e \in Entries, rented'[e]
             PROVE  \/ \E r \in Requests : Renting(r)' /\ at'[r] = e
                    \/ \E p \in Pools : Probing(p)' /\ SupEntry(p)' = e
  BY DEF RentedInFlight
<1> DEFINE Owned == \/ \E r \in Requests : Renting(r) /\ at[r] = e
                    \/ \E p \in Pools : Probing(p) /\ SupEntry(p) = e
           Goal == \/ \E r \in Requests : Renting(r)' /\ at'[r] = e
                   \/ \E p \in Pools : Probing(p)' /\ SupEntry(p)' = e
<1> SUFFICES Goal
  OBVIOUS
<1>0. rented \in [Entries -> BOOLEAN] /\ TypeOK /\ (rented[e] => Owned)
  BY DEF TypeInv, TypeOK, RentedInFlight
<1>1. CASE UNCHANGED <<reqVars, supVars, rented>>
  BY <1>0, <1>1 DEF reqVars, supVars, Renting, Probing, SupEntry
<1>2. ASSUME NEW r \in Requests,
             Call(r) \/ CallWs(r) \/ Acquire(r) \/ UseHandle(r) \/ Cancel(r)
      PROVE  Goal
  <2>1. RentEffect(r) /\ OthersStay(r)
    BY <1>0, <1>2, RequestRents, CounterEffect DEF BudgetInv
  <2>2. \A p \in Pools : (Probing(p)' <=> Probing(p)) /\ SupEntry(p)' = SupEntry(p)
    BY <1>0, <1>2, RequestRents DEF Probing, SupEntry, supVars
  <2>3. \A q \in Requests : q # r => (Renting(q)' <=> Renting(q)) /\ at'[q] = at[q]
    BY <2>1 DEF OthersStay, Renting
  <2>4. CASE UNCHANGED rented /\ (Renting(r) => Renting(r)' /\ at'[r] = at[r])
    BY <1>0, <2>2, <2>3, <2>4
  <2>5. CASE /\ ~Renting(r) /\ Renting(r)'
             /\ rented' = [rented EXCEPT ![at'[r]] = TRUE]
    <3>1. CASE at'[r] = e
      BY <2>5, <3>1
    <3>2. CASE at'[r] # e
      <4>1. rented[e]
        BY <1>0, <2>5, <3>2
      <4> QED  BY <1>0, <2>2, <2>3, <2>5, <4>1
    <3> QED  BY <3>1, <3>2
  <2>6. CASE Renting(r) /\ rented' = [rented EXCEPT ![at[r]] = FALSE]
    <3>1. at[r] # e /\ rented[e]
      BY <1>0, <2>6
    <3> QED  BY <1>0, <2>2, <2>3, <3>1
  <2> QED  BY <2>1, <2>4, <2>5, <2>6 DEF RentEffect
<1>3. ASSUME NEW f \in Entries, RunTask(f) PROVE UNCHANGED <<reqVars, supVars, rented>>
  BY <1>3 DEF RunTask, TaskStart, TaskShutdown, TaskLock, TaskAlready, TaskConnected,
     TaskClear, TaskFails, TaskEnd, entryVars
<1>4. ASSUME NEW p \in Pools, Tick(p) \/ SupCancel(p) \/ Drain(p) PROVE Goal
  <2>1. /\ ProbeEffect(p)
        /\ \A q \in Pools : q # p => /\ Probing(q)' <=> Probing(q)
                                     /\ SupEntry(q)' = SupEntry(q)
    BY <1>0, <1>4, TickRents
  <2>2. \A q \in Requests : (Renting(q)' <=> Renting(q)) /\ at'[q] = at[q]
    BY <1>0, <1>4, TickRents DEF Renting, reqVars
  <2>3. CASE UNCHANGED rented /\ (Probing(p) => Probing(p)' /\ SupEntry(p)' = SupEntry(p))
    BY <1>0, <2>1, <2>2, <2>3
  <2>4. CASE /\ ~Probing(p) /\ Probing(p)'
             /\ rented' = [rented EXCEPT ![SupEntry(p)'] = TRUE]
    <3>1. CASE SupEntry(p)' = e
      BY <2>4, <3>1
    <3>2. CASE SupEntry(p)' # e
      <4>1. rented[e]
        BY <1>0, <2>4, <3>2
      <4> QED  BY <1>0, <2>1, <2>2, <2>4, <4>1
    <3> QED  BY <3>1, <3>2
  <2>5. CASE Probing(p) /\ rented' = [rented EXCEPT ![SupEntry(p)] = FALSE]
    <3>1. SupEntry(p) # e /\ rented[e]
      BY <1>0, <2>5
    <3> QED  BY <1>0, <2>1, <2>2, <3>1
  <2> QED  BY <2>1, <2>3, <2>4, <2>5 DEF ProbeEffect
<1> QED
  BY <1>1, <1>2, <1>3, <1>4 DEF Next, vars, entryVars

\* As long as clients stay until they are answered, a rented entry is in the
\* hands of a request or of a probe, also when the timer drops the tick in the
\* middle of it: no way through get_connection, Path B or the handle's Drop
\* leaves an entry rented for good.
THEOREM RentsReturnWhileClientsStay ==
    ASSUME ~ClientsDisconnect PROVE Spec => []RentedInFlight
<1>1. Init => RentedInFlight
  BY DEF Init, RentedInFlight
<1>2. TypeInv /\ CountInv /\ BudgetInv /\ RentedInFlight /\ [Next]_vars => RentedInFlight'
  BY InFlightNext
<1> QED  BY <1>1, <1>2, TypeInit, TypeNext, CountInvariant, PTL DEF Spec
=============================================================================
