------------------------------- MODULE H2Pool -------------------------------
(***************************************************************************)
(* One H2Pool with the requests that go through it (execute_pooled_h2 and *)
(* get_connection), the background revive of each entry, the top-up task  *)
(* and the supervisor tick.  H2 entries are shared: any number of         *)
(* requests multiplex on one connection, so nothing is rented; what is at *)
(* stake is who may declare an entry dead, who may replace its            *)
(* connection, and that an entry comes back.                              *)
(*                                                                         *)
(* The actors are the requests, the tick, and one revive task per entry   *)
(* (named by the entry).  revive_pending of entry e is set exactly while  *)
(* pc[e] # "none", top_up_pending exactly while topup # "none": both      *)
(* guards are made before the spawn and dropped when the task ends.       *)
(* Time is left out: a timeout or the end of a cooldown may come at any   *)
(* moment.  An entry that lost the growth race ("one-shot") is entry 0.   *)
(***************************************************************************)
EXTENDS Naturals

CONSTANTS
    Requests,       \* requests through the pool
    Sup,            \* the supervisor tick
    PoolSize        \* params.pool_size

ASSUME PoolAssumption ==
    /\ PoolSize \in Nat \ {0}
    /\ Sup \notin Requests

Entries == 1..PoolSize
Actors == Requests \cup Entries \cup {Sup}

ASSUME ActorsAssumption == (Requests \cup {Sup}) \cap Entries = {}

VARIABLES
    len,        \* clients.len(): entries 1..len are in the pool
    dead,       \* its dead flag
    cooling,    \* last_revive_attempt is less than revive_cooldown ago
    down,       \* the transport of its connection is down (is_alive is false)
    shutdown,
    pc,         \* where each actor is
    at,         \* the entry it works on (0: a one-shot)
    left,       \* scan, tick: entries still to visit after `at`
    held,       \* request: the connection of its attempt ("none", or "current"
                \* while it is still its entry's, then "replaced")
    tries,      \* request: attempts left, this one included
    topup       \* the top-up task

entryVars == <<dead, cooling, down>>
poolVars  == <<len, shutdown>>
actorVars == <<pc, at, left, held, tries>>
vars == <<entryVars, poolVars, actorVars, topup>>

Init ==
    /\ len = 0
    /\ dead = [e \in Entries |-> FALSE]
    /\ cooling = [e \in Entries |-> FALSE]
    /\ down = [e \in Entries |-> FALSE]
    /\ shutdown = FALSE
    /\ pc = [a \in Actors |-> IF a \in Entries THEN "none" ELSE "idle"]
    /\ at = [a \in Actors |-> IF a \in Entries THEN a ELSE 0]
    /\ left = [a \in Actors |-> 0]
    /\ held = [r \in Requests |-> "none"]
    /\ tries = [r \in Requests |-> 0]
    /\ topup = "none"

Goto(a, l) == pc' = [pc EXCEPT ![a] = l]

\* The entry after e in the scan order of a full pool.
After(e) == IF e = PoolSize THEN 1 ELSE e + 1

\* revive_lock of entry e
ReviveLockFree(e) ==
    \A a \in Requests \cup Entries :
        at[a] = e => pc[a] \notin {"locked", "dial", "stored"}

-----------------------------------------------------------------------------
(* execute_pooled_h2.                                                      *)

\* max_attempts: two for an idempotent method, one for any other.
Call(r) ==
    /\ pc[r] = "idle"
    /\ \E max_attempts \in {1, 2} : tries' = [tries EXCEPT ![r] = max_attempts]
    /\ Goto(r, "get")
    /\ UNCHANGED <<entryVars, poolVars, at, left, held, topup>>

\* One more turn of the attempt loop, or the last error is returned.
\* (f is pc with what the step does to others.)
Attempt(r, f) ==
    /\ tries' = [tries EXCEPT ![r] = @ - 1]
    /\ held' = [held EXCEPT ![r] = "none"]
    /\ at' = [at EXCEPT ![r] = 0]
    /\ pc' = [f EXCEPT ![r] = IF tries[r] > 1 THEN "get" ELSE "idle"]
    /\ UNCHANGED left

\* The request is answered, one way or the other.
Finish(r) ==
    /\ Goto(r, "idle")
    /\ tries' = [tries EXCEPT ![r] = 0]
    /\ held' = [held EXCEPT ![r] = "none"]
    /\ at' = [at EXCEPT ![r] = 0]
    /\ left' = [left EXCEPT ![r] = 0]

\* get_connection: the snapshot decides between growing and picking.
GetGrow(r) ==
    /\ pc[r] = "get"
    /\ len < PoolSize
    /\ Goto(r, "grow")
    /\ UNCHANGED <<entryVars, poolVars, at, left, held, tries, topup>>

\* (The round-robin counter is moved by all the pool's traffic, so the scan may
\* start anywhere.)
GetScan(r) ==
    /\ pc[r] = "get"
    /\ len = PoolSize
    /\ \E start \in Entries : at' = [at EXCEPT ![r] = start]
    /\ left' = [left EXCEPT ![r] = len - 1]
    /\ Goto(r, "scan")
    /\ UNCHANGED <<entryVars, poolVars, held, tries, topup>>

\* Path 0: the dial, then try_push.
GrowDials(r) ==
    /\ pc[r] = "grow"
    /\ Goto(r, "push")
    /\ UNCHANGED <<entryVars, poolVars, at, left, held, tries, topup>>

\* Err from get_connection ends the attempt loop.
GrowFails(r) ==
    /\ pc[r] = "grow"
    /\ Finish(r)
    /\ UNCHANGED <<entryVars, poolVars, topup>>

\* try_push under grow_lock succeeds: a new entry with this connection.
TryPush ==
    /\ ~shutdown
    /\ len < PoolSize
    /\ len' = len + 1
    /\ dead' = [dead EXCEPT ![len + 1] = FALSE]
    /\ cooling' = [cooling EXCEPT ![len + 1] = FALSE]
    /\ down' = [down EXCEPT ![len + 1] = FALSE]

Push(r) ==
    /\ pc[r] = "push"
    /\ TryPush
    /\ at' = [at EXCEPT ![r] = len + 1]
    /\ Goto(r, "got")
    /\ UNCHANGED <<shutdown, left, held, tries, topup>>

\* try_push refused: the entry serves this request and is dropped.
OneShot(r) ==
    /\ pc[r] = "push"
    /\ shutdown \/ len >= PoolSize
    /\ at' = [at EXCEPT ![r] = 0]
    /\ Goto(r, "got")
    /\ UNCHANGED <<entryVars, poolVars, left, held, tries, topup>>

\* Path A, entry by entry: the dead flag, then the transport.
ScanLive(r) ==
    /\ pc[r] = "scan"
    /\ ~dead[at[r]]
    /\ Goto(r, "alive")
    /\ UNCHANGED <<entryVars, poolVars, at, left, held, tries, topup>>

ScanDead(r) ==
    /\ pc[r] = "scan"
    /\ dead[at[r]]
    /\ Goto(r, "spawn")
    /\ UNCHANGED <<entryVars, poolVars, at, left, held, tries, topup>>

ScanPick(r) ==
    /\ pc[r] = "alive"
    /\ ~down[at[r]]
    /\ Goto(r, "got")
    /\ UNCHANGED <<entryVars, poolVars, at, left, held, tries, topup>>

ScanBroken(r) ==
    /\ pc[r] = "alive"
    /\ down[at[r]]
    /\ Goto(r, "mark")
    /\ UNCHANGED <<entryVars, poolVars, at, left, held, tries, topup>>

\* The next entry of the scan, or, round the circle, Path B on the first one.
ScanNext(r, f) ==
    /\ at' = [at EXCEPT ![r] = After(@)]
    /\ left' = [left EXCEPT ![r] = IF @ > 0 THEN @ - 1 ELSE 0]
    /\ pc' = [f EXCEPT ![r] = IF left[r] > 0 THEN "scan" ELSE "lock"]
    /\ UNCHANGED <<held, tries>>

\* Path B: the wait for revive_lock ran into dead_pool_wait_budget.
LockTimesOut(r) ==
    /\ pc[r] = "lock"
    /\ Goto(r, "rescan")
    /\ left' = [left EXCEPT ![r] = PoolSize - 1]
    /\ UNCHANGED <<entryVars, poolVars, at, held, tries, topup>>

\* After a failed revive: take any entry that lives again, else give up.
Rescan(r) ==
    /\ pc[r] = "rescan"
    /\ \/ /\ ~dead[at[r]]
          /\ Goto(r, "got")
          /\ UNCHANGED <<at, left, held, tries>>
       \/ /\ dead[at[r]]
          /\ left[r] > 0
          /\ at' = [at EXCEPT ![r] = After(@)]
          /\ left' = [left EXCEPT ![r] = @ - 1]
          /\ UNCHANGED <<pc, held, tries>>
       \/ /\ dead[at[r]]
          /\ left[r] = 0
          /\ Finish(r)
    /\ UNCHANGED <<entryVars, poolVars, topup>>

\* entry.client.load_full(), and the request goes out on it.
Send(r) ==
    /\ pc[r] = "got"
    /\ held' = [held EXCEPT ![r] = "current"]
    /\ left' = [left EXCEPT ![r] = 0]
    /\ Goto(r, "sent")
    /\ UNCHANGED <<entryVars, poolVars, at, tries, topup>>

\* A response, or an error that is not the connection's fault.
Answered(r) ==
    /\ pc[r] = "sent"
    /\ Finish(r)
    /\ UNCHANGED <<entryVars, poolVars, topup>>

\* A connection-level error.
ConnectionFails(r) ==
    /\ pc[r] = "sent"
    /\ Goto(r, "failed")
    /\ UNCHANGED <<entryVars, poolVars, at, left, held, tries, topup>>

\* Arc::ptr_eq: the failed connection is still the entry's.
IsCurrent(r) ==
    /\ pc[r] = "failed"
    /\ at[r] # 0
    /\ held[r] = "current"
    /\ Goto(r, "mark")
    /\ UNCHANGED <<entryVars, poolVars, at, left, held, tries, topup>>

\* It is not.  (A one-shot is marked, but spawn_revive does not find it in the
\* pool and nobody else can reach it.)
IsReplaced(r) ==
    /\ pc[r] = "failed"
    /\ at[r] = 0 \/ held[r] = "replaced"
    /\ Attempt(r, pc)
    /\ UNCHANGED <<entryVars, poolVars, topup>>

\* The service future is dropped at an await: the client went away.
Cancel(r) ==
    /\ pc[r] \in {"grow", "lock", "dial", "sent"}
    /\ Finish(r)
    /\ UNCHANGED <<entryVars, poolVars, topup>>

-----------------------------------------------------------------------------
(* Marking an entry dead and spawn_revive, by a scan, a failed request or  *)
(* the tick.                                                               *)

\* The tick moves on to the next entry of its snapshot, or ends.
TickNext(f) ==
    /\ at' = [at EXCEPT ![Sup] = IF left[Sup] > 0 THEN @ + 1 ELSE 0]
    /\ left' = [left EXCEPT ![Sup] = IF @ > 0 THEN @ - 1 ELSE 0]
    /\ pc' = [f EXCEPT ![Sup] = IF left[Sup] > 0 THEN "entry" ELSE "idle"]
    /\ UNCHANGED <<held, tries>>

\* spawn_revive has returned to its caller.
Spawned(a, f) ==
    \/ a = Sup /\ TickNext(f)
    \/ a \in Requests /\ held[a] = "none" /\ ScanNext(a, f)
    \/ a \in Requests /\ held[a] # "none" /\ Attempt(a, f)

MarkDead(a) ==
    /\ pc[a] = "mark"
    /\ dead' = [dead EXCEPT ![at[a]] = TRUE]
    /\ Goto(a, "spawn")
    /\ UNCHANGED <<cooling, down, poolVars, at, left, held, tries, topup>>

\* The looks before the compare_exchange: shutdown, dead, in the pool, cooldown.
WorthReviving(e) == ~shutdown /\ dead[e] /\ e <= len /\ ~cooling[e]

SpawnChecks(a) ==
    /\ pc[a] = "spawn"
    /\ WorthReviving(at[a])
    /\ Goto(a, "cas")
    /\ UNCHANGED <<entryVars, poolVars, at, left, held, tries, topup>>

SpawnSkips(a) ==
    /\ pc[a] = "spawn"
    /\ ~WorthReviving(at[a])
    /\ Spawned(a, pc)
    /\ UNCHANGED <<entryVars, poolVars, topup>>

\* compare_exchange on revive_pending fails: a task is in flight.
SpawnPending(a) ==
    /\ pc[a] = "cas"
    /\ pc[at[a]] # "none"
    /\ Spawned(a, pc)
    /\ UNCHANGED <<entryVars, poolVars, topup>>

\* It succeeds, and the task is spawned.
SpawnTask(a) ==
    /\ pc[a] = "cas"
    /\ pc[at[a]] = "none"
    /\ Spawned(a, [pc EXCEPT ![at[a]] = "start"])
    /\ UNCHANGED <<entryVars, poolVars, topup>>

-----------------------------------------------------------------------------
(* Reviving: the task of an entry (named e) and the requests of Path B.    *)

TaskStart(e) ==
    /\ pc[e] = "start"
    /\ Goto(e, IF shutdown THEN "none" ELSE "lock")
    /\ UNCHANGED <<entryVars, poolVars, at, left, held, tries, topup>>

\* revive_lock is acquired: by a task, or by a request in time.
LockRevive(a) ==
    /\ pc[a] = "lock"
    /\ ReviveLockFree(at[a])
    /\ Goto(a, "locked")
    /\ UNCHANGED <<entryVars, poolVars, at, left, held, tries, topup>>

\* revive_under_lock returns Ok or Err, and the lock is released.
Revived(a) == Goto(a, IF a \in Requests THEN "got" ELSE "none") /\ UNCHANGED left
NotRevived(a) ==
    /\ Goto(a, IF a \in Requests THEN "rescan" ELSE "none")
    /\ left' = [left EXCEPT ![a] = IF a \in Requests THEN PoolSize - 1 ELSE @]

\* The connection of entry e is another one: whoever still uses the old one has
\* a replaced one.
Replace(e) ==
    held' = [r \in Requests |->
                IF at[r] = e /\ held[r] = "current" THEN "replaced" ELSE held[r]]

\* A bug: an entry that was revived meanwhile gets one more connection.
ReviveAgain(a) ==
    /\ pc[a] = "locked"
    /\ ~dead[at[a]]
    /\ Replace(at[a])
    /\ Revived(a)
    /\ UNCHANGED <<entryVars, poolVars, at, tries, topup>>

\* A parallel caller already revived the entry.
ReviveAlready(a) ==
    /\ pc[a] = "locked"
    /\ ~dead[at[a]]
    /\ Revived(a)
    /\ UNCHANGED <<entryVars, poolVars, at, held, tries, topup>>

ReviveCoolingDown(a) ==
    /\ pc[a] = "locked"
    /\ dead[at[a]]
    /\ cooling[at[a]]
    /\ NotRevived(a)
    /\ UNCHANGED <<entryVars, poolVars, at, held, tries, topup>>

\* A bug: dial without looking at the dead flag again.
ReviveDialBlind(a) ==
    /\ pc[a] = "locked"
    /\ ~cooling[at[a]]
    /\ cooling' = [cooling EXCEPT ![at[a]] = TRUE]
    /\ Goto(a, "dial")
    /\ UNCHANGED <<dead, down, poolVars, at, left, held, tries, topup>>

\* The attempt is stamped and the dial begins.
ReviveDial(a) ==
    /\ pc[a] = "locked"
    /\ dead[at[a]]
    /\ ~cooling[at[a]]
    /\ cooling' = [cooling EXCEPT ![at[a]] = TRUE]
    /\ Goto(a, "dial")
    /\ UNCHANGED <<dead, down, poolVars, at, left, held, tries, topup>>

ReviveFails(a) ==
    /\ pc[a] = "dial"
    /\ NotRevived(a)
    /\ UNCHANGED <<entryVars, poolVars, at, held, tries, topup>>

\* client.store
ReviveStore(a) ==
    /\ pc[a] = "dial"
    /\ Replace(at[a])
    /\ down' = [down EXCEPT ![at[a]] = FALSE]
    /\ Goto(a, "stored")
    /\ UNCHANGED <<dead, cooling, poolVars, at, left, tries, topup>>

\* A bug: the entry is not put back into rotation.
ReviveClearForgotten(a) ==
    /\ pc[a] = "stored"
    /\ Revived(a)
    /\ UNCHANGED <<entryVars, poolVars, at, held, tries, topup>>

\* dead.store(false)
ReviveClear(a) ==
    /\ pc[a] = "stored"
    /\ dead' = [dead EXCEPT ![at[a]] = FALSE]
    /\ Revived(a)
    /\ UNCHANGED <<cooling, down, poolVars, at, held, tries, topup>>

-----------------------------------------------------------------------------
(* supervisor_tick and the top-up task.                                    *)

\* spawn_top_up, then the snapshot.
TickBegin ==
    /\ pc[Sup] = "idle"
    /\ ~shutdown
    /\ topup' = IF len # 0 /\ len < PoolSize /\ topup = "none" THEN "check" ELSE topup
    /\ \/ /\ len = 0
          /\ UNCHANGED <<pc, at, left>>
       \/ /\ len > 0
          /\ at' = [at EXCEPT ![Sup] = 1]
          /\ left' = [left EXCEPT ![Sup] = len - 1]
          /\ Goto(Sup, "entry")
    /\ UNCHANGED <<entryVars, poolVars, held, tries>>

TickEnds ==
    /\ Goto(Sup, "idle")
    /\ at' = [at EXCEPT ![Sup] = 0]
    /\ left' = [left EXCEPT ![Sup] = 0]

TickShutdown ==
    /\ pc[Sup] = "entry"
    /\ shutdown
    /\ TickEnds
    /\ UNCHANGED <<entryVars, poolVars, held, tries, topup>>

TickDead ==
    /\ pc[Sup] = "entry"
    /\ ~shutdown
    /\ Goto(Sup, IF dead[at[Sup]] THEN "spawn" ELSE "alive")
    /\ UNCHANGED <<entryVars, poolVars, at, left, held, tries, topup>>

TickBroken ==
    /\ pc[Sup] = "alive"
    /\ down[at[Sup]]
    /\ Goto(Sup, "mark")
    /\ UNCHANGED <<entryVars, poolVars, at, left, held, tries, topup>>

\* Hot, or no (valid) health_check_path: no probe.
TickSkips ==
    /\ pc[Sup] = "alive"
    /\ ~down[at[Sup]]
    /\ TickNext(pc)
    /\ UNCHANGED <<entryVars, poolVars, topup>>

\* ping_entry sends a probe on the entry's client; its result is the entry's.
TickPings ==
    /\ pc[Sup] = "alive"
    /\ ~down[at[Sup]]
    /\ Goto(Sup, "ping")
    /\ UNCHANGED <<entryVars, poolVars, at, left, held, tries, topup>>

PingOk ==
    /\ pc[Sup] = "ping"
    /\ TickNext(pc)
    /\ UNCHANGED <<entryVars, poolVars, topup>>

PingFails ==
    /\ pc[Sup] = "ping"
    /\ Goto(Sup, "mark")
    /\ UNCHANGED <<entryVars, poolVars, at, left, held, tries, topup>>

\* MyTimer drops the tick at its only await.
TickDropped ==
    /\ pc[Sup] = "ping"
    /\ TickEnds
    /\ UNCHANGED <<entryVars, poolVars, held, tries, topup>>

\* The loop condition of the top-up task; its guard goes with it.
TopUpCheck ==
    /\ topup = "check"
    /\ topup' = IF ~shutdown /\ len < PoolSize THEN "dial" ELSE "none"
    /\ UNCHANGED <<entryVars, poolVars, actorVars>>

\* A dialled connection is pushed, or the size race is lost and the task stops.
TopUpDials ==
    /\ topup = "dial"
    /\ \/ /\ TryPush
          /\ topup' = "check"
       \/ /\ shutdown \/ len >= PoolSize
          /\ topup' = "none"
          /\ UNCHANGED <<entryVars, len>>
    /\ UNCHANGED <<shutdown, actorVars>>

TopUpFails ==
    /\ topup = "dial"
    /\ topup' = "none"
    /\ UNCHANGED <<entryVars, poolVars, actorVars>>

-----------------------------------------------------------------------------
(* The environment.                                                        *)

\* A lost keep-alive, a GOAWAY or a broken pipe.
TransportDies(e) ==
    /\ e <= len
    /\ ~down[e]
    /\ down' = [down EXCEPT ![e] = TRUE]
    /\ UNCHANGED <<dead, cooling, poolVars, actorVars, topup>>

CooldownEnds(e) ==
    /\ cooling[e]
    /\ cooling' = [cooling EXCEPT ![e] = FALSE]
    /\ UNCHANGED <<dead, down, poolVars, actorVars, topup>>

\* drain_unused
Drain ==
    /\ ~shutdown
    /\ shutdown' = TRUE
    /\ UNCHANGED <<entryVars, len, actorVars, topup>>

-----------------------------------------------------------------------------
RequestStep(r) ==
    \/ Call(r) \/ GetGrow(r) \/ GetScan(r) \/ GrowDials(r) \/ GrowFails(r)
    \/ Push(r) \/ OneShot(r)
    \/ ScanLive(r) \/ ScanDead(r) \/ ScanPick(r) \/ ScanBroken(r)
    \/ LockTimesOut(r) \/ Rescan(r)
    \/ Send(r) \/ Answered(r) \/ ConnectionFails(r)
    \/ IsCurrent(r) \/ IsReplaced(r) \/ Cancel(r)

Marker(a) ==
    MarkDead(a) \/ SpawnChecks(a) \/ SpawnSkips(a) \/ SpawnPending(a) \/ SpawnTask(a)

Reviver(a) ==
    LockRevive(a) \/ ReviveAlready(a) \/ ReviveCoolingDown(a) \/ ReviveDial(a)
    \/ ReviveFails(a) \/ ReviveStore(a) \/ ReviveClear(a)

Tick ==
    TickBegin \/ TickShutdown \/ TickDead \/ TickBroken \/ TickSkips
    \/ TickPings \/ PingOk \/ PingFails \/ TickDropped

TopUp == TopUpCheck \/ TopUpDials \/ TopUpFails

Next ==
    \/ \E r \in Requests : RequestStep(r)
    \/ \E a \in Requests \cup {Sup} : Marker(a)
    \/ \E e \in Entries : TaskStart(e)
    \/ \E a \in Requests \cup Entries : Reviver(a)
    \/ Tick \/ TopUp
    \/ \E e \in Entries : TransportDies(e) \/ CooldownEnds(e)
    \/ Drain

Spec == Init /\ [][Next]_vars

\* The timer ticks for ever and not every tick is dropped in its ping; tasks
\* run on and so does a request that holds a revive_lock, which is a fair queue;
\* a cooldown ends; the upstream comes back, so a dial that is tried again and
\* again succeeds.  Nothing is assumed of other requests.
Fairness ==
    /\ WF_vars(\/ TickBegin \/ TickShutdown \/ TickDead
               \/ TickBroken \/ TickSkips \/ TickPings \/ Marker(Sup))
    /\ SF_vars(PingOk \/ PingFails)
    /\ \A e \in Entries :
         /\ WF_vars(TaskStart(e)) /\ SF_vars(LockRevive(e)) /\ WF_vars(CooldownEnds(e))
    /\ \A a \in Requests \cup Entries :
         WF_vars(pc[a] \in {"locked", "dial", "stored"} /\ Reviver(a))
    /\ \A e \in Entries :
         SF_vars(\E a \in Requests \cup Entries : at[a] = e /\ ReviveStore(a))

FairSpec == Spec /\ Fairness
-----------------------------------------------------------------------------
RequestPC == {"idle", "get", "grow", "push", "scan", "alive", "mark", "spawn", "cas",
              "lock", "locked", "dial", "stored", "rescan", "got", "sent", "failed"}
TaskPC == {"none", "start", "lock", "locked", "dial", "stored"}
TickPC == {"idle", "entry", "alive", "ping", "mark", "spawn", "cas"}

\* Every variable has its type: no more than pool_size entries, and each actor
\* at a place of its own code.
TypeOK ==
    /\ len \in 0..PoolSize
    /\ dead \in [Entries -> BOOLEAN]
    /\ cooling \in [Entries -> BOOLEAN]
    /\ down \in [Entries -> BOOLEAN]
    /\ shutdown \in BOOLEAN
    /\ pc \in [Actors -> RequestPC \cup TaskPC \cup TickPC]
    /\ \A r \in Requests : pc[r] \in RequestPC
    /\ \A e \in Entries : pc[e] \in TaskPC
    /\ pc[Sup] \in TickPC
    /\ at \in [Actors -> 0..PoolSize]
    /\ left \in [Actors -> 0..PoolSize - 1]
    /\ held \in [Requests -> {"none", "current", "replaced"}]
    /\ tries \in [Requests -> 0..2]
    /\ topup \in {"none", "check", "dial"}

\* Actors in the critical section of entry e's revive_lock.
Reviving(e) ==
    {a \in Requests \cup Entries : at[a] = e /\ pc[a] \in {"locked", "dial", "stored"}}

(***************************************************************************)
(* "Never stack, never churn": one revive at a time works on an entry,    *)
(* and from its second look at the dead flag until it clears it the entry *)
(* stays out of rotation, so the connection it replaces is one no scan    *)
(* will hand out.                                                          *)
(***************************************************************************)
OneReviveOfADeadEntry ==
    \A e \in Entries :
        /\ \A a, b \in Reviving(e) : a = b
        /\ \A a \in Reviving(e) : pc[a] \in {"dial", "stored"} => dead[e] /\ e <= len

(***************************************************************************)
(* Every variable has its type, the pool does not outgrow pool_size, and   *)
(* revives of an entry exclude each other (try_push, revive_lock).         *)
(***************************************************************************)
PoolSound == TypeOK /\ OneReviveOfADeadEntry

(***************************************************************************)
(* A live entry keeps its connection and the streams of everybody on it:  *)
(* a connection some request uses is replaced only in an entry that was   *)
(* marked dead.                                                            *)
(***************************************************************************)
ReplaceOnlyDead ==
    [][\A r \in Requests :
        held[r] = "current" /\ held'[r] = "replaced" => dead[at[r]]]_vars

(***************************************************************************)
(* No request is needed to repair the pool: a transport that went down is *)
(* noticed, and a dead entry gets another connection and is back in       *)
(* rotation, unless the pool is drained.                                  *)
(***************************************************************************)
BrokenIsReplaced ==
    \A e \in Entries :
        /\ e <= len /\ down[e] ~> dead[e] \/ ~down[e] \/ shutdown
        /\ dead[e] ~> ~dead[e] \/ shutdown
=============================================================================
