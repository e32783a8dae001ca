------------------------------- MODULE H1Pool -------------------------------
(***************************************************************************)
(* The per-location HTTP/1.1 upstream connection pool of the reverse proxy *)
(* (src/src/upstream_h1_pool).  A request rents a pool entry exclusively,  *)
(* because an h1 connection carries one request at a time; when every      *)
(* entry is rented it dials a one-shot "disposable" connection, counted    *)
(* against a global and a per-pool budget.  A supervisor probes idle       *)
(* entries and spawns background tasks that revive dead ones.              *)
(*                                                                         *)
(* One step of the model is one atomic access of the code (an atomic       *)
(* load, store, CAS or fetch_add, or a critical section without an await)  *)
(* or the end of one await.  Everything between two such points is local   *)
(* to the task that runs it.                                               *)
(*                                                                         *)
(* Entries are only ever appended to a pool, so the vector `clients` is    *)
(* represented by its length and an entry is named by <<pool, index>>.     *)
(* Clocks are abstract: a timeout or a deadline may fire whenever the code *)
(* waits for it.  The Prometheus gauges the pool publishes are in          *)
(* PoolRegistry.                                                           *)
(***************************************************************************)
EXTENDS Integers, FiniteSets

CONSTANTS
    Pools,            \* the h1 pools that share DISPOSABLE_COUNTER
    Requests,         \* concurrent callers of get_connection
    Clients,          \* identities of upstream connections (MyHttpClient)
    PoolSize,         \* params.pool_size
    MAX_DISPOSABLE,   \* cap of the global DISPOSABLE_COUNTER
    MaxDisposables,   \* params.max_disposables, the per-pool cap
    ClientsDisconnect \* may a downstream client go away during its request?

ASSUME PoolsAssumption == Pools # {}
ASSUME PoolSizeAssumption == PoolSize \in Nat \ {0}
ASSUME CapAssumption == MAX_DISPOSABLE \in Nat /\ MaxDisposables \in Nat
ASSUME DisconnectAssumption == ClientsDisconnect \in BOOLEAN

Entries == Pools \X (1 .. PoolSize)

VARIABLES
    clients,            \* clients[p]: number of entries pushed so far
    next,               \* next[p]: round-robin position, modulo PoolSize
    shutdown,           \* shutdown[p]: set once by drain_unused
    live_disposables,   \* live_disposables[p]: the per-pool counter
    DISPOSABLE_COUNTER, \* the process-wide counter
    client,             \* client[e]: connection the entry holds now
    dead, rented, revive_pending, \* the entry's atomic flags
    revive_lock,        \* revive_lock[e]: is the async mutex taken?
    pc, at, left, held, kind, granted, \* request-local state
    task,               \* task[e]: the entry's background revive task
    sup, supAt, supLen, supHeld \* supervisor_tick of each pool

poolVars == <<clients, next, shutdown>>
counterVars == <<live_disposables, DISPOSABLE_COUNTER>>
entryVars == <<client, dead, rented, revive_pending, revive_lock>>
reqVars == <<pc, at, left, held, kind, granted>>
supVars == <<sup, supAt, supLen, supHeld>>
vars == <<poolVars, counterVars, entryVars, reqVars, task, supVars>>

-----------------------------------------------------------------------------
(* The places where a task can be.                                         *)

\* get_connection and the life of the handle it returns, by next step.
RequestPC == {"idle", "top", "grow", "push", "lostGlobal", "lostPool",
              "scan", "rented", "load", "reviveWait", "reviveDial",
              "reviveClear", "unrent", "reserveGlobal", "reservePool",
              "overflowDial", "undoGlobal", "undoPool", "sleep", "wsDial",
              "request", "body", "drop", "dropPool"}

TaskPC == {"none", "spawned", "reviveWait", "reviveDial", "reviveClear",
           "ending"}

SupPC == {"idle", "entry", "rent", "load", "ping", "release", "spawn", "cas"}

Kinds == {"none", "Reusable", "Disposable", "Ws"}

\* The request owns the rented flag of at[r].
Renting(r) ==
    \/ pc[r] \in {"rented", "load", "reviveWait", "reviveDial", "reviveClear",
                  "unrent"}
    \/ pc[r] \in {"request", "body", "drop"} /\ kind[r] = "Reusable"

\* The supervisor's RentGuard is alive.
Probing(p) == sup[p] \in {"load", "ping", "release"}

\* A connection exists for a moment outside every entry: just dialled, or
\* carried by a handle, or being probed.
Holding(r) == pc[r] \in {"push", "lostGlobal", "lostPool", "request", "body",
                         "drop", "dropPool"}

\* The entry is in `clients`.
Pushed(e) == e[2] <= clients[e[1]]

\* Identities a new connection must differ from.
InUse ==
    {client[e] : e \in {f \in Entries : Pushed(f)}}
        \cup {held[r] : r \in {q \in Requests : Holding(q)}}
        \cup {supHeld[p] : p \in {q \in Pools : sup[q] = "ping"}}

\* factory() + MyHttpClient::connect(): a connection no one else has.  Which
\* free name it gets does not matter, so one is enough.
FreshClients ==
    {c \in Clients \ InUse : c = CHOOSE d \in Clients \ InUse : TRUE}

\* Values of locals that are not in use.
NoClient == "none"
NoEntry == <<CHOOSE p \in Pools : TRUE, 1>>

\* The pool (self) of a get_connection call or of the handle it returned.
PoolOf(r) == at[r][1]

-----------------------------------------------------------------------------
\* H1Pool::new for every pool; no request, task or tick is running.
Init ==
    /\ clients = [p \in Pools |-> 0]
    /\ next = [p \in Pools |-> 0]
    /\ shutdown = [p \in Pools |-> FALSE]
    /\ live_disposables = [p \in Pools |-> 0]
    /\ DISPOSABLE_COUNTER = 0
    /\ client = [e \in Entries |-> NoClient]
    /\ dead = [e \in Entries |-> FALSE]
    /\ rented = [e \in Entries |-> FALSE]
    /\ revive_pending = [e \in Entries |-> FALSE]
    /\ revive_lock = [e \in Entries |-> FALSE]
    /\ pc = [r \in Requests |-> "idle"]
    /\ at = [r \in Requests |-> NoEntry]
    /\ left = [r \in Requests |-> 0]
    /\ held = [r \in Requests |-> NoClient]
    /\ kind = [r \in Requests |-> "none"]
    /\ granted = [r \in Requests |-> FALSE]
    /\ task = [e \in Entries |-> "none"]
    /\ sup = [p \in Pools |-> "idle"]
    /\ supAt = [p \in Pools |-> 1]
    /\ supLen = [p \in Pools |-> 0]
    /\ supHeld = [p \in Pools |-> NoClient]

Goto(r, label) == pc' = [pc EXCEPT ![r] = label]

\* get_connection returned, or the handle is gone: forget the locals.
Finish(r) ==
    /\ pc' = [pc EXCEPT ![r] = "idle"]
    /\ kind' = [kind EXCEPT ![r] = "none"]
    /\ at' = [at EXCEPT ![r] = NoEntry]
    /\ left' = [left EXCEPT ![r] = 0]
    /\ held' = [held EXCEPT ![r] = NoClient]
    /\ granted' = [granted EXCEPT ![r] = FALSE]

\* get_connection returns Ok with a handle of the given variant.
Handle(r, variant, c) ==
    /\ pc' = [pc EXCEPT ![r] = "request"]
    /\ kind' = [kind EXCEPT ![r] = variant]
    /\ held' = [held EXCEPT ![r] = c]

-----------------------------------------------------------------------------
(* get_connection.                                                         *)

\* Http1ContentSource::execute calls get_connection on its location's pool.
Call(r) ==
    /\ pc[r] = "idle"
    /\ \E p \in Pools : at' = [at EXCEPT ![r] = <<p, 1>>]
    /\ Goto(r, "top")
    /\ UNCHANGED <<left, held, kind, granted, poolVars, counterVars,
                   entryVars, task, supVars>>

\* Top of the loop: a drained pool answers Err(Disposed).
Disposed(r) ==
    /\ pc[r] = "top" /\ shutdown[PoolOf(r)]
    /\ Finish(r)
    /\ UNCHANGED <<poolVars, counterVars, entryVars, task, supVars>>

\* Phase 0: the snapshot is below target, dial.
Grow(r) ==
    /\ pc[r] = "top" /\ ~shutdown[PoolOf(r)]
    /\ clients[PoolOf(r)] < PoolSize
    /\ Goto(r, "grow")
    /\ UNCHANGED <<at, left, held, kind, granted, poolVars, counterVars,
                   entryVars, task, supVars>>

\* Phase 0: the dial succeeded; grow_lock comes next.
GrowConnected(r) ==
    /\ pc[r] = "grow"
    /\ \E c \in FreshClients : held' = [held EXCEPT ![r] = c]
    /\ Goto(r, "push")
    /\ UNCHANGED <<at, left, kind, granted, poolVars, counterVars,
                   entryVars, task, supVars>>

\* A dial of Phase 0, or of create_ws_connection, failed: `?` returns.
DialFails(r) ==
    /\ pc[r] \in {"grow", "wsDial"}
    /\ Finish(r)
    /\ UNCHANGED <<poolVars, counterVars, entryVars, task, supVars>>

\* Mutant of Push: no re-check of the size under grow_lock.
PushUnchecked(r) ==
    LET p == PoolOf(r)
        e == <<p, clients[p] + 1>>
    IN  /\ pc[r] = "push"
        /\ clients' = [clients EXCEPT ![p] = @ + 1]
        /\ client' = [client EXCEPT ![e] = held[r]]
        /\ rented' = [rented EXCEPT ![e] = TRUE]
        /\ at' = [at EXCEPT ![r] = e]
        /\ Handle(r, "Reusable", held[r])
        /\ UNCHANGED <<left, granted, next, shutdown, counterVars, dead,
                       revive_pending, revive_lock, task, supVars>>

\* Phase 0 under grow_lock: re-check the size and push the entry pre-rented.
Push(r) ==
    LET p == PoolOf(r)
        e == <<p, clients[p] + 1>>
    IN  /\ pc[r] = "push"
        /\ clients[p] < PoolSize
        /\ clients' = [clients EXCEPT ![p] = @ + 1]
        /\ client' = [client EXCEPT ![e] = held[r]]
        /\ rented' = [rented EXCEPT ![e] = TRUE]
        /\ at' = [at EXCEPT ![r] = e]
        /\ Handle(r, "Reusable", held[r])
        /\ UNCHANGED <<left, granted, next, shutdown, counterVars, dead,
                       revive_pending, revive_lock, task, supVars>>

\* Phase 0, race lost: the connection becomes a Disposable, counted in two
\* separate atomic increments and without a look at either cap.
PushLost(r) ==
    /\ pc[r] = "push" /\ clients[PoolOf(r)] >= PoolSize
    /\ Goto(r, "lostGlobal")
    /\ UNCHANGED <<at, left, held, kind, granted, poolVars, counterVars,
                   entryVars, task, supVars>>

LostGlobal(r) ==
    /\ pc[r] = "lostGlobal"
    /\ DISPOSABLE_COUNTER' = DISPOSABLE_COUNTER + 1
    /\ Goto(r, "lostPool")
    /\ UNCHANGED <<at, left, held, kind, granted, poolVars,
                   live_disposables, entryVars, task, supVars>>

\* Mutant of LostPool: the handle is built without counting it in the pool.
LostPoolUncounted(r) ==
    /\ pc[r] = "lostPool"
    /\ Handle(r, "Disposable", held[r])
    /\ UNCHANGED <<at, left, granted, poolVars, counterVars, entryVars, task,
                   supVars>>

LostPool(r) ==
    /\ pc[r] = "lostPool"
    /\ live_disposables' = [live_disposables EXCEPT ![PoolOf(r)] = @ + 1]
    /\ Handle(r, "Disposable", held[r])
    /\ UNCHANGED <<at, left, granted, poolVars, DISPOSABLE_COUNTER,
                   entryVars, task, supVars>>

\* Phase 1: pool at target; the scan starts at next.fetch_add(1) % len.
StartScan(r) ==
    LET p == PoolOf(r)
    IN  /\ pc[r] = "top" /\ ~shutdown[p]
        /\ clients[p] >= PoolSize
        /\ next' = [next EXCEPT ![p] = (@ + 1) % PoolSize]
        /\ at' = [at EXCEPT ![r] = <<p, next[p] + 1>>]
        /\ left' = [left EXCEPT ![r] = clients[p]]
        /\ Goto(r, "scan")
        /\ UNCHANGED <<held, kind, granted, clients, shutdown,
                       counterVars, entryVars, task, supVars>>

\* Mutant of TryRent: a plain store instead of the CAS.
TryRentStore(r) ==
    /\ pc[r] = "scan"
    /\ rented' = [rented EXCEPT ![at[r]] = TRUE]
    /\ left' = [left EXCEPT ![r] = 0]
    /\ Goto(r, "rented")
    /\ UNCHANGED <<at, held, kind, granted, poolVars, counterVars,
                   client, dead, revive_pending, revive_lock, task, supVars>>

\* try_rent: the CAS on `rented` wins.
TryRent(r) ==
    /\ pc[r] = "scan" /\ ~rented[at[r]]
    /\ rented' = [rented EXCEPT ![at[r]] = TRUE]
    /\ left' = [left EXCEPT ![r] = 0]
    /\ Goto(r, "rented")
    /\ UNCHANGED <<at, held, kind, granted, poolVars, counterVars,
                   client, dead, revive_pending, revive_lock, task, supVars>>

\* try_rent: the CAS loses; go on with the next entry, or to Phase 2.
RentBusy(r) ==
    /\ pc[r] = "scan" /\ rented[at[r]]
    /\ left' = [left EXCEPT ![r] = @ - 1]
    /\ at' = [at EXCEPT ![r] = <<@[1], (@[2] % PoolSize) + 1>>]
    /\ Goto(r, IF left[r] = 1 THEN "reserveGlobal" ELSE "scan")
    /\ UNCHANGED <<held, kind, granted, poolVars, counterVars,
                   entryVars, task, supVars>>

\* Mutant of CheckDead: a rented entry is taken to be alive.
CheckDeadSkipped(r) ==
    /\ pc[r] = "rented"
    /\ Goto(r, "load")
    /\ UNCHANGED <<at, left, held, kind, granted, poolVars, counterVars,
                   entryVars, task, supVars>>

\* Alive: Path A.  Dead: Path B, revive_entry in the foreground.
CheckDead(r) ==
    /\ pc[r] = "rented"
    /\ Goto(r, IF dead[at[r]] THEN "reviveWait" ELSE "load")
    /\ UNCHANGED <<at, left, held, kind, granted, poolVars, counterVars,
                   entryVars, task, supVars>>

\* entry.client.load_full() and return of the Reusable handle.
LoadClient(r) ==
    /\ pc[r] = "load"
    /\ Handle(r, "Reusable", client[at[r]])
    /\ UNCHANGED <<at, left, granted, poolVars, counterVars, entryVars,
                   task, supVars>>

-----------------------------------------------------------------------------
(* revive_entry on Path B.  tokio's mutex is free again whenever its guard *)
(* is dropped, also when the future that holds it is.                      *)

\* revive_lock acquired; the entry is still dead, so dial.
ReviveLock(r) ==
    /\ pc[r] = "reviveWait" /\ ~revive_lock[at[r]] /\ dead[at[r]]
    /\ revive_lock' = [revive_lock EXCEPT ![at[r]] = TRUE]
    /\ Goto(r, "reviveDial")
    /\ UNCHANGED <<at, left, held, kind, granted, poolVars, counterVars,
                   client, dead, rented, revive_pending, task, supVars>>

\* Mutant of ReviveAlready: no re-check of `dead` under the lock, so the
\* connection a parallel caller has just stored is replaced again.
ReviveAgain(r) ==
    /\ pc[r] = "reviveWait" /\ ~revive_lock[at[r]] /\ ~dead[at[r]]
    /\ \E c \in FreshClients : client' = [client EXCEPT ![at[r]] = c]
    /\ Goto(r, "load")
    /\ UNCHANGED <<at, left, held, kind, granted, poolVars, counterVars,
                   dead, rented, revive_pending, revive_lock, task, supVars>>

\* revive_lock acquired, but a parallel caller has revived the entry: Ok.
ReviveAlready(r) ==
    /\ pc[r] = "reviveWait" /\ ~revive_lock[at[r]] /\ ~dead[at[r]]
    /\ Goto(r, "load")
    /\ UNCHANGED <<at, left, held, kind, granted, poolVars, counterVars,
                   entryVars, task, supVars>>

\* entry.client.store(new).
ReviveConnected(r) ==
    /\ pc[r] = "reviveDial"
    /\ \E c \in FreshClients : client' = [client EXCEPT ![at[r]] = c]
    /\ Goto(r, "reviveClear")
    /\ UNCHANGED <<at, left, held, kind, granted, poolVars, counterVars,
                   dead, rented, revive_pending, revive_lock, task, supVars>>

\* dead = false, then the lock guard is dropped.
ReviveClear(r) ==
    /\ pc[r] = "reviveClear"
    /\ dead' = [dead EXCEPT ![at[r]] = FALSE]
    /\ revive_lock' = [revive_lock EXCEPT ![at[r]] = FALSE]
    /\ Goto(r, "load")
    /\ UNCHANGED <<at, left, held, kind, granted, poolVars, counterVars,
                   client, rented, revive_pending, task, supVars>>

\* The dial failed: unlock, and get_connection still has to release the rent.
ReviveFails(r) ==
    /\ pc[r] = "reviveDial"
    /\ revive_lock' = [revive_lock EXCEPT ![at[r]] = FALSE]
    /\ Goto(r, "unrent")
    /\ UNCHANGED <<at, left, held, kind, granted, poolVars, counterVars,
                   client, dead, rented, revive_pending, task, supVars>>

Unrent(r) ==
    /\ pc[r] = "unrent"
    /\ rented' = [rented EXCEPT ![at[r]] = FALSE]
    /\ Finish(r)
    /\ UNCHANGED <<poolVars, counterVars, client, dead, revive_pending,
                   revive_lock, task, supVars>>

-----------------------------------------------------------------------------
(* Phase 2: reserve-then-check on the two budgets.                         *)

ReserveGlobal(r) ==
    /\ pc[r] = "reserveGlobal"
    /\ granted' = [granted EXCEPT ![r] = DISPOSABLE_COUNTER < MAX_DISPOSABLE]
    /\ DISPOSABLE_COUNTER' = DISPOSABLE_COUNTER + 1
    /\ Goto(r, "reservePool")
    /\ UNCHANGED <<at, left, held, kind, poolVars, live_disposables,
                   entryVars, task, supVars>>

\* Mutant of ReservePool: `||` between the two budgets.
ReservePoolEither(r) ==
    LET p == PoolOf(r)
        ok == granted[r] \/ live_disposables[p] < MaxDisposables
    IN  /\ pc[r] = "reservePool"
        /\ granted' = [granted EXCEPT ![r] = ok]
        /\ live_disposables' = [live_disposables EXCEPT ![p] = @ + 1]
        /\ Goto(r, IF ok THEN "overflowDial" ELSE "undoGlobal")
        /\ UNCHANGED <<at, left, held, kind, poolVars,
                       DISPOSABLE_COUNTER, entryVars, task, supVars>>

ReservePool(r) ==
    LET p == PoolOf(r)
        ok == granted[r] /\ live_disposables[p] < MaxDisposables
    IN  /\ pc[r] = "reservePool"
        /\ granted' = [granted EXCEPT ![r] = ok]
        /\ live_disposables' = [live_disposables EXCEPT ![p] = @ + 1]
        /\ Goto(r, IF ok THEN "overflowDial" ELSE "undoGlobal")
        /\ UNCHANGED <<at, left, held, kind, poolVars,
                       DISPOSABLE_COUNTER, entryVars, task, supVars>>

OverflowConnected(r) ==
    /\ pc[r] = "overflowDial"
    /\ \E c \in FreshClients : Handle(r, "Disposable", c)
    /\ UNCHANGED <<at, left, granted, poolVars, counterVars, entryVars,
                   task, supVars>>

\* The dial fails: both reservations are undone before the Err.
OverflowFails(r) ==
    /\ pc[r] = "overflowDial"
    /\ Goto(r, "undoGlobal")
    /\ UNCHANGED <<at, left, held, kind, granted, poolVars, counterVars,
                   entryVars, task, supVars>>

UndoGlobal(r) ==
    /\ pc[r] = "undoGlobal"
    /\ DISPOSABLE_COUNTER' = DISPOSABLE_COUNTER - 1
    /\ Goto(r, "undoPool")
    /\ UNCHANGED <<at, left, held, kind, granted, poolVars,
                   live_disposables, entryVars, task, supVars>>

\* Mutant of UndoPoolErr: the overflow wait has no deadline.
UndoPoolNoDeadline(r) ==
    /\ pc[r] = "undoPool" /\ granted[r]
    /\ live_disposables' = [live_disposables EXCEPT ![PoolOf(r)] = @ - 1]
    /\ Finish(r)
    /\ UNCHANGED <<poolVars, DISPOSABLE_COUNTER, entryVars, task, supVars>>

\* Last half of the undo.  After a failed dial, or when overflow_deadline has
\* passed, an Err.  The clock is read here only, and passed for good means Err.
UndoPoolErr(r) ==
    /\ pc[r] = "undoPool"
    /\ live_disposables' = [live_disposables EXCEPT ![PoolOf(r)] = @ - 1]
    /\ Finish(r)
    /\ UNCHANGED <<poolVars, DISPOSABLE_COUNTER, entryVars, task, supVars>>

\* Over a limit and before the deadline: sleep OVERFLOW_RETRY_SLEEP and run
\* the loop again.
UndoPoolRetry(r) ==
    /\ pc[r] = "undoPool" /\ ~granted[r]
    /\ live_disposables' = [live_disposables EXCEPT ![PoolOf(r)] = @ - 1]
    /\ Goto(r, "sleep")
    /\ UNCHANGED <<at, left, held, kind, granted, poolVars,
                   DISPOSABLE_COUNTER, entryVars, task, supVars>>

SleepEnds(r) ==
    /\ pc[r] = "sleep"
    /\ Goto(r, "top")
    /\ UNCHANGED <<at, left, held, kind, granted, poolVars, counterVars,
                   entryVars, task, supVars>>

-----------------------------------------------------------------------------
(* create_ws_connection and the life of a handle.                          *)

CallWs(r) ==
    /\ pc[r] = "idle"
    /\ \E p \in Pools : at' = [at EXCEPT ![r] = <<p, 1>>]
    /\ Goto(r, "wsDial")
    /\ UNCHANGED <<left, held, kind, granted, poolVars, counterVars,
                   entryVars, task, supVars>>

WsConnected(r) ==
    /\ pc[r] = "wsDial"
    /\ \E c \in FreshClients : Handle(r, "Ws", c)
    /\ UNCHANGED <<at, left, granted, poolVars, counterVars, entryVars,
                   task, supVars>>

\* Mutant of RequestOk: no conn guard, the handle drops with the headers.
RequestOkUnguarded(r) ==
    /\ pc[r] = "request"
    /\ Goto(r, "body")
    /\ rented' = IF kind[r] = "Reusable" THEN [rented EXCEPT ![at[r]] = FALSE]
                                         ELSE rented
    /\ UNCHANGED <<at, left, held, kind, granted, poolVars, counterVars,
                   client, dead, revive_pending, revive_lock, task, supVars>>

\* do_request Ok: last_success is refreshed (the clock is abstract) and
\* attach_conn_guard keeps the handle until the response body ends.
RequestOk(r) ==
    /\ pc[r] = "request"
    /\ Goto(r, "body")
    /\ UNCHANGED <<at, left, held, kind, granted, poolVars, counterVars,
                   entryVars, task, supVars>>

\* do_request Err: a Reusable handle marks its entry dead; the handle drops.
RequestErr(r) ==
    /\ pc[r] = "request"
    /\ dead' = IF kind[r] = "Reusable" THEN [dead EXCEPT ![at[r]] = TRUE]
                                       ELSE dead
    /\ Goto(r, "drop")
    /\ UNCHANGED <<at, left, held, kind, granted, poolVars, counterVars,
                   client, rented, revive_pending, revive_lock, task, supVars>>

BodyEnds(r) ==
    /\ pc[r] = "body"
    /\ Goto(r, "drop")
    /\ UNCHANGED <<at, left, held, kind, granted, poolVars, counterVars,
                   entryVars, task, supVars>>

\* Drop of H1ClientHandle: Reusable releases the rent, Ws does nothing.
DropReusable(r) ==
    /\ pc[r] = "drop" /\ kind[r] = "Reusable"
    /\ rented' = [rented EXCEPT ![at[r]] = FALSE]
    /\ Finish(r)
    /\ UNCHANGED <<poolVars, counterVars, client, dead, revive_pending,
                   revive_lock, task, supVars>>

DropWs(r) ==
    /\ pc[r] = "drop" /\ kind[r] = "Ws"
    /\ Finish(r)
    /\ UNCHANGED <<poolVars, counterVars, entryVars, task, supVars>>

\* Disposable decrements the global and then the per-pool counter.
DropGlobal(r) ==
    /\ pc[r] = "drop" /\ kind[r] = "Disposable"
    /\ DISPOSABLE_COUNTER' = DISPOSABLE_COUNTER - 1
    /\ Goto(r, "dropPool")
    /\ UNCHANGED <<at, left, held, kind, granted, poolVars,
                   live_disposables, entryVars, task, supVars>>

DropPool(r) ==
    /\ pc[r] = "dropPool"
    /\ live_disposables' = [live_disposables EXCEPT ![PoolOf(r)] = @ - 1]
    /\ Finish(r)
    /\ UNCHANGED <<poolVars, DISPOSABLE_COUNTER, entryVars, task, supVars>>

\* The downstream client disconnects or resets its stream: hyper drops the
\* service future at whatever await it is suspended in.  get_connection owns
\* no guard for a rent or for a reservation, only the revive_lock guard.
CancelAcquire(r) ==
    /\ ClientsDisconnect
    /\ pc[r] \in {"grow", "reviveWait", "reviveDial", "overflowDial", "sleep",
                  "wsDial"}
    /\ revive_lock' = IF pc[r] = "reviveDial"
                      THEN [revive_lock EXCEPT ![at[r]] = FALSE]
                      ELSE revive_lock
    /\ Finish(r)
    /\ UNCHANGED <<poolVars, counterVars, client, dead, rented,
                   revive_pending, task, supVars>>

\* The same while the handle is out: its Drop runs, and `dead` is not set.
CancelRequest(r) ==
    /\ ClientsDisconnect
    /\ pc[r] \in {"request", "body"}
    /\ Goto(r, "drop")
    /\ UNCHANGED <<at, left, held, kind, granted, poolVars, counterVars,
                   entryVars, task, supVars>>

-----------------------------------------------------------------------------
(* The background revive task of spawn_revive.  revive_entry returns, the  *)
(* gauge is published, then the RevivePendingGuard clears revive_pending.  *)

\* revive_entry has returned.
TaskReturns(e) == task' = [task EXCEPT ![e] = "ending"]

TaskStart(e) ==
    /\ task[e] = "spawned" /\ ~shutdown[e[1]]
    /\ task' = [task EXCEPT ![e] = "reviveWait"]
    /\ UNCHANGED <<poolVars, counterVars, entryVars, reqVars, supVars>>

\* The pool was drained before the task ran: return at once.
TaskShutdown(e) ==
    /\ task[e] = "spawned" /\ shutdown[e[1]]
    /\ TaskReturns(e)
    /\ UNCHANGED <<poolVars, counterVars, entryVars, reqVars, supVars>>

TaskLock(e) ==
    /\ task[e] = "reviveWait" /\ ~revive_lock[e] /\ dead[e]
    /\ revive_lock' = [revive_lock EXCEPT ![e] = TRUE]
    /\ task' = [task EXCEPT ![e] = "reviveDial"]
    /\ UNCHANGED <<poolVars, counterVars, client, dead, rented,
                   revive_pending, reqVars, supVars>>

TaskAlready(e) ==
    /\ task[e] = "reviveWait" /\ ~revive_lock[e] /\ ~dead[e]
    /\ TaskReturns(e)
    /\ UNCHANGED <<poolVars, counterVars, entryVars, reqVars, supVars>>

TaskConnected(e) ==
    /\ task[e] = "reviveDial"
    /\ \E c \in FreshClients : client' = [client EXCEPT ![e] = c]
    /\ task' = [task EXCEPT ![e] = "reviveClear"]
    /\ UNCHANGED <<poolVars, counterVars, dead, rented, revive_pending,
                   revive_lock, reqVars, supVars>>

TaskClear(e) ==
    /\ task[e] = "reviveClear"
    /\ dead' = [dead EXCEPT ![e] = FALSE]
    /\ revive_lock' = [revive_lock EXCEPT ![e] = FALSE]
    /\ TaskReturns(e)
    /\ UNCHANGED <<poolVars, counterVars, client, rented, revive_pending,
                   reqVars, supVars>>

TaskFails(e) ==
    /\ task[e] = "reviveDial"
    /\ revive_lock' = [revive_lock EXCEPT ![e] = FALSE]
    /\ TaskReturns(e)
    /\ UNCHANGED <<poolVars, counterVars, client, dead, rented,
                   revive_pending, reqVars, supVars>>

\* Mutant of TaskEnd: the task is gone and revive_pending still set.
TaskEndPending(e) ==
    /\ task[e] = "ending"
    /\ task' = [task EXCEPT ![e] = "none"]
    /\ UNCHANGED <<poolVars, counterVars, entryVars, reqVars, supVars>>

\* Drop of the RevivePendingGuard.
TaskEnd(e) ==
    /\ task[e] = "ending"
    /\ task' = [task EXCEPT ![e] = "none"]
    /\ revive_pending' = [revive_pending EXCEPT ![e] = FALSE]
    /\ UNCHANGED <<poolVars, counterVars, client, dead, rented, revive_lock,
                   reqVars, supVars>>

-----------------------------------------------------------------------------
(* supervisor_tick.                                                        *)

SupGoto(p, label) == sup' = [sup EXCEPT ![p] = label]

SupNext(p) ==
    /\ sup' = [sup EXCEPT ![p] = "entry"]
    /\ supAt' = [supAt EXCEPT ![p] = @ + 1]
    /\ UNCHANGED <<supLen, supHeld>>

SupEnd(p) ==
    /\ sup' = [sup EXCEPT ![p] = "idle"]
    /\ supAt' = [supAt EXCEPT ![p] = 1]
    /\ supLen' = [supLen EXCEPT ![p] = 0]
    /\ supHeld' = [supHeld EXCEPT ![p] = NoClient]

SupEntry(p) == <<p, supAt[p]>>

\* PoolSupervisorTimer starts a tick; the tick snapshots the entries.
SupStart(p) ==
    /\ sup[p] = "idle" /\ ~shutdown[p]
    /\ supLen' = [supLen EXCEPT ![p] = clients[p]]
    /\ SupGoto(p, "entry")
    /\ UNCHANGED <<supAt, supHeld, poolVars, counterVars, entryVars, reqVars,
                   task>>

\* The loop is over, or the pool was drained meanwhile.
SupFinish(p) ==
    /\ sup[p] = "entry" /\ (supAt[p] > supLen[p] \/ shutdown[p])
    /\ SupEnd(p)
    /\ UNCHANGED <<poolVars, counterVars, entryVars, reqVars, task>>

SupDead(p) ==
    /\ sup[p] = "entry" /\ supAt[p] <= supLen[p] /\ ~shutdown[p]
    /\ dead[SupEntry(p)]
    /\ SupGoto(p, "spawn")
    /\ UNCHANGED <<supAt, supLen, supHeld, poolVars, counterVars, entryVars,
                   reqVars, task>>

\* Not dead: skip a hot entry (or one without a usable probe path).
SupSkip(p) ==
    /\ sup[p] = "entry" /\ supAt[p] <= supLen[p] /\ ~shutdown[p]
    /\ ~dead[SupEntry(p)]
    /\ SupNext(p)
    /\ UNCHANGED <<poolVars, counterVars, entryVars, reqVars, task>>

\* Not dead and idle: rent it for the probe.
SupIdle(p) ==
    /\ sup[p] = "entry" /\ supAt[p] <= supLen[p] /\ ~shutdown[p]
    /\ ~dead[SupEntry(p)]
    /\ SupGoto(p, "rent")
    /\ UNCHANGED <<supAt, supLen, supHeld, poolVars, counterVars, entryVars,
                   reqVars, task>>

SupRent(p) ==
    /\ sup[p] = "rent" /\ ~rented[SupEntry(p)]
    /\ rented' = [rented EXCEPT ![SupEntry(p)] = TRUE]
    /\ SupGoto(p, "load")
    /\ UNCHANGED <<supAt, supLen, supHeld, poolVars, counterVars, client, dead,
                   revive_pending, revive_lock, reqVars, task>>

SupBusy(p) ==
    /\ sup[p] = "rent" /\ rented[SupEntry(p)]
    /\ SupNext(p)
    /\ UNCHANGED <<poolVars, counterVars, entryVars, reqVars, task>>

\* ping_entry: load the client and send the probe on it.
SupLoad(p) ==
    /\ sup[p] = "load"
    /\ supHeld' = [supHeld EXCEPT ![p] = client[SupEntry(p)]]
    /\ SupGoto(p, "ping")
    /\ UNCHANGED <<supAt, supLen, poolVars, counterVars, entryVars, reqVars,
                   task>>

SupPingOk(p) ==
    /\ sup[p] = "ping"
    /\ rented' = [rented EXCEPT ![SupEntry(p)] = FALSE]
    /\ sup' = [sup EXCEPT ![p] = "entry"]
    /\ supAt' = [supAt EXCEPT ![p] = @ + 1]
    /\ supHeld' = [supHeld EXCEPT ![p] = NoClient]
    /\ UNCHANGED <<supLen, poolVars, counterVars, client, dead,
                   revive_pending, revive_lock, reqVars, task>>

\* The probe failed: mark the entry dead, ...
SupPingFails(p) ==
    /\ sup[p] = "ping"
    /\ dead' = [dead EXCEPT ![SupEntry(p)] = TRUE]
    /\ SupGoto(p, "release")
    /\ supHeld' = [supHeld EXCEPT ![p] = NoClient]
    /\ UNCHANGED <<supAt, supLen, poolVars, counterVars, client, rented,
                   revive_pending, revive_lock, reqVars, task>>

\* ... drop the RentGuard, and spawn_revive.
SupRelease(p) ==
    /\ sup[p] = "release"
    /\ rented' = [rented EXCEPT ![SupEntry(p)] = FALSE]
    /\ SupGoto(p, "spawn")
    /\ UNCHANGED <<supAt, supLen, supHeld, poolVars, counterVars, client,
                   dead, revive_pending, revive_lock, reqVars, task>>

\* MyTimer drops a tick that runs too long; the RentGuard releases the rent.
SupCancel(p) ==
    /\ sup[p] = "ping"
    /\ rented' = [rented EXCEPT ![SupEntry(p)] = FALSE]
    /\ SupEnd(p)
    /\ UNCHANGED <<poolVars, counterVars, client, dead, revive_pending,
                   revive_lock, reqVars, task>>

\* spawn_revive: the pool is drained, or the entry is alive by now: return.
SpawnSkipped(p) ==
    /\ sup[p] = "spawn" /\ (shutdown[p] \/ ~dead[SupEntry(p)])
    /\ SupNext(p)
    /\ UNCHANGED <<poolVars, counterVars, entryVars, reqVars, task>>

SpawnDead(p) ==
    /\ sup[p] = "spawn" /\ ~shutdown[p] /\ dead[SupEntry(p)]
    /\ SupGoto(p, "cas")
    /\ UNCHANGED <<supAt, supLen, supHeld, poolVars, counterVars, entryVars,
                   reqVars, task>>

\* The CAS on revive_pending wins: spawn the task.
SpawnRevive(p) ==
    LET e == SupEntry(p)
    IN  /\ sup[p] = "cas" /\ ~revive_pending[e]
        /\ revive_pending' = [revive_pending EXCEPT ![e] = TRUE]
        /\ task' = [task EXCEPT ![e] = "spawned"]
        /\ SupNext(p)
        /\ UNCHANGED <<poolVars, counterVars, client, dead, rented,
                       revive_lock, reqVars>>

\* The CAS loses: a task is already there.
SpawnPending(p) ==
    /\ sup[p] = "cas" /\ revive_pending[SupEntry(p)]
    /\ SupNext(p)
    /\ UNCHANGED <<poolVars, counterVars, entryVars, reqVars, task>>

-----------------------------------------------------------------------------
\* drain_unused removes the pool from its registry.
Drain(p) ==
    /\ ~shutdown[p]
    /\ shutdown' = [shutdown EXCEPT ![p] = TRUE]
    /\ UNCHANGED <<clients, next, counterVars, entryVars, reqVars, task,
                   supVars>>

Acquire(r) ==
    \/ Disposed(r) \/ Grow(r) \/ GrowConnected(r) \/ DialFails(r) \/ Push(r)
    \/ PushLost(r) \/ LostGlobal(r) \/ LostPool(r) \/ StartScan(r)
    \/ TryRent(r) \/ RentBusy(r) \/ CheckDead(r) \/ LoadClient(r)
    \/ ReviveLock(r) \/ ReviveAlready(r) \/ ReviveConnected(r)
    \/ ReviveClear(r) \/ ReviveFails(r) \/ Unrent(r) \/ ReserveGlobal(r)
    \/ ReservePool(r) \/ OverflowConnected(r) \/ OverflowFails(r)
    \/ UndoGlobal(r) \/ UndoPoolErr(r) \/ UndoPoolRetry(r) \/ SleepEnds(r)
    \/ WsConnected(r)

UseHandle(r) ==
    \/ RequestOk(r) \/ RequestErr(r) \/ BodyEnds(r)
    \/ DropReusable(r) \/ DropWs(r) \/ DropGlobal(r) \/ DropPool(r)

Cancel(r) == CancelAcquire(r) \/ CancelRequest(r)

RunTask(e) ==
    \/ TaskStart(e) \/ TaskShutdown(e) \/ TaskLock(e) \/ TaskAlready(e)
    \/ TaskConnected(e) \/ TaskClear(e) \/ TaskFails(e) \/ TaskEnd(e)

Tick(p) ==
    \/ SupStart(p) \/ SupFinish(p) \/ SupDead(p) \/ SupSkip(p) \/ SupIdle(p)
    \/ SupRent(p) \/ SupBusy(p) \/ SupLoad(p) \/ SupPingOk(p)
    \/ SupPingFails(p) \/ SupRelease(p) \/ SpawnSkipped(p) \/ SpawnDead(p)
    \/ SpawnRevive(p) \/ SpawnPending(p)

Next ==
    \/ \E r \in Requests : \/ Call(r) \/ CallWs(r) \/ Acquire(r)
                           \/ UseHandle(r) \/ Cancel(r)
    \/ \E e \in Entries : RunTask(e)
    \/ \E p \in Pools : Tick(p) \/ SupCancel(p) \/ Drain(p)

Spec == Init /\ [][Next]_vars

\* tokio polls a ready task; a dial ends by connect_timeout, a probe by
\* ping_timeout; overflow_deadline passes, so that a request that keeps
\* coming back to it finds it passed some time; revive_lock is FIFO, so that
\* a waiter is not passed over for ever; the timer keeps ticking and does not
\* cut every tick short.  Nothing is assumed about how long a response body
\* lasts or about new requests.
Fairness ==
    /\ \A r \in Requests :
          /\ WF_vars(Acquire(r))
          /\ SF_vars(UndoPoolErr(r))
          /\ SF_vars(ReviveLock(r) \/ ReviveAlready(r))
    /\ \A e \in Entries :
          /\ WF_vars(RunTask(e))
          /\ SF_vars(TaskLock(e) \/ TaskAlready(e))
    /\ \A p \in Pools :
          /\ WF_vars(Tick(p))
          /\ SF_vars(SupPingOk(p) \/ SupPingFails(p))

FairSpec == Spec /\ Fairness

\* The upstream is back: a dial that is tried for ever succeeds some time.
UpstreamRecovers == \A e \in Entries : SF_vars(TaskConnected(e))

RecoverSpec == FairSpec /\ UpstreamRecovers

-----------------------------------------------------------------------------
(* Properties.                                                             *)

\* Every variable has its type; scan positions and snapshots lie in the pool.
TypeOK ==
    /\ clients \in [Pools -> Nat]
    /\ next \in [Pools -> 0 .. PoolSize - 1]
    /\ shutdown \in [Pools -> BOOLEAN]
    /\ live_disposables \in [Pools -> Int]
    /\ DISPOSABLE_COUNTER \in Int
    /\ client \in [Entries -> Clients \cup {NoClient}]
    /\ dead \in [Entries -> BOOLEAN]
    /\ rented \in [Entries -> BOOLEAN]
    /\ revive_pending \in [Entries -> BOOLEAN]
    /\ revive_lock \in [Entries -> BOOLEAN]
    /\ pc \in [Requests -> RequestPC]
    /\ at \in [Requests -> Entries]
    /\ left \in [Requests -> Int]
    /\ held \in [Requests -> Clients \cup {NoClient}]
    /\ kind \in [Requests -> Kinds]
    /\ granted \in [Requests -> BOOLEAN]
    /\ task \in [Entries -> TaskPC]
    /\ sup \in [Pools -> SupPC]
    /\ supAt \in [Pools -> Nat \ {0}]
    /\ supLen \in [Pools -> 0 .. PoolSize]
    /\ supHeld \in [Pools -> Clients \cup {NoClient}]

\* The pool never grows past pool_size, however many requests dial at once:
\* the re-check under grow_lock.
NoOvershoot == \A p \in Pools : clients[p] <= PoolSize

\* Every variable has its type, and no growth race takes a pool past its size.
PoolSound == TypeOK /\ NoOvershoot

\* The supervisor only works on entries of its snapshot.
SupInSnapshot ==
    \A p \in Pools : sup[p] \in {"rent", "load", "ping", "release", "spawn", "cas"} =>
                        supAt[p] <= supLen[p]

\* Positions past the end of `clients` are untouched, and the snapshots that
\* the scan and the supervisor work on lie inside it.
SlotInv ==
    /\ \A e \in Entries : ~Pushed(e) => ~dead[e] /\ ~rented[e]
    /\ \A r \in Requests : pc[r] = "scan" => clients[at[r][1]] >= PoolSize
    /\ \A p \in Pools : supLen[p] <= clients[p]

\* A rented entry has one user: two requests, or a request and the
\* supervisor's probe, never own the same entry, and an owner's flag is set.
ExclusiveRent ==
    /\ \A r \in Requests : Renting(r) => rented[at[r]]
    /\ \A p \in Pools : Probing(p) => rented[SupEntry(p)]
    /\ \A r, q \in Requests :
          Renting(r) /\ Renting(q) /\ at[r] = at[q] => r = q
    /\ \A r \in Requests, p \in Pools :
          Renting(r) /\ Probing(p) => at[r] # SupEntry(p)

\* A connection carries one exchange at a time.
Exchanging(r) == pc[r] \in {"request", "body"}

\* h1 is single-stream: no connection carries two exchanges (two requests, a
\* request and a probe) at the same time, whichever way it was obtained and
\* however revives swapped connections in between.
SingleStream ==
    /\ \A r, q \in Requests :
          Exchanging(r) /\ Exchanging(q) /\ held[r] = held[q] => r = q
    /\ \A r \in Requests, p \in Pools :
          Exchanging(r) /\ sup[p] = "ping" => held[r] # supHeld[p]
    /\ \A p, q \in Pools :
          sup[p] = "ping" /\ sup[q] = "ping" /\ supHeld[p] = supHeld[q] => p = q

\* Where a connection can be: in one entry, in one handle or under one probe,
\* or in an entry together with the handle or the probe that has rented it.
Lent(r, e) ==
    pc[r] \in {"request", "body", "drop"} /\ kind[r] = "Reusable" /\ at[r] = e

OneOwner ==
    /\ \A e, f \in Entries :
          Pushed(e) /\ Pushed(f) /\ client[e] = client[f] => e = f
    /\ \A r \in Requests, e \in Entries :
          Holding(r) /\ Pushed(e) /\ held[r] = client[e] => Lent(r, e)
    /\ \A r, q \in Requests :
          Holding(r) /\ Holding(q) /\ held[r] = held[q] => r = q
    /\ \A p \in Pools, e \in Entries :
          sup[p] = "ping" /\ Pushed(e) /\ supHeld[p] = client[e] =>
              e = SupEntry(p)
    /\ \A p \in Pools, r \in Requests :
          sup[p] = "ping" /\ Holding(r) => supHeld[p] # held[r]
    /\ \A p, q \in Pools :
          sup[p] = "ping" /\ sup[q] = "ping" /\ supHeld[p] = supHeld[q] => p = q

\* While a pooled connection carries a request, its entry is not dead and
\* still holds that very connection: no revive swaps it out underneath, and a
\* failure that the request reports concerns the connection it used.
NoSwapUnderRequest ==
    \A r \in Requests :
        Exchanging(r) /\ kind[r] = "Reusable" =>
            ~dead[at[r]] /\ client[at[r]] = held[r]

\* The same from the moment get_connection has decided to hand the entry out.
HandedOutAlive ==
    \A r \in Requests : pc[r] = "load" => ~dead[at[r]]

\* Foreground and background revives of one entry never dial at the same
\* time, and a revive in progress is a revive of a dead entry.
Reviving == {"reviveDial", "reviveClear"}

OneRevive ==
    /\ \A e \in Entries : task[e] \in Reviving => dead[e] /\ revive_lock[e]
    /\ \A r \in Requests :
          pc[r] \in Reviving => /\ dead[at[r]] /\ revive_lock[at[r]]
                                /\ task[at[r]] \notin Reviving
    /\ \A r, q \in Requests :
          pc[r] \in Reviving /\ pc[q] \in Reviving /\ at[r] = at[q] => r = q

\* The connection of a live entry is never replaced.
ReplaceOnlyDead ==
    [][\A e \in Entries :
          Pushed(e) /\ client'[e] # client[e] => dead[e]]_vars

\* revive_pending is set exactly while a background task exists: ticks never
\* stack tasks, and no exit of a task leaves the entry unrevivable.
PendingIffTask == \A e \in Entries : revive_pending[e] <=> task[e] # "none"

\* The flags of an entry, separate atomics that are read and written in
\* different steps, tell the truth together: rented has one owner, a revive is
\* alone and works on a dead entry, revive_pending stands for a task
\* (try_rent, revive_entry, RevivePendingGuard).
FlagsTellTheTruth == ExclusiveRent /\ OneRevive /\ PendingIffTask

\* Who owns a unit of the counters.
CountedGlobally(r) ==
    \/ pc[r] \in {"lostPool", "reservePool", "overflowDial", "undoGlobal"}
    \/ pc[r] \in {"request", "body", "drop"} /\ kind[r] = "Disposable"

CountedInPool(r) ==
    \/ pc[r] \in {"overflowDial", "undoGlobal", "undoPool", "dropPool"}
    \/ pc[r] \in {"request", "body", "drop"} /\ kind[r] = "Disposable"

\* No disposable escapes the counters, and neither counter goes negative:
\* each counts at least its live owners.
NeverUndercounted ==
    /\ DISPOSABLE_COUNTER >= Cardinality({r \in Requests : CountedGlobally(r)})
    /\ \A p \in Pools :
          live_disposables[p] >=
              Cardinality({r \in Requests : CountedInPool(r) /\ PoolOf(r) = p})

\* Phase 2 never grants more disposables than either budget allows, although
\* the two reservations are separate atomics that others interleave with.
OverflowWithinBudget ==
    LET Overflow == {r \in Requests : granted[r] /\
                        (pc[r] = "overflowDial" \/ Exchanging(r))}
    IN  /\ Cardinality(Overflow) <= MAX_DISPOSABLE
        /\ \A p \in Pools :
              Cardinality({r \in Overflow : PoolOf(r) = p}) <= MaxDisposables

\* "any inc has a matching dec (on `Disposable::drop` or an undo)": the
\* counters are exactly the live disposables and reservations.
MatchingDec ==
    /\ DISPOSABLE_COUNTER = Cardinality({r \in Requests : CountedGlobally(r)})
    /\ \A p \in Pools :
          live_disposables[p] =
              Cardinality({r \in Requests : CountedInPool(r) /\ PoolOf(r) = p})

\* "`true` while a request is in-flight on this client": a set rented flag
\* belongs to a request or to a probe.
RentedInFlight ==
    \A e \in Entries : rented[e] =>
        \/ \E r \in Requests : Renting(r) /\ at[r] = e
        \/ \E p \in Pools : Probing(p) /\ SupEntry(p) = e

\* Every get_connection call returns, with a handle or with an Err: the
\* overflow wait does not spin for ever and no lock is waited for in vain.
GetConnectionReturns ==
    \A r \in Requests : pc[r] = "top" ~> pc[r] \in {"request", "idle"}

\* A dead entry is revived (or its pool drained) once the upstream accepts
\* connections again, even if no request ever comes: the supervisor's job.
DeadIsRevived ==
    \A e \in Entries : dead[e] ~> (~dead[e] \/ shutdown[e[1]])

\* No entry is lost to the pool while clients stay: a rented one has an owner
\* who will release it, a dead one is revived (release_rent, supervisor_tick).
NoEntryIsLost == []RentedInFlight /\ DeadIsRevived

=============================================================================
