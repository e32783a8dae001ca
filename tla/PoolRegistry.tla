---------------------------- MODULE PoolRegistry ----------------------------
(***************************************************************************)
(* The life of a location's upstream pool: created by the first request   *)
(* that misses it in H1PoolRegistry (H2PoolRegistry is the same code),    *)
(* adopted by a configuration reload through its id_string, drained by    *)
(* GcPoolsTimer when the current configuration no longer names its id,    *)
(* and published on two gauges by the supervisor and the revive tasks.    *)
(*                                                                         *)
(* What the model keeps apart:                                             *)
(*  - a location (its id_string: listen host, path, upstream) from its id, *)
(*    the number a compile gives it; one host carries one location;        *)
(*  - the id from the pool instances made for it, one after the other;     *)
(*  - the configuration now in force from the one a client connection      *)
(*    was accepted under: HttpProxyPass keeps the ids it was built with.   *)
(*                                                                         *)
(* write_lock is held exactly while a request is between the registry     *)
(* store and the gauge write of ensure_pool, or while drain_unused runs.  *)
(***************************************************************************)
EXTENDS Naturals

CONSTANTS
    Locations,      \* the id_strings the settings can mention
    Ports,          \* listen ports
    PortOf,         \* the port of the host each location belongs to
    Requests,       \* client connections, each serving one request at a time
    Publishers,     \* supervisor ticks and revive tasks that publish the gauge
    Reloaders,      \* reloads that may run at the same time
    MaxId,          \* bound: ids the process counter hands out
    MaxPools        \* bound: pool instances ever made

ASSUME RegistryAssumption ==
    /\ PortOf \in [Locations -> Ports]
    /\ MaxId \in Nat
    /\ MaxPools \in Nat

VARIABLES
    cfg,        \* current_configuration: id of each location, 0 = absent
    nextId,     \* AppContext.id
    job,        \* per reloader: the reload in progress
    reg,        \* pools: the registered pool instances
    made,       \* pool instances 1..made exist
    desc,       \* PoolDesc of each instance: location_id and id_string
    shutdown,   \* the shutdown flag of each instance
    conn,       \* per request: the location and id its connection is bound to
    rpc, held,  \* per request: where it is, and the pool it was given
    gpc,        \* GcPoolsTimer: where it is,
    desired,    \*   the ids it collected,
    cur,        \*   the vector drain_unused loaded,
    victims,    \*   the pools of it still to shut down,
    victim,     \*   and the one whose gauges are reset next
    ppc, pool,  \* per publisher: where it is, and the pool it publishes
    size, alive \* the two gauges of each label (a label names one id)

regVars == <<reg, made, desc>>
cfgVars == <<cfg, nextId, job>>
reqVars == <<conn, rpc, held>>
pubVars == <<ppc, pool>>
gcVars  == <<gpc, desired, cur, victims, victim>>
gauges  == <<size, alive>>
vars == <<cfgVars, regVars, shutdown, reqVars, gcVars, pubVars, gauges>>

Ids == 1..MaxId
Pools == 1..MaxPools

\* A PoolDesc; the instances not made yet carry NoDesc.
Descs == [id : Ids, loc : Locations]
NoDesc == [id |-> 0]

Nothing == [s \in Locations |-> 0]
Jobs == [pc : {"idle", "compile"}, full : BOOLEAN, scope : SUBSET Locations,
         hosts : SUBSET Locations, todo : SUBSET Locations, out : [Locations -> 0..MaxId]]
IdleJob == [pc |-> "idle", full |-> FALSE, scope |-> {}, hosts |-> {}, todo |-> {},
            out |-> Nothing]

Init ==
    /\ cfg = [s \in Locations |-> 0]
    /\ nextId = 1
    /\ job = [w \in Reloaders |-> IdleJob]
    /\ reg = {}
    /\ made = 0
    /\ desc = [i \in Pools |-> NoDesc]
    /\ shutdown = [i \in Pools |-> FALSE]
    /\ conn = [r \in Requests |-> NoDesc]
    /\ rpc = [r \in Requests |-> "closed"]
    /\ held = [r \in Requests |-> 0]
    /\ gpc = "idle"
    /\ desired = {}
    /\ cur = {}
    /\ victims = {}
    /\ victim = 0
    /\ ppc = [p \in Publishers |-> "idle"]
    /\ pool = [p \in Publishers |-> 0]
    /\ size = [d \in Ids |-> 0]
    /\ alive = [d \in Ids |-> 0]

\* write_lock is not held.
WriteLockFree ==
    /\ gpc \notin {"drain", "reset"}
    /\ \A r \in Requests : rpc[r] # "size"

\* pools.get(location_id)
Registered(d) == {i \in reg : desc[i].id = d}

-----------------------------------------------------------------------------
(* Reloading the configuration. A reload replaces the part `scope` of the  *)
(* configuration by `out`, which starts from what the reload read there    *)
(* and is filled in as it compiles the locations in `todo`.                *)

StartJob(w, full, scope, hosts, todo, base) ==
    /\ job[w].pc = "idle"
    /\ job' = [job EXCEPT ![w] =
                  [pc |-> "compile", full |-> full, scope |-> scope,
                   hosts |-> hosts, todo |-> todo, out |-> base]]
    /\ UNCHANGED <<cfg, nextId, regVars, shutdown, reqVars, gcVars, pubVars, gauges>>

OnPort(p) == {s \in Locations : PortOf[s] = p}

\* load_everything_from_settings: the whole configuration, built from empty maps.
ReloadEverything(w) ==
    \E todo \in SUBSET Locations : StartJob(w, TRUE, Locations, Locations, todo, Nothing)

\* reload_tcp_port_configurations: one port, built from nothing.
ReloadPort(w, p) ==
    \E todo \in SUBSET OnPort(p) : StartJob(w, FALSE, OnPort(p), OnPort(p), todo, Nothing)

\* update_host_configuration: one host, merged into the port as it is now.
ReloadHost(w, s) == StartJob(w, FALSE, OnPort(PortOf[s]), {s}, {s}, cfg)

\* delete_http_endpoint_if_exists: one host, removed from the port as it is now.
DeleteHost(w, s) ==
    /\ cfg[s] # 0
    /\ StartJob(w, FALSE, OnPort(PortOf[s]), {s}, {}, [cfg EXCEPT ![s] = 0])

\* find_location_id_by_id_string: the vectors are sorted by id and the scan
\* returns the first match.
Matching(s) == {desc[i].id : i \in {j \in reg : desc[j].loc = s}}
FindLocationId(s) == {d \in Matching(s) : \A e \in Matching(s) : d <= e}

\* A bug: the scan compares less than the whole id_string.
CompileLocationLoose(w, s) ==
    /\ job[w].pc = "compile"
    /\ s \in job[w].todo
    /\ \/ \E i \in reg :
            /\ job' = [job EXCEPT ![w].todo = @ \ {s}, ![w].out[s] = desc[i].id]
            /\ UNCHANGED nextId
       \/ /\ reg = {}
          /\ nextId <= MaxId
          /\ job' = [job EXCEPT ![w].todo = @ \ {s}, ![w].out[s] = nextId]
          /\ nextId' = nextId + 1
    /\ UNCHANGED <<cfg, regVars, shutdown, reqVars, gcVars, pubVars, gauges>>

\* ProxyPassLocationConfig::new: adopt the id of a live pool or take a fresh one.
CompileLocation(w, s) ==
    /\ job[w].pc = "compile"
    /\ s \in job[w].todo
    /\ \/ \E d \in FindLocationId(s) :
            /\ job' = [job EXCEPT ![w].todo = @ \ {s}, ![w].out[s] = d]
            /\ UNCHANGED nextId
       \/ /\ FindLocationId(s) = {}
          /\ nextId <= MaxId
          /\ job' = [job EXCEPT ![w].todo = @ \ {s}, ![w].out[s] = nextId]
          /\ nextId' = nextId + 1
    /\ UNCHANGED <<cfg, regVars, shutdown, reqVars, gcVars, pubVars, gauges>>

\* A compile error ends a targeted reload; the full one leaves the host out.
CompileFails(w, s) ==
    /\ job[w].pc = "compile"
    /\ s \in job[w].todo
    /\ \/ job[w].full /\ job' = [job EXCEPT ![w].todo = @ \ {s}]
       \/ ~job[w].full /\ job' = [job EXCEPT ![w] = IdleJob]
    /\ UNCHANGED <<cfg, nextId, regVars, shutdown, reqVars, gcVars, pubVars, gauges>>

\* current_configuration.write
Apply(w) ==
    /\ job[w].pc = "compile"
    /\ job[w].todo = {}
    /\ cfg' = [s \in Locations |-> IF s \in job[w].scope THEN job[w].out[s] ELSE cfg[s]]
    /\ job' = [job EXCEPT ![w] = IdleJob]
    /\ UNCHANGED <<nextId, regVars, shutdown, reqVars, gcVars, pubVars, gauges>>

-----------------------------------------------------------------------------
(* Requests: HttpProxyPass::new binds the connection, a content source     *)
(* looks its pool up and creates it on a miss.                             *)

Accept(r) ==
    /\ rpc[r] = "closed"
    /\ \E s \in Locations :
         /\ cfg[s] # 0
         /\ conn' = [conn EXCEPT ![r] = [id |-> cfg[s], loc |-> s]]
    /\ rpc' = [rpc EXCEPT ![r] = "open"]
    /\ UNCHANGED <<cfgVars, regVars, shutdown, held, gcVars, pubVars, gauges>>

Close(r) ==
    /\ rpc[r] = "open"
    /\ conn' = [conn EXCEPT ![r] = NoDesc]
    /\ rpc' = [rpc EXCEPT ![r] = "closed"]
    /\ UNCHANGED <<cfgVars, regVars, shutdown, held, gcVars, pubVars, gauges>>

\* get, then the lock-free look of ensure_pool: either may hit.
Get(r) ==
    /\ rpc[r] = "open"
    /\ \/ \E i \in Registered(conn[r].id) :
            /\ held' = [held EXCEPT ![r] = i]
            /\ rpc' = [rpc EXCEPT ![r] = "use"]
       \/ /\ Registered(conn[r].id) = {}
          /\ rpc' = [rpc EXCEPT ![r] = "lock"]
          /\ UNCHANGED held
    /\ UNCHANGED <<cfgVars, regVars, shutdown, conn, gcVars, pubVars, gauges>>

\* ensure_pool under the lock finds the pool another request made meanwhile.
EnsureExisting(r) ==
    /\ rpc[r] = "lock"
    /\ WriteLockFree
    /\ \E i \in Registered(conn[r].id) : held' = [held EXCEPT ![r] = i]
    /\ rpc' = [rpc EXCEPT ![r] = "use"]
    /\ UNCHANGED <<cfgVars, regVars, shutdown, conn, gcVars, pubVars, gauges>>

\* insert_or_replace of a new instance, and the store of the new vector.
InsertPool(r) ==
    /\ made < MaxPools
    /\ made' = made + 1
    /\ desc' = [desc EXCEPT ![made + 1] = conn[r]]
    /\ reg' = (reg \ Registered(conn[r].id)) \cup {made + 1}
    /\ held' = [held EXCEPT ![r] = made + 1]
    /\ rpc' = [rpc EXCEPT ![r] = "size"]
    /\ UNCHANGED <<cfgVars, shutdown, conn, gcVars, pubVars, gauges>>

\* A bug: the lock is not taken, so a drain in progress stores its own vector.
EnsureInsertUnlocked(r) ==
    /\ rpc[r] = "lock"
    /\ Registered(conn[r].id) = {}
    /\ InsertPool(r)

\* ensure_pool under the lock: still no pool, so make one.
EnsureInsert(r) ==
    /\ rpc[r] = "lock"
    /\ WriteLockFree
    /\ Registered(conn[r].id) = {}
    /\ InsertPool(r)

\* A bug: the lock guard outlives ensure_pool.
EnsureSizeKeepsLock(r) ==
    /\ rpc[r] = "size"
    /\ size' = [size EXCEPT ![conn[r].id] = 1]
    /\ UNCHANGED <<cfgVars, regVars, shutdown, reqVars, gcVars, pubVars, alive>>

\* set_h1_pool_size, the last statement under the lock.
EnsureSize(r) ==
    /\ rpc[r] = "size"
    /\ size' = [size EXCEPT ![conn[r].id] = 1]
    /\ rpc' = [rpc EXCEPT ![r] = "use"]
    /\ UNCHANGED <<cfgVars, regVars, shutdown, conn, held, gcVars, pubVars, alive>>

Finish(r) ==
    /\ rpc[r] = "use"
    /\ held' = [held EXCEPT ![r] = 0]
    /\ rpc' = [rpc EXCEPT ![r] = "open"]
    /\ UNCHANGED <<cfgVars, regVars, shutdown, conn, gcVars, pubVars, gauges>>

-----------------------------------------------------------------------------
(* GcPoolsTimer::tick.                                                     *)

\* A bug: every id ever handed out counts as referenced.
GcCollectHandedOut ==
    /\ gpc = "idle"
    /\ gpc' = "collected"
    /\ desired' = 1..(nextId - 1)
    /\ UNCHANGED <<cfgVars, regVars, shutdown, reqVars, cur, victims, victim, pubVars, gauges>>

\* collect_desired_keys under the configuration's read lock.
GcCollect ==
    /\ gpc = "idle"
    /\ gpc' = "collected"
    /\ desired' = {cfg[s] : s \in Locations} \ {0}
    /\ UNCHANGED <<cfgVars, regVars, shutdown, reqVars, cur, victims, victim, pubVars, gauges>>

\* drain_unused takes the lock and loads the vector.
DrainBegin ==
    /\ gpc = "collected"
    /\ WriteLockFree
    /\ gpc' = "drain"
    /\ cur' = reg
    /\ victims' = {i \in reg : desc[i].id \notin desired}
    /\ UNCHANGED <<cfgVars, regVars, shutdown, reqVars, desired, victim, pubVars, gauges>>

DrainShutdown ==
    /\ gpc = "drain"
    /\ \E i \in victims :
         /\ shutdown' = [shutdown EXCEPT ![i] = TRUE]
         /\ victim' = i
    /\ gpc' = "reset"
    /\ UNCHANGED <<cfgVars, regVars, reqVars, desired, cur, victims, pubVars, gauges>>

\* reset_h1_pool
DrainReset ==
    /\ gpc = "reset"
    /\ size' = [size EXCEPT ![desc[victim].id] = 0]
    /\ alive' = [alive EXCEPT ![desc[victim].id] = 0]
    /\ gpc' = "drain"
    /\ victims' = victims \ {victim}
    /\ victim' = 0
    /\ UNCHANGED <<cfgVars, regVars, shutdown, reqVars, desired, cur, pubVars>>

\* pools.store, and the lock is released.
DrainStore ==
    /\ gpc = "drain"
    /\ victims = {}
    /\ reg' = {i \in cur : desc[i].id \in desired}
    /\ gpc' = "idle"
    /\ desired' = {}
    /\ cur' = {}
    /\ UNCHANGED <<cfgVars, made, desc, shutdown, reqVars, victims, victim, pubVars, gauges>>

-----------------------------------------------------------------------------
(* publish_alive_gauge, from supervisor_tick and from a revive task.       *)

PublishBegin(p) ==
    /\ ppc[p] = "idle"
    /\ \E i \in reg : pool' = [pool EXCEPT ![p] = i]
    /\ ppc' = [ppc EXCEPT ![p] = "check"]
    /\ UNCHANGED <<cfgVars, regVars, shutdown, reqVars, gcVars, gauges>>

PublishEnds(p) ==
    /\ ppc' = [ppc EXCEPT ![p] = "idle"]
    /\ pool' = [pool EXCEPT ![p] = 0]

PublishCheck(p) ==
    /\ ppc[p] = "check"
    /\ \/ shutdown[pool[p]] /\ PublishEnds(p)
       \/ /\ ~shutdown[pool[p]]
          /\ ppc' = [ppc EXCEPT ![p] = "set"]
          /\ UNCHANGED pool
    /\ UNCHANGED <<cfgVars, regVars, shutdown, reqVars, gcVars, gauges>>

PublishSet(p) ==
    /\ ppc[p] = "set"
    /\ \E n \in 0..1 : alive' = [alive EXCEPT ![desc[pool[p]].id] = n]
    /\ ppc' = [ppc EXCEPT ![p] = "recheck"]
    /\ UNCHANGED <<cfgVars, regVars, shutdown, reqVars, gcVars, pool, size>>

\* A bug: the write is not re-checked.
PublishRecheckNever(p) ==
    /\ ppc[p] = "recheck"
    /\ PublishEnds(p)
    /\ UNCHANGED <<cfgVars, regVars, shutdown, reqVars, gcVars, gauges>>

PublishRecheck(p) ==
    /\ ppc[p] = "recheck"
    /\ \/ ~shutdown[pool[p]] /\ PublishEnds(p)
       \/ /\ shutdown[pool[p]]
          /\ ppc' = [ppc EXCEPT ![p] = "reset"]
          /\ UNCHANGED pool
    /\ UNCHANGED <<cfgVars, regVars, shutdown, reqVars, gcVars, gauges>>

PublishReset(p) ==
    /\ ppc[p] = "reset"
    /\ size' = [size EXCEPT ![desc[pool[p]].id] = 0]
    /\ alive' = [alive EXCEPT ![desc[pool[p]].id] = 0]
    /\ PublishEnds(p)
    /\ UNCHANGED <<cfgVars, regVars, shutdown, reqVars, gcVars>>

-----------------------------------------------------------------------------
ReloadStep(w) ==
    \/ ReloadEverything(w)
    \/ \E p \in Ports : ReloadPort(w, p)
    \/ \E s \in Locations :
         ReloadHost(w, s) \/ DeleteHost(w, s) \/ CompileLocation(w, s) \/ CompileFails(w, s)
    \/ Apply(w)

RequestStep(r) ==
    Accept(r) \/ Close(r) \/ Get(r) \/ EnsureExisting(r) \/ EnsureInsert(r)
    \/ EnsureSize(r) \/ Finish(r)

GcStep == GcCollect \/ DrainBegin \/ DrainShutdown \/ DrainReset \/ DrainStore

PublisherStep(p) ==
    PublishBegin(p) \/ PublishCheck(p) \/ PublishSet(p) \/ PublishRecheck(p) \/ PublishReset(p)

Next ==
    \/ \E w \in Reloaders : ReloadStep(w)
    \/ \E r \in Requests : RequestStep(r)
    \/ GcStep
    \/ \E p \in Publishers : PublisherStep(p)

Spec == Init /\ [][Next]_vars

\* The timer ticks for ever, a task that has started runs on, and
\* parking_lot's mutex is eventually fair: a waiter that finds the lock free
\* again and again gets it. Requests, reloads and publishes need not come.
Fairness ==
    /\ WF_vars(GcCollect) /\ SF_vars(DrainBegin)
    /\ WF_vars(DrainShutdown) /\ WF_vars(DrainReset) /\ WF_vars(DrainStore)
    /\ \A r \in Requests :
         /\ SF_vars(EnsureExisting(r)) /\ SF_vars(EnsureInsert(r))
         /\ WF_vars(EnsureSize(r))

FairSpec == Spec /\ Fairness

-----------------------------------------------------------------------------
\* Every variable has its type; whatever names a pool instance names one that
\* was made (H1PoolRegistry, GcPoolsTimer).
TypeOK ==
    /\ cfg \in [Locations -> 0..MaxId]
    /\ nextId \in 1..MaxId + 1
    /\ job \in [Reloaders -> Jobs]
    /\ made \in 0..MaxPools
    /\ reg \subseteq 1..made
    /\ desc \in [Pools -> Descs \cup {NoDesc}]
    /\ shutdown \in [Pools -> BOOLEAN]
    /\ conn \in [Requests -> Descs \cup {NoDesc}]
    /\ rpc \in [Requests -> {"closed", "open", "lock", "size", "use"}]
    /\ held \in [Requests -> 0..made]
    /\ gpc \in {"idle", "collected", "drain", "reset"}
    /\ desired \subseteq Ids
    /\ cur \subseteq 1..made
    /\ victims \subseteq 1..made
    /\ victim \in 0..made
    /\ ppc \in [Publishers -> {"idle", "check", "set", "recheck", "reset"}]
    /\ pool \in [Publishers -> 0..made]
    /\ size \in [Ids -> 0..1]
    /\ alive \in [Ids -> 0..1]

(***************************************************************************)
(* "Serializes writes so they don't race with each other and accidentally *)
(* drop a freshly-added pool": a pool that was not shut down is in the    *)
(* registry, so the supervisor and the next drain still see it; and once  *)
(* no drain is running nothing in the registry is shut down, so a request *)
(* is never handed a pool nobody maintains any more.                      *)
(***************************************************************************)
RegisteredWhileLive ==
    \A i \in 1..made :
        /\ ~shutdown[i] => i \in reg
        /\ shutdown[i] /\ gpc \notin {"drain", "reset"} => i \notin reg

(***************************************************************************)
(* "No double-create": two instances alive at one time never serve the    *)
(* same id.                                                                *)
(***************************************************************************)
OnePoolPerId ==
    \A i, j \in 1..made :
        ~shutdown[i] /\ ~shutdown[j] /\ desc[i].id = desc[j].id => i = j

(***************************************************************************)
(* Every variable has its type, an id has one live pool, and the registry  *)
(* holds exactly the live ones (ensure_pool, drain_unused).                *)
(***************************************************************************)
RegistrySound == TypeOK /\ RegisteredWhileLive /\ OnePoolPerId

(***************************************************************************)
(* "Each location maps to its own pool": whatever reloads, adoptions and  *)
(* drains ran since its connection was accepted, a request is given a     *)
(* pool made for its own location's upstream.                             *)
(***************************************************************************)
RightUpstream ==
    \A r \in Requests : held[r] # 0 => desc[held[r]].loc = conn[r].loc

(***************************************************************************)
(* "A removed pool's label must stay reset (nothing will ever reset it    *)
(* again)": once the drain that removed it is over, the label of an id    *)
(* with no pool reads 0, unless a publisher is just about to undo its     *)
(* write.                                                                  *)
(***************************************************************************)
LabelStaysReset ==
    \A d \in Ids :
        Registered(d) = {} =>
            /\ size[d] = 0 \/ ~WriteLockFree
            /\ \/ alive[d] = 0
               \/ \E p \in Publishers :
                    ppc[p] \in {"recheck", "reset"} /\ desc[pool[p]].id = d

(***************************************************************************)
(* A pool whose id stays out of the configuration is drained in the end:  *)
(* the timer is the only mechanism that removes pools.                    *)
(***************************************************************************)
UnreferencedIsDrained ==
    \A i \in Pools :
        <>[](i <= made /\ \A s \in Locations : cfg[s] # desc[i].id) => <>(shutdown[i])

(***************************************************************************)
(* A request that missed its pool gets one: the write lock is never kept, *)
(* whatever the other requests and the drain do.  (MaxPools, the bound on *)
(* the instances, ends the wait too.)                                     *)
(***************************************************************************)
MissIsServed ==
    \A r \in Requests :
        rpc[r] = "lock" ~> rpc[r] = "use" \/ made = MaxPools

(***************************************************************************)
(* update_host_configuration.rs: the port's configuration is read first   *)
(* "so multiple hosts on the same port merge": applying the reload of one *)
(* host leaves the other hosts of its port as they are.                   *)
(***************************************************************************)
OtherHostsKept ==
    [][\A w \in Reloaders : Apply(w) =>
            \A s \in job[w].scope \ job[w].hosts : cfg'[s] = cfg[s]]_vars
=============================================================================
