------------------------- MODULE PoolRegistry_proofs -------------------------
(***************************************************************************)
(* Proofs about PoolRegistry, for any number of locations, connections,    *)
(* publishers and concurrent reloads.                                      *)
(***************************************************************************)
EXTENDS PoolRegistry, TLAPS

Draining == gpc \in {"drain", "reset"}

\* write_lock has one holder.
LockInv ==
    \A r \in Requests : rpc[r] = "size" =>
        /\ ~Draining
        /\ \A q \in Requests : rpc[q] = "size" => q = r

\* Made instances have a description; a bound connection has one too.
DescInv ==
    /\ \A i \in 1..made : desc[i] \in Descs
    /\ \A i \in Pools : i > made => ~shutdown[i]
    /\ \A r \in Requests : rpc[r] # "closed" => conn[r] \in Descs

\* The registry is keyed by id, and a running drain works on what it holds.
DrainInv ==
    /\ \A i, j \in reg : desc[i].id = desc[j].id => i = j
    /\ Draining =>
         /\ cur = reg
         /\ victims \subseteq {i \in reg : desc[i].id \notin desired}
         /\ \A i \in reg : desc[i].id \in desired => ~shutdown[i]
         /\ \A i \in reg : desc[i].id \notin desired /\ i \notin victims => shutdown[i]
    /\ gpc = "reset" => victim \in victims /\ shutdown[victim]

\* A request between the store and the gauge has a live pool of its own id.
HeldInv ==
    \A r \in Requests :
        /\ held[r] # 0 => /\ rpc[r] \in {"size", "use"}
                          /\ desc[held[r]].id = conn[r].id
        /\ rpc[r] = "size" => held[r] # 0 /\ ~shutdown[held[r]]

RegInv == LockInv /\ DescInv /\ DrainInv /\ HeldInv /\ RegisteredWhileLive

\* Id d has been given to location s, and some part of the program knows.
Names(d, s) ==
    \/ cfg[s] = d
    \/ \E w \in Reloaders : job[w].out[s] = d
    \/ \E r \in Requests : conn[r] = [id |-> d, loc |-> s]
    \/ \E i \in 1..made : desc[i] = [id |-> d, loc |-> s]

\* An id names one location, and only ids already handed out are in use.
NamesInv ==
    \A d \in Ids : \A s \in Locations : Names(d, s) =>
        /\ d < nextId
        /\ \A t \in Locations : Names(d, t) => s = t

\* Every instance of the id is shut down and its gauges were reset.
Retired(d) ==
    \A i \in 1..made : desc[i].id = d =>
        shutdown[i] /\ ~(gpc = "reset" /\ victim = i)

Undoing(d) ==
    \E p \in Publishers : ppc[p] \in {"recheck", "reset"} /\ desc[pool[p]].id = d

\* The gauges of a retired label read 0, or a publisher is about to undo its write.
GaugeInv ==
    /\ \A p \in Publishers : ppc[p] # "idle" => pool[p] # 0
    /\ \A d \in Ids : Retired(d) => size[d] = 0 /\ (alive[d] = 0 \/ Undoing(d))

-----------------------------------------------------------------------------
LEMMA TypeInit == Init => TypeOK
  BY RegistryAssumption DEF Init, TypeOK, Jobs, IdleJob, Nothing, Ids, Pools, NoDesc

\* Writing a gauge keeps its type.
LEMMA GaugeType ==
    ASSUME NEW f \in [Ids -> 0..1], NEW d, NEW n \in 0..1
    PROVE  [f EXCEPT ![d] = n] \in [Ids -> 0..1]
  OBVIOUS

\* Starting a reload of any kind only stores a well-typed job.
LEMMA StartJobType ==
    ASSUME TypeOK, NEW w \in Reloaders, NEW full \in BOOLEAN,
           NEW scope \in SUBSET Locations, NEW hosts \in SUBSET Locations,
           NEW todo \in SUBSET Locations, NEW base \in [Locations -> 0..MaxId],
           StartJob(w, full, scope, hosts, todo, base)
    PROVE  TypeOK'
  BY DEF StartJob, TypeOK, Jobs, regVars, reqVars, gcVars, pubVars, gauges

LEMMA ReloadType ==
    ASSUME TypeOK, NEW w \in Reloaders, ReloadStep(w) PROVE TypeOK'
  <1> USE RegistryAssumption
  <1>0. Nothing \in [Locations -> 0..MaxId] /\ cfg \in [Locations -> 0..MaxId]
        /\ \A p : OnPort(p) \in SUBSET Locations
    BY DEF Nothing, OnPort, TypeOK
  <1>1. CASE ReloadEverything(w)
    BY <1>0, <1>1, StartJobType DEF ReloadEverything
  <1>2. ASSUME NEW p \in Ports, ReloadPort(w, p) PROVE TypeOK'
    BY <1>0, <1>2, StartJobType DEF ReloadPort
  <1>3. ASSUME NEW s \in Locations, ReloadHost(w, s) PROVE TypeOK'
    BY <1>0, <1>3, StartJobType DEF ReloadHost
  <1>4. ASSUME NEW s \in Locations, DeleteHost(w, s) PROVE TypeOK'
    <2>1. [cfg EXCEPT ![s] = 0] \in [Locations -> 0..MaxId]
      BY <1>0
    <2> QED
      BY <1>0, <1>4, <2>1, StartJobType DEF DeleteHost
  <1>5. ASSUME NEW s \in Locations, CompileLocation(w, s) PROVE TypeOK'
    <2>0. job[w] \in Jobs /\ job \in [Reloaders -> Jobs] /\ nextId \in 1..MaxId + 1
      BY DEF TypeOK
    <2>1. PICK d \in 0..MaxId, n \in 1..MaxId + 1 :
             /\ job' = [job EXCEPT ![w].todo = @ \ {s}, ![w].out[s] = d]
             /\ nextId' = n
      <3>1. FindLocationId(s) \subseteq 0..MaxId
        <4>1. \A i \in reg : desc[i].id \in 0..MaxId
          <5>1. \A i \in reg : i \in Pools /\ desc[i] \in Descs \cup {NoDesc}
            BY DEF TypeOK, Pools
          <5> QED
            BY <5>1 DEF Descs, NoDesc, Ids
        <4> QED
          BY <4>1 DEF Matching, FindLocationId
      <3>2. CASE FindLocationId(s) = {}
        BY <1>5, <2>0, <3>2 DEF CompileLocation
      <3>3. CASE FindLocationId(s) # {}
        BY <1>5, <2>0, <3>1, <3>3 DEF CompileLocation
      <3> QED
        BY <3>2, <3>3
    <2>2. job' \in [Reloaders -> Jobs]
      <3>1. job' = [job EXCEPT ![w] = [job[w] EXCEPT !.todo = @ \ {s}, !.out[s] = d]]
        BY <2>0, <2>1 DEF Jobs
      <3>2. [job[w] EXCEPT !.todo = @ \ {s}, !.out[s] = d] \in Jobs
        BY <2>0 DEF Jobs
      <3> QED
        BY <2>0, <3>1, <3>2
    <2> QED
      BY <1>5, <2>1, <2>2 DEF CompileLocation, TypeOK, regVars, reqVars, gcVars, pubVars, gauges
  <1>6. ASSUME NEW s \in Locations, CompileFails(w, s) PROVE TypeOK'
    <2>1. job \in [Reloaders -> Jobs] /\ IdleJob \in Jobs
      BY <1>0 DEF TypeOK, Jobs, IdleJob
    <2>2. job' \in [Reloaders -> Jobs]
      <3>1. CASE job[w].full
        <4>1. job' = [job EXCEPT ![w] = [job[w] EXCEPT !.todo = @ \ {s}]]
          BY <1>6, <3>1 DEF CompileFails
        <4>2. [job[w] EXCEPT !.todo = @ \ {s}] \in Jobs
          BY <2>1 DEF Jobs
        <4> QED
          BY <2>1, <4>1, <4>2
      <3>2. CASE ~job[w].full
        BY <1>6, <2>1, <3>2 DEF CompileFails
      <3> QED
        BY <3>1, <3>2
    <2> QED
      BY <1>6, <2>2 DEF CompileFails, TypeOK, regVars, reqVars, gcVars, pubVars, gauges
  <1>7. CASE Apply(w)
    BY <1>0, <1>7 DEF Apply, TypeOK, Jobs, IdleJob, regVars, reqVars, gcVars, pubVars, gauges
  <1> QED
    BY <1>1, <1>2, <1>3, <1>4, <1>5, <1>6, <1>7 DEF ReloadStep

LEMMA RequestType ==
    ASSUME TypeOK, NEW r \in Requests, RequestStep(r) PROVE TypeOK'
  <1> USE RegistryAssumption DEF TypeOK, cfgVars, regVars, reqVars, gcVars, pubVars, gauges
  <1>1. CASE Accept(r)
    BY <1>1 DEF Accept, Descs, Ids
  <1>2. CASE Close(r)
    BY <1>2 DEF Close
  <1>3. CASE Get(r)
    BY <1>3 DEF Get, Registered
  <1>4. CASE EnsureExisting(r)
    BY <1>4 DEF EnsureExisting, Registered
  <1>5. CASE EnsureInsert(r)
    <2>1. made + 1 \in Pools /\ made' = made + 1
      BY <1>5 DEF EnsureInsert, InsertPool, Pools
    <2>2. reg' \subseteq 1..made'
      BY <1>5, <2>1 DEF EnsureInsert, InsertPool
    <2> QED
      BY <1>5, <2>1, <2>2 DEF EnsureInsert, InsertPool, Pools
  <1>6. CASE EnsureSize(r)
    <2>1. size' \in [Ids -> 0..1]
      BY <1>6, GaugeType DEF EnsureSize
    <2> QED
      BY <1>6, <2>1 DEF EnsureSize
  <1>7. CASE Finish(r)
    BY <1>7 DEF Finish
  <1> QED
    BY <1>1, <1>2, <1>3, <1>4, <1>5, <1>6, <1>7 DEF RequestStep

LEMMA GcType == ASSUME TypeOK, GcStep PROVE TypeOK'
  <1> USE RegistryAssumption DEF TypeOK, cfgVars, regVars, reqVars, gcVars, pubVars, gauges
  <1>1. CASE GcCollect
    BY <1>1 DEF GcCollect, Ids
  <1>2. CASE DrainBegin
    BY <1>2 DEF DrainBegin, Pools
  <1>3. CASE DrainShutdown
    BY <1>3 DEF DrainShutdown, Pools
  <1>4. CASE DrainReset
    <2>1. size' \in [Ids -> 0..1] /\ alive' \in [Ids -> 0..1]
      BY <1>4, GaugeType DEF DrainReset
    <2> QED
      BY <1>4, <2>1 DEF DrainReset
  <1>5. CASE DrainStore
    BY <1>5 DEF DrainStore
  <1> QED
    BY <1>1, <1>2, <1>3, <1>4, <1>5 DEF GcStep

LEMMA PublisherType ==
    ASSUME TypeOK, NEW p \in Publishers, PublisherStep(p) PROVE TypeOK'
  <1> USE RegistryAssumption DEF TypeOK, cfgVars, regVars, reqVars, gcVars, pubVars, gauges
  <1>1. CASE PublishBegin(p)
    BY <1>1 DEF PublishBegin
  <1>2. CASE PublishCheck(p)
    BY <1>2 DEF PublishCheck, PublishEnds
  <1>3. CASE PublishSet(p)
    BY <1>3 DEF PublishSet
  <1>4. CASE PublishRecheck(p)
    BY <1>4 DEF PublishRecheck, PublishEnds
  <1>5. CASE PublishReset(p)
    <2>1. size' \in [Ids -> 0..1] /\ alive' \in [Ids -> 0..1]
      BY <1>5, GaugeType DEF PublishReset
    <2> QED
      BY <1>5, <2>1 DEF PublishReset, PublishEnds
  <1> QED
    BY <1>1, <1>2, <1>3, <1>4, <1>5 DEF PublisherStep

LEMMA TypeNext == TypeOK /\ [Next]_vars => TypeOK'
  <1> SUFFICES ASSUME TypeOK, [Next]_vars PROVE TypeOK'
    OBVIOUS
  <1>1. CASE UNCHANGED vars
    BY <1>1 DEF vars, TypeOK, cfgVars, regVars, reqVars, gcVars, pubVars, gauges
  <1> QED
    BY <1>1, ReloadType, RequestType, GcType, PublisherType DEF Next

\* The registry, its collector, its publishers and the reloads stay well typed.
THEOREM RegistryTypeCorrect == Spec => []TypeOK
  BY TypeInit, TypeNext, PTL DEF Spec

-----------------------------------------------------------------------------
LEMMA RegInit == Init => RegInv
  BY DEF Init, RegInv, LockInv, DescInv, DrainInv, HeldInv, RegisteredWhileLive, Draining

\* What a reload or a publisher leaves alone is all the registry rests on.
LEMMA RegStutter ==
    ASSUME RegInv, UNCHANGED <<regVars, shutdown, reqVars, gcVars>> PROVE RegInv'
  BY DEF RegInv, LockInv, DescInv, DrainInv, HeldInv, RegisteredWhileLive, Draining,
         regVars, reqVars, gcVars

LEMMA RegRequest ==
    ASSUME TypeOK, RegInv, NEW r \in Requests, RequestStep(r) PROVE RegInv'
  <1> USE RegistryAssumption DEF RegInv, cfgVars, regVars, reqVars, gcVars, pubVars
  <1>0. /\ made \in 0..MaxPools /\ reg \subseteq 1..made /\ made \in Nat
        /\ rpc \in [Requests -> {"closed", "open", "lock", "size", "use"}]
        /\ held \in [Requests -> 0..made] /\ conn \in [Requests -> Descs \cup {NoDesc}]
        /\ cfg \in [Locations -> 0..MaxId] /\ desc \in [Pools -> Descs \cup {NoDesc}]
    BY DEF TypeOK
  <1>1. CASE Accept(r)
    <2>1. conn'[r] \in Descs
      BY <1>0, <1>1 DEF Accept, Descs, Ids
    <2>2. LockInv' /\ DrainInv' /\ RegisteredWhileLive'
      BY <1>0, <1>1 DEF Accept, LockInv, DrainInv, RegisteredWhileLive, Draining
    <2>3. DescInv'
      BY <1>0, <1>1, <2>1 DEF Accept, DescInv
    <2>4. HeldInv'
      BY <1>0, <1>1 DEF Accept, HeldInv
    <2> QED
      BY <2>2, <2>3, <2>4
  <1>2. CASE Close(r)
    BY <1>0, <1>2 DEF Close, LockInv, DescInv, DrainInv, HeldInv, RegisteredWhileLive, Draining
  <1>3. CASE Get(r) \/ EnsureExisting(r)
    <2>1. LockInv'
      BY <1>0, <1>3 DEF Get, EnsureExisting, LockInv, Draining
    <2>2. DescInv'
      BY <1>0, <1>3 DEF Get, EnsureExisting, DescInv
    <2>3. DrainInv' /\ RegisteredWhileLive'
      BY <1>3 DEF Get, EnsureExisting, DrainInv, RegisteredWhileLive, Draining
    <2>4. HeldInv'
      BY <1>0, <1>3 DEF Get, EnsureExisting, Registered, HeldInv
    <2> QED
      BY <2>1, <2>2, <2>3, <2>4
  <1>4. CASE EnsureInsert(r)
    <2> DEFINE n == made + 1
    <2>1. /\ n \in Pools /\ n \notin 1..made /\ n # 0 /\ made' = n /\ 1..made' = 1..made \cup {n}
          /\ conn[r] \in Descs /\ ~shutdown[n] /\ ~Draining
          /\ Registered(conn[r].id) = {} /\ (\A q \in Requests : rpc[q] # "size")
      BY <1>0, <1>4 DEF EnsureInsert, InsertPool, WriteLockFree, Draining, DescInv, Pools
    <2>2. /\ desc' = [desc EXCEPT ![n] = conn[r]] /\ desc'[n] = conn[r]
          /\ \A i \in 1..made : desc'[i] = desc[i]
          /\ reg' = reg \cup {n}
      BY <1>0, <1>4, <2>1 DEF EnsureInsert, InsertPool, Pools
    <2>3. LockInv' /\ DescInv'
      BY <1>0, <1>4, <2>1, <2>2 DEF EnsureInsert, InsertPool, LockInv, DescInv, Draining, Pools
    <2>4. DrainInv'
      BY <1>0, <1>4, <2>1, <2>2 DEF EnsureInsert, InsertPool, DrainInv, Draining, Registered
    <2>5. HeldInv'
      BY <1>0, <1>4, <2>1, <2>2 DEF EnsureInsert, InsertPool, HeldInv
    <2>6. RegisteredWhileLive'
      BY <1>0, <1>4, <2>1, <2>2 DEF EnsureInsert, InsertPool, RegisteredWhileLive
    <2> QED
      BY <2>3, <2>4, <2>5, <2>6
  <1>5. CASE EnsureSize(r) \/ Finish(r)
    <2>1. LockInv'
      BY <1>0, <1>5 DEF EnsureSize, Finish, LockInv, Draining
    <2>2. DescInv'
      BY <1>0, <1>5 DEF EnsureSize, Finish, DescInv
    <2>3. DrainInv' /\ RegisteredWhileLive'
      BY <1>5 DEF EnsureSize, Finish, DrainInv, RegisteredWhileLive, Draining
    <2>4. HeldInv'
      BY <1>0, <1>5 DEF EnsureSize, Finish, HeldInv
    <2> QED
      BY <2>1, <2>2, <2>3, <2>4
  <1> QED
    BY <1>1, <1>2, <1>3, <1>4, <1>5 DEF RequestStep

LEMMA RegGc == ASSUME TypeOK, RegInv, GcStep PROVE RegInv'
  <1> USE DEF RegInv, cfgVars, regVars, reqVars, gcVars, pubVars
  <1>0. /\ made \in Nat /\ reg \subseteq 1..made /\ 1..made \subseteq Pools
        /\ shutdown \in [Pools -> BOOLEAN]
    BY RegistryAssumption DEF TypeOK, Pools
  <1>1. CASE GcCollect
    BY <1>1 DEF GcCollect, LockInv, DescInv, DrainInv, HeldInv, RegisteredWhileLive, Draining
  <1>2. CASE DrainBegin
    <2>1. LockInv' /\ DescInv' /\ HeldInv' /\ RegisteredWhileLive'
      BY <1>2 DEF DrainBegin, LockInv, DescInv, HeldInv, RegisteredWhileLive, Draining,
                  WriteLockFree
    <2>2. \A i \in reg : ~shutdown[i]
      BY <1>0, <1>2 DEF DrainBegin, WriteLockFree, RegisteredWhileLive
    <2>3. DrainInv'
      BY <1>2, <2>2 DEF DrainBegin, DrainInv, Draining
    <2> QED
      BY <2>1, <2>3
  <1>3. CASE DrainShutdown
    <2>1. PICK i \in victims : shutdown' = [shutdown EXCEPT ![i] = TRUE] /\ victim' = i
      BY <1>3 DEF DrainShutdown
    <2>2. /\ Draining /\ i \in reg /\ desc[i].id \notin desired /\ i \in Pools /\ i \in 1..made
      BY <1>0, <1>3 DEF DrainShutdown, Draining, DrainInv
    <2>3. LockInv' /\ DescInv'
      BY <1>0, <1>3, <2>1, <2>2 DEF DrainShutdown, LockInv, DescInv, Draining
    <2>4. DrainInv'
      BY <1>0, <1>3, <2>1, <2>2 DEF DrainShutdown, DrainInv, Draining
    <2>5. HeldInv'
      BY <1>0, <1>3, <2>1, <2>2 DEF DrainShutdown, HeldInv, LockInv
    <2>6. RegisteredWhileLive'
      BY <1>0, <1>3, <2>1, <2>2 DEF DrainShutdown, RegisteredWhileLive
    <2> QED
      BY <2>3, <2>4, <2>5, <2>6
  <1>4. CASE DrainReset
    BY <1>4 DEF DrainReset, LockInv, DescInv, DrainInv, HeldInv, RegisteredWhileLive, Draining
  <1>5. CASE DrainStore
    <2>1. /\ reg' = {i \in reg : desc[i].id \in desired} /\ ~Draining'
          /\ \A i \in reg : desc[i].id \in desired <=> ~shutdown[i]
      BY <1>5 DEF DrainStore, DrainInv, Draining
    <2>2. LockInv' /\ DescInv' /\ HeldInv'
      BY <1>5, <2>1 DEF DrainStore, LockInv, DescInv, HeldInv
    <2>3. DrainInv' /\ RegisteredWhileLive'
      BY <1>0, <1>5, <2>1 DEF DrainStore, DrainInv, RegisteredWhileLive, Draining
    <2> QED
      BY <2>2, <2>3
  <1> QED
    BY <1>1, <1>2, <1>3, <1>4, <1>5 DEF GcStep

LEMMA ReloadLeaves ==
    ASSUME NEW w \in Reloaders, ReloadStep(w)
    PROVE  UNCHANGED <<regVars, shutdown, reqVars, gcVars, pubVars, gauges>>
  BY DEF ReloadStep, ReloadEverything, ReloadPort, ReloadHost, DeleteHost, StartJob,
         CompileLocation, CompileFails, Apply

LEMMA PublisherLeaves ==
    ASSUME NEW p \in Publishers, PublisherStep(p)
    PROVE  UNCHANGED <<cfgVars, regVars, shutdown, reqVars, gcVars>>
  BY DEF PublisherStep, PublishBegin, PublishCheck, PublishSet, PublishRecheck, PublishReset

LEMMA RegNext == TypeOK /\ RegInv /\ [Next]_vars => RegInv'
  <1> SUFFICES ASSUME TypeOK, RegInv, [Next]_vars PROVE RegInv'
    OBVIOUS
  <1>1. CASE UNCHANGED vars
    BY <1>1, RegStutter DEF vars
  <1>2. ASSUME NEW w \in Reloaders, ReloadStep(w) PROVE RegInv'
    BY <1>2, ReloadLeaves, RegStutter
  <1>3. ASSUME NEW p \in Publishers, PublisherStep(p) PROVE RegInv'
    BY <1>3, PublisherLeaves, RegStutter
  <1> QED
    BY <1>1, <1>2, <1>3, RegRequest, RegGc DEF Next

-----------------------------------------------------------------------------
LEMMA NamesInit == Init => NamesInv
  BY RegistryAssumption DEF Init, NamesInv, Names, IdleJob, Nothing, NoDesc, Ids

\* A step that invents no name keeps the names apart.
LEMMA NamesKept ==
    ASSUME NamesInv, nextId \in Nat, nextId' = nextId,
           \A d \in Ids : \A s \in Locations : Names(d, s)' => Names(d, s)
    PROVE  NamesInv'
  BY DEF NamesInv

\* A step may give the next id to one location.
LEMMA NamesFresh ==
    ASSUME NamesInv, nextId \in Nat, nextId' = nextId + 1, NEW t \in Locations,
           \A d \in Ids : \A s \in Locations :
               Names(d, s)' => Names(d, s) \/ (d = nextId /\ s = t)
    PROVE  NamesInv'
  <1> SUFFICES ASSUME NEW d \in Ids, NEW s \in Locations, Names(d, s)'
               PROVE  /\ d < nextId'
                      /\ \A u \in Locations : Names(d, u)' => s = u
    BY DEF NamesInv
  <1> QED
    BY DEF NamesInv, Ids

LEMMA NamesReload ==
    ASSUME TypeOK, NamesInv, NEW w \in Reloaders, ReloadStep(w) PROVE NamesInv'
  <1> USE DEF regVars, reqVars
  <1>0. /\ job \in [Reloaders -> Jobs] /\ nextId \in Nat /\ cfg \in [Locations -> 0..MaxId]
        /\ 0 \notin Ids /\ UNCHANGED <<made, desc, conn>> /\ reg \subseteq 1..made
    BY ReloadLeaves DEF TypeOK, Ids
  <1>1. ASSUME NEW full, NEW scope, NEW hosts, NEW todo, NEW base,
               StartJob(w, full, scope, hosts, todo, base),
               \A s \in Locations : base[s] \in {0, cfg[s]}
        PROVE  NamesInv'
    <2>1. \A v \in Reloaders : job'[v].out = IF v = w THEN base ELSE job[v].out
      BY <1>0, <1>1 DEF StartJob
    <2>2. \A d \in Ids : \A s \in Locations : Names(d, s)' => Names(d, s)
      BY <1>0, <1>1, <2>1 DEF StartJob, Names
    <2> QED
      BY <1>0, <1>1, <2>2, NamesKept DEF StartJob
  <1>2. CASE \/ ReloadEverything(w) \/ \E p \in Ports : ReloadPort(w, p)
             \/ \E s \in Locations : ReloadHost(w, s) \/ DeleteHost(w, s)
    <2>1. /\ \A s \in Locations : Nothing[s] \in {0, cfg[s]}
          /\ \A s \in Locations : cfg[s] \in {0, cfg[s]}
          /\ \A t \in Locations : \A s \in Locations : [cfg EXCEPT ![t] = 0][s] \in {0, cfg[s]}
      BY <1>0 DEF Nothing
    <2>2. CASE ReloadEverything(w)
      BY <1>1, <2>1, <2>2 DEF ReloadEverything
    <2>3. CASE \E p \in Ports : ReloadPort(w, p)
      BY <1>1, <2>1, <2>3 DEF ReloadPort
    <2>4. ASSUME NEW s \in Locations, ReloadHost(w, s) PROVE NamesInv'
      BY <1>1, <2>1, <2>4 DEF ReloadHost
    <2>5. ASSUME NEW s \in Locations, DeleteHost(w, s) PROVE NamesInv'
      BY <1>1, <2>1, <2>5 DEF DeleteHost
    <2> QED
      BY <1>2, <2>2, <2>3, <2>4, <2>5
  <1>3. ASSUME NEW t \in Locations, CompileLocation(w, t) PROVE NamesInv'
    <2>1. ASSUME NEW d, job' = [job EXCEPT ![w].todo = @ \ {t}, ![w].out[t] = d]
          PROVE  \A v \in Reloaders : \A s \in Locations :
                    job'[v].out[s] = IF v = w /\ s = t THEN d ELSE job[v].out[s]
      <3>1. job[w] \in Jobs
        BY <1>0
      <3>2. job' = [job EXCEPT ![w] = [job[w] EXCEPT !.todo = @ \ {t}, !.out[t] = d]]
        BY <1>0, <2>1, <3>1 DEF Jobs
      <3>3. [job[w] EXCEPT !.todo = @ \ {t}, !.out[t] = d].out = [job[w].out EXCEPT ![t] = d]
        BY <3>1 DEF Jobs
      <3> QED
        BY <1>0, <3>1, <3>2, <3>3 DEF Jobs
    <2>2. CASE FindLocationId(t) = {}
      <3>1. /\ nextId' = nextId + 1 /\ cfg' = cfg
            /\ job' = [job EXCEPT ![w].todo = @ \ {t}, ![w].out[t] = nextId]
        BY <1>3, <2>2 DEF CompileLocation
      <3>2. \A v \in Reloaders : \A s \in Locations :
               job'[v].out[s] = IF v = w /\ s = t THEN nextId ELSE job[v].out[s]
        BY <2>1, <3>1
      <3>3. \A d \in Ids : \A s \in Locations :
               Names(d, s)' => Names(d, s) \/ (d = nextId /\ s = t)
        BY <1>0, <3>1, <3>2 DEF Names
      <3> QED
        BY <1>0, <3>1, <3>3, NamesFresh
    <2>3. ASSUME NEW e \in FindLocationId(t), nextId' = nextId,
                 job' = [job EXCEPT ![w].todo = @ \ {t}, ![w].out[t] = e]
          PROVE  NamesInv'
      <3>1. PICK i \in reg : desc[i].loc = t /\ desc[i].id = e
        BY <2>3 DEF FindLocationId, Matching
      <3>2. e \in Ids => Names(e, t)
        <4> SUFFICES ASSUME e \in Ids PROVE desc[i] = [id |-> e, loc |-> t]
          BY <1>0, <3>1 DEF Names
        <4>1. desc[i] \in Descs
          <5>1. i \in Pools /\ desc[i] \in Descs \cup {NoDesc}
            BY <1>0, RegistryAssumption DEF TypeOK, Pools
          <5> QED
            BY <3>1, <5>1 DEF NoDesc, Ids
        <4> QED
          BY <3>1, <4>1 DEF Descs
      <3>3. \A d \in Ids : \A s \in Locations : Names(d, s)' => Names(d, s)
        <4> SUFFICES ASSUME NEW d \in Ids, NEW s \in Locations, Names(d, s)'
                     PROVE  Names(d, s)
          OBVIOUS
        <4>1. \A v \in Reloaders : \A u \in Locations :
                 job'[v].out[u] = IF v = w /\ u = t THEN e ELSE job[v].out[u]
          BY <2>1, <2>3
        <4>2. cfg' = cfg
          BY <1>3 DEF CompileLocation
        <4> QED
          BY <1>0, <3>2, <4>1, <4>2 DEF Names
      <3> QED
        BY <1>0, <2>3, <3>3, NamesKept
    <2> QED
      BY <1>3, <2>2, <2>3 DEF CompileLocation
  <1>4. ASSUME NEW t \in Locations, CompileFails(w, t) PROVE NamesInv'
    <2>1. \A v \in Reloaders : \A s \in Locations :
             job'[v].out[s] = job[v].out[s] \/ job'[v].out[s] = 0
      <3>1. CASE job' = [job EXCEPT ![w] = IdleJob]
        BY <1>0, <3>1 DEF IdleJob, Nothing
      <3>2. CASE job' = [job EXCEPT ![w].todo = @ \ {t}]
        BY <1>0, <3>2 DEF Jobs
      <3> QED
        BY <1>4, <3>1, <3>2 DEF CompileFails
    <2>2. \A d \in Ids : \A s \in Locations : Names(d, s)' => Names(d, s)
      BY <1>0, <1>4, <2>1 DEF Names, CompileFails
    <2> QED
      BY <1>0, <1>4, <2>2, NamesKept DEF CompileFails
  <1>5. CASE Apply(w)
    <2>1. /\ \A v \in Reloaders : \A s \in Locations :
                job'[v].out[s] = job[v].out[s] \/ job'[v].out[s] = 0
          /\ \A s \in Locations : cfg'[s] = job[w].out[s] \/ cfg'[s] = cfg[s]
      BY <1>0, <1>5 DEF Apply, IdleJob, Nothing
    <2>2. \A d \in Ids : \A s \in Locations : Names(d, s)' => Names(d, s)
      BY <1>0, <1>5, <2>1 DEF Names
    <2> QED
      BY <1>0, <1>5, <2>2, NamesKept DEF Apply
  <1> QED
    BY <1>2, <1>3, <1>4, <1>5 DEF ReloadStep

LEMMA NamesNext == TypeOK /\ RegInv /\ NamesInv /\ [Next]_vars => NamesInv'
  <1> SUFFICES ASSUME TypeOK, RegInv, NamesInv, [Next]_vars PROVE NamesInv'
    OBVIOUS
  <1> USE DEF cfgVars, regVars, reqVars, gcVars
  <1>0. nextId \in Nat /\ made \in Nat /\ conn \in [Requests -> Descs \cup {NoDesc}]
        /\ desc \in [Pools -> Descs \cup {NoDesc}]
    BY DEF TypeOK
  <1>1. CASE UNCHANGED <<cfgVars, made, desc, conn>>
    <2>1. \A d \in Ids : \A s \in Locations : Names(d, s)' => Names(d, s)
      BY <1>1 DEF Names
    <2> QED
      BY <1>0, <1>1, <2>1, NamesKept
  <1>2. ASSUME NEW r \in Requests, Accept(r) PROVE NamesInv'
    <2>1. PICK t \in Locations : conn' = [conn EXCEPT ![r] = [id |-> cfg[t], loc |-> t]]
      BY <1>2 DEF Accept
    <2>2. \A d \in Ids : \A s \in Locations : Names(d, s)' => Names(d, s)
      BY <1>0, <1>2, <2>1 DEF Names, Accept
    <2> QED
      BY <1>0, <1>2, <2>2, NamesKept DEF Accept
  <1>3. ASSUME NEW r \in Requests, Close(r) PROVE NamesInv'
    <2>1. \A d \in Ids : \A s \in Locations : NoDesc # [id |-> d, loc |-> s]
      BY RegistryAssumption DEF NoDesc, Ids
    <2>2. \A d \in Ids : \A s \in Locations : Names(d, s)' => Names(d, s)
      BY <1>0, <1>3, <2>1 DEF Names, Close
    <2> QED
      BY <1>0, <1>3, <2>2, NamesKept DEF Close
  <1>4. ASSUME NEW r \in Requests, EnsureInsert(r) PROVE NamesInv'
    <2>1. /\ 1..made' = 1..made \cup {made + 1} /\ UNCHANGED <<cfgVars, conn>>
          /\ desc' = [desc EXCEPT ![made + 1] = conn[r]] /\ made + 1 \in Pools
      BY <1>0, <1>4, RegistryAssumption DEF EnsureInsert, InsertPool, Pools
    <2>2. desc'[made + 1] = conn[r] /\ \A i \in 1..made : desc'[i] = desc[i]
      BY <1>0, <2>1
    <2>3. \A d \in Ids : \A s \in Locations : Names(d, s)' => Names(d, s)
      BY <2>1, <2>2 DEF Names
    <2> QED
      BY <1>0, <2>1, <2>3, NamesKept
  <1>5. ASSUME NEW r \in Requests, RequestStep(r) PROVE NamesInv'
    BY <1>1, <1>2, <1>3, <1>4, <1>5
       DEF RequestStep, Get, EnsureExisting, EnsureSize, Finish
  <1>6. CASE GcStep
    BY <1>1, <1>6 DEF GcStep, GcCollect, DrainBegin, DrainShutdown, DrainReset, DrainStore
  <1>7. ASSUME NEW p \in Publishers, PublisherStep(p) PROVE NamesInv'
    BY <1>1, <1>7, PublisherLeaves
  <1>8. CASE UNCHANGED vars
    BY <1>1, <1>8 DEF vars
  <1> QED
    BY <1>5, <1>6, <1>7, <1>8, NamesReload DEF Next

-----------------------------------------------------------------------------
LEMMA GaugeInit == Init => GaugeInv
  BY DEF Init, GaugeInv, Ids

\* Neither gauge moves, no publisher ends and no label is newly retired.
LEMMA GaugeKept ==
    ASSUME GaugeInv, UNCHANGED <<pubVars, gauges>>,
           \A i \in 1..made : desc'[i] = desc[i],
           \A p \in Publishers : pool[p] \in 0..made, made \in Nat,
           \A d \in Ids : Retired(d)' => Retired(d)
    PROVE  GaugeInv'
  <1> USE DEF pubVars, gauges
  <1>1. \A p \in Publishers : ppc'[p] # "idle" => pool'[p] # 0
    BY DEF GaugeInv
  <1>2. \A d \in Ids : Undoing(d) => Undoing(d)'
    <2> SUFFICES ASSUME NEW d \in Ids, NEW p \in Publishers,
                        ppc[p] \in {"recheck", "reset"}, desc[pool[p]].id = d
                 PROVE  desc'[pool'[p]].id = d
      BY DEF Undoing
    <2>1. pool[p] \in 1..made
      BY DEF GaugeInv
    <2> QED
      BY <2>1
  <1> QED
    BY <1>1, <1>2 DEF GaugeInv

LEMMA GaugeRequest ==
    ASSUME TypeOK, RegInv, GaugeInv, NEW r \in Requests, RequestStep(r) PROVE GaugeInv'
  <1> USE DEF cfgVars, regVars, reqVars, gcVars, pubVars, gauges
  <1>0. /\ made \in Nat /\ pool \in [Publishers -> 0..made] /\ size \in [Ids -> 0..1]
        /\ desc \in [Pools -> Descs \cup {NoDesc}] /\ held \in [Requests -> 0..made]
    BY DEF TypeOK
  <1>1. CASE UNCHANGED <<regVars, shutdown, gcVars, pubVars, gauges>>
    <2>1. \A d \in Ids : Retired(d)' => Retired(d)
      BY <1>1 DEF Retired
    <2> QED
      BY <1>0, <1>1, <2>1, GaugeKept
  <1>2. CASE EnsureInsert(r)
    <2>1. /\ 1..made' = 1..made \cup {made + 1}
          /\ \A i \in 1..made : desc'[i] = desc[i]
          /\ UNCHANGED <<shutdown, gcVars, pubVars, gauges>>
      BY <1>0, <1>2 DEF EnsureInsert, InsertPool
    <2>2. \A d \in Ids : Retired(d)' => Retired(d)
      BY <2>1 DEF Retired
    <2> QED
      BY <1>0, <2>1, <2>2, GaugeKept
  <1>3. CASE EnsureSize(r)
    <2>1. /\ UNCHANGED <<regVars, shutdown, gcVars, pubVars, alive>>
          /\ \A d \in Ids : d # conn[r].id => size'[d] = size[d]
      BY <1>0, <1>3 DEF EnsureSize
    <2>2. ~Retired(conn[r].id)
      BY <1>0, <1>3 DEF EnsureSize, RegInv, HeldInv, Retired
    <2> QED
      BY <2>1, <2>2 DEF GaugeInv, Retired, Undoing
  <1> QED
    BY <1>1, <1>2, <1>3 DEF RequestStep, Accept, Close, Get, EnsureExisting, Finish

LEMMA GaugeGc == ASSUME TypeOK, RegInv, GaugeInv, GcStep PROVE GaugeInv'
  <1> USE DEF cfgVars, regVars, reqVars, gcVars, pubVars, gauges
  <1>0. /\ made \in Nat /\ pool \in [Publishers -> 0..made] /\ reg \subseteq 1..made
        /\ size \in [Ids -> 0..1] /\ alive \in [Ids -> 0..1]
        /\ shutdown \in [Pools -> BOOLEAN] /\ 1..made \subseteq Pools
    BY RegistryAssumption DEF TypeOK, Pools
  <1>1. CASE GcCollect \/ DrainBegin \/ DrainStore
    <2>1. UNCHANGED <<made, desc, shutdown, pubVars, gauges>> /\ gpc # "reset"
      BY <1>1 DEF GcCollect, DrainBegin, DrainStore
    <2>2. \A d \in Ids : Retired(d)' => Retired(d)
      BY <2>1 DEF Retired
    <2> QED
      BY <1>0, <2>1, <2>2, GaugeKept
  <1>2. CASE DrainShutdown
    <2>1. PICK i \in victims : shutdown' = [shutdown EXCEPT ![i] = TRUE] /\ victim' = i
      BY <1>2 DEF DrainShutdown
    <2>2. gpc = "drain" /\ gpc' = "reset" /\ UNCHANGED <<made, desc, pubVars, gauges>>
      BY <1>2 DEF DrainShutdown
    <2>3. \A d \in Ids : Retired(d)' => Retired(d)
      BY <1>0, <2>1, <2>2 DEF Retired
    <2> QED
      BY <1>0, <2>2, <2>3, GaugeKept
  <1>3. CASE DrainReset
    <2> DEFINE v == desc[victim].id
    <2>1. /\ UNCHANGED <<made, desc, shutdown, pubVars>> /\ gpc' = "drain"
          /\ \A d \in Ids : d = v => size'[d] = 0 /\ alive'[d] = 0
          /\ \A d \in Ids : d # v => size'[d] = size[d] /\ alive'[d] = alive[d]
      BY <1>0, <1>3 DEF DrainReset
    <2>2. \A d \in Ids : d # v /\ Retired(d)' => Retired(d)
      BY <2>1 DEF Retired
    <2> QED
      BY <2>1, <2>2 DEF GaugeInv, Undoing
  <1> QED
    BY <1>1, <1>2, <1>3 DEF GcStep

LEMMA GaugePublisher ==
    ASSUME TypeOK, RegInv, GaugeInv, NEW p \in Publishers, PublisherStep(p) PROVE GaugeInv'
  <1> USE DEF cfgVars, regVars, reqVars, gcVars, pubVars, gauges
  <1>0. /\ pool \in [Publishers -> 0..made] /\ reg \subseteq 1..made /\ made \in Nat
        /\ ppc \in [Publishers -> {"idle", "check", "set", "recheck", "reset"}]
        /\ size \in [Ids -> 0..1] /\ alive \in [Ids -> 0..1]
    BY DEF TypeOK
  <1>1. UNCHANGED <<made, desc, shutdown, gcVars>> /\ \A d : Retired(d)' <=> Retired(d)
    <2>1. UNCHANGED <<made, desc, shutdown, gcVars>>
      BY PublisherLeaves
    <2> QED
      BY <2>1 DEF Retired
  <1>2. CASE PublishBegin(p) \/ PublishCheck(p)
    <2>1. /\ UNCHANGED gauges /\ ppc[p] \in {"idle", "check"}
          /\ \A q \in Publishers : q # p => ppc'[q] = ppc[q] /\ pool'[q] = pool[q]
          /\ ppc'[p] # "idle" => pool'[p] # 0
      BY <1>0, <1>2 DEF PublishBegin, PublishCheck, PublishEnds, GaugeInv
    <2>2. \A d : Undoing(d) => Undoing(d)'
      BY <1>1, <2>1 DEF Undoing
    <2> QED
      BY <1>1, <2>1, <2>2 DEF GaugeInv
  <1>3. CASE PublishSet(p)
    <2> DEFINE v == desc[pool[p]].id
    <2>1. /\ UNCHANGED <<pool, size>> /\ ppc' = [ppc EXCEPT ![p] = "recheck"]
          /\ ppc[p] = "set"
          /\ \A d \in Ids : d # v => alive'[d] = alive[d]
      BY <1>0, <1>3 DEF PublishSet
    <2>2. \A d : Undoing(d) \/ d = v => Undoing(d)'
      BY <1>0, <1>1, <2>1 DEF Undoing
    <2>3. \A q \in Publishers : ppc'[q] # "idle" => pool'[q] # 0
      BY <1>0, <2>1 DEF GaugeInv
    <2> QED
      BY <1>1, <2>1, <2>2, <2>3 DEF GaugeInv
  <1>4. CASE PublishRecheck(p)
    <2>1. CASE shutdown[pool[p]]
      <3>1. UNCHANGED <<pool, gauges>> /\ ppc' = [ppc EXCEPT ![p] = "reset"] /\ ppc[p] = "recheck"
        BY <1>4, <2>1 DEF PublishRecheck
      <3>2. \A d : Undoing(d) => Undoing(d)'
        BY <1>0, <1>1, <3>1 DEF Undoing
      <3> QED
        BY <1>0, <1>1, <3>1, <3>2 DEF GaugeInv
    <2>2. CASE ~shutdown[pool[p]]
      <3>1. /\ UNCHANGED gauges /\ ppc' = [ppc EXCEPT ![p] = "idle"]
            /\ pool' = [pool EXCEPT ![p] = 0] /\ ppc[p] = "recheck"
        BY <1>4, <2>2 DEF PublishRecheck, PublishEnds
      <3>2. pool[p] \in 1..made
        BY <1>0, <3>1 DEF GaugeInv
      <3>3. \A d : Retired(d) => d # desc[pool[p]].id
        BY <2>2, <3>2 DEF Retired
      <3>4. \A d : Undoing(d) /\ d # desc[pool[p]].id => Undoing(d)'
        BY <1>0, <1>1, <3>1 DEF Undoing
      <3> QED
        BY <1>0, <1>1, <3>1, <3>3, <3>4 DEF GaugeInv
    <2> QED
      BY <2>1, <2>2
  <1>5. CASE PublishReset(p)
    <2> DEFINE v == desc[pool[p]].id
    <2>1. /\ ppc' = [ppc EXCEPT ![p] = "idle"] /\ pool' = [pool EXCEPT ![p] = 0]
          /\ \A d \in Ids : d = v => size'[d] = 0 /\ alive'[d] = 0
          /\ \A d \in Ids : d # v => size'[d] = size[d] /\ alive'[d] = alive[d]
      BY <1>0, <1>5 DEF PublishReset, PublishEnds
    <2>2. \A d : Undoing(d) /\ d # v => Undoing(d)'
      BY <1>0, <1>1, <2>1 DEF Undoing
    <2> QED
      BY <1>0, <1>1, <2>1, <2>2 DEF GaugeInv
  <1> QED
    BY <1>2, <1>3, <1>4, <1>5 DEF PublisherStep

LEMMA GaugeNext == TypeOK /\ RegInv /\ GaugeInv /\ [Next]_vars => GaugeInv'
  <1> SUFFICES ASSUME TypeOK, RegInv, GaugeInv, [Next]_vars PROVE GaugeInv'
    OBVIOUS
  <1>0. made \in Nat /\ \A p \in Publishers : pool[p] \in 0..made
    BY DEF TypeOK
  <1>1. CASE UNCHANGED <<regVars, shutdown, gcVars, pubVars, gauges>>
    <2>1. \A d \in Ids : Retired(d)' => Retired(d)
      BY <1>1 DEF Retired, regVars, gcVars
    <2> QED
      BY <1>0, <1>1, <2>1, GaugeKept DEF regVars
  <1>2. ASSUME NEW w \in Reloaders, ReloadStep(w) PROVE GaugeInv'
    BY <1>1, <1>2, ReloadLeaves
  <1>3. CASE UNCHANGED vars
    BY <1>1, <1>3 DEF vars
  <1> QED
    BY <1>2, <1>3, GaugeRequest, GaugeGc, GaugePublisher DEF Next

-----------------------------------------------------------------------------
IInv == TypeOK /\ RegInv /\ NamesInv /\ GaugeInv

LEMMA IInvariant == Spec => []IInv
  <1>1. Init => IInv
    BY TypeInit, RegInit, NamesInit, GaugeInit DEF IInv
  <1>2. IInv /\ [Next]_vars => IInv'
    BY TypeNext, RegNext, NamesNext, GaugeNext DEF IInv
  <1> QED
    BY <1>1, <1>2, PTL DEF Spec

\* write_lock does its work: no pool is lost while it is alive, and after a
\* drain the registry holds live pools only.
THEOREM NothingLost == Spec => []RegisteredWhileLive
  <1>1. IInv => RegisteredWhileLive
    BY DEF IInv, RegInv
  <1> QED
    BY <1>1, IInvariant, PTL

\* However many first requests race, an id has one live pool at a time.
THEOREM NoDoubleCreate == Spec => []OnePoolPerId
  <1>1. IInv => OnePoolPerId
    BY DEF IInv, RegInv, DrainInv, RegisteredWhileLive, OnePoolPerId
  <1> QED
    BY <1>1, IInvariant, PTL

\* Types, one live pool per id, and exactly the live pools registered, for any
\* number of requests, reloads and pool instances.
THEOREM RegistryKept == Spec => []RegistrySound
  BY RegistryTypeCorrect, NothingLost, NoDoubleCreate, PTL DEF RegistrySound

\* Ids are never confused by reloads and adoptions, however many run at the
\* same time: a request gets a pool made for its own location.
THEOREM OwnUpstream == Spec => []RightUpstream
  <1>1. IInv => RightUpstream
    <2> SUFFICES ASSUME IInv, NEW r \in Requests, held[r] # 0
                 PROVE  desc[held[r]].loc = conn[r].loc
      BY DEF RightUpstream
    <2>1. /\ held[r] \in 1..made /\ rpc[r] # "closed" /\ desc[held[r]].id = conn[r].id
      BY DEF IInv, TypeOK, RegInv, HeldInv
    <2>2. desc[held[r]] \in Descs /\ conn[r] \in Descs
      BY <2>1 DEF IInv, RegInv, DescInv
    <2>3. /\ Names(conn[r].id, conn[r].loc) /\ Names(conn[r].id, desc[held[r]].loc)
          /\ conn[r].id \in Ids /\ conn[r].loc \in Locations /\ desc[held[r]].loc \in Locations
      BY <2>1, <2>2 DEF Names, Descs
    <2> QED
      BY <2>3 DEF IInv, NamesInv
  <1> QED
    BY <1>1, IInvariant, PTL

\* The second look of publish_alive_gauge is enough: whatever the drain does
\* between its steps, a removed pool's label goes back to 0 and stays there.
THEOREM LabelReset == Spec => []LabelStaysReset
  <1>1. IInv => LabelStaysReset
    <2> SUFFICES ASSUME IInv, NEW d \in Ids, Registered(d) = {}
                 PROVE  size[d] = 0 /\ (alive[d] = 0 \/ Undoing(d))
      BY DEF LabelStaysReset, Undoing
    <2>1. Retired(d)
      BY DEF IInv, TypeOK, RegInv, RegisteredWhileLive, DrainInv, Draining, Registered, Retired
    <2> QED
      BY <2>1 DEF IInv, GaugeInv
  <1> QED
    BY <1>1, IInvariant, PTL

-----------------------------------------------------------------------------
(* Reloads that run one at a time.                                         *)

\* A reload in progress compiles its own hosts only, and holds the others of its
\* port as they are in the configuration in force.
ReadsCurrent ==
    \A w \in Reloaders : job[w].pc = "compile" =>
        /\ job[w].todo \subseteq job[w].hosts
        /\ \A s \in job[w].scope \ job[w].hosts : job[w].out[s] = cfg[s]

LEMMA CurrentInit == Init => ReadsCurrent
  BY DEF Init, ReadsCurrent, IdleJob

\* One step per action of the one reload there can be.
LEMMA CurrentReload ==
    ASSUME \A w, v \in Reloaders : w = v,
           TypeOK, ReadsCurrent, NEW w \in Reloaders, ReloadStep(w)
    PROVE  ReadsCurrent'
  <1> DEFINE Fine(j, c) == j.pc = "compile" =>
                 /\ j.todo \subseteq j.hosts
                 /\ \A s \in j.scope \ j.hosts : j.out[s] = c[s]
  <1>0. job \in [Reloaders -> Jobs] /\ job[w] \in Jobs /\ cfg \in [Locations -> 0..MaxId]
        /\ Fine(job[w], cfg) /\ \A p : OnPort(p) \subseteq Locations
    BY DEF TypeOK, ReadsCurrent, OnPort
  <1> SUFFICES Fine(job'[w], cfg')
    BY DEF ReadsCurrent
  <1>1. CASE ReloadEverything(w)
    BY <1>0, <1>1 DEF ReloadEverything, StartJob
  <1>2. ASSUME NEW p \in Ports, ReloadPort(w, p) PROVE Fine(job'[w], cfg')
    BY <1>0, <1>2 DEF ReloadPort, StartJob
  <1>3. ASSUME NEW s \in Locations, ReloadHost(w, s) PROVE Fine(job'[w], cfg')
    BY <1>0, <1>3 DEF ReloadHost, StartJob
  <1>4. ASSUME NEW s \in Locations, DeleteHost(w, s) PROVE Fine(job'[w], cfg')
    BY <1>0, <1>4 DEF DeleteHost, StartJob
  <1>5. ASSUME NEW s \in Locations, CompileLocation(w, s) PROVE Fine(job'[w], cfg')
    <2>1. PICK d : job' = [job EXCEPT ![w].todo = @ \ {s}, ![w].out[s] = d]
      BY <1>5 DEF CompileLocation
    <2>2. /\ job'[w].pc = job[w].pc /\ job'[w].scope = job[w].scope
          /\ job'[w].hosts = job[w].hosts /\ job'[w].todo = job[w].todo \ {s}
          /\ \A t \in Locations : t # s => job'[w].out[t] = job[w].out[t]
      BY <1>0, <2>1 DEF Jobs
    <2>3. s \in job[w].hosts /\ job[w].pc = "compile" /\ cfg' = cfg /\ job[w].scope \subseteq Locations
      BY <1>0, <1>5 DEF CompileLocation, Jobs
    <2> QED
      BY <1>0, <2>2, <2>3
  <1>6. ASSUME NEW s \in Locations, CompileFails(w, s) PROVE Fine(job'[w], cfg')
    <2>1. CASE job[w].full
      <3>1. job' = [job EXCEPT ![w].todo = @ \ {s}] /\ cfg' = cfg
        BY <1>6, <2>1 DEF CompileFails
      <3>2. /\ job'[w].pc = job[w].pc /\ job'[w].scope = job[w].scope /\ job'[w].out = job[w].out
            /\ job'[w].hosts = job[w].hosts /\ job'[w].todo = job[w].todo \ {s}
        BY <1>0, <3>1 DEF Jobs
      <3> QED
        BY <1>0, <3>1, <3>2
    <2>2. CASE ~job[w].full
      BY <1>0, <1>6, <2>2 DEF CompileFails, IdleJob
    <2> QED
      BY <2>1, <2>2
  <1>7. CASE Apply(w)
    BY <1>0, <1>7 DEF Apply, IdleJob
  <1> QED
    BY <1>1, <1>2, <1>3, <1>4, <1>5, <1>6, <1>7 DEF ReloadStep

LEMMA CurrentNext ==
    ASSUME \A w, v \in Reloaders : w = v
    PROVE  TypeOK /\ ReadsCurrent /\ [Next]_vars => ReadsCurrent'
  <1> SUFFICES ASSUME TypeOK, ReadsCurrent, [Next]_vars PROVE ReadsCurrent'
    OBVIOUS
  <1>1. UNCHANGED cfgVars => ReadsCurrent'
    BY DEF ReadsCurrent, cfgVars
  <1>2. CASE UNCHANGED vars
    BY <1>1, <1>2 DEF vars
  <1>3. ASSUME NEW r \in Requests, RequestStep(r) PROVE ReadsCurrent'
    BY <1>1, <1>3 DEF RequestStep, Accept, Close, Get, EnsureExisting, EnsureInsert, InsertPool,
       EnsureSize, Finish
  <1>4. CASE GcStep
    BY <1>1, <1>4 DEF GcStep, GcCollect, DrainBegin, DrainShutdown, DrainReset, DrainStore
  <1>5. ASSUME NEW p \in Publishers, PublisherStep(p) PROVE ReadsCurrent'
    BY <1>1, <1>5, PublisherLeaves
  <1> QED
    BY <1>2, <1>3, <1>4, <1>5, CurrentReload DEF Next

\* Where reloads run one at a time, reloading or deleting a host leaves the other
\* hosts of its port as they are: what is lost when two overlap is lost for
\* that reason alone (update_host_configuration).
THEOREM SerialReloadsKeepHosts ==
    ASSUME \A w, v \in Reloaders : w = v
    PROVE  Spec => OtherHostsKept
  <1> DEFINE Kept == \A w \in Reloaders : Apply(w) =>
                        \A s \in job[w].scope \ job[w].hosts : cfg'[s] = cfg[s]
  <1>1. Spec => []ReadsCurrent
    BY CurrentInit, CurrentNext, RegistryTypeCorrect, PTL DEF Spec
  <1>2. TypeOK /\ ReadsCurrent /\ [Next]_vars => [Kept]_vars
    <2> SUFFICES ASSUME TypeOK, ReadsCurrent, NEW w \in Reloaders, Apply(w),
                        NEW s \in job[w].scope \ job[w].hosts
                 PROVE  cfg'[s] = cfg[s]
      OBVIOUS
    <2>1. job[w] \in Jobs /\ job[w].pc = "compile"
      BY DEF TypeOK, Apply
    <2>2. s \in Locations /\ job[w].out[s] = cfg[s]
      BY <2>1 DEF ReadsCurrent, Jobs
    <2> QED
      BY <2>2 DEF Apply
  <1>3. [][Kept]_vars => OtherHostsKept
    BY PTL DEF OtherHostsKept
  <1> QED
    BY <1>1, <1>2, <1>3, RegistryTypeCorrect, PTL DEF Spec

=============================================================================
