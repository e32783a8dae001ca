# Verification of my-reverse-proxy

TLA+ models, TLC runs and TLAPS proofs for the stateful core of my-reverse-proxy. The
repository's code is the reference: every definition is translated from the lines that
`PROJECT.json` names under `map`. Paths below are relative to `src/src/`.

## 1. The system

The program accepts TCP, TLS and unix-socket connections on configured ports, finds the
endpoint (virtual host) and the location (path) of each request, and serves it from an
upstream: another HTTP/1 or HTTP/2 server reached directly, over ssh, over a gateway to
a second proxy, or from static content and local files. Everything runs as tokio tasks
on several threads. Configuration can be reloaded as a whole, per port or per host while
traffic flows.

Two data paths exist for HTTP:

* **the hyper path** (`http_proxy_pass`, HTTP/2 and some HTTP/1 endpoints): a hyper
  service takes connections from per-location **upstream pools** (`upstream_h1_pool`,
  `upstream_h2_pool`). hyper drops the service future when the client goes away, at
  whatever `await` it is;
* **the byte path** (`h1_proxy_server/pipeline`): a reader, a worker per request and a
  writer per client connection, with a small pool of upstream connections that belongs to
  that client connection (`h1_remote_connection`).

### Inventory

| Component | State it keeps | Operations | Talks to | Hard behaviours | What makes it correct |
|---|---|---|---|---|---|
| h1 upstream pool `upstream_h1_pool` | per pool: entries (client, dead, rented, revive_pending, revive_lock), round-robin position, shutdown, disposable counter; one process-wide counter | `get_connection` (grow, scan and rent, revive, overflow), `create_ws_connection`, handle use and drop, `supervisor_tick`, background revive | content sources, supervisor timer, registry | lock-free flags read and written in different steps, two reservations for one overflow, cancelled requests | a connection carries one exchange; it is not swapped under a request; pool size, budgets and counters hold; dead entries come back |
| h2 upstream pool `upstream_h2_pool` | entries (client, dead, revive_lock, cooldown), pool length, top-up flag | `get_connection`, `try_push`, `revive_*`, `supervisor_tick`, `spawn_top_up`, `execute_pooled_h2` with retry | the same | growth races with the top-up task, revive by a request, a task and a tick, stragglers on an old connection | size holds; revives exclude each other; live connections stay; broken ones are replaced |
| pool registries, reload, collector `upstream_*_pool/pool_registry.rs`, `timers/gc_pools_timer.rs`, `scripts`, `configurations` | registered pools per id, current configuration, process-wide id counter, gauges per label | `ensure_pool`, `drain_unused`, `collect_location_ids`, reload of everything, a port, a host; deletion of a host; publishing of gauges | requests, timers, admin API | stale ids in keep-alive connections, stale desired set, un-serialised reloads, late publishers | one live pool per id, none lost, none of a foreign location; unreferenced pools go; labels of removed pools stay reset |
| h1 pipeline `h1_proxy_server/pipeline`, `h1_remote_connection` | per client connection: slot queue, response and body channels, replay window, parked upstream connections | reader step, worker, writer, websocket tunnel | upstreams, oauth gate, ip blocklist | three bounded channels in a row, replay while a body streams, half-read bodies, panicking workers | responses in order and whole; replays invisible and complete; byte-synced connections; nobody waits for ever |
| body relay, loop buffer `transfer_body`, `tcp_utils/loop_buffer.rs` | read and write position of a buffer | relay of known-size and chunked bodies | reader, worker | boundaries of buffer, chunk and cap | output = input, no read while bytes wait |
| tcp gateway `tcp_gateway` | per side: sessions by name, tables of opened and forwarded tunnels, file requests; the client's certificate cache | dial, handshake, ping, connect, forward, payload, close, file request, certificate sync | port forwards, pools, listeners | two sides with ids of their own on one session, sends that may be refused, reconnects that overlap with the end of the old session, replies that cross | bytes of a tunnel arrive in order, its end arrives at the other end, a client finds its server again and ends up with the server's certificate |
| oauth server `oauth` | authorization codes per context, the live context, the signing key file | authorize, exchange, refresh, bearer gate, (re)load of the settings block, expiry | pipeline, hyper path, settings reload | requests that outlive the context they took, overlapping loads, a crash between the steps of a key save | a code buys tokens once, tokens say no more than the consent, and they survive reloads and restarts |
| ip blocklist `app/ip_blocklist.rs` | failures and blocks per address | register failure or success, is_blocked, cleanup | listeners, pipeline, oauth | windows that expire, clean-up races | an address is blocked exactly as the thresholds say |
| listeners `tcp_listener`, `app/active_listen_ports.rs` | running listeners per port | start, stop, rebind after a reload | configuration | reload during accept | a port is served by the configuration in force |
| legacy client pools `http_client_pool`, `http2_client_pool` | free and rented clients | rent, return, gc | ssh and gateway content sources | return after a failure | a returned client is usable |
| the rest | configuration parsing, TLS certificates and CRLs, google authentication, metrics and logs, admin HTTP server and MCP tools, error pages, country tables, the web UI | | | mostly pure functions or I/O | |

`PROJECT.json` lists all of them with their files, with what is modelled of each and why
the others are not (yet).

## 2. Modules

| Module | Models | Composition |
|---|---|---|
| `H1Pool` | one or more h1 pools sharing `DISPOSABLE_COUNTER`, with requests, handles, supervisor ticks, background revives, disconnecting clients | stands alone; the gauges it publishes are in `PoolRegistry` |
| `PoolRegistry` | configuration and its reloads, location ids, the registry, `GcPoolsTimer`, the publishers of the gauges, client connections that keep old ids | a pool is an instance with a `shutdown` flag |
| `H2Pool` | one h2 pool with `execute_pooled_h2`, tick, revive tasks and top-up | stands alone |
| `ResponseStream` | what a client connection promises: responses in order, whole, nothing after a cut one | abstract |
| `H1Pipeline` | one client connection of the byte path: reader, writer, workers, tunnel, parked connections | implements `ResponseStream` |
| `GatewayTunnel` | one gateway session between two proxies: tunnels opened by either side, files | stands alone; sessions come and go in `GatewayLink` |
| `GatewayLink` | dial, handshake, ping, the registries by name, reconnect; the certificate cache and its writers | a session is up, silent or closed |
| `OAuth` | consents, codes, tokens, the bearer gate, settings loads, the signing key file, restarts | stands alone; `H1Pipeline` leaves the gate's verdict open |
| `MC*` | small instances for TLC: symmetry, views, state constraints | extend the modules |
| `*_proofs` | theorems and their proofs | extend the modules |

### How state and steps correspond to the code

**Granularity.** One action is one atomic access (an atomic load, store, CAS or
fetch_add, a critical section without an `await`, a send or receive on a channel) or the
end of one `await`. Code between two such points is local to its task. Clocks are not
modelled (`OAuth` has one, for expiry): a timeout, a deadline or the end of a cooldown may come
at any moment the code waits for it. A read, a write or a dial ends well or badly, as its peer likes.

**H1Pool.** `clients[p]` is the length of the vector (entries are only appended), an entry
is `<<pool, index>>`, `dead`, `rented`, `revive_pending`, `revive_lock` are the entry's
fields. `pc[r]` is the place of a request in `get_connection`, `do_request` and the
handle's `Drop`; `task[e]` the background revive of an entry, `sup[p]` the tick. The
overflow path reserves the global and the per-pool budget in two steps and undoes them in
two steps, as the code does. `Cancel` drops the request's future at any `await`; the
`Drop` of whatever it owns runs, and nothing else. Connections are names; a dial yields a
name no one holds. Left out: `last_status`; TLS and unix pools (same generic code).

**PoolRegistry.** A location is its `id_string`; ids are numbers from the process counter;
a reload reads the part of the configuration it will replace, compiles locations one by
one (adopting the id of a registered pool with the same `id_string`) and writes back.
`write_lock` is derived: it is held exactly while a request is in `EnsureSize` or a drain
runs. Modelling choices: one location per host; the lock-free `get` and the fast path of
`ensure_pool` are one step; the two gauge resets of a drained pool are one step. H2's
registry is the same code.

**H2Pool.** Entries are shared, so a request holds a connection that is "current" or has
been "replaced" in its entry meanwhile. The round-robin counter is moved by all traffic,
so a scan starts anywhere. `revive_pending` and `top_up_pending` are derived from the
tasks (their guards are made before the spawn and dropped with the task). `is_alive` is a
property of an external client and can only go down. A connection that lost the growth
race is used once (entry 0). WebSocket sessions dial a connection of their own and touch
no pool state.

**H1Pipeline.** `rpc` is the reader in `read_and_dispatch`, `serve_reverse_proxy_pipelined`
and `run_ws_tunnel`; `writer` is `run_client_writer`; `wpc[r]` is `run_upstream_request`.
`queue`, `events[r]` and `body[r]` are the three mpsc channels; a send waits for room and
fails when the receiver is gone. Bodies are numbers of pieces: `unread` are still in the
client's socket, `body[r]` in the channel, `taken[r]` with the worker, `put[r]` on the
upstream connection of the current attempt. Which location a request meets, whether it is
authorised and what its peer does are free choices; so is what left-over body bytes parse
as. A parked connection is "dirty" when the exchange on it was not complete: that is a
ghost the code does not see. Left out: gauges, logs, and the blocklist calls of
`respond_error` and the oauth gate.

**GatewayTunnel.** A tunnel is `<<p, id>>`: side `p` opened it, and the other side may use the
same id for one of its own, while frames carry the id alone. `chan[p]` holds what `p` has
sent and the other side's read loop has not handled: queue, accumulator and socket.
`Accept` and `Refuse` are the two outcomes of a send; where the caller ignores the result,
the history variable `lost` remembers the tunnel. `early` remembers what reached a tunnel
between the start of its read loop and its registration. `DropConnection` is the `Drop` of
the last reference, which `Pinned` shows can be held for ever. Frames and their
encryption are opaque.

**GatewayLink.** Sessions are numbered as the client dials them; both registries map the
client's name to one session. `net[s]` may break, which both read loops see, or fall
silent, which only the client's ping loop does. A certificate is a version number, `near`
the versions about to expire. The client's cache is written by pushes, by NotFound, by the
manual upload (into whatever is cached) and by three loads of the local source, the members
of `loading`: the refresh timer's, which starts on a local certificate; the one of
`make_sure_ssl_cert_exists`, which starts when a compile finds nothing cached; and
RefreshSslCertificate, which starts on anything and hands it back to its source
(`init_ssl_cert_manually.rs:40`). All three store without another look. `removing` and
`loading` without RefreshSslCertificate are the windows between a check of the cache and the
write that follows it. One certificate id stands for all; each load runs at most once at a
time. A push never fails to parse: the server holds only what the same
`SslCertificate::new` has accepted (`client_packet_handler.rs:210-215` is out of reach).
`Load` and `Renew` are the server's use of the same code.

**OAuth.** A request takes the live context (`holds[r]`), awaits its body and is then handled
in one step, under the lock of the code store. A load of the settings is `check`, `read` the
key file, `generate`, write the temporary file, `rename`, `install`, with other loads, edits,
failures and the end of the process between any two. Codes and keys are random in the code
and numbered here; a challenge is named by its verifier, a signature by its key; a host is a
sequence of pieces so that one can be a prefix of another. The gate `check_bearer` awaits
nothing and changes nothing, so it is an operator that an invariant applies to every token
and place, a place being a location of the settings: the string-prefix match by which
`find_location` gets from a path to it is outside the model. The write of the temporary key file
is one step. Left out: the blocklist entry of
a failed credential, discovery documents, pages.

## 3. Runs

| Run | Instance | What it shows |
|---|---|---|
| `h1pool` | 1 entry, 2 requests, 4 connection names, caps 1 and 1, clients disconnect, symmetric requests | `SingleStream`, `NoSwapUnderRequest`, `FlagsTellTheTruth`, `ReplaceOnlyDead`: requests, probe and revives never share or swap a connection; `PoolSound`: growth races stay within the size; `NeverUndercounted`, `OverflowWithinBudget`: the counters never fall behind and the two-step reservation never overgrants |
| `h1pool_live` | 1 entry, 1 request, no overflow budget, no disconnects, `RecoverSpec` | `GetConnectionReturns`, `NoEntryIsLost` (every rent has an owner, a dead entry is revived) |
| `h1pool_leaked_reservation` | 3 requests, disconnects | **violated** `MatchingDec`: see findings |
| `registry` | 2 locations on one port, 2 requests, 1 publisher, 1 reloader, 2 ids, 2 pool instances; constraint `Small`, `FairSpec` | `RegistrySound` (one live pool per id, exactly the live ones registered), `RightUpstream`, `LabelStaysReset` with a late publisher, `UnreferencedIsDrained`, `MissIsServed` |
| `registry_host_merge` | 2 hosts on one port, 2 reloaders | **violated** `OtherHostsKept`: see findings |
| `h2pool` | 2 entries, 1 request with its retry; at most two of request, tick, revive tasks and top-up busy at a time (one after a drain or while the request may retry), `FairSpec` | `PoolSound` (size, indices, revives exclude each other), `ReplaceOnlyDead`, `BrokenIsReplaced` |
| `pipeline` | 3 requests, bodies up to 2 pieces, replay window 1, two attempts, every channel of capacity 1; constraint `OneOddRequest`, `FairSpec` | `OrderedResponses` (refinement of `ResponseStream`), `DeliveredWhole`, `ReplayInvisible`, `InSync`, `Progress` (every request answered or the connection given up, then every worker ends) |
| `pipeline_desync` | 2 requests | **violated** `ByteSynced`: see findings |
| `pipeline_pinned` | 2 requests | **violated** `HeadPinsAlone`: see findings |
| `gateway_tunnel` | one session, one id used by both sides, up to 3 payloads, one file request, queues of 2; constraint `Small`, `FairSpec` | `InOrder`, `OnlyTwinCuts`, `TunnelSound` (no leaked entries but the named ones), `EndsArrive` (close, upstream end and loss of the session reach the other end), `WaitersReturn` (an unanswered connect or file request) |
| `gateway_link` | 2 sessions, 2 issues of the certificate, 2 requests; constraint `Small`, `FairSpec` | `LinkSound` (what is handed out is a session somebody reads), `OnlyOlderEvicts`, `LinkRecovers`, `LocalUntouched`, `Converges` |
| `oauth` | 2 requests, 2 loads, 3 settings blocks (one with a pinned key), 3 kinds of request to `/authorize`, 3 codes in stores of 2, lives of 2, 1 and 2 ticks, 2 contexts, 2 generated keys, clock up to 2; constraint `Small` | `CodeUsedOnce`, `TokensTraceToConsent`, `GateHonoursConsent`, `TokensSurviveUnlessRaced`, `CodesKept` |

Properties that are facets of one promise are checked as one conjunction of named parts
(`FlagsTellTheTruth`, `RegistrySound`, `EndsArrive`, ...).

Each property has a mutant (an operator next to the definition it replaces, marked
"Mutant of ..."): the same run finds the property violated when the code has that bug.

**Why the bounds are enough.** The races of the pools are between two users of one entry
(two requests, a request and the probe, a request and a task), which one entry and two
requests have; both requests dial on a cold pool of one entry, which is the growth race.
The scan over several entries is in the proofs, which hold for every pool size.
With caps of 1 the counters are at their limit after one overflow. Two pool instances under
one id are what a drain and a re-creation need; two locations with two ids are what an
adopted or mistaken id needs, and one connection is enough to be bound to it. In the pipeline, two requests with
single-slot channels fill every channel, body sizes 0, 1 and 2 lie inside, at and beyond
a replay window of 1 (64 KiB in the code), and the third request finds the queue
full while the first is being written. Two attempts are the code's own constant, as is a queue of one slot; the
channels have capacity 4 in the code, and a smaller one only makes them full earlier.
The two tunnels of one id are the collision the code allows, and a queue of two frames is
full after two payloads. Two sessions are what an overlap of the old and the new one needs;
the last one stays up, so that the liveness properties say something. In `oauth`, three codes
overflow a store of two, and a clock of two ticks passes every life. The constraints `Small`
and `OneOddRequest` admit one complication at a time once the instance would grow too large;
each is spelled out in its MC module. Under a liveness property a constraint leaves out
behaviours rather than steps: what the runs show is about those in which at most so many
complications meet (for `h2pool`, at most two busy actors; for `pipeline`, no replay beside a
third request; for `registry`, two connections and a publisher on one location, or one
connection among two; for `gateway_link`, loads of the local source only beside a session
that is up).

Deadlock is checked except in `gateway_tunnel` and `gateway_link`, where a session with nothing
to carry has no step to take; the other modules either never stop or, like `H1Pipeline`,
have an explicit final state.

**Fairness.** tokio polls every ready task, so each task's own steps are weakly fair; an
`await` on a socket ends by its timeout (a dial through a gateway has none of its own:
`network_stream/my_network_stream.rs:278-280` polls for `Connected` while the session lasts, so `Progress` covers it only as
far as `WaitersReturn` does). `revive_lock` (tokio's FIFO mutex) and the
registries' lock (parking_lot, eventually fair) are strongly fair for a waiter. The
timers tick for ever, and not every tick is cut short in its probe. `UpstreamRecovers`
and the corresponding conjunct of `H2Pool` say that a dial tried for ever succeeds some
time; only the revive properties use them. In the gateway modules the read loops, the
forwarding tasks, the reconnect loop, the ping loop and the timers are weakly fair; a dial,
a certificate request and a reply, which fail when the server is down or a queue is full,
are strongly fair: the server is reachable and the queues drain again and again. No fairness
is assumed of clients, users of tunnels, upstreams or the network, of new requests, of
reloads, of response bodies in the pools, or of a tunnel's end. `OAuth` has safety
properties only.

### Findings

* `h1pool_leaked_reservation`: a client that disconnects while the overflow dial is
  pending leaves both counters incremented (`upstream_h1_pool/h1_pool.rs:156`), although
  `docs/h1-pool.md:120` says that any inc has a matching dec.
* `registry_host_merge`: overlapping reloads of two hosts on a port lose one of the
  updates (`scripts/update_host_configuration.rs:53`).
* `pipeline_desync`: a static or files location answers and goes on although draining
  the request body failed (`h1_proxy_server/pipeline/reader.rs:482`, `501`); the rest of
  that body is then parsed as the next request.
* `pipeline_pinned`: `h1_proxy_server/pipeline/reader.rs:18-21` says that a queue of one slot
  stops the reader from dispatching, and pinning upstream connections for, later requests
  while a response streams. The writer takes the head slot off the queue before it empties
  it (`client_writer.rs:22`), so the next request is dispatched and holds an upstream
  connection for as long as the head response lasts. `BackPressure` proves the bound that
  does hold, one connection more than the queue has slots.

Met while modelling, without a run of their own:

* A client that disconnects while Path B revives its entry leaves the entry rented for
  good (`h1_pool.rs:136`); the supervisor's probe has a guard for this, Path B has none.
* Losers of the growth race take a disposable without looking at either cap
  (`h1_pool.rs:114`, while `docs/h1-pool.md:9` speaks of a cap).
* `drain_unused` works on a set of ids collected earlier (`timers/gc_pools_timer.rs:26`), so
  it can drain a pool that a reload has adopted in between; the next request makes it anew.
* A late publisher can reset the size gauge of a pool re-created under the same id
  (`h1_pool.rs:244`).
* H2: the connection is compared and the entry marked dead in two steps
  (`http_proxy_pass/content_source/h2_dispatch.rs:326-327`), and a failed probe marks the
  entry without comparing at all (`upstream_h2_pool/pool_supervisor.rs:89`); a freshly
  revived entry can so be taken out of rotation until the cooldown is over.
* Pipeline: a truncated request body closes the body channel like a complete one, and the
  upstream connection is parked with half a request on it (`worker.rs:130`, `446-458`); no
  later request can meet it (`LaterRequestsClean`), but a replay of an earlier one can.
* Pipeline: a failure on a
  fresh connection and a timed-out write are replayed (`worker.rs:261`, `297`), against
  `worker.rs:174-176`. A response without a length is relayed without its body
  (`h1_read_part.rs:301`).
* Gateway: a read loop that ends removes the registry entry by name
  (`tcp_gateway/gateway_read_loop.rs:143`), and so the entry of the session that has already
  replaced it; the new session lives on, pinged but not found by anybody
  (`OnlyOlderEvicts`, and `Orphaned` in `LinkRecovers` and `Converges`).
* Gateway: the client's handshake awaits an answer without a timeout
  (`tcp_gateway/client/tcp_gateway_client.rs:126`); a link that falls silent then stops the
  reconnect loop for good (`Stuck`). `request_file` and the wait for `Connected` have no
  timeout either (`tcp_gateway_connection.rs:269`).
* Gateway: both sides count connection ids for themselves and an error frame closes the
  tunnels of that id in both directions (`tcp_gateway_connection.rs:403`): a failing tunnel
  cuts the unrelated one with its id (`OnlyTwinCuts`).
* Gateway: most callers ignore a refused send (`tcp_connection_inner/inner.rs:87`), which leaves
  a hole in a tunnel, or its opener waiting; a forwarded upstream is read before it is
  registered (`handle_forward_connect.rs:39`), so that an upstream that closes at once leaves
  an entry; tunnels and file requests under way hold references that keep the `Drop` of a
  lost session from running (`tcp_gateway_connection.rs:412`).
* Certificate sync: NotFound removes what is cached after looking at an earlier read
  (`client_packet_handler.rs:159`), against the repository's `README.md:1223`: a certificate
  uploaded in between is gone. A compile that found nothing cached
  (`scripts/make_sure_ssl_cert_exists.rs:43`) and the refresh timer likewise overwrite what was
  uploaded or pushed while they awaited the files. `LocalUntouched` exempts exactly these
  windows (`overtaken`). A renewed
  certificate is asked for when the old one has a day to live, while `README.md:1292` says
  "within a minute".
* OAuth: two loads at first use each generate a key through the same temporary file, and the
  installed context may sign with a key that is not the one on file
  (`oauth/signing_key_storage.rs:31`; `docs/mcp-oauth.md:198-203` says tokens survive a restart).
  TLC finds `TokensSurviveRestart` violated without the exemption `raced`.
* OAuth: a load that asked whether its block is unchanged before another one installed
  replaces a context with the same settings, and the codes waiting in it
  (`scripts/get_oauth_credentials.rs:35`; `UnchangedKeepsContext` exempts it). `/authorize` accepts a resource by a string prefix of
  its host, which the gate later refuses (`oauth/handle_authorize.rs`).

## 4. Proofs

All theorems hold for every value of the constants under the named `ASSUME`s (a pool has
at least one entry, caps are naturals, capacities, attempts and lives positive, actors of
different kinds are different, ports are total on locations, there is a settings block).

* **H1Pool_proofs.** Invariant `TypeInv /\ SlotInv /\ RentInv /\ OneOwner`. `TypeInv` adds to
  the types that a pool never exceeds its size and a tick stays in its snapshot, without
  which indices could leave the pool. `SlotInv`: positions not pushed yet are untouched and
  a scan runs on a full pool only. `RentInv` (exclusive rents, no entry handed out dead, one
  revive at a time) is needed because `rented`, `dead` and `revive_lock` are separate
  atomics: each alone is not inductive. `OneOwner` says where a connection can be at all,
  and gives `SingleStream`. Theorems: `Sized` (`PoolSound`), `Flags` (`FlagsTellTheTruth`, from
  `Exclusive`, `ReviveOnce` and `Pending`), `OneStream`, `NoSwap`, `LiveIsKept`, with clients that
  may disconnect. The two budgets have an invariant of their own, `CountInv /\ BudgetInv`: each
  counter is at least the number of requests that own a unit of it, that number is finite
  (part of the invariant, so the set of requests may be infinite), and those whose
  reservation was within the budget are never more than the budget allows. The lemma
  `CounterEffect` says once what a step does to a counter and to the step's own request: keeps,
  takes, returns or, on a disconnect, loses a unit. Theorems: `Undercounts`
  (`NeverUndercounted`), `WithinBudget` (`OverflowWithinBudget`). `MatchedWhileClientsStay` and
  `RentsReturnWhileClientsStay` assume that no client disconnects and prove `MatchingDec` and
  `RentedInFlight`, which otherwise do not hold: the disconnect is the only cause of the leaked
  reservations and rents listed above.
* **PoolRegistry_proofs.** Invariant `TypeOK /\ RegInv /\ NamesInv /\ GaugeInv`. `RegInv`: one
  holder of the write lock, the drain works on the vector that is registered, a request in
  `EnsureSize` has a live pool. `NamesInv`: an id names one location wherever it is still
  known (configuration, running reloads, connections, pools), which makes adoption safe.
  `GaugeInv`: a retired label reads 0 or someone is about to undo its write. Theorems:
  `RegistryKept` (`RegistrySound`, from `RegistryTypeCorrect`, `NothingLost` and
  `NoDoubleCreate`), `OwnUpstream`, `LabelReset`. `SerialReloadsKeepHosts` assumes at most one
  reloader and proves `OtherHostsKept`, from `ReadsCurrent`: a reload holds the other hosts of
  its port as they are in force, until another reload can write in between.
* **H2Pool_proofs.** Invariant `TypeOK /\ WhereInv /\ LockInv`. `WhereInv`: what each place in
  the code knows of the pool (a scan runs on a full pool, a task exists for pushed entries).
  `LockInv`: the critical sections of `revive_lock` exclude each other and the entry is dead
  from the dial to the clearing of the flag. Theorems: `H2PoolKept` (`PoolSound`, from
  `H2TypeCorrect` and `H2ReviveOnce`), `H2LiveIsKept`.
* **H1Pipeline_proofs.** Invariant `TypeOK`, `ReplayInvisible`, `LaterRequestsClean` and the parts
  `ReaderInv`, `BodyInv`, `QueueInv`, `SlotInv`, `HandoverInv`, `FutureInv`, `EventInv`. `ReaderInv` says what
  each place of the reader knows of the bytes it has left; `BodyInv` accounts for every piece
  of a body (unread, in the channel, with the worker, on the connection), which gives
  `DeliveredWhole`; the others say which requests are queued, with the writer or still to
  come, and what their channels can hold, without which a response could be taken for that
  of another request. Theorems: `PipelineTypeCorrect`, `BodiesDelivered`, `ReplaysInvisible`,
  `StaysInSync`, and `ImplementsResponseStream`: every step of the pipeline is a step or a
  stutter of `ResponseStream`. `BackPressure` (`PinnedBound`) needs `PinInv` on top: while the
  writer lives, a request that holds an upstream connection is queued or being written, and
  `Done` is sent only by a worker that has let go of its connection; slots are taken in
  order, so these requests lie in an interval of one more than the queue's capacity, and
  after the writer is gone no request joins them. `SyncedWithoutStatic` assumes that no request
  meets a static or file location and proves `ByteSynced`: the ignored drain is the only way
  out of step.
* **GatewayTunnel_proofs.** Invariant `TypeOK`, `FrameIds`, `OpenOnce`, `NotStarted`, `Registered`,
  `NoStaleHandler`, `CutHandler`, `ForwardOrder`, `BackwardOrder`, `ConnectedFirst`, `InOrder`,
  `ErrorInv`, `CutInv`. `InOrder` speaks of what has arrived, which says nothing of the next
  frame: `ForwardOrder` and `BackwardOrder` say that the payloads of a tunnel still in a
  channel are numbered without a hole from where the receiver stands (`Runs`) and, while the
  sender works, up to what it sent (`Full`). `ConnectedFirst` keeps a payload from reaching a
  handler that does not take it yet, `OpenOnce` and `NotStarted` keep an old frame from being
  taken for one of a tunnel with the same id in the other direction. `ErrorInv` and `CutInv`
  trace a cut to its cause. Theorems: `TunnelSoundHolds`, `InOrderHolds`, `OnlyTwinCutsHolds`, for
  any ids, numbers of payloads and queue capacity. The lemmas on `Runs`, `Full`, `Single` and
  `Carries` say how appending a frame and taking the first one change them.
* **GatewayLink_proofs.** Invariant `TypeOK /\ LinkInv /\ WindowInv`. `LinkInv` adds to the two
  registry properties that a session not dialed yet is nowhere, that only one with a read
  loop is connected, and that the client's registry is empty between the head of its loop
  and the end of a handshake, which is why `Register` never replaces a live entry.
  `WindowInv`: a removal, a refresh or a compile under way was decided on the certificate that
  is still cached, or `overtaken` says otherwise; a load that was asked for needs no such fact,
  since it may replace anything. Theorems: `LinkSoundHolds`, `OnlyOlderEvictsHolds`,
  `LocalUntouchedHolds`.
* **OAuth_proofs.** Invariant: types (`TypeLoads`, `TypeCodes`), `Bounded` (no store over `MAX_CODES`),
  `LoadKeys` and `TokenKeys` (which keys a load, the file and a context can hold, and that tokens
  are signed with the key on file unless loads raced), `SawInv` (a load that saw the live context
  found other settings in it), `CodeInv` (a taken code is in no store, a stored one is what its
  consent says), `AgeInv` (an expiry lies no further ahead than one life, which is why the oldest
  code is the one that gives way), `TokenInv` (a token traces back to its consent). Theorems:
  `Typed`, `UsedOnce`, `TraceToConsent`, `GateIsSound`, `KeySurvives`, `Kept` (`CodesKept`, from
  `KeepsContext` and `Waits`), for every set of requests, loads, blocks and every bound.
  `SerialLoadsSurvive` assumes at most one load at a time and proves `TokensSurviveRestart`
  without the exemption.

Each proof goes: the initial states satisfy the invariant, every action keeps each part
of it (one step per action), the property follows, and the temporal step combines them.

Every safety invariant and every action property of the passing runs is proved. Where a
property exempts a case (`lost`, `early`, twins, `Pinned`, `Orphaned`, `Stuck`, `overtaken`, `raced`), the
code does misbehave in that case, as the list above says: the run and the theorem show that it
misbehaves nowhere else. Only
model-checked: liveness (`GetConnectionReturns`, `NoEntryIsLost`, `UnreferencedIsDrained`,
`MissIsServed`, `BrokenIsReplaced`, `Progress`, `EndsArrive`, `WaitersReturn`, `LinkRecovers`,
`Converges`), which the proof system does not handle under fairness. The safety half of
`NoEntryIsLost` (`RentedInFlight`) is proved by `RentsReturnWhileClientsStay`.

## 5. Not modelled, and the plan

Not modelled on purpose: configuration parsing and compilation of settings, parsing of
certificates and CRLs, google authentication, error pages, metrics, admin controllers and
MCP tools (they call flows that are modelled), the web UI. They are pure functions, I/O, or
replace-all caches without a protocol. The country tables (`ip_db/ipv4_data.rs`) are data: 200000
of the repository's 239000 lines.

Known hazards without a property: one task ticks all pools in turn, so that probes that time
out in the first pools can starve the others (`timers/pool_supervisor_timer.rs:13`; the modules
take it that not every tick is cut short); the adoption of an id takes the lowest match
(`scripts/find_location_id_by_id_string.rs:12`), which after a stale connection re-created a pool
may be the older one; a pool size of 0 (`upstream_h1_pool/h1_pool.rs:123`), which the assumptions
exclude.

Order of work:

1. `H1Pool`, `PoolRegistry`, `H2Pool` with proofs - done.
2. `ResponseStream` and `H1Pipeline` with proofs and the refinement - done.
3. `GatewayTunnel` and `GatewayLink` with proofs - done.
4. `OAuth` with proofs - done.
5. `IpBlocklist`: failures and blocks per address, fed by the gate's hard failures and by
   `respond_error`, with the clean-up timer.
6. `LoopBuffer` and the chunk relay as pure operators against "output = input".
7. Listener sync after a reload, composed with `PoolRegistry`'s configuration; the legacy
   client pools.
8. An abstract lease specification (a connection is free, leased or given up) refined by
   `H1Pool`.
