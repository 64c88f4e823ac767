# A TLA+ model of lib_yang

`lib_yang` is a Rust workspace of back-end libraries: `yang-base` (actions, routing,
tokens, authentication, plugins, HTTP client, tables), `yang-db` (MySQL, PostgreSQL and
Redis access), `yang-feishu` (a Feishu/Lark client), `yang-runtime` (configuration,
observability, shutdown) and `yang-pcg` (procedural map generation). The modules in this
directory model the parts in which several tasks, several instances, clocks or a failing
server meet. TLC checks them on small instances; TLAPS proves the main properties for
every value of the constants. All paths below are relative to `src/crates/`.

Contents: [inventory](#1-inventory), [plan](#2-plan), [conventions](#3-how-the-code-is-translated),
[modules](#4-the-modules), [runs](#5-the-runs), [fairness](#6-fairness),
[proofs](#7-what-is-proved), [disagreements](#8-where-code-and-text-disagree),
[limits](#9-what-is-not-modelled).

## 1. Inventory

### 1.1 Components with behaviour over time

| component | state it keeps | operations | talks to | hard behaviour | correct when |
|---|---|---|---|---|---|
| **Tokens** `yang-base/src/token/` | none in memory; in Redis a blacklist key per jti and a `min_iat` watermark per subject, each with a TTL | `generate_token_pair*`, `verify_token`, `verify_token_checked`, `revoke_token`, `revoke_by_subject`, `rotate_refresh_token*` | Redis; login, refresh, logout and the token middleware | concurrent rotation of one token; clock read before the Redis command; last second of a token; two watermarks | a refresh token is exchanged once; what is spent or revoked stays refused; a replay is told from an expiry |
| **Login, refresh, logout** `yang-base/src/action/auth/` | locals of one request | `LoginAction`, `RefreshAction`, `LogoutAction` | tokens, the application's resolver, audit hooks | a logout between verification and rotation | no usable session survives a logout |
| **Circuit breaker** `yang-base/src/http/circuit_breaker.rs` | a mutex over host → (last seen, closed/open/half-open) | `allow`, `on_success`, `on_failure`, `make_room` | send loop | results of old requests; map at its limit; cool-down and idle expiry | bounded map, an open host stays open for its cool-down, only probes close it |
| **HTTP send loop** `yang-base/src/http/request.rs` | attempt and remaining budget of one `send()` | `send`, `send_guarded`, `jittered_backoff` | breaker, upstream | retries of what was already done, jitter and clamping, cancellation | within the policy, gives up only when spent, returns |
| **Rate limiting** `yang-base/src/action/auth/rate_limit.rs` | Redis counters per address and per identity | `check`, `record_failure`, `clear_failures` | Redis | rounded TTLs, shared counters | at most so many calls per window; silence resets |
| **Email codes** `yang-base/src/action/auth/email_verification.rs` | Redis: three counters, a cool-down key, digest:attempts per mailbox | `request*`, `consume`, `verify_only` | Redis, mail sender | slow or failing delivery racing a newer request; guesses | a code is used once, guesses are bounded, an old failure does not delete a new code |
| **Step-up proofs** `yang-base/src/action/step_up.rs` | memory map or Redis key per consumed proof | `issue_challenge`, `complete_challenge`, `verify_proof`, `consume` | actions that ask for step-up | one proof in two requests, the last second | a proof admits one request |
| **TOTP** `yang-base/src/action/auth/mfa.rs` | Redis key per consumed time step | `verify_at` | Redis | a code that matches several steps, windows turning over | a step is accepted once |
| **Plugins** `yang-base/src/plugin/` | RwLock over name → plugin (manager), an immutable map (registry) | `register`, `get_all`, `shutdown`, the builder, both topological sorts | lifecycle, schema initialiser | check-then-insert, HashMap order, cycles, missing dependencies | one winner per name, dependencies first, cycles refused |
| **Tools and shutdown** `yang-base/src/tools.rs`, `lifecycle.rs` | state byte, close lock, pools | `close`, `graceful_shutdown` | plugins, Redis, MySQL | several callers, callers dropped at an await | a shutdown that returns has closed everything, hooks before pools |
| **Shutdown budget** `yang-runtime/src/shutdown.rs` | one optional window behind a mutex, a `Notify` | `begin`, `wait_started`, `run_phase_with_reserve` | process main, phases | several triggers, wake-up between look and sleep, late phases | one deadline for all, nobody sleeps through it |
| **Redis transactions** `yang-db/src/redis/transaction.rs` | locals of `exec()`, the connection pool | builders, `exec` | Redis, deadpool | WATCH conflicts, lost replies, pool exhausted by retries | applied at most once, no connection lost, `exec` returns |
| **Feishu token** `yang-feishu/src/auth/token.rs`, `client.rs` | cached token and refresh lock (memory or Redis) | `tenant_access_token`, `invalidate_and_refresh`, `send_tenant` | Feishu, cache | holder slower than its lock, waiters, stale retry, failing cache | the cached token works, one refresher, Feishu is asked once per cached token |
| **Feishu transport** `yang-feishu/src/transport/mod.rs`, `client.rs` | locals of one call, requests on their way | `send_with_retry`, `classify`, `disposition`, backoff, `send_tenant`, `send_raw` | Feishu, token cache | a request given up may still arrive, be handled late or twice; a token rejected in the middle of the retries | a request that must not be repeated takes effect once, the worst case of a round is what the token lock assumes, calls return |
| **Table writes** `yang-base/src/table/table_query/write.rs`, `action/tenant.rs`, `yang-db/src/mysql/` | the query (scope, conditions, soft-delete guard), an open transaction, the rows | `insert`, `update`, `delete`, `upsert_batch_in_tx`, yang-db's batches, `commit`, `rollback`, drop | MySQL, other requests | one unique key over all tenants, batches in several statements, failure between two of them, a handle dropped at an await | a write stays with its tenant, trashed rows stay trashed, a batch is whole |
| **Schema synchroniser** `yang-base/src/database/schema_sync/` | the plan and how far it has run; in MySQL the advisory lock and the tables | `plan_table_sync`, preflight scans, `sync_table_definitions` | MySQL (DDL commits by itself), other instances, the application's writes | two instances, a death or failure between two statements, data written after the scan | what was scanned is not refused by old data, a restart plans the rest, a start ends |
| **Floor plan** `yang-pcg/src/topology/`, `layout/` | the rooms placed so far | `TopologyPlanner::generate`, `solve_room_bounds`, `nudge_clear`, `generate_door_anchors` | terrain | rounding towards zero on both sides of the axis, nudging that overlaps an earlier room, a fixed number of tries | rooms apart, each placed, doors on walls and off corners |
| **Terrain repair** `yang-pcg/src/terrain/connectivity.rs` | tiles and the set of reached ones | `connect_all_doorways` | strategies | the set is extended, never computed anew | all doors reach each other |
| **Spawns** `yang-pcg/src/spawn/`, `validation.rs` | points chosen so far | sampling, exclusion, validation, report | terrain | two metrics, two samplers, a filter between sampling and validation | what is sampled passes validation |

How they meet: the **send loop** calls the **breaker** before and after its await, so the
breaker sees the calls of all tasks interleaved. **Refresh** verifies, awaits the resolver
and rotates; **logout** writes the watermark that verification reads. The **rate limiter**
and the **email codes** share the same Lua counter. **`graceful_shutdown`** runs the plugin
hooks and then `Tools::close`, from a phase of the **shutdown budget**. A **Feishu call** asks
the **token** cache before it sends and once more after a rejection; the token lock is sized
after the worst case of the call that fetches the token. The **table writes** run inside a
transaction handle or alone, and share rows between tenants. The **schema synchroniser** runs
before the application of its own instance and beside those of others. The **floor plan**
hands rooms and doors to **terrain** and **spawns**. Redis is shared by tokens, limits, codes,
TOTP, step-up proofs and the Feishu cache, by key.

### 1.2 Components without state between calls, or not modelled

`yang-base`: browser sessions; passwords and audit hooks; the action framework (typed and
functional actions, context, built-in CRUD); uploads; router and middleware onion; axum
transport and client address; API definitions, OpenAPI and UI metadata; reads of tables,
relation loading; errors, admin and metrics. `yang-base-derive`: procedural macros. `yang-db`:
PostgreSQL, the Redis client and pipelines, dialects, references. `yang-feishu`: OAuth and its
state store, events and their decryption, business wrappers (approval, bitable, contact,
drive, im) and the generated `api/`. `yang-runtime`: configuration sources, logging and
telemetry. `yang-pcg`: grammar, chunks and cache, export. `PROJECT.json` gives the reason for
each; [section 9](#9-what-is-not-modelled) sums them up.

### 1.3 Hazards

What is hard to test here falls into these kinds; `PROJECT.json` lists the instances at their
lines with the properties that guard them, or the reason why none does.

* **A clock read before the command it is for.** Rotation, revocation, step-up consumption
  and TOTP all compute a Redis TTL from a local reading. Each model has the reading and the
  command as two steps with a bound on the seconds between them.
* **Boundaries of time.** JWTs decode up to and including second `exp` (leeway 0), keys end
  at `exp`; Redis answers TTL rounded to the nearest second.
* **Results that come late.** Breaker results, failed mail deliveries, lock releases, retries,
  requests to Feishu that were given up and arrive all the same.
* **Repeated requests.** The HTTP client and the Feishu transport send again what may already
  have been carried out.
* **Several statements for one purpose.** A batch in chunks, a release in DDL statements that
  commit one by one, with a failure or a death between any two.
* **Limits.** The breaker's map, the pool, the retry counters and the waiting budget.
* **Cancellation.** A Tokio task may be dropped at every await; models of code that holds
  something across an await have an action for it.
* **Boundaries of data.** Rounding towards zero, the smallest room, the last try, cycles and
  missing names in a dependency relation.

## 2. Plan

Order of the work, most important behaviour first.

| step | modules | state |
|---|---|---|
| 1 | `OneShot`, `TokenSession` and proofs: sessions | done |
| 2 | `CircuitBreaker`, `HttpSend` composing it, proofs for both | done |
| 3 | `RedisTransaction` and proofs | done |
| 4 | `FeishuToken` and proofs | done |
| 5 | `FixedWindow`, `AuthRateLimit`, `EmailCode` (both compose the counter) | done, with proofs |
| 6 | `StepUpProof`, `TotpStep`, with proofs; `MCAuthGuards` checks them with those of step 5 and the breaker | done |
| 7 | `PluginOrder`, `Lifecycle`, `ShutdownBudget`, with proofs | done; `PluginOrder` proved with step 11 |
| 8 | `FeishuCall`: retry loop, `Retry-After`, failure classes, checked with `FeishuToken` | done, with proofs |
| 9 | `SchemaSync` with `SchemaReleases`: plan and apply by several instances | done, with proofs |
| 10 | `TableWrites` and proofs: tenants, soft delete, batches, transaction handles | done |
| 11 | `FloorPlan`, `TerrainRepair`, `SpawnPoints`, with proofs | done |
| 12 | Feishu OAuth: the state store (a map under a mutex, an entry removed when consumed, which is `OneShot` in one step) and the refresh of user tokens | open |
| 13 | Browser sessions and the token middleware over `TokenSession` | open |
| 14 | Router: middleware order, route conflicts; client address behind trusted proxies (pure) | open |

Abstract specifications: `OneShot` is the contract of every single-use credential: while it
lives it is accepted once, whoever presents it; what happens after the end of its life it
leaves open. Rotation (a refresh token lives until `exp`), the email code (which never comes
back) and the step-up proof (until `exp`) implement it, by TLC and by proof, however late
Redis answers. That rotation and step-up also promise what comes after, and do not keep it,
is shown in section 8. `SchemaSync!ReplanIsTheRest` plays that part for the synchroniser: what
a fresh start would plan is nothing but what is left of the running plan.

## 3. How the code is translated

* One action per handler step between two awaits: what a task does under a lock or in one
  Lua script is one action, an await is where other actions come in. Every `?` that can
  leave with an error at an await is a disjunct (`RedisFails`, `CommandFails`, `PutFails`,
  `Abort`, …).
* A `pc` field per request, task or caller names the await it is at, with the locals it
  holds. A local that is dead afterwards is reset, to merge equal states.
* Redis keys are a value and a remaining or absolute time to live. `TTL` is modelled by what
  it does: `FixedWindow!RedisTtl` rounds half up, over a tick of 1/`Unit` second.
* A SQL statement takes effect as a whole or not at all. Rows it wrote stay locked until its
  transaction ends (`TableWrites!Free`), and a DDL statement commits by itself.
* Secrets, digests, names and claims are members of small sets. A TOTP code is an arbitrary
  function from steps to codes, so that collisions happen. Random choices (room sizes, tiles
  of a terrain, candidates of a sampler, HashMap order) are nondeterministic.
* History variables (named "history" in their declaration) are read by properties only.
* A definition commented *Variant of …* is a plausible slip of the definition that follows
  it; nothing in the specification uses it. `PROJECT.json` pairs each with the property that
  notices it.
* Parts that share no state are checked in one run: an `MC` module has one more variable
  (`guard`, `part`, `store`, `algorithm`, `machine`), fixed in the initial state, that says
  which part a behaviour is about; the others keep their first values. Its next-state relation
  is the disjunction of the parts' own, so a step of the run is a step of one part, and a
  property of a part means what it means in the part's module.


## 4. The modules

| module | models | state ↔ code | actions ↔ code |
|---|---|---|---|
| `OneShot` | contract of single-use credentials | `uses` counts acceptances, `over` says whose life has ended | `Use`, `LivesEnd` |
| `TokenSession` | `token/manager.rs`, `token/revocation.rs`, the three `action/auth` handlers around them | `pairs` the claims issued (`parent` is the pair a rotation exchanged), `blacklist` the jti keys, `watermark` the `min_iat` keys, `req` a task's locals | `Login`, `RefreshVerify` … `RotateWins`/`RotateLoses`, `LogoutVerify`, `MarkClock`/`Mark`, `RevokeClock`/`Blacklist`, `RedisFails` |
| `TableWrites` | `table/table_query/write.rs`, `action/tenant.rs`, yang-db's `query_builder/write.rs` and transactions | `soft` the soft-delete setting, `rows` the table by unique key, `call` a query with its scope, its list of writes and the undo log of its transaction | `Begin`, `Insert`, `Update`, `Delete`, `UpsertInTx`; `BeginBatch` (a plain batch, in a transaction of its own), `Chunk`; `Commits`, `Abort`, `Committed`, `RolledBack` |
| `CircuitBreaker` | `http/circuit_breaker.rs` | `states` is the map; an entry's phase, count, age | `Allow`, `Reject`, `OnSuccess`, `OnFailure`, `Tick`; `lag` is the time between `Instant::now` and the lock |
| `HttpSend` | `http/request.rs` `send`, `send_guarded`, `jittered_backoff` | `states` shared with the breaker, `send` a call's locals | `Send`, `Guard`, `Response`, `Wake`, `Drop`, `Flip` (the upstream) |
| `RedisTransaction` | `redis/transaction.rs` and the pool | `free` connections, `tx` the locals of `exec()` | `Build`, `Get`, `Watch`, `ExecCommits`, `ExecConflicts`, `ExecAborts`, `Again`, `CommandFails`, both time-outs, `Cancel`; `ForeignWrite` |
| `SchemaSync` | `database/schema_sync/` (`sync.rs`, `plan.rs`, `preflight.rs`, `inspect.rs`, `model.rs`) | `want` the definitions, `db` the tables with their rows, `holder` the advisory lock, `sync` an instance's plan and how far it has run | `Start`, `GetLock`/`LockTimesOut`, `MakePlan`, `Preflight`, `Execute`, `Refusal`, `Fails`, `Finish`, `ReleaseLock`, `Restart`; `Write` and `Insert` of the application |
| `SchemaReleases` | the definitions and old tables the runs start from | `Releases`: a column renamed, tightened and constrained (`Evolve`), a first start (`Fresh`), columns, primary key and indexes added to a table with rows (`Grow`), a column under its old name and its new one (`Torn`), constraints over columns still to be added (`OverNewColumns`), a unique column with a default (`UniqueDefault`), a column wider than declared (`Widened`) | – |
| `FeishuToken` | `auth/token.rs`, `client.rs` `send_tenant` | `cache`, `lock`, `call`; Feishu's own `life`, `made`, `revoked` | `Read`, `Acquire`, `Poll`, `Recheck`, `Answer`, `Put`, `Release`, `Accepted`/`Rejected`, `Delete` and their failures; `Revoke` (Feishu), `Tick`, `Cancel` |
| `FeishuCall` | `transport/mod.rs`, the sends of `client.rs` | `call` the locals of a send loop, `copies` the requests on their way, `effects` what Feishu carried out | `Begin`, `GetToken`, `Send`, `Handle`/`HandleLate` (Feishu), `GiveUpWaiting`, `Answer`, `Refresh`, `Cancel` |
| `FeishuClient` | yang-feishu's client: `FeishuToken` with `FeishuCall` beside it, a call seen by the token as one step and the token by a call as one | – | – |
| `FixedWindow` | the Lua counter shared by three scripts | `counter` | `CountOn`, `Delete`, `Elapse` (operators its users conjoin) |
| `AuthRateLimit` | `action/auth/rate_limit.rs` | `attempts` over `FixedWindow`; the ages of the last calls of a key are history | `Attempt`, `Clear`, `Tick` |
| `EmailCode` | `action/auth/email_verification.rs` | `counter` over `FixedWindow`, `cooling`, `code`, `send` | `Reserve`/`Limited`, `Store`, `Deliver`, `Reclaim`, `Guess`, `Consume`, `Abort` |
| `StepUpProof` | `action/step_up.rs` with both stores | `challenges`, `proofs`, `marks`, `req` | `Challenge`, `Complete`/`Completed`, `Present`, `ReadClock`, `Consume`, `Abort` |
| `TotpStep` | `action/auth/mfa.rs` `verify_at` | `used` the step keys, `codeAt` the shared secret | `Match`, `Script`, `Abort` |
| `PluginOrder` | both topological sorts, `plugin/manager.rs` and `plugin/registry.rs` | `degree`, `queue`, `sorted` | `RefuseMissing`, `Prepare`, `Pop`, `Finish` |
| `Lifecycle` | `plugin/manager.rs` `register`, `shutdown`; `lifecycle.rs`; `tools.rs` `close` | `plugins`, `holder` (`close_lock`), `state`, `open` | `RegisterCheck`, `RegisterCallback`, `RegisterInsert`; `List`, `Hook`, `AfterHooks`, `Lock`, `CloseRedis`, `CloseMysql`, `Cancel` |
| `ShutdownBudget` | `yang-runtime/src/shutdown.rs` | `window`, `begin`, `phase` | `Begin`, `Notify`, `EnterPhase`/`Wait`/`Wake`, `Complete`, `Timeout` |
| `FloorPlan` | `yang-pcg` `topology/`, `layout/` | `graph` the plan, `placed` the rooms in order, `cursor`, `candidate` and `tries` the locals of the placement | `Plan` (`FirstRooms` deals the rooms to the branches), `PlaceCritical`, `StartBranches`, `DrawBranchRoom`, `Nudge`, `Settle`, `OpenDoors` |
| `TerrainRepair` | `yang-pcg/src/terrain/connectivity.rs` | `tiles`, `waiting` the doors still to look at, `marked` the visited set | `FloodFirst`, `Skip`, `Connect`, `NothingToDo`, `Return` |
| `SpawnPoints` | `yang-pcg` `spawn/`, `validation.rs` | `room`, `config`, `wanted`, `items`, `enemies` | `PlaceItem`, `StartEnemies`, `PlaceEnemy`, `PlaceBoss`, `EnemiesComplete`, `Exclude` |

`HttpSend` composes with `CircuitBreaker`: it INSTANCEs it over the same variable `states`,
so every breaker step is a conjunct of a send step. `AuthRateLimit` and `EmailCode` compose
with `FixedWindow` in the same way. `Lifecycle` composes the plugin manager with `Tools`.
`SchemaReleases` extends `SchemaSync` with the data its runs start from.

The MC modules put parts side by side that share no state: `MCRequests` (sessions, table
writes), `MCAuthGuards` (breaker, limits, email codes, step-up proofs, TOTP), `MCDatabase`
(Redis transactions, schema synchroniser), `MCClients` (Feishu token, calls, HTTP client), `MCAlgorithms`
(floor plan, terrain repair, spawns, plugin order), `MCLifecycle` (plugins and tools, budget).

Modelled as external, from how the code uses them: Redis commands and key expiry, the
deadpool permits, tokio's `Notify`, `timeout_at`, mutex and task cancellation, JWT decoding,
MySQL's statements, row locks, DDL and constraints, Feishu's endpoints, the upstream servers,
and the applications' resolvers, verifiers, mail senders and writes.

## 5. The runs

Each `.cfg` names the constants; the table says what they make happen.

| run | what it shows | bounds, and why they are enough |
|---|---|---|
| `requests` | Sessions: rotation is one-shot, what is spent or revoked stays refused, a family is revoked only after a real replay. Tables: no write leaves its tenant or touches trash, a batch or transaction is kept whole or not at all. | 2 symmetric requests race on 3 pairs of one user over 2 seconds; a refresh token lives 2, an access token 1, so both expiries, both watermark lifetimes and a chain of two rotations occur. Commands arrive in the second of their clock reading or in the next (`MaxLatency = 1`), so a key may have ended when the command that looks for it comes, and two watermarks may be written in the other order. `Revocable` bounds what is revoked singly to the first pair and the second refresh token, so that such a key stands beside a rotation, in a chain of rotations and beside a watermark. Two writers of two tenants (or the system) over 2 unique keys, chunks of one row, two statements each, from every arrangement of rows up to renaming the tenants, with soft delete and without: a batch meets a foreign row in its first or its second chunk, while the other writer holds a lock. |
| `auth_guards` | An open host is not forgotten early while there is another choice; windows are fixed, guesses are bounded, one use per code, per proof until it expires, and per time step while it is tolerated. | 3 hosts for 2 places: eviction of closed, half-open and open hosts; both thresholds 2, so that counters matter; a lag of 1 between clock and lock. Windows of one second in 3 ticks, so that TTL rounds both ways; 2 identities behind one address with unequal limits; 2 codes, so that there is a newer one; proofs of 2 s over 5 s, in both stores; TOTP over 10 s with windows of 2 s and tolerance 1 and every assignment of 2 codes to the steps, so that one code matches several. Stores and scripts answer up to a second after the clock was read (`MaxLatency = 1`). |
| `database` | Redis: no connection is lost, commands apply at most once, every `exec()` returns. Schema: a fresh start would plan nothing but what is left of a running plan, no other start overtakes a statement, data that was there at the scan does not make a statement fail, starts end. | 3 transactions over 2 connections and one foreign writer: the pool is exhausted at the first get and at the retry; 2 rounds instead of the code's 100. 2 instances of one release start together, over each of the `Releases`; one write of the application anywhere, one failure or death between any two statements, and the restart after it. |
| `redis_lost_update` | *refutes* `NoLostUpdate` (section 8). | as `database` |
| `redis_pool_wait` | *refutes* `RetryCanProceed` (section 8). | as `database` |
| `schema_blind_scan` | *refutes* `PreflightReadsExisting` (section 8). | as `database` |
| `clients` | Token: the cached token is accepted by Feishu, one caller at a time refreshes under the lock, Feishu is asked once per cached token while nothing fails. Call: a request that must not be repeated takes effect at most once, a round of attempts keeps to `worst_case_seconds`, every call returns. HTTP: a call hits the upstream within its policy and returns; a recovered upstream is admitted again. | Token: 2 callers, 2 tokens, so that the new token replaces an old one that is still accepted (`Renew` 3 of 4 s); the lock outlasts the request by one second; all five kinds of fault; the margin of the cache covers a send, as it does in production, so that a send takes no time (`MaxSend = 0`). Lifetimes count down, so time has no bound. Call: one with 3 attempts, ticks of half a second, backoff 1 to 3, advice of 1 or 3 s against a cap of 2 s (4 ticks), so that rounding up and capping occur; requests are lost, handled after the time-out, or answered after being carried out. HTTP: 2 tasks on one host, so that a result of one arrives in every phase the other caused; 2 retries, a budget of 4 against waits of 3–5 and 6–10 quarter backoffs, so that clamping and an exhausted budget occur; jitter 25. |
| `step_up_last_second` | *refutes* `ProofIsOneShot` (section 8). | one proof, 2 requests, no latency |
| `step_up_replay` | *refutes* `ProofReplayableInTtl` (section 8). | as `step_up_last_second` |
| `late_watermark` | *refutes* `RevocationIsFinal` (section 8). | 2 requests, 2 pairs, `MaxLatency = 1` |
| `algorithms` | Rooms keep apart, every planned room is placed, doors are off the corners and reach each other, sampled points pass validation, sorting lists dependencies first or refuses a cycle. | Plans of 2–6 rooms with a critical path of 2–4 and 0–3 branches (several per side, so that they meet and are nudged), rooms of 4 or 17 by 4 or 9, so that odd and even sizes are halved on both sides of the axis; every interior of a 6 × 4 room with up to 3 doors; 2 items and 2 enemies with unequal spacings, an obstacle, a zone; all relations over 4 symmetric names, registered or not, and all HashMap orders. |
| `lifecycle` | A name has one winner, plugins are stopped before anything is closed, a shutdown that returns has closed everything, one that got as far as `close()` returns; one deadline, obeyed by early and late phases, and nobody sleeps through the start. | 3 plugin objects for 2 names: some two always collide; 2 closers, dropped at any await. 2 triggers, 2 phases, all reserves from 0 to one more than the total, time to twice the total. |

Each property of a passing run has a mutant in `PROJECT.json`: the code changed the way a slip
would change it (EX without NX, a missing comparison before a delete, a counter not reset, one
retry more, an `on_shutdown` not awaited, a lock not asked for, …). The property fails on it
under the run's own configuration.

Every run has a part that ends: time or tokens run out, transactions, calls and starts
return, plans and sorts are finished; so the configurations say `CHECK_DEADLOCK FALSE`. Where
parts wait for one another, that all of them end is a property of its own (`ExecReturns`,
`SyncReturns`, `CallReturns`, `SendReturns`, `ShutdownReturns`).

Symmetry is used only over sets whose members no operator tells apart, and never in a run with
a liveness property (`database`, `clients`, `lifecycle`). `requests` reduces its
tenants by hand: the first row belongs to a chosen one.

## 6. Fairness

Safety properties assume none. The others, each part's condition being idle while another
part runs:

* `clients`, HTTP. Weak fairness of the clock and of a task's own steps (`Guard`, `Wake`): tokio
  polls a ready task. Strong fairness of `Response`: an await on the upstream ends by answer or
  by the client's time-out, unless its caller drops the call, and callers do not drop every
  call. Strong fairness of `Send` for each task and host is an assumption on the application,
  not on this code: only a host that is called can heal. It is used by `Heals` alone.
* `database`, transactions. Weak fairness per task of its wait for a connection (which times
  out), of `WATCH`, and of the reply to `EXEC`. Nothing is assumed of other writers:
  `ExecReturns` holds because the number of rounds is bounded.
* `database`, synchroniser. Weak fairness of each instance's own steps: `GET_LOCK` returns
  after 30 s at the latest, so the wait ends though the other instance never lets go; MySQL
  answers a statement or the connection breaks (`Fails`). Restarts and writes of the
  application are not assumed to happen.
* `clients`, calls to Feishu. Weak fairness of a call's own steps: the HTTP client gives up an
  answer after its time-out, sleeps are timers, and a request for a token ends. Feishu is not
  assumed to handle anything.
* `lifecycle`, tools. Weak fairness of a closer's own steps; strong fairness of `Lock`, since
  tokio's mutex queues its waiters in order.
* `lifecycle`, budget. Weak fairness of the clock, of each `Notify` and of a phase's steps up
  to its body; the timer of `timeout_at` fires.

## 7. What is proved

TLAPS checks these theorems from the specifications of the parts, for every value of the
constants that meets the named assumptions (which TLC also evaluates on the runs).

| module | theorems | argument |
|---|---|---|
| `Requests_proofs`, sessions | `TypeCorrect`, `SpentIsRefusedHolds`, `ReuseIsRealHolds`, `RotatedOnceHolds`, `RevocationSticksHolds`, `RotationImplementsOneShot`, all for any latency | `Inv` ties what a request holds to an issued token and a clock reading not in the future. `Ledger` adds that a pair with a parent means a blacklist key that outlives the parent's token. A key's TTL counts from a reading that is not in the future, so the key lasts at least until the token expires: a second pair of one token needs a key that is gone, hence a token that has expired (`PairsStep`). `KeyStays` and `LifeStays`: no step takes a key of a living token back or changes its life. A watermark covers an issued token until that token expires, unless a lower one is written over it, which is one of a clock reading before the token was issued (`Overtaken`, `SticksStep`): `RevocationSticks` names that one exception, which the code allows. |
| `Requests_proofs`, tables | `TableInvariant`, `TableTypeCorrect`, `ReachIsKept`, `BatchesAreWhole` | `TableInv`: the books of a call (`Balanced`) say what it has written, uncommitted or for good; the undo logs of two open transactions are over different keys, since rows written are locked, so rolling one back restores what it found; what an open transaction wrote lies within its reach. `StatementInv` is the one lemma every statement goes through. |
| `AuthGuards_proofs`, breaker | `BreakerInvariant`, `MapIsBounded`, `OpenHostsAreKept`, `OpenHostsProbeFirst` | `Bounded` alone is not inductive: an insertion needs what `make_room` leaves, and the phase counters of `TypeOK`. The lemma on survivors counts once for all insertions; `EvictionSparesOpen` says whom eviction takes. |
| `AuthGuards_proofs`, email codes | `EmailInvariant`, `GuessesWearCodesOut`, `CodesAreOneShotHolds` | `EmailInv` joins the books (the wrong guesses stored with a code are those made against it, below the maximum, and its age and remaining life add up to the TTL) to `Unspent`: a stored code was generated and has not been accepted. |
| `AuthGuards_proofs`, step-up | `ProofUsedOnceHolds`, for any latency | `Remembered`: the mark of an accepted proof lasts to `exp`, or `exp` has come. `InFlight`: what a request holds was issued, and its clock reading is not in the future, so a late command lengthens a mark and never shortens it. |
| `AuthGuards_proofs`, TOTP | `StepUsedOnceHolds`, for any latency | `Spent`: the mark of a used step lasts to the end of its tolerance, or that has come; a step is used twice only after it. `WindowEnds` says when division lets go of a step; the step the script takes is the largest of a bounded set, which exists by well-foundedness. |
| `AuthGuards_proofs`, attempt limits | `WindowsAreFixedHolds` | The property looks back over two windows, the counter knows one. `Counted` says, for some number not above the limit, that so many of the newest admitted calls are in the running window; those before it are old enough to have left by the time it ends, and at most another limit of them are still young. `Quiet` ties a counter's remaining life to its newest call. `RedisTtl` may prolong a window, and the invariant survives that. |
| `HttpSend_proofs` | `HitsAreBounded` (at least one host) | `Counted`: while a call runs, its hits are its attempt counter, plus one once sent. |
| `RedisTransaction_proofs` | `Invariant`, `PoolIsConserved`, `CommandsApplyOnce` | `Clean`: until it returns, a transaction has neither applied nor reported. The pool equation is a cardinality argument over the set of holders, in two lemmas (one joins, one leaves). |
| `SchemaSync_proofs`, lock | `OneSynchroniserAlways`, `PlansRunAlone` | `SyncInv`: the holder of the advisory lock is exactly the instance at work, and there is at most one. Time-outs, failures and deaths each give the lock back with the work, so no statement of another start falls between a plan and its last statement. |
| `SchemaSync_proofs`, plan | `RestIsPlannedAgain`, `EveryStatementStillNeeded` | `PlanInv`: what a plan made now would hold (`Due`) is among what is left of the running one, and every statement that is left is still *open*: its own column, index or constraint is not there. Both survive a statement because each of the eight kinds *advances* its table: it removes itself from what is due, adds nothing, and keeps the table one that `plan_table_sync` would not refuse (`Agrees`). `Order` is the order of the plan (columns before MODIFY, both before keys and constraints of the same table, foreign keys last); with it, what the next statement builds on is there, for if it were not it would be due, and so among the statements still to come. |
| `SchemaSync_proofs`, data | `ScannedStatementsSucceed` | `DataInv` adds that the tables are `Lawful` (rows obey every constraint, constraints name what is there) and that, as long as the application has not written since the plan, the rows are fit for every statement that is left (`Clear`), or it is a unique index over columns the plan adds. After a clean preflight they are, kind by kind (`CleanScans`). A statement keeps the rows fit for the others (`ClearAfter`): a renamed column is found by its new name with the same cells, an added one has cells no scan was about. And a statement that the rows are fit for leaves them legal (`LegalAfter`), if it adds no primary key and narrows no column. |
| `FeishuToken_proofs`, token | `Invariant`, `CachedTokensAreUsable`; `RefreshIsExclusive` if `Covered`: `MaxIssue + 2 * CacheLatency < LockTtl`; `OneRequestPerToken` if also `Cacheable`: `Margin < Renew` | `HolderCovered`: what is left of the lock covers what its holder has still to do. This is the comparison the documentation of `LOCK_TTL_SECONDS` makes, with the round trips it leaves out. `Flight` adds that while nothing has failed a token on its way to the cache is the only answer since the cache was last filled. `Cacheable` says that Feishu renews a token before its rest is too short to be cached (half an hour against five minutes in production); without it every caller would rightly ask again. |
| `FeishuToken_proofs`, calls | `SentOnce`, `BudgetKept` | `CallInv`. A request that must not be repeated is sent again only when nothing of it is left, neither a copy on its way nor an effect (`Repeatable`): every answer that leads to another attempt implies that Feishu did not carry the request out. `InBudget`: the time spent is at most what the attempts and waits so far may take, waits being at most the cap on advice. That is `PolicyAssumption`, which the four policies of `transport/mod.rs` satisfy; for a caller's own policy with longer exponential waits `worst_case_seconds` is no bound. |
| `Shutdown_proofs` | `Invariant`, `NamesHaveOneWinner`, `ReturnsClosed`, `HooksComeFirst`, `StaysClosed`; `BudgetInvariant`, `BeginIsIdempotent`, `PhasesShareTheBudget` | A caller that finds `closed` returns at once, so `Closing` says that closed implies nothing open, and who holds the lock how far it has come. `Hooking` adds that the first list of plugins is stopped or still on a caller's list while nothing is closing. `OneWindow`: an open window is `Total` long and a running phase took its deadline from it. |
| `Algorithms_proofs`, floor plan | `Invariant`, `TypeCorrect`, `Layout`, `Doors`, `EveryRoomPlacedAlways` | `Layout`: the path lies left of the cursor and around the axis, a branch settles beyond the ceiling or floor of everything placed (`HasCeiling`, `HasFloor`), so it meets nothing, whatever the sizes drawn and whether the tries ran out or not. `Doors`: a side of at least 4 has a point off both corners, after rounding. `Planned`: dealing the rooms out by division leaves each of the remaining branches at least one and the last one all that is left, so the branches cover the rooms beyond the path without gap or overlap; the placement then walks the rooms in order (`AsPlanned`). |
| `Algorithms_proofs`, terrain | `RepairConnects` | The flood is a recursive function; `Closure` is first shown to be the least set that contains the start and is closed under stepping onto a walkable neighbour. Carving only adds walkable tiles, so what was reachable stays so (`TerrainInv`); a carved path is connected from one inward tile to the other, by induction on its length. The marks are too small at times, never too large. |
| `Algorithms_proofs`, spawns | `SampledPassesValidation` | `SpawnInv` keeps squared Euclidean distances, as the sampler does. The validation takes Manhattan distances, which are never smaller, and the exclusion zones only take points away. |
| `Algorithms_proofs`, plugins | `PluginsSorted` | `Kahn`: a degree counts the dependencies not yet sorted, a name is sorted or queued exactly when there are none. When the queue is empty and names are left, each of them waits for another one that is left, so a cycle exists among finitely many: the strict sort refuses, the tolerant one appends. |

Theorems about a part whose property is checked under an `MC` module are about the part's own
specification, of which the run's behaviours are those of the part with the others at rest.

The theorems about the synchroniser hold for every set of scenarios that meets two
assumptions. `ScenarioAssumption`: the definitions are such as `TableDefinition::build` and
`normalize_definitions` accept (`Accepted`, `Holdable`; of a default, that it fits its column),
and the tables such as MySQL can hold (`Linked`). `RenamesAssumption`, of which only
`ScannedStatementsSucceed` makes use: no foreign key refers to a column that is to be renamed.
MySQL would rename it in the key as well, which `Altered` leaves out.

Every invariant a passing run checks is stated by a theorem, and so is every action property.
Only model-checked is the liveness (`SendReturns`, `Heals`, `ExecReturns`, `SyncReturns`,
`CallReturns`, `ShutdownReturns`, `NoLostWakeup`), since liveness under fairness is beyond
TLAPS.

## 8. Where code and text disagree

Six have a run that shows the counterexample:

| run | formula | code | text |
|---|---|---|---|
| `redis_lost_update` | `NoLostUpdate` | `yang-db/src/redis/transaction.rs:326` sends WATCH inside `exec()`, after the caller read what its commands are built from | `redis/client.rs:197` "optimistic lock … balance deduction", `:172` |
| `redis_pool_wait` | `RetryCanProceed` | `transaction.rs:354` asks for a second connection before it gives up the first: transactions that hold the whole pool and conflict all time out | `transaction.rs:353` "retry with a fresh connection" |
| `step_up_last_second` | `ProofIsOneShot` | `step_up.rs:198`, `:240` keep the mark until `exp`; the JWT decodes through second `exp` (`:793`) | `step_up.rs:174` "at least until the proof expires" |
| `step_up_replay` | `ProofReplayableInTtl` | both stores remember a proof that was consumed (`step_up.rs:199`, `:244`) and refuse its second use at once | `step_up.rs:258` "within its TTL a proof can be replayed for the same resource", so that one re-authentication starts transfers again and again; `:174` asks for the one-shot that is implemented |
| `late_watermark` | `RevocationIsFinal` | `revocation.rs:238` writes its reading unconditionally: an older reading, sent later, lowers the watermark, and a session revoked in between is accepted again | `revocation.rs:203` "all tokens issued before at once", `:207` no revoked session comes back |
| `schema_blind_scan` | `PreflightReadsExisting` | `schema_sync/plan.rs:399` scans for a CHECK or foreign key over a column that the same plan has still to add: the scan fails on an unknown column, at every start | `plan.rs:345` leaves the scan of a unique index out for this very reason |

The next are formulas of the modules that the runs leave out. Each is refuted when it is
added to the run's configuration with the constants given:

| formula | with | code | text or expectation |
|---|---|---|---|
| `TokenSession!RevokedUntilUnusable` | `requests` | keys end at `exp`, the JWT decodes through `exp` | `manager.rs:573` "at least the longest remaining lifetime" |
| `TokenSession!NoSessionFromRevoked` | `requests` | `refresh.rs:170`: the rotation does not read the watermark again after the resolver; a pair issued a second after the logout is accepted | `revocation.rs:205` "all sessions of a user at once" |
| `TokenSession!OneExchangeEver` | `requests` | `token/manager.rs:905` counts the TTL of the key from a reading before SET NX EX is sent: of two rotations that both verified in time, the second may arrive at `exp`, when the key of the first has ended, and succeeds too | `manager.rs:780` "of concurrent requests only the first writes the blacklist" |
| `TotpStep!StepUsedOnceEver` | `auth_guards` | `mfa.rs:140`: marks end with the tolerance of their step, and a script that was matched before may run after it | `mfa.rs:46` "replays are refused across instances, uses and after the window has turned" |
| `AuthRateLimit!RefusedOnlyWhenBusy` | the module itself: one address, two identities, `IpAttempts = 3`, `UsernameAttempts = 2`, `Window = 1`, `Unit = 3` | `rate_limit.rs:24`: a key whose TTL rounds to 0 gets another whole window with its old count | `rate_limit.rs:122`, `:124` the most attempts within a window of so many seconds |
| `HttpSend!GivesUpOnlyWhenSpent` | `clients`, `JitterPercent = 100` | `request.rs:824`: a jittered wait of 0 ends the loop like an empty budget | `request.rs:819` |
| `RedisTransaction!AllRetriesUsed` | `database` | `transaction.rs:347` gives up at the `MAX_RETRIES`-th round, not after as many replays | message at `:349` |
| `SchemaSync!OldDataIsScanned` | `database` | an added primary key has no scan, nor has a unique index over added columns (`schema_sync/plan.rs:345`), nor a MODIFY of a column wider than declared, which `table/schema_validation.rs:189` takes for compatible, so that `plan.rs:223` does not scan its values | `schema_sync/mod.rs:5` "whatever old data may block is scanned first" |
| `FeishuToken!RetryHasNewToken` | `clients` | `client.rs:206` reads the cache again, and a cache that failed or Feishu itself may answer with the rejected token | `error.rs:18` |
| `PluginOrder!ReverseOrderOfDependencies` | `algorithms` | `plugin/manager.rs:315` appends what hangs on a missing dependency in any order | `manager.rs:377` |
| `SpawnPoints!ReportAgrees` | `algorithms` | `yang-pcg/src/generator.rs:213` checks the debug report against `DEFAULT_MIN_SPACING` = 2 (`validation.rs:322`), so with a configured spacing of 1 an accepted floor is reported invalid | `spawn/mod.rs:30` "what generation satisfies, validation accepts" |
| `Lifecycle!EveryPluginIsStopped` | `lifecycle` | `plugin/manager.rs:393` lists the plugins once; a registration that ends later is not stopped | `plugin/traits.rs:122` |

Others were met on the way and have no formula, most of them because the model abstracts from
what they are about:

* *Schema synchroniser.* A start that is dropped at an await may return a connection to the
  pool that still holds the advisory lock. MySQL refuses to rename a column that a CHECK names
  (`NextStillNeeded` says so). `UniqueDefault` and `Widened` are the releases whose statements
  old data refuses after a clean preflight, as does a primary key added in `Grow`.
* *Table writes.* The guard against writing a whole table (`query_builder/write.rs:762`,
  `:929`) is satisfied by the tenant and soft-delete conditions that a protected query adds by
  itself, so a `delete()` without conditions of the caller takes all rows of the tenant.
  `table_query/write.rs:223` says ON DUPLICATE KEY UPDATE would revive trashed rows, though it
  never assigns `deleted_at`. Plain batches ignore the conditions of their query. An
  `update_batch` with one id twice keeps the first within a chunk and the last over chunks.
  `insert_batch` does not shrink its chunks when rows have many columns, the other two do.
* *Terrain.* `connectivity.rs:126` skips doors that are connected "to avoid needless carving";
  the flood after a carving starts at the new entry and stops at what was visited, so tiles
  carved behind that are not noticed and a door they connect may be carved again. `all_doors_connected` asks for a single region
  (`connectivity.rs:30`) and so is false for a room with an isolated pocket, though
  `model/terrain.rs:218` speaks of the doors. In a room of 5 or less the fallback for a boss
  would write over doors; no accepted configuration gets there.
* *Floors.* A corridor may run through a room when rooms are wide and low. The comment on the
  derived generators at `chunked.rs:403` does not describe the code, which the repository's own
  audit notes.

## 9. What is not modelled

* *Most of the lines.* Of 140 000 lines of implementation more than a third are the generated
  wrappers of `yang-feishu/src/api/`: one request each through the call that `FeishuCall`
  models. Large parts of the rest render SQL, OpenAPI, configuration or errors. The models
  cover the code that keeps state over several steps, which is a small share of the whole.
* *Pure or generated code.* Procedural macros, API definitions and OpenAPI, dialects and value
  conversion, configuration parsing, telemetry. They keep no state between calls; their results
  are compared with examples by the tests.
* *Open in the plan* (steps 12–14). The OAuth state store of `yang-feishu`, which removes an
  entry under a mutex and so is `OneShot` in one step, and its user tokens; browser sessions;
  the router, and the client address behind trusted proxies, which are pure.
* *Repeated elsewhere.* PostgreSQL's batches and transactions have the shape of MySQL's; the
  chunked generator of `yang-pcg` runs the stages modelled here room by room, with a cache that
  its caller fills and asks.
* *Left out of a modelled part.* The bodies of JWTs, digests, mail and HTTP messages; the
  Access half of a login answer; audit hooks, metrics and logging; the OAuth half of the Feishu
  client; extension resources of `Tools`; `PluginManager`'s queries; reads of tables, field
  permissions and filters; several scopes in one transaction, and a caller that goes on with a
  transaction after an error; the rename of a column in the foreign keys that refer to it
  (`RenamesAssumption`); foreign keys over several columns and the normalisation of
  defaults; what a terrain strategy draws (any interior is allowed), corridors, room types,
  grammar and export; overflow of `i32` coordinates, which the caps of the configuration
  exclude. `PROJECT.json` has a note per component.
* *A hazard without a property.* A logout between the verification and the rotation of one
  refresh (`refresh.rs:170`): what one would state, `NoSessionFromRevoked`, does not hold
  (section 8).
* *Assumed of the environment.* One clock for all instances and Redis (drift is `MaxLatency`
  at most), Redis without failover, commands answered or failed but not applied twice by the
  client library, MySQL with InnoDB at its default isolation, where a statement is applied as a
  whole or not at all.
