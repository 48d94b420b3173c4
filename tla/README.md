# TLA+ verification of aisix

aisix is an AI gateway (proxy in front of model providers) with a self-service
portal that bills tenants for what the gateway spent and switches their API
keys off and on. This directory holds TLA+ models of the parts of it where
state, time and concurrency decide correctness, TLC configurations for small
instances, and TLAPS proofs for every instance.

`PROJECT.json` gives, for each definition, the source lines it stands for
(`map`), for each property a mutation of the model that breaks it (`mutants`;
the mutated forms are the operators marked as such or named after the bug, next
to the definition they replace), and the list of hazards the properties are
for.

## 1. Inventory of the system

| Component | State | Operations | Interacts with | What is hard |
|---|---|---|---|---|
| Rate limiter (`aisix-ratelimit`) | per-bucket windows, in-flight set, cumulative allowance; the bucket map | `acquire`, `commit`, `release`, `add_tokens`, `peek`, `reap`; `Reservation` drop; stream hand-over | `quota.rs` reserves the layers of a request; the upkeep task of the server reaps; Redis store as the shared variant | lookup and lock are two steps; the clock is read before the lock; roll-back on refusal; release on every path |
| Redis store and client (`store/redis.rs`, `aisix-redis`) | shared windows, leased semaphore, fallback mode, breaker | the same trait, with Lua scripts, lease refresh | other gateway replicas | timeouts with an unknown outcome, lease expiry, switching to the local store and back |
| Portal: billing (`sweeper.rs` `tick`/`settle`) | `consumption_mark`, `spend_cursor`, `ledger`, `key_spend` | one round per tenant and tick: query, basis, transaction | Prometheus, the gateways' counters, other portal instances | counter resets, lagging replicas, overlapping instances, pruning, upgrade from the earlier biller |
| Portal: key switch (`sweeper.rs` `apply_key_state_to`, `keys.rs`) | `disabled` flags in the configuration file, `portal_disabled_keys`, `pending_ours` in memory | reconcile round, create, revoke; admin suspend and grant | the console's operator edits the same flag; the configuration writer | two stores written one after the other, stale reads, shared ownership of one bit |
| Portal: configuration writer (`resources.rs`) | the resources file, its lock and its backup | `Writer::edit`, validate, reload | console `save_resources`, gateway reload on SIGHUP | compare-and-retry between two programs |
| Portal: accounts, top-ups, quotas (`auth.rs`, `topup.rs`, `ledger.rs`, `admin.rs`) | rows of SQLite | request, decide, grant, set quota | key switch, billing | count-then-insert limits, decide-once |
| Console (`aisix-console`) | the resources file | save, confirm, roll back | the writer | lost updates |
| Configuration watch (`aisix-etcd`) | current snapshot, revision, on-disk cache | list, watch, resync, publish | every proxy handler reads the snapshot | compaction, reconnect, stale cache |
| Routing, cooldown, health (`aisix-proxy`) | cooldown map, health counters | pick a target, record an outcome | attempts of a request | several requests move one target's state |
| Background jobs (`jobs.rs`) | job records, claims | poll, settle once | rate limiter (`claim_once`) | charging a job once across polls and replicas |
| Telemetry (`aisix-obs`, `heartbeat.rs`) | bounded queues, batches | enqueue, flush, retry, drain | network sinks | loss at limits, shutdown |
| Caches, guardrails, provider adapters, MCP/A2A, admin API, web UI | little or none | translation, lookup | | mostly pure functions over documents |

What makes each correct:

- *rate limiter*: a limit is a limit under every interleaving; a refusal costs
  nothing; every slot comes back;
- *billing*: nothing is debited twice, everything is debited in the end;
- *key switch*: the portal opens only what it closed, never forgets what it
  closed, and a user without money has no working key;
- *writer*: every edit is applied to the file as it is, atomically;
- *watch*: the published snapshot only moves forward and converges, a value
  the gateway cannot load never displaces a good one, and a restart serves what
  was served;
- *jobs*: a job's cost is posted at most once.

- *shared leases*: the limit holds across replicas, a slot whose holder died
  comes back, a stream is stopped only for a lease that is really lost;
- *Redis breaker*: it closes on fresh evidence only, and not never.

The rate limiter with its local and its Redis backend (the concurrency lease),
the Redis breaker, billing, key switch, configuration writer and configuration
watch are modelled here. The rest is in section 7.

## 2. Modules

| Module | Models | Extends |
|---|---|---|
| `FixedWindow` | `FixedWindowCounter` (`window.rs`), as operators on a record | |
| `LocalStore` | what each store operation does to one bucket under its mutex (`store/local.rs`) | `FixedWindow` |
| `Limiter` | requests reserving, holding and settling layers over a map of buckets, with the reaper and the clock (`limiter.rs`, `local.rs`, `quota.rs`, the stream completion of `chat.rs`) | `LocalStore` |
| `LimiterProofs` | TLAPS proofs about `Limiter`: types and the concurrency limit | `Limiter` |
| `WindowProofs` | TLAPS proofs about `Limiter`: the windows, the allowance, refusals | `LimiterProofs` |
| `SpendBilling` | billing one tenant: `tick`, `settle`, `BillingBasis`; gateways and Prometheus as environment | |
| `SpendBillingProofs` | TLAPS proofs about `SpendBilling` | `SpendBilling` |
| `KeySwitch` | who switches a key on and off: reconcile round, create/revoke, operator, accounts | |
| `KeySwitchProofs` | TLAPS proofs about `KeySwitch` | `KeySwitch` |
| `ConfigFile` | abstract: what the writers of `resources.yaml` promise together; each change is one step | |
| `ConfigWriter` | the portal's `Writer::edit`, the console's `save_resources`, the gateway's reload loop, step by step | instantiates `ConfigFile` |
| `ConfigWriterProofs` | TLAPS proofs about `ConfigWriter`, the refinement among them | `ConfigWriter` |
| `SnapshotCache` | the on-disk cache: captures, write tasks, the file | |
| `ConfigWatch` | the etcd supervisor with its cache, etcd as environment | `SnapshotCache` |
| `ConfigWatchProofs` | TLAPS proofs about `ConfigWatch` | `ConfigWatch` |
| `RedisBreaker` | the breaker all commands of a Redis subsystem share, and its prober | |
| `RedisBreakerProofs` | TLAPS proofs about `RedisBreaker` | `RedisBreaker` |
| `RedisLease` | one bucket's concurrency limit shared by replicas through Redis | |
| `RedisLeaseProofs` | TLAPS proofs about `RedisLease` | `RedisLease` |
| `MCLimiter`, `MCSpendBilling`, `MCKeySwitch`, `MCConfigWriter`, `MCConfigWatch`, `MCRedisBreaker`, `MCRedisLease` | values of constants and symmetry sets for TLC | the module named |

### 2.1 FixedWindow, LocalStore, Limiter

`heap` is what the `Arc<Mutex<KeyState>>`s point to and `states` is the DashMap
from a layer to its bucket. A store call that uses `state_for` is two actions:
`Lookup` (read the clock, clone the Arc, create the bucket if it is missing) and
the body under the lock (`Admit`/`Reject`, `CommitLayer`, `PostTokens`). Between
them any other thread runs, in particular `Reap`, which removes the map entry
and leaves the object reachable through the Arc. `release`, `peek` and `reap`
keep the map's shard locked while they work and are one action each.

A request walks through its layers with `BeginAcquire`/`Admit`; a refusal or a
failed call leads to `drop`, which gives back the held layers one at a time
(the drop of the `Vec<Reservation>`); `commit` posts the bill layer by layer;
a stream turns its reservations into a hold, posts usage when it ends (a zero
amount returns early, `SkipPost`), and then drops the hold. The code posts a
stream's token layers before its spend layers; the model posts them in layer
order, and since they are different buckets the two orders commute. A third post that `chat.rs` makes for the
embedding of a semantic lookup (`request_spend_keys`) is the same operation on
spend layers and has no step of its own.

Times are whole seconds. The four request windows and the three token windows
are sequences of window lengths, so that an instance can use two or one of
them. Counters are naturals where the code saturates at `u64::MAX`.

`admitted`, `used`, `spent` and the field `late` are history variables, which
no guard reads. `admitted[k][i][w]` counts what buckets *of the map* admitted in
the window of request dimension `i` that opens at `w`; `used[k][i][w]` is what
was posted to them in the window of a token dimension; `late` are the layers
whose permit was given in a bucket that had already left the map; `spent[k]` is
what was posted under the other permits of layer `k`, since ever. `spent` leaves
the late permits out because their spend can really be forgotten (section 6).

Two assumptions about the environment are constants. `IdleFor` is at least as
long as every window (the comment on `RATE_LIMIT_BUCKET_IDLE_TTL` demands it).
`PromptLock = TRUE` says that a clock second does not end between a thread's
clock read and its lock; section 6 says what happens without it. The theorems of
`LimiterProofs` need neither, those of `WindowProofs` both.

Not in the model: `claim_once` (with background jobs), `note_allowance` (Redis
only), lease refresh (does nothing over the local store; it is in `RedisLease`),
and the selection of
layers in `quota.rs`, which is the constant `Limit`.

### 2.2 SpendBilling

A series is behind one process after another (`gw`); each process's counter
begins at 0. A Prometheus replica holds the last sample of a series, and the
time of the last decrease it saw, which is all that `resets()` over a window
can tell. A portal round asks for the counters as of the instant its tick began
(`BeginTick`, the `time=` of the query, so no sample taken later shows), reads
the basis (`ReadBasis`), and settles. `Reading` is the match of the code on cursor and start
time: `ByStart` when both sides know the process, `ByResets` otherwise.
`Settle` is the transaction: the basis is compared again (`BasisHolds`), then
debit, cursors with pruning, and mark. `YieldRound` is the comparison failing,
`SkipIdle` the shortcut that writes nothing, `GiveUp` every early return, time
budget and process death.

`spent`, `charged` and the cursor's `epoch` are history: per process, what it
spent and what was debited for it. They are what the properties compare, and
the code has no such figures.

Environment assumptions, all constants, used by the runs that need them:
`ScrapeGap` (a live process is scraped that often), `SweepGap` (some round
settles that often), `RoundGap` (a round ends within that time), `Stale` (how
long an old sample is still served). A value of 9 with a shorter clock means
"not assumed". The last instant of the clock stands for all later ones:
gateways rest, scrapes and sweeps go on. Prometheus' bounded look-back for
`resets()` is not modelled (every reset since the mark is seen), and neither is
`key_spend`, a second sum of the same deltas in the same transaction.

### 2.3 KeySwitch

`conf` is the `disabled` flag in the resources file (or the absence of the
key), `table` is `portal_disabled_keys` including the `''` row that migration
0007 plants, `sweep[i]` a portal instance's round and its `pending_ours`
(`add`, `remove`). A round is `BeginRound` (users, consumption, with the users
whose read failed), `ReadExhausted`, `ReadBalances`, `ReadTable`, `EditKeys` or
`EditFails`, `RecordOurs` or `RecordFails`; between any two of them accounts
change, keys are made and revoked, and the operator saves the configuration.
An edit of the file is one step: `Writer::edit` takes a lock, compares and
retries, and `ConfigWriter` is proved to implement just that (2.4). The reads of all users'
balances in one round are one step. The first round, which adopts nothing
and removes the `''` row, is the general action with `Unseeded` in the table.

`held` and `heldFree` are history: keys the operator switched off last, and
those of them that were not the portal's at that moment.

A key is born disabled if its owner has no money or the balance cannot be read
(`BeginMint`).

The allowance policies that the same edit writes are left out, as is the
deletion of quota rows of users, which no property here sees.

### 2.4 ConfigFile, ConfigWriter

A document is the set of its marks, one per change somebody made; `Changes[o]`
are the changes a call may ask for (what the closure or the operator does to the
document), and a mark's
kind says which loader takes a document that has it (everybody, nobody, only
the console's environment, only the gateway's, neither's). That is all the
code's control depends on: `breaks_gateway`, the console's validation and
`trust_baseline`, and the gateway's own verdict.

`pc[o]` walks a call through the code. An edit reads the file, computes its
document, takes the process's mutex and the file lock, reads again and starts
over if the file moved (`EditCheck`, at most `MaxTries` times), writes by rename
and signals. A save was opened from some version (`SaveOpen`), compares it under
the lock (`SaveCompare`, unless it is `Blind`; a file that cannot be read is not
compared, and there is then nothing to put back), decides `trust`, validates,
writes, signals, waits for the gateway's verdict (`SaveConfirm`) and puts the
previous document back if the gateway refused it (`SaveRestore`,
`SaveResignal`). Locks are freed by every return and by the death of the
process (`WriterDies`). Each early return is a disjunct or `EditGivesUp` /
`SaveGivesUp`.

The gateway's reload loop is four steps (take a signal, read the file, record
the hashes, store the snapshot); a second SIGHUP while one is pending is the
same signal. A reload that cannot read the file, or whose task ends without a
result, leaves everything as it is and has used the signal up (`ReloadFails`):
the loop waits for the next one. `failed` is the history of that, `unsignalled`
that of a rename whose signal did not arrive. The gateway may die and boot from
the file.

`ConfigFile` is the abstract specification: a call's change goes onto the
document as it is (`Apply`), a save without a version may overwrite
(`Overwrite`) and so may one that could not read the file (`OverwriteUnread`,
which has no document to go back to), a call may
take back its own change if the document is still the one it wrote, and a report
says truly whether the change is on disk. `Promised` maps `file` to the document
and the written part of a call to its change; `EditsAreAtomic` is
`Promised!Spec`.

### 2.5 SnapshotCache, ConfigWatch

`history` is etcd: revision `r` is the `r`-th write. A cycle of the supervisor
reads the environment prefix and then the catalog (`ReadEnv`, `ReadGlobal`, or
`RefuseGlobal` where permission is missing), applies the union (`Resync`), opens
one stream per prefix, each from its own read, and then receives events, which
are staged one at a time (`StagePut`, `StageDelete`) and published as one batch
(`PublishBatch`). A value is abstract and a build has the set of values it
loads; a key whose new value does not load keeps its last good row as a pin
(`stale`), judged against the batch's own unpublished state (`PinNow`). A failed
read, a refused or ended stream ends the cycle. `version` and the books behind
it (`pending`, `filtered`, `shown`) are `publish_served`.

Every apply captures an image under a ticket; write tasks run in any order,
stand down when a newer ticket reached the file (`StandDown`), fail, or replace
the file in one step. The process stops (with or without its tasks drained) or
is killed anywhere, and the next one restores the file before it reads etcd,
possibly as another build.

Left out: retry delays and back-off, the diagnostic ring buffers, compaction
(a compacted watch is an ended stream followed by a full read), the encoding of
the cache file (a file that does not parse is no file).

### 2.6 RedisBreaker

`open` is `open_until` as the time that is left, `generation` and `prober` the
other two fields of `BreakerState`. A command checks (`Acquire`), is admitted
(`AdmitClosed`; `AdmitExpired` for the one caller behind whom the window is
re-armed), and ends with an answer, a failure or neither. A failure is two
steps as in `trip`: the breaker opens (`Fail`), then the prober is claimed and
spawned (`Claim`). A prober holds off, sleeps, PINGs and closes or goes round
again; it may die with its runtime. Generations and claims are compared for
equality only, so the model reuses the ones nobody remembers.

`Prompt = TRUE` says that a timer that is due, and a step no await stands
before, come before time passes or a new command is looked at. `Window` is
larger than `Budget` in the run, as 30 s and the default of 5 s are. With a
`redis.timeout_secs` of the window or more (the code sets no upper bound)
`ClosedHasNoProber` and `OneProbeAtATime` do not hold. They are proved from
`Prompt` and that order of the constants, `ClosesOnNewerEvidence` without
either.

### 2.7 RedisLease

One bucket whose `concurrency` is shared. `zset` is the sorted set (a score is
kept as its age), `keyLeft` the EXPIRE of its key, `wire` the commands under
way and `reply` the answers somebody still waits for. A command is applied once,
at any time after it was sent, also after its caller gave up or its process
died, or never. That is more than one TCP connection would allow and covers
reconnects and cluster redirects.

A request's `acquire` answers, fails (then `LocalStore` decides and the member
is `Unknown`), never had a connection (`LocalOnly`), or is cancelled before
there is a reservation. The refresh task sleeps, sends, and reads the outcome
with the ownership it had read before (`Refreshed`, `Promote`). `commit` and
`release` stop the task, drop the table entry, free the local slot and remove
the member, or fail to; `COMMIT_LUA` and the `ZREM` of `release` do the same to
the set and are one command, `remove`. A replica may die. `Peek` prunes as well.
`limit` is the bucket's `concurrency`, any of `Caps` and fixed in a behaviour.

`misses` counts the refreshes of a live request that failed since Redis last
stamped its member.
A lease outlasts `Misses` of them: `RefreshAssumption` is the arithmetic, and
the code's interval of a third of the TTL satisfies it for one miss as long as
three command budgets fit into another third.

A prune takes members whose age exceeds the TTL, as the Lua does (its bound is
exclusive, the comment at `redis.rs:26-28` calls it inclusive). `StopRefresh`
models `abort` as tokio has it: a task that waits ends, one that has its answer
runs to its next await, so its promotion may come after `release` removed the
table entry.

The windows and the allowance appear as a refusal that may happen; in Redis they
are counters of their own. Left out: those counters, the post-stream queue,
`claim_once`, scores in milliseconds from earlier builds, and a Redis that loses
its data.

## 3. Runs

Passing runs:

| Run | Instance | Shows |
|---|---|---|
| `limiter_reap` | 3 requests, 1 layer, 4 buckets, 4 seconds; 1 slot, rps 1, rpm 1 (a "minute" of 2 s), reaper at 2 s | `LiveHoldersWithinCap`, `WindowCap`, `RejectIsFree`, `TypeOK` under every interleaving of lookups, locks, reaping, peeks |
| `limiter_live` | 2 requests, a token layer with one slot and tpm 1, then a spend layer with an allowance of 1 | `NoAdmitPastUsage` (reaping forgets neither an open window nor a spent allowance) and, under fairness, `SlotsFreed` (every slot taken comes back, also the one a later layer's refusal rolls back) |
| `billing_ha` | 1 series through 2 processes, 2 portals, 2 Prometheus replicas, counters to 2, start times exposed | `NoOvercharge`, `CursorIsLedger`, `CursorNeverRetreats`, `TypeOK` |
| `billing_prune` | 2 series, 1 portal, retention 1, second process exposes its start time, the first does not | `NoOvercharge` through pruning and through the upgrade of a gateway |
| `billing_legacy` | 2 portals, tenant of the time-window biller with history, grace 3 | `NoOvercharge` through seeding and grace |
| `billing_live` | 2 portals, 1 replica | `EverythingCharged` under fairness |
| `keyswitch_own` | 1 key, 1 user, 1 portal; every failure path | `OwnershipKept`, `FreeHoldRespected`, `TypeOK`, and under fairness `BrokeCutOff`, `ComesBack` |
| `config_edits` | 2 portals with one edit each (a revocation, a key nobody loads) and a console save of a document the gateway takes or refuses, 3 first documents, 2 tries, unreadable files, failed reloads, a gateway death, 2 writer deaths | `EditsAreAtomic` (the refinement), `ReloadSeesFile`, `RefusedFileIsAdmitted`, `AppliedIsTrue`, and under fairness `EveryCallReturns`, `FileIsRead` |
| `watch` | an environment and a catalog key, a value that loads and one that does not, 2 writes, batches of 2, a fault, a restart | `ServedIsAccounted`, `RestartServesSame`, `CacheIsCurrent`, `VersionTellsServed`, `NeverOlder`, and under fairness `Converges` |
| `breaker` | 3 commands, 3 claims, window 3, budgets 2, outages that come and go for ever | `ClosedHasNoProber`, `OneProbeAtATime`, `ClosesOnNewerEvidence`, and under fairness `Recovers` |
| `lease` | 2 replicas with one request each, a limit of 1 or of 2, TTL 3, refresh every 1, budget 1 | `CapHolds`, `EveryoneCounted`, `LossIsReal`, `NoResurrection`, `TypeOK`, and under fairness `NothingLeaks` |

One run ends in a violation, against a sentence of the repository (section 6):

| Run | Property |
|---|---|
| `keyswitch_operator` | `OperatorRespected` |

Why the bounds are enough for the question asked:

- *limiter*: the races are between a request that has looked a bucket up, the
  reaper, and a request that gets the next bucket. Three requests put one in
  each position. Four buckets are one for the map and one for each request's
  Arc; `FreeBuckets` reuses unreachable ones, so the pool never limits a
  behaviour. Four seconds (0 to 3) cover every window boundary and a bucket that
  outlives its idle time. Two layers are needed only for a later refusal and for
  two units.
- *billing*: a wrong debit needs an old and a new process, a stale answer and a
  newer one, and two overlapping rounds: two of each. A counter to 2 separates
  "difference" from "whole value". The pruning and grace runs use a clock just
  longer than the retention or grace plus the gaps.
- *key switch*: keys interact only through being in one file and one table, and
  the code treats each on its own. Users likewise. One key shows every order of
  operations on it. Two portal instances are deliberately not a passing run,
  see section 6.

- *writer*: two edits race for the file and exhaust their tries, and the save
  meets a changed file, a file it cannot read, a refused file and a put-back in
  between. The variable the save brings in validates with the console, is refused
  by the gateway and is in no first document, so it is subject to
  `RefusedFileIsAdmitted` on every way the save can end. Saves against
  saves and `Blind` saves are left to the proof of the refinement, which has any
  number of each.
- *watch*: two writes put a good and a refused value, or a write and a delete,
  of one key in one batch, in one batch each, or one per prefix between the two
  reads. An upgrade to a build that loads other values is left to the proofs,
  which have any number of builds, keys, writes and restarts.
- *breaker*: two commands under way when the outage begins and a third admitted
  by an expired window; three claims are the prober, one that lost its claim
  and a new one. Time is kept as what is left, so runs are not bounded.
- *lease*: a full bucket needs one more request than the limit, hence the limit
  of 1; under the limit of 2 one member outlives another, so that a stale one is
  there to prune while the key is alive. The TTL is the least `RefreshAssumption`
  allows. The same instance with `Misses = 1`, `Ttl = 5` passes the invariants
  and `NoResurrection` too (864,011 states); a lease that outlasts failed
  refreshes is otherwise left to theorem `ClusterLimit`, which has any `Misses`.

Deadlock is not checked in most of these runs: requests finish, clocks reach their
bound and there is then nothing left to do. `breaker` has no end and checks it.

## 4. Fairness

- `Limiter`: weak fairness of each request's own steps. Tokio schedules every
  ready task, and upstream and stream timeouts end every call; `Drop` runs when
  the task ends however it ends. The reaper, peeks and the clock get none.
- `SpendBilling`: weak fairness of the clock, of scrapes and of starting a
  tick: timers. Strong fairness of `ReadBasis`, `Settle`, `SkipIdle` and
  `YieldRound`: a round may be given up again and again, but not every single
  one of infinitely many; with reads that always fail nothing can be billed.
- `KeySwitch`: the loop goes on (weak fairness of `Proceed`); strong fairness of
  a round that reads everybody and gets its edit through, for the same reason.
  The record step needs none of its own: `pending_ours` is tried again with the
  next round, and ownership holds meanwhile. A create call runs to its end.
  Accounts, operator and failures get no fairness.
- `ConfigWriter`: weak fairness of each call's own steps once it was made
  (handlers run; every wait in them has an end) and of the reload loop. Nobody
  has to call, and a gateway that died need not come back.
- `ConfigWatch`: weak fairness of the supervisor's cycle, whose calls are bounded
  by timeouts and which starts over for ever; of the write tasks; of a stream
  that has an event; and of starting the process again. Faults are bounded by
  `MaxFaults`: with reads that always fail nothing can converge.
- `RedisBreaker`: weak fairness of time, of answers, of `Claim` and of the
  probers; strong fairness of `Succeed`, that is, not every command that reaches
  a Redis that answers is given up by its caller. No command has to come.
- `RedisLease`: weak fairness of time, of callers and refresh tasks, of the
  network (a command is applied or lost in the end) and of `Peek`, which every
  answer's headers cause. Requests need not end.

## 5. Proofs

`LimiterProofs` proves, for any finite set of requests, any number of layers,
any limits and windows, any bills and with or without `PromptLock`:

- `TypeCorrect`: `Spec => []TypeOK`. `TypeOK` includes that a request holds an
  Arc exactly while it stands between lookup and lock, and has a bill while it
  settles; the actions use both. One lemma per operator on buckets
  (`AfterAdmitType`, `AfterRejectType`, ...), one per action, `TypeStep` for
  the next-state relation.
- `ConcurrencyLimit`: `Spec => []LiveHoldersWithinCap`, the concurrency limit.

`LiveHoldersWithinCap` counts requests, the code counts members of an in-flight
set, so it is not inductive. `CapInv` adds what connects them:

- `MembersWithinCap`: the in-flight set of a bucket of the map is within the
  limit (the test in `acquire`);
- `PermitsAreMembers`: who holds a permit given in the map is a member there,
  in the bucket that is *now* in the map. This is what `reap` must preserve,
  and does since a bucket with members survives;
- `BucketsBelong`: no bucket serves two layers and an Arc belongs to the layer
  its request is at, so a lock on one layer's bucket cannot change another's.

Then the live holders are a subset of a set within the limit. Proof layout:
`CapInit`, one lemma for each kind of step (`LookupCap`, `AdmitCap`,
`CommitLayerCap`, `DropOneCap`, `ReapCap`, `PostTokensCap`, `PeekCap`,
`QuietCap` for the steps that touch no member), `CapStep`, theorem.

The exclusion of `late` permits is essential and not a convenience: such
permits exist (section 6). What the theorem says of them
is that they are the only excess.

The assumptions are `WindowsAssumption`, `IdleForAssumption` (not used by these
proofs) and `LimiterAssumption`; TLC evaluates them in every limiter run.

`WindowProofs` proves, for any requests, layers, limits, window lengths and
bills, with `PromptLock` as an explicit hypothesis and `IdleForAssumption`:

- `RequestLimit`: `Spec => []WindowCap`;
- `UsageLimit`: `Spec => NoAdmitPastUsage`;
- `RefusalIsFree`: `Spec => RejectIsFree`.

The histories speak of all buckets a layer ever had, the code decides on the
counters of the one it has now. `UsageInv` is `CapInv` and, for every layer,
what connects the two:

- `Prompt`: a thread that holds an Arc read the clock in the present second.
  Without it a counter may be rolled back and the connection is lost (section 6);
- `AdmittedShows`, `UsedShows`: the counter of the present bucket is in the
  present window and has at least what the history has for it, and that window
  opened no later than the bucket was last touched. With no bucket the history
  of the present window is empty. This is what `reap` could break: a bucket
  older than `IdleFor` was last touched before the present windows opened
  (lemma `OpenIsRecent`), which is where the length of `IdleFor` is used;
- `NothingAhead`: later windows have no history, so a tick into a new window
  starts from nothing (windows keep the order of their times, `WindowOrder`);
- `AllowanceKept`: if anything was spent under a permit of the map, the layer
  has a bucket, which has at least that in `consumed` and carries the flag that
  saves it from `reap`. A bucket with members carries the flag too, so that the
  first post under a permit meets a marked bucket;
- `ArcsAreLive`: who settles under a permit of the map locks the bucket that is
  in the map, since `PermitsAreMembers` keeps the reaper off it;
- `Capped`: `WindowCap` of one layer.

The proof goes by what an operation does to one bucket (`Keeps`, `Posts`, one
lemma per operator of `LocalStore`), then by what that means for one layer
(`LayerKept`, `LayerCreated`, `LayerReaped`, `LayerTicked`, `LayerAdmitted`,
`LayerPosted`), then by action. `UsageInv` was checked by TLC on the constants
of both limiter runs and with three requests over an allowance before it was
proved.

`KeySwitchProofs` proves, for any sets of keys and users:

- `TypeCorrect`: `Spec => []TypeOK`, for any set of portal instances;
- `PortalRemembers`: with one portal instance, `Spec => []OwnershipKept`;
- `OperatorKeepsFreeKeys`: with one portal instance, `Spec => FreeHoldRespected`.

"With one portal instance" is `ASSUME NEW p, Portals = {p}`; with two the
statements are false (section 6). Every read, edit and table write may fail in
`Spec`; the death of the process is only in `CrashSpec`, where `OwnershipKept`
is false too. The invariant `SwitchInv` adds to `OwnershipKept`:

- `RemovedNotOff`: a row waits for removal only while its key is on, or off by
  the operator. Without it, recording a freshly minted key could put it into the
  table while an older removal of it is pending;
- `FreshUnlisted`: a key that is not in the file yet is on no list. `create`
  writes the file first, and this is what makes the order matter;
- `SnapshotHolds`: what a round has read of the table is still the portal's
  when it edits the file, since only the round itself takes rows back. This is
  the step that needs a single instance;
- `HeldFreeStays`: a key the operator took while it was not the portal's does
  not become the portal's while it is off.

TLC agrees with `SwitchInv` on the instance of `keyswitch_own`. The proof
rewrites the invariant for the single instance (`Parts`, `InvOfOne`) and has one
lemma for each group of actions (`ReadParts`, `EditKeysParts`,
`RecordOursParts`, `KeyCallsParts`, `OperatorParts`, `AccountsParts`).

`ConfigWriterProofs` proves, for any calls, processes, documents and bounds:

- `TypeCorrect`, `LocksHeld` (the invariant below);
- `WritersImplementConfigFile`: `Spec => EditsAreAtomic`, the refinement;
- `NoReloadLost`: `Spec => []ReloadSeesFile`: without a reload under way the
  gateway has read the file, missed a signal, or failed its last reload and was
  not signalled since;
- `RefusalIsKnown`: `Spec => []RefusedFileIsAdmitted`;
- `AppliedIsHonest`: `Spec => AppliedIsTrue`.

The refinement needs that what a call writes is its change applied to the file
*as it is at the rename*. `WriterInv` says it per call (`CallInv`): past the
lock the call holds it; between the second read and the rename the document it
compared is the file's, or a save's that was not read; what it will write is its
change applied to the one it read; after the
rename and until it lets go, the file is what it wrote, so a put-back takes away
nothing else; it has an answer exactly when it ended. Initial states map to
initial states, and there is one step per action: `EditWrite`, `SaveWrite`
and `SaveRestore` map to changes, the returns and deaths to reports, everything
else stutters. `NoReloadLost` follows from the order read, record, store and the
signal being taken before the read.

`RefusedFileIsAdmitted` is not inductive: a put-back brings back a document that
left the file earlier. `AdmittedInv` says that a refused mark is `Admitted`, an
account that only ended saves and written edits give and that therefore lasts
(`CallsLast`, `AdmittedStays`), both in the file, unless a save stands between
its rename and its answer, and in every previous document a save may put back;
that an edit at its rename passed `breaks_gateway`; and that the configuration
in use was loaded, which is why "applied" needs no excuse. All steps but five
are `Quiet` and share one argument. For `AppliedIsTrue`, `StoreInv` says that
the recorded configuration is in force except between record and store.

`ConfigWatchProofs` proves, for any keys, values, builds, batches, faults and
restarts, and with nested prefixes too:

- `TypeCorrect`, with `FlowInv` (reads are at revisions of etcd's history, a
  stream starts behind its read, rows come from the history);
- `SnapshotAccounted`: `Spec => []ServedIsAccounted`. `BooksInv`: outside a
  batch the snapshot is what rows, pins and rejections give, inside one the same
  holds of the staged snapshot; a pin is a value the build loads, of a key whose
  row it does not;
- `RestartKeepsServing`: `Spec => []RestartServesSame`, from `ImagesInv`: every
  image, captured, being written or on disk, rebuilds what was served when it
  was captured;
- `CacheKeepsUp`: `Spec => []CacheIsCurrent`, from `TicketsInv` (one task per
  ticket; who holds the lock is newer than the file; the newest ticket is
  written, failed or has its task) and `NewestInv` (its image is what the
  gateway has now);
- `VersionMovesWithServed`: `Spec => VersionTellsServed`, from `ShownInv`: a key
  outside `pending` and with an unchanged status serves what it served at the
  last publication, so comparing candidates only is enough.

`RedisBreakerProofs` proves `TypeCorrect` and `ClosesOnFreshAnswer`
(`Spec => ClosesOnNewerEvidence`) for any commands, claims, windows and budgets
and for timers that fire late. `SeenInv` is what the generation number is for:
whoever remembers the current one began after the last opening. It survives an
opening because that takes a generation nobody under way remembers. And it
proves:

- `ClosedIsUnattended`: with `Prompt` and `Window > Budget`,
  `Spec => []ClosedHasNoProber`. `ProberInv`: while a prober in charge sleeps the
  breaker is open and its deadline lies behind the prober's alarm, a command
  that began before the breaker opened ends within its budget and so before
  the alarm, and who is between `Fail` and `Claim` cannot be overtaken;
- `ProbesOneByOne`: with `Window > ProbeBudget` as well,
  `Spec => []OneProbeAtATime`. `Single` and `OnePing`: one claim is in charge at
  a time, a prober that lost it has no PING out once the next one has. The
  window is 30 s, a budget `redis.timeout_secs`, 5 s by default (plus the
  discovery timeout under Sentinel).

`RedisLeaseProofs` proves, for any requests, replicas, limits, times and bounds
that satisfy `LeaseAssumption` and `RefreshAssumption`:

- `TypeCorrect`: `Spec => []TypeOK`;
- `ClusterLimit`: `Spec => []CapHolds`, the concurrency limit across replicas;
- `NobodyUncounted`: `Spec => []EveryoneCounted`;
- `NoFalseLoss`: `Spec => []LossIsReal`;
- `StaysReleased`: `Spec => NoResurrection`.

The invariant `IInv` has a conjunct per request, `Sound`: which steps a caller
can stand at and what it waits for (`Control`), which commands of it may be
under way and what they may still do (`Commands`), what an answer can say
(`Replies`), and, the heart of it, `Held`: a request that holds a confirmed lease
and has missed no more than `Misses` refreshes is a member of the set, and the
age of its score, with the time its refresh still has to wait and to run, stays
within the TTL. `Held` is where `RefreshAssumption` is used: every sleep, budget
and miss is paid from that slack, so neither a prune nor the EXPIRE of the key
reaches the member. `Counted` says the set is within the limit after each
admission. The holders are then a subset of the set.

`SpendBillingProofs` proves:

- `TypeCorrect`: `Spec => []TypeOK`, for all constants. `Known` adds that no
  sample and no answer shows more than its process spent;
- `NeverRetreats`: `Spec => CursorNeverRetreats` where every process exposes its
  start time (`Exposing = Epochs`; the gateway of this repository does), for new
  and upgraded tenants and without any assumption on delays. It needs only the
  transaction: the basis is compared under the lock (`OutcomeOnBasis`), so a
  reading is compared with the cursor it replaces (`SettleMoves`);
- `NeverOvercharged`: `Spec => []NoOvercharge` and `LedgerFollowsCursor`:
  `Spec => []CursorIsLedger`, from `Timing`.

`Timing` says that every process exposes its start, the tenant does not come
from the time-window biller, an answered sample may be at least as old as the
scrape gap, and `Retention >= ScrapeGap + SweepGap + 2 * RoundGap + Stale`. The
code's retention is thirty days; the others are minutes (scrape interval, the
five minutes of staleness and of `IDLE_SETTLE_EVERY`, the read budget of 60 s),
unless Prometheus misses a live process, or the portal stands still, for a
month; `sweeper.rs:116-119` names the first exception itself. `BInv`, checked by
TLC on instances that satisfy `Timing` and do prune, has three parts per series:
`Ledger` (the cursor is the debit of its process and later processes have
none), `Fresh` (while the process of a cursor runs, the cursor is young, and no
sample or answer of a process up to it is much younger than the cursor) and
`Forgotten` (without a cursor, no replica, running process or round can still
report a process that was debited). Pruning turns `Fresh` into `Forgotten`; a
first reading turns `Forgotten` into `Ledger`.

Only model-checked: the liveness properties (the proof system handles neither
fairness nor ENABLED), among them `SlotsFreed`; `NeverOlder`; and
`NoOvercharge` for upgraded tenants and for processes without a start time (runs
`billing_legacy`, `billing_prune`).

## 6. What the models found

1. *Operator on-off between rounds* (run `keyswitch_operator`,
   `sweeper.rs:933`): the row of a key the portal closed is taken back only by a
   round that sees the key on.

The following are not runs of their own; the constants given reproduce them.

2. *A reaped bucket can still be given a permit* (`local.rs:116`): `Limiter`
   under `Spec` with the constants of `limiter_reap` violates
   `PermitsStayInMap`. `reap` looks at `in_flight` under the lock, but a request
   that has cloned the Arc has not locked yet. The permit goes into an object
   the map no longer has and the next request starts from zero. The window is
   small and the bucket was idle for the TTL; the effect is one window's count
   and one slot too many.
   The late permit's spend can be forgotten for good (`local.rs:175`): it
   settles into a fresh bucket, which nobody has told that it carries an
   allowance (only `acquire` and `note_allowance` do), and once that bucket is
   idle it is reaped with its `consumed_micro_usd`. The comment there gives
   "handing the caller their whole `granted_micro_usd` back" as what must not
   happen. TLC finds it with three requests, one layer with an allowance of 1,
   `IdleFor = 1` and four seconds if `spent` counts late permits too; it takes
   the same narrow race as above and then an idle TTL with no request for the
   layer. `UsageLimit` shows that there is no other way.
3. *A late clock value resets an open window* (`window.rs:41`): with
   `PromptLock = FALSE`, `ResetsOnlyAtNewWindow` is violated. `roll_if_stale`
   compares with `!=`; a thread that read the clock before the boundary and
   locks after another thread counted in the new window throws that count away.
4. *Without start times two portal instances may charge a restart twice, even
   over one Prometheus* (`sweeper.rs:338`): `Exposing = {}`, 2 portals, 1
   replica, `MaxEpoch = 2`, `MaxSpend = 2`, `MaxTime = 3`, `Stale` and the gaps
   9, `SeedGrace = 0`, `Retention = 9` violates `NoOvercharge`. The query is
   pinned to the tick's start, the basis is read later. With several replicas
   each shows the same restart as a reset of its own.
5. *Death between file and table* (`sweeper.rs:491`): `KeySwitch` under
   `CrashSpec` with one key, user and portal violates `OwnershipKept`: the key
   is off and nobody's; `pending_ours` covers a failed write, not a dead process.
6. *The reported revision runs ahead* (`supervisor.rs:1526`): `AppliedIsSeen` is
   violated with `CacheEnabled = FALSE`, one key per prefix, one value, two
   writes, no faults. Each prefix has a watch stream on a connection of its own
   and both raise one revision, so an event of one stream overtakes an earlier
   one of the other. `heartbeat.rs:328` says that a gateway with
   "`applied_revision >= write_revision` has seen that write", and
   `supervisor.rs:1526-1529` that events are "delivered in revision order". With
   one prefix it holds.
7. *A late failure shortens the prober's deadline* (`aisix-redis` `lib.rs:567`):
   `NoBusinessProbe` is violated with two commands. `Breaker::open` sets the
   deadline to one window whatever the prober holds; a command of the same
   outage that fails up to a budget after the first replaces a window and a
   probe by less, the window expires while the PING is out, and a business
   command is let through and takes the claim away. `lib.rs:71` says "none of
   them is ever the half-open probe".
8. *An aborted refresh can leave an entry in `lease_members`*
   (`limiter.rs:310`): `abort` only takes effect at an await, so on a
   multi-threaded runtime a task that has its answer may promote an `Unknown`
   member after `release` removed the entry; nothing removes it again.
   `NoEntryLeaks` fails in the instance of `lease`; the slots, local and shared,
   come back all the same (`NothingLeaks`). The cost is one map entry.
9. *A save over a file that cannot be read* (`aisix-console` `main.rs:901`): the
   comment at `main.rs:898-899` lets it pass since "下面的替换步骤自己会失败" (the
   replace below fails by itself), but a rename needs no readable file: after a
   read that fails (an I/O error, bytes that are not UTF-8) the save goes on
   without the version check and replaces a document it never saw, a revocation
   in it included. `UnreadSaveFails` is violated in the instance of
   `config_edits`. If the gateway then refuses the document there is nothing to
   put back, which the answer says.

Further observations:

- a reload that fails to read the file is not tried again (`status.rs:39-50`,
  `main.rs:617-624` of the server): the document a writer put there and
  signalled, a revocation say, is not in force until somebody signals again.
  The portal's edit has answered "done" by then; the console's save says
  "unconfirmed". `ReloadGaveUp` is the exception `ReloadSeesFile` and
  `FileIsRead` make for it;
- two portal instances can lose a row of `portal_disabled_keys` because a
  removal recorded late undoes a newer addition, and one can open a key of the
  operator's from a table read that the other has made stale (TLC finds both
  with two instances);
- a portal that settled nothing for the whole retention time (thirty days)
  prunes cursors of live series that its first answer misses;
- a key deleted and written again with bytes that do not load, while no watch
  is open, keeps the pin of the deleted document: a full read cannot tell a
  re-created key from an updated one. `supervisor.rs:1474`, "the pin must never
  outlive the etcd key", holds for the deletes the gateway sees;
- without `env_id` the catalog lies inside the environment prefix and both
  streams deliver its writes: with `EnvKeys = {k1, g1}` `NeverOlder` fails for a
  moment while `Converges` holds.

## 7. Not modelled, and the plan

Left out for good: provider adapters, guardrails, response caches, MCP/A2A
bridges and the admin API (pure translation or CRUD with no protocol of their
own), web interfaces, benchmarks and tests. They are most of the repository: of
some 420,000 lines, the handlers in `aisix-proxy`, the provider crates and their
inline tests are well over nine tenths, and what they do is the rewriting of
JSON and SSE documents, which a state machine has nothing to say about. The
modules here cover the code that keeps state across requests, processes and
failures, and the share of lines is small for that reason.

Planned, in this order:

1. The rest of the Redis store: token windows and allowance, the post-stream
   queue (what is shed and what is lost at a shutdown), `claim_once` with the
   job settlement of `jobs.rs`; and `RedisLease` composed with `RedisBreaker`.
2. Top-ups and quotas: a request is decided once and granted once, pending
   requests per user stay within their limit (`topup.rs` counts, then inserts),
   quotas within the granted total (which `admin.rs` may lower afterwards).
3. Cooldown, health and routing; sinks with bounded queues.

Theorems planned: `NeverOlder` of the watch; `NoOvercharge` through seeding and
grace.
