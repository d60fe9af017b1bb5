# A verification project for flask-test-api

TLA+ models of the program, the TLC configurations that check them on small
instances, and TLAPS proofs of what matters most for every instance. Source
paths are relative to the repository.

## 1. The system

The service is a FastAPI application, run as several identical pods behind one
Kubernetes Service, each pod being one asyncio event loop. It offers a CRUD of
"contexts", a hit counter, diagnostics and an MCP endpoint. Two backends,
PostgreSQL and Redis, are shared by the pods and both are optional.

| Part | Source | State | Operations |
|---|---|---|---|
| TTL cache | `app/services/cache.py` | per pod: a dict of (value, deadline, last access) | get, set, delete, clear, len; each under one lock |
| Storage service | `app/services/storage.py`, `app/models/schemas.py` | per pod: the in-memory backend; shared: a PostgreSQL table, Redis keys | create, get, update, delete, list, along the chain PostgreSQL, Redis, memory |
| Redis client | `app/services/redis_client.py` | per pod: the connection and `_available` | init, close, an operation with retries |
| Database engine | `app/models/database.py` | per pod: engine and session factory | init, close |
| Lifespan | `app/main.py` | | startup and shutdown of the two |
| Hit counter | `app/routers/api.py`, `redis_incr` | shared: the Redis key `hits` | `GET /api/count` |
| Health and probes | `app/services/health.py`, `app/routers/mgmt.py`, the Helm deployment | the kubelet's count of failed probes | startup probe, health check, restart |
| Authentication back-off | `app/auth.py`, `app/middleware/mcp_auth.py` | per pod: `_fail_tracker` | check, record, clear |
| Image-tag pipeline | `.github/workflows/pipeline.yml` | `helm/pytbak/values.yaml` on main | derive a tag, commit it, push, retry |
| Diagnostics | `app/routers/debug.py` | per pod: the list of CPU-spike processes, their cleanup tasks, child processes nobody waits for any more | spike, scan, ping, DNS, curl, TCP check, echoes, random errors |
| MCP server | `app/mcp/tools.py`, `app/middleware/mcp_auth.py` | | the same handlers behind another door, with its own check of credentials |
| Error injection | `app/middleware/error_injection.py` | | before any routing: a delay, or an error instead of an answer |
| Legacy service | `docker/src/app` | one Redis key per context | the older Flask CRUD, counter and diagnostics, a thread per request |

How they interact. A route calls the storage service, which looks in its pod's
cache, then walks the backends that were *available at startup*: availability is
decided once, by the lifespan, and never looked at again. A handler is suspended
only where it awaits PostgreSQL or Redis; that is where requests of one pod
interleave, while requests of different pods interleave at the shared backends.
The authentication dependency runs in worker threads and the MCP middleware in
the event loop's thread, so the failure tracker is shared between threads without
a lock. The kubelet calls the health check and restarts the process. Runs of the
pipeline meet only at `git push`.

Every request, of either door, passes the error injection first. The diagnostic
handlers then wait for commands of the system, or start processes that outlive
their request; the cleanup task that ends these never lets go of the loop while it
works, so for that time the pod answers nobody, its health check included. The
legacy service shares nothing with the application: its threads meet only in Redis,
and interleave between any two commands.

What is hard, and therefore what the models are about:

- values read before an await and used after it: the cache filled from a read
  that a delete has overtaken, an update merging over an older context;
- writes that succeed in one store and fail in another, with only a log line;
- an operation repeated although its first attempt took effect;
- caches of several pods that nobody invalidates, bounded only by the TTL;
- a startup that coincides with an outage, or waits for a backend that is silent, and
  the restarts that follow one;
- threads that filter, replace and append to one list;
- jobs of several pipeline runs that push in an order of their own;
- processes and commands that outlive the request, or the patience, of whoever
  started them, and a cleanup that can fail half-way or block everybody;
- check, then act, in separate Redis commands.

What makes each part correct:

| Part | Properties |
|---|---|
| TTL cache | bounded; never a value past its deadline; the deadline never slides; LRU among live entries; a lossy map to its callers |
| Storage service | the atomic map of contexts, where it can be; deletes are not undone by anything but an update; memory is always written; stores agree; caches converge; every request ends |
| Hit counter | no counter is given twice; every increment is accounted for; every request ends |
| Pod's life | stopped only for an outage of its backends; an outage ends in memory-only service; once the backends settle, restarts end |
| Back-off | the tracker is the failures of the window; the delay grows; a refusal ends |
| Tag pipeline | nothing on main is lost; a green job's tag is on main; red only when each attempt met another commit or a failure; main's tag goes back only by a retry; every job ends |
| Diagnostics, MCP, error injection | a spike's process that runs is on the list; none is cut before its time; every process ends and comes off the list; every request is answered |
| Legacy service | a key holds the context of its id; requests fail only in a race; a deleted context comes back only by an update that can be named; alone, a client sees an atomic map |

`PROJECT.json` lists the hazards behind these at their lines.

## 2. The modules

    LossyMap   <== TTLCache       <- MCTTLCache      (<== "is implemented by",
    ContextMap <== StorageService <- MCStorage        <-  "is extended by")
    ContextMap <== LegacyContexts <- MCLegacy
                   DebugTools     <- MCDebugTools
                   HitCounter   Lifecycle   AuthBackoff   TagBump

Each module `X` has its theorems in `XProofs`, which extends it; those of
StorageService are in `StorageProofs`.

**TTLCache** (`cache.py`). `store[k]` is an entry of `self._store` or `None`,
`now` is `time.monotonic()` in ticks, `call` the last call with what it took or
returned. One action per method, since each holds the lock throughout;
`Victims` is the eviction inside `set`. **LossyMap** is what a caller may rely
on: any entry may be forgotten at any time, none changes by itself.

**StorageService** (`storage.py`, `redis_client.py`, the context routes). `req[c]`
is the request that client `c` waits for: the locals of its handler and where it
is. `disk`, `memory`, `cache` are the stores; `avail[p]` is what the pod found at
startup and `up` what can be reached. A step is what runs between two
suspensions. `Create`, `Lookup`, `List` are the first steps of the routes; then
`ReadBackend`/`Resume` are the call to a backend and what the handler does with
its answer; `LoadRow`/`CommitStore`/`CommitDelete` are a PostgreSQL
transaction (`session.merge` or `session.get`, then the commit of the statement
it led to, which sets only the columns that differ from the loaded row);
`WriteRedis`/`FailRedis` an attempt of `redis_op_with_retry`; `WriteMemory` the
last step of a write, with the response model; `ListPg`, `ListKeys`, `ListKey`,
`ListEnd` a listing. The in-memory backend never suspends, so without backends a
request is one step. The cache is the lossy map that TTLCache implements:
`Expire` forgets an entry at any time, which covers its TTL and its evictions.
**ContextMap** is the promise to a client who sees no backend: one map, each
request atomic.

**HitCounter** (`GET /api/count`). `Touch` is the warm-up read, `Incr` the
increment, each with its retries (`Failed`); an INCR may be done and its reply
lost.

**Lifecycle** (`main.py`, `database.py`, `redis_client.py`, `health.py`, the
probes of the deployment). `InitDb`, `InitRedis` are the startup, during which nothing
is served. A backend answers, refuses, or is silent: at startup one that refuses
is given up at once, and a silent one either until a timeout of its client ends the
wait (Redis has one for connecting, asyncpg for a connection) or for ever, as nothing
limits the ping of `init_redis` or a query (`Waiting`); then the startup probe
fails (`StartupProbe`) until it has the container killed (`KillStarting`). `Probe`, `Ping`,
`Select`, `Respond` are a health check, whose two pings see the backends at different
moments; `GiveUp` is the probe's `timeoutSeconds`, no longer than the clients'
timeouts; `Kill`, `CloseRedis`, `CloseDb` the shutdown in the order of the lifespan.
Settings give Redis a URL always (`effective_redis_url`), PostgreSQL not.

**DebugTools** (`debug.py`, `error_injection.py`, the sleep and fib routes, the
tools of `mcp/tools.py`, their mounting in `main.py`). `req[c]` is a request and
where it is: in the middleware's delay, about to reach its handler, or waiting for a
command. `Arrive` and `DelayEnds` are the middleware; `Allowed` is all that a
request has to pass: a route under the present settings, credentials, arguments.
`Handle` starts what the handler awaits (`Commands`; for `echo_body` the rest of the
request), `CommandEnds`, `CommandFails` and `CommandTimesOut` end it; a scan goes on to
its next section after a failure, unless that is an error of the resolver other than
`gaierror`, and any other tool ends. `Spike` is `cpu_spike`, one step: nothing in it waits, but
a `start()` may raise after some processes run. `Burn`, `BurnEnds`, `Dies` are the
processes. `Wake`, `Check`, `Join`, `CloseKilled` are `_cleanup_cpu_procs`, which
holds the loop (`loop`) from its waking to its end, so no other step of the server is
possible meanwhile, while processes and time go on.

**LegacyContexts** (`docker/src/app`). A step is a Redis command with the Python
around it, or the routes' checks of a body (`Post`, `PutBody`, `Ask`); `Exists`, `Load`
and `Write` are the commands of an update or a delete, `Keys` and `Item` those of a
listing, `Lose` the failure of any command, done or not. The result of an update is
written under the id that it has after its body was merged in. It implements the same
**ContextMap** as the newer service, as far as it does.

**AuthBackoff** (`auth.py`). The tracker of one address. `_cleanup_old` is three
accesses (`Filter` reads, `Assign` replaces, `Pop` removes an empty list), which
threads may interleave; `AppendTime` appends to the list that `Stamp` got hold of,
which need no longer be the tracker's (`held`). Times are kept as ages. What the
comprehension keeps (`Kept`) and the power of two (`Doubled`) are recursive
functions, so that theorems can be proved about them.

**TagBump** (the step "modify the image" of job `modifygit`). `Start` is a run that a
commit of a developer starts, `Dispatch` one that is started by hand, on what main is
then. `Edit` is `sed` with `git diff`. `Push` is the push, which may land, land and look
rejected, be rejected, or fail though nothing is new on main: the loop treats all failures
alike. `Fetch` is the retry from `origin/main`; a fetch that fails ends the job at once, as
the step runs under `set -e`. `faults` counts what cannot be put down to another's commit:
those fetches, and the pushes that failed with nothing new on main.

The mutants that show each property can fail stand beside the operator they
change, under "Mutant".

### What is abstracted

- Timestamps of a context, and the text of its fields: two fields with two
  values (or null) tell everything the merges do. JSON is a context or not.
- Listing order; logs; metrics; response wording.
- A lost reply from PostgreSQL's commit: its error is logged and the chain goes
  on as after a success, so it looks like the commit that happened.
- `redis_op_with_retry` sleeps between attempts: only that it suspends matters.
- Ages are capped at the window, past which the code treats all alike; the
  dictionary of addresses is one address, as no function touches two.
- What a diagnostic tool answers, and the commands' own work: they end, fail, or go
  on. Time is in ticks for the burns and the cleanup's sleep only; every other
  timeout may fire at any moment, which covers every length it could have.
- What the models of a body, the check of a host and its resolution say of a
  request is one bit of it (`args`), and so is what AuthBackoff decides (`auth`).
- An id in the body of a legacy update counts as the identifier that its text
  spells: an explicit null or a number is stored under that text like any other id,
  and only the key tells the models' properties anything.
- External: Kubernetes (threshold, timeout, restart), git's rule that a push must
  be on top of main, PostgreSQL and Redis being there or not.

## 3. The runs

| Run | What it shows |
|---|---|
| `ttl_cache` | three keys, room for two, TTLs of one and two ticks, a clock to 5: `SizeBound`, `DeadlineFixed`, `NeverServesExpired`, `EvictsLeastRecentlyUsed`, and that the cache implements LossyMap |
| `storage_atomic` | one client; two clients with a context each; two clients and no backend: the service implements ContextMap, and all stores agree between requests (`StoresAgree`) |
| `storage_faults` | two clients share a context through one outage, one lost reply and one restart: deletes are not undone (`OnlyUpdatesRestore`), memory holds what was created, and nothing known is missed while the backends stay as they are (`KnownIsFound`, `ListsAllKnown`) |
| `storage_converges` | two pods over PostgreSQL, and one pod with null updates: after the last write caches agree with the stores for good (`CacheConverges`), every request is answered |
| `hit_counter` | two clients, outages and lost replies: counters are distinct, every request ends |
| `lifecycle` | backends change five times and the pod crashes once: stopped only after a full row of probes that saw its backends away or silent, and an outage for good ends in a pod that uses no backend; once the backends have settled, none of them silent, the pod serves and is not restarted again (`OutageEndsInMemory`) |
| `auth_backoff` | one attempt at a time: the tracker is exact, the spacing grows, a refusal ends |
| `tag_bump` | two runs, started by commits or by hand, and developers: nothing discarded, green means on main, red only for cause (`FailsOnlyForCause`: each attempt met another commit or a failure of origin), the tag goes back only by a retry (`OnlyRetriesRevert`), every job ends |
| `debug_tools` | spikes of one client, spikes and scans of two, and every tool through both doors under nine settings: running processes are listed (`LiveAreListed`), the cleanup cuts a burn short only when it began later than the grace (`CutOnlyLate`), every process ends and comes off the list but after a failed `start()` or `close()` (`SpikesCleared`), every request is answered though a cleanup blocks the loop (`Answered`) |
| `legacy_contexts` | one client; two that share a context; two whose updates name ids; two and a Redis that fails: the type invariant says too that a key holds the context of its own id; a 500 without a failure of Redis only for what a delete took away (`OnlyRacesFail`); contexts appear only as `AppearsOnlyBy` lists; one client alone sees ContextMap |

Two runs show where the program does not do what its text says:

| Run | What happens |
|---|---|
| `hit_counter_retry` | An INCR takes effect, its reply is lost, and it is sent again: the next counter is two higher, though it "advances by exactly one per request" (`app/routers/api.py:102`). |
| `auth_threads` | Two threads filter and replace one list, and a failure is not counted, though "failed attempts per IP" are tracked (`app/auth.py:15`). |

### What the properties leave open

Several conditions in the properties above are there because the code promises
no more. They are worth knowing:

- `RefinesContextMap` and `StoresAgree` are checked where requests about one context
  do not overlap. With overlap, `get` caches after its await what a delete has
  removed meanwhile (`storage.py:244`), with several pods nobody tells the other
  caches of a write (`storage.py:285`), and two concurrent updates may reach
  PostgreSQL, Redis and memory in different orders; `CacheConverges` says how far
  the caches go: until the entry's TTL is over.
- Two updates that read the same context, one to set the title and one to set `done`:
  the second writes the context it merged and reverts the first in Redis and memory,
  though updates are "partial" (`docs/04-c4-code.md:27`). No property holds of them.
- `OnlyUpdatesRestore` excepts updates: one in flight stores, with `merge`, the
  context that a delete has removed since (`storage.py:290`).
- `KnownIsFound` wants the backends to stay as they are: a context created while
  PostgreSQL is away is in Redis and memory only, and is answered 404 once
  PostgreSQL, which never heard of it, is back (`storage.py:242`).
- `ListsAllKnown` likewise: a Redis that goes away between KEYS and the GETs gives
  a shorter listing and no fallback (`storage.py:167`).
- An update with an explicit null is stored in Redis and memory before the
  response model refuses it, and the listing of the in-memory backend fails from
  then on (`storage.py:294`); `Answered` says only that each such request ends.
- `StoppedOnlyInOutage` excuses a probe that waits for a silent backend: one silent
  backend is enough for a restart though the other answers (`health.py:19`).
- `OutageEndsInMemory` promises service only when no backend stays silent. With a Redis
  that accepts and never replies, the startup waits in `ping()` (`redis_client.py:26`)
  until the startup probe has the container killed, and the next one waits again, though
  there is "no startup failure: app always starts" (`docs/02-c4-containers.md:25`).
- There is no converse of it: a pod that starts while a backend is away does not use it
  when it is back (`database.py:57`), though data is ephemeral only "until backends
  recover" (`docs/05-enterprise-architecture.md:205`).
- The startup probe is taken to fail only while the startup waits for a silent backend;
  a startup that does not wait is over long before twenty probes of five seconds.
- `SpikesCleared` leaves processes on the list after a `start()` that raised, which no
  task cleans up (`debug.py:184`), and after a `close()` that raised, which ends the
  task (`debug.py:167`). Such processes end; nothing takes them off the list.
- `CutOnlyLate` excuses a process that was slow to begin: the grace counts from the
  spike. `Answered` excuses `curl`, whose timeout is per read (`debug.py:240`).
- While a cleanup waits in `join()` the pod does not answer its liveness probe either;
  DebugTools and Lifecycle are not composed, and Lifecycle has no such reason for a
  probe to fail.
- `OnlyRacesFail` does excuse races: in the legacy service a listing fails altogether
  when one of its keys goes between KEYS and GET (`business.py:9`). `AppearsOnlyBy`
  excepts an update that names an id in its body, which moves nothing: the context is
  then stored under both ids (`business.py:34`).
- `OnlyRetriesRevert` excepts retries: when the push of an older run is rejected because a
  newer run's tag has landed, it applies its own tag over that one (`pipeline.yml:299`),
  though redoing the edit "from a fresh checkout is always correct" (`pipeline.yml:291`).
- `FailsOnlyForCause` holds origin's failures responsible too: with nothing new on main a
  job fails after five pushes that did not get through, or one fetch after one of them.

Some facts about the two doors came up in the reading and have no run, as they
concern values the models abstract: the MCP `ping` calls the handler without its
`Query(ge=1, le=20)`, so its count is not limited though the tool's text says 1-20
(`mcp/tools.py:166`, `debug.py:201`); a TCP check of a port out of range is answered
422 by the route and not refused by the tool (`mcp/tools.py:189`, `debug.py:252`); the texts of the MCP `fibonacci` and
`sleep` name limits (`tools.py:120`, `tools.py:127`) that are not the route's
(`api.py:75`, `api.py:93`); a request without credentials counts as a failed attempt
in the MCP middleware and not in the REST dependency.

### Bounds

Two clients are enough for every overlap of two requests, which is what the
hazards need; two pods for a cache that a write does not reach; two contexts
where one might be taken for another, else one; two values tell an update from
none. `RetryAttempts` is 2 in StorageService (the first and the last attempt
differ), 3 in HitCounter. In `debug_tools` a behaviour starts at most three processes
(`MaxProcs`; a workload's `procs` lowers it, and then the system refuses one more, as
`start()` may): enough for a spike of two with a failed one beside it, for two tasks, and for a task that
fails at its first process with another to go. A burn lasts one or two ticks, the
grace is one, and a lateness past it is told apart no further. In `legacy_contexts`
an id and a name (`Renaming`) give a listing two keys, one of which may go
between its reads; `MaxLost` is one failure. `MaxFlaps`, `MaxLost`, `MaxRestarts`, `MaxChanges`,
`MaxCrashes`, `MaxRequests`, `MaxRuns`, `MaxCommits`, `MaxFaults`, `MaxTime` and `MaxTracked` bound
the faults, requests and time of a behaviour; they are guards of the
environment's actions, not of the code's, but for `MaxTracked`, which stops an
attempt of recording one more failure, and is out of reach in `auth_backoff`: the
back-off itself limits the failures in a window. In `lifecycle`, five changes are enough for both
backends to go, one to come back and go again, and the threshold of 3 to be
reached or just missed. `StartupFailures` is 2 for 20: the startup probe counts up to
its limit or is overtaken by the startup. In `tag_bump` three attempts (five in the
code) let a job fail against what the other run and three commits can push, and against
three failures of origin (`MaxFaults`) on a main where nothing moves.

The storage runs share one module, MCStorage, whose workloads say which
operations, contexts and pods each client uses and which backends a pod may find.
MCDebugTools and MCLegacy have workloads as well, so that one run covers several
kinds of behaviour without their product: `Spikes`, `Mixed` and nine `Gate`s of
settings; `Alone`, `Racing`, `Renaming` and `Failing`.

`hit_counter`, `hit_counter_retry` and `tag_bump` do not check deadlock: their
requests, runs and commits are bounded, and when they are used up the system stops.
Every other run checks it.

### Fairness

`FairSpec` asks for weak fairness only of what really goes on by itself:

- of each request, job and pod (`Progress`, `Job`): an event loop resumes a handler
  whose call has returned, and a call returns or fails, as the clients of
  PostgreSQL and Redis report a broken connection. A backend that never replies
  is a state of its own in Lifecycle, where fairness leaves the check waiting
  and only the kubelet's timeout ends it; at startup it asks that the wait end
  somehow, by an answer, a client's timeout or the startup probe, and not by which;
- of `Expire`: time passes, and the cache does not serve an entry past its
  deadline (`NeverServesExpired` and `DeadlineFixed`, proved of TTLCache).

- of the diagnostic tools: the loop runs what is ready, timers fire, `Tick`; a client
  sends the body that it has announced to `echo_body`; a
  resolver, a sleep and a burn come to an end, and so does a process that was
  killed. A ping, a traceroute, curl's peer, and a process that was only told to
  terminate need not: `wait_for`, and `join(timeout)` with `kill`, are what the code
  has against them.

Nothing is asked of arrivals, faults, recoveries, crashes or commits.

## 4. What is proved

With TLAPS, for every value of the constants that meets the named assumptions
(`..Assumption`) of the modules:

| Theorem | Says | Along |
|---|---|---|
| `TTLCacheProofs!TypeCorrect` | the types of the cache | inductive as it stands |
| `SizeBounded` | never more than `MaxSize` entries | `TypeOK /\ SizeBound` is inductive; `VictimsMakeRoom` says what is evicted leaves room, by cardinality of finite sets |
| `DeadlinesFixed`, `ExpiredNeverServed`, `EvictionOrder` | the three action properties of the cache | each action under `TypeOK`; `EvictionOrder` also under `SizeBound`, to conclude that a full cache holds exactly `MaxSize` |
| `ImplementsLossyMap` | TTLCache implements LossyMap | initial states and steps under the mapping `Remembered` |
| `HitCounterProofs!TypeCorrect` | the types of the counter | inductive |
| `CountersDistinct`, `IncrementsAccounted` | no counter twice; every INCR accounted for (`Accounted`, which only the proof checks) | `Inv` adds `Bounded`: counters given or held are at most `hits`. Without it neither is inductive, as the next counter might have been given already |
| `StorageProofs!TypeCorrect` | the types of the storage service; no client is shown an id that no `create()` issued | part of `Inv`, below |
| `Restores` | `OnlyUpdatesRestore`: PostgreSQL gets back what clients know of only by an update that read it | `Inv` adds that a request does what its operation has to (`Sound`), that no store, listing or client has seen an id not issued (`Unseen`), and that the same holds of an id whose `create()` has not come past PostgreSQL, which no other request may name. So the commit of a `create()` never finds an id that a client knows, and `PgGains` says only commits of `create` and `update` insert. Without `Unseen` for ids on their way, a second `create()` or an early read could have shown the id |
| `MemoryHolds` | `MemoryHoldsCreated`: without deletes and restarts a created context is in some pod's memory | `Holding`: each issued id is on its way in a `create()`, or in a memory (`Held`), kept by every step under `Inv` |
| `FindsKnown`, `ListsKnownOf` | `KnownIsFound`, `ListsAllKnown`: while the backends stay as they are and nothing is deleted, what clients know of is found, and listed | `Whole`: without null updates all that is kept can be shown, so no answer is refused by the response model. `Route`: a request that reads has passed no backend that answers, so it ends at the one that decides. `Knows`: that one holds all that clients know of, an update past a backend has left its context there, and a listing of Redis has read, or has still to read, all that was known when it began |
| `StoresHoldTheSame` | `StoresAgree`: between requests every backend that answers holds what memory holds | `Agreed`: a context that nobody writes is the same everywhere (`Settled`); one whose write is on its way is already the new one in the backends it has passed, still the old one in the others, and either of the two in Redis while its SET or DEL may have lost its reply (`Halfway`). The statement itself says nothing of requests in flight, so it is far from inductive |
| `Refines` | StorageService implements ContextMap | `Mapped` adds that an answer on its way is still true, that what a listing has read is what Redis holds, and that the cache holds the stored context or none (`Near`). Every step is then a request of the map, when its last write is done or its answer is found, or a stutter |
| `LifecycleProofs!TypeCorrect`, `StopsJustified` | the types; a stop only after a full row of excused probes | `Inv` adds `Sound`: what a probe has found DOWN was away while it ran, and the failed probes of the row are at most those that were excused, once the pod serves; before that they are the startup probe's |
| `TagBumpProofs!TypeCorrect`, `DoneJobsLanded`, `FailuresExplained`, `MainOnlyGrows` | the types; `DoneIsOnMain`; `FailsOnlyForCause`; `NothingDiscarded` | `Inv` adds `Counted`: an attempt that failed had a commit land after its checkout or was a fault of origin's, so a job at attempt n has met n - 1 of these since its trigger. `FailsOnlyForCause` alone says nothing of jobs that have not failed yet |
| `RetriesRevert` | `OnlyRetriesRevert` | under `Inv`, `TagsKnown`: no tag on main is that of a run to come, so what a job checks out at first has an older tag than its own |
| `DebugToolsProofs!TypeCorrect`, `LiveListed`, `CutsLateOnly` | the types; `LiveAreListed`; `CutOnlyLate` | `ToolInv` adds that the processes a task has passed are dead (`PassedDead`), needed when the task takes all of its own off the list, and that each one it still has to go over has no more to burn than the task has to sleep, the grace and its lateness counted in (`InTime`) |
| `LegacyContextsProofs!TypeCorrect`, `RacesOnly`, `AppearancesExplained` | the types and that a key holds the context of its id; `OnlyRacesFail`; `AppearsOnlyBy` | `Inv` adds `SoundReq`: what a request has found is still there, or was deleted since the request began (`gone`) |
| `ImplementsContextMap` | alone, the legacy service implements ContextMap | `QuietInv` adds what a request knows of Redis when no other runs (`QuietReq`): what it found is there, what it has read is what Redis holds |
| `AuthBackoffProofs!WaitToldIsClose` | the seconds that a refusal tells are within half a second of the delay left | arithmetic of `Rounded`, for every delay and tick |
| `TypeCorrect` | the types of the back-off, for any number of threads | inductive; `KeptType` says that filtering a list of ages gives one |
| `TracksFailures`, `SpacesFailures`, `RefusesOnlyRecently` | `FailuresTracked`, `SpacingGrows`, `RefusedOnlyRecently`, with one thread | `Coherent`: the tracker is sorted and, filtered, is the log; between the comprehension and the assignment the filtered list is; a thread that was let through with wrong credentials finds the delay over (`Due`) and, about to append, still holds the tracker's list. `Kept` of a sorted list is what is left of a cut (`KeptIs`), and commutes with a tick and an append (`KeptAged`, `KeptAppended`) |

The steps of the storage service are many and alike: a request reads a backend, writes
one, ends a write, fills the cache or lists, whatever its operation. A section of
`StorageProofs` says so once (`ArriveForms`, `ProgressForms`), and the last three
invariants are proved of these forms. What `Kept` and `Doubled` compute cannot be proved
by the library's induction; `Least`, a natural number that is the first to fail, does
in its place (`Recursion`).

The theorems about `KnownIsFound`, `ListsAllKnown`, `StoresAgree` and the refinement, and
those about the back-off, have hypotheses that are part of what they say. Each is one
the program needs, and the runs' instances meet them:

- `Alone`, one attempt of an address at a time: with two, `auth_threads` shows a failure
  that is not counted.
- `OnePod`: pods have memories and caches of their own, which no write of another reaches.
- `Definite`, no update sets a field to null: PostgreSQL rejects what Redis and memory
  keep, and the response model refuses to show it.
- `Steady`, no flap and no restart: a backend that was away has missed the writes, and a
  restart empties the memory. (`FindsKnown` and `ListsKnownOf` do not need it: there it
  is in the property, for as long as it holds.)
- `Apart`, clients have contexts of their own, or there is no backend: two writes of one
  context reach the backends in different orders, and a read caches what a delete has
  removed meanwhile.
- `ListsApart`, nobody writes while another lists, or there is no backend: a listing of
  Redis reads key by key, so it shows some of another's writes and not others.

Assumed: `MaxSize`, `DefaultTtl`, `RetryAttempts`, `Attempts`, `FailureThreshold` and
`StartupFailures` are positive,
the keys and clients are finite sets where their number matters, and "none" is
not a value, a request or a client. Bodies have the fields of a context, workloads are
made of the modules' own clients, pods, ids and bodies, `Grace`, `MaxDuration` and
`MaxProcs` are positive. Nothing else is assumed about the bounds of a behaviour: the
proofs hold for any.

Every invariant and action property of a passing run, and each refinement, is stated by a
theorem. Only model-checked: liveness (`Answered`, `CacheConverges`, `OutageEndsInMemory`,
`JobsEnd`, `SpikesCleared`), which TLAPS does not reach under fairness, nor `ENABLED`. The
runs also go where the hypotheses above do not: `storage_converges` has two pods, and
null updates.

To check: `tlc -config <run>.cfg <module>` with the modules of `PROJECT.json`, and
`tlapm` on each module whose name ends in `Proofs`.

## 5. The plan

Done: the cache, the storage service, the counter, the pod's life, the back-off, the
tag pipeline, the diagnostic tools with the error injection and the MCP door, and the
legacy contexts; proofs of the safety properties of each. Left, in this order:

1. What is true of the storage service beyond the hypotheses of section 4: what two
   clients that share a context may rely on, and what a pod may after a flap.
2. DebugTools composed with Lifecycle: a liveness probe that times out because a
   cleanup holds the loop.
3. A table of addresses around AuthBackoff, for the entries of addresses that never
   come back.

## 6. What is not modelled

- What the diagnostics compute or report: Fibonacci numbers, addresses, headers,
  threads, environment. When they end is modelled, what they say is not.
- The context tools of the MCP server are the requests of StorageService, its counter
  HitCounter's, its health Lifecycle's: the arguments they drop or default (an update
  drops fields that are none) are choices among the same bodies.
- The legacy service's counter, one INCR, and its diagnostics, which keep no state; and
  bodies that are not JSON objects, for which its handlers raise.
- Settings (constants of the modules), logging, metrics, tracing, the home page
  and the browser's dashboard: no state that another part reads.
- The MCP session manager, FastAPI, SQLAlchemy's pool, Uvicorn, Helm and the
  autoscaler: libraries and platform, present only as the behaviour the code sees.
- The other workflows: they call external services and keep nothing of their own.
- The growth of the tracker over addresses that never come back, and a cache size
  of 0, for which `min()` of an empty dict raises (`cache.py:41`): no module has
  these yet; both are listed among the hazards.
