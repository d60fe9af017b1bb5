--------------------------- MODULE StorageService ---------------------------
(***************************************************************************)
(* app/services/storage.py and app/services/redis_client.py, as driven by  *)
(* the context routes of app/routers/api.py: the pods of one deployment,   *)
(* each with its cache and its in-memory store, over one PostgreSQL and    *)
(* one Redis.                                                              *)
(*                                                                         *)
(* A pod runs one event loop: what a handler does between two awaits that  *)
(* suspend is one step, and requests interleave only where it suspends,    *)
(* which is where it waits for PostgreSQL or Redis.  The in-memory backend *)
(* is a coroutine without a suspension, so with no other backend a whole   *)
(* request is one step.  The cache is the lossy map of LossyMap.tla, which *)
(* TTLCache.tla implements.                                                *)
(***************************************************************************)
EXTENDS Naturals, FiniteSets

CONSTANTS
  Pods, Clients, Ids,
  Fields,         \* the fields of a context: title, description, done
  Data,           \* what a field may hold
  Null,           \* an explicit null, which ContextUpdate accepts
  None,           \* no context
  Creates,        \* the bodies of POST: [Fields -> Data]
  Updates,        \* the bodies of PUT: the fields set, Null included
  Workloads,      \* what a behaviour may consist of: the backends that pods may
                  \* find at startup, the pods, operations and contexts of each
                  \* client, and the bodies of its updates
  RetryAttempts,  \* settings.redis_retry_attempts
  MaxFlaps, MaxLost, MaxRestarts  \* bounds on the faults of a behaviour

Backends == {"pg", "redis"}
Stages == Backends \cup {"memory"}
Operations == {"create", "get", "update", "delete", "list"}
Ctx == [Fields -> Data \cup {Null}]
Valid(ctx) == \A f \in Fields : ctx[f] # Null

ASSUME NoneAssumption == None \notin Ctx /\ None \notin Clients
ASSUME NullAssumption == Null \notin Data
ASSUME BodiesAssumption ==
  /\ Creates \subseteq [Fields -> Data]
  /\ Updates \subseteq UNION {[S -> Data \cup {Null}] : S \in SUBSET Fields}
ASSUME WorkloadsAssumption ==
  Workloads \subseteq [startups : SUBSET SUBSET Backends, pods : SUBSET Pods,
                       ops : [Clients -> SUBSET Operations], ids : [Clients -> SUBSET Ids],
                       updates : SUBSET Updates]
ASSUME RetryAssumption == RetryAttempts \in Nat \ {0}

VARIABLES
  up,      \* which backends can be reached
  avail,   \* avail[p]: the backends whose is_available() is true in pod p
  disk,    \* disk[b][id]: what backend b holds
  memory,  \* memory[p][id]: InMemoryBackend._store of pod p
  cache,   \* cache[p][id]: what the cache of pod p remembers
  req,     \* req[c]: the request client c waits for, or None
  answer,  \* the last answer delivered to a client
  issued,  \* the ids uuid4() has returned
  known,   \* the ids that answers have shown to clients
  faults,  \* how often each kind of fault has happened
  load     \* the workload of this behaviour

vars == <<up, avail, disk, memory, cache, req, answer, issued, known, faults, load>>
stores == <<disk, memory, cache>>
env == <<up, avail, faults, load>>

\* The backends that have a URL.
Configured == UNION load.startups

\* The chain PG -> Redis -> Memory, over the backends available in pod p.
First(p) == IF "pg" \in avail[p] THEN "pg"
            ELSE IF "redis" \in avail[p] THEN "redis" ELSE "memory"
After(p, stage) == IF stage = "pg" /\ "redis" \in avail[p] THEN "redis" ELSE "memory"

\* updated = existing | data.model_dump(exclude_unset=True)
Merge(ctx, body) == [f \in Fields |-> IF f \in DOMAIN body THEN body[f] ELSE ctx[f]]

\* One entry of a store, of a cache or of a backend is set.
Put(store, p, id, v) == [store EXCEPT ![p][id] = v]
-----------------------------------------------------------------------------
(* Requests.  old is the local `existing`, new the context to store, row    *)
(* the row PostgreSQL's transaction has loaded, left and items the keys a   *)
(* Redis listing has still to read and what it has read; seen, kept for     *)
(* ListsAllKnown only, what clients knew of when a listing began.           *)
NewReq(p, op, id, body) ==
  [pod |-> p, op |-> op, id |-> id, body |-> body, phase |-> "read", stage |-> First(p),
   tries |-> 0, old |-> None, new |-> None, row |-> None,
   left |-> {}, items |-> [i \in Ids |-> None], seen |-> {}]

Respond(c, r, status, value) ==
  /\ req' = [req EXCEPT ![c] = None]
  /\ answer' = [op |-> r.op, id |-> r.id, status |-> status, value |-> value]
  /\ known' = known \cup (CASE r.op = "create" /\ status = "ok" -> {r.id}
                            [] r.op = "list" /\ status = "ok" -> {i \in Ids : value[i] # None}
                            [] OTHER -> {})

Wait(c, r) ==
  /\ req' = [req EXCEPT ![c] = r]
  /\ UNCHANGED <<answer, known>>

\* Mutant: memory is written only where there is no other backend.
EndStoreAsFallback(c, r) ==
  /\ memory' = IF avail[r.pod] = {} THEN Put(memory, r.pod, r.id, r.new) ELSE memory
  /\ IF Valid(r.new) THEN Respond(c, r, "ok", r.new) ELSE Respond(c, r, "500", None)

\* The last step of create() and update(): memory.store, then the response
\* model, which refuses a context with a null field.
EndStore(c, r) ==
  /\ memory' = Put(memory, r.pod, r.id, r.new)
  /\ IF Valid(r.new) THEN Respond(c, r, "ok", r.new) ELSE Respond(c, r, "500", None)

\* Mutant: delete() forgets the in-memory copy.
EndDeleteKeepsMemory(c, r) ==
  /\ UNCHANGED memory
  /\ Respond(c, r, "ok", None)

EndDelete(c, r) ==
  /\ memory' = Put(memory, r.pod, r.id, None)
  /\ Respond(c, r, "ok", None)

\* Start the chain of writes; without a backend it ends where it starts.
Store(c, r) ==
  IF First(r.pod) = "memory" THEN EndStore(c, r)
  ELSE Wait(c, [r EXCEPT !.phase = "store", !.stage = First(r.pod)]) /\ UNCHANGED memory

Remove(c, r) ==
  IF First(r.pod) = "memory" THEN EndDelete(c, r)
  ELSE Wait(c, [r EXCEPT !.phase = "remove", !.stage = First(r.pod)]) /\ UNCHANGED memory

\* StorageService.get() has returned v to the route, to update() or to
\* delete(); filled is the cache it leaves.
Found(c, r, v, filled) ==
  CASE v = None -> Respond(c, r, "404", None) /\ cache' = filled /\ UNCHANGED memory
    [] v # None /\ r.op = "get" -> Respond(c, r, "ok", v) /\ cache' = filled /\ UNCHANGED memory
    [] v # None /\ r.op = "update" ->
         /\ cache' = Put(filled, r.pod, r.id, Merge(v, r.body))
         /\ Store(c, [r EXCEPT !.old = v, !.new = Merge(v, r.body)])
    [] v # None /\ r.op = "delete" ->
         /\ cache' = Put(filled, r.pod, r.id, None)
         /\ Remove(c, [r EXCEPT !.old = v])

\* A context taken from the cache or from memory; the response model raises
\* for one with a null field, and the request fails.
Taken(c, r, v) ==
  IF v = None \/ Valid(v) THEN Found(c, r, v, cache)
  ELSE Respond(c, r, "500", None) /\ UNCHANGED <<memory, cache>>

\* InMemoryBackend.get_all: one context it cannot show fails the listing.
ListMemory(c, r) ==
  /\ LET held == memory[r.pod] IN
       IF \A i \in Ids : held[i] = None \/ Valid(held[i])
       THEN Respond(c, r, "ok", held) ELSE Respond(c, r, "500", None)
  /\ UNCHANGED <<memory, cache>>
-----------------------------------------------------------------------------
(* The first step of a request, up to its first suspension.                 *)
\* Mutant: ids that are not unique.
CreateReusesId(c, p, id, body) ==
  /\ req[c] = None
  /\ issued' = issued \cup {id}
  /\ cache' = Put(cache, p, id, body)
  /\ Store(c, [NewReq(p, "create", id, body) EXCEPT !.new = body])
  /\ UNCHANGED <<env, disk>>

Create(c, p, id, body) ==
  /\ req[c] = None
  /\ id \notin issued
  /\ issued' = issued \cup {id}
  /\ cache' = Put(cache, p, id, body)
  /\ Store(c, [NewReq(p, "create", id, body) EXCEPT !.new = body])
  /\ UNCHANGED <<env, disk>>

\* get(), update() and delete() begin with the lookup of StorageService.get.
Lookup(c, p, op, id, body) ==
  /\ req[c] = None
  /\ LET r == NewReq(p, op, id, body) IN
       IF cache[p][id] # None THEN Taken(c, r, cache[p][id])
       ELSE IF First(p) = "memory" THEN Taken(c, r, memory[p][id])
       ELSE Wait(c, r) /\ UNCHANGED <<memory, cache>>
  /\ UNCHANGED <<env, disk, issued>>

List(c, p) ==
  /\ req[c] = None
  /\ LET r == [NewReq(p, "list", None, None) EXCEPT !.phase = "list", !.seen = known] IN
       IF First(p) = "memory" THEN ListMemory(c, r)
       ELSE Wait(c, r) /\ UNCHANGED <<memory, cache>>
  /\ UNCHANGED <<env, disk, issued>>

Arrive(c) ==
  \E p \in load.pods :
    \/ /\ "create" \in load.ops[c]
       /\ \E id \in load.ids[c], body \in Creates : Create(c, p, id, body)
    \/ "list" \in load.ops[c] /\ List(c, p)
    \/ \E id \in known \cap load.ids[c] :
         \/ \E op \in load.ops[c] \cap {"get", "delete"} : Lookup(c, p, op, id, None)
         \/ /\ "update" \in load.ops[c]
            /\ \E body \in load.updates : Lookup(c, p, "update", id, body)
-----------------------------------------------------------------------------
(* The steps of a request that waits.                                       *)
At(c, phase, stage) == req[c] # None /\ req[c].phase = phase /\ req[c].stage = stage

Move(c, r) ==
  /\ Wait(c, r)
  /\ UNCHANGED <<env, stores, issued>>

\* A failed call: BackendError is logged and the chain goes on.
GoOn(c) == Move(c, [req[c] EXCEPT !.stage = After(req[c].pod, @), !.row = None, !.tries = 0])

Readable(b, id) == disk[b][id] = None \/ Valid(disk[b][id])

\* Mutant: an error is taken for "not found".
ReadBackendTrustsErrors(c) ==
  \E b \in Backends :
    /\ At(c, "read", b)
    /\ Move(c, [req[c] EXCEPT !.phase = "reply",
                             !.old = IF up[b] THEN disk[b][req[c].id] ELSE None])

\* A backend's get(): its answer, found or not, is on its way back.
ReadBackend(c) ==
  \E b \in Backends :
    /\ At(c, "read", b)
    /\ IF up[b] /\ Readable(b, req[c].id)
       THEN Move(c, [req[c] EXCEPT !.phase = "reply", !.old = disk[b][req[c].id]])
       ELSE GoOn(c)

\* The answer of a backend is trusted, and cached if it is a context.
Resume(c) ==
  /\ req[c] # None /\ req[c].phase = "reply"
  /\ LET r == req[c] IN
       Found(c, r, r.old, IF r.old = None THEN cache ELSE Put(cache, r.pod, r.id, r.old))
  /\ UNCHANGED <<env, disk, issued>>

ReadMemory(c) ==
  /\ At(c, "read", "memory")
  /\ Taken(c, req[c], memory[req[c].pod][req[c].id])
  /\ UNCHANGED <<env, disk, issued>>

\* PostgreSQL: session.merge() and session.get() load the row in one round
\* trip and the statement they lead to is committed in another.  An UPDATE
\* sets the columns that differ from the loaded row; it fails if the row is
\* gone, as an INSERT fails if the row is there or a column is null.
LoadRow(c) ==
  /\ At(c, "store", "pg") \/ At(c, "remove", "pg")
  /\ IF up["pg"]
     THEN Move(c, [req[c] EXCEPT !.stage = "commit", !.row = disk["pg"][req[c].id]])
     ELSE GoOn(c)

CommitRow(row, loaded, new) ==
  IF loaded = None THEN new
  ELSE [f \in Fields |-> IF new[f] # loaded[f] THEN new[f] ELSE row[f]]

CommitStore(c) ==
  /\ At(c, "store", "commit")
  /\ LET r == req[c]
         row == disk["pg"][r.id] IN
       /\ IF up["pg"] /\ Valid(r.new) /\ (r.row = None <=> row = None)
          THEN disk' = Put(disk, "pg", r.id, CommitRow(row, r.row, r.new))
          ELSE UNCHANGED disk
       /\ Wait(c, [r EXCEPT !.stage = After(r.pod, "pg"), !.row = None])
  /\ UNCHANGED <<env, memory, cache, issued>>

CommitDelete(c) ==
  /\ At(c, "remove", "commit")
  /\ LET r == req[c] IN
       /\ IF up["pg"] /\ r.row # None
          THEN disk' = Put(disk, "pg", r.id, None)
          ELSE UNCHANGED disk
       /\ Wait(c, [r EXCEPT !.stage = After(r.pod, "pg"), !.row = None])
  /\ UNCHANGED <<env, memory, cache, issued>>

\* Mutants: one attempt too many; attempts without an end.
RetryOnceMore(r) ==
  IF r.tries < RetryAttempts THEN [r EXCEPT !.tries = @ + 1]
  ELSE [r EXCEPT !.stage = After(r.pod, "redis"), !.tries = 0]

RetryForever(r) ==
  IF r.tries + 1 < RetryAttempts THEN [r EXCEPT !.tries = @ + 1] ELSE [r EXCEPT !.tries = 0]

\* redis_op_with_retry: a SET or DEL takes effect, and its reply may be
\* lost; a failed attempt is repeated until the attempts are used up.
Retry(r) ==
  IF r.tries + 1 < RetryAttempts THEN [r EXCEPT !.tries = @ + 1]
  ELSE [r EXCEPT !.stage = After(r.pod, "redis"), !.tries = 0]

WriteRedis(c) ==
  /\ At(c, "store", "redis") \/ At(c, "remove", "redis")
  /\ up["redis"]
  /\ disk' = Put(disk, "redis", req[c].id, req[c].new)
  /\ \/ /\ Wait(c, [req[c] EXCEPT !.stage = After(req[c].pod, "redis"), !.tries = 0])
        /\ UNCHANGED faults
     \/ /\ faults.lost < MaxLost
        /\ faults' = [faults EXCEPT !.lost = @ + 1]
        /\ Wait(c, Retry(req[c]))
  /\ UNCHANGED <<up, avail, load, memory, cache, issued>>

FailRedis(c) ==
  /\ At(c, "store", "redis") \/ At(c, "remove", "redis")
  /\ ~up["redis"]
  /\ Move(c, Retry(req[c]))

\* Memory is always written, after the backends and whatever they answered.
WriteMemory(c) ==
  /\ \/ At(c, "store", "memory") /\ EndStore(c, req[c])
     \/ At(c, "remove", "memory") /\ EndDelete(c, req[c])
  /\ UNCHANGED <<env, disk, cache, issued>>

\* get_all(): one SELECT, or KEYS and then a GET per key, where a key that
\* cannot be read, for whatever reason, is skipped.
ListPg(c) ==
  /\ At(c, "list", "pg")
  /\ IF up["pg"]
     THEN Respond(c, req[c], "ok", disk["pg"]) /\ UNCHANGED <<env, stores, issued>>
     ELSE GoOn(c)

ListKeys(c) ==
  /\ At(c, "list", "redis")
  /\ IF up["redis"]
     THEN Move(c, [req[c] EXCEPT !.stage = "keys",
                                 !.left = {i \in Ids : disk["redis"][i] # None}])
     ELSE GoOn(c)

ListKey(c, id) ==
  /\ At(c, "list", "keys")
  /\ id \in req[c].left
  /\ Move(c, [req[c] EXCEPT !.left = @ \ {id},
                            !.items[id] = IF up["redis"] /\ Readable("redis", id)
                                          THEN disk["redis"][id] ELSE None])

ListEnd(c) ==
  /\ At(c, "list", "keys")
  /\ req[c].left = {}
  /\ Respond(c, req[c], "ok", req[c].items)
  /\ UNCHANGED <<env, stores, issued>>

ListFromMemory(c) ==
  /\ At(c, "list", "memory")
  /\ ListMemory(c, req[c])
  /\ UNCHANGED <<env, disk, issued>>

Progress(c) ==
  \/ ReadBackend(c) \/ Resume(c) \/ ReadMemory(c)
  \/ LoadRow(c) \/ CommitStore(c) \/ CommitDelete(c)
  \/ WriteRedis(c) \/ FailRedis(c) \/ WriteMemory(c)
  \/ ListPg(c) \/ ListKeys(c) \/ (\E id \in Ids : ListKey(c, id)) \/ ListEnd(c)
  \/ ListFromMemory(c)
-----------------------------------------------------------------------------
(* The environment.                                                         *)
\* Mutant: an entry that outlives its TTL.
ExpireKeeps(p, id) == cache[p][id] # None /\ UNCHANGED vars

\* An entry expires or is evicted (TTLCache.tla).
Expire(p, id) ==
  /\ cache[p][id] # None
  /\ cache' = Put(cache, p, id, None)
  /\ UNCHANGED <<env, disk, memory, req, answer, issued, known>>

\* A backend becomes unreachable or reachable; it keeps what it holds, and
\* no pod looks at its availability again.
Flap(b) ==
  /\ faults.flaps < MaxFlaps
  /\ faults' = [faults EXCEPT !.flaps = @ + 1]
  /\ up' = [up EXCEPT ![b] = ~@]
  /\ UNCHANGED <<avail, load, stores, req, answer, issued, known>>

\* A pod dies with its cache, its memory and its requests; the one that
\* replaces it looks for the backends once, in its lifespan.
Restart(p) ==
  /\ faults.restarts < MaxRestarts
  /\ faults' = [faults EXCEPT !.restarts = @ + 1]
  /\ avail' = [avail EXCEPT ![p] = {b \in Configured : up[b]}]
  /\ cache' = [cache EXCEPT ![p] = [id \in Ids |-> None]]
  /\ memory' = [memory EXCEPT ![p] = [id \in Ids |-> None]]
  /\ req' = [c \in Clients |-> IF req[c] # None /\ req[c].pod = p THEN None ELSE req[c]]
  /\ UNCHANGED <<up, load, disk, answer, issued, known>>

Init ==
  /\ load \in Workloads
  /\ up \in [Backends -> BOOLEAN]
  /\ \A b \in Backends \ Configured : ~up[b]
  /\ avail \in [Pods -> load.startups]
  /\ disk = [b \in Backends |-> [id \in Ids |-> None]]
  /\ memory = [p \in Pods |-> [id \in Ids |-> None]]
  /\ cache = [p \in Pods |-> [id \in Ids |-> None]]
  /\ req = [c \in Clients |-> None]
  /\ answer = [op |-> "none", id |-> None, status |-> "none", value |-> None]
  /\ issued = {} /\ known = {}
  /\ faults = [flaps |-> 0, lost |-> 0, restarts |-> 0]

Next ==
  \/ \E c \in Clients : Arrive(c) \/ Progress(c)
  \/ \E p \in Pods, id \in Ids : Expire(p, id)
  \/ \E b \in Configured : Flap(b)
  \/ \E p \in load.pods : Restart(p)

Spec == Init /\ [][Next]_vars

\* Backends answer or refuse, and the TTL of an entry runs out.
Fairness ==
  /\ \A c \in Clients : WF_vars(Progress(c))
  /\ \A p \in Pods, id \in Ids : WF_vars(Expire(p, id))

FairSpec == Spec /\ Fairness
-----------------------------------------------------------------------------
Requests ==
  [pod : Pods, op : Operations, id : Ids \cup {None},
   body : Creates \cup Updates \cup {None},
   phase : {"read", "reply", "store", "remove", "list"},
   stage : Stages \cup {"commit", "keys"}, tries : 0 .. RetryAttempts - 1,
   old : Ctx \cup {None}, new : Ctx \cup {None}, row : Ctx \cup {None},
   left : SUBSET Ids, items : [Ids -> Ctx \cup {None}], seen : SUBSET Ids]

ASSUME RequestsAssumption == None \notin Requests

TypeOK ==
  /\ up \in [Backends -> BOOLEAN]
  /\ avail \in [Pods -> SUBSET Backends]
  /\ disk \in [Backends -> [Ids -> Ctx \cup {None}]]
  /\ memory \in [Pods -> [Ids -> Ctx \cup {None}]]
  /\ cache \in [Pods -> [Ids -> Ctx \cup {None}]]
  /\ req \in [Clients -> Requests \cup {None}]
  /\ issued \subseteq Ids /\ known \subseteq issued
  /\ load \in Workloads

Used == UNION {load.ops[c] : c \in Clients}
InFlight(op) == {c \in Clients : req[c] # None /\ req[c].op = op}
Quiet == \A c \in Clients : req[c] = None

\* Where a pod looks first among what answers: PG, then Redis, then memory.
Authority(p) ==
  IF "pg" \in avail[p] /\ up["pg"] THEN disk["pg"]
  ELSE IF "redis" \in avail[p] /\ up["redis"] THEN disk["redis"] ELSE memory[p]

\* A context that a client was told of and that PostgreSQL does not hold
\* comes to it only by an update in flight that read it earlier, or read it
\* elsewhere: a delete is not undone by any create, read, listing, outage,
\* lost reply or restart.
OnlyUpdatesRestore ==
  [][\A id \in known :
       disk["pg"][id] = None /\ disk'["pg"][id] # None
       => \E c \in InFlight("update") : req[c].id = id]_vars

\* While no pod restarts and nothing is deleted, a context whose create() is
\* over is held by the memory of a pod, whatever the backends did: "Memory
\* (always)" in the docstring of StorageService.
MemoryHoldsCreated ==
  "delete" \notin Used /\ faults.restarts = 0 =>
    \A id \in issued :
      (\A c \in InFlight("create") : req[c].id # id) => \E p \in load.pods : memory[p][id] # None

\* As long as nothing is deleted, no pod restarts and the backends stay as
\* they are, reachable or not, a context that a client was told of is found.
KnownIsFound ==
  [][/\ "delete" \notin Used /\ faults.restarts = 0 /\ faults.flaps = 0
     /\ answer' # answer
     => answer'.status # "404"]_vars

\* Then, too, a listing shows every context that clients knew of when it
\* began, whatever is created and updated before it ends.
ListsAllKnown ==
  [][\A c \in Clients :
       /\ "delete" \notin Used /\ faults'.restarts = 0 /\ faults.flaps = 0
       /\ c \in InFlight("list") /\ req'[c] = None /\ answer'.status = "ok"
       => \A id \in req[c].seen : answer'.value[id] # None]_vars

\* When no request is in flight, the backends that a pod writes to and the
\* memory hold the same contexts: "write-through to all available backends".
StoresAgree ==
  Quiet => \A p \in Pods : \A b \in avail[p] : up[b] => disk[b] = memory[p]

\* Once writes stop, every cache comes to agree with the stores for good: a
\* stale entry outlives the requests in flight by at most its TTL.
CacheConverges ==
  (<>[](InFlight("create") \cup InFlight("update") \cup InFlight("delete") = {}))
    => <>[](\A p \in Pods, id \in Ids : cache[p][id] \in {None, Authority(p)[id]})

\* Every request is answered, however many attempts fail.
Answered == \A c \in Clients : (req[c] # None) ~> (req[c] = None)

\* With the backends' state fixed, one pod, and clients that do not share
\* contexts, the service is the plain map of ContextMap.tla.
Home == CHOOSE p \in Pods : TRUE
Contexts ==
  [id \in Ids |->
     LET writers == {c \in Clients : req[c] # None /\ req[c].id = id
                                     /\ req[c].phase \in {"store", "remove"}} IN
       IF writers # {} THEN (CHOOSE r \in {req[c] : c \in writers} : TRUE).old
       ELSE Authority(Home)[id]]

Map == INSTANCE ContextMap WITH contexts <- Contexts
RefinesContextMap == Map!Spec
=============================================================================
