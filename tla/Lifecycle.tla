------------------------------ MODULE Lifecycle ------------------------------
(***************************************************************************)
(* The life of a pod: the lifespan of app/main.py decides once, at         *)
(* startup, which backends the process uses (init_db, init_redis), and     *)
(* answers nothing before it has: the kubelet's startup probe kills a      *)
(* container that waits too long for a silent backend.  Afterwards the     *)
(* kubelet probes GET /api/mgmt/health (get_health of services/health.py), *)
(* and restarts the container after FailureThreshold failed probes.        *)
(***************************************************************************)
EXTENDS Naturals, FiniteSets

CONSTANTS
  Pods,
  Settings,          \* the sets of backends that may be given a URL: Redis always
                     \* has one (effective_redis_url), PostgreSQL need not
  Conditions,        \* the conditions a backend can get into
  FailureThreshold,  \* of the liveness probe; Kubernetes' default, 3
  StartupFailures,   \* failureThreshold of the startup probe, 20
  MaxChanges, MaxCrashes  \* bounds on a behaviour

Backends == {"pg", "redis"}

ASSUME SettingsAssumption == Settings \subseteq SUBSET Backends
ASSUME ConditionsAssumption == Conditions \subseteq {"up", "down", "hung"}
ASSUME ThresholdAssumption == {FailureThreshold, StartupFailures} \subseteq Nat \ {0}

VARIABLES
  wanted,   \* the backends that have a URL
  net,      \* net[b]: b answers, refuses connections, or never replies
  pod,      \* pod[p]: p's phase, its backends, those the running probe
            \* has found DOWN, and its failed probes in a row (until it
            \* serves, those of the startup probe)
  away,     \* away[p]: the backends that were away at some moment of the
            \* running probe
  outages,  \* outages[p]: how many probes in a row saw p's backends away, see Excused
  changes, crashes

vars == <<wanted, net, pod, away, outages, changes, crashes>>

Started == [phase |-> "init_db", conn |-> {}, down |-> {}, fails |-> 0]

Away == {b \in Backends : net[b] # "up"}

Init ==
  /\ wanted \in Settings
  /\ net \in [Backends -> Conditions]
  /\ pod = [p \in Pods |-> Started]
  /\ away = [p \in Pods |-> {}]
  /\ outages = [p \in Pods |-> 0]
  /\ changes = 0 /\ crashes = 0

Step(p, r) == pod' = [pod EXCEPT ![p] = r]

\* The backends a startup step adds: b, when it has a URL and can be reached.
\* One that refuses, or whose client's own timeout ends the wait for it
\* (socket_connect_timeout of Redis, asyncpg's for a connection), is given up.
Connected(b) == ({b} \cap wanted) \ Away

\* init_db: the engine and session factory stay only if the first connection works.
InitDb(p) ==
  /\ pod[p].phase = "init_db"
  /\ Step(p, [pod[p] EXCEPT !.phase = "init_redis", !.conn = @ \cup Connected("pg")])
  /\ UNCHANGED <<wanted, net, away, outages, changes, crashes>>

\* init_redis, after which the pod serves and its startup probe succeeds.
InitRedis(p) ==
  /\ pod[p].phase = "init_redis"
  /\ Step(p, [pod[p] EXCEPT !.phase = "serving", !.conn = @ \cup Connected("redis"), !.fails = 0])
  /\ UNCHANGED <<wanted, net, away, outages, changes, crashes>>

\* The startup waits for a backend that accepted and does not answer: no
\* timeout covers a ping, or a query on a connection that is there.
Waiting(p) ==
  \E b \in wanted : net[b] = "hung" /\ pod[p].phase = IF b = "pg" THEN "init_db" ELSE "init_redis"

\* The startup probe fails, for the server does not listen yet ...
StartupProbe(p) ==
  /\ Waiting(p) /\ pod[p].fails < StartupFailures
  /\ Step(p, [pod[p] EXCEPT !.fails = @ + 1])
  /\ UNCHANGED <<wanted, net, away, outages, changes, crashes>>

\* ... and, having failed often enough, has the container killed: the
\* lifespan, still in its startup, closes nothing.
KillStarting(p) ==
  /\ pod[p].phase \in {"init_db", "init_redis"} /\ pod[p].fails = StartupFailures
  /\ Step(p, Started)
  /\ UNCHANGED <<wanted, net, away, outages, changes, crashes>>

\* Mutant: a container that has failed enough probes is probed again.
ProbeAlways(p) ==
  /\ pod[p].phase = "serving"
  /\ Step(p, [pod[p] EXCEPT !.phase = "ping", !.down = {}])
  /\ away' = [away EXCEPT ![p] = Away]
  /\ UNCHANGED <<wanted, net, outages, changes, crashes>>

\* The kubelet asks for /api/mgmt/health.
Probe(p) ==
  /\ pod[p].phase = "serving" /\ pod[p].fails < FailureThreshold
  /\ Step(p, [pod[p] EXCEPT !.phase = "ping", !.down = {}])
  /\ away' = [away EXCEPT ![p] = Away]
  /\ UNCHANGED <<wanted, net, outages, changes, crashes>>

\* One of get_health's checks: a backend not in use is NOT_CONFIGURED, one
\* that refuses is DOWN, and one that never replies keeps the check waiting.
Check(p, b, phase, after) ==
  /\ pod[p].phase = phase
  /\ b \in pod[p].conn => net[b] # "hung"
  /\ Step(p, [pod[p] EXCEPT !.phase = after, !.down = @ \cup ({b} \cap pod[p].conn \cap Away)])
  /\ UNCHANGED <<wanted, net, away, outages, changes, crashes>>

Ping(p) == Check(p, "redis", "ping", "select")
Select(p) == Check(p, "pg", "select", "respond")

\* The probe of p that ends now saw each of p's backends away at some moment
\* of it, or waits for one that never replies.
Excused(p) ==
  /\ pod[p].conn # {}
  /\ pod[p].conn \subseteq away[p] \/ \E b \in pod[p].conn : net[b] = "hung"

\* The end of a probe, failed or not.
EndProbe(p, failed) ==
  /\ Step(p, [pod[p] EXCEPT !.phase = "serving", !.down = {}, !.fails = IF failed THEN @ + 1 ELSE 0])
  /\ outages' = [outages EXCEPT ![p] = IF Excused(p) THEN @ + 1 ELSE 0]
  /\ UNCHANGED <<wanted, net, away, changes, crashes>>

\* Mutants: any backend down is an outage; so is having none.
UnhealthyWhenDegraded(r) == r.down # {}
UnhealthyWhenUnconfigured(r) == r.down = r.conn

\* all_configured_down: the answer is a 503.
Unhealthy(r) == r.conn # {} /\ r.down = r.conn

Respond(p) == pod[p].phase = "respond" /\ EndProbe(p, Unhealthy(pod[p]))

\* The kubelet stops waiting for a health check (timeoutSeconds).
GiveUp(p) ==
  /\ \/ pod[p].phase = "ping" /\ "redis" \in pod[p].conn /\ net["redis"] = "hung"
     \/ pod[p].phase = "select" /\ "pg" \in pod[p].conn /\ net["pg"] = "hung"
  /\ EndProbe(p, TRUE)

\* The kubelet stops the container: close_redis, then close_db, then a new process.
Kill(p) ==
  /\ pod[p].phase = "serving" /\ pod[p].fails = FailureThreshold
  /\ Step(p, [pod[p] EXCEPT !.phase = "close_redis"])
  /\ UNCHANGED <<wanted, net, away, outages, changes, crashes>>

CloseRedis(p) ==
  /\ pod[p].phase = "close_redis"
  /\ Step(p, [pod[p] EXCEPT !.phase = "close_db", !.conn = @ \ {"redis"}])
  /\ UNCHANGED <<wanted, net, away, outages, changes, crashes>>

\* close_db, the end of the process and the start of the next.
CloseDb(p) ==
  /\ pod[p].phase = "close_db"
  /\ Step(p, Started)
  /\ outages' = [outages EXCEPT ![p] = 0]
  /\ UNCHANGED <<wanted, net, away, changes, crashes>>

\* The process dies, at any moment, and its container is started again.
Crash(p) ==
  /\ crashes < MaxCrashes
  /\ crashes' = crashes + 1
  /\ Step(p, Started)
  /\ outages' = [outages EXCEPT ![p] = 0]
  /\ UNCHANGED <<wanted, net, away, changes>>

\* The backend, or the way to it, changes.
Change(b) ==
  /\ changes < MaxChanges
  /\ changes' = changes + 1
  /\ \E s \in Conditions \ {net[b]} :
       /\ net' = [net EXCEPT ![b] = s]
       /\ away' = [p \in Pods |-> away[p] \cup (IF s = "up" THEN {} ELSE {b})]
  /\ UNCHANGED <<wanted, pod, outages, crashes>>

Progress(p) ==
  \/ InitDb(p) \/ InitRedis(p) \/ StartupProbe(p) \/ KillStarting(p)
  \/ Probe(p) \/ Ping(p) \/ Select(p) \/ Respond(p) \/ GiveUp(p)
  \/ Kill(p) \/ CloseRedis(p) \/ CloseDb(p)

Next ==
  \/ \E p \in Pods : Progress(p) \/ Crash(p)
  \/ \E b \in Backends : Change(b)

Spec == Init /\ [][Next]_vars
FairSpec == Spec /\ \A p \in Pods : WF_vars(Progress(p))
-----------------------------------------------------------------------------
Probing == {"ping", "select", "respond"}
Starting == {"init_db", "init_redis"}
Stopping == {"close_redis", "close_db"}

PodState ==
  {r \in [phase : Probing \cup Starting \cup Stopping \cup {"serving"},
          conn : SUBSET Backends, down : SUBSET Backends, fails : Nat] :
     r.fails <= IF r.phase \in Starting THEN StartupFailures ELSE FailureThreshold}

TypeOK ==
  /\ wanted \in SUBSET Backends
  /\ net \in [Backends -> Conditions]
  /\ pod \in [Pods -> PodState]
  /\ away \in [Pods -> SUBSET Backends]
  /\ outages \in [Pods -> Nat]
  /\ changes \in Nat /\ crashes \in Nat

\* "503 = all configured backends DOWN": a container is stopped only after
\* FailureThreshold probes in a row, during each of which every backend it
\* uses was away at some moment, though not at the same one, or at the end
\* of which one of them kept the health check waiting.
StoppedOnlyInOutage ==
  \A p \in Pods : pod[p].phase = "close_redis" => outages[p] >= FailureThreshold

\* "Full in-memory mode": once every backend a pod wants is away for good,
\* refusing or silent, the pod ends up using none of them.  Once the backends
\* have settled, none of them silent, it serves for good, whatever startups
\* and restarts their changes have led to.
OutageEndsInMemory ==
  \A p \in Pods :
    /\ <>[](wanted \subseteq Away) => <>[](pod[p].conn = {})
    /\ \A settled \in [Backends -> {"up", "down"}] :
         <>[](net = settled) => <>[](pod[p].phase \notin Starting \cup Stopping)
=============================================================================
