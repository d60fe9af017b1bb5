--------------------------- MODULE LifecycleProofs ---------------------------
(***************************************************************************)
(* TLAPS proofs about Lifecycle.tla, for any number of pods, any threshold *)
(* and any sequence of failures.                                           *)
(***************************************************************************)
EXTENDS Lifecycle, TLAPS

\* What a probe of p has found so far was away while it ran, and every
\* failed probe of the present row was excused, those of the startup probe aside.
Sound(p) ==
  /\ pod[p].phase \in Probing =>
       /\ pod[p].fails < FailureThreshold
       /\ Away \subseteq away[p]
       /\ pod[p].down \subseteq away[p] \cap pod[p].conn
  /\ pod[p].phase \notin Starting => pod[p].fails <= outages[p]
  /\ pod[p].phase = "close_redis" => pod[p].fails = FailureThreshold

Inv == TypeOK /\ \A p \in Pods : Sound(p)

\* A pod that has just been started.
LEMMA StartedType ==
  /\ Started \in PodState
  /\ Started.phase = "init_db" /\ Started.fails = 0
BY ThresholdAssumption DEF Started, PodState, Starting

\* The state of a pod that serves.
LEMMA ServingType ==
  ASSUME NEW r \in [phase : {"serving"}, conn : SUBSET Backends, down : SUBSET Backends,
                    fails : 0 .. FailureThreshold]
  PROVE  r \in PodState /\ r.phase = "serving"
BY ThresholdAssumption DEF PodState, Starting

\* A step of p changes p's state only.
LEMMA StepFacts ==
  ASSUME pod \in [Pods -> PodState], NEW p \in Pods, NEW r \in PodState, Step(p, r)
  PROVE  /\ pod' \in [Pods -> PodState]
         /\ pod'[p] = r
         /\ \A q \in Pods \ {p} : pod'[q] = pod[q]
BY DEF Step

\* A pod that nothing touches stays sound.
LEMMA Untouched ==
  ASSUME NEW q \in Pods, Sound(q), pod'[q] = pod[q], away'[q] = away[q],
         outages'[q] = outages[q], net' = net
  PROVE  Sound(q)'
BY DEF Sound, Away

\* A step of p that moves it among the phases outside a probe, and does not
\* raise its failed probes, keeps the invariant.
LEMMA MoveKeeps ==
  ASSUME Inv, NEW p \in Pods, NEW r \in PodState, Step(p, r),
         r.phase \notin Probing, r.phase \notin Starting => r.fails <= outages'[p],
         r.phase = "close_redis" => r.fails = FailureThreshold,
         outages' \in [Pods -> Nat], \A q \in Pods \ {p} : outages'[q] = outages[q],
         changes' \in Nat, crashes' \in Nat,
         UNCHANGED <<wanted, net, away>>
  PROVE  Inv'
<1>1. /\ pod' \in [Pods -> PodState]
      /\ pod'[p] = r
      /\ \A q \in Pods \ {p} : pod'[q] = pod[q]
  BY StepFacts DEF Inv, TypeOK
<1>2. TypeOK'
  BY <1>1 DEF Inv, TypeOK
<1>3. Sound(p)'
  BY <1>1 DEF Sound
<1>4. \A q \in Pods \ {p} : Sound(q)'
  BY <1>1, Untouched DEF Inv
<1> QED BY <1>2, <1>3, <1>4 DEF Inv

\* So does a step of p within a probe, or into one.
LEMMA ProbeKeeps ==
  ASSUME Inv, NEW p \in Pods, NEW r \in PodState, Step(p, r),
         r.phase \in Probing, r.fails = pod[p].fails, r.fails < FailureThreshold,
         pod[p].phase \notin Starting, Away \subseteq away'[p], r.down \subseteq away'[p] \cap r.conn,
         away' \in [Pods -> SUBSET Backends], \A q \in Pods \ {p} : away'[q] = away[q],
         UNCHANGED <<wanted, net, outages, changes, crashes>>
  PROVE  Inv'
<1>1. /\ pod' \in [Pods -> PodState]
      /\ pod'[p] = r
      /\ \A q \in Pods \ {p} : pod'[q] = pod[q]
  BY StepFacts DEF Inv, TypeOK
<1>2. TypeOK'
  BY <1>1 DEF Inv, TypeOK
<1>3. r.fails <= outages'[p] /\ r.phase # "close_redis" /\ Away' = Away
  BY DEF Inv, Sound, Probing, Away
<1>4. Sound(p)'
  BY <1>1, <1>3 DEF Sound
<1>5. \A q \in Pods \ {p} : Sound(q)'
  BY <1>1, Untouched DEF Inv
<1> QED BY <1>2, <1>4, <1>5 DEF Inv

\* The end of a probe keeps it, when a failed probe was excused.
LEMMA EndKeeps ==
  ASSUME Inv, NEW p \in Pods, NEW failed \in BOOLEAN, EndProbe(p, failed),
         pod[p].phase \in Probing,
         failed => Excused(p)
  PROVE  Inv'
<1> DEFINE r == [pod[p] EXCEPT !.phase = "serving", !.down = {}, !.fails = IF failed THEN @ + 1 ELSE 0]
<1>1. pod \in [Pods -> PodState] /\ pod[p] \in PodState /\ outages \in [Pods -> Nat]
  BY DEF Inv, TypeOK
<1>2. pod[p].fails \in 0 .. FailureThreshold /\ pod[p].fails < FailureThreshold /\ pod[p].fails <= outages[p]
  BY <1>1 DEF Inv, Sound, PodState, Probing, Starting
<1>3. /\ r.phase = "serving"
      /\ r.fails = IF failed THEN pod[p].fails + 1 ELSE 0
      /\ r \in PodState
  <2>1. (IF failed THEN pod[p].fails + 1 ELSE 0) \in 0 .. FailureThreshold
    BY <1>2, ThresholdAssumption
  <2>2. /\ r \in [phase : {"serving"}, conn : SUBSET Backends, down : SUBSET Backends,
                   fails : 0 .. FailureThreshold]
        /\ r.fails = IF failed THEN pod[p].fails + 1 ELSE 0
    BY <1>1, <2>1 DEF PodState
  <2> QED BY <2>2, ServingType
<1>4. Step(p, r) /\ UNCHANGED <<wanted, net, away, changes, crashes>>
  BY DEF EndProbe
<1>5. outages' = [outages EXCEPT ![p] = IF Excused(p) THEN @ + 1 ELSE 0]
  BY DEF EndProbe
<1>6. outages' \in [Pods -> Nat] /\ \A q \in Pods \ {p} : outages'[q] = outages[q]
  BY <1>1, <1>5
<1>7. r.fails <= outages'[p]
  BY <1>1, <1>2, <1>3, <1>5
<1>8. changes' \in Nat /\ crashes' \in Nat
  BY <1>4 DEF Inv, TypeOK
<1> HIDE DEF r
<1> QED BY <1>3, <1>4, <1>6, <1>7, <1>8, MoveKeeps DEF Probing

\* A check of p's health keeps the invariant.
LEMMA CheckKeeps ==
  ASSUME Inv, NEW p \in Pods, NEW b \in Backends, NEW phase \in Probing, NEW after \in Probing,
         Check(p, b, phase, after)
  PROVE  Inv'
<1> DEFINE r == [pod[p] EXCEPT !.phase = after, !.down = @ \cup ({b} \cap pod[p].conn \cap Away)]
<1>1. pod[p] \in PodState /\ away \in [Pods -> SUBSET Backends]
  BY DEF Inv, TypeOK
<1>2. pod[p].phase \in Probing /\ Step(p, r) /\ UNCHANGED <<wanted, net, away, outages, changes, crashes>>
  BY DEF Check
<1>3. /\ pod[p].fails < FailureThreshold /\ Away \subseteq away[p]
      /\ pod[p].down \subseteq away[p] \cap pod[p].conn
  BY <1>2 DEF Inv, Sound
<1>4. /\ r \in PodState /\ r.phase = after /\ r.fails = pod[p].fails /\ r.conn = pod[p].conn
      /\ r.down = pod[p].down \cup ({b} \cap pod[p].conn \cap Away)
  <2>1. after \notin Starting /\ phase \notin Starting
    BY DEF Probing, Starting
  <2>2. pod[p].fails <= FailureThreshold
    BY <1>1, <2>1 DEF Check, PodState
  <2> QED BY <1>1, <2>1, <2>2 DEF PodState
<1>5. r.down \subseteq away'[p] \cap r.conn /\ Away \subseteq away'[p]
  BY <1>2, <1>3, <1>4
<1>6. pod[p].phase \notin Starting
  BY <1>2 DEF Probing, Starting
<1> HIDE DEF r
<1> QED BY <1>1, <1>2, <1>3, <1>4, <1>5, <1>6, ProbeKeeps

\* Every step keeps the invariant.
LEMMA NextKeeps ==
  ASSUME Inv, [Next]_vars
  PROVE  Inv'
<1>0. /\ pod \in [Pods -> PodState] /\ away \in [Pods -> SUBSET Backends]
      /\ outages \in [Pods -> Nat] /\ changes \in Nat /\ crashes \in Nat
      /\ net \in [Backends -> Conditions] /\ \A q \in Pods : Sound(q)
  BY DEF Inv, TypeOK
<1>1. ASSUME NEW p \in Pods, InitDb(p) PROVE Inv'
  <2> DEFINE r == [pod[p] EXCEPT !.phase = "init_redis", !.conn = @ \cup Connected("pg")]
  <2>1. r \in PodState /\ r.phase = "init_redis"
    BY <1>0, <1>1 DEF InitDb, PodState, Connected, Backends, Starting
  <2>2. Step(p, r) /\ UNCHANGED <<wanted, net, away, outages, changes, crashes>>
    BY <1>1 DEF InitDb
  <2> HIDE DEF r
  <2> QED BY <1>0, <2>1, <2>2, MoveKeeps DEF Probing, Starting
<1>2. ASSUME NEW p \in Pods, InitRedis(p) PROVE Inv'
  <2> DEFINE r == [pod[p] EXCEPT !.phase = "serving", !.conn = @ \cup Connected("redis"), !.fails = 0]
  <2>1. r \in PodState /\ r.phase = "serving" /\ r.fails = 0
    <3>1. pod[p] \in PodState /\ Connected("redis") \in SUBSET Backends
      BY <1>0 DEF Connected, Backends
    <3>2. 0 \in 0 .. FailureThreshold /\ pod[p].conn \cup Connected("redis") \in SUBSET Backends
      BY <3>1, ThresholdAssumption DEF PodState
    <3>3. /\ r \in [phase : {"serving"}, conn : SUBSET Backends, down : SUBSET Backends,
                     fails : 0 .. FailureThreshold]
          /\ r.fails = 0
      BY <3>1, <3>2 DEF PodState
    <3> QED BY <3>3, ServingType
  <2>2. Step(p, r) /\ UNCHANGED <<wanted, net, away, outages, changes, crashes>> /\ 0 <= outages[p]
    BY <1>0, <1>2 DEF InitRedis
  <2> HIDE DEF r
  <2> QED BY <1>0, <2>1, <2>2, MoveKeeps DEF Probing
<1>3. ASSUME NEW p \in Pods, Probe(p) PROVE Inv'
  <2> DEFINE r == [pod[p] EXCEPT !.phase = "ping", !.down = {}]
  <2>1. r \in PodState /\ r.phase = "ping" /\ r.down = {} /\ r.fails = pod[p].fails
    BY <1>0, <1>3 DEF Probe, PodState, Probing, Starting
  <2>2. /\ Step(p, r) /\ pod[p].fails < FailureThreshold /\ pod[p].phase \notin Starting
        /\ UNCHANGED <<wanted, net, outages, changes, crashes>>
    BY <1>3 DEF Probe, Starting
  <2>3. /\ away' = [away EXCEPT ![p] = Away]
        /\ away'[p] = Away /\ away' \in [Pods -> SUBSET Backends]
        /\ \A q \in Pods \ {p} : away'[q] = away[q]
    BY <1>0, <1>3 DEF Probe, Away
  <2> HIDE DEF r
  <2> QED BY <2>1, <2>2, <2>3, ProbeKeeps DEF Probing
<1>4. ASSUME NEW p \in Pods, Ping(p) \/ Select(p) PROVE Inv'
  BY <1>4, CheckKeeps DEF Ping, Select, Probing, Backends
<1>5. ASSUME NEW p \in Pods, Respond(p) PROVE Inv'
  <2>1. pod[p].phase \in Probing /\ EndProbe(p, Unhealthy(pod[p])) /\ Unhealthy(pod[p]) \in BOOLEAN
    BY <1>5 DEF Respond, Probing, Unhealthy
  <2>2. Unhealthy(pod[p]) => Excused(p)
    BY <1>0, <2>1 DEF Unhealthy, Sound, Excused
  <2> QED BY <2>1, <2>2, EndKeeps
<1>6. ASSUME NEW p \in Pods, GiveUp(p) PROVE Inv'
  <2>1. pod[p].phase \in Probing /\ EndProbe(p, TRUE)
    BY <1>6 DEF GiveUp, Probing
  <2>2. Excused(p)
    BY <1>6 DEF GiveUp, Excused
  <2> QED BY <2>1, <2>2, EndKeeps
<1>7. ASSUME NEW p \in Pods, Kill(p) PROVE Inv'
  <2> DEFINE r == [pod[p] EXCEPT !.phase = "close_redis"]
  <2>1. r \in PodState /\ r.phase = "close_redis" /\ r.fails = pod[p].fails
    BY <1>0, <1>7 DEF Kill, PodState, Starting, Stopping
  <2>2. /\ Step(p, r) /\ UNCHANGED <<wanted, net, away, outages, changes, crashes>>
        /\ pod[p].fails <= outages[p] /\ pod[p].fails = FailureThreshold
    BY <1>0, <1>7 DEF Kill, Sound, Starting
  <2> HIDE DEF r
  <2> QED BY <1>0, <2>1, <2>2, MoveKeeps DEF Probing
<1>8. ASSUME NEW p \in Pods, CloseRedis(p) PROVE Inv'
  <2> DEFINE r == [pod[p] EXCEPT !.phase = "close_db", !.conn = @ \ {"redis"}]
  <2>1. r \in PodState /\ r.phase = "close_db" /\ r.fails = pod[p].fails
    BY <1>0, <1>8 DEF CloseRedis, PodState, Starting, Stopping
  <2>2. Step(p, r) /\ UNCHANGED <<wanted, net, away, outages, changes, crashes>> /\ pod[p].fails <= outages[p]
    BY <1>0, <1>8 DEF CloseRedis, Sound, Starting
  <2> HIDE DEF r
  <2> QED BY <1>0, <2>1, <2>2, MoveKeeps DEF Probing
<1>9. ASSUME NEW p \in Pods, CloseDb(p) \/ Crash(p) PROVE Inv'
  <2>1. Step(p, Started) /\ outages' = [outages EXCEPT ![p] = 0] /\ UNCHANGED <<wanted, net, away>>
    BY <1>9 DEF CloseDb, Crash
  <2>2. /\ outages' \in [Pods -> Nat] /\ outages'[p] = 0
        /\ \A q \in Pods \ {p} : outages'[q] = outages[q]
    BY <1>0, <2>1
  <2>3. changes' \in Nat /\ crashes' \in Nat
    BY <1>0, <1>9 DEF CloseDb, Crash
  <2> QED BY <2>1, <2>2, <2>3, StartedType, MoveKeeps DEF Probing
<1>10. ASSUME NEW b \in Backends, Change(b) PROVE Inv'
  <2>1. PICK s \in Conditions :
          /\ net' = [net EXCEPT ![b] = s]
          /\ away' = [p \in Pods |-> away[p] \cup (IF s = "up" THEN {} ELSE {b})]
    BY <1>10 DEF Change
  <2>2. UNCHANGED <<wanted, pod, outages, crashes>> /\ changes' \in Nat
    BY <1>0, <1>10 DEF Change
  <2>3. TypeOK'
    BY <1>0, <2>1, <2>2 DEF Inv, TypeOK
  <2>4. Away' \subseteq Away \cup (IF s = "up" THEN {} ELSE {b})
    BY <1>0, <2>1 DEF Away
  <2>5. ASSUME NEW p \in Pods PROVE Sound(p)'
    <3>1. away[p] \subseteq away'[p] /\ (Away \subseteq away[p] => Away' \subseteq away'[p])
      BY <2>1, <2>4
    <3> QED BY <1>0, <2>2, <3>1 DEF Sound
  <2> QED BY <2>3, <2>5 DEF Inv
<1>11. ASSUME NEW p \in Pods, StartupProbe(p) PROVE Inv'
  <2> DEFINE r == [pod[p] EXCEPT !.fails = @ + 1]
  <2>1. pod[p].phase \in Starting
    BY <1>11 DEF StartupProbe, Waiting, Starting
  <2>2. r \in PodState /\ r.phase = pod[p].phase
    BY <1>0, <1>11, <2>1, ThresholdAssumption DEF StartupProbe, PodState
  <2>3. Step(p, r) /\ UNCHANGED <<wanted, net, away, outages, changes, crashes>>
    BY <1>11 DEF StartupProbe
  <2> HIDE DEF r
  <2> QED BY <1>0, <2>1, <2>2, <2>3, MoveKeeps DEF Probing, Starting
<1>12. ASSUME NEW p \in Pods, KillStarting(p) PROVE Inv'
  BY <1>0, <1>12, StartedType, MoveKeeps DEF KillStarting, Probing, Starting
<1>13. CASE UNCHANGED vars
  BY <1>13 DEF vars, Inv, TypeOK, Sound, Away
<1> QED BY <1>1, <1>2, <1>3, <1>4, <1>5, <1>6, <1>7, <1>8, <1>9, <1>10, <1>11, <1>12, <1>13 DEF Next, Progress

\* The invariant holds from the start.
LEMMA InitHolds == Init => Inv
<1> SUFFICES ASSUME Init PROVE Inv
  OBVIOUS
<1>1. wanted \in SUBSET Backends
  BY SettingsAssumption DEF Init
<1>2. TypeOK
  BY <1>1, StartedType DEF Init, TypeOK
<1>3. \A p \in Pods : Sound(p)
  BY StartedType DEF Init, Sound, Probing
<1> QED BY <1>2, <1>3 DEF Inv

\* Every failed probe of a row was excused, for as many pods, backends that
\* come and go, crashes and restarts as there may be.
THEOREM InvHolds == Spec => []Inv
<1>1. Inv /\ [Next]_vars => Inv'
  BY NextKeeps
<1> QED BY <1>1, InitHolds, PTL DEF Spec

\* Every variable keeps its type.
THEOREM TypeCorrect == Spec => []TypeOK
BY InvHolds, PTL DEF Inv

\* A container is stopped by its liveness probe only after a full row of
\* probes that saw its backends away or waited for one of them:
\* all_configured_down of get_health, over time.
THEOREM StopsJustified == Spec => []StoppedOnlyInOutage
<1>1. Inv => StoppedOnlyInOutage
  BY DEF Inv, TypeOK, Sound, StoppedOnlyInOutage, Starting
<1> QED BY <1>1, InvHolds, PTL
=============================================================================
