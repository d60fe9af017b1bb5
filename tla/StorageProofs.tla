---------------------------- MODULE StorageProofs ----------------------------
(***************************************************************************)
(* TLAPS proofs about StorageService.tla, for any pods, clients, contexts, *)
(* workloads and faults:                                                   *)
(*                                                                         *)
(*   - Inv, from which come the types, OnlyUpdatesRestore, and with        *)
(*     Holding MemoryHoldsCreated;                                         *)
(*   - the forms of a client's step: it reads on, writes a backend, ends a *)
(*     write, fills the cache or lists, whatever its operation;            *)
(*   - of one pod (OnePod) and without null updates (Definite): what is    *)
(*     kept can be shown (Whole), a request that reads has passed no       *)
(*     backend that answers (Route), and what clients know of is found     *)
(*     (Knows), from which come KnownIsFound and ListsAllKnown;            *)
(*   - when, too, no backend flaps, no pod restarts (Steady) and clients   *)
(*     have contexts of their own (Apart): how far a write has come in the *)
(*     stores (Agreed), from which comes StoresAgree;                      *)
(*   - when, too, nobody writes while another lists (ListsApart): what the *)
(*     cache and the answers on their way say (Mapped), from which comes   *)
(*     the refinement of ContextMap.                                       *)
(***************************************************************************)
EXTENDS StorageService, TLAPS

Stored == [Ids -> Ctx \cup {None}]

\* A create() that has not come past PostgreSQL.
Creating(c) ==
  /\ req[c] # None
  /\ req[c].op = "create" /\ req[c].phase = "store" /\ req[c].stage \in {"pg", "commit"}

\* No client has been told of the id, no store holds it and no listing has
\* read it.
Unseen(id) ==
  /\ id \notin known
  /\ \A b \in Backends : disk[b][id] = None
  /\ \A p \in Pods : memory[p][id] = None
  /\ \A c \in Clients : req[c] # None => req[c].items[id] = None

\* A request does what its operation has to.
Sound(c, r) ==
  /\ r.pod \in load.pods /\ r.op \in load.ops[c]
  /\ r.op # "list" => r.id \in issued
  /\ r.phase \in {"read", "reply"} => r.op \in {"get", "update", "delete"}
  /\ r.phase = "store" => r.op \in {"create", "update"} /\ r.new \in Ctx
  /\ r.phase = "remove" => r.op = "delete"
  /\ r.phase = "list" <=> r.op = "list"
  /\ r.op = "update" => r.body \in Updates

\* An id that is new, or whose create() has not come past PostgreSQL, is
\* nobody else's.
Inv ==
  /\ TypeOK
  /\ \A c \in Clients : req[c] # None => Sound(c, req[c])
  /\ \A id \in Ids \ issued : Unseen(id)
  /\ \A c \in Clients : Creating(c) =>
       /\ Unseen(req[c].id)
       /\ \A d \in Clients \ {c} : (req[d] # None /\ req[d].op # "list") => req[d].id # req[c].id

\* No other create() that has not come past PostgreSQL is of this id.
Owns(c, id) ==
  /\ id \in issued'
  /\ \A d \in Clients \ {c} : Creating(d) => req[d].id # id

-----------------------------------------------------------------------------
(* Types.                                                                   *)

LEMMA LoadType ==
  ASSUME TypeOK
  PROVE  /\ load.pods \subseteq Pods /\ load.updates \subseteq Updates
         /\ \A c \in Clients : load.ops[c] \subseteq Operations /\ load.ids[c] \subseteq Ids
         /\ load.startups \subseteq SUBSET Backends
BY WorkloadsAssumption DEF TypeOK

LEMMA BodyType ==
  /\ Creates \subseteq Ctx
  /\ \A v \in Ctx, body \in Updates : Merge(v, body) \in Ctx
<1>1. Creates \subseteq Ctx
  BY BodiesAssumption DEF Ctx
<1>2. ASSUME NEW v \in Ctx, NEW body \in Updates PROVE Merge(v, body) \in Ctx
  <2>1. PICK S \in SUBSET Fields : body \in [S -> Data \cup {Null}]
    BY BodiesAssumption
  <2> QED BY <2>1 DEF Merge, Ctx
<1> QED BY <1>1, <1>2

LEMMA StageType ==
  ASSUME NEW p
  PROVE  /\ First(p) \in Stages
         /\ \A s : After(p, s) \in Stages /\ After(p, s) \notin {"pg", "commit"}
BY DEF First, After, Stages, Backends

LEMMA PutType ==
  ASSUME NEW S, NEW store \in [S -> Stored],
         NEW p \in S, NEW id \in Ids, NEW v \in Ctx \cup {None}
  PROVE  /\ Put(store, p, id, v) \in [S -> Stored]
         /\ Put(store, p, id, v)[p][id] = v
         /\ \A q \in S, i \in Ids : (q # p \/ i # id) => Put(store, p, id, v)[q][i] = store[q][i]
BY DEF Put, Stored

LEMMA NewReqType ==
  ASSUME NEW p \in Pods, NEW op \in Operations, NEW id \in Ids \cup {None},
         NEW body \in Creates \cup Updates \cup {None}
  PROVE  /\ NewReq(p, op, id, body) \in Requests
         /\ NewReq(p, op, id, body).pod = p /\ NewReq(p, op, id, body).op = op
         /\ NewReq(p, op, id, body).id = id /\ NewReq(p, op, id, body).body = body
         /\ NewReq(p, op, id, body).phase = "read"
         /\ \A i \in Ids : NewReq(p, op, id, body).items[i] = None
BY StageType, RetryAssumption DEF NewReq, Requests

-----------------------------------------------------------------------------
(* A step of client c, whose request becomes r: what it writes and shows is *)
(* its own, and every id that was unseen and is not its own stays unseen.   *)
LEMMA StepKeeps ==
  ASSUME Inv, NEW c \in Clients, NEW r \in Requests \cup {None}, NEW own \in SUBSET Ids,
         req' = [req EXCEPT ![c] = r], load' = load,
         up' = up, avail' = avail,
         disk' \in [Backends -> Stored], memory' \in [Pods -> Stored], cache' \in [Pods -> Stored],
         issued \subseteq issued', issued' \subseteq Ids, known' \subseteq issued',
         \A id \in own : Owns(c, id),
         issued' \subseteq issued \cup own,
         \A id \in Ids \ own : Unseen(id) =>
           /\ id \notin known'
           /\ \A b \in Backends : disk'[b][id] = None
           /\ \A p \in Pods : memory'[p][id] = None
           /\ r # None => r.items[id] = None,
         r # None => Sound(c, r)' /\ (r.op # "list" => r.id \in own),
         Creating(c)' =>
           /\ Unseen(r.id)'
           /\ \A d \in Clients \ {c} : (req[d] # None /\ req[d].op # "list") => req[d].id # r.id
  PROVE  Inv'
<1>1. /\ req' \in [Clients -> Requests \cup {None}]
      /\ req'[c] = r /\ \A d \in Clients \ {c} : req'[d] = req[d]
  BY DEF Inv, TypeOK
<1>2. TypeOK'
  BY <1>1 DEF Inv, TypeOK, Stored
<1>3. ASSUME NEW d \in Clients, req'[d] # None PROVE Sound(d, req[d])'
  <2>1. CASE d = c
    BY <1>1, <1>3, <2>1 DEF Sound
  <2>2. CASE d # c
    <3>1. req'[d] = req[d] /\ Sound(d, req[d])
      BY <1>1, <1>3, <2>2 DEF Inv
    <3> QED BY <3>1 DEF Sound
  <2> QED BY <2>1, <2>2
<1>4. ASSUME NEW id \in Ids \ own, Unseen(id) PROVE Unseen(id)'
  <2>1. ASSUME NEW d \in Clients, req'[d] # None PROVE req'[d].items[id] = None
    <3>1. CASE d = c
      BY <1>1, <1>4, <2>1, <3>1
    <3>2. CASE d # c
      BY <1>1, <1>4, <2>1, <3>2 DEF Unseen
    <3> QED BY <3>1, <3>2
  <2> QED BY <1>4, <2>1 DEF Unseen
<1>5. \A id \in Ids \ issued' : Unseen(id)'
  BY <1>4 DEF Inv, Owns
<1>6. ASSUME NEW d \in Clients, Creating(d)', NEW id, id = req'[d].id
      PROVE  /\ Unseen(id)'
             /\ \A e \in Clients \ {d} : (req'[e] # None /\ req'[e].op # "list") => req'[e].id # id
  <2>1. CASE d = c
    <3>1. id = r.id /\ Creating(c)'
      BY <1>1, <1>6, <2>1
    <3> QED BY <1>1, <2>1, <3>1
  <2>2. CASE d # c
    <3>1. Creating(d) /\ req'[d] = req[d] /\ id = req[d].id
      BY <1>1, <1>6, <2>2 DEF Creating
    <3>2. id \in Ids
      <4>1. Sound(d, req[d])
        BY <3>1 DEF Inv, Creating
      <4> QED BY <3>1, <4>1 DEF Inv, TypeOK, Creating, Sound
    <3>3. id \notin own
      BY <2>2, <3>1 DEF Owns
    <3>4. Unseen(id)
      BY <3>1 DEF Inv
    <3>5. ASSUME NEW e \in Clients \ {d}, req'[e] # None, req'[e].op # "list"
          PROVE  req'[e].id # id
      <4>1. CASE e = c
        BY <1>1, <3>1, <3>3, <3>5, <4>1
      <4>2. CASE e # c
        BY <1>1, <3>1, <3>5, <4>2 DEF Inv
      <4> QED BY <4>1, <4>2
    <3> QED BY <1>4, <3>2, <3>3, <3>4, <3>5
  <2> QED BY <2>1, <2>2
<1> QED BY <1>2, <1>3, <1>5, <1>6 DEF Inv

\* What holds of a request that is on its way.
LEMMA OwnRequest ==
  ASSUME Inv, NEW c \in Clients, req[c] # None
  PROVE  /\ req[c] \in Requests /\ Sound(c, req[c])
         /\ req[c].pod \in Pods
         /\ req[c].op # "list" => req[c].id \in Ids
         /\ \A i \in Ids : Unseen(i) => req[c].items[i] = None
         /\ (req[c].op # "list" /\ issued' = issued) => Owns(c, req[c].id)
         /\ Creating(c) =>
              /\ Unseen(req[c].id)
              /\ \A d \in Clients \ {c} : (req[d] # None /\ req[d].op # "list") => req[d].id # req[c].id
<1>1. req[c] \in Requests /\ Sound(c, req[c])
  BY DEF Inv, TypeOK
<1>2. req[c].pod \in Pods
  BY <1>1 DEF Requests
<1>3. req[c].op # "list" => req[c].id \in Ids /\ req[c].id \in issued
  BY <1>1 DEF Inv, TypeOK, Sound
<1>4. ASSUME req[c].op # "list", issued' = issued PROVE Owns(c, req[c].id)
  <2>1. ASSUME NEW d \in Clients \ {c}, Creating(d) PROVE req[d].id # req[c].id
    BY <1>4, <2>1 DEF Inv
  <2> QED BY <1>3, <1>4, <2>1 DEF Owns
<1> QED BY <1>1, <1>2, <1>3, <1>4 DEF Inv, Unseen

\* A step after which client c waits on, with its request r.
LEMMA WaitKeeps ==
  ASSUME Inv, NEW c \in Clients, NEW r \in Requests, Wait(c, r),
         UNCHANGED <<up, avail, load, memory>>,
         disk' \in [Backends -> Stored], cache' \in [Pods -> Stored],
         \A b \in Backends, i \in Ids :
           disk'[b][i] = disk[b][i] \/ (r.op # "list" /\ i = r.id),
         issued' = issued \/ (issued' = issued \cup {r.id} /\ r.op # "list" /\ r.id \in Ids),
         Sound(c, r)', r.op # "list" => Owns(c, r.id),
         \A i \in Ids : Unseen(i) => r.items[i] = None,
         (r.op = "create" /\ r.phase = "store" /\ r.stage \in {"pg", "commit"}) =>
           /\ disk' = disk /\ Unseen(r.id)
           /\ \A d \in Clients \ {c} : (req[d] # None /\ req[d].op # "list") => req[d].id # r.id
  PROVE  Inv'
<1> DEFINE own == IF r.op = "list" THEN {} ELSE {r.id}
<1>0. issued \subseteq Ids /\ known \subseteq issued /\ memory \in [Pods -> Stored]
  BY DEF Inv, TypeOK, Stored
<1>1. req' = [req EXCEPT ![c] = r] /\ known' = known /\ memory' = memory
  BY DEF Wait
<1>2. /\ own \in SUBSET Ids /\ issued \subseteq issued' /\ issued' \subseteq Ids /\ known' \subseteq issued'
      /\ issued' \subseteq issued \cup own /\ \A id \in own : Owns(c, id)
  BY <1>0, <1>1 DEF Owns
<1>3. r.op # "list" => r.id \in own
  OBVIOUS
<1>4. \A id \in Ids \ own : r.op # "list" => id # r.id
  OBVIOUS
<1> HIDE DEF own
<1>5. ASSUME NEW id \in Ids \ own, Unseen(id)
      PROVE  /\ id \notin known'
             /\ \A b \in Backends : disk'[b][id] = None
             /\ \A p \in Pods : memory'[p][id] = None
             /\ r.items[id] = None
  BY <1>1, <1>4, <1>5 DEF Unseen
<1>6. ASSUME Creating(c)'
      PROVE  /\ Unseen(r.id)'
             /\ \A d \in Clients \ {c} : (req[d] # None /\ req[d].op # "list") => req[d].id # r.id
  <2>1. /\ req' \in [Clients -> Requests \cup {None}]
        /\ req'[c] = r /\ \A d \in Clients \ {c} : req'[d] = req[d]
    BY <1>1 DEF Inv, TypeOK
  <2>2. /\ disk' = disk /\ Unseen(r.id) /\ r.id \in Ids
        /\ \A d \in Clients \ {c} : (req[d] # None /\ req[d].op # "list") => req[d].id # r.id
    <3>1. r.op = "create" /\ r.phase = "store" /\ r.stage \in {"pg", "commit"}
      BY <1>6, <2>1 DEF Creating
    <3>2. r.id \in issued'
      BY <3>1 DEF Owns
    <3> QED BY <1>2, <3>1, <3>2
  <2>3. \A d \in Clients : req'[d] # None => req'[d].items[r.id] = None
    <3>1. r.items[r.id] = None
      BY <2>2
    <3> QED BY <2>1, <2>2, <3>1 DEF Unseen
  <2> QED BY <1>1, <2>2, <2>3 DEF Unseen
<1> QED BY <1>0, <1>1, <1>2, <1>3, <1>5, <1>6, StepKeeps, ZenonT(40)

\* A step that answers request q of client c.
LEMMA RespondKeeps ==
  ASSUME Inv, NEW c \in Clients, NEW q \in Requests, NEW status, NEW value,
         Respond(c, q, status, value),
         UNCHANGED <<up, avail, load, disk>>, cache' \in [Pods -> Stored],
         \/ memory' = memory
         \/ q.op # "list" /\ \E v \in Ctx \cup {None} : memory' = Put(memory, q.pod, q.id, v),
         issued' = issued \/ (issued' = issued \cup {q.id} /\ q.op # "list" /\ q.id \in Ids),
         q.op # "list" => Owns(c, q.id),
         (q.op = "list" /\ status = "ok") => \A i \in Ids : Unseen(i) => value[i] = None
  PROVE  Inv'
<1> DEFINE own == IF q.op = "list" THEN {} ELSE {q.id}
<1>0. issued \subseteq Ids /\ known \subseteq issued /\ memory \in [Pods -> Stored] /\ disk \in [Backends -> Stored]
  BY DEF Inv, TypeOK, Stored
<1>1. /\ req' = [req EXCEPT ![c] = None]
      /\ \/ known' = known
         \/ q.op # "list" /\ known' = known \cup {q.id}
         \/ q.op = "list" /\ status = "ok" /\ known' = known \cup {i \in Ids : value[i] # None}
  BY DEF Respond
<1>2. /\ own \in SUBSET Ids /\ issued \subseteq issued' /\ issued' \subseteq Ids
      /\ issued' \subseteq issued \cup own /\ \A id \in own : Owns(c, id)
  BY <1>0 DEF Owns
<1>3. q.op # "list" => q.id \in own /\ q.id \in issued'
  BY DEF Owns
<1> HIDE DEF own
<1>4. known' \subseteq issued'
  <2>1. CASE q.op = "list" /\ status = "ok" /\ known' = known \cup {i \in Ids : value[i] # None}
    <3>1. ASSUME NEW i \in Ids, value[i] # None PROVE i \in issued
      BY <2>1, <3>1 DEF Inv
    <3> QED BY <1>0, <1>2, <2>1, <3>1
  <2> QED BY <1>0, <1>1, <1>2, <1>3, <2>1
<1>5. memory' \in [Pods -> Stored] /\ \A i \in Ids \ own, p \in Pods : memory'[p][i] = memory[p][i]
  <2>1. CASE q.op # "list" /\ \E v \in Ctx \cup {None} : memory' = Put(memory, q.pod, q.id, v)
    <3>1. q.pod \in Pods /\ q.id \in Ids
      BY <1>2, <1>3, <2>1 DEF Requests
    <3>2. PICK v \in Ctx \cup {None} : memory' = Put(memory, q.pod, q.id, v)
      BY <2>1
    <3>3. /\ memory' \in [Pods -> Stored]
          /\ \A p \in Pods, i \in Ids : (p # q.pod \/ i # q.id) => memory'[p][i] = memory[p][i]
      BY <1>0, <3>1, <3>2, PutType
    <3> QED BY <1>3, <2>1, <3>3
  <2> QED BY <1>0, <2>1
<1>6. ASSUME NEW id \in Ids \ own, Unseen(id)
      PROVE  /\ id \notin known'
             /\ \A b \in Backends : disk'[b][id] = None
             /\ \A p \in Pods : memory'[p][id] = None
  BY <1>1, <1>3, <1>5, <1>6 DEF Unseen
<1>7. ~Creating(c)'
  BY <1>1 DEF Inv, TypeOK, Creating
<1> QED BY <1>0, <1>1, <1>2, <1>4, <1>5, <1>6, <1>7, StepKeeps, ZenonT(40)

-----------------------------------------------------------------------------
(* What the operations are built from.                                      *)

\* What a request has to be for the rest of its operation to be sound.
Fit(c, r) ==
  /\ r \in Requests /\ r.id \in Ids
  /\ r.pod \in load.pods /\ r.op \in load.ops[c]
  /\ r.op = "update" => r.body \in Updates
  /\ \A i \in Ids : Unseen(i) => r.items[i] = None

LEMMA StoreKeeps ==
  ASSUME Inv, NEW c \in Clients, NEW r, Fit(c, r), Store(c, r),
         UNCHANGED <<up, avail, load, disk>>, cache' \in [Pods -> Stored],
         r.op \in {"create", "update"}, r.new \in Ctx, Owns(c, r.id),
         issued' = issued \/ issued' = issued \cup {r.id},
         r.op = "create" =>
           /\ Unseen(r.id)
           /\ \A d \in Clients \ {c} : (req[d] # None /\ req[d].op # "list") => req[d].id # r.id
  PROVE  Inv'
<1>1. CASE First(r.pod) = "memory"
  <2>1. memory' = Put(memory, r.pod, r.id, r.new)
    BY <1>1 DEF Store, EndStore
  <2>2. Respond(c, r, "ok", r.new) \/ Respond(c, r, "500", None)
    BY <1>1 DEF Store, EndStore
  <2>3. r \in Requests /\ r.id \in Ids /\ r.op # "list"
    BY DEF Fit
  <2> QED BY <2>1, <2>2, <2>3, RespondKeeps
<1>2. CASE First(r.pod) # "memory"
  <2>1. PICK w \in Requests :
          /\ Wait(c, w) /\ memory' = memory
          /\ w.op = r.op /\ w.id = r.id /\ w.phase = "store"
          /\ w.pod = r.pod /\ w.new = r.new /\ w.body = r.body /\ w.items = r.items
    <3> DEFINE w == [r EXCEPT !.phase = "store", !.stage = First(r.pod)]
    <3>1. Wait(c, w) /\ memory' = memory
      BY <1>2 DEF Store
    <3>2. /\ w \in Requests /\ w.op = r.op /\ w.id = r.id /\ w.phase = "store"
          /\ w.pod = r.pod /\ w.new = r.new /\ w.body = r.body /\ w.items = r.items
      BY StageType DEF Fit, Requests
    <3> QED BY <3>1, <3>2
  <2>3. Sound(c, w)'
    BY <2>1 DEF Sound, Fit, Owns
  <2>4. disk' \in [Backends -> Stored]
    BY DEF Inv, TypeOK, Stored
  <2>5. w.op # "list" /\ w.id \in Ids /\ Owns(c, w.id)
    BY <2>1 DEF Fit
  <2>6. \A i \in Ids : Unseen(i) => w.items[i] = None
    BY <2>1 DEF Fit
  <2> QED BY <2>1, <2>3, <2>4, <2>5, <2>6, WaitKeeps
<1> QED BY <1>1, <1>2

LEMMA RemoveKeeps ==
  ASSUME Inv, NEW c \in Clients, NEW r, Fit(c, r), Remove(c, r),
         UNCHANGED <<up, avail, load, disk, issued>>, cache' \in [Pods -> Stored],
         r.op = "delete", Owns(c, r.id)
  PROVE  Inv'
<1>1. CASE First(r.pod) = "memory"
  <2>1. memory' = Put(memory, r.pod, r.id, None) /\ Respond(c, r, "ok", None)
    BY <1>1 DEF Remove, EndDelete
  <2>2. r \in Requests /\ r.op # "list"
    BY DEF Fit
  <2> QED BY <2>1, <2>2, RespondKeeps
<1>2. CASE First(r.pod) # "memory"
  <2>1. PICK w \in Requests :
          /\ Wait(c, w) /\ memory' = memory
          /\ w.op = r.op /\ w.id = r.id /\ w.phase = "remove"
          /\ w.pod = r.pod /\ w.new = r.new /\ w.body = r.body /\ w.items = r.items
    <3> DEFINE w == [r EXCEPT !.phase = "remove", !.stage = First(r.pod)]
    <3>1. Wait(c, w) /\ memory' = memory
      BY <1>2 DEF Remove
    <3>2. /\ w \in Requests /\ w.op = r.op /\ w.id = r.id /\ w.phase = "remove"
          /\ w.pod = r.pod /\ w.new = r.new /\ w.body = r.body /\ w.items = r.items
      BY StageType DEF Fit, Requests
    <3> QED BY <3>1, <3>2
  <2>3. Sound(c, w)'
    BY <2>1 DEF Sound, Fit, Owns
  <2>4. disk' \in [Backends -> Stored]
    BY DEF Inv, TypeOK, Stored
  <2>5. w.op # "list" /\ w.op # "create" /\ w.id \in Ids /\ Owns(c, w.id)
    BY <2>1 DEF Fit
  <2>6. \A i \in Ids : Unseen(i) => w.items[i] = None
    BY <2>1 DEF Fit
  <2> QED BY <2>1, <2>3, <2>4, <2>5, <2>6, WaitKeeps
<1> QED BY <1>1, <1>2

LEMMA FoundKeeps ==
  ASSUME Inv, NEW c \in Clients, NEW r, Fit(c, r), r.op \in {"get", "update", "delete"},
         NEW v \in Ctx \cup {None}, NEW filled \in [Pods -> Stored], Found(c, r, v, filled),
         UNCHANGED <<up, avail, load, disk, issued>>, Owns(c, r.id)
  PROVE  Inv'
<1>0. r \in Requests /\ r.id \in Ids /\ r.pod \in Pods /\ None \notin Ctx
  BY NoneAssumption DEF Fit, Requests
<1>1. CASE v = None \/ r.op = "get"
  <2>1. cache' = filled /\ memory' = memory /\ (Respond(c, r, "404", None) \/ Respond(c, r, "ok", v))
    BY <1>1 DEF Found
  <2> QED BY <1>0, <2>1, RespondKeeps
<1>2. CASE v # None /\ r.op = "update"
  <2> DEFINE m == Merge(v, r.body)
             w == [r EXCEPT !.old = v, !.new = m]
  <2>1. cache' = Put(filled, r.pod, r.id, m) /\ Store(c, w)
    BY <1>2 DEF Found
  <2>2. m \in Ctx
    BY <1>2, BodyType DEF Fit
  <2> HIDE DEF m
  <2>3. /\ w \in Requests /\ w.op = r.op /\ w.id = r.id /\ w.new = m
        /\ w.pod = r.pod /\ w.body = r.body /\ w.items = r.items
    BY <1>0, <2>2 DEF Requests
  <2> HIDE DEF w
  <2>4. cache' \in [Pods -> Stored]
    BY <1>0, <2>1, <2>2, PutType
  <2>5. Fit(c, w)
    BY <2>3 DEF Fit
  <2> QED BY <1>2, <2>1, <2>2, <2>3, <2>4, <2>5, StoreKeeps
<1>3. CASE v # None /\ r.op = "delete"
  <2> DEFINE w == [r EXCEPT !.old = v]
  <2>1. cache' = Put(filled, r.pod, r.id, None) /\ Remove(c, w)
    BY <1>3 DEF Found
  <2>2. /\ w \in Requests /\ w.op = r.op /\ w.id = r.id
        /\ w.pod = r.pod /\ w.body = r.body /\ w.items = r.items
    BY <1>0 DEF Requests
  <2> HIDE DEF w
  <2>3. cache' \in [Pods -> Stored]
    BY <1>0, <2>1, PutType
  <2>4. Fit(c, w)
    BY <2>2 DEF Fit
  <2> QED BY <1>3, <2>1, <2>2, <2>3, <2>4, RemoveKeeps
<1> QED BY <1>1, <1>2, <1>3

LEMMA TakenKeeps ==
  ASSUME Inv, NEW c \in Clients, NEW r, Fit(c, r), r.op \in {"get", "update", "delete"},
         NEW v \in Ctx \cup {None}, Taken(c, r, v),
         UNCHANGED <<up, avail, load, disk, issued>>, Owns(c, r.id)
  PROVE  Inv'
<1>1. cache \in [Pods -> Stored] /\ r \in Requests
  BY DEF Inv, TypeOK, Stored, Fit
<1>2. CASE Found(c, r, v, cache)
  BY <1>1, <1>2, FoundKeeps
<1>3. CASE Respond(c, r, "500", None) /\ UNCHANGED <<memory, cache>>
  BY <1>1, <1>3, RespondKeeps
<1> QED BY <1>2, <1>3 DEF Taken

LEMMA ListMemoryKeeps ==
  ASSUME Inv, NEW c \in Clients, NEW r \in Requests, r.op = "list", r.pod \in Pods, ListMemory(c, r),
         UNCHANGED <<up, avail, load, disk, issued>>
  PROVE  Inv'
<1>1. cache' \in [Pods -> Stored] /\ memory' = memory
  BY DEF ListMemory, Inv, TypeOK, Stored
<1>2. PICK status, value : /\ Respond(c, r, status, value)
                           /\ status = "ok" => value = memory[r.pod]
  BY DEF ListMemory
<1>3. status = "ok" => \A i \in Ids : Unseen(i) => value[i] = None
  BY <1>2 DEF Unseen
<1> QED BY <1>1, <1>2, <1>3, RespondKeeps

-----------------------------------------------------------------------------
(* The operations.                                                          *)

LEMMA CreateKeeps ==
  ASSUME Inv, NEW c \in Clients, NEW p \in load.pods, NEW id \in load.ids[c], NEW body \in Creates,
         "create" \in load.ops[c], Create(c, p, id, body)
  PROVE  Inv'
<1>1. p \in Pods /\ id \in Ids /\ id \notin issued /\ issued' = issued \cup {id} /\ body \in Ctx
  BY LoadType, BodyType DEF Inv, Create
<1> DEFINE n == NewReq(p, "create", id, body)
           r == [n EXCEPT !.new = body]
<1>2. /\ n \in Requests /\ n.pod = p /\ n.op = "create" /\ n.id = id
      /\ \A i \in Ids : n.items[i] = None
  BY <1>1, NewReqType DEF Operations
<1>3. /\ r \in Requests /\ r.pod = p /\ r.op = "create" /\ r.id = id /\ r.new = body
      /\ \A i \in Ids : r.items[i] = None
  <2> HIDE DEF n
  <2> QED BY <1>1, <1>2 DEF Requests
<1>4. Store(c, r) /\ cache' = Put(cache, p, id, body) /\ UNCHANGED <<up, avail, load, disk>>
  BY DEF Create, env
<1> HIDE DEF r
<1>5. cache' \in [Pods -> Stored]
  BY <1>1, <1>4, PutType DEF Inv, TypeOK, Stored
<1>6. Unseen(id)
  BY <1>1 DEF Inv
<1>7. \A d \in Clients : (req[d] # None /\ req[d].op # "list") => req[d].id # id
  BY <1>1, OwnRequest DEF Sound
<1>8. Owns(c, id)
  BY <1>1, <1>7 DEF Owns, Creating
<1>9. Fit(c, r)
  BY <1>1, <1>3 DEF Fit
<1> QED BY <1>1, <1>3, <1>4, <1>5, <1>6, <1>7, <1>8, <1>9, StoreKeeps

LEMMA LookupKeeps ==
  ASSUME Inv, NEW c \in Clients, NEW p \in load.pods, NEW id \in known \cap load.ids[c],
         NEW op \in {"get", "update", "delete"}, op \in load.ops[c],
         NEW body \in Updates \cup {None}, op = "update" => body \in Updates,
         Lookup(c, p, op, id, body)
  PROVE  Inv'
<1>1. /\ p \in Pods /\ id \in Ids /\ id \in issued
      /\ UNCHANGED <<up, avail, load, disk, issued>>
  BY LoadType DEF Inv, TypeOK, Lookup, env
<1>2. PICK r : r = NewReq(p, op, id, body)
  OBVIOUS
<1>3. /\ r \in Requests /\ r.pod = p /\ r.op = op /\ r.id = id /\ r.body = body /\ r.phase = "read"
      /\ \A i \in Ids : r.items[i] = None
  BY <1>1, <1>2, NewReqType DEF Operations
<1>4. Owns(c, id)
  <2>1. ~Unseen(id)
    BY DEF Unseen
  <2>2. \A d \in Clients : Creating(d) => req[d].id # id
    BY <2>1 DEF Inv
  <2> QED BY <1>1, <2>2 DEF Owns
<1>5. Fit(c, r)
  BY <1>1, <1>3 DEF Fit
<1>6. CASE cache[p][id] # None /\ Taken(c, r, cache[p][id])
  <2>1. cache[p][id] \in Ctx \cup {None}
    BY <1>1 DEF Inv, TypeOK
  <2> QED BY <1>1, <1>3, <1>4, <1>5, <1>6, <2>1, TakenKeeps
<1>7. CASE Taken(c, r, memory[p][id])
  <2>1. memory[p][id] \in Ctx \cup {None}
    BY <1>1 DEF Inv, TypeOK
  <2> QED BY <1>1, <1>3, <1>4, <1>5, <1>7, <2>1, TakenKeeps
<1>8. CASE Wait(c, r) /\ UNCHANGED <<memory, cache>>
  <2>1. disk' \in [Backends -> Stored] /\ cache' \in [Pods -> Stored]
    BY <1>1, <1>8 DEF Inv, TypeOK, Stored
  <2>2. Sound(c, r)'
    BY <1>1, <1>3 DEF Sound
  <2> QED BY <1>1, <1>3, <1>4, <1>8, <2>1, <2>2, WaitKeeps
<1> QED BY <1>2, <1>6, <1>7, <1>8 DEF Lookup

LEMMA ListKeeps ==
  ASSUME Inv, NEW c \in Clients, NEW p \in load.pods, "list" \in load.ops[c], List(c, p)
  PROVE  Inv'
<1>1. p \in Pods /\ UNCHANGED <<up, avail, load, disk, issued>> /\ known \in SUBSET Ids
  BY LoadType DEF Inv, TypeOK, List, env
<1>2. PICK r \in Requests :
        /\ r.pod = p /\ r.op = "list" /\ r.phase = "list"
        /\ \A i \in Ids : r.items[i] = None
        /\ IF First(p) = "memory" THEN ListMemory(c, r) ELSE Wait(c, r) /\ UNCHANGED <<memory, cache>>
  <2> DEFINE n == NewReq(p, "list", None, None)
             r == [n EXCEPT !.phase = "list", !.seen = known]
  <2>1. n \in Requests /\ n.pod = p /\ n.op = "list" /\ \A i \in Ids : n.items[i] = None
    BY <1>1, NewReqType DEF Operations
  <2>2. IF First(p) = "memory" THEN ListMemory(c, r) ELSE Wait(c, r) /\ UNCHANGED <<memory, cache>>
    BY DEF List
  <2> HIDE DEF n
  <2>3. /\ r \in Requests /\ r.pod = p /\ r.op = "list" /\ r.phase = "list"
        /\ \A i \in Ids : r.items[i] = None
    BY <1>1, <2>1 DEF Requests
  <2> QED BY <2>2, <2>3
<1>3. CASE ListMemory(c, r)
  BY <1>1, <1>2, <1>3, ListMemoryKeeps
<1>4. CASE Wait(c, r) /\ UNCHANGED <<memory, cache>>
  <2>1. disk' \in [Backends -> Stored] /\ cache' \in [Pods -> Stored]
    BY <1>1, <1>4 DEF Inv, TypeOK, Stored
  <2>2. Sound(c, r)'
    BY <1>1, <1>2 DEF Sound
  <2> QED BY <1>1, <1>2, <1>4, <2>1, <2>2, WaitKeeps
<1> QED BY <1>2, <1>3, <1>4

LEMMA ArriveKeeps ==
  ASSUME Inv, NEW c \in Clients, Arrive(c)
  PROVE  Inv'
<1>1. PICK p \in load.pods :
        \/ /\ "create" \in load.ops[c]
           /\ \E id \in load.ids[c], body \in Creates : Create(c, p, id, body)
        \/ "list" \in load.ops[c] /\ List(c, p)
        \/ \E id \in known \cap load.ids[c] :
             \/ \E op \in load.ops[c] \cap {"get", "delete"} : Lookup(c, p, op, id, None)
             \/ /\ "update" \in load.ops[c]
                /\ \E body \in load.updates : Lookup(c, p, "update", id, body)
  BY DEF Arrive
<1>2. CASE /\ "create" \in load.ops[c]
           /\ \E id \in load.ids[c], body \in Creates : Create(c, p, id, body)
  BY <1>2, CreateKeeps
<1>3. CASE "list" \in load.ops[c] /\ List(c, p)
  BY <1>3, ListKeeps
<1>4. ASSUME NEW id \in known \cap load.ids[c],
             NEW op \in load.ops[c] \cap {"get", "delete"}, Lookup(c, p, op, id, None)
      PROVE  Inv'
  BY <1>4, LookupKeeps
<1>5. ASSUME NEW id \in known \cap load.ids[c], "update" \in load.ops[c],
             NEW body \in load.updates, Lookup(c, p, "update", id, body)
      PROVE  Inv'
  <2>1. body \in Updates
    BY <1>5, LoadType DEF Inv
  <2> QED BY <1>5, <2>1, LookupKeeps
<1> QED BY <1>1, <1>2, <1>3, <1>4, <1>5

\* A waiting request that only moves on.
MovesTo(c, r) ==
  /\ req[c] # None /\ r \in Requests /\ Move(c, r)
  /\ r.op = req[c].op /\ r.id = req[c].id /\ r.pod = req[c].pod /\ r.body = req[c].body
  /\ r.new = req[c].new
  /\ r.phase = req[c].phase \/ (req[c].phase = "read" /\ r.phase = "reply")
  /\ \A i \in Ids : Unseen(i) => r.items[i] = None
  /\ (r.stage \in {"pg", "commit"} /\ r.phase = "store") => req[c].stage \in {"pg", "commit"}

MovesOn(c) == \E r : MovesTo(c, r)

LEMMA MoveKeeps ==
  ASSUME Inv, NEW c \in Clients, MovesOn(c)
  PROVE  Inv'
<1> PICK r : MovesTo(c, r)
  BY DEF MovesOn
<1> USE DEF MovesTo
<1>1. Wait(c, r) /\ UNCHANGED <<up, avail, load, disk, memory, cache, issued>>
  BY DEF Move, env, stores
<1>2. disk' \in [Backends -> Stored] /\ cache' \in [Pods -> Stored]
  BY <1>1 DEF Inv, TypeOK, Stored
<1>3. Sound(c, r)'
  BY <1>1, OwnRequest DEF Sound
<1>4. r.op # "list" => Owns(c, r.id)
  BY <1>1, OwnRequest
<1>5. ASSUME r.op = "create", r.phase = "store", r.stage \in {"pg", "commit"}
      PROVE  /\ Unseen(r.id)
             /\ \A d \in Clients \ {c} : (req[d] # None /\ req[d].op # "list") => req[d].id # r.id
  <2>1. Creating(c)
    BY <1>5 DEF Creating
  <2> QED BY <2>1, OwnRequest
<1> QED BY <1>1, <1>2, <1>3, <1>4, <1>5, WaitKeeps

LEMMA GoneOn ==
  ASSUME NEW q \in Requests, NEW s \in Stages
  PROVE  LET r == [q EXCEPT !.stage = s, !.row = None, !.tries = 0] IN
         /\ r \in Requests /\ r.op = q.op /\ r.id = q.id /\ r.pod = q.pod
         /\ r.body = q.body /\ r.new = q.new /\ r.phase = q.phase /\ r.items = q.items
         /\ r.stage = s
<1>1. 0 \in 0 .. RetryAttempts - 1
  BY RetryAssumption
<1> QED BY <1>1 DEF Requests

LEMMA GoOnMoves ==
  ASSUME Inv, NEW c \in Clients, req[c] # None, GoOn(c)
  PROVE  MovesOn(c)
<1>1. req[c] \in Requests /\ \A i \in Ids : Unseen(i) => req[c].items[i] = None
  BY OwnRequest
<1>2. After(req[c].pod, req[c].stage) \in Stages /\ After(req[c].pod, req[c].stage) \notin {"pg", "commit"}
  BY StageType
<1>3. PICK r \in Requests :
        /\ r.op = req[c].op /\ r.id = req[c].id /\ r.pod = req[c].pod
        /\ r.body = req[c].body /\ r.new = req[c].new /\ r.phase = req[c].phase /\ r.items = req[c].items
        /\ r.stage \notin {"pg", "commit"}
        /\ Move(c, r)
  BY <1>1, <1>2, GoneOn, ZenonT(40) DEF GoOn
<1> QED BY <1>1, <1>3 DEF MovesTo, MovesOn

LEMMA ReadMoves ==
  ASSUME Inv, NEW c \in Clients, ReadBackend(c)
  PROVE  MovesOn(c)
<1>1. PICK b \in Backends :
        /\ At(c, "read", b)
        /\ \/ Move(c, [req[c] EXCEPT !.phase = "reply", !.old = disk[b][req[c].id]])
           \/ GoOn(c)
  BY DEF ReadBackend
<1>2. /\ req[c] # None /\ req[c].phase = "read" /\ req[c] \in Requests
      /\ Sound(c, req[c]) /\ req[c].id \in Ids
      /\ \A i \in Ids : Unseen(i) => req[c].items[i] = None
  BY <1>1, OwnRequest DEF At, Sound
<1>3. disk[b][req[c].id] \in Ctx \cup {None}
  BY <1>2 DEF Inv, TypeOK
<1>4. CASE Move(c, [req[c] EXCEPT !.phase = "reply", !.old = disk[b][req[c].id]])
  <2>1. PICK v \in Ctx \cup {None} : v = disk[b][req[c].id]
    BY <1>3
  <2>2. PICK r : r = [req[c] EXCEPT !.phase = "reply", !.old = v]
    OBVIOUS
  <2>3. /\ r \in Requests /\ r.op = req[c].op /\ r.id = req[c].id /\ r.pod = req[c].pod
        /\ r.body = req[c].body /\ r.new = req[c].new /\ r.phase = "reply" /\ r.items = req[c].items
    BY <1>2, <2>2 DEF Requests
  <2>4. Move(c, r)
    BY <1>4, <2>1, <2>2
  <2> QED BY <1>2, <2>3, <2>4 DEF MovesTo, MovesOn
<1> QED BY <1>1, <1>2, <1>4, GoOnMoves

LEMMA ResumeKeeps ==
  ASSUME Inv, NEW c \in Clients, Resume(c)
  PROVE  Inv'
<1>1. PICK r \in Requests, v \in Ctx \cup {None} : r = req[c] /\ v = r.old
  BY OwnRequest DEF Resume, Requests
<1>2. /\ req[c] # None /\ r.phase = "reply" /\ UNCHANGED <<up, avail, load, disk, issued>>
      /\ Found(c, r, v, IF v = None THEN cache ELSE Put(cache, r.pod, r.id, v))
  BY <1>1 DEF Resume, env
<1>3. r.op \in {"get", "update", "delete"} /\ Fit(c, r) /\ Owns(c, r.id) /\ r.pod \in Pods /\ r.id \in Ids
  BY <1>1, <1>2, OwnRequest DEF Fit, Sound
<1>4. (IF v = None THEN cache ELSE Put(cache, r.pod, r.id, v)) \in [Pods -> Stored]
  BY <1>3, PutType DEF Inv, TypeOK, Stored
<1> QED BY <1>2, <1>3, <1>4, FoundKeeps

LEMMA ReadMemoryKeeps ==
  ASSUME Inv, NEW c \in Clients, ReadMemory(c)
  PROVE  Inv'
<1>1. PICK r \in Requests : r = req[c] /\ req[c] # None
  BY OwnRequest DEF ReadMemory, At
<1>2. /\ r.phase = "read" /\ UNCHANGED <<up, avail, load, disk, issued>>
      /\ Taken(c, r, memory[r.pod][r.id])
  BY <1>1 DEF ReadMemory, env, At
<1>3. r.op \in {"get", "update", "delete"} /\ Fit(c, r) /\ Owns(c, r.id) /\ r.pod \in Pods /\ r.id \in Ids
  BY <1>1, <1>2, OwnRequest DEF Fit, Sound
<1>4. memory[r.pod][r.id] \in Ctx \cup {None}
  BY <1>3 DEF Inv, TypeOK
<1> QED BY <1>2, <1>3, <1>4, TakenKeeps

LEMMA LoadRowMoves ==
  ASSUME Inv, NEW c \in Clients, LoadRow(c)
  PROVE  MovesOn(c)
<1>1. /\ req[c] # None /\ req[c].stage = "pg" /\ req[c].phase \in {"store", "remove"} /\ req[c] \in Requests
      /\ Sound(c, req[c]) /\ req[c].id \in Ids
      /\ \A i \in Ids : Unseen(i) => req[c].items[i] = None
  BY OwnRequest DEF LoadRow, At, Sound
<1>2. CASE Move(c, [req[c] EXCEPT !.stage = "commit", !.row = disk["pg"][req[c].id]])
  <2>1. PICK v \in Ctx \cup {None} : v = disk["pg"][req[c].id]
    BY <1>1 DEF Inv, TypeOK, Backends
  <2>2. PICK r : r = [req[c] EXCEPT !.stage = "commit", !.row = v]
    OBVIOUS
  <2>3. /\ r \in Requests /\ r.op = req[c].op /\ r.id = req[c].id /\ r.pod = req[c].pod
        /\ r.body = req[c].body /\ r.new = req[c].new /\ r.phase = req[c].phase /\ r.items = req[c].items
    BY <1>1, <2>2 DEF Requests
  <2>4. Move(c, r)
    BY <1>2, <2>1, <2>2
  <2> QED BY <1>1, <2>3, <2>4 DEF MovesTo, MovesOn
<1> QED BY <1>1, <1>2, GoOnMoves DEF LoadRow
\* A request that writes, after its row, stage or number of attempts changed.
Onward(q, r) ==
  /\ r \in Requests /\ r.op = q.op /\ r.id = q.id /\ r.pod = q.pod
  /\ r.body = q.body /\ r.new = q.new /\ r.phase = q.phase /\ r.items = q.items

LEMMA OnwardType ==
  ASSUME NEW q \in Requests, NEW s \in Stages
  PROVE  /\ Onward(q, [q EXCEPT !.stage = s, !.row = None]) /\ [q EXCEPT !.stage = s, !.row = None].stage = s
         /\ Onward(q, [q EXCEPT !.stage = s, !.tries = 0]) /\ [q EXCEPT !.stage = s, !.tries = 0].stage = s
<1>1. 0 \in 0 .. RetryAttempts - 1
  BY RetryAssumption
<1> QED BY <1>1, ZenonT(40) DEF Requests, Onward

LEMMA RetryType ==
  ASSUME NEW q \in Requests, q.stage = "redis"
  PROVE  Onward(q, Retry(q)) /\ Retry(q).stage \notin {"pg", "commit"}
<1>1. CASE q.tries + 1 < RetryAttempts
  <2>1. q.tries \in 0 .. RetryAttempts - 1
    BY DEF Requests
  <2>2. q.tries + 1 \in 0 .. RetryAttempts - 1
    BY <1>1, <2>1, RetryAssumption
  <2>3. Onward(q, [q EXCEPT !.tries = q.tries + 1]) /\ [q EXCEPT !.tries = q.tries + 1].stage = q.stage
    BY <2>2 DEF Requests, Onward
  <2> QED BY <1>1, <2>3 DEF Retry
<1>2. CASE ~(q.tries + 1 < RetryAttempts)
  <2>1. After(q.pod, "redis") \in Stages /\ After(q.pod, "redis") \notin {"pg", "commit"}
    BY StageType
  <2> QED BY <1>2, <2>1, OnwardType DEF Retry
<1> QED BY <1>1, <1>2

\* A step in which a request writes a backend, or fails to.
WritesTo(c, r) ==
  /\ req[c] # None /\ req[c].phase \in {"store", "remove"}
  /\ Onward(req[c], r) /\ r.stage \notin {"pg", "commit"} /\ Wait(c, r)
  /\ UNCHANGED <<up, avail, load, memory, cache, issued>>
  /\ disk' = disk \/ \E b \in Backends, v \in Ctx \cup {None} : disk' = Put(disk, b, req[c].id, v)

WritesOn(c) == \E r : WritesTo(c, r)

LEMMA WriteKeeps ==
  ASSUME Inv, NEW c \in Clients, WritesOn(c)
  PROVE  Inv'
<1> PICK r : WritesTo(c, r)
  BY DEF WritesOn
<1> USE DEF WritesTo
<1>1. r \in Requests /\ r.id = req[c].id /\ Sound(c, req[c]) /\ r.op # "list" /\ r.id \in Ids
  BY OwnRequest DEF Onward, Sound
<1>2. /\ disk' \in [Backends -> Stored]
      /\ \A b \in Backends, i \in Ids : disk'[b][i] = disk[b][i] \/ i = r.id
  <2>1. disk \in [Backends -> Stored]
    BY DEF Inv, TypeOK, Stored
  <2>2. ASSUME NEW b \in Backends, NEW v \in Ctx \cup {None}, disk' = Put(disk, b, r.id, v)
        PROVE  /\ disk' \in [Backends -> Stored]
               /\ \A d \in Backends, i \in Ids : disk'[d][i] = disk[d][i] \/ i = r.id
    BY <1>1, <2>1, <2>2, PutType
  <2> QED BY <1>1, <2>1, <2>2
<1>3. cache' \in [Pods -> Stored] /\ Owns(c, r.id)
  <2>1. req[c].op # "list" /\ issued' = issued
    BY <1>1 DEF Onward
  <2>2. Owns(c, req[c].id)
    BY <2>1, OwnRequest
  <2>3. cache' \in [Pods -> Stored]
    BY DEF Inv, TypeOK, Stored
  <2> QED BY <1>1, <2>2, <2>3
<1>4. Sound(c, r)'
  BY <1>1 DEF Sound, Onward
<1>5. \A i \in Ids : Unseen(i) => r.items[i] = None
  BY OwnRequest DEF Onward
<1> QED BY <1>1, <1>2, <1>3, <1>4, <1>5, WaitKeeps

LEMMA CommitStoreWrites ==
  ASSUME Inv, NEW c \in Clients, CommitStore(c)
  PROVE  WritesOn(c)
<1>1. /\ req[c] # None /\ req[c].phase = "store" /\ req[c] \in Requests
      /\ Sound(c, req[c]) /\ req[c].id \in Ids
  BY OwnRequest DEF CommitStore, At, Sound
<1>2. PICK q \in Requests : q = req[c]
  BY <1>1
<1>3. q.new \in Ctx /\ q.row \in Ctx \cup {None} /\ q.id \in Ids /\ disk["pg"][q.id] \in Ctx \cup {None}
  BY <1>1, <1>2 DEF Sound, Requests, Inv, TypeOK, Backends
<1>4. PICK r : r = [q EXCEPT !.stage = After(q.pod, "pg"), !.row = None]
  OBVIOUS
<1>5. Onward(q, r) /\ r.stage \notin {"pg", "commit"}
  <2>1. After(q.pod, "pg") \in Stages /\ After(q.pod, "pg") \notin {"pg", "commit"}
    BY StageType
  <2> QED BY <1>4, <2>1, OnwardType
<1>6. Wait(c, r) /\ UNCHANGED <<up, avail, load, memory, cache, issued>>
  BY <1>2, <1>4 DEF CommitStore, env
<1>7. \/ disk' = disk
      \/ /\ q.row = None <=> disk["pg"][q.id] = None
         /\ disk' = Put(disk, "pg", q.id, CommitRow(disk["pg"][q.id], q.row, q.new))
  BY <1>2 DEF CommitStore
<1>8. (q.row = None <=> disk["pg"][q.id] = None) => CommitRow(disk["pg"][q.id], q.row, q.new) \in Ctx
  BY <1>3 DEF CommitRow, Ctx
<1>9. disk' = disk \/ \E b \in Backends, v \in Ctx \cup {None} : disk' = Put(disk, b, q.id, v)
  BY <1>7, <1>8 DEF Backends
<1> QED BY <1>1, <1>2, <1>5, <1>6, <1>9 DEF WritesTo, WritesOn

LEMMA CommitDeleteWrites ==
  ASSUME Inv, NEW c \in Clients, CommitDelete(c)
  PROVE  WritesOn(c)
<1>1. req[c] # None /\ req[c].phase = "remove" /\ req[c] \in Requests
  BY OwnRequest DEF CommitDelete, At
<1>2. PICK q \in Requests : q = req[c]
  BY <1>1
<1>3. PICK r : r = [q EXCEPT !.stage = After(q.pod, "pg"), !.row = None]
  OBVIOUS
<1>4. Onward(q, r) /\ r.stage \notin {"pg", "commit"}
  <2>1. After(q.pod, "pg") \in Stages /\ After(q.pod, "pg") \notin {"pg", "commit"}
    BY StageType
  <2> QED BY <1>3, <2>1, OnwardType
<1>5. Wait(c, r) /\ UNCHANGED <<up, avail, load, memory, cache, issued>>
  BY <1>2, <1>3 DEF CommitDelete, env
<1>6. disk' = disk \/ \E b \in Backends, v \in Ctx \cup {None} : disk' = Put(disk, b, q.id, v)
  BY <1>2 DEF CommitDelete, Backends
<1> QED BY <1>1, <1>2, <1>4, <1>5, <1>6 DEF WritesTo, WritesOn

LEMMA WriteRedisWrites ==
  ASSUME Inv, NEW c \in Clients, WriteRedis(c)
  PROVE  WritesOn(c)
<1>1. /\ req[c] # None /\ req[c].phase \in {"store", "remove"} /\ req[c] \in Requests
      /\ req[c].stage = "redis"
  BY OwnRequest DEF WriteRedis, At
<1>2. PICK q \in Requests : q = req[c]
  BY <1>1
<1>3. UNCHANGED <<up, avail, load, memory, cache, issued>>
  BY DEF WriteRedis
<1>4. q.new \in Ctx \cup {None} /\ disk' = Put(disk, "redis", q.id, q.new)
  BY <1>2 DEF WriteRedis, Requests
<1>5. PICK r : Wait(c, r) /\ (r = [q EXCEPT !.stage = After(q.pod, "redis"), !.tries = 0] \/ r = Retry(q))
  BY <1>2 DEF WriteRedis
<1>6. Onward(q, r) /\ r.stage \notin {"pg", "commit"}
  <2>1. After(q.pod, "redis") \in Stages /\ After(q.pod, "redis") \notin {"pg", "commit"}
    BY StageType
  <2>2. CASE r = [q EXCEPT !.stage = After(q.pod, "redis"), !.tries = 0]
    BY <2>1, <2>2, OnwardType
  <2>3. CASE r = Retry(q)
    BY <1>1, <1>2, <2>3, RetryType
  <2> QED BY <1>5, <2>2, <2>3
<1> QED BY <1>1, <1>2, <1>3, <1>4, <1>5, <1>6 DEF WritesTo, WritesOn, Backends

LEMMA FailRedisWrites ==
  ASSUME Inv, NEW c \in Clients, FailRedis(c)
  PROVE  WritesOn(c)
<1>1. /\ req[c] # None /\ req[c].phase \in {"store", "remove"} /\ req[c] \in Requests
      /\ req[c].stage = "redis"
  BY OwnRequest DEF FailRedis, At
<1>2. PICK r : r = Retry(req[c])
  OBVIOUS
<1>3. Onward(req[c], r) /\ r.stage \notin {"pg", "commit"}
  BY <1>1, <1>2, RetryType
<1>4. Wait(c, r) /\ disk' = disk /\ UNCHANGED <<up, avail, load, memory, cache, issued>>
  BY <1>2 DEF FailRedis, Move, env, stores
<1> QED BY <1>1, <1>3, <1>4 DEF WritesTo, WritesOn

LEMMA WriteMemoryKeeps ==
  ASSUME Inv, NEW c \in Clients, WriteMemory(c)
  PROVE  Inv'
<1>1. /\ req[c] # None /\ req[c].phase \in {"store", "remove"} /\ req[c] \in Requests
      /\ Sound(c, req[c])
  BY OwnRequest DEF WriteMemory, At
<1>2. PICK q \in Requests : q = req[c]
  BY <1>1
<1>3. q.op # "list" /\ q.id \in Ids /\ UNCHANGED <<up, avail, load, disk, cache, issued>>
  BY <1>1, <1>2, OwnRequest DEF Sound, WriteMemory, env
<1>4. Owns(c, q.id) /\ cache' \in [Pods -> Stored]
  BY <1>2, <1>3, OwnRequest, <1>1 DEF Inv, TypeOK, Stored
<1>5. q.new \in Ctx \cup {None}
  BY DEF Requests
<1>6. CASE EndStore(c, q)
  <2>1. memory' = Put(memory, q.pod, q.id, q.new)
    BY <1>6 DEF EndStore
  <2>2. Respond(c, q, "ok", q.new) \/ Respond(c, q, "500", None)
    BY <1>6 DEF EndStore
  <2> QED BY <1>3, <1>4, <1>5, <2>1, <2>2, RespondKeeps
<1>7. CASE EndDelete(c, q)
  <2>1. memory' = Put(memory, q.pod, q.id, None) /\ Respond(c, q, "ok", None)
    BY <1>7 DEF EndDelete
  <2> QED BY <1>3, <1>4, <2>1, RespondKeeps
<1> QED BY <1>2, <1>6, <1>7 DEF WriteMemory

LEMMA ListPgKeeps ==
  ASSUME Inv, NEW c \in Clients, ListPg(c)
  PROVE  Inv'
<1>1. /\ req[c] # None /\ req[c].op = "list" /\ req[c] \in Requests
  BY OwnRequest DEF ListPg, At, Sound
<1>2. CASE Respond(c, req[c], "ok", disk["pg"]) /\ UNCHANGED <<env, stores, issued>>
  <2>1. PICK q \in Requests : q = req[c]
    BY <1>1
  <2>2. UNCHANGED <<up, avail, load, disk, memory, issued>> /\ cache' \in [Pods -> Stored]
    BY <1>2 DEF env, stores, Inv, TypeOK, Stored
  <2>3. PICK value : value = disk["pg"]
    OBVIOUS
  <2>4. \A i \in Ids : Unseen(i) => value[i] = None
    BY <2>3 DEF Unseen, Backends
  <2> QED BY <1>1, <1>2, <2>1, <2>2, <2>3, <2>4, RespondKeeps
<1> QED BY <1>1, <1>2, GoOnMoves, MoveKeeps DEF ListPg

LEMMA ListKeysMoves ==
  ASSUME Inv, NEW c \in Clients, ListKeys(c)
  PROVE  MovesOn(c)
<1>1. /\ req[c] # None /\ req[c].phase = "list" /\ req[c] \in Requests
      /\ \A i \in Ids : Unseen(i) => req[c].items[i] = None
  BY OwnRequest DEF ListKeys, At
<1>2. CASE Move(c, [req[c] EXCEPT !.stage = "keys", !.left = {i \in Ids : disk["redis"][i] # None}])
  <2>1. PICK S \in SUBSET Ids : S = {i \in Ids : disk["redis"][i] # None}
    OBVIOUS
  <2>2. PICK r : r = [req[c] EXCEPT !.stage = "keys", !.left = S]
    OBVIOUS
  <2>3. /\ r \in Requests /\ r.op = req[c].op /\ r.id = req[c].id /\ r.pod = req[c].pod
        /\ r.body = req[c].body /\ r.new = req[c].new /\ r.phase = req[c].phase /\ r.items = req[c].items
        /\ r.stage = "keys"
    BY <1>1, <2>2 DEF Requests
  <2>4. Move(c, r)
    BY <1>2, <2>1, <2>2
  <2> QED BY <1>1, <2>3, <2>4 DEF MovesTo, MovesOn
<1> QED BY <1>1, <1>2, GoOnMoves DEF ListKeys

LEMMA ListKeyMoves ==
  ASSUME Inv, NEW c \in Clients, NEW id \in Ids, ListKey(c, id)
  PROVE  MovesOn(c)
<1>1. /\ req[c] # None /\ req[c].phase = "list" /\ req[c] \in Requests /\ req[c].stage = "keys"
      /\ \A i \in Ids : Unseen(i) => req[c].items[i] = None
  BY OwnRequest DEF ListKey, At
<1>2. PICK v \in Ctx \cup {None} :
        /\ v = IF up["redis"] /\ Readable("redis", id) THEN disk["redis"][id] ELSE None
        /\ Unseen(id) => v = None
  BY DEF Inv, TypeOK, Backends, Unseen
<1>3. PICK q \in Requests : q = req[c]
  BY <1>1
<1>4. PICK left \in SUBSET Ids, items \in [Ids -> Ctx \cup {None}] :
        left = q.left \ {id} /\ items = [q.items EXCEPT ![id] = v]
  BY DEF Requests
<1>5. \A i \in Ids : Unseen(i) => items[i] = None
  <2>1. q.items \in [Ids -> Ctx \cup {None}]
    BY DEF Requests
  <2> QED BY <1>1, <1>2, <1>3, <1>4, <2>1
<1>6. PICK r : r = [q EXCEPT !.left = left, !.items = items]
  OBVIOUS
<1>7. /\ r \in Requests /\ r.op = q.op /\ r.id = q.id /\ r.pod = q.pod
      /\ r.body = q.body /\ r.new = q.new /\ r.phase = q.phase /\ r.items = items
      /\ r.stage = q.stage
  BY <1>6 DEF Requests
<1>8. Move(c, r)
  <2>1. Move(c, [q EXCEPT !.left = @ \ {id}, !.items[id] = v])
    BY <1>2, <1>3 DEF ListKey
  <2>2. [q EXCEPT !.left = @ \ {id}, !.items[id] = v] = r
    BY <1>4, <1>6 DEF Requests
  <2> QED BY <2>1, <2>2
<1> QED BY <1>1, <1>3, <1>5, <1>7, <1>8 DEF MovesTo, MovesOn

LEMMA ListEndKeeps ==
  ASSUME Inv, NEW c \in Clients, ListEnd(c)
  PROVE  Inv'
<1>1. PICK q \in Requests : q = req[c] /\ q.op = "list"
  BY OwnRequest DEF ListEnd, At, Sound
<1>2. \A i \in Ids : Unseen(i) => q.items[i] = None
  BY <1>1, OwnRequest DEF ListEnd, At
<1>3. UNCHANGED <<up, avail, load, disk, memory, issued>> /\ cache' \in [Pods -> Stored]
  BY DEF ListEnd, env, stores, Inv, TypeOK, Stored
<1>4. Respond(c, q, "ok", q.items)
  BY <1>1 DEF ListEnd
<1> QED BY <1>1, <1>2, <1>3, <1>4, RespondKeeps

LEMMA ListFromMemoryKeeps ==
  ASSUME Inv, NEW c \in Clients, ListFromMemory(c)
  PROVE  Inv'
<1>1. PICK q \in Requests : q = req[c] /\ q.op = "list" /\ q.pod \in Pods
  BY OwnRequest DEF ListFromMemory, At, Sound
<1>2. ListMemory(c, q) /\ UNCHANGED <<up, avail, load, disk, issued>>
  BY <1>1 DEF ListFromMemory, env
<1> QED BY <1>1, <1>2, ListMemoryKeeps

-----------------------------------------------------------------------------
(* The environment.                                                         *)

LEMMA ExpiryKeeps ==
  ASSUME Inv, NEW p \in Pods, NEW id \in Ids, Expire(p, id)
  PROVE  Inv'
<1>1. cache' = Put(cache, p, id, None)
      /\ UNCHANGED <<up, avail, load, disk, memory, req, issued, known>>
  BY DEF Expire, env
<1>2. cache' \in [Pods -> Stored]
  BY <1>1, PutType DEF Inv, TypeOK, Stored
<1>3. TypeOK'
  BY <1>1, <1>2 DEF Inv, TypeOK, Stored
<1>4. \A c : Sound(c, req[c]) => Sound(c, req[c])'
  BY <1>1 DEF Sound
<1>5. \A i : Unseen(i) => Unseen(i)'
  BY <1>1 DEF Unseen
<1> QED BY <1>1, <1>3, <1>4, <1>5 DEF Inv, Creating

LEMMA FlapKeeps ==
  ASSUME Inv, NEW b \in Backends, Flap(b)
  PROVE  Inv'
<1>1. up' = [up EXCEPT ![b] = ~@]
      /\ UNCHANGED <<avail, load, disk, memory, cache, req, issued, known>>
  BY DEF Flap, stores
<1>2. up' \in [Backends -> BOOLEAN]
  BY <1>1 DEF Inv, TypeOK
<1>3. TypeOK'
  BY <1>1, <1>2 DEF Inv, TypeOK
<1>4. \A c : Sound(c, req[c]) => Sound(c, req[c])'
  BY <1>1 DEF Sound
<1>5. \A i : Unseen(i) => Unseen(i)'
  BY <1>1 DEF Unseen
<1> QED BY <1>1, <1>3, <1>4, <1>5 DEF Inv, Creating

LEMMA RestartKeeps ==
  ASSUME Inv, NEW p \in Pods, Restart(p)
  PROVE  Inv'
<1>1. /\ UNCHANGED <<up, load, disk, issued, known>>
      /\ req' = [c \in Clients |-> IF req[c] # None /\ req[c].pod = p THEN None ELSE req[c]]
      /\ memory' = [memory EXCEPT ![p] = [id \in Ids |-> None]]
      /\ cache' = [cache EXCEPT ![p] = [id \in Ids |-> None]]
      /\ avail' = [avail EXCEPT ![p] = {b \in Configured : up[b]}]
  BY DEF Restart
<1>2. Configured \subseteq Backends
  BY LoadType DEF Inv, Configured
<1>3. memory' \in [Pods -> Stored] /\ cache' \in [Pods -> Stored] /\ avail' \in [Pods -> SUBSET Backends]
  BY <1>1, <1>2 DEF Inv, TypeOK, Stored
<1>4. \A q \in Pods, i \in Ids : memory'[q][i] = None \/ memory'[q][i] = memory[q][i]
  BY <1>1 DEF Inv, TypeOK
<1>5. \A c \in Clients : req'[c] = None \/ req'[c] = req[c]
  BY <1>1
<1>6. req' \in [Clients -> Requests \cup {None}]
  BY <1>1 DEF Inv, TypeOK
<1>7. TypeOK'
  BY <1>1, <1>3, <1>6 DEF Inv, TypeOK, Stored
<1>8. ASSUME NEW c \in Clients, req'[c] # None PROVE Sound(c, req[c])'
  <2>1. req'[c] = req[c] /\ Sound(c, req[c])
    BY <1>5, <1>8 DEF Inv
  <2> QED BY <1>1, <2>1 DEF Sound
<1>9. ASSUME NEW i \in Ids, Unseen(i) PROVE Unseen(i)'
  BY <1>1, <1>4, <1>5, <1>9 DEF Unseen
<1>10. ASSUME NEW c \in Clients, Creating(c)'
       PROVE  /\ Unseen(req[c].id)'
              /\ \A d \in Clients \ {c} : (req'[d] # None /\ req'[d].op # "list") => req'[d].id # req'[c].id
  <2>1. req'[c] = req[c] /\ Creating(c)
    BY <1>5, <1>10 DEF Creating
  <2>2. PICK i \in Ids : i = req[c].id /\ Unseen(i)
    BY <2>1, OwnRequest DEF Creating
  <2>3. Unseen(req[c].id)'
    BY <1>9, <2>1, <2>2
  <2>4. \A d \in Clients \ {c} : (req[d] # None /\ req[d].op # "list") => req[d].id # req[c].id
    BY <2>1 DEF Inv
  <2> QED BY <1>5, <2>1, <2>3, <2>4
<1> QED BY <1>1, <1>7, <1>8, <1>9, <1>10 DEF Inv

-----------------------------------------------------------------------------
LEMMA InitInv ==
  ASSUME Init
  PROVE  Inv
<1>1. \A c \in Clients : req[c] = None
  BY DEF Init
<1>2. avail \in [Pods -> SUBSET Backends]
  BY WorkloadsAssumption DEF Init
<1>3. TypeOK
  BY <1>2 DEF Init, TypeOK
<1>4. \A id \in Ids : Unseen(id)
  BY <1>1 DEF Init, Unseen
<1> QED BY <1>1, <1>3, <1>4 DEF Inv, Creating

LEMMA ProgressKeeps ==
  ASSUME Inv, NEW c \in Clients, Progress(c)
  PROVE  Inv'
BY ReadMoves, ResumeKeeps, ReadMemoryKeeps, LoadRowMoves, CommitStoreWrites, CommitDeleteWrites,
   WriteRedisWrites, FailRedisWrites, WriteMemoryKeeps, ListPgKeeps, ListKeysMoves, ListKeyMoves,
   ListEndKeeps, ListFromMemoryKeeps, MoveKeeps, WriteKeeps DEF Progress

LEMMA NextKeeps ==
  ASSUME Inv, [Next]_vars
  PROVE  Inv'
<1>1. ASSUME NEW c \in Clients, Arrive(c) PROVE Inv'
  BY <1>1, ArriveKeeps
<1>2. ASSUME NEW c \in Clients, Progress(c) PROVE Inv'
  BY <1>2, ProgressKeeps
<1>3. ASSUME NEW p \in Pods, NEW id \in Ids, Expire(p, id) PROVE Inv'
  BY <1>3, ExpiryKeeps
<1>4. ASSUME NEW b \in Configured, Flap(b) PROVE Inv'
  <2>1. b \in Backends
    BY LoadType DEF Inv, Configured
  <2> QED BY <1>4, <2>1, FlapKeeps
<1>5. ASSUME NEW p \in load.pods, Restart(p) PROVE Inv'
  BY <1>5, LoadType, RestartKeeps DEF Inv
<1>6. CASE UNCHANGED vars
  BY <1>6 DEF vars, Inv, TypeOK, Sound, Unseen, Creating
<1> QED BY <1>1, <1>2, <1>3, <1>4, <1>5, <1>6 DEF Next

LEMMA Invariance == Spec => []Inv
<1>1. Inv /\ [Next]_vars => Inv'
  BY NextKeeps
<1> QED BY <1>1, InitInv, PTL DEF Spec

\* Whatever the pods, clients, workloads and faults, every store, cache and
\* request keeps its shape: a backend never holds what is no context, and
\* no client is shown an id that no create() has issued.
THEOREM TypeCorrect == Spec => []TypeOK
<1>1. Inv => TypeOK
  BY DEF Inv
<1> QED BY <1>1, Invariance, PTL

-----------------------------------------------------------------------------
(* What PostgreSQL comes to hold.                                           *)

\* A context that PostgreSQL did not hold and now does is one that a
\* create() or an update() has committed.
LEMMA PgGains ==
  ASSUME Inv, Next, NEW id \in Ids, disk["pg"][id] = None, disk'["pg"][id] # None
  PROVE  \E c \in Clients : CommitStore(c) /\ req[c].id = id
<1>0. disk \in [Backends -> Stored]
  BY DEF Inv, TypeOK, Stored
<1>1. disk' # disk
  OBVIOUS
<1>2. PICK c \in Clients : CommitStore(c) \/ CommitDelete(c) \/ WriteRedis(c)
  <2>1. ASSUME NEW c \in Clients, Arrive(c) PROVE disk' = disk
    BY <2>1 DEF Arrive, Create, Lookup, List
  <2>2. ASSUME NEW c \in Clients, NEW r, Move(c, r) PROVE disk' = disk
    BY <2>2 DEF Move, stores
  <2>3. ASSUME NEW c \in Clients, GoOn(c) PROVE disk' = disk
    BY <2>2, <2>3 DEF GoOn
  <2>4. ASSUME NEW c \in Clients,
               \/ ReadBackend(c) \/ LoadRow(c) \/ FailRedis(c) \/ ListKeys(c)
               \/ \E i \in Ids : ListKey(c, i)
        PROVE  disk' = disk
    BY <2>2, <2>3, <2>4 DEF ReadBackend, LoadRow, FailRedis, ListKeys, ListKey
  <2>5. ASSUME NEW c \in Clients,
               Resume(c) \/ ReadMemory(c) \/ WriteMemory(c) \/ ListEnd(c) \/ ListFromMemory(c)
        PROVE  disk' = disk
    BY <2>5 DEF Resume, ReadMemory, WriteMemory, ListEnd, ListFromMemory, stores
  <2>6. ASSUME NEW c \in Clients, ListPg(c) PROVE disk' = disk
    BY <2>3, <2>6 DEF ListPg, stores
  <2>7. ASSUME NEW p, \/ \E i \in Ids : Expire(p, i)
                     \/ Flap(p) \/ Restart(p)
        PROVE  disk' = disk
    BY <2>7 DEF Expire, Flap, Restart, stores
  <2> QED BY <1>1, <2>1, <2>4, <2>5, <2>6, <2>7 DEF Next, Progress
<1>3. CASE CommitStore(c)
  <2>1. disk' = disk \/ \E v : disk' = Put(disk, "pg", req[c].id, v)
    BY <1>3 DEF CommitStore
  <2> QED BY <1>0, <1>3, <2>1 DEF Put, Stored, Backends
<1>4. CASE CommitDelete(c)
  <2>1. disk' = disk \/ disk' = Put(disk, "pg", req[c].id, None)
    BY <1>4 DEF CommitDelete
  <2> QED BY <1>0, <2>1 DEF Put, Stored, Backends
<1>5. CASE WriteRedis(c)
  <2>1. disk' = Put(disk, "redis", req[c].id, req[c].new)
    BY <1>5 DEF WriteRedis
  <2> QED BY <1>0, <2>1 DEF Put, Stored, Backends
<1> QED BY <1>2, <1>3, <1>4, <1>5

\* A context that a client was told of and that PostgreSQL does not hold
\* comes to it only by an update in flight: the commit of a create() finds
\* an id nobody was told of yet, and nothing else inserts a row.
THEOREM Restores == Spec => OnlyUpdatesRestore
<1> DEFINE Restored == \A id \in known :
                         disk["pg"][id] = None /\ disk'["pg"][id] # None
                         => \E c \in InFlight("update") : req[c].id = id
<1>1. ASSUME Inv, [Next]_vars PROVE [Restored]_vars
  <2> SUFFICES ASSUME NEW id \in known, Next, disk["pg"][id] = None, disk'["pg"][id] # None
               PROVE  \E c \in InFlight("update") : req[c].id = id
    BY <1>1
  <2>1. id \in Ids
    BY <1>1 DEF Inv, TypeOK
  <2>2. PICK c \in Clients : CommitStore(c) /\ req[c].id = id
    BY <1>1, <2>1, PgGains
  <2>3. /\ req[c] # None /\ req[c].phase = "store" /\ req[c].stage = "commit"
        /\ req[c].op \in {"create", "update"}
    BY <1>1, <2>2, OwnRequest DEF CommitStore, At, Sound
  <2>4. req[c].op # "create"
    <3> SUFFICES ASSUME req[c].op = "create" PROVE FALSE
      OBVIOUS
    <3>1. Creating(c)
      BY <2>3 DEF Creating
    <3>2. Unseen(id)
      BY <1>1, <2>2, <3>1 DEF Inv
    <3> QED BY <3>2 DEF Unseen
  <2> QED BY <2>2, <2>3, <2>4 DEF InFlight
<1> QED BY <1>1, Invariance, PTL DEF Spec, OnlyUpdatesRestore
-----------------------------------------------------------------------------
(* What memory holds.                                                       *)

\* The context is on its way to a memory, or in one.
Held(id) ==
  \/ \E c \in InFlight("create") : req[c].id = id
  \/ \E p \in load.pods : memory[p][id] # None

\* Client c does not wait for a create().
Other(c) == req[c] = None \/ req[c].op # "create"

HeldOn == load' = load /\ \A id \in Ids : Held(id) => Held(id)'

LEMMA HeldWait ==
  ASSUME Inv, NEW c \in Clients, NEW r \in Requests, Wait(c, r), load' = load, memory' = memory,
         Other(c) \/ (r.op = "create" /\ r.id = req[c].id)
  PROVE  HeldOn /\ (r.op = "create" => Held(r.id)')
<1>1. r # None /\ req'[c] = r /\ \A d \in Clients \ {c} : req'[d] = req[d]
  BY RequestsAssumption DEF Wait, Inv, TypeOK
<1>2. r.op = "create" => Held(r.id)'
  BY <1>1 DEF Held, InFlight
<1>3. ASSUME NEW id \in Ids, Held(id) PROVE Held(id)'
  <2>1. CASE \E p \in load.pods : memory[p][id] # None
    BY <2>1 DEF Held
  <2>2. CASE \E d \in InFlight("create") : req[d].id = id
    <3>1. PICK d \in Clients : req[d] # None /\ req[d].op = "create" /\ req[d].id = id
      BY <2>2 DEF InFlight
    <3>2. CASE d = c
      BY <1>2, <3>1, <3>2 DEF Other
    <3>3. CASE d # c
      BY <1>1, <3>1, <3>3 DEF Held, InFlight
    <3> QED BY <3>2, <3>3
  <2> QED BY <1>3, <2>1, <2>2 DEF Held
<1> QED BY <1>2, <1>3 DEF HeldOn

\* A request that ends: with a write to memory, or no create().
LEMMA HeldEnd ==
  ASSUME Inv, NEW c \in Clients, NEW q, NEW status, NEW value, Respond(c, q, status, value),
         load' = load,
         \/ memory' = memory /\ Other(c)
         \/ /\ q.pod \in load.pods /\ q.id \in Ids
            /\ \E v \in Ctx : memory' = Put(memory, q.pod, q.id, v)
            /\ Other(c) \/ req[c].id = q.id
  PROVE  HeldOn /\ (memory' # memory => Held(q.id)')
<1>1. \A d \in Clients \ {c} : req'[d] = req[d]
  BY DEF Respond, Inv, TypeOK
<1>2. memory \in [Pods -> Stored] /\ load.pods \subseteq Pods /\ None \notin Ctx
  BY LoadType, NoneAssumption DEF Inv, TypeOK, Stored
<1>3. CASE memory' = memory /\ Other(c)
  <2>1. ASSUME NEW id \in Ids, Held(id) PROVE Held(id)'
    <3>1. CASE \E p \in load.pods : memory[p][id] # None
      BY <1>3, <3>1 DEF Held
    <3>2. CASE \E d \in InFlight("create") : req[d].id = id
      BY <1>1, <1>3, <3>2 DEF Held, InFlight, Other
    <3> QED BY <2>1, <3>1, <3>2 DEF Held
  <2> QED BY <1>3, <2>1 DEF HeldOn
<1>4. CASE /\ q.pod \in load.pods /\ q.id \in Ids
           /\ \E v \in Ctx : memory' = Put(memory, q.pod, q.id, v)
           /\ Other(c) \/ req[c].id = q.id
  <2>1. PICK v \in Ctx : memory' = Put(memory, q.pod, q.id, v)
    BY <1>4
  <2>2. /\ memory'[q.pod][q.id] # None
        /\ \A p \in Pods, i \in Ids : memory[p][i] # None => memory'[p][i] # None
    BY <1>2, <1>4, <2>1, PutType
  <2>3. Held(q.id)'
    BY <1>4, <2>2 DEF Held
  <2>4. ASSUME NEW id \in Ids, Held(id) PROVE Held(id)'
    <3>1. CASE \E p \in load.pods : memory[p][id] # None
      BY <1>2, <2>2, <3>1 DEF Held
    <3>2. CASE \E d \in InFlight("create") : req[d].id = id
      <4>1. PICK d \in Clients : req[d] # None /\ req[d].op = "create" /\ req[d].id = id
        BY <3>2 DEF InFlight
      <4>2. CASE d = c
        BY <1>4, <2>3, <4>1, <4>2 DEF Other
      <4>3. CASE d # c
        BY <1>1, <4>1, <4>3 DEF Held, InFlight
      <4> QED BY <4>2, <4>3
    <3> QED BY <2>4, <3>1, <3>2 DEF Held
  <2> QED BY <2>3, <2>4 DEF HeldOn
<1> QED BY <1>3, <1>4

\* Store() ends in memory, or goes on towards it.
LEMMA HeldStore ==
  ASSUME Inv, NEW c \in Clients, NEW r, Fit(c, r), Store(c, r), r.new \in Ctx, load' = load,
         Other(c) \/ (r.op = "create" /\ req[c].id = r.id)
  PROVE  HeldOn /\ (r.op = "create" => Held(r.id)')
<1>1. CASE First(r.pod) = "memory"
  <2>1. memory' = Put(memory, r.pod, r.id, r.new)
    BY <1>1 DEF Store, EndStore
  <2>2. PICK status, value : Respond(c, r, status, value)
    BY <1>1 DEF Store, EndStore
  <2>3. r.pod \in load.pods /\ r.id \in Ids
    BY DEF Fit
  <2>4. Held(r.id)'
    <3>1. memory \in [Pods -> Stored] /\ r.pod \in Pods /\ None \notin Ctx
      BY <2>3, LoadType, NoneAssumption DEF Inv, TypeOK, Stored
    <3>2. memory'[r.pod][r.id] # None
      BY <2>1, <2>3, <3>1, PutType
    <3> QED BY <2>3, <3>2 DEF Held
  <2>5. Other(c) \/ req[c].id = r.id
    OBVIOUS
  <2>6. \E v \in Ctx : memory' = Put(memory, r.pod, r.id, v)
    BY <2>1
  <2> QED BY <2>2, <2>3, <2>4, <2>5, <2>6, HeldEnd
<1>2. CASE First(r.pod) # "memory"
  <2>1. PICK w \in Requests : Wait(c, w) /\ memory' = memory /\ w.op = r.op /\ w.id = r.id
    <3> DEFINE w == [r EXCEPT !.phase = "store", !.stage = First(r.pod)]
    <3>1. Wait(c, w) /\ memory' = memory
      BY <1>2 DEF Store
    <3>2. w \in Requests /\ w.op = r.op /\ w.id = r.id
      BY StageType DEF Fit, Requests
    <3> QED BY <3>1, <3>2
  <2>2. Other(c) \/ (w.op = "create" /\ w.id = req[c].id)
    BY <2>1
  <2> QED BY <2>1, <2>2, HeldWait
<1> QED BY <1>1, <1>2

LEMMA HeldFound ==
  ASSUME Inv, NEW c \in Clients, NEW r, Fit(c, r), r.op \in {"get", "update"}, Other(c),
         NEW v \in Ctx \cup {None}, NEW filled, Found(c, r, v, filled), load' = load
  PROVE  HeldOn
<1>1. CASE v = None \/ r.op = "get"
  <2>1. memory' = memory /\ (Respond(c, r, "404", None) \/ Respond(c, r, "ok", v))
    BY <1>1 DEF Found
  <2> QED BY <2>1, HeldEnd
<1>2. CASE v # None /\ r.op = "update"
  <2>1. PICK m \in Ctx : m = Merge(v, r.body)
    BY <1>2, BodyType DEF Fit
  <2>2. PICK w : w = [r EXCEPT !.old = v, !.new = m]
    OBVIOUS
  <2>3. /\ w \in Requests /\ w.op = r.op /\ w.id = r.id /\ w.new = m
        /\ w.pod = r.pod /\ w.body = r.body /\ w.items = r.items
    BY <2>2 DEF Requests, Fit
  <2>4. Store(c, w)
    BY <1>2, <2>1, <2>2 DEF Found
  <2>5. Fit(c, w)
    BY <2>3 DEF Fit
  <2> QED BY <2>3, <2>4, <2>5, HeldStore
<1> QED BY <1>1, <1>2

LEMMA HeldTaken ==
  ASSUME Inv, NEW c \in Clients, NEW r, Fit(c, r), r.op \in {"get", "update"}, Other(c),
         NEW v \in Ctx \cup {None}, Taken(c, r, v), load' = load
  PROVE  HeldOn
<1>1. CASE Found(c, r, v, cache)
  BY <1>1, HeldFound
<1>2. CASE Respond(c, r, "500", None) /\ UNCHANGED <<memory, cache>>
  BY <1>2, HeldEnd
<1> QED BY <1>1, <1>2 DEF Taken

LEMMA HeldListMemory ==
  ASSUME Inv, NEW c \in Clients, NEW r, Other(c), ListMemory(c, r), load' = load
  PROVE  HeldOn
<1>1. PICK status, value : Respond(c, r, status, value)
  BY DEF ListMemory
<1> QED BY <1>1, HeldEnd DEF ListMemory
LEMMA ArriveHolds ==
  ASSUME Inv, NEW c \in Clients, Arrive(c), "delete" \notin Used
  PROVE  HeldOn /\ \A id \in issued' \ issued : Held(id)'
<1>1. PICK p \in load.pods :
        \/ /\ "create" \in load.ops[c]
           /\ \E id \in load.ids[c], body \in Creates : Create(c, p, id, body)
        \/ "list" \in load.ops[c] /\ List(c, p)
        \/ \E id \in known \cap load.ids[c] :
             \/ \E op \in load.ops[c] \cap {"get", "delete"} : Lookup(c, p, op, id, None)
             \/ /\ "update" \in load.ops[c]
                /\ \E body \in load.updates : Lookup(c, p, "update", id, body)
  BY DEF Arrive
<1>2. p \in Pods /\ load.ids[c] \subseteq Ids /\ known \subseteq Ids
  BY LoadType DEF Inv, TypeOK
<1>3. ASSUME NEW id \in load.ids[c], NEW body \in Creates, "create" \in load.ops[c],
             Create(c, p, id, body)
      PROVE  HeldOn /\ \A i \in issued' \ issued : Held(i)'
  <2>1. body \in Ctx /\ id \in Ids
    BY <1>2, BodyType
  <2>2. PICK n \in Requests : /\ n = NewReq(p, "create", id, body)
                              /\ n.pod = p /\ n.op = "create" /\ n.id = id
                              /\ \A i \in Ids : n.items[i] = None
    BY <1>2, <2>1, NewReqType DEF Operations
  <2>3. PICK r : r = [n EXCEPT !.new = body]
    OBVIOUS
  <2>4. /\ r \in Requests /\ r.pod = p /\ r.op = "create" /\ r.id = id /\ r.new = body
        /\ \A i \in Ids : r.items[i] = None
    BY <2>1, <2>2, <2>3 DEF Requests
  <2>5. Store(c, r) /\ load' = load /\ Other(c) /\ issued' = issued \cup {id}
    BY <1>3, <2>2, <2>3 DEF Create, env, Other
  <2>6. Fit(c, r)
    BY <1>3, <2>1, <2>4 DEF Fit
  <2> QED BY <2>1, <2>4, <2>5, <2>6, HeldStore
<1>4. CASE "list" \in load.ops[c] /\ List(c, p)
  <2>1. load' = load /\ issued' = issued /\ Other(c)
    BY <1>4 DEF List, env, Other
  <2>2. PICK r \in Requests :
          IF First(p) = "memory" THEN ListMemory(c, r) ELSE Wait(c, r) /\ UNCHANGED <<memory, cache>>
    <3>1. PICK n \in Requests : n = NewReq(p, "list", None, None)
      BY <1>2, NewReqType DEF Operations
    <3>2. PICK r : r = [n EXCEPT !.phase = "list", !.seen = known]
      OBVIOUS
    <3>3. r \in Requests
      BY <1>2, <3>2 DEF Requests
    <3> QED BY <1>4, <3>1, <3>2, <3>3 DEF List
  <2>3. CASE ListMemory(c, r)
    BY <2>1, <2>3, HeldListMemory
  <2>4. CASE Wait(c, r) /\ UNCHANGED <<memory, cache>>
    BY <2>1, <2>4, HeldWait
  <2> QED BY <2>1, <2>2, <2>3, <2>4
<1>5. ASSUME NEW id \in known \cap load.ids[c], NEW op \in {"get", "update"}, op \in load.ops[c],
             NEW body \in Updates \cup {None}, op = "update" => body \in Updates,
             Lookup(c, p, op, id, body)
      PROVE  HeldOn /\ issued' = issued
  <2>1. load' = load /\ issued' = issued /\ Other(c) /\ id \in Ids
    BY <1>2, <1>5 DEF Lookup, env, Other
  <2>2. PICK r : r = NewReq(p, op, id, body)
    OBVIOUS
  <2>3. /\ r \in Requests /\ r.pod = p /\ r.op = op /\ r.id = id /\ r.body = body
        /\ \A i \in Ids : r.items[i] = None
    BY <1>2, <2>1, <2>2, NewReqType DEF Operations
  <2>4. Fit(c, r)
    BY <1>5, <2>1, <2>3 DEF Fit
  <2>5. CASE \E v \in Ctx \cup {None} : Taken(c, r, v)
    BY <1>5, <2>1, <2>3, <2>4, <2>5, HeldTaken
  <2>6. CASE Wait(c, r) /\ UNCHANGED <<memory, cache>>
    BY <2>1, <2>3, <2>6, HeldWait
  <2>7. cache[p][id] \in Ctx \cup {None} /\ memory[p][id] \in Ctx \cup {None}
    BY <1>2, <2>1 DEF Inv, TypeOK
  <2> QED BY <1>5, <2>2, <2>5, <2>6, <2>7 DEF Lookup
<1>6. CASE \E id \in known \cap load.ids[c] :
             \/ \E op \in load.ops[c] \cap {"get", "delete"} : Lookup(c, p, op, id, None)
             \/ /\ "update" \in load.ops[c]
                /\ \E body \in load.updates : Lookup(c, p, "update", id, body)
  <2>1. "delete" \notin load.ops[c] /\ load.updates \subseteq Updates
    BY LoadType DEF Used, Inv
  <2>2. HeldOn /\ issued' = issued
    BY <1>5, <1>6, <2>1
  <2> QED BY <2>2
<1> QED BY <1>1, <1>3, <1>4, <1>6

LEMMA ProgressHolds ==
  ASSUME Inv, NEW c \in Clients, Progress(c), "delete" \notin Used
  PROVE  HeldOn /\ issued' = issued
<1>1. ASSUME MovesOn(c) PROVE HeldOn /\ issued' = issued
  <2>1. PICK r : MovesTo(c, r)
    BY <1>1 DEF MovesOn
  <2>2. Wait(c, r) /\ UNCHANGED <<load, memory, issued>>
    BY <2>1 DEF MovesTo, Move, env, stores
  <2> QED BY <2>1, <2>2, HeldWait DEF MovesTo, Other
<1>2. ASSUME WritesOn(c) PROVE HeldOn /\ issued' = issued
  <2>1. PICK r : WritesTo(c, r)
    BY <1>2 DEF WritesOn
  <2> QED BY <2>1, HeldWait DEF WritesTo, Onward, Other
<1>3. ASSUME req[c] # None
      PROVE  /\ req[c].op # "delete" /\ req[c] \in Requests /\ Sound(c, req[c])
             /\ req[c].op # "list" => req[c].id \in Ids /\ Fit(c, req[c])
  BY <1>3, OwnRequest DEF Sound, Used, Fit
<1>4. CASE Resume(c)
  <2>1. PICK r : r = req[c]
    OBVIOUS
  <2>2. /\ req[c] # None /\ r.phase = "reply" /\ UNCHANGED <<load, issued>>
        /\ Found(c, r, r.old, IF r.old = None THEN cache ELSE Put(cache, r.pod, r.id, r.old))
    BY <1>4, <2>1 DEF Resume, env
  <2>3. r.op \in {"get", "update"} /\ Fit(c, r) /\ Other(c) /\ r.old \in Ctx \cup {None}
    BY <1>3, <2>1, <2>2 DEF Sound, Other, Requests
  <2> QED BY <2>2, <2>3, HeldFound
<1>5. CASE ReadMemory(c)
  <2>1. PICK r : r = req[c]
    OBVIOUS
  <2>2. /\ req[c] # None /\ r.phase = "read" /\ UNCHANGED <<load, issued>>
        /\ Taken(c, r, memory[r.pod][r.id])
    BY <1>5, <2>1 DEF ReadMemory, env, At
  <2>3. r.op \in {"get", "update"} /\ Fit(c, r) /\ Other(c) /\ r.pod \in Pods /\ r.id \in Ids
    BY <1>3, <2>1, <2>2 DEF Sound, Other, Requests
  <2>4. memory[r.pod][r.id] \in Ctx \cup {None}
    BY <2>3 DEF Inv, TypeOK
  <2> QED BY <2>2, <2>3, <2>4, HeldTaken
<1>6. CASE WriteMemory(c)
  <2>1. PICK r : r = req[c]
    OBVIOUS
  <2>2. /\ req[c] # None /\ r.phase = "store" /\ EndStore(c, r) /\ UNCHANGED <<load, issued>>
    BY <1>3, <1>6, <2>1 DEF WriteMemory, At, env, Sound
  <2>3. r.op # "list" /\ r.new \in Ctx /\ r.pod \in load.pods /\ r.id \in Ids
    BY <1>3, <2>1, <2>2 DEF Sound
  <2>4. PICK status, value : Respond(c, r, status, value)
    BY <2>2 DEF EndStore
  <2>5. memory' = Put(memory, r.pod, r.id, r.new)
    BY <2>2 DEF EndStore
  <2> QED BY <2>1, <2>2, <2>3, <2>4, <2>5, HeldEnd
<1>7. CASE ListPg(c) \/ ListEnd(c) \/ ListFromMemory(c)
  <2>1. req[c] # None /\ req[c].phase = "list"
    BY <1>7 DEF ListPg, ListEnd, ListFromMemory, At
  <2>2. Other(c)
    BY <1>3, <2>1 DEF Sound, Other
  <2>3. PICK r : r = req[c]
    OBVIOUS
  <2>4. CASE /\ UNCHANGED <<load, memory, issued>>
             /\ \E status, value : Respond(c, r, status, value)
    BY <2>2, <2>4, HeldEnd
  <2>5. CASE ListFromMemory(c)
    BY <2>2, <2>5, HeldListMemory DEF ListFromMemory, env
  <2>6. CASE ListPg(c)
    <3>1. GoOn(c) \/ (Respond(c, r, "ok", disk["pg"]) /\ UNCHANGED <<load, memory, issued>>)
      BY <2>3, <2>6 DEF ListPg, env, stores
    <3> QED BY <1>1, <2>1, <2>4, <3>1, GoOnMoves
  <2>7. CASE ListEnd(c)
    <3>1. Respond(c, r, "ok", r.items) /\ UNCHANGED <<load, memory, issued>>
      BY <2>3, <2>7 DEF ListEnd, env, stores
    <3> QED BY <2>4, <3>1
  <2> QED BY <1>7, <2>5, <2>6, <2>7
<1> QED BY <1>1, <1>2, <1>4, <1>5, <1>6, <1>7, ReadMoves, LoadRowMoves, ListKeysMoves, ListKeyMoves,
           CommitStoreWrites, CommitDeleteWrites, WriteRedisWrites, FailRedisWrites DEF Progress

\* MemoryHoldsCreated, said of every id that was issued.
Holding ==
  /\ faults \in [flaps : Nat, lost : Nat, restarts : Nat]
  /\ "delete" \notin Used /\ faults.restarts = 0 => \A id \in issued : Held(id)

LEMMA FaultsGrow ==
  ASSUME faults \in [flaps : Nat, lost : Nat, restarts : Nat], [Next]_vars
  PROVE  /\ faults' \in [flaps : Nat, lost : Nat, restarts : Nat]
         /\ faults'.restarts = 0 => faults.restarts = 0 /\ ~\E p : Restart(p)
         /\ faults'.flaps = 0 => faults.flaps = 0 /\ ~\E b : Flap(b)
         /\ (~\E b : Flap(b)) => faults'.flaps = faults.flaps
         /\ (~\E p : Restart(p)) => faults'.restarts = faults.restarts
<1>1. ASSUME NEW c \in Clients, NEW r, Move(c, r) PROVE faults' = faults
  BY <1>1 DEF Move, env
<1>2. ASSUME NEW c \in Clients, GoOn(c) PROVE faults' = faults
  BY <1>1, <1>2 DEF GoOn
<1>3. ASSUME NEW c \in Clients, Arrive(c) PROVE faults' = faults
  BY <1>3 DEF Arrive, Create, Lookup, List, env
<1>4. ASSUME NEW c \in Clients, Progress(c), ~WriteRedis(c) PROVE faults' = faults
  <2>1. CASE \/ ReadBackend(c) \/ LoadRow(c) \/ FailRedis(c) \/ ListKeys(c)
             \/ \E i \in Ids : ListKey(c, i)
    BY <1>1, <1>2, <2>1 DEF ReadBackend, LoadRow, FailRedis, ListKeys, ListKey
  <2>2. CASE \/ Resume(c) \/ ReadMemory(c) \/ WriteMemory(c) \/ ListEnd(c) \/ ListFromMemory(c)
             \/ CommitStore(c) \/ CommitDelete(c)
    BY <2>2 DEF Resume, ReadMemory, WriteMemory, ListEnd, ListFromMemory, CommitStore, CommitDelete, env
  <2>3. CASE ListPg(c)
    BY <1>2, <2>3 DEF ListPg, env
  <2> QED BY <1>4, <2>1, <2>2, <2>3 DEF Progress
<1>5. ASSUME NEW p, NEW i, Expire(p, i) PROVE faults' = faults
  BY <1>5 DEF Expire, env
<1>6. \/ faults' = faults
      \/ faults' = [faults EXCEPT !.lost = @ + 1]
      \/ faults' = [faults EXCEPT !.flaps = @ + 1] /\ \E b : Flap(b)
      \/ faults' = [faults EXCEPT !.restarts = @ + 1] /\ \E p : Restart(p)
  <2>1. ASSUME NEW c, WriteRedis(c) PROVE faults' = faults \/ faults' = [faults EXCEPT !.lost = @ + 1]
    BY <2>1 DEF WriteRedis
  <2>2. ASSUME NEW b, Flap(b) PROVE faults' = [faults EXCEPT !.flaps = @ + 1]
    BY <2>2 DEF Flap
  <2>3. ASSUME NEW p, Restart(p) PROVE faults' = [faults EXCEPT !.restarts = @ + 1]
    BY <2>3 DEF Restart
  <2>4. CASE UNCHANGED vars
    BY <2>4 DEF vars
  <2> QED BY <1>3, <1>4, <1>5, <2>1, <2>2, <2>3, <2>4 DEF Next
<1>7. ASSUME NEW p, Restart(p) PROVE faults'.restarts = faults.restarts + 1
  BY <1>7 DEF Restart
<1>8. ASSUME NEW b, Flap(b) PROVE faults'.flaps = faults.flaps + 1
  BY <1>8 DEF Flap
<1> QED BY <1>6, <1>7, <1>8

\* A behaviour keeps the workload it begins with.
LEMMA LoadKept ==
  ASSUME Inv, [Next]_vars
  PROVE  load' = load
<1>1. ASSUME NEW c \in Clients, Progress(c) PROVE load' = load
  <2>1. ASSUME MovesOn(c) \/ WritesOn(c) PROVE load' = load
    BY <2>1 DEF MovesOn, MovesTo, Move, env, WritesOn, WritesTo
  <2>2. CASE Resume(c) \/ ReadMemory(c) \/ WriteMemory(c) \/ ListEnd(c) \/ ListFromMemory(c)
    BY <2>2 DEF Resume, ReadMemory, WriteMemory, ListEnd, ListFromMemory, env
  <2>3. CASE ListPg(c)
    <3>1. req[c] # None
      BY <2>3 DEF ListPg, At
    <3> QED BY <2>1, <2>3, <3>1, GoOnMoves DEF ListPg, env
  <2> QED BY <1>1, <2>1, <2>2, <2>3, ReadMoves, LoadRowMoves, ListKeysMoves, ListKeyMoves,
             CommitStoreWrites, CommitDeleteWrites, WriteRedisWrites, FailRedisWrites DEF Progress
<1>2. ASSUME NEW c \in Clients, Arrive(c) PROVE load' = load
  BY <1>2 DEF Arrive, Create, Lookup, List, env
<1> QED BY <1>1, <1>2 DEF Next, Expire, Flap, Restart, env, vars

LEMMA HoldingKept ==
  ASSUME Inv, Holding, [Next]_vars
  PROVE  Holding'
<1>1. faults' \in [flaps : Nat, lost : Nat, restarts : Nat]
  BY FaultsGrow DEF Holding
<1>2. ASSUME ("delete" \notin Used)', faults'.restarts = 0 PROVE \A id \in issued' : Held(id)'
  <2>1. load' = load
    BY LoadKept
  <2>2. "delete" \notin Used /\ issued \subseteq Ids /\ \A id \in issued : Held(id)
    BY <1>2, <2>1, FaultsGrow DEF Used, Holding, Inv, TypeOK
  <2>3. CASE \E c \in Clients : Arrive(c) \/ Progress(c)
    BY <2>2, <2>3, ArriveHolds, ProgressHolds DEF HeldOn
  <2>4. CASE (\E p \in Pods, id \in Ids : Expire(p, id)) \/ (\E b \in Configured : Flap(b)) \/ UNCHANGED vars
    <3>1. UNCHANGED <<load, memory, req, issued>>
      BY <2>1, <2>4 DEF Expire, Flap, vars, stores
    <3> QED BY <2>2, <3>1 DEF Held, InFlight
  <2> QED BY <1>2, <2>3, <2>4, FaultsGrow DEF Next, Holding
<1> QED BY <1>1, <1>2 DEF Holding

\* While no pod restarts and nothing is deleted, a context whose create() is
\* over is held by the memory of a pod, however the backends come and go and
\* whatever is updated: "Memory (always)" in the docstring of StorageService.
THEOREM MemoryHolds == Spec => []MemoryHoldsCreated
<1>1. Init => Holding
  BY DEF Init, Holding
<1>2. Inv /\ Holding /\ [Next]_vars => Holding'
  BY HoldingKept
<1>3. Holding => MemoryHoldsCreated
  BY DEF Holding, Held, MemoryHoldsCreated
<1> QED BY <1>1, <1>2, <1>3, Invariance, PTL DEF Spec
-----------------------------------------------------------------------------
(* What a step of a client does, said of the request q it finds, or begins  *)
(* with, and of the request r it leaves.                                    *)

\* A request that has just arrived.
Fresh(c, q) ==
  /\ req[c] = None /\ q \in Requests /\ q.pod \in load.pods /\ q.op \in load.ops[c]
  /\ q.stage = First(q.pod) /\ q.old = None /\ q.row = None /\ \A i \in Ids : q.items[i] = None

FreshLookup(c, q) ==
  /\ Fresh(c, q) /\ q.phase = "read" /\ q.op \in {"get", "update", "delete"}
  /\ q.id \in known \cap load.ids[c] /\ q.new = None /\ q.seen = {}
  /\ q.op = "update" => q.body \in load.updates

FreshList(c, q) ==
  Fresh(c, q) /\ q.phase = "list" /\ q.op = "list" /\ q.id = None /\ q.new = None /\ q.seen = known

FreshCreate(c, q) ==
  /\ Fresh(c, q) /\ q.op = "create" /\ q.id \in load.ids[c] \ issued
  /\ q.new \in Creates /\ q.seen = {}

\* The request is the same but for where it is and what it has read.
Same(q, r) ==
  /\ q \in Requests /\ r \in Requests
  /\ r.pod = q.pod /\ r.op = q.op /\ r.id = q.id /\ r.body = q.body /\ r.seen = q.seen

Writing(r) == r.phase \in {"store", "remove"}

\* It reads a backend, or goes on to the next; loads a row; repeats a failed
\* attempt; has the keys, or one more context of its listing.
Reads(q, r) ==
  /\ q.phase = "read" /\ q.stage \in Backends /\ up[q.stage]
  /\ r.phase = "reply" /\ r.stage = q.stage /\ r.old = disk[q.stage][q.id] /\ r.items = q.items

Skips(q, r) ==
  /\ q.stage \in Backends /\ (~up[q.stage] \/ (q.phase = "read" /\ ~Readable(q.stage, q.id)))
  /\ r.phase = q.phase /\ r.stage = After(q.pod, q.stage) /\ r.old = q.old /\ r.items = q.items

Loads(q, r) ==
  /\ Writing(q) /\ q.stage = "pg" /\ up["pg"]
  /\ r.phase = q.phase /\ r.stage = "commit" /\ r.old = q.old /\ r.items = q.items
  /\ r.row = disk["pg"][q.id]

Repeats(q, r) ==
  /\ Writing(q) /\ q.stage = "redis"
  /\ r.phase = q.phase /\ r.stage \in {"redis", "memory"} /\ r.old = q.old /\ r.items = q.items

HasKeys(q, r) ==
  /\ q.phase = "list" /\ q.stage = "redis" /\ up["redis"]
  /\ r.phase = "list" /\ r.stage = "keys" /\ r.old = q.old /\ r.items = q.items
  /\ r.left = {i \in Ids : disk["redis"][i] # None}

HasKey(q, r, id) ==
  /\ q.phase = "list" /\ q.stage = "keys" /\ id \in q.left
  /\ r.phase = "list" /\ r.stage = "keys" /\ r.old = q.old
  /\ r.left = q.left \ {id}
  /\ r.items = [q.items EXCEPT ![id] = IF up["redis"] /\ Readable("redis", id)
                                       THEN disk["redis"][id] ELSE None]

Commits(q, r) ==
  /\ Writing(q) /\ q.stage = "commit"
  /\ r.phase = q.phase /\ r.stage = After(q.pod, "pg") /\ r.old = q.old /\ r.items = q.items

\* What PostgreSQL holds after the commit of q.
Committed(q) ==
  IF q.phase = "store"
  THEN IF up["pg"] /\ Valid(q.new) /\ (q.row = None <=> disk["pg"][q.id] = None)
       THEN Put(disk, "pg", q.id, CommitRow(disk["pg"][q.id], q.row, q.new)) ELSE disk
  ELSE IF up["pg"] /\ q.row # None THEN Put(disk, "pg", q.id, None) ELSE disk

\* A waiting request goes on waiting.
Turns(c, q, r) ==
  /\ q = req[c] /\ Same(q, r) /\ r.new = q.new /\ Wait(c, r)
  /\ UNCHANGED <<up, avail, load, memory, cache, issued>>
  /\ \/ disk' = disk /\ (Reads(q, r) \/ Skips(q, r) \/ Loads(q, r) \/ HasKeys(q, r))
     \/ disk' = disk /\ Repeats(q, r) /\ ~up["redis"]
     \/ disk' = disk /\ \E id \in Ids : HasKey(q, r, id)
     \/ disk' = Committed(q) /\ Commits(q, r)
     \/ disk' = Put(disk, "redis", q.id, q.new) /\ Repeats(q, r) /\ up["redis"]

TurnsOn(c) == \E q, r : Turns(c, q, r)

LEMMA RequestFields ==
  ASSUME NEW q \in Requests
  PROVE  /\ q.pod \in Pods /\ q.op \in Operations /\ q.id \in Ids \cup {None}
         /\ q.body \in Creates \cup Updates \cup {None}
         /\ q.phase \in {"read", "reply", "store", "remove", "list"}
         /\ q.stage \in Stages \cup {"commit", "keys"} /\ q.tries \in 0 .. RetryAttempts - 1
         /\ q.old \in Ctx \cup {None} /\ q.new \in Ctx \cup {None} /\ q.row \in Ctx \cup {None}
         /\ q.left \in SUBSET Ids /\ q.items \in [Ids -> Ctx \cup {None}] /\ q.seen \in SUBSET Ids
         /\ 0 \in 0 .. RetryAttempts - 1
BY RetryAssumption DEF Requests

LEMMA GoOnTurns ==
  ASSUME Inv, NEW c \in Clients, req[c] # None, GoOn(c), req[c].stage \in Backends,
         ~up[req[c].stage] \/ (req[c].phase = "read" /\ ~Readable(req[c].stage, req[c].id))
  PROVE  TurnsOn(c)
<1>1. PICK q \in Requests : q = req[c]
  BY OwnRequest
<1>2. PICK s \in Stages : s = After(q.pod, q.stage)
  BY StageType
<1>3. PICK r : r = [q EXCEPT !.stage = s, !.row = None, !.tries = 0]
  OBVIOUS
<1>4. /\ Same(q, r) /\ r.new = q.new /\ r.phase = q.phase /\ r.stage = s /\ r.old = q.old
      /\ r.items = q.items
  <2>1. 0 \in 0 .. RetryAttempts - 1
    BY RetryAssumption
  <2> QED BY <1>3, <2>1 DEF Requests, Same
<1>5. Move(c, r)
  BY <1>1, <1>2, <1>3 DEF GoOn
<1>6. Wait(c, r) /\ UNCHANGED <<up, avail, load, memory, cache, issued>> /\ disk' = disk
  BY <1>5 DEF Move, env, stores
<1>7. Skips(q, r)
  BY <1>1, <1>2, <1>4 DEF Skips
<1> QED BY <1>1, <1>4, <1>6, <1>7 DEF Turns, TurnsOn

LEMMA ReadTurns ==
  ASSUME Inv, NEW c \in Clients, ReadBackend(c)
  PROVE  TurnsOn(c)
<1>1. PICK b \in Backends :
        /\ At(c, "read", b)
        /\ IF up[b] /\ Readable(b, req[c].id)
           THEN Move(c, [req[c] EXCEPT !.phase = "reply", !.old = disk[b][req[c].id]])
           ELSE GoOn(c)
  BY DEF ReadBackend
<1>2. req[c] # None /\ req[c].phase = "read" /\ req[c].stage = b
  BY <1>1 DEF At
<1>3. CASE up[b] /\ Readable(b, req[c].id)
  <2>1. PICK q \in Requests : q = req[c] /\ q.id \in Ids
    BY <1>2, OwnRequest DEF Sound
  <2>2. PICK v \in Ctx \cup {None} : v = disk[b][q.id]
    BY <2>1 DEF Inv, TypeOK
  <2>3. PICK r : r = [q EXCEPT !.phase = "reply", !.old = v]
    OBVIOUS
  <2>4. /\ Same(q, r) /\ r.new = q.new /\ r.phase = "reply" /\ r.stage = q.stage /\ r.old = v
        /\ r.items = q.items
    BY <2>3 DEF Requests, Same
  <2>5. Move(c, r)
    BY <1>1, <1>3, <2>1, <2>2, <2>3
  <2>6. Wait(c, r) /\ UNCHANGED <<up, avail, load, memory, cache, issued>> /\ disk' = disk
    BY <2>5 DEF Move, env, stores
  <2>7. Reads(q, r)
    BY <1>2, <1>3, <2>1, <2>2, <2>4 DEF Reads
  <2> QED BY <2>1, <2>4, <2>6, <2>7 DEF Turns, TurnsOn
<1>4. CASE ~(up[b] /\ Readable(b, req[c].id))
  BY <1>1, <1>2, <1>4, GoOnTurns
<1> QED BY <1>3, <1>4

LEMMA LoadRowTurns ==
  ASSUME Inv, NEW c \in Clients, LoadRow(c)
  PROVE  TurnsOn(c)
<1>1. req[c] # None /\ req[c].stage = "pg" /\ req[c].phase \in {"store", "remove"}
  BY DEF LoadRow, At
<1>2. CASE up["pg"]
  <2>1. PICK q \in Requests : q = req[c] /\ q.id \in Ids
    BY <1>1, OwnRequest DEF Sound
  <2>2. PICK v \in Ctx \cup {None} : v = disk["pg"][q.id]
    BY <2>1 DEF Inv, TypeOK, Backends
  <2>3. PICK r : r = [q EXCEPT !.stage = "commit", !.row = v]
    OBVIOUS
  <2>4. /\ Same(q, r) /\ r.new = q.new /\ r.phase = q.phase /\ r.stage = "commit" /\ r.old = q.old
        /\ r.items = q.items /\ r.row = v
    BY <2>3 DEF Requests, Same
  <2>5. Move(c, r)
    BY <1>2, <2>1, <2>2, <2>3 DEF LoadRow
  <2>6. Wait(c, r) /\ UNCHANGED <<up, avail, load, memory, cache, issued>> /\ disk' = disk
    BY <2>5 DEF Move, env, stores
  <2>7. Loads(q, r)
    BY <1>1, <1>2, <2>1, <2>2, <2>4 DEF Loads, Writing
  <2> QED BY <2>1, <2>4, <2>6, <2>7 DEF Turns, TurnsOn
<1>3. CASE ~up["pg"]
  BY <1>1, <1>3, GoOnTurns DEF LoadRow, Backends
<1> QED BY <1>2, <1>3

LEMMA CommitTurns ==
  ASSUME Inv, NEW c \in Clients, CommitStore(c) \/ CommitDelete(c)
  PROVE  TurnsOn(c)
<1>1. req[c] # None /\ req[c].stage = "commit" /\ req[c].phase \in {"store", "remove"}
  BY DEF CommitStore, CommitDelete, At
<1>2. PICK q \in Requests : q = req[c]
  BY <1>1, OwnRequest
<1>3. PICK s \in Stages : s = After(q.pod, "pg")
  BY StageType
<1>4. PICK r : r = [q EXCEPT !.stage = s, !.row = None]
  OBVIOUS
<1>5. /\ Same(q, r) /\ r.new = q.new /\ r.phase = q.phase /\ r.stage = s /\ r.old = q.old
      /\ r.items = q.items
  BY <1>4 DEF Requests, Same
<1>6. Wait(c, r) /\ UNCHANGED <<up, avail, load, memory, cache, issued>>
  BY <1>2, <1>3, <1>4 DEF CommitStore, CommitDelete, env
<1>7. disk' = Committed(q)
  <2>1. CASE CommitStore(c)
    BY <1>2, <2>1 DEF CommitStore, At, Committed
  <2>2. CASE CommitDelete(c)
    BY <1>2, <2>2 DEF CommitDelete, At, Committed
  <2> QED BY <2>1, <2>2
<1>8. Commits(q, r)
  BY <1>1, <1>2, <1>3, <1>5 DEF Commits, Writing
<1> QED BY <1>2, <1>5, <1>6, <1>7, <1>8 DEF Turns, TurnsOn

LEMMA RetryRepeats ==
  ASSUME NEW q \in Requests, q.stage = "redis", Writing(q)
  PROVE  /\ Same(q, Retry(q)) /\ Retry(q).new = q.new /\ Repeats(q, Retry(q))
         /\ \A r : r = [q EXCEPT !.stage = After(q.pod, "redis"), !.tries = 0] =>
              Same(q, r) /\ r.new = q.new /\ Repeats(q, r)
<1>0. After(q.pod, "redis") = "memory"
  BY DEF After
<1>1. ASSUME NEW r, r = [q EXCEPT !.stage = "memory", !.tries = 0]
      PROVE  Same(q, r) /\ r.new = q.new /\ Repeats(q, r)
  <2>1. 0 \in 0 .. RetryAttempts - 1 /\ "memory" \in Stages
    BY RetryAssumption DEF Stages
  <2>2. Same(q, r) /\ r.new = q.new /\ r.phase = q.phase /\ r.stage = "memory" /\ r.old = q.old
        /\ r.items = q.items
    BY <1>1, <2>1 DEF Requests, Same
  <2> QED BY <2>2 DEF Repeats
<1>2. CASE q.tries + 1 < RetryAttempts
  <2>1. PICK n \in 0 .. RetryAttempts - 1 : n = q.tries + 1
    <3>1. q.tries \in 0 .. RetryAttempts - 1
      BY DEF Requests
    <3> QED BY <1>2, <3>1, RetryAssumption
  <2>2. PICK r : r = [q EXCEPT !.tries = n]
    OBVIOUS
  <2>3. Same(q, r) /\ r.new = q.new /\ Repeats(q, r)
    BY <2>2 DEF Requests, Same, Repeats
  <2>4. Retry(q) = r
    BY <1>2, <2>1, <2>2 DEF Retry
  <2> QED BY <1>0, <1>1, <2>3, <2>4
<1>3. CASE ~(q.tries + 1 < RetryAttempts)
  BY <1>0, <1>1, <1>3 DEF Retry
<1> QED BY <1>2, <1>3

LEMMA RedisTurns ==
  ASSUME Inv, NEW c \in Clients, WriteRedis(c) \/ FailRedis(c)
  PROVE  TurnsOn(c)
<1>1. req[c] # None /\ req[c].stage = "redis" /\ req[c].phase \in {"store", "remove"}
  BY DEF WriteRedis, FailRedis, At
<1>2. PICK q \in Requests : q = req[c]
  BY <1>1, OwnRequest
<1>3. PICK r : /\ Wait(c, r)
               /\ r = Retry(q) \/ r = [q EXCEPT !.stage = After(q.pod, "redis"), !.tries = 0]
  BY <1>2 DEF WriteRedis, FailRedis, Move
<1>4. Same(q, r) /\ r.new = q.new /\ Repeats(q, r)
  BY <1>1, <1>2, <1>3, RetryRepeats DEF Writing
<1>5. UNCHANGED <<up, avail, load, memory, cache, issued>>
  BY DEF WriteRedis, FailRedis, Move, env, stores
<1>6. \/ up["redis"] /\ disk' = Put(disk, "redis", q.id, q.new)
      \/ ~up["redis"] /\ disk' = disk
  BY <1>2 DEF WriteRedis, FailRedis, Move, stores
<1> QED BY <1>2, <1>3, <1>4, <1>5, <1>6 DEF Turns, TurnsOn

LEMMA ListKeysTurns ==
  ASSUME Inv, NEW c \in Clients, ListKeys(c)
  PROVE  TurnsOn(c)
<1>1. req[c] # None /\ req[c].phase = "list" /\ req[c].stage = "redis"
  BY DEF ListKeys, At
<1>2. CASE up["redis"]
  <2>1. PICK q \in Requests : q = req[c]
    BY <1>1, OwnRequest
  <2>2. PICK left \in SUBSET Ids : left = {i \in Ids : disk["redis"][i] # None}
    OBVIOUS
  <2>3. PICK r : r = [q EXCEPT !.stage = "keys", !.left = left]
    OBVIOUS
  <2>4. /\ Same(q, r) /\ r.new = q.new /\ r.phase = q.phase /\ r.stage = "keys" /\ r.old = q.old
        /\ r.items = q.items /\ r.left = left
    BY <2>3 DEF Requests, Same
  <2>5. Move(c, r)
    BY <1>2, <2>1, <2>2, <2>3 DEF ListKeys
  <2>6. Wait(c, r) /\ UNCHANGED <<up, avail, load, memory, cache, issued>> /\ disk' = disk
    BY <2>5 DEF Move, env, stores
  <2>7. HasKeys(q, r)
    BY <1>1, <1>2, <2>1, <2>2, <2>4 DEF HasKeys
  <2> QED BY <2>1, <2>4, <2>6, <2>7 DEF Turns, TurnsOn
<1>3. CASE ~up["redis"]
  BY <1>1, <1>3, GoOnTurns DEF ListKeys, Backends
<1> QED BY <1>2, <1>3

LEMMA ListKeyTurns ==
  ASSUME Inv, NEW c \in Clients, NEW id \in Ids, ListKey(c, id)
  PROVE  TurnsOn(c)
<1>1. req[c] # None /\ req[c].phase = "list" /\ req[c].stage = "keys" /\ id \in req[c].left
  BY DEF ListKey, At
<1>2. PICK q \in Requests : q = req[c]
  BY <1>1, OwnRequest
<1>3. PICK v \in Ctx \cup {None} :
        v = IF up["redis"] /\ Readable("redis", id) THEN disk["redis"][id] ELSE None
  BY DEF Inv, TypeOK, Backends
<1>4. PICK left \in SUBSET Ids, items \in [Ids -> Ctx \cup {None}] :
        left = q.left \ {id} /\ items = [q.items EXCEPT ![id] = v]
  BY DEF Requests
<1>5. PICK r : r = [q EXCEPT !.left = left, !.items = items]
  OBVIOUS
<1>6. /\ Same(q, r) /\ r.new = q.new /\ r.phase = q.phase /\ r.stage = q.stage /\ r.old = q.old
      /\ r.items = items /\ r.left = left
  BY <1>5 DEF Requests, Same
<1>7. Move(c, r)
  <2>1. Move(c, [q EXCEPT !.left = @ \ {id}, !.items[id] = v])
    BY <1>2, <1>3 DEF ListKey
  <2>2. [q EXCEPT !.left = @ \ {id}, !.items[id] = v] = r
    BY <1>4, <1>5 DEF Requests
  <2> QED BY <2>1, <2>2
<1>8. Wait(c, r) /\ UNCHANGED <<up, avail, load, memory, cache, issued>> /\ disk' = disk
  BY <1>7 DEF Move, env, stores
<1>9. HasKey(q, r, id)
  BY <1>1, <1>2, <1>3, <1>4, <1>6 DEF HasKey
<1> QED BY <1>2, <1>6, <1>8, <1>9 DEF Turns, TurnsOn
-----------------------------------------------------------------------------
(* The forms that a client's step takes.                                    *)

\* The last step of a write, with the context r.new to store or none.
Ends(c, r) == IF r.op = "delete" THEN EndDelete(c, r) ELSE EndStore(c, r)

\* The first step of a write: it waits for the first backend, if there is one.
Begins(c, r) ==
  IF First(r.pod) = "memory" THEN Ends(c, r)
  ELSE /\ r.stage = First(r.pod) /\ r.phase = (IF r.op = "delete" THEN "remove" ELSE "store")
       /\ Wait(c, r) /\ memory' = memory

Unmoved == UNCHANGED <<up, avail, load, disk, issued>>

\* A request arrives and waits for the first backend.
Asks(c, r) ==
  /\ FreshLookup(c, r) \/ FreshList(c, r)
  /\ r.stage # "memory" /\ Wait(c, r) /\ Unmoved /\ UNCHANGED <<memory, cache>>

\* A create() arrives.
Makes(c, r) ==
  /\ FreshCreate(c, r) /\ Begins(c, r)
  /\ cache' = Put(cache, r.pod, r.id, r.new) /\ issued' = issued \cup {r.id}
  /\ UNCHANGED <<up, avail, load, disk>>

\* The lookup of q ends with v, found in the cache, in memory, or in the
\* backend whose answer has come back; filled is the cache then.
Looks(c, q, v, filled) ==
  /\ q \in Requests /\ q.op \in {"get", "update", "delete"} /\ q.id \in Ids
  /\ q.op = "update" => q.body \in Updates
  /\ v \in Ctx \cup {None} /\ Unmoved
  /\ \/ /\ FreshLookup(c, q) /\ filled = cache
        /\ \/ v = cache[q.pod][q.id] /\ v # None
           \/ v = memory[q.pod][q.id] /\ First(q.pod) = "memory"
     \/ /\ req[c] # None /\ q = req[c] /\ q.phase = "reply" /\ v = q.old
        /\ filled = IF v = None THEN cache ELSE Put(cache, q.pod, q.id, v)
     \/ /\ req[c] # None /\ q = req[c] /\ q.phase = "read" /\ q.stage = "memory"
        /\ v = memory[q.pod][q.id] /\ filled = cache

\* Its answer: there is none, or it is what get() asked for.
Tells(c, q, v, filled) ==
  /\ Looks(c, q, v, filled) /\ cache' = filled /\ memory' = memory
  /\ \/ v = None /\ Respond(c, q, "404", None)
     \/ v # None /\ q.op = "get" /\ Respond(c, q, "ok", v)

\* What update() and delete() go on with.
Alters(c, q, v, filled, r) ==
  /\ Looks(c, q, v, filled) /\ v # None /\ q.op \in {"update", "delete"}
  /\ Same(q, r) /\ r.old = v /\ r.row = q.row /\ r.items = q.items
  /\ r.new = IF q.op = "update" THEN Merge(v, q.body) ELSE q.new
  /\ Begins(c, r)
  /\ cache' = Put(filled, q.pod, q.id, IF q.op = "update" THEN r.new ELSE None)

\* The answer of a listing.
Lists(c, q, value) ==
  /\ q \in Requests /\ q.op = "list" /\ Respond(c, q, "ok", value)
  /\ Unmoved /\ UNCHANGED <<memory, cache>>
  /\ FreshList(c, q) \/ (req[c] # None /\ q = req[c] /\ q.phase = "list")
  /\ \/ q.stage = "pg" /\ up["pg"] /\ value = disk["pg"]
     \/ q.stage = "keys" /\ q.left = {} /\ value = q.items
     \/ q.stage = "memory" /\ value = memory[q.pod]

\* A context with a null field has been taken from the cache or from memory.
Fails(c, q) ==
  /\ q \in Requests /\ Respond(c, q, "500", None)
  /\ Unmoved /\ UNCHANGED <<memory, cache>>
  /\ \E i \in Ids : \/ cache[q.pod][i] # None /\ ~Valid(cache[q.pod][i])
                    \/ memory[q.pod][i] # None /\ ~Valid(memory[q.pod][i])

\* A write ends in memory.
Closes(c, q) ==
  /\ req[c] # None /\ q = req[c] /\ q \in Requests /\ Writing(q) /\ q.stage = "memory"
  /\ Ends(c, q) /\ Unmoved /\ cache' = cache

AsksOn(c) == \E r : Asks(c, r)
MakesOn(c) == \E r : Makes(c, r)
TellsOn(c) == \E q, v, filled : Tells(c, q, v, filled)
AltersOn(c) == \E q, v, filled, r : Alters(c, q, v, filled, r)
ListsOn(c) == \E q, value : Lists(c, q, value)
FailsOn(c) == \E q : Fails(c, q)
ClosesOn(c) == \E q : Closes(c, q)

LEMMA FoundForms ==
  ASSUME Inv, NEW c \in Clients, NEW q, NEW v, NEW filled, Looks(c, q, v, filled), Found(c, q, v, filled)
  PROVE  TellsOn(c) \/ AltersOn(c)
<1>1. CASE v = None \/ q.op = "get"
  BY <1>1 DEF Found, Tells, TellsOn
<1>2. CASE v # None /\ q.op = "update"
  <2>1. PICK m \in Ctx : m = Merge(v, q.body)
    BY <1>2, BodyType DEF Looks
  <2>2. PICK w : w = [q EXCEPT !.old = v, !.new = m]
    OBVIOUS
  <2>3. q \in Requests /\ v \in Ctx \cup {None}
    BY DEF Looks
  <2>4. /\ Same(q, w) /\ w.old = v /\ w.new = m /\ w.row = q.row /\ w.items = q.items
    BY <2>2, <2>3 DEF Requests, Same
  <2>5. Store(c, w) /\ cache' = Put(filled, q.pod, q.id, m)
    BY <1>2, <2>1, <2>2 DEF Found
  <2>6. CASE First(q.pod) = "memory"
    <3>1. Ends(c, w)
      BY <1>2, <2>4, <2>5, <2>6 DEF Store, Ends, Same
    <3>2. Begins(c, w)
      BY <2>4, <2>6, <3>1 DEF Begins, Same
    <3> QED BY <1>2, <2>1, <2>4, <2>5, <3>2 DEF Alters, AltersOn
  <2>7. CASE First(q.pod) # "memory"
    <3>1. PICK s \in Stages : s = First(q.pod)
      BY StageType
    <3>2. PICK r : r = [w EXCEPT !.phase = "store", !.stage = s]
      OBVIOUS
    <3>3. w \in Requests
      BY <2>4 DEF Same
    <3>4. /\ r \in Requests /\ r.pod = w.pod /\ r.op = w.op /\ r.id = w.id /\ r.body = w.body /\ r.seen = w.seen
          /\ r.old = w.old /\ r.new = w.new /\ r.row = w.row /\ r.items = w.items
          /\ r.phase = "store" /\ r.stage = s
      BY <3>2, <3>3 DEF Requests
    <3>5. Wait(c, r) /\ memory' = memory
      BY <2>4, <2>5, <2>7, <3>1, <3>2 DEF Store, Same
    <3>6. Same(q, r) /\ r.old = v /\ r.row = q.row /\ r.items = q.items /\ r.new = m
      BY <2>4, <3>4 DEF Same
    <3>7. Begins(c, r)
      BY <1>2, <2>7, <3>1, <3>4, <3>5, <3>6 DEF Begins, Same
    <3> QED BY <1>2, <2>1, <2>5, <3>6, <3>7 DEF Alters, AltersOn
  <2> QED BY <2>6, <2>7
<1>3. CASE v # None /\ q.op = "delete"
  <2>2. PICK w : w = [q EXCEPT !.old = v]
    OBVIOUS
  <2>3. q \in Requests /\ v \in Ctx \cup {None}
    BY DEF Looks
  <2>4. /\ Same(q, w) /\ w.old = v /\ w.new = q.new /\ w.row = q.row /\ w.items = q.items
    BY <2>2, <2>3 DEF Requests, Same
  <2>5. Remove(c, w) /\ cache' = Put(filled, q.pod, q.id, None)
    BY <1>3, <2>2 DEF Found
  <2>6. CASE First(q.pod) = "memory"
    <3>1. Ends(c, w)
      BY <1>3, <2>4, <2>5, <2>6 DEF Remove, Ends, Same
    <3>2. Begins(c, w)
      BY <2>4, <2>6, <3>1 DEF Begins, Same
    <3> QED BY <1>3, <2>4, <2>5, <3>2 DEF Alters, AltersOn
  <2>7. CASE First(q.pod) # "memory"
    <3>1. PICK s \in Stages : s = First(q.pod)
      BY StageType
    <3>2. PICK r : r = [w EXCEPT !.phase = "remove", !.stage = s]
      OBVIOUS
    <3>3. w \in Requests
      BY <2>4 DEF Same
    <3>4. /\ r \in Requests /\ r.pod = w.pod /\ r.op = w.op /\ r.id = w.id /\ r.body = w.body /\ r.seen = w.seen
          /\ r.old = w.old /\ r.new = w.new /\ r.row = w.row /\ r.items = w.items
          /\ r.phase = "remove" /\ r.stage = s
      BY <3>2, <3>3 DEF Requests
    <3>5. Wait(c, r) /\ memory' = memory
      BY <2>4, <2>5, <2>7, <3>1, <3>2 DEF Remove, Same
    <3>6. Same(q, r) /\ r.old = v /\ r.row = q.row /\ r.items = q.items /\ r.new = q.new
      BY <2>4, <3>4 DEF Same
    <3>7. Begins(c, r)
      BY <1>3, <2>7, <3>1, <3>4, <3>5, <3>6 DEF Begins, Same
    <3> QED BY <1>3, <2>5, <3>6, <3>7 DEF Alters, AltersOn
  <2> QED BY <2>6, <2>7
<1> QED BY <1>1, <1>2, <1>3 DEF Looks

LEMMA TakenForms ==
  ASSUME Inv, NEW c \in Clients, NEW q, NEW v, Looks(c, q, v, cache), Taken(c, q, v),
         \E i \in Ids : v = cache[q.pod][i] \/ v = memory[q.pod][i]
  PROVE  TellsOn(c) \/ AltersOn(c) \/ FailsOn(c)
<1>1. CASE v = None \/ Valid(v)
  <2>1. PICK filled : filled = cache
    OBVIOUS
  <2> QED BY <1>1, <2>1, FoundForms DEF Taken
<1>2. CASE ~(v = None \/ Valid(v))
  BY <1>2 DEF Taken, Fails, FailsOn, Looks
<1> QED BY <1>1, <1>2

\* The fields of NewReq.
LEMMA NewReqFields ==
  ASSUME NEW p \in Pods, NEW op \in Operations, NEW id \in Ids \cup {None},
         NEW body \in Creates \cup Updates \cup {None}, NEW r, r = NewReq(p, op, id, body)
  PROVE  /\ r \in Requests /\ r.pod = p /\ r.op = op /\ r.id = id /\ r.body = body
         /\ r.phase = "read" /\ r.stage = First(p) /\ r.old = None /\ r.new = None /\ r.row = None
         /\ r.left = {} /\ r.seen = {} /\ \A i \in Ids : r.items[i] = None
BY StageType, RetryAssumption DEF NewReq, Requests

LEMMA LookupForms ==
  ASSUME Inv, NEW c \in Clients, NEW p \in load.pods, NEW id \in known \cap load.ids[c],
         NEW op \in {"get", "update", "delete"}, op \in load.ops[c],
         NEW body \in Updates \cup {None}, op = "update" => body \in load.updates,
         Lookup(c, p, op, id, body)
  PROVE  AsksOn(c) \/ TellsOn(c) \/ AltersOn(c) \/ FailsOn(c)
<1>1. /\ p \in Pods /\ id \in Ids /\ Unmoved /\ req[c] = None /\ load.updates \subseteq Updates
  BY LoadType DEF Inv, TypeOK, Lookup, env, Unmoved
<1>2. PICK r : r = NewReq(p, op, id, body)
  OBVIOUS
<1>3. /\ r \in Requests /\ r.pod = p /\ r.op = op /\ r.id = id /\ r.body = body /\ r.phase = "read"
      /\ r.stage = First(p) /\ r.old = None /\ r.new = None /\ r.row = None /\ r.seen = {}
      /\ \A i \in Ids : r.items[i] = None
  BY <1>1, <1>2, NewReqFields DEF Operations
<1>4. FreshLookup(c, r)
  BY <1>1, <1>3 DEF FreshLookup, Fresh
<1>5. ASSUME NEW v \in Ctx \cup {None},
             (v = cache[p][id] /\ v # None) \/ (v = memory[p][id] /\ First(p) = "memory")
      PROVE  Looks(c, r, v, cache)
  BY <1>1, <1>3, <1>4, <1>5 DEF Looks
<1>6. CASE cache[p][id] # None
  <2>1. PICK v \in Ctx \cup {None} : v = cache[p][id]
    BY <1>1 DEF Inv, TypeOK
  <2>2. Taken(c, r, v)
    BY <1>2, <1>6, <2>1 DEF Lookup
  <2> QED BY <1>1, <1>3, <1>5, <1>6, <2>1, <2>2, TakenForms
<1>7. CASE cache[p][id] = None /\ First(p) = "memory"
  <2>1. PICK v \in Ctx \cup {None} : v = memory[p][id]
    BY <1>1 DEF Inv, TypeOK
  <2>2. Taken(c, r, v)
    BY <1>2, <1>7, <2>1 DEF Lookup
  <2> QED BY <1>1, <1>3, <1>5, <1>7, <2>1, <2>2, TakenForms
<1>8. CASE cache[p][id] = None /\ First(p) # "memory"
  <2>1. Wait(c, r) /\ UNCHANGED <<memory, cache>>
    BY <1>2, <1>8 DEF Lookup
  <2> QED BY <1>1, <1>3, <1>4, <1>8, <2>1 DEF Asks, AsksOn
<1> QED BY <1>6, <1>7, <1>8

LEMMA ListMemoryForms ==
  ASSUME Inv, NEW c \in Clients, NEW q \in Requests, q.op = "list", q.stage = "memory",
         FreshList(c, q) \/ (req[c] # None /\ q = req[c] /\ q.phase = "list"),
         ListMemory(c, q), Unmoved
  PROVE  ListsOn(c) \/ FailsOn(c)
<1>1. CASE \A i \in Ids : memory[q.pod][i] = None \/ Valid(memory[q.pod][i])
  <2>1. PICK value : value = memory[q.pod]
    OBVIOUS
  <2>2. Respond(c, q, "ok", value) /\ UNCHANGED <<memory, cache>>
    BY <1>1, <2>1 DEF ListMemory
  <2> QED BY <2>1, <2>2 DEF Lists, ListsOn
<1>2. CASE ~\A i \in Ids : memory[q.pod][i] = None \/ Valid(memory[q.pod][i])
  <2>1. Respond(c, q, "500", None) /\ UNCHANGED <<memory, cache>>
    BY <1>2 DEF ListMemory
  <2> QED BY <1>2, <2>1 DEF Fails, FailsOn
<1> QED BY <1>1, <1>2

LEMMA ListForms ==
  ASSUME Inv, NEW c \in Clients, NEW p \in load.pods, "list" \in load.ops[c], List(c, p)
  PROVE  AsksOn(c) \/ ListsOn(c) \/ FailsOn(c)
<1>1. p \in Pods /\ Unmoved /\ req[c] = None /\ known \in SUBSET Ids
  BY LoadType DEF Inv, TypeOK, List, env, Unmoved
<1>2. PICK n : n = NewReq(p, "list", None, None)
  OBVIOUS
<1>3. /\ n \in Requests /\ n.pod = p /\ n.op = "list" /\ n.id = None /\ n.stage = First(p)
      /\ n.old = None /\ n.new = None /\ n.row = None /\ \A i \in Ids : n.items[i] = None
  BY <1>1, <1>2, NewReqFields DEF Operations
<1>4. PICK r : r = [n EXCEPT !.phase = "list", !.seen = known]
  OBVIOUS
<1>5. /\ r \in Requests /\ r.pod = p /\ r.op = "list" /\ r.id = None /\ r.phase = "list" /\ r.stage = First(p)
      /\ r.old = None /\ r.new = None /\ r.row = None /\ r.seen = known /\ \A i \in Ids : r.items[i] = None
  BY <1>1, <1>3, <1>4 DEF Requests
<1>6. FreshList(c, r)
  BY <1>1, <1>5 DEF FreshList, Fresh
<1>7. IF First(p) = "memory" THEN ListMemory(c, r) ELSE Wait(c, r) /\ UNCHANGED <<memory, cache>>
  BY <1>2, <1>4 DEF List
<1>8. CASE First(p) = "memory"
  BY <1>1, <1>5, <1>6, <1>7, <1>8, ListMemoryForms
<1>9. CASE First(p) # "memory"
  BY <1>1, <1>5, <1>6, <1>7, <1>9 DEF Asks, AsksOn
<1> QED BY <1>8, <1>9

LEMMA CreateForms ==
  ASSUME Inv, NEW c \in Clients, NEW p \in load.pods, NEW id \in load.ids[c], NEW body \in Creates,
         "create" \in load.ops[c], Create(c, p, id, body)
  PROVE  MakesOn(c)
<1>1. /\ p \in Pods /\ id \in Ids /\ id \notin issued /\ issued' = issued \cup {id} /\ body \in Ctx
      /\ req[c] = None /\ UNCHANGED <<up, avail, load, disk>>
  BY LoadType, BodyType DEF Inv, Create, env
<1>2. PICK n : n = NewReq(p, "create", id, body)
  OBVIOUS
<1>3. /\ n \in Requests /\ n.pod = p /\ n.op = "create" /\ n.id = id /\ n.stage = First(p) /\ n.old = None
      /\ n.row = None /\ n.seen = {} /\ \A i \in Ids : n.items[i] = None
  BY <1>1, <1>2, NewReqFields DEF Operations
<1>4. PICK w : w = [n EXCEPT !.new = body]
  OBVIOUS
<1>5. /\ w \in Requests /\ w.pod = p /\ w.op = "create" /\ w.id = id /\ w.stage = First(p) /\ w.old = None
      /\ w.new = body /\ w.row = None /\ w.seen = {} /\ \A i \in Ids : w.items[i] = None
  BY <1>1, <1>3, <1>4 DEF Requests
<1>6. Store(c, w) /\ cache' = Put(cache, p, id, body)
  BY <1>2, <1>4 DEF Create
<1>7. CASE First(p) = "memory"
  <2>1. Begins(c, w)
    BY <1>5, <1>6, <1>7 DEF Begins, Ends, Store
  <2>2. FreshCreate(c, w)
    BY <1>1, <1>5 DEF FreshCreate, Fresh
  <2> QED BY <1>1, <1>5, <1>6, <2>1, <2>2 DEF Makes, MakesOn
<1>8. CASE First(p) # "memory"
  <2>1. PICK s \in Stages : s = First(p)
    BY StageType
  <2>2. PICK r : r = [w EXCEPT !.phase = "store", !.stage = s]
    OBVIOUS
  <2>3. /\ r \in Requests /\ r.pod = p /\ r.op = "create" /\ r.id = id /\ r.stage = s /\ r.old = None
        /\ r.new = body /\ r.row = None /\ r.seen = {} /\ r.phase = "store" /\ \A i \in Ids : r.items[i] = None
    BY <1>5, <2>2 DEF Requests
  <2>4. Wait(c, r) /\ memory' = memory
    BY <1>5, <1>6, <1>8, <2>1, <2>2 DEF Store
  <2>5. Begins(c, r)
    BY <1>8, <2>1, <2>3, <2>4 DEF Begins
  <2>6. FreshCreate(c, r)
    BY <1>1, <2>1, <2>3 DEF FreshCreate, Fresh
  <2> QED BY <1>1, <1>6, <2>3, <2>5, <2>6 DEF Makes, MakesOn
<1> QED BY <1>7, <1>8

LEMMA ArriveForms ==
  ASSUME Inv, NEW c \in Clients, Arrive(c)
  PROVE  AsksOn(c) \/ MakesOn(c) \/ TellsOn(c) \/ AltersOn(c) \/ ListsOn(c) \/ FailsOn(c)
<1>1. PICK p \in load.pods :
        \/ /\ "create" \in load.ops[c]
           /\ \E id \in load.ids[c], body \in Creates : Create(c, p, id, body)
        \/ "list" \in load.ops[c] /\ List(c, p)
        \/ \E id \in known \cap load.ids[c] :
             \/ \E op \in load.ops[c] \cap {"get", "delete"} : Lookup(c, p, op, id, None)
             \/ /\ "update" \in load.ops[c]
                /\ \E body \in load.updates : Lookup(c, p, "update", id, body)
  BY DEF Arrive
<1>2. ASSUME NEW id \in known \cap load.ids[c], NEW op \in load.ops[c] \cap {"get", "delete"},
             Lookup(c, p, op, id, None)
      PROVE  AsksOn(c) \/ TellsOn(c) \/ AltersOn(c) \/ FailsOn(c)
  BY <1>2, LookupForms
<1>3. ASSUME NEW id \in known \cap load.ids[c], "update" \in load.ops[c],
             NEW body \in load.updates, Lookup(c, p, "update", id, body)
      PROVE  AsksOn(c) \/ TellsOn(c) \/ AltersOn(c) \/ FailsOn(c)
  <2>1. body \in Updates
    BY <1>3, LoadType DEF Inv
  <2> QED BY <1>3, <2>1, LookupForms
<1> QED BY <1>1, <1>2, <1>3, ListForms, CreateForms

LEMMA ProgressForms ==
  ASSUME Inv, NEW c \in Clients, Progress(c)
  PROVE  TurnsOn(c) \/ TellsOn(c) \/ AltersOn(c) \/ ListsOn(c) \/ FailsOn(c) \/ ClosesOn(c)
<1>1. CASE Resume(c)
  <2>1. PICK q \in Requests, v \in Ctx \cup {None} : q = req[c] /\ v = q.old
    BY <1>1, OwnRequest DEF Resume, Requests
  <2>2. PICK filled : filled = IF v = None THEN cache ELSE Put(cache, q.pod, q.id, v)
    OBVIOUS
  <2>3. req[c] # None /\ q.phase = "reply" /\ Unmoved /\ Found(c, q, v, filled)
    BY <1>1, <2>1, <2>2 DEF Resume, env, Unmoved
  <2>4. q.op \in {"get", "update", "delete"} /\ q.id \in Ids /\ (q.op = "update" => q.body \in Updates)
    BY <2>1, <2>3, OwnRequest DEF Sound
  <2>5. Looks(c, q, v, filled)
    BY <2>1, <2>2, <2>3, <2>4 DEF Looks
  <2> QED BY <2>3, <2>5, FoundForms
<1>2. CASE ReadMemory(c)
  <2>1. PICK q \in Requests : q = req[c] /\ req[c] # None
    BY <1>2, OwnRequest DEF ReadMemory, At
  <2>2. q.phase = "read" /\ q.stage = "memory" /\ Unmoved /\ Taken(c, q, memory[q.pod][q.id])
    BY <1>2, <2>1 DEF ReadMemory, At, env, Unmoved
  <2>3. q.op \in {"get", "update", "delete"} /\ q.id \in Ids /\ q.pod \in Pods
        /\ (q.op = "update" => q.body \in Updates)
    BY <2>1, <2>2, OwnRequest DEF Sound
  <2>4. PICK v \in Ctx \cup {None} : v = memory[q.pod][q.id]
    BY <2>3 DEF Inv, TypeOK
  <2>5. Looks(c, q, v, cache)
    BY <2>1, <2>2, <2>3, <2>4 DEF Looks
  <2> QED BY <2>2, <2>3, <2>4, <2>5, TakenForms
<1>3. CASE WriteMemory(c)
  <2>1. PICK q \in Requests : q = req[c] /\ req[c] # None
    BY <1>3, OwnRequest DEF WriteMemory, At
  <2>2. Unmoved /\ cache' = cache
    BY <1>3 DEF WriteMemory, env, Unmoved
  <2>3. q.stage = "memory" /\ Writing(q) /\ Ends(c, q)
    BY <1>3, <2>1, OwnRequest DEF WriteMemory, At, Writing, Ends, Sound
  <2> QED BY <2>1, <2>2, <2>3 DEF Closes, ClosesOn
<1>4. CASE ListPg(c)
  <2>1. PICK q \in Requests : q = req[c] /\ req[c] # None /\ q.phase = "list" /\ q.stage = "pg" /\ q.op = "list"
    BY <1>4, OwnRequest DEF ListPg, At, Sound
  <2>2. CASE up["pg"]
    <3>1. PICK value : value = disk["pg"]
      OBVIOUS
    <3>2. Respond(c, q, "ok", value) /\ Unmoved /\ UNCHANGED <<memory, cache>>
      BY <1>4, <2>1, <2>2, <3>1 DEF ListPg, env, stores, Unmoved
    <3> QED BY <2>1, <2>2, <3>1, <3>2 DEF Lists, ListsOn
  <2>3. CASE ~up["pg"]
    BY <1>4, <2>1, <2>3, GoOnTurns DEF ListPg, Backends
  <2> QED BY <2>2, <2>3
<1>5. CASE ListEnd(c)
  <2>1. PICK q \in Requests : q = req[c] /\ req[c] # None /\ q.phase = "list" /\ q.stage = "keys" /\ q.op = "list"
    BY <1>5, OwnRequest DEF ListEnd, At, Sound
  <2>2. PICK value : value = q.items
    OBVIOUS
  <2>3. q.left = {} /\ Respond(c, q, "ok", value) /\ Unmoved /\ UNCHANGED <<memory, cache>>
    BY <1>5, <2>1, <2>2 DEF ListEnd, env, stores, Unmoved
  <2> QED BY <2>1, <2>2, <2>3 DEF Lists, ListsOn
<1>6. CASE ListFromMemory(c)
  <2>1. PICK q \in Requests : q = req[c] /\ req[c] # None /\ q.phase = "list" /\ q.stage = "memory" /\ q.op = "list"
    BY <1>6, OwnRequest DEF ListFromMemory, At, Sound
  <2>2. ListMemory(c, q) /\ Unmoved
    BY <1>6, <2>1 DEF ListFromMemory, env, Unmoved
  <2> QED BY <2>1, <2>2, ListMemoryForms
<1> QED BY <1>1, <1>2, <1>3, <1>4, <1>5, <1>6, ReadTurns, LoadRowTurns, CommitTurns, RedisTurns,
           ListKeysTurns, ListKeyTurns DEF Progress

\* What a step of a client may be.
ClientStep(c) ==
  \/ AsksOn(c) \/ MakesOn(c) \/ TurnsOn(c) \/ TellsOn(c) \/ AltersOn(c)
  \/ ListsOn(c) \/ FailsOn(c) \/ ClosesOn(c)

\* What a step in which no backend flaps and no pod restarts may be.
LEMMA Steps ==
  ASSUME Inv, [Next]_vars, ~\E b : Flap(b), ~\E p : Restart(p)
  PROVE  \/ \E c \in Clients : ClientStep(c)
         \/ \E p \in Pods, id \in Ids : Expire(p, id)
         \/ UNCHANGED vars
BY ArriveForms, ProgressForms DEF Next, ClientStep
-----------------------------------------------------------------------------
(* Contexts without null fields.                                            *)

\* No update of a workload sets a field to null.
Definite == \A l \in Workloads : \A body \in l.updates : \A f \in DOMAIN body : body[f] # Null

\* A context that a response can show, or none.
Showable(v) == v = None \/ Valid(v)
Clear(S, store) == \A x \in S, i \in Ids : Showable(store[x][i])
Clean(r) ==
  /\ Showable(r.old) /\ Showable(r.new)
  /\ r.op = "update" => r.body \in load.updates
  /\ r.op = "delete" => r.new = None

\* Without null updates, every context that is kept anywhere can be shown.
Whole ==
  /\ Clear(Backends, disk) /\ Clear(Pods, memory) /\ Clear(Pods, cache)
  /\ \A c \in Clients : req[c] # None => Clean(req[c])

LEMMA PutClear ==
  ASSUME NEW S, NEW store \in [S -> Stored], Clear(S, store),
         NEW x \in S, NEW id \in Ids, NEW v \in Ctx \cup {None}, Showable(v)
  PROVE  Clear(S, Put(store, x, id, v))
<1>1. ASSUME NEW y \in S, NEW i \in Ids PROVE Showable(Put(store, x, id, v)[y][i])
  <2>1. CASE y = x /\ i = id
    BY <2>1, PutType
  <2>2. CASE ~(y = x /\ i = id)
    <3>1. Put(store, x, id, v)[y][i] = store[y][i]
      BY <2>2, PutType
    <3> QED BY <3>1 DEF Clear
  <2> QED BY <2>1, <2>2
<1> QED BY <1>1 DEF Clear

LEMMA BodiesShow ==
  /\ \A body \in Creates : body \in Ctx /\ Valid(body)
  /\ Definite => \A l \in Workloads, v \in Ctx, body \in Updates :
       (body \in l.updates /\ Valid(v)) => Merge(v, body) \in Ctx /\ Valid(Merge(v, body))
<1>1. ASSUME NEW body \in Creates PROVE body \in Ctx /\ Valid(body)
  BY BodiesAssumption, NullAssumption DEF Ctx, Valid
<1>2. ASSUME Definite, NEW l \in Workloads, NEW v \in Ctx, NEW body \in Updates,
             body \in l.updates, Valid(v)
      PROVE  Merge(v, body) \in Ctx /\ Valid(Merge(v, body))
  <2>1. \A f \in DOMAIN body : body[f] # Null
    BY <1>2 DEF Definite
  <2> QED BY <1>2, <2>1, BodyType DEF Merge, Valid
<1> QED BY <1>1, <1>2

LEMMA WholeKeeps ==
  ASSUME Inv, Whole, NEW c \in Clients, NEW r \in Requests \cup {None},
         req' = [req EXCEPT ![c] = r], load' = load,
         Clear(Backends, disk)', Clear(Pods, memory)', Clear(Pods, cache)',
         r # None => Clean(r)
  PROVE  Whole'
<1>1. req'[c] = r /\ \A d \in Clients \ {c} : req'[d] = req[d]
  BY DEF Inv, TypeOK
<1>2. ASSUME NEW d \in Clients, req'[d] # None PROVE Clean(req[d])'
  <2>1. CASE d = c
    BY <1>1, <1>2, <2>1 DEF Clean
  <2>2. CASE d # c
    BY <1>1, <1>2, <2>2 DEF Whole, Clean
  <2> QED BY <2>1, <2>2
<1> QED BY <1>2 DEF Whole

LEMMA StoresType ==
  ASSUME Inv
  PROVE  /\ disk \in [Backends -> Stored] /\ memory \in [Pods -> Stored] /\ cache \in [Pods -> Stored]
         /\ "pg" \in Backends /\ "redis" \in Backends /\ None \notin Ctx
         /\ known \subseteq Ids /\ issued \subseteq Ids /\ known \subseteq issued
BY NoneAssumption DEF Inv, TypeOK, Stored, Backends

\* A waiting request that ends, or the one that begins, writes to memory.
LEMMA EndsWhole ==
  ASSUME Inv, Whole, NEW c \in Clients, NEW r \in Requests, r.id \in Ids, Clean(r), Ends(c, r)
  PROVE  Clear(Pods, memory)' /\ req' = [req EXCEPT ![c] = None]
<1>1. r.pod \in Pods /\ r.new \in Ctx \cup {None}
  BY RequestFields
<1>2. PICK v \in Ctx \cup {None} : memory' = Put(memory, r.pod, r.id, v) /\ Showable(v)
  BY <1>1 DEF Ends, EndDelete, EndStore, Clean, Showable
<1>3. Clear(Pods, memory)'
  <2>1. Clear(Pods, Put(memory, r.pod, r.id, v))
    BY <1>1, <1>2, PutClear, StoresType DEF Whole
  <2> QED BY <1>2, <2>1 DEF Clear
<1>4. req' = [req EXCEPT ![c] = None]
  BY DEF Ends, EndDelete, EndStore, Respond
<1> QED BY <1>3, <1>4

LEMMA BeginsWhole ==
  ASSUME Inv, Whole, NEW c \in Clients, NEW r \in Requests, r.id \in Ids, Clean(r), Begins(c, r)
  PROVE  Clear(Pods, memory)' /\ \E w \in {r, None} : req' = [req EXCEPT ![c] = w]
<1>1. CASE First(r.pod) = "memory"
  BY <1>1, EndsWhole DEF Begins
<1>2. CASE First(r.pod) # "memory"
  BY <1>2 DEF Begins, Wait, Whole, Clear
<1> QED BY <1>1, <1>2

LEMMA AsksWhole ==
  ASSUME Inv, Whole, NEW c \in Clients, AsksOn(c)
  PROVE  Whole'
<1>1. PICK r : Asks(c, r)
  BY DEF AsksOn
<1>2. Clean(r) /\ r \in Requests /\ req' = [req EXCEPT ![c] = r] /\ load' = load
  BY <1>1 DEF Asks, FreshLookup, FreshList, Fresh, Clean, Showable, Wait, Unmoved, Inv, TypeOK
<1>4. disk' = disk /\ memory' = memory /\ cache' = cache
  BY <1>1 DEF Asks, Unmoved
<1> QED BY <1>2, <1>4, WholeKeeps DEF Whole, Clear

LEMMA MakesWhole ==
  ASSUME Inv, Whole, NEW c \in Clients, MakesOn(c)
  PROVE  Whole'
<1>1. PICK r : Makes(c, r)
  BY DEF MakesOn
<1>2. r \in Requests /\ r.pod \in Pods /\ r.id \in Ids /\ Clean(r) /\ r.new \in Ctx /\ Valid(r.new)
  <2>1. /\ r \in Requests /\ r.pod \in Pods /\ r.id \in Ids /\ r.new \in Creates /\ r.old = None
        /\ r.op = "create"
    BY <1>1, LoadType, RequestFields DEF Makes, FreshCreate, Fresh, Inv
  <2>2. r.new \in Ctx /\ Valid(r.new)
    BY <2>1, BodiesShow
  <2> QED BY <2>1, <2>2 DEF Clean, Showable
<1>3. PICK w \in {r, None} : req' = [req EXCEPT ![c] = w] /\ Clear(Pods, memory)'
  BY <1>1, <1>2, BeginsWhole DEF Makes
<1>4. Clear(Pods, cache)'
  <2>1. Clear(Pods, Put(cache, r.pod, r.id, r.new))
    BY <1>2, PutClear, StoresType DEF Whole, Showable
  <2> QED BY <1>1, <2>1 DEF Makes, Clear
<1>5. load' = load /\ disk' = disk
  BY <1>1 DEF Makes
<1>6. Clear(Backends, disk)'
  BY <1>5 DEF Whole, Clear
<1> QED BY <1>2, <1>3, <1>4, <1>5, <1>6, WholeKeeps

LEMMA LooksWhole ==
  ASSUME Inv, Whole, NEW c \in Clients, NEW q, NEW v, NEW filled, Looks(c, q, v, filled)
  PROVE  /\ q \in Requests /\ q.pod \in Pods /\ q.id \in Ids /\ Clean(q) /\ Showable(v)
         /\ filled \in [Pods -> Stored] /\ Clear(Pods, filled)
         /\ load' = load /\ disk' = disk /\ v \in Ctx \cup {None}
<1>1. /\ q \in Requests /\ q.pod \in Pods /\ q.id \in Ids /\ load' = load /\ disk' = disk
      /\ v \in Ctx \cup {None}
  BY RequestFields DEF Looks, Unmoved
<1>2. Clean(q) /\ Showable(v)
  BY <1>1 DEF Looks, FreshLookup, Fresh, Whole, Clear, Clean, Showable
<1>3. filled = cache \/ filled = Put(cache, q.pod, q.id, v)
  BY DEF Looks
<1>4. CASE filled = cache
  BY <1>1, <1>2, <1>4, StoresType DEF Whole
<1>5. CASE filled = Put(cache, q.pod, q.id, v)
  BY <1>1, <1>2, <1>5, StoresType, PutClear, PutType DEF Whole
<1> QED BY <1>1, <1>2, <1>3, <1>4, <1>5

LEMMA TellsWhole ==
  ASSUME Inv, Whole, NEW c \in Clients, TellsOn(c)
  PROVE  Whole'
<1>1. PICK q, v, filled : Tells(c, q, v, filled)
  BY DEF TellsOn
<1>2. Looks(c, q, v, filled) /\ cache' = filled /\ memory' = memory
  BY <1>1 DEF Tells
<1>3. Clear(Pods, filled) /\ load' = load /\ disk' = disk
  BY <1>2, LooksWhole
<1>4. req' = [req EXCEPT ![c] = None]
  BY <1>1 DEF Tells, Respond
<1>5. Clear(Pods, cache)' /\ Clear(Pods, memory)' /\ Clear(Backends, disk)'
  BY <1>2, <1>3 DEF Clear, Whole
<1> QED BY <1>3, <1>4, <1>5, WholeKeeps

\* What update() and delete() store can be shown.
LEMMA AltersWhole ==
  ASSUME Inv, Whole, Definite, NEW c \in Clients, NEW q, NEW v, NEW filled, NEW r, Alters(c, q, v, filled, r)
  PROVE  /\ r \in Requests /\ r.id \in Ids /\ r.pod \in Pods /\ Clean(r)
         /\ r.op \in {"update", "delete"} /\ r.pod = q.pod /\ r.id = q.id /\ r.op = q.op
         /\ r.op = "update" => r.new \in Ctx /\ r.new = Merge(v, q.body) /\ r.body = q.body
         /\ r.op = "delete" => r.new = None
         /\ cache' = Put(filled, r.pod, r.id, r.new) /\ Begins(c, r)
<1>1. /\ Looks(c, q, v, filled) /\ v # None /\ q.op \in {"update", "delete"} /\ Same(q, r) /\ r.old = v
      /\ r.new = (IF q.op = "update" THEN Merge(v, q.body) ELSE q.new)
      /\ Begins(c, r) /\ cache' = Put(filled, q.pod, q.id, IF q.op = "update" THEN r.new ELSE None)
  BY DEF Alters
<1>2. /\ q \in Requests /\ q.pod \in Pods /\ q.id \in Ids /\ Clean(q) /\ Showable(v)
      /\ v \in Ctx \cup {None}
  BY <1>1, LooksWhole
<1>3. /\ r \in Requests /\ r.pod = q.pod /\ r.id = q.id /\ r.op = q.op /\ r.body = q.body
  BY <1>1 DEF Same
<1>4. CASE q.op = "update"
  <2>1. q.body \in load.updates /\ load.updates \subseteq Updates /\ load \in Workloads
    BY <1>2, <1>4, LoadType DEF Clean, Inv, TypeOK
  <2>2. PICK body \in Updates : body = q.body /\ body \in load.updates
    BY <2>1
  <2>3. v \in Ctx /\ Valid(v)
    BY <1>1, <1>2 DEF Showable
  <2>4. Merge(v, body) \in Ctx /\ Valid(Merge(v, body))
    BY <2>1, <2>2, <2>3, BodiesShow
  <2>5. Clean(r)
    BY <1>1, <1>2, <1>3, <1>4, <2>1, <2>2, <2>3, <2>4 DEF Clean, Showable
  <2> QED BY <1>1, <1>2, <1>3, <1>4, <2>2, <2>4, <2>5
<1>5. CASE q.op = "delete"
  <2>1. Clean(r) /\ r.new = None
    BY <1>1, <1>2, <1>3, <1>5 DEF Clean, Showable
  <2> QED BY <1>1, <1>2, <1>3, <1>5, <2>1
<1> QED BY <1>1, <1>4, <1>5

LEMMA AlteredWhole ==
  ASSUME Inv, Whole, Definite, NEW c \in Clients, AltersOn(c)
  PROVE  Whole'
<1>1. PICK q, v, filled, r : Alters(c, q, v, filled, r)
  BY DEF AltersOn
<1>2. Looks(c, q, v, filled)
  BY <1>1 DEF Alters
<1>3. filled \in [Pods -> Stored] /\ Clear(Pods, filled) /\ load' = load /\ disk' = disk
  BY <1>2, LooksWhole
<1>4. /\ r \in Requests /\ r.id \in Ids /\ r.pod \in Pods /\ Clean(r)
      /\ cache' = Put(filled, r.pod, r.id, r.new) /\ Begins(c, r)
  BY <1>1, AltersWhole
<1>5. PICK w \in {r, None} : req' = [req EXCEPT ![c] = w] /\ Clear(Pods, memory)'
  BY <1>4, BeginsWhole
<1>6. Clear(Pods, cache)'
  <2>1. r.new \in Ctx \cup {None}
    BY <1>4, RequestFields
  <2>2. Clear(Pods, Put(filled, r.pod, r.id, r.new))
    BY <1>3, <1>4, <2>1, PutClear DEF Clean
  <2> QED BY <1>4, <2>2 DEF Clear
<1>7. Clear(Backends, disk)'
  BY <1>3 DEF Whole, Clear
<1> QED BY <1>3, <1>4, <1>5, <1>6, <1>7, WholeKeeps

LEMMA EndedWhole ==
  ASSUME Inv, Whole, NEW c \in Clients, ListsOn(c) \/ FailsOn(c) \/ ClosesOn(c)
  PROVE  Whole'
<1>1. CASE ListsOn(c) \/ FailsOn(c)
  <2>1. UNCHANGED <<disk, memory, cache, load>> /\ req' = [req EXCEPT ![c] = None]
    BY <1>1 DEF ListsOn, Lists, FailsOn, Fails, Unmoved, Respond
  <2>2. Clear(Pods, cache)' /\ Clear(Pods, memory)' /\ Clear(Backends, disk)'
    BY <2>1 DEF Clear, Whole
  <2> QED BY <2>1, <2>2, WholeKeeps
<1>2. CASE ClosesOn(c)
  <2>1. PICK q \in Requests : Closes(c, q)
    BY <1>2 DEF ClosesOn, Closes
  <2>2. Clean(q) /\ q.id \in Ids /\ Ends(c, q)
    BY <2>1, OwnRequest DEF Closes, Whole, Writing, Sound
  <2>3. Clear(Pods, memory)' /\ req' = [req EXCEPT ![c] = None]
    BY <2>2, EndsWhole
  <2>4. UNCHANGED <<disk, cache, load>>
    BY <2>1 DEF Closes, Unmoved
  <2>5. Clear(Pods, cache)' /\ Clear(Backends, disk)'
    BY <2>4 DEF Clear, Whole
  <2> QED BY <2>3, <2>4, <2>5, WholeKeeps
<1> QED BY <1>1, <1>2

\* What holds of a request that goes on waiting.
LEMMA TurnsFields ==
  ASSUME Inv, NEW c \in Clients, NEW q, NEW r, Turns(c, q, r)
  PROVE  /\ req[c] # None /\ q = req[c] /\ q \in Requests /\ Sound(c, q) /\ r \in Requests
         /\ q.pod \in Pods /\ r.pod = q.pod /\ r.op = q.op /\ r.id = q.id /\ r.body = q.body /\ r.seen = q.seen
         /\ r.new = q.new /\ (q.op # "list" => q.id \in Ids)
         /\ req' = [req EXCEPT ![c] = r]
         /\ UNCHANGED <<up, avail, load, memory, cache, issued, known, answer>>
         /\ r.phase = q.phase \/ (q.phase = "read" /\ r.phase = "reply")
         /\ Writing(q) <=> Writing(r)
<1>1. /\ q = req[c] /\ q \in Requests /\ r \in Requests /\ r.new = q.new /\ Wait(c, r)
      /\ r.pod = q.pod /\ r.op = q.op /\ r.id = q.id /\ r.body = q.body /\ r.seen = q.seen
      /\ UNCHANGED <<up, avail, load, memory, cache, issued>>
  BY DEF Turns, Same
<1>2. req[c] # None
  BY <1>1, RequestsAssumption
<1>3. /\ r.phase = q.phase \/ (q.phase = "read" /\ r.phase = "reply")
      /\ Writing(q) <=> Writing(r)
  BY DEF Turns, Reads, Skips, Loads, Repeats, HasKeys, HasKey, Commits, Writing
<1>4. Sound(c, q) /\ q.pod \in Pods /\ (q.op # "list" => q.id \in Ids)
  BY <1>1, <1>2, OwnRequest
<1>5. req' = [req EXCEPT ![c] = r] /\ UNCHANGED <<known, answer>>
  BY <1>1 DEF Wait
<1> QED BY <1>1, <1>2, <1>3, <1>4, <1>5

\* A write to PostgreSQL is of a context, or removes one.
LEMMA CommitRowType ==
  ASSUME NEW new \in Ctx, NEW row \in Ctx \cup {None}, NEW loaded \in Ctx \cup {None},
         loaded = None <=> row = None
  PROVE  /\ CommitRow(row, loaded, new) \in Ctx
         /\ Valid(new) /\ Showable(row) => Valid(CommitRow(row, loaded, new))
         /\ loaded = row => CommitRow(row, loaded, new) = new
<1>1. CASE loaded = None
  BY <1>1 DEF CommitRow
<1>2. CASE loaded # None
  <2>1. loaded \in Ctx /\ row \in Ctx
    BY <1>2
  <2> QED BY <1>2, <2>1, NoneAssumption DEF CommitRow, Ctx, Valid, Showable
<1> QED BY <1>1, <1>2

LEMMA CommittedForms ==
  ASSUME Inv, NEW c \in Clients, NEW q, NEW r, Turns(c, q, r), Commits(q, r)
  PROVE  /\ disk["pg"][q.id] \in Ctx \cup {None} /\ q.row \in Ctx \cup {None} /\ q.id \in Ids
         /\ \/ Committed(q) = disk
            \/ \E v \in Ctx \cup {None} :
                 /\ Committed(q) = Put(disk, "pg", q.id, v) /\ up["pg"]
                 /\ \/ /\ q.phase = "store" /\ q.new \in Ctx /\ Valid(q.new)
                       /\ q.row = None <=> disk["pg"][q.id] = None
                       /\ v = CommitRow(disk["pg"][q.id], q.row, q.new) /\ v \in Ctx
                    \/ q.phase = "remove" /\ q.row # None /\ v = None
<1>1. /\ q \in Requests /\ q.id \in Ids /\ Sound(c, q) /\ q.phase \in {"store", "remove"}
  BY TurnsFields DEF Commits, Writing, Sound
<1>2. disk["pg"][q.id] \in Ctx \cup {None} /\ q.row \in Ctx \cup {None}
  BY <1>1, RequestFields DEF Inv, TypeOK, Backends
<1>3. CASE q.phase = "store"
  <2>1. q.new \in Ctx
    BY <1>1, <1>3 DEF Sound
  <2>2. (q.row = None <=> disk["pg"][q.id] = None) => CommitRow(disk["pg"][q.id], q.row, q.new) \in Ctx
    BY <1>2, <2>1, CommitRowType
  <2> QED BY <1>1, <1>2, <1>3, <2>1, <2>2 DEF Committed
<1>4. CASE q.phase = "remove"
  BY <1>1, <1>2, <1>4 DEF Committed
<1> QED BY <1>1, <1>3, <1>4

LEMMA TurnsWhole ==
  ASSUME Inv, Whole, NEW c \in Clients, TurnsOn(c)
  PROVE  Whole'
<1>1. PICK q, r : Turns(c, q, r)
  BY DEF TurnsOn
<1>2. /\ q = req[c] /\ q \in Requests /\ Sound(c, q) /\ r \in Requests /\ r.op = q.op /\ r.body = q.body
      /\ r.new = q.new /\ req' = [req EXCEPT ![c] = r] /\ UNCHANGED <<load, memory, cache>>
      /\ Clean(q) /\ (q.op # "list" => q.id \in Ids)
  BY <1>1, TurnsFields DEF Whole
<1>3. Clean(r)
  <2>1. CASE r.old = q.old
    BY <1>2, <2>1 DEF Clean
  <2>2. CASE Reads(q, r)
    <3>1. q.id \in Ids /\ Showable(disk[q.stage][q.id])
      BY <1>2, <2>2 DEF Reads, Sound, Whole, Clear
    <3> QED BY <1>2, <2>2, <3>1 DEF Clean, Reads
  <2> QED BY <1>1, <2>1, <2>2 DEF Turns, Skips, Loads, HasKeys, HasKey, Repeats, Commits
<1>4. Clear(Backends, disk)'
  <2>1. CASE disk' = disk
    BY <2>1 DEF Whole, Clear
  <2>2. CASE disk' = Committed(q) /\ Commits(q, r)
    <3>1. /\ disk["pg"][q.id] \in Ctx \cup {None} /\ q.row \in Ctx \cup {None} /\ q.id \in Ids
          /\ Showable(disk["pg"][q.id])
      BY <1>1, <2>2, CommittedForms, StoresType DEF Whole, Clear
    <3>2. ASSUME NEW v \in Ctx \cup {None}, Committed(q) = Put(disk, "pg", q.id, v), Showable(v)
          PROVE  Clear(Backends, disk)'
      <4>1. Clear(Backends, Put(disk, "pg", q.id, v))
        BY <3>1, <3>2, PutClear, StoresType DEF Whole
      <4> QED BY <2>2, <3>2, <4>1 DEF Clear
    <3>3. ASSUME q.new \in Ctx, Valid(q.new), q.row = None <=> disk["pg"][q.id] = None
          PROVE  Valid(CommitRow(disk["pg"][q.id], q.row, q.new))
      BY <3>1, <3>3, CommitRowType
    <3> QED BY <1>1, <2>1, <2>2, <3>2, <3>3, CommittedForms DEF Showable
  <2>3. CASE disk' = Put(disk, "redis", q.id, q.new) /\ Repeats(q, r)
    <3>1. q.id \in Ids /\ q.new \in Ctx \cup {None} /\ Showable(q.new)
      BY <1>2, <2>3, RequestFields DEF Repeats, Writing, Sound, Clean
    <3>2. Clear(Backends, Put(disk, "redis", q.id, q.new))
      BY <3>1, PutClear, StoresType DEF Whole
    <3> QED BY <2>3, <3>2 DEF Clear
  <2> QED BY <1>1, <2>1, <2>2, <2>3 DEF Turns
<1>5. Clear(Pods, memory)' /\ Clear(Pods, cache)'
  BY <1>2 DEF Whole, Clear
<1> QED BY <1>2, <1>3, <1>4, <1>5, WholeKeeps

LEMMA WholeStep ==
  ASSUME Inv, Whole, Definite, [Next]_vars
  PROVE  Whole'
<1>1. ASSUME NEW c \in Clients, Arrive(c) \/ Progress(c) PROVE Whole'
  <2>1. ClientStep(c)
    BY <1>1, ArriveForms, ProgressForms DEF ClientStep
  <2> QED BY <2>1, AsksWhole, MakesWhole, TurnsWhole, TellsWhole, AlteredWhole, EndedWhole DEF ClientStep
<1>2. ASSUME NEW p \in Pods, NEW id \in Ids, Expire(p, id) PROVE Whole'
  <2>1. cache' = Put(cache, p, id, None) /\ UNCHANGED <<load, disk, memory, req>>
    BY <1>2 DEF Expire, env
  <2>2. Clear(Pods, Put(cache, p, id, None))
    BY PutClear, StoresType DEF Whole, Showable
  <2> QED BY <2>1, <2>2 DEF Whole, Clear, Clean
<1>3. ASSUME NEW b, Flap(b) PROVE Whole'
  BY <1>3 DEF Flap, stores, Whole, Clear, Clean
<1>4. ASSUME NEW p \in load.pods, Restart(p) PROVE Whole'
  <2>1. p \in Pods /\ UNCHANGED <<load, disk>>
    BY <1>4, LoadType DEF Inv, Restart
  <2>2. Clear(Pods, memory)' /\ Clear(Pods, cache)'
    <3>1. ASSUME NEW x \in Pods, NEW i \in Ids
          PROVE  memory'[x][i] \in {memory[x][i], None} /\ cache'[x][i] \in {cache[x][i], None}
      BY <1>4, <2>1, StoresType DEF Restart, Stored
    <3> QED BY <3>1 DEF Whole, Clear, Showable
  <2>3. \A c \in Clients : req'[c] # None => req'[c] = req[c]
    BY <1>4 DEF Restart
  <2> QED BY <2>1, <2>2, <2>3 DEF Whole, Clear, Clean
<1>5. CASE UNCHANGED vars
  BY <1>5 DEF vars, Whole, Clear, Clean
<1> QED BY <1>1, <1>2, <1>3, <1>4, <1>5 DEF Next

LEMMA WholeInit == Init => Whole
BY DEF Init, Whole, Clear, Showable

\* A backend that answers has none or a context that can be shown.
LEMMA WholeReads ==
  ASSUME Inv, Whole
  PROVE  /\ \A b \in Backends, i \in Ids : Readable(b, i)
         /\ \A c \in Clients : ~FailsOn(c)
<1>1. \A b \in Backends, i \in Ids : Readable(b, i)
  BY DEF Whole, Clear, Showable, Readable
<1>2. ASSUME NEW c \in Clients, NEW q, Fails(c, q) PROVE FALSE
  <2>1. q.pod \in Pods
    BY <1>2, RequestFields DEF Fails
  <2> QED BY <1>2, <2>1 DEF Fails, Whole, Clear, Showable
<1> QED BY <1>1, <1>2 DEF FailsOn
-----------------------------------------------------------------------------
(* Where requests look, while the backends stay as they are.                *)

\* The pods share no memory and no cache: between two of them, what a client
\* is told depends on the pod it is told by.
OnePod == \E p \in Pods : Pods = {p}
Still == faults.flaps = 0 /\ faults.restarts = 0

\* The pod uses the backend, and it answers.
Live(b) == b \in avail[Home] /\ up[b]

\* The stages that come after a backend.
Passed(stage, b) ==
  \/ b = "pg" /\ stage \in {"redis", "memory", "keys"}
  \/ b = "redis" /\ stage = "memory"

\* A request that reads has passed no backend that answers.
Routed(r) ==
  /\ r.phase \in {"read", "list"} =>
       /\ \A b \in Backends : Passed(r.stage, b) => ~Live(b)
       /\ r.stage \in Backends => r.stage \in avail[Home]
  /\ r.stage = "keys" => r.phase = "list" /\ Live("redis")
  /\ r.stage # "keys" => \A i \in Ids : r.items[i] = None

Route == \A c \in Clients : req[c] # None => Routed(req[c])

LEMMA HomeIs ==
  ASSUME OnePod
  PROVE  Home \in Pods /\ \A p \in Pods : p = Home
BY DEF OnePod, Home

LEMMA FirstPasses ==
  /\ First(Home) \in Stages
  /\ First(Home) \in Backends => First(Home) \in avail[Home]
  /\ \A b \in Backends : Passed(First(Home), b) => ~Live(b)
  /\ First(Home) = "memory" => \A b \in Backends : ~Live(b)
BY DEF First, Passed, Live, Stages, Backends

LEMMA AfterPasses ==
  ASSUME NEW s \in Backends
  PROVE  /\ After(Home, s) \in {"redis", "memory"} /\ After(Home, s) # s
         /\ After(Home, s) \in Backends => After(Home, s) \in avail[Home]
         /\ \A b \in Backends : Passed(After(Home, s), b) => Passed(s, b) \/ b = s \/ ~Live(b)
BY DEF After, Passed, Live, Backends

\* What a request that reads finds is what Authority says.
LEMMA RoutedAuthority ==
  ASSUME NEW r, Routed(r), r.phase \in {"read", "list"}
  PROVE  /\ r.stage \in Backends /\ up[r.stage] => Authority(Home) = disk[r.stage]
         /\ r.stage = "keys" => Authority(Home) = disk["redis"] /\ up["redis"]
         /\ r.stage = "memory" => Authority(Home) = memory[Home]
BY DEF Routed, Passed, Live, Authority, Backends

LEMMA FreshRouted ==
  ASSUME OnePod, NEW c \in Clients, NEW q, Fresh(c, q)
  PROVE  /\ q.pod = Home /\ q.stage = First(Home) /\ Routed(q)
         /\ \A i \in Ids : q.items[i] = None
<1>1. q.pod = Home /\ q.stage = First(Home) /\ \A i \in Ids : q.items[i] = None
  BY HomeIs, RequestFields DEF Fresh
<1>2. q.stage # "keys"
  BY <1>1, FirstPasses DEF Stages, Backends
<1> QED BY <1>1, <1>2, FirstPasses DEF Routed

LEMMA RouteKeeps ==
  ASSUME Inv, Route, NEW c \in Clients, NEW r \in Requests \cup {None},
         req' = [req EXCEPT ![c] = r], UNCHANGED <<up, avail>>, r # None => Routed(r)
  PROVE  Route'
<1>1. req'[c] = r /\ \A d \in Clients \ {c} : req'[d] = req[d]
  BY DEF Inv, TypeOK
<1>2. ASSUME NEW d \in Clients, req'[d] # None PROVE Routed(req[d])'
  <2>1. CASE d = c
    BY <1>1, <1>2, <2>1 DEF Routed, Live
  <2>2. CASE d # c
    BY <1>1, <1>2, <2>2 DEF Route, Routed, Live
  <2> QED BY <2>1, <2>2
<1> QED BY <1>2 DEF Route

\* A write that begins, from a request without items.
LEMMA BeginsRoute ==
  ASSUME Inv, Route, OnePod, NEW c \in Clients, NEW r \in Requests, Begins(c, r),
         \A i \in Ids : r.items[i] = None, UNCHANGED <<up, avail>>
  PROVE  Route'
<1>1. r.pod = Home
  BY HomeIs, RequestFields
<1>2. CASE First(Home) = "memory"
  <2>1. req' = [req EXCEPT ![c] = None]
    BY <1>1, <1>2 DEF Begins, Ends, EndStore, EndDelete, Respond
  <2> QED BY <2>1, RouteKeeps
<1>3. CASE First(Home) # "memory"
  <2>1. /\ req' = [req EXCEPT ![c] = r] /\ r.stage = First(Home) /\ r.phase \in {"store", "remove"}
    BY <1>1, <1>3 DEF Begins, Wait
  <2>2. Routed(r)
    BY <2>1, FirstPasses DEF Routed, Stages, Backends
  <2> QED BY <2>1, <2>2, RouteKeeps
<1> QED BY <1>2, <1>3

LEMMA TurnsRoute ==
  ASSUME Inv, Whole, Route, OnePod, NEW c \in Clients, TurnsOn(c)
  PROVE  Route'
<1>1. PICK q, r : Turns(c, q, r)
  BY DEF TurnsOn
<1>2. /\ q \in Requests /\ r \in Requests /\ q.pod = Home /\ Routed(q) /\ Sound(c, q)
      /\ req' = [req EXCEPT ![c] = r] /\ UNCHANGED <<up, avail>>
  BY <1>1, TurnsFields, HomeIs DEF Route
<1>3. Routed(r)
  <2>1. CASE Reads(q, r)
    BY <1>2, <2>1 DEF Reads, Routed, Backends
  <2>2. CASE Skips(q, r)
    <3>1. ~Live(q.stage) /\ q.stage \in Backends /\ q.stage # "keys"
      <4>1. q.phase = "read" => Readable(q.stage, q.id)
        BY <1>2, <2>2, WholeReads DEF Skips, Sound, Inv, TypeOK
      <4> QED BY <2>2, <4>1 DEF Skips, Live, Backends
    <3>2. /\ r.stage = After(Home, q.stage) /\ r.phase = q.phase /\ r.items = q.items
      BY <1>2, <2>2 DEF Skips
    <3>3. r.stage \in {"redis", "memory"} /\ (r.stage \in Backends => r.stage \in avail[Home])
      BY <3>1, <3>2, AfterPasses
    <3>4. \A b \in Backends : Passed(r.stage, b) => Passed(q.stage, b) \/ ~Live(b)
      BY <3>1, <3>2, AfterPasses
    <3>5. \A i \in Ids : r.items[i] = None
      BY <1>2, <3>1, <3>2 DEF Routed
    <3>6. r.stage # "keys"
      BY <3>3
    <3> QED BY <1>2, <3>2, <3>3, <3>4, <3>5, <3>6 DEF Routed
  <2>3. CASE Loads(q, r) \/ Repeats(q, r)
    BY <1>2, <2>3 DEF Loads, Repeats, Writing, Routed
  <2>4. CASE Commits(q, r)
    <3>1. r.stage \in {"redis", "memory"}
      BY <2>4 DEF Commits, After
    <3> QED BY <1>2, <2>4, <3>1 DEF Commits, Writing, Routed
  <2>5. CASE HasKeys(q, r)
    BY <1>2, <2>5 DEF HasKeys, Routed, Passed, Live, Backends
  <2>6. CASE \E id \in Ids : HasKey(q, r, id)
    BY <1>2, <2>6 DEF HasKey, Routed
  <2> QED BY <1>1, <2>1, <2>2, <2>3, <2>4, <2>5, <2>6 DEF Turns
<1> QED BY <1>2, <1>3, RouteKeeps

LEMMA RouteStep ==
  ASSUME Inv, Whole, Route, OnePod, NEW c \in Clients, ClientStep(c)
  PROVE  Route'
<1>1. CASE AsksOn(c)
  <2>1. PICK r : Asks(c, r)
    BY <1>1 DEF AsksOn
  <2>2. Fresh(c, r) /\ r \in Requests /\ req' = [req EXCEPT ![c] = r] /\ UNCHANGED <<up, avail>>
    BY <2>1 DEF Asks, FreshLookup, FreshList, Fresh, Wait, Unmoved
  <2> QED BY <2>2, FreshRouted, RouteKeeps
<1>2. CASE MakesOn(c)
  <2>1. PICK r : Makes(c, r)
    BY <1>2 DEF MakesOn
  <2>2. r \in Requests /\ Begins(c, r) /\ UNCHANGED <<up, avail>> /\ \A i \in Ids : r.items[i] = None
    BY <2>1 DEF Makes, FreshCreate, Fresh
  <2> QED BY <2>2, BeginsRoute
<1>3. CASE AltersOn(c)
  <2>1. PICK q, v, filled, r : Alters(c, q, v, filled, r)
    BY <1>3 DEF AltersOn
  <2>2. r \in Requests /\ Begins(c, r) /\ r.items = q.items /\ UNCHANGED <<up, avail>>
    BY <2>1 DEF Alters, Same, Looks, Unmoved
  <2>3. \A i \in Ids : q.items[i] = None
    BY <2>1 DEF Alters, Looks, FreshLookup, Fresh, Route, Routed
  <2> QED BY <2>2, <2>3, BeginsRoute
<1>4. CASE TellsOn(c) \/ ListsOn(c) \/ FailsOn(c) \/ ClosesOn(c)
  <2>1. req' = [req EXCEPT ![c] = None] /\ UNCHANGED <<up, avail>>
    BY <1>4 DEF TellsOn, Tells, Looks, ListsOn, Lists, FailsOn, Fails, ClosesOn, Closes, Ends, EndStore,
                EndDelete, Respond, Unmoved
  <2> QED BY <2>1, RouteKeeps
<1> QED BY <1>1, <1>2, <1>3, <1>4, TurnsRoute DEF ClientStep
-----------------------------------------------------------------------------
(* What clients know of.                                                    *)

\* What a request has found, or has written, of a context clients know of:
\* an update past a backend that answers has left the context there, and a
\* listing has read, or has still to read, what was known when it began.
Awaits(r) ==
  /\ r.op \in {"get", "update"} => r.id \in known
  /\ r.seen \subseteq known
  /\ r.phase = "reply" => r.old # None
  /\ r.phase = "store" =>
       /\ \A b \in Backends : Live(b) /\ Passed(r.stage, b) => disk[b][r.id] # None
       /\ r.stage = "commit" /\ r.row # None => disk["pg"][r.id] # None
  /\ r.stage = "keys" => \A i \in Ids :
       /\ i \in r.seen => i \in r.left \/ r.items[i] # None
       /\ i \in r.left \/ r.items[i] # None => disk["redis"][i] # None

Knows ==
  /\ \A id \in known : Authority(Home)[id] # None
  /\ \A c \in Clients : req[c] # None => Awaits(req[c])

\* Nothing that a store holds is lost, and whatever else clients are told of
\* is found.
Grows ==
  /\ UNCHANGED <<up, avail>>
  /\ \A b \in Backends, i \in Ids : disk[b][i] # None => disk'[b][i] # None
  /\ \A i \in Ids : memory[Home][i] # None => memory'[Home][i] # None
  /\ known \subseteq known'
  /\ \A i \in known' \ known : Authority(Home)'[i] # None

LEMMA AuthorityGrows ==
  ASSUME Inv, NEW i \in Ids, Grows, Authority(Home)[i] # None
  PROVE  Authority(Home)'[i] # None
BY DEF Grows, Authority, Backends

LEMMA AwaitsGrows ==
  ASSUME Inv, NEW r \in Requests, Awaits(r), Grows, r.op # "list" => r.id \in Ids, r.phase = "store" => r.op # "list"
  PROVE  Awaits(r)'
<1>1. \A b \in Backends : Live(b)' <=> Live(b)
  BY DEF Grows, Live
<1>2. "pg" \in Backends /\ "redis" \in Backends
  BY DEF Backends
<1> QED BY <1>1, <1>2 DEF Awaits, Grows

LEMMA KnowsKeeps ==
  ASSUME Inv, Knows, NEW c \in Clients, NEW r \in Requests \cup {None},
         req' = [req EXCEPT ![c] = r], Grows, r # None => Awaits(r)'
  PROVE  Knows'
<1>1. req'[c] = r /\ \A d \in Clients \ {c} : req'[d] = req[d]
  BY DEF Inv, TypeOK
<1>2. ASSUME NEW d \in Clients, req'[d] # None PROVE Awaits(req[d])'
  <2>1. CASE d = c
    BY <1>1, <1>2, <2>1 DEF Awaits
  <2>2. CASE d # c
    <3>1. PICK q \in Requests : q = req[d] /\ req[d] # None /\ Awaits(q) /\ Sound(d, q)
      BY <1>1, <1>2, <2>2, OwnRequest DEF Knows
    <3>2. (q.op # "list" => q.id \in Ids) /\ (q.phase = "store" => q.op # "list")
      BY <3>1, StoresType DEF Sound
    <3>3. Awaits(q)'
      BY <3>1, <3>2, AwaitsGrows
    <3>4. q = req'[d]
      BY <1>1, <2>2, <3>1
    <3> QED BY <3>3, <3>4 DEF Awaits
  <2> QED BY <2>1, <2>2
<1>3. \A id \in known' : Authority(Home)'[id] # None
  <2>1. ASSUME NEW id \in known, known \subseteq known' PROVE Authority(Home)'[id] # None
    BY <2>1, AuthorityGrows, StoresType DEF Knows
  <2> QED BY <2>1 DEF Grows
<1> QED BY <1>2, <1>3 DEF Knows

\* What a lookup looks for is found.
LEMMA LooksFinds ==
  ASSUME Inv, Whole, Route, Knows, OnePod, NEW c \in Clients, NEW q, NEW v, NEW filled,
         Looks(c, q, v, filled), q.op \in {"get", "update"}
  PROVE  v # None /\ q.id \in known /\ q.seen \subseteq known
<1>1. q \in Requests /\ q.pod = Home /\ q.id \in Ids
  BY HomeIs, RequestFields DEF Looks
<1>2. CASE FreshLookup(c, q)
  <2>1. q.id \in known /\ q.seen = {}
    BY <1>2 DEF FreshLookup
  <2>2. First(Home) = "memory" => Authority(Home) = memory[Home]
    BY FirstPasses DEF Authority, Live, Backends
  <2>3. \/ v = cache[q.pod][q.id] /\ v # None
        \/ v = memory[q.pod][q.id] /\ First(q.pod) = "memory"
        \/ req[c] # None /\ q = req[c]
    BY DEF Looks
  <2>4. req[c] = None
    BY <1>2 DEF FreshLookup, Fresh
  <2> QED BY <1>1, <2>1, <2>2, <2>3, <2>4 DEF Knows
<1>3. CASE req[c] # None /\ q = req[c]
  <2>1. Awaits(q) /\ Routed(q)
    BY <1>3 DEF Knows, Route
  <2>2. CASE q.phase = "reply" /\ v = q.old
    BY <2>1, <2>2 DEF Awaits
  <2>3. CASE q.phase = "read" /\ q.stage = "memory" /\ v = memory[q.pod][q.id]
    <3>1. Authority(Home) = memory[Home]
      BY <2>1, <2>3, RoutedAuthority
    <3> QED BY <1>1, <2>1, <2>3, <3>1 DEF Awaits, Knows
  <2>4. ~FreshLookup(c, q)
    BY <1>3 DEF FreshLookup, Fresh
  <2> QED BY <2>1, <2>2, <2>3, <2>4 DEF Looks, Awaits
<1> QED BY <1>2, <1>3 DEF Looks

LEMMA MemoryGrows ==
  ASSUME Inv, OnePod, NEW id \in Ids, NEW v \in Ctx, memory' = Put(memory, Home, id, v)
  PROVE  /\ memory'[Home][id] # None
         /\ \A i \in Ids : memory[Home][i] # None => memory'[Home][i] # None
<1>1. /\ Put(memory, Home, id, v)[Home][id] = v
      /\ \A i \in Ids : i # id => Put(memory, Home, id, v)[Home][i] = memory[Home][i]
  BY PutType, StoresType, HomeIs
<1> QED BY <1>1, StoresType

\* A write of create() or update() that ends in memory.
LEMMA EndsKnows ==
  ASSUME Inv, Knows, OnePod, NEW c \in Clients, NEW r \in Requests, r.op \in {"create", "update"},
         r.id \in Ids, r.new \in Ctx, Ends(c, r), UNCHANGED <<up, avail, disk>>,
         \A b \in Backends : Live(b) => disk[b][r.id] # None
  PROVE  Knows'
<1>1. r.pod = Home
  BY HomeIs, RequestFields
<1>2. /\ memory' = Put(memory, Home, r.id, r.new) /\ req' = [req EXCEPT ![c] = None]
      /\ known' = known \/ known' = known \cup {r.id}
  BY <1>1 DEF Ends, EndStore, Respond
<1>3. /\ memory'[Home][r.id] # None
      /\ \A i \in Ids : memory[Home][i] # None => memory'[Home][i] # None
  BY <1>2, MemoryGrows
<1>4. Authority(Home)'[r.id] # None
  BY <1>3 DEF Authority, Live, Backends
<1>5. Grows
  BY <1>2, <1>3, <1>4 DEF Grows
<1> QED BY <1>2, <1>5, KnowsKeeps

\* A write of create() or update() that begins.
LEMMA BeginsKnows ==
  ASSUME Inv, Knows, OnePod, NEW c \in Clients, NEW r \in Requests, r.op \in {"create", "update"},
         r.id \in Ids, r.new \in Ctx, Begins(c, r), UNCHANGED <<up, avail, disk>>,
         r.op = "update" => r.id \in known, r.seen \subseteq known
  PROVE  Knows'
<1>1. r.pod = Home
  BY HomeIs, RequestFields
<1>2. CASE First(Home) = "memory"
  <2>1. Ends(c, r)
    BY <1>1, <1>2 DEF Begins
  <2> QED BY <1>2, <2>1, FirstPasses, EndsKnows
<1>3. CASE First(Home) # "memory"
  <2>1. /\ r.stage = First(Home) /\ r.phase = "store" /\ Wait(c, r) /\ memory' = memory
    BY <1>1, <1>3 DEF Begins
  <2>2. req' = [req EXCEPT ![c] = r] /\ known' = known
    BY <2>1 DEF Wait
  <2>3. Awaits(r)
    BY <2>1, FirstPasses DEF Awaits, Stages, Backends
  <2>4. Grows
    BY <2>1, <2>2 DEF Grows
  <2>5. Awaits(r)'
    BY <2>1, <2>3, <2>4, AwaitsGrows
  <2> QED BY <2>2, <2>4, <2>5, KnowsKeeps
<1> QED BY <1>2, <1>3

LEMMA TurnsKnows ==
  ASSUME Inv, Whole, Route, Knows, OnePod, "delete" \notin Used, NEW c \in Clients, TurnsOn(c)
  PROVE  Knows'
<1>1. PICK q, r : Turns(c, q, r)
  BY DEF TurnsOn
<1>2. /\ req[c] # None /\ q = req[c] /\ q \in Requests /\ r \in Requests /\ q.pod = Home /\ Sound(c, q)
      /\ Routed(q) /\ Awaits(q) /\ Clean(q)
      /\ r.op = q.op /\ r.id = q.id /\ r.seen = q.seen /\ r.new = q.new /\ (q.op # "list" => q.id \in Ids)
      /\ req' = [req EXCEPT ![c] = r] /\ UNCHANGED <<up, avail, memory, known>>
  BY <1>1, TurnsFields, HomeIs DEF Route, Knows, Whole
<1>3. q.phase # "remove" /\ (q.phase = "store" => q.new \in Ctx /\ q.id \in Ids /\ Valid(q.new))
  BY <1>2, StoresType DEF Sound, Used, Clean, Showable
<1>4. ASSUME Awaits(r), disk' = disk PROVE Knows'
  <2>1. Grows
    BY <1>2, <1>4 DEF Grows
  <2>2. Awaits(r)'
    BY <1>2, <1>4 DEF Awaits, Live
  <2> QED BY <1>2, <2>1, <2>2, KnowsKeeps
<1>5. CASE disk' = disk /\ Reads(q, r)
  <2>1. Authority(Home) = disk[q.stage] /\ q.op \in {"get", "update", "delete"} /\ q.op # "delete"
    BY <1>2, <1>5, RoutedAuthority DEF Reads, Sound, Used
  <2>2. r.old # None
    BY <1>2, <1>5, <2>1 DEF Reads, Awaits, Knows
  <2>3. Awaits(r)
    BY <1>2, <1>5, <2>2 DEF Awaits, Reads, Backends
  <2> QED BY <1>4, <1>5, <2>3
<1>6. CASE disk' = disk /\ Skips(q, r)
  <2>1. /\ r.stage = After(Home, q.stage) /\ r.phase = q.phase /\ r.old = q.old /\ q.stage \in Backends
        /\ q.phase = "store" => ~Live(q.stage)
    BY <1>2, <1>6 DEF Skips, Live
  <2>2. /\ r.stage \in {"redis", "memory"}
        /\ \A b \in Backends : Passed(r.stage, b) => Passed(q.stage, b) \/ b = q.stage \/ ~Live(b)
    BY <2>1, AfterPasses
  <2>3. r.stage # "commit" /\ r.stage # "keys"
    BY <2>2
  <2>4. r.phase = "store" => \A b \in Backends : Live(b) /\ Passed(r.stage, b) => disk[b][r.id] # None
    BY <1>2, <2>1, <2>2 DEF Awaits
  <2>5. Awaits(r)
    BY <1>2, <2>1, <2>3, <2>4 DEF Awaits
  <2> QED BY <1>4, <1>6, <2>5
<1>7. CASE disk' = disk /\ Loads(q, r)
  <2>1. Awaits(r)
    BY <1>2, <1>7 DEF Awaits, Loads, Passed, Writing
  <2> QED BY <1>4, <1>7, <2>1
<1>8. CASE disk' = disk /\ HasKeys(q, r)
  <2>1. Authority(Home) = disk["redis"] /\ q.stage # "keys"
    BY <1>2, <1>8, RoutedAuthority DEF HasKeys, Backends
  <2>2. \A i \in Ids : q.items[i] = None
    BY <1>2, <2>1 DEF Routed
  <2>3. \A i \in Ids : (i \in r.left <=> disk["redis"][i] # None) /\ (i \in r.seen => i \in r.left)
    BY <1>2, <1>8, <2>1 DEF HasKeys, Awaits, Knows
  <2>4. Awaits(r)
    BY <1>2, <1>8, <2>2, <2>3 DEF Awaits, HasKeys
  <2> QED BY <1>4, <1>8, <2>4
<1>9. CASE disk' = disk /\ \E id \in Ids : HasKey(q, r, id)
  <2>1. PICK id \in Ids : HasKey(q, r, id)
    BY <1>9
  <2>2. /\ up["redis"] /\ Readable("redis", id)
    BY <1>2, <2>1, RoutedAuthority, WholeReads, StoresType DEF HasKey
  <2>3. /\ r.left = q.left \ {id} /\ r.stage = "keys" /\ r.phase = "list" /\ q.stage = "keys" /\ id \in q.left
        /\ r.items = [q.items EXCEPT ![id] = disk["redis"][id]]
    BY <2>1, <2>2 DEF HasKey
  <2>4. disk["redis"][id] # None
    BY <1>2, <2>3 DEF Awaits
  <2>5. \A i \in Ids : r.items[i] = (IF i = id THEN disk["redis"][id] ELSE q.items[i])
    <3>1. q.items \in [Ids -> Ctx \cup {None}]
      BY <1>2, RequestFields
    <3> QED BY <2>3, <3>1
  <2>6. Awaits(r)
    BY <1>2, <2>3, <2>4, <2>5 DEF Awaits
  <2> QED BY <1>4, <1>9, <2>6
<1>10. CASE disk' = disk /\ Repeats(q, r) /\ ~up["redis"]
  <2>1. Awaits(r)
    BY <1>2, <1>10 DEF Awaits, Repeats, Writing, Passed, Live
  <2> QED BY <1>4, <1>10, <2>1
<1>11. ASSUME q.phase = "store", r.phase = "store", r.old = q.old, r.stage \in {"redis", "memory"},
              NEW b \in Backends, NEW v \in Ctx, disk' = disk \/ disk' = Put(disk, b, q.id, v),
              \A d \in Backends : (Live(d) /\ Passed(r.stage, d)) =>
                (Passed(q.stage, d) \/ disk[d][q.id] # None \/ (d = b /\ disk' = Put(disk, b, q.id, v)))
       PROVE  Knows'
  <2>1. /\ \A d \in Backends, i \in Ids : disk[d][i] # None => disk'[d][i] # None
        /\ disk' = Put(disk, b, q.id, v) => disk'[b][q.id] # None
    <3>1. CASE disk' = Put(disk, b, q.id, v)
      <4>1. /\ Put(disk, b, q.id, v)[b][q.id] = v
            /\ \A d \in Backends, i \in Ids : (d # b \/ i # q.id) => Put(disk, b, q.id, v)[d][i] = disk[d][i]
        BY <1>3, <1>11, PutType, StoresType
      <4> QED BY <3>1, <4>1, StoresType
    <3>2. CASE disk' = disk
      <4>1. disk[b][q.id] \in Ctx \cup {None}
        BY <1>3, <1>11 DEF Inv, TypeOK
      <4>2. Put(disk, b, q.id, v)[b][q.id] = v
        BY <1>3, <1>11, PutType, StoresType
      <4> QED BY <1>11, <3>2, <4>2, StoresType
    <3> QED BY <1>11, <3>1, <3>2
  <2>2. Grows
    BY <1>2, <2>1 DEF Grows
  <2>3. \A d \in Backends : (Live(d) /\ Passed(r.stage, d)) => disk'[d][r.id] # None
    BY <1>2, <1>3, <1>11, <2>1 DEF Awaits
  <2>4. Awaits(r)'
    BY <1>2, <1>11, <2>3 DEF Awaits, Live
  <2> QED BY <1>2, <2>2, <2>4, KnowsKeeps
<1>12. CASE disk' = Committed(q) /\ Commits(q, r)
  <2>1. q.phase = "store" /\ r.phase = "store" /\ r.old = q.old /\ r.stage = After(Home, "pg") /\ q.stage = "commit"
    BY <1>2, <1>3, <1>12 DEF Commits, Writing
  <2>2. /\ r.stage \in {"redis", "memory"}
        /\ \A b \in Backends : (Live(b) /\ Passed(r.stage, b)) => b = "pg"
    BY <2>1 DEF After, Passed, Live, Backends
  <2>3. /\ disk["pg"][q.id] \in Ctx \cup {None} /\ q.row \in Ctx \cup {None}
        /\ q.row # None => disk["pg"][q.id] # None
    BY <1>1, <1>2, <1>12, <2>1, CommittedForms DEF Awaits
  <2>4. PICK v : v = CommitRow(disk["pg"][q.id], q.row, q.new)
    OBVIOUS
  <2>5. CASE up["pg"] /\ (q.row = None <=> disk["pg"][q.id] = None)
    <3>1. disk' = Put(disk, "pg", q.id, v) /\ v \in Ctx
      BY <1>3, <1>12, <2>1, <2>3, <2>4, <2>5, CommitRowType DEF Committed
    <3> QED BY <1>11, <2>1, <2>2, <3>1, StoresType
  <2>6. CASE ~(up["pg"] /\ (q.row = None <=> disk["pg"][q.id] = None))
    <3>1. disk' = disk
      BY <1>12, <2>1, <2>6 DEF Committed
    <3>2. Live("pg") => disk["pg"][q.id] # None
      BY <2>3, <2>6 DEF Live
    <3> QED BY <1>3, <1>11, <2>1, <2>2, <3>1, <3>2, StoresType
  <2> QED BY <2>5, <2>6
<1>13. CASE disk' = Put(disk, "redis", q.id, q.new) /\ Repeats(q, r) /\ up["redis"]
  <2>1. /\ q.phase = "store" /\ r.phase = "store" /\ r.old = q.old /\ r.stage \in {"redis", "memory"}
        /\ q.stage = "redis"
    BY <1>3, <1>13 DEF Repeats, Writing
  <2>2. \A d \in Backends : Passed(r.stage, d) => Passed(q.stage, d) \/ d = "redis"
    BY <2>1 DEF Passed, Backends
  <2> QED BY <1>3, <1>11, <1>13, <2>1, <2>2, StoresType
<1> QED BY <1>1, <1>5, <1>6, <1>7, <1>8, <1>9, <1>10, <1>12, <1>13 DEF Turns

\* A listing shows what clients knew of when it began, and nothing that is
\* not to be found.
LEMMA ListsKnown ==
  ASSUME Inv, Whole, Route, Knows, OnePod, NEW c \in Clients, NEW q, NEW value, Lists(c, q, value)
  PROVE  /\ \A i \in q.seen : value[i] # None
         /\ \A i \in Ids : value[i] # None => Authority(Home)[i] # None
<1>1. q \in Requests /\ q.pod = Home /\ q.op = "list"
  BY HomeIs, RequestFields DEF Lists
<1>2. q.phase = "list" /\ Routed(q) /\ q.seen \subseteq known
  BY FreshRouted DEF Lists, FreshList, Route, Knows, Awaits
<1>3. CASE q.stage = "pg" /\ up["pg"] /\ value = disk["pg"]
  <2>1. value = Authority(Home)
    BY <1>2, <1>3, RoutedAuthority DEF Backends
  <2> QED BY <1>2, <2>1 DEF Knows
<1>4. CASE q.stage = "keys" /\ q.left = {} /\ value = q.items
  <2>1. Authority(Home) = disk["redis"]
    BY <1>2, <1>4, RoutedAuthority
  <2>2. First(Home) # "keys"
    BY FirstPasses DEF Stages, Backends
  <2>3. req[c] # None /\ q = req[c]
    BY <1>4, <2>2, FreshRouted DEF Lists, FreshList
  <2>4. Awaits(q)
    BY <2>3 DEF Knows
  <2> QED BY <1>2, <1>4, <2>1, <2>4, StoresType DEF Awaits
<1>5. CASE q.stage = "memory" /\ value = memory[q.pod]
  <2>1. value = Authority(Home)
    BY <1>1, <1>2, <1>5, RoutedAuthority
  <2> QED BY <1>2, <2>1 DEF Knows
<1> QED BY <1>3, <1>4, <1>5 DEF Lists

LEMMA KnowsStep ==
  ASSUME Inv, Whole, Definite, Route, Knows, OnePod, "delete" \notin Used, NEW c \in Clients, ClientStep(c)
  PROVE  Knows'
<1>1. CASE AsksOn(c)
  <2>1. PICK r : Asks(c, r)
    BY <1>1 DEF AsksOn
  <2>2. /\ r \in Requests /\ req' = [req EXCEPT ![c] = r] /\ UNCHANGED <<up, avail, disk, memory, known>>
    BY <2>1 DEF Asks, FreshLookup, FreshList, Fresh, Wait, Unmoved
  <2>3. r.stage # "keys"
    BY <2>1, FreshRouted, FirstPasses DEF Asks, FreshLookup, FreshList, Stages, Backends
  <2>4. Awaits(r)
    BY <2>1, <2>3 DEF Asks, FreshLookup, FreshList, Awaits
  <2>5. Grows /\ Awaits(r)'
    BY <2>2, <2>4 DEF Grows, Awaits, Live
  <2> QED BY <2>2, <2>5, KnowsKeeps
<1>2. CASE MakesOn(c)
  <2>1. PICK r : Makes(c, r)
    BY <1>2 DEF MakesOn
  <2>2. /\ r \in Requests /\ r.op = "create" /\ r.id \in Ids /\ r.new \in Ctx /\ r.seen = {} /\ Begins(c, r)
        /\ UNCHANGED <<up, avail, disk>>
    BY <2>1, LoadType, BodyType DEF Makes, FreshCreate, Fresh, Inv
  <2> QED BY <2>2, BeginsKnows
<1>3. CASE AltersOn(c)
  <2>1. PICK q, v, filled, r : Alters(c, q, v, filled, r)
    BY <1>3 DEF AltersOn
  <2>2. q.op # "delete"
    BY <2>1, OwnRequest DEF Alters, Looks, FreshLookup, Fresh, Sound, Used
  <2>3. /\ r \in Requests /\ r.op = "update" /\ r.id \in Ids /\ r.id = q.id /\ r.new \in Ctx /\ Begins(c, r)
    BY <2>1, <2>2, AltersWhole
  <2>4. q.id \in known /\ q.seen \subseteq known /\ r.seen = q.seen
    BY <2>1, <2>2, LooksFinds DEF Alters, Same, Looks
  <2>5. UNCHANGED <<up, avail, disk>>
    BY <2>1 DEF Alters, Looks, Unmoved
  <2> QED BY <2>3, <2>4, <2>5, BeginsKnows
<1>4. CASE TellsOn(c)
  <2>1. PICK q, v, filled : Tells(c, q, v, filled)
    BY <1>4 DEF TellsOn
  <2>2. /\ UNCHANGED <<up, avail, disk, memory>> /\ req' = [req EXCEPT ![c] = None] /\ known' = known
    BY <2>1 DEF Tells, Looks, Unmoved, Respond
  <2>3. Grows
    BY <2>2 DEF Grows
  <2> QED BY <2>2, <2>3, KnowsKeeps
<1>5. CASE ListsOn(c)
  <2>1. PICK q, value : Lists(c, q, value)
    BY <1>5 DEF ListsOn
  <2>2. /\ UNCHANGED <<up, avail, disk, memory>> /\ req' = [req EXCEPT ![c] = None]
        /\ known' = known \cup {i \in Ids : value[i] # None}
    BY <2>1 DEF Lists, Unmoved, Respond
  <2>3. \A i \in known' \ known : Authority(Home)[i] # None
    BY <2>1, <2>2, ListsKnown
  <2>4. Grows
    BY <2>2, <2>3 DEF Grows, Authority
  <2> QED BY <2>2, <2>4, KnowsKeeps
<1>6. CASE ClosesOn(c)
  <2>1. PICK q \in Requests : Closes(c, q)
    BY <1>6 DEF ClosesOn, Closes
  <2>2. /\ req[c] # None /\ q = req[c] /\ Sound(c, q) /\ Writing(q) /\ q.stage = "memory" /\ Ends(c, q)
        /\ UNCHANGED <<up, avail, disk>> /\ Awaits(q)
    BY <2>1, OwnRequest DEF Closes, Unmoved, Knows
  <2>3. q.phase = "store" /\ q.op \in {"create", "update"} /\ q.id \in Ids /\ q.new \in Ctx
    BY <2>2, StoresType DEF Sound, Used, Writing
  <2>4. \A b \in Backends : Live(b) => disk[b][q.id] # None
    BY <2>2, <2>3 DEF Awaits, Passed, Backends
  <2> QED BY <2>2, <2>3, <2>4, EndsKnows
<1>7. ~FailsOn(c)
  BY WholeReads
<1> QED BY <1>1, <1>2, <1>3, <1>4, <1>5, <1>6, <1>7, TurnsKnows DEF ClientStep

\* What every behaviour of one pod without null updates keeps, and what it
\* keeps while the backends stay as they are.
Base ==
  /\ OnePod /\ Definite /\ Inv /\ Whole
  /\ faults \in [flaps : Nat, lost : Nat, restarts : Nat]
  /\ Still => Route

LEMMA BaseStep ==
  ASSUME Base, [Next]_vars
  PROVE  /\ Base'
         /\ Still' => /\ Still
                      /\ \/ \E c \in Clients : ClientStep(c)
                         \/ \E p \in Pods, id \in Ids : Expire(p, id)
                         \/ UNCHANGED vars
<1>1. Inv' /\ Whole' /\ faults' \in [flaps : Nat, lost : Nat, restarts : Nat]
  BY NextKeeps, WholeStep, FaultsGrow DEF Base
<1>2. ASSUME Still'
      PROVE  /\ Still
             /\ \/ \E c \in Clients : ClientStep(c)
                \/ \E p \in Pods, id \in Ids : Expire(p, id)
                \/ UNCHANGED vars
  BY <1>2, Steps, FaultsGrow DEF Base, Still
<1>3. ASSUME Still' PROVE Route'
  <2>1. ASSUME NEW c \in Clients, ClientStep(c) PROVE Route'
    BY <1>2, <1>3, <2>1, RouteStep DEF Base
  <2>2. ASSUME UNCHANGED <<req, up, avail>> PROVE Route'
    BY <1>2, <1>3, <2>2 DEF Base, Route, Routed, Live
  <2>3. ASSUME NEW p \in Pods, NEW id \in Ids, Expire(p, id) PROVE UNCHANGED <<req, up, avail>>
    BY <2>3 DEF Expire, env
  <2> QED BY <1>2, <1>3, <2>1, <2>2, <2>3 DEF vars
<1> QED BY <1>1, <1>2, <1>3 DEF Base, OnePod, Definite

LEMMA BaseInvariance == OnePod /\ Definite /\ Spec => []Base
<1>1. OnePod /\ Definite /\ Init => Base
  BY InitInv, WholeInit DEF Init, Base, Route
<1>2. Base /\ [Next]_vars => Base'
  BY BaseStep
<1> QED BY <1>1, <1>2, PTL DEF Spec

KnowsBase == Base /\ (Still /\ "delete" \notin Used => Knows)

LEMMA KnowsBaseStep ==
  ASSUME KnowsBase, [Next]_vars
  PROVE  KnowsBase'
<1>1. Base' /\ load' = load
  BY BaseStep, LoadKept DEF KnowsBase, Base
<1>2. ASSUME Still', ("delete" \notin Used)' PROVE Knows'
  <2>1. Inv /\ Whole /\ Definite /\ Route /\ Knows /\ OnePod /\ "delete" \notin Used
    BY <1>1, <1>2, BaseStep DEF KnowsBase, Base, Used
  <2>2. ASSUME NEW c \in Clients, ClientStep(c) PROVE Knows'
    BY <2>1, <2>2, KnowsStep
  <2>3. ASSUME UNCHANGED <<req, up, avail, disk, memory, known>> PROVE Knows'
    BY <2>1, <2>3 DEF Knows, Awaits, Live, Authority
  <2>4. ASSUME NEW p \in Pods, NEW id \in Ids, Expire(p, id)
        PROVE  UNCHANGED <<req, up, avail, disk, memory, known>>
    BY <2>4 DEF Expire, env
  <2> QED BY <1>2, <2>2, <2>3, <2>4, BaseStep DEF vars, KnowsBase
<1> QED BY <1>1, <1>2 DEF KnowsBase

LEMMA KnowsInvariance == OnePod /\ Definite /\ Spec => []KnowsBase
<1>1. OnePod /\ Definite /\ Init => KnowsBase
  BY InitInv, WholeInit DEF Init, KnowsBase, Base, Route, Knows
<1>2. KnowsBase /\ [Next]_vars => KnowsBase'
  BY KnowsBaseStep
<1> QED BY <1>1, <1>2, PTL DEF Spec

\* The answer of a write that ends or begins.
LEMMA EndsAnswer ==
  ASSUME Inv, NEW c \in Clients, NEW r, Ends(c, r) \/ Begins(c, r)
  PROVE  /\ answer' = answer \/ answer'.status \in {"ok", "500"}
         /\ \A d \in Clients \ {c} : req'[d] = req[d]
<1>1. ASSUME NEW status, NEW value, Respond(c, r, status, value)
      PROVE  answer'.status = status /\ \A d \in Clients \ {c} : req'[d] = req[d]
  BY <1>1 DEF Respond, Inv, TypeOK
<1>2. CASE Ends(c, r)
  BY <1>1, <1>2 DEF Ends, EndStore, EndDelete
<1>3. CASE First(r.pod) # "memory" /\ Begins(c, r)
  BY <1>3 DEF Begins, Wait, Inv, TypeOK
<1> QED BY <1>2, <1>3 DEF Begins

\* The step of a client leaves the requests of the others, and its answer is
\* a 404 only where a lookup has found nothing.
LEMMA StepShows ==
  ASSUME Inv, NEW c \in Clients, ClientStep(c)
  PROVE  /\ \A d \in Clients \ {c} : req'[d] = req[d]
         /\ \/ answer' = answer \/ answer'.status \in {"ok", "500"}
            \/ \E q, v, filled : Looks(c, q, v, filled) /\ v = None
<1>1. CASE AsksOn(c) \/ TurnsOn(c)
  BY <1>1 DEF AsksOn, Asks, TurnsOn, Turns, Wait, Inv, TypeOK
<1>2. CASE MakesOn(c) \/ AltersOn(c) \/ ClosesOn(c)
  BY <1>2, EndsAnswer DEF MakesOn, Makes, AltersOn, Alters, ClosesOn, Closes
<1>3. CASE TellsOn(c)
  <2>1. PICK q, v, filled : Tells(c, q, v, filled)
    BY <1>3 DEF TellsOn
  <2>2. PICK status : status \in {"ok", "404"} /\ Respond(c, q, status, v) /\ (status = "404" => v = None)
    BY <2>1 DEF Tells
  <2>3. answer'.status = status /\ \A d \in Clients \ {c} : req'[d] = req[d]
    BY <2>2 DEF Respond, Inv, TypeOK
  <2> QED BY <2>1, <2>2, <2>3 DEF Tells
<1>4. CASE ListsOn(c) \/ FailsOn(c)
  <2>1. PICK q, status, value : status \in {"ok", "500"} /\ Respond(c, q, status, value)
    BY <1>4 DEF ListsOn, Lists, FailsOn, Fails
  <2>2. answer'.status = status /\ \A d \in Clients \ {c} : req'[d] = req[d]
    BY <2>1 DEF Respond, Inv, TypeOK
  <2> QED BY <2>1, <2>2
<1> QED BY <1>1, <1>2, <1>3, <1>4 DEF ClientStep

\* With one pod and no null updates: as long as nothing is deleted and the
\* backends stay as they are, no client is told that a context it knows of
\* does not exist, whichever of the backends answer, whatever replies are
\* lost and whatever others update meanwhile.
THEOREM FindsKnown == OnePod /\ Definite /\ Spec => KnownIsFound
<1> DEFINE A == /\ "delete" \notin Used /\ faults.restarts = 0 /\ faults.flaps = 0
                /\ answer' # answer
                => answer'.status # "404"
<1>1. ASSUME KnowsBase, [Next]_vars PROVE [A]_vars
  <2> SUFFICES ASSUME "delete" \notin Used, Still, answer' # answer, answer'.status = "404"
               PROVE  FALSE
    BY DEF Still
  <2>1. Inv /\ Whole /\ Route /\ Knows /\ OnePod
    BY <1>1 DEF KnowsBase, Base
  <2>2. PICK c \in Clients : ClientStep(c)
    <3>1. ASSUME NEW x, Flap(x) \/ Restart(x) PROVE FALSE
      BY <3>1 DEF Flap, Restart
    <3>2. ASSUME NEW p, NEW id, Expire(p, id) PROVE FALSE
      BY <3>2 DEF Expire
    <3> QED BY <1>1, <2>1, <3>1, <3>2, Steps DEF vars
  <2>3. PICK q, v, filled : Looks(c, q, v, filled) /\ v = None
    BY <2>1, <2>2, StepShows
  <2>4. q.op # "delete"
    BY <2>1, <2>3, OwnRequest DEF Looks, FreshLookup, Fresh, Sound, Used
  <2> QED BY <2>1, <2>3, <2>4, LooksFinds DEF Looks
<1> QED BY <1>1, KnowsInvariance, PTL DEF Spec, KnownIsFound

\* The request of a listing ends with the listing.
LEMMA ListEnds ==
  ASSUME Inv, Whole, NEW c \in Clients, ClientStep(c), req[c] # None, req[c].op = "list", req'[c] = None
  PROVE  ListsOn(c)
<1>1. Sound(c, req[c]) /\ req[c].phase = "list"
  BY OwnRequest DEF Sound
<1>2. ~AsksOn(c) /\ ~MakesOn(c)
  BY DEF AsksOn, Asks, FreshLookup, FreshList, Fresh, MakesOn, Makes, FreshCreate
<1>3. ~TurnsOn(c)
  <2> SUFFICES ASSUME NEW q, NEW r, Turns(c, q, r) PROVE FALSE
    BY DEF TurnsOn
  <2>1. r \in Requests /\ req' = [req EXCEPT ![c] = r]
    BY TurnsFields
  <2> QED BY <2>1, RequestsAssumption DEF Inv, TypeOK
<1>4. ~TellsOn(c) /\ ~AltersOn(c)
  BY <1>1 DEF TellsOn, Tells, AltersOn, Alters, Looks, FreshLookup, Fresh
<1>5. ~ClosesOn(c) /\ ~FailsOn(c)
  BY <1>1, WholeReads DEF ClosesOn, Closes, Writing
<1> QED BY <1>2, <1>3, <1>4, <1>5 DEF ClientStep

\* Then, too, a listing shows all that was known when it began: it misses
\* nothing that is updated while it reads Redis key by key, and nothing that
\* it has to read from a backend behind one that does not answer.
THEOREM ListsKnownOf == OnePod /\ Definite /\ Spec => ListsAllKnown
<1> DEFINE Ended(c) == /\ "delete" \notin Used /\ faults'.restarts = 0 /\ faults.flaps = 0
                       /\ c \in InFlight("list") /\ req'[c] = None /\ answer'.status = "ok"
           A == \A c \in Clients : Ended(c) => \A id \in req[c].seen : answer'.value[id] # None
<1>1. ASSUME KnowsBase, [Next]_vars PROVE [A]_vars
  <2> SUFFICES ASSUME NEW c \in Clients, Ended(c) PROVE \A id \in req[c].seen : answer'.value[id] # None
    OBVIOUS
  <2>0. Still /\ req[c] # None /\ req[c].op = "list"
    BY <1>1, FaultsGrow DEF KnowsBase, Base, Still, InFlight
  <2>1. Inv /\ Whole /\ Route /\ Knows /\ OnePod
    BY <1>1, <2>0 DEF KnowsBase, Base
  <2>2. PICK d \in Clients : ClientStep(d)
    <3>1. ASSUME NEW x, Flap(x) PROVE FALSE
      BY <2>0, <3>1 DEF Flap
    <3>2. ASSUME NEW p, NEW id, Expire(p, id) PROVE FALSE
      BY <2>0, <3>2 DEF Expire
    <3>3. ~\E p : Restart(p)
      BY <1>1, FaultsGrow DEF KnowsBase, Base
    <3> QED BY <1>1, <2>0, <2>1, <3>1, <3>2, <3>3, Steps DEF vars
  <2>3. d = c
    BY <2>0, <2>1, <2>2, StepShows
  <2>4. PICK q, value : Lists(c, q, value)
    BY <2>0, <2>1, <2>2, <2>3, ListEnds DEF ListsOn
  <2>5. q = req[c] /\ answer'.value = value
    BY <2>0, <2>4 DEF Lists, FreshList, Fresh, Respond
  <2> QED BY <2>1, <2>4, <2>5, ListsKnown
<1> QED BY <1>1, KnowsInvariance, PTL DEF Spec, ListsAllKnown
-----------------------------------------------------------------------------
(* What the stores hold, when no backend flaps and no pod restarts.         *)

\* The backends are those that the pod found when it started, and answer or
\* not for good; where there are any, clients have contexts of their own.
Steady == MaxFlaps = 0 /\ MaxRestarts = 0
Apart == \A l \in Workloads : l.startups = {{}} \/ \A c, d \in Clients : c # d => l.ids[c] \cap l.ids[d] = {}

Writes(c, id) == req[c] # None /\ Writing(req[c]) /\ req[c].id = id

\* What a backend that answers holds of a context that nobody writes, and of
\* one whose write has come as far as r.stage: a SET or DEL whose reply was
\* lost has reached Redis already.
Settled(id) == \A b \in Backends : Live(b) => disk[b][id] = memory[Home][id]
Halfway(r) ==
  /\ \A b \in Backends : Live(b) =>
       IF Passed(r.stage, b) THEN disk[b][r.id] = r.new
       ELSE \/ disk[b][r.id] = memory[Home][r.id]
            \/ r.stage = "redis" /\ b = "redis" /\ disk[b][r.id] = r.new
  /\ r.stage = "commit" /\ Live("pg") => r.row = disk["pg"][r.id]

Lawful(c, r) == avail[Home] # {} /\ (r.op # "list" => r.id \in load.ids[c])

Agreed ==
  /\ avail[Home] \in load.startups
  /\ \A c \in Clients : req[c] # None => Lawful(c, req[c]) /\ (Writing(req[c]) => Halfway(req[c]))
  /\ \A id \in Ids : (\A c \in Clients : ~Writes(c, id)) => Settled(id)

\* Nobody else writes a context of c.
LEMMA WritesAlone ==
  ASSUME Inv, Apart, Agreed, NEW c \in Clients, NEW id \in load.ids[c]
  PROVE  \A d \in Clients \ {c} : ~Writes(d, id)
<1> SUFFICES ASSUME NEW d \in Clients \ {c}, Writes(d, id) PROVE FALSE
  OBVIOUS
<1>1. req[d].op # "list" /\ req[d] # None
  BY OwnRequest DEF Writes, Writing, Sound
<1>2. id \in load.ids[d] /\ load.startups # {{}}
  BY <1>1 DEF Agreed, Lawful, Writes
<1>3. load \in Workloads
  BY DEF Inv, TypeOK
<1>4. load.ids[c] \cap load.ids[d] = {}
  BY <1>2, <1>3 DEF Apart
<1> QED BY <1>2, <1>4

\* The step of a client, whose request was of id if it wrote, leaves r, and
\* leaves the other contexts as they are.
LEMMA AgreedKeeps ==
  ASSUME Inv, Agreed, NEW c \in Clients, NEW r \in Requests \cup {None}, NEW id \in Ids,
         \A d \in Clients \ {c} : ~Writes(d, id),
         req[c] # None /\ Writing(req[c]) => req[c].id = id,
         req' = [req EXCEPT ![c] = r], UNCHANGED <<up, avail, load>>,
         \A i \in Ids \ {id} : memory'[Home][i] = memory[Home][i] /\ \A b \in Backends : disk'[b][i] = disk[b][i],
         r # None => Lawful(c, r),
         r # None /\ Writing(r) => r.id = id /\ Halfway(r)',
         r = None \/ ~Writing(r) => Settled(id)'
  PROVE  Agreed'
<1>1. req'[c] = r /\ \A d \in Clients \ {c} : req'[d] = req[d]
  BY DEF Inv, TypeOK
<1>2. "pg" \in Backends /\ \A b : Live(b)' <=> Live(b)
  BY DEF Backends, Live
<1>3. ASSUME NEW d \in Clients, req'[d] # None
      PROVE  Lawful(d, req[d])' /\ (Writing(req[d])' => Halfway(req[d])')
  <2>1. CASE d = c
    BY <1>1, <1>3, <2>1 DEF Lawful, Writing, Halfway
  <2>2. CASE d # c
    <3>1. PICK q \in Requests : q = req[d] /\ q = req'[d] /\ Lawful(d, q)
                                   /\ (Writing(q) => Halfway(q) /\ q.id \in Ids \ {id})
      <4>1. req[d] # None /\ req[d] \in Requests /\ (Writing(req[d]) => req[d].id \in Ids)
        BY <1>1, <1>3, <2>2, OwnRequest DEF Sound, Writing
      <4>2. Lawful(d, req[d]) /\ (Writing(req[d]) => Halfway(req[d]))
        BY <4>1 DEF Agreed
      <4>3. Writing(req[d]) => req[d].id # id
        BY <2>2, <4>1 DEF Writes
      <4> QED BY <1>1, <2>2, <4>1, <4>2, <4>3
    <3>2. Writing(q) => Halfway(q)'
      BY <1>2, <3>1 DEF Halfway
    <3> QED BY <3>1, <3>2 DEF Lawful, Writing, Halfway
  <2> QED BY <2>1, <2>2
<1>4. ASSUME NEW i \in Ids, \A d \in Clients : ~Writes(d, i)' PROVE Settled(i)'
  <2>1. CASE i = id
    <3>1. r = None \/ ~Writing(r)
      BY <1>1, <1>4, <2>1 DEF Writes, Writing
    <3> QED BY <2>1, <3>1 DEF Settled
  <2>2. CASE i # id
    <3>1. \A d \in Clients : ~Writes(d, i)
      BY <1>1, <1>4, <2>2 DEF Writes, Writing
    <3>2. Settled(i)
      BY <3>1 DEF Agreed
    <3> QED BY <1>2, <2>2, <3>2 DEF Settled
  <2> QED BY <2>1, <2>2
<1>5. avail'[Home] \in load'.startups
  BY DEF Agreed
<1> QED BY <1>3, <1>4, <1>5 DEF Agreed

\* A request that does not write arrives, goes on or is answered.
LEMMA AgreedStays ==
  ASSUME Inv, Agreed, NEW c \in Clients, NEW r \in Requests \cup {None},
         req[c] # None => ~Writing(req[c]), r # None => ~Writing(r) /\ Lawful(c, r),
         req' = [req EXCEPT ![c] = r], UNCHANGED <<up, avail, load, disk, memory>>
  PROVE  Agreed'
<1>1. req'[c] = r /\ \A d \in Clients \ {c} : req'[d] = req[d]
  BY DEF Inv, TypeOK
<1>2. \A b : Live(b)' <=> Live(b)
  BY DEF Live
<1>3. ASSUME NEW d \in Clients, req'[d] # None
      PROVE  Lawful(d, req[d])' /\ (Writing(req[d])' => Halfway(req[d])')
  <2>1. CASE d = c
    BY <1>1, <1>3, <2>1 DEF Lawful, Writing
  <2>2. CASE d # c
    BY <1>1, <1>2, <1>3, <2>2 DEF Agreed, Lawful, Writing, Halfway
  <2> QED BY <2>1, <2>2
<1>4. ASSUME NEW i \in Ids, \A d \in Clients : ~Writes(d, i)' PROVE Settled(i)'
  <2>1. \A d \in Clients : ~Writes(d, i)
    BY <1>1, <1>4 DEF Writes, Writing
  <2>2. Settled(i)
    BY <2>1 DEF Agreed
  <2> QED BY <1>2, <2>2 DEF Settled
<1>5. avail'[Home] \in load'.startups
  BY DEF Agreed
<1> QED BY <1>3, <1>4, <1>5 DEF Agreed

\* A write that ends.
LEMMA EndsAgreed ==
  ASSUME Inv, Agreed, Apart, OnePod, NEW c \in Clients, NEW r \in Requests, r.id \in load.ids[c], r.id \in Ids,
         r.op = "delete" => r.new = None, Ends(c, r), UNCHANGED <<up, avail, load, disk>>,
         req[c] # None /\ Writing(req[c]) => req[c].id = r.id,
         \A b \in Backends : Live(b) => disk[b][r.id] = r.new
  PROVE  Agreed'
<1>1. r.pod = Home /\ r.new \in Ctx \cup {None} /\ Home \in Pods
  BY HomeIs, RequestFields
<1>2. memory' = Put(memory, Home, r.id, r.new) /\ req' = [req EXCEPT ![c] = None]
  BY <1>1 DEF Ends, EndStore, EndDelete, Respond
<1>3. memory'[Home][r.id] = r.new /\ \A i \in Ids \ {r.id} : memory'[Home][i] = memory[Home][i]
  <2>1. /\ Put(memory, Home, r.id, r.new)[Home][r.id] = r.new
        /\ \A i \in Ids \ {r.id} : Put(memory, Home, r.id, r.new)[Home][i] = memory[Home][i]
    BY <1>1, PutType, StoresType
  <2> QED BY <1>2, <2>1
<1>4. Settled(r.id)'
  BY <1>3 DEF Settled, Live
<1>5. \A d \in Clients \ {c} : ~Writes(d, r.id)
  BY WritesAlone
<1> QED BY <1>2, <1>3, <1>4, <1>5, AgreedKeeps

\* A write that begins.
LEMMA BeginsAgreed ==
  ASSUME Inv, Agreed, Apart, OnePod, NEW c \in Clients, NEW r \in Requests, r.id \in load.ids[c], r.id \in Ids,
         r.op # "list", r.op = "delete" => r.new = None, Begins(c, r), UNCHANGED <<up, avail, load, disk>>,
         req[c] # None => ~Writing(req[c])
  PROVE  Agreed'
<1>1. r.pod = Home
  BY HomeIs, RequestFields
<1>2. CASE First(Home) = "memory"
  <2>1. Ends(c, r) /\ \A b \in Backends : ~Live(b)
    BY <1>1, <1>2, FirstPasses DEF Begins
  <2> QED BY <2>1, EndsAgreed
<1>3. CASE First(Home) # "memory"
  <2>1. /\ r.stage = First(Home) /\ r.phase \in {"store", "remove"} /\ memory' = memory
        /\ req' = [req EXCEPT ![c] = r]
    BY <1>1, <1>3 DEF Begins, Wait
  <2>2. \A d \in Clients : ~Writes(d, r.id)
    BY WritesAlone DEF Writes
  <2>3. Settled(r.id)
    BY <2>2 DEF Agreed
  <2>4. Halfway(r)
    BY <2>1, <2>3, FirstPasses DEF Halfway, Settled, Stages, Backends
  <2>5. Lawful(c, r)
    BY <1>3 DEF Lawful, First
  <2>6. Halfway(r)'
    BY <2>1, <2>4 DEF Halfway, Live
  <2>7. Writing(r) /\ r # None /\ \A d \in Clients \ {c} : ~Writes(d, r.id)
    BY <2>1, <2>2, RequestsAssumption DEF Writing
  <2>8. \A i \in Ids : memory'[Home][i] = memory[Home][i] /\ \A b \in Backends : disk'[b][i] = disk[b][i]
    BY <2>1
  <2> QED BY <2>1, <2>5, <2>6, <2>7, <2>8, AgreedKeeps
<1> QED BY <1>2, <1>3

\* What the backends hold after one has been written to.
LEMMA DiskPut ==
  ASSUME Inv, NEW b \in Backends, NEW id \in Ids, NEW v \in Ctx \cup {None}, disk' = Put(disk, b, id, v)
  PROVE  /\ disk'[b][id] = v
         /\ \A d \in Backends \ {b} : disk'[d][id] = disk[d][id]
         /\ \A i \in Ids \ {id}, d \in Backends : disk'[d][i] = disk[d][i]
<1>1. disk \in [Backends -> Stored]
  BY StoresType
<1>2. /\ Put(disk, b, id, v)[b][id] = v
      /\ \A d \in Backends, i \in Ids : d # b \/ i # id => Put(disk, b, id, v)[d][i] = disk[d][i]
  BY <1>1, PutType
<1> QED BY <1>2

LEMMA TurnsAgreed ==
  ASSUME Inv, Whole, Route, Agreed, Apart, OnePod, NEW c \in Clients, TurnsOn(c)
  PROVE  Agreed'
<1>1. PICK q, r : Turns(c, q, r)
  BY DEF TurnsOn
<1>2. /\ req[c] # None /\ q = req[c] /\ q \in Requests /\ r \in Requests /\ q.pod = Home /\ Sound(c, q)
      /\ Clean(q) /\ Lawful(c, q) /\ (Writing(q) => Halfway(q))
      /\ r.op = q.op /\ r.id = q.id /\ r.new = q.new /\ (q.op # "list" => q.id \in Ids)
      /\ req' = [req EXCEPT ![c] = r] /\ UNCHANGED <<up, avail, memory, load>> /\ (Writing(q) <=> Writing(r))
  BY <1>1, TurnsFields, HomeIs DEF Agreed, Whole
<1>3. Lawful(c, r) /\ r # None /\ \A b : Live(b)' <=> Live(b)
  BY <1>2, RequestsAssumption DEF Lawful, Live
<1>4. CASE ~Writing(q)
  <2>1. disk' = disk
    BY <1>1, <1>4 DEF Turns, Repeats, Commits
  <2> QED BY <1>2, <1>3, <1>4, <2>1, AgreedStays
<1>5. CASE Writing(q)
  <2>1. /\ Writing(r) /\ Halfway(q) /\ q.id \in Ids /\ q.id \in load.ids[c] /\ q.new \in Ctx \cup {None}
        /\ q.phase = "store" => q.new \in Ctx /\ Valid(q.new)
        /\ q.phase = "remove" => q.new = None
    BY <1>2, <1>5, StoresType DEF Sound, Writing, Lawful, Clean, Showable
  <2>2. ASSUME Halfway(r)', \A i \in Ids \ {q.id}, b \in Backends : disk'[b][i] = disk[b][i]
        PROVE  Agreed'
    <3>1. \A d \in Clients \ {c} : ~Writes(d, q.id)
      BY <2>1, WritesAlone
    <3> QED BY <1>2, <1>3, <2>1, <2>2, <3>1, AgreedKeeps
  <2>3. ASSUME disk' = disk, Halfway(r) PROVE Agreed'
    <3>1. Halfway(r)'
      BY <1>2, <1>3, <2>3 DEF Halfway
    <3> QED BY <2>2, <2>3, <3>1
  <2>4. CASE disk' = disk /\ Skips(q, r)
    <3>1. /\ q.stage \in Backends /\ ~Live(q.stage) /\ r.stage = After(Home, q.stage)
      BY <1>2, <1>5, <2>4 DEF Skips, Live, Writing
    <3>2. /\ r.stage \in {"redis", "memory"} /\ q.stage # "commit"
          /\ \A b \in Backends : Live(b) => (Passed(r.stage, b) => Passed(q.stage, b)) /\ b # q.stage
      BY <3>1, AfterPasses DEF Backends
    <3>3. \A b \in Backends : Passed(q.stage, b) => Passed(r.stage, b) \/ ~Live(b)
      BY <3>1, <3>2 DEF Passed, Backends
    <3>4. Halfway(r)
      BY <1>2, <2>1, <3>1, <3>2, <3>3 DEF Halfway
    <3> QED BY <2>3, <2>4, <3>4
  <2>5. CASE disk' = disk /\ Loads(q, r)
    <3>1. Halfway(r)
      BY <1>2, <2>1, <2>5 DEF Halfway, Loads, Passed
    <3> QED BY <2>3, <2>5, <3>1
  <2>6. CASE disk' = disk /\ Repeats(q, r) /\ ~up["redis"]
    <3>1. /\ q.stage = "redis" /\ r.stage \in {"redis", "memory"} /\ ~Live("redis")
      BY <2>6 DEF Repeats, Live
    <3>2. \A b \in Backends : Live(b) => b = "pg" /\ Passed(q.stage, b) /\ Passed(r.stage, b)
      BY <3>1 DEF Passed, Backends
    <3>3. Halfway(r)
      BY <1>2, <2>1, <3>1, <3>2 DEF Halfway
    <3> QED BY <2>3, <2>6, <3>3
  <2>7. CASE disk' = Put(disk, "redis", q.id, q.new) /\ Repeats(q, r)
    <3>1. /\ q.stage = "redis" /\ r.stage \in {"redis", "memory"}
      BY <2>7 DEF Repeats
    <3>2. /\ disk'["redis"][q.id] = q.new /\ disk'["pg"][q.id] = disk["pg"][q.id]
          /\ \A i \in Ids \ {q.id}, b \in Backends : disk'[b][i] = disk[b][i]
      BY <2>1, <2>7, DiskPut, StoresType
    <3>3. Live("pg") => disk["pg"][q.id] = q.new
      BY <2>1, <3>1 DEF Halfway, Passed, Backends
    <3>4. Halfway(r)'
      BY <1>2, <1>3, <3>1, <3>2, <3>3 DEF Halfway, Passed, Backends
    <3> QED BY <2>2, <3>2, <3>4
  <2>8. CASE disk' = Committed(q) /\ Commits(q, r)
    <3>1. q.stage = "commit" /\ r.stage = After(Home, "pg") /\ r.stage \in {"redis", "memory"}
      BY <1>2, <2>8 DEF Commits, After
    <3>2. /\ Live("pg") => q.row = disk["pg"][q.id]
          /\ Live("redis") => disk["redis"][q.id] = memory[Home][q.id] /\ r.stage = "redis"
      BY <2>1, <3>1 DEF Halfway, Passed, Backends, Live, After
    <3>3. PICK v : disk' = Put(disk, "pg", q.id, v) /\ v \in Ctx \cup {None} /\ (Live("pg") => v = q.new)
      <4>1. disk["pg"][q.id] \in Ctx \cup {None} /\ q.row \in Ctx \cup {None}
        BY <1>1, <2>8, CommittedForms
      <4>2. Put(disk, "pg", q.id, disk["pg"][q.id]) = disk
        BY <2>1, StoresType DEF Put, Stored
      <4>3. CASE Live("pg") /\ q.phase = "store"
        <5>1. up["pg"] /\ q.row = disk["pg"][q.id] /\ Valid(q.new) /\ q.new \in Ctx
          BY <2>1, <3>2, <4>3 DEF Live
        <5>2. CommitRow(disk["pg"][q.id], q.row, q.new) = q.new
          BY <4>1, <5>1, CommitRowType
        <5> QED BY <2>8, <4>3, <5>1, <5>2 DEF Committed
      <4>4. CASE Live("pg") /\ q.phase = "remove"
        BY <2>1, <2>8, <3>2, <4>2, <4>4 DEF Committed, Live
      <4>5. CASE ~Live("pg")
        BY <1>1, <2>8, <4>1, <4>2, <4>5, CommittedForms
      <4> QED BY <1>5, <4>3, <4>4, <4>5 DEF Writing
    <3>4. /\ disk'["pg"][q.id] = v /\ disk'["redis"][q.id] = disk["redis"][q.id]
          /\ \A i \in Ids \ {q.id}, b \in Backends : disk'[b][i] = disk[b][i]
      BY <2>1, <3>3, DiskPut, StoresType
    <3>5. Halfway(r)'
      BY <1>2, <1>3, <3>1, <3>2, <3>3, <3>4 DEF Halfway, Passed, Backends
    <3> QED BY <2>2, <3>4, <3>5
  <2> QED BY <1>1, <1>5, <2>4, <2>5, <2>6, <2>7, <2>8 DEF Turns, Reads, HasKeys, HasKey, Writing
<1> QED BY <1>4, <1>5

LEMMA AgreedStep ==
  ASSUME Inv, Whole, Definite, Route, Agreed, Apart, OnePod, NEW c \in Clients, ClientStep(c)
  PROVE  Agreed'
<1>1. CASE AsksOn(c)
  <2>1. PICK r : Asks(c, r)
    BY <1>1 DEF AsksOn
  <2>2. /\ r \in Requests /\ req' = [req EXCEPT ![c] = r] /\ UNCHANGED <<up, avail, load, disk, memory>>
        /\ req[c] = None /\ ~Writing(r) /\ (r.op # "list" => r.id \in load.ids[c])
    BY <2>1 DEF Asks, FreshLookup, FreshList, Fresh, Wait, Unmoved, Writing
  <2>3. avail[Home] # {}
    BY <2>1, FreshRouted DEF Asks, FreshLookup, FreshList, First
  <2>4. Lawful(c, r)
    BY <2>2, <2>3 DEF Lawful
  <2> QED BY <2>2, <2>4, AgreedStays
<1>2. CASE MakesOn(c)
  <2>1. PICK r : Makes(c, r)
    BY <1>2 DEF MakesOn
  <2>2. /\ r \in Requests /\ r.op = "create" /\ r.id \in load.ids[c] /\ Begins(c, r) /\ req[c] = None
        /\ UNCHANGED <<up, avail, load, disk>>
    BY <2>1 DEF Makes, FreshCreate, Fresh
  <2>3. r.id \in Ids
    BY <2>2, LoadType DEF Inv
  <2> QED BY <2>2, <2>3, BeginsAgreed
<1>3. CASE AltersOn(c)
  <2>1. PICK q, v, filled, r : Alters(c, q, v, filled, r)
    BY <1>3 DEF AltersOn
  <2>2. /\ r \in Requests /\ r.op \in {"update", "delete"} /\ r.id \in Ids /\ r.id = q.id
        /\ (r.op = "delete" => r.new = None) /\ Begins(c, r) /\ r.op = q.op
    BY <2>1, AltersWhole
  <2>3. /\ UNCHANGED <<up, avail, load, disk>> /\ Looks(c, q, v, filled)
        /\ (req[c] # None => ~Writing(req[c]))
    BY <2>1 DEF Alters, Looks, Unmoved, Writing, FreshLookup, Fresh
  <2>4. r.id \in load.ids[c]
    BY <2>2, <2>3 DEF Looks, FreshLookup, Agreed, Lawful
  <2> QED BY <2>2, <2>3, <2>4, BeginsAgreed
<1>4. CASE TellsOn(c) \/ ListsOn(c)
  <2>1. /\ req' = [req EXCEPT ![c] = None] /\ UNCHANGED <<up, avail, load, disk, memory>>
        /\ req[c] # None => ~Writing(req[c])
    BY <1>4 DEF TellsOn, Tells, Looks, ListsOn, Lists, Respond, Unmoved, Writing, FreshLookup, FreshList, Fresh
  <2> QED BY <2>1, AgreedStays
<1>5. CASE ClosesOn(c)
  <2>1. PICK q \in Requests : Closes(c, q)
    BY <1>5 DEF ClosesOn, Closes
  <2>2. /\ req[c] # None /\ q = req[c] /\ Sound(c, q) /\ Writing(q) /\ q.stage = "memory" /\ Ends(c, q)
        /\ UNCHANGED <<up, avail, load, disk>> /\ Clean(q) /\ Halfway(q) /\ Lawful(c, q)
    BY <2>1, OwnRequest DEF Closes, Unmoved, Whole, Agreed
  <2>3. /\ q.id \in Ids /\ q.id \in load.ids[c] /\ (q.op = "delete" => q.new = None)
    BY <2>2, StoresType DEF Sound, Writing, Lawful, Clean
  <2>4. \A b \in Backends : Live(b) => disk[b][q.id] = q.new
    BY <2>2 DEF Halfway, Passed, Backends
  <2> QED BY <2>2, <2>3, <2>4, EndsAgreed
<1>6. ~FailsOn(c)
  BY WholeReads
<1> QED BY <1>1, <1>2, <1>3, <1>4, <1>5, <1>6, TurnsAgreed DEF ClientStep

AgreedBase == Base /\ Still /\ Steady /\ Apart /\ Agreed

LEMMA AgreedBaseStep ==
  ASSUME AgreedBase, [Next]_vars
  PROVE  AgreedBase'
<1>1. Base' /\ Steady /\ Apart
  BY BaseStep DEF AgreedBase
<1>2. Inv /\ Whole /\ Definite /\ Route /\ Agreed /\ OnePod
  BY DEF AgreedBase, Base
<1>3. (\A b : ~Flap(b)) /\ (\A p : ~Restart(p))
  BY DEF AgreedBase, Base, Still, Steady, Flap, Restart
<1>4. \/ \E c \in Clients : ClientStep(c)
      \/ \E p \in Pods, id \in Ids : Expire(p, id)
      \/ UNCHANGED vars
  BY <1>2, <1>3, Steps
<1>5. Still'
  BY <1>3, FaultsGrow DEF AgreedBase, Base, Still
<1>6. ASSUME NEW c \in Clients, ClientStep(c) PROVE Agreed'
  BY <1>2, <1>6, AgreedStep DEF AgreedBase
<1>7. ASSUME UNCHANGED <<req, up, avail, load, disk, memory>> PROVE Agreed'
  BY <1>2, <1>7 DEF Agreed, Lawful, Writing, Halfway, Writes, Settled, Live
<1>8. ASSUME NEW p \in Pods, NEW id \in Ids, Expire(p, id)
      PROVE  UNCHANGED <<req, up, avail, load, disk, memory>>
  BY <1>8 DEF Expire, env
<1>9. Agreed'
  BY <1>4, <1>6, <1>7, <1>8 DEF vars
<1> QED BY <1>1, <1>5, <1>9 DEF AgreedBase, Steady, Apart

LEMMA AgreedInvariance == OnePod /\ Definite /\ Steady /\ Apart /\ Spec => []AgreedBase
<1>1. OnePod /\ Definite /\ Steady /\ Apart /\ Init => AgreedBase
  <2> SUFFICES ASSUME OnePod, Definite, Steady, Apart, Init PROVE AgreedBase
    OBVIOUS
  <2>1. Base /\ Still
    BY InitInv, WholeInit DEF Init, Base, Route, Still
  <2>2. Agreed
    BY HomeIs DEF Init, Agreed, Settled, Live
  <2> QED BY <2>1, <2>2 DEF AgreedBase
<1>2. AgreedBase /\ [Next]_vars => AgreedBase'
  BY AgreedBaseStep
<1> QED BY <1>1, <1>2, PTL DEF Spec

\* With one pod, without null updates, flaps and restarts, and where clients
\* do not share the contexts that backends hold: whenever no request is in
\* flight, every backend that answers holds what memory holds, whatever was
\* created, updated and deleted, in whatever order the writes of different
\* contexts reached the backends, and whichever replies of Redis were lost.
THEOREM StoresHoldTheSame == OnePod /\ Definite /\ Steady /\ Apart /\ Spec => []StoresAgree
<1>1. AgreedBase => StoresAgree
  <2> SUFFICES ASSUME AgreedBase, Quiet, NEW p \in Pods, NEW b \in avail[p], up[b]
               PROVE  disk[b] = memory[p]
    BY DEF StoresAgree
  <2>1. p = Home /\ b \in Backends /\ Live(b) /\ Inv /\ Agreed
    BY HomeIs DEF AgreedBase, Base, Inv, TypeOK, Live
  <2>2. \A id \in Ids : disk[b][id] = memory[Home][id]
    BY <2>1 DEF Agreed, Quiet, Writes, Settled
  <2>3. disk[b] \in Stored /\ memory[Home] \in Stored
    BY <2>1, StoresType
  <2> QED BY <2>1, <2>2, <2>3 DEF Stored
<1> QED BY <1>1, AgreedInvariance, PTL
-----------------------------------------------------------------------------
(* The map that the service implements.                                     *)

\* Where there are backends, nobody writes while another client may list.
ListsApart ==
  \A l \in Workloads :
    \/ l.startups = {{}}
    \/ \A c, d \in Clients : c # d /\ "list" \in l.ops[c] => l.ops[d] \subseteq {"get", "list"}

\* Where a write comes from.
Origin(r) ==
  /\ r.op = "create" => r.old = None /\ r.new \in Creates
  /\ r.op = "update" => r.old # None /\ r.new = Merge(r.old, r.body)
  /\ r.op = "delete" => r.old # None

\* An answer on its way is still true, a listing has read what Redis holds,
\* and the cache remembers no more than what is stored or about to be.
Near(r) ==
  /\ r.op = "list" => r.id = None
  /\ r.phase = "reply" => r.old = Authority(Home)[r.id]
  /\ Writing(r) => Origin(r) /\ cache[Home][r.id] \in {None, r.new}
  /\ r.stage = "keys" => \A i \in Ids \ r.left : r.items[i] = disk["redis"][i]

Mapped ==
  /\ \A c \in Clients : req[c] # None => Near(req[c])
  /\ \A id \in Ids : (\A c \in Clients : ~Writes(c, id)) => cache[Home][id] \in {None, Authority(Home)[id]}

\* No other request is of a context of c, and no other lists while c writes.
Private(c, id) == \A d \in Clients \ {c} : req[d] # None /\ req[d].op # "list" => req[d].id # id
Unlisted(c) == \A d \in Clients \ {c} : req[d] # None => req[d].op # "list"

LEMMA StaysPrivate ==
  ASSUME Inv, Apart, ListsApart, Agreed, NEW c \in Clients
  PROVE  /\ \A id \in load.ids[c] : Private(c, id)
         /\ load.ops[c] \cap {"create", "update", "delete"} # {} => Unlisted(c)
<1>1. load \in Workloads
  BY DEF Inv, TypeOK
<1>2. ASSUME NEW d \in Clients \ {c}, req[d] # None
      PROVE  /\ load.startups # {{}} /\ req[d].op \in load.ops[d]
             /\ req[d].op # "list" => req[d].id \in load.ids[d]
  BY <1>2, OwnRequest DEF Agreed, Lawful, Sound
<1>3. ASSUME NEW d \in Clients \ {c}, load.startups # {{}}
      PROVE  /\ load.ids[d] \cap load.ids[c] = {}
             /\ "list" \in load.ops[d] => load.ops[c] \subseteq {"get", "list"}
  BY <1>1, <1>3 DEF Apart, ListsApart
<1>4. ASSUME NEW id \in load.ids[c] PROVE Private(c, id)
  BY <1>2, <1>3 DEF Private
<1>5. ASSUME load.ops[c] \cap {"create", "update", "delete"} # {} PROVE Unlisted(c)
  BY <1>2, <1>3, <1>5 DEF Unlisted
<1> QED BY <1>4, <1>5

\* What a step of one request leaves alone.
Elsewhere(id) ==
  /\ UNCHANGED <<up, avail>>
  /\ \A i \in Ids \ {id} :
       /\ memory'[Home][i] = memory[Home][i] /\ cache'[Home][i] = cache[Home][i]
       /\ \A b \in Backends : disk'[b][i] = disk[b][i]

LEMMA ElsewhereHolds ==
  ASSUME NEW id \in Ids, Elsewhere(id), NEW i \in Ids \ {id}
  PROVE  Authority(Home)'[i] = Authority(Home)[i] /\ cache'[Home][i] = cache[Home][i]
BY DEF Elsewhere, Authority, Backends

\* The step of a client whose request was of id, and leaves r, of id, or none.
LEMMA MappedKeeps ==
  ASSUME Inv, Route, Mapped, NEW c \in Clients, NEW r \in Requests \cup {None}, NEW id \in Ids,
         Private(c, id), Elsewhere(id), disk' = disk \/ Unlisted(c),
         req[c] # None /\ Writing(req[c]) => req[c].id = id,
         req' = [req EXCEPT ![c] = r],
         r # None => Near(r)' /\ (Writing(r) => r.id = id),
         r = None \/ ~Writing(r) => cache'[Home][id] \in {None, Authority(Home)'[id]}
  PROVE  Mapped'
<1>1. req'[c] = r /\ \A d \in Clients \ {c} : req'[d] = req[d]
  BY DEF Inv, TypeOK
<1>2. ASSUME NEW d \in Clients, req'[d] # None
      PROVE  Near(req[d])'
  <2>1. CASE d = c
    BY <1>1, <1>2, <2>1 DEF Near
  <2>2. CASE d # c
    <3>1. PICK q \in Requests : q = req[d] /\ q = req'[d] /\ Near(q) /\ Routed(q) /\ Sound(d, q)
                                /\ (q.op # "list" => q.id \in Ids \ {id})
      BY <1>1, <1>2, <2>2, OwnRequest DEF Mapped, Route, Private
    <3>2. q.op # "list" => Authority(Home)'[q.id] = Authority(Home)[q.id] /\ cache'[Home][q.id] = cache[Home][q.id]
      BY <3>1, ElsewhereHolds
    <3>3. q.op = "list" => disk' = disk
      BY <1>1, <1>2, <2>2, <3>1 DEF Unlisted
    <3>4. q.phase = "reply" \/ Writing(q) => q.op # "list"
      BY <3>1 DEF Sound, Writing
    <3>5. q.stage = "keys" => q.op = "list"
      BY <3>1 DEF Sound, Routed
    <3>6. Near(q)'
      BY <3>1, <3>2, <3>3, <3>4, <3>5 DEF Near
    <3> QED BY <3>1, <3>6 DEF Near
  <2> QED BY <2>1, <2>2
<1>3. ASSUME NEW i \in Ids, \A d \in Clients : ~Writes(d, i)'
      PROVE  cache'[Home][i] \in {None, Authority(Home)'[i]}
  <2>1. CASE i = id
    <3>1. r = None \/ ~Writing(r)
      BY <1>1, <1>3, <2>1 DEF Writes, Writing
    <3> QED BY <2>1, <3>1
  <2>2. CASE i # id
    <3>1. \A d \in Clients : ~Writes(d, i)
      BY <1>1, <1>3, <2>2 DEF Writes, Writing
    <3> QED BY <2>2, <3>1, ElsewhereHolds DEF Mapped
  <2> QED BY <2>1, <2>2
<1> QED BY <1>2, <1>3 DEF Mapped

\* A request that does not write arrives, goes on or is answered, and the
\* stores and the cache stay as they are.
LEMMA MappedStays ==
  ASSUME Inv, Mapped, NEW c \in Clients, NEW r \in Requests \cup {None},
         req[c] # None => ~Writing(req[c]), r # None => ~Writing(r) /\ Near(r),
         req' = [req EXCEPT ![c] = r], UNCHANGED <<up, avail, disk, memory, cache>>
  PROVE  Mapped'
<1>1. req'[c] = r /\ \A d \in Clients \ {c} : req'[d] = req[d]
  BY DEF Inv, TypeOK
<1>2. Authority(Home)' = Authority(Home)
  BY DEF Authority
<1>3. ASSUME NEW d \in Clients, req'[d] # None PROVE Near(req[d])'
  <2>1. CASE d = c
    BY <1>1, <1>2, <1>3, <2>1 DEF Near, Writing, Origin
  <2>2. CASE d # c
    BY <1>1, <1>2, <1>3, <2>2 DEF Mapped, Near, Writing, Origin
  <2> QED BY <2>1, <2>2
<1>4. ASSUME NEW i \in Ids, \A d \in Clients : ~Writes(d, i)'
      PROVE  cache'[Home][i] \in {None, Authority(Home)'[i]}
  <2>1. \A d \in Clients : ~Writes(d, i)
    BY <1>1, <1>4 DEF Writes, Writing
  <2> QED BY <1>2, <2>1 DEF Mapped
<1> QED BY <1>3, <1>4 DEF Mapped

\* What a write that ends leaves.
LEMMA EndsStored ==
  ASSUME Inv, OnePod, NEW c \in Clients, NEW r \in Requests, r.id \in Ids, Clean(r),
         r.op \in {"create", "update", "delete"}, r.op # "delete" => r.new \in Ctx,
         Ends(c, r), UNCHANGED <<up, avail, disk>>,
         \A b \in Backends : Live(b) => disk[b][r.id] = r.new
  PROVE  /\ Authority(Home)'[r.id] = r.new
         /\ \A i \in Ids \ {r.id} : memory'[Home][i] = memory[Home][i]
         /\ req' = [req EXCEPT ![c] = None]
         /\ answer' = [op |-> r.op, id |-> r.id, status |-> "ok", value |-> r.new]
<1>1. r.pod = Home /\ r.new \in Ctx \cup {None} /\ Home \in Pods
  BY HomeIs, RequestFields
<1>2. /\ memory' = Put(memory, Home, r.id, r.new) /\ Respond(c, r, "ok", r.new)
  <2>1. CASE r.op = "delete"
    BY <1>1, <2>1 DEF Ends, EndDelete, Clean
  <2>2. CASE r.op # "delete"
    BY <1>1, <2>2, StoresType DEF Ends, EndStore, Clean, Showable
  <2> QED BY <2>1, <2>2
<1>3. memory'[Home][r.id] = r.new /\ \A i \in Ids \ {r.id} : memory'[Home][i] = memory[Home][i]
  <2>1. /\ Put(memory, Home, r.id, r.new)[Home][r.id] = r.new
        /\ \A i \in Ids \ {r.id} : Put(memory, Home, r.id, r.new)[Home][i] = memory[Home][i]
    BY <1>1, PutType, StoresType
  <2> QED BY <1>2, <2>1
<1>4. Authority(Home)'[r.id] = r.new
  BY <1>3 DEF Authority, Live, Backends
<1> QED BY <1>2, <1>3, <1>4 DEF Respond

\* The write of r ends, or begins: r is of a context that the client has to
\* itself, and the cache already remembers what it stores.
Starts(c, r) ==
  /\ r \in Requests /\ r.id \in Ids /\ Clean(r) /\ r.op \in {"create", "update", "delete"}
  /\ r.op # "delete" => r.new \in Ctx
  /\ Private(c, r.id) /\ Unlisted(c) /\ Origin(r)

LEMMA EndsMapped ==
  ASSUME Inv, Route, Mapped, OnePod, NEW c \in Clients, NEW r, Starts(c, r), Ends(c, r), UNCHANGED <<up, avail, disk>>,
         \A b \in Backends : Live(b) => disk[b][r.id] = r.new,
         req[c] # None /\ Writing(req[c]) => req[c].id = r.id,
         \A i \in Ids \ {r.id} : cache'[Home][i] = cache[Home][i], cache'[Home][r.id] \in {None, r.new}
  PROVE  Mapped'
<1>1. r \in Requests /\ r.id \in Ids /\ Clean(r) /\ r.op \in {"create", "update", "delete"}
      /\ (r.op # "delete" => r.new \in Ctx)
  BY DEF Starts
<1>2. /\ Authority(Home)'[r.id] = r.new /\ req' = [req EXCEPT ![c] = None]
      /\ \A i \in Ids \ {r.id} : memory'[Home][i] = memory[Home][i]
  BY <1>1, EndsStored
<1>3. Elsewhere(r.id)
  BY <1>2 DEF Elsewhere
<1> QED BY <1>1, <1>2, <1>3, MappedKeeps DEF Starts

LEMMA BeginsMapped ==
  ASSUME Inv, Route, Mapped, OnePod, NEW c \in Clients, NEW r,
         Starts(c, r), Begins(c, r), UNCHANGED <<up, avail, disk>>,
         req[c] # None => ~Writing(req[c]),
         \A i \in Ids \ {r.id} : cache'[Home][i] = cache[Home][i], cache'[Home][r.id] = r.new
  PROVE  Mapped'
<1>1. r \in Requests /\ r.pod = Home /\ r.id \in Ids
  BY HomeIs, RequestFields DEF Starts
<1>2. CASE First(Home) = "memory"
  <2>1. Ends(c, r) /\ \A b \in Backends : ~Live(b)
    BY <1>1, <1>2, FirstPasses DEF Begins
  <2> QED BY <1>2, <2>1, EndsMapped
<1>3. CASE First(Home) # "memory"
  <2>1. /\ r.stage = First(Home) /\ r.phase \in {"store", "remove"} /\ memory' = memory
        /\ req' = [req EXCEPT ![c] = r]
    BY <1>1, <1>3 DEF Begins, Wait, Starts
  <2>2. r.stage # "keys" /\ r.phase # "reply" /\ Writing(r) /\ r # None
    BY <1>1, <2>1, FirstPasses, RequestsAssumption DEF Stages, Backends, Writing
  <2>3. Near(r)'
    BY <2>2 DEF Near, Starts
  <2>4. Elsewhere(r.id)
    BY <2>1 DEF Elsewhere
  <2> QED BY <1>1, <2>1, <2>2, <2>3, <2>4, MappedKeeps DEF Starts
<1> QED BY <1>2, <1>3

LEMMA TurnsMapped ==
  ASSUME Inv, Whole, Route, Agreed, Mapped, Apart, ListsApart, OnePod, NEW c \in Clients, TurnsOn(c)
  PROVE  Mapped'
<1>1. PICK q, r : Turns(c, q, r)
  BY DEF TurnsOn
<1>2. /\ req[c] # None /\ q = req[c] /\ q \in Requests /\ r \in Requests /\ q.pod = Home /\ Sound(c, q)
      /\ Near(q) /\ Routed(q) /\ Lawful(c, q)
      /\ r.op = q.op /\ r.id = q.id /\ r.new = q.new /\ r.body = q.body /\ (q.op # "list" => q.id \in Ids)
      /\ req' = [req EXCEPT ![c] = r] /\ UNCHANGED <<up, avail, memory, cache>> /\ (Writing(q) <=> Writing(r))
  BY <1>1, TurnsFields, HomeIs DEF Mapped, Route, Agreed
<1>3. CASE ~Writing(q)
  <2>1. disk' = disk
    BY <1>1, <1>3 DEF Turns, Repeats, Commits
  <2>2. CASE Reads(q, r)
    <3>1. Authority(Home) = disk[q.stage] /\ q.stage \in Backends
      BY <1>2, <2>2, RoutedAuthority DEF Reads
    <3>2. Near(r)
      BY <1>2, <1>3, <2>2, <3>1 DEF Near, Reads, Backends
    <3> QED BY <1>2, <1>3, <2>1, <3>2, MappedStays
  <2>3. CASE Skips(q, r)
    <3>1. r.stage # "keys"
      BY <2>3, AfterPasses DEF Skips, After
    <3>2. Near(r)
      BY <1>2, <1>3, <2>3, <3>1 DEF Near, Skips
    <3> QED BY <1>2, <1>3, <2>1, <3>2, MappedStays
  <2>4. CASE HasKeys(q, r)
    <3>1. \A i \in Ids : r.items[i] = None
      BY <1>2, <2>4 DEF HasKeys, Routed
    <3>2. Near(r)
      BY <1>2, <1>3, <2>4, <3>1 DEF Near, HasKeys
    <3> QED BY <1>2, <1>3, <2>1, <3>2, MappedStays
  <2>5. ASSUME NEW id \in Ids, HasKey(q, r, id) PROVE Mapped'
    <3>1. up["redis"] /\ Readable("redis", id) /\ q.items \in [Ids -> Ctx \cup {None}]
      BY <1>2, <2>5, WholeReads, RequestFields DEF HasKey, Routed, Live, Backends
    <3>2. /\ r.left = q.left \ {id} /\ r.items = [q.items EXCEPT ![id] = disk["redis"][id]]
          /\ r.phase = "list" /\ q.stage = "keys"
      BY <2>5, <3>1 DEF HasKey
    <3>3. \A i \in Ids \ r.left : r.items[i] = disk["redis"][i]
      BY <1>2, <3>1, <3>2 DEF Near
    <3>4. Near(r)
      BY <1>2, <1>3, <3>2, <3>3 DEF Near
    <3> QED BY <1>2, <1>3, <2>1, <3>4, MappedStays
  <2> QED BY <1>1, <1>3, <2>2, <2>3, <2>4, <2>5 DEF Turns, Loads, Repeats, Commits
<1>4. CASE Writing(q)
  <2>1. /\ q.op \in {"create", "update", "delete"} /\ q.op \in load.ops[c] /\ q.id \in Ids /\ q.id \in load.ids[c]
    BY <1>2, <1>4, StoresType DEF Sound, Writing, Lawful
  <2>2. Private(c, q.id) /\ Unlisted(c)
    BY <2>1, StaysPrivate
  <2>3. r.stage # "keys" /\ r.phase # "reply" /\ r.old = q.old /\ Writing(r) /\ r # None
    BY <1>1, <1>2, <1>4, RequestsAssumption
       DEF Turns, Reads, Skips, Loads, Repeats, HasKeys, HasKey, Commits, Writing, After, Backends
  <2>4. Near(r)'
    BY <1>2, <1>4, <2>3 DEF Near, Origin
  <2>5. \A i \in Ids \ {q.id}, b \in Backends : disk'[b][i] = disk[b][i]
    <3>1. ASSUME NEW b \in Backends, NEW v \in Ctx \cup {None}, disk' = Put(disk, b, q.id, v)
          PROVE  \A i \in Ids \ {q.id}, d \in Backends : disk'[d][i] = disk[d][i]
      BY <2>1, <3>1, DiskPut
    <3>2. CASE disk' = Committed(q) /\ Commits(q, r)
      BY <1>1, <3>1, <3>2, CommittedForms, StoresType
    <3>3. CASE disk' = Put(disk, "redis", q.id, q.new)
      BY <1>2, <3>1, <3>3, RequestFields, StoresType
    <3> QED BY <1>1, <3>2, <3>3 DEF Turns
  <2>6. Elsewhere(q.id)
    BY <1>2, <2>5 DEF Elsewhere
  <2> QED BY <1>2, <2>1, <2>2, <2>3, <2>4, <2>6, MappedKeeps
<1> QED BY <1>3, <1>4

\* A lookup finds what is stored.
LEMMA LooksTrue ==
  ASSUME Inv, Whole, Route, Agreed, Mapped, Apart, ListsApart, OnePod,
         NEW c \in Clients, NEW q, NEW v, NEW filled, Looks(c, q, v, filled)
  PROVE  /\ q \in Requests /\ q.pod = Home /\ q.id \in Ids /\ q.id \in load.ids[c] /\ q.op \in load.ops[c]
         /\ Private(c, q.id) /\ (req[c] # None => ~Writing(req[c])) /\ \A d \in Clients : ~Writes(d, q.id)
         /\ v = Authority(Home)[q.id]
         /\ filled \in [Pods -> Stored] /\ filled[Home][q.id] \in {None, v}
         /\ \A i \in Ids \ {q.id} : filled[Home][i] = cache[Home][i]
<1>1. q \in Requests /\ q.pod = Home /\ q.id \in Ids /\ Home \in Pods /\ v \in Ctx \cup {None}
  BY HomeIs, RequestFields DEF Looks
<1>2. /\ q.id \in load.ids[c] /\ q.op \in load.ops[c] /\ (req[c] # None => ~Writing(req[c]))
      /\ (req[c] # None => q = req[c] /\ Near(q) /\ Routed(q))
  <2>1. CASE req[c] = None
    BY <2>1 DEF Looks, FreshLookup, Fresh
  <2>2. CASE req[c] # None
    <3>1. q = req[c] /\ ~Writing(q) /\ q.op # "list"
      BY <2>2 DEF Looks, FreshLookup, Fresh, Writing
    <3> QED BY <2>2, <3>1, OwnRequest DEF Agreed, Lawful, Sound, Mapped, Route
  <2> QED BY <2>1, <2>2
<1>3. Private(c, q.id)
  BY <1>2, StaysPrivate
<1>4. \A d \in Clients : ~Writes(d, q.id)
  BY <1>2, WritesAlone DEF Writes
<1>5. cache[Home][q.id] \in {None, Authority(Home)[q.id]}
  BY <1>1, <1>4 DEF Mapped
<1>6. v = Authority(Home)[q.id]
  <2>1. First(Home) = "memory" => Authority(Home) = memory[Home]
    BY FirstPasses DEF Authority, Live, Backends
  <2>2. req[c] # None /\ q.phase = "read" /\ q.stage = "memory" => Authority(Home) = memory[Home]
    BY <1>2, RoutedAuthority
  <2>3. req[c] # None /\ q.phase = "reply" => q.old = Authority(Home)[q.id]
    BY <1>2 DEF Near
  <2> QED BY <1>1, <1>5, <2>1, <2>2, <2>3 DEF Looks
<1>7. filled = cache \/ filled = Put(cache, Home, q.id, v)
  BY <1>1 DEF Looks
<1>8. CASE filled = cache
  BY <1>1, <1>2, <1>3, <1>4, <1>5, <1>6, <1>8, StoresType
<1>9. CASE filled = Put(cache, Home, q.id, v)
  <2>1. /\ Put(cache, Home, q.id, v) \in [Pods -> Stored] /\ Put(cache, Home, q.id, v)[Home][q.id] = v
        /\ \A i \in Ids \ {q.id} : Put(cache, Home, q.id, v)[Home][i] = cache[Home][i]
    BY <1>1, PutType, StoresType
  <2> QED BY <1>1, <1>2, <1>3, <1>4, <1>6, <1>9, <2>1
<1> QED BY <1>7, <1>8, <1>9

\* What update() and delete() go on with.
LEMMA AltersStarts ==
  ASSUME Inv, Whole, Definite, Route, Agreed, Mapped, Apart, ListsApart, OnePod,
         NEW c \in Clients, NEW q, NEW v, NEW filled, NEW r, Alters(c, q, v, filled, r)
  PROVE  /\ Starts(c, r) /\ Begins(c, r) /\ UNCHANGED <<up, avail, disk>> /\ (req[c] # None => ~Writing(req[c]))
         /\ r.old = Authority(Home)[r.id] /\ \A d \in Clients : ~Writes(d, r.id)
         /\ \A i \in Ids \ {r.id} : cache'[Home][i] = cache[Home][i]
         /\ cache'[Home][r.id] = r.new
<1>1. /\ r \in Requests /\ r.id \in Ids /\ r.pod \in Pods /\ Clean(r)
      /\ r.op \in {"update", "delete"} /\ r.id = q.id /\ r.op = q.op
      /\ r.op = "update" => r.new \in Ctx /\ r.new = Merge(v, q.body) /\ r.body = q.body
      /\ r.op = "delete" => r.new = None
      /\ cache' = Put(filled, r.pod, r.id, r.new) /\ Begins(c, r)
  BY AltersWhole
<1>2. /\ q.id \in load.ids[c] /\ q.op \in load.ops[c]
      /\ Private(c, q.id) /\ (req[c] # None => ~Writing(req[c])) /\ \A d \in Clients : ~Writes(d, q.id)
      /\ v = Authority(Home)[q.id] /\ filled \in [Pods -> Stored]
      /\ \A i \in Ids \ {q.id} : filled[Home][i] = cache[Home][i]
  BY LooksTrue DEF Alters
<1>3. r.old = v /\ v # None /\ UNCHANGED <<up, avail, disk>>
  BY DEF Alters, Looks, Unmoved
<1>4. Unlisted(c)
  BY <1>1, <1>2, StaysPrivate
<1>5. Origin(r)
  BY <1>1, <1>3 DEF Origin
<1>6. Starts(c, r)
  BY <1>1, <1>2, <1>4, <1>5 DEF Starts
<1>7. /\ Put(filled, Home, r.id, r.new)[Home][r.id] = r.new
      /\ \A i \in Ids \ {r.id} : Put(filled, Home, r.id, r.new)[Home][i] = filled[Home][i]
  BY <1>1, <1>2, HomeIs, PutType, RequestFields
<1>8. r.pod = Home
  BY <1>1, HomeIs
<1> QED BY <1>1, <1>2, <1>3, <1>6, <1>7, <1>8

\* The create() that arrives, of an id that was not issued.
LEMMA MakesStarts ==
  ASSUME Inv, Whole, Agreed, Mapped, Apart, ListsApart, OnePod, NEW c \in Clients, NEW r, Makes(c, r)
  PROVE  /\ Starts(c, r) /\ Begins(c, r) /\ UNCHANGED <<up, avail, disk>> /\ req[c] = None
         /\ r.old = Authority(Home)[r.id] /\ \A d \in Clients : ~Writes(d, r.id)
         /\ \A i \in Ids \ {r.id} : cache'[Home][i] = cache[Home][i]
         /\ cache'[Home][r.id] = r.new
<1>1. /\ r \in Requests /\ r.op = "create" /\ r.op \in load.ops[c] /\ r.id \in load.ids[c] \ issued /\ r.old = None
      /\ r.new \in Creates /\ Begins(c, r) /\ UNCHANGED <<up, avail, disk>> /\ req[c] = None
      /\ cache' = Put(cache, r.pod, r.id, r.new)
  BY DEF Makes, FreshCreate, Fresh
<1>2. r.id \in Ids /\ r.pod = Home /\ Home \in Pods /\ r.new \in Ctx /\ Valid(r.new)
  BY <1>1, HomeIs, LoadType, RequestFields, BodiesShow DEF Inv
<1>3. Unseen(r.id)
  BY <1>1, <1>2 DEF Inv
<1>4. Authority(Home)[r.id] = None
  BY <1>2, <1>3 DEF Unseen, Authority, Backends
<1>5. Private(c, r.id) /\ Unlisted(c) /\ \A d \in Clients : ~Writes(d, r.id)
  BY <1>1, StaysPrivate, WritesAlone DEF Writes
<1>6. Starts(c, r)
  BY <1>1, <1>2, <1>5 DEF Starts, Origin, Clean, Showable
<1>7. /\ Put(cache, Home, r.id, r.new)[Home][r.id] = r.new
      /\ \A i \in Ids \ {r.id} : Put(cache, Home, r.id, r.new)[Home][i] = cache[Home][i]
  BY <1>2, PutType, StoresType
<1> QED BY <1>1, <1>2, <1>4, <1>5, <1>6, <1>7

\* The write that ends.
LEMMA ClosesStarts ==
  ASSUME Inv, Whole, Agreed, Mapped, Apart, ListsApart, OnePod, NEW c \in Clients, NEW q, Closes(c, q)
  PROVE  /\ req[c] # None /\ q = req[c] /\ Writing(q) /\ Starts(c, q) /\ Ends(c, q)
         /\ UNCHANGED <<up, avail, disk, cache>>
         /\ cache[Home][q.id] \in {None, q.new} /\ \A b \in Backends : Live(b) => disk[b][q.id] = q.new
<1>1. /\ req[c] # None /\ q = req[c] /\ q \in Requests /\ Writing(q) /\ q.stage = "memory" /\ Ends(c, q)
      /\ UNCHANGED <<up, avail, disk, cache>>
  BY DEF Closes, Unmoved
<1>2. Sound(c, q) /\ Near(q) /\ Halfway(q) /\ Lawful(c, q) /\ Clean(q)
  BY <1>1, OwnRequest DEF Mapped, Agreed, Whole
<1>3. /\ q.op \in {"create", "update", "delete"} /\ q.op \in load.ops[c] /\ q.id \in Ids /\ q.id \in load.ids[c]
      /\ q.op # "delete" => q.new \in Ctx
  BY <1>1, <1>2, StoresType DEF Sound, Writing, Lawful
<1>4. Private(c, q.id) /\ Unlisted(c)
  BY <1>3, StaysPrivate
<1>5. \A b \in Backends : Live(b) => disk[b][q.id] = q.new
  BY <1>1, <1>2 DEF Halfway, Passed, Backends
<1> QED BY <1>1, <1>2, <1>3, <1>4, <1>5 DEF Near, Starts

LEMMA MappedStep ==
  ASSUME Inv, Whole, Definite, Route, Agreed, Mapped, Apart, ListsApart, OnePod, NEW c \in Clients, ClientStep(c)
  PROVE  Mapped'
<1>1. CASE AsksOn(c)
  <2>1. PICK r : Asks(c, r)
    BY <1>1 DEF AsksOn
  <2>2. /\ r \in Requests /\ req' = [req EXCEPT ![c] = r] /\ UNCHANGED <<up, avail, disk, memory, cache>>
        /\ req[c] = None /\ r.phase \in {"read", "list"} /\ (r.op = "list" => r.id = None)
    BY <2>1 DEF Asks, FreshLookup, FreshList, Fresh, Wait, Unmoved
  <2>3. r.stage # "keys"
    BY <2>1, FreshRouted, FirstPasses DEF Asks, FreshLookup, FreshList, Stages, Backends
  <2>4. Near(r) /\ ~Writing(r)
    BY <2>2, <2>3 DEF Near, Writing
  <2> QED BY <2>2, <2>4, MappedStays
<1>2. CASE MakesOn(c)
  <2>1. PICK r : Makes(c, r)
    BY <1>2 DEF MakesOn
  <2> QED BY <2>1, MakesStarts, BeginsMapped
<1>3. CASE AltersOn(c)
  <2>1. PICK q, v, filled, r : Alters(c, q, v, filled, r)
    BY <1>3 DEF AltersOn
  <2>2. /\ Starts(c, r) /\ Begins(c, r) /\ UNCHANGED <<up, avail, disk>> /\ (req[c] # None => ~Writing(req[c]))
        /\ \A i \in Ids \ {r.id} : cache'[Home][i] = cache[Home][i]
        /\ cache'[Home][r.id] = r.new
    BY <2>1, AltersStarts
  <2> QED BY <2>2, BeginsMapped
<1>4. CASE TellsOn(c)
  <2>1. PICK q, v, filled : Tells(c, q, v, filled)
    BY <1>4 DEF TellsOn
  <2>2. /\ q.id \in Ids /\ Private(c, q.id) /\ (req[c] # None => ~Writing(req[c]))
        /\ v = Authority(Home)[q.id] /\ filled[Home][q.id] \in {None, v}
        /\ \A i \in Ids \ {q.id} : filled[Home][i] = cache[Home][i]
    BY <2>1, LooksTrue DEF Tells
  <2>3. /\ req' = [req EXCEPT ![c] = None] /\ UNCHANGED <<up, avail, disk, memory>> /\ cache' = filled
    BY <2>1 DEF Tells, Looks, Unmoved, Respond
  <2>4. Elsewhere(q.id) /\ cache'[Home][q.id] \in {None, Authority(Home)'[q.id]}
    BY <2>2, <2>3 DEF Elsewhere, Authority
  <2> QED BY <2>2, <2>3, <2>4, MappedKeeps
<1>5. CASE ListsOn(c)
  <2>1. /\ req' = [req EXCEPT ![c] = None] /\ UNCHANGED <<up, avail, disk, memory, cache>>
        /\ req[c] # None => ~Writing(req[c])
    BY <1>5 DEF ListsOn, Lists, Respond, Unmoved, Writing, FreshList, Fresh
  <2> QED BY <2>1, MappedStays
<1>6. CASE ClosesOn(c)
  <2>1. PICK q : Closes(c, q)
    BY <1>6 DEF ClosesOn
  <2> QED BY <2>1, ClosesStarts, EndsMapped
<1>7. ~FailsOn(c)
  BY WholeReads
<1> QED BY <1>1, <1>2, <1>3, <1>4, <1>5, <1>6, <1>7, TurnsMapped DEF ClientStep

MappedBase == AgreedBase /\ ListsApart /\ Mapped

LEMMA MappedBaseStep ==
  ASSUME MappedBase, [Next]_vars
  PROVE  MappedBase'
<1>1. AgreedBase' /\ ListsApart
  BY AgreedBaseStep DEF MappedBase
<1>2. /\ Inv /\ Whole /\ Definite /\ Route /\ Agreed /\ Mapped /\ Apart /\ ListsApart /\ OnePod
  BY DEF MappedBase, AgreedBase, Base
<1>3. (\A b : ~Flap(b)) /\ (\A p : ~Restart(p))
  BY DEF MappedBase, AgreedBase, Base, Still, Steady, Flap, Restart
<1>4. \/ \E c \in Clients : ClientStep(c)
      \/ \E p \in Pods, id \in Ids : Expire(p, id)
      \/ UNCHANGED vars
  BY <1>2, <1>3, Steps
<1>5. ASSUME NEW c \in Clients, ClientStep(c) PROVE Mapped'
  BY <1>2, <1>5, MappedStep
<1>6. ASSUME UNCHANGED vars PROVE Mapped'
  BY <1>2, <1>6 DEF vars, Mapped, Near, Writing, Writes, Origin, Authority
<1>7. ASSUME NEW p \in Pods, NEW id \in Ids, Expire(p, id) PROVE Mapped'
  <2>1. UNCHANGED <<req, up, avail, disk, memory>> /\ cache' = Put(cache, p, id, None)
    BY <1>7 DEF Expire, env
  <2>2. \A i \in Ids : cache'[Home][i] \in {None, cache[Home][i]}
    <3>1. Home \in Pods /\ cache \in [Pods -> Stored]
      BY <1>2, HomeIs, StoresType
    <3>2. /\ Put(cache, p, id, None)[p][id] = None
          /\ \A x \in Pods, i \in Ids : x # p \/ i # id => Put(cache, p, id, None)[x][i] = cache[x][i]
      BY <3>1, PutType
    <3> QED BY <2>1, <3>1, <3>2
  <2>3. \A c \in Clients : req[c] # None /\ Writing(req[c]) => req[c].id \in Ids
    BY <1>2, OwnRequest DEF Writing, Sound
  <2> QED BY <1>2, <2>1, <2>2, <2>3 DEF Mapped, Near, Writing, Writes, Origin, Authority
<1>8. Mapped'
  BY <1>4, <1>5, <1>6, <1>7
<1> QED BY <1>1, <1>8 DEF MappedBase, ListsApart

LEMMA MappedInvariance == OnePod /\ Definite /\ Steady /\ Apart /\ ListsApart /\ Spec => []MappedBase
<1>1. OnePod /\ Init => Mapped
  BY HomeIs DEF Init, Mapped
<1>2. MappedBase /\ [Next]_vars => MappedBase'
  BY MappedBaseStep
<1>3. AgreedBase => OnePod
  BY DEF AgreedBase, Base
<1>4. AgreedBase /\ ListsApart /\ Mapped => MappedBase
  BY DEF MappedBase
<1> QED BY <1>1, <1>2, <1>4, AgreedInvariance, PTL DEF Spec

\* A context has one writer at a time; the map shows what it was before.
Single == \A id \in Ids : \A c, d \in Clients : Writes(c, id) /\ Writes(d, id) => c = d
ContextsSay ==
  /\ Contexts = [id \in Ids |-> Contexts[id]]
  /\ \A c \in Clients, id \in Ids : Writes(c, id) => Contexts[id] = req[c].old
  /\ \A id \in Ids : (\A c \in Clients : ~Writes(c, id)) => Contexts[id] = Authority(Home)[id]

LEMMA SingleHolds == MappedBase => Single
<1> SUFFICES ASSUME MappedBase, NEW id \in Ids, NEW c \in Clients, NEW d \in Clients,
                    Writes(c, id), Writes(d, id), c # d
             PROVE  FALSE
  BY DEF Single
<1>1. Inv /\ Agreed /\ Apart
  BY DEF MappedBase, AgreedBase, Base
<1>2. id \in load.ids[c]
  BY <1>1, OwnRequest DEF Agreed, Lawful, Writes, Writing, Sound
<1> QED BY <1>1, <1>2, WritesAlone

LEMMA SoleChoice ==
  ASSUME NEW S, NEW f, NEW c \in S, \A d \in S : d = c
  PROVE  (CHOOSE r \in {f[d] : d \in S} : TRUE) = f[c]
<1>1. {f[d] : d \in S} = {f[c]}
  OBVIOUS
<1> QED BY <1>1

LEMMA SaysSingle == Single => ContextsSay
<1> SUFFICES ASSUME Single PROVE ContextsSay
  OBVIOUS
<1> DEFINE writers(id) == {c \in Clients : req[c] # None /\ req[c].id = id /\ req[c].phase \in {"store", "remove"}}
<1>1. ASSUME NEW c \in Clients, NEW id PROVE c \in writers(id) <=> Writes(c, id)
  BY DEF Writes, Writing
<1>2. ASSUME NEW id \in Ids, NEW c \in Clients, Writes(c, id) PROVE Contexts[id] = req[c].old
  <2>1. c \in writers(id) /\ \A d \in writers(id) : d = c
    BY <1>1, <1>2 DEF Single
  <2>2. (CHOOSE r \in {req[d] : d \in writers(id)} : TRUE) = req[c]
    BY <2>1, SoleChoice
  <2> QED BY <2>1, <2>2 DEF Contexts
<1>3. ASSUME NEW id \in Ids, \A c \in Clients : ~Writes(c, id) PROVE Contexts[id] = Authority(Home)[id]
  <2>1. writers(id) = {}
    BY <1>1, <1>3
  <2> QED BY <2>1 DEF Contexts
<1>4. Contexts = [id \in Ids |-> Contexts[id]]
  BY DEF Contexts
<1> QED BY <1>2, <1>3, <1>4 DEF ContextsSay

\* Both ends of a step.
Both == MappedBase /\ Single /\ ContextsSay /\ Single' /\ ContextsSay' /\ [Next]_vars

LEMMA ContextsElsewhere ==
  ASSUME Both, NEW c \in Clients, NEW r, NEW id \in Ids, Elsewhere(id), req' = [req EXCEPT ![c] = r],
         req[c] # None /\ Writing(req[c]) => req[c].id = id, r # None /\ Writing(r) => r.id = id
  PROVE  \A i \in Ids \ {id} : Contexts'[i] = Contexts[i]
<1> SUFFICES ASSUME NEW i \in Ids \ {id} PROVE Contexts'[i] = Contexts[i]
  OBVIOUS
<1>1. req'[c] = r /\ \A d \in Clients \ {c} : req'[d] = req[d]
  BY DEF Both, MappedBase, AgreedBase, Base, Inv, TypeOK
<1>2. \A d \in Clients : Writes(d, i)' <=> Writes(d, i)
  BY <1>1 DEF Writes, Writing
<1>3. CASE \E d \in Clients : Writes(d, i)
  <2>1. PICK d \in Clients : Writes(d, i)
    BY <1>3
  <2>2. d # c
    BY <2>1 DEF Writes
  <2>3. req'[d] = req[d] /\ Writes(d, i)'
    BY <1>1, <1>2, <2>1, <2>2
  <2> QED BY <2>1, <2>3 DEF Both, ContextsSay
<1>4. CASE ~\E d \in Clients : Writes(d, i)
  <2>1. Authority(Home)'[i] = Authority(Home)[i]
    BY ElsewhereHolds
  <2> QED BY <1>2, <1>4, <2>1 DEF Both, ContextsSay
<1> QED BY <1>3, <1>4

\* What changes no store and no write changes no context.
LEMMA ContextsStay ==
  ASSUME Both, NEW c \in Clients, NEW r, req' = [req EXCEPT ![c] = r], UNCHANGED <<up, avail, disk, memory>>,
         req[c] # None => ~Writing(req[c]), r # None => ~Writing(r)
  PROVE  Contexts' = Contexts
<1>1. req'[c] = r /\ \A d \in Clients \ {c} : req'[d] = req[d]
  BY DEF Both, MappedBase, AgreedBase, Base, Inv, TypeOK
<1>2. \A d \in Clients, i \in Ids : Writes(d, i)' <=> Writes(d, i)
  BY <1>1 DEF Writes, Writing
<1>3. Authority(Home)' = Authority(Home)
  BY DEF Authority
<1>4. ASSUME NEW i \in Ids PROVE Contexts'[i] = Contexts[i]
  <2>1. CASE \E d \in Clients : Writes(d, i)
    <3>1. PICK d \in Clients : Writes(d, i)
      BY <2>1
    <3>2. req'[d] = req[d] /\ Writes(d, i)'
      BY <1>1, <1>2, <3>1 DEF Writes
    <3> QED BY <3>1, <3>2 DEF Both, ContextsSay
  <2>2. CASE ~\E d \in Clients : Writes(d, i)
    BY <1>2, <1>3, <2>2 DEF Both, ContextsSay
  <2> QED BY <2>1, <2>2
<1> QED BY <1>4 DEF Both, ContextsSay

\* A write that ends is a step of the map.
LEMMA EndsMap ==
  ASSUME Both, NEW c \in Clients, NEW r, Starts(c, r), Ends(c, r), UNCHANGED <<up, avail, disk>>,
         \A b \in Backends : Live(b) => disk[b][r.id] = r.new,
         req[c] # None /\ Writing(req[c]) => req[c].id = r.id,
         \A i \in Ids \ {r.id} : cache'[Home][i] = cache[Home][i],
         Contexts[r.id] = r.old
  PROVE  Map!Next
<1>1. Inv /\ OnePod /\ r \in Requests /\ r.id \in Ids /\ Clean(r) /\ r.op \in {"create", "update", "delete"}
      /\ (r.op # "delete" => r.new \in Ctx) /\ Private(c, r.id)
  BY DEF Both, MappedBase, AgreedBase, Base, Starts
<1>2. /\ Authority(Home)'[r.id] = r.new /\ req' = [req EXCEPT ![c] = None]
      /\ \A i \in Ids \ {r.id} : memory'[Home][i] = memory[Home][i]
      /\ answer' = [op |-> r.op, id |-> r.id, status |-> "ok", value |-> r.new]
  BY <1>1, EndsStored
<1>3. Elsewhere(r.id)
  BY <1>2 DEF Elsewhere
<1>4. \A i \in Ids \ {r.id} : Contexts'[i] = Contexts[i]
  BY <1>1, <1>2, <1>3, ContextsElsewhere
<1>5. Contexts'[r.id] = r.new
  <2>1. ASSUME NEW d \in Clients, Writes(d, r.id)' PROVE FALSE
    <3>1. d # c /\ Writes(d, r.id)
      BY <1>1, <1>2, <2>1 DEF Writes, Writing, Inv, TypeOK
    <3>2. req[d].op # "list"
      BY <1>1, <3>1, OwnRequest DEF Writes, Writing, Sound
    <3> QED BY <1>1, <3>1, <3>2 DEF Private, Writes
  <2> QED BY <1>1, <1>2, <2>1 DEF Both, ContextsSay
<1>6. Contexts' = [Contexts EXCEPT ![r.id] = r.new]
  <2>1. /\ Contexts = [i \in Ids |-> Contexts[i]] /\ Contexts' = [i \in Ids |-> Contexts'[i]]
    BY DEF Both, ContextsSay
  <2> QED BY <1>1, <1>4, <1>5, <2>1
<1>7. CASE r.op = "create"
  <2>1. PICK id \in Ids, body \in Creates : id = r.id /\ body = r.new /\ Contexts[id] = None
    BY <1>1, <1>7 DEF Starts, Origin
  <2>2. Map!Create(id, body)
    BY <1>2, <1>6, <1>7, <2>1 DEF Map!Create, Map!Answers
  <2> QED BY <2>2 DEF Map!Next
<1>8. CASE r.op = "update"
  <2>1. r.body \in Updates
    BY <1>1, <1>8, LoadType DEF Clean, Inv
  <2>2. PICK id \in Ids, body \in Updates : id = r.id /\ body = r.body /\ Contexts[id] # None
                                           /\ r.new = Map!Merge(Contexts[id], body)
    BY <1>1, <1>8, <2>1, SMTT(30) DEF Starts, Origin, Merge, Map!Merge
  <2>3. Map!Update(id, body)
    BY <1>2, <1>6, <1>8, <2>2 DEF Map!Update, Map!Answers
  <2> QED BY <2>3 DEF Map!Next
<1>9. CASE r.op = "delete"
  <2>1. PICK id \in Ids : id = r.id /\ r.new = None /\ Contexts[id] # None
    BY <1>1, <1>9 DEF Starts, Origin, Clean
  <2>2. Map!Delete(id)
    BY <1>2, <1>6, <1>9, <2>1 DEF Map!Delete, Map!Answers
  <2> QED BY <2>2 DEF Map!Next
<1> QED BY <1>1, <1>7, <1>8, <1>9

\* A write that begins, and ends at once where there is no backend.
LEMMA BeginsMap ==
  ASSUME Both, NEW c \in Clients, NEW r, Starts(c, r), Begins(c, r), UNCHANGED <<up, avail, disk>>,
         req[c] # None => ~Writing(req[c]),
         r.old = Authority(Home)[r.id], \A d \in Clients : ~Writes(d, r.id),
         \A i \in Ids \ {r.id} : cache'[Home][i] = cache[Home][i]
  PROVE  Map!Next \/ UNCHANGED Map!vars
<1>1. /\ Inv /\ OnePod /\ r \in Requests /\ r.id \in Ids /\ r.pod = Home
      /\ r.op \in {"create", "update", "delete"}
  BY HomeIs, RequestFields DEF Both, MappedBase, AgreedBase, Base, Starts
<1>2. Contexts[r.id] = r.old
  BY <1>1 DEF Both, ContextsSay
<1>3. CASE First(Home) = "memory"
  <2>1. Ends(c, r) /\ \A b \in Backends : ~Live(b)
    BY <1>1, <1>3, FirstPasses DEF Begins
  <2> QED BY <1>2, <2>1, EndsMap
<1>4. CASE First(Home) # "memory"
  <2>1. /\ Writing(r) /\ memory' = memory /\ req' = [req EXCEPT ![c] = r] /\ answer' = answer
    BY <1>1, <1>4 DEF Begins, Wait, Writing
  <2>2. Elsewhere(r.id)
    BY <2>1 DEF Elsewhere
  <2>3. \A i \in Ids \ {r.id} : Contexts'[i] = Contexts[i]
    BY <1>1, <2>1, <2>2, ContextsElsewhere
  <2>4. Contexts'[r.id] = r.old
    <3>1. Writes(c, r.id)' /\ req'[c] = r
      BY <1>1, <2>1, RequestsAssumption DEF Writes, Writing, Inv, TypeOK
    <3> QED BY <1>1, <3>1 DEF Both, ContextsSay
  <2>5. Contexts' = Contexts
    BY <1>1, <1>2, <2>3, <2>4 DEF Both, ContextsSay
  <2> QED BY <2>1, <2>5 DEF Map!vars
<1> QED BY <1>3, <1>4

LEMMA TurnsMap ==
  ASSUME Both, NEW c \in Clients, TurnsOn(c)
  PROVE  UNCHANGED Map!vars
<1>0. /\ Inv /\ Agreed /\ Apart /\ ListsApart /\ OnePod /\ Mapped
  BY DEF Both, MappedBase, AgreedBase, Base
<1>1. PICK q, r : Turns(c, q, r)
  BY DEF TurnsOn
<1>2. /\ req[c] # None /\ q = req[c] /\ q \in Requests /\ r \in Requests /\ Sound(c, q)
      /\ r.id = q.id /\ r.new = q.new /\ (q.op # "list" => q.id \in Ids) /\ answer' = answer
      /\ req' = [req EXCEPT ![c] = r] /\ UNCHANGED <<up, avail, memory, cache>> /\ (Writing(q) <=> Writing(r))
  BY <1>0, <1>1, TurnsFields
<1>3. CASE ~Writing(q)
  <2>1. disk' = disk
    BY <1>1, <1>3 DEF Turns, Repeats, Commits
  <2>2. Contexts' = Contexts
    BY <1>2, <1>3, <2>1, ContextsStay
  <2> QED BY <1>2, <2>2 DEF Map!vars
<1>4. CASE Writing(q)
  <2>1. q.id \in Ids /\ r.old = q.old /\ r # None
    BY <1>1, <1>2, <1>4, RequestsAssumption
       DEF Turns, Reads, Skips, Loads, Repeats, HasKeys, HasKey, Commits, Writing, Sound
  <2>2. \A i \in Ids \ {q.id}, b \in Backends : disk'[b][i] = disk[b][i]
    <3>1. ASSUME NEW b \in Backends, NEW v \in Ctx \cup {None}, disk' = Put(disk, b, q.id, v)
          PROVE  \A i \in Ids \ {q.id}, d \in Backends : disk'[d][i] = disk[d][i]
      BY <1>0, <2>1, <3>1, DiskPut
    <3>2. CASE disk' = Committed(q) /\ Commits(q, r)
      BY <1>0, <1>1, <3>1, <3>2, CommittedForms, StoresType
    <3>3. CASE disk' = Put(disk, "redis", q.id, q.new)
      BY <1>0, <1>2, <3>1, <3>3, RequestFields, StoresType
    <3> QED BY <1>1, <3>2, <3>3 DEF Turns
  <2>3. Elsewhere(q.id)
    BY <1>2, <2>2 DEF Elsewhere
  <2>4. \A i \in Ids \ {q.id} : Contexts'[i] = Contexts[i]
    BY <1>2, <2>1, <2>3, ContextsElsewhere
  <2>5. Contexts'[q.id] = Contexts[q.id]
    <3>1. Writes(c, q.id) /\ Writes(c, q.id)' /\ req'[c] = r
      BY <1>0, <1>2, <1>4, <2>1 DEF Writes, Writing, Inv, TypeOK
    <3> QED BY <1>2, <2>1, <3>1 DEF Both, ContextsSay
  <2>6. Contexts' = Contexts
    BY <2>1, <2>4, <2>5 DEF Both, ContextsSay
  <2> QED BY <1>2, <2>6 DEF Map!vars
<1> QED BY <1>3, <1>4

\* The answer of a lookup.
LEMMA TellsMap ==
  ASSUME Both, NEW c \in Clients, TellsOn(c)
  PROVE  Map!Next
<1>0. /\ Inv /\ Whole /\ Route /\ Agreed /\ Apart /\ ListsApart /\ OnePod /\ Mapped
  BY DEF Both, MappedBase, AgreedBase, Base
<1>1. PICK q, v, filled : Tells(c, q, v, filled)
  BY DEF TellsOn
<1>2. /\ q.id \in Ids /\ q.op \in {"get", "update", "delete"}
      /\ v = Authority(Home)[q.id] /\ (req[c] # None => ~Writing(req[c])) /\ \A d \in Clients : ~Writes(d, q.id)
  BY <1>0, <1>1, LooksTrue DEF Tells, Looks
<1>3. Contexts[q.id] = v
  BY <1>2 DEF Both, ContextsSay
<1>4. /\ req' = [req EXCEPT ![c] = None] /\ UNCHANGED <<up, avail, disk, memory>>
  BY <1>1 DEF Tells, Looks, Unmoved, Respond
<1>5. Contexts' = Contexts
  BY <1>2, <1>4, ContextsStay
<1>6. CASE v = None /\ Respond(c, q, "404", None)
  <2>1. PICK id \in Ids, op \in {"get", "update", "delete"} : id = q.id /\ op = q.op
    BY <1>2
  <2>2. Map!NotFound(op, id)
    BY <1>3, <1>5, <1>6, <2>1 DEF Map!NotFound, Map!Answers, Respond
  <2> QED BY <2>2 DEF Map!Next
<1>7. CASE v # None /\ q.op = "get" /\ Respond(c, q, "ok", v)
  <2>1. PICK id \in Ids : id = q.id
    BY <1>2
  <2>2. Map!Get(id)
    BY <1>3, <1>5, <1>7, <2>1 DEF Map!Get, Map!Answers, Respond
  <2> QED BY <2>2 DEF Map!Next
<1> QED BY <1>1, <1>6, <1>7 DEF Tells

\* The answer of a listing, while nobody writes.
LEMMA ListsMap ==
  ASSUME Both, NEW c \in Clients, ListsOn(c)
  PROVE  Map!Next
<1>0. /\ Inv /\ Whole /\ Route /\ Agreed /\ Apart /\ ListsApart /\ OnePod /\ Mapped
  BY DEF Both, MappedBase, AgreedBase, Base
<1>1. PICK q, value : Lists(c, q, value)
  BY DEF ListsOn
<1>2. /\ q \in Requests /\ q.op = "list" /\ q.pod = Home /\ q.phase = "list" /\ Routed(q) /\ q.id = None
      /\ "list" \in load.ops[c] /\ (req[c] # None => ~Writing(req[c]))
  <2>1. q \in Requests /\ q.op = "list" /\ q.pod = Home
    BY <1>0, <1>1, HomeIs, RequestFields DEF Lists
  <2>2. CASE FreshList(c, q)
    BY <1>0, <2>1, <2>2, FreshRouted DEF FreshList, Fresh
  <2>3. CASE req[c] # None /\ q = req[c] /\ q.phase = "list"
    BY <1>0, <2>1, <2>3, OwnRequest DEF Route, Mapped, Near, Sound, Writing
  <2> QED BY <1>1, <2>1, <2>2, <2>3 DEF Lists
<1>3. /\ Respond(c, q, "ok", value) /\ req' = [req EXCEPT ![c] = None] /\ UNCHANGED <<up, avail, disk, memory>>
  BY <1>1 DEF Lists, Respond, Unmoved
<1>4. Contexts' = Contexts
  BY <1>2, <1>3, ContextsStay
<1>5. \A d \in Clients, i \in Ids : ~Writes(d, i)
  <2> SUFFICES ASSUME NEW d \in Clients, NEW i \in Ids, Writes(d, i) PROVE FALSE
    OBVIOUS
  <2>1. d # c /\ req[d] # None /\ req[d].op \in {"create", "update", "delete"} /\ req[d].op \in load.ops[d]
    BY <1>0, <1>2, OwnRequest DEF Writes, Writing, Sound
  <2>2. load.startups # {{}} /\ load \in Workloads
    BY <1>0, <2>1 DEF Agreed, Lawful, Inv, TypeOK
  <2>3. load.ops[d] \subseteq {"get", "list"}
    BY <1>2, <2>1, <2>2, <1>0 DEF ListsApart
  <2> QED BY <2>1, <2>3
<1>6. value = Authority(Home) /\ Authority(Home) \in Stored
  <2>1. CASE q.stage = "pg" /\ up["pg"] /\ value = disk["pg"]
    BY <1>0, <1>2, <2>1, RoutedAuthority, StoresType DEF Backends
  <2>2. CASE q.stage = "memory" /\ value = memory[q.pod]
    BY <1>0, <1>2, <2>2, RoutedAuthority, StoresType, HomeIs
  <2>3. CASE q.stage = "keys" /\ q.left = {} /\ value = q.items
    <3>1. First(Home) # "keys"
      BY FirstPasses DEF Stages, Backends
    <3>2. req[c] # None /\ q = req[c]
      BY <1>0, <1>1, <2>3, <3>1, FreshRouted DEF Lists, FreshList
    <3>3. \A i \in Ids : q.items[i] = disk["redis"][i]
      BY <1>0, <2>3, <3>2 DEF Mapped, Near
    <3>4. q.items = disk["redis"] /\ disk["redis"] \in Stored
      <4>1. q.items \in Stored /\ disk["redis"] \in Stored
        BY <1>0, <1>2, RequestFields, StoresType DEF Stored
      <4> QED BY <3>3, <4>1 DEF Stored
    <3> QED BY <1>2, <2>3, <3>4, RoutedAuthority
  <2> QED BY <1>1, <2>1, <2>2, <2>3 DEF Lists
<1>7. Contexts = value
  BY <1>5, <1>6 DEF Both, ContextsSay, Stored
<1>8. Map!List
  BY <1>2, <1>3, <1>4, <1>7 DEF Map!List, Map!Answers, Respond
<1> QED BY <1>8 DEF Map!Next

LEMMA StepMaps ==
  ASSUME Both
  PROVE  Map!Next \/ UNCHANGED Map!vars
<1>0. /\ Inv /\ Whole /\ Definite /\ Route /\ Agreed /\ Apart /\ ListsApart /\ OnePod /\ Mapped
  BY DEF Both, MappedBase, AgreedBase, Base
<1>1. (\A b : ~Flap(b)) /\ (\A p : ~Restart(p))
  BY DEF Both, MappedBase, AgreedBase, Base, Still, Steady, Flap, Restart
<1>2. \/ \E c \in Clients : ClientStep(c)
      \/ \E p \in Pods, id \in Ids : Expire(p, id)
      \/ UNCHANGED vars
  BY <1>0, <1>1, Steps DEF Both
<1>3. CASE (\E p \in Pods, id \in Ids : Expire(p, id)) \/ UNCHANGED vars
  <2>1. UNCHANGED <<req, up, avail, disk, memory, answer>>
    BY <1>3 DEF Expire, env, vars
  <2>2. Authority(Home)' = Authority(Home) /\ \A c \in Clients, i \in Ids : Writes(c, i)' <=> Writes(c, i)
    BY <2>1 DEF Authority, Writes, Writing
  <2>3. ASSUME NEW i \in Ids PROVE Contexts'[i] = Contexts[i]
    BY <2>1, <2>2 DEF Both, ContextsSay
  <2>4. Contexts' = Contexts
    BY <2>3 DEF Both, ContextsSay
  <2> QED BY <2>1, <2>4 DEF Map!vars
<1>4. ASSUME NEW c \in Clients, AsksOn(c) PROVE UNCHANGED Map!vars
  <2>1. PICK r : Asks(c, r)
    BY <1>4 DEF AsksOn
  <2>2. /\ req' = [req EXCEPT ![c] = r] /\ UNCHANGED <<up, avail, disk, memory, answer>>
        /\ req[c] = None /\ ~Writing(r)
    BY <2>1 DEF Asks, FreshLookup, FreshList, Fresh, Wait, Unmoved, Writing
  <2>3. Contexts' = Contexts
    BY <2>2, ContextsStay
  <2> QED BY <2>2, <2>3 DEF Map!vars
<1>5. ASSUME NEW c \in Clients, MakesOn(c) PROVE Map!Next \/ UNCHANGED Map!vars
  BY <1>0, <1>5, MakesStarts, BeginsMap DEF MakesOn
<1>6. ASSUME NEW c \in Clients, AltersOn(c) PROVE Map!Next \/ UNCHANGED Map!vars
  BY <1>0, <1>6, AltersStarts, BeginsMap DEF AltersOn
<1>7. ASSUME NEW c \in Clients, ClosesOn(c) PROVE Map!Next
  <2>1. PICK q : Closes(c, q)
    BY <1>7 DEF ClosesOn
  <2>2. /\ req[c] # None /\ q = req[c] /\ Writing(q) /\ Starts(c, q) /\ Ends(c, q)
        /\ UNCHANGED <<up, avail, disk, cache>> /\ \A b \in Backends : Live(b) => disk[b][q.id] = q.new
    BY <1>0, <2>1, ClosesStarts
  <2>3. Contexts[q.id] = q.old
    BY <2>2 DEF Both, ContextsSay, Writes, Starts
  <2> QED BY <2>2, <2>3, EndsMap
<1>8. \A c \in Clients : ~FailsOn(c)
  BY <1>0, WholeReads
<1> QED BY <1>2, <1>3, <1>4, <1>5, <1>6, <1>7, <1>8, TurnsMap, TellsMap, ListsMap DEF ClientStep

\* With one pod, without null updates, flaps and restarts, where clients have
\* contexts of their own and nobody writes while another lists, or where
\* there is no backend at all, the service is one map of contexts: each
\* request takes effect at once, and is answered from the map it finds.
THEOREM Refines == OnePod /\ Definite /\ Steady /\ Apart /\ ListsApart /\ Spec => RefinesContextMap
<1>1. MappedBase /\ Init => Map!Init
  <2> SUFFICES ASSUME MappedBase, Init PROVE Map!Init
    OBVIOUS
  <2>1. ContextsSay /\ \A c \in Clients, id \in Ids : ~Writes(c, id)
    BY SingleHolds, SaysSingle DEF Init, Writes
  <2>2. \A id \in Ids : Contexts[id] = None
    BY <2>1, HomeIs DEF ContextsSay, MappedBase, AgreedBase, Base, Init, Authority, Backends
  <2>3. Contexts = [id \in Ids |-> None]
    BY <2>1, <2>2 DEF ContextsSay
  <2> QED BY <2>3 DEF Init, Map!Init
<1>2. Both => [Map!Next]_(Map!vars)
  BY StepMaps
<1>3. MappedBase /\ Single /\ ContextsSay /\ Single' /\ ContextsSay' /\ [Next]_vars => Both
  BY DEF Both
<1>4. MappedBase => Single /\ ContextsSay
  BY SingleHolds, SaysSingle
<1> QED BY <1>1, <1>2, <1>3, <1>4, MappedInvariance, PTL DEF Spec, RefinesContextMap, Map!Spec
=============================================================================
