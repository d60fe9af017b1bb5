------------------------ MODULE LegacyContextsProofs ------------------------
(***************************************************************************)
(* TLAPS proofs about LegacyContexts.tla, for any clients, ids, bodies and *)
(* workloads, and any number of failures of Redis.                         *)
(***************************************************************************)
EXTENDS LegacyContexts, TLAPS

\* What a request r that is waited for knows, where s is the contents of
\* Redis: a context it has found is there, or was deleted since it began.
SoundReq(r, s) ==
  /\ r.at \notin {"keys", "item"} => r.id \in Ids
  /\ r.at = "exists" => r.op \in {"update", "delete"}
  /\ r.at = "get" => r.op = "update" /\ (s[r.id] # None \/ r.id \in r.gone)
  /\ r.at = "item" => \A i \in r.left : s[i] # None \/ i \in r.gone
  /\ r.op = "update" => r.body \in Body
  /\ r.at = "set" => /\ r.op \in {"create", "update"}
                     /\ r.new \in Ctx
                     /\ (r.op = "update" /\ r.body.id # None) => r.new.id = r.body.id
                     /\ (r.op = "update" /\ r.body.id = None) =>
                          r.new.id = r.id /\ (s[r.id] # None \/ r.id \in r.gone)

Inv ==
  /\ TypeOK
  /\ \A c \in Clients : req[c] # None => SoundReq(req[c], db)

\* What a workload allows.
LEMMA LoadType ==
  ASSUME TypeOK
  PROVE  /\ load.uuids \subseteq Uuids /\ load.updates \subseteq Updates
         /\ load.named \subseteq Ids /\ load.clients \subseteq Clients
         /\ Uuids \subseteq Ids /\ issued \subseteq Ids /\ Names \subseteq Ids
BY LegacyWorkloadsAssumption DEF TypeOK, Ids

\* What an update makes of a context.
LEMMA UpdatedType ==
  ASSUME NEW ctx \in Ctx, NEW body \in Body
  PROVE  /\ Updated(ctx, body) \in Ctx
         /\ Updated(ctx, body).id = IF body.id = None THEN ctx.id ELSE body.id
<1>1. \A f \in DOMAIN body.fields : body.fields[f] \in Data
  BY DEF Body
<1>2. [f \in Fields |-> IF f \in DOMAIN body.fields THEN body.fields[f] ELSE ctx.fields[f]] \in [Fields -> Data]
  BY <1>1 DEF Ctx
<1>3. (IF body.id = None THEN ctx.id ELSE body.id) \in Ids
  BY DEF Ctx, Body
<1> QED BY <1>2, <1>3 DEF Updated, Ctx

\* A step of one client that leaves Redis alone keeps the invariant.
LEMMA RequestStep ==
  ASSUME Inv, NEW c \in Clients, NEW r \in Req \cup {None}, r # None => SoundReq(r, db),
         req' = [req EXCEPT ![c] = r], db' = db, issued' \subseteq Uuids, lost' = lost, load' = load
  PROVE  Inv'
<1>1. TypeOK'
  BY DEF Inv, TypeOK
<1>2. ASSUME NEW d \in Clients, req'[d] # None PROVE SoundReq(req[d], db)'
  <2>1. req'[d] = IF d = c THEN r ELSE req[d]
    BY DEF Inv, TypeOK
  <2>2. SoundReq(req'[d], db)
    BY <1>2, <2>1 DEF Inv
  <2> QED BY <2>2
<1> QED BY <1>1, <1>2 DEF Inv

\* What a command that may write does to the other requests.
LEMMA OthersDeleted ==
  ASSUME TypeOK, NEW c \in Clients, req' = Deleting([req EXCEPT ![c] = None], Deleted(db'))
  PROVE  /\ req' \in [Clients -> Req \cup {None}]
         /\ req'[c] = None
         /\ \A d \in Clients : req'[d] # None =>
              /\ d # c /\ req[d] \in Req
              /\ req'[d] = [req[d] EXCEPT !.gone = @ \cup Deleted(db')]
<1>1. Deleted(db') \in SUBSET Ids
  BY DEF Deleted
<1>2. ASSUME NEW r \in Req PROVE [r EXCEPT !.gone = @ \cup Deleted(db')] \in Req
  BY <1>1, <1>2 DEF Req
<1>3. ASSUME NEW d \in Clients
      PROVE  req'[d] = IF d = c \/ req[d] = None THEN None
                       ELSE [req[d] EXCEPT !.gone = @ \cup Deleted(db')]
  BY DEF Deleting, TypeOK
<1>4. DOMAIN req' = Clients /\ req' = [d \in Clients |-> req'[d]]
  BY DEF Deleting
<1>5. \A d \in Clients : req'[d] \in Req \cup {None}
  BY <1>2, <1>3, ZenonT(40) DEF TypeOK
<1> QED BY <1>3, <1>4, <1>5, ZenonT(40) DEF TypeOK

\* A command that may write keeps the invariant, if the keys it leaves hold
\* the contexts of their ids.
LEMMA WriteStep ==
  ASSUME Inv, NEW c \in Clients, req' = Deleting([req EXCEPT ![c] = None], Deleted(db')),
         db' \in [Ids -> Ctx \cup {None}], \A i \in Ids : db'[i] # None => db'[i].id = i,
         issued' = issued, lost' \in 0 .. MaxLost, load' = load
  PROVE  Inv'
<1>1. TypeOK'
  BY OthersDeleted DEF Inv, TypeOK
<1>2. ASSUME NEW d \in Clients, req'[d] # None PROVE SoundReq(req'[d], db')
  <2> DEFINE r == req[d]
             q == req'[d]
  <2>1. r \in Req /\ q = [r EXCEPT !.gone = @ \cup Deleted(db')]
    BY <1>2, OthersDeleted DEF Inv
  <2>2. /\ q.at = r.at /\ q.op = r.op /\ q.id = r.id /\ q.body = r.body /\ q.new = r.new /\ q.left = r.left
        /\ q.gone = r.gone \cup Deleted(db')
    BY <2>1 DEF Req
  <2>3. SoundReq(r, db)
    BY <2>1, LegacyNoneAssumption DEF Inv
  <2>4. \A i \in Ids : (db[i] # None \/ i \in r.gone) => (db'[i] # None \/ i \in q.gone)
    BY <2>2 DEF Deleted
  <2>5. r.left \subseteq Ids
    BY <2>1 DEF Req
  <2> HIDE DEF r, q
  <2> QED BY <2>2, <2>3, <2>4, <2>5 DEF SoundReq, r, q
<1> QED BY <1>1, <1>2 DEF Inv

\* What the keys hold after the next command of a client.
LEMMA WrittenType ==
  ASSUME Inv, NEW c \in Clients, req[c] # None
  PROVE  /\ Written(c) \in [Ids -> Ctx \cup {None}]
         /\ \A i \in Ids : Written(c)[i] # None => Written(c)[i].id = i
<1>1. req[c] \in Req /\ SoundReq(req[c], db)
  BY DEF Inv, TypeOK
<1>2. db \in [Ids -> Ctx \cup {None}] /\ \A i \in Ids : db[i] # None => db[i].id = i
  BY DEF Inv, TypeOK
<1>3. CASE req[c].at = "set"
  <2>1. req[c].new \in Ctx /\ req[c].new.id \in Ids
    BY <1>1, <1>3 DEF SoundReq, Ctx
  <2>2. Written(c) = [db EXCEPT ![req[c].new.id] = req[c].new]
    BY <1>3 DEF Written
  <2> QED BY <1>2, <2>1, <2>2
<1>4. CASE req[c].at = "del"
  <2>1. Written(c) = [db EXCEPT ![req[c].id] = None]
    BY <1>4 DEF Written
  <2> QED BY <1>2, <2>1
<1>5. CASE req[c].at \notin {"set", "del"}
  <2>1. Written(c) = db
    BY <1>5 DEF Written
  <2> QED BY <1>2, <2>1
<1> QED BY <1>3, <1>4, <1>5

\* A new request is well-typed, and knows nothing of Redis yet.
LEMMA NewReqType ==
  ASSUME NEW op \in Operations, NEW i \in Ids \cup {None}, NEW body \in Body \cup {None}, NEW at \in Places
  PROVE  /\ NewReq(op, i, body, at) \in Req
         /\ NewReq(op, i, body, at).op = op /\ NewReq(op, i, body, at).id = i
         /\ NewReq(op, i, body, at).body = body /\ NewReq(op, i, body, at).at = at
         /\ NewReq(op, i, body, at).new = None /\ NewReq(op, i, body, at).left = {}
         /\ NewReq(op, i, body, at).items = [j \in Ids |-> None]
BY DEF NewReq, Req

\* What POST makes of a body that it takes.
Posted(i, body) ==
  [NewReq("create", i, [id |-> None, fields |-> body], "set") EXCEPT !.new = [id |-> i, fields |-> body]]

LEMMA PostReq ==
  ASSUME Inv, NEW i \in load.uuids, NEW body \in Creates \ {None}
  PROVE  LET r == Posted(i, body) IN
         /\ r \in Req /\ r.op = "create" /\ r.at = "set" /\ r.id = i /\ r.left = {}
         /\ r.new = [id |-> i, fields |-> body] /\ r.new \in Ctx
         /\ SoundReq(r, db)
<1> DEFINE b == [id |-> None, fields |-> body]
           n == NewReq("create", i, b, "set")
           r == [n EXCEPT !.new = [id |-> i, fields |-> body]]
<1>1. i \in Ids /\ body \in [Fields -> Data]
  BY LoadType, LegacyBodiesAssumption DEF Inv
<1>2. b \in Body /\ [id |-> i, fields |-> body] \in Ctx
  BY <1>1 DEF Body, Ctx
<1>3. n \in Req /\ n.op = "create" /\ n.at = "set" /\ n.id = i /\ n.left = {}
  BY <1>1, <1>2, NewReqType DEF Operations, Places
<1> HIDE DEF n
<1>4. r \in Req /\ r.op = "create" /\ r.at = "set" /\ r.id = i /\ r.left = {} /\ r.new = [id |-> i, fields |-> body]
  BY <1>2, <1>3 DEF Req
<1>5. r.new \in Ctx
  BY <1>2, <1>4
<1> HIDE DEF r
<1>6. SoundReq(r, db)
  BY <1>1, <1>4, <1>5 DEF SoundReq
<1> QED BY <1>4, <1>5, <1>6 DEF r, n, Posted

\* What PUT makes of a body that it takes.
LEMMA PutReq ==
  ASSUME Inv, NEW i \in issued \cup Names, NEW n \in {None} \cup (load.named \cap (issued \cup Names)),
         NEW u \in load.updates
  PROVE  LET r == NewReq("update", i, [id |-> n, fields |-> u], "exists") IN
         /\ r \in Req /\ r.op = "update" /\ r.at = "exists" /\ r.id = i
         /\ r.body = [id |-> n, fields |-> u] /\ r.body \in Body
         /\ SoundReq(r, db)
<1> DEFINE b == [id |-> n, fields |-> u]
           r == NewReq("update", i, b, "exists")
<1>1. i \in Ids /\ n \in Ids \cup {None} /\ u \in Updates
  BY LoadType DEF Inv
<1>2. b \in Body
  BY <1>1, LegacyBodiesAssumption DEF Body
<1>3. r \in Req /\ r.op = "update" /\ r.at = "exists" /\ r.id = i /\ r.body = b
  BY <1>1, <1>2, NewReqType DEF Operations, Places
<1> HIDE DEF r
<1>4. SoundReq(r, db)
  BY <1>1, <1>2, <1>3 DEF SoundReq
<1> QED BY <1>2, <1>3, <1>4 DEF r

\* What the other requests begin as.
LEMMA AskReq ==
  ASSUME Inv, NEW i \in issued \cup Names
  PROVE  /\ NewReq("get", i, None, "read") \in Req /\ SoundReq(NewReq("get", i, None, "read"), db)
         /\ NewReq("delete", i, None, "exists") \in Req /\ SoundReq(NewReq("delete", i, None, "exists"), db)
<1>1. i \in Ids
  BY LoadType DEF Inv
<1> QED BY <1>1, NewReqType DEF Operations, Places, SoundReq

LEMMA ListReq ==
  ASSUME Inv
  PROVE  NewReq("list", None, None, "keys") \in Req /\ SoundReq(NewReq("list", None, None, "keys"), db)
BY NewReqType DEF Operations, Places, SoundReq

\* The next step of a listing: the keys, or the value of the one i.
LEMMA KeysReq ==
  ASSUME Inv, NEW c \in Clients, At(c, "keys")
  PROVE  LET r == [req[c] EXCEPT !.at = "item", !.left = {i \in Ids : db[i] # None}] IN
         /\ r \in Req /\ r.at = "item" /\ r.op = req[c].op /\ r.items = req[c].items
         /\ r.left = {i \in Ids : db[i] # None} /\ SoundReq(r, db)
<1> DEFINE r == [req[c] EXCEPT !.at = "item", !.left = {i \in Ids : db[i] # None}]
<1>1. req[c] \in Req /\ SoundReq(req[c], db)
  BY DEF Inv, TypeOK, At
<1>2. r \in Req /\ r.at = "item" /\ r.left = {i \in Ids : db[i] # None} /\ r.op = req[c].op /\ r.body = req[c].body
      /\ r.items = req[c].items
  BY <1>1 DEF Req, Places
<1> HIDE DEF r
<1>3. SoundReq(r, db)
  BY <1>1, <1>2 DEF SoundReq
<1> QED BY <1>2, <1>3 DEF r

LEMMA ItemReq ==
  ASSUME Inv, NEW c \in Clients, At(c, "item"), NEW i \in req[c].left, db[i] # None
  PROVE  LET r == [req[c] EXCEPT !.left = @ \ {i}, !.items = [req[c].items EXCEPT ![i] = db[i].fields]] IN
         /\ r \in Req /\ r.at = "item" /\ r.op = req[c].op /\ r.left = req[c].left \ {i}
         /\ r.items = [req[c].items EXCEPT ![i] = db[i].fields] /\ SoundReq(r, db)
<1> DEFINE items == [req[c].items EXCEPT ![i] = db[i].fields]
           r == [req[c] EXCEPT !.left = @ \ {i}, !.items = items]
<1>1. req[c] \in Req /\ SoundReq(req[c], db) /\ i \in Ids
  BY DEF Inv, TypeOK, At, Req
<1>2. db[i].fields \in [Fields -> Data]
  BY <1>1 DEF Inv, TypeOK, Ctx
<1>3. items \in [Ids -> [Fields -> Data] \cup {None}]
  BY <1>1, <1>2 DEF Req
<1> HIDE DEF items
<1>4. /\ r \in Req /\ r.at = "item" /\ r.left = req[c].left \ {i} /\ r.items = items
      /\ r.op = req[c].op /\ r.body = req[c].body /\ r.gone = req[c].gone
  BY <1>1, <1>3 DEF Req, At
<1> HIDE DEF r
<1>5. SoundReq(r, db)
  BY <1>1, <1>4 DEF SoundReq, At
<1> QED BY <1>4, <1>5 DEF r, items

\* The next step of an update or a delete that has found its context.
LEMMA ExistsReq ==
  ASSUME Inv, NEW c \in Clients, At(c, "exists"), db[req[c].id] # None
  PROVE  LET r == [req[c] EXCEPT !.at = IF req[c].op = "update" THEN "get" ELSE "del"] IN
         /\ r \in Req /\ r.op = req[c].op /\ r.id = req[c].id /\ r.body = req[c].body
         /\ r.at = (IF r.op = "update" THEN "get" ELSE "del") /\ SoundReq(r, db)
<1> DEFINE r == [req[c] EXCEPT !.at = IF req[c].op = "update" THEN "get" ELSE "del"]
<1>1. req[c] \in Req /\ SoundReq(req[c], db)
  BY DEF Inv, TypeOK, At
<1>2. /\ r \in Req /\ r.at = (IF req[c].op = "update" THEN "get" ELSE "del") /\ r.id = req[c].id
      /\ r.op = req[c].op /\ r.body = req[c].body
  BY <1>1 DEF Req, Places
<1> HIDE DEF r
<1>3. SoundReq(r, db)
  BY <1>1, <1>2 DEF SoundReq, At
<1> QED BY <1>2, <1>3 DEF r

LEMMA LoadReq ==
  ASSUME Inv, NEW c \in Clients, At(c, "get"), db[req[c].id] # None
  PROVE  LET r == [req[c] EXCEPT !.at = "set", !.new = Updated(db[req[c].id], req[c].body)] IN
         /\ r \in Req /\ r.at = "set" /\ r.op = "update" /\ r.id = req[c].id /\ r.body = req[c].body
         /\ r.new = Updated(db[req[c].id], req[c].body) /\ SoundReq(r, db)
<1> DEFINE new == Updated(db[req[c].id], req[c].body)
           r == [req[c] EXCEPT !.at = "set", !.new = new]
<1>1. req[c] \in Req /\ SoundReq(req[c], db)
  BY DEF Inv, TypeOK, At
<1>2. req[c].id \in Ids /\ req[c].body \in Body /\ req[c].op = "update"
  BY <1>1 DEF SoundReq, At
<1>3. db[req[c].id] \in Ctx /\ db[req[c].id].id = req[c].id
  BY <1>2 DEF Inv, TypeOK
<1>4. new \in Ctx /\ new.id = IF req[c].body.id = None THEN req[c].id ELSE req[c].body.id
  BY <1>2, <1>3, UpdatedType
<1> HIDE DEF new
<1>5. /\ r \in Req /\ r.at = "set" /\ r.id = req[c].id /\ r.new = new
      /\ r.op = req[c].op /\ r.body = req[c].body
  BY <1>1, <1>4 DEF Req, Places
<1> HIDE DEF r
<1>6. SoundReq(r, db)
  BY <1>1, <1>2, <1>4, <1>5 DEF SoundReq, At
<1> QED BY <1>2, <1>5, <1>6 DEF r, new

\* The steps of one request.
LEMMA StepInv ==
  ASSUME Inv, NEW c \in Clients,
         \/ Post(c) \/ PutBody(c) \/ Ask(c)
         \/ Read(c) \/ Keys(c) \/ Item(c) \/ Exists(c) \/ Load(c) \/ Write(c) \/ Lose(c)
  PROVE  Inv'
<1>0. issued \subseteq Uuids /\ None \in Req \cup {None}
  BY DEF Inv, TypeOK
<1>1. CASE Post(c)
  <2>1. CASE Respond(c, "create", None, "400", None) /\ UNCHANGED issued
    BY <1>0, <1>1, <2>1, RequestStep DEF Post, Respond
  <2>2. CASE ~(Respond(c, "create", None, "400", None) /\ UNCHANGED issued)
    <3>1. PICK body \in Creates \ {None}, i \in load.uuids \ issued :
            /\ issued' = issued \cup {i}
            /\ Wait(c, Posted(i, body))
      BY <1>1, <2>2 DEF Post, Posted
    <3>2. issued' \subseteq Uuids
      BY <1>0, <3>1, LoadType DEF Inv
    <3> QED BY <1>1, <3>1, <3>2, PostReq, RequestStep DEF Post, Wait
  <2> QED BY <2>1, <2>2
<1>2. CASE PutBody(c)
  <2>1. PICK i \in issued \cup Names, n \in {None} \cup (load.named \cap (issued \cup Names)), u \in load.updates :
          IF n = None /\ u = Fieldless THEN Respond(c, "update", i, "400", None)
          ELSE Wait(c, NewReq("update", i, [id |-> n, fields |-> u], "exists"))
    BY <1>2 DEF PutBody
  <2>2. CASE Respond(c, "update", i, "400", None)
    BY <1>0, <1>2, <2>2, RequestStep DEF PutBody, Respond
  <2>3. CASE Wait(c, NewReq("update", i, [id |-> n, fields |-> u], "exists"))
    <3> DEFINE r == NewReq("update", i, [id |-> n, fields |-> u], "exists")
    <3>1. r \in Req /\ SoundReq(r, db)
      BY PutReq
    <3>2. req' = [req EXCEPT ![c] = r] /\ UNCHANGED <<db, issued, lost, load>>
      BY <1>2, <2>3 DEF PutBody, Wait
    <3> HIDE DEF r
    <3> QED BY <1>0, <3>1, <3>2, RequestStep
  <2> QED BY <2>1, <2>2, <2>3
<1>3. CASE Ask(c)
  <2>1. UNCHANGED <<db, issued, lost, load>>
    BY <1>3 DEF Ask
  <2>2. CASE Wait(c, NewReq("list", None, None, "keys"))
    BY <1>0, <2>1, <2>2, ListReq, RequestStep DEF Wait
  <2>3. CASE ~Wait(c, NewReq("list", None, None, "keys"))
    <3>1. PICK i \in issued \cup Names :
            Wait(c, NewReq("get", i, None, "read")) \/ Wait(c, NewReq("delete", i, None, "exists"))
      BY <1>3, <2>3 DEF Ask
    <3> QED BY <1>0, <2>1, <3>1, AskReq, RequestStep DEF Wait
  <2> QED BY <2>2, <2>3
<1>4. ASSUME NEW status, NEW value, Answer(c, status, value), UNCHANGED <<db, issued, lost, load>>
      PROVE  Inv'
  BY <1>0, <1>4, RequestStep DEF Answer, Respond
<1>5. CASE Read(c)
  BY <1>4, <1>5 DEF Read
<1>6. CASE Keys(c)
  BY <1>0, <1>4, <1>6, KeysReq, RequestStep DEF Keys, Wait
<1>7. CASE Item(c)
  <2>1. PICK i \in req[c].left :
          LET items == [req[c].items EXCEPT ![i] = db[i].fields] IN
          IF db[i] = None THEN Answer(c, "500", None)
          ELSE IF req[c].left = {i} THEN Answer(c, "ok", items)
          ELSE Wait(c, [req[c] EXCEPT !.left = @ \ {i}, !.items = items])
    BY <1>7 DEF Item
  <2>2. At(c, "item") /\ UNCHANGED <<db, issued, lost, load>>
    BY <1>7 DEF Item
  <2> QED BY <1>0, <1>4, <2>1, <2>2, ItemReq, RequestStep DEF Wait
<1>8. CASE Exists(c)
  BY <1>0, <1>4, <1>8, ExistsReq, RequestStep DEF Exists, Wait
<1>9. CASE Load(c)
  BY <1>0, <1>4, <1>9, LoadReq, RequestStep DEF Load, Wait
<1>10. CASE Write(c)
  <2>1. req[c] # None /\ db' = Written(c) /\ lost' \in 0 .. MaxLost
    BY <1>10 DEF Write, At, Inv, TypeOK
  <2> QED BY <1>10, <2>1, WrittenType, WriteStep DEF Write
<1>11. CASE Lose(c)
  <2>1. lost' \in 0 .. MaxLost
    BY <1>11, LegacyLostAssumption DEF Lose, Inv, TypeOK
  <2>2. db' \in [Ids -> Ctx \cup {None}] /\ \A i \in Ids : db'[i] # None => db'[i].id = i
    BY <1>11, WrittenType DEF Lose, Inv, TypeOK
  <2> QED BY <1>11, <2>1, <2>2, WriteStep DEF Lose
<1> QED BY <1>1, <1>2, <1>3, <1>5, <1>6, <1>7, <1>8, <1>9, <1>10, <1>11

\* A request that is to wait is waited for.
LEMMA WaitIsNoAnswer ==
  ASSUME Inv, NEW c \in Clients, NEW r \in Req, Wait(c, r)
  PROVE  req'[c] # None
BY LegacyNoneAssumption DEF Inv, TypeOK, Wait

\* An answer has the status it is given.
LEMMA AnswerStatus ==
  ASSUME NEW c \in Clients, NEW status, NEW value, Answer(c, status, value)
  PROVE  answer'.status = status
BY DEF Answer, Respond

\* The invariant that the theorems rest on.
LEMMA Invariance == Spec => []Inv
<1>1. Init => Inv
  BY LegacyNoneAssumption, LegacyLostAssumption DEF Init, Inv, TypeOK
<1>2. Inv /\ [Next]_vars => Inv'
  <2>1. Inv /\ UNCHANGED vars => Inv'
    BY DEF Inv, TypeOK, SoundReq, vars
  <2> QED BY <2>1, StepInv DEF Next
<1> QED BY <1>1, <1>2, PTL DEF Spec

\* The state keeps its types, and a key the context of its id, however the
\* updates name ids.
THEOREM TypeCorrect == Spec => []TypeOK
<1>1. Inv => TypeOK
  BY DEF Inv
<1> QED BY <1>1, Invariance, PTL

\* Only the request whose step it is stops being waited for.
LEMMA OthersWait ==
  ASSUME Inv, NEW c \in Clients, NEW d \in Clients, d # c, req[d] # None,
         \/ \E r : req' = [req EXCEPT ![c] = r]
         \/ req' = Deleting([req EXCEPT ![c] = None], Deleted(db'))
  PROVE  req'[d] # None
<1>1. CASE \E r : req' = [req EXCEPT ![c] = r]
  BY <1>1 DEF Inv, TypeOK
<1>2. CASE req' = Deleting([req EXCEPT ![c] = None], Deleted(db'))
  <2>1. req[d] \in Req /\ Deleted(db') \in SUBSET Ids
    BY DEF Inv, TypeOK, Deleted
  <2>2. req'[d] = [req[d] EXCEPT !.gone = @ \cup Deleted(db')]
    BY <1>2 DEF Deleting, Inv, TypeOK
  <2>3. req'[d] \in Req
    BY <2>1, <2>2 DEF Req
  <2> QED BY <2>3, LegacyNoneAssumption
<1> QED BY <1>1, <1>2

\* Each step is one of a client: it leaves the others waiting.
LEMMA StepFrame ==
  ASSUME Inv, NEW c \in Clients,
         \/ Post(c) \/ PutBody(c) \/ Ask(c)
         \/ Read(c) \/ Keys(c) \/ Item(c) \/ Exists(c) \/ Load(c) \/ Write(c) \/ Lose(c)
  PROVE  /\ \A d \in Clients \ {c} : req[d] # None => req'[d] # None
         /\ load' = load
<1>1. CASE Post(c) \/ PutBody(c) \/ Ask(c) \/ Read(c) \/ Keys(c) \/ Item(c) \/ Exists(c) \/ Load(c)
  <2>1. \E r : req' = [req EXCEPT ![c] = r]
    BY <1>1 DEF Post, PutBody, Ask, Read, Keys, Item, Exists, Load, Wait, Respond, Answer
  <2>2. load' = load
    BY <1>1 DEF Post, PutBody, Ask, Read, Keys, Item, Exists, Load
  <2> QED BY <2>1, <2>2, OthersWait
<1>2. CASE Write(c) \/ Lose(c)
  <2>1. req' = Deleting([req EXCEPT ![c] = None], Deleted(db')) /\ load' = load
    BY <1>2 DEF Write, Lose
  <2> QED BY <2>1, OthersWait
<1> QED BY <1>1, <1>2

\* With Redis at hand, only a race with a delete is answered 500.
THEOREM RacesOnly == Spec => OnlyRacesFail
<1> DEFINE A == \A c \in Clients :
                  (req[c] # None /\ req'[c] = None /\ answer'.status = "500" /\ lost' = lost) =>
                    (req[c].left \cup {req[c].id}) \cap req[c].gone # {}
<1>1. Inv /\ [Next]_vars => [A]_vars
  <2> SUFFICES ASSUME Inv, NEW c \in Clients,
                      \/ Post(c) \/ PutBody(c) \/ Ask(c)
                      \/ Read(c) \/ Keys(c) \/ Item(c) \/ Exists(c) \/ Load(c) \/ Write(c) \/ Lose(c),
                      NEW d \in Clients, req[d] # None, req'[d] = None, answer'.status = "500", lost' = lost
               PROVE  (req[d].left \cup {req[d].id}) \cap req[d].gone # {}
    BY DEF Next
  <2>1. d = c
    BY StepFrame
  <2>2. ~Idle(c)
    BY <2>1 DEF Idle
  <2>3. SoundReq(req[c], db)
    BY <2>1 DEF Inv
  <2>4. CASE Item(c)
    <3>1. PICK i \in req[c].left :
            LET items == [req[c].items EXCEPT ![i] = db[i].fields] IN
            IF db[i] = None THEN Answer(c, "500", None)
            ELSE IF req[c].left = {i} THEN Answer(c, "ok", items)
            ELSE Wait(c, [req[c] EXCEPT !.left = @ \ {i}, !.items = items])
      BY <2>4 DEF Item
    <3>2. At(c, "item")
      BY <2>4 DEF Item
    <3>3. db[i] = None
      <4> SUFFICES ASSUME db[i] # None PROVE FALSE
        OBVIOUS
      <4>1. [req[c] EXCEPT !.left = @ \ {i}, !.items = [req[c].items EXCEPT ![i] = db[i].fields]] \in Req
        BY <3>2, ItemReq
      <4> QED BY <2>1, <3>1, <4>1, WaitIsNoAnswer, AnswerStatus
    <3> QED BY <2>1, <2>3, <3>1, <3>2, <3>3 DEF At, SoundReq
  <2>5. CASE Load(c)
    <3>1. At(c, "get")
      BY <2>5 DEF Load
    <3>2. db[req[c].id] = None
      BY <2>1, <2>5, <3>1, LoadReq, WaitIsNoAnswer DEF Load
    <3> QED BY <2>1, <2>3, <3>1, <3>2 DEF At, SoundReq
  <2>6. CASE Lose(c)
    BY <2>6 DEF Lose, Inv, TypeOK
  <2>7. CASE Keys(c)
    <3> DEFINE keys == {i \in Ids : db[i] # None}
    <3>1. Answer(c, "ok", req[c].items) \/ Wait(c, [req[c] EXCEPT !.at = "item", !.left = keys])
      BY <2>7 DEF Keys
    <3>2. [req[c] EXCEPT !.at = "item", !.left = keys] \in Req
      BY <2>7, KeysReq DEF Keys
    <3> HIDE DEF keys
    <3> QED BY <2>1, <3>1, <3>2, WaitIsNoAnswer, AnswerStatus
  <2>8. CASE Exists(c)
    BY <2>1, <2>8, ExistsReq, WaitIsNoAnswer DEF Exists, Answer, Respond
  <2>9. CASE Read(c) \/ Write(c)
    BY <2>9 DEF Read, Write, Answer, Respond
  <2> QED BY <2>2, <2>4, <2>5, <2>6, <2>7, <2>8, <2>9 DEF Post, PutBody, Ask
<1> QED BY <1>1, Invariance, PTL DEF Spec, OnlyRacesFail

\* A deleted context comes back only by name or by an update on its way.
THEOREM AppearancesExplained == Spec => AppearsOnlyBy
<1> DEFINE A == \A i \in Ids : (db[i] = None /\ db'[i] # None) =>
                  \E c \in Clients :
                    /\ At(c, "set") /\ req[c].new.id = i
                    /\ \/ req[c].op = "create" \/ req[c].body.id = i
                       \/ req[c].op = "update" /\ i \in req[c].gone
<1>1. Inv /\ [Next]_vars => [A]_vars
  <2> SUFFICES ASSUME Inv, NEW c \in Clients,
                      \/ Post(c) \/ PutBody(c) \/ Ask(c)
                      \/ Read(c) \/ Keys(c) \/ Item(c) \/ Exists(c) \/ Load(c) \/ Write(c) \/ Lose(c),
                      NEW i \in Ids, db[i] = None, db'[i] # None
               PROVE  /\ At(c, "set") /\ req[c].new.id = i
                      /\ \/ req[c].op = "create" \/ req[c].body.id = i
                         \/ req[c].op = "update" /\ i \in req[c].gone
    BY DEF Next
  <2>1. req[c] # None /\ db' = Written(c)
    BY DEF Post, PutBody, Ask, Read, Keys, Item, Exists, Load, Write, Lose, At
  <2>2. SoundReq(req[c], db) /\ req[c] \in Req /\ db \in [Ids -> Ctx \cup {None}]
    BY <2>1 DEF Inv, TypeOK
  <2>3. req[c].at = "set"
    BY <2>1, <2>2 DEF Written
  <2>4. req[c].new.id = i
    BY <2>1, <2>2, <2>3 DEF Written
  <2> QED BY <2>1, <2>2, <2>3, <2>4 DEF SoundReq, At
<1> QED BY <1>1, Invariance, PTL DEF Spec, AppearsOnlyBy

\* The map of contexts that Redis holds.
Contents(s) == [i \in Ids |-> IF s[i] = None THEN None ELSE s[i].fields]

\* What a request knows of Redis when it is alone.
QuietReq(r, s) ==
  /\ r.op = "update" => r.body.id = None /\ r.body.fields \in Updates
  /\ r.at = "read" => r.op = "get"
  /\ r.at \in {"keys", "item"} => r.op = "list" /\ r.id = None
  /\ r.at = "keys" => r.items = [j \in Ids |-> None]
  /\ r.at = "item" => \A j \in Ids : IF j \in r.left THEN s[j] # None ELSE r.items[j] = Contents(s)[j]
  /\ r.at = "get" => s[r.id] # None
  /\ r.at = "del" => r.op = "delete" /\ s[r.id] # None
  /\ r.at = "set" =>
       IF r.op = "create" THEN /\ s[r.id] = None /\ r.id \in issued
                               /\ r.new.id = r.id /\ r.new.fields \in Creates \ {None}
       ELSE s[r.id] # None /\ r.new = Updated(s[r.id], r.body)

QuietInv ==
  /\ Inv
  /\ Quiet => /\ \A c \in Clients : req[c] # None => load.clients = {c} /\ QuietReq(req[c], db)
              /\ \A i \in Ids : db[i] # None => i \in issued

\* The client of a step is the only one.
LEMMA OnlyClient ==
  ASSUME QuietInv, Quiet, NEW c \in Clients, req[c] # None \/ Idle(c)
  PROVE  /\ load.clients = {c}
         /\ \A d \in Clients \ {c} : req[d] = None
         /\ req[c] # None => QuietReq(req[c], db) /\ SoundReq(req[c], db) /\ req[c] \in Req
         /\ \A i \in Ids : db[i] # None => i \in issued
         /\ load.named = {} /\ load.faulty = FALSE
BY DEF QuietInv, Quiet, Idle, Inv, TypeOK

\* A step that leaves Redis alone keeps what its request knows.
LEMMA QuietStep ==
  ASSUME QuietInv, Quiet, NEW c \in Clients, req[c] # None \/ Idle(c),
         NEW r \in Req \cup {None}, req' = [req EXCEPT ![c] = r], db' = db, load' = load,
         issued \subseteq issued', Inv', r # None => QuietReq(r, db)'
  PROVE  QuietInv'
<1>1. load.clients = {c} /\ (\A d \in Clients \ {c} : req[d] = None) /\ \A i \in Ids : db[i] # None => i \in issued
  BY OnlyClient
<1>2. \A d \in Clients : req'[d] = IF d = c THEN r ELSE None
  BY <1>1 DEF QuietInv, Inv, TypeOK
<1>3. ASSUME NEW d \in Clients, req'[d] # None PROVE (load.clients = {d} /\ QuietReq(req[d], db))'
  BY <1>1, <1>2, <1>3
<1>4. \A i \in Ids : db'[i] # None => i \in issued'
  BY <1>1
<1> QED BY <1>3, <1>4 DEF QuietInv

\* So do the requests that are made ...
LEMMA QuietArrivals ==
  ASSUME QuietInv, Quiet, NEW c \in Clients, Post(c) \/ PutBody(c) \/ Ask(c), Inv'
  PROVE  QuietInv'
<1>0. Idle(c) /\ None \in Req \cup {None} /\ load' = load /\ db' = db /\ issued \subseteq issued'
  BY DEF Post, PutBody, Ask
<1>1. CASE Post(c)
  <2>1. CASE Respond(c, "create", None, "400", None)
    BY <1>0, <2>1, QuietStep DEF Respond
  <2>2. CASE ~Respond(c, "create", None, "400", None)
    <3>1. PICK body \in Creates \ {None}, i \in load.uuids \ issued :
            /\ issued' = issued \cup {i}
            /\ Wait(c, Posted(i, body))
      BY <1>1, <2>2 DEF Post, Posted
    <3> DEFINE r == Posted(i, body)
    <3>0. Inv /\ i \in load.uuids
      BY DEF QuietInv
    <3>2. /\ r \in Req /\ r.op = "create" /\ r.at = "set" /\ r.id = i
          /\ r.new = [id |-> i, fields |-> body]
      BY <3>0, PostReq
    <3>3. i \in Ids
      BY LoadType DEF QuietInv, Inv
    <3>4. db[i] = None
      BY <1>0, <3>1, <3>3, OnlyClient
    <3>5. req' = [req EXCEPT ![c] = r]
      BY <3>1 DEF Wait
    <3> HIDE DEF r
    <3>6. QuietReq(r, db)'
      BY <1>0, <3>1, <3>2, <3>4 DEF QuietReq
    <3> QED BY <1>0, <3>2, <3>5, <3>6, QuietStep
  <2> QED BY <2>1, <2>2
<1>2. CASE PutBody(c)
  <2>1. PICK i \in issued \cup Names, n \in {None} \cup (load.named \cap (issued \cup Names)), u \in load.updates :
          IF n = None /\ u = Fieldless THEN Respond(c, "update", i, "400", None)
          ELSE Wait(c, NewReq("update", i, [id |-> n, fields |-> u], "exists"))
    BY <1>2 DEF PutBody
  <2> DEFINE r == NewReq("update", i, [id |-> n, fields |-> u], "exists")
  <2>2. CASE Respond(c, "update", i, "400", None)
    BY <1>0, <2>2, QuietStep DEF Respond
  <2>3. CASE Wait(c, r)
    <3>1. r \in Req /\ r.op = "update" /\ r.at = "exists" /\ r.id = i /\ r.body = [id |-> n, fields |-> u]
      BY PutReq DEF QuietInv
    <3>2. n = None /\ u \in Updates
      BY LoadType DEF QuietInv, Inv, Quiet
    <3>3. req' = [req EXCEPT ![c] = r]
      BY <2>3 DEF Wait
    <3> HIDE DEF r
    <3>4. QuietReq(r, db)'
      BY <1>0, <3>1, <3>2 DEF QuietReq
    <3> QED BY <1>0, <3>1, <3>3, <3>4, QuietStep
  <2> QED BY <2>1, <2>2, <2>3
<1>3. CASE Ask(c)
  <2>1. ASSUME NEW i \in issued \cup Names, Wait(c, NewReq("get", i, None, "read")) PROVE QuietInv'
    <3> DEFINE r == NewReq("get", i, None, "read")
    <3>1. r \in Req
      BY AskReq DEF QuietInv
    <3>2. QuietReq(r, db)' /\ req' = [req EXCEPT ![c] = r]
      BY <2>1 DEF QuietReq, NewReq, Wait
    <3> HIDE DEF r
    <3> QED BY <1>0, <3>1, <3>2, QuietStep
  <2>2. ASSUME NEW i \in issued \cup Names, Wait(c, NewReq("delete", i, None, "exists")) PROVE QuietInv'
    <3> DEFINE r == NewReq("delete", i, None, "exists")
    <3>1. r \in Req
      BY AskReq DEF QuietInv
    <3>2. QuietReq(r, db)' /\ req' = [req EXCEPT ![c] = r]
      BY <2>2 DEF QuietReq, NewReq, Wait
    <3> HIDE DEF r
    <3> QED BY <1>0, <3>1, <3>2, QuietStep
  <2>3. CASE Wait(c, NewReq("list", None, None, "keys"))
    <3> DEFINE r == NewReq("list", None, None, "keys")
    <3>1. r \in Req
      BY ListReq DEF QuietInv
    <3>2. QuietReq(r, db)' /\ req' = [req EXCEPT ![c] = r]
      BY <2>3 DEF QuietReq, NewReq, Wait
    <3> HIDE DEF r
    <3> QED BY <1>0, <3>1, <3>2, QuietStep
  <2> QED BY <1>3, <2>1, <2>2, <2>3 DEF Ask
<1> QED BY <1>1, <1>2, <1>3

\* ... and those that go on.
LEMMA QuietProgress ==
  ASSUME QuietInv, Quiet, NEW c \in Clients, Keys(c) \/ Item(c) \/ Exists(c) \/ Load(c), Inv',
         NEW r \in Req, Wait(c, r),
         \/ At(c, "keys") /\ r = [req[c] EXCEPT !.at = "item", !.left = {i \in Ids : db[i] # None}]
         \/ At(c, "item") /\ \E i \in req[c].left :
              r = [req[c] EXCEPT !.left = @ \ {i}, !.items = [req[c].items EXCEPT ![i] = db[i].fields]]
         \/ At(c, "exists") /\ r = [req[c] EXCEPT !.at = IF req[c].op = "update" THEN "get" ELSE "del"]
              /\ db[req[c].id] # None
         \/ At(c, "get") /\ r = [req[c] EXCEPT !.at = "set", !.new = Updated(db[req[c].id], req[c].body)]
  PROVE  QuietInv'
<1>1. req[c] # None /\ load' = load /\ db' = db /\ issued' = issued /\ req' = [req EXCEPT ![c] = r]
  BY DEF Keys, Item, Exists, Load, At, Wait
<1>2. QuietReq(req[c], db) /\ SoundReq(req[c], db) /\ req[c] \in Req
  BY <1>1, OnlyClient
<1>3. db \in [Ids -> Ctx \cup {None}]
  BY DEF QuietInv, Inv, TypeOK
<1>4. CASE At(c, "keys") /\ r = [req[c] EXCEPT !.at = "item", !.left = {i \in Ids : db[i] # None}]
  <2>1. r.at = "item" /\ r.op = req[c].op /\ r.id = req[c].id /\ r.body = req[c].body
        /\ r.items = req[c].items /\ r.left = {i \in Ids : db[i] # None}
    BY <1>2, <1>4 DEF Req
  <2>2. req[c].items = [j \in Ids |-> None] /\ req[c].op = "list" /\ req[c].id = None
    BY <1>2, <1>4 DEF QuietReq, At
  <2>3. \A j \in Ids : IF j \in r.left THEN db[j] # None ELSE r.items[j] = Contents(db)[j]
    BY <2>1, <2>2, ZenonT(40) DEF Contents
  <2> QED BY <1>1, <2>1, <2>2, <2>3, QuietStep DEF QuietReq
<1>5. CASE At(c, "item") /\ \E i \in req[c].left :
              r = [req[c] EXCEPT !.left = @ \ {i}, !.items = [req[c].items EXCEPT ![i] = db[i].fields]]
  <2>1. PICK i \in req[c].left :
          r = [req[c] EXCEPT !.left = @ \ {i}, !.items = [req[c].items EXCEPT ![i] = db[i].fields]]
    BY <1>5
  <2>2. r.at = "item" /\ r.op = req[c].op /\ r.id = req[c].id /\ r.body = req[c].body
        /\ r.items = [req[c].items EXCEPT ![i] = db[i].fields] /\ r.left = req[c].left \ {i}
    BY <1>2, <1>5, <2>1 DEF Req, At
  <2>3. req[c].op = "list" /\ req[c].id = None /\ req[c].items \in [Ids -> [Fields -> Data] \cup {None}]
        /\ \A j \in Ids : IF j \in req[c].left THEN db[j] # None ELSE req[c].items[j] = Contents(db)[j]
    BY <1>2, <1>5 DEF QuietReq, At, Req
  <2>4. ASSUME NEW j \in Ids PROVE IF j \in r.left THEN db[j] # None ELSE r.items[j] = Contents(db)[j]
    <3>1. CASE j = i
      <4>1. j \notin r.left
        BY <2>2, <3>1
      <4>2. db[j] # None
        BY <2>1, <2>3, <3>1
      <4>3. j \in DOMAIN req[c].items
        BY <2>3
      <4>4. r.items[j] = db[j].fields
        BY <2>2, <3>1, <4>3
      <4> QED BY <4>1, <4>2, <4>4 DEF Contents
    <3>2. CASE j # i
      BY <2>2, <2>3, <3>2
    <3> QED BY <3>1, <3>2
  <2> QED BY <1>1, <2>2, <2>3, <2>4, QuietStep DEF QuietReq
<1>6. CASE At(c, "exists") /\ r = [req[c] EXCEPT !.at = IF req[c].op = "update" THEN "get" ELSE "del"]
              /\ db[req[c].id] # None
  <2>1. r.at = (IF req[c].op = "update" THEN "get" ELSE "del") /\ r.op = req[c].op /\ r.id = req[c].id
        /\ r.body = req[c].body
    BY <1>2, <1>6 DEF Req
  <2>2. /\ req[c].op \in {"update", "delete"} /\ db[req[c].id] # None
        /\ req[c].op = "update" => req[c].body.id = None /\ req[c].body.fields \in Updates
    BY <1>2, <1>6 DEF SoundReq, QuietReq, At
  <2>3. QuietReq(r, db)
    BY <2>1, <2>2 DEF QuietReq
  <2>4. QuietReq(r, db)'
    BY <1>1, <2>3 DEF QuietReq, Contents
  <2> QED BY <1>1, <2>4, QuietStep
<1>7. CASE At(c, "get") /\ r = [req[c] EXCEPT !.at = "set", !.new = Updated(db[req[c].id], req[c].body)]
  <2>1. r.at = "set" /\ r.op = "update" /\ r.id = req[c].id /\ r.body = req[c].body
        /\ r.new = Updated(db[req[c].id], req[c].body)
    BY <1>2, <1>7 DEF Req, SoundReq, At
  <2>2. db[req[c].id] # None /\ r.body.id = None /\ r.body.fields \in Updates
    BY <1>2, <1>7, <2>1 DEF QuietReq, SoundReq, At
  <2> QED BY <1>1, <2>1, <2>2, QuietStep DEF QuietReq
<1> QED BY <1>4, <1>5, <1>6, <1>7

\* So does the command that writes, and every answer.
LEMMA QuietAnswers ==
  ASSUME QuietInv, Quiet, NEW c \in Clients, req[c] # None, load' = load, issued' = issued, Inv',
         \/ req' = [req EXCEPT ![c] = None] /\ db' = db
         \/ /\ req' = Deleting([req EXCEPT ![c] = None], Deleted(db'))
            /\ db' = Written(c)
  PROVE  QuietInv'
<1>1. CASE req' = [req EXCEPT ![c] = None] /\ db' = db
  BY <1>1, QuietStep
<1>2. CASE req' = Deleting([req EXCEPT ![c] = None], Deleted(db')) /\ db' = Written(c)
  <2>1. /\ QuietReq(req[c], db) /\ SoundReq(req[c], db) /\ req[c] \in Req
        /\ \A d \in Clients \ {c} : req[d] = None
        /\ \A i \in Ids : db[i] # None => i \in issued
    BY OnlyClient
  <2>2. \A d \in Clients : req'[d] = None
    BY <1>2, <2>1 DEF Deleting, QuietInv, Inv, TypeOK
  <2>3. db \in [Ids -> Ctx \cup {None}] /\ \A i \in Ids : db[i] # None => db[i].id = i
    BY DEF QuietInv, Inv, TypeOK
  <2>4. ASSUME req[c].at = "set" PROVE req[c].new.id \in issued
    <3>1. CASE req[c].op = "create"
      BY <2>1, <2>4, <3>1 DEF QuietReq
    <3>2. CASE req[c].op = "update"
      <4>1. req[c].new.id = req[c].id /\ db[req[c].id] # None /\ req[c].id \in Ids
        BY <2>1, <2>4, <3>2 DEF QuietReq, SoundReq
      <4> QED BY <2>1, <4>1
    <3> QED BY <2>1, <2>4, <3>1, <3>2 DEF SoundReq
  <2>5. ASSUME NEW i \in Ids, db'[i] # None PROVE i \in issued'
    BY <1>2, <2>1, <2>3, <2>4, <2>5 DEF Written
  <2> QED BY <2>2, <2>5 DEF QuietInv
<1> QED BY <1>1, <1>2

\* What an update of a lone client makes of its context, in the map.
LEMMA UpdatedIsMerged ==
  ASSUME NEW ctx \in Ctx, NEW body \in Body, body.id = None
  PROVE  Updated(ctx, body) = [id |-> ctx.id, fields |-> Map!Merge(ctx.fields, body.fields)]
BY DEF Updated, Map!Merge

\* A lone client's command that writes is a step of the map.
LEMMA WriteRefines ==
  ASSUME QuietInv, Quiet, NEW c \in Clients, Write(c)
  PROVE  Map!Next
<1>1. /\ req[c] # None /\ (req[c].at = "set" \/ req[c].at = "del") /\ db' = Written(c)
      /\ answer' = [op |-> req[c].op, id |-> req[c].id, status |-> "ok",
                    value |-> IF req[c].at = "set" THEN req[c].new.fields ELSE None]
  BY DEF Write, At
<1>2. QuietReq(req[c], db) /\ SoundReq(req[c], db) /\ req[c] \in Req
  BY <1>1, OnlyClient
<1>3. db \in [Ids -> Ctx \cup {None}] /\ (\A i \in Ids : db[i] # None => db[i].id = i) /\ req[c].id \in Ids
  BY <1>1, <1>2 DEF QuietInv, Inv, TypeOK, SoundReq
<1> DEFINE i == req[c].id
<1>7. i \in Ids
  BY <1>3
<1>4. CASE req[c].at = "set" /\ req[c].op = "create"
  <2> DEFINE fields == req[c].new.fields
  <2>1. db[i] = None /\ req[c].new.id = i /\ fields \in Creates \ {None} /\ req[c].new \in Ctx
    BY <1>2, <1>4 DEF QuietReq, SoundReq
  <2>2. db' = [db EXCEPT ![i] = req[c].new]
    BY <1>1, <1>4, <2>1 DEF Written
  <2>3. Contents(db') = [Contents(db) EXCEPT ![i] = fields]
    BY <1>3, <2>1, <2>2, LegacyNoneAssumption DEF Contents
  <2>4. Contents(db)[i] = None
    BY <1>3, <2>1 DEF Contents
  <2>5. answer' = [op |-> "create", id |-> i, status |-> "ok", value |-> fields]
    BY <1>1, <1>4
  <2> HIDE DEF i, fields
  <2>6. \E id \in Ids, b \in Creates \ {None} : Map!Create(id, b)
    BY <1>7, <2>1, <2>3, <2>4, <2>5 DEF Map!Create, Map!Answers, Contents
  <2> QED BY <2>6 DEF Map!Next
<1>5. CASE req[c].at = "set" /\ req[c].op = "update"
  <2> DEFINE body == req[c].body
             merged == Map!Merge(db[i].fields, body.fields)
  <2>1. /\ db[i] # None /\ req[c].new = Updated(db[i], body) /\ body.id = None
        /\ body.fields \in Updates /\ body \in Body /\ db[i] \in Ctx /\ db[i].id = i
    BY <1>2, <1>3, <1>5 DEF QuietReq, SoundReq
  <2>2. req[c].new = [id |-> i, fields |-> merged]
    BY <2>1, UpdatedIsMerged
  <2> HIDE DEF merged
  <2>3. db' = [db EXCEPT ![i] = [id |-> i, fields |-> merged]]
    BY <1>1, <1>5, <2>2 DEF Written
  <2>4. [id |-> i, fields |-> merged] # None
    BY <1>2, <1>5, <2>2, LegacyNoneAssumption DEF SoundReq
  <2>5. Contents(db') = [Contents(db) EXCEPT ![i] = merged] /\ Contents(db)[i] = db[i].fields
    BY <1>3, <2>1, <2>3, <2>4 DEF Contents
  <2>6. Contents(db)[i] # None
    BY <2>1, <2>5, LegacyNoneAssumption DEF Ctx
  <2>7. answer' = [op |-> "update", id |-> i, status |-> "ok", value |-> merged]
    BY <1>1, <1>5, <2>2
  <2>8. Contents(db') = [Contents(db) EXCEPT ![i] = Map!Merge(Contents(db)[i], body.fields)]
        /\ answer' = [op |-> "update", id |-> i, status |-> "ok", value |-> Map!Merge(Contents(db)[i], body.fields)]
    BY <2>5, <2>7 DEF merged
  <2>9. body.fields \in Updates
    BY <2>1
  <2> HIDE DEF i, body
  <2>10. \E id \in Ids, b \in Updates : Map!Update(id, b)
    BY <1>7, <2>6, <2>8, <2>9 DEF Map!Update, Map!Answers, Contents
  <2> QED BY <2>10 DEF Map!Next
<1>6. CASE req[c].at = "del"
  <2>1. req[c].op = "delete" /\ db[i] # None /\ db[i] \in Ctx
    BY <1>2, <1>3, <1>6 DEF QuietReq
  <2>2. db' = [db EXCEPT ![i] = None]
    BY <1>1, <1>6 DEF Written
  <2>3. Contents(db') = [Contents(db) EXCEPT ![i] = None]
    BY <1>3, <2>2 DEF Contents
  <2>4. Contents(db)[i] # None
    BY <1>3, <2>1, LegacyNoneAssumption DEF Contents, Ctx
  <2>5. answer' = [op |-> "delete", id |-> i, status |-> "ok", value |-> None]
    BY <1>1, <1>6, <2>1
  <2> HIDE DEF i
  <2>6. \E id \in Ids : Map!Delete(id)
    BY <1>7, <2>3, <2>4, <2>5 DEF Map!Delete, Map!Answers, Contents
  <2> QED BY <2>6 DEF Map!Next
<1> QED BY <1>1, <1>2, <1>4, <1>5, <1>6 DEF SoundReq

\* A lone client's wait is no step of the map.
LEMMA WaitStutters ==
  ASSUME NEW c \in Clients, NEW r, Wait(c, r), db' = db, load' = load
  PROVE  UNCHANGED <<Map!vars, load>>
BY DEF Wait, Map!vars

\* Nor is an arrival, unless it is refused.
LEMMA ArrivalRefines ==
  ASSUME NEW c \in Clients, Post(c) \/ PutBody(c) \/ Ask(c)
  PROVE  (Refused /\ UNCHANGED db) \/ UNCHANGED <<Map!vars, load>>
<1>1. db' = db /\ load' = load
  BY DEF Post, PutBody, Ask
<1>2. (\E r : Wait(c, r)) \/ (\E op, i : Respond(c, op, i, "400", None))
  BY DEF Post, PutBody, Ask
<1>3. CASE \E r : Wait(c, r)
  BY <1>1, <1>3, WaitStutters
<1>4. CASE \E op, i : Respond(c, op, i, "400", None)
  BY <1>1, <1>4 DEF Respond, Refused
<1> QED BY <1>2, <1>3, <1>4

\* A lone client's command that reads is a step of the map or none.
LEMMA ReadRefines ==
  ASSUME QuietInv, Quiet, NEW c \in Clients, Read(c) \/ Keys(c) \/ Item(c) \/ Exists(c) \/ Load(c)
  PROVE  Map!Next \/ UNCHANGED <<Map!vars, load>>
<1>1. req[c] # None /\ db' = db /\ load' = load
  BY DEF Read, Keys, Item, Exists, Load, At
<1>2. QuietReq(req[c], db) /\ SoundReq(req[c], db) /\ req[c] \in Req
  BY <1>1, OnlyClient
<1>3. db \in [Ids -> Ctx \cup {None}]
  BY DEF QuietInv, Inv, TypeOK
<1>4. Contents(db') = Contents(db)
  BY <1>1
<1>5. ASSUME NEW op \in {"get", "update", "delete"}, Answer(c, "404", None), req[c].op = op,
             req[c].id \in Ids, db[req[c].id] = None
      PROVE  Map!Next
  <2>1. answer' = [op |-> op, id |-> req[c].id, status |-> "404", value |-> None]
    BY <1>5 DEF Answer, Respond
  <2>2. \E i \in Ids, o \in {"get", "update", "delete"} : Map!NotFound(o, i)
    BY <1>1, <1>5, <2>1 DEF Map!NotFound, Map!Answers
  <2> QED BY <2>2 DEF Map!Next
<1>6. ASSUME Answer(c, "ok", Contents(db)), req[c].op = "list", req[c].id = None PROVE Map!Next
  <2>1. answer' = [op |-> "list", id |-> None, status |-> "ok", value |-> Contents(db)]
    BY <1>6 DEF Answer, Respond
  <2>2. Map!List
    BY <1>1, <2>1 DEF Map!List, Map!Answers, Contents
  <2> QED BY <2>2 DEF Map!Next
<1>7. CASE Read(c)
  <2>1. req[c].op = "get" /\ req[c].id \in Ids
    BY <1>2, <1>7 DEF Read, At, QuietReq, SoundReq
  <2>2. CASE db[req[c].id] = None
    BY <1>5, <1>7, <2>1, <2>2 DEF Read
  <2>3. CASE db[req[c].id] # None
    <3>1. answer' = [op |-> "get", id |-> req[c].id, status |-> "ok", value |-> db[req[c].id].fields]
      BY <1>7, <2>1, <2>3 DEF Read, Answer, Respond
    <3>2. Contents(db)[req[c].id] = db[req[c].id].fields /\ Contents(db)[req[c].id] # None
      BY <1>3, <2>1, <2>3, LegacyNoneAssumption DEF Contents, Ctx
    <3>3. \E i \in Ids : Map!Get(i)
      BY <1>1, <2>1, <3>1, <3>2 DEF Map!Get, Map!Answers, Contents
    <3> QED BY <3>3 DEF Map!Next
  <2> QED BY <2>2, <2>3
<1>8. CASE Keys(c)
  <2> DEFINE keys == {i \in Ids : db[i] # None}
  <2>1. req[c].op = "list" /\ req[c].id = None /\ req[c].items = [j \in Ids |-> None]
    BY <1>2, <1>8 DEF Keys, At, QuietReq
  <2>2. CASE keys = {}
    <3>1. Contents(db) = [j \in Ids |-> None]
      BY <2>2 DEF Contents
    <3> QED BY <1>6, <1>8, <2>1, <2>2, <3>1 DEF Keys
  <2>3. CASE keys # {}
    BY <1>1, <1>8, <2>3, WaitStutters DEF Keys
  <2> QED BY <2>2, <2>3
<1>9. CASE Item(c)
  <2>1. /\ req[c].op = "list" /\ req[c].id = None /\ req[c].items \in [Ids -> [Fields -> Data] \cup {None}]
        /\ req[c].left \subseteq Ids
        /\ \A j \in Ids : IF j \in req[c].left THEN db[j] # None ELSE req[c].items[j] = Contents(db)[j]
    BY <1>2, <1>9 DEF Item, At, QuietReq, Req
  <2>2. PICK i \in req[c].left :
          LET items == [req[c].items EXCEPT ![i] = db[i].fields] IN
          IF db[i] = None THEN Answer(c, "500", None)
          ELSE IF req[c].left = {i} THEN Answer(c, "ok", items)
          ELSE Wait(c, [req[c] EXCEPT !.left = @ \ {i}, !.items = items])
    BY <1>9 DEF Item
  <2> DEFINE items == [req[c].items EXCEPT ![i] = db[i].fields]
  <2>3. db[i] # None
    BY <2>1
  <2>4. CASE req[c].left = {i}
    <3>1. \A j \in Ids : items[j] = Contents(db)[j]
      BY <2>1, <2>3, <2>4 DEF Contents
    <3>2. items = Contents(db)
      BY <2>1, <3>1 DEF Contents
    <3> QED BY <1>6, <2>1, <2>2, <2>3, <2>4, <3>2
  <2>5. CASE req[c].left # {i}
    BY <1>1, <2>2, <2>3, <2>5, WaitStutters
  <2> QED BY <2>4, <2>5
<1>10. CASE Exists(c)
  <2>1. req[c].op \in {"update", "delete"} /\ req[c].id \in Ids
    BY <1>2, <1>10 DEF Exists, At, SoundReq
  <2> QED BY <1>1, <1>5, <1>10, <2>1, WaitStutters DEF Exists
<1>11. CASE Load(c)
  <2>1. db[req[c].id] # None
    BY <1>2, <1>11 DEF Load, At, QuietReq
  <2> QED BY <1>1, <1>11, <2>1, WaitStutters DEF Load
<1> QED BY <1>7, <1>8, <1>9, <1>10, <1>11

\* What a lone client's request knows of Redis stays true.
LEMMA QuietInvariance == Spec => []QuietInv
<1>1. Init /\ Inv => QuietInv
  BY DEF Init, QuietInv
<1>2. QuietInv /\ [Next]_vars /\ Inv' => QuietInv'
  <2>1. QuietInv /\ Inv' /\ UNCHANGED vars => QuietInv'
    BY DEF QuietInv, Quiet, QuietReq, Contents, vars
  <2>2. ASSUME QuietInv, Inv', NEW c \in Clients,
               \/ Post(c) \/ PutBody(c) \/ Ask(c)
               \/ Read(c) \/ Keys(c) \/ Item(c) \/ Exists(c) \/ Load(c) \/ Write(c) \/ Lose(c)
        PROVE  QuietInv'
    <3>1. load' = load
      BY <2>2, StepFrame DEF QuietInv
    <3>2. Quiet' = Quiet
      BY <3>1 DEF Quiet
    <3>3. CASE ~Quiet
      BY <2>2, <3>2, <3>3 DEF QuietInv
    <3>4. CASE Quiet
      <4>1. CASE Post(c) \/ PutBody(c) \/ Ask(c)
        BY <2>2, <3>4, <4>1, QuietArrivals
      <4>2. ASSUME NEW status, NEW value, Answer(c, status, value), req[c] # None, db' = db, issued' = issued
            PROVE  QuietInv'
        BY <2>2, <3>1, <3>4, <4>2, QuietAnswers DEF Answer, Respond
      <4>3. CASE Read(c)
        BY <4>2, <4>3 DEF Read, At
      <4>4. CASE Keys(c)
        BY <2>2, <3>4, <4>2, <4>4, KeysReq, QuietProgress DEF Keys, At, QuietInv
      <4>5. CASE Item(c)
        <5>1. PICK i \in req[c].left :
                LET items == [req[c].items EXCEPT ![i] = db[i].fields] IN
                IF db[i] = None THEN Answer(c, "500", None)
                ELSE IF req[c].left = {i} THEN Answer(c, "ok", items)
                ELSE Wait(c, [req[c] EXCEPT !.left = @ \ {i}, !.items = items])
          BY <4>5 DEF Item
        <5> DEFINE r == [req[c] EXCEPT !.left = @ \ {i}, !.items = [req[c].items EXCEPT ![i] = db[i].fields]]
        <5>2. At(c, "item") /\ req[c] # None /\ db' = db /\ issued' = issued
          BY <4>5 DEF Item, At
        <5>3. CASE Wait(c, r) /\ db[i] # None
          <6>1. r \in Req
            BY <2>2, <5>2, <5>3, ItemReq DEF QuietInv
          <6> QED BY <2>2, <3>4, <4>5, <5>2, <5>3, <6>1, QuietProgress
        <5> QED BY <4>2, <5>1, <5>2, <5>3
      <4>6. CASE Exists(c)
        BY <2>2, <3>4, <4>2, <4>6, ExistsReq, QuietProgress DEF Exists, At, QuietInv
      <4>7. CASE Load(c)
        BY <2>2, <3>4, <4>2, <4>7, LoadReq, QuietProgress DEF Load, At, QuietInv
      <4>8. CASE Write(c)
        BY <2>2, <3>4, <4>8, QuietAnswers DEF Write, At
      <4>9. ~Lose(c)
        BY <3>4 DEF Lose, Quiet
      <4> QED BY <2>2, <4>1, <4>3, <4>4, <4>5, <4>6, <4>7, <4>8, <4>9
    <3> QED BY <3>3, <3>4
  <2> QED BY <2>1, <2>2 DEF Next
<1> QED BY <1>1, <1>2, Invariance, PTL DEF Spec

\* With one client, updates that keep the id and no failure, the service
\* implements the map of contexts.
THEOREM ImplementsContextMap == Spec => RefinesContextMap
<1> DEFINE A == Quiet => (Map!Next \/ (Refused /\ UNCHANGED db))
<1>1. Init => (Quiet => Map!Init)
  BY DEF Init, Map!Init
<1>2. QuietInv /\ [Next]_vars => [A]_<<Map!vars, load>>
  <2>1. UNCHANGED vars => UNCHANGED <<Map!vars, load>>
    BY DEF vars, Map!vars
  <2>2. ASSUME QuietInv, NEW c \in Clients,
               \/ Post(c) \/ PutBody(c) \/ Ask(c)
               \/ Read(c) \/ Keys(c) \/ Item(c) \/ Exists(c) \/ Load(c) \/ Write(c) \/ Lose(c),
               Quiet
        PROVE  Map!Next \/ (Refused /\ UNCHANGED db) \/ UNCHANGED <<Map!vars, load>>
    <3>1. ~Lose(c)
      BY <2>2 DEF Lose, Quiet
    <3> QED BY <2>2, <3>1, ArrivalRefines, ReadRefines, WriteRefines
  <2> QED BY <2>1, <2>2 DEF Next
<1> QED BY <1>1, <1>2, QuietInvariance, PTL DEF Spec, RefinesContextMap
=============================================================================
