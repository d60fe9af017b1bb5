--------------------------- MODULE LegacyContexts ---------------------------
(***************************************************************************)
(* The context API of the legacy Flask service: the routes of              *)
(* docker/src/app/main.py over docker/src/app/business.py.  It has no      *)
(* cache and no transaction: a request is a few Redis commands, and        *)
(* app.run() serves each request in a thread of its own, so requests       *)
(* interleave between any two commands.                                    *)
(*                                                                         *)
(* A body is taken as it comes: the fields of an update replace those of   *)
(* the context, its "id" included, and the result is stored under the id   *)
(* it then has.  Bodies that are not JSON objects are left out.            *)
(***************************************************************************)
EXTENDS Naturals

CONSTANTS
  Clients, None,
  Uuids,      \* what uuid4() may return
  Names,      \* other ids that a client may put into a body
  Fields, Data,
  Creates,    \* the bodies of POST: [Fields -> Data], or None for one without a title
  Updates,    \* the bodies of PUT, the id aside: the fields set
  Workloads,  \* what a behaviour may consist of: the clients at work, the uuids
              \* they may get, the updates they send and the ids these may
              \* name, and whether Redis calls fail
  MaxLost     \* bound on those failures

Ids == Uuids \cup Names
Operations == {"create", "get", "update", "delete", "list"}
Fieldless == [f \in {} |-> None]
Ctx == [id : Ids, fields : [Fields -> Data]]
Body == [id : Ids \cup {None}, fields : UNION {[S -> Data] : S \in SUBSET Fields}]

Places == {"read", "keys", "item", "exists", "get", "set", "del"}
Req == [op : Operations, id : Ids \cup {None}, body : Body \cup {None}, at : Places,
        left : SUBSET Ids, items : [Ids -> [Fields -> Data] \cup {None}],
        new : Ctx \cup {None}, gone : SUBSET Ids]

ASSUME LegacyNoneAssumption == None \notin Ctx \cup Ids \cup Body \cup [Fields -> Data] \cup Req
ASSUME LegacyBodiesAssumption ==
  /\ Creates \subseteq [Fields -> Data] \cup {None}
  /\ Updates \subseteq UNION {[S -> Data] : S \in SUBSET Fields}
ASSUME LegacyWorkloadsAssumption ==
  Workloads \subseteq [clients : SUBSET Clients, uuids : SUBSET Uuids, updates : SUBSET Updates,
                       named : SUBSET Ids, faulty : BOOLEAN]
ASSUME LegacyLostAssumption == MaxLost \in Nat

VARIABLES
  db,      \* db[i]: the value of the key context:i, or None
  req,     \* req[c]: the request client c waits for, or None
  answer,  \* the last answer given
  issued,  \* the ids that uuid4() has returned
  lost,    \* how many Redis calls have failed
  load     \* the workload of this behaviour

vars == <<db, req, answer, issued, lost, load>>

\* A request: at is its next Redis command; left and items, the keys a
\* listing has still to read and what it has read; new, the context to store.
\* gone, kept for the properties only: the keys deleted since it began.
NewReq(op, i, body, at) ==
  [op |-> op, id |-> i, body |-> body, at |-> at, left |-> {},
   items |-> [j \in Ids |-> None], new |-> None, gone |-> {}]

At(c, here) == req[c] # None /\ req[c].at = here
Wait(c, r) == req' = [req EXCEPT ![c] = r] /\ UNCHANGED answer

Respond(c, op, i, status, value) ==
  /\ req' = [req EXCEPT ![c] = None]
  /\ answer' = [op |-> op, id |-> i, status |-> status, value |-> value]

Answer(c, status, value) == Respond(c, req[c].op, req[c].id, status, value)

Init ==
  /\ db = [i \in Ids |-> None]
  /\ req = [c \in Clients |-> None]
  /\ answer = [op |-> "none", id |-> None, status |-> "none", value |-> None]
  /\ issued = {} /\ lost = 0
  /\ load \in Workloads

Idle(c) == c \in load.clients /\ req[c] = None

\* POST: a body without a title is refused, another gets a new id.
Post(c) ==
  /\ Idle(c)
  /\ \E body \in Creates :
       \/ body = None /\ Respond(c, "create", None, "400", None) /\ UNCHANGED issued
       \/ body # None /\ \E i \in load.uuids \ issued :
            /\ issued' = issued \cup {i}
            /\ Wait(c, [NewReq("create", i, [id |-> None, fields |-> body], "set")
                          EXCEPT !.new = [id |-> i, fields |-> body]])
  /\ UNCHANGED <<db, lost, load>>

\* PUT: an empty body is refused; it may name ids that clients know of.
PutBody(c) ==
  /\ Idle(c)
  /\ \E i \in issued \cup Names, n \in {None} \cup (load.named \cap (issued \cup Names)), u \in load.updates :
       IF n = None /\ u = Fieldless THEN Respond(c, "update", i, "400", None)
       ELSE Wait(c, NewReq("update", i, [id |-> n, fields |-> u], "exists"))
  /\ UNCHANGED <<db, issued, lost, load>>

\* GET of one context, DELETE, and GET of them all.
Ask(c) ==
  /\ Idle(c)
  /\ \/ \E i \in issued \cup Names :
          \/ Wait(c, NewReq("get", i, None, "read"))
          \/ Wait(c, NewReq("delete", i, None, "exists"))
     \/ Wait(c, NewReq("list", None, None, "keys"))
  /\ UNCHANGED <<db, issued, lost, load>>

\* get_context_by_id.
Read(c) ==
  /\ At(c, "read")
  /\ LET ctx == db[req[c].id] IN
     IF ctx = None THEN Answer(c, "404", None) ELSE Answer(c, "ok", ctx.fields)
  /\ UNCHANGED <<db, issued, lost, load>>

\* get_all_contexts: the keys ...
Keys(c) ==
  /\ At(c, "keys")
  /\ LET keys == {i \in Ids : db[i] # None} IN
     IF keys = {} THEN Answer(c, "ok", req[c].items)
     ELSE Wait(c, [req[c] EXCEPT !.at = "item", !.left = keys])
  /\ UNCHANGED <<db, issued, lost, load>>

\* ... then their values one by one; json.loads(None) raises on a key that is gone.
Item(c) ==
  /\ At(c, "item")
  /\ \E i \in req[c].left :
       LET items == [req[c].items EXCEPT ![i] = db[i].fields] IN
       IF db[i] = None THEN Answer(c, "500", None)
       ELSE IF req[c].left = {i} THEN Answer(c, "ok", items)
       ELSE Wait(c, [req[c] EXCEPT !.left = @ \ {i}, !.items = items])
  /\ UNCHANGED <<db, issued, lost, load>>

\* Mutant: the body replaces the context.
UpdatedReplaces(ctx, body) ==
  [id |-> ctx.id, fields |-> [f \in Fields |-> IF f \in DOMAIN body.fields THEN body.fields[f] ELSE CHOOSE d \in Data : TRUE]]

\* context.update(data).  An id that the body has, null or not a string, is the
\* identifier that its text spells in the key it is stored under.
Updated(ctx, body) ==
  [id |-> IF body.id = None THEN ctx.id ELSE body.id,
   fields |-> [f \in Fields |-> IF f \in DOMAIN body.fields THEN body.fields[f] ELSE ctx.fields[f]]]

\* Mutant: the existence of the context is not checked.
ExistsUnchecked(c) ==
  /\ At(c, "exists")
  /\ Wait(c, [req[c] EXCEPT !.at = IF req[c].op = "update" THEN "get" ELSE "del"])
  /\ UNCHANGED <<db, issued, lost, load>>

\* Mutant: an update of a context that does not exist creates it.
ExistsOrCreates(c) ==
  /\ At(c, "exists")
  /\ LET r == req[c]
         blank == [id |-> r.id, fields |-> [f \in Fields |-> CHOOSE d \in Data : TRUE]] IN
     IF r.op = "update" THEN Wait(c, [r EXCEPT !.at = "set", !.new = Updated(blank, r.body)])
     ELSE Wait(c, [r EXCEPT !.at = "del"])
  /\ UNCHANGED <<db, issued, lost, load>>

\* The first command of update_existing_context and delete_context_by_id.
Exists(c) ==
  /\ At(c, "exists")
  /\ IF db[req[c].id] = None THEN Answer(c, "404", None)
     ELSE Wait(c, [req[c] EXCEPT !.at = IF req[c].op = "update" THEN "get" ELSE "del"])
  /\ UNCHANGED <<db, issued, lost, load>>

\* update_existing_context reads the context, which may be gone by now.
Load(c) ==
  /\ At(c, "get")
  /\ LET r == req[c] IN
     IF db[r.id] = None THEN Answer(c, "500", None)
     ELSE Wait(c, [r EXCEPT !.at = "set", !.new = Updated(db[r.id], r.body)])
  /\ UNCHANGED <<db, issued, lost, load>>

\* Mutant: the result of an update is stored under the id of the path.
WrittenUnderPath(c) ==
  LET r == req[c] IN
  CASE r.at = "set" -> [db EXCEPT ![r.id] = r.new]
    [] r.at = "del" -> [db EXCEPT ![r.id] = None]
    [] OTHER -> db

\* The keys after the next command of c: SET under the id that the context
\* has, DEL of the id of the path, or a command that reads.
Written(c) ==
  LET r == req[c] IN
  CASE r.at = "set" -> [db EXCEPT ![r.new.id] = r.new]
    [] r.at = "del" -> [db EXCEPT ![r.id] = None]
    [] OTHER -> db

\* The requests once keys are deleted; kept for the properties.
Deleting(rs, keys) ==
  [c \in Clients |-> IF rs[c] = None THEN None ELSE [rs[c] EXCEPT !.gone = @ \cup keys]]

Deleted(after) == {i \in Ids : db[i] # None /\ after[i] = None}

\* A command that writes, and the answer; the DEL of a key that is gone is no error.
Write(c) ==
  /\ At(c, "set") \/ At(c, "del")
  /\ LET r == req[c] IN
     /\ db' = Written(c)
     /\ req' = Deleting([req EXCEPT ![c] = None], Deleted(db'))
     /\ answer' = [op |-> r.op, id |-> r.id, status |-> "ok",
                   value |-> IF r.at = "set" THEN r.new.fields ELSE None]
  /\ UNCHANGED <<issued, lost, load>>

\* A command fails in this service's client, whether Redis has done it or not.
Lose(c) ==
  /\ load.faulty /\ lost < MaxLost
  /\ req[c] # None
  /\ db' \in {db, Written(c)}
  /\ req' = Deleting([req EXCEPT ![c] = None], Deleted(db'))
  /\ answer' = [op |-> req[c].op, id |-> req[c].id, status |-> "500", value |-> None]
  /\ lost' = lost + 1
  /\ UNCHANGED <<issued, load>>

Next ==
  \E c \in Clients :
    \/ Post(c) \/ PutBody(c) \/ Ask(c)
    \/ Read(c) \/ Keys(c) \/ Item(c) \/ Exists(c) \/ Load(c) \/ Write(c) \/ Lose(c)

Spec == Init /\ [][Next]_vars
-----------------------------------------------------------------------------
\* Besides the types: what a key holds has the id of that key, although an
\* update may change the id.
TypeOK ==
  /\ db \in [Ids -> Ctx \cup {None}]
  /\ \A i \in Ids : db[i] # None => db[i].id = i
  /\ req \in [Clients -> Req \cup {None}]
  /\ issued \subseteq Uuids
  /\ lost \in 0 .. MaxLost
  /\ load \in Workloads

\* Requests fail only in a race: with Redis at hand, one is answered 500 only
\* when a context it was to read has been deleted since it began, and that
\* holds for a listing of every other context as well.
OnlyRacesFail ==
  [][\A c \in Clients :
       (req[c] # None /\ req'[c] = None /\ answer'.status = "500" /\ lost' = lost) =>
         (req[c].left \cup {req[c].id}) \cap req[c].gone # {}]_vars

\* A context appears only when it is created, when an update names its id in
\* its body, or when an update of it was on its way when it was deleted.
AppearsOnlyBy ==
  [][\A i \in Ids : (db[i] = None /\ db'[i] # None) =>
       \E c \in Clients :
         /\ At(c, "set") /\ req[c].new.id = i
         /\ \/ req[c].op = "create" \/ req[c].body.id = i
            \/ req[c].op = "update" /\ i \in req[c].gone]_vars

\* With one client, updates that keep the id and no failure, the service is
\* the map of contexts of ContextMap.tla.
Map == INSTANCE ContextMap WITH
         contexts <- [i \in Ids |-> IF db[i] = None THEN None ELSE db[i].fields],
         Creates <- Creates \ {None}

Quiet == (\E c \in Clients : load.clients = {c}) /\ load.named = {} /\ ~load.faulty

Refused == answer'.status = "400"

RefinesContextMap ==
  (Quiet => Map!Init) /\ [][Quiet => (Map!Next \/ (Refused /\ UNCHANGED db))]_<<Map!vars, load>>
=============================================================================
