----------------------------- MODULE ContextMap -----------------------------
(***************************************************************************)
(* What the context API of app/routers/api.py promises a client that never *)
(* looks at the backends: one map of contexts, each request taking effect  *)
(* at once and answered from the map it finds.  StorageService.tla is      *)
(* shown to implement it where it does.                                    *)
(***************************************************************************)
CONSTANTS Ids, Fields, Data, None, Creates, Updates

VARIABLES contexts,  \* the contexts that exist: [Ids -> [Fields -> Data] \cup {None}]
          answer     \* the last answer given to a client

vars == <<contexts, answer>>

Answers(op, id, status, value) ==
  answer' = [op |-> op, id |-> id, status |-> status, value |-> value]

\* exclude_unset: the fields the body names replace those of the context.
Merge(ctx, body) == [f \in Fields |-> IF f \in DOMAIN body THEN body[f] ELSE ctx[f]]

Init ==
  /\ contexts = [id \in Ids |-> None]
  /\ answer = [op |-> "none", id |-> None, status |-> "none", value |-> None]

Create(id, body) ==
  /\ contexts[id] = None
  /\ contexts' = [contexts EXCEPT ![id] = body]
  /\ Answers("create", id, "ok", body)

Get(id) ==
  /\ contexts[id] # None
  /\ Answers("get", id, "ok", contexts[id])
  /\ UNCHANGED contexts

Update(id, body) ==
  /\ contexts[id] # None
  /\ contexts' = [contexts EXCEPT ![id] = Merge(@, body)]
  /\ Answers("update", id, "ok", Merge(contexts[id], body))

Delete(id) ==
  /\ contexts[id] # None
  /\ contexts' = [contexts EXCEPT ![id] = None]
  /\ Answers("delete", id, "ok", None)

NotFound(op, id) ==
  /\ contexts[id] = None
  /\ Answers(op, id, "404", None)
  /\ UNCHANGED contexts

List ==
  /\ Answers("list", None, "ok", contexts)
  /\ UNCHANGED contexts

Next ==
  \/ \E id \in Ids, body \in Creates : Create(id, body)
  \/ \E id \in Ids, body \in Updates : Update(id, body)
  \/ \E id \in Ids : Get(id) \/ Delete(id)
  \/ \E id \in Ids, op \in {"get", "update", "delete"} : NotFound(op, id)
  \/ List

Spec == Init /\ [][Next]_vars
=============================================================================
