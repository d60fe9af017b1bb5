----------------------------- MODULE MCStorage -----------------------------
(* Instances of StorageService: contexts with two fields of two values,    *)
(* updates that name one field each, and the workloads of each run.         *)
EXTENDS StorageService

CONSTANTS p1, p2, c1, c2, i1, i2, title, done, d1, d2

MCFields == {title, done}
MCCreates == {[f \in MCFields |-> d1]}
SetTitle == [f \in {title} |-> d2]
SetDone == [f \in {done} |-> d2]
NullTitle == [f \in {title} |-> Null]
MCUpdates == {SetTitle, SetDone, NullTitle}

Everyone(x) == [c \in Clients |-> x]
ByClient(x, y) == [c \in Clients |-> IF c = c1 THEN x ELSE y]

\* One client at a time; two clients with a context each; no backend.
Sequential ==
  [startups |-> SUBSET Backends, pods |-> {p1}, ops |-> ByClient(Operations, {}), ids |-> ByClient(Ids, {}),
   updates |-> {SetTitle, SetDone}]
Disjoint ==
  [startups |-> SUBSET Backends, pods |-> {p1}, ops |-> Everyone(Operations \ {"list"}),
   ids |-> ByClient({i1}, {i2}), updates |-> {SetTitle}]
MemoryOnly ==
  [startups |-> {{}}, pods |-> {p1}, ops |-> Everyone(Operations), ids |-> Everyone(Ids),
   updates |-> {SetTitle, SetDone}]
MCAtomic == {Sequential, Disjoint, MemoryOnly}

\* Clients that share their contexts: without updates, without deletes.
NoUpdate ==
  [startups |-> SUBSET Backends, pods |-> {p1}, ops |-> Everyone(Operations \ {"update"}),
   ids |-> Everyone({i1}), updates |-> {}]
NoDelete ==
  [startups |-> SUBSET Backends, pods |-> {p1}, ops |-> Everyone(Operations \ {"delete"}),
   ids |-> Everyone({i1}), updates |-> {SetTitle}]
MCFaulty == {NoUpdate, NoDelete}

\* Two pods over one PostgreSQL; a pod with both backends and null updates.
TwoPods ==
  [startups |-> {{"pg"}}, pods |-> Pods, ops |-> ByClient({"create", "update"}, {"get", "delete"}),
   ids |-> Everyone({i1}), updates |-> {SetTitle}]
NullUpdates ==
  [startups |-> {Backends}, pods |-> {p1}, ids |-> Everyone({i1}), updates |-> {NullTitle},
   ops |-> ByClient({"create", "update", "list"}, {"get", "delete"})]
MCShared == {TwoPods, NullUpdates}
=============================================================================
