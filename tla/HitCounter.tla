----------------------------- MODULE HitCounter -----------------------------
(***************************************************************************)
(* GET /api/count of app/routers/api.py over redis_op_with_retry of        *)
(* app/services/redis_client.py: a request first reads the key "hits" to   *)
(* warm the connection and then increments it, each with its retries; the  *)
(* requests of all pods share the one key.  INCR is atomic in Redis, but   *)
(* an INCR whose reply is lost has happened, and is sent again.            *)
(***************************************************************************)
EXTENDS Naturals, FiniteSets

CONSTANTS Clients, None,
          RetryAttempts,   \* settings.redis_retry_attempts
          Available,       \* is_redis_available(), decided at startup
          MaxRequests, MaxLost, MaxFlaps  \* bounds on a behaviour

ASSUME RetryAssumption == RetryAttempts \in Nat \ {0}
ASSUME AvailableAssumption == Available \in BOOLEAN
ASSUME NoneAssumption == None \notin Nat /\ IsFiniteSet(Clients)

VARIABLES
  hits,    \* the value under "hits", 0 when there is none
  up,      \* whether Redis can be reached
  req,     \* req[c]: the phase of c's request, its failed attempts, its value
  given,   \* the counters answered so far
  last,    \* the counter of the last answer, None after an error
  started, \* how many requests have begun
  lost,    \* how many INCRs took effect and had their reply lost
  flaps    \* how often Redis became reachable or unreachable

vars == <<hits, up, req, given, last, started, lost, flaps>>

Idle == [phase |-> "idle", tries |-> 0, value |-> None]

Init ==
  /\ hits = 0 /\ up \in BOOLEAN
  /\ req = [c \in Clients |-> Idle]
  /\ given = {} /\ last = 0
  /\ started = 0 /\ lost = 0 /\ flaps = 0

Step(c, r) == req' = [req EXCEPT ![c] = r]

\* Mutants: one attempt too many; attempts without an end.
FailedOnceMore(r, after) ==
  IF r.tries < RetryAttempts THEN [r EXCEPT !.tries = @ + 1]
  ELSE [r EXCEPT !.tries = 0, !.phase = after]

FailedForever(r, after) ==
  IF r.tries + 1 < RetryAttempts THEN [r EXCEPT !.tries = @ + 1] ELSE [r EXCEPT !.tries = 0]

\* A failed attempt: the next one, or None after the last.
Failed(r, after) ==
  IF r.tries + 1 < RetryAttempts THEN [r EXCEPT !.tries = @ + 1]
  ELSE [r EXCEPT !.tries = 0, !.phase = after]

\* redis_get and redis_incr return None at once when Redis is not available.
Begin(c) ==
  /\ req[c].phase = "idle"
  /\ started < MaxRequests
  /\ started' = started + 1
  /\ Step(c, [Idle EXCEPT !.phase = IF Available THEN "touch" ELSE "answer"])
  /\ UNCHANGED <<hits, up, given, last, lost, flaps>>

\* The warm-up read: what it returns, a value or None, is not used.
Touch(c) ==
  /\ req[c].phase = "touch"
  /\ \/ up /\ Step(c, [req[c] EXCEPT !.phase = "incr", !.tries = 0])
     \/ ~up /\ Step(c, Failed(req[c], "incr"))
  /\ UNCHANGED <<hits, up, given, last, started, lost, flaps>>

\* Mutant: a retry that reads the counter back, so as not to count twice.
IncrOnceThenRead(c) ==
  /\ req[c].phase = "incr"
  /\ LET after == IF req[c].tries = 0 THEN hits + 1 ELSE hits IN
     \/ /\ up
        /\ hits' = after
        /\ Step(c, [req[c] EXCEPT !.phase = "answer", !.value = after])
        /\ UNCHANGED lost
     \/ /\ up /\ lost < MaxLost
        /\ hits' = after
        /\ lost' = lost + 1
        /\ Step(c, Failed(req[c], "answer"))
  /\ UNCHANGED <<up, given, last, started, flaps>>

\* The INCR: done and answered; done with its reply lost; or not done.
Incr(c) ==
  /\ req[c].phase = "incr"
  /\ \/ /\ up
        /\ hits' = hits + 1
        /\ Step(c, [req[c] EXCEPT !.phase = "answer", !.value = hits + 1])
        /\ UNCHANGED lost
     \/ /\ up /\ lost < MaxLost
        /\ hits' = hits + 1
        /\ lost' = lost + 1
        /\ Step(c, Failed(req[c], "answer"))
     \/ /\ ~up
        /\ Step(c, Failed(req[c], "answer"))
        /\ UNCHANGED <<hits, lost>>
  /\ UNCHANGED <<up, given, last, started, flaps>>

Answer(c) ==
  /\ req[c].phase = "answer"
  /\ Step(c, Idle)
  /\ given' = given \cup ({req[c].value} \ {None})
  /\ last' = req[c].value
  /\ UNCHANGED <<hits, up, started, lost, flaps>>

Flap ==
  /\ flaps < MaxFlaps
  /\ flaps' = flaps + 1
  /\ up' = ~up
  /\ UNCHANGED <<hits, req, given, last, started, lost>>

Progress(c) == Touch(c) \/ Incr(c) \/ Answer(c)

Next ==
  \/ \E c \in Clients : Begin(c) \/ Progress(c)
  \/ Flap

Spec == Init /\ [][Next]_vars
FairSpec == Spec /\ \A c \in Clients : WF_vars(Progress(c))
-----------------------------------------------------------------------------
Request ==
  [phase : {"idle", "touch", "incr", "answer"}, tries : 0 .. RetryAttempts - 1, value : Nat \cup {None}]

TypeOK ==
  /\ hits \in Nat /\ up \in BOOLEAN
  /\ req \in [Clients -> Request]
  /\ given \in SUBSET Nat /\ last \in Nat \cup {None}
  /\ started \in Nat /\ lost \in Nat /\ flaps \in Nat

\* The requests that hold a counter they have still to answer with.
Holders == {c \in Clients : req[c].value # None}

\* No two requests are answered with the same counter, whatever is retried.
DistinctCounters ==
  /\ \A c \in Holders : req[c].value \notin given
  /\ \A c, d \in Holders : c # d => req[c].value # req[d].value

\* Every INCR is accounted for: the counter is the number of answers given,
\* plus those on their way, plus one for each reply that was lost.
Accounted == hits = Cardinality(given) + Cardinality(Holders) + lost

\* Every request is answered, with a counter or with an error.
Answered == \A c \in Clients : (req[c].phase # "idle") ~> (req[c].phase = "idle")

\* "the returned counter still advances by exactly one per request": when
\* requests come one at a time, each counter is the one before it plus one.
ExactlyOnePerRequest ==
  [][given' # given /\ last # None => last' = last + 1]_vars
=============================================================================
