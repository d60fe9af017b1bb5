-------------------------- MODULE HitCounterProofs --------------------------
(***************************************************************************)
(* TLAPS proofs about HitCounter.tla, for any number of clients, attempts, *)
(* lost replies and outages.                                               *)
(***************************************************************************)
EXTENDS HitCounter, FiniteSetTheorems, TLAPS

\* The inductive invariant: counters already answered or about to be were
\* once the value of the key, and only an answered INCR leaves one behind.
Bounded ==
  /\ IsFiniteSet(given)
  /\ \A n \in given : n <= hits
  /\ \A c \in Holders : req[c].phase = "answer" /\ req[c].value <= hits

Inv == TypeOK /\ Bounded /\ DistinctCounters /\ Accounted

\* A failed attempt leaves a request, without touching its value.
LEMMA FailedType ==
  ASSUME NEW r \in Request, NEW after \in {"incr", "answer"}
  PROVE  /\ Failed(r, after) \in Request
         /\ Failed(r, after).value = r.value
<1>1. CASE r.tries + 1 < RetryAttempts
  <2>1. r.tries + 1 \in 0 .. RetryAttempts - 1
    BY <1>1, RetryAssumption DEF Request
  <2> QED BY <1>1, <2>1 DEF Failed, Request
<1>2. CASE ~(r.tries + 1 < RetryAttempts)
  <2>1. 0 \in 0 .. RetryAttempts - 1
    BY RetryAssumption
  <2> QED BY <1>2, <2>1 DEF Failed, Request
<1> QED BY <1>1, <1>2

\* The idle request is one.
LEMMA IdleType == Idle \in Request /\ Idle.value = None
BY RetryAssumption DEF Idle, Request

\* A request whose warm-up read was answered.
LEMMA TouchedType ==
  ASSUME NEW r \in Request
  PROVE  /\ [r EXCEPT !.phase = "incr", !.tries = 0] \in Request
         /\ [r EXCEPT !.phase = "incr", !.tries = 0].value = r.value
<1>1. 0 \in 0 .. RetryAttempts - 1
  BY RetryAssumption
<1> QED BY <1>1 DEF Request

\* A request whose INCR was answered.
LEMMA CountedType ==
  ASSUME NEW r \in Request, NEW n \in Nat
  PROVE  /\ [r EXCEPT !.phase = "answer", !.value = n] \in Request
         /\ [r EXCEPT !.phase = "answer", !.value = n].value = n
         /\ [r EXCEPT !.phase = "answer", !.value = n].phase = "answer"
BY DEF Request

\* A step of c changes c's request only.
LEMMA StepType ==
  ASSUME req \in [Clients -> Request], NEW c \in Clients, NEW r \in Request, Step(c, r)
  PROVE  /\ req' \in [Clients -> Request]
         /\ req'[c] = r
         /\ \A d \in Clients \ {c} : req'[d] = req[d]
BY DEF Step

\* A step that leaves c's value alone changes neither who holds a counter
\* nor which.
LEMMA SameHolders ==
  ASSUME req \in [Clients -> Request], NEW c \in Clients, NEW r \in Request, Step(c, r),
         r.value = req[c].value
  PROVE  Holders' = Holders /\ \A d \in Clients : req'[d].value = req[d].value
BY StepType DEF Holders

\* Every variable keeps its type.
THEOREM TypeCorrect == Spec => []TypeOK
<1>1. Init => TypeOK
  BY IdleType DEF Init, TypeOK
<1>2. TypeOK /\ [Next]_vars => TypeOK'
  <2> SUFFICES ASSUME TypeOK, [Next]_vars PROVE TypeOK'
    OBVIOUS
  <2>1. ASSUME NEW c \in Clients, Begin(c) PROVE TypeOK'
    <3>1. [Idle EXCEPT !.phase = IF Available THEN "touch" ELSE "answer"] \in Request
      BY IdleType DEF Request
    <3> QED BY <2>1, <3>1, StepType DEF Begin, TypeOK
  <2>2. ASSUME NEW c \in Clients, Touch(c) PROVE TypeOK'
    <3>1. req[c] \in Request /\ Failed(req[c], "incr") \in Request
      BY FailedType DEF TypeOK
    <3>2. [req[c] EXCEPT !.phase = "incr", !.tries = 0] \in Request
      BY <3>1, TouchedType
    <3> QED BY <2>2, <3>1, <3>2, StepType DEF Touch, TypeOK
  <2>3. ASSUME NEW c \in Clients, Incr(c) PROVE TypeOK'
    <3>1. req[c] \in Request /\ Failed(req[c], "answer") \in Request
      BY FailedType DEF TypeOK
    <3>2. [req[c] EXCEPT !.phase = "answer", !.value = hits + 1] \in Request
      <4>1. hits + 1 \in Nat
        BY DEF TypeOK
      <4> QED BY <3>1, <4>1, CountedType
    <3>3. req' \in [Clients -> Request]
      BY <2>3, <3>1, <3>2, StepType DEF Incr, TypeOK
    <3>4. hits' \in Nat /\ lost' \in Nat
      BY <2>3 DEF Incr, TypeOK
    <3> QED BY <2>3, <3>3, <3>4 DEF Incr, TypeOK
  <2>4. ASSUME NEW c \in Clients, Answer(c) PROVE TypeOK'
    <3>1. req[c].value \in Nat \cup {None}
      BY DEF TypeOK, Request
    <3> QED BY <2>4, <3>1, IdleType, StepType DEF Answer, TypeOK
  <2>5. CASE Flap
    BY <2>5 DEF Flap, TypeOK
  <2>6. CASE UNCHANGED vars
    BY <2>6 DEF vars, TypeOK
  <2> QED BY <2>1, <2>2, <2>3, <2>4, <2>5, <2>6 DEF Next, Progress
<1> QED BY <1>1, <1>2, PTL DEF Spec

\* The three facts hold of a step that moves no counter.
LEMMA NothingMoves ==
  ASSUME Inv, UNCHANGED <<hits, given, lost>>, Holders' = Holders,
         \A d \in Holders : req'[d].value = req[d].value /\ req'[d].phase = "answer"
  PROVE  (Bounded /\ DistinctCounters /\ Accounted)'
BY DEF Inv, Bounded, DistinctCounters, Accounted

\* An INCR whose reply arrives gives c a counter that nobody has.
LEMMA IncrAnswered ==
  ASSUME Inv, NEW c \in Clients, req[c].phase = "incr", hits' = hits + 1,
         Step(c, [req[c] EXCEPT !.phase = "answer", !.value = hits + 1]),
         UNCHANGED <<given, lost>>
  PROVE  (Bounded /\ DistinctCounters /\ Accounted)'
<1>1. hits \in Nat /\ lost \in Nat /\ req \in [Clients -> Request] /\ req[c] \in Request
  BY DEF Inv, TypeOK
<1>2. /\ req'[c].value = hits + 1 /\ req'[c].phase = "answer"
      /\ \A d \in Clients \ {c} : req'[d] = req[d]
  BY <1>1 DEF Step, Request
<1>3. c \notin Holders /\ Holders' = Holders \cup {c}
  BY <1>1, <1>2, NoneAssumption DEF Holders, Inv, Bounded
<1>4. \A n \in given : n \in Nat /\ n <= hits
  BY DEF Inv, Bounded, TypeOK
<1>5. \A d \in Holders : d # c /\ req[d].value \in Nat /\ req[d].value <= hits
  BY <1>1, <1>3 DEF Inv, Bounded, Holders, Request
<1>6. Bounded'
  <2>1. IsFiniteSet(given')
    BY DEF Inv, Bounded
  <2>2. \A n \in given' : n <= hits'
    BY <1>1, <1>4
  <2>3. ASSUME NEW d \in Holders' PROVE req'[d].phase = "answer" /\ req'[d].value <= hits'
    <3>1. CASE d = c
      BY <1>1, <1>2, <3>1
    <3>2. CASE d \in Holders
      <4>1. req'[d] = req[d]
        BY <1>2, <1>5, <3>2 DEF Holders
      <4>2. req[d].phase = "answer" /\ req[d].value \in Nat /\ req[d].value <= hits
        BY <1>5, <3>2 DEF Inv, Bounded
      <4> QED BY <1>1, <4>1, <4>2
    <3> QED BY <1>3, <2>3, <3>1, <3>2
  <2> QED BY <2>1, <2>2, <2>3 DEF Bounded
<1>7. DistinctCounters'
  <2>1. \A d \in Holders : d # c /\ d \in Clients /\ req'[d] = req[d]
    BY <1>2, <1>5 DEF Holders
  <2>2. \A d \in Holders : req'[d].value \notin given' /\ req'[d].value # req'[c].value
    <3> TAKE d \in Holders
    <3>1. req'[d] = req[d] /\ req[d].value \notin given
      BY <2>1 DEF Inv, DistinctCounters
    <3>2. req[d].value \in Nat /\ req[d].value <= hits /\ req'[c].value = hits + 1
      BY <1>2, <1>5
    <3> QED BY <1>1, <3>1, <3>2
  <2>3. req'[c].value \notin given'
    BY <1>1, <1>2, <1>4
  <2>4. \A d, e \in Holders : d # e => req'[d].value # req'[e].value
    BY <2>1 DEF Inv, DistinctCounters
  <2> QED BY <1>3, <2>2, <2>3, <2>4 DEF DistinctCounters
<1>8. Accounted'
  <2>1. IsFiniteSet(Holders)
    BY NoneAssumption, FS_Subset DEF Holders
  <2>2. Cardinality(Holders') = Cardinality(Holders) + 1
    BY <1>3, <2>1, FS_AddElement
  <2>3. Cardinality(Holders) \in Nat /\ Cardinality(given) \in Nat
    BY <2>1, FS_CardinalityType DEF Inv, Bounded
  <2> QED BY <1>1, <2>2, <2>3 DEF Inv, Accounted
<1> QED BY <1>6, <1>7, <1>8

\* An INCR whose reply is lost raises the counter and is counted as lost.
LEMMA IncrLost ==
  ASSUME Inv, NEW c \in Clients, hits' = hits + 1, lost' = lost + 1,
         Step(c, Failed(req[c], "answer")), req[c].phase = "incr", UNCHANGED given
  PROVE  (Bounded /\ DistinctCounters /\ Accounted)'
<1>1. hits \in Nat /\ lost \in Nat /\ req \in [Clients -> Request] /\ req[c] \in Request
  BY DEF Inv, TypeOK
<1>2. Failed(req[c], "answer") \in Request /\ Failed(req[c], "answer").value = req[c].value
  BY <1>1, FailedType
<1>3. Holders' = Holders /\ \A d \in Clients : req'[d].value = req[d].value
  BY <1>1, <1>2, SameHolders
<1>4. c \notin Holders
  BY DEF Inv, Bounded
<1>5. \A d \in Holders : req'[d] = req[d]
  BY <1>1, <1>2, <1>4, StepType DEF Holders
<1>6. \A n \in given : n \in Nat /\ n <= hits
  BY DEF Inv, Bounded, TypeOK
<1>7. \A d \in Holders : req[d].value \in Nat /\ req[d].value <= hits
  BY <1>1 DEF Inv, Bounded, Holders, Request
<1>8. Bounded'
  BY <1>1, <1>3, <1>5, <1>6, <1>7 DEF Inv, Bounded
<1>9. DistinctCounters'
  BY <1>3, <1>5 DEF Inv, DistinctCounters
<1>10. Accounted'
  <2>1. IsFiniteSet(Holders)
    BY NoneAssumption, FS_Subset DEF Holders
  <2>2. Cardinality(Holders) \in Nat /\ Cardinality(given) \in Nat
    BY <2>1, FS_CardinalityType DEF Inv, Bounded
  <2> QED BY <1>1, <1>3, <2>2 DEF Inv, Accounted
<1> QED BY <1>8, <1>9, <1>10

\* An answer moves c's counter, if it has one, from the holders to given.
LEMMA AnswerMoves ==
  ASSUME Inv, NEW c \in Clients, Answer(c)
  PROVE  (Bounded /\ DistinctCounters /\ Accounted)'
<1>1. hits \in Nat /\ lost \in Nat /\ req \in [Clients -> Request] /\ req[c] \in Request
  BY DEF Inv, TypeOK
<1>2. req'[c] = Idle /\ \A d \in Clients \ {c} : req'[d] = req[d]
  BY <1>1, IdleType, StepType DEF Answer
<1>3. Holders' = Holders \ {c}
  BY <1>1, <1>2, IdleType DEF Holders
<1>4. given' = given \cup ({req[c].value} \ {None}) /\ hits' = hits /\ lost' = lost
  BY DEF Answer
<1>5. IsFiniteSet(Holders) /\ IsFiniteSet(given)
  BY NoneAssumption, FS_Subset DEF Holders, Inv, Bounded
<1>6. /\ Cardinality(Holders) \in Nat /\ Cardinality(given) \in Nat
      /\ Cardinality(Holders \ {c}) \in Nat
  BY <1>5, FS_CardinalityType, FS_RemoveElement
<1>7. CASE req[c].value = None
  <2>1. given' = given /\ Holders' = Holders
    BY <1>3, <1>4, <1>7 DEF Holders
  <2>2. \A d \in Holders : req'[d] = req[d]
    BY <1>2, <1>7 DEF Holders
  <2>3. \A d \in Holders : req[d].phase = "answer"
    BY DEF Inv, Bounded
  <2> QED BY <1>4, <2>1, <2>2, <2>3, NothingMoves
<1>8. CASE req[c].value # None
  <2>1. c \in Holders /\ given' = given \cup {req[c].value} /\ req[c].value \notin given
    BY <1>4, <1>8 DEF Holders, Inv, DistinctCounters
  <2>2. \A d \in Holders' : d \in Holders /\ d # c /\ req'[d] = req[d]
    BY <1>2, <1>3 DEF Holders
  <2>3. Bounded'
    BY <1>4, <1>5, <2>1, <2>2, FS_AddElement DEF Inv, Bounded
  <2>4. DistinctCounters'
    BY <2>1, <2>2 DEF Inv, DistinctCounters
  <2>5. Accounted'
    <3>1. Cardinality(given') = Cardinality(given) + 1
      BY <1>5, <2>1, FS_AddElement
    <3>2. Cardinality(Holders') = Cardinality(Holders) - 1
      BY <1>3, <1>5, <2>1, FS_RemoveElement
    <3> QED BY <1>1, <1>4, <1>6, <3>1, <3>2 DEF Inv, Accounted
  <2> QED BY <2>3, <2>4, <2>5
<1> QED BY <1>7, <1>8

\* The invariant is inductive.
THEOREM InvHolds == Spec => []Inv
<1>1. Init => Inv
  <2> SUFFICES ASSUME Init PROVE Inv
    OBVIOUS
  <2>1. TypeOK
    BY IdleType DEF Init, TypeOK
  <2>2. Holders = {} /\ given = {} /\ hits = 0 /\ lost = 0
    BY IdleType DEF Init, Holders
  <2> QED BY <2>1, <2>2, FS_EmptySet DEF Inv, Bounded, DistinctCounters, Accounted
<1>2. Inv /\ TypeOK' /\ [Next]_vars => Inv'
  <2> SUFFICES ASSUME Inv, [Next]_vars PROVE (Bounded /\ DistinctCounters /\ Accounted)'
    BY DEF Inv
  <2>0. req \in [Clients -> Request] /\ \A d \in Holders : req[d].phase = "answer"
    BY DEF Inv, TypeOK, Bounded
  <2>1. ASSUME NEW c \in Clients, Begin(c) PROVE (Bounded /\ DistinctCounters /\ Accounted)'
    <3> DEFINE r == [Idle EXCEPT !.phase = IF Available THEN "touch" ELSE "answer"]
    <3>1. r \in Request /\ r.value = None
      BY IdleType DEF Request
    <3>2. c \notin Holders
      BY <2>0, <2>1 DEF Begin
    <3>3. req[c].value = None
      BY <3>2 DEF Holders
    <3>4. Step(c, r) /\ UNCHANGED <<hits, given, lost>>
      BY <2>1 DEF Begin
    <3> HIDE DEF r
    <3>5. Holders' = Holders /\ \A d \in Holders : req'[d] = req[d]
      BY <2>0, <3>1, <3>2, <3>3, <3>4, SameHolders, StepType DEF Holders
    <3> QED BY <2>0, <3>4, <3>5, NothingMoves
  <2>2. ASSUME NEW c \in Clients, Touch(c) PROVE (Bounded /\ DistinctCounters /\ Accounted)'
    <3>1. PICK r \in Request : Step(c, r) /\ r.value = req[c].value
      <4>1. CASE up /\ Step(c, [req[c] EXCEPT !.phase = "incr", !.tries = 0])
        <5>1. /\ [req[c] EXCEPT !.phase = "incr", !.tries = 0] \in Request
              /\ [req[c] EXCEPT !.phase = "incr", !.tries = 0].value = req[c].value
          BY <2>0, TouchedType
        <5> QED BY <4>1, <5>1
      <4>2. CASE ~up /\ Step(c, Failed(req[c], "incr"))
        BY <2>0, <4>2, FailedType
      <4> QED BY <2>2, <4>1, <4>2 DEF Touch
    <3>2. c \notin Holders
      BY <2>0, <2>2 DEF Touch
    <3>3. Holders' = Holders /\ \A d \in Holders : req'[d] = req[d]
      BY <2>0, <3>1, <3>2, SameHolders, StepType DEF Holders
    <3>4. UNCHANGED <<hits, given, lost>>
      BY <2>2 DEF Touch
    <3> QED BY <2>0, <3>3, <3>4, NothingMoves
  <2>3. ASSUME NEW c \in Clients, Incr(c) PROVE (Bounded /\ DistinctCounters /\ Accounted)'
    <3>1. CASE ~up /\ Step(c, Failed(req[c], "answer")) /\ UNCHANGED <<hits, lost>>
      <4>1. Failed(req[c], "answer") \in Request /\ Failed(req[c], "answer").value = req[c].value
        BY <2>0, FailedType
      <4>2. c \notin Holders
        BY <2>0, <2>3 DEF Incr
      <4>3. Holders' = Holders /\ \A d \in Holders : req'[d] = req[d]
        BY <2>0, <3>1, <4>1, <4>2, SameHolders, StepType DEF Holders
      <4>4. UNCHANGED <<hits, given, lost>>
        BY <2>3, <3>1 DEF Incr
      <4> QED BY <2>0, <4>3, <4>4, NothingMoves
    <3> QED BY <2>3, <3>1, IncrAnswered, IncrLost DEF Incr
  <2>4. ASSUME NEW c \in Clients, Answer(c) PROVE (Bounded /\ DistinctCounters /\ Accounted)'
    BY <2>4, AnswerMoves
  <2>5. CASE Flap \/ UNCHANGED vars
    <3>1. UNCHANGED <<hits, given, lost, req>>
      BY <2>5 DEF Flap, vars
    <3>2. Holders' = Holders
      BY <3>1 DEF Holders
    <3> QED BY <2>0, <3>1, <3>2, NothingMoves
  <2> QED BY <2>1, <2>2, <2>3, <2>4, <2>5 DEF Next, Progress
<1> QED BY <1>1, <1>2, TypeCorrect, PTL DEF Spec

\* No two requests are answered with the same counter.
THEOREM CountersDistinct == Spec => []DistinctCounters
BY InvHolds, PTL DEF Inv

\* Every INCR is an answer given, an answer on its way or a lost reply.
THEOREM IncrementsAccounted == Spec => []Accounted
BY InvHolds, PTL DEF Inv
=============================================================================
