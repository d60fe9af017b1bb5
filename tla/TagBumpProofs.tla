---------------------------- MODULE TagBumpProofs ----------------------------
(***************************************************************************)
(* TLAPS proofs about TagBump.tla, for any number of runs, attempts and    *)
(* developers' commits.                                                    *)
(***************************************************************************)
EXTENDS TagBump, SequenceTheorems, WellFoundedInduction, TLAPS

Commits == [tag : 0 .. MaxRuns, dev : BOOLEAN]

RunState ==
  [phase : {"edit", "push", "fetch", "done", "failed"}, attempt : 1 .. Attempts,
   base : Nat, trigger : Nat, faults : Nat]

\* Every attempt that failed had a commit land after the checkout it was made
\* on, or was a fault of origin's: the job counts them as it goes.
Counted(r, length) ==
  /\ 1 <= r.trigger /\ r.trigger <= r.base /\ r.base <= length
  /\ r.phase \in {"edit", "push"} => r.trigger + r.attempt <= r.base + 1 + r.faults
  /\ r.phase = "fetch" => r.attempt < Attempts /\ r.trigger + r.attempt <= length + r.faults
  /\ r.phase = "failed" =>
       r.trigger + (IF r.attempt = Attempts THEN Attempts ELSE r.attempt + 1) <= length + r.faults

\* A done job's tag is on main, after its trigger.
OnMain(n) == \E i \in runs[n].trigger .. Len(main) : main[i].tag = n

Inv ==
  /\ main \in Seq(Commits) /\ main # <<>>
  /\ runs \in Seq(RunState) /\ Len(runs) <= MaxRuns
  /\ pending \in SUBSET (1 .. Len(main))
  /\ \A n \in DOMAIN runs : Counted(runs[n], Len(main)) /\ (runs[n].phase = "done" => OnMain(n))

\* What the sequences of the model do when they grow.
LEMMA Grows ==
  ASSUME NEW S, NEW s \in Seq(S), NEW e \in S
  PROVE  /\ Append(s, e) \in Seq(S)
         /\ Len(Append(s, e)) = Len(s) + 1
         /\ Append(s, e)[Len(s) + 1] = e
         /\ \A i \in 1 .. Len(s) : Append(s, e)[i] = s[i]
         /\ IsPrefix(s, Append(s, e))
<1>1. /\ Append(s, e) \in Seq(S)
      /\ Len(Append(s, e)) = Len(s) + 1
      /\ Append(s, e)[Len(s) + 1] = e
      /\ \A i \in 1 .. Len(s) : Append(s, e)[i] = s[i]
  OBVIOUS
<1>2. SubSeq(s, 1, Len(s)) = SubSeq(Append(s, e), 1, Len(s))
  BY <1>1
<1> QED  BY <1>1, <1>2 DEF IsPrefix

\* The first pending commit is one of them.
LEMMA FirstPending ==
  ASSUME NEW P \in SUBSET Nat, P # {}
  PROVE  Min(P) \in P
<1>1. PICK x \in P : \A y \in P : ~(<<y, x>> \in OpToRel(<, Nat))
  BY NatLessThanWellFounded, WFMin
<1>2. ASSUME NEW y \in P PROVE x <= y
  <2>1. y < x => <<y, x>> \in OpToRel(<, Nat)
    BY DEF OpToRel
  <2>2. ~(y < x)
    BY <1>1, <2>1, Zenon
  <2> QED  BY <2>2
<1> QED  BY <1>2 DEF Min

\* A count of attempts that holds with a shorter main holds with a longer one.
LEMMA CountedOnwards ==
  ASSUME NEW r \in RunState, NEW k \in Nat, NEW l \in Nat, k <= l, Counted(r, k)
  PROVE  Counted(r, l)
BY AttemptsAssumption DEF Counted, RunState

\* main staying, or growing by a commit, disturbs no job that does not move.
LEMMA JobUndisturbed ==
  ASSUME Inv, NEW n \in DOMAIN runs, runs'[n] = runs[n],
         \/ main' = main
         \/ \E e \in Commits : main' = Append(main, e)
  PROVE  Counted(runs'[n], Len(main')) /\ (runs'[n].phase = "done" => OnMain(n)')
<1>1. /\ Len(main) \in Nat /\ Len(main') \in Nat /\ Len(main) <= Len(main')
      /\ \A i \in 1 .. Len(main) : main'[i] = main[i]
  BY Grows DEF Inv
<1>2. runs[n] \in RunState /\ Counted(runs[n], Len(main))
  BY DEF Inv
<1>3. Counted(runs'[n], Len(main'))
  BY <1>1, <1>2, CountedOnwards
<1>4. ASSUME runs'[n].phase = "done" PROVE OnMain(n)'
  <2>1. PICK i \in runs[n].trigger .. Len(main) : main[i].tag = n
    BY <1>4 DEF Inv, OnMain
  <2>2. i \in 1 .. Len(main) /\ i \in runs'[n].trigger .. Len(main')
    BY <1>1, <1>2 DEF Counted, RunState
  <2>3. main'[i].tag = n
    BY <2>1, <2>2, <1>1
  <2> QED  BY <2>2, <2>3 DEF OnMain
<1> QED  BY <1>3, <1>4

\* A step of job n keeps the invariant when its new state is sound.
LEMMA JobKeeps ==
  ASSUME Inv, NEW n \in DOMAIN runs, NEW r \in RunState, Step(n, r), UNCHANGED pending,
         \/ main' = main
         \/ \E e \in Commits : main' = Append(main, e),
         Counted(r, Len(main')), r.phase = "done" => OnMain(n)'
  PROVE  Inv'
<1>1. /\ runs' \in Seq(RunState) /\ Len(runs') = Len(runs) /\ DOMAIN runs' = DOMAIN runs
      /\ runs'[n] = r /\ \A m \in DOMAIN runs : m # n => runs'[m] = runs[m]
  BY DEF Step, Inv
<1>2. main' \in Seq(Commits) /\ main' # <<>> /\ Len(main) <= Len(main') /\ Len(main') \in Nat /\ Len(main) \in Nat
  BY Grows DEF Inv
<1>3. pending' \in SUBSET (1 .. Len(main'))
  BY <1>2 DEF Inv
<1>4. ASSUME NEW m \in DOMAIN runs'
      PROVE  Counted(runs'[m], Len(main')) /\ (runs'[m].phase = "done" => OnMain(m)')
  <2>1. CASE m = n
    BY <2>1, <1>1
  <2>2. CASE m # n
    BY <2>2, <1>1, JobUndisturbed
  <2> QED  BY <2>1, <2>2
<1> QED  BY <1>1, <1>2, <1>3, <1>4 DEF Inv

\* A run that starts at a commit of main keeps the invariant.
LEMMA RunKeeps ==
  ASSUME Inv, NEW c \in 1 .. Len(main), Run(c), pending' \subseteq pending
  PROVE  Inv'
<1> DEFINE new == [phase |-> "edit", attempt |-> 1, base |-> c, trigger |-> c, faults |-> 0]
<1>1. Len(main) \in Nat /\ c \in Nat /\ main' = main
  BY DEF Inv, Run
<1>2. new \in RunState
  BY <1>1, AttemptsAssumption DEF RunState
<1>3. Counted(new, Len(main))
  BY <1>1 DEF Counted
<1>4. /\ runs' \in Seq(RunState) /\ Len(runs') = Len(runs) + 1 /\ Len(runs') <= MaxRuns
      /\ runs'[Len(runs) + 1] = new
      /\ \A m \in DOMAIN runs : runs'[m] = runs[m]
      /\ DOMAIN runs' = DOMAIN runs \cup {Len(runs) + 1}
  BY <1>2, AttemptsAssumption DEF Run, Inv
<1>5. ASSUME NEW m \in DOMAIN runs'
      PROVE  Counted(runs'[m], Len(main')) /\ (runs'[m].phase = "done" => OnMain(m)')
  <2>1. CASE m = Len(runs) + 1
    BY <2>1, <1>1, <1>3, <1>4
  <2>2. CASE m \in DOMAIN runs
    BY <2>2, <1>1, <1>4, JobUndisturbed
  <2> QED  BY <2>1, <2>2, <1>4
<1> QED  BY <1>1, <1>4, <1>5 DEF Inv

LEMMA InitInv == Init => Inv
BY AttemptsAssumption DEF Init, Inv, Commit, Commits

\* The parts of the state that a job's step starts from.
LEMMA JobState ==
  ASSUME Inv, NEW n \in DOMAIN runs
  PROVE  /\ runs[n] \in RunState /\ Counted(runs[n], Len(main))
         /\ n \in 1 .. MaxRuns /\ Len(main) \in Nat /\ Len(main) # 0
         /\ Commit(n, FALSE) \in Commits
BY AttemptsAssumption DEF Inv, Commit, Commits

\* How the state of a job may go on, phase by phase.
LEMMA EditedType ==
  ASSUME NEW s \in RunState, NEW l \in Nat, Counted(s, l), s.phase = "edit",
         NEW ph \in {"done", "push"}
  PROVE  LET r == [s EXCEPT !.phase = ph] IN
         r \in RunState /\ r.phase = ph /\ r.trigger = s.trigger /\ Counted(r, l)
BY AttemptsAssumption DEF Counted, RunState

LEMMA RejectedCounted ==
  ASSUME NEW s \in RunState, NEW r \in RunState, NEW l \in Nat, NEW k \in Nat, Counted(s, k),
         s.phase = "push", NEW f \in Nat, s.base + 1 <= l + f, s.base <= l,
         r.phase = IF s.attempt = Attempts THEN "failed" ELSE "fetch",
         r.attempt = s.attempt, r.base = s.base, r.trigger = s.trigger, r.faults = s.faults + f
  PROVE  Counted(r, l)
<1>1. /\ s.trigger \in Nat /\ s.base \in Nat /\ s.faults \in Nat /\ s.attempt \in 1 .. Attempts
      /\ 1 <= s.trigger /\ s.trigger <= s.base /\ s.trigger + s.attempt <= s.base + 1 + s.faults
  BY DEF Counted, RunState
<1>2. s.trigger + s.attempt <= l + (s.faults + f)
  BY <1>1, AttemptsAssumption
<1> QED  BY <1>1, <1>2, AttemptsAssumption DEF Counted

LEMMA LandedType ==
  ASSUME NEW s \in RunState, NEW l \in Nat, Counted(s, l)
  PROVE  LET r == [s EXCEPT !.phase = "done"] IN
         r \in RunState /\ r.trigger = s.trigger /\ Counted(r, l + 1)
BY AttemptsAssumption DEF Counted, RunState

LEMMA FetchedType ==
  ASSUME NEW s \in RunState, NEW l \in Nat, Counted(s, l), s.phase = "fetch"
  PROVE  LET r == [s EXCEPT !.phase = "edit", !.attempt = @ + 1, !.base = l] IN
         r \in RunState /\ r.phase = "edit" /\ Counted(r, l)
<1> DEFINE r == [s EXCEPT !.phase = "edit", !.attempt = @ + 1, !.base = l]
<1>1. /\ s.trigger \in Nat /\ s.attempt \in 1 .. Attempts
      /\ s.attempt < Attempts /\ s.trigger + s.attempt <= l + s.faults /\ 1 <= s.trigger
      /\ s.faults \in Nat /\ s.base \in Nat /\ s.trigger <= s.base /\ s.base <= l
  BY DEF Counted, RunState
<1>2. s.attempt + 1 \in 1 .. Attempts /\ s.trigger <= l /\ s.trigger + (s.attempt + 1) <= l + 1 + s.faults
  BY <1>1, AttemptsAssumption
<1>3. r \in RunState
  BY <1>2 DEF RunState
<1>4. r.phase = "edit" /\ r.attempt = s.attempt + 1 /\ r.base = l /\ r.trigger = s.trigger /\ r.faults = s.faults
  BY DEF RunState
<1> HIDE DEF r
<1>5. Counted(r, l)
  BY <1>1, <1>2, <1>4 DEF Counted
<1> QED  BY <1>3, <1>4, <1>5 DEF r

LEMMA FetchFailedType ==
  ASSUME NEW s \in RunState, NEW l \in Nat, Counted(s, l), s.phase = "fetch"
  PROVE  LET r == [s EXCEPT !.phase = "failed", !.faults = @ + 1] IN
         r \in RunState /\ r.phase = "failed" /\ Counted(r, l)
<1> DEFINE r == [s EXCEPT !.phase = "failed", !.faults = @ + 1]
<1>1. /\ s.trigger \in Nat /\ s.base \in Nat /\ s.faults \in Nat /\ s.attempt \in 1 .. Attempts
      /\ s.attempt < Attempts /\ s.trigger + s.attempt <= l + s.faults
      /\ 1 <= s.trigger /\ s.trigger <= s.base /\ s.base <= l
  BY DEF Counted, RunState
<1>2. /\ r \in RunState /\ r.phase = "failed" /\ r.attempt = s.attempt /\ r.base = s.base
      /\ r.trigger = s.trigger /\ r.faults = s.faults + 1
  <2>1. s.faults + 1 \in Nat
    BY <1>1
  <2> QED  BY <2>1 DEF RunState
<1> HIDE DEF r
<1>3. Counted(r, l)
  BY <1>1, <1>2, AttemptsAssumption DEF Counted
<1> QED  BY <1>2, <1>3 DEF r

LEMMA EditKeeps ==
  ASSUME Inv, NEW n \in DOMAIN runs, Edit(n)
  PROVE  Inv'
<1> DEFINE ph == IF main[runs[n].base].tag = n THEN "done" ELSE "push"
           r == [runs[n] EXCEPT !.phase = ph]
<1>1. /\ main' = main /\ pending' = pending /\ Step(n, r)
      /\ runs[n].phase = "edit"
  BY DEF Edit
<1>2. ph \in {"done", "push"} /\ (ph = "done" => main[runs[n].base].tag = n)
  OBVIOUS
<1> HIDE DEF ph
<1>3. /\ r \in RunState /\ r.phase = ph /\ r.trigger = runs[n].trigger
      /\ Counted(r, Len(main))
  BY <1>1, <1>2, JobState, EditedType, ZenonT(40)
<1>4. r.phase = "done" => OnMain(n)'
  <2>1. runs'[n] = r
    BY <1>1, JobState DEF Step, Inv
  <2>2. runs[n].base \in runs[n].trigger .. Len(main)
    <3>1. runs[n] \in RunState /\ Counted(runs[n], Len(main)) /\ Len(main) \in Nat
      BY JobState
    <3> QED  BY <3>1 DEF Counted, RunState
  <2> HIDE DEF r
  <2> QED  BY <1>1, <1>2, <1>3, <2>1, <2>2 DEF OnMain
<1> HIDE DEF r
<1> QED  BY <1>1, <1>3, <1>4, JobKeeps

\* A push that fails, or seems to, keeps the invariant when main holds a
\* commit that the checkout does not have, or a fault is counted.
LEMMA RejectedKeeps ==
  ASSUME Inv, NEW n \in DOMAIN runs, runs[n].phase = "push", NEW f \in Nat, Rejected(n, f),
         UNCHANGED pending, runs[n].base + 1 <= Len(main') + f,
         \/ main' = main
         \/ \E e \in Commits : main' = Append(main, e)
  PROVE  Inv'
<1> DEFINE ph == IF runs[n].attempt = Attempts THEN "failed" ELSE "fetch"
           r == [runs[n] EXCEPT !.phase = ph, !.faults = @ + f]
<1>1. Len(main') \in Nat /\ Len(main) \in Nat /\ Len(main) <= Len(main')
  BY Grows DEF Inv
<1>2. Step(n, r)
  BY DEF Rejected
<1>3. ph \in {"failed", "fetch"} /\ (ph = "failed" <=> runs[n].attempt = Attempts)
  OBVIOUS
<1> HIDE DEF ph
<1>4. runs[n].base <= Len(main')
  <2>1. runs[n] \in RunState /\ Counted(runs[n], Len(main))
    BY JobState
  <2> QED  BY <2>1, <1>1 DEF Counted, RunState
<1>5. runs[n] \in RunState /\ Counted(runs[n], Len(main)) /\ runs[n].faults + f \in Nat
  <2>1. runs[n] \in RunState /\ Counted(runs[n], Len(main))
    BY JobState
  <2>2. runs[n].faults \in Nat
    BY <2>1 DEF RunState
  <2> QED  BY <2>1, <2>2
<1>6. /\ r \in RunState /\ r.phase = ph /\ r.attempt = runs[n].attempt /\ r.base = runs[n].base
      /\ r.trigger = runs[n].trigger /\ r.faults = runs[n].faults + f
  BY <1>3, <1>5 DEF RunState
<1> HIDE DEF r
<1>7. Counted(r, Len(main'))
  BY <1>1, <1>4, <1>5, <1>6, RejectedCounted DEF ph
<1> QED  BY <1>2, <1>3, <1>6, <1>7, JobKeeps

\* A push that lands and is seen to.
LEMMA LandedKeeps ==
  ASSUME Inv, NEW n \in DOMAIN runs, runs[n].phase = "push", runs[n].base = Len(main),
         main' = Append(main, Commit(n, FALSE)), Step(n, [runs[n] EXCEPT !.phase = "done"]),
         UNCHANGED pending
  PROVE  Inv'
<1> DEFINE r == [runs[n] EXCEPT !.phase = "done"]
<1>1. r \in RunState /\ r.trigger = runs[n].trigger /\ Counted(r, Len(main) + 1)
  BY JobState, LandedType
<1>2. Len(main') = Len(main) + 1 /\ main'[Len(main) + 1] = Commit(n, FALSE)
  <2>1. main \in Seq(Commits) /\ Commit(n, FALSE) \in Commits
    BY JobState DEF Inv
  <2> QED  BY <2>1, Grows
<1>3. Counted(r, Len(main'))
  BY <1>1, <1>2
<1>4. OnMain(n)'
  <2>1. runs'[n] = r
    BY JobState DEF Step, Inv
  <2>2. Len(main) + 1 \in runs[n].trigger .. Len(main')
    <3>1. runs[n] \in RunState /\ Counted(runs[n], Len(main)) /\ Len(main) \in Nat
      BY JobState
    <3> QED  BY <1>2, <3>1 DEF Counted, RunState
  <2>3. main'[Len(main) + 1].tag = n
    BY <1>2 DEF Commit
  <2> HIDE DEF r
  <2> QED  BY <1>1, <2>1, <2>2, <2>3 DEF OnMain
<1>5. \E e \in Commits : main' = Append(main, e)
  BY JobState
<1> HIDE DEF r
<1>6. Step(n, r)
  BY DEF r
<1> QED  BY <1>1, <1>3, <1>4, <1>5, <1>6, JobKeeps

LEMMA PushKeeps ==
  ASSUME Inv, NEW n \in DOMAIN runs, Push(n)
  PROVE  Inv'
<1>1. runs[n] \in RunState /\ Counted(runs[n], Len(main)) /\ Len(main) \in Nat /\ runs[n].base \in Nat
  BY JobState DEF RunState
<1>2. CASE /\ runs[n].base = Len(main)
           /\ main' = Append(main, Commit(n, FALSE))
           /\ Step(n, [runs[n] EXCEPT !.phase = "done"])
  BY <1>2, LandedKeeps DEF Push
<1>3. CASE /\ runs[n].base = Len(main)
           /\ main' = Append(main, Commit(n, FALSE))
           /\ Rejected(n, 0)
  <2>1. runs[n].base + 1 <= Len(main') + 0
    BY <1>1, <1>3, JobState, Grows DEF Inv
  <2>2. \E e \in Commits : main' = Append(main, e)
    BY <1>3, JobState
  <2> QED  BY <1>3, <2>1, <2>2, RejectedKeeps DEF Push
<1>4. CASE Rejected(n, IF runs[n].base = Len(main) THEN 1 ELSE 0) /\ UNCHANGED main
  <2> DEFINE f == IF runs[n].base = Len(main) THEN 1 ELSE 0
  <2>1. f \in Nat /\ runs[n].base + 1 <= Len(main') + f
    BY <1>1, <1>4 DEF Counted
  <2>2. Rejected(n, f) /\ main' = main
    BY <1>4
  <2> HIDE DEF f
  <2> QED  BY <2>1, <2>2, RejectedKeeps DEF Push
<1> QED  BY <1>2, <1>3, <1>4 DEF Push

LEMMA FetchKeeps ==
  ASSUME Inv, NEW n \in DOMAIN runs, Fetch(n)
  PROVE  Inv'
<1>1. CASE Fetched(n)
  <2> DEFINE r == [runs[n] EXCEPT !.phase = "edit", !.attempt = @ + 1, !.base = Len(main)]
  <2>1. main' = main /\ pending' = pending /\ Step(n, r)
    BY <1>1 DEF Fetch, Fetched
  <2>2. r \in RunState /\ r.phase = "edit" /\ Counted(r, Len(main))
    BY JobState, FetchedType DEF Fetch
  <2> HIDE DEF r
  <2> QED  BY <2>1, <2>2, JobKeeps
<1>2. CASE FetchFailed(n)
  <2> DEFINE r == [runs[n] EXCEPT !.phase = "failed", !.faults = @ + 1]
  <2>1. main' = main /\ pending' = pending /\ Step(n, r)
    BY <1>2 DEF Fetch, FetchFailed
  <2>2. r \in RunState /\ r.phase = "failed" /\ Counted(r, Len(main))
    BY JobState, FetchFailedType DEF Fetch
  <2> HIDE DEF r
  <2> QED  BY <2>1, <2>2, JobKeeps
<1> QED  BY <1>1, <1>2 DEF Fetch

LEMMA DevelopKeeps ==
  ASSUME Inv, Develop
  PROVE  Inv'
<1> DEFINE e == Commit(Last(main).tag, TRUE)
<1>1. e \in Commits /\ main' = Append(main, e) /\ UNCHANGED runs
  <2>1. Len(main) \in 1 .. Len(main) /\ main[Len(main)] \in Commits
    BY DEF Inv
  <2> QED  BY <2>1 DEF Develop, Commit, Commits, Last
<1> HIDE DEF e
<1>2. /\ main' \in Seq(Commits) /\ main' # <<>>
      /\ Len(main') = Len(main) + 1 /\ Len(main) \in Nat
  BY <1>1, Grows DEF Inv
<1>3. pending' \in SUBSET (1 .. Len(main'))
  <2>1. pending \in SUBSET (1 .. Len(main)) /\ pending' = pending \cup {Len(main) + 1}
    BY DEF Inv, Develop
  <2>2. ASSUME NEW i \in pending' PROVE i \in 1 .. Len(main) + 1
    BY <1>2, <2>1
  <2> QED  BY <1>2, <2>2
<1>4. ASSUME NEW n \in DOMAIN runs'
      PROVE  Counted(runs'[n], Len(main')) /\ (runs'[n].phase = "done" => OnMain(n)')
  BY <1>1, JobUndisturbed
<1> QED  BY <1>1, <1>2, <1>3, <1>4 DEF Inv

LEMMA NextKeeps ==
  ASSUME Inv, [Next]_vars
  PROVE  Inv'
<1>1. CASE Develop
  BY <1>1, DevelopKeeps
<1>2. CASE Start
  <2>1. Min(pending) \in pending
    BY <1>2, FirstPending DEF Start, Inv
  <2>2. Min(pending) \in 1 .. Len(main)
    BY <2>1 DEF Inv
  <2> QED  BY <1>2, <2>2, RunKeeps DEF Start
<1>3. CASE Dispatch
  <2>1. Len(main) \in 1 .. Len(main)
    BY DEF Inv
  <2> QED  BY <1>3, <2>1, RunKeeps DEF Dispatch
<1>4. CASE \E n \in DOMAIN runs : Job(n)
  BY <1>4, EditKeeps, PushKeeps, FetchKeeps DEF Job
<1>5. CASE UNCHANGED vars
  BY <1>5 DEF vars, Inv, OnMain, Counted
<1> QED  BY <1>1, <1>2, <1>3, <1>4, <1>5 DEF Next

LEMMA Invariance == Spec => []Inv
<1>1. Inv /\ [Next]_vars => Inv'
  BY NextKeeps
<1> QED  BY <1>1, InitInv, PTL DEF Spec

\* Every variable of the jobs, of main and of the commits to be built keeps
\* its type, and a job's checkout is a commit of main, at or after its trigger.
THEOREM TypeCorrect == Spec => []TypeOK
<1>1. Inv => TypeOK
  BY DEF Inv, TypeOK, Commits, RunState, Counted
<1> QED  BY <1>1, Invariance, PTL

\* A job that ends well has put its own tag on main, after what started it,
\* whatever the other jobs and the developers push meanwhile.
THEOREM DoneJobsLanded == Spec => []DoneIsOnMain
<1>1. Inv => DoneIsOnMain
  BY DEF Inv, DoneIsOnMain, OnMain
<1> QED  BY <1>1, Invariance, PTL

\* A job gives up only for cause: each of its attempts met a commit that
\* landed meanwhile or a failure of origin, all of them when it used them up,
\* and a failed fetch besides when it did not.
THEOREM FailuresExplained == Spec => []FailsOnlyForCause
<1>1. ASSUME Inv PROVE FailsOnlyForCause
  <2>1. ASSUME NEW n \in DOMAIN runs, runs[n].phase = "failed"
        PROVE  (Len(main) - runs[n].trigger) + runs[n].faults
                 >= IF runs[n].attempt = Attempts THEN Attempts ELSE runs[n].attempt + 1
    <3>1. runs[n] \in RunState /\ Counted(runs[n], Len(main)) /\ Len(main) \in Nat
      BY <1>1, JobState
    <3> QED  BY <2>1, <3>1, AttemptsAssumption DEF Counted, RunState
  <2> QED  BY <2>1 DEF FailsOnlyForCause
<1> QED  BY <1>1, Invariance, PTL

\* Nothing that has landed on main is lost: each step leaves it a prefix.
THEOREM MainOnlyGrows == Spec => NothingDiscarded
<1>1. ASSUME Inv, [Next]_vars PROVE [IsPrefix(main, main')]_vars
  <2>1. CASE main' = main
    <3>1. main \in Seq(Commits)
      BY <1>1 DEF Inv
    <3>2. IsPrefix(main, main)
      BY <3>1 DEF IsPrefix
    <3> QED  BY <2>1, <3>2
  <2>2. CASE \E e \in Commits : main' = Append(main, e)
    <3>1. main \in Seq(Commits)
      BY <1>1 DEF Inv
    <3> QED  BY <2>2, <3>1, Grows
  <2>3. ASSUME Develop PROVE \E e \in Commits : main' = Append(main, e)
    <3>1. Len(main) \in 1 .. Len(main) /\ main[Len(main)] \in Commits
      BY <1>1 DEF Inv
    <3> QED  BY <2>3, <3>1 DEF Develop, Commit, Commits, Last
  <2>4. ASSUME NEW n \in DOMAIN runs, Job(n)
        PROVE  main' = main \/ \E e \in Commits : main' = Append(main, e)
    BY <1>1, <2>4, JobState DEF Job, Edit, Push, Fetch
  <2> QED  BY <1>1, <2>1, <2>2, <2>3, <2>4 DEF Next, Start, Dispatch, Run, vars
<1> QED  BY <1>1, Invariance, PTL DEF NothingDiscarded, Spec

\* No tag on main is that of a run to come, and what a job has checked out at
\* first has an older tag than its own.
TagsKnown ==
  /\ \A i \in 1 .. Len(main) : main[i].tag <= Len(runs)
  /\ \A n \in DOMAIN runs : runs[n].attempt = 1 => main[runs[n].base].tag < n

\* How main and the jobs go on, as far as TagsKnown tells.
LEMMA MainForms ==
  ASSUME Inv, TagsKnown, Next
  PROVE  main' = main \/ \E e \in Commits : main' = Append(main, e) /\ e.tag <= Len(runs)
<1>1. ASSUME Develop PROVE \E e \in Commits : main' = Append(main, e) /\ e.tag <= Len(runs)
  <2>1. Len(main) \in 1 .. Len(main) /\ main[Len(main)] \in Commits
    BY DEF Inv
  <2>2. main[Len(main)].tag <= Len(runs)
    BY <2>1 DEF TagsKnown
  <2> DEFINE e == Commit(Last(main).tag, TRUE)
  <2>3. e \in Commits /\ e.tag = main[Len(main)].tag
    BY <2>1 DEF Commit, Commits, Last
  <2>4. main' = Append(main, e)
    BY <1>1 DEF Develop
  <2> HIDE DEF e
  <2> QED  BY <2>2, <2>3, <2>4
<1>2. ASSUME NEW n \in DOMAIN runs, Job(n)
      PROVE  main' = main \/ \E e \in Commits : main' = Append(main, e) /\ e.tag <= Len(runs)
  <2>1. main' = main \/ main' = Append(main, Commit(n, FALSE))
    BY <1>2 DEF Job, Edit, Push, Fetch
  <2>2. Commit(n, FALSE) \in Commits /\ Commit(n, FALSE).tag = n
    BY JobState DEF Commit
  <2>3. n <= Len(runs)
    BY DEF Inv
  <2> QED  BY <2>1, <2>2, <2>3
<1> QED  BY <1>1, <1>2 DEF Next, Start, Dispatch, Run

\* A job's step leaves it its checkout, or counts another attempt.
Forth(n) ==
  /\ Len(runs') = Len(runs) /\ DOMAIN runs' = DOMAIN runs
  /\ \A m \in DOMAIN runs :
       \/ runs'[m].attempt = runs[m].attempt /\ runs'[m].base = runs[m].base
       \/ runs'[m].attempt # 1

LEMMA StepForth ==
  ASSUME Inv, NEW n \in DOMAIN runs, NEW r, Step(n, r),
         (r.attempt = runs[n].attempt /\ r.base = runs[n].base) \/ r.attempt = runs[n].attempt + 1
  PROVE  Forth(n)
<1>1. runs \in Seq(RunState) /\ runs[n] \in RunState
  BY JobState DEF Inv
<1>2. /\ Len(runs') = Len(runs) /\ DOMAIN runs' = DOMAIN runs /\ runs'[n] = r
      /\ \A m \in DOMAIN runs : m # n => runs'[m] = runs[m]
  BY <1>1 DEF Step
<1>3. runs[n].attempt \in 1 .. Attempts
  BY <1>1 DEF RunState
<1>4. (r.attempt = runs[n].attempt /\ r.base = runs[n].base) \/ r.attempt # 1
  BY <1>3, AttemptsAssumption
<1> QED  BY <1>2, <1>4 DEF Forth

LEMMA JobForms ==
  ASSUME Inv, NEW n \in DOMAIN runs, Job(n)
  PROVE  Forth(n)
<1>1. runs[n] \in RunState
  BY JobState
<1>2. ASSUME NEW ph, Step(n, [runs[n] EXCEPT !.phase = ph]) PROVE Forth(n)
  <2> DEFINE r == [runs[n] EXCEPT !.phase = ph]
  <2>1. r.attempt = runs[n].attempt /\ r.base = runs[n].base
    BY <1>1 DEF RunState
  <2>2. Step(n, r)
    BY <1>2
  <2> HIDE DEF r
  <2> QED  BY <2>1, <2>2, StepForth
<1>3. ASSUME NEW ph, NEW f, Step(n, [runs[n] EXCEPT !.phase = ph, !.faults = @ + f]) PROVE Forth(n)
  <2> DEFINE r == [runs[n] EXCEPT !.phase = ph, !.faults = @ + f]
  <2>1. r.attempt = runs[n].attempt /\ r.base = runs[n].base
    BY <1>1 DEF RunState
  <2>2. Step(n, r)
    BY <1>3
  <2> HIDE DEF r
  <2> QED  BY <2>1, <2>2, StepForth
<1>4. CASE Fetched(n)
  <2> DEFINE r == [runs[n] EXCEPT !.phase = "edit", !.attempt = @ + 1, !.base = Len(main)]
  <2>1. r.attempt = runs[n].attempt + 1
    BY <1>1 DEF RunState
  <2>2. Step(n, r)
    BY <1>4 DEF Fetched
  <2> HIDE DEF r
  <2> QED  BY <2>1, <2>2, StepForth
<1>5. CASE Edit(n)
  BY <1>2, <1>5 DEF Edit
<1>6. CASE Push(n)
  <2>1. ASSUME NEW f, Rejected(n, f) PROVE Forth(n)
    BY <1>3, <2>1 DEF Rejected
  <2> QED  BY <1>2, <1>6, <2>1 DEF Push
<1>7. CASE FetchFailed(n)
  BY <1>3, <1>7 DEF FetchFailed
<1> QED  BY <1>4, <1>5, <1>6, <1>7 DEF Job, Fetch

\* main keeps its commits, and shows no tag of a run to come.
LEMMA MainKeepsTags ==
  ASSUME Inv, TagsKnown, Next
  PROVE  /\ Len(main) \in Nat /\ Len(main') \in Nat /\ Len(main) <= Len(main')
         /\ \A i \in 1 .. Len(main) : main'[i] = main[i]
         /\ \A i \in 1 .. Len(main') : main'[i].tag <= Len(runs)
<1>1. main \in Seq(Commits) /\ Len(main) \in Nat
  BY DEF Inv
<1>2. CASE main' = main
  BY <1>1, <1>2 DEF TagsKnown
<1>3. CASE \E e \in Commits : main' = Append(main, e) /\ e.tag <= Len(runs)
  <2>1. PICK e \in Commits : main' = Append(main, e) /\ e.tag <= Len(runs)
    BY <1>3
  <2>2. /\ Len(main') = Len(main) + 1 /\ main'[Len(main) + 1] = e
        /\ \A i \in 1 .. Len(main) : main'[i] = main[i]
    BY <1>1, <2>1, Grows
  <2> QED  BY <1>1, <2>1, <2>2 DEF TagsKnown
<1> QED  BY <1>2, <1>3, MainForms

\* A run that starts is added to the jobs, and checks out the commit of its start.
LEMMA RunForms ==
  ASSUME Inv, NEW c \in 1 .. Len(main), Run(c)
  PROVE  /\ main' = main /\ Len(runs') = Len(runs) + 1
         /\ DOMAIN runs' = DOMAIN runs \cup {Len(runs) + 1}
         /\ \A m \in DOMAIN runs : runs'[m] = runs[m]
         /\ runs'[Len(runs) + 1].base = c
<1> DEFINE new == [phase |-> "edit", attempt |-> 1, base |-> c, trigger |-> c, faults |-> 0]
<1>1. new \in RunState /\ new.base = c
  BY AttemptsAssumption DEF RunState, Inv
<1>2. runs \in Seq(RunState) /\ runs' = Append(runs, new) /\ main' = main
  BY DEF Run, Inv
<1> HIDE DEF new
<1> QED  BY <1>1, <1>2

LEMMA TagsStayKnown ==
  ASSUME Inv, TagsKnown, [Next]_vars
  PROVE  TagsKnown'
<1>0. /\ runs \in Seq(RunState) /\ Len(runs) \in Nat /\ DOMAIN runs = 1 .. Len(runs) /\ Len(main) \in Nat
      /\ \A n \in DOMAIN runs : runs[n].base \in 1 .. Len(main)
  <2>1. ASSUME NEW n \in DOMAIN runs PROVE runs[n].base \in 1 .. Len(main)
    <3>1. runs[n] \in RunState /\ Counted(runs[n], Len(main)) /\ Len(main) \in Nat
      BY JobState
    <3> QED  BY <3>1 DEF Counted, RunState
  <2> QED  BY <2>1 DEF Inv
<1>1. CASE UNCHANGED vars
  BY <1>1 DEF vars, TagsKnown
<1>2. ASSUME NEW c \in 1 .. Len(main), Run(c) PROVE TagsKnown'
  <2>1. /\ main' = main /\ Len(runs') = Len(runs) + 1
        /\ DOMAIN runs' = DOMAIN runs \cup {Len(runs) + 1}
        /\ \A m \in DOMAIN runs : runs'[m] = runs[m]
        /\ runs'[Len(runs) + 1].base = c
    BY <1>2, RunForms
  <2>2. ASSUME NEW i \in 1 .. Len(main') PROVE main'[i].tag <= Len(runs')
    <3>1. main[i].tag \in Nat /\ main[i].tag <= Len(runs)
      <4>1. main[i] \in Commits
        BY <2>1, <2>2 DEF Inv
      <4> QED  BY <2>1, <4>1, AttemptsAssumption DEF Commits, TagsKnown
    <3> QED  BY <1>0, <2>1, <3>1
  <2>3. main[c].tag \in Nat /\ main[c].tag <= Len(runs)
    <3>1. main[c] \in Commits
      BY DEF Inv
    <3> QED  BY <3>1, AttemptsAssumption DEF Commits, TagsKnown
  <2>4. ASSUME NEW n \in DOMAIN runs', runs'[n].attempt = 1 PROVE main'[runs'[n].base].tag < n
    <3>1. CASE n = Len(runs) + 1
      BY <1>0, <2>1, <2>3, <3>1
    <3>2. CASE n \in DOMAIN runs
      BY <2>1, <2>4, <3>2 DEF TagsKnown
    <3> QED  BY <2>1, <3>1, <3>2
  <2> QED  BY <2>2, <2>4 DEF TagsKnown
<1>3. CASE Next /\ runs' = runs
  BY <1>0, <1>3, MainKeepsTags DEF TagsKnown
<1>4. ASSUME Next, NEW n \in DOMAIN runs, Job(n) PROVE TagsKnown'
  <2>1. \A i \in 1 .. Len(main') : main'[i].tag <= Len(runs')
    BY <1>4, MainKeepsTags, JobForms DEF Forth
  <2>2. ASSUME NEW m \in DOMAIN runs', runs'[m].attempt = 1
        PROVE  main'[runs'[m].base].tag < m
    BY <1>0, <1>4, <2>2, MainKeepsTags, JobForms DEF Forth, TagsKnown
  <2> QED  BY <2>1, <2>2 DEF TagsKnown
<1>5. ASSUME Start \/ Dispatch PROVE \E c \in 1 .. Len(main) : Run(c)
  <2>1. Len(main) \in 1 .. Len(main)
    BY DEF Inv
  <2>2. CASE Start
    <3>1. Min(pending) \in pending
      BY <2>2, FirstPending DEF Start, Inv
    <3>2. Min(pending) \in 1 .. Len(main)
      BY <3>1 DEF Inv
    <3> QED  BY <2>2, <3>2 DEF Start
  <2> QED  BY <1>5, <2>1, <2>2 DEF Dispatch
<1> QED  BY <1>1, <1>2, <1>3, <1>4, <1>5 DEF Next, Develop

\* main's tag goes back only by a job that was beaten to main and tries again.
THEOREM RetriesRevert == Spec => OnlyRetriesRevert
<1>1. Init => TagsKnown
  BY DEF Init, Commit, TagsKnown
<1>2. Inv /\ TagsKnown /\ [Next]_vars => TagsKnown'
  BY TagsStayKnown
<1>3. ASSUME Inv, TagsKnown, Next, Last(main').tag < Last(main).tag
      PROVE  \E n \in DOMAIN runs : /\ runs[n].phase = "push" /\ runs'[n].phase # "push"
                                    /\ runs[n].attempt > 1 /\ Last(main').tag = n
  <2>0. /\ main \in Seq(Commits) /\ Len(main) \in Nat /\ Len(main) \in 1 .. Len(main)
        /\ main[Len(main)].tag \in Nat
    <3>1. main \in Seq(Commits) /\ Len(main) \in Nat /\ Len(main) \in 1 .. Len(main)
      BY <1>3 DEF Inv
    <3>2. main[Len(main)] \in Commits
      BY <3>1
    <3> QED  BY <3>1, <3>2, AttemptsAssumption DEF Commits
  <2>1. main' # main
    <3>1. main' = main => Last(main').tag = main[Len(main)].tag /\ Last(main).tag = main[Len(main)].tag
      BY DEF Last
    <3> QED  BY <1>3, <2>0, <3>1
  <2>2. ~Develop
    <3>1. ASSUME Develop PROVE Last(main').tag = Last(main).tag
      <4> DEFINE e == Commit(Last(main).tag, TRUE)
      <4>1. main[Len(main)] \in Commits
        BY <2>0
      <4>2. e \in Commits /\ e.tag = Last(main).tag
        BY <4>1 DEF Commit, Commits, Last
      <4>3. main' = Append(main, e)
        BY <3>1 DEF Develop
      <4> HIDE DEF e
      <4> QED  BY <2>0, <4>2, <4>3, Grows DEF Last
    <3> QED  BY <1>3, <2>0, <3>1 DEF Last
  <2>3. PICK n \in DOMAIN runs : Push(n) /\ runs[n].base = Len(main) /\ main' = Append(main, Commit(n, FALSE))
    BY <1>3, <2>1, <2>2 DEF Next, Start, Dispatch, Run, Job, Edit, Push, Fetch
  <2>4. /\ runs[n] \in RunState /\ runs[n].phase = "push" /\ n \in Nat
        /\ runs[n].attempt \in 1 .. Attempts
    <3>1. runs[n] \in RunState /\ n \in 1 .. MaxRuns
      BY <1>3, JobState
    <3>2. runs[n].attempt \in 1 .. Attempts
      BY <3>1 DEF RunState
    <3> QED  BY <2>3, <3>1, <3>2, AttemptsAssumption DEF Push
  <2>5. Last(main').tag = n
    BY <1>3, <2>0, <2>3, JobState, Grows DEF Last, Commit
  <2>6. runs[n].attempt # 1
    <3>1. runs[n].attempt = 1 => main[Len(main)].tag < n
      BY <1>3, <2>3 DEF TagsKnown
    <3> QED  BY <1>3, <2>0, <2>4, <2>5, <3>1 DEF Last
  <2>7. runs'[n].phase # "push"
    <3>1. runs \in Seq(RunState)
      BY <1>3 DEF Inv
    <3>2. CASE Step(n, [runs[n] EXCEPT !.phase = "done"])
      BY <2>4, <3>1, <3>2 DEF Step, RunState
    <3>3. CASE \E f \in {0, 1} : Rejected(n, f)
      BY <2>4, <3>1, <3>3 DEF Rejected, Step, RunState
    <3> QED  BY <2>3, <3>2, <3>3 DEF Push
  <2> QED  BY <2>4, <2>5, <2>6, <2>7, AttemptsAssumption
<1>4. Inv /\ TagsKnown /\ [Next]_vars =>
        [Last(main').tag < Last(main).tag =>
           \E n \in DOMAIN runs : /\ runs[n].phase = "push" /\ runs'[n].phase # "push"
                                  /\ runs[n].attempt > 1 /\ Last(main').tag = n]_vars
  BY <1>3
<1> QED  BY <1>1, <1>2, <1>4, Invariance, PTL DEF Spec, OnlyRetriesRevert
=============================================================================
