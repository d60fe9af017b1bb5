------------------------------- MODULE TagBump -------------------------------
(***************************************************************************)
(* The modifygit job of .github/workflows/pipeline.yml: each run of the    *)
(* pipeline writes its own image tag into helm/pytbak/values.yaml and      *)
(* pushes that to main, retrying on top of whatever arrived meanwhile.     *)
(* Runs are not serialised: the workflow has no concurrency group.         *)
(*                                                                         *)
(* main is the sequence of its commits; of a commit the model keeps the    *)
(* tag that values.yaml has in it and whether a developer made it.  A run  *)
(* is started by a developer's commit, not by a job's, or by hand; its tag *)
(* ends in its run number, so tags are numbers and the tag of run n is n.  *)
(* The model is of the step that writes the tag: runs whose build or whose *)
(* checkout fails never get to it and are left out.                        *)
(***************************************************************************)
EXTENDS Naturals, Sequences, FiniteSets, SequencesExt

CONSTANTS
  Attempts,   \* the attempts of the loop, 5
  MaxRuns,    \* bound on the runs, which are numbered as they start
  MaxCommits, \* bound on the commits of developers
  MaxFaults   \* bound on the failures of origin that a run meets

ASSUME AttemptsAssumption == Attempts \in Nat \ {0} /\ MaxRuns \in Nat

VARIABLES
  main,    \* the commits on origin/main
  runs,    \* runs[n]: the phase, attempt, working copy and triggering commit of
           \* run n, and its faults: fetches that failed, and pushes that did
           \* with nothing new on main
  pending  \* the commits of developers whose run has not started

vars == <<main, runs, pending>>

Commit(tag, dev) == [tag |-> tag, dev |-> dev]

Init == main = <<Commit(0, TRUE)>> /\ runs = <<>> /\ pending = {}

Step(n, r) == runs' = [runs EXCEPT ![n] = r]
Devs == {i \in 1 .. Len(main) : main[i].dev}

\* A developer's push lands on main.
Develop ==
  /\ Cardinality(Devs) <= MaxCommits
  /\ main' = Append(main, Commit(Last(main).tag, TRUE))
  /\ pending' = pending \cup {Len(main) + 1}
  /\ UNCHANGED runs

\* A run gets the next number; the checkout is of the commit that started it.
Run(c) ==
  /\ Len(runs) < MaxRuns
  /\ runs' = Append(runs, [phase |-> "edit", attempt |-> 1, base |-> c, trigger |-> c, faults |-> 0])
  /\ UNCHANGED main

\* The runs of commits start in the order of these; one started by hand
\* (workflow_dispatch) is of what main has then.
Start ==
  /\ pending # {} /\ Run(Min(pending))
  /\ pending' = pending \ {Min(pending)}

Dispatch == Run(Len(main)) /\ UNCHANGED pending

\* sed and git diff: a tag already there ends the job, another is committed.
Edit(n) ==
  /\ runs[n].phase = "edit"
  /\ Step(n, [runs[n] EXCEPT !.phase = IF main[runs[n].base].tag = n THEN "done" ELSE "push"])
  /\ UNCHANGED <<main, pending>>

\* Mutants of a push: forced over what arrived; taken as done when rejected.
ForcePush(n) ==
  /\ runs[n].phase = "push"
  /\ main' = Append(SubSeq(main, 1, runs[n].base), Commit(n, FALSE))
  /\ Step(n, [runs[n] EXCEPT !.phase = "done"])
  /\ UNCHANGED pending

UncheckedPush(n) ==
  /\ runs[n].phase = "push"
  /\ main' = IF runs[n].base = Len(main) THEN Append(main, Commit(n, FALSE)) ELSE main
  /\ Step(n, [runs[n] EXCEPT !.phase = "done"])
  /\ UNCHANGED pending

\* Mutant: one attempt too many.
RejectedLate(n, faults) ==
  Step(n, [runs[n] EXCEPT !.phase = IF runs[n].attempt > Attempts THEN "failed" ELSE "fetch",
                          !.faults = @ + faults])

\* A failed push, or one that seems so: the next attempt, or the job's failure.
Rejected(n, faults) ==
  /\ runs[n].faults + faults <= MaxFaults
  /\ Step(n, [runs[n] EXCEPT !.phase = IF runs[n].attempt = Attempts THEN "failed" ELSE "fetch",
                             !.faults = @ + faults])

\* git push: origin takes the commit only when it is on top of main, and that
\* it did may not reach the job; or the push fails, for whatever reason.
Push(n) ==
  LET onTop == runs[n].base = Len(main) IN
  /\ runs[n].phase = "push"
  /\ \/ /\ onTop
        /\ main' = Append(main, Commit(n, FALSE))
        /\ Step(n, [runs[n] EXCEPT !.phase = "done"]) \/ Rejected(n, 0)
     \/ Rejected(n, IF onTop THEN 1 ELSE 0) /\ UNCHANGED main
  /\ UNCHANGED pending

\* Mutants of a retry: from the old checkout; without counting.
FetchNothing(n) ==
  /\ runs[n].phase = "fetch"
  /\ Step(n, [runs[n] EXCEPT !.phase = "edit", !.attempt = @ + 1])
  /\ UNCHANGED <<main, pending>>

FetchUncounted(n) ==
  /\ runs[n].phase = "fetch"
  /\ Step(n, [runs[n] EXCEPT !.phase = "push"])
  /\ UNCHANGED <<main, pending>>

\* The next attempt: git fetch and git reset --hard origin/main.
Fetched(n) == Step(n, [runs[n] EXCEPT !.phase = "edit", !.attempt = @ + 1, !.base = Len(main)])

\* A fetch that fails ends the job (set -e), whatever attempts are left.
FetchFailed(n) ==
  /\ runs[n].faults < MaxFaults
  /\ Step(n, [runs[n] EXCEPT !.phase = "failed", !.faults = @ + 1])

Fetch(n) ==
  /\ runs[n].phase = "fetch"
  /\ Fetched(n) \/ FetchFailed(n)
  /\ UNCHANGED <<main, pending>>

Job(n) == Edit(n) \/ Push(n) \/ Fetch(n)

Next == Develop \/ Start \/ Dispatch \/ \E n \in DOMAIN runs : Job(n)

Spec == Init /\ [][Next]_vars
FairSpec == Spec /\ \A n \in 1 .. MaxRuns : WF_vars(n \in DOMAIN runs /\ Job(n))
-----------------------------------------------------------------------------
TypeOK ==
  /\ main \in Seq([tag : 0 .. MaxRuns, dev : BOOLEAN])
  /\ runs \in Seq([phase : {"edit", "push", "fetch", "done", "failed"}, attempt : 1 .. Attempts,
                   base : Nat, trigger : Nat, faults : Nat])
  /\ Len(runs) <= MaxRuns
  /\ \A n \in DOMAIN runs : runs[n].trigger <= runs[n].base /\ runs[n].base <= Len(main)
  /\ pending \in SUBSET (1 .. Len(main))

\* Nothing that has landed on main is lost, whatever the jobs push over it.
NothingDiscarded == [][IsPrefix(main, main')]_vars

\* A job that ends well has put its own tag on main, after what started it.
DoneIsOnMain ==
  \A n \in DOMAIN runs : runs[n].phase = "done" =>
    \E i \in runs[n].trigger .. Len(main) : main[i].tag = n

\* A job gives up only for cause: a commit landed during every one of its
\* attempts (of others, or its own when the answer to that push was lost), or
\* origin failed it; and before the last attempt only when a fetch failed too.
FailsOnlyForCause ==
  \A n \in DOMAIN runs : LET r == runs[n] IN
    r.phase = "failed" =>
      (Len(main) - r.trigger) + r.faults >= IF r.attempt = Attempts THEN Attempts ELSE r.attempt + 1

\* main's tag goes back to an older one only by a job that was beaten to main
\* and tries again: what a job has checked out at first has no newer tag.
OnlyRetriesRevert ==
  [][Last(main').tag < Last(main).tag =>
       \E n \in DOMAIN runs : /\ runs[n].phase = "push" /\ runs'[n].phase # "push"
                              /\ runs[n].attempt > 1 /\ Last(main').tag = n]_vars

\* Every job ends.
JobsEnd == \A n \in 1 .. MaxRuns : (n \in DOMAIN runs) ~> (n \in DOMAIN runs /\ runs[n].phase \in {"done", "failed"})
=============================================================================
