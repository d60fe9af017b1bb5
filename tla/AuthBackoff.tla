---------------------------- MODULE AuthBackoff ----------------------------
(***************************************************************************)
(* The failure tracker of app/auth.py: _fail_tracker[ip] holds the times   *)
(* of one address's failed attempts, which decide how long its next        *)
(* attempt is refused.  verify_credentials runs in the worker threads of   *)
(* the framework and MCPBasicAuthMiddleware in the event loop's thread, so *)
(* attempts of one address interleave between any two accesses to it.      *)
(*                                                                         *)
(* A time is kept as an age, in ticks, capped at Window: past the window   *)
(* two ages are treated alike.                                             *)
(***************************************************************************)
EXTENDS Naturals, Sequences

CONSTANTS
  Threads, None,
  Verdicts,     \* what the comparison of credentials may say, a set of BOOLEANs
  Window,       \* _WINDOW, in ticks
  MaxFailures,  \* _MAX_FAILURES
  BaseDelay, MaxDelay,  \* _BASE_DELAY and _MAX_DELAY, in ticks
  Second,       \* the ticks of a second
  MaxTracked    \* bound on the failures tracked at once

ASSUME DelayAssumption ==
  /\ MaxFailures \in Nat \ {0} /\ Second \in Nat \ {0}
  /\ BaseDelay \in Nat \ {0} /\ MaxDelay \in Nat /\ Window \in Nat
  /\ BaseDelay <= MaxDelay /\ MaxDelay <= Window
  /\ Verdicts \subseteq BOOLEAN

VARIABLES
  tracker,  \* _fail_tracker[ip], oldest first; empty when there is none
  log,      \* the failures recorded within the window since the last success
  thread,   \* thread[t]: where t is, the list it has filtered, whether its
            \* credentials are right, the time it is about to append and
            \* whether the list it will append to is still the tracker's
  refusal   \* the last 429: the ticks left and the seconds told; None before

vars == <<tracker, log, thread, refusal>>

Idle == [at |-> "idle", kept |-> <<>>, ok |-> FALSE, stamp |-> 0, held |-> FALSE]

Init == tracker = <<>> /\ log = <<>> /\ thread = [t \in Threads |-> Idle] /\ refusal = None

At(t, here) == thread[t].at = here
Go(t, there) == thread' = [thread EXCEPT ![t].at = there]

\* The tracker gets another list: a thread about to append holds the old one.
Replace(t, list, r) ==
  /\ tracker' = list
  /\ thread' = [u \in Threads |-> IF u = t THEN r ELSE [thread[u] EXCEPT !.held = FALSE]]

Fresh(age) == age < Window

\* "t for t in list if t > cutoff", in order.
Kept(list) ==
  LET upTo[n \in 0 .. Len(list)] ==
        IF n = 0 THEN <<>>
        ELSE IF Fresh(list[n]) THEN Append(upTo[n - 1], list[n]) ELSE upTo[n - 1]
  IN upTo[Len(list)]

\* Mutant: an age that runs past the window.
OlderUncapped(age) == age + 1

Older(age) == IF age < Window THEN age + 1 ELSE Window

\* _BASE_DELAY * (2 ** excess)
Doubled(excess) ==
  LET doubled[n \in 0 .. excess] == IF n = 0 THEN BaseDelay ELSE 2 * doubled[n - 1]
  IN doubled[excess]

\* Mutant: a delay without its cap.
DelayUncapped(n) == Doubled(n - MaxFailures)

\* "Incremental delay": doubled for each failure past MaxFailures, and capped.
Delay(n) == IF Doubled(n - MaxFailures) < MaxDelay THEN Doubled(n - MaxFailures) ELSE MaxDelay

\* round() of ticks/Second, a half going to the even neighbour.
Rounded(ticks) ==
  LET q == ticks \div Second
      r == 2 * (ticks % Second) IN
  IF r < Second \/ (r = Second /\ q % 2 = 0) THEN q ELSE q + 1

\* An attempt arrives, with credentials that are right or wrong.
Arrive(t) ==
  /\ At(t, "idle")
  /\ \E ok \in Verdicts : thread' = [thread EXCEPT ![t] = [Idle EXCEPT !.at = "check filter", !.ok = ok]]
  /\ UNCHANGED <<tracker, log, refusal>>

\* _cleanup_old, in three accesses to the tracker: the comprehension reads
\* it, the assignment replaces it, and an empty one is popped.
Filter(t, here, there) ==
  /\ At(t, here)
  /\ thread' = [thread EXCEPT ![t].at = there, ![t].kept = Kept(tracker)]
  /\ UNCHANGED <<tracker, log, refusal>>

Assign(t, here, there, gone) ==
  /\ At(t, here)
  /\ Replace(t, thread[t].kept,
             [thread[t] EXCEPT !.at = IF thread[t].kept = <<>> THEN gone ELSE there, !.kept = <<>>])
  /\ UNCHANGED <<log, refusal>>

Pop(t, here, there) ==
  /\ At(t, here)
  /\ Replace(t, <<>>, [thread[t] EXCEPT !.at = there])
  /\ UNCHANGED <<log, refusal>>

\* Mutant: the delay runs from the first failure tracked.
RefusedFromFirst ==
  /\ Len(tracker) >= MaxFailures
  /\ tracker[1] < Delay(Len(tracker))

\* The rest of check_rate_limit refuses the attempt.
Refused ==
  /\ Len(tracker) >= MaxFailures
  /\ tracker[Len(tracker)] < Delay(Len(tracker))

\* check_rate_limit after its cleanup: the attempt goes on, or ends with a 429.
Check(t) ==
  /\ At(t, "check")
  /\ IF Refused
     THEN LET left == Delay(Len(tracker)) - tracker[Len(tracker)] IN
          /\ refusal' = [left |-> left, told |-> Rounded(left)]
          /\ Go(t, "idle")
     ELSE /\ Go(t, IF thread[t].ok THEN "clear" ELSE "record filter")
          /\ UNCHANGED refusal
  /\ UNCHANGED <<tracker, log>>

\* record_failure after its cleanup: the list and the time are taken ...
Stamp(t) ==
  /\ At(t, "record")
  /\ Len(tracker) < MaxTracked
  /\ thread' = [thread EXCEPT ![t].at = "append", ![t].stamp = 0, ![t].held = TRUE]
  /\ UNCHANGED <<tracker, log, refusal>>

\* Mutant: one time is kept for an address, that of its last failure.
AppendOnlyLast(t) ==
  /\ At(t, "append")
  /\ tracker' = IF thread[t].held THEN <<thread[t].stamp>> ELSE tracker
  /\ log' = Kept(Append(log, thread[t].stamp))
  /\ thread' = [thread EXCEPT ![t] = Idle]
  /\ UNCHANGED refusal

\* ... the time is appended to that list, and the attempt ends with a 401.
AppendTime(t) ==
  /\ At(t, "append")
  /\ tracker' = IF thread[t].held THEN Append(tracker, thread[t].stamp) ELSE tracker
  /\ log' = Kept(Append(log, thread[t].stamp))
  /\ thread' = [thread EXCEPT ![t] = Idle]
  /\ UNCHANGED refusal

\* clear_failures, and the request goes on.
Clear(t) ==
  /\ At(t, "clear")
  /\ Replace(t, <<>>, Idle)
  /\ log' = <<>>
  /\ UNCHANGED refusal

\* Time passes.
Tick ==
  /\ tracker' = [i \in DOMAIN tracker |-> Older(tracker[i])]
  /\ log' = Kept([i \in DOMAIN log |-> Older(log[i])])
  /\ thread' = [t \in Threads |-> [thread[t] EXCEPT
                  !.kept = [i \in DOMAIN @ |-> Older(@[i])],
                  !.stamp = IF thread[t].at = "append" THEN Older(@) ELSE 0]]
  /\ UNCHANGED refusal

Progress(t) ==
  \/ Filter(t, "check filter", "check assign")
  \/ Assign(t, "check assign", "check", "check pop")
  \/ Pop(t, "check pop", "check")
  \/ Check(t)
  \/ Filter(t, "record filter", "record assign")
  \/ Assign(t, "record assign", "record", "record pop")
  \/ Pop(t, "record pop", "record")
  \/ Stamp(t) \/ AppendTime(t) \/ Clear(t)

Next == Tick \/ \E t \in Threads : Arrive(t) \/ Progress(t)

Spec == Init /\ [][Next]_vars
-----------------------------------------------------------------------------
Places ==
  {"idle", "check filter", "check assign", "check pop", "check",
   "record filter", "record assign", "record pop", "record", "append", "clear"}

TypeOK ==
  /\ tracker \in Seq(0 .. Window) /\ log \in Seq(0 .. Window)
  /\ thread \in [Threads -> [at : Places, kept : Seq(0 .. Window), ok : BOOLEAN,
                             stamp : 0 .. Window, held : BOOLEAN]]
  /\ refusal = None \/ refusal \in [left : 1 .. MaxDelay, told : Nat]

\* "Track failed attempts per IP": between attempts, the tracker holds the
\* failures within the window since the last success, no more and no fewer.
FailuresTracked ==
  (\A t \in Threads : At(t, "idle")) => Kept(tracker) = log

\* "Incremental delay: 2s, 4s, 8s, 16s... capped": from the MaxFailures-th
\* failure on, the next one is recorded only after the delay they call for.
SpacingGrows ==
  \A i \in MaxFailures .. Len(log) - 1 : log[i] - log[i + 1] >= Delay(i)

\* An address is refused only when it failed within the last MaxDelay ticks
\* and has not succeeded since: a refused attempt does not prolong the refusal.
RefusedOnlyRecently ==
  [][\A t \in Threads : Check(t) /\ Refused => log # <<>> /\ log[Len(log)] < MaxDelay]_vars
=============================================================================
