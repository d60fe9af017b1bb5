-------------------------- MODULE AuthBackoffProofs --------------------------
(***************************************************************************)
(* TLAPS proofs about AuthBackoff.tla, for every window, threshold and     *)
(* delay: the arithmetic of a refusal; what Kept and Doubled compute, by   *)
(* least counterexample, as a recursive function says no more of itself    *)
(* than one step; that Kept cuts a sorted list; the types, for any number  *)
(* of threads; and for one thread (Alone) that the tracker and the log     *)
(* agree from one access to the next (Coherent), which gives the rest.     *)
(***************************************************************************)
EXTENDS AuthBackoff, TLAPS, SequenceTheorems, WellFoundedInduction

\* A time in whole seconds and what is left.
LEMMA WholeSeconds ==
  ASSUME NEW ticks \in Nat
  PROVE  /\ ticks \div Second \in Nat /\ ticks % Second \in Nat
         /\ ticks % Second < Second
         /\ ticks = Second * (ticks \div Second) + (ticks % Second)
BY DelayAssumption

\* "Retry in {remaining}s" of check_rate_limit: an address that waits as long
\* as it is told is at most half a second early, and at most half a second late.
THEOREM WaitToldIsClose ==
  ASSUME NEW left \in Nat
  PROVE  /\ Rounded(left) \in Nat
         /\ 2 * (Rounded(left) * Second) + Second >= 2 * left
         /\ 2 * (Rounded(left) * Second) <= 2 * left + Second
<1> DEFINE q == left \div Second
           m == left % Second
<1>1. /\ q \in Nat /\ m \in Nat /\ m < Second
      /\ left = Second * q + m
  BY WholeSeconds
<1>2. Rounded(left) = IF 2 * m < Second \/ (2 * m = Second /\ q % 2 = 0) THEN q ELSE q + 1
  BY DEF Rounded
<1>3. Second \in Nat
  BY DelayAssumption
<1> HIDE DEF q, m
<1>4. CASE Rounded(left) = q /\ 2 * m <= Second
  <2>1. q * Second = Second * q
    BY <1>1, <1>3
  <2> QED  BY <2>1, <1>1, <1>3, <1>4
<1>5. CASE Rounded(left) = q + 1 /\ 2 * m >= Second
  <2>1. (q + 1) * Second = Second * q + Second
    BY <1>1, <1>3
  <2> QED  BY <2>1, <1>1, <1>3, <1>5
<1> QED  BY <1>1, <1>2, <1>3, <1>4, <1>5
-----------------------------------------------------------------------------
(* What the two recursive definitions compute.                              *)

\* A set of natural numbers has a least one.
LEMMA Least ==
  ASSUME NEW P \in SUBSET Nat, P # {}
  PROVE  \E x \in P : \A y \in P : x <= y
<1>1. PICK x \in P : \A y \in P : ~(<<y, x>> \in OpToRel(<, Nat))
  BY NatLessThanWellFounded, WFMin
<1>2. ASSUME NEW y \in P PROVE x <= y
  <2>1. y < x => <<y, x>> \in OpToRel(<, Nat)
    BY DEF OpToRel
  <2>2. ~(y < x)
    BY <1>1, <2>1, Zenon
  <2> QED  BY <2>2
<1> QED  BY <1>2

\* g begins with first and goes on from its value at i - 1 by step[i].
Recurs(S, n, first, step, g) ==
  /\ g \in [0 .. n -> S]
  /\ g[0] = first /\ \A i \in 1 .. n : g[i] = step[i][g[i - 1]]

\* There is such a function.
LEMMA Recursion ==
  ASSUME NEW S, NEW n \in Nat, NEW first \in S, NEW step \in [1 .. n -> [S -> S]]
  PROVE  \E g : Recurs(S, n, first, step, g)
<1> DEFINE Made(m, g) == g[0] = first /\ \A i \in 1 .. m : g[i] = step[i][g[i - 1]]
           Missing == {m \in 0 .. n : \A g \in [0 .. m -> S] : ~Made(m, g)}
<1>1. ASSUME Missing # {} PROVE FALSE
  <2>1. PICK m \in Missing : \A k \in Missing : m <= k
    <3>1. Missing \in SUBSET Nat
      OBVIOUS
    <3> HIDE DEF Missing
    <3> QED  BY <1>1, <3>1, Least
  <2>2. CASE m = 0
    <3>1. [i \in 0 .. 0 |-> first] \in [0 .. m -> S] /\ Made(m, [i \in 0 .. 0 |-> first])
      BY <2>2
    <3> QED  BY <3>1
  <2>3. CASE m # 0
    <3>1. m \in 1 .. n /\ m - 1 \in 0 .. n /\ m - 1 \notin Missing
      <4>1. m \in 0 .. n
        OBVIOUS
      <4> HIDE DEF Missing
      <4> QED  BY <2>1, <2>3, <4>1
    <3>2. PICK g \in [0 .. m - 1 -> S] : Made(m - 1, g)
      BY <3>1
    <3> DEFINE h == [i \in 0 .. m |-> IF i = m THEN step[m][g[m - 1]] ELSE g[i]]
    <3>3. step[m] \in [S -> S] /\ g[m - 1] \in S
      BY <3>1
    <3>4. h \in [0 .. m -> S]
      BY <3>1, <3>3
    <3>5. ASSUME NEW i \in 1 .. m PROVE h[i] = step[i][h[i - 1]]
      <4>1. CASE i = m
        BY <4>1, <3>1
      <4>2. CASE i # m
        BY <4>2, <3>1, <3>2
      <4> QED  BY <4>1, <4>2
    <3>6. h[0] = first
      BY <3>1, <3>2
    <3> HIDE DEF h
    <3>7. Made(m, h)
      BY <3>5, <3>6
    <3> QED  BY <3>4, <3>7, <2>1
  <2> QED  BY <2>2, <2>3
<1>2. PICK g \in [0 .. n -> S] : Made(n, g)
  BY <1>1
<1> QED  BY <1>2 DEF Recurs

\* The lists and the ages of the tracker.
Ages == 0 .. Window
Lists == Seq(Ages)

\* Kept, unfolded: what it keeps of ever longer parts of the list.
LEMMA KeptUnfolds ==
  ASSUME NEW list \in Lists
  PROVE  \E u \in [0 .. Len(list) -> Lists] :
           /\ Kept(list) = u[Len(list)]
           /\ u[0] = <<>>
           /\ \A n \in 1 .. Len(list) :
                u[n] = IF Fresh(list[n]) THEN Append(u[n - 1], list[n]) ELSE u[n - 1]
<1> DEFINE Unfolds(u) ==
             u = [n \in 0 .. Len(list) |->
                    IF n = 0 THEN <<>>
                    ELSE IF Fresh(list[n]) THEN Append(u[n - 1], list[n]) ELSE u[n - 1]]
           upTo == CHOOSE u : Unfolds(u)
           step == [n \in 1 .. Len(list) |->
                      [l \in Lists |-> IF Fresh(list[n]) THEN Append(l, list[n]) ELSE l]]
<1>1. step \in [1 .. Len(list) -> [Lists -> Lists]]
  BY DEF Lists
<1>2. Len(list) \in Nat /\ <<>> \in Lists
  BY DEF Lists
<1>3. PICK g : Recurs(Lists, Len(list), <<>>, step, g)
  <2> HIDE DEF step
  <2> QED  BY <1>1, <1>2, Recursion
<1>4. Unfolds(g)
  <2>1. ASSUME NEW n \in 1 .. Len(list)
        PROVE  step[n][g[n - 1]] = IF Fresh(list[n]) THEN Append(g[n - 1], list[n]) ELSE g[n - 1]
    <3>1. g[n - 1] \in Lists
      BY <1>2, <1>3 DEF Recurs
    <3> QED  BY <3>1
  <2> HIDE DEF step
  <2>2. g = [n \in 0 .. Len(list) |-> g[n]]
    BY <1>3 DEF Recurs
  <2>3. ASSUME NEW n \in 0 .. Len(list)
        PROVE  g[n] = IF n = 0 THEN <<>>
                      ELSE IF Fresh(list[n]) THEN Append(g[n - 1], list[n]) ELSE g[n - 1]
    <3>1. CASE n = 0
      BY <1>3, <3>1 DEF Recurs
    <3>2. CASE n \in 1 .. Len(list)
      <4>1. g[n] = step[n][g[n - 1]] /\ n # 0
        BY <1>3, <3>2 DEF Recurs
      <4> QED  BY <2>1, <3>2, <4>1
    <3> QED  BY <1>2, <3>1, <3>2
  <2> QED  BY <1>3, <2>2, <2>3 DEF Recurs
<1>5. Unfolds(upTo)
  <2> HIDE DEF Unfolds
  <2> QED  BY <1>4, Zenon
<1>6. Kept(list) = upTo[Len(list)]
  BY DEF Kept
<1>7. upTo = [n \in 0 .. Len(list) |->
                IF n = 0 THEN <<>>
                ELSE IF Fresh(list[n]) THEN Append(upTo[n - 1], list[n]) ELSE upTo[n - 1]]
  BY <1>5
<1> HIDE DEF upTo
<1>8. /\ upTo[0] = <<>>
      /\ \A n \in 1 .. Len(list) :
           upTo[n] = IF Fresh(list[n]) THEN Append(upTo[n - 1], list[n]) ELSE upTo[n - 1]
  <2>1. upTo[0] = <<>>
    <3>1. 0 \in 0 .. Len(list)
      BY <1>2
    <3> QED  BY <1>7, <3>1
  <2>2. ASSUME NEW n \in 1 .. Len(list)
        PROVE  upTo[n] = IF Fresh(list[n]) THEN Append(upTo[n - 1], list[n]) ELSE upTo[n - 1]
    <3>1. n \in 0 .. Len(list) /\ n # 0
      BY <1>2
    <3> QED  BY <1>7, <3>1
  <2> QED  BY <2>1, <2>2
<1> DEFINE Odd == {n \in 0 .. Len(list) : upTo[n] \notin Lists}
<1>9. ASSUME Odd # {} PROVE FALSE
  <2>1. Odd \in SUBSET Nat
    OBVIOUS
  <2>2. PICK n \in Odd : \A m \in Odd : n <= m
    <3> HIDE DEF Odd
    <3> QED  BY <1>9, <2>1, Least
  <2>3. n \in 1 .. Len(list) /\ n - 1 \in 0 .. Len(list) /\ n - 1 \notin Odd
    <3>1. n \in 0 .. Len(list) /\ n # 0
      BY <1>2, <1>8
    <3> HIDE DEF Odd
    <3> QED  BY <1>2, <2>2, <3>1
  <2>4. upTo[n - 1] \in Lists /\ list[n] \in Ages
    BY <2>3 DEF Lists
  <2>5. upTo[n] \in Lists
    <3>1. Append(upTo[n - 1], list[n]) \in Lists
      BY <2>4 DEF Lists
    <3>2. upTo[n] = Append(upTo[n - 1], list[n]) \/ upTo[n] = upTo[n - 1]
      BY <1>8, <2>3
    <3> QED  BY <2>4, <3>1, <3>2
  <2> QED  BY <2>2, <2>5
<1>10. upTo \in [0 .. Len(list) -> Lists]
  BY <1>7, <1>9
<1> QED  BY <1>6, <1>8, <1>10

LEMMA KeptType ==
  ASSUME NEW list \in Lists
  PROVE  Kept(list) \in Lists
<1>1. Len(list) \in 0 .. Len(list)
  BY DEF Lists
<1> QED  BY <1>1, KeptUnfolds

\* The first k ages of a list are stale, the others fresh.
Cut(list, k) ==
  /\ k \in 0 .. Len(list)
  /\ \A i \in 1 .. k : ~Fresh(list[i])
  /\ \A i \in k + 1 .. Len(list) : Fresh(list[i])

\* l is list without its first k ages.
Rest(list, k, l) ==
  /\ Len(l) = Len(list) - k
  /\ \A i \in 1 .. Len(l) : l[i] = list[i + k]

\* What Kept keeps of a list whose stale ages come first.
LEMMA KeptRest ==
  ASSUME NEW list \in Lists, NEW k, Cut(list, k)
  PROVE  Rest(list, k, Kept(list))
<1>1. PICK u \in [0 .. Len(list) -> Lists] :
        /\ Kept(list) = u[Len(list)]
        /\ u[0] = <<>>
        /\ \A n \in 1 .. Len(list) :
             u[n] = IF Fresh(list[n]) THEN Append(u[n - 1], list[n]) ELSE u[n - 1]
  BY KeptUnfolds
<1>2. Len(list) \in Nat /\ k \in 0 .. Len(list)
  BY DEF Lists, Cut
<1> DEFINE Right(n) == /\ Len(u[n]) = IF n <= k THEN 0 ELSE n - k
                       /\ \A i \in 1 .. Len(u[n]) : u[n][i] = list[i + k]
           Wrong == {n \in 0 .. Len(list) : ~Right(n)}
<1>3. ASSUME Wrong # {} PROVE FALSE
  <2>1. Wrong \in SUBSET Nat
    OBVIOUS
  <2>2. PICK n \in Wrong : \A m \in Wrong : n <= m
    <3> HIDE DEF Wrong
    <3> QED  BY <1>3, <2>1, Least
  <2>3. n \in 0 .. Len(list) /\ n # 0
    BY <1>1, <1>2
  <2>4. n \in 1 .. Len(list) /\ n - 1 \in 0 .. Len(list) /\ n - 1 \notin Wrong
    <3> HIDE DEF Wrong
    <3> QED  BY <1>2, <2>2, <2>3
  <2>5. Right(n - 1) /\ u[n - 1] \in Lists /\ list[n] \in Ages
    BY <2>4 DEF Lists
  <2>6. CASE n <= k
    <3>1. u[n] = u[n - 1]
      BY <1>1, <1>2, <2>4, <2>6 DEF Cut
    <3>2. Right(n)
      BY <1>2, <2>4, <2>5, <2>6, <3>1
    <3> QED  BY <3>2
  <2>7. CASE n > k
    <3>1. u[n] = Append(u[n - 1], list[n])
      <4>1. n \in k + 1 .. Len(list)
        BY <1>2, <2>4, <2>7
      <4>2. Fresh(list[n])
        BY <4>1 DEF Cut
      <4> QED  BY <1>1, <2>4, <4>2
    <3>2. Len(u[n - 1]) = n - 1 - k
      BY <1>2, <2>4, <2>5, <2>7
    <3>3. Len(u[n]) = n - k /\ u[n][n - k] = list[n] /\ \A i \in 1 .. n - 1 - k : u[n][i] = u[n - 1][i]
      BY <1>2, <2>4, <2>5, <2>7, <3>1, <3>2, SMTT(30) DEF Lists
    <3>4. ASSUME NEW i \in 1 .. n - k PROVE u[n][i] = list[i + k]
      <4>1. CASE i = n - k
        BY <1>2, <2>4, <3>3, <4>1
      <4>2. CASE i # n - k
        BY <1>2, <2>4, <2>5, <3>2, <3>3, <4>2
      <4> QED  BY <4>1, <4>2
    <3>5. Right(n)
      BY <1>2, <2>4, <2>7, <3>3, <3>4
    <3> QED  BY <3>5
  <2> QED  BY <1>2, <2>3, <2>6, <2>7
<1>4. Right(Len(list))
  BY <1>2, <1>3
<1> QED  BY <1>1, <1>2, <1>4 DEF Rest

\* Doubled, unfolded: the doublings that lead to it.
LEMMA DoubledUnfolds ==
  ASSUME NEW excess \in Nat
  PROVE  \E d \in [0 .. excess -> Nat] :
           /\ Doubled(excess) = d[excess]
           /\ d[0] = BaseDelay /\ \A n \in 1 .. excess : d[n] = 2 * d[n - 1]
<1> DEFINE Unfolds(d) == d = [n \in 0 .. excess |-> IF n = 0 THEN BaseDelay ELSE 2 * d[n - 1]]
           doubled == CHOOSE d : Unfolds(d)
           step == [n \in 1 .. excess |-> [delay \in Nat |-> 2 * delay]]
<1>1. step \in [1 .. excess -> [Nat -> Nat]]
  OBVIOUS
<1>2. BaseDelay \in Nat
  BY DelayAssumption
<1>3. PICK g : Recurs(Nat, excess, BaseDelay, step, g)
  <2> HIDE DEF step
  <2> QED  BY <1>1, <1>2, Recursion
<1>4. g \in [0 .. excess -> Nat] /\ g[0] = BaseDelay
  BY <1>3 DEF Recurs
<1>5. ASSUME NEW n \in 1 .. excess
      PROVE  g[n] = 2 * g[n - 1]
  <2>1. g[n - 1] \in Nat
    BY <1>4
  <2>2. g[n] = step[n][g[n - 1]]
    BY <1>3 DEF Recurs
  <2> QED  BY <2>1, <2>2
<1>6. Unfolds(g)
  <2>1. g = [n \in 0 .. excess |-> g[n]]
    BY <1>4
  <2>2. ASSUME NEW n \in 0 .. excess
        PROVE  g[n] = IF n = 0 THEN BaseDelay ELSE 2 * g[n - 1]
    BY <1>4, <1>5
  <2> QED  BY <2>1, <2>2
<1>7. Unfolds(doubled)
  <2> HIDE DEF Unfolds
  <2> QED  BY <1>6, Zenon
<1>8. Doubled(excess) = doubled[excess]
  BY DEF Doubled
<1>9. doubled = [n \in 0 .. excess |-> IF n = 0 THEN BaseDelay ELSE 2 * doubled[n - 1]]
  BY <1>7
<1> HIDE DEF doubled
<1>10. doubled[0] = BaseDelay
  BY <1>9
<1>11. ASSUME NEW n \in 1 .. excess
       PROVE  doubled[n] = 2 * doubled[n - 1]
  BY <1>9
<1> DEFINE Odd == {n \in 0 .. excess : doubled[n] \notin Nat}
<1>12. ASSUME Odd # {} PROVE FALSE
  <2>1. Odd \in SUBSET Nat
    OBVIOUS
  <2>2. PICK n \in Odd : \A m \in Odd : n <= m
    <3> HIDE DEF Odd
    <3> QED  BY <1>12, <2>1, Least
  <2>3. n \in 1 .. excess /\ n - 1 \in 0 .. excess /\ n - 1 \notin Odd
    <3>1. n \in 0 .. excess /\ n # 0
      BY <1>2, <1>10
    <3> HIDE DEF Odd
    <3> QED  BY <2>2, <3>1
  <2>4. doubled[n - 1] \in Nat
    BY <2>3
  <2> QED  BY <1>11, <2>2, <2>3, <2>4
<1>13. doubled \in [0 .. excess -> Nat]
  BY <1>9, <1>12
<1> QED  BY <1>8, <1>10, <1>11, <1>13

\* More doublings make no shorter a delay.
LEMMA DoubledGrows ==
  ASSUME NEW m \in Nat, NEW n \in Nat, m <= n
  PROVE  Doubled(m) \in Nat /\ Doubled(n) \in Nat /\ Doubled(m) <= Doubled(n)
<1>1. PICK d \in [0 .. m -> Nat] :
        /\ Doubled(m) = d[m]
        /\ d[0] = BaseDelay /\ \A i \in 1 .. m : d[i] = 2 * d[i - 1]
  BY DoubledUnfolds
<1>2. PICK e \in [0 .. n -> Nat] :
        /\ Doubled(n) = e[n]
        /\ e[0] = BaseDelay /\ \A i \in 1 .. n : e[i] = 2 * e[i - 1]
  BY DoubledUnfolds
<1> DEFINE Differ == {i \in 0 .. m : d[i] # e[i]}
           Shorter == {i \in m .. n : e[i] < e[m]}
<1>3. ASSUME Differ # {} PROVE FALSE
  <2>1. Differ \in SUBSET Nat
    OBVIOUS
  <2>2. PICK i \in Differ : \A j \in Differ : i <= j
    <3> HIDE DEF Differ
    <3> QED  BY <1>3, <2>1, Least
  <2>3. i \in 1 .. m /\ i - 1 \in 0 .. m /\ i - 1 \notin Differ
    <3>1. i \in 0 .. m /\ i # 0
      BY <1>1, <1>2
    <3> HIDE DEF Differ
    <3> QED  BY <2>2, <3>1
  <2>4. d[i - 1] = e[i - 1]
    BY <2>3
  <2>5. d[i] = 2 * d[i - 1] /\ e[i] = 2 * e[i - 1]
    BY <1>1, <1>2, <2>3
  <2> QED  BY <2>2, <2>4, <2>5
<1>4. ASSUME Shorter # {} PROVE FALSE
  <2>1. Shorter \in SUBSET Nat
    OBVIOUS
  <2>2. PICK i \in Shorter : \A j \in Shorter : i <= j
    <3> HIDE DEF Shorter
    <3> QED  BY <1>4, <2>1, Least
  <2>3. i \in m + 1 .. n /\ i - 1 \in m .. n /\ i - 1 \notin Shorter
    <3>1. i \in m .. n /\ i # m
      <4>1. e[m] \in Nat
        OBVIOUS
      <4> QED  BY <4>1
    <3> HIDE DEF Shorter
    <3> QED  BY <2>2, <3>1
  <2>4. e[i - 1] \in Nat /\ e[m] \in Nat /\ e[i - 1] >= e[m]
    BY <2>3
  <2>5. e[i] = 2 * e[i - 1]
    BY <1>2, <2>3
  <2> QED  BY <2>2, <2>4, <2>5
<1>5. d[m] = e[m] /\ e[n] >= e[m]
  <2>1. m \in 0 .. m /\ n \in m .. n /\ e[n] \in Nat /\ e[m] \in Nat
    OBVIOUS
  <2> QED  BY <1>3, <1>4, <2>1
<1> QED  BY <1>1, <1>2, <1>5

\* "Incremental delay": it never shrinks as failures are added, and is capped.
LEMMA DelayGrows ==
  ASSUME NEW m \in Nat, NEW n \in Nat, MaxFailures <= m, m <= n
  PROVE  Delay(m) \in 0 .. MaxDelay /\ Delay(n) \in 0 .. MaxDelay /\ Delay(m) <= Delay(n)
<1>1. m - MaxFailures \in Nat /\ n - MaxFailures \in Nat /\ m - MaxFailures <= n - MaxFailures
  BY DelayAssumption
<1>2. /\ Doubled(m - MaxFailures) \in Nat /\ Doubled(n - MaxFailures) \in Nat
      /\ Doubled(m - MaxFailures) <= Doubled(n - MaxFailures)
  BY <1>1, DoubledGrows
<1> QED  BY <1>2, DelayAssumption DEF Delay

-----------------------------------------------------------------------------
(* Lists of ages, oldest first.                                             *)

Sorted(list) == \A i, j \in DOMAIN list : i <= j => list[i] >= list[j]

Recent(list) == \A i \in DOMAIN list : Fresh(list[i])

\* The stale ages of a sorted list come first.
LEMMA CutExists ==
  ASSUME NEW list \in Lists, Sorted(list)
  PROVE  \E k : Cut(list, k)
<1>1. /\ Len(list) \in Nat /\ DOMAIN list = 1 .. Len(list)
      /\ \A i \in 1 .. Len(list) : list[i] \in Ages
  BY DEF Lists
<1> DEFINE young == {i \in 1 .. Len(list) : Fresh(list[i])}
<1>2. CASE young = {}
  <2>1. Cut(list, Len(list))
    BY <1>1, <1>2 DEF Cut
  <2> QED  BY <2>1
<1>3. CASE young # {}
  <2>1. young \in SUBSET Nat
    OBVIOUS
  <2>2. PICK x \in young : \A y \in young : x <= y
    <3> HIDE DEF young
    <3> QED  BY <1>3, <2>1, Least
  <2>3. x \in 1 .. Len(list) /\ Fresh(list[x])
    OBVIOUS
  <2>4. ASSUME NEW i \in 1 .. x - 1 PROVE ~Fresh(list[i])
    <3>1. i \in 1 .. Len(list) /\ ~(x <= i)
      BY <1>1, <2>3
    <3>2. i \notin young
      <4> HIDE DEF young
      <4> QED  BY <2>2, <3>1
    <3> QED  BY <3>1, <3>2
  <2>5. ASSUME NEW i \in x .. Len(list) PROVE Fresh(list[i])
    <3>1. i \in 1 .. Len(list) /\ list[x] >= list[i]
      BY <1>1, <2>3 DEF Sorted
    <3> QED  BY <1>1, <2>3, <3>1, DelayAssumption DEF Fresh, Ages
  <2>6. Cut(list, x - 1)
    BY <1>1, <2>3, <2>4, <2>5 DEF Cut
  <2> QED  BY <2>6
<1> QED  BY <1>2, <1>3

\* Only one list is the rest of another.
LEMMA KeptIs ==
  ASSUME NEW list \in Lists, NEW k, Cut(list, k), NEW l \in Lists, Rest(list, k, l)
  PROVE  Kept(list) = l
<1>1. Kept(list) \in Lists /\ Rest(list, k, Kept(list))
  BY KeptType, KeptRest
<1>2. Len(Kept(list)) = Len(l) /\ \A i \in 1 .. Len(l) : Kept(list)[i] = l[i]
  BY <1>1 DEF Rest
<1> QED  BY <1>1, <1>2, SeqEqual DEF Lists

\* What Kept keeps of a sorted list is its recent part, still sorted.
LEMMA KeptSorted ==
  ASSUME NEW list \in Lists, Sorted(list)
  PROVE  /\ Kept(list) \in Lists /\ Sorted(Kept(list)) /\ Recent(Kept(list))
         /\ \E k : Cut(list, k) /\ Rest(list, k, Kept(list))
<1>1. PICK k : Cut(list, k)
  BY CutExists
<1>2. Kept(list) \in Lists /\ Rest(list, k, Kept(list))
  BY <1>1, KeptType, KeptRest
<1>3. /\ Len(list) \in Nat /\ DOMAIN list = 1 .. Len(list) /\ k \in 0 .. Len(list)
      /\ Len(Kept(list)) = Len(list) - k /\ DOMAIN Kept(list) = 1 .. Len(list) - k
      /\ \A i \in 1 .. Len(list) - k : Kept(list)[i] = list[i + k]
  BY <1>1, <1>2 DEF Lists, Cut, Rest
<1>4. \A i \in 1 .. Len(list) - k : i + k \in k + 1 .. Len(list) /\ i + k \in 1 .. Len(list)
  BY <1>3
<1>5. Recent(Kept(list))
  BY <1>1, <1>3, <1>4 DEF Recent, Cut
<1>6. Sorted(Kept(list))
  <2> SUFFICES ASSUME NEW i \in 1 .. Len(list) - k, NEW j \in 1 .. Len(list) - k, i <= j
               PROVE  list[i + k] >= list[j + k]
    BY <1>3 DEF Sorted
  <2>1. i + k <= j + k
    BY <1>3
  <2> QED  BY <1>3, <1>4, <2>1 DEF Sorted
<1> QED  BY <1>1, <1>2, <1>5, <1>6

\* A list of recent ages is kept as it is.
LEMMA RecentKept ==
  ASSUME NEW list \in Lists, Recent(list)
  PROVE  Kept(list) = list
<1>1. Len(list) \in Nat /\ DOMAIN list = 1 .. Len(list)
  BY DEF Lists
<1>2. Cut(list, 0) /\ Rest(list, 0, list)
  BY <1>1 DEF Cut, Rest, Recent
<1> QED  BY <1>2, KeptIs

\* A list a tick later.
Aged(list) == [i \in DOMAIN list |-> Older(list[i])]

LEMMA OlderType ==
  ASSUME NEW age \in Ages
  PROVE  /\ Older(age) \in Ages /\ Older(age) >= age
         /\ Fresh(age) => Older(age) = age + 1
         /\ ~Fresh(age) => Older(age) = age
BY DelayAssumption DEF Older, Fresh, Ages

LEMMA AgedType ==
  ASSUME NEW list \in Lists
  PROVE  /\ Aged(list) \in Lists /\ Len(Aged(list)) = Len(list)
         /\ \A i \in 1 .. Len(list) : Aged(list)[i] = Older(list[i])
         /\ Sorted(list) => Sorted(Aged(list))
<1>1. /\ Len(list) \in Nat /\ DOMAIN list = 1 .. Len(list)
      /\ \A i \in 1 .. Len(list) : list[i] \in Ages
  BY DEF Lists
<1>2. Aged(list) = [i \in 1 .. Len(list) |-> Older(list[i])]
  BY <1>1 DEF Aged
<1>3. \A i \in 1 .. Len(list) : Older(list[i]) \in Ages
  BY <1>1, OlderType
<1>4. Aged(list) \in Lists /\ Len(Aged(list)) = Len(list)
  BY <1>1, <1>2, <1>3 DEF Lists
<1>5. ASSUME Sorted(list) PROVE Sorted(Aged(list))
  <2> SUFFICES ASSUME NEW i \in 1 .. Len(list), NEW j \in 1 .. Len(list), i <= j
               PROVE  Older(list[i]) >= Older(list[j])
    BY <1>2 DEF Sorted
  <2>1. list[i] \in Ages /\ list[j] \in Ages /\ list[i] >= list[j]
    BY <1>1, <1>5 DEF Sorted
  <2> QED  BY <2>1, DelayAssumption DEF Older, Ages
<1> QED  BY <1>2, <1>4, <1>5

\* A list and what was kept of it, a tick later: the same is kept of both.
LEMMA KeptAged ==
  ASSUME NEW list \in Lists, Sorted(list)
  PROVE  Kept(Aged(list)) = Kept(Aged(Kept(list)))
<1> DEFINE l == Kept(list)
           m == Kept(Aged(l))
<1>1. PICK k : Cut(list, k) /\ Rest(list, k, l)
  BY KeptSorted
<1>2. l \in Lists /\ Sorted(l)
  BY KeptSorted
<1>3. /\ Aged(l) \in Lists /\ Len(Aged(l)) = Len(l) /\ Sorted(Aged(l))
      /\ \A i \in 1 .. Len(l) : Aged(l)[i] = Older(l[i])
  BY <1>2, AgedType
<1>4. m \in Lists
  BY <1>3, KeptType
<1>5. PICK j : Cut(Aged(l), j) /\ Rest(Aged(l), j, m)
  BY <1>3, KeptSorted
<1>6. /\ Aged(list) \in Lists /\ Len(Aged(list)) = Len(list)
      /\ \A i \in 1 .. Len(list) : Aged(list)[i] = Older(list[i])
  BY AgedType
<1> HIDE DEF m, l
<1>7. /\ Len(list) \in Nat /\ k \in 0 .. Len(list) /\ j \in 0 .. Len(l)
      /\ Len(l) = Len(list) - k /\ Len(m) = Len(l) - j
      /\ \A i \in 1 .. Len(list) : list[i] \in Ages
  BY <1>1, <1>3, <1>5 DEF Lists, Cut, Rest
<1>8. \A i \in 1 .. Len(l) : Aged(list)[i + k] = Aged(l)[i]
  BY <1>1, <1>3, <1>6, <1>7 DEF Rest
<1>9. Cut(Aged(list), k + j)
  <2>1. ASSUME NEW i \in 1 .. k + j PROVE ~Fresh(Aged(list)[i])
    <3>1. CASE i <= k
      <4>1. i \in 1 .. Len(list) /\ ~Fresh(list[i]) /\ list[i] \in Ages
        BY <1>1, <1>7, <3>1 DEF Cut
      <4>2. Aged(list)[i] = list[i]
        BY <1>6, <4>1, OlderType
      <4> QED  BY <4>1, <4>2
    <3>2. CASE i > k
      <4>1. i - k \in 1 .. j /\ i - k \in 1 .. Len(l) /\ (i - k) + k = i
        BY <1>7, <3>2
      <4>2. Aged(list)[i] = Aged(l)[i - k]
        BY <1>8, <4>1
      <4> QED  BY <1>5, <4>1, <4>2 DEF Cut
    <3> QED  BY <1>7, <3>1, <3>2
  <2>2. ASSUME NEW i \in k + j + 1 .. Len(list) PROVE Fresh(Aged(list)[i])
    <3>1. i - k \in j + 1 .. Len(l) /\ i - k \in 1 .. Len(l) /\ (i - k) + k = i
      BY <1>7
    <3>2. Aged(list)[i] = Aged(l)[i - k]
      BY <1>8, <3>1
    <3> QED  BY <1>3, <1>5, <3>1, <3>2 DEF Cut
  <2> QED  BY <1>6, <1>7, <2>1, <2>2 DEF Cut
<1>10. Rest(Aged(list), k + j, m)
  <2>1. ASSUME NEW i \in 1 .. Len(m) PROVE m[i] = Aged(list)[i + (k + j)]
    <3>1. i + j \in 1 .. Len(l) /\ (i + j) + k = i + (k + j)
      BY <1>7
    <3>2. m[i] = Aged(l)[i + j]
      BY <1>5 DEF Rest
    <3> QED  BY <1>8, <3>1, <3>2
  <2>2. Len(m) = Len(Aged(list)) - (k + j)
    BY <1>6, <1>7
  <2> QED  BY <2>1, <2>2 DEF Rest
<1>11. Kept(Aged(list)) = m
  BY <1>4, <1>6, <1>9, <1>10, KeptIs
<1> QED  BY <1>11 DEF m, l

\* A list and what was kept of it, with a time appended that is no older than
\* they: the same is kept of both.
LEMMA KeptAppended ==
  ASSUME NEW list \in Lists, Sorted(list), NEW age \in Ages,
         list # <<>> => list[Len(list)] >= age
  PROVE  /\ Append(list, age) \in Lists /\ Sorted(Append(list, age))
         /\ Kept(Append(list, age)) = Kept(Append(Kept(list), age))
         /\ Fresh(age) => Kept(Append(list, age)) = Append(Kept(list), age)
         /\ ~Fresh(age) => Kept(Append(list, age)) = <<>>
<1> DEFINE more == Append(list, age)
           l == Kept(list)
<1>1. /\ Len(list) \in Nat /\ more \in Lists /\ Len(more) = Len(list) + 1
      /\ more[Len(list) + 1] = age /\ \A i \in 1 .. Len(list) : more[i] = list[i]
      /\ \A i \in 1 .. Len(list) : list[i] \in Ages
      /\ DOMAIN list = 1 .. Len(list) /\ DOMAIN more = 1 .. Len(list) + 1
  BY DEF Lists
<1>2. \A i \in 1 .. Len(list) : list[i] >= age
  <2> SUFFICES ASSUME NEW i \in 1 .. Len(list) PROVE list[i] >= age
    OBVIOUS
  <2>1. list # <<>> /\ Len(list) \in 1 .. Len(list) /\ i <= Len(list)
    BY <1>1
  <2>2. list[i] >= list[Len(list)]
    BY <1>1, <2>1 DEF Sorted
  <2> QED  BY <1>1, <2>1, <2>2 DEF Ages
<1>3. Sorted(more)
  <2> SUFFICES ASSUME NEW i \in 1 .. Len(list) + 1, NEW j \in 1 .. Len(list) + 1, i <= j
               PROVE  more[i] >= more[j]
    BY <1>1 DEF Sorted
  <2>1. CASE j \in 1 .. Len(list)
    <3>1. i \in 1 .. Len(list)
      BY <1>1, <2>1
    <3> QED  BY <1>1, <2>1, <3>1 DEF Sorted
  <2>2. CASE j = Len(list) + 1 /\ i \in 1 .. Len(list)
    BY <1>1, <1>2, <2>2
  <2>3. CASE j = Len(list) + 1 /\ i = Len(list) + 1
    BY <1>1, <2>3 DEF Ages
  <2> QED  BY <1>1, <2>1, <2>2, <2>3
<1>4. PICK k : Cut(list, k) /\ Rest(list, k, l)
  BY KeptSorted
<1>5. l \in Lists /\ Recent(l)
  BY KeptSorted
<1> HIDE DEF more, l
<1>6. k \in 0 .. Len(list) /\ Len(l) = Len(list) - k
  BY <1>4 DEF Cut, Rest
<1>7. /\ Append(l, age) \in Lists /\ Len(Append(l, age)) = Len(l) + 1
      /\ Append(l, age)[Len(l) + 1] = age
      /\ \A i \in 1 .. Len(l) : Append(l, age)[i] = l[i] /\ Fresh(l[i])
      /\ DOMAIN Append(l, age) = 1 .. Len(l) + 1 /\ Len(l) \in Nat
  BY <1>5 DEF Lists, Recent
<1>8. CASE Fresh(age)
  <2>1. Cut(more, k)
    BY <1>1, <1>4, <1>6, <1>8 DEF Cut
  <2>2. Rest(more, k, Append(l, age))
    <3>1. ASSUME NEW i \in 1 .. Len(l) + 1 PROVE Append(l, age)[i] = more[i + k]
      <4>1. CASE i = Len(l) + 1
        BY <1>1, <1>6, <1>7, <4>1
      <4>2. CASE i \in 1 .. Len(l)
        BY <1>1, <1>4, <1>6, <1>7, <4>2 DEF Rest
      <4> QED  BY <1>7, <4>1, <4>2
    <3> QED  BY <1>1, <1>6, <1>7, <3>1 DEF Rest
  <2>3. Kept(more) = Append(l, age)
    BY <1>1, <1>7, <2>1, <2>2, KeptIs
  <2>4. Recent(Append(l, age))
    BY <1>7, <1>8 DEF Recent
  <2>5. Kept(Append(l, age)) = Append(l, age)
    BY <1>7, <2>4, RecentKept
  <2> QED  BY <1>1, <1>3, <1>8, <2>3, <2>5 DEF more, l
<1>9. CASE ~Fresh(age)
  <2>1. \A i \in 1 .. Len(list) : ~Fresh(list[i])
    BY <1>1, <1>2, <1>9, DelayAssumption DEF Fresh, Ages
  <2>2. Len(l) = 0
    <3>1. Len(list) \in Nat
      BY <1>1
    <3>2. k + 1 \notin 1 .. Len(list)
      BY <1>4, <1>6, <2>1, <3>1 DEF Cut
    <3>3. k = Len(list)
      BY <1>6, <3>1, <3>2
    <3> QED  BY <1>6, <3>1, <3>3
  <2>3. Cut(more, Len(list) + 1) /\ Rest(more, Len(list) + 1, <<>>)
    BY <1>1, <1>9, <2>1 DEF Cut, Rest
  <2>4. Cut(Append(l, age), 1) /\ Rest(Append(l, age), 1, <<>>)
    BY <1>7, <1>9, <2>2 DEF Cut, Rest
  <2>5. <<>> \in Lists
    BY DEF Lists
  <2>6. Kept(more) = <<>> /\ Kept(Append(l, age)) = <<>>
    BY <1>1, <1>7, <2>3, <2>4, <2>5, KeptIs
  <2> QED  BY <1>1, <1>3, <1>9, <2>6 DEF more, l
<1> QED  BY <1>8, <1>9
-----------------------------------------------------------------------------
(* Types, for any number of threads.                                        *)

ThreadStates == [at : Places, kept : Lists, ok : BOOLEAN, stamp : Ages, held : BOOLEAN]

Refusals == [left : 1 .. MaxDelay, told : Nat]

LEMMA TypeUnfolds ==
  TypeOK <=> /\ tracker \in Lists /\ log \in Lists
             /\ thread \in [Threads -> ThreadStates]
             /\ (refusal = None \/ refusal \in Refusals)
BY DEF TypeOK, ThreadStates, Lists, Ages, Refusals

LEMMA TypeNext ==
  ASSUME tracker' \in Lists, log' \in Lists, thread' \in [Threads -> ThreadStates],
         refusal' = None \/ refusal' \in Refusals
  PROVE  TypeOK'
BY DEF TypeOK, ThreadStates, Lists, Ages, Refusals

LEMMA TypeNextUnfolds ==
  TypeOK' => /\ tracker' \in Lists /\ log' \in Lists
             /\ thread' \in [Threads -> ThreadStates]
BY DEF TypeOK, ThreadStates, Lists, Ages

LEMMA IdleType == Idle \in ThreadStates
BY DelayAssumption DEF Idle, ThreadStates, Places, Lists, Ages

\* The list of one thread's tracker, and its state, are replaced.
LEMMA ReplaceTyped ==
  ASSUME TypeOK, NEW t \in Threads, NEW list \in Lists, NEW r \in ThreadStates, Replace(t, list, r)
  PROVE  tracker' \in Lists /\ thread' \in [Threads -> ThreadStates]
<1>1. thread \in [Threads -> ThreadStates]
  BY TypeUnfolds
<1>2. ASSUME NEW u \in Threads
      PROVE  (IF u = t THEN r ELSE [thread[u] EXCEPT !.held = FALSE]) \in ThreadStates
  BY <1>1 DEF ThreadStates
<1> QED  BY <1>2 DEF Replace

LEMMA TickTyped ==
  ASSUME TypeOK, Tick
  PROVE  TypeOK'
<1>1. tracker' = Aged(tracker) /\ log' = Kept(Aged(log)) /\ refusal' = refusal
  BY DEF Tick, Aged
<1>2. tracker' \in Lists /\ log' \in Lists
  BY <1>1, TypeUnfolds, AgedType, KeptType
<1>3. ASSUME NEW t \in Threads
      PROVE  [thread[t] EXCEPT
                !.kept = [i \in DOMAIN @ |-> Older(@[i])],
                !.stamp = IF thread[t].at = "append" THEN Older(@) ELSE 0] \in ThreadStates
  <2>1. thread[t] \in ThreadStates
    BY TypeUnfolds
  <2>2. [i \in DOMAIN thread[t].kept |-> Older(thread[t].kept[i])] \in Lists
    <3>1. thread[t].kept \in Lists
      BY <2>1 DEF ThreadStates
    <3> QED  BY <3>1, AgedType DEF Aged
  <2>3. (IF thread[t].at = "append" THEN Older(thread[t].stamp) ELSE 0) \in Ages
    <3>1. thread[t].stamp \in Ages /\ 0 \in Ages
      BY <2>1, DelayAssumption DEF ThreadStates, Ages
    <3> QED  BY <3>1, OlderType
  <2> QED  BY <2>1, <2>2, <2>3 DEF ThreadStates
<1>4. thread' \in [Threads -> ThreadStates]
  BY <1>3 DEF Tick
<1> QED  BY <1>1, <1>2, <1>4, TypeUnfolds, TypeNext

\* A refusal tells a wait of at least a tick and at most MaxDelay.
LEMMA RefusalType ==
  ASSUME TypeOK, Refused
  PROVE  /\ Len(tracker) \in 1 .. Len(tracker) /\ tracker[Len(tracker)] \in Ages
         /\ Delay(Len(tracker)) \in 0 .. MaxDelay
         /\ Delay(Len(tracker)) - tracker[Len(tracker)] \in 1 .. MaxDelay
         /\ Rounded(Delay(Len(tracker)) - tracker[Len(tracker)]) \in Nat
<1>1. Len(tracker) \in Nat /\ MaxFailures <= Len(tracker) /\ MaxFailures \in Nat \ {0}
  BY TypeUnfolds, DelayAssumption DEF Refused, Lists
<1>2. Len(tracker) \in 1 .. Len(tracker)
  BY <1>1
<1>3. tracker[Len(tracker)] \in Ages
  BY <1>2, TypeUnfolds DEF Lists
<1>4. Delay(Len(tracker)) \in 0 .. MaxDelay
  BY <1>1, DelayGrows
<1>5. Delay(Len(tracker)) - tracker[Len(tracker)] \in 1 .. MaxDelay
  BY <1>3, <1>4, DelayAssumption DEF Refused, Ages
<1>6. Delay(Len(tracker)) - tracker[Len(tracker)] \in Nat
  BY <1>5
<1> QED  BY <1>2, <1>3, <1>4, <1>5, <1>6, WaitToldIsClose

LEMMA ThreadTyped ==
  ASSUME TypeOK, NEW t \in Threads, Arrive(t) \/ Progress(t)
  PROVE  TypeOK'
<1>1. /\ tracker \in Lists /\ log \in Lists /\ thread \in [Threads -> ThreadStates]
      /\ thread[t] \in ThreadStates /\ (refusal = None \/ refusal \in Refusals)
  BY TypeUnfolds
<1>2. <<>> \in Lists /\ Idle \in ThreadStates /\ 0 \in Ages
  BY IdleType, DelayAssumption DEF Lists, Ages
<1>3. ASSUME NEW there \in Places PROVE [thread[t] EXCEPT !.at = there] \in ThreadStates
  BY <1>1 DEF ThreadStates
<1>4. CASE Arrive(t)
  <2>1. PICK ok \in Verdicts : thread' = [thread EXCEPT ![t] = [Idle EXCEPT !.at = "check filter", !.ok = ok]]
    BY <1>4 DEF Arrive
  <2>2. [Idle EXCEPT !.at = "check filter", !.ok = ok] \in ThreadStates
    BY <1>2, DelayAssumption DEF ThreadStates, Places
  <2>3. UNCHANGED <<tracker, log, refusal>>
    BY <1>4 DEF Arrive
  <2> QED  BY <1>1, <2>1, <2>2, <2>3, TypeNext
<1>5. ASSUME NEW here, NEW there \in Places, Filter(t, here, there) PROVE TypeOK'
  <2>1. [thread[t] EXCEPT !.at = there, !.kept = Kept(tracker)] \in ThreadStates
    BY <1>1, KeptType DEF ThreadStates
  <2>2. /\ thread' = [thread EXCEPT ![t] = [thread[t] EXCEPT !.at = there, !.kept = Kept(tracker)]]
        /\ UNCHANGED <<tracker, log, refusal>>
    BY <1>1, <1>5 DEF Filter
  <2> QED  BY <1>1, <2>1, <2>2, TypeNext
<1>6. ASSUME NEW here, NEW there \in Places, NEW gone \in Places, Assign(t, here, there, gone) PROVE TypeOK'
  <2> DEFINE r == [thread[t] EXCEPT !.at = IF thread[t].kept = <<>> THEN gone ELSE there, !.kept = <<>>]
  <2>1. r \in ThreadStates /\ thread[t].kept \in Lists
    BY <1>1, <1>2 DEF ThreadStates
  <2>2. Replace(t, thread[t].kept, r) /\ UNCHANGED <<log, refusal>>
    BY <1>6 DEF Assign
  <2> HIDE DEF r
  <2>3. tracker' \in Lists /\ thread' \in [Threads -> ThreadStates]
    BY <2>1, <2>2, ReplaceTyped
  <2> QED  BY <1>1, <2>2, <2>3, TypeNext
<1>7. ASSUME NEW here, NEW there \in Places, Pop(t, here, there) PROVE TypeOK'
  <2>1. tracker' \in Lists /\ thread' \in [Threads -> ThreadStates]
    BY <1>2, <1>3, <1>7, ReplaceTyped DEF Pop
  <2> QED  BY <1>1, <1>7, <2>1, TypeNext DEF Pop
<1>8. CASE Check(t)
  <2>1. thread' \in [Threads -> ThreadStates]
    <3>1. PICK there \in Places : Go(t, there)
      BY <1>8 DEF Check, Places
    <3>2. thread' = [thread EXCEPT ![t] = [thread[t] EXCEPT !.at = there]]
      BY <1>1, <3>1 DEF Go
    <3> QED  BY <1>1, <1>3, <3>2
  <2>2. refusal' = None \/ refusal' \in Refusals
    <3>1. CASE Refused
      BY <1>8, <3>1, RefusalType DEF Check, Refusals
    <3>2. CASE ~Refused
      BY <1>1, <1>8, <3>2 DEF Check
    <3> QED  BY <3>1, <3>2
  <2>3. UNCHANGED <<tracker, log>>
    BY <1>8 DEF Check
  <2> QED  BY <1>1, <2>1, <2>2, <2>3, TypeNext
<1>9. CASE Stamp(t)
  <2>1. [thread[t] EXCEPT !.at = "append", !.stamp = 0, !.held = TRUE] \in ThreadStates
    BY <1>1, <1>2 DEF ThreadStates, Places
  <2>2. /\ thread' = [thread EXCEPT ![t] = [thread[t] EXCEPT !.at = "append", !.stamp = 0, !.held = TRUE]]
        /\ UNCHANGED <<tracker, log, refusal>>
    BY <1>1, <1>9 DEF Stamp
  <2> QED  BY <1>1, <2>1, <2>2, TypeNext
<1>10. CASE AppendTime(t)
  <2>1. thread[t].stamp \in Ages
    BY <1>1 DEF ThreadStates
  <2>2. Append(tracker, thread[t].stamp) \in Lists /\ Append(log, thread[t].stamp) \in Lists
    BY <1>1, <2>1 DEF Lists
  <2>3. tracker' \in Lists /\ log' \in Lists
    BY <1>1, <1>10, <2>2, KeptType DEF AppendTime
  <2>4. thread' \in [Threads -> ThreadStates] /\ refusal' = refusal
    BY <1>1, <1>2, <1>10 DEF AppendTime
  <2> QED  BY <1>1, <2>3, <2>4, TypeNext
<1>11. CASE Clear(t)
  <2>1. tracker' \in Lists /\ thread' \in [Threads -> ThreadStates]
    BY <1>2, <1>11, ReplaceTyped DEF Clear
  <2> QED  BY <1>1, <1>2, <1>11, <2>1, TypeNext DEF Clear
<1>12. ASSUME Progress(t) PROVE TypeOK'
  BY <1>5, <1>6, <1>7, <1>8, <1>9, <1>10, <1>11, <1>12 DEF Progress, Places
<1> QED  BY <1>4, <1>12

LEMMA InitTyped == Init => TypeOK
<1> SUFFICES ASSUME Init PROVE TypeOK
  OBVIOUS
<1>1. tracker \in Lists /\ log \in Lists /\ thread \in [Threads -> ThreadStates] /\ refusal = None
  BY IdleType DEF Init, Lists
<1> QED  BY <1>1, TypeUnfolds

LEMMA NextTyped == TypeOK /\ [Next]_vars => TypeOK'
<1> SUFFICES ASSUME TypeOK, [Next]_vars PROVE TypeOK'
  OBVIOUS
<1>1. CASE Next
  BY <1>1, TickTyped, ThreadTyped DEF Next
<1>2. CASE UNCHANGED vars
  BY <1>2 DEF vars, TypeOK
<1> QED  BY <1>1, <1>2

\* TypeOK, for any number of threads: every list holds ages of at most the
\* window, and a refusal tells a wait of 1 to MaxDelay ticks.
THEOREM TypeCorrect == Spec => []TypeOK
BY InitTyped, NextTyped, PTL DEF Spec

-----------------------------------------------------------------------------
(* One thread: what the tracker holds from one access to the next.          *)

\* Each failure from the MaxFailures-th on is followed no sooner than it calls for.
Spaced(list) == \A i \in MaxFailures .. Len(list) - 1 : list[i] - list[i + 1] >= Delay(i)

\* A failure of that age may follow the list.
Due(list, age) ==
  list # <<>> => /\ list[Len(list)] >= age
                 /\ Len(list) >= MaxFailures => list[Len(list)] - age >= Delay(Len(list))

\* The places of a thread that has filtered the tracker and not yet replaced
\* it, that has found nothing to keep, and that was let through with
\* credentials that are wrong.
Assigning == {"check assign", "record assign"}
Popping == {"check pop", "record pop"}
Recording == {"record filter", "record assign", "record pop", "record"}

\* The inductive invariant, of the tracker, the log and the thread's state.
Coherent(list, failures, r) ==
  /\ Sorted(list) /\ Sorted(r.kept)
  /\ Sorted(failures) /\ Recent(failures) /\ Spaced(failures)
  /\ r.at \in Assigning => Kept(r.kept) = failures
  /\ r.at \notin Assigning => Kept(list) = failures
  /\ r.at \in Popping => list = <<>>
  /\ r.at \in Recording => Due(failures, 0)
  /\ r.at = "append" => /\ r.held /\ Due(failures, r.stamp)
                        /\ list # <<>> => list[Len(list)] >= r.stamp

\* A list is empty when its length is 0.
LEMMA Nonempty ==
  ASSUME NEW l \in Lists
  PROVE  /\ Len(l) \in Nat
         /\ l # <<>> <=> Len(l) # 0
         /\ l # <<>> => Len(l) \in 1 .. Len(l)
<1>1. Len(l) \in Nat
  BY DEF Lists
<1>2. l = <<>> <=> Len(l) = 0
  BY EmptySeq DEF Lists
<1> QED  BY <1>1, <1>2

\* The most recent of what is kept of a list is the last of the list.
LEMMA LastKept ==
  ASSUME NEW list \in Lists, Sorted(list)
  PROVE  /\ Len(Kept(list)) \in Nat /\ Len(list) \in Nat /\ Len(Kept(list)) <= Len(list)
         /\ Kept(list) # <<>> => /\ list # <<>> /\ Len(Kept(list)) \in 1 .. Len(Kept(list))
                                 /\ Kept(list)[Len(Kept(list))] = list[Len(list)]
         /\ list # <<>> /\ Fresh(list[Len(list)]) => Kept(list) # <<>>
<1> DEFINE l == Kept(list)
<1>1. l \in Lists /\ \E k : Cut(list, k) /\ Rest(list, k, l)
  BY KeptSorted
<1>2. PICK k : Cut(list, k) /\ Rest(list, k, l)
  BY <1>1
<1> HIDE DEF l
<1>3. /\ Len(l) \in Nat /\ Len(list) \in Nat /\ k \in 0 .. Len(list) /\ Len(l) = Len(list) - k
      /\ l # <<>> <=> Len(l) # 0
      /\ list # <<>> <=> Len(list) # 0
  <2>1. k \in 0 .. Len(list) /\ Len(l) = Len(list) - k
    BY <1>2 DEF Cut, Rest
  <2> QED  BY <1>1, <2>1, Nonempty
<1>4. ASSUME l # <<>> PROVE list # <<>> /\ Len(l) \in 1 .. Len(l) /\ l[Len(l)] = list[Len(list)]
  <2>1. Len(l) \in 1 .. Len(l) /\ Len(l) + k = Len(list) /\ Len(list) # 0
    BY <1>3, <1>4
  <2>2. l[Len(l)] = list[Len(l) + k]
    BY <1>2, <2>1 DEF Rest
  <2> QED  BY <1>3, <2>1, <2>2
<1>5. ASSUME list # <<>>, Fresh(list[Len(list)]) PROVE l # <<>>
  <2>1. Len(list) \notin 1 .. k
    BY <1>2, <1>5 DEF Cut
  <2> QED  BY <1>3, <1>5, <2>1
<1> QED  BY <1>3, <1>4, <1>5 DEF l

\* The failures of the window, a tick later.
LEMMA FailuresAged ==
  ASSUME NEW l \in Lists, Sorted(l), Recent(l), Spaced(l)
  PROVE  /\ Spaced(Kept(Aged(l)))
         /\ Due(l, 0) => Due(Kept(Aged(l)), 0)
         /\ \A age \in Ages : Due(l, age) => Due(Kept(Aged(l)), Older(age))
<1> DEFINE m == Kept(Aged(l))
<1>1. /\ Aged(l) \in Lists /\ Len(Aged(l)) = Len(l) /\ Sorted(Aged(l))
      /\ \A i \in 1 .. Len(l) : Aged(l)[i] = Older(l[i])
  BY AgedType
<1>2. PICK j : Cut(Aged(l), j) /\ Rest(Aged(l), j, m)
  BY <1>1, KeptSorted
<1>3. m \in Lists
  BY <1>1, KeptType
<1> HIDE DEF m
<1>4. /\ Len(l) \in Nat /\ j \in 0 .. Len(l) /\ Len(m) = Len(l) - j /\ Len(m) \in Nat
      /\ \A i \in 1 .. Len(l) : l[i] \in Ages /\ Fresh(l[i]) /\ l[i] \in Nat
      /\ m # <<>> <=> Len(m) # 0
      /\ l # <<>> <=> Len(l) # 0
  <2>1. j \in 0 .. Len(l) /\ Len(m) = Len(l) - j
    BY <1>1, <1>2 DEF Cut, Rest
  <2>2. \A i \in 1 .. Len(l) : l[i] \in Ages /\ Fresh(l[i]) /\ l[i] \in Nat
    BY DelayAssumption DEF Lists, Recent, Ages
  <2> QED  BY <1>3, <2>1, <2>2, Nonempty
<1>5. \A i \in 1 .. Len(m) : i + j \in 1 .. Len(l) /\ m[i] = l[i + j] + 1
  <2> SUFFICES ASSUME NEW i \in 1 .. Len(m) PROVE i + j \in 1 .. Len(l) /\ m[i] = l[i + j] + 1
    OBVIOUS
  <2>1. i + j \in 1 .. Len(l)
    BY <1>4
  <2>2. m[i] = Older(l[i + j])
    BY <1>1, <1>2, <2>1 DEF Rest
  <2> QED  BY <1>4, <2>1, <2>2, OlderType
<1>6. Spaced(m)
  <2> SUFFICES ASSUME NEW i \in MaxFailures .. Len(m) - 1 PROVE m[i] - m[i + 1] >= Delay(i)
    BY DEF Spaced
  <2>1. /\ i \in 1 .. Len(m) /\ i + 1 \in 1 .. Len(m) /\ (i + 1) + j = (i + j) + 1
        /\ i \in Nat /\ i + j \in Nat /\ MaxFailures <= i /\ i <= i + j
        /\ i + j \in MaxFailures .. Len(l) - 1
    BY <1>4, DelayAssumption
  <2>2. l[i + j] - l[(i + j) + 1] >= Delay(i + j)
    BY <2>1 DEF Spaced
  <2>3. Delay(i) \in Nat /\ Delay(i + j) \in Nat /\ Delay(i) <= Delay(i + j)
    BY <2>1, DelayGrows, DelayAssumption
  <2>4. m[i] = l[i + j] + 1 /\ m[i + 1] = l[(i + j) + 1] + 1 /\ l[i + j] \in Nat /\ l[(i + j) + 1] \in Nat
    BY <1>4, <1>5, <2>1
  <2> HIDE DEF Spaced
  <2> QED  BY <2>2, <2>3, <2>4
<1>7. ASSUME NEW age \in Ages, NEW later \in {0, Older(age)}, Due(l, age), later <= age + 1
      PROVE  Due(m, later)
  <2> SUFFICES ASSUME m # <<>>
               PROVE  /\ m[Len(m)] >= later
                      /\ Len(m) >= MaxFailures => m[Len(m)] - later >= Delay(Len(m))
    BY DEF Due
  <2>1. Len(m) \in 1 .. Len(m) /\ Len(m) + j = Len(l) /\ l # <<>> /\ Len(m) <= Len(l)
    BY <1>4
  <2>2. m[Len(m)] = l[Len(l)] + 1 /\ l[Len(l)] \in Nat
    BY <1>4, <1>5, <2>1
  <2>3. l[Len(l)] >= age /\ (Len(l) >= MaxFailures => l[Len(l)] - age >= Delay(Len(l)))
    BY <1>7, <2>1 DEF Due
  <2>4. age \in Nat /\ later \in Nat
    BY OlderType, DelayAssumption DEF Ages
  <2>5. ASSUME Len(m) >= MaxFailures PROVE m[Len(m)] - later >= Delay(Len(m))
    <3>1. Delay(Len(m)) \in Nat /\ Delay(Len(l)) \in Nat /\ Delay(Len(m)) <= Delay(Len(l))
      BY <1>4, <2>1, <2>5, DelayGrows, DelayAssumption
    <3>2. Len(l) >= MaxFailures
      BY <1>4, <2>1, <2>5, DelayAssumption
    <3> QED  BY <1>7, <2>2, <2>3, <2>4, <3>1, <3>2
  <2> QED  BY <1>7, <2>2, <2>3, <2>4, <2>5
<1>8. Due(l, 0) => Due(m, 0)
  <2>1. 0 \in Ages /\ 0 <= 0 + 1
    BY DelayAssumption DEF Ages
  <2> QED  BY <1>7, <2>1
<1>9. ASSUME NEW age \in Ages, Due(l, age) PROVE Due(m, Older(age))
  <2>1. Older(age) <= age + 1
    BY DelayAssumption DEF Older, Ages
  <2> QED  BY <1>7, <1>9, <2>1
<1> QED  BY <1>6, <1>8, <1>9 DEF m

\* A failure recorded when it is due.
LEMMA FailuresAppended ==
  ASSUME NEW l \in Lists, Sorted(l), Recent(l), Spaced(l), NEW age \in Ages, Due(l, age)
  PROVE  /\ Sorted(Kept(Append(l, age))) /\ Recent(Kept(Append(l, age)))
         /\ Spaced(Kept(Append(l, age))) /\ Kept(Append(l, age)) \in Lists
<1>1. /\ Append(l, age) \in Lists /\ Sorted(Append(l, age))
      /\ Fresh(age) => Kept(Append(l, age)) = Append(Kept(l), age)
      /\ ~Fresh(age) => Kept(Append(l, age)) = <<>>
  BY KeptAppended DEF Due
<1>2. Kept(l) = l
  BY RecentKept
<1>3. Spaced(Append(l, age))
  <2>1. /\ Len(l) \in Nat /\ Len(Append(l, age)) = Len(l) + 1
        /\ Append(l, age)[Len(l) + 1] = age /\ \A i \in 1 .. Len(l) : Append(l, age)[i] = l[i]
    BY DEF Lists
  <2> DEFINE m == Append(l, age)
  <2> SUFFICES ASSUME NEW i \in MaxFailures .. Len(m) - 1 PROVE m[i] - m[i + 1] >= Delay(i)
    BY DEF Spaced
  <2> HIDE DEF m
  <2>2. CASE i = Len(l)
    <3>1. Len(l) # 0 /\ l # <<>> /\ Len(l) >= MaxFailures /\ Len(l) \in 1 .. Len(l)
      BY <2>1, <2>2, DelayAssumption
    <3>2. m[i] = l[Len(l)] /\ m[i + 1] = age
      BY <2>1, <2>2, <3>1 DEF m
    <3> QED  BY <2>2, <3>1, <3>2 DEF Due
  <2>3. CASE i # Len(l)
    <3>1. i \in MaxFailures .. Len(l) - 1 /\ i \in 1 .. Len(l) /\ i + 1 \in 1 .. Len(l)
      BY <2>1, <2>3, DelayAssumption DEF m
    <3>2. m[i] = l[i] /\ m[i + 1] = l[i + 1]
      BY <2>1, <3>1 DEF m
    <3> QED  BY <3>1, <3>2 DEF Spaced
  <2> QED  BY <2>2, <2>3
<1>4. Spaced(<<>>)
  BY DelayAssumption DEF Spaced
<1> QED  BY <1>1, <1>2, <1>3, <1>4, KeptSorted

LEMMA LastAge ==
  ASSUME NEW l \in Lists, l # <<>>
  PROVE  l[Len(l)] \in Ages /\ l[Len(l)] >= 0
<1>1. Len(l) \in 1 .. Len(l)
  BY Nonempty
<1>2. l[Len(l)] \in Ages
  BY <1>1 DEF Lists
<1> QED  BY <1>2, DelayAssumption DEF Ages

LEMMA EmptyList ==
  <<>> \in Lists /\ Sorted(<<>>) /\ Recent(<<>>) /\ Spaced(<<>>) /\ Kept(<<>>) = <<>>
<1>1. <<>> \in Lists /\ DOMAIN <<>> = {} /\ Len(<<>>) = 0
  BY DEF Lists
<1>2. Sorted(<<>>) /\ Recent(<<>>)
  BY <1>1 DEF Sorted, Recent
<1>3. Spaced(<<>>)
  BY <1>1, DelayAssumption DEF Spaced
<1> QED  BY <1>1, <1>2, <1>3, RecentKept

LEMMA IdleIs == Idle.at = "idle" /\ Idle.kept = <<>>
BY DEF Idle

\* Time passes for the tracker, the log and the thread.
LEMMA CoherentAged ==
  ASSUME NEW list \in Lists, NEW l \in Lists, NEW r \in ThreadStates, NEW s \in ThreadStates,
         Coherent(list, l, r), s.at = r.at, s.held = r.held, s.kept = Aged(r.kept),
         r.at = "append" => s.stamp = Older(r.stamp)
  PROVE  Coherent(Aged(list), Kept(Aged(l)), s)
<1> DEFINE m == Kept(Aged(l))
<1>1. r.kept \in Lists /\ r.stamp \in Ages
  BY DEF ThreadStates
<1>2. /\ Aged(list) \in Lists /\ Len(Aged(list)) = Len(list) /\ Sorted(Aged(list))
      /\ \A i \in 1 .. Len(list) : Aged(list)[i] = Older(list[i])
  BY AgedType DEF Coherent
<1>3. Sorted(s.kept)
  BY <1>1, AgedType DEF Coherent
<1>4. Sorted(m) /\ Recent(m)
  BY AgedType, KeptSorted DEF Coherent
<1>5. /\ Spaced(m)
      /\ Due(l, 0) => Due(m, 0)
      /\ \A age \in Ages : Due(l, age) => Due(m, Older(age))
  BY FailuresAged DEF Coherent
<1>6. r.at \in Assigning => Kept(s.kept) = m
  BY <1>1, KeptAged DEF Coherent
<1>7. r.at \notin Assigning => Kept(Aged(list)) = m
  BY KeptAged DEF Coherent
<1>8. Aged(list) # <<>> => list # <<>>
  BY <1>2, Nonempty
<1>9. ASSUME r.at = "append", Aged(list) # <<>> PROVE Aged(list)[Len(Aged(list))] >= s.stamp
  <2>1. list # <<>> /\ Len(list) \in 1 .. Len(list) /\ list[Len(list)] >= r.stamp
    BY <1>8, <1>9, Nonempty DEF Coherent
  <2>2. list[Len(list)] \in Ages
    BY <2>1 DEF Lists
  <2>3. Older(list[Len(list)]) >= Older(r.stamp)
    BY <1>1, <2>1, <2>2, DelayAssumption DEF Older, Ages
  <2> QED  BY <1>2, <1>9, <2>1, <2>3
<1> HIDE DEF m
<1>10. Coherent(Aged(list), m, s)
  BY <1>1, <1>2, <1>3, <1>4, <1>5, <1>6, <1>7, <1>8, <1>9 DEF Coherent
<1> QED  BY <1>10 DEF m

\* An attempt that check_rate_limit lets through may fail now.
LEMMA LetThrough ==
  ASSUME NEW list \in Lists, Sorted(list),
         ~(Len(list) >= MaxFailures /\ list[Len(list)] < Delay(Len(list)))
  PROVE  Due(Kept(list), 0)
<1> DEFINE l == Kept(list)
<1>1. l \in Lists
  BY KeptType
<1>2. /\ Len(l) \in Nat /\ Len(list) \in Nat /\ Len(l) <= Len(list)
      /\ l # <<>> => list # <<>> /\ Len(l) \in 1 .. Len(l) /\ l[Len(l)] = list[Len(list)]
  BY LastKept
<1> HIDE DEF l
<1> SUFFICES ASSUME l # <<>>
             PROVE  l[Len(l)] >= 0 /\ (Len(l) >= MaxFailures => l[Len(l)] - 0 >= Delay(Len(l)))
  BY DEF Due, l
<1>3. l[Len(l)] \in Nat
  BY <1>1, <1>2, DelayAssumption DEF Lists, Ages
<1>4. ASSUME Len(l) >= MaxFailures PROVE l[Len(l)] >= Delay(Len(l))
  <2>1. Len(list) >= MaxFailures
    BY <1>2, <1>4, DelayAssumption
  <2>2. Delay(Len(l)) \in Nat /\ Delay(Len(list)) \in Nat /\ Delay(Len(l)) <= Delay(Len(list))
    BY <1>2, <1>4, DelayGrows, DelayAssumption
  <2>3. ~(list[Len(list)] < Delay(Len(list)))
    BY <2>1
  <2> QED  BY <1>2, <1>3, <2>2, <2>3
<1>5. Delay(Len(l)) \in Int \/ ~(Len(l) >= MaxFailures)
  BY <1>2, DelayGrows, DelayAssumption
<1> QED  BY <1>3, <1>4, <1>5

Backoff(t) == TypeOK /\ Coherent(tracker, log, thread[t])

LEMMA TickKeeps ==
  ASSUME NEW t \in Threads, Backoff(t), Tick
  PROVE  Coherent(tracker', log', thread'[t])
<1>1. tracker \in Lists /\ log \in Lists /\ thread[t] \in ThreadStates /\ thread \in [Threads -> ThreadStates]
  BY TypeUnfolds DEF Backoff
<1>2. tracker' = Aged(tracker) /\ log' = Kept(Aged(log))
  BY DEF Tick, Aged
<1>3. thread'[t] \in ThreadStates
  BY TickTyped, TypeNextUnfolds DEF Backoff
<1>4. thread'[t] = [thread[t] EXCEPT
                      !.kept = [i \in DOMAIN @ |-> Older(@[i])],
                      !.stamp = IF thread[t].at = "append" THEN Older(@) ELSE 0]
  BY DEF Tick
<1>5. /\ thread'[t].at = thread[t].at /\ thread'[t].held = thread[t].held
      /\ thread'[t].kept = Aged(thread[t].kept)
      /\ thread[t].at = "append" => thread'[t].stamp = Older(thread[t].stamp)
  BY <1>1, <1>4 DEF ThreadStates, Aged
<1> QED  BY <1>1, <1>2, <1>3, <1>5, CoherentAged DEF Backoff

\* The steps that leave the tracker and the log alone: an attempt arrives, is
\* filtered, refused or let through, or takes the time of its failure.
LEMMA QuietKeeps ==
  ASSUME NEW t \in Threads, Backoff(t), UNCHANGED <<tracker, log>>, thread'[t] \in ThreadStates,
         \/ Arrive(t)
         \/ Filter(t, "check filter", "check assign") \/ Filter(t, "record filter", "record assign")
         \/ Check(t) \/ Stamp(t)
  PROVE  Coherent(tracker', log', thread'[t])
<1> DEFINE r == thread[t]
           s == thread'[t]
<1>1. tracker \in Lists /\ log \in Lists /\ r \in ThreadStates /\ thread \in [Threads -> ThreadStates]
  BY TypeUnfolds DEF Backoff
<1>2. Coherent(tracker, log, r)
  BY DEF Backoff
<1>3. /\ Sorted(tracker) /\ Sorted(r.kept) /\ Sorted(log) /\ Recent(log) /\ Spaced(log)
  BY <1>2 DEF Coherent
<1>4. SUFFICES /\ Sorted(s.kept)
               /\ s.at \in Assigning => Kept(s.kept) = log
               /\ s.at \notin Assigning => Kept(tracker) = log
               /\ s.at \in Popping => tracker = <<>>
               /\ s.at \in Recording => Due(log, 0)
               /\ s.at = "append" => /\ s.held /\ Due(log, s.stamp)
                                     /\ tracker # <<>> => tracker[Len(tracker)] >= s.stamp
  BY <1>3 DEF Coherent
<1>5. CASE Arrive(t)
  <2>1. r.at = "idle" /\ s.at = "check filter" /\ s.kept = <<>>
    BY <1>1, <1>5 DEF Arrive, At, Idle
  <2>2. Kept(tracker) = log
    BY <1>2, <2>1 DEF Coherent, Assigning
  <2> QED  BY <2>1, <2>2, EmptyList DEF Assigning, Popping, Recording
<1>6. CASE Filter(t, "check filter", "check assign") \/ Filter(t, "record filter", "record assign")
  <2>1. /\ r.at \in {"check filter", "record filter"} /\ s.kept = Kept(tracker)
        /\ r.at = "check filter" => s.at = "check assign"
        /\ r.at = "record filter" => s.at = "record assign"
    BY <1>1, <1>6, ZenonT(40) DEF Filter, At, ThreadStates
  <2>2. Kept(tracker) = log /\ (r.at = "record filter" => Due(log, 0))
    BY <1>2, <2>1 DEF Coherent, Assigning, Recording
  <2>3. Kept(log) = log
    BY <1>1, <1>3, RecentKept
  <2> QED  BY <1>3, <2>1, <2>2, <2>3 DEF Assigning, Popping, Recording
<1>7. CASE Check(t)
  <2>1. r.at = "check" /\ s.kept = r.kept /\ s.at \in {"idle", "clear", "record filter"}
    <3>1. r.at = "check" /\ \E there \in {"idle", "clear", "record filter"} : Go(t, there)
      BY <1>7 DEF Check, At
    <3>2. PICK there \in {"idle", "clear", "record filter"} : s = [r EXCEPT !.at = there]
      BY <1>1, <3>1 DEF Go
    <3> QED  BY <1>1, <3>1, <3>2 DEF ThreadStates
  <2>2. Kept(tracker) = log
    BY <1>2, <2>1 DEF Coherent, Assigning
  <2>3. ASSUME s.at = "record filter" PROVE Due(log, 0)
    <3>1. Refused => Go(t, "idle")
      BY <1>7 DEF Check
    <3>2. ~Go(t, "idle")
      BY <1>1, <2>3, ZenonT(40) DEF Go, ThreadStates
    <3> QED  BY <1>1, <1>3, <2>2, <3>1, <3>2, LetThrough DEF Refused
  <2> QED  BY <1>3, <2>1, <2>2, <2>3 DEF Assigning, Popping, Recording
<1>8. CASE Stamp(t)
  <2>1. r.at = "record" /\ s.kept = r.kept /\ s.at = "append" /\ s.stamp = 0 /\ s.held = TRUE
    BY <1>1, <1>8 DEF Stamp, At, ThreadStates
  <2>2. Kept(tracker) = log /\ Due(log, 0)
    BY <1>2, <2>1 DEF Coherent, Assigning, Recording
  <2>3. ASSUME tracker # <<>> PROVE tracker[Len(tracker)] >= 0
    BY <1>1, <2>3, LastAge
  <2> QED  BY <1>3, <2>1, <2>2, <2>3 DEF Assigning, Popping, Recording
<1> QED  BY <1>5, <1>6, <1>7, <1>8

\* The thread that replaces the tracker's list.
LEMMA Replaced ==
  ASSUME NEW t \in Threads, NEW list, NEW r, Replace(t, list, r)
  PROVE  tracker' = list /\ thread'[t] = r
BY DEF Replace

\* The steps that write the tracker.
LEMMA WriteKeeps ==
  ASSUME NEW t \in Threads, Threads = {t}, Backoff(t), thread'[t] \in ThreadStates,
         \/ Assign(t, "check assign", "check", "check pop")
         \/ Assign(t, "record assign", "record", "record pop")
         \/ Pop(t, "check pop", "check") \/ Pop(t, "record pop", "record")
         \/ AppendTime(t) \/ Clear(t)
  PROVE  Coherent(tracker', log', thread'[t])
<1> DEFINE r == thread[t]
           s == thread'[t]
<1>1. /\ tracker \in Lists /\ log \in Lists /\ r \in ThreadStates /\ thread \in [Threads -> ThreadStates]
      /\ r.kept \in Lists /\ r.stamp \in Ages
  BY TypeUnfolds DEF Backoff, ThreadStates
<1>2. Coherent(tracker, log, r)
  BY DEF Backoff
<1>3. /\ Sorted(tracker) /\ Sorted(r.kept) /\ Sorted(log) /\ Recent(log) /\ Spaced(log)
  BY <1>2 DEF Coherent
<1>4. <<>> \in Lists /\ Sorted(<<>>) /\ Recent(<<>>) /\ Spaced(<<>>) /\ Kept(<<>>) = <<>>
  BY EmptyList
<1>5. CASE \/ Assign(t, "check assign", "check", "check pop")
           \/ Assign(t, "record assign", "record", "record pop")
  <2>1. ASSUME NEW here, NEW there, NEW gone, Assign(t, here, there, gone)
        PROVE  /\ r.at = here /\ tracker' = r.kept /\ log' = log
               /\ s.kept = <<>>
               /\ s.at = IF r.kept = <<>> THEN gone ELSE there
    <3>1. r.at = here /\ log' = log
      BY <2>1 DEF Assign, At
    <3>2. /\ tracker' = r.kept
          /\ s = [r EXCEPT !.at = IF r.kept = <<>> THEN gone ELSE there, !.kept = <<>>]
      BY <2>1, Replaced DEF Assign
    <3> QED  BY <1>1, <3>1, <3>2 DEF ThreadStates
  <2>2. /\ r.at \in Assigning /\ tracker' = r.kept /\ log' = log
        /\ s.kept = <<>>
        /\ r.at = "check assign" => s.at \in {"check", "check pop"}
        /\ r.at = "record assign" => s.at \in {"record", "record pop"}
        /\ s.at \in Popping => r.kept = <<>>
    <3>1. CASE Assign(t, "check assign", "check", "check pop")
      <4>1. /\ r.at = "check assign" /\ tracker' = r.kept /\ log' = log
            /\ s.kept = <<>> /\ s.at = IF r.kept = <<>> THEN "check pop" ELSE "check"
        BY <2>1, <3>1
      <4> QED  BY <4>1 DEF Assigning, Popping
    <3>2. CASE Assign(t, "record assign", "record", "record pop")
      <4>1. /\ r.at = "record assign" /\ tracker' = r.kept /\ log' = log
            /\ s.kept = <<>> /\ s.at = IF r.kept = <<>> THEN "record pop" ELSE "record"
        BY <2>1, <3>2
      <4> QED  BY <4>1 DEF Assigning, Popping
    <3> QED  BY <1>5, <3>1, <3>2
  <2>3. Kept(r.kept) = log /\ (r.at = "record assign" => Due(log, 0))
    BY <1>2, <2>2 DEF Coherent, Assigning, Recording
  <2> QED  BY <1>3, <1>4, <2>2, <2>3 DEF Coherent, Assigning, Popping, Recording
<1>6. CASE Pop(t, "check pop", "check") \/ Pop(t, "record pop", "record")
  <2>1. ASSUME NEW here, NEW there, Pop(t, here, there)
        PROVE  r.at = here /\ tracker' = <<>> /\ log' = log /\ s.kept = r.kept /\ s.at = there
    <3>1. r.at = here /\ log' = log
      BY <2>1 DEF Pop, At
    <3>2. tracker' = <<>> /\ s = [r EXCEPT !.at = there]
      BY <2>1, Replaced DEF Pop
    <3> QED  BY <1>1, <3>1, <3>2 DEF ThreadStates
  <2>2. /\ r.at \in Popping /\ tracker' = <<>> /\ log' = log /\ s.kept = r.kept
        /\ r.at = "check pop" => s.at = "check"
        /\ r.at = "record pop" => s.at = "record"
    <3>1. CASE Pop(t, "check pop", "check")
      <4>1. r.at = "check pop" /\ tracker' = <<>> /\ log' = log /\ s.kept = r.kept /\ s.at = "check"
        BY <2>1, <3>1
      <4> QED  BY <4>1 DEF Popping
    <3>2. CASE Pop(t, "record pop", "record")
      <4>1. r.at = "record pop" /\ tracker' = <<>> /\ log' = log /\ s.kept = r.kept /\ s.at = "record"
        BY <2>1, <3>2
      <4> QED  BY <4>1 DEF Popping
    <3> QED  BY <1>6, <3>1, <3>2
  <2>3. tracker = <<>> /\ Kept(tracker) = log /\ (r.at = "record pop" => Due(log, 0))
    BY <1>2, <2>2 DEF Coherent, Assigning, Popping, Recording
  <2> QED  BY <1>3, <1>4, <2>2, <2>3 DEF Coherent, Assigning, Popping, Recording
<1>7. CASE AppendTime(t)
  <2>1. r.at = "append" /\ log' = Kept(Append(log, r.stamp)) /\ s = Idle
    BY <1>1, <1>7 DEF AppendTime, At
  <2>2. /\ r.held /\ Due(log, r.stamp) /\ Kept(tracker) = log
        /\ tracker # <<>> => tracker[Len(tracker)] >= r.stamp
    BY <1>2, <2>1 DEF Coherent, Assigning
  <2>3. tracker' = Append(tracker, r.stamp)
    BY <1>7, <2>2 DEF AppendTime
  <2>4. Sorted(tracker') /\ Kept(tracker') = log'
    BY <1>1, <1>3, <2>1, <2>2, <2>3, KeptAppended
  <2>5. Sorted(log') /\ Recent(log') /\ Spaced(log')
    BY <1>1, <1>3, <2>1, <2>2, FailuresAppended
  <2>6. s.at = "idle" /\ s.kept = <<>>
    BY <2>1, IdleIs
  <2> QED  BY <1>4, <2>4, <2>5, <2>6 DEF Coherent, Assigning, Popping, Recording
<1>8. CASE Clear(t)
  <2>1. tracker' = <<>> /\ log' = <<>> /\ s.at = "idle" /\ s.kept = <<>>
    BY <1>1, <1>8, IdleIs DEF Clear, Replace
  <2> QED  BY <1>4, <2>1 DEF Coherent, Assigning, Popping, Recording
<1> QED  BY <1>5, <1>6, <1>7, <1>8

LEMMA InitCoherent ==
  ASSUME NEW t \in Threads, Init
  PROVE  Backoff(t)
<1>1. tracker = <<>> /\ log = <<>> /\ thread[t].at = "idle" /\ thread[t].kept = <<>>
  BY IdleIs DEF Init
<1>2. Coherent(tracker, log, thread[t])
  BY <1>1, EmptyList DEF Coherent, Assigning, Popping, Recording
<1> QED  BY <1>2, InitTyped DEF Backoff

LEMMA NextCoherent ==
  ASSUME NEW t \in Threads, Threads = {t}, Backoff(t), [Next]_vars
  PROVE  Backoff(t)'
<1> SUFFICES TypeOK' /\ Coherent(tracker', log', thread'[t])
  BY DEF Backoff
<1>1. TypeOK'
  BY NextTyped DEF Backoff
<1>2. thread'[t] \in ThreadStates
  BY <1>1, TypeNextUnfolds
<1>3. CASE Tick
  BY <1>1, <1>3, TickKeeps
<1>4. CASE \/ Arrive(t)
           \/ Filter(t, "check filter", "check assign") \/ Filter(t, "record filter", "record assign")
           \/ Check(t) \/ Stamp(t)
  <2>1. UNCHANGED <<tracker, log>>
    BY <1>4 DEF Arrive, Filter, Check, Stamp
  <2> QED  BY <1>1, <1>2, <1>4, <2>1, QuietKeeps
<1>5. CASE \/ Assign(t, "check assign", "check", "check pop")
           \/ Assign(t, "record assign", "record", "record pop")
           \/ Pop(t, "check pop", "check") \/ Pop(t, "record pop", "record")
           \/ AppendTime(t) \/ Clear(t)
  BY <1>1, <1>2, <1>5, WriteKeeps
<1>6. CASE UNCHANGED vars
  BY <1>1, <1>6 DEF vars, Backoff
<1>7. CASE Next
  BY <1>3, <1>4, <1>5, <1>7 DEF Next, Progress
<1> QED  BY <1>6, <1>7

\* The attempts of an address come one at a time.  With two threads a failure
\* may go uncounted, as the run auth_threads shows.
Alone == \E t \in Threads : Threads = {t}

Inv == \E t \in Threads : Threads = {t} /\ Backoff(t)

LEMMA Invariance == Alone /\ Spec => []Inv
<1>1. Alone /\ Init => Inv
  BY InitCoherent DEF Alone, Inv
<1>2. Inv /\ [Next]_vars => Inv'
  <2> SUFFICES ASSUME Inv, [Next]_vars PROVE Inv'
    OBVIOUS
  <2>1. PICK t \in Threads : Threads = {t} /\ Backoff(t)
    BY DEF Inv
  <2>2. Backoff(t)'
    BY <2>1, NextCoherent
  <2> QED  BY <2>1, <2>2 DEF Inv
<1> QED  BY <1>1, <1>2, PTL DEF Spec

\* FailuresTracked, when the attempts come one at a time: between them the
\* tracker holds the failures of the window since the last success.
THEOREM TracksFailures == Alone /\ Spec => []FailuresTracked
<1>1. Inv => FailuresTracked
  BY DEF Inv, Backoff, Coherent, FailuresTracked, At, Assigning
<1> QED  BY <1>1, Invariance, PTL

\* SpacingGrows, when they come one at a time: whatever the delays, the window
\* and the threshold, recorded failures are spaced by the delay they call for.
THEOREM SpacesFailures == Alone /\ Spec => []SpacingGrows
<1>1. Inv => SpacingGrows
  BY DEF Inv, Backoff, Coherent, SpacingGrows, Spaced
<1> QED  BY <1>1, Invariance, PTL

\* RefusedOnlyRecently, when they come one at a time: no attempt is refused
\* MaxDelay ticks after the last failure, or after a success.
THEOREM RefusesOnlyRecently == Alone /\ Spec => RefusedOnlyRecently
<1> DEFINE Justified == \A t \in Threads : Check(t) /\ Refused => log # <<>> /\ log[Len(log)] < MaxDelay
<1>1. ASSUME Inv, NEW t \in Threads, Check(t), Refused PROVE log # <<>> /\ log[Len(log)] < MaxDelay
  <2>1. tracker \in Lists /\ Sorted(tracker) /\ Kept(tracker) = log /\ TypeOK
    BY <1>1, TypeUnfolds DEF Inv, Backoff, Coherent, Check, At, Assigning
  <2>2. /\ Len(tracker) \in 1 .. Len(tracker) /\ tracker[Len(tracker)] \in Ages
        /\ tracker[Len(tracker)] < Delay(Len(tracker)) /\ Delay(Len(tracker)) \in 0 .. MaxDelay
    BY <1>1, <2>1, RefusalType DEF Refused
  <2>3. tracker[Len(tracker)] < MaxDelay /\ Fresh(tracker[Len(tracker)])
    BY <2>2, DelayAssumption DEF Ages, Fresh
  <2>4. tracker # <<>>
    BY <2>1, <2>2, Nonempty
  <2> QED  BY <2>1, <2>3, <2>4, LastKept
<1>2. Inv /\ [Next]_vars => [Justified]_vars
  BY <1>1
<1> QED  BY <1>2, Invariance, PTL DEF Spec, RefusedOnlyRecently
=============================================================================
