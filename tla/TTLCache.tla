------------------------------ MODULE TTLCache ------------------------------
(***************************************************************************)
(* app/services/cache.py: the per-process cache, a dict of entries with a  *)
(* deadline (expires_at) and the time of the last access (last_access),    *)
(* bounded by MaxSize with least-recently-used eviction.  Every method     *)
(* holds self._lock from its first to its last line, so each is one step;  *)
(* the clock is time.monotonic() in ticks.                                 *)
(***************************************************************************)
EXTENDS Naturals, FiniteSets

CONSTANTS Keys, Vals, None,
          DefaultTtl,  \* settings.cache_ttl
          Ttls,        \* the ttl arguments of set(); 0 is "not given"
          MaxSize,     \* settings.cache_max_size
          MaxTime      \* bound on the clock, for model checking only

Entry == [value : Vals, expires_at : Nat, last_access : Nat]

ASSUME NoneAssumption == None \notin Vals \cup Entry
ASSUME SizeAssumption == MaxSize \in Nat \ {0}
ASSUME TtlAssumption == DefaultTtl \in Nat \ {0} /\ Ttls \subseteq Nat
ASSUME KeysAssumption == IsFiniteSet(Keys)

VARIABLES store,   \* self._store: an entry per cached key, None for the rest
          now,     \* time.monotonic()
          call     \* the last call: its name, its key, the value given or returned

vars == <<store, now, call>>

Cached == {k \in Keys : store[k] # None}
Expired == {k \in Cached : now > store[k].expires_at}

Called(op, k, v) == call' = [op |-> op, key |-> k, value |-> v]

\* self._store with the keys of S removed.
Without(S) == [k \in Keys |-> IF k \in S THEN None ELSE store[k]]

Init ==
  /\ store = [k \in Keys |-> None]
  /\ now = 0
  /\ call = [op |-> "clear", key |-> None, value |-> None]

\* get(): an expired entry is deleted and missed; a hit refreshes only its
\* last_access.
GetMiss(k) ==
  /\ k \notin Cached \/ k \in Expired
  /\ store' = Without({k})
  /\ Called("get", k, None)
  /\ UNCHANGED now

\* Mutants: a hit that returns the whole tuple; a sliding deadline; a
\* get() without its expiry test.
GetHitReturnsEntry(k) ==
  /\ k \in Cached \ Expired
  /\ store' = [store EXCEPT ![k].last_access = now]
  /\ Called("get", k, store[k])
  /\ UNCHANGED now

GetHitSlides(k) ==
  /\ k \in Cached \ Expired
  /\ store' = [store EXCEPT ![k].last_access = now, ![k].expires_at = now + DefaultTtl]
  /\ Called("get", k, store[k].value)
  /\ UNCHANGED now

GetHitUnchecked(k) ==
  /\ k \in Cached
  /\ store' = [store EXCEPT ![k].last_access = now]
  /\ Called("get", k, store[k].value)
  /\ UNCHANGED now

GetHit(k) ==
  /\ k \in Cached \ Expired
  /\ store' = [store EXCEPT ![k].last_access = now]
  /\ Called("get", k, store[k].value)
  /\ UNCHANGED now

\* The keys set(k) may evict: none while there is room or k is cached; else
\* all the expired ones; else one that was least recently used.
LeastRecentlyUsed ==
  {j \in Cached : \A i \in Cached : store[j].last_access <= store[i].last_access}

\* Mutants: an off-by-one at the capacity; no look for expired entries first.
VictimsOneTooLate(k) ==
  IF Cardinality(Cached) <= MaxSize \/ k \in Cached THEN {{}}
  ELSE IF Expired # {} THEN {Expired}
  ELSE {{j} : j \in LeastRecentlyUsed}

VictimsOnlyLru(k) ==
  IF Cardinality(Cached) < MaxSize \/ k \in Cached THEN {{}}
  ELSE {{j} : j \in LeastRecentlyUsed}

Victims(k) ==
  IF Cardinality(Cached) < MaxSize \/ k \in Cached THEN {{}}
  ELSE IF Expired # {} THEN {Expired}
  ELSE {{j} : j \in LeastRecentlyUsed}

\* Mutant: a set() that keeps the value already there.
SetIfAbsent(k, v, ttl) ==
  /\ \E gone \in Victims(k) :
       store' = [Without(gone) EXCEPT ![k] =
                  IF k \in Cached THEN store[k]
                  ELSE [value |-> v, expires_at |-> now + DefaultTtl, last_access |-> now]]
  /\ Called("set", k, v)
  /\ UNCHANGED now

\* set(): a ttl of 0 or None stands for the default (`ttl or self._ttl`).
Set(k, v, ttl) ==
  /\ \E gone \in Victims(k) :
       store' = [Without(gone) EXCEPT ![k] =
                  [value |-> v,
                   expires_at |-> now + (IF ttl = 0 THEN DefaultTtl ELSE ttl),
                   last_access |-> now]]
  /\ Called("set", k, v)
  /\ UNCHANGED now

Delete(k) ==
  /\ store' = Without({k})
  /\ Called("delete", k, None)
  /\ UNCHANGED now

Clear ==
  /\ store' = Without(Keys)
  /\ Called("clear", None, None)
  /\ UNCHANGED now

\* __len__ evicts what has expired before it counts.
Len ==
  /\ store' = Without(Expired)
  /\ Called("len", None, None)
  /\ UNCHANGED now

Tick ==
  /\ now < MaxTime
  /\ now' = now + 1
  /\ UNCHANGED <<store, call>>

Next ==
  \/ \E k \in Keys : GetMiss(k) \/ GetHit(k) \/ Delete(k)
  \/ \E k \in Keys, v \in Vals, ttl \in Ttls : Set(k, v, ttl)
  \/ Clear
  \/ Len
  \/ Tick

Spec == Init /\ [][Next]_vars
-----------------------------------------------------------------------------
TypeOK ==
  /\ store \in [Keys -> Entry \cup {None}]
  /\ now \in Nat
  /\ call \in [op : {"get", "set", "delete", "clear", "len"},
              key : Keys \cup {None}, value : Vals \cup {None}]

\* The cache never outgrows its capacity, whatever expires or is evicted
\* on the way (the two `len(self._store) >= self._max_size` tests of set()).
SizeBound == Cardinality(Cached) <= MaxSize

\* Nothing but a set() of the same key moves an entry's deadline: a hit,
\* which rewrites the entry to refresh its LRU time, does not lengthen the
\* time for which a value that has gone stale can be served.
DeadlineFixed ==
  [][\A k \in Cached :
       store'[k] # None /\ store'[k].expires_at # store[k].expires_at
       => call'.op = "set" /\ call'.key = k]_vars

\* A get() answers a value only up to its deadline: expired entries, which
\* linger in the dict until the next eviction, are never served.
NeverServesExpired ==
  [][call'.op = "get" /\ call'.value # None /\ now' = now
       => /\ call'.key \in Cached
          /\ now <= store[call'.key].expires_at]_vars

\* An entry that is still live is evicted for another key only if the cache
\* was full, no expired entry could have been evicted in its place, and no
\* other entry had been unused for longer.
EvictsLeastRecentlyUsed ==
  [][\A j \in Cached \ Expired :
       call'.op = "set" /\ store'[j] = None
       => /\ Cardinality(Cached) = MaxSize
          /\ Expired = {}
          /\ \A i \in Cached : store[j].last_access <= store[i].last_access]_vars

\* The cache keeps the promise its callers rely on (LossyMap.tla).
Remembered == [k \in Keys |-> IF store[k] = None THEN None ELSE store[k].value]
Lossy == INSTANCE LossyMap WITH map <- Remembered
RefinesLossyMap == Lossy!Spec
=============================================================================
