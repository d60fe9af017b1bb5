--------------------------- MODULE TTLCacheProofs ---------------------------
(***************************************************************************)
(* TLAPS proofs about TTLCache.tla, for every set of keys and values,      *)
(* every capacity, every TTL and an unbounded clock.                       *)
(***************************************************************************)
EXTENDS TTLCache, FiniteSetTheorems, TLAPS

\* Removing entries leaves a well-typed store.
LEMMA WithoutType ==
  ASSUME store \in [Keys -> Entry \cup {None}], NEW S
  PROVE  Without(S) \in [Keys -> Entry \cup {None}]
BY DEF Without

\* The entry a set() stores.
FreshEntry(v, ttl) ==
  [value |-> v, expires_at |-> now + (IF ttl = 0 THEN DefaultTtl ELSE ttl), last_access |-> now]

\* A fresh entry is an entry, whichever of the two TTLs it takes.
LEMMA FreshEntryType ==
  ASSUME now \in Nat, NEW v \in Vals, NEW ttl \in Ttls
  PROVE  FreshEntry(v, ttl) \in Entry
BY TtlAssumption DEF FreshEntry, Entry

\* What set() does to the store, with the eviction chosen.
LEMMA SetStore ==
  ASSUME NEW k \in Keys, NEW v \in Vals, NEW ttl \in Ttls, Set(k, v, ttl)
  PROVE  \E gone \in Victims(k) : store' = [Without(gone) EXCEPT ![k] = FreshEntry(v, ttl)]
BY DEF Set, FreshEntry

\* A hit rewrites the entry it finds into another entry.
LEMMA HitStore ==
  ASSUME TypeOK, NEW k \in Keys, GetHit(k)
  PROVE  /\ store[k] \in Entry
         /\ store' \in [Keys -> Entry \cup {None}]
         /\ store'[k] \in Entry
         /\ store'[k].value = store[k].value
         /\ store'[k].expires_at = store[k].expires_at
         /\ \A j \in Keys \ {k} : store'[j] = store[j]
<1>1. store[k] \in Entry
  BY DEF TypeOK, GetHit, Cached, Expired
<1>2. [store[k] EXCEPT !.last_access = now] \in Entry
  BY <1>1 DEF TypeOK, Entry
<1>3. store' = [store EXCEPT ![k] = [store[k] EXCEPT !.last_access = now]]
  BY DEF GetHit
<1>4. /\ [store[k] EXCEPT !.last_access = now].value = store[k].value
      /\ [store[k] EXCEPT !.last_access = now].expires_at = store[k].expires_at
  BY <1>1 DEF Entry
<1> QED BY <1>1, <1>2, <1>3, <1>4 DEF TypeOK

\* The cache's variables keep their types in every behaviour.
THEOREM TypeCorrect == Spec => []TypeOK
<1>1. Init => TypeOK
  BY DEF Init, TypeOK
<1>2. TypeOK /\ [Next]_vars => TypeOK'
  <2> SUFFICES ASSUME TypeOK, [Next]_vars PROVE TypeOK'
    OBVIOUS
  <2>1. ASSUME NEW k \in Keys, GetMiss(k) PROVE TypeOK'
    BY <2>1, WithoutType DEF TypeOK, GetMiss, Called
  <2>2. ASSUME NEW k \in Keys, GetHit(k) PROVE TypeOK'
    <3>1. store[k].value \in Vals
      BY <2>2, HitStore DEF Entry
    <3> QED BY <2>2, <3>1, HitStore DEF TypeOK, GetHit, Called
  <2>3. ASSUME NEW k \in Keys, Delete(k) PROVE TypeOK'
    BY <2>3, WithoutType DEF TypeOK, Delete, Called
  <2>4. ASSUME NEW k \in Keys, NEW v \in Vals, NEW ttl \in Ttls, Set(k, v, ttl)
        PROVE  TypeOK'
    <3>1. PICK gone \in Victims(k) : store' = [Without(gone) EXCEPT ![k] = FreshEntry(v, ttl)]
      BY <2>4, SetStore
    <3>2. FreshEntry(v, ttl) \in Entry
      BY FreshEntryType DEF TypeOK
    <3>3. store' \in [Keys -> Entry \cup {None}]
      BY <3>1, <3>2, WithoutType DEF TypeOK
    <3> QED BY <2>4, <3>3 DEF TypeOK, Set, Called
  <2>5. CASE Clear
    BY <2>5, WithoutType DEF TypeOK, Clear, Called
  <2>6. CASE Len
    BY <2>6, WithoutType DEF TypeOK, Len, Called
  <2>7. CASE Tick
    BY <2>7 DEF TypeOK, Tick
  <2>8. CASE UNCHANGED vars
    BY <2>8 DEF TypeOK, vars
  <2> QED BY <2>1, <2>2, <2>3, <2>4, <2>5, <2>6, <2>7, <2>8 DEF Next
<1> QED BY <1>1, <1>2, PTL DEF Spec

\* Which keys are cached after a set(): those that were not evicted, and k.
LEMMA SetCached ==
  ASSUME TypeOK, NEW k \in Keys, NEW v \in Vals, NEW ttl \in Ttls, NEW gone \in Victims(k),
         store' = [Without(gone) EXCEPT ![k] = FreshEntry(v, ttl)]
  PROVE  Cached' = (Cached \ gone) \cup {k}
<1>1. FreshEntry(v, ttl) # None
  BY FreshEntryType, NoneAssumption DEF TypeOK
<1>2. \A j \in Keys : store'[j] = IF j = k THEN FreshEntry(v, ttl)
                                 ELSE IF j \in gone THEN None ELSE store[j]
  BY DEF Without, TypeOK
<1> QED BY <1>1, <1>2 DEF Cached

\* Every subset of the cached keys is finite and no larger than they are.
LEMMA CachedSubset ==
  ASSUME NEW S \in SUBSET Cached
  PROVE  /\ IsFiniteSet(Cached)
         /\ IsFiniteSet(S)
         /\ Cardinality(S) \in Nat
         /\ Cardinality(Cached) \in Nat
         /\ Cardinality(S) <= Cardinality(Cached)
<1>1. IsFiniteSet(Cached)
  BY KeysAssumption, FS_Subset DEF Cached
<1> QED BY <1>1, FS_Subset, FS_CardinalityType

\* The victims of a set() are cached, and evicting them makes room for k.
LEMMA VictimsMakeRoom ==
  ASSUME TypeOK, SizeBound, NEW k \in Keys, NEW gone \in Victims(k)
  PROVE  (k \in Cached /\ gone = {}) \/ Cardinality(Cached \ gone) < MaxSize
<1>1. CASE Cardinality(Cached) < MaxSize \/ k \in Cached
  <2>1. gone = {}
    BY <1>1 DEF Victims
  <2>2. Cached \ gone = Cached
    BY <2>1
  <2> QED BY <1>1, <2>1, <2>2
<1>2. CASE ~(Cardinality(Cached) < MaxSize \/ k \in Cached)
  <2>1. PICK j \in Cached : j \in gone /\ gone \subseteq Cached
    BY <1>2 DEF Victims, Expired, LeastRecentlyUsed
  <2>2. IsFiniteSet(Cached) /\ Cardinality(Cached) \in Nat
    BY CachedSubset
  <2>3. IsFiniteSet(Cached \ {j}) /\ Cardinality(Cached \ {j}) = Cardinality(Cached) - 1
    BY <2>2, FS_RemoveElement
  <2>4. Cardinality(Cached \ gone) <= Cardinality(Cached \ {j})
    <3>1. Cached \ gone \subseteq Cached \ {j}
      BY <2>1
    <3> QED BY <2>3, <3>1, FS_Subset
  <2>5. Cardinality(Cached \ gone) \in Nat /\ Cardinality(Cached \ {j}) \in Nat
    <3>1. Cached \ gone \in SUBSET Cached /\ Cached \ {j} \in SUBSET Cached
      OBVIOUS
    <3> QED BY <3>1, CachedSubset
  <2> QED BY <2>2, <2>3, <2>4, <2>5, SizeAssumption DEF SizeBound
<1> QED BY <1>1, <1>2

\* The cache never holds more than MaxSize entries.
THEOREM SizeBounded == Spec => []SizeBound
<1>1. Init => SizeBound
  <2> SUFFICES ASSUME Init PROVE SizeBound
    OBVIOUS
  <2>1. Cached = {}
    BY DEF Init, Cached
  <2> QED BY <2>1, FS_EmptySet, SizeAssumption DEF SizeBound
<1>2. TypeOK /\ SizeBound /\ [Next]_vars => SizeBound'
  <2> SUFFICES ASSUME TypeOK, SizeBound, [Next]_vars PROVE SizeBound'
    OBVIOUS
  <2>1. CASE Cached' \in SUBSET Cached
    <3>1. /\ Cardinality(Cached') <= Cardinality(Cached)
          /\ Cardinality(Cached') \in Nat /\ Cardinality(Cached) \in Nat
      BY <2>1, CachedSubset
    <3> QED BY <3>1, SizeAssumption DEF SizeBound
  <2>2. ASSUME NEW k \in Keys, NEW v \in Vals, NEW ttl \in Ttls, Set(k, v, ttl)
        PROVE  SizeBound'
    <3>1. PICK gone \in Victims(k) : store' = [Without(gone) EXCEPT ![k] = FreshEntry(v, ttl)]
      BY <2>2, SetStore
    <3>2. Cached' = (Cached \ gone) \cup {k}
      BY <3>1, SetCached
    <3>3. CASE k \in Cached /\ gone = {}
      BY <3>2, <3>3, <2>1
    <3>4. CASE Cardinality(Cached \ gone) < MaxSize
      <4>1. Cached \ gone \in SUBSET Cached
        OBVIOUS
      <4>2. IsFiniteSet(Cached \ gone) /\ Cardinality(Cached \ gone) \in Nat
        BY <4>1, CachedSubset
      <4>3. Cardinality(Cached') <= Cardinality(Cached \ gone) + 1
        <5>1. Cardinality((Cached \ gone) \cup {k})
                = IF k \in Cached \ gone THEN Cardinality(Cached \ gone)
                                          ELSE Cardinality(Cached \ gone) + 1
          BY <4>2, FS_AddElement
        <5> QED BY <3>2, <4>2, <5>1
      <4>4. Cardinality(Cached') \in Nat
        BY <3>2, <4>2, FS_AddElement, FS_CardinalityType
      <4> QED BY <3>4, <4>2, <4>3, <4>4, SizeAssumption DEF SizeBound
    <3> QED BY <3>3, <3>4, VictimsMakeRoom
  <2>3. ASSUME NEW k \in Keys, GetMiss(k) \/ Delete(k) PROVE Cached' \in SUBSET Cached
    BY <2>3 DEF GetMiss, Delete, Cached, Without
  <2>4. ASSUME NEW k \in Keys, GetHit(k) PROVE Cached' \in SUBSET Cached
    BY <2>4, HitStore, NoneAssumption DEF Cached
  <2>5. CASE Clear \/ Len
    BY <2>1, <2>5 DEF Clear, Len, Cached, Without
  <2>6. CASE Tick \/ UNCHANGED vars
    BY <2>1, <2>6 DEF Tick, vars, Cached
  <2> QED BY <2>1, <2>2, <2>3, <2>4, <2>5, <2>6 DEF Next
<1> QED BY <1>1, <1>2, TypeCorrect, PTL DEF Spec

\* In the next state, every entry k held before is where Without leaves it.
LEMMA KeptEntries ==
  ASSUME TypeOK, NEW k \in Keys, NEW v \in Vals, NEW ttl \in Ttls, Set(k, v, ttl)
  PROVE  \E gone \in Victims(k) :
           /\ store' \in [Keys -> Entry \cup {None}]
           /\ store'[k] = FreshEntry(v, ttl)
           /\ \A j \in Keys \ {k} : store'[j] = IF j \in gone THEN None ELSE store[j]
<1>1. PICK gone \in Victims(k) : store' = [Without(gone) EXCEPT ![k] = FreshEntry(v, ttl)]
  BY SetStore
<1>2. FreshEntry(v, ttl) \in Entry
  BY FreshEntryType DEF TypeOK
<1> QED BY <1>1, <1>2, WithoutType DEF Without, TypeOK

\* Only a set() of a key moves the deadline of its entry.
THEOREM DeadlinesFixed == Spec => DeadlineFixed
<1>1. TypeOK /\ [Next]_vars
        => [\A k \in Cached :
              store'[k] # None /\ store'[k].expires_at # store[k].expires_at
              => call'.op = "set" /\ call'.key = k]_vars
  <2> SUFFICES ASSUME TypeOK, Next, NEW k \in Cached,
                      store'[k] # None, store'[k].expires_at # store[k].expires_at
               PROVE  call'.op = "set" /\ call'.key = k
    BY DEF vars
  <2>1. ASSUME NEW j \in Keys, NEW v \in Vals, NEW ttl \in Ttls, Set(j, v, ttl)
        PROVE  call'.op = "set" /\ call'.key = k
    <3>1. call'.op = "set" /\ call'.key = j
      BY <2>1 DEF Set, Called
    <3>2. k # j => store'[k] = None \/ store'[k] = store[k]
      BY <2>1, KeptEntries DEF Cached
    <3> QED BY <3>1, <3>2
  <2>2. ASSUME NEW j \in Keys, GetHit(j) PROVE FALSE
    <3>1. CASE j = k
      BY <2>2, <3>1, HitStore
    <3>2. CASE j # k
      BY <2>2, <3>2, HitStore DEF Cached
    <3> QED BY <3>1, <3>2
  <2>3. ASSUME NEW j \in Keys, GetMiss(j) \/ Delete(j) PROVE FALSE
    BY <2>3 DEF GetMiss, Delete, Without, Cached
  <2>4. CASE Clear \/ Len \/ Tick
    BY <2>4 DEF Clear, Len, Tick, Without, Cached
  <2> QED BY <2>1, <2>2, <2>3, <2>4 DEF Next
<1> QED BY <1>1, TypeCorrect, PTL DEF Spec, DeadlineFixed

\* No get() answers with an entry whose deadline has passed.
THEOREM ExpiredNeverServed == Spec => NeverServesExpired
<1>1. TypeOK /\ [Next]_vars
        => [call'.op = "get" /\ call'.value # None /\ now' = now
              => call'.key \in Cached /\ now <= store[call'.key].expires_at]_vars
  <2> SUFFICES ASSUME TypeOK, Next, call'.op = "get", call'.value # None, now' = now
               PROVE  call'.key \in Cached /\ now <= store[call'.key].expires_at
    BY DEF vars
  <2>1. ASSUME NEW k \in Keys, GetHit(k)
        PROVE  call'.key \in Cached /\ now <= store[call'.key].expires_at
    <3>1. call'.key = k /\ k \in Cached /\ ~(now > store[k].expires_at)
      BY <2>1 DEF GetHit, Called, Expired
    <3>2. now \in Nat /\ store[k].expires_at \in Nat
      BY <2>1, HitStore DEF TypeOK, Entry
    <3> QED BY <3>1, <3>2
  <2>2. ASSUME NEW k \in Keys, GetMiss(k) \/ Delete(k) PROVE FALSE
    BY <2>2 DEF GetMiss, Delete, Called
  <2>3. ASSUME NEW k \in Keys, NEW v \in Vals, NEW ttl \in Ttls, Set(k, v, ttl) PROVE FALSE
    BY <2>3 DEF Set, Called
  <2>4. CASE Clear \/ Len
    BY <2>4 DEF Clear, Len, Called
  <2>5. CASE Tick
    BY <2>5 DEF Tick, TypeOK
  <2> QED BY <2>1, <2>2, <2>3, <2>4, <2>5 DEF Next
<1> QED BY <1>1, TypeCorrect, PTL DEF Spec, NeverServesExpired

\* A live entry is evicted for another key only from a full cache without
\* expired entries, and only if no other entry was unused for longer.
THEOREM EvictionOrder == Spec => EvictsLeastRecentlyUsed
<1> DEFINE Fair(j) == /\ Cardinality(Cached) = MaxSize
                      /\ Expired = {}
                      /\ \A i \in Cached : store[j].last_access <= store[i].last_access
<1>1. TypeOK /\ SizeBound /\ [Next]_vars
        => [\A j \in Cached \ Expired : call'.op = "set" /\ store'[j] = None => Fair(j)]_vars
  <2> SUFFICES ASSUME TypeOK, SizeBound, Next,
                      NEW j \in Cached \ Expired, call'.op = "set", store'[j] = None
               PROVE  Fair(j)
    BY DEF vars
  <2>1. ASSUME NEW k \in Keys, NEW v \in Vals, NEW ttl \in Ttls, Set(k, v, ttl) PROVE Fair(j)
    <3>1. PICK gone \in Victims(k) :
            /\ store'[k] = FreshEntry(v, ttl)
            /\ \A i \in Keys \ {k} : store'[i] = IF i \in gone THEN None ELSE store[i]
      BY <2>1, KeptEntries
    <3>2. FreshEntry(v, ttl) # None
      BY FreshEntryType, NoneAssumption DEF TypeOK
    <3>3. j \in gone
      BY <3>1, <3>2 DEF Cached
    <3>4. ~(Cardinality(Cached) < MaxSize \/ k \in Cached)
      BY <3>1, <3>3 DEF Victims
    <3>5. Expired = {}
      BY <3>1, <3>3, <3>4 DEF Victims
    <3>6. j \in LeastRecentlyUsed
      BY <3>1, <3>3, <3>4, <3>5 DEF Victims
    <3>7. Cardinality(Cached) \in Nat
      <4>1. {} \in SUBSET Cached
        OBVIOUS
      <4> QED BY <4>1, CachedSubset
    <3>8. Cardinality(Cached) = MaxSize
      BY <3>4, <3>7, SizeAssumption DEF SizeBound
    <3> QED BY <3>5, <3>6, <3>8 DEF LeastRecentlyUsed
  <2>2. ASSUME NEW k \in Keys, GetMiss(k) \/ GetHit(k) \/ Delete(k) PROVE FALSE
    BY <2>2 DEF GetMiss, GetHit, Delete, Called
  <2>3. CASE Clear \/ Len
    BY <2>3 DEF Clear, Len, Called
  <2>4. CASE Tick
    BY <2>4 DEF Tick, Cached
  <2> QED BY <2>1, <2>2, <2>3, <2>4 DEF Next
<1> QED BY <1>1, TypeCorrect, SizeBounded, PTL DEF Spec, EvictsLeastRecentlyUsed

\* The remembered values form a map.
LEMMA RememberedType ==
  ASSUME TypeOK
  PROVE  /\ Remembered \in [Keys -> Vals \cup {None}]
         /\ \A k \in Keys : Remembered[k] # None => k \in Cached
BY DEF TypeOK, Remembered, Entry, Cached

\* The cache implements the lossy map its callers rely on.
THEOREM ImplementsLossyMap == Spec => RefinesLossyMap
<1>1. Init => Lossy!Init
  BY DEF Init, Lossy!Init, Remembered
<1>2. TypeOK /\ TypeOK' /\ [Next]_vars => [Lossy!Next]_(Lossy!vars)
  <2> SUFFICES ASSUME TypeOK, TypeOK', [Next]_vars
               PROVE  Lossy!Next \/ UNCHANGED Lossy!vars
    OBVIOUS
  <2>0. Remembered' \in [Keys -> Vals \cup {None}]
    BY DEF TypeOK, Remembered, Entry
  <2>1. ASSUME NEW k \in Keys, NEW v \in Vals, NEW ttl \in Ttls, Set(k, v, ttl)
        PROVE  Lossy!Put(k, v)
    <3>1. PICK gone \in Victims(k) :
            /\ store'[k] = FreshEntry(v, ttl)
            /\ \A j \in Keys \ {k} : store'[j] = IF j \in gone THEN None ELSE store[j]
      BY <2>1, KeptEntries
    <3>2. FreshEntry(v, ttl) # None /\ FreshEntry(v, ttl).value = v
      BY FreshEntryType, NoneAssumption DEF TypeOK, FreshEntry
    <3>3. Remembered'[k] = v
      BY <3>1, <3>2 DEF Remembered
    <3>4. \A j \in Keys \ {k} : Remembered'[j] \in {Remembered[j], None}
      BY <3>1 DEF Remembered
    <3>5. call' = [op |-> "set", key |-> k, value |-> v]
      BY <2>1 DEF Set, Called
    <3> QED BY <2>0, <3>3, <3>4, <3>5
            DEF Lossy!Put, Lossy!Maps, Lossy!OthersFade, Lossy!Called
  <2>2. ASSUME NEW k \in Keys, GetHit(k) PROVE Lossy!Hit(k)
    <3>1. Remembered[k] = store[k].value /\ Remembered[k] # None
      BY <2>2, HitStore, NoneAssumption DEF Remembered, Entry
    <3>2. Remembered' = Remembered
      BY <2>2, HitStore, NoneAssumption DEF Remembered
    <3> QED BY <2>2, <3>1, <3>2 DEF GetHit, Called, Lossy!Hit, Lossy!Called
  <2>3. ASSUME NEW k \in Keys, GetMiss(k) PROVE Lossy!Miss(k)
    BY <2>3 DEF GetMiss, Called, Without, Remembered, Lossy!Miss, Lossy!Called
  <2>4. ASSUME NEW k \in Keys, Delete(k) PROVE Lossy!Remove(k)
    BY <2>4 DEF Delete, Called, Without, Remembered, Lossy!Remove, Lossy!Called
  <2>5. CASE Clear
    BY <2>0, <2>5 DEF Clear, Called, Without, Remembered, Lossy!Forget, Lossy!Called,
                      Lossy!Maps, Lossy!Next
  <2>6. CASE Len
    BY <2>0, <2>6 DEF Len, Called, Without, Remembered, Lossy!Forget, Lossy!Called,
                      Lossy!Maps, Lossy!Next
  <2>7. CASE Tick \/ UNCHANGED vars
    BY <2>7 DEF Tick, vars, Remembered, Lossy!vars
  <2> QED BY <2>1, <2>2, <2>3, <2>4, <2>5, <2>6, <2>7 DEF Next, Lossy!Next
<1> QED BY <1>1, <1>2, TypeCorrect, PTL DEF Spec, RefinesLossyMap, Lossy!Spec
=============================================================================
