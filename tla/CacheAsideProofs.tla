-------------------------- MODULE CacheAsideProofs --------------------------
(***************************************************************************)
(* Proofs about CacheAside for any pages, expiry, delay and versions.      *)
(***************************************************************************)
EXTENDS CacheAside, TLAPS

\* The seconds a cached result is old and those it has left make no more than
\* the delay and the expiry together.
AgeAndTtl == cache # Absent => cache.age + cache.ttl <= TTL + MaxDelay

\* A page that stored less than TTL seconds ago finds the document for what is
\* left of them at least: an upsert over its own only sets the expiry later.
KeptForAll == \A p \in Pages : since[p] < TTL => /\ cache # Absent
                                                 /\ since[p] + cache.ttl >= TTL

IInv == TypeOK /\ AgeAndTtl /\ KeptForAll

Documents == [val : 0 .. MaxVersion, age : 0 .. MaxAge, ttl : 1 .. TTL]
-----------------------------------------------------------------------------
LEMMA Bounds == /\ TTL \in Nat /\ TTL >= 1
                /\ MaxDelay \in Nat /\ MaxVersion \in Nat /\ MaxVersion >= 1
  BY TTLAssumption, MaxDelayAssumption, MaxVersionAssumption

LEMMA InitIInv == Init => IInv
  BY Bounds DEF Init, IInv, TypeOK, AgeAndTtl, KeptForAll, Nothing, Null

\* What a page stores has its full expiry before it and is at most MaxDelay old.
LEMMA EntryFits ==
  ASSUME TypeOK, NEW p \in Pages
  PROVE  /\ Entry(p) \in Documents /\ Entry(p) # Absent
         /\ Entry(p).ttl = TTL /\ Entry(p).age + TTL <= TTL + MaxDelay
<1>1. /\ result[p].val \in 0 .. MaxVersion
      /\ result[p].age \in 0 .. MaxDelay
  BY DEF TypeOK
<1>2. Entry(p).ttl = TTL /\ Entry(p).age = result[p].age /\ Entry(p).val = result[p].val
  BY DEF Entry
<1>3. Absent.ttl = -1
  BY DEF Absent
<1>4. Entry(p) \in Documents
  BY <1>1, Bounds DEF Entry, Documents, MaxAge
<1>5. QED
  BY <1>1, <1>2, <1>3, <1>4, Bounds

\* After a second the document is gone or has one second less.
LEMMA TickOnCache ==
  ASSUME TypeOK, cache' = CacheAfterTick
  PROVE  \/ cache' = Absent /\ (cache = Absent \/ cache.ttl = 1)
         \/ /\ cache # Absent /\ cache' # Absent /\ cache' \in Documents
            /\ cache'.ttl = cache.ttl - 1
            /\ cache'.age <= cache.age + 1
<1>1. CASE cache = Absent
  BY <1>1 DEF CacheAfterTick, Absent
<1>2. CASE cache # Absent
  <2>1. cache \in Documents
    BY <1>2 DEF TypeOK, Documents
  <2>2. /\ cache.val \in 0 .. MaxVersion /\ cache.age \in 0 .. MaxAge
        /\ cache.ttl \in 1 .. TTL
    BY <2>1 DEF Documents
  <2>3. CASE cache.ttl = 1
    BY <1>2, <2>3 DEF CacheAfterTick
  <2>4. CASE cache.ttl # 1
    <3>1. cache' = [cache EXCEPT !.age = Older(cache.age), !.ttl = cache.ttl - 1]
      BY <2>2, <2>4, Bounds DEF CacheAfterTick
    <3>2. /\ cache'.ttl = cache.ttl - 1 /\ cache'.age = Older(cache.age)
          /\ cache'.val = cache.val
          /\ cache' = [val |-> cache.val, age |-> Older(cache.age), ttl |-> cache.ttl - 1]
      BY <2>1, <3>1 DEF Documents
    <3>3. Older(cache.age) \in 0 .. MaxAge /\ Older(cache.age) <= cache.age + 1
      BY <2>2, Bounds DEF Older, UpTo, MaxAge
    <3>4. cache.ttl - 1 \in 1 .. TTL
      BY <2>2, <2>4, Bounds
    <3>5. cache' \in Documents
      BY <2>2, <3>2, <3>3, <3>4 DEF Documents
    <3>6. cache' # Absent
      BY <3>2, <3>4, Bounds DEF Absent
    <3>7. QED
      BY <1>2, <3>2, <3>3, <3>5, <3>6
  <2>5. QED
    BY <2>3, <2>4
<1>3. QED
  BY <1>1, <1>2

LEMMA TypeStep == TypeOK /\ [Next]_vars => TypeOK'
<1> SUFFICES ASSUME TypeOK, [Next]_vars PROVE TypeOK'
  OBVIOUS
<1> USE Bounds
<1>1. ASSUME NEW p \in Pages, Call(p) PROVE TypeOK'
  BY <1>1 DEF Call, Goto, TypeOK
<1>2. ASSUME NEW p \in Pages, GetHits(p) \/ GetMisses(p) \/ GetThrows(p) PROVE TypeOK'
  BY <1>2 DEF GetHits, GetMisses, GetThrows, Goto, TypeOK
<1>3. ASSUME NEW p \in Pages, Curl(p) PROVE TypeOK'
  BY <1>3 DEF Curl, Goto, TypeOK, Null
<1>4. ASSUME NEW p \in Pages, Upsert(p) \/ UpsertThrows(p) PROVE TypeOK'
  <2>1. cache' = cache \/ cache' \in Documents
    BY <1>4, EntryFits DEF Upsert, UpsertThrows
  <2>2. cache' = Absent \/ cache' \in Documents
    BY <2>1 DEF TypeOK, Documents
  <2>3. Nothing \in [val : 0 .. MaxVersion, age : 0 .. MaxDelay]
    BY DEF Nothing, Null
  <2>4. QED
    BY <1>4, <2>2, <2>3 DEF Upsert, UpsertThrows, Goto, TypeOK, Documents
<1>5. CASE NewVersion
  BY <1>5 DEF NewVersion, TypeOK
<1>6. CASE Tick
  <2>1. cache' = Absent \/ cache' \in Documents
    BY <1>6, TickOnCache DEF Tick
  <2>2. \A p \in Pages : UpTo(TTL, since[p] + 1) \in 0 .. TTL
    BY DEF TypeOK, UpTo
  <2>3. ASSUME NEW p \in Pages, pc[p] = "upsert"
        PROVE  [result[p] EXCEPT !.age = Older(@)] \in [val : 0 .. MaxVersion, age : 0 .. MaxDelay]
    <3>1. result[p] \in [val : 0 .. MaxVersion, age : 0 .. MaxDelay] /\ result[p].age < MaxDelay
      BY <1>6, <2>3 DEF Tick, TypeOK
    <3>2. Older(result[p].age) \in 0 .. MaxDelay
      BY <3>1 DEF Older, UpTo, MaxAge
    <3>3. QED
      BY <3>1, <3>2
  <2>4. result' \in [Pages -> [val : 0 .. MaxVersion, age : 0 .. MaxDelay]]
    BY <1>6, <2>3 DEF Tick, TypeOK
  <2>5. since' \in [Pages -> 0 .. TTL]
    BY <1>6, <2>2 DEF Tick
  <2>6. QED
    BY <1>6, <2>1, <2>4, <2>5 DEF Tick, TypeOK, Documents
<1>7. CASE UNCHANGED vars
  BY <1>7 DEF vars, TypeOK
<1>8. QED
  BY <1>1, <1>2, <1>3, <1>4, <1>5, <1>6, <1>7 DEF Next, Step

LEMMA NextIInv == IInv /\ [Next]_vars => IInv'
<1> SUFFICES ASSUME IInv, [Next]_vars PROVE AgeAndTtl' /\ KeptForAll'
  BY TypeStep DEF IInv
<1>t. /\ TypeOK /\ TypeOK' /\ AgeAndTtl /\ KeptForAll
      /\ \A p \in Pages : since[p] \in 0 .. TTL
  BY TypeStep DEF IInv, TypeOK
<1>d. ASSUME cache # Absent
      PROVE  cache.age \in 0 .. MaxAge /\ cache.ttl \in 1 .. TTL
  BY <1>t, <1>d DEF TypeOK
<1>1. ASSUME UNCHANGED <<cache, since>> PROVE AgeAndTtl' /\ KeptForAll'
  BY <1>t, <1>1 DEF AgeAndTtl, KeptForAll
<1>2. ASSUME NEW p \in Pages, cache' = Entry(p),
             \A q \in Pages : since'[q] = since[q] \/ since'[q] = 0
      PROVE  AgeAndTtl' /\ KeptForAll'
  <2>1. /\ cache' # Absent /\ cache'.ttl = TTL /\ cache'.age + cache'.ttl <= TTL + MaxDelay
    BY <1>t, <1>2, EntryFits
  <2>2. \A q \in Pages : since'[q] + TTL >= TTL
    BY <1>t, <1>2, Bounds
  <2>3. QED
    BY <2>1, <2>2 DEF AgeAndTtl, KeptForAll
<1>3. ASSUME NEW p \in Pages, Upsert(p) PROVE AgeAndTtl' /\ KeptForAll'
  <2>1. \A q \in Pages : since'[q] = since[q] \/ since'[q] = 0
    BY <1>t, <1>3 DEF Upsert, TypeOK
  <2>2. QED
    BY <1>2, <1>3, <2>1 DEF Upsert
<1>4. ASSUME NEW p \in Pages, UpsertThrows(p) PROVE AgeAndTtl' /\ KeptForAll'
  BY <1>1, <1>2, <1>4 DEF UpsertThrows
<1>5. ASSUME Tick PROVE AgeAndTtl' /\ KeptForAll'
  <2>1. \/ cache' = Absent /\ (cache = Absent \/ cache.ttl = 1)
        \/ /\ cache # Absent /\ cache' # Absent
           /\ cache'.ttl = cache.ttl - 1 /\ cache'.age <= cache.age + 1
    BY <1>t, <1>5, TickOnCache DEF Tick
  <2>2. \A q \in Pages : since'[q] = IF since[q] + 1 < TTL THEN since[q] + 1 ELSE TTL
    BY <1>5 DEF Tick, UpTo
  <2>3. AgeAndTtl'
    <3>1. ASSUME cache' # Absent PROVE cache'.age \in 0 .. MaxAge /\ cache'.ttl \in 1 .. TTL
      BY <1>t, <3>1 DEF TypeOK
    <3>2. QED
      BY <1>t, <1>d, <2>1, <3>1, Bounds DEF AgeAndTtl, MaxAge
  <2>4. ASSUME NEW q \in Pages, since'[q] < TTL
        PROVE  cache' # Absent /\ since'[q] + cache'.ttl >= TTL
    <3>1. since'[q] = since[q] + 1 /\ since[q] < TTL
      BY <1>t, <2>2, <2>4, Bounds
    <3>2. cache # Absent /\ since[q] + cache.ttl >= TTL /\ cache.ttl # 1
      BY <1>t, <1>d, <2>4, <3>1, Bounds DEF KeptForAll
    <3>3. QED
      BY <1>t, <1>d, <2>1, <3>1, <3>2, Bounds
  <2>5. QED
    BY <2>3, <2>4 DEF KeptForAll
<1>6. ASSUME NEW p \in Pages, Call(p) \/ GetHits(p) \/ GetMisses(p) \/ GetThrows(p) \/ Curl(p)
      PROVE  UNCHANGED <<cache, since>>
  BY <1>6 DEF Call, GetHits, GetMisses, GetThrows, Curl
<1>7. CASE NewVersion \/ UNCHANGED vars
  BY <1>1, <1>7 DEF NewVersion, vars
<1>8. QED
  BY <1>1, <1>3, <1>4, <1>5, <1>6, <1>7 DEF Next, Step

\* The cache document, the results and the ages keep their types.
THEOREM TypeCorrect == Spec => []TypeOK
<1>1. Init => TypeOK
  BY InitIInv DEF IInv
<1>2. QED
  BY <1>1, TypeStep, PTL DEF Spec

\* The strengthening of the properties below is an invariant of php/cache-curl-request.php.
THEOREM Invariance == Spec => []IInv
  BY InitIInv, NextIInv, PTL DEF Spec

\* A cached result is younger than TTL and the delay together, for any expiry
\* and any delay, whichever page stores over which (lines 40 to 71).
THEOREM CacheIsYoung == Spec => []AgeBounded
<1>1. IInv => AgeBounded
  <2> SUFFICES ASSUME IInv, cache # Absent PROVE cache.age < TTL + MaxDelay
    BY DEF AgeBounded
  <2>1. cache.age \in 0 .. MaxAge /\ cache.ttl \in 1 .. TTL
    BY DEF IInv, TypeOK
  <2>2. QED
    BY <2>1, Bounds DEF IInv, AgeAndTtl, MaxAge
<1>2. QED
  BY <1>1, Invariance, PTL

\* A page misses only TTL seconds after its last upsert (lines 40 to 68).
THEOREM LoadIsReduced == Spec => LoadReduced
<1>1. IInv /\ [Next]_vars => [\A p \in Pages : GetMisses(p) => since[p] = TTL]_vars
  <2> SUFFICES ASSUME IInv, NEW p \in Pages, GetMisses(p) PROVE since[p] = TTL
    OBVIOUS
  <2>1. since[p] \in 0 .. TTL /\ ~ (since[p] < TTL)
    BY DEF IInv, TypeOK, KeptForAll, GetMisses
  <2>2. QED
    BY <2>1, Bounds
<1>2. QED
  BY <1>1, Invariance, PTL DEF Spec, LoadReduced
=============================================================================
