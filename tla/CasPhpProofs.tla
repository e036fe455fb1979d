---------------------------- MODULE CasPhpProofs ----------------------------
(***************************************************************************)
(* Proofs about CasPhp for any finite set of processes, any retry budget   *)
(* and any number of flushes.                                              *)
(***************************************************************************)
EXTENDS CasPhp, FiniteSetTheorems, TLAPS

\* The processes that have emptied the list, and those whose add may count.
Seeded  == {p \in Procs : pc[p] # "upsert"}
Counted == {p \in Procs : pc[p] \in {"added", "threw"}}

\* Each mutation so far is one process's upsert or one process's add.
ClockCounts == store.clock <= Cardinality(Seeded) + Cardinality(Counted)

\* The document is absent or carries the last CAS handed out.
CasIsLatest == /\ store.cas \in {NoCas, store.clock}
               /\ store.cas = NoCas => store.val = <<>>

\* A process spent fewer retries than there were mutations before its last
\* look at the document.
Spent(p) == Retries - retries[p]

RetriesPaid ==
  \A p \in Procs :
    /\ pc[p] = "upsert" => Spent(p) = 0
    /\ pc[p] \in {"get", "insert"} => Spent(p) < store.clock
    /\ pc[p] = "replace" => /\ Spent(p) < metadoc[p].cas
                            /\ metadoc[p].cas <= store.clock

\* A process that is still trying has a retry left.
BudgetLeft == \A p \in Procs : pc[p] \notin Ended => retries[p] >= 1

IInv == /\ TypeOK
        /\ BudgetLeft
        /\ CasIsLatest
        /\ ClockCounts
        /\ RetriesPaid
        /\ CasIdentifiesValue
        /\ NeverGivesUp
-----------------------------------------------------------------------------
LEMMA InitIInv == Init => IInv
<1> SUFFICES ASSUME Init PROVE IInv
  OBVIOUS
<1> USE RetriesAssumption, MaxFlushAssumption DEF Init, EmptyStore, NoCas
<1>1. TypeOK
  BY DEF TypeOK, Stores, Ended
<1>2. Seeded = {} /\ Counted = {}
  BY DEF Seeded, Counted
<1>3. ClockCounts
  BY <1>2, FS_EmptySet DEF ClockCounts
<1>4. CasIsLatest /\ BudgetLeft /\ RetriesPaid /\ CasIdentifiesValue /\ NeverGivesUp
  BY DEF CasIsLatest, BudgetLeft, RetriesPaid, CasIdentifiesValue, NeverGivesUp, Ended, Spent
<1>5. QED
  BY <1>1, <1>3, <1>4 DEF IInv

\* Every action keeps the types and leaves a retry to whoever is still trying.
LEMMA TypeStep == TypeOK /\ BudgetLeft /\ [Next]_vars => TypeOK' /\ BudgetLeft'
<1> SUFFICES ASSUME TypeOK, BudgetLeft, [Next]_vars PROVE TypeOK' /\ BudgetLeft'
  OBVIOUS
<1> DEFINE Good == TypeOK' /\ BudgetLeft'
<1> USE RetriesAssumption, MaxFlushAssumption DEF TypeOK, BudgetLeft, Goto, Ended
<1>a. \A v \in Seq(Procs) : Mutate(store, v) \in Stores(Seq(Procs))
  BY DEF Mutate, Stores
<1>b. <<>> \in Seq(Procs)
  OBVIOUS
<1>c. \A p \in Procs : /\ <<p>> \in Seq(Procs)
                       /\ Append(metadoc[p].value, p) \in Seq(Procs)
  OBVIOUS
<1>1. ASSUME NEW p \in Procs, UpsertEmpty(p) PROVE Good
  BY <1>1, <1>a, <1>b DEF UpsertEmpty
<1>2. ASSUME NEW p \in Procs, GetFound(p) PROVE Good
  BY <1>2 DEF GetFound, Stores
<1>3. ASSUME NEW p \in Procs, GetMissing(p) \/ InsertLoses(p) \/ ReplaceMissing(p)
      PROVE  Good
  BY <1>3 DEF GetMissing, InsertLoses, ReplaceMissing
<1>4. ASSUME NEW p \in Procs, InsertCreates(p) PROVE Good
  BY <1>4, <1>a, <1>c DEF InsertCreates
<1>5. ASSUME NEW p \in Procs, ReplaceAccepted(p) PROVE Good
  BY <1>5, <1>a, <1>c DEF ReplaceAccepted
<1>6. ASSUME NEW p \in Procs, ReplaceRefused(p) PROVE Good
  <2>1. pc[p] = "replace" /\ UNCHANGED <<store, metadoc, flushes>>
    BY <1>6 DEF ReplaceRefused
  <2>a. pc[p] \notin Ended
    BY <2>1
  <2>2. retries[p] \in Int /\ retries[p] >= 1 /\ retries[p] <= Retries
    BY <2>a
  <2>3. retries' = [retries EXCEPT ![p] = retries[p] - 1]
    BY <1>6 DEF ReplaceRefused
  <2>4. retries' \in [Procs -> 0 .. Retries]
    BY <2>2, <2>3
  <2>5. pc' = [pc EXCEPT ![p] = IF retries[p] = 1 THEN "gaveup" ELSE "get"]
    BY <1>6 DEF ReplaceRefused
  <2>6. TypeOK'
    BY <2>1, <2>4, <2>5
  <2>7. BudgetLeft'
    BY <2>2, <2>3, <2>5
  <2>8. QED
    BY <2>6, <2>7
<1>7. ASSUME NEW p \in Procs, RequestFails(p) PROVE Good
  <2>1. store' \in Stores(Seq(Procs))
    BY <1>7, <1>a, <1>b, <1>c DEF RequestFails, Effect
  <2>2. QED
    BY <1>7, <2>1 DEF RequestFails
<1>8. ASSUME Flush PROVE Good
  <2>1. store' \in Stores(Seq(Procs))
    BY <1>8, <1>b DEF Flush, Remove, NoCas, Stores
  <2>2. flushes' \in 0 .. MaxFlush
    BY <1>8 DEF Flush
  <2>3. QED
    BY <1>8, <2>1, <2>2 DEF Flush
<1>9. CASE UNCHANGED vars
  BY <1>9 DEF vars
<1>10. QED
  BY <1>1, <1>2, <1>3, <1>4, <1>5, <1>6, <1>7, <1>8, <1>9 DEF Next, Step, Answered, Finished

\* Only a mutation changes the CAS, and it takes the next one.
LEMMA CasStep == TypeOK /\ CasIsLatest /\ [Next]_vars => CasIsLatest'
<1> SUFFICES ASSUME TypeOK, CasIsLatest, [Next]_vars PROVE CasIsLatest'
  OBVIOUS
<1>1. store.clock \in Nat
  BY DEF TypeOK, Stores
<1>2. \A v : store' = Mutate(store, v) => CasIsLatest'
  BY <1>1 DEF Mutate, CasIsLatest, NoCas
<1>3. store' = store => CasIsLatest'
  BY DEF CasIsLatest
<1>4. CASE Flush
  <2>1. store'.cas = NoCas /\ store'.val = <<>>
    BY <1>4 DEF Flush, Remove, TypeOK, Stores
  <2>2. QED
    BY <2>1 DEF CasIsLatest
<1>5. ASSUME NEW p \in Procs, Step(p) PROVE CasIsLatest'
  <2>1. store' = store \/ \E v : store' = Mutate(store, v)
    BY <1>5 DEF Step, Answered, UpsertEmpty, GetFound, GetMissing, InsertCreates, InsertLoses,
                ReplaceAccepted, ReplaceRefused, ReplaceMissing, RequestFails, Effect
  <2>2. QED
    BY <2>1, <1>2, <1>3
<1>6. QED
  BY <1>3, <1>4, <1>5 DEF Next, Finished, vars

\* What a step of one process does to the clock and to the two sets.
LEMMA StepCounts ==
  ASSUME TypeOK, NEW p \in Procs, Step(p)
  PROVE  \/ store'.clock = store.clock /\ Seeded \subseteq Seeded' /\ Counted \subseteq Counted'
         \/ /\ store'.clock = store.clock + 1
            /\ \/ Seeded' = Seeded \cup {p} /\ p \notin Seeded /\ Counted \subseteq Counted'
               \/ Counted' = Counted \cup {p} /\ p \notin Counted /\ Seeded \subseteq Seeded'
<1> USE DEF TypeOK, Stores, Goto, Ended, Seeded, Counted
<1>1. CASE UpsertEmpty(p)
  BY <1>1 DEF UpsertEmpty, Mutate
<1>2. CASE GetFound(p) \/ GetMissing(p) \/ InsertLoses(p) \/ ReplaceMissing(p)
  BY <1>2 DEF GetFound, GetMissing, InsertLoses, ReplaceMissing
<1>3. CASE InsertCreates(p)
  BY <1>3 DEF InsertCreates, Mutate
<1>4. CASE ReplaceAccepted(p)
  BY <1>4 DEF ReplaceAccepted, Mutate
<1>5. CASE ReplaceRefused(p)
  BY <1>5 DEF ReplaceRefused
<1>6. CASE RequestFails(p)
  BY <1>6 DEF RequestFails, Effect, Mutate
<1>7. QED
  BY <1>1, <1>2, <1>3, <1>4, <1>5, <1>6, Step(p) DEF Step, Answered

LEMMA ClockStep == TypeOK /\ TypeOK' /\ ClockCounts /\ [Next]_vars => ClockCounts'
<1> SUFFICES ASSUME TypeOK, TypeOK', ClockCounts, [Next]_vars PROVE ClockCounts'
  OBVIOUS
<1>1. /\ IsFiniteSet(Seeded) /\ IsFiniteSet(Counted)
      /\ IsFiniteSet(Seeded') /\ IsFiniteSet(Counted')
  BY ProcsAssumption, FS_Subset DEF Seeded, Counted
<1>2. /\ Cardinality(Seeded) \in Nat /\ Cardinality(Counted) \in Nat
      /\ Cardinality(Seeded') \in Nat /\ Cardinality(Counted') \in Nat
  BY <1>1, FS_CardinalityType
<1>3. /\ Seeded \subseteq Seeded' => Cardinality(Seeded) <= Cardinality(Seeded')
      /\ Counted \subseteq Counted' => Cardinality(Counted) <= Cardinality(Counted')
  BY <1>1, FS_Subset
<1>4. store.clock \in Nat /\ store'.clock \in Nat
  BY DEF TypeOK, Stores
<1>5. CASE Flush \/ Finished \/ UNCHANGED vars
  <2>1. store'.clock = store.clock /\ pc' = pc
    BY <1>5 DEF Flush, Remove, Finished, vars, TypeOK, Stores
  <2>2. Seeded' = Seeded /\ Counted' = Counted
    BY <2>1 DEF Seeded, Counted
  <2>3. QED
    BY <2>1, <2>2 DEF ClockCounts
<1>6. ASSUME NEW p \in Procs, Step(p) PROVE ClockCounts'
  <2>1. CASE /\ store'.clock = store.clock
             /\ Seeded \subseteq Seeded' /\ Counted \subseteq Counted'
    BY <2>1, <1>2, <1>3, <1>4 DEF ClockCounts
  <2>2. CASE /\ store'.clock = store.clock + 1 /\ Seeded' = Seeded \cup {p}
             /\ p \notin Seeded /\ Counted \subseteq Counted'
    <3>1. Cardinality(Seeded') = Cardinality(Seeded) + 1
      BY <2>2, <1>1, FS_AddElement
    <3>2. QED
      BY <2>2, <3>1, <1>2, <1>3, <1>4 DEF ClockCounts
  <2>3. CASE /\ store'.clock = store.clock + 1 /\ Counted' = Counted \cup {p}
             /\ p \notin Counted /\ Seeded \subseteq Seeded'
    <3>1. Cardinality(Counted') = Cardinality(Counted) + 1
      BY <2>3, <1>1, FS_AddElement
    <3>2. QED
      BY <2>3, <3>1, <1>2, <1>3, <1>4 DEF ClockCounts
  <2>4. QED
    BY <1>6, <2>1, <2>2, <2>3, StepCounts
<1>7. QED
  BY <1>5, <1>6 DEF Next

\* The clock never goes back.
LEMMA ClockGrows == TypeOK /\ [Next]_vars => store'.clock >= store.clock
<1> SUFFICES ASSUME TypeOK, [Next]_vars PROVE store'.clock >= store.clock
  OBVIOUS
<1>1. store.clock \in Nat
  BY DEF TypeOK, Stores
<1>2. CASE Flush \/ Finished \/ UNCHANGED vars
  <2>1. store'.clock = store.clock
    BY <1>2 DEF Flush, Remove, Finished, vars, TypeOK, Stores
  <2>2. QED
    BY <1>1, <2>1
<1>3. ASSUME NEW p \in Procs, Step(p) PROVE store'.clock >= store.clock
  BY <1>1, <1>3, StepCounts
<1>4. QED
  BY <1>2, <1>3 DEF Next

LEMMA RetriesStep ==
  TypeOK /\ TypeOK' /\ BudgetLeft /\ CasIsLatest /\ RetriesPaid /\ [Next]_vars => RetriesPaid'
<1> SUFFICES ASSUME TypeOK, TypeOK', BudgetLeft, CasIsLatest, RetriesPaid, [Next]_vars,
                    NEW q \in Procs
             PROVE  /\ pc'[q] = "upsert" => Spent(q)' = 0
                    /\ pc'[q] \in {"get", "insert"} => Spent(q)' < store'.clock
                    /\ pc'[q] = "replace" => /\ Spent(q)' < metadoc'[q].cas
                                             /\ metadoc'[q].cas <= store'.clock
  BY DEF RetriesPaid
<1> DEFINE Good == /\ pc'[q] = "upsert" => Spent(q)' = 0
                   /\ pc'[q] \in {"get", "insert"} => Spent(q)' < store'.clock
                   /\ pc'[q] = "replace" => /\ Spent(q)' < metadoc'[q].cas
                                            /\ metadoc'[q].cas <= store'.clock
<1>1. /\ store.clock \in Nat /\ store.cas \in Nat /\ store'.clock \in Nat
      /\ retries[q] \in Int /\ retries'[q] \in Int
      /\ metadoc[q].cas \in Nat /\ Retries \in Int
  BY RetriesAssumption DEF TypeOK, Stores
<1>2. store'.clock >= store.clock
  BY ClockGrows
<1>3. CASE pc'[q] = pc[q] /\ retries'[q] = retries[q] /\ metadoc'[q] = metadoc[q]
  BY <1>1, <1>2, <1>3 DEF RetriesPaid, Spent
<1>4. CASE Step(q)
  <2> USE <1>1, <1>2 DEF RetriesPaid, Spent, Goto, TypeOK
  <2>1. CASE UpsertEmpty(q)
    BY <2>1 DEF UpsertEmpty, Mutate
  <2>2. CASE GetFound(q)
    BY <2>2 DEF GetFound, CasIsLatest, Exists
  <2>3. CASE GetMissing(q) \/ InsertLoses(q)
    BY <2>3 DEF GetMissing, InsertLoses
  <2>4. CASE InsertCreates(q) \/ ReplaceAccepted(q) \/ ReplaceMissing(q) \/ RequestFails(q)
    BY <2>4 DEF InsertCreates, ReplaceAccepted, ReplaceMissing, RequestFails
  <2>5. CASE ReplaceRefused(q)
    <3>1. /\ pc[q] = "replace" /\ store'.clock = store.clock
          /\ retries'[q] = retries[q] - 1 /\ pc'[q] \in {"gaveup", "get"}
      BY <2>5 DEF ReplaceRefused
    <3>2. metadoc[q].cas < store.clock
      BY <2>5, <3>1 DEF ReplaceRefused, ReplaceMismatches, CasAccepts, Exists, CasIsLatest
    <3>3. QED
      BY <3>1, <3>2
  <2>6. QED
    BY <1>4, <2>1, <2>2, <2>3, <2>4, <2>5 DEF Step, Answered
<1>5. ASSUME NEW p \in Procs, p # q, Step(p) PROVE Good
  <2>1. pc'[q] = pc[q] /\ retries'[q] = retries[q] /\ metadoc'[q] = metadoc[q]
    BY <1>5 DEF Step, Answered, UpsertEmpty, GetFound, GetMissing, InsertCreates, InsertLoses, Goto,
                ReplaceAccepted, ReplaceRefused, ReplaceMissing, RequestFails, TypeOK
  <2>2. QED
    BY <2>1, <1>3
<1>6. QED
  BY <1>3, <1>4, <1>5 DEF Next, Flush, Finished, vars

LEMMA ValueStep ==
  TypeOK /\ CasIsLatest /\ RetriesPaid /\ CasIdentifiesValue /\ [Next]_vars
    => CasIdentifiesValue'
<1> SUFFICES ASSUME TypeOK, CasIsLatest, RetriesPaid, CasIdentifiesValue, [Next]_vars,
                    NEW q \in Procs, pc'[q] = "replace", metadoc'[q].cas = store'.cas
             PROVE  metadoc'[q].value = store'.val
  BY DEF CasIdentifiesValue
<1>1. store.clock \in Nat /\ store.cas \in Nat /\ metadoc[q].cas \in Nat
  BY DEF TypeOK, Stores
<1>2. CASE GetFound(q)
  BY <1>2 DEF GetFound, TypeOK
<1>3. CASE ~ GetFound(q)
  <2>1. pc[q] = "replace" /\ metadoc'[q] = metadoc[q]
    BY <1>3 DEF Next, Step, Answered, UpsertEmpty, GetFound, GetMissing, InsertCreates, InsertLoses,
                ReplaceAccepted, ReplaceRefused, ReplaceMissing, RequestFails, Goto,
                Flush, Finished, vars, TypeOK, Ended
  <2>2. metadoc[q].cas <= store.clock /\ metadoc[q].cas # NoCas
    <3>1. Spent(q) \in Int /\ Spent(q) >= 0
      BY RetriesAssumption DEF Spent, TypeOK
    <3>2. QED
      BY <1>1, <2>1, <3>1 DEF RetriesPaid, NoCas
  <2>3. store'.cas # NoCas /\ store'.cas <= store.clock
    BY <2>1, <2>2
  <2>4. store' = store
    <3>1. \A v : store' # Mutate(store, v)
      BY <2>3, <1>1 DEF Mutate
    <3>2. ~ Flush
      BY <2>3 DEF Flush, Remove, TypeOK, Stores
    <3>3. QED
      BY <3>1, <3>2 DEF Next, Step, Answered, UpsertEmpty, GetFound, GetMissing, InsertCreates,
                InsertLoses, ReplaceAccepted, ReplaceRefused, ReplaceMissing,
                RequestFails, Effect, Finished, vars
  <2>5. QED
    BY <2>1, <2>4 DEF CasIdentifiesValue
<1>4. QED
  BY <1>2, <1>3

\* A refused process has seen at most two mutations of each other process, so
\* its budget is not exhausted.
LEMMA RefusalAffordable ==
  ASSUME IInv, Retries > 2 * (Cardinality(Procs) - 1),
         NEW p \in Procs, ReplaceRefused(p)
  PROVE  retries[p] # 1
<1>1. pc[p] = "replace"
  BY DEF ReplaceRefused, Goto
<1>2. IsFiniteSet(Procs) /\ Cardinality(Procs) \in Nat
  BY ProcsAssumption, FS_CardinalityType
<1>3. Cardinality(Seeded) \in Nat /\ Cardinality(Seeded) <= Cardinality(Procs)
  BY <1>2, FS_Subset, FS_CardinalityType DEF Seeded
<1>4. Cardinality(Counted) \in Nat /\ Cardinality(Counted) <= Cardinality(Procs) - 1
  <2>1. Counted \in SUBSET (Procs \ {p})
    BY <1>1 DEF Counted
  <2>2. IsFiniteSet(Procs \ {p}) /\ Cardinality(Procs \ {p}) = Cardinality(Procs) - 1
    BY <1>2, FS_RemoveElement
  <2>3. QED
    BY <2>1, <2>2, FS_Subset, FS_CardinalityType
<1>5. /\ Spent(p) < metadoc[p].cas /\ metadoc[p].cas < store.clock
      /\ metadoc[p].cas \in Nat /\ store.clock \in Nat
  <2>1. /\ metadoc[p].cas \in Nat /\ store.clock \in Nat
        /\ Spent(p) < metadoc[p].cas /\ metadoc[p].cas <= store.clock
    BY <1>1 DEF IInv, TypeOK, Stores, RetriesPaid
  <2>2. metadoc[p].cas # store.clock
    BY DEF ReplaceRefused, ReplaceMismatches, CasAccepts, Exists, IInv, CasIsLatest
  <2>3. QED
    BY <2>1, <2>2
<1>6. retries[p] \in Int /\ Retries \in Int /\ Spent(p) = Retries - retries[p]
  BY RetriesAssumption DEF IInv, TypeOK, Spent
<1>7. store.clock <= Cardinality(Seeded) + Cardinality(Counted)
  BY DEF IInv, ClockCounts
<1>8. QED
  BY <1>2, <1>3, <1>4, <1>5, <1>6, <1>7

LEMMA NextIInv == IInv /\ [Next]_vars => IInv'
<1> SUFFICES ASSUME IInv, [Next]_vars PROVE IInv'
  OBVIOUS
<1>1. TypeOK' /\ BudgetLeft'
  BY TypeStep DEF IInv
<1>2. CasIsLatest' /\ ClockCounts' /\ RetriesPaid' /\ CasIdentifiesValue'
  BY <1>1, CasStep, ClockStep, RetriesStep, ValueStep DEF IInv
<1>3. NeverGivesUp'
  <2> SUFFICES ASSUME Retries > 2 * (Cardinality(Procs) - 1), NEW q \in Procs
               PROVE  pc'[q] # "gaveup"
    BY DEF NeverGivesUp
  <2>1. pc[q] # "gaveup" /\ pc \in [Procs -> {"upsert", "get", "insert", "replace"} \cup Ended]
    BY DEF IInv, NeverGivesUp, TypeOK
  <2>2. CASE ReplaceRefused(q)
    <3>1. retries[q] # 1
      BY <2>2, RefusalAffordable
    <3>2. QED
      BY <3>1, <2>1, <2>2 DEF ReplaceRefused, Goto
  <2>3. CASE ~ ReplaceRefused(q)
    BY <2>1, <2>3 DEF Next, Step, Answered, UpsertEmpty, GetFound, GetMissing, InsertCreates,
                InsertLoses, ReplaceAccepted, ReplaceRefused, ReplaceMissing,
                RequestFails, Goto, Flush, Finished, vars
  <2>4. QED
    BY <2>2, <2>3
<1>4. QED
  BY <1>1, <1>2, <1>3 DEF IInv

\* The strengthening of the properties below is an invariant of php/cas.php.
THEOREM Invariance == Spec => []IInv
  BY InitIInv, NextIInv, PTL DEF Spec

\* Every variable of php/cas.php keeps its type, whatever the interleaving.
THEOREM TypeCorrect == Spec => []TypeOK
<1>1. IInv => TypeOK
  BY DEF IInv
<1>2. QED
  BY <1>1, Invariance, PTL

\* With more retries than twice the number of the other processes, "Couldn't
\* add item!" (line 60) is never thrown, however often the bucket is flushed.
THEOREM EnoughRetries == Spec => []NeverGivesUp
<1>1. IInv => NeverGivesUp
  BY DEF IInv
<1>2. QED
  BY <1>1, Invariance, PTL

\* A replace overwrites exactly the value its process read (lines 23 to 51).
THEOREM ReplaceOverwritesWhatWasRead == Spec => []CasIdentifiesValue
<1>1. IInv => CasIdentifiesValue
  BY DEF IInv
<1>2. QED
  BY <1>1, Invariance, PTL
-----------------------------------------------------------------------------
\* A replace the server accepts carries the document's own CAS and value.
LEMMA AcceptedValue ==
  ASSUME IInv, NEW p \in Procs, pc[p] = "replace",
         ReplaceSucceeds(store, metadoc[p].cas)
  PROVE  metadoc[p].value = store.val
<1>1. retries[p] \in Int /\ retries[p] <= Retries /\ metadoc[p].cas \in Nat
  BY RetriesAssumption DEF IInv, TypeOK
<1>2. metadoc[p].cas # NoCas
  BY <1>1, RetriesAssumption DEF IInv, RetriesPaid, Spent, NoCas
<1>3. QED
  BY <1>2 DEF ReplaceSucceeds, CasAccepts, IInv, CasIdentifiesValue

LEMMA RefineInit == Init => Abstract!Init
  BY DEF Init, Abstract!Init, EmptyStore, Outcome

LEMMA RefineStep == IInv /\ [Next]_vars => [Abstract!Next]_(Abstract!vars)
<1> SUFFICES ASSUME IInv, [Next]_vars PROVE [Abstract!Next]_(Abstract!vars)
  OBVIOUS
<1> USE DEF Abstract!Next, Abstract!vars, Abstract!Answer, Abstract!Unchanged,
            Abstract!Wiped
<1>t. pc \in [Procs -> {"upsert", "get", "insert", "replace"} \cup Ended]
  BY DEF IInv, TypeOK
<1>1. ASSUME NEW p \in Procs, UpsertEmpty(p) PROVE Abstract!Wipe
  BY <1>t, <1>1 DEF UpsertEmpty, Goto, Mutate, Outcome, Abstract!Wipe
<1>2. ASSUME NEW p \in Procs, GetFound(p) \/ GetMissing(p) \/ InsertLoses(p)
      PROVE  UNCHANGED Abstract!vars
  BY <1>t, <1>2 DEF GetFound, GetMissing, InsertLoses, Goto, Outcome
<1>3. ASSUME NEW p \in Procs, InsertCreates(p) PROVE Abstract!Add(p)
  <2>1. store.val = <<>>
    BY <1>3 DEF InsertCreates, Exists, IInv, CasIsLatest
  <2>2. store'.val = Append(store.val, p)
    BY <2>1, <1>3 DEF InsertCreates, Mutate
  <2>3. QED
    BY <1>t, <2>2, <1>3 DEF InsertCreates, Goto, Outcome, Abstract!Add
<1>4. ASSUME NEW p \in Procs, ReplaceAccepted(p) PROVE Abstract!Add(p)
  <2>2. store'.val = Append(store.val, p)
    BY <1>4, AcceptedValue DEF ReplaceAccepted, Mutate, Goto
  <2>3. QED
    BY <1>t, <2>2, <1>4 DEF ReplaceAccepted, Goto, Outcome, Abstract!Add
<1>5. ASSUME NEW p \in Procs, ReplaceRefused(p)
      PROVE  UNCHANGED Abstract!vars \/ Abstract!Fail(p)
  BY <1>t, <1>5 DEF ReplaceRefused, Goto, Outcome, Abstract!Fail
<1>6. ASSUME NEW p \in Procs, ReplaceMissing(p) PROVE Abstract!Fail(p)
  BY <1>t, <1>6 DEF ReplaceMissing, Goto, Outcome, Abstract!Fail
<1>7. ASSUME NEW p \in Procs, RequestFails(p) PROVE Abstract!Add(p) \/ Abstract!Fail(p)
  <2>1. /\ Abstract!Answer(p, "failed")
        /\ pc[p] \notin Ended
        /\ Effect(p) \/ UNCHANGED store
    BY <1>t, <1>7 DEF RequestFails, Goto, Outcome, Ended
  <2>2. CASE UNCHANGED store
    BY <2>1, <2>2 DEF Abstract!Fail
  <2>3. CASE pc[p] = "upsert" /\ store' = Mutate(store, <<>>)
    BY <2>1, <2>3 DEF Mutate, Abstract!Fail
  <2>4. CASE pc[p] = "insert" /\ ~ Exists(store) /\ store' = Mutate(store, <<p>>)
    <3>1. store.val = <<>>
      BY <2>4 DEF Exists, IInv, CasIsLatest
    <3>2. store'.val = Append(store.val, p)
      BY <3>1, <2>4 DEF Mutate
    <3>3. QED
      BY <2>1, <3>2 DEF Abstract!Add
  <2>5. CASE /\ pc[p] = "replace"
             /\ ReplaceSucceeds(store, metadoc[p].cas)
             /\ store' = Mutate(store, Append(metadoc[p].value, p))
    <3>1. store'.val = Append(store.val, p)
      BY <2>5, AcceptedValue DEF Mutate
    <3>2. QED
      BY <2>1, <3>1 DEF Abstract!Add
  <2>6. QED
    BY <2>1, <2>2, <2>3, <2>4, <2>5 DEF Effect
<1>8. ASSUME Flush PROVE Abstract!Wipe
  BY <1>8 DEF Flush, Remove, Outcome, IInv, TypeOK, Stores, Abstract!Wipe
<1>9. CASE UNCHANGED vars
  BY <1>9 DEF vars, Outcome
<1>10. ASSUME NEW p \in Procs, Step(p)
       PROVE  UNCHANGED Abstract!vars \/ Abstract!Wipe \/ Abstract!Add(p) \/ Abstract!Fail(p)
  BY <1>1, <1>2, <1>3, <1>4, <1>5, <1>6, <1>7, <1>10 DEF Step, Answered
<1>11. QED
  BY <1>8, <1>9, <1>10 DEF Next, Finished

\* php/cas.php implements the atomic list: adds take effect one at a time, at
\* most once each, and never at the expense of another process's add.
THEOREM Refinement == Spec => ImplementsAtomicList
  BY Invariance, RefineInit, RefineStep, PTL DEF Spec, ImplementsAtomicList, Abstract!Spec
-----------------------------------------------------------------------------
\* Only processes whose add took effect, known to them or not, are in the list.
ItemsCounted == \A i \in DOMAIN store.val : store.val[i] \in Counted

OnceInv == IInv /\ ItemsCounted /\ NoDuplicates

\* What a step may do to the list: nothing, empty it, or append the item of a
\* process that was still trying and now no longer is.
ListStep(p) == \/ store'.val = store.val
               \/ store'.val = <<>>
               \/ /\ store'.val = Append(store.val, p)
                  /\ p \notin Counted
                  /\ p \in Counted'

LEMMA StepOnList ==
  ASSUME IInv, NEW p \in Procs, Step(p)
  PROVE  Counted \subseteq Counted' /\ ListStep(p)
<1> USE DEF Counted, Ended
<1>t. pc \in [Procs -> {"upsert", "get", "insert", "replace"} \cup Ended]
  BY DEF IInv, TypeOK
<1>1. CASE UpsertEmpty(p)
  BY <1>t, <1>1 DEF UpsertEmpty, Goto, Mutate, ListStep
<1>2. CASE GetFound(p) \/ GetMissing(p) \/ InsertLoses(p) \/ ReplaceRefused(p)
           \/ ReplaceMissing(p)
  BY <1>t, <1>2 DEF GetFound, GetMissing, InsertLoses, ReplaceRefused, ReplaceMissing,
     Goto, ListStep
<1>3. CASE InsertCreates(p)
  <2>1. store.val = <<>>
    BY <1>3 DEF InsertCreates, Exists, IInv, CasIsLatest
  <2>2. store'.val = Append(store.val, p)
    BY <2>1, <1>3 DEF InsertCreates, Mutate
  <2>3. QED
    BY <1>t, <2>2, <1>3 DEF InsertCreates, Goto, ListStep
<1>4. CASE ReplaceAccepted(p)
  <2>1. store'.val = Append(store.val, p)
    BY <1>4, AcceptedValue DEF ReplaceAccepted, Mutate, Goto
  <2>2. QED
    BY <1>t, <2>1, <1>4 DEF ReplaceAccepted, Goto, ListStep
<1>5. CASE RequestFails(p)
  <2>1. /\ pc[p] \notin Ended /\ pc' = [pc EXCEPT ![p] = "threw"]
        /\ Effect(p) \/ UNCHANGED store
    BY <1>5 DEF RequestFails, Goto
  <2>2. Counted \subseteq Counted' /\ p \notin Counted /\ p \in Counted'
    BY <1>t, <2>1
  <2>3. CASE UNCHANGED store
    BY <2>2, <2>3 DEF ListStep
  <2>4. CASE pc[p] = "upsert" /\ store' = Mutate(store, <<>>)
    BY <2>2, <2>4 DEF Mutate, ListStep
  <2>5. CASE pc[p] = "insert" /\ ~ Exists(store) /\ store' = Mutate(store, <<p>>)
    <3>1. store.val = <<>>
      BY <2>5 DEF Exists, IInv, CasIsLatest
    <3>2. store'.val = Append(store.val, p)
      BY <3>1, <2>5 DEF Mutate
    <3>3. QED
      BY <2>2, <3>2 DEF ListStep
  <2>6. CASE /\ pc[p] = "replace"
             /\ ReplaceSucceeds(store, metadoc[p].cas)
             /\ store' = Mutate(store, Append(metadoc[p].value, p))
    <3>1. store'.val = Append(store.val, p)
      BY <2>6, AcceptedValue DEF Mutate
    <3>2. QED
      BY <2>2, <3>1 DEF ListStep
  <2>7. QED
    BY <2>1, <2>3, <2>4, <2>5, <2>6 DEF Effect
<1>6. QED
  BY <1>1, <1>2, <1>3, <1>4, <1>5 DEF Step, Answered

LEMMA OnceStep == OnceInv /\ [Next]_vars => OnceInv'
<1> SUFFICES ASSUME OnceInv, [Next]_vars PROVE OnceInv'
  OBVIOUS
<1>1. IInv /\ IInv' /\ store.val \in Seq(Procs)
  BY NextIInv DEF OnceInv, IInv, TypeOK, Stores
<1>2. ASSUME Counted \subseteq Counted', store'.val = store.val \/ store'.val = <<>>
      PROVE  ItemsCounted' /\ NoDuplicates'
  BY <1>2 DEF OnceInv, ItemsCounted, NoDuplicates
<1>3. ASSUME NEW p \in Procs, Step(p) PROVE ItemsCounted' /\ NoDuplicates'
  <2>1. Counted \subseteq Counted' /\ ListStep(p)
    BY <1>1, <1>3, StepOnList
  <2>2. CASE /\ store'.val = Append(store.val, p)
             /\ p \notin Counted /\ p \in Counted'
    <3>1. /\ DOMAIN store'.val = 1 .. Len(store.val) + 1
          /\ \A i \in 1 .. Len(store.val) : store'.val[i] = store.val[i]
          /\ store'.val[Len(store.val) + 1] = p
          /\ Len(store.val) \in Nat /\ DOMAIN store.val = 1 .. Len(store.val)
      BY <1>1, <2>2
    <3>2. \A i \in 1 .. Len(store.val) : store.val[i] \in Counted
      BY <3>1 DEF OnceInv, ItemsCounted
    <3>3. ItemsCounted'
      BY <2>1, <2>2, <3>1, <3>2 DEF ItemsCounted
    <3>4. \A i \in 1 .. Len(store.val) : store'.val[i] # p
      BY <2>2, <3>1, <3>2
    <3>5. NoDuplicates'
      BY <3>1, <3>4 DEF OnceInv, NoDuplicates
    <3>6. QED
      BY <3>3, <3>5
  <2>3. QED
    BY <1>2, <2>1, <2>2 DEF ListStep
<1>4. ASSUME Flush PROVE ItemsCounted' /\ NoDuplicates'
  <2>1. Counted \subseteq Counted' /\ store' = [store EXCEPT !.val = <<>>, !.cas = NoCas]
    BY <1>4 DEF Flush, Remove, Counted
  <2>2. store'.val = <<>>
    BY <1>1, <2>1 DEF IInv, TypeOK, Stores
  <2>3. QED
    BY <1>2, <2>1, <2>2
<1>5. ASSUME UNCHANGED vars PROVE ItemsCounted' /\ NoDuplicates'
  BY <1>2, <1>5 DEF vars, Counted
<1>6. QED
  BY <1>1, <1>3, <1>4, <1>5 DEF Next, Finished, OnceInv

\* A process's id is in the list at most once (lines 48 to 59): neither a lost
\* reply nor a retry nor a flush makes the script add it again.
THEOREM AddedAtMostOnce == Spec => []NoDuplicates
<1>1. Init => OnceInv
  <2>1. Init => store.val = <<>>
    BY DEF Init, EmptyStore
  <2>2. QED
    BY <2>1, InitIInv DEF OnceInv, ItemsCounted, NoDuplicates
<1>2. OnceInv => NoDuplicates
  BY DEF OnceInv
<1>3. QED
  BY <1>1, <1>2, OnceStep, PTL DEF Spec
=============================================================================
