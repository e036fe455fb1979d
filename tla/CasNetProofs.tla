---------------------------- MODULE CasNetProofs ----------------------------
(***************************************************************************)
(* Proofs about CasNet for any finite set of tasks, any number of          *)
(* increments per task and any retry limit.                                *)
(***************************************************************************)
EXTENDS CasNet, FiniteSetTheorems, TLAPS

\* Nothing removes the document, so it carries the last CAS handed out.
CasIsLatest == store.cas = store.clock

\* A task about to replace holds a CAS the server did hand out.
ReadIsPast ==
  \A t \in Tasks : pc[t] = "replace" => read[t].cas # NoCas /\ read[t].cas <= store.clock

\* An equal CAS means an equal number, in the phase that compares it.
CasIdentifiesNumber ==
  \A t \in Tasks :
    main = "safe" /\ pc[t] = "replace" /\ read[t].cas = store.cas
      => read[t].number = store.val

\* An increment is behind its task once the task's retry loop for it was left.
Passed(t, i) == i < iter[t] \/ pc[t] = "done"

\* Each increment behind its task is in a history set, and no other is.
Accounted ==
  \A t \in Tasks : \A i \in 1 .. Count :
    Passed(t, i) <=> <<t, i>> \in won \cup exhausted \cup failed

\* No increment both took effect and was given up.
WonOrExhausted == won \cap exhausted = {}

\* The number is only printed after every task has done its loop.
AllDone == main \in {"print1", "upsert2", "print2", "done"} => \A t \in Tasks : pc[t] = "done"

WonByOthers(t) == {w \in won : w[1] # t}

\* Every retry spent on the current increment, and every change since the last
\* get, was an increment of another task.
RetriesPaid ==
  main = "safe" =>
    \A t \in Tasks :
      /\ pc[t] = "get" => budget - retries[t] <= Cardinality(WonByOthers(t))
      /\ pc[t] = "replace" => budget - retries[t] + (store.clock - read[t].cas)
                                <= Cardinality(WonByOthers(t))

\* Without failures and CAS the number never exceeds the increments made, and
\* the first increment of a task shows in what its later ones read.
NumberFollowsWins ==
  main \in {"unsafe", "print1"} /\ faults = {} =>
    /\ Exists(store)
    /\ store.val <= Cardinality(won)
    /\ won # {} => store.val >= 1
    /\ exhausted = {} /\ failed = {}
    /\ \A t \in Tasks : pc[t] = "replace" => /\ read[t].number <= Cardinality(won)
                                             /\ iter[t] > 1 => read[t].number >= 1

\* The last replace of all is one whose task had replaced before.
LastSeesFirst ==
  main \in {"unsafe", "print1"} /\ faults = {} /\ Count > 1 /\ Tasks # {}
    /\ (\A t \in Tasks : pc[t] = "done")
    => store.val >= 2

IInv == /\ TypeOK
        /\ CasIsLatest
        /\ ReadIsPast
        /\ CasIdentifiesNumber
        /\ Accounted
        /\ WonOrExhausted
        /\ AllDone
        /\ NumberCountsWins
        /\ RetriesPaid
        /\ EnoughRetriesDropNothing
        /\ NumberFollowsWins
        /\ LastSeesFirst
-----------------------------------------------------------------------------
\* The invariant holds at the start.
LEMMA InitIInv == Init => IInv
<1> SUFFICES ASSUME Init PROVE IInv
  OBVIOUS
<1> USE CountAssumption, BudgetsAssumption DEF Init, EmptyStore, NoCas
<1>1. TypeOK
  BY DEF TypeOK, Stores, Ended
<1>2. /\ CasIsLatest /\ ReadIsPast /\ CasIdentifiesNumber /\ Accounted /\ WonOrExhausted /\ AllDone
      /\ RetriesPaid /\ NumberFollowsWins /\ LastSeesFirst
  BY DEF CasIsLatest, ReadIsPast, CasIdentifiesNumber, Accounted, Passed, WonOrExhausted, AllDone,
         RetriesPaid, NumberFollowsWins, LastSeesFirst
<1>3. NumberCountsWins /\ EnoughRetriesDropNothing
  BY DEF NumberCountsWins, EnoughRetriesDropNothing, InSafePhase
<1>4. QED
  BY <1>1, <1>2, <1>3 DEF IInv

\* Every step keeps the types.
LEMMA TypeStep == TypeOK /\ [Next]_vars => TypeOK'
<1> SUFFICES ASSUME TypeOK, [Next]_vars PROVE TypeOK'
  OBVIOUS
<1> USE CountAssumption, BudgetsAssumption DEF TypeOK, Ended
<1>a. \A n \in Nat : Mutate(store, n) \in Stores(Nat)
  BY DEF Mutate, Stores
<1>b. \A kind \in Faults : Fault(kind) => faults' \subseteq Faults
  BY DEF Fault
<1>c. ASSUME NEW t \in Tasks, Write(t) PROVE store' \in Stores(Nat) /\ won' \subseteq Increments
  BY <1>a, <1>c DEF Write, Increments
<1>d. ASSUME NEW t \in Tasks, NextIncrement(t), UNCHANGED budget
      PROVE  /\ pc' \in [Tasks -> {"idle", "get", "replace", "done", "threw"}]
             /\ iter' \in [Tasks -> 1 .. Count] /\ retries' \in [Tasks -> 0 .. budget']
  <2>1. budget \in Nat
    OBVIOUS
  <2>2. retries' \in [Tasks -> 0 .. budget']
    BY <1>d, <2>1 DEF NextIncrement
  <2>3. iter' \in [Tasks -> 1 .. Count]
    BY <1>d DEF NextIncrement
  <2>4. QED
    BY <1>d, <2>2, <2>3 DEF NextIncrement
<1>1. ASSUME NEW t \in Tasks, Get(t) PROVE TypeOK'
  BY <1>1 DEF Get, At, Stores
<1>2. ASSUME NEW t \in Tasks, GetFails(t) PROVE TypeOK'
  BY <1>2, <1>b DEF GetFails, At, Faults
<1>3. ASSUME NEW t \in Tasks, Replace(t) PROVE TypeOK'
  BY <1>3, <1>c, <1>d DEF Replace, At
<1>4. ASSUME NEW t \in Tasks, Mismatch(t) PROVE TypeOK'
  BY <1>4 DEF Mismatch, At
<1>5. ASSUME NEW t \in Tasks, Exhaust(t) PROVE TypeOK'
  BY <1>5, <1>d DEF Exhaust, At, Increments
<1>6. ASSUME NEW t \in Tasks, ReplaceFails(t) PROVE TypeOK'
  <2>1. store' \in Stores(Nat) /\ won' \subseteq Increments
    BY <1>6, <1>c DEF ReplaceFails
  <2>2. failed' \subseteq Increments /\ faults' \subseteq Faults
    BY <1>6, <1>b DEF ReplaceFails, Increments, Faults
  <2>3. QED
    BY <1>6, <1>d, <2>1, <2>2 DEF ReplaceFails, At
<1>7. ASSUME NEW from, NEW to \in {"unsafe", "safe"}, UpsertZero(from, to) PROVE TypeOK'
  <2>1. store' \in Stores(Nat) /\ faults' \subseteq Faults
    BY <1>7, <1>a, <1>b DEF UpsertZero, Faults
  <2>2. budget \in Nat /\ budget' = budget
    BY <1>7 DEF UpsertZero, Goto
  <2>3. QED
    BY <1>7, <2>1, <2>2 DEF UpsertZero, Goto, FreshTasks, NoCas
<1>8. ASSUME NEW from, NEW to \in {"print1", "print2"}, WhenAll(from, to) PROVE TypeOK'
  BY <1>8 DEF WhenAll, tvars
<1>9. ASSUME NEW from, NEW to \in {"upsert2", "done"}, PrintNumber(from, to) PROVE TypeOK'
  BY <1>9, <1>b DEF PrintNumber, Goto, tvars, Faults
<1>10. CASE UNCHANGED vars
  BY <1>10 DEF vars, tvars
<1>11. QED
  BY <1>1, <1>2, <1>3, <1>4, <1>5, <1>6, <1>7, <1>8, <1>9, <1>10 DEF Next, Main, Stopped, Task

\* What a step of a task does to an increment: it stays with it, or leaves the
\* retry loop, and then the increment is put into a history set.
Stays(t)  == /\ UNCHANGED <<store, iter, won, exhausted, failed>>
             /\ pc'[t] \in {"get", "replace", "threw"}
Leaves(t) == /\ pc[t] = "replace"
             /\ NextIncrement(t)
             /\ UNCHANGED read
             /\ Write(t) \/ UNCHANGED <<store, won>>
             /\ won' \cup exhausted' \cup failed' = won \cup exhausted \cup failed \cup {<<t, iter[t]>>}

\* What a step of a task does to the history sets and the document.
LEMMA TaskEffect ==
  ASSUME TypeOK, NEW t \in Tasks, Task(t)
  PROVE  /\ main \in {"unsafe", "safe"} /\ UNCHANGED <<main, budget>> /\ faults \subseteq faults'
         /\ pc[t] \in {"get", "replace"}
         /\ \A u \in Tasks : u # t => /\ pc'[u] = pc[u] /\ iter'[u] = iter[u]
                                     /\ read'[u] = read[u] /\ retries'[u] = retries[u]
         /\ Stays(t) \/ Leaves(t)
<1> USE DEF TypeOK, At, Stays, Leaves
<1>1. CASE Get(t)
  BY <1>1 DEF Get
<1>2. CASE GetFails(t)
  BY <1>2 DEF GetFails, Fault
<1>3. CASE Replace(t)
  BY <1>3 DEF Replace, NextIncrement, Write
<1>4. CASE Mismatch(t)
  BY <1>4 DEF Mismatch
<1>5. CASE Exhaust(t)
  BY <1>5 DEF Exhaust, NextIncrement
<1>6. CASE ReplaceFails(t)
  BY <1>6 DEF ReplaceFails, NextIncrement, Write, Fault
<1>7. QED
  BY <1>1, <1>2, <1>3, <1>4, <1>5, <1>6, Task(t) DEF Task

\* What a step of the main method does: a phase starts afresh, or nothing but
\* main and the faults change.
LEMMA MainEffect ==
  ASSUME Main
  PROVE  /\ budget' = budget /\ faults \subseteq faults'
         /\ \/ /\ \/ main = "upsert1" /\ main' = "unsafe"
                  \/ main = "upsert2" /\ main' = "safe"
               /\ FreshTasks
               /\ store' = Mutate(store, 0) \/ (store' = store /\ "upsert" \in faults')
            \/ /\ UNCHANGED <<store, tvars>>
               /\ main' # "unsafe" /\ main' # "safe"
               /\ main' = "print1" => main = "unsafe" /\ faults' = faults
               /\ main' = "upsert2" => main = "print1"
               /\ main' = "print2" => main = "safe"
               /\ main' = "done" => main = "print2"
               /\ main' \in {"print1", "print2"} => \A t \in Tasks : pc[t] = "done"
<1>1. ASSUME NEW from, NEW to, UpsertZero(from, to)
      PROVE  /\ budget' = budget /\ faults \subseteq faults' /\ main = from /\ main' = to /\ FreshTasks
             /\ store' = Mutate(store, 0) \/ (store' = store /\ "upsert" \in faults')
  BY <1>1 DEF UpsertZero, Goto, Fault
<1>2. ASSUME NEW from, NEW to, WhenAll(from, to)
      PROVE  /\ UNCHANGED <<budget, faults, store, tvars>> /\ main = from
             /\ main' = "threw" \/ (main' = to /\ \A t \in Tasks : pc[t] = "done")
  BY <1>2 DEF WhenAll
<1>3. ASSUME NEW from, NEW to, PrintNumber(from, to)
      PROVE  /\ budget' = budget /\ faults \subseteq faults' /\ UNCHANGED <<store, tvars>>
             /\ main = from /\ main' \in {"threw", to}
  BY <1>3 DEF PrintNumber, Goto, Fault
<1>4. CASE UpsertZero("upsert1", "unsafe") \/ UpsertZero("upsert2", "safe")
  BY <1>4, <1>1
<1>5. CASE WhenAll("unsafe", "print1")
  BY <1>5, <1>2
<1>6. CASE WhenAll("safe", "print2")
  BY <1>6, <1>2
<1>7. CASE PrintNumber("print1", "upsert2")
  BY <1>7, <1>3
<1>8. CASE PrintNumber("print2", "done")
  BY <1>8, <1>3
<1>9. QED
  BY <1>4, <1>5, <1>6, <1>7, <1>8, Main DEF Main

\* Only a mutation changes the CAS, and it takes the next one.
LEMMA CasStep == TypeOK /\ CasIsLatest /\ [Next]_vars => CasIsLatest' /\ store'.clock >= store.clock
<1> SUFFICES ASSUME TypeOK, CasIsLatest, [Next]_vars
             PROVE  CasIsLatest' /\ store'.clock >= store.clock
  OBVIOUS
<1>1. store.clock \in Nat
  BY DEF TypeOK, Stores
<1>2. store' = store \/ \E n : store' = Mutate(store, n)
  <2>1. ASSUME NEW t \in Tasks, Task(t) PROVE store' = store \/ \E n : store' = Mutate(store, n)
    BY <2>1, TaskEffect DEF Stays, Leaves, Write
  <2>2. CASE Main
    BY <2>2, MainEffect
  <2>3. QED
    BY <2>1, <2>2 DEF Next, Stopped, vars
<1>3. QED
  BY <1>1, <1>2 DEF CasIsLatest, Mutate

\* A task about to replace holds a CAS that the server did hand out.
LEMMA ReadStep ==
  TypeOK /\ CasIsLatest /\ ReadIsPast /\ [Next]_vars => ReadIsPast'
<1> SUFFICES ASSUME TypeOK, CasIsLatest, ReadIsPast, [Next]_vars, NEW u \in Tasks, pc'[u] = "replace"
             PROVE  read'[u].cas # NoCas /\ read'[u].cas <= store'.clock
  BY DEF ReadIsPast
<1>1. /\ store.clock \in Nat /\ store'.clock \in Nat /\ store'.clock >= store.clock
      /\ read[u].cas \in Nat
  BY CasStep, TypeStep DEF TypeOK, Stores
<1>2. CASE pc[u] = "replace" /\ read'[u] = read[u]
  BY <1>1, <1>2 DEF ReadIsPast
<1>3. CASE Task(u)
  <2>1. CASE Get(u)
    BY <2>1, <1>1 DEF Get, Exists, CasIsLatest, TypeOK
  <2>2. CASE ~ Get(u)
    <3>1. pc'[u] # "replace"
      BY <1>3, <2>2 DEF Task, GetFails, Replace, Mismatch, Exhaust, ReplaceFails, NextIncrement, TypeOK
    <3>2. QED
      BY <3>1
  <2>3. QED
    BY <2>1, <2>2
<1>4. ASSUME NEW t \in Tasks, t # u, Task(t) PROVE pc[u] = "replace" /\ read'[u] = read[u]
  BY <1>4, TaskEffect
<1>5. CASE Main
  <2>1. ~ FreshTasks
    BY DEF FreshTasks
  <2>2. QED
    BY <1>2, <1>5, <2>1, MainEffect DEF tvars
<1>6. CASE UNCHANGED vars
  BY <1>2, <1>6 DEF vars, tvars
<1>7. QED
  BY <1>2, <1>3, <1>4, <1>5, <1>6 DEF Next, Stopped

\* A CAS stands for one value.
LEMMA IdentifiesStep ==
  TypeOK /\ CasIsLatest /\ ReadIsPast /\ CasIdentifiesNumber /\ [Next]_vars => CasIdentifiesNumber'
<1> SUFFICES ASSUME TypeOK, CasIsLatest, ReadIsPast, CasIdentifiesNumber, [Next]_vars,
                    NEW u \in Tasks, main' = "safe", pc'[u] = "replace", read'[u].cas = store'.cas
             PROVE  read'[u].number = store'.val
  BY DEF CasIdentifiesNumber
<1>1. /\ store.clock \in Nat /\ store.cas \in Nat /\ read[u].cas \in Nat
  BY DEF TypeOK, Stores
<1>2. CASE Get(u)
  BY <1>2 DEF Get, TypeOK
<1>3. CASE ~ Get(u)
  <2>1. ~ Main
    BY MainEffect DEF FreshTasks
  <2>2. main = "safe" /\ pc[u] = "replace" /\ read'[u] = read[u]
    <3>1. CASE Task(u)
      BY <3>1, <1>3 DEF Task, GetFails, Replace, Mismatch, Exhaust, ReplaceFails, NextIncrement, TypeOK
    <3>2. ASSUME NEW t \in Tasks, t # u, Task(t) PROVE main = "safe" /\ pc[u] = "replace" /\ read'[u] = read[u]
      BY <3>2, TaskEffect
    <3>3. QED
      BY <2>1, <3>1, <3>2 DEF Next, Stopped, vars, tvars
  <2>3. \A n : store' # Mutate(store, n)
    BY <1>1, <2>2 DEF ReadIsPast, Mutate
  <2>4. store' = store
    BY <2>1, <2>3, TaskEffect DEF Next, Stopped, vars, Stays, Leaves, Write
  <2>5. QED
    BY <2>2, <2>4 DEF CasIdentifiesNumber
<1>4. QED
  BY <1>2, <1>3
-----------------------------------------------------------------------------
\* Leaving the retry loop puts exactly the current increment behind the task.
LEMMA PassedStep ==
  ASSUME TypeOK, NEW t \in Tasks, Task(t), NEW u \in Tasks, NEW i \in 1 .. Count
  PROVE  Passed(u, i)' <=> Passed(u, i) \/ (Leaves(t) /\ u = t /\ i = iter[t])
<1> USE CountAssumption DEF Passed, TypeOK
<1>1. CASE u # t
  BY <1>1, TaskEffect
<1>2. CASE u = t /\ Leaves(t)
  BY <1>2 DEF Leaves, NextIncrement
<1>3. CASE u = t /\ ~ Leaves(t)
  <2>1. Stays(t) /\ pc[t] \in {"get", "replace"}
    BY <1>3, TaskEffect
  <2>2. QED
    BY <1>3, <2>1 DEF Stays
<1>4. QED
  BY <1>1, <1>2, <1>3

\* Every increment behind its task won, was given up or failed.
LEMMA AccountedStep == TypeOK /\ Accounted /\ [Next]_vars => Accounted'
<1> SUFFICES ASSUME TypeOK, Accounted, [Next]_vars, NEW u \in Tasks, NEW i \in 1 .. Count
             PROVE  Passed(u, i)' <=> <<u, i>> \in won' \cup exhausted' \cup failed'
  BY DEF Accounted
<1>1. Passed(u, i) <=> <<u, i>> \in won \cup exhausted \cup failed
  BY DEF Accounted
<1>2. ASSUME NEW t \in Tasks, Task(t)
      PROVE  Passed(u, i)' <=> <<u, i>> \in won' \cup exhausted' \cup failed'
  <2>1. CASE Leaves(t)
    <3>1. <<u, i>> = <<t, iter[t]>> <=> u = t /\ i = iter[t]
      OBVIOUS
    <3>2. Passed(u, i)' <=> Passed(u, i) \/ (u = t /\ i = iter[t])
      BY <1>2, <2>1, PassedStep
    <3>3. QED
      BY <1>1, <2>1, <3>1, <3>2 DEF Leaves
  <2>2. CASE ~ Leaves(t)
    <3>1. Stays(t)
      BY <1>2, <2>2, TaskEffect
    <3>2. Passed(u, i)' <=> Passed(u, i)
      BY <1>2, <2>2, PassedStep
    <3>3. QED
      BY <1>1, <3>1, <3>2 DEF Stays
  <2>3. QED
    BY <2>1, <2>2
<1>3. CASE FreshTasks
  BY <1>3 DEF FreshTasks, Passed
<1>4. CASE UNCHANGED tvars
  BY <1>1, <1>4 DEF tvars, Passed
<1>5. QED
  BY <1>2, <1>3, <1>4, MainEffect DEF Next, Stopped, vars

\* The number is printed when every task has done its loop.
LEMMA AllDoneStep == TypeOK /\ AllDone /\ [Next]_vars => AllDone'
<1> SUFFICES ASSUME TypeOK, AllDone, [Next]_vars PROVE AllDone'
  OBVIOUS
<1>1. ASSUME NEW t \in Tasks, Task(t) PROVE AllDone'
  BY <1>1, TaskEffect DEF AllDone
<1>2. CASE Main
  BY <1>2, MainEffect DEF AllDone, tvars
<1>3. CASE UNCHANGED vars
  BY <1>3 DEF AllDone, vars, tvars
<1>4. QED
  BY <1>1, <1>2, <1>3 DEF Next, Stopped

\* An increment a task is at is in no history set yet.
LEMMA CurrentIsNew ==
  ASSUME TypeOK, Accounted, NEW t \in Tasks, pc[t] # "done"
  PROVE  <<t, iter[t]>> \in Increments /\ <<t, iter[t]>> \notin won \cup exhausted \cup failed
<1>1. iter[t] \in 1 .. Count
  BY DEF TypeOK
<1>2. ~ Passed(t, iter[t])
  BY <1>1, CountAssumption DEF Passed
<1>3. QED
  BY <1>1, <1>2 DEF Accounted, Increments

\* An increment is not both won and given up.
LEMMA WonOrExhaustedStep ==
  TypeOK /\ Accounted /\ WonOrExhausted /\ [Next]_vars => WonOrExhausted'
<1> SUFFICES ASSUME TypeOK, Accounted, WonOrExhausted, [Next]_vars PROVE WonOrExhausted'
  OBVIOUS
<1>1. ASSUME NEW t \in Tasks, Task(t) PROVE WonOrExhausted'
  <2>1. <<t, iter[t]>> \notin won \cup exhausted
    BY <1>1, TaskEffect, CurrentIsNew
  <2>2. \/ won' = won /\ exhausted' = exhausted
        \/ won' = won \cup {<<t, iter[t]>>} /\ exhausted' = exhausted
        \/ won' = won /\ exhausted' = exhausted \cup {<<t, iter[t]>>}
    BY <1>1 DEF Task, Get, GetFails, Replace, Mismatch, Exhaust, ReplaceFails, Write
  <2>3. QED
    BY <2>1, <2>2 DEF WonOrExhausted
<1>2. CASE Main
  BY <1>2, MainEffect DEF FreshTasks, tvars, WonOrExhausted
<1>3. CASE UNCHANGED vars
  BY <1>3 DEF WonOrExhausted, vars, tvars
<1>4. QED
  BY <1>1, <1>2, <1>3 DEF Next, Stopped

\* The sets of increments are finite, so they can be counted.
LEMMA IncrementsFinite ==
  /\ IsFiniteSet(Increments) /\ Cardinality(Increments) = Total /\ Total \in Nat
  /\ \A S \in SUBSET Increments :
       IsFiniteSet(S) /\ Cardinality(S) \in Nat /\ Cardinality(S) <= Total
<1>1. IsFiniteSet(1 .. Count) /\ Cardinality(1 .. Count) = Count
  BY CountAssumption, FS_Interval
<1>2. IsFiniteSet(Increments) /\ Cardinality(Increments) = Total
  BY <1>1, TasksAssumption, FS_Product DEF Increments, Total
<1>3. QED
  BY <1>2, FS_Subset, FS_CardinalityType

\* A replace counts one more increment.
LEMMA WriteCounts ==
  ASSUME TypeOK, Accounted, NEW t \in Tasks, pc[t] # "done", Write(t)
  PROVE  Cardinality(won') = Cardinality(won) + 1 /\ Cardinality(won) \in Nat
<1>1. IsFiniteSet(won) /\ Cardinality(won) \in Nat
  BY IncrementsFinite DEF TypeOK
<1>2. won' = won \cup {<<t, iter[t]>>} /\ <<t, iter[t]>> \notin won
  BY CurrentIsNew DEF Write
<1>3. QED
  BY <1>1, <1>2, FS_AddElement

\* The number goes up by one with every increment won.
LEMMA CountsStep ==
  TypeOK /\ CasIsLatest /\ ReadIsPast /\ CasIdentifiesNumber /\ Accounted /\ NumberCountsWins
    /\ [Next]_vars => NumberCountsWins'
<1> SUFFICES ASSUME TypeOK, CasIsLatest, ReadIsPast, CasIdentifiesNumber, Accounted,
                    NumberCountsWins, [Next]_vars, InSafePhase'
             PROVE  store'.val = Cardinality(won')
  BY DEF NumberCountsWins
<1>1. CASE FreshTasks /\ store' = Mutate(store, 0)
  BY <1>1, FS_EmptySet DEF FreshTasks, Mutate
<1>2. CASE InSafePhase /\ store' = store /\ won' = won
  BY <1>2 DEF NumberCountsWins
<1>3. CASE Main
  BY <1>1, <1>2, <1>3, MainEffect DEF InSafePhase, tvars
<1>4. ASSUME NEW t \in Tasks, Task(t) PROVE store'.val = Cardinality(won')
  <2>1. main = "safe" /\ InSafePhase /\ pc[t] # "done"
    BY <1>4, TaskEffect DEF InSafePhase
  <2>2. CASE Write(t)
    <3>1. pc[t] = "replace"
      BY <1>4, <2>2, CurrentIsNew, <2>1 DEF Task, Get, GetFails, Replace, Mismatch, Exhaust, ReplaceFails, At, Write
    <3>2. read[t].number = store.val
      BY <2>1, <2>2, <3>1 DEF Write, ReplaceSucceeds, CasAccepts, CasOf, ReadIsPast, CasIdentifiesNumber
    <3>3. store'.val = store.val + 1
      BY <2>2, <3>2 DEF Write, Mutate
    <3>4. QED
      BY <2>1, <2>2, <3>3, WriteCounts DEF NumberCountsWins
  <2>3. CASE store' = store /\ won' = won
    BY <2>1, <2>3, <1>2
  <2>4. QED
    BY <1>4, <2>2, <2>3, TaskEffect DEF Stays, Leaves
<1>5. CASE UNCHANGED vars
  BY <1>2, <1>5 DEF vars, tvars, InSafePhase
<1>6. QED
  BY <1>3, <1>4, <1>5 DEF Next, Stopped
-----------------------------------------------------------------------------
\* The other tasks win Count increments each at most.
LEMMA OthersFinite ==
  ASSUME TypeOK, NEW t \in Tasks
  PROVE  /\ IsFiniteSet(WonByOthers(t)) /\ Cardinality(WonByOthers(t)) \in Nat
         /\ Cardinality(WonByOthers(t)) <= (Cardinality(Tasks) - 1) * Count
<1>1. IsFiniteSet(1 .. Count) /\ Cardinality(1 .. Count) = Count
  BY CountAssumption, FS_Interval
<1>2. IsFiniteSet(Tasks \ {t}) /\ Cardinality(Tasks \ {t}) = Cardinality(Tasks) - 1
  BY TasksAssumption, FS_RemoveElement
<1>3. /\ IsFiniteSet((Tasks \ {t}) \X (1 .. Count))
      /\ Cardinality((Tasks \ {t}) \X (1 .. Count)) = (Cardinality(Tasks) - 1) * Count
  BY <1>1, <1>2, FS_Product
<1>4. WonByOthers(t) \in SUBSET ((Tasks \ {t}) \X (1 .. Count))
  BY DEF WonByOthers, TypeOK, Increments
<1>5. QED
  BY <1>3, <1>4, FS_Subset, FS_CardinalityType

\* A write of one task is a win of another for every other task.
LEMMA OthersStep ==
  ASSUME TypeOK, Accounted, NEW u \in Tasks, NEW t \in Tasks, Task(t)
  PROVE  \/ store' = store /\ Cardinality(WonByOthers(u))' = Cardinality(WonByOthers(u))
         \/ t = u /\ pc'[u] # "replace" /\ Cardinality(WonByOthers(u))' = Cardinality(WonByOthers(u))
         \/ /\ t # u /\ store'.clock = store.clock + 1
            /\ Cardinality(WonByOthers(u))' = Cardinality(WonByOthers(u)) + 1
<1>1. CASE store' = store /\ won' = won
  BY <1>1 DEF WonByOthers
<1>2. CASE Leaves(t) /\ Write(t) /\ t = u
  <2>1. WonByOthers(u)' = WonByOthers(u)
    BY <1>2 DEF WonByOthers, Write
  <2>2. QED
    BY <1>2, <2>1 DEF Leaves, NextIncrement, TypeOK
<1>3. CASE Leaves(t) /\ Write(t) /\ t # u
  <2>1. <<t, iter[t]>> \notin won
    BY <1>3, TaskEffect, CurrentIsNew
  <2>2. WonByOthers(u)' = WonByOthers(u) \cup {<<t, iter[t]>>}
    BY <1>3 DEF WonByOthers, Write
  <2>3. <<t, iter[t]>> \notin WonByOthers(u)
    BY <2>1 DEF WonByOthers
  <2>4. IsFiniteSet(WonByOthers(u))
    BY OthersFinite
  <2>5. Cardinality(WonByOthers(u))' = Cardinality(WonByOthers(u)) + 1
    BY <2>2, <2>3, <2>4, FS_AddElement
  <2>6. QED
    BY <1>3, <2>5 DEF Write, Mutate
<1>4. QED
  BY <1>1, <1>2, <1>3, TaskEffect DEF Stays, Leaves

\* Every retry that is spent is paid for by an increment of another task.
LEMMA RetriesStep ==
  TypeOK /\ CasIsLatest /\ ReadIsPast /\ Accounted /\ RetriesPaid /\ [Next]_vars => RetriesPaid'
<1> SUFFICES ASSUME TypeOK, CasIsLatest, ReadIsPast, Accounted, RetriesPaid, [Next]_vars,
                    main' = "safe", NEW u \in Tasks
             PROVE  /\ pc'[u] = "get" => budget' - retries'[u] <= Cardinality(WonByOthers(u))'
                    /\ pc'[u] = "replace" => budget' - retries'[u] + (store'.clock - read'[u].cas)
                                               <= Cardinality(WonByOthers(u))'
  BY DEF RetriesPaid
<1> DEFINE W == Cardinality(WonByOthers(u))
           Good == /\ pc'[u] = "get" => budget' - retries'[u] <= W'
                   /\ pc'[u] = "replace" => budget' - retries'[u] + (store'.clock - read'[u].cas) <= W'
<1>1. /\ TypeOK' /\ budget \in Nat /\ retries[u] \in Nat /\ retries'[u] \in Nat
      /\ store.clock \in Nat /\ store'.clock \in Nat /\ store.cas \in Nat
      /\ read[u].cas \in Nat /\ read'[u].cas \in Nat /\ W \in Nat /\ W' \in Nat
  <2>1. TypeOK'
    BY TypeStep
  <2>2. WonByOthers(u) \in SUBSET Increments /\ WonByOthers(u)' \in SUBSET Increments
    BY <2>1 DEF TypeOK, WonByOthers
  <2>3. W \in Nat /\ W' \in Nat
    BY <2>2, IncrementsFinite
  <2>4. QED
    BY <2>1, <2>3, BudgetsAssumption DEF TypeOK, Stores
<1>2. main = "safe" => /\ pc[u] = "get" => budget - retries[u] <= W
                       /\ pc[u] = "replace" => budget - retries[u] + (store.clock - read[u].cas) <= W
  BY DEF RetriesPaid
<1>3. ASSUME NEW t \in Tasks, t # u, Task(t) PROVE Good
  <2>1. /\ main = "safe" /\ budget' = budget /\ pc'[u] = pc[u]
        /\ read'[u] = read[u] /\ retries'[u] = retries[u]
    BY <1>3, TaskEffect
  <2>2. \/ store' = store /\ W' = W
        \/ store'.clock = store.clock + 1 /\ W' = W + 1
    BY <1>3, OthersStep
  <2>3. QED
    BY <1>1, <1>2, <2>1, <2>2
<1>4. CASE Task(u)
  <2>1. main = "safe" /\ budget' = budget
    BY <1>4, TaskEffect
  <2>2. \/ store' = store /\ W' = W
        \/ pc'[u] # "replace" /\ W' = W
    BY <1>4, OthersStep
  <2>3. CASE Get(u)
    BY <1>1, <1>2, <2>1, <2>2, <2>3 DEF Get, At, TypeOK, CasIsLatest
  <2>4. CASE GetFails(u)
    BY <2>4 DEF GetFails, TypeOK
  <2>5. CASE Leaves(u)
    BY <1>1, <2>1, <2>2, <2>5 DEF Leaves, NextIncrement, TypeOK
  <2>6. CASE Mismatch(u)
    <3>1. /\ pc[u] = "replace" /\ pc'[u] = "get" /\ retries'[u] = retries[u] - 1 /\ store' = store
      BY <2>6 DEF Mismatch, At, TypeOK
    <3>2. read[u].cas # store.cas
      BY <2>1, <2>6 DEF Mismatch, ReplaceMismatches, CasAccepts, CasOf
    <3>3. read[u].cas + 1 <= store.clock
      BY <1>1, <3>1, <3>2 DEF ReadIsPast, CasIsLatest
    <3>4. W' = W
      BY <2>2, <3>1
    <3>5. QED
      BY <1>1, <1>2, <2>1, <3>1, <3>3, <3>4
  <2>7. QED
    <3>1. Replace(u) \/ Exhaust(u) \/ ReplaceFails(u) => Leaves(u)
      BY DEF Replace, Exhaust, ReplaceFails, Leaves, At, Write
    <3>2. QED
      BY <1>4, <2>3, <2>4, <2>5, <2>6, <3>1 DEF Task
<1>5. CASE Main
  <2>1. FreshTasks /\ budget' = budget
    BY <1>5, MainEffect
  <2>2. pc'[u] = "get" /\ retries'[u] = budget
    BY <2>1 DEF FreshTasks
  <2>3. QED
    BY <1>1, <2>1, <2>2
<1>6. CASE UNCHANGED vars
  BY <1>2, <1>6 DEF vars, tvars, WonByOthers
<1>7. QED
  BY <1>3, <1>4, <1>5, <1>6 DEF Next, Stopped

\* With a retry for every increment of the others, the last one is not refused.
LEMMA EnoughStep ==
  TypeOK /\ CasIsLatest /\ ReadIsPast /\ RetriesPaid /\ EnoughRetriesDropNothing /\ [Next]_vars
    => EnoughRetriesDropNothing'
<1> SUFFICES ASSUME TypeOK, CasIsLatest, ReadIsPast, RetriesPaid, EnoughRetriesDropNothing, [Next]_vars,
                    InSafePhase', budget' >= (Cardinality(Tasks) - 1) * Count
             PROVE  exhausted' = {}
  BY DEF EnoughRetriesDropNothing
<1>1. ASSUME NEW t \in Tasks, Task(t) PROVE exhausted' = {}
  <2>1. InSafePhase /\ main = "safe" /\ budget' = budget
    BY <1>1, TaskEffect DEF InSafePhase
  <2>2. exhausted = {}
    BY <2>1 DEF EnoughRetriesDropNothing
  <2>3. ~ Exhaust(t)
    <3> SUFFICES ASSUME Exhaust(t) PROVE FALSE
      OBVIOUS
    <3>1. pc[t] = "replace" /\ retries[t] = 0 /\ read[t].cas # store.cas
      BY <2>1 DEF Exhaust, At, ReplaceMismatches, CasAccepts, CasOf
    <3>2. /\ store.clock \in Nat /\ store.cas \in Nat /\ read[t].cas \in Nat /\ budget \in Nat
          /\ Cardinality(Tasks) \in Nat
      BY BudgetsAssumption, TasksAssumption, FS_CardinalityType DEF TypeOK, Stores
    <3>3. read[t].cas + 1 <= store.clock
      BY <3>1, <3>2 DEF ReadIsPast, CasIsLatest
    <3>4. budget + (store.clock - read[t].cas) <= Cardinality(WonByOthers(t))
      BY <2>1, <3>1, <3>2 DEF RetriesPaid
    <3>5. /\ Cardinality(WonByOthers(t)) \in Nat
          /\ Cardinality(WonByOthers(t)) <= (Cardinality(Tasks) - 1) * Count
      BY OthersFinite
    <3>6. (Cardinality(Tasks) - 1) * Count \in Int
      BY <3>2, CountAssumption
    <3>7. QED
      BY <2>1, <3>2, <3>3, <3>4, <3>5, <3>6
  <2>4. QED
    BY <1>1, <2>2, <2>3 DEF Task, Get, GetFails, Replace, Mismatch, ReplaceFails
<1>2. CASE Main
  BY <1>2, MainEffect DEF FreshTasks, tvars, InSafePhase, EnoughRetriesDropNothing
<1>3. CASE UNCHANGED vars
  BY <1>3 DEF vars, tvars, InSafePhase, EnoughRetriesDropNothing
<1>4. QED
  BY <1>1, <1>2, <1>3 DEF Next, Stopped
-----------------------------------------------------------------------------
\* Without failures the number of the unsafe phase does not exceed the increments made.
LEMMA FollowsStep ==
  TypeOK /\ Accounted /\ NumberFollowsWins /\ [Next]_vars => NumberFollowsWins'
<1> SUFFICES ASSUME TypeOK, Accounted, NumberFollowsWins, [Next]_vars,
                    main' \in {"unsafe", "print1"}, faults' = {}
             PROVE  /\ Exists(store)' /\ store'.val <= Cardinality(won')
                    /\ won' # {} => store'.val >= 1
                    /\ exhausted' = {} /\ failed' = {}
                    /\ \A t \in Tasks : pc'[t] = "replace" =>
                         read'[t].number <= Cardinality(won') /\ (iter'[t] > 1 => read'[t].number >= 1)
  BY DEF NumberFollowsWins
<1> DEFINE Good == /\ Exists(store)' /\ store'.val <= Cardinality(won')
                   /\ won' # {} => store'.val >= 1
                   /\ exhausted' = {} /\ failed' = {}
                   /\ \A t \in Tasks : pc'[t] = "replace" =>
                        read'[t].number <= Cardinality(won') /\ (iter'[t] > 1 => read'[t].number >= 1)
<1>a. /\ store.val \in Nat /\ store.clock \in Nat /\ Cardinality(won) \in Nat
      /\ \A t \in Tasks : read[t].number \in Nat /\ iter[t] \in 1 .. Count
  BY IncrementsFinite DEF TypeOK, Stores
<1>1. ASSUME NEW t \in Tasks, Task(t) PROVE Good
  <2>1. main = "unsafe" /\ faults = {} /\ pc[t] # "done"
    BY <1>1, TaskEffect
  <2>2. /\ Exists(store) /\ store.val <= Cardinality(won)
        /\ won # {} => store.val >= 1
        /\ exhausted = {} /\ failed = {}
        /\ \A u \in Tasks : pc[u] = "replace" =>
             read[u].number <= Cardinality(won) /\ (iter[u] > 1 => read[u].number >= 1)
    BY <2>1 DEF NumberFollowsWins
  <2>3. CASE Get(t)
    <3>1. iter[t] > 1 => <<t, 1>> \in won
      BY <1>a, <2>1, <2>2, CountAssumption DEF Accounted, Passed
    <3>2. QED
      BY <1>a, <2>2, <2>3, <3>1 DEF Get, TypeOK
  <2>4. CASE Replace(t)
    <3>1. Cardinality(won') = Cardinality(won) + 1
      BY <2>1, <2>4, WriteCounts DEF Replace
    <3>2. store'.val = read[t].number + 1 /\ Exists(store)'
      BY <1>a, <2>4 DEF Replace, Write, Mutate, Exists, NoCas
    <3>3. read[t].number <= Cardinality(won)
      BY <2>2, <2>4 DEF Replace, At
    <3>4. \A u \in Tasks : pc'[u] = "replace" => pc[u] = "replace" /\ iter'[u] = iter[u] /\ read'[u] = read[u]
      BY <2>4 DEF Replace, NextIncrement, TypeOK
    <3>5. exhausted' = {} /\ failed' = {}
      BY <2>2, <2>4 DEF Replace
    <3>6. QED
      BY <1>a, <2>2, <3>1, <3>2, <3>3, <3>4, <3>5
  <2>5. ~ GetFails(t) /\ ~ Mismatch(t) /\ ~ Exhaust(t) /\ ~ ReplaceFails(t)
    BY <2>1, <2>2 DEF GetFails, Mismatch, Exhaust, ReplaceFails, ReplaceMismatches, CasAccepts, CasOf, Fault
  <2>6. QED
    BY <1>1, <2>3, <2>4, <2>5 DEF Task
<1>2. CASE Main
  <2>1. CASE main' = "unsafe"
    <3>1. FreshTasks /\ store' = Mutate(store, 0)
      BY <1>2, <2>1, MainEffect
    <3>2. QED
      BY <1>a, <3>1, FS_EmptySet DEF FreshTasks, Mutate, Exists, NoCas
  <2>2. CASE main' = "print1"
    BY <1>2, <2>2, MainEffect DEF NumberFollowsWins, tvars
  <2>3. QED
    BY <2>1, <2>2
<1>3. CASE UNCHANGED vars
  BY <1>3 DEF vars, tvars, NumberFollowsWins
<1>4. QED
  BY <1>1, <1>2, <1>3 DEF Next, Stopped

\* The last replace of all is of a task that had replaced before.
LEMMA LastStep ==
  TypeOK /\ NumberFollowsWins /\ LastSeesFirst /\ [Next]_vars => LastSeesFirst'
<1> SUFFICES ASSUME TypeOK, NumberFollowsWins, LastSeesFirst, [Next]_vars,
                    main' \in {"unsafe", "print1"}, faults' = {}, Count > 1, Tasks # {},
                    \A t \in Tasks : pc'[t] = "done"
             PROVE  store'.val >= 2
  BY DEF LastSeesFirst
<1>1. ASSUME NEW t \in Tasks, Task(t) PROVE store'.val >= 2
  <2>1. main = "unsafe" /\ faults = {} /\ Leaves(t)
    BY <1>1, TaskEffect DEF Stays
  <2>2. pc[t] = "replace" /\ iter[t] = Count
    <3>1. pc'[t] = "done"
      OBVIOUS
    <3>2. pc'[t] = IF iter[t] < Count THEN "get" ELSE "done"
      BY <2>1 DEF Leaves, NextIncrement, TypeOK
    <3>3. iter[t] \in 1 .. Count
      BY DEF TypeOK
    <3>4. QED
      BY <2>1, <3>1, <3>2, <3>3, CountAssumption DEF Leaves
  <2>3. read[t].number >= 1 /\ read[t].number \in Nat
    BY <2>1, <2>2 DEF NumberFollowsWins, TypeOK
  <2>4. Replace(t)
    BY <1>1, <2>1, <2>2 DEF Task, Get, GetFails, Mismatch, Exhaust, ReplaceFails, At, Fault, TypeOK,
       ReplaceMismatches, CasAccepts, CasOf
  <2>5. QED
    BY <2>3, <2>4 DEF Replace, Write, Mutate
<1>2. CASE Main
  BY <1>2, MainEffect DEF LastSeesFirst, FreshTasks, tvars
<1>3. CASE UNCHANGED vars
  BY <1>3 DEF vars, tvars, LastSeesFirst
<1>4. QED
  BY <1>1, <1>2, <1>3 DEF Next, Stopped
-----------------------------------------------------------------------------
\* Every variable keeps its type (Cas.cs:35-115).
THEOREM TypeCorrect == Spec => []TypeOK
<1>1. Init => TypeOK
  BY InitIInv DEF IInv
<1>2. QED
  BY <1>1, TypeStep, PTL DEF Spec

\* No step breaks the invariant.
LEMMA Inductive == IInv /\ [Next]_vars => IInv'
<1> SUFFICES ASSUME IInv, [Next]_vars PROVE IInv'
  OBVIOUS
<1>1. TypeOK' /\ CasIsLatest' /\ ReadIsPast' /\ CasIdentifiesNumber'
  BY TypeStep, CasStep, ReadStep, IdentifiesStep DEF IInv
<1>2. Accounted' /\ WonOrExhausted' /\ AllDone' /\ NumberCountsWins'
  BY AccountedStep, WonOrExhaustedStep, AllDoneStep, CountsStep DEF IInv
<1>3. RetriesPaid' /\ EnoughRetriesDropNothing' /\ NumberFollowsWins' /\ LastSeesFirst'
  BY RetriesStep, EnoughStep, FollowsStep, LastStep DEF IInv
<1>4. QED
  BY <1>1, <1>2, <1>3 DEF IInv

\* The strengthening of the properties below holds whatever the tasks and the failures do
\* (Cas.cs:35-115).
THEOREM Invariant == Spec => []IInv
  BY InitIInv, Inductive, PTL DEF Spec

\* With the CAS the number is the number of increments that took effect,
\* whatever failed on the way (Cas.cs:62-106).
THEOREM NumberIsCount == Spec => []NumberCountsWins
<1>1. IInv => NumberCountsWins
  BY DEF IInv
<1>2. QED
  BY <1>1, Invariant, PTL

\* A retry limit of one per increment of the other tasks loses no increment
\* (Cas.cs:68-93).
THEOREM EnoughRetries == Spec => []EnoughRetriesDropNothing
<1>1. IInv => EnoughRetriesDropNothing
  BY DEF IInv
<1>2. QED
  BY <1>1, Invariant, PTL

\* The printed number is short by what was given up, and by at most one for
\* each replace that failed otherwise (Cas.cs:62-106).
THEOREM Shortfall == Spec => []ShortfallIsAccountedFor
<1>1. ASSUME IInv PROVE ShortfallIsAccountedFor
  <2> SUFFICES ASSUME InSafePhase, main = "done"
               PROVE  store.val \in (Total - Cardinality(exhausted \cup failed))
                                      .. (Total - Cardinality(exhausted))
    BY DEF ShortfallIsAccountedFor
  <2>1. store.val = Cardinality(won)
    BY <1>1 DEF IInv, NumberCountsWins
  <2>2. won \cup exhausted \cup failed = Increments
    <3>1. \A t \in Tasks : pc[t] = "done"
      BY <1>1 DEF IInv, AllDone
    <3>2. \A t \in Tasks : \A i \in 1 .. Count : <<t, i>> \in won \cup exhausted \cup failed
      BY <1>1, <3>1 DEF IInv, Accounted, Passed
    <3>3. won \cup exhausted \cup failed \subseteq Increments
      BY <1>1 DEF IInv, TypeOK
    <3>4. QED
      BY <3>2, <3>3 DEF Increments
  <2>3. /\ won \in SUBSET Increments /\ exhausted \in SUBSET Increments
        /\ (exhausted \cup failed) \in SUBSET Increments /\ (won \cup exhausted) \in SUBSET Increments
    BY <1>1 DEF IInv, TypeOK
  <2>4. /\ IsFiniteSet(won) /\ IsFiniteSet(exhausted) /\ IsFiniteSet(exhausted \cup failed)
        /\ Cardinality(won) \in Nat /\ Cardinality(exhausted) \in Nat
        /\ Cardinality(exhausted \cup failed) \in Nat
        /\ Cardinality(won \cup exhausted) <= Total /\ Cardinality(Increments) = Total /\ Total \in Nat
    BY <2>3, IncrementsFinite
  <2>5. Cardinality(won \cup exhausted) = Cardinality(won) + Cardinality(exhausted)
    <3>1. won \cap exhausted = {}
      BY <1>1 DEF IInv, WonOrExhausted
    <3>2. Cardinality(won \cap exhausted) = 0
      BY <3>1, FS_EmptySet
    <3>3. Cardinality(won \cup exhausted)
            = Cardinality(won) + Cardinality(exhausted) - Cardinality(won \cap exhausted)
      BY <2>4, FS_Union
    <3>4. QED
      BY <2>4, <3>2, <3>3
  <2>6. Total <= Cardinality(won) + Cardinality(exhausted \cup failed)
    <3>1. Cardinality(won \cup (exhausted \cup failed)) = Total
      <4>1. won \cup (exhausted \cup failed) = Increments
        BY <2>2
      <4>2. QED
        BY <2>4, <4>1
    <3>2. IsFiniteSet(won \cap (exhausted \cup failed)) /\ Cardinality(won \cap (exhausted \cup failed)) \in Nat
      BY <2>4, FS_Intersection, FS_CardinalityType
    <3>3. Cardinality(won \cup (exhausted \cup failed))
            = Cardinality(won) + Cardinality(exhausted \cup failed)
              - Cardinality(won \cap (exhausted \cup failed))
      BY <2>4, FS_Union
    <3>4. QED
      BY <2>4, <3>1, <3>2, <3>3
  <2>7. QED
    BY <2>1, <2>4, <2>5, <2>6
<1>2. QED
  BY <1>1, Invariant, PTL

\* Without the CAS the number printed is at least 2 and at most the number of
\* increments, whatever the interleaving (Cas.cs:45-59).
THEOREM UnsafeRange == Spec => []UnsafeNumberInRange
<1>1. ASSUME IInv PROVE UnsafeNumberInRange
  <2> SUFFICES ASSUME main = "print1", faults = {}, Cardinality(Tasks) > 1, Count > 1
               PROVE  store.val \in 2 .. Total
    BY DEF UnsafeNumberInRange
  <2>1. store.val \in Nat /\ won \in SUBSET Increments
    BY <1>1 DEF IInv, TypeOK, Stores
  <2>2. Cardinality(won) \in Nat /\ Cardinality(won) <= Total /\ Total \in Nat
    BY <2>1, IncrementsFinite
  <2>3. store.val <= Cardinality(won)
    BY <1>1 DEF IInv, NumberFollowsWins
  <2>4. Tasks # {}
    BY FS_EmptySet
  <2>5. store.val >= 2
    BY <1>1, <2>4 DEF IInv, AllDone, LastSeesFirst
  <2>6. QED
    BY <2>1, <2>2, <2>3, <2>5
<1>2. QED
  BY <1>1, Invariant, PTL
=============================================================================
