-------------------------- MODULE CasThreadsProofs --------------------------
(***************************************************************************)
(* Proofs about CasThreads for any finite, non-empty set of threads, in    *)
(* both languages.                                                         *)
(***************************************************************************)
EXTENDS CasThreads, FiniteSetTheorems, TLAPS

\* The threads Java's latch still counts, and the items of a list.
Pending  == {w \in Workers : pc[w] # "done"}
Items(s) == {s[i] : i \in DOMAIN s}
NoTwice(s) == \A i, j \in DOMAIN s : s[i] = s[j] => i = j

\* The threads that sent their append, whether or not it took effect.
Over == {w \in Workers : pc[w] \in {"countDown", "done", "died"}}

\* The latch counts the threads that have not counted it down, which only
\* Java's threads do.
LatchCounts == /\ lang = "java" /\ main \in Phases => latch = Cardinality(Pending)
               /\ \A w \in Workers : pc[w] = "countDown" => lang = "java"

\* After a phase no thread is at work.
PhaseOver ==
  main \notin {"reset1", "threw"} \cup Phases =>
    /\ \A w \in Workers : pc[w] \in {"done", "died"}
    /\ lang = "java" => \A w \in Workers : pc[w] = "done"

\* Nothing removes the document, so it carries the last CAS handed out.
CasIsLatest == store.cas = store.clock

\* A thread about to replace holds a CAS the server did hand out.
ReadIsPast ==
  \A w \in Workers : pc[w] = "replace" => read[w].cas # NoCas /\ read[w].cas <= store.clock

\* An equal CAS means an equal list, in the phase that compares it.
CasIdentifiesValue ==
  \A w \in Workers :
    main = "safe" /\ pc[w] = "replace" /\ read[w].cas = store.cas => read[w].value = store.val

\* Only threads that sent their append are in the document, or in what a
\* thread at work has read of it, and no thread is in either twice.
OnlyOver == /\ Items(store.val) \subseteq Over /\ NoTwice(store.val)
            /\ \A w \in Workers :
                 pc[w] = "replace" => Items(read[w].value) \subseteq Over /\ NoTwice(read[w].value)

\* In the phase with CAS whoever was told that its item is stored has it there.
StoredStays ==
  InSafePhase => \A w \in Workers : pc[w] \in {"countDown", "done"} => w \in Items(store.val)

AssertSawLoss == main = "assertFailed" => lang = "python" /\ ~ Complete

IInv == /\ TypeOK
        /\ LatchCounts
        /\ PhaseOver
        /\ CasIsLatest
        /\ ReadIsPast
        /\ CasIdentifiesValue
        /\ OnlyOver
        /\ StoredStays
        /\ AssertSawLoss
-----------------------------------------------------------------------------
\* The invariant holds at the start.
LEMMA InitIInv == Init => IInv
<1> SUFFICES ASSUME Init PROVE IInv
  OBVIOUS
<1> USE DEF Init, EmptyStore, NoCas
<1>1. TypeOK
  <2>1. <<>> \in Seq(Workers) /\ 0 \in 0 .. Cardinality(Workers)
    BY WorkersAssumption, FS_CardinalityType
  <2>2. QED
    BY <2>1 DEF TypeOK, Stores
<1>2. LatchCounts /\ PhaseOver /\ CasIsLatest /\ ReadIsPast /\ CasIdentifiesValue
  BY DEF LatchCounts, Phases, PhaseOver, CasIsLatest, ReadIsPast, CasIdentifiesValue
<1>3. OnlyOver /\ StoredStays /\ AssertSawLoss
  BY DEF OnlyOver, Items, NoTwice, StoredStays, InSafePhase, AssertSawLoss
<1>4. QED
  BY <1>1, <1>2, <1>3 DEF IInv

\* What a step of a thread does: only its own part of the state changes, and
\* the document only by its own replace.
LEMMA WorkerEffect ==
  ASSUME TypeOK, NEW w \in Workers, Worker(w)
  PROVE  /\ main \in Phases /\ UNCHANGED <<main, lang>>
         /\ \A v \in Workers : v # w => pc'[v] = pc[v] /\ read'[v] = read[v]
         /\ \/ /\ pc[w] = "get" /\ pc'[w] = "replace" /\ UNCHANGED <<store, latch>> /\ Exists(store)
               /\ read'[w] = [value |-> store.val, cas |-> store.cas]
            \/ /\ pc[w] = "replace" /\ pc'[w] = "get" /\ UNCHANGED <<store, latch, read>>
            \/ /\ pc[w] = "replace" /\ pc'[w] \in {Stored, "died"} /\ Write(w) /\ UNCHANGED <<latch, read>>
            \/ /\ pc[w] \in {"get", "replace"} /\ pc'[w] = "died" /\ UNCHANGED <<store, latch, read>>
            \/ /\ pc[w] = "countDown" /\ pc'[w] = "done" /\ UNCHANGED <<store, read>>
               /\ latch' = latch - 1
         /\ pc' \in [Workers -> {"idle", "get", "replace", "countDown", "done", "died"}]
<1> USE DEF TypeOK, WGoto, Stored
<1>1. CASE Get(w)
  BY <1>1 DEF Get
<1>2. CASE Replace(w)
  BY <1>2 DEF Replace
<1>3. CASE Mismatch(w)
  BY <1>3 DEF Mismatch
<1>4. CASE CountDown(w)
  BY <1>4 DEF CountDown
<1>5. CASE Dies(w)
  BY <1>5 DEF Dies
<1>6. QED
  BY <1>1, <1>2, <1>3, <1>4, <1>5, Worker(w) DEF Worker, Goes

\* What a step of main does: a phase starts, or nothing but main changes.
LEMMA MainEffect ==
  ASSUME MainStep
  PROVE  /\ lang' = lang /\ UNCHANGED read
         /\ \/ /\ \/ main = "reset1" /\ main' = "unsafe"
                  \/ main = "reset2" /\ main' = "safe"
               /\ store' = Mutate(store, <<>>) /\ pc' = [w \in Workers |-> "get"]
               /\ latch' = Cardinality(Workers)
            \/ /\ UNCHANGED <<store, pc, latch>> /\ main' \notin Phases
               /\ main' # "reset1"
               /\ \/ main \in {"reset1", "look1", "reset2"} /\ main' = "threw"
                  \/ /\ main \in Phases
                     /\ main' = IF main = "unsafe" THEN "look1" ELSE "look2"
                     /\ \/ lang = "java" /\ latch = 0
                        \/ lang = "python" /\ \A w \in Workers : pc[w] \in {"done", "died"}
                  \/ main = "look1" /\ main' = "reset2"
                  \/ /\ main = "look2" /\ main' \in {"done", "assertFailed", "threwAtEnd"}
                     /\ main' = "assertFailed" => lang = "python" /\ ~ Complete
<1> USE DEF Main, Phases
<1>1. CASE ResetAndStart("reset1", "unsafe") \/ ResetAndStart("reset2", "safe")
  BY <1>1 DEF ResetAndStart
<1>2. CASE AwaitLatch("unsafe", "look1") \/ AwaitLatch("safe", "look2")
  BY <1>2 DEF AwaitLatch
<1>3. CASE JoinThreads("unsafe", "look1") \/ JoinThreads("safe", "look2")
  BY <1>3 DEF JoinThreads
<1>4. CASE LookUnsafe \/ LookSafe
  BY <1>4 DEF LookUnsafe, LookSafe
<1>5. CASE MainThrows
  BY <1>5 DEF MainThrows
<1>6. QED
  BY <1>1, <1>2, <1>3, <1>4, <1>5, MainStep DEF MainStep

\* The threads that have not finished can be counted; there is none when all are done.
LEMMA PendingFinite ==
  /\ IsFiniteSet(Pending) /\ Cardinality(Pending) \in Nat
  /\ Cardinality(Pending) <= Cardinality(Workers) /\ Cardinality(Workers) \in Nat
  /\ Cardinality(Pending) = 0 => \A w \in Workers : pc[w] = "done"
<1>1. IsFiniteSet(Pending) /\ Cardinality(Pending) <= Cardinality(Workers)
  BY WorkersAssumption, FS_Subset DEF Pending
<1>2. Cardinality(Pending) = 0 => Pending = {}
  BY <1>1, FS_EmptySet
<1>3. QED
  BY <1>1, <1>2, WorkersAssumption, FS_CardinalityType DEF Pending

\* The latch goes down once per thread, so never below zero.
LEMMA LatchStep ==
  TypeOK /\ LatchCounts /\ [Next]_vars => LatchCounts' /\ latch' \in 0 .. Cardinality(Workers)
<1> SUFFICES ASSUME TypeOK, LatchCounts, [Next]_vars
             PROVE  LatchCounts' /\ latch' \in 0 .. Cardinality(Workers)
  OBVIOUS
<1> DEFINE Good == LatchCounts' /\ latch' \in 0 .. Cardinality(Workers)
<1>t. latch \in 0 .. Cardinality(Workers) /\ Cardinality(Workers) \in Nat
  BY PendingFinite DEF TypeOK
<1>1. ASSUME NEW w \in Workers, Worker(w) PROVE Good
  <2>1. CASE pc[w] = "countDown" /\ pc'[w] = "done" /\ latch' = latch - 1
    <3>1. lang = "java" /\ lang' = lang /\ main \in Phases /\ main' = main /\ latch = Cardinality(Pending)
      BY <1>1, <2>1, WorkerEffect DEF LatchCounts
    <3>2. Pending' = Pending \ {w} /\ w \in Pending
      BY <1>1, <2>1, WorkerEffect DEF Pending
    <3>3. Cardinality(Pending') = Cardinality(Pending) - 1
      BY <3>2, PendingFinite, FS_RemoveElement
    <3>4. Cardinality(Pending) # 0
      BY <3>2, PendingFinite, FS_EmptySet
    <3>5. latch' = Cardinality(Pending') /\ latch' \in 0 .. Cardinality(Workers)
      BY <1>t, <2>1, <3>1, <3>3, <3>4
    <3>6. QED
      BY <3>1, <3>5 DEF LatchCounts
  <2>2. CASE latch' = latch /\ pc[w] \in {"get", "replace"}
    <3>1. pc'[w] \in {"get", "replace", "died", Stored}
      BY <1>1, <2>2, WorkerEffect
    <3>2. lang = "java" => pc'[w] # "done"
      BY <3>1 DEF Stored
    <3>3. lang = "java" => Pending' = Pending
      BY <1>1, <2>2, <3>2, WorkerEffect DEF Pending
    <3>4. \A v \in Workers : pc'[v] = "countDown" => lang = "java"
      BY <1>1, <3>1, WorkerEffect DEF LatchCounts, Stored
    <3>5. QED
      BY <1>t, <1>1, <2>2, <3>3, <3>4, WorkerEffect DEF LatchCounts
  <2>3. QED
    BY <1>1, <2>1, <2>2, WorkerEffect
<1>2. CASE MainStep
  <2>1. CASE pc' = [w \in Workers |-> "get"] /\ latch' = Cardinality(Workers)
    <3>1. Pending' = Workers
      BY <2>1 DEF Pending
    <3>2. QED
      BY <1>t, <2>1, <3>1 DEF LatchCounts
  <2>2. CASE UNCHANGED <<pc, latch>> /\ main' \notin Phases
    BY <1>t, <1>2, <2>2, MainEffect DEF LatchCounts
  <2>3. QED
    BY <1>2, <2>1, <2>2, MainEffect
<1>3. CASE UNCHANGED vars
  BY <1>t, <1>3 DEF vars, LatchCounts, Pending
<1>4. QED
  BY <1>1, <1>2, <1>3 DEF Next, Stopped

\* Every step keeps the types.
LEMMA TypeStep == TypeOK /\ LatchCounts /\ [Next]_vars => TypeOK'
<1> SUFFICES ASSUME TypeOK, LatchCounts, [Next]_vars PROVE TypeOK'
  OBVIOUS
<1>a. \A l \in Seq(Workers) : Mutate(store, l) \in Stores(Seq(Workers))
  BY DEF TypeOK, Mutate, Stores
<1>b. latch' \in 0 .. Cardinality(Workers)
  BY LatchStep
<1>c. <<>> \in Seq(Workers)
  OBVIOUS
<1>1. ASSUME NEW w \in Workers, Worker(w) PROVE TypeOK'
  <2>1. Append(read[w].value, w) \in Seq(Workers)
    BY DEF TypeOK
  <2>2. store' \in Stores(Seq(Workers))
    BY <1>1, <1>a, <2>1, WorkerEffect DEF Write, TypeOK
  <2>3. read' \in [Workers -> [value : Seq(Workers), cas : Nat]]
    BY <1>1 DEF Worker, Goes, Get, Replace, Mismatch, CountDown, Dies, TypeOK, Stores
  <2>4. QED
    BY <1>1, <1>b, <2>2, <2>3, WorkerEffect DEF TypeOK
<1>2. CASE MainStep
  BY <1>2, <1>a, <1>b, <1>c, MainEffect DEF TypeOK, Phases, Ended
<1>3. CASE UNCHANGED vars
  BY <1>3 DEF vars, TypeOK
<1>4. QED
  BY <1>1, <1>2, <1>3 DEF Next, Stopped

\* Main goes on when its threads are over.
LEMMA OverStep == TypeOK /\ LatchCounts /\ PhaseOver /\ [Next]_vars => PhaseOver'
<1> SUFFICES ASSUME TypeOK, LatchCounts, PhaseOver, [Next]_vars PROVE PhaseOver'
  OBVIOUS
<1>1. ASSUME NEW w \in Workers, Worker(w) PROVE PhaseOver'
  BY <1>1, WorkerEffect DEF PhaseOver
<1>2. CASE MainStep
  <2>1. CASE main' \in Phases \cup {"threw"}
    BY <2>1 DEF PhaseOver
  <2>2. CASE main \in Phases /\ lang = "java" /\ latch = 0 /\ UNCHANGED <<pc, lang>>
    <3>1. \A w \in Workers : pc[w] = "done"
      BY <2>2, PendingFinite DEF LatchCounts
    <3>2. QED
      BY <2>2, <3>1 DEF PhaseOver
  <2>3. CASE lang = "python" /\ (\A w \in Workers : pc[w] \in {"done", "died"}) /\ UNCHANGED <<pc, lang>>
    BY <2>3 DEF PhaseOver
  <2>4. CASE main \in {"look1", "look2"} /\ UNCHANGED <<pc, lang>>
    BY <2>4 DEF PhaseOver, Phases
  <2>5. QED
    BY <1>2, <2>1, <2>2, <2>3, <2>4, MainEffect DEF Phases
<1>3. CASE UNCHANGED vars
  BY <1>3 DEF vars, PhaseOver
<1>4. QED
  BY <1>1, <1>2, <1>3 DEF Next, Stopped

\* Only a mutation changes the CAS, and it takes the next one.
LEMMA CasStep == TypeOK /\ CasIsLatest /\ [Next]_vars => CasIsLatest' /\ store'.clock >= store.clock
<1> SUFFICES ASSUME TypeOK, CasIsLatest, [Next]_vars
             PROVE  CasIsLatest' /\ store'.clock >= store.clock
  OBVIOUS
<1>1. store.clock \in Nat
  BY DEF TypeOK, Stores
<1>2. store' = store \/ \E l : store' = Mutate(store, l)
  BY WorkerEffect, MainEffect DEF Next, Stopped, vars, Write
<1>3. QED
  BY <1>1, <1>2 DEF CasIsLatest, Mutate

\* The thread that has read a document at the end of a step got it in that step
\* or had it before.
LEMMA HoldsRead ==
  ASSUME TypeOK, [Next]_vars, NEW w \in Workers, pc'[w] = "replace"
  PROVE  \/ /\ Worker(w) /\ store' = store /\ Exists(store)
            /\ read'[w] = [value |-> store.val, cas |-> store.cas]
         \/ /\ pc[w] = "replace" /\ read'[w] = read[w]
            /\ main' = "safe" => main = "safe"
<1>1. CASE Worker(w)
  BY <1>1, WorkerEffect DEF Stored
<1>2. ASSUME NEW v \in Workers, v # w, Worker(v)
      PROVE  pc[w] = "replace" /\ read'[w] = read[w] /\ main' = main
  BY <1>2, WorkerEffect
<1>3. CASE MainStep
  BY <1>3, MainEffect DEF Phases
<1>4. CASE UNCHANGED vars
  BY <1>4 DEF vars
<1>5. QED
  BY <1>1, <1>2, <1>3, <1>4 DEF Next, Stopped

\* A thread about to replace holds a CAS that the server did hand out.
LEMMA ReadStep == TypeOK /\ CasIsLatest /\ ReadIsPast /\ [Next]_vars => ReadIsPast'
<1> SUFFICES ASSUME TypeOK, CasIsLatest, ReadIsPast, [Next]_vars, NEW w \in Workers, pc'[w] = "replace"
             PROVE  read'[w].cas # NoCas /\ read'[w].cas <= store'.clock
  BY DEF ReadIsPast
<1>1. /\ store.clock \in Nat /\ store'.clock \in Nat /\ store'.clock >= store.clock
      /\ read[w].cas \in Nat
  <2>1. store'.clock >= store.clock /\ store.clock \in Nat /\ read[w].cas \in Nat
    BY CasStep DEF TypeOK, Stores
  <2>2. store' = store \/ \E l : store' = Mutate(store, l)
    BY WorkerEffect, MainEffect DEF Next, Stopped, vars, Write
  <2>3. QED
    BY <2>1, <2>2 DEF Mutate
<1>2. QED
  BY <1>1, HoldsRead DEF ReadIsPast, Exists, CasIsLatest

\* A CAS stands for one value.
LEMMA IdentifiesStep ==
  TypeOK /\ CasIsLatest /\ ReadIsPast /\ CasIdentifiesValue /\ [Next]_vars => CasIdentifiesValue'
<1> SUFFICES ASSUME TypeOK, CasIsLatest, ReadIsPast, CasIdentifiesValue, [Next]_vars,
                    NEW w \in Workers, main' = "safe", pc'[w] = "replace", read'[w].cas = store'.cas
             PROVE  read'[w].value = store'.val
  BY DEF CasIdentifiesValue
<1>1. CASE read'[w] = [value |-> store.val, cas |-> store.cas] /\ store' = store
  BY <1>1
<1>2. CASE pc[w] = "replace" /\ read'[w] = read[w] /\ main = "safe"
  <2>1. /\ store.clock \in Nat /\ read[w].cas \in Nat
    BY DEF TypeOK, Stores
  <2>2. \A l : store' # Mutate(store, l)
    BY <1>2, <2>1 DEF ReadIsPast, Mutate
  <2>3. store' = store
    BY <2>2, WorkerEffect, MainEffect DEF Next, Stopped, vars, Write
  <2>4. QED
    BY <1>2, <2>3 DEF CasIdentifiesValue
<1>3. QED
  BY <1>1, <1>2, HoldsRead

\* Appending an item that is not there.
LEMMA AppendItem ==
  ASSUME NEW l \in Seq(Workers), NEW w \in Workers
  PROVE  /\ Items(Append(l, w)) = Items(l) \cup {w}
         /\ w \notin Items(l) /\ NoTwice(l) => NoTwice(Append(l, w))
<1>1. /\ DOMAIN l = 1 .. Len(l) /\ Len(l) \in Nat
      /\ DOMAIN Append(l, w) = 1 .. (Len(l) + 1)
      /\ \A i \in 1 .. Len(l) : Append(l, w)[i] = l[i]
      /\ Append(l, w)[Len(l) + 1] = w
  OBVIOUS
<1>2. Items(Append(l, w)) = Items(l) \cup {w}
  <2>1. ASSUME NEW x \in Items(l) PROVE x \in Items(Append(l, w))
    <3>1. PICK i \in DOMAIN l : x = l[i]
      BY DEF Items
    <3>2. i \in DOMAIN Append(l, w) /\ Append(l, w)[i] = x
      BY <1>1, <3>1
    <3>3. QED
      BY <3>2 DEF Items
  <2>2. w \in Items(Append(l, w))
    <3>1. Len(l) + 1 \in DOMAIN Append(l, w)
      BY <1>1
    <3>2. QED
      BY <1>1, <3>1 DEF Items
  <2>3. ASSUME NEW x \in Items(Append(l, w)) PROVE x \in Items(l) \cup {w}
    <3>1. PICK i \in 1 .. (Len(l) + 1) : x = Append(l, w)[i]
      BY <1>1 DEF Items
    <3>2. CASE i = Len(l) + 1
      BY <1>1, <3>1, <3>2
    <3>3. CASE i \in DOMAIN l
      BY <1>1, <3>1, <3>3 DEF Items
    <3>4. QED
      BY <1>1, <3>2, <3>3
  <2>4. QED
    BY <2>1, <2>2, <2>3
<1>3. ASSUME w \notin Items(l), NoTwice(l) PROVE NoTwice(Append(l, w))
  <2>1. \A i \in 1 .. Len(l) : l[i] # w
    BY <1>1, <1>3 DEF Items
  <2>2. QED
    BY <1>1, <1>3, <2>1 DEF NoTwice
<1>4. QED
  BY <1>2, <1>3

\* Only threads that sent their append are in the list.
LEMMA OnlyOverStep == TypeOK /\ OnlyOver /\ [Next]_vars => OnlyOver'
<1> SUFFICES ASSUME TypeOK, OnlyOver, [Next]_vars PROVE OnlyOver'
  OBVIOUS
<1>a. \A w \in Workers : pc[w] = "replace" => Items(read[w].value) \subseteq Over /\ NoTwice(read[w].value)
  BY DEF OnlyOver
<1>b. Items(store.val) \subseteq Over /\ NoTwice(store.val)
  BY DEF OnlyOver
<1>1. ASSUME NEW w \in Workers, Worker(w) PROVE OnlyOver'
  <2>1. Over \subseteq Over'
    BY <1>1, WorkerEffect DEF Over, Stored
  <2>2. Items(store'.val) \subseteq Over' /\ NoTwice(store'.val)
    <3>1. CASE Write(w) /\ pc[w] = "replace" /\ pc'[w] \in {Stored, "died"}
      <4>1. store'.val = Append(read[w].value, w) /\ read[w].value \in Seq(Workers)
        BY <3>1 DEF Write, Mutate, TypeOK
      <4>2. w \notin Over /\ w \in Over'
        BY <3>1 DEF Over, Stored
      <4>3. Items(read[w].value) \subseteq Over /\ NoTwice(read[w].value)
        BY <1>a, <3>1
      <4>4. QED
        BY <2>1, <4>1, <4>2, <4>3, AppendItem
    <3>2. CASE store' = store
      BY <1>b, <2>1, <3>2
    <3>3. QED
      BY <1>1, <3>1, <3>2, WorkerEffect
  <2>3. ASSUME NEW v \in Workers, pc'[v] = "replace"
        PROVE  Items(read'[v].value) \subseteq Over' /\ NoTwice(read'[v].value)
    <3>1. read'[v].value = store.val \/ (pc[v] = "replace" /\ read'[v] = read[v])
      BY <2>3, HoldsRead
    <3>2. CASE read'[v].value = store.val
      BY <1>b, <2>1, <3>2
    <3>3. CASE pc[v] = "replace" /\ read'[v] = read[v]
      BY <1>a, <2>1, <3>3
    <3>4. QED
      BY <3>1, <3>2, <3>3
  <2>4. Items(store.val)' = Items(store'.val) /\ \A v \in Workers : Items(read[v].value)' = Items(read'[v].value)
    BY DEF Items
  <2>5. QED
    BY <2>2, <2>3, <2>4 DEF OnlyOver, NoTwice
<1>2. CASE MainStep
  <2>1. CASE store' = Mutate(store, <<>>) /\ pc' = [w \in Workers |-> "get"]
    BY <2>1 DEF Mutate, OnlyOver, Items, NoTwice
  <2>2. CASE UNCHANGED <<store, pc, read>>
    BY <2>2 DEF OnlyOver, Items, NoTwice, Over
  <2>3. QED
    BY <1>2, <2>1, <2>2, MainEffect
<1>3. CASE UNCHANGED vars
  BY <1>3 DEF vars, OnlyOver, Items, NoTwice, Over
<1>4. QED
  BY <1>1, <1>2, <1>3 DEF Next, Stopped

\* A replace that the document's CAS lets through extends the document itself.
LEMMA AcceptedAppends ==
  ASSUME ReadIsPast, CasIdentifiesValue, main = "safe",
         NEW w \in Workers, pc[w] = "replace", Write(w)
  PROVE  store'.val = Append(store.val, w)
<1>1. read[w].cas = store.cas
  BY DEF Write, ReplaceSucceeds, CasAccepts, CasOf, ReadIsPast
<1>2. read[w].value = store.val
  BY <1>1 DEF CasIdentifiesValue
<1>3. QED
  BY <1>2 DEF Write, Mutate

\* In the phase with a CAS what was written stays.
LEMMA StoredStep ==
  TypeOK /\ ReadIsPast /\ CasIdentifiesValue /\ StoredStays /\ [Next]_vars => StoredStays'
<1> SUFFICES ASSUME TypeOK, ReadIsPast, CasIdentifiesValue, StoredStays, [Next]_vars,
                    InSafePhase', NEW v \in Workers, pc'[v] \in {"countDown", "done"}
             PROVE  v \in Items(store'.val)
  BY DEF StoredStays, Items
<1>1. ASSUME NEW w \in Workers, Worker(w) PROVE v \in Items(store'.val)
  <2>1. InSafePhase /\ main = "safe"
    BY <1>1, WorkerEffect DEF InSafePhase, Phases
  <2>2. CASE Write(w) /\ pc[w] = "replace"
    <3>1. store'.val = Append(store.val, w) /\ store.val \in Seq(Workers)
      BY <2>1, <2>2, AcceptedAppends DEF TypeOK, Stores
    <3>2. Items(store'.val) = Items(store.val) \cup {w}
      BY <3>1, AppendItem
    <3>3. v = w \/ pc'[v] = pc[v]
      BY <1>1, WorkerEffect
    <3>4. QED
      BY <2>1, <3>2, <3>3 DEF StoredStays
  <2>3. CASE store' = store /\ (pc'[w] \in {"countDown", "done"} => pc[w] = "countDown")
    <3>1. pc[v] \in {"countDown", "done"}
      BY <1>1, <2>3, WorkerEffect
    <3>2. QED
      BY <2>1, <2>3, <3>1 DEF StoredStays
  <2>4. QED
    BY <1>1, <2>2, <2>3, WorkerEffect
<1>2. CASE MainStep
  <2>1. CASE pc' = [w \in Workers |-> "get"]
    BY <2>1
  <2>2. CASE UNCHANGED <<store, pc>> /\ InSafePhase
    BY <2>2 DEF StoredStays
  <2>3. QED
    BY <1>2, <2>1, <2>2, MainEffect DEF InSafePhase, Phases
<1>3. CASE UNCHANGED vars
  BY <1>3 DEF vars, StoredStays, InSafePhase
<1>4. QED
  BY <1>1, <1>2, <1>3 DEF Next, Stopped

\* The assertion fails when an item is missing.
LEMMA AssertStep == TypeOK /\ AssertSawLoss /\ [Next]_vars => AssertSawLoss'
<1> SUFFICES ASSUME TypeOK, AssertSawLoss, [Next]_vars, main' = "assertFailed"
             PROVE  lang' = "python" /\ ~ Complete'
  BY DEF AssertSawLoss
<1>1. \A w \in Workers : ~ Worker(w)
  BY WorkerEffect DEF Phases
<1>2. CASE MainStep
  BY <1>2, MainEffect DEF Complete, Phases
<1>3. CASE UNCHANGED vars
  BY <1>3 DEF vars, Complete, AssertSawLoss
<1>4. QED
  BY <1>1, <1>2, <1>3 DEF Next, Stopped

\* No step breaks the invariant.
LEMMA NextIInv == IInv /\ [Next]_vars => IInv'
<1> SUFFICES ASSUME IInv, [Next]_vars PROVE IInv'
  OBVIOUS
<1>1. TypeOK' /\ LatchCounts' /\ PhaseOver' /\ CasIsLatest'
  BY TypeStep, LatchStep, OverStep, CasStep DEF IInv
<1>2. ReadIsPast' /\ CasIdentifiesValue' /\ OnlyOver'
  BY ReadStep, IdentifiesStep, OnlyOverStep DEF IInv
<1>3. StoredStays' /\ AssertSawLoss'
  BY StoredStep, AssertStep DEF IInv
<1>4. QED
  BY <1>1, <1>2, <1>3 DEF IInv

\* The strengthening of the properties below holds in both languages, whoever dies
\* (Cas.java:42-95, cas.py:1-60).
THEOREM Invariance == Spec => []IInv
  BY InitIInv, NextIInv, PTL DEF Spec

\* Every variable keeps its type; in particular the latch, which a dead thread
\* does not count down, never goes below zero (Cas.java:42-95, cas.py:1-60).
THEOREM TypeCorrect == Spec => []TypeOK
<1>1. IInv => TypeOK
  BY DEF IInv
<1>2. QED
  BY <1>1, Invariance, PTL
-----------------------------------------------------------------------------
\* A list in which no item is twice has as many places as items.
LEMMA LengthCounts ==
  ASSUME NEW l \in Seq(Workers), NoTwice(l)
  PROVE  /\ Items(l) \subseteq Workers
         /\ Len(l) = Cardinality(Workers) <=> Items(l) = Workers
<1>1. DOMAIN l = 1 .. Len(l) /\ Len(l) \in Nat /\ \A i \in 1 .. Len(l) : l[i] \in Workers
  OBVIOUS
<1>2. Items(l) \in SUBSET Workers
  BY <1>1 DEF Items
<1>3. IsFiniteSet(Workers)
  BY WorkersAssumption
<1>4. Cardinality(Items(l)) = Len(l)
  <2>1. l \in Bijection(1 .. Len(l), Items(l))
    BY <1>1 DEF Bijection, Injection, Surjection, IsInjective, Items, NoTwice
  <2>2. ExistsBijection(1 .. Len(l), Items(l))
    BY <2>1 DEF ExistsBijection
  <2>3. QED
    BY <1>1, <2>2, FS_CountingElements
<1>5. Cardinality(Items(l)) = Cardinality(Workers) <=> Items(l) = Workers
  BY <1>2, <1>3, FS_Subset
<1>6. QED
  BY <1>2, <1>4, <1>5

\* The size printed or asserted after a phase tells whether an item was lost,
\* with and without a CAS (Cas.java:29, cas.py:30 and 59).
THEOREM SizeTells == Spec => []SizeTellsLoss
<1>1. ASSUME IInv PROVE SizeTellsLoss
  <2>1. store.val \in Seq(Workers) /\ NoTwice(store.val)
    BY <1>1 DEF IInv, TypeOK, Stores, OnlyOver
  <2>2. Complete <=> Items(store.val) = Workers
    BY <2>1, LengthCounts DEF Complete
  <2>3. Items(store.val) \subseteq Workers
    BY <2>1, LengthCounts
  <2>4. QED
    BY <2>2, <2>3 DEF SizeTellsLoss, Items
<1>2. QED
  BY <1>1, Invariance, PTL

\* The assertion at the end of the Python example fails only if one of its
\* threads died of an exception (cas.py:59).
THEOREM AssertFailsRightly == Spec => []AssertFailsOnlyAfterDeath
<1>1. ASSUME IInv PROVE AssertFailsOnlyAfterDeath
  <2> SUFFICES ASSUME main = "assertFailed", ~ SomeoneDied PROVE FALSE
    BY DEF AssertFailsOnlyAfterDeath
  <2>1. \A w \in Workers : pc[w] = "done"
    BY <1>1 DEF IInv, PhaseOver, Phases, SomeoneDied
  <2>2. Workers \subseteq Items(store.val)
    BY <1>1, <2>1 DEF IInv, StoredStays, InSafePhase
  <2>3. store.val \in Seq(Workers) /\ NoTwice(store.val)
    BY <1>1 DEF IInv, TypeOK, Stores, OnlyOver
  <2>4. Complete
    BY <2>2, <2>3, LengthCounts DEF Complete
  <2>5. QED
    BY <1>1, <2>4 DEF IInv, AssertSawLoss
<1>2. QED
  BY <1>1, Invariance, PTL
-----------------------------------------------------------------------------
\* The safe phase starts as the atomic list does.
LEMMA RefineInit == Init => Abstract!Init
  BY DEF Init, Abstract!Init, EmptyStore, InSafePhase

\* Every step of the safe phase is one of the atomic list or leaves it alone.
LEMMA RefineStep == IInv /\ [Next]_vars => [Abstract!Next]_(Abstract!vars)
<1> SUFFICES ASSUME IInv, [Next]_vars PROVE [Abstract!Next]_(Abstract!vars)
  OBVIOUS
<1> USE DEF Abstract!vars
<1>t. TypeOK /\ ReadIsPast /\ CasIdentifiesValue
  BY DEF IInv
<1>1. ASSUME NEW w \in Workers, Worker(w) PROVE [Abstract!Next]_(Abstract!vars)
  <2>1. main' = main /\ (InSafePhase' <=> InSafePhase)
    BY <1>t, <1>1, WorkerEffect DEF InSafePhase
  <2>2. CASE ~ InSafePhase
    BY <2>1, <2>2
  <2>3. CASE InSafePhase
    <3>1. main = "safe"
      BY <1>t, <1>1, <2>3, WorkerEffect DEF InSafePhase, Phases
    <3>2. \A v \in Workers : v # w => Outcome(v)' = Outcome(v)
      BY <1>t, <1>1, WorkerEffect DEF Outcome
    <3>3. CASE store' = store /\ Outcome(w)' = Outcome(w)
      BY <2>1, <2>3, <3>2, <3>3
    <3>4. CASE pc[w] \in {"get", "replace"} /\ pc'[w] = "died" /\ store' = store
      <4>1. Outcome(w) = "none" /\ Outcome(w)' = "failed"
        BY <3>4 DEF Outcome
      <4>2. Abstract!Fail(w)
        BY <2>1, <2>3, <3>2, <3>4, <4>1 DEF Abstract!Fail, Abstract!Answer, Abstract!Unchanged
      <4>3. QED
        BY <4>2 DEF Abstract!Next
    <3>5. CASE pc[w] = "replace" /\ pc'[w] \in {Stored, "died"} /\ Write(w)
      <4>1. store'.val = Append(store.val, w)
        BY <1>t, <3>1, <3>5, AcceptedAppends
      <4>2. Outcome(w) = "none" /\ Outcome(w)' \in {"added", "failed"}
        BY <3>5 DEF Outcome, Stored
      <4>3. Abstract!Add(w)
        BY <2>1, <2>3, <3>2, <4>1, <4>2 DEF Abstract!Add, Abstract!Answer
      <4>4. QED
        BY <4>3 DEF Abstract!Next
    <3>6. QED
      BY <1>t, <1>1, <3>3, <3>4, <3>5, WorkerEffect DEF Outcome
  <2>4. QED
    BY <2>2, <2>3
<1>2. CASE MainStep
  <2>1. CASE UNCHANGED <<store, pc>> /\ (InSafePhase' <=> InSafePhase)
    BY <2>1 DEF Outcome
  <2>2. CASE ~ InSafePhase /\ store' = Mutate(store, <<>>) /\ pc' = [w \in Workers |-> "get"]
    BY <2>2 DEF Outcome, Mutate
  <2>3. QED
    BY <1>2, <2>1, <2>2, MainEffect DEF InSafePhase, Phases
<1>3. CASE UNCHANGED vars
  BY <1>3 DEF vars, Outcome, InSafePhase
<1>4. QED
  BY <1>1, <1>2, <1>3 DEF Next, Stopped

\* The threads that use the CAS implement the atomic list: their appends take
\* effect one at a time and none is ever taken away, whichever threads die
\* (Cas.java:65-83, cas.py:41-54).
THEOREM Refinement == Spec => SafePhaseImplementsAtomicList
  BY Invariance, RefineInit, RefineStep, PTL DEF Spec, SafePhaseImplementsAtomicList, Abstract!Spec
=============================================================================
