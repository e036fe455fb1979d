----------------------------- MODULE CasThreads -----------------------------
(***************************************************************************)
(* The CAS example of two managed languages: java Cas.java and             *)
(* python/cas.py.  Both empty a list, let ten threads append an item each  *)
(* without a CAS, look at the list, empty it again and repeat this with    *)
(* threads that retry on a CAS mismatch.  They differ in what becomes of   *)
(* the main thread when a worker dies of an exception: Java waits for a    *)
(* latch the dead worker never counts down, Python joins the dead thread.  *)
(* `lang' is chosen initially and never changes.                           *)
(*                                                                         *)
(* A request and its reply are one step.  It may end in an exception other *)
(* than the mismatch, and may then have been carried out or not.           *)
(***************************************************************************)
EXTENDS KVStore, Sequences, FiniteSets

CONSTANT Workers   \* PARALLEL, range(0, 10): the threads, each with its item

ASSUME WorkersAssumption == IsFiniteSet(Workers) /\ Workers # {}

VARIABLES lang,      \* "java" or "python"
          store,     \* the document
          main,      \* where the main thread is
          latch,     \* the CountDownLatch of the current phase (Java)
          pc,        \* where each worker is
          read       \* the document each worker last got

vars == <<lang, store, main, latch, pc, read>>

Init == /\ lang \in {"java", "python"}
        /\ store = EmptyStore(<<>>)
        /\ main = "reset1"
        /\ latch = 0
        /\ pc = [w \in Workers |-> "idle"]
        /\ read = [w \in Workers |-> [value |-> <<>>, cas |-> NoCas]]
-----------------------------------------------------------------------------
Phases == {"unsafe", "safe"}

WGoto(w, from, to) == /\ main \in Phases
                      /\ pc[w] = from
                      /\ pc' = [pc EXCEPT ![w] = to]
                      /\ UNCHANGED <<lang, main>>

Get(w) == /\ WGoto(w, "get", "replace")
          /\ Exists(store)
          /\ read' = [read EXCEPT ![w] = [value |-> store.val, cas |-> store.cas]]
          /\ UNCHANGED <<store, latch>>

\* Mutant: the retry loop stores without a CAS.
CasOf_None(w) == NoCas

\* The safe iteration sends back the document it got, CAS included.
CasOf(w) == IF main = "safe" THEN read[w].cas ELSE NoCas

Write(w) == /\ ReplaceSucceeds(store, CasOf(w))
            /\ store' = Mutate(store, Append(read[w].value, w))

\* What a worker does once its item is stored: Java has a latch to count down.
Stored == IF lang = "java" THEN "countDown" ELSE "done"

Replace(w) == /\ WGoto(w, "replace", Stored)
              /\ Write(w)
              /\ UNCHANGED <<latch, read>>

\* Mutant: the loop is left after a mismatch as well.
Mismatch_Leaves(w) == /\ WGoto(w, "replace", Stored)
                      /\ ReplaceMismatches(store, CasOf(w))
                      /\ UNCHANGED <<store, latch, read>>

\* Mutant: the loop does not get the document again.
Mismatch_SameDocument(w) == /\ WGoto(w, "replace", "replace")
                            /\ ReplaceMismatches(store, CasOf(w))
                            /\ UNCHANGED <<store, latch, read>>

\* CASMismatchException, KeyExistsError: round the loop again.
Mismatch(w) == /\ WGoto(w, "replace", "get")
               /\ ReplaceMismatches(store, CasOf(w))
               /\ UNCHANGED <<store, latch, read>>

\* Any other exception ends the thread, before it reaches latch.countDown().
Dies(w) == /\ pc[w] \in {"get", "replace"}
           /\ WGoto(w, pc[w], "died")
           /\ UNCHANGED store \/ (pc[w] = "replace" /\ Write(w))
           /\ UNCHANGED <<latch, read>>

CountDown(w) == /\ WGoto(w, "countDown", "done")
                /\ latch' = latch - 1
                /\ UNCHANGED <<store, read>>

Goes(w) == Get(w) \/ Replace(w) \/ Mismatch(w) \/ CountDown(w)

Worker(w) == Goes(w) \/ Dies(w)
-----------------------------------------------------------------------------
Main(from, to) == main = from /\ main' = to /\ UNCHANGED lang

\* Mutant: the list is not emptied before the second phase.
ResetAndStart_Once(from, to) ==
  /\ Main(from, to)
  /\ store' = IF from = "reset1" THEN Mutate(store, <<>>) ELSE store
  /\ pc' = [w \in Workers |-> "get"]
  /\ latch' = Cardinality(Workers)
  /\ UNCHANGED read

\* bucket.upsert of the empty list, then the threads are created and started.
ResetAndStart(from, to) ==
  /\ Main(from, to)
  /\ store' = Mutate(store, <<>>)
  /\ pc' = [w \in Workers |-> "get"]
  /\ latch' = Cardinality(Workers)
  /\ UNCHANGED read

\* latch.await()
AwaitLatch(from, to) == /\ lang = "java"
                        /\ latch = 0
                        /\ Main(from, to)
                        /\ UNCHANGED <<store, latch, pc, read>>

\* [t.join() for t in threads]
JoinThreads(from, to) == /\ lang = "python"
                         /\ \A w \in Workers : pc[w] \in {"done", "died"}
                         /\ Main(from, to)
                         /\ UNCHANGED <<store, latch, pc, read>>

\* The list is read and its size printed; Python asserts the size at the end.
LookUnsafe == Main("look1", "reset2") /\ UNCHANGED <<store, latch, pc, read>>

Complete == Len(store.val) = Cardinality(Workers)

LookSafe == /\ \/ Main("look2", "done") /\ (lang = "python" => Complete)
               \/ Main("look2", "assertFailed") /\ lang = "python" /\ ~ Complete
            /\ UNCHANGED <<store, latch, pc, read>>

\* An exception of one of main's own requests ends the program.
MainThrows == /\ \/ Main("reset1", "threw") \/ Main("look1", "threw")
                 \/ Main("reset2", "threw") \/ Main("look2", "threwAtEnd")
              /\ UNCHANGED <<store, latch, pc, read>>

Ended == {"done", "assertFailed", "threw", "threwAtEnd"}

MainStep == \/ ResetAndStart("reset1", "unsafe") \/ ResetAndStart("reset2", "safe")
            \/ AwaitLatch("unsafe", "look1") \/ AwaitLatch("safe", "look2")
            \/ JoinThreads("unsafe", "look1") \/ JoinThreads("safe", "look2")
            \/ LookUnsafe \/ LookSafe \/ MainThrows

SomeoneDied == \E w \in Workers : pc[w] = "died"

\* The Java program that waits for a dead worker, or a program that ended.
Stuck == lang = "java" /\ main \in Phases /\ SomeoneDied
         /\ \A w \in Workers : pc[w] \in {"done", "died"}
Stopped == (main \in Ended \/ Stuck) /\ UNCHANGED vars

Next == MainStep \/ Stopped \/ \E w \in Workers : Worker(w)

\* Threads are scheduled and requests are answered; no thread has to die.
Spec == /\ Init /\ [][Next]_vars
        /\ WF_vars(MainStep)
        /\ \A w \in Workers : WF_vars(Goes(w))
-----------------------------------------------------------------------------
\* Type invariant.
TypeOK == /\ lang \in {"java", "python"}
          /\ store \in Stores(Seq(Workers))
          /\ main \in {"reset1", "look1", "reset2", "look2"} \cup Phases \cup Ended
          /\ latch \in 0 .. Cardinality(Workers)
          /\ pc \in [Workers -> {"idle", "get", "replace", "countDown", "done", "died"}]
          /\ read \in [Workers -> [value : Seq(Workers), cas : Nat]]

\* A list that lost no item has exactly one of each, with or without a CAS:
\* comparing its size with the number of threads (Cas.java:29, cas.py:30)
\* reports a loss exactly when there is one.
SizeTellsLoss ==
  main \in {"look1", "look2"} =>
    (Complete <=> \A w \in Workers : \E i \in DOMAIN store.val : store.val[i] = w)

\* python/cas.py:59, assert len(cur_list) == 10: fails only if a worker died.
AssertFailsOnlyAfterDeath == main = "assertFailed" => SomeoneDied

\* Python always comes to an end; Java does unless a worker dies, and then its
\* main thread waits on the latch for ever.
EndsOrWaitsForTheDead ==
  <>(main \in Ended) \/ <>[](lang = "java" /\ main \in Phases /\ SomeoneDied)

\* The phase with CAS, as the atomic list: MayWipe is FALSE.
InSafePhase == main \in {"safe", "look2", "done", "assertFailed", "threwAtEnd"}
Outcome(w) == CASE pc[w] \in {"countDown", "done"} -> "added"
                [] pc[w] = "died" -> "failed"
                [] OTHER -> "none"

Abstract == INSTANCE AtomicList
              WITH Adders <- Workers, MayWipe <- FALSE,
                   list   <- IF InSafePhase THEN store.val ELSE <<>>,
                   answer <- [w \in Workers |-> IF InSafePhase THEN Outcome(w) ELSE "none"]

\* The threads that use the CAS implement the atomic list, with nothing ever
\* taken away, whichever of them die.
SafePhaseImplementsAtomicList == Abstract!Spec
=============================================================================
