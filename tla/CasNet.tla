------------------------------- MODULE CasNet -------------------------------
(***************************************************************************)
(* dotnet/Cas.cs.  Ten tasks increment a number in one document a hundred  *)
(* times each: first with a get and an unconditional replace, then, after  *)
(* the number is set back to 0, with a replace that carries the CAS and a  *)
(* bounded number of retries per increment.  The key is made from the      *)
(* clock, so no other program touches the document.                        *)
(*                                                                         *)
(* A request and its reply are one step.  The results of the requests are  *)
(* inspected as little as the code does: a failed get has no value, so the *)
(* increment throws a NullReferenceException in the task; a failed replace *)
(* other than a CAS mismatch leaves the retry loop silently.               *)
(***************************************************************************)
EXTENDS KVStore, FiniteSets

CONSTANTS Tasks,      \* the concurrent tasks (10)
          Count,      \* increments per task (100)
          Budgets,    \* the retry limits considered; the source has one, 100
          MaxFaults   \* bound: failures of different kinds in one run

ASSUME TasksAssumption     == IsFiniteSet(Tasks)
ASSUME CountAssumption     == Count \in Nat \ {0}
ASSUME BudgetsAssumption   == Budgets \subseteq Nat
ASSUME MaxFaultsAssumption == MaxFaults \in Nat

VARIABLES store,      \* the document; its value is data.Number
          main,       \* where ExecuteAsync is
          pc,         \* where each task is
          iter,       \* i + 1, the increment each task is at
          read,       \* the number and CAS each task last got
          budget,     \* the retry limit, chosen initially
          retries,    \* retries left for the current increment
          won,        \* history: the increments of this phase that took effect
          exhausted,  \* history: those given up after the last retry
          failed,     \* history: those whose replace failed otherwise
          faults      \* the kinds of failure so far

tvars   == <<pc, iter, read, retries, won, exhausted, failed>>
vars    == <<store, main, budget, tvars, faults>>

Faults     == {"upsert", "get", "replace"}
Increments == Tasks \X (1 .. Count)

FreshTasks == /\ pc' = [t \in Tasks |-> "get"]
              /\ iter' = [t \in Tasks |-> 1]
              /\ read' = [t \in Tasks |-> [number |-> 0, cas |-> NoCas]]
              /\ retries' = [t \in Tasks |-> budget]
              /\ won' = {} /\ exhausted' = {} /\ failed' = {}

Init == /\ store = EmptyStore(0)
        /\ main = "upsert1"
        /\ pc = [t \in Tasks |-> "idle"]
        /\ iter = [t \in Tasks |-> 1]
        /\ read = [t \in Tasks |-> [number |-> 0, cas |-> NoCas]]
        /\ budget \in Budgets
        /\ retries = [t \in Tasks |-> budget]
        /\ won = {} /\ exhausted = {} /\ failed = {}
        /\ faults = {}

Fault(kind) == /\ kind \notin faults
               /\ Cardinality(faults) < MaxFaults
               /\ faults' = faults \cup {kind}
-----------------------------------------------------------------------------
At(t, where) == /\ main \in {"unsafe", "safe"}
                /\ pc[t] = where
                /\ UNCHANGED budget

\* Mutant: the get is moved out of the loop over the increments.
Get_Hoisted(t) ==
  /\ At(t, "get")
  /\ Exists(store)
  /\ read' = [read EXCEPT ![t] = IF iter[t] = 1 THEN [number |-> store.val, cas |-> store.cas]
                                                ELSE @]
  /\ pc' = [pc EXCEPT ![t] = "replace"]
  /\ UNCHANGED <<store, main, iter, retries, won, exhausted, failed, faults>>

Get(t) == /\ At(t, "get")
          /\ Exists(store)
          /\ read' = [read EXCEPT ![t] = [number |-> store.val, cas |-> store.cas]]
          /\ pc' = [pc EXCEPT ![t] = "replace"]
          /\ UNCHANGED <<store, main, iter, retries, won, exhausted, failed, faults>>

\* result.Value is null: the task ends with an exception.
GetFails(t) == /\ At(t, "get")
               /\ \/ ~ Exists(store) /\ UNCHANGED faults
                  \/ Fault("get")
               /\ pc' = [pc EXCEPT ![t] = "threw"]
               /\ UNCHANGED <<store, main, iter, read, retries, won, exhausted, failed>>

\* Mutant: i is advanced before the test, so the last increment is skipped.
NextIncrement_OneShort(t) ==
  /\ iter' = [iter EXCEPT ![t] = IF @ + 1 < Count THEN @ + 1 ELSE @]
  /\ pc' = [pc EXCEPT ![t] = IF iter[t] + 1 < Count THEN "get" ELSE "done"]
  /\ retries' = [retries EXCEPT ![t] = budget]

\* The retry loop is left: on to the next increment of the for loop.
NextIncrement(t) ==
  /\ iter' = [iter EXCEPT ![t] = IF @ < Count THEN @ + 1 ELSE @]
  /\ pc' = [pc EXCEPT ![t] = IF iter[t] < Count THEN "get" ELSE "done"]
  /\ retries' = [retries EXCEPT ![t] = budget]

\* Mutant: result.Cas is not passed on.
CasOf_None(t) == NoCas

\* result.Cas, in the phase that uses it.
CasOf(t) == IF main = "safe" THEN read[t].cas ELSE NoCas

Write(t) == /\ ReplaceSucceeds(store, CasOf(t))
            /\ store' = Mutate(store, read[t].number + 1)
            /\ won' = won \cup {<<t, iter[t]>>}

Replace(t) == /\ At(t, "replace")
              /\ Write(t)
              /\ NextIncrement(t)
              /\ UNCHANGED <<main, read, exhausted, failed, faults>>

\* Mutant: the document is not got again.
Mismatch_SameDocument(t) ==
  /\ At(t, "replace")
  /\ ReplaceMismatches(store, CasOf(t))
  /\ retries[t] > 0
  /\ retries' = [retries EXCEPT ![t] = @ - 1]
  /\ UNCHANGED <<store, main, pc, iter, read, won, exhausted, failed, faults>>

\* Status KeyExists: go round while retries-- > 0.
Mismatch(t) == /\ At(t, "replace")
               /\ ReplaceMismatches(store, CasOf(t))
               /\ retries[t] > 0
               /\ retries' = [retries EXCEPT ![t] = @ - 1]
               /\ pc' = [pc EXCEPT ![t] = "get"]
               /\ UNCHANGED <<store, main, iter, read, won, exhausted, failed, faults>>

\* The retries are used up: the increment is dropped without a word.
Exhaust(t) == /\ At(t, "replace")
              /\ ReplaceMismatches(store, CasOf(t))
              /\ retries[t] = 0
              /\ exhausted' = exhausted \cup {<<t, iter[t]>>}
              /\ NextIncrement(t)
              /\ UNCHANGED <<store, main, read, won, failed, faults>>

\* Any other status (a timeout, whether or not the replace took effect): the
\* loop is left and the increment counts as done.
ReplaceFails(t) == /\ At(t, "replace")
                   /\ Fault("replace")
                   /\ failed' = failed \cup {<<t, iter[t]>>}
                   /\ Write(t) \/ UNCHANGED <<store, won>>
                   /\ NextIncrement(t)
                   /\ UNCHANGED <<main, read, exhausted>>

Task(t) == \/ Get(t) \/ GetFails(t)
           \/ Replace(t) \/ Mismatch(t) \/ Exhaust(t) \/ ReplaceFails(t)
-----------------------------------------------------------------------------
Goto(from, to) == main = from /\ main' = to /\ UNCHANGED budget

\* The result of the upsert is not looked at.  The tasks start.
UpsertZero(from, to) == /\ Goto(from, to)
                        /\ \/ store' = Mutate(store, 0) /\ UNCHANGED faults
                           \/ store' \in {store, Mutate(store, 0)} /\ Fault("upsert")
                        /\ FreshTasks

\* Task.WhenAll waits for all tasks, then throws if one of them did.
WhenAll(from, to) ==
  /\ main = from
  /\ \A t \in Tasks : pc[t] \in {"done", "threw"}
  /\ main' = IF \E t \in Tasks : pc[t] = "threw" THEN "threw" ELSE to
  /\ UNCHANGED <<store, budget, tvars, faults>>

\* The number is printed; a failed get throws.
PrintNumber(from, to) ==
  /\ \/ Exists(store) /\ Goto(from, to) /\ UNCHANGED faults
     \/ Goto(from, "threw") /\ Fault("get")
     \/ ~ Exists(store) /\ Goto(from, "threw") /\ UNCHANGED faults
  /\ UNCHANGED <<store, tvars>>

Main == \/ UpsertZero("upsert1", "unsafe") \/ UpsertZero("upsert2", "safe")
        \/ WhenAll("unsafe", "print1") \/ WhenAll("safe", "print2")
        \/ PrintNumber("print1", "upsert2") \/ PrintNumber("print2", "done")

Ended == {"done", "threw"}
Stopped == main \in Ended /\ UNCHANGED vars

Next == Main \/ Stopped \/ \E t \in Tasks : Task(t)

\* The task pool runs every task and requests are answered; nothing has to fail.
Spec == /\ Init /\ [][Next]_vars
        /\ WF_vars(Main /\ UNCHANGED faults)
        /\ \A t \in Tasks : WF_vars(Task(t) /\ UNCHANGED faults)
-----------------------------------------------------------------------------
\* Type invariant.
TypeOK == /\ store \in Stores(Nat)
          /\ main \in {"upsert1", "unsafe", "print1", "upsert2", "safe", "print2"} \cup Ended
          /\ pc \in [Tasks -> {"idle", "get", "replace", "done", "threw"}]
          /\ iter \in [Tasks -> 1 .. Count]
          /\ read \in [Tasks -> [number : Nat, cas : Nat]]
          /\ budget \in Budgets
          /\ retries \in [Tasks -> 0 .. budget]
          /\ won \subseteq Increments
          /\ exhausted \subseteq Increments
          /\ failed \subseteq Increments
          /\ faults \subseteq Faults

Total == Cardinality(Tasks) * Count

InSafePhase == main \in {"safe", "print2", "done"} /\ "upsert" \notin faults

\* With the CAS no increment overwrites another: the number is the number of
\* increments that took effect (Cas.cs:72-76), whatever failed.
NumberCountsWins == InSafePhase => store.val = Cardinality(won)

\* An increment is refused once per increment of another task at most, so with
\* that many retries (Cas.cs:68) none is dropped.
EnoughRetriesDropNothing ==
  (InSafePhase /\ budget >= (Cardinality(Tasks) - 1) * Count) => exhausted = {}

\* At the end the number falls short of the expected one by exactly the dropped
\* increments, and by at most one for each replace that failed otherwise.
ShortfallIsAccountedFor ==
  (InSafePhase /\ main = "done") =>
    store.val \in (Total - Cardinality(exhausted \cup failed)) .. (Total - Cardinality(exhausted))

\* Without the CAS (Cas.cs:45-59) a slow task may set the number back, even to
\* 1, but every task gets the document again before its next increment: with
\* two tasks and two increments each, the number printed is never below 2.
UnsafeNumberInRange ==
  (main = "print1" /\ faults = {} /\ Cardinality(Tasks) > 1 /\ Count > 1)
    => store.val \in 2 .. Total
=============================================================================
