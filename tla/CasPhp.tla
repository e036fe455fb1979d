------------------------------- MODULE CasPhp -------------------------------
(***************************************************************************)
(* php/cas.php.  Several processes run the script at once (line 65 starts  *)
(* ten): each first upserts an empty list, then adds its process id with a *)
(* get / insert-or-replace loop that is limited by a retry budget.         *)
(*                                                                         *)
(* A request and its reply are one step: a process blocks on each call and *)
(* nothing it does between the server's effect and the reply is visible to *)
(* the others.                                                             *)
(***************************************************************************)
EXTENDS KVStore, Sequences, FiniteSets

CONSTANTS Procs,      \* the processes; a process id is also the item it adds
          Retries,    \* the initial $retries_remaining (10 in the source)
          MaxFlush,   \* bound: how often the bucket is flushed meanwhile
          MayFail     \* can a request end in an error code of its own?

ASSUME ProcsAssumption    == IsFiniteSet(Procs)
ASSUME RetriesAssumption  == Retries \in Nat \ {0}
ASSUME MaxFlushAssumption == MaxFlush \in Nat
ASSUME MayFailAssumption  == MayFail \in BOOLEAN

VARIABLES store,     \* the document 'a_list'
          pc,        \* where each process is
          metadoc,   \* $metadoc: the value and CAS of its last get
          retries,   \* $retries_remaining
          flushes    \* flushes so far

vars == <<store, pc, metadoc, retries, flushes>>

Ended == {"added", "gaveup", "threw"}

Init == /\ store = EmptyStore(<<>>)
        /\ pc = [p \in Procs |-> "upsert"]
        /\ metadoc = [p \in Procs |-> [value |-> <<>>, cas |-> NoCas]]
        /\ retries = [p \in Procs |-> Retries]
        /\ flushes = 0

Goto(p, from, to) == /\ pc[p] = from
                     /\ pc' = [pc EXCEPT ![p] = to]

\* $bucket->upsert('a_list', array()): every process empties the list.
UpsertEmpty(p) == /\ Goto(p, "upsert", "get")
                  /\ store' = Mutate(store, <<>>)
                  /\ UNCHANGED <<metadoc, retries, flushes>>

\* Mutant: the value is read once, later gets refresh only the CAS.
GetFound_StaleValue(p) ==
  /\ Goto(p, "get", "replace")
  /\ Exists(store)
  /\ metadoc' = [metadoc EXCEPT ![p].cas = store.cas,
                                ![p].value = IF retries[p] = Retries THEN store.val ELSE @]
  /\ UNCHANGED <<store, retries, flushes>>

GetFound(p) == /\ Goto(p, "get", "replace")
               /\ Exists(store)
               /\ metadoc' = [metadoc EXCEPT ![p] = [value |-> store.val, cas |-> store.cas]]
               /\ UNCHANGED <<store, retries, flushes>>

\* COUCHBASE_KEY_ENOENT: the list has to be created.
GetMissing(p) == /\ Goto(p, "get", "insert")
                 /\ ~ Exists(store)
                 /\ UNCHANGED <<store, metadoc, retries, flushes>>

InsertCreates(p) == /\ Goto(p, "insert", "added")
                    /\ ~ Exists(store)
                    /\ store' = Mutate(store, <<p>>)
                    /\ UNCHANGED <<metadoc, retries, flushes>>

\* Mutant: the loop condition does not take back the ++ of line 43.
InsertLoses_GainsRetry(p) == /\ Goto(p, "insert", "get")
                             /\ Exists(store)
                             /\ retries' = [retries EXCEPT ![p] = @ + 1]
                             /\ UNCHANGED <<store, metadoc, flushes>>

\* Mutant: the insert is retried without a new get.
InsertLoses_Spins(p) == /\ Goto(p, "insert", "insert")
                        /\ Exists(store)
                        /\ UNCHANGED <<store, metadoc, retries, flushes>>

\* COUCHBASE_KEY_EEXISTS on the insert: $retries_remaining++ and `continue`,
\* which evaluates the loop condition --$retries_remaining.
InsertLoses(p) == /\ Goto(p, "insert", "get")
                  /\ Exists(store)
                  /\ UNCHANGED <<store, metadoc, retries, flushes>>

\* Mutant: the replace does not carry the CAS.
ReplaceAccepted_NoCas(p) ==
  /\ Goto(p, "replace", "added")
  /\ ReplaceSucceeds(store, NoCas)
  /\ store' = Mutate(store, Append(metadoc[p].value, p))
  /\ UNCHANGED <<metadoc, retries, flushes>>

ReplaceAccepted(p) == /\ Goto(p, "replace", "added")
                      /\ ReplaceSucceeds(store, metadoc[p].cas)
                      /\ store' = Mutate(store, Append(metadoc[p].value, p))
                      /\ UNCHANGED <<metadoc, retries, flushes>>

\* Mutant: a refused replace is sent again without a new get.
ReplaceRefused_SameCas(p) ==
  /\ Goto(p, "replace", IF retries[p] = 1 THEN "gaveup" ELSE "replace")
  /\ ReplaceMismatches(store, metadoc[p].cas)
  /\ retries' = [retries EXCEPT ![p] = @ - 1]
  /\ UNCHANGED <<store, metadoc, flushes>>

\* COUCHBASE_KEY_EEXISTS on the replace: one retry is spent.
ReplaceRefused(p) ==
  /\ Goto(p, "replace", IF retries[p] = 1 THEN "gaveup" ELSE "get")
  /\ ReplaceMismatches(store, metadoc[p].cas)
  /\ retries' = [retries EXCEPT ![p] = @ - 1]
  /\ UNCHANGED <<store, metadoc, flushes>>

\* The document is gone: not KEY_EEXISTS, so the exception is thrown on.
ReplaceMissing(p) == /\ Goto(p, "replace", "threw")
                     /\ ~ Exists(store)
                     /\ UNCHANGED <<store, metadoc, retries, flushes>>

\* What the pending request of p does to the document when it is accepted.
Effect(p) ==
  \/ pc[p] = "upsert"  /\ store' = Mutate(store, <<>>)
  \/ pc[p] = "insert"  /\ ~ Exists(store) /\ store' = Mutate(store, <<p>>)
  \/ /\ pc[p] = "replace"
     /\ ReplaceSucceeds(store, metadoc[p].cas)
     /\ store' = Mutate(store, Append(metadoc[p].value, p))

\* Any other code (a timeout, a network error) leaves the script, whether or
\* not the server had carried the request out.
RequestFails(p) == /\ MayFail
                   /\ pc[p] \notin Ended
                   /\ Goto(p, pc[p], "threw")
                   /\ Effect(p) \/ UNCHANGED store
                   /\ UNCHANGED <<metadoc, retries, flushes>>

\* Outside this program: the bucket is flushed.
Flush == /\ flushes < MaxFlush
         /\ Exists(store)
         /\ flushes' = flushes + 1
         /\ store' = Remove(store, <<>>)
         /\ UNCHANGED <<pc, metadoc, retries>>

Answered(p) == \/ UpsertEmpty(p) \/ GetFound(p) \/ GetMissing(p)
               \/ InsertCreates(p) \/ InsertLoses(p)
               \/ ReplaceAccepted(p) \/ ReplaceRefused(p) \/ ReplaceMissing(p)

Step(p) == Answered(p) \/ RequestFails(p)

Finished == (\A p \in Procs : pc[p] \in Ended) /\ UNCHANGED vars

Next == Flush \/ Finished \/ \E p \in Procs : Step(p)

Spec == Init /\ [][Next]_vars

\* A process that has something to do is eventually scheduled and answered; no
\* request has to fail.
FairSpec == Spec /\ \A p \in Procs : WF_vars(Answered(p))
-----------------------------------------------------------------------------
\* Type invariant.
TypeOK == /\ store \in Stores(Seq(Procs))
          /\ pc \in [Procs -> {"upsert", "get", "insert", "replace"} \cup Ended]
          /\ metadoc \in [Procs -> [value : Seq(Procs), cas : Nat]]
          /\ retries \in [Procs -> 0 .. Retries]
          /\ flushes \in 0 .. MaxFlush

\* The budget of lines 19 and 59: a process spends a retry only on another process's
\* upsert or add, so with more retries than those it never throws "Couldn't
\* add item!" (line 60).
NeverGivesUp == Retries > 2 * (Cardinality(Procs) - 1) =>
                  \A p \in Procs : pc[p] # "gaveup"

\* A CAS stands for one value: what a replace is about to overwrite is what
\* the process read (lines 23 and 51), whoever wrote in between.
CasIdentifiesValue ==
  \A p \in Procs : (pc[p] = "replace" /\ metadoc[p].cas = store.cas)
                      => metadoc[p].value = store.val

\* README.md:159-160, "using the CAS within a proper retry mechanism will ensure
\* that all mutations remain in tact": what was added stays in the list.
MutationsRemain == \A p \in Procs : pc[p] = "added" => \E i \in DOMAIN store.val : store.val[i] = p

\* A process's id is never in the list twice (lines 48-59): no retry repeats
\* an add that had taken effect.
NoDuplicates == \A i, j \in DOMAIN store.val : store.val[i] = store.val[j] => i = j

\* Every process ends: added, thrown, or out of retries (line 60).
Terminates == <>(\A p \in Procs : pc[p] \in Ended)

\* What the atomic list knows of a process.
Outcome(p) == CASE pc[p] = "added" -> "added"
                [] pc[p] \in {"gaveup", "threw"} -> "failed"
                [] OTHER -> "none"

Abstract == INSTANCE AtomicList
              WITH Adders <- Procs, MayWipe <- TRUE, list <- store.val,
                   answer <- [p \in Procs |-> Outcome(p)]

\* The script implements the atomic list: adds take effect one by one, at most
\* once per process, and only line 8 and flushes take items away.
ImplementsAtomicList == Abstract!Spec
=============================================================================
