-------------------------------- MODULE CasC --------------------------------
(***************************************************************************)
(* c/cas.cc.  A main thread stores "[]", lets ten threads append an item   *)
(* each without a CAS, counts what is left, resets the list and repeats    *)
(* this with threads that use the CAS.                                     *)
(*                                                                         *)
(* The document's text is a sequence of tokens: "open" and "close" for the *)
(* brackets, "comma", and the items, where a thread stands for its item.   *)
(* An item is longer than one character, so a text of two characters is    *)
(* one of two tokens.                                                      *)
(* Every request is followed by lcb_wait, so request and reply are one     *)
(* step of the thread.  A request may fail in the ways libcouchbase        *)
(* reports: the call itself returns an error and nothing is sent (the code *)
(* ignores that result), or the reply is a timeout.  A store that timed    *)
(* out is still on its way: it is carried out at any later time, while     *)
(* other threads go on over connections of their own, or never.            *)
(***************************************************************************)
EXTENDS KVStore, Sequences, FiniteSets

CONSTANTS Threads,    \* the worker threads, each with its item (10 in the source)
          MaxFaults   \* bound: failures of different kinds in one run

\* An item is not made of the list's own characters alone.
ASSUME ThreadsAssumption   == /\ IsFiniteSet(Threads) /\ Threads # {}
                              /\ Threads \cap {"open", "comma", "close"} = {}
ASSUME MaxFaultsAssumption == MaxFaults \in Nat

VARIABLES store,     \* the document 'a_list'
          late,      \* the stores that timed out and are not carried out yet
          main,      \* where main() is
          mres,      \* main's Result, shared by its two gets
          counted,   \* num_items
          warned,    \* has main printed that items were cut off?
          pc,        \* where each worker thread is
          res,       \* the Result of each worker thread
          faults,    \* the kinds of failure so far
          unheard,   \* history: the threads of this phase that had a store time out
          unsent     \* history: those that had a store that was not sent

vars == <<store, late, main, mres, counted, warned, pc, res, faults, unheard, unsent>>

Faults == {"bootstrap",     \* the connection cannot be set up
           "initial",       \* store_initial_list fails
           "get",           \* a worker's get times out or is not sent
           "unsafeStore",   \* a store times out, of a worker that uses no CAS
           "store",         \* a store times out, of a worker that uses the CAS
           "notSent",       \* a worker's store is not sent
           "mainGet"}       \* main's get fails

Token == {"open", "comma", "close"} \cup Threads
EmptyList == <<"open", "close">>

NewResult == [value |-> <<>>, cas |-> NoCas, rc |-> "SUCCESS"]

\* op_callback: the value is only set by a get that succeeded.
GetCallback(r) == IF Exists(store)
                  THEN [value |-> store.val, cas |-> store.cas, rc |-> "SUCCESS"]
                  ELSE [r EXCEPT !.cas = NoCas, !.rc = "KEY_ENOENT"]
ErrorCallback(r, rc) == [r EXCEPT !.cas = NoCas, !.rc = rc]

\* Mutant: the comma is left out only for an empty text.
AddItem_CommaAfterBracket(old, item) ==
  SubSeq(old, 1, Len(old) - 1) \o (IF Len(old) # 0 THEN <<"comma">> ELSE <<>>)
    \o <<item, "close">>

AddItem(old, item) ==
  SubSeq(old, 1, Len(old) - 1) \o (IF Len(old) # 2 THEN <<"comma">> ELSE <<>>)
    \o <<item, "close">>

Commas(s) == Cardinality({i \in DOMAIN s : s[i] = "comma"})

\* s.find(",", pos ? pos + 1 : pos) finds a comma at position 0 for ever.
CountLoops(s) == s # <<>> /\ s[1] = "comma"

\* Mutant: the last item, which no comma follows, is forgotten.
CountListItems_NoLast(s) == IF Commas(s) > 0 THEN Commas(s)
                            ELSE IF Len(s) > 2 THEN 1 ELSE 0

CountListItems(s) == IF Commas(s) > 0 THEN Commas(s) + 1
                     ELSE IF Len(s) > 2 THEN 1 ELSE 0

Init == /\ store = EmptyStore(<<>>)
        /\ late = {}
        /\ main = "connect"
        /\ mres = NewResult
        /\ counted = 0
        /\ warned = FALSE
        /\ pc = [t \in Threads |-> "idle"]
        /\ res = [t \in Threads |-> NewResult]
        /\ faults = {}
        /\ unheard = {}
        /\ unsent = {}

\* A kind of failure happens at most once in a run, at most MaxFaults kinds do.
Fault(kind) == /\ kind \notin faults
               /\ Cardinality(faults) < MaxFaults
               /\ faults' = faults \cup {kind}
NoFault == UNCHANGED faults

\* No store is lost on its way, or before it.
NoneLost == UNCHANGED <<late, unheard, unsent>>
-----------------------------------------------------------------------------
\* The worker threads run between pthread_create and pthread_join.
Running(t, at) == main \in {"unsafe", "safe"} /\ pc[t] = at

Connect(t) == /\ Running(t, "connect")
              /\ pc' = [pc EXCEPT ![t] = "get"]
              /\ NoFault
              /\ NoneLost
              /\ UNCHANGED <<store, main, mres, counted, warned, res>>

\* create_instance calls exit(1): the whole program ends.
ConnectFails(t) == /\ Running(t, "connect")
                   /\ Fault("bootstrap")
                   /\ main' = "exited"
                   /\ NoneLost
                   /\ UNCHANGED <<store, mres, counted, warned, pc, res>>

\* The get, whose result is not looked at.  The Result is a new one.
Get(t) == /\ Running(t, "get")
          /\ pc' = [pc EXCEPT ![t] = "store"]
          /\ \/ /\ res' = [res EXCEPT ![t] = GetCallback(NewResult)]
                /\ NoFault
             \/ /\ \E r \in {NewResult, ErrorCallback(NewResult, "ETIMEDOUT")} :
                     res' = [res EXCEPT ![t] = r]
                /\ Fault("get")
          /\ NoneLost
          /\ UNCHANGED <<store, main, mres, counted, warned>>

\* Mutant: the thread that uses the CAS does not copy it into the command.
CasOf_Dropped(t) == NoCas

\* Mutant: the CAS is altered on its way into the command.
CasOf_Altered(t) == IF main = "safe" THEN res[t].cas + 1 ELSE NoCas

\* scmd.cas: only the safe threads set it.
CasOf(t) == IF main = "safe" THEN res[t].cas ELSE NoCas

NewText(t) == AddItem(res[t].value, t)

\* Mutant: success and CAS mismatch are mixed up.
AfterStore_Swapped(t, rc) ==
  /\ pc' = [pc EXCEPT ![t] = IF main = "unsafe" \/ rc = "KEY_EEXISTS" THEN "done" ELSE "get"]
  /\ UNCHANGED <<main, mres, counted, warned>>

\* The unsafe thread ends whatever the result; the safe one leaves its loop
\* on SUCCESS only and goes round on every other code.
AfterStore(t, rc) ==
  /\ pc' = [pc EXCEPT ![t] = IF main = "unsafe" \/ rc = "SUCCESS" THEN "done" ELSE "get"]
  /\ UNCHANGED <<main, mres, counted, warned>>

Reply(t, rc) == /\ res' = [res EXCEPT ![t] = ErrorCallback(@, rc)]
                /\ AfterStore(t, rc)

StoreAccepted(t) == /\ Running(t, "store")
                    /\ ReplaceSucceeds(store, CasOf(t))
                    /\ store' = Mutate(store, NewText(t))
                    /\ res' = [res EXCEPT ![t].cas = store'.cas, ![t].rc = "SUCCESS"]
                    /\ AfterStore(t, "SUCCESS")
                    /\ NoFault
                    /\ NoneLost

StoreRefused(t) == /\ Running(t, "store")
                   /\ ReplaceMismatches(store, CasOf(t))
                   /\ Reply(t, "KEY_EEXISTS")
                   /\ NoFault
                   /\ NoneLost
                   /\ UNCHANGED store

StoreMissing(t) == /\ Running(t, "store")
                   /\ ~ Exists(store)
                   /\ Reply(t, "KEY_ENOENT")
                   /\ NoFault
                   /\ NoneLost
                   /\ UNCHANGED store

\* lcb_wait returns with ETIMEDOUT and the replace is still on its way.
StoreTimesOut(t) ==
  /\ Running(t, "store")
  /\ late' = late \cup {[set |-> FALSE, cas |-> CasOf(t), text |-> NewText(t)]}
  /\ Reply(t, "ETIMEDOUT")
  /\ Fault(IF main = "unsafe" THEN "unsafeStore" ELSE "store")
  /\ unheard' = unheard \cup {t}
  /\ UNCHANGED <<store, unsent>>

\* lcb_store3 fails: no callback runs and res.rc is still that of the get.
StoreNotSent(t) == /\ Running(t, "store")
                   /\ AfterStore(t, res[t].rc)
                   /\ Fault("notSent")
                   /\ unsent' = unsent \cup {t}
                   /\ UNCHANGED <<store, late, res, unheard>>

Thread(t) == \/ Connect(t) \/ ConnectFails(t) \/ Get(t)
             \/ StoreAccepted(t) \/ StoreRefused(t) \/ StoreMissing(t)
             \/ StoreTimesOut(t) \/ StoreNotSent(t)

\* The server carries out a store whose sender has stopped waiting for it.
TakesEffect(r) == r.set \/ ReplaceSucceeds(store, r.cas)

CarryOutLate == \E r \in late :
  /\ late' = late \ {r}
  /\ store' = IF TakesEffect(r) THEN Mutate(store, r.text) ELSE store
  /\ NoFault
  /\ UNCHANGED <<main, mres, counted, warned, pc, res, unheard, unsent>>
-----------------------------------------------------------------------------
At(from, to) == main = from /\ main' = to

MainConnect == /\ \/ At("connect", "store1") /\ NoFault
                  \/ At("connect", "exited") /\ Fault("bootstrap")
               /\ NoneLost
               /\ UNCHANGED <<store, mres, counted, warned, pc, res>>

\* store_initial_list, then ten calls of pthread_create.  A failed store is
\* only printed: it is still on its way, or was never sent, which is the same
\* as one that never arrives.
StoreInitialList(from, to) ==
  /\ At(from, to)
  /\ \/ /\ store' = Mutate(store, EmptyList)
        /\ NoFault
        /\ UNCHANGED late
     \/ /\ late' = late \cup {[set |-> TRUE, cas |-> NoCas, text |-> EmptyList]}
        /\ Fault("initial")
        /\ UNCHANGED store
  /\ pc' = [t \in Threads |-> "connect"]
  /\ res' = [t \in Threads |-> NewResult]
  /\ unheard' = {} /\ unsent' = {}
  /\ UNCHANGED <<mres, counted, warned>>

Join(from, to) == /\ At(from, to)
                  /\ \A t \in Threads : pc[t] = "done"
                  /\ NoneLost
                  /\ UNCHANGED <<store, mres, counted, warned, pc, res, faults>>

\* Both gets fill the same Result, so a failed second get leaves the first value.
MainGet(from, to) == /\ At(from, to)
                     /\ \/ mres' = GetCallback(mres) /\ NoFault
                        \/ mres' = ErrorCallback(mres, "ETIMEDOUT") /\ Fault("mainGet")
                     /\ NoneLost
                     /\ UNCHANGED <<store, counted, warned, pc, res>>

\* lcb_get3 fails: checked after the first phase, ignored after the second.
MainGetNotSent == /\ \/ At("get1", "exited")
                     \/ At("get2", "count2")
                  /\ Fault("mainGet")
                  /\ NoneLost
                  /\ UNCHANGED <<store, mres, counted, warned, pc, res>>

Count(from, to) == /\ ~ CountLoops(mres.value)
                   /\ At(from, to)
                   /\ counted' = CountListItems(mres.value)
                   /\ NoneLost
                   /\ UNCHANGED <<store, mres, pc, res, faults>>

\* `if (num_items != 0)`, after the first phase.
CountUnsafe == Count("count1", "store2") /\ warned' = (counted' # 0)
CountSafe   == Count("count2", "done") /\ UNCHANGED warned

\* The loop of count_list_items finds the same comma again and again.
CountHangs == main \in {"count1", "count2"} /\ CountLoops(mres.value) /\ UNCHANGED vars

Main == \/ MainConnect
        \/ StoreInitialList("store1", "unsafe") \/ StoreInitialList("store2", "safe")
        \/ Join("unsafe", "get1") \/ Join("safe", "get2")
        \/ MainGet("get1", "count1") \/ MainGet("get2", "count2") \/ MainGetNotSent
        \/ CountUnsafe \/ CountSafe \/ CountHangs

Final == {"done", "exited"}

Stopped == main \in Final /\ UNCHANGED vars

Next == Main \/ Stopped \/ CarryOutLate \/ \E t \in Threads : Thread(t)

\* The scheduler runs every thread, and lcb_wait returns; nothing has to fail,
\* and a store that timed out need not be carried out.
Spec == /\ Init /\ [][Next]_vars
        /\ WF_vars(Main /\ NoFault)
        /\ \A t \in Threads : WF_vars(Thread(t) /\ NoFault)
-----------------------------------------------------------------------------
Results == [value : Seq(Token), cas : Nat,
            rc : {"SUCCESS", "KEY_EEXISTS", "KEY_ENOENT", "ETIMEDOUT"}]

Requests == [set : BOOLEAN, cas : Nat, text : Seq(Token)]

\* Type invariant; workers run only between their creation and their join.
TypeOK == /\ store \in Stores(Seq(Token))
          /\ late \in SUBSET Requests
          /\ main \in {"connect", "store1", "unsafe", "get1", "count1",
                       "store2", "safe", "get2", "count2"} \cup Final
          /\ mres \in Results
          /\ counted \in Nat
          /\ warned \in BOOLEAN
          /\ pc \in [Threads -> {"idle", "connect", "get", "store", "done"}]
          /\ res \in [Threads -> Results]
          /\ faults \in SUBSET Faults
          /\ unheard \in SUBSET Threads /\ unsent \in SUBSET Threads
          /\ main \in {"get1", "count1", "store2", "get2", "count2", "done"}
               => \A t \in Threads : pc[t] = "done"

Occurrences(t) == Cardinality({i \in DOMAIN store.val : store.val[i] = t})

\* "[" item "," item ... "]"
IsList(s) == /\ Len(s) >= 2 /\ s[1] = "open" /\ s[Len(s)] = "close"
             /\ s # EmptyList => Len(s) % 2 = 1
             /\ \A i \in 2 .. Len(s) - 1 : IF i % 2 = 0 THEN s[i] \in Threads ELSE s[i] = "comma"

\* add_item_to_list (lines 54-67) keeps the text a list as long as every get
\* of a worker is answered and finds a list.  It takes an unanswered get, or a
\* "[]" that arrives between a get that found nothing and the replace, to store
\* something else; the replaces that arrive late do no harm to the form.
ListStaysWellFormed ==
  (faults \cap {"get", "initial"} = {} /\ Exists(store)) => IsList(store.val)

InSafePhase == main \in {"safe", "get2", "count2", "done"}

\* thread_func_safe (lines 101-144) returns only after its item is stored, and
\* no other thread removes it.  This survives its own stores that arrive late,
\* whose CAS is refused once anything has changed, and a store that is not sent
\* costs no item but its own.  It does not survive a late request without a
\* CAS: the "[]" of store_initial_list, or a replace of the first phase, or one
\* whose get was not answered.
SafeThreadsLoseNothing ==
  (InSafePhase /\ faults \cap {"get", "initial", "unsafeStore"} = {}) =>
     \A t \in Threads \ unsent : pc[t] = "done" => Occurrences(t) >= 1

\* An item is stored twice only by a thread that had a store time out, or when
\* the list was not reset before the second phase or a replace of the first
\* phase brought its items back.
SafeThreadsStoreOnce ==
  (InSafePhase /\ faults \cap {"initial", "unsafeStore"} = {}) =>
     \A t \in Threads \ unheard : Occurrences(t) <= 1

\* Without failures the second phase counts every item (lines 240-252): the
\* comma count of count_list_items is the number of items.
SafePhaseCountsAll ==
  (main = "done" /\ faults = {}) => counted = Cardinality(Threads)

Counting == main \in {"count1", "count2"}

\* The program ends, unless there is no document at all, when the safe threads
\* go round their loop for ever on KEY_ENOENT, or the text begins with a comma,
\* when count_list_items counts for ever (lines 173-180): that takes a worker
\* whose get was not answered or found no list.
EndsIfDocumentExists ==
  \/ <>(main \in Final)
  \/ <>[](~ Exists(store))
  \/ <>[](Counting /\ CountLoops(mres.value) /\ faults \cap {"get", "initial"} # {})

\* c/cas.cc:231, "Some items were cut off because of concurrent mutations.":
\* printed only if items of the first phase are missing from the list.
WarnsOnlyIfCut ==
  (warned /\ main = "store2") => \E t \in Threads : Occurrences(t) = 0
=============================================================================
