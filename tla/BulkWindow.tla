----------------------------- MODULE BulkWindow -----------------------------
(***************************************************************************)
(* nodejs/bulkES6.js.  Documents test0, test1, ... are created, read with  *)
(* one getMulti, read again one by one and updated one by one.  The three  *)
(* one-by-one phases keep a window of opsGroup requests in flight: every   *)
(* callback that brings a result issues the next request.  A phase's       *)
(* promise is resolved by its totalDocs-th result, while the rest of the   *)
(* window is still in flight; its callbacks run during the later phases.   *)
(*                                                                         *)
(* Requests for one key travel over one connection: the server carries     *)
(* them out, and answers them, in the order they were sent.  Nothing is    *)
(* assumed of the order across keys.  The event loop runs one callback at  *)
(* a time, to its end, with the promise reactions it triggers.             *)
(***************************************************************************)
EXTENDS Integers, Sequences, FiniteSets, Functions

CONSTANTS opsGroup,    \* requests kept in flight (1000)
          totalDocs,   \* documents to create (10000)
          MaxFaults    \* bound: requests that fail in one run

ASSUME OpsGroupAssumption  == opsGroup \in Nat \ {0}
ASSUME TotalDocsAssumption == totalDocs \in Nat \ {0}
ASSUME MaxFaultsAssumption == MaxFaults \in Nat

VARIABLES phase,       \* the promise the chain is waiting for, or how it ended
          completed,   \* the variable of each one-by-one phase
          runFlag,     \* likewise
          errors,      \* history: requests of each phase that brought an error
          array,       \* the indices set in getMultiArray
          multi,       \* getMulti: the keys not answered yet, and whether any failed
          sent,        \* per key, the requests the server has not seen yet
          answered,    \* per key, the replies whose callback has not run yet
          asked,       \* history: how often each phase has asked for each index
          rev,         \* per key, the document's rev, or Absent
          faults       \* requests that failed so far

vars == <<phase, completed, runFlag, errors, array, multi, sent, answered, asked, rev, faults>>

Windows == {"preload", "get", "update"}
Ended   == {"exit", "exitErr", "crashed"}
Keys    == 0 .. totalDocs
Absent  == -1

\* The indices a callback could ask for, those past the array included.
Indices == 0 .. totalDocs + opsGroup

Request(op, keys) == [k \in Keys |-> IF k \in keys THEN Append(sent[k], op) ELSE sent[k]]

\* The loop at the end of a phase's function: opsGroup calls, all of which find
\* completed = 0.
StartWindow(op) ==
  /\ sent' = [sent EXCEPT ![0] = @ \o [i \in 1 .. opsGroup |-> op]]
  /\ asked' = [asked EXCEPT ![op][0] = @ + opsGroup]

Init == /\ phase = "preload"
        /\ completed = [w \in Windows |-> 0]
        /\ runFlag = [w \in Windows |-> FALSE]
        /\ errors = [w \in Windows |-> 0]
        /\ array = {0}
        /\ multi = [left |-> {}, failed |-> FALSE]
        /\ sent = [k \in Keys |-> IF k = 0 THEN [i \in 1 .. opsGroup |-> "preload"] ELSE <<>>]
        /\ answered = [k \in Keys |-> <<>>]
        /\ asked = [w \in Windows |->
                      [k \in Indices |-> IF w = "preload" /\ k = 0 THEN opsGroup ELSE 0]]
        /\ rev = [k \in Keys |-> Absent]
        /\ faults = 0
-----------------------------------------------------------------------------
\* The server, outside this program.
Executes(k, op) == CASE op = "preload" -> TRUE
                     [] op \in {"get", "multi", "update"} -> rev[k] # Absent

Effect(k, op) == rev' = CASE op = "preload" -> [rev EXCEPT ![k] = 0]
                          [] op = "update" /\ rev[k] # Absent -> [rev EXCEPT ![k] = @ + 1]
                          [] OTHER -> rev

Serve(k) ==
  /\ sent[k] # <<>>
  /\ sent' = [sent EXCEPT ![k] = Tail(@)]
  /\ LET op == Head(sent[k]) IN
       \/ /\ answered' = [answered EXCEPT ![k] = Append(@, [op |-> op, ok |-> Executes(k, op)])]
          /\ Effect(k, op)
          /\ UNCHANGED faults
       \/ /\ faults < MaxFaults
          /\ faults' = faults + 1
          /\ answered' = [answered EXCEPT ![k] = Append(@, [op |-> op, ok |-> FALSE])]
          /\ Effect(k, op) \/ UNCHANGED rev
  /\ UNCHANGED <<phase, completed, runFlag, errors, array, multi, asked>>
-----------------------------------------------------------------------------
\* A callback runs: the first reply for key k is one of request op.
Callback(k, op, ok) == /\ phase \notin Ended
                       /\ answered[k] # <<>>
                       /\ Head(answered[k]) = [op |-> op, ok |-> ok]
                       /\ answered' = [answered EXCEPT ![k] = Tail(@)]
                       /\ UNCHANGED <<rev, faults>>

\* completed++ comes before the recursive call.
Counts(w) == completed[w] + 1

\* Mutant: the phase is over one result early.
LastResult_OneEarly(w) == Counts(w) + 1 >= totalDocs /\ ~ runFlag[w]

\* Mutant: the test of runFlag is the wrong way round.
LastResult_FlagInverted(w) == Counts(w) >= totalDocs /\ runFlag[w]

LastResult(w) == Counts(w) >= totalDocs /\ ~ runFlag[w]

\* The result that resolves the promise: the next phase starts.
Resolve(w) ==
  \E k \in Keys :
    /\ Callback(k, w, TRUE)
    /\ LastResult(w)
    /\ completed' = [completed EXCEPT ![w] = @ + 1]
    /\ runFlag' = [runFlag EXCEPT ![w] = TRUE]
    /\ CASE w = "preload" -> /\ phase' = "multi"
                             /\ multi' = [left |-> array, failed |-> FALSE]
                             /\ sent' = Request("multi", array)
                             /\ UNCHANGED asked
         [] w = "get"     -> /\ phase' = "update"
                             /\ StartWindow("update")
                             /\ UNCHANGED multi
         [] w = "update"  -> phase' = "exit" /\ UNCHANGED <<sent, multi, asked>>
    /\ UNCHANGED <<errors, array>>

\* Mutant: the test of completed <= totalDocs is dropped.
IssueNext_Unbounded(w) ==
  \E k \in Keys :
    /\ Callback(k, w, TRUE)
    /\ ~ LastResult(w)
    /\ completed' = [completed EXCEPT ![w] = @ + 1]
    /\ sent' = Request(w, {Counts(w)})
    /\ asked' = [asked EXCEPT ![w][Counts(w)] = @ + 1]
    /\ array' = IF w = "preload" THEN array \cup {Counts(w)} ELSE array
    /\ UNCHANGED <<phase, runFlag, errors, multi>>

\* Mutant: the request is for the key of the count before.
IssueNext_OldKey(w) ==
  \E k \in Keys :
    /\ Callback(k, w, TRUE)
    /\ ~ LastResult(w) /\ Counts(w) <= totalDocs
    /\ completed' = [completed EXCEPT ![w] = @ + 1]
    /\ sent' = Request(w, {completed[w]})
    /\ asked' = [asked EXCEPT ![w][completed[w]] = @ + 1]
    /\ array' = IF w = "preload" THEN array \cup {Counts(w)} ELSE array
    /\ UNCHANGED <<phase, runFlag, errors, multi>>

\* Mutant: the array is filled with the key of the count before.
IssueNext_OldIndex(w) ==
  \E k \in Keys :
    /\ Callback(k, w, TRUE)
    /\ ~ LastResult(w) /\ Counts(w) <= totalDocs
    /\ completed' = [completed EXCEPT ![w] = @ + 1]
    /\ sent' = Request(w, {Counts(w)})
    /\ asked' = [asked EXCEPT ![w][Counts(w)] = @ + 1]
    /\ array' = IF w = "preload" THEN array \cup {completed[w]} ELSE array
    /\ UNCHANGED <<phase, runFlag, errors, multi>>

\* Any other result issues the request for the key its count names.
IssueNext(w) ==
  \E k \in Keys :
    /\ Callback(k, w, TRUE)
    /\ ~ LastResult(w) /\ Counts(w) <= totalDocs
    /\ completed' = [completed EXCEPT ![w] = @ + 1]
    /\ sent' = Request(w, {Counts(w)})
    /\ asked' = [asked EXCEPT ![w][Counts(w)] = @ + 1]
    /\ array' = IF w = "preload" THEN array \cup {Counts(w)} ELSE array
    /\ UNCHANGED <<phase, runFlag, errors, multi>>

\* Results after the last one only count.
LateResult(w) ==
  \E k \in Keys :
    /\ Callback(k, w, TRUE)
    /\ ~ LastResult(w) /\ Counts(w) > totalDocs
    /\ completed' = [completed EXCEPT ![w] = @ + 1]
    /\ UNCHANGED <<phase, runFlag, errors, array, multi, sent, asked>>

\* reject(err): ends the program through the chain's catch, unless the promise
\* is already resolved.
PreloadError ==
  \E k \in Keys :
    /\ Callback(k, "preload", FALSE)
    /\ phase' = IF phase = "preload" THEN "exitErr" ELSE phase
    /\ errors' = [errors EXCEPT !["preload"] = @ + 1]
    /\ UNCHANGED <<completed, runFlag, array, multi, sent, asked>>

\* The error is logged; there is no result, so nothing is issued.
LoggedError(w) ==
  \E k \in Keys :
    /\ Callback(k, w, FALSE)
    /\ errors' = [errors EXCEPT ![w] = @ + 1]
    /\ UNCHANGED <<phase, completed, runFlag, array, multi, sent, asked>>

\* The reply to one key of getMulti, gathered by the SDK.
MultiReply ==
  \E k \in Keys, ok \in BOOLEAN :
    /\ Callback(k, "multi", ok)
    /\ multi' = [left |-> multi.left \ {k}, failed |-> multi.failed \/ ~ ok]
    /\ UNCHANGED <<phase, completed, runFlag, errors, array, sent, asked>>

\* Its callback runs once, at the end: on an error count it calls
\* console.console.log, which throws out of the callback.
MultiDone ==
  /\ phase = "multi" /\ multi.left = {}
  /\ IF multi.failed
     THEN phase' = "crashed" /\ UNCHANGED <<sent, asked>>
     ELSE phase' = "get" /\ StartWindow("get")
  /\ UNCHANGED <<completed, runFlag, errors, array, multi, answered, rev, faults>>

Run == \/ \E w \in Windows : Resolve(w) \/ IssueNext(w) \/ LateResult(w)
       \/ PreloadError \/ LoggedError("get") \/ LoggedError("update")
       \/ MultiReply \/ MultiDone

\* No request is out and no callback is left to run.
Drained == /\ phase # "multi"
           /\ \A k \in Keys : sent[k] = <<>> /\ answered[k] = <<>>

Stopped == /\ phase \in Ended \/ Drained
           /\ UNCHANGED vars

Next == Run \/ Stopped \/ \E k \in Keys : Serve(k)

\* While the program runs its requests are answered and the event loop runs
\* their callbacks.  What it leaves behind when it exits may be lost.
Spec == /\ Init /\ [][Next]_vars
        /\ WF_vars(Run)
        /\ \A k \in Keys : WF_vars(phase \notin Ended /\ Serve(k))
-----------------------------------------------------------------------------
Replies == [op : Windows \cup {"multi"}, ok : BOOLEAN]

\* The state of a run; completed also counts the results after the last one.
TypeOK ==
  /\ phase \in Windows \cup {"multi"} \cup Ended
  /\ completed \in [Windows -> 0 .. totalDocs + opsGroup - 1]
  /\ runFlag \in [Windows -> BOOLEAN]
  /\ errors \in [Windows -> 0 .. MaxFaults + opsGroup]
  /\ array \subseteq Keys
  /\ multi \in [left : SUBSET array, failed : BOOLEAN]
  /\ \A k \in Keys : Range(sent[k]) \subseteq Windows \cup {"multi"}
                     /\ Range(answered[k]) \subseteq Replies
  /\ asked \in [Windows -> [Indices -> 0 .. opsGroup]]
  /\ rev \in [Keys -> Absent .. opsGroup]
  /\ faults \in 0 .. MaxFaults

\* When preload is over getMultiArray names each document once, with no hole,
\* although the window's first opsGroup requests were all for test0.
ArrayComplete == runFlag["preload"] => array = 0 .. totalDocs - 1

\* How many requests of a phase an index is due: every call of the first loop
\* is for test0, the other documents are due one, what is past them none.
Due(k) == IF k = 0 THEN opsGroup ELSE IF k < totalDocs THEN 1 ELSE 0

\* No phase asks for a document more often than that, creates, reads or updates,
\* and none asks for an index past the array, although opsGroup - 1 callbacks
\* come after the last result (lines 102-134): those issue nothing.  So no
\* document is counted up more often, either.
EachAskedOnce ==
  /\ \A w \in Windows, k \in Indices : asked[w][k] <= Due(k)
  /\ \A k \in Keys : rev[k] <= Due(k)

\* The chain goes on while opsGroup - 1 upserts are in flight, and getMulti asks
\* for the documents they create.  It never meets a missing one unless a request
\* failed: its request for a key follows the upsert of that key.
CrashOnlyAfterFault == phase = "crashed" => faults > 0

\* When the program exits at most opsGroup - 1 documents are not updated,
\* whatever requests failed.
AtMostWindowMissing ==
  phase = "exit" =>
    Cardinality({k \in 0 .. totalDocs - 1 : rev[k] < 1}) <= opsGroup - 1

\* The program ends, or idles because every request of the window it waits for
\* brought an error, so that no callback is left to issue another.
Starved == phase \in {"get", "update"} /\ errors[phase] = opsGroup

EndsOrStarves == <>(phase \in Ended \/ Starved)
=============================================================================
