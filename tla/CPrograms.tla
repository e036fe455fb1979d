----------------------------- MODULE CPrograms -----------------------------
(***************************************************************************)
(* Programs of c/ run at the same time against one cluster.  Each creates  *)
(* a handle, connects and goes through its rounds (CTables).  Requests,    *)
(* answers and the scheduling of a request may fail; a node may fail over  *)
(* to its replica, which has what was replicated to it; the primary index  *)
(* follows the bucket; time passes while programs sleep.                   *)
(***************************************************************************)
EXTENDS CTables

CONSTANTS Scenarios,   \* sets of programs that are run together
          MaxFaults,   \* bounds what goes wrong: failures to connect, to schedule, lost
                       \* requests or answers, a failover
          MaxWaits     \* bounds the seconds that pass while no program sleeps

\* The programs there are.  Each is run under a number of its own.
Names == {"counter", "expiration", "updating", "retrieving", "cloud", "subdoc_retrieving",
          "subdoc_updating", "bulk_get", "bulk_store", "durability", "query_consistency",
          "query_atplus", "query_create_index", "n1ql_create_primary_index", "query_criteria",
          "query_placeholders", "fts_basic", "flush", "create_remove_bucket", "connecting"}

ASSUME ScenariosAssumption == \A S \in Scenarios : S \subseteq Names \X Nat
ASSUME BoundsAssumption    == MaxFaults \in Nat /\ MaxWaits \in Nat

Programs == UNION Scenarios

\* The rounds of each program: a program is its name and a number.
Table(name, n) ==
  CASE name = "counter" -> counter
    [] name = "expiration" -> expiration
    [] name = "updating" -> updating
    [] name = "retrieving" -> retrieving
    [] name = "cloud" -> cloud
    [] name = "subdoc_retrieving" -> subdoc_retrieving
    [] name = "subdoc_updating" -> subdoc_updating
    [] name = "bulk_get" -> bulk_get
    [] name = "bulk_store" -> bulk_store
    [] name = "durability" -> durability
    [] name = "query_consistency" -> query_consistency(n)
    [] name = "query_atplus" -> query_atplus(n)
    [] name = "query_create_index" -> query_create_index
    [] name = "n1ql_create_primary_index" -> n1ql_create_primary_index
    [] name = "query_criteria" -> query_criteria
    [] name = "query_placeholders" -> query_placeholders
    [] name = "fts_basic" -> fts_basic
    [] name = "flush" -> flush
    [] name = "create_remove_bucket" -> create_remove_bucket
    [] name = "connecting" -> <<>>

Rounds == [p \in Programs |-> Table(p[1], p[2])]

\* What a program does when it cannot connect.
Unconnected(p) == CASE p[1] \in {"flush", "query_atplus"} -> "ready"
                    [] p[1] \in {"create_remove_bucket", "fts_basic"} -> "aborted"
                    [] OTHER -> "exited"

OpsOf == [p \in Programs |-> UNION {ToSet(Rounds[p][r].ops) : r \in DOMAIN Rounds[p]}]

\* The documents each program uses; a flush has those of the others.
Uses == [p \in Programs |-> {op.key : op \in {o \in OpsOf[p] : o.does # "flush"}}]

KeysOf(S) == UNION {Uses[p] : p \in S}

\* Buckets and indexes are not stored in a bucket.
Stored(k) == k[1] # "cluster" /\ k[2] # "#primary"

-----------------------------------------------------------------------------
VARIABLES run,        \* the programs that are run
          docs, backup, index,   \* the documents, the replica's and the index's view of them
          connected,  \* the programs with a connection
          pc,         \* "boot", "ready", "waiting", "napping", "ended", "exited" or "aborted"
          round,      \* the round each program is in
          todo,       \* the operations it waits for
          enduring,   \* the mutations it waits to be durable
          stale,      \* the documents a query waits for the index to reach
          answers,    \* what the round's callback was called with
          nap,        \* the seconds of sleep it has left
          clean,      \* nothing came between the program and its documents
          promised,   \* history: the mutations it was told are durable
          latest,     \* history: each document's latest mutation
          faults, waits

server == <<docs, backup, index, latest>>
vars == <<run, docs, backup, index, connected, pc, round, todo, enduring, stale, answers, nap,
          clean, promised, latest, faults, waits>>

Durable == {"storedur", "store_and_endure"}

\* The documents whose replica is followed: those the programs want durable.
Replicated == {op.key : op \in {o \in UNION {OpsOf[p] : p \in run} : o.does \in Durable}}

\* The documents whose index is followed: those of a bucket whose queries wait for it.
Indexed == LET waited == {o \in UNION {OpsOf[p] : p \in run} : o.does = "query" /\ o.after # "not_bounded"}
           IN {k \in DOMAIN docs : Stored(k) /\ k[1] \in {o.key[1] : o \in waited}}

Ended == {"ended", "exited", "aborted"}

\* The buckets as earlier runs of the programs leave them, or empty ones.
Left(k, earlier) ==
  IF earlier /\ k # newBucket /\ k[2] # "non-exist-key"
  THEN Doc(CASE k = docid -> Number(51)
             [] k = a_key -> Person(3)
             [] k \in {User(1), User(2)} -> Value("Brass")
             [] k[2] = "#primary" -> NoBody
             [] OTHER -> Value("some"), 0, <<"earlier", 0, 0>>)
  ELSE Gone(<<"earlier", 0, 0>>)

Init ==
  /\ run \in Scenarios
  /\ \E earlier \in BOOLEAN : docs = [k \in KeysOf(run) |-> Left(k, earlier)]
  /\ backup = docs /\ index = docs
  /\ latest = [k \in KeysOf(run) |-> docs[k].by]
  /\ connected = {} /\ clean = run /\ promised = {}
  /\ pc = [p \in run |-> "boot"]
  /\ round = [p \in run |-> 1]
  /\ todo = [p \in run |-> {}] /\ enduring = [p \in run |-> {}] /\ stale = [p \in run |-> {}]
  /\ answers = [p \in run |-> <<>>]
  /\ nap = [p \in run |-> 0]
  /\ faults = 0 /\ waits = 0
-----------------------------------------------------------------------------
Now(p) == Rounds[p][round[p]]

By(p) == <<p[1], p[2], round[p]>>

Goto(p, label) == pc' = [pc EXCEPT ![p] = label]

Fault == /\ faults < MaxFaults
         /\ faults' = faults + 1

\* A document is changed: the programs that use it are disturbed.
Put(p, k, d) ==
  /\ docs' = [docs EXCEPT ![k] = d]
  /\ latest' = [latest EXCEPT ![k] = d.by]
  /\ UNCHANGED <<backup, index>>

Disturbed(p, k, d) ==
  IF d = docs[k] THEN {} ELSE {q \in run \ {p} : pc[q] # "boot" /\ k \in Uses[q]}

\* lcb_create, lcb_connect, lcb_wait and lcb_get_bootstrap_status.
Boot(p) ==
  /\ pc[p] = "boot"
  /\ \/ /\ connected' = connected \cup {p}
        /\ Goto(p, IF Rounds[p] = <<>> THEN "ended" ELSE "ready")
        /\ UNCHANGED <<faults, clean>>
     \/ /\ Fault
        /\ Goto(p, Unconnected(p))
        /\ clean' = clean \ {p}
        /\ UNCHANGED connected
  /\ UNCHANGED <<run, server, round, todo, enduring, stale, answers, nap, promised, waits>>

\* The mutations a query has to wait for.
Behind(p, op) ==
  IF op.does # "query" THEN {}
  ELSE {k \in Indexed : /\ index[k] # docs[k]
                        /\ \/ op.after = "request"
                           \/ op.after = "at_plus" /\ docs[k].by = <<p[1], p[2], 1>>}

Schedule(p) ==
  /\ pc[p] = "ready" /\ p \in connected
  /\ todo' = [todo EXCEPT ![p] = DOMAIN Now(p).ops]
  /\ stale' = [stale EXCEPT ![p] = Behind(p, Now(p).ops[1])]
  /\ Goto(p, "waiting")
  /\ UNCHANGED <<run, server, connected, round, enduring, answers, nap, clean, promised, faults, waits>>

\* Mutant: what a batch has scheduled before it fails is sent.
Scheduled_NoSchedFail(p, i) == 1 .. i-1

\* What is sent when the i-th operation cannot be scheduled.
Scheduled(p, i) == {}

\* The operation cannot be scheduled: always so without a connection.
SchedFails(p, i) ==
  /\ pc[p] = "ready" /\ i \in DOMAIN Now(p).ops
  /\ IF p \in connected THEN Fault ELSE UNCHANGED faults
  /\ todo' = [todo EXCEPT ![p] = Scheduled(p, i)]
  /\ Goto(p, CASE Now(p).unscheduled = "exit" -> "exited"
               [] Now(p).unscheduled = "abort" -> "aborted"
               [] OTHER -> "waiting")
  /\ clean' = clean \ {p}
  /\ UNCHANGED <<run, server, connected, round, enduring, stale, answers, nap, promised, waits>>
-----------------------------------------------------------------------------
\* With another code an answer has no results, and the callbacks look for none.
Kept(answer) == IF answer.rc \in {"SUCCESS", "MULTI_FAILURE"} THEN answer.body ELSE NoBody

\* The i-th operation is answered: the callback keeps it, or exits.
Hear(p, i, answer) ==
  /\ answers' = [answers EXCEPT ![p] = IF Now(p).callback THEN Append(@, [op |-> i, rc |-> answer.rc,
                                                                       body |-> Kept(answer)])
                                       ELSE @]
  /\ Goto(p, IF Now(p).failed = "exit" /\ answer.rc # "SUCCESS" THEN "exited" ELSE "waiting")
  /\ todo' = [todo EXCEPT ![p] = @ \ {i}]

Waits(p, i, ops) == pc[p] = "waiting" /\ i \in todo[p] /\ Now(p).ops[i].does \in ops

Simple == {"set", "add", "replace", "remove", "get", "touch", "get_and_touch", "counter", "lookup",
           "mutate", "create"}

Serve(p, i) ==
  LET op == Now(p).ops[i]
      end == Handle(op, docs[op.key], By(p))
  IN /\ Waits(p, i, Simple)
     /\ IF end.doc = docs[op.key] THEN UNCHANGED server ELSE Put(p, op.key, end.doc)
     /\ clean' = clean \ Disturbed(p, op.key, end.doc)
     /\ Hear(p, i, end.answer)
     /\ UNCHANGED <<run, connected, round, enduring, stale, nap, promised, faults, waits>>

\* storedur, and the store whose callback calls lcb_endure3: the latter's context may
\* not be created, which store_callback answers by doing nothing.
ServeDurable(p, i) ==
  LET op == Now(p).ops[i]
      d == Doc(op.body, 0, By(p))
  IN /\ Waits(p, i, Durable)
     /\ Put(p, op.key, d)
     /\ clean' = clean \ Disturbed(p, op.key, d)
     /\ todo' = [todo EXCEPT ![p] = @ \ {i}]
     /\ \/ enduring' = [enduring EXCEPT ![p] = {op.key}] /\ UNCHANGED faults
        \/ op.does = "store_and_endure" /\ Fault /\ UNCHANGED enduring
     /\ UNCHANGED <<run, connected, pc, round, stale, answers, nap, promised, waits>>

\* Mutant: the mutation counts as durable when the active node has it.
Safe_Active(p, k) == docs[k].by = By(p)

Safe(p, k) == docs[k].by = By(p) /\ backup[k].by = By(p)

\* The mutation's durability is polled until the replica has it, or it is not the
\* document's any more, or time is up.
Endure(p, k) ==
  /\ k \in enduring[p]
  /\ enduring' = [enduring EXCEPT ![p] = {}]
  /\ \/ /\ Safe(p, k)
        /\ promised' = promised \cup {[key |-> k, by |-> By(p)]}
        /\ answers' = [answers EXCEPT ![p] = Append(@, [op |-> 1, rc |-> "SUCCESS", body |-> NoBody])]
        /\ UNCHANGED faults
     \/ /\ docs[k].by # By(p)
        /\ answers' = [answers EXCEPT ![p] = Append(@, [op |-> 1, rc |-> "KEY_EEXISTS", body |-> NoBody])]
        /\ UNCHANGED <<promised, faults>>
     \/ /\ Fault
        /\ answers' = [answers EXCEPT ![p] = Append(@, [op |-> 1, rc |-> "ETIMEDOUT", body |-> NoBody])]
        /\ UNCHANGED promised
  /\ UNCHANGED <<run, server, connected, pc, round, todo, stale, nap, clean, waits>>

\* Mutant: the query does not wait for the index.
Reached_AtOnce(p) == TRUE

Reached(p) == stale[p] = {}

Query(p, i) ==
  LET op == Now(p).ops[i]
      rows == {k \in DOMAIN index : k[1] = op.key[1] /\ "Brass" \in DOMAIN index[k].body}
  IN /\ Waits(p, i, {"query"})
     /\ Reached(p)
     /\ Hear(p, i, IF docs[op.key].there THEN Answer("SUCCESS", [k \in rows |-> 0])
                   ELSE Answer("QUERY_ERROR", NoBody))
     /\ stale' = [stale EXCEPT ![p] = {}]
     /\ UNCHANGED <<run, server, connected, round, enduring, nap, clean, promised, faults, waits>>

\* The bucket's documents are removed.
Wipe(p, op) ==
  LET Wiped(k) == k[1] = op.key[1] /\ Stored(k)
  IN /\ docs' = [k \in DOMAIN docs |-> IF Wiped(k) THEN Gone(By(p)) ELSE docs[k]]
     /\ latest' = [k \in DOMAIN docs |-> docs'[k].by]
     /\ clean' = {q \in clean : pc[q] = "boot" \/ \A k \in Uses[q] : ~ Wiped(k)}
     /\ UNCHANGED <<backup, index>>

\* A bucket may not allow to be flushed.
Flush(p, i) ==
  /\ Waits(p, i, {"flush"})
  /\ \/ Wipe(p, Now(p).ops[i]) /\ Hear(p, i, Answer("SUCCESS", NoBody))
     \/ UNCHANGED <<server, clean>> /\ Hear(p, i, Answer("NOT_SUPPORTED", NoBody))
  /\ UNCHANGED <<run, connected, round, enduring, stale, nap, promised, faults, waits>>

\* The request or its answer is lost; the operation may have been done, but is not
\* done after its time is up.
Lose(p, i) ==
  LET op == Now(p).ops[i]
      end == IF op.does \in Simple THEN Handle(op, docs[op.key], By(p)).doc ELSE Doc(op.body, 0, By(p))
  IN /\ Waits(p, i, Simple \cup Durable \cup {"query", "flush"})
     /\ Fault
     /\ \/ UNCHANGED server /\ clean' = clean \ {p}
        \/ op.does = "flush" /\ Wipe(p, op)
        \/ /\ op.does \notin {"query", "flush"} /\ end # docs[op.key]
           /\ Put(p, op.key, end)
           /\ clean' = clean \ ({p} \cup Disturbed(p, op.key, end))
     /\ Hear(p, i, Answer("ETIMEDOUT", NoBody))
     /\ stale' = [stale EXCEPT ![p] = {}]
     /\ UNCHANGED <<run, connected, round, enduring, nap, promised, waits>>
-----------------------------------------------------------------------------
\* lcb_wait has returned.
Returned(p) == pc[p] = "waiting" /\ todo[p] = {} /\ enduring[p] = {}

LastAnswer(p) == answers[p][Len(answers[p])]

\* The codes an assert may see: without an answer main reads a status never written.
Asserted(p) == IF answers[p] # <<>> THEN {LastAnswer(p).rc}
               ELSE IF Now(p).asserted_by = "callback" THEN Now(p).asserts
               ELSE {"SUCCESS", "MULTI_FAILURE", "ETIMEDOUT"}

Advance(p) == Goto(p, IF round[p] = Len(Rounds[p]) THEN "ended" ELSE "ready")

Finish(p) ==
  /\ Returned(p)
  /\ \/ /\ Now(p).asserts # {} /\ Asserted(p) \ Now(p).asserts # {}
        /\ Goto(p, "aborted")
        /\ UNCHANGED <<round, answers, nap>>
     \/ /\ Now(p).asserts = {} \/ Asserted(p) \cap Now(p).asserts # {}
        /\ answers' = [answers EXCEPT ![p] = <<>>]
        /\ nap' = [nap EXCEPT ![p] = Now(p).nap]
        /\ round' = [round EXCEPT ![p] = IF @ = Len(Rounds[p]) \/ Now(p).nap > 0 THEN @ ELSE @ + 1]
        /\ IF Now(p).nap > 0 THEN Goto(p, "napping") ELSE Advance(p)
  /\ UNCHANGED <<run, server, connected, todo, enduring, stale, clean, promised, faults, waits>>

\* A second passes: it disturbs the programs that do not sleep.
Tick ==
  LET sleeping == {p \in run : pc[p] = "napping"}
      awake == {p \in run : nap[p] = 1}
  IN /\ \E p \in run : pc[p] \notin Ended /\ Rounds[p] = expiration
     /\ IF sleeping = {} THEN waits < MaxWaits /\ waits' = waits + 1 ELSE UNCHANGED waits
     /\ docs' = [k \in DOMAIN docs |-> Older(docs[k])]
     /\ backup' = [k \in DOMAIN docs |-> Older(backup[k])]
     /\ latest' = [k \in DOMAIN docs |-> IF docs[k].there /\ ~ docs'[k].there THEN docs'[k].by ELSE latest[k]]
     /\ nap' = [p \in run |-> IF p \in sleeping THEN nap[p] - 1 ELSE nap[p]]
     /\ pc' = [p \in run |-> IF p \in awake THEN "ready" ELSE pc[p]]
     /\ round' = [p \in run |-> IF p \in awake THEN round[p] + 1 ELSE round[p]]
     /\ clean' = IF docs' = docs THEN clean ELSE clean \cap sleeping
     /\ UNCHANGED <<run, index, connected, todo, enduring, stale, answers, promised, faults>>

Replicate(k) ==
  /\ k \in Replicated /\ backup[k] # docs[k]
  /\ backup' = [backup EXCEPT ![k] = docs[k]]
  /\ UNCHANGED <<run, docs, index, connected, pc, round, todo, enduring, stale, answers, nap, clean,
                 promised, latest, faults, waits>>

Index(k) ==
  /\ k \in Indexed /\ (index[k] # docs[k] \/ \E p \in run : k \in stale[p])
  /\ index' = [index EXCEPT ![k] = docs[k]]
  /\ stale' = [p \in run |-> stale[p] \ {k}]
  /\ UNCHANGED <<run, docs, backup, connected, pc, round, todo, enduring, answers, nap, clean,
                 promised, latest, faults, waits>>

\* The active node is lost and its replica takes over.
Failover ==
  /\ Fault
  /\ docs' = [k \in DOMAIN docs |-> IF k \in Replicated THEN backup[k] ELSE docs[k]]
  /\ docs' # docs
  /\ clean' = {}
  /\ UNCHANGED <<run, backup, index, connected, pc, round, todo, enduring, stale, answers, nap,
                 promised, latest, waits>>

Operation(p) ==
  \/ Boot(p) \/ Schedule(p) \/ Finish(p)
  \/ \E i \in 1..3 : SchedFails(p, i) \/ Serve(p, i) \/ ServeDurable(p, i) \/ Query(p, i)
                       \/ Flush(p, i) \/ Lose(p, i)
  \/ \E k \in enduring[p] : Endure(p, k)

\* Every program has ended.
AllEnded == /\ \A p \in run : pc[p] \in Ended
            /\ UNCHANGED vars

Next == \/ \E p \in run : Operation(p)
        \/ \E k \in DOMAIN docs : Replicate(k) \/ Index(k)
        \/ Tick \/ Failover \/ AllEnded

Spec == Init /\ [][Next]_vars
-----------------------------------------------------------------------------
(* Properties.                                                             *)

\* When a program has its answer and nothing disturbed it, what it prints is what its
\* comments and the lines around it announce: a fresh counter goes 100, 101, 51 (c/counter.cc),
\* the reads that "should fail" fail (c/expiration.cc), the insert fails and the replace does
\* not (c/updating.c), the new document is among the rows (c/query-consistency.cc).
AsPromised ==
  \A p \in clean :
    Returned(p) /\ Len(Now(p).ops) = 1 /\ answers[p] # <<>> =>
      LET a == LastAnswer(p)
          r == Now(p)
      IN /\ r.says # {} => a.rc \in r.says
         /\ r.says # {} \/ a.rc = "SUCCESS" =>
              \A path \in DOMAIN r.shows : path \in DOMAIN a.body /\ a.body[path] = r.shows[path]

\* A batch gives no results, or one for every document whatever was lost on the way:
\* lcb_sched_fail takes back the operations scheduled before the one that failed
\* (c/bulk-get.cc, c/bulk-store.cc).
BatchAllOrNothing ==
  \A p \in run :
    Returned(p) /\ Now(p).unscheduled = "batch" =>
      \/ answers[p] = <<>>
      \/ /\ Len(answers[p]) = Len(Now(p).ops)
         /\ {answers[p][i].op : i \in DOMAIN answers[p]} = DOMAIN Now(p).ops

\* The asserts about c/subdoc-retrieving.cc's and c/subdoc-updating.cc's answers hold although
\* the two overwrite each other's document: they fail only after a fault or a flush.
AssertsSurviveNeighbours ==
  (\E p \in run : pc[p] = "aborted") => faults > 0 \/ \E q \in run : q[1] = "flush"

\* What c/durability.cc prints as persisted and replicated is not lost when the replica takes
\* over: it is the document until somebody changes it.
DurableUntilOverwritten ==
  \A m \in promised : latest[m.key] = m.by => docs[m.key].by = m.by
=============================================================================
