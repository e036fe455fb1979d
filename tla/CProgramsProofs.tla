--------------------------- MODULE CProgramsProofs ---------------------------
(***************************************************************************)
(* Proofs about CPrograms for any programs run together, any number of     *)
(* failures and any time that passes.                                      *)
(***************************************************************************)
EXTENDS CPrograms, FiniteSetTheorems, SequenceTheorems, TLAPS

(* What the proofs need of the tables. *)

\* The fields of a round.
Fields == {"ops", "callback", "unscheduled", "failed", "says", "shows", "asserts", "asserted_by", "nap"}

\* A round of one operation, which is no batch.
Single(R) ==
  /\ DOMAIN R = Fields /\ Len(R.ops) = 1 /\ DOMAIN R.ops = 1 .. 1
  /\ R.unscheduled # "batch" /\ R.nap \in Nat

\* A batch keeps its answers and asks for nothing durable.
IsBatch(R) ==
  /\ Len(R.ops) \in Nat /\ DOMAIN R.ops = 1 .. Len(R.ops)
  /\ R.callback /\ R.nap = 0
  /\ \A i \in DOMAIN R.ops : R.ops[i].does \notin Durable

\* The last round does not sleep.
IsTable(T) ==
  /\ Len(T) \in Nat /\ DOMAIN T = 1 .. Len(T) /\ (T = <<>> \/ Len(T) > 0)
  /\ \A r \in 1 .. Len(T) : (Single(T[r]) \/ IsBatch(T[r])) /\ (T[r].nap > 0 => r < Len(T))

\* Rounds of one operation, as CTables makes them.
LEMMA QuietIsSingle ==
  ASSUME NEW op
  PROVE  Single(Quiet(op)) /\ Quiet(op).nap = 0
BY DEF Quiet, Round, Single, Fields

\* A round of one operation stays one when a setting is changed.
LEMMA Settings ==
  ASSUME NEW R, Single(R), NEW v
  PROVE  /\ Single([R EXCEPT !.callback = v]) /\ [R EXCEPT !.callback = v].nap = R.nap
         /\ Single([R EXCEPT !.says = v]) /\ [R EXCEPT !.says = v].nap = R.nap
         /\ Single([R EXCEPT !.shows = v]) /\ [R EXCEPT !.shows = v].nap = R.nap
         /\ Single([R EXCEPT !.asserts = v]) /\ [R EXCEPT !.asserts = v].nap = R.nap
         /\ Single([R EXCEPT !.asserted_by = v]) /\ [R EXCEPT !.asserted_by = v].nap = R.nap
         /\ Single([R EXCEPT !.failed = v]) /\ [R EXCEPT !.failed = v].nap = R.nap
         /\ v # "batch" => /\ Single([R EXCEPT !.unscheduled = v])
                           /\ [R EXCEPT !.unscheduled = v].nap = R.nap
         /\ v \in Nat => Single([R EXCEPT !.nap = v]) /\ [R EXCEPT !.nap = v].nap = v
BY DEF Single, Fields

\* Rounds of one operation whose answer is unheard, announced or shown.
LEMMA RoundsOfOne ==
  ASSUME NEW op, NEW v
  PROVE  /\ Single(Unheard(op)) /\ Unheard(op).nap = 0
         /\ Single(Says(op, v)) /\ Says(op, v).nap = 0
         /\ Single(Shows(op, v)) /\ Shows(op, v).nap = 0
         /\ Single(ShowsRow(op, v)) /\ ShowsRow(op, v).nap = 0
<1>1. Single(Unheard(op)) /\ Unheard(op).nap = 0
  BY DEF Unheard, Quiet, Round, Single, Fields
<1>2. Single(Says(op, v)) /\ Says(op, v).nap = 0
  BY DEF Says, Quiet, Round, Single, Fields
<1>3. Single(Shows(op, v)) /\ Shows(op, v).nap = 0
  BY DEF Shows, Says, Quiet, Round, Single, Fields
<1>4. Single(ShowsRow(op, v)) /\ ShowsRow(op, v).nap = 0
  BY DEF ShowsRow, Quiet, Round, Single, Fields
<1> QED
  BY <1>1, <1>2, <1>3, <1>4

\* c/counter.cc.
LEMMA CounterTable == IsTable(counter)
BY RoundsOfOne DEF counter, IsTable

\* c/cloud.c and c/retrieving.cc.
LEMMA CloudTables == IsTable(cloud) /\ IsTable(retrieving)
BY QuietIsSingle, RoundsOfOne DEF cloud, retrieving, IsTable

\* c/expiration.cc: it sleeps after three rounds, and not after the last one.
LEMMA ExpirationTable == IsTable(expiration)
<1>1. \A R, n : Single(R) /\ n \in Nat => Single(Nap(R, n)) /\ Nap(R, n).nap = n
  BY DEF Nap, Single, Fields
<1> DEFINE some == Value("some")
<1>2. /\ Len(expiration) = 9 /\ DOMAIN expiration = 1 .. 9
      /\ expiration[1] = Quiet(Write("set", docid, some, 2))
      /\ expiration[2] = Nap(Shows(Op("get", docid), some), 4)
      /\ expiration[3] = Says(TouchOp("touch", docid, 0), "KEY_ENOENT")
      /\ expiration[4] = Quiet(Write("set", docid, some, 0))
      /\ expiration[5] = Nap(Shows(TouchOp("get_and_touch", docid, 1), some), 4)
      /\ expiration[6] = Says(Op("get", docid), "KEY_ENOENT")
      /\ expiration[7] = Quiet(Write("set", docid, some, 0))
      /\ expiration[8] = Nap(Says(TouchOp("touch", docid, 1), "SUCCESS"), 4)
      /\ expiration[9] = Says(Op("get", docid), "KEY_ENOENT")
  BY DEF expiration
<1> HIDE DEF some
<1>3. \A r \in {1, 3, 4, 6, 7, 9} : Single(expiration[r]) /\ expiration[r].nap = 0
  BY <1>2, QuietIsSingle, RoundsOfOne
<1>4. \A r \in {2, 5, 8} : Single(expiration[r]) /\ expiration[r].nap = 4
  BY <1>1, <1>2, RoundsOfOne
<1> QED
  BY <1>2, <1>3, <1>4 DEF IsTable

\* c/updating.c.
LEMMA UpdatingTable == IsTable(updating)
<1> DEFINE property == Value("property")
           first == Says(Write("set", docid, property, 0), "SUCCESS")
<1>1. /\ Len(updating) = 3 /\ DOMAIN updating = 1 .. 3
      /\ updating[1] = [first EXCEPT !.unscheduled = "exit"]
      /\ updating[2] = Says(Write("add", docid, property, 0), "KEY_EEXISTS")
      /\ updating[3] = Says(Write("replace", docid, property, 0), "SUCCESS")
  BY DEF updating
<1>2. Single(first) /\ first.nap = 0
  BY RoundsOfOne
<1> HIDE DEF first, property
<1>3. Single(updating[1]) /\ updating[1].nap = 0
  BY <1>1, <1>2 DEF Single, Fields
<1>4. Single(updating[2]) /\ updating[2].nap = 0
  BY <1>1, RoundsOfOne
<1>5. Single(updating[3]) /\ updating[3].nap = 0
  BY <1>1, RoundsOfOne
<1> QED
  BY <1>1, <1>3, <1>4, <1>5 DEF IsTable

\* c/durability.cc.
LEMMA DurabilityTable == IsTable(durability)
<1> DEFINE list == Value("[1,2,3]")
           first == Quiet(Write("storedur", docid, list, 0))
           second == Quiet(Write("store_and_endure", docid, list, 0))
<1>1. durability = <<first, second>>
  BY Zenon DEF durability
<1>2. Single(first) /\ first.nap = 0 /\ Single(second) /\ second.nap = 0
  BY QuietIsSingle
<1> HIDE DEF first, second
<1> QED
  BY <1>1, <1>2 DEF IsTable

\* The queries and the flush, of one operation each.
LEMMA QueryTables ==
  /\ IsTable(query_create_index) /\ IsTable(n1ql_create_primary_index) /\ IsTable(query_criteria)
  /\ IsTable(flush)
BY QuietIsSingle DEF query_create_index, n1ql_create_primary_index, query_criteria, flush, IsTable

\* c/query-consistency.cc.
LEMMA ConsistencyTable == ASSUME NEW n PROVE IsTable(query_consistency(n))
BY RoundsOfOne DEF query_consistency, IsTable

\* c/query-atplus.cc.
LEMMA AtplusTable == ASSUME NEW n PROVE IsTable(query_atplus(n))
<1> DEFINE first == Quiet(Write("set", User(n), Value("Brass"), 0))
           second == ShowsRow(QueryOp("default", "at_plus"), User(n))
<1>1. /\ Len(query_atplus(n)) = 2 /\ DOMAIN query_atplus(n) = 1 .. 2
      /\ query_atplus(n)[1] = [first EXCEPT !.failed = "exit"]
      /\ query_atplus(n)[2] = [second EXCEPT !.unscheduled = "abort"]
  BY DEF query_atplus
<1>2. Single(first) /\ first.nap = 0 /\ Single(second) /\ second.nap = 0
  BY QuietIsSingle, RoundsOfOne
<1> HIDE DEF first, second
<1>3. Single(query_atplus(n)[1]) /\ query_atplus(n)[1].nap = 0
  BY <1>1, <1>2 DEF Single, Fields
<1>4. Single(query_atplus(n)[2]) /\ query_atplus(n)[2].nap = 0
  BY <1>1, <1>2 DEF Single, Fields
<1>5. \A r \in 1 .. 2 : r = 1 \/ r = 2
  OBVIOUS
<1> DEFINE T == query_atplus(n)
<1>6. Len(T) = 2 /\ DOMAIN T = 1 .. 2 /\ \A r \in 1 .. 2 : Single(T[r]) /\ T[r].nap = 0
  BY <1>1, <1>3, <1>4, <1>5
<1> HIDE DEF T
<1>7. IsTable(T)
  BY <1>6 DEF IsTable
<1> QED
  BY <1>7 DEF T

\* c/query-placeholders.cc.
LEMMA PlaceholdersTable == IsTable(query_placeholders)
<1> DEFINE first == Quiet(QueryOp("travel-sample", "not_bounded"))
<1>1. Single(first) /\ first.nap = 0 /\ query_city = [first EXCEPT !.unscheduled = "exit"]
  BY QuietIsSingle DEF query_city
<1> HIDE DEF first
<1>2. Single(query_city) /\ query_city.nap = 0
  BY <1>1, Settings
<1> QED
  BY <1>2 DEF query_placeholders, IsTable

\* c/fts-basic.cc.
LEMMA FtsTable == IsTable(fts_basic)
<1> DEFINE first == Quiet(QueryOp("beer-sample", "not_bounded"))
           row == [first EXCEPT !.unscheduled = "abort"]
<1>1. Single(first) /\ first.nap = 0 /\ fts_basic = <<row>>
  BY QuietIsSingle DEF fts_basic
<1> HIDE DEF first
<1>2. Single(row) /\ row.nap = 0
  BY <1>1 DEF Single, Fields
<1> HIDE DEF row
<1> QED
  BY <1>1, <1>2 DEF IsTable

\* c/create-remove-bucket.cc.
LEMMA BucketTable == IsTable(create_remove_bucket)
<1> DEFINE first == Quiet(Write("create", newBucket, NoBody, 0))
           second == Says(Op("remove", newBucket), "SUCCESS")
<1>1. create_remove_bucket = <<first, second>>
  BY Zenon DEF create_remove_bucket
<1>2. Single(first) /\ first.nap = 0
  BY QuietIsSingle
<1>3. Single(second) /\ second.nap = 0
  BY RoundsOfOne
<1> HIDE DEF first, second
<1> QED
  BY <1>1, <1>2, <1>3 DEF IsTable

\* c/subdoc-retrieving.cc.
LEMMA LookupTable == IsTable(subdoc_retrieving)
<1> DEFINE first == Quiet(LookupOp(a_key, {"email", "array[1]", "non-exist"}))
           codes == {"MULTI_FAILURE"}
           body == [path \in {"email", "array[1]"} |-> Person(3)[path]]
           second == [[[first EXCEPT !.says = codes] EXCEPT !.asserts = codes] EXCEPT !.shows = body]
<1>1. Single(first) /\ first.nap = 0
  BY QuietIsSingle
<1>2. /\ Len(subdoc_retrieving) = 2 /\ DOMAIN subdoc_retrieving = 1 .. 2
      /\ subdoc_retrieving[1] = Unheard(Write("set", a_key, subdoc_retrieving_Stores, 0))
      /\ subdoc_retrieving[2] = second
  BY DEF subdoc_retrieving
<1> HIDE DEF first, codes, body
<1>3. Single(second) /\ second.nap = 0
  <2>1. Single([first EXCEPT !.says = codes]) /\ [first EXCEPT !.says = codes].nap = 0
    BY <1>1, Settings
  <2> QED
    BY <2>1 DEF Single, Fields
<1> HIDE DEF second
<1>4. Single(subdoc_retrieving[1]) /\ subdoc_retrieving[1].nap = 0
  BY <1>2, RoundsOfOne
<1> QED
  BY <1>2, <1>3, <1>4 DEF IsTable

\* c/subdoc-updating.cc.
LEMMA MutationTable == IsTable(subdoc_updating)
<1> DEFINE many == MutateOp(a_key, <<PathSpec("array", {"array"}, {}, 1),
                                     PathSpec("array[0]", {"array[0]"}, {}, 99),
                                     PathSpec("description", {}, {"description"}, 0)>>)
           deep == MutateOp(a_key, <<PathSpec("some.deep.path", {"some.deep"}, {"some.deep.path"}, 0)>>)
           made == MutateOp(a_key, <<PathSpec("some.deep.path", {},
                                              {"some", "some.deep", "some.deep.path"}, 0)>>)
           body == [path \in {"array", "array[0]", "description"} |->
                      CASE path = "array" -> 5 [] path = "array[0]" -> 100 [] path = "description" -> 0]
           r1 == Unheard(Write("set", a_key, Person(4), 0))
           r2 == [Says(many, "SUCCESS") EXCEPT !.asserts = {"SUCCESS"}]
           r3 == [Says(Op("get", a_key), "SUCCESS")
                    EXCEPT !.asserts = {"SUCCESS"}, !.asserted_by = "callback", !.shows = body]
           status == [path \in {"some.deep.path"} |-> "PATH_ENOENT"]
           r4 == [Says(deep, "MULTI_FAILURE") EXCEPT !.shows = status]
           r5 == Says(made, "SUCCESS")
<1>1. subdoc_updating = <<r1, r2, r3, r4, r5>>
  BY Zenon DEF subdoc_updating
<1> HIDE DEF many, deep, made, body, status
<1>2. Single(r1) /\ r1.nap = 0 /\ Single(r5) /\ r5.nap = 0
  BY RoundsOfOne
<1>3. Single(r2) /\ r2.nap = 0
  <2>1. Single(Says(many, "SUCCESS")) /\ Says(many, "SUCCESS").nap = 0
    BY RoundsOfOne
  <2> QED
    BY <2>1 DEF Single, Fields
<1>4. Single(r3) /\ r3.nap = 0
  <2>1. Single(Says(Op("get", a_key), "SUCCESS")) /\ Says(Op("get", a_key), "SUCCESS").nap = 0
    BY RoundsOfOne
  <2> QED
    BY <2>1 DEF Single, Fields
<1>5. Single(r4) /\ r4.nap = 0
  <2>1. Single(Says(deep, "MULTI_FAILURE")) /\ Says(deep, "MULTI_FAILURE").nap = 0
    BY RoundsOfOne
  <2> QED
    BY <2>1 DEF Single, Fields
<1> HIDE DEF r1, r2, r3, r4, r5
<1> QED
  BY <1>1, <1>2, <1>3, <1>4, <1>5 DEF IsTable

\* c/bulk-get.cc and c/bulk-store.cc are one batch each.
LEMMA BulkTables == IsTable(bulk_get) /\ IsTable(bulk_store)
<1>1. ASSUME NEW ops, Len(ops) = 3, DOMAIN ops = 1 .. 3, \A i \in 1 .. 3 : ops[i].does \in {"get", "set"}
      PROVE  IsBatch(Batch(ops)) /\ Batch(ops).nap = 0
  <2>1. /\ Batch(ops).ops = ops /\ Batch(ops).callback = TRUE /\ Batch(ops).nap = 0
    BY DEF Batch, Round
  <2>2. \A i \in 1 .. 3 : ops[i].does \notin Durable
    BY <1>1 DEF Durable
  <2> DEFINE b == Batch(ops)
  <2>3. /\ b.ops = ops /\ b.callback /\ b.nap = 0
    BY Zenon, <2>1
  <2> HIDE DEF b
  <2>4. /\ Len(b.ops) = 3 /\ DOMAIN b.ops = 1 .. 3 /\ \A i \in 1 .. 3 : b.ops[i].does \notin Durable
    BY Zenon, <1>1, <2>2, <2>3
  <2>5. \A i \in DOMAIN b.ops : b.ops[i].does \notin Durable
    BY Zenon, <2>4
  <2>6. Len(b.ops) \in Nat /\ DOMAIN b.ops = 1 .. Len(b.ops)
    BY <2>4
  <2>7. IsBatch(b) /\ b.nap = 0
    BY Zenon, <2>3, <2>5, <2>6 DEF IsBatch
  <2> QED
    BY Zenon, <2>7 DEF b
<1>2. IsTable(bulk_get)
  <2> DEFINE ops == [i \in 1..3 |-> Op("get", Key("default", <<"foo", "bar", "baz">>[i]))]
             row == Batch(ops)
  <2>1. bulk_get = <<row>>
    BY Zenon DEF bulk_get
  <2>2. Len(ops) = 3 /\ DOMAIN ops = 1 .. 3
    OBVIOUS
  <2>3. \A i \in 1 .. 3 : ops[i].does \in {"get", "set"}
    BY DEF Op
  <2> HIDE DEF ops
  <2>4. IsBatch(row) /\ row.nap = 0
    BY <1>1, <2>2, <2>3
  <2> HIDE DEF row
  <2> QED
    BY <2>1, <2>4 DEF IsTable
<1>3. IsTable(bulk_store)
  <2> DEFINE keys == <<"bar", "baz", "foo">>
             ops == [i \in 1..3 |-> Write("set", Key("default", keys[i]), Value(keys[i]), 0)]
             row == Batch(ops)
  <2>1. bulk_store = <<row>>
    BY Zenon DEF bulk_store
  <2>2. Len(ops) = 3 /\ DOMAIN ops = 1 .. 3
    OBVIOUS
  <2>3. \A i \in 1 .. 3 : ops[i].does \in {"get", "set"}
    BY DEF Write
  <2> HIDE DEF ops
  <2>4. IsBatch(row) /\ row.nap = 0
    BY <1>1, <2>2, <2>3
  <2> HIDE DEF row
  <2> QED
    BY <2>1, <2>4 DEF IsTable
<1> QED
  BY <1>2, <1>3

\* All the programs are of that form; those that go on without a connection do something.
LEMMA AllTables ==
  ASSUME NEW p \in Names \X Nat
  PROVE  /\ IsTable(Table(p[1], p[2]))
         /\ p[1] \in {"flush", "query_atplus"} => Len(Table(p[1], p[2])) # 0
<1> DEFINE name == p[1]
           n == p[2]
<1>1. name \in Names
  OBVIOUS
<1>2. IsTable(<<>>)
  BY DEF IsTable
<1> HIDE DEF name, n
<1>3. IsTable(Table(name, n))
  <2>1. CASE name \in {"counter", "expiration", "updating", "retrieving", "cloud"}
    BY <2>1, CounterTable, ExpirationTable, UpdatingTable, CloudTables DEF Table
  <2>2. CASE name \in {"subdoc_retrieving", "subdoc_updating", "bulk_get", "bulk_store", "durability"}
    BY <2>2, LookupTable, MutationTable, BulkTables, DurabilityTable DEF Table
  <2>3. CASE name \in {"query_consistency", "query_atplus", "query_create_index",
                       "n1ql_create_primary_index", "query_criteria"}
    BY <2>3, ConsistencyTable, AtplusTable, QueryTables DEF Table
  <2>4. CASE name \in {"query_placeholders", "fts_basic", "flush", "create_remove_bucket", "connecting"}
    BY <1>2, <2>4, PlaceholdersTable, FtsTable, QueryTables, BucketTable DEF Table
  <2> QED
    BY <1>1, <2>1, <2>2, <2>3, <2>4 DEF Names
<1>4. name = "flush" => Len(Table(name, n)) # 0
  BY DEF Table, flush
<1>5. name = "query_atplus" => Len(Table(name, n)) # 0
  BY DEF Table, query_atplus
<1> QED
  BY <1>3, <1>4, <1>5 DEF name, n
-----------------------------------------------------------------------------
(* The invariant. *)

\* Some sequence.
IsSequence(s) == \E S : s \in Seq(S)

\* The mutation of p in round r, as By(p) has it.
Stamp(p, r) == <<p[1], p[2], r>>

\* Round r of p asks for a durable write.
DurableRound(p, r) ==
  /\ r \in DOMAIN Rounds[p]
  /\ \E i \in DOMAIN Rounds[p][r].ops : Rounds[p][r].ops[i].does \in Durable

\* The operations that were answered.
Heard(heard) == {heard[i].op : i \in DOMAIN heard}

\* Every operation of the batch is either waited for or answered, or none is.
Settled(ops, left, heard) ==
  \/ left = {} /\ heard = <<>>
  \/ Len(heard) + Cardinality(left) = Len(ops) /\ Heard(heard) \cup left = DOMAIN ops

\* What a program waits for, has heard and sleeps, at each place of its main.
Fits(p, at, r, left, ends, secs, heard) ==
  /\ r \in Nat /\ left \in SUBSET Nat /\ secs \in Nat /\ IsSequence(heard) /\ ends \subseteq Uses[p]
  /\ at \in {"ready", "waiting", "napping"} => r \in DOMAIN Rounds[p]
  /\ at = "boot" => r = 1
  /\ at \in {"boot", "ready", "napping"} => left = {} /\ ends = {} /\ heard = <<>>
  /\ at = "napping" => secs > 0 /\ Rounds[p][r].nap > 0
  /\ at # "napping" => secs = 0
  /\ at = "waiting" => left \subseteq DOMAIN Rounds[p][r].ops
  /\ ends # {} => at = "waiting" /\ left = {} /\ DurableRound(p, r)
  /\ at = "waiting" /\ Rounds[p][r].unscheduled = "batch" => Settled(Rounds[p][r].ops, left, heard)

\* The variables have an entry for every program.
Maps == /\ run \in Scenarios
        /\ DOMAIN pc = run /\ DOMAIN round = run /\ DOMAIN todo = run /\ DOMAIN enduring = run
        /\ DOMAIN nap = run /\ DOMAIN answers = run

\* Every program is at a place of its main that fits what it holds.
Stages == \A p \in run : Fits(p, pc[p], round[p], todo[p], enduring[p], nap[p], answers[p])

\* A document.
Shaped(d) == DOMAIN d = {"there", "body", "life", "by"}

\* What is stored durably does not expire.
ForEver(d) ==
  \A p \in Programs : \A r \in Nat : DurableRound(p, r) /\ d.by = Stamp(p, r) => d.life = 0

\* Every document of the programs is held, by both nodes.
Documents == /\ DOMAIN docs = KeysOf(run) /\ DOMAIN backup = KeysOf(run) /\ DOMAIN latest = KeysOf(run)
             /\ \A k \in KeysOf(run) : /\ Shaped(docs[k]) /\ ForEver(docs[k])
                                       /\ Shaped(backup[k]) /\ ForEver(backup[k])

\* The write of round r is over.
Over(r, at, now, left) == r < now \/ (r = now /\ left = {} /\ at \notin {"boot", "ready"})

\* A promise is about a write that is over: nobody will repeat it.
Promises ==
  \A m \in promised :
    /\ m.key \in KeysOf(run)
    /\ \E p \in run : \E r \in Nat : /\ m.by = Stamp(p, r) /\ DurableRound(p, r)
                                   /\ Over(r, pc[p], round[p], todo[p])

\* It is kept while the write is the latest one, and the replica has it as long as
\* the active node does.
Held ==
  \A m \in promised : /\ latest[m.key] = m.by => docs[m.key].by = m.by
                      /\ docs[m.key].by = m.by => backup[m.key].by = m.by

\* The inductive invariant.
IInv == Maps /\ Stages /\ Documents /\ Promises /\ Held
-----------------------------------------------------------------------------
(* Programs, rounds and stamps. *)

\* The programs that are run have such tables.
LEMMA ProgramsHaveTables ==
  ASSUME run \in Scenarios, NEW p \in run
  PROVE  /\ p \in Programs /\ p \in Names \X Nat
         /\ IsTable(Rounds[p])
         /\ p[1] \in {"flush", "query_atplus"} => Len(Rounds[p]) # 0
<1>1. p \in Programs /\ p \in Names \X Nat
  BY ScenariosAssumption DEF Programs
<1>2. Rounds[p] = Table(p[1], p[2])
  BY <1>1 DEF Rounds
<1> QED
  BY <1>1, <1>2, AllTables

\* What is known of a round: a sleep is not the end, a batch hears its answers and is not
\* durable, and a durable round has one operation.
LEMMA RoundsOfATable ==
  ASSUME NEW p, IsTable(Rounds[p]), NEW r \in DOMAIN Rounds[p]
  PROVE  /\ r \in 1 .. Len(Rounds[p]) /\ Len(Rounds[p]) \in Nat
         /\ Len(Rounds[p][r].ops) \in Nat /\ DOMAIN Rounds[p][r].ops = 1 .. Len(Rounds[p][r].ops)
         /\ Rounds[p][r].nap \in Nat
         /\ Rounds[p][r].nap > 0 => r < Len(Rounds[p])
         /\ Rounds[p][r].unscheduled = "batch" => Rounds[p][r].callback
         /\ DurableRound(p, r) => /\ Rounds[p][r].unscheduled # "batch"
                                  /\ DOMAIN Rounds[p][r].ops = {1}
                                  /\ \A i \in DOMAIN Rounds[p][r].ops : Rounds[p][r].ops[i].does \in Durable
<1> DEFINE R == Rounds[p][r]
<1>1. r \in 1 .. Len(Rounds[p]) /\ Len(Rounds[p]) \in Nat /\ (R.nap > 0 => r < Len(Rounds[p]))
  BY DEF IsTable
<1>2. CASE Single(R)
  <2>1. \A i, j \in DOMAIN R.ops : i = j
    BY <1>2 DEF Single
  <2>2. /\ Len(R.ops) = 1 /\ DOMAIN R.ops = 1 .. 1 /\ DOMAIN R.ops = {1}
        /\ R.unscheduled # "batch" /\ R.nap \in Nat
    BY <1>2 DEF Single
  <2> QED
    BY <1>1, <2>1, <2>2 DEF DurableRound
<1>3. CASE IsBatch(R)
  <2>1. /\ Len(R.ops) \in Nat /\ DOMAIN R.ops = 1 .. Len(R.ops) /\ R.callback /\ R.nap = 0
        /\ \A i \in DOMAIN R.ops : R.ops[i].does \notin Durable
    BY <1>3 DEF IsBatch
  <2> QED
    BY <1>1, <2>1 DEF DurableRound
<1> QED
  BY <1>2, <1>3 DEF IsTable

\* The documents of the operations are those their programs use.
LEMMA KeysAreUsed ==
  ASSUME run \in Scenarios, NEW p \in run, NEW r \in DOMAIN Rounds[p], NEW i \in DOMAIN Rounds[p][r].ops,
         Rounds[p][r].ops[i].does # "flush"
  PROVE  Rounds[p][r].ops[i].key \in Uses[p] /\ Rounds[p][r].ops[i].key \in KeysOf(run)
<1> DEFINE o == Rounds[p][r].ops[i]
<1>1. p \in Programs
  BY DEF Programs
<1>2. o \in OpsOf[p]
  BY <1>1 DEF OpsOf, ToSet
<1>3. o.key \in Uses[p]
  BY <1>1, <1>2 DEF Uses
<1> QED
  BY <1>3 DEF KeysOf

\* A name and a number.
IsProgram(p) == p \in Names \X Nat

\* A mutation tells its program and its round.
LEMMA SameStamp ==
  ASSUME NEW p, NEW q, IsProgram(p), IsProgram(q), NEW r, NEW s, Stamp(p, r) = Stamp(q, s)
  PROVE  p = q /\ r = s
<1>1. p[1] = q[1] /\ p[2] = q[2] /\ r = s
  BY DEF Stamp
<1> QED
  BY <1>1 DEF IsProgram

\* Neither expiry nor an earlier run has the stamp of a program.
LEMMA Stamps ==
  ASSUME NEW p \in Names \X Nat, NEW q \in Names \X Nat, NEW r, NEW s
  PROVE  /\ Stamp(p, r) = Stamp(q, s) => p = q /\ r = s
         /\ Stamp(p, r) # <<"expiry", 0, 0>> /\ Stamp(p, r) # <<"earlier", 0, 0>>
<1>1. Stamp(p, r) = Stamp(q, s) => p = q /\ r = s
  BY SameStamp DEF IsProgram
<1>2. p[1] # "expiry" /\ p[1] # "earlier"
  BY DEF Names
<1> QED
  BY <1>1, <1>2 DEF Stamp

\* What an operation does to a document.
LEMMA HandleStamps ==
  ASSUME NEW op, op.does \in Simple, NEW d, Shaped(d), NEW by
  PROVE  LET e == Handle(op, d, by).doc IN e = d \/ (Shaped(e) /\ e.by = by)
<1> DEFINE Good(x) == x.doc = d \/ (Shaped(x.doc) /\ x.doc.by = by)
<1>1. \A rc, body, life : Good(Done(Doc(body, life, by), rc, body)) /\ Good(Done(d, rc, body))
  BY DEF Done, Doc, Shaped
<1>2. Good(Set(op, d, by))
  BY DEF Set, Done, Doc, Shaped
<1>3. \A rc : Good(Fails(d, rc))
  BY DEF Fails, Done
<1>4. \A x : Good(x) => Good(IfThere(d, x))
  BY <1>3 DEF IfThere
<1>5. Good(Add(op, d, by)) /\ Good(Create(op, d, by))
  BY <1>2, <1>3 DEF Add, Create
<1>6. Good(Replace(op, d, by))
  BY <1>2, <1>4 DEF Replace
<1>7. Good(RemoveDoc(d, by))
  <2>1. Good(Done(Gone(by), "SUCCESS", NoBody))
    BY DEF Done, Gone, Shaped
  <2> QED
    BY <1>4, <2>1 DEF RemoveDoc
<1>8. Good(Get(d))
  <2>1. Good(Done(d, "SUCCESS", d.body))
    BY DEF Done
  <2> QED
    BY <1>4, <2>1 DEF Get
<1>9. \A life, body : Good(Done([d EXCEPT !.life = life, !.by = by], "SUCCESS", body))
  BY DEF Done, Shaped
<1>10. Good(Touch(op, d, by)) /\ Good(GetAndTouch(op, d, by))
  BY <1>4, <1>9 DEF Touch, GetAndTouch
<1>11. \A body, said, rc : Good(Done([d EXCEPT !.body = body, !.by = by], rc, said))
  BY DEF Done, Shaped
<1>12. Good(Counter(op, d, by))
  <2>1. \A body, life, rc, said : Good(Done(Doc(body, life, by), rc, said))
    BY DEF Done, Doc, Shaped
  <2> QED
    BY <1>3, <1>11, <2>1 DEF Counter
<1>13. Good(Lookup(op, d))
  <2>1. \A rc, said : Good(Done(d, rc, said))
    BY DEF Done
  <2> QED
    BY <1>4, <2>1 DEF Lookup
<1>14. Good(Mutate(op, d, by))
  <2> DEFINE status == [path \in {op.specs[i].path : i \in {j \in DOMAIN op.specs : FailsAt(op, d, j)}}
                          |-> "PATH_ENOENT"]
             made == Done([d EXCEPT !.body = After(op, d, Len(op.specs)), !.by = by], "SUCCESS", NoBody)
             refused == Done(d, "MULTI_FAILURE", status)
  <2>1. Mutate(op, d, by) = IfThere(d, IF Possible(op, d) THEN made ELSE refused)
    BY Zenon DEF Mutate
  <2> HIDE DEF status
  <2>2. Good(made)
    BY <1>11
  <2>3. Good(refused)
    BY <1>1
  <2> HIDE DEF made, refused, Good
  <2> QED
    BY <1>4, <2>1, <2>2, <2>3
<1> HIDE DEF Good
<1>15. Good(Handle(op, d, by))
  BY <1>2, <1>5, <1>6, <1>7, <1>8, <1>10, <1>12, <1>13, <1>14 DEF Handle, Simple
<1> QED
  BY <1>15 DEF Good
-----------------------------------------------------------------------------
(* What is heard. *)

\* Nothing was heard yet.
LEMMA NothingHeard == IsSequence(<<>>) /\ Len(<<>>) = 0 /\ Heard(<<>>) = {}
<1>1. \A S : <<>> \in Seq(S) /\ Len(<<>>) = 0
  BY EmptySeq
<1> QED
  BY <1>1 DEF IsSequence, Heard

\* One more answer.
LEMMA OneMoreHeard ==
  ASSUME NEW heard, IsSequence(heard), NEW i, NEW rc, NEW body
  PROVE  LET more == Append(heard, [op |-> i, rc |-> rc, body |-> body])
         IN /\ IsSequence(more)
            /\ Len(heard) \in Nat /\ Len(more) = Len(heard) + 1
            /\ Heard(more) = Heard(heard) \cup {i}
<1> DEFINE a == [op |-> i, rc |-> rc, body |-> body]
           more == Append(heard, a)
<1>1. PICK S : heard \in Seq(S)
  BY DEF IsSequence
<1>2. a.op = i
  OBVIOUS
<1> HIDE DEF a
<1>3. heard \in Seq(S \cup {a})
  BY <1>1, SeqMonotonic, Zenon
<1>4. /\ more \in Seq(S \cup {a}) /\ Len(heard) \in Nat /\ Len(more) = Len(heard) + 1
      /\ DOMAIN heard = 1 .. Len(heard) /\ DOMAIN more = 1 .. Len(heard) + 1
      /\ \A j \in 1 .. Len(heard) : more[j] = heard[j]
      /\ more[Len(heard) + 1] = a
  BY <1>3
<1> HIDE DEF more
<1>5. Heard(more) = Heard(heard) \cup {i}
  <2>1. \A j \in DOMAIN more : j \in DOMAIN heard \/ j = Len(heard) + 1
    BY <1>4
  <2>2. \A j \in DOMAIN heard : j \in DOMAIN more /\ more[j].op = heard[j].op
    BY <1>4
  <2>3. Len(heard) + 1 \in DOMAIN more /\ more[Len(heard) + 1].op = i
    BY <1>2, <1>4
  <2>4. ASSUME NEW x \in Heard(more) PROVE x \in Heard(heard) \cup {i}
    <3>1. PICK j \in DOMAIN more : x = more[j].op
      BY DEF Heard
    <3>2. CASE j \in DOMAIN heard
      BY <2>2, <3>1, <3>2 DEF Heard
    <3>3. CASE j = Len(heard) + 1
      BY <2>3, <3>1, <3>3
    <3> QED
      BY <2>1, <3>2, <3>3
  <2>5. ASSUME NEW x \in Heard(heard) PROVE x \in Heard(more)
    BY <2>2 DEF Heard
  <2>6. i \in Heard(more)
    BY <2>3 DEF Heard
  <2> QED
    BY <2>4, <2>5, <2>6
<1>6. IsSequence(more)
  BY <1>4 DEF IsSequence
<1> QED
  BY <1>4, <1>5, <1>6 DEF more, a

\* An answer of a batch is kept: it is waited for, or it was answered.
LEMMA SettledGoesOn ==
  ASSUME NEW ops, Len(ops) \in Nat, DOMAIN ops = 1 .. Len(ops),
         NEW left \in SUBSET DOMAIN ops, NEW i \in left,
         NEW heard, IsSequence(heard), Settled(ops, left, heard), NEW rc, NEW body
  PROVE  Settled(ops, left \ {i}, Append(heard, [op |-> i, rc |-> rc, body |-> body]))
<1> DEFINE more == Append(heard, [op |-> i, rc |-> rc, body |-> body])
<1>1. Len(heard) \in Nat /\ Len(more) = Len(heard) + 1 /\ Heard(more) = Heard(heard) \cup {i}
  BY OneMoreHeard
<1>2. Len(heard) + Cardinality(left) = Len(ops) /\ Heard(heard) \cup left = DOMAIN ops
  BY DEF Settled
<1>3. IsFiniteSet(1 .. Len(ops))
  BY FS_Interval
<1>4. IsFiniteSet(left)
  BY <1>3, FS_Subset
<1>5. Cardinality(left \ {i}) = Cardinality(left) - 1 /\ Cardinality(left) \in Nat
  BY <1>4, FS_RemoveElement, FS_CardinalityType
<1> HIDE DEF more
<1>6. Len(more) + Cardinality(left \ {i}) = Len(ops)
  BY <1>1, <1>2, <1>5
<1>7. Heard(more) \cup (left \ {i}) = DOMAIN ops
  BY <1>1, <1>2
<1>8. Settled(ops, left \ {i}, more)
  BY <1>6, <1>7 DEF Settled
<1> QED
  BY <1>8 DEF more

\* At first every operation of a batch is waited for.
LEMMA SettledAtFirst ==
  ASSUME NEW ops, Len(ops) \in Nat, DOMAIN ops = 1 .. Len(ops)
  PROVE  Settled(ops, DOMAIN ops, <<>>)
<1> DEFINE n == Len(ops)
<1>1. 1 \in Int /\ n \in Int
  OBVIOUS
<1>2. n \in Nat /\ DOMAIN ops = 1 .. n
  OBVIOUS
<1> HIDE DEF n
<1>3. Cardinality(1 .. n) = IF 1 > n THEN 0 ELSE n - 1 + 1
  BY Zenon, <1>1, FS_Interval
<1>4. Cardinality(1 .. n) = n
  BY <1>2, <1>3
<1>5. Len(<<>>) + Cardinality(DOMAIN ops) = n
  BY <1>2, <1>4, NothingHeard
<1>6. Heard(<<>>) \cup DOMAIN ops = DOMAIN ops
  BY NothingHeard
<1> QED
  BY Zenon, <1>5, <1>6 DEF Settled, n
-----------------------------------------------------------------------------
(* Steps of one program. *)

\* The other programs stay where they are.
Others(p) ==
  \A q \in run \ {p} : /\ pc'[q] = pc[q] /\ round'[q] = round[q] /\ todo'[q] = todo[q]
                       /\ enduring'[q] = enduring[q] /\ nap'[q] = nap[q] /\ answers'[q] = answers[q]

\* Where the others stay it is enough to look at the program that moves.
LEMMA OneMoves ==
  ASSUME Stages, NEW p \in run, run' = run, Others(p),
         Fits(p, pc'[p], round'[p], todo'[p], enduring'[p], nap'[p], answers'[p])
  PROVE  Stages'
<1> SUFFICES ASSUME NEW q \in run
             PROVE  Fits(q, pc'[q], round'[q], todo'[q], enduring'[q], nap'[q], answers'[q])
  BY DEF Stages
<1>1. CASE q # p
  BY <1>1 DEF Others, Stages
<1>2. CASE q = p
  BY <1>2
<1> QED
  BY <1>1, <1>2

\* Promises stay promises when what was over stays over.
LEMMA PromisesStay ==
  ASSUME Promises, NEW p \in run, run' = run, Others(p), promised' = promised,
         \A r \in Nat : Over(r, pc[p], round[p], todo[p]) => Over(r, pc'[p], round'[p], todo'[p])
  PROVE  Promises'
<1> SUFFICES ASSUME NEW m \in promised
             PROVE  /\ m.key \in KeysOf(run)
                    /\ \E q \in run : \E r \in Nat : /\ m.by = Stamp(q, r) /\ DurableRound(q, r)
                                                   /\ Over(r, pc'[q], round'[q], todo'[q])
  BY DEF Promises
<1>1. PICK q \in run : \E r \in Nat : /\ m.by = Stamp(q, r) /\ DurableRound(q, r)
                                       /\ Over(r, pc[q], round[q], todo[q])
  BY DEF Promises
<1>2. PICK r \in Nat : m.by = Stamp(q, r) /\ DurableRound(q, r) /\ Over(r, pc[q], round[q], todo[q])
  BY <1>1
<1>3. Over(r, pc'[q], round'[q], todo'[q])
  <2>1. CASE q = p
    BY <1>2, <2>1
  <2>2. CASE q # p
    BY <1>2, <2>2 DEF Others
  <2> QED
    BY <2>1, <2>2
<1>4. m.key \in KeysOf(run)
  BY DEF Promises
<1> QED
  BY <1>2, <1>3, <1>4
-----------------------------------------------------------------------------
(* Steps that change a document. *)

\* A mutation that is still waited for was not promised.
LEMMA NotPromised ==
  ASSUME run \in Scenarios, Promises, NEW p \in run, round[p] \in Nat, todo[p] # {}, NEW m \in promised
  PROVE  m.by # By(p)
<1> SUFFICES ASSUME m.by = By(p) PROVE FALSE
  OBVIOUS
<1>1. PICK q \in run : \E r \in Nat : m.by = Stamp(q, r) /\ Over(r, pc[q], round[q], todo[q])
  BY DEF Promises
<1>2. PICK r \in Nat : m.by = Stamp(q, r) /\ Over(r, pc[q], round[q], todo[q])
  BY <1>1
<1>3. IsProgram(p) /\ IsProgram(q)
  BY ScenariosAssumption DEF IsProgram
<1>4. By(p) = Stamp(p, round[p])
  BY DEF By, Stamp
<1>5. Stamp(q, r) = Stamp(p, round[p])
  BY Zenon, <1>2, <1>4
<1>6. q = p /\ r = round[p]
  BY Zenon, <1>3, <1>5, SameStamp
<1> QED
  BY <1>2, <1>6 DEF Over

\* What a program stores does not expire when its round is to be durable.
LEMMA StoredForEver ==
  ASSUME run \in Scenarios, NEW p \in run, NEW d, d.by = By(p),
         DurableRound(p, round[p]) => d.life = 0
  PROVE  ForEver(d)
<1> SUFFICES ASSUME NEW q \in Programs, NEW r \in Nat, DurableRound(q, r), d.by = Stamp(q, r)
             PROVE  d.life = 0
  BY DEF ForEver
<1>1. IsProgram(p) /\ IsProgram(q)
  BY ScenariosAssumption DEF Programs, IsProgram
<1>2. By(p) = Stamp(p, round[p])
  BY DEF By, Stamp
<1>3. Stamp(q, r) = Stamp(p, round[p])
  BY Zenon, <1>2
<1>4. q = p /\ r = round[p]
  BY <1>1, <1>3, SameStamp
<1> QED
  BY Zenon, <1>4

\* A write of a new mutation breaks no promise.
LEMMA WriteKeeps ==
  ASSUME run' = run, Documents, Held, promised' = promised,
         NEW p, NEW k, NEW d, Put(p, k, d), Shaped(d), ForEver(d),
         \A m \in promised : m.key \in KeysOf(run) /\ m.by # d.by
  PROVE  Documents' /\ Held'
<1>1. /\ docs' = [docs EXCEPT ![k] = d] /\ latest' = [latest EXCEPT ![k] = d.by] /\ backup' = backup
      /\ DOMAIN docs = KeysOf(run) /\ DOMAIN latest = KeysOf(run)
  BY DEF Put, Documents
<1>2. DOMAIN docs' = DOMAIN docs /\ DOMAIN latest' = DOMAIN latest
  BY Zenon, <1>1
<1>3. \A x \in KeysOf(run) : \/ docs'[x] = docs[x] /\ latest'[x] = latest[x]
                             \/ docs'[x] = d /\ latest'[x] = d.by
  BY <1>1
<1>4. Documents'
  <2>1. \A x \in KeysOf(run) : Shaped(docs'[x]) /\ ForEver(docs'[x])
    BY <1>3 DEF Documents
  <2>2. DOMAIN backup' = KeysOf(run) /\ \A x \in KeysOf(run) : Shaped(backup'[x]) /\ ForEver(backup'[x])
    BY <1>1 DEF Documents
  <2>3. KeysOf(run') = KeysOf(run)
    OBVIOUS
  <2> QED
    BY <1>1, <1>2, <2>1, <2>2, <2>3 DEF Documents
<1>5. Held'
  <2> SUFFICES ASSUME NEW m \in promised
               PROVE  /\ latest'[m.key] = m.by => docs'[m.key].by = m.by
                      /\ docs'[m.key].by = m.by => backup'[m.key].by = m.by
    BY DEF Held
  <2>1. m.key \in KeysOf(run) /\ m.by # d.by
    OBVIOUS
  <2>2. CASE docs'[m.key] = docs[m.key] /\ latest'[m.key] = latest[m.key]
    BY <1>1, <2>2 DEF Held
  <2>3. CASE docs'[m.key] = d /\ latest'[m.key] = d.by
    BY <2>1, <2>3
  <2> QED
    BY <1>3, <2>1, <2>2, <2>3
<1> QED
  BY <1>4, <1>5

\* Nothing is stored.
LEMMA StoresNothing ==
  ASSUME run' = run, UNCHANGED server, promised' = promised, Documents, Held
  PROVE  Documents' /\ Held'
<1>1. docs' = docs /\ backup' = backup /\ latest' = latest
  BY DEF server
<1>2. Documents'
  BY <1>1 DEF Documents
<1>3. Held'
  BY <1>1 DEF Held
<1> QED
  BY <1>2, <1>3

\* A flush breaks no promise.
LEMMA WipeKeeps ==
  ASSUME run \in Scenarios, run' = run, Documents, Held, Promises, promised' = promised,
         NEW p \in run, NEW op, Wipe(p, op), round[p] \in Nat, todo[p] # {}
  PROVE  Documents' /\ Held'
<1> DEFINE wiped == {k \in DOMAIN docs : k[1] = op.key[1] /\ Stored(k)}
           gone == Gone(By(p))
<1>1. DOMAIN docs = KeysOf(run) /\ KeysOf(run') = KeysOf(run)
  BY DEF Documents
<1>2. /\ DOMAIN docs' = KeysOf(run) /\ DOMAIN latest' = KeysOf(run) /\ backup' = backup
      /\ \A k \in KeysOf(run) : /\ docs'[k] = IF k \in wiped THEN gone ELSE docs[k]
                                /\ latest'[k] = docs'[k].by
  BY <1>1 DEF Wipe
<1>3. Shaped(gone) /\ gone.by = By(p) /\ gone.life = 0
  BY DEF Gone, Shaped
<1>4. ForEver(gone)
  BY <1>3 DEF ForEver
<1>5. \A m \in promised : m.by # By(p)
  BY NotPromised
<1> HIDE DEF wiped, gone
<1>6. Documents'
  <2>1. \A k \in KeysOf(run) : Shaped(docs'[k]) /\ ForEver(docs'[k])
    BY <1>2, <1>3, <1>4 DEF Documents
  <2>2. DOMAIN backup' = KeysOf(run) /\ \A x \in KeysOf(run) : Shaped(backup'[x]) /\ ForEver(backup'[x])
    BY <1>2 DEF Documents
  <2> QED
    BY <1>1, <1>2, <2>1, <2>2 DEF Documents
<1>7. Held'
  <2> SUFFICES ASSUME NEW m \in promised
               PROVE  /\ latest'[m.key] = m.by => docs'[m.key].by = m.by
                      /\ docs'[m.key].by = m.by => backup'[m.key].by = m.by
    BY DEF Held
  <2>1. m.key \in KeysOf(run) /\ m.by # By(p)
    BY <1>5 DEF Promises
  <2>2. latest'[m.key] = docs'[m.key].by
    BY <1>2, <2>1
  <2>3. CASE m.key \in wiped
    BY <1>2, <1>3, <2>1, <2>3
  <2>4. CASE m.key \notin wiped
    BY <1>2, <2>1, <2>2, <2>4 DEF Held
  <2> QED
    BY <2>3, <2>4
<1> QED
  BY <1>6, <1>7
-----------------------------------------------------------------------------
(* The steps of a program. *)

\* A program connects, or it cannot.
LEMMA BootKeeps ==
  ASSUME IInv, NEW p \in run, Boot(p)
  PROVE  IInv'
<1> USE DEF IInv
<1>1. /\ Fits(p, "boot", round[p], todo[p], enduring[p], nap[p], answers[p])
      /\ p \in DOMAIN pc /\ run \in Scenarios
  BY DEF Boot, Stages, Maps
<1>2. /\ run' = run /\ UNCHANGED server /\ promised' = promised
      /\ round' = round /\ todo' = todo /\ enduring' = enduring /\ nap' = nap /\ answers' = answers
  BY DEF Boot
<1>3. /\ round[p] = 1 /\ todo[p] = {} /\ enduring[p] = {} /\ answers[p] = <<>> /\ nap[p] = 0
  BY <1>1 DEF Fits
<1>4. \E at \in {"ended", "ready", "aborted", "exited"} :
        /\ pc' = [pc EXCEPT ![p] = at]
        /\ at = "ready" => 1 \in DOMAIN Rounds[p]
  <2>1. /\ IsTable(Rounds[p])
        /\ p[1] \in {"flush", "query_atplus"} => Len(Rounds[p]) # 0
    BY <1>1, ProgramsHaveTables
  <2>2. Len(Rounds[p]) # 0 => 1 \in DOMAIN Rounds[p]
    BY <2>1 DEF IsTable
  <2>3. Rounds[p] # <<>> => Len(Rounds[p]) # 0
    BY <2>1 DEF IsTable
  <2>4. CASE Goto(p, IF Rounds[p] = <<>> THEN "ended" ELSE "ready")
    BY <2>2, <2>3, <2>4 DEF Goto
  <2>5. CASE Goto(p, Unconnected(p))
    BY <2>1, <2>2, <2>5 DEF Goto, Unconnected
  <2> QED
    BY <2>4, <2>5 DEF Boot
<1>5. PICK at \in {"ended", "ready", "aborted", "exited"} :
        /\ pc' = [pc EXCEPT ![p] = at]
        /\ at = "ready" => 1 \in DOMAIN Rounds[p]
  BY <1>4
<1>6. Others(p) /\ pc'[p] = at /\ Maps'
  BY <1>1, <1>2, <1>5 DEF Others, Maps
<1>7. Fits(p, at, round[p], todo[p], enduring[p], nap[p], answers[p])
  BY <1>1, <1>3, <1>5 DEF Fits
<1>8. Stages'
  <2>1. Fits(p, pc'[p], round'[p], todo'[p], enduring'[p], nap'[p], answers'[p])
    BY Zenon, <1>2, <1>6, <1>7
  <2> QED
    BY <1>2, <1>6, <2>1, OneMoves
<1>9. Promises'
  <2>1. \A r \in Nat : Over(r, pc[p], round[p], todo[p]) => Over(r, pc'[p], round'[p], todo'[p])
    BY <1>2 DEF Over, Boot
  <2> QED
    BY <1>2, <1>6, <2>1, PromisesStay
<1> QED
  BY <1>2, <1>6, <1>8, <1>9, StoresNothing

\* The operations of a round are scheduled.
LEMMA ScheduleKeeps ==
  ASSUME IInv, NEW p \in run, Schedule(p)
  PROVE  IInv'
<1> USE DEF IInv
<1>1. /\ Fits(p, "ready", round[p], todo[p], enduring[p], nap[p], answers[p])
      /\ p \in DOMAIN pc /\ p \in DOMAIN todo /\ run \in Scenarios
  BY DEF Schedule, Stages, Maps
<1>2. /\ run' = run /\ UNCHANGED server /\ promised' = promised
      /\ round' = round /\ enduring' = enduring /\ nap' = nap /\ answers' = answers
      /\ pc' = [pc EXCEPT ![p] = "waiting"]
      /\ todo' = [todo EXCEPT ![p] = DOMAIN Now(p).ops]
  BY DEF Schedule, Goto
<1>3. /\ round[p] \in DOMAIN Rounds[p] /\ enduring[p] = {} /\ answers[p] = <<>> /\ nap[p] = 0
      /\ round[p] \in Nat
  BY <1>1 DEF Fits
<1>4. Others(p) /\ pc'[p] = "waiting" /\ todo'[p] = DOMAIN Now(p).ops /\ Maps'
  BY <1>1, <1>2 DEF Others, Maps
<1>5. Len(Now(p).ops) \in Nat /\ DOMAIN Now(p).ops = 1 .. Len(Now(p).ops)
  BY <1>1, <1>3, ProgramsHaveTables, RoundsOfATable DEF Now
<1>6. Settled(Now(p).ops, DOMAIN Now(p).ops, <<>>)
  BY <1>5, SettledAtFirst
<1>7. Fits(p, "waiting", round[p], DOMAIN Now(p).ops, enduring[p], nap[p], answers[p])
  <2>1. DOMAIN Now(p).ops \in SUBSET Nat
    BY <1>5
  <2>2. DOMAIN Now(p).ops \subseteq DOMAIN Rounds[p][round[p]].ops
    BY DEF Now
  <2>3. Settled(Rounds[p][round[p]].ops, DOMAIN Now(p).ops, answers[p])
    BY <1>3, <1>6 DEF Now
  <2>4. IsSequence(answers[p]) /\ enduring[p] \subseteq Uses[p]
    BY <1>1 DEF Fits
  <2> HIDE DEF IInv
  <2> QED
    BY <1>3, <2>1, <2>2, <2>3, <2>4 DEF Fits
<1>8. Stages'
  <2>1. Fits(p, pc'[p], round'[p], todo'[p], enduring'[p], nap'[p], answers'[p])
    BY Zenon, <1>2, <1>4, <1>7
  <2> QED
    BY <1>2, <1>4, <2>1, OneMoves
<1>9. Promises'
  <2>1. \A r \in Nat : Over(r, pc[p], round[p], todo[p]) => Over(r, pc'[p], round'[p], todo'[p])
    BY <1>2 DEF Over, Schedule
  <2> QED
    BY <1>2, <1>4, <2>1, PromisesStay
<1> QED
  BY <1>2, <1>4, <1>8, <1>9, StoresNothing

\* One cannot be scheduled, and nothing is sent.
LEMMA SchedFailsKeeps ==
  ASSUME IInv, NEW p \in run, NEW i, SchedFails(p, i)
  PROVE  IInv'
<1> USE DEF IInv
<1>1. /\ Fits(p, "ready", round[p], todo[p], enduring[p], nap[p], answers[p])
      /\ p \in DOMAIN pc /\ p \in DOMAIN todo
  BY DEF SchedFails, Stages, Maps
<1>2. /\ run' = run /\ UNCHANGED server /\ promised' = promised
      /\ round' = round /\ enduring' = enduring /\ nap' = nap /\ answers' = answers
      /\ todo' = [todo EXCEPT ![p] = {}]
  BY DEF SchedFails, Scheduled
<1>3. PICK at \in {"exited", "aborted", "waiting"} : pc' = [pc EXCEPT ![p] = at]
  BY DEF SchedFails, Goto
<1>4. /\ round[p] \in DOMAIN Rounds[p] /\ enduring[p] = {} /\ answers[p] = <<>> /\ nap[p] = 0
  BY <1>1 DEF Fits
<1>5. Others(p) /\ pc'[p] = at /\ todo'[p] = {} /\ Maps'
  BY <1>1, <1>2, <1>3 DEF Others, Maps
<1>6. Fits(p, at, round[p], {}, enduring[p], nap[p], answers[p])
  <2>1. Settled(Rounds[p][round[p]].ops, {}, answers[p])
    BY <1>4 DEF Settled
  <2>2. IsSequence(answers[p]) /\ enduring[p] \subseteq Uses[p] /\ round[p] \in Nat
    BY <1>1 DEF Fits
  <2> HIDE DEF IInv
  <2> QED
    BY <1>3, <1>4, <2>1, <2>2 DEF Fits
<1>7. Stages'
  <2>1. Fits(p, pc'[p], round'[p], todo'[p], enduring'[p], nap'[p], answers'[p])
    BY Zenon, <1>2, <1>5, <1>6
  <2> QED
    BY <1>2, <1>5, <2>1, OneMoves
<1>8. Promises'
  <2>1. \A r \in Nat : Over(r, pc[p], round[p], todo[p]) => Over(r, pc'[p], round'[p], todo'[p])
    BY <1>2, <1>3, <1>5 DEF Over, SchedFails
  <2> QED
    BY <1>2, <1>5, <2>1, PromisesStay
<1> QED
  BY <1>2, <1>5, <1>7, <1>8, StoresNothing
-----------------------------------------------------------------------------
(* The answers. *)

\* What is known of a program that waits for its i-th operation.
LEMMA WhereItWaits ==
  ASSUME Maps, Stages, NEW p \in run, NEW i, NEW ops, Waits(p, i, ops)
  PROVE  /\ run \in Scenarios /\ IsProgram(p)
         /\ round[p] \in Nat /\ round[p] \in DOMAIN Rounds[p] /\ IsTable(Rounds[p])
         /\ todo[p] # {} /\ i \in todo[p] /\ todo[p] \subseteq DOMAIN Now(p).ops
         /\ enduring[p] = {} /\ nap[p] = 0 /\ IsSequence(answers[p])
         /\ Now(p).ops[i].does \in ops
         /\ Now(p).unscheduled = "batch" => Now(p).callback /\ Settled(Now(p).ops, todo[p], answers[p])
         /\ Len(Now(p).ops) \in Nat /\ DOMAIN Now(p).ops = 1 .. Len(Now(p).ops)
         /\ DurableRound(p, round[p]) => DOMAIN Now(p).ops = {1} /\ Now(p).ops[i].does \in Durable
         /\ Now(p).ops[i].does \in Durable => DurableRound(p, round[p])
         /\ Now(p).ops[i].does # "flush" => Now(p).ops[i].key \in Uses[p] /\ Now(p).ops[i].key \in KeysOf(run)
<1>1. /\ Fits(p, "waiting", round[p], todo[p], enduring[p], nap[p], answers[p])
      /\ i \in todo[p] /\ run \in Scenarios /\ Rounds[p][round[p]].ops[i].does \in ops
  BY DEF Waits, Stages, Maps, Now
<1>2. /\ round[p] \in Nat /\ round[p] \in DOMAIN Rounds[p]
      /\ todo[p] \subseteq DOMAIN Rounds[p][round[p]].ops
      /\ enduring[p] = {} /\ nap[p] = 0 /\ IsSequence(answers[p])
      /\ Rounds[p][round[p]].unscheduled = "batch" => Settled(Rounds[p][round[p]].ops, todo[p], answers[p])
  BY <1>1 DEF Fits
<1>3. IsTable(Rounds[p]) /\ IsProgram(p)
  BY <1>1, ProgramsHaveTables DEF IsProgram
<1>4. /\ Len(Rounds[p][round[p]].ops) \in Nat
      /\ DOMAIN Rounds[p][round[p]].ops = 1 .. Len(Rounds[p][round[p]].ops)
      /\ Rounds[p][round[p]].unscheduled = "batch" => Rounds[p][round[p]].callback
      /\ DurableRound(p, round[p]) =>
           /\ DOMAIN Rounds[p][round[p]].ops = {1}
           /\ \A j \in DOMAIN Rounds[p][round[p]].ops : Rounds[p][round[p]].ops[j].does \in Durable
  BY <1>2, <1>3, RoundsOfATable
<1>5. i \in DOMAIN Rounds[p][round[p]].ops
  BY <1>1, <1>2
<1>6. Rounds[p][round[p]].ops[i].does \in Durable => DurableRound(p, round[p])
  BY <1>2, <1>5 DEF DurableRound
<1>7. Rounds[p][round[p]].ops[i].does # "flush" => /\ Rounds[p][round[p]].ops[i].key \in Uses[p]
                                                   /\ Rounds[p][round[p]].ops[i].key \in KeysOf(run)
  BY <1>1, <1>2, <1>5, KeysAreUsed
<1> QED
  BY <1>1, <1>2, <1>3, <1>4, <1>5, <1>6, <1>7 DEF Now

\* An answer moves its program only.
LEMMA HearMoves ==
  ASSUME Maps, Stages, Promises, NEW p \in run, NEW i, NEW ops, Waits(p, i, ops),
         NEW answer, Hear(p, i, answer),
         run' = run, round' = round, enduring' = enduring, nap' = nap, promised' = promised
  PROVE  Maps' /\ Stages' /\ Promises'
<1>1. /\ round[p] \in Nat /\ round[p] \in DOMAIN Rounds[p]
      /\ i \in todo[p] /\ todo[p] \subseteq DOMAIN Now(p).ops
      /\ enduring[p] = {} /\ nap[p] = 0 /\ IsSequence(answers[p])
      /\ Now(p).unscheduled = "batch" => Now(p).callback /\ Settled(Now(p).ops, todo[p], answers[p])
      /\ Len(Now(p).ops) \in Nat /\ DOMAIN Now(p).ops = 1 .. Len(Now(p).ops)
  BY WhereItWaits
<1> DEFINE more == Append(answers[p], [op |-> i, rc |-> answer.rc, body |-> Kept(answer)])
<1>2. p \in DOMAIN answers /\ p \in DOMAIN pc /\ p \in DOMAIN todo
  BY DEF Maps
<1>3. PICK at \in {"exited", "waiting"} : pc' = [pc EXCEPT ![p] = at]
  BY DEF Hear, Goto
<1>4. /\ todo' = [todo EXCEPT ![p] = @ \ {i}]
      /\ answers' = [answers EXCEPT ![p] = IF Now(p).callback THEN more ELSE @]
  BY DEF Hear
<1>5. IsSequence(more)
  BY <1>1, OneMoreHeard
<1>6. Now(p).unscheduled = "batch" => Settled(Now(p).ops, todo[p] \ {i}, more)
  BY <1>1, SettledGoesOn
<1> HIDE DEF more
<1>7. /\ pc'[p] = at /\ todo'[p] = todo[p] \ {i}
      /\ answers'[p] = IF Now(p).callback THEN more ELSE answers[p]
      /\ Maps' /\ Others(p)
  BY <1>2, <1>3, <1>4 DEF Maps, Others
<1>8. Fits(p, at, round[p], todo[p] \ {i}, {}, 0, answers'[p])
  <2>1. IsSequence(answers'[p])
    BY <1>1, <1>5, <1>7
  <2>2. Now(p).unscheduled = "batch" => Settled(Now(p).ops, todo[p] \ {i}, answers'[p])
    BY <1>1, <1>6, <1>7
  <2>3. todo[p] \ {i} \in SUBSET Nat
    BY <1>1
  <2>4. todo[p] \ {i} \subseteq DOMAIN Rounds[p][round[p]].ops
    BY <1>1 DEF Now
  <2> QED
    BY <1>1, <1>3, <2>1, <2>2, <2>3, <2>4 DEF Fits, Now
<1>9. Stages'
  <2>1. Fits(p, pc'[p], round'[p], todo'[p], enduring'[p], nap'[p], answers'[p])
    BY Zenon, <1>1, <1>7, <1>8
  <2> QED
    BY <1>7, <2>1, OneMoves
<1>10. Promises'
  <2>1. \A r \in Nat : Over(r, pc[p], round[p], todo[p]) => Over(r, pc'[p], round'[p], todo'[p])
    BY <1>1 DEF Over
  <2> QED
    BY <1>7, <2>1, PromisesStay
<1> QED
  BY <1>7, <1>9, <1>10

\* What an operation leaves, done or lost on the way, is a new mutation of its document.
LEMMA NewMutation ==
  ASSUME Maps, Stages, Documents, Promises, Held, NEW p \in run, NEW i, NEW ops, Waits(p, i, ops),
         run' = run, promised' = promised,
         NEW k, NEW d, Shaped(d), d.by = By(p),
         Now(p).ops[i].does \in Durable => d.life = 0, Put(p, k, d)
  PROVE  Documents' /\ Held'
<1>1. /\ run \in Scenarios /\ round[p] \in Nat /\ todo[p] # {}
      /\ DurableRound(p, round[p]) => Now(p).ops[i].does \in Durable
  BY WhereItWaits
<1>2. \A m \in promised : m.key \in KeysOf(run) /\ m.by # d.by
  BY <1>1, NotPromised DEF Promises
<1>3. DurableRound(p, round[p]) => d.life = 0
  BY <1>1
<1>4. ForEver(d)
  BY <1>1, <1>3, StoredForEver
<1> QED
  BY <1>2, <1>4, WriteKeeps

\* An operation is done and answered.
LEMMA ServeKeeps ==
  ASSUME IInv, NEW p \in run, NEW i, Serve(p, i)
  PROVE  IInv'
<1> USE DEF IInv
<1> DEFINE op == Now(p).ops[i]
           end == Handle(op, docs[op.key], By(p))
<1>1. /\ Waits(p, i, Simple)
      /\ IF end.doc = docs[op.key] THEN UNCHANGED server ELSE Put(p, op.key, end.doc)
      /\ Hear(p, i, end.answer)
      /\ run' = run /\ round' = round /\ enduring' = enduring /\ nap' = nap /\ promised' = promised
  BY DEF Serve
<1>2. Maps' /\ Stages' /\ Promises'
  BY <1>1, HearMoves
<1>3. op.does \in Simple /\ op.key \in KeysOf(run)
  BY <1>1, WhereItWaits DEF Simple
<1>4. Shaped(docs[op.key])
  BY <1>3 DEF Documents
<1>5. end.doc = docs[op.key] \/ (Shaped(end.doc) /\ end.doc.by = By(p))
  BY <1>3, <1>4, HandleStamps
<1>6. op.does \notin Durable
  BY <1>3 DEF Simple, Durable
<1> HIDE DEF end
<1>7. Documents' /\ Held'
  <2>1. CASE UNCHANGED server
    BY <1>1, <2>1, StoresNothing
  <2>2. CASE end.doc # docs[op.key] /\ Put(p, op.key, end.doc)
    <3> DEFINE d == end.doc
    <3>1. Shaped(d) /\ d.by = By(p) /\ Put(p, op.key, d)
      BY <1>5, <2>2
    <3> HIDE DEF d
    <3> QED
      BY <1>1, <1>6, <3>1, NewMutation
  <2> QED
    BY <1>1, <2>1, <2>2
<1> QED
  BY <1>2, <1>7

\* A query is answered.
LEMMA QueryKeeps ==
  ASSUME IInv, NEW p \in run, NEW i, Query(p, i)
  PROVE  IInv'
<1> USE DEF IInv
<1>1. \E answer : /\ Waits(p, i, {"query"}) /\ Hear(p, i, answer) /\ UNCHANGED server
                  /\ run' = run /\ round' = round /\ enduring' = enduring /\ nap' = nap
                  /\ promised' = promised
  BY DEF Query
<1> QED
  BY <1>1, HearMoves, StoresNothing

\* A bucket is flushed, or does not allow it.
LEMMA FlushKeeps ==
  ASSUME IInv, NEW p \in run, NEW i, Flush(p, i)
  PROVE  IInv'
<1> USE DEF IInv
<1>1. \E answer : /\ Waits(p, i, {"flush"}) /\ Hear(p, i, answer)
                  /\ Wipe(p, Now(p).ops[i]) \/ UNCHANGED server
                  /\ run' = run /\ round' = round /\ enduring' = enduring /\ nap' = nap
                  /\ promised' = promised
  BY DEF Flush
<1>2. Maps' /\ Stages' /\ Promises'
  BY <1>1, HearMoves
<1>3. run \in Scenarios /\ round[p] \in Nat /\ todo[p] # {}
  BY <1>1, WhereItWaits
<1>4. Documents' /\ Held'
  BY <1>1, <1>3, WipeKeeps, StoresNothing
<1> QED
  BY <1>2, <1>4

\* A request or its answer is lost.
LEMMA LoseKeeps ==
  ASSUME IInv, NEW p \in run, NEW i, Lose(p, i)
  PROVE  IInv'
<1> USE DEF IInv
<1> DEFINE op == Now(p).ops[i]
           ops == Simple \cup Durable \cup {"query", "flush"}
           end == IF op.does \in Simple THEN Handle(op, docs[op.key], By(p)).doc ELSE Doc(op.body, 0, By(p))
<1>1. /\ Waits(p, i, ops) /\ Hear(p, i, Answer("ETIMEDOUT", NoBody))
      /\ \/ UNCHANGED server
         \/ Wipe(p, op)
         \/ op.does \notin {"query", "flush"} /\ end # docs[op.key] /\ Put(p, op.key, end)
      /\ run' = run /\ round' = round /\ enduring' = enduring /\ nap' = nap /\ promised' = promised
  BY DEF Lose
<1>2. /\ run \in Scenarios /\ round[p] \in Nat /\ todo[p] # {}
      /\ op.does \in ops
      /\ op.does # "flush" => op.key \in KeysOf(run)
  BY <1>1, WhereItWaits
<1>3. Maps' /\ Stages' /\ Promises'
  BY <1>1, HearMoves
<1>4. CASE UNCHANGED server
  BY <1>1, <1>3, <1>4, StoresNothing
<1>5. CASE Wipe(p, op)
  BY <1>1, <1>2, <1>3, <1>5, WipeKeeps
<1>6. CASE op.does \notin {"query", "flush"} /\ end # docs[op.key] /\ Put(p, op.key, end)
  <2>1. Shaped(docs[op.key])
    BY <1>2, <1>6 DEF Documents
  <2>2. Shaped(end) /\ end.by = By(p) /\ (op.does \in Durable => end.life = 0)
    <3>1. CASE op.does \in Simple
      <4>1. op.does \notin Durable
        BY <3>1 DEF Simple, Durable
      <4> QED
        BY <1>6, <2>1, <3>1, <4>1, HandleStamps
    <3>2. CASE op.does \notin Simple
      BY <3>2 DEF Doc, Shaped
    <3> QED
      BY <3>1, <3>2
  <2> DEFINE d == end
  <2>3. Shaped(d) /\ d.by = By(p) /\ (op.does \in Durable => d.life = 0) /\ Put(p, op.key, d)
    BY <1>6, <2>2
  <2> HIDE DEF d, end
  <2>4. Documents' /\ Held'
    BY <1>1, <2>3, NewMutation
  <2> QED
    BY <1>3, <2>4
<1> QED
  BY <1>1, <1>4, <1>5, <1>6

\* Once the active node has the mutation, its durability is waited for, or not asked for.
LEMMA ServeDurableKeeps ==
  ASSUME IInv, NEW p \in run, NEW i, ServeDurable(p, i)
  PROVE  IInv'
<1> USE DEF IInv
<1> DEFINE op == Now(p).ops[i]
           d == Doc(op.body, 0, By(p))
<1>1. /\ Waits(p, i, Durable) /\ Put(p, op.key, d)
      /\ todo' = [todo EXCEPT ![p] = @ \ {i}]
      /\ \/ enduring' = [enduring EXCEPT ![p] = {op.key}]
         \/ enduring' = enduring
      /\ run' = run /\ pc' = pc /\ round' = round /\ answers' = answers /\ nap' = nap /\ promised' = promised
      /\ pc[p] = "waiting"
  BY DEF ServeDurable, Waits
<1>2. /\ round[p] \in Nat /\ round[p] \in DOMAIN Rounds[p] /\ IsTable(Rounds[p])
      /\ i \in todo[p] /\ todo[p] \subseteq DOMAIN Now(p).ops
      /\ enduring[p] = {} /\ nap[p] = 0 /\ IsSequence(answers[p])
      /\ op.does \in Durable
      /\ DurableRound(p, round[p]) => DOMAIN Now(p).ops = {1}
      /\ op.does \in Durable => DurableRound(p, round[p])
      /\ op.does # "flush" => op.key \in Uses[p]
  BY <1>1, WhereItWaits
<1>3. DurableRound(p, round[p]) /\ todo[p] \ {i} = {} /\ op.key \in Uses[p]
  BY <1>2 DEF Durable
<1>4. Now(p).unscheduled # "batch"
  BY <1>2, <1>3, RoundsOfATable DEF Now
<1>5. p \in DOMAIN todo /\ p \in DOMAIN enduring
  BY DEF Maps
<1>6. /\ enduring'[p] \in SUBSET Uses[p] /\ DOMAIN enduring' = run
      /\ \A q \in run \ {p} : enduring'[q] = enduring[q]
  BY <1>1, <1>2, <1>3 DEF Maps
<1>7. todo'[p] = {} /\ Maps' /\ Others(p)
  BY <1>1, <1>3, <1>5, <1>6 DEF Maps, Others
<1>8. Shaped(d) /\ d.by = By(p) /\ d.life = 0
  BY DEF Shaped, Doc
<1> HIDE DEF d, op
<1>9. Fits(p, "waiting", round[p], {}, enduring'[p], 0, answers[p])
  BY <1>2, <1>3, <1>4, <1>6 DEF Fits, Now
<1>10. Stages'
  <2>1. Fits(p, pc'[p], round'[p], todo'[p], enduring'[p], nap'[p], answers'[p])
    BY Zenon, <1>1, <1>2, <1>7, <1>9
  <2> QED
    BY <1>1, <1>7, <2>1, OneMoves
<1>11. Promises'
  <2>1. \A r \in Nat : Over(r, pc[p], round[p], todo[p]) => Over(r, pc'[p], round'[p], todo'[p])
    BY <1>1, <1>2 DEF Over
  <2> QED
    BY <1>1, <1>7, <2>1, PromisesStay
<1>12. Documents' /\ Held'
  BY <1>1, <1>8, NewMutation DEF op
<1> QED
  BY <1>7, <1>10, <1>11, <1>12

\* A promise is made when the replica has the mutation, after the write is over.
LEMMA EndureKeeps ==
  ASSUME IInv, NEW p \in run, NEW k, Endure(p, k)
  PROVE  IInv'
<1> USE DEF IInv
<1>1. /\ Fits(p, pc[p], round[p], todo[p], enduring[p], nap[p], answers[p])
      /\ k \in enduring[p] /\ run \in Scenarios
      /\ p \in DOMAIN enduring /\ p \in DOMAIN answers
  BY DEF Endure, Stages, Maps
<1>2. /\ run' = run /\ UNCHANGED server
      /\ pc' = pc /\ round' = round /\ todo' = todo /\ nap' = nap
      /\ enduring' = [enduring EXCEPT ![p] = {}]
  BY DEF Endure
<1>3. PICK rc : answers' = [answers EXCEPT ![p] = Append(@, [op |-> 1, rc |-> rc, body |-> NoBody])]
  BY DEF Endure
<1>4. \/ promised' = promised
      \/ promised' = promised \cup {[key |-> k, by |-> By(p)]} /\ docs[k].by = By(p) /\ backup[k].by = By(p)
  BY DEF Endure, Safe
<1>5. /\ round[p] \in Nat /\ round[p] \in DOMAIN Rounds[p] /\ pc[p] = "waiting" /\ todo[p] = {}
      /\ DurableRound(p, round[p]) /\ nap[p] = 0 /\ IsSequence(answers[p])
      /\ k \in Uses[p]
  BY <1>1 DEF Fits
<1>6. k \in KeysOf(run)
  BY <1>5 DEF KeysOf
<1>7. Rounds[p][round[p]].unscheduled # "batch"
  BY <1>1, <1>5, ProgramsHaveTables, RoundsOfATable
<1> DEFINE more == Append(answers[p], [op |-> 1, rc |-> rc, body |-> NoBody])
<1>8. IsSequence(more)
  BY <1>5, OneMoreHeard
<1>9. enduring'[p] = {} /\ answers'[p] = more /\ Maps' /\ Others(p)
  BY <1>1, <1>2, <1>3 DEF Maps, Others
<1> HIDE DEF more
<1>10. Stages'
  <2>1. Fits(p, "waiting", round[p], {}, {}, 0, more)
    BY <1>5, <1>7, <1>8 DEF Fits
  <2>2. Fits(p, pc'[p], round'[p], todo'[p], enduring'[p], nap'[p], answers'[p])
    BY Zenon, <1>2, <1>5, <1>9, <2>1
  <2> QED
    BY <1>2, <1>9, <2>2, OneMoves
<1>11. docs' = docs /\ backup' = backup /\ latest' = latest
  BY <1>2 DEF server
<1>12. Documents'
  BY <1>2, <1>11 DEF Documents
<1> DEFINE n == [key |-> k, by |-> By(p)]
<1>13. n.key = k /\ n.by = By(p)
  OBVIOUS
<1>14. \A m \in promised' : m \in promised \/ (m = n /\ docs[k].by = By(p) /\ backup[k].by = By(p))
  BY <1>4
<1> HIDE DEF n
<1>15. Promises'
  <2> SUFFICES ASSUME NEW m \in promised'
               PROVE  /\ m.key \in KeysOf(run)
                      /\ \E q \in run : \E r \in Nat : /\ m.by = Stamp(q, r) /\ DurableRound(q, r)
                                                     /\ Over(r, pc[q], round[q], todo[q])
    BY <1>2 DEF Promises
  <2>1. CASE m \in promised
    BY <2>1 DEF Promises
  <2>2. CASE m = n
    <3>1. m.by = Stamp(p, round[p]) /\ m.key = k
      BY <1>13, <2>2 DEF By, Stamp
    <3>2. Over(round[p], pc[p], round[p], todo[p])
      BY <1>5 DEF Over
    <3> QED
      BY <1>5, <1>6, <3>1, <3>2
  <2> QED
    BY <1>14, <2>1, <2>2
<1>16. Held'
  <2> SUFFICES ASSUME NEW m \in promised'
               PROVE  /\ latest[m.key] = m.by => docs[m.key].by = m.by
                      /\ docs[m.key].by = m.by => backup[m.key].by = m.by
    BY <1>11 DEF Held
  <2>1. CASE m \in promised
    BY <2>1 DEF Held
  <2>2. CASE m = n /\ docs[k].by = By(p) /\ backup[k].by = By(p)
    BY <1>13, <2>2
  <2> QED
    BY <1>14, <2>1, <2>2
<1> QED
  BY <1>9, <1>10, <1>12, <1>15, <1>16

\* main goes on with its next round, sleeps, ends or fails its assert.
LEMMA FinishKeeps ==
  ASSUME IInv, NEW p \in run, Finish(p)
  PROVE  IInv'
<1> USE DEF IInv
<1>1. /\ Fits(p, pc[p], round[p], todo[p], enduring[p], nap[p], answers[p]) /\ run \in Scenarios
      /\ p \in DOMAIN pc /\ p \in DOMAIN round /\ p \in DOMAIN nap /\ p \in DOMAIN answers
      /\ pc[p] = "waiting" /\ todo[p] = {} /\ enduring[p] = {}
  BY DEF Finish, Returned, Stages, Maps
<1>2. /\ run' = run /\ UNCHANGED server /\ promised' = promised
      /\ todo' = todo /\ enduring' = enduring
  BY DEF Finish
<1>3. /\ round[p] \in DOMAIN Rounds[p] /\ nap[p] = 0 /\ IsSequence(answers[p]) /\ round[p] \in Nat
  BY <1>1 DEF Fits
<1>4. /\ round[p] \in 1 .. Len(Rounds[p]) /\ Len(Rounds[p]) \in Nat
      /\ DOMAIN Rounds[p] = 1 .. Len(Rounds[p])
      /\ Now(p).nap \in Nat
      /\ Now(p).nap > 0 => round[p] < Len(Rounds[p])
  <2>1. IsTable(Rounds[p])
    BY <1>1, ProgramsHaveTables
  <2> QED
    BY <1>3, <2>1, RoundsOfATable DEF IsTable, Now
<1>5. IsSequence(<<>>)
  BY NothingHeard
<1>6. \E at, r, secs, heard :
        /\ pc'[p] = at /\ round'[p] = r /\ nap'[p] = secs /\ answers'[p] = heard
        /\ Fits(p, at, r, {}, {}, secs, heard)
        /\ r > round[p] \/ (r = round[p] /\ at \notin {"boot", "ready"})
        /\ Maps' /\ Others(p)
  <2>1. CASE Goto(p, "aborted") /\ UNCHANGED <<round, answers, nap>>
    <3>1. /\ pc'[p] = "aborted" /\ round'[p] = round[p] /\ nap'[p] = 0 /\ answers'[p] = answers[p]
          /\ Maps' /\ Others(p)
      BY <1>1, <1>2, <1>3, <2>1 DEF Goto, Maps, Others
    <3>2. Fits(p, "aborted", round[p], {}, {}, 0, answers[p])
      BY <1>3 DEF Fits
    <3> QED
      BY <3>1, <3>2
  <2>2. CASE /\ answers' = [answers EXCEPT ![p] = <<>>]
             /\ nap' = [nap EXCEPT ![p] = Now(p).nap]
             /\ round' = [round EXCEPT ![p] = IF @ = Len(Rounds[p]) \/ Now(p).nap > 0 THEN @ ELSE @ + 1]
             /\ IF Now(p).nap > 0 THEN Goto(p, "napping") ELSE Advance(p)
    <3>1. CASE Now(p).nap > 0
      <4>1. /\ pc'[p] = "napping" /\ round'[p] = round[p] /\ nap'[p] = Now(p).nap /\ answers'[p] = <<>>
            /\ Maps' /\ Others(p)
        BY <1>1, <1>2, <2>2, <3>1 DEF Goto, Maps, Others
      <4>2. Fits(p, "napping", round[p], {}, {}, Now(p).nap, <<>>)
        BY <1>3, <1>4, <1>5, <3>1 DEF Fits, Now
      <4> QED
        BY <4>1, <4>2
    <3>2. CASE ~ (Now(p).nap > 0) /\ round[p] = Len(Rounds[p])
      <4>1. /\ pc'[p] = "ended" /\ round'[p] = round[p] /\ nap'[p] = 0 /\ answers'[p] = <<>>
            /\ Maps' /\ Others(p)
        BY <1>1, <1>2, <1>4, <2>2, <3>2 DEF Goto, Advance, Maps, Others
      <4>2. Fits(p, "ended", round[p], {}, {}, 0, <<>>)
        BY <1>3, <1>5 DEF Fits
      <4> QED
        BY <4>1, <4>2
    <3>3. CASE ~ (Now(p).nap > 0) /\ round[p] # Len(Rounds[p])
      <4>1. /\ pc'[p] = "ready" /\ round'[p] = round[p] + 1 /\ nap'[p] = 0 /\ answers'[p] = <<>>
            /\ Maps' /\ Others(p)
        BY <1>1, <1>2, <1>4, <2>2, <3>3 DEF Goto, Advance, Maps, Others
      <4>2. round[p] + 1 \in DOMAIN Rounds[p] /\ round[p] + 1 \in Nat /\ round[p] + 1 > round[p]
        BY <1>4, <3>3
      <4>3. Fits(p, "ready", round[p] + 1, {}, {}, 0, <<>>)
        BY <1>5, <4>2 DEF Fits
      <4> QED
        BY <4>1, <4>2, <4>3
    <3> QED
      BY <3>1, <3>2, <3>3
  <2> QED
    BY <2>1, <2>2 DEF Finish
<1>7. /\ Fits(p, pc'[p], round'[p], {}, {}, nap'[p], answers'[p])
      /\ round'[p] > round[p] \/ (round'[p] = round[p] /\ pc'[p] \notin {"boot", "ready"})
      /\ Maps' /\ Others(p)
  BY <1>6
<1>8. Stages'
  <2>1. Fits(p, pc'[p], round'[p], todo'[p], enduring'[p], nap'[p], answers'[p])
    BY Zenon, <1>1, <1>2, <1>7
  <2> QED
    BY <1>2, <1>7, <2>1, OneMoves
<1>9. Promises'
  <2>1. round'[p] \in Nat /\ todo'[p] = {}
    BY <1>1, <1>2, <1>7 DEF Fits
  <2>2. \A r \in Nat : Over(r, pc[p], round[p], todo[p]) => Over(r, pc'[p], round'[p], todo'[p])
    BY <1>3, <1>7, <2>1 DEF Over
  <2> QED
    BY <1>2, <1>7, <2>2, PromisesStay
<1> QED
  BY <1>2, <1>7, <1>8, <1>9, StoresNothing
-----------------------------------------------------------------------------
(* The steps of the cluster and of time. *)

\* A document that does not expire stays; one that does has no program's stamp.
LEMMA OlderStamps ==
  ASSUME NEW d, Shaped(d)
  PROVE  /\ Shaped(Older(d))
         /\ Older(d).by = d.by \/ (Older(d).by = <<"expiry", 0, 0>> /\ d.there /\ ~ Older(d).there)
         /\ d.life = 0 => Older(d) = d
         /\ Older(d).by = d.by => d.life # 0 \/ Older(d) = d
BY DEF Older, Gone, Shaped

\* What lives for ever does so a second later.
LEMMA OlderForEver ==
  ASSUME NEW d, Shaped(d), ForEver(d)
  PROVE  ForEver(Older(d))
<1> SUFFICES ASSUME NEW p \in Programs, NEW r \in Nat, DurableRound(p, r), Older(d).by = Stamp(p, r)
             PROVE  Older(d).life = 0
  BY DEF ForEver
<1>1. p \in Names \X Nat
  BY ScenariosAssumption DEF Programs
<1>2. Older(d).by # <<"expiry", 0, 0>>
  BY <1>1, Stamps
<1>3. d.by = Stamp(p, r)
  BY <1>2, OlderStamps
<1>4. d.life = 0
  BY <1>3 DEF ForEver
<1> QED
  BY <1>4, OlderStamps

\* A second passes: no promised document expires.
LEMMA TickKeeps ==
  ASSUME IInv, Tick
  PROVE  IInv'
<1> USE DEF IInv
<1> DEFINE sleeping == {p \in run : pc[p] = "napping"}
           awake == {p \in run : nap[p] = 1}
<1>1. /\ docs' = [k \in DOMAIN docs |-> Older(docs[k])]
      /\ backup' = [k \in DOMAIN docs |-> Older(backup[k])]
      /\ latest' = [k \in DOMAIN docs |-> IF docs[k].there /\ ~ docs'[k].there THEN docs'[k].by ELSE latest[k]]
  BY DEF Tick
<1>2. /\ nap' = [p \in run |-> IF p \in sleeping THEN nap[p] - 1 ELSE nap[p]]
      /\ pc' = [p \in run |-> IF p \in awake THEN "ready" ELSE pc[p]]
      /\ round' = [p \in run |-> IF p \in awake THEN round[p] + 1 ELSE round[p]]
      /\ run' = run /\ todo' = todo /\ enduring' = enduring /\ answers' = answers /\ promised' = promised
  BY DEF Tick
<1>3. DOMAIN docs = KeysOf(run) /\ KeysOf(run') = KeysOf(run) /\ run \in Scenarios
  BY <1>2 DEF Documents, Maps
<1>4. Maps'
  BY <1>2 DEF Maps
<1>5. \A p \in run : /\ Fits(p, pc'[p], round'[p], todo'[p], enduring'[p], nap'[p], answers'[p])
                     /\ \A r \in Nat : Over(r, pc[p], round[p], todo[p]) => Over(r, pc'[p], round'[p], todo'[p])
  <2> SUFFICES ASSUME NEW p \in run
               PROVE  /\ Fits(p, pc'[p], round'[p], todo'[p], enduring'[p], nap'[p], answers'[p])
                      /\ \A r \in Nat : Over(r, pc[p], round[p], todo[p])
                                          => Over(r, pc'[p], round'[p], todo'[p])
    OBVIOUS
  <2>1. Fits(p, pc[p], round[p], todo[p], enduring[p], nap[p], answers[p])
    BY DEF Stages
  <2>2. todo'[p] = todo[p] /\ enduring'[p] = enduring[p] /\ answers'[p] = answers[p]
    BY <1>2
  <2>3. nap[p] \in Nat /\ round[p] \in Nat /\ (pc[p] # "napping" => nap[p] = 0)
    BY <2>1 DEF Fits
  <2>4. CASE pc[p] # "napping"
    <3>1. pc'[p] = pc[p] /\ nap'[p] = nap[p] /\ round'[p] = round[p]
      BY <1>2, <2>3, <2>4
    <3> QED
      BY Zenon, <2>1, <2>2, <3>1
  <2>5. CASE pc[p] = "napping" /\ nap[p] # 1
    <3>1. pc'[p] = "napping" /\ nap'[p] = nap[p] - 1 /\ round'[p] = round[p]
      BY <1>2, <2>5
    <3>2. Fits(p, "napping", round[p], todo[p], enduring[p], nap[p] - 1, answers[p])
      BY <2>1, <2>5 DEF Fits
    <3> QED
      BY <2>2, <2>5, <3>1, <3>2
  <2>6. CASE pc[p] = "napping" /\ nap[p] = 1
    <3>1. pc'[p] = "ready" /\ nap'[p] = 0 /\ round'[p] = round[p] + 1
      BY <1>2, <2>6
    <3>2. /\ round[p] \in DOMAIN Rounds[p] /\ Rounds[p][round[p]].nap > 0
          /\ todo[p] = {} /\ enduring[p] = {} /\ answers[p] = <<>>
      BY <2>1, <2>6 DEF Fits
    <3>3. IsTable(Rounds[p])
      BY <1>3, ProgramsHaveTables
    <3>4. round[p] + 1 \in DOMAIN Rounds[p]
      <4>1. round[p] \in 1 .. Len(Rounds[p]) /\ Len(Rounds[p]) \in Nat /\ round[p] < Len(Rounds[p])
        BY <3>2, <3>3, RoundsOfATable
      <4>2. DOMAIN Rounds[p] = 1 .. Len(Rounds[p])
        BY <3>3 DEF IsTable
      <4> QED
        BY <4>1, <4>2
    <3>5. Fits(p, "ready", round[p] + 1, {}, {}, 0, <<>>)
      BY <2>3, <3>4, NothingHeard DEF Fits
    <3>6. \A r \in Nat : Over(r, pc[p], round[p], todo[p]) => r < round[p] + 1
      BY <2>3 DEF Over
    <3>7. Fits(p, pc'[p], round'[p], todo'[p], enduring'[p], nap'[p], answers'[p])
      BY Zenon, <2>2, <3>1, <3>2, <3>5
    <3>8. \A r \in Nat : Over(r, pc[p], round[p], todo[p]) => Over(r, pc'[p], round'[p], todo'[p])
      BY <3>1, <3>6 DEF Over
    <3> QED
      BY <3>7, <3>8
  <2> QED
    BY <2>4, <2>5, <2>6
<1> HIDE DEF sleeping, awake
<1>6. Stages'
  BY <1>2, <1>5 DEF Stages
<1>7. Promises'
  <2> SUFFICES ASSUME NEW m \in promised
               PROVE  /\ m.key \in KeysOf(run)
                      /\ \E q \in run : \E r \in Nat : /\ m.by = Stamp(q, r) /\ DurableRound(q, r)
                                                     /\ Over(r, pc'[q], round'[q], todo'[q])
    BY <1>2 DEF Promises
  <2>1. PICK q \in run : \E r \in Nat : /\ m.by = Stamp(q, r) /\ DurableRound(q, r)
                                         /\ Over(r, pc[q], round[q], todo[q])
    BY DEF Promises
  <2>2. \E r \in Nat : m.by = Stamp(q, r) /\ DurableRound(q, r) /\ Over(r, pc'[q], round'[q], todo'[q])
    BY <1>5, <2>1
  <2>3. m.key \in KeysOf(run)
    BY DEF Promises
  <2> QED
    BY <2>2, <2>3
<1>8. \A k \in KeysOf(run) : /\ docs'[k] = Older(docs[k]) /\ backup'[k] = Older(backup[k])
                             /\ Shaped(docs[k]) /\ ForEver(docs[k]) /\ Shaped(backup[k]) /\ ForEver(backup[k])
                             /\ latest'[k] = IF docs[k].there /\ ~ docs'[k].there
                                             THEN docs'[k].by ELSE latest[k]
  BY <1>1, <1>3 DEF Documents
<1>9. DOMAIN docs' = KeysOf(run) /\ DOMAIN backup' = KeysOf(run) /\ DOMAIN latest' = KeysOf(run)
  BY <1>1, <1>3
<1>10. Documents'
  <2>1. \A k \in KeysOf(run) : /\ Shaped(docs'[k]) /\ ForEver(docs'[k])
                               /\ Shaped(backup'[k]) /\ ForEver(backup'[k])
    BY <1>8, OlderStamps, OlderForEver
  <2> QED
    BY <1>3, <1>9, <2>1 DEF Documents
<1>11. Held'
  <2> SUFFICES ASSUME NEW m \in promised
               PROVE  /\ latest'[m.key] = m.by => docs'[m.key].by = m.by
                      /\ docs'[m.key].by = m.by => backup'[m.key].by = m.by
    BY <1>2 DEF Held
  <2> DEFINE k == m.key
             old == docs[k]
             copy == backup[k]
  <2>1. k \in KeysOf(run) /\ \E q \in run : \E r \in Nat : m.by = Stamp(q, r) /\ DurableRound(q, r)
    BY DEF Promises
  <2>2. PICK q \in run : \E r \in Nat : m.by = Stamp(q, r) /\ DurableRound(q, r)
    BY <2>1
  <2>3. PICK r \in Nat : m.by = Stamp(q, r) /\ DurableRound(q, r)
    BY <2>2
  <2>4. q \in Programs /\ q \in Names \X Nat
    BY <1>3, ScenariosAssumption DEF Programs
  <2>5. m.by # <<"expiry", 0, 0>>
    BY <2>3, <2>4, Stamps
  <2>6. /\ docs'[k] = Older(old) /\ backup'[k] = Older(copy)
        /\ Shaped(old) /\ ForEver(old) /\ Shaped(copy) /\ ForEver(copy)
        /\ latest'[k] = IF old.there /\ ~ Older(old).there THEN Older(old).by ELSE latest[k]
    BY <1>8, <2>1
  <2>7. (old.by = m.by => old.life = 0) /\ (copy.by = m.by => copy.life = 0)
    BY <2>3, <2>4, <2>6 DEF ForEver
  <2>8. (latest[k] = m.by => old.by = m.by) /\ (old.by = m.by => copy.by = m.by)
    BY DEF Held
  <2> HIDE DEF k, old, copy
  <2>9. ASSUME latest'[k] = m.by PROVE docs'[k].by = m.by
    <3>1. CASE old.there /\ ~ Older(old).there
      BY <2>6, <2>9, <3>1
    <3>2. CASE ~ (old.there /\ ~ Older(old).there)
      <4>1. old.by = m.by
        BY <2>6, <2>8, <2>9, <3>2
      <4> QED
        BY <2>6, <2>7, <4>1, OlderStamps
    <3> QED
      BY <3>1, <3>2
  <2>10. ASSUME docs'[k].by = m.by PROVE backup'[k].by = m.by
    <3>1. old.by = m.by
      BY <2>5, <2>6, <2>10, OlderStamps
    <3>2. copy.by = m.by /\ copy.life = 0
      BY <2>7, <2>8, <3>1
    <3> QED
      BY <2>6, <3>2, OlderStamps
  <2> QED
    BY <2>9, <2>10 DEF k
<1> QED
  BY <1>4, <1>6, <1>7, <1>10, <1>11

\* The programs do not move.
LEMMA NobodyMoves ==
  ASSUME Maps, Stages, Promises,
         run' = run, pc' = pc, round' = round, todo' = todo, enduring' = enduring, nap' = nap,
         answers' = answers, promised' = promised
  PROVE  Maps' /\ Stages' /\ Promises'
<1>1. Maps'
  BY DEF Maps
<1>2. Stages'
  BY DEF Stages
<1>3. Promises'
  BY DEF Promises
<1> QED
  BY <1>1, <1>2, <1>3

\* The replica takes over the document as it is.
LEMMA ReplicateKeeps ==
  ASSUME IInv, NEW k \in DOMAIN docs, Replicate(k)
  PROVE  IInv'
<1> USE DEF IInv
<1>1. /\ run' = run /\ pc' = pc /\ round' = round /\ todo' = todo /\ enduring' = enduring /\ nap' = nap
      /\ answers' = answers /\ promised' = promised /\ docs' = docs /\ latest' = latest
      /\ backup' = [backup EXCEPT ![k] = docs[k]]
  BY DEF Replicate
<1>2. Maps' /\ Stages' /\ Promises'
  BY <1>1, NobodyMoves
<1>3. DOMAIN backup' = KeysOf(run) /\ \A x \in KeysOf(run) : backup'[x] = docs[x] \/ backup'[x] = backup[x]
  BY <1>1 DEF Documents
<1>4. Documents'
  BY <1>1, <1>3 DEF Documents
<1>5. Held'
  <2> SUFFICES ASSUME NEW m \in promised
               PROVE  /\ latest[m.key] = m.by => docs[m.key].by = m.by
                      /\ docs[m.key].by = m.by => backup'[m.key].by = m.by
    BY <1>1 DEF Held
  <2>1. m.key \in KeysOf(run)
    BY DEF Promises
  <2>2. /\ latest[m.key] = m.by => docs[m.key].by = m.by
        /\ docs[m.key].by = m.by => backup[m.key].by = m.by
    BY DEF Held
  <2>3. CASE backup'[m.key] = docs[m.key]
    BY <2>2, <2>3
  <2>4. CASE backup'[m.key] = backup[m.key]
    BY <2>2, <2>4
  <2> QED
    BY <1>3, <2>1, <2>3, <2>4
<1> QED
  BY <1>2, <1>4, <1>5

\* The index follows.
LEMMA IndexKeeps ==
  ASSUME IInv, NEW k, Index(k)
  PROVE  IInv'
<1> USE DEF IInv
<1>1. /\ run' = run /\ pc' = pc /\ round' = round /\ todo' = todo /\ enduring' = enduring /\ nap' = nap
      /\ answers' = answers /\ promised' = promised /\ docs' = docs /\ backup' = backup
      /\ latest' = latest
  BY DEF Index
<1>2. Maps' /\ Stages' /\ Promises'
  BY <1>1, NobodyMoves
<1>3. Documents' /\ Held'
  BY <1>1 DEF Documents, Held
<1> QED
  BY <1>2, <1>3

\* The replica has what was promised.
LEMMA FailoverKeeps ==
  ASSUME IInv, Failover
  PROVE  IInv'
<1> USE DEF IInv
<1>1. /\ run' = run /\ pc' = pc /\ round' = round /\ todo' = todo /\ enduring' = enduring /\ nap' = nap
      /\ answers' = answers /\ promised' = promised /\ backup' = backup /\ latest' = latest
      /\ docs' = [k \in DOMAIN docs |-> IF k \in Replicated THEN backup[k] ELSE docs[k]]
  BY DEF Failover
<1>2. Maps' /\ Stages' /\ Promises'
  BY <1>1, NobodyMoves
<1>3. DOMAIN docs' = KeysOf(run) /\ \A x \in KeysOf(run) : docs'[x] = docs[x] \/ docs'[x] = backup[x]
  BY <1>1 DEF Documents
<1>4. Documents'
  BY <1>1, <1>3 DEF Documents
<1>5. Held'
  <2> SUFFICES ASSUME NEW m \in promised
               PROVE  /\ latest[m.key] = m.by => docs'[m.key].by = m.by
                      /\ docs'[m.key].by = m.by => backup[m.key].by = m.by
    BY <1>1 DEF Held
  <2>1. m.key \in KeysOf(run)
    BY DEF Promises
  <2>2. /\ latest[m.key] = m.by => docs[m.key].by = m.by
        /\ docs[m.key].by = m.by => backup[m.key].by = m.by
    BY DEF Held
  <2>3. CASE docs'[m.key] = docs[m.key]
    BY <2>2, <2>3
  <2>4. CASE docs'[m.key] = backup[m.key]
    BY <2>2, <2>4
  <2> QED
    BY <1>3, <2>1, <2>3, <2>4
<1> QED
  BY <1>2, <1>4, <1>5

\* The invariant holds at the start, over what earlier runs left.
LEMMA InitHolds ==
  ASSUME Init
  PROVE  IInv
<1>1. Maps /\ promised = {} /\ run \in Scenarios
  BY DEF Init, Maps
<1>2. Stages
  <2> SUFFICES ASSUME NEW p \in run
               PROVE  Fits(p, pc[p], round[p], todo[p], enduring[p], nap[p], answers[p])
    BY DEF Stages
  <2>1. Fits(p, "boot", 1, {}, {}, 0, <<>>)
    BY NothingHeard DEF Fits
  <2>2. pc[p] = "boot" /\ round[p] = 1 /\ todo[p] = {} /\ enduring[p] = {} /\ nap[p] = 0 /\ answers[p] = <<>>
    BY DEF Init
  <2> QED
    BY Zenon, <2>1, <2>2
<1>3. Documents
  <2>1. PICK earlier \in BOOLEAN : docs = [k \in KeysOf(run) |-> Left(k, earlier)]
    BY DEF Init
  <2>2. /\ backup = docs /\ DOMAIN docs = KeysOf(run) /\ DOMAIN latest = KeysOf(run)
        /\ \A k \in KeysOf(run) : docs[k] = Left(k, earlier)
    BY <2>1 DEF Init
  <2>3. \A k : Shaped(Left(k, earlier)) /\ Left(k, earlier).by = <<"earlier", 0, 0>>
    BY DEF Left, Doc, Gone, Shaped
  <2>4. ASSUME NEW d, d.by = <<"earlier", 0, 0>> PROVE ForEver(d)
    <3> SUFFICES ASSUME NEW p \in Programs, NEW r \in Nat, d.by = Stamp(p, r) PROVE FALSE
      BY DEF ForEver
    <3>1. p \in Names \X Nat
      BY ScenariosAssumption DEF Programs
    <3> QED
      BY <2>4, <3>1, Stamps
  <2>5. \A k \in KeysOf(run) : Shaped(docs[k]) /\ ForEver(docs[k])
    BY <2>2, <2>3, <2>4
  <2> QED
    BY <2>2, <2>5 DEF Documents
<1>4. Promises /\ Held
  BY <1>1 DEF Promises, Held
<1> QED
  BY <1>1, <1>2, <1>3, <1>4 DEF IInv
-----------------------------------------------------------------------------
\* Whatever programs run together, fail, lose their answers or are overtaken by a failover, they
\* stay at a place of their main that fits what they wait for, and keep what durability promised.
THEOREM Invariance == Spec => []IInv
<1>1. Init => IInv
  BY InitHolds
<1>2. IInv /\ [Next]_vars => IInv'
  <2> SUFFICES ASSUME IInv, [Next]_vars PROVE IInv'
    OBVIOUS
  <2>1. ASSUME NEW p \in run, Operation(p) PROVE IInv'
    <3>1. CASE Boot(p)
      BY <3>1, BootKeeps
    <3>2. CASE Schedule(p)
      BY <3>2, ScheduleKeeps
    <3>3. CASE Finish(p)
      BY <3>3, FinishKeeps
    <3>4. ASSUME NEW i \in 1 .. 3, SchedFails(p, i) PROVE IInv'
      BY <3>4, SchedFailsKeeps
    <3>5. ASSUME NEW i \in 1 .. 3, Serve(p, i) PROVE IInv'
      BY <3>5, ServeKeeps
    <3>6. ASSUME NEW i \in 1 .. 3, ServeDurable(p, i) PROVE IInv'
      BY <3>6, ServeDurableKeeps
    <3>7. ASSUME NEW i \in 1 .. 3, Query(p, i) PROVE IInv'
      BY <3>7, QueryKeeps
    <3>8. ASSUME NEW i \in 1 .. 3, Flush(p, i) PROVE IInv'
      BY <3>8, FlushKeeps
    <3>9. ASSUME NEW i \in 1 .. 3, Lose(p, i) PROVE IInv'
      BY <3>9, LoseKeeps
    <3>10. ASSUME NEW k \in enduring[p], Endure(p, k) PROVE IInv'
      BY <3>10, EndureKeeps
    <3> QED
      BY <2>1, <3>1, <3>2, <3>3, <3>4, <3>5, <3>6, <3>7, <3>8, <3>9, <3>10 DEF Operation
  <2>2. ASSUME NEW k \in DOMAIN docs, Replicate(k) \/ Index(k) PROVE IInv'
    BY <2>2, ReplicateKeeps, IndexKeeps
  <2>3. CASE Tick
    BY <2>3, TickKeeps
  <2>4. CASE Failover
    BY <2>4, FailoverKeeps
  <2>5. CASE UNCHANGED vars
    <3>1. /\ run' = run /\ pc' = pc /\ round' = round /\ todo' = todo /\ enduring' = enduring /\ nap' = nap
          /\ answers' = answers /\ promised' = promised /\ UNCHANGED server
      BY <2>5 DEF vars, server
    <3>2. Maps' /\ Stages' /\ Promises'
      BY <3>1, NobodyMoves DEF IInv
    <3>3. Documents' /\ Held'
      BY <3>1, StoresNothing DEF IInv
    <3> QED
      BY <3>2, <3>3 DEF IInv
  <2>6. CASE AllEnded
    BY <2>5, <2>6 DEF AllEnded
  <2> QED
    BY <2>1, <2>2, <2>3, <2>4, <2>5, <2>6 DEF Next
<1> QED
  BY <1>1, <1>2, PTL DEF Spec

\* c/bulk-get.cc and c/bulk-store.cc have an answer for every document of a batch, or none.
THEOREM AllOrNothing == Spec => []BatchAllOrNothing
<1>1. IInv => BatchAllOrNothing
  <2> SUFFICES ASSUME IInv, NEW p \in run, Returned(p), Now(p).unscheduled = "batch"
               PROVE  \/ answers[p] = <<>>
                      \/ /\ Len(answers[p]) = Len(Now(p).ops)
                         /\ {answers[p][i].op : i \in DOMAIN answers[p]} = DOMAIN Now(p).ops
    BY DEF BatchAllOrNothing
  <2>1. Fits(p, "waiting", round[p], {}, enduring[p], nap[p], answers[p])
    BY DEF IInv, Stages, Returned
  <2>2. Settled(Now(p).ops, {}, answers[p]) /\ IsSequence(answers[p])
    BY <2>1 DEF Fits, Now
  <2>3. CASE answers[p] = <<>>
    BY <2>3
  <2>4. CASE answers[p] # <<>>
    <3>1. /\ Len(answers[p]) + Cardinality({}) = Len(Now(p).ops)
          /\ Heard(answers[p]) \cup {} = DOMAIN Now(p).ops
      BY <2>2, <2>4 DEF Settled
    <3>2. Cardinality({}) = 0 /\ Len(answers[p]) \in Nat
      BY <2>2, FS_EmptySet, OneMoreHeard
    <3>3. Len(answers[p]) = Len(Now(p).ops)
      BY <3>1, <3>2
    <3>4. {answers[p][i].op : i \in DOMAIN answers[p]} = DOMAIN Now(p).ops
      BY <3>1 DEF Heard
    <3> QED
      BY <3>3, <3>4
  <2> QED
    BY <2>3, <2>4
<1> QED
  BY <1>1, Invariance, PTL

\* What c/durability.cc prints as persisted and replicated is the document until somebody changes
\* it, across a failover to the replica.
THEOREM DurableStays == Spec => []DurableUntilOverwritten
<1>1. IInv => DurableUntilOverwritten
  BY DEF IInv, Held, DurableUntilOverwritten
<1> QED
  BY <1>1, Invariance, PTL
-----------------------------------------------------------------------------
(* What the programs announce. *)

\* The programs whose comments and printed lines announce something.
Announcing == {"counter", "expiration", "updating", "retrieving", "cloud", "subdoc_retrieving",
               "subdoc_updating", "query_consistency", "query_atplus", "create_remove_bucket"}

\* Of these, those that ask for the rows of a bucket.
Asking == {"query_consistency", "query_atplus"}

\* The two programs on one document of the subdocument examples.
Subdocument == {"subdoc_retrieving", "subdoc_updating"}

\* The document such a program writes and looks at.
Document(p) == CASE p[1] \in {"counter", "expiration", "updating"} -> docid
                 [] p[1] = "retrieving" -> Key("travel-sample", "a_key")
                 [] p[1] = "cloud" -> Key("cloud", "key")
                 [] p[1] \in Subdocument -> a_key
                 [] p[1] \in Asking -> User(p[2])
                 [] p[1] = "create_remove_bucket" -> newBucket

\* c/retrieving.cc looks for it in vain.
missing == Key("travel-sample", "non-exist-key")

\* The document is there with that body.
Holds(d, body) == d.there /\ d.body = body

\* The document as the rounds before r leave it: what the announcement of round r rests on.
Prepared(p, r, d) ==
  /\ p[1] = "counter" => /\ r = 2 => ~ d.there
                         /\ r = 3 => Holds(d, Number(100))
                         /\ r = 4 => Holds(d, Number(101))
  /\ p[1] = "expiration" => /\ r = 2 => Holds(d, Value("some")) /\ d.life = 2
                            /\ r = 5 => Holds(d, Value("some"))
                            /\ r = 8 => d.there
                            /\ r \in {3, 6, 9} => ~ d.there
  /\ p[1] = "updating" => (r \in {2, 3} => d.there)
  /\ p[1] = "retrieving" => (r = 2 => Holds(d, Value("some")))
  /\ p[1] = "cloud" => (r = 2 => Holds(d, Value("true")))
  /\ p[1] = "subdoc_retrieving" => (r = 2 => Holds(d, Person(3)))
  /\ p[1] = "subdoc_updating" =>
       /\ r = 2 => Holds(d, Person(4))
       /\ r = 3 => /\ d.there /\ {"array", "array[0]", "description"} \subseteq DOMAIN d.body
                   /\ d.body["array"] = 5 /\ d.body["array[0]"] = 100 /\ d.body["description"] = 0
       /\ r \in {3, 4} => "some.deep" \notin DOMAIN d.body
       /\ r \in {4, 5} => d.there
  /\ p[1] \in Asking => (r = 2 => d.there /\ "Brass" \in DOMAIN d.body /\ d.by = Stamp(p, 1))
  /\ p[1] = "create_remove_bucket" => (r = 2 => d.there)

\* A document that is gone when the sleep is over.
Fading(d, secs) == ~ d.there \/ d.life \in 1 .. secs

\* What round r leaves behind.
Leaves(p, r, d) ==
  IF Rounds[p][r].nap > 0 THEN Fading(d, Rounds[p][r].nap) ELSE Prepared(p, r + 1, d)

\* The answer a is what round R announces.
Announced(R, a) ==
  /\ R.says # {} => a.rc \in R.says
  /\ R.says # {} \/ a.rc = "SUCCESS" =>
       \A path \in DOMAIN R.shows : path \in DOMAIN a.body /\ a.body[path] = R.shows[path]

\* A query's answer is awaited: the index has the document, or the query waits for it.
InSight(p, behind, view, d) == p[1] \in Asking => Document(p) \in behind \/ view = d

\* What an undisturbed program at each place of its main can rely on.
Undisturbed(p, at, r, left, secs, heard, behind, view, d) ==
  /\ at = "ready" => Prepared(p, r, d)
  /\ at = "waiting" /\ left # {} => /\ Prepared(p, r, d) /\ heard = <<>>
                                    /\ r = 2 => InSight(p, behind, view, d)
  /\ at = "waiting" /\ left = {} => /\ Leaves(p, r, d)
                                    /\ \/ heard = <<>>
                                       \/ heard = <<heard[1]>> /\ Announced(Rounds[p][r], heard[1])
  /\ at = "napping" => Fading(d, secs) /\ Rounds[p][r].nap > 0

\* The same of the state.
Sure(p) == Undisturbed(p, pc[p], round[p], todo[p], nap[p], answers[p], stale[p],
                       index[Document(p)], docs[Document(p)])

\* A program nobody has disturbed finds what it relies on.
Relies == \A p \in clean : p[1] \in Announcing => Sure(p)

\* Nobody stores what c/retrieving.cc should not find.
NeverFound == missing \in KeysOf(run) => ~ docs[missing].there

\* The variables have an entry for every program and document.
Followed == /\ clean \subseteq run
            /\ DOMAIN index = KeysOf(run) /\ DOMAIN stale = run

\* The inductive invariant beside IInv.
AInv == Followed /\ NeverFound /\ Relies

\* The document the subdocument programs share, as they store and change it.
IsPerson(d) == /\ d.there /\ d.life = 0
               /\ {"email", "array", "array[0]", "array[1]"} \subseteq DOMAIN d.body
               /\ "non-exist" \notin DOMAIN d.body

\* Gone, or a person.
Personal(d) == ~ d.there \/ IsPerson(d)

\* Nothing has failed, and no program flushes.
Peace == faults = 0 /\ \A q \in run : q[1] # "flush"

\* The document is there once such a program has stored it, and an answer that is asserted
\* is as the assert demands.
Trusts(p, at, r, left, heard, d) ==
  /\ r > 1 \/ (at = "waiting" /\ left = {}) => d.there
  /\ at = "waiting" /\ left # {} => heard = <<>>
  /\ at = "waiting" /\ left = {} /\ Rounds[p][r].asserts # {} =>
       heard = <<heard[1]>> /\ heard[1].rc \in Rounds[p][r].asserts

\* The subdocument programs find what their asserts need.
Trust == \A p \in run : p[1] \in Subdocument =>
           Trusts(p, pc[p], round[p], todo[p], answers[p], docs[a_key])

\* A program past its bootstrap is connected, and none has aborted.
Going == \A p \in run : (pc[p] # "boot" => p \in connected) /\ pc[p] # "aborted"

\* What stays so as long as nothing fails and nobody flushes.
Calm == /\ a_key \in KeysOf(run) => Personal(docs[a_key])
        /\ Going /\ Trust

\* The inductive invariant of the asserts, beside IInv.
BInv == faults \in Nat /\ (Peace => Calm)
-----------------------------------------------------------------------------
(* The rounds of these programs, one by one. *)

\* A round of one operation and what is announced of it.
Row(R, op, says, shows, asserts, secs) ==
  /\ DOMAIN R = Fields /\ R.ops = <<op>> /\ R.ops[1] = op /\ Len(R.ops) = 1 /\ DOMAIN R.ops = {1}
  /\ R.says = says /\ R.shows = shows /\ R.asserts = asserts /\ R.nap = secs

\* Rounds as CTables makes them.
LEMMA QuietRow == ASSUME NEW op PROVE Row(Quiet(op), op, {}, NoBody, {}, 0)
BY DEF Quiet, Round, Row, Fields

\* A round whose answer the callback is not given says nothing.
LEMMA UnheardRow == ASSUME NEW op PROVE Row(Unheard(op), op, {}, NoBody, {}, 0)
<1> DEFINE q == Quiet(op)
<1>1. Row(q, op, {}, NoBody, {}, 0)
  BY QuietRow
<1> HIDE DEF q
<1>2. Row([q EXCEPT !.callback = FALSE], op, {}, NoBody, {}, 0)
  BY <1>1 DEF Row, Fields
<1> QED
  BY Zenon, <1>2 DEF q, Unheard

\* A round that says a code.
LEMMA SaysRow == ASSUME NEW op, NEW rc PROVE Row(Says(op, rc), op, {rc}, NoBody, {}, 0)
<1> DEFINE q == Quiet(op)
           said == {rc}
<1>1. Row(q, op, {}, NoBody, {}, 0)
  BY QuietRow
<1> HIDE DEF q, said
<1>2. Row([q EXCEPT !.says = said], op, said, NoBody, {}, 0)
  BY <1>1 DEF Row, Fields
<1> QED
  BY Zenon, <1>2 DEF q, said, Says

\* A round that shows a body.
LEMMA ShownRow == ASSUME NEW op, NEW body PROVE Row(Shows(op, body), op, {"SUCCESS"}, body, {}, 0)
<1> DEFINE q == Says(op, "SUCCESS")
           said == {"SUCCESS"}
<1>1. Row(q, op, said, NoBody, {}, 0)
  BY SaysRow
<1> HIDE DEF q, said
<1>2. Row([q EXCEPT !.shows = body], op, said, body, {}, 0)
  BY <1>1 DEF Row, Fields
<1> QED
  BY Zenon, <1>2 DEF q, said, Shows

\* A round that shows the row of a document.
LEMMA RowOfRows == ASSUME NEW op, NEW key PROVE Row(ShowsRow(op, key), op, {}, [k \in {key} |-> 0], {}, 0)
<1> DEFINE q == Quiet(op)
           body == [k \in {key} |-> 0]
<1>1. Row(q, op, {}, NoBody, {}, 0)
  BY QuietRow
<1> HIDE DEF q, body
<1>2. Row([q EXCEPT !.shows = body], op, {}, body, {}, 0)
  BY <1>1 DEF Row, Fields
<1> QED
  BY Zenon, <1>2 DEF q, body, ShowsRow

\* Settings that make another row.
LEMMA RowSettings ==
  ASSUME NEW R, NEW op, NEW says, NEW shows, NEW asserts, NEW secs, Row(R, op, says, shows, asserts, secs),
         NEW v
  PROVE  /\ Row(Nap(R, v), op, says, shows, asserts, v)
         /\ Row([R EXCEPT !.unscheduled = v], op, says, shows, asserts, secs)
         /\ Row([R EXCEPT !.failed = v], op, says, shows, asserts, secs)
         /\ Row([R EXCEPT !.asserted_by = v], op, says, shows, asserts, secs)
         /\ Row([R EXCEPT !.asserts = v], op, says, shows, v, secs)
         /\ Row([R EXCEPT !.says = v], op, v, shows, asserts, secs)
         /\ Row([R EXCEPT !.shows = v], op, says, v, asserts, secs)
<1>1. Row([R EXCEPT !.nap = v], op, says, shows, asserts, v)
  BY DEF Row, Fields
<1>2. Row([R EXCEPT !.unscheduled = v], op, says, shows, asserts, secs)
  BY DEF Row, Fields
<1>3. Row([R EXCEPT !.failed = v], op, says, shows, asserts, secs)
  BY DEF Row, Fields
<1>4. Row([R EXCEPT !.asserted_by = v], op, says, shows, asserts, secs)
  BY DEF Row, Fields
<1>5. Row([R EXCEPT !.asserts = v], op, says, shows, v, secs)
  BY DEF Row, Fields
<1>6. Row([R EXCEPT !.says = v], op, v, shows, asserts, secs)
  BY DEF Row, Fields
<1>7. Row([R EXCEPT !.shows = v], op, says, v, asserts, secs)
  BY DEF Row, Fields
<1> QED
  BY <1>1, <1>2, <1>3, <1>4, <1>5, <1>6, <1>7 DEF Nap

\* c/counter.cc.
LEMMA CounterRows ==
  /\ DOMAIN counter = 1 .. 4
  /\ Row(counter[1], Op("remove", docid), {}, NoBody, {}, 0)
  /\ Row(counter[2], CounterOp(docid, 20), {"SUCCESS"}, Number(100), {}, 0)
  /\ Row(counter[3], CounterOp(docid, 1), {"SUCCESS"}, Number(101), {}, 0)
  /\ Row(counter[4], CounterOp(docid, -50), {"SUCCESS"}, Number(51), {}, 0)
<1> DEFINE down == CounterOp(docid, -50)
<1>1. /\ DOMAIN counter = 1 .. 4
      /\ counter[1] = Unheard(Op("remove", docid))
      /\ counter[2] = Shows(CounterOp(docid, 20), Number(100))
      /\ counter[3] = Shows(CounterOp(docid, 1), Number(101))
      /\ counter[4] = Shows(down, Number(51))
  BY DEF counter
<1> HIDE DEF down
<1>2. Row(counter[1], Op("remove", docid), {}, NoBody, {}, 0)
  BY <1>1, UnheardRow
<1>3. Row(counter[2], CounterOp(docid, 20), {"SUCCESS"}, Number(100), {}, 0)
  BY <1>1, ShownRow
<1>4. Row(counter[3], CounterOp(docid, 1), {"SUCCESS"}, Number(101), {}, 0)
  BY <1>1, ShownRow
<1>5. Row(counter[4], down, {"SUCCESS"}, Number(51), {}, 0)
  BY <1>1, ShownRow
<1> QED
  BY <1>1, <1>2, <1>3, <1>4, <1>5 DEF down

\* c/expiration.cc.
LEMMA ExpirationRows ==
  LET some == Value("some")
  IN /\ DOMAIN expiration = 1 .. 9
     /\ Row(expiration[1], Write("set", docid, some, 2), {}, NoBody, {}, 0)
     /\ Row(expiration[2], Op("get", docid), {"SUCCESS"}, some, {}, 4)
     /\ Row(expiration[3], TouchOp("touch", docid, 0), {"KEY_ENOENT"}, NoBody, {}, 0)
     /\ Row(expiration[4], Write("set", docid, some, 0), {}, NoBody, {}, 0)
     /\ Row(expiration[5], TouchOp("get_and_touch", docid, 1), {"SUCCESS"}, some, {}, 4)
     /\ Row(expiration[6], Op("get", docid), {"KEY_ENOENT"}, NoBody, {}, 0)
     /\ Row(expiration[7], Write("set", docid, some, 0), {}, NoBody, {}, 0)
     /\ Row(expiration[8], TouchOp("touch", docid, 1), {"SUCCESS"}, NoBody, {}, 4)
     /\ Row(expiration[9], Op("get", docid), {"KEY_ENOENT"}, NoBody, {}, 0)
<1> DEFINE some == Value("some")
<1>1. /\ DOMAIN expiration = 1 .. 9
      /\ expiration[1] = Quiet(Write("set", docid, some, 2))
      /\ expiration[2] = Nap(Shows(Op("get", docid), some), 4)
      /\ expiration[3] = Says(TouchOp("touch", docid, 0), "KEY_ENOENT")
      /\ expiration[4] = Quiet(Write("set", docid, some, 0))
      /\ expiration[5] = Nap(Shows(TouchOp("get_and_touch", docid, 1), some), 4)
      /\ expiration[6] = Says(Op("get", docid), "KEY_ENOENT")
      /\ expiration[7] = Quiet(Write("set", docid, some, 0))
      /\ expiration[8] = Nap(Says(TouchOp("touch", docid, 1), "SUCCESS"), 4)
      /\ expiration[9] = Says(Op("get", docid), "KEY_ENOENT")
  BY DEF expiration
<1> HIDE DEF some
<1>2. \A op : /\ Row(Nap(Shows(op, some), 4), op, {"SUCCESS"}, some, {}, 4)
             /\ Row(Nap(Says(op, "SUCCESS"), 4), op, {"SUCCESS"}, NoBody, {}, 4)
  <2> SUFFICES ASSUME NEW op
               PROVE  /\ Row(Nap(Shows(op, some), 4), op, {"SUCCESS"}, some, {}, 4)
                      /\ Row(Nap(Says(op, "SUCCESS"), 4), op, {"SUCCESS"}, NoBody, {}, 4)
    OBVIOUS
  <2>1. Row(Shows(op, some), op, {"SUCCESS"}, some, {}, 0) /\ Row(Says(op, "SUCCESS"), op, {"SUCCESS"}, NoBody, {}, 0)
    BY ShownRow, SaysRow
  <2> QED
    BY <2>1, RowSettings
<1>3. /\ Row(expiration[1], Write("set", docid, some, 2), {}, NoBody, {}, 0)
      /\ Row(expiration[4], Write("set", docid, some, 0), {}, NoBody, {}, 0)
      /\ Row(expiration[7], Write("set", docid, some, 0), {}, NoBody, {}, 0)
  BY <1>1, QuietRow
<1>4. /\ Row(expiration[3], TouchOp("touch", docid, 0), {"KEY_ENOENT"}, NoBody, {}, 0)
      /\ Row(expiration[6], Op("get", docid), {"KEY_ENOENT"}, NoBody, {}, 0)
      /\ Row(expiration[9], Op("get", docid), {"KEY_ENOENT"}, NoBody, {}, 0)
  BY <1>1, SaysRow
<1>5. /\ Row(expiration[2], Op("get", docid), {"SUCCESS"}, some, {}, 4)
      /\ Row(expiration[5], TouchOp("get_and_touch", docid, 1), {"SUCCESS"}, some, {}, 4)
      /\ Row(expiration[8], TouchOp("touch", docid, 1), {"SUCCESS"}, NoBody, {}, 4)
  BY <1>1, <1>2
<1> QED
  BY <1>1, <1>3, <1>4, <1>5 DEF some

\* c/updating.c.
LEMMA UpdatingRows ==
  LET property == Value("property")
  IN /\ DOMAIN updating = 1 .. 3
     /\ Row(updating[1], Write("set", docid, property, 0), {"SUCCESS"}, NoBody, {}, 0)
     /\ Row(updating[2], Write("add", docid, property, 0), {"KEY_EEXISTS"}, NoBody, {}, 0)
     /\ Row(updating[3], Write("replace", docid, property, 0), {"SUCCESS"}, NoBody, {}, 0)
<1> DEFINE property == Value("property")
           op == Write("set", docid, property, 0)
           first == Says(op, "SUCCESS")
           said == {"SUCCESS"}
<1>1. /\ DOMAIN updating = 1 .. 3
      /\ updating[1] = [first EXCEPT !.unscheduled = "exit"]
      /\ updating[2] = Says(Write("add", docid, property, 0), "KEY_EEXISTS")
      /\ updating[3] = Says(Write("replace", docid, property, 0), "SUCCESS")
  BY DEF updating
<1>2. Row(first, op, said, NoBody, {}, 0)
  BY SaysRow
<1> HIDE DEF property, op, first, said
<1>3. Row([first EXCEPT !.unscheduled = "exit"], op, said, NoBody, {}, 0)
  BY <1>2, RowSettings
<1>4. Row(updating[1], op, said, NoBody, {}, 0)
  BY <1>1, <1>3
<1>5. /\ Row(updating[2], Write("add", docid, property, 0), {"KEY_EEXISTS"}, NoBody, {}, 0)
      /\ Row(updating[3], Write("replace", docid, property, 0), {"SUCCESS"}, NoBody, {}, 0)
  BY <1>1, SaysRow
<1> QED
  BY <1>1, <1>4, <1>5 DEF property, op, said

\* c/retrieving.cc and c/cloud.c.
LEMMA GetRows ==
  LET key == Key("travel-sample", "a_key")
      cloudKey == Key("cloud", "key")
  IN /\ DOMAIN retrieving = 1 .. 3
     /\ Row(retrieving[1], Write("set", key, Value("some"), 0), {}, NoBody, {}, 0)
     /\ Row(retrieving[2], Op("get", key), {"SUCCESS"}, Value("some"), {}, 0)
     /\ Row(retrieving[3], Op("get", missing), {"KEY_ENOENT"}, NoBody, {}, 0)
     /\ DOMAIN cloud = 1 .. 2
     /\ Row(cloud[1], Write("set", cloudKey, Value("true"), 0), {}, NoBody, {}, 0)
     /\ Row(cloud[2], Op("get", cloudKey), {"SUCCESS"}, Value("true"), {}, 0)
<1> DEFINE key == Key("travel-sample", "a_key")
           cloudKey == Key("cloud", "key")
<1>1. /\ DOMAIN retrieving = 1 .. 3
      /\ retrieving[1] = Unheard(Write("set", key, Value("some"), 0))
      /\ retrieving[2] = Shows(Op("get", key), Value("some"))
      /\ retrieving[3] = Says(Op("get", missing), "KEY_ENOENT")
  BY DEF retrieving, missing
<1>2. /\ DOMAIN cloud = 1 .. 2
      /\ cloud[1] = Quiet(Write("set", cloudKey, Value("true"), 0))
      /\ cloud[2] = Shows(Op("get", cloudKey), Value("true"))
  BY DEF cloud
<1> HIDE DEF key, cloudKey
<1>3. Row(retrieving[1], Write("set", key, Value("some"), 0), {}, NoBody, {}, 0)
  BY <1>1, UnheardRow
<1>4. Row(retrieving[2], Op("get", key), {"SUCCESS"}, Value("some"), {}, 0)
  BY <1>1, ShownRow
<1>5. Row(retrieving[3], Op("get", missing), {"KEY_ENOENT"}, NoBody, {}, 0)
  BY <1>1, SaysRow
<1>6. Row(cloud[1], Write("set", cloudKey, Value("true"), 0), {}, NoBody, {}, 0)
  BY <1>2, QuietRow
<1>7. Row(cloud[2], Op("get", cloudKey), {"SUCCESS"}, Value("true"), {}, 0)
  BY <1>2, ShownRow
<1> QED
  BY <1>1, <1>2, <1>3, <1>4, <1>5, <1>6, <1>7 DEF key, cloudKey

\* The paths c/subdoc-retrieving.cc prints of the person.
emailAndArray == [path \in {"email", "array[1]"} |-> Person(3)[path]]

\* Its lookup.
lookup == LookupOp(a_key, {"email", "array[1]", "non-exist"})

\* c/subdoc-retrieving.cc.
LEMMA LookupRows ==
  /\ DOMAIN subdoc_retrieving = 1 .. 2
  /\ Row(subdoc_retrieving[1], Write("set", a_key, Person(3), 0), {}, NoBody, {}, 0)
  /\ Row(subdoc_retrieving[2], lookup, {"MULTI_FAILURE"}, emailAndArray, {"MULTI_FAILURE"}, 0)
<1> DEFINE first == Quiet(lookup)
           codes == {"MULTI_FAILURE"}
           body == emailAndArray
           second == [[[first EXCEPT !.says = codes] EXCEPT !.asserts = codes] EXCEPT !.shows = body]
<1>1. Row(first, lookup, {}, NoBody, {}, 0)
  BY QuietRow
<1>2. /\ DOMAIN subdoc_retrieving = 1 .. 2
      /\ subdoc_retrieving[1] = Unheard(Write("set", a_key, Person(3), 0))
      /\ subdoc_retrieving[2] = second
  BY DEF subdoc_retrieving, subdoc_retrieving_Stores, lookup, emailAndArray
<1> HIDE DEF first, codes, body
<1>3. Row([first EXCEPT !.says = codes], lookup, codes, NoBody, {}, 0)
  BY <1>1, RowSettings
<1>4. Row([[first EXCEPT !.says = codes] EXCEPT !.asserts = codes], lookup, codes, NoBody, codes, 0)
  BY <1>3, RowSettings
<1>5. Row(second, lookup, codes, body, codes, 0)
  BY <1>4, RowSettings
<1> HIDE DEF second
<1>6. Row(subdoc_retrieving[2], lookup, codes, body, codes, 0)
  BY <1>2, <1>5
<1>7. Row(subdoc_retrieving[1], Write("set", a_key, Person(3), 0), {}, NoBody, {}, 0)
  BY <1>2, UnheardRow
<1> QED
  BY <1>2, <1>6, <1>7 DEF codes, body

\* The three mutations of c/subdoc-updating.cc in one command.
manyPaths == MutateOp(a_key, <<PathSpec("array", {"array"}, {}, 1),
                               PathSpec("array[0]", {"array[0]"}, {}, 99),
                               PathSpec("description", {}, {"description"}, 0)>>)

\* The mutation of a deep path, without its parents and making them.
deepPath == MutateOp(a_key, <<PathSpec("some.deep.path", {"some.deep"}, {"some.deep.path"}, 0)>>)

madePath == MutateOp(a_key, <<PathSpec("some.deep.path", {},
                                       {"some", "some.deep", "some.deep.path"}, 0)>>)

\* What a refused mutation tells of the path it failed at.
Missing(path) == [x \in {path} |-> "PATH_ENOENT"]

\* What it prints of the refused one.
deepStatus == Missing("some.deep.path")

\* What it prints of the others.
updatedPaths == [path \in {"array", "array[0]", "description"} |->
                   CASE path = "array" -> 5 [] path = "array[0]" -> 100 [] path = "description" -> 0]

\* c/subdoc-updating.cc.
LEMMA MutationRows ==
  /\ DOMAIN subdoc_updating = 1 .. 5
  /\ Row(subdoc_updating[1], Write("set", a_key, Person(4), 0), {}, NoBody, {}, 0)
  /\ Row(subdoc_updating[2], manyPaths, {"SUCCESS"}, NoBody, {"SUCCESS"}, 0)
  /\ Row(subdoc_updating[3], Op("get", a_key), {"SUCCESS"}, updatedPaths, {"SUCCESS"}, 0)
  /\ Row(subdoc_updating[4], deepPath, {"MULTI_FAILURE"}, deepStatus, {}, 0)
  /\ Row(subdoc_updating[5], madePath, {"SUCCESS"}, NoBody, {}, 0)
<1> DEFINE ok == {"SUCCESS"}
           b2 == Says(manyPaths, "SUCCESS")
           b3 == Says(Op("get", a_key), "SUCCESS")
           r1 == Unheard(Write("set", a_key, Person(4), 0))
           r2 == [b2 EXCEPT !.asserts = ok]
           r3 == [[[b3 EXCEPT !.asserts = ok] EXCEPT !.asserted_by = "callback"] EXCEPT !.shows = updatedPaths]
           b4 == Says(deepPath, "MULTI_FAILURE")
           r4 == [b4 EXCEPT !.shows = deepStatus]
           r5 == Says(madePath, "SUCCESS")
<1>1. subdoc_updating = <<r1, r2, r3, r4, r5>>
  BY Zenon DEF subdoc_updating, manyPaths, deepPath, madePath, updatedPaths, deepStatus, Missing
<1>2. Row(r1, Write("set", a_key, Person(4), 0), {}, NoBody, {}, 0)
  BY UnheardRow
<1>3. Row(b4, deepPath, {"MULTI_FAILURE"}, NoBody, {}, 0) /\ Row(r5, madePath, {"SUCCESS"}, NoBody, {}, 0)
  BY SaysRow
<1>4. Row(b2, manyPaths, ok, NoBody, {}, 0) /\ Row(b3, Op("get", a_key), ok, NoBody, {}, 0)
  BY SaysRow
<1> HIDE DEF ok, b2, b3, b4, r1, r5
<1>5. Row(r2, manyPaths, ok, NoBody, ok, 0)
  BY <1>4, RowSettings
<1>6. Row(r3, Op("get", a_key), ok, updatedPaths, ok, 0)
  <2>1. Row([b3 EXCEPT !.asserts = ok], Op("get", a_key), ok, NoBody, ok, 0)
    BY <1>4, RowSettings
  <2>2. Row([[b3 EXCEPT !.asserts = ok] EXCEPT !.asserted_by = "callback"], Op("get", a_key), ok, NoBody, ok, 0)
    BY <2>1, RowSettings
  <2> QED
    BY <2>2, RowSettings
<1>7. Row(r4, deepPath, {"MULTI_FAILURE"}, deepStatus, {}, 0)
  BY <1>3, RowSettings
<1> HIDE DEF r2, r3, r4
<1>8. /\ DOMAIN subdoc_updating = 1 .. 5
      /\ subdoc_updating[1] = r1 /\ subdoc_updating[2] = r2 /\ subdoc_updating[3] = r3
      /\ subdoc_updating[4] = r4 /\ subdoc_updating[5] = r5
  BY <1>1
<1> QED
  BY <1>2, <1>3, <1>5, <1>6, <1>7, <1>8 DEF ok

\* c/query-consistency.cc and c/query-atplus.cc.
LEMMA AskingRows ==
  ASSUME NEW n
  PROVE  /\ DOMAIN query_consistency(n) = 1 .. 2
         /\ Row(query_consistency(n)[1], Write("set", User(n), Value("Brass"), 0), {}, NoBody, {}, 0)
         /\ Row(query_consistency(n)[2], QueryOp("default", "request"), {}, [k \in {User(n)} |-> 0], {}, 0)
         /\ DOMAIN query_atplus(n) = 1 .. 2
         /\ Row(query_atplus(n)[1], Write("set", User(n), Value("Brass"), 0), {}, NoBody, {}, 0)
         /\ Row(query_atplus(n)[2], QueryOp("default", "at_plus"), {}, [k \in {User(n)} |-> 0], {}, 0)
<1> DEFINE op == Write("set", User(n), Value("Brass"), 0)
           ask == QueryOp("default", "at_plus")
           q1 == Quiet(op)
           q2 == ShowsRow(ask, User(n))
           body == [k \in {User(n)} |-> 0]
           wait == QueryOp("default", "request")
           w1 == Unheard(op)
           w2 == ShowsRow(wait, User(n))
<1>1. query_consistency(n) = <<w1, w2>>
  BY Zenon DEF query_consistency
<1>2. query_atplus(n) = <<[q1 EXCEPT !.failed = "exit"], [q2 EXCEPT !.unscheduled = "abort"]>>
  BY Zenon DEF query_atplus
<1>3. Row(q1, op, {}, NoBody, {}, 0) /\ Row(w1, op, {}, NoBody, {}, 0)
  BY QuietRow, UnheardRow
<1>4. Row(q2, ask, {}, body, {}, 0) /\ Row(w2, wait, {}, body, {}, 0)
  BY RowOfRows
<1> HIDE DEF op, ask, q1, q2, body, wait, w1, w2
<1>5. Row([q1 EXCEPT !.failed = "exit"], op, {}, NoBody, {}, 0)
  BY <1>3, RowSettings
<1>6. Row([q2 EXCEPT !.unscheduled = "abort"], ask, {}, body, {}, 0)
  BY <1>4, RowSettings
<1> DEFINE q3 == [q1 EXCEPT !.failed = "exit"]
           q4 == [q2 EXCEPT !.unscheduled = "abort"]
<1>7. query_atplus(n) = <<q3, q4>> /\ Row(q3, op, {}, NoBody, {}, 0) /\ Row(q4, ask, {}, body, {}, 0)
  BY <1>2, <1>5, <1>6
<1> HIDE DEF q3, q4
<1>8. /\ DOMAIN query_consistency(n) = 1 .. 2
      /\ query_consistency(n)[1] = w1 /\ query_consistency(n)[2] = w2
  BY <1>1
<1>9. /\ DOMAIN query_atplus(n) = 1 .. 2
      /\ query_atplus(n)[1] = q3 /\ query_atplus(n)[2] = q4
  BY <1>7
<1> QED
  BY <1>3, <1>4, <1>7, <1>8, <1>9 DEF op, ask, body, wait

\* c/create-remove-bucket.cc.
LEMMA BucketRows ==
  /\ DOMAIN create_remove_bucket = 1 .. 2
  /\ Row(create_remove_bucket[1], Write("create", newBucket, NoBody, 0), {}, NoBody, {}, 0)
  /\ Row(create_remove_bucket[2], Op("remove", newBucket), {"SUCCESS"}, NoBody, {}, 0)
<1> DEFINE first == Quiet(Write("create", newBucket, NoBody, 0))
           second == Says(Op("remove", newBucket), "SUCCESS")
<1>1. create_remove_bucket = <<first, second>>
  BY Zenon DEF create_remove_bucket
<1>2. Row(first, Write("create", newBucket, NoBody, 0), {}, NoBody, {}, 0)
  BY QuietRow
<1>3. Row(second, Op("remove", newBucket), {"SUCCESS"}, NoBody, {}, 0)
  BY SaysRow
<1> HIDE DEF first, second
<1>4. DOMAIN create_remove_bucket = 1 .. 2 /\ create_remove_bucket[1] = first /\ create_remove_bucket[2] = second
  BY <1>1
<1> QED
  BY <1>2, <1>3, <1>4
-----------------------------------------------------------------------------
(* What each operation leaves and answers. *)

\* What is left and answered when a document is there, and when it is not.
LEMMA Ends ==
  ASSUME NEW d, NEW x, NEW rc, NEW body
  PROVE  /\ Done(x, rc, body).doc = x /\ Done(x, rc, body).answer = Answer(rc, body)
         /\ Fails(d, rc).doc = d /\ Fails(d, rc).answer = Answer(rc, NoBody)
         /\ d.there => IfThere(d, Done(x, rc, body)) = Done(x, rc, body)
         /\ ~ d.there => IfThere(d, Done(x, rc, body)) = Fails(d, "KEY_ENOENT")
         /\ Answer(rc, body).rc = rc /\ Answer(rc, body).body = body
BY DEF Done, Fails, IfThere, Answer

\* The documents that are stored or removed.
LEMMA DocFields ==
  ASSUME NEW body, NEW life, NEW by
  PROVE  /\ Doc(body, life, by).there /\ Doc(body, life, by).body = body
         /\ Doc(body, life, by).life = life /\ Doc(body, life, by).by = by
         /\ ~ Gone(by).there /\ Gone(by).by = by
         /\ Holds(Doc(body, life, by), body) /\ \A path : path \in DOMAIN Value(path)
BY DEF Doc, Gone, Holds, Value

\* What each operation is, by its name.
LEMMA WriteHandled ==
  ASSUME NEW key, NEW body, NEW life, NEW d, NEW by
  PROVE  /\ Handle(Write("set", key, body, life), d, by) = Done(Doc(body, life, by), "SUCCESS", NoBody)
         /\ Handle(Write("add", key, body, life), d, by) =
              IF d.there THEN Fails(d, "KEY_EEXISTS") ELSE Done(Doc(body, life, by), "SUCCESS", NoBody)
         /\ Handle(Write("replace", key, body, life), d, by) =
              IfThere(d, Done(Doc(body, life, by), "SUCCESS", NoBody))
         /\ Handle(Write("create", key, body, life), d, by) =
              IF d.there THEN Fails(d, "EXISTS") ELSE Done(Doc(body, life, by), "SUCCESS", NoBody)
<1>1. \A name : LET op == Write(name, key, body, life)
                IN op.does = name /\ op.body = body /\ op.life = life
  BY DEF Write
<1>2. Handle(Write("set", key, body, life), d, by) = Done(Doc(body, life, by), "SUCCESS", NoBody)
  BY <1>1 DEF Handle, Set
<1>3. Handle(Write("add", key, body, life), d, by) =
              IF d.there THEN Fails(d, "KEY_EEXISTS") ELSE Done(Doc(body, life, by), "SUCCESS", NoBody)
  BY <1>1 DEF Handle, Set, Add
<1>4. Handle(Write("replace", key, body, life), d, by) =
              IfThere(d, Done(Doc(body, life, by), "SUCCESS", NoBody))
  BY <1>1 DEF Handle, Set, Replace
<1>5. Handle(Write("create", key, body, life), d, by) =
              IF d.there THEN Fails(d, "EXISTS") ELSE Done(Doc(body, life, by), "SUCCESS", NoBody)
  BY <1>1 DEF Handle, Set, Create
<1> QED
  BY <1>2, <1>3, <1>4, <1>5

\* Handle, of the operations that read, touch or remove.
LEMMA ReadHandled ==
  ASSUME NEW key, NEW d, NEW by
  PROVE  /\ Handle(Op("remove", key), d, by) = IfThere(d, Done(Gone(by), "SUCCESS", NoBody))
         /\ Handle(Op("get", key), d, by) = IfThere(d, Done(d, "SUCCESS", d.body))
<1>1. \A name : Op(name, key).does = name
  BY DEF Op
<1>2. Handle(Op("remove", key), d, by) = IfThere(d, Done(Gone(by), "SUCCESS", NoBody))
  BY <1>1 DEF Handle, RemoveDoc
<1>3. Handle(Op("get", key), d, by) = IfThere(d, Done(d, "SUCCESS", d.body))
  BY <1>1 DEF Handle, Get
<1> QED
  BY <1>2, <1>3

\* A document is stored.
LEMMA Stores ==
  ASSUME NEW key, NEW body, NEW life, NEW d, NEW by
  PROVE  LET set == Handle(Write("set", key, body, life), d, by)
             add == Handle(Write("add", key, body, life), d, by)
             replace == Handle(Write("replace", key, body, life), d, by)
             create == Handle(Write("create", key, body, life), d, by)
         IN /\ set.doc = Doc(body, life, by) /\ set.answer.rc = "SUCCESS"
            /\ d.there => add.doc = d /\ add.answer.rc = "KEY_EEXISTS"
            /\ d.there => replace.doc = Doc(body, life, by) /\ replace.answer.rc = "SUCCESS"
            /\ create.doc.there
<1>1. /\ Handle(Write("set", key, body, life), d, by).doc = Doc(body, life, by)
      /\ Handle(Write("set", key, body, life), d, by).answer.rc = "SUCCESS"
  BY WriteHandled, Ends
<1>2. d.there => /\ Handle(Write("add", key, body, life), d, by).doc = d
                 /\ Handle(Write("add", key, body, life), d, by).answer.rc = "KEY_EEXISTS"
  BY WriteHandled, Ends
<1>3. d.there => /\ Handle(Write("replace", key, body, life), d, by).doc = Doc(body, life, by)
                 /\ Handle(Write("replace", key, body, life), d, by).answer.rc = "SUCCESS"
  BY WriteHandled, Ends
<1>4. Handle(Write("create", key, body, life), d, by).doc.there
  <2> DEFINE end == Handle(Write("create", key, body, life), d, by)
  <2>1. end = IF d.there THEN Fails(d, "EXISTS") ELSE Done(Doc(body, life, by), "SUCCESS", NoBody)
    BY WriteHandled
  <2> HIDE DEF end
  <2>2. d.there => end.doc.there
    BY <2>1, Ends
  <2>3. ASSUME ~ d.there PROVE end.doc.there
    <3>1. end.doc = Doc(body, life, by)
      BY <2>1, <2>3, Ends
    <3>2. Doc(body, life, by).there
      BY DocFields
    <3> QED
      BY Zenon, <3>1, <3>2
  <2> QED
    BY Zenon, <2>2, <2>3 DEF end
<1> QED
  BY Zenon, <1>1, <1>2, <1>3, <1>4

\* A document is read or removed.
LEMMA Reads ==
  ASSUME NEW key, NEW d, NEW by
  PROVE  LET get == Handle(Op("get", key), d, by)
             remove == Handle(Op("remove", key), d, by)
         IN /\ get.doc = d
            /\ d.there => get.answer.rc = "SUCCESS" /\ get.answer.body = d.body
            /\ ~ d.there => get.answer.rc = "KEY_ENOENT"
            /\ ~ remove.doc.there
            /\ d.there => remove.answer.rc = "SUCCESS"
<1>1. /\ Handle(Op("get", key), d, by).doc = d
      /\ d.there => /\ Handle(Op("get", key), d, by).answer.rc = "SUCCESS"
                    /\ Handle(Op("get", key), d, by).answer.body = d.body
      /\ ~ d.there => Handle(Op("get", key), d, by).answer.rc = "KEY_ENOENT"
  BY ReadHandled DEF IfThere, Done, Fails, Answer
<1>2. /\ ~ Handle(Op("remove", key), d, by).doc.there
      /\ d.there => Handle(Op("remove", key), d, by).answer.rc = "SUCCESS"
  BY ReadHandled DEF IfThere, Done, Fails, Answer, Gone
<1> QED
  BY Zenon, <1>1, <1>2

\* A document's life is changed.
LEMMA Touches ==
  ASSUME NEW key, NEW life, NEW d, Shaped(d), NEW by
  PROVE  LET touch == Handle(TouchOp("touch", key, life), d, by)
         IN /\ ~ d.there => touch.answer.rc = "KEY_ENOENT"
            /\ d.there => touch.answer.rc = "SUCCESS" /\ touch.doc.life = life
<1> DEFINE x == [d EXCEPT !.life = life, !.by = by]
           op == TouchOp("touch", key, life)
           touch == Handle(op, d, by)
<1>1. op.does = "touch" /\ op.life = life
  BY DEF TouchOp
<1>2. x.life = life
  BY DEF Shaped
<1> HIDE DEF op
<1>3. Handle(op, d, by) = Touch(op, d, by)
  BY <1>1 DEF Handle
<1>4. Touch(op, d, by) = IfThere(d, Done([d EXCEPT !.life = op.life, !.by = by], "SUCCESS", NoBody))
  BY Zenon DEF Touch
<1>5. touch = IfThere(d, Done(x, "SUCCESS", NoBody))
  BY Zenon, <1>1, <1>3, <1>4
<1> HIDE DEF x, touch
<1>6. (~ d.there => touch.answer.rc = "KEY_ENOENT") /\ (d.there => touch.answer.rc = "SUCCESS" /\ touch.doc.life = life)
  BY <1>2, <1>5 DEF IfThere, Done, Fails, Answer
<1> QED
  BY Zenon, <1>6 DEF touch, op

\* It is, and the document is read.
LEMMA GetsAndTouches ==
  ASSUME NEW key, NEW life, NEW d, Shaped(d), d.there, NEW by
  PROVE  LET end == Handle(TouchOp("get_and_touch", key, life), d, by)
         IN end.answer.rc = "SUCCESS" /\ end.answer.body = d.body /\ end.doc.life = life
<1> DEFINE x == [d EXCEPT !.life = life, !.by = by]
           op == TouchOp("get_and_touch", key, life)
           end == Handle(op, d, by)
<1>1. op.does = "get_and_touch" /\ op.life = life
  BY DEF TouchOp
<1>2. x.life = life
  BY DEF Shaped
<1> HIDE DEF op
<1>3. Handle(op, d, by) = GetAndTouch(op, d, by)
  BY <1>1 DEF Handle
<1>4. GetAndTouch(op, d, by) = IfThere(d, Done([d EXCEPT !.life = op.life, !.by = by], "SUCCESS", d.body))
  BY Zenon DEF GetAndTouch
<1>5. end = IfThere(d, Done(x, "SUCCESS", d.body))
  BY Zenon, <1>1, <1>3, <1>4
<1> HIDE DEF x, end
<1>6. end.answer.rc = "SUCCESS" /\ end.answer.body = d.body /\ end.doc.life = life
  BY <1>2, <1>5 DEF IfThere, Done, Fails, Answer
<1> QED
  BY Zenon, <1>6 DEF end, op

\* What a counter is set to and answers.
LEMMA CountsTo ==
  ASSUME NEW key, NEW delta \in Int, NEW d, Shaped(d), NEW by
  PROVE  LET end == Handle(CounterOp(key, delta), d, by)
         IN /\ ~ d.there => /\ Holds(end.doc, Number(100))
                            /\ end.answer.rc = "SUCCESS" /\ end.answer.body = Number(100)
            /\ \A n \in Nat : Holds(d, Number(n)) =>
                 /\ Holds(end.doc, Number(n + delta))
                 /\ end.answer.rc = "SUCCESS" /\ end.answer.body = Number(n + delta)
<1> DEFINE op == CounterOp(key, delta)
<1>1. op.does = "counter" /\ op.delta = delta /\ op.initial = 100
  BY DEF CounterOp
<1> HIDE DEF op
<1>2. Handle(op, d, by) = Counter(op, d, by)
  BY <1>1 DEF Handle
<1>3. \A n : "" \in DOMAIN Number(n) /\ Number(n)[""] = IF n < 0 THEN 0 ELSE n
  BY DEF Number
<1> DEFINE end == Handle(op, d, by)
<1>4. ~ d.there => end = Done(Doc(Number(100), 0, by), "SUCCESS", Number(100))
  BY <1>1, <1>2 DEF Counter
<1>5. ASSUME NEW n \in Nat, Holds(d, Number(n))
      PROVE  end = Done([d EXCEPT !.body = Number(n + delta), !.by = by], "SUCCESS", Number(n + delta))
  <2>1. "" \in DOMAIN Number(n) /\ Number(n)[""] = n
    <3>1. "" \in DOMAIN Number(n) /\ Number(n)[""] = IF n < 0 THEN 0 ELSE n
      BY Zenon, <1>3
    <3>2. ~ (n < 0)
      BY <1>5
    <3> QED
      BY Zenon, <3>1, <3>2
  <2>2. d.there /\ d.body = Number(n)
    BY Zenon, <1>5 DEF Holds
  <2>3. "" \in DOMAIN d.body /\ d.body[""] = n
    BY Zenon, <2>1, <2>2
  <2>4. Counter(op, d, by) =
          LET m == Number(d.body[""] + op.delta) IN Done([d EXCEPT !.body = m, !.by = by], "SUCCESS", m)
    BY Zenon, <2>2, <2>3 DEF Counter
  <2> QED
    BY Zenon, <1>1, <1>2, <2>3, <2>4
<1> HIDE DEF end
<1>6. ~ d.there => /\ Holds(end.doc, Number(100))
                   /\ end.answer.rc = "SUCCESS" /\ end.answer.body = Number(100)
  BY <1>4, Ends, DocFields
<1>7. ASSUME NEW n \in Nat, Holds(d, Number(n))
      PROVE  /\ Holds(end.doc, Number(n + delta))
             /\ end.answer.rc = "SUCCESS" /\ end.answer.body = Number(n + delta)
  <2> DEFINE m == Number(n + delta)
             x == [d EXCEPT !.body = m, !.by = by]
  <2>1. end = Done(x, "SUCCESS", m)
    BY <1>5, <1>7
  <2> HIDE DEF m
  <2>2. Holds(x, m)
    BY <1>7 DEF Holds, Shaped
  <2> HIDE DEF x
  <2>3. end.doc = x /\ end.answer.rc = "SUCCESS" /\ end.answer.body = m
    BY <2>1, Ends
  <2> QED
    BY <2>2, <2>3 DEF m
<1> QED
  BY Zenon, <1>6, <1>7 DEF end, op

\* The body after the first paths of a mutation: each is applied to what those before it leave.
LEMMA AfterNone ==
  ASSUME NEW op, NEW d
  PROVE  After(op, d, 0) = d.body
<1> DEFINE F(g) == [j \in 0 .. 0 |-> IF j = 0 THEN d.body ELSE Apply(op.specs[j], g[j - 1])]
           h == [j \in 0 .. 0 |-> d.body]
<1>1. h = F(h)
  OBVIOUS
<1>2. \E g : g = F(g)
  BY <1>1
<1>3. PICK g : g = F(g) /\ After(op, d, 0) = g[0]
  BY <1>2 DEF After
<1> QED
  BY <1>3

\* The body after one spec is what the spec makes of it; after more, what they make of it in turn.
LEMMA AfterOne ==
  ASSUME NEW op, NEW d
  PROVE  After(op, d, 1) = Apply(op.specs[1], d.body)
<1> DEFINE F(g) == [j \in 0 .. 1 |-> IF j = 0 THEN d.body ELSE Apply(op.specs[j], g[j - 1])]
           h == [j \in 0 .. 1 |-> IF j = 0 THEN d.body ELSE Apply(op.specs[j], d.body)]
<1>1. h = F(h)
  OBVIOUS
<1>2. \E g : g = F(g)
  BY <1>1
<1>3. PICK g : g = F(g) /\ After(op, d, 1) = g[1]
  BY <1>2 DEF After
<1>4. g[0] = d.body /\ g[1] = Apply(op.specs[1], g[0])
  BY <1>3
<1> QED
  BY <1>3, <1>4

\* Two specs.
LEMMA AfterTwo ==
  ASSUME NEW op, NEW d
  PROVE  After(op, d, 2) = Apply(op.specs[2], Apply(op.specs[1], d.body))
<1> DEFINE F(g) == [j \in 0 .. 2 |-> IF j = 0 THEN d.body ELSE Apply(op.specs[j], g[j - 1])]
           b1 == Apply(op.specs[1], d.body)
           b2 == Apply(op.specs[2], b1)
           h == [j \in 0 .. 2 |-> IF j = 0 THEN d.body ELSE IF j = 1 THEN b1 ELSE b2]
<1>1. h = F(h)
  OBVIOUS
<1>2. \E g : g = F(g)
  BY <1>1
<1>3. PICK g : g = F(g) /\ After(op, d, 2) = g[2]
  BY <1>2 DEF After
<1>4. g[0] = d.body /\ g[1] = Apply(op.specs[1], g[0]) /\ g[2] = Apply(op.specs[2], g[1])
  BY <1>3
<1> QED
  BY <1>3, <1>4

\* Three specs.
LEMMA AfterThree ==
  ASSUME NEW op, NEW d
  PROVE  After(op, d, 3) = Apply(op.specs[3], Apply(op.specs[2], Apply(op.specs[1], d.body)))
<1> DEFINE F(g) == [j \in 0 .. 3 |-> IF j = 0 THEN d.body ELSE Apply(op.specs[j], g[j - 1])]
           b1 == Apply(op.specs[1], d.body)
           b2 == Apply(op.specs[2], b1)
           b3 == Apply(op.specs[3], b2)
           h == [j \in 0 .. 3 |-> IF j = 0 THEN d.body ELSE IF j = 1 THEN b1 ELSE IF j = 2 THEN b2 ELSE b3]
<1>1. h = F(h)
  OBVIOUS
<1>2. \E g : g = F(g)
  BY <1>1
<1>3. PICK g : g = F(g) /\ After(op, d, 3) = g[3]
  BY <1>2 DEF After
<1>4. /\ g[0] = d.body /\ g[1] = Apply(op.specs[1], g[0]) /\ g[2] = Apply(op.specs[2], g[1])
      /\ g[3] = Apply(op.specs[3], g[2])
  BY <1>3
<1> QED
  BY <1>3, <1>4

\* c/subdoc-updating.cc's mutations.
LEMMA ManyPaths ==
  ASSUME NEW d, Shaped(d), d.there, NEW by, {"array", "array[0]"} \subseteq DOMAIN d.body
  PROVE  LET end == Handle(manyPaths, d, by)
             body == end.doc.body
         IN /\ end.answer = Answer("SUCCESS", NoBody)
            /\ end.doc.there /\ end.doc.life = d.life
            /\ DOMAIN body = DOMAIN d.body \cup {"description"}
            /\ d.body["array"] \in Int => body["array"] = d.body["array"] + 1
            /\ d.body["array[0]"] \in Int => body["array[0]"] = d.body["array[0]"] + 99
            /\ "description" \notin DOMAIN d.body => body["description"] = 0
<1> DEFINE s1 == PathSpec("array", {"array"}, {}, 1)
           s2 == PathSpec("array[0]", {"array[0]"}, {}, 99)
           s3 == PathSpec("description", {}, {"description"}, 0)
           specs == <<s1, s2, s3>>
           b1 == Apply(s1, d.body)
           b2 == Apply(s2, b1)
           b3 == Apply(s3, b2)
<1>1. manyPaths.does = "mutate" /\ manyPaths.specs = specs
  BY DEF manyPaths, MutateOp
<1>2. DOMAIN specs = 1 .. 3 /\ Len(specs) = 3 /\ specs[1] = s1 /\ specs[2] = s2 /\ specs[3] = s3
  OBVIOUS
<1>3. /\ After(manyPaths, d, 0) = d.body /\ After(manyPaths, d, 1) = b1
      /\ After(manyPaths, d, 2) = b2 /\ After(manyPaths, d, 3) = b3
  <2> HIDE DEF specs
  <2>1. /\ After(manyPaths, d, 1) = Apply(manyPaths.specs[1], d.body)
        /\ After(manyPaths, d, 2) = Apply(manyPaths.specs[2], Apply(manyPaths.specs[1], d.body))
    BY AfterOne, AfterTwo
  <2>2. manyPaths.specs[1] = s1 /\ manyPaths.specs[2] = s2 /\ manyPaths.specs[3] = s3
    BY <1>1, <1>2
  <2> QED
    BY <2>1, <2>2, AfterNone, AfterThree
<1>4. /\ s1.path = "array" /\ s1.needs = {"array"} /\ s1.gives = {} /\ s1.delta = 1
      /\ s2.path = "array[0]" /\ s2.needs = {"array[0]"} /\ s2.gives = {} /\ s2.delta = 99
      /\ s3.path = "description" /\ s3.needs = {} /\ s3.gives = {"description"} /\ s3.delta = 0
  BY DEF PathSpec
<1> HIDE DEF s1, s2, s3, specs
<1>5. /\ DOMAIN b1 = DOMAIN d.body
      /\ b1["array"] = d.body["array"] + 1 /\ b1["array[0]"] = d.body["array[0]"] + 0
  BY <1>4 DEF Apply
<1> HIDE DEF b1
<1>6. /\ DOMAIN b2 = DOMAIN d.body
      /\ b2["array"] = b1["array"] + 0 /\ b2["array[0]"] = b1["array[0]"] + 99
  BY <1>4, <1>5 DEF Apply
<1> HIDE DEF b2
<1>7. /\ DOMAIN b3 = DOMAIN d.body \cup {"description"}
      /\ b3["array"] = b2["array"] + 0 /\ b3["array[0]"] = b2["array[0]"] + 0
      /\ "description" \notin DOMAIN d.body => b3["description"] = 0
  BY <1>4, <1>6 DEF Apply
<1> HIDE DEF b3
<1>8. Possible(manyPaths, d)
  <2>1. Applies(s1, After(manyPaths, d, 0)) /\ Applies(s2, After(manyPaths, d, 1)) /\ Applies(s3, After(manyPaths, d, 2))
    BY <1>3, <1>4, <1>5, <1>6 DEF Applies
  <2>2. ASSUME NEW i \in DOMAIN manyPaths.specs
        PROVE  Applies(manyPaths.specs[i], After(manyPaths, d, i - 1))
    <3>1. i = 1 \/ i = 2 \/ i = 3
      BY <1>1, <1>2
    <3> QED
      BY <1>1, <1>2, <2>1, <3>1
  <2> QED
    BY <2>2 DEF Possible
<1>9. Handle(manyPaths, d, by) = Done([d EXCEPT !.body = b3, !.by = by], "SUCCESS", NoBody)
  <2>1. Handle(manyPaths, d, by) = Mutate(manyPaths, d, by)
    BY <1>1 DEF Handle
  <2> QED
    BY <1>1, <1>2, <1>3, <1>8, <2>1 DEF Mutate, IfThere
<1> DEFINE left == [d EXCEPT !.body = b3, !.by = by]
<1>10. left.body = b3 /\ left.there /\ left.life = d.life
  BY DEF Shaped
<1> HIDE DEF left
<1>11. Handle(manyPaths, d, by).doc = left /\ Handle(manyPaths, d, by).answer = Answer("SUCCESS", NoBody)
  BY <1>9, Ends DEF left
<1> QED
  BY <1>5, <1>6, <1>7, <1>10, <1>11

\* A mutation of one path.
LEMMA OnePath ==
  ASSUME NEW key, NEW spec, NEW d, Shaped(d), d.there, NEW by
  PROVE  LET end == Handle(MutateOp(key, <<spec>>), d, by)
         IN /\ spec.needs \subseteq DOMAIN d.body =>
                 /\ end.answer = Answer("SUCCESS", NoBody)
                 /\ end.doc.there /\ end.doc.life = d.life
                 /\ DOMAIN end.doc.body = DOMAIN d.body \cup spec.gives
            /\ ~ (spec.needs \subseteq DOMAIN d.body) =>
                 end.doc = d /\ end.answer = Answer("MULTI_FAILURE", Missing(spec.path))
<1> DEFINE op == MutateOp(key, <<spec>>)
           b == Apply(spec, d.body)
           left == [d EXCEPT !.body = b, !.by = by]
           status == Missing(spec.path)
<1>1. op.does = "mutate" /\ op.specs = <<spec>>
  BY DEF MutateOp
<1>2. DOMAIN op.specs = {1} /\ Len(op.specs) = 1 /\ op.specs[1] = spec
  BY <1>1
<1> HIDE DEF op
<1>3. After(op, d, 0) = d.body /\ After(op, d, 1) = b
  BY <1>2, AfterNone, AfterOne
<1>4. DOMAIN b = DOMAIN d.body \cup spec.gives
  BY DEF Apply
<1> HIDE DEF b
<1>5. Possible(op, d) <=> spec.needs \subseteq DOMAIN d.body
  BY <1>2, <1>3 DEF Possible, Applies
<1>6. Handle(op, d, by) = IF Possible(op, d) THEN Done(left, "SUCCESS", NoBody)
                                             ELSE Done(d, "MULTI_FAILURE", status)
  <2> DEFINE failed == {op.specs[i].path : i \in {j \in DOMAIN op.specs : FailsAt(op, d, j)}}
  <2>1. Handle(op, d, by) = Mutate(op, d, by)
    BY <1>1 DEF Handle
  <2>2. ASSUME ~ Possible(op, d) PROVE failed = {spec.path}
    <3>1. FailsAt(op, d, 1)
      BY <1>2, <1>3, <1>5, <2>2 DEF FailsAt, Applies
    <3>2. {j \in DOMAIN op.specs : FailsAt(op, d, j)} = {1}
      BY <1>2, <3>1
    <3> QED
      BY <1>2, <3>2
  <2>3. Handle(op, d, by) = IF Possible(op, d) THEN Done(left, "SUCCESS", NoBody)
                            ELSE Done(d, "MULTI_FAILURE", [path \in failed |-> "PATH_ENOENT"])
    BY <1>2, <1>3, <2>1 DEF Mutate, IfThere
  <2>4. status = [path \in {spec.path} |-> "PATH_ENOENT"]
    BY Zenon DEF Missing
  <2> HIDE DEF failed, left, status
  <2> QED
    BY <2>2, <2>3, <2>4
<1>7. left.body = b /\ left.there /\ left.life = d.life
  BY DEF Shaped
<1> HIDE DEF left
<1> DEFINE end == Handle(op, d, by)
<1>8. Possible(op, d) => end.doc = left /\ end.answer = Answer("SUCCESS", NoBody)
  BY <1>6, Ends
<1> HIDE DEF status
<1>9. ~ Possible(op, d) => end.doc = d /\ end.answer = Answer("MULTI_FAILURE", status)
  BY <1>6, Ends
<1> HIDE DEF end
<1>10. /\ spec.needs \subseteq DOMAIN d.body =>
             /\ end.answer = Answer("SUCCESS", NoBody)
             /\ end.doc.there /\ end.doc.life = d.life
             /\ DOMAIN end.doc.body = DOMAIN d.body \cup spec.gives
       /\ ~ (spec.needs \subseteq DOMAIN d.body) =>
             end.doc = d /\ end.answer = Answer("MULTI_FAILURE", status)
  BY <1>4, <1>5, <1>7, <1>8, <1>9
<1> QED
  BY Zenon, <1>10 DEF end, op, status

\* c/subdoc-updating.cc's last two.
LEMMA DeepPaths ==
  ASSUME NEW d, Shaped(d), d.there, NEW by
  PROVE  /\ "some.deep" \notin DOMAIN d.body =>
              /\ Handle(deepPath, d, by).doc = d
              /\ Handle(deepPath, d, by).answer = Answer("MULTI_FAILURE", deepStatus)
         /\ Handle(madePath, d, by).answer = Answer("SUCCESS", NoBody)
         /\ \A op \in {deepPath, madePath} :
              LET left == Handle(op, d, by).doc
              IN /\ left.there /\ left.life = d.life /\ DOMAIN d.body \subseteq DOMAIN left.body
                 /\ "non-exist" \notin DOMAIN d.body => "non-exist" \notin DOMAIN left.body
<1> DEFINE s1 == PathSpec("some.deep.path", {"some.deep"}, {"some.deep.path"}, 0)
           s2 == PathSpec("some.deep.path", {}, {"some", "some.deep", "some.deep.path"}, 0)
<1>1. /\ s1.needs = {"some.deep"} /\ s1.gives = {"some.deep.path"} /\ s1.path = "some.deep.path"
      /\ s2.needs = {} /\ s2.gives = {"some", "some.deep", "some.deep.path"}
  BY DEF PathSpec
<1>2. deepPath = MutateOp(a_key, <<s1>>) /\ madePath = MutateOp(a_key, <<s2>>)
  BY Zenon DEF deepPath, madePath
<1> HIDE DEF s1, s2
<1> DEFINE e1 == Handle(deepPath, d, by)
           e2 == Handle(madePath, d, by)
           refused == Answer("MULTI_FAILURE", deepStatus)
<1>3. /\ s1.needs \subseteq DOMAIN d.body =>
           /\ e1.answer = Answer("SUCCESS", NoBody) /\ e1.doc.there /\ e1.doc.life = d.life
           /\ DOMAIN e1.doc.body = DOMAIN d.body \cup s1.gives
      /\ ~ (s1.needs \subseteq DOMAIN d.body) => e1.doc = d /\ e1.answer = refused
  BY <1>1, <1>2, OnePath DEF deepStatus
<1>4. s2.needs \subseteq DOMAIN d.body =>
           /\ e2.answer = Answer("SUCCESS", NoBody) /\ e2.doc.there /\ e2.doc.life = d.life
           /\ DOMAIN e2.doc.body = DOMAIN d.body \cup s2.gives
  BY <1>2, OnePath
<1> HIDE DEF e1, e2, refused
<1>5. "some.deep" \notin DOMAIN d.body => e1.doc = d /\ e1.answer = refused
  <2>1. "some.deep" \notin DOMAIN d.body => ~ (s1.needs \subseteq DOMAIN d.body)
    BY <1>1
  <2> QED
    BY Zenon, <1>3, <2>1
<1>6. e2.answer = Answer("SUCCESS", NoBody)
  BY <1>1, <1>4
<1>7. /\ e1.doc.there /\ e1.doc.life = d.life /\ DOMAIN d.body \subseteq DOMAIN e1.doc.body
      /\ "non-exist" \notin DOMAIN d.body => "non-exist" \notin DOMAIN e1.doc.body
  BY <1>1, <1>3
<1>8. /\ e2.doc.there /\ e2.doc.life = d.life /\ DOMAIN d.body \subseteq DOMAIN e2.doc.body
      /\ "non-exist" \notin DOMAIN d.body => "non-exist" \notin DOMAIN e2.doc.body
  BY <1>1, <1>4
<1> QED
  BY <1>5, <1>6, <1>7, <1>8 DEF e1, e2, refused

\* c/subdoc-retrieving.cc finds the paths that exist.
LEMMA LookupEnds ==
  ASSUME NEW d, d.there, NEW by
  PROVE  LET end == Handle(lookup, d, by)
             paths == {"email", "array[1]", "non-exist"}
         IN /\ end.doc = d
            /\ "non-exist" \notin DOMAIN d.body => end.answer.rc = "MULTI_FAILURE"
            /\ DOMAIN end.answer.body = paths \cap DOMAIN d.body
            /\ \A path \in paths \cap DOMAIN d.body : end.answer.body[path] = d.body[path]
<1> DEFINE paths == {"email", "array[1]", "non-exist"}
           found == Restrict(d.body, paths \cap DOMAIN d.body)
           rc == IF paths \subseteq DOMAIN d.body THEN "SUCCESS" ELSE "MULTI_FAILURE"
<1>1. lookup.does = "lookup" /\ lookup.paths = paths
  BY DEF lookup, LookupOp
<1>2. "non-exist" \notin DOMAIN d.body => rc = "MULTI_FAILURE"
  OBVIOUS
<1>3. DOMAIN found = paths \cap DOMAIN d.body /\ \A path \in paths \cap DOMAIN d.body : found[path] = d.body[path]
  BY DEF Restrict
<1> HIDE DEF paths
<1>4. Handle(lookup, d, by) = Done(d, rc, found)
  <2>1. Handle(lookup, d, by) = Lookup(lookup, d)
    BY <1>1 DEF Handle
  <2>2. Lookup(lookup, d) = IfThere(d, Done(d, rc, found))
    BY Zenon, <1>1 DEF Lookup
  <2> QED
    BY <2>1, <2>2, Ends
<1> HIDE DEF found, rc
<1>5. Handle(lookup, d, by).doc = d /\ Handle(lookup, d, by).answer.rc = rc /\ Handle(lookup, d, by).answer.body = found
  BY <1>4, Ends
<1> QED
  BY <1>2, <1>3, <1>5 DEF paths
-----------------------------------------------------------------------------
(* Each round of a program that announces something. *)

\* Where a round finds the document prepared, it leaves it so for the next one and is
\* answered what it announces.
Succeeds(p, r, d, by) ==
  LET R == Rounds[p][r]
      end == Handle(R.ops[1], d, by)
  IN Leaves(p, r, end.doc) /\ Announced(R, end.answer)

\* An answer of which nothing is announced but its code.
LEMMA JustACode ==
  ASSUME NEW R, R.shows = NoBody, NEW a, R.says = {} \/ a.rc \in R.says
  PROVE  Announced(R, a)
BY DEF Announced, NoBody

\* An answer with all that is announced.
LEMMA WholeBody ==
  ASSUME NEW R, NEW a, R.says = {} \/ a.rc \in R.says, a.body = R.shows
  PROVE  Announced(R, a)
BY DEF Announced

\* c/counter.cc: 100, 101, 51.
LEMMA CounterSucceeds ==
  ASSUME NEW p, p[1] = "counter", Rounds[p] = counter, NEW r \in 1 .. 4,
         NEW d, Shaped(d), NEW by, Prepared(p, r, d)
  PROVE  Succeeds(p, r, d, by)
<1> DEFINE R == Rounds[p][r]
           end == Handle(R.ops[1], d, by)
<1>1. R.nap = 0
  BY CounterRows DEF Row
<1>2. (r = 1 => ~ end.doc.there) /\ (r = 2 => Holds(end.doc, Number(100))) /\ (r = 3 => Holds(end.doc, Number(101)))
  <2>1. CASE r = 1
    <3>1. R.ops[1] = Op("remove", docid)
      BY <2>1, CounterRows DEF Row
    <3>2. ~ Handle(Op("remove", docid), d, by).doc.there
      BY Reads
    <3> QED
      BY <2>1, <3>1, <3>2
  <2>2. CASE r = 2
    <3>1. R.ops[1] = CounterOp(docid, 20) /\ ~ d.there
      BY <2>2, CounterRows DEF Row, Prepared
    <3>2. Holds(Handle(CounterOp(docid, 20), d, by).doc, Number(100))
      BY <3>1, CountsTo
    <3> QED
      BY <2>2, <3>1, <3>2
  <2>3. CASE r = 3
    <3>1. R.ops[1] = CounterOp(docid, 1) /\ Holds(d, Number(100))
      BY <2>3, CounterRows DEF Row, Prepared
    <3>2. Holds(Handle(CounterOp(docid, 1), d, by).doc, Number(100 + 1))
      BY <3>1, CountsTo
    <3> QED
      BY <2>3, <3>1, <3>2
  <2> QED
    BY <2>1, <2>2, <2>3
<1>3. Announced(R, end.answer)
  <2>1. CASE r = 1
    BY <2>1, CounterRows, JustACode DEF Row
  <2>2. CASE r = 2
    <3>1. R.ops[1] = CounterOp(docid, 20) /\ ~ d.there /\ R.says = {"SUCCESS"} /\ R.shows = Number(100)
      BY <2>2, CounterRows DEF Row, Prepared
    <3> DEFINE a == Handle(CounterOp(docid, 20), d, by).answer
    <3>2. a.rc = "SUCCESS" /\ a.body = Number(100)
      BY <3>1, CountsTo
    <3> QED
      BY <3>1, <3>2, WholeBody
  <2>3. CASE r = 3
    <3>1. R.ops[1] = CounterOp(docid, 1) /\ Holds(d, Number(100)) /\ R.says = {"SUCCESS"} /\ R.shows = Number(101)
      BY <2>3, CounterRows DEF Row, Prepared
    <3> DEFINE a == Handle(CounterOp(docid, 1), d, by).answer
    <3>2. a.rc = "SUCCESS" /\ a.body = Number(100 + 1)
      BY <3>1, CountsTo
    <3> QED
      BY <3>1, <3>2, WholeBody
  <2>4. CASE r = 4
    <3>1. R.ops[1] = CounterOp(docid, -50) /\ Holds(d, Number(101)) /\ R.says = {"SUCCESS"} /\ R.shows = Number(51)
      BY <2>4, CounterRows DEF Row, Prepared
    <3> DEFINE a == Handle(CounterOp(docid, -50), d, by).answer
    <3>2. a.rc = "SUCCESS" /\ a.body = Number(101 + (-50))
      BY <3>1, CountsTo
    <3>3. 101 + (-50) = 51
      OBVIOUS
    <3> QED
      BY <3>1, <3>2, <3>3, WholeBody
  <2> QED
    BY <2>1, <2>2, <2>3, <2>4
<1> HIDE DEF R, end
<1>4. Prepared(p, r + 1, end.doc)
  BY <1>2 DEF Prepared, Asking
<1> QED
  BY <1>1, <1>3, <1>4 DEF Succeeds, Leaves, R, end

\* c/expiration.cc: what should be read is read, and what should be gone is gone.
LEMMA ExpirationSucceeds ==
  ASSUME NEW p, p[1] = "expiration", Rounds[p] = expiration, NEW r \in 1 .. 9,
         NEW d, Shaped(d), NEW by, Prepared(p, r, d)
  PROVE  Succeeds(p, r, d, by)
<1> DEFINE R == Rounds[p][r]
           end == Handle(R.ops[1], d, by)
           some == Value("some")
<1>1. ASSUME r \in {1, 4, 7}
      PROVE  /\ R.nap = 0 /\ R.says = {} /\ R.shows = NoBody
             /\ end.doc.there /\ end.doc.body = some /\ (r = 1 => end.doc.life = 2)
  <2> DEFINE life == IF r = 1 THEN 2 ELSE 0
  <2>1. R.ops[1] = Write("set", docid, some, life) /\ R.nap = 0 /\ R.says = {} /\ R.shows = NoBody
    BY <1>1, ExpirationRows DEF Row
  <2> HIDE DEF some
  <2>2. Handle(Write("set", docid, some, life), d, by).doc = Doc(some, life, by)
    BY Stores
  <2>3. Doc(some, life, by).there /\ Doc(some, life, by).body = some /\ Doc(some, life, by).life = life
    BY DocFields
  <2> QED
    BY <2>1, <2>2, <2>3
<1>2. ASSUME r = 2
      PROVE  /\ R.nap = 4 /\ R.says = {"SUCCESS"} /\ R.shows = some
             /\ end.doc.life = 2 /\ end.answer.rc = "SUCCESS" /\ end.answer.body = some
  <2>1. R.ops[1] = Op("get", docid) /\ R.nap = 4 /\ R.says = {"SUCCESS"} /\ R.shows = some
    BY <1>2, ExpirationRows DEF Row
  <2>2. d.there /\ d.body = some /\ d.life = 2
    BY <1>2 DEF Prepared, Holds
  <2> QED
    BY <2>1, <2>2, Reads
<1>3. ASSUME r = 3
      PROVE  R.nap = 0 /\ R.says = {"KEY_ENOENT"} /\ R.shows = NoBody /\ end.answer.rc = "KEY_ENOENT"
  <2>1. R.ops[1] = TouchOp("touch", docid, 0) /\ R.nap = 0 /\ R.says = {"KEY_ENOENT"} /\ R.shows = NoBody
    BY <1>3, ExpirationRows DEF Row
  <2>2. ~ d.there
    BY <1>3 DEF Prepared
  <2>3. Handle(TouchOp("touch", docid, 0), d, by).answer.rc = "KEY_ENOENT"
    BY Zenon, <2>2, Touches
  <2> QED
    BY <2>1, <2>3
<1>4. ASSUME r = 5
      PROVE  /\ R.nap = 4 /\ R.says = {"SUCCESS"} /\ R.shows = some
             /\ end.doc.life = 1 /\ end.answer.rc = "SUCCESS" /\ end.answer.body = some
  <2>1. /\ R.ops[1] = TouchOp("get_and_touch", docid, 1)
        /\ R.nap = 4 /\ R.says = {"SUCCESS"} /\ R.shows = some
    BY <1>4, ExpirationRows DEF Row
  <2>2. d.there /\ d.body = some
    BY <1>4 DEF Prepared, Holds
  <2> QED
    BY <2>1, <2>2, GetsAndTouches
<1>5. ASSUME r \in {6, 9}
      PROVE  R.nap = 0 /\ R.says = {"KEY_ENOENT"} /\ R.shows = NoBody /\ end.answer.rc = "KEY_ENOENT"
  <2>1. R.ops[1] = Op("get", docid) /\ R.nap = 0 /\ R.says = {"KEY_ENOENT"} /\ R.shows = NoBody
    BY <1>5, ExpirationRows DEF Row
  <2>2. ~ d.there
    BY <1>5 DEF Prepared
  <2> QED
    BY <2>1, <2>2, Reads
<1>6. ASSUME r = 8
      PROVE  /\ R.nap = 4 /\ R.says = {"SUCCESS"} /\ R.shows = NoBody
             /\ end.doc.life = 1 /\ end.answer.rc = "SUCCESS"
  <2>1. R.ops[1] = TouchOp("touch", docid, 1) /\ R.nap = 4 /\ R.says = {"SUCCESS"} /\ R.shows = NoBody
    BY <1>6, ExpirationRows DEF Row
  <2>2. d.there
    BY <1>6 DEF Prepared
  <2>3. /\ Handle(TouchOp("touch", docid, 1), d, by).answer.rc = "SUCCESS"
        /\ Handle(TouchOp("touch", docid, 1), d, by).doc.life = 1
    BY <2>2, Touches
  <2> QED
    BY <2>1, <2>3
<1> HIDE DEF R, end, some
<1>7. Announced(R, end.answer)
  <2>1. CASE r \in {1, 4, 7} \cup {3, 6, 8, 9}
    BY <1>1, <1>3, <1>5, <1>6, <2>1, JustACode
  <2>2. CASE r \in {2, 5}
    BY <1>2, <1>4, <2>2, WholeBody
  <2> QED
    BY <2>1, <2>2
<1>8. CASE r \in {2, 5, 8}
  <2>1. R.nap = 4 /\ Fading(end.doc, 4)
    BY <1>2, <1>4, <1>6, <1>8 DEF Fading
  <2> QED
    BY <1>7, <2>1 DEF Succeeds, Leaves, R, end
<1>9. CASE r \in {1, 3, 4, 6, 7, 9}
  <2>1. R.nap = 0
    BY <1>1, <1>3, <1>5, <1>9
  <2>2. Prepared(p, r + 1, end.doc)
    BY <1>1, <1>9 DEF Prepared, Asking, Holds, some
  <2> QED
    BY <1>7, <2>1, <2>2 DEF Succeeds, Leaves, R, end
<1> QED
  BY <1>8, <1>9

\* c/updating.c: the insert fails and the replace does not.
LEMMA UpdatingSucceeds ==
  ASSUME NEW p, p[1] = "updating", Rounds[p] = updating, NEW r \in 1 .. 3,
         NEW d, Shaped(d), NEW by, Prepared(p, r, d)
  PROVE  Succeeds(p, r, d, by)
<1> DEFINE R == Rounds[p][r]
           end == Handle(R.ops[1], d, by)
           property == Value("property")
<1>1. R.nap = 0 /\ R.shows = NoBody
  BY UpdatingRows DEF Row
<1>2. ASSUME r = 1
      PROVE  R.says = {"SUCCESS"} /\ end.answer.rc = "SUCCESS" /\ end.doc.there
  <2>1. R.ops[1] = Write("set", docid, property, 0) /\ R.says = {"SUCCESS"}
    BY <1>2, UpdatingRows DEF Row
  <2> QED
    BY <2>1, Stores, DocFields
<1>3. ASSUME r = 2
      PROVE  R.says = {"KEY_EEXISTS"} /\ end.answer.rc = "KEY_EEXISTS" /\ end.doc.there
  <2>1. R.ops[1] = Write("add", docid, property, 0) /\ R.says = {"KEY_EEXISTS"} /\ d.there
    BY <1>3, UpdatingRows DEF Row, Prepared
  <2> QED
    BY <2>1, Stores
<1>4. ASSUME r = 3
      PROVE  R.says = {"SUCCESS"} /\ end.answer.rc = "SUCCESS"
  <2>1. R.ops[1] = Write("replace", docid, property, 0) /\ R.says = {"SUCCESS"} /\ d.there
    BY <1>4, UpdatingRows DEF Row, Prepared
  <2> QED
    BY <2>1, Stores
<1> HIDE DEF R, end
<1>5. Announced(R, end.answer)
  BY <1>1, <1>2, <1>3, <1>4, JustACode
<1>6. Prepared(p, r + 1, end.doc)
  BY <1>2, <1>3 DEF Prepared, Asking
<1> QED
  BY <1>1, <1>5, <1>6 DEF Succeeds, Leaves, R, end

\* c/retrieving.cc: the document is read, and one that nobody stores is not.
LEMMA RetrievingSucceeds ==
  ASSUME NEW p, p[1] = "retrieving", Rounds[p] = retrieving, NEW r \in 1 .. 3,
         NEW d, Shaped(d), NEW by, Prepared(p, r, d), r = 3 => ~ d.there
  PROVE  Succeeds(p, r, d, by)
<1> DEFINE R == Rounds[p][r]
           end == Handle(R.ops[1], d, by)
           some == Value("some")
           key == Key("travel-sample", "a_key")
<1>1. R.nap = 0
  BY GetRows DEF Row
<1>2. ASSUME r = 1
      PROVE  R.says = {} /\ R.shows = NoBody /\ Holds(end.doc, some)
  <2>1. R.ops[1] = Write("set", key, some, 0) /\ R.says = {} /\ R.shows = NoBody
    BY <1>2, GetRows DEF Row
  <2> QED
    BY <2>1, Stores, DocFields
<1>3. ASSUME r = 2
      PROVE  R.says = {"SUCCESS"} /\ R.shows = some /\ end.answer.rc = "SUCCESS" /\ end.answer.body = some
  <2>1. R.ops[1] = Op("get", key) /\ R.says = {"SUCCESS"} /\ R.shows = some
    BY <1>3, GetRows DEF Row
  <2>2. d.there /\ d.body = some
    BY <1>3 DEF Prepared, Holds
  <2> QED
    BY <2>1, <2>2, Reads
<1>4. ASSUME r = 3
      PROVE  R.says = {"KEY_ENOENT"} /\ R.shows = NoBody /\ end.answer.rc = "KEY_ENOENT"
  <2>1. R.ops[1] = Op("get", missing) /\ R.says = {"KEY_ENOENT"} /\ R.shows = NoBody
    BY <1>4, GetRows DEF Row
  <2> QED
    BY <1>4, <2>1, Reads
<1> HIDE DEF R, end, some
<1>5. Announced(R, end.answer)
  BY <1>2, <1>3, <1>4, JustACode, WholeBody
<1>6. Prepared(p, r + 1, end.doc)
  BY <1>2 DEF Prepared, Asking, some
<1> QED
  BY <1>1, <1>5, <1>6 DEF Succeeds, Leaves, R, end

\* c/cloud.c: the document is read.
LEMMA CloudSucceeds ==
  ASSUME NEW p, p[1] = "cloud", Rounds[p] = cloud, NEW r \in 1 .. 2,
         NEW d, Shaped(d), NEW by, Prepared(p, r, d)
  PROVE  Succeeds(p, r, d, by)
<1> DEFINE R == Rounds[p][r]
           end == Handle(R.ops[1], d, by)
           true == Value("true")
           key == Key("cloud", "key")
<1>1. R.nap = 0
  BY GetRows DEF Row
<1>2. ASSUME r = 1
      PROVE  R.says = {} /\ R.shows = NoBody /\ Holds(end.doc, true)
  <2>1. R.ops[1] = Write("set", key, true, 0) /\ R.says = {} /\ R.shows = NoBody
    BY <1>2, GetRows DEF Row
  <2> QED
    BY <2>1, Stores, DocFields
<1>3. ASSUME r = 2
      PROVE  R.says = {"SUCCESS"} /\ R.shows = true /\ end.answer.rc = "SUCCESS" /\ end.answer.body = true
  <2>1. R.ops[1] = Op("get", key) /\ R.says = {"SUCCESS"} /\ R.shows = true
    BY <1>3, GetRows DEF Row
  <2>2. d.there /\ d.body = true
    BY <1>3 DEF Prepared, Holds
  <2> QED
    BY <2>1, <2>2, Reads
<1> HIDE DEF R, end, true
<1>4. Announced(R, end.answer)
  BY <1>2, <1>3, JustACode, WholeBody
<1>5. Prepared(p, r + 1, end.doc)
  BY <1>2 DEF Prepared, Asking, true
<1> QED
  BY <1>1, <1>4, <1>5 DEF Succeeds, Leaves, R, end

\* c/create-remove-bucket.cc: the bucket that was created is removed.
LEMMA BucketSucceeds ==
  ASSUME NEW p, p[1] = "create_remove_bucket", Rounds[p] = create_remove_bucket, NEW r \in 1 .. 2,
         NEW d, Shaped(d), NEW by, Prepared(p, r, d)
  PROVE  Succeeds(p, r, d, by)
<1> DEFINE R == Rounds[p][r]
           end == Handle(R.ops[1], d, by)
<1>1. R.nap = 0 /\ R.shows = NoBody
  BY BucketRows DEF Row
<1>2. ASSUME r = 1
      PROVE  R.says = {} /\ end.doc.there
  <2>1. R.ops[1] = Write("create", newBucket, NoBody, 0) /\ R.says = {}
    BY <1>2, BucketRows DEF Row
  <2> QED
    BY <2>1, Stores
<1>3. ASSUME r = 2
      PROVE  R.says = {"SUCCESS"} /\ end.answer.rc = "SUCCESS"
  <2>1. R.ops[1] = Op("remove", newBucket) /\ R.says = {"SUCCESS"} /\ d.there
    BY <1>3, BucketRows DEF Row, Prepared
  <2> QED
    BY <2>1, Reads
<1> HIDE DEF R, end
<1>4. Announced(R, end.answer)
  BY <1>1, <1>2, <1>3, JustACode
<1>5. Prepared(p, r + 1, end.doc)
  BY <1>2 DEF Prepared, Asking
<1> QED
  BY <1>1, <1>4, <1>5 DEF Succeeds, Leaves, R, end

\* c/subdoc-retrieving.cc: the paths that exist are found.
LEMMA LookupSucceeds ==
  ASSUME NEW p, p[1] = "subdoc_retrieving", Rounds[p] = subdoc_retrieving, NEW r \in 1 .. 2,
         NEW d, Shaped(d), NEW by, Prepared(p, r, d)
  PROVE  Succeeds(p, r, d, by)
<1> DEFINE R == Rounds[p][r]
           end == Handle(R.ops[1], d, by)
<1>1. R.nap = 0
  BY LookupRows DEF Row
<1>2. ASSUME r = 1
      PROVE  R.says = {} /\ R.shows = NoBody /\ Holds(end.doc, Person(3))
  <2>1. R.ops[1] = Write("set", a_key, Person(3), 0) /\ R.says = {} /\ R.shows = NoBody
    BY <1>2, LookupRows DEF Row
  <2> QED
    BY <2>1, Stores, DocFields
<1>3. ASSUME r = 2
      PROVE  /\ R.says = {"MULTI_FAILURE"} /\ end.answer.rc = "MULTI_FAILURE"
             /\ \A path \in DOMAIN R.shows : path \in DOMAIN end.answer.body /\ end.answer.body[path] = R.shows[path]
  <2>1. R.ops[1] = lookup /\ R.says = {"MULTI_FAILURE"} /\ R.shows = emailAndArray
    BY <1>3, LookupRows DEF Row
  <2>2. d.there /\ d.body = Person(3)
    BY <1>3 DEF Prepared, Holds
  <2> DEFINE a == Handle(lookup, d, by).answer
             paths == {"email", "array[1]", "non-exist"}
  <2>3. /\ "non-exist" \notin DOMAIN d.body => a.rc = "MULTI_FAILURE"
        /\ DOMAIN a.body = paths \cap DOMAIN d.body
        /\ \A path \in paths \cap DOMAIN d.body : a.body[path] = d.body[path]
    BY <2>2, LookupEnds
  <2>4. DOMAIN Person(3) = {"name", "email", "array", "array[0]", "array[1]"}
    BY DEF Person
  <2>5. DOMAIN emailAndArray = {"email", "array[1]"} /\ \A path \in {"email", "array[1]"} : emailAndArray[path] = Person(3)[path]
    BY DEF emailAndArray
  <2> HIDE DEF a
  <2>6. a.rc = "MULTI_FAILURE"
    BY <2>2, <2>3, <2>4
  <2>7. \A path \in DOMAIN emailAndArray : path \in DOMAIN a.body /\ a.body[path] = emailAndArray[path]
    BY <2>2, <2>3, <2>4, <2>5
  <2> QED
    BY <2>1, <2>6, <2>7 DEF a
<1> HIDE DEF R, end
<1>4. Announced(R, end.answer)
  BY <1>2, <1>3, JustACode DEF Announced
<1>5. Prepared(p, r + 1, end.doc)
  BY <1>2 DEF Prepared, Asking
<1> QED
  BY <1>1, <1>4, <1>5 DEF Succeeds, Leaves, R, end

\* c/subdoc-updating.cc: the list is longer, its first element larger, and a path is made.
LEMMA MutationSucceeds ==
  ASSUME NEW p, p[1] = "subdoc_updating", Rounds[p] = subdoc_updating, NEW r \in 1 .. 5,
         NEW d, Shaped(d), NEW by, Prepared(p, r, d)
  PROVE  Succeeds(p, r, d, by)
<1> DEFINE R == Rounds[p][r]
           end == Handle(R.ops[1], d, by)
           made(x) == /\ x.there /\ {"array", "array[0]", "description"} \subseteq DOMAIN x.body
                      /\ x.body["array"] = 5 /\ x.body["array[0]"] = 100 /\ x.body["description"] = 0
<1>1. R.nap = 0
  BY MutationRows DEF Row
<1>2. ASSUME r = 1
      PROVE  R.says = {} /\ R.shows = NoBody /\ Holds(end.doc, Person(4))
  <2>1. R.ops[1] = Write("set", a_key, Person(4), 0) /\ R.says = {} /\ R.shows = NoBody
    BY <1>2, MutationRows DEF Row
  <2> QED
    BY <2>1, Stores, DocFields
<1>3. ASSUME r = 2
      PROVE  /\ R.says = {"SUCCESS"} /\ R.shows = NoBody /\ end.answer.rc = "SUCCESS"
             /\ made(end.doc) /\ "some.deep" \notin DOMAIN end.doc.body
  <2>1. R.ops[1] = manyPaths /\ R.says = {"SUCCESS"} /\ R.shows = NoBody
    BY <1>3, MutationRows DEF Row
  <2>2. d.there /\ d.body = Person(4)
    BY <1>3 DEF Prepared, Holds
  <2>3. /\ DOMAIN Person(4) = {"name", "email", "array", "array[0]", "array[1]"}
        /\ Person(4)["array"] = 4 /\ Person(4)["array[0]"] = 1
    BY DEF Person
  <2>4. {"array", "array[0]"} \subseteq DOMAIN d.body
    BY <2>2, <2>3
  <2> DEFINE e == Handle(manyPaths, d, by)
  <2>5. /\ e.answer = Answer("SUCCESS", NoBody) /\ e.doc.there
        /\ DOMAIN e.doc.body = DOMAIN d.body \cup {"description"}
        /\ d.body["array"] \in Int => e.doc.body["array"] = d.body["array"] + 1
        /\ d.body["array[0]"] \in Int => e.doc.body["array[0]"] = d.body["array[0]"] + 99
        /\ "description" \notin DOMAIN d.body => e.doc.body["description"] = 0
    BY <2>2, <2>4, ManyPaths
  <2> HIDE DEF e
  <2>6. made(e.doc) /\ "some.deep" \notin DOMAIN e.doc.body
    BY <2>2, <2>3, <2>5
  <2>7. e.answer.rc = "SUCCESS"
    BY <2>5, Ends
  <2> QED
    BY <2>1, <2>6, <2>7 DEF e
<1>4. ASSUME r = 3
      PROVE  /\ R.says = {"SUCCESS"} /\ R.shows = updatedPaths /\ end.answer.rc = "SUCCESS"
             /\ \A path \in DOMAIN R.shows : path \in DOMAIN end.answer.body /\ end.answer.body[path] = R.shows[path]
             /\ end.doc.there /\ "some.deep" \notin DOMAIN end.doc.body
  <2>1. R.ops[1] = Op("get", a_key) /\ R.says = {"SUCCESS"} /\ R.shows = updatedPaths
    BY <1>4, MutationRows DEF Row
  <2>2. made(d) /\ "some.deep" \notin DOMAIN d.body
    BY <1>4 DEF Prepared
  <2>3. /\ Handle(Op("get", a_key), d, by).doc = d
        /\ Handle(Op("get", a_key), d, by).answer.rc = "SUCCESS"
        /\ Handle(Op("get", a_key), d, by).answer.body = d.body
    BY <2>2, Reads
  <2>4. /\ DOMAIN updatedPaths = {"array", "array[0]", "description"}
        /\ updatedPaths["array"] = 5 /\ updatedPaths["array[0]"] = 100 /\ updatedPaths["description"] = 0
    BY DEF updatedPaths
  <2> QED
    BY <2>1, <2>2, <2>3, <2>4
<1>5. ASSUME r = 4
      PROVE  /\ R.says = {"MULTI_FAILURE"} /\ end.answer.rc = "MULTI_FAILURE" /\ end.answer.body = R.shows
             /\ end.doc.there
  <2>1. R.ops[1] = deepPath /\ R.says = {"MULTI_FAILURE"} /\ R.shows = deepStatus
    BY <1>5, MutationRows DEF Row
  <2>2. d.there /\ "some.deep" \notin DOMAIN d.body
    BY <1>5 DEF Prepared
  <2>3. /\ Handle(deepPath, d, by).doc = d
        /\ Handle(deepPath, d, by).answer = Answer("MULTI_FAILURE", deepStatus)
    BY <2>2, DeepPaths
  <2> QED
    BY <2>1, <2>2, <2>3, Ends
<1>6. ASSUME r = 5
      PROVE  R.says = {"SUCCESS"} /\ R.shows = NoBody /\ end.answer.rc = "SUCCESS"
  <2>1. R.ops[1] = madePath /\ R.says = {"SUCCESS"} /\ R.shows = NoBody /\ d.there
    BY <1>6, MutationRows DEF Row, Prepared
  <2>2. Handle(madePath, d, by).answer = Answer("SUCCESS", NoBody)
    BY <2>1, DeepPaths
  <2> QED
    BY <2>1, <2>2, Ends
<1> HIDE DEF R, end
<1>7. Announced(R, end.answer)
  <2>1. CASE r \notin {3, 4}
    BY <1>2, <1>3, <1>6, <2>1, JustACode
  <2>2. CASE r = 3
    BY <1>4, <2>2 DEF Announced
  <2>3. CASE r = 4
    BY <1>5, <2>3, WholeBody
  <2> QED
    BY <2>1, <2>2, <2>3
<1>8. Prepared(p, r + 1, end.doc)
  BY <1>2, <1>3, <1>4, <1>5 DEF Prepared, Asking
<1> QED
  BY <1>1, <1>7, <1>8 DEF Succeeds, Leaves, R, end

\* c/query-consistency.cc and c/query-atplus.cc store the document whose row is asked for.
LEMMA AskingStores ==
  ASSUME NEW p, p[1] \in Asking,
         Rounds[p] = IF p[1] = "query_consistency" THEN query_consistency(p[2]) ELSE query_atplus(p[2]),
         NEW d, NEW by, by = Stamp(p, 1)
  PROVE  Succeeds(p, 1, d, by)
<1> DEFINE R == Rounds[p][1]
           end == Handle(R.ops[1], d, by)
           key == User(p[2])
           brass == Value("Brass")
<1>1. R.ops[1] = Write("set", key, brass, 0) /\ R.nap = 0 /\ R.says = {} /\ R.shows = NoBody
  <2> DEFINE T == query_consistency(p[2])
             U == query_atplus(p[2])
  <2>1. /\ Row(T[1], Write("set", key, brass, 0), {}, NoBody, {}, 0)
        /\ Row(U[1], Write("set", key, brass, 0), {}, NoBody, {}, 0)
    BY AskingRows
  <2> HIDE DEF T, U
  <2>2. Rounds[p] = T \/ Rounds[p] = U
    BY DEF T, U
  <2> QED
    BY <2>1, <2>2 DEF Row
<1>2. end.doc = Doc(brass, 0, by)
  BY <1>1, Stores
<1>3. end.doc.there /\ "Brass" \in DOMAIN end.doc.body /\ end.doc.by = by
  BY <1>2, DocFields
<1> HIDE DEF R, end
<1>4. Announced(R, end.answer)
  BY <1>1, JustACode
<1>5. Prepared(p, 2, end.doc)
  BY <1>3 DEF Prepared, Asking
<1> QED
  BY <1>1, <1>4, <1>5 DEF Succeeds, Leaves, R, end

\* The programs that announce something, and their rounds.
LEMMA TheirRounds ==
  ASSUME run \in Scenarios, NEW p \in run
  PROVE  /\ p \in Programs /\ IsProgram(p)
         /\ Rounds[p] = Table(p[1], p[2])
         /\ p[1] = "counter" => Rounds[p] = counter
         /\ p[1] = "expiration" => Rounds[p] = expiration
         /\ p[1] = "updating" => Rounds[p] = updating
         /\ p[1] = "retrieving" => Rounds[p] = retrieving
         /\ p[1] = "cloud" => Rounds[p] = cloud
         /\ p[1] = "subdoc_retrieving" => Rounds[p] = subdoc_retrieving
         /\ p[1] = "subdoc_updating" => Rounds[p] = subdoc_updating
         /\ p[1] = "query_consistency" => Rounds[p] = query_consistency(p[2])
         /\ p[1] = "query_atplus" => Rounds[p] = query_atplus(p[2])
         /\ p[1] = "create_remove_bucket" => Rounds[p] = create_remove_bucket
<1>1. p \in Programs /\ IsProgram(p)
  BY ScenariosAssumption DEF Programs, IsProgram
<1>2. Rounds[p] = Table(p[1], p[2])
  BY <1>1 DEF Rounds
<1> QED
  BY <1>1, <1>2 DEF Table

\* A round of such a program is one operation on its document, or asks for its row.
OnDocument(p, r) ==
  LET R == Rounds[p][r]
      op == R.ops[1]
  IN /\ R.ops = <<op>> /\ Len(R.ops) = 1 /\ DOMAIN R.ops = {1}
     /\ \/ op.does \in Simple /\ op.key = Document(p)
        \/ op.does = "get" /\ op.key = missing /\ p[1] = "retrieving" /\ r = 3
        \/ /\ p[1] \in Asking /\ r = 2 /\ R.nap = 0
           /\ op.does = "query" /\ op.key[1] = "default" /\ op.after \in {"request", "at_plus"}
           /\ R.says = {} /\ R.shows = [k \in {Document(p)} |-> 0]
     /\ R.nap > 0 => p[1] = "expiration" /\ r \in {2, 5, 8}
     /\ p[1] \in Asking => r = 1 \/ (r = 2 /\ op.does = "query")

\* The rounds of c/counter.cc.
LEMMA CounterOnDocument ==
  ASSUME NEW p, p[1] = "counter", Rounds[p] = counter, NEW r \in DOMAIN Rounds[p]
  PROVE  OnDocument(p, r)
<1> DEFINE R == Rounds[p][r]
<1>1. r \in 1 .. 4 /\ Document(p) = docid /\ p[1] \notin Asking
  BY CounterRows DEF Document, Asking, Subdocument
<1>2. R.ops = <<R.ops[1]>> /\ Len(R.ops) = 1 /\ DOMAIN R.ops = {1} /\ R.nap = 0
  BY <1>1, CounterRows DEF Row
<1>3. R.ops[1] \in {Op("remove", docid), CounterOp(docid, 20), CounterOp(docid, 1), CounterOp(docid, -50)}
  BY <1>1, CounterRows DEF Row
<1>4. R.ops[1].does \in Simple /\ R.ops[1].key = docid
  BY <1>3 DEF Simple, Op, Write, TouchOp, CounterOp
<1> QED
  BY <1>1, <1>2, <1>4 DEF OnDocument

\* The rounds of c/expiration.cc.
LEMMA ExpirationOnDocument ==
  ASSUME NEW p, p[1] = "expiration", Rounds[p] = expiration, NEW r \in DOMAIN Rounds[p]
  PROVE  OnDocument(p, r)
<1> DEFINE R == Rounds[p][r]
<1>1. r \in 1 .. 9 /\ Document(p) = docid /\ p[1] \notin Asking
  BY ExpirationRows DEF Document, Asking, Subdocument
<1>2. R.ops = <<R.ops[1]>> /\ Len(R.ops) = 1 /\ DOMAIN R.ops = {1}
  BY <1>1, ExpirationRows DEF Row
<1>5. r \notin {2, 5, 8} => R.nap = 0
  BY <1>1, ExpirationRows DEF Row
<1>3. R.ops[1] \in {Write("set", docid, Value("some"), 2), Write("set", docid, Value("some"), 0), Op("get", docid),
                    TouchOp("touch", docid, 0), TouchOp("touch", docid, 1), TouchOp("get_and_touch", docid, 1)}
  BY <1>1, ExpirationRows DEF Row
<1>4. R.ops[1].does \in Simple /\ R.ops[1].key = docid
  BY <1>3 DEF Simple, Op, Write, TouchOp, CounterOp
<1> QED
  BY <1>1, <1>2, <1>4, <1>5 DEF OnDocument

\* The rounds of c/updating.c.
LEMMA UpdatingOnDocument ==
  ASSUME NEW p, p[1] = "updating", Rounds[p] = updating, NEW r \in DOMAIN Rounds[p]
  PROVE  OnDocument(p, r)
<1> DEFINE R == Rounds[p][r]
           property == Value("property")
<1>1. r \in 1 .. 3 /\ Document(p) = docid /\ p[1] \notin Asking
  BY UpdatingRows DEF Document, Asking, Subdocument
<1>2. R.ops = <<R.ops[1]>> /\ Len(R.ops) = 1 /\ DOMAIN R.ops = {1} /\ R.nap = 0
  BY <1>1, UpdatingRows DEF Row
<1>3. R.ops[1] \in {Write("set", docid, property, 0), Write("add", docid, property, 0),
                    Write("replace", docid, property, 0)}
  BY <1>1, UpdatingRows DEF Row
<1>4. R.ops[1].does \in Simple /\ R.ops[1].key = docid
  BY <1>3 DEF Simple, Op, Write, TouchOp, CounterOp
<1> QED
  BY <1>1, <1>2, <1>4 DEF OnDocument

\* The rounds of c/retrieving.cc.
LEMMA RetrievingOnDocument ==
  ASSUME NEW p, p[1] = "retrieving", Rounds[p] = retrieving, NEW r \in DOMAIN Rounds[p]
  PROVE  OnDocument(p, r)
<1> DEFINE R == Rounds[p][r]
           key == Key("travel-sample", "a_key")
<1>1. r \in 1 .. 3 /\ Document(p) = key /\ p[1] \notin Asking
  BY GetRows DEF Document, Asking, Subdocument
<1>2. R.ops = <<R.ops[1]>> /\ Len(R.ops) = 1 /\ DOMAIN R.ops = {1} /\ R.nap = 0
  BY <1>1, GetRows DEF Row
<1>3. r \in {1, 2} => R.ops[1] \in {Write("set", key, Value("some"), 0), Op("get", key)}
  BY <1>1, GetRows DEF Row
<1>4. r = 3 => R.ops[1] = Op("get", missing)
  BY <1>1, GetRows DEF Row
<1> HIDE DEF key
<1>5. r \in {1, 2} => R.ops[1].does \in Simple /\ R.ops[1].key = key
  BY <1>3 DEF Simple, Op, Write, TouchOp, CounterOp
<1>6. r = 3 => R.ops[1].does = "get" /\ R.ops[1].key = missing
  BY <1>4 DEF Op
<1> QED
  BY <1>1, <1>2, <1>5, <1>6 DEF OnDocument

\* The rounds of c/cloud.c.
LEMMA CloudOnDocument ==
  ASSUME NEW p, p[1] = "cloud", Rounds[p] = cloud, NEW r \in DOMAIN Rounds[p]
  PROVE  OnDocument(p, r)
<1> DEFINE R == Rounds[p][r]
           key == Key("cloud", "key")
<1>1. r \in 1 .. 2 /\ Document(p) = key /\ p[1] \notin Asking
  BY GetRows DEF Document, Asking, Subdocument
<1>2. R.ops = <<R.ops[1]>> /\ Len(R.ops) = 1 /\ DOMAIN R.ops = {1} /\ R.nap = 0
  BY <1>1, GetRows DEF Row
<1>3. R.ops[1] \in {Write("set", key, Value("true"), 0), Op("get", key)}
  BY <1>1, GetRows DEF Row
<1> HIDE DEF key
<1>4. R.ops[1].does \in Simple /\ R.ops[1].key = key
  BY <1>3 DEF Simple, Op, Write, TouchOp, CounterOp
<1> QED
  BY <1>1, <1>2, <1>4 DEF OnDocument

\* The rounds of c/subdoc-retrieving.cc.
LEMMA LookupOnDocument ==
  ASSUME NEW p, p[1] = "subdoc_retrieving", Rounds[p] = subdoc_retrieving, NEW r \in DOMAIN Rounds[p]
  PROVE  OnDocument(p, r)
<1> DEFINE R == Rounds[p][r]
<1>1. r \in 1 .. 2 /\ Document(p) = a_key /\ p[1] \notin Asking
  BY LookupRows DEF Document, Asking, Subdocument
<1>2. R.ops = <<R.ops[1]>> /\ Len(R.ops) = 1 /\ DOMAIN R.ops = {1} /\ R.nap = 0
  BY <1>1, LookupRows DEF Row
<1>3. R.ops[1] \in {Write("set", a_key, Person(3), 0), lookup}
  BY <1>1, LookupRows DEF Row
<1>4. R.ops[1].does \in Simple /\ R.ops[1].key = a_key
  BY <1>3 DEF Simple, lookup, LookupOp, Write
<1> QED
  BY <1>1, <1>2, <1>4 DEF OnDocument

\* The rounds of c/subdoc-updating.cc.
LEMMA MutationOnDocument ==
  ASSUME NEW p, p[1] = "subdoc_updating", Rounds[p] = subdoc_updating, NEW r \in DOMAIN Rounds[p]
  PROVE  OnDocument(p, r)
<1> DEFINE R == Rounds[p][r]
<1>1. r \in 1 .. 5 /\ Document(p) = a_key /\ p[1] \notin Asking
  BY MutationRows DEF Document, Asking, Subdocument
<1>2. R.ops = <<R.ops[1]>> /\ Len(R.ops) = 1 /\ DOMAIN R.ops = {1} /\ R.nap = 0
  BY <1>1, MutationRows DEF Row
<1>3. R.ops[1] \in {Write("set", a_key, Person(4), 0), Op("get", a_key), manyPaths, deepPath, madePath}
  BY <1>1, MutationRows DEF Row
<1>4. \A op \in {manyPaths, deepPath, madePath} : op.does = "mutate" /\ op.key = a_key
  BY DEF manyPaths, deepPath, madePath, MutateOp
<1>5. R.ops[1].does \in Simple /\ R.ops[1].key = a_key
  BY <1>3, <1>4 DEF Simple, Write, Op
<1> QED
  BY <1>1, <1>2, <1>5 DEF OnDocument

\* The rounds of c/create-remove-bucket.cc.
LEMMA BucketOnDocument ==
  ASSUME NEW p, p[1] = "create_remove_bucket", Rounds[p] = create_remove_bucket, NEW r \in DOMAIN Rounds[p]
  PROVE  OnDocument(p, r)
<1> DEFINE R == Rounds[p][r]
<1>1. r \in 1 .. 2 /\ Document(p) = newBucket /\ p[1] \notin Asking
  BY BucketRows DEF Document, Asking, Subdocument
<1>2. R.ops = <<R.ops[1]>> /\ Len(R.ops) = 1 /\ DOMAIN R.ops = {1} /\ R.nap = 0
  BY <1>1, BucketRows DEF Row
<1>3. R.ops[1] \in {Write("create", newBucket, NoBody, 0), Op("remove", newBucket)}
  BY <1>1, BucketRows DEF Row
<1>4. R.ops[1].does \in Simple /\ R.ops[1].key = newBucket
  BY <1>3 DEF Simple, Op, Write, TouchOp, CounterOp
<1> QED
  BY <1>1, <1>2, <1>4 DEF OnDocument

\* The rounds of c/query-consistency.cc and c/query-atplus.cc.
LEMMA AskingOnDocument ==
  ASSUME NEW p, p[1] \in Asking,
         Rounds[p] = IF p[1] = "query_consistency" THEN query_consistency(p[2]) ELSE query_atplus(p[2]),
         NEW r \in DOMAIN Rounds[p]
  PROVE  OnDocument(p, r)
<1> DEFINE R == Rounds[p][r]
           key == User(p[2])
           store == Write("set", key, Value("Brass"), 0)
           body == [k \in {key} |-> 0]
           T == query_consistency(p[2])
           U == query_atplus(p[2])
<1>1. /\ DOMAIN T = 1 .. 2
      /\ Row(T[1], store, {}, NoBody, {}, 0)
      /\ Row(T[2], QueryOp("default", "request"), {}, body, {}, 0)
      /\ DOMAIN U = 1 .. 2
      /\ Row(U[1], store, {}, NoBody, {}, 0)
      /\ Row(U[2], QueryOp("default", "at_plus"), {}, body, {}, 0)
  BY AskingRows
<1>2. Document(p) = key
  BY DEF Document, Asking, Subdocument
<1>3. Rounds[p] = T \/ Rounds[p] = U
  OBVIOUS
<1>4. store.does = "set" /\ store.key = key
  BY DEF Write
<1> HIDE DEF T, U, store, key, body
<1>5. /\ r \in {1, 2} /\ (r = 1 => R.ops[1] = store)
      /\ r = 2 => R.ops[1] \in {QueryOp("default", "request"), QueryOp("default", "at_plus")}
  BY <1>1, <1>3 DEF Row
<1>6. /\ R.ops = <<R.ops[1]>> /\ Len(R.ops) = 1 /\ DOMAIN R.ops = {1} /\ R.nap = 0
      /\ r = 2 => R.says = {} /\ R.shows = body
  BY <1>1, <1>3, <1>5 DEF Row
<1>7. r = 2 => R.ops[1].does = "query" /\ R.ops[1].key[1] = "default" /\ R.ops[1].after \in {"request", "at_plus"}
  BY <1>5 DEF QueryOp, Key
<1>8. r = 1 => R.ops[1].does \in Simple /\ R.ops[1].key = key
  BY <1>4, <1>5 DEF Simple
<1>9. R.shows = body => R.shows = [k \in {Document(p)} |-> 0]
  BY Zenon, <1>2 DEF body
<1> QED
  BY <1>2, <1>5, <1>6, <1>7, <1>8, <1>9 DEF OnDocument

\* All the rounds of the programs that announce something are of that form.
LEMMA AllOnDocument ==
  ASSUME run \in Scenarios, NEW p \in run, p[1] \in Announcing, NEW r \in DOMAIN Rounds[p]
  PROVE  OnDocument(p, r)
<1>1. p[1] \in Asking =>
        Rounds[p] = IF p[1] = "query_consistency" THEN query_consistency(p[2]) ELSE query_atplus(p[2])
  BY TheirRounds DEF Asking
<1>2. CASE p[1] \in Asking
  BY <1>1, <1>2, AskingOnDocument
<1>3. CASE p[1] \in {"counter", "expiration", "updating"}
  BY <1>3, TheirRounds, CounterOnDocument, ExpirationOnDocument, UpdatingOnDocument
<1>4. CASE p[1] \in {"retrieving", "cloud", "create_remove_bucket"}
  BY <1>4, TheirRounds, RetrievingOnDocument, CloudOnDocument, BucketOnDocument
<1>5. CASE p[1] \in Subdocument
  BY <1>5, TheirRounds, LookupOnDocument, MutationOnDocument DEF Subdocument
<1> QED
  BY <1>2, <1>3, <1>4, <1>5 DEF Announcing, Asking, Subdocument

\* Each round that finds its document prepared leaves it so, and is answered what it announces.
LEMMA AllSucceed ==
  ASSUME run \in Scenarios, NEW p \in run, p[1] \in Announcing, NEW r \in DOMAIN Rounds[p],
         Rounds[p][r].ops[1].does \in Simple,
         NEW d, Shaped(d), Prepared(p, r, d), Rounds[p][r].ops[1].key = missing => ~ d.there
  PROVE  Succeeds(p, r, d, Stamp(p, r))
<1> DEFINE by == Stamp(p, r)
<1>1. p[1] \in Asking =>
        Rounds[p] = IF p[1] = "query_consistency" THEN query_consistency(p[2]) ELSE query_atplus(p[2])
  BY TheirRounds DEF Asking
<1>2. ASSUME p[1] \in Asking PROVE Succeeds(p, r, d, by)
  <2>1. OnDocument(p, r)
    BY AllOnDocument
  <2>2. r = 1
    BY <1>2, <2>1 DEF OnDocument, Simple, Asking
  <2> QED
    BY <1>1, <1>2, <2>2, AskingStores
<1> HIDE DEF by
<1>3. ASSUME p[1] = "counter" PROVE Succeeds(p, r, d, by)
  BY <1>3, TheirRounds, CounterRows, CounterSucceeds
<1>4. ASSUME p[1] = "expiration" PROVE Succeeds(p, r, d, by)
  BY <1>4, TheirRounds, ExpirationRows, ExpirationSucceeds
<1>5. ASSUME p[1] = "updating" PROVE Succeeds(p, r, d, by)
  BY <1>5, TheirRounds, UpdatingRows, UpdatingSucceeds
<1>6. ASSUME p[1] = "retrieving" PROVE Succeeds(p, r, d, by)
  <2>1. Rounds[p] = retrieving /\ r \in 1 .. 3
    BY <1>6, TheirRounds, GetRows
  <2>2. r = 3 => ~ d.there
    BY <2>1, GetRows DEF Row, Op
  <2> QED
    BY <1>6, <2>1, <2>2, RetrievingSucceeds
<1>7. ASSUME p[1] = "cloud" PROVE Succeeds(p, r, d, by)
  BY <1>7, TheirRounds, GetRows, CloudSucceeds
<1>8. ASSUME p[1] = "create_remove_bucket" PROVE Succeeds(p, r, d, by)
  BY <1>8, TheirRounds, BucketRows, BucketSucceeds
<1>9. ASSUME p[1] = "subdoc_retrieving" PROVE Succeeds(p, r, d, by)
  BY <1>9, TheirRounds, LookupRows, LookupSucceeds
<1>10. ASSUME p[1] = "subdoc_updating" PROVE Succeeds(p, r, d, by)
  BY <1>10, TheirRounds, MutationRows, MutationSucceeds
<1>11. Succeeds(p, r, d, by)
  BY <1>2, <1>3, <1>4, <1>5, <1>6, <1>7, <1>8, <1>9, <1>10 DEF Announcing, Asking
<1> QED
  BY <1>11 DEF by

\* Their documents are among those the programs use.
LEMMA DocumentUsed ==
  ASSUME run \in Scenarios, NEW p \in run, p[1] \in Announcing
  PROVE  1 \in DOMAIN Rounds[p] /\ Document(p) \in Uses[p] /\ Document(p) \in KeysOf(run)
<1>1. 1 \in DOMAIN Rounds[p]
  <2>1. p[1] \in Asking => 1 \in DOMAIN Rounds[p]
    <3>1. /\ DOMAIN query_consistency(p[2]) = 1 .. 2 /\ DOMAIN query_atplus(p[2]) = 1 .. 2
      BY AskingRows
    <3> QED
      BY <3>1, TheirRounds DEF Asking
  <2>2. p[1] \in {"counter", "expiration", "updating"} => 1 \in DOMAIN Rounds[p]
    BY TheirRounds, CounterRows, ExpirationRows, UpdatingRows
  <2>3. p[1] \in {"retrieving", "cloud", "create_remove_bucket"} => 1 \in DOMAIN Rounds[p]
    BY TheirRounds, GetRows, BucketRows
  <2>4. p[1] \in Subdocument => 1 \in DOMAIN Rounds[p]
    BY TheirRounds, LookupRows, MutationRows DEF Subdocument
  <2> QED
    BY <2>1, <2>2, <2>3, <2>4 DEF Announcing, Asking, Subdocument
<1> DEFINE op == Rounds[p][1].ops[1]
<1>2. OnDocument(p, 1)
  BY <1>1, AllOnDocument
<1>3. 1 \in DOMAIN Rounds[p][1].ops /\ op.does \in Simple /\ op.key = Document(p)
  BY <1>2 DEF OnDocument
<1>4. op.does # "flush"
  BY <1>3 DEF Simple
<1> QED
  BY <1>1, <1>3, <1>4, KeysAreUsed

\* An operation on another document than the one nobody stores and the one the subdocument
\* programs share; only c/flush.c flushes.
Elsewhere(op, name) == op.key \notin {missing, a_key} /\ (op.does = "flush" => name = "flush")

\* A round that announces and asserts nothing, of such operations.
Silent(R, name) == /\ R.says = {} /\ R.shows = NoBody /\ R.asserts = {}
                   /\ \A i \in DOMAIN R.ops : Elsewhere(R.ops[i], name)

\* The rounds CTables makes without more settings are silent.
LEMMA SilentRows ==
  ASSUME NEW op, NEW name, Elsewhere(op, name)
  PROVE  Silent(Quiet(op), name)
<1> DEFINE R == Quiet(op)
<1>1. R.says = {} /\ R.shows = NoBody /\ R.asserts = {} /\ R.ops = <<op>> /\ DOMAIN R.ops = {1}
  BY DEF Quiet, Round
<1> HIDE DEF R
<1>2. Silent(R, name)
  BY <1>1 DEF Silent
<1> QED
  BY <1>2 DEF R

\* The other programs announce nothing.
LEMMA OthersAreSilent ==
  ASSUME run \in Scenarios, NEW p \in run, p[1] \notin Announcing, NEW r \in DOMAIN Rounds[p]
  PROVE  Silent(Rounds[p][r], p[1])
<1>1. Rounds[p] = Table(p[1], p[2]) /\ p[1] \in Names
  BY TheirRounds DEF IsProgram
<1> DEFINE name == p[1]
           n == p[2]
<1>2. r \in DOMAIN Table(name, n) /\ name \in Names
  BY <1>1
<1>3. CASE name = "durability"
  <2> DEFINE list == Value("[1,2,3]")
             w1 == Write("storedur", docid, list, 0)
             w2 == Write("store_and_endure", docid, list, 0)
  <2>1. Elsewhere(w1, name) /\ Elsewhere(w2, name)
    BY DEF Elsewhere, Write, docid, missing, a_key, Key
  <2>2. durability = <<Quiet(w1), Quiet(w2)>>
    BY Zenon DEF durability
  <2> HIDE DEF w1, w2
  <2>3. Silent(Quiet(w1), name) /\ Silent(Quiet(w2), name)
    BY <2>1, SilentRows
  <2>4. Rounds[p] = durability
    BY <1>1, <1>3 DEF Table
  <2> QED
    BY <2>2, <2>3, <2>4
<1>4. CASE name \in {"query_create_index", "n1ql_create_primary_index", "query_criteria"}
  <2> DEFINE w1 == Write("create", Key("travel-sample", "#primary"), NoBody, 0)
             w2 == Write("create", Key("default", "#primary"), NoBody, 0)
             w3 == QueryOp("travel-sample", "not_bounded")
  <2>1. Elsewhere(w1, name) /\ Elsewhere(w2, name) /\ Elsewhere(w3, name)
    BY DEF Elsewhere, Write, QueryOp, Key, missing, a_key
  <2>2. /\ query_create_index = <<Quiet(w1)>> /\ n1ql_create_primary_index = <<Quiet(w2)>>
        /\ query_criteria = <<Quiet(w3)>>
    BY Zenon DEF query_create_index, n1ql_create_primary_index, query_criteria
  <2> HIDE DEF w1, w2, w3
  <2>3. Silent(Quiet(w1), name) /\ Silent(Quiet(w2), name) /\ Silent(Quiet(w3), name)
    BY <2>1, SilentRows
  <2>4. Rounds[p] \in {<<Quiet(w1)>>, <<Quiet(w2)>>, <<Quiet(w3)>>}
    BY <1>1, <1>4, <2>2 DEF Table
  <2> QED
    BY <2>3, <2>4
<1>5. CASE name = "flush"
  <2> DEFINE w == Op("flush", Key("default", "*"))
  <2>1. Elsewhere(w, name)
    BY <1>5 DEF Elsewhere, Op, Key, missing, a_key
  <2>2. flush = <<Quiet(w)>>
    BY Zenon DEF flush
  <2> HIDE DEF w
  <2>3. Silent(Quiet(w), name)
    BY <2>1, SilentRows
  <2>4. Rounds[p] = flush
    BY <1>1, <1>5 DEF Table
  <2> QED
    BY <2>2, <2>3, <2>4
<1>6. CASE name \in {"query_placeholders", "fts_basic"}
  <2> DEFINE w1 == QueryOp("travel-sample", "not_bounded")
             w2 == QueryOp("beer-sample", "not_bounded")
             q1 == Quiet(w1)
             q2 == Quiet(w2)
             r1 == [q1 EXCEPT !.unscheduled = "exit"]
             r2 == [q2 EXCEPT !.unscheduled = "abort"]
  <2>1. Elsewhere(w1, name) /\ Elsewhere(w2, name)
    BY DEF Elsewhere, QueryOp, Key, missing, a_key
  <2>2. query_placeholders = <<r1, r1, r1>> /\ fts_basic = <<r2>>
    BY Zenon DEF query_placeholders, query_city, fts_basic
  <2> HIDE DEF w1, w2
  <2>3. Silent(q1, name) /\ Silent(q2, name) /\ Single(q1) /\ Single(q2)
    BY <2>1, SilentRows, QuietIsSingle
  <2> HIDE DEF q1, q2
  <2>4. Silent(r1, name) /\ Silent(r2, name)
    BY <2>3 DEF Silent, Single, Fields
  <2> HIDE DEF r1, r2
  <2>5. Rounds[p] \in {<<r1, r1, r1>>, <<r2>>}
    BY <1>1, <1>6, <2>2 DEF Table
  <2> QED
    BY <2>4, <2>5
<1>7. CASE name \in {"bulk_get", "bulk_store"}
  <2>1. ASSUME NEW ops, DOMAIN ops = 1 .. 3, \A i \in 1 .. 3 : Elsewhere(ops[i], name)
        PROVE  Silent(Batch(ops), name)
    <3> DEFINE b == Batch(ops)
    <3>1. b.ops = ops /\ b.says = {} /\ b.shows = NoBody /\ b.asserts = {}
      BY DEF Batch, Round
    <3> HIDE DEF b
    <3>2. Silent(b, name)
      BY <2>1, <3>1 DEF Silent
    <3> QED
      BY <3>2 DEF b
  <2> DEFINE gets == [i \in 1..3 |-> Op("get", Key("default", <<"foo", "bar", "baz">>[i]))]
             keys == <<"bar", "baz", "foo">>
             sets == [i \in 1..3 |-> Write("set", Key("default", keys[i]), Value(keys[i]), 0)]
  <2>2. bulk_get = <<Batch(gets)>> /\ bulk_store = <<Batch(sets)>>
    BY Zenon DEF bulk_get, bulk_store
  <2>3. DOMAIN gets = 1 .. 3 /\ DOMAIN sets = 1 .. 3
    OBVIOUS
  <2>4. \A i \in 1 .. 3 : Elsewhere(gets[i], name) /\ Elsewhere(sets[i], name)
    BY DEF Elsewhere, Op, Write, Key, missing, a_key
  <2> HIDE DEF gets, sets
  <2>5. Silent(Batch(gets), name) /\ Silent(Batch(sets), name)
    BY <2>1, <2>3, <2>4
  <2>6. Rounds[p] \in {<<Batch(gets)>>, <<Batch(sets)>>}
    BY <1>1, <1>7, <2>2 DEF Table
  <2> QED
    BY <2>5, <2>6
<1>8. CASE name = "connecting"
  BY <1>2, <1>8 DEF Table
<1> QED
  BY <1>2, <1>3, <1>4, <1>5, <1>6, <1>7, <1>8 DEF Names, Announcing

\* The documents of the announcing programs are not the one nobody stores.
LEMMA NotMissing == ASSUME NEW p, p[1] \in Announcing PROVE Document(p) # missing
BY DEF Document, Announcing, Asking, Subdocument, docid, a_key, newBucket, User, Key, missing

\* It is only read.
LEMMA MissingIsRead ==
  ASSUME run \in Scenarios, NEW p \in run, NEW r \in DOMAIN Rounds[p], NEW i \in DOMAIN Rounds[p][r].ops,
         Rounds[p][r].ops[i].key = missing
  PROVE  Rounds[p][r].ops[i].does = "get" /\ p[1] = "retrieving" /\ r = 3
<1>1. p[1] \in Announcing
  BY OthersAreSilent DEF Silent, Elsewhere
<1>2. OnDocument(p, r) /\ Document(p) # missing
  BY <1>1, AllOnDocument, NotMissing
<1>3. i = 1
  BY <1>2 DEF OnDocument
<1>4. Rounds[p][r].ops[1].does = "query" => Rounds[p][r].ops[1].key # missing
  <2>1. Rounds[p][r].ops[1].does = "query" => Rounds[p][r].ops[1].key[1] = "default"
    BY <1>2 DEF OnDocument, Simple
  <2> QED
    BY <2>1 DEF missing, Key
<1> QED
  BY <1>2, <1>3, <1>4 DEF OnDocument

\* A step touches neither the program nor, once it is connected, its document.
Untouched(q) ==
  /\ pc'[q] = pc[q] /\ round'[q] = round[q] /\ todo'[q] = todo[q] /\ nap'[q] = nap[q]
  /\ answers'[q] = answers[q] /\ stale'[q] = stale[q]
  /\ index'[Document(q)] = index[Document(q)]
  /\ pc[q] # "boot" => docs'[Document(q)] = docs[Document(q)]

\* An untouched program still finds what it relies on.
LEMMA UntouchedSure == ASSUME NEW q, Sure(q), Untouched(q) PROVE Sure(q)'
<1>1. CASE pc[q] = "boot"
  BY <1>1 DEF Untouched, Sure, Undisturbed
<1>2. CASE pc[q] # "boot"
  BY <1>2 DEF Untouched, Sure
<1> QED
  BY <1>1, <1>2

\* Where the others are untouched it is enough to look at the program that moves.
LEMMA RestRelies ==
  ASSUME Relies, NEW p, clean' \subseteq clean,
         \A q \in clean' \ {p} : q[1] \in Announcing => Untouched(q),
         p \in clean' /\ p[1] \in Announcing => Sure(p)'
  PROVE  Relies'
<1> SUFFICES ASSUME NEW q \in clean', q[1] \in Announcing PROVE Sure(q)'
  BY DEF Relies
<1>1. CASE q = p
  BY <1>1
<1>2. CASE q # p
  <2>1. Untouched(q) /\ Sure(q)
    BY <1>2 DEF Relies
  <2> QED
    BY <2>1, UntouchedSure
<1> QED
  BY <1>1, <1>2

\* A document that is put is the one that changes.
LEMMA PutOne ==
  ASSUME Documents, NEW p, NEW k \in KeysOf(run), NEW d, Put(p, k, d)
  PROVE  /\ DOMAIN docs' = DOMAIN docs /\ docs'[k] = d /\ \A x \in KeysOf(run) \ {k} : docs'[x] = docs[x]
         /\ index' = index
BY DEF Documents, Put

\* Those that use it are disturbed.
LEMMA PutDisturbs ==
  ASSUME Documents, run \in Scenarios, NEW p, NEW k \in KeysOf(run), NEW d,
         Put(p, k, d) \/ UNCHANGED server,
         NEW q \in run \ {p}, q \notin Disturbed(p, k, d), q[1] \in Announcing, pc[q] # "boot"
  PROVE  docs'[Document(q)] = docs[Document(q)]
<1>1. CASE UNCHANGED server
  BY <1>1 DEF server
<1>2. CASE Put(p, k, d)
  <2>1. d = docs[k] \/ k \notin Uses[q]
    BY DEF Disturbed
  <2>2. Document(q) \in Uses[q] /\ Document(q) \in KeysOf(run)
    BY DocumentUsed
  <2> QED
    BY <1>2, <2>1, <2>2, PutOne
<1> QED
  BY <1>1, <1>2

\* The document nobody stores is not put.
LEMMA PutNeverFound ==
  ASSUME Documents, NeverFound, run' = run, NEW p, NEW k \in KeysOf(run), NEW d, k # missing,
         Put(p, k, d) \/ UNCHANGED server
  PROVE  NeverFound'
<1>1. KeysOf(run') = KeysOf(run)
  OBVIOUS
<1>2. missing \in KeysOf(run) => docs'[missing] = docs[missing]
  BY PutOne DEF server
<1> QED
  BY <1>1, <1>2 DEF NeverFound

\* The index and what queries wait for belong to the programs' documents.
LEMMA FollowedStays ==
  ASSUME Followed, run' = run, clean' \subseteq clean, index' = index, DOMAIN stale' = run
  PROVE  Followed'
<1>1. KeysOf(run') = KeysOf(run)
  OBVIOUS
<1> QED
  BY <1>1 DEF Followed

\* Nothing is stored.
LEMMA NeverFoundStays ==
  ASSUME NeverFound, run' = run, docs' = docs
  PROVE  NeverFound'
<1>1. KeysOf(run') = KeysOf(run)
  OBVIOUS
<1> QED
  BY <1>1 DEF NeverFound

\* A program connects: its first round needs nothing.
LEMMA BootRelies ==
  ASSUME IInv, AInv, NEW p \in run, Boot(p)
  PROVE  AInv'
<1> USE DEF IInv, AInv
<1>1. /\ run' = run /\ docs' = docs /\ index' = index /\ stale' = stale /\ round' = round
      /\ todo' = todo /\ nap' = nap /\ answers' = answers
  BY DEF Boot, server
<1>2. clean' \subseteq clean /\ (p \in clean' => Goto(p, IF Rounds[p] = <<>> THEN "ended" ELSE "ready"))
  BY DEF Boot
<1>3. p \in DOMAIN pc /\ round[p] = 1
  BY DEF Maps, Stages, Fits, Boot
<1>4. \A q \in run \ {p} : pc'[q] = pc[q]
  BY <1>3 DEF Boot, Goto, Maps
<1>5. \A q \in clean' \ {p} : q[1] \in Announcing => Untouched(q)
  BY <1>1, <1>2, <1>4 DEF Untouched, Followed
<1>6. ASSUME p \in clean', p[1] \in Announcing PROVE Sure(p)'
  <2>1. pc'[p] \in {"ended", "ready"} /\ round'[p] = 1
    BY <1>1, <1>2, <1>3, <1>6 DEF Goto
  <2>2. \A d : Prepared(p, 1, d)
    BY DEF Prepared
  <2> QED
    BY <2>1, <2>2 DEF Sure, Undisturbed
<1>7. Relies'
  BY <1>2, <1>5, <1>6, RestRelies
<1>8. Followed' /\ NeverFound'
  BY <1>1, <1>2, FollowedStays, NeverFoundStays DEF Followed
<1> QED
  BY <1>7, <1>8

\* The document whose row is asked for is in the index, or the query waits for it.
LEMMA BehindTheIndex ==
  ASSUME run \in Scenarios, Documents, NEW p \in run, p[1] \in Asking, NEW r \in DOMAIN Rounds[p], r = 2,
         Prepared(p, r, docs[Document(p)])
  PROVE  InSight(p, Behind(p, Rounds[p][r].ops[1]), index[Document(p)], docs[Document(p)])
<1> DEFINE op == Rounds[p][r].ops[1]
           k == Document(p)
<1>1. p[1] \in Announcing /\ k \in KeysOf(run) /\ DOMAIN docs = KeysOf(run)
  BY DocumentUsed DEF Announcing, Asking, Documents
<1>2. op.does = "query" /\ op.key[1] = "default" /\ op.after \in {"request", "at_plus"} /\ 1 \in DOMAIN Rounds[p][r].ops
  <2>1. OnDocument(p, r)
    BY <1>1, AllOnDocument
  <2> QED
    BY <2>1 DEF OnDocument, Simple, Asking
<1>3. k[1] = "default" /\ Stored(k)
  BY DEF Document, Asking, Subdocument, User, Key, Stored
<1>4. docs[k].by = <<p[1], p[2], 1>>
  BY DEF Prepared, Stamp
<1>5. op \in OpsOf[p]
  BY <1>2, TheirRounds DEF OpsOf, ToSet
<1> HIDE DEF op, k
<1>6. k \in Indexed
  <2> DEFINE waited == {o \in UNION {OpsOf[q] : q \in run} : o.does = "query" /\ o.after # "not_bounded"}
  <2>1. op \in waited
    BY <1>2, <1>5
  <2>2. k[1] \in {o.key[1] : o \in waited}
    BY <1>2, <1>3, <2>1
  <2> HIDE DEF waited
  <2>3. k \in {x \in DOMAIN docs : Stored(x) /\ x[1] \in {o.key[1] : o \in waited}}
    BY <1>1, <1>3, <2>2
  <2> QED
    BY <2>3 DEF Indexed, waited
<1>7. k \in Behind(p, op) \/ index[k] = docs[k]
  BY <1>2, <1>4, <1>6 DEF Behind
<1> QED
  BY <1>7 DEF InSight, op, k

\* The operation of a round is scheduled.
LEMMA ScheduleRelies ==
  ASSUME IInv, AInv, NEW p \in run, Schedule(p)
  PROVE  AInv'
<1> USE DEF IInv, AInv
<1>1. /\ run' = run /\ docs' = docs /\ index' = index /\ round' = round
      /\ nap' = nap /\ answers' = answers /\ clean' = clean
      /\ pc' = [pc EXCEPT ![p] = "waiting"]
      /\ todo' = [todo EXCEPT ![p] = DOMAIN Now(p).ops]
      /\ stale' = [stale EXCEPT ![p] = Behind(p, Now(p).ops[1])]
      /\ pc[p] = "ready"
  BY DEF Schedule, server, Goto
<1>2. /\ run \in Scenarios /\ DOMAIN pc = run /\ DOMAIN todo = run /\ DOMAIN stale = run
  BY DEF Maps, Followed
<1>3. round[p] \in DOMAIN Rounds[p] /\ answers[p] = <<>>
  BY <1>1 DEF Stages, Fits
<1>4. \A q \in run \ {p} : pc'[q] = pc[q] /\ todo'[q] = todo[q] /\ stale'[q] = stale[q]
  BY <1>1, <1>2
<1>5. pc'[p] = "waiting" /\ todo'[p] = DOMAIN Now(p).ops /\ stale'[p] = Behind(p, Now(p).ops[1])
  BY <1>1, <1>2
<1>6. \A q \in clean' \ {p} : q[1] \in Announcing => Untouched(q)
  BY <1>1, <1>4 DEF Untouched, Followed
<1>7. ASSUME p \in clean', p[1] \in Announcing PROVE Sure(p)'
  <2>1. Prepared(p, round[p], docs[Document(p)])
    BY <1>1, <1>7 DEF Relies, Sure, Undisturbed
  <2>2. DOMAIN Now(p).ops = {1}
    <3>1. OnDocument(p, round[p])
      BY <1>2, <1>3, <1>7, AllOnDocument
    <3> QED
      BY <3>1 DEF OnDocument, Now
  <2>3. round[p] = 2 => InSight(p, Behind(p, Now(p).ops[1]), index[Document(p)], docs[Document(p)])
    <3>1. CASE p[1] \in Asking
      BY <1>2, <1>3, <2>1, <3>1, BehindTheIndex DEF Now
    <3>2. CASE p[1] \notin Asking
      BY <3>2 DEF InSight
    <3> QED
      BY <3>1, <3>2
  <2> QED
    BY <1>1, <1>3, <1>5, <2>1, <2>2, <2>3 DEF Sure, Undisturbed
<1>8. Relies'
  BY <1>1, <1>6, <1>7, RestRelies
<1>9. Followed' /\ NeverFound'
  BY <1>1, <1>2, FollowedStays, NeverFoundStays
<1> QED
  BY <1>8, <1>9

\* One cannot be scheduled: its program is not undisturbed any more.
LEMMA SchedFailsRelies ==
  ASSUME IInv, AInv, NEW p \in run, NEW i, SchedFails(p, i)
  PROVE  AInv'
<1> USE DEF IInv, AInv
<1>1. /\ run' = run /\ docs' = docs /\ index' = index /\ round' = round
      /\ nap' = nap /\ answers' = answers /\ clean' = clean \ {p} /\ stale' = stale
      /\ \E at : pc' = [pc EXCEPT ![p] = at]
      /\ \E left : todo' = [todo EXCEPT ![p] = left]
  BY DEF SchedFails, server, Goto
<1>2. \A q \in run \ {p} : pc'[q] = pc[q] /\ todo'[q] = todo[q]
  BY <1>1 DEF Maps
<1>3. \A q \in clean' \ {p} : q[1] \in Announcing => Untouched(q)
  BY <1>1, <1>2 DEF Untouched, Followed
<1>4. Relies'
  BY <1>1, <1>3, RestRelies
<1>5. Followed' /\ NeverFound'
  BY <1>1, FollowedStays, NeverFoundStays DEF Followed
<1> QED
  BY <1>4, <1>5

\* An answer changes nothing for the other programs, and is kept if it is heard.
LEMMA HearLeaves ==
  ASSUME Maps, NEW p \in run, NEW i, NEW answer, Hear(p, i, answer)
  PROVE  /\ \A q \in run \ {p} : pc'[q] = pc[q] /\ todo'[q] = todo[q] /\ answers'[q] = answers[q]
         /\ pc'[p] \in {"exited", "waiting"} /\ todo'[p] = todo[p] \ {i}
         /\ answers'[p] = IF Now(p).callback
                          THEN Append(answers[p], [op |-> i, rc |-> answer.rc, body |-> Kept(answer)])
                          ELSE answers[p]
BY DEF Maps, Hear, Goto

\* What an operation answers is kept whole: with another code there are no results.
LEMMA KeptWhole ==
  ASSUME NEW op, op.does \in Simple, NEW d, NEW by
  PROVE  Kept(Handle(op, d, by).answer) = Handle(op, d, by).answer.body
<1> DEFINE Whole(x) == Kept(x.answer) = x.answer.body
<1>1. \A x, rc, body : rc \in {"SUCCESS", "MULTI_FAILURE"} => Whole(Done(x, rc, body))
  BY DEF Done, Answer, Kept
<1>2. \A rc : Whole(Fails(d, rc))
  BY DEF Fails, Done, Answer, Kept
<1> HIDE DEF Whole
<1>3. \A x : Whole(x) => Whole(IfThere(d, x))
  BY <1>2 DEF IfThere
<1>4. Whole(Set(op, d, by))
  BY <1>1 DEF Set
<1>5. Whole(Add(op, d, by)) /\ Whole(Create(op, d, by)) /\ Whole(Replace(op, d, by))
  BY <1>2, <1>3, <1>4 DEF Add, Create, Replace
<1>6. Whole(RemoveDoc(d, by)) /\ Whole(Get(d))
  BY <1>1, <1>3 DEF RemoveDoc, Get
<1>7. Whole(Touch(op, d, by)) /\ Whole(GetAndTouch(op, d, by))
  BY <1>1, <1>3 DEF Touch, GetAndTouch
<1>8. Whole(Counter(op, d, by))
  <2> DEFINE n == Number(d.body[""] + op.delta)
             made == Done(Doc(Number(op.initial), 0, by), "SUCCESS", Number(op.initial))
             changed == Done([d EXCEPT !.body = n, !.by = by], "SUCCESS", n)
             refused == Fails(d, "DELTA_BADVAL")
  <2>1. Counter(op, d, by) = IF ~ d.there THEN made
                             ELSE IF "" \notin DOMAIN d.body THEN refused ELSE changed
    BY Zenon DEF Counter
  <2> HIDE DEF n
  <2>2. Whole(made) /\ Whole(changed) /\ Whole(refused)
    BY <1>1, <1>2
  <2> HIDE DEF made, changed, refused
  <2> QED
    BY Zenon, <2>1, <2>2
<1>9. Whole(Lookup(op, d))
  BY <1>1, <1>3 DEF Lookup
<1>10. Whole(Mutate(op, d, by))
  <2> DEFINE status == [path \in {op.specs[i].path : i \in {j \in DOMAIN op.specs : FailsAt(op, d, j)}}
                          |-> "PATH_ENOENT"]
             made == Done([d EXCEPT !.body = After(op, d, Len(op.specs)), !.by = by], "SUCCESS", NoBody)
             refused == Done(d, "MULTI_FAILURE", status)
  <2>1. Mutate(op, d, by) = IfThere(d, IF Possible(op, d) THEN made ELSE refused)
    BY Zenon DEF Mutate
  <2> HIDE DEF status
  <2>2. Whole(made) /\ Whole(refused)
    BY <1>1
  <2> HIDE DEF made, refused
  <2> QED
    BY <1>3, <2>1, <2>2
<1>11. Whole(Handle(op, d, by))
  BY <1>4, <1>5, <1>6, <1>7, <1>8, <1>9, <1>10 DEF Handle, Simple
<1> QED
  BY <1>11 DEF Whole

\* What is announced of an answer is announced of what is kept of it.
LEMMA AnnouncedKept ==
  ASSUME NEW R, NEW a, Announced(R, a), Kept(a) = a.body, NEW heard, heard = <<>>, NEW more,
         more = Append(heard, [op |-> 1, rc |-> a.rc, body |-> Kept(a)])
  PROVE  more = <<more[1]>> /\ Announced(R, more[1])
<1> DEFINE x == [op |-> 1, rc |-> a.rc, body |-> Kept(a)]
<1>1. x.rc = a.rc /\ x.body = a.body /\ more = Append(<<>>, x)
  OBVIOUS
<1> HIDE DEF x
<1>2. more = <<x>> /\ more[1] = x
  BY <1>1
<1>3. Announced(R, x)
  BY <1>1 DEF Announced
<1> QED
  BY <1>2, <1>3

\* An undisturbed program that waits for its operation finds its document prepared.
LEMMA WaitsPrepared ==
  ASSUME IInv, AInv, NEW p \in run, p \in clean, p[1] \in Announcing, NEW i, NEW ops, Waits(p, i, ops)
  PROVE  /\ i = 1 /\ todo[p] = {1} /\ OnDocument(p, round[p]) /\ round[p] \in DOMAIN Rounds[p]
         /\ Prepared(p, round[p], docs[Document(p)]) /\ answers[p] = <<>>
         /\ round[p] = 2 => InSight(p, stale[p], index[Document(p)], docs[Document(p)])
         /\ Rounds[p][round[p]].ops[1].does \in ops
<1>1. /\ run \in Scenarios /\ round[p] \in DOMAIN Rounds[p] /\ i \in todo[p] /\ todo[p] \subseteq DOMAIN Now(p).ops
      /\ Now(p).ops[i].does \in ops
  BY WhereItWaits DEF IInv
<1>2. OnDocument(p, round[p])
  BY <1>1, AllOnDocument
<1>3. i = 1 /\ todo[p] = {1}
  BY <1>1, <1>2 DEF OnDocument, Now
<1>4. Sure(p) /\ pc[p] = "waiting"
  BY DEF AInv, Relies, Waits
<1> QED
  BY <1>1, <1>2, <1>3, <1>4 DEF Sure, Undisturbed, Now

\* The answer of an undisturbed program is what it announces, and the next round is prepared.
LEMMA AnsweredSure ==
  ASSUME Maps, NEW p \in run, NEW answer, Hear(p, 1, answer), todo[p] = {1}, answers[p] = <<>>,
         round' = round, Announced(Rounds[p][round[p]], answer), Kept(answer) = answer.body,
         Leaves(p, round[p], docs'[Document(p)])
  PROVE  Sure(p)'
<1> DEFINE more == Append(answers[p], [op |-> 1, rc |-> answer.rc, body |-> Kept(answer)])
<1>1. /\ pc'[p] \in {"exited", "waiting"} /\ todo'[p] = todo[p] \ {1}
      /\ answers'[p] = IF Now(p).callback THEN more ELSE answers[p]
  BY Zenon, HearLeaves
<1>2. more = <<more[1]>> /\ Announced(Rounds[p][round[p]], more[1])
  BY AnnouncedKept
<1> HIDE DEF more
<1>3. \/ answers'[p] = <<>>
      \/ answers'[p] = <<answers'[p][1]>> /\ Announced(Rounds[p][round[p]], answers'[p][1])
  BY <1>1, <1>2
<1> QED
  BY <1>1, <1>3 DEF Sure, Undisturbed

\* An operation is done: the programs that use its document are disturbed.
LEMMA ServeRelies ==
  ASSUME IInv, AInv, NEW p \in run, NEW i, Serve(p, i)
  PROVE  AInv'
<1> USE DEF IInv, AInv
<1> DEFINE op == Now(p).ops[i]
           end == Handle(op, docs[op.key], By(p))
           d == end.doc
           answer == end.answer
           k == op.key
<1>1. /\ Waits(p, i, Simple) /\ Hear(p, i, answer)
      /\ IF d = docs[k] THEN UNCHANGED server ELSE Put(p, k, d)
      /\ clean' = clean \ Disturbed(p, k, d)
      /\ run' = run /\ round' = round /\ nap' = nap /\ stale' = stale
  BY DEF Serve
<1>2. /\ run \in Scenarios /\ k \in KeysOf(run) /\ op.does \in Simple /\ round[p] \in DOMAIN Rounds[p]
      /\ i \in DOMAIN Now(p).ops
  BY <1>1, WhereItWaits DEF Simple
<1>3. Shaped(docs[k]) /\ (Put(p, k, d) \/ UNCHANGED server)
  BY <1>1, <1>2 DEF Documents
<1>4. docs'[k] = d /\ index' = index
  BY <1>1, <1>2, PutOne DEF server
<1>5. k = missing => d = docs[k] /\ (p[1] = "retrieving" /\ round[p] = 3)
  <2>1. k = missing => op.does = "get" /\ p[1] = "retrieving" /\ round[p] = 3
    BY <1>2, MissingIsRead DEF Now
  <2>2. op.does = "get" => end = Get(docs[k])
    BY DEF Handle
  <2>3. Get(docs[k]).doc = docs[k]
    BY DEF Get, IfThere, Done, Fails
  <2> QED
    BY <2>1, <2>2, <2>3
<1>6. ASSUME p \in clean', p[1] \in Announcing PROVE Sure(p)'
  <2>1. p \in clean
    BY <1>1, <1>6
  <2>2. /\ i = 1 /\ todo[p] = {1} /\ OnDocument(p, round[p])
        /\ Prepared(p, round[p], docs[Document(p)]) /\ answers[p] = <<>>
    BY <1>1, <1>6, <2>1, WaitsPrepared
  <2>3. op = Rounds[p][round[p]].ops[1] /\ By(p) = Stamp(p, round[p])
    BY <2>2 DEF Now, By, Stamp
  <2>4. Kept(answer) = answer.body
    BY <1>2, KeptWhole
  <2>5. CASE k = Document(p)
    <3>1. Prepared(p, round[p], docs[k]) /\ k # missing
      BY <1>6, <2>2, <2>5, NotMissing
    <3>2. Succeeds(p, round[p], docs[k], Stamp(p, round[p]))
      <4> DEFINE o == Rounds[p][round[p]].ops[1]
                 x == docs[k]
                 r == round[p]
      <4>1. o.does \in Simple /\ o.key # missing /\ Shaped(x) /\ Prepared(p, r, x) /\ r \in DOMAIN Rounds[p]
        BY <1>2, <1>3, <2>3, <3>1
      <4> HIDE DEF x, r
      <4> QED
        BY <1>2, <1>6, <4>1, AllSucceed DEF x, r
    <3>3. Leaves(p, round[p], d) /\ Announced(Rounds[p][round[p]], answer)
      BY <2>3, <3>2 DEF Succeeds
    <3> QED
      BY <1>1, <1>4, <2>2, <2>4, <2>5, <3>3, AnsweredSure
  <2>6. CASE k = missing
    <3>1. p[1] = "retrieving" /\ round[p] = 3 /\ ~ docs[k].there
      BY <1>2, <1>5, <2>6 DEF NeverFound
    <3>2. \A x : Prepared(p, 3, x) /\ Prepared(p, 4, x)
      BY <3>1 DEF Prepared, Asking
    <3>3. Succeeds(p, round[p], docs[k], Stamp(p, round[p]))
      <4> DEFINE o == Rounds[p][round[p]].ops[1]
                 x == docs[k]
                 r == round[p]
      <4>1. o.does \in Simple /\ ~ x.there /\ Shaped(x) /\ Prepared(p, r, x) /\ r \in DOMAIN Rounds[p]
        BY <1>2, <1>3, <2>3, <3>1, <3>2
      <4> HIDE DEF x, r
      <4> QED
        BY <1>2, <1>6, <4>1, AllSucceed DEF x, r
    <3>4. Announced(Rounds[p][round[p]], answer) /\ ~ (Rounds[p][round[p]].nap > 0)
      BY <2>2, <2>3, <3>1, <3>3 DEF Succeeds, OnDocument
    <3>5. Leaves(p, round[p], docs'[Document(p)])
      BY <3>1, <3>2, <3>4 DEF Leaves
    <3> QED
      BY <1>1, <2>2, <2>4, <3>4, <3>5, AnsweredSure
  <2>7. k = Document(p) \/ k = missing
    BY <1>2, <2>2, <2>3 DEF OnDocument, Simple
  <2> QED
    BY <2>5, <2>6, <2>7
<1>7. \A q \in clean' \ {p} : q[1] \in Announcing => Untouched(q)
  <2> SUFFICES ASSUME NEW q \in clean' \ {p}, q[1] \in Announcing PROVE Untouched(q)
    OBVIOUS
  <2>1. q \in run \ {p} /\ q \notin Disturbed(p, k, d)
    BY <1>1 DEF Followed
  <2>2. pc[q] # "boot" => docs'[Document(q)] = docs[Document(q)]
    BY <1>2, <1>3, <2>1, PutDisturbs
  <2>3. pc'[q] = pc[q] /\ todo'[q] = todo[q] /\ answers'[q] = answers[q]
    BY <1>1, <2>1, HearLeaves
  <2> QED
    BY <1>1, <1>4, <2>2, <2>3 DEF Untouched
<1>8. NeverFound'
  <2>1. CASE k = missing
    <3>1. docs' = docs
      BY <1>1, <1>5, <2>1 DEF server
    <3> QED
      BY <1>1, <3>1, NeverFoundStays
  <2>2. CASE k # missing
    BY <1>1, <1>2, <1>3, <2>2, PutNeverFound
  <2> QED
    BY <2>1, <2>2
<1>9. Relies' /\ Followed'
  BY <1>1, <1>4, <1>6, <1>7, RestRelies, FollowedStays DEF Followed
<1> QED
  BY <1>8, <1>9

\* A query that is answered has the row of the document its program stored.
LEMMA QueryRelies ==
  ASSUME IInv, AInv, NEW p \in run, NEW i, Query(p, i)
  PROVE  AInv'
<1> USE DEF IInv, AInv
<1> DEFINE op == Now(p).ops[i]
           rows == {k \in DOMAIN index : k[1] = op.key[1] /\ "Brass" \in DOMAIN index[k].body}
           row == [k \in rows |-> 0]
           answer == IF docs[op.key].there THEN Answer("SUCCESS", row) ELSE Answer("QUERY_ERROR", NoBody)
<1>1. /\ Waits(p, i, {"query"}) /\ stale[p] = {} /\ Hear(p, i, answer)
      /\ stale' = [stale EXCEPT ![p] = {}]
      /\ run' = run /\ docs' = docs /\ index' = index /\ round' = round /\ nap' = nap /\ clean' = clean
  BY DEF Query, Reached, server
<1>2. DOMAIN stale' = run /\ stale'[p] = {} /\ \A q \in run \ {p} : stale'[q] = stale[q]
  BY <1>1 DEF Followed
<1>3. ASSUME p \in clean', p[1] \in Announcing PROVE Sure(p)'
  <2> DEFINE R == Rounds[p][round[p]]
             D == Document(p)
  <2>1. /\ i = 1 /\ todo[p] = {1} /\ OnDocument(p, round[p]) /\ answers[p] = <<>>
        /\ Prepared(p, round[p], docs[D]) /\ R.ops[1].does \in {"query"}
        /\ round[p] = 2 => InSight(p, stale[p], index[D], docs[D])
    BY <1>1, <1>3, WaitsPrepared
  <2>2. /\ p[1] \in Asking /\ round[p] = 2 /\ R.nap = 0 /\ op.key[1] = "default"
        /\ R.says = {} /\ R.shows = [k \in {D} |-> 0]
    BY <2>1 DEF OnDocument, Simple, Now
  <2>3. index[D] = docs[D] /\ "Brass" \in DOMAIN docs[D].body
    BY <1>1, <2>1, <2>2 DEF InSight, Prepared
  <2>4. D \in DOMAIN index /\ D[1] = "default"
    <3>1. D \in KeysOf(run)
      BY <1>3, DocumentUsed DEF Maps
    <3>2. D[1] = "default"
      BY <2>2 DEF Document, Asking, Subdocument, User, Key
    <3> QED
      BY <3>1, <3>2 DEF Followed
  <2>5. D \in rows
    BY <2>2, <2>3, <2>4
  <2> HIDE DEF D, rows
  <2>6. Announced(R, answer)
    <3>1. DOMAIN R.shows = {D} /\ R.shows[D] = 0
      BY <2>2
    <3>2. D \in DOMAIN row /\ row[D] = 0
      BY <2>5
    <3>3. CASE docs[op.key].there
      <4>1. answer.body = row
        BY <3>3 DEF Answer
      <4> QED
        BY <2>2, <3>1, <3>2, <4>1 DEF Announced
    <3>4. CASE ~ docs[op.key].there
      <4>1. answer.rc = "QUERY_ERROR"
        BY <3>4 DEF Answer
      <4> QED
        BY <2>2, <4>1 DEF Announced
    <3> QED
      BY <3>3, <3>4
  <2>7. Leaves(p, round[p], docs'[D])
    <3>1. p[1] \in Asking => p[1] \notin {"counter", "expiration", "updating", "retrieving", "cloud",
                                          "subdoc_retrieving", "subdoc_updating", "create_remove_bucket"}
      BY DEF Asking
    <3>2. Prepared(p, 3, docs'[D])
      BY <2>2, <3>1 DEF Prepared
    <3> QED
      BY <2>2, <3>2 DEF Leaves
  <2>8. Kept(answer) = answer.body
    BY DEF Kept, Answer
  <2> HIDE DEF answer
  <2> QED
    BY <1>1, <2>1, <2>6, <2>7, <2>8, AnsweredSure DEF D
<1> HIDE DEF answer
<1>4. \A q \in clean' \ {p} : q[1] \in Announcing => Untouched(q)
  <2> SUFFICES ASSUME NEW q \in clean' \ {p} PROVE Untouched(q)
    OBVIOUS
  <2>1. q \in run \ {p}
    BY <1>1 DEF Followed
  <2>2. pc'[q] = pc[q] /\ todo'[q] = todo[q] /\ answers'[q] = answers[q]
    BY <1>1, <2>1, HearLeaves
  <2> QED
    BY <1>1, <1>2, <2>1, <2>2 DEF Untouched
<1>5. Relies'
  BY <1>1, <1>3, <1>4, RestRelies
<1>6. Followed' /\ NeverFound'
  BY <1>1, <1>2, FollowedStays, NeverFoundStays
<1> QED
  BY <1>5, <1>6

\* A program that flushes or wants its documents durable announces nothing.
LEMMA DurableIsSilent ==
  ASSUME run \in Scenarios, NEW p \in run, NEW r \in DOMAIN Rounds[p], NEW i \in DOMAIN Rounds[p][r].ops,
         Rounds[p][r].ops[i].does \in Durable \cup {"flush"}
  PROVE  p[1] \notin Announcing
<1> SUFFICES ASSUME p[1] \in Announcing PROVE FALSE
  OBVIOUS
<1>1. OnDocument(p, r)
  BY AllOnDocument
<1> QED
  BY <1>1 DEF OnDocument, Simple, Durable

\* The documents of the programs a flush leaves undisturbed stay.
LEMMA WipeDisturbs ==
  ASSUME IInv, AInv, run' = run, NEW p, NEW op, Wipe(p, op)
  PROVE  /\ NeverFound' /\ index' = index /\ clean' \subseteq clean
         /\ \A q \in clean' : q[1] \in Announcing /\ pc[q] # "boot" => docs'[Document(q)] = docs[Document(q)]
<1> USE DEF IInv, AInv
<1> DEFINE Wiped(k) == k[1] = op.key[1] /\ Stored(k)
<1>1. /\ docs' = [k \in DOMAIN docs |-> IF Wiped(k) THEN Gone(By(p)) ELSE docs[k]]
      /\ clean' = {q \in clean : pc[q] = "boot" \/ \A k \in Uses[q] : ~ Wiped(k)}
      /\ index' = index
  BY DEF Wipe
<1>2. DOMAIN docs = KeysOf(run)
  BY DEF Documents
<1> HIDE DEF Wiped
<1>3. ~ Gone(By(p)).there
  BY DEF Gone
<1>4. missing \in KeysOf(run) => docs'[missing] = Gone(By(p)) \/ docs'[missing] = docs[missing]
  BY <1>1, <1>2
<1>5. NeverFound'
  BY <1>3, <1>4 DEF NeverFound
<1>6. ASSUME NEW q \in clean', q[1] \in Announcing, pc[q] # "boot"
      PROVE  docs'[Document(q)] = docs[Document(q)]
  <2>1. q \in run
    BY <1>1 DEF Followed
  <2>2. Document(q) \in Uses[q] /\ Document(q) \in KeysOf(run)
    BY <1>6, <2>1, DocumentUsed DEF Maps
  <2>3. ~ Wiped(Document(q))
    BY <1>1, <1>6, <2>2
  <2> QED
    BY <1>1, <1>2, <2>2, <2>3
<1> QED
  BY <1>1, <1>5, <1>6

\* A flush: the programs whose documents are wiped are disturbed.
LEMMA FlushRelies ==
  ASSUME IInv, AInv, NEW p \in run, NEW i, Flush(p, i)
  PROVE  AInv'
<1> USE DEF IInv, AInv
<1>1. /\ Waits(p, i, {"flush"})
      /\ Wipe(p, Now(p).ops[i]) \/ (UNCHANGED server /\ clean' = clean)
      /\ run' = run /\ round' = round /\ nap' = nap /\ stale' = stale
  BY DEF Flush
<1>2. PICK answer : Hear(p, i, answer)
  BY DEF Flush
<1>3. p[1] \notin Announcing
  <2>1. /\ run \in Scenarios /\ round[p] \in DOMAIN Rounds[p] /\ i \in DOMAIN Now(p).ops
        /\ Now(p).ops[i].does \in {"flush"}
    BY <1>1, WhereItWaits
  <2> QED
    BY <2>1, DurableIsSilent DEF Now
<1>4. /\ NeverFound' /\ index' = index /\ clean' \subseteq clean
      /\ \A q \in clean' : q[1] \in Announcing /\ pc[q] # "boot" => docs'[Document(q)] = docs[Document(q)]
  <2>1. CASE Wipe(p, Now(p).ops[i])
    BY <1>1, <2>1, WipeDisturbs
  <2>2. CASE UNCHANGED server /\ clean' = clean
    BY <1>1, <2>2, NeverFoundStays DEF server
  <2> QED
    BY <1>1, <2>1, <2>2
<1>5. \A q \in clean' \ {p} : q[1] \in Announcing => Untouched(q)
  <2> SUFFICES ASSUME NEW q \in clean' \ {p}, q[1] \in Announcing PROVE Untouched(q)
    OBVIOUS
  <2>1. q \in run \ {p}
    BY <1>4 DEF Followed
  <2>2. pc'[q] = pc[q] /\ todo'[q] = todo[q] /\ answers'[q] = answers[q]
    BY <1>2, <2>1, HearLeaves
  <2> QED
    BY <1>1, <1>4, <2>1, <2>2 DEF Untouched
<1>6. Relies'
  BY <1>3, <1>4, <1>5, RestRelies
<1>7. Followed'
  BY <1>1, <1>4, FollowedStays DEF Followed
<1> QED
  BY <1>4, <1>6, <1>7

\* A request or its answer is lost: its program is not undisturbed any more.
LEMMA LoseRelies ==
  ASSUME IInv, AInv, NEW p \in run, NEW i, Lose(p, i)
  PROVE  AInv'
<1> USE DEF IInv, AInv
<1> DEFINE op == Now(p).ops[i]
           end == IF op.does \in Simple THEN Handle(op, docs[op.key], By(p)).doc ELSE Doc(op.body, 0, By(p))
<1>1. /\ Waits(p, i, Simple \cup Durable \cup {"query", "flush"})
      /\ \/ UNCHANGED server /\ clean' = clean \ {p}
         \/ op.does = "flush" /\ Wipe(p, op)
         \/ /\ op.does \notin {"query", "flush"} /\ end # docs[op.key]
            /\ Put(p, op.key, end)
            /\ clean' = clean \ ({p} \cup Disturbed(p, op.key, end))
      /\ Hear(p, i, Answer("ETIMEDOUT", NoBody))
      /\ stale' = [stale EXCEPT ![p] = {}]
      /\ run' = run /\ round' = round /\ nap' = nap
  BY DEF Lose
<1>2. /\ run \in Scenarios /\ round[p] \in DOMAIN Rounds[p] /\ i \in DOMAIN Now(p).ops
      /\ op.does # "flush" => op.key \in KeysOf(run)
      /\ op.does \in Simple \cup Durable \cup {"query", "flush"}
  BY <1>1, WhereItWaits
<1>3. op.key = missing /\ op.does \in Simple => end = docs[op.key]
  <2>1. op.key = missing => op.does = "get"
    BY <1>2, MissingIsRead DEF Now
  <2>2. op.does = "get" => Handle(op, docs[op.key], By(p)) = Get(docs[op.key])
    BY DEF Handle
  <2>3. Get(docs[op.key]).doc = docs[op.key]
    BY DEF Get, IfThere, Done, Fails
  <2> QED
    BY <2>1, <2>2, <2>3
<1>4. op.key = missing => op.does \notin Durable
  <2>1. op.key = missing => op.does = "get"
    BY <1>2, MissingIsRead DEF Now
  <2> QED
    BY <2>1 DEF Durable
<1> HIDE DEF end
<1>5. /\ NeverFound' /\ index' = index /\ clean' \subseteq clean /\ (p \in clean' => p[1] \notin Announcing)
      /\ \A q \in clean' \ {p} : q[1] \in Announcing /\ pc[q] # "boot" => docs'[Document(q)] = docs[Document(q)]
  <2>1. CASE UNCHANGED server /\ clean' = clean \ {p}
    BY <1>1, <2>1, NeverFoundStays DEF server
  <2>2. CASE op.does = "flush" /\ Wipe(p, op)
    <3>1. p[1] \notin Announcing
      BY <1>2, <2>2, DurableIsSilent DEF Now
    <3> QED
      BY <1>1, <2>2, <3>1, WipeDisturbs
  <2>3. CASE /\ op.does \notin {"query", "flush"} /\ end # docs[op.key]
             /\ Put(p, op.key, end)
             /\ clean' = clean \ ({p} \cup Disturbed(p, op.key, end))
    <3> DEFINE k == op.key
    <3>1. k \in KeysOf(run) /\ k # missing
      BY <1>2, <1>3, <1>4, <2>3
    <3> HIDE DEF k
    <3>2. Put(p, k, end) /\ clean' = clean \ ({p} \cup Disturbed(p, k, end))
      BY <2>3 DEF k
    <3>3. NeverFound' /\ index' = index
      BY <1>1, <3>1, <3>2, PutNeverFound, PutOne
    <3>4. ASSUME NEW q \in clean' \ {p}, q[1] \in Announcing, pc[q] # "boot"
          PROVE  docs'[Document(q)] = docs[Document(q)]
      <4>1. q \in run \ {p} /\ q \notin Disturbed(p, k, end)
        BY <3>2 DEF Followed
      <4> QED
        BY <1>2, <3>1, <3>2, <3>4, <4>1, PutDisturbs
    <3> QED
      BY <3>2, <3>3, <3>4
  <2> QED
    BY <1>1, <2>1, <2>2, <2>3
<1>6. DOMAIN stale' = run /\ \A q \in run \ {p} : stale'[q] = stale[q]
  BY <1>1 DEF Followed
<1>7. \A q \in clean' \ {p} : q[1] \in Announcing => Untouched(q)
  <2> SUFFICES ASSUME NEW q \in clean' \ {p}, q[1] \in Announcing PROVE Untouched(q)
    OBVIOUS
  <2>1. q \in run \ {p}
    BY <1>5 DEF Followed
  <2>2. pc'[q] = pc[q] /\ todo'[q] = todo[q] /\ answers'[q] = answers[q]
    BY <1>1, <2>1, HearLeaves
  <2> QED
    BY <1>1, <1>5, <1>6, <2>1, <2>2 DEF Untouched
<1>8. Relies'
  BY <1>5, <1>7, RestRelies
<1>9. Followed'
  BY <1>1, <1>5, <1>6, FollowedStays
<1> QED
  BY <1>5, <1>8, <1>9

\* A durable write is not of a document an announcing program is undisturbed with.
LEMMA ServeDurableRelies ==
  ASSUME IInv, AInv, NEW p \in run, NEW i, ServeDurable(p, i)
  PROVE  AInv'
<1> USE DEF IInv, AInv
<1> DEFINE op == Now(p).ops[i]
           d == Doc(op.body, 0, By(p))
           k == op.key
<1>1. /\ Waits(p, i, Durable) /\ Put(p, k, d)
      /\ clean' = clean \ Disturbed(p, k, d)
      /\ todo' = [todo EXCEPT ![p] = @ \ {i}]
      /\ run' = run /\ pc' = pc /\ round' = round /\ stale' = stale /\ answers' = answers /\ nap' = nap
  BY DEF ServeDurable
<1>2. /\ run \in Scenarios /\ round[p] \in DOMAIN Rounds[p] /\ i \in DOMAIN Now(p).ops
      /\ op.does \in Durable /\ k \in KeysOf(run)
  BY <1>1, WhereItWaits DEF Durable
<1>3. p[1] \notin Announcing
  BY <1>2, DurableIsSilent DEF Now
<1>4. k # missing
  <2>1. k = missing => op.does = "get"
    BY <1>2, MissingIsRead DEF Now
  <2> QED
    BY <1>2, <2>1 DEF Durable
<1> HIDE DEF d, k
<1>5. NeverFound' /\ index' = index
  BY <1>1, <1>2, <1>4, PutNeverFound, PutOne
<1>6. \A q \in run \ {p} : todo'[q] = todo[q]
  BY <1>1 DEF Maps
<1>7. \A q \in clean' \ {p} : q[1] \in Announcing => Untouched(q)
  <2> SUFFICES ASSUME NEW q \in clean' \ {p}, q[1] \in Announcing PROVE Untouched(q)
    OBVIOUS
  <2>1. q \in run \ {p} /\ q \notin Disturbed(p, k, d)
    BY <1>1 DEF Followed
  <2>2. pc[q] # "boot" => docs'[Document(q)] = docs[Document(q)]
    BY <1>1, <1>2, <2>1, PutDisturbs
  <2> QED
    BY <1>1, <1>5, <1>6, <2>1, <2>2 DEF Untouched
<1>8. Relies'
  BY <1>1, <1>3, <1>7, RestRelies
<1>9. Followed'
  BY <1>1, <1>5, FollowedStays DEF Followed
<1> QED
  BY <1>5, <1>8, <1>9

\* The poll of a durable write is answered.
LEMMA EndureRelies ==
  ASSUME IInv, AInv, NEW p \in run, NEW k \in enduring[p], Endure(p, k)
  PROVE  AInv'
<1> USE DEF IInv, AInv
<1>1. /\ run' = run /\ docs' = docs /\ index' = index /\ pc' = pc /\ round' = round /\ todo' = todo
      /\ nap' = nap /\ clean' = clean /\ stale' = stale
      /\ \E more : answers' = [answers EXCEPT ![p] = more]
  BY DEF Endure, server
<1>2. p[1] \notin Announcing
  <2>1. DurableRound(p, round[p]) /\ run \in Scenarios
    BY DEF Stages, Fits, Maps
  <2> QED
    BY <2>1, DurableIsSilent DEF DurableRound
<1>3. \A q \in run \ {p} : answers'[q] = answers[q]
  BY <1>1 DEF Maps
<1>4. \A q \in clean' \ {p} : q[1] \in Announcing => Untouched(q)
  BY <1>1, <1>3 DEF Untouched, Followed
<1>5. Relies'
  BY <1>1, <1>2, <1>4, RestRelies
<1>6. Followed' /\ NeverFound'
  BY <1>1, FollowedStays, NeverFoundStays DEF Followed
<1> QED
  BY <1>5, <1>6

\* A round is over: it leaves what the next one rests on.
LEMMA FinishRelies ==
  ASSUME IInv, AInv, NEW p \in run, Finish(p)
  PROVE  AInv'
<1> USE DEF IInv, AInv
<1>1. /\ run' = run /\ docs' = docs /\ index' = index /\ todo' = todo /\ clean' = clean /\ stale' = stale
      /\ pc[p] = "waiting" /\ todo[p] = {}
  BY DEF Finish, Returned, server
<1>2. /\ DOMAIN pc = run /\ DOMAIN round = run /\ DOMAIN nap = run /\ DOMAIN answers = run
  BY DEF Maps
<1>3. \/ /\ Goto(p, "aborted") /\ round' = round /\ answers' = answers /\ nap' = nap
      \/ /\ answers' = [answers EXCEPT ![p] = <<>>]
         /\ nap' = [nap EXCEPT ![p] = Now(p).nap]
         /\ round' = [round EXCEPT ![p] = IF @ = Len(Rounds[p]) \/ Now(p).nap > 0 THEN @ ELSE @ + 1]
         /\ IF Now(p).nap > 0 THEN Goto(p, "napping") ELSE Advance(p)
  BY DEF Finish
<1>4. /\ \A q \in run \ {p} : pc'[q] = pc[q] /\ round'[q] = round[q] /\ answers'[q] = answers[q] /\ nap'[q] = nap[q]
      /\ \/ pc'[p] = "aborted"
         \/ Now(p).nap > 0 /\ pc'[p] = "napping" /\ nap'[p] = Now(p).nap /\ round'[p] = round[p]
         \/ pc'[p] = "ended"
         \/ ~ (Now(p).nap > 0) /\ pc'[p] = "ready" /\ round'[p] = round[p] + 1
  <2>1. CASE Goto(p, "aborted") /\ round' = round /\ answers' = answers /\ nap' = nap
    BY <1>2, <2>1 DEF Goto
  <2>2. CASE /\ answers' = [answers EXCEPT ![p] = <<>>]
             /\ nap' = [nap EXCEPT ![p] = Now(p).nap]
             /\ round' = [round EXCEPT ![p] = IF @ = Len(Rounds[p]) \/ Now(p).nap > 0 THEN @ ELSE @ + 1]
             /\ IF Now(p).nap > 0 THEN Goto(p, "napping") ELSE Advance(p)
    BY <1>2, <2>2 DEF Goto, Advance
  <2> QED
    BY <1>3, <2>1, <2>2
<1>5. \A q \in clean' \ {p} : q[1] \in Announcing => Untouched(q)
  BY <1>1, <1>4 DEF Untouched, Followed
<1>6. ASSUME p \in clean', p[1] \in Announcing PROVE Sure(p)'
  <2>1. Leaves(p, round[p], docs[Document(p)])
    BY <1>1, <1>6 DEF Relies, Sure, Undisturbed
  <2> QED
    BY <1>1, <1>4, <2>1 DEF Leaves, Now, Sure, Undisturbed
<1>7. Relies'
  BY <1>1, <1>5, <1>6, RestRelies
<1>8. Followed' /\ NeverFound'
  BY <1>1, FollowedStays, NeverFoundStays DEF Followed
<1> QED
  BY <1>7, <1>8

\* A second brings a document nearer to its end, and one that is gone stays so.
LEMMA OlderFades ==
  ASSUME NEW d, Shaped(d)
  PROVE  /\ ~ d.there => Older(d) = d
         /\ Fading(d, 1) => ~ Older(d).there
         /\ \A n \in Nat : n > 1 /\ Fading(d, n) => Fading(Older(d), n - 1)
<1>1. ~ d.there => Older(d) = d
  BY Zenon DEF Older
<1>2. d.there /\ d.life = 1 => ~ Older(d).there
  BY DEF Older, Gone
<1>3. Fading(d, 1) => ~ Older(d).there
  <2>1. d.life \in 1 .. 1 => d.life = 1
    OBVIOUS
  <2>2. ~ d.there => ~ Older(d).there
    BY Zenon, <1>1
  <2> QED
    BY Zenon, <1>2, <2>1, <2>2 DEF Fading
<1>4. ASSUME NEW n \in Nat, n > 1, Fading(d, n) PROVE Fading(Older(d), n - 1)
  <2>1. CASE ~ d.there
    BY Zenon, <1>1, <2>1 DEF Fading
  <2>2. CASE d.there /\ d.life = 1
    BY Zenon, <1>2, <2>2 DEF Fading
  <2>3. CASE d.there /\ d.life \in 2 .. n
    <3>1. Older(d) = [d EXCEPT !.life = @ - 1]
      BY <2>3 DEF Older
    <3>2. Older(d).life = d.life - 1
      BY <3>1 DEF Shaped
    <3>3. Older(d).life \in 1 .. n - 1
      BY <2>3, <3>2
    <3> QED
      BY Zenon, <3>3 DEF Fading
  <2>4. d.life \in 1 .. n => d.life = 1 \/ d.life \in 2 .. n
    BY <1>4
  <2> QED
    BY <1>4, <2>1, <2>2, <2>3, <2>4, Zenon DEF Fading
<1> QED
  BY <1>1, <1>3, <1>4

\* A second passes: what sleeps wakes up when its document is gone.
LEMMA TickRelies ==
  ASSUME IInv, AInv, Tick
  PROVE  AInv'
<1> USE DEF IInv, AInv
<1> DEFINE sleeping == {p \in run : pc[p] = "napping"}
           awake == {p \in run : nap[p] = 1}
<1>1. /\ docs' = [k \in DOMAIN docs |-> Older(docs[k])]
      /\ nap' = [p \in run |-> IF p \in sleeping THEN nap[p] - 1 ELSE nap[p]]
      /\ pc' = [p \in run |-> IF p \in awake THEN "ready" ELSE pc[p]]
      /\ round' = [p \in run |-> IF p \in awake THEN round[p] + 1 ELSE round[p]]
      /\ clean' = IF docs' = docs THEN clean ELSE clean \cap sleeping
      /\ run' = run /\ index' = index /\ todo' = todo /\ stale' = stale /\ answers' = answers
  BY DEF Tick
<1>2. clean' \subseteq clean /\ DOMAIN docs = KeysOf(run) /\ run \in Scenarios
  BY <1>1 DEF Documents, Maps
<1>3. ASSUME NEW q \in clean', q[1] \in Announcing PROVE Sure(q)'
  <2> DEFINE D == Document(q)
             r == round[q]
  <2>1. q \in run /\ Sure(q) /\ Fits(q, pc[q], r, todo[q], enduring[q], nap[q], answers[q])
    BY <1>2, <1>3 DEF Followed, Relies, Stages
  <2>2. D \in KeysOf(run) /\ Shaped(docs[D])
    BY <1>2, <1>3, <2>1, DocumentUsed DEF Documents
  <2>3. docs'[D] = Older(docs[D])
    BY <1>1, <1>2, <2>2
  <2>4. CASE pc[q] = "napping"
    <3>1. /\ nap[q] \in Nat /\ nap[q] > 0 /\ Rounds[q][r].nap > 0 /\ Fading(docs[D], nap[q])
          /\ r \in DOMAIN Rounds[q] /\ r \in Nat
      BY <2>1, <2>4 DEF Fits, Sure, Undisturbed
    <3>2. CASE nap[q] = 1
      <4>1. pc'[q] = "ready" /\ round'[q] = r + 1
        BY <1>1, <2>1, <3>2
      <4>2. ~ docs'[D].there
        <5>1. ~ Older(docs[D]).there
          BY <2>2, <3>1, <3>2, OlderFades
        <5> QED
          BY Zenon, <2>3, <5>1
      <4>3. q[1] = "expiration" /\ r \in {2, 5, 8}
        <5>1. OnDocument(q, r)
          BY <1>2, <1>3, <2>1, <3>1, AllOnDocument
        <5> QED
          BY <3>1, <5>1 DEF OnDocument
      <4>4. Prepared(q, r + 1, docs'[D])
        BY <4>2, <4>3 DEF Prepared, Asking
      <4> QED
        BY <4>1, <4>4 DEF Sure, Undisturbed
    <3>3. CASE nap[q] # 1
      <4>1. nap[q] > 1
        BY <3>1, <3>3
      <4>2. pc'[q] = "napping" /\ round'[q] = r /\ nap'[q] = nap[q] - 1
        BY <1>1, <2>1, <2>4, <3>3
      <4>3. Fading(docs'[D], nap'[q])
        BY <2>2, <2>3, <3>1, <4>1, <4>2, OlderFades
      <4> QED
        BY <3>1, <4>2, <4>3 DEF Sure, Undisturbed
    <3> QED
      BY <3>2, <3>3
  <2>5. CASE pc[q] # "napping"
    <3>1. docs' = docs
      BY <1>1, <1>3, <2>5
    <3>2. nap[q] = 0
      BY <2>1, <2>5 DEF Fits
    <3>3. pc'[q] = pc[q] /\ round'[q] = round[q] /\ nap'[q] = nap[q]
      BY <1>1, <2>1, <2>5, <3>2
    <3>4. Untouched(q)
      BY <1>1, <3>1, <3>3 DEF Untouched
    <3> QED
      BY <2>1, <3>4, UntouchedSure
  <2> QED
    BY <2>4, <2>5
<1>4. Relies'
  BY <1>3 DEF Relies
<1>5. NeverFound'
  <2>1. missing \in KeysOf(run) => Shaped(docs[missing]) /\ docs'[missing] = Older(docs[missing])
    BY <1>1, <1>2 DEF Documents
  <2>2. missing \in KeysOf(run) => docs'[missing] = docs[missing]
    BY <2>1, OlderFades DEF NeverFound
  <2>3. KeysOf(run') = KeysOf(run)
    BY <1>1
  <2> QED
    BY Zenon, <2>2, <2>3 DEF NeverFound
<1>6. Followed'
  BY <1>1, <1>2, FollowedStays DEF Followed
<1> QED
  BY <1>4, <1>5, <1>6

\* Nobody moves and nothing is stored: what the programs rely on stays.
LEMMA NothingRelies ==
  ASSUME AInv, run' = run, docs' = docs, index' = index, pc' = pc, round' = round, todo' = todo,
         nap' = nap, answers' = answers, stale' = stale, clean' = clean
  PROVE  AInv'
<1> USE DEF AInv
<1>1. Relies'
  BY DEF Relies, Sure
<1>2. Followed' /\ NeverFound'
  BY FollowedStays, NeverFoundStays DEF Followed
<1> QED
  BY <1>1, <1>2

\* The index reaches a document: it is as it is stored.
LEMMA IndexRelies ==
  ASSUME IInv, AInv, NEW k \in DOMAIN docs, Index(k)
  PROVE  AInv'
<1> USE DEF IInv, AInv
<1>1. /\ index' = [index EXCEPT ![k] = docs[k]]
      /\ stale' = [p \in run |-> stale[p] \ {k}]
      /\ run' = run /\ docs' = docs /\ pc' = pc /\ round' = round /\ todo' = todo
      /\ nap' = nap /\ answers' = answers /\ clean' = clean
  BY DEF Index
<1>2. DOMAIN index = KeysOf(run) /\ run \in Scenarios
  BY DEF Followed, Maps
<1>3. ASSUME NEW q \in clean', q[1] \in Announcing PROVE Sure(q)'
  <2> DEFINE D == Document(q)
  <2>1. q \in run /\ Sure(q)
    BY <1>1, <1>3 DEF Followed, Relies
  <2>2. D \in KeysOf(run)
    BY <1>2, <1>3, <2>1, DocumentUsed
  <2>3. stale'[q] = stale[q] \ {k} /\ index'[D] = IF D = k THEN docs[D] ELSE index[D]
    BY <1>1, <1>2, <2>1, <2>2
  <2>4. InSight(q, stale[q], index[D], docs[D]) => InSight(q, stale'[q], index'[D], docs[D])
    BY <2>3 DEF InSight
  <2> QED
    BY <1>1, <2>1, <2>4 DEF Sure, Undisturbed
<1>4. Relies'
  BY <1>3 DEF Relies
<1>5. NeverFound'
  BY <1>1, NeverFoundStays
<1>6. Followed'
  <2>1. DOMAIN index' = DOMAIN index /\ DOMAIN stale' = run /\ KeysOf(run') = KeysOf(run)
    BY <1>1
  <2> QED
    BY <1>1, <2>1 DEF Followed
<1> QED
  BY <1>4, <1>5, <1>6

\* The replica takes over: no program is undisturbed any more.
LEMMA FailoverRelies ==
  ASSUME IInv, AInv, Failover
  PROVE  AInv'
<1> USE DEF IInv, AInv
<1>1. /\ docs' = [k \in DOMAIN docs |-> IF k \in Replicated THEN backup[k] ELSE docs[k]]
      /\ clean' = {} /\ run' = run /\ index' = index /\ stale' = stale
  BY DEF Failover
<1>2. Relies'
  BY <1>1 DEF Relies
<1>3. missing \notin Replicated
  <2> SUFFICES ASSUME missing \in Replicated PROVE FALSE
    OBVIOUS
  <2>1. PICK o \in UNION {OpsOf[p] : p \in run} : o.does \in Durable /\ o.key = missing
    BY DEF Replicated
  <2>2. PICK p \in run : o \in OpsOf[p]
    BY <2>1
  <2>3. run \in Scenarios /\ p \in Programs
    BY TheirRounds DEF Maps
  <2>4. PICK r \in DOMAIN Rounds[p] : o \in ToSet(Rounds[p][r].ops)
    BY <2>2, <2>3 DEF OpsOf
  <2>5. PICK i \in DOMAIN Rounds[p][r].ops : o = Rounds[p][r].ops[i]
    BY <2>4 DEF ToSet
  <2>6. o.does = "get"
    BY <2>1, <2>3, <2>5, MissingIsRead
  <2> QED
    BY <2>1, <2>6 DEF Durable
<1>4. NeverFound'
  <2>1. missing \in KeysOf(run) => docs'[missing] = docs[missing]
    BY <1>1, <1>3 DEF Documents
  <2>2. KeysOf(run') = KeysOf(run)
    BY <1>1
  <2> QED
    BY Zenon, <2>1, <2>2 DEF NeverFound
<1>5. Followed'
  BY <1>1, FollowedStays DEF Followed
<1> QED
  BY <1>2, <1>4, <1>5

\* At first nobody is connected, and the document nobody stores is not there.
LEMMA InitRelies == ASSUME Init PROVE AInv
<1>1. PICK earlier \in BOOLEAN : docs = [k \in KeysOf(run) |-> Left(k, earlier)]
  BY DEF Init
<1>2. index = docs /\ clean = run /\ pc = [p \in run |-> "boot"] /\ stale = [p \in run |-> {}]
  BY DEF Init
<1>3. Followed
  BY <1>1, <1>2 DEF Followed
<1>4. ~ Left(missing, earlier).there
  <2>1. Left(missing, earlier) = Gone(<<"earlier", 0, 0>>)
    BY DEF Left, missing, Key
  <2> QED
    BY <2>1 DEF Gone
<1>5. NeverFound
  BY <1>1, <1>4 DEF NeverFound
<1>6. Relies
  BY <1>2 DEF Relies, Sure, Undisturbed
<1> QED
  BY <1>3, <1>5, <1>6 DEF AInv

\* What an undisturbed program rests on is there when it asks, whatever the others do.
THEOREM Reliance == Spec => [](IInv /\ AInv)
<1>1. Init => AInv
  BY InitRelies
<1>2. IInv /\ AInv /\ [Next]_vars => AInv'
  <2> SUFFICES ASSUME IInv, AInv, [Next]_vars PROVE AInv'
    OBVIOUS
  <2>1. ASSUME NEW p \in run, Operation(p) PROVE AInv'
    <3>1. CASE Boot(p)
      BY <3>1, BootRelies
    <3>2. CASE Schedule(p)
      BY <3>2, ScheduleRelies
    <3>3. CASE Finish(p)
      BY <3>3, FinishRelies
    <3>4. ASSUME NEW i \in 1 .. 3, SchedFails(p, i) PROVE AInv'
      BY <3>4, SchedFailsRelies
    <3>5. ASSUME NEW i \in 1 .. 3, Serve(p, i) PROVE AInv'
      BY <3>5, ServeRelies
    <3>6. ASSUME NEW i \in 1 .. 3, ServeDurable(p, i) PROVE AInv'
      BY <3>6, ServeDurableRelies
    <3>7. ASSUME NEW i \in 1 .. 3, Query(p, i) PROVE AInv'
      BY <3>7, QueryRelies
    <3>8. ASSUME NEW i \in 1 .. 3, Flush(p, i) PROVE AInv'
      BY <3>8, FlushRelies
    <3>9. ASSUME NEW i \in 1 .. 3, Lose(p, i) PROVE AInv'
      BY <3>9, LoseRelies
    <3>10. ASSUME NEW k \in enduring[p], Endure(p, k) PROVE AInv'
      BY <3>10, EndureRelies
    <3> QED
      BY <2>1, <3>1, <3>2, <3>3, <3>4, <3>5, <3>6, <3>7, <3>8, <3>9, <3>10 DEF Operation
  <2>2. ASSUME NEW k \in DOMAIN docs, Replicate(k) PROVE AInv'
    BY <2>2, NothingRelies DEF Replicate
  <2>3. ASSUME NEW k \in DOMAIN docs, Index(k) PROVE AInv'
    BY <2>3, IndexRelies
  <2>4. CASE Tick
    BY <2>4, TickRelies
  <2>5. CASE Failover
    BY <2>5, FailoverRelies
  <2>6. CASE UNCHANGED vars
    BY <2>6, NothingRelies DEF vars
  <2>7. CASE AllEnded
    BY <2>6, <2>7 DEF AllEnded
  <2> QED
    BY <2>1, <2>2, <2>3, <2>4, <2>5, <2>6, <2>7 DEF Next
<1> QED
  BY <1>1, <1>2, Invariance, PTL DEF Spec

\* A program that has its answer, and that nothing disturbed, was told what its comments and the
\* lines around it announce: the fresh counter's 100, 101 and 51, the reads that should fail,
\* the insert that fails, the document among the rows.
THEOREM Announcements == Spec => []AsPromised
<1>1. IInv /\ AInv => AsPromised
  <2> SUFFICES ASSUME IInv, AInv, NEW p \in clean, Returned(p), Len(Now(p).ops) = 1, answers[p] # <<>>
               PROVE  Announced(Now(p), LastAnswer(p))
    BY DEF AsPromised, Announced
  <2>1. p \in run /\ run \in Scenarios /\ pc[p] = "waiting" /\ todo[p] = {}
    BY DEF AInv, Followed, IInv, Maps, Returned
  <2>2. round[p] \in DOMAIN Rounds[p]
    BY <2>1 DEF IInv, Stages, Fits
  <2>3. CASE p[1] \in Announcing
    <3>1. answers[p] = <<answers[p][1]>> /\ Announced(Now(p), answers[p][1])
      BY <2>1, <2>3 DEF AInv, Relies, Sure, Undisturbed, Now
    <3>2. LastAnswer(p) = answers[p][1]
      BY <3>1 DEF LastAnswer
    <3> QED
      BY <3>1, <3>2
  <2>4. CASE p[1] \notin Announcing
    <3>1. Silent(Now(p), p[1])
      BY <2>1, <2>2, <2>4, OthersAreSilent DEF Now
    <3> QED
      BY <3>1 DEF Silent, Announced, NoBody
  <2> QED
    BY <2>3, <2>4
<1> QED
  BY <1>1, Reliance, PTL
-----------------------------------------------------------------------------
(* Asserts. *)

\* The operations of c/subdoc-retrieving.cc and c/subdoc-updating.cc on the document they share.
Storing == {Write("set", a_key, Person(3), 0), Write("set", a_key, Person(4), 0)}

\* The operations that change it.
Changing == {manyPaths, deepPath, madePath}

\* The rounds whose answers they assert keep them.
LEMMA AssertsAreHeard ==
  subdoc_retrieving[2].callback /\ subdoc_updating[2].callback /\ subdoc_updating[3].callback
<1>1. \A op, rc : Quiet(op).callback = TRUE /\ DOMAIN Quiet(op) = Fields
                  /\ Says(op, rc).callback = TRUE /\ DOMAIN Says(op, rc) = Fields
  BY DEF Quiet, Says, Round, Fields
<1> DEFINE q == Quiet(lookup)
           codes == {"MULTI_FAILURE"}
           ok == {"SUCCESS"}
           b2 == Says(manyPaths, "SUCCESS")
           b3 == Says(Op("get", a_key), "SUCCESS")
<1>2. /\ subdoc_retrieving[2] = [[[q EXCEPT !.says = codes] EXCEPT !.asserts = codes] EXCEPT !.shows = emailAndArray]
      /\ subdoc_updating[2] = [b2 EXCEPT !.asserts = ok]
      /\ subdoc_updating[3] = [[[b3 EXCEPT !.asserts = ok] EXCEPT !.asserted_by = "callback"]
                                    EXCEPT !.shows = updatedPaths]
  BY DEF subdoc_retrieving, subdoc_updating, lookup, emailAndArray, manyPaths, updatedPaths
<1>3. /\ q.callback = TRUE /\ DOMAIN q = Fields /\ b2.callback = TRUE /\ DOMAIN b2 = Fields
      /\ b3.callback = TRUE /\ DOMAIN b3 = Fields
  BY <1>1
<1> HIDE DEF q, b2, b3, codes, ok
<1>4. subdoc_retrieving[2].callback = TRUE
  BY <1>2, <1>3 DEF Fields
<1>5. subdoc_updating[2].callback = TRUE
  BY <1>2, <1>3 DEF Fields
<1>6. subdoc_updating[3].callback = TRUE
  BY <1>2, <1>3 DEF Fields
<1> QED
  BY <1>4, <1>5, <1>6

\* What a round of these programs does, and which answer it asserts.
Shared(R, r) ==
  LET op == R.ops[1]
  IN /\ DOMAIN R.ops = {1} /\ op.key = a_key /\ ~ (R.nap > 0)
     /\ op \in Storing \cup Changing \cup {lookup, Op("get", a_key)}
     /\ r = 1 => op \in Storing
     /\ R.asserts # {} => /\ r > 1 /\ R.callback
                          /\ \/ op = lookup /\ R.asserts = {"MULTI_FAILURE"}
                             \/ op \in {manyPaths, Op("get", a_key)} /\ R.asserts = {"SUCCESS"}

\* The operations are on that document.
LEMMA SharedKeys ==
  \A op \in Storing \cup Changing \cup {lookup, Op("get", a_key)} : op.key = a_key
BY DEF Storing, Changing, lookup, LookupOp, manyPaths, deepPath, madePath, MutateOp, Op, Write

\* c/subdoc-retrieving.cc only stores it and looks at it.
LEMMA LookupShares ==
  ASSUME NEW r \in DOMAIN subdoc_retrieving
  PROVE  Shared(subdoc_retrieving[r], r)
<1> DEFINE R == subdoc_retrieving[r]
<1>1. r = 1 \/ r = 2
  BY LookupRows
<1>2. DOMAIN R.ops = {1} /\ R.nap = 0
  BY <1>1, LookupRows DEF Row
<1>3. r = 1 => R.ops[1] \in Storing /\ R.asserts = {}
  BY LookupRows DEF Row, Storing
<1>4. r = 2 => R.ops[1] = lookup /\ R.asserts = {"MULTI_FAILURE"} /\ R.callback
  BY LookupRows, AssertsAreHeard DEF Row
<1> HIDE DEF R
<1>5. R.ops[1] \in Storing \cup Changing \cup {lookup, Op("get", a_key)}
  BY <1>1, <1>3, <1>4
<1>6. R.ops[1].key = a_key
  BY <1>5, SharedKeys
<1>7. Shared(R, r)
  BY <1>1, <1>2, <1>3, <1>4, <1>5, <1>6 DEF Shared
<1> QED
  BY <1>7 DEF R

\* So does c/subdoc-updating.cc.
LEMMA MutationShares ==
  ASSUME NEW r \in DOMAIN subdoc_updating
  PROVE  Shared(subdoc_updating[r], r)
<1> DEFINE R == subdoc_updating[r]
           get == Op("get", a_key)
<1>1. r \in 1 .. 5
  BY MutationRows
<1>2. DOMAIN R.ops = {1} /\ R.nap = 0
  BY <1>1, MutationRows DEF Row
<1>3. r = 1 => R.ops[1] \in Storing /\ R.asserts = {}
  BY MutationRows DEF Row, Storing
<1>4. r = 2 => R.ops[1] = manyPaths /\ R.asserts = {"SUCCESS"} /\ R.callback
  BY MutationRows, AssertsAreHeard DEF Row
<1>5. r = 3 => R.ops[1] = get /\ R.asserts = {"SUCCESS"} /\ R.callback
  BY MutationRows, AssertsAreHeard DEF Row
<1>6. r \in {4, 5} => R.ops[1] \in {deepPath, madePath} /\ R.asserts = {}
  BY MutationRows DEF Row
<1> HIDE DEF R, get
<1>7. R.ops[1] \in Storing \cup Changing \cup {lookup, get}
  BY <1>1, <1>3, <1>4, <1>5, <1>6 DEF Changing
<1>8. R.ops[1].key = a_key
  BY <1>7, SharedKeys DEF get
<1>9. R.asserts # {} => r > 1 /\ R.callback /\ R.ops[1] \in {manyPaths, get} /\ R.asserts = {"SUCCESS"}
  BY <1>1, <1>3, <1>4, <1>5, <1>6
<1>10. Shared(R, r)
  BY <1>1, <1>2, <1>3, <1>7, <1>8, <1>9 DEF Shared, get
<1> QED
  BY <1>10 DEF R

\* All their rounds are of that form.
LEMMA SubdocumentShares ==
  ASSUME run \in Scenarios, NEW p \in run, p[1] \in Subdocument
  PROVE  /\ p[1] \in Announcing /\ Document(p) = a_key /\ a_key \in KeysOf(run)
         /\ \A r \in DOMAIN Rounds[p] : Shared(Rounds[p][r], r)
<1>1. p[1] \in Announcing /\ Document(p) = a_key
  BY DEF Announcing, Subdocument, Document, Asking
<1>2. a_key \in KeysOf(run)
  BY <1>1, DocumentUsed
<1>3. Rounds[p] = subdoc_retrieving \/ Rounds[p] = subdoc_updating
  BY TheirRounds DEF Subdocument
<1> QED
  BY <1>1, <1>2, <1>3, LookupShares, MutationShares

\* The other programs neither change that document nor assert anything.
LEMMA OthersDoNotShare ==
  ASSUME run \in Scenarios, NEW p \in run, p[1] \notin Subdocument, NEW r \in DOMAIN Rounds[p]
  PROVE  /\ Rounds[p][r].asserts = {}
         /\ \A i \in DOMAIN Rounds[p][r].ops :
              Rounds[p][r].ops[i].does \in Simple \cup Durable => Rounds[p][r].ops[i].key # a_key
<1>1. CASE p[1] \notin Announcing
  <2>1. Silent(Rounds[p][r], p[1])
    BY <1>1, OthersAreSilent
  <2> QED
    BY <2>1 DEF Silent, Elsewhere
<1>2. CASE p[1] \in Announcing
  <2>1. OnDocument(p, r)
    BY <1>2, AllOnDocument
  <2>2. Document(p) # a_key /\ missing # a_key
    BY <1>2 DEF Document, Announcing, Asking, Subdocument, docid, newBucket, User, Key, missing, a_key
  <2>3. ASSUME NEW i \in DOMAIN Rounds[p][r].ops, Rounds[p][r].ops[i].does \in Simple \cup Durable
        PROVE  Rounds[p][r].ops[i].key # a_key
    <3>1. i = 1
      BY <2>1 DEF OnDocument
    <3> QED
      BY <2>1, <2>2, <2>3, <3>1 DEF OnDocument, Simple, Durable
  <2>4. Rounds[p][r].asserts = {}
    <3>1. p[1] = "counter" => Rounds[p][r].asserts = {}
      BY TheirRounds, CounterRows DEF Row
    <3>2. p[1] = "expiration" => Rounds[p][r].asserts = {}
      BY TheirRounds, ExpirationRows DEF Row
    <3>3. p[1] = "updating" => Rounds[p][r].asserts = {}
      BY TheirRounds, UpdatingRows DEF Row
    <3>4. p[1] \in {"retrieving", "cloud"} => Rounds[p][r].asserts = {}
      BY TheirRounds, GetRows DEF Row
    <3>5. p[1] = "create_remove_bucket" => Rounds[p][r].asserts = {}
      BY TheirRounds, BucketRows DEF Row
    <3>6. p[1] \in Asking => Rounds[p][r].asserts = {}
      <4> DEFINE T == query_consistency(p[2])
                 U == query_atplus(p[2])
      <4>1. /\ DOMAIN T = 1 .. 2 /\ T[1].asserts = {} /\ T[2].asserts = {}
            /\ DOMAIN U = 1 .. 2 /\ U[1].asserts = {} /\ U[2].asserts = {}
        BY AskingRows DEF Row
      <4>2. p[1] \in Asking => Rounds[p] = T \/ Rounds[p] = U
        BY TheirRounds DEF Asking
      <4> HIDE DEF T, U
      <4> QED
        BY <4>1, <4>2
    <3> QED
      BY <1>2, <3>1, <3>2, <3>3, <3>4, <3>5, <3>6 DEF Announcing, Subdocument, Asking
  <2> QED
    BY <2>3, <2>4
<1> QED
  BY <1>1, <1>2

\* Only c/flush.c flushes.
LEMMA OnlyFlushFlushes ==
  ASSUME run \in Scenarios, NEW p \in run, NEW r \in DOMAIN Rounds[p], NEW i \in DOMAIN Rounds[p][r].ops,
         Rounds[p][r].ops[i].does = "flush"
  PROVE  p[1] = "flush"
<1>1. Silent(Rounds[p][r], p[1])
  BY DurableIsSilent, OthersAreSilent
<1> QED
  BY <1>1 DEF Silent, Elsewhere

\* Whatever these programs do with the document they share, each finds the paths its asserts need.
LEMMA SharedStaysPersonal ==
  ASSUME NEW d, Shaped(d), Personal(d), NEW by,
         NEW op \in Storing \cup Changing \cup {lookup, Op("get", a_key)}
  PROVE  LET end == Handle(op, d, by)
         IN /\ Personal(end.doc)
            /\ d.there => end.doc.there
            /\ op \in Storing => end.doc.there
            /\ d.there /\ op = lookup => end.answer.rc = "MULTI_FAILURE"
            /\ d.there /\ op \in {manyPaths, Op("get", a_key)} => end.answer.rc = "SUCCESS"
<1> DEFINE end == Handle(op, d, by)
<1>1. ASSUME op \in Storing PROVE IsPerson(end.doc)
  <2>1. \A n \in {3, 4} : IsPerson(Doc(Person(n), 0, by))
    BY DEF IsPerson, Doc, Person
  <2>2. \A n : Handle(Write("set", a_key, Person(n), 0), d, by).doc = Doc(Person(n), 0, by)
    BY Stores
  <2> QED
    BY <1>1, <2>1, <2>2 DEF Storing
<1>2. ASSUME op = Op("get", a_key)
      PROVE  end.doc = d /\ (d.there => end.answer.rc = "SUCCESS")
  BY <1>2, Reads
<1>3. ASSUME op \in Changing \cup {lookup}, ~ d.there PROVE end.doc = d
  <2>1. op.does \in {"mutate", "lookup"}
    BY <1>3 DEF Changing, lookup, LookupOp, manyPaths, deepPath, madePath, MutateOp
  <2>2. end = Mutate(op, d, by) \/ end = Lookup(op, d)
    BY <2>1 DEF Handle
  <2>3. end = Fails(d, "KEY_ENOENT")
    BY Zenon, <1>3, <2>2 DEF Mutate, Lookup, IfThere
  <2> HIDE DEF end
  <2> QED
    BY <2>3, Ends
<1>4. ASSUME op = lookup, d.there PROVE end.doc = d /\ end.answer.rc = "MULTI_FAILURE"
  <2>1. IsPerson(d)
    BY <1>4 DEF Personal
  <2>2. "non-exist" \notin DOMAIN d.body
    BY <2>1 DEF IsPerson
  <2> QED
    BY <1>4, <2>2, LookupEnds
<1>5. ASSUME op = manyPaths, d.there PROVE IsPerson(end.doc) /\ end.answer.rc = "SUCCESS"
  <2>1. IsPerson(d)
    BY <1>5 DEF Personal
  <2>2. /\ {"email", "array", "array[0]", "array[1]"} \subseteq DOMAIN d.body
        /\ "non-exist" \notin DOMAIN d.body /\ d.life = 0
    BY <2>1 DEF IsPerson
  <2> DEFINE e == Handle(manyPaths, d, by)
  <2>3. /\ e.answer = Answer("SUCCESS", NoBody) /\ e.doc.there /\ e.doc.life = d.life
        /\ DOMAIN e.doc.body = DOMAIN d.body \cup {"description"}
    BY <1>5, <2>2, ManyPaths
  <2> HIDE DEF e
  <2>4. IsPerson(e.doc)
    BY <2>2, <2>3 DEF IsPerson
  <2>5. e.answer.rc = "SUCCESS"
    BY <2>3, Ends
  <2>6. e = end
    BY <1>5 DEF e
  <2> HIDE DEF end
  <2> QED
    BY Zenon, <2>4, <2>5, <2>6
<1>6. ASSUME op \in {deepPath, madePath}, d.there PROVE IsPerson(end.doc)
  <2>1. IsPerson(d)
    BY <1>6 DEF Personal
  <2>2. /\ end.doc.there /\ end.doc.life = d.life /\ DOMAIN d.body \subseteq DOMAIN end.doc.body
        /\ "non-exist" \notin DOMAIN d.body => "non-exist" \notin DOMAIN end.doc.body
    BY <1>6, DeepPaths
  <2> HIDE DEF end
  <2> QED
    BY <2>1, <2>2 DEF IsPerson
<1> HIDE DEF end
<1>7. IsPerson(end.doc) => Personal(end.doc) /\ end.doc.there
  BY Zenon DEF IsPerson, Personal
<1>8. end.doc = d => Personal(end.doc) /\ (d.there => end.doc.there)
  BY Zenon
<1>9. op \in Storing \/ op = Op("get", a_key) \/ op = lookup \/ op = manyPaths \/ op \in {deepPath, madePath}
  BY DEF Changing
<1>10. op \in {lookup, manyPaths, deepPath, madePath} => op \in Changing \cup {lookup}
  BY DEF Changing
<1>11. CASE op \in Storing
  <2>1. op.does = "set"
    BY <1>11 DEF Storing, Write
  <2>2. lookup.does = "lookup" /\ manyPaths.does = "mutate" /\ Op("get", a_key).does = "get"
    BY DEF lookup, LookupOp, manyPaths, MutateOp, Op
  <2>3. op # lookup /\ op # manyPaths /\ op # Op("get", a_key)
    BY <2>1, <2>2
  <2> QED
    BY <1>1, <1>7, <1>11, <2>3 DEF end
<1>12. CASE op \notin Storing
  <2>1. CASE ~ d.there
    <3>1. end.doc = d
      BY <1>2, <1>3, <1>9, <1>10, <1>12, <2>1
    <3> QED
      BY <1>8, <1>12, <2>1, <3>1 DEF end
  <2>2. CASE d.there
    <3>1. Personal(end.doc) /\ end.doc.there
      BY <1>2, <1>4, <1>5, <1>6, <1>7, <1>8, <1>9, <1>12, <2>2
    <3> QED
      BY <1>2, <1>4, <1>5, <1>12, <2>2, <3>1 DEF end
  <2> QED
    BY <2>1, <2>2
<1> QED
  BY <1>11, <1>12

\* As long as nothing fails it is enough to look at steps in which nothing fails.
LEMMA CalmGoesOn ==
  ASSUME BInv, run' = run, faults' = faults \/ Fault,
         Peace /\ Calm /\ ~ Fault => Calm'
  PROVE  BInv'
<1>1. faults \in Nat /\ faults' \in Nat
  BY DEF BInv, Fault
<1>2. ASSUME Peace' PROVE Calm'
  <2>1. faults' = 0 /\ \A q \in run : q[1] # "flush"
    BY <1>2 DEF Peace
  <2>2. ~ Fault
    BY <1>1, <2>1 DEF Fault
  <2>3. Peace
    BY <2>1, <2>2 DEF Peace
  <2> QED
    BY <2>2, <2>3 DEF BInv
<1> QED
  BY <1>1, <1>2 DEF BInv

\* The document and the program that moves are what can change.
LEMMA RestIsCalm ==
  ASSUME run \in Scenarios, Calm, run' = run, connected \subseteq connected', NEW p,
         a_key \in KeysOf(run) => Personal(docs'[a_key]) /\ (docs[a_key].there => docs'[a_key].there),
         \A q \in run \ {p} : /\ pc'[q] = pc[q] /\ round'[q] = round[q]
                              /\ todo'[q] = todo[q] /\ answers'[q] = answers[q],
         p \in run => pc'[p] # "aborted" /\ (pc'[p] # "boot" => p \in connected'),
         p \in run /\ p[1] \in Subdocument =>
           Trusts(p, pc'[p], round'[p], todo'[p], answers'[p], docs'[a_key])
  PROVE  Calm'
<1>1. Going'
  BY DEF Calm, Going
<1>2. ASSUME NEW q \in run, q[1] \in Subdocument
      PROVE  Trusts(q, pc'[q], round'[q], todo'[q], answers'[q], docs'[a_key])
  <2>1. CASE q = p
    BY <1>2, <2>1
  <2>2. CASE q # p
    <3>1. Trusts(q, pc[q], round[q], todo[q], answers[q], docs[a_key])
      BY <1>2 DEF Calm, Trust
    <3>2. docs[a_key].there => docs'[a_key].there
      BY <1>2, SubdocumentShares
    <3>3. /\ pc'[q] = pc[q] /\ round'[q] = round[q]
          /\ todo'[q] = todo[q] /\ answers'[q] = answers[q]
      BY <2>2
    <3> QED
      BY <3>1, <3>2, <3>3 DEF Trusts
  <2> QED
    BY <2>1, <2>2
<1>3. Trust'
  BY <1>2 DEF Trust
<1>4. KeysOf(run') = KeysOf(run)
  OBVIOUS
<1> QED
  BY <1>1, <1>3, <1>4 DEF Calm

\* The document is as it was.
LEMMA SameDocument ==
  ASSUME Calm, docs'[a_key] = docs[a_key]
  PROVE  a_key \in KeysOf(run) => Personal(docs'[a_key]) /\ (docs[a_key].there => docs'[a_key].there)
BY DEF Calm

\* A program connects.
LEMMA BootTrusts ==
  ASSUME IInv, BInv, NEW p \in run, Boot(p)
  PROVE  BInv'
<1> USE DEF IInv
<1>1. /\ run' = run /\ docs' = docs /\ round' = round /\ todo' = todo /\ answers' = answers
      /\ faults' = faults \/ Fault
      /\ pc[p] = "boot"
  BY DEF Boot, server
<1>2. ASSUME Peace, Calm, ~ Fault PROVE Calm'
  <2>1. /\ connected' = connected \cup {p}
        /\ Goto(p, IF Rounds[p] = <<>> THEN "ended" ELSE "ready")
    BY <1>2 DEF Boot
  <2>2. DOMAIN pc = run /\ run \in Scenarios /\ round[p] = 1
    BY <1>1 DEF Maps, Stages, Fits
  <2>3. pc'[p] \in {"ended", "ready"} /\ \A q \in run \ {p} : pc'[q] = pc[q]
    BY <2>1, <2>2 DEF Goto
  <2>4. Trusts(p, pc'[p], round'[p], todo'[p], answers'[p], docs'[a_key])
    BY <1>1, <2>2, <2>3 DEF Trusts
  <2>5. a_key \in KeysOf(run) => Personal(docs'[a_key]) /\ (docs[a_key].there => docs'[a_key].there)
    BY <1>1, <1>2, SameDocument
  <2> QED
    BY <1>1, <1>2, <2>1, <2>2, <2>3, <2>4, <2>5, RestIsCalm
<1> QED
  BY <1>1, <1>2, CalmGoesOn

\* The operation of a round is scheduled.
LEMMA ScheduleTrusts ==
  ASSUME IInv, BInv, NEW p \in run, Schedule(p)
  PROVE  BInv'
<1> USE DEF IInv
<1>1. /\ run' = run /\ docs' = docs /\ round' = round /\ answers' = answers /\ connected' = connected
      /\ pc' = [pc EXCEPT ![p] = "waiting"] /\ todo' = [todo EXCEPT ![p] = DOMAIN Now(p).ops]
      /\ faults' = faults /\ pc[p] = "ready" /\ p \in connected
  BY DEF Schedule, server, Goto
<1>2. ASSUME Peace, Calm, ~ Fault PROVE Calm'
  <2>1. DOMAIN pc = run /\ DOMAIN todo = run /\ run \in Scenarios
    BY DEF Maps
  <2>2. round[p] \in DOMAIN Rounds[p] /\ answers[p] = <<>>
    BY <1>1 DEF Stages, Fits
  <2>3. /\ pc'[p] = "waiting" /\ todo'[p] = DOMAIN Now(p).ops
        /\ \A q \in run \ {p} : pc'[q] = pc[q] /\ todo'[q] = todo[q]
    BY <1>1, <2>1
  <2>4. ASSUME p[1] \in Subdocument
        PROVE  Trusts(p, pc'[p], round'[p], todo'[p], answers'[p], docs'[a_key])
    <3>1. Shared(Rounds[p][round[p]], round[p])
      BY <2>1, <2>2, <2>4, SubdocumentShares
    <3>2. todo'[p] = {1}
      BY <2>3, <3>1 DEF Shared, Now
    <3>3. Trusts(p, pc[p], round[p], todo[p], answers[p], docs[a_key])
      BY <1>2, <2>4 DEF Calm, Trust
    <3> QED
      BY <1>1, <2>2, <2>3, <3>2, <3>3 DEF Trusts
  <2>5. a_key \in KeysOf(run) => Personal(docs'[a_key]) /\ (docs[a_key].there => docs'[a_key].there)
    BY <1>1, <1>2, SameDocument
  <2> QED
    BY <1>1, <1>2, <2>1, <2>3, <2>4, <2>5, RestIsCalm
<1> QED
  BY <1>1, <1>2, CalmGoesOn

\* With a connection an operation is not scheduled only after a failure.
LEMMA SchedFailsTrusts ==
  ASSUME IInv, BInv, NEW p \in run, NEW i, SchedFails(p, i)
  PROVE  BInv'
<1>1. /\ run' = run /\ (faults' = faults \/ Fault) /\ pc[p] = "ready"
      /\ p \in connected => Fault
  BY DEF SchedFails
<1>2. ~ (Peace /\ Calm /\ ~ Fault)
  BY <1>1 DEF Calm, Going
<1> QED
  BY <1>1, <1>2, CalmGoesOn

\* An operation is done.
LEMMA ServeTrusts ==
  ASSUME IInv, BInv, NEW p \in run, NEW i, Serve(p, i)
  PROVE  BInv'
<1> USE DEF IInv
<1> DEFINE op == Now(p).ops[i]
           end == Handle(op, docs[op.key], By(p))
           d == end.doc
           answer == end.answer
           k == op.key
<1>1. /\ Waits(p, i, Simple) /\ Hear(p, i, answer)
      /\ IF d = docs[k] THEN UNCHANGED server ELSE Put(p, k, d)
      /\ run' = run /\ round' = round /\ connected' = connected /\ faults' = faults
  BY DEF Serve
<1>2. /\ run \in Scenarios /\ k \in KeysOf(run) /\ op.does \in Simple /\ round[p] \in DOMAIN Rounds[p]
      /\ i \in DOMAIN Now(p).ops /\ i \in todo[p] /\ todo[p] \subseteq DOMAIN Now(p).ops
  BY <1>1, WhereItWaits DEF Simple
<1>3. Shaped(docs[k]) /\ docs'[k] = d /\ \A x \in KeysOf(run) \ {k} : docs'[x] = docs[x]
  <2>1. CASE d = docs[k]
    BY <1>1, <1>2, <2>1 DEF Documents, server
  <2>2. CASE d # docs[k]
    BY <1>1, <1>2, <2>2, PutOne DEF Documents
  <2> QED
    BY <2>1, <2>2
<1>4. /\ \A q \in run \ {p} : pc'[q] = pc[q] /\ todo'[q] = todo[q] /\ answers'[q] = answers[q]
      /\ pc'[p] \in {"exited", "waiting"} /\ todo'[p] = todo[p] \ {i}
      /\ answers'[p] = IF Now(p).callback
                       THEN Append(answers[p], [op |-> i, rc |-> answer.rc, body |-> Kept(answer)])
                       ELSE answers[p]
  BY <1>1, HearLeaves
<1>5. ASSUME Peace, Calm, ~ Fault PROVE Calm'
  <2>1. p \in connected
    BY <1>1, <1>5 DEF Waits, Calm, Going
  <2>2. CASE p[1] \notin Subdocument
    <3>1. k # a_key
      BY <1>2, <2>2, OthersDoNotShare DEF Now
    <3>2. a_key \in KeysOf(run) => docs'[a_key] = docs[a_key]
      BY <1>3, <3>1
    <3>3. a_key \in KeysOf(run) => Personal(docs'[a_key]) /\ (docs[a_key].there => docs'[a_key].there)
      BY <1>5, <3>2, SameDocument
    <3> HIDE DEF k, d, answer, end
    <3> QED
      BY <1>1, <1>2, <1>4, <1>5, <2>1, <2>2, <3>3, RestIsCalm
  <2>3. CASE p[1] \in Subdocument
    <3> DEFINE R == Rounds[p][round[p]]
               o == R.ops[1]
    <3>1. Shared(R, round[p]) /\ a_key \in KeysOf(run)
      BY <1>2, <2>3, SubdocumentShares
    <3>2. i = 1 /\ op = o /\ todo'[p] = {} /\ k = a_key
      <4>1. DOMAIN R.ops = {1} /\ o.key = a_key
        BY <3>1 DEF Shared
      <4> QED
        BY <1>2, <1>4, <4>1 DEF Now
    <3>3. o \in Storing \cup Changing \cup {lookup, Op("get", a_key)}
      BY <3>1 DEF Shared
    <3>4. Shaped(docs[a_key]) /\ Personal(docs[a_key])
      BY <1>3, <1>5, <3>1, <3>2 DEF Calm
    <3>5. /\ Personal(d)
          /\ docs[a_key].there => d.there
          /\ o \in Storing => d.there
          /\ docs[a_key].there /\ o = lookup => answer.rc = "MULTI_FAILURE"
          /\ docs[a_key].there /\ o \in {manyPaths, Op("get", a_key)} => answer.rc = "SUCCESS"
      <4> DEFINE x == docs[a_key]
                 by == By(p)
                 e == Handle(o, x, by)
      <4>1. Shaped(x) /\ Personal(x)
        BY <3>4
      <4>2. e = end
        BY <3>2
      <4> HIDE DEF x, by, o
      <4>3. /\ Personal(e.doc)
            /\ x.there => e.doc.there
            /\ o \in Storing => e.doc.there
            /\ x.there /\ o = lookup => e.answer.rc = "MULTI_FAILURE"
            /\ x.there /\ o \in {manyPaths, Op("get", a_key)} => e.answer.rc = "SUCCESS"
        BY <3>3, <4>1, SharedStaysPersonal
      <4> HIDE DEF e, end
      <4> QED
        BY Zenon, <4>2, <4>3 DEF x
    <3>6. docs'[a_key] = d
      BY <1>3, <3>2
    <3>7. Trusts(p, "waiting", round[p], todo[p], answers[p], docs[a_key])
      BY <1>1, <1>5, <2>3 DEF Calm, Trust, Waits
    <3>8. d.there
      <4>1. round[p] > 1 => docs[a_key].there
        BY <3>7 DEF Trusts
      <4>2. round[p] = 1 => o \in Storing
        BY <3>1 DEF Shared
      <4>3. round[p] = 1 \/ round[p] > 1
        <5>1. IsTable(Rounds[p])
          BY <1>1, WhereItWaits
        <5>2. round[p] \in 1 .. Len(Rounds[p])
          BY <1>2, <5>1, RoundsOfATable
        <5> QED
          BY <5>2
      <4> HIDE DEF d, o
      <4> QED
        BY Zenon, <3>5, <4>1, <4>2, <4>3
    <3>9. R.asserts # {} => answers'[p] = <<answers'[p][1]>> /\ answers'[p][1].rc \in R.asserts
      <4> SUFFICES ASSUME R.asserts # {}
                   PROVE  answers'[p] = <<answers'[p][1]>> /\ answers'[p][1].rc \in R.asserts
        OBVIOUS
      <4>1. /\ round[p] > 1 /\ R.callback
            /\ \/ o = lookup /\ R.asserts = {"MULTI_FAILURE"}
               \/ o \in {manyPaths, Op("get", a_key)} /\ R.asserts = {"SUCCESS"}
        BY <3>1 DEF Shared
      <4>2. docs[a_key].there /\ answers[p] = <<>>
        BY <1>2, <3>7, <4>1 DEF Trusts
      <4> HIDE DEF answer, o
      <4>3. answer.rc \in R.asserts
        BY <3>5, <4>1, <4>2
      <4> DEFINE a == [op |-> i, rc |-> answer.rc, body |-> Kept(answer)]
      <4>4. a.rc = answer.rc
        OBVIOUS
      <4>5. answers'[p] = Append(<<>>, a)
        BY <1>4, <4>1, <4>2 DEF Now
      <4> HIDE DEF a
      <4> QED
        BY <4>3, <4>4, <4>5
    <3> HIDE DEF d, o, answer, end, op, k
    <3>10. Trusts(p, pc'[p], round'[p], todo'[p], answers'[p], docs'[a_key])
      <4>1. docs'[a_key].there
        BY Zenon, <3>6, <3>8
      <4> QED
        BY <1>1, <3>2, <3>9, <4>1 DEF Trusts
    <3>11. Personal(docs'[a_key]) /\ (docs[a_key].there => docs'[a_key].there)
      BY Zenon, <3>5, <3>6
    <3> QED
      BY <1>1, <1>2, <1>4, <1>5, <2>1, <3>10, <3>11, RestIsCalm
  <2> QED
    BY <2>2, <2>3
<1> QED
  BY <1>1, <1>5, CalmGoesOn

\* A durable write is of another document, by a program that asserts nothing.
LEMMA ServeDurableTrusts ==
  ASSUME IInv, BInv, NEW p \in run, NEW i, ServeDurable(p, i)
  PROVE  BInv'
<1> USE DEF IInv
<1> DEFINE k == Now(p).ops[i].key
           d == Doc(Now(p).ops[i].body, 0, By(p))
<1>1. /\ Waits(p, i, Durable) /\ Put(p, k, d)
      /\ todo' = [todo EXCEPT ![p] = @ \ {i}]
      /\ run' = run /\ pc' = pc /\ round' = round /\ answers' = answers /\ connected' = connected
      /\ faults' = faults \/ Fault
  BY DEF ServeDurable
<1>2. /\ run \in Scenarios /\ round[p] \in DOMAIN Rounds[p] /\ i \in DOMAIN Now(p).ops
      /\ Now(p).ops[i].does \in Durable /\ k \in KeysOf(run)
  BY <1>1, WhereItWaits DEF Durable
<1>3. p[1] \notin Subdocument
  <2>1. p[1] \notin Announcing
    BY <1>2, DurableIsSilent DEF Now
  <2> QED
    BY <2>1 DEF Announcing, Subdocument
<1>4. k # a_key
  BY <1>2, <1>3, OthersDoNotShare DEF Now
<1> HIDE DEF k, d
<1>5. a_key \in KeysOf(run) => docs'[a_key] = docs[a_key]
  BY <1>1, <1>2, <1>4, PutOne
<1>6. \A q \in run \ {p} : todo'[q] = todo[q]
  BY <1>1 DEF Maps
<1>7. ASSUME Peace, Calm, ~ Fault PROVE Calm'
  <2>1. a_key \in KeysOf(run) => Personal(docs'[a_key]) /\ (docs[a_key].there => docs'[a_key].there)
    BY <1>5, <1>7, SameDocument
  <2>2. pc[p] # "aborted" /\ (pc[p] # "boot" => p \in connected)
    BY <1>7 DEF Calm, Going
  <2> QED
    BY <1>1, <1>2, <1>3, <1>6, <1>7, <2>1, <2>2, RestIsCalm
<1> QED
  BY <1>1, <1>7, CalmGoesOn

\* A query is answered, to a program that asserts nothing.
LEMMA QueryTrusts ==
  ASSUME IInv, BInv, NEW p \in run, NEW i, Query(p, i)
  PROVE  BInv'
<1> USE DEF IInv
<1>1. /\ Waits(p, i, {"query"})
      /\ run' = run /\ docs' = docs /\ round' = round /\ connected' = connected /\ faults' = faults
  BY DEF Query, server
<1>2. PICK answer : Hear(p, i, answer)
  BY DEF Query
<1>3. /\ run \in Scenarios /\ round[p] \in DOMAIN Rounds[p] /\ i \in DOMAIN Now(p).ops
      /\ Now(p).ops[i].does = "query"
  BY <1>1, WhereItWaits
<1>4. p[1] \notin Subdocument
  <2> SUFFICES ASSUME p[1] \in Subdocument PROVE FALSE
    OBVIOUS
  <2>1. OnDocument(p, round[p])
    BY <1>3, SubdocumentShares, AllOnDocument
  <2> QED
    BY <1>3, <2>1 DEF OnDocument, Now, Simple, Asking, Subdocument
<1>5. /\ \A q \in run \ {p} : pc'[q] = pc[q] /\ todo'[q] = todo[q] /\ answers'[q] = answers[q]
      /\ pc'[p] \in {"exited", "waiting"}
  BY <1>2, HearLeaves
<1>6. ASSUME Peace, Calm, ~ Fault PROVE Calm'
  <2>1. p \in connected
    BY <1>1, <1>6 DEF Waits, Calm, Going
  <2>2. a_key \in KeysOf(run) => Personal(docs'[a_key]) /\ (docs[a_key].there => docs'[a_key].there)
    BY <1>1, <1>6, SameDocument
  <2> QED
    BY <1>1, <1>3, <1>4, <1>5, <1>6, <2>1, <2>2, RestIsCalm
<1> QED
  BY <1>1, <1>6, CalmGoesOn

\* Nobody flushes.
LEMMA FlushTrusts ==
  ASSUME IInv, BInv, NEW p \in run, NEW i, Flush(p, i)
  PROVE  BInv'
<1> USE DEF IInv
<1>1. Waits(p, i, {"flush"}) /\ run' = run /\ faults' = faults
  BY DEF Flush
<1>2. /\ run \in Scenarios /\ round[p] \in DOMAIN Rounds[p] /\ i \in DOMAIN Now(p).ops
      /\ Now(p).ops[i].does = "flush"
  BY <1>1, WhereItWaits
<1>3. ~ Peace
  BY <1>2, OnlyFlushFlushes DEF Now, Peace
<1> QED
  BY <1>1, <1>3, CalmGoesOn

\* The poll of a durable write is answered.
LEMMA EndureTrusts ==
  ASSUME IInv, BInv, NEW p \in run, NEW k \in enduring[p], Endure(p, k)
  PROVE  BInv'
<1> USE DEF IInv
<1>1. /\ run' = run /\ docs' = docs /\ pc' = pc /\ round' = round /\ todo' = todo /\ connected' = connected
      /\ \E more : answers' = [answers EXCEPT ![p] = more]
      /\ faults' = faults \/ Fault
  BY DEF Endure, server
<1>2. run \in Scenarios /\ p[1] \notin Subdocument
  <2>1. DurableRound(p, round[p]) /\ run \in Scenarios
    BY DEF Stages, Fits, Maps
  <2>2. p[1] \notin Announcing
    BY <2>1, DurableIsSilent DEF DurableRound
  <2> QED
    BY <2>1, <2>2 DEF Announcing, Subdocument
<1>3. \A q \in run \ {p} : answers'[q] = answers[q]
  BY <1>1 DEF Maps
<1>4. ASSUME Peace, Calm, ~ Fault PROVE Calm'
  <2>1. a_key \in KeysOf(run) => Personal(docs'[a_key]) /\ (docs[a_key].there => docs'[a_key].there)
    BY <1>1, <1>4, SameDocument
  <2>2. pc[p] # "aborted" /\ (pc[p] # "boot" => p \in connected)
    BY <1>4 DEF Calm, Going
  <2> QED
    BY <1>1, <1>2, <1>3, <1>4, <2>1, <2>2, RestIsCalm
<1> QED
  BY <1>1, <1>4, CalmGoesOn

\* A round is over: its assert holds.
LEMMA FinishTrusts ==
  ASSUME IInv, BInv, NEW p \in run, Finish(p)
  PROVE  BInv'
<1> USE DEF IInv
<1>1. /\ run' = run /\ docs' = docs /\ todo' = todo /\ connected' = connected /\ faults' = faults
      /\ pc[p] = "waiting" /\ todo[p] = {}
  BY DEF Finish, Returned, server
<1>2. /\ DOMAIN pc = run /\ DOMAIN round = run /\ DOMAIN answers = run /\ run \in Scenarios
      /\ round[p] \in DOMAIN Rounds[p]
  BY <1>1 DEF Maps, Stages, Fits
<1>3. \/ /\ Now(p).asserts # {} /\ Asserted(p) \ Now(p).asserts # {}
         /\ Goto(p, "aborted") /\ round' = round /\ answers' = answers
      \/ /\ answers' = [answers EXCEPT ![p] = <<>>]
         /\ round' = [round EXCEPT ![p] = IF @ = Len(Rounds[p]) \/ Now(p).nap > 0 THEN @ ELSE @ + 1]
         /\ IF Now(p).nap > 0 THEN Goto(p, "napping") ELSE Advance(p)
  BY DEF Finish
<1>4. ASSUME Peace, Calm, ~ Fault PROVE Calm'
  <2>1. Now(p).asserts # {} => Asserted(p) \subseteq Now(p).asserts
    <3> SUFFICES ASSUME Now(p).asserts # {} PROVE Asserted(p) \subseteq Now(p).asserts
      OBVIOUS
    <3>1. p[1] \in Subdocument
      BY <1>2, OthersDoNotShare DEF Now
    <3>2. Trusts(p, "waiting", round[p], {}, answers[p], docs[a_key])
      BY <1>1, <1>4, <3>1 DEF Calm, Trust
    <3>3. answers[p] = <<answers[p][1]>> /\ answers[p][1].rc \in Now(p).asserts
      BY <3>2 DEF Trusts, Now
    <3>4. LastAnswer(p) = answers[p][1] /\ answers[p] # <<>>
      BY <3>3 DEF LastAnswer
    <3>5. Asserted(p) = {answers[p][1].rc}
      BY <3>4 DEF Asserted
    <3> QED
      BY <3>3, <3>5
  <2>2. /\ answers' = [answers EXCEPT ![p] = <<>>]
        /\ round' = [round EXCEPT ![p] = IF @ = Len(Rounds[p]) \/ Now(p).nap > 0 THEN @ ELSE @ + 1]
        /\ IF Now(p).nap > 0 THEN Goto(p, "napping") ELSE Advance(p)
    BY <1>3, <2>1
  <2>3. /\ \A q \in run \ {p} : pc'[q] = pc[q] /\ round'[q] = round[q] /\ answers'[q] = answers[q]
        /\ pc'[p] \in {"napping", "ended", "ready"}
    BY <1>2, <2>2 DEF Goto, Advance
  <2>4. p[1] \in Subdocument => Trusts(p, pc'[p], round'[p], todo'[p], answers'[p], docs'[a_key])
    <3> SUFFICES ASSUME p[1] \in Subdocument
                 PROVE  Trusts(p, pc'[p], round'[p], todo'[p], answers'[p], docs'[a_key])
      OBVIOUS
    <3>1. Trusts(p, "waiting", round[p], {}, answers[p], docs[a_key])
      BY <1>1, <1>4 DEF Calm, Trust
    <3>2. docs[a_key].there
      BY <3>1 DEF Trusts
    <3> QED
      BY <1>1, <2>3, <3>2 DEF Trusts
  <2>5. p \in connected
    BY <1>1, <1>4 DEF Calm, Going
  <2>6. a_key \in KeysOf(run) => Personal(docs'[a_key]) /\ (docs[a_key].there => docs'[a_key].there)
    BY <1>1, <1>4, SameDocument
  <2> QED
    BY <1>1, <1>2, <1>4, <2>3, <2>4, <2>5, <2>6, RestIsCalm
<1> QED
  BY <1>1, <1>4, CalmGoesOn

\* A second passes: the document lives for ever, and these programs do not sleep.
LEMMA TickTrusts ==
  ASSUME IInv, BInv, Tick
  PROVE  BInv'
<1> USE DEF IInv
<1> DEFINE awake == {p \in run : nap[p] = 1}
<1>1. /\ docs' = [k \in DOMAIN docs |-> Older(docs[k])]
      /\ pc' = [p \in run |-> IF p \in awake THEN "ready" ELSE pc[p]]
      /\ round' = [p \in run |-> IF p \in awake THEN round[p] + 1 ELSE round[p]]
      /\ run' = run /\ todo' = todo /\ answers' = answers /\ connected' = connected /\ faults' = faults
  BY DEF Tick
<1>2. ASSUME Peace, Calm, ~ Fault PROVE Calm'
  <2>1. a_key \in KeysOf(run) => docs'[a_key] = docs[a_key]
    <3> SUFFICES ASSUME a_key \in KeysOf(run) PROVE docs'[a_key] = docs[a_key]
      OBVIOUS
    <3>1. docs'[a_key] = Older(docs[a_key])
      BY <1>1 DEF Documents
    <3>2. ~ docs[a_key].there \/ docs[a_key].life = 0
      <4>1. Personal(docs[a_key])
        BY <1>2 DEF Calm
      <4> QED
        BY Zenon, <4>1 DEF Personal, IsPerson
    <3>3. Older(docs[a_key]) = docs[a_key]
      BY Zenon, <3>2 DEF Older
    <3> QED
      BY <3>1, <3>3
  <2>2. ASSUME NEW q \in run PROVE nap[q] = 1 => pc[q] = "napping"
    BY DEF Stages, Fits
  <2>3. ASSUME NEW q \in run, q[1] \in Subdocument PROVE q \notin awake
    <3> SUFFICES ASSUME nap[q] = 1 PROVE FALSE
      OBVIOUS
    <3>1. pc[q] = "napping" /\ run \in Scenarios
      BY <2>2 DEF Maps
    <3>2. round[q] \in DOMAIN Rounds[q] /\ Rounds[q][round[q]].nap > 0
      BY <3>1 DEF Stages, Fits
    <3>3. Shared(Rounds[q][round[q]], round[q])
      BY <2>3, <3>1, <3>2, SubdocumentShares
    <3> QED
      BY <3>2, <3>3 DEF Shared
  <2>4. Going'
    <3>1. ASSUME NEW q \in run PROVE pc'[q] = pc[q] \/ (pc'[q] = "ready" /\ pc[q] = "napping")
      BY <1>1, <2>2
    <3> QED
      BY <1>1, <1>2, <3>1 DEF Calm, Going
  <2>5. Trust'
    <3> SUFFICES ASSUME NEW q \in run, q[1] \in Subdocument
                 PROVE  Trusts(q, pc'[q], round'[q], todo'[q], answers'[q], docs'[a_key])
      BY <1>1 DEF Trust
    <3>1. pc'[q] = pc[q] /\ round'[q] = round[q]
      BY <1>1, <2>3
    <3>2. docs'[a_key] = docs[a_key]
      BY <2>1, SubdocumentShares DEF Maps
    <3> QED
      BY <1>1, <1>2, <3>1, <3>2 DEF Calm, Trust
  <2>6. a_key \in KeysOf(run') => Personal(docs'[a_key])
    <3>1. KeysOf(run') = KeysOf(run)
      BY <1>1
    <3> QED
      BY <1>2, <2>1, <3>1 DEF Calm
  <2> QED
    BY <2>4, <2>5, <2>6 DEF Calm
<1> QED
  BY <1>1, <1>2, CalmGoesOn

\* Nobody moves and nothing is stored.
LEMMA NothingTrusts ==
  ASSUME BInv, run' = run, docs' = docs, pc' = pc, round' = round, todo' = todo,
         answers' = answers, connected' = connected, faults' = faults
  PROVE  BInv'
BY DEF BInv, Peace, Calm, Going, Trust

\* At first nobody is connected, and the document is as an earlier run leaves it.
LEMMA InitTrusts == ASSUME Init PROVE BInv
<1>1. PICK earlier \in BOOLEAN : docs = [k \in KeysOf(run) |-> Left(k, earlier)]
  BY DEF Init
<1>2. /\ pc = [p \in run |-> "boot"] /\ round = [p \in run |-> 1] /\ faults = 0
  BY DEF Init
<1>3. Personal(Left(a_key, earlier))
  <2>1. Left(a_key, earlier) = Doc(Person(3), 0, <<"earlier", 0, 0>>) \/ Left(a_key, earlier) = Gone(<<"earlier", 0, 0>>)
    <3>1. /\ a_key # newBucket /\ a_key # docid /\ a_key \notin {User(1), User(2)}
          /\ a_key[2] # "non-exist-key" /\ a_key[2] # "#primary"
      BY DEF a_key, docid, newBucket, User, Key
    <3>2. CASE earlier
      BY <3>1, <3>2, Zenon DEF Left
    <3>3. CASE ~earlier
      BY <3>3 DEF Left
    <3> QED
      BY <3>2, <3>3
  <2>2. Personal(Doc(Person(3), 0, <<"earlier", 0, 0>>))
    BY DEF Personal, IsPerson, Doc, Person
  <2>3. Personal(Gone(<<"earlier", 0, 0>>))
    BY DEF Personal, Gone
  <2> QED
    BY <2>1, <2>2, <2>3
<1>4. a_key \in KeysOf(run) => Personal(docs[a_key])
  BY <1>1, <1>3
<1>5. Going /\ Trust
  BY <1>2 DEF Going, Trust, Trusts
<1> QED
  BY <1>2, <1>4, <1>5 DEF BInv, Calm

\* As long as nothing fails and nobody flushes, the document the subdocument programs share has
\* the paths their asserts need, in whatever order they store and change it.
THEOREM Trusting == Spec => [](IInv /\ BInv)
<1>1. Init => BInv
  BY InitTrusts
<1>2. IInv /\ BInv /\ [Next]_vars => BInv'
  <2> SUFFICES ASSUME IInv, BInv, [Next]_vars PROVE BInv'
    OBVIOUS
  <2>1. ASSUME NEW p \in run, Operation(p) PROVE BInv'
    <3>1. CASE Boot(p)
      BY <3>1, BootTrusts
    <3>2. CASE Schedule(p)
      BY <3>2, ScheduleTrusts
    <3>3. CASE Finish(p)
      BY <3>3, FinishTrusts
    <3>4. ASSUME NEW i \in 1 .. 3, SchedFails(p, i) PROVE BInv'
      BY <3>4, SchedFailsTrusts
    <3>5. ASSUME NEW i \in 1 .. 3, Serve(p, i) PROVE BInv'
      BY <3>5, ServeTrusts
    <3>6. ASSUME NEW i \in 1 .. 3, ServeDurable(p, i) PROVE BInv'
      BY <3>6, ServeDurableTrusts
    <3>7. ASSUME NEW i \in 1 .. 3, Query(p, i) PROVE BInv'
      BY <3>7, QueryTrusts
    <3>8. ASSUME NEW i \in 1 .. 3, Flush(p, i) PROVE BInv'
      BY <3>8, FlushTrusts
    <3>9. ASSUME NEW i \in 1 .. 3, Lose(p, i) PROVE BInv'
      BY <3>9, CalmGoesOn DEF Lose
    <3>10. ASSUME NEW k \in enduring[p], Endure(p, k) PROVE BInv'
      BY <3>10, EndureTrusts
    <3> QED
      BY <2>1, <3>1, <3>2, <3>3, <3>4, <3>5, <3>6, <3>7, <3>8, <3>9, <3>10 DEF Operation
  <2>2. ASSUME NEW k \in DOMAIN docs, Replicate(k) PROVE BInv'
    BY <2>2, NothingTrusts DEF Replicate
  <2>3. ASSUME NEW k \in DOMAIN docs, Index(k) PROVE BInv'
    BY <2>3, NothingTrusts DEF Index
  <2>4. CASE Tick
    BY <2>4, TickTrusts
  <2>5. CASE Failover
    BY <2>5, CalmGoesOn DEF Failover
  <2>6. CASE UNCHANGED vars
    BY <2>6, NothingTrusts DEF vars
  <2>7. CASE AllEnded
    BY <2>6, <2>7 DEF AllEnded
  <2> QED
    BY <2>1, <2>2, <2>3, <2>4, <2>5, <2>6, <2>7 DEF Next
<1> QED
  BY <1>1, <1>2, Invariance, PTL DEF Spec

\* The asserts about the answers of c/subdoc-retrieving.cc and c/subdoc-updating.cc fail only after
\* a fault or a flush, however many of these programs overwrite each other's document.
THEOREM AssertsSurvive == Spec => []AssertsSurviveNeighbours
<1>1. BInv => AssertsSurviveNeighbours
  <2> SUFFICES ASSUME BInv, NEW p \in run, pc[p] = "aborted", ~ (faults > 0),
                      ~ \E q \in run : q[1] = "flush"
               PROVE  FALSE
    BY DEF AssertsSurviveNeighbours
  <2>1. Peace
    BY DEF BInv, Peace
  <2> QED
    BY <2>1 DEF BInv, Calm, Going
<1> QED
  BY <1>1, Trusting, PTL
=============================================================================
