------------------------------ MODULE CTables ------------------------------
(***************************************************************************)
(* The programs of c/ that use a bucket, each as the rounds of its main:   *)
(* a round schedules operations, waits for the answers in lcb_wait and     *)
(* prints what its callbacks have kept.  Documents are named by bucket and *)
(* id; an index, a bucket and the cluster's flush are operations too.      *)
(***************************************************************************)
EXTENDS Bucket

Key(bucket, id) == <<bucket, id>>

docid   == Key("default", "docid")
a_key   == Key("default", "a_key")
newBucket == Key("cluster", "newBucket")
User(n) == IF n = 1 THEN Key("default", "user:1") ELSE Key("default", "user:2")

Value(path) == [p \in {path} |-> 0]

\* {"name":"mark", "array":[1,2, ...], "email":"m@n.com"}
Person(n) == [path \in {"name", "email", "array", "array[0]", "array[1]"} |->
                CASE path = "array" -> n [] path = "array[0]" -> 1 [] path = "array[1]" -> 2
                  [] OTHER -> 0]
-----------------------------------------------------------------------------
Op(does, key) == [does |-> does, key |-> key]

Write(does, key, body, life) == [does |-> does, key |-> key, body |-> body, life |-> life]

TouchOp(does, key, life) == [does |-> does, key |-> key, life |-> life]

CounterOp(key, delta) == [does |-> "counter", key |-> key, delta |-> delta, initial |-> 100]

LookupOp(key, paths) == [does |-> "lookup", key |-> key, paths |-> paths]

MutateOp(key, specs) == [does |-> "mutate", key |-> key, specs |-> specs]

PathSpec(path, needs, gives, delta) == [path |-> path, needs |-> needs, gives |-> gives, delta |-> delta]

\* A query waits for the mutations "after" names: those of one document, of
\* all ("request") or none ("not_bounded").
QueryOp(bucket, after) == [does |-> "query", key |-> Key(bucket, "#primary"), after |-> after]
-----------------------------------------------------------------------------
(* A round's says and shows are what the program's comments and printed    *)
(* lines announce of the answer's code and body; an assert, of main or of  *)
(* a callback, demands a code.                                             *)

Round(ops) == [ops |-> ops, callback |-> TRUE, unscheduled |-> "ignored", failed |-> "ignored",
               says |-> {}, shows |-> NoBody, asserts |-> {}, asserted_by |-> "main", nap |-> 0]

Quiet(op) == Round(<<op>>)

Unheard(op) == [Quiet(op) EXCEPT !.callback = FALSE]

Says(op, rc) == [Quiet(op) EXCEPT !.says = {rc}]

Shows(op, body) == [Says(op, "SUCCESS") EXCEPT !.shows = body]

\* The row of a document is among those of a query that succeeds.
ShowsRow(op, key) == [Quiet(op) EXCEPT !.shows = [k \in {key} |-> 0]]

Nap(round, seconds) == [round EXCEPT !.nap = seconds]

\* lcb_sched_fail takes back what a batch has scheduled.
Batch(ops) == [Round(ops) EXCEPT !.unscheduled = "batch"]
-----------------------------------------------------------------------------
counter ==
  <<Unheard(Op("remove", docid)),
    Shows(CounterOp(docid, 20), Number(100)),
    Shows(CounterOp(docid, 1), Number(101)),
    Shows(CounterOp(docid, -50), Number(51))>>

expiration ==
  LET some == Value("some")
  IN <<Quiet(Write("set", docid, some, 2)),
       Nap(Shows(Op("get", docid), some), 4),
       Says(TouchOp("touch", docid, 0), "KEY_ENOENT"),   \* "Getting key again (should fail)"
       Quiet(Write("set", docid, some, 0)),
       Nap(Shows(TouchOp("get_and_touch", docid, 1), some), 4),
       Says(Op("get", docid), "KEY_ENOENT"),
       Quiet(Write("set", docid, some, 0)),
       Nap(Says(TouchOp("touch", docid, 1), "SUCCESS"), 4),
       Says(Op("get", docid), "KEY_ENOENT")>>

updating ==
  LET property == Value("property")
  IN <<[Says(Write("set", docid, property, 0), "SUCCESS") EXCEPT !.unscheduled = "exit"],
       Says(Write("add", docid, property, 0), "KEY_EEXISTS"),
       Says(Write("replace", docid, property, 0), "SUCCESS")>>

retrieving ==
  LET key == Key("travel-sample", "a_key")
  IN <<Unheard(Write("set", key, Value("some"), 0)),
       Shows(Op("get", key), Value("some")),
       Says(Op("get", Key("travel-sample", "non-exist-key")), "KEY_ENOENT")>>

cloud ==
  LET key == Key("cloud", "key")
  IN <<Quiet(Write("set", key, Value("true"), 0)), Shows(Op("get", key), Value("true"))>>

\* Mutant: the document is stored without its list.
subdoc_retrieving_Stores_NoList == Restrict(Person(3), {"name"})

subdoc_retrieving_Stores == Person(3)

subdoc_retrieving ==
  <<Unheard(Write("set", a_key, subdoc_retrieving_Stores, 0)),
    [Quiet(LookupOp(a_key, {"email", "array[1]", "non-exist"}))
       EXCEPT !.says = {"MULTI_FAILURE"}, !.asserts = {"MULTI_FAILURE"},
              !.shows = [path \in {"email", "array[1]"} |-> Person(3)[path]]]>>

\* The value put at the deep path is not looked at: the path's existence is.
subdoc_updating ==
  <<Unheard(Write("set", a_key, Person(4), 0)),
    [Says(MutateOp(a_key, <<PathSpec("array", {"array"}, {}, 1),
                            PathSpec("array[0]", {"array[0]"}, {}, 99),
                            PathSpec("description", {}, {"description"}, 0)>>), "SUCCESS")
       EXCEPT !.asserts = {"SUCCESS"}],
    [Says(Op("get", a_key), "SUCCESS")
       EXCEPT !.asserts = {"SUCCESS"}, !.asserted_by = "callback",
              !.shows = [path \in {"array", "array[0]", "description"} |->
                                                    CASE path = "array" -> 5 [] path = "array[0]" -> 100
                                                      [] path = "description" -> 0]],
    \* "Should fail with LCB_SUBDOC_PATH_ENOENT" is said of the path, not of the answer.
    [Says(MutateOp(a_key, <<PathSpec("some.deep.path", {"some.deep"}, {"some.deep.path"}, 0)>>), "MULTI_FAILURE")
       EXCEPT !.shows = [path \in {"some.deep.path"} |-> "PATH_ENOENT"]],
    Says(MutateOp(a_key, <<PathSpec("some.deep.path", {},
                                {"some", "some.deep", "some.deep.path"}, 0)>>), "SUCCESS")>>

bulk_get == <<Batch([i \in 1..3 |-> Op("get", Key("default", <<"foo", "bar", "baz">>[i]))])>>

\* A std::map is in the order of its keys.
bulk_store ==
  LET keys == <<"bar", "baz", "foo">>
  IN <<Batch([i \in 1..3 |-> Write("set", Key("default", keys[i]), Value(keys[i]), 0)])>>

durability ==
  LET list == Value("[1,2,3]")
  IN <<Quiet(Write("storedur", docid, list, 0)), Quiet(Write("store_and_endure", docid, list, 0))>>

query_consistency(n) ==
  <<Unheard(Write("set", User(n), Value("Brass"), 0)),
    ShowsRow(QueryOp("default", "request"), User(n))>>

\* storage_callback exits when the store fails; the scheduled query is asserted.
query_atplus(n) ==
  <<[Quiet(Write("set", User(n), Value("Brass"), 0)) EXCEPT !.failed = "exit"],
    [ShowsRow(QueryOp("default", "at_plus"), User(n)) EXCEPT !.unscheduled = "abort"]>>

query_create_index == <<Quiet(Write("create", Key("travel-sample", "#primary"), NoBody, 0))>>

n1ql_create_primary_index == <<Quiet(Write("create", Key("default", "#primary"), NoBody, 0))>>

query_criteria == <<Quiet(QueryOp("travel-sample", "not_bounded"))>>

query_city == [Quiet(QueryOp("travel-sample", "not_bounded")) EXCEPT !.unscheduled = "exit"]

query_placeholders == <<query_city, query_city, query_city>>

fts_basic == <<[Quiet(QueryOp("beer-sample", "not_bounded")) EXCEPT !.unscheduled = "abort"]>>

flush == <<Quiet(Op("flush", Key("default", "*")))>>

create_remove_bucket ==
  <<Quiet(Write("create", newBucket, NoBody, 0)), Says(Op("remove", newBucket), "SUCCESS")>>
=============================================================================
