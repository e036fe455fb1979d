------------------------------- MODULE Bucket -------------------------------
(***************************************************************************)
(* What the C programs rely on of the buckets they use (external): what    *)
(* each operation does to a document and answers.                          *)
(*                                                                         *)
(* A body is a function from the paths the programs use to integers: ""    *)
(* is the document itself, a list is its length, "list[i]" an element.     *)
(* That of a refused mutation tells the status of the path it failed at.   *)
(* A document is a record of                                               *)
(*   body, there    its value, and whether it exists,                      *)
(*   life           the seconds it lives on, 0 for ever,                   *)
(*   by             its latest mutation (its CAS; removed documents have   *)
(*                  one as well).                                          *)
(* A bucket, an index and a view of documents are documents here too.      *)
(***************************************************************************)
EXTENDS Integers, Sequences, SequencesExt

NoBody == [path \in {} |-> 0]

Doc(body, life, by) == [there |-> TRUE, body |-> body, life |-> life, by |-> by]

Gone(by) == [there |-> FALSE, body |-> NoBody, life |-> 0, by |-> by]

Answer(rc, body) == [rc |-> rc, body |-> body]

\* An operation ends with the document it leaves and the answer.
Done(d, rc, body) == [doc |-> d, answer |-> Answer(rc, body)]

Fails(d, rc) == Done(d, rc, NoBody)

IfThere(d, end) == IF d.there THEN end ELSE Fails(d, "KEY_ENOENT")
-----------------------------------------------------------------------------
Set(op, d, by) == Done(Doc(op.body, op.life, by), "SUCCESS", NoBody)

Add(op, d, by) == IF d.there THEN Fails(d, "KEY_EEXISTS") ELSE Set(op, d, by)

Replace(op, d, by) == IfThere(d, Set(op, d, by))

RemoveDoc(d, by) == IfThere(d, Done(Gone(by), "SUCCESS", NoBody))

Get(d) == IfThere(d, Done(d, "SUCCESS", d.body))

Touch(op, d, by) ==
  IfThere(d, Done([d EXCEPT !.life = op.life, !.by = by], "SUCCESS", NoBody))

GetAndTouch(op, d, by) ==
  IfThere(d, Done([d EXCEPT !.life = op.life, !.by = by], "SUCCESS", d.body))

\* A counter does not go below zero, and is created with its initial value.
Number(n) == [path \in {""} |-> IF n < 0 THEN 0 ELSE n]

Counter(op, d, by) ==
  IF ~ d.there THEN Done(Doc(Number(op.initial), 0, by), "SUCCESS", Number(op.initial))
  ELSE IF "" \notin DOMAIN d.body THEN Fails(d, "DELTA_BADVAL")
  ELSE LET n == Number(d.body[""] + op.delta)
       IN Done([d EXCEPT !.body = n, !.by = by], "SUCCESS", n)

\* The paths that are looked up and exist are the answer's body.
Lookup(op, d) ==
  IfThere(d, Done(d, IF op.paths \subseteq DOMAIN d.body THEN "SUCCESS" ELSE "MULTI_FAILURE",
                  Restrict(d.body, op.paths \cap DOMAIN d.body)))

\* One path of a mutation: needs the paths in "needs", gives those in "gives".
Applies(spec, body) == spec.needs \subseteq DOMAIN body

Apply(spec, body) ==
  [path \in DOMAIN body \cup spec.gives |->
     (IF path \in DOMAIN body THEN body[path] ELSE 0) + (IF path = spec.path THEN spec.delta ELSE 0)]

\* The body after the first i paths of a mutation.
After(op, d, i) ==
  LET body[j \in 0 .. i] == IF j = 0 THEN d.body ELSE Apply(op.specs[j], body[j - 1])
  IN body[i]

Possible(op, d) == \A i \in DOMAIN op.specs : Applies(op.specs[i], After(op, d, i - 1))

\* The path a mutation fails at: the first that does not apply.
FailsAt(op, d, i) == /\ ~ Applies(op.specs[i], After(op, d, i - 1))
                     /\ \A j \in 1 .. i - 1 : Applies(op.specs[j], After(op, d, j - 1))

\* A mutation of several paths happens as a whole or not at all: its code says that
\* one failed, and that path's status is its one result.
Mutate(op, d, by) ==
  IfThere(d, IF Possible(op, d)
             THEN Done([d EXCEPT !.body = After(op, d, Len(op.specs)), !.by = by], "SUCCESS", NoBody)
             ELSE Done(d, "MULTI_FAILURE",
                       [path \in {op.specs[i].path : i \in {j \in DOMAIN op.specs : FailsAt(op, d, j)}}
                          |-> "PATH_ENOENT"]))

\* A bucket or an index is created once and a bucket is deleted.
Create(op, d, by) == IF d.there THEN Fails(d, "EXISTS") ELSE Set(op, d, by)
-----------------------------------------------------------------------------
Handle(op, d, by) ==
  CASE op.does = "set"           -> Set(op, d, by)
    [] op.does = "add"           -> Add(op, d, by)
    [] op.does = "replace"       -> Replace(op, d, by)
    [] op.does = "remove"        -> RemoveDoc(d, by)
    [] op.does = "get"           -> Get(d)
    [] op.does = "touch"         -> Touch(op, d, by)
    [] op.does = "get_and_touch" -> GetAndTouch(op, d, by)
    [] op.does = "counter"       -> Counter(op, d, by)
    [] op.does = "lookup"        -> Lookup(op, d)
    [] op.does = "mutate"        -> Mutate(op, d, by)
    [] op.does = "create"        -> Create(op, d, by)

\* A second passes: the document may come to the end of its life.
Older(d) == IF ~ d.there \/ d.life = 0 THEN d
            ELSE IF d.life = 1 THEN Gone(<<"expiry", 0, 0>>)
            ELSE [d EXCEPT !.life = @ - 1]
=============================================================================
