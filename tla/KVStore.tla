------------------------------ MODULE KVStore ------------------------------
(***************************************************************************)
(* One document of a Couchbase bucket, as the examples' operations see it. *)
(* The server is not part of the repository: the operators say what the    *)
(* callers under src/ rely on.  A store is a record of                     *)
(*   val    the document's value (an "empty" value while it is absent),    *)
(*   cas    the document's CAS, NoCas while it is absent,                  *)
(*   clock  the last CAS the server handed out: no CAS is used twice.      *)
(***************************************************************************)
EXTENDS Naturals

NoCas == 0

Stores(Values) == [val : Values, cas : Nat, clock : Nat]

EmptyStore(empty) == [val |-> empty, cas |-> NoCas, clock |-> 0]

Exists(s) == s.cas # NoCas

\* Every mutation (upsert, insert or replace) gives the document a new CAS.
Mutate(s, v) == [val |-> v, cas |-> s.clock + 1, clock |-> s.clock + 1]

\* Removal, expiry or a flush of the bucket.
Remove(s, empty) == [s EXCEPT !.val = empty, !.cas = NoCas]

\* A mutation that carries NoCas is unconditional; with any other CAS it is
\* accepted only while the document still has that CAS.
CasAccepts(s, cas) == cas \in {NoCas, s.cas}

ReplaceSucceeds(s, cas)   == Exists(s) /\ CasAccepts(s, cas)
ReplaceMismatches(s, cas) == Exists(s) /\ ~ CasAccepts(s, cas)
=============================================================================
