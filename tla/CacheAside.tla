----------------------------- MODULE CacheAside -----------------------------
(***************************************************************************)
(* php/cache-curl-request.php.  Several pages call cached_curl_request for *)
(* one path: a get of the cache document, on any exception the request to  *)
(* GitHub, an upsert with an expiry of TTL seconds, whose failure is       *)
(* ignored.  The calls interleave between these three requests.            *)
(*                                                                         *)
(* GitHub's data is a version number that grows.  A request that fails has *)
(* no data: curl_exec returns FALSE, which json_decode turns into null,    *)
(* and null is cached like any other result.  Seconds pass with Tick; ages *)
(* count the seconds since GitHub answered.                                *)
(***************************************************************************)
EXTENDS Integers, FiniteSets

CONSTANTS Pages,       \* the processes that serve the page
          TTL,         \* the expiry given to upsert (5)
          MaxDelay,    \* bound: seconds from GitHub's answer to the upsert
          MaxVersion   \* bound: versions of GitHub's data

ASSUME PagesAssumption      == IsFiniteSet(Pages)
ASSUME TTLAssumption        == TTL \in Nat \ {0}
ASSUME MaxDelayAssumption   == MaxDelay \in Nat
ASSUME MaxVersionAssumption == MaxVersion \in Nat \ {0}

VARIABLES github,   \* the version GitHub answers with
          cache,    \* the cache document, or Absent
          pc,       \* the request each page is about to make, or "idle"
          result,   \* $result of each page, until it is returned
          since     \* history: seconds since each page's last accepted upsert

vars == <<github, cache, pc, result, since>>

Null   == 0
Absent == [val |-> Null, age |-> 0, ttl |-> -1]
Nothing == [val |-> Null, age |-> 0]
MaxAge == TTL + MaxDelay        \* ages are not counted any further

Init == /\ github = 1
        /\ cache = Absent
        /\ pc = [p \in Pages |-> "idle"]
        /\ result = [p \in Pages |-> Nothing]
        /\ since = [p \in Pages |-> TTL]
-----------------------------------------------------------------------------
Goto(p, from, to) == /\ pc[p] = from
                     /\ pc' = [pc EXCEPT ![p] = to]

Call(p) == Goto(p, "idle", "get") /\ UNCHANGED <<github, cache, result, since>>

\* The cached value is returned directly.
GetHits(p) == /\ Goto(p, "get", "idle")
              /\ cache # Absent
              /\ UNCHANGED <<github, cache, result, since>>

GetMisses(p) == /\ Goto(p, "get", "curl")
                /\ cache = Absent
                /\ UNCHANGED <<github, cache, result, since>>

\* Every other exception is taken for a miss as well.
GetThrows(p) == /\ Goto(p, "get", "curl")
                /\ UNCHANGED <<github, cache, result, since>>

Curl(p) == /\ Goto(p, "curl", "upsert")
           /\ \E data \in {github, Null} :
                result' = [result EXCEPT ![p] = [val |-> data, age |-> 0]]
           /\ UNCHANGED <<github, cache, since>>

\* Mutant: no expiry is given, so the document stays.
Entry_NoExpiry(p) == [val |-> result[p].val, age |-> result[p].age, ttl |-> 0]

\* Mutant: the seconds are counted from GitHub's answer.
Entry_FromAnswer(p) ==
  [val |-> result[p].val, age |-> result[p].age,
   ttl |-> IF result[p].age < TTL THEN TTL - result[p].age ELSE 1]

\* Mutant: one second too long.
Entry_TooLong(p) == [val |-> result[p].val, age |-> result[p].age, ttl |-> TTL + 1]

Entry(p) == [val |-> result[p].val, age |-> result[p].age, ttl |-> TTL]

Upsert(p) == /\ Goto(p, "upsert", "idle")
             /\ cache' = Entry(p)
             /\ since' = [since EXCEPT ![p] = 0]
             /\ result' = [result EXCEPT ![p] = Nothing]
             /\ UNCHANGED github

\* The exception is ignored, whether or not the document was stored.
UpsertThrows(p) == /\ Goto(p, "upsert", "idle")
                   /\ cache' \in {cache, Entry(p)}
                   /\ result' = [result EXCEPT ![p] = Nothing]
                   /\ UNCHANGED <<github, since>>

Step(p) == \/ GetHits(p) \/ GetMisses(p) \/ GetThrows(p)
           \/ Curl(p) \/ Upsert(p) \/ UpsertThrows(p)
-----------------------------------------------------------------------------
\* Outside this program: GitHub has new data; a second passes.
NewVersion == /\ github < MaxVersion
              /\ github' = github + 1
              /\ UNCHANGED <<cache, pc, result, since>>

UpTo(limit, n) == IF n < limit THEN n ELSE limit
Older(age)     == UpTo(MaxAge, age + 1)

\* A document whose ttl runs out is gone; a ttl of 0 never runs out.
CacheAfterTick ==
  CASE cache.ttl \in {-1, 1} -> Absent
    [] cache.ttl = 0         -> [cache EXCEPT !.age = Older(@)]
    [] OTHER                 -> [cache EXCEPT !.age = Older(@), !.ttl = @ - 1]

Tick == /\ \A p \in Pages : pc[p] = "upsert" => result[p].age < MaxDelay
        /\ cache' = CacheAfterTick
        /\ result' = [p \in Pages |-> IF pc[p] = "upsert"
                                      THEN [result[p] EXCEPT !.age = Older(@)]
                                      ELSE result[p]]
        /\ since' = [p \in Pages |-> UpTo(TTL, since[p] + 1)]
        /\ UNCHANGED <<github, pc>>

Next == NewVersion \/ Tick \/ \E p \in Pages : Call(p) \/ Step(p)

\* A page that was called is served, and time passes.  Nobody has to call.
Spec == /\ Init /\ [][Next]_vars
        /\ WF_vars(Tick)
        /\ \A p \in Pages : WF_vars(Step(p))
-----------------------------------------------------------------------------
\* Type invariant.
TypeOK == /\ github \in 1 .. MaxVersion
          /\ \/ cache = Absent
             \/ cache \in [val : 0 .. MaxVersion, age : 0 .. MaxAge, ttl : 1 .. TTL]
          /\ pc \in [Pages -> {"idle", "get", "curl", "upsert"}]
          /\ result \in [Pages -> [val : 0 .. MaxVersion, age : 0 .. MaxDelay]]
          /\ since \in [Pages -> 0 .. TTL]

\* "cache the result of this request for 5 seconds" (lines 3-6): a cached result
\* is younger than TTL seconds and the time its page took to store it, although
\* a slower page may put an older result over a newer one.
AgeBounded == cache # Absent => cache.age < TTL + MaxDelay

\* "to reduce the load on GitHub" (line 6): after its upsert a page finds the
\* document for TTL seconds, whoever stores over it; only an exception of the
\* get makes it ask GitHub earlier.
LoadReduced == [][\A p \in Pages : GetMisses(p) => since[p] = TTL]_vars

\* Once GitHub's data stays the same, the cache in the end holds nothing else
\* (but for the nulls of failed requests): no stale result is stored for ever.
EventuallyFresh == <>[](cache.val \in {github, Null})
=============================================================================
