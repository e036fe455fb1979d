# Verification of the Couchbase developer guide examples

The repository is a collection of small programs, one per feature and language,
that use a Couchbase bucket through the SDK of their language. The server and
the SDKs are not part of it; cJSON and the providers for field encryption are.
What can go wrong is in the programs: several processes, threads, tasks or
callbacks read a document, change it and write it back; requests fail or time
out after having taken effect; a bounded retry loop runs out; a phase starts
before the one before it has ended; programs that nobody meant to run together
share a document; memory is asked for in one place and written in another.

## Components

Each program is a component; programs of different languages that do the same
are listed together. "Planned" ones are not modelled yet.

| component | state | operations | interacts through | hard part | correct when |
|---|---|---|---|---|---|
| CAS, PHP (`php/cas.php`) | list document; per process: document read, CAS, retries | upsert, get, insert, replace | the document | insert race, budget of retries, lost replies, every process resets the list | each item is added at most once and atomically; nobody gives up while the budget suffices |
| CAS, C (`c/cas.cc`) | list document as text; a Result per thread; main's Result | store, get, count | the document, pthread join | results of failed calls that are not looked at; stores carried out after their timeout | the text stays a list; the CAS phase loses and repeats nothing |
| CAS, Java and Python (`Cas.java`, `cas.py`) | list document, latch or joined threads | get, replace, countDown, join | the document, the latch | a worker that dies | CAS phase is atomic; main waits for whom it should |
| CAS, .NET (`dotnet/Cas.cs`) | number document, tasks, retries per increment | get, replace, WhenAll | the document | dropped increments | the number is the number of increments that took effect |
| Bulk, Node.js (`bulkES6.js`) | window of requests, counters per phase, promise chain | upsert, getMulti, get, mutateIn | callbacks, per-key order at the server | phases overlap; failed requests shrink the window | every document asked for once per phase, no request beyond the last, window constant |
| Request cache, PHP (`cache-curl-request.php`) | cache document with expiry, result per page | get, HTTP request, upsert | the cache document, time | slow page stores an old result; failed request cached | bounded age, bounded load, stale results disappear |
| Counters, C (`counter.cc`) | a counter document | remove, counter with initial and delta | documents shared by programs | several programs on one key, lost requests | printed values are the announced ones |
| Expiration, C (`expiration.cc`) | a document and its remaining seconds | store, get, touch, get-and-touch | time | a touch that moves the end | "should fail" fails |
| Retrieving and updating, C (`retrieving.cc`, `updating.c`, `cloud.c`) | documents | upsert, insert, replace, get | documents shared by programs | results of operations that were not sent | the announced codes |
| Durability, C (`durability.cc`) | a document and its replica | store and endure, store with durability | replication, failover | the second request of the callback | what is durable survives the failover |
| Bulk, C (`bulk-get.cc`, `bulk-store.cc`) | a batch of operations | schedule, wait, callback | the scheduling context | an operation that cannot be scheduled | no results or one for every document |
| Query consistency, C (`query-consistency.cc`, `query-atplus.cc`) | documents and an index that follows | store, query | mutation token | query before index | the new row is found |
| Subdocuments, C (`subdoc-*.cc`) | paths of a document | lookups, mutations | the document, asserts in callbacks | two programs overwrite one document | the asserts hold |
| Queries, search, connecting, administration, C | buckets, indexes | create, delete, flush, query, connect | the bucket others use | a flush or a failed connection | |
| Field encryption, C (`encryption/`) | documents with an encrypted field, OpenSSL objects | store, get, encrypt, sign, verify, decrypt | the documents of two algorithms | failure after any OpenSSL call | nothing leaks that need not; texts fit; a reader reads its writer's documents |
| Binary encoding, C (`bincoding.c`, `base64.c`) | a profile as JSON | encode, store, get, decode | cJSON, memory behind the value | text without a zero | the profile shown is the one stored |
| cJSON (`cJSON.c`) | items in lists, pools with counters | create, parse, add, detach, replace, delete, print | pointers between trees | relinking, counting, memory sizes | trees stay trees, pools are freed with their last item, texts fit and are parsed to what was printed |
| The same programs in Go, Java, .NET, Node.js, PHP, Python | | | | | not modelled but for those above: see Limits |
| Spring demos, `etc/`, Maven wrapper | | | | | not modelled: a framework's or a server's work |

## Modules

    KVStore          one document with its CAS, as the server treats it (external)
    AtomicList       what the CAS examples promise: items appended atomically, at most once each
    CasPhp           php/cas.php            implements AtomicList
    CasPhpProofs     proofs about CasPhp
    CasC             c/cas.cc
    CasCProofs       proofs about CasC
    CasThreads       Cas.java and cas.py    the CAS phase implements AtomicList
    CasThreadsProofs proofs about CasThreads
    CasNet           dotnet/Cas.cs
    CasNetProofs     proofs about CasNet
    BulkWindow       nodejs/bulkES6.js
    BulkWindowProofs proofs about BulkWindow
    CacheAside       php/cache-curl-request.php
    CacheAsideProofs proofs about CacheAside
    Bucket           the operations on documents and what they answer (external)
    CTables          19 programs of c/ as tables of what they schedule, await and announce
    CPrograms        those programs run together; faults, replica, index, time
    MCCPrograms      which of them run together
    CProgramsProofs  proofs about CPrograms
    ItemTrees        what cJSON.h promises: trees of items
    CJsonItems       c/bincoding/cJSON.c, items and pools    implements ItemTrees
    MCCJsonItems     its texts and symmetry
    CJsonText        c/bincoding/cJSON.c, printing and parsing, as operators
    Profile          c/bincoding/bincoding.c and base64.c over CJsonText
    MCProfile        its names, numbers, items and what lies in memory behind a value
    FieldCrypto      c/encryption
    MCFieldCrypto    the lengths of the five encrypted fields
    FieldCryptoProofs proofs about FieldCrypto

Three conventions are common to all modules.

* A request and its reply are one step wherever the code blocks on the call:
  nothing the program does between them can be seen by anybody else.
  `BulkWindow`, whose requests overlap, has requests on the wire and replies
  that wait for their callback; in `CPrograms` the operations scheduled together
  are answered in any order.
* A request that fails may have been carried out or not, both are behaviours. In
  `CasC`, whose threads go on after a timeout, it may also be carried out later.
  What follows is what the code does with an error: throw, ignore, retry, or
  take the old result for the new one.
* An operator `X_Suffix` preceded by a comment "Mutant:" is a plausible slip in
  the code that `X` models; it is used nowhere, and each property of a passing
  run is violated when the mutant named for it in `PROJECT.json` replaces `X`.

**KVStore.** A document is its value, its CAS (`NoCas` when absent) and the last
CAS given out. A mutation gives a new CAS; a replace needs the document, and
with a CAS other than `NoCas` the same one.

**CasPhp.** `pc` is the request the process is about to make. `InsertLoses` keeps
`retries`: the code adds one and `continue` evaluates `--$retries_remaining`.
`ReplaceRefused` spends one; the last one leads to the exception of line 60.
`RequestFails` is any other error code, `Flush` a bucket flush by somebody else.

**CasC.** The document is a sequence of tokens ("open", "close", "comma" and items,
which are the threads and none of these, `ThreadsAssumption`), because
`add_item_to_list` and `count_list_items` look only at lengths, commas and the
last character. `res` is the `Result` a thread hands to its requests, `mres` the
one main uses for both of its gets. Failures are of seven kinds, each at most once
in a run: a get that fails leaves `res.value` empty and the CAS 0; a store that
times out; a store that is not sent, after which `res.rc` is still the one of
the get; and so on. `late` has the stores that timed out: each thread has a
connection of its own, so `CarryOutLate` may apply one at any later time, in the
second phase as well, or never. `unheard` and `unsent` are history: the threads of the
phase whose store timed out or was not sent. `CountHangs` is the endless
search in a text that begins with a comma; it is no end of the program.

**CasThreads.** One variable, `lang`, tells the two programs apart: Java waits on
a latch, Python joins; a worker that meets another exception dies, and in Java
it never counts the latch down.

**CasNet.** An increment is a get, `++` and a replace. Results other than
KeyExists leave the retry loop. `won`, `exhausted` and `failed` are history:
which increments took effect, were given up, or failed otherwise.

**BulkWindow.** `sent[k]` are the requests for key k the server has not seen,
`answered[k]` the replies whose callback has not run; both are queues because
one connection carries the requests for a key. `Resolve`, `IssueNext` and
`LateResult` are the three outcomes of `upsertOne`/`getOne`/`modifyOne` after
`completed++`. Promise reactions run at the end of the callback that resolves,
so the next phase starts in the same step. `asked` is history: how often each phase
has asked for each index, those past the array included.

**CacheAside.** A call is get, request to GitHub, upsert, in three steps. `Tick`
is a second. Ages count from GitHub's answer, `since` from a page's last
accepted upsert.

**Bucket, CTables, CPrograms.** The C programs have one form: create a handle,
connect, and in each round schedule operations, wait in `lcb_wait`, look at what
the callback kept. `CTables` has a row per round: the operations, whether there is
a callback, what the code does when an operation cannot be scheduled or fails
(nothing, exit, abort, take the batch back), what it asserts, how long it sleeps,
and in `says` and `shows` what the comments and printed lines announce. `CPrograms`
runs a set of programs against one `docs`; `todo`, `enduring` and `stale` are what
a program's `lcb_wait` waits for. `backup` is the replica: `Replicate` copies a
document, `Failover` makes the copies the documents. `index` is what queries see.
`clean` has the programs for which nothing has come in between: no fault of
theirs, and no change of a document they use by somebody else since they
connected. `Left` lets every program start with what earlier runs left.
An assert that reads a status no callback has written sees any status. An answer
has a code and, per path, a status: a mutation that is refused says `MULTI_FAILURE`
and gives the status of the path it failed at; with any other code but `SUCCESS`
the callbacks look at no path (`Kept`).

**CJsonItems, ItemTrees.** The heap maps addresses to `struct cJSON`; each function
is an operator on heaps, written with the assignments of the source in their
order. `PoolNewItem` takes from the free list, `NewBlock` extends it, `FreeItems` counts
down and frees the pool at 0. Callers use what is in no list as they like,
and do not put an item into itself or change children that a reference shares:
the conditions of `Add` .. `DeleteRoot` under "The callers of the library".
`ItemTrees` knows no links and no memory. When `malloc` fails an item may carry
a pool that does not count it; `memory` is then "short" and nothing is claimed.

**CJsonText, Profile.** Texts are sequences of tokens with widths, since memory is
asked for in characters: one token per character that the parser tells apart, one
per literal and per number. `Memory` is the code's computation of sizes, `PrintValue`
what it writes. A number is told by what `print_number` looks at: its `int`, its sign, how
many digits it has before the point and where its first digit behind it is; `Format`
is the choice of `%d`, `%.0f`, `%e` and `%f`, `Characters` how long each is, `NumberMemory` the 21
or 64 bytes. After a text that does not fit the program writes it all the same or
gets no further. A picture is its length. `ShowProfile` parses the text with
one of `Tails` behind it, as `get_callback` does without a terminating zero.

**FieldCrypto.** A provider function is its sequence of OpenSSL calls, each with
what it gets and what the code frees if it fails. `Ends` are the ways out.
`Put` writes the algorithm a document is encrypted by, and nothing else.

## Runs

| run | question and answer | bounds, and why they are enough |
|---|---|---|
| `cas_php` | Does the script implement the atomic list, does anybody give up, does everybody end? Yes, nobody, yes. | 3 processes: one can be between two others. 5 retries, the least number the theorem allows for 3 processes; 1 flush makes every insert race happen |
| `cas_php_lost` | Do all mutations remain? No: the next process resets the list. | 2 processes |
| `cas_c` | Which failures lose, repeat or garble items? Safe threads lose items only to a request without a CAS: one that followed an unanswered get, or a `"[]"` or a replace of the first phase that arrives late. An unsent store costs its own item, a timed out store repeats at most its own. Does the program end? Yes, unless there is no document, or a thread whose get was not answered has stored a text that begins with a comma: then `count_list_items` counts for ever. | 2 threads, each of which can go round its whole loop between another's get and store, and whose late stores are a third actor; 3 of the 7 kinds of failure in a run; for any number of threads see the proofs |
| `cas_c_warning` | Is the "cut off" message right? No, it appears whenever the list is not empty. | 2 threads, no failures |
| `cas_threads` | Are the loops of Java and Python atomic, and who waits for a dead worker? Yes; Java's main, for ever. | 3 workers, any of which may die |
| `cas_net` | Is the number accounted for? Yes, exactly. | 2 tasks, 2 increments, limits 1 (too few) and 2 (enough), 2 kinds of failure |
| `bulk_window` | Do overlapping phases harm each other? No, unless a request fails; nothing is asked for twice; at the exit at most the last window is missing. A phase starves when all requests of its window fail. | window 3, 4 documents: several late results, keys 0 (hit by the whole first window) and others; 3 failures, as many as make a window fail |
| `cache_aside` | How old, how often, is staleness temporary? See the properties. | 3 pages, expiry 2, delay 1, 2 versions: a slow page can overwrite a newer result |
| `cjson_items` | Do links, counters and trees agree after any sequence of calls? Yes, while memory lasts. | 4 items: an item with a predecessor, a successor and a parent; blocks of 2, so that a pool's block runs out and items are malloc'ed; 1 pool, so that a second parse finds none; addresses and pools symmetric |
| `profile` | Does the text fit? Yes, but for whole numbers of more than 63 characters, which `%.0f` writes into 64 bytes. Is it parsed to what was printed? Yes, but for control characters without an escape and digits that are left out. Is the profile shown the one stored? Yes. | names with each class of character, integers of 1 to 11 characters, doubles of every format, with 63 digits, with a sign as well, and with 309; pictures of 0 to 4 bytes (all paddings), items nested three deep, five tails |
| `field_crypto` | What is never freed? An HMAC key and a digest context, or an RSA key, for each document, and nothing else. Who can read what? A reader is never ahead of the writer of its algorithm. Do the texts fit? Those of the examples do. | all five documents with the lengths of their fields, all four programs, every call may fail |
| `c_programs` | Do the programs do what they announce, together? Yes, when nothing comes between. A batch has all results or none whatever fails, neighbours alone do not break an assert, and what is durable survives a failover. | 13 sets of programs that share documents, 2 faults (two different ones can meet), 1 second that passes while nobody sleeps |

The findings in `PROJECT.json` quote the line each of the two violated
properties is taken from.

Bounds that are not in the code: `MaxFlush`, `MaxFaults` (kinds of failure, failed
requests in `BulkWindow`, anything that goes wrong in `CPrograms`), `MaxWaits`,
`MaxDelay` (seconds between GitHub's answer and the upsert), `MaxVersion` and
`MaxAvatar`. The numbers of threads, increments and documents, the window, the
expiry of the cache and `BlockSize` are constants of the code, scaled down; the
seconds of `expiration.cc` are its own.

`PaddedTextFits` is about the five documents. For a text of a whole number of
blocks `osp_encrypt` asks for one byte less than it writes
(`openssl_symmetric_provider.c:187`); none of the five has such a length.

## Fairness

Weak fairness of the steps in which a thread, process or task goes on and its
request is answered: the scheduler runs it and the SDKs answer every request or
report a timeout. Failures, deaths, flushes and calls of the page are never
forced. In `BulkWindow` the server answers while the program runs; what is in
flight when it exits may be lost. In `CasC` a store that timed out need not ever be
carried out. In `CacheAside` time passes. Nothing is assumed
strongly fair: a thread whose CAS is refused again and again is refused because
others finish, of which there are finitely many.

`CJsonItems`, `Profile`, `FieldCrypto` and `CPrograms` state no fairness: their
properties are about what has happened.

## Proofs

`CasPhpProofs` (any finite set of processes, any retry budget, any number of
flushes, assuming only `ProcsAssumption` .. `MayFailAssumption`):

* `TypeCorrect`, and `Invariance` of `IInv`.
* `EnoughRetries`: with more than 2(n-1) retries no process gives up. The claim is
  not inductive; the strengthening counts. Each mutation is the upsert or the
  add of one process (`ClockCounts`), and the retries a process has spent are
  fewer than the mutations before its last look at the document (`RetriesPaid`),
  because each refusal means that somebody changed it in between. A process that
  is refused now has neither added nor been the last to write, which leaves
  2(n-1) mutations of others (`RefusalAffordable`).
* `ReplaceOverwritesWhatWasRead`: the CAS of a get identifies the value, since
  every CAS is given out once and the document carries the last one
  (`CasIsLatest`).
* `Refinement`: every step is a step of `AtomicList` or leaves its variables
  alone (`RefineStep`); the case that matters is an accepted replace, which by
  the lemma `AcceptedValue` appends to the current list.
* `AddedAtMostOnce`: an item is in the list only if its process has ended
  (`ItemsCounted`), so an append never repeats one.

`CacheAsideProofs` (any pages, expiry, delay, versions):

* `TypeCorrect`; `CacheIsYoung` from `AgeAndTtl` (age and remaining seconds sum to at
  most delay plus expiry); `LoadIsReduced`, an action property, from `KeptForAll`
  (whoever overwrites a page's result only prolongs it).

`CasCProofs` (any finite set of threads, any number of failures):

* `Invariance` of `IInv`, whose parts are the types, the order of the CASs
  (`Clock`), what each `Result` is a copy of (`Snapshots`), the form of the texts
  (`Lists`), that there is a document (`Present`), that the items of the safe threads that
  returned are in it (`Kept`), that a thread's get and store
  see the same list when the CAS agrees, how often (`Once`) and what was counted
  (`Counted`). `Late` says of a store still on its way what it can do when it arrives:
  as long as it has a CAS it is refused or keeps every item. From these `TypeCorrect`, `StaysWellFormed`, `LoseNothing`,
  `StoreOnce` and `CountsAll`.
* The lemmas about `add_item_to_list` say of a list of any length that the item is
  appended after a comma, that nothing else changes and that the result is a list.
  `CountsEveryItem` says that `count_list_items` counts the items: a bijection between
  the commas it finds and the places of the items, and one between these and the
  threads.

`CasThreadsProofs` (any finite, non-empty set of threads, both languages):

* `Invariance`: in the safe phase the latch counts those that have not counted
  down (`LatchCounts`), a thread's CAS identifies the list it read
  (`CasIdentifiesValue`), only threads that have sent their append are in a list
  and none twice (`OnlyOver`), and who was told so is in it (`StoredStays`).
* `TypeCorrect`, `SizeTells` (a list without repetition is as long as it has items),
  `AssertFailsRightly`, and `Refinement` of `AtomicList` by the safe phase.

`CasNetProofs` (any finite set of tasks, any count, any retry limits):

* `NumberIsCount`; `EnoughRetries`, which like that of the PHP script needs an account:
  every retry spent and every change since the last get is an increment of
  another task (`RetriesPaid`), of which there are (n-1) * Count; `Shortfall` from
  the partition of the increments that are behind their tasks (`Accounted`);
  `UnsafeRange` from `NumberFollowsWins` and `LastSeesFirst`: the last replace of all
  has seen that of the same task before it. `TypeCorrect` besides.

`BulkWindowProofs` (any window, any number of documents, any number of failures):

* `Invariance`: the requests of each kind and key are counted in both queues.
  `Balance` says that every result and error is that of a request for one
  document or of one of the window's for test0, `OnceEach` that a phase asks for a
  document past test0 once, when its count gets there, `PreloadsFirst` that no
  document is created any more once something else was asked of it, `MultiFinds`
  what that means for `getMulti`.
* `AskedInvariance` of `AskedInv`, on top of it: test0 is asked for by the first loop of
  a phase only, and a later document once, in the order of the count and inside
  the array, so that the callbacks after the last result have nothing to ask for.
* From these `TypeCorrect` (with the bounds of the counters), `ArrayIsComplete`,
  `AsksOnce`, `CrashNeedsFault`, `MissingFitsWindow`.

`FieldCryptoProofs` (any documents with fields of any lengths; `Lengths` is not empty):

* `LeavesKeysAndDigests`, from lemmas about the ways out of each provider function
  (`CipherEnds`, `DigestEnds`, `KeyEnds`); `BehindItsWriter`, which is inductive only
  with what a reader has in its hands and what is stored (`SentBeforeRead`,
  `SentBeforeStored`); `TypeCorrect`.
* `MemoryForPaddedText`: one byte too little is asked for exactly when the length is
  a whole number of blocks. `PaddedTextsFit` has the hypothesis that no field has
  such a length, which the five documents satisfy and without which it is false.

`CProgramsProofs` (any of the programs in any combination and number, any number
of faults and seconds; `ScenariosAssumption`: a program is one of `Names` and a number):

* The tables are looked at once: every round is of one operation, or is a batch that
  keeps its answers and stores nothing durably, and no program ends with a sleep
  (`AllTables`).
* `Invariance`: what a program waits for, has heard and sleeps fits its place in main
  (`Stages`); a document stored durably has no end of life (`ForEver`); a promise is
  about a write that is over, so that no later write of a program has the same
  stamp (`Promises`); while the promised mutation is the latest one the document is
  it, and while the document is it the replica is it too (`Held`).
  `DurableUntilOverwritten` alone is not inductive: it says nothing of the copy that
  a failover makes the document.
* `AllOrNothing`: of a batch's operations each is waited for or answered (`Settled`).
* `DurableStays`: `Held`.
* `Announcements`, that is `AsPromised`, from `Reliance`. What is announced of an answer
  says nothing of the steps before it, so the invariant `AInv` says what each
  program that nobody disturbs relies on (`Undisturbed`): before a round its document
  is as the earlier rounds leave it (`Prepared`: a counter of 100 before it is 101, a
  person without `some.deep` before the mutation that needs it), a document that is to be
  gone after the sleep has no more seconds to live than the sleep has left (`Fading`),
  the index has the document or the query still waits for it (`InSight`), and nobody
  stores what `retrieving.cc` looks for in vain (`NeverFound`). The lemmas of each table's
  rounds compute what `Handle` leaves and answers (`Succeeds`), a mutation of up to three
  paths with `AfterOne` to `AfterThree`. A step of another program either is on another
  document or ends the program's being undisturbed (`PutDisturbs`, `WipeDisturbs`);
  a failover does the same to every program.
* `AssertsSurvive`, that is `AssertsSurviveNeighbours`, from `Trusting`. It has a
  hypothesis about the whole run, no fault and no `flush.cc`, which `BInv` carries as
  `Peace`: then the document the subdocument examples share is gone or a person
  (`IsPerson`: it never expires, has the paths the asserts are about and never
  `non-exist`), is there once one of them has stored it, everybody stays connected
  (`Going`), and an asserted answer has its code (`Trusts`). `SharedStaysPersonal` is why
  the order does not matter: whichever of their operations comes next, the paths
  stay; `OthersDoNotShare` is that no other program but `flush.cc` touches the document.

Only model-checked:

* liveness, which is out of the prover's reach: `Terminates`, `EndsIfDocumentExists`,
  `EndsOrWaitsForTheDead`, `EndsOrStarves`, `EventuallyFresh`;
* what `CJsonText` and `Profile` compute (`TextFitsItsMemory`, `ParsesWhatItPrints`,
  `ShowsWhatWasStored`): it is recursive over values and texts;
* `CJsonItems` (`ListsWellLinked`, `PoolsCountTheirItems`, `ImplementsItemTrees`): the chains
  of items are computed by recursion over the heap, and what they are for every
  heap needs induction over data.

Where a module has a `TypeOK` that no run lists, the types are part of its proofs.

## Plan

1. Tables for the document programs of the other languages, over `Bucket`, with
   exceptions in place of callbacks.
2. The batches of .NET, Go, Java, PHP and Python: one result per request.

## Limits

The models say nothing of the server's own behaviour beyond what the programs
rely on, of the SDKs' internal retries, of the contents of documents that no
property looks at, and of output. Further:

* Only `CasC` carries a request out after its timeout. In `CasPhp`, `CasThreads`, `CasNet`
  and `CPrograms` it is carried out before the error is reported or not at all, and
  in `BulkWindow` in the order of its connection.
* `EnoughRetries` needs more than 2(n-1) retries in `CasPhp` and (n-1) * Count in
  `CasNet`; `cas.php` with ten processes has 10 and `Cas.cs` 100, which is fewer. There
  a process may give up, an increment may be dropped.
* `CPrograms`: only documents
  that are made durable have a replica, only those of a bucket whose queries wait
  for it an index. HTTP answers are success or failure, what a query selects is
  the rows of its bucket, languages of queries and of search are left out.
* `CJsonText`: a number has no digits, only a sign, a length, a first place behind
  the point and an `int`; none is as near to `INT_MAX`, or to a whole number, as to need
  its digits (`DoublesAssumption`), and none is infinite. There is no `\u` escape, and
  memory does not run out while a text is printed.
* `Profile`: what `encode_profile` makes always ends with the brace at which the parser
  stops, so that the unchecked profile of `bincoding.c:136` is never null.
* `FieldCrypto`: the ciphers are OpenSSL's. `RSA_public_encrypt` failing is not seen by
  the provider (`openssl_asymmetric_provider.c:64`); the fields are shorter than
  the key, so that it does not fail.

Behaviour of the code that was met and that no run is about: an increment of
`Cas.cs` is dropped without a word when its retries run out (line 82);
`bulkES6.js` exits with up to a window of updates in flight (line 68);
`cache-curl-request.php` caches the null of a failed request (line 68) and gives
its caller a meta document on a hit but the decoded value on a miss (line 41);
`cas.cc` starts its threads although the reset of the list has timed out
(line 165), and a reset that arrives late removes their items; `print_number` of
`cJSON.c` writes whole numbers of more than 63 characters past 64 bytes (line 274);
`updating.c` prints the result of the operation before when one is not
scheduled (line 69); `cJSON.c` aborts in line 169 when a root was malloc'ed for want of
a block and is deleted.

Not modelled are the programs of the other languages for what the C tables
cover. Their own hazards were noted in reading: `go/expiration.go:52` (the document
"without expiration" has one), `go/counter.go:28` (the counter is not removed first),
`dotnet/Durability.cs:43` and `dotnet/Update.cs:45` (an earlier result is printed),
`go/subdocument.go:51` (a path that was not looked up is shown).
