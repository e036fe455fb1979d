-------------------------- MODULE BulkWindowProofs --------------------------
(***************************************************************************)
(* Proofs about BulkWindow for any window, any number of documents and any *)
(* number of failing requests.                                             *)
(***************************************************************************)
EXTENDS BulkWindow, FiniteSetTheorems, SequenceTheorems, TLAPS

Ops == Windows \cup {"multi"}

\* How many places of a sequence hold a member of S.
Places(s, S) == {i \in DOMAIN s : s[i] \in S}
Count(s, S)  == Cardinality(Places(s, S))

\* The requests of one kind for a key that are on their way, that have a reply
\* whose callback has not run, and both.
InSent(w, k)   == Count(sent[k], {w})
InReply(w, k)  == Count(answered[k], [op : {w}, ok : BOOLEAN])
Inflight(w, k) == InSent(w, k) + InReply(w, k)

\* The types without the bounds.
Shape == /\ phase \in Windows \cup {"multi"} \cup Ended
         /\ completed \in [Windows -> Nat]
         /\ runFlag \in [Windows -> BOOLEAN]
         /\ errors \in [Windows -> Nat]
         /\ array \subseteq Keys
         /\ multi \in [left : SUBSET array, failed : BOOLEAN]
         /\ sent \in [Keys -> Seq(Ops)]
         /\ answered \in [Keys -> Seq(Replies)]
         /\ rev \in [Keys -> Nat \cup {Absent}]
         /\ faults \in 0 .. MaxFaults

\* A phase is over from its totalDocs-th result on.
FlagTells == \A w \in Windows : runFlag[w] <=> completed[w] >= totalDocs

\* The array names the documents asked for so far.
ArrayFollows ==
  array = 0 .. (IF completed["preload"] < totalDocs THEN completed["preload"] ELSE totalDocs - 1)

\* The phases follow each other.
PhasesFollow ==
  /\ phase = "multi" => runFlag["preload"] /\ ~ runFlag["get"]
  /\ runFlag["get"] => runFlag["preload"] /\ phase \in {"update", "exit"}
  /\ runFlag["update"] => runFlag["get"]
  /\ phase = "exit" => runFlag["update"]
  /\ phase = "crashed" => multi.failed

\* Nothing of a phase happens before it starts.
Idle(w) == completed[w] = 0 /\ errors[w] = 0 /\ \A k \in Keys : Inflight(w, k) = 0

NothingEarly ==
  /\ ~ runFlag["preload"] => \A k \in Keys : Inflight("multi", k) = 0
  /\ ~ runFlag["preload"] \/ phase = "multi" => Idle("get")
  /\ ~ runFlag["get"] => Idle("update") /\ \A k \in Keys : rev[k] <= 0

\* No document is created any more once something else was asked of it.
PreloadsFirst ==
  \A k \in Keys :
    /\ \A i, j \in DOMAIN sent[k] : i < j /\ sent[k][j] = "preload" => sent[k][i] = "preload"
    /\ rev[k] >= 1 => InSent("preload", k) = 0

\* Past test0 a phase asks once for each document, when its count gets there.
OnceEach ==
  \A k \in Keys \ {0} :
    /\ \A w \in Windows : /\ Inflight(w, k) <= 1
                          /\ Inflight(w, k) > 0 => k <= completed[w] /\ k < totalDocs
    /\ rev[k] >= 1 => k <= completed["update"]

\* Every result and every error is that of the one request for a document past
\* test0, or of one of the window's requests for test0.
Gone(w) == {k \in 1 .. totalDocs - 1 : k <= completed[w] /\ Inflight(w, k) = 0}

BalanceOf(w) == completed[w] + errors[w] + Inflight(w, 0) <= Cardinality(Gone(w)) + opsGroup
Balance      == \A w \in Windows : BalanceOf(w)

\* The updates to come and those made do not exceed the updates issued.
Limit(k) == IF k = 0 THEN opsGroup ELSE 1

RevBounded ==
  \A k \in Keys : InSent("update", k) <= Limit(k) /\ InSent("update", k) + rev[k] <= Limit(k)

\* A result of an update has taken effect.
ResultsShow ==
  \A k \in Keys : \A i \in DOMAIN answered[k] :
    answered[k][i] = [op |-> "update", ok |-> TRUE] => rev[k] >= 1

Updated == {k \in 1 .. totalDocs - 1 : rev[k] >= 1 /\ Inflight("update", k) = 0}

\* The results of updates are those of distinct documents, or of test0.
ResultsCounted ==
  completed["update"] <= Cardinality(Updated)
                           + (IF rev[0] >= 1 THEN opsGroup - Inflight("update", 0) ELSE 0)

\* Without failures what getMulti asks for is there when it is asked.
MultiFinds ==
  faults = 0 =>
    /\ ~ multi.failed
    /\ \A k \in array : rev[k] # Absent \/ \E j \in DOMAIN sent[k] : sent[k][j] = "preload"
    /\ \A k \in Keys : \A i \in DOMAIN sent[k] :
         sent[k][i] = "multi" => rev[k] # Absent \/ \E j \in 1 .. (i - 1) : sent[k][j] = "preload"
    /\ \A k \in Keys : \A i \in DOMAIN answered[k] :
         answered[k][i].op = "multi" => answered[k][i].ok

IInv == /\ Shape
        /\ FlagTells
        /\ ArrayFollows
        /\ PhasesFollow
        /\ NothingEarly
        /\ PreloadsFirst
        /\ OnceEach
        /\ Balance
        /\ RevBounded
        /\ ResultsShow
        /\ ResultsCounted
        /\ MultiFinds
-----------------------------------------------------------------------------
(* Counting the places of a sequence. *)

\* The places are finitely many, and there is none iff no element is in S.
LEMMA CountIsNat ==
  ASSUME NEW T, NEW S, NEW s \in Seq(T)
  PROVE  /\ IsFiniteSet(Places(s, S))
         /\ Count(s, S) \in Nat
         /\ Count(s, S) = 0 <=> \A i \in DOMAIN s : s[i] \notin S
<1>1. Len(s) \in Nat /\ DOMAIN s = 1 .. Len(s)
  OBVIOUS
<1>2. IsFiniteSet(1 .. Len(s))
  BY <1>1, FS_Interval
<1>3. IsFiniteSet(Places(s, S))
  BY <1>1, <1>2, FS_Subset DEF Places
<1>4. Count(s, S) \in Nat
  BY <1>3, FS_CardinalityType DEF Count
<1>5. Count(s, S) = 0 <=> Places(s, S) = {}
  BY <1>3, FS_EmptySet DEF Count
<1> QED
  BY <1>3, <1>4, <1>5 DEF Places

\* An empty sequence has none.
LEMMA CountEmpty ==
  ASSUME NEW S
  PROVE  Count(<<>>, S) = 0
<1>1. Places(<<>>, S) = {}
  BY DEF Places
<1> QED
  BY <1>1, FS_EmptySet DEF Count

\* Append adds one place at most.
LEMMA CountAppend ==
  ASSUME NEW T, NEW S, NEW s \in Seq(T), NEW x \in T
  PROVE  Count(Append(s, x), S) = IF x \in S THEN Count(s, S) + 1 ELSE Count(s, S)
<1>1. IsFiniteSet(Places(s, S)) /\ Count(s, S) \in Nat
  BY CountIsNat
<1>2. CASE x \in S
  <2>1. Places(Append(s, x), S) = Places(s, S) \cup {Len(s) + 1}
    BY <1>2 DEF Places
  <2>2. Len(s) + 1 \notin Places(s, S)
    BY DEF Places
  <2>3. Cardinality(Places(s, S) \cup {Len(s) + 1}) = Cardinality(Places(s, S)) + 1
    BY <1>1, <2>2, FS_AddElement
  <2> QED
    BY <1>2, <2>1, <2>3 DEF Count
<1>3. CASE x \notin S
  <2>1. Places(Append(s, x), S) = Places(s, S)
    BY <1>3 DEF Places
  <2> QED
    BY <1>3, <2>1 DEF Count
<1> QED
  BY <1>2, <1>3

\* The tail of a sequence loses the place of its head.
LEMMA CountTail ==
  ASSUME NEW T, NEW S, NEW s \in Seq(T), s # <<>>
  PROVE  Count(Tail(s), S) = IF Head(s) \in S THEN Count(s, S) - 1 ELSE Count(s, S)
<1> DEFINE R == Places(s, S) \ {1}
           f == [i \in R |-> i - 1]
<1>1. IsFiniteSet(Places(s, S)) /\ Count(s, S) \in Nat
  BY CountIsNat
<1>2. IsFiniteSet(R) /\ Cardinality(R) = IF 1 \in Places(s, S) THEN Count(s, S) - 1 ELSE Count(s, S)
  BY <1>1, FS_RemoveElement DEF Count
<1>3. 1 \in Places(s, S) <=> Head(s) \in S
  BY DEF Places
<1>4. R \subseteq Int /\ Places(Tail(s), S) = {i - 1 : i \in R}
  <2>1. Len(s) \in Nat /\ Len(s) >= 1 /\ DOMAIN s = 1 .. Len(s)
    OBVIOUS
  <2>2. DOMAIN Tail(s) = 1 .. (Len(s) - 1) /\ \A i \in 1 .. (Len(s) - 1) : Tail(s)[i] = s[i + 1]
    BY <2>1
  <2>3. \A i \in R : i \in 2 .. Len(s) /\ s[i] \in S
    BY <2>1 DEF Places
  <2>4. \A i \in 2 .. Len(s) : s[i] \in S => i \in R
    BY <2>1 DEF Places
  <2>5. ASSUME NEW i \in R
        PROVE  i - 1 \in Places(Tail(s), S)
    <3>1. i - 1 \in 1 .. (Len(s) - 1) /\ (i - 1) + 1 = i
      BY <2>1, <2>3
    <3> QED
      BY <2>2, <2>3, <3>1 DEF Places
  <2>6. ASSUME NEW j \in Places(Tail(s), S)
        PROVE  j + 1 \in R /\ j = (j + 1) - 1
    <3>1. j \in 1 .. (Len(s) - 1) /\ s[j + 1] \in S
      BY <2>2 DEF Places
    <3>2. j + 1 \in 2 .. Len(s)
      BY <2>1, <3>1
    <3> QED
      BY <2>4, <3>1, <3>2
  <2>7. R \subseteq Int
    BY <2>3
  <2>8. Places(Tail(s), S) \subseteq {i - 1 : i \in R}
    BY <2>6
  <2>9. {i - 1 : i \in R} \subseteq Places(Tail(s), S)
    BY <2>5
  <2> QED
    BY <2>7, <2>8, <2>9
<1>5. f \in Bijection(R, Places(Tail(s), S))
  <2>1. f \in [R -> Places(Tail(s), S)]
    BY <1>4
  <2>2. \A a, b \in R : f[a] = f[b] => a = b
    BY <1>4
  <2>3. \A t \in Places(Tail(s), S) : \E a \in R : f[a] = t
    BY <1>4
  <2> QED
    BY <2>1, <2>2, <2>3 DEF Bijection, Injection, Surjection, IsInjective
<1>6. ExistsBijection(R, Places(Tail(s), S))
  BY <1>5 DEF ExistsBijection
<1>7. Cardinality(Places(Tail(s), S)) = Cardinality(R)
  BY <1>2, <1>6, FS_Bijection
<1> QED
  BY <1>2, <1>3, <1>7 DEF Count

\* n elements more at the end add n places.
LEMMA CountExtend ==
  ASSUME NEW T, NEW S, NEW s \in Seq(T), NEW x \in T, NEW n \in Nat
  PROVE  /\ s \o [i \in 1 .. n |-> x] \in Seq(T)
         /\ Count(s \o [i \in 1 .. n |-> x], S) = IF x \in S THEN Count(s, S) + n ELSE Count(s, S)
<1> DEFINE e == [i \in 1 .. n |-> x]
           c == s \o e
           N == (Len(s) + 1) .. (Len(s) + n)
<1>1. IsFiniteSet(Places(s, S)) /\ Count(s, S) \in Nat
  BY CountIsNat
<1>2. e \in Seq(T) /\ Len(e) = n
  OBVIOUS
<1>3. Len(s) \in Nat /\ DOMAIN s = 1 .. Len(s)
  OBVIOUS
<1>4. /\ c \in Seq(T)
      /\ DOMAIN c = 1 .. (Len(s) + n)
      /\ \A i \in 1 .. Len(s) : c[i] = s[i]
      /\ \A i \in N : c[i] = x
  <2>1. c \in Seq(T) /\ Len(c) = Len(s) + n
    BY <1>2, ConcatProperties
  <2>2. \A i \in 1 .. (Len(s) + n) : c[i] = IF i <= Len(s) THEN s[i] ELSE e[i - Len(s)]
    BY <1>2, ConcatProperties
  <2>3. \A i \in N : c[i] = x
    <3> SUFFICES ASSUME NEW i \in N PROVE c[i] = x
      OBVIOUS
    <3>1. i \in 1 .. (Len(s) + n) /\ ~ (i <= Len(s)) /\ i - Len(s) \in 1 .. n
      BY <1>3
    <3>2. c[i] = e[i - Len(s)]
      BY <2>2, <3>1
    <3> QED
      BY <3>1, <3>2
  <2>4. \A i \in 1 .. Len(s) : c[i] = s[i]
    BY <1>3, <2>2
  <2>5. DOMAIN c = 1 .. (Len(s) + n)
    BY <2>1, LenProperties
  <2> QED
    BY <2>1, <2>3, <2>4, <2>5
<1>5. IsFiniteSet(N) /\ Cardinality(N) = n
  <2>1. Len(s) + 1 \in Int /\ Len(s) + n \in Int
    BY <1>3
  <2>2. /\ IsFiniteSet(N)
        /\ Cardinality(N) = IF Len(s) + 1 > Len(s) + n THEN 0 ELSE (Len(s) + n) - (Len(s) + 1) + 1
    BY <2>1, FS_Interval
  <2>3. (IF Len(s) + 1 > Len(s) + n THEN 0 ELSE (Len(s) + n) - (Len(s) + 1) + 1) = n
    BY <1>3
  <2> QED
    BY <2>2, <2>3
<1> HIDE DEF e, c
<1>6. CASE x \in S
  <2>1. Places(c, S) = Places(s, S) \cup N
    BY <1>3, <1>4, <1>6 DEF Places
  <2>2. Places(s, S) \cap N = {}
    BY <1>3 DEF Places
  <2>3. Cardinality(Places(s, S) \cup N) = Cardinality(Places(s, S)) + n - Cardinality({})
    BY <1>1, <1>5, <2>2, FS_Union
  <2>4. Count(c, S) = Count(s, S) + n
    BY <1>1, <2>1, <2>3, FS_EmptySet DEF Count
  <2> QED
    BY <1>4, <1>6, <2>4 DEF c, e
<1>7. CASE x \notin S
  <2>1. Places(c, S) = Places(s, S)
    BY <1>3, <1>4, <1>7 DEF Places
  <2> QED
    BY <1>4, <1>7, <2>1 DEF Count, c, e
<1> QED
  BY <1>6, <1>7
-----------------------------------------------------------------------------
(* What the steps do to the requests in flight. *)

\* A callback takes one reply of its kind and key.
Takes(op, k) ==
  \A v \in Ops, j \in Keys :
    InReply(v, j)' = IF v = op /\ j = k THEN InReply(v, j) - 1 ELSE InReply(v, j)

\* n requests of a kind go out for each of some keys.
Sends(op, keys, n) ==
  \A v \in Ops, j \in Keys :
    InSent(v, j)' = IF v = op /\ j \in keys THEN InSent(v, j) + n ELSE InSent(v, j)

\* The counts are natural numbers; a positive one has a place.
LEMMA Counts_Nat ==
  ASSUME Shape, NEW v \in Ops, NEW j \in Keys
  PROVE  /\ InSent(v, j) \in Nat /\ InReply(v, j) \in Nat /\ Inflight(v, j) \in Nat
         /\ InSent(v, j) = 0 <=> \A i \in DOMAIN sent[j] : sent[j][i] # v
         /\ InReply(v, j) = 0 <=> \A i \in DOMAIN answered[j] : answered[j][i].op # v
<1>1. sent[j] \in Seq(Ops) /\ answered[j] \in Seq(Replies)
  BY DEF Shape
<1>2. /\ InSent(v, j) \in Nat
      /\ InSent(v, j) = 0 <=> \A i \in DOMAIN sent[j] : sent[j][i] \notin {v}
  BY <1>1, CountIsNat DEF InSent
<1>3. /\ InReply(v, j) \in Nat
      /\ InReply(v, j) = 0 <=> \A i \in DOMAIN answered[j] : answered[j][i] \notin [op : {v}, ok : BOOLEAN]
  BY <1>1, CountIsNat DEF InReply
<1>4. \A i \in DOMAIN answered[j] : answered[j][i] \in Replies
  BY <1>1
<1>5. \A r \in Replies : r \in [op : {v}, ok : BOOLEAN] <=> r.op = v
  BY DEF Replies
<1>6. Inflight(v, j) \in Nat
  BY <1>2, <1>3 DEF Inflight
<1> QED
  BY <1>2, <1>3, <1>4, <1>5, <1>6

\* A callback takes the first reply of its key.
LEMMA CallbackEffect ==
  ASSUME Shape, NEW op \in Ops, NEW k \in Keys, NEW ok \in BOOLEAN, Callback(k, op, ok)
  PROVE  /\ answered' \in [Keys -> Seq(Replies)]
         /\ Takes(op, k)
         /\ InReply(op, k) >= 1
         /\ Inflight(op, k) >= 1
<1>1. /\ answered \in [Keys -> Seq(Replies)]
      /\ answered[k] \in Seq(Replies) /\ answered[k] # <<>>
      /\ Head(answered[k]) = [op |-> op, ok |-> ok]
      /\ answered' = [answered EXCEPT ![k] = Tail(@)]
  BY DEF Shape, Callback
<1>2. Tail(answered[k]) \in Seq(Replies)
  BY <1>1
<1>3. answered' \in [Keys -> Seq(Replies)]
  BY <1>1, <1>2
<1>4. answered[k][1].op = op /\ 1 \in DOMAIN answered[k]
  BY <1>1
<1>5. InReply(op, k) \in Nat /\ InReply(op, k) # 0 /\ InSent(op, k) \in Nat
  BY <1>4, Counts_Nat
<1>6. Takes(op, k)
  <2> SUFFICES ASSUME NEW v \in Ops, NEW j \in Keys
               PROVE  InReply(v, j)' = IF v = op /\ j = k THEN InReply(v, j) - 1 ELSE InReply(v, j)
    BY DEF Takes
  <2>1. CASE j = k
    <3>1. answered'[j] = Tail(answered[k])
      BY <1>1, <2>1
    <3>2. Head(answered[k]) \in [op : {v}, ok : BOOLEAN] <=> v = op
      BY <1>1
    <3>3. Count(Tail(answered[k]), [op : {v}, ok : BOOLEAN])
            = IF Head(answered[k]) \in [op : {v}, ok : BOOLEAN]
              THEN Count(answered[k], [op : {v}, ok : BOOLEAN]) - 1
              ELSE Count(answered[k], [op : {v}, ok : BOOLEAN])
      BY <1>1, CountTail
    <3> QED
      BY <2>1, <3>1, <3>2, <3>3 DEF InReply
  <2>2. CASE j # k
    <3>1. answered'[j] = answered[j]
      BY <1>1, <2>2
    <3> QED
      BY <2>2, <3>1 DEF InReply
  <2> QED
    BY <2>1, <2>2
<1> QED
  BY <1>3, <1>5, <1>6 DEF Inflight

\* A request goes to the end of the queue of each of its keys.
LEMMA RequestEffect ==
  ASSUME Shape, NEW op \in Ops, NEW keys \in SUBSET Keys, sent' = Request(op, keys)
  PROVE  /\ sent' \in [Keys -> Seq(Ops)]
         /\ Sends(op, keys, 1)
<1>1. sent \in [Keys -> Seq(Ops)]
  BY DEF Shape
<1>2. \A j \in Keys : sent'[j] = IF j \in keys THEN Append(sent[j], op) ELSE sent[j]
  BY DEF Request
<1>3. \A j \in Keys : sent[j] \in Seq(Ops) /\ Append(sent[j], op) \in Seq(Ops)
  BY <1>1
<1>4. sent' \in [Keys -> Seq(Ops)]
  BY <1>3 DEF Request
<1>5. ASSUME NEW v \in Ops, NEW j \in Keys
      PROVE  InSent(v, j)' = IF v = op /\ j \in keys THEN InSent(v, j) + 1 ELSE InSent(v, j)
  <2>1. CASE j \in keys
    <3>1. Count(Append(sent[j], op), {v}) = IF op \in {v} THEN Count(sent[j], {v}) + 1 ELSE Count(sent[j], {v})
      BY <1>3, CountAppend
    <3> QED
      BY <1>2, <2>1, <3>1 DEF InSent
  <2>2. CASE j \notin keys
    BY <1>2, <2>2 DEF InSent
  <2> QED
    BY <2>1, <2>2
<1> QED
  BY <1>4, <1>5 DEF Sends

\* A window is opsGroup requests for test0.
LEMMA StartEffect ==
  ASSUME Shape, NEW op \in Ops, StartWindow(op)
  PROVE  /\ sent' \in [Keys -> Seq(Ops)]
         /\ Sends(op, {0}, opsGroup)
<1>1. sent \in [Keys -> Seq(Ops)] /\ 0 \in Keys /\ sent[0] \in Seq(Ops) /\ opsGroup \in Nat
  BY OpsGroupAssumption, TotalDocsAssumption DEF Shape, Keys
<1>2. sent' = [sent EXCEPT ![0] = sent[0] \o [i \in 1 .. opsGroup |-> op]]
  BY DEF StartWindow
<1>3. \A S : /\ sent[0] \o [i \in 1 .. opsGroup |-> op] \in Seq(Ops)
             /\ Count(sent[0] \o [i \in 1 .. opsGroup |-> op], S)
                  = IF op \in S THEN Count(sent[0], S) + opsGroup ELSE Count(sent[0], S)
  BY <1>1, CountExtend
<1>4. sent' \in [Keys -> Seq(Ops)]
  BY <1>1, <1>2, <1>3
<1>5. ASSUME NEW v \in Ops, NEW j \in Keys
      PROVE  InSent(v, j)' = IF v = op /\ j \in {0} THEN InSent(v, j) + opsGroup ELSE InSent(v, j)
  <2>1. CASE j = 0
    <3>1. sent'[j] = sent[0] \o [i \in 1 .. opsGroup |-> op]
      BY <1>1, <1>2, <2>1
    <3> QED
      BY <1>3, <2>1, <3>1 DEF InSent
  <2>2. CASE j # 0
    <3>1. sent'[j] = sent[j]
      BY <1>1, <1>2, <2>2
    <3> QED
      BY <2>2, <3>1 DEF InSent
  <2> QED
    BY <2>1, <2>2
<1> QED
  BY <1>4, <1>5 DEF Sends

\* A request that is served becomes a reply: nothing enters or leaves the flight.
LEMMA ServeEffect ==
  ASSUME Shape, NEW k \in Keys, Serve(k)
  PROVE  /\ Head(sent[k]) \in Ops
         /\ sent' \in [Keys -> Seq(Ops)]
         /\ answered' \in [Keys -> Seq(Replies)]
         /\ InSent(Head(sent[k]), k) >= 1
         /\ \A v \in Ops, j \in Keys :
              /\ InSent(v, j)' = IF v = Head(sent[k]) /\ j = k THEN InSent(v, j) - 1 ELSE InSent(v, j)
              /\ Inflight(v, j)' = Inflight(v, j)
<1> DEFINE op == Head(sent[k])
<1>1. /\ sent \in [Keys -> Seq(Ops)] /\ sent[k] \in Seq(Ops) /\ sent[k] # <<>>
      /\ sent' = [sent EXCEPT ![k] = Tail(@)]
      /\ answered \in [Keys -> Seq(Replies)]
  BY DEF Shape, Serve
<1>2. PICK ok \in BOOLEAN : answered' = [answered EXCEPT ![k] = Append(@, [op |-> op, ok |-> ok])]
  <2>1. op \in Ops
    BY <1>1
  <2>2. op \in {"preload", "get", "update", "multi"}
    BY <2>1 DEF Ops, Windows
  <2> HIDE DEF op
  <2>3. Executes(k, op) \in BOOLEAN
    <3>1. CASE op = "preload"
      BY <3>1 DEF Executes
    <3>2. CASE op \in {"get", "multi", "update"}
      BY <3>2 DEF Executes
    <3> QED
      BY <2>2, <3>1, <3>2
  <2> QED
    BY <2>3 DEF Serve, op
<1>3. op \in Ops /\ Tail(sent[k]) \in Seq(Ops) /\ sent[k][1] = op /\ 1 \in DOMAIN sent[k]
  BY <1>1
<1>4. InSent(op, k) \in Nat /\ InSent(op, k) # 0
  BY <1>3, Counts_Nat
<1>5. [op |-> op, ok |-> ok] \in Replies
  BY <1>3 DEF Replies, Ops
<1>6. sent' \in [Keys -> Seq(Ops)]
  BY <1>1, <1>3
<1>7. answered' \in [Keys -> Seq(Replies)]
  BY <1>1, <1>2, <1>5
<1>8. ASSUME NEW v \in Ops, NEW j \in Keys
      PROVE  /\ InSent(v, j)' = IF v = op /\ j = k THEN InSent(v, j) - 1 ELSE InSent(v, j)
             /\ Inflight(v, j)' = Inflight(v, j)
  <2>1. InSent(v, j) \in Nat /\ InReply(v, j) \in Nat
    BY Counts_Nat
  <2>2. CASE j = k
    <3>1. sent'[j] = Tail(sent[k]) /\ answered'[j] = Append(answered[k], [op |-> op, ok |-> ok])
      BY <1>1, <1>2, <2>2
    <3>2. Count(Tail(sent[k]), {v}) = IF op \in {v} THEN Count(sent[k], {v}) - 1 ELSE Count(sent[k], {v})
      BY <1>1, CountTail
    <3>3. Count(Append(answered[k], [op |-> op, ok |-> ok]), [op : {v}, ok : BOOLEAN])
            = IF [op |-> op, ok |-> ok] \in [op : {v}, ok : BOOLEAN]
              THEN Count(answered[k], [op : {v}, ok : BOOLEAN]) + 1
              ELSE Count(answered[k], [op : {v}, ok : BOOLEAN])
      <4>1. answered[k] \in Seq(Replies)
        BY <1>1
      <4>2. \A S, r : r \in Replies =>
              Count(Append(answered[k], r), S) = IF r \in S THEN Count(answered[k], S) + 1 ELSE Count(answered[k], S)
        BY <4>1, CountAppend
      <4> QED
        BY <1>5, <4>2
    <3>4. [op |-> op, ok |-> ok] \in [op : {v}, ok : BOOLEAN] <=> v = op
      OBVIOUS
    <3>5. InSent(v, j)' = IF v = op THEN InSent(v, j) - 1 ELSE InSent(v, j)
      BY <2>2, <3>1, <3>2 DEF InSent
    <3>6. InReply(v, j)' = IF v = op THEN InReply(v, j) + 1 ELSE InReply(v, j)
      BY <2>2, <3>1, <3>3, <3>4 DEF InReply
    <3>7. Inflight(v, j)' = InSent(v, j)' + InReply(v, j)'
      BY DEF Inflight
    <3> QED
      BY <2>1, <2>2, <3>5, <3>6, <3>7 DEF Inflight
  <2>3. CASE j # k
    <3>1. sent'[j] = sent[j] /\ answered'[j] = answered[j]
      BY <1>1, <1>2, <2>3
    <3> QED
      BY <2>3, <3>1 DEF InSent, InReply, Inflight
  <2> QED
    BY <2>2, <2>3
<1> QED
  BY <1>3, <1>4, <1>6, <1>7, <1>8

\* What the request does to the document, if anything.
LEMMA ServeRev ==
  ASSUME Shape, NEW k \in Keys, Serve(k)
  PROVE  \/ rev' = rev
         \/ Head(sent[k]) = "preload" /\ rev' = [rev EXCEPT ![k] = 0]
         \/ Head(sent[k]) = "update" /\ rev[k] # Absent /\ rev' = [rev EXCEPT ![k] = @ + 1]
<1> DEFINE op == Head(sent[k])
<1>1. Effect(k, op) \/ UNCHANGED rev
  BY DEF Serve
<1> HIDE DEF op
<1>2. SUFFICES ASSUME Effect(k, op)
               PROVE  \/ rev' = rev
                      \/ op = "preload" /\ rev' = [rev EXCEPT ![k] = 0]
                      \/ op = "update" /\ rev[k] # Absent /\ rev' = [rev EXCEPT ![k] = @ + 1]
  BY <1>1 DEF op
<1>3. CASE op = "preload"
  BY <1>2, <1>3 DEF Effect
<1>4. CASE op = "update" /\ rev[k] # Absent
  BY <1>2, <1>4 DEF Effect
<1>5. CASE op # "preload" /\ ~ (op = "update" /\ rev[k] # Absent)
  BY <1>2, <1>5 DEF Effect
<1> QED
  BY <1>3, <1>4, <1>5

\* Without a failure the reply tells what the server did.
LEMMA ServeReply ==
  ASSUME Shape, NEW k \in Keys, Serve(k)
  PROVE  \E ok \in BOOLEAN :
           /\ answered' = [answered EXCEPT ![k] = Append(@, [op |-> Head(sent[k]), ok |-> ok])]
           /\ ok => /\ Executes(k, Head(sent[k]))
                    /\ Effect(k, Head(sent[k]))
           /\ faults' = 0 => faults = 0 /\ Effect(k, Head(sent[k])) /\ ok = Executes(k, Head(sent[k]))
<1> DEFINE op == Head(sent[k])
<1>1. op \in {"preload", "get", "update", "multi"}
  <2>1. sent[k] \in Seq(Ops) /\ sent[k] # <<>>
    BY DEF Shape, Serve
  <2>2. op \in Ops
    BY <2>1
  <2> QED
    BY <2>2 DEF Ops, Windows
<1>2. faults \in Nat
  BY DEF Shape
<1> HIDE DEF op
<1>3. Executes(k, op) \in BOOLEAN
  <2>1. CASE op = "preload"
    BY <2>1 DEF Executes
  <2>2. CASE op \in {"get", "multi", "update"}
    BY <2>2 DEF Executes
  <2> QED
    BY <1>1, <2>1, <2>2
<1>4. CASE /\ answered' = [answered EXCEPT ![k] = Append(@, [op |-> op, ok |-> Executes(k, op)])]
           /\ Effect(k, op)
           /\ UNCHANGED faults
  BY <1>3, <1>4 DEF op
<1>5. CASE /\ faults' = faults + 1
           /\ answered' = [answered EXCEPT ![k] = Append(@, [op |-> op, ok |-> FALSE])]
  <2>1. faults' # 0
    BY <1>2, <1>5
  <2> WITNESS FALSE \in BOOLEAN
  <2> QED
    BY <1>5, <2>1 DEF op
<1> QED
  BY <1>4, <1>5 DEF Serve, op

\* A callback that sends nothing, and one that sends.
LEMMA FlightTaken ==
  ASSUME Shape, NEW op \in Ops, NEW k \in Keys, Takes(op, k), UNCHANGED sent
  PROVE  \A v \in Ops, j \in Keys :
           /\ InSent(v, j)' = InSent(v, j)
           /\ Inflight(v, j)' = IF v = op /\ j = k THEN Inflight(v, j) - 1 ELSE Inflight(v, j)
<1> SUFFICES ASSUME NEW v \in Ops, NEW j \in Keys
             PROVE  /\ InSent(v, j)' = InSent(v, j)
                    /\ Inflight(v, j)' = IF v = op /\ j = k THEN Inflight(v, j) - 1 ELSE Inflight(v, j)
  OBVIOUS
<1>1. InSent(v, j)' = InSent(v, j)
  BY DEF InSent
<1>2. InReply(v, j)' = IF v = op /\ j = k THEN InReply(v, j) - 1 ELSE InReply(v, j)
  BY DEF Takes
<1>3. InSent(v, j) \in Nat /\ InReply(v, j) \in Nat
  BY Counts_Nat
<1>4. Inflight(v, j)' = InSent(v, j)' + InReply(v, j)'
  BY DEF Inflight
<1> QED
  BY <1>1, <1>2, <1>3, <1>4 DEF Inflight

\* A callback that sends the next request of its phase.
LEMMA FlightSent ==
  ASSUME Shape, NEW op \in Ops, NEW k \in Keys, Takes(op, k),
         NEW new \in Ops, NEW keys, NEW n \in Nat, Sends(new, keys, n),
         NEW v \in Ops, NEW j \in Keys
  PROVE  Inflight(v, j)' = Inflight(v, j) - (IF v = op /\ j = k THEN 1 ELSE 0)
                                          + (IF v = new /\ j \in keys THEN n ELSE 0)
<1>1. InSent(v, j)' = IF v = new /\ j \in keys THEN InSent(v, j) + n ELSE InSent(v, j)
  BY DEF Sends
<1>2. InReply(v, j)' = IF v = op /\ j = k THEN InReply(v, j) - 1 ELSE InReply(v, j)
  BY DEF Takes
<1>3. InSent(v, j) \in Nat /\ InReply(v, j) \in Nat
  BY Counts_Nat
<1>4. Inflight(v, j)' = InSent(v, j)' + InReply(v, j)'
  BY DEF Inflight
<1> QED
  BY <1>1, <1>2, <1>3, <1>4 DEF Inflight

\* A count that stays within the documents finds the phase still on, and the
\* other way round.
LEMMA ResultFacts ==
  ASSUME Shape, FlagTells, NEW w \in Windows
  PROVE  /\ LastResult(w) => ~ runFlag[w] /\ completed[w] + 1 = totalDocs
         /\ ~ LastResult(w) /\ Counts(w) <= totalDocs => ~ runFlag[w] /\ completed[w] + 1 < totalDocs
         /\ Counts(w) > totalDocs => runFlag[w] /\ completed[w] >= totalDocs
<1>1. completed[w] \in Nat /\ totalDocs \in Nat /\ (runFlag[w] <=> completed[w] >= totalDocs)
  BY TotalDocsAssumption DEF Shape, FlagTells
<1> QED
  BY <1>1 DEF LastResult, Counts
-----------------------------------------------------------------------------
(* The counting invariant under one window's result or error. *)

\* Gone is a set of documents.
LEMMA GoneIsFinite ==
  ASSUME Shape, NEW w \in Windows
  PROVE  /\ IsFiniteSet(Gone(w)) /\ Cardinality(Gone(w)) \in Nat
         /\ Cardinality(Gone(w)) <= completed[w] /\ Cardinality(Gone(w)) <= totalDocs - 1
<1>1. totalDocs \in Nat \ {0} /\ completed[w] \in Nat
  BY TotalDocsAssumption DEF Shape
<1>2. Gone(w) \subseteq 1 .. totalDocs - 1 /\ Gone(w) \subseteq 1 .. completed[w]
  BY <1>1 DEF Gone
<1>3. IsFiniteSet(1 .. totalDocs - 1) /\ Cardinality(1 .. totalDocs - 1) = totalDocs - 1
  <2>1. 1 \in Int /\ totalDocs - 1 \in Int
    BY <1>1
  <2>2. /\ IsFiniteSet(1 .. totalDocs - 1)
        /\ Cardinality(1 .. totalDocs - 1) = IF 1 > totalDocs - 1 THEN 0 ELSE (totalDocs - 1) - 1 + 1
    BY <2>1, FS_Interval
  <2> QED
    BY <1>1, <2>2
<1>4. IsFiniteSet(1 .. completed[w]) /\ Cardinality(1 .. completed[w]) = completed[w]
  BY <1>1, FS_Interval
<1>5. IsFiniteSet(Gone(w)) /\ Cardinality(Gone(w)) <= totalDocs - 1
  BY <1>2, <1>3, FS_Subset
<1>6. Cardinality(Gone(w)) <= completed[w]
  BY <1>2, <1>4, FS_Subset
<1> QED
  BY <1>5, <1>6, FS_CardinalityType

\* A result or an error of a request takes it out of the flight.  Requests for
\* documents the count had not reached may be new.
LEMMA BalanceTaken ==
  ASSUME Shape, OnceEach, NEW w \in Windows, BalanceOf(w), Shape',
         NEW k \in Keys, Inflight(w, k) >= 1, Inflight(w, k)' = Inflight(w, k) - 1,
         completed'[w] >= completed[w], completed'[w] + errors'[w] = completed[w] + errors[w] + 1,
         \A j \in Keys : j <= completed[w] /\ j # k => Inflight(w, j)' = Inflight(w, j)
  PROVE  BalanceOf(w)'
<1>1. /\ completed[w] \in Nat /\ errors[w] \in Nat /\ completed'[w] \in Nat /\ errors'[w] \in Nat
      /\ totalDocs \in Nat /\ totalDocs >= 1 /\ opsGroup \in Nat
  BY TotalDocsAssumption, OpsGroupAssumption DEF Shape
<1>2. 0 \in Keys /\ \A j \in 1 .. totalDocs - 1 : j \in Keys \ {0}
  BY <1>1 DEF Keys
<1>3. Inflight(w, 0) \in Nat /\ Inflight(w, k) \in Nat
  BY <1>2, Counts_Nat DEF Ops
<1>4. IsFiniteSet(Gone(w)) /\ Cardinality(Gone(w)) \in Nat
  BY GoneIsFinite
<1>5. Gone(w)' = {j \in 1 .. totalDocs - 1 : j <= completed'[w] /\ Inflight(w, j)' = 0}
  BY DEF Gone
<1>6. IsFiniteSet(Gone(w)') /\ Cardinality(Gone(w)') \in Nat
  <2>1. IsFiniteSet(1 .. totalDocs - 1)
    BY <1>1, FS_Interval
  <2>2. IsFiniteSet(Gone(w)')
    BY <1>5, <2>1, FS_Subset
  <2> QED
    BY <2>2, FS_CardinalityType
<1>7. \A j \in Gone(w) : j # k
  BY <1>1, <1>3 DEF Gone
<1>8. Gone(w) \subseteq Gone(w)'
  <2> SUFFICES ASSUME NEW j \in Gone(w) PROVE j \in Gone(w)'
    OBVIOUS
  <2>1. j \in 1 .. totalDocs - 1 /\ j <= completed[w] /\ Inflight(w, j) = 0 /\ j # k
    BY <1>7 DEF Gone
  <2>2. Inflight(w, j)' = 0
    BY <1>2, <2>1
  <2>3. j <= completed'[w]
    BY <1>1, <2>1
  <2> QED
    BY <1>5, <2>1, <2>2, <2>3
<1>9. SUFFICES completed'[w] + errors'[w] + Inflight(w, 0)' <= Cardinality(Gone(w)') + opsGroup
  BY DEF BalanceOf
<1>10. completed[w] + errors[w] + Inflight(w, 0) <= Cardinality(Gone(w)) + opsGroup
  BY DEF BalanceOf
<1>11. CASE k = 0
  <2>1. Cardinality(Gone(w)) <= Cardinality(Gone(w)')
    BY <1>6, <1>8, FS_Subset
  <2>2. Inflight(w, 0)' = Inflight(w, 0) - 1
    BY <1>11
  <2> QED
    BY <1>1, <1>3, <1>4, <1>6, <1>10, <2>1, <2>2
<1>12. CASE k # 0
  <2>1. k \in Keys \ {0} /\ Inflight(w, k) = 1 /\ k <= completed[w] /\ k < totalDocs
    BY <1>3, <1>12 DEF OnceEach
  <2>2. k \in 1 .. totalDocs - 1
    BY <1>1, <2>1 DEF Keys
  <2>3. k \in Gone(w)' /\ k \notin Gone(w)
    BY <1>1, <1>5, <1>7, <2>1, <2>2
  <2>4. Cardinality(Gone(w) \cup {k}) = Cardinality(Gone(w)) + 1
    BY <1>4, <2>3, FS_AddElement
  <2>5. Cardinality(Gone(w) \cup {k}) <= Cardinality(Gone(w)')
    BY <1>6, <1>8, <2>3, FS_Subset
  <2>6. Inflight(w, 0)' = Inflight(w, 0)
    BY <1>1, <1>2, <1>12
  <2> QED
    BY <1>1, <1>3, <1>4, <1>6, <1>10, <2>4, <2>5, <2>6
<1> QED
  BY <1>11, <1>12

\* Nothing of the window changes.
LEMMA BalanceSame ==
  ASSUME NEW w \in Windows, BalanceOf(w), completed'[w] = completed[w], errors'[w] = errors[w],
         \A j \in Keys : Inflight(w, j)' = Inflight(w, j)
  PROVE  BalanceOf(w)'
<1>1. 0 \in Keys /\ \A j \in 1 .. totalDocs - 1 : j \in Keys
  BY TotalDocsAssumption DEF Keys
<1>2. Gone(w)' = Gone(w)
  BY <1>1 DEF Gone
<1> QED
  BY <1>1, <1>2 DEF BalanceOf

\* The window is opened.
LEMMA BalanceStart ==
  ASSUME Shape, NEW w \in Windows, Idle(w), Shape', completed'[w] = completed[w], errors'[w] = errors[w],
         Inflight(w, 0)' = Inflight(w, 0) + opsGroup
  PROVE  BalanceOf(w)'
<1>1. 0 \in Keys /\ opsGroup \in Nat
  BY TotalDocsAssumption, OpsGroupAssumption DEF Keys
<1>2. completed'[w] = 0 /\ errors'[w] = 0 /\ Inflight(w, 0)' = opsGroup
  BY <1>1 DEF Idle
<1>3. Cardinality(Gone(w)') \in Nat
  <2>1. Gone(w)' = {}
    BY <1>2, TotalDocsAssumption DEF Gone
  <2> QED
    BY <2>1, FS_EmptySet
<1> QED
  BY <1>1, <1>2, <1>3 DEF BalanceOf
-----------------------------------------------------------------------------
(* The server's step keeps the invariant. *)

\* The server answers a request.
LEMMA ServeKeeps ==
  ASSUME IInv, NEW k \in Keys, Serve(k)
  PROVE  IInv'
<1> DEFINE op == Head(sent[k])
<1>1. /\ UNCHANGED <<phase, completed, runFlag, errors, array, multi>>
      /\ sent' = [sent EXCEPT ![k] = Tail(@)]
      /\ sent[k] # <<>>
  BY DEF Serve
<1>2. /\ Shape /\ FlagTells /\ ArrayFollows /\ PhasesFollow /\ NothingEarly /\ PreloadsFirst
      /\ OnceEach /\ Balance /\ RevBounded /\ ResultsShow /\ ResultsCounted /\ MultiFinds
  BY DEF IInv
<1>3. /\ op \in Ops
      /\ sent' \in [Keys -> Seq(Ops)] /\ answered' \in [Keys -> Seq(Replies)]
      /\ InSent(op, k) >= 1
      /\ \A v \in Ops, j \in Keys :
           /\ InSent(v, j)' = IF v = op /\ j = k THEN InSent(v, j) - 1 ELSE InSent(v, j)
           /\ Inflight(v, j)' = Inflight(v, j)
  BY <1>2, ServeEffect
<1>4. \/ rev' = rev
      \/ op = "preload" /\ rev' = [rev EXCEPT ![k] = 0]
      \/ op = "update" /\ rev[k] # Absent /\ rev' = [rev EXCEPT ![k] = @ + 1]
  BY <1>2, ServeRev
<1>5. PICK ok \in BOOLEAN :
        /\ answered' = [answered EXCEPT ![k] = Append(@, [op |-> op, ok |-> ok])]
        /\ ok => Executes(k, op) /\ Effect(k, op)
        /\ faults' = 0 => faults = 0 /\ Effect(k, op) /\ ok = Executes(k, op)
  BY <1>2, ServeReply
<1>6. /\ rev \in [Keys -> Nat \cup {Absent}] /\ sent[k] \in Seq(Ops) /\ answered[k] \in Seq(Replies)
      /\ sent \in [Keys -> Seq(Ops)] /\ answered \in [Keys -> Seq(Replies)] /\ Absent = -1
      /\ opsGroup \in Nat \ {0} /\ totalDocs \in Nat \ {0}
  BY <1>2, OpsGroupAssumption, TotalDocsAssumption DEF Shape, Absent
<1>7. \A v \in Ops, j \in Keys : InSent(v, j) \in Nat /\ InReply(v, j) \in Nat /\ Inflight(v, j) \in Nat
  BY <1>2, Counts_Nat
<1>8. /\ DOMAIN Tail(sent[k]) = 1 .. (Len(sent[k]) - 1)
      /\ \A i \in 1 .. (Len(sent[k]) - 1) : Tail(sent[k])[i] = sent[k][i + 1]
      /\ Len(sent[k]) \in Nat /\ DOMAIN sent[k] = 1 .. Len(sent[k]) /\ Len(sent[k]) >= 1
      /\ op = sent[k][1]
  BY <1>1, <1>6
<1> HIDE DEF op
<1>9. "preload" \in Ops /\ "update" \in Ops /\ "multi" \in Ops /\ Windows \subseteq Ops
      /\ \A w \in Windows : w \in {"preload", "get", "update"}
  BY DEF Ops, Windows
<1>10. rev' \in [Keys -> Nat \cup {Absent}]
  BY <1>4, <1>6
<1>11. op = "preload" => rev[k] < 1
  <2>1. rev[k] >= 1 => InSent("preload", k) = 0
    BY <1>2 DEF PreloadsFirst
  <2>2. rev[k] \in Nat \cup {Absent}
    BY <1>6
  <2> QED
    BY <1>3, <1>6, <2>1, <2>2
<1>12. \A j \in Keys : /\ rev[j] >= 1 => rev'[j] >= 1
                       /\ rev[j] # Absent => rev'[j] # Absent
                       /\ rev'[j] >= 1 => rev[j] >= 1 \/ (j = k /\ op = "update")
                       /\ rev'[j] = rev[j] \/ (rev'[j] = 0 /\ j = k /\ op = "preload")
                            \/ (rev'[j] = rev[j] + 1 /\ j = k /\ op = "update" /\ rev[j] \in Nat)
  BY <1>4, <1>6, <1>11
<1>13. Shape'
  <2>1. faults' \in 0 .. MaxFaults
    BY <1>2, MaxFaultsAssumption DEF Shape, Serve
  <2> QED
    BY <1>1, <1>2, <1>3, <1>10, <2>1 DEF Shape
<1>14. FlagTells' /\ ArrayFollows' /\ PhasesFollow'
  BY <1>1, <1>2 DEF FlagTells, ArrayFollows, PhasesFollow
<1>15. NothingEarly'
  <2>1. \A w \in Windows : Idle(w) => Idle(w)'
    BY <1>1, <1>3, <1>9 DEF Idle
  <2>2. ~ runFlag["preload"] => \A j \in Keys : Inflight("multi", j)' = 0
    BY <1>2, <1>3, <1>9 DEF NothingEarly
  <2>3. ~ runFlag["get"] => \A j \in Keys : rev'[j] <= 0
    <3> SUFFICES ASSUME ~ runFlag["get"], NEW j \in Keys PROVE rev'[j] <= 0
      OBVIOUS
    <3>1. Inflight("update", k) = 0 /\ rev[j] <= 0
      BY <1>2 DEF NothingEarly, Idle
    <3>2. op # "update"
      BY <1>3, <1>7, <3>1 DEF Inflight
    <3> QED
      BY <1>12, <3>1, <3>2
  <2> QED
    BY <1>1, <1>2, <2>1, <2>2, <2>3 DEF NothingEarly, Windows
<1>16. PreloadsFirst'
  <2> SUFFICES ASSUME NEW j \in Keys
               PROVE  /\ \A a, b \in DOMAIN sent'[j] : a < b /\ sent'[j][b] = "preload" => sent'[j][a] = "preload"
                      /\ rev'[j] >= 1 => InSent("preload", j)' = 0
    BY DEF PreloadsFirst
  <2>1. \A i, b \in DOMAIN sent[j] : i < b /\ sent[j][b] = "preload" => sent[j][i] = "preload"
    BY <1>2 DEF PreloadsFirst
  <2>2. rev[j] >= 1 => InSent("preload", j) = 0
    BY <1>2 DEF PreloadsFirst
  <2>3. CASE j # k
    <3>1. sent'[j] = sent[j]
      BY <1>1, <1>6, <2>3
    <3>2. InSent("preload", j)' = InSent("preload", j) /\ rev'[j] = rev[j]
      BY <1>3, <1>9, <1>12, <2>3
    <3> QED
      BY <2>1, <2>2, <3>1, <3>2
  <2>4. CASE j = k
    <3>1. sent'[j] = Tail(sent[k])
      BY <1>1, <1>6, <2>4
    <3>2. ASSUME NEW a \in DOMAIN sent'[j], NEW b \in DOMAIN sent'[j], a < b, sent'[j][b] = "preload"
          PROVE  sent'[j][a] = "preload"
      <4>1. /\ a + 1 \in DOMAIN sent[k] /\ b + 1 \in DOMAIN sent[k] /\ a + 1 < b + 1
            /\ sent'[j][a] = sent[k][a + 1] /\ sent'[j][b] = sent[k][b + 1]
        BY <1>8, <3>1, <3>2
      <4> QED
        BY <2>1, <2>4, <3>2, <4>1
    <3>3. ASSUME rev'[j] >= 1 PROVE InSent("preload", j)' = 0
      <4>1. CASE rev[j] >= 1
        <5>1. InSent("preload", j) = 0
          BY <2>2, <4>1
        <5>2. op # "preload"
          BY <1>3, <2>4, <5>1
        <5> QED
          BY <1>3, <1>9, <5>1, <5>2
      <4>2. CASE ~ (rev[j] >= 1)
        <5>1. op = "update"
          BY <1>12, <3>3, <4>2
        <5>2. \A i \in DOMAIN sent[k] : sent[k][i] # "preload"
          <6> SUFFICES ASSUME NEW i \in DOMAIN sent[k], sent[k][i] = "preload" PROVE FALSE
            OBVIOUS
          <6>1. 1 \in DOMAIN sent[k] /\ sent[k][1] = "update"
            BY <1>8, <5>1
          <6>2. i # 1
            BY <6>1
          <6>3. 1 < i
            BY <1>8, <6>2
          <6>4. sent[k][1] = "preload"
            BY <2>1, <2>4, <6>1, <6>3
          <6> QED
            BY <6>1, <6>4
        <5>3. InSent("preload", k) = 0
          BY <1>2, <1>9, <5>2, Counts_Nat
        <5> QED
          BY <1>3, <1>9, <2>4, <5>1, <5>3
      <4> QED
        BY <4>1, <4>2
    <3> QED
      BY <3>2, <3>3
  <2> QED
    BY <2>3, <2>4
<1>17. OnceEach'
  <2> SUFFICES ASSUME NEW j \in Keys \ {0}
               PROVE  /\ \A w \in Windows : /\ Inflight(w, j)' <= 1
                                            /\ Inflight(w, j)' > 0 => j <= completed'[w] /\ j < totalDocs
                      /\ rev'[j] >= 1 => j <= completed'["update"]
    BY DEF OnceEach
  <2>1. \A w \in Windows : /\ Inflight(w, j) <= 1
                           /\ Inflight(w, j) > 0 => j <= completed[w] /\ j < totalDocs
    BY <1>2 DEF OnceEach
  <2>2. \A w \in Windows : Inflight(w, j)' = Inflight(w, j)
    BY <1>3, <1>9
  <2>3. ASSUME rev'[j] >= 1 PROVE j <= completed["update"]
    <3>1. CASE rev[j] >= 1
      BY <1>2, <3>1 DEF OnceEach
    <3>2. CASE j = k /\ op = "update"
      <4>1. Inflight("update", j) > 0
        BY <1>3, <1>7, <1>9, <3>2 DEF Inflight
      <4> QED
        BY <2>1, <4>1 DEF Windows
    <3> QED
      BY <1>12, <2>3, <3>1, <3>2
  <2> QED
    BY <1>1, <2>1, <2>2, <2>3
<1>18. Balance'
  <2>1. ASSUME NEW w \in Windows PROVE BalanceOf(w)'
    <3>1. \A j \in Keys : Inflight(w, j)' = Inflight(w, j)
      BY <1>3, <1>9
    <3>2. BalanceOf(w) /\ completed'[w] = completed[w] /\ errors'[w] = errors[w]
      BY <1>1, <1>2 DEF Balance
    <3> QED
      BY <3>1, <3>2, BalanceSame
  <2> QED
    BY <2>1 DEF Balance
<1>19. RevBounded'
  <2> SUFFICES ASSUME NEW j \in Keys
               PROVE  InSent("update", j)' <= Limit(j) /\ InSent("update", j)' + rev'[j] <= Limit(j)
    BY DEF RevBounded, Limit
  <2>1. /\ InSent("update", j) <= Limit(j) /\ InSent("update", j) + rev[j] <= Limit(j)
        /\ InSent("update", j) \in Nat /\ Limit(j) \in Nat /\ rev[j] \in Int
    <3>1. InSent("update", j) <= Limit(j) /\ InSent("update", j) + rev[j] <= Limit(j)
      BY <1>2 DEF RevBounded
    <3>2. InSent("update", j) \in Nat
      BY <1>7, <1>9
    <3>3. Limit(j) \in Nat
      BY <1>6 DEF Limit
    <3>4. rev[j] \in Nat \cup {Absent}
      BY <1>6
    <3> QED
      BY <1>6, <3>1, <3>2, <3>3, <3>4
  <2>2. InSent("update", j)' = IF "update" = op /\ j = k THEN InSent("update", j) - 1 ELSE InSent("update", j)
    BY <1>3, <1>9
  <2>3. \/ rev'[j] = rev[j]
        \/ rev'[j] = 0 /\ j = k /\ op = "preload"
        \/ rev'[j] = rev[j] + 1 /\ j = k /\ op = "update"
    BY <1>12
  <2> QED
    BY <2>1, <2>2, <2>3
<1>20. ResultsShow'
  <2> SUFFICES ASSUME NEW j \in Keys, NEW i \in DOMAIN answered'[j],
                      answered'[j][i] = [op |-> "update", ok |-> TRUE]
               PROVE  rev'[j] >= 1
    BY DEF ResultsShow
  <2>1. CASE j \in Keys /\ i \in DOMAIN answered[j] /\ answered'[j][i] = answered[j][i]
    BY <1>2, <1>12, <2>1 DEF ResultsShow
  <2>2. CASE j = k /\ answered'[j][i] = [op |-> op, ok |-> ok]
    <3>1. op = "update" /\ ok
      BY <2>2
    <3>2. Executes(k, op) /\ Effect(k, op)
      BY <1>5, <3>1
    <3>3. rev[k] # Absent
      BY <3>1, <3>2 DEF Executes
    <3>4. rev' = [rev EXCEPT ![k] = @ + 1]
      BY <3>1, <3>2, <3>3 DEF Effect
    <3> QED
      BY <1>6, <2>2, <3>3, <3>4
  <2> QED
    BY <1>5, <1>6, <2>1, <2>2
<1>21. ResultsCounted'
  <2>1. /\ 0 \in Keys /\ \A j \in 1 .. totalDocs - 1 : j \in Keys
    BY <1>6 DEF Keys
  <2>2. Updated \subseteq Updated'
    BY <1>3, <1>9, <1>12, <2>1 DEF Updated
  <2>3. IsFiniteSet(Updated') /\ IsFiniteSet(Updated)
    <3>1. IsFiniteSet(1 .. totalDocs - 1)
      BY <1>6, FS_Interval
    <3>2. Updated' \subseteq 1 .. totalDocs - 1 /\ Updated \subseteq 1 .. totalDocs - 1
      BY DEF Updated
    <3> QED
      BY <3>1, <3>2, FS_Subset
  <2>4. Cardinality(Updated) <= Cardinality(Updated') /\ Cardinality(Updated) \in Nat /\ Cardinality(Updated') \in Nat
    BY <2>2, <2>3, FS_Subset, FS_CardinalityType
  <2>5. Inflight("update", 0)' = Inflight("update", 0) /\ Inflight("update", 0) \in Nat
    BY <1>3, <1>7, <1>9, <2>1
  <2>6. completed["update"] \in Nat /\ errors["update"] \in Nat
    BY <1>2 DEF Shape, Windows
  <2>7. Inflight("update", 0) <= opsGroup
    <3>1. BalanceOf("update")
      BY <1>2 DEF Balance, Windows
    <3>2. Cardinality(Gone("update")) \in Nat /\ Cardinality(Gone("update")) <= completed["update"]
      BY <1>2, GoneIsFinite DEF Windows
    <3> QED
      BY <1>6, <2>5, <2>6, <3>1, <3>2 DEF BalanceOf
  <2>8. rev[0] >= 1 => rev'[0] >= 1
    BY <1>12, <2>1
  <2>9. completed["update"] <= Cardinality(Updated) + (IF rev[0] >= 1 THEN opsGroup - Inflight("update", 0) ELSE 0)
    BY <1>2 DEF ResultsCounted
  <2>10. completed["update"] <= Cardinality(Updated') + (IF rev'[0] >= 1 THEN opsGroup - Inflight("update", 0)' ELSE 0)
    <3>1. CASE rev[0] >= 1
      BY <1>6, <2>4, <2>5, <2>6, <2>8, <2>9, <3>1
    <3>2. CASE ~ (rev[0] >= 1)
      BY <1>6, <2>4, <2>5, <2>6, <2>7, <2>9, <3>2
    <3> QED
      BY <3>1, <3>2
  <2> QED
    BY <1>1, <2>10 DEF ResultsCounted
<1>22. MultiFinds'
  <2> SUFFICES ASSUME faults' = 0
               PROVE  /\ ~ multi'.failed
                      /\ \A j \in array' : rev'[j] # Absent \/ \E b \in DOMAIN sent'[j] : sent'[j][b] = "preload"
                      /\ \A j \in Keys : \A i \in DOMAIN sent'[j] :
                           sent'[j][i] = "multi" => rev'[j] # Absent \/ \E b \in 1 .. (i - 1) : sent'[j][b] = "preload"
                      /\ \A j \in Keys : \A i \in DOMAIN answered'[j] :
                           answered'[j][i].op = "multi" => answered'[j][i].ok
    BY DEF MultiFinds
  <2>1. /\ ~ multi.failed
        /\ \A j \in array : rev[j] # Absent \/ \E b \in DOMAIN sent[j] : sent[j][b] = "preload"
        /\ \A j \in Keys : \A i \in DOMAIN sent[j] :
             sent[j][i] = "multi" => rev[j] # Absent \/ \E b \in 1 .. (i - 1) : sent[j][b] = "preload"
        /\ \A j \in Keys : \A i \in DOMAIN answered[j] :
             answered[j][i].op = "multi" => answered[j][i].ok
    BY <1>2, <1>5 DEF MultiFinds
  <2>2. op = "preload" => rev'[k] # Absent
    <3> SUFFICES ASSUME op = "preload" PROVE rev'[k] # Absent
      OBVIOUS
    <3>1. rev' = [rev EXCEPT ![k] = 0]
      BY <1>5 DEF Effect
    <3> QED
      BY <1>6, <3>1
  <2>3. \A j \in Keys : j # k => sent'[j] = sent[j] /\ answered'[j] = answered[j]
    BY <1>1, <1>5, <1>6
  <2>4. sent'[k] = Tail(sent[k]) /\ answered'[k] = Append(answered[k], [op |-> op, ok |-> ok])
    BY <1>1, <1>5, <1>6
  <2>5. ASSUME NEW j \in array'
        PROVE  rev'[j] # Absent \/ \E b \in DOMAIN sent'[j] : sent'[j][b] = "preload"
    <3>1. j \in array /\ j \in Keys
      BY <1>1, <1>2 DEF Shape
    <3>2. CASE j # k
      BY <1>12, <2>1, <2>3, <3>1, <3>2
    <3>3. CASE j = k /\ op # "preload" /\ rev[j] = Absent
      <4>1. PICK b \in DOMAIN sent[k] : sent[k][b] = "preload"
        BY <2>1, <3>1, <3>3
      <4>2. b - 1 \in 1 .. (Len(sent[k]) - 1) /\ (b - 1) + 1 = b
        BY <1>8, <3>3, <4>1
      <4> QED
        BY <1>8, <2>4, <3>3, <4>1, <4>2
    <3> QED
      BY <1>12, <2>2, <3>1, <3>2, <3>3
  <2>6. ASSUME NEW j \in Keys, NEW i \in DOMAIN sent'[j], sent'[j][i] = "multi"
        PROVE  rev'[j] # Absent \/ \E b \in 1 .. (i - 1) : sent'[j][b] = "preload"
    <3>1. CASE j # k
      BY <1>12, <2>1, <2>3, <2>6, <3>1
    <3>2. CASE j = k /\ op # "preload" /\ rev[j] = Absent
      <4>1. i \in 1 .. (Len(sent[k]) - 1) /\ sent[k][i + 1] = "multi" /\ i + 1 \in DOMAIN sent[k] /\ (i + 1) - 1 = i
        <5>1. i \in DOMAIN Tail(sent[k]) /\ Tail(sent[k])[i] = "multi"
          BY <2>4, <2>6, <3>2
        <5>2. i \in 1 .. (Len(sent[k]) - 1)
          BY <1>8, <5>1
        <5>3. sent[k][i + 1] = "multi"
          BY <1>8, <5>1, <5>2
        <5> QED
          BY <1>8, <5>2, <5>3
      <4>2. PICK b \in 1 .. i : sent[k][b] = "preload"
        BY <2>1, <3>2, <4>1
      <4>3. b - 1 \in 1 .. (i - 1) /\ (b - 1) + 1 = b /\ b - 1 \in 1 .. (Len(sent[k]) - 1)
        BY <1>8, <3>2, <4>1, <4>2
      <4> QED
        BY <1>8, <2>4, <3>2, <4>2, <4>3
    <3> QED
      BY <1>12, <2>2, <3>1, <3>2
  <2>7. ASSUME NEW j \in Keys, NEW i \in DOMAIN answered'[j], answered'[j][i].op = "multi"
        PROVE  answered'[j][i].ok
    <3>1. CASE i \in DOMAIN answered[j] /\ answered'[j][i] = answered[j][i]
      BY <2>1, <2>7, <3>1
    <3>2. CASE j = k /\ answered'[j][i] = [op |-> op, ok |-> ok]
      <4>1. op = "multi"
        BY <2>7, <3>2
      <4>2. op = sent[k][1] /\ 1 \in DOMAIN sent[k]
        BY <1>8
      <4>3. rev[k] # Absent
        BY <2>1, <4>1, <4>2
      <4>4. Executes(k, op)
        BY <4>1, <4>3 DEF Executes
      <4> QED
        BY <1>5, <3>2, <4>4
    <3> QED
      BY <1>5, <1>6, <3>1, <3>2
  <2> QED
    BY <1>1, <2>1, <2>5, <2>6, <2>7
<1> QED
  BY <1>13, <1>14, <1>15, <1>16, <1>17, <1>18, <1>19, <1>20, <1>21, <1>22 DEF IInv
-----------------------------------------------------------------------------
(* Callbacks. *)

\* The reply was the first of its key; the others stay.
LEMMA RepliesLeft ==
  ASSUME Shape, NEW op, NEW ok, NEW k \in Keys, Callback(k, op, ok)
  PROVE  /\ 1 \in DOMAIN answered[k] /\ answered[k][1] = [op |-> op, ok |-> ok]
         /\ \A j \in Keys : \A i \in DOMAIN answered'[j] :
              \E b \in DOMAIN answered[j] : answered'[j][i] = answered[j][b]
<1>1. /\ answered \in [Keys -> Seq(Replies)] /\ answered[k] \in Seq(Replies) /\ answered[k] # <<>>
      /\ Head(answered[k]) = [op |-> op, ok |-> ok]
      /\ answered' = [answered EXCEPT ![k] = Tail(@)]
  BY DEF Shape, Callback
<1>2. ASSUME NEW j \in Keys, NEW i \in DOMAIN answered'[j]
      PROVE  \E b \in DOMAIN answered[j] : answered'[j][i] = answered[j][b]
  <2>1. CASE j = k
    <3>1. answered'[j] = Tail(answered[k])
      BY <1>1, <2>1
    <3>2. /\ DOMAIN Tail(answered[k]) = 1 .. (Len(answered[k]) - 1)
          /\ \A n \in 1 .. (Len(answered[k]) - 1) : Tail(answered[k])[n] = answered[k][n + 1]
      BY <1>1
    <3>3. Len(answered[k]) \in Nat /\ DOMAIN answered[k] = 1 .. Len(answered[k])
      BY <1>1
    <3>4. i \in 1 .. (Len(answered[k]) - 1)
      BY <1>2, <3>1, <3>2
    <3>5. i + 1 \in DOMAIN answered[k] /\ answered'[j][i] = answered[k][i + 1]
      BY <3>1, <3>2, <3>3, <3>4
    <3> QED
      BY <2>1, <3>5
  <2>2. CASE j # k
    <3>1. answered'[j] = answered[j]
      BY <1>1, <2>2
    <3> QED
      BY <1>2, <3>1
  <2> QED
    BY <2>1, <2>2
<1> QED
  BY <1>1, <1>2

\* A result of an update is that of a document not counted yet, or one more for
\* test0.
LEMMA CountedTaken ==
  ASSUME Shape, OnceEach, ResultsShow, ResultsCounted, Shape', UNCHANGED rev,
         NEW k \in Keys, NEW ok \in BOOLEAN, Callback(k, "update", ok),
         Inflight("update", k) >= 1, Inflight("update", k)' = Inflight("update", k) - 1,
         completed'["update"] = completed["update"] + (IF ok THEN 1 ELSE 0),
         \A j \in Keys : j <= completed["update"] /\ j # k => Inflight("update", j)' = Inflight("update", j)
  PROVE  ResultsCounted'
<1>1. /\ completed["update"] \in Nat /\ totalDocs \in Nat \ {0} /\ opsGroup \in Nat
      /\ rev \in [Keys -> Nat \cup {Absent}] /\ Absent = -1 /\ "update" \in Windows /\ "update" \in Ops
  BY TotalDocsAssumption, OpsGroupAssumption DEF Shape, Windows, Ops, Absent
<1>2. 0 \in Keys /\ \A j \in 1 .. totalDocs - 1 : j \in Keys \ {0}
  BY <1>1 DEF Keys
<1>3. Inflight("update", 0) \in Nat /\ Inflight("update", k) \in Nat
  BY <1>1, <1>2, Counts_Nat
<1>4. /\ IsFiniteSet(Updated) /\ Cardinality(Updated) \in Nat
      /\ IsFiniteSet(Updated') /\ Cardinality(Updated') \in Nat
  <2>1. IsFiniteSet(1 .. totalDocs - 1)
    BY <1>1, FS_Interval
  <2>2. Updated' \subseteq 1 .. totalDocs - 1 /\ Updated \subseteq 1 .. totalDocs - 1
    BY DEF Updated
  <2> QED
    BY <2>1, <2>2, FS_Subset, FS_CardinalityType
<1>5. Updated' = {j \in 1 .. totalDocs - 1 : rev[j] >= 1 /\ Inflight("update", j)' = 0}
  BY DEF Updated
<1>6. Updated \subseteq Updated' /\ k \notin Updated
  <2> SUFFICES ASSUME NEW j \in Updated PROVE j \in Updated' /\ j # k
    OBVIOUS
  <2>1. j \in 1 .. totalDocs - 1 /\ rev[j] >= 1 /\ Inflight("update", j) = 0
    BY DEF Updated
  <2>2. j # k /\ j \in Keys \ {0}
    BY <1>2, <2>1
  <2>3. j <= completed["update"]
    BY <2>1, <2>2 DEF OnceEach
  <2> QED
    BY <1>5, <2>1, <2>2, <2>3
<1>7. ok => rev[k] >= 1
  <2> SUFFICES ASSUME ok = TRUE PROVE rev[k] >= 1
    OBVIOUS
  <2>1. 1 \in DOMAIN answered[k] /\ answered[k][1] = [op |-> "update", ok |-> TRUE]
    BY RepliesLeft
  <2> QED
    BY <2>1 DEF ResultsShow
<1>8. completed["update"] <= Cardinality(Updated) + (IF rev[0] >= 1 THEN opsGroup - Inflight("update", 0) ELSE 0)
  BY DEF ResultsCounted
<1>9. Cardinality(Updated) <= Cardinality(Updated')
  BY <1>4, <1>6, FS_Subset
<1>10. SUFFICES completed'["update"] <= Cardinality(Updated')
                  + (IF rev[0] >= 1 THEN opsGroup - Inflight("update", 0)' ELSE 0)
  BY DEF ResultsCounted
<1>11. CASE k = 0
  <2>1. Inflight("update", 0)' = Inflight("update", 0) - 1
    BY <1>11
  <2>2. CASE rev[0] >= 1
    BY <1>1, <1>3, <1>4, <1>8, <1>9, <2>1, <2>2
  <2>3. CASE ~ (rev[0] >= 1)
    <3>1. completed'["update"] = completed["update"]
      BY <1>1, <1>7, <1>11, <2>3
    <3> QED
      BY <1>1, <1>4, <1>8, <1>9, <2>3, <3>1
  <2> QED
    BY <2>2, <2>3
<1>12. CASE k # 0
  <2>1. Inflight("update", 0)' = Inflight("update", 0)
    BY <1>1, <1>2, <1>12
  <2>2. CASE ~ ok
    BY <1>1, <1>3, <1>4, <1>8, <1>9, <2>1, <2>2
  <2>3. CASE ok
    <3>1. k \in Keys \ {0} /\ Inflight("update", k) = 1 /\ k < totalDocs
      BY <1>1, <1>3, <1>12 DEF OnceEach
    <3>2. k \in 1 .. totalDocs - 1
      BY <1>1, <3>1 DEF Keys
    <3>3. k \in Updated'
      BY <1>5, <1>7, <2>3, <3>1, <3>2
    <3>4. Cardinality(Updated \cup {k}) = Cardinality(Updated) + 1
      BY <1>4, <1>6, FS_AddElement
    <3>5. Cardinality(Updated \cup {k}) <= Cardinality(Updated')
      BY <1>4, <1>6, <3>3, FS_Subset
    <3> QED
      BY <1>1, <1>3, <1>4, <1>8, <2>1, <2>3, <3>4, <3>5
  <2> QED
    BY <2>2, <2>3
<1> QED
  BY <1>11, <1>12

\* Nothing that the updates and their results count changes.
LEMMA CountedSame ==
  ASSUME ResultsCounted, UNCHANGED rev, completed'["update"] = completed["update"],
         \A j \in Keys : Inflight("update", j)' = Inflight("update", j)
  PROVE  ResultsCounted'
<1>1. 0 \in Keys /\ \A j \in 1 .. totalDocs - 1 : j \in Keys
  BY TotalDocsAssumption DEF Keys
<1>2. Updated' = Updated
  BY <1>1 DEF Updated
<1> QED
  BY <1>1, <1>2 DEF ResultsCounted

\* A callback that issues nothing: a late result, an error, a reply to getMulti.
LEMMA QuietKeeps ==
  ASSUME IInv, NEW op \in Ops, NEW k \in Keys, NEW ok \in BOOLEAN, Callback(k, op, ok),
         UNCHANGED <<sent, array, runFlag>>,
         phase' = phase \/ (phase = "preload" /\ phase' = "exitErr"),
         multi' \in [left : SUBSET array, failed : BOOLEAN],
         multi'.failed => multi.failed \/ (op = "multi" /\ ~ ok),
         completed' \in [Windows -> Nat], errors' \in [Windows -> Nat],
         \A w \in Windows : w # op => completed'[w] = completed[w] /\ errors'[w] = errors[w],
         op \in Windows =>
           \/ ok /\ runFlag[op] /\ completed'[op] = completed[op] + 1 /\ errors'[op] = errors[op]
           \/ ~ ok /\ completed'[op] = completed[op] /\ errors'[op] = errors[op] + 1
  PROVE  IInv'
<1>1. /\ Shape /\ FlagTells /\ ArrayFollows /\ PhasesFollow /\ NothingEarly /\ PreloadsFirst
      /\ OnceEach /\ Balance /\ RevBounded /\ ResultsShow /\ ResultsCounted /\ MultiFinds
  BY DEF IInv
<1>2. /\ UNCHANGED <<rev, faults>> /\ phase \notin Ended
  BY DEF Callback
<1>3. /\ answered' \in [Keys -> Seq(Replies)]
      /\ Takes(op, k)
      /\ Inflight(op, k) >= 1
  BY <1>1, CallbackEffect
<1>4. \A v \in Ops, j \in Keys :
        /\ InSent(v, j)' = InSent(v, j)
        /\ Inflight(v, j)' = IF v = op /\ j = k THEN Inflight(v, j) - 1 ELSE Inflight(v, j)
  BY <1>1, <1>3, FlightTaken
<1>5. \A v \in Ops, j \in Keys : Inflight(v, j) \in Nat
  BY <1>1, Counts_Nat
<1>6. "preload" \in Ops /\ "update" \in Ops /\ "multi" \in Ops /\ Windows \subseteq Ops
      /\ Windows = {"preload", "get", "update"}
  BY DEF Ops, Windows
<1>7. /\ completed \in [Windows -> Nat] /\ errors \in [Windows -> Nat] /\ totalDocs \in Nat \ {0}
      /\ rev \in [Keys -> Nat \cup {Absent}] /\ Absent = -1
  BY <1>1, TotalDocsAssumption DEF Shape, Absent
<1>8. \A w \in Windows : completed'[w] >= completed[w]
                         /\ (completed'[w] # completed[w] => w = op /\ completed[w] >= totalDocs)
  BY <1>1, <1>7 DEF FlagTells
<1>9. Shape'
  <2>1. phase' \in Windows \cup {"multi"} \cup Ended
    BY <1>1, <1>6 DEF Shape, Ended
  <2> QED
    BY <1>1, <1>2, <1>3, <2>1 DEF Shape
<1>10. FlagTells'
  BY <1>1, <1>7, <1>8 DEF FlagTells
<1>11. ArrayFollows'
  <2>1. completed'["preload"] = completed["preload"]
        \/ (completed'["preload"] >= totalDocs /\ completed["preload"] >= totalDocs)
    BY <1>6, <1>7, <1>8
  <2> QED
    BY <1>1, <1>6, <1>7, <2>1 DEF ArrayFollows
<1>12. PhasesFollow'
  BY <1>1, <1>2 DEF PhasesFollow, Ended
<1>13. NothingEarly'
  <2>1. ASSUME NEW w \in Windows, Idle(w) PROVE Idle(w)'
    <3>1. w # op
      BY <1>3, <1>6, <2>1 DEF Idle
    <3> QED
      BY <1>4, <1>6, <2>1, <3>1 DEF Idle
  <2>2. ASSUME ~ runFlag["preload"] PROVE \A j \in Keys : Inflight("multi", j)' = 0
    <3>1. \A j \in Keys : Inflight("multi", j) = 0
      BY <1>1, <2>2 DEF NothingEarly
    <3>2. op # "multi"
      BY <1>3, <3>1
    <3> QED
      BY <1>4, <1>6, <3>1, <3>2
  <2>3. phase' = "multi" => phase = "multi"
    OBVIOUS
  <2> QED
    BY <1>1, <1>2, <1>6, <2>1, <2>2, <2>3 DEF NothingEarly
<1>14. PreloadsFirst'
  BY <1>1, <1>2, <1>4, <1>6 DEF PreloadsFirst
<1>15. OnceEach'
  <2> SUFFICES ASSUME NEW j \in Keys \ {0}
               PROVE  /\ \A w \in Windows : /\ Inflight(w, j)' <= 1
                                            /\ Inflight(w, j)' > 0 => j <= completed'[w] /\ j < totalDocs
                      /\ rev'[j] >= 1 => j <= completed'["update"]
    BY DEF OnceEach
  <2>1. j \in Nat
    BY <1>7 DEF Keys
  <2>2. ASSUME NEW w \in Windows
        PROVE  /\ Inflight(w, j)' <= 1
               /\ Inflight(w, j)' > 0 => j <= completed'[w] /\ j < totalDocs
    <3>1. /\ Inflight(w, j) <= 1
          /\ Inflight(w, j) > 0 => j <= completed[w] /\ j < totalDocs
      BY <1>1 DEF OnceEach
    <3>2. Inflight(w, j)' <= Inflight(w, j) /\ Inflight(w, j)' \in Int /\ Inflight(w, j) \in Nat
      BY <1>4, <1>5, <1>6
    <3>3. completed'[w] >= completed[w] /\ completed[w] \in Nat /\ completed'[w] \in Nat
      BY <1>7, <1>8
    <3> QED
      BY <1>7, <2>1, <3>1, <3>2, <3>3
  <2>3. rev[j] >= 1 => j <= completed["update"]
    BY <1>1 DEF OnceEach
  <2>4. completed'["update"] >= completed["update"] /\ completed["update"] \in Nat /\ completed'["update"] \in Nat
    BY <1>6, <1>7, <1>8
  <2> QED
    BY <1>2, <2>1, <2>2, <2>3, <2>4
<1>16. Balance'
  <2> SUFFICES ASSUME NEW w \in Windows PROVE BalanceOf(w)'
    BY DEF Balance
  <2>1. BalanceOf(w)
    BY <1>1 DEF Balance
  <2>2. CASE w = op
    <3>1. completed'[w] + errors'[w] = completed[w] + errors[w] + 1
      BY <1>7, <2>2
    <3>2. Inflight(w, k)' = Inflight(w, k) - 1 /\ \A j \in Keys : j # k => Inflight(w, j)' = Inflight(w, j)
      BY <1>4, <1>6, <2>2
    <3> QED
      BY <1>1, <1>3, <1>8, <1>9, <2>1, <2>2, <3>1, <3>2, BalanceTaken
  <2>3. CASE w # op
    <3>1. \A j \in Keys : Inflight(w, j)' = Inflight(w, j)
      BY <1>4, <1>6, <2>3
    <3> QED
      BY <2>1, <2>3, <3>1, BalanceSame
  <2> QED
    BY <2>2, <2>3
<1>17. RevBounded'
  BY <1>1, <1>2, <1>4, <1>6 DEF RevBounded, Limit
<1>18. ResultsShow'
  <2>1. \A j \in Keys : \A i \in DOMAIN answered'[j] :
          \E b \in DOMAIN answered[j] : answered'[j][i] = answered[j][b]
    BY <1>1, RepliesLeft
  <2> QED
    BY <1>1, <1>2, <2>1 DEF ResultsShow
<1>19. ResultsCounted'
  <2>1. CASE op = "update"
    <3>1. completed'["update"] = completed["update"] + (IF ok THEN 1 ELSE 0)
      BY <1>6, <1>7, <2>1
    <3>2. Inflight("update", k)' = Inflight("update", k) - 1
          /\ \A j \in Keys : j # k => Inflight("update", j)' = Inflight("update", j)
      BY <1>4, <1>6, <2>1
    <3>3. Callback(k, "update", ok) /\ Inflight("update", k) >= 1
      BY <1>3, <2>1
    <3> QED
      BY <1>1, <1>2, <1>9, <3>1, <3>2, <3>3, CountedTaken
  <2>2. CASE op # "update"
    <3>1. completed'["update"] = completed["update"]
      BY <1>6, <2>2
    <3>2. \A j \in Keys : Inflight("update", j)' = Inflight("update", j)
      BY <1>4, <1>6, <2>2
    <3> QED
      BY <1>1, <1>2, <3>1, <3>2, CountedSame
  <2> QED
    BY <2>1, <2>2
<1>20. MultiFinds'
  <2> SUFFICES ASSUME faults = 0
               PROVE  /\ ~ multi'.failed
                      /\ \A j \in Keys : \A i \in DOMAIN answered'[j] :
                           answered'[j][i].op = "multi" => answered'[j][i].ok
    BY <1>1, <1>2 DEF MultiFinds
  <2>1. /\ ~ multi.failed
        /\ \A j \in Keys : \A i \in DOMAIN answered[j] :
             answered[j][i].op = "multi" => answered[j][i].ok
    BY <1>1 DEF MultiFinds
  <2>2. /\ 1 \in DOMAIN answered[k] /\ answered[k][1] = [op |-> op, ok |-> ok]
        /\ \A j \in Keys : \A i \in DOMAIN answered'[j] :
             \E b \in DOMAIN answered[j] : answered'[j][i] = answered[j][b]
    BY <1>1, RepliesLeft
  <2>3. op = "multi" => ok
    BY <2>1, <2>2
  <2>4. ~ multi'.failed
    BY <2>1, <2>3
  <2> QED
    BY <2>1, <2>2, <2>4
<1> QED
  BY <1>9, <1>10, <1>11, <1>12, <1>13, <1>14, <1>15, <1>16, <1>17, <1>18, <1>19, <1>20 DEF IInv

\* A result past the last document issues nothing.
LEMMA LateResultKeeps ==
  ASSUME IInv, NEW w \in Windows, LateResult(w)
  PROVE  IInv'
<1>1. PICK k \in Keys :
        /\ Callback(k, w, TRUE)
        /\ ~ LastResult(w) /\ Counts(w) > totalDocs
        /\ completed' = [completed EXCEPT ![w] = @ + 1]
        /\ UNCHANGED <<phase, runFlag, errors, array, multi, sent>>
  BY DEF LateResult
<1>2. Shape /\ FlagTells
  BY DEF IInv
<1>3. runFlag[w]
  BY <1>1, <1>2, ResultFacts
<1>4. /\ completed \in [Windows -> Nat] /\ errors \in [Windows -> Nat]
      /\ multi \in [left : SUBSET array, failed : BOOLEAN]
  BY <1>2 DEF Shape
<1>5. completed' \in [Windows -> Nat] /\ errors' \in [Windows -> Nat]
      /\ multi' \in [left : SUBSET array, failed : BOOLEAN]
  BY <1>1, <1>4
<1>6. \A v \in Windows : v # w => completed'[v] = completed[v] /\ errors'[v] = errors[v]
  BY <1>1, <1>4
<1>7. completed'[w] = completed[w] + 1 /\ errors'[w] = errors[w]
  BY <1>1, <1>4
<1>8. w \in Ops
  BY DEF Ops
<1> QED
  BY <1>1, <1>3, <1>5, <1>6, <1>7, <1>8, QuietKeeps

\* An upsert of the first phase fails.
LEMMA PreloadErrorKeeps ==
  ASSUME IInv, PreloadError
  PROVE  IInv'
<1>1. PICK k \in Keys :
        /\ Callback(k, "preload", FALSE)
        /\ phase' = IF phase = "preload" THEN "exitErr" ELSE phase
        /\ errors' = [errors EXCEPT !["preload"] = @ + 1]
        /\ UNCHANGED <<completed, runFlag, array, multi, sent>>
  BY DEF PreloadError
<1>2. /\ completed \in [Windows -> Nat] /\ errors \in [Windows -> Nat]
      /\ multi \in [left : SUBSET array, failed : BOOLEAN]
      /\ "preload" \in Windows /\ "preload" \in Ops
  BY DEF IInv, Shape, Windows, Ops
<1>3. completed' \in [Windows -> Nat] /\ errors' \in [Windows -> Nat]
      /\ multi' \in [left : SUBSET array, failed : BOOLEAN]
  BY <1>1, <1>2
<1>4. \A v \in Windows : v # "preload" => completed'[v] = completed[v] /\ errors'[v] = errors[v]
  BY <1>1, <1>2
<1>5. completed'["preload"] = completed["preload"] /\ errors'["preload"] = errors["preload"] + 1
  BY <1>1, <1>2
<1>6. phase' = phase \/ (phase = "preload" /\ phase' = "exitErr")
  BY <1>1
<1> QED
  BY <1>1, <1>2, <1>3, <1>4, <1>5, <1>6, QuietKeeps

\* A failed get or update is counted and logged.
LEMMA LoggedErrorKeeps ==
  ASSUME IInv, NEW w \in Windows, LoggedError(w)
  PROVE  IInv'
<1>1. PICK k \in Keys :
        /\ Callback(k, w, FALSE)
        /\ errors' = [errors EXCEPT ![w] = @ + 1]
        /\ UNCHANGED <<phase, completed, runFlag, array, multi, sent>>
  BY DEF LoggedError
<1>2. /\ completed \in [Windows -> Nat] /\ errors \in [Windows -> Nat]
      /\ multi \in [left : SUBSET array, failed : BOOLEAN]
      /\ w \in Ops
  BY DEF IInv, Shape, Ops
<1>3. completed' \in [Windows -> Nat] /\ errors' \in [Windows -> Nat]
      /\ multi' \in [left : SUBSET array, failed : BOOLEAN]
  BY <1>1, <1>2
<1>4. \A v \in Windows : v # w => completed'[v] = completed[v] /\ errors'[v] = errors[v]
  BY <1>1, <1>2
<1>5. completed'[w] = completed[w] /\ errors'[w] = errors[w] + 1
  BY <1>1, <1>2
<1> QED
  BY <1>1, <1>2, <1>3, <1>4, <1>5, QuietKeeps

\* A reply to getMulti: its document is not waited for any more.
LEMMA MultiReplyKeeps ==
  ASSUME IInv, MultiReply
  PROVE  IInv'
<1>1. PICK k \in Keys, ok \in BOOLEAN :
        /\ Callback(k, "multi", ok)
        /\ multi' = [left |-> multi.left \ {k}, failed |-> multi.failed \/ ~ ok]
        /\ UNCHANGED <<phase, completed, runFlag, errors, array, sent>>
  BY DEF MultiReply
<1>2. /\ completed \in [Windows -> Nat] /\ errors \in [Windows -> Nat]
      /\ multi \in [left : SUBSET array, failed : BOOLEAN]
      /\ "multi" \in Ops /\ "multi" \notin Windows
  BY DEF IInv, Shape, Windows, Ops
<1>3. completed' \in [Windows -> Nat] /\ errors' \in [Windows -> Nat]
  BY <1>1, <1>2
<1>4. multi.failed \in BOOLEAN /\ multi.left \in SUBSET array
  BY <1>2
<1>5. multi' \in [left : SUBSET array, failed : BOOLEAN]
      /\ (multi'.failed => multi.failed \/ ~ ok)
  BY <1>1, <1>4
<1> QED
  BY <1>1, <1>2, <1>3, <1>5, QuietKeeps
-----------------------------------------------------------------------------
(* The steps that send. *)

\* Requests are added at the end.
Grows(op, keys) ==
  \A j \in Keys :
    /\ \A i \in DOMAIN sent[j] : i \in DOMAIN sent'[j] /\ sent'[j][i] = sent[j][i]
    /\ \A i \in DOMAIN sent'[j] :
         \/ i \in DOMAIN sent[j]
         \/ j \in keys /\ sent'[j][i] = op /\ DOMAIN sent[j] \subseteq 1 .. (i - 1)

\* A request only adds to what was asked of its document.
LEMMA RequestGrows ==
  ASSUME Shape, NEW op \in Ops, NEW keys, sent' = Request(op, keys)
  PROVE  Grows(op, keys)
<1> SUFFICES ASSUME NEW j \in Keys
             PROVE  /\ \A i \in DOMAIN sent[j] : i \in DOMAIN sent'[j] /\ sent'[j][i] = sent[j][i]
                    /\ \A i \in DOMAIN sent'[j] :
                         \/ i \in DOMAIN sent[j]
                         \/ j \in keys /\ sent'[j][i] = op /\ DOMAIN sent[j] \subseteq 1 .. (i - 1)
  BY DEF Grows
<1>1. sent'[j] = IF j \in keys THEN Append(sent[j], op) ELSE sent[j]
  BY DEF Request
<1>2. sent[j] \in Seq(Ops) /\ Len(sent[j]) \in Nat /\ DOMAIN sent[j] = 1 .. Len(sent[j])
  BY DEF Shape
<1>3. CASE j \notin keys
  BY <1>1, <1>3
<1>4. CASE j \in keys
  <2>1. /\ DOMAIN Append(sent[j], op) = 1 .. (Len(sent[j]) + 1)
        /\ \A i \in 1 .. Len(sent[j]) : Append(sent[j], op)[i] = sent[j][i]
        /\ Append(sent[j], op)[Len(sent[j]) + 1] = op
    BY <1>2
  <2>2. sent'[j] = Append(sent[j], op)
    BY <1>1, <1>4
  <2>3. \A i \in 1 .. (Len(sent[j]) + 1) : i \in 1 .. Len(sent[j]) \/ i = Len(sent[j]) + 1
    BY <1>2
  <2>4. DOMAIN sent[j] \subseteq 1 .. ((Len(sent[j]) + 1) - 1)
    BY <1>2
  <2>5. \A i \in 1 .. Len(sent[j]) : i \in 1 .. (Len(sent[j]) + 1)
    BY <1>2
  <2> QED
    BY <1>2, <1>4, <2>1, <2>2, <2>3, <2>4, <2>5
<1> QED
  BY <1>3, <1>4

\* A window only adds to what was asked of the documents.
LEMMA StartGrows ==
  ASSUME Shape, NEW op \in Ops, StartWindow(op)
  PROVE  Grows(op, {0})
<1> SUFFICES ASSUME NEW j \in Keys
             PROVE  /\ \A i \in DOMAIN sent[j] : i \in DOMAIN sent'[j] /\ sent'[j][i] = sent[j][i]
                    /\ \A i \in DOMAIN sent'[j] :
                         \/ i \in DOMAIN sent[j]
                         \/ j \in {0} /\ sent'[j][i] = op /\ DOMAIN sent[j] \subseteq 1 .. (i - 1)
  BY DEF Grows
<1> DEFINE e == [i \in 1 .. opsGroup |-> op]
<1>1. sent' = [sent EXCEPT ![0] = sent[0] \o e] /\ sent \in [Keys -> Seq(Ops)]
  BY DEF StartWindow, Shape
<1>2. sent[j] \in Seq(Ops) /\ Len(sent[j]) \in Nat /\ DOMAIN sent[j] = 1 .. Len(sent[j])
  BY DEF Shape
<1>3. opsGroup \in Nat
  BY OpsGroupAssumption
<1>4. e \in Seq(Ops) /\ Len(e) = opsGroup /\ \A i \in 1 .. opsGroup : e[i] = op
  BY <1>3
<1> HIDE DEF e
<1>5. CASE j # 0
  <2>1. sent'[j] = sent[j]
    BY <1>1, <1>5
  <2> QED
    BY <2>1
<1>6. CASE j = 0
  <2>1. sent'[j] = sent[j] \o e
    BY <1>1, <1>6
  <2>2. sent'[j] \in Seq(Ops) /\ Len(sent'[j]) = Len(sent[j]) + opsGroup
        /\ \A i \in 1 .. Len(sent[j]) + opsGroup :
             sent'[j][i] = IF i <= Len(sent[j]) THEN sent[j][i] ELSE e[i - Len(sent[j])]
    <3>1. \A s, t \in Seq(Ops) :
            /\ s \o t \in Seq(Ops) /\ Len(s \o t) = Len(s) + Len(t)
            /\ \A i \in 1 .. Len(s) + Len(t) : (s \o t)[i] = IF i <= Len(s) THEN s[i] ELSE t[i - Len(s)]
      BY ConcatProperties
    <3>2. /\ sent[j] \o e \in Seq(Ops) /\ Len(sent[j] \o e) = Len(sent[j]) + Len(e)
          /\ \A i \in 1 .. Len(sent[j]) + Len(e) :
               (sent[j] \o e)[i] = IF i <= Len(sent[j]) THEN sent[j][i] ELSE e[i - Len(sent[j])]
      BY <1>2, <1>4, <3>1
    <3> QED
      BY <1>4, <2>1, <3>2
  <2>3. DOMAIN sent'[j] = 1 .. (Len(sent[j]) + opsGroup)
    BY <2>2, LenProperties
  <2>4. ASSUME NEW i \in DOMAIN sent[j]
        PROVE  i \in DOMAIN sent'[j] /\ sent'[j][i] = sent[j][i]
    <3>1. i \in 1 .. (Len(sent[j]) + opsGroup) /\ i <= Len(sent[j])
      BY <1>2, <1>3
    <3> QED
      BY <2>2, <2>3, <3>1
  <2>5. ASSUME NEW i \in DOMAIN sent'[j], i \notin DOMAIN sent[j]
        PROVE  sent'[j][i] = op /\ DOMAIN sent[j] \subseteq 1 .. (i - 1)
    <3>1. i \in 1 .. (Len(sent[j]) + opsGroup) /\ ~ (i <= Len(sent[j])) /\ i - Len(sent[j]) \in 1 .. opsGroup
      BY <1>2, <1>3, <2>3, <2>5
    <3>2. sent'[j][i] = e[i - Len(sent[j])]
      BY <2>2, <3>1
    <3>3. sent'[j][i] = op
      BY <1>4, <3>1, <3>2
    <3>4. 1 .. Len(sent[j]) \subseteq 1 .. (i - 1)
      BY <1>2, <3>1
    <3> QED
      BY <1>2, <3>3, <3>4
  <2> QED
    BY <1>6, <2>4, <2>5
<1> QED
  BY <1>5, <1>6

\* Anything but an upsert may be added to what was asked of a document.
LEMMA GrowthKeepsOrder ==
  ASSUME Shape, PreloadsFirst, sent' \in [Keys -> Seq(Ops)], UNCHANGED rev,
         NEW op \in Ops, op # "preload", NEW keys, Grows(op, keys),
         \A j \in Keys : InSent("preload", j)' = InSent("preload", j)
  PROVE  PreloadsFirst'
<1> SUFFICES ASSUME NEW j \in Keys
             PROVE  /\ \A a, b \in DOMAIN sent'[j] : a < b /\ sent'[j][b] = "preload" => sent'[j][a] = "preload"
                    /\ rev'[j] >= 1 => InSent("preload", j)' = 0
  BY DEF PreloadsFirst
<1>1. rev'[j] >= 1 => InSent("preload", j)' = 0
  BY DEF PreloadsFirst
<1>2. ASSUME NEW a \in DOMAIN sent'[j], NEW b \in DOMAIN sent'[j], a < b, sent'[j][b] = "preload"
      PROVE  sent'[j][a] = "preload"
  <2>1. b \in DOMAIN sent[j]
    BY <1>2 DEF Grows
  <2>2. DOMAIN sent[j] = 1 .. Len(sent[j]) /\ Len(sent[j]) \in Nat
    BY DEF Shape
  <2>3. a \in DOMAIN sent[j]
    <3> SUFFICES ASSUME a \notin DOMAIN sent[j] PROVE FALSE
      OBVIOUS
    <3>1. DOMAIN sent[j] \subseteq 1 .. (a - 1)
      BY DEF Grows
    <3>2. b \in 1 .. (a - 1)
      BY <2>1, <3>1
    <3>3. a \in Int
      <4>1. sent'[j] \in Seq(Ops)
        OBVIOUS
      <4> QED
        BY <1>2, <4>1
    <3> QED
      BY <1>2, <2>1, <2>2, <3>2, <3>3
  <2>4. sent'[j][a] = sent[j][a] /\ sent'[j][b] = sent[j][b]
    BY <2>1, <2>3 DEF Grows
  <2> QED
    BY <1>2, <2>1, <2>3, <2>4 DEF PreloadsFirst
<1> QED
  BY <1>1, <1>2

\* What getMulti will find is not undone by what follows in the queues.
LEMMA GrowthKeepsFinds ==
  ASSUME Shape, MultiFinds, faults = 0, UNCHANGED rev, NEW op, NEW keys, Grows(op, keys),
         sent' \in [Keys -> Seq(Ops)],
         op = "multi" => keys \subseteq array
  PROVE  /\ \A j \in array : rev'[j] # Absent \/ \E b \in DOMAIN sent'[j] : sent'[j][b] = "preload"
         /\ \A j \in Keys : \A i \in DOMAIN sent'[j] :
              sent'[j][i] = "multi" => rev'[j] # Absent \/ \E b \in 1 .. (i - 1) : sent'[j][b] = "preload"
<1>1. /\ \A j \in array : rev[j] # Absent \/ \E b \in DOMAIN sent[j] : sent[j][b] = "preload"
      /\ \A j \in Keys : \A i \in DOMAIN sent[j] :
           sent[j][i] = "multi" => rev[j] # Absent \/ \E b \in 1 .. (i - 1) : sent[j][b] = "preload"
  BY DEF MultiFinds
<1>2. array \subseteq Keys /\ \A j \in Keys : Len(sent[j]) \in Nat /\ DOMAIN sent[j] = 1 .. Len(sent[j])
  BY DEF Shape
<1>3. ASSUME NEW j \in array
      PROVE  rev'[j] # Absent \/ \E b \in DOMAIN sent'[j] : sent'[j][b] = "preload"
  BY <1>1, <1>2 DEF Grows
<1>4. ASSUME NEW j \in Keys, NEW i \in DOMAIN sent'[j], sent'[j][i] = "multi"
      PROVE  rev'[j] # Absent \/ \E b \in 1 .. (i - 1) : sent'[j][b] = "preload"
  <2>1. i \in Int
    <3>1. sent'[j] \in Seq(Ops)
      OBVIOUS
    <3> QED
      BY <1>4, <3>1
  <2>2. CASE i \in DOMAIN sent[j]
    <3>1. sent[j][i] = "multi"
      BY <1>4, <2>2 DEF Grows
    <3>2. CASE rev[j] # Absent
      BY <3>2
    <3>3. CASE \E b \in 1 .. (i - 1) : sent[j][b] = "preload"
      <4>1. PICK b \in 1 .. (i - 1) : sent[j][b] = "preload"
        BY <3>3
      <4>2. b \in DOMAIN sent[j]
        BY <1>2, <2>1, <2>2, <4>1
      <4>3. sent'[j][b] = "preload"
        BY <4>1, <4>2 DEF Grows
      <4> QED
        BY <4>1, <4>3
    <3> QED
      BY <1>1, <2>2, <3>1, <3>2, <3>3
  <2>3. CASE i \notin DOMAIN sent[j]
    <3>1. j \in keys /\ op = "multi" /\ DOMAIN sent[j] \subseteq 1 .. (i - 1)
      BY <1>4, <2>3 DEF Grows
    <3>2. CASE rev[j] # Absent
      BY <3>2
    <3>3. CASE rev[j] = Absent
      <4>1. PICK b \in DOMAIN sent[j] : sent[j][b] = "preload"
        BY <1>1, <3>1, <3>3
      <4>2. sent'[j][b] = "preload"
        BY <4>1 DEF Grows
      <4> QED
        BY <3>1, <4>1, <4>2
    <3> QED
      BY <3>2, <3>3
  <2> QED
    BY <2>2, <2>3
<1> QED
  BY <1>3, <1>4

\* The count names a document past test0 that the phase has not asked for.
LEMMA IssueNextKeeps ==
  ASSUME IInv, NEW w \in Windows, IssueNext(w)
  PROVE  IInv'
<1> DEFINE n == completed[w] + 1
<1>1. PICK k \in Keys :
        /\ Callback(k, w, TRUE)
        /\ ~ LastResult(w) /\ Counts(w) <= totalDocs
        /\ completed' = [completed EXCEPT ![w] = @ + 1]
        /\ sent' = Request(w, {n})
        /\ array' = IF w = "preload" THEN array \cup {n} ELSE array
        /\ UNCHANGED <<phase, runFlag, errors, multi>>
  BY DEF IssueNext, Counts
<1>2. /\ Shape /\ FlagTells /\ ArrayFollows /\ PhasesFollow /\ NothingEarly /\ PreloadsFirst
      /\ OnceEach /\ Balance /\ RevBounded /\ ResultsShow /\ ResultsCounted /\ MultiFinds
  BY DEF IInv
<1>3. UNCHANGED <<rev, faults>>
  BY <1>1 DEF Callback
<1>4. /\ completed \in [Windows -> Nat] /\ errors \in [Windows -> Nat] /\ totalDocs \in Nat \ {0}
      /\ rev \in [Keys -> Nat \cup {Absent}] /\ Absent = -1 /\ w \in Ops
      /\ runFlag \in [Windows -> BOOLEAN] /\ sent \in [Keys -> Seq(Ops)]
  BY <1>2, TotalDocsAssumption DEF Shape, Absent, Ops
<1>5. ~ runFlag[w] /\ n < totalDocs
  BY <1>1, <1>2, ResultFacts
<1>6. n \in Keys \ {0} /\ n \in Nat /\ n > completed[w] /\ 0 \in Keys /\ Keys \subseteq Nat
  BY <1>4, <1>5 DEF Keys
<1>7. "preload" \in Ops /\ "update" \in Ops /\ "multi" \in Ops /\ "get" \in Ops /\ Windows \subseteq Ops
      /\ Windows = {"preload", "get", "update"} /\ Ops = {"preload", "get", "update", "multi"}
  BY DEF Ops, Windows
<1>8. /\ answered' \in [Keys -> Seq(Replies)]
      /\ Takes(w, k)
      /\ Inflight(w, k) >= 1
  BY <1>1, <1>2, <1>4, CallbackEffect
<1>9. {n} \in SUBSET Keys
  BY <1>6
<1> HIDE DEF n
<1>10. sent' \in [Keys -> Seq(Ops)] /\ Sends(w, {n}, 1) /\ Grows(w, {n})
  BY <1>1, <1>2, <1>4, <1>9, RequestEffect, RequestGrows
<1>11. \A v \in Ops, j \in Keys : InSent(v, j) \in Nat /\ InReply(v, j) \in Nat /\ Inflight(v, j) \in Nat
  BY <1>2, Counts_Nat
<1>12. Inflight(w, n) = 0
  <2>1. Inflight(w, n) > 0 => n <= completed[w]
    BY <1>2, <1>6 DEF OnceEach
  <2> QED
    BY <1>4, <1>6, <1>11, <2>1
<1>13. k # n
  BY <1>8, <1>12
<1>14. \A v \in Ops, j \in Keys :
         Inflight(v, j)' = IF v = w /\ j = k THEN Inflight(v, j) - 1
                           ELSE IF v = w /\ j = n THEN 1
                           ELSE Inflight(v, j)
  <2> SUFFICES ASSUME NEW v \in Ops, NEW j \in Keys
               PROVE  Inflight(v, j)' = IF v = w /\ j = k THEN Inflight(v, j) - 1
                                        ELSE IF v = w /\ j = n THEN 1
                                        ELSE Inflight(v, j)
    OBVIOUS
  <2>1. Shape /\ Takes(w, k) /\ Sends(w, {n}, 1) /\ 1 \in Nat
    BY <1>2, <1>8, <1>10
  <2>2. Inflight(v, j)' = Inflight(v, j) - (IF v = w /\ j = k THEN 1 ELSE 0)
                                         + (IF v = w /\ j \in {n} THEN 1 ELSE 0)
    BY <1>4, <2>1, FlightSent
  <2>3. Inflight(v, j) \in Nat
    BY <1>11
  <2>4. CASE v = w /\ j = k
    BY <1>13, <2>2, <2>3, <2>4
  <2>5. CASE v = w /\ j = n
    BY <1>12, <1>13, <2>2, <2>3, <2>5
  <2>6. CASE ~ (v = w /\ j = k) /\ ~ (v = w /\ j = n)
    BY <2>2, <2>3, <2>6
  <2> QED
    BY <1>13, <2>4, <2>5, <2>6
<1>15. \A v \in Ops, j \in Keys : InSent(v, j)' = IF v = w /\ j = n THEN InSent(v, j) + 1 ELSE InSent(v, j)
  BY <1>10 DEF Sends
<1>16. completed'[w] = n /\ \A v \in Windows : v # w => completed'[v] = completed[v]
  BY <1>1, <1>4 DEF n
<1>17. rev[n] <= 0 \/ w # "update"
  <2> SUFFICES ASSUME w = "update" PROVE rev[n] <= 0
    OBVIOUS
  <2>1. rev[n] >= 1 => n <= completed["update"]
    BY <1>2, <1>6 DEF OnceEach
  <2>2. completed["update"] \in Nat /\ n > completed["update"] /\ rev[n] \in Nat \cup {Absent}
    BY <1>4, <1>6
  <2> QED
    BY <1>4, <1>6, <2>1, <2>2
<1>18. ~ runFlag["preload"] => ~ runFlag["get"]
  BY <1>2 DEF PhasesFollow
<1>19. Shape'
  <2>1. completed' \in [Windows -> Nat]
    BY <1>1, <1>4
  <2>2. array \subseteq array' /\ array' \subseteq Keys
    BY <1>1, <1>2, <1>6 DEF Shape
  <2>3. multi' \in [left : SUBSET array', failed : BOOLEAN]
    <3>1. multi \in [left : SUBSET array, failed : BOOLEAN] /\ SUBSET array \subseteq SUBSET array'
      BY <1>2, <2>2 DEF Shape
    <3> QED
      BY <1>1, <3>1
  <2> QED
    BY <1>1, <1>2, <1>3, <1>8, <1>10, <2>1, <2>2, <2>3 DEF Shape
<1>20. FlagTells'
  <2> SUFFICES ASSUME NEW v \in Windows PROVE runFlag'[v] <=> completed'[v] >= totalDocs
    BY DEF FlagTells
  <2>1. CASE v = w
    BY <1>1, <1>4, <1>5, <1>6, <1>16, <2>1
  <2>2. CASE v # w
    BY <1>1, <1>2, <1>16, <2>2 DEF FlagTells
  <2> QED
    BY <2>1, <2>2
<1>21. ArrayFollows'
  <2>1. CASE w = "preload"
    <3>1. array = 0 .. completed["preload"]
      BY <1>2, <1>4, <1>5, <1>7, <2>1 DEF ArrayFollows, n
    <3>2. array' = 0 .. (completed["preload"] + 1)
      BY <1>1, <1>4, <1>7, <2>1, <3>1 DEF n
    <3>3. completed'["preload"] = completed["preload"] + 1
      BY <1>16, <2>1 DEF n
    <3>4. completed'["preload"] < totalDocs
      BY <1>5, <1>16, <2>1
    <3> QED
      BY <3>2, <3>3, <3>4 DEF ArrayFollows
  <2>2. CASE w # "preload"
    BY <1>1, <1>2, <1>7, <1>16, <2>2 DEF ArrayFollows
  <2> QED
    BY <2>1, <2>2
<1>22. PhasesFollow'
  BY <1>1, <1>2 DEF PhasesFollow
<1>23. NothingEarly'
  <2>1. ASSUME NEW v \in Windows, Idle(v) PROVE Idle(v)'
    <3>1. v # w
      BY <1>8, <2>1 DEF Idle
    <3> QED
      BY <1>1, <1>7, <1>14, <1>16, <2>1, <3>1 DEF Idle
  <2>2. ASSUME ~ runFlag["preload"] PROVE \A j \in Keys : Inflight("multi", j)' = 0
    <3>1. \A j \in Keys : Inflight("multi", j) = 0
      BY <1>2, <2>2 DEF NothingEarly
    <3> QED
      BY <1>7, <1>14, <3>1
  <2> QED
    BY <1>1, <1>2, <1>3, <1>7, <2>1, <2>2 DEF NothingEarly
<1>24. PreloadsFirst'
  <2>1. CASE w # "preload"
    <3>1. \A j \in Keys : InSent("preload", j)' = InSent("preload", j)
      BY <1>7, <1>15, <2>1
    <3> QED
      BY <1>2, <1>3, <1>4, <1>10, <2>1, <3>1, GrowthKeepsOrder
  <2>2. CASE w = "preload"
    <3>1. /\ \A j \in Keys : Inflight("multi", j) = 0 /\ Inflight("get", j) = 0 /\ Inflight("update", j) = 0
          /\ \A j \in Keys : rev[j] <= 0
      BY <1>2, <1>5, <1>18, <2>2 DEF NothingEarly, Idle
    <3>2. \A j \in Keys : InSent("multi", j) = 0 /\ InSent("get", j) = 0 /\ InSent("update", j) = 0
      BY <1>7, <1>11, <3>1 DEF Inflight
    <3>3. \A i \in DOMAIN sent[n] : sent[n][i] = "preload"
      <4>1. \A i \in DOMAIN sent[n] : sent[n][i] \in Ops
        BY <1>4, <1>6
      <4>2. \A i \in DOMAIN sent[n] : sent[n][i] # "multi" /\ sent[n][i] # "get" /\ sent[n][i] # "update"
        BY <1>2, <1>6, <1>7, <3>2, Counts_Nat
      <4> QED
        BY <1>7, <4>1, <4>2
    <3>4. ASSUME NEW j \in Keys, NEW a \in DOMAIN sent'[j], NEW b \in DOMAIN sent'[j], a < b, sent'[j][b] = "preload"
          PROVE  sent'[j][a] = "preload"
      <4>1. CASE j = n
        BY <1>10, <2>2, <3>3, <3>4, <4>1 DEF Grows
      <4>2. CASE j # n
        <5>1. DOMAIN sent'[j] \subseteq DOMAIN sent[j] /\ \A i \in DOMAIN sent[j] : sent'[j][i] = sent[j][i]
          BY <1>10, <4>2 DEF Grows
        <5> QED
          BY <1>2, <3>4, <5>1 DEF PreloadsFirst
      <4> QED
        BY <4>1, <4>2
    <3>5. \A j \in Keys : ~ (rev'[j] >= 1)
      <4> SUFFICES ASSUME NEW j \in Keys PROVE ~ (rev[j] >= 1)
        BY <1>3
      <4>1. rev[j] <= 0 /\ rev[j] \in Nat \cup {Absent}
        BY <1>4, <3>1
      <4> QED
        BY <1>4, <4>1
    <3> QED
      BY <3>4, <3>5 DEF PreloadsFirst
  <2> QED
    BY <2>1, <2>2
<1>25. OnceEach'
  <2> SUFFICES ASSUME NEW j \in Keys \ {0}
               PROVE  /\ \A v \in Windows : /\ Inflight(v, j)' <= 1
                                            /\ Inflight(v, j)' > 0 => j <= completed'[v] /\ j < totalDocs
                      /\ rev'[j] >= 1 => j <= completed'["update"]
    BY DEF OnceEach
  <2>1. j \in Nat
    BY <1>6
  <2>2. \A v \in Windows : completed'[v] >= completed[v] /\ completed[v] \in Nat /\ completed'[v] \in Nat
    <3> SUFFICES ASSUME NEW v \in Windows
                 PROVE  completed'[v] >= completed[v] /\ completed[v] \in Nat /\ completed'[v] \in Nat
      OBVIOUS
    <3>1. completed[v] \in Nat
      BY <1>4
    <3>2. CASE v = w
      BY <1>6, <1>16, <3>1, <3>2
    <3>3. CASE v # w
      BY <1>16, <3>1, <3>3
    <3> QED
      BY <3>2, <3>3
  <2>3. ASSUME NEW v \in Windows
        PROVE  /\ Inflight(v, j)' <= 1
               /\ Inflight(v, j)' > 0 => j <= completed'[v] /\ j < totalDocs
    <3>1. /\ Inflight(v, j) <= 1
          /\ Inflight(v, j) > 0 => j <= completed[v] /\ j < totalDocs
      BY <1>2 DEF OnceEach
    <3>2. CASE v = w /\ j = n
      <4>1. Inflight(v, j)' = 1
        BY <1>7, <1>13, <1>14, <3>2
      <4> QED
        BY <1>5, <1>6, <1>16, <3>2, <4>1
    <3>3. CASE ~ (v = w /\ j = n)
      <4>1. Inflight(v, j)' <= Inflight(v, j) /\ Inflight(v, j)' \in Int /\ Inflight(v, j) \in Nat
        BY <1>7, <1>11, <1>14, <3>3
      <4> QED
        BY <1>4, <2>1, <2>2, <3>1, <4>1
    <3> QED
      BY <3>2, <3>3
  <2>4. rev[j] >= 1 => j <= completed["update"]
    BY <1>2 DEF OnceEach
  <2> QED
    BY <1>3, <1>7, <2>1, <2>2, <2>3, <2>4
<1>26. Balance'
  <2> SUFFICES ASSUME NEW v \in Windows PROVE BalanceOf(v)'
    BY DEF Balance
  <2>1. BalanceOf(v)
    BY <1>2 DEF Balance
  <2>2. CASE v = w
    <3>1. completed'[v] >= completed[v] /\ completed'[v] + errors'[v] = completed[v] + errors[v] + 1
      <4>1. completed'[v] = completed[v] + 1 /\ errors'[v] = errors[v]
        BY <1>1, <1>16, <2>2 DEF n
      <4>2. completed[v] \in Nat /\ errors[v] \in Nat
        BY <1>4
      <4> QED
        BY <4>1, <4>2
    <3>2. Inflight(v, k)' = Inflight(v, k) - 1 /\ Inflight(v, k) >= 1
      BY <1>4, <1>8, <1>14, <2>2
    <3>3. \A j \in Keys : j <= completed[v] /\ j # k => Inflight(v, j)' = Inflight(v, j)
      <4>1. \A j \in Keys : j <= completed[v] => j # n
        BY <1>4, <1>6, <2>2
      <4> QED
        BY <1>4, <1>14, <2>2, <4>1
    <3> QED
      BY <1>2, <1>19, <2>1, <3>1, <3>2, <3>3, BalanceTaken
  <2>3. CASE v # w
    <3>1. \A j \in Keys : Inflight(v, j)' = Inflight(v, j)
      BY <1>7, <1>14, <2>3
    <3>2. completed'[v] = completed[v] /\ errors'[v] = errors[v]
      BY <1>1, <1>16, <2>3
    <3> QED
      BY <2>1, <3>1, <3>2, BalanceSame
  <2> QED
    BY <2>2, <2>3
<1>27. RevBounded'
  <2> SUFFICES ASSUME NEW j \in Keys
               PROVE  InSent("update", j)' <= Limit(j) /\ InSent("update", j)' + rev'[j] <= Limit(j)
    BY DEF RevBounded, Limit
  <2>1. InSent("update", j) <= Limit(j) /\ InSent("update", j) + rev[j] <= Limit(j)
    BY <1>2 DEF RevBounded
  <2>2. CASE w = "update" /\ j = n
    <3>1. InSent("update", j) = 0
      BY <1>7, <1>11, <1>12, <2>2 DEF Inflight
    <3>2. InSent("update", j)' = 1
      BY <1>7, <1>15, <2>2, <3>1
    <3>3. Limit(j) = 1
      BY <1>6, <2>2 DEF Limit
    <3>4. rev'[j] <= 0 /\ rev'[j] \in Int
      BY <1>3, <1>4, <1>17, <2>2
    <3> QED
      BY <3>2, <3>3, <3>4
  <2>3. CASE ~ (w = "update" /\ j = n)
    <3>1. InSent("update", j)' = InSent("update", j)
      BY <1>7, <1>15, <2>3
    <3> QED
      BY <1>3, <2>1, <3>1
  <2> QED
    BY <2>2, <2>3
<1>28. \A j \in Keys : \A i \in DOMAIN answered'[j] :
         \E b \in DOMAIN answered[j] : answered'[j][i] = answered[j][b]
  BY <1>1, <1>2, RepliesLeft
<1>29. ResultsShow'
  BY <1>2, <1>3, <1>28 DEF ResultsShow
<1>30. ResultsCounted'
  <2>1. CASE w = "update"
    <3>1. completed'["update"] = completed["update"] + (IF TRUE THEN 1 ELSE 0)
      BY <1>16, <2>1 DEF n
    <3>2. Inflight("update", k)' = Inflight("update", k) - 1 /\ Inflight("update", k) >= 1
      BY <1>7, <1>8, <1>14, <2>1
    <3>3. \A j \in Keys : j <= completed["update"] /\ j # k => Inflight("update", j)' = Inflight("update", j)
      <4>1. \A j \in Keys : j <= completed["update"] => j # n
        BY <1>4, <1>6, <2>1
      <4> QED
        BY <1>7, <1>14, <2>1, <4>1
    <3>4. Callback(k, "update", TRUE)
      BY <1>1, <2>1
    <3> QED
      BY <1>2, <1>3, <1>19, <3>1, <3>2, <3>3, <3>4, CountedTaken
  <2>2. CASE w # "update"
    <3>1. completed'["update"] = completed["update"]
      BY <1>7, <1>16, <2>2
    <3>2. \A j \in Keys : Inflight("update", j)' = Inflight("update", j)
      BY <1>7, <1>14, <2>2
    <3> QED
      BY <1>2, <1>3, <3>1, <3>2, CountedSame
  <2> QED
    BY <2>1, <2>2
<1>31. MultiFinds'
  <2> SUFFICES ASSUME faults = 0
               PROVE  /\ ~ multi.failed
                      /\ \A j \in array' : rev'[j] # Absent \/ \E b \in DOMAIN sent'[j] : sent'[j][b] = "preload"
                      /\ \A j \in Keys : \A i \in DOMAIN sent'[j] :
                           sent'[j][i] = "multi" => rev'[j] # Absent \/ \E b \in 1 .. (i - 1) : sent'[j][b] = "preload"
                      /\ \A j \in Keys : \A i \in DOMAIN answered'[j] :
                           answered'[j][i].op = "multi" => answered'[j][i].ok
    BY <1>1, <1>3 DEF MultiFinds
  <2>1. /\ ~ multi.failed
        /\ \A j \in Keys : \A i \in DOMAIN answered[j] :
             answered[j][i].op = "multi" => answered[j][i].ok
    BY <1>2 DEF MultiFinds
  <2>2. w # "multi"
    BY <1>7
  <2>3. /\ \A j \in array : rev'[j] # Absent \/ \E b \in DOMAIN sent'[j] : sent'[j][b] = "preload"
        /\ \A j \in Keys : \A i \in DOMAIN sent'[j] :
             sent'[j][i] = "multi" => rev'[j] # Absent \/ \E b \in 1 .. (i - 1) : sent'[j][b] = "preload"
    BY <1>2, <1>3, <1>10, <2>2, GrowthKeepsFinds
  <2>4. w = "preload" => \E b \in DOMAIN sent'[n] : sent'[n][b] = "preload"
    <3>1. sent'[n] = Append(sent[n], w) /\ sent[n] \in Seq(Ops)
      BY <1>1, <1>4, <1>6 DEF Request
    <3>2. Len(sent[n]) + 1 \in DOMAIN sent'[n] /\ sent'[n][Len(sent[n]) + 1] = w
      BY <1>4, <3>1
    <3> QED
      BY <3>2
  <2>5. \A j \in Keys : \A i \in DOMAIN answered'[j] : answered'[j][i].op = "multi" => answered'[j][i].ok
    BY <1>28, <2>1
  <2>6. \A j \in array' : j \in array \/ (w = "preload" /\ j = n)
    BY <1>1
  <2> QED
    BY <2>1, <2>3, <2>4, <2>5, <2>6
<1> QED
  BY <1>19, <1>20, <1>21, <1>22, <1>23, <1>24, <1>25, <1>26, <1>27, <1>29, <1>30, <1>31 DEF IInv

\* The totalDocs-th result starts the next phase, which has not begun.
LEMMA ResolveKeeps ==
  ASSUME IInv, NEW w \in Windows, Resolve(w)
  PROVE  IInv'
<1> DEFINE new  == IF w = "preload" THEN "multi" ELSE "update"
           keys == IF w = "preload" THEN array ELSE IF w = "get" THEN {0} ELSE {}
           m    == IF w = "preload" THEN 1 ELSE opsGroup
<1>1. PICK k \in Keys :
        /\ Callback(k, w, TRUE)
        /\ LastResult(w)
        /\ completed' = [completed EXCEPT ![w] = @ + 1]
        /\ runFlag' = [runFlag EXCEPT ![w] = TRUE]
        /\ CASE w = "preload" -> /\ phase' = "multi"
                                 /\ multi' = [left |-> array, failed |-> FALSE]
                                 /\ sent' = Request("multi", array)
                                 /\ UNCHANGED asked
             [] w = "get"     -> /\ phase' = "update"
                                 /\ StartWindow("update")
                                 /\ UNCHANGED multi
             [] w = "update"  -> phase' = "exit" /\ UNCHANGED <<sent, multi, asked>>
        /\ UNCHANGED <<errors, array>>
  BY DEF Resolve
<1>2. /\ Shape /\ FlagTells /\ ArrayFollows /\ PhasesFollow /\ NothingEarly /\ PreloadsFirst
      /\ OnceEach /\ Balance /\ RevBounded /\ ResultsShow /\ ResultsCounted /\ MultiFinds
  BY DEF IInv
<1>3. UNCHANGED <<rev, faults>> /\ phase \notin Ended
  BY <1>1 DEF Callback
<1>4. /\ completed \in [Windows -> Nat] /\ errors \in [Windows -> Nat] /\ totalDocs \in Nat \ {0}
      /\ rev \in [Keys -> Nat \cup {Absent}] /\ Absent = -1 /\ w \in Ops /\ opsGroup \in Nat
      /\ runFlag \in [Windows -> BOOLEAN] /\ sent \in [Keys -> Seq(Ops)] /\ array \subseteq Keys
      /\ 0 \in Keys /\ Keys \subseteq Nat
  <2>1. totalDocs \in Nat \ {0} /\ opsGroup \in Nat
    BY TotalDocsAssumption, OpsGroupAssumption
  <2>2. 0 \in Keys /\ Keys \subseteq Nat
    BY <2>1 DEF Keys
  <2> QED
    BY <1>2, <2>1, <2>2 DEF Shape, Absent, Ops
<1>5. ~ runFlag[w] /\ completed[w] + 1 = totalDocs
  BY <1>1, <1>2, ResultFacts
<1>6. "preload" \in Ops /\ "update" \in Ops /\ "multi" \in Ops /\ "get" \in Ops /\ Windows \subseteq Ops
      /\ Windows = {"preload", "get", "update"} /\ Ops = {"preload", "get", "update", "multi"}
  BY DEF Ops, Windows
<1>7. /\ w = "preload" => /\ phase' = "multi" /\ multi' = [left |-> array, failed |-> FALSE]
                          /\ sent' = Request("multi", array)
      /\ w = "get"     => phase' = "update" /\ StartWindow("update") /\ UNCHANGED multi
      /\ w = "update"  => phase' = "exit" /\ UNCHANGED <<sent, multi>>
  <2>1. CASE w = "preload"
    BY <1>1, <2>1
  <2>2. CASE w = "get"
    BY <1>1, <2>2
  <2>3. CASE w = "update"
    BY <1>1, <2>3
  <2> QED
    BY <1>6, <2>1, <2>2, <2>3
<1>8. /\ answered' \in [Keys -> Seq(Replies)]
      /\ Takes(w, k)
      /\ Inflight(w, k) >= 1
  BY <1>1, <1>2, <1>4, CallbackEffect
<1>9. /\ w = "preload" => new = "multi" /\ keys = array /\ m = 1
      /\ w = "get"     => new = "update" /\ keys = {0} /\ m = opsGroup
      /\ w = "update"  => new = "update" /\ keys = {}
      /\ new \in Ops /\ m \in Nat /\ keys \subseteq Keys /\ new # "preload"
  BY <1>4, <1>6
<1> HIDE DEF new, keys, m
<1>10. sent' \in [Keys -> Seq(Ops)] /\ Sends(new, keys, m) /\ Grows(new, keys)
  <2>1. CASE w = "preload"
    <3>1. sent' = Request("multi", array) /\ array \in SUBSET Keys
      BY <1>4, <1>7, <2>1
    <3>2. sent' \in [Keys -> Seq(Ops)] /\ Sends("multi", array, 1) /\ Grows("multi", array)
      BY <1>2, <1>6, <3>1, RequestEffect, RequestGrows
    <3> QED
      BY <1>9, <2>1, <3>2
  <2>2. CASE w = "get"
    <3>1. sent' \in [Keys -> Seq(Ops)] /\ Sends("update", {0}, opsGroup) /\ Grows("update", {0})
      BY <1>2, <1>6, <1>7, <2>2, StartEffect, StartGrows
    <3> QED
      BY <1>9, <2>2, <3>1
  <2>3. CASE w = "update"
    <3>1. sent' = sent /\ keys = {}
      BY <1>7, <1>9, <2>3
    <3> QED
      BY <1>4, <3>1 DEF Sends, Grows, InSent
  <2> QED
    BY <1>6, <2>1, <2>2, <2>3
<1>11. \A v \in Ops, j \in Keys : InSent(v, j) \in Nat /\ InReply(v, j) \in Nat /\ Inflight(v, j) \in Nat
  BY <1>2, Counts_Nat
<1>12. \A v \in Ops, j \in Keys :
         Inflight(v, j)' = Inflight(v, j) - (IF v = w /\ j = k THEN 1 ELSE 0)
                                          + (IF v = new /\ j \in keys THEN m ELSE 0)
  <2> SUFFICES ASSUME NEW v \in Ops, NEW j \in Keys
               PROVE  Inflight(v, j)' = Inflight(v, j) - (IF v = w /\ j = k THEN 1 ELSE 0)
                                                       + (IF v = new /\ j \in keys THEN m ELSE 0)
    OBVIOUS
  <2>1. Shape /\ Takes(w, k) /\ Sends(new, keys, m) /\ m \in Nat /\ new \in Ops
    BY <1>2, <1>8, <1>9, <1>10
  <2> QED
    BY <1>4, <2>1, FlightSent
<1>13. /\ Inflight(w, k)' = Inflight(w, k) - 1
       /\ \A j \in Keys : j # k => Inflight(w, j)' = Inflight(w, j)
  <2>1. \A j \in Keys : ~ (w = new /\ j \in keys)
    BY <1>6, <1>9
  <2>2. \A j \in Keys : Inflight(w, j) \in Nat
    BY <1>4, <1>11
  <2> QED
    BY <1>4, <1>12, <2>1, <2>2
<1>14. \A v \in Ops, j \in Keys : v # w /\ ~ (v = new /\ j \in keys) => Inflight(v, j)' = Inflight(v, j)
  <2> SUFFICES ASSUME NEW v \in Ops, NEW j \in Keys, v # w, ~ (v = new /\ j \in keys)
               PROVE  Inflight(v, j)' = Inflight(v, j)
    OBVIOUS
  <2>1. Inflight(v, j) \in Nat
    BY <1>11
  <2> QED
    BY <1>12, <2>1
<1>15. \A v \in Ops, j \in Keys : InSent(v, j)' = IF v = new /\ j \in keys THEN InSent(v, j) + m ELSE InSent(v, j)
  BY <1>10 DEF Sends
<1>16. completed'[w] = totalDocs /\ \A v \in Windows : v # w => completed'[v] = completed[v]
  BY <1>1, <1>4, <1>5
<1>17. runFlag'[w] /\ \A v \in Windows : v # w => runFlag'[v] = runFlag[v]
  BY <1>1, <1>4
\* Which phases have begun.
<1>18. w # "preload" => runFlag["preload"] /\ phase # "multi"
  <2>1. CASE w = "get"
    <3>1. ~ Idle("get")
      BY <1>8, <2>1 DEF Idle
    <3> QED
      BY <1>2, <3>1 DEF NothingEarly
  <2>2. CASE w = "update"
    <3>1. ~ Idle("update")
      BY <1>8, <2>2 DEF Idle
    <3>2. runFlag["get"]
      BY <1>2, <3>1 DEF NothingEarly
    <3> QED
      BY <1>2, <3>2 DEF PhasesFollow
  <2> QED
    BY <1>6, <2>1, <2>2
<1>19. w = "update" => runFlag["get"]
  <2> SUFFICES ASSUME w = "update" PROVE runFlag["get"]
    OBVIOUS
  <2>1. ~ Idle("update")
    BY <1>8 DEF Idle
  <2> QED
    BY <1>2, <2>1 DEF NothingEarly
<1>20. w = "preload" => ~ runFlag["get"] /\ Idle("get")
  BY <1>2, <1>5 DEF PhasesFollow, NothingEarly
<1>21. w # "update" => /\ ~ runFlag["get"] /\ Idle("update") /\ \A j \in Keys : rev[j] <= 0
                       /\ ~ runFlag["update"]
  BY <1>2, <1>5, <1>6, <1>20 DEF NothingEarly, PhasesFollow
<1>22. Shape'
  <2>1. completed' \in [Windows -> Nat] /\ runFlag' \in [Windows -> BOOLEAN]
    BY <1>1, <1>4
  <2>2. multi' \in [left : SUBSET array, failed : BOOLEAN]
    <3>1. multi \in [left : SUBSET array, failed : BOOLEAN]
      BY <1>2 DEF Shape
    <3>2. CASE w = "preload"
      <4>1. multi' = [left |-> array, failed |-> FALSE]
        BY <1>7, <3>2
      <4>2. array \in SUBSET array /\ FALSE \in BOOLEAN
        OBVIOUS
      <4>3. \A S : array \in S => [left |-> array, failed |-> FALSE] \in [left : S, failed : BOOLEAN]
        OBVIOUS
      <4> QED
        BY <4>1, <4>2, <4>3
    <3>3. CASE w # "preload"
      <4>1. multi' = multi
        BY <1>6, <1>7, <3>3
      <4> QED
        BY <3>1, <4>1
    <3> QED
      BY <3>2, <3>3
  <2>3. phase' \in Windows \cup {"multi"} \cup Ended
    BY <1>6, <1>7 DEF Ended
  <2> QED
    BY <1>1, <1>2, <1>3, <1>8, <1>10, <2>1, <2>2, <2>3 DEF Shape
<1>23. FlagTells'
  <2> SUFFICES ASSUME NEW v \in Windows PROVE runFlag'[v] <=> completed'[v] >= totalDocs
    BY DEF FlagTells
  <2>1. CASE v = w
    BY <1>4, <1>16, <1>17, <2>1
  <2>2. CASE v # w
    BY <1>2, <1>16, <1>17, <2>2 DEF FlagTells
  <2> QED
    BY <2>1, <2>2
<1>24. ArrayFollows'
  <2>1. CASE w = "preload"
    <3>1. array = 0 .. (totalDocs - 1)
      <4>1. completed["preload"] = totalDocs - 1 /\ completed["preload"] < totalDocs
        BY <1>4, <1>5, <1>6, <2>1
      <4> QED
        BY <1>2, <4>1 DEF ArrayFollows
    <3>2. ~ (completed'["preload"] < totalDocs)
      BY <1>4, <1>16, <2>1
    <3> QED
      BY <1>1, <3>1, <3>2 DEF ArrayFollows
  <2>2. CASE w # "preload"
    BY <1>1, <1>2, <1>6, <1>16, <2>2 DEF ArrayFollows
  <2> QED
    BY <2>1, <2>2
<1>25. PhasesFollow'
  <2>1. CASE w = "preload"
    BY <1>6, <1>7, <1>17, <1>20, <1>21, <2>1 DEF PhasesFollow
  <2>2. CASE w = "get"
    BY <1>6, <1>7, <1>17, <1>18, <1>21, <2>2 DEF PhasesFollow
  <2>3. CASE w = "update"
    BY <1>6, <1>7, <1>17, <1>18, <1>19, <2>3 DEF PhasesFollow
  <2> QED
    BY <1>6, <2>1, <2>2, <2>3
<1>26. NothingEarly'
  <2>1. ASSUME NEW v \in Windows, v # w, Idle(v), ~ (v = new) PROVE Idle(v)'
    <3>1. \A j \in Keys : Inflight(v, j)' = Inflight(v, j)
      BY <1>6, <1>14, <2>1
    <3>2. completed'[v] = completed[v] /\ errors'[v] = errors[v]
      BY <1>1, <1>16, <2>1
    <3> QED
      BY <2>1, <3>1, <3>2 DEF Idle
  <2>2. runFlag'["preload"]
    BY <1>6, <1>17, <1>18
  <2>3. phase' = "multi" => Idle("get")'
    <3>1. phase' = "multi" => w = "preload"
      BY <1>6, <1>7
    <3> QED
      BY <1>6, <1>9, <1>20, <2>1, <3>1
  <2>4. ~ runFlag'["get"] => Idle("update")' /\ \A j \in Keys : rev'[j] <= 0
    <3>1. ~ runFlag'["get"] => w = "preload"
      BY <1>6, <1>17, <1>19
    <3> QED
      BY <1>3, <1>6, <1>9, <1>21, <2>1, <3>1
  <2> QED
    BY <2>2, <2>3, <2>4 DEF NothingEarly
<1>27. PreloadsFirst'
  <2>1. \A j \in Keys : InSent("preload", j)' = InSent("preload", j)
    BY <1>6, <1>9, <1>15
  <2> QED
    BY <1>2, <1>3, <1>9, <1>10, <2>1, GrowthKeepsOrder
<1>28. OnceEach'
  <2> SUFFICES ASSUME NEW j \in Keys \ {0}
               PROVE  /\ \A v \in Windows : /\ Inflight(v, j)' <= 1
                                            /\ Inflight(v, j)' > 0 => j <= completed'[v] /\ j < totalDocs
                      /\ rev'[j] >= 1 => j <= completed'["update"]
    BY DEF OnceEach
  <2>1. j \in Nat
    BY <1>4
  <2>2. \A v \in Windows : completed'[v] >= completed[v] /\ completed[v] \in Nat /\ completed'[v] \in Nat
    <3> SUFFICES ASSUME NEW v \in Windows
                 PROVE  completed'[v] >= completed[v] /\ completed[v] \in Nat /\ completed'[v] \in Nat
      OBVIOUS
    <3>1. completed[v] \in Nat
      BY <1>4
    <3>2. CASE v = w
      BY <1>4, <1>5, <1>16, <3>1, <3>2
    <3>3. CASE v # w
      BY <1>16, <3>1, <3>3
    <3> QED
      BY <3>2, <3>3
  <2>3. ASSUME NEW v \in Windows
        PROVE  /\ Inflight(v, j)' <= 1
               /\ Inflight(v, j)' > 0 => j <= completed'[v] /\ j < totalDocs
    <3>1. /\ Inflight(v, j) <= 1
          /\ Inflight(v, j) > 0 => j <= completed[v] /\ j < totalDocs
      BY <1>2 DEF OnceEach
    <3>2. ~ (v = new /\ j \in keys)
      BY <1>6, <1>9
    <3>3. Inflight(v, j) \in Nat
      BY <1>6, <1>11
    <3>4. Inflight(v, j)' <= Inflight(v, j) /\ Inflight(v, j)' \in Int
      BY <1>6, <1>12, <3>2, <3>3
    <3> QED
      BY <1>4, <2>1, <2>2, <3>1, <3>3, <3>4
  <2>4. rev[j] >= 1 => j <= completed["update"]
    BY <1>2 DEF OnceEach
  <2> QED
    BY <1>3, <1>6, <2>1, <2>2, <2>3, <2>4
<1>29. Balance'
  <2> SUFFICES ASSUME NEW v \in Windows PROVE BalanceOf(v)'
    BY DEF Balance
  <2>1. BalanceOf(v)
    BY <1>2 DEF Balance
  <2>2. CASE v = w
    <3>1. completed'[v] >= completed[v] /\ completed'[v] + errors'[v] = completed[v] + errors[v] + 1
      <4>1. completed'[v] = completed[v] + 1 /\ errors'[v] = errors[v]
        BY <1>1, <1>5, <1>16, <2>2
      <4>2. completed[v] \in Nat /\ errors[v] \in Nat
        BY <1>4
      <4> QED
        BY <4>1, <4>2
    <3>2. Inflight(v, k)' = Inflight(v, k) - 1 /\ Inflight(v, k) >= 1
      BY <1>8, <1>13, <2>2
    <3>3. \A j \in Keys : j <= completed[v] /\ j # k => Inflight(v, j)' = Inflight(v, j)
      BY <1>13, <2>2
    <3> QED
      BY <1>2, <1>22, <2>1, <3>1, <3>2, <3>3, BalanceTaken
  <2>3. CASE v # w
    <3>1. completed'[v] = completed[v] /\ errors'[v] = errors[v]
      BY <1>1, <1>16, <2>3
    <3>2. CASE v = "update" /\ w = "get"
      <4>1. Idle(v)
        BY <1>21, <3>2
      <4>2. Inflight(v, 0) \in Nat
        BY <1>4, <1>6, <1>11
      <4>3. Inflight(v, 0)' = Inflight(v, 0) - 0 + opsGroup
        BY <1>4, <1>6, <1>9, <1>12, <3>2
      <4>4. Inflight(v, 0)' = Inflight(v, 0) + opsGroup
        BY <1>4, <4>2, <4>3
      <4> QED
        BY <1>2, <1>22, <3>1, <4>1, <4>4, BalanceStart
    <3>3. CASE ~ (v = "update" /\ w = "get")
      <4>1. \A j \in Keys : Inflight(v, j)' = Inflight(v, j)
        BY <1>6, <1>9, <1>14, <2>3, <3>3
      <4> QED
        BY <2>1, <3>1, <4>1, BalanceSame
    <3> QED
      BY <3>2, <3>3
  <2> QED
    BY <2>2, <2>3
<1>30. RevBounded'
  <2> SUFFICES ASSUME NEW j \in Keys
               PROVE  InSent("update", j)' <= Limit(j) /\ InSent("update", j)' + rev'[j] <= Limit(j)
    BY DEF RevBounded, Limit
  <2>1. InSent("update", j) <= Limit(j) /\ InSent("update", j) + rev[j] <= Limit(j)
    BY <1>2 DEF RevBounded
  <2>2. CASE w = "get" /\ j = 0
    <3>1. Inflight("update", j) = 0 /\ rev[j] <= 0
      BY <1>21, <2>2 DEF Idle
    <3>2. InSent("update", j) = 0
      BY <1>6, <1>11, <3>1 DEF Inflight
    <3>3. InSent("update", j)' = opsGroup
      BY <1>4, <1>6, <1>9, <1>15, <2>2, <3>2
    <3>4. Limit(j) = opsGroup
      BY <2>2 DEF Limit
    <3>5. rev'[j] <= 0 /\ rev'[j] \in Int
      BY <1>3, <1>4, <3>1
    <3> QED
      BY <1>4, <3>3, <3>4, <3>5
  <2>3. CASE ~ (w = "get" /\ j = 0)
    <3>1. InSent("update", j)' = InSent("update", j)
      BY <1>6, <1>9, <1>15, <2>3
    <3> QED
      BY <1>3, <2>1, <3>1
  <2> QED
    BY <2>2, <2>3
<1>31. \A j \in Keys : \A i \in DOMAIN answered'[j] :
         \E b \in DOMAIN answered[j] : answered'[j][i] = answered[j][b]
  BY <1>1, <1>2, RepliesLeft
<1>32. ResultsShow'
  BY <1>2, <1>3, <1>31 DEF ResultsShow
<1>33. ResultsCounted'
  <2>1. CASE w = "update"
    <3>1. completed'["update"] = completed["update"] + (IF TRUE THEN 1 ELSE 0)
      BY <1>5, <1>16, <2>1
    <3>2. Inflight("update", k)' = Inflight("update", k) - 1 /\ Inflight("update", k) >= 1
      BY <1>8, <1>13, <2>1
    <3>3. \A j \in Keys : j <= completed["update"] /\ j # k => Inflight("update", j)' = Inflight("update", j)
      BY <1>13, <2>1
    <3>4. Callback(k, "update", TRUE)
      BY <1>1, <2>1
    <3> QED
      BY <1>2, <1>3, <1>22, <3>1, <3>2, <3>3, <3>4, CountedTaken
  <2>2. CASE w = "preload"
    <3>1. completed'["update"] = completed["update"]
      BY <1>6, <1>16, <2>2
    <3>2. \A j \in Keys : Inflight("update", j)' = Inflight("update", j)
      BY <1>6, <1>9, <1>14, <2>2
    <3> QED
      BY <1>2, <1>3, <3>1, <3>2, CountedSame
  <2>3. CASE w = "get"
    <3>1. completed'["update"] = 0
      BY <1>6, <1>16, <1>21, <2>3 DEF Idle
    <3>2. ~ (rev'[0] >= 1)
      <4>1. rev[0] <= 0 /\ rev[0] \in Nat \cup {Absent}
        BY <1>4, <1>21, <2>3
      <4> QED
        BY <1>3, <1>4, <4>1
    <3>3. Cardinality(Updated') \in Nat
      <4>1. IsFiniteSet(1 .. totalDocs - 1)
        BY <1>4, FS_Interval
      <4>2. Updated' \subseteq 1 .. totalDocs - 1
        BY DEF Updated
      <4> QED
        BY <4>1, <4>2, FS_Subset, FS_CardinalityType
    <3>4. completed'["update"] <= Cardinality(Updated')
                  + (IF rev'[0] >= 1 THEN opsGroup - Inflight("update", 0)' ELSE 0)
      BY <3>1, <3>2, <3>3
    <3> QED
      BY <3>4 DEF ResultsCounted
  <2> QED
    BY <1>6, <2>1, <2>2, <2>3
<1>34. MultiFinds'
  <2> SUFFICES ASSUME faults = 0
               PROVE  /\ ~ multi'.failed
                      /\ \A j \in array : rev'[j] # Absent \/ \E b \in DOMAIN sent'[j] : sent'[j][b] = "preload"
                      /\ \A j \in Keys : \A i \in DOMAIN sent'[j] :
                           sent'[j][i] = "multi" => rev'[j] # Absent \/ \E b \in 1 .. (i - 1) : sent'[j][b] = "preload"
                      /\ \A j \in Keys : \A i \in DOMAIN answered'[j] :
                           answered'[j][i].op = "multi" => answered'[j][i].ok
    BY <1>1, <1>3 DEF MultiFinds
  <2>1. /\ ~ multi.failed
        /\ \A j \in Keys : \A i \in DOMAIN answered[j] :
             answered[j][i].op = "multi" => answered[j][i].ok
    BY <1>2 DEF MultiFinds
  <2>2. new = "multi" => keys \subseteq array
    BY <1>6, <1>9
  <2>3. /\ \A j \in array : rev'[j] # Absent \/ \E b \in DOMAIN sent'[j] : sent'[j][b] = "preload"
        /\ \A j \in Keys : \A i \in DOMAIN sent'[j] :
             sent'[j][i] = "multi" => rev'[j] # Absent \/ \E b \in 1 .. (i - 1) : sent'[j][b] = "preload"
    BY <1>2, <1>3, <1>10, <2>2, GrowthKeepsFinds
  <2>4. ~ multi'.failed
    BY <1>6, <1>7, <2>1
  <2>5. \A j \in Keys : \A i \in DOMAIN answered'[j] : answered'[j][i].op = "multi" => answered'[j][i].ok
    BY <1>31, <2>1
  <2> QED
    BY <2>3, <2>4, <2>5
<1> QED
  BY <1>22, <1>23, <1>24, <1>25, <1>26, <1>27, <1>28, <1>29, <1>30, <1>32, <1>33, <1>34 DEF IInv

\* The get window is the first thing asked of that phase.
LEMMA MultiDoneKeeps ==
  ASSUME IInv, MultiDone
  PROVE  IInv'
<1>1. /\ phase = "multi"
      /\ \/ multi.failed /\ phase' = "crashed" /\ UNCHANGED sent
         \/ ~ multi.failed /\ phase' = "get" /\ StartWindow("get")
      /\ UNCHANGED <<completed, runFlag, errors, array, multi, answered, rev, faults>>
  BY DEF MultiDone
<1>2. /\ Shape /\ FlagTells /\ ArrayFollows /\ PhasesFollow /\ NothingEarly /\ PreloadsFirst
      /\ OnceEach /\ Balance /\ RevBounded /\ ResultsShow /\ ResultsCounted /\ MultiFinds
  BY DEF IInv
<1>3. "preload" \in Ops /\ "update" \in Ops /\ "multi" \in Ops /\ "get" \in Ops /\ Windows \subseteq Ops
      /\ Windows = {"preload", "get", "update"} /\ Ops = {"preload", "get", "update", "multi"}
  BY DEF Ops, Windows
<1>4. opsGroup \in Nat /\ totalDocs \in Nat \ {0}
  BY OpsGroupAssumption, TotalDocsAssumption
<1>5. 0 \in Keys /\ Keys \subseteq Nat
  BY <1>4 DEF Keys
<1>6. runFlag["preload"] /\ ~ runFlag["get"] /\ ~ runFlag["update"] /\ Idle("get")
  BY <1>1, <1>2 DEF PhasesFollow, NothingEarly
<1>7. PICK keys \in {{}, {0}} :
        /\ sent' \in [Keys -> Seq(Ops)] /\ Sends("get", keys, opsGroup) /\ Grows("get", keys)
  <2>1. CASE UNCHANGED sent
    <3>1. sent' \in [Keys -> Seq(Ops)] /\ Sends("get", {}, opsGroup) /\ Grows("get", {})
      BY <1>2, <2>1 DEF Shape, Sends, Grows, InSent
    <3> QED
      BY <3>1
  <2>2. CASE StartWindow("get")
    <3>1. sent' \in [Keys -> Seq(Ops)] /\ Sends("get", {0}, opsGroup) /\ Grows("get", {0})
      BY <1>2, <1>3, <2>2, StartEffect, StartGrows
    <3> QED
      BY <3>1
  <2> QED
    BY <1>1, <2>1, <2>2
<1>8. \A v \in Ops, j \in Keys : InSent(v, j) \in Nat /\ InReply(v, j) \in Nat /\ Inflight(v, j) \in Nat
  BY <1>2, Counts_Nat
<1>9. \A v \in Ops, j \in Keys :
        /\ InSent(v, j)' = IF v = "get" /\ j \in keys THEN InSent(v, j) + opsGroup ELSE InSent(v, j)
        /\ Inflight(v, j)' = IF v = "get" /\ j \in keys THEN Inflight(v, j) + opsGroup ELSE Inflight(v, j)
  <2> SUFFICES ASSUME NEW v \in Ops, NEW j \in Keys
               PROVE  /\ InSent(v, j)' = IF v = "get" /\ j \in keys THEN InSent(v, j) + opsGroup ELSE InSent(v, j)
                      /\ Inflight(v, j)' = IF v = "get" /\ j \in keys THEN Inflight(v, j) + opsGroup ELSE Inflight(v, j)
    OBVIOUS
  <2>1. InSent(v, j)' = IF v = "get" /\ j \in keys THEN InSent(v, j) + opsGroup ELSE InSent(v, j)
    BY <1>7 DEF Sends
  <2>2. InReply(v, j)' = InReply(v, j)
    BY <1>1 DEF InReply
  <2>3. InSent(v, j) \in Nat /\ InReply(v, j) \in Nat
    BY <1>8
  <2>4. Inflight(v, j)' = InSent(v, j)' + InReply(v, j)'
    BY DEF Inflight
  <2> QED
    BY <1>4, <2>1, <2>2, <2>3, <2>4 DEF Inflight
<1>10. Shape'
  BY <1>1, <1>2, <1>3, <1>7 DEF Shape, Ended
<1>11. FlagTells' /\ ArrayFollows'
  BY <1>1, <1>2 DEF FlagTells, ArrayFollows
<1>12. PhasesFollow'
  BY <1>1, <1>6 DEF PhasesFollow
<1>13. NothingEarly'
  <2>1. Idle("update") /\ \A j \in Keys : rev[j] <= 0
    BY <1>2, <1>6 DEF NothingEarly
  <2>2. Idle("update")'
    BY <1>1, <1>3, <1>9, <2>1 DEF Idle
  <2>3. phase' # "multi"
    BY <1>1
  <2> QED
    BY <1>1, <1>6, <2>1, <2>2, <2>3 DEF NothingEarly
<1>14. PreloadsFirst'
  <2>1. \A j \in Keys : InSent("preload", j)' = InSent("preload", j)
    BY <1>3, <1>9
  <2> QED
    BY <1>1, <1>2, <1>3, <1>7, <2>1, GrowthKeepsOrder
<1>15. OnceEach'
  <2>1. \A v \in Windows, j \in Keys \ {0} : Inflight(v, j)' = Inflight(v, j)
    BY <1>3, <1>7, <1>9
  <2> QED
    BY <1>1, <1>2, <2>1 DEF OnceEach
<1>16. Balance'
  <2> SUFFICES ASSUME NEW v \in Windows PROVE BalanceOf(v)'
    BY DEF Balance
  <2>1. BalanceOf(v) /\ completed'[v] = completed[v] /\ errors'[v] = errors[v]
    BY <1>1, <1>2 DEF Balance
  <2>2. CASE v = "get" /\ keys = {0}
    <3>1. Inflight(v, 0)' = Inflight(v, 0) + opsGroup
      BY <1>3, <1>5, <1>9, <2>2
    <3> QED
      BY <1>2, <1>6, <1>10, <2>1, <2>2, <3>1, BalanceStart
  <2>3. CASE ~ (v = "get" /\ keys = {0})
    <3>1. \A j \in Keys : Inflight(v, j)' = Inflight(v, j)
      BY <1>3, <1>7, <1>9, <2>3
    <3> QED
      BY <2>1, <3>1, BalanceSame
  <2> QED
    BY <2>2, <2>3
<1>17. RevBounded'
  BY <1>1, <1>2, <1>3, <1>9 DEF RevBounded, Limit
<1>18. ResultsShow'
  BY <1>1, <1>2 DEF ResultsShow
<1>19. ResultsCounted'
  <2>1. \A j \in Keys : Inflight("update", j)' = Inflight("update", j)
    BY <1>3, <1>9
  <2> QED
    BY <1>1, <1>2, <2>1, CountedSame
<1>20. MultiFinds'
  <2> SUFFICES ASSUME faults = 0
               PROVE  /\ \A j \in array : rev'[j] # Absent \/ \E b \in DOMAIN sent'[j] : sent'[j][b] = "preload"
                      /\ \A j \in Keys : \A i \in DOMAIN sent'[j] :
                           sent'[j][i] = "multi" => rev'[j] # Absent \/ \E b \in 1 .. (i - 1) : sent'[j][b] = "preload"
    BY <1>1, <1>2 DEF MultiFinds
  <2> QED
    BY <1>1, <1>2, <1>7, GrowthKeepsFinds
<1> QED
  BY <1>10, <1>11, <1>12, <1>13, <1>14, <1>15, <1>16, <1>17, <1>18, <1>19, <1>20 DEF IInv
-----------------------------------------------------------------------------
(* The invariant. *)

\* A run starts with the window of upserts and nothing else.
LEMMA InitHolds ==
  ASSUME Init
  PROVE  IInv
<1> DEFINE e == [i \in 1 .. opsGroup |-> "preload"]
<1>1. opsGroup \in Nat \ {0} /\ totalDocs \in Nat \ {0} /\ MaxFaults \in Nat
  BY OpsGroupAssumption, TotalDocsAssumption, MaxFaultsAssumption
<1>2. 0 \in Keys /\ Keys \subseteq Nat /\ Absent = -1 /\ array = {0} /\ array \subseteq Keys
  BY <1>1 DEF Keys, Absent, Init
<1>3. "preload" \in Ops /\ "update" \in Ops /\ "multi" \in Ops /\ "get" \in Ops /\ Windows \subseteq Ops
      /\ Windows = {"preload", "get", "update"} /\ Ops = {"preload", "get", "update", "multi"}
  BY DEF Ops, Windows
<1>4. /\ phase = "preload"
      /\ completed = [w \in Windows |-> 0] /\ runFlag = [w \in Windows |-> FALSE]
      /\ errors = [w \in Windows |-> 0] /\ multi = [left |-> {}, failed |-> FALSE]
      /\ sent = [k \in Keys |-> IF k = 0 THEN e ELSE <<>>]
      /\ answered = [k \in Keys |-> <<>>]
      /\ rev = [k \in Keys |-> Absent] /\ faults = 0
  BY DEF Init
<1>5. e \in Seq(Ops) /\ DOMAIN e = 1 .. opsGroup /\ \A i \in 1 .. opsGroup : e[i] = "preload"
  BY <1>1, <1>3
<1> HIDE DEF e
<1>6. Shape
  <2>1. sent \in [Keys -> Seq(Ops)] /\ answered \in [Keys -> Seq(Replies)]
    BY <1>4, <1>5
  <2>2. multi \in [left : SUBSET array, failed : BOOLEAN]
    BY <1>4
  <2> QED
    BY <1>1, <1>2, <1>3, <1>4, <2>1, <2>2 DEF Shape
<1>7. \A v \in Ops, j \in Keys :
        /\ InSent(v, j) = IF v = "preload" /\ j = 0 THEN opsGroup ELSE 0
        /\ Inflight(v, j) = InSent(v, j)
  <2> SUFFICES ASSUME NEW v \in Ops, NEW j \in Keys
               PROVE  /\ InSent(v, j) = IF v = "preload" /\ j = 0 THEN opsGroup ELSE 0
                      /\ Inflight(v, j) = InSent(v, j)
    OBVIOUS
  <2>1. InReply(v, j) = 0
    BY <1>4, CountEmpty DEF InReply
  <2>2. InSent(v, j) \in Nat
    BY <1>6, Counts_Nat
  <2>3. CASE j # 0
    BY <1>4, <2>1, <2>3, CountEmpty DEF InSent, Inflight
  <2>4. CASE j = 0 /\ v # "preload"
    <3>1. \A i \in DOMAIN sent[j] : sent[j][i] # v
      BY <1>4, <1>5, <2>4
    <3>2. InSent(v, j) = 0
      BY <1>6, <3>1, Counts_Nat
    <3> QED
      BY <2>1, <2>4, <3>2 DEF Inflight
  <2>5. CASE j = 0 /\ v = "preload"
    <3>1. sent[j] = e
      BY <1>4, <2>5
    <3>2. Places(e, {v}) = 1 .. opsGroup
      BY <1>5, <2>5 DEF Places
    <3>3. Cardinality(1 .. opsGroup) = opsGroup
      BY <1>1, FS_Interval
    <3>4. InSent(v, j) = opsGroup
      BY <3>1, <3>2, <3>3 DEF InSent, Count
    <3> QED
      BY <1>1, <2>1, <2>5, <3>4 DEF Inflight
  <2> QED
    BY <2>3, <2>4, <2>5
<1>8. FlagTells /\ PhasesFollow
  BY <1>1, <1>3, <1>4 DEF FlagTells, PhasesFollow
<1>9. ArrayFollows
  <2>1. completed["preload"] = 0 /\ 0 < totalDocs /\ 0 .. 0 = {0}
    BY <1>1, <1>3, <1>4
  <2> QED
    BY <1>2, <2>1 DEF ArrayFollows
<1>10. NothingEarly
  <2>1. Idle("get") /\ Idle("update")
    BY <1>3, <1>4, <1>7 DEF Idle
  <2>2. \A j \in Keys : Inflight("multi", j) = 0 /\ rev[j] <= 0
    BY <1>2, <1>3, <1>4, <1>7
  <2> QED
    BY <2>1, <2>2 DEF NothingEarly
<1>11. PreloadsFirst
  <2>1. \A j \in Keys : \A i \in DOMAIN sent[j] : sent[j][i] = "preload"
    BY <1>4, <1>5
  <2>2. \A j \in Keys : ~ (rev[j] >= 1)
    BY <1>2, <1>4
  <2> QED
    BY <2>1, <2>2 DEF PreloadsFirst
<1>12. OnceEach
  <2>1. \A v \in Windows, j \in Keys \ {0} : Inflight(v, j) = 0
    BY <1>3, <1>7
  <2>2. \A j \in Keys : ~ (rev[j] >= 1)
    BY <1>2, <1>4
  <2> QED
    BY <2>1, <2>2 DEF OnceEach
<1>13. Balance
  <2> SUFFICES ASSUME NEW w \in Windows PROVE BalanceOf(w)
    BY DEF Balance
  <2>1. Inflight(w, 0) <= opsGroup /\ Inflight(w, 0) \in Nat
    BY <1>1, <1>2, <1>3, <1>7
  <2>2. completed[w] = 0 /\ errors[w] = 0
    BY <1>4
  <2>3. Cardinality(Gone(w)) \in Nat
    BY <1>6, GoneIsFinite
  <2> QED
    BY <1>1, <2>1, <2>2, <2>3 DEF BalanceOf
<1>14. RevBounded
  <2>1. \A j \in Keys : InSent("update", j) = 0 /\ rev[j] = -1
    BY <1>2, <1>3, <1>4, <1>7
  <2> QED
    BY <1>1, <2>1 DEF RevBounded, Limit
<1>15. ResultsShow
  BY <1>4 DEF ResultsShow
<1>16. ResultsCounted
  <2>1. completed["update"] = 0 /\ ~ (rev[0] >= 1)
    BY <1>2, <1>3, <1>4
  <2>2. Cardinality(Updated) \in Nat
    <3>1. IsFiniteSet(1 .. totalDocs - 1)
      BY <1>1, FS_Interval
    <3>2. Updated \subseteq 1 .. totalDocs - 1
      BY DEF Updated
    <3> QED
      BY <3>1, <3>2, FS_Subset, FS_CardinalityType
  <2> QED
    BY <2>1, <2>2 DEF ResultsCounted
<1>17. MultiFinds
  <2>1. \A j \in Keys : \A i \in DOMAIN sent[j] : sent[j][i] # "multi"
    BY <1>4, <1>5
  <2>2. 1 \in DOMAIN sent[0] /\ sent[0][1] = "preload"
    BY <1>1, <1>2, <1>4, <1>5
  <2>3. \A j \in Keys : DOMAIN answered[j] = {}
    BY <1>4
  <2> QED
    BY <1>2, <1>4, <2>1, <2>2, <2>3 DEF MultiFinds
<1> QED
  BY <1>6, <1>8, <1>9, <1>10, <1>11, <1>12, <1>13, <1>14, <1>15, <1>16, <1>17 DEF IInv

\* A step that leaves every variable alone.
LEMMA StutterKeeps ==
  ASSUME IInv, UNCHANGED vars
  PROVE  IInv'
<1> USE DEF vars
<1>1. \A v, j : InSent(v, j)' = InSent(v, j) /\ InReply(v, j)' = InReply(v, j)
  BY DEF InSent, InReply
<1>2. \A v, j : Inflight(v, j)' = Inflight(v, j)
  BY <1>1 DEF Inflight
<1>3. Shape' /\ FlagTells' /\ ArrayFollows' /\ PhasesFollow'
  BY DEF IInv, Shape, FlagTells, ArrayFollows, PhasesFollow
<1>4. NothingEarly' /\ PreloadsFirst' /\ OnceEach'
  BY <1>1, <1>2 DEF IInv, NothingEarly, Idle, PreloadsFirst, OnceEach
<1>5. Balance'
  <2>1. \A w : Gone(w)' = Gone(w)
    BY <1>2 DEF Gone
  <2> QED
    BY <1>2, <2>1 DEF IInv, Balance, BalanceOf
<1>6. RevBounded' /\ ResultsShow'
  BY <1>1 DEF IInv, RevBounded, Limit, ResultsShow
<1>7. ResultsCounted'
  <2>1. Updated' = Updated
    BY <1>2 DEF Updated
  <2> QED
    BY <1>2, <2>1 DEF IInv, ResultsCounted
<1>8. MultiFinds'
  BY DEF IInv, MultiFinds
<1> QED
  BY <1>3, <1>4, <1>5, <1>6, <1>7, <1>8 DEF IInv

\* The strengthening of the properties below is an invariant of the program.
THEOREM Invariance == Spec => []IInv
<1>1. Init => IInv
  BY InitHolds
<1>2. IInv /\ [Next]_vars => IInv'
  <2> SUFFICES ASSUME IInv, [Next]_vars PROVE IInv'
    OBVIOUS
  <2>1. ASSUME NEW k \in Keys, Serve(k) PROVE IInv'
    BY <2>1, ServeKeeps
  <2>2. ASSUME NEW w \in Windows, Resolve(w) PROVE IInv'
    BY <2>2, ResolveKeeps
  <2>3. ASSUME NEW w \in Windows, IssueNext(w) PROVE IInv'
    BY <2>3, IssueNextKeeps
  <2>4. ASSUME NEW w \in Windows, LateResult(w) PROVE IInv'
    BY <2>4, LateResultKeeps
  <2>5. CASE PreloadError
    BY <2>5, PreloadErrorKeeps
  <2>6. ASSUME NEW w \in Windows, LoggedError(w) PROVE IInv'
    BY <2>6, LoggedErrorKeeps
  <2>7. CASE MultiReply
    BY <2>7, MultiReplyKeeps
  <2>8. CASE MultiDone
    BY <2>8, MultiDoneKeeps
  <2>9. CASE Stopped \/ UNCHANGED vars
    BY <2>9, StutterKeeps DEF Stopped
  <2>10. "get" \in Windows /\ "update" \in Windows
    BY DEF Windows
  <2> QED
    BY <2>1, <2>2, <2>3, <2>4, <2>5, <2>6, <2>7, <2>8, <2>9, <2>10 DEF Next, Run
<1> QED
  BY <1>1, <1>2, PTL DEF Spec
-----------------------------------------------------------------------------
(* What follows from it. *)

\* Each phase counts at most the documents and the rest of its window; no more
\* requests than the window holds can bring an error.
LEMMA Bounds ==
  ASSUME IInv, NEW w \in Windows
  PROVE  /\ completed[w] \in 0 .. totalDocs + opsGroup - 1
         /\ errors[w] \in 0 .. opsGroup
<1>1. /\ completed[w] \in Nat /\ errors[w] \in Nat /\ totalDocs \in Nat \ {0} /\ opsGroup \in Nat
      /\ 0 \in Keys /\ w \in Ops
  BY OpsGroupAssumption, TotalDocsAssumption DEF IInv, Shape, Keys, Ops
<1>2. Inflight(w, 0) \in Nat
  BY <1>1, Counts_Nat DEF IInv
<1>3. /\ Cardinality(Gone(w)) \in Nat
      /\ Cardinality(Gone(w)) <= completed[w] /\ Cardinality(Gone(w)) <= totalDocs - 1
  BY GoneIsFinite DEF IInv
<1>4. completed[w] + errors[w] + Inflight(w, 0) <= Cardinality(Gone(w)) + opsGroup
  BY DEF IInv, Balance, BalanceOf
<1> QED
  BY <1>1, <1>2, <1>3, <1>4

\* The bounds of the types.
LEMMA TypesBounded ==
  ASSUME IInv
  PROVE  /\ Shape
         /\ completed \in [Windows -> 0 .. totalDocs + opsGroup - 1]
         /\ errors \in [Windows -> 0 .. MaxFaults + opsGroup]
         /\ rev \in [Keys -> Absent .. opsGroup]
         /\ \A j \in Keys : Range(sent[j]) \subseteq Windows \cup {"multi"} /\ Range(answered[j]) \subseteq Replies
<1>1. Shape /\ RevBounded
  BY DEF IInv
<1>2. opsGroup \in Nat \ {0} /\ totalDocs \in Nat \ {0} /\ MaxFaults \in Nat
  BY OpsGroupAssumption, TotalDocsAssumption, MaxFaultsAssumption
<1>3. completed \in [Windows -> 0 .. totalDocs + opsGroup - 1]
  BY <1>1, Bounds DEF Shape
<1>4. errors \in [Windows -> 0 .. MaxFaults + opsGroup]
  <2>1. \A w \in Windows : errors[w] \in 0 .. opsGroup
    BY Bounds
  <2>2. 0 .. opsGroup \subseteq 0 .. MaxFaults + opsGroup
    BY <1>2
  <2> QED
    BY <1>1, <2>1, <2>2 DEF Shape
<1>5. rev \in [Keys -> Absent .. opsGroup]
  <2> SUFFICES ASSUME NEW j \in Keys PROVE rev[j] \in Absent .. opsGroup
    BY <1>1 DEF Shape
  <2>1. InSent("update", j) \in Nat
    BY <1>1, Counts_Nat DEF Ops, Windows
  <2>2. InSent("update", j) + rev[j] <= Limit(j)
    BY <1>1 DEF RevBounded
  <2>3. Limit(j) \in Nat /\ Limit(j) <= opsGroup
    BY <1>2 DEF Limit
  <2>4. rev[j] \in Nat \cup {Absent} /\ Absent = -1
    BY <1>1 DEF Shape, Absent
  <2> QED
    BY <1>2, <2>1, <2>2, <2>3, <2>4
<1>6. \A j \in Keys : Range(sent[j]) \subseteq Windows \cup {"multi"} /\ Range(answered[j]) \subseteq Replies
  <2> SUFFICES ASSUME NEW j \in Keys
               PROVE  Range(sent[j]) \subseteq Windows \cup {"multi"} /\ Range(answered[j]) \subseteq Replies
    OBVIOUS
  <2>1. sent[j] \in Seq(Ops) /\ answered[j] \in Seq(Replies)
    BY <1>1 DEF Shape
  <2>2. (\A i \in DOMAIN sent[j] : sent[j][i] \in Ops) /\ (\A i \in DOMAIN answered[j] : answered[j][i] \in Replies)
    BY <2>1
  <2> QED
    BY <2>2 DEF Range, Ops
<1> QED
  BY <1>1, <1>3, <1>4, <1>5, <1>6

\* When preload is over getMultiArray holds the index of each document once.
THEOREM ArrayIsComplete == Spec => []ArrayComplete
<1>1. ASSUME IInv PROVE ArrayComplete
  <2>1. FlagTells /\ ArrayFollows /\ completed["preload"] \in Nat /\ totalDocs \in Nat /\ "preload" \in Windows
    BY <1>1, TotalDocsAssumption DEF IInv, Shape, Windows
  <2>2. runFlag["preload"] => ~ (completed["preload"] < totalDocs)
    BY <2>1 DEF FlagTells
  <2> QED
    BY <2>1, <2>2 DEF ArrayFollows, ArrayComplete
<1> QED
  BY <1>1, Invariance, PTL

(* What was asked for so far. *)

\* test0 is asked for by the first loop of a phase and by nothing else; past it
\* a phase asks once, in the order of its count, and stops at the last document,
\* so that nothing is ever asked of the index behind it.
AskedInv ==
  /\ asked \in [Windows -> [Indices -> Nat]]
  /\ \A w \in Windows : asked[w][0] <= opsGroup
  /\ ~ runFlag["preload"] \/ phase = "multi" => asked["get"][0] = 0
  /\ ~ runFlag["get"] => asked["update"][0] = 0
  /\ \A w \in Windows, k \in Indices \ {0} :
       asked[w][k] <= 1 /\ (asked[w][k] > 0 => k <= completed[w] /\ k < totalDocs)
  /\ rev[totalDocs] <= 0

\* A step that leaves it alone: no count goes back, no flag is taken back, and
\* a phase that waits for getMulti was waiting for it.
LEMMA AskedSame ==
  ASSUME Shape, Shape', AskedInv, asked' = asked,
         \A w \in Windows : completed'[w] >= completed[w] /\ (runFlag[w] => runFlag'[w]),
         phase' = "multi" => phase = "multi" \/ ~ runFlag["preload"],
         rev'[totalDocs] <= 0
  PROVE  AskedInv'
<1>1. "preload" \in Windows /\ "get" \in Windows /\ totalDocs \in Nat
  BY TotalDocsAssumption DEF Windows
<1>2. \A w \in Windows : completed[w] \in Nat /\ completed'[w] \in Nat
  BY DEF Shape
<1>3. ASSUME NEW w \in Windows, NEW k \in Indices \ {0}
      PROVE  asked'[w][k] <= 1 /\ (asked'[w][k] > 0 => k <= completed'[w] /\ k < totalDocs)
  <2>1. k \in Int
    BY OpsGroupAssumption, TotalDocsAssumption DEF Indices
  <2> QED
    BY <1>2, <1>3, <2>1 DEF AskedInv
<1> QED
  BY <1>1, <1>3 DEF AskedInv

\* An answer leaves the document past the last one as it is: nothing asks for it.
LEMMA AskedServe ==
  ASSUME IInv, IInv', AskedInv, NEW k \in Keys, Serve(k)
  PROVE  AskedInv'
<1>1. Shape /\ Shape' /\ OnceEach /\ "update" \in Windows /\ "update" \in Ops
      /\ totalDocs \in Nat \ {0} /\ totalDocs \in Keys /\ totalDocs # 0
  BY TotalDocsAssumption DEF IInv, Windows, Ops, Keys
<1>2. InSent("update", totalDocs) \in Nat /\ InReply("update", totalDocs) \in Nat
  BY <1>1, Counts_Nat
<1>3. ~ (Inflight("update", totalDocs) > 0)
  BY <1>1 DEF OnceEach
<1>4. InSent("update", totalDocs) = 0
  BY <1>2, <1>3 DEF Inflight
<1>5. \A i \in DOMAIN sent[totalDocs] : sent[totalDocs][i] # "update"
  BY <1>1, <1>4, Counts_Nat
<1>6. rev'[totalDocs] <= 0
  <2>1. rev \in [Keys -> Nat \cup {Absent}] /\ rev[totalDocs] <= 0
    BY <1>1 DEF Shape, AskedInv
  <2>2. sent[k] \in Seq(Ops) /\ sent[k] # <<>>
    BY <1>1 DEF Shape, Serve
  <2>3. 1 \in DOMAIN sent[k] /\ Head(sent[k]) = sent[k][1]
    BY <2>2
  <2>4. k = totalDocs => Head(sent[k]) # "update"
    BY <1>5, <2>3
  <2>5. Effect(k, Head(sent[k])) \/ rev' = rev
    BY DEF Serve
  <2>6. CASE k # totalDocs
    BY <1>1, <2>1, <2>5, <2>6 DEF Effect
  <2>7. CASE k = totalDocs
    BY <1>1, <2>1, <2>4, <2>5, <2>7 DEF Effect
  <2> QED
    BY <2>6, <2>7
<1>7. asked' = asked /\ completed' = completed /\ runFlag' = runFlag /\ phase' = phase
  BY DEF Serve
<1>8. \A w \in Windows : completed[w] \in Nat
  BY <1>1 DEF Shape
<1> QED
  BY <1>1, <1>6, <1>7, <1>8, AskedSame

\* A callback that issues nothing.
LEMMA AskedQuiet ==
  ASSUME IInv, IInv', AskedInv,
         (\E w \in Windows : LateResult(w) \/ LoggedError(w)) \/ PreloadError \/ MultiReply
  PROVE  AskedInv'
<1>1. Shape /\ Shape' /\ \A w \in Windows : completed[w] \in Nat
  BY DEF IInv, Shape
<1>2. asked' = asked /\ runFlag' = runFlag /\ rev' = rev
  BY DEF LateResult, LoggedError, PreloadError, MultiReply, Callback
<1>3. phase' = phase \/ phase' = "exitErr"
  BY DEF LateResult, LoggedError, PreloadError, MultiReply
<1>4. completed' = completed \/ \E w \in Windows : completed' = [completed EXCEPT ![w] = @ + 1]
  BY DEF LateResult, LoggedError, PreloadError, MultiReply, Counts
<1>5. completed \in [Windows -> Nat]
  BY <1>1 DEF IInv, Shape
<1>6. \A w \in Windows : completed'[w] >= completed[w]
  BY <1>4, <1>5
<1>7. rev'[totalDocs] <= 0
  BY <1>2 DEF AskedInv
<1> QED
  BY <1>1, <1>2, <1>3, <1>6, <1>7, AskedSame

\* The index a result asks for is that of its count, which no result had before;
\* the last document's is the greatest.
LEMMA AskedIssue ==
  ASSUME IInv, IInv', AskedInv, NEW w \in Windows, IssueNext(w)
  PROVE  AskedInv'
<1> DEFINE n == Counts(w)
<1>1. /\ opsGroup \in Nat /\ totalDocs \in Nat /\ completed \in [Windows -> Nat]
      /\ runFlag[w] <=> completed[w] >= totalDocs
  BY OpsGroupAssumption, TotalDocsAssumption DEF IInv, Shape, FlagTells
<1>2. /\ n <= totalDocs /\ ~ (n >= totalDocs /\ ~ runFlag[w])
      /\ asked' = [asked EXCEPT ![w][n] = @ + 1]
      /\ completed' = [completed EXCEPT ![w] = n]
      /\ runFlag' = runFlag /\ phase' = phase /\ rev' = rev
  BY DEF IssueNext, LastResult, Counts, Callback
<1>3. n = completed[w] + 1 /\ completed[w] \in Nat
  BY <1>1 DEF Counts
<1> HIDE DEF n
<1>4. n \in Nat /\ n # 0 /\ n < totalDocs /\ n \in Indices
  BY <1>1, <1>2, <1>3 DEF Indices
<1>5. asked \in [Windows -> [Indices -> Nat]]
  BY DEF AskedInv
<1>6. asked[w][n] = 0
  <2>1. ~ (asked[w][n] > 0)
    BY <1>3, <1>4 DEF AskedInv
  <2> QED
    BY <1>4, <1>5, <2>1
<1>7. \A v \in Windows, k \in Indices :
        asked'[v][k] = IF v = w /\ k = n THEN 1 ELSE asked[v][k]
  BY <1>2, <1>4, <1>5, <1>6
<1>8. \A v \in Windows : completed'[v] = IF v = w THEN n ELSE completed[v]
  BY <1>1, <1>2
<1>9. asked' \in [Windows -> [Indices -> Nat]]
  BY <1>2, <1>4, <1>5
<1>10. 0 \in Indices /\ "get" \in Windows /\ "update" \in Windows
  BY <1>1 DEF Indices, Windows
<1>11. \A v \in Windows : asked'[v][0] = asked[v][0]
  BY <1>4, <1>7, <1>10
<1>12. ASSUME NEW v \in Windows, NEW k \in Indices \ {0}
       PROVE  asked'[v][k] <= 1 /\ (asked'[v][k] > 0 => k <= completed'[v] /\ k < totalDocs)
  <2>1. CASE v = w /\ k = n
    BY <1>4, <1>7, <1>8, <2>1
  <2>2. CASE ~ (v = w /\ k = n)
    <3>1. asked'[v][k] = asked[v][k]
      BY <1>7, <2>2
    <3>2. asked[v][k] <= 1 /\ (asked[v][k] > 0 => k <= completed[v] /\ k < totalDocs)
      BY DEF AskedInv
    <3>3. completed'[v] >= completed[v] /\ completed[v] \in Nat /\ completed'[v] \in Nat
      BY <1>1, <1>3, <1>4, <1>8
    <3>4. k \in Int
      BY <1>1 DEF Indices
    <3> QED
      BY <3>1, <3>2, <3>3, <3>4
  <2> QED
    BY <2>1, <2>2
<1> QED
  BY <1>2, <1>9, <1>10, <1>11, <1>12 DEF AskedInv

\* A window of requests for test0, of a phase that asked for nothing yet.
LEMMA AskedStart ==
  ASSUME IInv, IInv', AskedInv, NEW w \in {"get", "update"}, StartWindow(w),
         asked[w][0] = 0, runFlag'["preload"], w = "update" => runFlag'["get"],
         phase' # "multi", rev' = rev,
         \A v \in Windows : completed'[v] >= completed[v] /\ (runFlag[v] => runFlag'[v])
  PROVE  AskedInv'
<1>1. opsGroup \in Nat /\ totalDocs \in Nat /\ 0 \in Indices /\ w \in Windows /\ "update" \in Windows
  BY OpsGroupAssumption, TotalDocsAssumption DEF Indices, Windows
<1>2. asked \in [Windows -> [Indices -> Nat]] /\ asked' = [asked EXCEPT ![w][0] = @ + opsGroup]
  BY DEF AskedInv, StartWindow
<1>3. \A v \in Windows, k \in Indices :
        asked'[v][k] = IF v = w /\ k = 0 THEN opsGroup ELSE asked[v][k]
  BY <1>1, <1>2
<1>4. asked' \in [Windows -> [Indices -> Nat]]
  BY <1>1, <1>2
<1>5. \A v \in Windows : asked'[v][0] <= opsGroup
  BY <1>1, <1>3 DEF AskedInv
<1>6. ~ runFlag'["get"] => asked'["update"][0] = 0
  <2> SUFFICES ASSUME ~ runFlag'["get"] PROVE asked'["update"][0] = 0
    OBVIOUS
  <2>1. w # "update" /\ ~ runFlag["get"]
    BY DEF Windows
  <2> QED
    BY <1>1, <1>3, <2>1 DEF AskedInv
<1>7. ASSUME NEW v \in Windows, NEW k \in Indices \ {0}
      PROVE  asked'[v][k] <= 1 /\ (asked'[v][k] > 0 => k <= completed'[v] /\ k < totalDocs)
  <2>1. asked'[v][k] = asked[v][k]
    BY <1>3
  <2>2. asked[v][k] <= 1 /\ (asked[v][k] > 0 => k <= completed[v] /\ k < totalDocs)
    BY DEF AskedInv
  <2>3. completed'[v] >= completed[v] /\ completed[v] \in Nat /\ completed'[v] \in Nat
    BY DEF IInv, Shape
  <2>4. k \in Int
    BY <1>1 DEF Indices
  <2> QED
    BY <2>1, <2>2, <2>3, <2>4
<1> QED
  BY <1>4, <1>5, <1>6, <1>7 DEF AskedInv

\* The result that ends a phase asks for nothing, or starts the updates.
LEMMA AskedResolve ==
  ASSUME IInv, IInv', AskedInv, NEW w \in Windows, Resolve(w)
  PROVE  AskedInv'
<1>1. /\ completed \in [Windows -> Nat] /\ runFlag \in [Windows -> BOOLEAN]
      /\ PhasesFollow' /\ Shape /\ Shape'
  BY DEF IInv, Shape
<1>2. /\ completed' = [completed EXCEPT ![w] = @ + 1] /\ runFlag' = [runFlag EXCEPT ![w] = TRUE]
      /\ rev' = rev /\ ~ runFlag[w]
  BY DEF Resolve, Callback, LastResult
<1>3. \A v \in Windows : completed'[v] >= completed[v] /\ (runFlag[v] => runFlag'[v])
  BY <1>1, <1>2
<1>4. rev'[totalDocs] <= 0
  BY <1>2 DEF AskedInv
<1>5. CASE w = "preload"
  <2>1. asked' = asked
    BY <1>5 DEF Resolve
  <2>2. ~ runFlag["preload"]
    BY <1>2, <1>5
  <2> QED
    BY <1>1, <1>3, <1>4, <2>1, <2>2, AskedSame
<1>6. CASE w = "get"
  <2>1. phase' = "update" /\ StartWindow("update")
    BY <1>6 DEF Resolve
  <2>2. runFlag'["get"]
    BY <1>1, <1>2, <1>6
  <2>3. runFlag'["preload"]
    BY <1>1, <2>2 DEF PhasesFollow
  <2>4. asked["update"][0] = 0
    BY <1>2, <1>6 DEF AskedInv
  <2> QED
    BY <1>2, <1>3, <2>1, <2>2, <2>3, <2>4, AskedStart
<1>7. CASE w = "update"
  <2>1. asked' = asked /\ phase' = "exit"
    BY <1>7 DEF Resolve
  <2> QED
    BY <1>1, <1>3, <1>4, <2>1, AskedSame
<1> QED
  BY <1>5, <1>6, <1>7 DEF Windows

\* getMulti ends the program, or the reads start.
LEMMA AskedMulti ==
  ASSUME IInv, IInv', AskedInv, MultiDone
  PROVE  AskedInv'
<1>1. phase = "multi" /\ completed' = completed /\ runFlag' = runFlag /\ rev' = rev
  BY DEF MultiDone
<1>2. /\ Shape /\ Shape' /\ runFlag["preload"]
      /\ \A v \in Windows : completed'[v] >= completed[v] /\ (runFlag[v] => runFlag'[v])
  BY <1>1 DEF IInv, Shape, PhasesFollow
<1>3. rev'[totalDocs] <= 0
  BY <1>1 DEF AskedInv
<1>4. CASE multi.failed
  <2>1. phase' = "crashed" /\ asked' = asked
    BY <1>4 DEF MultiDone
  <2> QED
    BY <1>2, <1>3, <2>1, AskedSame
<1>5. CASE ~ multi.failed
  <2>1. phase' = "get" /\ StartWindow("get")
    BY <1>5 DEF MultiDone
  <2>2. asked["get"][0] = 0
    BY <1>1 DEF AskedInv
  <2> QED
    BY <1>1, <1>2, <2>1, <2>2, AskedStart
<1> QED
  BY <1>4, <1>5

\* It is an invariant of the program.
THEOREM AskedInvariance == Spec => []AskedInv
<1>1. Init => AskedInv
  <2> SUFFICES ASSUME Init PROVE AskedInv
    OBVIOUS
  <2>1. opsGroup \in Nat \ {0} /\ totalDocs \in Nat \ {0} /\ 0 \in Indices /\ totalDocs \in Keys
    BY OpsGroupAssumption, TotalDocsAssumption DEF Indices, Keys
  <2>2. \A w \in Windows, k \in Indices :
          asked[w][k] = IF w = "preload" /\ k = 0 THEN opsGroup ELSE 0
    BY DEF Init
  <2>3. asked \in [Windows -> [Indices -> Nat]]
    BY <2>1 DEF Init
  <2>4. "get" \in Windows /\ "update" \in Windows /\ rev[totalDocs] = -1
    BY <2>1 DEF Init, Windows, Absent
  <2> QED
    BY <2>1, <2>2, <2>3, <2>4 DEF AskedInv
<1>2. IInv /\ IInv' /\ AskedInv /\ [Next]_vars => AskedInv'
  <2> SUFFICES ASSUME IInv, IInv', AskedInv, [Next]_vars PROVE AskedInv'
    OBVIOUS
  <2>1. ASSUME NEW k \in Keys, Serve(k) PROVE AskedInv'
    BY <2>1, AskedServe
  <2>2. ASSUME NEW w \in Windows, Resolve(w) PROVE AskedInv'
    BY <2>2, AskedResolve
  <2>3. ASSUME NEW w \in Windows, IssueNext(w) PROVE AskedInv'
    BY <2>3, AskedIssue
  <2>4. ASSUME NEW w \in Windows, LateResult(w) \/ LoggedError(w) PROVE AskedInv'
    BY <2>4, AskedQuiet
  <2>5. CASE PreloadError \/ MultiReply
    BY <2>5, AskedQuiet
  <2>6. CASE MultiDone
    BY <2>6, AskedMulti
  <2>7. CASE Stopped \/ UNCHANGED vars
    BY <2>7 DEF Stopped, vars, AskedInv
  <2>8. "get" \in Windows /\ "update" \in Windows
    BY DEF Windows
  <2> QED
    BY <2>1, <2>2, <2>3, <2>4, <2>5, <2>6, <2>7, <2>8 DEF Next, Run
<1> QED
  BY <1>1, <1>2, Invariance, PTL DEF Spec

\* What was asked for is within what is due.
LEMMA AskedDue ==
  ASSUME IInv, AskedInv
  PROVE  /\ asked \in [Windows -> [Indices -> 0 .. opsGroup]]
         /\ \A w \in Windows, k \in Indices : asked[w][k] <= Due(k)
<1>1. opsGroup \in Nat \ {0} /\ totalDocs \in Nat \ {0} /\ Indices \subseteq Nat
  BY OpsGroupAssumption, TotalDocsAssumption DEF Indices
<1>2. ASSUME NEW w \in Windows, NEW k \in Indices
      PROVE  asked[w][k] <= Due(k) /\ asked[w][k] \in 0 .. opsGroup
  <2>1. asked[w][k] \in Nat
    BY DEF AskedInv
  <2>2. CASE k = 0
    BY <1>1, <2>1, <2>2 DEF AskedInv, Due
  <2>3. CASE k # 0
    BY <1>1, <2>1, <2>3 DEF AskedInv, Due
  <2> QED
    BY <2>2, <2>3
<1>3. asked \in [Windows -> [Indices -> Nat]]
  BY DEF AskedInv
<1> QED
  BY <1>2, <1>3

\* The types, with the bounds of completed, errors, asked and rev: the callbacks
\* that come after the promise is resolved count, and nothing else.
THEOREM TypeCorrect == Spec => []TypeOK
<1>1. IInv /\ AskedInv => TypeOK
  BY AskedDue, TypesBounded DEF TypeOK, Shape
<1> QED
  BY <1>1, Invariance, AskedInvariance, PTL

\* Each document is created, read and updated as often as is due: the loop's
\* requests for test0, one for each other document, and none behind the last,
\* whatever callbacks come late and whatever requests fail.
THEOREM AsksOnce == Spec => []EachAskedOnce
<1>1. IInv /\ AskedInv => EachAskedOnce
  <2> SUFFICES ASSUME IInv, AskedInv PROVE EachAskedOnce
    OBVIOUS
  <2>1. ASSUME NEW j \in Keys PROVE rev[j] <= Due(j)
    <3>1. Shape /\ RevBounded /\ opsGroup \in Nat /\ totalDocs \in Nat \ {0} /\ j \in 0 .. totalDocs
      BY OpsGroupAssumption, TotalDocsAssumption DEF IInv, Keys
    <3>2. InSent("update", j) \in Nat
      BY <3>1, Counts_Nat DEF Ops, Windows
    <3>3. InSent("update", j) + rev[j] <= Limit(j) /\ Limit(j) \in Nat
      BY <3>1 DEF RevBounded, Limit
    <3>4. rev[j] \in Nat \cup {Absent} /\ Absent = -1
      BY <3>1 DEF Shape, Absent
    <3>5. rev[j] <= Limit(j)
      BY <3>2, <3>3, <3>4
    <3>6. j = totalDocs => rev[j] <= 0
      BY DEF AskedInv
    <3> QED
      BY <3>1, <3>4, <3>5, <3>6 DEF Limit, Due
  <2> QED
    BY <2>1, AskedDue DEF EachAskedOnce
<1> QED
  BY <1>1, Invariance, AskedInvariance, PTL

\* getMulti asks for documents whose upserts may still be in flight, and finds
\* them, unless a request failed.
THEOREM CrashNeedsFault == Spec => []CrashOnlyAfterFault
<1>1. ASSUME IInv PROVE CrashOnlyAfterFault
  <2>1. PhasesFollow /\ MultiFinds /\ faults \in Nat
    BY <1>1 DEF IInv, Shape
  <2>2. phase = "crashed" => faults # 0
    BY <2>1 DEF PhasesFollow, MultiFinds
  <2> QED
    BY <2>1, <2>2 DEF CrashOnlyAfterFault
<1> QED
  BY <1>1, Invariance, PTL

\* The program exits with at most opsGroup - 1 documents not updated: the
\* totalDocs results are those of distinct documents but for the window's
\* requests for test0.
THEOREM MissingFitsWindow == Spec => []AtMostWindowMissing
<1>1. ASSUME IInv PROVE AtMostWindowMissing
  <2> SUFFICES ASSUME phase = "exit"
               PROVE  Cardinality({j \in 0 .. totalDocs - 1 : rev[j] < 1}) <= opsGroup - 1
    BY DEF AtMostWindowMissing
  <2> DEFINE D == 1 .. totalDocs - 1
             M == {j \in 0 .. totalDocs - 1 : rev[j] < 1}
  <2>1. /\ Shape /\ FlagTells /\ PhasesFollow /\ ResultsCounted
        /\ opsGroup \in Nat \ {0} /\ totalDocs \in Nat \ {0}
    BY <1>1, OpsGroupAssumption, TotalDocsAssumption DEF IInv
  <2>2. /\ completed["update"] \in Nat /\ completed["update"] >= totalDocs
        /\ "update" \in Windows /\ "update" \in Ops /\ 0 \in Keys /\ D \subseteq Keys
    <3>1. "update" \in Windows /\ "update" \in Ops /\ 0 \in Keys /\ D \subseteq Keys
      BY <2>1 DEF Windows, Ops, Keys
    <3>2. runFlag["update"]
      BY <2>1 DEF PhasesFollow
    <3> QED
      BY <2>1, <3>1, <3>2 DEF FlagTells, Shape
  <2>3. IsFiniteSet(D) /\ Cardinality(D) = totalDocs - 1
    <3>1. 1 \in Int /\ totalDocs - 1 \in Int
      BY <2>1
    <3>2. /\ IsFiniteSet(D)
          /\ Cardinality(D) = IF 1 > totalDocs - 1 THEN 0 ELSE (totalDocs - 1) - 1 + 1
      BY <3>1, FS_Interval
    <3> QED
      BY <2>1, <3>2
  <2>4. Updated \subseteq D
    BY DEF Updated
  <2>5. /\ IsFiniteSet(Updated) /\ Cardinality(Updated) \in Nat /\ Cardinality(Updated) <= totalDocs - 1
    BY <2>3, <2>4, FS_Subset, FS_CardinalityType
  <2>6. Inflight("update", 0) \in Nat
    BY <2>1, <2>2, Counts_Nat
  <2>7. completed["update"] <= Cardinality(Updated) + (IF rev[0] >= 1 THEN opsGroup - Inflight("update", 0) ELSE 0)
    BY <2>1 DEF ResultsCounted
  <2>8. rev[0] >= 1
    BY <2>1, <2>2, <2>5, <2>7
  <2>9. totalDocs <= Cardinality(Updated) + opsGroup
    BY <2>1, <2>2, <2>5, <2>6, <2>7, <2>8
  <2>10. M \subseteq D \ Updated
    <3> SUFFICES ASSUME NEW j \in 0 .. totalDocs - 1, rev[j] < 1 PROVE j \in D \ Updated
      OBVIOUS
    <3>1. j \in Keys /\ rev[j] \in Nat \cup {Absent} /\ Absent = -1 /\ rev[0] \in Nat \cup {Absent}
      BY <2>1, <2>2 DEF Shape, Keys, Absent
    <3>2. j # 0
      BY <2>8, <3>1
    <3>3. j \notin Updated
      BY <3>1 DEF Updated
    <3> QED
      BY <2>1, <3>2, <3>3
  <2>11. IsFiniteSet(D \ Updated) /\ Cardinality(D \ Updated) = Cardinality(D) - Cardinality(Updated)
    <3>1. Cardinality(D \ Updated) = Cardinality(D) - Cardinality(D \cap Updated) /\ IsFiniteSet(D \ Updated)
      BY <2>3, FS_Difference
    <3>2. D \cap Updated = Updated
      BY <2>4
    <3> QED
      BY <3>1, <3>2
  <2>12. Cardinality(M) <= Cardinality(D \ Updated) /\ IsFiniteSet(M)
    BY <2>10, <2>11, FS_Subset
  <2>13. Cardinality(M) \in Nat
    BY <2>12, FS_CardinalityType
  <2> QED
    BY <2>1, <2>3, <2>5, <2>9, <2>11, <2>12, <2>13
<1> QED
  BY <1>1, Invariance, PTL
=============================================================================
