----------------------------- MODULE CJsonItems -----------------------------
(***************************************************************************)
(* c/bincoding/cJSON.c, the items: doubly linked lists of children, pools  *)
(* with a reference count that parsed items are taken from, and references *)
(* that share the children of another item.                                *)
(*                                                                         *)
(* The heap is a record, each function of the source an operator from heap *)
(* to heap; an operator that also returns an item gives a record with both.*)
(* Memory is a set of item-sized addresses: a malloc fails when there are  *)
(* not enough of them.  Types and values of items are left out (any item   *)
(* may have children, a scalar has none); names are kept, by which objects *)
(* find their members.                                                     *)
(***************************************************************************)
EXTENDS Integers, FiniteSets, Sequences

CONSTANTS Addrs,      \* the addresses malloc can return
          Pools,      \* the pools that can exist at a time
          Names,      \* the member names, already in lower case
          BlockSize,  \* CJSON_POOL_ALLOC_SIZE (1024)
          Shapes      \* the texts that get parsed, see ParseItems

Null   == 0
NoPool == "none"
NoName == "unnamed"

ASSUME AddrsAssumption  == Null \notin Addrs /\ IsFiniteSet(Addrs)
ASSUME PoolsAssumption  == NoPool \notin Pools /\ IsFiniteSet(Pools)
ASSUME NamesAssumption  == NoName \notin Names
ASSUME BlockAssumption  == BlockSize \in Nat \ {0}
ASSUME ShapesAssumption == \A s \in Shapes : /\ s # <<>>
                                             /\ \A i \in DOMAIN s : s[i].parent < i

VARIABLES heap,    \* what memory holds
          memory   \* "enough"; "short" once an item belongs to a pool that
                   \* does not count it; "assert" or "crash" when that, or a
                   \* missing item, has ended the program

vars == <<heap, memory>>

Zero == [next |-> Null, prev |-> Null, child |-> Null,
         ref |-> FALSE, pool |-> NoPool, name |-> NoName]

(***************************************************************************)
(* mem       what is stored at an address                                  *)
(* live      the items in use                                              *)
(* pools     the pools that exist                                          *)
(* block     the addresses in a pool's blocks, free those on its free list *)
(* refcount  the pool's counter                                            *)
(***************************************************************************)
Init == /\ heap = [mem      |-> [a \in Addrs |-> Zero],
                   live     |-> {},
                   pools    |-> {},
                   block    |-> [p \in Pools |-> {}],
                   free     |-> [p \in Pools |-> {}],
                   refcount |-> [p \in Pools |-> 0]]
        /\ memory = "enough"
-----------------------------------------------------------------------------
(* Allocation.                                                             *)

Unmapped(h) == Addrs \ (h.live \cup UNION {h.block[p] : p \in Pools})

\* Which of the unused addresses it is makes no difference.
AnyOf(S) == CHOOSE a \in S : TRUE

NewBlock(h, p) ==
  LET b == CHOOSE S \in SUBSET Unmapped(h) : Cardinality(S) = BlockSize
  IN  IF Cardinality(Unmapped(h)) < BlockSize
      THEN h
      ELSE [h EXCEPT !.mem = [a \in Addrs |-> IF a \in b THEN Zero ELSE @[a]],
                     !.block[p] = @ \cup b,
                     !.free[p] = @ \cup b]

\* Mutant: only the items a new block is made for are counted.
PoolNewItem_CountBlocks(h, p) ==
  LET g == IF h.free[p] = {} THEN NewBlock(h, p) ELSE h
      a == AnyOf(g.free[p])
  IN  IF g.free[p] = {}
      THEN [heap |-> g, item |-> Null]
      ELSE [heap |-> [g EXCEPT !.free[p] = @ \ {a},
                               !.refcount[p] = IF g = h THEN @ ELSE @ + 1,
                               !.live = @ \cup {a},
                               !.mem[a].pool = p],
            item |-> a]

\* All items on the free list are already zeroed.
PoolNewItem(h, p) ==
  LET g == IF h.free[p] = {} THEN NewBlock(h, p) ELSE h
      a == AnyOf(g.free[p])
  IN  IF g.free[p] = {}
      THEN [heap |-> g, item |-> Null]
      ELSE [heap |-> [g EXCEPT !.free[p] = @ \ {a},
                               !.refcount[p] = @ + 1,
                               !.live = @ \cup {a},
                               !.mem[a].pool = p],
            item |-> a]

MallocItem(h) ==
  LET a == AnyOf(Unmapped(h))
  IN  IF Unmapped(h) = {}
      THEN [heap |-> h, item |-> Null]
      ELSE [heap |-> [h EXCEPT !.live = @ \cup {a}, !.mem[a] = Zero],
            item |-> a]

PoolOf(h, parent) == IF parent = Null THEN NoPool ELSE h.mem[parent].pool

NewItem(h, parent) ==
  LET p == PoolOf(h, parent)
      r == PoolNewItem(h, p)
  IN  IF p = NoPool THEN MallocItem(h)
      ELSE IF r.item = Null THEN MallocItem(r.heap) ELSE r
-----------------------------------------------------------------------------
(* Lists of children.                                                      *)

\* The items of the list that starts at a.
Chain(h, a) ==
  LET f[n \in 0 .. Cardinality(Addrs)] ==
        IF n = 0 THEN IF a = Null THEN <<>> ELSE <<a>>
        ELSE LET s == f[n-1]
             IN  IF s = <<>> \/ h.mem[s[Len(s)]].next = Null
                 THEN s ELSE Append(s, h.mem[s[Len(s)]].next)
  IN  f[Cardinality(Addrs)]

Children(h, a) == Chain(h, h.mem[a].child)

SuffixObject(h, prev, a) == [h EXCEPT !.mem[prev].next = a, !.mem[a].prev = prev]

AddItemToArray(h, array, a) ==
  LET s == Children(h, array)
  IN  IF s = <<>> THEN [h EXCEPT !.mem[array].child = a]
                  ELSE SuffixObject(h, s[Len(s)], a)

AddItem(h, array, name, a) ==
  AddItemToArray([h EXCEPT !.mem[a].name = name], array, a)

\* The position of the first member of that name, as DetachItemFromObject and
\* ReplaceItemInObject count it, from 0; the length of the list if there is none.
IndexOf(h, object, name) ==
  LET s == Children(h, object)
      found(i) == i > Len(s) \/ h.mem[s[i]].name = name
  IN  (CHOOSE i \in 1 .. Len(s)+1 : found(i) /\ \A j \in 1 .. i-1 : ~ found(j)) - 1

ItemAt(h, array, which) ==
  LET s == Children(h, array)
  IN  IF which < Len(s) THEN s[which + 1] ELSE Null

\* Mutant: the next item keeps its link back.
Detach_OneWay(h, array, c) ==
  LET prev == h.mem[c].prev
      next == h.mem[c].next
      m1 == IF prev # Null THEN [h.mem EXCEPT ![prev].next = next] ELSE h.mem
      m2 == IF c = h.mem[array].child THEN [m1 EXCEPT ![array].child = next] ELSE m1
  IN  [h EXCEPT !.mem = [m2 EXCEPT ![c].prev = Null, ![c].next = Null]]

\* Unlinks the item; its neighbours and the parent close the gap.
Detach(h, array, c) ==
  LET prev == h.mem[c].prev
      next == h.mem[c].next
      m1 == IF prev # Null THEN [h.mem EXCEPT ![prev].next = next] ELSE h.mem
      m2 == IF next # Null THEN [m1 EXCEPT ![next].prev = prev] ELSE m1
      m3 == IF c = h.mem[array].child THEN [m2 EXCEPT ![array].child = next] ELSE m2
  IN  [h EXCEPT !.mem = [m3 EXCEPT ![c].prev = Null, ![c].next = Null]]

\* Puts the new item where c is; c is left without neighbours.
Substitute(h, array, c, new) ==
  LET prev == h.mem[c].prev
      next == h.mem[c].next
      m1 == [h.mem EXCEPT ![new].next = next, ![new].prev = prev]
      m2 == IF next # Null THEN [m1 EXCEPT ![next].prev = new] ELSE m1
      m3 == IF c = h.mem[array].child THEN [m2 EXCEPT ![array].child = new]
                                      ELSE [m2 EXCEPT ![prev].next = new]
  IN  [h EXCEPT !.mem = [m3 EXCEPT ![c].prev = Null, ![c].next = Null]]
-----------------------------------------------------------------------------
(* Deletion.                                                               *)

\* Mutant: a reference's children are deleted with it.
Visited_References(h, c) ==
  LET Succ(S) == UNION {{h.mem[a].next, h.mem[a].child} : a \in S} \ {Null}
      f[n \in 0 .. Cardinality(Addrs)] ==
        IF n = 0 THEN {c} \ {Null} ELSE LET S == f[n-1] IN S \cup Succ(S)
  IN  f[Cardinality(Addrs)]

\* What cJSON_Delete(c) visits: c, the items after it, and below each of them
\* its children, unless it is a reference.
Visited(h, c) ==
  LET Succ(S) == ({h.mem[a].next : a \in S}
                  \cup {h.mem[a].child : a \in {b \in S : ~ h.mem[b].ref}}) \ {Null}
      f[n \in 0 .. Cardinality(Addrs)] ==
        IF n = 0 THEN {c} \ {Null} ELSE LET S == f[n-1] IN S \cup Succ(S)
  IN  f[Cardinality(Addrs)]

Of(h, S, p) == {a \in S : h.mem[a].pool = p}

\* Frees the items of D one by one.  A pool's counter goes down once for each
\* of its items; at 0 the pool and all its blocks are freed.
FreeItems(h, D) ==
  LET left(p) == h.refcount[p] - Cardinality(Of(h, D, p))
      dead == {p \in h.pools : Of(h, D, p) # {} /\ left(p) <= 0}
      gone == UNION {h.block[p] : p \in dead}
  IN  [mem      |-> [a \in Addrs |-> IF a \in D \cup gone THEN Zero ELSE h.mem[a]],
       live     |-> h.live \ (D \cup gone),
       pools    |-> h.pools \ dead,
       block    |-> [p \in Pools |-> IF p \in dead THEN {} ELSE h.block[p]],
       free     |-> [p \in Pools |-> IF p \in dead THEN {} ELSE h.free[p] \cup Of(h, D, p)],
       refcount |-> [p \in Pools |-> IF p \in dead THEN 0 ELSE left(p)]]

Delete(h, c) == FreeItems(h, Visited(h, c))
-----------------------------------------------------------------------------
(* Parsing.                                                                *)

\* A pool nobody points at; the malloc of a pool fails when there is none.
NewPool(h) ==
  LET unused == Pools \ (h.pools \cup {h.mem[a].pool : a \in h.live})
  IN  IF unused = {} THEN NoPool ELSE AnyOf(unused)

\* The root: from a new pool, or malloc'ed, and even then of that pool.
NewRoot(h) ==
  LET p == NewPool(h)
      g == IF p = NoPool THEN h ELSE [h EXCEPT !.pools = @ \cup {p}]
      r == IF p = NoPool THEN [heap |-> g, item |-> Null] ELSE PoolNewItem(g, p)
      c == IF r.item = Null THEN MallocItem(r.heap) ELSE r
  IN  IF c.item = Null THEN c
      ELSE [c EXCEPT !.heap.mem[c.item].pool = p]

\* A shape lists the values of a text in the order they are met: the root, of
\* parent 0, then each value with the number of the array or object it is in
\* and its name.  at holds the items made so far, end how it ended: an array,
\* or an object that has a member, gives up when there is no item.
ParseItems(h, shape) ==
  LET root == NewRoot(h)
      first(i) == \A j \in 1 .. i-1 : shape[j].parent # shape[i].parent
      f[i \in 1 .. Len(shape)] ==
        IF i = 1
        THEN [heap |-> root.heap, at |-> <<root.item>>,
              end |-> IF root.item = Null THEN "fail" ELSE "ok"]
        ELSE LET s == f[i-1]
                 v == shape[i]
                 parent == s.at[v.parent]
                 r == NewItem(s.heap, parent)
             IN  IF s.end # "ok" THEN s
                 ELSE IF r.item = Null
                 THEN [s EXCEPT !.heap = r.heap,
                                !.end = IF v.name # NoName /\ first(i) THEN "crash" ELSE "fail"]
                 ELSE [s EXCEPT !.heap = AddItem(r.heap, parent, v.name, r.item),
                                !.at = Append(@, r.item)]
  IN  f[Len(shape)]

CreateReference(h, a) ==
  LET r == NewItem(h, a)
  IN  [r EXCEPT !.heap.mem[r.item] =
                  [h.mem[a] EXCEPT !.name = NoName, !.ref = TRUE, !.next = Null, !.prev = Null]]
-----------------------------------------------------------------------------
(* The callers of the library.  They may use what no item contains as they *)
(* like, an item inside another only through that other one; they neither  *)
(* put an item into itself nor change or delete children that a reference  *)
(* shares.                                                                 *)

Contained(h) == UNION {{Children(h, a)[i] : i \in DOMAIN Children(h, a)} :
                          a \in {b \in h.live : ~ h.mem[b].ref}}

Roots(h) == h.live \ Contained(h)

Shared(h, D) == \E r \in h.live \ D : h.mem[r].ref /\ h.mem[r].child \in D

\* The items below a, and a.
Below(h, a) == {a} \cup (IF h.mem[a].ref THEN {} ELSE Visited(h, h.mem[a].child))

Changeable(h, a) == /\ ~ h.mem[a].ref
                    /\ \A r \in h.live : h.mem[r].ref /\ h.mem[r].child # Null
                                            => h.mem[r].child # h.mem[a].child

\* An item whose pool does not count it.
Uncounted(h) == \E a \in h.live : LET p == h.mem[a].pool
                                  IN  p # NoPool /\ a \notin h.block[p]

Becomes(h) == /\ heap' = h
              /\ memory' = IF Uncounted(h) THEN "short" ELSE memory

Dies(how) == memory' = how /\ UNCHANGED heap

\* Deleting c from h: the assertion of cJSON_Pool_Free_Item, or the use of a
\* pool that is gone, when a pool's counter is at 0 before all its items are freed.
DeletesFrom(h, c) ==
  LET D == Visited(h, c)
  IN  IF \E p \in Pools : Cardinality(Of(h, D, p)) > h.refcount[p]
      THEN Dies(IF \E p \in Pools : Of(h, D, p) # {} /\ h.refcount[p] = 0
                THEN "assert" ELSE "crash")
      ELSE Becomes(Delete(h, c))

Create ==
  /\ memory = "enough"
  /\ LET r == NewItem(heap, Null)
     IN  IF r.item = Null THEN Dies("crash") ELSE Becomes(r.heap)

\* cJSON_CreateIntArray and its likes, with two entries.
CreateArrayOfTwo ==
  /\ memory = "enough"
  /\ LET a == NewItem(heap, Null)
         n == NewItem(a.heap, Null)
         m == NewItem(n.heap, Null)
     IN  IF Null \in {a.item, n.item, m.item} THEN Dies("crash")
         ELSE Becomes(SuffixObject([m.heap EXCEPT !.mem[a.item].child = n.item],
                                   n.item, m.item))

\* malformed: the text ends in an error after its last value.
Parse(shape, malformed) ==
  /\ memory = "enough"
  /\ LET r == ParseItems(heap, shape)
     IN  CASE r.end = "crash"   -> Dies("crash")
           [] r.at[1] = Null    -> Becomes(r.heap)
           [] r.at[1] # Null /\ r.end # "crash" ->
                IF r.end = "fail" \/ malformed THEN DeletesFrom(r.heap, r.at[1])
                                               ELSE Becomes(r.heap)

\* To an array (name is NoName) or to an object.
Add(array, name, a) ==
  /\ memory = "enough"
  /\ a \in Roots(heap) /\ array \notin Below(heap, a)
  /\ Changeable(heap, array)
  /\ Becomes(IF name = NoName THEN AddItemToArray(heap, array, a)
                              ELSE AddItem(heap, array, name, a))

AddReference(array, name, a) ==
  /\ memory = "enough"
  /\ array \notin Below(heap, a) /\ Changeable(heap, array)
  /\ LET r == CreateReference(heap, a)
     IN  IF NewItem(heap, a).item = Null THEN Dies("crash")
         ELSE Becomes(IF name = NoName THEN AddItemToArray(r.heap, array, r.item)
                                       ELSE AddItem(r.heap, array, name, r.item))

DetachItem(array, which) ==
  /\ memory = "enough"
  /\ Changeable(heap, array)
  /\ LET c == ItemAt(heap, array, which)
     IN  IF c = Null THEN UNCHANGED vars ELSE Becomes(Detach(heap, array, c))

DeleteItem(array, which) ==
  /\ memory = "enough"
  /\ Changeable(heap, array)
  /\ LET c == ItemAt(heap, array, which)
     IN  IF c = Null THEN UNCHANGED vars
         ELSE /\ ~ Shared(heap, Below(heap, c))
              /\ DeletesFrom(Detach(heap, array, c), c)

\* In an object the new item takes the name it replaces.
ReplaceItem(array, which, name, new) ==
  /\ memory = "enough"
  /\ Changeable(heap, array)
  /\ new \in Roots(heap) /\ array \notin Below(heap, new)
  /\ LET c == ItemAt(heap, array, which)
         h == IF name = NoName THEN heap ELSE [heap EXCEPT !.mem[new].name = name]
     IN  IF c = Null THEN UNCHANGED vars
         ELSE /\ ~ Shared(heap, Below(heap, c))
              /\ DeletesFrom(Substitute(h, array, c, new), c)

DeleteRoot(a) ==
  /\ memory \in {"enough", "short"}
  /\ a \in Roots(heap)
  /\ ~ Shared(heap, Below(heap, a))
  /\ DeletesFrom(heap, a)

Next == \/ Create
        \/ CreateArrayOfTwo
        \/ \E s \in Shapes, m \in BOOLEAN : Parse(s, m)
        \/ \E x, a \in heap.live, n \in Names \cup {NoName} :
             Add(x, n, a) \/ AddReference(x, n, a)
        \/ \E x \in heap.live : \E i \in 0 .. Len(Children(heap, x)) :
             DetachItem(x, i) \/ DeleteItem(x, i)
        \/ \E x \in heap.live, n \in Names :
             DetachItem(x, IndexOf(heap, x, n)) \/ DeleteItem(x, IndexOf(heap, x, n))
        \/ \E x, a \in heap.live : \E i \in 0 .. Len(Children(heap, x)) :
             ReplaceItem(x, i, NoName, a)
        \/ \E x, a \in heap.live, n \in Names : ReplaceItem(x, IndexOf(heap, x, n), n, a)
        \/ \E a \in heap.live : DeleteRoot(a)

Spec == Init /\ [][Next]_vars
-----------------------------------------------------------------------------
(* Properties.                                                             *)

\* Every list of children is a list: it ends, its links back are its links
\* forward read backwards, and no item is in two lists or twice in one
\* (cJSON_Delete frees an item for each list it is met in).  This is about the
\* relinking in cJSON_DetachItemFromArray, cJSON_ReplaceItemInArray and suffix_object.
ListsWellLinked ==
  memory = "enough" =>
    LET owners == {a \in heap.live : ~ heap.mem[a].ref}
        back(s, i) == IF i = 1 THEN Null ELSE s[i-1]
    IN  /\ \A a \in owners : LET s == Children(heap, a)
                             IN  /\ Len(s) <= Cardinality(Addrs)
                                 /\ \A i \in DOMAIN s : /\ s[i] \in heap.live
                                                        /\ heap.mem[s[i]].prev = back(s, i)
        /\ \A a, b \in owners :
             \A i \in DOMAIN Children(heap, a), j \in DOMAIN Children(heap, b) :
               Children(heap, a)[i] = Children(heap, b)[j] => a = b /\ i = j
        /\ \A a \in Roots(heap) : heap.mem[a].prev = Null /\ heap.mem[a].next = Null

\* The counter of a pool is the number of its items in use wherever they have
\* been moved since, the rest of its blocks is on its free list, and it lives as
\* long as one of its items does (alloc_pool and refcount of struct cJSON).
PoolsCountTheirItems ==
  memory = "enough" =>
    \A p \in Pools :
      /\ heap.refcount[p] = Cardinality({a \in heap.live : heap.mem[a].pool = p})
      /\ heap.free[p] = heap.block[p] \ heap.live
      /\ heap.refcount[p] > 0 => p \in heap.pools

\* Callers see trees: a list operation changes the one list it is for, and only
\* deleting a tree takes items away, all of it and nothing else.
Trees == INSTANCE ItemTrees WITH
           tree   <- [a \in heap.live |-> [kids |-> Children(heap, a),
                                          name |-> heap.mem[a].name,
                                          ref  |-> heap.mem[a].ref]],
           enough <- memory = "enough"

ImplementsItemTrees == Trees!Spec
=============================================================================
