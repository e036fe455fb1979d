----------------------------- MODULE CasCProofs -----------------------------
(***************************************************************************)
(* Proofs about CasC for any number of threads and any choice of failures. *)
(***************************************************************************)
EXTENDS CasC, FiniteSetTheorems, SequenceTheorems, TLAPS

\* The item of t is in the list s; it is not in it twice; no item is.
In(t, s)         == \E i \in DOMAIN s : s[i] = t
AtMostOnce(t, s) == \A i, j \in DOMAIN s : s[i] = t /\ s[j] = t => i = j
NoTwice(s)       == \A t \in Threads : AtMostOnce(t, s)

\* An item is not in a list before its thread has returned, or twice.
Clean(t, s) == AtMostOnce(t, s) /\ (In(t, s) => pc[t] = "done")

\* CAS values only grow.
Clock == store.cas <= store.clock /\ \A t \in Threads : res[t].cas <= store.clock

\* A thread that is about to store holds the list it read with that CAS, and
\* has a CAS unless its get failed or found nothing.
Snapshots ==
  \A t \in Threads : pc[t] = "store" =>
    /\ Exists(store) /\ res[t].cas = store.cas => res[t].value = store.val
    /\ faults \cap {"get", "initial"} = {} => res[t].cas # NoCas

\* What is stored and what is about to be extended are lists.
Lists ==
  faults \cap {"get", "initial"} = {} =>
    /\ Exists(store) => IsList(store.val)
    /\ \A t \in Threads : pc[t] = "store" => IsList(res[t].value)

\* Once a list was stored there is one.
Present ==
  main \in {"unsafe", "get1", "count1", "store2", "safe", "get2", "count2", "done"} /\ "initial" \notin faults
    => Exists(store)

\* A thread of the second phase that has returned has its item in the list.
Kept ==
  InSafePhase /\ faults \cap {"get", "initial", "unsafeStore"} = {} =>
    \A t \in Threads \ unsent : pc[t] = "done" => Exists(store) /\ In(t, store.val)

\* The items of the other threads are clean wherever they are.
Once ==
  InSafePhase /\ faults \cap {"initial", "unsafeStore"} = {} =>
    \A u \in Threads \ unheard :
      /\ Clean(u, store.val)
      /\ \A t \in Threads : pc[t] = "store" => Clean(u, res[t].value)

\* What a store that is still on its way can do: unless a "[]" or a replace of
\* the first phase timed out or a get failed it has a CAS, and if it is still
\* accepted then it keeps every item; it belongs to the second phase.
Sound(r) ==
  /\ r.cas <= store.clock
  /\ faults \cap {"get", "initial"} = {} => IsList(r.text)
  /\ faults \cap {"get", "initial", "unsafeStore"} = {} =>
       /\ r.cas # NoCas
       /\ r.cas = store.cas => \A u \in Threads : In(u, store.val) => In(u, r.text)
  /\ faults \cap {"initial", "unsafeStore"} = {} =>
       /\ ~ r.set
       /\ InSafePhase \/ main = "exited"
       /\ \A u \in Threads \ unheard : Clean(u, r.text)
Late == \A r \in late : Sound(r)

\* What is counted at the end is the list.
Counted ==
  faults = {} => /\ late = {} /\ unheard = {} /\ unsent = {}
                 /\ main = "count2" => mres.value = store.val
                 /\ main = "done" => counted = CountListItems(store.val)

IInv == /\ TypeOK /\ Clock /\ Snapshots /\ Lists /\ Present /\ Kept /\ Once
        /\ Late /\ Counted
-----------------------------------------------------------------------------
(* The text add_item_to_list makes of a text. *)

\* An item is none of the list's own characters.
LEMMA ItemsAreNotBrackets ==
  \A u \in Threads : u # "open" /\ u # "comma" /\ u # "close"
<1> SUFFICES ASSUME NEW u \in Threads, u \in {"open", "comma", "close"} PROVE FALSE
  OBVIOUS
<1>1. u \in Threads \cap {"open", "comma", "close"}
  OBVIOUS
<1>2. Threads \cap {"open", "comma", "close"} = {}
  BY Zenon, ThreadsAssumption
<1> QED
  BY <1>1, <1>2

\* Everything but the last character is kept; the item goes before the bracket,
\* after a comma unless the text was two characters long.
LEMMA AddItemText ==
  ASSUME NEW old \in Seq(Token), NEW t \in Threads
  PROVE  \E p \in Nat :
           /\ Len(old) = 0 => p = 0
           /\ Len(old) > 0 => p = Len(old) - 1
           /\ AddItem(old, t) \in Seq(Token)
           /\ \A i \in 1 .. p : AddItem(old, t)[i] = old[i]
           /\ Len(old) = 2 => /\ Len(AddItem(old, t)) = p + 2
                              /\ AddItem(old, t)[p + 1] = t /\ AddItem(old, t)[p + 2] = "close"
           /\ Len(old) # 2 => /\ Len(AddItem(old, t)) = p + 3
                              /\ AddItem(old, t)[p + 1] = "comma" /\ AddItem(old, t)[p + 2] = t
                              /\ AddItem(old, t)[p + 3] = "close"
<1> DEFINE a == SubSeq(old, 1, Len(old) - 1)
           p == IF Len(old) = 0 THEN 0 ELSE Len(old) - 1
           end == <<t, "close">>
<1>1. Len(old) \in Nat /\ p \in Nat
  OBVIOUS
<1>2. t \in Token /\ "close" \in Token /\ "comma" \in Token
  BY DEF Token
<1>3. a \in Seq(Token) /\ Len(a) = p /\ \A i \in 1 .. p : a[i] = old[i]
  <2>1. CASE Len(old) = 0
    <3>1. old = <<>> /\ p = 0
      BY <2>1
    <3>2. a = <<>>
      BY <2>1
    <3> QED
      BY <3>1, <3>2
  <2>2. CASE Len(old) # 0
    <3>1. 1 \in 1 .. Len(old) + 1 /\ Len(old) - 1 \in 0 .. Len(old) /\ p = Len(old) - 1
      BY <1>1, <2>2
    <3> QED
      BY <1>1, <3>1
  <2> QED
    BY <2>1, <2>2
<1>4. end \in Seq(Token) /\ Len(end) = 2 /\ end[1] = t /\ end[2] = "close"
  BY <1>2
<1>5. \A s, r \in Seq(Token) :
        /\ s \o r \in Seq(Token) /\ Len(s \o r) = Len(s) + Len(r)
        /\ \A i \in 1 .. Len(s) + Len(r) : (s \o r)[i] = IF i <= Len(s) THEN s[i] ELSE r[i - Len(s)]
  BY ConcatProperties
<1> HIDE DEF a, p, end
<1>6. CASE Len(old) = 2
  <2>1. AddItem(old, t) = a \o <<>> \o end
    BY <1>6 DEF AddItem, a, end
  <2>2. a \o <<>> = a
    BY <1>3
  <2>3. AddItem(old, t) = a \o end
    BY <2>1, <2>2
  <2>4. /\ AddItem(old, t) \in Seq(Token) /\ Len(AddItem(old, t)) = p + 2
        /\ \A i \in 1 .. p + 2 : AddItem(old, t)[i] = IF i <= p THEN a[i] ELSE end[i - p]
    <3>1. Len(a) + Len(end) = p + 2
      BY <1>3, <1>4
    <3>2. /\ a \o end \in Seq(Token) /\ Len(a \o end) = Len(a) + Len(end)
          /\ \A i \in 1 .. Len(a) + Len(end) :
               (a \o end)[i] = IF i <= Len(a) THEN a[i] ELSE end[i - Len(a)]
      BY <1>3, <1>4, <1>5
    <3> QED
      BY <1>3, <2>3, <3>1, <3>2
  <2>5. \A i \in 1 .. p : AddItem(old, t)[i] = old[i]
    BY <1>1, <1>3, <2>4
  <2>6. AddItem(old, t)[p + 1] = t
    <3>1. p + 1 \in 1 .. p + 2 /\ ~ (p + 1 <= p) /\ (p + 1) - p = 1
      BY <1>1
    <3> QED
      BY <1>4, <2>4, <3>1
  <2>7. AddItem(old, t)[p + 2] = "close"
    <3>1. p + 2 \in 1 .. p + 2 /\ ~ (p + 2 <= p) /\ (p + 2) - p = 2
      BY <1>1
    <3> QED
      BY <1>4, <2>4, <3>1
  <2>8. (Len(old) = 0 => p = 0) /\ (Len(old) > 0 => p = Len(old) - 1)
    BY <1>1, <1>6 DEF p
  <2> QED
    BY <1>1, <1>6, <2>4, <2>5, <2>6, <2>7, <2>8
<1>7. CASE Len(old) # 2
  <2>1. AddItem(old, t) = a \o <<"comma">> \o end
    BY <1>7 DEF AddItem, a, end
  <2>2. <<"comma">> \in Seq(Token) /\ Len(<<"comma">>) = 1 /\ <<"comma">>[1] = "comma"
    BY <1>2
  <2>3. /\ a \o <<"comma">> \in Seq(Token) /\ Len(a \o <<"comma">>) = p + 1
        /\ \A i \in 1 .. p + 1 : (a \o <<"comma">>)[i] = IF i <= p THEN a[i] ELSE <<"comma">>[i - p]
    BY <1>3, <1>5, <2>2
  <2>4. /\ AddItem(old, t) \in Seq(Token) /\ Len(AddItem(old, t)) = (p + 1) + 2
        /\ \A i \in 1 .. (p + 1) + 2 :
             AddItem(old, t)[i] = IF i <= p + 1 THEN (a \o <<"comma">>)[i] ELSE end[i - (p + 1)]
    <3> DEFINE b == a \o <<"comma">>
    <3>1. b \in Seq(Token) /\ Len(b) = p + 1 /\ AddItem(old, t) = b \o end
      BY <2>1, <2>3
    <3> HIDE DEF b
    <3>2. /\ b \o end \in Seq(Token) /\ Len(b \o end) = (p + 1) + 2
          /\ \A i \in 1 .. (p + 1) + 2 : (b \o end)[i] = IF i <= p + 1 THEN b[i] ELSE end[i - (p + 1)]
      <4>1. Len(b) + Len(end) = (p + 1) + 2
        BY <1>4, <3>1
      <4>2. /\ b \o end \in Seq(Token) /\ Len(b \o end) = Len(b) + Len(end)
            /\ \A i \in 1 .. Len(b) + Len(end) :
                 (b \o end)[i] = IF i <= Len(b) THEN b[i] ELSE end[i - Len(b)]
        BY <1>4, <1>5, <3>1
      <4> QED
        BY <3>1, <4>1, <4>2
    <3> QED
      BY <3>1, <3>2 DEF b
  <2>5. ASSUME NEW i \in 1 .. p PROVE AddItem(old, t)[i] = old[i]
    <3>1. i \in 1 .. p + 1 /\ i \in 1 .. (p + 1) + 2 /\ i <= p /\ i <= p + 1
      BY <1>1
    <3> QED
      BY <1>3, <2>3, <2>4, <3>1
  <2>6. AddItem(old, t)[p + 1] = "comma"
    <3>1. p + 1 \in 1 .. p + 1 /\ p + 1 \in 1 .. (p + 1) + 2 /\ ~ (p + 1 <= p) /\ p + 1 <= p + 1 /\ (p + 1) - p = 1
      BY <1>1
    <3> QED
      BY <2>2, <2>3, <2>4, <3>1
  <2>7. AddItem(old, t)[p + 2] = t
    <3>1. p + 2 \in 1 .. (p + 1) + 2 /\ ~ (p + 2 <= p + 1) /\ (p + 2) - (p + 1) = 1
      BY <1>1
    <3> QED
      BY <1>4, <2>4, <3>1
  <2>8. AddItem(old, t)[p + 3] = "close"
    <3>1. p + 3 \in 1 .. (p + 1) + 2 /\ ~ (p + 3 <= p + 1) /\ (p + 3) - (p + 1) = 2
      BY <1>1
    <3> QED
      BY <1>4, <2>4, <3>1
  <2>9. (Len(old) = 0 => p = 0) /\ (Len(old) > 0 => p = Len(old) - 1) /\ (p + 1) + 2 = p + 3
    BY <1>1, <1>7 DEF p
  <2> QED
    BY <1>1, <1>7, <2>4, <2>5, <2>6, <2>7, <2>8, <2>9
<1> QED
  BY <1>6, <1>7

\* An item added to a list makes a list.
LEMMA AddItemMakesList ==
  ASSUME NEW old \in Seq(Token), NEW t \in Threads, IsList(old)
  PROVE  IsList(AddItem(old, t))
<1>1. /\ Len(old) \in Nat /\ Len(old) >= 2 /\ old[1] = "open" /\ old[Len(old)] = "close"
      /\ old # EmptyList => Len(old) % 2 = 1
      /\ \A i \in 2 .. Len(old) - 1 : IF i % 2 = 0 THEN old[i] \in Threads ELSE old[i] = "comma"
  BY DEF IsList
<1>2. PICK p \in Nat :
        /\ Len(old) > 0 => p = Len(old) - 1
        /\ AddItem(old, t) \in Seq(Token)
        /\ \A i \in 1 .. p : AddItem(old, t)[i] = old[i]
        /\ Len(old) = 2 => /\ Len(AddItem(old, t)) = p + 2
                           /\ AddItem(old, t)[p + 1] = t /\ AddItem(old, t)[p + 2] = "close"
        /\ Len(old) # 2 => /\ Len(AddItem(old, t)) = p + 3
                           /\ AddItem(old, t)[p + 1] = "comma" /\ AddItem(old, t)[p + 2] = t
                           /\ AddItem(old, t)[p + 3] = "close"
  BY AddItemText
<1> DEFINE new == AddItem(old, t)
<1>3. p = Len(old) - 1 /\ p >= 1
  BY <1>1, <1>2
<1>4. new[1] = "open"
  BY <1>1, <1>2, <1>3
<1>5. CASE Len(old) = 2
  <2>1. Len(new) = 3 /\ new[2] = t /\ new[3] = "close"
    BY <1>2, <1>3, <1>5
  <2>2. \A i \in 2 .. 2 : i = 2 /\ i % 2 = 0
    OBVIOUS
  <2> HIDE DEF new
  <2> QED
    BY <1>4, <2>1, <2>2 DEF IsList, new
<1>6. CASE Len(old) # 2
  <2>1. Len(old) % 2 = 1 /\ Len(old) >= 3
    <3>1. old # EmptyList
      BY <1>6 DEF EmptyList
    <3> QED
      BY <1>1, <1>6, <3>1
  <2>2. Len(new) = Len(old) + 2 /\ new[Len(old)] = "comma" /\ new[Len(old) + 1] = t /\ new[Len(old) + 2] = "close"
    BY <1>1, <1>2, <1>3, <1>6
  <2>3. \A i \in 1 .. Len(old) - 1 : new[i] = old[i]
    BY <1>2, <1>3
  <2> HIDE DEF new
  <2>4. Len(new) % 2 = 1
    BY <1>1, <2>1, <2>2
  <2>5. ASSUME NEW i \in 2 .. Len(new) - 1
        PROVE  IF i % 2 = 0 THEN new[i] \in Threads ELSE new[i] = "comma"
    <3>1. CASE i \in 2 .. Len(old) - 1
      <4>1. i \in 1 .. Len(old) - 1
        BY <1>1, <3>1
      <4> QED
        BY <1>1, <2>3, <3>1, <4>1
    <3>2. CASE i = Len(old)
      BY <2>1, <2>2, <3>2
    <3>3. CASE i = Len(old) + 1
      <4>1. (Len(old) + 1) % 2 = 0
        <5>1. \A n \in Nat : n % 2 = 1 => (n + 1) % 2 = 0
          OBVIOUS
        <5> QED
          BY <1>1, <2>1, <5>1
      <4> QED
        BY <2>2, <3>3, <4>1
    <3> QED
      BY <1>1, <2>2, <3>1, <3>2, <3>3
  <2>6. Len(new) >= 2 /\ new[Len(new)] = "close"
    BY <1>1, <2>2
  <2> QED
    BY <1>4, <2>4, <2>5, <2>6 DEF IsList, new
<1> QED
  BY <1>5, <1>6

\* It adds its item, and no other.
LEMMA AddItemAdds ==
  ASSUME NEW old \in Seq(Token), NEW t \in Threads
  PROVE  /\ AddItem(old, t) \in Seq(Token)
         /\ In(t, AddItem(old, t))
         /\ \A u \in Threads : In(u, AddItem(old, t)) => u = t \/ In(u, old)
         /\ \A u \in Threads : AtMostOnce(u, old) /\ (u = t => ~ In(t, old)) => AtMostOnce(u, AddItem(old, t))
<1> DEFINE new == AddItem(old, t)
<1>1. PICK p \in Nat :
        /\ Len(old) = 0 => p = 0
        /\ Len(old) > 0 => p = Len(old) - 1
        /\ new \in Seq(Token)
        /\ \A i \in 1 .. p : new[i] = old[i]
        /\ Len(old) = 2 => /\ Len(new) = p + 2
                           /\ new[p + 1] = t /\ new[p + 2] = "close"
        /\ Len(old) # 2 => /\ Len(new) = p + 3
                           /\ new[p + 1] = "comma" /\ new[p + 2] = t
                           /\ new[p + 3] = "close"
  BY AddItemText
<1>2. Len(old) \in Nat /\ DOMAIN old = 1 .. Len(old) /\ DOMAIN new = 1 .. Len(new)
  BY <1>1, LenProperties
<1> HIDE DEF new
<1>3. \A u \in Threads : u # "comma" /\ u # "close"
  BY ItemsAreNotBrackets
<1>4. 1 .. p \subseteq DOMAIN old
  <2>1. p \in Nat /\ p <= Len(old)
    <3>1. (Len(old) = 0 => p = 0) /\ (Len(old) > 0 => p = Len(old) - 1) /\ Len(old) \in Nat
      BY Zenon, <1>1, <1>2
    <3> QED
      BY <3>1
  <2>2. \A m, n \in Nat : m <= n => 1 .. m \subseteq 1 .. n
    OBVIOUS
  <2>3. 1 .. p \subseteq 1 .. Len(old)
    BY <1>2, <2>1, <2>2
  <2> QED
    BY Zenon, <1>2, <2>3
<1>5. PICK q \in DOMAIN new :
        /\ new[q] = t /\ q > p
        /\ \A i \in DOMAIN new : i \in 1 .. p \/ i = q \/ new[i] \in {"comma", "close"}
  <2>1. CASE Len(old) = 2
    <3>1. DOMAIN new = 1 .. p + 2 /\ new[p + 1] = t /\ new[p + 2] = "close"
      BY <1>1, <1>2, <2>1
    <3>2. p + 1 \in DOMAIN new /\ p + 1 > p /\ \A i \in 1 .. p + 2 : i \in 1 .. p \/ i = p + 1 \/ i = p + 2
      BY <3>1
    <3> QED
      BY <3>1, <3>2
  <2>2. CASE Len(old) # 2
    <3>1. DOMAIN new = 1 .. p + 3 /\ new[p + 1] = "comma" /\ new[p + 2] = t /\ new[p + 3] = "close"
      BY <1>1, <1>2, <2>2
    <3>2. /\ p + 2 \in DOMAIN new /\ p + 2 > p
          /\ \A i \in 1 .. p + 3 : i \in 1 .. p \/ i = p + 1 \/ i = p + 2 \/ i = p + 3
      BY <3>1
    <3> QED
      BY <3>1, <3>2
  <2> QED
    BY <2>1, <2>2
<1>6. \A u \in Threads : \A i \in DOMAIN new : new[i] = u => i \in 1 .. p \/ (i = q /\ u = t)
  BY <1>3, <1>5
<1>7. In(t, new)
  BY <1>5 DEF In
<1>8. \A u \in Threads : In(u, new) => u = t \/ In(u, old)
  BY <1>1, <1>4, <1>6 DEF In
<1>9. ASSUME NEW u \in Threads, AtMostOnce(u, old), u = t => ~ In(t, old) PROVE AtMostOnce(u, new)
  <2> SUFFICES ASSUME NEW i \in DOMAIN new, NEW j \in DOMAIN new, new[i] = u, new[j] = u
               PROVE  i = j
    BY DEF AtMostOnce
  <2>1. CASE u = t
    <3>1. \A n \in 1 .. p : new[n] # t
      BY <1>1, <1>4, <1>9, <2>1 DEF In
    <3> QED
      BY <1>6, <2>1, <3>1
  <2>2. CASE u # t
    <3>1. i \in 1 .. p /\ j \in 1 .. p
      BY <1>6, <2>2
    <3>2. old[i] = u /\ old[j] = u
      BY <1>1, <3>1
    <3> QED
      BY <1>4, <1>9, <3>1, <3>2 DEF AtMostOnce
  <2> QED
    BY <2>1, <2>2
<1> QED
  BY <1>1, <1>7, <1>8, <1>9 DEF new

\* What is in a list stays in it.
LEMMA AddItemKeeps ==
  ASSUME NEW old \in Seq(Token), NEW t \in Threads, IsList(old), NEW u \in Threads, In(u, old)
  PROVE  In(u, AddItem(old, t))
<1>1. PICK p \in Nat :
        /\ Len(old) > 0 => p = Len(old) - 1
        /\ AddItem(old, t) \in Seq(Token)
        /\ \A i \in 1 .. p : AddItem(old, t)[i] = old[i]
        /\ Len(old) = 2 => Len(AddItem(old, t)) = p + 2
        /\ Len(old) # 2 => Len(AddItem(old, t)) = p + 3
  <2>1. PICK p \in Nat :
          /\ Len(old) = 0 => p = 0
          /\ Len(old) > 0 => p = Len(old) - 1
          /\ AddItem(old, t) \in Seq(Token)
          /\ \A i \in 1 .. p : AddItem(old, t)[i] = old[i]
          /\ Len(old) = 2 => /\ Len(AddItem(old, t)) = p + 2
                             /\ AddItem(old, t)[p + 1] = t /\ AddItem(old, t)[p + 2] = "close"
          /\ Len(old) # 2 => /\ Len(AddItem(old, t)) = p + 3
                             /\ AddItem(old, t)[p + 1] = "comma" /\ AddItem(old, t)[p + 2] = t
                             /\ AddItem(old, t)[p + 3] = "close"
    BY AddItemText
  <2> WITNESS p \in Nat
  <2> QED
    BY <2>1
<1>2. PICK i \in DOMAIN old : old[i] = u
  BY DEF In
<1>3. Len(old) \in Nat /\ DOMAIN old = 1 .. Len(old) /\ Len(old) >= 2 /\ old[Len(old)] = "close"
  BY DEF IsList
<1>4. i # Len(old)
  BY <1>2, <1>3, ItemsAreNotBrackets
<1>5. i \in 1 .. p
  <2>1. p = Len(old) - 1 /\ i \in 1 .. Len(old)
    <3>1. /\ Len(old) > 0 => p = Len(old) - 1
          /\ i \in 1 .. Len(old) /\ Len(old) \in Nat /\ Len(old) >= 2
      BY Zenon, <1>1, <1>2, <1>3
    <3> QED
      BY <3>1
  <2>2. \A m, n \in Nat : m \in 1 .. n /\ m # n => m \in 1 .. n - 1
    OBVIOUS
  <2>3. i \in Nat
    BY <2>1
  <2> QED
    BY <1>3, <1>4, <2>1, <2>2, <2>3
<1>6. i \in DOMAIN AddItem(old, t)
  <2>1. DOMAIN AddItem(old, t) = 1 .. Len(AddItem(old, t)) /\ Len(AddItem(old, t)) \in Nat
    BY <1>1, LenProperties
  <2>2. Len(AddItem(old, t)) >= p
    <3>1. /\ Len(old) = 2 => Len(AddItem(old, t)) = p + 2
          /\ Len(old) # 2 => Len(AddItem(old, t)) = p + 3
      BY Zenon, <1>1
    <3> HIDE DEF AddItem
    <3> QED
      BY <1>1, <3>1
  <2>3. \A m, n \in Nat : m <= n => 1 .. m \subseteq 1 .. n
    OBVIOUS
  <2>4. 1 .. p \subseteq 1 .. Len(AddItem(old, t))
    BY <2>1, <2>2, <2>3
  <2> QED
    BY Zenon, <1>5, <2>1, <2>4
<1> QED
  BY <1>1, <1>2, <1>5, <1>6 DEF In
-----------------------------------------------------------------------------
(* Types. *)

\* What a get leaves in a Result, and what an error does.
LEMMA RepliesAreResults ==
  ASSUME store \in Stores(Seq(Token)), NEW r \in Results
  PROVE  /\ NewResult \in Results
         /\ GetCallback(r) \in Results
         /\ \A rc \in {"SUCCESS", "KEY_EEXISTS", "KEY_ENOENT", "ETIMEDOUT"} :
              ErrorCallback(r, rc) \in Results
<1>1. <<>> \in Seq(Token) /\ NoCas \in Nat /\ store.val \in Seq(Token) /\ store.cas \in Nat
  BY DEF Stores, NoCas
<1> QED
  BY <1>1 DEF NewResult, Results, GetCallback, ErrorCallback

\* A write of any text gives a document.
LEMMA MutateIsStore ==
  ASSUME store \in Stores(Seq(Token)), NEW v \in Seq(Token)
  PROVE  /\ Mutate(store, v) \in Stores(Seq(Token))
         /\ Mutate(store, v).val = v
         /\ Mutate(store, v).cas = store.clock + 1
         /\ Mutate(store, v).clock = store.clock + 1
BY DEF Stores, Mutate

\* The list main stores is a list without items.
LEMMA EmptyListIsList ==
  /\ EmptyList \in Seq(Token) /\ IsList(EmptyList) /\ NoTwice(EmptyList)
  /\ \A u \in Threads : ~ In(u, EmptyList)
<1>1. EmptyList \in Seq(Token) /\ Len(EmptyList) = 2 /\ DOMAIN EmptyList = 1 .. 2
      /\ EmptyList[1] = "open" /\ EmptyList[2] = "close"
  BY DEF EmptyList, Token
<1>2. \A u \in Threads : ~ In(u, EmptyList)
  <2> SUFFICES ASSUME NEW u \in Threads, NEW i \in DOMAIN EmptyList, EmptyList[i] = u PROVE FALSE
    BY DEF In
  <2>1. i = 1 \/ i = 2
    BY <1>1
  <2> QED
    BY <1>1, <2>1, ItemsAreNotBrackets
<1>3. NoTwice(EmptyList)
  BY <1>2 DEF NoTwice, AtMostOnce, In
<1>4. IsList(EmptyList)
  BY <1>1 DEF IsList
<1> QED
  BY <1>1, <1>2, <1>3, <1>4

\* The steps of a worker keep the types.
LEMMA ThreadTypes ==
  ASSUME TypeOK, NEW t \in Threads, Thread(t)
  PROVE  TypeOK'
<1>1. store \in Stores(Seq(Token)) /\ res[t] \in Results /\ main \in {"unsafe", "safe"}
  BY DEF TypeOK, Thread, Connect, ConnectFails, Get, StoreAccepted, StoreRefused, StoreMissing,
         StoreTimesOut, StoreNotSent, Running
<1>2. NewText(t) \in Seq(Token)
  BY <1>1, AddItemText DEF NewText, Results
<1>3. Mutate(store, NewText(t)) \in Stores(Seq(Token))
  BY <1>1, <1>2, MutateIsStore
<1>4. NewResult \in Results
  BY <1>1, RepliesAreResults
<1>5. /\ GetCallback(NewResult) \in Results
      /\ ErrorCallback(NewResult, "ETIMEDOUT") \in Results
      /\ \A rc \in {"KEY_EEXISTS", "KEY_ENOENT", "ETIMEDOUT"} : ErrorCallback(res[t], rc) \in Results
  BY <1>1, <1>4, RepliesAreResults
<1> DEFINE Pcs == {"idle", "connect", "get", "store", "done"}
<1>6. /\ pc \in [Threads -> Pcs] /\ res \in [Threads -> Results] /\ faults \in SUBSET Faults
      /\ late \in SUBSET Requests /\ unheard \in SUBSET Threads /\ unsent \in SUBSET Threads
  BY DEF TypeOK
<1>7. CASE Connect(t)
  BY <1>1, <1>7 DEF TypeOK, Connect, Running, NoFault, NoneLost
<1>8. CASE ConnectFails(t)
  <2>1. "bootstrap" \in Faults
    BY DEF Faults
  <2>2. faults' \in SUBSET Faults
    BY <1>6, <1>8, <2>1 DEF ConnectFails, Fault
  <2> QED
    BY <1>8, <2>2 DEF TypeOK, ConnectFails, Final, NoneLost
<1>9. CASE Get(t)
  <2>1. "get" \in Faults
    BY DEF Faults
  <2>2. faults' \in SUBSET Faults
    BY <1>6, <1>9, <2>1 DEF Get, Fault, NoFault
  <2>3. \E r \in Results : res' = [res EXCEPT ![t] = r]
    BY <1>4, <1>5, <1>9 DEF Get
  <2>4. res' \in [Threads -> Results]
    BY <1>6, <2>3
  <2>5. pc' \in [Threads -> Pcs]
    BY <1>6, <1>9 DEF Get
  <2> QED
    BY <1>1, <1>9, <2>2, <2>4, <2>5 DEF TypeOK, Get, NoneLost
<1>10. ASSUME NEW rc, AfterStore(t, rc), store' \in {store, Mutate(store, NewText(t))},
              res' = res \/ \E r \in Results : res' = [res EXCEPT ![t] = r],
              faults' \in SUBSET Faults, late' \in SUBSET Requests,
              unheard' \in SUBSET Threads, unsent' \in SUBSET Threads
       PROVE  TypeOK'
  <2>1. pc' \in [Threads -> Pcs]
    BY <1>6, <1>10 DEF AfterStore
  <2>2. res' \in [Threads -> Results]
    BY <1>6, <1>10
  <2>3. store' \in Stores(Seq(Token))
    BY <1>1, <1>3, <1>10
  <2> QED
    BY <1>1, <1>10, <2>1, <2>2, <2>3 DEF TypeOK, AfterStore
<1>11. CASE StoreAccepted(t)
  <2> DEFINE r == [[res[t] EXCEPT !.cas = store'.cas] EXCEPT !.rc = "SUCCESS"]
  <2>1. store' = Mutate(store, NewText(t)) /\ store'.cas \in Nat
    BY <1>1, <1>2, <1>11, MutateIsStore DEF StoreAccepted, Stores
  <2>2. r \in Results
    BY <1>1, <2>1 DEF Results
  <2>3. res' = [res EXCEPT ![t] = r]
    BY <1>6, <1>11 DEF StoreAccepted
  <2> HIDE DEF r
  <2> QED
    BY <1>6, <1>10, <1>11, <2>1, <2>2, <2>3 DEF StoreAccepted, NoFault, NoneLost
<1>12. CASE StoreRefused(t)
  BY <1>5, <1>6, <1>10, <1>12 DEF StoreRefused, Reply, NoFault, NoneLost
<1>13. CASE StoreMissing(t)
  BY <1>5, <1>6, <1>10, <1>13 DEF StoreMissing, Reply, NoFault, NoneLost
<1>14. CASE StoreTimesOut(t)
  <2>1. faults' \in SUBSET Faults
    BY <1>6, <1>14 DEF StoreTimesOut, Fault, Faults
  <2>2. CasOf(t) \in Nat
    BY <1>1 DEF CasOf, Results, NoCas
  <2>3. [set |-> FALSE, cas |-> CasOf(t), text |-> NewText(t)] \in Requests
    BY <1>2, <2>2 DEF Requests
  <2>4. late' \in SUBSET Requests /\ unheard' \in SUBSET Threads /\ unsent' \in SUBSET Threads
    BY <1>6, <1>14, <2>3 DEF StoreTimesOut
  <2> QED
    BY <1>5, <1>10, <1>14, <2>1, <2>4 DEF StoreTimesOut, Reply
<1>15. CASE StoreNotSent(t)
  <2>1. faults' \in SUBSET Faults
    BY <1>6, <1>15 DEF StoreNotSent, Fault, Faults
  <2>2. unsent' \in SUBSET Threads
    BY <1>6, <1>15 DEF StoreNotSent
  <2> QED
    BY <1>6, <1>10, <1>15, <2>1, <2>2 DEF StoreNotSent
<1> QED
  BY <1>7, <1>8, <1>9, <1>11, <1>12, <1>13, <1>14, <1>15 DEF Thread

\* The count is a number.
LEMMA CountIsNat ==
  ASSUME NEW s \in Seq(Token)
  PROVE  Commas(s) \in Nat /\ CountListItems(s) \in Nat
<1>1. IsFiniteSet(1 .. Len(s)) /\ DOMAIN s = 1 .. Len(s)
  <2>1. Len(s) \in Nat /\ DOMAIN s = 1 .. Len(s)
    OBVIOUS
  <2> QED
    BY <2>1, FS_Interval
<1>2. {i \in DOMAIN s : s[i] = "comma"} \subseteq 1 .. Len(s)
  BY <1>1
<1>3. Commas(s) \in Nat
  BY <1>1, <1>2, FS_Subset, FS_CardinalityType DEF Commas
<1> QED
  BY <1>3 DEF CountListItems

\* The steps of main keep the types.
LEMMA MainTypes ==
  ASSUME TypeOK, Main
  PROVE  TypeOK'
<1>1. store \in Stores(Seq(Token)) /\ mres \in Results /\ faults \in SUBSET Faults
  BY DEF TypeOK
<1>2. /\ "bootstrap" \in Faults /\ "initial" \in Faults /\ "mainGet" \in Faults
  BY DEF Faults
<1>3. faults' \in SUBSET Faults
  BY <1>1, <1>2 DEF Main, MainConnect, StoreInitialList, Join, MainGet, MainGetNotSent, CountUnsafe,
                    CountSafe, Count, CountHangs, Fault, NoFault, vars
<1>4. CASE MainConnect
  BY <1>3, <1>4 DEF TypeOK, MainConnect, At, Final, NoneLost
<1>5. ASSUME NEW from, NEW to \in {"unsafe", "safe"}, StoreInitialList(from, to) PROVE TypeOK'
  <2>1. store' \in Stores(Seq(Token))
    BY <1>1, <1>5, MutateIsStore, EmptyListIsList DEF StoreInitialList
  <2>2. NewResult \in Results
    BY <1>1, RepliesAreResults
  <2>3. [set |-> TRUE, cas |-> NoCas, text |-> EmptyList] \in Requests
    BY EmptyListIsList DEF Requests, NoCas
  <2>4. late' \in SUBSET Requests /\ unheard' = {} /\ unsent' = {}
    BY <1>5, <2>3 DEF TypeOK, StoreInitialList
  <2>5. pc' = [t \in Threads |-> "connect"] /\ res' = [t \in Threads |-> NewResult] /\ main' \in {"unsafe", "safe"}
        /\ UNCHANGED <<mres, counted, warned>>
    BY <1>5 DEF StoreInitialList, At
  <2> QED
    BY <1>3, <2>1, <2>2, <2>4, <2>5 DEF TypeOK
<1>6. ASSUME NEW from, NEW to \in {"get1", "get2"}, Join(from, to) PROVE TypeOK'
  BY <1>3, <1>6 DEF TypeOK, Join, At, NoneLost
<1>7. CASE MainGet("get1", "count1") \/ MainGet("get2", "count2")
  <2>1. mres' \in Results
    BY <1>1, <1>7, RepliesAreResults DEF MainGet
  <2> QED
    BY <1>3, <1>7, <2>1 DEF TypeOK, MainGet, At, NoneLost
<1>8. CASE MainGetNotSent
  BY <1>3, <1>8 DEF TypeOK, MainGetNotSent, At, Final, NoneLost
<1>9. CASE CountUnsafe \/ CountSafe
  <2>1. mres.value \in Seq(Token)
    BY <1>1 DEF Results
  <2>2. CountListItems(mres.value) \in Nat
    BY <2>1, CountIsNat
  <2>3. counted' \in Nat /\ warned' \in BOOLEAN
    BY <1>9, <2>2 DEF TypeOK, CountUnsafe, CountSafe, Count
  <2> QED
    BY <1>3, <1>9, <2>3 DEF TypeOK, CountUnsafe, CountSafe, Count, At, Final, NoneLost
<1>10. CASE CountHangs
  BY <1>10 DEF TypeOK, CountHangs, vars
<1> QED
  BY <1>4, <1>5, <1>6, <1>7, <1>8, <1>9, <1>10 DEF Main

\* So does a store that is carried out late.
LEMMA LateTypes ==
  ASSUME TypeOK, CarryOutLate
  PROVE  TypeOK'
<1>1. PICK r \in late :
        /\ late' = late \ {r}
        /\ store' = store \/ store' = Mutate(store, r.text)
        /\ UNCHANGED <<main, mres, counted, warned, pc, res, faults, unheard, unsent>>
  BY DEF CarryOutLate, NoFault
<1>2. store \in Stores(Seq(Token)) /\ late \in SUBSET Requests /\ r.text \in Seq(Token)
  BY DEF TypeOK, Requests
<1>3. store' \in Stores(Seq(Token)) /\ late' \in SUBSET Requests
  BY <1>1, <1>2, MutateIsStore
<1> QED
  BY <1>1, <1>3 DEF TypeOK

\* Every step keeps the types.
LEMMA TypesKept ==
  ASSUME TypeOK, [Next]_vars
  PROVE  TypeOK'
<1>1. CASE UNCHANGED vars
  BY <1>1 DEF TypeOK, vars
<1> QED
  BY <1>1, ThreadTypes, MainTypes, LateTypes DEF Next, Stopped
-----------------------------------------------------------------------------
(* The invariant. *)

\* A step that leaves the document alone and lets no thread begin a store; a
\* store that is added to those on their way is sound.
LEMMA QuietKeeps ==
  ASSUME IInv, TypeOK', UNCHANGED store, faults \subseteq faults',
         \A t \in Threads : res'[t].cas <= store.clock,
         \A t \in Threads : pc'[t] = "store" => pc[t] = "store" /\ res'[t] = res[t],
         \A t \in Threads : pc[t] = "done" => pc'[t] = "done",
         unheard \subseteq unheard', unsent \subseteq unsent',
         InSafePhase' => InSafePhase,
         InSafePhase => InSafePhase' \/ main' = "exited",
         main = "exited" => main' = "exited",
         InSafePhase' => \A t \in Threads : pc'[t] = "done" => pc[t] = "done" \/ t \in unsent',
         main' # main => \/ main' \in {"store1", "exited"}
                          \/ main \in {"unsafe", "get1", "count1", "store2", "safe", "get2", "count2"},
         \A r \in late' \ late : Sound(r)',
         Counted'
  PROVE  IInv'
<1>1. TypeOK /\ Clock /\ Snapshots /\ Lists /\ Present /\ Kept /\ Once /\ Late
  BY DEF IInv
<1>2. Clock'
  BY <1>1 DEF Clock
<1>3. Snapshots'
  BY <1>1 DEF Snapshots, Exists
<1>4. Lists'
  <2> SUFFICES ASSUME faults' \cap {"get", "initial"} = {}
               PROVE  /\ Exists(store) => IsList(store.val)
                      /\ \A t \in Threads : pc'[t] = "store" => IsList(res'[t].value)
    BY DEF Lists, Exists, IsList
  <2>1. faults \cap {"get", "initial"} = {}
    OBVIOUS
  <2> QED
    BY <1>1, <2>1 DEF Lists
<1>5. Present'
  <2> SUFFICES ASSUME main' \in {"unsafe", "get1", "count1", "store2", "safe", "get2", "count2", "done"},
                      "initial" \notin faults'
               PROVE  Exists(store)
    BY DEF Present, Exists
  <2> QED
    BY <1>1 DEF Present
<1>6. Kept'
  <2> SUFFICES ASSUME InSafePhase', faults' \cap {"get", "initial", "unsafeStore"} = {},
                      NEW t \in Threads, t \notin unsent', pc'[t] = "done"
               PROVE  Exists(store) /\ In(t, store.val)
    BY DEF Kept, Exists, In
  <2>1. pc[t] = "done" /\ InSafePhase /\ faults \cap {"get", "initial", "unsafeStore"} = {} /\ t \notin unsent
    OBVIOUS
  <2> QED
    BY <1>1, <2>1 DEF Kept
<1>7. \A s : \A u \in Threads : Clean(u, s) => AtMostOnce(u, s) /\ (In(u, s) => pc'[u] = "done")
  BY DEF Clean
<1>8. Once'
  <2> SUFFICES ASSUME InSafePhase', faults' \cap {"initial", "unsafeStore"} = {}, NEW u \in Threads, u \notin unheard'
               PROVE  /\ AtMostOnce(u, store.val) /\ (In(u, store.val) => pc'[u] = "done")
                      /\ \A t \in Threads : pc'[t] = "store" =>
                           AtMostOnce(u, res'[t].value) /\ (In(u, res'[t].value) => pc'[u] = "done")
    BY DEF Once, Clean, AtMostOnce, In
  <2>1. InSafePhase /\ faults \cap {"initial", "unsafeStore"} = {} /\ u \notin unheard
    OBVIOUS
  <2>2. Clean(u, store.val) /\ \A t \in Threads : pc[t] = "store" => Clean(u, res[t].value)
    BY <1>1, <2>1 DEF Once
  <2> QED
    BY <1>7, <2>2
<1>9. Late'
  <2> SUFFICES ASSUME NEW r \in late PROVE Sound(r)'
    BY DEF Late
  <2>1. Sound(r)
    BY <1>1 DEF Late
  <2>2. r.cas <= store.clock
    BY <2>1 DEF Sound
  <2>3. faults' \cap {"get", "initial"} = {} => IsList(r.text)
    <3>1. faults' \cap {"get", "initial"} = {} => faults \cap {"get", "initial"} = {}
      OBVIOUS
    <3> QED
      BY <2>1, <3>1 DEF Sound
  <2>4. faults' \cap {"get", "initial", "unsafeStore"} = {} =>
          /\ r.cas # NoCas
          /\ r.cas = store.cas => \A u \in Threads : In(u, store.val) => In(u, r.text)
    <3>1. faults' \cap {"get", "initial", "unsafeStore"} = {} => faults \cap {"get", "initial", "unsafeStore"} = {}
      OBVIOUS
    <3> QED
      BY <2>1, <3>1 DEF Sound
  <2>5. faults' \cap {"initial", "unsafeStore"} = {} =>
          /\ ~ r.set
          /\ InSafePhase' \/ main' = "exited"
          /\ \A u \in Threads \ unheard' : AtMostOnce(u, r.text) /\ (In(u, r.text) => pc'[u] = "done")
    <3> SUFFICES ASSUME faults' \cap {"initial", "unsafeStore"} = {}
                 PROVE  /\ ~ r.set
                        /\ InSafePhase' \/ main' = "exited"
                        /\ \A u \in Threads \ unheard' : AtMostOnce(u, r.text) /\ (In(u, r.text) => pc'[u] = "done")
      OBVIOUS
    <3>1. faults \cap {"initial", "unsafeStore"} = {}
      OBVIOUS
    <3>2. ~ r.set /\ (InSafePhase \/ main = "exited") /\ \A u \in Threads \ unheard : Clean(u, r.text)
      BY <2>1, <3>1 DEF Sound
    <3> QED
      BY <1>7, <3>2
  <2>6. (\A u \in Threads : In(u, store.val) => In(u, r.text))' <=> (\A u \in Threads : In(u, store.val) => In(u, r.text))
    BY DEF In
  <2>7. \A u \in Threads : (Clean(u, r.text))' <=> (AtMostOnce(u, r.text) /\ (In(u, r.text) => pc'[u] = "done"))
    BY DEF Clean, AtMostOnce, In
  <2>8. IsList(r.text)' <=> IsList(r.text)
    BY DEF IsList
  <2> QED
    BY <2>2, <2>3, <2>4, <2>5, <2>6, <2>7, <2>8 DEF Sound
<1> QED
  BY <1>2, <1>3, <1>4, <1>5, <1>6, <1>8, <1>9 DEF IInv

\* A worker reads the list and its CAS.
LEMMA GetKeeps ==
  ASSUME IInv, NEW t \in Threads, Get(t)
  PROVE  IInv'
<1>1. /\ TypeOK /\ Clock /\ Snapshots /\ Lists /\ Present /\ Kept /\ Once /\ Late
      /\ pc \in [Threads -> {"idle", "connect", "get", "store", "done"}] /\ res \in [Threads -> Results]
      /\ store \in Stores(Seq(Token))
  BY DEF IInv, TypeOK
<1>2. PICK r \in {GetCallback(NewResult), NewResult, ErrorCallback(NewResult, "ETIMEDOUT")} :
        /\ res' = [res EXCEPT ![t] = r]
        /\ r # GetCallback(NewResult) => "get" \in faults'
  BY DEF Get, Fault
<1>3. /\ pc' = [pc EXCEPT ![t] = "store"] /\ pc[t] = "get" /\ main' = main /\ store' = store
      /\ main \in {"unsafe", "safe"} /\ faults \subseteq faults'
      /\ late' = late /\ unheard' = unheard /\ unsent' = unsent
  BY DEF Get, Running, Fault, NoFault, NoneLost
<1>14. "initial" \notin faults => Exists(store)
  BY <1>1, <1>3 DEF Present
<1>4. /\ r.value = <<>> \/ (Exists(store) /\ r.value = store.val)
      /\ r.cas = NoCas \/ (Exists(store) /\ r.cas = store.cas /\ r.value = store.val)
      /\ r = GetCallback(NewResult) /\ Exists(store) => r.cas = store.cas /\ r.value = store.val
  <2>1. CASE r = GetCallback(NewResult)
    <3>1. CASE Exists(store)
      BY <2>1, <3>1 DEF GetCallback
    <3>2. CASE ~ Exists(store)
      BY <2>1, <3>2 DEF GetCallback, NewResult
    <3> QED
      BY <3>1, <3>2
  <2>2. CASE r # GetCallback(NewResult)
    <3>1. r.value = <<>> /\ r.cas = NoCas
      <4>1. NewResult.value = <<>> /\ NewResult.cas = NoCas
        BY DEF NewResult
      <4>2. NewResult \in Results
        BY <1>1, RepliesAreResults DEF NewResult, Results, NoCas
      <4>3. ErrorCallback(NewResult, "ETIMEDOUT").value = NewResult.value
        BY <4>2 DEF ErrorCallback, Results
      <4>4. ErrorCallback(NewResult, "ETIMEDOUT").cas = NoCas
        BY <4>2 DEF ErrorCallback, Results
      <4> QED
        BY <1>2, <2>2, <4>1, <4>3, <4>4
    <3> QED
      BY <2>2, <3>1
  <2> QED
    BY <2>1, <2>2
<1>5. /\ res'[t] = r /\ pc'[t] = "store"
      /\ \A u \in Threads : u # t => res'[u] = res[u] /\ pc'[u] = pc[u]
  BY <1>1, <1>2, <1>3
<1>6. TypeOK'
  BY <1>1, ThreadTypes DEF Thread
<1>7. Clock'
  <2>1. r.cas <= store.clock
    BY <1>1, <1>4 DEF Clock, NoCas, Stores
  <2> QED
    BY <1>1, <1>3, <1>5, <2>1 DEF Clock
<1>8. Snapshots'
  <2> SUFFICES ASSUME NEW u \in Threads, pc'[u] = "store"
               PROVE  /\ Exists(store) /\ res'[u].cas = store.cas => res'[u].value = store.val
                      /\ faults' \cap {"get", "initial"} = {} => res'[u].cas # NoCas
    BY <1>3 DEF Snapshots, Exists
  <2>1. CASE u = t
    BY <1>2, <1>3, <1>4, <1>5, <1>14, <2>1 DEF Exists
  <2>2. CASE u # t
    BY <1>1, <1>3, <1>5, <2>2 DEF Snapshots
  <2> QED
    BY <2>1, <2>2
<1>9. Lists'
  <2> SUFFICES ASSUME faults' \cap {"get", "initial"} = {}
               PROVE  /\ IsList(store.val)
                      /\ \A u \in Threads : pc'[u] = "store" => IsList(res'[u].value)
    BY <1>3 DEF Lists, Exists, IsList
  <2>1. faults \cap {"get", "initial"} = {}
    BY <1>3
  <2>2. Exists(store) /\ IsList(store.val)
    BY <1>1, <1>14, <2>1 DEF Lists
  <2>3. r.value = store.val
    BY <1>2, <1>4, <2>2
  <2>4. \A u \in Threads : pc[u] = "store" => IsList(res[u].value)
    BY <1>1, <2>1 DEF Lists
  <2> QED
    BY <1>5, <2>2, <2>3, <2>4
<1>10. Present'
  BY <1>1, <1>3 DEF Present, Exists
<1>11. Kept'
  <2> SUFFICES ASSUME InSafePhase, faults' \cap {"get", "initial", "unsafeStore"} = {},
                      NEW u \in Threads \ unsent, pc'[u] = "done"
               PROVE  Exists(store) /\ In(u, store.val)
    BY <1>3 DEF Kept, Exists, In, InSafePhase
  <2>1. pc[u] = "done" /\ faults \cap {"get", "initial", "unsafeStore"} = {}
    BY <1>3, <1>5
  <2> QED
    BY <1>1, <2>1 DEF Kept
<1>15. \A s : \A u \in Threads : Clean(u, s) => AtMostOnce(u, s) /\ (In(u, s) => pc'[u] = "done")
  BY <1>3, <1>5 DEF Clean
<1>12. Once'
  <2> SUFFICES ASSUME InSafePhase, faults' \cap {"initial", "unsafeStore"} = {}, NEW u \in Threads \ unheard
               PROVE  /\ AtMostOnce(u, store.val) /\ (In(u, store.val) => pc'[u] = "done")
                      /\ \A v \in Threads : pc'[v] = "store" =>
                           AtMostOnce(u, res'[v].value) /\ (In(u, res'[v].value) => pc'[u] = "done")
    BY <1>3 DEF Once, Clean, AtMostOnce, In, InSafePhase
  <2>1. faults \cap {"initial", "unsafeStore"} = {}
    BY <1>3
  <2>2. AtMostOnce(u, <<>>) /\ ~ In(u, <<>>)
    BY DEF AtMostOnce, In
  <2>3. Clean(u, store.val) /\ \A v \in Threads : pc[v] = "store" => Clean(u, res[v].value)
    BY <1>1, <2>1 DEF Once
  <2>4. AtMostOnce(u, r.value) /\ (In(u, r.value) => pc'[u] = "done")
    BY <1>4, <1>15, <2>2, <2>3
  <2> QED
    BY <1>5, <1>15, <2>3, <2>4
<1>16. Late'
  <2> SUFFICES ASSUME NEW q \in late PROVE Sound(q)'
    BY <1>3 DEF Late
  <2>1. Sound(q)
    BY <1>1 DEF Late
  <2>3. IsList(q.text)' <=> IsList(q.text)
    BY DEF IsList
  <2>4. \A u \in Threads : Clean(u, q.text) => Clean(u, q.text)'
    BY <1>15 DEF Clean, AtMostOnce, In
  <2>5. \A u \in Threads : (In(u, store.val) => In(u, q.text))' <=> (In(u, store.val) => In(u, q.text))
    BY <1>3 DEF In
  <2>6. (faults' \cap {"get", "initial"} = {} => faults \cap {"get", "initial"} = {})
        /\ (faults' \cap {"get", "initial", "unsafeStore"} = {} => faults \cap {"get", "initial", "unsafeStore"} = {})
        /\ (faults' \cap {"initial", "unsafeStore"} = {} => faults \cap {"initial", "unsafeStore"} = {})
    BY <1>3
  <2>7. (InSafePhase \/ main = "exited") => (InSafePhase \/ main = "exited")'
    BY <1>3 DEF InSafePhase
  <2> QED
    BY <1>3, <2>1, <2>3, <2>4, <2>5, <2>6, <2>7 DEF Sound
<1>13. Counted'
  <2>1. Counted
    BY DEF IInv
  <2>2. faults' = {} => faults = {}
    BY <1>3
  <2> QED
    BY <1>3, <2>1, <2>2 DEF Counted
<1> QED
  BY <1>6, <1>7, <1>8, <1>9, <1>10, <1>11, <1>12, <1>13, <1>16 DEF IInv

\* A worker's text is written and it learns so.
LEMMA WriteKeeps ==
  ASSUME IInv, TypeOK', NEW t \in Threads, StoreAccepted(t)
  PROVE  IInv'
<1>1. /\ TypeOK /\ Clock /\ Snapshots /\ Lists /\ Present /\ Kept /\ Once /\ Late /\ Counted
      /\ pc \in [Threads -> {"idle", "connect", "get", "store", "done"}] /\ res \in [Threads -> Results]
      /\ store \in Stores(Seq(Token)) /\ store.cas \in Nat /\ store.clock \in Nat
      /\ store.val \in Seq(Token) /\ res[t].value \in Seq(Token)
      /\ \A u \in Threads : res[u].cas \in Nat
  BY DEF IInv, TypeOK, Stores, Results
<1>17. \A q \in late : q.cas \in Nat
  BY <1>1 DEF TypeOK, Requests
<1> DEFINE new == NewText(t)
<1>2. /\ new \in Seq(Token) /\ In(t, new)
      /\ \A u \in Threads : In(u, new) => u = t \/ In(u, res[t].value)
      /\ \A u \in Threads : AtMostOnce(u, res[t].value) /\ (u = t => ~ In(t, res[t].value)) => AtMostOnce(u, new)
  BY <1>1, AddItemAdds DEF NewText
<1>3. /\ ReplaceSucceeds(store, CasOf(t)) /\ store' = Mutate(store, new)
      /\ faults' = faults /\ late' = late /\ unheard' = unheard /\ unsent' = unsent
  BY DEF StoreAccepted, NoFault, NoneLost
<1>4. store'.val = new /\ store'.cas = store.clock + 1 /\ store'.clock = store.clock + 1
  BY <1>1, <1>2, <1>3, MutateIsStore
<1>5. /\ main' = main /\ main \in {"unsafe", "safe"} /\ pc[t] = "store" /\ pc'[t] = "done"
      /\ \A u \in Threads : u # t => pc'[u] = pc[u]
  BY <1>1 DEF StoreAccepted, AfterStore, Running
<1>6. res'[t].cas = store'.cas /\ \A u \in Threads : u # t => res'[u] = res[u]
  <2>1. res' = [res EXCEPT ![t] = [[res[t] EXCEPT !.cas = store'.cas] EXCEPT !.rc = "SUCCESS"]]
    BY <1>1 DEF StoreAccepted
  <2> QED
    BY <1>1, <2>1 DEF Results
<1>7. Exists(store) /\ Exists(store') /\ store'.cas # NoCas
  BY <1>1, <1>3, <1>4 DEF ReplaceSucceeds, Exists, NoCas
<1>8. \A s : \A u \in Threads : Clean(u, s) => AtMostOnce(u, s) /\ (In(u, s) => pc'[u] = "done")
  BY <1>5 DEF Clean
<1> HIDE DEF new
<1>9. Clock'
  <2>1. \A u \in Threads : res'[u].cas <= store.clock + 1
    BY <1>1, <1>4, <1>6 DEF Clock, NoCas
  <2> QED
    BY <1>1, <1>4, <2>1 DEF Clock
<1>10. Snapshots'
  <2> SUFFICES ASSUME NEW u \in Threads, pc'[u] = "store"
               PROVE  /\ res'[u].cas # store'.cas
                      /\ faults \cap {"get", "initial"} = {} => res'[u].cas # NoCas
    BY <1>3, <1>7 DEF Snapshots
  <2>1. u # t /\ pc[u] = "store" /\ res'[u] = res[u]
    BY <1>5, <1>6
  <2>2. res[u].cas # store'.cas
    BY <1>1, <1>4 DEF Clock
  <2> QED
    BY <1>1, <1>7, <2>1, <2>2 DEF Snapshots
<1>11. Lists'
  <2> SUFFICES ASSUME faults \cap {"get", "initial"} = {}
               PROVE  IsList(new) /\ \A u \in Threads : pc'[u] = "store" => IsList(res'[u].value)
    <3>1. IsList(store.val)' <=> IsList(new)
      BY <1>4 DEF IsList
    <3>2. \A u \in Threads : IsList(res[u].value)' <=> IsList(res'[u].value)
      BY DEF IsList
    <3> QED
      BY <1>3, <3>1, <3>2 DEF Lists
  <2>1. \A u \in Threads : pc[u] = "store" => IsList(res[u].value)
    BY <1>1 DEF Lists
  <2>2. IsList(new)
    BY <1>1, <1>5, <2>1, AddItemMakesList DEF new, NewText
  <2>3. \A u \in Threads : pc'[u] = "store" => pc[u] = "store" /\ res'[u] = res[u]
    BY <1>5, <1>6
  <2> QED
    BY <2>1, <2>2, <2>3
<1>12. Present'
  BY <1>7 DEF Present
<1>13. Kept'
  <2> SUFFICES ASSUME main = "safe", faults \cap {"get", "initial", "unsafeStore"} = {},
                      NEW u \in Threads \ unsent, pc'[u] = "done"
               PROVE  In(u, new)
    BY <1>3, <1>4, <1>5, <1>7 DEF Kept, In, InSafePhase
  <2>1. CASE u = t
    BY <1>2, <2>1
  <2>2. CASE u # t
    <3>1. pc[u] = "done" /\ faults \cap {"get", "initial"} = {}
      BY <1>5, <2>2
    <3>2. In(u, store.val) /\ IsList(store.val)
      BY <1>1, <1>7, <3>1 DEF Kept, Lists, InSafePhase
    <3>3. res[t].cas # NoCas
      BY <1>1, <1>5, <3>1 DEF Snapshots
    <3>4. res[t].value = store.val
      BY <1>1, <1>3, <1>5, <3>3 DEF Snapshots, ReplaceSucceeds, CasAccepts, CasOf
    <3> QED
      BY <1>1, <3>2, <3>4, AddItemKeeps DEF new, NewText
  <2> QED
    BY <2>1, <2>2
<1>14. Once'
  <2> SUFFICES ASSUME main = "safe", faults \cap {"initial", "unsafeStore"} = {}, NEW u \in Threads \ unheard
               PROVE  /\ AtMostOnce(u, new) /\ (In(u, new) => pc'[u] = "done")
                      /\ \A v \in Threads : pc'[v] = "store" =>
                           AtMostOnce(u, res'[v].value) /\ (In(u, res'[v].value) => pc'[u] = "done")
    BY <1>3, <1>4, <1>5 DEF Once, Clean, AtMostOnce, In, InSafePhase
  <2>1. \A v \in Threads : pc[v] = "store" => Clean(u, res[v].value)
    BY <1>1 DEF Once, InSafePhase
  <2>2. Clean(u, res[t].value)
    BY <1>5, <2>1
  <2>3. AtMostOnce(u, res[t].value) /\ (u = t => ~ In(t, res[t].value))
    BY <1>5, <2>2 DEF Clean
  <2>4. AtMostOnce(u, new) /\ (In(u, new) => pc'[u] = "done")
    BY <1>2, <1>5, <1>8, <2>2, <2>3
  <2>5. \A v \in Threads : pc'[v] = "store" => pc[v] = "store" /\ res'[v] = res[v]
    BY <1>5, <1>6
  <2> QED
    BY <1>8, <2>1, <2>4, <2>5
<1>15. Late'
  <2> SUFFICES ASSUME NEW q \in late PROVE Sound(q)'
    BY <1>3 DEF Late
  <2>1. Sound(q) /\ q.cas <= store.clock
    BY <1>1 DEF Late, Sound
  <2>2. q.cas <= store'.clock /\ q.cas # store'.cas
    BY <1>1, <1>4, <1>17, <2>1
  <2>3. \A u \in Threads : Clean(u, q.text) => Clean(u, q.text)'
    BY <1>8 DEF Clean, AtMostOnce, In
  <2>4. IsList(q.text)' <=> IsList(q.text)
    BY DEF IsList
  <2> QED
    BY <1>3, <1>5, <2>1, <2>2, <2>3, <2>4 DEF Sound, InSafePhase
<1>16. Counted'
  BY <1>1, <1>3, <1>5 DEF Counted
<1> QED
  BY <1>9, <1>10, <1>11, <1>12, <1>13, <1>14, <1>15, <1>16 DEF IInv

\* A store times out: it is on its way, and sound.
LEMMA TimeOutKeeps ==
  ASSUME IInv, TypeOK', NEW t \in Threads, StoreTimesOut(t)
  PROVE  IInv'
<1>1. /\ TypeOK /\ Clock /\ Snapshots /\ Lists /\ Present /\ Kept /\ Once /\ Late
      /\ pc \in [Threads -> {"idle", "connect", "get", "store", "done"}] /\ res \in [Threads -> Results]
      /\ store \in Stores(Seq(Token)) /\ store.cas \in Nat /\ store.clock \in Nat
      /\ store.val \in Seq(Token) /\ res[t].value \in Seq(Token) /\ res[t].cas <= store.clock
  BY DEF IInv, TypeOK, Stores, Results, Clock
<1>15. PICK new : new = NewText(t)
  OBVIOUS
<1>16. PICK r : r = [set |-> FALSE, cas |-> CasOf(t), text |-> new]
  OBVIOUS
<1>2. /\ new \in Seq(Token)
      /\ \A u \in Threads : In(u, new) => u = t \/ In(u, res[t].value)
      /\ \A u \in Threads : AtMostOnce(u, res[t].value) /\ (u = t => ~ In(t, res[t].value)) => AtMostOnce(u, new)
  BY <1>1, <1>15, AddItemAdds DEF NewText
<1>3. /\ main' = main /\ main \in {"unsafe", "safe"} /\ pc[t] = "store" /\ pc'[t] # "store"
      /\ main = "safe" => pc'[t] = "get"
      /\ \A u \in Threads : u # t => pc'[u] = pc[u] /\ res'[u] = res[u]
  BY <1>1 DEF StoreTimesOut, Reply, AfterStore, Running
<1>4. res'[t].cas = NoCas
  <2>1. res'[t] = ErrorCallback(res[t], "ETIMEDOUT")
    BY <1>1 DEF StoreTimesOut, Reply
  <2> QED
    BY <1>1, <2>1 DEF ErrorCallback, Results
<1>5. /\ late' = late \cup {r} /\ store' = store /\ unheard' = unheard \cup {t} /\ unsent' = unsent
      /\ faults' = faults \cup {IF main = "unsafe" THEN "unsafeStore" ELSE "store"}
  BY <1>15, <1>16 DEF StoreTimesOut, Fault
<1>6. r.set = FALSE /\ r.cas = CasOf(t) /\ r.text = new
  BY <1>16
<1>7. CasOf(t) <= store.clock
  BY <1>1 DEF CasOf, NoCas
<1>8. faults \cap {"get", "initial"} = {} => IsList(new) /\ IsList(res[t].value)
  BY <1>1, <1>3, <1>15, AddItemMakesList DEF NewText, Lists
<1>9. ASSUME faults' \cap {"get", "initial", "unsafeStore"} = {}
      PROVE  /\ CasOf(t) # NoCas
             /\ CasOf(t) = store.cas => \A u \in Threads : In(u, store.val) => In(u, new)
  <2>1. main = "safe" /\ faults \cap {"get", "initial"} = {}
    BY <1>3, <1>5, <1>9
  <2>2. CasOf(t) = res[t].cas /\ res[t].cas # NoCas
    BY <1>1, <1>3, <2>1 DEF CasOf, Snapshots
  <2>3. ASSUME CasOf(t) = store.cas, NEW u \in Threads, In(u, store.val) PROVE In(u, new)
    <3>1. res[t].value = store.val
      BY <1>1, <1>3, <2>2, <2>3 DEF Snapshots, Exists
    <3> QED
      BY <1>1, <1>8, <1>15, <2>1, <2>3, <3>1, AddItemKeeps DEF NewText
  <2> QED
    BY <2>2, <2>3
<1>10. ASSUME faults' \cap {"initial", "unsafeStore"} = {}, NEW u \in Threads \ unheard'
       PROVE  main = "safe" /\ AtMostOnce(u, new) /\ (In(u, new) => pc'[u] = "done")
  <2>1. main = "safe" /\ faults \cap {"initial", "unsafeStore"} = {} /\ u \notin unheard /\ u # t
    BY <1>3, <1>5, <1>10
  <2>2. Clean(u, res[t].value)
    BY <1>1, <1>3, <2>1 DEF Once, InSafePhase
  <2> QED
    BY <1>2, <1>3, <2>1, <2>2 DEF Clean
<1>11. (faults' \cap {"initial", "unsafeStore"} = {} => main = "safe") /\ faults \subseteq faults'
  BY <1>3, <1>5
<1>12. Sound(r)'
  <2>1. faults' \cap {"get", "initial"} = {} => IsList(new)
    BY <1>8, <1>11
  <2>2. faults' \cap {"get", "initial", "unsafeStore"} = {} =>
          CasOf(t) # NoCas /\ (CasOf(t) = store.cas => \A u \in Threads : In(u, store.val) => In(u, new))
    BY <1>9
  <2>3. faults' \cap {"initial", "unsafeStore"} = {} =>
          main = "safe" /\ \A u \in Threads \ unheard' : AtMostOnce(u, new) /\ (In(u, new) => pc'[u] = "done")
    BY <1>10, <1>11
  <2>4. IsList(r.text)' <=> IsList(new)
    BY <1>6 DEF IsList
  <2>5. (\A u \in Threads : In(u, store.val) => In(u, r.text))' <=> (\A u \in Threads : In(u, store.val) => In(u, new))
    BY <1>5, <1>6 DEF In
  <2>6. \A u \in Threads : (Clean(u, r.text))' <=> (AtMostOnce(u, new) /\ (In(u, new) => pc'[u] = "done"))
    BY <1>6 DEF Clean, AtMostOnce, In
  <2> QED
    BY <1>3, <1>5, <1>6, <1>7, <2>1, <2>2, <2>3, <2>4, <2>5, <2>6 DEF Sound, InSafePhase
<1>13. Counted'
  <2>1. faults' # {}
    BY <1>5
  <2> QED
    BY <2>1 DEF Counted
<1>14. \A u \in Threads : res'[u].cas <= store.clock
  BY <1>1, <1>3, <1>4 DEF Clock, NoCas
<1> QED
  BY <1>3, <1>5, <1>11, <1>12, <1>13, <1>14, QuietKeeps DEF InSafePhase

\* A store that timed out is carried out, or refused.
LEMMA LateKeeps ==
  ASSUME IInv, CarryOutLate
  PROVE  IInv'
<1>1. /\ TypeOK /\ Clock /\ Snapshots /\ Lists /\ Present /\ Kept /\ Once /\ Late /\ Counted
      /\ store \in Stores(Seq(Token)) /\ store.cas \in Nat /\ store.clock \in Nat
      /\ \A u \in Threads : res[u].cas \in Nat /\ res[u].cas <= store.clock
      /\ \A q \in late : q.cas \in Nat /\ q.text \in Seq(Token)
  BY DEF IInv, TypeOK, Stores, Results, Requests, Clock
<1>2. TypeOK'
  BY <1>1, LateTypes
<1>3. PICK r \in late :
        /\ late' = late \ {r}
        /\ store' = IF TakesEffect(r) THEN Mutate(store, r.text) ELSE store
  BY DEF CarryOutLate
<1>4. UNCHANGED <<main, mres, counted, warned, pc, res, faults, unheard, unsent>>
  BY DEF CarryOutLate, NoFault
<1>5. Counted'
  BY <1>1, <1>3, <1>4 DEF Counted
<1>6. CASE ~ TakesEffect(r)
  <2>1. store' = store /\ late' \subseteq late
    BY <1>3, <1>6
  <2> QED
    BY <1>1, <1>2, <1>4, <1>5, <2>1, QuietKeeps DEF InSafePhase
<1>7. CASE TakesEffect(r)
  <2>1. store'.val = r.text /\ store'.cas = store.clock + 1 /\ store'.clock = store.clock + 1
    BY <1>1, <1>3, <1>7, MutateIsStore
  <2>2. Sound(r)
    BY <1>1, <1>3 DEF Late
  <2>3. Exists(store') /\ store'.cas # NoCas
    BY <1>1, <2>1 DEF Exists, NoCas
  <2>4. \A u \in Threads : res[u].cas <= store'.clock /\ res[u].cas # store'.cas
    BY <1>1, <2>1
  <2>5. Clock'
    BY <1>1, <1>4, <2>1, <2>4 DEF Clock
  <2>6. Snapshots'
    <3> SUFFICES ASSUME NEW u \in Threads, pc[u] = "store"
                 PROVE  /\ res[u].cas # store'.cas
                        /\ faults \cap {"get", "initial"} = {} => res[u].cas # NoCas
      BY <1>4 DEF Snapshots
    <3> QED
      BY <1>1, <2>4 DEF Snapshots
  <2>7. Lists'
    <3>1. faults \cap {"get", "initial"} = {} => IsList(r.text)
      BY <2>2 DEF Sound
    <3>2. faults \cap {"get", "initial"} = {} => IsList(store'.val)
      BY <2>1, <3>1
    <3> QED
      BY <1>1, <1>4, <3>2 DEF Lists, IsList
  <2>8. Present'
    BY <2>3 DEF Present
  <2>9. Kept'
    <3> SUFFICES ASSUME InSafePhase, faults \cap {"get", "initial", "unsafeStore"} = {},
                        NEW u \in Threads \ unsent, pc[u] = "done"
                 PROVE  In(u, r.text)
      BY <1>4, <2>1, <2>3 DEF Kept, In, InSafePhase
    <3>1. faults \cap {"initial", "unsafeStore"} = {}
      OBVIOUS
    <3>2. ~ r.set /\ r.cas # NoCas
      BY <2>2, <3>1 DEF Sound
    <3>3. r.cas = store.cas
      BY <1>7, <3>2 DEF TakesEffect, ReplaceSucceeds, CasAccepts
    <3>4. In(u, store.val)
      BY <1>1 DEF Kept
    <3> QED
      BY <2>2, <3>3, <3>4 DEF Sound
  <2>10. Once'
    <3> SUFFICES ASSUME InSafePhase, faults \cap {"initial", "unsafeStore"} = {}, NEW u \in Threads \ unheard
                 PROVE  /\ Clean(u, r.text)
                        /\ \A v \in Threads : pc[v] = "store" => Clean(u, res[v].value)
      BY <1>4, <2>1 DEF Once, Clean, AtMostOnce, In, InSafePhase
    <3> QED
      BY <1>1, <2>2 DEF Once, Sound
  <2>11. Late'
    <3> SUFFICES ASSUME NEW q \in late PROVE Sound(q)'
      BY <1>3 DEF Late
    <3>1. Sound(q) /\ q.cas <= store.clock
      BY <1>1 DEF Late, Sound
    <3>2. q.cas <= store'.clock /\ q.cas # store'.cas
      BY <1>1, <2>1, <3>1
    <3>3. \A u \in Threads : (Clean(u, q.text))' <=> Clean(u, q.text)
      BY <1>4 DEF Clean, AtMostOnce, In
    <3>4. IsList(q.text)' <=> IsList(q.text)
      BY DEF IsList
    <3> QED
      BY <1>4, <3>1, <3>2, <3>3, <3>4 DEF Sound, InSafePhase
  <2> QED
    BY <1>2, <1>5, <2>5, <2>6, <2>7, <2>8, <2>9, <2>10, <2>11 DEF IInv
<1> QED
  BY <1>6, <1>7

\* Main stores the empty list and starts the threads.
LEMMA InitialListKeeps ==
  ASSUME IInv, TypeOK', StoreInitialList("store1", "unsafe") \/ StoreInitialList("store2", "safe")
  PROVE  IInv'
<1>1. /\ TypeOK /\ Clock /\ Snapshots /\ Lists /\ Present /\ Kept /\ Once /\ Late /\ Counted
      /\ store \in Stores(Seq(Token)) /\ store.cas \in Nat /\ store.clock \in Nat
  BY DEF IInv, TypeOK, Stores
<1>2. PICK r : r = [set |-> TRUE, cas |-> NoCas, text |-> EmptyList]
  OBVIOUS
<1>3. /\ \A t \in Threads : pc'[t] = "connect" /\ res'[t] = NewResult
      /\ main \in {"store1", "store2"} /\ main' \in {"unsafe", "safe"} /\ faults \subseteq faults'
      /\ unheard' = {} /\ unsent' = {}
      /\ \/ store' = Mutate(store, EmptyList) /\ late' = late /\ faults' = faults
         \/ store' = store /\ late' = late \cup {r} /\ "initial" \in faults'
  BY <1>2 DEF StoreInitialList, At, Fault, NoFault
<1>4. /\ Mutate(store, EmptyList).val = EmptyList
      /\ Mutate(store, EmptyList).cas = store.clock + 1 /\ Mutate(store, EmptyList).clock = store.clock + 1
  BY <1>1, EmptyListIsList, MutateIsStore
<1>5. Clock'
  <2>1. store'.cas <= store'.clock /\ store'.clock \in Nat
    BY <1>1, <1>3, <1>4 DEF Clock
  <2>2. \A t \in Threads : res'[t].cas = 0
    BY <1>3 DEF NewResult, NoCas
  <2> QED
    BY <2>1, <2>2 DEF Clock
<1>6. Snapshots'
  BY <1>3 DEF Snapshots
<1>7. "initial" \notin faults' => Exists(store') /\ store'.val = EmptyList
  BY <1>1, <1>3, <1>4 DEF Exists, NoCas
<1>8. Lists'
  <2> SUFFICES ASSUME faults' \cap {"get", "initial"} = {} PROVE IsList(store'.val)
    BY <1>3 DEF Lists, IsList, Exists
  <2> QED
    BY <1>7, EmptyListIsList
<1>9. Present'
  BY <1>7 DEF Present, Exists
<1>10. Kept'
  BY <1>3 DEF Kept
<1>11. Once'
  <2> SUFFICES ASSUME "initial" \notin faults', NEW u \in Threads
               PROVE  AtMostOnce(u, store'.val) /\ ~ In(u, store'.val)
    BY <1>3 DEF Once, Clean, AtMostOnce, In
  <2> QED
    BY <1>7, EmptyListIsList DEF NoTwice
<1>12. Late'
  <2> SUFFICES ASSUME NEW q \in late' PROVE Sound(q)'
    BY DEF Late
  <2>1. CASE q \in late
    <3>1. Sound(q)
      BY <1>1, <2>1 DEF Late
    <3>2. q.cas <= store'.clock
      <4>1. q.cas <= store.clock /\ q.cas \in Nat
        BY <1>1, <2>1, <3>1 DEF Sound, TypeOK, Requests
      <4> QED
        BY <1>1, <1>3, <1>4, <4>1
    <3>3. faults' \cap {"initial", "unsafeStore"} # {}
      <4>1. main # "exited" /\ ~ InSafePhase
        BY <1>3 DEF InSafePhase
      <4>2. faults \cap {"initial", "unsafeStore"} # {}
        BY <3>1, <4>1 DEF Sound
      <4> QED
        BY <1>3, <4>2
    <3>4. faults' \cap {"get", "initial"} = {} => IsList(q.text)
      BY <1>3, <3>1 DEF Sound
    <3>5. IsList(q.text)' <=> IsList(q.text)
      BY DEF IsList
    <3> QED
      BY <3>2, <3>3, <3>4, <3>5 DEF Sound
  <2>2. CASE q \notin late
    <3>1. "initial" \in faults' /\ q.cas = 0
      BY <1>2, <1>3, <2>2 DEF NoCas
    <3>2. store'.clock \in Nat
      BY <1>1, <1>3, <1>4
    <3> QED
      BY <3>1, <3>2 DEF Sound
  <2> QED
    BY <2>1, <2>2
<1>13. Counted'
  BY <1>1, <1>3 DEF Counted
<1> QED
  BY <1>5, <1>6, <1>8, <1>9, <1>10, <1>11, <1>12, <1>13 DEF IInv

\* Every step of a worker keeps the invariant.
LEMMA ThreadKeeps ==
  ASSUME IInv, NEW t \in Threads, Thread(t)
  PROVE  IInv'
<1>1. /\ TypeOK /\ Clock /\ pc \in [Threads -> {"idle", "connect", "get", "store", "done"}]
      /\ res \in [Threads -> Results] /\ store \in Stores(Seq(Token)) /\ store.cas \in Nat /\ store.clock \in Nat
  BY DEF IInv, TypeOK, Stores
<1>2. TypeOK'
  BY <1>1, ThreadTypes
<1>3. \A u \in Threads : res[u].cas <= store.clock
  BY <1>1 DEF Clock
<1>4. NoCas <= store.clock
  BY <1>1 DEF NoCas
<1>5. CASE Connect(t)
  <2>1. /\ UNCHANGED <<store, main, res, late, unheard, unsent>> /\ faults' = faults /\ main \in {"unsafe", "safe"}
        /\ pc[t] = "connect" /\ pc'[t] = "get" /\ \A u \in Threads : u # t => pc'[u] = pc[u]
    BY <1>1, <1>5 DEF Connect, Running, NoFault, NoneLost
  <2>2. Counted'
    BY <2>1 DEF IInv, Counted
  <2> QED
    BY <1>2, <1>3, <2>1, <2>2, QuietKeeps DEF InSafePhase
<1>6. CASE ConnectFails(t)
  <2>1. /\ UNCHANGED <<store, pc, res, late, unheard, unsent>> /\ main' = "exited" /\ faults \subseteq faults'
        /\ main \in {"unsafe", "safe"} /\ faults' # {}
    BY <1>6 DEF ConnectFails, Fault, NoneLost, Running
  <2>2. Counted'
    BY <2>1 DEF Counted
  <2>3. ~ InSafePhase'
    BY <2>1 DEF InSafePhase
  <2> QED
    BY <1>2, <1>3, <2>1, <2>2, <2>3, QuietKeeps
<1>7. CASE Get(t)
  BY <1>7, GetKeeps
<1>8. CASE StoreAccepted(t)
  BY <1>2, <1>8, WriteKeeps
<1>9. ASSUME NEW rc \in {"KEY_EEXISTS", "KEY_ENOENT"}, Running(t, "store"), Reply(t, rc),
             UNCHANGED <<store, faults, late, unheard, unsent>>
      PROVE  IInv'
  <2>1. res'[t] = ErrorCallback(res[t], rc) /\ \A u \in Threads : u # t => res'[u] = res[u]
    BY <1>1, <1>9 DEF Reply
  <2>2. res'[t].cas = NoCas
    BY <1>1, <2>1 DEF ErrorCallback, Results
  <2>3. /\ main' = main /\ main \in {"unsafe", "safe"} /\ pc[t] = "store" /\ pc'[t] # "store"
        /\ main = "safe" => pc'[t] = "get"
        /\ \A u \in Threads : u # t => pc'[u] = pc[u]
    BY <1>1, <1>9 DEF Reply, AfterStore, Running
  <2>4. \A u \in Threads : res'[u].cas <= store.clock
    BY <1>3, <1>4, <2>1, <2>2
  <2>5. Counted'
    BY <1>9, <2>3 DEF IInv, Counted
  <2>6. (InSafePhase' <=> InSafePhase) /\ (InSafePhase' => pc'[t] # "done")
    BY <2>3 DEF InSafePhase
  <2> QED
    BY <1>2, <1>9, <2>1, <2>3, <2>4, <2>5, <2>6, QuietKeeps
<1>10. CASE StoreRefused(t)
  BY <1>9, <1>10 DEF StoreRefused, NoFault, NoneLost
<1>11. CASE StoreMissing(t)
  BY <1>9, <1>11 DEF StoreMissing, NoFault, NoneLost
<1>12. CASE StoreTimesOut(t)
  BY <1>2, <1>12, TimeOutKeeps
<1>13. CASE StoreNotSent(t)
  <2>1. /\ UNCHANGED <<store, main, res, late, unheard>> /\ faults \subseteq faults' /\ faults' # {}
        /\ unsent' = unsent \cup {t}
        /\ main \in {"unsafe", "safe"} /\ pc[t] = "store" /\ pc'[t] # "store"
        /\ \A u \in Threads : u # t => pc'[u] = pc[u]
    BY <1>1, <1>13 DEF StoreNotSent, Running, AfterStore, Fault
  <2>2. Counted'
    BY <2>1 DEF Counted
  <2> QED
    BY <1>2, <1>3, <2>1, <2>2, QuietKeeps DEF InSafePhase
<1> QED
  BY <1>5, <1>6, <1>7, <1>8, <1>10, <1>11, <1>12, <1>13 DEF Thread

\* So does a step that changes nothing.
LEMMA NothingKeeps ==
  ASSUME IInv, UNCHANGED vars
  PROVE  IInv'
<1>1. UNCHANGED <<store, late, main, mres, counted, pc, res, faults, unheard, unsent>>
  BY DEF vars
<1>2. TypeOK'
  BY TypesKept DEF IInv
<1>3. Counted'
  BY <1>1 DEF IInv, Counted, CountListItems, Commas
<1>4. \A t \in Threads : res[t].cas <= store.clock
  BY DEF IInv, Clock
<1> QED
  BY <1>1, <1>2, <1>3, <1>4, QuietKeeps DEF InSafePhase

\* Every step of main keeps the invariant.
LEMMA MainKeeps ==
  ASSUME IInv, Main
  PROVE  IInv'
<1>1. TypeOK /\ Clock /\ Present /\ Counted /\ store \in Stores(Seq(Token))
  BY DEF IInv, TypeOK
<1>2. TypeOK'
  BY <1>1, MainTypes
<1>3. CASE StoreInitialList("store1", "unsafe") \/ StoreInitialList("store2", "safe")
  BY <1>2, <1>3, InitialListKeeps
<1>4. ASSUME UNCHANGED <<store, pc, res, late, unheard, unsent>>, faults \subseteq faults',
             InSafePhase' => InSafePhase, InSafePhase => InSafePhase', main # "exited",
             main' # main => \/ main' \in {"store1", "exited"}
                             \/ main \in {"unsafe", "get1", "count1", "store2", "safe", "get2", "count2"},
             Counted'
      PROVE  IInv'
  <2>1. \A t \in Threads : res'[t].cas <= store.clock
    BY <1>1, <1>4 DEF Clock
  <2> QED
    BY <1>2, <1>4, <2>1, QuietKeeps
<1>5. CASE MainConnect
  <2>1. /\ UNCHANGED <<store, pc, res, late, unheard, unsent>> /\ faults \subseteq faults'
        /\ main = "connect" /\ main' \in {"store1", "exited"}
    BY <1>5 DEF MainConnect, At, Fault, NoFault, NoneLost
  <2> QED
    BY <1>1, <1>4, <2>1 DEF InSafePhase, Counted
<1>6. CASE Join("unsafe", "get1") \/ Join("safe", "get2")
  BY <1>1, <1>4, <1>6 DEF Join, At, InSafePhase, Counted, NoneLost
<1>7. CASE MainGet("get1", "count1")
  <2>1. UNCHANGED <<store, pc, res, late, unheard, unsent>> /\ faults \subseteq faults' /\ main = "get1" /\ main' = "count1"
    BY <1>7 DEF MainGet, At, Fault, NoFault, NoneLost
  <2> QED
    BY <1>1, <1>4, <2>1 DEF InSafePhase, Counted
<1>8. CASE MainGet("get2", "count2")
  <2>1. UNCHANGED <<store, pc, res, late, unheard, unsent>> /\ faults \subseteq faults' /\ main = "get2" /\ main' = "count2"
    BY <1>8 DEF MainGet, At, Fault, NoFault, NoneLost
  <2>2. faults' = {} => mres'.value = store.val
    <3> SUFFICES ASSUME faults' = {} PROVE mres'.value = store.val
      OBVIOUS
    <3>1. mres' = GetCallback(mres) /\ faults = {}
      BY <1>8 DEF MainGet, Fault, NoFault, NoneLost
    <3>2. Exists(store)
      BY <1>1, <2>1, <3>1 DEF Present
    <3> QED
      BY <3>1, <3>2 DEF GetCallback
  <2>3. Counted'
    BY <1>1, <2>1, <2>2 DEF Counted
  <2> QED
    BY <1>4, <2>1, <2>3 DEF InSafePhase
<1>9. CASE MainGetNotSent
  <2>1. /\ UNCHANGED <<store, pc, res, late, unheard, unsent>> /\ faults \subseteq faults' /\ faults' # {}
        /\ (main = "get1" /\ main' = "exited") \/ (main = "get2" /\ main' = "count2")
    BY <1>9 DEF MainGetNotSent, At, Fault, NoneLost
  <2> QED
    BY <1>1, <1>4, <2>1 DEF InSafePhase, Counted
<1>10. CASE CountUnsafe
  <2>1. UNCHANGED <<store, pc, res, faults, late, unheard, unsent>> /\ main = "count1" /\ main' = "store2"
    BY <1>10 DEF CountUnsafe, Count, At, NoneLost
  <2> QED
    BY <1>1, <1>4, <2>1 DEF InSafePhase, Counted
<1>11. CASE CountSafe
  <2>1. /\ UNCHANGED <<store, pc, res, faults, late, unheard, unsent>> /\ main = "count2" /\ main' = "done"
        /\ counted' = CountListItems(mres.value)
    BY <1>11 DEF CountSafe, Count, At, NoneLost
  <2>2. Counted'
    BY <1>1, <2>1 DEF Counted, CountListItems, Commas
  <2> QED
    BY <1>4, <2>1, <2>2 DEF InSafePhase
<1>12. CASE CountHangs
  <2>1. UNCHANGED vars
    BY <1>12 DEF CountHangs
  <2> QED
    BY <2>1, NothingKeeps
<1> QED
  BY <1>3, <1>5, <1>6, <1>7, <1>8, <1>9, <1>10, <1>11, <1>12 DEF Main

\* It holds at the start.
LEMMA InitHolds ==
  ASSUME Init
  PROVE  IInv
<1>1. store = [val |-> <<>>, cas |-> 0, clock |-> 0] /\ main = "connect" /\ faults = {}
      /\ late = {} /\ unheard = {} /\ unsent = {}
      /\ \A t \in Threads : pc[t] = "idle" /\ res[t] = NewResult
  BY DEF Init, EmptyStore, NoCas
<1>2. <<>> \in Seq(Token) /\ store \in Stores(Seq(Token))
  BY <1>1 DEF Stores
<1>3. NewResult \in Results
  BY <1>2 DEF NewResult, Results, NoCas
<1>4. TypeOK
  BY <1>1, <1>2, <1>3 DEF TypeOK, Init
<1>5. Clock
  BY <1>1 DEF Clock, NewResult, NoCas
<1>6. Snapshots /\ Lists /\ Present /\ Kept /\ Once /\ Late /\ Counted
  BY <1>1 DEF Snapshots, Lists, Present, Kept, Once, Late, Counted, InSafePhase, Exists, NoCas
<1> QED
  BY <1>4, <1>5, <1>6 DEF IInv

\* Nothing the program does, and no failure, breaks the invariant.
THEOREM Invariance == Spec => []IInv
<1>1. Init => IInv
  BY InitHolds
<1>2. IInv /\ [Next]_vars => IInv'
  <2> SUFFICES ASSUME IInv, [Next]_vars PROVE IInv'
    OBVIOUS
  <2>1. CASE UNCHANGED vars
    BY <2>1, NothingKeeps
  <2> QED
    BY <2>1, ThreadKeeps, MainKeeps, LateKeeps DEF Next, Stopped
<1> QED
  BY <1>1, <1>2, PTL DEF Spec
-----------------------------------------------------------------------------
(* Counting items. *)

\* How often an item occurs, and whether it does.
LEMMA OccurrencesOf ==
  ASSUME NEW s \in Seq(Token), NEW t \in Threads
  PROVE  LET P == {i \in DOMAIN s : s[i] = t}
         IN  /\ Cardinality(P) \in Nat
             /\ In(t, s) => Cardinality(P) >= 1
             /\ AtMostOnce(t, s) => Cardinality(P) <= 1
<1> DEFINE P == {i \in DOMAIN s : s[i] = t}
<1>1. IsFiniteSet(P)
  <2>1. Len(s) \in Nat /\ DOMAIN s = 1 .. Len(s)
    OBVIOUS
  <2>2. IsFiniteSet(1 .. Len(s)) /\ P \subseteq 1 .. Len(s)
    BY <2>1, FS_Interval
  <2> QED
    BY <2>2, FS_Subset
<1>2. Cardinality(P) \in Nat
  BY <1>1, FS_CardinalityType
<1>3. ASSUME In(t, s) PROVE Cardinality(P) >= 1
  <2>1. P # {}
    BY <1>3 DEF In
  <2> HIDE DEF P
  <2>2. Cardinality(P) # 0
    BY <1>1, <2>1, FS_EmptySet
  <2> QED
    BY <1>2, <2>2
<1>4. ASSUME AtMostOnce(t, s) PROVE Cardinality(P) <= 1
  <2>1. \A i, j \in P : i = j
    BY <1>4 DEF AtMostOnce
  <2> HIDE DEF P
  <2>2. CASE P = {}
    BY <2>2, FS_EmptySet
  <2>3. CASE P # {}
    <3>1. PICK i \in P : P = {i}
      BY <2>1, <2>3
    <3>2. Cardinality({i}) = 1
      BY FS_Singleton
    <3> QED
      BY <3>1, <3>2
  <2> QED
    BY <2>2, <2>3
<1> QED
  BY <1>2, <1>3, <1>4

\* count_list_items counts the items of a list that has every item once.
LEMMA CountsEveryItem ==
  ASSUME NEW s \in Seq(Token), IsList(s), NoTwice(s), \A t \in Threads : In(t, s)
  PROVE  CountListItems(s) = Cardinality(Threads)
<1> DEFINE n == Len(s)
           P == {i \in 2 .. n - 1 : i % 2 = 0}
           Q == P \ {n - 1}
           C == {i \in DOMAIN s : s[i] = "comma"}
<1>1. n \in Nat /\ DOMAIN s = 1 .. n
  OBVIOUS
<1>2. /\ n >= 2 /\ s[1] = "open" /\ s[n] = "close"
      /\ \A i \in 2 .. n - 1 : IF i % 2 = 0 THEN s[i] \in Threads ELSE s[i] = "comma"
  BY DEF IsList
<1>3. n % 2 = 1
  <2>1. s # EmptyList
    BY EmptyListIsList, ThreadsAssumption
  <2> QED
    BY <2>1 DEF IsList
<1>4. n >= 3
  <2>1. n = 2 => n % 2 = 0
    OBVIOUS
  <2> QED
    BY <1>1, <1>2, <1>3, <2>1
<1> HIDE DEF n
<1>5. IsFiniteSet(P) /\ IsFiniteSet(Q)
  <2>1. IsFiniteSet(2 .. n - 1)
    BY <1>1, FS_Interval
  <2>2. P \subseteq 2 .. n - 1 /\ Q \subseteq 2 .. n - 1
    OBVIOUS
  <2> QED
    BY <2>1, <2>2, FS_Subset
<1>6. n - 1 \in P
  <2>1. \A m \in Nat : m % 2 = 1 => (m - 1) % 2 = 0
    OBVIOUS
  <2> QED
    BY <1>1, <1>3, <1>4, <2>1
<1>7. Cardinality(P) = Cardinality(Threads)
  <2> DEFINE f == [i \in P |-> s[i]]
  <2>1. f \in [P -> Threads]
    BY <1>2
  <2>2. \A i, j \in P : f[i] = f[j] => i = j
    <3> SUFFICES ASSUME NEW i \in P, NEW j \in P, s[i] = s[j] PROVE i = j
      OBVIOUS
    <3>1. s[i] \in Threads
      BY <1>2
    <3>2. i \in DOMAIN s /\ j \in DOMAIN s
      BY <1>1
    <3> QED
      BY <3>1, <3>2 DEF NoTwice, AtMostOnce
  <2>3. \A t \in Threads : \E i \in P : f[i] = t
    <3> SUFFICES ASSUME NEW t \in Threads PROVE \E i \in P : s[i] = t
      OBVIOUS
    <3>1. PICK i \in DOMAIN s : s[i] = t
      BY DEF In
    <3>2. i # 1 /\ i # n /\ s[i] # "comma"
      BY <1>2, <3>1, ItemsAreNotBrackets
    <3>3. i \in 2 .. n - 1
      BY <1>1, <3>2
    <3> QED
      BY <1>2, <3>1, <3>2, <3>3
  <2> HIDE DEF f, P
  <2>4. f \in Bijection(P, Threads)
    BY <2>1, <2>2, <2>3 DEF Bijection, Injection, Surjection, IsInjective
  <2> QED
    BY <1>5, <2>4, FS_Bijection DEF ExistsBijection
<1>8. Cardinality(C) = Cardinality(Q)
  <2> DEFINE g == [i \in Q |-> i + 1]
  <2>1. \A i \in Q : i \in 2 .. n - 2 /\ i % 2 = 0
    BY <1>1
  <2>2. g \in [Q -> C]
    <3> SUFFICES ASSUME NEW i \in Q PROVE i + 1 \in C
      OBVIOUS
    <3>1. i + 1 \in 2 .. n - 1 /\ i + 1 \in DOMAIN s
      BY <1>1, <2>1
    <3>2. (i + 1) % 2 # 0
      BY <2>1
    <3> QED
      BY <1>2, <3>1, <3>2
  <2>3. \A i, j \in Q : g[i] = g[j] => i = j
    BY <2>1
  <2>4. \A c \in C : \E i \in Q : g[i] = c
    <3> SUFFICES ASSUME NEW c \in C PROVE c - 1 \in Q /\ g[c - 1] = c
      OBVIOUS
    <3>1. c \in 1 .. n /\ c # 1 /\ c # n
      BY <1>1, <1>2
    <3>2. c \in 2 .. n - 1
      BY <1>1, <3>1
    <3>3. c % 2 # 0
      BY <1>2, <3>2, ItemsAreNotBrackets
    <3>4. (c - 1) % 2 = 0 /\ c # 2 /\ c - 1 \in 2 .. n - 2
      BY <1>1, <3>2, <3>3
    <3>5. c - 1 \in Q
      BY <1>1, <3>4
    <3> QED
      BY <3>2, <3>5
  <2> HIDE DEF g, Q, C
  <2>5. g \in Bijection(Q, C)
    BY <2>2, <2>3, <2>4 DEF Bijection, Injection, Surjection, IsInjective
  <2> QED
    BY <1>5, <2>5, FS_Bijection DEF ExistsBijection
<1>9. Cardinality(Q) = Cardinality(P) - 1
  <2> HIDE DEF P
  <2> QED
    BY <1>5, <1>6, FS_RemoveElement
<1>10. Commas(s) = Cardinality(Threads) - 1
  BY <1>7, <1>8, <1>9 DEF Commas
<1>11. Cardinality(Threads) \in Nat /\ Cardinality(Threads) # 0
  BY ThreadsAssumption, FS_CardinalityType, FS_EmptySet
<1> QED
  BY <1>1, <1>4, <1>10, <1>11 DEF CountListItems, n
-----------------------------------------------------------------------------
(* What the runs check of three threads, for any number of them. *)

\* c/cas.cc keeps its variables' types, and its workers run only between their
\* creation and their join.
THEOREM TypeCorrect == Spec => []TypeOK
<1>1. IInv => TypeOK
  BY DEF IInv
<1> QED
  BY <1>1, Invariance, PTL

\* add_item_to_list keeps the document a list as long as every get of a worker
\* is answered and main's "[]" is; replaces that are carried out late do no harm.
THEOREM StaysWellFormed == Spec => []ListStaysWellFormed
<1>1. IInv => ListStaysWellFormed
  BY DEF IInv, Lists, ListStaysWellFormed
<1> QED
  BY <1>1, Invariance, PTL

\* thread_func_safe returns only after its item is stored, and no other thread
\* and no replace of its phase that is carried out late removes it; a store that
\* is not sent costs no other thread's item.  It takes a late request without a
\* CAS to remove one: the hypothesis names the three failures that leave one.
THEOREM LoseNothing == Spec => []SafeThreadsLoseNothing
<1>1. IInv => SafeThreadsLoseNothing
  <2> SUFFICES ASSUME IInv, InSafePhase, faults \cap {"get", "initial", "unsafeStore"} = {},
                      NEW t \in Threads \ unsent, pc[t] = "done"
               PROVE  Occurrences(t) >= 1
    BY DEF SafeThreadsLoseNothing
  <2>1. In(t, store.val) /\ store.val \in Seq(Token)
    BY DEF IInv, Kept, TypeOK, Stores
  <2> QED
    BY <2>1, OccurrencesOf DEF Occurrences
<1> QED
  BY <1>1, Invariance, PTL

\* The item of a thread none of whose stores timed out is not stored twice,
\* unless the list was not reset or a replace of the first phase came late.
THEOREM StoreOnce == Spec => []SafeThreadsStoreOnce
<1>1. IInv => SafeThreadsStoreOnce
  <2> SUFFICES ASSUME IInv, InSafePhase, faults \cap {"initial", "unsafeStore"} = {}, NEW t \in Threads \ unheard
               PROVE  Occurrences(t) <= 1
    BY DEF SafeThreadsStoreOnce
  <2>1. AtMostOnce(t, store.val) /\ store.val \in Seq(Token)
    BY DEF IInv, Once, Clean, TypeOK, Stores
  <2> QED
    BY <2>1, OccurrencesOf DEF Occurrences
<1> QED
  BY <1>1, Invariance, PTL

\* Without failures the second phase of main counts one item per thread.
THEOREM CountsAll == Spec => []SafePhaseCountsAll
<1>1. IInv => SafePhaseCountsAll
  <2> SUFFICES ASSUME IInv, main = "done", faults = {}
               PROVE  counted = Cardinality(Threads)
    BY DEF SafePhaseCountsAll
  <2>1. /\ store.val \in Seq(Token) /\ \A t \in Threads : pc[t] = "done"
        /\ counted = CountListItems(store.val)
    BY DEF IInv, TypeOK, Stores, Counted
  <2>4. unheard = {} /\ unsent = {}
    BY DEF IInv, Counted
  <2>2. Exists(store) /\ NoTwice(store.val) /\ \A t \in Threads : In(t, store.val)
    BY <2>1, <2>4 DEF IInv, Present, Kept, Once, Clean, NoTwice, InSafePhase
  <2>3. IsList(store.val)
    BY <2>2 DEF IInv, Lists
  <2> QED
    BY <2>1, <2>2, <2>3, CountsEveryItem
<1> QED
  BY <1>1, Invariance, PTL
=============================================================================
