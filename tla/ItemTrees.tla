----------------------------- MODULE ItemTrees -----------------------------
(***************************************************************************)
(* What bincoding/cJSON.h promises of items: they form trees, and each     *)
(* function changes the list of children it is called for.  A reference    *)
(* shows the children of another item and owns none.                       *)
(*                                                                         *)
(* The operations relate the trees before, t, and after, u.                *)
(***************************************************************************)
EXTENDS Integers, Sequences, SequencesExt, Functions

CONSTANTS Names,   \* the member names
          NoName   \* the name of what is not a member

VARIABLES tree,    \* the items that exist, with their children, names and kinds
          enough   \* memory has not run out; afterwards nothing is promised

vars == <<tree, enough>>

Init == tree = <<>> /\ enough = TRUE

Kids(t, a) == ToSet(t[a].kids)

Owned(t) == UNION {Kids(t, a) : a \in {b \in DOMAIN t : ~ t[b].ref}}

\* a and what is below it.
Under(t, a) ==
  LET f[n \in 0 .. Cardinality(DOMAIN t)] ==
        IF n = 0 THEN {a}
        ELSE LET S == f[n-1] IN S \cup UNION {Kids(t, b) : b \in {c \in S : ~ t[c].ref}}
  IN  f[Cardinality(DOMAIN t)]

Without(t, S) == Restrict(t, DOMAIN t \ S)

Named(t, a, n) == IF n = NoName THEN t ELSE [t EXCEPT ![a].name = n]

\* A new tree of any shape: an item, an array of items, what a text says.
Make(t, u) ==
  LET made == DOMAIN u \ DOMAIN t
  IN  Without(u, made) = t /\ \E root \in made : made = Under(u, root)

Add(t, u, x, n, a) ==
  /\ a \notin Owned(t) /\ x \notin Under(t, a)
  /\ u = [Named(t, a, n) EXCEPT ![x].kids = Append(@, a)]

AddReference(t, u, x, n, a) ==
  \E r \in DOMAIN u \ DOMAIN t :
    /\ u[r] = [kids |-> t[a].kids, name |-> n, ref |-> TRUE]
    /\ Without(u, {r}) = [t EXCEPT ![x].kids = Append(@, r)]

Detach(t, u, x, i) == u = [t EXCEPT ![x].kids = RemoveAt(@, i)]

DeleteFrom(t, u, x, i) ==
  u = Without([t EXCEPT ![x].kids = RemoveAt(@, i)], Under(t, t[x].kids[i]))

Replace(t, u, x, i, n, a) ==
  /\ a \notin Owned(t) /\ x \notin Under(t, a)
  /\ u = Without([Named(t, a, n) EXCEPT ![x].kids = ReplaceAt(@, i, a)],
                 Under(t, t[x].kids[i]))

Delete(t, u, a) == a \notin Owned(t) /\ u = Without(t, Under(t, a))

\* Items appear, stay, or disappear.
Operation(t, u) ==
  \/ /\ DOMAIN u \ DOMAIN t # {}
     /\ \/ Make(t, u)
        \/ \E x, a \in DOMAIN t, n \in Names \cup {NoName} : AddReference(t, u, x, n, a)
  \/ /\ DOMAIN t = DOMAIN u
     /\ \/ \E x \in DOMAIN t : \E i \in DOMAIN t[x].kids : Detach(t, u, x, i)
        \/ \E x, a \in DOMAIN t, n \in Names \cup {NoName} : Add(t, u, x, n, a)
  \/ /\ DOMAIN t \ DOMAIN u # {}
     /\ \/ \E a \in DOMAIN t : Delete(t, u, a)
        \/ \E x \in DOMAIN t : \E i \in DOMAIN t[x].kids :
             \/ DeleteFrom(t, u, x, i)
             \/ \E a \in DOMAIN t, n \in Names \cup {NoName} : Replace(t, u, x, i, n, a)

Next == \/ enough /\ enough' /\ \E t \in {tree}, u \in {tree'} : Operation(t, u)
        \/ ~ enough'

Spec == Init /\ [][Next]_vars
=============================================================================
