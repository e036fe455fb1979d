----------------------------- MODULE AtomicList -----------------------------
(***************************************************************************)
(* What the CAS examples promise of the list they share: an adder's item   *)
(* is appended in one indivisible step, at most once, and no adder's step  *)
(* disturbs what the others appended.  An adder ends by answering "added"  *)
(* (its item was appended) or "failed" (it does not know).  MayWipe says   *)
(* whether the list can be emptied from outside while adders are at work.  *)
(***************************************************************************)
EXTENDS Sequences

CONSTANTS Adders,   \* the concurrent processes or threads, one item each
          MayWipe   \* can the document be reset or removed meanwhile?

VARIABLES list,     \* the items in the document
          answer    \* [Adders -> {"none", "added", "failed"}]

vars == <<list, answer>>

Init == /\ list = <<>>
        /\ answer = [a \in Adders |-> "none"]

Answer(a, r) == /\ answer[a] = "none"
                /\ answer' = [answer EXCEPT ![a] = r]

\* The append took effect; its reply may still be lost.
Add(a) == /\ list' = Append(list, a)
          /\ \E r \in {"added", "failed"} : Answer(a, r)

Unchanged == UNCHANGED list
Wiped     == MayWipe /\ list' = <<>>

Fail(a) == Answer(a, "failed") /\ (Unchanged \/ Wiped)

Wipe == Wiped /\ UNCHANGED answer

Next == Wipe \/ \E a \in Adders : Add(a) \/ Fail(a)

Spec == Init /\ [][Next]_vars
=============================================================================
