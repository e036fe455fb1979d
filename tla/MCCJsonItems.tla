---------------------------- MODULE MCCJsonItems ----------------------------
(***************************************************************************)
(* The instances of CJsonItems that are model-checked: three texts, a      *)
(* value, an object of one member and an array in an array.                *)
(***************************************************************************)
EXTENDS CJsonItems, TLC

Value(parent, name) == [parent |-> parent, name |-> name]

SomeShapes == {<<Value(0, NoName)>>,
               <<Value(0, NoName), Value(1, "n")>>,
               <<Value(0, NoName), Value(1, NoName), Value(2, NoName)>>}
\* What is unused at an address or in a pool is the same for all of them, so
\* that the choices of AnyOf and of NewBlock respect the symmetry.
Symmetry == Permutations(Addrs) \cup Permutations(Pools)
=============================================================================
