--------------------------- MODULE MCFieldCrypto ---------------------------
(***************************************************************************)
(* The instance of FieldCrypto that is model-checked: the five documents,  *)
(* with the lengths of their fields as JSON.                               *)
(***************************************************************************)
EXTENDS FieldCrypto

\* The sentence, 10, "10", the array of nine words, and the object.
SomeLengths == <<51, 2, 4, 68, 74>>
=============================================================================
