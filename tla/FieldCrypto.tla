---------------------------- MODULE FieldCrypto ----------------------------
(***************************************************************************)
(* c/encryption: two programs store the documents secret-1 .. secret-5     *)
(* with an encrypted field, by AES and by RSA, two read and decrypt them.  *)
(* The four may run at the same time and use the same documents.           *)
(*                                                                         *)
(* The library (external) calls the provider's functions.  Each of those   *)
(* is a sequence of OpenSSL calls, one of which may fail.                  *)
(***************************************************************************)
EXTENDS Integers, Sequences

CONSTANTS Lengths   \* the lengths of the field in secret-1, secret-2, ...

ASSUME LengthsAssumption == Lengths \in Seq(Nat \ {0}) /\ Lengths # <<>>

BlockLen == 16

Keys == DOMAIN Lengths
-----------------------------------------------------------------------------
(* The provider's functions.  A call gets a resource; when it fails the    *)
(* function frees some and returns LCB_EINVAL.  At its end it frees some   *)
(* of what is left; "out" is the caller's to release.                      *)

Call(gets, frees) == [gets |-> gets, frees |-> frees]

Function(calls, frees) == [calls |-> calls, frees |-> frees]

\* EVP_DigestSignInit failing leaves ctx; success leaves both.
osp_sign == Function(<<Call({}, {}),
                       Call({"key"}, {}),
                       Call({"ctx"}, {"key"}),
                       Call({}, {"key"}),
                       Call({}, {"key", "ctx"}),
                       Call({}, {"key", "ctx"})>>, {})

\* The same calls, then the comparison of the signatures.
osp_verify_signature == Function(osp_sign.calls \o <<Call({}, {})>>, {})

\* Mutant: the context is forgotten when the last block fails.
osp_encrypt_Leaks == Function(<<Call({"cipher"}, {}),
                                Call({"out"}, {"cipher"}),
                                Call({}, {"out", "cipher"}),
                                Call({}, {"out"})>>, {"cipher"})

\* The output is allocated once EVP_EncryptInit_ex has succeeded.
osp_encrypt == Function(<<Call({"cipher"}, {}),
                          Call({"out"}, {"cipher"}),
                          Call({}, {"out", "cipher"}),
                          Call({}, {"out", "cipher"})>>, {"cipher"})

osp_decrypt == Function(<<Call({"cipher"}, {}),
                          Call({"out"}, {"cipher"}),
                          Call({}, {"out", "cipher"}),
                          Call({}, {"out", "cipher"})>>, {"cipher"})

\* RSA_public_encrypt failing is not seen: the function answers LCB_SUCCESS.  The
\* fields are shorter than the key, so that it does not fail.
oap_encrypt == Function(<<Call({"rsa", "out"}, {})>>, {})

oap_decrypt == Function(<<Call({"rsa", "out"}, {})>>, {})

Resources == {"key", "ctx", "cipher", "rsa", "out"}

Gets(calls) == UNION {calls[i].gets : i \in DOMAIN calls}

\* What a function can end with: whether it succeeds and what it leaves.
Ends(f) ==
  {[ok |-> FALSE, left |-> Gets(SubSeq(f.calls, 1, i-1)) \ f.calls[i].frees] :
     i \in DOMAIN f.calls}
  \cup {[ok |-> TRUE, left |-> Gets(f.calls) \ (f.frees \cup {"out"})]}

\* The same of two functions, the second called when the first succeeds.
EndsOfBoth(f, g) ==
  {e \in Ends(f) : ~ e.ok}
  \cup {[ok |-> e.ok, left |-> d.left \cup e.left] : d \in {c \in Ends(f) : c.ok}, e \in Ends(g)}

\* Mutant: a text in whole blocks is thought to need no padding.
osp_encrypt_Memory_NoPadding(len) == ((len + BlockLen - 1) \div BlockLen) * BlockLen - 1

\* The bytes osp_encrypt asks for, and those it writes: whole blocks, padding included.
osp_encrypt_Memory(len) == len + BlockLen - 1

osp_encrypt_Writes(len) == (len \div BlockLen + 1) * BlockLen
-----------------------------------------------------------------------------
(* The programs, and what the library calls for them.                      *)

SymmetricEncrypt  == [does |-> "encrypt", alg |-> "AES-256-HMAC-SHA256"]
SymmetricDecrypt  == [does |-> "decrypt", alg |-> "AES-256-HMAC-SHA256"]
AsymmetricEncrypt == [does |-> "encrypt", alg |-> "RSA-2048-OAEP-SHA1"]
AsymmetricDecrypt == [does |-> "decrypt", alg |-> "RSA-2048-OAEP-SHA1"]

Programs == {SymmetricEncrypt, SymmetricDecrypt, AsymmetricEncrypt, AsymmetricDecrypt}

Symmetric(p) == p.alg = SymmetricEncrypt.alg

CryptEnds(p) ==
  CASE Symmetric(p) /\ p.does = "encrypt" -> EndsOfBoth(osp_encrypt, osp_sign)
    [] Symmetric(p) /\ p.does = "decrypt" -> EndsOfBoth(osp_verify_signature, osp_decrypt)
    [] ~ Symmetric(p) /\ p.does = "encrypt" -> Ends(oap_encrypt)
    [] ~ Symmetric(p) /\ p.does = "decrypt" -> Ends(oap_decrypt)

VARIABLES docs,     \* the algorithm each document is encrypted by, or NoDoc
          key,      \* the document each program is at
          pc,       \* "start", "crypt", "request", "done" or "dead"
          value,    \* the document a decrypting program has got
          left      \* how often each resource is never freed

vars == <<docs, key, pc, value, left>>

NoDoc == "none"

Init == /\ docs = [k \in Keys |-> NoDoc]
        /\ key = [p \in Programs |-> 1]
        /\ pc = [p \in Programs |-> "start"]
        /\ value = [p \in Programs |-> NoDoc]
        /\ left = [p \in Programs |-> [r \in Resources |-> 0]]
-----------------------------------------------------------------------------
Goto(p, label) == pc' = [pc EXCEPT ![p] = label]

Leave(p, S) == left' = [left EXCEPT ![p] = [r \in Resources |-> IF r \in S THEN @[r] + 1 ELSE @[r]]]

First(p) == IF p.does = "encrypt" THEN "crypt" ELSE "request"

\* What follows when a document is done with.
NextDocument(p) == /\ key' = [key EXCEPT ![p] = @ + 1]
                   /\ Goto(p, IF key[p] = Len(Lengths) THEN "done" ELSE First(p))

Start(p) == /\ pc[p] = "start"
            /\ \E label \in {First(p), "dead"} : Goto(p, label)
            /\ UNCHANGED <<docs, key, value, left>>

\* store_encrypted, up to lcb_store3.
Encrypt(p) == /\ p.does = "encrypt" /\ pc[p] = "crypt"
              /\ \E e \in CryptEnds(p) : /\ Leave(p, e.left)
                                         /\ Goto(p, IF e.ok THEN "request" ELSE "dead")
              /\ UNCHANGED <<docs, key, value>>

\* Mutant: both programs name the same algorithm.
Put_Pasted(p) == docs' = [docs EXCEPT ![key[p]] = SymmetricEncrypt.alg]

Put(p) == docs' = [docs EXCEPT ![key[p]] = p.alg]

StoreSucceeds(p) == /\ p.does = "encrypt" /\ pc[p] = "request"
                    /\ Put(p)
                    /\ NextDocument(p)
                    /\ UNCHANGED <<value, left>>

\* The request or its answer is lost.
StoreFails(p) == /\ p.does = "encrypt" /\ pc[p] = "request"
                 /\ Put(p) \/ UNCHANGED docs
                 /\ Goto(p, "dead")
                 /\ UNCHANGED <<key, value, left>>

Get(p) == /\ p.does = "decrypt" /\ pc[p] = "request"
          /\ docs[key[p]] # NoDoc
          /\ value' = [value EXCEPT ![p] = docs[key[p]]]
          /\ Goto(p, "crypt")
          /\ UNCHANGED <<docs, key, left>>

\* Missing or not answered.
GetFails(p) == /\ p.does = "decrypt" /\ pc[p] = "request"
               /\ Goto(p, "dead")
               /\ UNCHANGED <<docs, key, value, left>>

\* op_callback.  A field of the other algorithm is not decrypted.
Decrypt(p) ==
  /\ p.does = "decrypt" /\ pc[p] = "crypt"
  /\ value' = [value EXCEPT ![p] = NoDoc]
  /\ IF value[p] # p.alg
     THEN Goto(p, "dead") /\ UNCHANGED <<key, left>>
     ELSE \E e \in CryptEnds(p) :
            /\ Leave(p, e.left)
            /\ IF e.ok THEN NextDocument(p) ELSE Goto(p, "dead") /\ UNCHANGED key
  /\ UNCHANGED docs

Next == \E p \in Programs : \/ Start(p) \/ Encrypt(p) \/ StoreSucceeds(p) \/ StoreFails(p)
                            \/ Get(p) \/ GetFails(p) \/ Decrypt(p)

Spec == Init /\ [][Next]_vars
-----------------------------------------------------------------------------
(* Properties.                                                             *)

Algorithms == {p.alg : p \in Programs}

\* Type invariant: a program that is not at its end is at one of the documents.
TypeOK == /\ docs \in [Keys -> Algorithms \cup {NoDoc}]
          /\ key \in [Programs -> 1 .. Len(Lengths) + 1]
          /\ pc \in [Programs -> {"start", "crypt", "request", "done", "dead"}]
          /\ value \in [Programs -> Algorithms \cup {NoDoc}]
          /\ left \in [Programs -> [Resources -> Nat]]
          /\ \A p \in Programs : key[p] = Len(Lengths) + 1 => pc[p] = "done"

\* The documents a program has encrypted or decrypted.
Crypted(p) == key[p] - 1 + (IF p.does = "encrypt" /\ pc[p] = "request" THEN 1 ELSE 0)

\* Whatever call fails, no cipher context and no buffer stays allocated
\* (osp_encrypt and osp_decrypt); a program that goes on has left the HMAC key
\* and the digest context, or the RSA key, once for each document, a program
\* that has died at most once more, and never the key without the context.
LeavesOnlyKeysAndDigests ==
  \A p \in Programs :
    LET n == left[p]
        most == Crypted(p) + (IF pc[p] = "dead" THEN 1 ELSE 0)
    IN  /\ n["cipher"] = 0 /\ n["out"] = 0
        /\ n["key"] <= n["ctx"]
        /\ IF Symmetric(p) THEN n["key"] \in Crypted(p) .. most /\ n["ctx"] <= most /\ n["rsa"] = 0
                           ELSE n["rsa"] \in Crypted(p) .. most /\ n["key"] + n["ctx"] = 0

\* What osp_encrypt writes for a field of these programs, padding included, fits
\* the input_len + block_len - 1 bytes it asks for.
PaddedTextFits ==
  \A p \in Programs : Symmetric(p) /\ p.does = "encrypt" =>
    \A k \in 1 .. Crypted(p) : osp_encrypt_Writes(Lengths[k]) <= osp_encrypt_Memory(Lengths[k])

\* A decrypting program is never past a document that the program of its own
\* algorithm has not stored, however the programs of the other one come between
\* (a store may have been made although its answer was lost).
ReadsBehindItsWriter ==
  \A p, q \in Programs :
    p.does = "decrypt" /\ q.does = "encrypt" /\ p.alg = q.alg
      => key[p] <= key[q] + (IF pc[q] = "dead" THEN 1 ELSE 0)
=============================================================================
