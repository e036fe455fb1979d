-------------------------- MODULE FieldCryptoProofs --------------------------
(***************************************************************************)
(* Proofs about FieldCrypto for any number of documents and any lengths of *)
(* their fields.                                                           *)
(***************************************************************************)
EXTENDS FieldCrypto, TLAPS

\* Is document k one that q has sent?
Sent(q, k) == k < key[q] \/ (k = key[q] /\ pc[q] = "dead")

Encryptors == {q \in Programs : q.does = "encrypt"}

\* A document names an algorithm only if its program has sent the document.
SentBeforeStored ==
  \A q \in Encryptors : \A k \in Keys : docs[k] = q.alg => Sent(q, k)

\* So it has if a program is decrypting it.
SentBeforeRead ==
  \A p \in Programs : \A q \in Encryptors :
    p.does = "decrypt" /\ p.alg = q.alg /\ pc[p] = "crypt" /\ value[p] = p.alg => Sent(q, key[p])

IInv == /\ TypeOK
        /\ SentBeforeStored
        /\ SentBeforeRead
        /\ ReadsBehindItsWriter
        /\ LeavesOnlyKeysAndDigests
-----------------------------------------------------------------------------
CallType == [gets : SUBSET Resources, frees : SUBSET Resources]

\* What the calls of a function have got before its i-th call, element by element.
LEMMA GetsElements ==
  ASSUME NEW n \in Nat, NEW calls \in Seq(CallType), Len(calls) = n
  PROVE  /\ \A x : x \in Gets(calls) <=> \E j \in 1 .. n : x \in calls[j].gets
         /\ \A i \in 1 .. n : \A x :
              x \in Gets(SubSeq(calls, 1, i - 1)) <=> \E j \in 1 .. (i - 1) : x \in calls[j].gets
<1>1. DOMAIN calls = 1 .. n
  OBVIOUS
<1>2. ASSUME NEW i \in 1 .. n
      PROVE  /\ DOMAIN SubSeq(calls, 1, i - 1) = 1 .. (i - 1)
             /\ \A j \in 1 .. (i - 1) : SubSeq(calls, 1, i - 1)[j] = calls[j]
  OBVIOUS
<1>3. QED
  BY <1>1, <1>2 DEF Gets

\* A function of n calls ends with its i-th call failing, or with success.
EndsAfter(n, calls, frees, e) ==
  \/ /\ ~ e.ok
     /\ \E i \in 1 .. n : \A x :
          x \in e.left <=> x \notin calls[i].frees /\ \E j \in 1 .. (i - 1) : x \in calls[j].gets
  \/ /\ e.ok
     /\ \A x : x \in e.left <=> x \notin frees \cup {"out"} /\ \E j \in 1 .. n : x \in calls[j].gets

\* The ways a function ends, whichever call fails, element by element.
LEMMA EndsElements ==
  ASSUME NEW n \in Nat, NEW calls \in Seq(CallType), Len(calls) = n, NEW frees \in SUBSET Resources,
         NEW e \in Ends(Function(calls, frees))
  PROVE  EndsAfter(n, calls, frees, e)
<1> USE DEF EndsAfter
<1>1. DOMAIN calls = 1 .. n
  OBVIOUS
<1>2. CASE \E i \in 1 .. n : e = [ok |-> FALSE, left |-> Gets(SubSeq(calls, 1, i - 1)) \ calls[i].frees]
  <2>1. PICK i \in 1 .. n : e = [ok |-> FALSE, left |-> Gets(SubSeq(calls, 1, i - 1)) \ calls[i].frees]
    BY <1>2
  <2>2. \A x : x \in e.left <=> x \notin calls[i].frees /\ \E j \in 1 .. (i - 1) : x \in calls[j].gets
    BY <2>1, GetsElements
  <2>3. QED
    BY <2>1, <2>2
<1>3. CASE e = [ok |-> TRUE, left |-> Gets(calls) \ (frees \cup {"out"})]
  BY <1>3, GetsElements
<1>4. QED
  BY <1>1, <1>2, <1>3 DEF Ends, Function

\* osp_encrypt and osp_decrypt leave nothing, whichever call fails.
LEMMA CipherEnds ==
  /\ \A e \in Ends(osp_encrypt) : e.left = {}
  /\ \A e \in Ends(osp_decrypt) : e.left = {}
<1> DEFINE c == <<Call({"cipher"}, {}), Call({"out"}, {"cipher"}),
                  Call({}, {"out", "cipher"}), Call({}, {"out", "cipher"})>>
<1>1. c \in Seq(CallType) /\ Len(c) = 4
  BY DEF Call, Resources, CallType
<1>2. /\ c[1].gets = {"cipher"} /\ c[2].gets = {"out"} /\ c[3].gets = {} /\ c[4].gets = {}
      /\ c[1].frees = {} /\ c[2].frees = {"cipher"}
      /\ c[3].frees = {"out", "cipher"} /\ c[4].frees = {"out", "cipher"}
  BY DEF Call
<1>3. osp_encrypt = Function(c, {"cipher"}) /\ osp_decrypt = Function(c, {"cipher"})
  BY DEF osp_encrypt, osp_decrypt
<1>4. {"cipher"} \in SUBSET Resources
  BY DEF Resources
<1> HIDE DEF c
<1>5. ASSUME NEW e \in Ends(Function(c, {"cipher"})), NEW x PROVE x \notin e.left
  <2>1. CASE \E i \in 1 .. 4 : x \in e.left <=> x \notin c[i].frees /\ \E j \in 1 .. (i - 1) : x \in c[j].gets
    BY <1>2, <2>1
  <2>2. CASE x \in e.left <=> x \notin {"cipher"} \cup {"out"} /\ \E j \in 1 .. 4 : x \in c[j].gets
    BY <1>2, <2>2
  <2>3. QED
    <3>1. EndsAfter(4, c, {"cipher"}, e)
      BY <1>1, <1>4, <1>5, EndsElements
    <3>2. QED
      BY <3>1, <2>1, <2>2 DEF EndsAfter
<1>6. QED
  BY <1>3, <1>5

\* The HMAC functions leave the key and the context when they succeed, and
\* never the key without the context.
LEMMA DigestEnds ==
  ASSUME NEW f \in {osp_sign, osp_verify_signature}, NEW e \in Ends(f)
  PROVE  /\ e.left \in {{}, {"ctx"}, {"key", "ctx"}}
         /\ e.ok => e.left = {"key", "ctx"}
<1> DEFINE c == <<Call({}, {}), Call({"key"}, {}), Call({"ctx"}, {"key"}), Call({}, {"key"}),
                  Call({}, {"key", "ctx"}), Call({}, {"key", "ctx"})>>
           d == c \o <<Call({}, {})>>
           none == {}
<1>1. c \in Seq(CallType) /\ Len(c) = 6 /\ d \in Seq(CallType) /\ Len(d) = 7
  BY DEF Call, Resources, CallType
<1>2. /\ c[1].gets = {} /\ c[2].gets = {"key"} /\ c[3].gets = {"ctx"}
      /\ c[4].gets = {} /\ c[5].gets = {} /\ c[6].gets = {}
      /\ c[1].frees = {} /\ c[2].frees = {} /\ c[3].frees = {"key"} /\ c[4].frees = {"key"}
      /\ c[5].frees = {"key", "ctx"} /\ c[6].frees = {"key", "ctx"}
  BY DEF Call
<1>3. d[7].gets = {} /\ d[7].frees = {} /\ \A i \in 1 .. 6 : d[i] = c[i]
  BY DEF Call
<1>4. osp_sign = Function(c, none) /\ osp_verify_signature = Function(d, none)
  BY DEF osp_sign, osp_verify_signature, Function
<1>4a. none \in SUBSET Resources /\ \A x : x \notin none
  OBVIOUS
<1> HIDE DEF c, d, none
<1>5. ASSUME NEW i \in 1 .. 7,
             \A x : x \in e.left <=> x \notin d[i].frees /\ \E j \in 1 .. (i - 1) : x \in d[j].gets
      PROVE  e.left \in {{}, {"ctx"}, {"key", "ctx"}}
  <2>1. CASE i \in {1, 2, 3, 5, 6}
    <3>1. e.left = {}
      BY <1>2, <1>3, <1>5, <2>1
    <3>2. QED
      BY <3>1
  <2>2. CASE i = 4
    <3>1. e.left = {"ctx"}
      BY <1>2, <1>3, <1>5, <2>2
    <3>2. QED
      BY <3>1
  <2>3. CASE i = 7
    <3>1. e.left = {"key", "ctx"}
      BY <1>2, <1>3, <1>5, <2>3
    <3>2. QED
      BY <3>1
  <2>4. QED
    BY <2>1, <2>2, <2>3
<1>6. ASSUME NEW n \in {6, 7},
             \A x : x \in e.left <=> x \notin none \cup {"out"} /\ \E j \in 1 .. n : x \in d[j].gets
      PROVE  e.left = {"key", "ctx"}
  BY <1>2, <1>3, <1>4a, <1>6
<1>7. CASE f = osp_sign
  <2>1. e \in Ends(Function(c, none))
    BY <1>4, <1>7
  <2>2. EndsAfter(6, c, none, e)
    BY <1>1, <1>4a, <2>1, EndsElements
  <2>3. CASE ~ e.ok
    <3>1. PICK i \in 1 .. 6 : \A x :
            x \in e.left <=> x \notin c[i].frees /\ \E j \in 1 .. (i - 1) : x \in c[j].gets
      BY <2>2, <2>3 DEF EndsAfter
    <3>2. \A x : x \in e.left <=> x \notin d[i].frees /\ \E j \in 1 .. (i - 1) : x \in d[j].gets
      BY <1>3, <3>1
    <3>3. QED
      BY <1>5, <2>3, <3>2
  <2>4. CASE e.ok
    <3>1. \A x : x \in e.left <=> x \notin none \cup {"out"} /\ \E j \in 1 .. 6 : x \in d[j].gets
      BY <1>3, <2>2, <2>4 DEF EndsAfter
    <3>2. QED
      BY <1>6, <3>1
  <2>5. QED
    BY <2>3, <2>4
<1>8. CASE f = osp_verify_signature
  <2>1. e \in Ends(Function(d, none))
    BY <1>4, <1>8
  <2>2. EndsAfter(7, d, none, e)
    BY <1>1, <1>4a, <2>1, EndsElements
  <2>3. CASE ~ e.ok
    BY <1>5, <2>2, <2>3 DEF EndsAfter
  <2>4. CASE e.ok
    BY <1>6, <2>2, <2>4 DEF EndsAfter
  <2>5. QED
    BY <2>3, <2>4
<1>9. QED
  BY <1>7, <1>8

\* RSA leaves its key when it succeeds, and nothing when there is no key.
LEMMA KeyEnds ==
  ASSUME NEW f \in {oap_encrypt, oap_decrypt}, NEW e \in Ends(f)
  PROVE  e.left \in {{}, {"rsa"}} /\ (e.ok => e.left = {"rsa"})
<1> DEFINE c == <<Call({"rsa", "out"}, {})>>
<1>1. c \in Seq(CallType) /\ Len(c) = 1 /\ c[1].gets = {"rsa", "out"} /\ {} \in SUBSET Resources
  BY DEF Call, Resources, CallType
<1>2. f = Function(c, {})
  BY DEF oap_encrypt, oap_decrypt
<1> HIDE DEF c
<1>3. EndsAfter(1, c, {}, e)
  BY <1>1, <1>2, EndsElements
<1>4. CASE ~ e.ok
  <2>1. e.left = {}
    BY <1>3, <1>4 DEF EndsAfter
  <2>2. QED
    BY <1>4, <2>1
<1>5. CASE e.ok
  <2>1. e.left = {"rsa"}
    BY <1>1, <1>3, <1>5 DEF EndsAfter
  <2>2. QED
    BY <2>1
<1>6. QED
  BY <1>4, <1>5

\* What encrypting or decrypting one document can leave.
LEMMA CryptLeaves ==
  ASSUME NEW p \in Programs, NEW e \in CryptEnds(p)
  PROVE  /\ Symmetric(p) => /\ e.left \in {{}, {"ctx"}, {"key", "ctx"}}
                            /\ e.ok => e.left = {"key", "ctx"}
         /\ ~ Symmetric(p) => /\ e.left \in {{}, {"rsa"}}
                              /\ e.ok => e.left = {"rsa"}
<1>2. CASE Symmetric(p) /\ p.does = "encrypt"
  <2>1. CryptEnds(p) = EndsOfBoth(osp_encrypt, osp_sign)
    BY <1>2 DEF CryptEnds
  <2>2. CASE e \in Ends(osp_encrypt) /\ ~ e.ok
    BY <1>2, <2>2, CipherEnds
  <2>3. CASE \E d \in Ends(osp_encrypt), g \in Ends(osp_sign) : e = [ok |-> g.ok, left |-> d.left \cup g.left]
    <3>1. PICK d \in Ends(osp_encrypt), g \in Ends(osp_sign) : e = [ok |-> g.ok, left |-> d.left \cup g.left]
      BY <2>3
    <3>2. e.left = g.left /\ e.ok = g.ok
      BY <3>1, CipherEnds
    <3>3. QED
      BY <1>2, <3>2, DigestEnds
  <2>4. QED
    BY <2>1, <2>2, <2>3 DEF EndsOfBoth
<1>3. CASE Symmetric(p) /\ p.does = "decrypt"
  <2>1. CryptEnds(p) = EndsOfBoth(osp_verify_signature, osp_decrypt)
    BY <1>3 DEF CryptEnds
  <2>2. CASE e \in Ends(osp_verify_signature) /\ ~ e.ok
    BY <1>3, <2>2, DigestEnds
  <2>3. CASE \E d \in Ends(osp_verify_signature), g \in Ends(osp_decrypt) :
               d.ok /\ e = [ok |-> g.ok, left |-> d.left \cup g.left]
    <3>1. PICK d \in Ends(osp_verify_signature), g \in Ends(osp_decrypt) :
               d.ok /\ e = [ok |-> g.ok, left |-> d.left \cup g.left]
      BY <2>3
    <3>2. e.left = d.left /\ e.ok = g.ok
      BY <3>1, CipherEnds
    <3>3. QED
      BY <1>3, <3>1, <3>2, DigestEnds
  <2>4. QED
    BY <2>1, <2>2, <2>3 DEF EndsOfBoth
<1>4. CASE ~ Symmetric(p)
  <2>1. p.does \in {"encrypt", "decrypt"}
    BY DEF Programs, SymmetricEncrypt, SymmetricDecrypt, AsymmetricEncrypt, AsymmetricDecrypt
  <2>2. e \in Ends(oap_encrypt) \/ e \in Ends(oap_decrypt)
    BY <1>4, <2>1 DEF CryptEnds
  <2>3. QED
    BY <1>4, <2>2, KeyEnds
<1>5. QED
  <2>1. p.does \in {"encrypt", "decrypt"}
    BY DEF Programs, SymmetricEncrypt, SymmetricDecrypt, AsymmetricEncrypt, AsymmetricDecrypt
  <2>2. QED
    BY <1>2, <1>3, <1>4, <2>1
-----------------------------------------------------------------------------
\* The four programs, and who writes for whom.
LEMMA ProgramFacts ==
  /\ \A p \in Programs : p.does \in {"encrypt", "decrypt"} /\ p.alg \in Algorithms
  /\ \A p, q \in Programs : p.does = q.does /\ p.alg = q.alg => p = q
  /\ NoDoc \notin Algorithms
BY DEF Programs, Algorithms, SymmetricEncrypt, SymmetricDecrypt, AsymmetricEncrypt, AsymmetricDecrypt, NoDoc

\* The documents are numbered from 1, and there is one.
LEMMA LengthFacts == Keys = 1 .. Len(Lengths) /\ Len(Lengths) \in Nat /\ Len(Lengths) >= 1
BY LengthsAssumption DEF Keys

Step(p) == \/ Start(p) \/ Encrypt(p) \/ StoreSucceeds(p) \/ StoreFails(p)
           \/ Get(p) \/ GetFails(p) \/ Decrypt(p)

\* Going on to the next document, or ending after the last one.
LEMMA NextDocumentEffect ==
  ASSUME TypeOK, NEW p \in Programs, pc[p] # "done", NextDocument(p)
  PROVE  /\ key' \in [Programs -> 1 .. Len(Lengths) + 1]
         /\ key'[p] = key[p] + 1 /\ \A q \in Programs : q # p => key'[q] = key[q] /\ pc'[q] = pc[q]
         /\ pc' \in [Programs -> {"start", "crypt", "request", "done", "dead"}]
         /\ pc'[p] \in {First(p), "done"}
         /\ key'[p] = Len(Lengths) + 1 => pc'[p] = "done"
<1>1. key[p] \in 1 .. Len(Lengths) + 1 /\ key[p] # Len(Lengths) + 1 /\ Len(Lengths) \in Nat
  BY LengthFacts DEF TypeOK
<1>2. key[p] \in 1 .. Len(Lengths)
  BY <1>1
<1>3. First(p) \in {"crypt", "request"}
  BY DEF First
<1>4. key' = [key EXCEPT ![p] = key[p] + 1]
  BY DEF NextDocument
<1>5. pc' = [pc EXCEPT ![p] = IF key[p] = Len(Lengths) THEN "done" ELSE First(p)]
  BY DEF NextDocument, Goto
<1>6. key'[p] = key[p] + 1 /\ key' \in [Programs -> 1 .. Len(Lengths) + 1]
  BY <1>1, <1>2, <1>4 DEF TypeOK
<1>7. pc' \in [Programs -> {"start", "crypt", "request", "done", "dead"}]
  BY <1>3, <1>5 DEF TypeOK
<1>8. \A q \in Programs : q # p => key'[q] = key[q] /\ pc'[q] = pc[q]
  BY <1>4, <1>5 DEF TypeOK
<1>9. pc'[p] = IF key[p] = Len(Lengths) THEN "done" ELSE First(p)
  BY <1>5 DEF TypeOK
<1>10. QED
  BY <1>1, <1>6, <1>7, <1>8, <1>9

\* Leaving resources counts them up by one.
LEMMA LeaveEffect ==
  ASSUME TypeOK, NEW p \in Programs, NEW S, Leave(p, S)
  PROVE  /\ left' \in [Programs -> [Resources -> Nat]]
         /\ \A r \in Resources : left'[p][r] = IF r \in S THEN left[p][r] + 1 ELSE left[p][r]
         /\ \A q \in Programs : q # p => left'[q] = left[q]
<1>1. left[p] \in [Resources -> Nat]
  BY DEF TypeOK
<1>2. left' = [left EXCEPT ![p] = [r \in Resources |-> IF r \in S THEN left[p][r] + 1 ELSE left[p][r]]]
  BY DEF Leave
<1>3. [r \in Resources |-> IF r \in S THEN left[p][r] + 1 ELSE left[p][r]] \in [Resources -> Nat]
  BY <1>1
<1>4. QED
  BY <1>2, <1>3 DEF TypeOK

\* The types hold at the start.
LEMMA TypeInit == Init => TypeOK
BY LengthFacts DEF Init, TypeOK

\* Every step keeps the types.
LEMMA TypeStep == TypeOK /\ [Next]_vars => TypeOK'
<1> SUFFICES ASSUME TypeOK, [Next]_vars PROVE TypeOK'
  OBVIOUS
<1>1. ASSUME NEW p \in Programs, Step(p) PROVE TypeOK'
  <2>a. /\ key[p] = Len(Lengths) + 1 => pc[p] = "done"
        /\ pc[p] # "done" => key[p] \in Keys
        /\ p.alg \in Algorithms /\ key[p] \in 1 .. Len(Lengths) + 1
    BY LengthFacts, ProgramFacts DEF TypeOK
  <2>b. First(p) \in {"crypt", "request"}
    BY DEF First
  <2>c. ASSUME NEW l \in {"crypt", "request", "dead"}, Goto(p, l), UNCHANGED key, pc[p] # "done"
        PROVE  /\ pc' \in [Programs -> {"start", "crypt", "request", "done", "dead"}]
               /\ \A q \in Programs : key'[q] = Len(Lengths) + 1 => pc'[q] = "done"
    BY <2>a, <2>c DEF Goto, TypeOK
  <2>d. Put(p) /\ pc[p] # "done" => docs' \in [Keys -> Algorithms \cup {NoDoc}]
    BY <2>a DEF Put, TypeOK
  <2>1. CASE Start(p)
    BY <2>1, <2>b, <2>c DEF Start, TypeOK
  <2>2. CASE Encrypt(p)
    <3>1. PICK e \in CryptEnds(p) : Leave(p, e.left) /\ Goto(p, IF e.ok THEN "request" ELSE "dead")
      BY <2>2 DEF Encrypt
    <3>2. left' \in [Programs -> [Resources -> Nat]]
      BY <3>1, LeaveEffect
    <3>3. QED
      BY <2>2, <2>c, <3>1, <3>2 DEF Encrypt, TypeOK
  <2>3. CASE StoreSucceeds(p)
    <3>1. /\ key' \in [Programs -> 1 .. Len(Lengths) + 1]
          /\ pc' \in [Programs -> {"start", "crypt", "request", "done", "dead"}]
          /\ \A q \in Programs : key'[q] = Len(Lengths) + 1 => pc'[q] = "done"
      BY <2>3, NextDocumentEffect DEF StoreSucceeds, TypeOK
    <3>2. QED
      BY <2>3, <2>d, <3>1 DEF StoreSucceeds, TypeOK
  <2>4. CASE StoreFails(p)
    BY <2>4, <2>c, <2>d DEF StoreFails, TypeOK
  <2>5. CASE Get(p)
    BY <2>5, <2>a, <2>c DEF Get, TypeOK
  <2>6. CASE GetFails(p)
    BY <2>6, <2>c DEF GetFails, TypeOK
  <2>7. CASE Decrypt(p)
    <3>1. value' \in [Programs -> Algorithms \cup {NoDoc}] /\ UNCHANGED docs /\ pc[p] = "crypt"
      BY <2>7 DEF Decrypt, TypeOK
    <3>2. CASE value[p] # p.alg
      BY <2>7, <2>c, <3>1, <3>2 DEF Decrypt, TypeOK
    <3>3. CASE value[p] = p.alg
      <4>1. PICK e \in CryptEnds(p) : /\ Leave(p, e.left)
                                     /\ IF e.ok THEN NextDocument(p) ELSE Goto(p, "dead") /\ UNCHANGED key
        BY <2>7, <3>3 DEF Decrypt
      <4>2. left' \in [Programs -> [Resources -> Nat]]
        BY <4>1, LeaveEffect
      <4>3. CASE NextDocument(p)
        BY <3>1, <4>2, <4>3, NextDocumentEffect DEF TypeOK
      <4>4. CASE Goto(p, "dead") /\ UNCHANGED key
        BY <2>c, <3>1, <4>2, <4>4 DEF TypeOK
      <4>5. QED
        BY <4>1, <4>3, <4>4
    <3>4. QED
      BY <3>2, <3>3
  <2>8. QED
    BY <1>1, <2>1, <2>2, <2>3, <2>4, <2>5, <2>6, <2>7 DEF Step
<1>2. CASE UNCHANGED vars
  BY <1>2 DEF vars, TypeOK
<1>3. QED
  BY <1>1, <1>2 DEF Next, Step
-----------------------------------------------------------------------------
\* A step of one program leaves the others where they are, and the documents
\* it does not send.
LEMMA StepFrame ==
  ASSUME TypeOK, NEW p \in Programs, Step(p)
  PROVE  /\ \A q \in Programs : q # p => /\ key'[q] = key[q] /\ pc'[q] = pc[q]
                                        /\ value'[q] = value[q] /\ left'[q] = left[q]
         /\ docs' = docs \/ (p.does = "encrypt" /\ pc[p] = "request" /\ Put(p) /\ UNCHANGED value)
<1>1. CASE Encrypt(p)
  <2>1. PICK e \in CryptEnds(p) : Leave(p, e.left) /\ Goto(p, IF e.ok THEN "request" ELSE "dead")
    BY <1>1 DEF Encrypt
  <2>2. QED
    BY <1>1, <2>1, LeaveEffect DEF Encrypt, Goto, TypeOK
<1>2. CASE StoreSucceeds(p)
  BY <1>2, NextDocumentEffect DEF StoreSucceeds
<1>3. CASE Decrypt(p)
  <2>1. UNCHANGED docs /\ pc[p] = "crypt" /\ \A q \in Programs : q # p => value'[q] = value[q]
    BY <1>3 DEF Decrypt, TypeOK
  <2>2. CASE value[p] # p.alg
    BY <1>3, <2>1, <2>2 DEF Decrypt, Goto, TypeOK
  <2>3. CASE value[p] = p.alg
    <3>1. PICK e \in CryptEnds(p) : /\ Leave(p, e.left)
                                   /\ IF e.ok THEN NextDocument(p) ELSE Goto(p, "dead") /\ UNCHANGED key
      BY <1>3, <2>3 DEF Decrypt
    <3>2. CASE NextDocument(p)
      BY <2>1, <3>1, <3>2, LeaveEffect, NextDocumentEffect
    <3>3. CASE Goto(p, "dead") /\ UNCHANGED key
      BY <2>1, <3>1, <3>3, LeaveEffect DEF Goto, TypeOK
    <3>4. QED
      BY <3>1, <3>2, <3>3
  <2>4. QED
    BY <2>2, <2>3
<1>4. CASE Start(p) \/ StoreFails(p) \/ Get(p) \/ GetFails(p)
  BY <1>4 DEF Start, StoreFails, Get, GetFails, Goto, TypeOK
<1>5. QED
  BY <1>1, <1>2, <1>3, <1>4, Step(p) DEF Step

\* What a program has left, as LeavesOnlyKeysAndDigests says of each.
LeavesBy(p) ==
  LET n == left[p]
      most == Crypted(p) + (IF pc[p] = "dead" THEN 1 ELSE 0)
  IN  /\ n["cipher"] = 0 /\ n["out"] = 0
      /\ n["key"] <= n["ctx"]
      /\ IF Symmetric(p) THEN n["key"] \in Crypted(p) .. most /\ n["ctx"] <= most /\ n["rsa"] = 0
                         ELSE n["rsa"] \in Crypted(p) .. most /\ n["key"] + n["ctx"] = 0

\* What encrypting or decrypting one document adds to the counters.
LEMMA CryptCounts ==
  ASSUME TypeOK, NEW p \in Programs, NEW e \in CryptEnds(p), Leave(p, e.left)
  PROVE  /\ left'[p]["cipher"] = left[p]["cipher"] /\ left'[p]["out"] = left[p]["out"]
         /\ Symmetric(p) =>
              /\ left'[p]["rsa"] = left[p]["rsa"]
              /\ left'[p]["ctx"] \in {left[p]["ctx"], left[p]["ctx"] + 1}
              /\ left'[p]["key"] \in {left[p]["key"], left[p]["key"] + 1}
              /\ left'[p]["key"] - left[p]["key"] <= left'[p]["ctx"] - left[p]["ctx"]
              /\ e.ok => left'[p]["key"] = left[p]["key"] + 1
         /\ ~ Symmetric(p) =>
              /\ left'[p]["key"] = left[p]["key"] /\ left'[p]["ctx"] = left[p]["ctx"]
              /\ left'[p]["rsa"] \in {left[p]["rsa"], left[p]["rsa"] + 1}
              /\ e.ok => left'[p]["rsa"] = left[p]["rsa"] + 1
<1>1. /\ {"cipher", "out", "key", "ctx", "rsa"} = Resources
      /\ \A r \in Resources : left[p][r] \in Nat
  BY DEF Resources, TypeOK
<1>2. \A r \in Resources : left'[p][r] = IF r \in e.left THEN left[p][r] + 1 ELSE left[p][r]
  BY LeaveEffect
<1>3. CASE Symmetric(p)
  <2>1. e.left \in {{}, {"ctx"}, {"key", "ctx"}} /\ (e.ok => e.left = {"key", "ctx"})
    BY <1>3, CryptLeaves
  <2>2. /\ "cipher" \notin e.left /\ "out" \notin e.left /\ "rsa" \notin e.left
        /\ "key" \in e.left => "ctx" \in e.left
        /\ e.ok => "key" \in e.left
    BY <2>1
  <2>3. QED
    BY <1>1, <1>2, <1>3, <2>2
<1>4. CASE ~ Symmetric(p)
  <2>1. e.left \in {{}, {"rsa"}} /\ (e.ok => e.left = {"rsa"})
    BY <1>4, CryptLeaves
  <2>2. /\ "cipher" \notin e.left /\ "out" \notin e.left /\ "key" \notin e.left /\ "ctx" \notin e.left
        /\ e.ok => "rsa" \in e.left
    BY <2>1
  <2>3. QED
    BY <1>1, <1>2, <1>4, <2>2
<1>5. QED
  BY <1>3, <1>4

\* A key or a digest is left once per document, and nothing else.
LEMMA LeavesStep ==
  TypeOK /\ TypeOK' /\ LeavesOnlyKeysAndDigests /\ [Next]_vars => LeavesOnlyKeysAndDigests'
<1> SUFFICES ASSUME TypeOK, TypeOK', LeavesOnlyKeysAndDigests, [Next]_vars, NEW q \in Programs
             PROVE  LeavesBy(q)'
  BY DEF LeavesOnlyKeysAndDigests, LeavesBy, Crypted
<1>1. LeavesBy(q)
  BY DEF LeavesOnlyKeysAndDigests, LeavesBy
<1>t. /\ \A r \in Resources : left[q][r] \in Nat /\ left'[q][r] \in Nat
      /\ {"cipher", "out", "key", "ctx", "rsa"} = Resources
      /\ key[q] \in Nat /\ key'[q] \in Nat /\ key[q] >= 1 /\ q.does \in {"encrypt", "decrypt"}
  BY LengthFacts, ProgramFacts DEF TypeOK, Resources
<1>2. CASE key'[q] = key[q] /\ pc'[q] = pc[q] /\ left'[q] = left[q]
  BY <1>1, <1>2 DEF LeavesBy, Crypted
<1>3. CASE Step(q)
  <2>a. First(q) = IF q.does = "encrypt" THEN "crypt" ELSE "request"
    BY DEF First
  <2>1. CASE Start(q)
    <3>1. pc[q] = "start" /\ pc'[q] \in {First(q), "dead"} /\ key'[q] = key[q] /\ left'[q] = left[q]
      BY <2>1 DEF Start, Goto, TypeOK
    <3>2. QED
      BY <1>1, <1>t, <2>a, <3>1 DEF LeavesBy, Crypted
  <2>2. CASE Encrypt(q)
    <3>1. PICK e \in CryptEnds(q) : Leave(q, e.left) /\ Goto(q, IF e.ok THEN "request" ELSE "dead")
      BY <2>2 DEF Encrypt
    <3>2. /\ pc[q] = "crypt" /\ q.does = "encrypt" /\ key'[q] = key[q]
          /\ pc'[q] = IF e.ok THEN "request" ELSE "dead"
      BY <2>2, <3>1 DEF Encrypt, Goto, TypeOK
    <3>3. CASE Symmetric(q)
      BY <1>1, <1>t, <3>1, <3>2, <3>3, CryptCounts DEF LeavesBy, Crypted
    <3>4. CASE ~ Symmetric(q)
      BY <1>1, <1>t, <3>1, <3>2, <3>4, CryptCounts DEF LeavesBy, Crypted
    <3>5. QED
      BY <3>3, <3>4
  <2>3. CASE StoreSucceeds(q)
    <3>1. /\ pc[q] = "request" /\ q.does = "encrypt" /\ key'[q] = key[q] + 1
          /\ pc'[q] \in {"crypt", "done"} /\ left'[q] = left[q]
      BY <2>3, <2>a, NextDocumentEffect DEF StoreSucceeds
    <3>2. QED
      BY <1>1, <1>t, <3>1 DEF LeavesBy, Crypted
  <2>4. CASE StoreFails(q)
    <3>1. /\ pc[q] = "request" /\ q.does = "encrypt" /\ key'[q] = key[q]
          /\ pc'[q] = "dead" /\ left'[q] = left[q]
      BY <2>4 DEF StoreFails, Goto, TypeOK
    <3>2. QED
      BY <1>1, <1>t, <3>1 DEF LeavesBy, Crypted
  <2>5. CASE Get(q) \/ GetFails(q)
    <3>1. /\ pc[q] = "request" /\ q.does = "decrypt" /\ key'[q] = key[q]
          /\ pc'[q] \in {"crypt", "dead"} /\ left'[q] = left[q]
      BY <2>5 DEF Get, GetFails, Goto, TypeOK
    <3>2. QED
      BY <1>1, <1>t, <3>1 DEF LeavesBy, Crypted
  <2>6. CASE Decrypt(q)
    <3>1. pc[q] = "crypt" /\ q.does = "decrypt"
      BY <2>6 DEF Decrypt
    <3>2. CASE value[q] # q.alg
      <4>1. key'[q] = key[q] /\ pc'[q] = "dead" /\ left'[q] = left[q]
        BY <2>6, <3>2 DEF Decrypt, Goto, TypeOK
      <4>2. QED
        BY <1>1, <1>t, <3>1, <4>1 DEF LeavesBy, Crypted
    <3>3. CASE value[q] = q.alg
      <4>1. PICK e \in CryptEnds(q) : /\ Leave(q, e.left)
                                     /\ IF e.ok THEN NextDocument(q) ELSE Goto(q, "dead") /\ UNCHANGED key
        BY <2>6, <3>3 DEF Decrypt
      <4>3. CASE e.ok
        <5>1. key'[q] = key[q] + 1 /\ pc'[q] \in {"request", "done"}
          BY <2>a, <3>1, <4>1, <4>3, NextDocumentEffect
        <5>2. CASE Symmetric(q)
          <6>1. /\ left[q]["cipher"] = 0 /\ left[q]["out"] = 0 /\ left[q]["rsa"] = 0
                /\ left[q]["key"] <= left[q]["ctx"] /\ left[q]["key"] >= key[q] - 1
                /\ left[q]["ctx"] <= key[q] - 1
            BY <1>1, <1>t, <3>1, <5>2 DEF LeavesBy, Crypted
          <6>2. /\ left'[q]["cipher"] = 0 /\ left'[q]["out"] = 0 /\ left'[q]["rsa"] = 0
                /\ left'[q]["key"] <= left'[q]["ctx"] /\ left'[q]["key"] >= key'[q] - 1
                /\ left'[q]["ctx"] <= key[q]
            BY <1>t, <6>1, <4>1, <4>3, <5>1, <5>2, CryptCounts
          <6>3. QED
            BY <1>t, <3>1, <5>1, <5>2, <6>2 DEF LeavesBy, Crypted
        <5>3. CASE ~ Symmetric(q)
          BY <1>1, <1>t, <3>1, <4>1, <4>3, <5>1, <5>3, CryptCounts DEF LeavesBy, Crypted
        <5>4. QED
          BY <5>2, <5>3
      <4>4. CASE ~ e.ok
        <5>1. key'[q] = key[q] /\ pc'[q] = "dead"
          BY <4>1, <4>4 DEF Goto, TypeOK
        <5>2. CASE Symmetric(q)
          <6>1. /\ left[q]["cipher"] = 0 /\ left[q]["out"] = 0 /\ left[q]["rsa"] = 0
                /\ left[q]["key"] <= left[q]["ctx"] /\ left[q]["key"] >= key[q] - 1
                /\ left[q]["ctx"] <= key[q] - 1
            BY <1>1, <1>t, <3>1, <5>2 DEF LeavesBy, Crypted
          <6>2. /\ left'[q]["cipher"] = 0 /\ left'[q]["out"] = 0 /\ left'[q]["rsa"] = 0
                /\ left'[q]["key"] <= left'[q]["ctx"] /\ left'[q]["key"] >= key'[q] - 1
                /\ left'[q]["ctx"] <= key[q]
            BY <1>t, <6>1, <4>1, <5>1, <5>2, CryptCounts
          <6>3. QED
            BY <1>t, <3>1, <5>1, <5>2, <6>2 DEF LeavesBy, Crypted
        <5>3. CASE ~ Symmetric(q)
          BY <1>1, <1>t, <3>1, <4>1, <5>1, <5>3, CryptCounts DEF LeavesBy, Crypted
        <5>4. QED
          BY <5>2, <5>3
      <4>5. QED
        BY <4>3, <4>4
    <3>4. QED
      BY <3>2, <3>3
  <2>7. QED
    BY <1>3, <2>1, <2>2, <2>3, <2>4, <2>5, <2>6 DEF Step
<1>4. ASSUME NEW p \in Programs, p # q, Step(p) PROVE LeavesBy(q)'
  BY <1>2, <1>4, StepFrame
<1>5. CASE UNCHANGED vars
  BY <1>2, <1>5 DEF vars
<1>6. QED
  BY <1>3, <1>4, <1>5 DEF Next, Step
-----------------------------------------------------------------------------
\* How far a program gets in a step.
LEMMA KeyStep ==
  ASSUME TypeOK, NEW p \in Programs, Step(p)
  PROVE  /\ pc[p] # "dead" /\ pc[p] # "done" /\ key[p] \in Keys
         /\ key'[p] \in {key[p], key[p] + 1}
         /\ key'[p] = key[p] + 1 =>
              IF p.does = "encrypt" THEN pc[p] = "request" ELSE pc[p] = "crypt" /\ value[p] = p.alg
<1>1. pc[p] # "dead" /\ pc[p] # "done"
  BY DEF Step, Start, Encrypt, StoreSucceeds, StoreFails, Get, GetFails, Decrypt
<1>2. key[p] \in Keys
  BY <1>1, LengthFacts DEF TypeOK
<1>3. UNCHANGED key \/ NextDocument(p)
  BY DEF Step, Start, Encrypt, StoreSucceeds, StoreFails, Get, GetFails, Decrypt
<1>4. CASE UNCHANGED key
  BY <1>1, <1>2, <1>4, LengthFacts
<1>5. CASE NextDocument(p)
  <2>1. key' # key /\ key'[p] = key[p] + 1
    BY <1>1, <1>2, <1>5, NextDocumentEffect, LengthFacts
  <2>2. StoreSucceeds(p) \/ (Decrypt(p) /\ value[p] = p.alg)
    BY <2>1 DEF Step, Start, Encrypt, StoreFails, Get, GetFails, Decrypt
  <2>3. QED
    BY <1>1, <1>2, <2>1, <2>2 DEF StoreSucceeds, Decrypt
<1>6. QED
  BY <1>3, <1>4, <1>5

\* A document once sent stays sent.
LEMMA SentStays ==
  ASSUME TypeOK, [Next]_vars, NEW q \in Encryptors, NEW k \in Keys, Sent(q, k)
  PROVE  Sent(q, k)'
<1>1. q \in Programs /\ key[q] \in Nat /\ k \in Nat
  BY LengthFacts DEF Encryptors, TypeOK
<1>2. CASE key'[q] = key[q] /\ pc'[q] = pc[q]
  BY <1>2 DEF Sent
<1>3. CASE Step(q)
  BY <1>1, <1>3, KeyStep DEF Sent
<1>4. ASSUME NEW p \in Programs, p # q, Step(p) PROVE Sent(q, k)'
  BY <1>1, <1>2, <1>4, StepFrame
<1>5. QED
  BY <1>2, <1>3, <1>4 DEF Next, Step, vars

\* The document that a program stores is then one it has sent.
LEMMA StoredStep == TypeOK /\ SentBeforeStored /\ [Next]_vars => SentBeforeStored'
<1> SUFFICES ASSUME TypeOK, SentBeforeStored, [Next]_vars,
                    NEW q \in Encryptors, NEW k \in Keys, docs'[k] = q.alg
             PROVE  Sent(q, k)'
  BY DEF SentBeforeStored
<1>1. CASE docs[k] = q.alg
  BY <1>1, SentStays DEF SentBeforeStored
<1>2. CASE docs[k] # q.alg
  <2>1. PICK p \in Programs : Step(p) /\ p.does = "encrypt" /\ pc[p] = "request" /\ Put(p)
    BY <1>2, StepFrame DEF Next, Step, vars
  <2>2. k = key[p] /\ p.alg = q.alg
    BY <1>2, <2>1 DEF Put, TypeOK
  <2>3. p = q
    BY <2>1, <2>2, ProgramFacts DEF Encryptors
  <2>4. StoreSucceeds(q) \/ StoreFails(q)
    BY <1>2, <2>1, <2>3, StepFrame DEF Step, Start, Encrypt, Get, GetFails, Decrypt
  <2>5. key[q] \in Nat /\ q \in Programs /\ pc[q] # "done"
    BY <2>1, <2>3, LengthFacts DEF TypeOK
  <2>6. CASE StoreSucceeds(q)
    <3>1. key'[q] = key[q] + 1
      BY <2>5, <2>6, NextDocumentEffect DEF StoreSucceeds
    <3>2. QED
      BY <2>2, <2>3, <2>5, <3>1 DEF Sent
  <2>7. CASE StoreFails(q)
    BY <2>2, <2>3, <2>5, <2>7 DEF StoreFails, Goto, TypeOK, Sent
  <2>8. QED
    BY <2>4, <2>6, <2>7
<1>3. QED
  BY <1>1, <1>2

\* What a program decrypts was sent by the one that encrypts for it.
LEMMA ReadStep ==
  TypeOK /\ SentBeforeStored /\ SentBeforeRead /\ [Next]_vars => SentBeforeRead'
<1> SUFFICES ASSUME TypeOK, SentBeforeStored, SentBeforeRead, [Next]_vars,
                    NEW p \in Programs, NEW q \in Encryptors,
                    p.does = "decrypt", p.alg = q.alg, pc'[p] = "crypt", value'[p] = p.alg
             PROVE  Sent(q, key[p])'
  BY DEF SentBeforeRead
<1>1. CASE Get(p)
  <2>1. key'[p] = key[p] /\ key[p] \in Keys /\ docs[key[p]] = q.alg
    BY <1>1, LengthFacts DEF Get, TypeOK
  <2>2. Sent(q, key[p])
    BY <2>1 DEF SentBeforeStored
  <2>3. QED
    BY <2>1, <2>2, SentStays DEF Sent
<1>2. CASE pc[p] = "crypt" /\ value[p] = p.alg /\ key'[p] = key[p]
  <2>1. Sent(q, key[p]) /\ key[p] \in Keys
    BY <1>2, LengthFacts DEF SentBeforeRead, TypeOK
  <2>2. QED
    BY <1>2, <2>1, SentStays DEF Sent
<1>3. ASSUME Step(p), ~ Get(p) PROVE FALSE
  <2>1. CASE Start(p) \/ GetFails(p)
    BY <2>1 DEF Start, GetFails, Goto, First, TypeOK
  <2>2. CASE Decrypt(p)
    <3>1. value'[p] = NoDoc
      BY <2>2 DEF Decrypt, TypeOK
    <3>2. QED
      BY <3>1, ProgramFacts
  <2>3. QED
    BY <1>3, <2>1, <2>2 DEF Step, Encrypt, StoreSucceeds, StoreFails
<1>4. ASSUME NEW r \in Programs, r # p, Step(r) PROVE Sent(q, key[p])'
  BY <1>2, <1>4, StepFrame
<1>5. QED
  BY <1>1, <1>2, <1>3, <1>4 DEF Next, Step, vars

\* A reader does not overtake its writer.
LEMMA BehindStep ==
  TypeOK /\ SentBeforeRead /\ ReadsBehindItsWriter /\ [Next]_vars => ReadsBehindItsWriter'
<1> SUFFICES ASSUME TypeOK, SentBeforeRead, ReadsBehindItsWriter, [Next]_vars,
                    NEW p \in Programs, NEW q \in Programs,
                    p.does = "decrypt", q.does = "encrypt", p.alg = q.alg
             PROVE  key'[p] <= key'[q] + (IF pc'[q] = "dead" THEN 1 ELSE 0)
  BY DEF ReadsBehindItsWriter
<1>1. key[p] <= key[q] + (IF pc[q] = "dead" THEN 1 ELSE 0)
  BY DEF ReadsBehindItsWriter
<1>2. key[p] \in Nat /\ key[q] \in Nat /\ p # q
  BY LengthFacts DEF TypeOK
<1>3. CASE Step(p)
  <2>1. key'[q] = key[q] /\ pc'[q] = pc[q]
    BY <1>2, <1>3, StepFrame
  <2>2. CASE key'[p] = key[p]
    BY <1>1, <2>1, <2>2
  <2>3. CASE key'[p] = key[p] + 1
    <3>1. pc[p] = "crypt" /\ value[p] = p.alg
      BY <1>2, <1>3, <2>3, KeyStep
    <3>2. Sent(q, key[p])
      BY <3>1 DEF SentBeforeRead, Encryptors
    <3>3. QED
      BY <1>2, <2>1, <2>3, <3>2 DEF Sent
  <2>4. QED
    BY <1>3, <2>2, <2>3, KeyStep
<1>4. CASE Step(q)
  BY <1>1, <1>2, <1>4, StepFrame, KeyStep
<1>5. ASSUME NEW r \in Programs, r # p, r # q, Step(r)
      PROVE  key'[p] = key[p] /\ key'[q] = key[q] /\ pc'[q] = pc[q]
  BY <1>5, StepFrame
<1>6. CASE UNCHANGED vars
  BY <1>1, <1>6 DEF vars
<1>7. QED
  BY <1>1, <1>3, <1>4, <1>5, <1>6 DEF Next, Step
-----------------------------------------------------------------------------
\* The invariant holds at the start.
LEMMA InitIInv == Init => IInv
<1> SUFFICES ASSUME Init PROVE IInv
  OBVIOUS
<1>1. TypeOK
  BY TypeInit
<1>2. SentBeforeStored
  BY ProgramFacts DEF Init, SentBeforeStored, Encryptors
<1>3. SentBeforeRead /\ ReadsBehindItsWriter
  BY DEF Init, SentBeforeRead, ReadsBehindItsWriter
<1>4. LeavesOnlyKeysAndDigests
  BY DEF Init, LeavesOnlyKeysAndDigests, Crypted, Resources
<1>5. QED
  BY <1>1, <1>2, <1>3, <1>4 DEF IInv

\* No step breaks the invariant.
LEMMA NextIInv == IInv /\ [Next]_vars => IInv'
BY TypeStep, StoredStep, ReadStep, BehindStep, LeavesStep DEF IInv

\* The strengthening of the properties below holds whichever OpenSSL call fails (c/encryption).
THEOREM Invariance == Spec => []IInv
  BY InitIInv, NextIInv, PTL DEF Spec

\* Every variable keeps its type, and no program goes past the last document.
THEOREM TypeCorrect == Spec => []TypeOK
<1>1. IInv => TypeOK
  BY DEF IInv
<1>2. QED
  BY <1>1, Invariance, PTL

\* Whatever OpenSSL call fails, the provider loses no cipher context and no
\* buffer, and per document at most one key and one digest context
\* (openssl_symmetric_provider.c, openssl_asymmetric_provider.c).
THEOREM LeavesKeysAndDigests == Spec => []LeavesOnlyKeysAndDigests
<1>1. IInv => LeavesOnlyKeysAndDigests
  BY DEF IInv
<1>2. QED
  BY <1>1, Invariance, PTL

\* A program that decrypts does not overtake the one that encrypts for it, in
\* whatever order the four programs run.
THEOREM BehindItsWriter == Spec => []ReadsBehindItsWriter
<1>1. IInv => ReadsBehindItsWriter
  BY DEF IInv
<1>2. QED
  BY <1>1, Invariance, PTL
-----------------------------------------------------------------------------
\* osp_encrypt asks for one byte too little exactly for a text in whole blocks
\* (openssl_symmetric_provider.c, osp_encrypt).
THEOREM MemoryForPaddedText ==
  ASSUME NEW len \in Nat
  PROVE  IF len % BlockLen = 0 THEN osp_encrypt_Writes(len) = osp_encrypt_Memory(len) + 1
                              ELSE osp_encrypt_Writes(len) <= osp_encrypt_Memory(len)
<1>1. /\ len = 16 * (len \div 16) + (len % 16) /\ len \div 16 \in Nat /\ len % 16 \in 0 .. 15
  OBVIOUS
<1>2. QED
  BY <1>1 DEF BlockLen, osp_encrypt_Writes, osp_encrypt_Memory

\* With fields none of which fills whole blocks, as the five of the programs,
\* no padded text is written past the memory asked for.
THEOREM PaddedTextsFit ==
  ASSUME \A k \in Keys : Lengths[k] % BlockLen # 0
  PROVE  Spec => []PaddedTextFits
<1>1. ASSUME TypeOK PROVE PaddedTextFits
  <2> SUFFICES ASSUME NEW p \in Programs, NEW k \in 1 .. Crypted(p)
               PROVE  osp_encrypt_Writes(Lengths[k]) <= osp_encrypt_Memory(Lengths[k])
    BY DEF PaddedTextFits
  <2>1. Crypted(p) <= Len(Lengths) /\ Crypted(p) \in Int
    <3>1. /\ key[p] \in 1 .. Len(Lengths) + 1 /\ Len(Lengths) \in Nat
          /\ key[p] = Len(Lengths) + 1 => pc[p] = "done"
      BY <1>1, LengthFacts DEF TypeOK
    <3>2. QED
      BY <3>1 DEF Crypted
  <2>2. k \in Keys
    BY <2>1, LengthFacts
  <2>3. Lengths[k] \in Nat
    BY <2>2, LengthsAssumption DEF Keys
  <2>4. QED
    BY <2>2, <2>3, MemoryForPaddedText
<1>2. QED
  BY <1>1, TypeCorrect, PTL
=============================================================================
