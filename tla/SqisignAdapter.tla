--------------------------- MODULE SqisignAdapter ---------------------------
(***************************************************************************)
(* sqisignc/sqisignc.go: goroutines that sign, verify, generate, persist   *)
(* and restore keys through the NIST API, which knows signed messages      *)
(* only.  Each call builds or receives signature || message in blocks of   *)
(* the C heap, which it shares with every other call of the process, and   *)
(* takes no lock.  A block fresh from malloc holds indeterminate bytes,    *)
(* written None here.                                                      *)
(***************************************************************************)
EXTENDS Naturals, Sequences

CONSTANTS
  Goroutines,    (* goroutines that use the adapter                        *)
  Keys,          (* the key pairs crypto_sign_keypair can generate         *)
  Messages,      (* byte strings to sign and verify                        *)
  Blocks,        (* the blocks the C heap has room for                     *)
  None           (* no request, answer, block, determinate byte; Short     *)

ASSUME MessagesAssumption == \A x \in Messages : x \in Seq(Nat)
ASSUME NoneAssumption == None \notin Keys \cup Messages \cup Blocks

VARIABLES
  pc,            (* where each goroutine is in its call                    *)
  request,       (* the call's function and arguments                      *)
  answer,        (* what the call returns, once decided                    *)
  sm,            (* smPtr: the block for the signed message                *)
  m,             (* mPtr of VerifySignature: the block for the message     *)
  heap,          (* the C heap; a block of size 0 is not allocated         *)
  generated      (* key pairs the library has generated                    *)

vars == <<pc, request, answer, sm, m, heap, generated>>

SignatureSize == 148

Steps == {"idle", "check", "malloc sm", "crypto_sign", "GoBytes", "copy signature",
          "copy message", "malloc m", "crypto_sign_open", "keypair", "free"}

Secret(k) == <<"secret", k>>
Public(k) == <<"public", k>>

\* A Signer, and the blob it is stored as: secret half, then public half.
Signer(sk, pub) == [sk |-> sk, pub |-> pub]
Blob(k) == <<Secret(k), Public(k)>>

\* A half, a signature or a blob of another length than the fixed one.
Short == None

\* Signature bytes: made with a key for a message, or anything else.
Signature(k, x) == [by |-> k, of |-> x]
Forged == Signature(None, None)
Signatures == [by : Keys, of : Messages] \cup {Forged}

Indeterminate(n) == [size |-> n, signature |-> None, message |-> None]
Unallocated == Indeterminate(0)

\* What callers hand over: Signers and blobs of keys there are, public keys of
\* anyone, and wrongly sized versions of each.
Signers(keys) ==
  {Signer(Secret(k), Public(k)) : k \in keys}
    \cup {Signer(Secret(k), Short) : k \in keys} \cup {Signer(Short, Short)}

Requests(keys) ==
  [op : {"Generate"}]
    \cup [op : {"Sign"}, signer : Signers(keys), message : Messages]
    \cup [op : {"MarshalBinary"}, signer : Signers(keys)]
    \cup [op : {"VerifySignature"}, pub : {Public(k) : k \in Keys} \cup {Short},
          message : Messages, signature : Signatures \cup {Short}]
    \cup [op : {"UnmarshalBinary"}, blob : {Blob(k) : k \in keys} \cup {Short}]

Error == [error |-> "error"]

Answers ==
  {Error} \cup [signature : Signatures] \cup [valid : BOOLEAN]
    \cup [signer : {Signer(Secret(k), Public(k)) : k \in Keys}]
    \cup [blob : {Blob(k) : k \in Keys}]

TypeOK ==
  /\ pc \in [Goroutines -> Steps]
  /\ request \in [Goroutines -> Requests(Keys) \cup {None}]
  /\ answer \in [Goroutines -> Answers \cup {None}]
  /\ \A g \in Goroutines : /\ (request[g] = None) <=> (pc[g] = "idle")
                           /\ (answer[g] # None) <=> (pc[g] = "free")
  /\ sm \in [Goroutines -> Blocks \cup {None}]
  /\ m \in [Goroutines -> Blocks \cup {None}]
  /\ heap \in [Blocks -> [size : {0} \cup {SignatureSize + Len(x) : x \in Messages},
                          signature : Signatures \cup {None},
                          message : Messages \cup {None}]]
  /\ generated \subseteq Keys

Init ==
  /\ pc = [g \in Goroutines |-> "idle"]
  /\ request = [g \in Goroutines |-> None]
  /\ answer = [g \in Goroutines |-> None]
  /\ sm = [g \in Goroutines |-> None]
  /\ m = [g \in Goroutines |-> None]
  /\ heap = [b \in Blocks |-> Unallocated]
  /\ generated = {}

-----------------------------------------------------------------------------

Goto(g, from, to) == pc[g] = from /\ pc' = [pc EXCEPT ![g] = to]

\* The return value is decided; what is left are the deferred frees.
Answer(g, from, a) ==
  /\ Goto(g, from, "free")
  /\ answer' = [answer EXCEPT ![g] = a]

Begin(g, r) ==
  /\ Goto(g, "idle", "check")
  /\ request' = [request EXCEPT ![g] = r]
  /\ UNCHANGED <<answer, sm, m, heap, generated>>

\* The lengths a function checks before it does anything.
WellFormed(r) ==
  CASE r.op = "Sign" -> r.signer.sk # Short
    [] r.op = "MarshalBinary" -> r.signer.sk # Short /\ r.signer.pub # Short
    [] r.op = "VerifySignature" -> r.pub # Short /\ r.signature # Short
    [] r.op = "UnmarshalBinary" -> r.blob # Short
    [] r.op = "Generate" -> TRUE

Reject(g) ==
  /\ pc[g] = "check" /\ ~ WellFormed(request[g])
  /\ Answer(g, "check", Error)
  /\ UNCHANGED <<request, sm, m, heap, generated>>

Accept(g) ==
  /\ pc[g] = "check" /\ WellFormed(request[g])
  /\ request[g].op \in {"Sign", "VerifySignature", "Generate"}
  /\ Goto(g, "check", IF request[g].op = "Generate" THEN "keypair" ELSE "malloc sm")
  /\ UNCHANGED <<request, answer, sm, m, heap, generated>>

\* Both buffers of either function are of this size.
SmLen(g) == SignatureSize + Len(request[g].message)

\* Mutant: room for the message only.
MallocSmForMessage(g, b) ==
  /\ heap[b] = Unallocated
  /\ Goto(g, "malloc sm", IF request[g].op = "Sign" THEN "crypto_sign" ELSE "copy signature")
  /\ heap' = [heap EXCEPT ![b] = Indeterminate(Len(request[g].message))]
  /\ sm' = [sm EXCEPT ![g] = b]
  /\ UNCHANGED <<request, answer, m, generated>>

\* smPtr := C.malloc(SignatureSize + len(message)); its free is deferred.
MallocSm(g, b) ==
  /\ heap[b] = Unallocated
  /\ Goto(g, "malloc sm", IF request[g].op = "Sign" THEN "crypto_sign" ELSE "copy signature")
  /\ heap' = [heap EXCEPT ![b] = Indeterminate(SmLen(g))]
  /\ sm' = [sm EXCEPT ![g] = b]
  /\ UNCHANGED <<request, answer, m, generated>>

MallocSmFails(g) ==
  /\ Answer(g, "malloc sm", Error)
  /\ UNCHANGED <<request, sm, m, heap, generated>>

(* Sign.                                                                   *)

\* Mutant: smPtr is freed as soon as crypto_sign has returned.
CryptoSignFreesEarly(g) ==
  /\ Goto(g, "crypto_sign", "GoBytes")
  /\ heap' = [heap EXCEPT ![sm[g]] = Unallocated]
  /\ UNCHANGED <<request, answer, sm, m, generated>>

\* crypto_sign writes signature || message, for the secret key it is given.
CryptoSign(g) ==
  /\ Goto(g, "crypto_sign", "GoBytes")
  /\ heap' = [heap EXCEPT
       ![sm[g]].signature = Signature(request[g].signer.sk[2], request[g].message),
       ![sm[g]].message = IF Len(request[g].message) > 0 THEN request[g].message ELSE @]
  /\ UNCHANGED <<request, answer, sm, m, generated>>

\* It returns non-zero, or another length than a signed message has.
CryptoSignFails(g) ==
  /\ Answer(g, "crypto_sign", Error)
  /\ UNCHANGED <<request, sm, m, heap, generated>>

\* sig := C.GoBytes(smPtr, SignatureSize)
GoBytes(g) ==
  /\ Answer(g, "GoBytes", [signature |-> heap[sm[g]].signature])
  /\ UNCHANGED <<request, sm, m, heap, generated>>

(* VerifySignature.                                                        *)

CopySignature(g) ==
  /\ Goto(g, "copy signature", IF Len(request[g].message) > 0 THEN "copy message" ELSE "malloc m")
  /\ heap' = [heap EXCEPT ![sm[g]].signature = request[g].signature]
  /\ UNCHANGED <<request, answer, sm, m, generated>>

CopyMessage(g) ==
  /\ Goto(g, "copy message", "malloc m")
  /\ heap' = [heap EXCEPT ![sm[g]].message = request[g].message]
  /\ UNCHANGED <<request, answer, sm, m, generated>>

MallocM(g, b) ==
  /\ heap[b] = Unallocated
  /\ Goto(g, "malloc m", "crypto_sign_open")
  /\ heap' = [heap EXCEPT ![b] = Indeterminate(SmLen(g))]
  /\ m' = [m EXCEPT ![g] = b]
  /\ UNCHANGED <<request, answer, sm, generated>>

\* Mutant: the error return forgets the first buffer.
MallocMFailsAndLeaks(g) ==
  /\ Answer(g, "malloc m", Error)
  /\ sm' = [sm EXCEPT ![g] = None]
  /\ UNCHANGED <<request, m, heap, generated>>

MallocMFails(g) ==
  /\ Answer(g, "malloc m", Error)
  /\ UNCHANGED <<request, sm, m, heap, generated>>

\* The message crypto_sign_open finds in a signed message of length n.
MessageIn(block, n) == IF n > SignatureSize THEN block.message ELSE <<>>

\* crypto_sign_open reads smPtr and writes what it recovers to mPtr.
CryptoOpen(g) ==
  LET recovered == MessageIn(heap[sm[g]], SmLen(g))
      valid == heap[sm[g]].signature = Signature(request[g].pub[2], recovered)
  IN  /\ Answer(g, "crypto_sign_open", [valid |-> valid])
      /\ heap' = [heap EXCEPT ![m[g]].message = IF valid THEN recovered ELSE @]
      /\ UNCHANGED <<request, sm, m, generated>>

(* Generate, MarshalBinary and UnmarshalBinary: Go memory only.            *)

KeyPair(g, k) ==
  /\ k \notin generated
  /\ Answer(g, "keypair", [signer |-> Signer(Secret(k), Public(k))])
  /\ generated' = generated \cup {k}
  /\ UNCHANGED <<request, sm, m, heap>>

KeyPairFails(g) ==
  /\ Answer(g, "keypair", Error)
  /\ UNCHANGED <<request, sm, m, heap, generated>>

MarshalBinary(g) ==
  /\ request[g] # None /\ request[g].op = "MarshalBinary" /\ WellFormed(request[g])
  /\ Answer(g, "check", [blob |-> <<request[g].signer.sk, request[g].signer.pub>>])
  /\ UNCHANGED <<request, sm, m, heap, generated>>

UnmarshalBinary(g) ==
  /\ request[g] # None /\ request[g].op = "UnmarshalBinary" /\ WellFormed(request[g])
  /\ Answer(g, "check", [signer |-> Signer(request[g].blob[1], request[g].blob[2])])
  /\ UNCHANGED <<request, sm, m, heap, generated>>

(* The deferred frees, last deferred first, and the return.                *)

FreeM(g) ==
  /\ pc[g] = "free" /\ m[g] # None
  /\ heap' = [heap EXCEPT ![m[g]] = Unallocated]
  /\ m' = [m EXCEPT ![g] = None]
  /\ UNCHANGED <<pc, request, answer, sm, generated>>

FreeSm(g) ==
  /\ pc[g] = "free" /\ m[g] = None /\ sm[g] # None
  /\ heap' = [heap EXCEPT ![sm[g]] = Unallocated]
  /\ sm' = [sm EXCEPT ![g] = None]
  /\ UNCHANGED <<pc, request, answer, m, generated>>

Return(g) ==
  /\ m[g] = None /\ sm[g] = None
  /\ Goto(g, "free", "idle")
  /\ request' = [request EXCEPT ![g] = None]
  /\ answer' = [answer EXCEPT ![g] = None]
  /\ UNCHANGED <<sm, m, heap, generated>>

Next ==
  \E g \in Goroutines :
    \/ \E r \in Requests(generated) : Begin(g, r)
    \/ Reject(g) \/ Accept(g)
    \/ \E b \in Blocks : MallocSm(g, b) \/ MallocM(g, b)
    \/ MallocSmFails(g) \/ CryptoSign(g) \/ CryptoSignFails(g) \/ GoBytes(g)
    \/ CopySignature(g) \/ CopyMessage(g) \/ MallocMFails(g) \/ CryptoOpen(g)
    \/ \E k \in Keys : KeyPair(g, k)
    \/ KeyPairFails(g) \/ MarshalBinary(g) \/ UnmarshalBinary(g)
    \/ FreeM(g) \/ FreeSm(g) \/ Return(g)

Spec == Init /\ [][Next]_vars

-----------------------------------------------------------------------------
(* Properties.                                                             *)

\* Whichever step fails, and however calls interleave: a block of the C heap
\* is allocated exactly while one buffer variable of one call stands for it
\* (nothing leaks, nothing is freed early or twice, no two calls share one),
\* and it has room for the signed message its call puts there.
BlocksHeldByOneCall ==
  /\ {b \in Blocks : heap[b].size > 0} =
       ({sm[g] : g \in Goroutines} \cup {m[g] : g \in Goroutines}) \ {None}
  /\ \A g, h \in Goroutines :
       /\ sm[g] # None => sm[g] # m[h] /\ (g # h => sm[g] # sm[h])
       /\ m[g] # None /\ g # h => m[g] # m[h]
  /\ \A g \in Goroutines :
       /\ sm[g] # None => heap[sm[g]].size >= SmLen(g)
       /\ m[g] # None => heap[m[g]].size >= Len(request[g].message)

\* The requests and answers callers see, by the key they are about.
KeyOf(half) == IF half = Short THEN None ELSE half[2]
PairKey(sk, pub) == IF \E k \in Keys : sk = Secret(k) /\ pub = Public(k) THEN KeyOf(sk) ELSE None

AbstractRequest(r) ==
  IF r = None \/ r.op = "Generate" THEN r
  ELSE IF r.op = "Sign" THEN [op |-> r.op, key |-> KeyOf(r.signer.sk), message |-> r.message]
  ELSE IF r.op = "VerifySignature"
       THEN [op |-> r.op, key |-> KeyOf(r.pub), message |-> r.message, signature |-> r.signature]
  ELSE IF r.op = "MarshalBinary" THEN [op |-> r.op, key |-> PairKey(r.signer.sk, r.signer.pub)]
  ELSE [op |-> r.op, key |-> IF r.blob = Short THEN None ELSE PairKey(r.blob[1], r.blob[2])]

AbstractAnswer(a) ==
  IF a = None THEN None
  ELSE IF "signer" \in DOMAIN a THEN [key |-> PairKey(a.signer.sk, a.signer.pub)]
  ELSE IF "blob" \in DOMAIN a THEN [key |-> PairKey(a.blob[1], a.blob[2])]
  ELSE a

Detached == INSTANCE DetachedSignatures WITH
  Callers <- Goroutines,
  request <- [g \in Goroutines |-> AbstractRequest(request[g])],
  answer <- [g \in Goroutines |-> AbstractAnswer(answer[g])]

\* None is not mistaken for a half of a key, or for a request or an answer,
\* here or there.
ASSUME NoRecordAssumption ==
  /\ \A k \in Keys : None # Secret(k) /\ None # Public(k)
  /\ None \notin Requests(Keys) \cup Answers \cup Detached!Requests \cup [key : Keys]

\* Through buffers that come and go under other calls, a Signer's signature is
\* one its public key verifies, verification accepts exactly the signatures
\* of the message (the empty one included) under the key, and a key comes
\* back from its blob as it was stored.
ImplementsDetachedSignatures == Detached!Spec
=============================================================================
