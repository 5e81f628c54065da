------------------------ MODULE SqisignAdapterProofs ------------------------
(***************************************************************************)
(* Proofs about SqisignAdapter, for every set of goroutines, keys,         *)
(* messages and heap blocks: its type invariant, that every block of the C *)
(* heap is held by exactly one variable of one call and large enough, and  *)
(* that the adapter implements DetachedSignatures.                         *)
(***************************************************************************)
EXTENDS SqisignAdapter, TLAPS

-----------------------------------------------------------------------------
(* The inductive invariant.                                                *)

\* The requests, by function, with what their arguments are.
SignRequests ==
  [op : {"Sign"}, signer : Signers(Keys), message : Messages]
VerifyRequests ==
  [op : {"VerifySignature"}, pub : {Public(k) : k \in Keys} \cup {Short},
   message : Messages, signature : Signatures \cup {Short}]

\* A call past its checks is well-formed, and at a step of its function.
CallInv ==
  \A g \in Goroutines :
    /\ pc[g] \in Steps \ {"idle", "check", "free"} => WellFormed(request[g])
    /\ pc[g] \in {"crypto_sign", "GoBytes"} => request[g] \in SignRequests
    /\ pc[g] \in {"copy signature", "copy message", "malloc m", "crypto_sign_open"} =>
         request[g] \in VerifyRequests
    /\ pc[g] = "malloc sm" => request[g] \in SignRequests \cup VerifyRequests
    /\ pc[g] = "keypair" => request[g].op = "Generate"

\* Between malloc and the deferred free a call has the buffers it needs.
HoldInv ==
  \A g \in Goroutines :
    /\ pc[g] \in {"crypto_sign", "GoBytes", "copy signature", "copy message",
                  "malloc m", "crypto_sign_open"} => sm[g] # None
    /\ pc[g] \in {"idle", "check", "malloc sm", "keypair"} => sm[g] = None
    /\ m[g] # None => pc[g] \in {"crypto_sign_open", "free"}
    /\ pc[g] = "crypto_sign_open" => m[g] # None

\* A buffer has the size of its call's signed message.
SizeInv ==
  \A g \in Goroutines :
    sm[g] # None \/ m[g] # None =>
      /\ request[g] \in SignRequests \cup VerifyRequests
      /\ sm[g] # None => heap[sm[g]].size = SmLen(g)
      /\ m[g] # None => heap[m[g]].size = SmLen(g)

\* A block is allocated while a variable stands for it, and for one variable.
AllocInv ==
  /\ \A b \in Blocks :
       heap[b].size > 0 => \E g \in Goroutines : sm[g] = b \/ m[g] = b
  /\ \A g, h \in Goroutines :
       /\ sm[g] # None => sm[g] # m[h] /\ (g # h => sm[g] # sm[h])
       /\ m[g] # None /\ g # h => m[g] # m[h]

\* What a call has put in its buffer is still there when C or Go reads it.
ContentInv ==
  \A g \in Goroutines :
    /\ pc[g] = "GoBytes" =>
         heap[sm[g]].signature = Signature(request[g].signer.sk[2], request[g].message)
    /\ pc[g] \in {"copy message", "malloc m", "crypto_sign_open"} =>
         heap[sm[g]].signature = request[g].signature
    /\ pc[g] \in {"malloc m", "crypto_sign_open"} /\ Len(request[g].message) > 0 =>
         heap[sm[g]].message = request[g].message

IInv ==
  TypeOK /\ CallInv /\ HoldInv /\ SizeInv /\ AllocInv /\ ContentInv

-----------------------------------------------------------------------------
(* Requests.                                                               *)

USE MessagesAssumption, NoneAssumption, NoRecordAssumption

\* A request is of one of five functions.
LEMMA RequestShapes ==
  ASSUME NEW r \in Requests(Keys)
  PROVE  /\ r # None
         /\ r.op = "Sign" => r \in SignRequests
         /\ r.op = "VerifySignature" => r \in VerifyRequests
         /\ r.op = "MarshalBinary" => r \in [op : {"MarshalBinary"}, signer : Signers(Keys)]
         /\ r.op = "UnmarshalBinary" =>
              r \in [op : {"UnmarshalBinary"}, blob : {Blob(k) : k \in Keys} \cup {Short}]
         /\ r.op \in {"Generate", "Sign", "VerifySignature", "MarshalBinary", "UnmarshalBinary"}
BY DEF Requests, SignRequests, VerifyRequests

\* A Signer or blob whose length fits is one of a key.
LEMMA WellFormedShapes ==
  ASSUME NEW r \in Requests(Keys), WellFormed(r)
  PROVE  /\ r.op = "Sign" => \E k \in Keys : r.signer.sk = Secret(k)
         /\ r.op = "VerifySignature" => /\ \E k \in Keys : r.pub = Public(k)
                                        /\ r.signature \in Signatures /\ r.signature # None
         /\ r.op = "MarshalBinary" => \E k \in Keys : r.signer = Signer(Secret(k), Public(k))
         /\ r.op = "UnmarshalBinary" => \E k \in Keys : r.blob = Blob(k)
<1>1. \A x \in Signers(Keys) :
        /\ x.sk # Short => \E k \in Keys : x.sk = Secret(k)
        /\ x.sk # Short /\ x.pub # Short => \E k \in Keys : x = Signer(Secret(k), Public(k))
  BY DEF Signers, Signer
<1>2. CASE r.op = "Sign"
  BY <1>1, <1>2, RequestShapes DEF WellFormed, SignRequests
<1>3. CASE r.op = "VerifySignature"
  BY <1>3, RequestShapes DEF WellFormed, VerifyRequests, Short
<1>4. CASE r.op = "MarshalBinary"
  BY <1>1, <1>4, RequestShapes DEF WellFormed
<1>5. CASE r.op = "UnmarshalBinary"
  BY <1>5, RequestShapes DEF WellFormed
<1>6. QED
  BY <1>2, <1>3, <1>4, <1>5

\* More keys, more requests.
LEMMA RequestsGrow ==
  ASSUME TypeOK
  PROVE  Requests(generated) \subseteq Requests(Keys)
<1>1. Signers(generated) \subseteq Signers(Keys)
  BY DEF Signers, TypeOK
<1>2. {Blob(k) : k \in generated} \subseteq {Blob(k) : k \in Keys}
  BY DEF TypeOK
<1>3. QED
  BY <1>1, <1>2 DEF Requests

\* The size of a signed message.
LEMMA Sizes ==
  ASSUME NEW g \in Goroutines, request[g] \in SignRequests \cup VerifyRequests
  PROVE  /\ request[g].message \in Messages /\ Len(request[g].message) \in Nat
         /\ SmLen(g) \in Nat /\ SmLen(g) > 0
         /\ SmLen(g) \in {SignatureSize + Len(x) : x \in Messages}
         /\ SmLen(g) > SignatureSize <=> Len(request[g].message) > 0
         /\ Len(request[g].message) = 0 => request[g].message = <<>>
BY DEF SmLen, SignatureSize, SignRequests, VerifyRequests

-----------------------------------------------------------------------------
(* The steps of one goroutine, and what they leave alone.                  *)

CallStep(g) ==
  \/ \E r \in Requests(generated) : Begin(g, r)
  \/ Reject(g) \/ Accept(g)

MallocStep(g) ==
  \/ \E b \in Blocks : MallocSm(g, b) \/ MallocM(g, b)
  \/ MallocSmFails(g) \/ MallocMFails(g)

FillStep(g) == CryptoSign(g) \/ CopySignature(g) \/ CopyMessage(g) \/ CryptoOpen(g)

GoStep(g) ==
  \/ CryptoSignFails(g) \/ GoBytes(g)
  \/ \E k \in Keys : KeyPair(g, k)
  \/ KeyPairFails(g) \/ MarshalBinary(g) \/ UnmarshalBinary(g)

FreeStep(g) == FreeM(g) \/ FreeSm(g) \/ Return(g)

Step(g) == CallStep(g) \/ MallocStep(g) \/ FillStep(g) \/ GoStep(g) \/ FreeStep(g)

\* Next is the steps of the goroutines.
LEMMA NextSteps == Next => \E g \in Goroutines : Step(g)
BY DEF Next, Step, CallStep, MallocStep, FillStep, GoStep, FreeStep

\* A step changes no other goroutine's state.
LEMMA OthersKeep ==
  ASSUME TypeOK, NEW g \in Goroutines, Step(g), NEW h \in Goroutines \ {g}
  PROVE  /\ pc'[h] = pc[h] /\ request'[h] = request[h] /\ answer'[h] = answer[h]
         /\ sm'[h] = sm[h] /\ m'[h] = m[h]
<1> USE DEF Goto, Answer
<1>1. CASE CallStep(g)
  BY <1>1 DEF CallStep, Begin, Reject, Accept, TypeOK
<1>2. CASE MallocStep(g)
  BY <1>2 DEF MallocStep, MallocSm, MallocM, MallocSmFails, MallocMFails, TypeOK
<1>3. CASE FillStep(g)
  BY <1>3 DEF FillStep, CryptoSign, CopySignature, CopyMessage, CryptoOpen, TypeOK
<1>4. CASE GoStep(g)
  BY <1>4 DEF GoStep, CryptoSignFails, GoBytes, KeyPair, KeyPairFails, MarshalBinary,
              UnmarshalBinary, TypeOK
<1>5. CASE FreeStep(g)
  BY <1>5 DEF FreeStep, FreeM, FreeSm, Return, TypeOK
<1>6. QED
  BY <1>1, <1>2, <1>3, <1>4, <1>5 DEF Step

\* A step changes no block that another call holds.
LEMMA BlocksKeep ==
  ASSUME TypeOK, HoldInv, SizeInv, AllocInv, NEW g \in Goroutines, Step(g),
         NEW h \in Goroutines \ {g}
  PROVE  /\ sm[h] # None => heap'[sm[h]] = heap[sm[h]]
         /\ m[h] # None => heap'[m[h]] = heap[m[h]]
<1>0. /\ sm[h] # None => /\ sm[h] \in Blocks /\ heap[sm[h]].size > 0
                         /\ sm[h] # sm[g] /\ sm[h] # m[g]
      /\ m[h] # None => /\ m[h] \in Blocks /\ heap[m[h]].size > 0
                        /\ m[h] # sm[g] /\ m[h] # m[g]
  <2>1. /\ sm[h] # None => sm[h] \in Blocks /\ sm[h] # sm[g] /\ sm[h] # m[g]
        /\ m[h] # None => m[h] \in Blocks /\ m[h] # sm[g] /\ m[h] # m[g]
    BY DEF TypeOK, AllocInv
  <2>2. /\ sm[h] # None => heap[sm[h]].size > 0
        /\ m[h] # None => heap[m[h]].size > 0
    <3>1. sm[h] # None \/ m[h] # None => SmLen(h) \in Nat /\ SmLen(h) > 0
      BY Sizes DEF SizeInv
    <3>2. QED
      BY <3>1 DEF SizeInv
  <2>3. QED
    BY <2>1, <2>2
<1>1. CASE heap' = heap
  BY <1>1
<1>2. CASE CallStep(g) \/ GoStep(g)
  BY <1>1, <1>2 DEF CallStep, Begin, Reject, Accept, GoStep, CryptoSignFails, GoBytes, KeyPair,
                    KeyPairFails, MarshalBinary, UnmarshalBinary
<1>3. CASE MallocStep(g)
  <2>1. \A b \in Blocks : heap[b] = Unallocated => heap[b].size = 0
    BY DEF Unallocated, Indeterminate
  <2>2. \/ heap' = heap
        \/ \E b \in Blocks : \E x : heap[b].size = 0 /\ heap' = [heap EXCEPT ![b] = x]
    BY <1>3, <2>1 DEF MallocStep, MallocSm, MallocM, MallocSmFails, MallocMFails
  <2>3. ASSUME NEW b \in Blocks, NEW x, heap[b].size = 0, heap' = [heap EXCEPT ![b] = x],
               NEW c \in Blocks, heap[c].size > 0
        PROVE  heap'[c] = heap[c]
    BY <2>3 DEF TypeOK
  <2>4. QED
    BY <1>0, <1>1, <2>2, <2>3
<1>4. CASE FillStep(g)
  BY <1>0, <1>4 DEF FillStep, CryptoSign, CopySignature, CopyMessage, CryptoOpen, TypeOK
<1>5. CASE FreeStep(g)
  BY <1>0, <1>5 DEF FreeStep, FreeM, FreeSm, Return, TypeOK
<1>6. QED
  BY <1>2, <1>3, <1>4, <1>5 DEF Step

-----------------------------------------------------------------------------
(* The invariant is preserved, conjunct by conjunct.                       *)

\* Calls keep to their function's steps, and to well-formed requests.
LEMMA CallInvStep ==
  ASSUME TypeOK, CallInv, NEW g \in Goroutines, Step(g)
  PROVE  CallInv'
<1> DEFINE At(h) ==
      /\ pc[h] \in Steps \ {"idle", "check", "free"} => WellFormed(request[h])
      /\ pc[h] \in {"crypto_sign", "GoBytes"} => request[h] \in SignRequests
      /\ pc[h] \in {"copy signature", "copy message", "malloc m", "crypto_sign_open"} =>
           request[h] \in VerifyRequests
      /\ pc[h] = "malloc sm" => request[h] \in SignRequests \cup VerifyRequests
      /\ pc[h] = "keypair" => request[h].op = "Generate"
<1>1. ASSUME NEW h \in Goroutines \ {g}
      PROVE  At(h)'
  <2>1. pc'[h] = pc[h] /\ request'[h] = request[h] /\ At(h)
    BY <1>1, OthersKeep DEF CallInv
  <2>2. QED
    BY <2>1
<1>2. At(g)'
  <2>0. At(g) /\ pc[g] \in Steps /\ DOMAIN pc = Goroutines
    BY DEF CallInv, TypeOK
  <2> USE <2>0 DEF Goto, Answer
  <2>1. CASE Accept(g)
    <3>1. request[g] \in Requests(Keys) /\ request' = request /\ WellFormed(request[g])
      BY <2>1 DEF Accept, TypeOK
    <3>2. /\ request[g].op = "Sign" => request[g] \in SignRequests
          /\ request[g].op = "VerifySignature" => request[g] \in VerifyRequests
      BY <3>1, RequestShapes
    <3>3. QED
      BY <2>1, <3>1, <3>2 DEF Accept
  <2>2. CASE Reject(g) \/ \E r \in Requests(generated) : Begin(g, r)
    BY <2>2 DEF Begin, Reject
  <2>3. CASE MallocStep(g)
    <3>1. pc[g] = "malloc sm" /\ request[g].op # "Sign" => request[g] \in VerifyRequests
      BY DEF SignRequests
    <3>2. pc[g] = "malloc sm" /\ request[g].op = "Sign" => request[g] \in SignRequests
      BY DEF VerifyRequests
    <3>3. QED
      BY <2>3, <3>1, <3>2 DEF MallocStep, MallocSm, MallocM, MallocSmFails, MallocMFails, Steps
  <2>4. CASE FillStep(g)
    BY <2>4 DEF FillStep, CryptoSign, CopySignature, CopyMessage, CryptoOpen, Steps
  <2>5. CASE GoStep(g)
    BY <2>5 DEF GoStep, CryptoSignFails, GoBytes, KeyPair, KeyPairFails, MarshalBinary,
                UnmarshalBinary
  <2>6. CASE FreeStep(g)
    BY <2>6 DEF FreeStep, FreeM, FreeSm, Return
  <2>7. QED
    BY <2>1, <2>2, <2>3, <2>4, <2>5, <2>6 DEF Step, CallStep
<1>3. QED
  BY <1>1, <1>2 DEF CallInv

\* A call has its buffers exactly as far as it has come.
LEMMA HoldStep ==
  ASSUME TypeOK, CallInv, HoldInv, NEW g \in Goroutines, Step(g)
  PROVE  HoldInv'
<1> DEFINE At(h) ==
      /\ pc[h] \in {"crypto_sign", "GoBytes", "copy signature", "copy message",
                    "malloc m", "crypto_sign_open"} => sm[h] # None
      /\ pc[h] \in {"idle", "check", "malloc sm", "keypair"} => sm[h] = None
      /\ m[h] # None => pc[h] \in {"crypto_sign_open", "free"}
      /\ pc[h] = "crypto_sign_open" => m[h] # None
<1>1. ASSUME NEW h \in Goroutines \ {g}
      PROVE  At(h)'
  <2>1. pc'[h] = pc[h] /\ sm'[h] = sm[h] /\ m'[h] = m[h] /\ At(h)
    BY <1>1, OthersKeep DEF HoldInv
  <2>2. QED
    BY <2>1
<1>2. At(g)'
  <2>0. /\ At(g) /\ pc[g] \in Steps
        /\ DOMAIN pc = Goroutines /\ DOMAIN sm = Goroutines /\ DOMAIN m = Goroutines
    BY DEF HoldInv, TypeOK
  <2> USE <2>0 DEF Goto, Answer
  <2>1. CASE CallStep(g)
    BY <2>1 DEF CallStep, Begin, Reject, Accept
  <2>2. CASE MallocStep(g)
    BY <2>2 DEF MallocStep, MallocSm, MallocM, MallocSmFails, MallocMFails
  <2>3. CASE FillStep(g)
    BY <2>3 DEF FillStep, CryptoSign, CopySignature, CopyMessage, CryptoOpen
  <2>4. CASE GoStep(g)
    BY <2>4 DEF GoStep, CryptoSignFails, GoBytes, KeyPair, KeyPairFails, MarshalBinary,
                UnmarshalBinary
  <2>5. CASE FreeStep(g)
    BY <2>5 DEF FreeStep, FreeM, FreeSm, Return
  <2>6. QED
    BY <2>1, <2>2, <2>3, <2>4, <2>5 DEF Step
<1>3. QED
  BY <1>1, <1>2 DEF HoldInv

\* The two blocks a call may hold, and their contents, as a step leaves them.
LEMMA OwnBlocks ==
  ASSUME TypeOK, HoldInv, NEW g \in Goroutines
  PROVE  /\ sm[g] # None => sm[g] \in Blocks
         /\ m[g] # None => m[g] \in Blocks
         /\ DOMAIN heap = Blocks
         /\ \A b \in Blocks : /\ heap[b].size \in Nat
                              /\ DOMAIN heap[b] = {"size", "signature", "message"}
<1>1. \A b \in Blocks :
        heap[b] \in [size : {0} \cup {SignatureSize + Len(x) : x \in Messages},
                     signature : Signatures \cup {None}, message : Messages \cup {None}]
  BY DEF TypeOK
<1>2. {0} \cup {SignatureSize + Len(x) : x \in Messages} \subseteq Nat
  BY DEF SignatureSize
<1>3. QED
  BY <1>1, <1>2 DEF TypeOK

\* Filling a buffer does not resize a block.
LEMMA FillKeepsSizes ==
  ASSUME TypeOK, HoldInv, NEW g \in Goroutines, FillStep(g)
  PROVE  \A b \in Blocks : heap'[b].size = heap[b].size
<1>0. DOMAIN heap = Blocks /\ \A b \in Blocks : DOMAIN heap[b] = {"size", "signature", "message"}
  BY OwnBlocks
<1>1. ASSUME NEW c, NEW x, heap' = [heap EXCEPT ![c].signature = x]
      PROVE  \A b \in Blocks : heap'[b].size = heap[b].size
  BY <1>0, <1>1
<1>2. ASSUME NEW c, NEW x, heap' = [heap EXCEPT ![c].message = x]
      PROVE  \A b \in Blocks : heap'[b].size = heap[b].size
  BY <1>0, <1>2
<1>3. CASE CryptoSign(g)
  <2>1. PICK x, y : heap' = [[heap EXCEPT ![sm[g]].signature = x] EXCEPT ![sm[g]].message = y]
    BY <1>3, <1>0 DEF CryptoSign
  <2>2. QED
    BY <1>0, <2>1
<1>4. CASE CopySignature(g)
  BY <1>1, <1>4 DEF CopySignature
<1>5. CASE CopyMessage(g)
  BY <1>2, <1>5 DEF CopyMessage
<1>6. CASE CryptoOpen(g)
  <2>1. PICK x : heap' = [heap EXCEPT ![m[g]].message = x]
    BY <1>0, <1>6, OwnBlocks DEF CryptoOpen
  <2>2. QED
    BY <1>2, <2>1
<1>7. QED
  BY <1>3, <1>4, <1>5, <1>6 DEF FillStep

\* A buffer is as large as the call's signed message from malloc to free.
LEMMA SizeStep ==
  ASSUME TypeOK, CallInv, HoldInv, SizeInv, AllocInv, NEW g \in Goroutines, Step(g)
  PROVE  SizeInv'
<1>1. ASSUME NEW h \in Goroutines \ {g}, sm'[h] # None \/ m'[h] # None
      PROVE  /\ request'[h] \in SignRequests \cup VerifyRequests
             /\ sm'[h] # None => heap'[sm'[h]].size = SmLen(h)'
             /\ m'[h] # None => heap'[m'[h]].size = SmLen(h)'
  <2>1. /\ request'[h] = request[h] /\ sm'[h] = sm[h] /\ m'[h] = m[h]
        /\ sm[h] # None => heap'[sm[h]] = heap[sm[h]]
        /\ m[h] # None => heap'[m[h]] = heap[m[h]]
    BY <1>1, OthersKeep, BlocksKeep
  <2>2. SmLen(h)' = SmLen(h)
    BY <2>1 DEF SmLen
  <2>3. QED
    BY <1>1, <2>1, <2>2 DEF SizeInv
<1>2. ASSUME sm'[g] # None \/ m'[g] # None
      PROVE  /\ request'[g] \in SignRequests \cup VerifyRequests
             /\ sm'[g] # None => heap'[sm'[g]].size = SmLen(g)'
             /\ m'[g] # None => heap'[m'[g]].size = SmLen(g)'
  <2>0. /\ sm[g] # None => sm[g] \in Blocks
        /\ m[g] # None => m[g] \in Blocks
        /\ sm[g] # None => sm[g] # m[g]
        /\ DOMAIN heap = Blocks /\ DOMAIN sm = Goroutines /\ DOMAIN m = Goroutines
        /\ \A b \in Blocks : DOMAIN heap[b] = {"size", "signature", "message"}
        /\ DOMAIN request = Goroutines
    BY OwnBlocks DEF AllocInv, TypeOK
  <2> USE <2>0 DEF Goto, Answer
  <2>1. CASE heap' = heap /\ request' = request /\ sm' = sm /\ m' = m
    BY <1>2, <2>1 DEF SizeInv, SmLen
  <2>2. ASSUME NEW r \in Requests(generated), Begin(g, r)
        PROVE  FALSE
    BY <1>2, <2>2 DEF Begin, HoldInv
  <2>3. CASE Return(g)
    BY <1>2, <2>3 DEF Return
  <2>4. ASSUME NEW b \in Blocks, MallocSm(g, b)
        PROVE  /\ request'[g] \in SignRequests \cup VerifyRequests
               /\ sm'[g] # None => heap'[sm'[g]].size = SmLen(g)'
               /\ m'[g] # None => heap'[m'[g]].size = SmLen(g)'
    BY <2>4 DEF MallocSm, CallInv, HoldInv, Indeterminate, SmLen
  <2>5. ASSUME NEW b \in Blocks, MallocM(g, b)
        PROVE  /\ request'[g] \in SignRequests \cup VerifyRequests
               /\ sm'[g] # None => heap'[sm'[g]].size = SmLen(g)'
               /\ m'[g] # None => heap'[m'[g]].size = SmLen(g)'
    <3>1. /\ request' = request /\ sm' = sm /\ m'[g] = b /\ b # None
          /\ heap'[b] = Indeterminate(SmLen(g))
          /\ \A c \in Blocks \ {b} : heap'[c] = heap[c]
          /\ request[g] \in VerifyRequests /\ sm[g] # None
      BY <2>5 DEF MallocM, CallInv, HoldInv
    <3>2. heap[sm[g]].size = SmLen(g) /\ SmLen(g) > 0
      BY <3>1, Sizes DEF SizeInv
    <3>3. heap[b].size = 0
      <4>1. heap[b] = Unallocated
        BY <2>5 DEF MallocM
      <4>2. QED
        BY <4>1 DEF Unallocated, Indeterminate
    <3>4. sm[g] # b
      BY <3>2, <3>3
    <3>5. QED
      BY <3>1, <3>2, <3>4 DEF Indeterminate, SmLen
  <2>6. CASE FillStep(g)
    <3>1. /\ request' = request /\ sm' = sm /\ m' = m
          /\ \A b \in Blocks : heap'[b].size = heap[b].size
      BY <2>6, FillKeepsSizes DEF FillStep, CryptoSign, CopySignature, CopyMessage, CryptoOpen
    <3>2. QED
      BY <1>2, <3>1 DEF SizeInv, SmLen
  <2>7. CASE FreeM(g)
    BY <1>2, <2>7 DEF FreeM, SizeInv, SmLen
  <2>8. CASE FreeSm(g)
    BY <1>2, <2>8 DEF FreeSm
  <2>9. CASE Reject(g) \/ Accept(g) \/ MallocSmFails(g) \/ MallocMFails(g) \/ GoStep(g)
    BY <2>1, <2>9 DEF Reject, Accept, MallocSmFails, MallocMFails, GoStep, CryptoSignFails,
                      GoBytes, KeyPair, KeyPairFails, MarshalBinary, UnmarshalBinary
  <2>10. QED
    BY <2>2, <2>3, <2>4, <2>5, <2>6, <2>7, <2>8, <2>9
       DEF Step, CallStep, MallocStep, FreeStep
<1>3. QED
  BY <1>1, <1>2 DEF SizeInv

\* malloc never gives out a block that is held.
LEMMA FreshBlock ==
  ASSUME TypeOK, SizeInv, NEW b \in Blocks, heap[b] = Unallocated, NEW g \in Goroutines
  PROVE  sm[g] # b /\ m[g] # b
<1>1. heap[b].size = 0
  BY DEF Unallocated, Indeterminate
<1>2. sm[g] = b \/ m[g] = b => SmLen(g) \in Nat /\ SmLen(g) > 0
  BY Sizes DEF SizeInv
<1>3. sm[g] = b \/ m[g] = b => heap[b].size = SmLen(g)
  BY DEF SizeInv
<1>4. QED
  BY <1>1, <1>2, <1>3

\* What a step does to the heap and to the variables that stand for blocks.
LEMMA BlockSteps ==
  ASSUME TypeOK, HoldInv, NEW g \in Goroutines, Step(g)
  PROVE  \/ /\ sm' = sm /\ m' = m
            /\ \A b \in Blocks : heap'[b].size = heap[b].size
         \/ \E b \in Blocks :
              /\ heap[b] = Unallocated
              /\ \A c \in Blocks \ {b} : heap'[c] = heap[c]
              /\ \/ m' = m /\ sm' = [sm EXCEPT ![g] = b] /\ sm[g] = None
                 \/ sm' = sm /\ m' = [m EXCEPT ![g] = b] /\ m[g] = None
         \/ \E b \in Blocks :
              /\ heap'[b].size = 0
              /\ \A c \in Blocks \ {b} : heap'[c] = heap[c]
              /\ \/ m' = m /\ sm' = [sm EXCEPT ![g] = None] /\ sm[g] = b
                 \/ sm' = sm /\ m' = [m EXCEPT ![g] = None] /\ m[g] = b
<1>0. /\ DOMAIN heap = Blocks
      /\ sm[g] # None => sm[g] \in Blocks
      /\ m[g] # None => m[g] \in Blocks
      /\ Unallocated.size = 0
  BY OwnBlocks DEF Unallocated, Indeterminate
<1> USE DEF Goto, Answer
<1>1. CASE FillStep(g)
  BY <1>1, FillKeepsSizes DEF FillStep, CryptoSign, CopySignature, CopyMessage, CryptoOpen
<1>2. CASE CallStep(g)
  BY <1>2 DEF CallStep, Begin, Reject, Accept
<1>3. CASE GoStep(g)
  BY <1>3 DEF GoStep, CryptoSignFails, GoBytes, KeyPair, KeyPairFails, MarshalBinary,
              UnmarshalBinary
<1>4. CASE MallocSmFails(g) \/ MallocMFails(g) \/ Return(g)
  BY <1>4 DEF MallocSmFails, MallocMFails, Return
<1>5. ASSUME NEW b \in Blocks, MallocSm(g, b)
      PROVE  /\ heap[b] = Unallocated
             /\ \A c \in Blocks \ {b} : heap'[c] = heap[c]
             /\ m' = m /\ sm' = [sm EXCEPT ![g] = b] /\ sm[g] = None
  BY <1>0, <1>5 DEF MallocSm, HoldInv
<1>6. ASSUME NEW b \in Blocks, MallocM(g, b)
      PROVE  /\ heap[b] = Unallocated
             /\ \A c \in Blocks \ {b} : heap'[c] = heap[c]
             /\ sm' = sm /\ m' = [m EXCEPT ![g] = b] /\ m[g] = None
  BY <1>0, <1>6 DEF MallocM, HoldInv
<1>7. CASE FreeM(g)
  BY <1>0, <1>7 DEF FreeM
<1>8. CASE FreeSm(g)
  BY <1>0, <1>8 DEF FreeSm
<1>9. QED
  BY <1>1, <1>2, <1>3, <1>4, <1>5, <1>6, <1>7, <1>8 DEF Step, MallocStep, FreeStep

\* No block is lost, given away twice or freed under another call.
LEMMA AllocStep ==
  ASSUME TypeOK, HoldInv, SizeInv, AllocInv, NEW g \in Goroutines, Step(g)
  PROVE  AllocInv'
<1>0. /\ DOMAIN sm = Goroutines /\ DOMAIN m = Goroutines
      /\ \A b \in Blocks : heap[b].size \in Nat
  BY OwnBlocks DEF TypeOK
<1>1. CASE /\ sm' = sm /\ m' = m
           /\ \A b \in Blocks : heap'[b].size = heap[b].size
  BY <1>1 DEF AllocInv
<1>2. ASSUME NEW b \in Blocks,
             heap[b] = Unallocated,
             \A c \in Blocks \ {b} : heap'[c] = heap[c],
             \/ m' = m /\ sm' = [sm EXCEPT ![g] = b] /\ sm[g] = None
             \/ sm' = sm /\ m' = [m EXCEPT ![g] = b] /\ m[g] = None
      PROVE  AllocInv'
  <2>1. \A h \in Goroutines : sm[h] # b /\ m[h] # b
    BY <1>2, FreshBlock
  <2>2. /\ \A h \in Goroutines \ {g} : sm'[h] = sm[h] /\ m'[h] = m[h]
        /\ \/ sm[g] = None /\ sm'[g] = b /\ m'[g] = m[g]
           \/ m[g] = None /\ m'[g] = b /\ sm'[g] = sm[g]
    BY <1>0, <1>2
  <2>3. \A c \in Blocks : heap'[c].size > 0 => \E h \in Goroutines : sm'[h] = c \/ m'[h] = c
    <3> SUFFICES ASSUME NEW c \in Blocks, heap'[c].size > 0
                 PROVE  \E h \in Goroutines : sm'[h] = c \/ m'[h] = c
      OBVIOUS
    <3>1. CASE c = b
      BY <2>2, <3>1
    <3>2. CASE c # b
      <4>1. PICK h \in Goroutines : sm[h] = c \/ m[h] = c
        BY <1>2, <3>2 DEF AllocInv
      <4>2. sm'[h] = c \/ m'[h] = c
        BY <2>2, <4>1
      <4>3. QED
        BY <4>2
    <3>3. QED
      BY <3>1, <3>2
  <2>4. \A h, i \in Goroutines :
          /\ sm'[h] # None => sm'[h] # m'[i] /\ (h # i => sm'[h] # sm'[i])
          /\ m'[h] # None /\ h # i => m'[h] # m'[i]
    BY <2>1, <2>2 DEF AllocInv
  <2>5. QED
    BY <2>3, <2>4 DEF AllocInv
<1>3. ASSUME NEW b \in Blocks,
             heap'[b].size = 0,
             \A c \in Blocks \ {b} : heap'[c] = heap[c],
             \/ m' = m /\ sm' = [sm EXCEPT ![g] = None] /\ sm[g] = b
             \/ sm' = sm /\ m' = [m EXCEPT ![g] = None] /\ m[g] = b
      PROVE  AllocInv'
  <2>1. /\ \A h \in Goroutines \ {g} : sm'[h] = sm[h] /\ m'[h] = m[h]
        /\ \/ sm[g] = b /\ sm'[g] = None /\ m'[g] = m[g]
           \/ m[g] = b /\ m'[g] = None /\ sm'[g] = sm[g]
    BY <1>0, <1>3
  <2>2. \A c \in Blocks : heap'[c].size > 0 => \E h \in Goroutines : sm'[h] = c \/ m'[h] = c
    <3> SUFFICES ASSUME NEW c \in Blocks, heap'[c].size > 0
                 PROVE  \E h \in Goroutines : sm'[h] = c \/ m'[h] = c
      OBVIOUS
    <3>1. c # b
      BY <1>3
    <3>2. PICK h \in Goroutines : sm[h] = c \/ m[h] = c
      BY <1>3, <3>1 DEF AllocInv
    <3>3. sm'[h] = c \/ m'[h] = c
      BY <2>1, <3>1, <3>2
    <3>4. QED
      BY <3>3
  <2>3. \A h, i \in Goroutines :
          /\ sm'[h] # None => sm'[h] # m'[i] /\ (h # i => sm'[h] # sm'[i])
          /\ m'[h] # None /\ h # i => m'[h] # m'[i]
    BY <2>1 DEF AllocInv
  <2>4. QED
    BY <2>2, <2>3 DEF AllocInv
<1>4. QED
  BY <1>1, <1>2, <1>3, BlockSteps

\* What C and Go read from a buffer is what this call wrote there.
LEMMA ContentStep ==
  ASSUME TypeOK, CallInv, HoldInv, SizeInv, AllocInv, ContentInv,
         NEW g \in Goroutines, Step(g)
  PROVE  ContentInv'
<1> DEFINE At(h) ==
      /\ pc[h] = "GoBytes" =>
           heap[sm[h]].signature = Signature(request[h].signer.sk[2], request[h].message)
      /\ pc[h] \in {"copy message", "malloc m", "crypto_sign_open"} =>
           heap[sm[h]].signature = request[h].signature
      /\ pc[h] \in {"malloc m", "crypto_sign_open"} /\ Len(request[h].message) > 0 =>
           heap[sm[h]].message = request[h].message
<1>1. ASSUME NEW h \in Goroutines \ {g}
      PROVE  At(h)'
  <2>1. /\ pc'[h] = pc[h] /\ request'[h] = request[h] /\ sm'[h] = sm[h]
        /\ sm[h] # None => heap'[sm[h]] = heap[sm[h]]
    BY <1>1, OthersKeep, BlocksKeep
  <2>2. pc[h] \in {"GoBytes", "copy message", "malloc m", "crypto_sign_open"} => sm[h] # None
    BY DEF HoldInv
  <2>3. At(h)
    BY DEF ContentInv
  <2>4. QED
    BY <2>1, <2>2, <2>3
<1>2. At(g)'
  <2>0. /\ DOMAIN heap = Blocks /\ DOMAIN pc = Goroutines
        /\ sm[g] # None => sm[g] \in Blocks /\ sm[g] # m[g]
        /\ \A b \in Blocks : DOMAIN heap[b] = {"size", "signature", "message"}
        /\ At(g)
    BY OwnBlocks DEF TypeOK, AllocInv, ContentInv
  <2> USE <2>0 DEF Goto, Answer
  <2>1. CASE CryptoSign(g)
    <3>1. /\ pc'[g] = "GoBytes" /\ request' = request /\ sm' = sm /\ sm[g] \in Blocks
      BY <2>1 DEF CryptoSign, HoldInv
    <3>2. heap'[sm[g]].signature = Signature(request[g].signer.sk[2], request[g].message)
      <4>1. PICK y : heap' = [[heap EXCEPT ![sm[g]].signature =
                         Signature(request[g].signer.sk[2], request[g].message)]
                       EXCEPT ![sm[g]].message = y]
        BY <2>1, <3>1 DEF CryptoSign
      <4>2. QED
        BY <3>1, <4>1
    <3>3. QED
      BY <3>1, <3>2
  <2>2. CASE CopySignature(g)
    <3>1. /\ request' = request /\ sm' = sm /\ sm[g] \in Blocks
          /\ pc'[g] = IF Len(request[g].message) > 0 THEN "copy message" ELSE "malloc m"
          /\ heap'[sm[g]].signature = request[g].signature
      BY <2>2 DEF CopySignature, HoldInv
    <3>2. QED
      BY <3>1
  <2>3. CASE CopyMessage(g)
    <3>1. /\ request' = request /\ sm' = sm /\ sm[g] \in Blocks
          /\ pc'[g] = "malloc m"
          /\ heap'[sm[g]].signature = heap[sm[g]].signature
          /\ heap'[sm[g]].message = request[g].message
      BY <2>3 DEF CopyMessage, HoldInv
    <3>2. QED
      BY <2>3, <3>1 DEF CopyMessage
  <2>4. ASSUME NEW b \in Blocks, MallocM(g, b)
        PROVE  At(g)'
    <3>1. /\ request' = request /\ sm' = sm /\ sm[g] \in Blocks
          /\ pc[g] = "malloc m" /\ pc'[g] = "crypto_sign_open"
          /\ heap[b] = Unallocated
          /\ \A c \in Blocks \ {b} : heap'[c] = heap[c]
      BY <2>4 DEF MallocM, HoldInv
    <3>2. sm[g] # b
      BY <3>1, FreshBlock
    <3>3. heap'[sm'[g]] = heap[sm[g]]
      BY <3>1, <3>2
    <3>4. QED
      BY <3>1, <3>3
  <2>5. CASE CallStep(g)
    BY <2>5 DEF CallStep, Begin, Reject, Accept
  <2>6. CASE MallocSmFails(g) \/ MallocMFails(g) \/ \E b \in Blocks : MallocSm(g, b)
    BY <2>6 DEF MallocSmFails, MallocMFails, MallocSm
  <2>7. CASE CryptoOpen(g)
    BY <2>7 DEF CryptoOpen
  <2>8. CASE GoStep(g)
    BY <2>8 DEF GoStep, CryptoSignFails, GoBytes, KeyPair, KeyPairFails, MarshalBinary,
                UnmarshalBinary
  <2>9. CASE FreeStep(g)
    BY <2>9 DEF FreeStep, FreeM, FreeSm, Return
  <2>10. QED
    BY <2>1, <2>2, <2>3, <2>4, <2>5, <2>6, <2>7, <2>8, <2>9 DEF Step, MallocStep, FillStep
<1>3. QED
  BY <1>1, <1>2 DEF ContentInv

\* What a key pair, a Signer or a blob that is handed out belongs to.
LEMMA AnswerShapes ==
  /\ Error \in Answers
  /\ \A k \in Keys, x \in Messages : [signature |-> Signature(k, x)] \in Answers
  /\ \A b \in BOOLEAN : [valid |-> b] \in Answers
  /\ \A k \in Keys : /\ [signer |-> Signer(Secret(k), Public(k))] \in Answers
                     /\ [blob |-> Blob(k)] \in Answers
  /\ None \notin Answers
<1>1. \A k \in Keys, x \in Messages : Signature(k, x) \in Signatures
  BY DEF Signature, Signatures
<1>2. QED
  BY <1>1 DEF Answers

\* A signature handed out is one of the Signer's key for the message.
LEMMA SignAnswer ==
  ASSUME TypeOK, CallInv, ContentInv, NEW g \in Goroutines, pc[g] = "GoBytes"
  PROVE  /\ request[g].op = "Sign" /\ request[g].message \in Messages
         /\ \E k \in Keys : /\ request[g].signer.sk = Secret(k)
                            /\ heap[sm[g]].signature = Signature(k, request[g].message)
<1>1. /\ request[g] \in SignRequests /\ WellFormed(request[g])
      /\ request[g] \in Requests(Keys)
  BY DEF CallInv, Steps, SignRequests, Requests
<1>2. request[g].op = "Sign" /\ request[g].message \in Messages
  BY <1>1 DEF SignRequests
<1>3. PICK k \in Keys : request[g].signer.sk = Secret(k)
  BY <1>1, <1>2, WellFormedShapes
<1>4. request[g].signer.sk[2] = k
  BY <1>3 DEF Secret
<1>5. heap[sm[g]].signature = Signature(k, request[g].message)
  BY <1>4 DEF ContentInv
<1>6. QED
  BY <1>2, <1>3, <1>5

\* Marshalling and unmarshalling a key give its blob and its Signer.
LEMMA MarshalAnswer ==
  ASSUME TypeOK, NEW g \in Goroutines, request[g] # None, WellFormed(request[g])
  PROVE  /\ request[g].op = "MarshalBinary" => \E k \in Keys :
              /\ request[g].signer = Signer(Secret(k), Public(k))
              /\ <<request[g].signer.sk, request[g].signer.pub>> = Blob(k)
         /\ request[g].op = "UnmarshalBinary" => \E k \in Keys :
              /\ request[g].blob = Blob(k)
              /\ Signer(request[g].blob[1], request[g].blob[2]) = Signer(Secret(k), Public(k))
<1>1. request[g] \in Requests(Keys)
  BY DEF TypeOK
<1>2. QED
  BY <1>1, WellFormedShapes DEF Signer, Blob

\* What a call answers is an answer.
LEMMA AnswersStep ==
  ASSUME TypeOK, CallInv, HoldInv, ContentInv, NEW g \in Goroutines, Step(g)
  PROVE  /\ answer' \in [Goroutines -> Answers \cup {None}]
         /\ (answer'[g] # None) <=> (pc'[g] = "free")
<1>0. /\ pc \in [Goroutines -> Steps] /\ answer \in [Goroutines -> Answers \cup {None}]
      /\ (answer[g] # None) <=> (pc[g] = "free")
  BY DEF TypeOK
<1>1. ASSUME NEW from \in Steps, NEW a \in Answers, Answer(g, from, a)
      PROVE  /\ answer' \in [Goroutines -> Answers \cup {None}]
             /\ (answer'[g] # None) <=> (pc'[g] = "free")
  BY <1>0, <1>1, AnswerShapes DEF Answer, Goto
<1>2. CASE Reject(g) \/ MallocSmFails(g) \/ MallocMFails(g) \/ CryptoSignFails(g) \/ KeyPairFails(g)
  BY <1>1, <1>2, AnswerShapes DEF Reject, MallocSmFails, MallocMFails, CryptoSignFails,
                                  KeyPairFails, Steps
<1>3. CASE GoBytes(g)
  <2>1. Answer(g, "GoBytes", [signature |-> heap[sm[g]].signature])
    BY <1>3 DEF GoBytes
  <2>2. [signature |-> heap[sm[g]].signature] \in Answers
    BY <2>1, SignAnswer, AnswerShapes DEF Answer, Goto
  <2>3. QED
    BY <1>1, <2>1, <2>2 DEF Steps
<1>4. CASE CryptoOpen(g)
  <2>1. PICK b \in BOOLEAN : Answer(g, "crypto_sign_open", [valid |-> b])
    BY <1>4 DEF CryptoOpen
  <2>2. QED
    BY <1>1, <2>1, AnswerShapes DEF Steps
<1>5. CASE \E k \in Keys : KeyPair(g, k)
  BY <1>1, <1>5, AnswerShapes DEF KeyPair, Steps
<1>6. CASE MarshalBinary(g)
  <2>1. PICK k \in Keys : Answer(g, "check", [blob |-> Blob(k)])
    BY <1>6, MarshalAnswer DEF MarshalBinary
  <2>2. QED
    BY <1>1, <2>1, AnswerShapes DEF Steps
<1>7. CASE UnmarshalBinary(g)
  <2>1. PICK k \in Keys : Answer(g, "check", [signer |-> Signer(Secret(k), Public(k))])
    BY <1>7, MarshalAnswer DEF UnmarshalBinary
  <2>2. QED
    BY <1>1, <2>1, AnswerShapes DEF Steps
<1>8. CASE Return(g)
  BY <1>0, <1>8 DEF Return, Goto
<1>9. CASE FreeM(g) \/ FreeSm(g)
  BY <1>0, <1>9 DEF FreeM, FreeSm
<1>10. CASE Accept(g) \/ \E r \in Requests(generated) : Begin(g, r)
  BY <1>0, <1>10 DEF Accept, Begin, Goto
<1>11. CASE \E b \in Blocks : MallocSm(g, b) \/ MallocM(g, b)
  BY <1>0, <1>11 DEF MallocSm, MallocM, Goto
<1>12. CASE CryptoSign(g) \/ CopySignature(g) \/ CopyMessage(g)
  BY <1>0, <1>12 DEF CryptoSign, CopySignature, CopyMessage, Goto
<1>13. QED
  BY <1>2, <1>3, <1>4, <1>5, <1>6, <1>7, <1>8, <1>9, <1>10, <1>11, <1>12
     DEF Step, CallStep, MallocStep, FillStep, GoStep, FreeStep

\* What a heap block can hold.
BlockTypes == [size : {0} \cup {SignatureSize + Len(x) : x \in Messages},
               signature : Signatures \cup {None}, message : Messages \cup {None}]

\* The heap's contents keep their types.
LEMMA HeapStep ==
  ASSUME TypeOK, CallInv, HoldInv, NEW g \in Goroutines, Step(g)
  PROVE  heap' \in [Blocks -> BlockTypes]
<1>0. heap \in [Blocks -> BlockTypes]
  BY DEF TypeOK, BlockTypes
<1>1. CASE heap' = heap
  BY <1>0, <1>1
<1>2. ASSUME NEW b, NEW x \in BlockTypes, heap' = [heap EXCEPT ![b] = x]
      PROVE  heap' \in [Blocks -> BlockTypes]
  BY <1>0, <1>2
<1>3. Unallocated \in BlockTypes
  BY DEF Unallocated, Indeterminate, BlockTypes
<1>4. CASE \E b \in Blocks : MallocSm(g, b) \/ MallocM(g, b)
  <2>1. PICK b \in Blocks : MallocSm(g, b) \/ MallocM(g, b)
    BY <1>4
  <2>2. request[g] \in SignRequests \cup VerifyRequests
    BY <2>1 DEF MallocSm, MallocM, Goto, CallInv
  <2>3. Indeterminate(SmLen(g)) \in BlockTypes
    BY <2>2, Sizes DEF Indeterminate, BlockTypes
  <2>4. heap' = [heap EXCEPT ![b] = Indeterminate(SmLen(g))]
    BY <2>1 DEF MallocSm, MallocM
  <2>5. QED
    BY <1>2, <2>3, <2>4
<1>5. ASSUME NEW b, NEW x \in Signatures, heap' = [heap EXCEPT ![b].signature = x]
      PROVE  heap' \in [Blocks -> BlockTypes]
  BY <1>0, <1>5 DEF BlockTypes
<1>6. ASSUME NEW b \in Blocks, NEW x \in Messages \cup {None}, heap' = [heap EXCEPT ![b].message = x]
      PROVE  heap' \in [Blocks -> BlockTypes]
  BY <1>0, <1>6 DEF BlockTypes
<1>7. CASE CryptoSign(g)
  <2>1. sm[g] \in Blocks /\ request[g] \in SignRequests /\ WellFormed(request[g])
    BY <1>7 DEF CryptoSign, Goto, HoldInv, CallInv, TypeOK, Steps
  <2>2. /\ request[g].message \in Messages
        /\ \E k \in Keys : request[g].signer.sk[2] = k
    <3>1. request[g] \in Requests(Keys) /\ request[g].op = "Sign" /\ request[g].message \in Messages
      BY <2>1 DEF SignRequests, Requests
    <3>2. PICK k \in Keys : request[g].signer.sk = Secret(k)
      BY <2>1, <3>1, WellFormedShapes
    <3>3. QED
      BY <3>1, <3>2 DEF Secret
  <2>3. Signature(request[g].signer.sk[2], request[g].message) \in Signatures
    BY <2>2 DEF Signature, Signatures
  <2>4. PICK y \in Messages \cup {None} :
          heap' = [heap EXCEPT ![sm[g]] = [@ EXCEPT !.signature =
                     Signature(request[g].signer.sk[2], request[g].message), !.message = y]]
    <3>1. heap[sm[g]].message \in Messages \cup {None}
      BY <1>0, <2>1 DEF BlockTypes
    <3>2. QED
      BY <1>0, <1>7, <2>1, <2>2, <3>1 DEF CryptoSign, BlockTypes
  <2>5. [heap[sm[g]] EXCEPT !.signature =
          Signature(request[g].signer.sk[2], request[g].message), !.message = y] \in BlockTypes
    BY <1>0, <2>1, <2>3 DEF BlockTypes
  <2>6. QED
    BY <1>2, <2>1, <2>4, <2>5
<1>8. CASE CopySignature(g)
  <2>1. request[g] \in VerifyRequests /\ WellFormed(request[g]) /\ request[g] \in Requests(Keys)
    BY <1>8 DEF CopySignature, Goto, CallInv, Steps, VerifyRequests, Requests
  <2>2. request[g].signature \in Signatures
    BY <2>1, WellFormedShapes DEF VerifyRequests
  <2>3. QED
    BY <1>5, <1>8, <2>2 DEF CopySignature
<1>9. CASE CopyMessage(g)
  <2>1. request[g].message \in Messages /\ sm[g] \in Blocks
    BY <1>9 DEF CopyMessage, Goto, CallInv, VerifyRequests, HoldInv, TypeOK
  <2>2. QED
    BY <1>6, <1>9, <2>1 DEF CopyMessage
<1>10. CASE CryptoOpen(g)
  <2>1. /\ m[g] \in Blocks /\ sm[g] \in Blocks /\ request[g] \in VerifyRequests
    BY <1>10 DEF CryptoOpen, Answer, Goto, HoldInv, CallInv, TypeOK
  <2>2. PICK valid \in BOOLEAN :
          heap' = [heap EXCEPT ![m[g]].message =
                     IF valid THEN MessageIn(heap[sm[g]], SmLen(g)) ELSE @]
    BY <1>10 DEF CryptoOpen
  <2>3. CASE valid = FALSE
    BY <1>0, <1>1, <2>2, <2>3 DEF BlockTypes
  <2>4. CASE valid = TRUE
    <3>1. MessageIn(heap[sm[g]], SmLen(g)) \in Messages \cup {None}
      BY <1>0, <2>1, Sizes DEF MessageIn, BlockTypes
    <3>2. QED
      BY <1>6, <2>1, <2>2, <2>4, <3>1
  <2>5. QED
    BY <2>3, <2>4
<1>11. CASE FreeM(g) \/ FreeSm(g)
  BY <1>2, <1>3, <1>11 DEF FreeM, FreeSm
<1>12. CASE CallStep(g) \/ GoStep(g)
  BY <1>1, <1>12 DEF CallStep, Begin, Reject, Accept, GoStep, CryptoSignFails, GoBytes, KeyPair,
                     KeyPairFails, MarshalBinary, UnmarshalBinary
<1>13. CASE MallocSmFails(g) \/ MallocMFails(g) \/ Return(g)
  BY <1>1, <1>13 DEF MallocSmFails, MallocMFails, Return
<1>14. QED
  BY <1>4, <1>7, <1>8, <1>9, <1>10, <1>11, <1>12, <1>13 DEF Step, MallocStep, FillStep, FreeStep

\* Requests come and go with the call.
LEMMA RequestStep ==
  ASSUME TypeOK, HoldInv, NEW g \in Goroutines, Step(g)
  PROVE  /\ pc' \in [Goroutines -> Steps]
         /\ request' \in [Goroutines -> Requests(Keys) \cup {None}]
         /\ (request'[g] = None) <=> (pc'[g] = "idle")
<1>0. /\ pc \in [Goroutines -> Steps]
      /\ request \in [Goroutines -> Requests(Keys) \cup {None}]
      /\ (request[g] = None) <=> (pc[g] = "idle")
  BY DEF TypeOK
<1> USE DEF Goto, Answer, Steps
<1>1. ASSUME NEW r \in Requests(generated), Begin(g, r)
      PROVE  /\ pc' \in [Goroutines -> Steps]
             /\ request' \in [Goroutines -> Requests(Keys) \cup {None}]
             /\ (request'[g] = None) <=> (pc'[g] = "idle")
  <2>1. r \in Requests(Keys) /\ r # None
    BY RequestsGrow, RequestShapes
  <2>2. QED
    BY <1>0, <1>1, <2>1 DEF Begin
<1>2. CASE Return(g)
  BY <1>0, <1>2 DEF Return
<1>3. CASE Reject(g) \/ Accept(g)
  BY <1>0, <1>3 DEF Reject, Accept
<1>4. CASE MallocStep(g)
  BY <1>0, <1>4 DEF MallocStep, MallocSm, MallocM, MallocSmFails, MallocMFails
<1>5. CASE FillStep(g)
  BY <1>0, <1>5 DEF FillStep, CryptoSign, CopySignature, CopyMessage, CryptoOpen
<1>6. CASE GoStep(g)
  BY <1>0, <1>6 DEF GoStep, CryptoSignFails, GoBytes, KeyPair, KeyPairFails, MarshalBinary,
                    UnmarshalBinary
<1>7. CASE FreeM(g) \/ FreeSm(g)
  BY <1>0, <1>7 DEF FreeM, FreeSm
<1>8. QED
  BY <1>1, <1>2, <1>3, <1>4, <1>5, <1>6, <1>7 DEF Step, CallStep, FreeStep

\* Keys are only added.
LEMMA KeysStep ==
  ASSUME TypeOK, NEW g \in Goroutines, Step(g)
  PROVE  generated' \subseteq Keys
<1> USE DEF TypeOK
<1>1. CASE CallStep(g) \/ MallocStep(g)
  BY <1>1 DEF CallStep, Begin, Reject, Accept, MallocStep, MallocSm, MallocM, MallocSmFails,
              MallocMFails
<1>2. CASE FillStep(g) \/ FreeStep(g)
  BY <1>2 DEF FillStep, CryptoSign, CopySignature, CopyMessage, CryptoOpen, FreeStep, FreeM,
              FreeSm, Return
<1>3. CASE GoStep(g)
  BY <1>3 DEF GoStep, CryptoSignFails, GoBytes, KeyPair, KeyPairFails, MarshalBinary,
              UnmarshalBinary
<1>4. QED
  BY <1>1, <1>2, <1>3 DEF Step

\* No step leaves the types.
LEMMA TypeStep ==
  ASSUME TypeOK, CallInv, HoldInv, ContentInv, NEW g \in Goroutines, Step(g)
  PROVE  TypeOK'
<1>1. \A h \in Goroutines : /\ (request'[h] = None) <=> (pc'[h] = "idle")
                            /\ (answer'[h] # None) <=> (pc'[h] = "free")
  <2>1. \A h \in Goroutines \ {g} : /\ (request'[h] = None) <=> (pc'[h] = "idle")
                                    /\ (answer'[h] # None) <=> (pc'[h] = "free")
    BY OthersKeep DEF TypeOK
  <2>2. QED
    BY <2>1, RequestStep, AnswersStep
<1>2. sm' \in [Goroutines -> Blocks \cup {None}] /\ m' \in [Goroutines -> Blocks \cup {None}]
  BY BlockSteps DEF TypeOK
<1>3. QED
  BY <1>1, <1>2, RequestStep, AnswersStep, HeapStep, KeysStep DEF TypeOK, BlockTypes

-----------------------------------------------------------------------------
(* The invariant, and what follows from it.                                *)

\* No goroutine has called and nothing is allocated.
LEMMA InitHolds == Init => IInv
<1> SUFFICES ASSUME Init PROVE IInv
  OBVIOUS
<1> USE DEF Init
<1>1. TypeOK
  BY DEF TypeOK, Steps, Unallocated, Indeterminate
<1>2. CallInv /\ HoldInv /\ SizeInv /\ ContentInv
  BY DEF CallInv, HoldInv, SizeInv, ContentInv
<1>3. AllocInv
  BY DEF AllocInv, Unallocated, Indeterminate
<1>4. QED
  BY <1>1, <1>2, <1>3 DEF IInv

\* The inductive invariant holds in every reachable state.
LEMMA Invariance == Spec => []IInv
<1>1. IInv /\ [Next]_vars => IInv'
  <2>1. ASSUME IInv, UNCHANGED vars
        PROVE  IInv'
    <3>0. /\ pc' = pc /\ request' = request /\ answer' = answer /\ sm' = sm /\ m' = m
          /\ heap' = heap /\ generated' = generated
      BY <2>1 DEF vars
    <3>1. TypeOK'
      BY <2>1, <3>0 DEF IInv, TypeOK
    <3>2. CallInv' /\ HoldInv'
      BY <2>1, <3>0 DEF IInv, CallInv, HoldInv
    <3>3. SizeInv' /\ AllocInv' /\ ContentInv'
      BY <2>1, <3>0 DEF IInv, SizeInv, AllocInv, ContentInv, SmLen
    <3>4. QED
      BY <3>1, <3>2, <3>3 DEF IInv
  <2>2. ASSUME IInv, NEW g \in Goroutines, Step(g)
        PROVE  IInv'
    <3>1. TypeOK' /\ CallInv' /\ HoldInv'
      BY <2>2, TypeStep, CallInvStep, HoldStep DEF IInv
    <3>2. SizeInv' /\ AllocInv' /\ ContentInv'
      BY <2>2, SizeStep, AllocStep, ContentStep DEF IInv
    <3>3. QED
      BY <3>1, <3>2 DEF IInv
  <2>3. QED
    BY <2>1, <2>2, NextSteps
<1>2. QED
  BY <1>1, InitHolds, PTL DEF Spec

\* Type correctness: a call has an answer exactly when all that is left is
\* to free its buffers and return.
THEOREM TypeCorrect == Spec => []TypeOK
<1>1. IInv => TypeOK
  BY DEF IInv
<1>2. QED
  BY <1>1, Invariance, PTL

\* malloc and free in Sign and VerifySignature: no leak, no early or double
\* free, no sharing, and room for the signed message.
THEOREM HeldByOneCall == Spec => []BlocksHeldByOneCall
<1>1. IInv => BlocksHeldByOneCall
  <2> SUFFICES ASSUME IInv PROVE BlocksHeldByOneCall
    OBVIOUS
  <2>1. \A g \in Goroutines :
          /\ sm[g] # None => /\ sm[g] \in Blocks /\ heap[sm[g]].size = SmLen(g)
                             /\ heap[sm[g]].size > 0
          /\ m[g] # None => /\ m[g] \in Blocks /\ heap[m[g]].size = SmLen(g)
                            /\ heap[m[g]].size > 0 /\ SmLen(g) >= Len(request[g].message)
    <3> SUFFICES ASSUME NEW g \in Goroutines, sm[g] # None \/ m[g] # None
                 PROVE  /\ sm[g] # None => /\ sm[g] \in Blocks /\ heap[sm[g]].size = SmLen(g)
                                           /\ heap[sm[g]].size > 0
                        /\ m[g] # None => /\ m[g] \in Blocks /\ heap[m[g]].size = SmLen(g)
                                          /\ heap[m[g]].size > 0
                                          /\ SmLen(g) >= Len(request[g].message)
      OBVIOUS
    <3>1. SmLen(g) \in Nat /\ SmLen(g) > 0 /\ SmLen(g) >= Len(request[g].message)
      BY Sizes DEF IInv, SizeInv, SmLen, SignatureSize
    <3>2. QED
      BY <3>1 DEF IInv, SizeInv, TypeOK
  <2>2. {b \in Blocks : heap[b].size > 0} =
          ({sm[g] : g \in Goroutines} \cup {m[g] : g \in Goroutines}) \ {None}
    <3>1. ASSUME NEW b \in Blocks, heap[b].size > 0
          PROVE  b \in ({sm[g] : g \in Goroutines} \cup {m[g] : g \in Goroutines}) \ {None}
      BY <3>1 DEF IInv, AllocInv
    <3>2. ASSUME NEW b \in ({sm[g] : g \in Goroutines} \cup {m[g] : g \in Goroutines}) \ {None}
          PROVE  b \in Blocks /\ heap[b].size > 0
      BY <2>1, <3>2
    <3>3. QED
      BY <3>1, <3>2
  <2>3. \A g \in Goroutines :
          /\ sm[g] # None => heap[sm[g]].size >= SmLen(g)
          /\ m[g] # None => heap[m[g]].size >= Len(request[g].message)
    <3> SUFFICES ASSUME NEW g \in Goroutines
                 PROVE  /\ sm[g] # None => heap[sm[g]].size >= SmLen(g)
                        /\ m[g] # None => heap[m[g]].size >= Len(request[g].message)
      OBVIOUS
    <3>1. sm[g] # None \/ m[g] # None => SmLen(g) \in Nat
      BY Sizes DEF IInv, SizeInv
    <3>2. QED
      BY <2>1, <3>1
  <2>4. QED
    BY <2>2, <2>3 DEF IInv, AllocInv, BlocksHeldByOneCall
<1>2. QED
  BY <1>1, Invariance, PTL

-----------------------------------------------------------------------------
(* Calls that meet.                                                        *)

\* The right answer of one call, in terms of what it was given.
RightAnswer(r, a) ==
  /\ r.op = "Sign" => \E k \in Keys : /\ r.signer.sk = Secret(k)
                                      /\ a = [signature |-> Signature(k, r.message)]
  /\ r.op = "VerifySignature" => \E k \in Keys :
       /\ r.pub = Public(k)
       /\ a = [valid |-> r.signature = Signature(k, r.message)]
  /\ r.op = "MarshalBinary" => \E k \in Keys : /\ r.signer = Signer(Secret(k), Public(k))
                                               /\ a = [blob |-> Blob(k)]
  /\ r.op = "UnmarshalBinary" => \E k \in Keys : /\ r.blob = Blob(k)
                                                 /\ a = [signer |-> Signer(Secret(k), Public(k))]

\* A call without an error has the right answer.
AnswersInv ==
  \A g \in Goroutines :
    pc[g] = "free" /\ answer[g] # Error => RightAnswer(request[g], answer[g])

\* What function f's call by g has answered without an error.
Told(g, f) == pc[g] = "free" /\ request[g].op = f /\ answer[g] # Error

\* What one call hands out another call takes: whatever has gone through the
\* shared heap in between, a signature verifies under the public half of the
\* key it was made with and for its message, and under no other key and for no
\* other message (the empty one included); and a key that comes back from the
\* blob it was stored in has both its halves.
AnswersFitTogether ==
  \A g, h \in Goroutines :
    /\ Told(g, "Sign") /\ Told(h, "VerifySignature")
         /\ request[h].signature = answer[g].signature =>
       (answer[h].valid <=> /\ KeyOf(request[h].pub) = KeyOf(request[g].signer.sk)
                            /\ request[h].message = request[g].message)
    /\ Told(g, "MarshalBinary") /\ Told(h, "UnmarshalBinary")
         /\ request[h].blob = answer[g].blob =>
       answer[h].signer = request[g].signer

\* The verdict is on the signature and the message the caller gave.
LEMMA VerifyAnswer ==
  ASSUME TypeOK, CallInv, HoldInv, SizeInv, ContentInv, NEW g \in Goroutines, CryptoOpen(g)
  PROVE  /\ request[g].op = "VerifySignature"
         /\ \E k \in Keys :
              /\ request[g].pub = Public(k)
              /\ Answer(g, "crypto_sign_open",
                        [valid |-> request[g].signature = Signature(k, request[g].message)])
<1> DEFINE recovered == MessageIn(heap[sm[g]], SmLen(g))
<1>1. pc[g] = "crypto_sign_open" /\ request[g] # None
  BY DEF CryptoOpen, Answer, Goto, TypeOK
<1>2. /\ request[g] \in VerifyRequests /\ WellFormed(request[g])
      /\ request[g] \in Requests(Keys) /\ request[g].op = "VerifySignature"
  BY <1>1 DEF CallInv, Steps, VerifyRequests, Requests
<1>3. PICK k \in Keys : request[g].pub = Public(k)
  BY <1>2, WellFormedShapes
<1>4. recovered = request[g].message
  <2>1. Len(request[g].message) > 0 => heap[sm[g]].message = request[g].message
    BY <1>1 DEF ContentInv
  <2>2. QED
    BY <1>2, <2>1, Sizes DEF MessageIn, SignatureSize
<1>5. heap[sm[g]].signature = request[g].signature /\ request[g].pub[2] = k
  <2>1. heap[sm[g]].signature = request[g].signature
    BY <1>1 DEF ContentInv
  <2>2. QED
    BY <1>3, <2>1 DEF Public
<1>6. Answer(g, "crypto_sign_open",
             [valid |-> heap[sm[g]].signature = Signature(request[g].pub[2], recovered)])
  BY DEF CryptoOpen
<1>7. QED
  <2> HIDE DEF recovered
  <2>1. QED
    BY <1>2, <1>3, <1>4, <1>5, <1>6

\* No step answers a call wrongly, or changes an answer or its request before
\* the return.
LEMMA AnswersInvStep ==
  ASSUME IInv, AnswersInv, NEW g \in Goroutines, Step(g)
  PROVE  AnswersInv'
<1> DEFINE At(h) == pc[h] = "free" /\ answer[h] # Error => RightAnswer(request[h], answer[h])
<1>0. /\ pc \in [Goroutines -> Steps] /\ DOMAIN answer = Goroutines /\ DOMAIN pc = Goroutines
      /\ TypeOK /\ CallInv /\ HoldInv /\ SizeInv /\ ContentInv
  BY DEF IInv, TypeOK
<1>1. ASSUME NEW h \in Goroutines \ {g}
      PROVE  At(h)'
  <2>1. pc'[h] = pc[h] /\ request'[h] = request[h] /\ answer'[h] = answer[h]
    BY <1>0, OthersKeep
  <2>2. At(h)
    BY DEF AnswersInv
  <2>3. QED
    BY <2>1, <2>2 DEF RightAnswer
<1>2. ASSUME NEW from, NEW a, Answer(g, from, a), request' = request,
             a # Error => RightAnswer(request[g], a)
      PROVE  At(g)'
  <2>1. answer'[g] = a /\ request'[g] = request[g]
    BY <1>0, <1>2 DEF Answer
  <2>2. QED
    BY <1>2, <2>1 DEF RightAnswer
<1>3. ASSUME pc'[g] # "free"
      PROVE  At(g)'
  BY <1>3
<1>4. At(g)'
  <2>1. CASE Reject(g) \/ MallocSmFails(g) \/ MallocMFails(g) \/ CryptoSignFails(g) \/ KeyPairFails(g)
    BY <1>2, <2>1 DEF Reject, MallocSmFails, MallocMFails, CryptoSignFails, KeyPairFails
  <2>2. CASE Accept(g) \/ \E r \in Requests(generated) : Begin(g, r)
    BY <1>0, <1>3, <2>2 DEF Accept, Begin, Goto
  <2>3. CASE \E b \in Blocks : MallocSm(g, b) \/ MallocM(g, b)
    BY <1>0, <1>3, <2>3 DEF MallocSm, MallocM, Goto
  <2>4. CASE CryptoSign(g) \/ CopySignature(g) \/ CopyMessage(g)
    BY <1>0, <1>3, <2>4 DEF CryptoSign, CopySignature, CopyMessage, Goto
  <2>5. CASE CryptoOpen(g)
    <3>1. PICK k \in Keys :
            /\ request[g].pub = Public(k)
            /\ Answer(g, "crypto_sign_open",
                      [valid |-> request[g].signature = Signature(k, request[g].message)])
      BY <1>0, <2>5, VerifyAnswer
    <3>2. request[g].op = "VerifySignature" /\ request' = request
      BY <1>0, <2>5, VerifyAnswer DEF CryptoOpen
    <3>3. RightAnswer(request[g],
                      [valid |-> request[g].signature = Signature(k, request[g].message)])
      BY <3>1, <3>2 DEF RightAnswer
    <3>4. QED
      BY <1>2, <3>1, <3>2, <3>3
  <2>6. CASE GoBytes(g)
    <3>1. Answer(g, "GoBytes", [signature |-> heap[sm[g]].signature]) /\ request' = request
      BY <2>6 DEF GoBytes
    <3>2. /\ request[g].op = "Sign"
          /\ \E k \in Keys : /\ request[g].signer.sk = Secret(k)
                             /\ heap[sm[g]].signature = Signature(k, request[g].message)
      BY <1>0, <3>1, SignAnswer DEF Answer, Goto
    <3>3. RightAnswer(request[g], [signature |-> heap[sm[g]].signature])
      BY <3>2 DEF RightAnswer
    <3>4. QED
      BY <1>2, <3>1, <3>3
  <2>7. CASE \E k \in Keys : KeyPair(g, k)
    <3>1. PICK a : Answer(g, "keypair", a) /\ request' = request
      BY <2>7 DEF KeyPair
    <3>2. request[g].op = "Generate"
      BY <1>0, <3>1 DEF Answer, Goto, CallInv
    <3>3. RightAnswer(request[g], a)
      BY <3>2 DEF RightAnswer
    <3>4. QED
      BY <1>2, <3>1, <3>3
  <2>8. CASE MarshalBinary(g)
    <3>1. PICK k \in Keys : /\ request[g].signer = Signer(Secret(k), Public(k))
                            /\ Answer(g, "check", [blob |-> Blob(k)])
      BY <1>0, <2>8, MarshalAnswer DEF MarshalBinary
    <3>2. request[g].op = "MarshalBinary" /\ request' = request
      BY <2>8 DEF MarshalBinary
    <3>3. RightAnswer(request[g], [blob |-> Blob(k)])
      BY <3>1, <3>2 DEF RightAnswer
    <3>4. QED
      BY <1>2, <3>1, <3>2, <3>3
  <2>9. CASE UnmarshalBinary(g)
    <3>1. PICK k \in Keys : /\ request[g].blob = Blob(k)
                            /\ Answer(g, "check", [signer |-> Signer(Secret(k), Public(k))])
      BY <1>0, <2>9, MarshalAnswer DEF UnmarshalBinary
    <3>2. request[g].op = "UnmarshalBinary" /\ request' = request
      BY <2>9 DEF UnmarshalBinary
    <3>3. RightAnswer(request[g], [signer |-> Signer(Secret(k), Public(k))])
      BY <3>1, <3>2 DEF RightAnswer
    <3>4. QED
      BY <1>2, <3>1, <3>2, <3>3
  <2>10. CASE FreeM(g) \/ FreeSm(g)
    <3>1. pc' = pc /\ request' = request /\ answer' = answer
      BY <2>10 DEF FreeM, FreeSm
    <3>2. QED
      BY <3>1 DEF AnswersInv, RightAnswer
  <2>11. CASE Return(g)
    BY <1>0, <1>3, <2>11 DEF Return, Goto
  <2>12. QED
    BY <2>1, <2>2, <2>3, <2>4, <2>5, <2>6, <2>7, <2>8, <2>9, <2>10, <2>11
       DEF Step, CallStep, MallocStep, FillStep, GoStep, FreeStep
<1>5. QED
  BY <1>1, <1>4 DEF AnswersInv

\* Every answer that is no error is right.
LEMMA AnswersRight == Spec => []AnswersInv
<1>1. Init => AnswersInv
  BY DEF Init, AnswersInv
<1>2. IInv /\ AnswersInv /\ [Next]_vars => AnswersInv'
  <2>1. ASSUME AnswersInv, UNCHANGED vars
        PROVE  AnswersInv'
    BY <2>1 DEF vars, AnswersInv, RightAnswer
  <2>2. QED
    BY <2>1, NextSteps, AnswersInvStep
<1>3. QED
  BY <1>1, <1>2, Invariance, PTL DEF Spec

\* Signatures verify and keys come back, from one call to another.
THEOREM CallsFitTogether == Spec => []AnswersFitTogether
<1>1. IInv /\ AnswersInv => AnswersFitTogether
  <2> SUFFICES ASSUME IInv, AnswersInv, NEW g \in Goroutines, NEW h \in Goroutines
               PROVE  /\ Told(g, "Sign") /\ Told(h, "VerifySignature")
                           /\ request[h].signature = answer[g].signature =>
                         (answer[h].valid <=> /\ KeyOf(request[h].pub) = KeyOf(request[g].signer.sk)
                                              /\ request[h].message = request[g].message)
                      /\ Told(g, "MarshalBinary") /\ Told(h, "UnmarshalBinary")
                           /\ request[h].blob = answer[g].blob =>
                         answer[h].signer = request[g].signer
    BY DEF AnswersFitTogether
  <2>1. ASSUME Told(g, "Sign"), Told(h, "VerifySignature"),
               request[h].signature = answer[g].signature
        PROVE  answer[h].valid <=> /\ KeyOf(request[h].pub) = KeyOf(request[g].signer.sk)
                                   /\ request[h].message = request[g].message
    <3>1. PICK k \in Keys : /\ request[g].signer.sk = Secret(k)
                            /\ answer[g] = [signature |-> Signature(k, request[g].message)]
      BY <2>1 DEF Told, AnswersInv, RightAnswer
    <3>2. PICK l \in Keys :
            /\ request[h].pub = Public(l)
            /\ answer[h] = [valid |-> request[h].signature = Signature(l, request[h].message)]
      BY <2>1 DEF Told, AnswersInv, RightAnswer
    <3>3. answer[h].valid = (Signature(k, request[g].message) = Signature(l, request[h].message))
      BY <2>1, <3>1, <3>2
    <3>4. Signature(k, request[g].message) = Signature(l, request[h].message) <=>
            k = l /\ request[g].message = request[h].message
      BY DEF Signature
    <3>5. KeyOf(request[h].pub) = l /\ KeyOf(request[g].signer.sk) = k
      BY <3>1, <3>2 DEF KeyOf, Short, Public, Secret, NoRecordAssumption
    <3>6. QED
      BY <3>3, <3>4, <3>5
  <2>2. ASSUME Told(g, "MarshalBinary"), Told(h, "UnmarshalBinary"),
               request[h].blob = answer[g].blob
        PROVE  answer[h].signer = request[g].signer
    <3>1. PICK k \in Keys : /\ request[g].signer = Signer(Secret(k), Public(k))
                            /\ answer[g] = [blob |-> Blob(k)]
      BY <2>2 DEF Told, AnswersInv, RightAnswer
    <3>2. PICK l \in Keys : /\ request[h].blob = Blob(l)
                            /\ answer[h] = [signer |-> Signer(Secret(l), Public(l))]
      BY <2>2 DEF Told, AnswersInv, RightAnswer
    <3>3. Blob(k) = Blob(l)
      BY <2>2, <3>1, <3>2
    <3>4. k = l
      BY <3>3 DEF Blob, Secret
    <3>5. QED
      BY <3>1, <3>2, <3>4
  <2>3. QED
    BY <2>1, <2>2
<1>2. QED
  BY <1>1, Invariance, AnswersRight, PTL

-----------------------------------------------------------------------------
(* Refinement.                                                             *)

\* What callers see of the requests and answers.
requestBar == [g \in Goroutines |-> AbstractRequest(request[g])]
answerBar == [g \in Goroutines |-> AbstractAnswer(answer[g])]

\* A pair of halves of the same key is that key; any other pair is no key.
LEMMA PairKeys ==
  /\ \A k \in Keys : /\ KeyOf(Secret(k)) = k /\ KeyOf(Public(k)) = k
                     /\ PairKey(Secret(k), Public(k)) = k
  /\ KeyOf(Short) = None
  /\ \A x \in Signers(Keys) : /\ KeyOf(x.sk) \in Keys \cup {None}
                              /\ PairKey(x.sk, x.pub) \in Keys \cup {None}
<1>1. \A k \in Keys : /\ Secret(k) # Short /\ Secret(k)[2] = k
                      /\ Public(k) # Short /\ Public(k)[2] = k
  BY DEF Secret, Public, Short
<1>2. KeyOf(Short) = None
  BY DEF KeyOf
<1>3. \A k \in Keys : KeyOf(Secret(k)) = k /\ KeyOf(Public(k)) = k
  BY <1>1 DEF KeyOf
<1>4. \A k \in Keys : PairKey(Secret(k), Public(k)) = k
  BY <1>3 DEF PairKey
<1>5. \A x \in Signers(Keys) : x.sk = Short \/ \E k \in Keys : x.sk = Secret(k)
  BY DEF Signers, Signer
<1>6. \A x \in Signers(Keys) : KeyOf(x.sk) \in Keys \cup {None}
  BY <1>2, <1>3, <1>5
<1>7. QED
  BY <1>2, <1>3, <1>4, <1>6 DEF PairKey

\* A request of a caller is one of the abstract requests.
LEMMA RequestsSeen ==
  /\ AbstractRequest(None) = None
  /\ \A r \in Requests(Keys) : AbstractRequest(r) \in Detached!Requests
<1>1. ASSUME NEW r \in Requests(Keys)
      PROVE  AbstractRequest(r) \in Detached!Requests
  <2>0. r # None
    OBVIOUS
  <2>1. CASE r.op = "Generate"
    <3>1. r \in [op : {"Generate"}]
      BY <2>1 DEF Requests
    <3>2. QED
      BY <2>0, <2>1, <3>1 DEF AbstractRequest, Detached!Requests
  <2>2. CASE r.op = "Sign"
    <3>1. r.signer \in Signers(Keys) /\ r.message \in Messages
      BY <2>2, RequestShapes DEF SignRequests
    <3>2. AbstractRequest(r) = [op |-> "Sign", key |-> KeyOf(r.signer.sk), message |-> r.message]
      BY <2>0, <2>2 DEF AbstractRequest
    <3>3. QED
      BY <3>1, <3>2, PairKeys DEF Detached!Requests
  <2>3. CASE r.op = "VerifySignature"
    <3>1. /\ r.pub \in {Public(k) : k \in Keys} \cup {Short} /\ r.message \in Messages
          /\ r.signature \in Signatures \cup {Short}
      BY <2>3, RequestShapes DEF VerifyRequests
    <3>2. AbstractRequest(r) = [op |-> "VerifySignature", key |-> KeyOf(r.pub),
                                message |-> r.message, signature |-> r.signature]
      BY <2>0, <2>3 DEF AbstractRequest
    <3>3. KeyOf(r.pub) \in Keys \cup {None}
      BY <3>1, PairKeys
    <3>4. r.signature \in [by : Keys, of : Messages] \cup {Detached!Forged, None}
      BY <3>1 DEF Signatures, Signature, Forged, Detached!Forged, Short
    <3>5. QED
      BY <3>1, <3>2, <3>3, <3>4 DEF Detached!Requests
  <2>4. CASE r.op = "MarshalBinary"
    <3>1. r.signer \in Signers(Keys)
      BY <2>4, RequestShapes
    <3>2. AbstractRequest(r) = [op |-> "MarshalBinary",
                                key |-> PairKey(r.signer.sk, r.signer.pub)]
      BY <2>0, <2>4 DEF AbstractRequest
    <3>3. QED
      BY <3>1, <3>2, PairKeys DEF Detached!Requests
  <2>5. CASE r.op = "UnmarshalBinary"
    <3>1. r.blob \in {Blob(k) : k \in Keys} \cup {Short}
      BY <2>5, RequestShapes
    <3>2. /\ AbstractRequest(r).op = "UnmarshalBinary"
          /\ AbstractRequest(r) = [op |-> "UnmarshalBinary", key |-> AbstractRequest(r).key]
          /\ AbstractRequest(r).key =
               IF r.blob = Short THEN None ELSE PairKey(r.blob[1], r.blob[2])
      BY <2>0, <2>5 DEF AbstractRequest
    <3>3. AbstractRequest(r).key \in Keys \cup {None}
      BY <3>1, <3>2, PairKeys DEF Blob
    <3>4. QED
      BY <3>2, <3>3 DEF Detached!Requests
  <2>6. QED
    BY <2>1, <2>2, <2>3, <2>4, <2>5, RequestShapes
<1>2. QED
  BY <1>1 DEF AbstractRequest

\* What a caller sees of an answer; that there is one, it always sees.
LEMMA AnswersSeen ==
  /\ AbstractAnswer(None) = None
  /\ AbstractAnswer(Error) = Detached!Failed
  /\ \A k \in Keys : /\ AbstractAnswer([signer |-> Signer(Secret(k), Public(k))]) = [key |-> k]
                     /\ AbstractAnswer([blob |-> Blob(k)]) = [key |-> k]
  /\ \A b \in BOOLEAN : AbstractAnswer([valid |-> b]) = [valid |-> b]
  /\ \A x : [signature |-> x] # None => AbstractAnswer([signature |-> x]) = [signature |-> x]
  /\ \A a \in Answers \cup {None} : AbstractAnswer(a) = None <=> a = None
<1>1. Error # None /\ AbstractAnswer(Error) = Detached!Failed
  BY AnswerShapes DEF AbstractAnswer, Error, Detached!Failed
<1>2. ASSUME NEW k \in Keys
      PROVE  AbstractAnswer([signer |-> Signer(Secret(k), Public(k))]) = [key |-> k]
  <2>1. [signer |-> Signer(Secret(k), Public(k))] # None
    BY AnswerShapes
  <2>2. QED
    BY <2>1, PairKeys DEF AbstractAnswer, Signer
<1>3. ASSUME NEW k \in Keys
      PROVE  AbstractAnswer([blob |-> Blob(k)]) = [key |-> k]
  <2>1. [blob |-> Blob(k)] # None
    BY AnswerShapes
  <2>2. Blob(k)[1] = Secret(k) /\ Blob(k)[2] = Public(k)
    BY DEF Blob
  <2>3. QED
    BY <2>1, <2>2, PairKeys DEF AbstractAnswer
<1>4. \A b \in BOOLEAN : AbstractAnswer([valid |-> b]) = [valid |-> b]
  BY AnswerShapes DEF AbstractAnswer
<1>5. \A x : [signature |-> x] # None => AbstractAnswer([signature |-> x]) = [signature |-> x]
  BY DEF AbstractAnswer
<1>6. AbstractAnswer(None) = None
  BY DEF AbstractAnswer
<1>7. ASSUME NEW a \in Answers
      PROVE  AbstractAnswer(a) # None
  <2>1. CASE a = Error
    BY <1>1, <2>1 DEF Error, Detached!Failed
  <2>2. CASE \E k \in Keys : \/ a = [signer |-> Signer(Secret(k), Public(k))]
                             \/ a = [blob |-> Blob(k)]
    <3>1. PICK k \in Keys : AbstractAnswer(a) = [key |-> k]
      BY <1>2, <1>3, <2>2
    <3>2. [key |-> k] \in [key : Keys]
      OBVIOUS
    <3>3. QED
      BY <3>1, <3>2
  <2>3. CASE a \in [signature : Signatures] \cup [valid : BOOLEAN]
    <3>1. a # None /\ "signer" \notin DOMAIN a /\ "blob" \notin DOMAIN a
      BY <2>3, AnswerShapes
    <3>2. QED
      BY <3>1 DEF AbstractAnswer
  <2>4. QED
    BY <2>1, <2>2, <2>3 DEF Answers
<1>8. QED
  BY <1>1, <1>2, <1>3, <1>4, <1>5, <1>6, <1>7

\* What callers see is typed: a request while a call is in progress, an
\* answer from the moment it is decided.
LEMMA SeenTypes ==
  ASSUME TypeOK, NEW g \in Goroutines
  PROVE  /\ requestBar[g] = None <=> pc[g] = "idle"
         /\ answerBar[g] = None <=> pc[g] # "free"
<1>1. None \notin Detached!Requests
  OBVIOUS
<1>2. QED
  BY <1>1, RequestsSeen, AnswersSeen DEF TypeOK, requestBar, answerBar

\* A step shows in what the caller of that goroutine sees, and nowhere else.
LEMMA SeenStep ==
  ASSUME TypeOK, NEW g \in Goroutines, Step(g)
  PROVE  /\ requestBar' = [requestBar EXCEPT ![g] = AbstractRequest(request'[g])]
         /\ answerBar' = [answerBar EXCEPT ![g] = AbstractAnswer(answer'[g])]
         /\ request'[g] = request[g] => requestBar' = requestBar
         /\ answer'[g] = answer[g] => answerBar' = answerBar
<1>1. \A h \in Goroutines \ {g} : request'[h] = request[h] /\ answer'[h] = answer[h]
  BY OthersKeep
<1>2. QED
  BY <1>1 DEF requestBar, answerBar

\* The step that decides an answer answers the request seen, given that the
\* answer is an error or a right one, and that a generated key is recorded.
LEMMA AnswerSeen ==
  ASSUME TypeOK, TypeOK', NEW g \in Goroutines, Step(g), NEW from \in Steps \ {"idle", "free"},
         NEW a, Answer(g, from, a), request' = request,
         LET r == AbstractRequest(request[g])
             b == AbstractAnswer(a)
         IN  \/ b = Detached!Failed /\ generated' = generated
             \/ /\ r.op = "Generate"
                /\ \E k \in Keys \ generated : b = [key |-> k] /\ generated' = generated \cup {k}
             \/ /\ r.op # "Generate" /\ generated' = generated
                /\ b \in Detached!RightAnswers(r)
  PROVE  /\ requestBar[g] # None /\ answerBar[g] = None
         /\ \E b \in Detached!RightAnswers(requestBar[g]) \cup {Detached!Failed} :
              /\ answerBar' = [answerBar EXCEPT ![g] = b]
              /\ generated' = IF requestBar[g].op = "Generate" /\ b # Detached!Failed
                              THEN generated \cup {b.key} ELSE generated
         /\ requestBar' = requestBar
<1>1. pc[g] = from /\ answer'[g] = a /\ pc[g] \in Steps
  BY DEF Answer, Goto, TypeOK
<1>2. requestBar[g] # None /\ answerBar[g] = None
  BY <1>1, SeenTypes
<1>3. answerBar' = [answerBar EXCEPT ![g] = AbstractAnswer(a)] /\ requestBar' = requestBar
  BY <1>1, SeenStep
<1>4. requestBar[g] = AbstractRequest(request[g])
  BY DEF requestBar
<1>5. CASE AbstractAnswer(a) = Detached!Failed /\ generated' = generated
  BY <1>2, <1>3, <1>5
<1>6. CASE /\ requestBar[g].op = "Generate"
           /\ \E k \in Keys \ generated :
                AbstractAnswer(a) = [key |-> k] /\ generated' = generated \cup {k}
  <2>1. PICK k \in Keys \ generated :
               AbstractAnswer(a) = [key |-> k] /\ generated' = generated \cup {k}
    BY <1>6
  <2>2. [key |-> k] \in Detached!RightAnswers(requestBar[g])
    BY <1>6 DEF Detached!RightAnswers
  <2>3. [key |-> k] # Detached!Failed /\ [key |-> k].key = k
    BY DEF Detached!Failed
  <2>4. QED
    BY <1>2, <1>3, <1>6, <2>1, <2>2, <2>3
<1>7. CASE /\ requestBar[g].op # "Generate" /\ generated' = generated
           /\ AbstractAnswer(a) \in Detached!RightAnswers(requestBar[g])
  BY <1>2, <1>3, <1>7
<1>8. QED
  BY <1>4, <1>5, <1>6, <1>7

\* The right answers to a request about a key, function by function.
LEMMA RightAnswersOf ==
  ASSUME NEW k \in Keys
  PROVE  /\ \A x : Detached!RightAnswers([op |-> "Sign", key |-> k, message |-> x])
                     = [signature : {Detached!Signature(k, x)}]
         /\ \A x, s : \A b \in BOOLEAN : s # None /\ (b <=> s = Detached!Signature(k, x)) =>
              [valid |-> b] \in
                Detached!RightAnswers([op |-> "VerifySignature", key |-> k, message |-> x,
                                       signature |-> s])
         /\ Detached!RightAnswers([op |-> "MarshalBinary", key |-> k]) = [key : {k}]
         /\ Detached!RightAnswers([op |-> "UnmarshalBinary", key |-> k]) = [key : {k}]
<1>1. \A x : Detached!RightAnswers([op |-> "Sign", key |-> k, message |-> x])
                = [signature : {Detached!Signature(k, x)}]
  BY DEF Detached!RightAnswers
<1>2. ASSUME NEW x, NEW s, NEW b \in BOOLEAN, s # None, b <=> s = Detached!Signature(k, x)
      PROVE  [valid |-> b] \in
               Detached!RightAnswers([op |-> "VerifySignature", key |-> k, message |-> x,
                                      signature |-> s])
  <2>1. Detached!RightAnswers([op |-> "VerifySignature", key |-> k, message |-> x,
                               signature |-> s])
          = [valid : {s = Detached!Signature(k, x)}]
    BY <1>2 DEF Detached!RightAnswers
  <2>2. [valid |-> b] \in [valid : {s = Detached!Signature(k, x)}]
    BY <1>2
  <2>3. QED
    BY <2>1, <2>2
<1>3. /\ Detached!RightAnswers([op |-> "MarshalBinary", key |-> k]) = [key : {k}]
      /\ Detached!RightAnswers([op |-> "UnmarshalBinary", key |-> k]) = [key : {k}]
  BY DEF Detached!RightAnswers
<1>4. QED
  BY <1>1, <1>2, <1>3

\* An answered request has the right answer: the signature of the Signer's
\* key, the verdict on the signature and message given, the key itself.
LEMMA RightAnswerSeen ==
  ASSUME TypeOK, CallInv, HoldInv, SizeInv, ContentInv, NEW g \in Goroutines
  PROVE  LET r == AbstractRequest(request[g])
         IN  /\ GoBytes(g) => /\ r.op # "Generate"
                              /\ AbstractAnswer([signature |-> heap[sm[g]].signature])
                                   \in Detached!RightAnswers(r)
             /\ MarshalBinary(g) =>
                  /\ r.op # "Generate"
                  /\ AbstractAnswer([blob |-> <<request[g].signer.sk, request[g].signer.pub>>])
                       \in Detached!RightAnswers(r)
             /\ UnmarshalBinary(g) =>
                  /\ r.op # "Generate"
                  /\ AbstractAnswer([signer |-> Signer(request[g].blob[1], request[g].blob[2])])
                       \in Detached!RightAnswers(r)
<1> DEFINE r == AbstractRequest(request[g])
<1>1. ASSUME GoBytes(g)
      PROVE  /\ r.op # "Generate"
             /\ AbstractAnswer([signature |-> heap[sm[g]].signature]) \in Detached!RightAnswers(r)
  <2>1. pc[g] = "GoBytes" /\ request[g] # None
    BY <1>1 DEF GoBytes, Answer, Goto, TypeOK
  <2>2. PICK k \in Keys : /\ request[g].op = "Sign" /\ request[g].message \in Messages
                          /\ request[g].signer.sk = Secret(k)
                          /\ heap[sm[g]].signature = Signature(k, request[g].message)
    BY <2>1, SignAnswer
  <2>3. r = [op |-> "Sign", key |-> k, message |-> request[g].message]
    BY <2>1, <2>2, PairKeys DEF AbstractRequest
  <2>4. AbstractAnswer([signature |-> heap[sm[g]].signature]) =
          [signature |-> Detached!Signature(k, request[g].message)]
    BY <2>2, AnswerShapes, AnswersSeen DEF Signature, Detached!Signature
  <2>5. Detached!RightAnswers([op |-> "Sign", key |-> k, message |-> request[g].message])
          = [signature : {Detached!Signature(k, request[g].message)}]
    BY RightAnswersOf
  <2>6. QED
    <3> HIDE DEF r
    <3>1. Detached!RightAnswers(r) = [signature : {Detached!Signature(k, request[g].message)}]
      BY <2>3, <2>5
    <3>2. QED
      BY <2>3, <2>4, <3>1
<1>2. ASSUME MarshalBinary(g)
      PROVE  /\ r.op # "Generate"
             /\ AbstractAnswer([blob |-> <<request[g].signer.sk, request[g].signer.pub>>])
                  \in Detached!RightAnswers(r)
  <2>1. /\ request[g] # None /\ request[g].op = "MarshalBinary" /\ WellFormed(request[g])
    BY <1>2 DEF MarshalBinary
  <2>2. PICK k \in Keys : /\ request[g].signer = Signer(Secret(k), Public(k))
                          /\ <<request[g].signer.sk, request[g].signer.pub>> = Blob(k)
    BY <2>1, MarshalAnswer
  <2>3. r = [op |-> "MarshalBinary", key |-> k]
    BY <2>1, <2>2, PairKeys DEF AbstractRequest, Signer
  <2>4. AbstractAnswer([blob |-> <<request[g].signer.sk, request[g].signer.pub>>]) = [key |-> k]
    BY <2>2, AnswersSeen
  <2>5. Detached!RightAnswers([op |-> "MarshalBinary", key |-> k]) = [key : {k}]
    BY RightAnswersOf
  <2>6. QED
    <3> HIDE DEF r
    <3>1. Detached!RightAnswers(r) = [key : {k}]
      BY <2>3, <2>5
    <3>2. QED
      BY <2>3, <2>4, <3>1
<1>3. ASSUME UnmarshalBinary(g)
      PROVE  /\ r.op # "Generate"
             /\ AbstractAnswer([signer |-> Signer(request[g].blob[1], request[g].blob[2])])
                  \in Detached!RightAnswers(r)
  <2>1. /\ request[g] # None /\ request[g].op = "UnmarshalBinary" /\ WellFormed(request[g])
    BY <1>3 DEF UnmarshalBinary
  <2>2. PICK k \in Keys : /\ request[g].blob = Blob(k)
                          /\ Signer(request[g].blob[1], request[g].blob[2])
                               = Signer(Secret(k), Public(k))
    BY <2>1, MarshalAnswer
  <2>3. r = [op |-> "UnmarshalBinary", key |-> k]
    <3>1. request[g].blob # Short /\ request[g].blob[1] = Secret(k)
          /\ request[g].blob[2] = Public(k)
      BY <2>1, <2>2 DEF WellFormed, Blob
    <3>2. QED
      BY <2>1, <3>1, PairKeys DEF AbstractRequest
  <2>4. AbstractAnswer([signer |-> Signer(request[g].blob[1], request[g].blob[2])]) = [key |-> k]
    BY <2>2, AnswersSeen
  <2>5. Detached!RightAnswers([op |-> "UnmarshalBinary", key |-> k]) = [key : {k}]
    BY RightAnswersOf
  <2>6. QED
    <3> HIDE DEF r
    <3>1. Detached!RightAnswers(r) = [key : {k}]
      BY <2>3, <2>5
    <3>2. QED
      BY <2>3, <2>4, <3>1
<1>4. QED
  BY <1>1, <1>2, <1>3

\* crypto_sign_open reads back what the call put together, so its verdict is
\* on the signature and the message the caller gave, the empty one included.
LEMMA VerdictSeen ==
  ASSUME TypeOK, CallInv, HoldInv, SizeInv, ContentInv, NEW g \in Goroutines, CryptoOpen(g)
  PROVE  LET r == AbstractRequest(request[g])
         IN  /\ r.op # "Generate"
             /\ \E b \in BOOLEAN : /\ Answer(g, "crypto_sign_open", [valid |-> b])
                                   /\ AbstractAnswer([valid |-> b]) \in Detached!RightAnswers(r)
<1> DEFINE r == AbstractRequest(request[g])
           recovered == MessageIn(heap[sm[g]], SmLen(g))
           valid == heap[sm[g]].signature = Signature(request[g].pub[2], recovered)
<1>1. pc[g] = "crypto_sign_open" /\ request[g] # None
  BY DEF CryptoOpen, Answer, Goto, TypeOK
<1>2. /\ request[g] \in VerifyRequests /\ WellFormed(request[g])
      /\ request[g] \in Requests(Keys) /\ request[g].op = "VerifySignature"
  BY <1>1 DEF CallInv, Steps, VerifyRequests, Requests
<1>3. PICK k \in Keys : request[g].pub = Public(k)
  BY <1>2, WellFormedShapes
<1>4. request[g].signature \in Signatures /\ request[g].signature # None
  BY <1>2, WellFormedShapes
<1>5. recovered = request[g].message
  <2>1. Len(request[g].message) > 0 => heap[sm[g]].message = request[g].message
    BY <1>1 DEF ContentInv
  <2>2. QED
    BY <1>2, <2>1, Sizes DEF MessageIn, SignatureSize
<1>6. r = [op |-> "VerifySignature", key |-> k, message |-> request[g].message,
           signature |-> request[g].signature]
  BY <1>1, <1>2, <1>3, PairKeys DEF AbstractRequest
<1>7. valid = (request[g].signature = Detached!Signature(k, request[g].message))
  <2>1. heap[sm[g]].signature = request[g].signature
    BY <1>1 DEF ContentInv
  <2>2. request[g].pub[2] = k
    BY <1>3 DEF Public
  <2>3. QED
    BY <1>5, <2>1, <2>2 DEF Signature, Detached!Signature
<1>8. AbstractAnswer([valid |-> valid]) = [valid |-> valid]
  BY AnswersSeen
<1>9. [valid |-> valid] \in Detached!RightAnswers(r)
  <2>1. PICK b \in BOOLEAN : b <=> valid
    OBVIOUS
  <2>2. [valid |-> b] \in
          Detached!RightAnswers([op |-> "VerifySignature", key |-> k,
             message |-> request[g].message, signature |-> request[g].signature])
    BY <1>4, <1>7, <2>1, RightAnswersOf
  <2>3. [valid |-> b] \in Detached!RightAnswers(r)
    <3> HIDE DEF r
    <3>1. QED
      BY <1>6, <2>2
  <2>4. b = valid
    BY <2>1
  <2>5. QED
    BY <2>3, <2>4
<1>10. Answer(g, "crypto_sign_open", [valid |-> valid]) /\ valid \in BOOLEAN
  BY DEF CryptoOpen
<1>11. r.op # "Generate"
  BY <1>6
<1>12. QED
  <2> HIDE DEF r, valid
  <2>1. \E b \in BOOLEAN : /\ Answer(g, "crypto_sign_open", [valid |-> b])
                           /\ AbstractAnswer([valid |-> b]) \in Detached!RightAnswers(r)
    BY <1>8, <1>9, <1>10
  <2>2. QED
    BY <1>11, <2>1 DEF r

\* Every behaviour of the adapter is one of the abstract service: a call that
\* begins is a request asked, the step that decides its answer answers it,
\* its return returns, and every other step is invisible to callers.
THEOREM Refinement == Spec => ImplementsDetachedSignatures
<1>1. Init => Detached!Init
  BY RequestsSeen, AnswersSeen DEF Init, Detached!Init
<1>2. IInv /\ IInv' /\ [Next]_vars => [Detached!Next]_(Detached!vars)
  <2> SUFFICES ASSUME IInv, IInv', [Next]_vars
               PROVE  [Detached!Next]_<<generated, requestBar, answerBar>>
    BY DEF requestBar, answerBar, Detached!vars
  <2>1. CASE UNCHANGED vars
    BY <2>1 DEF vars, requestBar, answerBar
  <2> SUFFICES ASSUME NEW g \in Goroutines, Step(g)
               PROVE  \/ Detached!Ask(g) \/ Detached!Answer(g) \/ Detached!Return(g)
                      \/ generated' = generated /\ requestBar' = requestBar /\ answerBar' = answerBar
    BY <2>1, NextSteps DEF Detached!Next
  <2> DEFINE Answered ==
        /\ requestBar[g] # None /\ answerBar[g] = None
        /\ \E b \in Detached!RightAnswers(requestBar[g]) \cup {Detached!Failed} :
             /\ answerBar' = [answerBar EXCEPT ![g] = b]
             /\ generated' = IF requestBar[g].op = "Generate" /\ b # Detached!Failed
                             THEN generated \cup {b.key} ELSE generated
        /\ requestBar' = requestBar
  <2>2. Answered => Detached!Answer(g)
    BY DEF Detached!Answer, requestBar, answerBar
  <2>3. TypeOK /\ TypeOK' /\ CallInv /\ HoldInv /\ SizeInv /\ ContentInv
    BY DEF IInv
  <2>4. ASSUME NEW r \in Requests(generated), Begin(g, r)
        PROVE  Detached!Ask(g)
    <3>1. r \in Requests(Keys) /\ request'[g] = r /\ answer'[g] = answer[g] /\ pc[g] = "idle"
      BY <2>3, <2>4, RequestsGrow DEF Begin, Goto, TypeOK
    <3>2. requestBar[g] = None /\ AbstractRequest(r) \in Detached!Requests
      BY <2>3, <3>1, SeenTypes, RequestsSeen
    <3>3. /\ requestBar' = [requestBar EXCEPT ![g] = AbstractRequest(r)]
          /\ answerBar' = answerBar /\ generated' = generated
      BY <2>3, <2>4, <3>1, SeenStep DEF Begin
    <3>4. QED
      BY <3>2, <3>3 DEF Detached!Ask, requestBar, answerBar
  <2>5. CASE Reject(g) \/ MallocSmFails(g) \/ MallocMFails(g) \/ CryptoSignFails(g) \/ KeyPairFails(g)
    <3>1. PICK from \in Steps \ {"idle", "free"} : Answer(g, from, Error)
      BY <2>5 DEF Reject, MallocSmFails, MallocMFails, CryptoSignFails, KeyPairFails, Steps
    <3>2. request' = request /\ generated' = generated
      BY <2>5 DEF Reject, MallocSmFails, MallocMFails, CryptoSignFails, KeyPairFails
    <3>3. Answered
      BY <2>3, <3>1, <3>2, AnswersSeen, AnswerSeen
    <3>4. QED
      BY <2>2, <3>3
  <2>6. CASE GoBytes(g)
    <3>1. /\ Answer(g, "GoBytes", [signature |-> heap[sm[g]].signature])
          /\ request' = request /\ generated' = generated
      BY <2>6 DEF GoBytes
    <3>2. "GoBytes" \in Steps \ {"idle", "free"}
      BY DEF Steps
    <3>3. Answered
      BY <2>3, <2>6, <3>1, <3>2, RightAnswerSeen, AnswerSeen
    <3>4. QED
      BY <2>2, <3>3
  <2>7. CASE MarshalBinary(g)
    <3>1. /\ Answer(g, "check", [blob |-> <<request[g].signer.sk, request[g].signer.pub>>])
          /\ request' = request /\ generated' = generated
      BY <2>7 DEF MarshalBinary
    <3>2. "check" \in Steps \ {"idle", "free"}
      BY DEF Steps
    <3>3. Answered
      BY <2>3, <2>7, <3>1, <3>2, RightAnswerSeen, AnswerSeen
    <3>4. QED
      BY <2>2, <3>3
  <2>8. CASE UnmarshalBinary(g)
    <3>1. /\ Answer(g, "check", [signer |-> Signer(request[g].blob[1], request[g].blob[2])])
          /\ request' = request /\ generated' = generated
      BY <2>8 DEF UnmarshalBinary
    <3>2. "check" \in Steps \ {"idle", "free"}
      BY DEF Steps
    <3>3. Answered
      BY <2>3, <2>8, <3>1, <3>2, RightAnswerSeen, AnswerSeen
    <3>4. QED
      BY <2>2, <3>3
  <2>9. CASE CryptoOpen(g)
    <3>1. request' = request /\ generated' = generated
      BY <2>9 DEF CryptoOpen
    <3>2. "crypto_sign_open" \in Steps \ {"idle", "free"}
      BY DEF Steps
    <3>3. AbstractRequest(request[g]).op # "Generate"
      BY <2>3, <2>9, VerdictSeen
    <3>4. PICK b \in BOOLEAN :
            /\ Answer(g, "crypto_sign_open", [valid |-> b])
            /\ AbstractAnswer([valid |-> b]) \in Detached!RightAnswers(AbstractRequest(request[g]))
      BY <2>3, <2>9, VerdictSeen
    <3>5. Answered
      BY <2>3, <3>1, <3>2, <3>3, <3>4, AnswerSeen
    <3>6. QED
      BY <2>2, <3>5
  <2>10. ASSUME NEW k \in Keys, KeyPair(g, k)
         PROVE  Detached!Answer(g)
    <3>1. /\ Answer(g, "keypair", [signer |-> Signer(Secret(k), Public(k))])
          /\ request' = request /\ generated' = generated \cup {k} /\ k \in Keys \ generated
      BY <2>10 DEF KeyPair
    <3>2. "keypair" \in Steps \ {"idle", "free"}
      BY DEF Steps
    <3>3. AbstractRequest(request[g]).op = "Generate"
      BY <2>3, <3>1 DEF CallInv, Answer, Goto, AbstractRequest, TypeOK
    <3>4. AbstractAnswer([signer |-> Signer(Secret(k), Public(k))]) = [key |-> k]
      BY AnswersSeen
    <3>5. Answered
      BY <2>3, <3>1, <3>2, <3>3, <3>4, AnswerSeen
    <3>6. QED
      BY <2>2, <3>5
  <2>11. CASE Return(g)
    <3>1. /\ pc[g] = "free" /\ request'[g] = None /\ answer'[g] = None
          /\ generated' = generated
      BY <2>3, <2>11 DEF Return, Goto, TypeOK
    <3>2. answerBar[g] # None
      BY <2>3, <3>1, SeenTypes
    <3>3. /\ requestBar' = [requestBar EXCEPT ![g] = None]
          /\ answerBar' = [answerBar EXCEPT ![g] = None]
      BY <2>3, <3>1, SeenStep, RequestsSeen, AnswersSeen
    <3>4. QED
      BY <3>1, <3>2, <3>3 DEF Detached!Return, requestBar, answerBar
  <2>12. CASE \/ Accept(g) \/ FreeM(g) \/ FreeSm(g)
              \/ \E b \in Blocks : MallocSm(g, b) \/ MallocM(g, b)
              \/ CryptoSign(g) \/ CopySignature(g) \/ CopyMessage(g)
    <3>1. request' = request /\ answer' = answer /\ generated' = generated
      BY <2>12 DEF Accept, FreeM, FreeSm, MallocSm, MallocM, CryptoSign, CopySignature, CopyMessage
    <3>2. QED
      BY <3>1 DEF requestBar, answerBar
  <2>13. QED
    BY <2>4, <2>5, <2>6, <2>7, <2>8, <2>9, <2>10, <2>11, <2>12
       DEF Step, CallStep, MallocStep, FillStep, GoStep, FreeStep
<1>3. QED
  BY <1>1, <1>2, Invariance, PTL DEF Spec, ImplementsDetachedSignatures, Detached!Spec
=============================================================================
