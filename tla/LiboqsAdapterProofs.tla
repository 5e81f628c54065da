------------------------ MODULE LiboqsAdapterProofs ------------------------
(***************************************************************************)
(* Proofs about LiboqsAdapter, for every set of goroutines and any number  *)
(* of Signers: its type invariant, that handles are released, that no      *)
(* call's Clean reaches a key that is in use, that signatures and blobs    *)
(* hold the right key, that Sign and Generate leave none behind, and that  *)
(* a Signer stays what it was made.                                        *)
(***************************************************************************)
EXTENDS LiboqsAdapter, FiniteSetTheorems, TLAPS

-----------------------------------------------------------------------------
(* The inductive invariant: who owns which slice.                          *)

\* The function a goroutine called fits the step it is at.
OpInv ==
  \A g \in Goroutines :
    /\ pc[g] \in {"init", "sign"} => op[g] = "Sign"
    /\ pc[g] = "append" => op[g] = "MarshalBinary"
    /\ pc[g] \in {"keypair", "export"} => op[g] = "Generate"
    /\ pc[g] = "restore" => op[g] = "UnmarshalBinary"
    /\ pc[g] = "verify" => op[g] = "VerifySignature"
    /\ pc[g] = "clean" => op[g] # "MarshalBinary"

\* A handle with a key holds the slice its own call made, no Signer's.
HandleInv ==
  \A g \in Goroutines :
    /\ pc[g] \in {"idle", "init", "append"} => handle[g] = Closed
    /\ pc[g] \in {"keypair", "restore", "verify"} => handle[g] = Keyless
    /\ pc[g] \in {"sign", "export"} => handle[g] = Temp(g)
    /\ pc[g] = "clean" =>
         handle[g] = IF op[g] \in {"Sign", "Generate"} THEN Temp(g) ELSE Keyless

\* A call that uses a Signer has copied that Signer's secret key.
UsesInv ==
  \A g \in Goroutines :
    pc[g] \in {"init", "sign", "append"} =>
      arg[g] \in made /\ mem[Temp(g)] = signers[arg[g]].pair

\* A call that makes a Signer.
Makes(g) == pc[g] # "idle" /\ op[g] \in {"Generate", "UnmarshalBinary"}

\* It has the Signer's id to itself, fills it in once, and Generate has both
\* halves of one pair before it does.
MakesInv ==
  /\ \A g \in Goroutines :
       Makes(g) =>
         /\ arg[g] \in SignerIds
         /\ signers[arg[g]] # NoSigner => pc[g] = "clean"
         /\ pc[g] = "clean" /\ ret[g] = "ok" => signers[arg[g]] # NoSigner
         /\ pc[g] = "export" => /\ mem[Temp(g)] \in SignerIds
                                /\ mem[PublicOf(arg[g])] = mem[Temp(g)]
  /\ \A g, h \in Goroutines : Makes(g) /\ Makes(h) /\ g # h => arg[g] # arg[h]

\* A Signer's slices are its own and hold its pair, but for what a caller
\* writes to the public one.
SignersInv ==
  \A s \in SignerIds :
    signers[s] # NoSigner =>
      /\ signers[s].sk = SecretOf(s) /\ signers[s].pub = PublicOf(s)
      /\ mem[SecretOf(s)] = signers[s].pair
      /\ mem[PublicOf(s)] \in {signers[s].pair, Scribble}

\* Signatures were made by Signers that are there, with their key.
SignaturesInv ==
  \A x \in signatures : signers[x.signer] # NoSigner /\ x.by = signers[x.signer].pair

\* liboqs has generated no more pairs than there are ids taken for them.
Taken == {s \in SignerIds : \/ signers[s] # NoSigner
                            \/ \E g \in Goroutines : pc[g] = "export" /\ arg[g] = s}
PairsInv == pairs <= Cardinality(Taken)

IInv ==
  /\ TypeOK /\ OpInv /\ HandleInv /\ UsesInv /\ MakesInv
  /\ SignersInv /\ SignaturesInv /\ BlobsRestorePairs /\ PairsInv

-----------------------------------------------------------------------------
(* The steps of one goroutine, and what they leave alone.                  *)

USE MaxSignersAssumption

BeginStep(g) ==
  \/ \E s \in SignerIds :
       CopyKey(g, s) \/ BeginGenerate(g, s) \/ BeginUnmarshal(g, s) \/ MarshalSecret(g, s)
  \/ \E f \in {"Generate", "VerifySignature", "UnmarshalBinary"} : InitKeylessFails(g, f)
  \/ BeginVerify(g)

SignStep(g) ==
  InitWithKey(g) \/ InitWithKeyFails(g) \/ SignMessage(g) \/ SignMessageFails(g)

MakeStep(g) ==
  \/ KeyPair(g) \/ KeyPairFails(g) \/ Export(g)
  \/ \E b \in blobs : Restore(g, b)
  \/ RestoreFails(g)

OtherStep(g) ==
  \/ \E r \in {"ok", "ErrSig", "error"} : Verify(g, r)
  \/ MarshalPublic(g) \/ Clean(g)

Step(g) == BeginStep(g) \/ SignStep(g) \/ MakeStep(g) \/ OtherStep(g)

\* Next is the steps of the goroutines and the callers' writes.
LEMMA NextSteps ==
  ASSUME Next
  PROVE  \/ \E g \in Goroutines : Step(g)
         \/ \E s \in SignerIds : WriteToPublic(s)
BY DEF Next, Step, BeginStep, SignStep, MakeStep, OtherStep

\* No slice is two things.
LEMMA SlicesApart ==
  /\ \A s, t : SecretOf(s) # PublicOf(t) /\ SecretOf(s) # Temp(t) /\ PublicOf(s) # Temp(t)
  /\ \A s, t : s # t => /\ SecretOf(s) # SecretOf(t)
                        /\ PublicOf(s) # PublicOf(t) /\ Temp(s) # Temp(t)
  /\ \A s : /\ Closed \notin {SecretOf(s), PublicOf(s), Temp(s), Keyless}
            /\ Keyless \notin {SecretOf(s), PublicOf(s), Temp(s)}
  /\ \A s \in SignerIds : SecretOf(s) \in Slices /\ PublicOf(s) \in Slices
  /\ \A g \in Goroutines : Temp(g) \in Slices
  /\ Keyless \notin Slices /\ Closed \notin Slices
BY DEF SecretOf, PublicOf, Temp, Closed, Keyless, Slices

\* The domains of the state.
Domains ==
  /\ DOMAIN pc = Goroutines /\ DOMAIN op = Goroutines /\ DOMAIN ret = Goroutines
  /\ DOMAIN arg = Goroutines /\ DOMAIN handle = Goroutines
  /\ DOMAIN mem = Slices /\ DOMAIN signers = SignerIds

\* What the step lemmas need of the types to apply EXCEPT.
LEMMA TypeGivesDomains == TypeOK => Domains
BY DEF TypeOK, Domains

\* A step leaves the other goroutines' state and slices alone.
LEMMA OthersKeep ==
  ASSUME TypeOK, HandleInv, MakesInv, OpInv, NEW g \in Goroutines, Step(g),
         NEW h \in Goroutines \ {g}
  PROVE  /\ pc'[h] = pc[h] /\ op'[h] = op[h] /\ ret'[h] = ret[h]
         /\ arg'[h] = arg[h] /\ handle'[h] = handle[h]
         /\ mem'[Temp(h)] = mem[Temp(h)]
<1>0. Domains
  BY TypeGivesDomains
<1> USE <1>0, SlicesApart DEF Domains, Goto, Result, Call
<1>1. CASE BeginStep(g)
  BY <1>1 DEF BeginStep, CopyKey, BeginGenerate, BeginUnmarshal, MarshalSecret,
              InitKeylessFails, BeginVerify, InitKeyless
<1>2. CASE SignStep(g)
  BY <1>2 DEF SignStep, InitWithKey, InitWithKeyFails, SignMessage, SignMessageFails
<1>3. CASE MakeStep(g)
  BY <1>3 DEF MakeStep, KeyPair, KeyPairFails, Export, Restore, RestoreFails
<1>4. CASE OtherStep(g)
  BY <1>4 DEF OtherStep, Verify, MarshalPublic, Clean, HandleInv
<1>5. QED
  BY <1>1, <1>2, <1>3, <1>4 DEF Step

\* A step writes to no Signer's slices but those of the one it is making,
\* and changes no Signer that is there.
LEMMA SignersKeep ==
  ASSUME TypeOK, HandleInv, MakesInv, OpInv, NEW g \in Goroutines, Step(g),
         NEW s \in SignerIds, Makes(g) => s # arg[g] \/ pc[g] = "clean"
  PROVE  /\ signers'[s] = signers[s]
         /\ mem'[SecretOf(s)] = mem[SecretOf(s)]
         /\ mem'[PublicOf(s)] = mem[PublicOf(s)]
<1>0. Domains
  BY TypeGivesDomains
<1> USE <1>0, SlicesApart DEF Domains, Goto, Result, Call
<1>1. CASE BeginStep(g)
  BY <1>1 DEF BeginStep, CopyKey, BeginGenerate, BeginUnmarshal, MarshalSecret,
              InitKeylessFails, BeginVerify, InitKeyless
<1>2. CASE SignStep(g)
  BY <1>2 DEF SignStep, InitWithKey, InitWithKeyFails, SignMessage, SignMessageFails
<1>3. CASE MakeStep(g)
  <2>1. s # arg[g]
    BY <1>3 DEF MakeStep, KeyPair, KeyPairFails, Export, Restore, RestoreFails, Makes, OpInv
  <2>2. QED
    BY <1>3, <2>1 DEF MakeStep, KeyPair, KeyPairFails, Export, Restore, RestoreFails
<1>4. CASE OtherStep(g)
  BY <1>4 DEF OtherStep, Verify, MarshalPublic, Clean, HandleInv
<1>5. QED
  BY <1>1, <1>2, <1>3, <1>4 DEF Step

\* A caller's write changes one public slice, of a Signer that is there.
LEMMA WriteKeeps ==
  ASSUME TypeOK, SignersInv, NEW s \in SignerIds, WriteToPublic(s)
  PROVE  /\ s \in made /\ signers[s] # NoSigner
         /\ mem' = [mem EXCEPT ![PublicOf(s)] = Scribble]
         /\ \A g : mem'[Temp(g)] = mem[Temp(g)]
         /\ \A t \in SignerIds : mem'[SecretOf(t)] = mem[SecretOf(t)]
         /\ \A t \in SignerIds \ {s} : mem'[PublicOf(t)] = mem[PublicOf(t)]
         /\ mem'[PublicOf(s)] = Scribble
<1>1. s \in made /\ signers[s] # NoSigner /\ signers[s].pub = PublicOf(s)
  BY DEF WriteToPublic, TypeOK, SignersInv
<1>2. mem' = [mem EXCEPT ![PublicOf(s)] = Scribble]
  BY <1>1 DEF WriteToPublic
<1>3. PublicOf(s) \in DOMAIN mem
  BY SlicesApart DEF TypeOK
<1>4. QED
  BY <1>1, <1>2, <1>3, SlicesApart

-----------------------------------------------------------------------------
(* The invariant is preserved, conjunct by conjunct.                       *)

\* Calls keep to their function's steps.
LEMMA OpStep ==
  ASSUME TypeOK, OpInv, HandleInv, MakesInv, NEW g \in Goroutines, Step(g)
  PROVE  OpInv'
<1>0. Domains
  BY TypeGivesDomains
<1>1. ASSUME NEW h \in Goroutines \ {g}
      PROVE  pc'[h] = pc[h] /\ op'[h] = op[h]
  BY <1>1, OthersKeep
<1> USE <1>0, <1>1 DEF Domains, Goto, Call, OpInv
<1>2. CASE BeginStep(g)
  BY <1>2 DEF BeginStep, CopyKey, BeginGenerate, BeginUnmarshal, MarshalSecret,
              InitKeylessFails, BeginVerify, InitKeyless
<1>3. CASE SignStep(g)
  BY <1>3 DEF SignStep, InitWithKey, InitWithKeyFails, SignMessage, SignMessageFails
<1>4. CASE MakeStep(g)
  BY <1>4 DEF MakeStep, KeyPair, KeyPairFails, Export, Restore, RestoreFails
<1>5. CASE OtherStep(g)
  BY <1>5 DEF OtherStep, Verify, MarshalPublic, Clean
<1>6. QED
  BY <1>2, <1>3, <1>4, <1>5 DEF Step

\* A handle's key slice stays its call's own, and goes when the call does.
LEMMA HandleStep ==
  ASSUME TypeOK, OpInv, HandleInv, MakesInv, NEW g \in Goroutines, Step(g)
  PROVE  HandleInv'
<1>0. Domains
  BY TypeGivesDomains
<1>1. ASSUME NEW h \in Goroutines \ {g}
      PROVE  pc'[h] = pc[h] /\ op'[h] = op[h] /\ handle'[h] = handle[h]
  BY <1>1, OthersKeep
<1> USE <1>0, <1>1 DEF Domains, Goto, Call, OpInv, HandleInv
<1>2. CASE BeginStep(g)
  BY <1>2 DEF BeginStep, CopyKey, BeginGenerate, BeginUnmarshal, MarshalSecret,
              InitKeylessFails, BeginVerify, InitKeyless
<1>3. CASE SignStep(g)
  BY <1>3 DEF SignStep, InitWithKey, InitWithKeyFails, SignMessage, SignMessageFails
<1>4. CASE MakeStep(g)
  BY <1>4 DEF MakeStep, KeyPair, KeyPairFails, Export, Restore, RestoreFails
<1>5. CASE OtherStep(g)
  BY <1>5 DEF OtherStep, Verify, MarshalPublic, Clean
<1>6. QED
  BY <1>2, <1>3, <1>4, <1>5 DEF Step

\* Signers that callers have are there, and stay.
LEMMA MadeStep ==
  ASSUME TypeOK, OpInv, HandleInv, MakesInv, NEW g \in Goroutines, Step(g)
  PROVE  /\ made \subseteq made'
         /\ \A s \in made : signers[s] # NoSigner
         /\ \A s \in SignerIds : signers[s] # NoSigner =>
              /\ signers'[s] = signers[s]
              /\ mem'[SecretOf(s)] = mem[SecretOf(s)]
              /\ mem'[PublicOf(s)] = mem[PublicOf(s)]
<1>1. made \subseteq made'
  <2>1. CASE BeginStep(g)
    BY <2>1 DEF BeginStep, CopyKey, BeginGenerate, BeginUnmarshal, MarshalSecret,
                InitKeylessFails, BeginVerify, InitKeyless
  <2>2. CASE SignStep(g)
    BY <2>2 DEF SignStep, InitWithKey, InitWithKeyFails, SignMessage, SignMessageFails
  <2>3. CASE MakeStep(g)
    BY <2>3 DEF MakeStep, KeyPair, KeyPairFails, Export, Restore, RestoreFails
  <2>4. CASE OtherStep(g)
    BY <2>4 DEF OtherStep, Verify, MarshalPublic, Clean
  <2>5. QED
    BY <2>1, <2>2, <2>3, <2>4 DEF Step
<1>2. \A s \in made : signers[s] # NoSigner
  BY DEF TypeOK
<1>3. \A s \in SignerIds : signers[s] # NoSigner => (Makes(g) => s # arg[g] \/ pc[g] = "clean")
  BY DEF MakesInv
<1>4. QED
  BY <1>1, <1>2, <1>3, SignersKeep

\* A call's copy of a key stays what it copied.
LEMMA UsesStep ==
  ASSUME TypeOK, OpInv, HandleInv, UsesInv, MakesInv, SignersInv,
         NEW g \in Goroutines, Step(g)
  PROVE  UsesInv'
<1>0. Domains /\ made \subseteq SignerIds
  BY TypeGivesDomains DEF TypeOK
<1>1. ASSUME NEW h \in Goroutines \ {g}, pc'[h] \in {"init", "sign", "append"}
      PROVE  arg'[h] \in made' /\ mem'[Temp(h)] = signers'[arg'[h]].pair
  BY <1>0, <1>1, OthersKeep, MadeStep DEF UsesInv
<1>2. ASSUME pc'[g] \in {"init", "sign", "append"}
      PROVE  arg'[g] \in made' /\ mem'[Temp(g)] = signers'[arg'[g]].pair
  <2>1. CASE \E s \in SignerIds : CopyKey(g, s) \/ MarshalSecret(g, s)
    <3>1. PICK s \in SignerIds : CopyKey(g, s) \/ MarshalSecret(g, s)
      BY <2>1
    <3>2. /\ s \in made /\ made' = made /\ signers' = signers /\ arg'[g] = s
          /\ mem'[Temp(g)] = mem[signers[s].sk]
      BY <1>0, <3>1, SlicesApart DEF CopyKey, MarshalSecret, Call, Domains
    <3>3. mem[signers[s].sk] = signers[s].pair
      BY <3>2, MadeStep DEF SignersInv
    <3>4. QED
      BY <3>2, <3>3
  <2>2. CASE InitWithKey(g)
    BY <1>0, <2>2 DEF InitWithKey, UsesInv
  <2>3. CASE \/ \E s \in SignerIds : BeginGenerate(g, s) \/ BeginUnmarshal(g, s)
             \/ \E f \in {"Generate", "VerifySignature", "UnmarshalBinary"} : InitKeylessFails(g, f)
             \/ BeginVerify(g)
    BY <1>0, <1>2, <2>3 DEF BeginGenerate, BeginUnmarshal, BeginVerify, InitKeyless,
                            InitKeylessFails, Call, Goto, Domains
  <2>4. CASE InitWithKeyFails(g) \/ SignMessage(g) \/ SignMessageFails(g)
    BY <1>0, <1>2, <2>4 DEF InitWithKeyFails, SignMessage, SignMessageFails, Goto, Domains
  <2>5. CASE MakeStep(g)
    BY <1>0, <1>2, <2>5 DEF MakeStep, KeyPair, KeyPairFails, Export, Restore, RestoreFails,
                            Goto, Domains
  <2>6. CASE OtherStep(g)
    BY <1>0, <1>2, <2>6 DEF OtherStep, Verify, MarshalPublic, Clean, Goto, Domains
  <2>7. QED
    BY <2>1, <2>2, <2>3, <2>4, <2>5, <2>6 DEF Step, BeginStep, SignStep
<1>3. QED
  BY <1>1, <1>2 DEF UsesInv

\* The Signer ids of calls that make Signers stay apart, and unused till then.
LEMMA MakesStep ==
  ASSUME TypeOK, OpInv, HandleInv, UsesInv, MakesInv, SignersInv, PairsInv, TypeOK',
         NEW g \in Goroutines, Step(g)
  PROVE  MakesInv'
<1> DEFINE At(h) == /\ arg[h] \in SignerIds
                    /\ signers[arg[h]] # NoSigner => pc[h] = "clean"
                    /\ pc[h] = "clean" /\ ret[h] = "ok" => signers[arg[h]] # NoSigner
                    /\ pc[h] = "export" => /\ mem[Temp(h)] \in SignerIds
                                           /\ mem[PublicOf(arg[h])] = mem[Temp(h)]
<1>0. Domains
  BY TypeGivesDomains
<1>1. ASSUME NEW h \in Goroutines \ {g}
      PROVE  /\ Makes(h)' <=> Makes(h)
             /\ arg'[h] = arg[h]
             /\ Makes(h) => At(h)'
  <2>1. /\ pc'[h] = pc[h] /\ op'[h] = op[h] /\ ret'[h] = ret[h]
        /\ arg'[h] = arg[h] /\ mem'[Temp(h)] = mem[Temp(h)]
    BY <1>1, OthersKeep
  <2>2. ASSUME Makes(h)
        PROVE  At(h)'
    <3>1. At(h) /\ (Makes(g) => arg[h] # arg[g])
      BY <2>2 DEF MakesInv
    <3>2. /\ signers'[arg[h]] = signers[arg[h]]
          /\ mem'[PublicOf(arg[h])] = mem[PublicOf(arg[h])]
      BY <3>1, SignersKeep
    <3>3. QED
      BY <2>1, <3>1, <3>2
  <2>3. QED
    BY <2>1, <2>2 DEF Makes
<1>2. ASSUME Makes(g)'
      PROVE  /\ At(g)'
             /\ \A h \in Goroutines \ {g} : Makes(h) => arg[h] # arg'[g]
  <2> USE <1>0, SlicesApart DEF Domains, Goto, Result, Call
  <2>1. CASE \E s \in SignerIds : BeginGenerate(g, s) \/ BeginUnmarshal(g, s)
    <3>1. PICK s \in SignerIds : BeginGenerate(g, s) \/ BeginUnmarshal(g, s)
      BY <2>1
    <3>2. /\ arg'[g] = s /\ pc'[g] \in {"keypair", "restore"}
          /\ signers' = signers /\ Free(s)
      BY <3>1 DEF BeginGenerate, BeginUnmarshal, InitKeyless
    <3>3. \A h \in Goroutines : Makes(h) => arg[h] # s
      BY <3>2 DEF Free, Reserved, Makes
    <3>4. QED
      BY <3>2, <3>3 DEF Free
  <2>2. CASE KeyPair(g)
    <3>1. /\ Makes(g) /\ At(g) /\ arg' = arg /\ signers' = signers /\ pc'[g] = "export"
          /\ mem'[Temp(g)] = pairs + 1 /\ mem'[PublicOf(arg[g])] = pairs + 1
          /\ pc[g] # "clean"
      BY <2>2 DEF KeyPair, MakesInv, Makes, OpInv
    <3>2. pairs + 1 \in SignerIds
      BY <2>2 DEF KeyPair, TypeOK, SignerIds
    <3>3. QED
      BY <3>1, <3>2 DEF MakesInv
  <2>3. CASE KeyPairFails(g) \/ RestoreFails(g)
    BY <2>3 DEF KeyPairFails, RestoreFails, MakesInv, Makes, OpInv
  <2>4. CASE Export(g) \/ \E b \in blobs : Restore(g, b)
    <3>1. /\ Makes(g) /\ arg' = arg /\ pc'[g] = "clean"
          /\ signers'[arg[g]] # NoSigner
      <4>1. Makes(g) /\ arg[g] \in SignerIds
        BY <2>4 DEF Export, Restore, MakesInv, Makes, OpInv
      <4>2. signers'[arg[g]].sk = SecretOf(arg[g])
        BY <2>4, <4>1 DEF Export, Restore
      <4>3. QED
        BY <2>4, <4>1, <4>2 DEF Export, Restore, NoSigner
    <3>2. QED
      BY <3>1 DEF MakesInv
  <2>5. CASE \/ \E s \in SignerIds : CopyKey(g, s) \/ MarshalSecret(g, s)
             \/ \E f \in {"Generate", "VerifySignature", "UnmarshalBinary"} : InitKeylessFails(g, f)
             \/ BeginVerify(g)
    BY <1>2, <2>5 DEF CopyKey, MarshalSecret, InitKeylessFails, BeginVerify, InitKeyless, Makes
  <2>6. CASE SignStep(g)
    BY <1>2, <2>6 DEF SignStep, InitWithKey, InitWithKeyFails, SignMessage, SignMessageFails,
                      Makes, OpInv
  <2>7. CASE OtherStep(g)
    BY <1>2, <2>7 DEF OtherStep, Verify, MarshalPublic, Clean, Makes, OpInv
  <2>8. QED
    BY <2>1, <2>2, <2>3, <2>4, <2>5, <2>6, <2>7 DEF Step, BeginStep, MakeStep
<1>3. QED
  BY <1>1, <1>2 DEF MakesInv

\* A Signer that appears has its halves of one pair, and keeps them.
LEMMA SignersStep ==
  ASSUME TypeOK, OpInv, HandleInv, MakesInv, SignersInv, BlobsRestorePairs,
         NEW g \in Goroutines, Step(g)
  PROVE  SignersInv'
<1>0. Domains
  BY TypeGivesDomains
<1> SUFFICES ASSUME NEW s \in SignerIds, signers'[s] # NoSigner
             PROVE  /\ signers'[s].sk = SecretOf(s) /\ signers'[s].pub = PublicOf(s)
                    /\ mem'[SecretOf(s)] = signers'[s].pair
                    /\ mem'[PublicOf(s)] \in {signers'[s].pair, Scribble}
  BY DEF SignersInv
<1>1. CASE signers[s] # NoSigner
  BY <1>1, MadeStep DEF SignersInv
<1>2. CASE signers[s] = NoSigner
  <2>1. s = arg[g] /\ Makes(g) /\ pc[g] # "clean"
    BY <1>2, SignersKeep
  <2> USE <1>0, SlicesApart, <2>1 DEF Domains
  <2>2. CASE Export(g)
    <3>1. /\ handle[g] = Temp(g)
          /\ mem[PublicOf(s)] = mem[Temp(g)]
      BY <2>2 DEF Export, HandleInv, MakesInv
    <3>2. QED
      BY <2>2, <3>1 DEF Export
  <2>3. CASE \E b \in blobs : Restore(g, b)
    BY <2>3 DEF Restore, BlobsRestorePairs
  <2>4. CASE KeyPair(g) \/ KeyPairFails(g) \/ RestoreFails(g)
    BY <1>2, <2>4 DEF KeyPair, KeyPairFails, RestoreFails
  <2>5. CASE BeginStep(g)
    BY <1>2, <2>5 DEF BeginStep, CopyKey, BeginGenerate, BeginUnmarshal, MarshalSecret,
                      InitKeylessFails, BeginVerify, InitKeyless
  <2>6. CASE SignStep(g)
    BY <1>2, <2>6 DEF SignStep, InitWithKey, InitWithKeyFails, SignMessage, SignMessageFails
  <2>7. CASE OtherStep(g)
    BY <1>2, <2>7 DEF OtherStep, Verify, MarshalPublic, Clean
  <2>8. QED
    BY <2>2, <2>3, <2>4, <2>5, <2>6, <2>7 DEF Step, MakeStep
<1>3. QED
  BY <1>1, <1>2

\* liboqs signs with the copy of the key of the Signer that was asked.
LEMMA SignaturesStep ==
  ASSUME TypeOK, OpInv, HandleInv, UsesInv, MakesInv, SignaturesInv,
         NEW g \in Goroutines, Step(g)
  PROVE  SignaturesInv'
<1>1. CASE signatures' = signatures
  <2>1. \A x \in signatures : x.signer \in SignerIds
    BY DEF TypeOK
  <2>2. QED
    BY <1>1, <2>1, MadeStep DEF SignaturesInv
<1>2. CASE SignMessage(g)
  <2>1. /\ handle[g] = Temp(g) /\ arg[g] \in made
        /\ mem[Temp(g)] = signers[arg[g]].pair
        /\ signers' = signers
        /\ signatures' = signatures \cup {[signer |-> arg[g], by |-> mem[handle[g]]]}
    BY <1>2 DEF SignMessage, HandleInv, UsesInv
  <2>2. signers[arg[g]] # NoSigner
    BY <2>1, MadeStep
  <2>3. QED
    BY <2>1, <2>2 DEF SignaturesInv
<1>3. CASE BeginStep(g)
  BY <1>1, <1>3 DEF BeginStep, CopyKey, BeginGenerate, BeginUnmarshal, MarshalSecret,
                    InitKeylessFails, BeginVerify, InitKeyless
<1>4. CASE InitWithKey(g) \/ InitWithKeyFails(g) \/ SignMessageFails(g)
  BY <1>1, <1>4 DEF InitWithKey, InitWithKeyFails, SignMessageFails
<1>5. CASE MakeStep(g)
  BY <1>1, <1>5 DEF MakeStep, KeyPair, KeyPairFails, Export, Restore, RestoreFails
<1>6. CASE OtherStep(g)
  BY <1>1, <1>6 DEF OtherStep, Verify, MarshalPublic, Clean
<1>7. QED
  BY <1>2, <1>3, <1>4, <1>5, <1>6 DEF Step, SignStep

\* A blob is written from a copy of the secret half and the Signer's public one.
LEMMA BlobsStep ==
  ASSUME TypeOK, UsesInv, SignersInv, BlobsRestorePairs,
         NEW g \in Goroutines, Step(g)
  PROVE  BlobsRestorePairs'
<1>1. CASE blobs' = blobs
  BY <1>1 DEF BlobsRestorePairs
<1>2. CASE MarshalPublic(g)
  <2>1. /\ arg[g] \in made
        /\ mem[Temp(g)] = signers[arg[g]].pair
        /\ blobs' = blobs \cup {[pair |-> signers[arg[g]].pair,
                                 sk |-> mem[Temp(g)], pub |-> mem[signers[arg[g]].pub]]}
    BY <1>2 DEF MarshalPublic, UsesInv
  <2>2. mem[signers[arg[g]].pub] \in {signers[arg[g]].pair, Scribble}
    BY <2>1 DEF SignersInv, TypeOK
  <2>3. QED
    BY <2>1, <2>2 DEF BlobsRestorePairs
<1>3. CASE BeginStep(g)
  BY <1>1, <1>3 DEF BeginStep, CopyKey, BeginGenerate, BeginUnmarshal, MarshalSecret,
                    InitKeylessFails, BeginVerify, InitKeyless
<1>4. CASE SignStep(g)
  BY <1>1, <1>4 DEF SignStep, InitWithKey, InitWithKeyFails, SignMessage, SignMessageFails
<1>5. CASE MakeStep(g)
  BY <1>1, <1>5 DEF MakeStep, KeyPair, KeyPairFails, Export, Restore, RestoreFails
<1>6. CASE Clean(g) \/ \E r \in {"ok", "ErrSig", "error"} : Verify(g, r)
  BY <1>1, <1>6 DEF Verify, Clean
<1>7. QED
  BY <1>2, <1>3, <1>4, <1>5, <1>6 DEF Step, OtherStep

\* Ids stay taken, and there are MaxSigners of them.
LEMMA TakenGrows ==
  ASSUME Taken \subseteq Taken'
  PROVE  /\ Cardinality(Taken) \in Nat /\ Cardinality(Taken') \in Nat
         /\ Cardinality(Taken) <= Cardinality(Taken')
         /\ Cardinality(Taken') <= MaxSigners
<1>1. IsFiniteSet(SignerIds) /\ Cardinality(SignerIds) = MaxSigners
  BY FS_Interval DEF SignerIds
<1>2. Taken \subseteq SignerIds /\ Taken' \subseteq SignerIds
  BY DEF Taken
<1>3. /\ IsFiniteSet(Taken')
      /\ Cardinality(Taken') <= Cardinality(SignerIds)
  BY <1>1, <1>2, FS_Subset
<1>4. IsFiniteSet(Taken) /\ Cardinality(Taken) <= Cardinality(Taken')
  BY <1>3, FS_Subset
<1>5. QED
  BY <1>1, <1>3, <1>4, FS_CardinalityType

\* Every pair liboqs generates has an id of its own.
LEMMA PairsStep ==
  ASSUME TypeOK, OpInv, HandleInv, MakesInv, PairsInv, NEW g \in Goroutines, Step(g)
  PROVE  PairsInv' /\ pairs' <= MaxSigners
<1>0. Domains /\ pairs \in Nat
  BY TypeGivesDomains DEF TypeOK
<1>1. Taken \subseteq Taken'
  <2> SUFFICES ASSUME NEW s \in Taken
               PROVE  s \in Taken'
    OBVIOUS
  <2>1. CASE signers[s] # NoSigner
    BY <2>1, MadeStep DEF Taken
  <2>2. ASSUME NEW h \in Goroutines \ {g}, pc[h] = "export", arg[h] = s
        PROVE  s \in Taken'
    BY <2>2, OthersKeep DEF Taken
  <2>3. CASE pc[g] = "export" /\ arg[g] = s
    <3>1. Export(g)
      BY <2>3 DEF Step, BeginStep, CopyKey, BeginGenerate, BeginUnmarshal, MarshalSecret,
                  InitKeylessFails, BeginVerify, InitKeyless, Call,
                  SignStep, InitWithKey, InitWithKeyFails, SignMessage, SignMessageFails,
                  MakeStep, KeyPair, KeyPairFails, Restore, RestoreFails,
                  OtherStep, Verify, MarshalPublic, Clean
    <3>2. s \in SignerIds /\ signers'[s].sk = SecretOf(s)
      BY <1>0, <2>3, <3>1 DEF Export, Taken, Domains
    <3>3. signers'[s] # NoSigner
      BY <3>2, SlicesApart DEF NoSigner
    <3>4. QED
      BY <3>2, <3>3 DEF Taken
  <2>4. QED
    BY <2>1, <2>2, <2>3 DEF Taken
<1>2. CASE pairs' = pairs
  BY <1>0, <1>1, <1>2, TakenGrows DEF PairsInv
<1>3. CASE KeyPair(g)
  <2>1. /\ Makes(g) /\ arg[g] \in SignerIds /\ signers[arg[g]] = NoSigner
        /\ pc[g] = "keypair" /\ pc'[g] = "export" /\ arg' = arg
        /\ pairs' = pairs + 1
    BY <1>0, <1>3 DEF KeyPair, MakesInv, Makes, OpInv, Goto, Domains
  <2>2. arg[g] \in Taken'
    BY <2>1 DEF Taken
  <2>3. arg[g] \notin Taken
    BY <2>1 DEF Taken, MakesInv, Makes, OpInv
  <2>4. IsFiniteSet(Taken)
    <3>1. IsFiniteSet(SignerIds)
      BY FS_Interval DEF SignerIds
    <3>2. QED
      BY <3>1, FS_Subset DEF Taken
  <2>5. Cardinality(Taken \cup {arg[g]}) = Cardinality(Taken) + 1
    BY <2>3, <2>4, FS_AddElement
  <2>6. Taken \cup {arg[g]} \subseteq Taken' /\ IsFiniteSet(Taken')
    <3>1. IsFiniteSet(SignerIds)
      BY FS_Interval DEF SignerIds
    <3>2. QED
      BY <1>1, <2>2, <3>1, FS_Subset DEF Taken
  <2>7. Cardinality(Taken \cup {arg[g]}) <= Cardinality(Taken')
    BY <2>6, FS_Subset
  <2>8. QED
    BY <1>0, <1>1, <2>1, <2>5, <2>7, TakenGrows DEF PairsInv
<1>4. CASE BeginStep(g)
  BY <1>2, <1>4 DEF BeginStep, CopyKey, BeginGenerate, BeginUnmarshal, MarshalSecret,
                    InitKeylessFails, BeginVerify, InitKeyless
<1>5. CASE SignStep(g)
  BY <1>2, <1>5 DEF SignStep, InitWithKey, InitWithKeyFails, SignMessage, SignMessageFails
<1>6. CASE KeyPairFails(g) \/ Export(g) \/ RestoreFails(g) \/ \E b \in blobs : Restore(g, b)
  BY <1>2, <1>6 DEF KeyPairFails, Export, Restore, RestoreFails
<1>7. CASE OtherStep(g)
  BY <1>2, <1>7 DEF OtherStep, Verify, MarshalPublic, Clean
<1>8. QED
  BY <1>3, <1>4, <1>5, <1>6, <1>7 DEF Step, MakeStep

\* No step leaves the types.
LEMMA TypeStep ==
  ASSUME TypeOK, OpInv, HandleInv, UsesInv, MakesInv, SignersInv, PairsInv,
         NEW g \in Goroutines, Step(g)
  PROVE  TypeOK'
<1>0. \A s \in SignerIds : signers[s] # NoSigner =>
        signers[s] \in [sk : Slices, pub : Slices, pair : SignerIds]
  BY DEF TypeOK
<1>1. CASE BeginStep(g)
  <2>0. 0 \in 0..MaxSigners /\ \A s \in SignerIds : s \in 0..MaxSigners
    BY DEF SignerIds
  <2> USE SlicesApart, <2>0 DEF TypeOK, Goto, Result
  <2>1. CASE \E s \in SignerIds : CopyKey(g, s) \/ MarshalSecret(g, s)
    <3>1. PICK s \in SignerIds : CopyKey(g, s) \/ MarshalSecret(g, s)
      BY <2>1
    <3>2. mem[signers[s].sk] \in Contents
      BY <1>0, <3>1 DEF CopyKey, MarshalSecret
    <3>3. PICK f \in Operations, next \in Steps : Call(g, f, s, next)
      BY <3>1 DEF CopyKey, MarshalSecret, Operations, Steps
    <3>4. /\ pc' \in [Goroutines -> Steps] /\ op' \in [Goroutines -> Operations]
          /\ ret' \in [Goroutines -> {"none", "ok", "error", "ErrSig"}]
          /\ arg' \in [Goroutines -> 0..MaxSigners]
      BY <3>3 DEF Call
    <3>5. mem' \in [Slices -> Contents]
      BY <3>1, <3>2 DEF CopyKey, MarshalSecret
    <3>6. QED
      BY <3>1, <3>4, <3>5 DEF CopyKey, MarshalSecret
  <2>2. CASE \/ \E s \in SignerIds : BeginGenerate(g, s) \/ BeginUnmarshal(g, s)
             \/ BeginVerify(g)
    <3>1. PICK f \in Operations, s \in 0..MaxSigners, next \in Steps :
            InitKeyless(g, f, s, next)
      BY <2>2 DEF BeginGenerate, BeginUnmarshal, BeginVerify, Operations, Steps
    <3>2. /\ pc' \in [Goroutines -> Steps] /\ op' \in [Goroutines -> Operations]
          /\ ret' \in [Goroutines -> {"none", "ok", "error", "ErrSig"}]
          /\ arg' \in [Goroutines -> 0..MaxSigners]
      BY <3>1 DEF InitKeyless, Call
    <3>3. QED
      BY <3>1, <3>2 DEF InitKeyless
  <2>3. CASE \E f \in {"Generate", "VerifySignature", "UnmarshalBinary"} : InitKeylessFails(g, f)
    BY <2>3 DEF InitKeylessFails, Operations
  <2>4. QED
    BY <1>1, <2>1, <2>2, <2>3 DEF BeginStep
<1>2. CASE SignStep(g)
  <2> USE SlicesApart DEF TypeOK, Goto, Result, Steps
  <2>1. CASE SignMessage(g)
    <3>1. [signer |-> arg[g], by |-> mem[handle[g]]] \in [signer : SignerIds, by : Contents]
      BY <2>1 DEF SignMessage, UsesInv, HandleInv
    <3>2. QED
      BY <2>1, <3>1 DEF SignMessage
  <2>2. CASE InitWithKey(g) \/ InitWithKeyFails(g) \/ SignMessageFails(g)
    BY <2>2 DEF InitWithKey, InitWithKeyFails, SignMessageFails
  <2>3. QED
    BY <1>2, <2>1, <2>2 DEF SignStep
<1>3. CASE MakeStep(g)
  <2>0. arg[g] \in SignerIds /\ signers[arg[g]] = NoSigner
    BY <1>3 DEF MakeStep, KeyPair, KeyPairFails, Export, Restore, RestoreFails,
                MakesInv, Makes, OpInv
  <2> USE SlicesApart, <2>0 DEF TypeOK, Goto, Result, Steps
  <2>1. CASE KeyPair(g)
    <3>1. pairs' \in 0..MaxSigners /\ pairs + 1 \in SignerIds
      BY <2>1, PairsStep DEF KeyPair, SignerIds
    <3>2. pairs + 1 \in Contents
      BY <3>1 DEF Contents
    <3>3. QED
      BY <2>1, <3>1, <3>2 DEF KeyPair
  <2>2. CASE KeyPairFails(g) \/ RestoreFails(g)
    BY <2>2 DEF KeyPairFails, RestoreFails, Contents
  <2>3. ASSUME NEW c \in Contents, NEW d \in Contents, NEW p \in SignerIds,
               mem' = [mem EXCEPT ![SecretOf(arg[g])] = c, ![PublicOf(arg[g])] = d]
                 \/ mem' = [mem EXCEPT ![SecretOf(arg[g])] = c],
               signers' = [signers EXCEPT ![arg[g]] =
                 [sk |-> SecretOf(arg[g]), pub |-> PublicOf(arg[g]), pair |-> p]],
               made' = made
        PROVE  /\ mem' \in [Slices -> Contents]
               /\ signers' \in [SignerIds -> [sk : Slices, pub : Slices, pair : SignerIds] \cup {NoSigner}]
               /\ made' \subseteq {s \in SignerIds : signers'[s] # NoSigner}
    <3>1. mem' \in [Slices -> Contents]
      BY <2>3
    <3>2. /\ signers' \in [SignerIds -> [sk : Slices, pub : Slices, pair : SignerIds] \cup {NoSigner}]
          /\ \A s \in SignerIds \ {arg[g]} : signers'[s] = signers[s]
      BY <2>3
    <3>3. arg[g] \notin made
      OBVIOUS
    <3>4. QED
      BY <2>3, <3>1, <3>2, <3>3
  <2>4. CASE Export(g)
    <3>1. mem[handle[g]] \in SignerIds /\ mem[handle[g]] \in Contents
      BY <2>4 DEF Export, HandleInv, MakesInv, Makes, OpInv, Contents
    <3>2. QED
      BY <2>3, <2>4, <3>1 DEF Export
  <2>5. CASE \E b \in blobs : Restore(g, b)
    <3>1. PICK b \in blobs : Restore(g, b)
      BY <2>5
    <3>2. b.pair \in SignerIds /\ b.sk \in Contents /\ b.pub \in Contents
      OBVIOUS
    <3>3. QED
      BY <2>3, <3>1, <3>2 DEF Restore
  <2>6. QED
    BY <1>3, <2>1, <2>2, <2>4, <2>5 DEF MakeStep
<1>4. CASE OtherStep(g)
  <2> USE SlicesApart DEF TypeOK, Goto, Result, Steps
  <2>1. CASE \E r \in {"ok", "ErrSig", "error"} : Verify(g, r)
    BY <2>1 DEF Verify
  <2>2. CASE MarshalPublic(g)
    <3>1. arg[g] \in SignerIds /\ signers[arg[g]] # NoSigner
      BY <2>2 DEF MarshalPublic, UsesInv
    <3>2. /\ signers[arg[g]].pair \in SignerIds /\ mem[Temp(g)] \in Contents
          /\ mem[signers[arg[g]].pub] \in Contents
      BY <1>0, <3>1
    <3>3. QED
      BY <2>2, <3>2 DEF MarshalPublic
  <2>3. CASE Clean(g)
    <3>1. mem' \in [Slices -> Contents]
      BY <2>3 DEF Clean, Contents
    <3>2. made' \subseteq {s \in SignerIds : signers'[s] # NoSigner}
      BY <2>3 DEF Clean, MakesInv, Makes
    <3>3. QED
      BY <2>3, <3>1, <3>2 DEF Clean
  <2>4. QED
    BY <1>4, <2>1, <2>2, <2>3 DEF OtherStep
<1>5. QED
  BY <1>1, <1>2, <1>3, <1>4 DEF Step

\* A caller's write spoils nothing but the public half it is about.
LEMMA WriteStep ==
  ASSUME IInv, NEW s \in SignerIds, WriteToPublic(s)
  PROVE  IInv'
<1> USE DEF IInv
<1>1. /\ s \in made /\ signers[s] # NoSigner
      /\ mem' = [mem EXCEPT ![PublicOf(s)] = Scribble]
      /\ \A g : mem'[Temp(g)] = mem[Temp(g)]
      /\ \A t \in SignerIds : mem'[SecretOf(t)] = mem[SecretOf(t)]
      /\ \A t \in SignerIds \ {s} : mem'[PublicOf(t)] = mem[PublicOf(t)]
      /\ mem'[PublicOf(s)] = Scribble
  BY WriteKeeps
<1>2. /\ pc' = pc /\ op' = op /\ ret' = ret /\ arg' = arg /\ handle' = handle
      /\ signers' = signers /\ made' = made /\ pairs' = pairs
      /\ signatures' = signatures /\ blobs' = blobs
  BY DEF WriteToPublic
<1>3. TypeOK'
  <2>1. Scribble \in Contents
    BY DEF Contents
  <2>2. mem' \in [Slices -> Contents]
    BY <1>1, <2>1 DEF TypeOK
  <2>3. QED
    BY <1>2, <2>2 DEF TypeOK
<1>4. OpInv' /\ HandleInv'
  BY <1>2 DEF OpInv, HandleInv
<1>5. UsesInv'
  BY <1>1, <1>2 DEF UsesInv
<1>6. MakesInv'
  <2>1. \A g \in Goroutines : Makes(g) /\ pc[g] = "export" => arg[g] \in SignerIds \ {s}
    BY <1>1 DEF MakesInv
  <2>2. \A g \in Goroutines : Makes(g)' <=> Makes(g)
    BY <1>2 DEF Makes
  <2>3. QED
    BY <1>1, <1>2, <2>1, <2>2 DEF MakesInv
<1>7. SignersInv'
  BY <1>1, <1>2 DEF SignersInv
<1>8. SignaturesInv' /\ BlobsRestorePairs' /\ PairsInv'
  BY <1>2 DEF SignaturesInv, BlobsRestorePairs, PairsInv, Taken
<1>9. QED
  BY <1>3, <1>4, <1>5, <1>6, <1>7, <1>8

-----------------------------------------------------------------------------
(* The invariant, and what follows from it.                                *)

\* No goroutine has called and there is no Signer.
LEMMA InitHolds == Init => IInv
<1> SUFFICES ASSUME Init PROVE IInv
  OBVIOUS
<1> USE DEF Init
<1>1. TypeOK
  BY DEF TypeOK, Steps, Operations, Contents, Zero
<1>2. OpInv /\ HandleInv /\ UsesInv /\ MakesInv
  BY DEF OpInv, HandleInv, UsesInv, MakesInv, Makes
<1>3. SignersInv /\ SignaturesInv /\ BlobsRestorePairs
  BY DEF SignersInv, SignaturesInv, BlobsRestorePairs
<1>4. PairsInv
  <2>1. Taken = {}
    BY DEF Taken
  <2>2. Cardinality(Taken) = 0
    BY <2>1, FS_EmptySet
  <2>3. QED
    BY <2>2 DEF PairsInv
<1>5. QED
  BY <1>1, <1>2, <1>3, <1>4 DEF IInv

\* A goroutine's step keeps the invariant.
LEMMA StepHolds ==
  ASSUME IInv, NEW g \in Goroutines, Step(g)
  PROVE  IInv'
<1> USE DEF IInv
<1>1. TypeOK'
  BY TypeStep
<1>2. OpInv' /\ HandleInv'
  BY OpStep, HandleStep
<1>3. UsesInv' /\ MakesInv'
  BY <1>1, UsesStep, MakesStep
<1>4. SignersInv' /\ SignaturesInv' /\ BlobsRestorePairs' /\ PairsInv'
  BY SignersStep, SignaturesStep, BlobsStep, PairsStep
<1>5. QED
  BY <1>1, <1>2, <1>3, <1>4

\* The inductive invariant holds in every reachable state.
LEMMA Invariance == Spec => []IInv
<1>1. IInv /\ [Next]_vars => IInv'
  <2>1. ASSUME IInv, UNCHANGED vars
        PROVE  IInv'
    BY <2>1 DEF vars, IInv, TypeOK, OpInv, HandleInv, UsesInv, MakesInv, Makes, SignersInv,
                SignaturesInv, BlobsRestorePairs, PairsInv, Taken
  <2>2. QED
    BY <2>1, NextSteps, StepHolds, WriteStep
<1>2. QED
  BY <1>1, InitHolds, PTL DEF Spec

\* Type correctness of the adapter's state and of the Signers it makes.
THEOREM TypeCorrect == Spec => []TypeOK
<1>1. IInv => TypeOK
  BY DEF IInv
<1>2. QED
  BY <1>1, Invariance, PTL

\* A goroutine holds a C handle exactly between Init and Clean, on every
\* path through Sign, Generate, VerifySignature and UnmarshalBinary.
THEOREM Released == Spec => []HandlesReleased
<1>1. IInv => HandlesReleased
  <2> SUFFICES ASSUME IInv, NEW g \in Goroutines
               PROVE  handle[g] = Closed <=> pc[g] \in {"idle", "init", "append"}
    BY DEF HandlesReleased
  <2>1. pc[g] \in Steps
    BY DEF IInv, TypeOK
  <2>2. Keyless # Closed /\ Temp(g) # Closed
    BY SlicesApart
  <2>3. QED
    BY <2>1, <2>2 DEF IInv, HandleInv, Steps
<1>2. QED
  BY <1>1, Invariance, PTL

\* No Clean, in whichever goroutine, zeroes a key a signature is made with.
THEOREM OwnKey == Spec => []SignedWithOwnKey
<1>1. IInv => SignedWithOwnKey
  BY DEF IInv, SignaturesInv, SignedWithOwnKey
<1>2. QED
  BY <1>1, Invariance, PTL

\* The master copies survive any number of calls.
THEOREM PairsIntact == Spec => []KeyPairsIntact
<1>1. IInv => KeyPairsIntact
  BY DEF IInv, SignersInv, TypeOK, KeyPairsIntact
<1>2. QED
  BY <1>1, Invariance, PTL

\* A blob holds the halves of the pair it was asked to persist.
THEOREM BlobsHoldPairs == Spec => []BlobsRestorePairs
<1>1. IInv => BlobsRestorePairs
  BY DEF IInv
<1>2. QED
  BY <1>1, Invariance, PTL

\* Sign and Generate leave no secret key in the slices they made, but for a
\* Sign whose Init failed.
THEOREM NoneLeftBehind == Spec => NoKeyLeftBehind
<1> DEFINE Leaves ==
      \A g \in Goroutines :
        /\ op[g] \in {"Sign", "Generate"}
        /\ pc[g] # "idle" /\ pc'[g] = "idle"
        /\ mem'[Temp(g)] # Zero
        => pc[g] = "init"
<1>1. IInv /\ [Next]_vars => [Leaves]_vars
  <2> SUFFICES ASSUME IInv, Next, NEW g \in Goroutines,
                      op[g] \in {"Sign", "Generate"},
                      pc[g] # "idle", pc'[g] = "idle", pc[g] # "init"
               PROVE  mem'[Temp(g)] = Zero
    OBVIOUS
  <2>0. Domains /\ TypeOK /\ HandleInv /\ OpInv /\ MakesInv
    BY TypeGivesDomains DEF IInv
  <2>1. Step(g)
    <3>1. CASE \E s \in SignerIds : WriteToPublic(s)
      BY <3>1 DEF WriteToPublic
    <3>2. ASSUME NEW h \in Goroutines, Step(h)
          PROVE  h = g
      BY <2>0, <3>2, OthersKeep
    <3>3. QED
      BY <3>1, <3>2, NextSteps
  <2> USE <2>0, SlicesApart DEF Domains, Goto, Call
  <2>2. CASE OtherStep(g)
    BY <2>2 DEF OtherStep, Verify, MarshalPublic, Clean, HandleInv, OpInv
  <2>3. CASE BeginStep(g)
    BY <2>3 DEF BeginStep, CopyKey, BeginGenerate, BeginUnmarshal, MarshalSecret,
                InitKeylessFails, BeginVerify, InitKeyless
  <2>4. CASE SignStep(g)
    BY <2>4 DEF SignStep, InitWithKey, InitWithKeyFails, SignMessage, SignMessageFails
  <2>5. CASE MakeStep(g)
    BY <2>5 DEF MakeStep, KeyPair, KeyPairFails, Export, Restore, RestoreFails
  <2>6. QED
    BY <2>1, <2>2, <2>3, <2>4, <2>5 DEF Step
<1>2. QED
  BY <1>1, Invariance, PTL DEF Spec, NoKeyLeftBehind

\* The code has no lock because a Signer is never written once it is made:
\* whatever calls run, in whichever order, it keeps its slices and its pair,
\* its secret slice is not touched, and its public slice only by a caller
\* that writes to what Public handed out.
SignersStay ==
  [][\A s \in SignerIds :
       signers[s] # NoSigner =>
         /\ signers'[s] = signers[s]
         /\ mem'[SecretOf(s)] = mem[SecretOf(s)]
         /\ \/ mem'[PublicOf(s)] = mem[PublicOf(s)]
            \/ WriteToPublic(s)]_vars

\* No step of a call writes to a Signer that is there.
THEOREM SignersAreReadOnly == Spec => SignersStay
<1> DEFINE Stays ==
      \A s \in SignerIds :
        signers[s] # NoSigner =>
          /\ signers'[s] = signers[s]
          /\ mem'[SecretOf(s)] = mem[SecretOf(s)]
          /\ \/ mem'[PublicOf(s)] = mem[PublicOf(s)]
             \/ WriteToPublic(s)
<1>1. IInv /\ [Next]_vars => [Stays]_vars
  <2> SUFFICES ASSUME IInv, Next, NEW s \in SignerIds, signers[s] # NoSigner
               PROVE  /\ signers'[s] = signers[s]
                      /\ mem'[SecretOf(s)] = mem[SecretOf(s)]
                      /\ \/ mem'[PublicOf(s)] = mem[PublicOf(s)]
                         \/ WriteToPublic(s)
    OBVIOUS
  <2>0. TypeOK /\ OpInv /\ HandleInv /\ MakesInv /\ SignersInv
    BY DEF IInv
  <2>1. ASSUME NEW g \in Goroutines, Step(g)
        PROVE  /\ signers'[s] = signers[s]
               /\ mem'[SecretOf(s)] = mem[SecretOf(s)]
               /\ mem'[PublicOf(s)] = mem[PublicOf(s)]
    BY <2>0, <2>1, MadeStep
  <2>2. ASSUME NEW t \in SignerIds, WriteToPublic(t)
        PROVE  /\ signers'[s] = signers[s]
               /\ mem'[SecretOf(s)] = mem[SecretOf(s)]
               /\ s # t => mem'[PublicOf(s)] = mem[PublicOf(s)]
    <3>1. signers' = signers
      BY <2>2 DEF WriteToPublic
    <3>2. QED
      BY <2>0, <2>2, <3>1, WriteKeeps
  <2>3. QED
    BY <2>1, <2>2, NextSteps
<1>2. QED
  BY <1>1, Invariance, PTL DEF Spec, SignersStay
=============================================================================
