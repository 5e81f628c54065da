--------------------------- MODULE LiboqsAdapter ---------------------------
(***************************************************************************)
(* liboqs/liboqs.go: goroutines that sign, generate, verify, persist and   *)
(* restore keys through short-lived liboqs-go handles.  Byte slices are    *)
(* cells of memory reached through references, because the hazard of this  *)
(* file is aliasing: Clean zeroes, in place, whatever slice the handle was *)
(* initialized with, and Public hands out the Signer's own slice.          *)
(***************************************************************************)
EXTENDS Integers

CONSTANTS
  Goroutines,    (* goroutines that use the adapter                        *)
  MaxSigners     (* bound: Signer objects made in one behaviour            *)

ASSUME MaxSignersAssumption == MaxSigners \in Nat

VARIABLES
  pc,            (* where each goroutine is in its call                    *)
  op,            (* the function it called last                            *)
  ret,           (* what that call returned: none while it is running      *)
  arg,           (* the Signer the call works on, or makes; 0 for none     *)
  handle,        (* its oqs.Signature: closed, open, or the key slice held *)
  mem,           (* contents of every byte slice                           *)
  signers,       (* the Signer structs: two slices, and whose pair it is   *)
  made,          (* Signers a caller has a pointer to                      *)
  pairs,         (* key pairs liboqs has generated                         *)
  signatures,    (* history: signer asked, key pair that signed            *)
  blobs          (* history: what MarshalBinary has written                *)

vars == <<pc, op, ret, arg, handle, mem, signers, made, pairs, signatures, blobs>>

Steps == {"idle", "init", "sign", "keypair", "export", "verify", "append",
          "restore", "clean"}
Operations == {"Sign", "Generate", "VerifySignature", "MarshalBinary", "UnmarshalBinary"}

SignerIds == 1..MaxSigners

\* Contents of a slice: zeroed, the half of key pair k, or bytes that are neither,
\* a caller's or those of an unfinished key.
Zero == 0
Scribble == -1
Contents == {Scribble, Zero} \cup SignerIds

\* The slices: the halves a Signer owns, and one a call made for itself.
SecretOf(s) == <<"secret", s>>
PublicOf(s) == <<"public", s>>
Temp(g) == <<"temp", g>>
Slices == ({"secret", "public"} \X SignerIds) \cup ({"temp"} \X Goroutines)

\* A handle is closed, or open with or without a secret key slice.
Closed == <<"closed", 0>>
Keyless == <<"keyless", 0>>

NoSigner == [sk |-> Closed, pub |-> Closed, pair |-> Zero]

TypeOK ==
  /\ pc \in [Goroutines -> Steps]
  /\ op \in [Goroutines -> Operations]
  /\ ret \in [Goroutines -> {"none", "ok", "error", "ErrSig"}]
  /\ arg \in [Goroutines -> 0..MaxSigners]
  /\ handle \in [Goroutines -> Slices \cup {Closed, Keyless}]
  /\ mem \in [Slices -> Contents]
  /\ signers \in [SignerIds -> [sk : Slices, pub : Slices, pair : SignerIds] \cup {NoSigner}]
  /\ made \subseteq {s \in SignerIds : signers[s] # NoSigner}
  /\ pairs \in 0..MaxSigners
  /\ signatures \subseteq [signer : SignerIds, by : Contents]
  /\ blobs \subseteq [pair : SignerIds, sk : Contents, pub : Contents]

Init ==
  /\ pc = [g \in Goroutines |-> "idle"]
  /\ op = [g \in Goroutines |-> "VerifySignature"]
  /\ ret = [g \in Goroutines |-> "ok"]
  /\ arg = [g \in Goroutines |-> 0]
  /\ handle = [g \in Goroutines |-> Closed]
  /\ mem = [x \in Slices |-> Zero]
  /\ signers = [s \in SignerIds |-> NoSigner]
  /\ made = {}
  /\ pairs = 0
  /\ signatures = {}
  /\ blobs = {}

-----------------------------------------------------------------------------

Goto(g, next) == pc' = [pc EXCEPT ![g] = next]

Result(g, r) == ret' = [ret EXCEPT ![g] = r]

Call(g, f, s, next) ==
  /\ pc[g] = "idle"
  /\ op' = [op EXCEPT ![g] = f]
  /\ arg' = [arg EXCEPT ![g] = s]
  /\ Goto(g, next)
  /\ Result(g, "none")

\* The Signer ids taken by calls still running, and by Signers there are.
Reserved == {arg[g] : g \in {h \in Goroutines :
                 pc[h] # "idle" /\ op[h] \in {"Generate", "UnmarshalBinary"}}}
Free(s) == signers[s] = NoSigner /\ s \notin Reserved

(* Sign.                                                                   *)

\* Mutant: the handle works on the Signer's own slice.
CopyKeyAliased(g, s) ==
  /\ s \in made
  /\ Call(g, "Sign", s, "sign")
  /\ handle' = [handle EXCEPT ![g] = signers[s].sk]
  /\ UNCHANGED <<mem, signers, made, pairs, signatures, blobs>>

\* skCopy := make(...); copy(skCopy, s.SecretKey)
CopyKey(g, s) ==
  /\ s \in made
  /\ Call(g, "Sign", s, "init")
  /\ mem' = [mem EXCEPT ![Temp(g)] = mem[signers[s].sk]]
  /\ UNCHANGED <<handle, signers, made, pairs, signatures, blobs>>

\* sig.Init(s.AlgName, skCopy), and the Clean deferred.
InitWithKey(g) ==
  /\ pc[g] = "init"
  /\ handle' = [handle EXCEPT ![g] = Temp(g)]
  /\ Goto(g, "sign")
  /\ UNCHANGED <<op, ret, arg, mem, signers, made, pairs, signatures, blobs>>

\* Init fails (the algorithm is not built in): no handle, nothing to clean.
InitWithKeyFails(g) ==
  /\ pc[g] = "init"
  /\ Goto(g, "idle")
  /\ Result(g, "error")
  /\ UNCHANGED <<op, arg, handle, mem, signers, made, pairs, signatures, blobs>>

\* sig.Sign(message): liboqs signs with the bytes the slice holds by now.
SignMessage(g) ==
  /\ pc[g] = "sign"
  /\ signatures' = signatures \cup {[signer |-> arg[g], by |-> mem[handle[g]]]}
  /\ Goto(g, "clean")
  /\ Result(g, "ok")
  /\ UNCHANGED <<op, arg, handle, mem, signers, made, pairs, blobs>>

\* Mutant: Clean is called by hand, and the error return forgets it.
SignMessageFailsUnclean(g) ==
  /\ pc[g] = "sign"
  /\ Goto(g, "idle")
  /\ Result(g, "error")
  /\ UNCHANGED <<op, arg, handle, mem, signers, made, pairs, signatures, blobs>>

SignMessageFails(g) ==
  /\ pc[g] = "sign"
  /\ Goto(g, "clean")
  /\ Result(g, "error")
  /\ UNCHANGED <<op, arg, handle, mem, signers, made, pairs, signatures, blobs>>

(* Generate, VerifySignature (and PublicKeySize) and UnmarshalBinary open  *)
(* a handle without a key.                                                 *)

InitKeyless(g, f, s, next) ==
  /\ Call(g, f, s, next)
  /\ handle' = [handle EXCEPT ![g] = Keyless]
  /\ UNCHANGED <<mem, signers, made, pairs, signatures, blobs>>

InitKeylessFails(g, f) ==
  /\ pc[g] = "idle"
  /\ op' = [op EXCEPT ![g] = f]
  /\ arg' = [arg EXCEPT ![g] = 0]
  /\ Result(g, "error")
  /\ UNCHANGED <<pc, handle, mem, signers, made, pairs, signatures, blobs>>

BeginGenerate(g, s) == Free(s) /\ InitKeyless(g, "Generate", s, "keypair")

BeginVerify(g) == InitKeyless(g, "VerifySignature", 0, "verify")

BeginUnmarshal(g, s) == Free(s) /\ blobs # {} /\ InitKeyless(g, "UnmarshalBinary", s, "restore")

\* sig.GenerateKeyPair(): the handle now owns the secret key's slice.
KeyPair(g) ==
  /\ pc[g] = "keypair"
  /\ pairs' = pairs + 1
  /\ mem' = [mem EXCEPT ![Temp(g)] = pairs + 1, ![PublicOf(arg[g])] = pairs + 1]
  /\ handle' = [handle EXCEPT ![g] = Temp(g)]
  /\ Goto(g, "export")
  /\ UNCHANGED <<op, ret, arg, signers, made, signatures, blobs>>

\* It fails, perhaps after it has written some of the secret key.
KeyPairFails(g) ==
  /\ pc[g] = "keypair"
  /\ \E left \in {Zero, Scribble} : mem' = [mem EXCEPT ![Temp(g)] = left]
  /\ handle' = [handle EXCEPT ![g] = Temp(g)]
  /\ Goto(g, "clean")
  /\ Result(g, "error")
  /\ UNCHANGED <<op, arg, signers, made, pairs, signatures, blobs>>

\* Mutant: the Signer keeps the slice ExportSecretKey returned.
ExportAliased(g) ==
  /\ pc[g] = "export"
  /\ signers' = [signers EXCEPT ![arg[g]] =
       [sk |-> handle[g], pub |-> PublicOf(arg[g]), pair |-> mem[handle[g]]]]
  /\ Goto(g, "clean")
  /\ Result(g, "ok")
  /\ UNCHANGED <<op, arg, handle, mem, made, pairs, signatures, blobs>>

\* ExportSecretKey returns the handle's slice; the Signer gets a copy.
Export(g) ==
  /\ pc[g] = "export"
  /\ mem' = [mem EXCEPT ![SecretOf(arg[g])] = mem[handle[g]]]
  /\ signers' = [signers EXCEPT ![arg[g]] =
       [sk |-> SecretOf(arg[g]), pub |-> PublicOf(arg[g]), pair |-> mem[handle[g]]]]
  /\ Goto(g, "clean")
  /\ Result(g, "ok")
  /\ UNCHANGED <<op, arg, handle, made, pairs, signatures, blobs>>

\* sig.Verify, or sig.Details in PublicKeySize.
Verify(g, r) ==
  /\ pc[g] = "verify"
  /\ Goto(g, "clean")
  /\ Result(g, r)
  /\ UNCHANGED <<op, arg, handle, mem, signers, made, pairs, signatures, blobs>>

\* Mutant: the blob is split with the public half first.
RestoreSwapped(g, b) ==
  /\ pc[g] = "restore"
  /\ mem' = [mem EXCEPT ![SecretOf(arg[g])] = b.pub, ![PublicOf(arg[g])] = b.sk]
  /\ signers' = [signers EXCEPT ![arg[g]] =
       [sk |-> SecretOf(arg[g]), pub |-> PublicOf(arg[g]), pair |-> b.pair]]
  /\ Goto(g, "clean")
  /\ Result(g, "ok")
  /\ UNCHANGED <<op, arg, handle, made, pairs, signatures, blobs>>

\* UnmarshalBinary of a blob MarshalBinary wrote: its length fits.
Restore(g, b) ==
  /\ pc[g] = "restore"
  /\ mem' = [mem EXCEPT ![SecretOf(arg[g])] = b.sk, ![PublicOf(arg[g])] = b.pub]
  /\ signers' = [signers EXCEPT ![arg[g]] =
       [sk |-> SecretOf(arg[g]), pub |-> PublicOf(arg[g]), pair |-> b.pair]]
  /\ Goto(g, "clean")
  /\ Result(g, "ok")
  /\ UNCHANGED <<op, arg, handle, made, pairs, signatures, blobs>>

\* A buffer of another length.
RestoreFails(g) ==
  /\ pc[g] = "restore"
  /\ Goto(g, "clean")
  /\ Result(g, "error")
  /\ UNCHANGED <<op, arg, handle, mem, signers, made, pairs, signatures, blobs>>

\* Mutant: a failed call hands its half-made Signer to the caller.
CleanPublishesFailures(g) ==
  /\ pc[g] = "clean"
  /\ mem' = IF handle[g] \in Slices THEN [mem EXCEPT ![handle[g]] = Zero] ELSE mem
  /\ handle' = [handle EXCEPT ![g] = Closed]
  /\ made' = made \cup ({arg[g]} \ {0})
  /\ Goto(g, "idle")
  /\ UNCHANGED <<op, ret, arg, signers, pairs, signatures, blobs>>

\* Mutant: the handle is freed, the key slice is not cleansed.
CleanWithoutCleanse(g) ==
  /\ pc[g] = "clean"
  /\ handle' = [handle EXCEPT ![g] = Closed]
  /\ made' = IF ret[g] = "ok" /\ op[g] \in {"Generate", "UnmarshalBinary"}
             THEN made \cup {arg[g]} ELSE made
  /\ Goto(g, "idle")
  /\ UNCHANGED <<op, ret, arg, mem, signers, pairs, signatures, blobs>>

\* The deferred sig.Clean(): cleanse the key slice in place, free the
\* handle; then the caller gets the result.
Clean(g) ==
  /\ pc[g] = "clean"
  /\ mem' = IF handle[g] \in Slices THEN [mem EXCEPT ![handle[g]] = Zero] ELSE mem
  /\ handle' = [handle EXCEPT ![g] = Closed]
  /\ made' = IF ret[g] = "ok" /\ op[g] \in {"Generate", "UnmarshalBinary"}
             THEN made \cup {arg[g]} ELSE made
  /\ Goto(g, "idle")
  /\ UNCHANGED <<op, ret, arg, signers, pairs, signatures, blobs>>

(* MarshalBinary and Public.                                               *)

\* out = append(out, s.SecretKey...), kept in the call's own slice.
MarshalSecret(g, s) ==
  /\ s \in made
  /\ Call(g, "MarshalBinary", s, "append")
  /\ mem' = [mem EXCEPT ![Temp(g)] = mem[signers[s].sk]]
  /\ UNCHANGED <<handle, signers, made, pairs, signatures, blobs>>

\* out = append(out, s.Pub...); the bytes are the caller's from then on.
MarshalPublic(g) ==
  /\ pc[g] = "append"
  /\ blobs' = blobs \cup {[pair |-> signers[arg[g]].pair,
                           sk |-> mem[Temp(g)], pub |-> mem[signers[arg[g]].pub]]}
  /\ Goto(g, "idle")
  /\ Result(g, "ok")
  /\ UNCHANGED <<op, arg, handle, mem, signers, made, pairs, signatures>>

\* A caller writes to the slice that s.Public() returned: s.Pub itself.
WriteToPublic(s) ==
  /\ s \in made
  /\ mem' = [mem EXCEPT ![signers[s].pub] = Scribble]
  /\ UNCHANGED <<pc, op, ret, arg, handle, signers, made, pairs, signatures, blobs>>

Next ==
  \/ \E g \in Goroutines :
       \/ \E s \in SignerIds :
            CopyKey(g, s) \/ BeginGenerate(g, s) \/ BeginUnmarshal(g, s) \/ MarshalSecret(g, s)
       \/ \E f \in {"Generate", "VerifySignature", "UnmarshalBinary"} : InitKeylessFails(g, f)
       \/ BeginVerify(g) \/ InitWithKey(g) \/ InitWithKeyFails(g)
       \/ SignMessage(g) \/ SignMessageFails(g)
       \/ KeyPair(g) \/ KeyPairFails(g) \/ Export(g)
       \/ \E r \in {"ok", "ErrSig", "error"} : Verify(g, r)
       \/ \E b \in blobs : Restore(g, b)
       \/ RestoreFails(g) \/ MarshalPublic(g) \/ Clean(g)
  \/ \E s \in SignerIds : WriteToPublic(s)

Spec == Init /\ [][Next]_vars

-----------------------------------------------------------------------------
(* Properties.                                                             *)

\* Every signature was made with the secret key of the Signer it was asked
\* of: no call's Clean zeroes a key another call is signing with (the
\* "IMPORTANT" comment on Sign).
SignedWithOwnKey ==
  \A x \in signatures : x.by = signers[x.signer].pair

\* The halves of a Signer stay those of its key pair across any number of
\* calls ("the master copy on the Signer survives across many Sign calls"):
\* only a caller's own write, to the public half, ever changes one.
KeyPairsIntact ==
  \A s \in made : /\ mem[signers[s].sk] = signers[s].pair
                  /\ mem[signers[s].pub] \in {signers[s].pair, Scribble}

\* What MarshalBinary writes holds the secret half of the pair it was asked
\* to persist, and the public half as the caller left it.
BlobsRestorePairs ==
  \A b \in blobs : b.sk = b.pair /\ b.pub \in {b.pair, Scribble}

\* A goroutine outside the adapter holds no C handle, whichever step failed,
\* and inside the C calls it holds an open one.
HandlesReleased ==
  \A g \in Goroutines :
    (handle[g] = Closed) <=> pc[g] \in {"idle", "init", "append"}

\* A Sign or Generate that returns leaves no secret key in the slices it
\* made for itself, unless Init failed after Sign had copied the key.
NoKeyLeftBehind ==
  [][\A g \in Goroutines :
       /\ op[g] \in {"Sign", "Generate"}
       /\ pc[g] # "idle" /\ pc'[g] = "idle"
       /\ mem'[Temp(g)] # Zero
       => pc[g] = "init"]_vars

\* "The concrete value is a copy of Pub" (comment on Public): nothing a
\* caller does with it changes a Signer's public key.
PublicReturnsACopy ==
  [][\A s \in made : mem'[signers[s].pub] = mem[signers[s].pub]]_vars
=============================================================================
