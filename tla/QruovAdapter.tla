---------------------------- MODULE QruovAdapter ----------------------------
(***************************************************************************)
(* qruovc/qruovc.go: goroutines calling Sign, Generate and VerifySignature *)
(* of the cgo adapter over the QR-UOV reference implementation, whose      *)
(* randombytes draws from one process-wide NIST KAT DRBG.  One action per  *)
(* step at which another goroutine can get in between: the argument check, *)
(* each malloc, the lock, the draw from crypto/rand, randombytes_init,     *)
(* every randombytes call the C code makes, its return, and the deferred   *)
(* unlock and frees.                                                       *)
(***************************************************************************)
EXTENDS Naturals, Sequences

CONSTANTS
  Goroutines,   (* goroutines that use the adapter                         *)
  NoOne,        (* drbgMu when no goroutine holds it                       *)
  MaxDraws,     (* bound: seeds crypto/rand hands out in one behaviour     *)
  MaxReads      (* bound: randombytes calls inside one C call              *)

ASSUME NoOneAssumption == NoOne \notin Goroutines
ASSUME BoundsAssumption == MaxDraws \in Nat /\ MaxReads \in Nat \ {0}

VARIABLES
  pc,           (* where each goroutine is in its call                     *)
  op,           (* the adapter function it called last                     *)
  ret,          (* what that call returned: none while it is running       *)
  drbgMu,       (* var drbgMu sync.Mutex: its holder                       *)
  drbg,         (* the C global DRBG_ctx: its seed and the next block      *)
  drawn,        (* 48-byte seeds read from crypto/rand so far              *)
  seed,         (* the local array of reseedDRBG, per goroutine            *)
  reads,        (* the blocks its current C call got from randombytes      *)
  heap,         (* C buffers a goroutine has malloced and not freed        *)
  outputs       (* history: every signature and key pair handed back       *)

shared == <<drbgMu, drbg, drawn, outputs>>
vars == <<pc, op, ret, drbgMu, drbg, drawn, seed, reads, heap, outputs>>

Steps == {"idle", "malloc_sm", "malloc_m", "lock", "reseed", "init",
          "crypto", "unlock", "open", "free"}
Operations == {"sign", "generate", "verify"}
Results == {"none", "ok", "error", "ErrSig"}

\* Seed 0 is DRBG_ctx as the C runtime zeroes it, before any randombytes_init.
Unseeded == 0
SeedSet == 0..MaxDraws
Block == SeedSet \X Nat

TypeOK ==
  /\ pc \in [Goroutines -> Steps]
  /\ op \in [Goroutines -> Operations]
  /\ ret \in [Goroutines -> Results]
  /\ drbgMu \in Goroutines \cup {NoOne}
  /\ drbg \in [seed : SeedSet, pos : 0..MaxReads]
  /\ drawn \in SeedSet
  /\ seed \in [Goroutines -> SeedSet]
  /\ reads \in [Goroutines -> Seq(Block)]
  /\ heap \in [Goroutines -> SUBSET {"sm", "m"}]
  /\ outputs \subseteq [by : Goroutines, seed : SeedSet, stream : Seq(Block)]

Init ==
  /\ pc = [g \in Goroutines |-> "idle"]
  /\ op = [g \in Goroutines |-> "verify"]
  /\ ret = [g \in Goroutines |-> "ok"]
  /\ drbgMu = NoOne
  /\ drbg = [seed |-> Unseeded, pos |-> 0]
  /\ drawn = 0
  /\ seed = [g \in Goroutines |-> Unseeded]
  /\ reads = [g \in Goroutines |-> <<>>]
  /\ heap = [g \in Goroutines |-> {}]
  /\ outputs = {}

-----------------------------------------------------------------------------
(* Steps of a call.                                                        *)

Goto(g, next) == pc' = [pc EXCEPT ![g] = next]

Result(g, r) == ret' = [ret EXCEPT ![g] = r]

\* g calls f, whose argument checks pass: f goes on at next.
Enter(g, f, next) ==
  /\ pc[g] = "idle"
  /\ op' = [op EXCEPT ![g] = f]
  /\ Goto(g, next)
  /\ Result(g, "none")
  /\ UNCHANGED <<shared, seed, reads, heap>>

\* g calls f, whose argument checks fail: f returns their error at once.
Reject(g, f) ==
  /\ pc[g] = "idle"
  /\ op' = [op EXCEPT ![g] = f]
  /\ Result(g, "error")
  /\ UNCHANGED <<shared, pc, seed, reads, heap>>

\* Sign checks the length of the secret key.
BeginSign(g) == Enter(g, "sign", "malloc_sm")
RejectSign(g) == Reject(g, "sign")

\* Mutant: Generate does not take drbgMu.
BeginGenerateUnlocked(g) == Enter(g, "generate", "reseed")

\* Generate has nothing to check and allocates in Go only.
BeginGenerate(g) == Enter(g, "generate", "lock")

\* Mutant: verification is serialized with signing by the same mutex.
BeginVerifyUnderLock(g) == Enter(g, "verify", "lock")

\* VerifySignature checks the lengths of the public key and the signature.
BeginVerify(g) == Enter(g, "verify", "malloc_sm")
RejectVerify(g) == Reject(g, "verify")

\* smPtr := C.malloc(...), in Sign and in VerifySignature.
MallocSm(g) ==
  /\ pc[g] = "malloc_sm"
  /\ heap' = [heap EXCEPT ![g] = {"sm"}]
  /\ Goto(g, IF op[g] = "sign" THEN "lock" ELSE "malloc_m")
  /\ UNCHANGED <<shared, op, ret, seed, reads>>

\* smPtr == nil: nothing is allocated or deferred yet.
MallocSmFails(g) ==
  /\ pc[g] = "malloc_sm"
  /\ Goto(g, "idle")
  /\ Result(g, "error")
  /\ UNCHANGED <<shared, op, seed, reads, heap>>

\* Mutant: the lock does not exclude.
LockWithoutWaiting(g) ==
  /\ pc[g] = "lock"
  /\ drbgMu' = g
  /\ Goto(g, "reseed")
  /\ UNCHANGED <<op, ret, drbg, drawn, seed, reads, heap, outputs>>

\* drbgMu.Lock(), and the Unlock deferred.
Lock(g) ==
  /\ pc[g] = "lock"
  /\ drbgMu = NoOne
  /\ drbgMu' = g
  /\ Goto(g, "reseed")
  /\ UNCHANGED <<op, ret, drbg, drawn, seed, reads, heap, outputs>>

\* io.ReadFull(rand.Reader, seed[:]): seeds of crypto/rand never repeat.
Reseed(g) ==
  /\ pc[g] = "reseed"
  /\ drawn < MaxDraws
  /\ drawn' = drawn + 1
  /\ seed' = [seed EXCEPT ![g] = drawn + 1]
  /\ Goto(g, "init")
  /\ UNCHANGED <<op, ret, drbgMu, drbg, reads, heap, outputs>>

\* Mutant: the error of io.ReadFull is dropped, the zeroed array is used.
ReseedErrorIgnored(g) ==
  /\ pc[g] = "reseed"
  /\ seed' = [seed EXCEPT ![g] = Unseeded]
  /\ Goto(g, "init")
  /\ UNCHANGED <<op, ret, drbgMu, drbg, drawn, reads, heap, outputs>>

\* Mutant: the error return of the reseed does not release drbgMu.
ReseedErrorKeepsLock(g) ==
  /\ pc[g] = "reseed"
  /\ Goto(g, IF op[g] = "sign" THEN "free" ELSE "idle")
  /\ Result(g, "error")
  /\ UNCHANGED <<shared, op, seed, reads, heap>>

\* io.ReadFull fails: Sign or Generate returns the error.
ReseedFails(g) ==
  /\ pc[g] = "reseed"
  /\ Goto(g, "unlock")
  /\ Result(g, "error")
  /\ UNCHANGED <<shared, op, seed, reads, heap>>

\* Mutant: seeding does not restart the stream.
InitDRBGKeepsPosition(g) ==
  /\ pc[g] = "init"
  /\ drbg' = [drbg EXCEPT !.seed = seed[g]]
  /\ reads' = [reads EXCEPT ![g] = <<>>]
  /\ Goto(g, "crypto")
  /\ UNCHANGED <<op, ret, drbgMu, drawn, seed, heap, outputs>>

\* C.randombytes_init(&seed[0], nil, 256), then the C function is entered.
InitDRBG(g) ==
  /\ pc[g] = "init"
  /\ drbg' = [seed |-> seed[g], pos |-> 0]
  /\ reads' = [reads EXCEPT ![g] = <<>>]
  /\ Goto(g, "crypto")
  /\ UNCHANGED <<op, ret, drbgMu, drawn, seed, heap, outputs>>

\* The C code of crypto_sign or crypto_sign_keypair calls randombytes.
RandomBytes(g) ==
  /\ pc[g] = "crypto"
  /\ Len(reads[g]) < MaxReads
  /\ reads' = [reads EXCEPT ![g] = Append(@, <<drbg.seed, drbg.pos>>)]
  /\ drbg' = [drbg EXCEPT !.pos = @ + 1]
  /\ UNCHANGED <<pc, op, ret, drbgMu, drawn, seed, heap, outputs>>

\* The C function returns 0 (and Sign finds the smlen it expects): the
\* signature or key pair it made from what it read is handed back.
CryptoReturns(g) ==
  /\ pc[g] = "crypto"
  /\ reads[g] # <<>>
  /\ Goto(g, "unlock")
  /\ Result(g, "ok")
  /\ outputs' = outputs \cup
       {[by |-> g, seed |-> seed[g], stream |-> reads[g]]}
  /\ UNCHANGED <<op, drbgMu, drbg, drawn, seed, reads, heap>>

\* Mutant: the return code of the C function is not looked at.
CryptoErrorIgnored(g) ==
  /\ pc[g] = "crypto"
  /\ Goto(g, "unlock")
  /\ Result(g, "ok")
  /\ outputs' = outputs \cup
       {[by |-> g, seed |-> seed[g], stream |-> reads[g]]}
  /\ UNCHANGED <<op, drbgMu, drbg, drawn, seed, reads, heap>>

\* rc # 0, or an smlen other than SignatureSize + len(message).
CryptoFails(g) ==
  /\ pc[g] = "crypto"
  /\ Goto(g, "unlock")
  /\ Result(g, "error")
  /\ UNCHANGED <<shared, op, seed, reads, heap>>

\* defer drbgMu.Unlock(); the free Sign deferred before it runs after it.
Unlock(g) ==
  /\ pc[g] = "unlock"
  /\ drbgMu' = NoOne
  /\ Goto(g, IF op[g] = "sign" THEN "free" ELSE "idle")
  /\ UNCHANGED <<op, ret, drbg, drawn, seed, reads, heap, outputs>>

\* mPtr := C.malloc(...) of VerifySignature.
MallocM(g) ==
  /\ pc[g] = "malloc_m"
  /\ heap' = [heap EXCEPT ![g] = {"sm", "m"}]
  /\ Goto(g, "open")
  /\ UNCHANGED <<shared, op, ret, seed, reads>>

\* Mutant: the error return after the second malloc leaks the first buffer.
MallocMFailsAndLeaks(g) ==
  /\ pc[g] = "malloc_m"
  /\ Goto(g, "idle")
  /\ Result(g, "error")
  /\ UNCHANGED <<shared, op, seed, reads, heap>>

\* mPtr == nil: the deferred free of smPtr still runs.
MallocMFails(g) ==
  /\ pc[g] = "malloc_m"
  /\ Goto(g, "free")
  /\ Result(g, "error")
  /\ UNCHANGED <<shared, op, seed, reads, heap>>

\* C.crypto_sign_open accepts or refuses; it reads no randomness.
CryptoOpen(g, r) ==
  /\ pc[g] = "open"
  /\ Goto(g, "free")
  /\ Result(g, r)
  /\ UNCHANGED <<shared, op, seed, reads, heap>>

\* The deferred frees of what the call has allocated.
Free(g) ==
  /\ pc[g] = "free"
  /\ heap' = [heap EXCEPT ![g] = {}]
  /\ Goto(g, "idle")
  /\ UNCHANGED <<shared, op, ret, seed, reads>>

Begin(g) ==
  BeginSign(g) \/ RejectSign(g) \/ BeginGenerate(g) \/ BeginVerify(g) \/ RejectVerify(g)

VerifyStep(g) ==
  \/ MallocM(g) \/ MallocMFails(g)
  \/ CryptoOpen(g, "ok") \/ CryptoOpen(g, "ErrSig")

LockedStep(g) ==
  \/ Reseed(g) \/ ReseedFails(g) \/ InitDRBG(g) \/ RandomBytes(g)
  \/ CryptoReturns(g) \/ CryptoFails(g) \/ Unlock(g)

Step(g) ==
  MallocSm(g) \/ MallocSmFails(g) \/ Lock(g) \/ LockedStep(g) \/ VerifyStep(g) \/ Free(g)

Next == \E g \in Goroutines : Begin(g) \/ Step(g)

Spec == Init /\ [][Next]_vars

(* A goroutine inside a call keeps being scheduled, and the C functions    *)
(* return.  sync.Mutex hands itself to a waiter that has waited long       *)
(* enough (its starvation mode), hence strong fairness of Lock.            *)
Fairness == \A g \in Goroutines : WF_vars(Step(g)) /\ SF_vars(Lock(g))

FairSpec == Spec /\ Fairness

-----------------------------------------------------------------------------
(* Properties.                                                             *)

Fresh == INSTANCE FreshCalls WITH
  Callers <- Goroutines,
  Seeds <- 1..MaxDraws,
  phase <- [g \in Goroutines |->
              IF pc[g] = "idle" THEN "idle"
              ELSE IF ret[g] = "ok" /\ op[g] # "verify" THEN "served"
              ELSE "open"]

\* Every signature and key pair is made only from the seed its own call drew
\* from crypto/rand, read from the start of that seed's stream: no output
\* depends on the KAT generator's fixed state or on another call's reseed
\* (qruovc.go, package comment "RNG seeding").
OutputsFresh ==
  \A o \in outputs :
    /\ o.seed \in 1..drawn
    /\ o.stream # <<>>
    /\ o.stream = Fresh!Stream(o.seed, Len(o.stream))

\* No block of randomness is used by two outputs.
NoSharedRandomness ==
  \A o1, o2 \in outputs :
    o1 # o2 => \A i \in DOMAIN o1.stream, j \in DOMAIN o2.stream :
                 o1.stream[i] # o2.stream[j]

\* The generator's global state changes only in a step of the goroutine that
\* holds drbgMu, and the mutex never passes from one goroutine to another
\* without being released (drbgMu's comment and "Callers must hold drbgMu").
DRBGOnlyUnderLock ==
  [][/\ drbg' # drbg => /\ drbgMu \in Goroutines
                        /\ drbgMu' = drbgMu
                        /\ \A g \in Goroutines \ {drbgMu} : pc'[g] = pc[g]
     /\ drbgMu' \in {drbgMu, NoOne} \/ drbgMu = NoOne]_vars

\* A call that has returned has freed every C buffer it allocated, on every
\* error path, and no C function runs without the buffers passed to it.
BuffersHeldExactlyDuringCalls ==
  \A g \in Goroutines :
    /\ pc[g] = "idle" => heap[g] = {}
    /\ pc[g] = "crypto" /\ op[g] = "sign" => heap[g] = {"sm"}
    /\ pc[g] = "open" => heap[g] = {"sm", "m"}

\* g is at drbgMu.Lock() and another goroutine holds the mutex.
Waits(g) == pc[g] = "lock" /\ drbgMu # NoOne

\* VerifySignature "needs no reseed and no lock": wherever it is, its next
\* step can be taken, whoever holds drbgMu.  And drbgMu is all that Sign and
\* Generate wait for: a call that cannot take a step is at the taken lock.
VerifyNeverBlocks ==
  \A g \in Goroutines :
    pc[g] # "idle" => ENABLED Step(g) \/ (Waits(g) /\ op[g] # "verify")

\* Every call returns, however reseeding, allocation or the C code fails: no
\* error path keeps drbgMu.
CallsReturn == \A g \in Goroutines : pc[g] # "idle" ~> pc[g] = "idle"

\* The adapter implements the abstract service.
ImplementsFreshCalls == Fresh!Spec
=============================================================================
