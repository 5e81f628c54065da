------------------------- MODULE QruovAdapterProofs -------------------------
(***************************************************************************)
(* Proofs about QruovAdapter, for every set of goroutines and every bound: *)
(* its type invariant, that outputs are fresh and share no randomness,     *)
(* that the generator changes only under the lock, and that the adapter    *)
(* implements FreshCalls.                                                  *)
(***************************************************************************)
EXTENDS QruovAdapter, TLAPS

-----------------------------------------------------------------------------
(* The inductive invariant.                                                *)

\* drbgMu is held by exactly the goroutine between Lock and Unlock.
InsideLock == {"reseed", "init", "crypto", "unlock"}

LockInv == \A g \in Goroutines : pc[g] \in InsideLock <=> drbgMu = g

\* The step a goroutine is at fits the function it called.
OpInv ==
  \A g \in Goroutines :
    /\ pc[g] \in {"malloc_sm", "free"} => op[g] \in {"sign", "verify"}
    /\ pc[g] \in {"malloc_m", "open"} => op[g] = "verify"
    /\ pc[g] \in {"lock"} \cup InsideLock => op[g] \in {"sign", "generate"}

\* A call has no result before its outcome is known.
RetInv ==
  \A g \in Goroutines :
    pc[g] \in Steps \ {"idle", "unlock", "free"} => ret[g] = "none"

\* From the draw on, the caller's seed is one it alone holds.
SeedInv ==
  \A g \in Goroutines :
    pc[g] \in {"init", "crypto"} =>
      /\ seed[g] \in 1..drawn
      /\ \A o \in outputs : o.seed # seed[g]

\* Inside the C call the generator runs on the caller's seed, and the caller
\* has read its stream from the start.
StreamInv ==
  \A g \in Goroutines :
    pc[g] = "crypto" =>
      /\ drbg.seed = seed[g]
      /\ drbg.pos = Len(reads[g])
      /\ Len(reads[g]) <= MaxReads
      /\ reads[g] = Fresh!Stream(seed[g], Len(reads[g]))

\* What has been handed out is fresh, and no two outputs have one seed.
OutputInv ==
  /\ \A o \in outputs :
       /\ o.seed \in 1..drawn
       /\ Len(o.stream) \in 1..MaxReads
       /\ o.stream = Fresh!Stream(o.seed, Len(o.stream))
  /\ \A o1, o2 \in outputs : o1.seed = o2.seed => o1 = o2

\* The C buffers a goroutine holds, by the step it is at.
HeapInv ==
  \A g \in Goroutines :
    heap[g] =
      IF pc[g] \in {"idle", "malloc_sm"} THEN {}
      ELSE IF pc[g] = "malloc_m" THEN {"sm"}
      ELSE IF pc[g] = "open" THEN {"sm", "m"}
      ELSE IF pc[g] = "free" THEN heap[g]
      ELSE IF op[g] = "sign" THEN {"sm"} ELSE {}

IInv ==
  /\ TypeOK /\ LockInv /\ OpInv /\ RetInv
  /\ SeedInv /\ StreamInv /\ OutputInv /\ HeapInv

-----------------------------------------------------------------------------

USE NoOneAssumption, BoundsAssumption

\* No step leaves the types.
LEMMA TypeStep ==
  ASSUME TypeOK, StreamInv, [Next]_vars
  PROVE  TypeOK'
<1>0. CASE UNCHANGED vars
  BY <1>0 DEF vars, TypeOK, Steps, Operations, Results, SeedSet, Block, Unseeded, StreamInv
<1> SUFFICES ASSUME NEW g \in Goroutines, Begin(g) \/ Step(g)
             PROVE  TypeOK'
  BY <1>0 DEF Next
<1> USE DEF Goto, Result, shared, TypeOK, Steps, Operations, Results, SeedSet, Block, Unseeded, StreamInv
<1>1. CASE BeginSign(g)
  BY <1>1 DEF BeginSign, Enter
<1>2. CASE RejectSign(g)
  BY <1>2 DEF RejectSign, Reject
<1>3. CASE BeginGenerate(g)
  BY <1>3 DEF BeginGenerate, Enter
<1>4. CASE BeginVerify(g)
  BY <1>4 DEF BeginVerify, Enter
<1>5. CASE RejectVerify(g)
  BY <1>5 DEF RejectVerify, Reject
<1>6. CASE MallocSm(g)
  BY <1>6 DEF MallocSm
<1>7. CASE MallocSmFails(g)
  BY <1>7 DEF MallocSmFails
<1>8. CASE Lock(g)
  BY <1>8 DEF Lock
<1>9. CASE Reseed(g)
  <2>1. drawn' \in 0..MaxDraws /\ drawn + 1 \in 1..MaxDraws
    BY <1>9 DEF Reseed
  <2>2. seed' \in [Goroutines -> SeedSet]
    BY <1>9, <2>1 DEF Reseed
  <2>3. pc' \in [Goroutines -> Steps]
    BY <1>9 DEF Reseed
  <2>4. QED
    BY <1>9, <2>1, <2>2, <2>3 DEF Reseed
<1>10. CASE ReseedFails(g)
  BY <1>10 DEF ReseedFails
<1>11. CASE InitDRBG(g)
  BY <1>11 DEF InitDRBG
<1>12. CASE RandomBytes(g)
  <2>1. /\ drbg.pos = Len(reads[g]) /\ Len(reads[g]) < MaxReads
        /\ drbg.seed \in SeedSet /\ drbg.pos \in Nat
    BY <1>12 DEF RandomBytes
  <2>2. drbg' \in [seed : SeedSet, pos : 0..MaxReads]
    <3>1. drbg.pos + 1 \in 0..MaxReads
      BY <2>1
    <3>2. drbg' = [drbg EXCEPT !.pos = drbg.pos + 1]
      BY <1>12 DEF RandomBytes
    <3>3. drbg \in [seed : SeedSet, pos : 0..MaxReads]
      OBVIOUS
    <3>4. QED
      BY ONLY <3>1, <3>2, <3>3
  <2>3. <<drbg.seed, drbg.pos>> \in Block
    BY <2>1
  <2>4. Append(reads[g], <<drbg.seed, drbg.pos>>) \in Seq(Block)
    BY <2>3
  <2>5. reads' \in [Goroutines -> Seq(Block)]
    BY <1>12, <2>4 DEF RandomBytes
  <2>6. QED
    BY <1>12, <2>2, <2>5 DEF RandomBytes
<1>13. CASE CryptoReturns(g)
  <2>1. [by |-> g, seed |-> seed[g], stream |-> reads[g]]
          \in [by : Goroutines, seed : SeedSet, stream : Seq(Block)]
    OBVIOUS
  <2>2. QED
    BY <1>13, <2>1 DEF CryptoReturns
<1>14. CASE CryptoFails(g)
  BY <1>14 DEF CryptoFails
<1>15. CASE Unlock(g)
  BY <1>15 DEF Unlock
<1>16. CASE MallocM(g)
  BY <1>16 DEF MallocM
<1>17. CASE MallocMFails(g)
  BY <1>17 DEF MallocMFails
<1>18. ASSUME NEW r \in {"ok", "ErrSig"}, CryptoOpen(g, r)
      PROVE  TypeOK'
  BY <1>18 DEF CryptoOpen
<1>19. CASE Free(g)
  BY <1>19 DEF Free
<1>20. QED
  BY <1>1, <1>2, <1>3, <1>4, <1>5, <1>6, <1>7, <1>8, <1>9, <1>10, <1>11, <1>12, <1>13, <1>14, <1>15, <1>16, <1>17, <1>18, <1>19
     DEF Begin, Step, LockedStep, VerifyStep

\* Only Lock enters the locked region, only Unlock leaves it.
LEMMA LockStep ==
  ASSUME TypeOK, LockInv, [Next]_vars
  PROVE  LockInv'
<1>0. CASE UNCHANGED vars
  BY <1>0 DEF vars, TypeOK, Steps, Operations, Results, LockInv, InsideLock
<1> SUFFICES ASSUME NEW g \in Goroutines, Begin(g) \/ Step(g)
             PROVE  LockInv'
  BY <1>0 DEF Next
<1> USE DEF Goto, Result, shared, TypeOK, Steps, Operations, Results, LockInv, InsideLock
<1>1. CASE BeginSign(g)
  BY <1>1 DEF BeginSign, Enter
<1>2. CASE RejectSign(g)
  BY <1>2 DEF RejectSign, Reject
<1>3. CASE BeginGenerate(g)
  BY <1>3 DEF BeginGenerate, Enter
<1>4. CASE BeginVerify(g)
  BY <1>4 DEF BeginVerify, Enter
<1>5. CASE RejectVerify(g)
  BY <1>5 DEF RejectVerify, Reject
<1>6. CASE MallocSm(g)
  BY <1>6 DEF MallocSm
<1>7. CASE MallocSmFails(g)
  BY <1>7 DEF MallocSmFails
<1>8. CASE Lock(g)
  BY <1>8 DEF Lock
<1>9. CASE Reseed(g)
  BY <1>9 DEF Reseed
<1>10. CASE ReseedFails(g)
  BY <1>10 DEF ReseedFails
<1>11. CASE InitDRBG(g)
  BY <1>11 DEF InitDRBG
<1>12. CASE RandomBytes(g)
  BY <1>12 DEF RandomBytes
<1>13. CASE CryptoReturns(g)
  BY <1>13 DEF CryptoReturns
<1>14. CASE CryptoFails(g)
  BY <1>14 DEF CryptoFails
<1>15. CASE Unlock(g)
  BY <1>15 DEF Unlock
<1>16. CASE MallocM(g)
  BY <1>16 DEF MallocM
<1>17. CASE MallocMFails(g)
  BY <1>17 DEF MallocMFails
<1>18. ASSUME NEW r \in {"ok", "ErrSig"}, CryptoOpen(g, r)
      PROVE  LockInv'
  BY <1>18 DEF CryptoOpen
<1>19. CASE Free(g)
  BY <1>19 DEF Free
<1>20. QED
  BY <1>1, <1>2, <1>3, <1>4, <1>5, <1>6, <1>7, <1>8, <1>9, <1>10, <1>11, <1>12, <1>13, <1>14, <1>15, <1>16, <1>17, <1>18, <1>19
     DEF Begin, Step, LockedStep, VerifyStep

\* No step goes where the called function does not.
LEMMA OpStep ==
  ASSUME TypeOK, OpInv, [Next]_vars
  PROVE  OpInv'
<1>0. CASE UNCHANGED vars
  BY <1>0 DEF vars, TypeOK, Steps, Operations, Results, OpInv, InsideLock
<1> SUFFICES ASSUME NEW g \in Goroutines, Begin(g) \/ Step(g)
             PROVE  OpInv'
  BY <1>0 DEF Next
<1> USE DEF Goto, Result, shared, TypeOK, Steps, Operations, Results, OpInv, InsideLock
<1>1. CASE BeginSign(g)
  BY <1>1 DEF BeginSign, Enter
<1>2. CASE RejectSign(g)
  BY <1>2 DEF RejectSign, Reject
<1>3. CASE BeginGenerate(g)
  BY <1>3 DEF BeginGenerate, Enter
<1>4. CASE BeginVerify(g)
  BY <1>4 DEF BeginVerify, Enter
<1>5. CASE RejectVerify(g)
  BY <1>5 DEF RejectVerify, Reject
<1>6. CASE MallocSm(g)
  BY <1>6 DEF MallocSm
<1>7. CASE MallocSmFails(g)
  BY <1>7 DEF MallocSmFails
<1>8. CASE Lock(g)
  BY <1>8 DEF Lock
<1>9. CASE Reseed(g)
  BY <1>9 DEF Reseed
<1>10. CASE ReseedFails(g)
  BY <1>10 DEF ReseedFails
<1>11. CASE InitDRBG(g)
  BY <1>11 DEF InitDRBG
<1>12. CASE RandomBytes(g)
  BY <1>12 DEF RandomBytes
<1>13. CASE CryptoReturns(g)
  BY <1>13 DEF CryptoReturns
<1>14. CASE CryptoFails(g)
  BY <1>14 DEF CryptoFails
<1>15. CASE Unlock(g)
  BY <1>15 DEF Unlock
<1>16. CASE MallocM(g)
  BY <1>16 DEF MallocM
<1>17. CASE MallocMFails(g)
  BY <1>17 DEF MallocMFails
<1>18. ASSUME NEW r \in {"ok", "ErrSig"}, CryptoOpen(g, r)
      PROVE  OpInv'
  BY <1>18 DEF CryptoOpen
<1>19. CASE Free(g)
  BY <1>19 DEF Free
<1>20. QED
  BY <1>1, <1>2, <1>3, <1>4, <1>5, <1>6, <1>7, <1>8, <1>9, <1>10, <1>11, <1>12, <1>13, <1>14, <1>15, <1>16, <1>17, <1>18, <1>19
     DEF Begin, Step, LockedStep, VerifyStep

\* No step sets a result early.
LEMMA RetStep ==
  ASSUME TypeOK, RetInv, [Next]_vars
  PROVE  RetInv'
<1>0. CASE UNCHANGED vars
  BY <1>0 DEF vars, TypeOK, Steps, Operations, Results, RetInv
<1> SUFFICES ASSUME NEW g \in Goroutines, Begin(g) \/ Step(g)
             PROVE  RetInv'
  BY <1>0 DEF Next
<1> USE DEF Goto, Result, shared, TypeOK, Steps, Operations, Results, RetInv
<1>1. CASE BeginSign(g)
  BY <1>1 DEF BeginSign, Enter
<1>2. CASE RejectSign(g)
  BY <1>2 DEF RejectSign, Reject
<1>3. CASE BeginGenerate(g)
  BY <1>3 DEF BeginGenerate, Enter
<1>4. CASE BeginVerify(g)
  BY <1>4 DEF BeginVerify, Enter
<1>5. CASE RejectVerify(g)
  BY <1>5 DEF RejectVerify, Reject
<1>6. CASE MallocSm(g)
  BY <1>6 DEF MallocSm
<1>7. CASE MallocSmFails(g)
  BY <1>7 DEF MallocSmFails
<1>8. CASE Lock(g)
  BY <1>8 DEF Lock
<1>9. CASE Reseed(g)
  BY <1>9 DEF Reseed
<1>10. CASE ReseedFails(g)
  BY <1>10 DEF ReseedFails
<1>11. CASE InitDRBG(g)
  BY <1>11 DEF InitDRBG
<1>12. CASE RandomBytes(g)
  BY <1>12 DEF RandomBytes
<1>13. CASE CryptoReturns(g)
  BY <1>13 DEF CryptoReturns
<1>14. CASE CryptoFails(g)
  BY <1>14 DEF CryptoFails
<1>15. CASE Unlock(g)
  BY <1>15 DEF Unlock
<1>16. CASE MallocM(g)
  BY <1>16 DEF MallocM
<1>17. CASE MallocMFails(g)
  BY <1>17 DEF MallocMFails
<1>18. ASSUME NEW r \in {"ok", "ErrSig"}, CryptoOpen(g, r)
      PROVE  RetInv'
  BY <1>18 DEF CryptoOpen
<1>19. CASE Free(g)
  BY <1>19 DEF Free
<1>20. QED
  BY <1>1, <1>2, <1>3, <1>4, <1>5, <1>6, <1>7, <1>8, <1>9, <1>10, <1>11, <1>12, <1>13, <1>14, <1>15, <1>16, <1>17, <1>18, <1>19
     DEF Begin, Step, LockedStep, VerifyStep

\* No step loses track of a C buffer.
LEMMA HeapStep ==
  ASSUME TypeOK, OpInv, HeapInv, [Next]_vars
  PROVE  HeapInv'
<1>0. CASE UNCHANGED vars
  BY <1>0 DEF vars, TypeOK, Steps, Operations, Results, HeapInv, OpInv, InsideLock
<1> SUFFICES ASSUME NEW g \in Goroutines, Begin(g) \/ Step(g)
             PROVE  HeapInv'
  BY <1>0 DEF Next
<1> USE DEF Goto, Result, shared, TypeOK, Steps, Operations, Results, HeapInv, OpInv, InsideLock
<1>1. CASE BeginSign(g)
  BY <1>1 DEF BeginSign, Enter
<1>2. CASE RejectSign(g)
  BY <1>2 DEF RejectSign, Reject
<1>3. CASE BeginGenerate(g)
  BY <1>3 DEF BeginGenerate, Enter
<1>4. CASE BeginVerify(g)
  BY <1>4 DEF BeginVerify, Enter
<1>5. CASE RejectVerify(g)
  BY <1>5 DEF RejectVerify, Reject
<1>6. CASE MallocSm(g)
  BY <1>6 DEF MallocSm
<1>7. CASE MallocSmFails(g)
  BY <1>7 DEF MallocSmFails
<1>8. CASE Lock(g)
  BY <1>8 DEF Lock
<1>9. CASE Reseed(g)
  BY <1>9 DEF Reseed
<1>10. CASE ReseedFails(g)
  BY <1>10 DEF ReseedFails
<1>11. CASE InitDRBG(g)
  BY <1>11 DEF InitDRBG
<1>12. CASE RandomBytes(g)
  BY <1>12 DEF RandomBytes
<1>13. CASE CryptoReturns(g)
  BY <1>13 DEF CryptoReturns
<1>14. CASE CryptoFails(g)
  BY <1>14 DEF CryptoFails
<1>15. CASE Unlock(g)
  BY <1>15 DEF Unlock
<1>16. CASE MallocM(g)
  BY <1>16 DEF MallocM
<1>17. CASE MallocMFails(g)
  BY <1>17 DEF MallocMFails
<1>18. ASSUME NEW r \in {"ok", "ErrSig"}, CryptoOpen(g, r)
      PROVE  HeapInv'
  BY <1>18 DEF CryptoOpen
<1>19. CASE Free(g)
  BY <1>19 DEF Free
<1>20. QED
  BY <1>1, <1>2, <1>3, <1>4, <1>5, <1>6, <1>7, <1>8, <1>9, <1>10, <1>11, <1>12, <1>13, <1>14, <1>15, <1>16, <1>17, <1>18, <1>19
     DEF Begin, Step, LockedStep, VerifyStep

\* No step hands a seed to two calls.
LEMMA SeedStep ==
  ASSUME TypeOK, LockInv, SeedInv, OutputInv, [Next]_vars
  PROVE  SeedInv'
<1>0. CASE UNCHANGED vars
  BY <1>0 DEF vars, TypeOK, Steps, Operations, Results, SeedInv, LockInv, InsideLock, OutputInv, SeedSet
<1> SUFFICES ASSUME NEW g \in Goroutines, Begin(g) \/ Step(g)
             PROVE  SeedInv'
  BY <1>0 DEF Next
<1> USE DEF Goto, Result, shared, TypeOK, Steps, Operations, Results, SeedInv, LockInv, InsideLock, OutputInv, SeedSet
<1>1. CASE BeginSign(g)
  BY <1>1 DEF BeginSign, Enter
<1>2. CASE RejectSign(g)
  BY <1>2 DEF RejectSign, Reject
<1>3. CASE BeginGenerate(g)
  BY <1>3 DEF BeginGenerate, Enter
<1>4. CASE BeginVerify(g)
  BY <1>4 DEF BeginVerify, Enter
<1>5. CASE RejectVerify(g)
  BY <1>5 DEF RejectVerify, Reject
<1>6. CASE MallocSm(g)
  BY <1>6 DEF MallocSm
<1>7. CASE MallocSmFails(g)
  BY <1>7 DEF MallocSmFails
<1>8. CASE Lock(g)
  BY <1>8 DEF Lock
<1>9. CASE Reseed(g)
  BY <1>9 DEF Reseed
<1>10. CASE ReseedFails(g)
  BY <1>10 DEF ReseedFails
<1>11. CASE InitDRBG(g)
  BY <1>11 DEF InitDRBG
<1>12. CASE RandomBytes(g)
  BY <1>12 DEF RandomBytes
<1>13. CASE CryptoReturns(g)
  BY <1>13 DEF CryptoReturns
<1>14. CASE CryptoFails(g)
  BY <1>14 DEF CryptoFails
<1>15. CASE Unlock(g)
  BY <1>15 DEF Unlock
<1>16. CASE MallocM(g)
  BY <1>16 DEF MallocM
<1>17. CASE MallocMFails(g)
  BY <1>17 DEF MallocMFails
<1>18. ASSUME NEW r \in {"ok", "ErrSig"}, CryptoOpen(g, r)
      PROVE  SeedInv'
  BY <1>18 DEF CryptoOpen
<1>19. CASE Free(g)
  BY <1>19 DEF Free
<1>20. QED
  BY <1>1, <1>2, <1>3, <1>4, <1>5, <1>6, <1>7, <1>8, <1>9, <1>10, <1>11, <1>12, <1>13, <1>14, <1>15, <1>16, <1>17, <1>18, <1>19
     DEF Begin, Step, LockedStep, VerifyStep

\* No step of another goroutine disturbs the stream a call is reading.
LEMMA StreamStep ==
  ASSUME TypeOK, LockInv, StreamInv, [Next]_vars
  PROVE  StreamInv'
<1>0. CASE UNCHANGED vars
  BY <1>0 DEF vars, TypeOK, Steps, Operations, Results, StreamInv, LockInv, InsideLock, Fresh!Stream, SeedSet, Block
<1> SUFFICES ASSUME NEW g \in Goroutines, Begin(g) \/ Step(g)
             PROVE  StreamInv'
  BY <1>0 DEF Next
<1> USE DEF Goto, Result, shared, TypeOK, Steps, Operations, Results, StreamInv, LockInv, InsideLock, Fresh!Stream, SeedSet, Block
<1>1. CASE BeginSign(g)
  BY <1>1 DEF BeginSign, Enter
<1>2. CASE RejectSign(g)
  BY <1>2 DEF RejectSign, Reject
<1>3. CASE BeginGenerate(g)
  BY <1>3 DEF BeginGenerate, Enter
<1>4. CASE BeginVerify(g)
  BY <1>4 DEF BeginVerify, Enter
<1>5. CASE RejectVerify(g)
  BY <1>5 DEF RejectVerify, Reject
<1>6. CASE MallocSm(g)
  BY <1>6 DEF MallocSm
<1>7. CASE MallocSmFails(g)
  BY <1>7 DEF MallocSmFails
<1>8. CASE Lock(g)
  BY <1>8 DEF Lock
<1>9. CASE Reseed(g)
  BY <1>9 DEF Reseed
<1>10. CASE ReseedFails(g)
  BY <1>10 DEF ReseedFails
<1>11. CASE InitDRBG(g)
  BY <1>11 DEF InitDRBG
<1>12. CASE RandomBytes(g)
  <2>1. /\ reads[g] \in Seq(Block)
        /\ reads[g] = [i \in 1..Len(reads[g]) |-> <<seed[g], i - 1>>]
        /\ drbg.seed = seed[g] /\ drbg.pos = Len(reads[g])
    BY <1>12 DEF RandomBytes
  <2>2. <<drbg.seed, drbg.pos>> \in Block
    BY <1>12 DEF RandomBytes
  <2>3. Append(reads[g], <<drbg.seed, drbg.pos>>)
          = [i \in 1..(Len(reads[g]) + 1) |-> <<seed[g], i - 1>>]
    BY <2>1, <2>2
  <2>4. Len(Append(reads[g], <<drbg.seed, drbg.pos>>)) = Len(reads[g]) + 1
    BY <2>1, <2>2
  <2>5. /\ reads'[g] = Append(reads[g], <<drbg.seed, drbg.pos>>)
        /\ drbg'.seed = drbg.seed /\ drbg'.pos = drbg.pos + 1
        /\ seed' = seed /\ pc' = pc /\ drbgMu = g
    BY <1>12 DEF RandomBytes
  <2>6. reads'[g] = [i \in 1..Len(reads'[g]) |-> <<seed'[g], i - 1>>]
    BY <2>3, <2>4, <2>5
  <2>7. /\ Len(reads'[g]) = Len(reads[g]) + 1
        /\ Len(reads[g]) \in Nat /\ Len(reads[g]) < MaxReads
    BY <1>12, <2>1, <2>4, <2>5 DEF RandomBytes
  <2>8. \A h \in Goroutines : pc'[h] = "crypto" => h = g
    BY <2>5
  <2>9. /\ drbg'.seed = seed'[g]
        /\ drbg'.pos = Len(reads'[g])
        /\ Len(reads'[g]) <= MaxReads
    <3>1. drbg'.pos = Len(reads'[g])
      BY ONLY <2>1, <2>5, <2>7
    <3>2. Len(reads'[g]) <= MaxReads
      BY ONLY <2>7, BoundsAssumption
    <3>3. QED
      BY ONLY <2>1, <2>5, <3>1, <3>2
  <2>10. QED
    BY ONLY <2>6, <2>8, <2>9 DEF StreamInv, Fresh!Stream
<1>13. CASE CryptoReturns(g)
  BY <1>13 DEF CryptoReturns
<1>14. CASE CryptoFails(g)
  BY <1>14 DEF CryptoFails
<1>15. CASE Unlock(g)
  BY <1>15 DEF Unlock
<1>16. CASE MallocM(g)
  BY <1>16 DEF MallocM
<1>17. CASE MallocMFails(g)
  BY <1>17 DEF MallocMFails
<1>18. ASSUME NEW r \in {"ok", "ErrSig"}, CryptoOpen(g, r)
      PROVE  StreamInv'
  BY <1>18 DEF CryptoOpen
<1>19. CASE Free(g)
  BY <1>19 DEF Free
<1>20. QED
  BY <1>1, <1>2, <1>3, <1>4, <1>5, <1>6, <1>7, <1>8, <1>9, <1>10, <1>11, <1>12, <1>13, <1>14, <1>15, <1>16, <1>17, <1>18, <1>19
     DEF Begin, Step, LockedStep, VerifyStep

\* No step hands out an output that is not fresh.
LEMMA OutputStep ==
  ASSUME TypeOK, SeedInv, StreamInv, OutputInv, [Next]_vars
  PROVE  OutputInv'
<1>0. CASE UNCHANGED vars
  BY <1>0 DEF vars, TypeOK, Steps, Operations, Results, OutputInv, SeedInv, StreamInv, SeedSet
<1> SUFFICES ASSUME NEW g \in Goroutines, Begin(g) \/ Step(g)
             PROVE  OutputInv'
  BY <1>0 DEF Next
<1> USE DEF Goto, Result, shared, TypeOK, Steps, Operations, Results, OutputInv, SeedInv, StreamInv, SeedSet
<1>1. CASE BeginSign(g)
  BY <1>1 DEF BeginSign, Enter
<1>2. CASE RejectSign(g)
  BY <1>2 DEF RejectSign, Reject
<1>3. CASE BeginGenerate(g)
  BY <1>3 DEF BeginGenerate, Enter
<1>4. CASE BeginVerify(g)
  BY <1>4 DEF BeginVerify, Enter
<1>5. CASE RejectVerify(g)
  BY <1>5 DEF RejectVerify, Reject
<1>6. CASE MallocSm(g)
  BY <1>6 DEF MallocSm
<1>7. CASE MallocSmFails(g)
  BY <1>7 DEF MallocSmFails
<1>8. CASE Lock(g)
  BY <1>8 DEF Lock
<1>9. CASE Reseed(g)
  BY <1>9 DEF Reseed
<1>10. CASE ReseedFails(g)
  BY <1>10 DEF ReseedFails
<1>11. CASE InitDRBG(g)
  BY <1>11 DEF InitDRBG
<1>12. CASE RandomBytes(g)
  BY <1>12 DEF RandomBytes
<1>13. CASE CryptoReturns(g)
  BY <1>13 DEF CryptoReturns
<1>14. CASE CryptoFails(g)
  BY <1>14 DEF CryptoFails
<1>15. CASE Unlock(g)
  BY <1>15 DEF Unlock
<1>16. CASE MallocM(g)
  BY <1>16 DEF MallocM
<1>17. CASE MallocMFails(g)
  BY <1>17 DEF MallocMFails
<1>18. ASSUME NEW r \in {"ok", "ErrSig"}, CryptoOpen(g, r)
      PROVE  OutputInv'
  BY <1>18 DEF CryptoOpen
<1>19. CASE Free(g)
  BY <1>19 DEF Free
<1>20. QED
  BY <1>1, <1>2, <1>3, <1>4, <1>5, <1>6, <1>7, <1>8, <1>9, <1>10, <1>11, <1>12, <1>13, <1>14, <1>15, <1>16, <1>17, <1>18, <1>19
     DEF Begin, Step, LockedStep, VerifyStep

-----------------------------------------------------------------------------
(* The invariant, and what follows from it.                                *)

\* The inductive invariant holds in every reachable state.
LEMMA Invariance == Spec => []IInv
<1>1. Init => IInv
  <2> SUFFICES ASSUME Init PROVE IInv
    OBVIOUS
  <2> USE DEF Init, Unseeded, SeedSet
  <2>1. TypeOK
    BY DEF TypeOK, Steps, Operations, Results, Block
  <2>2. LockInv /\ OpInv /\ RetInv
    BY DEF LockInv, OpInv, RetInv, InsideLock
  <2>3. SeedInv /\ StreamInv /\ OutputInv /\ HeapInv
    BY DEF SeedInv, StreamInv, OutputInv, HeapInv
  <2>4. QED
    BY <2>1, <2>2, <2>3 DEF IInv
<1>2. IInv /\ [Next]_vars => IInv'
  <2> SUFFICES ASSUME IInv, [Next]_vars PROVE IInv'
    OBVIOUS
  <2>1. TypeOK' /\ LockInv' /\ OpInv' /\ RetInv'
    BY TypeStep, LockStep, OpStep, RetStep DEF IInv
  <2>2. SeedInv' /\ StreamInv' /\ OutputInv' /\ HeapInv'
    BY SeedStep, StreamStep, OutputStep, HeapStep DEF IInv
  <2>3. QED
    BY <2>1, <2>2 DEF IInv
<1>3. QED
  BY <1>1, <1>2, PTL DEF Spec

\* Type correctness of the adapter's state.
THEOREM TypeCorrect == Spec => []TypeOK
<1>1. IInv => TypeOK
  BY DEF IInv
<1>2. QED
  BY <1>1, Invariance, PTL

\* Every signature and key pair comes from the seed its own call drew, read
\* from the start of that seed's stream.
THEOREM FreshOutputs == Spec => []OutputsFresh
<1>1. IInv => OutputsFresh
  <2> SUFFICES ASSUME IInv, NEW o \in outputs
               PROVE  /\ o.seed \in 1..drawn
                      /\ o.stream # <<>>
                      /\ o.stream = Fresh!Stream(o.seed, Len(o.stream))
    BY DEF OutputsFresh
  <2>1. /\ o.seed \in 1..drawn
        /\ Len(o.stream) \in 1..MaxReads
        /\ o.stream = Fresh!Stream(o.seed, Len(o.stream))
    BY DEF IInv, OutputInv
  <2>2. o.stream # <<>>
    BY <2>1
  <2>3. QED
    BY <2>1, <2>2
<1>2. QED
  BY <1>1, Invariance, PTL

\* No block of randomness goes into two outputs.
THEOREM DisjointRandomness == Spec => []NoSharedRandomness
<1>1. IInv => NoSharedRandomness
  <2> SUFFICES ASSUME IInv,
                      NEW o1 \in outputs, NEW o2 \in outputs, o1 # o2,
                      NEW i \in DOMAIN o1.stream, NEW j \in DOMAIN o2.stream
               PROVE  o1.stream[i] # o2.stream[j]
    BY DEF NoSharedRandomness
  <2>1. o1.seed # o2.seed
    BY DEF IInv, OutputInv
  <2>2. ASSUME NEW o \in outputs, NEW k \in DOMAIN o.stream
        PROVE  o.stream[k] = <<o.seed, k - 1>>
    <3>1. o.stream = [n \in 1..Len(o.stream) |-> <<o.seed, n - 1>>]
      BY DEF IInv, OutputInv, Fresh!Stream
    <3>2. DOMAIN o.stream = 1..Len(o.stream)
      BY ONLY <3>1
    <3>3. QED
      BY ONLY <3>1, <3>2, k \in DOMAIN o.stream
  <2>3. o1.stream[i] = <<o1.seed, i - 1>> /\ o2.stream[j] = <<o2.seed, j - 1>>
    BY <2>2
  <2>4. QED
    BY <2>1, <2>2, <2>3
<1>2. QED
  BY <1>1, Invariance, PTL

\* The generator changes only in a step of drbgMu's holder, and the mutex is
\* released before another goroutine gets it.
THEOREM LockDiscipline == Spec => DRBGOnlyUnderLock
<1> DEFINE Disciplined ==
      /\ drbg' # drbg => /\ drbgMu \in Goroutines
                         /\ drbgMu' = drbgMu
                         /\ \A g \in Goroutines \ {drbgMu} : pc'[g] = pc[g]
      /\ drbgMu' \in {drbgMu, NoOne} \/ drbgMu = NoOne
<1>1. IInv /\ [Next]_vars => [Disciplined]_vars
  <2> SUFFICES ASSUME IInv, NEW g \in Goroutines, Begin(g) \/ Step(g)
               PROVE  Disciplined
    BY DEF Next
  <2>1. pc \in [Goroutines -> Steps] /\ LockInv
    BY DEF IInv, TypeOK
  <2>2. CASE InitDRBG(g) \/ RandomBytes(g)
    BY <2>1, <2>2 DEF InitDRBG, RandomBytes, Goto, LockInv, InsideLock
  <2>3. CASE Lock(g) \/ Unlock(g)
    BY <2>3 DEF Lock, Unlock
  <2>4. CASE Reseed(g) \/ ReseedFails(g) \/ CryptoReturns(g) \/ CryptoFails(g)
    BY <2>4 DEF Reseed, ReseedFails, CryptoReturns, CryptoFails, shared
  <2>5. CASE Begin(g)
    BY <2>5 DEF Begin, BeginSign, RejectSign, BeginGenerate, BeginVerify,
                RejectVerify, Enter, Reject, shared
  <2>6. CASE MallocSm(g) \/ MallocSmFails(g) \/ VerifyStep(g) \/ Free(g)
    BY <2>6 DEF MallocSm, MallocSmFails, VerifyStep, MallocM, MallocMFails,
                CryptoOpen, Free, shared
  <2>7. QED
    BY <2>2, <2>3, <2>4, <2>5, <2>6 DEF Step, LockedStep
<1>2. QED
  BY <1>1, Invariance, PTL DEF Spec, DRBGOnlyUnderLock

\* C buffers: nothing leaks, nothing is missing when C runs.
THEOREM BuffersHeld == Spec => []BuffersHeldExactlyDuringCalls
<1>1. IInv => BuffersHeldExactlyDuringCalls
  BY DEF IInv, HeapInv, BuffersHeldExactlyDuringCalls
<1>2. QED
  BY <1>1, Invariance, PTL

-----------------------------------------------------------------------------
(* Progress: what CallsReturn rests on besides fairness.                   *)

\* The most steps a call at each line has before it: those of the longest way
\* from there to its return, MaxReads calls of randombytes among them.
LinesLeft ==
  [idle |-> 0, free |-> 1, unlock |-> 2, open |-> 2, malloc_m |-> 3,
   crypto |-> 3, init |-> MaxReads + 4, reseed |-> MaxReads + 5,
   lock |-> MaxReads + 6, malloc_sm |-> MaxReads + 7]

StepsLeft(g) ==
  LinesLeft[pc[g]] + (IF pc[g] = "crypto" THEN MaxReads - Len(reads[g]) ELSE 0)

\* Every step of a call, an error return too, brings it nearer to its return,
\* and no step of another goroutine sends it back: a call takes at most
\* MaxReads + 7 steps (Sign, Generate and VerifySignature have no loop).
CallsAdvance ==
  [][\A g \in Goroutines :
       /\ Step(g) => StepsLeft(g)' \in 0..(StepsLeft(g) - 1)
       /\ pc[g] # "idle" => StepsLeft(g)' \in 0..StepsLeft(g)]_vars

\* Whoever waits for drbgMu is in Sign or Generate and waits for a goroutine
\* that is inside its own call and past the lock, so that it waits for nobody:
\* no error return leaves the mutex behind, and no goroutine waits for itself.
WaitsForARunner ==
  \A g \in Goroutines :
    Waits(g) => /\ op[g] \in {"sign", "generate"}
                /\ drbgMu \in Goroutines \ {g}
                /\ pc[drbgMu] \notin {"idle", "lock"}

\* A step of one goroutine touches neither the control state nor the reads
\* of another.
LEMMA OthersKeep ==
  ASSUME TypeOK, NEW g \in Goroutines, Begin(g) \/ Step(g)
  PROVE  \A h \in Goroutines \ {g} :
           pc'[h] = pc[h] /\ op'[h] = op[h] /\ ret'[h] = ret[h] /\ reads'[h] = reads[h]
<1> USE DEF TypeOK, Goto, Result
<1>1. CASE Begin(g)
  BY <1>1 DEF Begin, BeginSign, RejectSign, BeginGenerate, BeginVerify, RejectVerify,
              Enter, Reject, shared
<1>2. CASE MallocSm(g) \/ MallocSmFails(g) \/ Lock(g) \/ Free(g)
  BY <1>2 DEF MallocSm, MallocSmFails, Lock, Free, shared
<1>3. CASE LockedStep(g)
  BY <1>3 DEF LockedStep, Reseed, ReseedFails, InitDRBG, RandomBytes, CryptoReturns,
              CryptoFails, Unlock, shared
<1>4. CASE VerifyStep(g)
  BY <1>4 DEF VerifyStep, MallocM, MallocMFails, CryptoOpen, shared
<1>5. QED
  BY <1>1, <1>2, <1>3, <1>4 DEF Step

\* How far a call is from its return is a number.
LEMMA StepsLeftBound ==
  ASSUME TypeOK, StreamInv, NEW g \in Goroutines
  PROVE  StepsLeft(g) \in 0..(MaxReads + 7)
<1>1. /\ pc[g] \in Steps
      /\ pc[g] = "crypto" => MaxReads - Len(reads[g]) \in 0..MaxReads
  BY DEF TypeOK, StreamInv
<1>2. QED
  BY <1>1 DEF StepsLeft, LinesLeft, Steps

\* One step of a call: each line is followed by one nearer to the return.
LEMMA StepAdvances ==
  ASSUME TypeOK, TypeOK', StreamInv, StreamInv', OpInv, NEW g \in Goroutines, Step(g)
  PROVE  StepsLeft(g)' \in 0..(StepsLeft(g) - 1)
<1>0. /\ pc[g] \in Steps /\ pc'[g] \in Steps
      /\ StepsLeft(g) \in Nat /\ StepsLeft(g)' \in Nat
      /\ pc[g] = "crypto" => MaxReads - Len(reads[g]) \in Nat
  <2>1. StepsLeft(g) \in Nat
    BY StepsLeftBound
  <2>2. StepsLeft(g)' \in Nat
    <3>1. pc'[g] \in Steps /\ (pc'[g] = "crypto" => MaxReads - Len(reads'[g]) \in 0..MaxReads)
      BY DEF TypeOK, StreamInv
    <3>2. QED
      BY <3>1 DEF StepsLeft, LinesLeft, Steps
  <2>3. QED
    BY <2>1, <2>2 DEF TypeOK, StreamInv
<1> SUFFICES StepsLeft(g)' < StepsLeft(g)
  BY <1>0
<1>1. CASE MallocSm(g) \/ MallocSmFails(g)
  <2>1. pc[g] = "malloc_sm" /\ pc'[g] \in {"lock", "malloc_m", "idle"}
    BY <1>1 DEF MallocSm, MallocSmFails, Goto, TypeOK
  <2>2. QED
    BY <2>1 DEF StepsLeft, LinesLeft
<1>2. CASE Lock(g) \/ Reseed(g) \/ ReseedFails(g)
  <2>1. \/ pc[g] = "lock" /\ pc'[g] = "reseed"
        \/ pc[g] = "reseed" /\ pc'[g] \in {"init", "unlock"}
    BY <1>2 DEF Lock, Reseed, ReseedFails, Goto, TypeOK
  <2>2. QED
    BY <2>1 DEF StepsLeft, LinesLeft
<1>3. CASE InitDRBG(g)
  <2>1. reads'[g] = <<>> /\ pc[g] = "init" /\ pc'[g] = "crypto"
    BY <1>3 DEF InitDRBG, Goto, TypeOK
  <2>2. QED
    BY <2>1 DEF StepsLeft, LinesLeft
<1>4. CASE RandomBytes(g)
  <2>1. /\ pc[g] = "crypto" /\ pc'[g] = "crypto"
        /\ Len(reads'[g]) = Len(reads[g]) + 1
    BY <1>4 DEF RandomBytes, TypeOK
  <2>2. reads[g] \in Seq(Block) /\ Len(reads[g]) \in Nat
    BY DEF TypeOK
  <2>3. QED
    BY <2>1, <2>2 DEF StepsLeft, LinesLeft
<1>5. CASE CryptoReturns(g) \/ CryptoFails(g)
  <2>1. pc[g] = "crypto" /\ pc'[g] = "unlock"
    BY <1>5 DEF CryptoReturns, CryptoFails, Goto, TypeOK
  <2>2. QED
    BY <1>0, <2>1 DEF StepsLeft, LinesLeft
<1>6. CASE Unlock(g) \/ Free(g)
  <2>1. \/ pc[g] = "unlock" /\ pc'[g] \in {"free", "idle"}
        \/ pc[g] = "free" /\ pc'[g] = "idle"
    BY <1>6 DEF Unlock, Free, Goto, TypeOK
  <2>2. QED
    BY <2>1 DEF StepsLeft, LinesLeft
<1>7. CASE MallocM(g) \/ MallocMFails(g) \/ CryptoOpen(g, "ok") \/ CryptoOpen(g, "ErrSig")
  <2>1. \/ pc[g] = "malloc_m" /\ pc'[g] \in {"open", "free"}
        \/ pc[g] = "open" /\ pc'[g] = "free"
    BY <1>7 DEF MallocM, MallocMFails, CryptoOpen, Goto, TypeOK
  <2>2. QED
    BY <2>1 DEF StepsLeft, LinesLeft
<1>8. QED
  BY <1>1, <1>2, <1>3, <1>4, <1>5, <1>6, <1>7 DEF Step, LockedStep, VerifyStep

\* Every step of a call brings it nearer to its return, whatever fails, and
\* no other goroutine's step sends it back.
THEOREM CallProgress == Spec => CallsAdvance
<1> DEFINE Advance ==
      \A g \in Goroutines :
        /\ Step(g) => StepsLeft(g)' \in 0..(StepsLeft(g) - 1)
        /\ pc[g] # "idle" => StepsLeft(g)' \in 0..StepsLeft(g)
<1>1. IInv /\ IInv' /\ [Next]_vars => [Advance]_vars
  <2> SUFFICES ASSUME IInv, IInv', NEW h \in Goroutines, Begin(h) \/ Step(h),
                      NEW g \in Goroutines
               PROVE  /\ Step(g) => StepsLeft(g)' \in 0..(StepsLeft(g) - 1)
                      /\ pc[g] # "idle" => StepsLeft(g)' \in 0..StepsLeft(g)
    BY DEF Next
  <2>1. Step(g) => StepsLeft(g)' \in 0..(StepsLeft(g) - 1)
    BY StepAdvances DEF IInv
  <2>2. StepsLeft(g) \in Nat
    BY StepsLeftBound DEF IInv
  <2>3. CASE h = g
    <3>1. Begin(g) => pc[g] = "idle"
      BY DEF Begin, BeginSign, RejectSign, BeginGenerate, BeginVerify, RejectVerify,
             Enter, Reject
    <3>2. QED
      BY <2>1, <2>2, <2>3, <3>1
  <2>4. CASE h # g
    <3>1. pc'[g] = pc[g] /\ reads'[g] = reads[g]
      BY <2>4, OthersKeep DEF IInv
    <3>2. StepsLeft(g)' = StepsLeft(g)
      BY <3>1 DEF StepsLeft
    <3>3. QED
      BY <2>1, <2>2, <3>2
  <2>5. QED
    BY <2>3, <2>4, <2>1
<1>2. QED
  BY <1>1, Invariance, PTL DEF Spec, CallsAdvance

\* The mutex a call waits for is held inside another call that waits for
\* nobody.
THEOREM WaitersWaitForRunners == Spec => []WaitsForARunner
<1>1. IInv => WaitsForARunner
  BY DEF IInv, TypeOK, LockInv, OpInv, InsideLock, Waits, WaitsForARunner
<1>2. QED
  BY <1>1, Invariance, PTL

-----------------------------------------------------------------------------
(* Refinement.                                                             *)

\* The phase a goroutine's call is in, as FreshCalls sees it.
phaseBar == [g \in Goroutines |->
               IF pc[g] = "idle" THEN "idle"
               ELSE IF ret[g] = "ok" /\ op[g] # "verify" THEN "served"
               ELSE "open"]

\* A step that changes one goroutine's phase from a to b changes no other's.
LEMMA PhaseStep ==
  ASSUME TypeOK, TypeOK', NEW g \in Goroutines, NEW b,
         \A h \in Goroutines \ {g} : pc'[h] = pc[h] /\ op'[h] = op[h] /\ ret'[h] = ret[h],
         phaseBar'[g] = b
  PROVE  phaseBar' = [phaseBar EXCEPT ![g] = b]
BY DEF phaseBar, TypeOK

\* Steps that leave a caller's phase and the outputs alone are stutters.
LEMMA PhaseStutter ==
  ASSUME TypeOK, TypeOK', NEW g \in Goroutines,
         \A h \in Goroutines \ {g} : pc'[h] = pc[h] /\ op'[h] = op[h] /\ ret'[h] = ret[h],
         phaseBar'[g] = phaseBar[g]
  PROVE  phaseBar' = phaseBar
BY DEF phaseBar, TypeOK

\* Every behaviour of the adapter is one of the abstract service: a call that
\* enters its body opens, CryptoReturns is the moment it produces its output,
\* and the step back to idle is its return; every other step is a stutter.
THEOREM Refinement == Spec => ImplementsFreshCalls
<1>1. Init => Fresh!Init
  BY DEF Init, Fresh!Init
<1>2. IInv /\ IInv' /\ [Next]_vars => [Fresh!Next]_(Fresh!vars)
  <2> SUFFICES ASSUME IInv, IInv', [Next]_vars
               PROVE  [Fresh!Next]_<<phaseBar, outputs>>
    BY DEF phaseBar, Fresh!vars
  <2>0. CASE UNCHANGED vars
    BY <2>0 DEF vars, phaseBar
  <2> SUFFICES ASSUME NEW g \in Goroutines, Begin(g) \/ Step(g)
               PROVE  \/ Fresh!Begin(g) \/ Fresh!Produce(g) \/ Fresh!Return(g)
                      \/ phaseBar' = phaseBar /\ outputs' = outputs
    BY <2>0 DEF Next, Fresh!Next
  <2>1. /\ TypeOK /\ TypeOK'
        /\ \A h \in Goroutines \ {g} : pc'[h] = pc[h] /\ op'[h] = op[h] /\ ret'[h] = ret[h]
    BY OthersKeep DEF IInv
  <2> DEFINE Opens == phaseBar[g] = "idle" /\ phaseBar'[g] = "open" /\ outputs' = outputs
             Closes == phaseBar[g] # "idle" /\ phaseBar'[g] = "idle" /\ outputs' = outputs
             Stays == phaseBar'[g] = phaseBar[g] /\ outputs' = outputs
  <2>2. Opens => Fresh!Begin(g)
    BY <2>1, PhaseStep DEF Fresh!Begin, phaseBar
  <2>3. Closes => Fresh!Return(g)
    BY <2>1, PhaseStep DEF Fresh!Return, phaseBar
  <2>4. Stays => phaseBar' = phaseBar /\ outputs' = outputs
    BY <2>1, PhaseStutter
  <2>5. CASE Begin(g)
    BY <2>5, <2>1, <2>2, <2>4
       DEF Begin, BeginSign, RejectSign, BeginGenerate, BeginVerify, RejectVerify,
           Enter, Reject, shared, Goto, Result, TypeOK, phaseBar
  <2>6. CASE CryptoReturns(g)
    <3>1. /\ phaseBar[g] = "open" /\ phaseBar'[g] = "served"
      BY <2>6, <2>1 DEF CryptoReturns, Goto, Result, TypeOK, phaseBar, IInv, RetInv,
                        OpInv, InsideLock, Steps
    <3>2. /\ seed[g] \in 1..MaxDraws
          /\ \A o \in outputs : o.seed # seed[g]
          /\ Len(reads[g]) \in 1..MaxReads
          /\ reads[g] = Fresh!Stream(seed[g], Len(reads[g]))
      <4>1. reads[g] \in Seq(Block) /\ reads[g] # <<>> /\ drawn \in 0..MaxDraws
        BY <2>6 DEF IInv, TypeOK, CryptoReturns, SeedSet
      <4>2. /\ seed[g] \in 1..drawn
            /\ \A o \in outputs : o.seed # seed[g]
            /\ Len(reads[g]) <= MaxReads
            /\ reads[g] = Fresh!Stream(seed[g], Len(reads[g]))
        BY <2>6 DEF IInv, SeedInv, StreamInv, CryptoReturns
      <4>3. QED
        BY <4>1, <4>2
    <3>3. phaseBar' = [phaseBar EXCEPT ![g] = "served"]
      BY <2>1, <3>1, PhaseStep
    <3>4. outputs' = outputs \cup
            {[by |-> g, seed |-> seed[g], stream |-> Fresh!Stream(seed[g], Len(reads[g]))]}
      BY <2>6, <3>2 DEF CryptoReturns
    <3>5. Fresh!Produce(g)
      BY <3>1, <3>2, <3>3, <3>4 DEF Fresh!Produce, phaseBar
    <3>6. QED
      BY <3>5
  <2>7. CASE MallocSm(g) \/ Lock(g) \/ Reseed(g) \/ InitDRBG(g) \/ RandomBytes(g)
    <3>1. CASE MallocSm(g) \/ Lock(g) \/ Reseed(g)
      BY <3>1, <2>1, <2>4
         DEF MallocSm, Lock, Reseed, shared, Goto, Result, TypeOK, phaseBar
    <3>2. CASE InitDRBG(g) \/ RandomBytes(g)
      BY <3>2, <2>1, <2>4
         DEF InitDRBG, RandomBytes, shared, Goto, Result, TypeOK, phaseBar
    <3>3. QED
      BY <2>7, <3>1, <3>2
  <2>8. CASE ReseedFails(g) \/ CryptoFails(g) \/ MallocM(g) \/ MallocMFails(g)
    <3>0. RetInv
      BY DEF IInv
    <3>1. CASE ReseedFails(g)
      BY <3>0, <3>1, <2>1, <2>4
         DEF ReseedFails, shared, Goto, Result, TypeOK, phaseBar, RetInv, Steps
    <3>2. CASE CryptoFails(g)
      BY <3>0, <3>2, <2>1, <2>4
         DEF CryptoFails, shared, Goto, Result, TypeOK, phaseBar, RetInv, Steps
    <3>3. CASE MallocM(g) \/ MallocMFails(g)
      BY <3>0, <3>3, <2>1, <2>4
         DEF MallocM, MallocMFails, shared, Goto, Result, TypeOK, phaseBar, RetInv, Steps
    <3>4. QED
      BY <2>8, <3>1, <3>2, <3>3
  <2>9. ASSUME NEW r \in {"ok", "ErrSig"}, CryptoOpen(g, r)
        PROVE  Stays
    BY <2>9, <2>1 DEF CryptoOpen, shared, Goto, Result, TypeOK, phaseBar, IInv, RetInv,
                      OpInv, Steps
  <2>10. CASE MallocSmFails(g) \/ Free(g) \/ Unlock(g)
    BY <2>10, <2>1, <2>3, <2>4
       DEF MallocSmFails, Free, Unlock, shared, Goto, Result, TypeOK, phaseBar
  <2>11. QED
    BY <2>4, <2>5, <2>6, <2>7, <2>8, <2>9, <2>10 DEF Step, LockedStep, VerifyStep
<1>3. QED
  BY <1>1, <1>2, Invariance, PTL DEF Spec, Fresh!Spec, ImplementsFreshCalls
=============================================================================
