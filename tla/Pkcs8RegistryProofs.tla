------------------------ MODULE Pkcs8RegistryProofs ------------------------
(***************************************************************************)
(* Proofs about Pkcs8Registry, for every finite set of goroutines, every   *)
(* set of codecs and inputs and whatever the codecs answer: its type       *)
(* invariant, that lookups miss no codec they could know of and agree on   *)
(* an input, and that the locked list implements CodecDirectory.           *)
(***************************************************************************)
EXTENDS Pkcs8Registry, FiniteSetTheorems, NaturalsInduction, WellFoundedInduction, TLAPS

-----------------------------------------------------------------------------
(* The inductive invariant.                                                *)

RegisterCalls == [fn : {"Register"}, codec : Codecs]
LookupCalls == [fn : {"Lookup"}, input : Inputs]

\* The step a goroutine is at fits the function it called, and its call has
\* no answer before the step that decides it.
CallInv ==
  \A g \in Goroutines :
    /\ pc[g] \in {"lock", "drain", "append", "store", "unlock"} => call[g] \in RegisterCalls
    /\ pc[g] \in {"rlock", "rwait", "range", "loop", "runlock"} => call[g] \in LookupCalls
    /\ pc[g] \in Steps \ {"unlock", "runlock", "idle"} => answer[g] = Dir!Undecided
    /\ pc[g] = "unlock" => answer[g] = Dir!Done
    /\ pc[g] = "runlock" => answer[g] # Dir!Undecided

\* mu: who is inside, and that a writer past its Lock is there alone.
LockInv ==
  \A g \in Goroutines :
    /\ pc[g] \in {"drain", "append", "store", "unlock"} <=> writer = g
    /\ pc[g] \in {"range", "loop", "runlock"} <=> g \in readers
    /\ pc[g] \in {"append", "store", "unlock"} => readers = {}
    /\ pc[g] = "rwait" => writer # NoOne

\* A slice loaded under the lock is the package's while the lock is held.
ViewInv ==
  \A g \in Goroutines : pc[g] \in {"store", "loop"} => view[g] = codecs

\* A loop has come past codecs that returned ErrUnsupported, and no others.
LoopInv ==
  \A g \in Goroutines :
    pc[g] = "loop" =>
      /\ index[g] \in 1..(Len(view[g]) + 1)
      /\ \A i \in 1..(index[g] - 1) : ~ Recognizes(view[g][i], call[g].input)

\* What was registered when a call was made still is.
KnownInv ==
  \A g \in Goroutines : known[g] \subseteq {codecs[i] : i \in DOMAIN codecs}

\* A lookup that found a codec has the answer of the first in today's list;
\* one that found none can only have missed codecs registered since.
DecidedInv ==
  \A g \in Goroutines :
    Decided(g) =>
      IF answer[g] = Dir!Unsupported
      THEN \A c \in known[g] : ~ Recognizes(c, call[g].input)
      ELSE answer[g] = Dir!FirstAnswer(codecs, call[g].input)

\* The bound on the list counts the codecs still to be stored.
BoundInv == Expected <= MaxCodecs

IInv ==
  /\ TypeOK /\ CallInv /\ LockInv /\ ViewInv
  /\ LoopInv /\ KnownInv /\ DecidedInv /\ BoundInv

-----------------------------------------------------------------------------
(* The first answer of a list.                                             *)

USE OutcomeAssumption, NoOneAssumption, GoroutinesAssumption, MaxCodecsAssumption

\* The places in list s of the codecs that recognize x.
Claims(s, x) == {i \in DOMAIN s : Recognizes(s[i], x)}

\* The codec that is preceded only by codecs that return ErrUnsupported gives
\* the list's answer.
LEMMA FirstIs ==
  ASSUME NEW s \in Seq(Codecs), NEW x \in Inputs, NEW i \in Claims(s, x),
         \A j \in Claims(s, x) : i <= j
  PROVE  Dir!FirstAnswer(s, x) = [outcome |-> Outcome[s[i]][x], by |-> s[i]]
<1>1. Claims(s, x) \subseteq Nat
  BY DEF Claims
<1>2. \A k \in Claims(s, x) : (\A j \in Claims(s, x) : k <= j) => k = i
  BY <1>1
<1>3. i = CHOOSE k \in Claims(s, x) : \A j \in Claims(s, x) : k <= j
  BY <1>2
<1>4. Claims(s, x) # {}
  OBVIOUS
<1>5. QED
  BY <1>3, <1>4 DEF Dir!FirstAnswer, Claims, Recognizes

\* A list none of whose codecs recognizes the input answers ErrUnsupported.
LEMMA NoneIs ==
  ASSUME NEW s \in Seq(Codecs), NEW x \in Inputs, Claims(s, x) = {}
  PROVE  Dir!FirstAnswer(s, x) = Dir!Unsupported
BY DEF Dir!FirstAnswer, Claims, Recognizes

\* A nonempty set of naturals has a smallest element.
LEMMA Smallest ==
  ASSUME NEW S \in SUBSET Nat, S # {}
  PROVE  \E i \in S : \A j \in S : i <= j
<1>1. IsWellFoundedOn(OpToRel(<, Nat), Nat)
  BY NatLessThanWellFounded
<1>2. PICK i \in S : \A j \in S : ~ (<<j, i>> \in OpToRel(<, Nat))
  BY <1>1, WFMin
<1>3. ASSUME NEW j \in S
      PROVE  i <= j
  <2>1. ~ (<<j, i>> \in OpToRel(<, Nat))
    BY <1>2
  <2>2. <<j, i>> \in Nat \X Nat
    OBVIOUS
  <2>3. ~ (j < i)
    BY <2>1, <2>2 DEF OpToRel
  <2>4. QED
    BY <2>3
<1>4. QED
  BY <1>3

\* Registering one more codec changes no answer but ErrUnsupported.
LEMMA FirstStays ==
  ASSUME NEW s \in Seq(Codecs), NEW c \in Codecs, NEW x \in Inputs,
         Dir!FirstAnswer(s, x) # Dir!Unsupported
  PROVE  Dir!FirstAnswer(Append(s, c), x) = Dir!FirstAnswer(s, x)
<1>1. Claims(s, x) # {}
  BY NoneIs
<1>2. PICK i \in Claims(s, x) : \A j \in Claims(s, x) : i <= j
  <2>1. Claims(s, x) \in SUBSET Nat
    BY DEF Claims
  <2>2. QED
    BY <1>1, <2>1, Smallest
<1>3. /\ i \in DOMAIN s
      /\ Append(s, c) \in Seq(Codecs)
      /\ Append(s, c)[i] = s[i]
  BY DEF Claims
<1>4. /\ i \in Claims(Append(s, c), x)
      /\ \A j \in Claims(Append(s, c), x) : i <= j
  BY <1>2, <1>3 DEF Claims
<1>5. Dir!FirstAnswer(s, x) = [outcome |-> Outcome[s[i]][x], by |-> s[i]]
  BY <1>2, FirstIs
<1>6. Dir!FirstAnswer(Append(s, c), x)
        = [outcome |-> Outcome[Append(s, c)[i]][x], by |-> Append(s, c)[i]]
  BY <1>3, <1>4, FirstIs
<1>7. QED
  BY <1>3, <1>5, <1>6

-----------------------------------------------------------------------------
(* The invariant is preserved, conjunct by conjunct.                       *)

\* A step of one goroutine changes another's place only by admitting it when
\* it waits, and leaves its call and what it has read and decided alone.
LEMMA OthersKeep ==
  ASSUME TypeOK, NEW g \in Goroutines, Begin(g) \/ Step(g),
         NEW h \in Goroutines \ {g}
  PROVE  /\ call'[h] = call[h] /\ answer'[h] = answer[h]
         /\ view'[h] = view[h] /\ index'[h] = index[h] /\ known'[h] = known[h]
         /\ \/ pc'[h] = pc[h]
            \/ pc[g] = "unlock" /\ pc[h] = "rwait" /\ pc'[h] = "range"
<1> USE DEF TypeOK, Goto
<1>1. CASE Begin(g)
  BY <1>1 DEF Begin, BeginRegister, BeginLookup, Enter, lock
<1>2. CASE Announce(g) \/ Drained(g) \/ LoadCodecs(g) \/ StoreCodecs(g) \/ Unlock(g)
  BY <1>2 DEF Announce, Drained, LoadCodecs, StoreCodecs, Unlock, lock
<1>3. CASE RLock(g) \/ RWait(g) \/ RangeCodecs(g) \/ RUnlock(g)
  BY <1>3 DEF RLock, RWait, RangeCodecs, RUnlock, lock
<1>4. CASE TryNext(g) \/ Recognize(g) \/ Exhausted(g)
  BY <1>4 DEF TryNext, Recognize, Exhausted, lock
<1>5. QED
  BY <1>1, <1>2, <1>3, <1>4 DEF Step

\* The readers-writer lock does what it says.
LEMMA LockStep ==
  ASSUME TypeOK, LockInv, NEW g \in Goroutines, Begin(g) \/ Step(g)
  PROVE  LockInv'
<1> USE DEF TypeOK, LockInv, Goto, lock, Steps
<1>1. CASE Begin(g)
  BY <1>1 DEF Begin, BeginRegister, BeginLookup, Enter
<1>2. CASE Announce(g)
  BY <1>2 DEF Announce
<1>3. CASE Drained(g)
  BY <1>3 DEF Drained
<1>4. CASE LoadCodecs(g) \/ StoreCodecs(g)
  BY <1>4 DEF LoadCodecs, StoreCodecs
<1>5. CASE Unlock(g)
  BY <1>5 DEF Unlock
<1>6. CASE RLock(g)
  BY <1>6 DEF RLock
<1>7. CASE RWait(g)
  BY <1>7 DEF RWait
<1>8. CASE RangeCodecs(g) \/ TryNext(g)
  BY <1>8 DEF RangeCodecs, TryNext
<1>9. CASE Recognize(g) \/ Exhausted(g)
  BY <1>9 DEF Recognize, Exhausted
<1>10. CASE RUnlock(g)
  BY <1>10 DEF RUnlock
<1>11. QED
  BY <1>1, <1>2, <1>3, <1>4, <1>5, <1>6, <1>7, <1>8, <1>9, <1>10 DEF Step

\* The domains of the goroutines' state.
Domains ==
  /\ pc \in [Goroutines -> Steps]
  /\ DOMAIN call = Goroutines /\ DOMAIN answer = Goroutines
  /\ DOMAIN view = Goroutines /\ DOMAIN index = Goroutines /\ DOMAIN known = Goroutines

\* What the step lemmas need of the types to apply EXCEPT.
LEMMA TypeGivesDomains == TypeOK => Domains
BY DEF TypeOK, Domains

\* Calls keep to their function's steps.
LEMMA CallStep ==
  ASSUME TypeOK, CallInv, NEW g \in Goroutines, Begin(g) \/ Step(g)
  PROVE  CallInv'
<1>0. Domains
  BY TypeGivesDomains
<1>1. ASSUME NEW h \in Goroutines \ {g}
      PROVE  /\ pc'[h] \in {"lock", "drain", "append", "store", "unlock"} => call'[h] \in RegisterCalls
             /\ pc'[h] \in {"rlock", "rwait", "range", "loop", "runlock"} => call'[h] \in LookupCalls
             /\ pc'[h] \in Steps \ {"unlock", "runlock", "idle"} => answer'[h] = Dir!Undecided
             /\ pc'[h] = "unlock" => answer'[h] = Dir!Done
             /\ pc'[h] = "runlock" => answer'[h] # Dir!Undecided
  BY <1>1, OthersKeep DEF CallInv, Steps
<1>2. /\ pc'[g] \in {"lock", "drain", "append", "store", "unlock"} => call'[g] \in RegisterCalls
      /\ pc'[g] \in {"rlock", "rwait", "range", "loop", "runlock"} => call'[g] \in LookupCalls
      /\ pc'[g] \in Steps \ {"unlock", "runlock", "idle"} => answer'[g] = Dir!Undecided
      /\ pc'[g] = "unlock" => answer'[g] = Dir!Done
      /\ pc'[g] = "runlock" => answer'[g] # Dir!Undecided
  <2> USE <1>0 DEF CallInv, Domains, Steps, Goto, lock
  <2>1. CASE Begin(g)
    BY <2>1 DEF Begin, BeginRegister, BeginLookup, Enter, RegisterCalls, LookupCalls
  <2>2. CASE Announce(g) \/ Drained(g) \/ LoadCodecs(g) \/ StoreCodecs(g) \/ Unlock(g)
    BY <2>2 DEF Announce, Drained, LoadCodecs, StoreCodecs, Unlock
  <2>3. CASE RLock(g) \/ RWait(g) \/ RangeCodecs(g) \/ RUnlock(g)
    BY <2>3 DEF RLock, RWait, RangeCodecs, RUnlock
  <2>4. CASE TryNext(g) \/ Exhausted(g)
    BY <2>4 DEF TryNext, Exhausted, Dir!Undecided, Dir!Unsupported
  <2>5. CASE Recognize(g)
    <3>1. PICK r, c : answer'[g] = [outcome |-> r, by |-> c] /\ r # "undecided"
      <4>1. /\ view[g] \in Seq(Codecs) /\ index[g] \in 1..Len(view[g])
            /\ call[g].input \in Inputs
        BY <2>5 DEF Recognize, TypeOK, LookupCalls
      <4>2. Outcome[view[g][index[g]]][call[g].input] \in Outcomes
        BY <4>1
      <4>3. QED
        BY <2>5, <4>2 DEF Recognize, Outcomes
    <3>2. QED
      BY <2>5, <3>1 DEF Recognize, Dir!Undecided
  <2>6. QED
    BY <2>1, <2>2, <2>3, <2>4, <2>5 DEF Step
<1>3. QED
  BY <1>1, <1>2 DEF CallInv

\* The list changes only in StoreCodecs, where it gets the caller's codec.
LEMMA ListGrows ==
  ASSUME TypeOK, CallInv, LockInv, ViewInv, NEW g \in Goroutines, Begin(g) \/ Step(g)
  PROVE  \/ codecs' = codecs
         \/ /\ pc[g] = "store"
            /\ call[g] \in RegisterCalls
            /\ codecs' = Append(codecs, call[g].codec)
            /\ \A h \in Goroutines : pc[h] \notin {"range", "loop", "runlock"}
<1>1. CASE StoreCodecs(g)
  <2>1. view[g] = codecs /\ call[g] \in RegisterCalls /\ readers = {}
    BY <1>1 DEF StoreCodecs, CallInv, ViewInv, LockInv
  <2>2. QED
    BY <1>1, <2>1 DEF StoreCodecs, LockInv
<1>2. CASE Begin(g)
  BY <1>2 DEF Begin, BeginRegister, BeginLookup, Enter
<1>3. CASE Announce(g) \/ Drained(g) \/ LoadCodecs(g) \/ Unlock(g)
  BY <1>3 DEF Announce, Drained, LoadCodecs, Unlock
<1>4. CASE RLock(g) \/ RWait(g) \/ RangeCodecs(g) \/ RUnlock(g)
  BY <1>4 DEF RLock, RWait, RangeCodecs, RUnlock
<1>5. CASE TryNext(g) \/ Recognize(g) \/ Exhausted(g)
  BY <1>5 DEF TryNext, Recognize, Exhausted
<1>6. QED
  BY <1>1, <1>2, <1>3, <1>4, <1>5 DEF Step

\* No slice in use goes stale: a store needs the lock to itself.
LEMMA ViewStep ==
  ASSUME TypeOK, CallInv, LockInv, ViewInv, NEW g \in Goroutines, Begin(g) \/ Step(g)
  PROVE  ViewInv'
<1>0. Domains
  BY TypeGivesDomains
<1>1. ASSUME NEW h \in Goroutines \ {g}, pc'[h] \in {"store", "loop"}
      PROVE  view'[h] = codecs'
  <2>1. pc[h] \in {"store", "loop"} /\ view'[h] = view[h]
    BY <1>1, OthersKeep
  <2>2. codecs' = codecs
    <3>1. CASE pc[g] = "store"
      BY <2>1, <3>1 DEF LockInv
    <3>2. CASE pc[g] # "store"
      BY <3>2, ListGrows
    <3>3. QED
      BY <3>1, <3>2
  <2>3. QED
    BY <2>1, <2>2 DEF ViewInv
<1>2. ASSUME pc'[g] \in {"store", "loop"}
      PROVE  view'[g] = codecs'
  <2> USE <1>0, <1>2 DEF ViewInv, Domains, Steps, Goto, lock
  <2>1. CASE Begin(g)
    BY <2>1 DEF Begin, BeginRegister, BeginLookup, Enter
  <2>2. CASE Announce(g) \/ Drained(g) \/ LoadCodecs(g) \/ StoreCodecs(g) \/ Unlock(g)
    BY <2>2 DEF Announce, Drained, LoadCodecs, StoreCodecs, Unlock
  <2>3. CASE RLock(g) \/ RWait(g) \/ RangeCodecs(g) \/ RUnlock(g)
    BY <2>3 DEF RLock, RWait, RangeCodecs, RUnlock
  <2>4. CASE TryNext(g) \/ Recognize(g) \/ Exhausted(g)
    BY <2>4 DEF TryNext, Recognize, Exhausted
  <2>5. QED
    BY <2>1, <2>2, <2>3, <2>4 DEF Step
<1>3. QED
  BY <1>1, <1>2 DEF ViewInv

\* A loop leaves behind only codecs that do not recognize its input.
LEMMA LoopStep ==
  ASSUME TypeOK, CallInv, LockInv, ViewInv, LoopInv, NEW g \in Goroutines, Begin(g) \/ Step(g)
  PROVE  LoopInv'
<1>0. Domains
  BY TypeGivesDomains
<1>1. ASSUME NEW h \in Goroutines \ {g}, pc'[h] = "loop"
      PROVE  /\ index'[h] \in 1..(Len(view'[h]) + 1)
             /\ \A i \in 1..(index'[h] - 1) : ~ Recognizes(view'[h][i], call'[h].input)
  <2>1. /\ pc[h] = "loop" /\ call'[h] = call[h]
        /\ view'[h] = view[h] /\ index'[h] = index[h]
    BY <1>1, OthersKeep
  <2>2. QED
    BY <2>1 DEF LoopInv
<1>2. ASSUME pc'[g] = "loop"
      PROVE  /\ index'[g] \in 1..(Len(view'[g]) + 1)
             /\ \A i \in 1..(index'[g] - 1) : ~ Recognizes(view'[g][i], call'[g].input)
  <2>1. CASE TryNext(g)
    <3>1. /\ pc[g] = "loop" /\ call' = call /\ view' = view
          /\ index'[g] = index[g] + 1
          /\ index[g] <= Len(view[g])
          /\ ~ Recognizes(view[g][index[g]], call[g].input)
      BY <1>0, <2>1 DEF TryNext, Domains, Recognizes
    <3>2. /\ index[g] \in 1..(Len(view[g]) + 1)
          /\ Len(view[g]) \in Nat
          /\ \A i \in 1..(index[g] - 1) : ~ Recognizes(view[g][i], call[g].input)
      BY <3>1 DEF LoopInv, TypeOK
    <3>3. \A i \in 1..(index'[g] - 1) : i \in 1..(index[g] - 1) \/ i = index[g]
      BY <3>1, <3>2
    <3>4. QED
      BY <3>1, <3>2, <3>3
  <2>2. CASE RangeCodecs(g)
    <3>1. index'[g] = 1 /\ view'[g] = codecs /\ Len(codecs) \in Nat
      BY <1>0, <2>2 DEF RangeCodecs, Domains, TypeOK
    <3>2. QED
      BY <3>1
  <2>3. CASE Begin(g)
    BY <1>0, <1>2, <2>3 DEF Begin, BeginRegister, BeginLookup, Enter, Goto, Domains
  <2>4. CASE Announce(g) \/ Drained(g) \/ LoadCodecs(g) \/ StoreCodecs(g) \/ Unlock(g)
    BY <1>0, <1>2, <2>4 DEF Announce, Drained, LoadCodecs, StoreCodecs, Unlock, Goto, Domains
  <2>5. CASE RLock(g) \/ RWait(g) \/ RUnlock(g) \/ Recognize(g) \/ Exhausted(g)
    BY <1>0, <1>2, <2>5 DEF RLock, RWait, RUnlock, Recognize, Exhausted, Goto, Domains
  <2>6. QED
    BY <2>1, <2>2, <2>3, <2>4, <2>5 DEF Step
<1>3. QED
  BY <1>1, <1>2 DEF LoopInv

\* The list keeps what it has.
LEMMA Keeps ==
  ASSUME TypeOK, CallInv, LockInv, ViewInv, NEW g \in Goroutines, Begin(g) \/ Step(g)
  PROVE  {codecs[i] : i \in DOMAIN codecs} \subseteq {codecs'[i] : i \in DOMAIN codecs'}
<1>1. CASE codecs' = codecs
  BY <1>1
<1>2. CASE call[g] \in RegisterCalls /\ codecs' = Append(codecs, call[g].codec)
  <2>1. codecs \in Seq(Codecs) /\ call[g].codec \in Codecs
    BY <1>2 DEF TypeOK, RegisterCalls
  <2>2. ASSUME NEW i \in DOMAIN codecs
        PROVE  i \in DOMAIN codecs' /\ codecs'[i] = codecs[i]
    BY <1>2, <2>1
  <2>3. QED
    BY <2>2
<1>3. QED
  BY <1>1, <1>2, ListGrows

\* So does what a caller could have known of.
LEMMA KnownStep ==
  ASSUME TypeOK, CallInv, LockInv, ViewInv, KnownInv, NEW g \in Goroutines, Begin(g) \/ Step(g)
  PROVE  KnownInv'
<1> DEFINE Now == {codecs[i] : i \in DOMAIN codecs}
<1>1. ASSUME NEW h \in Goroutines
      PROVE  known'[h] = known[h] \/ known'[h] = Now
  <2>0. Domains
    BY TypeGivesDomains
  <2> USE <2>0 DEF Domains
  <2>1. CASE h # g
    BY <2>1, OthersKeep
  <2>2. CASE Begin(g)
    BY <2>2 DEF Begin, BeginRegister, BeginLookup, Enter
  <2>3. CASE Announce(g) \/ Drained(g) \/ LoadCodecs(g) \/ StoreCodecs(g) \/ Unlock(g)
    BY <2>3 DEF Announce, Drained, LoadCodecs, StoreCodecs, Unlock
  <2>4. CASE RLock(g) \/ RWait(g) \/ RangeCodecs(g) \/ RUnlock(g)
    BY <2>4 DEF RLock, RWait, RangeCodecs, RUnlock
  <2>5. CASE TryNext(g) \/ Recognize(g) \/ Exhausted(g)
    BY <2>5 DEF TryNext, Recognize, Exhausted
  <2>6. QED
    BY <2>1, <2>2, <2>3, <2>4, <2>5 DEF Step
<1>2. \A h \in Goroutines : known[h] \subseteq Now
  BY DEF KnownInv
<1>3. Now \subseteq Now'
  BY Keeps
<1>4. QED
  BY <1>1, <1>2, <1>3 DEF KnownInv

\* A decided lookup's answer survives every step that leaves its call alone:
\* the list can only grow at its end.
LEMMA DecisionKeeps ==
  ASSUME TypeOK, DecidedInv, NEW h \in Goroutines, Decided(h),
         call'[h] = call[h], answer'[h] = answer[h], known'[h] = known[h],
         codecs' = codecs \/ \E c \in Codecs : codecs' = Append(codecs, c)
  PROVE  IF answer'[h] = Dir!Unsupported
         THEN \A c \in known'[h] : ~ Recognizes(c, call'[h].input)
         ELSE answer'[h] = Dir!FirstAnswer(codecs', call'[h].input)
<1>1. call[h].input \in Inputs /\ codecs \in Seq(Codecs)
  <2>1. /\ call[h] \in RegisterCalls \cup LookupCalls \cup {Dir!NoCall}
        /\ call[h].fn = "Lookup"
    BY DEF TypeOK, Calls, Decided, RegisterCalls, LookupCalls
  <2>2. call[h] \in LookupCalls
    BY <2>1 DEF RegisterCalls, Dir!NoCall
  <2>3. QED
    BY <2>2 DEF TypeOK, LookupCalls
<1>2. CASE answer[h] = Dir!Unsupported
  BY <1>2 DEF DecidedInv
<1>3. CASE answer[h] # Dir!Unsupported
  <2>1. answer[h] = Dir!FirstAnswer(codecs, call[h].input)
    BY <1>3 DEF DecidedInv
  <2>2. Dir!FirstAnswer(codecs', call[h].input) = Dir!FirstAnswer(codecs, call[h].input)
    BY <1>1, <1>3, <2>1, FirstStays
  <2>3. QED
    BY <1>3, <2>1, <2>2
<1>4. QED
  BY <1>2, <1>3

\* Every way out of the loop leaves the answer the list gives.
LEMMA DecidedStep ==
  ASSUME TypeOK, CallInv, LockInv, ViewInv, LoopInv, KnownInv, DecidedInv,
         NEW g \in Goroutines, Begin(g) \/ Step(g)
  PROVE  DecidedInv'
<1>0. /\ Domains
      /\ codecs' = codecs \/ \E c \in Codecs : codecs' = Append(codecs, c)
  <2>1. Domains
    BY TypeGivesDomains
  <2>2. codecs' = codecs \/ \E c \in Codecs : codecs' = Append(codecs, c)
    BY ListGrows DEF RegisterCalls
  <2>3. QED
    BY <2>1, <2>2
<1> SUFFICES ASSUME NEW h \in Goroutines, pc'[h] \in {"runlock", "idle"}, call'[h].fn = "Lookup"
             PROVE  IF answer'[h] = Dir!Unsupported
                    THEN \A c \in known'[h] : ~ Recognizes(c, call'[h].input)
                    ELSE answer'[h] = Dir!FirstAnswer(codecs', call'[h].input)
  BY DEF DecidedInv, Decided
<1>1. CASE h # g
  <2>1. /\ Decided(h)
        /\ call'[h] = call[h] /\ answer'[h] = answer[h] /\ known'[h] = known[h]
    BY <1>1, OthersKeep DEF Decided
  <2>2. QED
    BY <1>0, <2>1, DecisionKeeps
<1>2. CASE h = g /\ RUnlock(g)
  <2>1. /\ Decided(h)
        /\ call'[h] = call[h] /\ answer'[h] = answer[h] /\ known'[h] = known[h]
    BY <1>2 DEF RUnlock, Decided
  <2>2. QED
    BY <1>0, <2>1, DecisionKeeps
<1>3. CASE h = g /\ Recognize(g)
  <2> DEFINE i == index[g]
             x == call[g].input
  <2>1. /\ pc[g] = "loop" /\ call' = call /\ codecs' = codecs
        /\ view[g] = codecs /\ codecs \in Seq(Codecs) /\ x \in Inputs
        /\ i \in 1..(Len(view[g]) + 1) /\ i <= Len(view[g])
        /\ \A j \in 1..(i - 1) : ~ Recognizes(codecs[j], x)
    BY <1>3 DEF Recognize, ViewInv, LoopInv, CallInv, TypeOK, LookupCalls
  <2>2. /\ answer'[g] = [outcome |-> Outcome[codecs[i]][x], by |-> codecs[i]]
        /\ Recognizes(codecs[i], x)
    BY <1>0, <1>3, <2>1 DEF Recognize, Domains, Recognizes
  <2>3. /\ i \in Claims(codecs, x)
        /\ \A j \in Claims(codecs, x) : i <= j
    BY <2>1, <2>2 DEF Claims
  <2>4. answer'[g] = Dir!FirstAnswer(codecs, x)
    BY <2>1, <2>2, <2>3, FirstIs
  <2>5. answer'[g] # Dir!Unsupported
    BY <2>2 DEF Dir!Unsupported, Recognizes
  <2>6. QED
    BY <1>3, <2>1, <2>4, <2>5
<1>4. CASE h = g /\ Exhausted(g)
  <2> DEFINE x == call[g].input
  <2>1. /\ pc[g] = "loop" /\ call' = call /\ known' = known
        /\ view[g] = codecs /\ codecs \in Seq(Codecs)
        /\ index[g] = Len(codecs) + 1
        /\ answer'[g] = Dir!Unsupported
        /\ \A j \in 1..(index[g] - 1) : ~ Recognizes(codecs[j], x)
    BY <1>0, <1>4 DEF Exhausted, ViewInv, LoopInv, TypeOK, Domains
  <2>2. \A c \in known[g] : \E j \in DOMAIN codecs : c = codecs[j]
    BY DEF KnownInv
  <2>3. \A j \in DOMAIN codecs : ~ Recognizes(codecs[j], x)
    BY <2>1
  <2>4. QED
    BY <1>4, <2>1, <2>2, <2>3
<1>5. CASE h = g /\ Unlock(g)
  BY <1>5 DEF Unlock, CallInv, RegisterCalls
<1>6. CASE h = g /\ Begin(g)
  BY <1>0, <1>6 DEF Begin, BeginRegister, BeginLookup, Enter, Goto, Domains
<1>7. CASE h = g /\ (Announce(g) \/ Drained(g) \/ LoadCodecs(g) \/ StoreCodecs(g))
  BY <1>0, <1>7 DEF Announce, Drained, LoadCodecs, StoreCodecs, Goto, Domains
<1>8. CASE h = g /\ (RLock(g) \/ RWait(g) \/ RangeCodecs(g) \/ TryNext(g))
  BY <1>0, <1>8 DEF RLock, RWait, RangeCodecs, TryNext, Goto, Domains
<1>9. QED
  BY <1>1, <1>2, <1>3, <1>4, <1>5, <1>6, <1>7, <1>8 DEF Step

\* The Register calls that have not yet stored their codec.
Registering == {h \in Goroutines : pc[h] \in {"lock", "drain", "append", "store"}}

\* A call reserves its place in the list when it begins.
LEMMA BoundStep ==
  ASSUME TypeOK, CallInv, LockInv, ViewInv, BoundInv, NEW g \in Goroutines, Begin(g) \/ Step(g)
  PROVE  BoundInv'
<1>0. /\ Domains
      /\ codecs \in Seq(Codecs) /\ Len(codecs) \in Nat
      /\ IsFiniteSet(Registering) /\ Cardinality(Registering) \in Nat
      /\ Expected = Len(codecs) + Cardinality(Registering)
      /\ Expected' = Len(codecs') + Cardinality(Registering')
  <2>1. IsFiniteSet(Registering)
    BY FS_Subset DEF Registering
  <2>2. QED
    BY <2>1, FS_CardinalityType, TypeGivesDomains DEF TypeOK, Expected, Registering
<1>1. CASE \E c \in Codecs : BeginRegister(g, c)
  <2>1. /\ Registering' = Registering \cup {g} /\ g \notin Registering
        /\ codecs' = codecs /\ Expected < MaxCodecs
    BY <1>0, <1>1 DEF BeginRegister, Enter, Goto, Domains, Registering
  <2>2. Cardinality(Registering') = Cardinality(Registering) + 1
    BY <1>0, <2>1, FS_AddElement
  <2>3. QED
    BY <1>0, <2>1, <2>2 DEF BoundInv
<1>2. CASE StoreCodecs(g)
  <2>1. /\ Registering' = Registering \ {g} /\ g \in Registering
        /\ codecs' = Append(view[g], call[g].codec)
        /\ view[g] = codecs
    BY <1>0, <1>2 DEF StoreCodecs, Goto, Domains, Registering, ViewInv
  <2>2. Cardinality(Registering') = Cardinality(Registering) - 1
    BY <1>0, <2>1, FS_RemoveElement
  <2>3. Len(codecs') = Len(codecs) + 1
    BY <1>0, <1>2, <2>1
  <2>4. QED
    BY <1>0, <2>2, <2>3 DEF BoundInv
<1>3. ASSUME Registering' = Registering, codecs' = codecs
      PROVE  BoundInv'
  BY <1>0, <1>3 DEF BoundInv
<1>4. CASE \E x \in Inputs : BeginLookup(g, x)
  BY <1>0, <1>3, <1>4 DEF BeginLookup, Enter, Goto, Domains, Registering
<1>5. CASE Announce(g) \/ Drained(g) \/ LoadCodecs(g) \/ Unlock(g)
  BY <1>0, <1>3, <1>5 DEF Announce, Drained, LoadCodecs, Unlock, Goto, Domains, Registering
<1>6. CASE RLock(g) \/ RWait(g) \/ RangeCodecs(g) \/ RUnlock(g)
  BY <1>0, <1>3, <1>6 DEF RLock, RWait, RangeCodecs, RUnlock, Goto, Domains, Registering
<1>7. CASE TryNext(g) \/ Recognize(g) \/ Exhausted(g)
  BY <1>0, <1>3, <1>7 DEF TryNext, Recognize, Exhausted, Goto, Domains, Registering
<1>8. QED
  BY <1>1, <1>2, <1>4, <1>5, <1>6, <1>7 DEF Begin, Step

\* No step leaves the types; the loop index is bounded by the list it runs over.
LEMMA TypeStep ==
  ASSUME TypeOK, CallInv, LockInv, ViewInv, LoopInv, BoundInv,
         NEW g \in Goroutines, Begin(g) \/ Step(g)
  PROVE  TypeOK'
<1> USE DEF TypeOK, Steps, Goto, lock
<1>1. CASE Begin(g)
  <2>1. {codecs[i] : i \in DOMAIN codecs} \subseteq Codecs
    OBVIOUS
  <2>2. PICK c \in Calls, first \in {"lock", "rlock"} : Enter(g, c, first)
    BY <1>1 DEF Begin, BeginRegister, BeginLookup, Calls
  <2>3. Dir!Undecided \in Answers
    BY DEF Answers, Dir!Undecided
  <2>4. /\ call' \in [Goroutines -> Calls \cup {Dir!NoCall}]
        /\ answer' \in [Goroutines -> Answers]
    BY <2>2, <2>3 DEF Enter
  <2>5. known' \in [Goroutines -> SUBSET Codecs]
    BY <2>1, <2>2 DEF Enter
  <2>6. pc' \in [Goroutines -> Steps]
    BY <2>2 DEF Enter
  <2>7. QED
    BY <2>2, <2>4, <2>5, <2>6 DEF Enter
<1>2. CASE Announce(g) \/ Drained(g) \/ LoadCodecs(g) \/ Unlock(g)
  <2>1. CASE Announce(g) \/ Drained(g)
    BY <2>1 DEF Announce, Drained
  <2>4. CASE LoadCodecs(g)
    BY <2>4 DEF LoadCodecs
  <2>2. CASE Unlock(g)
    <3>1. pc' \in [Goroutines -> Steps]
      BY <2>2 DEF Unlock
    <3>2. readers' \subseteq Goroutines
      BY <2>2 DEF Unlock
    <3>3. QED
      BY <2>2, <3>1, <3>2 DEF Unlock
  <2>3. QED
    BY <1>2, <2>1, <2>2, <2>4
<1>3. CASE StoreCodecs(g)
  <2>1. Dir!Done \in Answers
    BY DEF Answers, Dir!Done
  <2>2. call[g].codec \in Codecs
    BY <1>3 DEF StoreCodecs, CallInv, RegisterCalls
  <2>3. codecs' \in Seq(Codecs)
    BY <1>3, <2>2 DEF StoreCodecs
  <2>4. Len(codecs') <= MaxCodecs
    <3>1. IsFiniteSet(Registering')
      BY FS_Subset DEF Registering
    <3>2. Cardinality(Registering') \in Nat
      BY <3>1, FS_CardinalityType
    <3>3. Len(codecs') + Cardinality(Registering') <= MaxCodecs
      BY BoundStep DEF BoundInv, Expected, Registering
    <3>4. Len(codecs') \in Nat
      BY <2>3
    <3>5. QED
      BY <3>2, <3>3, <3>4
  <2>5. answer' \in [Goroutines -> Answers] /\ pc' \in [Goroutines -> Steps]
    BY <1>3, <2>1 DEF StoreCodecs
  <2>6. QED
    BY <1>3, <2>3, <2>4, <2>5 DEF StoreCodecs
<1>4. CASE RLock(g) \/ RWait(g) \/ RUnlock(g)
  BY <1>4 DEF RLock, RWait, RUnlock
<1>5. CASE RangeCodecs(g)
  <2>1. 1 \in 1..(MaxCodecs + 1)
    OBVIOUS
  <2>2. QED
    BY <1>5, <2>1 DEF RangeCodecs
<1>6. CASE TryNext(g)
  <2>1. index[g] + 1 \in 1..(MaxCodecs + 1)
    BY <1>6 DEF TryNext, ViewInv
  <2>2. QED
    BY <1>6, <2>1 DEF TryNext
<1>7. CASE Recognize(g)
  <2>1. PICK c \in Codecs, r \in {"ok", "error"} :
          answer' = [answer EXCEPT ![g] = [outcome |-> r, by |-> c]]
    <3>1. /\ view[g] \in Seq(Codecs) /\ index[g] \in 1..Len(view[g])
          /\ call[g].input \in Inputs
      BY <1>7 DEF Recognize, CallInv, LookupCalls
    <3>2. /\ view[g][index[g]] \in Codecs
          /\ Outcome[view[g][index[g]]][call[g].input] \in Outcomes
      BY <3>1
    <3>3. QED
      BY <1>7, <3>2 DEF Recognize, Outcomes
  <2>2. [outcome |-> r, by |-> c] \in Answers
    BY DEF Answers
  <2>3. QED
    BY <1>7, <2>1, <2>2 DEF Recognize
<1>8. CASE Exhausted(g)
  <2>1. Dir!Unsupported \in Answers
    BY DEF Answers, Dir!Unsupported
  <2>2. QED
    BY <1>8, <2>1 DEF Exhausted
<1>9. QED
  BY <1>1, <1>2, <1>3, <1>4, <1>5, <1>6, <1>7, <1>8 DEF Step

-----------------------------------------------------------------------------
(* The invariant, and what follows from it.                                *)

\* No goroutine has called and the list is empty.
LEMMA InitHolds == Init => IInv
<1> SUFFICES ASSUME Init PROVE IInv
  OBVIOUS
<1> USE DEF Init
<1>1. TypeOK
  <2>1. Dir!Undecided \in Answers
    BY DEF Answers, Dir!Undecided
  <2>2. codecs \in Seq(Codecs) /\ Len(codecs) <= MaxCodecs /\ <<>> \in Seq(Codecs)
    OBVIOUS
  <2>3. 1 \in 1..(MaxCodecs + 1)
    OBVIOUS
  <2>4. QED
    BY <2>1, <2>2, <2>3 DEF TypeOK, Steps
<1>2. CallInv /\ LockInv /\ ViewInv /\ LoopInv /\ KnownInv
  BY DEF CallInv, LockInv, ViewInv, LoopInv, KnownInv, Steps
<1>3. DecidedInv
  BY DEF DecidedInv, Decided, Dir!NoCall
<1>4. BoundInv
  <2>1. Registering = {}
    BY DEF Registering
  <2>2. Expected = 0
    <3>1. Cardinality(Registering) = 0
      BY <2>1, FS_EmptySet
    <3>2. Len(codecs) = 0
      OBVIOUS
    <3>3. Expected = Len(codecs) + Cardinality(Registering)
      BY DEF Expected, Registering
    <3>4. QED
      BY <3>1, <3>2, <3>3
  <2>3. QED
    BY <2>2 DEF BoundInv
<1>5. QED
  BY <1>1, <1>2, <1>3, <1>4 DEF IInv

\* The inductive invariant holds in every reachable state.
LEMMA Invariance == Spec => []IInv
<1>1. IInv /\ [Next]_vars => IInv'
  <2> SUFFICES ASSUME IInv, [Next]_vars PROVE IInv'
    OBVIOUS
  <2>1. CASE UNCHANGED vars
    BY <2>1 DEF vars, lock, IInv, TypeOK, CallInv, LockInv, ViewInv, LoopInv, KnownInv,
                DecidedInv, BoundInv, Decided, Expected
  <2>2. ASSUME NEW g \in Goroutines, Begin(g) \/ Step(g)
        PROVE  IInv'
    <3>1. TypeOK' /\ CallInv' /\ LockInv' /\ ViewInv'
      BY <2>2, TypeStep, CallStep, LockStep, ViewStep DEF IInv
    <3>2. LoopInv' /\ KnownInv' /\ DecidedInv' /\ BoundInv'
      BY <2>2, LoopStep, KnownStep, DecidedStep, BoundStep DEF IInv
    <3>3. QED
      BY <3>1, <3>2 DEF IInv
  <2>3. QED
    BY <2>1, <2>2 DEF Next
<1>2. QED
  BY <1>1, InitHolds, PTL DEF Spec

\* Type correctness; the list stays within its bound.
THEOREM TypeCorrect == Spec => []TypeOK
<1>1. IInv => TypeOK
  BY DEF IInv
<1>2. QED
  BY <1>1, Invariance, PTL

\* A Register at its append or store is the only one there, and no Marshal or
\* Parse is in its loop.
Exclusion ==
  \A g \in Goroutines :
    pc[g] \in {"append", "store"} =>
      \A h \in Goroutines \ {g} : pc[h] \notin {"append", "store", "range", "loop"}

\* mu works as a readers-writer lock, however Register, Marshal and Parse
\* calls interleave.
THEOREM Excludes == Spec => []Exclusion
<1>1. IInv => Exclusion
  BY DEF IInv, LockInv, Exclusion
<1>2. QED
  BY <1>1, Invariance, PTL

\* A lookup returns ErrUnsupported only if no codec registered when it was
\* called recognizes its input.
THEOREM KnownAreTried == Spec => []KnownCodecsAreTried
<1>1. IInv => KnownCodecsAreTried
  BY DEF IInv, DecidedInv, KnownCodecsAreTried
<1>2. QED
  BY <1>1, Invariance, PTL

\* Lookups of one input that find a codec have one answer.
THEOREM Agreement == Spec => []LookupsAgree
<1>1. IInv => LookupsAgree
  <2> SUFFICES ASSUME IInv, NEW g \in Goroutines, NEW h \in Goroutines,
                      Decided(g), Decided(h), call[g].input = call[h].input,
                      answer[g] # Dir!Unsupported, answer[h] # Dir!Unsupported
               PROVE  answer[g] = answer[h]
    BY DEF LookupsAgree
  <2>1. answer[g] = Dir!FirstAnswer(codecs, call[g].input)
    BY DEF IInv, DecidedInv
  <2>2. answer[h] = Dir!FirstAnswer(codecs, call[h].input)
    BY DEF IInv, DecidedInv
  <2>3. QED
    BY <2>1, <2>2
<1>2. QED
  BY <1>1, Invariance, PTL

-----------------------------------------------------------------------------
(* Progress: what CallsReturn rests on besides fairness.                   *)

\* The most steps a call at each line has before it.  Marshal and Parse have
\* a loop, which can come past MaxCodecs codecs.
LinesLeft ==
  [idle |-> 0, unlock |-> 1, store |-> 2, append |-> 3, drain |-> 4, lock |-> 5,
   runlock |-> 1, loop |-> 2, range |-> MaxCodecs + 3, rwait |-> MaxCodecs + 4,
   rlock |-> MaxCodecs + 5]

StepsLeft(g) ==
  LinesLeft[pc[g]] + (IF pc[g] = "loop" THEN MaxCodecs + 1 - index[g] ELSE 0)

\* Every step of a call brings it nearer to its return, and no step of another
\* goroutine sends it back: a reader whom a writer kept out enters when that
\* writer unlocks, and starts no lookup over.
CallsAdvance ==
  [][\A g \in Goroutines :
       /\ Step(g) => StepsLeft(g)' \in 0..(StepsLeft(g) - 1)
       /\ pc[g] # "idle" => StepsLeft(g)' \in 0..StepsLeft(g)]_vars

\* g is at mu.Lock or mu.RLock and somebody keeps it there: the writer before
\* it, the readers it lets finish, or the writer whose Unlock admits it.
Waits(g) ==
  \/ pc[g] = "lock" /\ writer # NoOne
  \/ pc[g] = "drain" /\ readers # {}
  \/ pc[g] = "rwait"

\* Register waits for readers, which wait for writers, which wait for readers;
\* yet the chain always ends: whoever waits, some holder of mu is inside its
\* call and waits for nobody.
WaitsForARunner ==
  \A g \in Goroutines :
    Waits(g) => \E h \in (readers \cup {writer}) \cap Goroutines :
                  pc[h] # "idle" /\ ~ Waits(h)

\* How far a call is from its return is a number.
LEMMA StepsLeftBound ==
  ASSUME TypeOK, NEW g \in Goroutines
  PROVE  StepsLeft(g) \in 0..(MaxCodecs + 5)
<1>1. pc[g] \in Steps /\ MaxCodecs + 1 - index[g] \in 0..MaxCodecs
  BY DEF TypeOK
<1>2. QED
  BY <1>1 DEF StepsLeft, LinesLeft, Steps

\* One step of a call: each line is followed by one nearer to the return, and
\* each iteration of a lookup's loop by one with fewer codecs to try.
LEMMA StepAdvances ==
  ASSUME TypeOK, TypeOK', NEW g \in Goroutines, Step(g)
  PROVE  StepsLeft(g)' \in 0..(StepsLeft(g) - 1)
<1>1. /\ pc \in [Goroutines -> Steps] /\ index \in [Goroutines -> 1..(MaxCodecs + 1)]
      /\ pc[g] \in Steps /\ pc'[g] \in Steps
      /\ MaxCodecs + 1 - index[g] \in 0..MaxCodecs
      /\ MaxCodecs + 1 - index'[g] \in 0..MaxCodecs
  <2>1. /\ pc \in [Goroutines -> Steps] /\ index \in [Goroutines -> 1..(MaxCodecs + 1)]
        /\ pc' \in [Goroutines -> Steps] /\ index' \in [Goroutines -> 1..(MaxCodecs + 1)]
    BY DEF TypeOK
  <2>2. index[g] \in 1..(MaxCodecs + 1) /\ index'[g] \in 1..(MaxCodecs + 1)
    BY <2>1
  <2>3. QED
    BY <2>1, <2>2
<1>2. StepsLeft(g) \in Nat /\ StepsLeft(g)' \in Nat
  BY <1>1 DEF StepsLeft, LinesLeft, Steps
<1> SUFFICES StepsLeft(g)' < StepsLeft(g)
  BY <1>2
<1> USE DEF StepsLeft, LinesLeft, Goto
<1>3. CASE Announce(g) \/ Drained(g) \/ LoadCodecs(g) \/ StoreCodecs(g)
  <2>1. \/ pc[g] = "lock" /\ pc'[g] = "drain"
        \/ pc[g] = "drain" /\ pc'[g] = "append"
        \/ pc[g] = "append" /\ pc'[g] = "store"
        \/ pc[g] = "store" /\ pc'[g] = "unlock"
    BY <1>1, <1>3 DEF Announce, Drained, LoadCodecs, StoreCodecs
  <2>2. QED
    BY <2>1
<1>4. CASE Unlock(g) \/ RUnlock(g)
  BY <1>1, <1>4 DEF Unlock, RUnlock
<1>5. CASE RLock(g) \/ RWait(g)
  BY <1>1, <1>5 DEF RLock, RWait
<1>6. CASE RangeCodecs(g)
  BY <1>1, <1>6 DEF RangeCodecs
<1>7. CASE TryNext(g)
  <2>1. /\ index'[g] = index[g] + 1 /\ pc[g] = "loop" /\ pc'[g] = "loop"
        /\ index[g] \in Nat
    BY <1>1, <1>7 DEF TryNext
  <2>2. QED
    BY <2>1
<1>8. CASE Recognize(g) \/ Exhausted(g)
  <2>1. pc[g] = "loop" /\ pc'[g] = "runlock"
    BY <1>1, <1>8 DEF Recognize, Exhausted
  <2>2. QED
    BY <1>1, <2>1
<1>9. QED
  BY <1>3, <1>4, <1>5, <1>6, <1>7, <1>8 DEF Step

\* Every step of a Register, a Marshal or a Parse brings it nearer to its
\* return, and no other goroutine's step sends it back.
THEOREM CallProgress == Spec => CallsAdvance
<1> DEFINE Advance ==
      \A g \in Goroutines :
        /\ Step(g) => StepsLeft(g)' \in 0..(StepsLeft(g) - 1)
        /\ pc[g] # "idle" => StepsLeft(g)' \in 0..StepsLeft(g)
<1>1. IInv /\ IInv' /\ [Next]_vars => [Advance]_vars
  <2> SUFFICES ASSUME IInv, IInv', NEW h \in Goroutines, Begin(h) \/ Step(h),
                      NEW g \in Goroutines
               PROVE  /\ Step(g) => StepsLeft(g)' \in 0..(StepsLeft(g) - 1)
                      /\ pc[g] # "idle" => StepsLeft(g)' \in 0..StepsLeft(g)
    BY DEF Next
  <2>1. Step(g) => StepsLeft(g)' \in 0..(StepsLeft(g) - 1)
    BY StepAdvances DEF IInv
  <2>2. StepsLeft(g) \in Nat
    BY StepsLeftBound DEF IInv
  <2>3. CASE h = g
    <3>1. Begin(g) => pc[g] = "idle"
      BY DEF Begin, BeginRegister, BeginLookup, Enter
    <3>2. QED
      BY <2>1, <2>2, <2>3, <3>1
  <2>4. CASE h # g
    <3>1. /\ index'[g] = index[g]
          /\ \/ pc'[g] = pc[g]
             \/ pc[g] = "rwait" /\ pc'[g] = "range"
      BY <2>4, OthersKeep DEF IInv
    <3>2. StepsLeft(g)' = StepsLeft(g) \/ StepsLeft(g)' = StepsLeft(g) - 1
      BY <3>1 DEF StepsLeft, LinesLeft
    <3>3. StepsLeft(g)' \in Nat
      <4>1. pc'[g] \in Steps /\ index'[g] \in 1..(MaxCodecs + 1)
        BY DEF IInv, TypeOK
      <4>2. MaxCodecs + 1 - index'[g] \in 0..MaxCodecs
        BY <4>1
      <4>3. QED
        BY <4>1, <4>2 DEF StepsLeft, LinesLeft, Steps
    <3>4. QED
      BY <2>1, <2>2, <3>2, <3>3
  <2>5. QED
    BY <2>3, <2>4
<1>2. QED
  BY <1>1, Invariance, PTL DEF Spec, CallsAdvance

\* The goroutines that wait for mu never wait for each other only.
THEOREM WaitersWaitForRunners == Spec => []WaitsForARunner
<1>1. IInv => WaitsForARunner
  <2> SUFFICES ASSUME IInv, NEW g \in Goroutines, Waits(g)
               PROVE  \E h \in (readers \cup {writer}) \cap Goroutines :
                        pc[h] # "idle" /\ ~ Waits(h)
    BY DEF WaitsForARunner
  <2>1. /\ readers \subseteq Goroutines
        /\ \A h \in Goroutines : pc[h] \in {"range", "loop", "runlock"} <=> h \in readers
    BY DEF IInv, TypeOK, LockInv
  <2>2. CASE readers # {}
    BY <2>1, <2>2 DEF Waits
  <2>3. CASE readers = {}
    <3>1. writer \in Goroutines
      BY <2>3 DEF IInv, TypeOK, LockInv, Waits
    <3>2. pc[writer] \in {"drain", "append", "store", "unlock"}
      BY <3>1 DEF IInv, LockInv
    <3>3. QED
      BY <2>3, <3>1, <3>2 DEF Waits
  <2>4. QED
    BY <2>2, <2>3
<1>2. QED
  BY <1>1, Invariance, PTL

-----------------------------------------------------------------------------
(* Refinement.                                                             *)

\* The calls in progress, as CodecDirectory sees them.
callBar == [g \in Goroutines |-> IF pc[g] = "idle" THEN [fn |-> "none"] ELSE call[g]]

\* Every behaviour of the locked list is one of the atomic directory: the
\* store is the moment a codec is registered, the step out of the loop the
\* moment a lookup is answered, and the unlocking step a call's return.
THEOREM Refinement == Spec => ImplementsDirectory
<1>1. Init => Dir!Init
  BY DEF Init, Dir!Init, Dir!NoCall
<1>2. IInv /\ IInv' /\ [Next]_vars => [Dir!Next]_(Dir!vars)
  <2> SUFFICES ASSUME IInv, IInv', [Next]_vars
               PROVE  [Dir!Next]_<<codecs, callBar, answer>>
    BY DEF callBar, Dir!vars
  <2>0. CASE UNCHANGED vars
    BY <2>0 DEF vars, callBar
  <2> SUFFICES ASSUME NEW g \in Goroutines, Begin(g) \/ Step(g)
               PROVE  \/ \E c \in Codecs : Dir!Start(g, [fn |-> "Register", codec |-> c])
                      \/ \E x \in Inputs : Dir!Start(g, [fn |-> "Lookup", input |-> x])
                      \/ Dir!Register(g) \/ Dir!Lookup(g) \/ Dir!Return(g)
                      \/ codecs' = codecs /\ callBar' = callBar /\ answer' = answer
    BY <2>0 DEF Next, Dir!Next
  <2>1. /\ Domains /\ TypeOK /\ TypeOK' /\ CallInv
        /\ \A h \in Goroutines \ {g} : callBar'[h] = callBar[h]
    <3>1. \A h \in Goroutines \ {g} : call'[h] = call[h] /\ (pc'[h] = "idle" <=> pc[h] = "idle")
      BY OthersKeep DEF IInv
    <3>2. QED
      BY <3>1, TypeGivesDomains DEF IInv, callBar
  <2>2. ASSUME NEW b, callBar'[g] = b
        PROVE  callBar' = [callBar EXCEPT ![g] = b]
    BY <2>1, <2>2 DEF callBar
  <2>3. ASSUME callBar'[g] = callBar[g]
        PROVE  callBar' = callBar
    BY <2>1, <2>3 DEF callBar
  <2>4. ASSUME NEW c \in Calls, NEW first \in {"lock", "rlock"}, Enter(g, c, first)
        PROVE  Dir!Start(g, c)
    <3>1. callBar[g] = Dir!NoCall /\ callBar'[g] = c
      BY <2>1, <2>4 DEF Enter, Goto, Domains, callBar, Dir!NoCall
    <3>2. codecs' = codecs /\ answer' = [answer EXCEPT ![g] = Dir!Undecided]
      BY <2>4 DEF Enter
    <3>3. QED
      BY <2>2, <3>1, <3>2 DEF Dir!Start, callBar
  <2>5. CASE Begin(g)
    BY <2>4, <2>5 DEF Begin, BeginRegister, BeginLookup, Calls
  <2>6. CASE StoreCodecs(g)
    <3>1. /\ callBar[g] = call[g] /\ callBar'[g] = callBar[g]
          /\ call[g] \in RegisterCalls /\ answer[g] = Dir!Undecided /\ view[g] = codecs
      BY <2>1, <2>6 DEF StoreCodecs, Goto, Domains, callBar, CallInv, IInv, ViewInv, Steps
    <3>2. QED
      BY <2>3, <2>6, <3>1 DEF StoreCodecs, Dir!Register, callBar, RegisterCalls
  <2>7. CASE Recognize(g) \/ Exhausted(g)
    <3>1. /\ callBar[g] = call[g] /\ callBar'[g] = callBar[g]
          /\ call'[g] = call[g] /\ codecs' = codecs
          /\ call[g] \in LookupCalls /\ answer[g] = Dir!Undecided
          /\ pc'[g] = "runlock"
      BY <2>1, <2>7 DEF Recognize, Exhausted, Goto, Domains, callBar, CallInv, Steps
    <3>2. answer'[g] = Dir!FirstAnswer(codecs, call[g].input)
      <4> DEFINE x == call[g].input
      <4>1. /\ view[g] = codecs /\ codecs \in Seq(Codecs) /\ x \in Inputs
            /\ index[g] \in 1..(Len(codecs) + 1)
            /\ \A j \in 1..(index[g] - 1) : ~ Recognizes(codecs[j], x)
        BY <2>7, <3>1 DEF Recognize, Exhausted, IInv, ViewInv, LoopInv, TypeOK, LookupCalls
      <4>2. CASE Recognize(g)
        <5>1. /\ index[g] \in Claims(codecs, x)
              /\ \A j \in Claims(codecs, x) : index[g] <= j
          BY <4>1, <4>2 DEF Claims, Recognize, Recognizes
        <5>2. QED
          BY <2>1, <4>1, <4>2, <5>1, FirstIs DEF Recognize, Domains
      <4>3. CASE Exhausted(g)
        <5>1. Claims(codecs, x) = {}
          BY <4>1, <4>3 DEF Claims, Exhausted
        <5>2. QED
          BY <2>1, <4>1, <4>3, <5>1, NoneIs DEF Exhausted, Domains
      <4>4. QED
        BY <2>7, <4>2, <4>3
    <3>3. answer' = [answer EXCEPT ![g] = Dir!FirstAnswer(codecs, call[g].input)]
      BY <2>1, <2>7, <3>2 DEF Recognize, Exhausted, Domains
    <3>4. QED
      BY <2>3, <3>1, <3>3 DEF Dir!Lookup, callBar, LookupCalls
  <2>8. CASE Unlock(g) \/ RUnlock(g)
    <3>1. /\ call[g] \in RegisterCalls \cup LookupCalls /\ callBar[g] = call[g]
          /\ answer[g] # Dir!Undecided
          /\ callBar'[g] = Dir!NoCall
          /\ codecs' = codecs /\ answer' = answer
      BY <2>1, <2>8 DEF Unlock, RUnlock, Goto, Domains, callBar, CallInv,
                        Dir!Done, Dir!Undecided, Dir!NoCall
    <3>2. callBar[g] # Dir!NoCall
      BY <3>1 DEF RegisterCalls, LookupCalls, Dir!NoCall
    <3>3. QED
      BY <2>2, <3>1, <3>2 DEF Dir!Return, callBar
  <2>9. CASE Announce(g) \/ Drained(g) \/ LoadCodecs(g)
    BY <2>1, <2>3, <2>9 DEF Announce, Drained, LoadCodecs, Goto, Domains, callBar
  <2>10. CASE RLock(g) \/ RWait(g) \/ RangeCodecs(g) \/ TryNext(g)
    BY <2>1, <2>3, <2>10 DEF RLock, RWait, RangeCodecs, TryNext, Goto, Domains, callBar
  <2>11. QED
    BY <2>5, <2>6, <2>7, <2>8, <2>9, <2>10 DEF Step
<1>3. QED
  BY <1>1, <1>2, Invariance, PTL DEF Spec, Dir!Spec, ImplementsDirectory
=============================================================================
