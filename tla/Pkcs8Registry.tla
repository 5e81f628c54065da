--------------------------- MODULE Pkcs8Registry ---------------------------
(***************************************************************************)
(* pkcs8/pkcs8.go: goroutines calling Register, Marshal and Parse on the   *)
(* package's codec list, guarded by a sync.RWMutex.  Marshal and Parse run *)
(* the same loop, over private keys and over DER blobs; both are Lookup    *)
(* here.  The RWMutex is Go's: a writer that has announced itself keeps    *)
(* new readers out and waits for the readers inside to leave.              *)
(***************************************************************************)
EXTENDS Naturals, Sequences, FiniteSets

CONSTANTS
  Goroutines,
  Codecs,
  Inputs,       (* private keys (Marshal) and DER blobs (Parse)            *)
  Outcome,      (* Outcome[c][x]: what codec c returns for input x         *)
  NoOne,        (* no goroutine                                            *)
  MaxCodecs     (* bound: codecs registered in one behaviour               *)

Outcomes == {"ok", "error", "ErrUnsupported"}

ASSUME OutcomeAssumption == Outcome \in [Codecs -> [Inputs -> Outcomes]]
ASSUME NoOneAssumption == NoOne \notin Goroutines
ASSUME GoroutinesAssumption == IsFiniteSet(Goroutines)
ASSUME MaxCodecsAssumption == MaxCodecs \in Nat

VARIABLES
  pc,           (* where each goroutine is in its call                     *)
  call,         (* the call and its argument                               *)
  answer,       (* the result its call has decided on                      *)
  codecs,       (* var codecs []Codec                                      *)
  view,         (* the slice a goroutine's range or append has loaded      *)
  index,        (* loop index of a Lookup                                  *)
  writer,       (* mu: the writer holding it or draining the readers       *)
  readers,      (* mu: the readers holding it                              *)
  known         (* history: codecs registered when the call was made       *)

lock == <<writer, readers>>
vars == <<pc, call, answer, codecs, view, index, writer, readers, known>>

Dir == INSTANCE CodecDirectory WITH
  registered <- codecs,
  call <- [g \in Goroutines |-> IF pc[g] = "idle" THEN [fn |-> "none"] ELSE call[g]]

Calls == [fn : {"Register"}, codec : Codecs] \cup [fn : {"Lookup"}, input : Inputs]
Answers == [outcome : {"undecided", "registered", "ErrUnsupported"}]
             \cup [outcome : {"ok", "error"}, by : Codecs]
Steps == {"idle", "lock", "drain", "append", "store", "unlock", "rlock", "rwait", "range", "loop", "runlock"}

TypeOK ==
  /\ pc \in [Goroutines -> Steps]
  /\ call \in [Goroutines -> Calls \cup {Dir!NoCall}]
  /\ answer \in [Goroutines -> Answers]
  /\ codecs \in Seq(Codecs) /\ Len(codecs) <= MaxCodecs
  /\ view \in [Goroutines -> Seq(Codecs)]
  /\ index \in [Goroutines -> 1..(MaxCodecs + 1)]
  /\ writer \in Goroutines \cup {NoOne}
  /\ readers \subseteq Goroutines
  /\ known \in [Goroutines -> SUBSET Codecs]

Init ==
  /\ pc = [g \in Goroutines |-> "idle"]
  /\ call = [g \in Goroutines |-> Dir!NoCall]
  /\ answer = [g \in Goroutines |-> Dir!Undecided]
  /\ codecs = <<>>
  /\ view = [g \in Goroutines |-> <<>>]
  /\ index = [g \in Goroutines |-> 1]
  /\ writer = NoOne
  /\ readers = {}
  /\ known = [g \in Goroutines |-> {}]

Goto(g, next) == pc' = [pc EXCEPT ![g] = next]

Enter(g, c, first) ==
  /\ pc[g] = "idle"
  /\ call' = [call EXCEPT ![g] = c]
  /\ answer' = [answer EXCEPT ![g] = Dir!Undecided]
  /\ known' = [known EXCEPT ![g] = {codecs[i] : i \in DOMAIN codecs}]
  /\ Goto(g, first)
  /\ UNCHANGED <<codecs, view, index, lock>>

(* Register.                                                               *)

\* The codecs there will be when the Register calls now running return.
Expected ==
  Len(codecs) + Cardinality({h \in Goroutines : pc[h] \in {"lock", "drain", "append", "store"}})

BeginRegister(g, c) ==
  /\ Expected < MaxCodecs
  /\ Enter(g, [fn |-> "Register", codec |-> c], "lock")

\* Mutant: Register does not take the lock.
AnnounceUnlocked(g) ==
  /\ pc[g] = "lock"
  /\ Goto(g, "append")
  /\ UNCHANGED <<call, answer, codecs, view, index, lock, known>>

\* mu.Lock, first half: shut out other writers and new readers.
Announce(g) ==
  /\ pc[g] = "lock"
  /\ writer = NoOne
  /\ writer' = g
  /\ Goto(g, "drain")
  /\ UNCHANGED <<call, answer, codecs, view, index, readers, known>>

\* mu.Lock, second half: the readers that were inside have left.
Drained(g) ==
  /\ pc[g] = "drain"
  /\ readers = {}
  /\ Goto(g, "append")
  /\ UNCHANGED <<call, answer, codecs, view, index, lock, known>>

\* codecs = append(codecs, c): load the slice, then store the longer one.
LoadCodecs(g) ==
  /\ pc[g] = "append"
  /\ view' = [view EXCEPT ![g] = codecs]
  /\ Goto(g, "store")
  /\ UNCHANGED <<call, answer, codecs, index, lock, known>>

\* Mutant: the new codec is put first.
StoreCodecsFirst(g) ==
  /\ pc[g] = "store"
  /\ codecs' = <<call[g].codec>> \o view[g]
  /\ answer' = [answer EXCEPT ![g] = Dir!Done]
  /\ Goto(g, "unlock")
  /\ UNCHANGED <<call, view, index, lock, known>>

StoreCodecs(g) ==
  /\ pc[g] = "store"
  /\ codecs' = Append(view[g], call[g].codec)
  /\ answer' = [answer EXCEPT ![g] = Dir!Done]
  /\ Goto(g, "unlock")
  /\ UNCHANGED <<call, view, index, lock, known>>

\* mu.Unlock admits every reader that is waiting, then lets a writer in.
Unlock(g) ==
  /\ pc[g] = "unlock"
  /\ writer' = NoOne
  /\ readers' = readers \cup {h \in Goroutines : pc[h] = "rwait"}
  /\ pc' = [h \in Goroutines |-> IF h = g THEN "idle"
                                 ELSE IF pc[h] = "rwait" THEN "range" ELSE pc[h]]
  /\ UNCHANGED <<call, answer, codecs, view, index, known>>

(* Marshal and Parse.                                                      *)

BeginLookup(g, x) == Enter(g, [fn |-> "Lookup", input |-> x], "rlock")

\* Mutant: readers get in until the writer has drained the ones before.
RLockPastWriter(g) ==
  /\ pc[g] = "rlock"
  /\ writer = NoOne \/ \E h \in Goroutines : h = writer /\ pc[h] = "drain"
  /\ readers' = readers \cup {g}
  /\ Goto(g, "range")
  /\ UNCHANGED <<call, answer, codecs, view, index, writer, known>>

\* mu.RLock when no writer holds mu or waits for it.
RLock(g) ==
  /\ pc[g] = "rlock"
  /\ writer = NoOne
  /\ readers' = readers \cup {g}
  /\ Goto(g, "range")
  /\ UNCHANGED <<call, answer, codecs, view, index, writer, known>>

\* mu.RLock when one does: wait for its Unlock.
RWait(g) ==
  /\ pc[g] = "rlock"
  /\ writer # NoOne
  /\ Goto(g, "rwait")
  /\ UNCHANGED <<call, answer, codecs, view, index, lock, known>>

\* range codecs evaluates the slice once.
RangeCodecs(g) ==
  /\ pc[g] = "range"
  /\ view' = [view EXCEPT ![g] = codecs]
  /\ index' = [index EXCEPT ![g] = 1]
  /\ Goto(g, "loop")
  /\ UNCHANGED <<call, answer, codecs, lock, known>>

\* Mutant: any error of a codec, not only ErrUnsupported, tries the next.
TryNextAfterError(g) ==
  /\ pc[g] = "loop"
  /\ index[g] <= Len(view[g])
  /\ Outcome[view[g][index[g]]][call[g].input] # "ok"
  /\ index' = [index EXCEPT ![g] = @ + 1]
  /\ UNCHANGED <<pc, call, answer, codecs, view, lock, known>>

\* One iteration: errors.Is(err, ErrUnsupported) tries the next codec.
TryNext(g) ==
  /\ pc[g] = "loop"
  /\ index[g] <= Len(view[g])
  /\ Outcome[view[g][index[g]]][call[g].input] = "ErrUnsupported"
  /\ index' = [index EXCEPT ![g] = @ + 1]
  /\ UNCHANGED <<pc, call, answer, codecs, view, lock, known>>

\* One iteration: the codec recognizes the input; its result is returned.
Recognize(g) ==
  /\ pc[g] = "loop"
  /\ index[g] <= Len(view[g])
  /\ LET c == view[g][index[g]]
         r == Outcome[c][call[g].input]
     IN  /\ r # "ErrUnsupported"
         /\ answer' = [answer EXCEPT ![g] = [outcome |-> r, by |-> c]]
  /\ Goto(g, "runlock")
  /\ UNCHANGED <<call, codecs, view, index, lock, known>>

\* Mutant: the loop stops before the last codec.
ExhaustedEarly(g) ==
  /\ pc[g] = "loop"
  /\ index[g] >= Len(view[g])
  /\ answer' = [answer EXCEPT ![g] = Dir!Unsupported]
  /\ Goto(g, "runlock")
  /\ UNCHANGED <<call, codecs, view, index, lock, known>>

\* Mutant: the loop has no end test but the codec's.
ExhaustedNever(g) ==
  /\ pc[g] = "loop"
  /\ index[g] > Len(view[g])
  /\ index' = [index EXCEPT ![g] = @ + 1]
  /\ UNCHANGED <<pc, call, answer, codecs, view, lock, known>>

\* No codec is left to try.
Exhausted(g) ==
  /\ pc[g] = "loop"
  /\ index[g] > Len(view[g])
  /\ answer' = [answer EXCEPT ![g] = Dir!Unsupported]
  /\ Goto(g, "runlock")
  /\ UNCHANGED <<call, codecs, view, index, lock, known>>

RUnlock(g) ==
  /\ pc[g] = "runlock"
  /\ readers' = readers \ {g}
  /\ Goto(g, "idle")
  /\ UNCHANGED <<call, answer, codecs, view, index, writer, known>>

Begin(g) ==
  \/ \E c \in Codecs : BeginRegister(g, c)
  \/ \E x \in Inputs : BeginLookup(g, x)

Step(g) ==
  \/ Announce(g) \/ Drained(g) \/ LoadCodecs(g) \/ StoreCodecs(g) \/ Unlock(g)
  \/ RLock(g) \/ RWait(g) \/ RangeCodecs(g) \/ TryNext(g) \/ Recognize(g) \/ Exhausted(g) \/ RUnlock(g)

Next == \E g \in Goroutines : Begin(g) \/ Step(g)

Spec == Init /\ [][Next]_vars

(* A goroutine inside a call keeps running and codecs return; the mutex a   *)
(* writer takes first is a sync.Mutex, which starves no waiter.             *)
Fairness == \A g \in Goroutines : WF_vars(Step(g)) /\ SF_vars(Announce(g))

FairSpec == Spec /\ Fairness

-----------------------------------------------------------------------------
(* Properties.                                                             *)

Recognizes(c, x) == Outcome[c][x] # "ErrUnsupported"

Decided(g) == pc[g] \in {"runlock", "idle"} /\ call[g].fn = "Lookup"

\* A lookup that began after a codec was registered does not miss it: it
\* returns ErrUnsupported only if none of the codecs registered when it was
\* called recognizes its input.
KnownCodecsAreTried ==
  \A g \in Goroutines :
    Decided(g) /\ answer[g] = Dir!Unsupported =>
      \A c \in known[g] : ~ Recognizes(c, call[g].input)

\* "First registered wins": two codecs may claim one input, but all lookups
\* of that input, however they interleave with registrations, are answered
\* by the same one.
LookupsAgree ==
  \A g, h \in Goroutines :
    /\ Decided(g) /\ Decided(h) /\ call[g].input = call[h].input
    /\ answer[g] # Dir!Unsupported /\ answer[h] # Dir!Unsupported
    => answer[g] = answer[h]

\* Every Register, Marshal and Parse returns: readers do not starve writers,
\* nor writers readers.
CallsReturn == \A g \in Goroutines : pc[g] # "idle" ~> pc[g] = "idle"

\* The locked list is an atomic directory: no registration is lost, and each
\* lookup has the answer the list gave at one moment of the call.
ImplementsDirectory == Dir!Spec
=============================================================================
