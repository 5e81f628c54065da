--------------------------- MODULE CodecDirectory ---------------------------
(***************************************************************************)
(* What package pkcs8 promises: a directory of codecs that only grows, in  *)
(* which a lookup is answered, at one moment between its call and its      *)
(* return, by the first registered codec that recognizes its input.        *)
(***************************************************************************)
EXTENDS Naturals, Sequences

CONSTANTS
  Goroutines,
  Codecs,
  Inputs,     (* private keys for Marshal, DER blobs for Parse             *)
  Outcome     (* Outcome[c][x]: what codec c answers for input x           *)

VARIABLES
  registered, (* the codecs, in registration order                         *)
  call,       (* what each goroutine has called and not returned from      *)
  answer      (* what its call will return, once decided                   *)

vars == <<registered, call, answer>>

NoCall == [fn |-> "none"]
Undecided == [outcome |-> "undecided"]
Unsupported == [outcome |-> "ErrUnsupported"]
Done == [outcome |-> "registered"]

\* First registered wins; no codec recognizes x: ErrUnsupported.
FirstAnswer(codecSeq, x) ==
  LET claims == {i \in DOMAIN codecSeq : Outcome[codecSeq[i]][x] # "ErrUnsupported"}
  IN  IF claims = {} THEN Unsupported
      ELSE LET first == CHOOSE i \in claims : \A j \in claims : i <= j
           IN  [outcome |-> Outcome[codecSeq[first]][x], by |-> codecSeq[first]]

Init ==
  /\ registered = <<>>
  /\ call = [g \in Goroutines |-> NoCall]
  /\ answer = [g \in Goroutines |-> Undecided]

Start(g, c) ==
  /\ call[g] = NoCall
  /\ call' = [call EXCEPT ![g] = c]
  /\ answer' = [answer EXCEPT ![g] = Undecided]
  /\ UNCHANGED registered

Register(g) ==
  /\ call[g].fn = "Register" /\ answer[g] = Undecided
  /\ registered' = Append(registered, call[g].codec)
  /\ answer' = [answer EXCEPT ![g] = Done]
  /\ UNCHANGED call

Lookup(g) ==
  /\ call[g].fn = "Lookup" /\ answer[g] = Undecided
  /\ answer' = [answer EXCEPT ![g] = FirstAnswer(registered, call[g].input)]
  /\ UNCHANGED <<registered, call>>

Return(g) ==
  /\ call[g] # NoCall /\ answer[g] # Undecided
  /\ call' = [call EXCEPT ![g] = NoCall]
  /\ UNCHANGED <<registered, answer>>

Next ==
  \E g \in Goroutines :
    \/ \E c \in Codecs : Start(g, [fn |-> "Register", codec |-> c])
    \/ \E x \in Inputs : Start(g, [fn |-> "Lookup", input |-> x])
    \/ Register(g) \/ Lookup(g) \/ Return(g)

Spec == Init /\ [][Next]_vars
=============================================================================
