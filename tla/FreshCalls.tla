----------------------------- MODULE FreshCalls -----------------------------
(***************************************************************************)
(* What the QR-UOV adapter promises to its callers, with no lock and no    *)
(* generator in sight: each signing or key-generation call either fails    *)
(* or produces one output, made from a seed no other output was made from  *)
(* and read from the start of that seed's stream.                          *)
(***************************************************************************)
EXTENDS Naturals, Sequences

CONSTANTS
  Callers,    (* who calls Sign, Generate and VerifySignature              *)
  Seeds,      (* the seeds the operating system's generator can return     *)
  MaxReads    (* most generator blocks one output is made from             *)

VARIABLES
  phase,      (* per caller: no call open, open, or open with its output   *)
  outputs     (* every output produced, with the stream it was made from   *)

vars == <<phase, outputs>>

Phases == {"idle", "open", "served"}

\* The first n blocks of the stream the generator gives after seed s.
Stream(s, n) == [i \in 1..n |-> <<s, i - 1>>]

TypeOK ==
  /\ phase \in [Callers -> Phases]
  /\ \A o \in outputs : o.by \in Callers /\ o.seed \in Seeds

Init ==
  /\ phase = [c \in Callers |-> "idle"]
  /\ outputs = {}

Begin(c) ==
  /\ phase[c] = "idle"
  /\ phase' = [phase EXCEPT ![c] = "open"]
  /\ UNCHANGED outputs

Produce(c) ==
  /\ phase[c] = "open"
  /\ phase' = [phase EXCEPT ![c] = "served"]
  /\ \E s \in Seeds \ {o.seed : o \in outputs}, n \in 1..MaxReads :
       outputs' = outputs \cup {[by |-> c, seed |-> s, stream |-> Stream(s, n)]}

Return(c) ==
  /\ phase[c] # "idle"
  /\ phase' = [phase EXCEPT ![c] = "idle"]
  /\ UNCHANGED outputs

Next == \E c \in Callers : Begin(c) \/ Produce(c) \/ Return(c)

Spec == Init /\ [][Next]_vars
=============================================================================
