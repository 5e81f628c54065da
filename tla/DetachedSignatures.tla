------------------------- MODULE DetachedSignatures -------------------------
(***************************************************************************)
(* What the SQIsign adapter promises to its callers, with no buffer and no *)
(* C call in sight: a request is answered once, by an error or by the      *)
(* right answer.  A signature is one that the Signer's own public key      *)
(* verifies, and verification tells exactly the signatures of a message    *)
(* from everything else.                                                   *)
(***************************************************************************)
EXTENDS Naturals

CONSTANTS
  Callers,    (* who asks                                                  *)
  Keys,       (* the key pairs the library can generate                    *)
  Messages,   (* what is signed                                            *)
  None        (* no request, no answer                                     *)

VARIABLES
  generated,  (* key pairs handed out so far                               *)
  request,    (* per caller: what it asks for                              *)
  answer      (* per caller: what it was told                              *)

vars == <<generated, request, answer>>

\* A signature made with key k; a Signer, by the key its public half is of;
\* and what a caller may hand over instead of either.
Signature(k, m) == [by |-> k, of |-> m]
Forged == [by |-> None, of |-> None]

Requests ==
  [op : {"Generate"}]
    \cup [op : {"Sign"}, key : Keys \cup {None}, message : Messages]
    \cup [op : {"VerifySignature"}, key : Keys \cup {None}, message : Messages,
          signature : [by : Keys, of : Messages] \cup {Forged, None}]
    \cup [op : {"MarshalBinary", "UnmarshalBinary"}, key : Keys \cup {None}]

\* The right answers to a request; none if it is not well-formed.
RightAnswers(r) ==
  IF r.op = "Generate" THEN [key : Keys \ generated]
  ELSE IF r.key = None THEN {}
  ELSE IF r.op = "Sign" THEN [signature : {Signature(r.key, r.message)}]
  ELSE IF r.op = "VerifySignature"
       THEN IF r.signature = None THEN {}
            ELSE [valid : {r.signature = Signature(r.key, r.message)}]
  ELSE [key : {r.key}]

Failed == [error |-> "error"]

Init ==
  /\ generated = {}
  /\ request = [c \in Callers |-> None]
  /\ answer = [c \in Callers |-> None]

Ask(c) ==
  /\ request[c] = None
  /\ \E r \in Requests : request' = [request EXCEPT ![c] = r]
  /\ UNCHANGED <<generated, answer>>

Answer(c) ==
  /\ request[c] # None /\ answer[c] = None
  /\ \E a \in RightAnswers(request[c]) \cup {Failed} :
       /\ answer' = [answer EXCEPT ![c] = a]
       /\ generated' = IF request[c].op = "Generate" /\ a # Failed
                       THEN generated \cup {a.key} ELSE generated
  /\ UNCHANGED request

Return(c) ==
  /\ answer[c] # None
  /\ request' = [request EXCEPT ![c] = None]
  /\ answer' = [answer EXCEPT ![c] = None]
  /\ UNCHANGED generated

Next == \E c \in Callers : Ask(c) \/ Answer(c) \/ Return(c)

Spec == Init /\ [][Next]_vars
=============================================================================
