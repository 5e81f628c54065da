-------------------------- MODULE MCPkcs8Registry --------------------------
(* Pkcs8Registry with two codecs that both claim one input, of which one    *)
(* fails to decode it, and an input only the second recognizes.             *)
EXTENDS Pkcs8Registry

CONSTANTS g1, g2, c1, c2

MCGoroutines == {g1, g2}
MCCodecs == {c1, c2}
MCInputs == {"claimed by both", "claimed by c2"}
MCOutcome ==
  [c \in MCCodecs |-> [x \in MCInputs |->
     IF x = "claimed by both" THEN (IF c = c1 THEN "error" ELSE "ok")
     ELSE IF c = c2 THEN "ok" ELSE "ErrUnsupported"]]
=============================================================================
