---------------------------- MODULE MCCostsFile ----------------------------
(* Two architectures and three algorithms, of which runs attempt the         *)
(* reference and any of the others.                                          *)
EXTENDS CostsFile

MCArchOrder == <<"amd64", "arm64">>
MCNameOrder == <<"ED25519", "MAYO1", "MLDSA44">>
=============================================================================
