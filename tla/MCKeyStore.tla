----------------------------- MODULE MCKeyStore -----------------------------
(* KeyStore over the repository's packages and its two codepoint tables, in  *)
(* which falcon512, mayo1 and slhdsa128s have each other's numbers.           *)
EXTENDS KeyStore, Algorithms, TLC

MCPackages == DOMAIN AlgorithmImpl
MCLinkable == {"falcon512", "mayo1", "slhdsa128s", "ed448"}
MCTables == {RegistryTable @@ Ed448Table, DemoTable @@ Ed448Table}

\* Verify takes the type that PublicKeyFromWire returns, for the packages that
\* are not linked; for those that are, PublishedKeysVerify tells.
ASSUME UnlinkedWireTypesAssumption ==
  \A p \in MCPackages \ MCLinkable : AlgorithmImpl[p].fromWire \in AlgorithmImpl[p].verifies
=============================================================================
