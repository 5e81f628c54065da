----------------------------- MODULE Algorithms -----------------------------
(***************************************************************************)
(* The repository's sixteen algorithm packages as rows: what each package's *)
(* Impl and PKCS#8 codec accept and return, the registry's table and the   *)
(* demo's.  Types are Go's names for them; lengths are in bytes.           *)
(***************************************************************************)
EXTENDS Naturals, Sequences

\* The dns.Algorithm of a package whose keys are stored in keyLen bytes:
\* the key's Go type and name, the type of its Public(), the types that
\* PublicKeyToWire accepts, PublicKeyFromWire returns and Verify accepts.
Row(goType, algName, keyLen, pubLen, public, toWire, fromWire, verifies) ==
  [goType |-> goType, algName |-> algName, keyLen |-> keyLen, pubLen |-> pubLen,
   public |-> public, toWire |-> toWire, fromWire |-> fromWire, verifies |-> verifies]

\* The packages over a C adapter: a Signer stored as secret || public, and
\* raw public keys.
Adapter(goType, algName, sec, pub) ==
  Row(goType, algName, sec + pub, pub, "[]byte", {"[]byte"}, "[]byte", {"[]byte"})

Liboqs(algName, sec, pub) == Adapter("*liboqs.Signer", algName, sec, pub)

idAlg == <<2, 16, 840, 1, 101, 3, 4, 3>>

CodecRow(goType, algName, oid) == [goType |-> goType, algName |-> algName, oid |-> oid]

\* The placeholder arc id-alg.99.N.
LiboqsCodec(algName, n) == CodecRow("*liboqs.Signer", algName, idAlg \o <<99, n>>)

(* CIRCL, pure Go.                                                         *)

mldsa65 ==
  LET pub == "*mldsa65.PublicKey"
  IN  Row("*mldsa65.PrivateKey", "", 4032, 1952, pub, {pub}, pub, {pub})
mldsa65Codec == CodecRow("*mldsa65.PrivateKey", "", idAlg \o <<18>>)

mldsa87 ==
  LET pub == "*mldsa87.PublicKey"
  IN  Row("*mldsa87.PrivateKey", "", 4896, 2592, pub, {pub}, pub, {pub})
mldsa87Codec == CodecRow("*mldsa87.PrivateKey", "", idAlg \o <<19>>)

\* Mutant: Verify accepts the value only, PublicKeyFromWire returns a pointer.
slhdsa128sVerifiesValues ==
  LET val == "slhdsa.PublicKey"
      ptr == "*slhdsa.PublicKey"
  IN  Row("*slhdsa.PrivateKey", "", 64, 32, val, {val, ptr}, ptr, {val})

slhdsa128s ==
  LET val == "slhdsa.PublicKey"
      ptr == "*slhdsa.PublicKey"
  IN  Row("*slhdsa.PrivateKey", "", 64, 32, val, {val, ptr}, ptr, {val, ptr})
slhdsa128sCodec == CodecRow("*slhdsa.PrivateKey", "", idAlg \o <<20>>)

\* ed448 stores the seed; CIRCL expands it.
ed448 ==
  LET val == "ed448.PublicKey"
  IN  Row("ed448.PrivateKey", "", 57, 57, val, {val, "*ed448.PublicKey"}, val, {val})
ed448Codec == CodecRow("ed448.PrivateKey", "", <<1, 3, 101, 113>>)

(* C libraries.                                                            *)

falcon512 == Liboqs("Falcon-512", 1281, 897)
falcon512Codec == LiboqsCodec("Falcon-512", 1)

falcon1024 == Liboqs("Falcon-1024", 2305, 1793)
falcon1024Codec == LiboqsCodec("Falcon-1024", 9)

mayo1 == Liboqs("MAYO-1", 24, 1420)
mayo1Codec == LiboqsCodec("MAYO-1", 2)

mayo2 == Liboqs("MAYO-2", 24, 4912)
mayo2Codec == LiboqsCodec("MAYO-2", 6)

mayo3 == Liboqs("MAYO-3", 32, 2986)
mayo3Codec == LiboqsCodec("MAYO-3", 7)

mayo5 == Liboqs("MAYO-5", 40, 5554)
mayo5Codec == LiboqsCodec("MAYO-5", 8)

snova24_5_4 == Liboqs("SNOVA_24_5_4", 48, 1016)
snova24_5_4Codec == LiboqsCodec("SNOVA_24_5_4", 3)

snova25_8_3 == Liboqs("SNOVA_25_8_3", 48, 2320)
snova25_8_3Codec == LiboqsCodec("SNOVA_25_8_3", 11)

snova37_17_2 == Liboqs("SNOVA_37_17_2", 48, 9842)
snova37_17_2Codec == LiboqsCodec("SNOVA_37_17_2", 10)

cross_rsdpg_128_small == Liboqs("cross-rsdpg-128-small", 32, 54)
cross_rsdpg_128_smallCodec == LiboqsCodec("cross-rsdpg-128-small", 12)

sqisign1 == Adapter("*sqisignc.Signer", "", 353, 65)
sqisign1Codec == CodecRow("*sqisignc.Signer", "", idAlg \o <<99, 4>>)

qruov_q31_l3 == Adapter("*qruovc.Signer", "", 32, 23641)
qruov_q31_l3Codec == CodecRow("*qruovc.Signer", "", idAlg \o <<99, 5>>)

-----------------------------------------------------------------------------

AlgorithmImpl ==
  [mldsa65 |-> mldsa65,
   mldsa87 |-> mldsa87,
   slhdsa128s |-> slhdsa128s,
   ed448 |-> ed448,
   falcon512 |-> falcon512,
   falcon1024 |-> falcon1024,
   mayo1 |-> mayo1,
   mayo2 |-> mayo2,
   mayo3 |-> mayo3,
   mayo5 |-> mayo5,
   snova24_5_4 |-> snova24_5_4,
   snova25_8_3 |-> snova25_8_3,
   snova37_17_2 |-> snova37_17_2,
   cross_rsdpg_128_small |-> cross_rsdpg_128_small,
   sqisign1 |-> sqisign1,
   qruov_q31_l3 |-> qruov_q31_l3]

AlgorithmCodec ==
  [mldsa65 |-> mldsa65Codec,
   mldsa87 |-> mldsa87Codec,
   slhdsa128s |-> slhdsa128sCodec,
   ed448 |-> ed448Codec,
   falcon512 |-> falcon512Codec,
   falcon1024 |-> falcon1024Codec,
   mayo1 |-> mayo1Codec,
   mayo2 |-> mayo2Codec,
   mayo3 |-> mayo3Codec,
   mayo5 |-> mayo5Codec,
   snova24_5_4 |-> snova24_5_4Codec,
   snova25_8_3 |-> snova25_8_3Codec,
   snova37_17_2 |-> snova37_17_2Codec,
   cross_rsdpg_128_small |-> cross_rsdpg_128_smallCodec,
   sqisign1 |-> sqisign1Codec,
   qruov_q31_l3 |-> qruov_q31_l3Codec]

\* registry.Alg, the columns by which other code finds a row.
Alg(codepoint, name, package) == [codepoint |-> codepoint, name |-> name, package |-> package]

\* registry.Algorithms.
RegistryRows ==
  {Alg(200, "MLDSA65", "mldsa65"),
   Alg(201, "MLDSA87", "mldsa87"),
   Alg(202, "SLHDSA128S", "slhdsa128s"),
   Alg(203, "FALCON512", "falcon512"),
   Alg(204, "FALCON1024", "falcon1024"),
   Alg(205, "MAYO1", "mayo1"),
   Alg(206, "MAYO2", "mayo2"),
   Alg(207, "MAYO3", "mayo3"),
   Alg(208, "MAYO5", "mayo5"),
   Alg(209, "SNOVA24_5_4", "snova24_5_4"),
   Alg(210, "SNOVA37_17_2", "snova37_17_2"),
   Alg(211, "SNOVA25_8_3", "snova25_8_3"),
   Alg(212, "SQISIGN1", "sqisign1"),
   Alg(213, "QRUOV_Q31_L3", "qruov_q31_l3"),
   Alg(214, "CROSSRSDPG128SMALL", "cross_rsdpg_128_small")}

RegistryTable ==
  [p \in {a.package : a \in RegistryRows} |->
     (CHOOSE a \in RegistryRows : a.package = p).codepoint]

\* registry.Facts: the sizes of an algorithm's keys.
Facts(pubKeyBytes, secKeyBytes) == [pubKeyBytes |-> pubKeyBytes, secKeyBytes |-> secKeyBytes]

AlgorithmFacts ==
  [ED25519 |-> Facts(32, 32),
   ED448 |-> Facts(57, 57),
   ECDSAP256SHA256 |-> Facts(64, 32),
   ECDSAP384SHA384 |-> Facts(96, 48),
   RSASHA256 |-> Facts(260, 1192),
   RSASHA512 |-> Facts(260, 1192),
   MLDSA44 |-> Facts(1312, 2560),
   MLDSA65 |-> Facts(1952, 4032),
   MLDSA87 |-> Facts(2592, 4896),
   FALCON512 |-> Facts(897, 1281),
   FALCON1024 |-> Facts(1793, 2305),
   SLHDSA128S |-> Facts(32, 64),
   MAYO1 |-> Facts(1420, 24),
   MAYO2 |-> Facts(4912, 24),
   MAYO3 |-> Facts(2986, 32),
   MAYO5 |-> Facts(5554, 40),
   SNOVA24_5_4 |-> Facts(1016, 48),
   SNOVA37_17_2 |-> Facts(9842, 48),
   SNOVA25_8_3 |-> Facts(2320, 48),
   QRUOV_Q31_L3 |-> Facts(23641, 32),
   SQISIGN1 |-> Facts(65, 353),
   CROSSRSDPG128SMALL |-> Facts(54, 32)]

\* Algorithms with facts that every consumer has without a row.
NoRow == {"ED25519", "ED448", "ECDSAP256SHA256", "ECDSAP384SHA384", "RSASHA256", "RSASHA512", "MLDSA44"}

\* TestTableIntegrity, TestFactsCoverage and TestAlwaysRegisteredAlgorithmsHaveNoRow.
ASSUME RegistryAssumption ==
  /\ \A a, b \in RegistryRows : a # b =>
       a.codepoint # b.codepoint /\ a.name # b.name /\ a.package # b.package
  /\ DOMAIN AlgorithmFacts = {a.name : a \in RegistryRows} \cup NoRow
  /\ \A a \in RegistryRows : a.name \notin NoRow /\ a.codepoint \notin {16, 18}

\* The sizes the packages and adapters check are those of the facts, which the
\* repository keeps apart and compares nowhere: a key is stored as its secret
\* half, or as both halves.
ASSUME FactsAssumption ==
  \A a \in RegistryRows \cup {Alg(16, "ED448", "ed448")} :
    LET facts == AlgorithmFacts[a.name]
        row == AlgorithmImpl[a.package]
    IN  /\ row.pubLen = facts.pubKeyBytes
        /\ row.keyLen \in {facts.secKeyBytes, facts.secKeyBytes + facts.pubKeyBytes}

\* The demo's own table, README.md's "Demo codepoint" column.
DemoTable ==
  [slhdsa128s |-> 200, falcon512 |-> 201, mayo1 |-> 202, snova24_5_4 |-> 203,
   sqisign1 |-> 204, qruov_q31_l3 |-> 205, mayo2 |-> 206, mayo3 |-> 207,
   mayo5 |-> 208, falcon1024 |-> 209, snova37_17_2 |-> 210, snova25_8_3 |-> 211]

\* ed448 is no row of either; its consumers register it at 16.
Ed448Table == [ed448 |-> 16]
=============================================================================
