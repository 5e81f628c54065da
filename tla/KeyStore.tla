------------------------------ MODULE KeyStore ------------------------------
(***************************************************************************)
(* The life of private keys in a program that links the algorithm          *)
(* packages: package initialization, dns.RegisterAlgorithm, key            *)
(* generation, BIND-style key files, PKCS#8 blobs, and a restart of the    *)
(* program (or another program) that links other packages, initializes     *)
(* them in another order or gives them other codepoints.                   *)
(*                                                                         *)
(* The packages share one shape, <alg>/<alg>.go and <alg>/pkcs8.go; what   *)
(* differs between them is in the rows Impl[p] and Codec[p], whose values  *)
(* for the repository's packages are in module Algorithms.  Key material   *)
(* is the package that generated it and a number; of an encoding, only     *)
(* its length and the identifiers around it are kept.                      *)
(***************************************************************************)
EXTENDS Naturals, Sequences, SequencesExt

CONSTANTS
  Packages,     (* every algorithm package there is                        *)
  Linkable,     (* the packages the programs considered link               *)
  Impl,         (* Impl[p]: what p's dns.Algorithm accepts and returns     *)
  Codec,        (* Codec[p]: what p's PKCS#8 codec accepts and returns     *)
  Tables,       (* codepoint assignments, functions from packages          *)
  None,         (* no package                                              *)
  MaxKeys       (* bound: keys generated in one behaviour                  *)

ASSUME LinkableAssumption == Linkable \subseteq Packages
ASSUME NoneAssumption == None \notin Packages
ASSUME MaxKeysAssumption == MaxKeys \in Nat

\* TestTableIntegrity of the registry: codepoints are unique.
ASSUME TablesAssumption == \A t \in Tables : IsInjective(t)

\* The OIDs are unique, and so are the encoded private key lengths, which
\* nothing in the code checks or records.
ASSUME IdentifiersAssumption ==
  \A p, q \in Packages : p # q =>
    /\ Codec[p].oid # Codec[q].oid
    /\ Impl[p].keyLen # Impl[q].keyLen

\* A codec's type test and name test single out its own package's keys: Signers
\* that share a Go type carry different names.
ASSUME NamesAssumption ==
  \A p, q \in Packages :
    (Impl[q].goType = Codec[p].goType /\ Impl[q].algName = Codec[p].algName) <=> p = q

ASSUME LengthsAssumption ==
  \A p \in Packages : Impl[p].keyLen \in Nat /\ Impl[p].pubLen \in Nat

VARIABLES
  pc,           (* the program: "importing", "running"                     *)
  codecs,       (* pkcs8's codec list, by package                          *)
  registered,   (* the dns package's registry: codepoint to package        *)
  held,         (* private keys in the program's memory                    *)
  dnskeys,      (* published DNSKEY records                                *)
  files,        (* private key files                                       *)
  blobs,        (* PKCS#8 blobs                                            *)
  keys          (* keys generated so far                                   *)

stored == <<dnskeys, files, blobs>>
vars == <<pc, codecs, registered, stored, held, keys>>

Codepoints == UNION {{t[p] : p \in DOMAIN t} : t \in Tables}
Materials == [by : Linkable, n : 1..MaxKeys]
Keys == [pkg : Linkable, material : Materials]

TypeOK ==
  /\ pc \in {"importing", "running"}
  /\ codecs \in Seq(Linkable) /\ IsInjective(codecs)
  /\ registered \in [Codepoints -> Linkable \cup {None}]
  /\ held \subseteq Keys
  /\ dnskeys \subseteq [cp : Codepoints, material : Materials, len : Nat]
  /\ files \subseteq [cp : Codepoints, material : Materials, len : Nat]
  /\ blobs \subseteq [oid : {Codec[p].oid : p \in Linkable}, material : Materials, len : Nat]
  /\ keys \in 0..MaxKeys

NothingRegistered == [cp \in Codepoints |-> None]

Init ==
  /\ pc = "importing"
  /\ codecs = <<>>
  /\ registered = NothingRegistered
  /\ held = {} /\ dnskeys = {} /\ files = {} /\ blobs = {}
  /\ keys = 0

-----------------------------------------------------------------------------
(* Pure functions.  A call returns its result, or an error.                 *)

Error(e) == [error |-> e]
ErrUnsupported == Error("ErrUnsupported")
Errors == {Error(e) : e \in {"ErrKey", "ErrPrivKey", "ErrUnsupported", "length"}}

\* Mutant: the length of a stored key is not checked.
UnmarshalUnchecked(p, e) == [pkg |-> p, material |-> e.material]

\* Mutant: the stored key is taken to be the secret half alone.
UnmarshalSecretOnly(p, e) ==
  IF e.len # Impl[p].keyLen - Impl[p].pubLen THEN Error("length") ELSE [pkg |-> p, material |-> e.material]

\* UnmarshalBinary of the adapters and of CIRCL: a blob of the length of p's
\* keys is cut up into a key of p, whatever bytes it holds.
UnmarshalBinary(p, e) ==
  IF e.len # Impl[p].keyLen THEN Error("length") ELSE [pkg |-> p, material |-> e.material]

\* PrivateKeyToString: the type assertion and the AlgName test.
IsKeyOf(p, k) ==
  /\ Impl[k.pkg].goType = Impl[p].goType
  /\ Impl[k.pkg].algName = Impl[p].algName

PrivateKeyToString(p, k) ==
  IF ~ IsKeyOf(p, k) THEN Error("ErrPrivKey") ELSE [material |-> k.material, len |-> Impl[k.pkg].keyLen]

ReadPrivateKey(p, f) == UnmarshalBinary(p, f)

\* Mutant: the codec tests the Go type and not the algorithm's name.
ClaimsType(p, k) == Impl[k.pkg].goType = Codec[p].goType

\* MarshalPKCS8: the type assertion and the AlgName test.
Claims(p, k) ==
  /\ Impl[k.pkg].goType = Codec[p].goType
  /\ Impl[k.pkg].algName = Codec[p].algName

MarshalPKCS8(p, k) ==
  IF ~ Claims(p, k) THEN ErrUnsupported
  ELSE [oid |-> Codec[p].oid, material |-> k.material, len |-> Impl[k.pkg].keyLen]

ParsePKCS8(p, b) ==
  IF b.oid # Codec[p].oid THEN ErrUnsupported ELSE UnmarshalBinary(p, b)

\* pkcs8.Marshal and pkcs8.Parse: the first answer that is not ErrUnsupported.
FirstAnswer(Answer(_)) ==
  LET i == SelectInSeq(codecs, LAMBDA p : Answer(p) # ErrUnsupported)
  IN  IF i = 0 THEN ErrUnsupported ELSE Answer(codecs[i])

Marshal(k) == FirstAnswer(LAMBDA p : MarshalPKCS8(p, k))
Parse(b) == FirstAnswer(LAMBDA p : ParsePKCS8(p, b))

\* PublicKeyToWire of what the key's Public method returns.
PublicKeyToWire(p, k) ==
  IF Impl[k.pkg].public \notin Impl[p].toWire THEN Error("ErrKey")
  ELSE [material |-> k.material, len |-> Impl[k.pkg].pubLen]

\* A record or a file of the DNS program names its algorithm by codepoint.
Numbered(cp, e) == [cp |-> cp, material |-> e.material, len |-> e.len]

Sign(k) == [by |-> k.pkg, material |-> k.material]

\* PublicKeyFromWire, then Verify.
Verify(p, d, sig) ==
  IF d.len # Impl[p].pubLen \/ Impl[p].fromWire \notin Impl[p].verifies THEN "ErrKey"
  ELSE IF sig = [by |-> p, material |-> d.material] THEN "ok" ELSE "ErrSig"

-----------------------------------------------------------------------------
(* Steps.                                                                  *)

\* A package's init: Go runs it once, and registers the codec only.
ImportPackage(p) ==
  /\ pc = "importing"
  /\ p \notin {codecs[i] : i \in DOMAIN codecs}
  /\ codecs' = Append(codecs, p)
  /\ UNCHANGED <<pc, registered, stored, held, keys>>

\* The loops over a table that call dns.RegisterAlgorithm.
RegisterAlgorithms(t) ==
  /\ pc = "importing"
  /\ registered' = [cp \in Codepoints |->
       LET linked == {p \in DOMAIN t : t[p] = cp /\ p \in {codecs[i] : i \in DOMAIN codecs}}
       IN  IF linked = {} THEN None ELSE CHOOSE p \in linked : TRUE]
  /\ pc' = "running"
  /\ UNCHANGED <<codecs, stored, held, keys>>

\* DNSKEY.Generate for a registered codepoint.
Generate(cp) ==
  LET p == registered[cp]
      k == [pkg |-> p, material |-> [by |-> p, n |-> keys + 1]]
  IN  /\ pc = "running"
      /\ p # None
      /\ keys < MaxKeys
      /\ PublicKeyToWire(p, k) \notin Errors
      /\ held' = held \cup {k}
      /\ dnskeys' = dnskeys \cup {Numbered(cp, PublicKeyToWire(p, k))}
      /\ keys' = keys + 1
      /\ UNCHANGED <<pc, codecs, registered, files, blobs>>

\* DNSKEY.PrivateKeyString, into a file.
WriteKeyFile(cp, k) ==
  /\ pc = "running"
  /\ registered[cp] # None
  /\ k \in held
  /\ PrivateKeyToString(registered[cp], k) \notin Errors
  /\ files' = files \cup {Numbered(cp, PrivateKeyToString(registered[cp], k))}
  /\ UNCHANGED <<pc, codecs, registered, dnskeys, blobs, held, keys>>

\* pkcs8.Marshal, into a file.
WriteBlob(k) ==
  /\ pc = "running"
  /\ k \in held
  /\ Marshal(k) \notin Errors
  /\ blobs' = blobs \cup {Marshal(k)}
  /\ UNCHANGED <<pc, codecs, registered, dnskeys, files, held, keys>>

\* Mutant: the error of ReadPrivateKey is ignored.
ReadKeyFileIgnoringErrors(f) ==
  /\ pc = "running"
  /\ registered[f.cp] # None
  /\ held' = held \cup {ReadPrivateKey(registered[f.cp], f)}
  /\ UNCHANGED <<pc, codecs, registered, stored, keys>>

\* DNSKEY.NewPrivateKey: the file's own number selects the algorithm.
ReadKeyFile(f) ==
  /\ pc = "running"
  /\ registered[f.cp] # None
  /\ ReadPrivateKey(registered[f.cp], f) \notin Errors
  /\ held' = held \cup {ReadPrivateKey(registered[f.cp], f)}
  /\ UNCHANGED <<pc, codecs, registered, stored, keys>>

\* pkcs8.Parse.
ReadBlob(b) ==
  /\ pc = "running"
  /\ Parse(b) \notin Errors
  /\ held' = held \cup {Parse(b)}
  /\ UNCHANGED <<pc, codecs, registered, stored, keys>>

\* The program ends and the next one starts; files and records stay.
Restart ==
  /\ pc = "running"
  /\ pc' = "importing"
  /\ codecs' = <<>>
  /\ registered' = NothingRegistered
  /\ held' = {}
  /\ UNCHANGED <<stored, keys>>

Next ==
  \/ \E p \in Linkable : ImportPackage(p)
  \/ \E t \in Tables : RegisterAlgorithms(t)
  \/ \E cp \in Codepoints : Generate(cp)
  \/ \E cp \in Codepoints, k \in held : WriteKeyFile(cp, k)
  \/ \E k \in held : WriteBlob(k)
  \/ \E f \in files : ReadKeyFile(f)
  \/ \E b \in blobs : ReadBlob(b)
  \/ Restart

Spec == Init /\ [][Next]_vars

-----------------------------------------------------------------------------
(* Properties.                                                             *)

\* A key restored from a file or a blob is a key of the algorithm that
\* generated it: programs whose codepoint tables disagree may refuse each
\* other's files, but never sign with another algorithm's key material.
MaterialIsNeverReinterpreted == \A k \in held : k.pkg = k.material.by

\* What one program stored another can read back as the same key: a blob if
\* it links the package at all, whatever the order of initialization; a
\* file if it gives the package the codepoint the writer gave it.
StoredKeysCanBeRead ==
  LET Key(m) == [pkg |-> m.by, material |-> m]
  IN  /\ \A b \in blobs :
           b.material.by \in {codecs[i] : i \in DOMAIN codecs} => Parse(b) = Key(b.material)
      /\ \A f \in files :
           registered[f.cp] = f.material.by =>
             ReadPrivateKey(registered[f.cp], f) = Key(f.material)

\* No two linked codecs answer for the same key or blob, so the order in
\* which Go initializes the packages, which decides who is asked first,
\* decides nothing else.
OneCodecAnswers ==
  \A i, j \in DOMAIN codecs : i # j =>
    /\ \A k \in held :
         MarshalPKCS8(codecs[i], k) = ErrUnsupported \/ MarshalPKCS8(codecs[j], k) = ErrUnsupported
    /\ \A b \in blobs :
         ParsePKCS8(codecs[i], b) = ErrUnsupported \/ ParsePKCS8(codecs[j], b) = ErrUnsupported

\* A signature made by a key, generated or restored, verifies under the
\* DNSKEY published when it was generated, and under no other.
PublishedKeysVerify ==
  \A k \in held, d \in dnskeys :
    registered[d.cp] = k.pkg =>
      (Verify(registered[d.cp], d, Sign(k)) = "ok" <=> k.material = d.material)

\* README.md: "registration is automatic on import".
ImportRegisters ==
  \A i \in DOMAIN codecs : \E cp \in Codepoints : registered[cp] = codecs[i]
=============================================================================
