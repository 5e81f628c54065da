--------------------------- MODULE KeyStoreProofs ---------------------------
(***************************************************************************)
(* Proofs about KeyStore, for every set of packages whose rows meet the    *)
(* assumptions, any packages linked in any order, any codepoint tables and *)
(* any number of keys: material is never reinterpreted, what was stored    *)
(* can be read back, the order of initialization decides nothing, and a    *)
(* key in memory can always be stored.                                     *)
(***************************************************************************)
EXTENDS KeyStore, TLAPS

-----------------------------------------------------------------------------
(* The inductive invariant.                                                *)

\* A key in memory is one of the package that generated its material.
HeldInv == \A k \in held : k.pkg = k.material.by

\* What is stored has the length, and a blob the OID, of the package that
\* generated the material, whichever package wrote it.
DnskeysInv == \A d \in dnskeys : d.len = Impl[d.material.by].pubLen

FilesInv == \A f \in files : f.len = Impl[f.material.by].keyLen

BlobsInv ==
  \A b \in blobs :
    /\ b.len = Impl[b.material.by].keyLen
    /\ b.oid = Codec[b.material.by].oid

IInv == TypeOK /\ HeldInv /\ DnskeysInv /\ FilesInv /\ BlobsInv

-----------------------------------------------------------------------------
(* What the conversions return.                                            *)

\* A key and an encoding are no errors.
LEMMA ResultsAreNoErrors ==
  ASSUME NEW a, NEW b, NEW c
  PROVE  /\ [pkg |-> a, material |-> b] \notin Errors
         /\ [material |-> a, len |-> b] \notin Errors
         /\ [oid |-> a, material |-> b, len |-> c] \notin Errors
         /\ ErrUnsupported \in Errors /\ Error("length") \in Errors
         /\ Error("ErrKey") \in Errors /\ Error("ErrPrivKey") \in Errors
         /\ Error("length") # ErrUnsupported
         /\ [pkg |-> a, material |-> b] # ErrUnsupported
         /\ [oid |-> a, material |-> b, len |-> c] # ErrUnsupported
  BY DEF Errors, Error, ErrUnsupported

LEMMA MinOfOne ==
  ASSUME NEW n \in Nat
  PROVE  Min({n}) = n
  BY DEF Min

\* A codec claims the keys of its own package and no others.
LEMMA ClaimsOwn ==
  ASSUME NEW p \in Packages, NEW k, k.pkg \in Packages
  PROVE  /\ Claims(p, k) <=> p = k.pkg
         /\ MarshalPKCS8(p, k) # ErrUnsupported <=> p = k.pkg
  BY NamesAssumption, ResultsAreNoErrors DEF Claims, MarshalPKCS8

\* A codec parses the blobs with its own OID and no others.
LEMMA ParsesOwn ==
  ASSUME NEW p \in Packages, NEW b, NEW q \in Packages, b.oid = Codec[q].oid
  PROVE  ParsePKCS8(p, b) # ErrUnsupported <=> p = q
  BY IdentifiersAssumption, ResultsAreNoErrors DEF ParsePKCS8, UnmarshalBinary

\* If one codec answers, its answer is Marshal's, wherever it is in the list.
LEMMA MarshalByOne ==
  ASSUME NEW k, NEW j \in 1..Len(codecs),
         \A i \in 1..Len(codecs) : MarshalPKCS8(codecs[i], k) # ErrUnsupported <=> i = j
  PROVE  Marshal(k) = MarshalPKCS8(codecs[j], k)
<1> DEFINE I == {i \in 1..Len(codecs) : MarshalPKCS8(codecs[i], k) # ErrUnsupported}
<1>1. I = {j}
  OBVIOUS
<1>2. Min(I) = j /\ I # {} /\ j # 0
  BY <1>1, MinOfOne
<1>3. QED
  BY <1>2 DEF Marshal, FirstAnswer, SelectInSeq

\* If one codec answers, its answer is Parse's.
LEMMA ParseByOne ==
  ASSUME NEW b, NEW j \in 1..Len(codecs),
         \A i \in 1..Len(codecs) : ParsePKCS8(codecs[i], b) # ErrUnsupported <=> i = j
  PROVE  Parse(b) = ParsePKCS8(codecs[j], b)
<1> DEFINE I == {i \in 1..Len(codecs) : ParsePKCS8(codecs[i], b) # ErrUnsupported}
<1>1. I = {j}
  OBVIOUS
<1>2. Min(I) = j /\ I # {} /\ j # 0
  BY <1>1, MinOfOne
<1>3. QED
  BY <1>2 DEF Parse, FirstAnswer, SelectInSeq

\* Linked is whether a package has registered its codec.
Linked(p) == \E i \in DOMAIN codecs : codecs[i] = p

LEMMA CodecList ==
  ASSUME TypeOK
  PROVE  /\ DOMAIN codecs = 1..Len(codecs)
         /\ \A i \in 1..Len(codecs) : codecs[i] \in Linkable /\ codecs[i] \in Packages
         /\ \A i, j \in 1..Len(codecs) : codecs[i] = codecs[j] => i = j
  BY LinkableAssumption DEF TypeOK, IsInjective

\* What Marshal makes of a key in memory: its own package's encoding, if that
\* package is linked.
LEMMA MarshalOfHeld ==
  ASSUME TypeOK, NEW k \in held, Marshal(k) \notin Errors
  PROVE  Marshal(k) = [oid |-> Codec[k.pkg].oid, material |-> k.material, len |-> Impl[k.pkg].keyLen]
<1>1. k.pkg \in Packages
  BY LinkableAssumption DEF TypeOK, Keys
<1>2. PICK j \in 1..Len(codecs) : MarshalPKCS8(codecs[j], k) # ErrUnsupported
  BY ResultsAreNoErrors DEF Marshal, FirstAnswer, SelectInSeq
<1>3. \A i \in 1..Len(codecs) : MarshalPKCS8(codecs[i], k) # ErrUnsupported <=> i = j
  BY <1>1, <1>2, ClaimsOwn, CodecList
<1>4. Marshal(k) = MarshalPKCS8(codecs[j], k)
  BY <1>3, MarshalByOne
<1>5. codecs[j] = k.pkg /\ Claims(codecs[j], k)
  BY <1>1, <1>2, ClaimsOwn, CodecList
<1>6. QED
  BY <1>4, <1>5 DEF MarshalPKCS8

\* What Marshal makes of a key whose package is linked.
LEMMA MarshalIfLinked ==
  ASSUME TypeOK, NEW k, k.pkg \in Packages, Linked(k.pkg)
  PROVE  Marshal(k) = [oid |-> Codec[k.pkg].oid, material |-> k.material, len |-> Impl[k.pkg].keyLen]
<1>1. PICK j \in 1..Len(codecs) : codecs[j] = k.pkg
  BY CodecList DEF Linked
<1>2. \A i \in 1..Len(codecs) : MarshalPKCS8(codecs[i], k) # ErrUnsupported <=> i = j
  BY <1>1, ClaimsOwn, CodecList
<1>3. Marshal(k) = MarshalPKCS8(k.pkg, k)
  BY <1>1, <1>2, MarshalByOne
<1>4. QED
  BY <1>3, ClaimsOwn DEF MarshalPKCS8

\* What Parse makes of a blob with the OID and the length of p's keys: a key of
\* p if p is linked, and no codec answers otherwise.
LEMMA ParseOfBlob ==
  ASSUME TypeOK, NEW b, NEW p \in Packages, b.oid = Codec[p].oid, b.len = Impl[p].keyLen
  PROVE  /\ Linked(p) => Parse(b) = [pkg |-> p, material |-> b.material]
         /\ Parse(b) # ErrUnsupported => Linked(p)
<1>1. \A i \in 1..Len(codecs) : ParsePKCS8(codecs[i], b) # ErrUnsupported <=> codecs[i] = p
  BY ParsesOwn, CodecList
<1>2. ASSUME Linked(p)
      PROVE  Parse(b) = [pkg |-> p, material |-> b.material]
  <2>1. PICK j \in 1..Len(codecs) : codecs[j] = p
    BY <1>2, CodecList DEF Linked
  <2>2. \A i \in 1..Len(codecs) : ParsePKCS8(codecs[i], b) # ErrUnsupported <=> i = j
    BY <1>1, <2>1, CodecList
  <2>3. Parse(b) = ParsePKCS8(p, b)
    BY <2>1, <2>2, ParseByOne
  <2>4. QED
    BY <2>3 DEF ParsePKCS8, UnmarshalBinary
<1>3. ASSUME Parse(b) # ErrUnsupported
      PROVE  Linked(p)
  <2>1. PICK i \in 1..Len(codecs) : ParsePKCS8(codecs[i], b) # ErrUnsupported
    BY <1>3 DEF Parse, FirstAnswer, SelectInSeq
  <2>2. QED
    BY <2>1, <1>1, CodecList DEF Linked
<1>4. QED
  BY <1>2, <1>3

\* What Parse makes of a stored blob: a key of the package that generated its
\* material, which is linked; and it does so whenever that package is linked.
LEMMA ParseOfStored ==
  ASSUME TypeOK, BlobsInv, NEW b \in blobs
  PROVE  /\ Linked(b.material.by) => Parse(b) = [pkg |-> b.material.by, material |-> b.material]
         /\ Parse(b) # ErrUnsupported => Linked(b.material.by)
<1>1. b.material.by \in Packages
  BY LinkableAssumption DEF TypeOK, Materials
<1>2. b.oid = Codec[b.material.by].oid /\ b.len = Impl[b.material.by].keyLen
  BY DEF BlobsInv
<1>3. QED
  BY <1>1, <1>2, ParseOfBlob

-----------------------------------------------------------------------------
(* The steps.                                                              *)

LEMMA InitHolds == Init => IInv
  BY MaxKeysAssumption
     DEF Init, IInv, TypeOK, HeldInv, DnskeysInv, FilesInv, BlobsInv, IsInjective, NothingRegistered

LEMMA GenerateStep ==
  ASSUME IInv, NEW cp \in Codepoints, Generate(cp)
  PROVE  IInv'
<1> DEFINE p == registered[cp]
           m == [by |-> p, n |-> keys + 1]
           k == [pkg |-> p, material |-> m]
<1>1. p \in Linkable /\ p \in Packages /\ keys + 1 \in 1..MaxKeys
  BY LinkableAssumption, MaxKeysAssumption DEF IInv, TypeOK, Generate
<1>2. m \in Materials /\ k \in Keys
  BY <1>1 DEF Materials, Keys
<1>3. Numbered(cp, PublicKeyToWire(p, k)) = [cp |-> cp, material |-> m, len |-> Impl[p].pubLen]
  BY ResultsAreNoErrors DEF Generate, PublicKeyToWire, Numbered
<1>4. /\ held' = held \cup {k}
      /\ dnskeys' = dnskeys \cup {[cp |-> cp, material |-> m, len |-> Impl[p].pubLen]}
      /\ UNCHANGED <<pc, codecs, registered, files, blobs>>
      /\ keys' = keys + 1
  BY <1>3 DEF Generate
<1>5. TypeOK'
  BY <1>1, <1>2, <1>4, LengthsAssumption, MaxKeysAssumption DEF IInv, TypeOK
<1>6. HeldInv' /\ DnskeysInv'
  BY <1>4 DEF IInv, HeldInv, DnskeysInv
<1>7. FilesInv' /\ BlobsInv'
  BY <1>4 DEF IInv, FilesInv, BlobsInv
<1>8. QED
  BY <1>5, <1>6, <1>7 DEF IInv

LEMMA WriteKeyFileStep ==
  ASSUME IInv, NEW cp \in Codepoints, NEW k \in held, WriteKeyFile(cp, k)
  PROVE  IInv'
<1> DEFINE f == [cp |-> cp, material |-> k.material, len |-> Impl[k.pkg].keyLen]
<1>1. k.pkg \in Packages /\ k.material \in Materials /\ k.pkg = k.material.by
  BY LinkableAssumption DEF IInv, TypeOK, HeldInv, Keys
<1>2. /\ files' = files \cup {f}
      /\ UNCHANGED <<pc, codecs, registered, dnskeys, blobs, held, keys>>
  BY ResultsAreNoErrors DEF WriteKeyFile, PrivateKeyToString, Numbered
<1>3. TypeOK'
  BY <1>1, <1>2, LengthsAssumption DEF IInv, TypeOK
<1>4. FilesInv'
  BY <1>1, <1>2 DEF IInv, FilesInv
<1>5. QED
  BY <1>2, <1>3, <1>4 DEF IInv, HeldInv, DnskeysInv, BlobsInv

LEMMA WriteBlobStep ==
  ASSUME IInv, NEW k \in held, WriteBlob(k)
  PROVE  IInv'
<1> DEFINE b == [oid |-> Codec[k.pkg].oid, material |-> k.material, len |-> Impl[k.pkg].keyLen]
<1>1. /\ k.pkg \in Linkable /\ k.pkg \in Packages
      /\ k.material \in Materials /\ k.pkg = k.material.by
  BY LinkableAssumption DEF IInv, TypeOK, HeldInv, Keys
<1>2. /\ blobs' = blobs \cup {b}
      /\ UNCHANGED <<pc, codecs, registered, dnskeys, files, held, keys>>
  BY MarshalOfHeld DEF WriteBlob, IInv
<1>3. TypeOK'
  BY <1>1, <1>2, LengthsAssumption DEF IInv, TypeOK
<1>4. BlobsInv'
  BY <1>1, <1>2 DEF IInv, BlobsInv
<1>5. QED
  BY <1>2, <1>3, <1>4 DEF IInv, HeldInv, DnskeysInv, FilesInv

LEMMA ReadKeyFileStep ==
  ASSUME IInv, NEW f \in files, ReadKeyFile(f)
  PROVE  IInv'
<1> DEFINE p == registered[f.cp]
           k == [pkg |-> p, material |-> f.material]
<1>1. /\ p \in Linkable /\ p \in Packages
      /\ f.material \in Materials /\ f.material.by \in Packages
  BY LinkableAssumption DEF IInv, TypeOK, ReadKeyFile, Materials
<1>2. ReadPrivateKey(p, f) = k /\ f.len = Impl[p].keyLen
  BY ResultsAreNoErrors DEF ReadKeyFile, ReadPrivateKey, UnmarshalBinary
<1>3. p = f.material.by
  BY <1>1, <1>2, IdentifiersAssumption DEF IInv, FilesInv
<1>4. held' = held \cup {k} /\ UNCHANGED <<pc, codecs, registered, stored, keys>>
  BY <1>2 DEF ReadKeyFile
<1>5. TypeOK'
  BY <1>1, <1>4 DEF IInv, TypeOK, stored, Keys
<1>6. HeldInv'
  BY <1>3, <1>4 DEF IInv, HeldInv
<1>7. QED
  BY <1>4, <1>5, <1>6 DEF IInv, DnskeysInv, FilesInv, BlobsInv, stored

LEMMA ReadBlobStep ==
  ASSUME IInv, NEW b \in blobs, ReadBlob(b)
  PROVE  IInv'
<1> DEFINE k == [pkg |-> b.material.by, material |-> b.material]
<1>1. b.material \in Materials /\ b.material.by \in Linkable
  BY DEF IInv, TypeOK, Materials
<1>2. Parse(b) = k
  BY ParseOfStored, ResultsAreNoErrors DEF ReadBlob, IInv
<1>3. held' = held \cup {k} /\ UNCHANGED <<pc, codecs, registered, stored, keys>>
  BY <1>2 DEF ReadBlob
<1>4. TypeOK'
  BY <1>1, <1>3 DEF IInv, TypeOK, stored, Keys
<1>5. HeldInv'
  BY <1>3 DEF IInv, HeldInv
<1>6. QED
  BY <1>3, <1>4, <1>5 DEF IInv, DnskeysInv, FilesInv, BlobsInv, stored

LEMMA ProgramStep ==
  ASSUME IInv,
         \/ \E p \in Linkable : ImportPackage(p)
         \/ \E t \in Tables : RegisterAlgorithms(t)
         \/ Restart
  PROVE  IInv'
<1>1. ASSUME NEW p \in Linkable, ImportPackage(p)
      PROVE  IInv'
  <2>1. codecs' \in Seq(Linkable)
    BY <1>1 DEF ImportPackage, IInv, TypeOK
  <2>2. IsInjective(codecs')
    BY <1>1 DEF ImportPackage, IInv, TypeOK, IsInjective
  <2>3. QED
    BY <1>1, <2>1, <2>2
       DEF ImportPackage, IInv, TypeOK, HeldInv, DnskeysInv, FilesInv, BlobsInv, stored
<1>2. ASSUME NEW t \in Tables, RegisterAlgorithms(t)
      PROVE  IInv'
  <2>1. registered' \in [Codepoints -> Linkable \cup {None}]
    BY <1>2 DEF RegisterAlgorithms, IInv, TypeOK
  <2>2. QED
    BY <1>2, <2>1
       DEF RegisterAlgorithms, IInv, TypeOK, HeldInv, DnskeysInv, FilesInv, BlobsInv, stored
<1>3. CASE Restart
  BY <1>3 DEF Restart, IInv, TypeOK, HeldInv, DnskeysInv, FilesInv, BlobsInv, stored,
              NothingRegistered, IsInjective
<1>4. QED
  BY <1>1, <1>2, <1>3

LEMMA Invariance == Spec => []IInv
<1>1. IInv /\ [Next]_vars => IInv'
  <2> SUFFICES ASSUME IInv, [Next]_vars
               PROVE  IInv'
    OBVIOUS
  <2>1. CASE UNCHANGED vars
    BY <2>1 DEF vars, stored, IInv, TypeOK, HeldInv, DnskeysInv, FilesInv, BlobsInv
  <2>2. QED
    BY <2>1, GenerateStep, WriteKeyFileStep, WriteBlobStep, ReadKeyFileStep, ReadBlobStep, ProgramStep
       DEF Next
<1>2. QED
  BY InitHolds, <1>1, PTL DEF Spec

-----------------------------------------------------------------------------
(* Theorems.                                                               *)

\* The variables keep their types: in particular the codec list has no package
\* twice, and every codepoint has at most one.
THEOREM TypeCorrect == Spec => []TypeOK
<1>1. IInv => TypeOK
  BY DEF IInv
<1>2. QED
  BY Invariance, <1>1, PTL

\* Whatever programs with whatever tables read each other's files and blobs,
\* key material is used by the algorithm that generated it or not at all.
THEOREM NeverReinterpreted == Spec => []MaterialIsNeverReinterpreted
<1>1. IInv => MaterialIsNeverReinterpreted
  BY DEF IInv, HeldInv, MaterialIsNeverReinterpreted
<1>2. QED
  BY Invariance, <1>1, PTL

\* Stored keys come back as themselves, from a blob wherever the package is
\* linked, from a file wherever its codepoint means the package it was written by.
THEOREM StoredKeysReadable == Spec => []StoredKeysCanBeRead
<1>1. ASSUME IInv
      PROVE  StoredKeysCanBeRead
  <2>1. ASSUME NEW b \in blobs, b.material.by \in {codecs[i] : i \in DOMAIN codecs}
        PROVE  Parse(b) = [pkg |-> b.material.by, material |-> b.material]
    BY <1>1, <2>1, ParseOfStored DEF IInv, Linked
  <2>2. ASSUME NEW f \in files, registered[f.cp] = f.material.by
        PROVE  ReadPrivateKey(registered[f.cp], f) = [pkg |-> f.material.by, material |-> f.material]
    BY <1>1, <2>2 DEF IInv, FilesInv, ReadPrivateKey, UnmarshalBinary
  <2>3. QED
    BY <2>1, <2>2 DEF StoredKeysCanBeRead
<1>2. QED
  BY Invariance, <1>1, PTL

\* No two linked codecs answer for one key or blob, so the order in which Go
\* initializes the packages decides nothing.
THEOREM OneAnswer == Spec => []OneCodecAnswers
<1>1. ASSUME IInv
      PROVE  OneCodecAnswers
  <2> SUFFICES ASSUME NEW i \in DOMAIN codecs, NEW j \in DOMAIN codecs, i # j
               PROVE  /\ \A k \in held : \/ MarshalPKCS8(codecs[i], k) = ErrUnsupported
                                         \/ MarshalPKCS8(codecs[j], k) = ErrUnsupported
                      /\ \A b \in blobs : \/ ParsePKCS8(codecs[i], b) = ErrUnsupported
                                          \/ ParsePKCS8(codecs[j], b) = ErrUnsupported
    BY DEF OneCodecAnswers
  <2>1. codecs[i] \in Packages /\ codecs[j] \in Packages /\ codecs[i] # codecs[j]
    BY <1>1, CodecList DEF IInv
  <2>2. \A k \in held : k.pkg \in Packages
    BY <1>1, LinkableAssumption DEF IInv, TypeOK, Keys
  <2>3. \A b \in blobs : b.material.by \in Packages /\ b.oid = Codec[b.material.by].oid
    BY <1>1, LinkableAssumption DEF IInv, TypeOK, BlobsInv, Materials
  <2>4. QED
    BY <2>1, <2>2, <2>3, ClaimsOwn, ParsesOwn
<1>2. QED
  BY Invariance, <1>1, PTL

\* Verify takes the type PublicKeyFromWire returns, value or pointer.
WireTypesFit == \A p \in Packages : Impl[p].fromWire \in Impl[p].verifies

\* If every package verifies with what it reads from the wire, a signature made
\* by a key, generated or restored, verifies under the DNSKEY published when it
\* was generated, and under no other.
THEOREM PublishedKeys ==
  ASSUME WireTypesFit
  PROVE  Spec => []PublishedKeysVerify
<1>1. ASSUME IInv
      PROVE  PublishedKeysVerify
  <2> SUFFICES ASSUME NEW k \in held, NEW d \in dnskeys, registered[d.cp] = k.pkg
               PROVE  Verify(k.pkg, d, Sign(k)) = "ok" <=> k.material = d.material
    BY DEF PublishedKeysVerify
  <2>1. k.pkg \in Packages /\ k.pkg = k.material.by
    BY <1>1, LinkableAssumption DEF IInv, TypeOK, HeldInv, Keys
  <2>2. Impl[k.pkg].fromWire \in Impl[k.pkg].verifies
    BY <2>1 DEF WireTypesFit
  <2>3. d.len = Impl[d.material.by].pubLen
    BY <1>1 DEF IInv, DnskeysInv
  <2>4. k.material = d.material => d.len = Impl[k.pkg].pubLen
    BY <2>1, <2>3
  <2>5. QED
    BY <2>2, <2>4 DEF Verify, Sign
<1>2. QED
  BY Invariance, <1>1, PTL

-----------------------------------------------------------------------------
(* What is in memory can be stored.                                        *)

\* Packages in the dns registry, and those of the keys in memory, are linked.
LinkedInv ==
  /\ \A cp \in Codepoints : registered[cp] # None => Linked(registered[cp])
  /\ \A k \in held : Linked(k.pkg)

\* A key the program holds, wherever it comes from, can be written as a blob
\* and read back as the same key; so can its key file, under every codepoint
\* its package is registered for.
HeldKeysCanBeStored ==
  \A k \in held :
    /\ Marshal(k) \notin Errors /\ Parse(Marshal(k)) = k
    /\ \A cp \in Codepoints :
         registered[cp] = k.pkg =>
           LET f == PrivateKeyToString(registered[cp], k)
           IN  f \notin Errors /\ ReadPrivateKey(registered[cp], f) = k

\* The registry is built of linked packages, and every way into memory goes
\* through the registry or through a codec.
LEMMA LinkedStep ==
  ASSUME IInv, LinkedInv, [Next]_vars
  PROVE  LinkedInv'
<1> USE DEF LinkedInv, Linked
<1>1. CASE UNCHANGED vars
  BY <1>1 DEF vars
<1>2. ASSUME NEW p \in Linkable, ImportPackage(p)
      PROVE  LinkedInv'
  <2>1. \A i \in DOMAIN codecs : i \in DOMAIN codecs' /\ codecs'[i] = codecs[i]
    BY <1>2 DEF ImportPackage, IInv, TypeOK
  <2>2. UNCHANGED <<registered, held>>
    BY <1>2 DEF ImportPackage
  <2>3. QED
    BY <2>1, <2>2
<1>3. ASSUME NEW t \in Tables, RegisterAlgorithms(t)
      PROVE  LinkedInv'
  <2>1. UNCHANGED <<codecs, held>>
    BY <1>3 DEF RegisterAlgorithms
  <2>2. ASSUME NEW cp \in Codepoints, registered'[cp] # None
        PROVE  registered'[cp] \in {codecs[i] : i \in DOMAIN codecs}
    <3> DEFINE linked == {p \in DOMAIN t : t[p] = cp /\ p \in {codecs[i] : i \in DOMAIN codecs}}
    <3>1. registered'[cp] = IF linked = {} THEN None ELSE CHOOSE p \in linked : TRUE
      BY <1>3 DEF RegisterAlgorithms
    <3>2. QED
      BY <2>2, <3>1
  <2>3. QED
    BY <2>1, <2>2
<1>4. ASSUME NEW cp \in Codepoints, Generate(cp)
      PROVE  LinkedInv'
  BY <1>4 DEF Generate
<1>5. ASSUME NEW k \in held, WriteBlob(k) \/ \E cp \in Codepoints : WriteKeyFile(cp, k)
      PROVE  LinkedInv'
  BY <1>5 DEF WriteKeyFile, WriteBlob
<1>6. ASSUME NEW f \in files, ReadKeyFile(f)
      PROVE  LinkedInv'
  <2>1. f.cp \in Codepoints
    BY DEF IInv, TypeOK
  <2>2. held' = held \cup {[pkg |-> registered[f.cp], material |-> f.material]}
    BY <1>6, ResultsAreNoErrors DEF ReadKeyFile, ReadPrivateKey, UnmarshalBinary
  <2>3. QED
    BY <1>6, <2>1, <2>2 DEF ReadKeyFile
<1>7. ASSUME NEW b \in blobs, ReadBlob(b)
      PROVE  LinkedInv'
  <2>1. Linked(b.material.by) /\ Parse(b) = [pkg |-> b.material.by, material |-> b.material]
    BY <1>7, ParseOfStored, ResultsAreNoErrors DEF ReadBlob, IInv
  <2>2. held' = held \cup {[pkg |-> b.material.by, material |-> b.material]}
    BY <1>7, <2>1 DEF ReadBlob
  <2>3. QED
    BY <1>7, <2>1, <2>2 DEF ReadBlob
<1>8. CASE Restart
  BY <1>8 DEF Restart, NothingRegistered
<1>9. QED
  BY <1>1, <1>2, <1>3, <1>4, <1>5, <1>6, <1>7, <1>8 DEF Next

\* A program never holds a key it cannot persist: codecs come with the import,
\* so no key is there before its codec is.
THEOREM HeldKeysStorable == Spec => []HeldKeysCanBeStored
<1>1. Init => LinkedInv
  BY DEF Init, LinkedInv, NothingRegistered
<1>2. ASSUME IInv, LinkedInv
      PROVE  HeldKeysCanBeStored
  <2> SUFFICES ASSUME NEW k \in held
               PROVE  /\ Marshal(k) \notin Errors /\ Parse(Marshal(k)) = k
                      /\ PrivateKeyToString(k.pkg, k) \notin Errors
                      /\ ReadPrivateKey(k.pkg, PrivateKeyToString(k.pkg, k)) = k
    BY DEF HeldKeysCanBeStored
  <2>1. k.pkg \in Packages /\ k = [pkg |-> k.pkg, material |-> k.material] /\ Linked(k.pkg)
    BY <1>2, LinkableAssumption DEF IInv, TypeOK, Keys, LinkedInv
  <2> DEFINE b == [oid |-> Codec[k.pkg].oid, material |-> k.material, len |-> Impl[k.pkg].keyLen]
  <2>2. Marshal(k) = b
    BY <1>2, <2>1, MarshalIfLinked DEF IInv
  <2>3. Parse(b) = [pkg |-> k.pkg, material |-> k.material]
    <3>1. b.oid = Codec[k.pkg].oid /\ b.len = Impl[k.pkg].keyLen /\ b.material = k.material
      OBVIOUS
    <3>2. QED
      BY <1>2, <2>1, <3>1, ParseOfBlob DEF IInv
  <2>4. PrivateKeyToString(k.pkg, k) = [material |-> k.material, len |-> Impl[k.pkg].keyLen]
    BY DEF PrivateKeyToString, IsKeyOf
  <2>5. ReadPrivateKey(k.pkg, PrivateKeyToString(k.pkg, k)) = k
    BY <2>1, <2>4 DEF ReadPrivateKey, UnmarshalBinary
  <2>6. QED
    BY <2>1, <2>2, <2>3, <2>4, <2>5, ResultsAreNoErrors
<1>3. IInv /\ LinkedInv /\ [Next]_vars => LinkedInv'
  BY LinkedStep
<1>4. QED
  BY <1>1, <1>2, <1>3, Invariance, PTL DEF Spec
=============================================================================
