# Verification of dnssec-algorithms

TLA+ models of the `dnssec-algorithms` repository: the adapters that call C
signature libraries, the PKCS#8 codec registry, the life of private keys in
files and blobs, the benchmark and its costs file, and the scripts that set up
the build. TLC checks the models on small instances; TLAPS proves the safety
properties, the refinements among them, for every instance. Paths below are relative to the
repository's root.

Each `X.cfg` is checked with `tlc -config X.cfg M`, where `M` is the module named
in section 3, and the proofs of a module `XProofs` with `tlapm XProofs.tla`.

## 1. Inventory

The repository adds DNSSEC signature algorithms to `github.com/miekg/dns` (a fork
with a registration call). Nothing in it runs by itself except three commands: the
packages are called by servers, which sign and verify from many goroutines.

| Component | State it keeps | Operations | Hard behaviour |
|---|---|---|---|
| `qruovc/` QR-UOV adapter | `drbgMu`; the reference library's one global random generator; C buffers | `Sign`, `Generate`, `VerifySignature`, (un)marshalling | goroutines interleave on the generator; crypto/rand, malloc and the C code fail with the mutex or buffers held |
| `liboqs/` adapter | `Signer` slices; a C handle per call, which zeroes its key slice in place when cleaned | `Sign`, `Generate`, `VerifySignature`, `PublicKeySize`, `Public`, (un)marshalling | slices aliased between a Signer, a handle and a caller; failures in the middle |
| `sqisignc/` adapter | `Signer` slices; C buffers of a call | as `qruovc/`, without mutex or reseeding | buffers of one C heap, allocated and freed by calls that do not wait for each other; error paths; empty messages |
| `pkcs8/` registry | the codec list under an RWMutex | `Register`, `Marshal`, `Parse` | registration racing lookups; first registered wins; starvation |
| sixteen algorithm packages | none of their own; `init` registers a codec | `dns.Algorithm` (generate, wire and key file conversions, verify), `Codec` | ten packages share one Go key type; key blobs carry no name; the order of `init` differs between programs |
| `registry/`, `cmd/demo` | codepoint tables; the dns package's registry | registration loop; key file round trip | the two tables give the same numbers to different algorithms |
| `cmd/algbench` | samples, results, reference | benchmark every row, compute and report costs | an algorithm fails in the middle; a reference of zero; rounding |
| `algorithm-costs.yaml` | the costs on disk | `-write`: read, merge, truncate, write | a run killed during the write; rows of skipped and unattempted algorithms over many runs |
| `*-env.sh` | `PKG_CONFIG_PATH` and `CGO_LDFLAGS` of each shell, the checkout's one `liboqs-go.pc`, installs on the machine | source a script | order of sourcing; a shared file; installs that come and go; directories given that nobody looks at |
| `build-*.sh` | headers, archives and `.pc` file under a prefix | build and install a C library | an install half done, over an older one or none; two libraries with headers of the same name under one prefix; relative prefixes |

**Interactions.** An algorithm package calls its adapter (or CIRCL) directly and is
called by the dns package through the codepoint it is registered under, and by
`pkcs8` through its codec. Key files and blobs connect one program to the next.
`algbench` calls the dns package and hands its results to the costs file. The env
scripts are connected by the search path they all extend, and to the build scripts by the files
they look for.

**What makes each component correct.**

- *QR-UOV adapter*: every output is made from fresh randomness, whole and its own;
  the generator is touched under the mutex only; every call returns, frees what it
  allocated and releases the mutex; verification waits for nobody.
- *liboqs adapter*: signatures are made with the Signer's own key; Signers survive
  any number of calls; handles and key copies do not outlive a call.
- *SQIsign adapter*: to its callers it is a detached signature scheme, whatever its buffers go
  through; every buffer is some one call's, has room, and is freed once.
- *Codec registry*: an atomic directory, in which nothing is lost or missed.
- *Key life cycle*: key material is used by the algorithm that made it or not at all;
  what was stored can be read back; published keys verify.
- *Benchmark*: the run ends; costs are relative to the same run's reference and
  ordered as the timings are.
- *Costs file*: every cost in it is the latest one; a file that cannot be read is
  left alone.
- *Env and build scripts*: the script just sourced decides for its library, no library
  sourced before disappears while its install is there, and what pkg-config finds is complete,
  even after a build that stopped half-way.

## 2. Modules

| Module | Role |
|---|---|
| `FreshCalls` | what the QR-UOV adapter promises: calls that fail or produce one fresh output |
| `QruovAdapter` | `qruovc/qruovc.go`, one action per step of a call |
| `LiboqsAdapter` | `liboqs/liboqs.go`, over slices and handles |
| `DetachedSignatures` | what the SQIsign adapter promises: requests answered by an error or rightly |
| `SqisignAdapter`, `MCSqisignAdapter` | `sqisignc/sqisignc.go`, over the blocks of a C heap; shown to implement `DetachedSignatures` |
| `CodecDirectory` | what `pkcs8` promises: an atomic directory |
| `Pkcs8Registry`, `MCPkcs8Registry` | `pkcs8/pkcs8.go` under Go's RWMutex |
| `KeyStore` | programs importing packages, registering, generating, storing, restarting and reading back; parameterised by the packages |
| `Algorithms` | the sixteen packages as rows, the codepoint tables, the key sizes of the registry's facts |
| `MCKeyStore` | composes the two above |
| `Benchmark`, `MCBenchmark` | one run of `cmd/algbench` |
| `CostsFile`, `MCCostsFile` | runs of `algbench -write` on one file |
| `BuildScripts` | what the three build scripts leave under a prefix, step by step |
| `EnvScripts`, `MCEnvScripts` | extends `BuildScripts`: the three env scripts in the shells of one checkout |
| `QruovAdapterProofs`, `LiboqsAdapterProofs`, `SqisignAdapterProofs`, `Pkcs8RegistryProofs`, `KeyStoreProofs`, `BenchmarkProofs`, `CostsFileProofs`, `EnvScriptsProofs` | the theorems about each of them, section 4 |

Definitions whose comment begins with "Mutant:" are plausible mistakes in the
action or helper that follows them. They are not part of any specification;
each is known to break one property.

### How the models correspond to the code

**QruovAdapter.** `pc[g]` is the line a goroutine has reached in its call, `op` which
function it called, `ret` the result decided. `drbgMu` is the mutex, with its
holder; `drbg` is the C library's global generator as the seed it runs on and the
position in that seed's stream; `drawn` counts draws from crypto/rand, whose values
do not repeat; `reads` is what the C code has read in the call; `heap` its C
buffers; `outputs` every signature and key pair handed out, with the randomness it
was made from. The messages and keys themselves decide nothing here and are left
out. `C.malloc` is allowed to return nil, as the code provides for, though
cgo's own wrapper never does. The deferred unlock and frees are steps of their own,
in Go's order.

**LiboqsAdapter.** `mem` gives each slice its contents: the number of a key pair, zero,
or what a caller scribbled. A Signer is the slices it holds; a handle is the slice it
was initialized with, which `Clean` zeroes in place (a fact of liboqs-go, stated in
the comment on `Sign`). `Temp(g)` is the slice a call makes for itself. Generate
copies, exports and returns in the order of the code, so that the deferred `Clean`
runs after the Signer was built and before the caller has it. A key pair that fails may have left some
of the key in the handle's slice. `WriteToPublic` is
a caller writing to the slice it got from `Public`.

**SqisignAdapter.** `request[g]` is the function a goroutine has called, with its arguments,
`answer[g]` the return value once it is decided; `sm` and `m` are the buffer variables `smPtr`
and `mPtr`; `heap` gives each block its size and the two things written into it, a signature
and a message. A block fresh from `malloc`, or freed, holds `None`, the indeterminate byte: a
signature read from one is nobody's. Keys are tagged halves, so that a Signer with mixed-up
halves, or a secret half in the place of a public one, would show; wrongly sized inputs are `Short`.
`crypto_sign`, `crypto_sign_open` and `crypto_sign_keypair` are external: they sign with the
key they get and accept exactly what was signed with it; signing and key generation fail when they
like, opening gives the exact verdict. A block of the
size the C code writes is what `BlocksHeldByOneCall` requires; `TypeOK` says which sizes there are.
`DetachedSignatures` has none of this: a caller asks, is answered by an error or by the right
answer, and returns.

**Pkcs8Registry.** Go's RWMutex is modelled in its two phases: a writer announces
itself, which keeps new readers out, and drains the readers inside; its Unlock
admits every waiting reader. `append` is a load and a store, `range` loads the
slice once. `Marshal` and `Parse` run the same loop and are both `Lookup`.

**KeyStore.** One program at a time. In `importing` it runs `init` functions, in any
order and for any linked packages; then `RegisterAlgorithms` is the loop over a
table, one step because nothing else runs yet, for the packages linked. A key is the
package whose type and parameters it has and the material in it: the package that
generated it and a number. An encoding keeps its length and its identifier. What a
package's functions accept is read from its row, whose fields are Go types, names and
lengths from the package's two files. `RegistryTable` is computed from the rows of
`registry.Algorithms`; the assumptions of `Algorithms` compare the rows with `AlgorithmFacts`, and
the key sizes of the facts with those the packages check. Calls that fail change nothing and are no
steps; `bits # 0` and failures of the C library are among them. The dns package
is external: it looks up the codepoint and calls the package.

**Benchmark.** `RegisterFails` is a registry row without an entry in `impls`, or a number the dns
package refuses, and ends the run. Any call after that may fail (`Skip`). A negative `-n` is
accepted and makes `make` panic in the first row that reaches its timing loop (`Panic`). Durations are counted in half nanoseconds, so
that the median of two samples is whole, and costs in tenths, so that `relCost` is
integer arithmetic: `int(x + 0.5)` of a ratio is an integer division. `Sorted` is
`sort.Float64s` by what it does: a permutation of the samples that ascends. The
floating-point representation itself is not modelled.

**CostsFile.** A cost is the number of the run that measured it, so that "latest" means
something. `Benchmark` stands for a run up to the write: it chooses the `-arch`, the
names attempted (registries differ over time) and the names measured, with the
reference always among them, since `main` exits otherwise. `os.WriteFile` is a
truncation and a write; `WriteCutShort` stops it inside any row, which leaves the
rows before it, perhaps a row with a wrong cost, or a file that does not parse.

**EnvScripts.** `path` is each shell's `PKG_CONFIG_PATH`, `pc` the install that the
checkout's `liboqs-go.pc` names. `Source` is a script that detected an install
(overrides first, then the platform's list); one that detects nothing returns
before it changes anything. What it looks for is `Probe`: the `.pc` file of sqisign and qruov, but
`oqs.h` and a library for liboqs. `LIBOQS_INCLUDE_DIR` and `LIBOQS_LIB_DIR` are taken as given;
`probed` remembers whether the install that `liboqs-go.pc` names was looked at, and has not been removed
since. `Names` is what a directory's `.pc` file for a library names, and `Found` what pkg-config takes: the
first directory of the path that names an install. For liboqs that may be the checkout's file or
the `liboqs-go.pc` which `build-liboqs-static.sh` leaves under its prefix. `InstallsGrow` is a step of
a build script or a package manager, `InstallGoes` a removal.

**BuildScripts.** `files[i]` gives each part of an install (the headers that only this library has, its
`api.h` and `rng.h`, archives, the `.pc` file) the number of the build of this library that its *oldest* file is
from, 0 if a file is missing or is another library's; so a `cp` of several
files that is cut short, or stops at the fifth archive, leaves the number as it was, and only
the completed copy raises it. `building` is the install a script works on and the parts it
has left, in the order `InstalledBefore` allows. `Stop` is every early end: `set -e`, an archive
the build did not produce, no `libgmp.a`, a kill. A `.pc` file cut short counts as there:
the env scripts test for the file only, and pkg-config takes the first one in its path (and then complains).
The scripts of sqisign and qruov write it last; that of liboqs leaves the order of headers and
archives to liboqs's own `make install`. `AddPackage` is liboqs from a package manager, which has no
`liboqs-go.pc`.

`api.h` and `rng.h` (the part `common`) are those that `build-sqisign.sh` (lines 85-86) and `build-qruov.sh`
(187-188) both copy to `${PREFIX}/include`: under one prefix (`Clash`) the last build has them, and whoever
removes an install removes them for both (`Overwritten`). `held` remembers which of the two a prefix has held.
A prefix may be relative. `build-qruov.sh` resolves one (lines 54-61); what the other two scripts install under one
goes into their temporary clone and is deleted with it (`IntoClone`, `Lost`), so their build completes
and changes nothing.

## 3. Runs

| Run | Module, configuration | Question | States |
|---|---|---|---|
| `qruov_calls` | `QruovAdapter` | do signing and key generation stay fresh, exclusive and live, whatever interleaves and fails? | 248,529 |
| `liboqs_calls` | `LiboqsAdapter` | does the in-place cleansing ever reach a key that is still needed, and is nothing left behind? | 750,831 |
| `sqisign_calls` | `MCSqisignAdapter`, `SqisignAdapter.cfg` | do calls that share a C heap and no lock behave like a detached signature scheme? | 328,461 |
| `liboqs_public` | `LiboqsAdapter`, `LiboqsPublic.cfg` | is what `Public` returns a copy? No. | |
| `pkcs8_lookups` | `MCPkcs8Registry`, `Pkcs8Registry.cfg` | is the locked list an atomic, first-wins, starvation-free directory? | 50,596 |
| `keystore` | `MCKeyStore`, `KeyStore.cfg` | do stored keys come back as themselves or not at all? | 659,565 |
| `keystore_import` | `MCKeyStore`, `KeyStoreImport.cfg` | does importing register an algorithm? No. | |
| `benchmark` | `MCBenchmark`, `Benchmark.cfg` | does a run end, with costs that make sense? | 260,986 |
| `benchmark_minimum` | `MCBenchmark`, `BenchmarkMinimum.cfg` | are costs at least 1? No. | |
| `costs_file` | `MCCostsFile`, `CostsFile.cfg` | is every cost in the file the latest? | 542,501 |
| `env_scripts` | `MCEnvScripts`, `EnvScripts.cfg` | does a build use the install just sourced, find those sourced before, and find them whole? | 362,080 |
| `env_together` | `MCEnvScripts`, `EnvScriptsTogether.cfg` | are several scripts in a session independent? No. | |

### Properties

- `qruov_calls`: `OutputsFresh` and `NoSharedRandomness` (each output is the start of a
  stream that is its own), `DRBGOnlyUnderLock` (an action property), `VerifyNeverBlocks`
  (a call that cannot take a step is a Sign or a Generate at the taken mutex, never a verification),
  `BuffersHeldExactlyDuringCalls`, `CallsReturn` (liveness) and `ImplementsFreshCalls`
  (refinement of `FreshCalls`: the step in which C returns produces the output).
- `liboqs_calls`: `SignedWithOwnKey`, `KeyPairsIntact`, `BlobsRestorePairs`,
  `HandlesReleased`, and the action property `NoKeyLeftBehind`. The last one states its
  exception: if `Init` fails in `Sign`, the copy of the key is not wiped, because no
  `Clean` was deferred yet.
- `sqisign_calls`: `BlocksHeldByOneCall` (a block is allocated exactly while one buffer variable of
  one call stands for it, and is large enough) and `ImplementsDetachedSignatures` (refinement: the
  step that decides the return value is the answer).
- `pkcs8_lookups`: `KnownCodecsAreTried`, `LookupsAgree`, `CallsReturn` (liveness) and
  `ImplementsDirectory` (refinement: a lookup takes effect when it decides, which
  no registration can overtake, because the lock is held).
- `keystore`: `MaterialIsNeverReinterpreted`, `StoredKeysCanBeRead`, `OneCodecAnswers`,
  `PublishedKeysVerify`.
- `benchmark`: `MedianSplitsSamples` (the median against its definition),
  `ReferenceCostsOne`, `FasterNeverCostsMore` (rounding is monotone across the change of
  step at 10), `RunEnds` (liveness).
- `costs_file`: `CostsAreTheLatest` (against the history of writes, whatever was
  interrupted), `UninterruptedRunsAccumulate` (the exact contents if nothing was),
  and the action property `UnreadableFileIsKept`.
- `env_scripts`: three properties, each as strong as is true.
  - `SourcedInstallIsUsed`: right after sourcing.
  - `SourcedLibrariesStayFound`: later, and in every shell, an install is found that *is there*. For sqisign
    and qruov while the one the shell detected is; for liboqs while the one that any shell detected last is, since
    all shells of a checkout share one `liboqs-go.pc`. A shell that sources liboqs with `LIBOQS_INCLUDE_DIR` and
    `LIBOQS_LIB_DIR` can point that file at nothing, and the other shells' liboqs is then lost: the property
    says nothing until a script has looked again. Nor does it say that the install is the one this shell chose.
  - `FoundInstallsAreWhole`: if pkg-config finds sqisign or qruov, the headers and archives that only this library has
    are all there and none is older than the `.pc` file. A build that stops over an older
    install leaves the old `.pc` file, which the env script accepts, beside a mixture
    of old and new files, so they may be newer. Of `api.h` and `rng.h` it says so only under a prefix that has
    not held the other library: where both were installed, one of them has the other's.

### What the violated ones show

- `PublicReturnsACopy`: the comment on `Public` in `liboqs/liboqs.go` (lines 50-52) says
  the value is a copy of `Pub`; line 53 returns `Pub`. A caller that writes to it changes
  what the Signer stores later. `KeyPairsIntact` and `BlobsRestorePairs` say exactly how
  far that goes: the public half only.
- `ImportRegisters`: README.md (lines 4-6 and 104) and the package comments say that
  importing a package registers its algorithm. `init` registers the codec only;
  README.md lines 34-41 describe what the code really does.
- `ReportedCostsAtLeastOne`: the comment on `relCost` promises a minimum of 1, which the
  function does not apply; `algorithm-costs.yaml` has a 0.7.
- `SourcingMoreIsFine`: README.md line 105. A script that settles on, say, `/usr/local` for
  its library puts every other library installed there in front of what earlier
  scripts chose, liboqs too if `build-liboqs-static.sh` has left a `liboqs-go.pc` there. In a single shell, with one
  library per prefix, this does not happen; with two shells the checkout's shared `liboqs-go.pc` has the same effect.

Other disagreements met on the way, which need no model to see: the env scripts call
themselves idempotent, and each sourcing makes `PKG_CONFIG_PATH` longer (the install
found stays the same); `falcon512.go` line 5 says "Algorithm number 201 is used", which
is the demo's number and the registry's number for ML-DSA-87; the build scripts say
"Pin to a known-good upstream commit" above a default of `main`; `registry/registry.go` line 107 calls
`SecKeyBytes` the "stored private key size", and the packages over a C adapter store the secret and the
public half (`FactsAssumption` allows both); `sqisign-env.sh` lines 34-36 call `./local-install` the natural place
to run `build-sqisign.sh` into, and `build-sqisign.sh ./local-install` reports success and deletes what it
installed, with its clone (lines 31 and 172; `build-qruov.sh` has the repair and says what it is for);
`build-sqisign.sh` and `build-qruov.sh` under one prefix, which both env scripts look for in `/usr/local`,
overwrite each other's `api.h` and `rng.h`.

### Bounds, and why they are enough

These are the bounds of the runs. The theorems of section 4 hold for every value of them.

- `QruovAdapter`: two goroutines, three draws from crypto/rand, two reads of the generator
  per output. Two goroutines give every interleaving on the mutex; three draws let one of
  them finish an output while the other is between its own two; two reads put a step
  of another goroutine between the reads of one output.
- `LiboqsAdapter`: two goroutines and two Signers, so that two calls share a Signer or not,
  and a generated Signer and a restored one exist together.
- `SqisignAdapter`: two goroutines, two keys, messages of no, one and two bytes, three blocks. A
  verification needs two blocks, so another call allocates, frees and takes over blocks between
  its steps, and malloc fails when there is none left. Goroutines, keys and blocks are symmetric:
  neither the specification nor the abstract one tells them apart.
- `Pkcs8Registry`: two goroutines, three registrations of two codecs, an input both claim
  (one decodes it, the other fails) and an input one claims. A goroutine can look up
  while the list has a codec it will not see yet.
- `KeyStore`: four packages (two over liboqs, which share a Go type; one whose public key
  comes as a value and as a pointer; ed448, outside both tables) and two keys, under the
  registry's table and the demo's, in which falcon512, mayo1 and slhdsa128s collide.
  The assumptions that OIDs and stored lengths are unique are evaluated on all sixteen.
- `Benchmark`: three rows with the reference in the middle, `-n` of -1, 0, 2 and 3, durations
  of 0, 2 and 30 nanoseconds: ratios on both sides of 10, a reference of zero, even and
  odd medians.
- `CostsFile`: two architectures, three algorithms, three runs, two failures: a cost measured,
  then skipped or damaged, then written over by a third run.
- `EnvScripts`: two shells, which are symmetric, two successful sourcings and two changes (builds started, installs
  removed, packages added); the prefix all three libraries share, and one more for liboqs, a package
  manager's, and for sqisign. Two sourcings are enough for a second script to hide what the first detected, in its
  shell or through `liboqs-go.pc`; two changes for a build over another library's, a removal of either, or
  a build over what a stopped build has left. There may be everything before but the checkout's own sqisign, with
  either of the libraries that clash built last, or qruov alone.

Deadlock is checked everywhere except in `costs_file`, where the operator stops running
the program after the bounded number of runs, and in `env_scripts`, where nobody has to source another script or
start another build.

### Fairness

- `QruovAdapter`: weak fairness of each goroutine's steps inside a call: the scheduler runs
  it and the C functions return. Strong fairness of `Lock`: `sync.Mutex` goes into its
  starvation mode after a millisecond and then hands itself to the longest waiter. No fairness
  of entering a call, and none that makes any step succeed. The finite supply of seeds is a
  bound: when it is used up a reseed can only fail, which the fair steps then do.
- `Pkcs8Registry`: the same, with strong fairness for a writer's claim of the RWMutex's inner
  `sync.Mutex`. Readers need none: a writer's Unlock admits them.
- `Benchmark`: weak fairness of the run's steps. It is one goroutine, and the calls it times
  return.

The other specifications have safety properties only and no fairness.

## 4. Proofs

Each theorem holds for every value of the constants that meets the named assumptions: any number of
goroutines, keys, packages, rows, shells, and so on. All the properties that the passing runs check
for safety, the refinements and the action properties among them, are theorems, but for `VerifyNeverBlocks`,
which is at the end of this section with what else is left to TLC. Almost none of the properties is inductive as it stands. In every module `IInv` is the
conjunction of named parts that is, each part has a lemma that shows that a step keeps it, and `Invariance`
combines them. A property that no run checks is stated in the proof module, beside its theorem, and is
in *italics* in the table.

| Module | Theorem | Property |
|---|---|---|
| `QruovAdapterProofs` | `TypeCorrect` | `TypeOK` |
| | `FreshOutputs` | `OutputsFresh` |
| | `DisjointRandomness` | `NoSharedRandomness` |
| | `LockDiscipline` | `DRBGOnlyUnderLock` |
| | `BuffersHeld` | `BuffersHeldExactlyDuringCalls` |
| | `Refinement` | `ImplementsFreshCalls` |
| | `CallProgress` | *`CallsAdvance`* |
| | `WaitersWaitForRunners` | *`WaitsForARunner`* |
| `LiboqsAdapterProofs` | `TypeCorrect` | `TypeOK` |
| | `OwnKey` | `SignedWithOwnKey` |
| | `PairsIntact` | `KeyPairsIntact` |
| | `BlobsHoldPairs` | `BlobsRestorePairs` |
| | `Released` | `HandlesReleased` |
| | `NoneLeftBehind` | `NoKeyLeftBehind` |
| | `SignersAreReadOnly` | *`SignersStay`* |
| `SqisignAdapterProofs` | `TypeCorrect` | `TypeOK` |
| | `HeldByOneCall` | `BlocksHeldByOneCall` |
| | `Refinement` | `ImplementsDetachedSignatures` |
| | `CallsFitTogether` | *`AnswersFitTogether`* |
| `Pkcs8RegistryProofs` | `TypeCorrect` | `TypeOK` |
| | `Excludes` | *`Exclusion`* |
| | `KnownAreTried` | `KnownCodecsAreTried` |
| | `Agreement` | `LookupsAgree` |
| | `Refinement` | `ImplementsDirectory` |
| | `CallProgress` | *`CallsAdvance`* |
| | `WaitersWaitForRunners` | *`WaitsForARunner`* |
| `KeyStoreProofs` | `TypeCorrect` | `TypeOK` |
| | `NeverReinterpreted` | `MaterialIsNeverReinterpreted` |
| | `StoredKeysReadable` | `StoredKeysCanBeRead` |
| | `OneAnswer` | `OneCodecAnswers` |
| | `PublishedKeys` | `PublishedKeysVerify`, given `WireTypesFit` |
| | `HeldKeysStorable` | *`HeldKeysCanBeStored`* |
| `CostsFileProofs` | `TypeCorrect` | `TypeOK` |
| | `LatestCosts` | `CostsAreTheLatest` |
| | `Accumulation` | `UninterruptedRunsAccumulate` |
| | `UnreadableKept` | `UnreadableFileIsKept` |
| | `CompletedRuns` | *`CompletedRunsSettle`* |
| `BenchmarkProofs` | `TypeCorrect` | `TypeOK` |
| | `MedianSplits` | `MedianSplitsSamples` |
| | `ReferenceIsOne` | `ReferenceCostsOne` |
| | `RoundingKeepsOrder` | `FasterNeverCostsMore` |
| | `ReportsAreTimed` | *`NoReportWithoutSamples`* |
| | `RunProgress` | *`RunAdvances`* |
| | `CanGoOn` | *`NeverStuck`* |
| `EnvScriptsProofs` | `TypeCorrect` | `TypeOK` |
| | `SourcedIsUsed` | `SourcedInstallIsUsed` |
| | `SourcedStaysFound` | `SourcedLibrariesStayFound` |
| | `FoundIsWhole` | `FoundInstallsAreWhole` |
| | `CompletedBuilds` | *`CompletedBuildsAreDetected`* |

### QR-UOV adapter

From `NoOneAssumption` (the value for "no holder" is no goroutine) and `BoundsAssumption`.
`OutputsFresh` speaks of outputs, and says nothing of a goroutine that is about to make one; so `IInv` adds
what must hold on the way there:

- `LockInv`: the goroutines between Lock and Unlock are exactly the holder;
- `SeedInv`: from its draw on, a caller's seed is one no output has;
- `StreamInv`: inside C, the generator runs on the caller's seed, and what the caller has read
  is that stream from its start. This is where the mutex is needed: it is preserved by another
  goroutine's step because, by `LockInv`, that step cannot be one that moves the generator;
- `OutputInv`: outputs are whole streams of drawn seeds, and a seed has one output;
- `OpInv`, `RetInv`: which function is at which line, and that no result is decided early;
- `HeapInv`: the buffers held at each line.

The refinement maps a goroutine's position to the phase of a caller; `PhaseStep` and
`PhaseStutter` turn what a step does to one goroutine into what it does to the
abstract function, and every action is then a begin, the production, a return or a stutter.

That calls return is liveness and stays with TLC, but all it needs besides the fairness of the scheduler and
of the mutex is proved. `CallProgress` gives each line the number of steps that are left on the longest way from it
to the return (`StepsLeft`, at most `MaxReads + 7`): every step lowers it, the error returns included, and no
step of another goroutine raises it. `WaitersWaitForRunners` says that there is no deadlock to hide behind it: the
holder of a mutex some call waits for is another call, in its body, past the lock.

### liboqs adapter

From `MaxSignersAssumption`. The invariant is ownership of slices, because `Clean` writes into the slice its handle
was given, whoever else holds it:

- `HandleInv`: a handle with a key holds its own call's `Temp` slice and no other;
- `UsesInv`: a call that uses a Signer has that Signer's secret key in its own slice;
- `MakesInv`: no two calls make the same Signer, a Signer is filled in once, and `Generate` has both halves of
  one pair before it does;
- `SignersInv`: a Signer's slices are its own and hold its pair, except that a caller may have written
  to the public one;
- `SignaturesInv`, `BlobsRestorePairs`: what was signed and stored is a Signer's own;
- `OpInv`, `PairsInv`: which function is at which line, and that liboqs has generated no more pairs than calls
  took ids for.

`OthersKeep` and `SignersKeep` are the two facts all the rest uses: a step touches no other call's slice,
and no Signer's but that of the one it is making. `NoKeyLeftBehind` follows from `HandleInv`: at its last step a
call's handle is on its own slice, and `Clean` zeroes it. `SignersAreReadOnly` is why the adapter needs no lock:
no step of a call changes a Signer once it is made, so calls on one Signer commute.

### SQIsign adapter

From `MessagesAssumption`, `NoneAssumption` and `NoRecordAssumption` (`None` is none of the values it stands
beside).

- `CallInv`: a call past its checks is well-formed, and at a line of its function;
- `HoldInv`: the buffers a call has at each line;
- `SizeInv`: they are as large as the call's signed message;
- `AllocInv`: a block is allocated while a variable stands for it, and for one variable only;
- `ContentInv`: what a call has put in its buffer is still there when C or Go reads it, which is
  preserved because, by `AllocInv`, no other call's step is in that block (`BlocksKeep`).

For the refinement, `Begin` is the request, the line that decides the return value is the answer (`AnswerSeen` and
`RightAnswerSeen` show that it is the right one for `Sign`, `VerdictSeen` for `VerifySignature`), `Return` is
the return, and every malloc, copy and free is a stutter. `CallsFitTogether` relates the answers of two calls
instead of one call to the abstract service: what `Sign` returned is what `VerifySignature` accepts, of this key
and this message only, and `UnmarshalBinary` returns the key that `MarshalBinary` was given. Its invariant,
`AnswersInv`, is that an answer stays right from the line that decides it to the return.

### Codec registry

From `OutcomeAssumption`, `NoOneAssumption`, `GoroutinesAssumption` (finitely many goroutines: a waiting
writer counts readers) and `MaxCodecsAssumption`.

- `LockInv`: `readers` and `writer` are the goroutines at the lines between locking and unlocking, and a writer
  past its second phase is alone. `Excludes` is read off it: while a `Register` is between its load and its
  store, no other call is at the slice;
- `ViewInv`: a slice loaded under the lock is still the package's;
- `LoopInv`: a loop has passed only codecs that returned `ErrUnsupported`;
- `KnownInv`: nothing registered is lost;
- `DecidedInv`: a lookup that found a codec has the answer of the first in the list as it is *now*, since the
  list only grows at its end; one that found none has missed only what was registered since it began. Agreement of
  two lookups, whenever each decided, follows from this;
- `CallInv`, `BoundInv`: calls at their lines, undecided until the line that decides; the bound on the list.

The refinement's lookups take effect at the step that leaves the loop, registrations at the store.

As in the QR-UOV adapter, `CallProgress` and `WaitersWaitForRunners` are the parts of `CallsReturn` that are no
liveness. The second is less obvious here, as in Go's RWMutex a reader may wait for a writer that waits for
readers: from a waiting call some holder of the lock can be named that waits for nobody.

### Key life cycle

From the assumptions on the packages' rows: `IdentifiersAssumption` (no two packages have the same OID or stored
key length), `NamesAssumption` (Go type and algorithm name together single out a package), `TablesAssumption`
(a codepoint table gives no number twice), `LengthsAssumption`, `LinkableAssumption`, `NoneAssumption` and
`MaxKeysAssumption`. The run links four packages, but its `Packages` are all sixteen, so TLC evaluates the
assumptions on every row; the theorems then say that nothing else about a package matters, and
neither does which programs link it, in which order and under which table.

- `HeldInv`: a key in memory is one of the package that generated its material;
- `FilesInv`, `BlobsInv`, `DnskeysInv`: what is stored has the length, and a blob the OID, of the package that
  generated the material, *whichever* package wrote it.

A reader that accepts a file or a blob has its length or OID, and so by `IdentifiersAssumption` is the
generator: `HeldInv` is preserved. `PublishedKeys` needs one thing more, that a package's `Verify` takes
the type its own `ReadPublicKey` returns (`WireTypesFit`). It is a hypothesis of that theorem and no assumption
of the module, because the run is to find out: `PublishedKeysVerify` is violated when a linked package's type
switch misses a case. For the twelve packages it does not link, `UnlinkedWireTypesAssumption` of `MCKeyStore`
has TLC evaluate their rows, so the hypothesis holds of all sixteen.

`HeldKeysStorable` goes from memory to storage where `StoredKeysReadable` comes from it. It needs `LinkedInv`, that
registered packages and those of the keys in memory are linked: an `init` registers the codec before
anything can generate, read or parse a key.

### Benchmark

From `RowsAssumption`, `ReferenceAssumption`, `IterationsAssumption` and `TimesAssumption`. What is hard here is
the arithmetic and not the steps: `RowsInv`, `RefInv` (the reference's times are those of its own row) and
`ReportInv` (the report is of the results there are) are inductive with `TypeOK`. The lemmas:

- `CanBeSorted`: any samples can be put in ascending order, so that `Sorted`, which chooses such an order,
  has one to choose. An induction over the number of samples is out of the prover's reach; the proof takes
  the least number of values that cannot be sorted (`Smallest`), removes the least of them, and orders the rest
  (`LeastFirst`);
- `MedianIs`: half of the samples are on either side of the middle, by counting the places of the order
  (`Counted`);
- `RelCostKeepsOrder`: the rounding is monotone, below a ratio of 10, above it and across it; `ReferenceCost`: a
  duration relative to itself costs exactly one.

`NothingTimedInv` (where `-n` is not positive there are no samples and the reference has no timing) gives
`ReportsAreTimed`. `RunProgress` and `CanGoOn` are what `RunEnds` needs besides weak fairness of the program's one
thread: every step takes the result of one more row, or gets further in its row, or takes one more sample, all
bounded by `TypeOK`; and until the run has ended some action's guard is met.

### Costs file

From `OrderAssumption` (a row is at one place in the file's order) and `BoundAssumption`.

- `RunInv`: a run that has measured is not in the history before it truncates the file;
- `OutInv`: up to the truncation the table in memory is the merge of the file as it is; from then on every cost
  known is in memory only, and is the latest or a damaged one;
- `WholeInv`: without an interruption it is all the latest costs.

`CostsAreTheLatest` speaks of the history, so `Latest` is first written as a function of it (`LatestIn`), and
`MergeIsLatest` shows that the merge of old rows and a run's results is what the history with that run
at its end says. The theorems for a write cut short use that a cut keeps a beginning of the rows.
`CompletedRuns` is what heals the file after one: `MergeSettles` shows that the merge settles the rows a run
attempted in *any* old table, damaged ones included.

### Env and build scripts

From the assumptions of `BuildScripts` (`SearchAssumption`, `MaxChangesAssumption`; `BeforeAssumption` and
`PackagesAssumption`: what is there before, and packages, are installs of the search lists) and of `EnvScripts`
(`LinkFlagsAssumption`, `MaxSourcesAssumption`, `PkgconfigAssumption`: the directory of `liboqs-go.pc` is no
prefix).

- `BuildInv`: no file is of a build yet to come; a prefix has held the libraries that have files there; and
  the parts the running script is done with are of its own build, unless they are in its clone or another library may
  have touched them;
- `WholeInv`: no `.pc` file is newer than the headers and archives beside it, nor than the common headers where
  the library is `Alone`. It needs `BuildInv`, because the
  `.pc` file is raised to the running build's number when the other parts have it already, and because
  whoever overwrites a common header has been held at that prefix (`NotAlone`);
- `ProbedInv`: what `liboqs-go.pc` names is there, if a script has looked. No step that installs takes any part
  away but a common one (`BuildStep`), and liboqs has none;
- `ChosenInv`: the directory of every library a shell has sourced is somewhere in its path;
- `LastInv`: right after a script was sourced, it is the first, and what it named is there.

`FoundIs` says what pkg-config finds: what is named in the first directory of the path that names an install. What is
named is the install beside the `.pc` file, which `WholeInv` says has its other parts, or the one
`ProbedInv` speaks of (`NamesIs`): so `SourcedStaysFound`. `CompletedBuilds`
follows from `BuildInv` when the last part is installed. It excepts the two cases in which the scripts do not keep
what it says: a relative prefix that is not resolved, and the common headers of a prefix that has held both libraries.

### Left to TLC

- `CallsReturn` of `QruovAdapter` and of `Pkcs8Registry`, and `RunEnds` of `Benchmark`: liveness under fairness.
- `VerifyNeverBlocks` of `QruovAdapter`, which is stated with ENABLED: that a call at any line but a taken lock
  can take its step. What there is to prove of it without ENABLED is `WaitsForARunner`, whose first conjunct
  is that no verification is at that lock.
- The violated properties of section 3, which a counterexample refutes.
- `FactsAssumption` and `RegistryAssumption` of `Algorithms`: data of this repository, which TLC evaluates.

## 5. Not modelled

- The signature algorithms themselves, liboqs-go, CIRCL, the C libraries and the dns package:
  external, present as what the repository relies on.
- `cmd/qruovtest` and the RRSIG and SIG(0) checks of `cmd/demo`: test programs that make, one after
  the other, calls that are modelled where they are implemented, and compare what the dns package makes
  of them. `PublishedKeysVerify` and `ImplementsFreshCalls` say of all such sequences what they try of one.
- What the build scripts do before they install (clone, patch, configure, compile): it changes nothing
  under a prefix and is one step of `BuildScripts`.
- Base64, DER and YAML as text: what matters of them, lengths, identifiers and where a cut falls,
  is kept.
- Two `algbench -write` at the same time on one file, and two shells sourcing at the same instant.
- `Caps`, `Group`, and of `AlgorithmFacts` all but the key sizes: data nothing in the repository computes
  with.
- Prefixes outside the env scripts' lists, which a caller may name, and `sudo make uninstall` and the like: an install
  that is removed goes as a whole, and takes `api.h` and `rng.h` with it, whoever copied them last.
- What is left of a `.pc` file cut short: it is taken for a `.pc` file.
- `CGO_LDFLAGS` on NetBSD, which `liboqs-env.sh` sets anew, is a variable of `EnvScripts` without a property:
  no document says what should become of the caller's flags.

## 6. Plan

Done, in this order: the QR-UOV adapter with its abstract specification and proofs (the one
component where a mistake is silent and fatal), the liboqs adapter, the codec registry with its
abstract specification, the key life cycle over the real package table, the benchmark, the costs
file, the env scripts; then the SQIsign adapter with its abstract specification, the build scripts
composed with the env scripts, the registration phase of the benchmark, and the registry's rows and facts.

The proofs followed the same order: ownership of what the adapters share (the generator, slices, blocks of the C
heap), the lock of the registry, then the key life cycle, the costs file, the benchmark's arithmetic and
the scripts.

What remains:

1. Shorter proofs: `Smallest` is stated in three modules, because a proof module may extend only what the
   component it is about does without clashing names.
2. `CallsReturn` and `RunEnds` from the progress theorems, should the prover learn of fairness: the measures
   and what a waiter waits for are there.
