----------------------------- MODULE EnvScripts -----------------------------
(***************************************************************************)
(* liboqs/liboqs-env.sh, sqisignc/sqisign-env.sh and qruovc/qruov-env.sh,  *)
(* sourced in any order in the shells of one checkout while BuildScripts   *)
(* installs C libraries and others remove them.  A script looks for an     *)
(* install of its library and puts a directory in front of                 *)
(* PKG_CONFIG_PATH: the install's own for sqisign and qruov; for liboqs    *)
(* the checkout's liboqs/pkgconfig, with a liboqs-go.pc that names the     *)
(* install.  pkg-config then takes the first directory of the path that    *)
(* has the library's .pc file, which for liboqs may also be that of a      *)
(* prefix which build-liboqs-static.sh has installed under.                *)
(***************************************************************************)
EXTENDS BuildScripts

CONSTANTS
  Shells,
  Pkgconfig,    (* the checkout's liboqs/pkgconfig                         *)
  LinkFlags,    (* this platform has CGO_LDFLAGS for liboqs (NetBSD)       *)
  None,
  MaxSources    (* bound: successful sourcings in one behaviour            *)

ASSUME LinkFlagsAssumption == LinkFlags \in BOOLEAN
ASSUME MaxSourcesAssumption == MaxSources \in Nat
ASSUME PkgconfigAssumption == Pkgconfig \notin Roots /\ None \notin Roots

VARIABLES
  pc,           (* the install liboqs-go.pc names                          *)
  path,         (* each shell's PKG_CONFIG_PATH                            *)
  cgoLdflags,   (* each shell's CGO_LDFLAGS: the caller's or liboqs's      *)
  probed,       (* history: what liboqs-go.pc names was looked at when it
                   was written, and has not been removed since             *)
  chosen,       (* history: what each shell's last sourcing detected       *)
  last,         (* history: the shell and library just sourced             *)
  sources       (* successful sourcings so far                             *)

vars == <<buildVars, pc, probed, path, cgoLdflags, chosen, last, sources>>

TypeOK ==
  /\ BuildTypeOK
  /\ pc \in Roots \cup {None}
  /\ probed \in BOOLEAN
  /\ path \in [Shells -> Seq(Roots \cup {Pkgconfig})]
  /\ \A sh \in Shells : Len(path[sh]) <= sources
  /\ cgoLdflags \in [Shells -> {"caller", "liboqs"}]
  /\ chosen \in [Shells -> [Libs -> Roots \cup {None}]]
  /\ last \in {None} \cup (Shells \X Libs)
  /\ sources \in 0..MaxSources

NoPrefix == [sh \in Shells |-> [lib \in Libs |-> None]]

Init ==
  /\ BuildInit
  /\ pc = None
  /\ probed = FALSE
  /\ path = [sh \in Shells |-> <<>>]
  /\ cgoLdflags = [sh \in Shells |-> "caller"]
  /\ chosen = NoPrefix
  /\ last = None
  /\ sources = 0

\* What the caller may have set: LIBOQS_PREFIX, SQISIGN_PREFIX or
\* QRUOV_PREFIX; for liboqs also LIBOQS_INCLUDE_DIR and LIBOQS_LIB_DIR.
NoOverride == [kind |-> "none"]
Overrides(lib) ==
  {NoOverride}
    \cup [kind : {"prefix"}, root : ToSet(Search[lib])]
    \cup (IF lib = "liboqs" THEN [kind : {"dirs"}, root : ToSet(Search[lib])] ELSE {})

\* The files a script tests for: the .pc file; for liboqs oqs.h and a library.
Probe(i) ==
  IF i[1] = "liboqs" THEN files[i]["headers"] > 0 /\ files[i]["archives"] > 0
  ELSE files[i]["pc"] > 0

\* The prefix the script settles on: the directories given, unprobed; the
\* prefix given if it holds an install; or the first of the platform's list
\* that does.
Detect(lib, o) ==
  LET i == SelectInSeq(Search[lib], LAMBDA p : Probe(<<lib, p>>))
  IN  IF o.kind = "dirs" THEN o.root
      ELSE IF o.kind = "prefix" THEN IF Probe(<<lib, o.root>>) THEN o.root ELSE None
      ELSE IF i = 0 THEN None ELSE Search[lib][i]

Directory(lib, prefix) == IF lib = "liboqs" THEN Pkgconfig ELSE prefix

\* Mutant: the directory goes to the end of PKG_CONFIG_PATH.
Appended(sh, dir) == Append(path[sh], dir)

\* Mutant: an empty entry is left between the directory and the rest.
PrependedWithGap(sh, dir) == <<dir, None>> \o path[sh]

\* "${dir}:${PKG_CONFIG_PATH}", without a second look at what is there.
Prepended(sh, dir) == <<dir>> \o path[sh]

\* Mutant: a liboqs-go.pc that is there is kept.
WrittenOnce(prefix) == IF pc = None THEN prefix ELSE pc

\* What liboqs-go.pc names: "Always rewrite ... avoids stale paths".
Rewritten(prefix) == prefix

\* Sourcing a script.  One that detects nothing returns before it changes
\* anything, and is no step.
Source(sh, lib, o) ==
  LET prefix == Detect(lib, o)
  IN  /\ prefix # None
      /\ sources < MaxSources
      /\ sources' = sources + 1
      /\ pc' = IF lib = "liboqs" THEN Rewritten(prefix) ELSE pc
      /\ probed' = IF lib = "liboqs" THEN o.kind # "dirs" ELSE probed
      /\ path' = [path EXCEPT ![sh] = Prepended(sh, Directory(lib, prefix))]
      /\ cgoLdflags' = [cgoLdflags EXCEPT ![sh] = IF lib = "liboqs" /\ LinkFlags THEN "liboqs" ELSE @]
      /\ chosen' = [chosen EXCEPT ![sh][lib] = prefix]
      /\ last' = <<sh, lib>>
      /\ UNCHANGED buildVars

\* A step of a build script, or a package is installed.
InstallsGrow ==
  /\ BuildNext
  /\ last' = None
  /\ UNCHANGED <<pc, probed, path, cgoLdflags, chosen, sources>>

\* An install is removed, perhaps the one that liboqs-go.pc names.
InstallGoes(i) ==
  /\ RemoveInstall(i)
  /\ probed' = (probed /\ i # <<"liboqs", pc>>)
  /\ last' = None
  /\ UNCHANGED <<pc, path, cgoLdflags, chosen, sources>>

Next ==
  \/ \E sh \in Shells, lib \in Libs : \E o \in Overrides(lib) : Source(sh, lib, o)
  \/ InstallsGrow
  \/ \E i \in Installs : InstallGoes(i)

Spec == Init /\ [][Next]_vars

-----------------------------------------------------------------------------
(* Properties.                                                             *)

\* The install that lib's .pc file in a directory names: any prefix may have a
\* .pc file of any library, and the checkout has one for liboqs.
Names(lib, dir) ==
  IF dir = Pkgconfig THEN IF lib = "liboqs" THEN pc ELSE None
  ELSE IF <<lib, dir>> \in Installs /\ files[<<lib, dir>>]["pc"] > 0 THEN dir ELSE None

\* The install pkg-config finds for lib in a shell: the one named in the first
\* directory of the shell's path that names one.
Found(sh, lib) ==
  LET i == SelectInSeq(path[sh], LAMBDA dir : Names(lib, dir) # None)
  IN  IF i = 0 THEN None ELSE Names(lib, path[sh][i])

\* The install a shell's last sourcing detected is there, for what can be told.
StillThere(sh, lib) == chosen[sh][lib] # None /\ Probe(<<lib, chosen[sh][lib]>>)

\* Whatever a shell sourced before, and whatever other shells of the checkout
\* did, a build right after sourcing a script uses the install it detected.
SourcedInstallIsUsed ==
  last # None => Found(last[1], last[2]) = chosen[last[1]][last[2]]

\* A library a shell has sourced stays found, at an install that is really there,
\* until the install is removed: no later script, in this shell or another, hides
\* it or leaves a path from an earlier detection.  For liboqs the install that
\* counts is the one that any shell of the checkout detected last, as all share
\* one liboqs-go.pc; directories given by a caller are not looked at, and nothing
\* is said while the file names those.
SourcedLibrariesStayFound ==
  \A sh \in Shells, lib \in Libs :
    chosen[sh][lib] # None /\ (IF lib = "liboqs" THEN probed ELSE StillThere(sh, lib)) =>
      Found(sh, lib) # None /\ Probe(<<lib, Found(sh, lib)>>)

\* Whichever builds stopped half-way, over whatever was there before: if a
\* shell's pkg-config finds sqisign or qruov, the headers and archives that only
\* this library has are there, and none is older than the .pc file.  Its api.h
\* and rng.h too, unless the prefix has held the other library.
FoundInstallsAreWhole ==
  \A sh \in Shells, lib \in Sharing :
    Found(sh, lib) # None =>
      LET root == Found(sh, lib)
          there == files[<<lib, root>>]
      IN  /\ there["headers"] >= there["pc"] /\ there["archives"] >= there["pc"]
          /\ held[root] = {lib} => there["common"] >= there["pc"]

\* README.md: "Sourcing more than one env script in the same session is fine":
\* each library is still the one its own script detected.
SourcingMoreIsFine ==
  \A sh \in Shells, lib \in Libs : StillThere(sh, lib) => Found(sh, lib) = chosen[sh][lib]
=============================================================================
