---------------------------- MODULE BuildScripts ----------------------------
(***************************************************************************)
(* qruovc/build-qruov.sh, sqisignc/build-sqisign.sh and                    *)
(* liboqs/build-liboqs-static.sh: what a build leaves under a prefix, step *)
(* by step.  Each script copies headers, archives and a pkg-config file    *)
(* over whatever is there, and may stop at any step.  The first two both   *)
(* copy an api.h and a rng.h to the include directory of their prefix.     *)
(***************************************************************************)
EXTENDS Naturals, Sequences, SequencesExt

CONSTANTS
  Search,       (* Search[lib]: the prefixes lib is installed under        *)
  Before,       (* the sets of installs there may be before anything runs  *)
  Packages,     (* the installs of liboqs that are a package manager's     *)
  MaxChanges    (* bound: builds started, installs removed and packages
                   added in one behaviour                                  *)

Libs == {"liboqs", "sqisign", "qruov"}

ASSUME SearchAssumption == Search \in [Libs -> Seq(STRING)]
ASSUME MaxChangesAssumption == MaxChanges \in Nat

Roots == UNION {ToSet(Search[lib]) : lib \in Libs}
Installs == {i \in Libs \X Roots : i[2] \in ToSet(Search[i[1]])}

ASSUME BeforeAssumption == Before \subseteq SUBSET Installs
ASSUME PackagesAssumption == Packages \subseteq {i \in Installs : i[1] = "liboqs"}

\* The libraries with an api.h and a rng.h, which are their "common" part.
\* liboqs's headers are all in include/oqs.
Sharing == {"sqisign", "qruov"}

Parts == {"headers", "common", "archives", "pc"}
PartsOf(lib) == IF lib \in Sharing THEN Parts ELSE Parts \ {"common"}

VARIABLES
  files,        (* files[i]: for each part, the build of this library that
                   its oldest file is from; 0 if one of its files is not
                   there or is another library's                           *)
  held,         (* history: of the libraries that share, those that were
                   installed, or have started to be, under a prefix        *)
  building,     (* the build a script is working on: the install, its
                   number, and the parts left                              *)
  changes       (* builds started, installs removed and packages added     *)

buildVars == <<files, held, building, changes>>

\* No script is running: it has no part left to install.
Idle == [parts |-> {}]

BuildTypeOK ==
  /\ files \in [Installs -> [Parts -> 0..(1 + MaxChanges)]]
  /\ held \in [Roots -> SUBSET Sharing]
  /\ building \in {Idle} \cup
       [install : Installs, relative : BOOLEAN, build : 2..(1 + MaxChanges), parts : SUBSET Parts]
  /\ changes \in 0..MaxChanges

Made(parts, n) == [part \in Parts |-> IF part \in parts THEN n ELSE 0]
Nothing == Made({}, 0)

\* What a package of liboqs has: its .pc file is not a liboqs-go.pc.
Packaged == {"headers", "archives"}

\* Two installs under one prefix that have their common part in the same place.
Clash(i, j) == i # j /\ i[2] = j[2] /\ i[1] \in Sharing /\ j[1] \in Sharing

\* The common part of an install is written or removed: it is lost to the other.
Overwritten(i) ==
  [j \in Installs |-> IF Clash(i, j) THEN [files[j] EXCEPT !["common"] = 0] ELSE files[j]]

\* Build 1 is any build there was before, or a package.  Of two installs that
\* share a prefix one was the later, and has the common part.
BuildInit ==
  /\ \E there \in Before, later \in Sharing :
       /\ files = [i \in Installs |->
              IF i \notin there THEN Nothing
              ELSE IF i \in Packages THEN Made(Packaged, 1)
              ELSE IF i[1] # later /\ \E j \in there : Clash(i, j)
                   THEN Made(Parts \ {"common"}, 1)
                   ELSE Made(PartsOf(i[1]), 1)]
       /\ held = [root \in Roots |-> {lib \in Sharing : <<lib, root>> \in there}]
  /\ building = Idle
  /\ changes = 0

Change ==
  /\ changes < MaxChanges
  /\ changes' = changes + 1

\* Only build-qruov.sh makes its prefix absolute before it enters its clone.
\* What another is to install under a relative one goes into the clone, and is
\* deleted with it.
IntoClone(lib, relative) == relative /\ lib # "qruov"

\* Cloned, configured and compiled: nothing under the prefix has changed.
StartInstall(i, relative) ==
  /\ building = Idle
  /\ Change
  /\ building' = [install |-> i, relative |-> relative, build |-> 2 + changes,
                  parts |-> PartsOf(i[1])]
  /\ held' = IF IntoClone(i[1], relative) THEN held
             ELSE [held EXCEPT ![i[2]] = @ \cup ({i[1]} \cap Sharing)]
  /\ UNCHANGED files

\* Mutant: the .pc file is written as soon as its directory is there.
InstalledBeforeNothing(lib, part) == {}

\* The parts a script installs before this one.  The order of headers and
\* archives in liboqs is that of its own "make install".
InstalledBefore(lib, part) ==
  CASE part = "pc" -> PartsOf(lib) \ {"pc"}
    [] part = "archives" -> IF lib = "liboqs" THEN {} ELSE {"headers", "common"}
    [] part = "common" /\ lib = "sqisign" -> {"headers"}
    [] part = "headers" /\ lib = "qruov" -> {"common"}
    [] OTHER -> {}

\* The part a script installs next.
IsNext(part) ==
  /\ part \in building.parts
  /\ InstalledBefore(building.install[1], part) \cap building.parts = {}

Lost == IntoClone(building.install[1], building.relative)

Install(part) ==
  /\ IsNext(part)
  /\ LET others == IF part = "common" THEN Overwritten(building.install) ELSE files
     IN  files' = IF Lost THEN files
                  ELSE [others EXCEPT ![building.install][part] = building.build]
  /\ building' = IF building.parts = {part} THEN Idle ELSE [building EXCEPT !.parts = @ \ {part}]
  /\ UNCHANGED <<held, changes>>

\* set -e, an archive the build did not produce, no libgmp.a, or a kill.  The
\* part that is next may be cut short: it keeps its number, as its oldest file
\* is as old as before, but of two common files one is enough to spoil the
\* other library's.  A .pc file cut short is there for test -f and for
\* pkg-config's search: what is left of it is not told apart from all of it.
Stop ==
  /\ building # Idle
  /\ building' = Idle
  /\ \/ UNCHANGED files
     \/ IsNext("common") /\ ~ Lost /\ files' = Overwritten(building.install)
  /\ UNCHANGED <<held, changes>>

\* Nobody else changes an install that a script is working on.
NotBuilding(i) == building # Idle => building.install # i \/ Lost

\* The operator, or a package manager: an install is removed, api.h and rng.h
\* with it, whosever they are.
RemoveInstall(i) ==
  /\ files[i] # Nothing
  /\ NotBuilding(i)
  /\ Change
  /\ files' = [Overwritten(i) EXCEPT ![i] = Nothing]
  /\ UNCHANGED <<held, building>>

AddPackage(i) ==
  /\ files[i] = Nothing
  /\ NotBuilding(i)
  /\ Change
  /\ files' = [files EXCEPT ![i] = Made(Packaged, 1)]
  /\ UNCHANGED <<held, building>>

\* A step that installs.
BuildNext ==
  \/ \E i \in Installs, relative \in BOOLEAN : StartInstall(i, relative)
  \/ \E part \in Parts : Install(part)
  \/ Stop
  \/ \E i \in Packages : AddPackage(i)
=============================================================================
