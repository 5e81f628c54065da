-------------------------- MODULE EnvScriptsProofs --------------------------
(***************************************************************************)
(* Proofs of EnvScripts' invariants, for any shells and search lists and   *)
(* any numbers of builds and sourcings, and of what a build that completes *)
(* leaves for the scripts to detect.                                       *)
(***************************************************************************)
EXTENDS EnvScripts, TLAPS, NaturalsInduction, WellFoundedInduction

\* The number of the last build, or of the one that is running.
Latest == IF building # Idle THEN building.build ELSE 1 + changes

\* An install under a prefix that has held no other library it shares files with.
Alone(i) == i[1] \in Sharing => held[i[2]] = {i[1]}

\* No file is of a build yet to come; a library that shares files is among those
\* its prefix has held; and the parts that the running script is done with are of
\* its own build, if it has not put them into its clone.
BuildInv ==
  /\ Latest <= 1 + changes
  /\ \A i \in Installs, part \in Parts : files[i][part] <= Latest
  /\ \A i \in Installs : i[1] \in Sharing /\ files[i] # Nothing => i[1] \in held[i[2]]
  /\ building # Idle /\ ~ Lost =>
       LET i == building.install
       IN  /\ i[1] \in Sharing => i[1] \in held[i[2]]
           /\ building.parts \subseteq PartsOf(i[1])
           /\ \A part \in PartsOf(i[1]) \ building.parts :
                part # "common" \/ Alone(i) => files[i][part] = building.build

\* Headers and archives are there, and no older, wherever a .pc file is; the
\* common files too, where no other library can have touched them.
WholeInv ==
  \A i \in Installs :
    /\ files[i]["headers"] >= files[i]["pc"] /\ files[i]["archives"] >= files[i]["pc"]
    /\ i[1] \in Sharing /\ Alone(i) => files[i]["common"] >= files[i]["pc"]

\* What liboqs-go.pc names is there, once a script has looked at it.
ProbedInv ==
  probed => pc # None /\ <<"liboqs", pc>> \in Installs /\ Probe(<<"liboqs", pc>>)

\* Each library a shell has sourced is one of its platform's installs, and its
\* directory is somewhere in the shell's path.
ChosenInv ==
  \A sh \in Shells, lib \in Libs :
    chosen[sh][lib] # None =>
      /\ chosen[sh][lib] \in ToSet(Search[lib])
      /\ Directory(lib, chosen[sh][lib]) \in ToSet(path[sh])
      /\ lib = "liboqs" => pc # None

\* Right after sourcing a script, the directory of what it detected is first
\* in the path, and the .pc file that names it is there.
LastInv ==
  last # None =>
    LET lib == last[2]
        prefix == chosen[last[1]][lib]
    IN  /\ prefix # None
        /\ path[last[1]] # <<>> /\ path[last[1]][1] = Directory(lib, prefix)
        /\ IF lib = "liboqs" THEN pc = prefix ELSE files[<<lib, prefix>>]["pc"] > 0

IInv ==
  /\ TypeOK /\ BuildInv /\ WholeInv /\ ProbedInv /\ ChosenInv /\ LastInv

-----------------------------------------------------------------------------
(* Searches.                                                               *)

USE LinkFlagsAssumption, MaxSourcesAssumption, MaxChangesAssumption, PkgconfigAssumption,
    SearchAssumption

\* A nonempty set of naturals has a smallest element.
LEMMA Smallest ==
  ASSUME NEW S \in SUBSET Nat, S # {}
  PROVE  \E i \in S : \A j \in S : i <= j
<1>1. IsWellFoundedOn(OpToRel(<, Nat), Nat)
  BY NatLessThanWellFounded
<1>2. PICK i \in S : \A j \in S : ~ (<<j, i>> \in OpToRel(<, Nat))
  BY <1>1, WFMin
<1>3. ASSUME NEW j \in S
      PROVE  i <= j
  <2>1. ~ (<<j, i>> \in OpToRel(<, Nat))
    BY <1>2
  <2>2. <<j, i>> \in Nat \X Nat
    OBVIOUS
  <2>3. ~ (j < i)
    BY <2>1, <2>2 DEF OpToRel
  <2>4. QED
    BY <2>3
<1>4. QED
  BY <1>3

\* It is the one that Min, and so SelectInSeq, takes.
LEMMA MinIs ==
  ASSUME NEW S \in SUBSET Nat, S # {}
  PROVE  Min(S) \in S /\ \A j \in S : Min(S) <= j
<1>1. \E i \in S : \A j \in S : i <= j
  BY Smallest
<1>2. QED
  BY <1>1 DEF Min

\* The directories of a shell's path that name an install of lib.
Hits(sh, lib) == {i \in 1..Len(path[sh]) : Names(lib, path[sh][i]) # None}

\* pkg-config takes the first of them.
LEMMA FoundIs ==
  ASSUME NEW sh \in Shells, NEW lib \in Libs
  PROVE  /\ Hits(sh, lib) = {} => Found(sh, lib) = None
         /\ Hits(sh, lib) # {} =>
              \E i \in Hits(sh, lib) :
                /\ \A j \in Hits(sh, lib) : i <= j
                /\ Found(sh, lib) = Names(lib, path[sh][i])
<1> DEFINE I == Hits(sh, lib)
<1>1. Found(sh, lib) = LET i == IF I # {} THEN Min(I) ELSE 0
                       IN  IF i = 0 THEN None ELSE Names(lib, path[sh][i])
  BY DEF Found, SelectInSeq, Hits
<1>2. I \in SUBSET Nat /\ 0 \notin I
  BY DEF Hits
<1>3. I # {} => Min(I) \in I /\ \A j \in I : Min(I) <= j
  BY <1>2, MinIs
<1>4. QED
  BY <1>1, <1>2, <1>3

\* A library that some directory of the path names is found, at what is named in
\* one of them.
LEMMA FoundSomewhere ==
  ASSUME NEW sh \in Shells, NEW lib \in Libs, NEW i \in Hits(sh, lib)
  PROVE  Found(sh, lib) # None /\ \E k \in Hits(sh, lib) : Found(sh, lib) = Names(lib, path[sh][k])
BY FoundIs DEF Hits

\* What is named in a prefix is the install there, with its .pc file; the
\* checkout's file names an install of liboqs.
LEMMA NamesIs ==
  ASSUME NEW lib \in Libs, NEW dir, Names(lib, dir) # None
  PROVE  \/ lib = "liboqs" /\ dir = Pkgconfig /\ Names(lib, dir) = pc
         \/ /\ Names(lib, dir) = dir /\ <<lib, dir>> \in Installs
            /\ files[<<lib, dir>>]["pc"] > 0
BY DEF Names

\* What a script settles on is one of its platform's list, and an install that
\* is there unless its directories were given.
LEMMA DetectIs ==
  ASSUME NEW lib \in Libs, NEW o \in Overrides(lib), Detect(lib, o) # None
  PROVE  /\ Detect(lib, o) \in ToSet(Search[lib])
         /\ o.kind = "dirs" => lib = "liboqs"
         /\ o.kind # "dirs" => Probe(<<lib, Detect(lib, o)>>)
<1> DEFINE I == {i \in 1..Len(Search[lib]) : Probe(<<lib, Search[lib][i]>>)}
           first == IF I # {} THEN Min(I) ELSE 0
<1>1. Detect(lib, o) = IF o.kind = "dirs" THEN o.root
                       ELSE IF o.kind = "prefix"
                            THEN IF Probe(<<lib, o.root>>) THEN o.root ELSE None
                       ELSE IF first = 0 THEN None ELSE Search[lib][first]
  BY DEF Detect, SelectInSeq
<1>2. Search[lib] \in Seq(STRING)
  OBVIOUS
<1>3. first # 0 => first \in I
  <2>1. I \in SUBSET Nat
    OBVIOUS
  <2>2. QED
    BY <2>1, MinIs
<1>4. \/ o.kind = "none"
      \/ o.kind = "prefix" /\ o.root \in ToSet(Search[lib])
      \/ o.kind = "dirs" /\ o.root \in ToSet(Search[lib]) /\ lib = "liboqs"
  BY DEF Overrides, NoOverride
<1>5. CASE o.kind = "dirs"
  BY <1>1, <1>4, <1>5
<1>6. CASE o.kind = "prefix"
  BY <1>1, <1>4, <1>6
<1>7. CASE o.kind = "none"
  <2>1. first # 0 /\ Detect(lib, o) = Search[lib][first]
    BY <1>1, <1>7
  <2>2. first \in DOMAIN Search[lib] /\ Probe(<<lib, Search[lib][first]>>)
    BY <1>2, <1>3, <2>1
  <2>3. QED
    BY <1>7, <2>1, <2>2 DEF ToSet
<1>8. QED
  BY <1>4, <1>5, <1>6, <1>7

\* A directory put in front of a path is first in it; the others stay.
LEMMA InFront ==
  ASSUME NEW S, NEW s \in Seq(S), NEW d \in S
  PROVE  /\ <<d>> \o s \in Seq(S) /\ Len(<<d>> \o s) = Len(s) + 1
         /\ (<<d>> \o s)[1] = d
         /\ ToSet(<<d>> \o s) = {d} \cup ToSet(s)
<1> DEFINE t == <<d>> \o s
<1>1. t \in Seq(S) /\ Len(t) = Len(s) + 1 /\ t[1] = d
  OBVIOUS
<1>2. \A i \in 1..Len(s) : t[i + 1] = s[i]
  OBVIOUS
<1>3. \A i \in 1..Len(t) : t[i] = d \/ \E k \in 1..Len(s) : t[i] = s[k]
  OBVIOUS
<1>4. DOMAIN t = 1..Len(t) /\ DOMAIN s = 1..Len(s)
  BY <1>1
<1>5. ToSet(t) \subseteq {d} \cup ToSet(s)
  BY <1>3, <1>4 DEF ToSet
<1>6. {d} \cup ToSet(s) \subseteq ToSet(t)
  <2>1. 1 \in DOMAIN t /\ \A i \in DOMAIN s : i + 1 \in DOMAIN t
    BY <1>1, <1>4
  <2>2. \A i \in DOMAIN s : t[i + 1] = s[i]
    BY <1>2, <1>4
  <2> HIDE DEF t
  <2>3. QED
    BY <1>1, <2>1, <2>2 DEF ToSet
<1>7. QED
  BY <1>1, <1>5, <1>6

-----------------------------------------------------------------------------
(* The steps of scripts, the operator and a package manager.               *)

\* A build is of an install, and has a number of its own.
LEMMA BuildingTypes ==
  ASSUME BuildTypeOK, building # Idle
  PROVE  /\ building \in [install : Installs, relative : BOOLEAN, build : 2..(1 + MaxChanges),
                          parts : SUBSET Parts]
         /\ building.install \in Installs /\ building.parts \subseteq Parts
         /\ building.build \in 2..(1 + MaxChanges)
BY DEF BuildTypeOK

\* Numbers of builds are natural numbers from one on.
LEMMA LatestIsNat ==
  ASSUME BuildTypeOK
  PROVE  Latest \in Nat /\ Latest >= 1 /\ changes \in Nat
BY BuildingTypes DEF BuildTypeOK, Latest

\* The common part of an install is lost to the other library's, and nothing else.
LEMMA OverwrittenIs ==
  ASSUME BuildTypeOK, NEW i \in Installs
  PROVE  /\ Overwritten(i) \in [Installs -> [Parts -> 0..(1 + MaxChanges)]]
         /\ \A j \in Installs, p \in Parts :
              Overwritten(i)[j][p] = IF Clash(i, j) /\ p = "common" THEN 0 ELSE files[j][p]
         /\ Overwritten(i)[i] = files[i]
<1>1. "common" \in Parts /\ 0 \in 0..(1 + MaxChanges)
  BY DEF Parts
<1>2. ASSUME NEW j \in Installs
      PROVE  /\ Overwritten(i)[j] \in [Parts -> 0..(1 + MaxChanges)]
             /\ \A p \in Parts :
                  Overwritten(i)[j][p] = IF Clash(i, j) /\ p = "common" THEN 0 ELSE files[j][p]
  <2>1. files[j] \in [Parts -> 0..(1 + MaxChanges)]
    BY DEF BuildTypeOK
  <2>2. CASE Clash(i, j)
    <3>1. Overwritten(i)[j] = [files[j] EXCEPT !["common"] = 0]
      BY <2>2 DEF Overwritten
    <3>2. QED
      BY <1>1, <2>1, <2>2, <3>1
  <2>3. CASE ~ Clash(i, j)
    BY <2>1, <2>3 DEF Overwritten
  <2>4. QED
    BY <2>2, <2>3
<1>3. Overwritten(i) \in [Installs -> [Parts -> 0..(1 + MaxChanges)]]
  BY <1>2 DEF Overwritten
<1>4. Overwritten(i)[i] = files[i]
  BY DEF Overwritten, Clash
<1>5. QED
  BY <1>2, <1>3, <1>4

\* Two libraries that share files have both been held where they clash.
LEMMA NotAlone ==
  ASSUME NEW i \in Installs, NEW j \in Installs, Clash(i, j), i[1] \in held[i[2]]
  PROVE  ~ Alone(j)
<1>1. i = <<i[1], i[2]>> /\ j = <<j[1], j[2]>>
  BY DEF Installs
<1>2. i[1] # j[1]
  BY <1>1 DEF Clash
<1>3. QED
  BY <1>2 DEF Clash, Alone

\* A build starts.
LEMMA StartStep ==
  ASSUME BuildTypeOK, BuildInv, WholeInv, NEW i \in Installs, NEW relative \in BOOLEAN,
         StartInstall(i, relative)
  PROVE  BuildTypeOK' /\ BuildInv' /\ WholeInv'
<1>1. /\ building = Idle /\ files' = files
      /\ changes < MaxChanges /\ changes' = changes + 1
      /\ building' = [install |-> i, relative |-> relative, build |-> 2 + changes,
                      parts |-> PartsOf(i[1])]
  BY DEF StartInstall, Change
<1>2. "pc" \in PartsOf(i[1]) /\ PartsOf(i[1]) \subseteq Parts
  BY DEF PartsOf, Parts
<1>3. i[1] \in Libs /\ i[2] \in Roots
  BY DEF Installs
<1>4. building' # Idle /\ building'.install = i /\ building'.build = 2 + changes
      /\ building'.parts = PartsOf(i[1]) /\ building'.relative = relative
  BY <1>1, <1>2 DEF Idle
<1>5. /\ held' \in [Roots -> SUBSET Sharing]
      /\ \A root \in Roots : held[root] \subseteq held'[root]
      /\ \A root \in Roots : held'[root] \subseteq held[root] \cup {i[1]}
      /\ ~ IntoClone(i[1], relative) /\ i[1] \in Sharing => i[1] \in held'[i[2]]
      /\ \A root \in Roots : root # i[2] => held'[root] = held[root]
  BY <1>3 DEF StartInstall, BuildTypeOK
<1>6. BuildTypeOK'
  <2>1. building' \in [install : Installs, relative : BOOLEAN, build : 2..(1 + MaxChanges),
                       parts : SUBSET Parts]
    BY <1>1, <1>2 DEF BuildTypeOK
  <2>2. QED
    BY <1>1, <1>5, <2>1 DEF BuildTypeOK
<1>7. BuildInv'
  <2>1. Latest = 1 + changes /\ Latest' = 2 + changes /\ changes \in Nat
    BY <1>1, <1>4 DEF Latest, BuildTypeOK
  <2>2. \A j \in Installs, p \in Parts : files'[j][p] \in Nat /\ files'[j][p] <= Latest'
    BY <1>1, <2>1 DEF BuildInv, BuildTypeOK
  <2>3. \A j \in Installs : j[1] \in Sharing /\ files'[j] # Nothing => j[1] \in held'[j[2]]
    BY <1>1, <1>5 DEF BuildInv, Installs
  <2>4. Lost' = IntoClone(i[1], relative)
    BY <1>4 DEF Lost, IntoClone
  <2>5. QED
    BY <1>1, <1>2, <1>4, <1>5, <2>1, <2>2, <2>3, <2>4 DEF BuildInv
<1>8. WholeInv'
  <2> SUFFICES ASSUME NEW j \in Installs, j[1] \in Sharing, Alone(j)'
               PROVE  files[j]["common"] >= files[j]["pc"]
    BY <1>1 DEF WholeInv
  <2>1. held'[j[2]] = {j[1]} /\ held[j[2]] \subseteq {j[1]}
    BY <1>5 DEF Alone, Installs
  <2>2. CASE held[j[2]] = {j[1]}
    BY <2>2 DEF WholeInv, Alone
  <2>3. CASE held[j[2]] = {}
    <3>1. files[j] = Nothing
      BY <2>3 DEF BuildInv
    <3>2. QED
      BY <3>1 DEF Nothing, Made, Parts
  <2>4. QED
    BY <2>1, <2>2, <2>3
<1>9. QED
  BY <1>6, <1>7, <1>8

\* A script installs a part.
LEMMA InstallStep ==
  ASSUME BuildTypeOK, BuildInv, WholeInv, NEW part \in Parts, Install(part)
  PROVE  /\ BuildTypeOK' /\ BuildInv' /\ WholeInv'
         /\ \A j \in Installs, p \in Parts \ {"common"} : files'[j][p] >= files[j][p]
<1> DEFINE at == building.install
           n == building.build
<1>1. /\ part \in building.parts /\ building # Idle
      /\ InstalledBefore(at[1], part) \cap building.parts = {}
      /\ held' = held /\ changes' = changes
  BY DEF Install, IsNext, Idle
<1>2. /\ at \in Installs /\ building.parts \subseteq Parts /\ n \in 2..(1 + MaxChanges)
      /\ changes \in Nat
  BY <1>1, BuildingTypes, LatestIsNat
<1>3. Latest = n /\ n <= 1 + changes
  BY <1>1 DEF Latest, BuildInv
<1>4. building' # Idle =>
        /\ building'.install = at /\ building'.relative = building.relative
        /\ building'.build = n /\ building'.parts = building.parts \ {part}
        /\ building' \in [install : Installs, relative : BOOLEAN, build : 2..(1 + MaxChanges),
                          parts : SUBSET Parts]
  <2> DEFINE left == [building EXCEPT !.parts = @ \ {part}]
  <2>1. building \in [install : Installs, relative : BOOLEAN, build : 2..(1 + MaxChanges),
                      parts : SUBSET Parts]
    BY <1>1, BuildingTypes
  <2>2. building' = IF building.parts = {part} THEN Idle ELSE left
    BY DEF Install
  <2>3. /\ left.install = at /\ left.relative = building.relative /\ left.build = n
        /\ left.parts = building.parts \ {part}
        /\ left \in [install : Installs, relative : BOOLEAN, build : 2..(1 + MaxChanges),
                     parts : SUBSET Parts]
    BY <2>1
  <2> HIDE DEF left
  <2>4. building' # Idle => building' = left
    BY <2>2, Zenon
  <2>5. QED
    BY <2>3, <2>4, Zenon
<1>5. \A j \in Installs, p \in Parts : files[j][p] \in Nat /\ files[j][p] <= n
  BY <1>3 DEF BuildInv, BuildTypeOK
<1>6. Latest' <= 1 + changes /\ Latest' >= n /\ Latest' \in Nat
  BY <1>1, <1>2, <1>3, <1>4 DEF Latest
<1>7. CASE Lost
  <2>1. files' = files
    BY <1>7 DEF Install
  <2>2. building' # Idle => Lost'
    BY <1>4, <1>7 DEF Lost
  <2>3. BuildInv'
    <3>1. \A j \in Installs, p \in Parts : files'[j][p] <= Latest'
      BY <1>2, <1>5, <1>6, <2>1
    <3>2. QED
      BY <1>1, <1>6, <2>1, <2>2, <3>1 DEF BuildInv
  <2>4. BuildTypeOK' /\ WholeInv'
    BY <1>1, <1>4, <2>1 DEF BuildTypeOK, WholeInv, Alone
  <2>5. QED
    BY <1>5, <2>1, <2>3, <2>4
<1>8. CASE ~ Lost
  <2> DEFINE others == IF part = "common" THEN Overwritten(at) ELSE files
  <2>1. /\ others \in [Installs -> [Parts -> 0..(1 + MaxChanges)]]
        /\ others[at] = files[at]
        /\ \A j \in Installs, p \in Parts :
             others[j][p] = IF part = "common" /\ Clash(at, j) /\ p = "common" THEN 0 ELSE files[j][p]
    BY <1>2, OverwrittenIs DEF BuildTypeOK
  <2>2. files' = [others EXCEPT ![at][part] = n]
    BY <1>8 DEF Install
  <2> HIDE DEF others
  <2>3. files' \in [Installs -> [Parts -> 0..(1 + MaxChanges)]]
    BY <1>2, <2>1, <2>2
  <2>4. \A j \in Installs, p \in Parts :
          files'[j][p] = IF j = at THEN IF p = part THEN n ELSE files[at][p]
                         ELSE IF part = "common" /\ Clash(at, j) /\ p = "common" THEN 0
                         ELSE files[j][p]
    BY <1>2, <2>1, <2>2
  <2>5. /\ at[1] \in Sharing => at[1] \in held[at[2]]
        /\ building.parts \subseteq PartsOf(at[1])
        /\ \A p \in PartsOf(at[1]) \ building.parts :
             p # "common" \/ Alone(at) => files[at][p] = n
    BY <1>1, <1>8 DEF BuildInv
  <2>6. BuildTypeOK'
    BY <1>1, <1>4, <2>3 DEF BuildTypeOK
  <2>7. BuildInv'
    <3>1. \A j \in Installs, p \in Parts : files'[j][p] <= Latest'
      <4>1. \A j \in Installs, p \in Parts : files'[j][p] \in Nat /\ files'[j][p] <= n
        BY <1>2, <1>5, <2>4
      <4>2. QED
        BY <1>2, <1>6, <4>1
    <3>2. ASSUME NEW j \in Installs, j[1] \in Sharing, files'[j] # Nothing
          PROVE  j[1] \in held'[j[2]]
      <4>1. CASE j = at
        BY <1>1, <2>5, <3>2, <4>1
      <4>2. CASE j # at
        <5>1. ASSUME files[j] = Nothing
              PROVE  FALSE
          <6>1. \A p \in Parts : files'[j][p] = 0
            BY <2>4, <4>2, <5>1 DEF Nothing, Made
          <6>2. files'[j] = Nothing
            BY <2>3, <6>1 DEF Nothing, Made
          <6>3. QED
            BY <3>2, <6>2
        <5>2. QED
          BY <1>1, <3>2, <5>1 DEF BuildInv
      <4>3. QED
        BY <4>1, <4>2
    <3>3. ASSUME building' # Idle
          PROVE  /\ at[1] \in Sharing => at[1] \in held'[at[2]]
                 /\ building'.parts \subseteq PartsOf(at[1])
                 /\ \A p \in PartsOf(at[1]) \ building'.parts :
                      p # "common" \/ Alone(at)' => files'[at][p] = n
      <4>1. PartsOf(at[1]) \subseteq Parts
        BY DEF PartsOf
      <4>2. building'.parts = building.parts \ {part}
        BY <1>4, <3>3
      <4>3. \A p \in PartsOf(at[1]) : files'[at][p] = IF p = part THEN n ELSE files[at][p]
        BY <1>2, <2>4, <4>1
      <4>4. Alone(at)' = Alone(at)
        BY <1>1, <1>4, <3>3 DEF Alone
      <4>5. ASSUME NEW p \in PartsOf(at[1]), p \notin building'.parts, p # "common" \/ Alone(at)
            PROVE  files'[at][p] = n
        <5>1. p = part \/ p \notin building.parts
          BY <4>2, <4>5
        <5>2. QED
          BY <2>5, <4>3, <4>5, <5>1
      <4>6. QED
        BY <1>1, <2>5, <4>2, <4>4, <4>5
    <3>4. QED
      BY <1>1, <1>4, <1>6, <3>1, <3>2, <3>3 DEF BuildInv
  <2>8. ASSUME NEW j \in Installs
        PROVE  /\ files'[j]["headers"] >= files'[j]["pc"] /\ files'[j]["archives"] >= files'[j]["pc"]
               /\ j[1] \in Sharing /\ Alone(j) => files'[j]["common"] >= files'[j]["pc"]
    <3> USE DEF Parts
    <3>1. CASE j = at /\ part = "pc"
      <4>1. InstalledBefore(at[1], "pc") = PartsOf(at[1]) \ {"pc"}
        BY DEF InstalledBefore
      <4>2. {"headers", "archives"} \subseteq PartsOf(at[1]) \ building.parts
        BY <1>1, <3>1, <4>1 DEF PartsOf
      <4>3. at[1] \in Sharing => "common" \in PartsOf(at[1]) \ building.parts
        BY <1>1, <3>1, <4>1 DEF PartsOf
      <4>4. /\ files'[at]["pc"] = n /\ files'[at]["headers"] = n /\ files'[at]["archives"] = n
            /\ at[1] \in Sharing /\ Alone(at) => files'[at]["common"] = n
        BY <1>2, <2>4, <2>5, <3>1, <4>2, <4>3
      <4>5. QED
        BY <1>2, <3>1, <4>4
    <3>2. CASE j = at /\ part # "pc"
      BY <1>2, <1>5, <2>4, <3>2 DEF WholeInv
    <3>3. CASE j # at
      <4>1. part = "common" /\ Clash(at, j) => ~ Alone(j)
        BY <1>2, <2>5, NotAlone DEF Clash
      <4>2. QED
        BY <2>4, <3>3, <4>1 DEF WholeInv
    <3>4. QED
      BY <3>1, <3>2, <3>3
  <2>9. WholeInv'
    BY <1>1, <2>8 DEF WholeInv, Alone
  <2>10. \A j \in Installs, p \in Parts \ {"common"} : files'[j][p] >= files[j][p]
    BY <1>2, <1>5, <2>4
  <2>11. QED
    BY <2>6, <2>7, <2>9, <2>10
<1>9. QED
  BY <1>7, <1>8

\* A script stops.
LEMMA StopStep ==
  ASSUME BuildTypeOK, BuildInv, WholeInv, Stop
  PROVE  /\ BuildTypeOK' /\ BuildInv' /\ WholeInv'
         /\ \A j \in Installs, p \in Parts \ {"common"} : files'[j][p] = files[j][p]
<1> DEFINE at == building.install
<1>1. building # Idle /\ building' = Idle /\ held' = held /\ changes' = changes
  BY DEF Stop
<1>2. at \in Installs
  BY <1>1, BuildingTypes
<1>3. \/ files' = files
      \/ ~ Lost /\ files' = Overwritten(at)
  BY DEF Stop
<1>4. Latest <= Latest' /\ Latest' = 1 + changes /\ Latest \in Nat /\ changes \in Nat
  BY <1>1, LatestIsNat DEF Latest, BuildInv
<1>5. CASE files' = files
  <2>1. \A j \in Installs, p \in Parts : files'[j][p] <= Latest'
    <3>1. \A j \in Installs, p \in Parts : files[j][p] \in Nat /\ files[j][p] <= Latest
      BY DEF BuildInv, BuildTypeOK
    <3>2. QED
      BY <1>4, <1>5, <3>1
  <2>2. BuildTypeOK' /\ WholeInv'
    BY <1>1, <1>5 DEF WholeInv, Alone, BuildTypeOK
  <2>3. BuildInv'
    BY <1>1, <1>4, <1>5, <2>1 DEF BuildInv
  <2>4. QED
    BY <1>5, <2>2, <2>3
<1>6. CASE ~ Lost /\ files' = Overwritten(at)
  <2>1. /\ files' \in [Installs -> [Parts -> 0..(1 + MaxChanges)]]
        /\ \A j \in Installs, p \in Parts :
             files'[j][p] = IF Clash(at, j) /\ p = "common" THEN 0 ELSE files[j][p]
    BY <1>2, <1>6, OverwrittenIs
  <2>2. at[1] \in Sharing => at[1] \in held[at[2]]
    BY <1>1, <1>6 DEF BuildInv
  <2>3. BuildTypeOK'
    BY <1>1, <2>1 DEF BuildTypeOK
  <2>4. BuildInv'
    <3>1. \A j \in Installs, p \in Parts : files'[j][p] <= Latest'
      <4>1. \A j \in Installs, p \in Parts : files[j][p] \in Nat /\ files[j][p] <= Latest
        BY DEF BuildInv, BuildTypeOK
      <4>2. \A j \in Installs, p \in Parts : files'[j][p] = 0 \/ files'[j][p] = files[j][p]
        BY <2>1
      <4>3. 0 <= Latest' /\ \A k \in Nat : k <= Latest => k <= Latest'
        BY <1>4
      <4>4. QED
        BY <4>1, <4>2, <4>3
    <3>2. ASSUME NEW j \in Installs, files[j] = Nothing
          PROVE  files'[j] = Nothing
      BY <2>1, <3>2 DEF Nothing, Made
    <3>3. QED
      BY <1>1, <1>4, <3>1, <3>2 DEF BuildInv
  <2>5. WholeInv'
    <3>1. \A j \in Installs : Clash(at, j) => ~ Alone(j)
      BY <1>2, <2>2, NotAlone DEF Clash
    <3>2. QED
      BY <1>1, <2>1, <3>1 DEF WholeInv, Alone, Parts
  <2>6. QED
    BY <2>1, <2>3, <2>4, <2>5
<1>7. QED
  BY <1>3, <1>5, <1>6

\* An install is removed, and the other library's common part with it.
LEMMA RemoveStep ==
  ASSUME BuildTypeOK, BuildInv, WholeInv, NEW i \in Installs, RemoveInstall(i)
  PROVE  /\ BuildTypeOK' /\ BuildInv' /\ WholeInv'
         /\ \A j \in Installs \ {i}, p \in Parts \ {"common"} : files'[j][p] = files[j][p]
<1>1. /\ files[i] # Nothing /\ NotBuilding(i)
      /\ changes < MaxChanges /\ changes' = changes + 1
      /\ files' = [Overwritten(i) EXCEPT ![i] = Nothing]
      /\ held' = held /\ building' = building
  BY DEF RemoveInstall, Change
<1>2. Nothing \in [Parts -> 0..(1 + MaxChanges)] /\ \A p \in Parts : Nothing[p] = 0
  BY DEF Nothing, Made, BuildTypeOK
<1>3. /\ files' \in [Installs -> [Parts -> 0..(1 + MaxChanges)]]
      /\ files'[i] = Nothing
      /\ \A j \in Installs \ {i}, p \in Parts :
           files'[j][p] = IF Clash(i, j) /\ p = "common" THEN 0 ELSE files[j][p]
  BY <1>1, <1>2, OverwrittenIs
<1>4. \A j \in Installs : Clash(i, j) => ~ Alone(j)
  BY <1>1, NotAlone DEF Clash, BuildInv
<1>5. BuildTypeOK'
  BY <1>1, <1>3 DEF BuildTypeOK
<1>6. BuildInv'
  <2>1. Latest \in Nat /\ changes \in Nat /\ Latest' \in {Latest, 2 + changes}
        /\ Latest <= 1 + changes
    BY <1>1, LatestIsNat DEF Latest, BuildInv
  <2>2. \A j \in Installs, p \in Parts : files'[j][p] <= Latest'
    <3>1. \A j \in Installs, p \in Parts : files[j][p] \in Nat /\ files[j][p] <= Latest
      BY DEF BuildInv, BuildTypeOK
    <3>2. 0 <= Latest' /\ \A k \in Nat : k <= Latest => k <= Latest'
      BY <2>1
    <3>3. \A j \in Installs, p \in Parts : files'[j][p] = 0 \/ files'[j][p] = files[j][p]
      BY <1>2, <1>3
    <3>4. QED
      BY <3>1, <3>2, <3>3
  <2>3. ASSUME NEW j \in Installs, j[1] \in Sharing, files'[j] # Nothing
        PROVE  j[1] \in held'[j[2]]
    <3>1. ASSUME files[j] = Nothing
          PROVE  FALSE
      <4>1. \A p \in Parts : files'[j][p] = 0
        BY <1>2, <1>3, <3>1
      <4>2. files'[j] = Nothing
        BY <1>3, <4>1 DEF Nothing, Made
      <4>3. QED
        BY <2>3, <4>2
    <3>2. QED
      BY <1>1, <2>3, <3>1 DEF BuildInv
  <2>4. ASSUME building' # Idle, ~ Lost'
        PROVE  LET at == building.install
               IN  /\ at[1] \in Sharing => at[1] \in held'[at[2]]
                   /\ building.parts \subseteq PartsOf(at[1])
                   /\ \A p \in PartsOf(at[1]) \ building.parts :
                        p # "common" \/ Alone(at)' => files'[at][p] = building.build
    <3> DEFINE at == building.install
    <3>1. building # Idle /\ ~ Lost
      BY <1>1, <2>4 DEF Lost
    <3>2. at \in Installs /\ at # i
      BY <1>1, <3>1, BuildingTypes DEF NotBuilding
    <3>3. PartsOf(at[1]) \subseteq Parts
      BY DEF PartsOf
    <3>4. \A p \in PartsOf(at[1]) : p # "common" \/ Alone(at) => files'[at][p] = files[at][p]
      BY <1>3, <1>4, <3>2, <3>3
    <3>5. Alone(at)' = Alone(at)
      BY <1>1 DEF Alone
    <3>6. QED
      BY <1>1, <3>1, <3>4, <3>5 DEF BuildInv
  <2>5. Latest' <= 1 + changes'
    BY <1>1, <2>1
  <2>6. QED
    BY <1>1, <2>2, <2>3, <2>4, <2>5 DEF BuildInv
<1>7. WholeInv'
  BY <1>1, <1>2, <1>3, <1>4 DEF WholeInv, Alone, Parts
<1>8. QED
  BY <1>3, <1>5, <1>6, <1>7

\* A package of liboqs is added, which shares no file.
LEMMA PackageStep ==
  ASSUME BuildTypeOK, BuildInv, WholeInv, NEW i \in Packages, AddPackage(i)
  PROVE  /\ BuildTypeOK' /\ BuildInv' /\ WholeInv'
         /\ \A j \in Installs, p \in Parts : files'[j][p] >= files[j][p]
<1>1. /\ files[i] = Nothing /\ NotBuilding(i)
      /\ changes < MaxChanges /\ changes' = changes + 1
      /\ files' = [files EXCEPT ![i] = Made(Packaged, 1)]
      /\ held' = held /\ building' = building
  BY DEF AddPackage, Change
<1>2. i \in Installs /\ i[1] = "liboqs" /\ i[1] \notin Sharing
  BY PackagesAssumption DEF Sharing
<1>3. /\ Made(Packaged, 1) \in [Parts -> 0..(1 + MaxChanges)]
      /\ \A p \in Parts : Made(Packaged, 1)[p] = IF p \in Packaged THEN 1 ELSE 0
  BY DEF Made
<1>4. /\ files' \in [Installs -> [Parts -> 0..(1 + MaxChanges)]]
      /\ \A j \in Installs : j # i => files'[j] = files[j]
      /\ \A p \in Parts : files'[i][p] = IF p \in Packaged THEN 1 ELSE 0
      /\ \A p \in Parts : files[i][p] = 0
  BY <1>1, <1>2, <1>3 DEF BuildTypeOK, Nothing, Made
<1>5. BuildTypeOK'
  BY <1>1, <1>4 DEF BuildTypeOK
<1>6. BuildInv'
  <2>1. Latest \in Nat /\ Latest >= 1 /\ changes \in Nat /\ Latest' \in {Latest, 2 + changes}
        /\ Latest <= 1 + changes
    BY <1>1, LatestIsNat DEF Latest, BuildInv
  <2>2. \A j \in Installs, p \in Parts : files'[j][p] <= Latest'
    <3>1. \A j \in Installs, p \in Parts : files[j][p] \in Nat /\ files[j][p] <= Latest
      BY DEF BuildInv, BuildTypeOK
    <3>2. 0 <= Latest' /\ 1 <= Latest' /\ \A k \in Nat : k <= Latest => k <= Latest'
      BY <2>1
    <3>3. QED
      BY <1>4, <3>1, <3>2
  <2>3. ASSUME building # Idle, ~ Lost
        PROVE  building.install # i
    BY <1>1, <2>3 DEF NotBuilding
  <2>4. building # Idle => building.install \in Installs
    BY BuildingTypes
  <2>5. Lost' = Lost /\ \A j \in Installs : Alone(j)' = Alone(j)
    BY <1>1 DEF Lost, Alone
  <2>6. Latest' <= 1 + changes'
    BY <1>1, <2>1
  <2>7. \A j \in Installs : j[1] \in Sharing /\ files'[j] # Nothing => j[1] \in held'[j[2]]
    BY <1>1, <1>2, <1>4 DEF BuildInv
  <2>8. QED
    BY <1>1, <1>4, <2>2, <2>3, <2>4, <2>5, <2>6, <2>7 DEF BuildInv
<1>7. WholeInv'
  BY <1>1, <1>2, <1>4 DEF WholeInv, Alone, Parts, Packaged
<1>8. \A j \in Installs, p \in Parts : files'[j][p] >= files[j][p]
  <2>1. \A j \in Installs, p \in Parts : files[j][p] \in Nat
    BY DEF BuildTypeOK
  <2>2. QED
    BY <1>4, <2>1
<1>9. QED
  BY <1>5, <1>6, <1>7, <1>8

\* A step that installs takes nothing away, but for what two libraries share.
LEMMA BuildStep ==
  ASSUME BuildTypeOK, BuildInv, WholeInv, BuildNext
  PROVE  /\ BuildTypeOK' /\ BuildInv' /\ WholeInv'
         /\ \A j \in Installs, p \in Parts \ {"common"} : files'[j][p] >= files[j][p]
<1>1. \A j \in Installs, p \in Parts : files[j][p] \in Nat
  BY DEF BuildTypeOK
<1>2. ASSUME NEW i \in Installs, NEW relative \in BOOLEAN, StartInstall(i, relative)
      PROVE  /\ BuildTypeOK' /\ BuildInv' /\ WholeInv'
             /\ files' = files
  BY <1>2, StartStep DEF StartInstall
<1>3. QED
  BY <1>1, <1>2, InstallStep, StopStep, PackageStep, PackagesAssumption DEF BuildNext

\* What a step of neither a script nor an operator leaves alone.
LEMMA Unbuilt ==
  ASSUME BuildInv, WholeInv, UNCHANGED <<files, held, building, changes>>
  PROVE  BuildInv' /\ WholeInv'
BY DEF BuildInv, WholeInv, Alone, Latest, Lost, IntoClone

\* What sourcing a script leaves in each shell.
LEMMA SourceStep ==
  ASSUME TypeOK, ProbedInv, ChosenInv, NEW sh \in Shells, NEW lib \in Libs,
         NEW o \in Overrides(lib), Source(sh, lib, o)
  PROVE  /\ TypeOK' /\ ProbedInv' /\ ChosenInv' /\ LastInv'
         /\ UNCHANGED buildVars
<1> DEFINE prefix == Detect(lib, o)
           dir == Directory(lib, prefix)
<1>1. /\ prefix # None /\ prefix \in ToSet(Search[lib]) /\ prefix \in Roots
      /\ o.kind = "dirs" => lib = "liboqs"
      /\ o.kind # "dirs" => Probe(<<lib, prefix>>)
  <2>1. prefix # None
    BY DEF Source
  <2>2. QED
    BY <2>1, DetectIs DEF Roots
<1>2. dir \in Roots \cup {Pkgconfig}
  BY <1>1 DEF Directory
<1> HIDE DEF prefix
<1>3. /\ sources' = sources + 1 /\ sources < MaxSources
      /\ pc' = IF lib = "liboqs" THEN prefix ELSE pc
      /\ probed' = IF lib = "liboqs" THEN o.kind # "dirs" ELSE probed
      /\ path' = [path EXCEPT ![sh] = <<dir>> \o path[sh]]
      /\ cgoLdflags' = [cgoLdflags EXCEPT ![sh] = IF lib = "liboqs" /\ LinkFlags THEN "liboqs" ELSE @]
      /\ chosen' = [chosen EXCEPT ![sh][lib] = prefix]
      /\ last' = <<sh, lib>>
      /\ UNCHANGED buildVars
  BY DEF Source, Prepended, Rewritten, prefix
<1>4. /\ path[sh] \in Seq(Roots \cup {Pkgconfig})
      /\ path'[sh] = <<dir>> \o path[sh]
      /\ \A t \in Shells : t # sh => path'[t] = path[t]
  BY <1>3 DEF TypeOK
<1>5. /\ path'[sh] \in Seq(Roots \cup {Pkgconfig}) /\ Len(path'[sh]) = Len(path[sh]) + 1
      /\ path'[sh][1] = dir
      /\ ToSet(path'[sh]) = {dir} \cup ToSet(path[sh])
  BY <1>2, <1>4, InFront
<1>6. \A t \in Shells, l \in Libs :
        chosen'[t][l] = IF t = sh /\ l = lib THEN prefix ELSE chosen[t][l]
  BY <1>3 DEF TypeOK
<1>7. TypeOK'
  <2>1. BuildTypeOK'
    BY <1>3 DEF TypeOK, BuildTypeOK, buildVars
  <2>2. path' \in [Shells -> Seq(Roots \cup {Pkgconfig})]
    BY <1>3, <1>5 DEF TypeOK
  <2>3. \A t \in Shells : Len(path'[t]) <= sources'
    BY <1>3, <1>4, <1>5 DEF TypeOK
  <2>4. pc' \in Roots \cup {None} /\ sources' \in 0..MaxSources
    BY <1>1, <1>3 DEF TypeOK
  <2>5. probed' \in BOOLEAN
    <3>1. CASE lib = "liboqs"
      BY <1>3, <3>1
    <3>2. CASE lib # "liboqs"
      BY <1>3, <3>2 DEF TypeOK
    <3>3. QED
      BY <3>1, <3>2
  <2>6. cgoLdflags' \in [Shells -> {"caller", "liboqs"}]
    BY <1>3 DEF TypeOK
  <2>7. chosen' \in [Shells -> [Libs -> Roots \cup {None}]]
    BY <1>1, <1>3 DEF TypeOK
  <2>8. last' \in {None} \cup (Shells \X Libs)
    BY <1>3
  <2>9. QED
    BY <2>1, <2>2, <2>3, <2>4, <2>5, <2>6, <2>7, <2>8 DEF TypeOK
<1>8. ChosenInv'
  <2> SUFFICES ASSUME NEW t \in Shells, NEW l \in Libs, chosen'[t][l] # None
               PROVE  /\ chosen'[t][l] \in ToSet(Search[l])
                      /\ Directory(l, chosen'[t][l]) \in ToSet(path'[t])
                      /\ l = "liboqs" => pc' # None
    BY DEF ChosenInv, Directory
  <2>1. CASE t = sh /\ l = lib
    BY <1>1, <1>3, <1>5, <1>6, <2>1
  <2>2. CASE ~ (t = sh /\ l = lib)
    <3>1. chosen'[t][l] = chosen[t][l]
      BY <1>6, <2>2
    <3>2. ToSet(path[t]) \subseteq ToSet(path'[t])
      BY <1>4, <1>5
    <3>3. QED
      BY <1>1, <1>3, <3>1, <3>2 DEF ChosenInv
  <2>3. QED
    BY <2>1, <2>2
<1>9. LastInv'
  <2>1. last'[1] = sh /\ last'[2] = lib /\ chosen'[sh][lib] = prefix
    BY <1>3, <1>6
  <2>2. path'[sh] # <<>> /\ path'[sh][1] = Directory(lib, prefix)
    BY <1>5
  <2>3. IF lib = "liboqs" THEN pc' = prefix ELSE files'[<<lib, prefix>>]["pc"] > 0
    BY <1>1, <1>3 DEF buildVars, Probe
  <2>4. QED
    BY <1>1, <2>1, <2>2, <2>3 DEF LastInv, Directory
<1>10. ProbedInv'
  <2>1. files' = files
    BY <1>3 DEF buildVars
  <2>2. CASE lib = "liboqs"
    <3>1. <<"liboqs", prefix>> \in Installs
      BY <1>1, <2>2 DEF Installs
    <3>2. QED
      BY <1>1, <1>3, <2>1, <2>2, <3>1 DEF ProbedInv, Probe
  <2>3. CASE lib # "liboqs"
    BY <1>3, <2>1, <2>3 DEF ProbedInv, Probe
  <2>4. QED
    BY <2>2, <2>3
<1>11. QED
  BY <1>3, <1>7, <1>8, <1>9, <1>10

\* The initial states satisfy the inductive invariant.
LEMMA InitHolds == Init => IInv
<1> SUFFICES ASSUME Init PROVE IInv
  OBVIOUS
<1>1. PICK there \in Before, later \in Sharing :
        /\ files = [i \in Installs |->
              IF i \notin there THEN Nothing
              ELSE IF i \in Packages THEN Made(Packaged, 1)
              ELSE IF i[1] # later /\ \E j \in there : Clash(i, j)
                   THEN Made(Parts \ {"common"}, 1)
                   ELSE Made(PartsOf(i[1]), 1)]
        /\ held = [root \in Roots |-> {lib \in Sharing : <<lib, root>> \in there}]
  BY DEF Init, BuildInit
<1>2. building = Idle /\ changes = 0 /\ Latest = 1
  BY DEF Init, BuildInit, Latest
<1>3. there \subseteq Installs /\ \A i \in Installs : i = <<i[1], i[2]>> /\ i[2] \in Roots
  BY BeforeAssumption DEF Installs
<1>4. \A i \in Installs :
        \E parts \in SUBSET Parts :
          /\ files[i] = Made(parts, 1)
          /\ "pc" \in parts => {"headers", "archives"} \subseteq parts
          /\ "pc" \in parts /\ i[1] \in Sharing /\ Alone(i) => "common" \in parts
          /\ i \notin there => parts = {}
  <2> SUFFICES ASSUME NEW i \in Installs
               PROVE  \E parts \in SUBSET Parts :
                        /\ files[i] = Made(parts, 1)
                        /\ "pc" \in parts => {"headers", "archives"} \subseteq parts
                        /\ "pc" \in parts /\ i[1] \in Sharing /\ Alone(i) => "common" \in parts
                        /\ i \notin there => parts = {}
    OBVIOUS
  <2>1. CASE i \notin there
    <3>1. files[i] = Made({}, 1)
      BY <1>1, <2>1 DEF Nothing, Made
    <3>2. QED
      BY <3>1
  <2>2. CASE i \in there /\ i \in Packages
    <3>1. files[i] = Made(Packaged, 1) /\ Packaged \subseteq Parts /\ "pc" \notin Packaged
      BY <1>1, <2>2 DEF Packaged, Parts
    <3>2. QED
      BY <2>2, <3>1
  <2>3. CASE i \in there /\ i \notin Packages /\ i[1] # later /\ \E j \in there : Clash(i, j)
    <3> DEFINE parts == Parts \ {"common"}
    <3>1. files[i] = Made(parts, 1)
      BY <1>1, <2>3
    <3>2. ~ Alone(i)
      <4>1. PICK j \in there : Clash(i, j)
        BY <2>3
      <4>2. j[1] \in held[i[2]] /\ j[1] # i[1] /\ i[1] \in Sharing
        BY <1>1, <1>3, <4>1 DEF Clash
      <4>3. QED
        BY <4>2 DEF Alone
    <3>3. parts \in SUBSET Parts /\ {"headers", "archives"} \subseteq parts
      BY DEF Parts
    <3>4. QED
      BY <2>3, <3>1, <3>2, <3>3
  <2>4. CASE i \in there /\ i \notin Packages /\ ~ (i[1] # later /\ \E j \in there : Clash(i, j))
    <3> DEFINE parts == PartsOf(i[1])
    <3>1. files[i] = Made(parts, 1)
      BY <1>1, <2>4
    <3>2. parts \in SUBSET Parts /\ {"headers", "archives"} \subseteq parts
      BY DEF Parts, PartsOf
    <3>3. i[1] \in Sharing => "common" \in parts
      BY DEF Parts, PartsOf
    <3>4. QED
      BY <2>4, <3>1, <3>2, <3>3
  <2>5. QED
    BY <2>1, <2>2, <2>3, <2>4
<1>5. \A parts \in SUBSET Parts : Made(parts, 1) \in [Parts -> 0..(1 + MaxChanges)]
  BY DEF Made
<1>6. TypeOK
  <2>1. files \in [Installs -> [Parts -> 0..(1 + MaxChanges)]]
    <3>1. \A i \in Installs : files[i] \in [Parts -> 0..(1 + MaxChanges)]
      BY <1>4, <1>5
    <3>2. files = [i \in Installs |-> files[i]]
      BY <1>1
    <3>3. QED
      BY <3>1, <3>2
  <2>2. held \in [Roots -> SUBSET Sharing]
    BY <1>1
  <2>3. BuildTypeOK
    BY <1>2, <2>1, <2>2 DEF BuildTypeOK
  <2>4. path \in [Shells -> Seq(Roots \cup {Pkgconfig})] /\ \A sh \in Shells : Len(path[sh]) <= sources
    BY DEF Init
  <2>5. chosen \in [Shells -> [Libs -> Roots \cup {None}]]
    BY DEF Init, NoPrefix
  <2>6. /\ pc \in Roots \cup {None} /\ sources \in 0..MaxSources
        /\ last \in {None} \cup (Shells \X Libs)
        /\ cgoLdflags \in [Shells -> {"caller", "liboqs"}]
    BY DEF Init
  <2>7. probed \in BOOLEAN
    BY DEF Init
  <2>8. QED
    BY <2>3, <2>4, <2>5, <2>6, <2>7, Zenon DEF TypeOK
<1>7. BuildInv
  <2>1. \A i \in Installs, p \in Parts : files[i][p] <= Latest
    <3>1. \A parts \in SUBSET Parts, p \in Parts : Made(parts, 1)[p] <= 1
      BY DEF Made
    <3>2. QED
      BY <1>2, <1>4, <3>1
  <2>2. \A i \in Installs : i[1] \in Sharing /\ files[i] # Nothing => i[1] \in held[i[2]]
    <3> SUFFICES ASSUME NEW i \in Installs, i[1] \in Sharing, i \in there
                 PROVE  i[1] \in held[i[2]]
      BY <1>1
    <3>1. QED
      BY <1>1, <1>3
  <2>3. QED
    BY <1>2, <2>1, <2>2 DEF BuildInv
<1>8. WholeInv
  <2> SUFFICES ASSUME NEW i \in Installs
               PROVE  /\ files[i]["headers"] >= files[i]["pc"]
                      /\ files[i]["archives"] >= files[i]["pc"]
                      /\ i[1] \in Sharing /\ Alone(i) => files[i]["common"] >= files[i]["pc"]
    BY DEF WholeInv
  <2>1. PICK parts \in SUBSET Parts :
          /\ files[i] = Made(parts, 1)
          /\ "pc" \in parts => {"headers", "archives"} \subseteq parts
          /\ "pc" \in parts /\ i[1] \in Sharing /\ Alone(i) => "common" \in parts
    BY <1>4
  <2>2. \A p \in Parts : files[i][p] = IF p \in parts THEN 1 ELSE 0
    BY <2>1 DEF Made
  <2>3. QED
    BY <2>1, <2>2 DEF Parts
<1>9. ProbedInv /\ ChosenInv /\ LastInv
  BY DEF Init, NoPrefix, ProbedInv, ChosenInv, LastInv
<1>10. QED
  BY <1>6, <1>7, <1>8, <1>9 DEF IInv

\* The inductive invariant holds in every reachable state.
LEMMA Invariance == Spec => []IInv
<1>1. IInv /\ [Next]_vars => IInv'
  <2>1. ASSUME IInv, UNCHANGED vars
        PROVE  IInv'
    <3>0. /\ UNCHANGED <<files, held, building, changes>>
          /\ UNCHANGED <<pc, probed, path, cgoLdflags, chosen, last, sources>>
      BY <2>1 DEF vars, buildVars
    <3>1. TypeOK' /\ ProbedInv' /\ ChosenInv'
      BY <2>1, <3>0 DEF IInv, TypeOK, BuildTypeOK, ProbedInv, Probe, ChosenInv
    <3>2. BuildInv' /\ WholeInv'
      BY <2>1, <3>0, Unbuilt DEF IInv
    <3>3. LastInv'
      BY <2>1, <3>0 DEF IInv, LastInv
    <3>4. QED
      BY <3>1, <3>2, <3>3 DEF IInv
  <2>2. ASSUME IInv, InstallsGrow
        PROVE  IInv'
    <3>1. /\ last' = None
          /\ UNCHANGED <<pc, probed, path, cgoLdflags, chosen, sources>>
      BY <2>2 DEF InstallsGrow
    <3>2. /\ BuildTypeOK' /\ BuildInv' /\ WholeInv'
          /\ \A j \in Installs, p \in Parts \ {"common"} : files'[j][p] >= files[j][p]
      BY <2>2, BuildStep DEF IInv, TypeOK, InstallsGrow
    <3>3. TypeOK' /\ ChosenInv'
      BY <2>2, <3>1, <3>2 DEF IInv, TypeOK, ChosenInv
    <3>4. LastInv'
      BY <3>1 DEF LastInv
    <3>5. ProbedInv'
      BY <2>2, <3>1, <3>2 DEF IInv, TypeOK, BuildTypeOK, ProbedInv, Probe, Parts
    <3>6. QED
      BY <3>2, <3>3, <3>4, <3>5 DEF IInv
  <2>3. ASSUME IInv, NEW i \in Installs, InstallGoes(i)
        PROVE  IInv'
    <3>1. /\ last' = None
          /\ probed' = (probed /\ i # <<"liboqs", pc>>)
          /\ UNCHANGED <<pc, path, cgoLdflags, chosen, sources>>
      BY <2>3 DEF InstallGoes
    <3>2. /\ BuildTypeOK' /\ BuildInv' /\ WholeInv'
          /\ \A j \in Installs \ {i}, p \in Parts \ {"common"} : files'[j][p] = files[j][p]
      BY <2>3, RemoveStep DEF IInv, TypeOK, InstallGoes
    <3>3. TypeOK' /\ ChosenInv'
      BY <2>3, <3>1, <3>2 DEF IInv, TypeOK, ChosenInv
    <3>4. LastInv'
      BY <3>1 DEF LastInv
    <3>5. ProbedInv'
      BY <2>3, <3>1, <3>2 DEF IInv, ProbedInv, Probe, Parts
    <3>6. QED
      BY <3>2, <3>3, <3>4, <3>5 DEF IInv
  <2>4. ASSUME IInv, NEW sh \in Shells, NEW lib \in Libs, NEW o \in Overrides(lib),
               Source(sh, lib, o)
        PROVE  IInv'
    <3>1. /\ TypeOK' /\ ProbedInv' /\ ChosenInv' /\ LastInv'
          /\ UNCHANGED <<files, held, building, changes>>
      BY <2>4, SourceStep DEF IInv, buildVars
    <3>2. BuildInv' /\ WholeInv'
      BY <2>4, <3>1, Unbuilt DEF IInv
    <3>3. QED
      BY <3>1, <3>2 DEF IInv
  <2>5. QED
    BY <2>1, <2>2, <2>3, <2>4 DEF Next
<1>2. QED
  BY <1>1, InitHolds, PTL DEF Spec

-----------------------------------------------------------------------------
(* The theorems.                                                           *)

\* Type correctness of the installs and of the shells.
THEOREM TypeCorrect == Spec => []TypeOK
<1>1. IInv => TypeOK
  BY DEF IInv
<1>2. QED
  BY <1>1, Invariance, PTL

\* A build right after sourcing a script uses the install it detected.
THEOREM SourcedIsUsed == Spec => []SourcedInstallIsUsed
<1>1. IInv => SourcedInstallIsUsed
  <2> SUFFICES ASSUME IInv, last # None
               PROVE  Found(last[1], last[2]) = chosen[last[1]][last[2]]
    BY DEF SourcedInstallIsUsed
  <2> DEFINE sh == last[1]
             lib == last[2]
             prefix == chosen[sh][lib]
  <2>1. sh \in Shells /\ lib \in Libs
    BY DEF IInv, TypeOK
  <2>2. /\ prefix # None
        /\ path[sh] # <<>> /\ path[sh][1] = Directory(lib, prefix)
        /\ IF lib = "liboqs" THEN pc = prefix ELSE files[<<lib, prefix>>]["pc"] > 0
    BY DEF IInv, LastInv
  <2>3. <<lib, prefix>> \in Installs /\ prefix \in Roots
    BY <2>1, <2>2 DEF IInv, ChosenInv, Installs, Roots
  <2>4. Names(lib, path[sh][1]) = prefix
    BY <2>2, <2>3 DEF Names, Directory
  <2>5. 1 \in Hits(sh, lib)
    BY <2>1, <2>2, <2>4 DEF Hits, IInv, TypeOK
  <2>6. PICK i \in Hits(sh, lib) :
             /\ \A j \in Hits(sh, lib) : i <= j
             /\ Found(sh, lib) = Names(lib, path[sh][i])
    BY <2>1, <2>5, FoundIs
  <2>7. i = 1
    BY <2>5, <2>6 DEF Hits
  <2>8. QED
    BY <2>4, <2>6, <2>7
<1>2. QED
  BY <1>1, Invariance, PTL

\* A library a shell has sourced stays found, at an install that is really there:
\* whatever is found has a .pc file of its own, which was installed last, or is
\* what liboqs-go.pc names.
THEOREM SourcedStaysFound == Spec => []SourcedLibrariesStayFound
<1>1. IInv => SourcedLibrariesStayFound
  <2> SUFFICES ASSUME IInv, NEW sh \in Shells, NEW lib \in Libs, chosen[sh][lib] # None,
                      IF lib = "liboqs" THEN probed ELSE StillThere(sh, lib)
               PROVE  Found(sh, lib) # None /\ Probe(<<lib, Found(sh, lib)>>)
    BY DEF SourcedLibrariesStayFound
  <2> DEFINE dir == Directory(lib, chosen[sh][lib])
  <2>1. /\ chosen[sh][lib] \in ToSet(Search[lib])
        /\ dir \in ToSet(path[sh])
        /\ lib = "liboqs" => pc # None
    BY DEF IInv, ChosenInv
  <2>2. Names(lib, dir) # None
    <3>1. CASE lib = "liboqs"
      BY <2>1, <3>1 DEF Names, Directory
    <3>2. CASE lib # "liboqs"
      <4>1. <<lib, chosen[sh][lib]>> \in Installs /\ chosen[sh][lib] \in Roots
        BY <2>1 DEF Installs, Roots
      <4>2. QED
        BY <3>2, <4>1 DEF Names, Directory, StillThere, Probe
    <3>3. QED
      BY <3>1, <3>2
  <2>3. PICK i \in DOMAIN path[sh] : path[sh][i] = dir
    BY <2>1 DEF ToSet
  <2>4. i \in Hits(sh, lib)
    BY <2>2, <2>3 DEF Hits, IInv, TypeOK
  <2>5. PICK k \in Hits(sh, lib) : Found(sh, lib) = Names(lib, path[sh][k])
    BY <2>4, FoundSomewhere
  <2>6. Found(sh, lib) # None
    BY <2>4, FoundSomewhere
  <2>7. CASE lib = "liboqs" /\ Found(sh, lib) = pc
    BY <2>7, <2>6 DEF IInv, ProbedInv
  <2>8. CASE /\ <<lib, Found(sh, lib)>> \in Installs
             /\ files[<<lib, Found(sh, lib)>>]["pc"] > 0
    <3> DEFINE there == files[<<lib, Found(sh, lib)>>]
    <3>1. there["headers"] >= there["pc"] /\ there["archives"] >= there["pc"]
      BY <2>8 DEF IInv, WholeInv
    <3>2. there \in [Parts -> 0..(1 + MaxChanges)]
      BY <2>8 DEF IInv, TypeOK, BuildTypeOK
    <3>3. there["headers"] > 0 /\ there["archives"] > 0 /\ there["pc"] > 0
      BY <2>8, <3>1, <3>2 DEF Parts
    <3>4. QED
      BY <2>6, <3>3 DEF Probe
  <2>9. QED
    BY <2>5, <2>6, <2>7, <2>8, NamesIs
<1>2. QED
  BY <1>1, Invariance, PTL

\* What pkg-config finds is there, headers and archives, and none is older than
\* the .pc file; nor are api.h and rng.h where only one library has been.
THEOREM FoundIsWhole == Spec => []FoundInstallsAreWhole
<1>1. IInv => FoundInstallsAreWhole
  <2> SUFFICES ASSUME IInv, NEW sh \in Shells, NEW lib \in Sharing, Found(sh, lib) # None
               PROVE  LET root == Found(sh, lib)
                          there == files[<<lib, root>>]
                      IN  /\ there["headers"] >= there["pc"] /\ there["archives"] >= there["pc"]
                          /\ held[root] = {lib} => there["common"] >= there["pc"]
    BY DEF FoundInstallsAreWhole
  <2>1. lib \in Libs /\ lib # "liboqs"
    BY DEF Libs, Sharing
  <2>2. PICK i \in Hits(sh, lib) : Found(sh, lib) = Names(lib, path[sh][i])
    BY <2>1, FoundIs
  <2>3. <<lib, Found(sh, lib)>> \in Installs
    BY <2>1, <2>2, NamesIs
  <2>4. QED
    BY <2>3 DEF IInv, WholeInv, Alone
<1>2. QED
  BY <1>1, Invariance, PTL

-----------------------------------------------------------------------------
(* Builds that complete.                                                   *)

\* A script that installs its last part leaves an install that is its own
\* build throughout, however many builds stopped half-way over what was there
\* before, and the env script detects it when its prefix is given.  Two things
\* are excepted: a build under a relative prefix by a script that leaves it
\* relative, which goes with the clone, and the api.h and rng.h of a prefix that
\* has held both libraries.
CompletedBuildsAreDetected ==
  [][\A i \in Installs, part \in Parts :
       Install(part) /\ building.install = i /\ building' = Idle /\ ~ Lost =>
         /\ \A p \in PartsOf(i[1]) :
              files'[i][p] = building.build \/ (p = "common" /\ held[i[2]] # {i[1]})
         /\ Detect(i[1], [kind |-> "prefix", root |-> i[2]])' = i[2]]_vars

\* A build that ends by installing a part has installed them all.
THEOREM CompletedBuilds == Spec => CompletedBuildsAreDetected
<1> DEFINE Detected ==
      \A i \in Installs, part \in Parts :
        Install(part) /\ building.install = i /\ building' = Idle /\ ~ Lost =>
          /\ \A p \in PartsOf(i[1]) :
               files'[i][p] = building.build \/ (p = "common" /\ held[i[2]] # {i[1]})
          /\ Detect(i[1], [kind |-> "prefix", root |-> i[2]])' = i[2]
<1>1. IInv => Detected
  <2> SUFFICES ASSUME IInv, NEW i \in Installs, NEW part \in Parts,
                      Install(part), building.install = i, building' = Idle, ~ Lost
               PROVE  /\ \A p \in PartsOf(i[1]) :
                           files'[i][p] = building.build \/ (p = "common" /\ held[i[2]] # {i[1]})
                      /\ Detect(i[1], [kind |-> "prefix", root |-> i[2]])' = i[2]
    OBVIOUS
  <2>0. BuildTypeOK /\ BuildInv /\ files \in [Installs -> [Parts -> 0..(1 + MaxChanges)]]
    BY DEF IInv, TypeOK, BuildTypeOK
  <2>1. /\ building # Idle /\ part \in building.parts
        /\ building.build \in 2..(1 + MaxChanges) /\ building.parts \subseteq PartsOf(i[1])
    BY <2>0, BuildingTypes DEF Install, IsNext, Idle, BuildInv
  <2>2. i = <<i[1], i[2]>>
    BY DEF Installs
  <2>3. building.parts = {part}
    <3>1. ASSUME building.parts # {part}
          PROVE  FALSE
      <4>1. building.parts \ {part} # {}
        BY <2>1, <3>1
      <4>2. building' = [building EXCEPT !.parts = @ \ {part}]
        BY <3>1 DEF Install
      <4>3. building'.parts = building.parts \ {part}
        BY <2>0, <2>1, <4>2, BuildingTypes
      <4>4. QED
        BY <4>1, <4>3 DEF Idle
    <3>2. QED
      BY <3>1
  <2>4. \A p \in PartsOf(i[1]) \ {part} : p # "common" \/ Alone(i) => files[i][p] = building.build
    BY <2>0, <2>1, <2>3 DEF BuildInv
  <2>5. files'[i] = [files[i] EXCEPT ![part] = building.build]
    <3> DEFINE others == IF part = "common" THEN Overwritten(i) ELSE files
    <3>1. files' = [others EXCEPT ![i][part] = building.build]
      BY DEF Install
    <3>2. others[i] = files[i] /\ others \in [Installs -> [Parts -> 0..(1 + MaxChanges)]]
      BY <2>0, OverwrittenIs
    <3> HIDE DEF others
    <3>3. QED
      BY <3>1, <3>2
  <2>6. /\ PartsOf(i[1]) \subseteq Parts
        /\ {"headers", "archives", "pc"} \subseteq PartsOf(i[1])
        /\ "common" \in PartsOf(i[1]) => i[1] \in Sharing
    BY DEF PartsOf, Parts
  <2>7. \A p \in PartsOf(i[1]) :
          files'[i][p] = building.build \/ (p = "common" /\ held[i[2]] # {i[1]})
    BY <2>0, <2>4, <2>5, <2>6 DEF Alone
  <2>8. files'[i]["headers"] > 0 /\ files'[i]["archives"] > 0 /\ files'[i]["pc"] > 0
    BY <2>1, <2>6, <2>7
  <2> DEFINE o == [kind |-> "prefix", root |-> i[2]]
  <2>9. Probe(<<i[1], i[2]>>)'
    BY <2>2, <2>8 DEF Probe
  <2>10. o.kind = "prefix" /\ o.root = i[2]
    OBVIOUS
  <2> HIDE DEF o
  <2>11. Detect(i[1], o)' = i[2]
    BY <2>9, <2>10 DEF Detect
  <2>12. QED
    BY <2>7, <2>11 DEF o
<1>2. QED
  BY <1>1, Invariance, PTL DEF Spec, CompletedBuildsAreDetected
=============================================================================
