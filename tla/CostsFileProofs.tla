-------------------------- MODULE CostsFileProofs --------------------------
(***************************************************************************)
(* Proofs about CostsFile, for any architectures, algorithms and runs, and *)
(* any number of failures: every cost in the file is the latest, runs that *)
(* are not interrupted accumulate, a file that does not parse is kept, and *)
(* a run that completes leaves its own results, whatever it found.         *)
(***************************************************************************)
EXTENDS CostsFile, NaturalsInduction, WellFoundedInduction, TLAPS

-----------------------------------------------------------------------------
(* The inductive invariant.                                                *)

\* What a run can have found out, and what the history says of it.
ResultSets == UNION {[attempted -> {"skipped", "measured"}] : attempted \in SUBSET Names}
Records == [run : 0..MaxRuns, arch : Arches, results : ResultSets]

\* A run that has measured is not in the history before it truncates the file.
RunInv ==
  /\ phase # "idle" => results \in ResultSets
  /\ history \in Seq(Records)
  /\ phase \in {"read", "truncate"} => Len(history) < runs

\* The table a run starts from.
Old == IF file.kind = "absent" THEN Empty ELSE file.rows

\* A table whose costs are the latest, but for a damaged one.
Trusted(t) == \A r \in DOMAIN t : t[r] # Damaged => r \in DOMAIN Latest /\ t[r] = Latest[r]

\* Up to the truncation the file is the one that was merged; from then on all
\* that is known is in memory, and it is up to date.
OutInv ==
  /\ phase = "truncate" => file.kind # "unparsable" /\ out = Merge(Old)
  /\ phase = "write" => file.kind = "table" /\ Trusted(out)

\* Without interruption, what is in memory is all there is.
WholeInv == failures = 0 /\ phase = "write" => out = Latest

IInv ==
  /\ TypeOK /\ RunInv /\ OutInv /\ WholeInv
  /\ CostsAreTheLatest /\ UninterruptedRunsAccumulate

-----------------------------------------------------------------------------
(* The latest measurements, as a function of the history.                  *)

USE OrderAssumption, BoundAssumption

AttemptsIn(h, r) == {i \in DOMAIN h : h[i].arch = r[1] /\ r[2] \in DOMAIN h[i].results}
LastOf(S) == CHOOSE i \in S : \A j \in S : j <= i
LastIn(h, r) == h[LastOf(AttemptsIn(h, r))]
HasLatest(h, r) == AttemptsIn(h, r) # {} /\ LastIn(h, r).results[r[2]] = "measured"
LatestIn(h) == [r \in {s \in Rows : HasLatest(h, s)} |-> LastIn(h, r).run]

\* Latest depends on the history alone.
LEMMA LatestIsIn == Latest = LatestIn(history)
BY DEF Latest, LatestIn, HasLatest, LastIn, LastOf, AttemptsIn, LastAttempt, Attempts

\* A nonempty set of naturals has a smallest element.
LEMMA Smallest ==
  ASSUME NEW S \in SUBSET Nat, S # {}
  PROVE  \E i \in S : \A j \in S : i <= j
<1>1. IsWellFoundedOn(OpToRel(<, Nat), Nat)
  BY NatLessThanWellFounded
<1>2. PICK i \in S : \A j \in S : ~ (<<j, i>> \in OpToRel(<, Nat))
  BY <1>1, WFMin
<1>3. ASSUME NEW j \in S
      PROVE  i <= j
  <2>1. ~ (<<j, i>> \in OpToRel(<, Nat))
    BY <1>2
  <2>2. <<j, i>> \in Nat \X Nat
    OBVIOUS
  <2>3. ~ (j < i)
    BY <2>1, <2>2 DEF OpToRel
  <2>4. QED
    BY <2>3
<1>4. QED
  BY <1>3

\* A nonempty set of places in a history has a last one.
LEMMA LastIsThere ==
  ASSUME NEW n \in Nat, NEW S \in SUBSET (1..n), S # {}
  PROVE  LastOf(S) \in S /\ \A j \in S : j <= LastOf(S)
<1> DEFINE T == {n - i : i \in S}
<1>1. T \in SUBSET Nat /\ T # {}
  <2>1. \A i \in S : n - i \in Nat
    OBVIOUS
  <2>2. QED
    BY <2>1
<1>2. PICK t \in T : \A u \in T : t <= u
  <2> HIDE DEF T
  <2>1. QED
    BY <1>1, Smallest
<1>3. PICK i \in S : t = n - i
  BY <1>2
<1>4. \A j \in S : j <= i
  <2>1. ASSUME NEW j \in S
        PROVE  j <= i
    <3>1. n - j \in T
      OBVIOUS
    <3>2. n - i <= n - j
      BY <1>2, <1>3, <3>1
    <3>3. QED
      BY <3>2
  <2>2. QED
    BY <2>1
<1>5. QED
  BY <1>4 DEF LastOf

\* A run at the end of the history is the last to attempt what it attempts,
\* and changes nothing else.
LEMMA LastAfter ==
  ASSUME NEW h \in Seq(Records), NEW x \in Records, NEW r \in Rows
  PROVE  LET h2 == Append(h, x)
             attempted == r[1] = x.arch /\ r[2] \in DOMAIN x.results
         IN  /\ attempted => AttemptsIn(h2, r) # {} /\ LastIn(h2, r) = x
             /\ ~ attempted => AttemptsIn(h2, r) = AttemptsIn(h, r)
             /\ ~ attempted /\ AttemptsIn(h, r) # {} => LastIn(h2, r) = LastIn(h, r)
<1> DEFINE h2 == Append(h, x)
           n == Len(h)
<1>1. /\ n \in Nat /\ DOMAIN h = 1..n /\ DOMAIN h2 = 1..(n + 1)
      /\ h2[n + 1] = x /\ \A i \in 1..n : h2[i] = h[i]
  OBVIOUS
<1>2. AttemptsIn(h, r) \in SUBSET (1..n)
  BY <1>1 DEF AttemptsIn
<1> HIDE DEF h2
<1>3. CASE r[1] = x.arch /\ r[2] \in DOMAIN x.results
  <2>1. n + 1 \in AttemptsIn(h2, r) /\ AttemptsIn(h2, r) \in SUBSET (1..(n + 1))
    BY <1>1, <1>3 DEF AttemptsIn
  <2>2. LastOf(AttemptsIn(h2, r)) = n + 1
    <3>0. n + 1 \in Nat /\ AttemptsIn(h2, r) # {}
      BY <1>1, <2>1
    <3>1. LastOf(AttemptsIn(h2, r)) \in AttemptsIn(h2, r)
          /\ n + 1 <= LastOf(AttemptsIn(h2, r))
      <4> HIDE DEF n
      <4>1. QED
        BY <2>1, <3>0, LastIsThere
    <3>2. QED
      BY <1>1, <2>1, <3>1
  <2>3. QED
    BY <1>1, <1>3, <2>1, <2>2 DEF LastIn, h2
<1>4. CASE ~ (r[1] = x.arch /\ r[2] \in DOMAIN x.results)
  <2>1. AttemptsIn(h2, r) = AttemptsIn(h, r)
    BY <1>1, <1>4 DEF AttemptsIn
  <2>2. ASSUME AttemptsIn(h, r) # {}
        PROVE  LastIn(h2, r) = LastIn(h, r)
    <3>1. LastOf(AttemptsIn(h, r)) \in 1..n
      BY <1>1, <1>2, <2>2, LastIsThere
    <3>2. QED
      BY <1>1, <2>1, <3>1 DEF LastIn
  <2>3. QED
    BY <1>4, <2>1, <2>2 DEF h2
<1>5. QED
  BY <1>3, <1>4

\* The history that a run ends with has the merge of its results into the
\* latest ones as its latest.
LEMMA MergeIsLatest ==
  ASSUME history \in Seq(Records), results \in ResultSets, arch \in Arches, runs \in 0..MaxRuns
  PROVE  LatestIn(Append(history, [run |-> runs, arch |-> arch, results |-> results]))
           = Merge(LatestIn(history))
<1> DEFINE x == [run |-> runs, arch |-> arch, results |-> results]
           h2 == Append(history, x)
           measured == {name \in DOMAIN results : results[name] = "measured"}
           kept == {r \in DOMAIN LatestIn(history) :
                      ~ (r[1] = arch /\ r[2] \in DOMAIN results)}
<1>1. x \in Records /\ x.run = runs /\ x.arch = arch /\ x.results = results
  BY DEF Records
<1>2. DOMAIN results \subseteq Names
  BY DEF ResultSets
<1>3. DOMAIN LatestIn(history) = {r \in Rows : HasLatest(history, r)}
  BY DEF LatestIn
<1> HIDE DEF x, h2
<1>4. ASSUME NEW r \in Rows
      PROVE  /\ HasLatest(h2, r) <=> r \in kept \cup ({arch} \X measured)
             /\ HasLatest(h2, r) =>
                  LastIn(h2, r).run = IF r \in kept THEN LatestIn(history)[r] ELSE runs
  <2>1. r[1] \in Arches /\ r[2] \in Names /\ r = <<r[1], r[2]>>
    BY DEF Rows
  <2>2. CASE r[1] = arch /\ r[2] \in DOMAIN results
    <3>1. AttemptsIn(h2, r) # {} /\ LastIn(h2, r) = x
      BY <1>1, <2>2, LastAfter DEF h2
    <3>2. r \notin kept
      BY <2>2
    <3>3. r \in {arch} \X measured <=> results[r[2]] = "measured"
      BY <2>1, <2>2
    <3>4. QED
      BY <1>1, <3>1, <3>2, <3>3 DEF HasLatest
  <2>3. CASE ~ (r[1] = arch /\ r[2] \in DOMAIN results)
    <3>1. /\ AttemptsIn(h2, r) = AttemptsIn(history, r)
          /\ AttemptsIn(history, r) # {} => LastIn(h2, r) = LastIn(history, r)
      BY <1>1, <2>3, LastAfter DEF h2
    <3>2. HasLatest(h2, r) <=> HasLatest(history, r)
      BY <3>1 DEF HasLatest
    <3>3. r \in kept <=> HasLatest(history, r)
      BY <1>3, <2>3
    <3>4. r \notin {arch} \X measured
      BY <2>1, <2>3
    <3>5. HasLatest(history, r) => LatestIn(history)[r] = LastIn(h2, r).run
      BY <3>1 DEF LatestIn, HasLatest
    <3>6. QED
      BY <3>2, <3>3, <3>4, <3>5
  <2>4. QED
    BY <2>2, <2>3
<1>5. kept \cup ({arch} \X measured) \subseteq Rows
  BY <1>2, <1>3 DEF Rows
<1>6. {r \in Rows : HasLatest(h2, r)} = kept \cup ({arch} \X measured)
  BY <1>4, <1>5
<1>7. LatestIn(h2) = [r \in kept \cup ({arch} \X measured) |->
                        IF r \in kept THEN LatestIn(history)[r] ELSE runs]
  <2> HIDE DEF kept, measured
  <2>1. \A r \in kept \cup ({arch} \X measured) :
          LastIn(h2, r).run = IF r \in kept THEN LatestIn(history)[r] ELSE runs
    BY <1>4, <1>6
  <2>2. QED
    BY <1>6, <2>1 DEF LatestIn
<1>8. QED
  BY <1>7 DEF Merge, h2, x

\* An empty history has measured nothing.
LEMMA NothingLatest == DOMAIN LatestIn(<<>>) = {}
BY DEF LatestIn, HasLatest, AttemptsIn

-----------------------------------------------------------------------------
(* The merge.                                                              *)

\* A run's results merged into a table make a table.
LEMMA MergeTyped ==
  ASSUME NEW old, IsTable(old), DOMAIN results \subseteq Names, arch \in Arches,
         runs \in 0..MaxRuns
  PROVE  IsTable(Merge(old))
<1> DEFINE measured == {name \in DOMAIN results : results[name] = "measured"}
           kept == {r \in DOMAIN old : ~ (r[1] = arch /\ r[2] \in DOMAIN results)}
           merged == [r \in kept \cup ({arch} \X measured) |-> IF r \in kept THEN old[r] ELSE runs]
<1>1. kept \cup ({arch} \X measured) \subseteq Rows
  BY DEF IsTable, Rows
<1>2. \A r \in kept : old[r] \in 0..MaxRuns
  BY DEF IsTable
<1>3. IsTable(merged)
  BY <1>1, <1>2 DEF IsTable
<1>4. QED
  BY <1>3 DEF Merge

\* What is right in a table is right in the table it is merged into.
LEMMA MergeTrusted ==
  ASSUME NEW old, NEW new,
         \A r \in DOMAIN old : old[r] # Damaged => r \in DOMAIN new /\ old[r] = new[r]
  PROVE  \A r \in DOMAIN Merge(old) :
           Merge(old)[r] # Damaged => r \in DOMAIN Merge(new) /\ Merge(old)[r] = Merge(new)[r]
<1> DEFINE measured == {name \in DOMAIN results : results[name] = "measured"}
           Kept(t) == {r \in DOMAIN t : ~ (r[1] = arch /\ r[2] \in DOMAIN results)}
<1>1. ASSUME NEW t
      PROVE  /\ DOMAIN Merge(t) = Kept(t) \cup ({arch} \X measured)
             /\ \A r \in DOMAIN Merge(t) : Merge(t)[r] = IF r \in Kept(t) THEN t[r] ELSE runs
  BY DEF Merge
<1>2. ASSUME NEW r \in DOMAIN Merge(old), Merge(old)[r] # Damaged
      PROVE  r \in DOMAIN Merge(new) /\ Merge(old)[r] = Merge(new)[r]
  <2>1. CASE r \in Kept(old)
    <3>1. Merge(old)[r] = old[r]
      BY <1>1, <2>1
    <3>2. r \in Kept(new) /\ old[r] = new[r]
      <4>1. r \in DOMAIN old /\ ~ (r[1] = arch /\ r[2] \in DOMAIN results)
        BY <2>1
      <4>2. r \in DOMAIN new /\ old[r] = new[r]
        BY <1>2, <3>1, <4>1
      <4>3. QED
        BY <4>1, <4>2
    <3>3. r \in DOMAIN Merge(new) /\ Merge(new)[r] = new[r]
      BY <1>1, <3>2
    <3>4. QED
      BY <3>1, <3>2, <3>3
  <2>2. CASE r \notin Kept(old)
    <3>1. Merge(old)[r] = runs /\ r \in {arch} \X measured
      <4>1. r \in Kept(old) \cup ({arch} \X measured)
        BY <1>1, <1>2
      <4>2. Merge(old)[r] = IF r \in Kept(old) THEN old[r] ELSE runs
        BY <1>1, <1>2
      <4>3. QED
        BY <2>2, <4>1, <4>2
    <3>2. r[1] = arch /\ r[2] \in measured
      BY <3>1
    <3>3. r \notin Kept(new)
      BY <3>2
    <3>4. QED
      BY <1>1, <3>1, <3>3
  <2>3. QED
    BY <2>1, <2>2
<1>3. QED
  BY <1>2

\* Tables without rows are merged alike.
LEMMA MergeNothing ==
  ASSUME NEW s, NEW t, DOMAIN s = {}, DOMAIN t = {}
  PROVE  Merge(s) = Merge(t)
BY DEF Merge

\* An empty table has no rows, and a cut one fewer or a damaged one.
LEMMA Tables ==
  /\ DOMAIN Empty = {}
  /\ \A t : Table(t).kind = "table" /\ Table(t).rows = t
  /\ \A t : \A r \in DOMAIN t : \A f \in CutAt(t, r) :
       \/ f = Unparsable
       \/ /\ f.kind = "table" /\ DOMAIN f.rows \subseteq DOMAIN t
          /\ \A s \in DOMAIN f.rows : f.rows[s] \in {t[s], Damaged}
<1>1. \A t : Table(t).kind = "table" /\ Table(t).rows = t
  BY DEF Table
<1>2. ASSUME NEW t, NEW r \in DOMAIN t, NEW f \in CutAt(t, r), f # Unparsable
      PROVE  /\ f.kind = "table" /\ DOMAIN f.rows \subseteq DOMAIN t
             /\ \A s \in DOMAIN f.rows : f.rows[s] \in {t[s], Damaged}
  <2> DEFINE before == {s \in DOMAIN t : Before(s, r)}
  <2>1. \/ f = Table([s \in before |-> t[s]])
        \/ f = Table([s \in before \cup {r} |-> IF s = r THEN Damaged ELSE t[s]])
    BY <1>2 DEF CutAt
  <2>2. before \subseteq DOMAIN t
    OBVIOUS
  <2> HIDE DEF before
  <2>3. QED
    BY <1>1, <1>2, <2>1, <2>2
<1>3. DOMAIN Empty = {}
  BY DEF Empty
<1>4. QED
  BY <1>1, <1>2, <1>3

-----------------------------------------------------------------------------
(* Steps.                                                                  *)

\* A run of some architecture that attempts some algorithms.
Begin ==
  \E a \in Arches, attempted \in SUBSET Names : \E measured \in SUBSET attempted :
    Reference \in measured /\ Benchmark(a, attempted, measured)

\* A step that ends a run before it has opened the file, or clears it away.
Ends == ReadFails \/ Killed \/ Delete

\* The kinds of a file.
LEMMA Files ==
  ASSUME TypeOK
  PROVE  /\ file.kind \in {"absent", "unparsable", "table"}
         /\ file.kind = "absent" <=> file = Absent
         /\ file.kind = "unparsable" <=> file = Unparsable
         /\ file.kind = "table" => IsTable(file.rows)
         /\ file.kind # "unparsable" => IsTable(Old)
<1>1. Absent.kind = "absent" /\ Unparsable.kind = "unparsable"
  BY DEF Absent, Unparsable
<1>2. IsTable(Empty)
  BY Tables DEF IsTable
<1>3. QED
  BY <1>1, <1>2 DEF TypeOK, Old

\* No step leaves the types.
LEMMA TypeStep ==
  ASSUME TypeOK, RunInv, Next
  PROVE  TypeOK'
<1>0. IsTable(Empty)
  BY Tables DEF IsTable
<1> USE DEF Goto
<1>1. CASE Begin
  <2>0. PICK a \in Arches, attempted \in SUBSET Names :
               \E measured \in SUBSET attempted : Benchmark(a, attempted, measured)
    BY <1>1 DEF Begin
  <2>1. PICK measured \in SUBSET attempted : Benchmark(a, attempted, measured)
    BY <2>0
  <2>2. results' = [name \in attempted |-> IF name \in measured THEN "measured" ELSE "skipped"]
    BY <2>1 DEF Benchmark
  <2>3. DOMAIN results' \subseteq Names /\ \A name \in DOMAIN results' : results'[name] \in {"skipped", "measured"}
    BY <2>2
  <2>4. runs' \in 0..MaxRuns /\ Len(history') <= runs'
    BY <2>1 DEF Benchmark, TypeOK
  <2>5. QED
    BY <2>1, <2>3, <2>4 DEF Benchmark, TypeOK, IsTable
<1>2. CASE Read
  <2>1. IsTable(out')
    BY <1>2, Files, MergeTyped DEF Read, Old, TypeOK
  <2>2. QED
    BY <1>2, <2>1 DEF Read, TypeOK, IsTable
<1>3. CASE Ends
  <2>1. failures' \in 0..MaxFailures /\ IsTable(out')
    BY <1>0, <1>3 DEF Ends, ReadFails, Killed, Delete, TypeOK
  <2>2. QED
    BY <1>3, <2>1 DEF Ends, ReadFails, Killed, Delete, TypeOK, IsTable
<1>4. CASE Truncate \/ Write
  <2>1. file'.kind = "table" /\ IsTable(file'.rows) /\ IsTable(out')
    BY <1>0, <1>4, Tables DEF Truncate, Write, TypeOK
  <2>2. Len(history') <= runs'
    BY <1>4 DEF Truncate, Write, TypeOK, RunInv
  <2>3. QED
    BY <1>4, <2>1, <2>2 DEF Truncate, Write, TypeOK, IsTable
<1>5. CASE WriteCutShort
  <2>1. file' = Unparsable \/ (file'.kind = "table" /\ IsTable(file'.rows))
    <3>1. PICK r \in DOMAIN out : file' \in CutAt(out, r)
      BY <1>5 DEF WriteCutShort
    <3>2. QED
      BY <3>1, Tables DEF TypeOK, IsTable, Damaged
  <2>2. failures' \in 0..MaxFailures /\ IsTable(out')
    BY <1>0, <1>5 DEF WriteCutShort, TypeOK
  <2>3. QED
    BY <1>5, <2>1, <2>2 DEF WriteCutShort, TypeOK, IsTable
<1>6. QED
  BY <1>1, <1>2, <1>3, <1>4, <1>5 DEF Next, Begin, Ends

\* A run is recorded once, after it has measured.
LEMMA RunStep ==
  ASSUME TypeOK, RunInv, Next
  PROVE  RunInv'
<1> USE DEF Goto
<1>1. CASE Begin
  <2>0. PICK a \in Arches, attempted \in SUBSET Names :
               \E measured \in SUBSET attempted : Benchmark(a, attempted, measured)
    BY <1>1 DEF Begin
  <2>1. PICK measured \in SUBSET attempted : Benchmark(a, attempted, measured)
    BY <2>0
  <2>2. results' \in [attempted -> {"skipped", "measured"}]
    BY <2>1 DEF Benchmark
  <2>3. results' \in ResultSets
    BY <2>2 DEF ResultSets
  <2>4. history' = history /\ Len(history) < runs'
    BY <2>1 DEF Benchmark, TypeOK, RunInv
  <2>5. QED
    BY <2>3, <2>4 DEF RunInv
<1>2. CASE Truncate
  <2>1. [run |-> runs, arch |-> arch, results |-> results] \in Records
    BY <1>2 DEF Truncate, RunInv, TypeOK, Records
  <2>2. history' \in Seq(Records)
    BY <1>2, <2>1 DEF Truncate, RunInv
  <2>3. QED
    BY <1>2, <2>2 DEF Truncate, RunInv
<1>3. CASE Read \/ Write \/ WriteCutShort \/ Ends
  BY <1>3 DEF Read, Write, WriteCutShort, Ends, ReadFails, Killed, Delete, RunInv
<1>4. QED
  BY <1>1, <1>2, <1>3 DEF Next, Begin, Ends

\* A step that does not truncate the file changes no latest measurement.
LEMMA LatestKept ==
  ASSUME Next, ~ Truncate
  PROVE  history' = history /\ Latest' = Latest
<1>1. history' = history
  BY DEF Next, Benchmark, Read, ReadFails, Write, WriteCutShort, Killed, Delete
<1>2. Latest' = LatestIn(history')
  BY DEF Latest, LatestIn, HasLatest, LastIn, LastOf, AttemptsIn, LastAttempt, Attempts
<1>3. QED
  BY <1>1, <1>2, LatestIsIn

\* The truncation makes the table in memory the latest.
LEMMA LatestMerged ==
  ASSUME TypeOK, RunInv, Truncate
  PROVE  Latest' = Merge(Latest)
<1>1. Latest' = LatestIn(history')
  BY DEF Latest, LatestIn, HasLatest, LastIn, LastOf, AttemptsIn, LastAttempt, Attempts
<1>2. history' = Append(history, [run |-> runs, arch |-> arch, results |-> results])
  BY DEF Truncate
<1>3. LatestIn(history') = Merge(LatestIn(history))
  BY <1>2, MergeIsLatest DEF Truncate, RunInv, TypeOK
<1>4. QED
  BY <1>1, <1>3, LatestIsIn

\* The table in memory is the merge of a trusted file, and stays trusted.
LEMMA OutStep ==
  ASSUME TypeOK, RunInv, OutInv, CostsAreTheLatest, Next
  PROVE  OutInv'
<1> USE DEF Goto
<1>1. CASE Read
  <2>1. phase' = "truncate" /\ out' = Merge(Old) /\ file.kind # "unparsable"
    BY <1>1 DEF Read, Old
  <2>2. Old' = Old /\ file' = file /\ arch' = arch /\ results' = results /\ runs' = runs
    BY <1>1 DEF Read, Old
  <2>3. (Merge(Old))' = Merge(Old)
    BY <2>2 DEF Merge
  <2>4. QED
    BY <2>1, <2>2, <2>3 DEF OutInv
<1>2. CASE Truncate
  <2>1. /\ phase' = "write" /\ file'.kind = "table" /\ out' = out
        /\ phase = "truncate" /\ file.kind # "unparsable" /\ out = Merge(Old)
    BY <1>2, Tables DEF Truncate, OutInv
  <2>2. \A r \in DOMAIN Old : Old[r] # Damaged => r \in DOMAIN Latest /\ Old[r] = Latest[r]
    BY <2>1, Files, Tables DEF Old, CostsAreTheLatest
  <2>3. \A r \in DOMAIN out : out[r] # Damaged => r \in DOMAIN Latest' /\ out[r] = Latest'[r]
    BY <1>2, <2>1, <2>2, MergeTrusted, LatestMerged
  <2>4. QED
    BY <2>1, <2>3 DEF OutInv, Trusted
<1>3. CASE Begin \/ Write \/ WriteCutShort \/ Ends
  BY <1>3 DEF Begin, Benchmark, Write, WriteCutShort, Ends, ReadFails, Killed, Delete, OutInv
<1>4. QED
  BY <1>1, <1>2, <1>3 DEF Next, Begin, Ends

\* What reaches the file was trusted in memory.
LEMMA CostsStep ==
  ASSUME TypeOK, OutInv, CostsAreTheLatest, Next
  PROVE  CostsAreTheLatest'
<1> USE DEF Goto
<1>1. CASE Truncate
  <2>1. file'.kind = "table" /\ DOMAIN file'.rows = {}
    BY <1>1, Tables DEF Truncate
  <2>2. QED
    BY <2>1 DEF CostsAreTheLatest
<1>2. CASE Write
  <2>1. Latest' = Latest /\ file' = Table(out) /\ Trusted(out)
    BY <1>2, LatestKept DEF Write, Truncate, OutInv
  <2>2. QED
    BY <2>1, Tables DEF CostsAreTheLatest, Trusted
<1>3. CASE WriteCutShort
  <2>1. PICK r \in DOMAIN out : file' \in CutAt(out, r)
    BY <1>3 DEF WriteCutShort
  <2>2. Latest' = Latest /\ Trusted(out)
    BY <1>3, LatestKept DEF WriteCutShort, Truncate, OutInv
  <2>3. Unparsable.kind = "unparsable"
    BY DEF Unparsable
  <2>4. file'.kind = "table" =>
          /\ DOMAIN file'.rows \subseteq DOMAIN out
          /\ \A s \in DOMAIN file'.rows : file'.rows[s] \in {out[s], Damaged}
    BY <2>1, <2>3, Tables
  <2>5. QED
    BY <2>2, <2>4 DEF CostsAreTheLatest, Trusted
<1>4. CASE Delete
  <2>1. file'.kind = "absent"
    BY <1>4 DEF Delete, Absent
  <2>2. QED
    BY <2>1 DEF CostsAreTheLatest
<1>5. CASE Begin \/ Read \/ ReadFails \/ Killed
  <2>1. file' = file
    BY <1>5 DEF Begin, Benchmark, Read, ReadFails, Killed
  <2>2. Latest' = Latest
    BY <1>5, LatestKept DEF Begin, Benchmark, Read, ReadFails, Killed, Truncate
  <2>3. QED
    BY <2>1, <2>2 DEF CostsAreTheLatest
<1>6. QED
  BY <1>1, <1>2, <1>3, <1>4, <1>5 DEF Next, Begin

\* Runs that are not interrupted lose nothing between them.
LEMMA WholeStep ==
  ASSUME TypeOK, RunInv, OutInv, WholeInv, UninterruptedRunsAccumulate, Next
  PROVE  WholeInv' /\ UninterruptedRunsAccumulate'
<1> USE DEF Goto
<1>1. CASE WriteCutShort \/ Killed \/ Delete
  <2>1. failures' # 0
    BY <1>1 DEF WriteCutShort, Killed, Delete, TypeOK
  <2>2. QED
    BY <2>1 DEF WholeInv, UninterruptedRunsAccumulate
<1>2. CASE Truncate
  <2>1. /\ phase = "truncate" /\ phase' = "write" /\ failures' = failures
        /\ out' = out /\ out = Merge(Old)
    BY <1>2 DEF Truncate, OutInv
  <2>2. ASSUME failures = 0
        PROVE  Merge(Old) = Merge(Latest)
    <3>1. CASE file = Table(Latest)
      BY <3>1, Tables DEF Old
    <3>2. CASE file = Absent /\ history = <<>>
      <4>1. DOMAIN Latest = {} /\ DOMAIN Old = {}
        BY <3>2, LatestIsIn, NothingLatest, Tables DEF Old, Absent
      <4>2. QED
        BY <4>1, MergeNothing
    <3>3. QED
      BY <2>1, <2>2, <3>1, <3>2 DEF UninterruptedRunsAccumulate
  <2>3. failures' = 0 => out' = Latest'
    BY <1>2, <2>1, <2>2, LatestMerged
  <2>4. QED
    BY <2>1, <2>3 DEF WholeInv, UninterruptedRunsAccumulate
<1>3. CASE Write
  <2>1. /\ phase = "write" /\ phase' = "idle" /\ failures' = failures /\ file' = Table(out)
        /\ Latest' = Latest
    BY <1>3, LatestKept DEF Write, Truncate
  <2>2. QED
    BY <2>1 DEF WholeInv, UninterruptedRunsAccumulate
<1>4. CASE Begin \/ Read \/ ReadFails
  <2>1. /\ phase # "write" /\ phase' # "write" /\ failures' = failures /\ file' = file
    BY <1>4 DEF Begin, Benchmark, Read, ReadFails
  <2>2. Latest' = Latest /\ history' = history
    BY <1>4, LatestKept DEF Begin, Benchmark, Read, ReadFails, Truncate
  <2>3. QED
    BY <2>1, <2>2 DEF WholeInv, UninterruptedRunsAccumulate
<1>5. QED
  BY <1>1, <1>2, <1>3, <1>4 DEF Next, Begin

-----------------------------------------------------------------------------
(* The invariant, and what follows from it.                                *)

\* No run has begun and there is no file.
LEMMA InitHolds == Init => IInv
<1> SUFFICES ASSUME Init PROVE IInv
  OBVIOUS
<1> USE DEF Init
<1>1. TypeOK
  BY DEF TypeOK, IsTable, Empty
<1>2. RunInv /\ OutInv /\ WholeInv
  BY DEF RunInv, OutInv, WholeInv
<1>3. CostsAreTheLatest /\ UninterruptedRunsAccumulate
  BY DEF CostsAreTheLatest, UninterruptedRunsAccumulate, Absent
<1>4. QED
  BY <1>1, <1>2, <1>3 DEF IInv

\* The inductive invariant holds in every reachable state.
LEMMA Invariance == Spec => []IInv
<1>1. IInv /\ [Next]_vars => IInv'
  <2>1. ASSUME IInv, UNCHANGED vars
        PROVE  IInv'
    <3>0. /\ phase' = phase /\ arch' = arch /\ results' = results /\ out' = out
          /\ file' = file /\ runs' = runs /\ failures' = failures /\ history' = history
      BY <2>1 DEF vars
    <3>1. Latest' = Latest
      <4>1. Latest' = LatestIn(history')
        BY DEF Latest, LatestIn, HasLatest, LastIn, LastOf, AttemptsIn, LastAttempt, Attempts
      <4>2. QED
        BY <3>0, <4>1, LatestIsIn
    <3>2. TypeOK' /\ RunInv'
      BY <2>1, <3>0 DEF IInv, TypeOK, RunInv, IsTable
    <3>3. OutInv' /\ WholeInv'
      <4>1. Old' = Old /\ (Merge(Old))' = Merge(Old)
        BY <3>0 DEF Old, Merge
      <4>2. Trusted(out)' <=> Trusted(out)
        BY <3>0, <3>1 DEF Trusted
      <4>3. OutInv /\ WholeInv
        BY <2>1 DEF IInv
      <4>4. OutInv'
        <5>1. (phase = "truncate" => file.kind # "unparsable" /\ out = Merge(Old))'
          BY <3>0, <4>1, <4>3 DEF OutInv
        <5>2. (phase = "write" => file.kind = "table" /\ Trusted(out))'
          BY <3>0, <4>2, <4>3 DEF OutInv
        <5>3. QED
          BY <5>1, <5>2 DEF OutInv
      <4>5. QED
        BY <3>0, <3>1, <4>3, <4>4 DEF WholeInv
    <3>4. CostsAreTheLatest' /\ UninterruptedRunsAccumulate'
      BY <2>1, <3>0, <3>1 DEF IInv, CostsAreTheLatest, UninterruptedRunsAccumulate
    <3>5. QED
      BY <3>2, <3>3, <3>4 DEF IInv
  <2>2. ASSUME IInv, Next
        PROVE  IInv'
    BY <2>2, TypeStep, RunStep, OutStep, CostsStep, WholeStep DEF IInv
  <2>3. QED
    BY <2>1, <2>2
<1>2. QED
  BY <1>1, InitHolds, PTL DEF Spec

\* Type correctness of a run's state and of the file.
THEOREM TypeCorrect == Spec => []TypeOK
<1>1. IInv => TypeOK
  BY DEF IInv
<1>2. QED
  BY <1>1, Invariance, PTL

\* Every cost in the file is the latest measurement of its row, or damaged.
THEOREM LatestCosts == Spec => []CostsAreTheLatest
<1>1. IInv => CostsAreTheLatest
  BY DEF IInv
<1>2. QED
  BY <1>1, Invariance, PTL

\* Runs that nothing interrupts leave all latest measurements in the file.
THEOREM Accumulation == Spec => []UninterruptedRunsAccumulate
<1>1. IInv => UninterruptedRunsAccumulate
  BY DEF IInv
<1>2. QED
  BY <1>1, Invariance, PTL

\* writeCostsFile's early return: a file becomes unparsable, and ceases to be,
\* only by an interruption or the operator's hand.
THEOREM UnreadableKept == Spec => UnreadableFileIsKept
<1>1. ASSUME IInv, [Next]_vars, (file.kind = "unparsable") # (file'.kind = "unparsable")
      PROVE  failures' = failures + 1
  <2>1. CASE Truncate \/ Write
    <3>0. OutInv
      BY <1>1 DEF IInv
    <3>1. file.kind # "unparsable" /\ file'.kind # "unparsable"
      <4>1. CASE Truncate
        BY <3>0, <4>1, Tables DEF Truncate, OutInv
      <4>2. CASE Write
        BY <3>0, <4>2, Tables DEF Write, OutInv
      <4>3. QED
        BY <2>1, <4>1, <4>2
    <3>2. QED
      BY <1>1, <3>1
  <2>2. CASE Begin \/ Read \/ ReadFails \/ UNCHANGED vars
    BY <1>1, <2>2 DEF Begin, Benchmark, Read, ReadFails, vars
  <2>3. CASE WriteCutShort \/ Killed \/ Delete
    BY <2>3 DEF WriteCutShort, Killed, Delete
  <2>4. QED
    BY <1>1, <2>1, <2>2, <2>3 DEF Next, Begin
<1>2. QED
  BY <1>1, Invariance, PTL DEF Spec, UnreadableFileIsKept

-----------------------------------------------------------------------------
(* What a completed run leaves, whatever the runs before it left.          *)

\* The rows of t that a run was to settle are as it settled them.
Settled(t) ==
  \A name \in DOMAIN results :
    LET r == <<arch, name>>
    IN  IF results[name] = "measured" THEN r \in DOMAIN t /\ t[r] = runs
        ELSE r \notin DOMAIN t

\* A run measures the reference, and what it merged is settled in memory.
SettledInv ==
  /\ phase # "idle" => Reference \in DOMAIN results /\ results[Reference] = "measured"
  /\ phase \in {"truncate", "write"} => Settled(out)

\* A run that gets to the end leaves, for its architecture, its own cost for
\* every algorithm it measured, the reference among them, and no row for one
\* it skipped: a row that an earlier run's cut left wrong, or that came of a
\* measurement long ago, does not outlive the next run that attempts it.
CompletedRunsSettle ==
  [][Write =>
       /\ file'.kind = "table" /\ Settled(file'.rows)
       /\ <<arch, Reference>> \in DOMAIN file'.rows]_vars

\* The merge settles a run's rows in whatever table it is given.
LEMMA MergeSettles ==
  ASSUME NEW old
  PROVE  Settled(Merge(old))
<1> DEFINE measured == {name \in DOMAIN results : results[name] = "measured"}
           kept == {r \in DOMAIN old : ~ (r[1] = arch /\ r[2] \in DOMAIN results)}
<1>1. /\ DOMAIN Merge(old) = kept \cup ({arch} \X measured)
      /\ \A r \in DOMAIN Merge(old) : Merge(old)[r] = IF r \in kept THEN old[r] ELSE runs
  BY DEF Merge
<1>2. SUFFICES ASSUME NEW name \in DOMAIN results
               PROVE  IF results[name] = "measured"
                      THEN <<arch, name>> \in DOMAIN Merge(old) /\ Merge(old)[<<arch, name>>] = runs
                      ELSE <<arch, name>> \notin DOMAIN Merge(old)
  BY DEF Settled
<1>3. <<arch, name>> \notin kept
  OBVIOUS
<1>4. <<arch, name>> \in {arch} \X measured <=> results[name] = "measured"
  OBVIOUS
<1>5. QED
  BY <1>1, <1>3, <1>4

LEMMA SettledStep ==
  ASSUME SettledInv, [Next]_vars
  PROVE  SettledInv'
<1> USE DEF Goto
<1>1. CASE Begin
  <2>1. PICK a \in Arches, attempted \in SUBSET Names :
               \E measured \in SUBSET attempted :
                 Reference \in measured /\ Benchmark(a, attempted, measured)
    BY <1>1 DEF Begin
  <2>2. PICK measured \in SUBSET attempted :
               Reference \in measured /\ Benchmark(a, attempted, measured)
    BY <2>1
  <2>3. Reference \in DOMAIN results' /\ results'[Reference] = "measured" /\ phase' = "read"
    BY <2>2 DEF Benchmark
  <2>4. QED
    BY <2>3 DEF SettledInv
<1>2. CASE Read
  <2>1. /\ phase = "read" /\ phase' = "truncate" /\ out' = Merge(Old)
        /\ UNCHANGED <<arch, results, runs>>
    BY <1>2 DEF Read, Old
  <2>2. Settled(Merge(Old))
    BY MergeSettles
  <2>3. Settled(out)'
    BY <2>1, <2>2 DEF Settled
  <2>4. QED
    BY <2>1, <2>3 DEF SettledInv
<1>3. CASE Truncate \/ UNCHANGED vars
  <2>1. /\ UNCHANGED <<arch, results, runs, out>>
        /\ (phase = "truncate" /\ phase' = "write") \/ phase' = phase
    BY <1>3 DEF Truncate, vars
  <2>2. Settled(out)' <=> Settled(out)
    BY <2>1 DEF Settled
  <2>3. QED
    BY <2>1, <2>2 DEF SettledInv
<1>4. CASE Write \/ WriteCutShort \/ Ends
  BY <1>4 DEF Write, WriteCutShort, Ends, ReadFails, Killed, Delete, SettledInv
<1>5. QED
  BY <1>1, <1>2, <1>3, <1>4 DEF Next, Begin, Ends

\* A completed run's results are in the file it leaves.
THEOREM CompletedRuns == Spec => CompletedRunsSettle
<1>1. Init => SettledInv
  BY DEF Init, SettledInv
<1>2. ASSUME SettledInv, Write
      PROVE  /\ file'.kind = "table" /\ Settled(file'.rows)
             /\ <<arch, Reference>> \in DOMAIN file'.rows
  <2>1. phase = "write" /\ file' = Table(out)
    BY <1>2 DEF Write
  <2>2. file'.kind = "table" /\ file'.rows = out
    BY <2>1, Tables
  <2>3. Settled(out) /\ Reference \in DOMAIN results /\ results[Reference] = "measured"
    BY <1>2, <2>1 DEF SettledInv
  <2>4. <<arch, Reference>> \in DOMAIN out
    BY <2>3 DEF Settled
  <2>5. QED
    BY <2>2, <2>3, <2>4
<1>3. SettledInv /\ [Next]_vars => SettledInv'
  BY SettledStep
<1>4. QED
  BY <1>1, <1>2, <1>3, PTL DEF Spec, CompletedRunsSettle
=============================================================================
