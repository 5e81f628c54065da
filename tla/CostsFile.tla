----------------------------- MODULE CostsFile -----------------------------
(***************************************************************************)
(* cmd/algbench -write: writeCostsFile merging run after run into one      *)
(* algorithm-costs.yaml.  A run measures some of the algorithms it         *)
(* attempts and skips the others; which algorithms it attempts depends on  *)
(* the registry of its day.  Runs follow one another, with any -arch; the  *)
(* last step, os.WriteFile, truncates the file and then writes it, and a   *)
(* run that is killed or meets a full disk leaves what was written so far. *)
(* A row's cost is the number of the run that measured it.                 *)
(***************************************************************************)
EXTENDS Naturals, Sequences, SequencesExt

CONSTANTS
  ArchOrder,    (* the architectures, in the order YAML writes them        *)
  NameOrder,    (* the algorithms, in the order YAML writes them           *)
  Reference,    (* referenceName                                           *)
  MaxRuns,      (* bound: runs in one behaviour                            *)
  MaxFailures   (* bound: runs killed, and files deleted, in one behaviour *)

ASSUME OrderAssumption == IsInjective(ArchOrder) /\ IsInjective(NameOrder)
ASSUME ReferenceAssumption == Reference \in ToSet(NameOrder)
ASSUME BoundAssumption == MaxRuns \in Nat /\ MaxFailures \in Nat

Arches == ToSet(ArchOrder)
Names == ToSet(NameOrder)

VARIABLES
  phase,        (* what the run does next                                  *)
  arch,         (* its -arch                                               *)
  results,      (* its results: names attempted to "skipped" or the run    *)
  out,          (* the table it is about to write                          *)
  file,         (* the file on disk                                        *)
  runs,         (* runs begun                                              *)
  failures,     (* runs killed and files deleted                           *)
  history       (* history: the runs that got as far as writing the file   *)

vars == <<phase, arch, results, out, file, runs, failures, history>>

\* A table is a function from the rows it has to their costs.  A file whose
\* last write was cut short may end in a row with a wrong cost, or not parse.
Rows == Arches \X Names
Damaged == 0
Table(t) == [kind |-> "table", rows |-> t]
Absent == [kind |-> "absent"]
Unparsable == [kind |-> "unparsable"]
Empty == <<>>

IsTable(t) == DOMAIN t \subseteq Rows /\ \A r \in DOMAIN t : t[r] \in 0..MaxRuns

TypeOK ==
  /\ phase \in {"idle", "read", "truncate", "write"}
  /\ arch \in Arches
  /\ DOMAIN results \subseteq Names
  /\ \A name \in DOMAIN results : results[name] \in {"skipped", "measured"}
  /\ IsTable(out)
  /\ file \in {Absent, Unparsable} \/ (file.kind = "table" /\ IsTable(file.rows))
  /\ runs \in 0..MaxRuns
  /\ failures \in 0..MaxFailures
  /\ Len(history) <= runs

Init ==
  /\ phase = "idle"
  /\ arch \in Arches
  /\ results = <<>>
  /\ out = Empty
  /\ file = Absent
  /\ runs = 0
  /\ failures = 0
  /\ history = <<>>

Goto(next) == phase' = next

\* A run's flags and its benchmark.  main exits before writing if the
\* reference has no timings.
Benchmark(a, attempted, measured) ==
  /\ phase = "idle"
  /\ runs < MaxRuns
  /\ runs' = runs + 1
  /\ arch' = a
  /\ results' = [name \in attempted |-> IF name \in measured THEN "measured" ELSE "skipped"]
  /\ Goto("read")
  /\ UNCHANGED <<out, file, failures, history>>

\* Mutant: skipped rows keep their last measurement.
MergeKeepsSkipped(old) ==
  LET measured == {name \in DOMAIN results : results[name] = "measured"}
      kept == {r \in DOMAIN old : ~ (r[1] = arch /\ r[2] \in measured)}
  IN  [r \in kept \cup ({arch} \X measured) |-> IF r \in kept THEN old[r] ELSE runs]

\* Mutant: only this run's block is written.
MergeDropsArches(old) ==
  LET measured == {name \in DOMAIN results : results[name] = "measured"}
      kept == {r \in DOMAIN old : r[1] = arch /\ r[2] \notin DOMAIN results}
  IN  [r \in kept \cup ({arch} \X measured) |-> IF r \in kept THEN old[r] ELSE runs]

\* Mutant: the skipped results are given a cost of their own.
MergeCountsSkipped(old) ==
  LET kept == {r \in DOMAIN old : ~ (r[1] = arch /\ r[2] \in DOMAIN results)}
  IN  [r \in kept \cup ({arch} \X DOMAIN results) |->
         IF r \in kept THEN old[r]
         ELSE IF results[r[2]] = "measured" THEN runs ELSE MaxRuns + 1]

\* measuredCosts and the merge: the arch block gets the measured rows and
\* keeps the rows that were not attempted; other blocks stay.
Merge(old) ==
  LET measured == {name \in DOMAIN results : results[name] = "measured"}
      kept == {r \in DOMAIN old : ~ (r[1] = arch /\ r[2] \in DOMAIN results)}
  IN  [r \in kept \cup ({arch} \X measured) |-> IF r \in kept THEN old[r] ELSE runs]

\* os.ReadFile, yaml.Unmarshal and the merge.  An absent file is an empty one.
Read ==
  /\ phase = "read"
  /\ file.kind # "unparsable"
  /\ out' = Merge(IF file.kind = "absent" THEN Empty ELSE file.rows)
  /\ Goto("truncate")
  /\ UNCHANGED <<arch, results, file, runs, failures, history>>

\* Mutant: a file that does not parse is taken for an empty one.
ReadFailsAndGoesOn ==
  /\ phase = "read"
  /\ file.kind = "unparsable"
  /\ out' = Merge(Empty)
  /\ Goto("truncate")
  /\ UNCHANGED <<arch, results, file, runs, failures, history>>

\* The file does not parse, or reading it fails otherwise than for want of
\* a file: the run ends without touching it.
ReadFails ==
  /\ phase = "read"
  /\ file.kind # "absent"
  /\ Goto("idle")
  /\ UNCHANGED <<arch, results, out, file, runs, failures, history>>

\* os.WriteFile: O_TRUNC.  An empty file parses, to an empty table.
Truncate ==
  /\ phase = "truncate"
  /\ file' = Table(Empty)
  /\ history' = Append(history, [run |-> runs, arch |-> arch, results |-> results])
  /\ Goto("write")
  /\ UNCHANGED <<arch, results, out, runs, failures>>

\* os.WriteFile: the data.
Write ==
  /\ phase = "write"
  /\ file' = Table(out)
  /\ out' = Empty
  /\ Goto("idle")
  /\ UNCHANGED <<arch, results, runs, failures, history>>

Before(r, s) ==
  LET A(x) == SelectInSeq(ArchOrder, LAMBDA a : a = x)
      N(x) == SelectInSeq(NameOrder, LAMBDA m : m = x)
  IN  A(r[1]) < A(s[1]) \/ (r[1] = s[1] /\ N(r[2]) < N(s[2]))

\* What a cut in the middle of row r leaves: the rows before r, and of r
\* nothing, a cost with its last digits missing, or a line that is no YAML.
CutAt(t, r) ==
  LET before == {s \in DOMAIN t : Before(s, r)}
  IN  {Table([s \in before |-> t[s]]),
       Table([s \in before \cup {r} |-> IF s = r THEN Damaged ELSE t[s]]),
       Unparsable}

\* The run is killed, or the disk is full, in the middle of the write.
WriteCutShort ==
  /\ phase = "write"
  /\ failures < MaxFailures
  /\ \E r \in DOMAIN out : file' \in CutAt(out, r)
  /\ failures' = failures + 1
  /\ out' = Empty
  /\ Goto("idle")
  /\ UNCHANGED <<arch, results, runs, history>>

\* The run is killed before it opens the file.
Killed ==
  /\ phase \in {"read", "truncate"}
  /\ failures < MaxFailures
  /\ failures' = failures + 1
  /\ out' = Empty
  /\ Goto("idle")
  /\ UNCHANGED <<arch, results, file, runs, history>>

\* The operator removes a file that no run can use.
Delete ==
  /\ phase = "idle"
  /\ file.kind = "unparsable"
  /\ failures < MaxFailures
  /\ failures' = failures + 1
  /\ file' = Absent
  /\ UNCHANGED <<phase, arch, results, out, runs, history>>

Next ==
  \/ \E a \in Arches, attempted \in SUBSET Names : \E measured \in SUBSET attempted :
       Reference \in measured /\ Benchmark(a, attempted, measured)
  \/ Read \/ ReadFails \/ Truncate \/ Write
  \/ WriteCutShort \/ Killed \/ Delete

Spec == Init /\ [][Next]_vars

-----------------------------------------------------------------------------
(* Properties.                                                             *)

\* The last of these runs to attempt a row, if any.
Attempts(r) == {i \in DOMAIN history : history[i].arch = r[1] /\ r[2] \in DOMAIN history[i].results}
LastAttempt(r) == history[CHOOSE i \in Attempts(r) : \A j \in Attempts(r) : j <= i]

\* The rows whose last attempt measured them, with what it measured.
Latest ==
  LET rows == {r \in Rows : Attempts(r) # {} /\ LastAttempt(r).results[r[2]] = "measured"}
  IN  [r \in rows |-> LastAttempt(r).run]

\* However the runs before it ended, a cost in the file is the latest
\* measurement of its algorithm on its architecture (or the damaged end of
\* a write cut short): no cost comes back after a later run measured or
\* dropped its row, and none moves to another block.
CostsAreTheLatest ==
  file.kind = "table" =>
    \A r \in DOMAIN file.rows :
      file.rows[r] # Damaged => r \in DOMAIN Latest /\ file.rows[r] = Latest[r]

\* Runs that are not interrupted accumulate: the file has every algorithm's
\* latest measurement on every architecture, and nothing else.
UninterruptedRunsAccumulate ==
  failures = 0 /\ phase # "write" =>
    \/ file = Table(Latest)
    \/ file = Absent /\ history = <<>>

\* algbench never overwrites a file it cannot parse, nor leaves one without
\* being interrupted: what an operator could still repair by hand stays.
UnreadableFileIsKept ==
  [][(file.kind = "unparsable") # (file'.kind = "unparsable") => failures' = failures + 1]_vars
=============================================================================
