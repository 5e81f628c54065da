----------------------------- MODULE Benchmark -----------------------------
(***************************************************************************)
(* cmd/algbench: one run of the benchmark, from the registration of the    *)
(* algorithms to the costs it reports.  Generate, Sign and Verify may fail *)
(* at any of their calls, which skips the algorithm.  Times are counted in *)
(* half nanoseconds (so that the median of two is whole), costs in tenths. *)
(***************************************************************************)
EXTENDS Integers, Sequences, FiniteSets, Functions

CONSTANTS
  Rows,         (* the names benchmarked: classical, then the registry's   *)
  Reference,    (* referenceName                                           *)
  Iterations,   (* bound: the values of -n                                 *)
  Times         (* bound: the durations a call may take                    *)

ASSUME RowsAssumption == Rows \in Seq(STRING) /\ \A i, j \in DOMAIN Rows : Rows[i] = Rows[j] => i = j
ASSUME ReferenceAssumption == \E i \in DOMAIN Rows : Rows[i] = Reference
ASSUME IterationsAssumption == Iterations \subseteq Int
ASSUME TimesAssumption == \A t \in Times : t \in Nat /\ t % 2 = 0

VARIABLES
  n,            (* -n: iterations per measured operation                   *)
  phase,        (* what the run does next                                  *)
  samples,      (* signTimes or verifyTimes of the current row             *)
  signNs,       (* median of signTimes, once they are complete             *)
  results,      (* one result for each row so far                          *)
  ref,          (* refSign and refVerify                                   *)
  report        (* the costs reported: a function from names               *)

vars == <<n, phase, samples, signNs, results, ref, report>>

Names == {Rows[i] : i \in DOMAIN Rows}
Row == Rows[Len(results) + 1]
Timing == [sign : Nat, verify : Nat]
Phases == {"register", "generate", "warm up", "sign", "sign for verify", "verify", "results",
           "reported", "exited"}

TypeOK ==
  /\ phase \in Phases
  /\ n \in Iterations
  /\ samples \in Seq(Times) /\ (samples # <<>> => Len(samples) <= n)
  /\ signNs \in Nat
  /\ results \in Seq([name : Names, skipped : BOOLEAN, ns : Timing])
  /\ Len(results) <= Len(Rows) /\ \A i \in DOMAIN results : results[i].name = Rows[i]
  /\ ref \in Timing
  /\ DOMAIN report \subseteq Names
  /\ \A name \in DOMAIN report : report[name] \in [signing : Nat, validation : Nat]

NoTiming == [sign |-> 0, verify |-> 0]

Init ==
  /\ n \in Iterations
  /\ phase = "register"
  /\ samples = <<>>
  /\ signNs = 0
  /\ results = <<>>
  /\ ref = NoTiming
  /\ report = <<>>

\* Mutant: the middle element is taken without sorting.
MedianUnsorted(xs) == IF xs = <<>> THEN 0 ELSE xs[Len(xs) \div 2 + 1]

\* sort.Float64s: the samples in ascending order.
Sorted(xs) ==
  LET order == CHOOSE p \in Bijection(DOMAIN xs, DOMAIN xs) :
                 \A i, j \in DOMAIN xs : i < j => xs[p[i]] <= xs[p[j]]
  IN  [i \in DOMAIN xs |-> xs[order[i]]]

Median(xs) ==
  LET s == Sorted(xs)
      mid == Len(xs) \div 2
  IN  IF xs = <<>> THEN 0
      ELSE IF Len(xs) % 2 = 1 THEN s[mid + 1]
      ELSE (s[mid] + s[mid + 1]) \div 2

\* Mutant: a cost of 10 or more is not scaled.
RelCostUnscaled(ns, r) ==
  IF ns >= 10 * r THEN (2 * ns + r) \div (2 * r) ELSE (20 * ns + r) \div (2 * r)

\* relCost, in tenths: int(x + 0.5) of the ratio, or of ten times the ratio.
RelCost(ns, r) ==
  IF ns >= 10 * r THEN 10 * ((2 * ns + r) \div (2 * r)) ELSE (20 * ns + r) \div (2 * r)

\* Mutant: the reference's sign and verify times are swapped.
MeasuredCostsSwapped ==
  LET measured == {i \in DOMAIN results : ~ results[i].skipped}
      At(name) == CHOOSE i \in measured : Rows[i] = name
  IN  [name \in {Rows[i] : i \in measured} |->
         [signing |-> RelCost(results[At(name)].ns.sign, ref.verify),
          validation |-> RelCost(results[At(name)].ns.verify, ref.sign)]]

\* measuredCosts: the rows that were not skipped.
MeasuredCosts ==
  LET measured == {i \in DOMAIN results : ~ results[i].skipped}
      At(name) == CHOOSE i \in measured : Rows[i] = name
  IN  [name \in {Rows[i] : i \in measured} |->
         [signing |-> RelCost(results[At(name)].ns.sign, ref.sign),
          validation |-> RelCost(results[At(name)].ns.verify, ref.verify)]]

-----------------------------------------------------------------------------

Goto(next) == phase' = next

\* Every row of the registry has its entry in impls, and dns takes them all.
Register ==
  /\ phase = "register"
  /\ Goto("generate")
  /\ UNCHANGED <<n, samples, signNs, results, ref, report>>

\* One has no entry, or dns refuses its number: os.Exit(1).
RegisterFails ==
  /\ phase = "register"
  /\ Goto("exited")
  /\ UNCHANGED <<n, samples, signNs, results, ref, report>>

\* main's loop takes the result of a row and goes on to the next.
Result(r) ==
  /\ results' = Append(results, r)
  /\ ref' = IF r.name = Reference /\ ~ r.skipped THEN r.ns ELSE ref
  /\ Goto(IF Len(results) + 1 = Len(Rows) THEN "results" ELSE "generate")
  /\ samples' = <<>>
  /\ signNs' = 0
  /\ UNCHANGED <<n, report>>

\* Mutant: a row that fails is tried again.
SkipRetries ==
  /\ phase \in {"generate", "warm up", "sign", "sign for verify", "verify"}
  /\ phase \in {"sign", "verify"} => Len(samples) < n
  /\ Goto("generate")
  /\ samples' = <<>>
  /\ signNs' = 0
  /\ UNCHANGED <<n, results, ref, report>>

\* Any call may fail: the row is skipped and the run goes on.
Skip ==
  /\ phase \in {"generate", "warm up", "sign", "sign for verify", "verify"}
  /\ phase \in {"sign", "verify"} => Len(samples) < n
  /\ Result([name |-> Row, skipped |-> TRUE, ns |-> NoTiming])

Generate ==
  /\ phase = "generate"
  /\ Goto("warm up")
  /\ UNCHANGED <<n, samples, signNs, results, ref, report>>

WarmUp ==
  /\ phase = "warm up"
  /\ Goto("sign")
  /\ UNCHANGED <<n, samples, signNs, results, ref, report>>

\* A negative -n: make([]float64, 0, n) panics, which ends the program.
Panic ==
  /\ phase = "sign"
  /\ n < 0
  /\ Goto("exited")
  /\ UNCHANGED <<n, samples, signNs, results, ref, report>>

\* Mutant: one sample more than make reserved.
TimeOnceMore(t) ==
  /\ phase \in {"sign", "verify"}
  /\ Len(samples) <= n
  /\ samples' = Append(samples, t)
  /\ UNCHANGED <<n, phase, signNs, results, ref, report>>

\* One iteration of either loop.
Time(t) ==
  /\ phase \in {"sign", "verify"}
  /\ Len(samples) < n
  /\ samples' = Append(samples, t)
  /\ UNCHANGED <<n, phase, signNs, results, ref, report>>

Signed ==
  /\ phase = "sign"
  /\ Len(samples) = n
  /\ signNs' = Median(samples)
  /\ samples' = <<>>
  /\ Goto("sign for verify")
  /\ UNCHANGED <<n, results, ref, report>>

SignForVerify ==
  /\ phase = "sign for verify"
  /\ Goto("verify")
  /\ UNCHANGED <<n, samples, signNs, results, ref, report>>

Verified ==
  /\ phase = "verify"
  /\ Len(samples) = n
  /\ Result([name |-> Row, skipped |-> FALSE,
             ns |-> [sign |-> signNs, verify |-> Median(samples)]])

\* The reference did not produce timings: os.Exit(1).
NoReference ==
  /\ phase = "results"
  /\ ref.sign = 0 \/ ref.verify = 0
  /\ Goto("exited")
  /\ UNCHANGED <<n, samples, signNs, results, ref, report>>

Report ==
  /\ phase = "results"
  /\ ref.sign # 0 /\ ref.verify # 0
  /\ report' = MeasuredCosts
  /\ Goto("reported")
  /\ UNCHANGED <<n, samples, signNs, results, ref>>

Step ==
  \/ Register \/ RegisterFails \/ Panic
  \/ Skip \/ Generate \/ WarmUp \/ (\E t \in Times : Time(t))
  \/ Signed \/ SignForVerify \/ Verified \/ NoReference \/ Report

Terminated == phase \in {"reported", "exited"} /\ UNCHANGED vars

Next == Step \/ Terminated

Spec == Init /\ [][Next]_vars

(* The calls being timed return: the run is one goroutine that goes on.     *)
FairSpec == Spec /\ WF_vars(Step)

-----------------------------------------------------------------------------
(* Properties.                                                             *)

\* Half of the samples are no more, and half no less, than their median, so
\* one slow or fast outlier does not move a reported cost past the others.
MedianSplitsSamples ==
  LET m == Median(samples)
  IN  /\ 2 * Cardinality({i \in DOMAIN samples : samples[i] <= m}) >= Len(samples)
      /\ 2 * Cardinality({i \in DOMAIN samples : samples[i] >= m}) >= Len(samples)

\* The costs are relative to the reference measured in the same run: its own
\* two costs, if there is a report, are 1 (10 tenths).
ReferenceCostsOne ==
  phase = "reported" =>
    Reference \in DOMAIN report /\ report[Reference] = [signing |-> 10, validation |-> 10]

\* Rounding, which changes its step at a ratio of 10, keeps the order: an
\* algorithm that is no slower never has the higher cost.
FasterNeverCostsMore ==
  phase = "reported" =>
    \A i, j \in {k \in DOMAIN results : ~ results[k].skipped} :
      /\ results[i].ns.sign <= results[j].ns.sign =>
           report[Rows[i]].signing <= report[Rows[j]].signing
      /\ results[i].ns.verify <= results[j].ns.verify =>
           report[Rows[i]].validation <= report[Rows[j]].validation

\* An algorithm that fails, at whichever call, is skipped and the run goes on
\* to its report; or the run exits, for want of an implementation or of the
\* reference, or on a negative -n.
RunEnds == <>(phase \in {"reported", "exited"})

\* relCost's comment: "a minimum reported value of 1 for anything at or below
\* the reference".
ReportedCostsAtLeastOne ==
  \A name \in DOMAIN report : report[name].signing >= 10 /\ report[name].validation >= 10
=============================================================================
