-------------------------- MODULE ConcurrencySweep --------------------------
(***************************************************************************)
(* The two scripts that look for the number of test files a machine can run *)
(* at once: measure-concurrency-ceiling.mjs, which stays in the tree, and   *)
(* measure-hosted-concurrency.mjs, which it grew out of.  Every candidate   *)
(* is tried a number of times, one run of the suite after the other, under  *)
(* a cap on each run's time; the results make a verdict.                    *)
(*                                                                         *)
(* A machine has a capacity the scripts do not know: a run whose load is    *)
(* beyond it may fail, hang or do neither.                                  *)
(***************************************************************************)
EXTENDS Integers, Sequences, FiniteSetsExt

CONSTANTS
  Lists,        \* what --concurrency-values may be given as
  Repeats,      \* --repeats
  Capacities    \* the loads a machine can take

(* A candidate is run at least once.                                        *)
ASSUME SweepAssumption ==
  /\ Lists \subseteq Seq(Int) /\ Repeats \in Nat \ {0}
  /\ Capacities \subseteq Nat /\ Capacities # {} /\ IsFiniteSet(Capacities)

VARIABLES
  script, values, capacity,
  sweepStage,        \* "asked", "sweeping", "reported", "refused"
  at, repeat,   \* the candidate and the repeat that are being run
  batch,        \* the stream that runs for it: "none", "serial", "concurrent"
  hung,         \* it will not end by itself
  result,       \* what the repeat has collected: "named", "synthetic", "skip", "error"
  stray,        \* load of the streams that timed out and still run
  perValue,     \* by candidate, the results of its repeats
  report,
  ranSerially,  \* the serial batch of this repeat is over
  witnessed,    \* history: what went wrong in the runs of each candidate
  crowded       \* history: a run began beside one that had timed out

given     == <<script, values, capacity>>
running   == <<at, repeat, batch, hung, result, ranSerially>>
sweepVars == <<given, sweepStage, running, stray, perValue, report, witnessed, crowded>>

NoReport == [verdict |-> "none", recommended |-> 0, above |-> 0]

SweepInit ==
  /\ script \in {"ceiling", "hosted"} /\ values \in Lists /\ capacity \in Capacities
  /\ sweepStage = "asked" /\ at = 1 /\ repeat = 1 /\ batch = "none" /\ hung = FALSE /\ result = {}
  /\ ranSerially = FALSE /\ stray = 0 /\ perValue = <<>> /\ report = NoReport
  /\ witnessed = {} /\ crowded = FALSE

-----------------------------------------------------------------------------
(* main, up to the first run.                                               *)

Candidates(list) == list # <<>> /\ \A i \in DOMAIN list : list[i] > 0

BeginsSweep ==
  /\ sweepStage = "asked"
  /\ sweepStage' = IF Candidates(values) THEN "sweeping" ELSE "refused"
  /\ UNCHANGED <<given, running, stray, perValue, report, witnessed, crowded>>

-----------------------------------------------------------------------------
(* runSweepOnce: of the ceiling script in two batches, of the other in one. *)

ceilingBatch == IF ranSerially THEN "concurrent" ELSE "serial"

hostedBatch == "concurrent"

BeginsBatch ==
  /\ sweepStage = "sweeping" /\ batch = "none" /\ at <= Len(values)
  /\ batch' = IF script = "ceiling" THEN ceilingBatch ELSE hostedBatch
  /\ hung' = FALSE /\ crowded' = (crowded \/ stray > 0)
  /\ UNCHANGED <<given, sweepStage, at, repeat, result, ranSerially, stray, perValue, report, witnessed>>

(* The streams of node:test.                                                *)
Width == CASE batch = "none" -> 0 [] batch = "serial" -> 1 [] batch = "concurrent" -> values[at]

(* More than any machine can take: the load is counted no further.         *)
TooMuch == Max(Capacities) + 1

Overloaded == Width + stray > capacity

(* A test fails, or the file's process does, which has no test's name; the   *)
(* first of a run is enough.                                                *)
TestFails ==
  /\ sweepStage = "sweeping" /\ batch # "none" /\ Overloaded
  /\ \E kind \in {"named", "synthetic"} :
       /\ result = {} /\ result' = {kind}
       /\ witnessed' = witnessed \cup {<<at, kind>>}
  /\ UNCHANGED <<given, sweepStage, at, repeat, batch, hung, ranSerially, stray, perValue, report, crowded>>

Hangs ==
  /\ sweepStage = "sweeping" /\ batch # "none" /\ Overloaded /\ ~hung /\ hung' = TRUE
  /\ UNCHANGED <<given, sweepStage, at, repeat, batch, result, ranSerially, stray, perValue, report,
                 witnessed, crowded>>

StrayEnds ==
  /\ sweepStage = "sweeping" /\ stray > 0 /\ stray' \in 0 .. stray - 1
  /\ UNCHANGED <<given, sweepStage, running, perValue, report, witnessed, crowded>>

-----------------------------------------------------------------------------
(* The loop of main: the result of a repeat, then the next of them.         *)

Collects(r) ==
  /\ perValue' = IF Len(perValue) < at THEN Append(perValue, <<r>>)
                 ELSE [perValue EXCEPT ![at] = Append(@, r)]
  /\ batch' = "none" /\ result' = {} /\ ranSerially' = FALSE
  /\ repeat' = IF repeat < Repeats THEN repeat + 1 ELSE 1
  /\ at' = IF repeat < Repeats THEN at ELSE at + 1
  /\ witnessed' = witnessed \cup ({at} \X r)

SerialBatchEnds ==
  /\ sweepStage = "sweeping" /\ batch = "serial" /\ ~hung /\ batch' = "none" /\ ranSerially' = TRUE
  /\ UNCHANGED <<given, sweepStage, at, repeat, hung, result, stray, perValue, report, witnessed, crowded>>

RunEnds ==
  /\ sweepStage = "sweeping" /\ batch = "concurrent" /\ ~hung
  /\ \E skips \in {{}, {"skip"}} : Collects(result \cup skips)
  /\ UNCHANGED <<given, sweepStage, hung, stray, report, crowded>>

StreamErrors ==
  /\ sweepStage = "sweeping" /\ batch # "none" /\ Collects({"error"})
  /\ UNCHANGED <<given, sweepStage, hung, stray, report, crowded>>

(* Fault: the timer is of the first batch, and cleared at its end.          *)
CappedFirst == batch = "serial" \/ (batch = "concurrent" /\ script = "hosted")

(* The timer of the repeat covers all of its batches.                       *)
Capped == batch # "none"

(* The cap ends the wait; the stream goes on until it heeds the abort of    *)
(* the ceiling script or, in the other, until its tests are over.  The timer*)
(* is unref'd: that it fires takes the processes of the test files, which   *)
(* hold the event loop open as long as a batch of them runs or hangs.       *)
WallCap ==
  /\ sweepStage = "sweeping" /\ Capped /\ Collects({"error"}) 
  /\ stray' = Min({stray + Width, TooMuch})
  /\ UNCHANGED <<given, sweepStage, hung, report, crowded>>

-----------------------------------------------------------------------------
(* The verdict.                                                             *)

(* Fault: a crash without a test's name does not make the run a failed one. *)
ceilingCleanByName(r) == r \cap {"named", "skip", "error"} = {}

ceilingClean(r) == r \cap {"named", "synthetic", "skip", "error"} = {}

hostedClean(r) == r \cap {"named", "skip", "error"} = {}

allClean(i) ==
  \A k \in DOMAIN perValue[i] :
    IF script = "ceiling" THEN ceilingClean(perValue[i][k]) ELSE hostedClean(perValue[i][k])

cleanValues == {values[i] : i \in {j \in DOMAIN perValue : allClean(j)}}
dirtyValues == {values[i] : i \in {j \in DOMAIN perValue : ~allClean(j)}}

selectRecommendation ==
  LET highestClean == Max(cleanValues)
      above        == {v \in dirtyValues : v > highestClean}
  IN  CASE cleanValues = {} -> [verdict |-> "no-safe-value", recommended |-> 0, above |-> 0]
        [] cleanValues # {} /\ above = {} ->
             [verdict |-> "inconclusive-no-ceiling-found", recommended |-> 0, above |-> 0]
        [] OTHER -> [verdict |-> "recommended", recommended |-> highestClean, above |-> Min(above)]

Reports ==
  /\ sweepStage = "sweeping" /\ at > Len(values) /\ sweepStage' = "reported"
  /\ report' = selectRecommendation
  /\ UNCHANGED <<given, running, stray, perValue, witnessed, crowded>>

SweepNext ==
  \/ BeginsSweep \/ BeginsBatch \/ TestFails \/ Hangs \/ StrayEnds
  \/ SerialBatchEnds \/ RunEnds \/ StreamErrors \/ WallCap \/ Reports

(* The scripts go on, and the clock does, the cap's included, whose stream  *)
(* keeps the event loop alive; a stream that hangs may do so for good.      *)
SweepSpec ==
  /\ SweepInit /\ [][SweepNext]_sweepVars
  /\ WF_sweepVars(BeginsSweep) /\ WF_sweepVars(BeginsBatch) /\ WF_sweepVars(Reports)
  /\ WF_sweepVars(SerialBatchEnds) /\ WF_sweepVars(RunEnds) /\ WF_sweepVars(WallCap)

-----------------------------------------------------------------------------
(* What counts against a candidate: the hosted script leaves a crash out    *)
(* that has no test's name, and its successor says so.                      *)
Against == IF script = "ceiling" THEN {"named", "synthetic", "skip", "error"}
           ELSE {"named", "skip", "error"}

Held(i) == \A kind \in Against : <<i, kind>> \notin witnessed

(* A recommended value was run every time it should and nothing went wrong  *)
(* in any of its runs; of the higher candidates none held, the lowest of    *)
(* them is the boundary that was reported, and it is beyond what the        *)
(* machine can do, unless an error, a skip or a run that had timed out and  *)
(* was still there explains it.  No safe value is reported only if none     *)
(* held.                                                                    *)
RecommendationIsEarned ==
  /\ report.verdict = "recommended" =>
       /\ \E i \in DOMAIN values :
            values[i] = report.recommended /\ Held(i) /\ Len(perValue[i]) = Repeats
       /\ \A j \in DOMAIN values : values[j] > report.recommended => ~Held(j)
       /\ \E j \in DOMAIN values :
            /\ values[j] = report.above /\ report.above > report.recommended
            /\ \/ report.above > capacity \/ crowded
               \/ {<<j, "skip">>, <<j, "error">>} \cap witnessed # {}
       /\ \A j \in DOMAIN values :
            values[j] <= report.recommended \/ values[j] >= report.above
  /\ report.verdict = "no-safe-value" => \A i \in DOMAIN values : ~Held(i)

(* A run that hangs does not keep the candidates after it from being tried, *)
(* nor the report from being made.                                          *)
SweepEnds == <>(sweepStage \in {"refused", "reported"})

=============================================================================
