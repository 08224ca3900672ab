------------------------------- MODULE Reducer -------------------------------
(***************************************************************************)
(* tools/reduce_counterexample.py: delta debugging of a workload on which  *)
(* the candidate policy does worse than the baseline.  Rows of protected   *)
(* types always stay; ddmin looks for few removable rows with which the    *)
(* comparison still holds.  A set of removable rows is evaluated by a pair *)
(* of runs of the simulator, once: which way it comes out is chosen when   *)
(* it is first asked, and remembered.  The output directory may hold the   *)
(* files of an earlier reduction.                                          *)
(***************************************************************************)
EXTENDS Integers, FiniteSets

CONSTANTS
  MaxRows,       \* bound on the removable rows of a workload
  RunBudgets,    \* values of --max-runs
  TestBudgets    \* values of max_tests, the argument of ddmin

ASSUME ReducerAssumption ==
  /\ MaxRows \in Nat
  /\ RunBudgets \subseteq Nat \ {0, 1}    \* "must be at least 2"
  /\ TestBudgets \subseteq Nat

VARIABLES
  rows,        \* the removable rows, 1 .. their number
  protected,   \* does the workload have protected rows?
  alone,       \* does the comparison hold on the protected rows alone?
  max_runs, max_tests,
  files,       \* the output directory: whose each file is, "old" or "new", if it is there
  stage,       \* of main, from "args" to "exit"
  cur,         \* ddmin: the rows kept so far
  n,           \* ddmin: granularity
  pass, i,     \* ddmin: which loop, and the chunk it has come to
  cache,       \* ddmin: the outcome of each set of rows tested
  tests,       \* ddmin: counters["tests"]
  runs_used,   \* FlsimRunner.runs_used
  one_minimal, budget_exhausted,
  after,       \* the outcome of the final pair of runs
  exit_code

vars == <<rows, protected, alone, max_runs, max_tests, files, stage, cur, n, pass, i, cache,
          tests, runs_used, one_minimal, budget_exhausted, after, exit_code>>

input  == <<rows, protected, alone, max_runs, max_tests>>
search == <<cur, n, pass, i>>

\* metric_direction: how to read the metric.
Direction == {"higher_is_better", "lower_is_better"}

\* FlsimRunner.run: a run fails or not, its metric is undefined (NA) or has a value.
Run == [rc : {0, 1}, known : BOOLEAN, value : {0, 1}]

\* Strictly worse, and never on an undefined value.
predicate_holds(direction, base, cand) ==
  /\ base.known /\ cand.known
  /\ IF direction = "higher_is_better" THEN cand.value < base.value ELSE cand.value > base.value

\* What a pair of runs comes to.
PairOutcome(direction, base, cand) ==
  CASE base.rc # 0 \/ cand.rc # 0                        -> "error"
    [] base.rc = 0 /\ cand.rc = 0
         /\ predicate_holds(direction, base, cand)       -> "holds"
    [] OTHER                                             -> "fails"

Outcome == {PairOutcome(d, b, c) : d \in Direction, b \in Run, c \in Run}

\* What main leaves in the output directory, in the order it is written.
File == {"reduced_workload.csv", "baseline", "candidate", "walkthrough.md", "reduction.json"}

None == [f \in {} |-> "old"]

\* Mutant: the runs of an earlier reduction stay.
ClearedNothing(fs) == fs

\* main clears the runs of an earlier reduction, and leaves its other files alone.
Cleared(fs) == [f \in DOMAIN fs \ {"baseline", "candidate"} |-> fs[f]]

Written(names) == [f \in DOMAIN files \cup names |-> IF f \in names THEN "new" ELSE files[f]]

Init ==
  /\ \E k \in 0 .. MaxRows : rows = 1 .. k
  /\ protected \in BOOLEAN
  \* Without rows the policies do nothing, and their summaries are the same.
  /\ alone \in IF protected THEN BOOLEAN ELSE {FALSE}
  /\ max_runs \in RunBudgets /\ max_tests \in TestBudgets
  /\ files \in {None, [f \in File |-> "old"], Cleared([f \in File |-> "old"])}
  /\ stage = "args"
  /\ cur = rows /\ n = 2 /\ pass = "subset" /\ i = 1
  /\ cache = <<>>
  /\ tests = 0 /\ runs_used = 0
  /\ one_minimal = FALSE /\ budget_exhausted = FALSE
  /\ after = "none" /\ exit_code = -1

-----------------------------------------------------------------------------
(* The head of ddmin's loop. *)

Granularity(c, g) == IF g < Cardinality(c) THEN g ELSE Cardinality(c)

\* ddmin goes on with the rows c at granularity g, or ends if less than two are left.
Continue(c, g) ==
  /\ cur' = c
  /\ n' = IF Cardinality(c) >= 2 THEN Granularity(c, g) ELSE g
  /\ pass' = "subset" /\ i' = 1
  /\ one_minimal' = (Cardinality(c) < 2)
  /\ stage' = IF Cardinality(c) < 2 THEN "final" ELSE "search"

\* Arguments that name no file, no policy, too small a budget or a metric of no known
\* direction are refused before anything is touched.
Refuse ==
  /\ stage = "args"
  /\ stage' = "exit" /\ exit_code' = 1
  /\ UNCHANGED <<input, files, search, cache, tests, runs_used, one_minimal, budget_exhausted, after>>

Prepare ==
  /\ stage = "args"
  /\ files' = Cleared(files)
  /\ stage' = "load"
  /\ UNCHANGED <<input, search, cache, tests, runs_used, one_minimal, budget_exhausted, after, exit_code>>

\* Every row is read, or none: a row that cannot be read, or no row, ends the run.
LoadRows ==
  /\ stage = "load"
  /\ \/ stage' = "full" /\ UNCHANGED exit_code /\ (rows # {} \/ protected)
     \/ stage' = "exit" /\ exit_code' = 1
  /\ UNCHANGED <<input, files, search, cache, tests, runs_used, one_minimal, budget_exhausted, after>>

\* 1. The full workload must run, and show the counterexample.
FullRun ==
  /\ stage = "full"
  /\ runs_used' = 2
  /\ \/ /\ rows = {} => alone
        /\ Continue(cur, n)
        /\ UNCHANGED exit_code
     \/ /\ rows = {} => ~ alone
        /\ stage' = "exit" /\ exit_code' = 2
        /\ UNCHANGED <<search, one_minimal>>
     \/ /\ stage' = "exit" /\ exit_code' = 1
        /\ UNCHANGED <<search, one_minimal>>
  /\ UNCHANGED <<input, files, cache, tests, budget_exhausted, after>>

-----------------------------------------------------------------------------
(* One test of ddmin. *)

\* _chunks(cur, n)[i - 1]: the first |cur| % n chunks have a row more.
Rank(p)  == Cardinality({q \in cur : q <= p})
Start(j) ==
  LET extra == Cardinality(cur) % n
  IN  j * (Cardinality(cur) \div n) + (IF j < extra THEN j ELSE extra)
Chunk    == {p \in cur : Start(i - 1) < Rank(p) /\ Rank(p) <= Start(i)}

\* What is tested now: a chunk, or all the rest.
Tested == IF pass = "subset" THEN Chunk ELSE cur \ Chunk

\* Mutant: the budget is looked at for one run of the pair.
PairAffordableSplit == runs_used + 1 <= max_runs

\* run_pair covers the pair up front, so that a pair is never split.
PairAffordable == runs_used + 2 <= max_runs

\* The outcome r of the test: from the cache, or of a new pair of runs.
Test(r) ==
  \/ /\ Tested \in DOMAIN cache /\ r = cache[Tested]
     /\ UNCHANGED <<cache, tests, runs_used>>
  \/ /\ Tested \notin DOMAIN cache /\ r \in Outcome
     /\ tests < max_tests /\ PairAffordable
     /\ cache' = [s \in DOMAIN cache \cup {Tested} |-> IF s = Tested THEN r ELSE cache[s]]
     /\ tests' = tests + 1
     /\ runs_used' = runs_used + 2

\* Mutant: a broken run is accepted as a counterexample.
HoldsUnlessFailed(r) == r # "fails"

\* A failed run makes the predicate false.
Holds(r) == r = "holds"

\* Reduce to the set tested.
Reduced ==
  /\ stage = "search"
  /\ \E r \in Outcome : Test(r) /\ Holds(r)
  /\ Continue(Tested, IF pass = "subset" \/ n <= 3 THEN 2 ELSE n - 1)
  /\ UNCHANGED <<input, files, budget_exhausted, after, exit_code>>

\* Mutant: chunks of two rows are fine enough.
FinestEarly == 2 * n >= Cardinality(cur)

Finest == n >= Cardinality(cur)

\* Mutant: the granularity is not raised.
FinerSame == n

\* The next granularity when nothing reduces.
Finer == 2 * n

\* The test says no: the next chunk, the other loop, a finer granularity, or the end.
NotReduced ==
  /\ stage = "search"
  /\ \E r \in Outcome : Test(r) /\ ~ Holds(r)
  /\ \/ /\ i < n
        /\ i' = i + 1
        /\ UNCHANGED <<cur, n, pass, stage, one_minimal>>
     \/ /\ i = n /\ pass = "subset"
        /\ pass' = "complement" /\ i' = 1
        /\ UNCHANGED <<cur, n, stage, one_minimal>>
     \/ /\ i = n /\ pass = "complement" /\ ~ Finest
        /\ Continue(cur, Finer)
     \/ /\ i = n /\ pass = "complement" /\ Finest
        /\ one_minimal' = TRUE /\ stage' = "final"
        /\ UNCHANGED search
  /\ UNCHANGED <<input, files, budget_exhausted, after, exit_code>>

\* BudgetExhausted, raised by ddmin before it counts the test, or by the runner after.
Exhausted ==
  /\ stage = "search" /\ Tested \notin DOMAIN cache
  /\ \/ tests >= max_tests /\ UNCHANGED tests
     \/ tests < max_tests /\ ~ PairAffordable /\ tests' = tests + 1
  /\ budget_exhausted' = TRUE /\ stage' = "final"
  /\ UNCHANGED <<input, files, search, cache, runs_used, one_minimal, after, exit_code>>

-----------------------------------------------------------------------------
(* 3. The outputs: the rows kept, and a final pair of runs on them, outside the *)
(* budget.  The simulator is deterministic: it comes out as it did before.      *)
WriteReduced ==
  /\ stage = "final"
  /\ files' = Written({"reduced_workload.csv"})
  /\ stage' = "pair"
  /\ UNCHANGED <<input, search, cache, tests, runs_used, one_minimal, budget_exhausted, after, exit_code>>

FinalBaseline ==
  /\ stage = "pair"
  /\ files' = Written({"baseline"})
  /\ stage' = "second"
  /\ UNCHANGED <<input, search, cache, tests, runs_used, one_minimal, budget_exhausted, after, exit_code>>

\* Both runs are made before either result is looked at.
FinalPair ==
  /\ stage = "second"
  /\ after' = IF cur = rows THEN "holds" ELSE cache[cur]
  /\ files' = Written({"candidate"})
  /\ \/ after' = "error" /\ stage' = "exit" /\ exit_code' = 1
     \/ after' # "error" /\ stage' = "report" /\ UNCHANGED exit_code
  /\ UNCHANGED <<input, search, cache, tests, runs_used, one_minimal, budget_exhausted>>

\* Mutant: the record of the reduction is written before the walkthrough.
RecordFirst ==
  /\ stage \in {"report", "record"}
  /\ IF stage = "report"
     THEN files' = Written({"reduction.json"}) /\ stage' = "record" /\ UNCHANGED exit_code
     ELSE files' = Written({"walkthrough.md"}) /\ stage' = "exit" /\ exit_code' = 0
  /\ UNCHANGED <<input, search, cache, tests, runs_used, one_minimal, budget_exhausted, after>>

\* The walkthrough, and last the record of the reduction.
WriteReport ==
  /\ stage \in {"report", "record"}
  /\ IF stage = "report"
     THEN files' = Written({"walkthrough.md"}) /\ stage' = "record" /\ UNCHANGED exit_code
     ELSE files' = Written({"reduction.json"}) /\ stage' = "exit" /\ exit_code' = 0
  /\ UNCHANGED <<input, search, cache, tests, runs_used, one_minimal, budget_exhausted, after>>

\* A long search may be stopped by hand at any point; nothing catches that.
Interrupted ==
  /\ stage # "exit"
  /\ stage' = "exit" /\ exit_code' = 130
  /\ UNCHANGED <<input, files, search, cache, tests, runs_used, one_minimal, budget_exhausted, after>>

Next ==
  \/ Refuse \/ Prepare \/ LoadRows \/ FullRun
  \/ Reduced \/ NotReduced \/ Exhausted
  \/ WriteReduced \/ FinalBaseline \/ FinalPair \/ WriteReport \/ Interrupted

Spec == Init /\ [][Next]_vars /\ WF_vars(Next)

-----------------------------------------------------------------------------
(* Properties. *)

\* The rows kept always show the counterexample, on runs that worked, so that the
\* final pair does too and a search that was begun does not end in an error.  However
\* the tool ends, the runs of the two policies are on the reduced workload beside them
\* and never on an earlier one, and the record of the reduction is of this one only if
\* every file is, which the tool reports by its exit code.
ResultHolds ==
  /\ cur # rows => cur \in DOMAIN cache /\ cache[cur] = "holds"
  /\ after # "none" => after = "holds" /\ exit_code # 1
  /\ \A f \in {"baseline", "candidate"} \cap DOMAIN files :
       files[f] = files["reduced_workload.csv"]
  /\ ("reduction.json" \in DOMAIN files /\ files["reduction.json"] = "new")
       <=> files = [f \in File |-> "new"]
  /\ exit_code = 0 <=> files = [f \in File |-> "new"]

\* one_minimal is not claimed in vain: every set with one row less, but for the
\* empty one, was tested and does not show the counterexample.
OneMinimal ==
  one_minimal =>
    \A p \in cur :
      cur # {p} => cur \ {p} \in DOMAIN cache /\ cache[cur \ {p}] # "holds"

\* The budget is kept to the pair: the initial one and two runs for each set in the
\* cache, none spent on no rows or on all of them; and the search ends either minimal
\* or out of budget, never both.
BudgetExact ==
  /\ runs_used <= max_runs
  /\ runs_used # 0 => runs_used = 2 + 2 * Cardinality(DOMAIN cache)
  /\ {} \notin DOMAIN cache /\ rows \notin DOMAIN cache
  /\ tests - Cardinality(DOMAIN cache) \in {0, IF budget_exhausted THEN 1 ELSE 0}
  /\ after # "none" => one_minimal # budget_exhausted

\* The reduction ends, whatever the outcomes, with or without a budget.
Terminates == <>(stage = "exit")
=============================================================================
