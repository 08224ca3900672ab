------------------------------- MODULE Matrix -------------------------------
(***************************************************************************)
(* tools/run_matrix.py and the command line of tools/summarize.py: the     *)
(* files of an output directory that several invocations write into.  An   *)
(* invocation may abort or be killed between any two steps, and leaves     *)
(* what it has written beside what earlier ones left; the working tree it  *)
(* takes generators, scenario files and simulator from may change at any   *)
(* time.  A file is represented by the versions it was made from.          *)
(***************************************************************************)
EXTENDS Integers, Sequences, FiniteSets, Functions

CONSTANTS
  KnownScenarios, KnownPolicies,
  CheckPolicies,     \* CHECK_POLICIES, a sequence
  Invocations,       \* command lines, without repetitions: [scenarios, seeds, policies : sequences, keep : sequences]
  MaxInvocations,    \* bound on the invocations into one directory
  MaxHead            \* bound on the versions of the working tree

ABLATION_DIR == "fresh_defer0"

\* The lists of a command line have entries (nargs="+"), but for the scenarios kept.
ASSUME MatrixAssumption ==
  /\ CheckPolicies \in Seq(KnownPolicies)
  /\ {"edf_rr", "fresh_nodefer"} \subseteq Range(CheckPolicies)
  /\ ABLATION_DIR \notin KnownPolicies
  /\ \A a \in Invocations :
       /\ a = [scenarios |-> a.scenarios, seeds |-> a.seeds, policies |-> a.policies, keep |-> a.keep]
       /\ \A list \in {"scenarios", "seeds", "policies"} :
            a[list] \in Seq(Range(a[list])) /\ a[list] # <<>>
  /\ MaxInvocations \in Nat /\ MaxHead \in Nat

VARIABLES
  head,      \* the version of the working tree: generators, scenarios/*.cfg, flsim
  inv,       \* the number of the latest invocation
  args,      \* its command line
  gen,       \* the version of the generators it has imported
  pc, k, j,  \* where it is: step, cell, policy
  verdicts,  \* the entries of its checks
  inputs,    \* OUT/inputs: the versions each cell's files were made from, 0 if missing
  dirs,      \* OUT/runs: the run directories
  runs,      \* the run directories with results, and what made them
  logs,      \* those that still have decisions.csv and rx.csv
  checks,    \* OUT/checks.json
  tables,    \* OUT/summary_all.csv and the documents made of it
  manifest,  \* OUT/manifest.json
  completed, \* history: the last invocation that got to its end
  exit       \* how the last program ended

vars == <<head, inv, args, gen, pc, k, j, verdicts, inputs, dirs, runs, logs,
          checks, tables, manifest, completed, exit>>

progress == <<inv, args, gen>>
outputs  == <<checks, tables, manifest, completed>>
tree     == <<inputs, dirs, runs, logs>>

Missing == [inv |-> 0]

Init ==
  /\ head = 1 /\ inv = 0 /\ gen = 1
  /\ args = CHOOSE a \in Invocations : TRUE
  /\ pc = "idle" /\ k = 1 /\ j = 1
  /\ verdicts = {}
  /\ inputs = <<>> /\ dirs = {} /\ runs = <<>> /\ logs = {}
  /\ checks = Missing /\ tables = Missing /\ manifest = Missing
  /\ completed = 0 /\ exit = "none"

-----------------------------------------------------------------------------
(* What the command line asks for. *)

\* Mutant: only what was asked for is run.
RequestedOnly(a) == a.policies

\* dict.fromkeys: the members of s, each once, in the order they come up.
Unique(s) ==
  LET firsts == {q \in DOMAIN s : \A r \in 1 .. (q - 1) : s[r] # s[q]}
  IN  [i \in 1 .. Cardinality(firsts) |->
         s[CHOOSE q \in firsts : Cardinality({r \in firsts : r <= q}) = i]]

\* run_policies: what was asked for, then the policies the checks need.
RunPolicies(a) == Unique(a.policies \o CheckPolicies)

\* parse_keep.
Keep(a) == IF a.keep = <<"all">> THEN Range(a.scenarios) ELSE Range(a.keep)

NCells(a) == Len(a.scenarios) * Len(a.seeds)

\* The cells, scenario by scenario.
Cell == <<args.scenarios[((k - 1) \div Len(args.seeds)) + 1],
          args.seeds[((k - 1) % Len(args.seeds)) + 1]>>

\* The directory being run into; after the policies comes fresh with --defer 0.
Dir == Append(Cell, IF j > Len(RunPolicies(args)) THEN ABLATION_DIR ELSE RunPolicies(args)[j])

Known(a) == Range(a.policies) \subseteq KnownPolicies /\ Range(a.scenarios) \subseteq KnownScenarios

-----------------------------------------------------------------------------
(* run_matrix.main, step by step. *)

Stop(status) == pc' = "idle" /\ k' = 1 /\ j' = 1 /\ exit' = status

Refuse ==
  /\ pc = "idle"
  /\ \E a \in Invocations : ~ Known(a)
  /\ Stop("aborted")
  /\ UNCHANGED <<head, progress, verdicts, tree, outputs>>

Start ==
  /\ pc = "idle" /\ inv < MaxInvocations
  /\ \E a \in Invocations : Known(a) /\ args' = a
  /\ inv' = inv + 1 /\ gen' = head
  /\ verdicts' = {} /\ k' = 1 /\ j' = 1
  /\ pc' = "preflight" /\ exit' = "none"
  /\ UNCHANGED <<head, tree, outputs>>

Verdict(what, where, ok) == [what |-> what, where |-> where, passed |-> ok]

\* 0. The ledger fixtures hold, or the matrix is not accepted.
Preflight ==
  /\ pc = "preflight"
  /\ \E ok \in BOOLEAN :
       /\ verdicts' = {Verdict("ledger_fixtures", <<>>, ok)}
       /\ IF ok
          THEN pc' = "inputs" /\ UNCHANGED <<checks, exit, k, j>>
          ELSE Stop("aborted") /\ checks' = [inv |-> inv, all_passed |-> FALSE]
  /\ UNCHANGED <<head, progress, tree, tables, manifest, completed>>

\* Table t with f for x.
Replaced(t, x, f) == [y \in DOMAIN t \cup {x} |-> IF y = x THEN f ELSE t[y]]

\* The input files of cell c are replaced by f.
InputsWith(c, f) == Replaced(inputs, c, f)

\* 1. Workload and trace come from the generators imported, the configuration
\* from the tree; if the trace cannot be generated the workload is already new.
WriteInputs ==
  /\ pc = "inputs"
  /\ LET old == IF Cell \in DOMAIN inputs THEN inputs[Cell]
                ELSE [workload |-> 0, trace |-> 0, config |-> 0]
     IN  \/ /\ inputs' = InputsWith(Cell, [workload |-> gen, trace |-> gen, config |-> head])
            /\ pc' = "run" /\ UNCHANGED <<exit, k, j>>
         \/ /\ inputs' \in {inputs, InputsWith(Cell, [old EXCEPT !.workload = gen])}
            /\ Stop("aborted")
  /\ UNCHANGED <<head, progress, verdicts, dirs, runs, logs, outputs>>

\* What a run of flsim writes.
Written ==
  /\ runs' = Replaced(runs, Dir, [inv |-> inv, inputs |-> inputs[Cell], flsim |-> head])
  /\ logs' = logs \cup {Dir}

\* 2. One run.  The directory is made first; a failing run writes no results (it
\* could not load its files) or all of them (core_error, ledger_mismatch).
RunPolicy ==
  /\ pc = "run"
  /\ dirs' = dirs \cup {Dir}
  /\ \/ /\ Written
        /\ IF j <= Len(RunPolicies(args)) THEN j' = j + 1 /\ UNCHANGED pc
                                          ELSE j' = 1 /\ pc' = "check"
        /\ UNCHANGED <<exit, k>>
     \/ (Written \/ UNCHANGED <<runs, logs>>) /\ Stop("aborted")
  /\ UNCHANGED <<head, progress, verdicts, inputs, outputs>>

Comparisons == {"ablation_defer0_bytes", "edf_rr_vs_fresh_nodefer_event_slots", "ablation_defer0_summary"}
RunChecks   == {"interval_violations_zero", "accounting_identity"}

\* The entries made for the cell, <<check, directory>>.
Entries ==
  (Comparisons \X {Cell}) \cup (RunChecks \X {Append(Cell, p) : p \in Range(RunPolicies(args))})

\* 3. The checks of the cell, each of which may fail.
Check ==
  /\ pc = "check"
  /\ \E failing \in {{}} \cup {{e} : e \in Entries} :
       verdicts' = verdicts \cup {Verdict(e[1], e[2], e \notin failing) : e \in Entries}
  /\ k' = k + 1
  /\ pc' = IF k' > NCells(args) THEN "prune" ELSE "inputs"
  /\ UNCHANGED <<head, progress, j, tree, outputs, exit>>

\* Mutant: only the cells of this invocation are pruned.
PrunedHere == {d \in logs : d[1] \in Keep(args) \/ d[1] \notin Range(args.scenarios)}

\* The logs that stay: those of the scenarios kept, whoever made them.
Pruned == {d \in logs : d[1] \in Keep(args)}

\* 4.
Prune ==
  /\ pc = "prune"
  /\ logs' = Pruned
  /\ pc' = "verdict"
  /\ UNCHANGED <<head, progress, k, j, verdicts, inputs, dirs, runs, outputs, exit>>

\* Mutant: the fixtures alone decide.
FixturesPassed == \A v \in verdicts : v.what = "ledger_fixtures" => v.passed

AllPassed == \A v \in verdicts : v.passed

WriteChecks ==
  /\ pc = "verdict"
  /\ checks' = [inv |-> inv, all_passed |-> AllPassed]
  /\ pc' = "tables"
  /\ UNCHANGED <<head, progress, k, j, verdicts, tree, tables, manifest, completed, exit>>

-----------------------------------------------------------------------------
(* summarize: run discovery, tables, manifest. *)

\* Mutant: whatever is in the directory is aggregated.
SelectedAll(sel) == {d \in dirs : d[3] # ABLATION_DIR}

\* discover_runs: the run directories selected, or all but the ablation's.
Selected(sel) ==
  IF sel = Missing THEN {d \in dirs : d[3] # ABLATION_DIR}
  ELSE Range(sel.scenarios) \X Range(sel.seeds) \X Range(sel.policies)

\* aggregate_out_dir: a missing summary.csv stops it before it writes anything.
Complete(sel) == Selected(sel) \subseteq DOMAIN runs

\* aggregate_out_dir writes the tables, beside the checks.json that is there.
TablesOf(sel) == [rows |-> [d \in Selected(sel) |-> runs[d]], checks |-> checks]

\* build_manifest: what was selected, and every file under inputs/ and runs/,
\* whoever made it.
ManifestOf(sel) == [sel |-> sel, inputs |-> inputs, runs |-> runs]

\* 5. main passes on its own arguments.
WriteTables ==
  /\ pc = "tables"
  /\ IF Complete(args)
     THEN tables' = TablesOf(args) /\ pc' = "manifest" /\ UNCHANGED <<exit, k, j>>
     ELSE Stop("aborted") /\ UNCHANGED tables
  /\ UNCHANGED <<head, progress, verdicts, tree, checks, manifest, completed>>

WriteManifest ==
  /\ pc = "manifest"
  /\ manifest' = ManifestOf(args)
  /\ completed' = inv
  /\ Stop(IF AllPassed THEN "ok" ELSE "checks_failed")
  /\ UNCHANGED <<head, progress, verdicts, tree, checks, tables>>

\* summarize.main: aggregate again what the manifest selects, or without one
\* whatever is there; --refresh-manifest writes the manifest anew.
Resummarize ==
  /\ pc = "idle" /\ dirs # {}
  /\ LET sel == IF manifest = Missing THEN Missing ELSE manifest.sel
     IN  IF Complete(sel)
         THEN /\ tables' = TablesOf(sel)
              /\ manifest' \in {manifest, ManifestOf(sel)}
         ELSE UNCHANGED <<tables, manifest>>
  /\ UNCHANGED <<head, progress, pc, k, j, verdicts, tree, checks, completed, exit>>

-----------------------------------------------------------------------------
(* The surroundings. *)

\* The process is killed, or an exception nobody catches ends it.
Kill ==
  /\ pc # "idle" /\ Stop("killed")
  /\ UNCHANGED <<head, progress, verdicts, tree, outputs>>

\* Somebody edits the generators or a scenario, or rebuilds flsim.
Edit ==
  /\ head < MaxHead /\ head' = head + 1
  /\ UNCHANGED <<progress, pc, k, j, verdicts, tree, outputs, exit>>

Next ==
  \/ Refuse \/ Start \/ Preflight \/ WriteInputs \/ RunPolicy \/ Check \/ Prune
  \/ WriteChecks \/ WriteTables \/ WriteManifest \/ Resummarize \/ Kill \/ Edit

Spec == Init /\ [][Next]_vars

-----------------------------------------------------------------------------
(* Properties. *)

\* The latest invocation has come to its end.
Accepted == pc = "idle" /\ inv > 0 /\ completed = inv

Requested == Range(args.scenarios) \X Range(args.seeds) \X Range(args.policies)

\* The tables of an invocation that came to its end are about its own runs and no
\* others: exactly the policies asked for (never one run only for the checks, never
\* the ablation, run_matrix.py:66), every run made by this invocation from the input
\* files that are in the directory now, whatever earlier or aborted invocations left
\* there, and however often they are aggregated again.
TablesAreFresh ==
  Accepted =>
    /\ DOMAIN tables.rows = Requested
    /\ \A d \in Requested :
         /\ tables.rows[d].inv = inv
         /\ tables.rows[d].inputs = inputs[<<d[1], d[2]>>]
         /\ tables.rows[d].inputs.workload = gen /\ tables.rows[d].inputs.trace = gen
         /\ manifest.runs[d] = tables.rows[d]

\* The verdict is about what the tables show: an accepted matrix has an entry for
\* every run in them and every comparison of every cell, status 0 means that none
\* failed, and checks.json and the page made of it say what the status said.
VerdictCovers ==
  Accepted =>
    /\ \A d \in DOMAIN tables.rows : \A c \in RunChecks :
         \E v \in verdicts : v.what = c /\ v.where = d
    /\ \A d \in DOMAIN tables.rows : \A c \in Comparisons :
         \E v \in verdicts : v.what = c /\ v.where = <<d[1], d[2]>>
    /\ exit = "ok" => \A v \in verdicts : v.passed
    /\ checks = [inv |-> inv, all_passed |-> \A v \in verdicts : v.passed]
    /\ tables.checks = checks

\* The comparisons read logs that are there and that this invocation made from the
\* same inputs: not logs an earlier one left, or pruned.
ComparedAreMatched ==
  pc = "check" =>
    \A p \in {"edf_rr", "fresh_nodefer", ABLATION_DIR} :
      /\ Append(Cell, p) \in logs
      /\ runs[Append(Cell, p)].inv = inv
      /\ runs[Append(Cell, p)].inputs = inputs[Cell]

\* What is kept of the logs is what was asked for: every run of the scenarios kept
\* has them, the ablation's too, and no run of another scenario does, not even one
\* an earlier invocation was asked to keep.
LogsAsAsked ==
  Accepted =>
    /\ \A d \in logs : d[1] \in Keep(args)
    /\ \A d \in Requested : d[1] \in Keep(args) =>
         d \in logs /\ <<d[1], d[2], ABLATION_DIR>> \in logs
=============================================================================
