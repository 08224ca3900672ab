# Freshness Lab: a TLA+ verification development

Freshness Lab sends two kinds of data over one lossy, delaying, asymmetric link.
*STATE* is replaceable: only the newest snapshot of a stream matters. *EVENT* is
not: every occurrence must arrive, a late copy still has value, and it must reach
the application once. The core is portable C with fixed memory (`src/core/`); a
host simulator (`src/host/`) runs a sender and a receiver against a recorded
channel trace and reports metrics; Python tools (`src/tools/`) generate inputs,
run the matrix of experiments and reduce counterexamples.

## 1. The system

| Component | State it keeps | Operations | Interacts with |
|---|---|---|---|
| Sender core, `core/fl_sender.c` | per stream: newest snapshot, one frame in flight, what was acknowledged, what was sent; a table of event slots (attempts, deadline, retention); counters | `publish_state`, `post_event`, `step`, `ingest_ack` | called by the host; `step` calls the policy and encodes one frame |
| Receiver core, `core/fl_receiver.c` | per stream: snapshot held; highest event id and a dedup bitmap; a ring of event ACKs, a flag per stream that owes an ACK; counters | `ingest`, `step` | called by the host; `step` encodes one ACK |
| Policies, `core/fl_policy.c` | none: pure functions of a view | `fl_policy_select` (4 families, 9 presets) | called by the sender with a view of its own ledger only |
| Wire codec, `core/fl_frame.c` | none | `encode`, `decode` | between cores and link |
| Simulator, `host/sim.c` | simulated time, two transit queues, an event ledger, frame counters | `sim_run` | calls both cores in a fixed order every millisecond |
| AoI accumulator, `host/aoi.c` | one accumulator per stream | `apply`, `finish` | fed by the simulator |
| Loaders and program, `host/csvio.c`, `host/flsim_main.c` | none | parse scenario files, write results | around one call of `sim_run` |
| Generators, `tools/gen_workload.py`, `tools/gen_trace.py` | the loop, the state of the bursty channel | `generate_workload`, `generate_trace` | write the files the loaders read |
| Matrix, `tools/run_matrix.py` | an output directory shared with earlier invocations | fixtures, inputs, runs, checks, pruning, verdict | calls the generators and, for every cell and policy, the simulator; then the reports |
| Reports, `tools/summarize.py`, `tools/plot_svg.py` | none | discover runs, aggregate, tables, manifest, charts | read what the matrix left, also by themselves later |
| Reducer, `tools/reduce_counterexample.py` | kept rows, verdict cache, budgets, an output directory | `main`, `ddmin` | runs the simulator as a predicate |

Nothing runs concurrently inside a process: the two cores are passive, and the
host calls them. What is hard is the link and time. Frames and acknowledgements
are lost, delayed by amounts of their own, so they overtake each other and arrive
after the timeout that gave them up; retries race late acknowledgements; queues,
tables and windows are bounded; several limits may fall on the same millisecond.
Of the tools it is the files: they take minutes, may be stopped anywhere, write
into directories that earlier invocations filled, and read a working tree that
may change under them.
`PROJECT.json` lists these hazards at their lines, with the properties that would
catch each going wrong.

What makes each component correct:

* Receiver: a stream never goes back to an older snapshot; an event id reaches the
  application at most once; an acknowledgement vouches only for what was received;
  no request for an acknowledgement disappears uncounted, and one for a stream waits
  only for the event ACKs before it and for its turn.
* Sender: every generated id has exactly one outcome, and it is final; attempts are
  spaced by the timeout, limited, and end at retention; knowledge of the receiver
  never passes what was sent, whatever arrives; the chosen frame may be sent.
* Policies: the choice never idles over work, obeys its guards, and is the one the
  deadlines and estimates order first, so that runs can be compared slot by slot.
* System: the receiver's snapshot lies between what the sender knows and what it
  sent; ACKED is truthful; every frame and attempt is accounted for; after the
  losses stop, both ends agree again; what a run reports is what happened.
* Codec: reading undoes writing, and nothing but the bytes of a frame is read as one.
* Generators: every reader accepts every row whatever is drawn, and workload, trace and
  configuration, computed apart, keep the appointments a scenario is about.
* Matrix: the tables, the verdict and the manifest of an invocation that ends are about
  its own runs; what is compared was made from the same inputs; what the comparisons
  expect of two policies is true of them.
* Reports: no number, mean or bar that was not measured, and none that was is hidden.
* Reducer: the rows kept show the counterexample, and what is claimed minimal was
  tested, whatever fails and wherever the budget ends; its files belong together.

## 2. The modules

| Module | Models | Correspondence |
|---|---|---|
| `Frame` | the decoded frame records and the decoder's verdicts | a `BAD` frame stands for bytes the decoder refuses, with its error |
| `Receiver` | `fl_receiver.c` | an action per outcome: `IngestBad`, `IngestRefused`, `IngestState`, `IngestNewEvent`, `IngestDuplicate`, `IngestOutOfWindow`; `StepEventAck`, `StepStateAck`, `StepIdle` |
| `Application` | the contract of the receiver | abstract: snapshots move forward, an id is delivered once; `Receiver!ImplementsApplication` is the refinement |
| `Policy` | `fl_policy.c` | pure operators; `Select(v)` is the set of choices the code may make for view `v` |
| `Scheduler` | one decision as a state machine | `Decide` puts a view before `Select` |
| `Sender` | `fl_sender.c` | `PublishState`, `PublishExhausted`; `PostAdmitted`, `PostRejected`, `PostExhausted`; `StepEvent`, `StepState`, `StepIdle` within `StepWith`, each after housekeeping; `AckRefused`, `AckStateImpossible`, `AckStateAccepted`, `AckEventImpossible`, `AckEventUnmatched`, `AckEventAccepted` |
| `System` | `sim_run` with both cores | composes `Sender` and `Receiver` by `INSTANCE`; one action per phase of a millisecond |
| `Aoi` | `aoi.c` | one operator per function, in integers |
| `Metrics` | what `sim_run` reports | extends `System`: `MetricsNext` is `System!Next` and, read off the same step, what the code adds to accumulators, counters and totals; `CloseMetrics` is the end of the run |
| `Codec` | `fl_frame.c` | `Write`, `Damage` (external), `Read`; fields by offset and width, the encoder's and the decoder's apart as in the code |
| `Reducer` | `reduce_counterexample.py` | `main`: `Refuse`, `Prepare`, `LoadRows`, `FullRun`, then `WriteReduced`, `FinalBaseline`, `FinalPair`, `WriteReport` with the files they leave; `ddmin` between: `Reduced`, `NotReduced`, `Exhausted`, one action per test, with its cache and both budgets; `Interrupted` |
| `Workload` | `gen_workload.py` | `Sample`, an iteration of the loops over samples of a stream, and `Events`, one of those over events; `Loaded`, `InsideRun`, `RelOk` are what `csvio.c`, `sim.c` and the sender ask of a row |
| `Trace` | `gen_trace.py`, after the workload of the same scenario | `TraceSlot`; `TraceLoaded` and `SlotsNeeded` are the readers' side |
| `Matched` | the comparisons and fixtures of `run_matrix.py` | two instances of `System` in lockstep on the same rows and trace entries; a fixture is one instance with fixed inputs |
| `Matrix` | the rest of `run_matrix.py`, the command line of `summarize.py` | `Start` to `WriteManifest` are the steps of `main` in their order, with their aborts; `Resummarize`; `Kill` and `Edit` are the surroundings |
| `Report` | the numbers in `summarize.py` and `plot_svg.py` | `Collect`, `Aggregate`, `WriteSummaryMd`, `WritePlot`, for one metric at a time |
| `MC*` | bounds for TLC | frames, views, configurations, fairness |
| `DataProofs` | lemmas about data | least and greatest numbers, ranks in a finite set, sums over the values of a function |
| `ReceiverProofs`, `PolicyProofs`, `SchedulerProofs`, `SenderProofs`, `SystemProofs`, `ReducerProofs`, `MatrixProofs` | theorems about the module named | `SenderProofs` uses `PolicyProofs` for the choice made in `step`; `SystemProofs` reaches `SenderProofs` and `ReceiverProofs` through the instances in `System`, and holds the theorems about `Metrics` too |

Conventions. A call refused by `check_time`, or for its arguments, changes nothing
and is a stuttering step, so every action has the conjunct `TimeOk(now)` or an
equivalent of it. Counters are a function over their names. `FL_TIME_NONE`,
the largest 32-bit value, is `TIME_NONE`; elapsed time is an unsigned subtraction
modulo `TIME_NONE + 1` in the policies, where the code subtracts times of
different origin. `step` in the sender runs housekeeping (retention first, then
timeouts), builds its view from what housekeeping left, asks the policy and
records the transmission, all in one action. Sets that record history
(`delivered`, `sent`, `outcome`, `calm_since`) are never read by an action of a core; they
are `outcome` the terminal notes the host enters in its ledger, `sent` the
snapshots handed over, `delivered` the ids given to the application.

A definition whose comment begins with *Mutant* is a deliberately broken variant
of a definition that follows it. It is used by no action: putting it in the
place of that definition breaks the property `PROJECT.json` pairs it with, which
is how each property is known to depend on the code.

## 3. The runs

| Run | What it shows | Bounds, and why they are enough |
|---|---|---|
| `receiver` | types, at most one delivery; acknowledgements vouch for what was received and are all accounted for; no opportunity passes unused while a stream owes an ACK, and each brings that ACK nearer but for the event ACKs queued meanwhile; implements `Application` | window 3 in a word of 4 bits and ids on both sides of each, so that jumps shorter than, equal to and longer than the word and ids below the window all occur; ring of 2, 3 streams, 5 frames: the ring overflows, requests coalesce, the cursor wraps; two times within the horizon, so that an opportunity left unused can be seen as time that passed, and one past it |
| `policies` | no idling over work, deferral within its guards, the starved stream served, events in the order of their deadlines, no tie left open | 3 events, 2 streams, all 9 presets; deadlines late, due, urgent alone, urgent in turn, slack; streams never sent, starved, stale, fresh; 100,320 views. A decision ends the behaviour, so deadlock is not checked |
| `sender` | types, retry discipline, step never faults; outcomes and snapshots exactly accounted for, outcomes final and rightly chosen; knowledge chain under any acknowledgement | 1 stream, 2 slots, 2 attempts, counters of ids and sequence numbers that run out, calls past the horizon. Under `FRESH` up to 4 events, one snapshot, an ACK for any id including 0 and unassigned ones; under `EDF_RR` up to 4 snapshots, one short event, two ACKs with any sequence number and any generation time, past or future, garbage and foreign streams |
| `system` | interval statement, conservative estimate, ACKED truthful, frames (none of them refused) and ledger conserved; retention bounds an event's life to the next slot; the age of information is the sum taken millisecond by millisecond; latencies, confirmations and counts add up | whole runs of 5 slots with 3 workload rows, delays 1 and 3, a timeout of 1 with 3 attempts and of 2 with 2, 2 event slots, window and ring of 1: retries race late ACKs and overtake each other; a threshold of 3 crossed within, at the start and at the end of segments |
| `converge` | both ends agree 7 ms after the last loss and the last row | 2 streams, both policies, 8 slots, delays 1 and 2. Seven is the smallest value that holds: a timeout of 2, slots given to the event and the other stream, and two slow frames |
| `matched` | on matched inputs the policies agree on every slot with an event, the ablation differs in nothing, the fixtures come out as written | 2 streams, 2 event slots, 5 slots, up to 3 rows before the third millisecond, delays 1 and 2 or lost on the way out, 2 or lost on the way back; the fixtures F2 to F5 with their own numbers, F4 and F5 under every policy |
| `reducer` | the kept rows show the counterexample and the files belong together; `one_minimal` was tested; the pair of runs is never split; it ends | up to 4 removable rows, where granularity doubles, is capped and comes down again; every outcome of every pair, failed runs included; budgets that end in each part of the search and one that never does; a directory that is empty, full, or without the runs; an interruption anywhere |
| `codec` | accepted bytes are the one encoding of what is read, and one damaged byte is one wrong field | the offsets of the code; bytes of 32 values, as TLC's integers are too small for four bytes of 256; fields at their edges; two bytes changed, cut or added. The behaviour ends with the frame read, so deadlock is not checked |
| `generators` | every reader accepts every row; workload, trace and configuration keep their appointments | all 8 scenarios with their own numbers, row by row and slot by slot; of a draw the first and last 2 values of its range, where a row can leave the run, its order or an outage. A scenario ends, so deadlock is not checked |
| `matrix` | what an invocation that ends puts in tables, verdict and manifest is its own; comparisons read matched logs; pruning is as asked | 2 scenarios, of which an invocation takes one or both, policies asked for that are checked and that are not, one command that is refused; 2 invocations into one directory, each killed or failing at any step, and one edit of the tree at any time: two invocations give every mixture of old and new. Deadlock is checked |
| `report` | the tables and the chart show what was measured, undefined as undefined and zero as zero, and hide nothing | two scenarios and policies with every combination of cells over up to 3 seeds; wide matrices of up to 8 scenarios and all 9 policies, where bars, legend and axis meet their limits. A report ends, so deadlock is not checked |
| `refused_then_acked` | the finding | window of 1 |

A run of the simulator stops at its end and the reducer exits, so `system`, `converge`,
`matched` and `reducer` do not check deadlock either.

Fairness. `System!Spec`, `Metrics!MetricsSpec` and `Matched!MatchedSpec` have weak fairness of
their next-state relations: `sim_run` is a loop that takes its next step unconditionally.
The receiver needs none: that no acknowledgement is passed over is the step property
`OwedWaitBounded`, whatever arrives and as often as it does.
`Reducer!Spec` has weak fairness of its next-state relation, a loop in a single thread.
Nowhere is the link assumed fair: `Converges` is a bounded statement about what follows
after the losses stop.

Finding. `docs/DESIGN.md:295-298` says that an event refused as out of window ends as
`RETENTION_EXPIRED` or `RETRY_EXHAUSTED`. It may end as `ACKED`, rightly: the
refused copy can be a retry whose predecessor was delivered and whose
acknowledgement is still on its way.

Observations that no run shows as a violation:

* Event ACKs always go before state ACKs (`fl_receiver.c:211-225`). A link that keeps the
  event-ACK ring filled, say with one retried event per reverse opportunity, keeps an owed
  ACK_STATE waiting for as long as it does so. `OwedWaitBounded` counts those event ACKs:
  at most `FL_RX_ACK_QUEUE + n_streams - 1` opportunities, and one for each event ACK queued
  meanwhile, pass before the one that sends it.
* On the chart a mean of zero has no bar (`bar_path`, `plot_svg.py:126-130`), and if every
  seed is zero no whisker either: such a policy looks like one that never ran. Its tooltip
  and the tables tell them apart, which is what `ReportHonest` states.
* An invocation of the matrix that aborts before its verdict leaves the `checks.json` of an
  earlier one beside newer runs, and `summarize.py` run by hand then shows both together.
  `TablesAreFresh` and `VerdictCovers` are about invocations that came to their end. Nor
  need the cells of one matrix be of one version of the configuration files, which are
  copied cell by cell; runs that are compared read the same ones (`ComparedAreMatched`).
* `docs/DESIGN.md:625-627` gives `1 + 7 x 300 ms` as the most an event lives after
  its first transmission. A timeout only makes a retry eligible; events with
  earlier deadlines may take the slots, so the last attempt may come later.
  `Sender!RetryDiscipline` is the direction that does hold.
* `reduce_counterexample.py:50-51` promises of a `one_minimal` result that no single
  remaining row can be removed. With `--protect` the empty set of removable rows leaves
  the protected ones and is not tested; `OneMinimal` is the claim that does hold.
* A reduction interrupted between the first of the final runs and its record leaves the
  `reduction.json` of an earlier reduction beside new runs. The exit code tells; the
  files do not. `ResultHolds` states what they do tell.
* The generators make `run_ms // slot_ms` entries and the simulator asks for one for
  every slot begun. All eight scenarios divide evenly, which is what `RowsAccepted` uses.

## 4. The proofs

Every theorem holds for all values of the constants that the named assumption of the
module allows, and every assumption is one the code makes or checks:

| Assumption | What it asks, and where the code sees to it |
|---|---|
| `ReceiverAssumption` | a window of at least one and no wider than the word (`fl_config.h:49` makes the compiler refuse anything else); frames are those the decoder can produce |
| `TimeNoneAssumption`, `SenderAssumption` | `FL_TIME_NONE` is beyond the horizon and every lifetime that may be asked for on top of it, so no deadline or retention wraps: `check_time` refuses times past the horizon, `post_event` lifetimes past the limit |
| `ViewsAssumption` | the views of `Scheduler` are of the shape `ViewOK`; theorem `StepViewOK` shows that every view a sender builds in a reachable state is |
| `SystemAssumption` | both of the above, what `sim_run` checks before it starts, and delays of at least one millisecond |
| `ThresholdAssumption` | `AoiThreshold` is a number of milliseconds, zero included: it is unsigned in the code |
| `ReducerAssumption` | a budget of at least two runs (`main` refuses a smaller one) |
| `MatrixAssumption` | `CHECK_POLICIES` are known policies, among them the two that are compared; no known policy is called like the ablation's directory; lists on the command line have entries (`nargs="+"`) |

For each invariant that is not inductive as it stands, what was missing:

**Receiver** (`Sound`)

* `ReceiverTypes`: `TypeOK` is inductive.
* `ReceiverDedup`: at most once needs to know what a clear bit means. `BitmapExact` says
  it: within the word, position `d` is set exactly when id `highest_id - d` was delivered.
  `NotYetDelivered` concludes that an id about to be delivered is new: one ahead is
  larger than all delivered, one in the window has a clear bit and, the window
  being no wider than the word, that bit is exact. `RecordExact` shows that recording
  keeps the bitmap exact; the shift has three ranges, below the new id, above it, and
  the ids skipped between. `DeliverOnce` does the counting.
* `ReceiverVouches`: an id enters the ring in the step that delivers it or as a
  duplicate; `BitmapExact` turns the duplicate's set bit into an earlier delivery, and
  `delivered` only grows.
* `ReceiverAccounts`: `Asked` counts the verdicts that ask for an acknowledgement,
  `Settled` the requests that are over; they differ by what the ring and the owed set
  hold. A request raises both sides by one, a step that sends moves one unit across.
* `ReceiverOwedWaitBounded`: `TypeOK` is all it needs. An arrival moves the ring and the count
  of queued event ACKs together (`ArrivalWaits`); a step takes one off the ring or, when that
  is empty, serves the stream next in turn, which brings every other one nearer by a turn at
  least, also where the cursor wraps (`TurnPassed`).
* `ReceiverRefines`: a snapshot that is `Newer` maps to `Refresh` of `Application`, a
  delivery to `Deliver` by `NotYetDelivered`, every other step to a stutter.

**Policies**

* `SelectDetermined`: for every preset and view, `Select` has exactly one member. Every
  ranking of the code is a strict order that is total on distinct ids or streams
  (`OneFirst` finds the least member of a finite set under such an order); the cursor's
  distance tells streams apart because both are below the number of streams.
* `SchedulerWorkConserving`, `SchedulerDeferObeysGuard`, `SchedulerStarvedIsServed`,
  `SchedulerDeadlineOrder` follow from `SelectDetermined`, which leaves no tie open, and
  from `Answer`, which says for that one choice which
  rule of which family produced it. Ages are exact because a view's times are not in its
  future (`AgesExact`); the subtraction wraps only for `TIME_NONE`.

**Sender** (`Safe`, `Ledger`). The lemmas are stated per call, for any time and any frame,
so that `SystemProofs` can cite them of its instance.

* `SenderTypes`, `SenderRetryDiscipline`, `SenderKnowledgeChain`: `Safe` is `TypeOK` with
  `StreamsOK` (what is in flight is the newest snapshot sent; generation times follow the
  sequence numbers), `EventsOK` (a whole timeout lies between two attempts, so the last
  one is at `gen + (attempts - 1) * ack_timeout` or later) and `SlotsExact` (the used
  slots hold exactly the pending ids). Garbage that passes the plausibility check may
  acknowledge what was never received; the chain holds all the same, since the check
  compares with what was sent.
* `SenderNeverFaults`: what the policy chooses is in the view, by `AnswerInView`; what is
  in the view is eligible after housekeeping; what is eligible can be sent.
* `SenderOutcomesFinal`: the action property, from `Safe`: a terminal id has no slot left
  that could report it again.
* `SenderLedgerExact`: `Ledger` counts. An id that ends moves one unit from the pending
  ones to one counter; a snapshot published over an unsent one is the one superseded.
  Needed for it: the history of transmissions has the largest number sent of each stream
  as its largest (`SentOK`).

**System** (`Truthful`, `Conserved`, `Reconciled`). `System` is the two cores by
`INSTANCE`, with the modules that hold their proofs instead of the modules themselves, so
that their lemmas are there as `Snd!...` and `Rcv!...` and nothing is proved twice;
`CoreAssumptions` shows that the cores' assumptions follow from the system's.

* `SystemIntervalHolds`, `SystemEstimateConservative`: the interval is about the two
  cores; what makes it inductive is about the frames between them. Every pair of a sequence
  number and a generation time that is about (under way in either direction, held, in the
  books of the sender) was published, and the pairs of a stream are ordered (`PairsOK`);
  a snapshot under way was sent, an acknowledgement under way names nothing newer than
  what is held (`Honest`). Loss removes pairs, delay and reordering change none.
* `SystemAckedWasDelivered`: an acknowledgement under way names an id that was delivered,
  by `AcksVouch`, and `delivered` only grows.
* `SystemRetentionBound`: housekeeping ends what is due at each slot, nothing enters a
  slot table with a past retention, and between slots only time passes.
* `SystemFramesConserved`: one fate for each frame. That no honest frame is refused needs
  `Untried`: an event without an attempt is nowhere under way and was not delivered, so no
  acknowledgement names it; `Timely` says which phases of a millisecond may still find a
  frame that is due in it.
* `SystemLedgerReconciles`: the rows of the host's ledger add up to the counters of both
  cores (`Entered`), and their times are ordered (`Dated`), because no frame of an event
  that is under way is older than its first transmission.

**Metrics** (`Watched`, on top of the three above). `MetricsSpec` takes the steps of `System`
and adds what the code notes of them (`MetricsSteps`), so `Truthful`, `Conserved` and
`Reconciled` hold of it; `MetricsWatched` adds `Watched`.

* `MetricsAoiExact`: the code adds a whole segment when the next snapshot comes; the
  property asks for the sum over its milliseconds. `Running` says that the accumulator is
  exact up to the open segment, for the log so far. One millisecond more adds one term
  (`TermsAdd`); that a segment of any length in one piece is its milliseconds one by one
  (`SegmentArea`) takes a smallest counterexample. A snapshot appended to the log changes
  nothing that was read before it (`AgeKept`). Ages are never negative, and `Clamped`
  never clamps, because no snapshot is from the future (`LogOK`, from `PairsOK`).
* `MetricsSummaryReconciles`: `CountedStream` bounds the snapshots applied by the distinct
  ones sent up to the one held, since the number held grows with each, and gives every
  frame sent one fate; `DatedStream` shows that a transmission is seen by its date, because
  a slot sends a stream once. Confirmation is later than delivery by `TimedEvent`, whose
  reason is on the link: the acknowledgement of an event left no earlier than the event was
  received, and travels for at least a millisecond (`Timed`). The totals are sums over sets
  of ids, compared term by term (`SumOfLarger`).

**Reducer** (`RInv`)

* `ReducerResultHolds`: what is kept was tested or is everything (`Searching`), and each
  stage of `main` has written what its predecessors did and cleared what was there before
  (`Filed`).
* `ReducerBudgetExact`: runs are two for each set in the cache and the first two
  (`Spending`). That neither no rows nor all of them are ever tested needs the chunks to be
  nonempty and proper: `BoundsGrow` shows it of the bounds in `_chunks`, with the remainder
  spread over the first chunks, whenever granularity is between 2 and the number of rows.
* `ReducerOneMinimal`: `Combed` says that the second loop has tested the complement of
  every chunk it has passed. At the finest granularity a chunk is one row (`DataProofs`
  has the ranks), so a loop that comes to its end there has tested every row.

**Matrix** (`MInv`). For any command lines, any number of invocations into one directory,
each aborted or killed anywhere, and any edits of the tree.

* `MatrixTablesAreFresh`, `MatrixComparedAreMatched`, `MatrixLogsAsAsked`: `Stored` says,
  cell by cell, that the runs of the cells that are done are of this invocation and were
  made from the files that are there, and that their logs are. The
  code drops repetitions from its lists; the proof does not ask for that, so a cell that comes
  up a second time is not counted among the cells done while it is run again.
  `CellInside` and `CellExists` show that the counter of the cells goes through all
  pairs of a scenario and a seed, `DirName` that run directories of different cells do not
  coincide, `RunPoliciesRange` that `dict.fromkeys` drops no policy.
* `MatrixVerdictCovers`: `Judged`, the same for the entries of the checks.
* `Published` ends the argument: tables and manifest of an invocation that came to its end
  are about it, and to aggregate again what its manifest selects writes the same.

**Induction.** The library's induction theorems cannot be instantiated here. Where
numbers are concerned, a smallest counterexample takes their place (`DataProofs!NatMin`);
for sums over functions, a smallest set on which the fold is not what it should be
(`SmallestSubset`, `SumsExist`).

Only model-checked:

* Liveness, out of the prover's reach: `Terminates`; `Converges` is a
  bounded statement, but the seven milliseconds are an arithmetic of delays and slots that
  holds for the constants of its run and not in general.
* `Matched` (`EventSlotsAgree`, `AblationIdentical`, `FixturesHold`): not proved. Inside a
  phase the runs are out of step: the frames of one arrive before those of the other, one
  at a time. An invariant that holds there would have to say what the frames still due will
  do, a fold over them. The fixtures are single runs with fixed inputs, and TLC goes
  through all of them.
* `Codec` (`ReadsWhatIsWritten`): not proved. That digits in base `BYTE` give back the
  number is arithmetic with products and powers of a variable, beyond what the SMT solver
  decides, and with payloads of any width an induction besides.
* `Trace`, `Workload` and `Report` are about eight tables of numbers and about folds over
  sequences; a run with the numbers themselves says what there is to say of them.

## 5. Not modelled

* Payload bytes, an event's kind and code in the cores, `steps` and byte counters: carried
  or counted and never looked at by a decision.
* Argument checks for null pointers and for kinds of events that do not exist: the
  call returns before any state is read.
* Names of enumerators (`fl_names.c`); the argument handling and output of `flsim_main.c`;
  in `csvio.c` the parsing of text, `config_load` and the writers of result files. What the
  loaders ask of a row is in `Workload` and `Trace`.
* The outcome, time and attempts that `note_terminal` copies into the host's ledger at an
  event's end (`sim.c:113-121`): the model reads the end of an event off the sender's
  `outcome`, so that this copy is right is not checked.
* In the simulator: the decision log and the reasons in it, and of the receive log all
  but the snapshots applied: output only. In `aoi.c`: the two floating-point quotients.
* In the generators: the format of the files. The draws inside a range, away from
  its ends, are left out of the runs and not of the modules.
* In `run_matrix.py`: the bytes compared (the comparison itself is in `Matched`) and how
  differences are worded. `flsim_sha256` is taken at the end of a matrix; nothing says
  that the file was the same all along, so nothing is stated of it.
* In `summarize.py` and `plot_svg.py`: parsing of CSV, wording, provenance, colours by
  value, wrapped text. One metric is followed at a time; the code treats them alike.
* In the reducer: what the walkthrough says.
* Bytes are damaged only in `Codec`. In `Receiver` and `Sender` a damaged frame is a
  `BAD` one; damage that yields a well-formed frame of the same type is met there by
  frames with arbitrary values.

## 6. Plan

1. Done: `Frame`, `Receiver`, `Application`, `Policy`, `Scheduler`, `Sender`, `System`,
   `Aoi`, `Metrics`, `Codec`, `Reducer`.
2. Done: `Workload` and `Trace` with the loaders' checks; `Matched`, `Matrix`, `Report`; the
   reducer's files and interruptions.
3. Done: `ReceiverProofs`, `PolicyProofs`, `SchedulerProofs`, `SenderProofs`, `SystemProofs`,
   `ReducerProofs`, `MatrixProofs`, with `DataProofs` for what they share.
   The theorems about `Metrics` are in `SystemProofs`, after those about the system.
4. Left: theorems about `Codec` (`ReadsWhatIsWritten`, field by field, with the widths of the
   code) and about `Matched` (`EventSlotsAgree`, once the effect of the frames due in a
   phase can be stated without a fold).
