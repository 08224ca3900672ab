-------------------------------- MODULE Report --------------------------------
(***************************************************************************)
(* What a reader sees of a matrix of runs: tools/summarize.py reduces the  *)
(* summaries of the runs to one row per scenario and policy and prints     *)
(* them as tables, tools/plot_svg.py draws them as bars.  One metric at a  *)
(* time is followed, from the cell the simulator wrote to the mark on the  *)
(* chart.  Numbers are integers: UNIT is 1, and a cell or a mean keeps     *)
(* more digits than the tables show.                                       *)
(***************************************************************************)
EXTENDS Integers, Sequences, FiniteSets, SequencesExt

CONSTANTS
  N_SCENARIOS, N_SEEDS,   \* bounds on the matrix
  Number,      \* what float() makes of the cells that hold a number
  NameLength,  \* characters in the name of a policy
  Results      \* the metric followed, and its cell in the summary of each run

UNIT  == 100
SHOWN == 10    \* the last digit the tables show

VARIABLES metric, cells, rows, agg_rows, page, chart
vars == <<metric, cells, rows, agg_rows, page, chart>>

\* Scenarios and seeds are numbered in their order.  flsim has no other policy.
POLICY_ORDER == <<"edf_rr", "edf_rr_ld", "fresh_nodefer", "fresh_nodefer_ld", "fresh",
                  "fresh_ld", "fresh_so", "fifo", "fifo_ld">>
INT_METRICS  == {"over_threshold_ms_sum"}
PANELS       == {"on_time_rate", "aoi_mean_ms"}

Init ==
  /\ \E r \in Results : metric = r.metric /\ cells = r.cells
  /\ rows = <<>> /\ agg_rows = <<>> /\ page = <<>> /\ chart = <<>>

-----------------------------------------------------------------------------
(* tools/summarize.py. *)

\* Mutant: a cell of nothing but zeros is taken for missing.
TruthyNumber(s) == IF s \in DOMAIN Number /\ Number[s] # 0 THEN {Number[s]} ELSE {}

\* The number in a cell, none for NA or an empty one.
num_or_none(s) == IF s \in DOMAIN Number THEN {Number[s]} ELSE {}

\* Scenario by scenario, seed by seed, the policies in canonical order.
Ordered ==
  LET n == Len(POLICY_ORDER)
  IN  [i \in 1 .. N_SCENARIOS * N_SEEDS * n |->
         [scenario |-> ((i - 1) \div (n * N_SEEDS)) + 1, seed |-> (((i - 1) \div n) % N_SEEDS) + 1,
          policy |-> POLICY_ORDER[((i - 1) % n) + 1]]]

collect_summary_rows ==
  LET runs == SelectSeq(Ordered, LAMBDA r : r \in DOMAIN cells)
  IN  [i \in DOMAIN runs |-> [run |-> runs[i], cell |-> cells[runs[i]]]]

FirstSeen(s) == FoldLeft(LAMBDA seen, x : IF Contains(seen, x) THEN seen ELSE Append(seen, x), <<>>, s)

Nearest(a, b) == (2 * a + b) \div (2 * b)
RoundTo(v, grid) == grid * Nearest(v, grid)

\* Mutant: the mean of the seeds that have a value.
PartialStatistics(vals, n_seeds) ==
  IF vals = <<>> THEN {}
  ELSE {[mean |-> Nearest(FoldLeft(+, 0, vals), Len(vals)), min |-> Min(Range(vals)), max |-> Max(Range(vals))]}

\* Mean, smallest and largest; NA if a seed has no value.
Statistics(vals, n_seeds) ==
  IF Len(vals) < n_seeds THEN {}
  ELSE {[mean |-> Nearest(FoldLeft(+, 0, vals), Len(vals)), min |-> Min(Range(vals)), max |-> Max(Range(vals))]}

GroupOf(r) == [scenario |-> r.run.scenario, policy |-> r.run.policy]

aggregate(all) ==
  LET groups == FirstSeen([i \in DOMAIN all |-> GroupOf(all[i])])
  IN  [k \in DOMAIN groups |->
         LET g    == SelectSeq(all, LAMBDA r : GroupOf(r) = groups[k])
             kept == SelectSeq(g, LAMBDA r : num_or_none(r.cell) # {})
             vals == [i \in DOMAIN kept |-> Number[kept[i].cell]]
         IN  [group |-> groups[k], n_seeds |-> Len(g), n |-> Len(vals), stat |-> Statistics(vals, Len(g))]]

\* _fmt_value: whole numbers, or four decimals.
ShownValue(v) == RoundTo(v, IF metric \in INT_METRICS THEN UNIT ELSE SHOWN)

\* _fmt_cell: a value all seeds agree on, the mean between the extremes, or NA.
ShownCell(row) ==
  IF row.stat = {} THEN [na |-> TRUE, n |-> row.n, of |-> row.n_seeds]
  ELSE LET s == CHOOSE x \in row.stat : TRUE
       IN  IF s.min = s.max
           THEN [na |-> FALSE, mean |-> {}, lo |-> ShownValue(s.min), hi |-> ShownValue(s.min)]
           ELSE [na |-> FALSE, mean |-> {RoundTo(s.mean, SHOWN)},
                 lo |-> ShownValue(s.min), hi |-> ShownValue(s.max)]

\* A section for each scenario, in it a line for each policy it was run with.
render_summary_md(agg) ==
  LET scenarios == FirstSeen([k \in DOMAIN agg |-> agg[k].group.scenario])
      Lines(sc) == SelectSeq(agg, LAMBDA r : r.group.scenario = sc)
  IN  FoldLeft(LAMBDA lines, sc :
                 lines \o [i \in DOMAIN Lines(sc) |->
                             [group |-> Lines(sc)[i].group, cell |-> ShownCell(Lines(sc)[i])]],
               <<>>, scenarios)

-----------------------------------------------------------------------------
(* tools/plot_svg.py.  Pixels. *)

BAR_W       == 14
BAR_GAP     == 2
GROUP_PAD   == 14
MIN_GROUP_W == 104
MIN_PLOT_W  == 660      \* MIN_WIDTH without both margins

POLICY_SLOT == {"edf_rr", "edf_rr_ld", "fresh_nodefer", "fresh", "fresh_ld", "fresh_so",
                "fifo", "fresh_nodefer_ld"}
policy_fill(p) == IF p \in POLICY_SLOT THEN p ELSE "other"

Larger(a, b) == IF a >= b THEN a ELSE b

bars_w(n_pol) == n_pol * (BAR_W + BAR_GAP) - BAR_GAP

\* Mutant: the same room for a group, however many bars it has.
plot_w_tight(n_sc, n_pol) == Larger(MIN_PLOT_W, n_sc * MIN_GROUP_W)

\* The groups are spread over the full width of the plot.
plot_w(n_sc, n_pol) ==
  Larger(MIN_PLOT_W, n_sc * Larger(MIN_GROUP_W, bars_w(n_pol) + 2 * GROUP_PAD))

\* Left edge of a bar, times 2 * n_sc: a group's width need not be a whole number.
BarX(sc, pol, n_sc, n_pol) ==
  2 * (sc - 1) * plot_w(n_sc, n_pol) + plot_w(n_sc, n_pol) - n_sc * bars_w(n_pol)
    + 2 * n_sc * (pol - 1) * (BAR_W + BAR_GAP)

\* The legend: entries in hundredths of a pixel, in rows that wrap.
LegendWidth(p) == 3600 + 696 * NameLength[p]

Legend(policies, right) ==
  FoldLeft(LAMBDA l, p :
             LET wraps == l.x + LegendWidth(p) > right /\ l.x > 0
                 at    == IF wraps THEN 0 ELSE l.x
                 row   == IF wraps THEN l.row + 1 ELSE l.row
             IN  [x |-> at + LegendWidth(p), row |-> row,
                  items |-> Append(l.items, [policy |-> p, fill |-> policy_fill(p), x |-> at, row |-> row])],
           [x |-> 0, row |-> 0, items |-> <<>>], policies).items

\* Mutant: the last tick lies below the longest bar.
AxisShort(vmax) ==
  IF vmax <= 0 THEN [top |-> UNIT, step |-> UNIT \div 4]
  ELSE LET mag  == Max({m \in {10, 100, 1000} : 4 * m <= vmax})
           step == Min({s \in {mag, 2 * mag, (5 * mag) \div 2, 5 * mag, 10 * mag} : vmax <= 5 * s})
       IN  [top |-> (vmax \div step) * step, step |-> step]

\* nice_axis: steps of 1, 2, 2.5, 5 or 10 times a power of ten, at most five of them.
nice_axis(vmax) ==
  IF vmax <= 0 THEN [top |-> UNIT, step |-> UNIT \div 4]
  ELSE LET mag  == Max({m \in {10, 100, 1000} : 4 * m <= vmax})
           step == Min({s \in {mag, 2 * mag, (5 * mag) \div 2, 5 * mag, 10 * mag} : vmax <= 5 * s})
       IN  [top |-> ((vmax + step - 1) \div step) * step, step |-> step]

Axis(agg) ==
  IF metric = "on_time_rate" THEN [top |-> UNIT, step |-> UNIT \div 4]
  ELSE nice_axis(Max({0} \cup UNION {{s.max : s \in agg[k].stat} : k \in DOMAIN agg}))

Place(s, x) == CHOOSE i \in DOMAIN s : s[i] = x

\* Mutant: a mean of zero is taken for undefined.
MarkTruthy(row, scenarios, policies) ==
  LET drawn == {s \in row.stat : s.mean > 0}
  IN  [group |-> row.group,
       x     |-> BarX(Place(scenarios, row.group.scenario), Place(policies, row.group.policy),
                      Len(scenarios), Len(policies)),
       na    |-> drawn = {},
       bar   |-> {s.mean : s \in drawn},
       whisk |-> {<<s.min, s.max>> : s \in {z \in drawn : z.max > z.min}},
       tip   |-> {[stat |-> s, n_seeds |-> row.n_seeds] : s \in drawn}]

\* One mark for each row, NA or a bar with its whisker and, on hovering, the numbers.
\* A mean of zero has no bar (bar_path), and if all seeds are zero no whisker either.
Mark(row, scenarios, policies) ==
  [group |-> row.group,
   x     |-> BarX(Place(scenarios, row.group.scenario), Place(policies, row.group.policy),
                  Len(scenarios), Len(policies)),
   na    |-> row.stat = {},
   bar   |-> {s.mean : s \in {z \in row.stat : z.mean > 0}},
   whisk |-> {<<s.min, s.max>> : s \in {z \in row.stat : z.max > z.min}},
   tip   |-> {[stat |-> s, n_seeds |-> row.n_seeds] : s \in row.stat}]

render_svg(agg) ==
  LET scenarios == FirstSeen([k \in DOMAIN agg |-> agg[k].group.scenario])
      policies  == FirstSeen([k \in DOMAIN agg |-> agg[k].group.policy])
      right     == plot_w(Len(scenarios), Len(policies))
  IN  [n_sc   |-> Len(scenarios), right |-> right, axis |-> Axis(agg),
       marks  |-> {Mark(agg[k], scenarios, policies) : k \in DOMAIN agg},
       legend |-> Legend(policies, 100 * right)]

-----------------------------------------------------------------------------
(* aggregate_out_dir: the four files in their order. *)

Collect ==
  /\ rows = <<>>
  /\ rows' = collect_summary_rows
  /\ UNCHANGED <<metric, cells, agg_rows, page, chart>>

Aggregate ==
  /\ rows # <<>> /\ agg_rows = <<>>
  /\ agg_rows' = aggregate(rows)
  /\ UNCHANGED <<metric, cells, rows, page, chart>>

WriteSummaryMd ==
  /\ agg_rows # <<>> /\ page = <<>>
  /\ page' = render_summary_md(agg_rows)
  /\ UNCHANGED <<metric, cells, rows, agg_rows, chart>>

WritePlot ==
  /\ page # <<>> /\ chart = <<>> /\ metric \in PANELS
  /\ chart' = <<render_svg(agg_rows)>>
  /\ UNCHANGED <<metric, cells, rows, agg_rows, page>>

Next == Collect \/ Aggregate \/ WriteSummaryMd \/ WritePlot

Spec == Init /\ [][Next]_vars

-----------------------------------------------------------------------------
(* Properties. *)

Groups    == {[scenario |-> k.scenario, policy |-> k.policy] : k \in DOMAIN cells}
Runs(g)   == {k \in DOMAIN cells : k.scenario = g.scenario /\ k.policy = g.policy}
Known(g)  == {k \in Runs(g) : cells[k] \in DOMAIN Number}
Values(g) == {Number[cells[k]] : k \in Known(g)}
Total(g)  == MapThenSumSet(LAMBDA k : Number[cells[k]], Known(g))

\* One line for each scenario and policy that ran; NA, with the count of seeds that do
\* have a value, exactly when some seed has none, and a zero is a value.  Otherwise the
\* extremes hold every seed, to the last digit shown, with the mean between them.
TablesHonest ==
  /\ Len(page) > 0 => {page[i].group : i \in DOMAIN page} = Groups /\ Len(page) = Cardinality(Groups)
  /\ \A i \in DOMAIN page :
       LET g == page[i].group
           c == page[i].cell
           n == Cardinality(Runs(g))
       IN  IF Known(g) # Runs(g)
           THEN c = [na |-> TRUE, n |-> Cardinality(Known(g)), of |-> n]
           ELSE /\ ~ c.na
                /\ \A v \in Values(g) : 2 * (c.lo - v) <= SHOWN /\ 2 * (v - c.hi) <= SHOWN
                /\ c.mean = {} <=> Cardinality(Values(g)) = 1
                /\ \A m \in c.mean : /\ c.lo <= m /\ m <= c.hi
                                    /\ 2 * (n * m - Total(g)) <= n * (SHOWN + 1)
                                    /\ 2 * (Total(g) - n * m) <= n * (SHOWN + 1)

\* The chart says what the tables say: a mark for each line and for nothing else, NA
\* exactly where a seed has no value; otherwise a bar if any seed is above zero, a
\* whisker if the seeds differ, all of it below the top of the axis, and always the
\* tooltip with the extremes, which is all that a group of zeros shows.  No bar hides
\* another or leaves the plot, a policy stands at the same place in every group, and the
\* legend names each policy drawn, once, in a colour of its own, where it can be read.
ChartHonest ==
  \A k \in DOMAIN chart :
    LET c    == chart[k]
        wide == 2 * c.n_sc      \* the unit of the marks' positions
    IN  /\ {m.group : m \in c.marks} = Groups /\ Cardinality(c.marks) = Cardinality(Groups)
        /\ c.axis.top % c.axis.step = 0 /\ c.axis.top \div c.axis.step \in 3 .. 5
        /\ \A m \in c.marks :
             /\ m.na <=> Known(m.group) # Runs(m.group)
             /\ ~ m.na =>
                  LET vals == Values(m.group)
                  IN  /\ m.bar # {} <=> \E v \in vals : v > 0
                      /\ m.whisk # {} <=> Cardinality(vals) > 1
                      /\ \A v \in vals \cup m.bar : v <= c.axis.top
                      /\ \E t \in m.tip : /\ t.stat.min \in vals /\ t.stat.max \in vals
                                          /\ \A v \in vals : t.stat.min <= v /\ v <= t.stat.max
                                          /\ t.n_seeds = Cardinality(Runs(m.group))
             /\ 0 <= m.x /\ m.x + wide * BAR_W <= wide * c.right
        /\ \A m, o \in c.marks :
             /\ m.group.policy = o.group.policy => (m.x - o.x) % (2 * c.right) = 0
             /\ m # o => m.x - o.x >= wide * (BAR_W + BAR_GAP) \/ o.x - m.x >= wide * (BAR_W + BAR_GAP)
        /\ {c.legend[i].policy : i \in DOMAIN c.legend} = {g.policy : g \in Groups}
        /\ \A i, j \in DOMAIN c.legend :
             LET a == c.legend[i]
                 b == c.legend[j]
             IN  /\ a.x + LegendWidth(a.policy) <= 100 * c.right
                 /\ i < j => /\ a.policy # b.policy /\ a.fill # b.fill
                             /\ a.row < b.row \/ (a.row = b.row /\ a.x + LegendWidth(a.policy) <= b.x)

\* The report misleads nobody: what a reader sees in the tables and on the chart is what
\* the runs came to, a metric some run leaves undefined is shown as undefined and not as
\* zero or as the mean of the others, and a zero is neither undefined nor missing
\* (summarize.py:309-319, plot_svg.py:345-372).
ReportHonest == TablesHonest /\ ChartHonest
=============================================================================
