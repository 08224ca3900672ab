---------------------------- MODULE ReducerProofs ----------------------------
(***************************************************************************)
(* Theorems about module Reducer, for every number of removable rows, all  *)
(* budgets and every way the pairs of runs come out: the rows kept show    *)
(* the counterexample, the budget is kept to the pair, and what is claimed *)
(* minimal was tested row by row.                                          *)
(***************************************************************************)
EXTENDS Reducer, DataProofs

-----------------------------------------------------------------------------
(* The inductive invariant. *)

Early  == {"args", "load", "full"}
Late   == {"final", "pair", "second", "report", "record"}
Stages == Early \cup {"search"} \cup Late \cup {"exit"}

\* The search: what is known of the rows, the cache and where ddmin is.
Searching ==
  /\ IsFiniteSet(rows) /\ rows \subseteq Nat
  /\ cur \subseteq rows
  /\ stage \in Stages
  /\ pass \in {"subset", "complement"}
  /\ n \in Nat /\ i \in Nat
  /\ stage \in Early => cur = rows /\ n = 2
  /\ stage = "search" => 2 <= n /\ n <= Cardinality(cur) /\ 1 <= i /\ i <= n
  /\ IsFiniteSet(DOMAIN cache)
  /\ {} \notin DOMAIN cache /\ rows \notin DOMAIN cache
  /\ cur # rows => cur \in DOMAIN cache /\ cache[cur] = "holds"

\* The budgets: what was spent, and how the search ended.
Spending ==
  /\ max_runs \in Nat /\ 2 <= max_runs
  /\ tests \in Nat /\ runs_used \in Nat
  /\ runs_used <= max_runs
  /\ stage \in Early => runs_used = 0
  /\ stage = "search" => runs_used # 0
  /\ IF runs_used = 0 THEN DOMAIN cache = {} /\ tests = 0
                      ELSE runs_used = 2 + 2 * Cardinality(DOMAIN cache)
  /\ tests = Cardinality(DOMAIN cache)
       \/ (tests = Cardinality(DOMAIN cache) + 1 /\ budget_exhausted)
  /\ one_minimal \in BOOLEAN /\ budget_exhausted \in BOOLEAN
  /\ stage \in Early \cup {"search"} => ~ one_minimal /\ ~ budget_exhausted
  /\ stage \in Late \/ after # "none" => (one_minimal <=> ~ budget_exhausted)

AllNew == [f \in File |-> "new"]

IsNew(f) == f \in DOMAIN files /\ files[f] = "new"

\* The output directory, stage by stage.
Filed ==
  /\ DOMAIN files \subseteq File
  /\ stage \in Stages
  /\ exit_code \in {-1, 0, 1, 2, 130}
  /\ stage # "exit" => exit_code = -1
  /\ after \in {"none", "holds"}
  /\ stage \notin {"report", "record", "exit"} => after = "none"
  /\ after # "none" => exit_code # 1
  /\ stage \notin {"args", "second", "report", "record", "exit"} => "baseline" \notin DOMAIN files
  /\ stage \notin {"args", "report", "record", "exit"} => "candidate" \notin DOMAIN files
  /\ stage \in {"pair", "second", "report", "record"} => IsNew("reduced_workload.csv")
  /\ stage = "second" => IsNew("baseline")
  /\ stage \in {"report", "record"} => IsNew("baseline") /\ IsNew("candidate")
  /\ stage = "record" => IsNew("walkthrough.md")
  /\ \A f \in {"baseline", "candidate"} \cap DOMAIN files :
       files[f] = files["reduced_workload.csv"]
  /\ IsNew("reduction.json") => exit_code = 0
  /\ exit_code = 0 => files = AllNew

\* The k-th of g chunks of c, and the rank of its last row, as Chunk and Start have them.
Bound(c, g, k) ==
  LET extra == Cardinality(c) % g
  IN  k * (Cardinality(c) \div g) + (IF k < extra THEN k ELSE extra)
ChunkOf(c, g, k) == {p \in c : Bound(c, g, k - 1) < RankIn(c, p) /\ RankIn(c, p) <= Bound(c, g, k)}

\* A set that was tested and does not show the counterexample.
Denied(s) == s \in DOMAIN cache /\ cache[s] # "holds"

\* The second loop has gone through the chunks before the i-th.
Combed ==
  /\ stage = "search" /\ pass = "complement" =>
       \A k \in 1 .. (i - 1) : Denied(cur \ ChunkOf(cur, n, k))
  /\ OneMinimal

RInv == Searching /\ Spending /\ Filed /\ Combed

-----------------------------------------------------------------------------
(* Chunks. *)

\* The bounds of the chunks: from none to all of the rows, and no chunk is empty.
LEMMA BoundsGrow ==
  ASSUME NEW c, IsFiniteSet(c), NEW g \in Nat, 2 <= g, g <= Cardinality(c),
         NEW k \in 1 .. g
  PROVE  /\ Bound(c, g, k - 1) \in Nat /\ Bound(c, g, k) \in Nat
         /\ Bound(c, g, k - 1) < Bound(c, g, k)
         /\ Bound(c, g, k) <= Cardinality(c)
         /\ k = 1 => Bound(c, g, k - 1) = 0 /\ Bound(c, g, k) < Cardinality(c)
<1> DEFINE m == Cardinality(c)
           q == m \div g
           x == m % g
<1>1. m \in Nat
  BY FS_CardinalityType
<1>2. q \in Nat /\ x \in Nat /\ x < g /\ m = g * q + x
  BY <1>1
<1>3. 1 <= q
  <2>1. q # 0
    BY <1>1, <1>2
  <2> QED
    BY <1>2, <2>1
<1>4. k \in Nat /\ 1 <= k /\ k <= g /\ k - 1 \in Nat
  OBVIOUS
<1> HIDE DEF m, q, x
<1>5. (k - 1) * q \in Nat /\ k * q = (k - 1) * q + q
  BY <1>2, <1>4
<1>6. k * q <= g * q
  BY <1>2, <1>4
<1>7. 1 * q = q /\ 0 * q = 0 /\ q < g * q
  BY <1>2, <1>3
<1>8. \A j : Bound(c, g, j) = j * q + (IF j < x THEN j ELSE x)
  BY DEF Bound, m, q, x
<1>9. k * q \in Nat /\ g * q \in Nat
  BY <1>2, <1>4
<1>10. /\ Bound(c, g, k - 1) = (k - 1) * q + (IF k - 1 < x THEN k - 1 ELSE x)
       /\ Bound(c, g, k) = k * q + (IF k < x THEN k ELSE x)
  BY <1>8
<1>11. Bound(c, g, k - 1) \in Nat /\ Bound(c, g, k) \in Nat /\ Bound(c, g, k - 1) < Bound(c, g, k)
  BY <1>2, <1>3, <1>4, <1>5, <1>9, <1>10
<1>12. Bound(c, g, k) <= m
  BY <1>2, <1>4, <1>6, <1>9, <1>10
<1>13. ASSUME k = 1 PROVE Bound(c, g, k - 1) = 0 /\ Bound(c, g, k) < m
  <2>1. Bound(c, g, k - 1) = 0
    BY <1>2, <1>7, <1>10, <1>13
  <2>2. k * q = q
    BY <1>7, <1>13
  <2>3. Bound(c, g, k) < m
    BY <1>2, <1>3, <1>4, <1>7, <1>9, <1>10, <2>2
  <2> QED
    BY <2>1, <2>3
<1> QED
  BY <1>11, <1>12, <1>13 DEF m

\* A chunk is neither empty nor all of the rows.
LEMMA ChunkProper ==
  ASSUME NEW c, c \subseteq Nat, IsFiniteSet(c), NEW g \in Nat, 2 <= g, g <= Cardinality(c),
         NEW k \in 1 .. g
  PROVE  ChunkOf(c, g, k) \subseteq c /\ ChunkOf(c, g, k) # {} /\ ChunkOf(c, g, k) # c
<1> DEFINE lo == Bound(c, g, k - 1)
           hi == Bound(c, g, k)
           m == Cardinality(c)
<1>1. /\ lo \in Nat /\ hi \in Nat /\ lo < hi /\ hi <= m
      /\ k = 1 => lo = 0 /\ hi < m
  BY BoundsGrow
<1>2. m \in Nat
  BY FS_CardinalityType
<1>3. \A p \in c : p \in ChunkOf(c, g, k) <=> lo < RankIn(c, p) /\ RankIn(c, p) <= hi
  BY DEF ChunkOf
<1>4. ChunkOf(c, g, k) \subseteq c
  BY DEF ChunkOf
<1> HIDE DEF lo, hi, m
<1>5. ChunkOf(c, g, k) # {}
  <2>1. hi \in 1 .. m
    BY <1>1, <1>2
  <2>2. PICK p \in c : RankIn(c, p) = hi
    BY <2>1, RankTaken DEF m
  <2> QED
    BY <1>1, <1>3, <2>2
<1>6. ChunkOf(c, g, k) # c
  <2>1. CASE k = 1
    <3>1. m \in 1 .. m
      BY <1>1, <1>2
    <3>2. PICK p \in c : RankIn(c, p) = m
      BY <3>1, RankTaken DEF m
    <3>3. hi < m
      BY <1>1, <2>1
    <3>4. ~ (RankIn(c, p) <= hi)
      BY <1>1, <1>2, <3>2, <3>3
    <3> QED
      BY <1>3, <3>4
  <2>2. CASE k # 1
    <3>1. 1 \in 1 .. m
      BY <1>1, <1>2
    <3>2. PICK p \in c : RankIn(c, p) = 1
      BY <3>1, RankTaken DEF m
    <3>3. k - 1 \in 1 .. g
      BY <2>2
    <3>4. Bound(c, g, (k - 1) - 1) \in Nat /\ Bound(c, g, (k - 1) - 1) < Bound(c, g, k - 1)
      BY <3>3, BoundsGrow
    <3>5. ~ (lo < 1)
      BY <1>1, <3>4 DEF lo
    <3> QED
      BY <1>3, <3>2, <3>5
  <2> QED
    BY <2>1, <2>2
<1> QED
  BY <1>4, <1>5, <1>6

\* As many chunks as rows: each has one row, and every row has one.
LEMMA FinestChunks ==
  ASSUME NEW c, c \subseteq Nat, IsFiniteSet(c), 2 <= Cardinality(c), NEW p \in c
  PROVE  \E k \in 1 .. Cardinality(c) : ChunkOf(c, Cardinality(c), k) = {p}
<1> DEFINE m == Cardinality(c)
           k == RankIn(c, p)
<1>1. m \in Nat
  BY FS_CardinalityType
<1>2. k \in Nat /\ 1 <= k /\ k <= m
  BY RankRange
<1>3. m \div m = 1 /\ m % m = 0
  BY <1>1
<1>4. ASSUME NEW j \in Nat PROVE Bound(c, m, j) = j
  <2>1. Bound(c, m, j) = j * (m \div m) + (IF j < m % m THEN j ELSE m % m)
    BY DEF Bound
  <2>2. ~ (j < 0) /\ j * 1 + 0 = j
    OBVIOUS
  <2> HIDE DEF m
  <2> QED
    BY <1>3, <2>1, <2>2
<1>5. Bound(c, m, k) = k /\ Bound(c, m, k - 1) = k - 1
  <2> HIDE DEF m, k
  <2>1. k - 1 \in Nat
    BY <1>2
  <2> QED
    BY <1>2, <1>4, <2>1
<1>6. \A q \in c : q \in ChunkOf(c, m, k) <=> k - 1 < RankIn(c, q) /\ RankIn(c, q) <= k
  BY <1>5 DEF ChunkOf
<1>7. ASSUME NEW q \in c PROVE q \in ChunkOf(c, m, k) <=> q = p
  <2>1. RankIn(c, q) \in Nat
    BY RankRange
  <2>2. q \in ChunkOf(c, m, k) <=> RankIn(c, q) = k
    <3> HIDE DEF k, m
    <3> QED
      BY <1>2, <1>6, <2>1
  <2>3. RankIn(c, q) = k => q = p
    BY RankDistinct
  <2> QED
    BY <2>2, <2>3
<1>8. ChunkOf(c, m, k) = {p}
  <2>1. ChunkOf(c, m, k) \subseteq c
    BY DEF ChunkOf
  <2> HIDE DEF m, k
  <2> QED
    BY <1>7, <2>1
<1>9. k \in 1 .. m
  BY <1>1, <1>2
<1> QED
  BY <1>8, <1>9

-----------------------------------------------------------------------------
(* One test, and the head of the loop. *)

\* What is tested is a proper part of the rows kept, and not empty.
LEMMA TestedProper ==
  ASSUME Searching, stage = "search"
  PROVE  /\ Tested \subseteq rows /\ Tested # {} /\ Tested # rows
         /\ i \in 1 .. n
         /\ pass = "subset" => Tested = ChunkOf(cur, n, i)
         /\ pass = "complement" => Tested = cur \ ChunkOf(cur, n, i)
<1>1. /\ cur \subseteq Nat /\ IsFiniteSet(cur) /\ cur \subseteq rows
      /\ n \in Nat /\ 2 <= n /\ n <= Cardinality(cur)
      /\ i \in 1 .. n
      /\ pass \in {"subset", "complement"}
  <2>1. /\ IsFiniteSet(rows) /\ rows \subseteq Nat /\ cur \subseteq rows
        /\ n \in Nat /\ 2 <= n /\ n <= Cardinality(cur)
        /\ i \in Nat /\ 1 <= i /\ i <= n
        /\ pass \in {"subset", "complement"}
    BY DEF Searching
  <2>2. IsFiniteSet(cur)
    BY <2>1, FS_Subset
  <2>3. i \in 1 .. n
    BY <2>1
  <2> QED
    BY <2>1, <2>2, <2>3
<1>2. Chunk = ChunkOf(cur, n, i)
  BY DEF Chunk, ChunkOf, Start, Bound, Rank, RankIn
<1>3. Chunk \subseteq cur /\ Chunk # {} /\ Chunk # cur
  BY <1>1, <1>2, ChunkProper
<1> QED
  BY <1>1, <1>2, <1>3 DEF Tested

\* A test leaves the outcomes of earlier ones, and its own is there; a new one costs a
\* pair of runs.
LEMMA TestRecords ==
  ASSUME Searching, stage = "search", NEW r, Test(r)
  PROVE  /\ IsFiniteSet(DOMAIN cache')
         /\ {} \notin DOMAIN cache' /\ rows \notin DOMAIN cache'
         /\ \A s \in DOMAIN cache : s \in DOMAIN cache' /\ cache'[s] = cache[s]
         /\ Tested \in DOMAIN cache' /\ cache'[Tested] = r
         /\ \/ /\ Cardinality(DOMAIN cache') = Cardinality(DOMAIN cache)
               /\ DOMAIN cache' = DOMAIN cache
               /\ tests' = tests /\ runs_used' = runs_used
            \/ /\ Cardinality(DOMAIN cache') = Cardinality(DOMAIN cache) + 1
               /\ tests' = tests + 1 /\ runs_used' = runs_used + 2
               /\ runs_used + 2 <= max_runs
<1>1. IsFiniteSet(DOMAIN cache) /\ {} \notin DOMAIN cache /\ rows \notin DOMAIN cache
  BY DEF Searching
<1>2. Tested # {} /\ Tested # rows
  BY TestedProper
<1>3. CASE Tested \in DOMAIN cache /\ r = cache[Tested] /\ UNCHANGED <<cache, tests, runs_used>>
  BY <1>1, <1>3
<1>4. CASE /\ Tested \notin DOMAIN cache
           /\ PairAffordable
           /\ cache' = [s \in DOMAIN cache \cup {Tested} |-> IF s = Tested THEN r ELSE cache[s]]
           /\ tests' = tests + 1 /\ runs_used' = runs_used + 2
  <2> DEFINE t == Tested
  <2>1. cache' = [s \in DOMAIN cache \cup {t} |-> IF s = t THEN r ELSE cache[s]]
    BY <1>4
  <2>2. DOMAIN cache' = DOMAIN cache \cup {t}
    BY <2>1
  <2>3. /\ IsFiniteSet(DOMAIN cache')
        /\ Cardinality(DOMAIN cache') = Cardinality(DOMAIN cache) + 1
    BY <1>1, <1>4, <2>2, FS_AddElement
  <2>4. \A s \in DOMAIN cache : cache'[s] = cache[s]
    BY <1>4, <2>1
  <2>5. t \in DOMAIN cache' /\ cache'[t] = r
    BY <1>4, <2>1
  <2>6. runs_used + 2 <= max_runs
    BY <1>4 DEF PairAffordable
  <2> HIDE DEF t
  <2>7. {} \notin DOMAIN cache' /\ rows \notin DOMAIN cache'
    BY <1>1, <1>2, <2>2 DEF t
  <2> QED
    BY <1>4, <2>2, <2>3, <2>4, <2>5, <2>6, <2>7 DEF t
<1> QED
  BY <1>3, <1>4 DEF Test

\* The search goes on with at least two rows and no more chunks than rows, or ends.
LEMMA Continues ==
  ASSUME NEW c, IsFiniteSet(c), NEW g \in Nat, 2 <= g, Continue(c, g)
  PROVE  /\ cur' = c /\ pass' = "subset" /\ i' = 1
         /\ n' \in Nat
         /\ \/ /\ stage' = "search" /\ ~ one_minimal' /\ one_minimal' \in BOOLEAN
               /\ 2 <= n' /\ n' <= Cardinality(c)
            \/ /\ stage' = "final" /\ one_minimal' /\ one_minimal' \in BOOLEAN
               /\ \A p \in c : c = {p}
<1>1. Cardinality(c) \in Nat
  BY FS_CardinalityType
<1>2. cur' = c /\ pass' = "subset" /\ i' = 1
  BY DEF Continue
<1>3. n' \in Nat
  BY <1>1 DEF Continue, Granularity
<1>4. CASE Cardinality(c) >= 2
  <2>0. ~ (Cardinality(c) < 2)
    BY <1>1, <1>4
  <2>1. stage' = "search" /\ one_minimal' = (Cardinality(c) < 2)
    BY <2>0 DEF Continue
  <2>2. 2 <= n' /\ n' <= Cardinality(c)
    <3>1. n' = Granularity(c, g)
      BY <1>4 DEF Continue
    <3> QED
      BY <1>1, <1>4, <3>1 DEF Granularity
  <2>3. ~ one_minimal' /\ one_minimal' \in BOOLEAN
    <3>1. (Cardinality(c) < 2) = FALSE
      BY <2>0
    <3>2. one_minimal' = FALSE
      BY <2>1, <3>1, Zenon
    <3> QED
      BY <3>2
  <2> QED
    BY <1>2, <1>3, <2>1, <2>2, <2>3
<1>5. CASE ~ (Cardinality(c) >= 2)
  <2>1. Cardinality(c) < 2
    BY <1>1, <1>5
  <2>2. stage' = "final" /\ one_minimal' /\ one_minimal' \in BOOLEAN
    BY <2>1 DEF Continue
  <2>3. Cardinality(c) = 0 \/ Cardinality(c) = 1
    BY <1>1, <2>1
  <2>4. \A p \in c : c = {p}
    BY <2>3, FS_EmptySet, FS_Singleton
  <2> QED
    BY <1>2, <1>3, <2>2, <2>4
<1> QED
  BY <1>4, <1>5

-----------------------------------------------------------------------------
(* The search. *)

\* A step that leaves the search alone.
LEMMA SearchingQuiet ==
  ASSUME Searching, rows' = rows, cur' = cur, n' = n, pass' = pass, i' = i, cache' = cache,
         stage' \in Stages, stage' \in Early => stage \in Early,
         stage' = "search" => stage = "search"
  PROVE  Searching'
  BY DEF Searching

\* A step of the search that tests, and goes on with c.
LEMMA SearchingGoesOn ==
  ASSUME Searching, stage = "search", NEW r, Test(r), rows' = rows,
         NEW c, c \subseteq rows,
         c # rows => c \in DOMAIN cache' /\ cache'[c] = "holds",
         NEW g \in Nat, 2 <= g, Continue(c, g)
  PROVE  Searching'
<1>1. IsFiniteSet(rows) /\ rows \subseteq Nat
  BY DEF Searching
<1>2. IsFiniteSet(c)
  BY <1>1, FS_Subset
<1>3. /\ IsFiniteSet(DOMAIN cache')
      /\ {} \notin DOMAIN cache' /\ rows \notin DOMAIN cache'
  BY TestRecords
<1>4. /\ cur' = c /\ pass' = "subset" /\ i' = 1
      /\ n' \in Nat
      /\ \/ stage' = "search" /\ 2 <= n' /\ n' <= Cardinality(c)
         \/ stage' = "final"
  BY <1>2, Continues
<1>5. stage' \in Stages /\ stage' \notin Early
  BY <1>4 DEF Stages, Early, Late
<1>6. stage' = "search" => 2 <= n' /\ n' <= Cardinality(cur') /\ 1 <= i' /\ i' <= n'
  BY <1>4
<1> QED
  BY <1>1, <1>3, <1>4, <1>5, <1>6 DEF Searching

\* Every step keeps the rows under test a nonempty set that holds.
LEMMA SearchingStep ==
  ASSUME Searching, [Next]_vars
  PROVE  Searching'
<1>0. stage \in Stages /\ n \in Nat /\ i \in Nat /\ cur \subseteq rows
  BY DEF Searching
<1>1. CASE Refuse \/ Prepare \/ LoadRows \/ Interrupted
  <2>1. /\ rows' = rows /\ cur' = cur /\ n' = n /\ pass' = pass /\ i' = i /\ cache' = cache
        /\ stage' \in {"exit", "load", "full"}
        /\ stage' # "exit" => stage \in Early
    BY <1>1 DEF Refuse, Prepare, LoadRows, Interrupted, input, search, Early
  <2> QED
    BY <2>1, SearchingQuiet DEF Stages, Early
<1>2. CASE WriteReduced \/ FinalBaseline \/ FinalPair \/ WriteReport \/ Exhausted
  <2>1. /\ rows' = rows /\ cur' = cur /\ n' = n /\ pass' = pass /\ i' = i /\ cache' = cache
        /\ stage' \in {"exit"} \cup Late
    BY <1>2 DEF WriteReduced, FinalBaseline, FinalPair, WriteReport, Exhausted, input, search, Late
  <2> QED
    BY <2>1, SearchingQuiet DEF Stages, Early, Late
<1>3. CASE FullRun
  <2>1. rows' = rows /\ cache' = cache /\ cur = rows /\ n = 2 /\ stage = "full"
    BY <1>3 DEF FullRun, input, Searching, Early
  <2>2. CASE Continue(cur, n)
    <3>1. IsFiniteSet(cur)
      BY <2>1 DEF Searching
    <3>2. /\ cur' = cur /\ pass' = "subset" /\ i' = 1
          /\ n' \in Nat
          /\ \/ stage' = "search" /\ 2 <= n' /\ n' <= Cardinality(cur)
             \/ stage' = "final"
      BY <2>1, <2>2, <3>1, Continues
    <3>3. stage' \in Stages /\ stage' \notin Early
      BY <3>2 DEF Stages, Early, Late
    <3>4. stage' = "search" => 2 <= n' /\ n' <= Cardinality(cur') /\ 1 <= i' /\ i' <= n'
      BY <3>2
    <3> QED
      BY <2>1, <3>2, <3>3, <3>4 DEF Searching
  <2>3. CASE stage' = "exit" /\ UNCHANGED search
    BY <2>1, <2>3, SearchingQuiet DEF search, Stages, Early
  <2> QED
    BY <1>3, <2>2, <2>3 DEF FullRun
<1>4. CASE Reduced
  <2>1. PICK r \in Outcome : Test(r) /\ Holds(r)
    BY <1>4 DEF Reduced
  <2>2. /\ stage = "search" /\ rows' = rows
        /\ Continue(Tested, IF pass = "subset" \/ n <= 3 THEN 2 ELSE n - 1)
    BY <1>4 DEF Reduced, input
  <2>3. Tested \subseteq rows /\ Tested \in DOMAIN cache' /\ cache'[Tested] = "holds"
    BY <2>1, <2>2, TestedProper, TestRecords DEF Holds
  <2>4. PICK g \in Nat : 2 <= g /\ Continue(Tested, g)
    <3> DEFINE g == IF pass = "subset" \/ n <= 3 THEN 2 ELSE n - 1
    <3>1. g \in Nat /\ 2 <= g
      BY <1>0
    <3> QED
      BY <2>2, <3>1
  <2> QED
    BY <2>1, <2>2, <2>3, <2>4, SearchingGoesOn
<1>5. CASE NotReduced
  <2>1. PICK r \in Outcome : Test(r) /\ ~ Holds(r)
    BY <1>5 DEF NotReduced
  <2>2. stage = "search" /\ rows' = rows
    BY <1>5 DEF NotReduced, input
  <2>3. /\ IsFiniteSet(DOMAIN cache')
        /\ {} \notin DOMAIN cache' /\ rows \notin DOMAIN cache'
        /\ \A s \in DOMAIN cache : s \in DOMAIN cache' /\ cache'[s] = cache[s]
    BY <2>1, <2>2, TestRecords
  <2>4. 2 <= n /\ n <= Cardinality(cur) /\ 1 <= i /\ i <= n
    BY <2>2 DEF Searching
  <2>5. cur # rows => cur \in DOMAIN cache' /\ cache'[cur] = "holds"
    BY <2>3 DEF Searching
  <2>6. CASE /\ i < n /\ i' = i + 1
             /\ UNCHANGED <<cur, n, pass, stage, one_minimal>>
    <3>1. i' \in Nat /\ 1 <= i' /\ i' <= n
      BY <1>0, <2>4, <2>6
    <3>2. cur' = cur /\ n' = n /\ pass' = pass /\ stage' = stage
      BY <2>6
    <3> QED
      BY <2>2, <2>3, <2>4, <2>5, <3>1, <3>2 DEF Searching, Early
  <2>7. CASE /\ pass' = "complement" /\ i' = 1
             /\ UNCHANGED <<cur, n, stage, one_minimal>>
    <3>1. i' \in Nat /\ 1 <= i' /\ i' <= n
      BY <1>0, <2>4, <2>7
    <3>2. cur' = cur /\ n' = n /\ pass' = "complement" /\ stage' = stage
      BY <2>7
    <3> QED
      BY <2>2, <2>3, <2>4, <2>5, <3>1, <3>2 DEF Searching, Early
  <2>8. CASE Continue(cur, Finer)
    <3>1. Finer \in Nat /\ 2 <= Finer
      BY <1>0, <2>4 DEF Finer
    <3> QED
      BY <1>0, <2>1, <2>2, <2>5, <2>8, <3>1, SearchingGoesOn
  <2>9. CASE stage' = "final" /\ UNCHANGED search
    <3>1. cur' = cur /\ n' = n /\ pass' = pass /\ i' = i
      BY <2>9 DEF search
    <3>2. stage' \in Stages /\ stage' \notin Early /\ stage' # "search"
      BY <2>9 DEF Stages, Early, Late
    <3> QED
      BY <2>2, <2>3, <2>5, <3>1, <3>2 DEF Searching
  <2> QED
    BY <1>5, <2>6, <2>7, <2>8, <2>9 DEF NotReduced
<1>6. CASE UNCHANGED vars
  <2>1. /\ rows' = rows /\ cur' = cur /\ n' = n /\ pass' = pass /\ i' = i /\ cache' = cache
        /\ stage' = stage
    BY <1>6 DEF vars
  <2> QED
    BY <1>0, <2>1, SearchingQuiet
<1> QED
  BY <1>1, <1>2, <1>3, <1>4, <1>5, <1>6 DEF Next

-----------------------------------------------------------------------------
(* The budgets. *)

\* A step that spends nothing: the search has not begun, or is over.
LEMMA SpendingQuiet ==
  ASSUME Spending, max_runs' = max_runs, cache' = cache, tests' = tests, runs_used' = runs_used,
         one_minimal' = one_minimal, budget_exhausted' = budget_exhausted,
         stage' \in Early => stage \in Early,
         stage' = "search" => stage = "search",
         stage' \in Late => stage \in Late,
         after' # "none" => after # "none" \/ stage \in Late
  PROVE  Spending'
  BY DEF Spending

\* A test that says no more than its outcome: the search goes on, or is minimal.
LEMMA SpendingTest ==
  ASSUME Searching, Spending, stage = "search", NEW r, Test(r),
         UNCHANGED <<max_runs, budget_exhausted, after>>,
         \/ stage' = "search" /\ ~ one_minimal' /\ one_minimal' \in BOOLEAN
         \/ stage' = "final" /\ one_minimal' /\ one_minimal' \in BOOLEAN,
         after = "none"
  PROVE  Spending'
<1>1. /\ max_runs \in Nat /\ 2 <= max_runs /\ tests \in Nat /\ runs_used \in Nat
      /\ runs_used <= max_runs /\ runs_used # 0
      /\ budget_exhausted \in BOOLEAN /\ ~ budget_exhausted
      /\ tests = Cardinality(DOMAIN cache)
      /\ runs_used = 2 + 2 * Cardinality(DOMAIN cache)
  BY DEF Spending
<1>2. max_runs' = max_runs /\ budget_exhausted' = budget_exhausted /\ after' = "none"
  OBVIOUS
<1> DEFINE m == Cardinality(DOMAIN cache)
           m1 == Cardinality(DOMAIN cache')
<1>3. m \in Nat
  BY FS_CardinalityType DEF Searching
<1>4. \/ m1 = m /\ tests' = tests /\ runs_used' = runs_used
      \/ m1 = m + 1 /\ tests' = tests + 1 /\ runs_used' = runs_used + 2 /\ runs_used + 2 <= max_runs
  BY TestRecords
<1>5. /\ tests' \in Nat /\ runs_used' \in Nat /\ runs_used' # 0 /\ runs_used' <= max_runs
      /\ tests' = m1 /\ runs_used' = 2 + 2 * m1
  <2> HIDE DEF m, m1
  <2> QED
    BY <1>1, <1>3, <1>4 DEF m
<1>6. ~ budget_exhausted' /\ budget_exhausted' \in BOOLEAN
  BY <1>1, <1>2
<1>7. stage' \notin Early
  BY DEF Early
<1>8. one_minimal' \in BOOLEAN
  OBVIOUS
<1>9. stage' = "search" => ~ one_minimal'
  OBVIOUS
<1>10. stage' \in Late \/ after' # "none" => one_minimal'
  BY <1>2 DEF Late
<1> QED
  BY <1>1, <1>2, <1>5, <1>6, <1>7, <1>8, <1>9, <1>10 DEF Spending

\* Every step keeps runs and tests in step with the cache.
LEMMA SpendingStep ==
  ASSUME Searching, Spending, Filed, [Next]_vars
  PROVE  Spending'
<1>0. stage \in Stages
  BY DEF Searching
<1>1. CASE Refuse \/ Prepare \/ LoadRows \/ Interrupted
  <2>1. /\ max_runs' = max_runs /\ cache' = cache /\ tests' = tests /\ runs_used' = runs_used
        /\ one_minimal' = one_minimal /\ budget_exhausted' = budget_exhausted /\ after' = after
        /\ stage' \in {"exit", "load", "full"}
        /\ stage' # "exit" => stage \in Early
    BY <1>1 DEF Refuse, Prepare, LoadRows, Interrupted, input, Early
  <2>2. stage' \in Early => stage \in Early
    BY <2>1 DEF Early
  <2>3. stage' # "search" /\ stage' \notin Late
    BY <2>1 DEF Late
  <2> QED
    BY <2>1, <2>2, <2>3, SpendingQuiet
<1>2. CASE WriteReduced \/ FinalBaseline \/ FinalPair \/ WriteReport
  <2>1. /\ max_runs' = max_runs /\ cache' = cache /\ tests' = tests /\ runs_used' = runs_used
        /\ one_minimal' = one_minimal /\ budget_exhausted' = budget_exhausted
        /\ stage \in Late /\ stage' \in Late \cup {"exit"}
    BY <1>2 DEF WriteReduced, FinalBaseline, FinalPair, WriteReport, input, Late
  <2>2. stage' \notin Early /\ stage' # "search"
    BY <2>1 DEF Early, Late
  <2> QED
    BY <2>1, <2>2, SpendingQuiet
<1>3. CASE FullRun
  <2>1. /\ stage = "full" /\ stage \in Early
        /\ max_runs' = max_runs /\ cache' = cache /\ tests' = tests /\ runs_used' = 2
        /\ budget_exhausted' = budget_exhausted /\ after' = after
    BY <1>3 DEF FullRun, input, Early
  <2>2. after = "none"
    BY <2>1 DEF Filed
  <2>3. /\ max_runs \in Nat /\ 2 <= max_runs /\ tests \in Nat
        /\ DOMAIN cache = {} /\ tests = 0
        /\ ~ one_minimal /\ ~ budget_exhausted
        /\ one_minimal \in BOOLEAN /\ budget_exhausted \in BOOLEAN
    BY <2>1 DEF Spending
  <2>4. DOMAIN cache' = {} /\ Cardinality(DOMAIN cache') = 0
    BY <2>1, <2>3, FS_EmptySet
  <2>5. \/ stage' = "search" /\ ~ one_minimal' /\ one_minimal' \in BOOLEAN
        \/ stage' = "final" /\ one_minimal' /\ one_minimal' \in BOOLEAN
        \/ stage' = "exit" /\ ~ one_minimal' /\ one_minimal' \in BOOLEAN
    <3>1. CASE Continue(cur, n)
      <4>1. IsFiniteSet(cur) /\ n = 2
        BY <2>1, FS_Subset DEF Searching
      <4> QED
        BY <3>1, <4>1, Continues
    <3>2. CASE stage' = "exit" /\ UNCHANGED one_minimal
      BY <2>3, <3>2
    <3> QED
      BY <1>3, <3>1, <3>2 DEF FullRun
  <2>6. ~ budget_exhausted' /\ budget_exhausted' \in BOOLEAN /\ after' = "none"
    BY <2>1, <2>2, <2>3
  <2>7. /\ max_runs' \in Nat /\ 2 <= max_runs' /\ tests' \in Nat /\ runs_used' \in Nat
        /\ runs_used' # 0 /\ runs_used' <= max_runs'
        /\ runs_used' = 2 + 2 * Cardinality(DOMAIN cache')
        /\ tests' = Cardinality(DOMAIN cache')
    BY <2>1, <2>3, <2>4
  <2>8. /\ stage' \notin Early
        /\ stage' = "search" => ~ one_minimal'
        /\ stage' \in Late \/ after' # "none" => one_minimal'
        /\ one_minimal' \in BOOLEAN
    BY <2>5, <2>6 DEF Early, Late
  <2> QED
    BY <2>6, <2>7, <2>8 DEF Spending
<1>4. CASE Reduced
  <2>1. PICK r \in Outcome : Test(r)
    BY <1>4 DEF Reduced
  <2>2. /\ stage = "search"
        /\ UNCHANGED <<max_runs, budget_exhausted, after>>
        /\ Continue(Tested, IF pass = "subset" \/ n <= 3 THEN 2 ELSE n - 1)
    BY <1>4 DEF Reduced, input
  <2>3. IsFiniteSet(Tested)
    <3>1. IsFiniteSet(rows)
      BY DEF Searching
    <3>2. Tested \in SUBSET rows
      BY <2>2, TestedProper
    <3> QED
      BY <3>1, <3>2, FS_Subset
  <2>4. PICK g \in Nat : 2 <= g /\ Continue(Tested, g)
    <3> DEFINE g == IF pass = "subset" \/ n <= 3 THEN 2 ELSE n - 1
    <3>1. n \in Nat
      BY DEF Searching
    <3>2. g \in Nat /\ 2 <= g
      BY <3>1
    <3> QED
      BY <2>2, <3>2
  <2>5. \/ stage' = "search" /\ ~ one_minimal' /\ one_minimal' \in BOOLEAN
        \/ stage' = "final" /\ one_minimal' /\ one_minimal' \in BOOLEAN
    BY <2>3, <2>4, Continues
  <2>6. after = "none"
    BY <2>2 DEF Filed
  <2> QED
    BY <2>1, <2>2, <2>5, <2>6, SpendingTest
<1>5. CASE NotReduced
  <2>1. PICK r \in Outcome : Test(r)
    BY <1>5 DEF NotReduced
  <2>2. /\ stage = "search"
        /\ UNCHANGED <<max_runs, budget_exhausted, after>>
    BY <1>5 DEF NotReduced, input
  <2>3. IsFiniteSet(cur) /\ n \in Nat /\ 2 <= n /\ ~ one_minimal /\ one_minimal \in BOOLEAN
    BY <2>2, FS_Subset DEF Searching, Spending
  <2>4. \/ stage' = "search" /\ ~ one_minimal' /\ one_minimal' \in BOOLEAN
        \/ stage' = "final" /\ one_minimal' /\ one_minimal' \in BOOLEAN
    <3>1. CASE UNCHANGED <<stage, one_minimal>>
      BY <2>2, <2>3, <3>1
    <3>2. CASE Continue(cur, Finer)
      <4>1. Finer \in Nat /\ 2 <= Finer
        BY <2>3 DEF Finer
      <4> QED
        BY <2>3, <3>2, <4>1, Continues
    <3>3. CASE one_minimal' = TRUE /\ stage' = "final"
      BY <3>3
    <3> QED
      BY <1>5, <3>1, <3>2, <3>3 DEF NotReduced
  <2>5. after = "none"
    BY <2>2 DEF Filed
  <2> QED
    BY <2>1, <2>2, <2>4, <2>5, SpendingTest
<1>6. CASE Exhausted
  <2>1. /\ stage = "search" /\ stage' = "final" /\ budget_exhausted' = TRUE
        /\ max_runs' = max_runs /\ cache' = cache /\ runs_used' = runs_used
        /\ one_minimal' = one_minimal
        /\ tests' = tests \/ tests' = tests + 1
    BY <1>6 DEF Exhausted, input
  <2>2. /\ max_runs \in Nat /\ 2 <= max_runs /\ tests \in Nat /\ runs_used \in Nat
        /\ runs_used <= max_runs /\ runs_used # 0
        /\ one_minimal \in BOOLEAN /\ ~ one_minimal
        /\ tests = Cardinality(DOMAIN cache)
        /\ runs_used = 2 + 2 * Cardinality(DOMAIN cache)
    BY <2>1 DEF Spending
  <2>3. /\ tests' \in Nat
        /\ \/ tests' = Cardinality(DOMAIN cache')
           \/ tests' = Cardinality(DOMAIN cache') + 1 /\ budget_exhausted'
    BY <2>1, <2>2
  <2>4. stage' \notin Early /\ stage' # "search" /\ budget_exhausted' /\ budget_exhausted' \in BOOLEAN
    BY <2>1 DEF Early
  <2>5. ~ one_minimal' /\ one_minimal' \in BOOLEAN
    BY <2>1, <2>2
  <2> QED
    BY <2>1, <2>2, <2>3, <2>4, <2>5 DEF Spending
<1>7. CASE UNCHANGED vars
  <2>1. /\ max_runs' = max_runs /\ cache' = cache /\ tests' = tests /\ runs_used' = runs_used
        /\ one_minimal' = one_minimal /\ budget_exhausted' = budget_exhausted /\ after' = after
        /\ stage' = stage
    BY <1>7 DEF vars
  <2> QED
    BY <2>1, SpendingQuiet
<1> QED
  BY <1>1, <1>2, <1>3, <1>4, <1>5, <1>6, <1>7 DEF Next

-----------------------------------------------------------------------------
(* The output directory. *)

\* A step that writes no file.
LEMMA FiledQuiet ==
  ASSUME Filed, files' = files, after' = after,
         stage' \in Stages, exit_code' \in {-1, 0, 1, 2, 130},
         stage' # "exit" => exit_code' = exit_code /\ stage # "exit",
         stage' = "exit" => \/ stage = "exit" /\ exit_code' = exit_code
                            \/ exit_code' = 130 /\ stage # "exit"
                            \/ exit_code' \in {1, 2} /\ stage \in Early,
         stage' = "args" => stage = "args",
         stage' \in {"second", "report", "record"} => stage' = stage,
         stage' = "pair" => stage = "pair",
         stage' \in {"load", "full", "search", "final"} =>
           stage \in {"load", "full", "search", "final"}
  PROVE  Filed'
<1>1. \A f : IsNew(f)' <=> IsNew(f)
  BY DEF IsNew
<1>2. after' # "none" => exit_code' # 1
  BY DEF Filed, Early
<1>3. stage' \notin {"report", "record", "exit"} => after' = "none"
  BY DEF Filed, Stages, Early, Late
<1>4. /\ IsNew("reduction.json") => exit_code' = 0
      /\ exit_code' = 0 => files' = AllNew
  BY DEF Filed, Early
<1>5. /\ stage' \notin {"args", "second", "report", "record", "exit"} =>
           "baseline" \notin DOMAIN files'
      /\ stage' \notin {"args", "report", "record", "exit"} => "candidate" \notin DOMAIN files'
  BY DEF Filed, Stages, Early, Late
<1>6. /\ stage' # "exit" => exit_code' = -1
      /\ stage' \in {"pair", "second", "report", "record"} => stage' = stage
  BY DEF Filed
<1> QED
  BY <1>1, <1>2, <1>3, <1>4, <1>5, <1>6 DEF Filed

\* Every step keeps the files what the exit code will say of them.
LEMMA FiledStep ==
  ASSUME Searching, Filed, [Next]_vars
  PROVE  Filed'
<1>0. stage \in Stages /\ exit_code \in {-1, 0, 1, 2, 130}
  BY DEF Filed
<1>1. CASE Refuse \/ LoadRows
  <2>1. /\ files' = files /\ after' = after
        /\ stage \in {"args", "load"}
        /\ \/ stage' = "exit" /\ exit_code' = 1
           \/ stage' = "full" /\ stage = "load" /\ exit_code' = exit_code
    BY <1>1 DEF Refuse, LoadRows
  <2> QED
    BY <1>0, <2>1, FiledQuiet DEF Stages, Early
<1>2. CASE Interrupted
  <2>1. files' = files /\ after' = after /\ stage # "exit" /\ stage' = "exit" /\ exit_code' = 130
    BY <1>2 DEF Interrupted
  <2> QED
    BY <1>0, <2>1, FiledQuiet DEF Stages, Early
<1>3. CASE FullRun
  <2>1. /\ files' = files /\ after' = after /\ stage = "full"
        /\ \/ stage' \in {"search", "final"} /\ exit_code' = exit_code
           \/ stage' = "exit" /\ exit_code' \in {1, 2}
    BY <1>3 DEF FullRun, Continue
  <2> QED
    BY <1>0, <2>1, FiledQuiet DEF Stages, Early, Late
<1>4. CASE Reduced \/ NotReduced \/ Exhausted
  <2>1. /\ files' = files /\ after' = after /\ stage = "search" /\ exit_code' = exit_code
        /\ stage' \in {"search", "final"}
    BY <1>4 DEF Reduced, NotReduced, Exhausted, Continue
  <2> QED
    BY <1>0, <2>1, FiledQuiet DEF Stages, Early, Late
<1>5. CASE Prepare
  <2>1. files' = Cleared(files) /\ stage = "args" /\ stage' = "load"
        /\ exit_code' = exit_code /\ after' = after
    BY <1>5 DEF Prepare
  <2>2. /\ DOMAIN files' = DOMAIN files \ {"baseline", "candidate"}
        /\ \A f \in DOMAIN files' : files'[f] = files[f]
    BY <2>1 DEF Cleared
  <2>3. DOMAIN files \subseteq File /\ exit_code = -1 /\ after = "none"
        /\ ~ IsNew("reduction.json")
    BY <2>1 DEF Filed
  <2>4. ~ IsNew("reduction.json")'
    BY <2>2, <2>3 DEF IsNew
  <2> QED
    BY <2>1, <2>2, <2>3, <2>4 DEF Filed, Stages, Early, File
<1>6. CASE WriteReduced
  <2>1. /\ stage = "final" /\ stage' = "pair"
        /\ exit_code' = exit_code /\ after' = after
        /\ files' = [f \in DOMAIN files \cup {"reduced_workload.csv"} |->
                       IF f \in {"reduced_workload.csv"} THEN "new" ELSE files[f]]
    BY <1>6 DEF WriteReduced, Written
  <2>2. /\ DOMAIN files' = DOMAIN files \cup {"reduced_workload.csv"}
        /\ \A f \in DOMAIN files : f # "reduced_workload.csv" => files'[f] = files[f]
        /\ files'["reduced_workload.csv"] = "new"
    BY <2>1
  <2>3. /\ DOMAIN files \subseteq File /\ exit_code = -1 /\ after = "none"
        /\ ~ IsNew("reduction.json")
        /\ "baseline" \notin DOMAIN files /\ "candidate" \notin DOMAIN files
    BY <2>1 DEF Filed
  <2>4. IsNew("reduced_workload.csv")' /\ ~ IsNew("reduction.json")'
    BY <2>2, <2>3 DEF IsNew
  <2> QED
    BY <2>1, <2>2, <2>3, <2>4 DEF Filed, Stages, Late, File
<1>7. CASE FinalBaseline
  <2>1. /\ stage = "pair" /\ stage' = "second"
        /\ exit_code' = exit_code /\ after' = after
        /\ files' = [f \in DOMAIN files \cup {"baseline"} |->
                       IF f \in {"baseline"} THEN "new" ELSE files[f]]
    BY <1>7 DEF FinalBaseline, Written
  <2>2. /\ DOMAIN files' = DOMAIN files \cup {"baseline"}
        /\ \A f \in DOMAIN files : f # "baseline" => files'[f] = files[f]
        /\ files'["baseline"] = "new"
    BY <2>1
  <2>3. /\ DOMAIN files \subseteq File /\ exit_code = -1 /\ after = "none"
        /\ ~ IsNew("reduction.json") /\ IsNew("reduced_workload.csv")
        /\ "candidate" \notin DOMAIN files
    BY <2>1 DEF Filed
  <2>4. /\ IsNew("reduced_workload.csv")' /\ ~ IsNew("reduction.json")' /\ IsNew("baseline")'
        /\ "candidate" \notin DOMAIN files'
    BY <2>2, <2>3 DEF IsNew
  <2>5. files'["reduced_workload.csv"] = "new"
    BY <2>4 DEF IsNew
  <2>6. DOMAIN files' \subseteq File
    BY <2>2, <2>3 DEF File
  <2> QED
    BY <2>1, <2>2, <2>3, <2>4, <2>5, <2>6 DEF Filed, Stages, Late
<1>8. CASE FinalPair
  <2>1. /\ stage = "second"
        /\ exit_code' = exit_code \/ exit_code' = 1
        /\ after' = IF cur = rows THEN "holds" ELSE cache[cur]
        /\ files' = [f \in DOMAIN files \cup {"candidate"} |->
                       IF f \in {"candidate"} THEN "new" ELSE files[f]]
        /\ \/ after' = "error" /\ stage' = "exit" /\ exit_code' = 1
           \/ after' # "error" /\ stage' = "report" /\ UNCHANGED exit_code
    BY <1>8 DEF FinalPair, Written
  <2>2. after' = "holds"
    BY <2>1 DEF Searching
  <2>3. stage' = "report" /\ exit_code' = exit_code
    BY <2>1, <2>2
  <2>4. /\ DOMAIN files' = DOMAIN files \cup {"candidate"}
        /\ \A f \in DOMAIN files : f # "candidate" => files'[f] = files[f]
        /\ files'["candidate"] = "new"
    BY <2>1
  <2>5. /\ DOMAIN files \subseteq File /\ exit_code = -1
        /\ ~ IsNew("reduction.json") /\ IsNew("reduced_workload.csv") /\ IsNew("baseline")
    BY <2>1 DEF Filed
  <2>6. /\ IsNew("reduced_workload.csv")' /\ ~ IsNew("reduction.json")'
        /\ IsNew("baseline")' /\ IsNew("candidate")'
    BY <2>4, <2>5 DEF IsNew
  <2>7. files'["reduced_workload.csv"] = "new" /\ files'["baseline"] = "new"
    BY <2>6 DEF IsNew
  <2>8. DOMAIN files' \subseteq File
    BY <2>4, <2>5 DEF File
  <2> QED
    BY <2>2, <2>3, <2>4, <2>5, <2>6, <2>7, <2>8 DEF Filed, Stages, Late
<1>9. CASE WriteReport /\ stage = "report"
  <2>1. /\ stage' = "record" /\ exit_code' = exit_code /\ after' = after
        /\ files' = [f \in DOMAIN files \cup {"walkthrough.md"} |->
                       IF f \in {"walkthrough.md"} THEN "new" ELSE files[f]]
    BY <1>9 DEF WriteReport, Written
  <2>2. /\ DOMAIN files' = DOMAIN files \cup {"walkthrough.md"}
        /\ \A f \in DOMAIN files : f # "walkthrough.md" => files'[f] = files[f]
        /\ files'["walkthrough.md"] = "new"
    BY <2>1
  <2>3. /\ DOMAIN files \subseteq File /\ exit_code = -1
        /\ ~ IsNew("reduction.json") /\ IsNew("reduced_workload.csv")
        /\ IsNew("baseline") /\ IsNew("candidate")
        /\ after \in {"none", "holds"}
    BY <1>9 DEF Filed
  <2>4. /\ IsNew("reduced_workload.csv")' /\ ~ IsNew("reduction.json")'
        /\ IsNew("baseline")' /\ IsNew("candidate")' /\ IsNew("walkthrough.md")'
    BY <2>2, <2>3 DEF IsNew
  <2>5. \A f \in {"baseline", "candidate"} : files'[f] = files'["reduced_workload.csv"]
    BY <2>4 DEF IsNew
  <2>6. DOMAIN files' \subseteq File
    BY <2>2, <2>3 DEF File
  <2> QED
    BY <2>1, <2>3, <2>4, <2>5, <2>6 DEF Filed, Stages, Late
<1>10. CASE WriteReport /\ stage = "record"
  <2>1. /\ stage' = "exit" /\ exit_code' = 0 /\ after' = after
        /\ files' = [f \in DOMAIN files \cup {"reduction.json"} |->
                       IF f \in {"reduction.json"} THEN "new" ELSE files[f]]
    BY <1>10 DEF WriteReport, Written
  <2>2. /\ DOMAIN files \subseteq File
        /\ IsNew("reduced_workload.csv") /\ IsNew("walkthrough.md")
        /\ IsNew("baseline") /\ IsNew("candidate")
        /\ after \in {"none", "holds"}
    BY <1>10 DEF Filed
  <2>3. DOMAIN files \cup {"reduction.json"} = File
    BY <2>2 DEF IsNew, File
  <2>4. \A f \in File : (IF f \in {"reduction.json"} THEN "new" ELSE files[f]) = "new"
    BY <2>2 DEF IsNew, File
  <2>5. files' = AllNew
    BY <2>1, <2>3, <2>4 DEF AllNew
  <2>6. DOMAIN files' = File /\ \A f \in File : files'[f] = "new"
    BY <2>5 DEF AllNew
  <2>7. \A f \in {"baseline", "candidate"} : files'[f] = files'["reduced_workload.csv"]
    BY <2>6 DEF File
  <2> QED
    BY <2>1, <2>2, <2>5, <2>6, <2>7 DEF Filed, Stages
<1>11. CASE UNCHANGED vars
  <2>1. files' = files /\ after' = after /\ stage' = stage /\ exit_code' = exit_code
    BY <1>11 DEF vars
  <2> QED
    BY <1>0, <2>1, FiledQuiet
<1>12. WriteReport => stage = "report" \/ stage = "record"
  BY DEF WriteReport
<1> QED
  BY <1>1, <1>2, <1>3, <1>4, <1>5, <1>6, <1>7, <1>8, <1>9, <1>10, <1>11, <1>12 DEF Next

-----------------------------------------------------------------------------
(* Minimality. *)

\* A step outside the search, that leaves what was found.
LEMMA CombedQuiet ==
  ASSUME Combed, cur' = cur, cache' = cache, one_minimal' = one_minimal, stage' # "search"
  PROVE  Combed'
<1>1. OneMinimal
  BY DEF Combed
<1>2. OneMinimal'
  BY <1>1 DEF OneMinimal
<1> QED
  BY <1>2 DEF Combed

\* The head of the loop claims minimality of one row only, and begins with the first loop.
LEMMA CombedAnew ==
  ASSUME NEW c, IsFiniteSet(c), NEW g \in Nat, 2 <= g, Continue(c, g)
  PROVE  Combed'
<1>1. /\ cur' = c /\ pass' = "subset"
      /\ \/ ~ one_minimal'
         \/ \A p \in c : c = {p}
  BY Continues
<1>2. OneMinimal'
  BY <1>1 DEF OneMinimal
<1> QED
  BY <1>1, <1>2 DEF Combed

\* Every step keeps each chunk passed in this sweep tested and found not to hold.
LEMMA CombedStep ==
  ASSUME Searching, Spending, Combed, [Next]_vars
  PROVE  Combed'
<1>1. CASE Refuse \/ Prepare \/ LoadRows \/ Interrupted
  <2>1. cur' = cur /\ cache' = cache /\ one_minimal' = one_minimal /\ stage' # "search"
    BY <1>1 DEF Refuse, Prepare, LoadRows, Interrupted, search
  <2> QED
    BY <2>1, CombedQuiet
<1>2. CASE WriteReduced \/ FinalBaseline \/ FinalPair \/ WriteReport \/ Exhausted
  <2>1. cur' = cur /\ cache' = cache /\ one_minimal' = one_minimal /\ stage' # "search"
    BY <1>2 DEF WriteReduced, FinalBaseline, FinalPair, WriteReport, Exhausted, search
  <2> QED
    BY <2>1, CombedQuiet
<1>3. CASE FullRun
  <2>1. stage = "full" /\ cache' = cache
    BY <1>3 DEF FullRun
  <2>2. CASE Continue(cur, n)
    <3>1. IsFiniteSet(cur) /\ n = 2
      BY <2>1, FS_Subset DEF Searching, Early
    <3> QED
      BY <2>2, <3>1, CombedAnew
  <2>3. CASE stage' = "exit" /\ UNCHANGED <<search, one_minimal>>
    <3>1. cur' = cur /\ one_minimal' = one_minimal
      BY <2>3 DEF search
    <3> QED
      BY <2>1, <2>3, <3>1, CombedQuiet
  <2> QED
    BY <1>3, <2>2, <2>3 DEF FullRun
<1>4. CASE Reduced
  <2>1. /\ stage = "search"
        /\ Continue(Tested, IF pass = "subset" \/ n <= 3 THEN 2 ELSE n - 1)
    BY <1>4 DEF Reduced
  <2>2. IsFiniteSet(Tested)
    <3>1. IsFiniteSet(rows)
      BY DEF Searching
    <3>2. Tested \in SUBSET rows
      BY <2>1, TestedProper
    <3> QED
      BY <3>1, <3>2, FS_Subset
  <2>3. PICK g \in Nat : 2 <= g /\ Continue(Tested, g)
    <3> DEFINE g == IF pass = "subset" \/ n <= 3 THEN 2 ELSE n - 1
    <3>1. n \in Nat
      BY DEF Searching
    <3>2. g \in Nat /\ 2 <= g
      BY <3>1
    <3> QED
      BY <2>1, <3>2
  <2> QED
    BY <2>2, <2>3, CombedAnew
<1>5. CASE NotReduced
  <2>1. PICK r \in Outcome : Test(r) /\ ~ Holds(r)
    BY <1>5 DEF NotReduced
  <2>2. stage = "search"
    BY <1>5 DEF NotReduced
  <2>3. /\ \A s \in DOMAIN cache : s \in DOMAIN cache' /\ cache'[s] = cache[s]
        /\ Tested \in DOMAIN cache' /\ cache'[Tested] # "holds"
    BY <2>1, <2>2, TestRecords DEF Holds
  <2>4. /\ cur \subseteq Nat /\ IsFiniteSet(cur)
        /\ n \in Nat /\ 2 <= n /\ n <= Cardinality(cur)
        /\ i \in Nat /\ 1 <= i /\ i <= n
    <3>1. IsFiniteSet(rows) /\ rows \subseteq Nat /\ cur \subseteq rows
      BY DEF Searching
    <3> QED
      BY <2>2, <3>1, FS_Subset DEF Searching
  <2>5. ~ one_minimal
    BY <2>2 DEF Spending
  <2> DEFINE Rest(k) == cur \ ChunkOf(cur, n, k)
  <2>6. ASSUME pass = "complement", NEW k \in 1 .. i
        PROVE  Rest(k) \in DOMAIN cache' /\ cache'[Rest(k)] # "holds"
    <3>1. CASE k = i
      <4>1. Tested = Rest(k)
        BY <2>2, <2>6, <3>1, TestedProper
      <4> QED
        BY <2>3, <4>1
    <3>2. CASE k # i
      <4>1. k \in 1 .. (i - 1)
        BY <2>4, <3>2
      <4>2. Denied(Rest(k))
        BY <2>2, <2>6, <4>1 DEF Combed
      <4> QED
        BY <2>3, <4>2 DEF Denied
    <3> QED
      BY <3>1, <3>2
  <2>7. CASE /\ i < n /\ i' = i + 1
             /\ UNCHANGED <<cur, n, pass, stage, one_minimal>>
    <3>1. cur' = cur /\ n' = n /\ pass' = pass /\ one_minimal' = one_minimal
      BY <2>7
    <3>2. OneMinimal'
      BY <2>5, <3>1 DEF OneMinimal
    <3>3. ASSUME pass' = "complement", NEW k \in 1 .. (i' - 1)
          PROVE  Denied(cur \ ChunkOf(cur, n, k))'
      <4>1. k \in 1 .. i
        BY <2>4, <2>7
      <4>2. (cur \ ChunkOf(cur, n, k))' = Rest(k)
        BY <3>1 DEF ChunkOf, Bound, RankIn
      <4> QED
        BY <2>6, <3>1, <3>3, <4>1, <4>2 DEF Denied
    <3> QED
      BY <3>2, <3>3 DEF Combed
  <2>8. CASE /\ pass' = "complement" /\ i' = 1
             /\ UNCHANGED <<cur, n, stage, one_minimal>>
    <3>1. OneMinimal'
      BY <2>5, <2>8 DEF OneMinimal
    <3>2. \A k : k \notin 1 .. (i' - 1)
      BY <2>8
    <3> QED
      BY <3>1, <3>2 DEF Combed
  <2>9. CASE Continue(cur, Finer)
    <3>1. Finer \in Nat /\ 2 <= Finer
      BY <2>4 DEF Finer
    <3> QED
      BY <2>4, <2>9, <3>1, CombedAnew
  <2>10. CASE /\ i = n /\ pass = "complement" /\ Finest
              /\ stage' = "final" /\ UNCHANGED search
    <3>1. cur' = cur
      BY <2>10 DEF search
    <3>2. n = Cardinality(cur) /\ 2 <= Cardinality(cur)
      <4>1. Cardinality(cur) \in Nat
        BY <2>4, FS_CardinalityType
      <4> QED
        BY <2>4, <2>10, <4>1 DEF Finest
    <3>3. ASSUME NEW p \in cur
          PROVE  cur \ {p} \in DOMAIN cache' /\ cache'[cur \ {p}] # "holds"
      <4>1. PICK k \in 1 .. Cardinality(cur) : ChunkOf(cur, Cardinality(cur), k) = {p}
        BY <2>4, <3>2, FinestChunks
      <4>2. k \in 1 .. i /\ Rest(k) = cur \ {p}
        BY <2>10, <3>2, <4>1
      <4> QED
        BY <2>6, <2>10, <4>2
    <3>4. OneMinimal'
      BY <3>1, <3>3 DEF OneMinimal
    <3> QED
      BY <2>10, <3>4 DEF Combed
  <2> QED
    BY <1>5, <2>7, <2>8, <2>9, <2>10 DEF NotReduced
<1>6. CASE UNCHANGED vars
  <2>1. /\ cur' = cur /\ n' = n /\ pass' = pass /\ i' = i /\ cache' = cache
        /\ stage' = stage /\ one_minimal' = one_minimal
    BY <1>6 DEF vars
  <2>2. OneMinimal'
    BY <2>1 DEF OneMinimal, Combed
  <2> QED
    BY <2>1, <2>2 DEF Combed, Denied, ChunkOf, Bound, RankIn
<1> QED
  BY <1>1, <1>2, <1>3, <1>4, <1>5, <1>6 DEF Next

-----------------------------------------------------------------------------
(* The theorems. *)

\* Nothing is tested and nothing filed to begin with.
LEMMA RInvInit == Init => RInv
<1> SUFFICES ASSUME Init PROVE RInv
  OBVIOUS
<1>1. /\ stage = "args" /\ cur = rows /\ n = 2 /\ pass = "subset" /\ i = 1
      /\ tests = 0 /\ runs_used = 0
      /\ one_minimal = FALSE /\ budget_exhausted = FALSE
      /\ after = "none" /\ exit_code = -1
  BY DEF Init
<1>2. DOMAIN cache = {}
  BY DEF Init
<1>3. IsFiniteSet({}) /\ Cardinality({}) = 0
  BY FS_EmptySet
<1>4. IsFiniteSet(rows) /\ rows \subseteq Nat
  <2>1. PICK k \in 0 .. MaxRows : rows = 1 .. k
    BY DEF Init
  <2>2. k \in Int
    BY <2>1, ReducerAssumption
  <2> QED
    BY <2>1, <2>2, FS_Interval
<1>5. max_runs \in Nat /\ 2 <= max_runs
  <2>1. max_runs \in RunBudgets
    BY DEF Init
  <2>2. max_runs \in Nat \ {0, 1}
    BY <2>1, ReducerAssumption
  <2> QED
    BY <2>2
<1>6. Searching
  <2>1. stage \in Stages /\ stage # "search"
    BY <1>1 DEF Stages, Early
  <2>2. IsFiniteSet(DOMAIN cache) /\ {} \notin DOMAIN cache /\ rows \notin DOMAIN cache
    BY <1>2, <1>3
  <2>3. cur = rows /\ n = 2 /\ i = 1 /\ pass = "subset"
    BY <1>1
  <2> QED
    BY <1>4, <2>1, <2>2, <2>3 DEF Searching
<1>7. Spending
  <2>1. stage \in Early /\ stage \notin Late /\ stage # "search"
    BY <1>1 DEF Early, Late
  <2>2. tests = Cardinality(DOMAIN cache) /\ tests = 0 /\ runs_used = 0 /\ after = "none"
    BY <1>1, <1>2, <1>3
  <2>3. /\ one_minimal \in BOOLEAN /\ budget_exhausted \in BOOLEAN
        /\ ~ one_minimal /\ ~ budget_exhausted
    BY <1>1
  <2>4. runs_used <= max_runs
    BY <1>5, <2>2
  <2> QED
    BY <1>2, <1>5, <2>1, <2>2, <2>3, <2>4 DEF Spending
<1>8. Filed
  <2>1. /\ DOMAIN files \subseteq File
        /\ \A f \in DOMAIN files : files[f] = "old"
        /\ {"baseline", "candidate"} \cap DOMAIN files # {} => "reduced_workload.csv" \in DOMAIN files
    <3>1. CASE files = None
      BY <3>1 DEF None
    <3>2. CASE files = [f \in File |-> "old"]
      BY <3>2 DEF File
    <3>3. CASE files = Cleared([f \in File |-> "old"])
      BY <3>3 DEF Cleared, File
    <3> QED
      BY <3>1, <3>2, <3>3 DEF Init
  <2>2. ~ IsNew("reduction.json")
    BY <2>1 DEF IsNew
  <2>3. \A f \in {"baseline", "candidate"} \cap DOMAIN files :
          files[f] = files["reduced_workload.csv"]
    BY <2>1
  <2> QED
    BY <1>1, <2>1, <2>2, <2>3 DEF Filed, Stages, Early
<1>9. Combed
  BY <1>1 DEF Combed, OneMinimal
<1> QED
  BY <1>6, <1>7, <1>8, <1>9 DEF RInv

\* The invariant holds in every state of every reduction.
LEMMA ReducerInvariant == Spec => []RInv
<1>1. RInv /\ [Next]_vars => RInv'
  BY SearchingStep, SpendingStep, FiledStep, CombedStep DEF RInv
<1> QED
  BY <1>1, RInvInit, PTL DEF Spec

\* The rows kept show the counterexample, so the final pair of runs does and no search
\* that was begun ends in an error; the files of two reductions are never mixed up
\* without the exit code telling.
THEOREM ReducerResultHolds == Spec => []ResultHolds
<1>1. RInv => ResultHolds
  <2> SUFFICES ASSUME RInv PROVE ResultHolds
    OBVIOUS
  <2>1. Searching /\ Filed
    BY DEF RInv
  <2>2. cur # rows => cur \in DOMAIN cache /\ cache[cur] = "holds"
    BY <2>1 DEF Searching
  <2>3. after # "none" => after = "holds" /\ exit_code # 1
    BY <2>1 DEF Filed
  <2>4. \A f \in {"baseline", "candidate"} \cap DOMAIN files :
          files[f] = files["reduced_workload.csv"]
    BY <2>1 DEF Filed
  <2>5. /\ IsNew("reduction.json") => exit_code = 0
        /\ exit_code = 0 => files = AllNew
    BY <2>1 DEF Filed
  <2>6. files = AllNew => IsNew("reduction.json")
    BY DEF AllNew, IsNew, File
  <2>7. IsNew("reduction.json") <=> files = AllNew
    BY <2>5, <2>6
  <2>8. exit_code = 0 <=> files = AllNew
    BY <2>5, <2>6
  <2> QED
    BY <2>2, <2>3, <2>4, <2>7, <2>8 DEF ResultHolds, IsNew, AllNew
<1> QED
  BY <1>1, ReducerInvariant, PTL

\* A claim of minimality rests on a test of every set with one row less.
THEOREM ReducerOneMinimal == Spec => []OneMinimal
<1>1. RInv => OneMinimal
  BY DEF RInv, Combed
<1> QED
  BY <1>1, ReducerInvariant, PTL

\* The budget is kept to the pair and spent on proper subsets of the rows only; a
\* search that ends is minimal or out of budget, and not both.
THEOREM ReducerBudgetExact == Spec => []BudgetExact
<1>1. RInv => BudgetExact
  <2> SUFFICES ASSUME RInv PROVE BudgetExact
    OBVIOUS
  <2>1. Searching /\ Spending
    BY DEF RInv
  <2>2. {} \notin DOMAIN cache /\ rows \notin DOMAIN cache
    BY <2>1 DEF Searching
  <2>3. Cardinality(DOMAIN cache) \in Nat
    BY <2>1, FS_CardinalityType DEF Searching
  <2>4. /\ runs_used <= max_runs
        /\ runs_used # 0 => runs_used = 2 + 2 * Cardinality(DOMAIN cache)
    BY <2>1 DEF Spending
  <2>5. tests - Cardinality(DOMAIN cache) \in {0, IF budget_exhausted THEN 1 ELSE 0}
    <3>1. \/ tests = Cardinality(DOMAIN cache)
          \/ tests = Cardinality(DOMAIN cache) + 1 /\ budget_exhausted
      BY <2>1 DEF Spending
    <3> QED
      BY <2>3, <3>1
  <2>6. after # "none" => one_minimal # budget_exhausted
    <3>1. /\ one_minimal \in BOOLEAN /\ budget_exhausted \in BOOLEAN
          /\ after # "none" => (one_minimal <=> ~ budget_exhausted)
      BY <2>1 DEF Spending
    <3> QED
      BY <3>1
  <2> QED
    BY <2>2, <2>4, <2>5, <2>6 DEF BudgetExact
<1> QED
  BY <1>1, ReducerInvariant, PTL
=============================================================================
