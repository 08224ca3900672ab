---------------------------- MODULE MatrixProofs ----------------------------
(***************************************************************************)
(* Theorems about module Matrix, for every set of command lines, any       *)
(* number of invocations into one directory and of versions of the tree:   *)
(* what an invocation that came to its end put in tables, verdict and      *)
(* manifest is its own, whatever earlier or aborted ones left.             *)
(***************************************************************************)
EXTENDS Matrix, DataProofs, SequenceTheorems

-----------------------------------------------------------------------------
(* The inductive invariant. *)

\* The m-th cell of the invocation.
CellAt(m) == <<args.scenarios[((m - 1) \div Len(args.seeds)) + 1],
               args.seeds[((m - 1) % Len(args.seeds)) + 1]>>

\* The q-th run directory of the cell.
DirAt(q) == Append(Cell, IF q > Len(RunPolicies(args)) THEN ABLATION_DIR ELSE RunPolicies(args)[q])

\* The names of the run directories of a cell.
Ran == Range(RunPolicies(args)) \cup {ABLATION_DIR}

\* This invocation made the files of cell c, the results in d.
Prepared(c) == c \in DOMAIN inputs /\ inputs[c].workload = gen /\ inputs[c].trace = gen
Made(d)     == /\ d \in DOMAIN runs
               /\ runs[d].inv = inv /\ runs[d].inputs = inputs[<<d[1], d[2]>>]

\* Every run of cell c is of this invocation, and has its logs; its checks have entries.
Fresh(c)  == Prepared(c) /\ \A p \in Ran : Made(Append(c, p))
Logged(c) == \A p \in Ran : Append(c, p) \in logs
Covered(c) ==
  /\ \A x \in RunChecks : \A p \in Range(RunPolicies(args)) :
       \E v \in verdicts : v.what = x /\ v.where = Append(c, p)
  /\ \A x \in Comparisons : \E v \in verdicts : v.what = x /\ v.where = c

Ends == {"prune", "verdict", "tables", "manifest"}

\* All cells are done: the invocation is about to end, or has.
Done == pc \in Ends \/ Accepted

\* Where the invocation is.
Placed ==
  /\ pc \in {"idle", "preflight", "inputs", "run", "check"} \cup Ends
  /\ inv \in Nat /\ completed \in Nat /\ k \in Nat /\ j \in Nat
  /\ completed <= inv
  /\ pc # "idle" => 0 < inv /\ completed < inv
  /\ inv > 0 => args \in Invocations /\ Known(args)
  /\ pc \in {"preflight", "inputs", "check"} => j = 1
  /\ pc = "preflight" => k = 1
  /\ pc \in {"inputs", "run", "check"} => 1 <= k /\ k <= NCells(args)
  /\ pc = "run" => 1 <= j /\ j <= Len(RunPolicies(args)) + 1

\* What is in the directory for the cells done so far; the cell being run again is not
\* one of them.
Stored ==
  /\ pc = "inputs" => \A m \in 1 .. (k - 1) : Fresh(CellAt(m)) /\ Logged(CellAt(m))
  /\ pc = "run" =>
       /\ Prepared(Cell)
       /\ \A m \in 1 .. (k - 1) : CellAt(m) # Cell => Fresh(CellAt(m)) /\ Logged(CellAt(m))
       /\ \A q \in 1 .. (j - 1) : Made(DirAt(q)) /\ DirAt(q) \in logs
  /\ pc = "check" => \A m \in 1 .. k : Fresh(CellAt(m)) /\ Logged(CellAt(m))
  /\ Done => \A m \in 1 .. NCells(args) : Fresh(CellAt(m))
  /\ pc = "prune" => \A m \in 1 .. NCells(args) : Logged(CellAt(m))
  /\ Done /\ pc # "prune" =>
       /\ \A d \in logs : d[1] \in Keep(args)
       /\ \A m \in 1 .. NCells(args) : CellAt(m)[1] \in Keep(args) => Logged(CellAt(m))

\* What the verdict rests on.
Judged ==
  /\ pc \in {"inputs", "run", "check"} => \A m \in 1 .. (k - 1) : Covered(CellAt(m))
  /\ Done => \A m \in 1 .. NCells(args) : Covered(CellAt(m))
  /\ pc \in {"tables", "manifest"} \/ Accepted => checks = [inv |-> inv, all_passed |-> AllPassed]
  /\ Accepted /\ exit = "ok" => AllPassed

\* What was published.
Published ==
  /\ pc = "manifest" \/ Accepted =>
       Complete(args) /\ tables = TablesOf(args)
  /\ Accepted => manifest = ManifestOf(args)

MInv == Placed /\ Stored /\ Judged /\ Published

-----------------------------------------------------------------------------
(* The command line. *)

\* dict.fromkeys loses no member and adds none.
LEMMA UniqueRange ==
  ASSUME NEW S, NEW s \in Seq(S)
  PROVE  Unique(s) \in Seq(S) /\ Range(Unique(s)) = Range(s)
<1> DEFINE F == {q \in DOMAIN s : \A r \in 1 .. (q - 1) : s[r] # s[q]}
           m == Cardinality(F)
           at(i) == CHOOSE q \in F : Cardinality({r \in F : r <= q}) = i
<1>1. Len(s) \in Nat /\ DOMAIN s = 1 .. Len(s) /\ \A q \in 1 .. Len(s) : s[q] \in S
  OBVIOUS
<1>2. F \subseteq Nat /\ IsFiniteSet(F) /\ m \in Nat
  <2>1. F \in SUBSET (1 .. Len(s))
    BY <1>1
  <2>2. IsFiniteSet(1 .. Len(s))
    BY <1>1, FS_Interval
  <2>3. IsFiniteSet(F)
    BY <2>1, <2>2, FS_Subset
  <2> QED
    BY <2>1, <2>3, FS_CardinalityType
<1>3. Unique(s) = [i \in 1 .. m |-> s[at(i)]]
  BY DEF Unique
<1>4. ASSUME NEW i \in 1 .. m PROVE at(i) \in F /\ RankIn(F, at(i)) = i
  <2> HIDE DEF F
  <2>1. \E q \in F : RankIn(F, q) = i
    BY <1>2, RankTaken
  <2> QED
    BY <2>1 DEF RankIn
<1>5. ASSUME NEW i \in 1 .. m PROVE at(i) \in DOMAIN s /\ s[at(i)] \in S
  BY <1>1, <1>4
<1>6. Unique(s) \in Seq(S)
  <2> HIDE DEF F, m, at
  <2>1. Unique(s) \in [1 .. m -> S]
    BY <1>3, <1>5
  <2> QED
    BY <1>2, <2>1
<1>7. DOMAIN Unique(s) = 1 .. m
  BY <1>3
<1>8. ASSUME NEW p \in Range(Unique(s)) PROVE p \in Range(s)
  <2>1. PICK i \in 1 .. m : p = s[at(i)]
    BY <1>3, <1>7 DEF Range
  <2> QED
    BY <1>5, <2>1 DEF Range
<1>9. ASSUME NEW p \in Range(s) PROVE p \in Range(Unique(s))
  <2> DEFINE T == {q \in DOMAIN s : s[q] = p}
  <2>1. T \subseteq Nat /\ T # {}
    BY <1>1 DEF Range
  <2>2. PICK q \in T : \A r \in T : q <= r
    <3> HIDE DEF T
    <3> QED
      BY <2>1, NatMin
  <2>3. q \in DOMAIN s /\ s[q] = p /\ q \in Nat
    BY <2>1, <2>2
  <2>4. ASSUME NEW r \in 1 .. (q - 1) PROVE s[r] # s[q]
    <3>1. r \in DOMAIN s /\ ~ (q <= r)
      BY <1>1, <2>3
    <3> QED
      BY <2>2, <2>3, <3>1
  <2>5. q \in F
    BY <2>3, <2>4
  <2> DEFINE i == RankIn(F, q)
  <2>6. i \in 1 .. m
    <3> HIDE DEF F
    <3>1. i \in Nat /\ 1 <= i /\ i <= m
      BY <1>2, <2>5, RankRange
    <3> QED
      BY <1>2, <3>1
  <2>7. at(i) = q
    <3> HIDE DEF F, at, m
    <3>1. at(i) \in F /\ RankIn(F, at(i)) = RankIn(F, q)
      BY <1>4, <2>6
    <3> QED
      BY <1>2, <2>5, <3>1, RankDistinct
  <2>8. Unique(s)[i] = p
    <3> HIDE DEF at, i, m
    <3> QED
      BY <1>3, <2>3, <2>6, <2>7
  <2> QED
    BY <1>7, <2>6, <2>8 DEF Range
<1> QED
  BY <1>6, <1>8, <1>9

\* What runs: what was asked for, and what the checks need.
LEMMA RunPoliciesRange ==
  ASSUME NEW a \in Invocations, Known(a)
  PROVE  /\ RunPolicies(a) \in Seq(KnownPolicies)
         /\ Range(RunPolicies(a)) = Range(a.policies) \cup Range(CheckPolicies)
<1>1. a.policies \in Seq(KnownPolicies)
  <2>1. a.policies \in Seq(Range(a.policies)) /\ Range(a.policies) \subseteq KnownPolicies
    BY MatrixAssumption DEF Known
  <2> QED
    BY <2>1
<1>2. CheckPolicies \in Seq(KnownPolicies)
  BY MatrixAssumption
<1> DEFINE s == a.policies
           t == CheckPolicies
           u == s \o t
<1>3. /\ u \in Seq(KnownPolicies) /\ Len(u) = Len(s) + Len(t)
      /\ DOMAIN u = 1 .. Len(u)
      /\ \A i \in 1 .. Len(u) : u[i] = IF i <= Len(s) THEN s[i] ELSE t[i - Len(s)]
  BY <1>1, <1>2
<1>4. Len(s) \in Nat /\ Len(t) \in Nat /\ DOMAIN s = 1 .. Len(s) /\ DOMAIN t = 1 .. Len(t)
  BY <1>1, <1>2
<1>5. Range(u) = Range(s) \cup Range(t)
  <2> HIDE DEF s, t, u
  <2>1. ASSUME NEW p \in Range(u) PROVE p \in Range(s) \cup Range(t)
    <3>1. PICK i \in 1 .. Len(u) : p = u[i]
      BY <1>3 DEF Range
    <3>2. CASE i <= Len(s)
      BY <1>3, <1>4, <3>1, <3>2 DEF Range
    <3>3. CASE ~ (i <= Len(s))
      <4>1. i - Len(s) \in 1 .. Len(t) /\ p = t[i - Len(s)]
        BY <1>3, <1>4, <3>1, <3>3
      <4> QED
        BY <1>4, <4>1 DEF Range
    <3> QED
      BY <3>2, <3>3
  <2>2. ASSUME NEW p \in Range(s) PROVE p \in Range(u)
    <3>1. PICK i \in 1 .. Len(s) : p = s[i]
      BY <1>4 DEF Range
    <3>2. i \in 1 .. Len(u) /\ u[i] = p
      BY <1>3, <1>4, <3>1
    <3> QED
      BY <1>3, <3>2 DEF Range
  <2>3. ASSUME NEW p \in Range(t) PROVE p \in Range(u)
    <3>1. PICK i \in 1 .. Len(t) : p = t[i]
      BY <1>4 DEF Range
    <3>2. i + Len(s) \in 1 .. Len(u) /\ ~ (i + Len(s) <= Len(s)) /\ (i + Len(s)) - Len(s) = i
      BY <1>3, <1>4
    <3>3. u[i + Len(s)] = p
      BY <1>3, <3>1, <3>2
    <3> QED
      BY <1>3, <3>2, <3>3 DEF Range
  <2> QED
    BY <2>1, <2>2, <2>3
<1> QED
  BY <1>3, <1>5, UniqueRange DEF RunPolicies

\* The lists of an invocation.
LEMMA Lists ==
  ASSUME NEW a \in Invocations
  PROVE  /\ a # Missing
         /\ Len(a.scenarios) \in Nat \ {0} /\ DOMAIN a.scenarios = 1 .. Len(a.scenarios)
         /\ Len(a.seeds) \in Nat \ {0} /\ DOMAIN a.seeds = 1 .. Len(a.seeds)
<1>1. /\ a = [scenarios |-> a.scenarios, seeds |-> a.seeds, policies |-> a.policies, keep |-> a.keep]
      /\ a.scenarios \in Seq(Range(a.scenarios)) /\ a.scenarios # <<>>
      /\ a.seeds \in Seq(Range(a.seeds)) /\ a.seeds # <<>>
  BY MatrixAssumption
<1>2. a # Missing
  <2>1. "seeds" \in DOMAIN a
    BY <1>1
  <2>2. "seeds" \notin DOMAIN Missing
    BY DEF Missing
  <2> QED
    BY <2>1, <2>2
<1>3. Len(a.scenarios) # 0 /\ Len(a.seeds) # 0
  BY <1>1, EmptySeq
<1> QED
  BY <1>1, <1>2, <1>3

-----------------------------------------------------------------------------
(* Cells and run directories. *)

\* Products and quotients of natural numbers.
LEMMA Products ==
  ASSUME NEW a \in Nat, NEW b \in Nat
  PROVE  /\ a * b \in Nat /\ a * b = b * a /\ a * (b + 1) = a * b + a
         /\ \A c \in Nat : b <= c => a * b <= a * c
  OBVIOUS

\* Division with remainder.
LEMMA Quotients ==
  ASSUME NEW u \in Nat, NEW g \in Nat, g # 0
  PROVE  u \div g \in Nat /\ u % g \in Nat /\ u % g < g /\ u = g * (u \div g) + (u % g)
  OBVIOUS

\* There is one way to divide.
LEMMA QuotientIs ==
  ASSUME NEW g \in Nat, g # 0, NEW x \in Nat, NEW y \in Nat, y < g
  PROVE  (g * x + y) \div g = x /\ (g * x + y) % g = y
<1> DEFINE u == g * x + y
           q == u \div g
           r == u % g
<1>1. u \in Nat /\ g * x \in Nat
  BY Products
<1> HIDE DEF u
<1>2. q \in Nat /\ r \in Nat /\ r < g /\ u = g * q + r
  BY <1>1, Quotients
<1> HIDE DEF q, r
<1>3. g * q \in Nat /\ g * (q + 1) = g * q + g /\ g * (x + 1) = g * x + g
  BY <1>2, Products
<1>4. ~ (q < x)
  <2>1. q < x => q + 1 <= x
    BY <1>2
  <2>2. q + 1 <= x => g * (q + 1) <= g * x
    BY <1>2, Products
  <2> QED
    BY <1>1, <1>2, <1>3, <2>1, <2>2 DEF u
<1>5. ~ (x < q)
  <2>1. x < q => x + 1 <= q
    BY <1>2
  <2>2. x + 1 <= q => g * (x + 1) <= g * q
    BY <1>2, Products
  <2> QED
    BY <1>1, <1>2, <1>3, <2>1, <2>2 DEF u
<1>6. q = x
  BY <1>2, <1>4, <1>5
<1>7. r = y
  BY <1>1, <1>2, <1>6 DEF u
<1> QED
  BY <1>6, <1>7 DEF q, r, u

\* A cell is a scenario and a seed that were asked for.
LEMMA CellInside ==
  ASSUME args \in Invocations, NEW m \in 1 .. NCells(args)
  PROVE  \E sc \in Range(args.scenarios) : \E seed \in Range(args.seeds) : CellAt(m) = <<sc, seed>>
<1> DEFINE L == Len(args.seeds)
           S == Len(args.scenarios)
           x == (m - 1) \div L
           y == (m - 1) % L
<1>1. /\ S \in Nat \ {0} /\ DOMAIN args.scenarios = 1 .. S
      /\ L \in Nat \ {0} /\ DOMAIN args.seeds = 1 .. L
  BY Lists
<1>2. m \in 1 .. (S * L)
  BY DEF NCells
<1> HIDE DEF S, L
<1>3. S * L \in Nat
  BY <1>1, Products
<1>4. m \in Nat /\ m - 1 \in Nat /\ m - 1 < S * L
  BY <1>2, <1>3
<1>5. x \in Nat /\ y \in Nat /\ y < L /\ m - 1 = L * x + y
  BY <1>1, <1>4, Quotients
<1> HIDE DEF x, y
<1>6. x < S
  <2>1. CASE S <= x
    <3>1. L * S <= L * x /\ L * S = S * L /\ L * x \in Nat
      BY <1>1, <1>5, <2>1, Products
    <3> QED
      BY <1>3, <1>4, <1>5, <3>1
  <2> QED
    BY <1>1, <1>5, <2>1
<1>7. x + 1 \in 1 .. S /\ y + 1 \in 1 .. L
  BY <1>1, <1>5, <1>6
<1>8. args.scenarios[x + 1] \in Range(args.scenarios) /\ args.seeds[y + 1] \in Range(args.seeds)
  BY <1>1, <1>7 DEF Range
<1>9. CellAt(m) = <<args.scenarios[x + 1], args.seeds[y + 1]>>
  BY DEF CellAt, x, y, L
<1> QED
  BY <1>8, <1>9

\* Every scenario and seed asked for is a cell.
LEMMA CellExists ==
  ASSUME args \in Invocations,
         NEW sc \in Range(args.scenarios), NEW seed \in Range(args.seeds)
  PROVE  \E m \in 1 .. NCells(args) : CellAt(m) = <<sc, seed>>
<1> DEFINE L == Len(args.seeds)
           S == Len(args.scenarios)
<1>1. /\ S \in Nat \ {0} /\ DOMAIN args.scenarios = 1 .. S
      /\ L \in Nat \ {0} /\ DOMAIN args.seeds = 1 .. L
  BY Lists
<1>2. PICK a \in 1 .. S : args.scenarios[a] = sc
  BY <1>1 DEF Range
<1>3. PICK b \in 1 .. L : args.seeds[b] = seed
  BY <1>1 DEF Range
<1> DEFINE x == a - 1
           y == b - 1
           m == L * x + y + 1
<1> HIDE DEF L, S
<1>4. x \in Nat /\ x + 1 = a /\ x + 1 <= S /\ y \in Nat /\ y + 1 = b /\ y < L
  BY <1>1, <1>2, <1>3
<1> HIDE DEF x, y
<1>5. L * x \in Nat /\ L * (x + 1) = L * x + L /\ L * (x + 1) <= L * S /\ L * S = S * L
      /\ S * L \in Nat
  BY <1>1, <1>4, Products
<1>6. m \in Nat /\ m - 1 = L * x + y /\ 1 <= m /\ m <= S * L
  BY <1>1, <1>4, <1>5
<1>7. m \in 1 .. NCells(args)
  <2>1. NCells(args) = S * L
    BY DEF NCells, S, L
  <2> HIDE DEF m
  <2> QED
    BY <1>5, <1>6, <2>1
<1>8. (m - 1) \div L = x /\ (m - 1) % L = y
  <2> HIDE DEF m
  <2> QED
    BY <1>1, <1>4, <1>6, QuotientIs
<1>9. CellAt(m) = <<args.scenarios[x + 1], args.seeds[y + 1]>>
  <2> HIDE DEF m
  <2> QED
    BY <1>8 DEF CellAt, L
<1> QED
  BY <1>2, <1>3, <1>4, <1>7, <1>9

\* The name of a run directory tells the cell and the policy.
LEMMA DirName ==
  ASSUME NEW a, NEW b, NEW p
  PROVE  /\ Append(<<a, b>>, p) = <<a, b, p>>
         /\ Append(<<a, b>>, p)[1] = a /\ Append(<<a, b>>, p)[2] = b /\ Append(<<a, b>>, p)[3] = p
<1> DEFINE s == <<a, b>>
           t == <<a, b, p>>
           S == {a, b, p}
<1>1. s \in Seq(S) /\ p \in S /\ Len(s) = 2 /\ s[1] = a /\ s[2] = b
  OBVIOUS
<1>2. t \in Seq(S) /\ Len(t) = 3 /\ t[1] = a /\ t[2] = b /\ t[3] = p
  OBVIOUS
<1> HIDE DEF s, t, S
<1>3. /\ Append(s, p) \in Seq(S) /\ Len(Append(s, p)) = 3
      /\ Append(s, p)[1] = a /\ Append(s, p)[2] = b /\ Append(s, p)[3] = p
  <2>1. /\ Append(s, p) \in Seq(S) /\ Len(Append(s, p)) = Len(s) + 1
        /\ \A i \in 1 .. Len(s) : Append(s, p)[i] = s[i]
        /\ Append(s, p)[Len(s) + 1] = p
    <3>1. s \in Seq(S) /\ p \in S
      BY <1>1
    <3> QED
      BY <3>1, AppendProperties
  <2> QED
    BY <1>1, <2>1
<1>4. ASSUME NEW i \in 1 .. 3 PROVE Append(s, p)[i] = t[i]
  <2>1. i = 1 \/ i = 2 \/ i = 3
    OBVIOUS
  <2> QED
    BY <1>2, <1>3, <2>1
<1>5. Append(s, p) = t
  BY <1>2, <1>3, <1>4, SeqEqual
<1> QED
  BY <1>3, <1>5 DEF s, t

\* The directories of a cell, one after the other, are all that is looked for in it.
LEMMA DirsOfCell ==
  ASSUME args \in Invocations, Known(args)
  PROVE  /\ Len(RunPolicies(args)) \in Nat
         /\ \A q \in 1 .. (Len(RunPolicies(args)) + 1) : \E p \in Ran : DirAt(q) = Append(Cell, p)
         /\ \A p \in Ran : \E q \in 1 .. (Len(RunPolicies(args)) + 1) : DirAt(q) = Append(Cell, p)
<1> DEFINE R == RunPolicies(args)
           n == Len(R)
<1>1. R \in Seq(KnownPolicies)
  BY RunPoliciesRange
<1>2. n \in Nat /\ DOMAIN R = 1 .. n
  BY <1>1
<1>3. ASSUME NEW q \in 1 .. (n + 1) PROVE \E p \in Ran : DirAt(q) = Append(Cell, p)
  <2>1. CASE q > n
    BY <2>1 DEF DirAt, Ran
  <2>2. CASE ~ (q > n)
    <3>1. q \in DOMAIN R
      BY <1>2, <2>2
    <3>2. R[q] \in Ran
      BY <3>1 DEF Ran, Range
    <3>3. DirAt(q) = Append(Cell, R[q])
      BY <2>2 DEF DirAt
    <3> QED
      BY <3>2, <3>3
  <2> QED
    BY <2>1, <2>2
<1>4. ASSUME NEW p \in Ran PROVE \E q \in 1 .. (n + 1) : DirAt(q) = Append(Cell, p)
  <2>1. CASE p = ABLATION_DIR
    <3>1. n + 1 \in 1 .. (n + 1) /\ n + 1 > n
      BY <1>2
    <3>2. DirAt(n + 1) = Append(Cell, ABLATION_DIR)
      BY <3>1 DEF DirAt
    <3> QED
      BY <2>1, <3>1, <3>2
  <2>2. CASE p \in Range(R)
    <3>1. PICK q \in 1 .. n : p = R[q]
      BY <1>2, <2>2 DEF Range
    <3>2. q \in 1 .. (n + 1) /\ ~ (q > n)
      BY <1>2
    <3>3. DirAt(q) = Append(Cell, R[q])
      BY <3>2 DEF DirAt
    <3> QED
      BY <3>1, <3>2, <3>3
  <2> QED
    BY <2>1, <2>2 DEF Ran
<1> QED
  BY <1>2, <1>3, <1>4

\* Cell and Dir are where the invocation is.
LEMMA HereAndNow == Cell = CellAt(k) /\ Dir = DirAt(j)
  BY DEF Cell, CellAt, Dir, DirAt

-----------------------------------------------------------------------------
(* Where the invocation is. *)

\* There is a first cell, and a first run in it.
LEMMA Sizes ==
  ASSUME NEW a \in Invocations, Known(a)
  PROVE  /\ NCells(a) \in Nat /\ 1 <= NCells(a)
         /\ Len(RunPolicies(a)) \in Nat
<1> DEFINE S == Len(a.scenarios)
           L == Len(a.seeds)
<1>1. S \in Nat \ {0} /\ L \in Nat \ {0}
  BY Lists
<1>2. NCells(a) = S * L
  BY DEF NCells
<1> HIDE DEF S, L
<1>3. S * L \in Nat /\ S * 1 <= S * L /\ S * 1 = S
  BY <1>1, Products
<1>4. 1 <= S * L
  BY <1>1, <1>3
<1>5. RunPolicies(a) \in Seq(KnownPolicies)
  BY RunPoliciesRange
<1> QED
  BY <1>2, <1>3, <1>4, <1>5

\* An invocation under way was asked for.
LEMMA UnderWay ==
  ASSUME Placed, pc # "idle"
  PROVE  /\ inv \in Nat /\ 0 < inv /\ completed \in Nat /\ completed < inv
         /\ args \in Invocations /\ Known(args) /\ ~ Accepted
  BY DEF Placed, Accepted

\* A step that ends the invocation before its time.
LEMMA PlacedStopped ==
  ASSUME Placed, pc' = "idle", inv' = inv, completed' = completed, args' = args,
         k' \in Nat, j' \in Nat
  PROVE  Placed'
  BY DEF Placed

\* Every step leaves the invocation at a place there is.
LEMMA PlacedStep ==
  ASSUME Placed, [Next]_vars
  PROVE  Placed'
<1>0. /\ pc \in {"idle", "preflight", "inputs", "run", "check"} \cup Ends
      /\ inv \in Nat /\ completed \in Nat /\ k \in Nat /\ j \in Nat /\ completed <= inv
  BY DEF Placed
<1>1. CASE Refuse \/ Kill
  <2>1. /\ pc' = "idle" /\ k' = 1 /\ j' = 1
        /\ inv' = inv /\ completed' = completed /\ args' = args
    BY <1>1 DEF Refuse, Kill, Stop, progress, outputs
  <2> QED
    BY <2>1, PlacedStopped
<1>2. CASE Start
  <2>1. /\ args' \in Invocations /\ Known(args')
        /\ inv' = inv + 1 /\ completed' = completed
        /\ k' = 1 /\ j' = 1 /\ pc' = "preflight"
    BY <1>2 DEF Start, outputs
  <2>2. inv' \in Nat /\ 0 < inv' /\ completed' < inv' /\ completed' <= inv'
    BY <1>0, <2>1
  <2> QED
    BY <1>0, <2>1, <2>2 DEF Placed, Known, Ends
<1>3. CASE Preflight
  <2>1. /\ pc = "preflight" /\ inv' = inv /\ completed' = completed /\ args' = args
        /\ \/ pc' = "inputs" /\ k' = k /\ j' = j
           \/ pc' = "idle" /\ k' = 1 /\ j' = 1
    BY <1>3 DEF Preflight, Stop, progress
  <2>2. CASE pc' = "idle" /\ k' = 1 /\ j' = 1
    BY <2>1, <2>2, PlacedStopped
  <2>3. CASE pc' = "inputs" /\ k' = k /\ j' = j
    <3>1. /\ 0 < inv /\ completed < inv /\ args \in Invocations /\ Known(args)
          /\ k = 1 /\ j = 1
      BY <2>1, UnderWay DEF Placed
    <3>2. 1 <= k /\ k <= NCells(args)
      BY <3>1, Sizes
    <3> QED
      BY <1>0, <2>1, <2>3, <3>1, <3>2 DEF Placed, Known, NCells, Ends
  <2> QED
    BY <2>1, <2>2, <2>3
<1>4. CASE WriteInputs
  <2>1. /\ pc = "inputs" /\ inv' = inv /\ completed' = completed /\ args' = args
        /\ \/ pc' = "run" /\ k' = k /\ j' = j
           \/ pc' = "idle" /\ k' = 1 /\ j' = 1
    BY <1>4 DEF WriteInputs, Stop, progress, outputs
  <2>2. CASE pc' = "idle" /\ k' = 1 /\ j' = 1
    BY <2>1, <2>2, PlacedStopped
  <2>3. CASE pc' = "run" /\ k' = k /\ j' = j
    <3>1. /\ 0 < inv /\ completed < inv /\ args \in Invocations /\ Known(args)
          /\ 1 <= k /\ k <= NCells(args) /\ j = 1
      BY <2>1, UnderWay DEF Placed
    <3>2. 1 <= j /\ j <= Len(RunPolicies(args)) + 1
      <4>1. Len(RunPolicies(args)) \in Nat
        BY <3>1, Sizes
      <4> QED
        BY <3>1, <4>1
    <3>3. NCells(args') = NCells(args) /\ RunPolicies(args') = RunPolicies(args) /\ Known(args')
      BY <2>1, <3>1
    <3> QED
      BY <1>0, <2>1, <2>3, <3>1, <3>2, <3>3 DEF Placed, Ends
  <2> QED
    BY <2>1, <2>2, <2>3
<1>5. CASE RunPolicy
  <2>1. /\ pc = "run" /\ inv' = inv /\ completed' = completed /\ args' = args
        /\ \/ j <= Len(RunPolicies(args)) /\ pc' = "run" /\ j' = j + 1 /\ k' = k
           \/ pc' = "check" /\ j' = 1 /\ k' = k
           \/ pc' = "idle" /\ k' = 1 /\ j' = 1
    BY <1>5 DEF RunPolicy, Stop, progress, outputs
  <2>2. CASE pc' = "idle" /\ k' = 1 /\ j' = 1
    BY <2>1, <2>2, PlacedStopped
  <2>3. /\ 0 < inv /\ completed < inv /\ args \in Invocations /\ Known(args)
        /\ 1 <= k /\ k <= NCells(args) /\ 1 <= j /\ j <= Len(RunPolicies(args)) + 1
        /\ Len(RunPolicies(args)) \in Nat
    BY <2>1, UnderWay, Sizes DEF Placed
  <2>4. NCells(args') = NCells(args) /\ RunPolicies(args') = RunPolicies(args) /\ Known(args')
    BY <2>1, <2>3
  <2>5. CASE pc' = "check" /\ j' = 1 /\ k' = k
    BY <1>0, <2>1, <2>3, <2>4, <2>5 DEF Placed, Ends
  <2>6. CASE j <= Len(RunPolicies(args)) /\ pc' = "run" /\ j' = j + 1 /\ k' = k
    <3>1. j' \in Nat /\ 1 <= j' /\ j' <= Len(RunPolicies(args')) + 1
      BY <1>0, <2>3, <2>4, <2>6
    <3> QED
      BY <1>0, <2>1, <2>3, <2>4, <2>6, <3>1 DEF Placed, Ends
  <2> QED
    BY <2>1, <2>2, <2>5, <2>6
<1>6. CASE Check
  <2>1. /\ pc = "check" /\ inv' = inv /\ completed' = completed /\ args' = args
        /\ k' = k + 1 /\ j' = j
        /\ pc' = IF k' > NCells(args) THEN "prune" ELSE "inputs"
    BY <1>6 DEF Check, progress, outputs
  <2>2. /\ 0 < inv /\ completed < inv /\ args \in Invocations /\ Known(args) /\ j = 1
        /\ NCells(args) \in Nat
    BY <2>1, UnderWay, Sizes DEF Placed
  <2>3. NCells(args') = NCells(args) /\ Known(args')
    BY <2>1, <2>2
  <2>4. k' \in Nat /\ 1 <= k' /\ (~ (k' > NCells(args)) => k' <= NCells(args))
    BY <1>0, <2>1, <2>2
  <2>5. CASE pc' = "prune"
    BY <1>0, <2>1, <2>2, <2>3, <2>4, <2>5 DEF Placed, Ends
  <2>6. CASE ~ (k' > NCells(args)) /\ pc' = "inputs"
    BY <1>0, <2>1, <2>2, <2>3, <2>4, <2>6 DEF Placed, Ends
  <2> QED
    BY <2>1, <2>5, <2>6
<1>7. CASE Prune \/ WriteChecks \/ (WriteTables /\ pc' # "idle")
  <2>1. /\ pc # "idle" /\ pc' \in Ends /\ inv' = inv /\ completed' = completed /\ args' = args
        /\ k' = k /\ j' = j
    BY <1>7 DEF Prune, WriteChecks, WriteTables, Stop, progress, outputs, Ends
  <2>2. 0 < inv /\ completed < inv /\ args \in Invocations /\ Known(args)
    BY <2>1, UnderWay
  <2>3. Known(args')
    BY <2>1, <2>2
  <2> QED
    BY <1>0, <2>1, <2>2, <2>3 DEF Placed, Ends
<1>8. CASE WriteTables /\ pc' = "idle"
  <2>1. inv' = inv /\ completed' = completed /\ args' = args /\ k' = 1 /\ j' = 1
    BY <1>8 DEF WriteTables, Stop, progress
  <2> QED
    BY <1>8, <2>1, PlacedStopped
<1>9. CASE WriteManifest
  <2>1. /\ pc = "manifest" /\ pc' = "idle" /\ inv' = inv /\ completed' = inv /\ args' = args
        /\ k' = 1 /\ j' = 1
    BY <1>9 DEF WriteManifest, Stop, progress
  <2>2. args \in Invocations /\ Known(args)
    BY <2>1, UnderWay
  <2>3. Known(args')
    BY <2>1, <2>2
  <2> QED
    BY <1>0, <2>1, <2>2, <2>3 DEF Placed, Ends
<1>10. CASE Resummarize \/ Edit \/ UNCHANGED vars
  <2>1. pc' = pc /\ inv' = inv /\ completed' = completed /\ args' = args /\ k' = k /\ j' = j
    BY <1>10 DEF Resummarize, Edit, vars, progress, outputs
  <2>2. /\ NCells(args') = NCells(args) /\ RunPolicies(args') = RunPolicies(args)
        /\ (Known(args') <=> Known(args))
    BY <2>1
  <2> QED
    BY <2>1, <2>2 DEF Placed
<1> QED
  BY <1>1, <1>2, <1>3, <1>4, <1>5, <1>6, <1>7, <1>8, <1>9, <1>10 DEF Next

-----------------------------------------------------------------------------
(* What is in the directory. *)

\* The cells and the names of their runs depend on the command line alone.
LEMMA SameNames ==
  ASSUME args' = args
  PROVE  /\ \A m : CellAt(m)' = CellAt(m)
         /\ Ran' = Ran /\ NCells(args') = NCells(args) /\ Keep(args') = Keep(args)
<1>1. \A m : CellAt(m)' = CellAt(m)
  BY DEF CellAt
<1> QED
  BY <1>1 DEF Ran

\* A cell whose files are not touched is as fresh as before.
LEMMA SameFresh ==
  ASSUME args' = args, inv' = inv, gen' = gen, inputs' = inputs, runs' = runs
  PROVE  \A c : Fresh(c)' <=> Fresh(c)
<1>1. Ran' = Ran
  BY SameNames
<1>2. ASSUME NEW c PROVE Prepared(c)' <=> Prepared(c)
  BY DEF Prepared
<1>3. ASSUME NEW d PROVE Made(d)' <=> Made(d)
  BY DEF Made
<1>4. ASSUME NEW c PROVE Fresh(c)' <=> Fresh(c)
  <2>1. \A d : Made(d)' <=> Made(d)
    BY <1>3
  <2> QED
    BY <1>1, <1>2, <2>1 DEF Fresh
<1> QED
  BY <1>4

\* Where the same cells are done in the same directory.
LEMMA StoredSame ==
  ASSUME Stored, UNCHANGED <<args, inv, gen, inputs, runs, logs>>,
         pc' = pc, k' = k, j' = j, completed' = completed
  PROVE  Stored'
<1>1. /\ \A m : CellAt(m)' = CellAt(m)
      /\ NCells(args') = NCells(args) /\ Keep(args') = Keep(args)
  BY SameNames
<1>2. \A c : Fresh(c)' <=> Fresh(c)
  BY SameFresh
<1>3. \A c : Logged(c)' <=> Logged(c)
  BY SameNames DEF Logged
<1>4. (Done' <=> Done) /\ Cell' = Cell
  BY DEF Done, Accepted, Cell
<1>5. \A q : (Made(DirAt(q)) /\ DirAt(q) \in logs)' <=> (Made(DirAt(q)) /\ DirAt(q) \in logs)
  BY DEF Made, DirAt, Cell
<1>6. Prepared(Cell)' <=> Prepared(Cell)
  BY DEF Prepared, Cell
<1> QED
  BY <1>1, <1>2, <1>3, <1>4, <1>5, <1>6 DEF Stored

\* The invocation goes on to its end, or is over, and the directory stays.
LEMMA StoredLater ==
  ASSUME Stored, UNCHANGED <<args, inv, gen, inputs, runs, logs>>,
         pc' \in {"idle", "verdict", "tables", "manifest"},
         Done' => Done /\ pc # "prune"
  PROVE  Stored'
<1>1. /\ \A m : CellAt(m)' = CellAt(m)
      /\ NCells(args') = NCells(args) /\ Keep(args') = Keep(args)
  BY SameNames
<1>2. \A c : Fresh(c)' <=> Fresh(c)
  BY SameFresh
<1>3. \A c : Logged(c)' <=> Logged(c)
  BY SameNames DEF Logged
<1>4. Done' => /\ \A m \in 1 .. NCells(args) : Fresh(CellAt(m))
               /\ \A d \in logs : d[1] \in Keep(args)
               /\ \A m \in 1 .. NCells(args) : CellAt(m)[1] \in Keep(args) => Logged(CellAt(m))
  BY DEF Stored
<1> QED
  BY <1>1, <1>2, <1>3, <1>4 DEF Stored

\* An invocation that is stopped has not come to its end.
LEMMA StoredStopped ==
  ASSUME Placed, pc # "idle", pc' = "idle", inv' = inv, completed' = completed
  PROVE  Stored' /\ ~ Done'
<1>1. ~ Accepted'
  BY UnderWay DEF Accepted
<1>2. ~ Done'
  BY <1>1 DEF Done, Ends
<1> QED
  BY <1>2 DEF Stored

\* New input files: the cells done before stay fresh, but for the one begun again.
LEMMA StoredInputs ==
  ASSUME Placed, Stored, WriteInputs, pc' = "run"
  PROVE  Stored'
<1>1. /\ pc = "inputs" /\ UNCHANGED <<args, inv, gen, runs, logs, k, j>>
      /\ inputs' = Replaced(inputs, Cell, [workload |-> gen, trace |-> gen, config |-> head])
  BY DEF WriteInputs, Stop, progress, InputsWith
<1>2. j = 1
  BY <1>1 DEF Placed
<1>3. \A m \in 1 .. (k - 1) : Fresh(CellAt(m)) /\ Logged(CellAt(m))
  BY <1>1 DEF Stored
<1>4. args \in Invocations /\ Known(args) /\ NCells(args) \in Nat /\ k \in Nat /\ k <= NCells(args)
  BY <1>1, UnderWay, Sizes DEF Placed
<1>5. \A m : CellAt(m)' = CellAt(m)
  BY <1>1, SameNames
<1>6. Cell' = Cell
  BY <1>1 DEF Cell
<1>7. /\ DOMAIN inputs' = DOMAIN inputs \cup {Cell}
      /\ inputs'[Cell] = [workload |-> gen, trace |-> gen, config |-> head]
      /\ \A c \in DOMAIN inputs : c # Cell => inputs'[c] = inputs[c]
  BY <1>1 DEF Replaced
<1>8. Prepared(Cell)'
  <2>1. inputs'[Cell].workload = gen /\ inputs'[Cell].trace = gen
    BY <1>7
  <2> QED
    BY <1>1, <1>6, <1>7, <2>1 DEF Prepared
<1>9. ASSUME NEW m \in 1 .. (k - 1), CellAt(m) # Cell PROVE Fresh(CellAt(m))' /\ Logged(CellAt(m))'
  <2> DEFINE c == CellAt(m)
  <2>1. m \in 1 .. NCells(args)
    BY <1>4
  <2>2. PICK a \in Range(args.scenarios), b \in Range(args.seeds) : c = <<a, b>>
    BY <1>4, <2>1, CellInside
  <2>3. Fresh(c) /\ Logged(c)
    BY <1>3
  <2>4. c \in DOMAIN inputs /\ c \in DOMAIN inputs' /\ inputs'[c] = inputs[c]
    BY <1>7, <1>9, <2>3 DEF Fresh, Prepared
  <2>5. c' = c
    BY <1>5
  <2>6. Prepared(c)'
    BY <1>1, <2>3, <2>4, <2>5 DEF Fresh, Prepared
  <2>7. ASSUME NEW p \in Ran PROVE Made(Append(c, p))'
    <3> DEFINE d == Append(c, p)
    <3>1. Made(d)
      BY <2>3 DEF Fresh
    <3>2. <<d[1], d[2]>> = c
      BY <2>2, DirName
    <3>3. d' = d
      BY <2>5
    <3> HIDE DEF d, c
    <3>4. inputs'[<<d[1], d[2]>>] = inputs[<<d[1], d[2]>>]
      BY <2>4, <3>2
    <3>5. Made(d)'
      BY <1>1, <3>1, <3>3, <3>4 DEF Made
    <3> QED
      BY <3>5 DEF d
  <2>8. Ran' = Ran
    BY <1>1, SameNames
  <2>9. Fresh(c)'
    BY <2>5, <2>6, <2>7, <2>8 DEF Fresh
  <2>10. Logged(c)'
    BY <1>1, <2>3, <2>5, <2>8 DEF Logged
  <2> QED
    BY <2>9, <2>10
<1>10. ~ Done'
  BY DEF Done, Accepted, Ends
<1>11. \A q : q \notin 1 .. (j' - 1)
  BY <1>1, <1>2
<1> QED
  BY <1>1, <1>5, <1>6, <1>8, <1>9, <1>10, <1>11 DEF Stored

\* The results of a run: those in the other directories stay.
LEMMA WrittenMakes ==
  ASSUME Written, UNCHANGED <<inv, inputs>>
  PROVE  /\ \E d : d = Dir /\ Made(d)' /\ d \in logs'
         /\ \A d : Made(d) => Made(d)'
         /\ \A d : d \in logs => d \in logs'
<1> DEFINE new == [inv |-> inv, inputs |-> inputs[Cell], flsim |-> head]
<1>1. runs' = Replaced(runs, Dir, new) /\ logs' = logs \cup {Dir}
  BY DEF Written
<1>2. new.inv = inv /\ new.inputs = inputs[Cell]
  OBVIOUS
<1> HIDE DEF new
<1>3. /\ DOMAIN runs' = DOMAIN runs \cup {Dir}
      /\ runs'[Dir] = new
      /\ \A d \in DOMAIN runs : d # Dir => runs'[d] = runs[d]
  BY <1>1 DEF Replaced
<1>4. <<Dir[1], Dir[2]>> = Cell
  <2>1. PICK a, b : Cell = <<a, b>>
    BY DEF Cell
  <2>2. PICK p : Dir = Append(<<a, b>>, p)
    BY <2>1 DEF Dir
  <2> QED
    BY <2>1, <2>2, DirName
<1>5. new.inputs = inputs[<<Dir[1], Dir[2]>>]
  BY <1>2, <1>4
<1>6. ASSUME NEW d, d = Dir PROVE Made(d)' /\ d \in logs'
  <2>1. d \in DOMAIN runs' /\ runs'[d] = new
    BY <1>3, <1>6
  <2>2. new.inputs = inputs'[<<d[1], d[2]>>] /\ new.inv = inv'
    BY <1>2, <1>5, <1>6
  <2>3. Made(d)'
    BY <2>1, <2>2 DEF Made
  <2> QED
    BY <1>1, <1>6, <2>3
<1>7. ASSUME NEW d, Made(d) PROVE Made(d)'
  <2>1. CASE d = Dir
    BY <1>6, <2>1
  <2>2. CASE d # Dir
    <3>1. d \in DOMAIN runs' /\ runs'[d] = runs[d]
      BY <1>3, <1>7, <2>2 DEF Made
    <3> QED
      BY <1>7, <3>1 DEF Made
  <2> QED
    BY <2>1, <2>2
<1>8. \A d : d \in logs => d \in logs'
  BY <1>1
<1> QED
  BY <1>6, <1>7, <1>8

\* A run that is not the last of its cell, and the last one.
LEMMA StoredRun ==
  ASSUME Placed, Stored, RunPolicy, pc' # "idle"
  PROVE  Stored'
<1> DEFINE n == Len(RunPolicies(args))
<1>1. /\ pc = "run" /\ UNCHANGED <<args, inv, gen, inputs, k>>
      /\ Written
      /\ \/ j <= n /\ j' = j + 1 /\ pc' = "run"
         \/ ~ (j <= n) /\ j' = 1 /\ pc' = "check"
  BY DEF RunPolicy, Stop, progress
<1>2. /\ args \in Invocations /\ Known(args) /\ n \in Nat
      /\ j \in Nat /\ 1 <= j /\ j <= n + 1
      /\ k \in Nat /\ 1 <= k
  BY <1>1, UnderWay, Sizes DEF Placed
<1>3. /\ Prepared(Cell)
      /\ \A m \in 1 .. (k - 1) : CellAt(m) # Cell => Fresh(CellAt(m)) /\ Logged(CellAt(m))
      /\ \A q \in 1 .. (j - 1) : Made(DirAt(q)) /\ DirAt(q) \in logs
  BY <1>1 DEF Stored
<1>4. /\ \E d : d = Dir /\ Made(d)' /\ d \in logs'
      /\ \A d : Made(d) => Made(d)'
      /\ \A d : d \in logs => d \in logs'
  BY <1>1, WrittenMakes
<1>5. Ran' = Ran /\ Cell' = Cell /\ \A m : CellAt(m)' = CellAt(m)
  BY <1>1, SameNames DEF Cell
<1>6. \A q : DirAt(q)' = DirAt(q)
  BY <1>1 DEF DirAt, Cell
<1>7. Prepared(Cell)'
  BY <1>1, <1>3, <1>5 DEF Prepared
<1>8. \A c : Fresh(c) /\ Logged(c) => Fresh(c)' /\ Logged(c)'
  BY <1>1, <1>4, <1>5 DEF Fresh, Logged, Prepared
<1>9. ASSUME NEW m \in 1 .. (k - 1), CellAt(m) # Cell PROVE Fresh(CellAt(m))' /\ Logged(CellAt(m))'
  <2>1. PICK c : c = CellAt(m)
    OBVIOUS
  <2>2. Fresh(c)' /\ Logged(c)'
    BY <1>3, <1>8, <1>9, <2>1
  <2>3. CellAt(m)' = c
    BY <1>5, <2>1
  <2> QED
    BY <2>2, <2>3 DEF Fresh, Logged, Prepared
<1>10. ASSUME NEW q \in 1 .. j
       PROVE  \E d : d = DirAt(q) /\ Made(d)' /\ d \in logs'
  <2>1. CASE q = j
    BY <1>4, <2>1, HereAndNow
  <2>2. CASE q # j
    <3>1. q \in 1 .. (j - 1)
      BY <1>2, <2>2
    <3> QED
      BY <1>3, <1>4, <3>1
  <2> QED
    BY <2>1, <2>2
<1>11. ~ Done'
  BY <1>1 DEF Done, Accepted, Ends
<1>12. CASE j <= n /\ j' = j + 1 /\ pc' = "run"
  <2>1. \A q : q \in 1 .. (j' - 1) => q \in 1 .. j
    BY <1>2, <1>12
  <2>2. ASSUME NEW q \in 1 .. (j' - 1) PROVE (Made(DirAt(q)) /\ DirAt(q) \in logs)'
    <3>1. PICK d : d = DirAt(q) /\ Made(d)' /\ d \in logs'
      BY <1>10, <2>1
    <3>2. DirAt(q)' = d
      BY <1>6, <3>1
    <3> QED
      BY <3>1, <3>2 DEF Made
  <2>3. \A m \in 1 .. (k' - 1) : (CellAt(m) # Cell => Fresh(CellAt(m)) /\ Logged(CellAt(m)))'
    BY <1>1, <1>5, <1>9
  <2> QED
    BY <1>7, <1>11, <1>12, <2>2, <2>3 DEF Stored
<1>13. CASE ~ (j <= n) /\ j' = 1 /\ pc' = "check"
  <2>1. j = n + 1
    BY <1>2, <1>13
  <2>2. ASSUME NEW p \in Ran PROVE \E d : d = Append(Cell, p) /\ Made(d)' /\ d \in logs'
    <3>1. PICK q \in 1 .. (n + 1) : DirAt(q) = Append(Cell, p)
      BY <1>2, DirsOfCell
    <3> QED
      BY <1>10, <2>1, <3>1
  <2>3. PICK c : c = Cell
    OBVIOUS
  <2>4. Fresh(c)' /\ Logged(c)'
    <3>1. Prepared(c)'
      BY <1>5, <1>7, <2>3 DEF Prepared
    <3>2. ASSUME NEW p \in Ran PROVE Made(Append(c, p))' /\ Append(c, p) \in logs'
      <4>1. PICK d : d = Append(Cell, p) /\ Made(d)' /\ d \in logs'
        BY <2>2
      <4>2. d = Append(c, p)
        BY <2>3, <4>1
      <4> QED
        BY <4>1, <4>2
    <3> QED
      BY <1>5, <3>1, <3>2 DEF Fresh, Logged
  <2>5. ASSUME NEW m \in 1 .. k' PROVE Fresh(CellAt(m))' /\ Logged(CellAt(m))'
    <3>1. CASE CellAt(m) = Cell
      <4>1. CellAt(m)' = c
        BY <1>5, <2>3, <3>1
      <4> QED
        BY <2>4, <4>1 DEF Fresh, Logged, Prepared
    <3>2. CASE CellAt(m) # Cell
      <4>1. m # k
        BY <3>2, HereAndNow
      <4>2. m \in 1 .. (k - 1)
        BY <1>1, <1>2, <4>1
      <4> QED
        BY <1>9, <3>2, <4>2
    <3> QED
      BY <3>1, <3>2
  <2> QED
    BY <1>11, <1>13, <2>5 DEF Stored
<1> QED
  BY <1>1, <1>12, <1>13

\* The checks touch no file: one more cell is done.
LEMMA StoredCheck ==
  ASSUME Placed, Stored, Check
  PROVE  Stored'
<1>1. /\ pc = "check" /\ UNCHANGED <<args, inv, gen, inputs, runs, logs>>
      /\ k' = k + 1
      /\ pc' = IF k' > NCells(args) THEN "prune" ELSE "inputs"
  BY DEF Check, progress, tree
<1>2. k \in Nat /\ k <= NCells(args) /\ NCells(args) \in Nat
  BY <1>1, UnderWay, Sizes DEF Placed
<1>3. \A m \in 1 .. k : Fresh(CellAt(m)) /\ Logged(CellAt(m))
  BY <1>1 DEF Stored
<1>4. NCells(args') = NCells(args) /\ \A m : CellAt(m)' = CellAt(m)
  BY <1>1, SameNames
<1>5. \A c : (Fresh(c)' <=> Fresh(c)) /\ (Logged(c)' <=> Logged(c))
  BY <1>1, SameFresh, SameNames DEF Logged
<1>6. ASSUME NEW m \in 1 .. k PROVE Fresh(CellAt(m))' /\ Logged(CellAt(m))'
  <2>1. PICK c : c = CellAt(m)
    OBVIOUS
  <2>2. Fresh(c)' /\ Logged(c)'
    BY <1>3, <1>5, <2>1
  <2>3. CellAt(m)' = c
    BY <1>4, <2>1
  <2> QED
    BY <2>2, <2>3 DEF Fresh, Logged, Prepared
<1>7. CASE k' > NCells(args) /\ pc' = "prune"
  <2>1. \A m : m \in 1 .. NCells(args') => m \in 1 .. k
    BY <1>1, <1>2, <1>4, <1>7
  <2> QED
    BY <1>6, <1>7, <2>1 DEF Stored
<1>8. CASE pc' = "inputs"
  <2>1. \A m : m \in 1 .. (k' - 1) => m \in 1 .. k
    BY <1>1, <1>2
  <2>2. ~ Done'
    BY <1>8 DEF Done, Accepted, Ends
  <2> QED
    BY <1>6, <1>8, <2>1, <2>2 DEF Stored
<1> QED
  BY <1>1, <1>7, <1>8

\* Pruning leaves the logs of the scenarios kept, and no others.
LEMMA StoredPrune ==
  ASSUME Placed, Stored, Prune
  PROVE  Stored'
<1>1. /\ pc = "prune" /\ pc' = "verdict" /\ UNCHANGED <<args, inv, gen, inputs, runs>>
      /\ logs' = {d \in logs : d[1] \in Keep(args)}
  BY DEF Prune, Pruned, progress
<1>2. args \in Invocations /\ Known(args)
  BY <1>1, UnderWay
<1>3. /\ \A m \in 1 .. NCells(args) : Fresh(CellAt(m))
      /\ \A m \in 1 .. NCells(args) : Logged(CellAt(m))
  BY <1>1 DEF Stored, Done, Ends
<1>4. /\ NCells(args') = NCells(args) /\ Keep(args') = Keep(args) /\ Ran' = Ran
      /\ \A m : CellAt(m)' = CellAt(m)
  BY <1>1, SameNames
<1>5. \A c : Fresh(c)' <=> Fresh(c)
  BY <1>1, SameFresh
<1>6. ASSUME NEW m \in 1 .. NCells(args) PROVE Fresh(CellAt(m))'
  <2>1. PICK c : c = CellAt(m)
    OBVIOUS
  <2>2. Fresh(c)'
    BY <1>3, <1>5, <2>1
  <2>3. CellAt(m)' = c
    BY <1>4, <2>1
  <2> QED
    BY <2>2, <2>3 DEF Fresh, Prepared
<1>7. ASSUME NEW m \in 1 .. NCells(args), CellAt(m)[1] \in Keep(args) PROVE Logged(CellAt(m))'
  <2>1. PICK c : c = CellAt(m)
    OBVIOUS
  <2>2. PICK a, b : c = <<a, b>>
    BY <1>2, <2>1, CellInside
  <2>3. ASSUME NEW p \in Ran PROVE Append(c, p) \in logs'
    <3>1. Append(c, p) \in logs
      BY <1>3, <2>1 DEF Logged
    <3>2. Append(c, p)[1] = a /\ c[1] = a
      BY <2>2, DirName
    <3> QED
      BY <1>1, <1>7, <2>1, <3>1, <3>2
  <2>4. CellAt(m)' = c
    BY <1>4, <2>1
  <2> QED
    BY <1>4, <2>3, <2>4 DEF Logged
<1>8. \A d \in logs' : d[1] \in Keep(args')
  BY <1>1, <1>4
<1> QED
  BY <1>1, <1>4, <1>6, <1>7, <1>8 DEF Stored

\* Every step keeps what is in the directory for the cells done.
LEMMA StoredStep ==
  ASSUME Placed, Stored, [Next]_vars
  PROVE  Stored'
<1>1. CASE Refuse
  <2>1. /\ UNCHANGED <<args, inv, gen, inputs, runs, logs, completed>>
        /\ pc = "idle" /\ pc' = "idle"
    BY <1>1 DEF Refuse, Stop, progress, tree, outputs
  <2>2. Done' => Done /\ pc # "prune"
    BY <2>1 DEF Done, Accepted, Ends
  <2> QED
    BY <2>1, <2>2, StoredLater
<1>2. CASE Start
  <2>1. pc' = "preflight"
    BY <1>2 DEF Start
  <2>2. ~ Done'
    BY <2>1 DEF Done, Accepted, Ends
  <2> QED
    BY <2>1, <2>2 DEF Stored
<1>3. CASE Preflight
  <2>1. /\ pc = "preflight" /\ inv' = inv /\ completed' = completed
        /\ pc' = "idle" \/ (pc' = "inputs" /\ k' = k)
    BY <1>3 DEF Preflight, Stop, progress
  <2>2. CASE pc' = "idle"
    BY <2>1, <2>2, StoredStopped
  <2>3. CASE pc' = "inputs" /\ k' = k
    <3>1. k = 1
      BY <2>1 DEF Placed
    <3>2. \A m : m \notin 1 .. (k' - 1)
      BY <2>3, <3>1
    <3>3. ~ Done'
      BY <2>3 DEF Done, Accepted, Ends
    <3> QED
      BY <2>3, <3>2, <3>3 DEF Stored
  <2> QED
    BY <2>1, <2>2, <2>3
<1>4. CASE WriteInputs
  <2>1. pc = "inputs" /\ inv' = inv /\ completed' = completed /\ pc' \in {"run", "idle"}
    BY <1>4 DEF WriteInputs, Stop, progress, outputs
  <2> QED
    BY <1>4, <2>1, StoredInputs, StoredStopped
<1>5. CASE RunPolicy
  <2>1. pc = "run" /\ inv' = inv /\ completed' = completed
    BY <1>5 DEF RunPolicy, progress, outputs
  <2> QED
    BY <1>5, <2>1, StoredRun, StoredStopped
<1>6. CASE Check
  BY <1>6, StoredCheck
<1>7. CASE Prune
  BY <1>7, StoredPrune
<1>8. CASE WriteChecks \/ (WriteTables /\ pc' # "idle") \/ WriteManifest
  <2>1. /\ UNCHANGED <<args, inv, gen, inputs, runs, logs>>
        /\ pc \in {"verdict", "tables", "manifest"}
        /\ pc' \in {"idle", "tables", "manifest"}
    BY <1>8 DEF WriteChecks, WriteTables, WriteManifest, Stop, progress, tree
  <2>2. Done /\ pc # "prune"
    BY <2>1 DEF Done, Ends
  <2> QED
    BY <2>1, <2>2, StoredLater
<1>9. CASE (WriteTables /\ pc' = "idle") \/ Kill
  <2>1. pc # "idle" /\ pc' = "idle" /\ inv' = inv /\ completed' = completed
    BY <1>9 DEF WriteTables, Kill, Stop, progress, outputs
  <2> QED
    BY <2>1, StoredStopped
<1>10. CASE Resummarize \/ Edit \/ UNCHANGED vars
  <2>1. /\ UNCHANGED <<args, inv, gen, inputs, runs, logs>>
        /\ pc' = pc /\ k' = k /\ j' = j /\ completed' = completed
    BY <1>10 DEF Resummarize, Edit, vars, progress, tree, outputs
  <2> QED
    BY <2>1, StoredSame
<1> QED
  BY <1>1, <1>2, <1>3, <1>4, <1>5, <1>6, <1>7, <1>8, <1>9, <1>10 DEF Next

-----------------------------------------------------------------------------
(* The verdict. *)

\* Entries stay: what was covered still is.
LEMMA StillCovered ==
  ASSUME args' = args, verdicts \subseteq verdicts'
  PROVE  \A c : Covered(c) => Covered(c)'
<1> SUFFICES ASSUME NEW c, Covered(c) PROVE Covered(c)'
  OBVIOUS
<1>1. RunPolicies(args') = RunPolicies(args)
  OBVIOUS
<1> QED
  BY <1>1 DEF Covered, RunChecks, Comparisons

\* So are the cells, up to any number.
LEMMA CellsCovered ==
  ASSUME args' = args, verdicts \subseteq verdicts', NEW T, \A m \in T : Covered(CellAt(m))
  PROVE  \A m \in T : Covered(CellAt(m))'
<1> SUFFICES ASSUME NEW m \in T PROVE Covered(CellAt(m))'
  OBVIOUS
<1>1. PICK c : c = CellAt(m)
  OBVIOUS
<1>2. Covered(c)'
  BY <1>1, StillCovered
<1>3. CellAt(m)' = c
  BY <1>1, SameNames
<1> QED
  BY <1>2, <1>3 DEF Covered

\* Every step keeps the entries of the cells done, and the verdict made of them.
LEMMA JudgedStep ==
  ASSUME Placed, Judged, [Next]_vars
  PROVE  Judged'
<1>1. CASE Refuse
  <2>1. /\ UNCHANGED <<args, inv, verdicts, checks, completed>>
        /\ pc = "idle" /\ pc' = "idle" /\ exit' = "aborted"
    BY <1>1 DEF Refuse, Stop, progress, outputs
  <2>2. Done' => Done
    BY <2>1 DEF Done, Accepted, Ends
  <2>3. Accepted' => Accepted
    BY <2>1 DEF Accepted
  <2>4. NCells(args') = NCells(args)
    BY <2>1
  <2>5. Done => \A m \in 1 .. NCells(args) : Covered(CellAt(m))'
    <3>1. Done => \A m \in 1 .. NCells(args) : Covered(CellAt(m))
      BY DEF Judged
    <3> QED
      BY <2>1, <3>1, CellsCovered
  <2>6. Accepted' => checks' = [inv |-> inv', all_passed |-> AllPassed']
    BY <2>1, <2>3 DEF Judged, AllPassed
  <2> QED
    BY <2>1, <2>2, <2>4, <2>5, <2>6 DEF Judged
<1>2. CASE Start
  <2>1. pc' = "preflight"
    BY <1>2 DEF Start
  <2>2. ~ Done' /\ ~ Accepted'
    BY <2>1 DEF Done, Accepted, Ends
  <2> QED
    BY <2>1, <2>2 DEF Judged
<1>3. CASE Preflight /\ pc' # "idle"
  <2>1. pc = "preflight" /\ pc' = "inputs" /\ k' = k
    BY <1>3 DEF Preflight, Stop
  <2>2. k = 1
    BY <2>1 DEF Placed
  <2>3. \A m : m \notin 1 .. (k' - 1)
    BY <2>1, <2>2
  <2>4. ~ Done' /\ ~ Accepted'
    BY <2>1 DEF Done, Accepted, Ends
  <2> QED
    BY <2>1, <2>3, <2>4 DEF Judged
<1>4. CASE (WriteInputs \/ RunPolicy) /\ pc' # "idle"
  <2>1. /\ pc \in {"inputs", "run"} /\ pc' \in {"run", "check"}
        /\ UNCHANGED <<args, verdicts, k>>
    BY <1>4 DEF WriteInputs, RunPolicy, Stop, progress
  <2>2. \A m \in 1 .. (k - 1) : Covered(CellAt(m))
    BY <2>1 DEF Judged
  <2>3. \A m \in 1 .. (k - 1) : Covered(CellAt(m))'
    BY <2>1, <2>2, CellsCovered
  <2>4. ~ Done' /\ ~ Accepted'
    BY <2>1 DEF Done, Accepted, Ends
  <2> QED
    BY <2>1, <2>3, <2>4 DEF Judged
<1>5. CASE Check
  <2>1. /\ pc = "check" /\ args' = args /\ k' = k + 1
        /\ pc' = IF k' > NCells(args) THEN "prune" ELSE "inputs"
        /\ \E failing \in {{}} \cup {{e} : e \in Entries} :
             verdicts' = verdicts \cup {Verdict(e[1], e[2], e \notin failing) : e \in Entries}
    BY <1>5 DEF Check, progress
  <2>2. k \in Nat /\ 1 <= k /\ k <= NCells(args) /\ NCells(args) \in Nat
    BY <2>1, UnderWay, Sizes DEF Placed
  <2>3. PICK failing :
          verdicts' = verdicts \cup {Verdict(e[1], e[2], e \notin failing) : e \in Entries}
    BY <2>1
  <2>4. ASSUME NEW e \in Entries PROVE \E v \in verdicts' : v.what = e[1] /\ v.where = e[2]
    <3> DEFINE v == Verdict(e[1], e[2], e \notin failing)
    <3>1. v \in verdicts'
      BY <2>3
    <3>2. v.what = e[1] /\ v.where = e[2]
      BY DEF Verdict
    <3> QED
      BY <3>1, <3>2
  <2>5. PICK c : c = Cell
    OBVIOUS
  <2>6. ASSUME NEW x \in RunChecks, NEW p \in Range(RunPolicies(args))
        PROVE  \E v \in verdicts' : v.what = x /\ v.where = Append(c, p)
    <3>1. <<x, Append(c, p)>> \in Entries
      BY <2>5 DEF Entries
    <3>2. <<x, Append(c, p)>>[1] = x /\ <<x, Append(c, p)>>[2] = Append(c, p)
      OBVIOUS
    <3> QED
      BY <2>4, <3>1, <3>2
  <2>7. ASSUME NEW x \in Comparisons PROVE \E v \in verdicts' : v.what = x /\ v.where = c
    <3>1. <<x, c>> \in Entries
      BY <2>5 DEF Entries
    <3>2. <<x, c>>[1] = x /\ <<x, c>>[2] = c
      OBVIOUS
    <3> QED
      BY <2>4, <3>1, <3>2
  <2>8. Covered(c)'
    BY <2>1, <2>6, <2>7 DEF Covered, RunChecks, Comparisons
  <2>9. \A m \in 1 .. (k - 1) : Covered(CellAt(m))'
    <3>1. \A m \in 1 .. (k - 1) : Covered(CellAt(m))
      BY <2>1 DEF Judged
    <3> QED
      BY <2>1, <2>3, <3>1, CellsCovered
  <2>10. ASSUME NEW m \in 1 .. k PROVE Covered(CellAt(m))'
    <3>1. CASE m = k
      <4>1. CellAt(m)' = c
        BY <2>1, <2>5, <3>1, SameNames, HereAndNow
      <4> QED
        BY <2>8, <4>1 DEF Covered
    <3>2. CASE m # k
      <4>1. m \in 1 .. (k - 1)
        BY <2>2, <3>2
      <4> QED
        BY <2>9, <4>1
    <3> QED
      BY <3>1, <3>2
  <2>11. CASE k' > NCells(args) /\ pc' = "prune"
    <3>1. \A m : m \in 1 .. NCells(args') => m \in 1 .. k
      BY <2>1, <2>2, <2>11
    <3>2. ~ Accepted'
      BY <2>11 DEF Accepted
    <3> QED
      BY <2>10, <2>11, <3>1, <3>2 DEF Judged
  <2>12. CASE pc' = "inputs"
    <3>1. \A m : m \in 1 .. (k' - 1) => m \in 1 .. k
      BY <2>1, <2>2
    <3>2. ~ Done' /\ ~ Accepted'
      BY <2>12 DEF Done, Accepted, Ends
    <3> QED
      BY <2>10, <2>12, <3>1, <3>2 DEF Judged
  <2> QED
    BY <2>1, <2>11, <2>12
<1>6. CASE Prune \/ WriteChecks \/ (WriteTables /\ pc' # "idle") \/ WriteManifest
  <2>1. /\ pc \in Ends /\ pc' \in {"verdict", "tables", "manifest", "idle"}
        /\ UNCHANGED <<args, inv, verdicts>>
    BY <1>6 DEF Prune, WriteChecks, WriteTables, WriteManifest, Stop, progress, Ends
  <2>2. \A m \in 1 .. NCells(args) : Covered(CellAt(m))'
    <3>1. \A m \in 1 .. NCells(args) : Covered(CellAt(m))
      BY <2>1 DEF Judged, Done
    <3> QED
      BY <2>1, <3>1, CellsCovered
  <2>3. NCells(args') = NCells(args) /\ AllPassed' = AllPassed
    BY <2>1 DEF AllPassed
  <2>4. pc' \in {"tables", "manifest"} \/ Accepted' =>
          checks' = [inv |-> inv', all_passed |-> AllPassed']
    <3>1. CASE Prune
      BY <3>1 DEF Prune, Accepted
    <3>2. CASE WriteChecks
      BY <2>1, <2>3, <3>2 DEF WriteChecks
    <3>3. CASE WriteTables \/ WriteManifest
      <4>1. pc \in {"tables", "manifest"} /\ checks' = checks
        BY <3>3 DEF WriteTables, WriteManifest, outputs
      <4>2. checks = [inv |-> inv, all_passed |-> AllPassed]
        BY <4>1 DEF Judged
      <4> QED
        BY <2>1, <2>3, <4>1, <4>2
    <3> QED
      BY <1>6, <3>1, <3>2, <3>3
  <2>5. Accepted' /\ exit' = "ok" => AllPassed'
    <3>1. CASE WriteManifest
      <4>1. exit' = IF AllPassed THEN "ok" ELSE "checks_failed"
        BY <3>1 DEF WriteManifest, Stop
      <4> QED
        BY <2>3, <4>1
    <3>2. CASE Prune \/ WriteChecks \/ (WriteTables /\ pc' # "idle")
      BY <3>2 DEF Prune, WriteChecks, WriteTables, Stop, Accepted
    <3> QED
      BY <1>6, <3>1, <3>2
  <2> QED
    BY <2>1, <2>2, <2>3, <2>4, <2>5 DEF Judged
<1>7. CASE pc # "idle" /\ pc' = "idle" /\ inv' = inv /\ completed' = completed
  <2>1. ~ Done'
    BY <1>7, StoredStopped
  <2>2. ~ Accepted'
    BY <2>1 DEF Done
  <2> QED
    BY <1>7, <2>1, <2>2 DEF Judged
<1>8. CASE Resummarize \/ Edit \/ UNCHANGED vars
  <2>1. /\ UNCHANGED <<args, inv, verdicts, checks, completed, exit>>
        /\ pc' = pc /\ k' = k
    BY <1>8 DEF Resummarize, Edit, vars, progress, tree, outputs
  <2>2. (Done' <=> Done) /\ (Accepted' <=> Accepted)
    BY <2>1 DEF Done, Accepted
  <2>3. NCells(args') = NCells(args) /\ AllPassed' = AllPassed
    BY <2>1 DEF AllPassed
  <2>4. pc \in {"inputs", "run", "check"} => \A m \in 1 .. (k - 1) : Covered(CellAt(m))'
    <3>1. pc \in {"inputs", "run", "check"} => \A m \in 1 .. (k - 1) : Covered(CellAt(m))
      BY DEF Judged
    <3> QED
      BY <2>1, <3>1, CellsCovered
  <2>5. Done => \A m \in 1 .. NCells(args) : Covered(CellAt(m))'
    <3>1. Done => \A m \in 1 .. NCells(args) : Covered(CellAt(m))
      BY DEF Judged
    <3> QED
      BY <2>1, <3>1, CellsCovered
  <2>6. /\ pc \in {"tables", "manifest"} \/ Accepted => checks' = [inv |-> inv', all_passed |-> AllPassed']
        /\ Accepted /\ exit = "ok" => AllPassed'
    BY <2>1, <2>3 DEF Judged
  <2> QED
    BY <2>1, <2>2, <2>3, <2>4, <2>5, <2>6 DEF Judged
<1>9. /\ (Preflight \/ WriteInputs \/ RunPolicy \/ WriteTables) /\ pc' = "idle" =>
           pc # "idle" /\ inv' = inv /\ completed' = completed
      /\ Kill => pc # "idle" /\ pc' = "idle" /\ inv' = inv /\ completed' = completed
  BY DEF Preflight, WriteInputs, RunPolicy, WriteTables, Kill, Stop, progress, outputs
<1> QED
  BY <1>1, <1>2, <1>3, <1>4, <1>5, <1>6, <1>7, <1>8, <1>9 DEF Next

-----------------------------------------------------------------------------
(* What was published. *)

\* A step that touches no output leaves it in order.
LEMMA PublishedSame ==
  ASSUME Published, UNCHANGED <<args, inputs, dirs, runs, checks, tables, manifest>>,
         Accepted' => Accepted, pc' = "manifest" => pc = "manifest"
  PROVE  Published'
<1>1. /\ (Complete(args)' <=> Complete(args))
      /\ TablesOf(args)' = TablesOf(args) /\ ManifestOf(args)' = ManifestOf(args)
  BY DEF Complete, TablesOf, ManifestOf, Selected
<1> QED
  BY <1>1 DEF Published

\* A manifest names what it selects, and is not missing.
LEMMA ManifestThere == ASSUME NEW a PROVE ManifestOf(a) # Missing /\ ManifestOf(a).sel = a
<1>1. "sel" \in DOMAIN ManifestOf(a) /\ ManifestOf(a).sel = a
  BY DEF ManifestOf
<1>2. "sel" \notin DOMAIN Missing
  BY DEF Missing
<1> QED
  BY <1>1, <1>2

\* Every step keeps tables and manifest about the invocation that came to its end: to
\* aggregate again what its manifest selects changes nothing.
LEMMA PublishedStep ==
  ASSUME Placed, Published, [Next]_vars
  PROVE  Published'
<1>1. CASE Refuse \/ Edit \/ UNCHANGED vars
  <2>1. /\ UNCHANGED <<args, inputs, dirs, runs, checks, tables, manifest, inv, completed>>
        /\ pc' = pc
    BY <1>1 DEF Refuse, Stop, Edit, vars, progress, tree, outputs
  <2>2. Accepted' => Accepted
    BY <2>1 DEF Accepted
  <2> QED
    BY <2>1, <2>2, PublishedSame
<1>2. CASE Start
  BY <1>2 DEF Start, Published, Accepted
<1>3. CASE Preflight \/ WriteInputs \/ RunPolicy \/ Check \/ Prune \/ WriteChecks \/ Kill
           \/ (WriteTables /\ pc' # "manifest")
  <2>1. pc # "idle" /\ pc' # "manifest" /\ inv' = inv /\ completed' = completed
    <3>1. CASE Preflight \/ WriteInputs \/ Kill
      BY <3>1 DEF Preflight, WriteInputs, Kill, Stop, progress, outputs
    <3>2. CASE RunPolicy
      BY <3>2 DEF RunPolicy, Stop, progress, outputs
    <3>3. CASE Check \/ Prune \/ WriteChecks
      BY <3>3 DEF Check, Prune, WriteChecks, progress, outputs
    <3>4. CASE WriteTables /\ pc' # "manifest"
      BY <3>4 DEF WriteTables, progress
    <3> QED
      BY <1>3, <3>1, <3>2, <3>3, <3>4
  <2>2. ~ Accepted'
    BY <2>1, UnderWay DEF Accepted
  <2> QED
    BY <2>1, <2>2 DEF Published
<1>4. CASE WriteTables /\ pc' = "manifest"
  <2>1. /\ Complete(args) /\ tables' = TablesOf(args)
        /\ UNCHANGED <<args, dirs, runs, checks>>
    BY <1>4 DEF WriteTables, Stop, progress, tree
  <2>2. Complete(args)' /\ tables' = TablesOf(args)'
    BY <2>1 DEF Complete, TablesOf, Selected
  <2>3. ~ Accepted'
    BY <1>4 DEF Accepted
  <2> QED
    BY <2>2, <2>3 DEF Published
<1>5. CASE WriteManifest
  <2>1. /\ pc = "manifest" /\ pc' # "manifest" /\ manifest' = ManifestOf(args)
        /\ UNCHANGED <<args, inputs, dirs, runs, checks, tables>>
    BY <1>5 DEF WriteManifest, Stop, progress, tree
  <2>2. Complete(args) /\ tables = TablesOf(args)
    BY <2>1 DEF Published
  <2>3. Complete(args)' /\ tables' = TablesOf(args)'
    BY <2>1, <2>2 DEF Complete, TablesOf, Selected
  <2>4. manifest' = ManifestOf(args)'
    BY <2>1 DEF ManifestOf
  <2> QED
    BY <2>3, <2>4 DEF Published
<1>6. CASE Resummarize
  <2>1. /\ pc = "idle" /\ pc' = pc
        /\ UNCHANGED <<args, inv, completed, inputs, dirs, runs, checks>>
    BY <1>6 DEF Resummarize, progress, tree
  <2>2. CASE Accepted
    <3>1. /\ Complete(args) /\ tables = TablesOf(args) /\ manifest = ManifestOf(args)
      BY <2>2 DEF Published
    <3>2. manifest # Missing /\ manifest.sel = args
      BY <3>1, ManifestThere
    <3>3. tables' = TablesOf(args) /\ manifest' \in {manifest, ManifestOf(args)}
      BY <1>6, <3>1, <3>2 DEF Resummarize
    <3>4. tables' = tables /\ manifest' = manifest
      BY <3>1, <3>3
    <3> QED
      BY <2>1, <2>2, <3>4, PublishedSame
  <2>3. CASE ~ Accepted
    <3>1. ~ Accepted' /\ pc' # "manifest"
      BY <2>1, <2>3 DEF Accepted
    <3> QED
      BY <3>1 DEF Published
  <2> QED
    BY <2>2, <2>3
<1> QED
  BY <1>1, <1>2, <1>3, <1>4, <1>5, <1>6 DEF Next

-----------------------------------------------------------------------------
(* The invariant. *)

\* The output directory is empty to begin with.
LEMMA MInvInit == Init => MInv
<1> SUFFICES ASSUME Init PROVE MInv
  OBVIOUS
<1>1. pc = "idle" /\ inv = 0 /\ completed = 0 /\ k = 1 /\ j = 1
  BY DEF Init
<1>2. ~ Accepted /\ ~ Done
  BY <1>1 DEF Accepted, Done, Ends
<1>3. Placed
  BY <1>1 DEF Placed
<1>4. Stored
  BY <1>1, <1>2 DEF Stored
<1>5. Judged
  BY <1>1, <1>2 DEF Judged
<1>6. Published
  BY <1>1, <1>2 DEF Published
<1> QED
  BY <1>3, <1>4, <1>5, <1>6 DEF MInv

\* The invariant holds at every step.
THEOREM MatrixInvariant == Spec => []MInv
<1>1. MInv /\ [Next]_vars => MInv'
  BY PlacedStep, StoredStep, JudgedStep, PublishedStep DEF MInv
<1> QED
  BY <1>1, MInvInit, PTL DEF Spec

-----------------------------------------------------------------------------
(* The properties. *)

\* The policies asked for and those of the checks are run.
LEMMA RanThere ==
  ASSUME args \in Invocations, Known(args)
  PROVE  /\ Range(args.policies) \subseteq Range(RunPolicies(args))
         /\ Ran = Range(RunPolicies(args)) \cup {ABLATION_DIR}
         /\ {"edf_rr", "fresh_nodefer", ABLATION_DIR} \subseteq Ran
<1>1. Range(RunPolicies(args)) = Range(args.policies) \cup Range(CheckPolicies)
  BY RunPoliciesRange
<1>2. {"edf_rr", "fresh_nodefer"} \subseteq Range(CheckPolicies)
  BY MatrixAssumption
<1> QED
  BY <1>1, <1>2 DEF Ran

\* What was asked for, run by run.
LEMMA RequestedRun ==
  ASSUME args \in Invocations, NEW d \in Requested
  PROVE  /\ d[3] \in Range(args.policies)
         /\ d = Append(<<d[1], d[2]>>, d[3])
         /\ \E m \in 1 .. NCells(args) : CellAt(m) = <<d[1], d[2]>>
<1>1. /\ d[1] \in Range(args.scenarios) /\ d[2] \in Range(args.seeds)
      /\ d[3] \in Range(args.policies) /\ d = <<d[1], d[2], d[3]>>
  BY DEF Requested
<1>2. Append(<<d[1], d[2]>>, d[3]) = <<d[1], d[2], d[3]>>
  BY DirName
<1>3. \E m \in 1 .. NCells(args) : CellAt(m) = <<d[1], d[2]>>
  BY <1>1, CellExists
<1> QED
  BY <1>1, <1>2, <1>3

\* At its end an invocation has aggregated what was asked for.
LEMMA AtTheEnd ==
  ASSUME MInv, Accepted
  PROVE  /\ inv > 0 /\ args \in Invocations /\ Known(args)
         /\ tables = TablesOf(args) /\ manifest = ManifestOf(args)
         /\ DOMAIN tables.rows = Requested
         /\ \A d \in Requested : tables.rows[d] = runs[d]
<1>1. inv > 0 /\ args \in Invocations /\ Known(args)
  BY DEF MInv, Placed, Accepted
<1>2. tables = TablesOf(args) /\ manifest = ManifestOf(args)
  BY DEF MInv, Published
<1>3. Selected(args) = Requested
  BY <1>1, Lists DEF Selected, Requested
<1>4. tables.rows = [d \in Requested |-> runs[d]]
  BY <1>2, <1>3 DEF TablesOf
<1> QED
  BY <1>1, <1>2, <1>4

\* The tables of an invocation that came to its end are about its own runs and no
\* others, made from the input files that are there, whatever was left by earlier ones.
THEOREM MatrixTablesAreFresh == Spec => []TablesAreFresh
<1>1. MInv => TablesAreFresh
  <2> SUFFICES ASSUME MInv, Accepted
               PROVE  /\ DOMAIN tables.rows = Requested
                      /\ \A d \in Requested :
                           /\ tables.rows[d].inv = inv
                           /\ tables.rows[d].inputs = inputs[<<d[1], d[2]>>]
                           /\ tables.rows[d].inputs.workload = gen
                           /\ tables.rows[d].inputs.trace = gen
                           /\ manifest.runs[d] = tables.rows[d]
    BY DEF TablesAreFresh
  <2>1. /\ args \in Invocations /\ Known(args) /\ manifest = ManifestOf(args)
        /\ DOMAIN tables.rows = Requested
        /\ \A d \in Requested : tables.rows[d] = runs[d]
    BY AtTheEnd
  <2>2. \A m \in 1 .. NCells(args) : Fresh(CellAt(m))
    BY DEF MInv, Stored, Done
  <2>3. ASSUME NEW d \in Requested
        PROVE  /\ runs[d].inv = inv /\ runs[d].inputs = inputs[<<d[1], d[2]>>]
               /\ runs[d].inputs.workload = gen /\ runs[d].inputs.trace = gen
    <3> DEFINE c == <<d[1], d[2]>>
    <3>1. d[3] \in Range(args.policies) /\ d = Append(c, d[3])
          /\ \E m \in 1 .. NCells(args) : CellAt(m) = c
      BY <2>1, RequestedRun
    <3>2. d[3] \in Ran
      BY <2>1, <3>1, RanThere
    <3>3. Fresh(c)
      BY <2>2, <3>1
    <3>4. Made(d) /\ Prepared(c)
      BY <3>1, <3>2, <3>3 DEF Fresh
    <3> QED
      BY <3>4 DEF Made, Prepared
  <2>4. \A d \in Requested : manifest.runs[d] = tables.rows[d]
    BY <2>1 DEF ManifestOf
  <2> QED
    BY <2>1, <2>3, <2>4
<1> QED
  BY <1>1, MatrixInvariant, PTL

\* The verdict covers every run in the tables and every comparison of every cell, and
\* checks.json, the tables and the status say what it says.
THEOREM MatrixVerdictCovers == Spec => []VerdictCovers
<1>1. MInv => VerdictCovers
  <2> SUFFICES ASSUME MInv, Accepted
               PROVE  /\ \A d \in DOMAIN tables.rows : \A c \in RunChecks :
                           \E v \in verdicts : v.what = c /\ v.where = d
                      /\ \A d \in DOMAIN tables.rows : \A c \in Comparisons :
                           \E v \in verdicts : v.what = c /\ v.where = <<d[1], d[2]>>
                      /\ exit = "ok" => \A v \in verdicts : v.passed
                      /\ checks = [inv |-> inv, all_passed |-> \A v \in verdicts : v.passed]
                      /\ tables.checks = checks
    BY DEF VerdictCovers
  <2>1. /\ args \in Invocations /\ Known(args) /\ tables = TablesOf(args)
        /\ DOMAIN tables.rows = Requested
    BY AtTheEnd
  <2>2. \A m \in 1 .. NCells(args) : Covered(CellAt(m))
    BY DEF MInv, Judged, Done
  <2>3. ASSUME NEW d \in Requested
        PROVE  /\ \A x \in RunChecks : \E v \in verdicts : v.what = x /\ v.where = d
               /\ \A x \in Comparisons : \E v \in verdicts : v.what = x /\ v.where = <<d[1], d[2]>>
    <3>1. PICK c : c = <<d[1], d[2]>>
      OBVIOUS
    <3>2. d[3] \in Range(args.policies) /\ d = Append(c, d[3])
          /\ \E m \in 1 .. NCells(args) : CellAt(m) = c
      BY <2>1, <3>1, RequestedRun
    <3>3. d[3] \in Range(RunPolicies(args))
      BY <2>1, <3>2, RanThere
    <3>4. Covered(c)
      BY <2>2, <3>2
    <3>5. \A x \in RunChecks : \E v \in verdicts : v.what = x /\ v.where = Append(c, d[3])
      BY <3>3, <3>4 DEF Covered
    <3>6. \A x \in Comparisons : \E v \in verdicts : v.what = x /\ v.where = c
      BY <3>4 DEF Covered
    <3> QED
      BY <3>1, <3>2, <3>5, <3>6
  <2>4. checks = [inv |-> inv, all_passed |-> AllPassed] /\ (exit = "ok" => AllPassed)
    BY DEF MInv, Judged
  <2>5. tables.checks = checks
    BY <2>1 DEF TablesOf
  <2> QED
    BY <2>1, <2>3, <2>4, <2>5 DEF AllPassed
<1> QED
  BY <1>1, MatrixInvariant, PTL

\* What is compared was made by this invocation, from the same inputs, and is there.
THEOREM MatrixComparedAreMatched == Spec => []ComparedAreMatched
<1>1. MInv => ComparedAreMatched
  <2> SUFFICES ASSUME MInv, pc = "check", NEW p \in {"edf_rr", "fresh_nodefer", ABLATION_DIR}
               PROVE  /\ Append(Cell, p) \in logs
                      /\ runs[Append(Cell, p)].inv = inv
                      /\ runs[Append(Cell, p)].inputs = inputs[Cell]
    BY DEF ComparedAreMatched
  <2>1. args \in Invocations /\ Known(args) /\ k \in 1 .. k
    BY UnderWay DEF MInv, Placed
  <2>2. Fresh(Cell) /\ Logged(Cell)
    BY <2>1, HereAndNow DEF MInv, Stored
  <2>3. p \in Ran
    BY <2>1, RanThere
  <2>4. Made(Append(Cell, p)) /\ Append(Cell, p) \in logs
    BY <2>2, <2>3 DEF Fresh, Logged
  <2>5. Cell = <<Append(Cell, p)[1], Append(Cell, p)[2]>>
    BY DirName DEF Cell
  <2> QED
    BY <2>4, <2>5 DEF Made
<1> QED
  BY <1>1, MatrixInvariant, PTL

\* The logs kept are those of the scenarios kept, all of them and no others.
THEOREM MatrixLogsAsAsked == Spec => []LogsAsAsked
<1>1. MInv => LogsAsAsked
  <2> SUFFICES ASSUME MInv, Accepted
               PROVE  /\ \A d \in logs : d[1] \in Keep(args)
                      /\ \A d \in Requested : d[1] \in Keep(args) =>
                           d \in logs /\ <<d[1], d[2], ABLATION_DIR>> \in logs
    BY DEF LogsAsAsked
  <2>1. args \in Invocations /\ Known(args)
    BY AtTheEnd
  <2>2. /\ \A d \in logs : d[1] \in Keep(args)
        /\ \A m \in 1 .. NCells(args) : CellAt(m)[1] \in Keep(args) => Logged(CellAt(m))
    BY DEF MInv, Stored, Done, Accepted
  <2>3. ASSUME NEW d \in Requested, d[1] \in Keep(args)
        PROVE  d \in logs /\ <<d[1], d[2], ABLATION_DIR>> \in logs
    <3> DEFINE c == <<d[1], d[2]>>
    <3>1. d[3] \in Range(args.policies) /\ d = Append(c, d[3])
          /\ \E m \in 1 .. NCells(args) : CellAt(m) = c
      BY <2>1, RequestedRun
    <3>2. d[3] \in Ran /\ ABLATION_DIR \in Ran
      BY <2>1, <3>1, RanThere
    <3>3. Logged(c)
      BY <2>2, <2>3, <3>1
    <3>4. d \in logs /\ Append(c, ABLATION_DIR) \in logs
      BY <3>1, <3>2, <3>3 DEF Logged
    <3>5. Append(c, ABLATION_DIR) = <<d[1], d[2], ABLATION_DIR>>
      BY DirName
    <3> QED
      BY <3>4, <3>5
  <2> QED
    BY <2>2, <2>3
<1> QED
  BY <1>1, MatrixInvariant, PTL
=============================================================================
