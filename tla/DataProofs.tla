----------------------------- MODULE DataProofs -----------------------------
(***************************************************************************)
(* Least and greatest elements, ranks, and what SumFunction of Functions   *)
(* returns: facts about data.  Those about sums are proved by taking a     *)
(* smallest counterexample, the one form of induction the provers can      *)
(* follow here.                                                            *)
(***************************************************************************)
EXTENDS Integers, FiniteSets, Functions, FiniteSetTheorems, WellFoundedInduction, TLAPS

-----------------------------------------------------------------------------
(* Least elements. *)

\* A nonempty set of naturals has a least element.
LEMMA NatMin ==
  ASSUME NEW T, T \subseteq Nat, T # {}
  PROVE  \E m \in T : \A n \in T : m <= n
<1>1. PICK m \in T : \A y \in T : ~ (<<y, m>> \in OpToRel(<, Nat))
  BY NatLessThanWellFounded, WFMin, Zenon
<1>2. \A y \in T : ~ (y < m)
  BY <1>1 DEF OpToRel
<1> QED
  BY <1>2

\* A finite set has finitely many values under a function.
LEMMA ValuesFinite ==
  ASSUME NEW S, IsFiniteSet(S), NEW f, DOMAIN f = S, f = [x \in S |-> f[x]]
  PROVE  IsFiniteSet({f[x] : x \in S})
<1> DEFINE T == {f[x] : x \in S}
<1>1. f \in [S -> T]
  OBVIOUS
<1>2. \A y \in T : \E x \in S : f[x] = y
  OBVIOUS
<1> HIDE DEF T
<1>3. f \in Surjection(S, T)
  BY <1>1, <1>2 DEF Surjection
<1>4. IsFiniteSet(T)
  BY <1>3, FS_Surjection
<1> QED
  BY <1>4 DEF T

-----------------------------------------------------------------------------
(* Ranks. *)

\* The rank of p in c: how many members of c are no larger.
RankIn(c, p) == Cardinality({q \in c : q <= p})

\* The ranks of a finite set of numbers: from one to its size, growing with the number.
LEMMA RankRange ==
  ASSUME NEW c, c \subseteq Nat, IsFiniteSet(c), NEW p \in c
  PROVE  RankIn(c, p) \in Nat /\ 1 <= RankIn(c, p) /\ RankIn(c, p) <= Cardinality(c)
<1> DEFINE below == {q \in c : q <= p}
<1>1. below \in SUBSET c /\ p \in below
  OBVIOUS
<1>2. IsFiniteSet(below) /\ Cardinality(below) <= Cardinality(c)
  BY <1>1, FS_Subset
<1>3. Cardinality(below) \in Nat /\ Cardinality(below) # 0
  BY <1>1, <1>2, FS_CardinalityType, FS_EmptySet
<1> HIDE DEF below
<1>4. 1 <= Cardinality(below)
  BY <1>3
<1> QED
  BY <1>2, <1>3, <1>4 DEF below, RankIn

\* The larger member has the larger rank.
LEMMA RankGrows ==
  ASSUME NEW c, c \subseteq Nat, IsFiniteSet(c), NEW p \in c, NEW q \in c, p < q
  PROVE  RankIn(c, p) < RankIn(c, q)
<1> DEFINE P == {x \in c : x <= p}
           Q == {x \in c : x <= q}
<1>1. P \in SUBSET Q /\ q \in Q /\ q \notin P
  <2>1. p \in Nat /\ q \in Nat /\ \A x \in c : x \in Nat
    OBVIOUS
  <2>2. ASSUME NEW x \in P PROVE x \in Q
    BY <2>1
  <2>3. q \in Q /\ q \notin P
    BY <2>1
  <2> HIDE DEF P, Q
  <2> QED
    BY <2>2, <2>3
<1>2. IsFiniteSet(Q)
  <2>1. Q \in SUBSET c
    OBVIOUS
  <2> QED
    BY <2>1, FS_Subset
<1>3. Cardinality(P) <= Cardinality(Q) /\ Cardinality(P) # Cardinality(Q)
  BY <1>1, <1>2, FS_Subset
<1>4. Cardinality(P) \in Nat /\ Cardinality(Q) \in Nat
  BY <1>1, <1>2, FS_Subset, FS_CardinalityType
<1> HIDE DEF P, Q
<1>5. Cardinality(P) < Cardinality(Q)
  BY <1>3, <1>4
<1> QED
  BY <1>5 DEF P, Q, RankIn

\* No two members share a rank.
LEMMA RankDistinct ==
  ASSUME NEW c, c \subseteq Nat, IsFiniteSet(c), NEW p \in c, NEW q \in c,
         RankIn(c, p) = RankIn(c, q)
  PROVE  p = q
<1>1. p \in Nat /\ q \in Nat /\ RankIn(c, p) \in Nat
  BY RankRange
<1>2. ~ (p < q) /\ ~ (q < p)
  <2>1. p < q => RankIn(c, p) < RankIn(c, q)
    BY RankGrows
  <2>2. q < p => RankIn(c, q) < RankIn(c, p)
    BY RankGrows
  <2> QED
    BY <1>1, <2>1, <2>2
<1> QED
  BY <1>1, <1>2

\* Every rank is taken: the ranks are as many as the elements.
LEMMA RankTaken ==
  ASSUME NEW c, c \subseteq Nat, IsFiniteSet(c), NEW r \in 1 .. Cardinality(c)
  PROVE  \E p \in c : RankIn(c, p) = r
<1> DEFINE f == [p \in c |-> RankIn(c, p)]
           T == 1 .. Cardinality(c)
<1>1. Cardinality(c) \in Nat
  BY FS_CardinalityType
<1>2. f \in [c -> T]
  <2>1. ASSUME NEW p \in c PROVE RankIn(c, p) \in T
    <3>1. RankIn(c, p) \in Nat /\ 1 <= RankIn(c, p) /\ RankIn(c, p) <= Cardinality(c)
      BY RankRange
    <3> QED
      BY <1>1, <3>1
  <2> HIDE DEF T
  <2> QED
    BY <2>1
<1>3. \A p, q \in c : f[p] = f[q] => p = q
  BY RankDistinct
<1>4. f \in Injection(c, T)
  BY <1>2, <1>3 DEF Injection, IsInjective
<1>5. IsFiniteSet(T) /\ Cardinality(T) = Cardinality(c)
  BY <1>1, FS_Interval
<1>6. f \in Surjection(c, T)
  BY <1>4, <1>5, FS_Injection
<1>7. \E p \in c : f[p] = r
  BY <1>6 DEF Surjection
<1> QED
  BY <1>7

-----------------------------------------------------------------------------
(* Sums. *)

\* The recursive function SumFunctionOnSet(f, S) is the value of at S: of the sets left
\* it adds up one element after the other.
AnyOf(s) == CHOOSE x \in s : TRUE
SumsBody(f, g, s) == IF s = {} THEN 0 ELSE f[AnyOf(s)] + g[s \ {AnyOf(s)}]
Sums(f, S) == CHOOSE g : g = [s \in SUBSET S |-> SumsBody(f, g, s)]

\* Unfolding the library's folds.
LEMMA SumUnfold ==
  ASSUME NEW f, NEW S
  PROVE  SumFunctionOnSet(f, S) = Sums(f, S)[S]
  BY DEF SumFunctionOnSet, FoldFunctionOnSet, MapThenFoldSet, Sums, SumsBody, AnyOf

\* A set without one of its elements.
LEMMA WithoutOne ==
  ASSUME NEW S, IsFiniteSet(S), NEW s \in SUBSET S, NEW x \in s
  PROVE  /\ s \ {x} \in SUBSET S
         /\ Cardinality(s) \in Nat /\ Cardinality(s \ {x}) \in Nat
         /\ Cardinality(s \ {x}) < Cardinality(s)
<1>1. IsFiniteSet(s) /\ IsFiniteSet(s \ {x})
  BY FS_Subset
<1>2. Cardinality(s \ {x}) = Cardinality(s) - 1
  BY <1>1, FS_RemoveElement
<1> QED
  BY <1>1, <1>2, FS_CardinalityType

\* A set of subsets of a finite set has a smallest member.
LEMMA SmallestSubset ==
  ASSUME NEW S, IsFiniteSet(S), NEW B, B \subseteq SUBSET S, B # {}
  PROVE  \E s \in B : /\ s \in SUBSET S
                      /\ \A x \in s : s \ {x} \in SUBSET S /\ s \ {x} \notin B
<1> DEFINE T == {Cardinality(r) : r \in B}
<1>1. T \subseteq Nat /\ T # {}
  BY FS_Subset, FS_CardinalityType
<1>2. PICK x \in T : \A y \in T : x <= y
  BY <1>1, NatMin
<1>3. PICK s \in B : Cardinality(s) = x
  BY <1>2
<1>4. ASSUME NEW y \in s PROVE s \ {y} \in SUBSET S /\ s \ {y} \notin B
  <2>1. /\ s \ {y} \in SUBSET S
        /\ Cardinality(s) \in Nat /\ Cardinality(s \ {y}) \in Nat
        /\ Cardinality(s \ {y}) < Cardinality(s)
    BY WithoutOne
  <2>2. s \ {y} \in B => Cardinality(s) <= Cardinality(s \ {y})
    BY <1>2, <1>3
  <2> QED
    BY <2>1, <2>2
<1> QED
  BY <1>3, <1>4

\* Such a function exists: on the sets of up to k elements, for every k.
LEMMA SumsExist ==
  ASSUME NEW S, IsFiniteSet(S), NEW f, \A x \in S : f[x] \in Nat
  PROVE  \A s \in SUBSET S : Sums(f, S)[s] = SumsBody(f, Sums(f, S), s)
<1> DEFINE D(k) == {s \in SUBSET S : Cardinality(s) <= k}
           Good(g, k) == g \in [D(k) -> Nat] /\ \A s \in D(k) : g[s] = SumsBody(f, g, s)
           Bad == {k \in Nat : ~ \E g : Good(g, k)}
<1>1. \A s \in SUBSET S : IsFiniteSet(s) /\ Cardinality(s) \in Nat
  BY FS_Subset, FS_CardinalityType
<1>2. \A s \in SUBSET S : s # {} => /\ AnyOf(s) \in s /\ f[AnyOf(s)] \in Nat
                                    /\ s \ {AnyOf(s)} \in SUBSET S
                                    /\ Cardinality(s) \in Nat \ {0}
                                    /\ Cardinality(s \ {AnyOf(s)}) = Cardinality(s) - 1
  <2> SUFFICES ASSUME NEW s \in SUBSET S, s # {}
               PROVE  /\ AnyOf(s) \in s /\ f[AnyOf(s)] \in Nat
                      /\ s \ {AnyOf(s)} \in SUBSET S
                      /\ Cardinality(s) \in Nat \ {0}
                      /\ Cardinality(s \ {AnyOf(s)}) = Cardinality(s) - 1
    OBVIOUS
  <2>1. AnyOf(s) \in s
    BY DEF AnyOf
  <2>2. Cardinality(s) # 0
    BY <1>1, FS_EmptySet
  <2>3. Cardinality(s \ {AnyOf(s)}) = Cardinality(s) - 1
    BY <1>1, <2>1, FS_RemoveElement
  <2> QED
    BY <1>1, <2>1, <2>2, <2>3
<1>3. Bad = {}
  <2> SUFFICES ASSUME Bad # {} PROVE FALSE
    OBVIOUS
  <2>1. PICK k \in Bad : \A y \in Bad : k <= y
    BY NatMin
  <2>2. CASE k = 0
    <3>1. ASSUME NEW s \in SUBSET S, Cardinality(s) <= 0 PROVE s = {}
      <4>1. s # {} => Cardinality(s) \in Nat \ {0}
        BY <1>2
      <4>2. \A c \in Nat \ {0} : ~ (c <= 0)
        OBVIOUS
      <4> QED
        BY <3>1, <4>1, <4>2
    <3>2. Good([s \in D(0) |-> 0], 0)
      BY <3>1 DEF SumsBody
    <3> QED
      BY <2>1, <2>2, <3>2
  <2>3. CASE k # 0
    <3>1. k - 1 \in Nat /\ k - 1 \notin Bad
      <4>1. k \in Nat
        OBVIOUS
      <4>2. k - 1 \in Nat /\ k - 1 < k
        BY <2>3, <4>1
      <4> HIDE DEF Bad
      <4> QED
        BY <2>1, <4>1, <4>2
    <3>2. PICK g : Good(g, k - 1)
      BY <3>1
    <3> DEFINE h == [s \in D(k) |-> SumsBody(f, g, s)]
    <3>3. \A s \in D(k) : s # {} => s \ {AnyOf(s)} \in D(k - 1) /\ s \ {AnyOf(s)} \in D(k)
      BY <1>1, <1>2, <2>1
    <3>4. \A s \in D(k - 1) : s \in D(k) /\ h[s] = g[s]
      BY <1>1, <2>1, <3>2
    <3>5. \A s \in D(k) : h[s] = SumsBody(f, h, s)
      BY <3>3, <3>4 DEF SumsBody
    <3>6. \A s \in D(k) : h[s] \in Nat
      BY <1>2, <3>2, <3>3 DEF SumsBody
    <3>7. h \in [D(k) -> Nat]
      BY <3>6
    <3>8. Good(h, k)
      BY <3>5, <3>7
    <3> QED
      BY <2>1, <3>8
  <2> QED
    BY <2>2, <2>3
<1>4. PICK g : Good(g, Cardinality(S))
  BY <1>1, <1>3
<1>5. D(Cardinality(S)) = SUBSET S
  BY FS_Subset
<1>6. g = [s \in SUBSET S |-> SumsBody(f, g, s)]
  BY <1>4, <1>5
<1>7. Sums(f, S) = [s \in SUBSET S |-> SumsBody(f, Sums(f, S), s)]
  BY <1>6 DEF Sums
<1> QED
  BY <1>7

\* Its values are natural numbers.
LEMMA SumsNat ==
  ASSUME NEW S, IsFiniteSet(S), NEW f, \A x \in S : f[x] \in Nat
  PROVE  \A s \in SUBSET S : Sums(f, S)[s] \in Nat
<1> DEFINE G == Sums(f, S)
           B == {s \in SUBSET S : G[s] \notin Nat}
<1> SUFFICES ASSUME B # {} PROVE FALSE
  OBVIOUS
<1>a. B \subseteq SUBSET S
  OBVIOUS
<1>1. PICK s \in B : /\ s \in SUBSET S
                    /\ \A x \in s : s \ {x} \in SUBSET S /\ s \ {x} \notin B
  <2> HIDE DEF B
  <2> QED
    BY <1>a, SmallestSubset
<1>2. G[s] = SumsBody(f, G, s)
  BY <1>1, SumsExist
<1>3. s # {}
  BY <1>2 DEF SumsBody
<1> DEFINE c == AnyOf(s)
<1>4. c \in s
  BY <1>3 DEF AnyOf
<1>5. s \ {c} \notin B
  BY <1>1, <1>4
<1>6. G[s] = f[c] + G[s \ {c}]
  BY <1>2, <1>3 DEF SumsBody
<1>7. f[c] \in Nat /\ G[s \ {c}] \in Nat
  BY <1>4, <1>5
<1> QED
  BY <1>6, <1>7

\* The sum does not depend on the order: any element may be taken first.
LEMMA SumsAny ==
  ASSUME NEW S, IsFiniteSet(S), NEW f, \A x \in S : f[x] \in Nat
  PROVE  \A s \in SUBSET S : \A y \in s : Sums(f, S)[s] = f[y] + Sums(f, S)[s \ {y}]
<1> DEFINE G == Sums(f, S)
           B == {s \in SUBSET S : \E y \in s : G[s] # f[y] + G[s \ {y}]}
<1> SUFFICES ASSUME B # {} PROVE FALSE
  OBVIOUS
<1>a. B \subseteq SUBSET S
  OBVIOUS
<1>1. PICK s \in B : /\ s \in SUBSET S
                    /\ \A x \in s : s \ {x} \in SUBSET S /\ s \ {x} \notin B
  <2> HIDE DEF B
  <2> QED
    BY <1>a, SmallestSubset
<1>2. PICK y \in s : G[s] # f[y] + G[s \ {y}]
  BY <1>1
<1> DEFINE c == AnyOf(s)
<1>3. c \in s /\ G[s] = f[c] + G[s \ {c}]
  <2>1. G[s] = SumsBody(f, G, s)
    BY <1>1, SumsExist
  <2> QED
    BY <2>1 DEF SumsBody, AnyOf
<1>4. c # y
  BY <1>2, <1>3
<1>5. s \ {c} \notin B /\ s \ {y} \notin B
  BY <1>1, <1>3
<1>6. G[s \ {c}] = f[y] + G[(s \ {c}) \ {y}]
  BY <1>4, <1>5
<1>7. G[s \ {y}] = f[c] + G[(s \ {y}) \ {c}]
  BY <1>3, <1>4, <1>5
<1>8. (s \ {c}) \ {y} = (s \ {y}) \ {c}
  OBVIOUS
<1>9. f[c] \in Nat /\ f[y] \in Nat /\ G[(s \ {c}) \ {y}] \in Nat
  BY <1>1, <1>3, SumsNat
<1> DEFINE r == G[(s \ {c}) \ {y}]
<1>10. G[s] = f[c] + (f[y] + r) /\ G[s \ {y}] = f[c] + r
  BY <1>3, <1>6, <1>7, <1>8
<1> HIDE DEF G, c, r
<1> QED
  BY <1>2, <1>9, <1>10 DEF r

\* Two functions whose sums are over the same set, one element of which differs.
LEMMA SumsBump ==
  ASSUME NEW S, IsFiniteSet(S), NEW f, \A x \in S : f[x] \in Nat,
         NEW h, NEW i \in S, h[i] = f[i] + 1, \A x \in S \ {i} : h[x] = f[x]
  PROVE  Sums(h, S)[S] = Sums(f, S)[S] + 1
<1> DEFINE G == Sums(f, S)
           H == Sums(h, S)
           B == {s \in SUBSET S : H[s] # G[s] + (IF i \in s THEN 1 ELSE 0)}
<1>0. \A x \in S : h[x] \in Nat
  OBVIOUS
<1> SUFFICES ASSUME B # {} PROVE FALSE
  OBVIOUS
<1>a. B \subseteq SUBSET S
  OBVIOUS
<1>1. PICK s \in B : /\ s \in SUBSET S
                    /\ \A x \in s : s \ {x} \in SUBSET S /\ s \ {x} \notin B
  <2> HIDE DEF B
  <2> QED
    BY <1>a, SmallestSubset
<1>2. G[s] = SumsBody(f, G, s) /\ H[s] = SumsBody(h, H, s)
  BY <1>0, <1>1, SumsExist
<1>3. s # {}
  BY <1>1, <1>2 DEF SumsBody
<1> DEFINE c == AnyOf(s)
<1>4. c \in s
  BY <1>3 DEF AnyOf
<1>5. G[s] = f[c] + G[s \ {c}] /\ H[s] = h[c] + H[s \ {c}]
  BY <1>2, <1>3 DEF SumsBody
<1>6. s \ {c} \notin B
  BY <1>1, <1>4
<1>7. /\ f[c] \in Nat /\ h[c] \in Nat /\ G[s \ {c}] \in Nat
      /\ H[s \ {c}] = G[s \ {c}] + (IF i \in s \ {c} THEN 1 ELSE 0)
      /\ H[s] # G[s] + (IF i \in s THEN 1 ELSE 0)
  BY <1>0, <1>1, <1>4, <1>6, SumsNat
<1>8. CASE c = i
  BY <1>4, <1>5, <1>7, <1>8
<1>9. CASE c # i
  BY <1>4, <1>5, <1>7, <1>9
<1> QED
  BY <1>8, <1>9

\* On the subsets of both sets the sums agree.
LEMMA SumsAgree ==
  ASSUME NEW S, IsFiniteSet(S), NEW f, \A x \in S : f[x] \in Nat,
         NEW T, IsFiniteSet(T), NEW h, \A x \in T : h[x] \in Nat,
         S \subseteq T, \A x \in S : f[x] = h[x]
  PROVE  \A s \in SUBSET S : Sums(f, S)[s] = Sums(h, T)[s]
<1> DEFINE G == Sums(f, S)
           H == Sums(h, T)
           B == {s \in SUBSET S : H[s] # G[s]}
<1> SUFFICES ASSUME B # {} PROVE FALSE
  OBVIOUS
<1>a. B \subseteq SUBSET S
  OBVIOUS
<1>1. PICK s \in B : /\ s \in SUBSET S
                    /\ \A x \in s : s \ {x} \in SUBSET S /\ s \ {x} \notin B
  <2> HIDE DEF B
  <2> QED
    BY <1>a, SmallestSubset
<1>2. G[s] = SumsBody(f, G, s) /\ H[s] = SumsBody(h, H, s)
  BY <1>1, SumsExist
<1>3. s # {}
  BY <1>1, <1>2 DEF SumsBody
<1> DEFINE c == AnyOf(s)
<1>4. c \in s
  BY <1>3 DEF AnyOf
<1>5. s \ {c} \notin B
  BY <1>1, <1>4
<1>6. G[s] = f[c] + G[s \ {c}] /\ H[s] = h[c] + H[s \ {c}]
  BY <1>2, <1>3 DEF SumsBody
<1> QED
  BY <1>1, <1>4, <1>5, <1>6

\* The sum of no terms.
LEMMA SumOfNone ==
  ASSUME NEW f, DOMAIN f = {} PROVE SumFunction(f) = 0
<1>1. Sums(f, {})[{}] = SumsBody(f, Sums(f, {}), {})
  BY FS_EmptySet, SumsExist
<1>2. SumFunction(f) = Sums(f, {})[{}]
  BY SumUnfold DEF SumFunction
<1> QED
  BY <1>1, <1>2 DEF SumsBody

\* A sum of naturals is a natural.
LEMMA SumIsNat ==
  ASSUME NEW S, IsFiniteSet(S), NEW f \in [S -> Nat]
  PROVE  SumFunction(f) \in Nat
<1>1. SumFunction(f) = Sums(f, S)[S]
  BY SumUnfold DEF SumFunction
<1>2. S \in SUBSET S /\ \A x \in S : f[x] \in Nat
  OBVIOUS
<1> QED
  BY <1>1, <1>2, SumsNat

\* One more term.
LEMMA SumOfAnother ==
  ASSUME NEW S, IsFiniteSet(S), NEW f \in [S -> Nat], NEW x, x \notin S,
         NEW T, T = S \cup {x}, NEW h \in [T -> Nat], \A y \in S : h[y] = f[y]
  PROVE  SumFunction(h) = SumFunction(f) + h[x]
<1>1. IsFiniteSet(T)
  BY FS_AddElement
<1>2. SumFunction(f) = Sums(f, S)[S] /\ SumFunction(h) = Sums(h, T)[T]
  BY SumUnfold DEF SumFunction
<1>3. Sums(f, S)[S] = Sums(h, T)[S]
  <2>1. S \subseteq T
    OBVIOUS
  <2> QED
    BY <1>1, <2>1, SumsAgree
<1>4. Sums(h, T)[T] = h[x] + Sums(h, T)[T \ {x}]
  <2>1. x \in T /\ T \in SUBSET T /\ \A y \in T : h[y] \in Nat
    OBVIOUS
  <2> QED
    BY <1>1, <2>1, SumsAny
<1>5. Sums(h, T)[S] \in Nat /\ h[x] \in Nat
  <2>1. x \in T /\ S \in SUBSET T /\ \A y \in T : h[y] \in Nat
    OBVIOUS
  <2> QED
    BY <1>1, <2>1, SumsNat
<1>6. T \ {x} = S
  OBVIOUS
<1> QED
  BY <1>2, <1>3, <1>4, <1>5, <1>6

\* The same, one of the terms being set apart.
LEMMA SumSplit ==
  ASSUME NEW T, IsFiniteSet(T), NEW h \in [T -> Nat], NEW x \in T
  PROVE  SumFunction(h) = SumFunction([y \in T \ {x} |-> h[y]]) + h[x]
<1> DEFINE S == T \ {x}
           f == [y \in S |-> h[y]]
<1>1. IsFiniteSet(S) /\ x \notin S /\ T = S \cup {x}
  BY FS_Subset
<1>2. f \in [S -> Nat] /\ \A y \in S : h[y] = f[y]
  OBVIOUS
<1> HIDE DEF S, f
<1>3. SumFunction(h) = SumFunction(f) + h[x]
  BY <1>1, <1>2, SumOfAnother
<1> QED
  BY <1>3 DEF S, f

\* One more term, of nothing.
LEMMA SumOfMore ==
  ASSUME NEW S, IsFiniteSet(S), NEW f \in [S -> Nat], NEW x, x \notin S,
         NEW T, T = S \cup {x}, NEW h \in [T -> Nat], h[x] = 0, \A y \in S : h[y] = f[y]
  PROVE  SumFunction(h) = SumFunction(f)
  BY SumOfAnother, SumIsNat

\* One more to one of the terms.
LEMMA SumOfOneMore ==
  ASSUME NEW S, IsFiniteSet(S), NEW f \in [S -> Nat], NEW i \in S,
         NEW h \in [S -> Nat], h[i] = f[i] + 1, \A y \in S \ {i} : h[y] = f[y]
  PROVE  SumFunction(h) = SumFunction(f) + 1
<1>1. SumFunction(f) = Sums(f, S)[S] /\ SumFunction(h) = Sums(h, S)[S]
  BY SumUnfold DEF SumFunction
<1> QED
  BY <1>1, SumsBump

\* Larger terms, a larger sum: by at least one for each.
LEMMA SumOfLarger ==
  ASSUME NEW S, IsFiniteSet(S), NEW f \in [S -> Nat], NEW h \in [S -> Nat],
         \A x \in S : f[x] + 1 <= h[x]
  PROVE  SumFunction(f) + Cardinality(S) <= SumFunction(h)
<1> DEFINE G == Sums(f, S)
           H == Sums(h, S)
           B == {s \in SUBSET S : ~ (G[s] + Cardinality(s) <= H[s])}
<1>0. SumFunction(f) = G[S] /\ SumFunction(h) = H[S]
  BY SumUnfold DEF SumFunction
<1>z. \A x \in S : f[x] \in Nat /\ h[x] \in Nat
  OBVIOUS
<1>a. B \subseteq SUBSET S
  OBVIOUS
<1>b. B = {}
  <2> SUFFICES ASSUME B # {} PROVE FALSE
    OBVIOUS
  <2>1. PICK s \in B : /\ s \in SUBSET S
                      /\ \A x \in s : s \ {x} \in SUBSET S /\ s \ {x} \notin B
    <3> HIDE DEF B
    <3> QED
      BY <1>a, SmallestSubset
  <2>2. G[s] = SumsBody(f, G, s) /\ H[s] = SumsBody(h, H, s)
    BY <1>z, <2>1, SumsExist
  <2>3. s # {}
    <3> SUFFICES ASSUME s = {} PROVE FALSE
      OBVIOUS
    <3>1. G[s] = 0 /\ H[s] = 0 /\ Cardinality(s) = 0
      BY <2>2, FS_EmptySet DEF SumsBody
    <3> QED
      BY <2>1, <3>1
  <2> DEFINE c == AnyOf(s)
  <2>4. c \in s
    BY <2>3 DEF AnyOf
  <2>5. G[s] = f[c] + G[s \ {c}] /\ H[s] = h[c] + H[s \ {c}]
    BY <2>2, <2>3 DEF SumsBody
  <2>6. IsFiniteSet(s) /\ Cardinality(s) \in Nat /\ Cardinality(s \ {c}) = Cardinality(s) - 1
    BY <2>1, <2>4, FS_Subset, FS_RemoveElement, FS_CardinalityType
  <2>7. G[s \ {c}] + Cardinality(s \ {c}) <= H[s \ {c}]
    BY <2>1, <2>4
  <2>8. G[s \ {c}] \in Nat /\ H[s \ {c}] \in Nat
    BY <1>z, <2>1, <2>4, SumsNat
  <2>9. f[c] \in Nat /\ h[c] \in Nat /\ f[c] + 1 <= h[c]
    BY <1>z, <2>1, <2>4
  <2>10. ~ (G[s] + Cardinality(s) <= H[s])
    BY <2>1
  <2> HIDE DEF G, H, B, c
  <2> QED
    BY <2>5, <2>6, <2>7, <2>8, <2>9, <2>10
<1> QED
  BY <1>0, <1>b

\* A sum of zeros is zero.
LEMMA SumOfZeros ==
  ASSUME NEW S, IsFiniteSet(S)
  PROVE  SumFunction([x \in S |-> 0]) = 0
<1> DEFINE f == [x \in S |-> 0]
           G == Sums(f, S)
           B == {s \in SUBSET S : G[s] # 0}
<1>z. f \in [S -> Nat] /\ \A x \in S : f[x] = 0
  OBVIOUS
<1>0. SumFunction(f) = G[S]
  <2> HIDE DEF f
  <2> QED
    BY <1>z, SumUnfold DEF SumFunction
<1>a. B \subseteq SUBSET S
  OBVIOUS
<1>b. B = {}
  <2> SUFFICES ASSUME B # {} PROVE FALSE
    OBVIOUS
  <2>1. PICK s \in B : /\ s \in SUBSET S
                      /\ \A x \in s : s \ {x} \in SUBSET S /\ s \ {x} \notin B
    <3> HIDE DEF B
    <3> QED
      BY <1>a, SmallestSubset
  <2> HIDE DEF f
  <2>2. G[s] = SumsBody(f, G, s)
    BY <1>z, <2>1, SumsExist
  <2>3. s # {}
    <3> SUFFICES ASSUME s = {} PROVE FALSE
      OBVIOUS
    <3>1. G[s] = 0
      BY <2>2 DEF SumsBody
    <3> QED
      BY <2>1, <3>1
  <2> DEFINE c == AnyOf(s)
  <2>4. c \in s
    BY <2>3 DEF AnyOf
  <2>5. G[s] = f[c] + G[s \ {c}]
    BY <2>2, <2>3 DEF SumsBody
  <2>6. G[s \ {c}] = 0 /\ G[s] # 0
    BY <2>1, <2>4
  <2>7. f[c] = 0
    BY <1>z, <2>1, <2>4
  <2> HIDE DEF G, B, c
  <2> QED
    BY <2>5, <2>6, <2>7
<1> QED
  BY <1>0, <1>b

-----------------------------------------------------------------------------
(* Greatest elements. *)

\* A finite set of naturals that is not empty has a greatest element.
LEMMA NatMax ==
  ASSUME NEW S, S \subseteq Nat, IsFiniteSet(S), S # {}
  PROVE  \E m \in S : \A n \in S : n <= m
<1> DEFINE B == {s \in SUBSET S : s # {} /\ ~ \E m \in s : \A n \in s : n <= m}
<1> SUFFICES ASSUME B # {} PROVE FALSE
  OBVIOUS
<1>a. B \subseteq SUBSET S
  OBVIOUS
<1>1. PICK s \in B : /\ s \in SUBSET S
                    /\ \A x \in s : s \ {x} \in SUBSET S /\ s \ {x} \notin B
  <2> HIDE DEF B
  <2> QED
    BY <1>a, SmallestSubset
<1>2. PICK x \in s : TRUE
  BY <1>1
<1>3. s \ {x} # {}
  <2> SUFFICES ASSUME s \ {x} = {} PROVE FALSE
    OBVIOUS
  <2>1. \A n \in s : n = x
    OBVIOUS
  <2>2. \A n \in s : n <= x
    BY <1>1, <2>1
  <2> QED
    BY <1>1, <2>2
<1>4. PICK m \in s \ {x} : \A n \in s \ {x} : n <= m
  BY <1>1, <1>3
<1>5. x \in Nat /\ m \in Nat /\ m \in s /\ \A n \in s : n \in Nat
  BY <1>1
<1>6. CASE x <= m
  <2>1. \A n \in s : n <= m
    BY <1>4, <1>6
  <2> QED
    BY <1>1, <1>5, <2>1
<1>7. CASE ~ (x <= m)
  <2>1. \A n \in s : n <= x
    BY <1>4, <1>5, <1>7
  <2> QED
    BY <1>1, <2>1
<1> QED
  BY <1>6, <1>7

=============================================================================
